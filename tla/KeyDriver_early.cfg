\* The code's KEY_LONG_PRESS_3S and timer period.
SPECIFICATION Spec
CONSTANTS
  LongPress = 500
  Steady = 4
  Cap = 1600
PROPERTIES ResetTakes3S
