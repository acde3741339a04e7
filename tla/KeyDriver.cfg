\* Short and long presses, and one that lasts since power-on.
SPECIFICATION FairSpec
CONSTANTS
  LongPress = 13
  Steady = 4
  Cap = 24
INVARIANTS KeyType
PROPERTIES PressesAnswered EveryPressEnds
