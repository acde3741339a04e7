\* Every status of 4 ports over every byte; every moment of a small clock;
\* the readings of two hours.
SPECIFICATION Spec
CONSTANTS
  N = 4
  Bases <- MCBases
  Targets <- MCTargets
  HourWindow = 5
  Sockets = 2
  MinReadings = 5
  ReadEvery = 2
  Ahead = 3
  RecordHours = 2
INVARIANTS PackMatchesLoop PackIsExact ClockType NeverBehind HourMarkTrue ReadingsAreCounted
PROPERTIES SetTakes EachHourOnce ClockIsWallClock
