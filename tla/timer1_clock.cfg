SPECIFICATION Spec
CONSTANTS
  MsecPerSec = 2
  SecPerMin = 2
  MinPerHour = 1
  HourPerDay = 2
  DayMod = 4
  SecMod = 4
  Callbacks = {c1, c2}
  Delays <- MCDelays
  MaxDay = 1
  MaxNest = 2
SYMMETRY Symmetry
INVARIANTS TypeOK  LatenessBound
PROPERTY NeverEarly
CHECK_DEADLOCK TRUE
