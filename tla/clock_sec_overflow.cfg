SPECIFICATION Spec
CONSTANTS
  MsecPerSec = 2
  SecPerMin = 2
  MinPerHour = 1
  HourPerDay = 2
  DayMod = 4
  SecMod = 4
  Callbacks = {c1}
  Delays <- LongDelays
  MaxDay = 2
  MaxNest = 1
PROPERTY NeverEarly
