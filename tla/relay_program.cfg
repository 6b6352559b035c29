SPECIFICATION Spec
CONSTANTS
  Word = 5
  TicksPerSecond = 2
  Intervals = {2, 3}
  FirstInterval = 2
  MaxNest = 2
INVARIANTS
  TypeOK
  CheckedEverySecond
  StopsWhenTold
  
  
PROPERTIES
  LogInTime
  AlwaysOnSettles
