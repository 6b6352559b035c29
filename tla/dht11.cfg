SPECIFICATION FairSpec
CONSTANTS
  NBytes = 2
  NBits = 2
  TicksPerMs = 4
  Threshold = 1
  ShortPulse = 1
  LongPulse = 3
INVARIANTS TypeOK DataFaithful ReadyIsQuiet
PROPERTY Completes
