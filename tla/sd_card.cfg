CONSTANTS
  HasPower = TRUE
  MaxCmd0 = 3
  MaxAcmd41 = 3
  MaxToken = 3
  MaxResponse = 3
  MaxBusy = 3
  MaxReady = 3
SPECIFICATION Spec
INVARIANT TypeOK
PROPERTIES OkIsEarned BusLeftFree Returns
