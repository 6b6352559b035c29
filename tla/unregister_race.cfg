SPECIFICATION Spec
CONSTANTS
  Callbacks = {c1, c2}
  NULL = NULL
  Interruptible = TRUE
  MaxNest = 1
INVARIANT RemovedStaysOut
