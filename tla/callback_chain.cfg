SPECIFICATION Spec
CONSTANTS
  Callbacks = {c1, c2, c3, c4}
  NULL = NULL
  Interruptible = FALSE
  MaxNest = 2
SYMMETRY Symmetry
INVARIANT RemovedStaysOut
PROPERTY ImplementsList
