CONSTANTS
  MaxMoves = 5
  MaxNest = 2
SPECIFICATION KnobSpec
INVARIANTS KnobTypeOK DetentExact CountsPosition EvenError
 
CHECK_DEADLOCK FALSE
