SPECIFICATION Spec
CONSTANTS
  a = a
  b = b
  Clients <- Both
  MaxBlocks <- FourAndTwo
  MAX_OBJECTS = 4
CONSTRAINT Bounded
INVARIANTS NoFault ListSound LeftBehind
PROPERTY OthersKept
\* The clients hang up, or the server crashes.
CHECK_DEADLOCK FALSE
