SPECIFICATION Spec
CONSTANTS
  a = a
  b = b
  Clients <- Both
  MaxFd = 3
  MAX_OBJECTS = 4
  MaxId <- FiveAndThree
INVARIANTS PoolOutlivesBuffers NoDescriptorLeft
PROPERTY ConnectionsAccepted
\* The compositor may be ended by SIGPIPE: the model then stops.
CHECK_DEADLOCK FALSE
