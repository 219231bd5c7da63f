\* Two workers; SIGINT, and signal 16, which stops nothing; three signals,
\* of which the socket pair has room for two.
CONSTANTS
  ThreadNum = 2
  Signals = {2, 16}
  PipeCap = 2
  MaxSignals = 3
  MaxEvents = 2
SPECIFICATION Spec
INVARIANT PoolOutlivesLoop
PROPERTIES StopEndsLoop ProcessEndsWithPool
CHECK_DEADLOCK FALSE
