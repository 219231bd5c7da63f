\* Two connections between two looks of the main thread.
CONSTANTS
  Workers = {w1}
  NoEvent = NoEvent
  NoEntry = NoEntry
  NoFd = NoFd
  Fds = {1, 2, 3, 4, 5}
  Kinds = {"list"}
  MaxConns = 2
  MaxRequests = 1
  HeadUnits = 1
  BodyUnits = 1
  SendCap = 1
  Polite = TRUE
  MayClose = FALSE
  WriteOpens = {TRUE}
SPECIFICATION Spec
PROPERTY EventuallyAccepted
CHECK_DEADLOCK FALSE
