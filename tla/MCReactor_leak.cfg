\* One worker and one client that reads the list twice.
CONSTANTS
  Workers = {w1}
  NoEvent = NoEvent
  NoEntry = NoEntry
  NoFd = NoFd
  Fds = {1, 2, 3}
  Kinds = {"list"}
  MaxConns = 1
  MaxRequests = 2
  HeadUnits = 1
  BodyUnits = 1
  SendCap = 1
  Polite = TRUE
  MayClose = FALSE
  WriteOpens = {TRUE}
SPECIFICATION Safety
INVARIANT StaysAlive
CHECK_DEADLOCK FALSE
