\* One download after the other on a connection (two workers).
CONSTANTS
  Workers = {w1, w2}
  NoEvent = NoEvent
  NoEntry = NoEntry
  NoFd = NoFd
  Fds = {1, 2, 3}
  Kinds = {"downl"}
  MaxConns = 1
  MaxRequests = 2
  HeadUnits = 1
  BodyUnits = 2
  SendCap = 2
  Polite = TRUE
  MayClose = FALSE
  WriteOpens = {TRUE}
SPECIFICATION Safety
INVARIANT FileStaysOpen
CHECK_DEADLOCK FALSE
