\* The tail of HandleRecv against the next request (two workers).
CONSTANTS
  Workers = {w1, w2}
  NoEvent = NoEvent
  NoEntry = NoEntry
  NoFd = NoFd
  Fds = {1, 2, 3}
  Kinds = {"list", "other"}
  MaxConns = 1
  MaxRequests = 2
  HeadUnits = 1
  BodyUnits = 1
  SendCap = 1
  Polite = TRUE
  MayClose = FALSE
  WriteOpens = {TRUE}
SPECIFICATION Safety
INVARIANT RightAnswers
CHECK_DEADLOCK FALSE
