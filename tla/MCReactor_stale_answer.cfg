\* An answer interrupted by its client, and the next connection on the
\* number.
CONSTANTS
  Workers = {w1}
  NoEvent = NoEvent
  NoEntry = NoEntry
  NoFd = NoFd
  Fds = {1, 2, 3}
  Kinds = {"list"}
  MaxConns = 2
  MaxRequests = 1
  HeadUnits = 1
  BodyUnits = 2
  SendCap = 1
  Polite = FALSE
  MayClose = TRUE
  WriteOpens = {TRUE}
SPECIFICATION Safety
INVARIANT RightAnswers
CHECK_DEADLOCK FALSE
