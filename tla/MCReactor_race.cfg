\* Two workers and clients that do as they like, on a number used twice; PUT
\* requests whose file may fail to open, and pages no number is left for.
CONSTANTS
  Workers = {w1, w2}
  NoEvent = NoEvent
  NoEntry = NoEntry
  NoFd = NoFd
  Fds = {1}
  Kinds = {"other", "put", "list"}
  MaxConns = 2
  MaxRequests = 1
  HeadUnits = 1
  BodyUnits = 1
  SendCap = 1
  Polite = FALSE
  MayClose = TRUE
  WriteOpens = {TRUE, FALSE}
SPECIFICATION Safety
INVARIANTS TypeOK FirstUseExclusive AcceptFindsConnection NoConnectionLost
           ResponsesNamed
SYMMETRY WorkerSymmetry
CHECK_DEADLOCK FALSE
