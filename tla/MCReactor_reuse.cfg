\* Two workers, none overtaken by the next handler of its number; connections
\* and files that come and go and share numbers. Each page keeps one number
\* for good.
CONSTANTS
  Workers = {w1, w2}
  NoEvent = NoEvent
  NoEntry = NoEntry
  NoFd = NoFd
  Fds = {1, 2, 3, 4, 5, 6, 7}
  Kinds = {"downl", "del", "form"}
  MaxConns = 2
  MaxRequests = 1
  HeadUnits = 2
  BodyUnits = 1
  SendCap = 1
  Polite = TRUE
  MayClose = TRUE
  WriteOpens = {TRUE}
SPECIFICATION SafetyApart
INVARIANTS RightAnswers FileStaysOpen
PROPERTIES ImplementsExchange OnlyGoneClientsAreClosed
SYMMETRY WorkerSymmetry
CHECK_DEADLOCK FALSE
