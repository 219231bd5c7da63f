\* One worker; a client that asks for anything but PUT, reads the answer and
\* asks again; files that may fail to open, and descriptors for two pages.
CONSTANTS
  Workers = {w1}
  NoEvent = NoEvent
  NoEntry = NoEntry
  NoFd = NoFd
  Fds = {1, 2, 3, 4}
  Kinds = {"list", "downl", "del", "other", "form", "badupload", "upload",
           "unknown"}
  MaxConns = 1
  MaxRequests = 3
  HeadUnits = 2
  BodyUnits = 2
  SendCap = 2
  Polite = TRUE
  MayClose = TRUE
  WriteOpens = {TRUE, FALSE}
SPECIFICATION Spec
INVARIANT OnlyShortageEndsServer
PROPERTIES ImplementsExchange EventuallyAnswered
CHECK_DEADLOCK FALSE
