------------------------- MODULE ReactorApartProofs ------------------------
(***************************************************************************)
(* What holds of every connection, and not only of the first on a number,  *)
(* as long as no handler is overtaken by the next one: for any number of   *)
(* workers, descriptors, connections and requests, and for clients that do *)
(* as they like.                                                           *)
(***************************************************************************)
EXTENDS ReactorTurnProofs

-----------------------------------------------------------------------------
(* The invariant                                                           *)

(* The place of the handler of a number, if it has one.  It has one at     *)
(* most, as HandlersApart says.                                            *)
Handler(fd) == CHOOSE w \in Workers : fdOf[w] = fd
Place(fd) == IF \E w \in Workers : fdOf[w] = fd THEN pc[Handler(fd)] ELSE "none"
IdleHandleNone ==
  \A w \in Workers : pc[w] \in {"idle", "accept"} => fdOf[w] = NoFd

Pending(fd) == {queue[i].type : i \in Queued(fd)}
Single(fd) == \A i, j \in Queued(fd) : i = j

(* What fits together of a number: o says whether it is a connection, n    *)
(* what recv and send know of its client, s is the status of its request,  *)
(* a its response, p the place of its handler, e the types of its events   *)
(* in the queue, i what epoll waits for.                                   *)
TurnPcs == HeadPcs \cup {"close"}
SoundPcs == {"armIn", "armOut", "armPut", "check", "complete", "putBody"}
Fit(o, n, s, a, p, e, i) ==
  /\ e # {} => i = "disarmed"
  /\ p \in TurnPcs => e = {} /\ i \notin {"in", "inout"}
  /\ ~o => i = "off" /\ p \in {"none", "eraseRequest"}
  /\ p = "close" => s = "ERROR"
  /\ p \in SoundPcs => s # "ERROR"
  /\ s = "ERROR" => IF o THEN n # "up" ELSE p = "eraseRequest"
  /\ p = "build" => a # NoEntry /\ a.status = "INIT"
  /\ p \in {"rearmIn", "closeFile"} => a = NoEntry
  /\ a # NoEntry /\ a.status = "INIT" => a.head = "none"
  /\ i = "inout" \/ "find" \in e \/ p \in AnswerPcs => Named(a)
FitAt(fd, p) == Fit(IsConn(fd), conn[fd].peer, request[fd].status, response[fd],
                    p, Pending(fd), interest[fd])
AllFit == \A fd \in Fds : Single(fd) /\ FitAt(fd, Place(fd))

(* A file that is sent, or was and is still to be closed, is open, and no  *)
(* two answers read the same one.                                          *)
HasFile(fd) == response[fd] # NoEntry /\ response[fd].head = "file"
Closes(w) == pc[w] \in {"rearmIn", "closeFile"} /\ erased[w] # NoFd
FilesOpen ==
  /\ \A fd \in Fds : HasFile(fd) =>
       response[fd].file \in Fds /\ fdUse[response[fd].file] = "file"
  /\ \A fd, fe \in Fds : HasFile(fd) /\ HasFile(fe) /\ fd # fe =>
                           response[fd].file # response[fe].file
  /\ \A w \in Workers : Closes(w) =>
       /\ fdUse[erased[w]] = "file"
       /\ \A fd \in Fds : HasFile(fd) => response[fd].file # erased[w]
       /\ \A v \in Workers \ {w} : Closes(v) => erased[v] # erased[w]

ApartInv == HandlersApart /\ IdleHandleNone /\ AllFit /\ FilesOpen

-----------------------------------------------------------------------------
(* Who handles what                                                        *)

LEMMA PlaceIs ==
  ASSUME HandlersApart, NEW w \in Workers, fdOf[w] # NoFd
  PROVE  Place(fdOf[w]) = pc[w]
<1> DEFINE v == Handler(fdOf[w])
<1>1. v \in Workers /\ fdOf[v] = fdOf[w]
  BY DEF Handler
<1>2. v = w
  BY <1>1 DEF HandlersApart
<1> QED BY <1>2 DEF Place

LEMMA PlaceIsNew ==
  ASSUME HandlersApart', NEW w \in Workers, fdOf'[w] # NoFd, NEW fd, fd = fdOf'[w]
  PROVE  Place(fd)' = pc'[w]
<1> DEFINE v == CHOOSE u \in Workers : fdOf'[u] = fd
<1>1. v \in Workers /\ fdOf'[v] = fdOf'[w]
  OBVIOUS
<1>2. v = w
  BY <1>1 DEF HandlersApart
<1>3. Place(fd)' = pc'[v]
  BY <1>1 DEF Place, Handler
<1> QED BY <1>2, <1>3

LEMMA PlaceNone ==
  ASSUME NEW fd, \A w \in Workers : fdOf[w] # fd
  PROVE  Place(fd) = "none"
BY DEF Place

LEMMA PlaceKept ==
  ASSUME NEW w \in Workers, NEW fd, fdOf[w] # fd, fdOf'[w] # fd,
         \A v \in Workers \ {w} : pc'[v] = pc[v] /\ fdOf'[v] = fdOf[v]
  PROVE  Place(fd)' = Place(fd)
<1>1. \A v \in Workers : fdOf'[v] = fd <=> fdOf[v] = fd
  OBVIOUS
<1>2. (CHOOSE v \in Workers : fdOf'[v] = fd) = CHOOSE v \in Workers : fdOf[v] = fd
  BY <1>1
<1>3. CASE \E v \in Workers : fdOf[v] = fd
  <2> DEFINE u == CHOOSE v \in Workers : fdOf[v] = fd
  <2>1. u \in Workers /\ fdOf[u] = fd
    BY <1>3
  <2>2. pc'[u] = pc[u]
    BY <2>1
  <2>3. Place(fd) = pc[u]
    BY <1>3 DEF Place, Handler
  <2>4. Place(fd)' = pc'[u]
    BY <1>1, <1>2, <1>3 DEF Place, Handler
  <2> QED BY <2>2, <2>3, <2>4
<1>4. CASE ~\E v \in Workers : fdOf[v] = fd
  BY <1>1, <1>4 DEF Place
<1> QED BY <1>3, <1>4

-----------------------------------------------------------------------------
(* What steps leave alone                                                  *)

SameAt(fd) == /\ IsConn(fd)' <=> IsConn(fd)
              /\ IsConn(fd)' /\ conn'[fd].peer = "up" => conn[fd].peer = "up"
              /\ interest'[fd] = interest[fd]
              /\ request'[fd].status = request[fd].status
              /\ response'[fd] = response[fd]

LEMMA FitKept ==
  ASSUME NEW fd, NEW p, FitAt(fd, p), SameAt(fd), Pending(fd)' = Pending(fd)
  PROVE  FitAt(fd, p)'
<1>1. ASSUME NEW o, NEW n, NEW m, NEW s, NEW a, NEW e, NEW i,
             Fit(o, n, s, a, p, e, i), o /\ m = "up" => n = "up"
      PROVE  Fit(o, m, s, a, p, e, i)
  BY <1>1 DEF Fit
<1>2. Fit(IsConn(fd), conn'[fd].peer, request[fd].status, response[fd], p,
          Pending(fd), interest[fd])
  BY <1>1 DEF FitAt, SameAt
<1>3. IsConn(fd)' = IsConn(fd)
  BY DEF SameAt, IsConn
<1> QED BY <1>2, <1>3 DEF FitAt, SameAt

\* The files that are sent or to be closed are the same, and stay open.
FilesStay == /\ \A f \in Fds : fdUse[f] = "file" => fdUse'[f] = "file"
             /\ \A f \in Fds : HasFile(f)' =>
                  HasFile(f) /\ response'[f].file = response[f].file
             /\ \A w \in Workers : Closes(w)' => Closes(w) /\ erased'[w] = erased[w]

LEMMA FilesKept ==
  ASSUME FilesOpen, FilesStay, erased \in [Workers -> Fds \cup {NoFd}]
  PROVE  FilesOpen'
<1>1. ASSUME NEW w \in Workers, Closes(w)
      PROVE  erased[w] \in Fds
  BY <1>1 DEF Closes
<1>2. ASSUME NEW w \in Workers, Closes(w)'
      PROVE  /\ fdUse'[erased'[w]] = "file"
             /\ \A fd \in Fds : HasFile(fd)' => response'[fd].file # erased'[w]
             /\ \A v \in Workers \ {w} : Closes(v)' => erased'[v] # erased'[w]
  BY <1>1, <1>2 DEF FilesOpen, FilesStay
<1>3. \A fd \in Fds : HasFile(fd)' =>
        response'[fd].file \in Fds /\ fdUse'[response'[fd].file] = "file"
  BY DEF FilesOpen, FilesStay
<1>4. \A fd, fe \in Fds : HasFile(fd)' /\ HasFile(fe)' /\ fd # fe =>
                            response'[fd].file # response'[fe].file
  BY DEF FilesOpen, FilesStay
<1> QED BY <1>2, <1>3, <1>4 DEF FilesOpen

(* A step of the main thread or of a client: no handler moves.             *)
LEMMA AsideIsApart ==
  ASSUME TypeInv, ApartInv, UNCHANGED <<fdUse, pc, fdOf, erased, response>>,
         \A fd \in Fds : Single(fd)' /\ FitAt(fd, Place(fd))'
  PROVE  ApartInv'
<1>1. HandlersApart' /\ IdleHandleNone'
  BY DEF ApartInv, HandlersApart, IdleHandleNone
<1>2. FilesStay
  BY DEF FilesStay, HasFile, Closes
<1>3. FilesOpen'
  BY <1>2, FilesKept, Parts DEF ApartInv, ElseOK
<1> QED BY <1>1, <1>3 DEF ApartInv, AllFit

-----------------------------------------------------------------------------
(* A step of the worker w, which handles the number fd                     *)

Serving(w, fd) == /\ TypeInv /\ ApartInv /\ HandlersApart'
                  /\ w \in Workers /\ Handling(w) /\ fd = fdOf[w]

\* It goes on at the place to, or returns.
MovesTo(w, to) == \/ to \in Places \ {"idle", "accept"} /\ Goto(w, to)
                  \/ to = "none" /\ Return(w)

LEMMA ServingIs ==
  ASSUME NEW w \in Workers, NEW fd, Serving(w, fd)
  PROVE  /\ fd \in Fds /\ Place(fd) = pc[w] /\ pc[w] \in Places \ {"idle", "accept"}
         /\ pc \in [Workers -> Places] /\ fdOf \in [Workers -> Fds \cup {NoFd}]
         /\ erased \in [Workers -> Fds \cup {NoFd}]
         /\ conn \in [Fds -> Connection] /\ request \in [Fds -> Request]
         /\ response \in [Fds -> Headed \cup {NoEntry}]
         /\ interest \in [Fds -> Interests]
         /\ fdUse \in [Fds -> {"free", "conn", "file", "dir"}]
         /\ queue \in Seq(Events)
         /\ FitAt(fd, pc[w])
         /\ IsConn(fd) \/ pc[w] = "eraseRequest"
<1>1. TypeInv /\ Handling(w) /\ fd = fdOf[w] /\ fd \in Fds
  BY HandlerData DEF Serving
<1>2. /\ pc \in [Workers -> Places] /\ fdOf \in [Workers -> Fds \cup {NoFd}]
      /\ erased \in [Workers -> Fds \cup {NoFd}]
      /\ conn \in [Fds -> Connection] /\ request \in [Fds -> Request]
      /\ response \in [Fds -> Headed \cup {NoEntry}]
      /\ interest \in [Fds -> Interests]
      /\ fdUse \in [Fds -> {"free", "conn", "file", "dir"}]
      /\ queue \in Seq(Events)
  BY <1>1, Parts DEF KernelOK, ConnOK, PoolOK, MapsOK, ElseOK
<1>3. pc[w] \in Places \ {"idle", "accept"}
  BY <1>1 DEF Handling
<1>4. Place(fd) = pc[w]
  BY <1>1, PlaceIs, ReactorAssumption DEF Serving, ApartInv
<1>5. FitAt(fd, pc[w])
  BY <1>1, <1>4 DEF Serving, ApartInv, AllFit
<1>6. IsConn(fd) \/ pc[w] = "eraseRequest"
  <2>1. pc[w] # "none"
    BY <1>3 DEF Places, AcceptPcs, RecvPcs, SendPcs
  <2> QED BY <1>5, <2>1 DEF FitAt, Fit
<1> QED BY <1>1, <1>2, <1>3, <1>4, <1>5, <1>6

LEMMA Moving ==
  ASSUME NEW w \in Workers, NEW fd, Serving(w, fd), NEW to, MovesTo(w, to)
  PROVE  /\ queue' = queue
         /\ \A f \in Fds : Pending(f)' = Pending(f) /\ (Single(f)' <=> Single(f))
         /\ \A f \in Fds : Place(f)' = IF f = fd THEN to ELSE Place(f)
         /\ pc'[w] = IF to = "none" THEN "idle" ELSE to
         /\ \A v \in Workers \ {w} : pc'[v] = pc[v] /\ fdOf'[v] = fdOf[v]
         /\ IdleHandleNone'
<1>1. /\ fd = fdOf[w] /\ fd \in Fds /\ NoFd \notin Fds
      /\ pc \in [Workers -> Places] /\ fdOf \in [Workers -> Fds \cup {NoFd}]
  BY ServingIs, ReactorAssumption DEF Serving
<1>2. queue' = queue
  BY DEF MovesTo, Goto, Return, poolVars, WQ!Finish
<1>3. \A f \in Fds : Pending(f)' = Pending(f) /\ (Single(f)' <=> Single(f))
  BY <1>2 DEF Pending, Single, Queued
<1>4. \A v \in Workers \ {w} : pc'[v] = pc[v] /\ fdOf'[v] = fdOf[v]
  BY <1>1 DEF MovesTo, Goto, Return, poolVars
<1>5. \/ to \in Places \ {"idle", "accept"} /\ pc'[w] = to /\ fdOf'[w] = fd
      \/ to = "none" /\ pc'[w] = "idle" /\ fdOf'[w] = NoFd
  BY <1>1 DEF MovesTo, Goto, Return
<1>6. ASSUME NEW f \in Fds, f # fd PROVE Place(f)' = Place(f)
  <2>1. fdOf[w] # f /\ fdOf'[w] # f
    BY <1>1, <1>5, <1>6
  <2> QED BY <1>4, <2>1, PlaceKept
<1>7. Place(fd)' = to
  <2>1. CASE to # "none"
    <3>1. fdOf'[w] = fd /\ fd # NoFd /\ pc'[w] = to
      BY <1>1, <1>5, <2>1
    <3> QED BY <3>1, PlaceIsNew DEF Serving
  <2>2. CASE to = "none"
    <3>1. fdOf'[w] = NoFd
      BY <1>5, <2>2 DEF Places, AcceptPcs, RecvPcs, SendPcs
    <3>2. \A v \in Workers : fdOf'[v] # fd
      BY <1>1, <1>4, <3>1 DEF Serving, ApartInv, HandlersApart
    <3> QED BY <2>2, <3>2 DEF Place
  <2> QED BY <2>1, <2>2
<1>8. IdleHandleNone'
  BY <1>4, <1>5 DEF Serving, ApartInv, IdleHandleNone
<1>9. pc'[w] = IF to = "none" THEN "idle" ELSE to
  BY <1>5 DEF Places, AcceptPcs, RecvPcs, SendPcs
<1> QED BY <1>2, <1>3, <1>4, <1>6, <1>7, <1>8, <1>9

LEMMA Moved ==
  ASSUME NEW w \in Workers, NEW fd, Serving(w, fd), NEW to, MovesTo(w, to),
         \A f \in Fds \ {fd} : SameAt(f), FilesOpen', FitAt(fd, to)'
  PROVE  ApartInv'
<1>1. /\ \A f \in Fds : Pending(f)' = Pending(f) /\ (Single(f)' <=> Single(f))
      /\ \A f \in Fds : Place(f)' = IF f = fd THEN to ELSE Place(f)
      /\ IdleHandleNone'
  BY Moving
<1>2. AllFit
  BY DEF Serving, ApartInv
<1>3. ASSUME NEW f \in Fds PROVE Single(f)' /\ FitAt(f, Place(f))'
  <2>1. Single(f)'
    BY <1>1, <1>2 DEF AllFit
  <2>2. CASE f = fd
    <3>1. Place(f)' = to
      BY <1>1, <2>2
    <3> QED BY <2>1, <2>2, <3>1 DEF FitAt
  <2>3. CASE f # fd
    <3> DEFINE p == Place(f)
    <3>1. p' = p
      BY <1>1, <2>3
    <3>2. FitAt(f, p) /\ SameAt(f) /\ Pending(f)' = Pending(f)
      BY <1>1, <1>2, <2>3 DEF AllFit
    <3> HIDE DEF p
    <3>3. \A q : FitAt(f, q) => FitAt(f, q)'
      BY <3>2, FitKept
    <3>4. FitAt(f, p)'
      BY <3>1, <3>2, <3>3 DEF FitAt
    <3> QED BY <2>1, <3>4 DEF p
  <2> QED BY <2>2, <2>3
<1> QED BY <1>1, <1>3 DEF Serving, ApartInv, AllFit

LEMMA FilesUnmoved ==
  ASSUME NEW w \in Workers, NEW fd, Serving(w, fd), NEW to, MovesTo(w, to),
         to \notin {"rearmIn", "closeFile"}, erased' = erased,
         \A f \in Fds : fdUse[f] = "file" => fdUse'[f] = "file",
         \A f \in Fds : HasFile(f)' => HasFile(f) /\ response'[f].file = response[f].file
  PROVE  FilesOpen'
<1>1. /\ pc'[w] = IF to = "none" THEN "idle" ELSE to
      /\ \A v \in Workers \ {w} : pc'[v] = pc[v]
  BY Moving
<1>2. \A v \in Workers : Closes(v)' => Closes(v)
  BY <1>1 DEF Closes
<1>3. FilesStay
  BY <1>2 DEF FilesStay
<1> QED BY <1>3, FilesKept, ServingIs DEF Serving, ApartInv

(* A step on the request.                                                  *)
LEMMA RequestMoves ==
  ASSUME NEW w \in Workers, NEW fd, Serving(w, fd), NEW to, MovesTo(w, to),
         to \notin {"rearmIn", "closeFile"}, NEW q,
         SetRequest(w, q) \/ (UNCHANGED request /\ q = request[fd]),
         UNCHANGED <<fdUse, interest, response, erased>>,
         \A f \in Fds : conn'[f].peer = "up" => conn[f].peer = "up",
         FitAt(fd, pc[w]) =>
           Fit(IsConn(fd), conn'[fd].peer, q.status, response[fd], to, Pending(fd),
               interest[fd])
  PROVE  ApartInv'
<1>1. fd = fdOf[w] /\ fd \in Fds /\ request \in [Fds -> Request] /\ FitAt(fd, pc[w])
  BY ServingIs DEF Serving
<1>2. request'[fd] = q /\ \A f \in Fds \ {fd} : request'[f] = request[f]
  BY <1>1 DEF SetRequest
<1>3. \A f \in Fds \ {fd} : SameAt(f)
  BY <1>2 DEF SameAt, IsConn
<1>4. FilesOpen'
  BY FilesUnmoved DEF HasFile
<1>5. Pending(fd)' = Pending(fd) /\ IsConn(fd)' = IsConn(fd)
  BY <1>1, Moving DEF IsConn
<1>6. FitAt(fd, to)'
  BY <1>1, <1>2, <1>5 DEF FitAt
<1> QED BY <1>3, <1>4, <1>6, Moved

(* A step on the response.                                                 *)
LEMMA ResponseMoves ==
  ASSUME NEW w \in Workers, NEW fd, Serving(w, fd), NEW to, MovesTo(w, to),
         to \notin {"rearmIn", "closeFile"}, NEW b,
         response' = [response EXCEPT ![fd] = b],
         b # NoEntry /\ b.head = "file" => HasFile(fd) /\ b.file = response[fd].file,
         UNCHANGED <<interest, request, erased>>,
         fdUse' = fdUse
           \/ \E f \in Fds : fdUse[f] = "free" /\ fdUse' = [fdUse EXCEPT ![f] = "dir"],
         \A f \in Fds : conn'[f].peer = "up" => conn[f].peer = "up",
         FitAt(fd, pc[w]) =>
           Fit(IsConn(fd), conn'[fd].peer, request[fd].status, b, to, Pending(fd),
               interest[fd])
  PROVE  ApartInv'
<1>1. /\ fd \in Fds /\ response \in [Fds -> Headed \cup {NoEntry}]
      /\ fdUse \in [Fds -> {"free", "conn", "file", "dir"}]
      /\ FitAt(fd, pc[w])
  BY ServingIs
<1>2. response'[fd] = b /\ \A f \in Fds \ {fd} : response'[f] = response[f]
  BY <1>1
<1>3. \A f \in Fds : IsConn(f)' = IsConn(f) /\ (fdUse[f] = "file" => fdUse'[f] = "file")
  BY <1>1 DEF IsConn
<1>4. \A f \in Fds \ {fd} : SameAt(f)
  BY <1>2, <1>3 DEF SameAt
<1>5. FilesOpen'
  BY <1>2, <1>3, FilesUnmoved DEF HasFile
<1>6. Pending(fd)' = Pending(fd)
  BY <1>1, Moving
<1>7. FitAt(fd, to)'
  BY <1>1, <1>2, <1>3, <1>6 DEF FitAt
<1> QED BY <1>4, <1>5, <1>7, Moved

-----------------------------------------------------------------------------
(* HandleRecv                                                              *)

LEMMA GotoMoves ==
  ASSUME NEW w, NEW place \in RecvPcs \cup SendPcs, Goto(w, place)
  PROVE  MovesTo(w, place)
BY DEF MovesTo, Places, AcceptPcs, RecvPcs, SendPcs

LEMMA ReturnMoves == ASSUME NEW w, Return(w) PROVE MovesTo(w, "none")
BY DEF MovesTo

(* A handler before its modifyWaitFd that goes on parsing.                 *)
LEMMA ParseFits ==
  ASSUME NEW w \in Workers, NEW fd, Serving(w, fd), NEW to, Goto(w, to),
         pc[w] \in {"recv", "parse", "save"},
         to \in {"recv", "parse", "save"}, NEW q,
         SetRequest(w, q) \/ (UNCHANGED request /\ q = request[fd]),
         q.status # "ERROR" \/ q.status = request[fd].status,
         UNCHANGED <<fdUse, interest, response, erased>>,
         \A f \in Fds : conn'[f].peer = conn[f].peer
  PROVE  ApartInv'
<1>1. MovesTo(w, to) /\ fd \in Fds /\ IsConn(fd)
  BY GotoMoves, ServingIs DEF RecvPcs
<1>2. conn'[fd].peer = conn[fd].peer
  BY <1>1
<1>3. FitAt(fd, pc[w]) =>
        Fit(IsConn(fd), conn'[fd].peer, q.status, response[fd], to, Pending(fd),
            interest[fd])
  BY <1>1, <1>2 DEF FitAt, Fit, TurnPcs, HeadPcs, SoundPcs, AnswerPcs
<1> QED BY <1>1, <1>3, RequestMoves

LEMMA ConsumedStatus ==
  ASSUME NEW w \in Workers, NEW fd, Serving(w, fd), ~Starved(w)
  PROVE  Consumed(w) \in Request /\ Consumed(w).status = request[fd].status
<1>1. Consumed(w) \in Request /\ Req(w) \in Request /\ Req(w) = request[fd]
  BY ConsumedType, HandlerData DEF Serving, Req
<1>2. Consumed(w).status = Req(w).status
  BY <1>1 DEF Consumed, Request
<1> QED BY <1>1, <1>2

LEMMA ParsesApart ==
  ASSUME NEW w \in Workers, NEW fd, Serving(w, fd),
         \/ ParseLine(w) \/ ParseHeader(w) \/ ParseBoundary(w) \/ ParseFileHead(w)
         \/ SaveContent(w)
  PROVE  ApartInv'
<1>a. /\ pc[w] \in {"recv", "parse", "save"} /\ ~Starved(w)
      /\ UNCHANGED <<fdUse, interest, response, erased, conn>>
  BY DEF ParseLine, ParseHeader, ParseBoundary, ParseFileHead, SaveContent, Parses,
     Uploads, At, parseVars, socketVars, elseVars
<1>b. Consumed(w) \in Request /\ Consumed(w).status = request[fd].status
      /\ Req(w) \in Request /\ Req(w) = request[fd]
  BY <1>a, ConsumedStatus, HandlerData DEF Serving, Req
<1>1. PICK q : /\ SetRequest(w, q)
               /\ q.status \in {"HEAD", "BODY", request[fd].status}
  <2>1. ASSUME NEW k PROVE [Consumed(w) EXCEPT !.status = "HEAD", !.req = k].status = "HEAD"
    BY <1>b DEF Request
  <2>2. ASSUME NEW k PROVE [Consumed(w) EXCEPT !.status = "BODY", !.part = k].status = "BODY"
    BY <1>b DEF Request
  <2>3. ASSUME NEW k
        PROVE  /\ [Consumed(w) EXCEPT !.multi = k].status = request[fd].status
               /\ [Consumed(w) EXCEPT !.part = k].status = request[fd].status
               /\ [Req(w) EXCEPT !.part = k].status = request[fd].status
    BY <1>b DEF Request
  <2>4. CASE ParseLine(w)
    BY <2>1, <2>4 DEF ParseLine
  <2>5. CASE ParseHeader(w)
    <3>1. CASE NextUnit(w) = "blank"
      <4> DEFINE k == IF Req(w).multi THEN "begin" ELSE Consumed(w).part
      <4>1. SetRequest(w, [Consumed(w) EXCEPT !.status = "BODY", !.part = k])
        BY <1>b, <2>5, <3>1 DEF ParseHeader, Request
      <4> HIDE DEF k
      <4> QED BY <2>2, <4>1
    <3>2. CASE NextUnit(w) # "blank"
      <4> DEFINE k == Consumed(w).multi \/ NextUnit(w) = "multipart"
      <4>1. SetRequest(w, [Consumed(w) EXCEPT !.multi = k])
        BY <1>b, <2>5, <3>2 DEF ParseHeader, Request
      <4> HIDE DEF k
      <4> QED BY <2>3, <4>1
    <3> QED BY <3>1, <3>2
  <2>6. CASE ParseBoundary(w)
    BY <2>3, <2>6 DEF ParseBoundary
  <2>7. CASE ParseFileHead(w)
    BY <1>b, <2>3, <2>7 DEF ParseFileHead
  <2>8. CASE SaveContent(w)
    BY <1>b, <2>3, <2>8 DEF SaveContent
  <2> QED BY <2>4, <2>5, <2>6, <2>7, <2>8
<1>2. PICK to \in {"recv", "parse", "save"} : Goto(w, to)
  BY DEF ParseLine, ParseHeader, ParseBoundary, ParseFileHead, SaveContent
<1> QED BY <1>a, <1>1, <1>2, ParseFits

LEMMA DataApart ==
  ASSUME NEW w \in Workers, NEW fd, Serving(w, fd), RecvData(w)
  PROVE  ApartInv'
<1>1. fd = fdOf[w] /\ request[fd] \in Request /\ conn \in [Fds -> Connection]
  BY ServingIs DEF Serving
<1>2. PICK q : SetRequest(w, q) /\ q.status = request[fd].status
  <2>1. PICK m : SetRequest(w, [Req(w) EXCEPT !.recvMsg = m])
    BY DEF RecvData
  <2>2. [Req(w) EXCEPT !.recvMsg = m].status = request[fd].status
    BY <1>1 DEF Req, Request
  <2> QED BY <2>1, <2>2
<1>3. \A f \in Fds : conn'[f].peer = conn[f].peer
  BY <1>1 DEF RecvData, Connection
<1>4. pc[w] = "recv" /\ Goto(w, "parse")
      /\ UNCHANGED <<fdUse, interest, response, erased>>
  BY DEF RecvData, At, kernelVars, elseVars
<1> QED BY <1>2, <1>3, <1>4, ParseFits

LEMMA EndsApart ==
  ASSUME NEW w \in Workers, NEW fd, Serving(w, fd), RecvEnds(w)
  PROVE  ApartInv'
<1>1. /\ fd = fdOf[w] /\ fd \in Fds /\ request[fd] \in Request
      /\ conn \in [Fds -> Connection] /\ IsConn(fd) /\ pc[w] = "recv"
  BY ServingIs DEF Serving, RecvEnds, At
<1> DEFINE q == [request[fd] EXCEPT !.status = "ERROR"]
<1>2. SetRequest(w, q) /\ q.status = "ERROR"
  BY <1>1 DEF RecvEnds, SetStatus, Req, Request
<1>3. /\ conn'[fd].peer # "up"
      /\ \A f \in Fds : conn'[f].peer = "up" => conn[f].peer = "up"
  BY <1>1 DEF RecvEnds, Connection
<1>4. MovesTo(w, "ended") /\ UNCHANGED <<fdUse, interest, response, erased>>
  BY GotoMoves DEF RecvEnds, RecvPcs, kernelVars, elseVars
<1> HIDE DEF q
<1>5. FitAt(fd, pc[w]) =>
        Fit(IsConn(fd), conn'[fd].peer, q.status, response[fd], "ended", Pending(fd),
            interest[fd])
  BY <1>1, <1>2, <1>3 DEF FitAt, Fit, TurnPcs, HeadPcs, SoundPcs, AnswerPcs
<1> QED BY <1>2, <1>3, <1>4, <1>5, RequestMoves

(* A step that changes none of the two maps and goes on elsewhere.         *)
LEMMA QuietApart ==
  ASSUME NEW w \in Workers, NEW fd, Serving(w, fd),
         \/ RecvBlocks(w) \/ ParseMore(w) \/ OpenUpload(w) \/ Check(w)
  PROVE  ApartInv'
<1>1. /\ fd = fdOf[w] /\ fd \in Fds /\ IsConn(fd) /\ Req(w) = request[fd]
      /\ FitAt(fd, pc[w])
  BY ServingIs DEF Serving, RecvBlocks, ParseMore, OpenUpload, Check, Uploads,
     Parses, At, Req
<1>2. /\ UNCHANGED <<request, fdUse, interest, response, erased, conn>>
      /\ \A f \in Fds : conn'[f].peer = "up" => conn[f].peer = "up"
  BY DEF RecvBlocks, ParseMore, OpenUpload, Check, parseVars, socketVars, elseVars
<1>3. ASSUME NEW to, MovesTo(w, to), to \notin {"rearmIn", "closeFile"},
             Fit(IsConn(fd), conn[fd].peer, request[fd].status, response[fd], to,
                 Pending(fd), interest[fd])
      PROVE  ApartInv'
  <2>1. Fit(IsConn(fd), conn'[fd].peer, request[fd].status, response[fd], to,
            Pending(fd), interest[fd])
    BY <1>2, <1>3
  <2> QED BY <1>2, <1>3, <2>1, RequestMoves
<1>4. CASE RecvBlocks(w)
  <2>1. MovesTo(w, "armIn") /\ pc[w] = "recv" /\ conn[fd].peer = "up"
    BY <1>1, <1>4, GotoMoves DEF RecvBlocks, RecvPcs, At
  <2>2. Fit(IsConn(fd), conn[fd].peer, request[fd].status, response[fd], "armIn",
            Pending(fd), interest[fd])
    BY <1>1, <2>1 DEF FitAt, Fit, TurnPcs, HeadPcs, SoundPcs, AnswerPcs
  <2> QED BY <1>3, <2>1, <2>2
<1>5. CASE ParseMore(w)
  <2>1. MovesTo(w, "recv") /\ pc[w] \in {"parse", "save"}
    BY <1>5, GotoMoves DEF ParseMore, RecvPcs, At, Parses, Uploads
  <2>2. Fit(IsConn(fd), conn[fd].peer, request[fd].status, response[fd], "recv",
            Pending(fd), interest[fd])
    BY <1>1, <2>1 DEF FitAt, Fit, TurnPcs, HeadPcs, SoundPcs, AnswerPcs
  <2> QED BY <1>3, <2>1, <2>2
<1>6. CASE OpenUpload(w)
  <2>1. PICK to \in {"save", "ended"} : Goto(w, to)
    BY <1>6 DEF OpenUpload
  <2>2. MovesTo(w, to) /\ pc[w] = "parse"
    BY <1>6, <2>1, GotoMoves DEF OpenUpload, RecvPcs, At, Parses, Uploads
  <2>3. Fit(IsConn(fd), conn[fd].peer, request[fd].status, response[fd], to,
            Pending(fd), interest[fd])
    BY <1>1, <2>2 DEF FitAt, Fit, TurnPcs, HeadPcs, SoundPcs, AnswerPcs
  <2> QED BY <1>3, <2>2, <2>3
<1>7. CASE Check(w)
  <2>1. pc[w] \in {"check", "ended"}
    BY <1>7 DEF Check, At
  <2>2. CASE request[fd].status = "COMPLETE"
    <3>1. MovesTo(w, "eraseRequest")
      BY <1>1, <1>7, <2>2, GotoMoves DEF Check, RecvPcs
    <3>2. Fit(IsConn(fd), conn[fd].peer, request[fd].status, response[fd],
              "eraseRequest", Pending(fd), interest[fd])
      BY <1>1, <2>1, <2>2 DEF FitAt, Fit, TurnPcs, HeadPcs, SoundPcs, AnswerPcs
    <3> QED BY <1>3, <3>1, <3>2
  <2>3. CASE request[fd].status = "ERROR"
    <3>1. MovesTo(w, "close")
      BY <1>1, <1>7, <2>3, GotoMoves DEF Check, RecvPcs
    <3>2. Fit(IsConn(fd), conn[fd].peer, request[fd].status, response[fd],
              "close", Pending(fd), interest[fd])
      BY <1>1, <2>1, <2>3 DEF FitAt, Fit, TurnPcs, HeadPcs, SoundPcs, AnswerPcs
    <3> QED BY <1>3, <3>1, <3>2
  <2>4. CASE request[fd].status \notin {"COMPLETE", "ERROR"}
    <3>1. MovesTo(w, "none")
      BY <1>1, <1>7, <2>4, ReturnMoves DEF Check
    <3>2. Fit(IsConn(fd), conn[fd].peer, request[fd].status, response[fd],
              "none", Pending(fd), interest[fd])
      BY <1>1, <2>1, <2>4 DEF FitAt, Fit, TurnPcs, HeadPcs, SoundPcs, AnswerPcs
    <3> QED BY <1>3, <3>1, <3>2
  <2> QED BY <2>2, <2>3, <2>4
<1> QED BY <1>4, <1>5, <1>6, <1>7

(* The handler says what the response is about.                            *)
LEMMA RespondsApart ==
  ASSUME NEW w \in Workers, NEW fd, Serving(w, fd),
         ParseGet(w) \/ ParsePut(w) \/ ParsePost(w)
  PROVE  ApartInv'
<1>1. /\ fd = fdOf[w] /\ fd \in Fds /\ IsConn(fd) /\ pc[w] = "parse"
      /\ request[fd].status = "BODY" /\ Entry(fd) \in Headed
  BY ServingIs, EntryType, Parts
     DEF Serving, ParseGet, ParsePut, ParsePost, Uploads, Parses, At, Req
<1>2. PICK name \in Names \ {""}, to \in {"armOut", "armPut"} : Respond(w, name, to)
  BY DEF ParseGet, ParsePut, ParsePost, Resource, Names
<1> DEFINE b == [Entry(fd) EXCEPT !.name = name]
<1>3. /\ b \in Response /\ b.name # "" /\ b.head = Entry(fd).head
      /\ b.file = Entry(fd).file /\ b.status = Entry(fd).status
  BY <1>1, <1>2 DEF Headed, Response
<1>4. b # NoEntry
  BY <1>3, NoEntryAssumption
<1>5. response' = [response EXCEPT ![fd] = b] /\ Goto(w, to)
  BY <1>1, <1>2 DEF Respond, SetResponse
<1> HIDE DEF b
<1>6. MovesTo(w, to)
  BY <1>5, GotoMoves DEF RecvPcs
<1>7. /\ b.head = "file" => HasFile(fd) /\ b.file = response[fd].file
      /\ b.status = "INIT" => b.head = "none"
  <2>1. CASE response[fd] = NoEntry
    BY <1>3, <2>1 DEF Entry, NewResponse
  <2>2. CASE response[fd] # NoEntry
    <3>1. Entry(fd) = response[fd]
      BY <2>2 DEF Entry
    <3>2. FitAt(fd, pc[w])
      BY ServingIs
    <3> QED BY <1>3, <2>2, <3>1, <3>2 DEF HasFile, FitAt, Fit
  <2> QED BY <2>1, <2>2
<1>8. UNCHANGED <<interest, request, erased, fdUse, conn>>
  BY DEF ParseGet, ParsePut, ParsePost, socketVars, elseVars
<1>9. FitAt(fd, pc[w]) =>
        Fit(IsConn(fd), conn'[fd].peer, request[fd].status, b, to, Pending(fd),
            interest[fd])
  BY <1>1, <1>3, <1>4, <1>7, <1>8
     DEF FitAt, Fit, TurnPcs, HeadPcs, SoundPcs, AnswerPcs, Named
<1> QED BY <1>4, <1>5, <1>6, <1>7, <1>8, <1>9, ResponseMoves

(* modifyWaitFd.                                                           *)
LEMMA ArmsApart ==
  ASSUME NEW w \in Workers, NEW fd, Serving(w, fd), NEW to, MovesTo(w, to),
         pc[w] \in HeadPcs \ {"add"}, NEW mask \in {"in", "inout"}, Modify(fd, mask),
         UNCHANGED <<fdUse, conn, request, response>>, FilesOpen',
         to \in {"check", "complete", "putBody", "closeFile", "none"},
         to \in SoundPcs => pc[w] \in SoundPcs,
         mask = "inout" => pc[w] \in AnswerPcs,
         to = "closeFile" => pc[w] = "rearmIn"
  PROVE  ApartInv'
<1>1. /\ fd \in Fds /\ IsConn(fd) /\ FitAt(fd, pc[w]) /\ interest \in [Fds -> Interests]
  BY ServingIs DEF HeadPcs
<1>2. /\ \A f \in Fds \ {fd} : interest'[f] = interest[f]
      /\ interest'[fd] \in {"off", mask}
  BY <1>1 DEF Modify
<1>3. \A f \in Fds \ {fd} : SameAt(f)
  BY <1>2 DEF SameAt, IsConn
<1>4. Pending(fd)' = Pending(fd) /\ IsConn(fd)' = IsConn(fd)
  BY <1>1, Moving DEF IsConn
<1>5. Pending(fd) = {}
  BY <1>1 DEF FitAt, Fit, TurnPcs
<1>6. Fit(IsConn(fd), conn[fd].peer, request[fd].status, response[fd], to,
          {}, interest'[fd])
  BY <1>1, <1>2 DEF FitAt, Fit, TurnPcs, HeadPcs, SoundPcs, AnswerPcs
<1>7. FitAt(fd, to)'
  BY <1>4, <1>5, <1>6 DEF FitAt
<1> QED BY <1>3, <1>7, Moved

LEMMA ArmRequestApart ==
  ASSUME NEW w \in Workers, NEW fd, Serving(w, fd), ArmIn(w) \/ ArmOut(w) \/ ArmPut(w)
  PROVE  ApartInv'
<1>1. PICK mask \in {"in", "inout"}, to \in {"check", "complete", "putBody"} :
        /\ Goto(w, to) /\ Modify(fd, mask)
        /\ pc[w] \in {"armIn", "armOut", "armPut"}
        /\ mask = "inout" => pc[w] \in {"armOut", "armPut"}
  BY DEF Serving, ArmIn, ArmOut, ArmPut, Arm, At
<1>2. MovesTo(w, to)
  BY <1>1, GotoMoves DEF RecvPcs
<1>3. UNCHANGED <<fdUse, conn, request, response, erased>>
  BY DEF ArmIn, ArmOut, ArmPut, Arm, elseVars
<1>4. FilesOpen'
  BY <1>2, <1>3, FilesUnmoved DEF HasFile
<1> QED BY <1>1, <1>2, <1>3, <1>4, ArmsApart DEF HeadPcs, SoundPcs, AnswerPcs

LEMMA CompletesApart ==
  ASSUME NEW w \in Workers, NEW fd, Serving(w, fd),
         Complete(w) \/ PutBody(w) \/ EraseRequest(w)
  PROVE  ApartInv'
<1>1. /\ fd = fdOf[w] /\ fd \in Fds /\ request[fd] \in Request
      /\ pc[w] \in {"complete", "putBody", "eraseRequest"}
  BY ServingIs DEF Serving, Complete, PutBody, EraseRequest, At
<1>2. PICK q, to : /\ SetRequest(w, q) /\ MovesTo(w, to) /\ q.status # "ERROR"
                   /\ \/ to = "check" /\ pc[w] \in {"complete", "putBody"}
                      \/ to = "none" /\ pc[w] = "eraseRequest"
  <2>1. ASSUME NEW s, SetStatus(w, s), s # "ERROR"
        PROVE  \E q : SetRequest(w, q) /\ q.status # "ERROR"
    <3>1. [request[fd] EXCEPT !.status = s].status = s
      BY <1>1 DEF Request
    <3> QED BY <1>1, <2>1, <3>1 DEF SetStatus, Req
  <2>2. CASE Complete(w) \/ PutBody(w)
    <3>1. \E q : SetRequest(w, q) /\ q.status # "ERROR"
      BY <2>1, <2>2 DEF Complete, PutBody
    <3>2. MovesTo(w, "check") /\ pc[w] \in {"complete", "putBody"}
      BY <2>2, GotoMoves DEF Complete, PutBody, RecvPcs, At
    <3> QED BY <3>1, <3>2
  <2>3. CASE EraseRequest(w)
    <3>1. SetRequest(w, NewRequest) /\ NewRequest.status # "ERROR"
      BY <2>3 DEF EraseRequest, NewRequest
    <3>2. MovesTo(w, "none") /\ pc[w] = "eraseRequest"
      BY <2>3, ReturnMoves DEF EraseRequest, At
    <3> QED BY <3>1, <3>2
  <2> QED BY <2>2, <2>3
<1>3. UNCHANGED <<fdUse, interest, response, erased, conn>>
  BY DEF Complete, PutBody, EraseRequest, parseVars, socketVars, elseVars
<1>4. FitAt(fd, pc[w]) =>
        Fit(IsConn(fd), conn'[fd].peer, q.status, response[fd], to, Pending(fd),
            interest[fd])
  BY <1>1, <1>2, <1>3 DEF FitAt, Fit, TurnPcs, HeadPcs, SoundPcs, AnswerPcs
<1> QED BY <1>2, <1>3, <1>4, RequestMoves

LEMMA ClosesApart ==
  ASSUME NEW w \in Workers, NEW fd, Serving(w, fd), CloseConn(w)
  PROVE  ApartInv'
<1>1. /\ fd = fdOf[w] /\ fd \in Fds /\ pc[w] = "close" /\ IsConn(fd)
      /\ FitAt(fd, pc[w]) /\ fdUse \in [Fds -> {"free", "conn", "file", "dir"}]
      /\ interest \in [Fds -> Interests] /\ conn \in [Fds -> Connection]
  BY ServingIs DEF Serving, CloseConn, At
<1>2. MovesTo(w, "eraseRequest") /\ CloseFd(fd)
      /\ UNCHANGED <<request, response, erased>>
  BY GotoMoves DEF Serving, CloseConn, RecvPcs, elseVars
<1>3. \A f \in Fds \ {fd} : SameAt(f)
  BY <1>1, <1>2 DEF CloseFd, SameAt, IsConn
<1>4. \A f \in Fds : fdUse[f] = "file" => fdUse'[f] = "file"
  BY <1>1, <1>2 DEF CloseFd, IsConn
<1>5. FilesOpen'
  BY <1>2, <1>4, FilesUnmoved DEF HasFile
<1>6. Pending(fd)' = Pending(fd) /\ Pending(fd) = {} /\ request[fd].status = "ERROR"
  BY <1>1, <1>2, Moving DEF FitAt, Fit, TurnPcs
<1>7. ~IsConn(fd)' /\ interest'[fd] = "off"
  BY <1>1, <1>2 DEF CloseFd, IsConn
<1>8. ASSUME NEW n, NEW a, a # NoEntry /\ a.status = "INIT" => a.head = "none"
      PROVE  Fit(FALSE, n, "ERROR", a, "eraseRequest", {}, "off")
  BY <1>8 DEF Fit, TurnPcs, HeadPcs, SoundPcs, AnswerPcs
<1>9. response'[fd] # NoEntry /\ response'[fd].status = "INIT"
        => response'[fd].head = "none"
  BY <1>1, <1>2 DEF FitAt, Fit
<1>10. Fit(FALSE, conn'[fd].peer, "ERROR", response'[fd], "eraseRequest", {}, "off")
  BY <1>8, <1>9
<1>11. FitAt(fd, "eraseRequest")'
  <2>1. IsConn(fd)' = FALSE /\ request'[fd].status = "ERROR" /\ Pending(fd)' = {}
    BY <1>2, <1>6, <1>7
  <2> QED BY <1>7, <1>10, <2>1 DEF FitAt
<1> QED BY <1>2, <1>3, <1>5, <1>11, Moved

LEMMA RecvIsApart ==
  ASSUME NEW w \in Workers, NEW fd, Serving(w, fd), RecvStep(w)
  PROVE  ApartInv'
BY DataApart, ParsesApart, EndsApart, QuietApart, RespondsApart, ArmRequestApart,
   CompletesApart, ClosesApart DEF RecvStep

-----------------------------------------------------------------------------
(* HandleSend                                                              *)

LEMMA AnswerIs ==
  ASSUME NEW w \in Workers, NEW fd, Serving(w, fd), pc[w] \in {"build", "send", "tail"}
  PROVE  /\ fd = fdOf[w] /\ fd \in Fds /\ IsConn(fd) /\ FitAt(fd, pc[w])
         /\ response[fd] # NoEntry /\ Resp(w) = response[fd]
         /\ response[fd] \in Response /\ response[fd].name # ""
         /\ pc[w] = "build" => response[fd].status = "INIT"
         /\ response[fd].status = "INIT" => response[fd].head = "none"
<1>1. fd = fdOf[w] /\ fd \in Fds /\ IsConn(fd) /\ FitAt(fd, pc[w])
  BY ServingIs DEF Serving
<1>2. /\ Named(response[fd])
      /\ pc[w] = "build" => response[fd].status = "INIT"
      /\ response[fd] # NoEntry /\ response[fd].status = "INIT"
           => response[fd].head = "none"
  BY <1>1 DEF FitAt, Fit, AnswerPcs
<1>3. response[fd] \in Headed \cup {NoEntry}
  BY <1>1, ServingIs
<1> QED BY <1>1, <1>2, <1>3 DEF Named, Resp, Entry, Headed

LEMMA AnswerMoves ==
  ASSUME NEW w \in Workers, NEW fd, Serving(w, fd), pc[w] \in {"build", "send", "tail"},
         NEW to \in {"send", "tail", "rearm", "eraseResponse"}, NEW b,
         SetResponse(w, b, to), b # NoEntry, b.name # "",
         b.status = "INIT" => b.head = "none",
         b.head = "file" => response[fd].head = "file" /\ b.file = response[fd].file,
         UNCHANGED <<interest, request, erased>>,
         fdUse' = fdUse
           \/ \E f \in Fds : fdUse[f] = "free" /\ fdUse' = [fdUse EXCEPT ![f] = "dir"],
         \A f \in Fds : conn'[f].peer = "up" => conn[f].peer = "up"
  PROVE  ApartInv'
<1>1. /\ fd = fdOf[w] /\ fd \in Fds /\ IsConn(fd) /\ response[fd] # NoEntry
  BY AnswerIs
<1>2. response' = [response EXCEPT ![fd] = b] /\ MovesTo(w, to)
  BY <1>1, GotoMoves DEF SetResponse, SendPcs
<1>3. b # NoEntry /\ b.head = "file" => HasFile(fd) /\ b.file = response[fd].file
  BY <1>1 DEF HasFile
<1>4. conn'[fd].peer = "up" => conn[fd].peer = "up"
  BY <1>1
<1>5. FitAt(fd, pc[w]) =>
        Fit(IsConn(fd), conn'[fd].peer, request[fd].status, b, to, Pending(fd),
            interest[fd])
  BY <1>1, <1>4 DEF FitAt, Fit, TurnPcs, HeadPcs, SoundPcs, AnswerPcs, Named
<1> QED BY <1>2, <1>3, <1>5, ResponseMoves

LEMMA NothingSent == 0 \in 0..(HeadUnits + BodyUnits)
BY SocketsAssumption

(* What is built next has no file yet.                                     *)
LEMMA BuildsApart ==
  ASSUME NEW w \in Workers, NEW fd, Serving(w, fd),
         \/ BuildPage(w) \/ BuildRedirect(w) \/ BuildFileFails(w) \/ BuildDelete(w)
         \/ BuildPut(w)
  PROVE  ApartInv'
<1>1. pc[w] = "build"
  BY DEF BuildPage, BuildRedirect, BuildFileFails, BuildDelete, BuildPut, Builds, At
<1>2. /\ Resp(w) \in Response /\ Resp(w).name # ""
  BY <1>1, AnswerIs
<1>3. PICK b \in Response, to \in {"send", "rearm"} :
        /\ SetResponse(w, b, to) /\ b.name # "" /\ b.head # "file"
        /\ b.status = "INIT" => b.head = "none"
  <2>1. ASSUME NEW head \in {"page", "moved", "ok"}, Built(w, head)
        PROVE  \E b : /\ SetResponse(w, b, "send") /\ b \in Response /\ b.name # ""
                      /\ b.head # "file" /\ b.status = "HEAD"
    <3> DEFINE b == [Resp(w) EXCEPT !.status = "HEAD", !.head = head, !.sent = 0]
    <3>1. b \in Response /\ b.name # "" /\ b.head # "file" /\ b.status = "HEAD"
      BY <1>2, NothingSent DEF Response, Statuses, Answers
    <3>2. SetResponse(w, b, "send")
      BY <2>1 DEF Built
    <3> HIDE DEF b
    <3> QED BY <3>1, <3>2
  <2>2. ASSUME NEW name \in {"redirect", "/"}, Replaced(w, name)
        PROVE  \E b : /\ SetResponse(w, b, "rearm") /\ b \in Response /\ b.name # ""
                      /\ b.head = "none"
    <3> DEFINE b == [NewResponse EXCEPT !.name = name]
    <3>1. b \in Response /\ b.name # "" /\ b.head = "none"
      <4>1. NewResponse \in Response /\ NewResponse.head = "none"
        BY NewResponseType DEF Headed, NewResponse
      <4> QED BY <4>1 DEF Response, Names
    <3>2. SetResponse(w, b, "rearm")
      BY <2>2 DEF Replaced
    <3> HIDE DEF b
    <3> QED BY <3>1, <3>2
  <2>3. \/ \E head \in {"page", "moved", "ok"} : Built(w, head)
        \/ \E name \in {"redirect", "/"} : Replaced(w, name)
    BY DEF BuildPage, BuildRedirect, BuildFileFails, BuildDelete, BuildPut
  <2>4. CASE \E head \in {"page", "moved", "ok"} : Built(w, head)
    <3>1. PICK b : /\ SetResponse(w, b, "send") /\ b \in Response /\ b.name # ""
                   /\ b.head # "file" /\ b.status = "HEAD"
      BY <2>1, <2>4
    <3>2. b.status = "INIT" => b.head = "none"
      BY <3>1
    <3> QED BY <3>1, <3>2
  <2>5. CASE \E name \in {"redirect", "/"} : Replaced(w, name)
    <3>1. PICK b : /\ SetResponse(w, b, "rearm") /\ b \in Response /\ b.name # ""
                   /\ b.head = "none"
      BY <2>2, <2>5
    <3>2. b.head # "file"
      BY <3>1
    <3> QED BY <3>1, <3>2
  <2> QED BY <2>3, <2>4, <2>5
<1>4. UNCHANGED <<interest, request, erased, conn>>
  BY DEF BuildPage, BuildRedirect, BuildFileFails, BuildDelete, BuildPut, sendVars,
     socketVars, elseVars
<1>5. fdUse' = fdUse
        \/ \E f \in Fds : fdUse[f] = "free" /\ fdUse' = [fdUse EXCEPT ![f] = "dir"]
  BY DEF BuildPage, BuildRedirect, BuildFileFails, BuildDelete, BuildPut, sendVars,
     socketVars, IsLowestFree
<1>6. b # NoEntry
  BY <1>3, NoEntryAssumption
<1> QED BY <1>1, <1>3, <1>4, <1>5, <1>6, AnswerMoves

(* The file that is opened is nobody else's: its number was free.          *)
LEMMA OpensApart ==
  ASSUME NEW w \in Workers, NEW fd, Serving(w, fd), BuildFile(w)
  PROVE  ApartInv'
<1>1. pc[w] = "build" /\ UNCHANGED <<interest, request, erased, conn>>
  BY DEF BuildFile, Builds, At, elseVars
<1>2. /\ fd = fdOf[w] /\ fd \in Fds /\ IsConn(fd) /\ FitAt(fd, pc[w])
      /\ Resp(w) \in Response /\ Resp(w).name # ""
  BY <1>1, AnswerIs
<1>3. /\ fdUse \in [Fds -> {"free", "conn", "file", "dir"}]
      /\ response \in [Fds -> Headed \cup {NoEntry}]
      /\ erased \in [Workers -> Fds \cup {NoFd}]
  BY ServingIs
<1>4. PICK f \in Fds :
        /\ fdUse[f] = "free" /\ fdUse' = [fdUse EXCEPT ![f] = "file"]
        /\ SetResponse(w, [Resp(w) EXCEPT !.status = "HEAD", !.head = "file",
                                          !.file = f, !.sent = 0], "send")
  BY DEF BuildFile, IsLowestFree
<1> DEFINE b == [Resp(w) EXCEPT !.status = "HEAD", !.head = "file", !.file = f,
                                !.sent = 0]
<1>5. /\ b \in Response /\ b.name # "" /\ b.status = "HEAD" /\ b.head = "file"
      /\ b.file = f
  BY <1>2, NothingSent DEF Response, Statuses, Answers
<1>6. b # NoEntry
  BY <1>5, NoEntryAssumption
<1>7. response' = [response EXCEPT ![fd] = b] /\ MovesTo(w, "send")
  BY <1>2, <1>4, GotoMoves DEF SetResponse, SendPcs
<1> HIDE DEF b
<1>8. response'[fd] = b /\ \A g \in Fds \ {fd} : response'[g] = response[g]
  BY <1>2, <1>3, <1>7
<1>9. \A g \in Fds : IsConn(g)' = IsConn(g) /\ (fdUse[g] = "file" => fdUse'[g] = "file")
  BY <1>3, <1>4 DEF IsConn
<1>10. \A g \in Fds \ {fd} : SameAt(g)
  BY <1>1, <1>8, <1>9 DEF SameAt
<1>11. FilesOpen'
  <2>1. FilesOpen
    BY DEF Serving, ApartInv
  <2>2. \A g \in Fds : HasFile(g)' <=> g = fd \/ HasFile(g)
    BY <1>5, <1>6, <1>8 DEF HasFile
  <2>3. \A g \in Fds : HasFile(g) => response[g].file # f
    BY <1>4, <2>1 DEF FilesOpen
  <2>4. \A v \in Workers : Closes(v) => erased[v] # f
    BY <1>4, <2>1 DEF FilesOpen
  <2>5. \A v \in Workers : Closes(v)' => Closes(v) /\ erased'[v] = erased[v]
    <3>1. pc'[w] = "send" /\ \A v \in Workers \ {w} : pc'[v] = pc[v]
      BY <1>7, Moving
    <3> QED BY <1>1, <3>1 DEF Closes
  <2>6. fdUse'[f] = "file"
    BY <1>3, <1>4
  <2>7. \A g \in Fds : HasFile(g)' =>
          response'[g].file \in Fds /\ fdUse'[response'[g].file] = "file"
    BY <1>5, <1>8, <1>9, <2>1, <2>2, <2>6 DEF FilesOpen
  <2>8. \A g, h \in Fds : HasFile(g)' /\ HasFile(h)' /\ g # h =>
                            response'[g].file # response'[h].file
    <3>1. \A g \in Fds \ {fd} : HasFile(g)' => HasFile(g) /\ response'[g] = response[g]
      BY <1>8, <2>2
    <3>2. response'[fd].file = f
      BY <1>5, <1>8
    <3>3. \A g, h \in Fds : HasFile(g) /\ HasFile(h) /\ g # h =>
                              response[g].file # response[h].file
      BY <2>1 DEF FilesOpen
    <3> QED BY <2>3, <3>1, <3>2, <3>3
  <2>9. ASSUME NEW v \in Workers, Closes(v)'
        PROVE  /\ fdUse'[erased'[v]] = "file"
               /\ \A g \in Fds : HasFile(g)' => response'[g].file # erased'[v]
               /\ \A u \in Workers \ {v} : Closes(u)' => erased'[u] # erased'[v]
    <3>1. Closes(v) /\ erased'[v] = erased[v] /\ erased[v] \in Fds
      BY <1>3, <2>5, <2>9 DEF Closes
    <3>2. fdUse'[erased'[v]] = "file"
      BY <1>9, <2>1, <3>1 DEF FilesOpen
    <3>3. \A g \in Fds : HasFile(g)' => response'[g].file # erased'[v]
      <4>1. \A g \in Fds : HasFile(g) => response[g].file # erased[v]
        BY <2>1, <3>1 DEF FilesOpen
      <4>2. response'[fd].file # erased[v]
        BY <1>5, <1>8, <2>4, <3>1
      <4> QED BY <1>8, <2>2, <3>1, <4>1, <4>2
    <3>4. \A u \in Workers \ {v} : Closes(u)' => erased'[u] # erased'[v]
      BY <2>1, <2>5, <3>1 DEF FilesOpen
    <3> QED BY <3>2, <3>3, <3>4
  <2> QED BY <2>7, <2>8, <2>9 DEF FilesOpen
<1>12. Pending(fd)' = Pending(fd)
  BY <1>2, <1>7, Moving
<1>13. Fit(IsConn(fd), conn[fd].peer, request[fd].status, b, "send", Pending(fd),
           interest[fd])
  BY <1>1, <1>2, <1>5, <1>6
     DEF FitAt, Fit, TurnPcs, HeadPcs, SoundPcs, AnswerPcs, Named
<1>14. FitAt(fd, "send")'
  BY <1>1, <1>2, <1>8, <1>9, <1>12, <1>13 DEF FitAt
<1> QED BY <1>7, <1>10, <1>11, <1>14, Moved

(* The loop of send and sendfile.                                          *)
LEMMA SendsApart ==
  ASSUME NEW w \in Workers, NEW fd, Serving(w, fd),
         SendHead(w) \/ SendBody(w) \/ SendEmpty(w) \/ SendSpins(w) \/ SendTail(w)
  PROVE  ApartInv'
<1>1. pc[w] \in {"send", "tail"}
  BY DEF SendHead, SendBody, SendEmpty, SendSpins, SendTail, At
<1>2. /\ fd \in Fds /\ Resp(w) = response[fd] /\ Resp(w) \in Response
      /\ Resp(w) # NoEntry /\ Resp(w).name # ""
      /\ Resp(w).status = "INIT" => Resp(w).head = "none"
      /\ conn \in [Fds -> Connection]
  <2>1. response[fd] \in Response /\ Resp(w) = response[fd] /\ response[fd] # NoEntry
    BY <1>1, AnswerIs
  <2>2. /\ response[fd].name # ""
        /\ response[fd].status = "INIT" => response[fd].head = "none"
    BY <1>1, AnswerIs
  <2>3. fd \in Fds /\ conn \in [Fds -> Connection]
    BY ServingIs
  <2> QED BY <2>1, <2>2, <2>3
<1>3. /\ UNCHANGED <<interest, request, erased, fdUse>>
      /\ \A f \in Fds : conn'[f].peer = "up" => conn[f].peer = "up"
  <2>1. CASE SendEmpty(w) \/ SendSpins(w) \/ SendTail(w)
    BY <2>1 DEF SendEmpty, SendSpins, SendTail, sendVars, socketVars, elseVars
  <2>2. ASSUME NEW u, Transmits(w, u)
        PROVE  /\ UNCHANGED <<interest, request, erased, fdUse>>
               /\ \A f \in Fds : conn'[f].peer = conn[f].peer
    BY <1>2, <2>2 DEF Transmits, kernelVars, elseVars, Connection
  <2>3. CASE SendHead(w) \/ SendBody(w)
    <3>1. \E u : Transmits(w, u)
      BY <2>3 DEF SendHead, SendBody
    <3> QED BY <2>2, <3>1
  <2> QED BY <2>1, <2>3
<1>4. PICK b \in Response, to \in {"send", "tail", "rearm", "eraseResponse"} :
        /\ SetResponse(w, b, to) /\ b.name = Resp(w).name
        /\ b.head = Resp(w).head /\ b.file = Resp(w).file
        /\ b.status = "INIT" => b.head = "none"
  <2> DEFINE r == Resp(w)
             Goes == \E b \in Response, to \in {"send", "tail", "rearm", "eraseResponse"} :
                       /\ SetResponse(w, b, to) /\ b.name = r.name
                       /\ b.head = r.head /\ b.file = r.file
                       /\ b.status = "INIT" => b.head = "none"
  <2>1. ASSUME NEW s \in {"BODY", "COMPLETE"}, NEW to \in {"send", "tail"},
               SetResponse(w, [r EXCEPT !.status = s, !.sent = 0], to)
        PROVE  Goes
    <3> DEFINE b == [r EXCEPT !.status = s, !.sent = 0]
    <3>1. /\ b \in Response /\ b.name = r.name /\ b.head = r.head /\ b.file = r.file
          /\ b.status = s
      BY <1>2, NothingSent DEF Response, Statuses
    <3>2. SetResponse(w, b, to) /\ (b.status = "INIT" => b.head = "none")
      BY <2>1, <3>1
    <3> HIDE DEF b, r
    <3> QED BY <3>1, <3>2
  <2>2. ASSUME SetResponse(w, [r EXCEPT !.sent = @ + 1], "send"), r.status # "INIT",
               r.sent + 1 \in 0..(HeadUnits + BodyUnits)
        PROVE  Goes
    <3> DEFINE b == [r EXCEPT !.sent = r.sent + 1]
    <3>1. /\ b \in Response /\ b.name = r.name /\ b.head = r.head /\ b.file = r.file
          /\ b.status = r.status
      BY <1>2, <2>2 DEF Response
    <3>2. SetResponse(w, b, "send") /\ (b.status = "INIT" => b.head = "none")
      BY <2>2, <3>1
    <3> HIDE DEF b, r
    <3> QED BY <3>1, <3>2
  <2>3. r.sent \in 0..(HeadUnits + BodyUnits)
    BY <1>2 DEF Response
  <2>4. CASE SendHead(w)
    <3>1. CASE r.sent + 1 >= HeadUnits
      BY <2>1, <2>4, <3>1 DEF SendHead
    <3>2. CASE ~(r.sent + 1 >= HeadUnits)
      <4>1. r.sent + 1 \in 0..(HeadUnits + BodyUnits)
        BY <2>3, <3>2, SocketsAssumption
      <4> QED BY <2>2, <2>4, <3>2, <4>1 DEF SendHead
    <3> QED BY <3>1, <3>2
  <2>5. CASE SendBody(w)
    <3>1. CASE r.sent + 1 >= BodyUnits
      BY <2>1, <2>5, <3>1 DEF SendBody
    <3>2. CASE ~(r.sent + 1 >= BodyUnits)
      <4>1. r.sent + 1 \in 0..(HeadUnits + BodyUnits)
        BY <2>3, <3>2, SocketsAssumption
      <4> QED BY <2>2, <2>5, <3>2, <4>1 DEF SendBody, SendsBody
    <3> QED BY <3>1, <3>2
  <2>6. CASE SendEmpty(w)
    BY <2>1, <2>6 DEF SendEmpty
  <2>7. CASE SendSpins(w) \/ SendTail(w)
    <3>1. PICK to \in {"send", "rearm", "eraseResponse"} : SetResponse(w, r, to)
      BY <2>7 DEF SendSpins, SendTail
    <3>2. r \in Response /\ (r.status = "INIT" => r.head = "none")
      BY <1>2
    <3> QED BY <3>1, <3>2
  <2> QED BY <2>4, <2>5, <2>6, <2>7
<1>5. b # NoEntry
  BY <1>4, NoEntryAssumption
<1> QED BY <1>1, <1>2, <1>3, <1>4, <1>5, AnswerMoves

(* A file that is being sent is open, so send fails only if the client     *)
(* reset the connection.                                                   *)
LEMMA SentFileIsOpen ==
  ASSUME NEW w \in Workers, NEW fd, Serving(w, fd), pc[w] = "send"
  PROVE  ~BadFile(w)
<1>1. fd = fdOf[w] /\ fd \in Fds /\ response[fd] # NoEntry /\ Resp(w) = response[fd]
  BY AnswerIs
<1>2. Resp(w).head = "file" => Resp(w).file \in Fds /\ fdUse[Resp(w).file] = "file"
  BY <1>1 DEF Serving, ApartInv, FilesOpen, HasFile
<1> QED BY <1>2, ReactorAssumption DEF BadFile

LEMMA FailsApart ==
  ASSUME NEW w \in Workers, NEW fd, Serving(w, fd), SendFails(w)
  PROVE  ApartInv'
<1>1. pc[w] = "send"
  BY DEF SendFails, Sends, At
<1>2. /\ fd = fdOf[w] /\ fd \in Fds /\ request[fd] \in Request
      /\ conn \in [Fds -> Connection] /\ IsConn(fd)
  BY <1>1, AnswerIs, ServingIs
<1>3. ~BadFile(w)
  BY <1>1, SentFileIsOpen
<1> DEFINE q == [request[fd] EXCEPT !.status = "ERROR"]
<1>4. SetRequest(w, q) /\ q.status = "ERROR"
  BY <1>2 DEF SendFails, SetStatus, Req, Request
<1>5. /\ conn'[fd].peer # "up"
      /\ \A f \in Fds : conn'[f].peer = "up" => conn[f].peer = "up"
  BY <1>2, <1>3 DEF SendFails, Connection
<1>6. MovesTo(w, "tail") /\ UNCHANGED <<fdUse, interest, response, erased>>
  BY GotoMoves DEF SendFails, SendPcs, kernelVars, elseVars
<1> HIDE DEF q
<1>7. FitAt(fd, pc[w]) =>
        Fit(IsConn(fd), conn'[fd].peer, q.status, response[fd], "tail", Pending(fd),
            interest[fd])
  BY <1>1, <1>2, <1>4, <1>5 DEF FitAt, Fit, TurnPcs, HeadPcs, SoundPcs, AnswerPcs
<1> QED BY <1>4, <1>5, <1>6, <1>7, RequestMoves

LEMMA FindsApart ==
  ASSUME NEW w \in Workers, NEW fd, Serving(w, fd), FindResponse(w) \/ SendBlocks(w)
  PROVE  ApartInv'
<1>1. /\ fd = fdOf[w] /\ fd \in Fds /\ IsConn(fd) /\ FitAt(fd, pc[w])
      /\ pc[w] \in {"find", "send"}
  BY ServingIs DEF Serving, FindResponse, SendBlocks, SendWorks, Sends, At
<1>2. UNCHANGED <<request, fdUse, interest, response, erased, conn>>
  BY DEF FindResponse, SendBlocks, sendVars, socketVars, elseVars
<1>3. Resp(w) = response[fd] /\ response[fd] # NoEntry
  BY <1>1 DEF FitAt, Fit, AnswerPcs, Named, Resp, Entry
<1>4. PICK to \in {"build", "send", "tail"} :
        /\ Goto(w, to)
        /\ to = "build" => response[fd].status = "INIT"
  BY <1>1, <1>3 DEF FindResponse, SendBlocks
<1>5. MovesTo(w, to)
  BY <1>4, GotoMoves DEF SendPcs
<1>6. Fit(IsConn(fd), conn'[fd].peer, request[fd].status, response[fd], to, Pending(fd),
          interest[fd])
  BY <1>1, <1>2, <1>3, <1>4 DEF FitAt, Fit, TurnPcs, HeadPcs, SoundPcs, AnswerPcs
<1> QED BY <1>2, <1>4, <1>5, <1>6, RequestMoves

(* The file of a finished answer is the handler's, until it closes it.     *)
LEMMA ErasesApart ==
  ASSUME NEW w \in Workers, NEW fd, Serving(w, fd), EraseResponse(w)
  PROVE  ApartInv'
<1>1. pc[w] = "eraseResponse" /\ UNCHANGED <<fdUse, interest, request, conn>>
  BY DEF EraseResponse, At, socketVars
<1>2. /\ fd = fdOf[w] /\ fd \in Fds /\ IsConn(fd) /\ FitAt(fd, pc[w])
      /\ erased \in [Workers -> Fds \cup {NoFd}]
      /\ response \in [Fds -> Headed \cup {NoEntry}]
  BY <1>1, ServingIs DEF Serving
<1>3. /\ MovesTo(w, "rearmIn") /\ response' = [response EXCEPT ![fd] = NoEntry]
      /\ erased' = [erased EXCEPT ![w] =
                      IF Resp(w).head = "file" THEN Resp(w).file ELSE NoFd]
  BY <1>2, GotoMoves DEF EraseResponse, SendPcs
<1>4. response'[fd] = NoEntry /\ \A f \in Fds \ {fd} : response'[f] = response[f]
  BY <1>2, <1>3
<1>5. \A f \in Fds \ {fd} : SameAt(f)
  BY <1>1, <1>4 DEF SameAt, IsConn
<1>6. erased'[w] # NoFd => HasFile(fd) /\ erased'[w] = response[fd].file
  BY <1>2, <1>3 DEF HasFile, Resp, Entry, NewResponse
<1>7. /\ pc'[w] = "rearmIn"
      /\ \A v \in Workers \ {w} : pc'[v] = pc[v] /\ erased'[v] = erased[v]
  BY <1>2, <1>3, Moving
<1>8. \A f \in Fds : HasFile(f)' => f # fd /\ HasFile(f) /\ response'[f] = response[f]
  BY <1>4 DEF HasFile
<1>9. FilesOpen
  BY DEF Serving, ApartInv
<1>10. ASSUME NEW v \in Workers, Closes(v)'
       PROVE  /\ fdUse[erased'[v]] = "file"
              /\ \A f \in Fds : HasFile(f)' => response'[f].file # erased'[v]
              /\ \A u \in Workers \ {v} : Closes(u)' => erased'[u] # erased'[v]
  <2>1. CASE v = w
    <3>1. HasFile(fd) /\ erased'[w] = response[fd].file
      BY <1>6, <1>10, <2>1 DEF Closes
    <3>2. \A u \in Workers \ {w} : Closes(u)' => Closes(u) /\ erased'[u] = erased[u]
      BY <1>7 DEF Closes
    <3>3. \A u \in Workers : Closes(u) => erased[u] # response[fd].file
      BY <1>2, <1>9, <3>1 DEF FilesOpen
    <3>4. \A u \in Workers \ {w} : Closes(u)' => erased'[u] # erased'[w]
      BY <3>1, <3>2, <3>3
    <3>5. fdUse[erased'[w]] = "file"
      BY <1>2, <1>9, <3>1 DEF FilesOpen
    <3>6. \A f \in Fds : HasFile(f)' => response'[f].file # erased'[w]
      BY <1>2, <1>8, <1>9, <3>1 DEF FilesOpen
    <3> QED BY <2>1, <3>4, <3>5, <3>6
  <2>2. CASE v # w
    <3>1. Closes(v) /\ erased'[v] = erased[v]
      BY <1>7, <1>10, <2>2 DEF Closes
    <3>2. \A u \in Workers \ {w} : Closes(u)' => Closes(u) /\ erased'[u] = erased[u]
      BY <1>7 DEF Closes
    <3>3. fdUse[erased[v]] = "file"
      BY <1>9, <3>1 DEF FilesOpen
    <3>4. \A f \in Fds : HasFile(f) => response[f].file # erased[v]
      BY <1>9, <3>1 DEF FilesOpen
    <3>5. \A u \in Workers \ {v} : Closes(u) => erased[u] # erased[v]
      BY <1>9, <3>1 DEF FilesOpen
    <3>6. Closes(w)' => erased'[w] # erased[v]
      BY <1>2, <1>6, <3>4 DEF Closes
    <3> QED BY <1>8, <3>1, <3>2, <3>3, <3>4, <3>5, <3>6
  <2> QED BY <2>1, <2>2
<1>11. FilesOpen'
  <2>1. \A f \in Fds : HasFile(f)' =>
          response'[f].file \in Fds /\ fdUse'[response'[f].file] = "file"
    BY <1>1, <1>8, <1>9 DEF FilesOpen
  <2>2. \A f, g \in Fds : HasFile(f)' /\ HasFile(g)' /\ f # g =>
                            response'[f].file # response'[g].file
    BY <1>8, <1>9 DEF FilesOpen
  <2> QED BY <1>1, <1>10, <2>1, <2>2 DEF FilesOpen
<1>12. Pending(fd)' = Pending(fd)
  BY <1>2, <1>3, Moving
<1>13. Fit(IsConn(fd), conn[fd].peer, request[fd].status, NoEntry, "rearmIn",
           Pending(fd), interest[fd])
  BY <1>1, <1>2 DEF FitAt, Fit, TurnPcs, HeadPcs, SoundPcs, AnswerPcs
<1>14. FitAt(fd, "rearmIn")'
  BY <1>1, <1>4, <1>12, <1>13 DEF FitAt, IsConn
<1> QED BY <1>3, <1>5, <1>11, <1>14, Moved

LEMMA RearmsApart ==
  ASSUME NEW w \in Workers, NEW fd, Serving(w, fd), RearmIn(w) \/ Rearm(w)
  PROVE  ApartInv'
<1>1. fd = fdOf[w] /\ UNCHANGED <<fdUse, conn, request, response, erased>>
  BY DEF Serving, RearmIn, Arm, Rearm, elseVars
<1>2. CASE RearmIn(w)
  <2>1. MovesTo(w, "closeFile") /\ pc[w] = "rearmIn" /\ Modify(fd, "in")
    BY <1>1, <1>2, GotoMoves DEF RearmIn, Arm, SendPcs, At
  <2>2. FilesStay
    <3>1. pc'[w] = "closeFile" /\ \A v \in Workers \ {w} : pc'[v] = pc[v]
      BY <2>1, Moving
    <3> QED BY <1>1, <2>1, <3>1 DEF FilesStay, HasFile, Closes
  <2>3. FilesOpen'
    BY <2>2, FilesKept, ServingIs DEF Serving, ApartInv
  <2> QED BY <1>1, <2>1, <2>3, ArmsApart DEF HeadPcs, SoundPcs
<1>3. CASE Rearm(w)
  <2>1. MovesTo(w, "none") /\ pc[w] = "rearm" /\ Modify(fd, "inout")
    BY <1>1, <1>3, ReturnMoves DEF Rearm, At
  <2>2. FilesOpen'
    BY <1>1, <2>1, FilesUnmoved DEF HasFile
  <2> QED BY <1>1, <2>1, <2>2, ArmsApart DEF HeadPcs, SoundPcs, AnswerPcs
<1> QED BY <1>2, <1>3

(* No other entry is made meanwhile, so the handler closes what it erased. *)
LEMMA FileClosesApart ==
  ASSUME NEW w \in Workers, NEW fd, Serving(w, fd), CloseFile(w)
  PROVE  ApartInv'
<1>1. /\ fd = fdOf[w] /\ fd \in Fds /\ pc[w] = "closeFile" /\ IsConn(fd)
      /\ FitAt(fd, pc[w]) /\ response[fd] = NoEntry
      /\ fdUse \in [Fds -> {"free", "conn", "file", "dir"}]
      /\ interest \in [Fds -> Interests] /\ conn \in [Fds -> Connection]
      /\ response \in [Fds -> Headed \cup {NoEntry}]
      /\ erased \in [Workers -> Fds \cup {NoFd}]
  <2>1. pc[w] = "closeFile"
    BY DEF CloseFile, At
  <2>2. FitAt(fd, pc[w]) /\ IsConn(fd)
    BY <2>1, ServingIs
  <2>3. response[fd] = NoEntry
    BY <2>1, <2>2 DEF FitAt, Fit
  <2> QED BY <2>1, <2>2, <2>3, ServingIs DEF Serving
<1>2. /\ MovesTo(w, "none") /\ response' = [response EXCEPT ![fd] = NewResponse]
      /\ UNCHANGED <<request, erased>>
  BY <1>1, ReturnMoves DEF CloseFile, Resp, Entry, elseVars
<1>3. \/ erased[w] \in Fds /\ CloseFd(erased[w])
      \/ erased[w] = NoFd /\ UNCHANGED socketVars
  BY <1>1 DEF CloseFile, FileToClose
<1>4. erased[w] \in Fds => Closes(w) /\ fdUse[erased[w]] = "file"
  BY <1>1, ReactorAssumption DEF Closes, Serving, ApartInv, FilesOpen
<1>5. \A f \in Fds : /\ f = erased[w] => ~IsConn(f) /\ fdUse'[f] = "free"
                                         /\ interest'[f] = "off"
                     /\ f # erased[w] => /\ fdUse'[f] = fdUse[f]
                                         /\ interest'[f] = interest[f]
                                         /\ conn'[f] = conn[f]
  <2>1. CASE erased[w] = NoFd
    BY <1>3, <2>1, ReactorAssumption DEF socketVars
  <2>2. CASE erased[w] \in Fds
    BY <1>1, <1>3, <1>4, <2>2, ReactorAssumption DEF CloseFd, IsConn
  <2> QED BY <1>3, <2>1, <2>2
<1>6. response'[fd] = NewResponse /\ \A f \in Fds \ {fd} : response'[f] = response[f]
  BY <1>1, <1>2
<1>7. \A f \in Fds \ {fd} : SameAt(f)
  <2> TAKE f \in Fds \ {fd}
  <2>1. CASE f # erased[w]
    BY <1>2, <1>5, <1>6, <2>1 DEF SameAt, IsConn
  <2>2. CASE f = erased[w]
    <3>1. FitAt(f, Place(f))
      BY DEF Serving, ApartInv, AllFit
    <3>2. interest[f] = "off"
      BY <1>5, <2>2, <3>1 DEF FitAt, Fit
    <3> QED BY <1>2, <1>5, <1>6, <2>2, <3>2 DEF SameAt, IsConn
  <2> QED BY <2>1, <2>2
<1>8. FilesOpen'
  <2>1. FilesOpen
    BY DEF Serving, ApartInv
  <2>2. \A f \in Fds : HasFile(f)' => HasFile(f) /\ response'[f] = response[f]
    <3>1. NewResponse.head # "file"
      BY DEF NewResponse
    <3>2. ~HasFile(fd)'
      BY <1>6, <3>1 DEF HasFile
    <3>3. \A f \in Fds \ {fd} : HasFile(f)' <=> HasFile(f)
      BY <1>6 DEF HasFile
    <3> QED BY <1>6, <3>2, <3>3
  <2>3. pc'[w] = "idle" /\ \A v \in Workers \ {w} : pc'[v] = pc[v]
    BY <1>2, Moving
  <2>4. \A v \in Workers : Closes(v)' => v # w /\ Closes(v) /\ erased'[v] = erased[v]
    BY <1>2, <2>3 DEF Closes
  <2>5. \A f \in Fds : fdUse[f] = "file" /\ f # erased[w] => fdUse'[f] = "file"
    BY <1>5
  <2>6. \A f \in Fds : HasFile(f) => /\ response[f].file \in Fds
                                     /\ response[f].file # erased[w]
                                     /\ fdUse[response[f].file] = "file"
    <3>1. CASE erased[w] \in Fds
      BY <1>4, <2>1, <3>1 DEF FilesOpen
    <3>2. CASE erased[w] = NoFd
      BY <2>1, <3>2, ReactorAssumption DEF FilesOpen
    <3> QED BY <1>3, <3>1, <3>2
  <2>7. \A v \in Workers \ {w} : Closes(v) =>
          erased[v] \in Fds /\ erased[v] # erased[w] /\ fdUse[erased[v]] = "file"
    <3> TAKE v \in Workers \ {w}
    <3> HAVE Closes(v)
    <3>1. erased[v] \in Fds /\ fdUse[erased[v]] = "file"
      BY <1>1, <2>1 DEF Closes, FilesOpen
    <3>2. CASE erased[w] \in Fds
      BY <1>4, <2>1, <3>1, <3>2 DEF FilesOpen
    <3>3. CASE erased[w] = NoFd
      BY <3>1, <3>3, ReactorAssumption
    <3> QED BY <1>3, <3>1, <3>2, <3>3
  <2>8. \A f \in Fds : HasFile(f)' =>
          response'[f].file \in Fds /\ fdUse'[response'[f].file] = "file"
    BY <2>2, <2>5, <2>6
  <2>9. \A f, g \in Fds : HasFile(f)' /\ HasFile(g)' /\ f # g =>
                            response'[f].file # response'[g].file
    BY <2>1, <2>2 DEF FilesOpen
  <2>10. ASSUME NEW v \in Workers, Closes(v)'
         PROVE  /\ fdUse'[erased'[v]] = "file"
                /\ \A f \in Fds : HasFile(f)' => response'[f].file # erased'[v]
                /\ \A u \in Workers \ {v} : Closes(u)' => erased'[u] # erased'[v]
    <3>1. v # w /\ Closes(v) /\ erased'[v] = erased[v]
      BY <2>4, <2>10
    <3>2. fdUse'[erased'[v]] = "file"
      BY <2>5, <2>7, <3>1
    <3>3. \A f \in Fds : HasFile(f)' => response'[f].file # erased'[v]
      BY <2>1, <2>2, <3>1 DEF FilesOpen
    <3>4. \A u \in Workers \ {v} : Closes(u)' => erased'[u] # erased'[v]
      BY <2>1, <2>4, <3>1 DEF FilesOpen
    <3> QED BY <3>2, <3>3, <3>4
  <2> QED BY <2>8, <2>9, <2>10 DEF FilesOpen
<1>9. /\ Pending(fd)' = Pending(fd) /\ IsConn(fd)' = IsConn(fd)
      /\ interest'[fd] = interest[fd] /\ conn'[fd].peer = conn[fd].peer
  BY <1>1, <1>2, <1>5, Moving DEF IsConn
<1>10. /\ NewResponse.status = "INIT" => NewResponse.head = "none"
  BY DEF NewResponse
<1>11. Fit(IsConn(fd), conn[fd].peer, request[fd].status, NewResponse, "none",
           Pending(fd), interest[fd])
  BY <1>1, <1>10 DEF FitAt, Fit, TurnPcs, HeadPcs, SoundPcs, AnswerPcs, Named
<1>12. FitAt(fd, "none")'
  BY <1>2, <1>6, <1>9, <1>11 DEF FitAt
<1> QED BY <1>2, <1>7, <1>8, <1>12, Moved

LEMMA DiesApart ==
  ASSUME TypeInv, ApartInv,
         UNCHANGED <<fdUse, pc, fdOf, erased, response, queue, interest, request, conn>>
  PROVE  ApartInv'
<1>1. \A fd \in Fds : Place(fd)' = Place(fd)
  BY DEF Place, Handler
<1>2. ASSUME NEW fd \in Fds PROVE Single(fd)' /\ FitAt(fd, Place(fd))'
  <2>1. (Single(fd)' <=> Single(fd)) /\ Pending(fd)' = Pending(fd)
    BY DEF Single, Pending, Queued
  <2>2. Single(fd) /\ FitAt(fd, Place(fd))
    BY DEF ApartInv, AllFit
  <2> QED BY <1>1, <2>1, <2>2 DEF FitAt, IsConn
<1> QED BY <1>2, AsideIsApart

LEMMA SendIsApart ==
  ASSUME NEW w \in Workers, NEW fd, Serving(w, fd), SendStep(w)
  PROVE  ApartInv'
<1>1. CASE BuildPageDies(w) \/ BuildThrows(w) \/ SendKills(w)
  BY <1>1, DiesApart DEF BuildPageDies, BuildThrows, SendKills, socketVars, poolVars,
     Serving
<1> QED BY <1>1, BuildsApart, OpensApart, SendsApart, FailsApart, FindsApart, ErasesApart,
           RearmsApart, FileClosesApart DEF SendStep

-----------------------------------------------------------------------------
(* Taking, accepting, reporting and what clients do                        *)

LEMMA TakesApart ==
  ASSUME TypeInv, ApartInv, HandlersApart', NEW w \in Workers, Take(w)
  PROVE  ApartInv'
<1> DEFINE h == Head(queue)
<1>a. /\ queue \in Seq(Events) /\ queue # <<>> /\ queue' = Tail(queue)
      /\ pc \in [Workers -> Places] /\ fdOf \in [Workers -> Fds \cup {NoFd}]
      /\ erased \in [Workers -> Fds \cup {NoFd}]
  BY Parts DEF PoolOK, ElseOK, Take, WQ!Take
<1>b. /\ pc[w] = "idle" /\ pc' = [pc EXCEPT ![w] = h.type]
      /\ fdOf' = IF h = AcceptEvent THEN fdOf ELSE [fdOf EXCEPT ![w] = h.fd]
      /\ UNCHANGED <<fdUse, interest, conn, request, response, erased>>
  BY DEF Take, At, socketVars
<1>c. /\ h = AcceptEvent => h.type = "accept"
      /\ h # AcceptEvent => h.type \in {"recv", "find"} /\ h.fd \in Fds
      /\ h = queue[1] /\ Len(queue) \in Nat \ {0}
  <2>1. h \in Events /\ h = queue[1] /\ Len(queue) \in Nat \ {0}
    BY <1>a
  <2> QED BY <2>1 DEF Events, AcceptEvent
<1>d. /\ Len(queue') = Len(queue) - 1
      /\ \A i \in 1..(Len(queue) - 1) : queue'[i] = queue[i + 1]
  BY <1>a
<1>e. fdOf[w] = NoFd /\ HandlersApart /\ IdleHandleNone /\ FilesOpen /\ AllFit
  BY <1>b DEF ApartInv, IdleHandleNone
<1> HIDE DEF h
<1>1. IdleHandleNone'
  BY <1>a, <1>b, <1>c, <1>e DEF IdleHandleNone
<1>2. FilesOpen'
  <2>1. FilesStay
    BY <1>a, <1>b, <1>c DEF FilesStay, HasFile, Closes
  <2> QED BY <1>a, <1>e, <2>1, FilesKept
<1>3. ASSUME NEW fd \in Fds PROVE Single(fd)' /\ FitAt(fd, Place(fd))'
  <2>1. ASSUME NEW i \in Queued(fd)'
        PROVE  i \in Nat \ {0} /\ i + 1 \in Queued(fd) /\ queue'[i] = queue[i + 1]
    BY <1>c, <1>d, <2>1 DEF Queued
  <2>2. ASSUME NEW j \in Queued(fd), j # 1
        PROVE  /\ j - 1 \in Nat \ {0} /\ j - 1 \in Queued(fd)'
               /\ queue'[j - 1] = queue[j]
    BY <1>c, <1>d, <2>2 DEF Queued
  <2>3. Single(fd) /\ FitAt(fd, Place(fd))
    BY <1>e DEF AllFit
  <2>4. Single(fd)'
    <3> SUFFICES ASSUME NEW i \in Queued(fd)', NEW j \in Queued(fd)' PROVE i = j
      BY DEF Single
    <3>1. i + 1 = j + 1 /\ i \in Nat /\ j \in Nat
      BY <2>1, <2>3 DEF Single
    <3> QED BY <3>1
  <2>5. \A v \in Workers \ {w} : pc'[v] = pc[v] /\ fdOf'[v] = fdOf[v]
    BY <1>a, <1>b
  <2>6. CASE h # AcceptEvent /\ h.fd = fd
    <3>1. 1 \in Queued(fd) /\ queue[1].type = h.type
      BY <1>c, <2>6 DEF Queued
    <3>2. Pending(fd)' = {}
      <4> SUFFICES ASSUME NEW i \in Queued(fd)' PROVE FALSE
        BY DEF Pending
      <4>1. i + 1 = 1 /\ i \in Nat \ {0}
        BY <2>1, <2>3, <3>1 DEF Single
      <4> QED BY <4>1
    <3>3. h.type \in Pending(fd)
      BY <3>1 DEF Pending
    <3>4. fdOf'[w] = fd /\ pc'[w] = h.type /\ fd # NoFd /\ fdOf'[w] # NoFd
      BY <1>a, <1>b, <2>6, ReactorAssumption
    <3>5. Place(fd)' = h.type
      BY <3>4, PlaceIsNew
    <3>6. \A v \in Workers : fdOf[v] # fd
      BY <1>e, <2>5, <3>4 DEF HandlersApart
    <3>7. Place(fd) = "none"
      BY <3>6, PlaceNone
    <3>8. FitAt(fd, "none") /\ IsConn(fd)' = IsConn(fd)
      BY <1>b, <2>3, <3>7 DEF IsConn
    <3>9. Fit(IsConn(fd), conn[fd].peer, request[fd].status, response[fd], h.type, {},
              interest[fd])
      BY <1>c, <2>6, <3>3, <3>8
         DEF FitAt, Fit, TurnPcs, HeadPcs, SoundPcs, AnswerPcs
    <3> QED BY <1>b, <2>4, <3>2, <3>5, <3>8, <3>9 DEF FitAt
  <2>7. CASE ~(h # AcceptEvent /\ h.fd = fd)
    <3>1. 1 \notin Queued(fd)
      BY <1>c, <2>7 DEF Queued
    <3>2. Pending(fd)' = Pending(fd)
      BY <2>1, <2>2, <3>1 DEF Pending
    <3>3. fdOf[w] # fd /\ fdOf'[w] # fd
      BY <1>a, <1>b, <1>e, <2>7, ReactorAssumption
    <3>4. Place(fd)' = Place(fd)
      BY <2>5, <3>3, PlaceKept
    <3> QED BY <1>b, <2>3, <2>4, <3>2, <3>4 DEF FitAt, IsConn
  <2> QED BY <2>6, <2>7
<1> QED BY <1>1, <1>2, <1>3 DEF ApartInv, AllFit

LEMMA AcceptsApart ==
  ASSUME TypeInv, ApartInv, HandlersApart', NEW w \in Workers,
         Accept(w) \/ AcceptFails(w)
  PROVE  ApartInv'
<1>a. /\ pc \in [Workers -> Places] /\ fdOf \in [Workers -> Fds \cup {NoFd}]
      /\ erased \in [Workers -> Fds \cup {NoFd}]
      /\ fdUse \in [Fds -> {"free", "conn", "file", "dir"}]
  BY Parts DEF PoolOK, KernelOK, ElseOK
<1>b. /\ pc[w] = "accept" /\ UNCHANGED <<interest, conn, queue, request, response, erased>>
      /\ \A v \in Workers \ {w} : pc'[v] = pc[v] /\ fdOf'[v] = fdOf[v]
  BY <1>a DEF Accept, AcceptFails, At, Return, WQ!Finish, poolVars, socketVars
<1>c. \/ /\ fdUse' = fdUse /\ pc'[w] = "idle" /\ fdOf'[w] = NoFd
      \/ \E d \in Fds : /\ fdUse[d] = "free" /\ fdUse' = [fdUse EXCEPT ![d] = "conn"]
                        /\ pc'[w] = "add" /\ fdOf'[w] = d
  BY <1>a DEF Accept, AcceptFails, Return, IsLowestFree, socketVars
<1>e. fdOf[w] = NoFd /\ HandlersApart /\ IdleHandleNone /\ FilesOpen /\ AllFit
  BY <1>b DEF ApartInv, IdleHandleNone
<1>1. IdleHandleNone'
  BY <1>b, <1>c, <1>e DEF IdleHandleNone
<1>2. FilesOpen'
  <2>1. FilesStay
    BY <1>a, <1>b, <1>c DEF FilesStay, HasFile, Closes
  <2> QED BY <1>a, <1>e, <2>1, FilesKept
<1>3. ASSUME NEW fd \in Fds PROVE Single(fd)' /\ FitAt(fd, Place(fd))'
  <2>1. (Single(fd)' <=> Single(fd)) /\ Pending(fd)' = Pending(fd)
    BY <1>b DEF Single, Pending, Queued
  <2>2. Single(fd) /\ FitAt(fd, Place(fd))
    BY <1>e DEF AllFit
  <2>3. CASE fdOf'[w] = fd
    <3>1. /\ fdUse[fd] = "free" /\ fdUse'[fd] = "conn" /\ pc'[w] = "add"
          /\ fdOf'[w] # NoFd
      BY <1>a, <1>c, <2>3, ReactorAssumption
    <3>2. \A v \in Workers : fdOf[v] # fd
      BY <1>b, <1>e, <2>3, <3>1, ReactorAssumption DEF HandlersApart
    <3>3. Place(fd) = "none"
      BY <3>2, PlaceNone
    <3>4. Place(fd)' = "add"
      BY <2>3, <3>1, PlaceIsNew
    <3>5. ~IsConn(fd) /\ IsConn(fd)' = TRUE
      BY <3>1 DEF IsConn
    <3>6. FitAt(fd, "none")
      BY <2>2, <3>3
    <3>7. Fit(TRUE, conn[fd].peer, request[fd].status, response[fd], "add", Pending(fd),
              interest[fd])
      BY <3>5, <3>6 DEF FitAt, Fit, TurnPcs, HeadPcs, SoundPcs, AnswerPcs
    <3> QED BY <1>b, <2>1, <2>2, <3>4, <3>5, <3>7 DEF FitAt
  <2>4. CASE fdOf'[w] # fd
    <3>1. Place(fd)' = Place(fd)
      BY <1>b, <1>e, <2>4, PlaceKept, ReactorAssumption
    <3>2. IsConn(fd)' = IsConn(fd)
      BY <1>a, <1>c, <2>4 DEF IsConn
    <3> QED BY <1>b, <2>1, <2>2, <3>1, <3>2 DEF FitAt
  <2> QED BY <2>3, <2>4
<1> QED BY <1>1, <1>2, <1>3 DEF ApartInv, AllFit

LEMMA AddsApart ==
  ASSUME NEW w \in Workers, NEW fd, Serving(w, fd), AddWait(w)
  PROVE  ApartInv'
<1>1. /\ fd = fdOf[w] /\ fd \in Fds /\ pc[w] = "add" /\ IsConn(fd)
      /\ FitAt(fd, pc[w]) /\ interest \in [Fds -> Interests]
      /\ UNCHANGED <<fdUse, conn, request, response, erased>>
  <2>1. pc[w] = "add" /\ UNCHANGED <<fdUse, conn, request, response, erased>>
    BY DEF AddWait, At
  <2> QED BY <2>1, ServingIs DEF Serving
<1>2. MovesTo(w, "none")
  BY ReturnMoves DEF AddWait
<1>3. /\ \A f \in Fds \ {fd} : interest'[f] = interest[f]
      /\ interest'[fd] \in {"in", interest[fd]}
  BY <1>1 DEF AddWait
<1>4. \A f \in Fds \ {fd} : SameAt(f)
  BY <1>1, <1>3 DEF SameAt, IsConn
<1>5. FilesOpen'
  BY <1>1, <1>2, FilesUnmoved DEF HasFile
<1>6. Pending(fd)' = Pending(fd) /\ IsConn(fd)' = IsConn(fd)
  BY <1>1, <1>2, Moving DEF IsConn
<1>7. Fit(IsConn(fd), conn[fd].peer, request[fd].status, response[fd], "none",
          Pending(fd), interest'[fd])
  BY <1>1, <1>3 DEF FitAt, Fit, TurnPcs, HeadPcs, SoundPcs, AnswerPcs
<1>8. FitAt(fd, "none")'
  BY <1>1, <1>6, <1>7 DEF FitAt
<1> QED BY <1>2, <1>4, <1>5, <1>8, Moved

LEMMA MainIsApart ==
  ASSUME TypeInv, ApartInv, Listen \/ \E fd \in Fds : Dispatch(fd)
  PROVE  ApartInv'
<1>a. queue \in Seq(Events) /\ interest \in [Fds -> Interests]
      /\ Len(queue) \in Nat
  BY Parts DEF PoolOK, KernelOK
<1>b. /\ UNCHANGED <<fdUse, pc, fdOf, erased, request, response, conn>>
      /\ \A fd \in Fds : Place(fd)' = Place(fd)
  BY DEF Listen, Dispatch, Place, Handler
<1>1. CASE Listen
  <2>1. queue' = Append(queue, AcceptEvent) /\ interest' = interest
    BY <1>1 DEF Listen, WQ!Submit
  <2>2. ASSUME NEW fd \in Fds PROVE Single(fd)' /\ FitAt(fd, Place(fd))'
    <3>1. Queued(fd)' = Queued(fd) /\ \A i \in Queued(fd) : queue'[i] = queue[i]
      BY <1>a, <2>1 DEF Queued
    <3>2. Single(fd) /\ FitAt(fd, Place(fd))
      BY DEF ApartInv, AllFit
    <3>3. Single(fd)' /\ Pending(fd)' = Pending(fd)
      BY <3>1, <3>2 DEF Single, Pending
    <3> QED BY <1>b, <2>1, <3>2, <3>3 DEF FitAt, IsConn
  <2> QED BY <1>b, <2>2, AsideIsApart
<1>2. ASSUME NEW d \in Fds, Dispatch(d) PROVE ApartInv'
  <2> DEFINE e == [type |-> IF InReady(d) THEN "recv" ELSE "find", fd |-> d]
             n == Len(queue) + 1
  <2>1. e # AcceptEvent /\ e.fd = d /\ e.type = IF InReady(d) THEN "recv" ELSE "find"
    <3>1. DOMAIN e = {"type", "fd"} /\ DOMAIN AcceptEvent = {"type"}
      BY DEF AcceptEvent
    <3> QED BY <3>1
  <2>2. queue' = Append(queue, e) /\ interest' = [interest EXCEPT ![d] = "disarmed"]
        /\ Armed(d) /\ (~InReady(d) => interest[d] = "inout")
    BY <1>2 DEF Dispatch, WQ!Submit, Reported, Armed
  <2> HIDE DEF e
  <2>3. ASSUME NEW fd \in Fds PROVE Single(fd)' /\ FitAt(fd, Place(fd))'
    <3>1. Single(fd) /\ FitAt(fd, Place(fd))
      BY DEF ApartInv, AllFit
    <3>2. CASE fd # d
      <4>1. Queued(fd)' = Queued(fd) /\ \A i \in Queued(fd) : queue'[i] = queue[i]
        BY <1>a, <2>1, <2>2, <3>2 DEF Queued
      <4>2. Single(fd)' /\ Pending(fd)' = Pending(fd) /\ interest'[fd] = interest[fd]
        BY <1>a, <2>2, <3>1, <3>2, <4>1 DEF Single, Pending
      <4> QED BY <1>b, <3>1, <4>2 DEF FitAt, IsConn
    <3>3. CASE fd = d
      <4>1. interest[d] \in {"in", "inout"} /\ interest'[d] = "disarmed"
        BY <1>a, <2>2 DEF Armed
      <4>2. Pending(fd) = {}
        BY <3>1, <3>3, <4>1 DEF FitAt, Fit
      <4>3. Queued(fd) = {}
        BY <4>2 DEF Pending
      <4>4. Queued(fd)' = {n} /\ queue'[n] = e
        BY <1>a, <2>1, <2>2, <3>3, <4>3 DEF Queued
      <4>5. Single(fd)' /\ Pending(fd)' = {e.type}
        BY <4>4 DEF Single, Pending
      <4> DEFINE p == Place(fd)
      <4> HIDE DEF p
      <4>6. Fit(IsConn(fd), conn[fd].peer, request[fd].status, response[fd], p,
                Pending(fd), interest[fd])
        BY <3>1 DEF FitAt, p
      <4>7. Fit(IsConn(fd), conn[fd].peer, request[fd].status, response[fd], p,
                {e.type}, "disarmed")
        BY <2>1, <2>2, <3>3, <4>1, <4>6 DEF Fit, TurnPcs, HeadPcs, SoundPcs, AnswerPcs
      <4> QED BY <1>b, <3>3, <4>1, <4>5, <4>7 DEF FitAt, IsConn, p
    <3> QED BY <3>2, <3>3
  <2> QED BY <1>b, <2>3, AsideIsApart
<1> QED BY <1>1, <1>2

LEMMA ClientIsApart ==
  ASSUME TypeInv, ApartInv, ClientConnects \/ \E fd \in Fds : ClientSteps(fd)
  PROVE  ApartInv'
<1>1. UNCHANGED <<fdUse, interest, pc, fdOf, erased, response, request, queue>>
  BY DEF ClientConnects, Connect, ClientSteps, ClientStep, Ask, ClientSends,
     ClientReads, ClientCloses, ClientResets, kernelVars, programVars
<1>2. \A fd \in Fds : conn'[fd].peer = "up" => conn[fd].peer = "up"
  <2>1. conn \in [Fds -> Connection]
    BY Parts DEF ConnOK
  <2>2. CASE ClientConnects
    BY <2>2 DEF ClientConnects, Connect
  <2>3. ASSUME NEW d \in Fds, ClientSteps(d), NEW fd \in Fds, conn'[fd].peer = "up"
        PROVE  conn[fd].peer = "up"
    <3>1. CASE \E k \in Kinds : Ask(d, k)
      BY <2>1, <2>3, <3>1 DEF Ask, Connection
    <3>2. CASE ClientSends(d)
      BY <2>1, <2>3, <3>2 DEF ClientSends, Connection
    <3>3. CASE ClientReads(d)
      BY <2>1, <2>3, <3>3 DEF ClientReads, Connection
    <3>4. CASE ClientCloses(d) \/ ClientResets(d)
      BY <2>1, <2>3, <3>4 DEF ClientCloses, ClientResets, Connection
    <3> QED BY <2>3, <3>1, <3>2, <3>3, <3>4 DEF ClientSteps, ClientStep
  <2> QED BY <2>2, <2>3
<1>3. ASSUME NEW fd \in Fds PROVE Single(fd)' /\ FitAt(fd, Place(fd))'
  <2> DEFINE p == Place(fd)
  <2>1. p' = p
    BY <1>1 DEF Place, Handler
  <2>2. Single(fd) /\ FitAt(fd, p)
    BY DEF ApartInv, AllFit
  <2>3. Single(fd)' /\ Pending(fd)' = Pending(fd)
    BY <1>1, <2>2 DEF Single, Pending, Queued
  <2>4. SameAt(fd)
    BY <1>1, <1>2 DEF SameAt, IsConn
  <2> HIDE DEF p
  <2>5. \A q : FitAt(fd, q) => FitAt(fd, q)'
    BY <2>3, <2>4, FitKept
  <2>6. FitAt(fd, p)'
    BY <2>1, <2>2, <2>5 DEF FitAt
  <2> QED BY <2>3, <2>6 DEF p
<1> QED BY <1>1, <1>3, AsideIsApart

LEMMA ApartInvStep ==
  TypeInv /\ ApartInv /\ [Next /\ HandlersApart']_vars => ApartInv'
<1> SUFFICES ASSUME TypeInv, ApartInv, [Next /\ HandlersApart']_vars
             PROVE  ApartInv'
  OBVIOUS
<1>1. CASE UNCHANGED vars
  BY <1>1, DiesApart DEF vars, socketVars
<1>2. CASE MainListens \/ \E fd \in Fds : MainDispatches(fd)
  BY <1>2, MainIsApart DEF MainListens, MainDispatches
<1>3. CASE ClientConnects \/ \E fd \in Fds : ClientSteps(fd)
  BY <1>3, ClientIsApart
<1>4. ASSUME NEW w \in Workers, WorkerSteps(w), HandlersApart' PROVE ApartInv'
  <2>1. CASE Take(w) \/ Accept(w) \/ AcceptFails(w)
    BY <1>4, <2>1, TakesApart, AcceptsApart
  <2>2. CASE AddWait(w) \/ RecvStep(w) \/ SendStep(w)
    <3>1. Handling(w)
      <4>1. CASE AddWait(w)
        BY <4>1 DEF AddWait, At, Handling, Places, AcceptPcs
      <4>2. CASE RecvStep(w)
        BY <4>2, RecvHandles
      <4>3. CASE SendStep(w)
        BY <4>3, SendHandles
      <4> QED BY <2>2, <4>1, <4>2, <4>3
    <3>2. Serving(w, fdOf[w])
      BY <1>4, <3>1 DEF Serving
    <3> QED BY <2>2, <3>2, AddsApart, RecvIsApart, SendIsApart
  <2> QED BY <1>4, <2>1, <2>2 DEF WorkerSteps, HandlerStep
<1> QED BY <1>1, <1>2, <1>3, <1>4 DEF Next

LEMMA ApartInvInit == Init => ApartInv
<1> SUFFICES ASSUME Init PROVE ApartInv
  OBVIOUS
<1>1. HandlersApart /\ IdleHandleNone
  BY DEF Init, HandlersApart, IdleHandleNone
<1>2. FilesOpen
  BY DEF Init, FilesOpen, HasFile, Closes
<1>3. ASSUME NEW fd \in Fds PROVE Single(fd) /\ FitAt(fd, Place(fd))
  <2>1. Single(fd) /\ Pending(fd) = {}
    BY DEF Init, WQ!Init, Single, Pending, Queued
  <2>2. \A w \in Workers : fdOf[w] # fd
    BY ReactorAssumption DEF Init
  <2>3. Place(fd) = "none"
    BY <2>2, PlaceNone
  <2>4. /\ ~IsConn(fd) /\ interest[fd] = "off" /\ response[fd] = NoEntry
        /\ request[fd] = NewRequest
    BY DEF Init, SocketsInit, IsConn
  <2>5. NewRequest.status # "ERROR"
    BY DEF NewRequest
  <2> QED BY <2>1, <2>3, <2>4, <2>5
          DEF FitAt, Fit, TurnPcs, HeadPcs, SoundPcs, AnswerPcs
<1> QED BY <1>1, <1>2, <1>3 DEF ApartInv, AllFit

LEMMA ApartIsSafe == SafetyApart => Safety
<1>1. [Next /\ HandlersApart']_vars => [Next]_vars
  OBVIOUS
<1> QED BY <1>1, PTL DEF SafetyApart, Safety

LEMMA ApartInvAlways == SafetyApart => [](TypeInv /\ ApartInv)
<1>1. Init => ApartInv
  BY ApartInvInit
<1>2. SafetyApart => []TypeInv
  BY ApartIsSafe, TypeInvAlways, PTL
<1>3. TypeInv /\ ApartInv /\ [Next /\ HandlersApart']_vars => ApartInv'
  BY ApartInvStep
<1> QED BY <1>1, <1>2, <1>3, PTL DEF SafetyApart

-----------------------------------------------------------------------------
(* As long as no handler is overtaken, a file stays open while it is sent, *)
(* whatever the clients do and however many workers there are: only the    *)
(* handler that finished the answer closes it (myevent.cpp:429-455).       *)
THEOREM FilesAreOpen == SafetyApart => []FileStaysOpen
<1>1. TypeInv /\ ApartInv => FileStaysOpen
  <2> SUFFICES ASSUME TypeInv, ApartInv, NEW w \in Workers, SendingFile(w)
               PROVE  fdUse[Resp(w).file] = "file"
    BY DEF FileStaysOpen
  <2>1. Handling(w) /\ pc[w] = "send"
    BY DEF SendingFile, Handling, Places, SendPcs
  <2>2. fdOf[w] \in Fds
    BY <2>1, HandlerData
  <2>3. Resp(w) = response[fdOf[w]] /\ response[fdOf[w]] # NoEntry
    BY DEF SendingFile, SendsBody, Resp, Entry, NewResponse
  <2> QED BY <2>2, <2>3 DEF SendingFile, ApartInv, FilesOpen, HasFile
<1> QED BY <1>1, ApartInvAlways, PTL

(* Nor does the server close the connection of a client that stays: it     *)
(* closes one when recv or send said that the client left, and the number  *)
(* is no other client's by then (myevent.cpp:48-58, 244-250).              *)
THEOREM OnlyGoneClientsLeave == SafetyApart => OnlyGoneClientsAreClosed
<1>1. ASSUME TypeInv, ApartInv, [Next /\ HandlersApart']_vars,
             NEW fd \in Fds, IsConn(fd), ~IsConn(fd)'
      PROVE  conn[fd].peer # "up"
  <2>1. fdUse \in [Fds -> {"free", "conn", "file", "dir"}]
    BY <1>1, Parts DEF KernelOK
  <2>2. fdUse' # fdUse
    BY <1>1 DEF IsConn
  <2>3. PICK w \in Workers : WorkerSteps(w) /\ HandlersApart'
    BY <1>1, <2>2 DEF Next, MainListens, Listen, MainDispatches, Dispatch,
       ClientConnects, Connect, ClientSteps, ClientStep, Ask, ClientSends,
       ClientReads, ClientCloses, ClientResets, kernelVars, vars, socketVars
  <2>4. CASE Take(w) \/ Accept(w) \/ AcceptFails(w) \/ AddWait(w)
    BY <1>1, <2>1, <2>2, <2>4 DEF Take, Accept, AcceptFails, AddWait, socketVars, IsConn
  <2>5. CASE RecvStep(w)
    <3>1. CloseConn(w)
      BY <2>2, <2>5 DEF RecvStep, RecvData, RecvEnds, RecvBlocks, ParseLine,
         ParseHeader, ParseGet, ParsePut, ParsePost, ParseBoundary, ParseFileHead,
         OpenUpload, SaveContent, ParseMore, ArmIn, ArmOut, ArmPut, Arm, Complete,
         PutBody, Check, EraseRequest, parseVars, socketVars, kernelVars
    <3>2. Handling(w) /\ pc[w] = "close"
      BY <3>1 DEF CloseConn, At, Handling, Places, RecvPcs
    <3>3. Serving(w, fdOf[w])
      BY <1>1, <2>3, <3>2 DEF Serving
    <3>4. FitAt(fdOf[w], "close") /\ fdOf[w] \in Fds
      BY <3>2, <3>3, ServingIs
    <3>5. fdOf[w] = fd
      BY <1>1, <2>1, <3>1 DEF CloseConn, CloseFd, IsConn
    <3> QED BY <1>1, <3>4, <3>5 DEF FitAt, Fit
  <2>6. CASE SendStep(w)
    <3>1. ~(BuildPage(w) \/ BuildFile(w))
      BY <1>1, <2>1 DEF BuildPage, BuildFile, IsLowestFree, IsConn
    <3>2. CloseFile(w)
      BY <2>2, <2>6, <3>1 DEF SendStep, FindResponse, BuildPageDies, BuildRedirect,
         BuildFileFails, BuildDelete, BuildPut, BuildThrows, SendFails, SendKills,
         SendBlocks, SendHead, SendBody, SendEmpty, SendSpins, SendTail, Transmits,
         EraseResponse, RearmIn, Arm, Rearm, sendVars, socketVars, kernelVars
    <3>3. Handling(w) /\ pc[w] = "closeFile"
      BY <3>2 DEF CloseFile, At, Handling, Places, SendPcs
    <3>4. Serving(w, fdOf[w])
      BY <1>1, <2>3, <3>3 DEF Serving
    <3>5. response[fdOf[w]] = NoEntry
      BY <3>3, <3>4, ServingIs DEF FitAt, Fit
    <3>6. erased[w] \in Fds /\ CloseFd(erased[w])
      BY <2>2, <3>2, <3>5 DEF CloseFile, FileToClose, socketVars
    <3>7. fdUse[erased[w]] = "file"
      BY <1>1, <3>3, <3>6, ReactorAssumption DEF ApartInv, FilesOpen, Closes
    <3> QED BY <1>1, <2>1, <3>6, <3>7 DEF CloseFd, IsConn
  <2> QED BY <2>3, <2>4, <2>5, <2>6 DEF WorkerSteps, HandlerStep
<1>2. TypeInv /\ ApartInv /\ [Next /\ HandlersApart']_vars
        => [\A fd \in Fds : IsConn(fd) /\ ~IsConn(fd)' => conn[fd].peer # "up"]_vars
  BY <1>1
<1> QED BY <1>2, ApartInvAlways, PTL DEF SafetyApart, OnlyGoneClientsAreClosed

(* The process never ends by an exception, whatever the clients do, as     *)
(* long as no handler is overtaken: the entries without a name that line   *)
(* 454 makes are given one before HandleSend comes to them, on every       *)
(* connection of a number.  What ends it is a page without descriptors     *)
(* (474-495), or SIGPIPE on a connection its client reset (366, 409).      *)
EndsWithoutException ==
  [][alive /\ ~alive' =>
       \E w \in Workers : \/ Builds(w, "/") /\ ShortOfFds
                          \/ Sends(w) /\ Peer(w) = "broken"]_vars
THEOREM NoExceptionEndsServer == SafetyApart => EndsWithoutException
<1>1. ASSUME TypeInv, ApartInv, [Next /\ HandlersApart']_vars, alive, ~alive'
      PROVE  \E w \in Workers : \/ Builds(w, "/") /\ ShortOfFds
                                \/ Sends(w) /\ Peer(w) = "broken"
  <2>1. PICK w \in Workers : WorkerSteps(w) /\ HandlersApart'
    BY <1>1 DEF Next, MainListens, Listen, MainDispatches, Dispatch,
       ClientConnects, ClientSteps, programVars, vars
  <2>2. ~(Take(w) \/ Accept(w) \/ AcceptFails(w) \/ AddWait(w))
    BY <1>1 DEF Take, Accept, AcceptFails, AddWait
  <2>3. ~RecvStep(w)
    BY <1>1 DEF RecvStep, RecvData, RecvEnds, RecvBlocks, ParseLine,
       ParseHeader, ParseGet, ParsePut, ParsePost, ParseBoundary, ParseFileHead,
       OpenUpload, SaveContent, ParseMore, ArmIn, ArmOut, ArmPut, Arm, Complete,
       PutBody, Check, CloseConn, EraseRequest, parseVars, elseVars
  <2>4. BuildPageDies(w) \/ SendKills(w) \/ BuildThrows(w)
    BY <1>1, <2>1, <2>2, <2>3 DEF WorkerSteps, HandlerStep, SendStep, FindResponse,
       BuildPage, BuildRedirect, BuildFile, BuildFileFails, BuildDelete, BuildPut,
       SendFails, SendBlocks, SendHead, SendBody, SendEmpty, SendSpins, SendTail,
       Transmits, EraseResponse, RearmIn, Arm, CloseFile, Rearm, sendVars, elseVars
  <2>5. ~BuildThrows(w)
    <3>1. SUFFICES ASSUME BuildThrows(w) PROVE FALSE
      OBVIOUS
    <3>2. Handling(w) /\ pc[w] = "build" /\ Resp(w).name = ""
      BY <3>1 DEF BuildThrows, Builds, At, Handling, Places, SendPcs
    <3>3. Serving(w, fdOf[w])
      BY <1>1, <2>1, <3>2 DEF Serving
    <3>4. Named(response[fdOf[w]])
      BY <3>2, <3>3, ServingIs DEF FitAt, Fit, AnswerPcs
    <3> QED BY <3>2, <3>4 DEF Named, Resp, Entry
  <2> QED BY <2>4, <2>5 DEF BuildPageDies, SendKills
<1>2. TypeInv /\ ApartInv /\ [Next /\ HandlersApart']_vars
        => [alive /\ ~alive' =>
              \E w \in Workers : \/ Builds(w, "/") /\ ShortOfFds
                                 \/ Sends(w) /\ Peer(w) = "broken"]_vars
  BY <1>1
<1> QED BY <1>2, ApartInvAlways, PTL DEF SafetyApart, EndsWithoutException
=============================================================================
