------------------------- MODULE ReactorTurnProofs -------------------------
(***************************************************************************)
(* Why no connection is lost, and why HandleSend does not come to an entry *)
(* without a name: whoever has the turn on a first connection passes it    *)
(* on.  For any number of workers, descriptors, connections and requests,  *)
(* and for clients that do as they like.                                   *)
(***************************************************************************)
EXTENDS ReactorProofs

(* A file that cannot be opened for writing loses the connection of its    *)
(* upload (OpenUpload), as EventuallyAnswered says too.  A PUT whose file  *)
(* cannot be opened does not.                                              *)
UploadsOpen == "upload" \in Kinds => FALSE \notin WriteOpens

(* Without uploads nobody receives the boundary before a file, so no       *)
(* handler gets to the content of one.                                     *)
Plain == Seq(Units \ {"boundary"})
NothingUploaded ==
  /\ \A fd \in Fds : /\ conn[fd].inbuf \in Plain /\ conn[fd].toSend \in Plain
                     /\ request[fd].recvMsg \in Plain
                     /\ request[fd].part = "begin"
  /\ \A w \in Workers : pc[w] # "save"
UploadInv == "upload" \notin Kinds => NothingUploaded

(* The connection waits for EPOLLOUT, or a handler is about to wait for    *)
(* it, or to look for the response it came for.                            *)
AnswerPcs == {"armOut", "armPut", "find", "build", "send", "tail", "rearm"}
Answering(fd) == \/ interest[fd] = "inout"
                 \/ \E i \in Queued(fd) : queue[i].type = "find"
                 \/ \E w \in Heads(fd) : pc[w] \in AnswerPcs

(* A response that says what is to be built.                               *)
Named(r) == r # NoEntry /\ r.name # ""

(* Epoll knows the number, so a modifyWaitFd arms it, unless it is still   *)
(* to be added; whoever looks for a response finds one.  If uploads can be *)
(* opened somebody has the turn on fd as long as its client stays, and     *)
(* will pass it on: a handler gives up only when the client has left.      *)
Kept(fd) ==
  /\ interest[fd] = "off" <=> \E w \in Heads(fd) : pc[w] = "add"
  /\ Answering(fd) => Named(response[fd])
  /\ UploadsOpen =>
       /\ conn[fd].peer = "up" => Heads(fd) # {} \/ Queued(fd) # {} \/ Armed(fd)
       /\ \A w \in Heads(fd) : pc[w] = "ended" => conn[fd].peer # "up"
KeptInv == \A fd \in Fds : FirstUse(fd) => Kept(fd)
TurnKept == UploadInv /\ KeptInv

-----------------------------------------------------------------------------
(* Nothing is uploaded if no client uploads                                *)

LEMMA PlainUnits ==
  /\ Plain \subseteq Seq(Units) /\ <<>> \in Plain
  /\ \A s \in Plain : s # <<>> => /\ Head(s) \in Units \ {"boundary"}
                                  /\ Tail(s) \in Plain
  /\ \A s \in Plain, u \in Units \ {"boundary"} : Append(s, u) \in Plain
<1>1. <<>> \in Plain
  BY DEF Plain
<1>2. Plain \subseteq Seq(Units)
  BY DEF Plain
<1>3. ASSUME NEW s \in Plain, s # <<>>
      PROVE  Head(s) \in Units \ {"boundary"} /\ Tail(s) \in Plain
  BY <1>3 DEF Plain
<1>4. ASSUME NEW s \in Plain, NEW u \in Units \ {"boundary"}
      PROVE  Append(s, u) \in Plain
  BY DEF Plain
<1> QED BY <1>1, <1>2, <1>3, <1>4

LEMMA PlainParts ==
  ASSUME NEW s \in Plain, NEW t \in Plain, NEW n \in 1..Len(s)
  PROVE  /\ t \o SubSeq(s, 1, n) \in Plain
         /\ SubSeq(s, n + 1, Len(s)) \in Plain
<1>1. SubSeq(s, 1, n) \in Plain /\ SubSeq(s, n + 1, Len(s)) \in Plain
  BY SubSeqProperties DEF Plain
<1> QED BY <1>1, ConcatProperties DEF Plain

LEMMA PlainRequest ==
  ASSUME "upload" \notin Kinds, NEW k \in Kinds PROVE RequestUnits(k) \in Plain
<1>1. /\ {k, "multipart", "blank", "content"} \subseteq Units
      /\ k # "boundary" /\ k # "upload"
  BY SocketsAssumption DEF Units, AllKinds
<1> DEFINE S == Units \ {"boundary"}
<1>2. {k, "multipart", "blank", "content"} \subseteq S
  BY <1>1
<1> HIDE DEF S
<1>3. <<k, "multipart", "blank", "content">> \in Seq(S)
      /\ <<k, "blank", "content">> \in Seq(S) /\ <<k, "blank">> \in Seq(S)
  BY <1>2
<1>4. RequestUnits(k) \in Seq(S)
  BY <1>1, <1>3 DEF RequestUnits
<1> QED BY <1>4 DEF Plain, S

LEMMA RecvUploadsNothing ==
  ASSUME TypeInv, NothingUploaded, NEW w \in Workers, RecvStep(w)
  PROVE  NothingUploaded'
<1> DEFINE c == conn[fdOf[w]]
           r == Req(w)
           PlainConn == \A fd \in Fds : /\ conn'[fd].inbuf \in Plain
                                        /\ conn'[fd].toSend \in Plain
           PlainReq == \A fd \in Fds : /\ request'[fd].recvMsg \in Plain
                                       /\ request'[fd].part = "begin"
           NoSave == \A v \in Workers : pc'[v] # "save"
<1>a. fdOf[w] \in Fds /\ r \in Request /\ c \in Connection
  BY RecvHandles, HandlerData, Parts DEF ConnOK
<1>b. /\ c.inbuf \in Plain /\ c.toSend \in Plain
      /\ r.recvMsg \in Plain /\ r.part = "begin" /\ pc[w] # "save"
  BY <1>a DEF NothingUploaded, Req
<1>c. ASSUME NEW place \in Places \ {"save"}, Goto(w, place) PROVE NoSave
  BY <1>c, Parts DEF Goto, NothingUploaded, PoolOK
<1>d. ASSUME Return(w) PROVE NoSave
  BY <1>d, Parts DEF Return, NothingUploaded, PoolOK
<1>e. UNCHANGED conn => PlainConn
  BY DEF NothingUploaded
<1>f. UNCHANGED request => PlainReq
  BY DEF NothingUploaded
<1>g. ASSUME NEW q, SetRequest(w, q), q.recvMsg \in Plain, q.part = "begin"
      PROVE  PlainReq
  BY <1>a, <1>g, Parts DEF SetRequest, NothingUploaded, MapsOK
<1>h. PlainConn /\ PlainReq /\ NoSave => NothingUploaded'
  BY DEF NothingUploaded
<1>i. ASSUME ~Starved(w)
      PROVE  /\ Consumed(w) \in Request /\ Consumed(w).recvMsg \in Plain
             /\ Consumed(w).part = "begin" /\ NextUnit(w) # "boundary"
  <2>1. r.recvMsg # <<>>
    BY <1>i DEF Starved
  <2>2. Tail(r.recvMsg) \in Plain /\ Head(r.recvMsg) # "boundary"
    BY <1>b, <2>1, PlainUnits
  <2>3. [r EXCEPT !.recvMsg = Tail(r.recvMsg)] \in Request
    BY <1>a, <2>2, PlainUnits, RequestFields
  <2>4. Consumed(w) = [r EXCEPT !.recvMsg = Tail(r.recvMsg)]
    BY DEF Consumed
  <2> QED BY <1>a, <1>b, <2>2, <2>3, <2>4 DEF NextUnit, Request
<1>j. {"recv", "parse", "armIn", "armOut", "armPut", "complete", "putBody", "ended",
       "check", "close", "eraseRequest"} \subseteq Places \ {"save"}
  BY DEF Places, RecvPcs
<1> HIDE DEF c, r, PlainConn, PlainReq, NoSave
<1>1. CASE RecvData(w)
  <2>1. PICK n \in 1..Len(c.inbuf) :
          /\ SetRequest(w, [r EXCEPT !.recvMsg = @ \o SubSeq(c.inbuf, 1, n)])
          /\ conn' = [conn EXCEPT ![fdOf[w]].inbuf = SubSeq(c.inbuf, n + 1, Len(c.inbuf))]
    BY <1>1 DEF RecvData, r, c
  <2> DEFINE taken == r.recvMsg \o SubSeq(c.inbuf, 1, n)
             rest == SubSeq(c.inbuf, n + 1, Len(c.inbuf))
             q == [r EXCEPT !.recvMsg = r.recvMsg \o SubSeq(c.inbuf, 1, n)]
  <2>2. taken \in Plain /\ rest \in Plain
    BY <1>b, PlainParts
  <2>3. q.recvMsg = taken /\ q.part = "begin"
    BY <1>a, <1>b DEF Request
  <2>4. SetRequest(w, q)
    BY <2>1
  <2>5. PlainReq
    <3> HIDE DEF q, taken
    <3> QED BY <1>g, <2>2, <2>3, <2>4
  <2>6. PlainConn
    <3>1. conn' = [conn EXCEPT ![fdOf[w]].inbuf = rest]
      BY <2>1
    <3> HIDE DEF rest
    <3> QED BY <1>a, <2>2, <3>1, Parts
            DEF PlainConn, NothingUploaded, ConnOK, Connection, c
  <2> QED BY <1>1, <1>c, <1>h, <1>j, <2>5, <2>6 DEF RecvData
<1>2. CASE RecvEnds(w)
  <2>1. PlainConn
    BY <1>2, <1>a, Parts
       DEF RecvEnds, PlainConn, NothingUploaded, ConnOK, Connection, c
  <2>2. PlainReq
    BY <1>2, <1>a, <1>b, <1>g DEF RecvEnds, SetStatus, Request, r
  <2> QED BY <1>2, <1>c, <1>h, <1>j, <2>1, <2>2 DEF RecvEnds
<1>3. CASE RecvBlocks(w) \/ ParseMore(w) \/ Check(w)
  BY <1>3, <1>c, <1>d, <1>e, <1>f, <1>h, <1>j
     DEF RecvBlocks, ParseMore, Check, parseVars, socketVars
<1>4. CASE ParseLine(w) \/ ParseHeader(w)
  <2>1. PlainReq
    <3>1. CASE ParseLine(w)
      <4> DEFINE q == [Consumed(w) EXCEPT !.status = "HEAD",
                  !.req = IF NextUnit(w) \in Kinds THEN NextUnit(w) ELSE "junk"]
      <4>1. q.recvMsg \in Plain /\ q.part = "begin"
        BY <1>i, <3>1 DEF ParseLine, Request
      <4> QED BY <1>g, <3>1, <4>1 DEF ParseLine
    <3>2. CASE ParseHeader(w)
      <4> DEFINE p == [Consumed(w) EXCEPT !.status = "BODY",
                                  !.part = IF Req(w).multi THEN "begin" ELSE @]
                 q == [Consumed(w) EXCEPT
                         !.multi = @ \/ NextUnit(w) = "multipart"]
      <4>1. /\ p.recvMsg \in Plain /\ p.part = "begin"
            /\ q.recvMsg \in Plain /\ q.part = "begin"
        BY <1>i, <3>2 DEF ParseHeader, Request
      <4>2. SetRequest(w, p) \/ SetRequest(w, q)
        BY <3>2 DEF ParseHeader
      <4> HIDE DEF p, q
      <4> QED BY <1>g, <4>1, <4>2
    <3> QED BY <1>4, <3>1, <3>2
  <2> QED BY <1>4, <1>c, <1>e, <1>h, <1>j, <2>1
          DEF ParseLine, ParseHeader, parseVars, socketVars
<1>5. CASE ParseGet(w) \/ ParsePut(w) \/ ParsePost(w)
  BY <1>5, <1>c, <1>e, <1>f, <1>h, <1>j
     DEF ParseGet, ParsePut, ParsePost, Respond, SetResponse, socketVars
<1>6. ~(ParseBoundary(w) \/ ParseFileHead(w) \/ OpenUpload(w) \/ SaveContent(w))
  BY <1>b, <1>i DEF ParseBoundary, ParseFileHead, OpenUpload, SaveContent, Uploads,
     At, r
<1>7. CASE ArmIn(w) \/ ArmOut(w) \/ ArmPut(w)
  BY <1>7, <1>c, <1>e, <1>f, <1>h, <1>j DEF ArmIn, ArmOut, ArmPut, Arm
<1>8. CASE Complete(w) \/ PutBody(w)
  <2>1. PlainReq
    BY <1>8, <1>a, <1>b, <1>g DEF Complete, PutBody, SetStatus, Request, r
  <2> QED BY <1>8, <1>c, <1>e, <1>h, <1>j, <2>1
          DEF Complete, PutBody, parseVars, socketVars
<1>9. CASE CloseConn(w)
  <2>1. PlainConn
    BY <1>9, <1>a, PlainUnits, Parts
       DEF CloseConn, CloseFd, PlainConn, NothingUploaded, ConnOK, NewConn
  <2> QED BY <1>9, <1>c, <1>f, <1>h, <1>j, <2>1 DEF CloseConn
<1>10. CASE EraseRequest(w)
  BY <1>10, <1>d, <1>e, <1>g, <1>h, PlainUnits
     DEF EraseRequest, NewRequest, parseVars, socketVars
<1> QED BY <1>1, <1>2, <1>3, <1>4, <1>5, <1>6, <1>7, <1>8, <1>9, <1>10 DEF RecvStep

LEMMA SendUploadsNothing ==
  ASSUME TypeInv, NothingUploaded, NEW w \in Workers, SendStep(w)
  PROVE  NothingUploaded'
<1> DEFINE r == Req(w)
           PlainConn == \A fd \in Fds : /\ conn'[fd].inbuf \in Plain
                                        /\ conn'[fd].toSend \in Plain
           PlainReq == \A fd \in Fds : /\ request'[fd].recvMsg \in Plain
                                       /\ request'[fd].part = "begin"
           NoSave == \A v \in Workers : pc'[v] # "save"
<1>a. fdOf[w] \in Fds /\ r \in Request
  BY SendHandles, HandlerData
<1>b. r.recvMsg \in Plain /\ r.part = "begin"
  BY <1>a DEF NothingUploaded, Req
<1>c. ASSUME NEW place \in Places \ {"save"}, Goto(w, place) PROVE NoSave
  BY <1>c, Parts DEF Goto, NothingUploaded, PoolOK
<1>d. (Return(w) => NoSave) /\ (UNCHANGED poolVars /\ UNCHANGED pc => NoSave)
  BY Parts DEF Return, NothingUploaded, PoolOK
<1>e. UNCHANGED conn => PlainConn
  BY DEF NothingUploaded
<1>f. UNCHANGED request => PlainReq
  BY DEF NothingUploaded
<1>h. PlainConn /\ PlainReq /\ NoSave => NothingUploaded'
  BY DEF NothingUploaded
<1>i. ASSUME NEW u, Transmits(w, u) PROVE PlainConn /\ PlainReq
  <2>1. PlainConn
    BY <1>a, <1>i, Parts
       DEF Transmits, NothingUploaded, ConnOK, Connection
  <2> QED BY <1>f, <1>i, <2>1 DEF Transmits
<1>j. SendPcs \subseteq Places \ {"save"}
  BY DEF Places, SendPcs
<1> HIDE DEF r, PlainConn, PlainReq, NoSave
<1>1. CASE FindResponse(w) \/ SendBlocks(w) \/ SendTail(w) \/ SendEmpty(w)
           \/ SendSpins(w)
  <2>1. NoSave
    BY <1>1, <1>c, <1>d, <1>j DEF FindResponse, SendBlocks, SendTail, SendEmpty,
       SendSpins, SetResponse, SendPcs
  <2>2. UNCHANGED <<conn, request>>
    BY <1>1 DEF FindResponse, SendBlocks, SendTail, SendEmpty, SendSpins, sendVars,
       socketVars
  <2> QED BY <1>e, <1>f, <1>h, <2>1, <2>2
<1>2. CASE BuildPage(w) \/ BuildRedirect(w) \/ BuildFile(w) \/ BuildFileFails(w)
           \/ BuildDelete(w) \/ BuildPut(w)
  <2>1. NoSave
    BY <1>2, <1>c, <1>j DEF BuildPage, BuildRedirect, BuildFile, BuildFileFails,
       BuildDelete, BuildPut, Built, Replaced, SetResponse, SendPcs
  <2>2. UNCHANGED <<conn, request>>
    BY <1>2 DEF BuildPage, BuildRedirect, BuildFile, BuildFileFails, BuildDelete,
       BuildPut, sendVars, socketVars
  <2> QED BY <1>e, <1>f, <1>h, <2>1, <2>2
<1>3. CASE BuildPageDies(w) \/ BuildThrows(w) \/ SendKills(w)
  BY <1>3, <1>d, <1>e, <1>f, <1>h
     DEF BuildPageDies, BuildThrows, SendKills, socketVars
<1>4. CASE SendHead(w) \/ SendBody(w)
  <2>1. NoSave
    BY <1>4, <1>c, <1>j DEF SendHead, SendBody, SetResponse, SendPcs
  <2>2. \E u : Transmits(w, u)
    BY <1>4 DEF SendHead, SendBody
  <2> QED BY <1>h, <1>i, <2>1, <2>2
<1>5. CASE SendFails(w)
  <2>1. PlainConn
    BY <1>5, <1>a, Parts
       DEF SendFails, PlainConn, NothingUploaded, ConnOK, Connection
  <2>2. PlainReq
    BY <1>5, <1>a, <1>b, Parts DEF SendFails, SetStatus, SetRequest, PlainReq,
       NothingUploaded, MapsOK, Request, r
  <2>3. NoSave
    BY <1>5, <1>c, <1>j DEF SendFails, SendPcs
  <2> QED BY <1>h, <2>1, <2>2, <2>3
<1>6. CASE EraseResponse(w) \/ RearmIn(w) \/ Rearm(w)
  <2>1. NoSave
    BY <1>6, <1>c, <1>d, <1>j DEF EraseResponse, RearmIn, Arm, Rearm, SendPcs
  <2>2. UNCHANGED <<conn, request>>
    BY <1>6 DEF EraseResponse, RearmIn, Arm, Rearm, socketVars
  <2> QED BY <1>e, <1>f, <1>h, <2>1, <2>2
<1>7. CASE CloseFile(w)
  <2>1. PlainConn
    <3>1. ASSUME NEW f \in Fds, CloseFd(f) PROVE PlainConn
      BY <3>1, PlainUnits, Parts
         DEF CloseFd, PlainConn, NothingUploaded, ConnOK, NewConn
    <3>2. UNCHANGED socketVars => PlainConn
      BY <1>e DEF socketVars
    <3> QED BY <1>7, <3>1, <3>2 DEF CloseFile
  <2> QED BY <1>7, <1>d, <1>f, <1>h, <2>1 DEF CloseFile
<1> QED BY <1>1, <1>2, <1>3, <1>4, <1>5, <1>6, <1>7 DEF SendStep

LEMMA ClientUploadsNothing ==
  ASSUME TypeInv, "upload" \notin Kinds, NothingUploaded,
         NEW fd \in Fds, ClientSteps(fd)
  PROVE  NothingUploaded'
<1> DEFINE c == conn[fd]
<1>a. c \in Connection /\ c.inbuf \in Plain /\ c.toSend \in Plain
  BY Parts DEF ConnOK, NothingUploaded
<1>b. UNCHANGED <<request, pc>>
  BY DEF ClientSteps, programVars
<1>c. \A d \in Fds \ {fd} : conn'[d] = conn[d]
  BY Parts DEF ClientSteps, ClientStep, Ask, ClientSends, ClientReads, ClientCloses,
     ClientResets, ConnOK
<1>1. conn'[fd].inbuf \in Plain /\ conn'[fd].toSend \in Plain
  <2>1. ASSUME NEW k \in Kinds, Ask(fd, k)
        PROVE  conn'[fd].inbuf \in Plain /\ conn'[fd].toSend \in Plain
    BY <1>a, <2>1, PlainRequest, Parts DEF Ask, ConnOK, Connection
  <2>2. ASSUME ClientSends(fd)
        PROVE  conn'[fd].inbuf \in Plain /\ conn'[fd].toSend \in Plain
    <3>1. /\ Append(c.inbuf, Head(c.toSend)) \in Plain
          /\ Tail(c.toSend) \in Plain
      BY <1>a, <2>2, PlainUnits DEF ClientSends
    <3> QED BY <1>a, <2>2, <3>1, Parts DEF ClientSends, ConnOK, Connection
  <2>3. ClientReads(fd) \/ ClientCloses(fd) \/ ClientResets(fd)
        => conn'[fd].inbuf = c.inbuf /\ conn'[fd].toSend = c.toSend
    BY <1>a, Parts
       DEF ClientReads, ClientCloses, ClientResets, ConnOK, Connection
  <2> QED BY <1>a, <2>1, <2>2, <2>3 DEF ClientSteps, ClientStep
<1> QED BY <1>b, <1>c, <1>1 DEF NothingUploaded

LEMMA UploadInvStep == TypeInv /\ UploadInv /\ [Next]_vars => UploadInv'
<1> SUFFICES ASSUME TypeInv, "upload" \notin Kinds, NothingUploaded, [Next]_vars
             PROVE  NothingUploaded'
  BY DEF UploadInv
<1>1. CASE MainListens \/ (\E fd \in Fds : MainDispatches(fd)) \/ ClientConnects
           \/ UNCHANGED vars
  BY <1>1 DEF MainListens, Listen, MainDispatches, Dispatch, ClientConnects, Connect,
     programVars, vars, socketVars, NothingUploaded
<1>2. ASSUME NEW fd \in Fds, ClientSteps(fd) PROVE NothingUploaded'
  BY <1>2, ClientUploadsNothing
<1>3. ASSUME NEW w \in Workers, WorkerSteps(w) PROVE NothingUploaded'
  <2>1. CASE Take(w)
    <3>1. Head(queue).type # "save"
      <4>1. Head(queue) \in Events
        BY <2>1, Parts DEF Take, WQ!Take, PoolOK
      <4> QED BY <4>1 DEF Events, AcceptEvent
    <3> QED BY <2>1, <3>1, Parts DEF Take, socketVars, NothingUploaded, PoolOK
  <2>2. CASE Accept(w) \/ AcceptFails(w) \/ AddWait(w)
    BY <2>2, Parts DEF Accept, AcceptFails, AddWait, Return, socketVars,
       NothingUploaded, PoolOK
  <2> QED BY <1>3, <2>1, <2>2, RecvUploadsNothing, SendUploadsNothing
          DEF WorkerSteps, HandlerStep
<1> QED BY <1>1, <1>2, <1>3 DEF Next

-----------------------------------------------------------------------------
(* The turn is kept, or passed on                                          *)

LEMMA KeptOf == ASSUME KeptInv, NEW fd \in Fds, FirstUse(fd) PROVE Kept(fd)
BY DEF KeptInv

(* Who has a place before its modifyWaitFd has the turn alone.             *)
LEMMA HeadIsAlone ==
  ASSUME TypeInv, TurnInv, KeptInv, NEW w \in Workers, pc[w] \in HeadPcs,
         FirstUse(fdOf[w])
  PROVE  /\ fdOf[w] \in Fds /\ Heads(fdOf[w]) = {w} /\ Queued(fdOf[w]) = {}
         /\ ~Armed(fdOf[w]) /\ Kept(fdOf[w])
         /\ interest[fdOf[w]] = "off" <=> pc[w] = "add"
<1>1. fdOf[w] \in Fds
  BY Parts DEF PoolOK, HandlerHasFd, HeadPcs
<1>2. AtMostOneTurn(fdOf[w]) /\ Kept(fdOf[w])
  BY <1>1, TurnOf, KeptOf
<1>3. w \in Heads(fdOf[w])
  BY DEF Heads
<1>4. Heads(fdOf[w]) = {w} /\ Queued(fdOf[w]) = {} /\ ~Armed(fdOf[w])
  BY <1>2, <1>3 DEF AtMostOneTurn
<1> QED BY <1>1, <1>2, <1>4 DEF Kept

(* A step of nobody who has a turn: of the main thread, of a client, of a  *)
(* handler past its modifyWaitFd.                                          *)
Aside ==
  /\ gen' = gen
  /\ \A fd \in Fds : IsConn(fd)' =>
       /\ IsConn(fd) /\ interest'[fd] = interest[fd]
       /\ conn'[fd].peer = "up" => conn[fd].peer = "up"
       /\ response[fd] # NoEntry => response'[fd] = response[fd]
       /\ Queued(fd)' = Queued(fd)
       /\ \A i \in Queued(fd) : queue'[i] = queue[i]
  /\ \A w \in Workers : pc[w] \in HeadPcs \/ pc'[w] \in HeadPcs =>
                          pc'[w] = pc[w] /\ fdOf'[w] = fdOf[w]

LEMMA AsideKeepsTurns == ASSUME KeptInv, Aside PROVE KeptInv'
<1> SUFFICES ASSUME NEW fd \in Fds, FirstUse(fd)' PROVE Kept(fd)'
  BY DEF KeptInv
<1>1. IsConn(fd)'
  BY DEF FirstUse
<1>2. Kept(fd)
  BY <1>1, KeptOf DEF Aside, FirstUse
<1>3. Heads(fd)' = Heads(fd) /\ \A w \in Heads(fd) : pc'[w] = pc[w]
  BY DEF Aside, Heads
<1>4. Queued(fd)' = Queued(fd) /\ \A i \in Queued(fd) : queue'[i] = queue[i]
  BY <1>1 DEF Aside
<1>5. interest'[fd] = interest[fd] /\ (Armed(fd)' <=> Armed(fd))
  BY <1>1 DEF Aside, Armed
<1>6. Answering(fd)' => Answering(fd)
  BY <1>3, <1>4, <1>5 DEF Answering
<1>7. /\ conn'[fd].peer = "up" => conn[fd].peer = "up"
      /\ Named(response[fd]) => Named(response'[fd])
  BY <1>1 DEF Aside, Named
<1> QED BY <1>2, <1>3, <1>4, <1>5, <1>6, <1>7 DEF Kept

(* A step of a handler that has the turn and keeps it.                     *)
Works(w) ==
  /\ pc[w] \in HeadPcs \ {"add"} /\ pc'[w] \in HeadPcs \ {"add"}
  /\ \A v \in Workers \ {w} : pc'[v] = pc[v]
  /\ UNCHANGED <<gen, interest, queue, fdOf>>
  /\ \A fd \in Fds : /\ IsConn(fd)' => IsConn(fd)
                     /\ conn'[fd].peer = "up" => conn[fd].peer = "up"
  /\ \A fd \in Fds \ {fdOf[w]} : response'[fd] = response[fd]
  /\ pc'[w] \in AnswerPcs =>
       \/ Named(response'[fdOf[w]])
       \/ /\ pc[w] \in AnswerPcs
          /\ Named(response[fdOf[w]]) => Named(response'[fdOf[w]])
  /\ pc'[w] = "ended" /\ IsConn(fdOf[w])' /\ UploadsOpen =>
       conn'[fdOf[w]].peer # "up"

LEMMA WorksKeepsTurns ==
  ASSUME TypeInv, TurnInv, KeptInv, NEW w \in Workers, Works(w) PROVE KeptInv'
<1> SUFFICES ASSUME NEW fd \in Fds, FirstUse(fd)' PROVE Kept(fd)'
  BY DEF KeptInv
<1>1. FirstUse(fd) /\ Kept(fd)
  BY KeptOf DEF Works, FirstUse
<1>2. Heads(fd)' = Heads(fd) /\ Queued(fd)' = Queued(fd) /\ interest'[fd] = interest[fd]
      /\ (Armed(fd)' <=> Armed(fd))
  BY DEF Works, Heads, Queued, Armed
<1>3. CASE fdOf[w] = fd
  <2>1. Heads(fd) = {w} /\ Queued(fd) = {} /\ ~Armed(fd) /\ interest[fd] # "off"
    BY <1>1, <1>3, HeadIsAlone DEF Works
  <2>2. interest'[fd] # "inout"
    BY <1>2, <2>1 DEF Armed
  <2>3. Answering(fd)' => Named(response'[fd])
    <3> SUFFICES ASSUME Answering(fd)' PROVE Named(response'[fd])
      OBVIOUS
    <3>1. pc'[w] \in AnswerPcs
      BY <1>2, <2>1, <2>2 DEF Answering
    <3>2. pc[w] \in AnswerPcs => Named(response[fd])
      BY <1>1, <2>1 DEF Kept, Answering
    <3> QED BY <1>3, <3>1, <3>2 DEF Works
  <2> QED BY <1>2, <1>3, <2>1, <2>3 DEF Kept, Works, FirstUse
<1>4. CASE fdOf[w] # fd
  <2>1. \A v \in Heads(fd) : pc'[v] = pc[v]
    BY <1>4 DEF Works, Heads
  <2>2. Answering(fd)' => Answering(fd)
    BY <1>2, <2>1 DEF Answering, Works
  <2> QED BY <1>1, <1>2, <1>4, <2>1, <2>2 DEF Kept, Works
<1> QED BY <1>3, <1>4

(* modifyWaitFd, or addWaitFd: epoll has the turn, and if it will wait for *)
(* EPOLLOUT there is a response.                                           *)
Arms(w, mask) ==
  /\ pc[w] \in HeadPcs /\ pc'[w] \notin HeadPcs
  /\ \A v \in Workers \ {w} : pc'[v] = pc[v] /\ fdOf'[v] = fdOf[v]
  /\ UNCHANGED <<fdUse, gen, queue, conn, response>>
  /\ \A fd \in Fds \ {fdOf[w]} : interest'[fd] = interest[fd]
  /\ IsConn(fdOf[w]) /\ (pc[w] = "add" <=> interest[fdOf[w]] = "off")
     => interest'[fdOf[w]] = mask
  /\ \/ mask = "in"
     \/ mask = "inout" /\ pc[w] \in AnswerPcs

LEMMA ArmsKeepsTurns ==
  ASSUME TypeInv, TurnInv, KeptInv, NEW w \in Workers, NEW mask, Arms(w, mask)
  PROVE  KeptInv'
<1> SUFFICES ASSUME NEW fd \in Fds, FirstUse(fd)' PROVE Kept(fd)'
  BY DEF KeptInv
<1>1. FirstUse(fd) /\ Kept(fd)
  BY KeptOf DEF Arms, FirstUse, IsConn
<1>2. Queued(fd)' = Queued(fd) /\ Heads(fd)' = Heads(fd) \ {w}
  BY DEF Arms, Heads, Queued
<1>3. CASE fdOf[w] = fd
  <2>1. Heads(fd)' = {} /\ Queued(fd) = {} /\ Kept(fd)
    BY <1>1, <1>2, <1>3, HeadIsAlone DEF Arms
  <2>2. interest'[fd] = mask
    BY <1>1, <1>3, HeadIsAlone DEF Arms, FirstUse
  <2>3. mask = "inout" => Named(response'[fd])
    BY <1>1, <1>3 DEF Arms, Kept, Answering, Heads
  <2> QED BY <1>2, <2>1, <2>2, <2>3 DEF Arms, Kept, Answering, Armed
<1>4. CASE fdOf[w] # fd
  <2>1. Heads(fd)' = Heads(fd) /\ \A v \in Heads(fd) : pc'[v] = pc[v]
    BY <1>2, <1>4 DEF Arms, Heads
  <2>2. interest'[fd] = interest[fd] /\ (Armed(fd)' <=> Armed(fd))
    BY <1>4 DEF Arms, Armed
  <2>3. Answering(fd)' => Answering(fd)
    BY <1>2, <2>1, <2>2 DEF Answering, Arms
  <2> QED BY <1>1, <1>2, <2>1, <2>2, <2>3 DEF Kept, Arms
<1> QED BY <1>3, <1>4

(* A handler that ends without modifyWaitFd because its client has left.   *)
LEMMA EndedKeepsTurns ==
  ASSUME TypeInv, TurnInv, KeptInv, NEW w \in Workers,
         \/ pc[w] = "ended"
         \/ pc[w] = "find" /\ response[fdOf[w]] = NoEntry,
         pc'[w] \notin HeadPcs,
         \A v \in Workers \ {w} : pc'[v] = pc[v] /\ fdOf'[v] = fdOf[v],
         UNCHANGED <<socketVars, queue, response>>
  PROVE  KeptInv'
<1> SUFFICES ASSUME NEW fd \in Fds, FirstUse(fd)' PROVE Kept(fd)'
  BY DEF KeptInv
<1>1. FirstUse(fd) /\ Kept(fd)
  BY KeptOf DEF FirstUse, IsConn, socketVars
<1>2. Queued(fd)' = Queued(fd) /\ Heads(fd)' = Heads(fd) \ {w}
      /\ (Armed(fd)' <=> Armed(fd))
  BY DEF Heads, Queued, Armed, socketVars
<1>3. CASE fdOf[w] = fd
  <2>1. Heads(fd) = {w} /\ Queued(fd) = {} /\ ~Armed(fd)
        /\ (interest[fd] = "off" <=> pc[w] = "add")
    BY <1>1, <1>3, HeadIsAlone DEF HeadPcs
  <2>2. pc[w] = "ended" /\ (UploadsOpen => conn[fd].peer # "up")
    BY <1>1, <1>3, <2>1 DEF Kept, Answering, AnswerPcs, Named
  <2> QED BY <1>2, <2>1, <2>2 DEF Kept, Answering, Armed, socketVars
<1>4. CASE fdOf[w] # fd
  <2>1. Heads(fd)' = Heads(fd) /\ \A v \in Heads(fd) : pc'[v] = pc[v]
    BY <1>2, <1>4 DEF Heads
  <2>2. Answering(fd)' => Answering(fd)
    BY <1>2, <2>1 DEF Answering, socketVars
  <2> QED BY <1>1, <1>2, <2>1, <2>2 DEF Kept, socketVars
<1> QED BY <1>3, <1>4

-----------------------------------------------------------------------------
(* The steps                                                               *)

LEMMA MainPassesTurns ==
  ASSUME TypeInv, TurnInv, KeptInv, Listen \/ \E fd \in Fds : Dispatch(fd)
  PROVE  KeptInv'
<1>a. queue \in Seq(Events) /\ interest \in [Fds -> Interests]
  BY Parts DEF PoolOK, KernelOK
<1>1. CASE Listen
  <2>1. queue' = Append(queue, AcceptEvent)
    BY <1>1 DEF Listen, WQ!Submit
  <2>2. ASSUME NEW fd \in Fds
        PROVE  /\ Queued(fd)' = Queued(fd)
               /\ \A i \in Queued(fd) : queue'[i] = queue[i]
    BY <1>a, <2>1 DEF Queued
  <2>3. Aside
    BY <1>1, <2>2 DEF Aside, Listen, IsConn
  <2> QED BY <2>3, AsideKeepsTurns
<1>2. ASSUME NEW d \in Fds, Dispatch(d) PROVE KeptInv'
  <2> DEFINE e == [type |-> IF InReady(d) THEN "recv" ELSE "find", fd |-> d]
             n == Len(queue) + 1
  <2>1. e # AcceptEvent /\ e.fd = d /\ (e.type = "find" => ~InReady(d))
    <3>1. DOMAIN e = {"type", "fd"} /\ DOMAIN AcceptEvent = {"type"}
      BY DEF AcceptEvent
    <3> QED BY <3>1
  <2>2. queue' = Append(queue, e) /\ interest' = [interest EXCEPT ![d] = "disarmed"]
        /\ UNCHANGED <<fdUse, gen, conn, pc, fdOf, response>>
        /\ Armed(d) /\ (~InReady(d) => interest[d] = "inout")
    BY <1>2 DEF Dispatch, WQ!Submit, Reported, Armed
  <2> HIDE DEF e
  <2>3. ASSUME NEW fd \in Fds
        PROVE  /\ Queued(fd)' = IF fd = d THEN Queued(fd) \cup {n} ELSE Queued(fd)
               /\ \A i \in Queued(fd) : queue'[i] = queue[i]
               /\ n \notin Queued(fd) /\ queue'[n] = e
    BY <1>a, <2>1, <2>2 DEF Queued
  <2>4. SUFFICES ASSUME NEW fd \in Fds, FirstUse(fd)' PROVE Kept(fd)'
    BY DEF KeptInv
  <2>5. FirstUse(fd) /\ Kept(fd) /\ AtMostOneTurn(fd)
    BY <2>2, <2>4, KeptOf, TurnOf DEF FirstUse, IsConn
  <2>6. Heads(fd)' = Heads(fd)
    BY <2>2 DEF Heads
  <2>7. CASE fd = d
    <3>1. Heads(fd) = {} /\ Queued(fd) = {}
      BY <2>2, <2>5, <2>7 DEF AtMostOneTurn
    <3>2. Queued(fd)' = {n} /\ queue'[n] = e
      BY <2>3, <2>7, <3>1
    <3>3. interest'[fd] = "disarmed"
      BY <1>a, <2>2, <2>7
    <3>4. Answering(fd)' => Named(response'[fd])
      BY <2>1, <2>2, <2>5, <2>6, <2>7, <3>1, <3>2, <3>3 DEF Answering, Kept
    <3> QED BY <2>6, <3>1, <3>2, <3>3, <3>4 DEF Kept
  <2>8. CASE fd # d
    <3>1. interest'[fd] = interest[fd] /\ (Armed(fd)' <=> Armed(fd))
      BY <1>a, <2>2, <2>8 DEF Armed
    <3>2. Queued(fd)' = Queued(fd) /\ \A i \in Queued(fd) : queue'[i] = queue[i]
      BY <2>3, <2>8
    <3>3. Answering(fd)' => Answering(fd)
      BY <2>2, <2>6, <3>1, <3>2 DEF Answering
    <3> QED BY <2>2, <2>5, <2>6, <3>1, <3>2, <3>3 DEF Kept
  <2> QED BY <2>7, <2>8
<1> QED BY <1>1, <1>2

LEMMA TakePassesTurns ==
  ASSUME TypeInv, TurnInv, KeptInv, NEW w \in Workers, Take(w)
  PROVE  KeptInv'
<1> DEFINE h == Head(queue)
<1>a. /\ queue \in Seq(Events) /\ queue # <<>> /\ queue' = Tail(queue)
      /\ pc \in [Workers -> Places] /\ fdOf \in [Workers -> Fds \cup {NoFd}]
  BY Parts DEF PoolOK, Take, WQ!Take
<1>b. /\ pc[w] = "idle" /\ pc' = [pc EXCEPT ![w] = h.type]
      /\ fdOf' = IF h = AcceptEvent THEN fdOf ELSE [fdOf EXCEPT ![w] = h.fd]
      /\ UNCHANGED <<fdUse, gen, interest, conn, response>>
  BY DEF Take, At, socketVars
<1>c. /\ h = AcceptEvent => h.type = "accept"
      /\ h # AcceptEvent => h.type \in {"recv", "find"}
      /\ h = queue[1] /\ Len(queue) \in Nat \ {0}
  <2>1. h \in Events /\ h = queue[1] /\ Len(queue) \in Nat \ {0}
    BY <1>a
  <2> QED BY <2>1 DEF Events, AcceptEvent
<1>d. /\ Len(queue') = Len(queue) - 1
      /\ \A i \in 1..(Len(queue) - 1) : queue'[i] = queue[i + 1]
  BY <1>a
<1> HIDE DEF h
<1> SUFFICES ASSUME NEW fd \in Fds, FirstUse(fd)' PROVE Kept(fd)'
  BY DEF KeptInv
<1>1. FirstUse(fd) /\ Kept(fd) /\ AtMostOneTurn(fd)
  BY <1>b, KeptOf, TurnOf DEF FirstUse, IsConn
<1>2. ASSUME NEW i \in Queued(fd)'
      PROVE  i \in Nat \ {0} /\ i + 1 \in Queued(fd) /\ queue'[i] = queue[i + 1]
  BY <1>c, <1>d, <1>2 DEF Queued
<1>3. ASSUME NEW j \in Queued(fd), j # 1
      PROVE  j - 1 \in Queued(fd)'
  BY <1>c, <1>d, <1>3 DEF Queued
<1>4. Armed(fd)' <=> Armed(fd)
  BY <1>b DEF Armed
<1>5. CASE h # AcceptEvent /\ h.fd = fd
  <2>1. 1 \in Queued(fd)
    BY <1>c, <1>5 DEF Queued
  <2>2. Heads(fd) = {} /\ ~Armed(fd)
    BY <1>1, <2>1 DEF AtMostOneTurn
  <2>3. Queued(fd)' = {}
    <3> SUFFICES ASSUME NEW i \in Queued(fd)' PROVE FALSE
      OBVIOUS
    <3>1. i + 1 = 1
      BY <1>1, <1>2, <2>1 DEF AtMostOneTurn
    <3> QED BY <1>2, <3>1
  <2>4. Heads(fd)' = {w} /\ pc'[w] = h.type
    BY <1>a, <1>b, <1>c, <1>5, <2>2 DEF Heads, HeadPcs
  <2>5. pc'[w] = "find" => Named(response[fd])
    BY <1>1, <1>c, <2>1, <2>4 DEF Kept, Answering
  <2>6. interest[fd] \notin {"off", "in", "inout"}
    BY <1>1, <2>2 DEF Kept, Armed
  <2>7. Answering(fd)' => Named(response'[fd])
    BY <1>b, <1>c, <1>5, <2>3, <2>4, <2>5, <2>6 DEF Answering, AnswerPcs
  <2> QED BY <1>b, <1>c, <1>5, <2>3, <2>4, <2>6, <2>7 DEF Kept
<1>6. CASE ~(h # AcceptEvent /\ h.fd = fd)
  <2>1. Heads(fd)' = Heads(fd) /\ \A v \in Heads(fd) : pc'[v] = pc[v]
    BY <1>a, <1>b, <1>c, <1>6 DEF Heads, HeadPcs
  <2>2. 1 \notin Queued(fd)
    BY <1>c, <1>6 DEF Queued
  <2>3. Queued(fd) # {} => Queued(fd)' # {}
    BY <1>3, <2>2
  <2>4. Answering(fd)' => Answering(fd)
    BY <1>b, <1>2, <2>1 DEF Answering
  <2> QED BY <1>1, <1>4, <1>b, <2>1, <2>3, <2>4 DEF Kept
<1> QED BY <1>5, <1>6

LEMMA AcceptPassesTurns ==
  ASSUME TypeInv, TurnInv, KeptInv, NEW w \in Workers, Accept(w)
  PROVE  KeptInv'
<1>a. /\ pc \in [Workers -> Places] /\ fdOf \in [Workers -> Fds \cup {NoFd}]
      /\ gen \in [Fds -> Nat] /\ fdUse \in [Fds -> {"free", "conn", "file", "dir"}]
  BY Parts DEF PoolOK, KernelOK
<1>b. PICK d \in Fds : /\ fdUse' = [fdUse EXCEPT ![d] = "conn"]
                       /\ gen' = [gen EXCEPT ![d] = @ + 1]
                       /\ fdOf' = [fdOf EXCEPT ![w] = d]
  BY DEF Accept
<1>c. /\ pc[w] = "accept" /\ pc' = [pc EXCEPT ![w] = "add"]
      /\ UNCHANGED <<interest, queue, conn, response>>
  BY DEF Accept, At, poolVars
<1> SUFFICES ASSUME NEW fd \in Fds, FirstUse(fd)' PROVE Kept(fd)'
  BY DEF KeptInv
<1>1. Queued(fd)' = Queued(fd) /\ (Armed(fd)' <=> Armed(fd))
  BY <1>c DEF Queued, Armed
<1>2. CASE fd = d
  <2>1. gen[fd] = 0
    BY <1>a, <1>b, <1>2 DEF FirstUse
  <2>2. Unknown(fd)
    BY <2>1, TurnOf
  <2>3. Heads(fd)' = {w} /\ pc'[w] = "add" /\ Queued(fd) = {}
        /\ interest[fd] = "off"
    BY <1>a, <1>b, <1>c, <1>2, <2>2 DEF Heads, Unknown, HeadPcs
  <2> QED BY <1>1, <1>c, <2>3 DEF Kept, Answering, AnswerPcs
<1>3. CASE fd # d
  <2>1. FirstUse(fd)
    BY <1>a, <1>b, <1>3 DEF FirstUse, IsConn
  <2>2. Heads(fd)' = Heads(fd) /\ \A v \in Heads(fd) : pc'[v] = pc[v]
    BY <1>a, <1>b, <1>c, <1>3 DEF Heads, HeadPcs
  <2>3. Answering(fd)' => Answering(fd)
    BY <1>1, <1>c, <2>2 DEF Answering
  <2>4. Kept(fd)
    BY <2>1, KeptOf
  <2> QED BY <1>1, <1>c, <2>2, <2>3, <2>4 DEF Kept
<1> QED BY <1>2, <1>3

LEMMA ArmPassesTurns ==
  ASSUME TypeInv, TurnInv, KeptInv, NEW w \in Workers,
         AddWait(w) \/ ArmIn(w) \/ ArmOut(w) \/ ArmPut(w) \/ RearmIn(w) \/ Rearm(w)
  PROVE  KeptInv'
<1>a. /\ pc \in [Workers -> Places] /\ fdOf \in [Workers -> Fds \cup {NoFd}]
      /\ interest \in [Fds -> Interests]
  BY Parts DEF PoolOK, KernelOK
<1>b. fdOf[w] \in Fds
  BY Parts DEF PoolOK, HandlerHasFd, AddWait, ArmIn, ArmOut, ArmPut, RearmIn, Arm,
     Rearm, At
<1>1. CASE AddWait(w)
  <2>1. Arms(w, "in")
    BY <1>1, <1>a, <1>b DEF AddWait, At, Return, WQ!Finish, HeadPcs, Arms
  <2> QED BY <2>1, ArmsKeepsTurns
<1>2. ASSUME NEW from \in HeadPcs \ {"add"}, NEW mask, NEW to \in Places \ HeadPcs,
             Arm(w, from, mask, to) \/ (Rearm(w) /\ from = "rearm" /\ mask = "inout"),
             mask = "inout" => from \in AnswerPcs, mask \in {"in", "inout"}
      PROVE  KeptInv'
  <2>1. /\ pc[w] = from /\ Modify(fdOf[w], mask)
        /\ UNCHANGED <<fdUse, gen, conn, response>>
        /\ Goto(w, to) \/ Return(w)
    BY <1>2 DEF Arm, Rearm, At
  <2>2. /\ UNCHANGED queue /\ pc'[w] \notin HeadPcs
        /\ \A v \in Workers \ {w} : pc'[v] = pc[v] /\ fdOf'[v] = fdOf[v]
    BY <1>a, <2>1 DEF Goto, Return, poolVars, WQ!Finish, HeadPcs
  <2>3. /\ \A fd \in Fds : fd # fdOf[w] => interest'[fd] = interest[fd]
        /\ interest[fdOf[w]] # "off" => interest'[fdOf[w]] = mask
    BY <1>a, <1>b, <2>1 DEF Modify
  <2>4. Arms(w, mask)
    BY <1>2, <2>1, <2>2, <2>3 DEF Arms
  <2> QED BY <2>4, ArmsKeepsTurns
<1>3. CASE ArmIn(w) \/ RearmIn(w)
  <2>1. PICK from \in {"armIn", "rearmIn"}, to \in {"check", "closeFile"} :
          Arm(w, from, "in", to)
    BY <1>3 DEF ArmIn, RearmIn
  <2>2. from \in HeadPcs \ {"add"} /\ to \in Places \ HeadPcs
    BY DEF HeadPcs, Places, RecvPcs, SendPcs
  <2> QED BY <1>2, <2>1, <2>2
<1>4. CASE ArmOut(w) \/ ArmPut(w) \/ Rearm(w)
  <2>1. PICK from \in {"armOut", "armPut", "rearm"}, to \in {"complete", "putBody"} :
          Arm(w, from, "inout", to) \/ (Rearm(w) /\ from = "rearm")
    BY <1>4 DEF ArmOut, ArmPut
  <2>2. /\ from \in HeadPcs \ {"add"} /\ to \in Places \ HeadPcs
        /\ from \in AnswerPcs
    BY DEF HeadPcs, Places, RecvPcs, AnswerPcs
  <2> QED BY <1>2, <2>1, <2>2
<1> QED BY <1>1, <1>3, <1>4

LEMMA RecvPassesTurns ==
  ASSUME TypeInv, TurnInv, KeptInv, UploadInv,
         NEW w \in Workers, RecvStep(w)
  PROVE  KeptInv'
<1>a. /\ pc \in [Workers -> Places] /\ fdOf \in [Workers -> Fds \cup {NoFd}]
      /\ fdOf[w] \in Fds /\ conn \in [Fds -> Connection]
      /\ response \in [Fds -> Headed \cup {NoEntry}]
      /\ Entry(fdOf[w]) \in Headed
  BY RecvHandles, HandlerData, Parts DEF PoolOK, ConnOK, MapsOK
<1>b. ASSUME NEW place \in HeadPcs \ ({"add", "ended"} \cup AnswerPcs), Goto(w, place),
             pc[w] \in HeadPcs \ {"add"},
             UNCHANGED <<fdUse, gen, interest, response>>,
             \A fd \in Fds : conn'[fd].peer = "up" => conn[fd].peer = "up"
      PROVE  KeptInv'
  <2>1. Works(w)
    BY <1>a, <1>b DEF Works, Goto, poolVars, IsConn
  <2> QED BY <2>1, WorksKeepsTurns
<1>c. {"recv", "parse", "save", "armIn"} \subseteq
        HeadPcs \ ({"add", "ended"} \cup AnswerPcs)
  BY DEF HeadPcs, AnswerPcs
<1>1. CASE RecvData(w)
  <2>1. \A fd \in Fds : conn'[fd].peer = conn[fd].peer
    BY <1>1, <1>a DEF RecvData, Connection
  <2> QED BY <1>1, <1>b, <1>c, <2>1 DEF RecvData, At, kernelVars
<1>2. CASE RecvEnds(w)
  <2>1. \A fd \in Fds : conn'[fd].peer = "up" => conn[fd].peer = "up"
    BY <1>2, <1>a DEF RecvEnds, Connection
  <2>2. IsConn(fdOf[w])' => conn'[fdOf[w]].peer # "up"
    BY <1>2, <1>a DEF RecvEnds, Goto, Connection, IsConn, kernelVars
  <2>3. /\ pc[w] = "recv" /\ pc' = [pc EXCEPT ![w] = "ended"]
        /\ UNCHANGED <<fdUse, gen, interest, response, queue, fdOf>>
    BY <1>2 DEF RecvEnds, At, Goto, poolVars, kernelVars
  <2>4. Works(w)
    BY <1>a, <2>1, <2>2, <2>3 DEF Works, HeadPcs, AnswerPcs, IsConn
  <2> QED BY <2>4, WorksKeepsTurns
<1>3. CASE RecvBlocks(w) \/ ParseMore(w)
  <2>1. pc[w] \in {"recv", "parse", "save"}
    BY <1>3 DEF RecvBlocks, ParseMore, Parses, Uploads, At
  <2> QED BY <1>3, <1>b, <1>c, <2>1 DEF RecvBlocks, ParseMore, parseVars, socketVars
<1>4. CASE ParseLine(w) \/ ParseHeader(w) \/ ParseBoundary(w) \/ ParseFileHead(w)
           \/ SaveContent(w)
  <2>1. pc[w] \in {"recv", "parse", "save"}
    BY <1>4 DEF ParseLine, ParseHeader, ParseBoundary, ParseFileHead, SaveContent,
       Parses, Uploads, At
  <2>2. Goto(w, "parse") \/ Goto(w, "save")
    BY <1>4
       DEF ParseLine, ParseHeader, ParseBoundary, ParseFileHead, SaveContent
  <2>3. UNCHANGED <<fdUse, gen, interest, response, conn>>
    BY <1>4 DEF ParseLine, ParseHeader, ParseBoundary, ParseFileHead, SaveContent,
       parseVars, socketVars
  <2> QED BY <1>b, <1>c, <2>1, <2>2, <2>3
<1>5. CASE ParseGet(w) \/ ParsePut(w) \/ ParsePost(w)
  <2>1. pc[w] = "parse" /\ UNCHANGED <<fdUse, gen, interest, conn>>
    BY <1>5 DEF ParseGet, ParsePut, ParsePost, Parses, Uploads, At, socketVars
  <2>2. PICK n \in Names \ {""}, place \in {"armOut", "armPut"} :
          Respond(w, n, place)
    BY <1>5 DEF ParseGet, ParsePut, ParsePost, Resource, Names
  <2> DEFINE r == [Entry(fdOf[w]) EXCEPT !.name = n]
  <2>3. /\ response' = [response EXCEPT ![fdOf[w]] = r]
        /\ Goto(w, place)
    BY <2>2 DEF Respond, SetResponse
  <2>4. Named(r)
    <3>1. r \in Response /\ r.name # ""
      BY <1>a DEF Headed, Response
    <3> QED BY <3>1, NoEntryAssumption DEF Named
  <2> HIDE DEF r
  <2>5. Works(w)
    BY <1>a, <2>1, <2>3, <2>4
       DEF Works, Goto, poolVars, HeadPcs, AnswerPcs, IsConn
  <2> QED BY <2>5, WorksKeepsTurns
<1>6. CASE OpenUpload(w)
  <2>1. Req(w).part = "content"
    BY <1>6 DEF OpenUpload, Uploads
  <2>2. "upload" \in Kinds
    BY <1>a, <2>1 DEF UploadInv, NothingUploaded, Req
  <2>3. CASE Goto(w, "save")
    BY <1>6, <1>b, <1>c, <2>3 DEF OpenUpload, Uploads, Parses, At, socketVars
  <2>4. CASE ~Goto(w, "save")
    <3>1. ~UploadsOpen /\ Goto(w, "ended")
      <4>1. FALSE \in WriteOpens /\ Goto(w, "ended")
        BY <1>6, <2>4, ReactorAssumption DEF OpenUpload
      <4> QED BY <2>2, <4>1 DEF UploadsOpen
    <3>2. Works(w)
      BY <1>6, <1>a, <3>1 DEF OpenUpload, Uploads, Parses, At, socketVars, Works,
         Goto, poolVars, HeadPcs, AnswerPcs, IsConn
    <3> QED BY <3>2, WorksKeepsTurns
  <2> QED BY <2>3, <2>4
<1>7. CASE ArmIn(w) \/ ArmOut(w) \/ ArmPut(w)
  BY <1>7, ArmPassesTurns
<1>8. CASE Complete(w) \/ PutBody(w) \/ Check(w) \/ EraseRequest(w)
  <2>1. /\ UNCHANGED <<socketVars, response, queue>>
        /\ \A v \in Workers \ {w} : pc'[v] = pc[v] /\ fdOf'[v] = fdOf[v]
        /\ pc'[w] \in {"check", "eraseRequest", "close", "idle"}
    BY <1>8, <1>a DEF Complete, PutBody, Check, EraseRequest, parseVars, Goto, Return,
       poolVars, WQ!Finish
  <2>2. CASE pc[w] \in HeadPcs
    <3>1. pc[w] = "ended"
      BY <1>8, <2>2 DEF Complete, PutBody, Check, EraseRequest, At, HeadPcs
    <3> QED BY <2>1, <3>1, EndedKeepsTurns DEF HeadPcs
  <2>3. CASE pc[w] \notin HeadPcs
    <3>1. Aside
      BY <2>1, <2>3 DEF Aside, HeadPcs, socketVars, IsConn, Queued
    <3> QED BY <3>1, AsideKeepsTurns
  <2> QED BY <2>2, <2>3
<1>9. CASE CloseConn(w)
  <2>1. /\ pc[w] \notin HeadPcs /\ pc'[w] \notin HeadPcs /\ gen' = gen
        /\ \A v \in Workers \ {w} : pc'[v] = pc[v] /\ fdOf'[v] = fdOf[v]
        /\ UNCHANGED <<queue, response>>
    BY <1>9, <1>a DEF CloseConn, CloseFd, At, Goto, poolVars, HeadPcs
  <2>2. ASSUME NEW fd \in Fds, IsConn(fd)'
        PROVE  IsConn(fd) /\ interest'[fd] = interest[fd] /\ conn'[fd] = conn[fd]
    BY <1>9, <1>a, <2>2, Parts DEF CloseConn, CloseFd, IsConn, KernelOK
  <2>3. Aside
    BY <2>1, <2>2 DEF Aside, Queued
  <2> QED BY <2>3, AsideKeepsTurns
<1> QED BY <1>1, <1>2, <1>3, <1>4, <1>5, <1>6, <1>7, <1>8, <1>9 DEF RecvStep

LEMMA SendPassesTurns ==
  ASSUME TypeInv, TurnInv, KeptInv, NEW w \in Workers, SendStep(w)
  PROVE  KeptInv'
<1>a. /\ pc \in [Workers -> Places] /\ fdOf \in [Workers -> Fds \cup {NoFd}]
      /\ fdOf[w] \in Fds /\ conn \in [Fds -> Connection]
      /\ response \in [Fds -> Headed \cup {NoEntry}]
      /\ Entry(fdOf[w]) \in Headed
      /\ fdUse \in [Fds -> {"free", "conn", "file", "dir"}]
  BY SendHandles, HandlerData, Parts DEF PoolOK, ConnOK, MapsOK, KernelOK
<1>b. ASSUME NEW place \in HeadPcs \ {"add", "ended"}, Goto(w, place),
             pc[w] \in HeadPcs \ {"add"}, UNCHANGED <<gen, interest>>,
             \A fd \in Fds : /\ IsConn(fd)' => IsConn(fd)
                             /\ conn'[fd].peer = "up" => conn[fd].peer = "up",
             \A fd \in Fds \ {fdOf[w]} : response'[fd] = response[fd],
             place \in AnswerPcs =>
               \/ Named(response'[fdOf[w]])
               \/ pc[w] \in AnswerPcs
                  /\ (Named(response[fdOf[w]]) => Named(response'[fdOf[w]]))
      PROVE  KeptInv'
  <2>1. Works(w)
    BY <1>a, <1>b DEF Works, Goto, poolVars
  <2> QED BY <2>1, WorksKeepsTurns
<1>c. ASSUME NEW r \in Response, NEW place \in HeadPcs \ {"add", "ended"},
             SetResponse(w, r, place), pc[w] \in HeadPcs \ {"add"},
             r.name # "" \/ (pc[w] \in AnswerPcs /\ r.name = Resp(w).name),
             UNCHANGED <<gen, interest>>,
             \A fd \in Fds : /\ IsConn(fd)' => IsConn(fd)
                             /\ conn'[fd].peer = "up" => conn[fd].peer = "up"
      PROVE  KeptInv'
  <2>1. /\ Goto(w, place) /\ response'[fdOf[w]] = r
        /\ \A fd \in Fds \ {fdOf[w]} : response'[fd] = response[fd]
    BY <1>a, <1>c DEF SetResponse
  <2>2. \/ Named(r)
        \/ pc[w] \in AnswerPcs
           /\ (Named(response[fdOf[w]]) => Named(r))
    BY <1>c, NoEntryAssumption DEF Named, Resp, Entry
  <2> QED BY <1>b, <1>c, <2>1, <2>2
<1>d. {"find", "build", "send", "tail", "eraseResponse", "rearmIn", "rearm"}
        \subseteq HeadPcs \ {"add", "ended"}
  BY DEF HeadPcs
<1> DEFINE e == Resp(w)
<1>e. e \in Response /\ 0 \in 0..(HeadUnits + BodyUnits)
  BY <1>a, SocketsAssumption DEF Headed, Resp
<1>f. /\ \A n \in Names : [NewResponse EXCEPT !.name = n] \in Response
      /\ \A s \in Statuses : [e EXCEPT !.status = s, !.sent = 0] \in Response
      /\ \A h \in Answers :
           [e EXCEPT !.status = "HEAD", !.head = h, !.sent = 0] \in Response
      /\ \A h \in Answers, f \in Fds :
           [e EXCEPT !.status = "HEAD", !.head = h, !.file = f, !.sent = 0]
             \in Response
  <2>1. NewResponse \in Response
    BY NewResponseType DEF Headed
  <2> HIDE DEF e
  <2>2. "HEAD" \in Statuses
    BY DEF Statuses
  <2> QED BY <1>e, <2>1, <2>2 DEF Response
<1>g. e.sent + 1 < BodyUnits \/ e.sent + 1 < HeadUnits =>
        [e EXCEPT !.sent = @ + 1] \in Response
  <2> HIDE DEF e
  <2>1. e.sent \in 0..(HeadUnits + BodyUnits)
    BY <1>e DEF Response
  <2>2. e.sent + 1 < BodyUnits \/ e.sent + 1 < HeadUnits =>
          e.sent + 1 \in 0..(HeadUnits + BodyUnits)
    BY <2>1, SocketsAssumption
  <2> QED BY <1>e, <2>2 DEF Response
<1>h. /\ \A n \in Names : [NewResponse EXCEPT !.name = n].name = n
      /\ \A s \in Statuses : [e EXCEPT !.status = s, !.sent = 0].name = e.name
      /\ \A h \in Answers :
           [e EXCEPT !.status = "HEAD", !.head = h, !.sent = 0].name = e.name
      /\ \A h \in Answers, f \in Fds :
           [e EXCEPT !.status = "HEAD", !.head = h, !.file = f, !.sent = 0].name
             = e.name
      /\ [e EXCEPT !.sent = @ + 1].name = e.name
  <2> HIDE DEF e
  <2> QED BY <1>e DEF Response, NewResponse
<1> HIDE DEF e
<1>1. CASE FindResponse(w)
  <2>1. CASE response[fdOf[w]] = NoEntry
    <3>1. pc[w] = "find" /\ Return(w) /\ UNCHANGED <<socketVars, response>>
      BY <1>1, <2>1 DEF FindResponse, At, sendVars
    <3>2. /\ pc'[w] \notin HeadPcs /\ UNCHANGED queue
          /\ \A v \in Workers \ {w} : pc'[v] = pc[v] /\ fdOf'[v] = fdOf[v]
      BY <1>a, <3>1 DEF Return, WQ!Finish, HeadPcs
    <3> QED BY <2>1, <3>1, <3>2, EndedKeepsTurns
  <2>2. CASE response[fdOf[w]] # NoEntry
    <3>1. /\ pc[w] = "find" /\ UNCHANGED <<fdUse, gen, interest, conn, response>>
          /\ \E place \in {"build", "send"} : Goto(w, place)
      BY <1>1, <2>2 DEF FindResponse, At, sendVars, socketVars
    <3> QED BY <1>b, <1>d, <3>1 DEF IsConn, AnswerPcs
  <2> QED BY <2>1, <2>2
<1>2. CASE BuildRedirect(w) \/ BuildFileFails(w) \/ BuildDelete(w) \/ BuildPut(w)
  <2>1. pc[w] = "build" /\ UNCHANGED <<fdUse, gen, interest, conn>>
    BY <1>2 DEF BuildRedirect, BuildFileFails, BuildDelete, BuildPut, Builds, At,
       sendVars, socketVars
  <2>2. \/ \E h \in Answers : Built(w, h)
        \/ \E n \in Names \ {""} : Replaced(w, n)
    BY <1>2 DEF BuildRedirect, BuildFileFails, BuildDelete, BuildPut, Answers, Names
  <2>3. \E r \in Response, place \in {"send", "rearm"} :
          SetResponse(w, r, place) /\ r.name \in {Resp(w).name} \cup (Names \ {""})
    BY <1>f, <1>h, <2>2 DEF Built, Replaced, e
  <2> QED BY <1>c, <1>d, <2>1, <2>3 DEF IsConn, AnswerPcs
<1>3. CASE BuildPage(w) \/ BuildFile(w)
  <2>1. /\ pc[w] = "build" /\ UNCHANGED <<gen, interest, conn>>
        /\ \E f \in Fds, use \in {"file", "dir"} :
             fdUse' = [fdUse EXCEPT ![f] = use]
    BY <1>3 DEF BuildPage, BuildFile, Builds, At
  <2>2. \A fd \in Fds : IsConn(fd)' => IsConn(fd)
    BY <1>a, <2>1 DEF IsConn
  <2>3. \E r \in Response : SetResponse(w, r, "send") /\ r.name = Resp(w).name
    <3>1. "page" \in Answers /\ "file" \in Answers
      BY DEF Answers
    <3>2. CASE BuildPage(w)
      BY <1>f, <1>h, <3>1, <3>2 DEF BuildPage, Built, e
    <3>3. CASE BuildFile(w)
      <4> DEFINE r(f) == [e EXCEPT !.status = "HEAD", !.head = "file", !.file = f,
                                   !.sent = 0]
      <4>1. PICK f \in Fds : SetResponse(w, r(f), "send")
        BY <3>3 DEF BuildFile, e
      <4>2. r(f) \in Response /\ r(f).name = e.name
        BY <1>f, <1>h, <3>1
      <4> HIDE DEF r
      <4> QED BY <4>1, <4>2 DEF e
    <3> QED BY <1>3, <3>2, <3>3
  <2> QED BY <1>c, <1>d, <2>1, <2>2, <2>3 DEF AnswerPcs
<1>4. CASE BuildPageDies(w) \/ BuildThrows(w) \/ SendKills(w)
  <2>1. UNCHANGED <<fdUse, gen, interest, conn, queue, pc, fdOf, response>>
    BY <1>4 DEF BuildPageDies, BuildThrows, SendKills, socketVars, poolVars
  <2> QED BY <2>1, AsideKeepsTurns DEF Aside, IsConn, Queued
<1>5. CASE SendFails(w)
  <2>1. pc[w] = "send" /\ UNCHANGED <<fdUse, gen, interest, response>>
    BY <1>5 DEF SendFails, Sends, At, kernelVars
  <2>2. \A fd \in Fds : conn'[fd].peer = "up" => conn[fd].peer = "up"
    BY <1>5, <1>a DEF SendFails, Connection
  <2> QED BY <1>5, <1>b, <1>d, <2>1, <2>2 DEF SendFails, IsConn, AnswerPcs
<1>6. CASE SendBlocks(w)
  <2>1. /\ pc[w] = "send" /\ UNCHANGED <<fdUse, gen, interest, conn, response>>
        /\ Goto(w, "tail")
    BY <1>6 DEF SendBlocks, SendWorks, Sends, At, sendVars, socketVars
  <2> QED BY <1>b, <1>d, <2>1 DEF IsConn, AnswerPcs
<1>7. CASE SendHead(w) \/ SendBody(w)
  <2>1. /\ pc[w] = "send" /\ UNCHANGED <<fdUse, gen, interest>>
        /\ \E u : Transmits(w, u)
    BY <1>7 DEF SendHead, SendBody, At, Transmits, kernelVars
  <2>2. \A fd \in Fds : conn'[fd].peer = conn[fd].peer
    BY <1>a, <2>1 DEF Transmits, Connection
  <2>3. \E r \in Response, place \in {"send", "tail"} :
          SetResponse(w, r, place) /\ r.name = Resp(w).name
    <3>1. "BODY" \in Statuses /\ "COMPLETE" \in Statuses
      BY DEF Statuses
    <3>2. CASE SendHead(w)
      <4>1. e.sent + 1 >= HeadUnits \/ e.sent + 1 < HeadUnits
        BY <1>e, SocketsAssumption DEF Response
      <4> QED BY <1>f, <1>g, <1>h, <3>1, <3>2, <4>1 DEF SendHead, e
    <3>3. CASE SendBody(w)
      <4>1. e.sent + 1 >= BodyUnits \/ e.sent + 1 < BodyUnits
        BY <1>e, SocketsAssumption DEF Response
      <4> QED BY <1>f, <1>g, <1>h, <3>1, <3>3, <4>1 DEF SendBody, e
    <3> QED BY <1>7, <3>2, <3>3
  <2> QED BY <1>c, <1>d, <2>1, <2>2, <2>3 DEF IsConn, AnswerPcs
<1>8. CASE SendEmpty(w) \/ SendSpins(w) \/ SendTail(w)
  <2>1. pc[w] \in {"send", "tail"} /\ UNCHANGED <<fdUse, gen, interest, conn>>
    BY <1>8 DEF SendEmpty, SendSpins, SendTail, At, sendVars, socketVars
  <2>2. PICK r \in Response,
             place \in {"send", "tail", "eraseResponse", "rearm"} :
          SetResponse(w, r, place) /\ r.name = Resp(w).name
    BY <1>8, <1>e, <1>f, <1>h DEF SendEmpty, SendSpins, SendTail, Statuses, e
  <2> QED BY <1>c, <1>d, <2>1, <2>2 DEF IsConn, AnswerPcs
<1>9. CASE EraseResponse(w)
  <2>1. /\ pc[w] = "eraseResponse" /\ Goto(w, "rearmIn")
        /\ UNCHANGED <<fdUse, gen, interest, conn>>
        /\ response' = [response EXCEPT ![fdOf[w]] = NoEntry]
    BY <1>9 DEF EraseResponse, At, socketVars
  <2>2. "rearmIn" \notin AnswerPcs
    BY DEF AnswerPcs
  <2> QED BY <1>a, <1>b, <1>d, <2>1, <2>2 DEF IsConn
<1>10. CASE RearmIn(w) \/ Rearm(w)
  BY <1>10, ArmPassesTurns
<1>11. CASE CloseFile(w)
  <2>1. /\ pc[w] \notin HeadPcs /\ pc'[w] \notin HeadPcs /\ UNCHANGED <<gen, queue>>
        /\ \A v \in Workers \ {w} : pc'[v] = pc[v] /\ fdOf'[v] = fdOf[v]
    BY <1>11, <1>a
       DEF CloseFile, CloseFd, socketVars, At, Return, WQ!Finish, HeadPcs
  <2>2. ASSUME NEW fd \in Fds, IsConn(fd)'
        PROVE  IsConn(fd) /\ interest'[fd] = interest[fd] /\ conn'[fd] = conn[fd]
    BY <1>11, <1>a, <2>2, Parts
       DEF CloseFile, CloseFd, socketVars, IsConn, KernelOK
  <2>3. \A fd \in Fds : response[fd] # NoEntry => response'[fd] = response[fd]
    BY <1>11, <1>a DEF CloseFile, Resp, Entry
  <2>4. Aside
    BY <2>1, <2>2, <2>3 DEF Aside, Queued
  <2> QED BY <2>4, AsideKeepsTurns
<1> QED BY <1>1, <1>2, <1>3, <1>4, <1>5, <1>6, <1>7, <1>8, <1>9, <1>10, <1>11
        DEF SendStep

LEMMA TurnKeptStep ==
  TypeInv /\ TurnInv /\ TurnKept /\ [Next]_vars => TurnKept'
<1> SUFFICES ASSUME TypeInv, TurnInv, UploadInv, KeptInv, [Next]_vars
             PROVE  KeptInv'
  BY UploadInvStep DEF TurnKept
<1>1. CASE MainListens \/ \E fd \in Fds : MainDispatches(fd)
  BY <1>1, MainPassesTurns DEF MainListens, MainDispatches
<1>2. CASE ClientConnects \/ UNCHANGED vars
  <2>1. UNCHANGED <<fdUse, gen, interest, conn, queue, pc, fdOf, response>>
    BY <1>2 DEF ClientConnects, Connect, programVars, vars, socketVars
  <2> QED BY <2>1, AsideKeepsTurns DEF Aside, IsConn, Queued
<1>3. ASSUME NEW fd \in Fds, ClientSteps(fd) PROVE KeptInv'
  <2>1. UNCHANGED <<fdUse, gen, interest, queue, pc, fdOf, response>>
    BY <1>3 DEF ClientSteps, ClientStep, Ask, ClientSends, ClientReads, ClientCloses,
       ClientResets, kernelVars, programVars
  <2>2. \A d \in Fds : conn'[d].peer = "up" => conn[d].peer = "up"
    <3>1. conn \in [Fds -> Connection]
      BY Parts DEF ConnOK
    <3>2. (\E k \in Kinds : Ask(fd, k)) \/ ClientSends(fd)
          => \A d \in Fds : conn'[d].peer = conn[d].peer
      BY <3>1 DEF Ask, ClientSends, Connection
    <3>3. ClientReads(fd) => \A d \in Fds : conn'[d].peer = conn[d].peer
      BY <3>1 DEF ClientReads, Connection
    <3>4. ClientCloses(fd) \/ ClientResets(fd)
          => \A d \in Fds : conn'[d].peer = "up" => conn[d].peer = "up"
      BY <3>1 DEF ClientCloses, ClientResets, Connection
    <3> QED BY <1>3, <3>2, <3>3, <3>4 DEF ClientSteps, ClientStep
  <2> QED BY <2>1, <2>2, AsideKeepsTurns DEF Aside, IsConn, Queued
<1>4. ASSUME NEW w \in Workers, WorkerSteps(w) PROVE KeptInv'
  <2>1. CASE AcceptFails(w)
    <3>1. Aside
      BY <2>1, Parts DEF AcceptFails, At, Return, WQ!Finish, socketVars, Aside,
         IsConn, Queued, HeadPcs, PoolOK
    <3> QED BY <3>1, AsideKeepsTurns
  <2> QED BY <1>4, <2>1, TakePassesTurns, AcceptPassesTurns, ArmPassesTurns,
             RecvPassesTurns, SendPassesTurns DEF WorkerSteps, HandlerStep
<1> QED BY <1>1, <1>2, <1>3, <1>4 DEF Next

LEMMA TurnKeptAlways == Safety => []TurnKept
<1>1. Init => TurnKept
  <2> SUFFICES ASSUME Init PROVE TurnKept
    OBVIOUS
  <2>1. KeptInv
    BY DEF Init, SocketsInit, KeptInv, FirstUse, IsConn
  <2>2. NothingUploaded
    BY PlainUnits
       DEF Init, SocketsInit, NewConn, NewRequest, NothingUploaded
  <2> QED BY <2>1, <2>2 DEF TurnKept, UploadInv
<1>2. Init => TurnInv
  BY TurnInvInit
<1> QED BY <1>1, <1>2, TypeInvAlways, TurnInvStep, TurnKeptStep, PTL DEF Safety

(* No connection is lost, for any number of workers, connections and       *)
(* requests and whatever clients do, as long as uploaded files can be      *)
(* opened: every path of HandleRecv and HandleSend that does not end in a  *)
(* modifyWaitFd is taken only when the client has left.  In particular     *)
(* HandleSend never finds its response missing, which would be such a      *)
(* path, and no modifyWaitFd comes before the addWaitFd.  FirstUseExclusive*)
(* is needed for it: a second handler could erase the response between the *)
(* report and the look, or have the number closed.                         *)
THEOREM NoneIsLost ==
  ASSUME UploadsOpen PROVE Safety => []NoConnectionLost
<1>1. TurnKept => NoConnectionLost
  BY DEF TurnKept, KeptInv, Kept, NoConnectionLost
<1> QED BY <1>1, TurnKeptAlways, PTL

(* HandleSend never comes to the first connection of a number with an      *)
(* entry that has no name, for which it would end the process: not after   *)
(* line 454 made such an entry, not when a client leaves, is reset or asks *)
(* for more before it is answered, and with any number of workers.  The    *)
(* entry is there, but EPOLLOUT is not waited for until the next request   *)
(* has given it a name.                                                    *)
THEOREM BuildsWhatIsNamed == Safety => []ResponsesNamed
<1>1. TypeInv /\ TurnKept => ResponsesNamed
  <2> SUFFICES ASSUME TypeInv, TurnKept, NEW w \in Workers, At(w, "build"),
                      FirstUse(fdOf[w])
               PROVE  Resp(w).name # ""
    BY DEF ResponsesNamed
  <2>1. fdOf[w] \in Fds /\ w \in Heads(fdOf[w])
    BY Parts DEF PoolOK, HandlerHasFd, At, Heads, HeadPcs
  <2>2. Answering(fdOf[w])
    BY <2>1 DEF Answering, AnswerPcs, At
  <2> QED BY <2>1, <2>2 DEF TurnKept, KeptInv, Kept, Named, Resp, Entry
<1> QED BY <1>1, TypeInvAlways, TurnKeptAlways, PTL
=============================================================================
