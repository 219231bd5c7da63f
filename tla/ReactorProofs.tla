--------------------------- MODULE ReactorProofs ---------------------------
(***************************************************************************)
(* What holds of the server for any number of workers, descriptors,        *)
(* connections and requests, and for clients that do as they like.         *)
(***************************************************************************)
EXTENDS Reactor, SequenceTheorems, TLAPS

Places == {"idle"} \cup AcceptPcs \cup RecvPcs \cup SendPcs

(* A response that is being sent has a head to send.                       *)
Headed == {r \in Response : r.status \in {"HEAD", "BODY"} => r.head \in Answers}
ResponsesHeaded == response \in [Fds -> Headed \cup {NoEntry}]

TypeInv == TypeOK /\ ResponsesHeaded

(* The parts of the type invariant that a step changes together.           *)
KernelOK == /\ fdUse \in [Fds -> {"free", "conn", "file", "dir"}]
            /\ gen \in [Fds -> Nat]
            /\ interest \in [Fds -> Interests]
            /\ backlog \in Nat /\ listenEdge \in BOOLEAN /\ connects \in Nat
ConnOK == conn \in [Fds -> Connection]
PoolOK == /\ queue \in Seq(Events)
          /\ running \in [Workers -> Events \cup {NoEvent}]
          /\ pc \in [Workers -> Places]
          /\ fdOf \in [Workers -> Fds \cup {NoFd}]
          /\ HandlerHasFd
MapsOK == /\ request \in [Fds -> Request]
          /\ response \in [Fds -> Headed \cup {NoEntry}]
ElseOK == /\ erased \in [Workers -> Fds \cup {NoFd}]
          /\ filePresent \in BOOLEAN /\ alive \in BOOLEAN

LEMMA Parts ==
  /\ TypeInv <=> KernelOK /\ ConnOK /\ PoolOK /\ MapsOK /\ ElseOK
  /\ TypeInv' <=> KernelOK' /\ ConnOK' /\ PoolOK' /\ MapsOK' /\ ElseOK'
BY DEF TypeInv, TypeOK, KernelOK, ConnOK, PoolOK, MapsOK, ElseOK, Places,
       ResponsesHeaded, Headed

LEMMA GotoType ==
  ASSUME PoolOK, NEW w \in Workers, NEW place \in Places, Goto(w, place),
         pc[w] \notin {"idle", "accept"}
  PROVE  PoolOK'
BY DEF PoolOK, HandlerHasFd, Goto, poolVars, Places

LEMMA ReturnType ==
  ASSUME PoolOK, NEW w \in Workers, Return(w)
  PROVE  PoolOK'
BY DEF PoolOK, HandlerHasFd, Return, WQ!Finish, Places

LEMMA SetRequestType ==
  ASSUME request \in [Fds -> Request], NEW w \in Workers, NEW r \in Request,
         SetRequest(w, r)
  PROVE  request' \in [Fds -> Request]
BY DEF SetRequest

LEMMA NewResponseType == NewResponse \in Headed
<1>1. NewResponse \in Response
  BY SocketsAssumption DEF NewResponse, Response, Statuses, Names
<1> QED BY <1>1 DEF NewResponse, Headed

LEMMA EntryType ==
  ASSUME MapsOK, NEW fd \in Fds
  PROVE  Entry(fd) \in Headed
BY NewResponseType DEF MapsOK, Entry

LEMMA UnitsType ==
  ASSUME NEW k \in Kinds PROVE RequestUnits(k) \in Seq(Units)
<1>1. /\ {k, "multipart", "blank", "boundary"} \subseteq Units
      /\ {"filename", "content", "final"} \subseteq Units
  BY DEF Units
<1> QED BY <1>1 DEF RequestUnits

(* A step of a client or of a handler on the connection of fd.             *)
LEMMA ConnType ==
  ASSUME ConnOK, NEW fd \in Fds, NEW c \in Connection, conn' = [conn EXCEPT ![fd] = c]
  PROVE  ConnOK'
BY DEF ConnOK

LEMMA ConnFields ==
  ASSUME NEW c \in Connection
  PROVE  /\ c.peer \in Peers /\ c.inbuf \in Seq(Units)
         /\ c.outbuf \in Seq(Replies) /\ c.toSend \in Seq(Units)
         /\ c.asked \in Seq(Kinds)
         /\ c.answers \in Seq(Answers \cup {"garbled"})
         /\ c.left \in 0..(HeadUnits + BodyUnits)
         /\ \A x \in Peers : [c EXCEPT !.peer = x] \in Connection
         /\ \A x \in Seq(Units) : /\ [c EXCEPT !.inbuf = x] \in Connection
                                  /\ [c EXCEPT !.toSend = x] \in Connection
         /\ \A x \in Seq(Replies) : [c EXCEPT !.outbuf = x] \in Connection
         /\ \A x \in Seq(Kinds) : [c EXCEPT !.asked = x] \in Connection
         /\ \A x \in Seq(Answers \cup {"garbled"}) :
              [c EXCEPT !.answers = x] \in Connection
         /\ \A x \in 0..(HeadUnits + BodyUnits) : [c EXCEPT !.left = x] \in Connection
BY DEF Connection

\* The client has fewer units to read after the first one of an answer.
LEMMA AnswerUnitsBounds ==
  ASSUME NEW a
  PROVE  AnswerUnits(a) - 1 \in 0..(HeadUnits + BodyUnits)
<1>1. CASE HasBody(a)
  BY <1>1, SocketsAssumption DEF AnswerUnits
<1>2. CASE ~HasBody(a)
  BY <1>2, SocketsAssumption DEF AnswerUnits
<1> QED BY <1>1, <1>2

LEMMA NewConnType == NewConn \in Connection
BY SocketsAssumption DEF NewConn, Connection, Peers

LEMMA ClientStepType ==
  ASSUME KernelOK, ConnOK, NEW fd \in Fds, ClientStep(fd)
  PROVE  KernelOK' /\ ConnOK'
<1>1. KernelOK'
  BY DEF ClientStep, Ask, ClientSends, ClientReads, ClientCloses, ClientResets,
         kernelVars, KernelOK
<1> DEFINE c == conn[fd]
<1>2. c \in Connection
  BY DEF ConnOK
<1>3. ASSUME NEW k \in Kinds, Ask(fd, k) PROVE ConnOK'
  <2> DEFINE d == [c EXCEPT !.toSend = RequestUnits(k)]
             e == [d EXCEPT !.asked = Append(d.asked, k)]
  <2>1. e \in Connection
    <3>1. d \in Connection
      BY <1>2, UnitsType, ConnFields
    <3> HIDE DEF d
    <3>2. Append(d.asked, k) \in Seq(Kinds)
      BY <3>1, ConnFields
    <3> QED BY <3>1, <3>2, ConnFields
  <2>2. conn' = [conn EXCEPT ![fd] = e]
    BY <1>3, <1>2 DEF Ask, ConnOK, Connection
  <2> QED BY <2>1, <2>2, ConnType
<1>4. CASE ClientSends(fd)
  <2> DEFINE d == [c EXCEPT !.inbuf = Append(c.inbuf, Head(c.toSend))]
             e == [d EXCEPT !.toSend = Tail(c.toSend)]
  <2>1. e \in Connection
    <3>1. c.toSend \in Seq(Units) /\ c.toSend # <<>> /\ c.inbuf \in Seq(Units)
      BY <1>2, <1>4, ConnFields DEF ClientSends
    <3>2. Append(c.inbuf, Head(c.toSend)) \in Seq(Units)
          /\ Tail(c.toSend) \in Seq(Units)
      BY <3>1
    <3>3. d \in Connection
      BY <1>2, <3>2, ConnFields
    <3> QED BY <3>2, <3>3, ConnFields
  <2>2. conn' = [conn EXCEPT ![fd] = e]
    BY <1>4, <1>2 DEF ClientSends, ConnOK, Connection
  <2> QED BY <1>1, <2>1, <2>2, ConnType
<1>5. CASE ClientReads(fd)
  <2> DEFINE unit == Head(c.outbuf)
             rest == Tail(c.outbuf)
  <2>1. c.outbuf \in Seq(Replies) /\ c.outbuf # <<>>
    BY <1>2, <1>5, ConnFields DEF ClientReads
  <2>2. unit \in Replies /\ rest \in Seq(Replies)
    BY <2>1
  <2>3. PICK a \in Seq(Answers \cup {"garbled"}), n \in 0..(HeadUnits + BodyUnits) :
          conn' = [conn EXCEPT ![fd].outbuf = rest, ![fd].answers = a,
                               ![fd].left = n]
    <3> DEFINE as == c.answers
               Got(a, n) == conn' = [conn EXCEPT ![fd].outbuf = rest,
                                       ![fd].answers = a, ![fd].left = n]
    <3>1. as \in Seq(Answers \cup {"garbled"}) /\ c.left \in 0..(HeadUnits + BodyUnits)
      BY <1>2, ConnFields
    <3>2. CASE c.left = 0 /\ unit \in Answers
      <4>1. Append(as, unit) \in Seq(Answers \cup {"garbled"})
        BY <3>1, <3>2
      <4>2. AnswerUnits(unit) - 1 \in 0..(HeadUnits + BodyUnits)
        BY AnswerUnitsBounds
      <4>3. Got(Append(as, unit), AnswerUnits(unit) - 1)
        BY <1>5, <3>2 DEF ClientReads
      <4> QED BY <4>1, <4>2, <4>3
    <3>3. CASE ~(c.left = 0 /\ unit \in Answers)
               /\ c.left > 0 /\ unit = RestOf(as[Len(as)])
      <4>1. c.left - 1 \in 0..(HeadUnits + BodyUnits)
        <5> HIDE DEF c
        <5> QED BY <3>1, <3>3, SocketsAssumption
      <4>2. Got(as, c.left - 1)
        BY <1>5, <3>3 DEF ClientReads
      <4> QED BY <3>1, <4>1, <4>2
    <3>4. CASE ~(c.left = 0 /\ unit \in Answers)
               /\ ~(c.left > 0 /\ unit = RestOf(as[Len(as)]))
      <4>1. Append(as, "garbled") \in Seq(Answers \cup {"garbled"})
        BY <3>1
      <4>2. Got(Append(as, "garbled"), 0)
        BY <1>5, <3>4 DEF ClientReads
      <4>3. 0 \in 0..(HeadUnits + BodyUnits)
        BY SocketsAssumption
      <4> QED BY <4>1, <4>2, <4>3
    <3>5. \E a \in Seq(Answers \cup {"garbled"}), n \in 0..(HeadUnits + BodyUnits) : Got(a, n)
      BY <3>2, <3>3, <3>4
    <3> QED BY <3>5
  <2> DEFINE d == [[[c EXCEPT !.outbuf = rest] EXCEPT !.answers = a] EXCEPT !.left = n]
  <2>4. d \in Connection
    BY <1>2, <2>2, ConnFields
  <2>5. conn' = [conn EXCEPT ![fd] = d]
    BY <2>3, <1>2 DEF ConnOK, Connection
  <2> QED BY <1>1, <2>4, <2>5, ConnType
<1>6. CASE ClientCloses(fd)
  <2>1. conn' = [conn EXCEPT ![fd] = [c EXCEPT !.peer = "fin"]]
    BY <1>6 DEF ClientCloses
  <2>2. [c EXCEPT !.peer = "fin"] \in Connection
    BY <1>2, ConnFields DEF Peers
  <2> QED BY <1>1, <2>1, <2>2, ConnType
<1>7. CASE ClientResets(fd)
  <2> DEFINE p == IF c.peer = "up" THEN "reset" ELSE "broken"
             d == [[c EXCEPT !.peer = p] EXCEPT !.outbuf = <<>>]
  <2>1. conn' = [conn EXCEPT ![fd] = d]
    BY <1>7, <1>2 DEF ClientResets, ConnOK, Connection
  <2>2. p \in Peers /\ <<>> \in Seq(Replies)
    BY DEF Peers
  <2>3. d \in Connection
    <3>1. [c EXCEPT !.peer = p] \in Connection
      BY <1>2, <2>2, ConnFields
    <3> HIDE DEF p
    <3> QED BY <2>2, <3>1, ConnFields
  <2> QED BY <1>1, <2>1, <2>3, ConnType
<1> QED BY <1>1, <1>3, <1>4, <1>5, <1>6, <1>7 DEF ClientStep

-----------------------------------------------------------------------------
(* The main thread, and AcceptConn                                         *)
LEMMA MainStepType ==
  ASSUME TypeInv, Listen \/ \E fd \in Fds : Dispatch(fd)
  PROVE  TypeInv'
<1>1. CASE Listen
  <2>1. AcceptEvent \in Events
    BY DEF Events
  <2>2. queue' \in Seq(Events)
    BY <1>1, <2>1, Parts DEF Listen, WQ!Submit, PoolOK
  <2> QED BY <1>1, <2>2, Parts DEF Listen, WQ!Submit, PoolOK, KernelOK, ConnOK,
             MapsOK, ElseOK, HandlerHasFd
<1>2. ASSUME NEW fd \in Fds, Dispatch(fd) PROVE TypeInv'
  <2> DEFINE e == [type |-> IF InReady(fd) THEN "recv" ELSE "find", fd |-> fd]
  <2>1. e \in Events
    BY DEF Events
  <2> HIDE DEF e
  <2>2. queue' \in Seq(Events)
    BY <1>2, <2>1, Parts DEF Dispatch, WQ!Submit, PoolOK, e
  <2> QED BY <1>2, <2>2, Parts DEF Dispatch, WQ!Submit, PoolOK, KernelOK,
             ConnOK, MapsOK, ElseOK, HandlerHasFd, Interests
<1> QED BY <1>1, <1>2

LEMMA AcceptStepType ==
  ASSUME TypeInv, NEW w \in Workers,
         Take(w) \/ Accept(w) \/ AcceptFails(w) \/ AddWait(w)
  PROVE  TypeInv'
<1> USE Parts
<1>1. CASE Take(w)
  <2>1. queue \in Seq(Events) /\ queue # <<>>
    BY <1>1 DEF Take, WQ!Take, PoolOK
  <2>2. Head(queue) \in Events /\ Tail(queue) \in Seq(Events)
    BY <2>1
  <2>3. /\ Head(queue).type \in Places
        /\ Head(queue) # AcceptEvent => Head(queue).fd \in Fds
        /\ Head(queue) = AcceptEvent => Head(queue).type = "accept"
    BY <2>2 DEF Events, AcceptEvent, Places, AcceptPcs, RecvPcs, SendPcs
  <2>4. PoolOK'
    BY <1>1, <2>2, <2>3 DEF Take, WQ!Take, PoolOK, HandlerHasFd
  <2> QED BY <1>1, <2>4 DEF Take, socketVars, KernelOK, ConnOK, MapsOK, ElseOK
<1>2. CASE Accept(w)
  <2>1. PoolOK'
    BY <1>2 DEF Accept, At, poolVars, PoolOK, HandlerHasFd, Places, AcceptPcs
  <2>2. KernelOK'
    BY <1>2 DEF Accept, KernelOK
  <2> QED BY <1>2, <2>1, <2>2 DEF Accept, ConnOK, MapsOK, ElseOK
<1>3. CASE AcceptFails(w)
  BY <1>3, ReturnType
     DEF AcceptFails, socketVars, KernelOK, ConnOK, MapsOK, ElseOK
<1>4. CASE AddWait(w)
  BY <1>4, ReturnType
     DEF AddWait, KernelOK, ConnOK, MapsOK, ElseOK, Interests
<1> QED BY <1>1, <1>2, <1>3, <1>4

-----------------------------------------------------------------------------
(* What a handler past accept may do                                       *)
Handling(w) == pc[w] \in Places \ {"idle", "accept"}
Leaves(w) == Return(w) \/ \E place \in Places : Goto(w, place)

LEMMA RecvHandles == ASSUME NEW w \in Workers, RecvStep(w) PROVE Handling(w)
<1>1. RecvData(w) \/ RecvEnds(w) \/ RecvBlocks(w) \/ OpenUpload(w)
      \/ SaveContent(w) \/ ParseMore(w) => pc[w] \in {"recv", "parse", "save"}
  BY DEF RecvData, RecvEnds, RecvBlocks, OpenUpload, SaveContent, ParseMore,
         Uploads, Parses, At
<1>2. ParseLine(w) \/ ParseHeader(w) \/ ParseGet(w) \/ ParsePut(w) \/ ParsePost(w)
      \/ ParseBoundary(w) \/ ParseFileHead(w) => pc[w] = "parse"
  BY DEF ParseLine, ParseHeader, ParseGet, ParsePut, ParsePost, ParseBoundary,
         ParseFileHead, Uploads, Parses, At
<1>3. ArmIn(w) \/ ArmOut(w) \/ ArmPut(w) \/ Complete(w) \/ PutBody(w) \/ Check(w)
      \/ CloseConn(w) \/ EraseRequest(w) => pc[w] \in RecvPcs
  BY DEF ArmIn, ArmOut, ArmPut, Arm, Complete, PutBody, Check, CloseConn,
         EraseRequest, At, RecvPcs
<1>4. pc[w] \in RecvPcs
  BY <1>1, <1>2, <1>3 DEF RecvStep, RecvPcs
<1> QED BY <1>4 DEF Handling, Places, RecvPcs

LEMMA SendHandles == ASSUME NEW w \in Workers, SendStep(w) PROVE Handling(w)
<1>1. FindResponse(w) \/ SendFails(w) \/ SendKills(w) \/ SendBlocks(w)
      \/ SendHead(w) \/ SendBody(w) \/ SendEmpty(w) \/ SendSpins(w)
      => pc[w] \in SendPcs
  BY DEF FindResponse, SendFails, SendKills, SendWorks, SendBlocks, SendHead,
         SendBody, SendEmpty, SendSpins, Sends, At, SendPcs
<1>2. BuildPage(w) \/ BuildPageDies(w) \/ BuildRedirect(w) \/ BuildFile(w)
      \/ BuildFileFails(w) \/ BuildDelete(w) \/ BuildPut(w) \/ BuildThrows(w)
      => pc[w] \in SendPcs
  BY DEF BuildPage, BuildPageDies, BuildRedirect, BuildFile, BuildFileFails,
         BuildDelete, BuildPut, BuildThrows, Builds, At, SendPcs
<1>3. SendTail(w) \/ EraseResponse(w) \/ RearmIn(w) \/ CloseFile(w) \/ Rearm(w)
      => pc[w] \in SendPcs
  BY DEF SendTail, EraseResponse, RearmIn, Arm, CloseFile, Rearm, At, SendPcs
<1>4. pc[w] \in SendPcs
  BY <1>1, <1>2, <1>3 DEF SendStep
<1> QED BY <1>4 DEF Handling, Places, SendPcs

LEMMA HandlerData ==
  ASSUME TypeInv, NEW w \in Workers, Handling(w)
  PROVE  fdOf[w] \in Fds /\ Req(w) \in Request /\ Entry(fdOf[w]) \in Headed
<1>1. fdOf[w] \in Fds
  BY DEF TypeInv, TypeOK, HandlerHasFd, Handling
<1> QED BY <1>1, Parts, EntryType DEF Req, MapsOK

LEMMA LeavesType ==
  ASSUME PoolOK, NEW w \in Workers, Handling(w), Leaves(w)
  PROVE  PoolOK'
BY GotoType, ReturnType DEF Leaves, Handling

(* A step of HandleRecv on its request.                                    *)
LEMMA RequestStepType ==
  ASSUME TypeInv, NEW w \in Workers, Handling(w), Leaves(w),
         NEW r \in Request, SetRequest(w, r) \/ UNCHANGED request,
         UNCHANGED parseVars
  PROVE  TypeInv'
<1>1. PoolOK'
  BY Parts, LeavesType
<1>2. MapsOK'
  BY Parts DEF MapsOK, SetRequest, parseVars
<1> QED BY <1>1, <1>2, Parts
        DEF parseVars, socketVars, elseVars, KernelOK, ConnOK, ElseOK

(* A step of either handler on its response.                               *)
LEMMA ResponseStepType ==
  ASSUME TypeInv, NEW w \in Workers, Handling(w),
         NEW r \in Headed, NEW place \in Places, SetResponse(w, r, place)
  PROVE  PoolOK' /\ response' \in [Fds -> Headed \cup {NoEntry}]
<1>1. PoolOK'
  BY Parts, GotoType DEF SetResponse, Handling
<1> QED BY <1>1, Parts DEF SetResponse, MapsOK

LEMMA RequestFields ==
  ASSUME NEW r \in Request
  PROVE  /\ r.recvMsg \in Seq(Units)
         /\ \A x \in Seq(Units) : [r EXCEPT !.recvMsg = x] \in Request
         /\ \A x \in Statuses : [r EXCEPT !.status = x] \in Request
         /\ \A x \in {"begin", "head", "content", "complete"} :
              [r EXCEPT !.part = x] \in Request
         /\ \A x \in BOOLEAN : [r EXCEPT !.multi = x] \in Request
         /\ \A x \in AllKinds \cup {"none", "junk"} :
              [r EXCEPT !.req = x] \in Request
BY DEF Request

LEMMA ConsumedType ==
  ASSUME TypeInv, NEW w \in Workers, Handling(w), ~Starved(w)
  PROVE  Consumed(w) \in Request
<1>1. Req(w) \in Request
  BY HandlerData
<1>2. Req(w).recvMsg \in Seq(Units) /\ Req(w).recvMsg # <<>>
  BY <1>1, RequestFields DEF Starved
<1>3. Tail(Req(w).recvMsg) \in Seq(Units)
  BY <1>2
<1> QED BY <1>1, <1>3, RequestFields DEF Consumed

(* HandleRecv                                                              *)
LEMMA RecvStepType ==
  ASSUME TypeInv, NEW w \in Workers, RecvStep(w)
  PROVE  TypeInv'
<1> DEFINE r == Req(w)
           c == conn[fdOf[w]]
<1>a. Handling(w)
  BY RecvHandles
<1>b. fdOf[w] \in Fds /\ r \in Request /\ Entry(fdOf[w]) \in Headed
  BY <1>a, HandlerData
<1>c. c \in Connection
  BY <1>b, Parts DEF ConnOK
<1>d. RecvPcs \subseteq Places
  BY DEF Places
<1>e. \A place \in RecvPcs : Goto(w, place) => Leaves(w)
  BY <1>d DEF Leaves
<1>f. \A x \in Statuses : [r EXCEPT !.status = x] \in Request
  BY <1>b, RequestFields
<1>g. \A n \in Names : [Entry(fdOf[w]) EXCEPT !.name = n] \in Headed
  BY <1>b DEF Headed, Response
<1> HIDE DEF r, c
<1>1. CASE RecvData(w)
  <2>1. c.inbuf \in Seq(Units) /\ r.recvMsg \in Seq(Units)
    BY <1>b, <1>c, ConnFields, RequestFields
  <2>2. PICK n \in 1..Len(c.inbuf) :
          /\ SetRequest(w, [r EXCEPT !.recvMsg = @ \o SubSeq(c.inbuf, 1, n)])
          /\ conn' = [conn EXCEPT ![fdOf[w]].inbuf = SubSeq(c.inbuf, n + 1, Len(c.inbuf))]
    BY <1>1 DEF RecvData, r, c
  <2> DEFINE taken == r.recvMsg \o SubSeq(c.inbuf, 1, n)
             rest == SubSeq(c.inbuf, n + 1, Len(c.inbuf))
  <2>3. taken \in Seq(Units) /\ rest \in Seq(Units)
    <3>1. SubSeq(c.inbuf, 1, n) \in Seq(Units) /\ rest \in Seq(Units)
      BY <2>1, SubSeqProperties
    <3> QED BY <2>1, <3>1, ConcatProperties
  <2>4. SetRequest(w, [r EXCEPT !.recvMsg = taken]) /\ [r EXCEPT !.recvMsg = taken] \in Request
    BY <1>b, <2>2, <2>3, RequestFields
  <2>5. conn' = [conn EXCEPT ![fdOf[w]] = [c EXCEPT !.inbuf = rest]]
        /\ [c EXCEPT !.inbuf = rest] \in Connection
    BY <1>c, <2>2, <2>3, ConnFields DEF c
  <2> HIDE DEF taken, rest
  <2>6. ConnOK'
    BY <1>b, <2>5, ConnType, Parts
  <2>7. PoolOK'
    BY <1>1, <1>a, <1>e, LeavesType, Parts DEF RecvData, RecvPcs
  <2>8. MapsOK'
    BY <1>1, <2>4, Parts DEF RecvData, SetRequest, MapsOK
  <2> QED BY <1>1, <2>6, <2>7, <2>8, Parts
          DEF RecvData, kernelVars, elseVars, KernelOK, ElseOK
<1>2. CASE RecvEnds(w)
  <2>1. ConnOK'
    <3>1. [c EXCEPT !.peer = "broken"] \in Connection
      BY <1>c, ConnFields DEF Peers
    <3>2. conn' = conn \/ conn' = [conn EXCEPT ![fdOf[w]] = [c EXCEPT !.peer = "broken"]]
      BY <1>2 DEF RecvEnds, c
    <3> QED BY <1>b, <3>1, <3>2, ConnType, Parts DEF ConnOK
  <2>2. PoolOK'
    BY <1>2, <1>a, <1>e, LeavesType, Parts DEF RecvEnds, RecvPcs
  <2>3. MapsOK'
    BY <1>2, <1>f, Parts DEF RecvEnds, SetStatus, SetRequest, MapsOK, Statuses, r
  <2> QED BY <1>2, <2>1, <2>2, <2>3, Parts
          DEF RecvEnds, kernelVars, elseVars, KernelOK, ElseOK
<1>3. CASE RecvBlocks(w) \/ ParseMore(w) \/ Check(w)
  <2>1. Leaves(w)
    BY <1>3, <1>e DEF RecvBlocks, ParseMore, Check, RecvPcs, Leaves
  <2> QED BY <1>3, <1>a, <1>b, <2>1, RequestStepType
          DEF RecvBlocks, ParseMore, Check
<1>4. CASE ParseLine(w)
  <2>1. Consumed(w) \in Request
    BY <1>4, <1>a, ConsumedType DEF ParseLine
  <2> DEFINE k == IF NextUnit(w) \in Kinds THEN NextUnit(w) ELSE "junk"
             q == [[Consumed(w) EXCEPT !.status = "HEAD"] EXCEPT !.req = k]
  <2>2. k \in AllKinds \cup {"none", "junk"}
    BY SocketsAssumption
  <2>3. q \in Request
    <3> HIDE DEF k
    <3>1. [Consumed(w) EXCEPT !.status = "HEAD"] \in Request
      BY <2>1, RequestFields DEF Statuses
    <3> QED BY <2>2, <3>1, RequestFields
  <2>4. SetRequest(w, q)
    BY <1>4, <2>1 DEF ParseLine, Request
  <2>5. Leaves(w)
    BY <1>4, <1>e DEF ParseLine, RecvPcs
  <2> HIDE DEF q
  <2> QED BY <1>4, <1>a, <2>3, <2>4, <2>5, RequestStepType DEF ParseLine
<1>5. CASE ParseHeader(w)
  <2>1. Consumed(w) \in Request /\ r.multi \in BOOLEAN
    BY <1>5, <1>a, <1>b, ConsumedType DEF ParseHeader, Request
  <2> DEFINE p == IF r.multi THEN "begin" ELSE Consumed(w).part
             m == Consumed(w).multi \/ NextUnit(w) = "multipart"
             q == IF NextUnit(w) = "blank"
                  THEN [[Consumed(w) EXCEPT !.status = "BODY"] EXCEPT !.part = p]
                  ELSE [Consumed(w) EXCEPT !.multi = m]
  <2>2. p \in {"begin", "head", "content", "complete"} /\ m \in BOOLEAN
    BY <2>1 DEF Request
  <2>3. q \in Request
    <3> HIDE DEF p, m
    <3>1. [Consumed(w) EXCEPT !.status = "BODY"] \in Request
      BY <2>1, RequestFields DEF Statuses
    <3> QED BY <2>1, <2>2, <3>1, RequestFields
  <2>4. SetRequest(w, q)
    BY <1>5, <2>1 DEF ParseHeader, Request, r
  <2>5. Leaves(w)
    BY <1>5, <1>e DEF ParseHeader, RecvPcs
  <2> HIDE DEF q
  <2> QED BY <1>5, <1>a, <2>3, <2>4, <2>5, RequestStepType DEF ParseHeader
<1>6. CASE ParseGet(w) \/ ParsePut(w) \/ ParsePost(w)
  <2>1. PICK n \in Names, place \in Places : Respond(w, n, place)
    BY <1>6 DEF ParseGet, ParsePut, ParsePost, Resource, Names, Places, RecvPcs
  <2>2. PoolOK' /\ response' \in [Fds -> Headed \cup {NoEntry}]
    BY <1>a, <1>g, <2>1, ResponseStepType DEF Respond
  <2> QED BY <1>6, <2>2, Parts DEF ParseGet, ParsePut, ParsePost, MapsOK,
             socketVars, elseVars, KernelOK, ConnOK, ElseOK
<1>7. CASE ParseBoundary(w) \/ ParseFileHead(w)
  <2>1. Consumed(w) \in Request
    BY <1>7, <1>a, ConsumedType DEF ParseBoundary, ParseFileHead
  <2>2. PICK q \in Request : SetRequest(w, q)
    BY <1>7, <2>1, RequestFields DEF ParseBoundary, ParseFileHead
  <2>3. Leaves(w)
    BY <1>7, <1>e DEF ParseBoundary, ParseFileHead, RecvPcs
  <2> QED BY <1>7, <1>a, <2>2, <2>3, RequestStepType
          DEF ParseBoundary, ParseFileHead
<1>8. CASE OpenUpload(w)
  <2>1. PICK opens \in WriteOpens :
          /\ Goto(w, IF opens THEN "save" ELSE "ended")
          /\ filePresent' = (filePresent \/ opens)
    BY <1>8 DEF OpenUpload
  <2>2. Leaves(w)
    BY <2>1, <1>e DEF RecvPcs
  <2>3. PoolOK'
    BY <1>a, <2>2, LeavesType, Parts
  <2>4. filePresent' \in BOOLEAN
    BY <2>1
  <2> QED BY <1>8, <2>3, <2>4, Parts
          DEF OpenUpload, socketVars, KernelOK, ConnOK, MapsOK, ElseOK
<1>9. CASE SaveContent(w)
  <2>1. Consumed(w) \in Request /\ [r EXCEPT !.part = "complete"] \in Request
    BY <1>9, <1>a, <1>b, ConsumedType, RequestFields DEF SaveContent
  <2>2. PICK q \in Request : SetRequest(w, q)
    BY <1>9, <2>1 DEF SaveContent, r
  <2>3. Leaves(w)
    BY <1>9, <1>e DEF SaveContent, RecvPcs
  <2> QED BY <1>9, <1>a, <2>2, <2>3, RequestStepType DEF SaveContent
<1>10. CASE ArmIn(w) \/ ArmOut(w) \/ ArmPut(w)
  <2>1. PICK from \in RecvPcs, mask \in Interests, to \in RecvPcs :
          Arm(w, from, mask, to)
    BY <1>10 DEF ArmIn, ArmOut, ArmPut, Interests, RecvPcs
  <2>2. PoolOK'
    BY <1>a, <1>e, <2>1, LeavesType, Parts DEF Arm
  <2>3. KernelOK'
    BY <2>1, Parts DEF Arm, Modify, KernelOK
  <2> QED BY <2>1, <2>2, <2>3, Parts DEF Arm, elseVars, ConnOK, MapsOK, ElseOK
<1>11. CASE Complete(w) \/ PutBody(w)
  <2>1. PICK q \in Request : SetRequest(w, q)
    BY <1>11, <1>f DEF Complete, PutBody, SetStatus, Statuses, r
  <2>2. Leaves(w)
    BY <1>11, <1>e DEF Complete, PutBody, RecvPcs
  <2> QED BY <1>11, <1>a, <2>1, <2>2, RequestStepType DEF Complete, PutBody
<1>12. CASE CloseConn(w)
  <2>1. KernelOK'
    BY <1>12, Parts DEF CloseConn, CloseFd, KernelOK, Interests
  <2>2. ConnOK'
    BY <1>12, Parts, NewConnType DEF CloseConn, CloseFd, ConnOK
  <2>3. PoolOK'
    BY <1>12, <1>a, <1>e, LeavesType, Parts DEF CloseConn, RecvPcs
  <2> QED BY <1>12, <2>1, <2>2, <2>3, Parts DEF CloseConn, elseVars, MapsOK, ElseOK
<1>13. CASE EraseRequest(w)
  <2>1. NewRequest \in Request
    BY DEF NewRequest, Request, Statuses
  <2>2. Leaves(w)
    BY <1>13 DEF EraseRequest, Leaves
  <2> QED BY <1>13, <1>a, <2>1, <2>2, RequestStepType DEF EraseRequest
<1> QED BY <1>1, <1>2, <1>3, <1>4, <1>5, <1>6, <1>7, <1>8, <1>9, <1>10, <1>11,
           <1>12, <1>13 DEF RecvStep

(* HandleSend                                                              *)
LEMMA SendStepType ==
  ASSUME TypeInv, NEW w \in Workers, SendStep(w)
  PROVE  TypeInv'
<1> DEFINE e == Resp(w)
           Kept == UNCHANGED <<socketVars, request, erased, filePresent, alive>>
<1>a. Handling(w)
  BY SendHandles
<1>b. fdOf[w] \in Fds /\ e \in Headed /\ Req(w) \in Request
  BY <1>a, HandlerData DEF Resp
<1>c. SendPcs \subseteq Places /\ \A place \in SendPcs : Goto(w, place) => Leaves(w)
  BY DEF Places, Leaves
<1>d. \A n \in Names : [NewResponse EXCEPT !.name = n] \in Headed
  BY NewResponseType DEF Headed, Response
<1>e. ASSUME NEW r \in Headed, NEW place \in SendPcs, SetResponse(w, r, place)
      PROVE  PoolOK' /\ response' \in [Fds -> Headed \cup {NoEntry}]
  BY <1>a, <1>c, <1>e, ResponseStepType
<1>f. ASSUME NEW r \in Headed, NEW place \in SendPcs, SetResponse(w, r, place),
             Kept
      PROVE  TypeInv'
  BY <1>e, <1>f, Parts DEF socketVars, KernelOK, ConnOK, MapsOK, ElseOK
<1>g. 0 \in 0..(HeadUnits + BodyUnits)
  BY SocketsAssumption
<1> HIDE DEF e
<1>s. e.sent \in 0..(HeadUnits + BodyUnits)
  BY <1>b DEF Headed, Response
<1>1. CASE FindResponse(w)
  <2>1. Leaves(w)
    BY <1>1, <1>c DEF FindResponse, Leaves, SendPcs
  <2>2. PoolOK'
    BY <1>a, <2>1, LeavesType, Parts
  <2> QED BY <1>1, <2>2, Parts DEF FindResponse, sendVars, elseVars, socketVars,
             KernelOK, ConnOK, MapsOK, ElseOK
<1>h. ASSUME NEW h \in Answers
      PROVE  [e EXCEPT !.status = "HEAD", !.head = h, !.sent = 0] \in Headed
  BY <1>b, <1>g DEF Headed, Response, Statuses
<1>2. CASE BuildRedirect(w)
  <2>1. Built(w, "moved") /\ "moved" \in Answers
    BY <1>2 DEF BuildRedirect, Answers
  <2> QED BY <1>2, <1>f, <1>h, <2>1
          DEF BuildRedirect, Built, sendVars, elseVars, SendPcs, e
<1>p. CASE BuildPage(w)
  <2>1. PICK d \in Fds : fdUse' = [fdUse EXCEPT ![d] = "dir"]
    BY <1>p DEF BuildPage
  <2>2. Built(w, "page") /\ "page" \in Answers
    BY <1>p DEF BuildPage, Answers
  <2>3. PoolOK' /\ response' \in [Fds -> Headed \cup {NoEntry}]
    BY <1>e, <1>h, <2>2 DEF Built, SendPcs, e
  <2>4. KernelOK'
    BY <1>p, <2>1, Parts DEF BuildPage, KernelOK
  <2> QED BY <1>p, <2>3, <2>4, Parts
          DEF BuildPage, elseVars, ConnOK, MapsOK, ElseOK
<1>3. CASE BuildFile(w)
  <2>1. PICK f \in Fds :
          /\ fdUse' = [fdUse EXCEPT ![f] = "file"]
          /\ SetResponse(w, [e EXCEPT !.status = "HEAD", !.head = "file",
                                      !.file = f, !.sent = 0], "send")
    BY <1>3 DEF BuildFile, e
  <2>2. [e EXCEPT !.status = "HEAD", !.head = "file", !.file = f, !.sent = 0]
        \in Headed
    BY <1>b, <1>g DEF Headed, Response, Statuses, Answers
  <2>3. PoolOK' /\ response' \in [Fds -> Headed \cup {NoEntry}]
    BY <1>e, <2>1, <2>2 DEF SendPcs
  <2>4. KernelOK'
    BY <1>3, <2>1, Parts DEF BuildFile, KernelOK
  <2> QED BY <1>3, <2>3, <2>4, Parts
          DEF BuildFile, elseVars, ConnOK, MapsOK, ElseOK
<1>4. CASE BuildFileFails(w)
  BY <1>4, <1>d, <1>f DEF BuildFileFails, Replaced, Names, SendPcs, sendVars, elseVars
<1>5. CASE BuildDelete(w)
  <2>1. PoolOK' /\ response' \in [Fds -> Headed \cup {NoEntry}]
    BY <1>5, <1>d, <1>e DEF BuildDelete, Replaced, Names, SendPcs
  <2> QED BY <1>5, <2>1, Parts
          DEF BuildDelete, socketVars, KernelOK, ConnOK, MapsOK, ElseOK
<1>6. CASE BuildPut(w)
  <2>1. [e EXCEPT !.status = "HEAD", !.head = "ok", !.sent = 0] \in Headed
    BY <1>b, <1>g DEF Headed, Response, Statuses, Answers
  <2>2. Built(w, "ok") \/ Replaced(w, "redirect")
    BY <1>6 DEF BuildPut
  <2>3. PoolOK' /\ response' \in [Fds -> Headed \cup {NoEntry}]
    BY <1>d, <1>e, <2>1, <2>2 DEF Built, Replaced, Names, SendPcs, e
  <2> QED BY <1>6, <2>3, Parts
          DEF BuildPut, socketVars, KernelOK, ConnOK, MapsOK, ElseOK
<1>7. CASE BuildThrows(w) \/ BuildPageDies(w) \/ SendKills(w)
  BY <1>7, Parts DEF BuildThrows, BuildPageDies, SendKills, socketVars, poolVars, KernelOK,
     ConnOK, PoolOK, HandlerHasFd, MapsOK, ElseOK
<1>8. CASE SendFails(w)
  <2> DEFINE c == conn[fdOf[w]]
  <2>1. ConnOK'
    <3>1. c \in Connection
      BY <1>b, Parts DEF ConnOK
    <3>2. [c EXCEPT !.peer = "broken"] \in Connection
      BY <3>1, ConnFields DEF Peers
    <3>3. conn' = conn \/ conn' = [conn EXCEPT ![fdOf[w]] = [c EXCEPT !.peer = "broken"]]
      BY <1>8 DEF SendFails
    <3> QED BY <1>b, <3>2, <3>3, ConnType, Parts DEF ConnOK
  <2>2. PoolOK'
    BY <1>8, <1>a, <1>c, LeavesType, Parts DEF SendFails, SendPcs
  <2>3. [Req(w) EXCEPT !.status = "ERROR"] \in Request
    BY <1>b, RequestFields DEF Statuses
  <2>4. MapsOK'
    BY <1>8, <2>3, Parts DEF SendFails, SetStatus, SetRequest, MapsOK
  <2> QED BY <1>8, <2>1, <2>2, <2>4, Parts
          DEF SendFails, kernelVars, elseVars, KernelOK, ElseOK
<1>9. CASE SendBlocks(w)
  <2>1. PoolOK'
    BY <1>9, <1>a, <1>c, LeavesType, Parts DEF SendBlocks, SendPcs
  <2> QED BY <1>9, <2>1, Parts DEF SendBlocks, sendVars, elseVars, socketVars,
             KernelOK, ConnOK, MapsOK, ElseOK
<1>10. ASSUME NEW u \in Replies, Transmits(w, u)
       PROVE  KernelOK' /\ ConnOK' /\ ElseOK' /\ request' \in [Fds -> Request]
  <2> DEFINE c == conn[fdOf[w]]
             d == [c EXCEPT !.outbuf = Append(c.outbuf, u)]
  <2>1. c \in Connection
    BY <1>b, Parts DEF ConnOK
  <2>2. Append(c.outbuf, u) \in Seq(Replies)
    BY <2>1, ConnFields
  <2>3. d \in Connection
    BY <2>1, <2>2, ConnFields
  <2>4. conn' = [conn EXCEPT ![fdOf[w]] = d]
    BY <1>10 DEF Transmits
  <2>5. ConnOK'
    BY <1>b, <2>3, <2>4, ConnType, Parts
  <2> QED BY <1>10, <2>5, Parts
          DEF Transmits, kernelVars, elseVars, KernelOK, ElseOK, MapsOK
<1>11. CASE SendHead(w)
  <2> DEFINE unit == IF e.sent = 0 THEN e.head ELSE RestOf(e.head)
  <2>1. unit \in Replies
    BY <1>11, <1>b DEF SendHead, Headed, Response, Replies, RestOf, e
  <2>2. [e EXCEPT !.status = "BODY", !.sent = 0] \in Headed
    BY <1>11, <1>b, <1>g DEF SendHead, Headed, Response, Statuses, e
  <2>3. ~(e.sent + 1 >= HeadUnits) => [e EXCEPT !.sent = @ + 1] \in Headed
    <3>1. ~(e.sent + 1 >= HeadUnits) => e.sent + 1 \in 0..(HeadUnits + BodyUnits)
      BY <1>s, SocketsAssumption
    <3> QED BY <1>b, <3>1 DEF Headed, Response
  <2>4. PoolOK' /\ response' \in [Fds -> Headed \cup {NoEntry}]
    BY <1>11, <1>e, <2>2, <2>3 DEF SendHead, SendPcs, e
  <2>5. Transmits(w, unit)
    BY <1>11 DEF SendHead, e
  <2> QED BY <1>10, <2>1, <2>4, <2>5, Parts DEF MapsOK
<1>12. CASE SendBody(w)
  <2>1. RestOf(e.head) \in Replies
    BY DEF RestOf, Replies
  <2>2. [e EXCEPT !.status = "COMPLETE", !.sent = 0] \in Headed
    BY <1>b, <1>g DEF Headed, Response, Statuses
  <2>3. ~(e.sent + 1 >= BodyUnits) => [e EXCEPT !.sent = @ + 1] \in Headed
    <3>1. ~(e.sent + 1 >= BodyUnits) => e.sent + 1 \in 0..(HeadUnits + BodyUnits)
      BY <1>s, SocketsAssumption
    <3> QED BY <1>b, <3>1 DEF Headed, Response
  <2>4. PoolOK' /\ response' \in [Fds -> Headed \cup {NoEntry}]
    BY <1>12, <1>e, <2>2, <2>3 DEF SendBody, SendPcs, e
  <2> QED BY <1>12, <1>10, <2>1, <2>4, Parts DEF SendBody, MapsOK, e
<1>13. CASE SendEmpty(w)
  <2>1. [e EXCEPT !.status = "COMPLETE", !.sent = 0] \in Headed
    BY <1>b, <1>g DEF Headed, Response, Statuses
  <2> QED BY <1>13, <1>f, <2>1 DEF SendEmpty, sendVars, elseVars, SendPcs, e
<1>14. CASE SendSpins(w) \/ SendTail(w)
  <2>1. PICK place \in SendPcs : SetResponse(w, e, place)
    BY <1>14 DEF SendSpins, SendTail, SendPcs, e
  <2> QED BY <1>14, <1>b, <1>f, <2>1 DEF SendSpins, SendTail, sendVars, elseVars
<1>15. CASE EraseResponse(w)
  <2>1. PoolOK'
    BY <1>15, <1>a, <1>c, LeavesType, Parts DEF EraseResponse, SendPcs
  <2>2. response' \in [Fds -> Headed \cup {NoEntry}]
    BY <1>15, Parts DEF EraseResponse, MapsOK
  <2>3. e.file \in Fds \cup {NoFd}
    BY <1>b DEF Headed, Response
  <2>4. erased' \in [Workers -> Fds \cup {NoFd}]
    BY <1>15, <2>3, Parts DEF EraseResponse, ElseOK, e
  <2> QED BY <1>15, <2>1, <2>2, <2>4, Parts
          DEF EraseResponse, socketVars, KernelOK, ConnOK, MapsOK, ElseOK
<1>16. CASE RearmIn(w) \/ Rearm(w)
  <2>1. PoolOK'
    BY <1>16, <1>a, <1>c, LeavesType, Parts
       DEF RearmIn, Arm, Rearm, SendPcs, Leaves
  <2>2. KernelOK'
    BY <1>16, Parts DEF RearmIn, Arm, Rearm, Modify, KernelOK, Interests
  <2> QED BY <1>16, <2>1, <2>2, Parts
          DEF RearmIn, Arm, Rearm, elseVars, ConnOK, MapsOK, ElseOK
<1>17. CASE CloseFile(w)
  <2>1. PoolOK'
    BY <1>17, ReturnType, Parts DEF CloseFile
  <2>2. response' \in [Fds -> Headed \cup {NoEntry}]
    BY <1>17, <1>b, Parts DEF CloseFile, MapsOK, e
  <2>3. KernelOK' /\ ConnOK'
    <3>1. CASE UNCHANGED socketVars
      BY <3>1, Parts DEF socketVars, KernelOK, ConnOK
    <3>2. ASSUME NEW f \in Fds, CloseFd(f) PROVE KernelOK' /\ ConnOK'
      BY <3>2, Parts, NewConnType DEF CloseFd, KernelOK, ConnOK, Interests
    <3> QED BY <1>17, <3>1, <3>2 DEF CloseFile
  <2> QED BY <1>17, <2>1, <2>2, <2>3, Parts DEF CloseFile, elseVars, MapsOK, ElseOK
<1> QED BY <1>1, <1>2, <1>p, <1>3, <1>4, <1>5, <1>6, <1>7, <1>8, <1>9, <1>11, <1>12,
           <1>13, <1>14, <1>15, <1>16, <1>17 DEF SendStep

-----------------------------------------------------------------------------
LEMMA TypeInvStep == TypeInv /\ [Next]_vars => TypeInv'
<1> SUFFICES ASSUME TypeInv, [Next]_vars PROVE TypeInv'
  OBVIOUS
<1>1. CASE MainListens
  BY <1>1, MainStepType DEF MainListens
<1>2. ASSUME NEW fd \in Fds, MainDispatches(fd) PROVE TypeInv'
  BY <1>2, MainStepType DEF MainDispatches
<1>3. CASE ClientConnects
  BY <1>3, Parts DEF ClientConnects, Connect, programVars, KernelOK, ConnOK,
     PoolOK, HandlerHasFd, MapsOK, ElseOK
<1>4. ASSUME NEW fd \in Fds, ClientSteps(fd) PROVE TypeInv'
  BY <1>4, ClientStepType, Parts
     DEF ClientSteps, programVars, PoolOK, HandlerHasFd, MapsOK, ElseOK
<1>5. ASSUME NEW w \in Workers, WorkerSteps(w) PROVE TypeInv'
  BY <1>5, AcceptStepType, RecvStepType, SendStepType DEF WorkerSteps, HandlerStep
<1>6. CASE UNCHANGED vars
  BY <1>6, Parts DEF vars, socketVars, KernelOK, ConnOK, PoolOK, HandlerHasFd,
     MapsOK, ElseOK
<1> QED BY <1>1, <1>2, <1>3, <1>4, <1>5, <1>6 DEF Next

LEMMA TypeInvAlways == Safety => []TypeInv
<1>1. Init => TypeInv
  <2> SUFFICES ASSUME Init PROVE TypeInv
    OBVIOUS
  <2>1. KernelOK /\ ElseOK
    BY DEF Init, SocketsInit, KernelOK, ElseOK, Interests
  <2>2. ConnOK
    BY NewConnType DEF Init, SocketsInit, ConnOK
  <2>3. PoolOK
    BY DEF Init, WQ!Init, PoolOK, HandlerHasFd, Places
  <2>4. NewRequest \in Request
    BY DEF NewRequest, Request, Statuses
  <2>5. MapsOK
    BY <2>4 DEF Init, MapsOK
  <2> QED BY <2>1, <2>2, <2>3, <2>5, Parts
<1> QED BY <1>1, TypeInvStep, PTL DEF Safety

(* The state of the server, of its maps and of the connections has its     *)
(* types throughout, whatever workers and clients do: no handler acts on   *)
(* a descriptor it does not have, no position in a body runs past its end. *)
THEOREM TypeCorrect == Safety => []TypeOK
<1>1. TypeInv => TypeOK
  BY DEF TypeInv
<1> QED BY <1>1, TypeInvAlways, PTL

-----------------------------------------------------------------------------
(* Why the handlers of a first connection are kept apart.  A number that   *)
(* no connection ever had is unknown to epoll, to the queue and to every   *)
(* handler, so the handler that accepts the first one is alone; from then  *)
(* on the turn is passed: from a handler to epoll by its modifyWaitFd,     *)
(* from epoll to the queue by the report that disarms the descriptor, from *)
(* the queue to a handler.  FirstUseExclusive alone is not inductive: the  *)
(* number could have a handler before it has a connection.                 *)
Unknown(fd) == /\ ~IsConn(fd) /\ interest[fd] = "off"
               /\ \A w \in Workers : fdOf[w] # fd
               /\ Queued(fd) = {}
NewNumbersUnknown == \A fd \in Fds : gen[fd] = 0 => Unknown(fd)
TurnInv == NewNumbersUnknown /\ FirstUseExclusive

LEMMA TurnOf ==
  ASSUME TurnInv, NEW fd \in Fds
  PROVE  /\ gen[fd] = 0 => Unknown(fd)
         /\ FirstUse(fd) => AtMostOneTurn(fd)
<1>1. gen[fd] = 0 => Unknown(fd)
  BY DEF TurnInv, NewNumbersUnknown
<1>2. FirstUse(fd) => AtMostOneTurn(fd)
  BY DEF TurnInv, FirstUseExclusive
<1> QED BY <1>1, <1>2

(* A step that passes no turn on: nothing is armed, queued or taken, no    *)
(* number becomes a connection, no handler comes before its modifyWaitFd.  *)
Quiet ==
  /\ gen' = gen /\ queue' = queue
  /\ \A fd \in Fds : /\ interest'[fd] \in {interest[fd], "off"}
                     /\ IsConn(fd)' => IsConn(fd)
  /\ \A w \in Workers : /\ fdOf'[w] \in {fdOf[w], NoFd}
                        /\ pc'[w] \in HeadPcs =>
                             pc[w] \in HeadPcs /\ fdOf'[w] = fdOf[w]

LEMMA QuietKeepsTurns == ASSUME TurnInv, Quiet PROVE TurnInv'
<1> SUFFICES ASSUME NEW fd \in Fds
             PROVE  /\ (gen[fd] = 0 => Unknown(fd))'
                    /\ (FirstUse(fd) => AtMostOneTurn(fd))'
  BY DEF TurnInv, NewNumbersUnknown, FirstUseExclusive
<1>1. Queued(fd)' = Queued(fd) /\ Heads(fd)' \subseteq Heads(fd)
  BY DEF Quiet, Queued, Heads
<1>2. ASSUME gen'[fd] = 0 PROVE Unknown(fd)'
  <2>1. gen[fd] = 0
    BY <1>2 DEF Quiet
  <2>2. Unknown(fd)
    BY <2>1, TurnOf
  <2>3. Queued(fd)' = {} /\ interest'[fd] = "off" /\ ~IsConn(fd)'
    BY <1>1, <2>2 DEF Quiet, Unknown
  <2>4. \A w \in Workers : fdOf'[w] # fd
    BY <2>2, ReactorAssumption DEF Quiet, Unknown
  <2> QED BY <2>3, <2>4 DEF Unknown
<1>3. ASSUME FirstUse(fd)' PROVE AtMostOneTurn(fd)'
  <2>1. AtMostOneTurn(fd)
    <3>1. FirstUse(fd)
      BY <1>3 DEF Quiet, FirstUse
    <3> QED BY <3>1, TurnOf
  <2>2. Armed(fd)' => Armed(fd)
    BY DEF Quiet, Armed
  <2> QED BY <1>1, <2>1, <2>2 DEF AtMostOneTurn
<1> QED BY <1>2, <1>3

(* The handler moves on without passing its turn to epoll.                 *)
Moves(w) == \/ Return(w)
            \/ \E place \in Places : /\ Goto(w, place)
                                     /\ place \in HeadPcs => pc[w] \in HeadPcs

LEMMA MovesQuiet ==
  ASSUME TypeInv, NEW w \in Workers, Moves(w), UNCHANGED <<fdUse, gen, interest>>
  PROVE  Quiet
<1>1. pc \in [Workers -> Places] /\ fdOf \in [Workers -> Fds \cup {NoFd}]
  BY Parts DEF PoolOK
<1>2. CASE Return(w)
  BY <1>1, <1>2 DEF Return, WQ!Finish, Quiet, IsConn, HeadPcs
<1>3. ASSUME NEW place \in Places, Goto(w, place), place \in HeadPcs => pc[w] \in HeadPcs
      PROVE  Quiet
  BY <1>1, <1>3 DEF Goto, poolVars, Quiet, IsConn
<1> QED BY <1>2, <1>3 DEF Moves

(* modifyWaitFd, or addWaitFd: the turn goes from the handler to epoll.    *)
LEMMA ArmKeepsTurns ==
  ASSUME TypeInv, TurnInv, NEW w \in Workers, pc[w] \in HeadPcs,
         UNCHANGED <<fdUse, gen, queue>>,
         \A fd \in Fds : fd # fdOf[w] => interest'[fd] = interest[fd],
         pc'[w] \notin HeadPcs, fdOf'[w] \in {fdOf[w], NoFd},
         \A v \in Workers \ {w} : pc'[v] = pc[v] /\ fdOf'[v] = fdOf[v]
  PROVE  TurnInv'
<1> SUFFICES ASSUME NEW fd \in Fds
             PROVE  /\ (gen[fd] = 0 => Unknown(fd))'
                    /\ (FirstUse(fd) => AtMostOneTurn(fd))'
  BY DEF TurnInv, NewNumbersUnknown, FirstUseExclusive
<1>1. Queued(fd)' = Queued(fd) /\ Heads(fd)' = Heads(fd) \ {w}
  BY DEF Queued, Heads
<1>2. ASSUME gen'[fd] = 0 PROVE Unknown(fd)'
  <2>1. Unknown(fd)
    <3>1. gen[fd] = 0
      BY <1>2
    <3> QED BY <3>1, TurnOf
  <2>2. fdOf[w] # fd
    BY <2>1 DEF Unknown
  <2> QED BY <1>1, <2>1, <2>2, ReactorAssumption DEF Unknown, IsConn
<1>3. ASSUME FirstUse(fd)' PROVE AtMostOneTurn(fd)'
  <2>1. AtMostOneTurn(fd)
    <3>1. FirstUse(fd)
      BY <1>3 DEF FirstUse, IsConn
    <3> QED BY <3>1, TurnOf
  <2>2. CASE fdOf[w] = fd
    <3>1. Heads(fd) = {w} /\ Queued(fd) = {}
      BY <2>1, <2>2 DEF AtMostOneTurn, Heads
    <3> QED BY <1>1, <3>1 DEF AtMostOneTurn
  <2>3. CASE fdOf[w] # fd
    <3>1. Armed(fd)' <=> Armed(fd)
      BY <2>3 DEF Armed
    <3> QED BY <1>1, <2>1, <3>1 DEF AtMostOneTurn
  <2> QED BY <2>2, <2>3
<1> QED BY <1>2, <1>3

LEMMA MainKeepsTurns ==
  ASSUME TypeInv, TurnInv, Listen \/ \E fd \in Fds : Dispatch(fd)
  PROVE  TurnInv'
<1>a. queue \in Seq(Events) /\ interest \in [Fds -> Interests]
  BY Parts DEF PoolOK, KernelOK
<1>1. CASE Listen
  <2>1. queue' = Append(queue, AcceptEvent)
    BY <1>1 DEF Listen, WQ!Submit
  <2>2. ASSUME NEW fd \in Fds PROVE Queued(fd)' = Queued(fd)
    BY <1>a, <2>1 DEF Queued
  <2>3. ASSUME NEW fd \in Fds
        PROVE  /\ Heads(fd)' = Heads(fd) /\ (Armed(fd)' <=> Armed(fd))
               /\ gen'[fd] = gen[fd] /\ (FirstUse(fd)' <=> FirstUse(fd))
    BY <1>1 DEF Listen, Heads, Armed, FirstUse, IsConn
  <2>4. ASSUME NEW fd \in Fds, gen'[fd] = 0 PROVE Unknown(fd)'
    <3>1. Unknown(fd)
      BY <2>3, <2>4, TurnOf
    <3> QED BY <1>1, <2>2, <3>1 DEF Listen, Unknown, IsConn
  <2>5. ASSUME NEW fd \in Fds, FirstUse(fd)' PROVE AtMostOneTurn(fd)'
    <3>1. FirstUse(fd)
      BY <2>3, <2>5
    <3>2. AtMostOneTurn(fd)
      BY <3>1, TurnOf
    <3> QED BY <2>2, <2>3, <3>2 DEF AtMostOneTurn
  <2> QED BY <2>4, <2>5 DEF TurnInv, NewNumbersUnknown, FirstUseExclusive
<1>2. ASSUME NEW d \in Fds, Dispatch(d) PROVE TurnInv'
  <2> DEFINE e == [type |-> IF InReady(d) THEN "recv" ELSE "find", fd |-> d]
             n == Len(queue) + 1
  <2>1. e # AcceptEvent /\ e.fd = d
    <3>1. DOMAIN e = {"type", "fd"} /\ DOMAIN AcceptEvent = {"type"}
      BY DEF AcceptEvent
    <3> QED BY <3>1
  <2>2. queue' = Append(queue, e) /\ interest' = [interest EXCEPT ![d] = "disarmed"]
        /\ Armed(d)
    BY <1>2 DEF Dispatch, WQ!Submit, Reported, Armed
  <2> HIDE DEF e
  <2>3. ASSUME NEW fd \in Fds
        PROVE  Queued(fd)' = IF fd = d THEN Queued(fd) \cup {n} ELSE Queued(fd)
    BY <1>a, <2>1, <2>2 DEF Queued
  <2>4. ASSUME NEW fd \in Fds
        PROVE  /\ Heads(fd)' = Heads(fd) /\ gen'[fd] = gen[fd]
               /\ FirstUse(fd)' <=> FirstUse(fd)
               /\ Armed(fd)' <=> Armed(fd) /\ fd # d
    BY <1>2, <1>a, <2>2 DEF Dispatch, Heads, FirstUse, IsConn, Armed
  <2>5. ASSUME NEW fd \in Fds, gen'[fd] = 0 PROVE Unknown(fd)'
    <3>1. Unknown(fd)
      BY <2>4, <2>5, TurnOf
    <3>2. fd # d
      BY <2>2, <3>1 DEF Unknown, Armed
    <3> QED BY <1>2, <1>a, <2>2, <2>3, <3>1, <3>2 DEF Dispatch, Unknown, IsConn
  <2>6. ASSUME NEW fd \in Fds, FirstUse(fd)' PROVE AtMostOneTurn(fd)'
    <3>1. AtMostOneTurn(fd)
      <4>1. FirstUse(fd)
        BY <2>4, <2>6
      <4> QED BY <4>1, TurnOf
    <3>2. fd = d => Heads(fd) = {} /\ Queued(fd) = {}
      BY <2>2, <3>1 DEF AtMostOneTurn
    <3> QED BY <2>3, <2>4, <3>1, <3>2 DEF AtMostOneTurn
  <2> QED BY <2>5, <2>6 DEF TurnInv, NewNumbersUnknown, FirstUseExclusive
<1> QED BY <1>1, <1>2

LEMMA TakeKeepsTurns ==
  ASSUME TypeInv, TurnInv, NEW w \in Workers, Take(w)
  PROVE  TurnInv'
<1> DEFINE h == Head(queue)
<1>a. /\ queue \in Seq(Events) /\ queue # <<>> /\ queue' = Tail(queue)
      /\ pc \in [Workers -> Places] /\ fdOf \in [Workers -> Fds \cup {NoFd}]
  BY Parts DEF PoolOK, Take, WQ!Take
<1>b. /\ pc[w] = "idle" /\ pc' = [pc EXCEPT ![w] = h.type]
      /\ fdOf' = IF h = AcceptEvent THEN fdOf ELSE [fdOf EXCEPT ![w] = h.fd]
      /\ UNCHANGED <<fdUse, gen, interest>>
  BY DEF Take, At, socketVars
<1>c. h = AcceptEvent => h.type = "accept"
  BY DEF AcceptEvent
<1>d. h = queue[1] /\ Len(queue) \in Nat \ {0}
  BY <1>a
<1>e. /\ Len(queue') = Len(queue) - 1
      /\ \A i \in 1..(Len(queue) - 1) : queue'[i] = queue[i + 1]
  BY <1>a
<1> HIDE DEF h
<1>f. ASSUME NEW fd \in Fds, NEW i \in Queued(fd)'
      PROVE  i \in Nat \ {0} /\ i + 1 \in Queued(fd)
  BY <1>d, <1>e, <1>f DEF Queued
<1>g. ASSUME NEW fd \in Fds, h # AcceptEvent, h.fd = fd PROVE 1 \in Queued(fd)
  BY <1>d, <1>g DEF Queued
<1>1. ASSUME NEW fd \in Fds, gen'[fd] = 0 PROVE Unknown(fd)'
  <2>1. Unknown(fd)
    BY <1>b, <1>1, TurnOf
  <2>2. Queued(fd) = {}
    BY <2>1 DEF Unknown
  <2>3. ~(h # AcceptEvent /\ h.fd = fd)
    BY <1>g, <2>2
  <2>4. \A v \in Workers : fdOf'[v] # fd
    BY <1>a, <1>b, <2>1, <2>3 DEF Unknown
  <2>5. Queued(fd)' = {}
    BY <1>f, <2>2
  <2> QED BY <1>b, <2>1, <2>4, <2>5 DEF Unknown, IsConn
<1>2. ASSUME NEW fd \in Fds, FirstUse(fd)' PROVE AtMostOneTurn(fd)'
  <2>1. AtMostOneTurn(fd)
    <3>1. FirstUse(fd)
      BY <1>b, <1>2 DEF FirstUse, IsConn
    <3> QED BY <3>1, TurnOf
  <2>2. Armed(fd)' <=> Armed(fd)
    BY <1>b DEF Armed
  <2>3. \A i, j \in Queued(fd)' : i = j
    <3> SUFFICES ASSUME NEW i \in Queued(fd)', NEW j \in Queued(fd)' PROVE i = j
      OBVIOUS
    <3>1. i + 1 = j + 1
      BY <1>f, <2>1 DEF AtMostOneTurn
    <3> QED BY <1>f, <3>1
  <2>4. CASE h # AcceptEvent /\ h.fd = fd
    <3>1. Heads(fd) = {} /\ ~Armed(fd)
      BY <1>g, <2>1, <2>4 DEF AtMostOneTurn
    <3>2. Queued(fd)' = {}
      <4> SUFFICES ASSUME NEW i \in Queued(fd)' PROVE FALSE
        OBVIOUS
      <4>1. i + 1 = 1
        BY <1>f, <1>g, <2>1, <2>4 DEF AtMostOneTurn
      <4> QED BY <1>f, <4>1
    <3>3. Heads(fd)' \subseteq {w}
      BY <1>a, <1>b, <3>1 DEF Heads
    <3> QED BY <2>2, <3>1, <3>2, <3>3 DEF AtMostOneTurn
  <2>5. CASE ~(h # AcceptEvent /\ h.fd = fd)
    <3>1. Heads(fd)' \subseteq Heads(fd)
      BY <1>a, <1>b, <1>c, <2>5 DEF Heads, HeadPcs
    <3>2. Queued(fd) = {} => Queued(fd)' = {}
      BY <1>f
    <3> QED BY <2>1, <2>2, <2>3, <3>1, <3>2 DEF AtMostOneTurn
  <2> QED BY <2>4, <2>5
<1> QED BY <1>1, <1>2 DEF TurnInv, NewNumbersUnknown, FirstUseExclusive

LEMMA AcceptKeepsTurns ==
  ASSUME TypeInv, TurnInv, NEW w \in Workers, Accept(w)
  PROVE  TurnInv'
<1>a. /\ pc \in [Workers -> Places] /\ fdOf \in [Workers -> Fds \cup {NoFd}]
      /\ gen \in [Fds -> Nat] /\ fdUse \in [Fds -> {"free", "conn", "file", "dir"}]
  BY Parts DEF PoolOK, KernelOK
<1>b. PICK d \in Fds : /\ fdUse' = [fdUse EXCEPT ![d] = "conn"]
                       /\ gen' = [gen EXCEPT ![d] = @ + 1]
                       /\ fdOf' = [fdOf EXCEPT ![w] = d]
  BY DEF Accept
<1>c. /\ pc[w] = "accept" /\ pc' = [pc EXCEPT ![w] = "add"]
      /\ UNCHANGED <<interest, queue>>
  BY DEF Accept, At, poolVars
<1>d. ASSUME NEW fd \in Fds
      PROVE  Queued(fd)' = Queued(fd) /\ (Armed(fd)' <=> Armed(fd))
  BY <1>c DEF Queued, Armed
<1>1. ASSUME NEW fd \in Fds, gen'[fd] = 0 PROVE Unknown(fd)'
  <2>1. fd # d /\ gen[fd] = 0
    BY <1>a, <1>b, <1>1
  <2>2. Unknown(fd)
    BY <2>1, TurnOf
  <2> QED BY <1>a, <1>b, <1>c, <1>d, <2>1, <2>2 DEF Unknown, IsConn
<1>2. ASSUME NEW fd \in Fds, FirstUse(fd)' PROVE AtMostOneTurn(fd)'
  <2>1. CASE fd = d
    <3>1. gen[fd] = 0
      BY <1>a, <1>b, <1>2, <2>1 DEF FirstUse
    <3>2. Unknown(fd)
      BY <3>1, TurnOf
    <3>3. Heads(fd)' \subseteq {w} /\ Queued(fd) = {} /\ ~Armed(fd)
      BY <1>a, <1>b, <1>c, <3>2 DEF Heads, Unknown, Armed
    <3> QED BY <1>d, <3>3 DEF AtMostOneTurn
  <2>2. CASE fd # d
    <3>1. FirstUse(fd)
      BY <1>a, <1>b, <1>2, <2>2 DEF FirstUse, IsConn
    <3>2. AtMostOneTurn(fd)
      BY <3>1, TurnOf
    <3>3. Heads(fd)' \subseteq Heads(fd)
      BY <1>a, <1>b, <1>c, <2>2 DEF Heads
    <3> QED BY <1>d, <3>2, <3>3 DEF AtMostOneTurn
  <2> QED BY <2>1, <2>2
<1> QED BY <1>1, <1>2 DEF TurnInv, NewNumbersUnknown, FirstUseExclusive

LEMMA AddWaitKeepsTurns ==
  ASSUME TypeInv, TurnInv, NEW w \in Workers, AddWait(w)
  PROVE  TurnInv'
<1>1. /\ pc \in [Workers -> Places] /\ fdOf \in [Workers -> Fds \cup {NoFd}]
      /\ interest \in [Fds -> Interests]
  BY Parts DEF PoolOK, KernelOK
<1>2. /\ pc[w] \in HeadPcs /\ pc' = [pc EXCEPT ![w] = "idle"]
      /\ fdOf' = [fdOf EXCEPT ![w] = NoFd] /\ UNCHANGED <<fdUse, gen, queue>>
      /\ interest' = interest \/ interest' = [interest EXCEPT ![fdOf[w]] = "in"]
  BY DEF AddWait, At, HeadPcs, Return, WQ!Finish
<1>3. pc'[w] \notin HeadPcs
  BY <1>1, <1>2 DEF HeadPcs
<1> QED BY <1>1, <1>2, <1>3, ArmKeepsTurns

LEMMA ArmStepKeepsTurns ==
  ASSUME TypeInv, TurnInv, NEW w \in Workers,
         ArmIn(w) \/ ArmOut(w) \/ ArmPut(w) \/ RearmIn(w) \/ Rearm(w)
  PROVE  TurnInv'
<1>1. /\ pc \in [Workers -> Places] /\ fdOf \in [Workers -> Fds \cup {NoFd}]
      /\ interest \in [Fds -> Interests]
  BY Parts DEF PoolOK, KernelOK
<1>2. /\ pc[w] \in HeadPcs /\ UNCHANGED <<fdUse, gen>>
      /\ \E mask \in Interests : Modify(fdOf[w], mask)
      /\ \/ \E to \in {"check", "complete", "putBody", "closeFile"} : Goto(w, to)
         \/ Return(w)
  BY DEF ArmIn, ArmOut, ArmPut, RearmIn, Arm, Rearm, At, HeadPcs, Interests
<1>3. /\ UNCHANGED queue /\ pc'[w] \notin HeadPcs /\ fdOf'[w] \in {fdOf[w], NoFd}
      /\ \A v \in Workers \ {w} : pc'[v] = pc[v] /\ fdOf'[v] = fdOf[v]
  BY <1>1, <1>2 DEF Goto, Return, poolVars, WQ!Finish, HeadPcs
<1>4. \A fd \in Fds : fd # fdOf[w] => interest'[fd] = interest[fd]
  BY <1>1, <1>2 DEF Modify
<1> QED BY <1>2, <1>3, <1>4, ArmKeepsTurns

(* All other steps of the handlers are quiet: a handler that is before its *)
(* modifyWaitFd stays there, and none that is past it comes back.          *)
LEMMA RecvKeepsTurns ==
  ASSUME TypeInv, TurnInv, NEW w \in Workers, RecvStep(w)
  PROVE  TurnInv'
<1> DEFINE Still == UNCHANGED <<fdUse, gen, interest>>
<1>a. ASSUME Moves(w), Still PROVE TurnInv'
  BY <1>a, MovesQuiet, QuietKeepsTurns
<1>b. ASSUME NEW place \in Places, Goto(w, place), pc[w] \in HeadPcs
      PROVE  Moves(w)
  BY <1>b DEF Moves
<1>1. CASE RecvData(w) \/ RecvEnds(w) \/ RecvBlocks(w) \/ OpenUpload(w)
           \/ SaveContent(w) \/ ParseMore(w)
  <2>1. pc[w] \in HeadPcs
    BY <1>1 DEF RecvData, RecvEnds, RecvBlocks, OpenUpload, SaveContent, ParseMore,
       Uploads, Parses, At, HeadPcs
  <2>2. \E place \in Places : Goto(w, place)
    BY <1>1 DEF RecvData, RecvEnds, RecvBlocks, OpenUpload, SaveContent, ParseMore,
       Places, RecvPcs
  <2>3. Still
    BY <1>1 DEF RecvData, RecvEnds, RecvBlocks, OpenUpload, SaveContent, ParseMore,
       parseVars, socketVars, kernelVars
  <2> QED BY <1>a, <1>b, <2>1, <2>2, <2>3
<1>2. CASE ParseLine(w) \/ ParseHeader(w) \/ ParseBoundary(w) \/ ParseFileHead(w)
           \/ ParseGet(w) \/ ParsePut(w) \/ ParsePost(w)
  <2>1. pc[w] \in HeadPcs
    BY <1>2 DEF ParseLine, ParseHeader, ParseBoundary, ParseFileHead, ParseGet,
       ParsePut, ParsePost, Uploads, Parses, At, HeadPcs
  <2>2. \E place \in Places : Goto(w, place)
    BY <1>2 DEF ParseLine, ParseHeader, ParseBoundary, ParseFileHead, ParseGet,
       ParsePut, ParsePost, Respond, SetResponse, Places, RecvPcs
  <2>3. Still
    BY <1>2 DEF ParseLine, ParseHeader, ParseBoundary, ParseFileHead, ParseGet,
       ParsePut, ParsePost, parseVars, socketVars
  <2> QED BY <1>a, <1>b, <2>1, <2>2, <2>3
<1>3. CASE Complete(w) \/ PutBody(w) \/ Check(w) \/ EraseRequest(w)
  <2>1. Return(w) \/ \E place \in Places \ HeadPcs : Goto(w, place)
    BY <1>3 DEF Complete, PutBody, Check, EraseRequest, Places, RecvPcs, HeadPcs
  <2>2. Still
    BY <1>3 DEF Complete, PutBody, Check, EraseRequest, parseVars, socketVars
  <2> QED BY <1>a, <2>1, <2>2 DEF Moves
<1>4. CASE CloseConn(w)
  <2>1. Quiet
    BY <1>4, Parts
       DEF CloseConn, CloseFd, Goto, poolVars, Quiet, IsConn, HeadPcs, PoolOK, KernelOK
  <2> QED BY <2>1, QuietKeepsTurns
<1>5. CASE ArmIn(w) \/ ArmOut(w) \/ ArmPut(w)
  BY <1>5, ArmStepKeepsTurns
<1> QED BY <1>1, <1>2, <1>3, <1>4, <1>5 DEF RecvStep

LEMMA SendKeepsTurns ==
  ASSUME TypeInv, TurnInv, NEW w \in Workers, SendStep(w)
  PROVE  TurnInv'
<1> DEFINE Still == UNCHANGED <<fdUse, gen, interest>>
<1>a. ASSUME Moves(w), Still PROVE TurnInv'
  BY <1>a, MovesQuiet, QuietKeepsTurns
<1>b. ASSUME NEW place \in Places, Goto(w, place), pc[w] \in HeadPcs
      PROVE  Moves(w)
  BY <1>b DEF Moves
<1>1. CASE FindResponse(w) \/ SendFails(w) \/ SendBlocks(w) \/ SendTail(w)
           \/ EraseResponse(w)
  <2>1. pc[w] \in HeadPcs
    BY <1>1 DEF FindResponse, SendFails, SendBlocks, SendWorks, SendTail,
       EraseResponse, Sends, At, HeadPcs
  <2>2. Return(w) \/ \E place \in Places : Goto(w, place)
    BY <1>1 DEF FindResponse, SendFails, SendBlocks, SendTail, EraseResponse,
       SetResponse, Places, SendPcs
  <2>3. Still
    BY <1>1 DEF FindResponse, SendFails, SendBlocks, SendTail, EraseResponse,
       sendVars, socketVars, kernelVars
  <2> QED BY <1>a, <1>b, <2>1, <2>2, <2>3 DEF Moves
<1>2. CASE BuildRedirect(w) \/ BuildFileFails(w) \/ BuildDelete(w) \/ BuildPut(w)
  <2>1. pc[w] \in HeadPcs
    BY <1>2 DEF BuildRedirect, BuildFileFails, BuildDelete, BuildPut,
       Builds, At, HeadPcs
  <2>2. \E place \in Places : Goto(w, place)
    BY <1>2 DEF BuildRedirect, BuildFileFails, BuildDelete, BuildPut,
       Built, Replaced, SetResponse, Places, SendPcs
  <2>3. Still
    BY <1>2 DEF BuildRedirect, BuildFileFails, BuildDelete, BuildPut,
       sendVars, socketVars
  <2> QED BY <1>a, <1>b, <2>1, <2>2, <2>3
<1>3. CASE SendHead(w) \/ SendBody(w) \/ SendEmpty(w) \/ SendSpins(w)
  <2>1. pc[w] \in HeadPcs
    BY <1>3 DEF SendHead, SendBody, SendEmpty, SendSpins, At, HeadPcs
  <2>2. \E place \in Places : Goto(w, place)
    BY <1>3 DEF SendHead, SendBody, SendEmpty, SendSpins, SetResponse, Places,
       SendPcs
  <2>3. Still
    BY <1>3 DEF SendHead, SendBody, SendEmpty, SendSpins, Transmits, sendVars,
       socketVars, kernelVars
  <2> QED BY <1>a, <1>b, <2>1, <2>2, <2>3
<1>4. CASE BuildThrows(w) \/ BuildPageDies(w) \/ SendKills(w)
  <2>1. Quiet
    BY <1>4 DEF BuildThrows, BuildPageDies, SendKills, socketVars, poolVars, Quiet,
       IsConn
  <2> QED BY <2>1, QuietKeepsTurns
<1>5. CASE BuildFile(w) \/ BuildPage(w)
  <2>1. /\ pc \in [Workers -> Places] /\ fdUse \in [Fds -> {"free", "conn", "file", "dir"}]
        /\ pc[w] = "build" /\ pc' = [pc EXCEPT ![w] = "send"]
        /\ UNCHANGED <<gen, interest, queue, fdOf>>
        /\ \E f \in Fds, use \in {"file", "dir"} :
             fdUse' = [fdUse EXCEPT ![f] = use]
    BY <1>5, Parts DEF BuildFile, BuildPage, Built, Builds, At, SetResponse, Goto,
       poolVars, PoolOK, KernelOK
  <2>2. Quiet
    BY <2>1 DEF Quiet, IsConn, HeadPcs
  <2> QED BY <2>2, QuietKeepsTurns
<1>6. CASE CloseFile(w)
  <2>1. /\ pc \in [Workers -> Places] /\ fdOf \in [Workers -> Fds \cup {NoFd}]
        /\ pc' = [pc EXCEPT ![w] = "idle"] /\ fdOf' = [fdOf EXCEPT ![w] = NoFd]
        /\ UNCHANGED queue
    BY <1>6, Parts DEF CloseFile, Return, WQ!Finish, PoolOK
  <2>2. /\ fdUse \in [Fds -> {"free", "conn", "file", "dir"}]
        /\ interest \in [Fds -> Interests]
        /\ \/ UNCHANGED <<fdUse, gen, interest>>
           \/ \E f \in Fds : /\ fdUse' = [fdUse EXCEPT ![f] = "free"]
                             /\ interest' = [interest EXCEPT ![f] = "off"]
                             /\ gen' = gen
    BY <1>6, Parts DEF CloseFile, CloseFd, socketVars, KernelOK
  <2>3. gen' = gen /\ \A fd \in Fds : /\ interest'[fd] \in {interest[fd], "off"}
                                      /\ IsConn(fd)' => IsConn(fd)
    BY <2>2 DEF IsConn
  <2>4. Quiet
    BY <2>1, <2>3 DEF Quiet, HeadPcs
  <2> QED BY <2>4, QuietKeepsTurns
<1>7. CASE RearmIn(w) \/ Rearm(w)
  BY <1>7, ArmStepKeepsTurns
<1> QED BY <1>1, <1>2, <1>3, <1>4, <1>5, <1>6, <1>7 DEF SendStep

LEMMA TurnInvStep == TypeInv /\ TurnInv /\ [Next]_vars => TurnInv'
<1> SUFFICES ASSUME TypeInv, TurnInv, [Next]_vars PROVE TurnInv'
  OBVIOUS
<1>1. MainListens \/ (\E fd \in Fds : MainDispatches(fd)) => TurnInv'
  BY MainKeepsTurns DEF MainListens, MainDispatches
<1>2. ClientConnects \/ (\E fd \in Fds : ClientSteps(fd)) \/ UNCHANGED vars => Quiet
  BY DEF ClientConnects, Connect, ClientSteps, ClientStep, Ask, ClientSends,
     ClientReads, ClientCloses, ClientResets, kernelVars, programVars, vars,
     socketVars, Quiet, IsConn
<1>3. ASSUME NEW w \in Workers, WorkerSteps(w) PROVE TurnInv'
  <2>1. CASE AcceptFails(w)
    <3>1. Moves(w) /\ UNCHANGED <<fdUse, gen, interest>>
      BY <2>1 DEF AcceptFails, socketVars, Moves
    <3> QED BY <3>1, MovesQuiet, QuietKeepsTurns
  <2> QED BY <1>3, <2>1, TakeKeepsTurns, AcceptKeepsTurns, AddWaitKeepsTurns,
             RecvKeepsTurns, SendKeepsTurns DEF WorkerSteps, HandlerStep
<1> QED BY <1>1, <1>2, <1>3, QuietKeepsTurns DEF Next

LEMMA TurnInvInit == Init => TurnInv
<1> SUFFICES ASSUME Init PROVE TurnInv
  OBVIOUS
<1>1. ASSUME NEW fd \in Fds PROVE Unknown(fd) /\ ~FirstUse(fd)
  BY ReactorAssumption
     DEF Init, SocketsInit, WQ!Init, Unknown, IsConn, Queued, FirstUse
<1> QED BY <1>1 DEF TurnInv, NewNumbersUnknown, FirstUseExclusive

(* EPOLLONESHOT passes the turn on a connection as long as it is the first *)
(* on its number: for any number of workers, connections and requests, and *)
(* whatever clients do, no two of its handlers parse, answer or send at    *)
(* the same time.  What a handler still does after its modifyWaitFd (the   *)
(* status and the erase at the end of HandleRecv, closeFile) is not        *)
(* protected by this, and runs wrong_answer and file_closed show it.       *)
THEOREM FirstUseIsExclusive == Safety => []FirstUseExclusive
<1>1. TurnInv => FirstUseExclusive
  BY DEF TurnInv
<1> QED BY <1>1, TurnInvInit, TurnInvStep, TypeInvAlways, PTL DEF Safety
=============================================================================
