------------------------ MODULE ReactorAcceptProofs ------------------------
(***************************************************************************)
(* Every accept event finds a connection, for any number of workers and    *)
(* connections: AcceptConn never calls accept in vain.                     *)
(***************************************************************************)
EXTENDS ReactorProofs, FiniteSetTheorems

(* AcceptFindsConnection is not inductive: an edge epoll has yet to report *)
(* will become an accept event, and must have its own connection.          *)
Edge == IF listenEdge THEN 1 ELSE 0
Calls == Cardinality(Accepting) + Cardinality(AcceptEvents) + Edge
AcceptsCovered == Calls <= backlog

LEMMA AcceptSets ==
  ASSUME TypeInv
  PROVE  /\ IsFiniteSet(Accepting) /\ Cardinality(Accepting) \in Nat
         /\ IsFiniteSet(AcceptEvents) /\ Cardinality(AcceptEvents) \in Nat
         /\ Edge \in Nat /\ backlog \in Nat
<1>1. Accepting \in SUBSET Workers
  BY DEF Accepting
<1>2. AcceptEvents \in SUBSET (1..Len(queue)) /\ Len(queue) \in Nat
  BY Parts DEF AcceptEvents, PoolOK
<1>3. IsFiniteSet(Accepting)
  BY <1>1, ReactorAssumption, FS_Subset
<1>4. IsFiniteSet(1..Len(queue))
  BY <1>2, FS_Interval
<1>5. IsFiniteSet(AcceptEvents)
  BY <1>2, <1>4, FS_Subset
<1> QED BY <1>3, <1>5, FS_CardinalityType, Parts DEF Edge, KernelOK

(* A step that makes no accept event and takes no connection.              *)
Idle == /\ UNCHANGED <<queue, backlog, listenEdge>>
        /\ \A w \in Workers : pc'[w] = "accept" => pc[w] = "accept"

LEMMA IdleKeepsCovered ==
  ASSUME TypeInv, AcceptsCovered, Idle PROVE AcceptsCovered'
<1>1. Accepting' \in SUBSET Accepting
  BY DEF Accepting, Idle
<1>2. Cardinality(Accepting') <= Cardinality(Accepting) /\ Cardinality(Accepting') \in Nat
  BY <1>1, AcceptSets, FS_Subset, FS_CardinalityType
<1>3. AcceptEvents' = AcceptEvents /\ Edge' = Edge /\ backlog' = backlog
  BY DEF AcceptEvents, Edge, Idle
<1> QED BY <1>2, <1>3, AcceptSets DEF AcceptsCovered, Calls

(* The first event leaves the queue: the others move up.                   *)
LEMMA TailEvents ==
  ASSUME TypeInv, queue # <<>>, queue' = Tail(queue)
  PROVE  Cardinality(AcceptEvents') =
           Cardinality(AcceptEvents) - (IF Head(queue) = AcceptEvent THEN 1 ELSE 0)
<1> DEFINE Rest == AcceptEvents \ {1}
           f == [i \in Rest |-> i - 1]
<1>1. /\ queue \in Seq(Events) /\ Len(queue) \in Nat \ {0} /\ Head(queue) = queue[1]
      /\ Len(queue') = Len(queue) - 1
      /\ \A i \in 1..(Len(queue) - 1) : queue'[i] = queue[i + 1]
  BY Parts DEF PoolOK
<1>2. Rest \subseteq Nat \ {0, 1}
  BY <1>1 DEF AcceptEvents
<1>3. \A i \in Rest : i - 1 \in AcceptEvents'
  BY <1>1 DEF AcceptEvents
<1>4. \A j \in AcceptEvents' : j \in Nat /\ j + 1 \in Rest
  BY <1>1 DEF AcceptEvents
<1>5. f \in [Rest -> AcceptEvents']
  BY <1>3
<1>6. \A a, b \in Rest : f[a] = f[b] => a = b
  BY <1>2
<1>7. \A j \in AcceptEvents' : \E i \in Rest : f[i] = j
  <2> SUFFICES ASSUME NEW j \in AcceptEvents' PROVE \E i \in Rest : f[i] = j
    OBVIOUS
  <2>1. j + 1 \in Rest /\ f[j + 1] = j
    BY <1>4
  <2> QED BY <2>1
<1>8. ExistsBijection(Rest, AcceptEvents')
  <2> HIDE DEF f, Rest
  <2>1. f \in Injection(Rest, AcceptEvents')
    BY <1>5, <1>6 DEF Injection, IsInjective
  <2>2. f \in Surjection(Rest, AcceptEvents')
    BY <1>5, <1>7 DEF Surjection
  <2> QED BY <2>1, <2>2 DEF Bijection, ExistsBijection
<1>9. IsFiniteSet(Rest) /\ Cardinality(Rest) = IF 1 \in AcceptEvents
                                               THEN Cardinality(AcceptEvents) - 1
                                               ELSE Cardinality(AcceptEvents)
  BY AcceptSets, FS_RemoveElement
<1>10. Cardinality(AcceptEvents') = Cardinality(Rest)
  BY <1>8, <1>9, FS_Bijection
<1>11. 1 \in AcceptEvents <=> Head(queue) = AcceptEvent
  BY <1>1 DEF AcceptEvents
<1> QED BY <1>9, <1>10, <1>11, AcceptSets

-----------------------------------------------------------------------------
LEMMA MainKeepsCovered ==
  ASSUME TypeInv, AcceptsCovered, Listen \/ \E fd \in Fds : Dispatch(fd)
  PROVE  AcceptsCovered'
<1>a. queue \in Seq(Events) /\ Len(queue) \in Nat
  BY Parts DEF PoolOK
<1>1. CASE Listen
  <2> DEFINE n == Len(queue) + 1
  <2>1. queue' = Append(queue, AcceptEvent)
    BY <1>1 DEF Listen, WQ!Submit
  <2>2. AcceptEvents' = AcceptEvents \cup {n} /\ n \notin AcceptEvents
    BY <1>a, <2>1 DEF AcceptEvents
  <2>3. Cardinality(AcceptEvents') = Cardinality(AcceptEvents) + 1
    BY <2>2, AcceptSets, FS_AddElement
  <2>4. Accepting' = Accepting /\ Edge = 1 /\ Edge' = 0 /\ backlog' = backlog
    BY <1>1 DEF Listen, Accepting, Edge
  <2> QED BY <2>3, <2>4, AcceptSets DEF AcceptsCovered, Calls
<1>2. ASSUME NEW d \in Fds, Dispatch(d) PROVE AcceptsCovered'
  <2> DEFINE e == [type |-> IF InReady(d) THEN "recv" ELSE "find", fd |-> d]
  <2>1. e # AcceptEvent
    <3>1. DOMAIN e = {"type", "fd"} /\ DOMAIN AcceptEvent = {"type"}
      BY DEF AcceptEvent
    <3> QED BY <3>1
  <2>2. queue' = Append(queue, e)
    BY <1>2 DEF Dispatch, WQ!Submit
  <2> HIDE DEF e
  <2>3. AcceptEvents' = AcceptEvents
    BY <1>a, <2>1, <2>2 DEF AcceptEvents
  <2>4. Accepting' = Accepting /\ Edge' = Edge /\ backlog' = backlog
    BY <1>2 DEF Dispatch, Accepting, Edge
  <2> QED BY <2>3, <2>4 DEF AcceptsCovered, Calls
<1> QED BY <1>1, <1>2

LEMMA TakeKeepsCovered ==
  ASSUME TypeInv, AcceptsCovered, NEW w \in Workers, Take(w)
  PROVE  AcceptsCovered'
<1>1. /\ queue # <<>> /\ queue' = Tail(queue) /\ pc[w] = "idle"
      /\ pc' = [pc EXCEPT ![w] = Head(queue).type]
      /\ UNCHANGED <<backlog, listenEdge>>
  BY DEF Take, At, WQ!Take, socketVars
<1>2. pc \in [Workers -> Places] /\ queue \in Seq(Events)
  BY Parts DEF PoolOK
<1>3. Head(queue) \in Events
  BY <1>1, <1>2
<1>4. Head(queue) = AcceptEvent <=> Head(queue).type = "accept"
  BY <1>3 DEF Events, AcceptEvent
<1>5. Edge' = Edge /\ w \notin Accepting
  BY <1>1 DEF Edge, Accepting
<1>6. CASE Head(queue) = AcceptEvent
  <2>1. Accepting' = Accepting \cup {w}
    BY <1>1, <1>2, <1>4, <1>6 DEF Accepting
  <2>2. Cardinality(Accepting') = Cardinality(Accepting) + 1
    BY <1>5, <2>1, AcceptSets, FS_AddElement
  <2> QED BY <1>1, <1>5, <1>6, <2>2, AcceptSets, TailEvents DEF AcceptsCovered, Calls
<1>7. CASE Head(queue) # AcceptEvent
  <2>1. Accepting' = Accepting
    BY <1>1, <1>2, <1>4, <1>7 DEF Accepting
  <2> QED BY <1>1, <1>5, <1>7, <2>1, AcceptSets, TailEvents DEF AcceptsCovered, Calls
<1> QED BY <1>6, <1>7

LEMMA AcceptKeepsCovered ==
  ASSUME TypeInv, AcceptsCovered, NEW w \in Workers, Accept(w)
  PROVE  AcceptsCovered'
<1>1. /\ pc[w] = "accept" /\ pc' = [pc EXCEPT ![w] = "add"]
      /\ backlog' = backlog - 1 /\ UNCHANGED <<queue, listenEdge>>
  BY DEF Accept, At, poolVars
<1>2. pc \in [Workers -> Places]
  BY Parts DEF PoolOK
<1>3. w \in Accepting /\ Accepting' = Accepting \ {w}
  BY <1>1, <1>2 DEF Accepting
<1>4. Cardinality(Accepting') = Cardinality(Accepting) - 1
  BY <1>3, AcceptSets, FS_RemoveElement
<1>5. AcceptEvents' = AcceptEvents /\ Edge' = Edge
  BY <1>1 DEF AcceptEvents, Edge
<1> QED BY <1>1, <1>4, <1>5, AcceptSets DEF AcceptsCovered, Calls

(* A handler that leaves its place does not come to accept.                *)
LEMMA LeavesIdle ==
  ASSUME TypeInv, NEW w \in Workers,
         Return(w) \/ \E place \in Places \ {"accept"} : Goto(w, place),
         UNCHANGED <<backlog, listenEdge>>
  PROVE  Idle
<1>1. pc \in [Workers -> Places]
  BY Parts DEF PoolOK
<1>2. UNCHANGED queue /\ \E place \in Places \ {"accept"} : pc' = [pc EXCEPT ![w] = place]
  BY DEF Return, Goto, poolVars, WQ!Finish, Places
<1> QED BY <1>1, <1>2 DEF Idle

LEMMA RecvIdle == ASSUME TypeInv, NEW w \in Workers, RecvStep(w) PROVE Idle
<1>1. UNCHANGED <<backlog, listenEdge>>
  <2>1. RecvData(w) \/ RecvEnds(w) \/ RecvBlocks(w) \/ OpenUpload(w) \/ SaveContent(w)
        \/ ParseMore(w) => UNCHANGED <<backlog, listenEdge>>
    BY DEF RecvData, RecvEnds, RecvBlocks, OpenUpload, SaveContent, ParseMore,
       parseVars, socketVars, kernelVars
  <2>2. ParseLine(w) \/ ParseHeader(w) \/ ParseBoundary(w) \/ ParseFileHead(w)
        \/ ParseGet(w) \/ ParsePut(w) \/ ParsePost(w) => UNCHANGED <<backlog, listenEdge>>
    BY DEF ParseLine, ParseHeader, ParseBoundary, ParseFileHead, ParseGet,
       ParsePut, ParsePost, parseVars, socketVars
  <2>3. ArmIn(w) \/ ArmOut(w) \/ ArmPut(w) \/ Complete(w) \/ PutBody(w) \/ Check(w)
        \/ CloseConn(w) \/ EraseRequest(w) => UNCHANGED <<backlog, listenEdge>>
    BY DEF ArmIn, ArmOut, ArmPut, Arm, Complete, PutBody, Check, CloseConn, CloseFd,
       EraseRequest, parseVars, socketVars
  <2> QED BY <2>1, <2>2, <2>3 DEF RecvStep
<1>2. Return(w) \/ \E place \in RecvPcs : Goto(w, place)
  <2>1. RecvData(w) \/ RecvEnds(w) \/ RecvBlocks(w) \/ OpenUpload(w) \/ SaveContent(w)
        \/ ParseMore(w) => \E place \in RecvPcs : Goto(w, place)
    BY DEF RecvData, RecvEnds, RecvBlocks, OpenUpload, SaveContent, ParseMore, RecvPcs
  <2>2. ParseLine(w) \/ ParseHeader(w) \/ ParseBoundary(w) \/ ParseFileHead(w)
        \/ ParseGet(w) \/ ParsePut(w) \/ ParsePost(w)
        => \E place \in RecvPcs : Goto(w, place)
    BY DEF ParseLine, ParseHeader, ParseBoundary, ParseFileHead, ParseGet,
       ParsePut, ParsePost, Respond, SetResponse, RecvPcs
  <2>3. ArmIn(w) \/ ArmOut(w) \/ ArmPut(w) \/ Complete(w) \/ PutBody(w) \/ Check(w)
        \/ CloseConn(w) \/ EraseRequest(w)
        => Return(w) \/ \E place \in RecvPcs : Goto(w, place)
    BY DEF ArmIn, ArmOut, ArmPut, Arm, Complete, PutBody, Check, CloseConn,
       EraseRequest, RecvPcs
  <2> QED BY <2>1, <2>2, <2>3 DEF RecvStep
<1>3. RecvPcs \subseteq Places \ {"accept"}
  BY DEF Places, RecvPcs
<1> QED BY <1>1, <1>2, <1>3, LeavesIdle

LEMMA SendIdle == ASSUME TypeInv, NEW w \in Workers, SendStep(w) PROVE Idle
<1>1. CASE BuildThrows(w) \/ BuildPageDies(w) \/ SendKills(w)
  BY <1>1 DEF BuildThrows, BuildPageDies, SendKills, socketVars, poolVars, Idle
<1>2. CASE ~(BuildThrows(w) \/ BuildPageDies(w) \/ SendKills(w))
  <2>1. UNCHANGED <<backlog, listenEdge>>
    <3>1. FindResponse(w) \/ BuildPage(w) \/ BuildRedirect(w) \/ BuildFile(w)
          \/ BuildFileFails(w) \/ BuildDelete(w) \/ BuildPut(w)
          => UNCHANGED <<backlog, listenEdge>>
      BY DEF FindResponse, BuildPage, BuildRedirect, BuildFile, BuildFileFails,
         BuildDelete, BuildPut, sendVars, socketVars
    <3>2. SendFails(w) \/ SendBlocks(w) \/ SendHead(w) \/ SendBody(w) \/ SendEmpty(w)
          \/ SendSpins(w) => UNCHANGED <<backlog, listenEdge>>
      BY DEF SendFails, SendBlocks, SendHead, SendBody, SendEmpty, SendSpins,
         Transmits, sendVars, socketVars, kernelVars
    <3>3. SendTail(w) \/ EraseResponse(w) \/ RearmIn(w) \/ CloseFile(w) \/ Rearm(w)
          => UNCHANGED <<backlog, listenEdge>>
      BY DEF SendTail, EraseResponse, RearmIn, Arm, CloseFile, CloseFd, Rearm,
         sendVars, socketVars
    <3> QED BY <1>2, <3>1, <3>2, <3>3 DEF SendStep
  <2>2. Return(w) \/ \E place \in SendPcs : Goto(w, place)
    <3>1. FindResponse(w) \/ BuildPage(w) \/ BuildRedirect(w) \/ BuildFile(w)
          \/ BuildFileFails(w) \/ BuildDelete(w) \/ BuildPut(w)
          => Return(w) \/ \E place \in SendPcs : Goto(w, place)
      BY DEF FindResponse, BuildPage, BuildRedirect, BuildFile, BuildFileFails,
         BuildDelete, BuildPut, Built, Replaced, SetResponse, SendPcs
    <3>2. SendFails(w) \/ SendBlocks(w) \/ SendHead(w) \/ SendBody(w) \/ SendEmpty(w)
          \/ SendSpins(w) => \E place \in SendPcs : Goto(w, place)
      BY DEF SendFails, SendBlocks, SendHead, SendBody, SendEmpty, SendSpins,
         SetResponse, SendPcs
    <3>3. SendTail(w) \/ EraseResponse(w) \/ RearmIn(w) \/ CloseFile(w) \/ Rearm(w)
          => Return(w) \/ \E place \in SendPcs : Goto(w, place)
      BY DEF SendTail, EraseResponse, RearmIn, Arm, CloseFile, Rearm, SetResponse,
         SendPcs
    <3> QED BY <1>2, <3>1, <3>2, <3>3 DEF SendStep
  <2>3. SendPcs \subseteq Places \ {"accept"}
    BY DEF Places, SendPcs
  <2> QED BY <2>1, <2>2, <2>3, LeavesIdle
<1> QED BY <1>1, <1>2

LEMMA CoveredStep == TypeInv /\ AcceptsCovered /\ [Next]_vars => AcceptsCovered'
<1> SUFFICES ASSUME TypeInv, AcceptsCovered, [Next]_vars PROVE AcceptsCovered'
  OBVIOUS
<1>1. MainListens \/ (\E fd \in Fds : MainDispatches(fd)) => AcceptsCovered'
  BY MainKeepsCovered DEF MainListens, MainDispatches
<1>2. (\E fd \in Fds : ClientSteps(fd)) \/ UNCHANGED vars => Idle
  BY DEF ClientSteps, ClientStep, Ask, ClientSends, ClientReads, ClientCloses,
     ClientResets, kernelVars, programVars, vars, socketVars, Idle
<1>3. CASE ClientConnects
  <2>1. Accepting' = Accepting /\ AcceptEvents' = AcceptEvents
    BY <1>3 DEF ClientConnects, programVars, Accepting, AcceptEvents
  <2>2. backlog' = backlog + 1 /\ Edge' = 1 /\ Edge \in {0, 1}
    BY <1>3 DEF ClientConnects, Connect, Edge
  <2> QED BY <2>1, <2>2, AcceptSets DEF AcceptsCovered, Calls
<1>4. ASSUME NEW w \in Workers, WorkerSteps(w) PROVE AcceptsCovered'
  <2>1. AcceptFails(w) => Idle
    BY LeavesIdle DEF AcceptFails, socketVars
  <2>2. AddWait(w) => Idle
    BY LeavesIdle DEF AddWait
  <2> QED BY <1>4, <2>1, <2>2, RecvIdle, SendIdle, IdleKeepsCovered,
             TakeKeepsCovered, AcceptKeepsCovered DEF WorkerSteps, HandlerStep
<1> QED BY <1>1, <1>2, <1>3, <1>4, IdleKeepsCovered DEF Next

(* epoll reports the listening socket again only for connections that came *)
(* after its last report, and AcceptConn takes one for each report, so the *)
(* accept of an event never finds the queue of the socket empty.           *)
THEOREM AcceptsFindConnections == Safety => []AcceptFindsConnection
<1>1. Init => AcceptsCovered
  <2> SUFFICES ASSUME Init PROVE AcceptsCovered
    OBVIOUS
  <2>1. Accepting = {} /\ AcceptEvents = {} /\ Edge = 0 /\ backlog = 0
    BY DEF Init, SocketsInit, WQ!Init, Accepting, AcceptEvents, Edge
  <2> QED BY <2>1, FS_EmptySet DEF AcceptsCovered, Calls
<1>2. TypeInv /\ AcceptsCovered => AcceptFindsConnection
  BY AcceptSets DEF AcceptsCovered, Calls, AcceptFindsConnection
<1> QED BY <1>1, <1>2, CoveredStep, TypeInvAlways, PTL DEF Safety
=============================================================================
