-------------------------- MODULE ThreadPoolProofs --------------------------
(***************************************************************************)
(* What the thread pool guarantees for every number of workers and of      *)
(* events: the types of its state, the exclusive use of its queue, and     *)
(* that the semaphore accounts for what the queue holds.                   *)
(***************************************************************************)
EXTENDS ThreadPool, FiniteSetTheorems, TLAPS

(* The queue only gets events because appendEvent has one to push.         *)
AppendsEvent == mainPc \in {"lock", "push"} => mainEvent \in Events
TypeInv == TypeOK /\ AppendsEvent

(* TypeInv is inductive: one case for each call of the two threads.        *)
LEMMA TypeInvStep == TypeInv /\ [Next]_vars => TypeInv'
<1> SUFFICES ASSUME TypeInv, [Next]_vars PROVE TypeInv'
  OBVIOUS
<1> USE PoolAssumption DEF TypeInv, TypeOK, AppendsEvent, MainPcs, WorkerPcs,
        MainGoes, WorkerGoes, mainVars
<1>1. ASSUME NEW e \in Events, NewEvent(e) PROVE TypeInv'
  BY <1>1 DEF NewEvent
<1>2. CASE AppendLock
  BY <1>2 DEF AppendLock
<1>3. CASE AppendPush
  BY <1>3 DEF AppendPush
<1>4. CASE AppendUnlock
  BY <1>4 DEF AppendUnlock
<1>5. CASE AppendPost
  BY <1>5 DEF AppendPost
<1>6. ASSUME NEW w \in Workers, SemWait(w) PROVE TypeInv'
  BY <1>6 DEF SemWait
<1>7. ASSUME NEW w \in Workers, SemWaitFails(w) PROVE TypeInv'
  BY <1>7 DEF SemWaitFails
<1>8. ASSUME NEW w \in Workers, RunLock(w) PROVE TypeInv'
  BY <1>8 DEF RunLock
<1>9. ASSUME NEW w \in Workers, RunPop(w) PROVE TypeInv'
  <2>1. CASE workQueue = <<>>
    BY <1>9, <2>1 DEF RunPop
  <2>2. CASE workQueue # <<>>
    <3>1. Head(workQueue) \in Events /\ Tail(workQueue) \in Seq(Events)
      BY <2>2
    <3> QED BY <1>9, <2>2, <3>1 DEF RunPop
  <2> QED BY <2>1, <2>2
<1>10. ASSUME NEW w \in Workers, RunUnlock(w) PROVE TypeInv'
  BY <1>10 DEF RunUnlock
<1>11. ASSUME NEW w \in Workers, RunProcess(w) PROVE TypeInv'
  BY <1>11 DEF RunProcess
<1>12. ASSUME NEW w \in Workers, RunDelete(w) PROVE TypeInv'
  BY <1>12 DEF RunDelete
<1>13. CASE UNCHANGED vars
  BY <1>13 DEF vars
<1> QED BY <1>1, <1>2, <1>3, <1>4, <1>5, <1>6, <1>7, <1>8, <1>9, <1>10, <1>11,
           <1>12, <1>13 DEF Next, MainStep, RunStep

LEMMA TypeInvAlways == Safety => []TypeInv
<1>1. Init => TypeInv
  BY PoolAssumption DEF Init, TypeInv, TypeOK, AppendsEvent, MainPcs, WorkerPcs
<1> QED BY <1>1, TypeInvStep, PTL DEF Safety

(* Every variable of the pool has its type, throughout: what is queued,    *)
(* handed over and deleted is an event and never the null pointer, and the *)
(* semaphore never goes below zero.                                        *)
THEOREM TypeCorrect == Safety => []TypeOK
<1>1. TypeInv => TypeOK
  BY DEF TypeInv
<1> QED BY <1>1, TypeInvAlways, PTL

-----------------------------------------------------------------------------
(* The mutex belongs to whoever is between its lock and its unlock.  This  *)
(* is inductive where QueueExclusive is not: it tells a thread that comes  *)
(* to the mutex who is inside.                                             *)
LockHeld == /\ InQueueMain <=> queueLocker = "main"
            /\ \A w \in Workers : InQueue(w) <=> queueLocker = w

LEMMA LockHeldStep == TypeOK /\ LockHeld /\ [Next]_vars => LockHeld'
<1> SUFFICES ASSUME TypeOK, LockHeld, [Next]_vars PROVE LockHeld'
  OBVIOUS
<1> USE PoolAssumption DEF TypeOK, LockHeld, InQueue, InQueueMain, MainPcs,
        WorkerPcs, MainGoes, WorkerGoes, mainVars
<1>1. ASSUME NEW e \in Events, NewEvent(e) PROVE LockHeld'
  BY <1>1 DEF NewEvent
<1>2. CASE AppendLock
  BY <1>2 DEF AppendLock
<1>3. CASE AppendPush
  BY <1>3 DEF AppendPush
<1>4. CASE AppendUnlock
  BY <1>4 DEF AppendUnlock
<1>5. CASE AppendPost
  BY <1>5 DEF AppendPost
<1>6. ASSUME NEW w \in Workers, SemWait(w) PROVE LockHeld'
  BY <1>6 DEF SemWait
<1>7. ASSUME NEW w \in Workers, SemWaitFails(w) PROVE LockHeld'
  BY <1>7 DEF SemWaitFails
<1>8. ASSUME NEW w \in Workers, RunLock(w) PROVE LockHeld'
  BY <1>8 DEF RunLock
<1>9. ASSUME NEW w \in Workers, RunPop(w) PROVE LockHeld'
  BY <1>9 DEF RunPop
<1>10. ASSUME NEW w \in Workers, RunUnlock(w) PROVE LockHeld'
  BY <1>10 DEF RunUnlock
<1>11. ASSUME NEW w \in Workers, RunProcess(w) PROVE LockHeld'
  BY <1>11 DEF RunProcess
<1>12. ASSUME NEW w \in Workers, RunDelete(w) PROVE LockHeld'
  BY <1>12 DEF RunDelete
<1>13. CASE UNCHANGED vars
  BY <1>13 DEF vars
<1> QED BY <1>1, <1>2, <1>3, <1>4, <1>5, <1>6, <1>7, <1>8, <1>9, <1>10, <1>11,
           <1>12, <1>13 DEF Next, MainStep, RunStep

LEMMA LockAlwaysHeld == Safety => []LockHeld
<1>1. Init => LockHeld
  BY PoolAssumption DEF Init, LockHeld, InQueue, InQueueMain
<1> QED BY <1>1, LockHeldStep, TypeCorrect, PTL DEF Safety

(* push, front and pop of the std::queue never overlap, however many       *)
(* threads there are.                                                      *)
THEOREM QueueIsExclusive == Safety => []QueueExclusive
<1>1. LockHeld => QueueExclusive
  BY PoolAssumption DEF LockHeld, QueueExclusive
<1> QED BY <1>1, LockAlwaysHeld, PTL

-----------------------------------------------------------------------------
(* The tokens of the semaphore.  A step changes who holds a token only by  *)
(* SemWait, which takes one, and RunPop, which spends one.                 *)
LEMMA HoldersFinite == IsFiniteSet(TokenHolders) /\ Cardinality(TokenHolders) \in Nat
<1>1. TokenHolders \in SUBSET Workers
  BY DEF TokenHolders
<1> QED BY <1>1, PoolAssumption, FS_Subset, FS_CardinalityType

LEMMA HolderIsCounted ==
  ASSUME NEW w \in TokenHolders
  PROVE  Cardinality(TokenHolders) >= 1
<1>1. Cardinality(TokenHolders) # 0
  BY HoldersFinite, FS_EmptySet
<1> QED BY <1>1, HoldersFinite

LEMMA PoppingFindsEvent ==
  ASSUME TypeInv, TokensMatchQueue PROVE PopFindsEvent
<1> SUFFICES ASSUME NEW w \in Workers, workerPc[w] = "pop", workQueue = <<>>
             PROVE  FALSE
  BY DEF PopFindsEvent
<1>1. Cardinality(TokenHolders) >= 1
  BY HolderIsCounted DEF TokenHolders
<1>2. Len(workQueue) = 0 /\ queueEventNum \in Nat /\ Unposted \in Nat
  BY DEF TypeInv, TypeOK, Unposted
<1> QED BY <1>1, <1>2, HoldersFinite DEF TokensMatchQueue

LEMMA TokensStep ==
  TypeInv /\ TokensMatchQueue /\ [Next]_vars => TokensMatchQueue'
<1> SUFFICES ASSUME TypeInv, TokensMatchQueue, [Next]_vars
             PROVE  TokensMatchQueue'
  OBVIOUS
<1> DEFINE Held == Cardinality(TokenHolders)
<1>a. Held \in Nat /\ IsFiniteSet(TokenHolders)
  BY HoldersFinite
<1>b. /\ queueEventNum \in Nat /\ workQueue \in Seq(Events)
      /\ workerPc \in [Workers -> WorkerPcs]
  BY DEF TypeInv, TypeOK
<1>c. Len(workQueue) = queueEventNum + Held + Unposted
  BY DEF TokensMatchQueue
<1> USE DEF MainGoes, WorkerGoes, mainVars
<1>1. ASSUME NEW e \in Events, NewEvent(e) PROVE TokensMatchQueue'
  BY <1>1, <1>c DEF NewEvent, TokensMatchQueue, TokenHolders, Unposted
<1>2. CASE AppendLock
  BY <1>2, <1>c DEF AppendLock, TokensMatchQueue, TokenHolders, Unposted
<1>3. CASE AppendPush
  <2>1. Len(workQueue') = Len(workQueue) + 1
    BY <1>3, <1>b DEF AppendPush, TypeInv, AppendsEvent
  <2>2. TokenHolders' = TokenHolders /\ queueEventNum' = queueEventNum
    BY <1>3 DEF AppendPush, TokenHolders
  <2>3. Unposted = 0 /\ Unposted' = 1
    BY <1>3 DEF AppendPush, Unposted
  <2> QED BY <1>a, <1>b, <1>c, <2>1, <2>2, <2>3 DEF TokensMatchQueue
<1>4. CASE AppendUnlock
  BY <1>4, <1>c DEF AppendUnlock, TokensMatchQueue, TokenHolders, Unposted
<1>5. CASE AppendPost
  <2>1. TokenHolders' = TokenHolders /\ workQueue' = workQueue
    BY <1>5 DEF AppendPost, TokenHolders
  <2>2. Unposted = 1 /\ Unposted' = 0 /\ queueEventNum' = queueEventNum + 1
    BY <1>5 DEF AppendPost, Unposted
  <2> QED BY <1>a, <1>b, <1>c, <2>1, <2>2 DEF TokensMatchQueue
<1>6. ASSUME NEW w \in Workers, SemWait(w) PROVE TokensMatchQueue'
  <2>1. w \notin TokenHolders /\ TokenHolders' = TokenHolders \cup {w}
    BY <1>6, <1>b DEF SemWait, TokenHolders
  <2>2. Cardinality(TokenHolders') = Held + 1
    BY <2>1, <1>a, FS_AddElement
  <2>3. queueEventNum' = queueEventNum - 1 /\ workQueue' = workQueue
        /\ Unposted' = Unposted /\ Unposted \in Nat
    BY <1>6 DEF SemWait, Unposted
  <2> QED BY <1>a, <1>b, <1>c, <2>2, <2>3 DEF TokensMatchQueue
<1>7. ASSUME NEW w \in Workers, SemWaitFails(w) PROVE TokensMatchQueue'
  <2>1. TokenHolders' = TokenHolders
    BY <1>7, <1>b DEF SemWaitFails, TokenHolders
  <2> QED BY <1>7, <1>c, <2>1 DEF SemWaitFails, TokensMatchQueue, Unposted
<1>8. ASSUME NEW w \in Workers, RunLock(w) PROVE TokensMatchQueue'
  <2>1. TokenHolders' = TokenHolders
    BY <1>8, <1>b DEF RunLock, TokenHolders
  <2> QED BY <1>8, <1>c, <2>1 DEF RunLock, TokensMatchQueue, Unposted
<1>9. ASSUME NEW w \in Workers, RunPop(w) PROVE TokensMatchQueue'
  <2>1. w \in TokenHolders /\ TokenHolders' = TokenHolders \ {w}
    BY <1>9, <1>b DEF RunPop, TokenHolders
  <2>2. Cardinality(TokenHolders') = Held - 1
    BY <2>1, <1>a, FS_RemoveElement
  <2>3. workQueue # <<>>
    BY <1>9, PoppingFindsEvent DEF RunPop, PopFindsEvent
  <2>4. Len(workQueue') = Len(workQueue) - 1
    BY <1>9, <1>b, <2>3 DEF RunPop
  <2>5. queueEventNum' = queueEventNum /\ Unposted' = Unposted /\ Unposted \in Nat
    BY <1>9 DEF RunPop, Unposted
  <2> QED BY <1>a, <1>b, <1>c, <2>2, <2>4, <2>5 DEF TokensMatchQueue
<1>10. ASSUME NEW w \in Workers, RunUnlock(w) PROVE TokensMatchQueue'
  <2>1. TokenHolders' = TokenHolders
    BY <1>10, <1>b DEF RunUnlock, TokenHolders
  <2> QED BY <1>10, <1>c, <2>1 DEF RunUnlock, TokensMatchQueue, Unposted
<1>11. ASSUME NEW w \in Workers, RunProcess(w) PROVE TokensMatchQueue'
  <2>1. TokenHolders' = TokenHolders
    BY <1>11, <1>b DEF RunProcess, TokenHolders
  <2> QED BY <1>11, <1>c, <2>1 DEF RunProcess, TokensMatchQueue, Unposted
<1>12. ASSUME NEW w \in Workers, RunDelete(w) PROVE TokensMatchQueue'
  <2>1. TokenHolders' = TokenHolders
    BY <1>12, <1>b DEF RunDelete, TokenHolders
  <2> QED BY <1>12, <1>c, <2>1 DEF RunDelete, TokensMatchQueue, Unposted
<1>13. CASE UNCHANGED vars
  BY <1>13, <1>c DEF vars, TokensMatchQueue, TokenHolders, Unposted
<1> QED BY <1>1, <1>2, <1>3, <1>4, <1>5, <1>6, <1>7, <1>8, <1>9, <1>10, <1>11,
           <1>12, <1>13 DEF Next, MainStep, RunStep

(* The semaphore accounts for the queue: no event is left without a token  *)
(* that will bring a worker to it, and no token stands for no event.       *)
THEOREM TokensAlwaysMatchQueue == Safety => []TokensMatchQueue
<1>1. Init => TokensMatchQueue
  <2> SUFFICES ASSUME Init PROVE TokensMatchQueue
    OBVIOUS
  <2>1. TokenHolders = {} /\ Unposted = 0 /\ Len(workQueue) = 0
    BY DEF Init, TokenHolders, Unposted
  <2> QED BY <2>1, FS_EmptySet DEF Init, TokensMatchQueue
<1> QED BY <1>1, TokensStep, TypeInvAlways, PTL DEF Safety

(* A worker past sem_wait and the mutex finds an event: the branch of      *)
(* threadpool.cpp:81-84 is never taken, whatever threads do.               *)
THEOREM PopAlwaysFindsEvent == Safety => []PopFindsEvent
BY PoppingFindsEvent, TokensAlwaysMatchQueue, TypeInvAlways, PTL

-----------------------------------------------------------------------------
(* Who has an event in hand: the main thread from new to push, a worker    *)
(* from front to delete.  The events in hand and those in the queue are    *)
(* all different, and they are the ones allocated.                         *)
Hands == /\ mainEvent # NoEvent <=> mainPc \in {"lock", "push"}
         /\ \A w \in Workers :
              curEvent[w] # NoEvent <=> workerPc[w] \in {"unlock", "process", "delete"}
Waits(e) == \E i \in 1..Len(workQueue) : workQueue[i] = e
Handled(e) == \E w \in Workers : curEvent[w] = e
Apart == /\ \A i, j \in 1..Len(workQueue) : workQueue[i] = workQueue[j] => i = j
         /\ \A v, w \in Workers :
              curEvent[v] = curEvent[w] /\ curEvent[v] # NoEvent => v = w
         /\ \A e \in Events : /\ ~(Waits(e) /\ Handled(e))
                              /\ mainEvent = e => ~Waits(e) /\ ~Handled(e)
Allocated == \A e \in Events : e \in heap <=> Waits(e) \/ Handled(e) \/ mainEvent = e

LEMMA HandsStep ==
  TypeInv /\ PopFindsEvent /\ Hands /\ [Next]_vars => Hands'
<1> SUFFICES ASSUME TypeInv, PopFindsEvent, Hands, [Next]_vars PROVE Hands'
  OBVIOUS
<1> USE PoolAssumption DEF TypeInv, TypeOK, AppendsEvent, Hands, MainPcs,
        WorkerPcs, MainGoes, WorkerGoes, mainVars
<1>1. ASSUME NEW e \in Events, NewEvent(e) PROVE Hands'
  BY <1>1 DEF NewEvent
<1>2. CASE AppendLock
  BY <1>2 DEF AppendLock
<1>3. CASE AppendPush
  BY <1>3 DEF AppendPush
<1>4. CASE AppendUnlock
  BY <1>4 DEF AppendUnlock
<1>5. CASE AppendPost
  BY <1>5 DEF AppendPost
<1>6. ASSUME NEW w \in Workers, SemWait(w) PROVE Hands'
  BY <1>6 DEF SemWait
<1>7. ASSUME NEW w \in Workers, SemWaitFails(w) PROVE Hands'
  BY <1>7 DEF SemWaitFails
<1>8. ASSUME NEW w \in Workers, RunLock(w) PROVE Hands'
  BY <1>8 DEF RunLock
<1>9. ASSUME NEW w \in Workers, RunPop(w) PROVE Hands'
  <2>1. workQueue # <<>>
    BY <1>9 DEF RunPop, PopFindsEvent
  <2>2. Head(workQueue) \in Events
    BY <2>1
  <2> QED BY <1>9, <2>1, <2>2 DEF RunPop
<1>10. ASSUME NEW w \in Workers, RunUnlock(w) PROVE Hands'
  BY <1>10 DEF RunUnlock
<1>11. ASSUME NEW w \in Workers, RunProcess(w) PROVE Hands'
  BY <1>11 DEF RunProcess
<1>12. ASSUME NEW w \in Workers, RunDelete(w) PROVE Hands'
  BY <1>12 DEF RunDelete
<1>13. CASE UNCHANGED vars
  BY <1>13 DEF vars
<1> QED BY <1>1, <1>2, <1>3, <1>4, <1>5, <1>6, <1>7, <1>8, <1>9, <1>10, <1>11,
           <1>12, <1>13 DEF Next, MainStep, RunStep

LEMMA HandsAlways == Safety => []Hands
<1>1. Init => Hands
  BY PoolAssumption DEF Init, Hands
<1> QED BY <1>1, HandsStep, TypeInvAlways, PopAlwaysFindsEvent, PTL DEF Safety

(* Every step of the pool is a step of the abstract queue or leaves it as  *)
(* it is: push submits, front and pop take, delete finishes.               *)
LEMMA StepRefines ==
  TypeInv /\ PopFindsEvent /\ Hands /\ [Next]_vars => [WQ!Next]_WQ!vars
<1> SUFFICES ASSUME TypeInv, PopFindsEvent, Hands, [Next]_vars
             PROVE  [WQ!Next]_WQ!vars
  OBVIOUS
<1> USE DEF WQ!vars, MainGoes, WorkerGoes, mainVars
<1>1. ASSUME NEW e \in Events, NewEvent(e) PROVE UNCHANGED WQ!vars
  BY <1>1 DEF NewEvent
<1>2. AppendLock \/ AppendUnlock \/ AppendPost => UNCHANGED WQ!vars
  BY DEF AppendLock, AppendUnlock, AppendPost
<1>3. AppendPush => mainEvent \in Events /\ WQ!Submit(mainEvent)
  BY DEF AppendPush, WQ!Submit, TypeInv, AppendsEvent
<1>4. ASSUME NEW w \in Workers,
             SemWait(w) \/ SemWaitFails(w) \/ RunLock(w) \/ RunUnlock(w)
             \/ RunProcess(w)
      PROVE  UNCHANGED WQ!vars
  BY <1>4 DEF SemWait, SemWaitFails, RunLock, RunUnlock, RunProcess
<1>5. ASSUME NEW w \in Workers, RunPop(w) PROVE WQ!Take(w)
  <2>1. workQueue # <<>> /\ curEvent[w] = NoEvent
    BY <1>5 DEF RunPop, PopFindsEvent, Hands
  <2> QED BY <1>5, <2>1 DEF RunPop, WQ!Take
<1>6. ASSUME NEW w \in Workers, RunDelete(w) PROVE WQ!Finish(w)
  <2>1. curEvent[w] # NoEvent
    BY <1>6 DEF RunDelete, Hands
  <2> QED BY <1>6, <2>1 DEF RunDelete, WQ!Finish
<1>7. UNCHANGED vars => UNCHANGED WQ!vars
  BY DEF vars
<1> QED BY <1>1, <1>2, <1>3, <1>4, <1>5, <1>6, <1>7
        DEF Next, MainStep, RunStep, WQ!Next

(* The pool hands events to workers in the order in which they were        *)
(* appended, each to one worker, one at a time.                            *)
THEOREM ImplementsWorkQueueSafety == Safety => WQ!Safety
<1>1. Init => WQ!Init
  BY DEF Init, WQ!Init
<1> QED BY <1>1, StepRefines, TypeInvAlways, PopAlwaysFindsEvent, HandsAlways,
           PTL DEF Safety, WQ!Safety

-----------------------------------------------------------------------------
(* Events in hand and in the queue stay apart: an address is new only when *)
(* nobody has it, and each step passes an event from one owner to another. *)
LEMMA ApartStep ==
  TypeInv /\ PopFindsEvent /\ Hands /\ Apart /\ Allocated /\ [Next]_vars
  => Apart' /\ Allocated'
<1> SUFFICES ASSUME TypeInv, PopFindsEvent, Hands, Apart, Allocated, [Next]_vars
             PROVE  Apart' /\ Allocated'
  OBVIOUS
<1>a. /\ workQueue \in Seq(Events) /\ curEvent \in [Workers -> Events \cup {NoEvent}]
      /\ mainEvent \in Events \cup {NoEvent} /\ heap \in SUBSET Events
      /\ NoEvent \notin Events
  BY PoolAssumption DEF TypeInv, TypeOK
<1> DEFINE Same == /\ workQueue' = workQueue /\ curEvent' = curEvent
                   /\ mainEvent' = mainEvent /\ heap' = heap
<1>b. Same => Apart' /\ Allocated'
  BY DEF Apart, Allocated, Waits, Handled
<1> USE DEF MainGoes, WorkerGoes, mainVars
<1>1. ASSUME NEW e \in Events, NewEvent(e) PROVE Apart' /\ Allocated'
  <2>1. mainEvent = NoEvent
    BY <1>1 DEF NewEvent, Hands
  <2>2. ~Waits(e) /\ ~Handled(e)
    BY <1>1 DEF NewEvent, Allocated
  <2>3. /\ workQueue' = workQueue /\ curEvent' = curEvent
        /\ mainEvent' = e /\ heap' = heap \cup {e}
    BY <1>1 DEF NewEvent
  <2>4. ASSUME NEW d PROVE (Waits(d)' <=> Waits(d)) /\ (Handled(d)' <=> Handled(d))
    BY <2>3 DEF Waits, Handled
  <2>5. Apart'
    BY <2>2, <2>3, <2>4 DEF Apart
  <2>6. Allocated'
    BY <1>a, <2>1, <2>3, <2>4 DEF Allocated
  <2> QED BY <2>5, <2>6
<1>2. AppendLock \/ AppendUnlock \/ AppendPost => Same
  BY DEF AppendLock, AppendUnlock, AppendPost
<1>3. CASE AppendPush
  <2> DEFINE n == Len(workQueue)
  <2>1. mainEvent \in Events /\ ~Waits(mainEvent) /\ ~Handled(mainEvent)
    BY <1>3 DEF AppendPush, TypeInv, AppendsEvent, Apart
  <2>2. /\ workQueue' = Append(workQueue, mainEvent) /\ curEvent' = curEvent
        /\ mainEvent' = NoEvent /\ heap' = heap
    BY <1>3 DEF AppendPush
  <2>3. /\ n \in Nat /\ Len(workQueue') = n + 1 /\ workQueue'[n + 1] = mainEvent
        /\ \A i \in 1..n : workQueue'[i] = workQueue[i]
    BY <1>a, <2>1, <2>2
  <2>4. ASSUME NEW d \in Events
        PROVE  /\ Waits(d)' <=> Waits(d) \/ d = mainEvent
               /\ Handled(d)' <=> Handled(d)
    BY <2>2, <2>3 DEF Waits, Handled
  <2>5. \A i, j \in 1..Len(workQueue') : workQueue'[i] = workQueue'[j] => i = j
    BY <2>1, <2>3 DEF Apart, Waits
  <2>6. Apart'
    BY <1>a, <2>1, <2>2, <2>4, <2>5 DEF Apart
  <2>7. Allocated'
    BY <1>a, <2>1, <2>2, <2>4 DEF Allocated
  <2> QED BY <2>6, <2>7
<1>4. ASSUME NEW w \in Workers,
             SemWait(w) \/ SemWaitFails(w) \/ RunLock(w) \/ RunUnlock(w)
             \/ RunProcess(w)
      PROVE  Same
  BY <1>4 DEF SemWait, SemWaitFails, RunLock, RunUnlock, RunProcess
<1>5. ASSUME NEW w \in Workers, RunPop(w) PROVE Apart' /\ Allocated'
  <2> DEFINE h == Head(workQueue)
             n == Len(workQueue)
  <2>1. workQueue # <<>> /\ curEvent[w] = NoEvent
    BY <1>5 DEF RunPop, PopFindsEvent, Hands
  <2>2. /\ workQueue' = Tail(workQueue) /\ curEvent' = [curEvent EXCEPT ![w] = h]
        /\ mainEvent' = mainEvent /\ heap' = heap
    BY <1>5, <2>1 DEF RunPop
  <2>3. /\ n \in Nat \ {0} /\ Len(workQueue') = n - 1 /\ h = workQueue[1]
        /\ h \in Events
        /\ \A i \in 1..(n - 1) : workQueue'[i] = workQueue[i + 1]
    BY <1>a, <2>1, <2>2
  <2>4. Waits(h) /\ ~Handled(h) /\ mainEvent # h
    BY <2>3 DEF Waits, Apart
  <2>5. ASSUME NEW d \in Events
        PROVE  /\ Waits(d)' <=> Waits(d) /\ d # h
               /\ Handled(d)' <=> Handled(d) \/ d = h
    <3>1. Waits(d)' => Waits(d) /\ d # h
      BY <2>3 DEF Waits, Apart
    <3>2. ASSUME Waits(d), d # h PROVE Waits(d)'
      <4>1. PICK i \in 1..n : workQueue[i] = d
        BY <3>2 DEF Waits
      <4>2. i - 1 \in 1..(n - 1) /\ workQueue'[i - 1] = d
        BY <3>2, <4>1, <2>3
      <4> QED BY <4>2, <2>3 DEF Waits
    <3>3. Handled(d)' <=> Handled(d) \/ d = h
      BY <1>a, <2>1, <2>2 DEF Handled
    <3> QED BY <3>1, <3>2, <3>3
  <2>6. \A i, j \in 1..Len(workQueue') : workQueue'[i] = workQueue'[j] => i = j
    BY <2>3 DEF Apart
  <2>7. \A u, v \in Workers :
          curEvent'[u] = curEvent'[v] /\ curEvent'[u] # NoEvent => u = v
    BY <1>a, <2>2, <2>4 DEF Apart, Handled
  <2>8. Apart'
    BY <2>2, <2>4, <2>5, <2>6, <2>7 DEF Apart
  <2>9. Allocated'
    BY <2>2, <2>4, <2>5 DEF Allocated
  <2> QED BY <2>8, <2>9
<1>6. ASSUME NEW w \in Workers, RunDelete(w) PROVE Apart' /\ Allocated'
  <2> DEFINE c == curEvent[w]
  <2>1. c \in Events
    BY <1>6, <1>a DEF RunDelete, Hands
  <2>2. /\ workQueue' = workQueue /\ curEvent' = [curEvent EXCEPT ![w] = NoEvent]
        /\ mainEvent' = mainEvent /\ heap' = heap \ {c}
    BY <1>6 DEF RunDelete
  <2>3. ~Waits(c) /\ mainEvent # c
    BY <2>1 DEF Apart, Handled
  <2>4. ASSUME NEW d \in Events
        PROVE  /\ Waits(d)' <=> Waits(d)
               /\ Handled(d)' <=> Handled(d) /\ d # c
    BY <1>a, <2>1, <2>2 DEF Waits, Handled, Apart
  <2>5. \A u, v \in Workers :
          curEvent'[u] = curEvent'[v] /\ curEvent'[u] # NoEvent => u = v
    BY <1>a, <2>2 DEF Apart
  <2>6. Apart'
    BY <2>2, <2>4, <2>5 DEF Apart
  <2>7. Allocated'
    BY <2>2, <2>3, <2>4 DEF Allocated
  <2> QED BY <2>6, <2>7
<1>7. UNCHANGED vars => Same
  BY DEF vars
<1> QED BY <1>b, <1>1, <1>2, <1>3, <1>4, <1>5, <1>6, <1>7
        DEF Next, MainStep, RunStep

(* Every event object has one owner while it is allocated, so the workers  *)
(* neither share one, nor use one that is deleted, nor delete one twice.   *)
THEOREM EventsHaveOneOwner == Safety => []OneOwner
<1>1. Init => Apart /\ Allocated
  BY PoolAssumption DEF Init, Apart, Allocated, Waits, Handled
<1>2. TypeInv /\ Apart /\ Allocated => OneOwner
  <2> SUFFICES ASSUME TypeInv, Apart, Allocated, NEW e \in Events
               PROVE  Owners(e) = IF e \in heap THEN 1 ELSE 0
    BY DEF OneOwner
  <2>1. Cardinality(Queued(e)) = IF Waits(e) THEN 1 ELSE 0
    <3>1. ASSUME NEW i \in 1..Len(workQueue), workQueue[i] = e
          PROVE  Queued(e) = {i}
      BY <3>1 DEF Queued, Apart
    <3>2. ~Waits(e) => Queued(e) = {}
      BY DEF Waits, Queued
    <3> QED BY <3>1, <3>2, FS_Singleton, FS_EmptySet DEF Waits
  <2>2. e # NoEvent
    BY PoolAssumption
  <2>3. Cardinality(HeldBy(e)) = IF Handled(e) THEN 1 ELSE 0
    <3>1. ASSUME NEW w \in Workers, curEvent[w] = e
          PROVE  HeldBy(e) = {w}
      BY <2>2, <3>1 DEF HeldBy, Apart
    <3>2. ~Handled(e) => HeldBy(e) = {}
      BY DEF Handled, HeldBy
    <3> QED BY <3>1, <3>2, FS_Singleton, FS_EmptySet DEF Handled
  <2>4. e \in heap <=> Waits(e) \/ Handled(e) \/ mainEvent = e
    BY DEF Allocated
  <2>5. ~(Waits(e) /\ Handled(e)) /\ (mainEvent = e => ~Waits(e) /\ ~Handled(e))
    BY DEF Apart
  <2> QED BY <2>1, <2>3, <2>4, <2>5 DEF Owners
<1> QED BY <1>1, <1>2, ApartStep, TypeInvAlways, PopAlwaysFindsEvent,
           HandsAlways, PTL DEF Safety
=============================================================================
