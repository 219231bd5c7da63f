----------------------------- MODULE ThreadPool -----------------------------
(***************************************************************************)
(* The pool of src/threadpool: one queue of events, a mutex around it and  *)
(* a counting semaphore that says how many events wait.  The main thread   *)
(* is the only one to call appendEvent (from WebServer::waitEpoll); every  *)
(* worker thread executes run().  One action per call on the mutex, the    *)
(* semaphore or the queue, so that every interleaving of them is explored. *)
(*                                                                         *)
(* Events are the addresses of heap objects: an address is free again      *)
(* after delete, and the next event may get it.  Their number bounds the   *)
(* queue and nothing else.                                                 *)
(***************************************************************************)
EXTENDS Naturals, Sequences, FiniteSets

CONSTANTS Workers,        \* the m_threadNum threads
          Events,         \* addresses an event object can have
          NoEvent,        \* "no event": the null pointer
          MaxInterrupts   \* bound: how many sem_wait calls a signal interrupts

ASSUME PoolAssumption ==
  /\ IsFiniteSet(Workers)
  /\ "main" \notin Workers /\ "nobody" \notin Workers
  /\ NoEvent \notin Events
  /\ MaxInterrupts \in Nat

VARIABLES workQueue,      \* m_workQueue
          queueLocker,    \* who holds queueLocker
          queueEventNum,  \* value of the semaphore
          heap,           \* event objects allocated and not yet deleted
          mainPc,         \* where the main thread is in appendEvent
          mainEvent,      \* the event it appends
          workerPc,       \* where each worker is in run()
          curEvent,       \* curEvent of each worker, NoEvent out of its scope
          interrupts      \* sem_wait calls interrupted so far

mainVars == <<mainPc, mainEvent>>
vars == <<workQueue, queueLocker, queueEventNum, heap, mainPc, mainEvent,
          workerPc, curEvent, interrupts>>

MainPcs == {"idle", "lock", "push", "unlock", "post"}
WorkerPcs == {"wait", "lock", "pop", "unlock", "process", "delete", "exited"}

Init == /\ workQueue = <<>>
        /\ queueLocker = "nobody"
        /\ queueEventNum = 0
        /\ heap = {}
        /\ mainPc = "idle"
        /\ mainEvent = NoEvent
        /\ workerPc = [w \in Workers |-> "wait"]
        /\ curEvent = [w \in Workers |-> NoEvent]
        /\ interrupts = 0

MainGoes(from, to) == mainPc = from /\ mainPc' = to
WorkerGoes(w, from, to) ==
  workerPc[w] = from /\ workerPc' = [workerPc EXCEPT ![w] = to]

-----------------------------------------------------------------------------
(* The main thread: new ...; appendEvent(event.release(), ...)             *)

NewEvent(e) == /\ MainGoes("idle", "lock")
               /\ e \notin heap
               /\ heap' = heap \cup {e}
               /\ mainEvent' = e
               /\ UNCHANGED <<workQueue, queueLocker, queueEventNum, workerPc,
                              curEvent, interrupts>>

AppendLock == /\ MainGoes("lock", "push")
              /\ queueLocker = "nobody"
              /\ queueLocker' = "main"
              /\ UNCHANGED <<workQueue, queueEventNum, heap, mainEvent,
                             workerPc, curEvent, interrupts>>

AppendPush == /\ MainGoes("push", "unlock")
              /\ workQueue' = Append(workQueue, mainEvent)
              /\ mainEvent' = NoEvent
              /\ UNCHANGED <<queueLocker, queueEventNum, heap, workerPc,
                             curEvent, interrupts>>

AppendUnlock == /\ MainGoes("unlock", "post")
                /\ queueLocker' = "nobody"
                /\ UNCHANGED <<workQueue, queueEventNum, heap, mainEvent,
                               workerPc, curEvent, interrupts>>

\* Defect: the event is queued and sem_post forgotten.
AppendPost_Lost == /\ MainGoes("post", "idle")
                   /\ UNCHANGED <<workQueue, queueLocker, queueEventNum, heap,
                                  mainEvent, workerPc, curEvent, interrupts>>

AppendPost == /\ MainGoes("post", "idle")
              /\ queueEventNum' = queueEventNum + 1
              /\ UNCHANGED <<workQueue, queueLocker, heap, mainEvent,
                             workerPc, curEvent, interrupts>>

-----------------------------------------------------------------------------
(* A worker thread: run()                                                  *)

\* Defect: sem_trywait with its result unchecked, the token taken regardless.
SemWait_Unchecked(w) == /\ WorkerGoes(w, "wait", "lock")
                        /\ queueEventNum' = queueEventNum - 1
                        /\ UNCHANGED <<workQueue, queueLocker, heap, mainVars,
                                       curEvent, interrupts>>

SemWait(w) == /\ WorkerGoes(w, "wait", "lock")
              /\ queueEventNum > 0
              /\ queueEventNum' = queueEventNum - 1
              /\ UNCHANGED <<workQueue, queueLocker, heap, mainVars, curEvent,
                             interrupts>>

\* Defect: the failure of sem_wait is ignored and the thread goes on.
SemWaitFails_Ignored(w) == /\ WorkerGoes(w, "wait", "lock")
                           /\ interrupts < MaxInterrupts
                           /\ interrupts' = interrupts + 1
                           /\ UNCHANGED <<workQueue, queueLocker,
                                          queueEventNum, heap, mainVars,
                                          curEvent>>

\* sem_wait returns -1 (EINTR: the handler that addHandleSig installs has no
\* SA_RESTART): run() returns and the thread is gone.
SemWaitFails(w) == /\ WorkerGoes(w, "wait", "exited")
                   /\ interrupts < MaxInterrupts
                   /\ interrupts' = interrupts + 1
                   /\ UNCHANGED <<workQueue, queueLocker, queueEventNum, heap,
                                  mainVars, curEvent>>

\* Defect: the worker does not wait for the mutex.
RunLock_NoWait(w) == /\ WorkerGoes(w, "lock", "pop")
                     /\ queueLocker' = w
                     /\ UNCHANGED <<workQueue, queueEventNum, heap, mainVars,
                                    curEvent, interrupts>>

RunLock(w) == /\ WorkerGoes(w, "lock", "pop")
              /\ queueLocker = "nobody"
              /\ queueLocker' = w
              /\ UNCHANGED <<workQueue, queueEventNum, heap, mainVars,
                             curEvent, interrupts>>

\* Defects: front() without pop(); the newest event before the oldest.
RunPop_NoPop(w) ==
  /\ workQueue # <<>>
  /\ WorkerGoes(w, "pop", "unlock")
  /\ curEvent' = [curEvent EXCEPT ![w] = Head(workQueue)]
  /\ UNCHANGED <<workQueue, queueLocker, queueEventNum, heap, mainVars,
                 interrupts>>

RunPop_Newest(w) ==
  /\ workQueue # <<>>
  /\ WorkerGoes(w, "pop", "unlock")
  /\ curEvent' = [curEvent EXCEPT ![w] = workQueue[Len(workQueue)]]
  /\ workQueue' = SubSeq(workQueue, 1, Len(workQueue) - 1)
  /\ UNCHANGED <<queueLocker, queueEventNum, heap, mainVars, interrupts>>

\* An empty queue sends the worker back to sem_wait, its token spent.
RunPop(w) ==
  /\ IF workQueue = <<>>
     THEN /\ WorkerGoes(w, "pop", "wait")
          /\ queueLocker' = "nobody"
          /\ UNCHANGED <<workQueue, curEvent>>
     ELSE /\ WorkerGoes(w, "pop", "unlock")
          /\ curEvent' = [curEvent EXCEPT ![w] = Head(workQueue)]
          /\ workQueue' = Tail(workQueue)
          /\ UNCHANGED queueLocker
  /\ UNCHANGED <<queueEventNum, heap, mainVars, interrupts>>

RunUnlock(w) == /\ WorkerGoes(w, "unlock", "process")
                /\ queueLocker' = "nobody"
                /\ UNCHANGED <<workQueue, queueEventNum, heap, mainVars,
                               curEvent, interrupts>>

\* curEvent->process(): what the handlers do is modelled in Reactor.
RunProcess(w) == /\ WorkerGoes(w, "process", "delete")
                 /\ UNCHANGED <<workQueue, queueLocker, queueEventNum, heap,
                                mainVars, curEvent, interrupts>>

RunDelete(w) == /\ WorkerGoes(w, "delete", "wait")
                /\ heap' = heap \ {curEvent[w]}
                /\ curEvent' = [curEvent EXCEPT ![w] = NoEvent]
                /\ UNCHANGED <<workQueue, queueLocker, queueEventNum, mainVars,
                               interrupts>>

-----------------------------------------------------------------------------
MainStep == \/ \E e \in Events : NewEvent(e)
            \/ AppendLock \/ AppendPush \/ AppendUnlock \/ AppendPost

RunStep(w) == \/ SemWait(w) \/ RunLock(w) \/ RunPop(w) \/ RunUnlock(w)
              \/ RunProcess(w) \/ RunDelete(w)

Next == \/ MainStep
        \/ \E w \in Workers : RunStep(w) \/ SemWaitFails(w)

Safety == Init /\ [][Next]_vars

(* The threads are scheduled: a step that stays possible is taken.  The    *)
(* mutex is not fair, so a worker may lose every race for it; nothing      *)
(* forces a new event to arrive or a signal to interrupt a thread.         *)
Spec == /\ Safety
        /\ WF_vars(AppendLock \/ AppendPush \/ AppendUnlock \/ AppendPost)
        /\ \A w \in Workers : WF_vars(RunStep(w))

-----------------------------------------------------------------------------
(* Properties                                                              *)

TypeOK == /\ workQueue \in Seq(Events)
          /\ queueLocker \in Workers \cup {"main", "nobody"}
          /\ queueEventNum \in Nat
          /\ heap \in SUBSET Events
          /\ mainPc \in MainPcs
          /\ mainEvent \in Events \cup {NoEvent}
          /\ workerPc \in [Workers -> WorkerPcs]
          /\ curEvent \in [Workers -> Events \cup {NoEvent}]
          /\ interrupts \in 0..MaxInterrupts

(* Workers that took a token of the semaphore and not yet an event, and    *)
(* the event that is in the queue before its token is.                     *)
TokenHolders == {w \in Workers : workerPc[w] \in {"lock", "pop"}}
Unposted == IF mainPc \in {"unlock", "post"} THEN 1 ELSE 0

(* The semaphore accounts for the queue: every event in it has exactly one *)
(* token, free in the semaphore, taken by a worker on its way to the queue *)
(* or about to be posted.  (push before sem_post in appendEvent, one pop   *)
(* per sem_wait in run: threadpool.cpp 43-52, 69-87.)                      *)
TokensMatchQueue ==
  Len(workQueue) = queueEventNum + Cardinality(TokenHolders) + Unposted

(* A worker that reaches the queue finds an event there: the guard of      *)
(* threadpool.cpp:81-84, which would drop a token, never fires.            *)
PopFindsEvent == \A w \in Workers : workerPc[w] = "pop" => workQueue # <<>>

(* std::queue is not thread safe: push, front and pop happen while no      *)
(* other thread is between its lock and its unlock.                        *)
InQueueMain == mainPc \in {"push", "unlock"}
InQueue(w) == workerPc[w] \in {"pop", "unlock"}
QueueExclusive ==
  /\ \A w \in Workers : InQueue(w) => ~InQueueMain
  /\ \A v, w \in Workers : InQueue(v) /\ InQueue(w) => v = w

(* An event object has one owner, so it is processed once, never after     *)
(* its delete, and deleted once: it is the main thread's, or in the queue  *)
(* at one place, or one worker's; and every allocated object has an owner. *)
Queued(e) == {i \in 1..Len(workQueue) : workQueue[i] = e}
HeldBy(e) == {w \in Workers : curEvent[w] = e}
Owners(e) == Cardinality(Queued(e)) + Cardinality(HeldBy(e))
             + (IF mainEvent = e THEN 1 ELSE 0)
OneOwner == \A e \in Events : Owners(e) = IF e \in heap THEN 1 ELSE 0

(* The pool implements the abstract work queue, its liveness included.     *)
WQ == INSTANCE WorkQueue WITH queue <- workQueue, running <- curEvent
ImplementsWorkQueue == WQ!Spec

(* While one worker is left, every event allocated is appended, processed  *)
(* and deleted in the end, whatever arrives after it (threadpool.h:18:     *)
(* "threads in the thread pool will loop through it to process the event").*)
EventsFreed == \A e \in Events : e \in heap ~> e \notin heap
=============================================================================
