----------------------------- MODULE Lifecycle -----------------------------
(***************************************************************************)
(* How the server starts, is told to stop and ends: main.cpp, class        *)
(* WebServer and the constructor and destructor of ThreadPool.  Every call *)
(* of the start-up may fail.  The workers are detached, so nothing waits   *)
(* for them when the pool is destroyed.                                    *)
(*                                                                         *)
(* main.cpp never calls epollAddEventPipe and addHandleSig: a signal has   *)
(* its default action.  usesSignals is a program that calls them too,      *)
(* between epollAddListenFd and waitEpoll, which is what they are for.     *)
(***************************************************************************)
EXTENDS Naturals, Sequences, FiniteSets

CONSTANTS ThreadNum,   \* the argument of createThreadPool
          Signals,     \* signals sent: addHandleSig is given these numbers,
                       \* and without a handler each ends the process
          PipeCap,     \* signals the socket pair has room for; nobody reads it
          MaxSignals,  \* bound: signals sent
          MaxEvents    \* bound: events in the queue at a time

Threads == 1..ThreadNum
Main == 0

ASSUME LifecycleAssumption ==
  /\ ThreadNum \in Nat \ {0}
  /\ Signals \subseteq Nat
  /\ {PipeCap, MaxSignals, MaxEvents} \subseteq Nat

VARIABLES process,      \* "running", or how it ended
          usesSignals,  \* which program this is
          main,         \* where the main thread is
          step,         \* how many calls of the start-up have returned
          have,         \* what they have set up
          worker,       \* worker[i]: where the thread i of the pool is
          events,       \* length of the queue of the pool
          handling,     \* handling[t]: where thread t is in setSigHandler
          isStop,
          inPipe,       \* signals sent through the socket pair
          pipeEdge,     \* epoll has the pair to report
          sendFailed,   \* a signal found the socket pair full
          signals       \* signals sent so far
signalVars == <<handling, isStop, inPipe, pipeEdge, sendFailed, signals>>
vars == <<process, usesSignals, main, step, have, worker, events, signalVars>>

Init == /\ process = "running" /\ usesSignals \in BOOLEAN
        /\ main = "starting" /\ step = 0 /\ have = {}
        /\ worker = [i \in Threads |-> "none"] /\ events = 0
        /\ handling = [t \in {Main} \cup Threads |-> "no"]
        /\ isStop = FALSE /\ sendFailed = FALSE
        /\ inPipe = 0 /\ pipeEdge = FALSE /\ signals = 0

Running(t) == process = "running" /\ handling[t] = "no"
MainAt(place) == Running(Main) /\ main = place
InLoop == process = "running" /\ main \in {"test", "wait"}

-----------------------------------------------------------------------------
(* Start-up.  A call is named for what the server has when it succeeds.    *)

Pool == <<"mutex", "semaphore">> \o [i \in Threads |-> "thread"]
Listener == <<"socket", "address", "listening", "epoll", "nonblocking",
              "registered">>

\* Defect: the socket pair is not added to epoll.
SignalCalls_Unwatched == IF usesSignals THEN <<"pair", "handler">> ELSE <<>>

\* epollAddEventPipe and addHandleSig
SignalCalls == IF usesSignals THEN <<"pair", "watched", "handler">> ELSE <<>>

Calls == <<"child", "cacheSemaphore">> \o Pool \o Listener \o SignalCalls
Call == Calls[step + 1]
NextThread == step - 3   \* the calls before the first thread are four

CallSucceeds ==
  /\ MainAt("starting") /\ step < Len(Calls)
  /\ step' = step + 1
  /\ have' = have \cup {Call}
  /\ worker' = IF Call = "thread"
               THEN [worker EXCEPT ![NextThread] = "waiting"] ELSE worker
  /\ UNCHANGED <<process, usesSignals, main, events, signalVars>>

\* Defect: createThreadPool returns as if there were a pool.
ThreadFails_Caught ==
  /\ MainAt("starting") /\ step < Len(Calls) /\ Call = "thread"
  /\ have' = have \ {"mutex", "semaphore"}
  /\ step' = step + 1
  /\ UNCHANGED <<process, usesSignals, main, worker, events, signalVars>>

\* pthread_create or pthread_detach fails: the constructor destroys what it
\* made and the pool is freed, under the threads that run already.  Then
\* createThreadPool throws.
ThreadFails ==
  /\ MainAt("starting") /\ step < Len(Calls) /\ Call = "thread"
  /\ have' = have \ {"mutex", "semaphore"}
  /\ main' = "threw"
  /\ \E place \in {"none", "waiting"} :
       worker' = [worker EXCEPT ![NextThread] = place]
  /\ UNCHANGED <<process, usesSignals, step, events, signalVars>>

\* fork and init_semaphores end the process themselves, all else throws.
CallFails ==
  /\ MainAt("starting") /\ step < Len(Calls) /\ Call # "thread"
  /\ IF Call \in {"child", "cacheSemaphore"}
     THEN process' = "exited" /\ UNCHANGED <<main, have>>
     ELSE /\ main' = "threw"
          /\ have' = IF Call = "semaphore" THEN have \ {"mutex"} ELSE have
          /\ UNCHANGED process
  /\ UNCHANGED <<usesSignals, step, worker, events, signalVars>>

\* Nobody catches.
Terminate == /\ MainAt("threw")
             /\ process' = "aborted"
             /\ UNCHANGED <<usesSignals, main, step, have, worker, events,
                            signalVars>>

-----------------------------------------------------------------------------
(* waitEpoll and what comes after it                                       *)

\* A signal that came before is forgotten here.
EnterLoop == /\ MainAt("starting") /\ step = Len(Calls)
             /\ isStop' = FALSE
             /\ main' = "test"
             /\ UNCHANGED <<process, usesSignals, step, have, worker, events,
                            handling, inPipe, pipeEdge, sendFailed, signals>>

TestStop == /\ MainAt("test")
            /\ main' = IF isStop THEN "returned" ELSE "wait"
            /\ UNCHANGED <<process, usesSignals, step, have, worker, events,
                           signalVars>>

\* epoll_wait returns.  The pair is edge triggered; it is not read.
EpollReturns ==
  /\ MainAt("wait")
  /\ \/ /\ pipeEdge /\ "watched" \in have
        /\ pipeEdge' = FALSE
        /\ UNCHANGED events
     \/ /\ events < MaxEvents
        /\ events' = events + 1
        /\ UNCHANGED pipeEdge
  /\ main' = "test"
  /\ UNCHANGED <<process, usesSignals, step, have, worker, handling, isStop,
                 inPipe, sendFailed, signals>>

\* ~WebServer
CloseListener == /\ MainAt("returned")
                 /\ have' = have \ {"socket", "address", "listening",
                                    "registered"}
                 /\ main' = "closed"
                 /\ UNCHANGED <<process, usesSignals, step, worker, events,
                                signalVars>>
DestroyPool == /\ MainAt("closed")
               /\ have' = have \ {"mutex", "semaphore"}
               /\ main' = "destroyed"
               /\ UNCHANGED <<process, usesSignals, step, worker, events,
                              signalVars>>
ReturnFromMain == /\ MainAt("destroyed")
                  /\ process' = "exited"
                  /\ UNCHANGED <<usesSignals, main, step, have, worker, events,
                                 signalVars>>

MainStep == \/ CallSucceeds \/ CallFails \/ ThreadFails \/ Terminate
            \/ EnterLoop \/ TestStop \/ EpollReturns
            \/ CloseListener \/ DestroyPool \/ ReturnFromMain

-----------------------------------------------------------------------------
(* The workers                                                             *)

WorkerAt(i, place) == Running(i) /\ worker[i] = place
GotoWorker(i, place) ==
  /\ worker' = [worker EXCEPT ![i] = place]
  /\ UNCHANGED <<usesSignals, main, step, have, signalVars>>

TakeEvent(i) == /\ WorkerAt(i, "waiting") /\ "semaphore" \in have /\ events > 0
                /\ events' = events - 1
                /\ GotoWorker(i, "working")
                /\ UNCHANGED process
FinishEvent(i) == /\ WorkerAt(i, "working")
                  /\ GotoWorker(i, "waiting")
                  /\ UNCHANGED <<process, events>>

\* The semaphore, the mutex and the queue are in memory that was freed: a
\* call on them fails, and the worker returns, or the process crashes.
UsesFreedPool(i) == /\ WorkerAt(i, "waiting") /\ "semaphore" \notin have
                    /\ GotoWorker(i, "ended")
                    /\ process' \in {"running", "crashed"}
                    /\ UNCHANGED events

WorkerStep(i) == TakeEvent(i) \/ FinishEvent(i) \/ UsesFreedPool(i)

-----------------------------------------------------------------------------
(* Signals.  The kernel gives one to any thread; the mask blocks all       *)
(* others there while the handler runs.                                    *)

ThreadsNow == {Main} \cup {i \in Threads : worker[i] \notin {"none", "ended"}}

\* (signo & SIGINT) || (signo & SIGTERM), with SIGINT = 2 and SIGTERM = 15:
\* bits, not numbers.
Stops(signo) == signo % 16 # 0

Signal(t) ==
  /\ Running(t) /\ t \in ThreadsNow /\ signals < MaxSignals
  /\ signals' = signals + 1
  /\ \E signo \in Signals :
       IF "handler" \in have
       THEN /\ handling' = [handling EXCEPT ![t] =
                              IF Stops(signo) THEN "set" ELSE "send"]
            /\ UNCHANGED process
       ELSE process' = "killed" /\ UNCHANGED handling
  /\ UNCHANGED <<usesSignals, main, step, have, worker, events, isStop, inPipe,
                 pipeEdge, sendFailed>>

HandlerSets(t) ==
  /\ process = "running" /\ handling[t] = "set"
  /\ isStop' = TRUE
  /\ handling' = [handling EXCEPT ![t] = "send"]
  /\ UNCHANGED <<process, usesSignals, main, step, have, worker, events, inPipe,
                 pipeEdge, sendFailed, signals>>

\* send does not block.  When the handler returns, sem_wait and epoll_wait
\* fail with EINTR, if the thread was inside: a signal may also come just
\* before the call.
HandlerSends(t) ==
  /\ process = "running" /\ handling[t] = "send"
  /\ IF inPipe < PipeCap
     THEN inPipe' = inPipe + 1 /\ pipeEdge' = TRUE /\ UNCHANGED sendFailed
     ELSE sendFailed' = TRUE /\ UNCHANGED <<inPipe, pipeEdge>>
  /\ handling' = [handling EXCEPT ![t] = "no"]
  /\ \/ UNCHANGED <<main, worker>>
     \/ /\ t = Main /\ main = "wait"
        /\ main' = "test"
        /\ UNCHANGED worker
     \/ /\ t \in Threads /\ worker[t] = "waiting"
        /\ worker' = [worker EXCEPT ![t] = "ended"]
        /\ UNCHANGED main
  /\ UNCHANGED <<process, usesSignals, step, have, events, isStop, signals>>

HandlerStep(t) == HandlerSets(t) \/ HandlerSends(t)

Next == \/ MainStep
        \/ \E i \in Threads : WorkerStep(i)
        \/ \E t \in {Main} \cup Threads : Signal(t) \/ HandlerStep(t)

Safety == Init /\ [][Next]_vars

(* Every thread is scheduled, in its handler too.  No signal has to come.  *)
Spec == /\ Safety
        /\ WF_vars(MainStep)
        /\ \A i \in Threads : WF_vars(WorkerStep(i))
        /\ \A t \in {Main} \cup Threads : WF_vars(HandlerStep(t))

-----------------------------------------------------------------------------
(* Properties                                                              *)

TypeOK ==
  /\ process \in {"running", "exited", "aborted", "crashed", "killed"}
  /\ usesSignals \in BOOLEAN /\ step \in 0..Len(Calls)
  /\ main \in {"starting", "threw", "test", "wait", "returned", "closed",
               "destroyed"}
  /\ have \subseteq {Calls[i] : i \in 1..Len(Calls)}
  /\ worker \in [Threads -> {"none", "waiting", "working", "ended"}]
  /\ events \in 0..MaxEvents
  /\ handling \in [{Main} \cup Threads -> {"no", "set", "send"}]
  /\ isStop \in BOOLEAN /\ pipeEdge \in BOOLEAN /\ sendFailed \in BOOLEAN
  /\ inPipe \in 0..PipeCap /\ signals \in 0..MaxSignals

(* The server listens only with a pool that was set up whole, whatever     *)
(* failed before: all its threads were created, and the mutex and the      *)
(* semaphore they use exist.  In the program of main.cpp all of them are   *)
(* still there.  In one that handles signals each signal may have ended    *)
(* one of them (threadpool.cpp:70-72), never more: nothing creates threads *)
(* again, so that after enough signals the server listens with none.       *)
(* (main.cpp:46-74, threadpool.cpp:15-28)                                  *)
Ended == {i \in Threads : worker[i] = "ended"}
PoolOutlivesLoop ==
  main \in {"test", "wait"} =>
    /\ {"mutex", "semaphore", "listening", "registered"} \subseteq have
    /\ \A i \in Threads : worker[i] # "none"
    /\ Cardinality(Ended) <= IF usesSignals THEN signals ELSE 0
    /\ process # "crashed"

(* A signal that stops the server while it listens ends the loop, whatever *)
(* thread it is given to and even if it comes after the test of isStop:    *)
(* epoll reports the socket pair.  Unless the pair was full once.          *)
(* (fileserver.cpp:104-111, 121-122)                                       *)
StopEndsLoop == isStop /\ InLoop ~> ~InLoop \/ sendFailed

(* A process that has destroyed its pool ends, though nobody waits for the *)
(* threads that use it.  (threadpool.cpp:18-19, 31-34)                     *)
ProcessEndsWithPool ==
  step >= 4 /\ "semaphore" \notin have ~> process # "running"
=============================================================================
