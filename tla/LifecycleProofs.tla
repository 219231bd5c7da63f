-------------------------- MODULE LifecycleProofs --------------------------
(***************************************************************************)
(* What holds of the start-up and the end of the server for any number of  *)
(* threads, signals and events.                                            *)
(***************************************************************************)
EXTENDS Lifecycle, SequenceTheorems, FiniteSetTheorems, TLAPS

(* While the server starts or runs, it has what the calls so far have set  *)
(* up: the mutex and the semaphore, the threads created, each of them      *)
(* alive or ended, and the listener once it has got there.  Nothing is     *)
(* destroyed before the loop has returned, so no thread finds the          *)
(* semaphore gone.                                                         *)
Up == main \in {"starting", "test", "wait", "returned", "closed"}
Started == main \in {"test", "wait", "returned"}
StartInv ==
  /\ Up /\ step >= 3 => "mutex" \in have
  /\ Up /\ step >= 4 => "semaphore" \in have
  /\ Up /\ main # "starting" => step = Len(Calls)
  /\ main = "starting" =>
       /\ \A i \in Threads : worker[i] # "none" <=> i + 4 <= step
       /\ step >= ThreadNum + 7 => "listening" \in have
       /\ step >= ThreadNum + 10 => "registered" \in have
  /\ Started => /\ {"listening", "registered"} \subseteq have
                /\ \A i \in Threads : worker[i] # "none"
  /\ Up => process # "crashed"

(* Who ends a thread while the server is up is a signal, and only in a     *)
(* program that handles signals: each one that was sent has ended a thread *)
(* at most, or is still being handled.                                     *)
Busy == {t \in Threads : handling[t] # "no"}
EndedInv ==
  /\ "handler" \in have => usesSignals
  /\ Up => IF usesSignals THEN Cardinality(Ended) + Cardinality(Busy) <= signals
                          ELSE Ended = {} /\ Busy = {}

-----------------------------------------------------------------------------
(* Which call is where: the mutex and the semaphore come third and fourth, *)
(* then the threads, then the listener.                                    *)
LEMMA ConcatAt ==
  ASSUME NEW S, NEW s \in Seq(S), NEW t \in Seq(S), NEW u, u = s \o t
  PROVE  /\ u \in Seq(S) /\ Len(u) = Len(s) + Len(t)
         /\ \A i \in 1..Len(s) : u[i] = s[i]
         /\ \A i \in 1..Len(t) : u[Len(s) + i] = t[i]
OBVIOUS

CallNames == {"child", "cacheSemaphore", "mutex", "semaphore", "thread", "socket",
              "address", "listening", "epoll", "nonblocking", "registered", "pair",
              "watched", "handler"}

LEMMA CallsAt ==
  ASSUME usesSignals \in BOOLEAN
  PROVE  /\ Calls \in Seq(CallNames)
         /\ Len(Calls) = ThreadNum + IF usesSignals THEN 13 ELSE 10
         /\ Calls[3] = "mutex" /\ Calls[4] = "semaphore"
         /\ Calls[ThreadNum + 7] = "listening"
         /\ Calls[ThreadNum + 10] = "registered"
         /\ \A i \in 1..Len(Calls) :
              /\ Calls[i] = "thread" <=> i - 4 \in Threads
              /\ Calls[i] = "semaphore" => i = 4
              /\ Calls[i] = "handler" => usesSignals
<1> DEFINE S == CallNames
           first == <<"child", "cacheSemaphore">>
           sync == <<"mutex", "semaphore">>
           threads == [i \in Threads |-> "thread"]
           extra == SignalCalls
           a == first \o Pool
           b == a \o Listener
<1>1. /\ first \in Seq(S) /\ Len(first) = 2
      /\ first[1] = "child" /\ first[2] = "cacheSemaphore"
      /\ sync \in Seq(S) /\ Len(sync) = 2
      /\ sync[1] = "mutex" /\ sync[2] = "semaphore"
  BY DEF CallNames
<1>2. /\ threads \in Seq(S) /\ Len(threads) = ThreadNum
      /\ \A i \in Threads : threads[i] = "thread"
  BY LifecycleAssumption DEF CallNames, Threads
<1>3. /\ Listener \in Seq(S) /\ Len(Listener) = 6
      /\ Listener[3] = "listening" /\ Listener[6] = "registered"
      /\ \A i \in 1..6 : Listener[i] \notin {"thread", "semaphore", "handler"}
  BY DEF Listener, CallNames
<1>4. /\ extra \in Seq(S) /\ Len(extra) = IF usesSignals THEN 3 ELSE 0
      /\ \A i \in 1..Len(extra) : extra[i] \notin {"thread", "semaphore"}
      /\ Len(extra) > 0 => usesSignals
  <2>1. CASE usesSignals
    BY <2>1 DEF CallNames, SignalCalls
  <2>2. CASE ~usesSignals
    BY <2>2 DEF CallNames, SignalCalls
  <2> QED BY <2>1, <2>2
<1>n. ThreadNum \in Nat \ {0} /\ Threads = 1..ThreadNum
  BY LifecycleAssumption DEF Threads
<1> HIDE DEF S, first, sync, threads, extra, a, b
<1>5. /\ Pool \in Seq(S) /\ Len(Pool) = ThreadNum + 2
      /\ Pool[1] = "mutex" /\ Pool[2] = "semaphore"
      /\ \A i \in 1..ThreadNum : Pool[2 + i] = "thread"
  <2>1. Pool = sync \o threads
    BY DEF Pool, sync, threads
  <2>2. /\ Pool \in Seq(S) /\ Len(Pool) = Len(sync) + Len(threads)
        /\ \A i \in 1..Len(sync) : Pool[i] = sync[i]
        /\ \A i \in 1..Len(threads) : Pool[Len(sync) + i] = threads[i]
    <3>1. sync \in Seq(S) /\ threads \in Seq(S)
      BY <1>1, <1>2
    <3> QED BY <2>1, <3>1, ConcatAt
  <2>3. Pool[1] = "mutex" /\ Pool[2] = "semaphore"
    <3>1. 1 \in 1..Len(sync) /\ 2 \in 1..Len(sync)
      BY <1>1
    <3> QED BY <1>1, <2>2, <3>1
  <2>4. \A i \in 1..ThreadNum : Pool[2 + i] = "thread"
    BY <1>1, <1>2, <1>n, <2>2
  <2> QED BY <1>1, <1>2, <1>n, <2>2, <2>3, <2>4
<1>6. /\ a \in Seq(S) /\ Len(a) = ThreadNum + 4
      /\ a[1] = "child" /\ a[2] = "cacheSemaphore"
      /\ a[3] = "mutex" /\ a[4] = "semaphore"
      /\ \A i \in 1..ThreadNum : a[4 + i] = "thread"
  <2>1. /\ a \in Seq(S) /\ Len(a) = Len(first) + Len(Pool)
        /\ \A i \in 1..Len(first) : a[i] = first[i]
        /\ \A i \in 1..Len(Pool) : a[Len(first) + i] = Pool[i]
    <3>1. first \in Seq(S) /\ Pool \in Seq(S) /\ a = first \o Pool
      BY <1>1, <1>5 DEF a
    <3> QED BY <3>1, ConcatAt
  <2>2. a[1] = "child" /\ a[2] = "cacheSemaphore"
    BY <1>1, <2>1
  <2>3. a[2 + 1] = "mutex" /\ a[2 + 2] = "semaphore"
    BY <1>1, <1>5, <1>n, <2>1
  <2>4. ASSUME NEW i \in 1..ThreadNum PROVE a[4 + i] = "thread"
    <3>1. 2 + i \in 1..Len(Pool) /\ 2 + (2 + i) = 4 + i
      BY <1>5, <1>n
    <3>2. a[2 + (2 + i)] = Pool[2 + i]
      BY <1>1, <2>1, <3>1
    <3> QED BY <1>5, <3>1, <3>2
  <2> QED BY <1>1, <1>5, <1>n, <2>1, <2>2, <2>3, <2>4
<1>7. /\ b \in Seq(S) /\ Len(b) = ThreadNum + 10
      /\ \A i \in 1..(ThreadNum + 4) : b[i] = a[i]
      /\ \A i \in 1..6 : b[ThreadNum + 4 + i] = Listener[i]
  <2>1. /\ b \in Seq(S) /\ Len(b) = Len(a) + Len(Listener)
        /\ \A i \in 1..Len(a) : b[i] = a[i]
        /\ \A i \in 1..Len(Listener) : b[Len(a) + i] = Listener[i]
    <3>1. a \in Seq(S) /\ Listener \in Seq(S) /\ b = a \o Listener
      BY <1>3, <1>6 DEF b
    <3> QED BY <3>1, ConcatAt
  <2> QED BY <1>3, <1>6, <1>n, <2>1
<1>8. /\ Calls \in Seq(S) /\ Len(Calls) = ThreadNum + 10 + Len(extra)
      /\ \A i \in 1..(ThreadNum + 10) : Calls[i] = b[i]
      /\ \A i \in 1..Len(extra) : Calls[ThreadNum + 10 + i] = extra[i]
  <2>1. Calls = b \o extra
    BY <1>1, <1>3, <1>4, <1>5 DEF Calls, a, b, first, extra
  <2>2. /\ Calls \in Seq(S) /\ Len(Calls) = Len(b) + Len(extra)
        /\ \A i \in 1..Len(b) : Calls[i] = b[i]
        /\ \A i \in 1..Len(extra) : Calls[Len(b) + i] = extra[i]
    <3>1. b \in Seq(S) /\ extra \in Seq(S)
      BY <1>4, <1>7
    <3> QED BY <2>1, <3>1, ConcatAt
  <2> QED BY <1>4, <1>7, <1>n, <2>2
<1>9. /\ Calls[1] = "child" /\ Calls[2] = "cacheSemaphore"
      /\ Calls[3] = "mutex" /\ Calls[4] = "semaphore"
      /\ \A i \in 1..ThreadNum : Calls[4 + i] = "thread"
  <2>1. \A i \in 1..(ThreadNum + 4) : Calls[i] = a[i]
    BY <1>7, <1>8, <1>n
  <2>2. \A i \in 1..ThreadNum : 4 + i \in 1..(ThreadNum + 4)
    BY <1>n
  <2>3. {1, 2, 3, 4} \subseteq 1..(ThreadNum + 4)
    BY <1>n
  <2> QED BY <1>6, <2>1, <2>2, <2>3
<1>10. \A i \in 1..6 : Calls[ThreadNum + 4 + i] = Listener[i]
  <2> SUFFICES ASSUME NEW i \in 1..6 PROVE Calls[ThreadNum + 4 + i] = Listener[i]
    OBVIOUS
  <2>1. ThreadNum + 4 + i \in 1..(ThreadNum + 10)
    BY <1>n
  <2> QED BY <1>7, <1>8, <2>1
<1>11. Calls[ThreadNum + 7] = "listening" /\ Calls[ThreadNum + 10] = "registered"
  <2>1. /\ ThreadNum + 4 + 3 = ThreadNum + 7 /\ ThreadNum + 4 + 6 = ThreadNum + 10
        /\ 3 \in 1..6 /\ 6 \in 1..6
    BY <1>n
  <2> QED BY <1>3, <1>10, <2>1
<1>12. ASSUME NEW i \in 1..Len(Calls)
       PROVE  /\ Calls[i] = "thread" <=> i - 4 \in Threads
              /\ Calls[i] = "semaphore" => i = 4
              /\ Calls[i] = "handler" => usesSignals
  <2>1. i \in Nat /\ i >= 1 /\ i <= ThreadNum + 10 + Len(extra) /\ Len(extra) \in Nat
    BY <1>4, <1>8, <1>n
  <2>2. CASE i <= 4
    <3>1. i = 1 \/ i = 2 \/ i = 3 \/ i = 4
      BY <2>1, <2>2
    <3> QED BY <1>9, <1>n, <3>1
  <2>3. CASE i > 4 /\ i <= ThreadNum + 4
    <3>1. i - 4 \in 1..ThreadNum /\ 4 + (i - 4) = i
      BY <1>n, <2>1, <2>3
    <3> QED BY <1>9, <1>n, <3>1
  <2>4. CASE i > ThreadNum + 4 /\ i <= ThreadNum + 10
    <3> DEFINE k == i - (ThreadNum + 4)
    <3>1. k \in 1..6 /\ ThreadNum + 4 + k = i /\ i - 4 \notin 1..ThreadNum /\ i # 4
      BY <1>n, <2>1, <2>4
    <3>2. Calls[i] = Listener[k]
      BY <1>10, <3>1
    <3> HIDE DEF k
    <3> QED BY <1>3, <1>n, <3>1, <3>2
  <2>5. CASE i > ThreadNum + 10
    <3> DEFINE k == i - (ThreadNum + 10)
    <3>1. k \in 1..Len(extra) /\ ThreadNum + 10 + k = i /\ i - 4 \notin 1..ThreadNum
          /\ i # 4
      BY <1>n, <2>1, <2>5
    <3>2. Calls[i] = extra[k]
      BY <1>8, <3>1
    <3> HIDE DEF k
    <3> QED BY <1>4, <1>n, <3>1, <3>2
  <2> QED BY <1>n, <2>1, <2>2, <2>3, <2>4, <2>5
<1> QED BY <1>4, <1>8, <1>9, <1>11, <1>12, <1>n DEF S

-----------------------------------------------------------------------------
(* Types                                                                   *)

LEMMA Sizes == /\ ThreadNum \in Nat /\ PipeCap \in Nat
               /\ MaxSignals \in Nat /\ MaxEvents \in Nat
BY LifecycleAssumption

LEMMA LifecycleInitType == Init => TypeOK
<1> SUFFICES ASSUME Init PROVE TypeOK
  OBVIOUS
<1>1. usesSignals \in BOOLEAN
  BY DEF Init
<1>2. Len(Calls) \in Nat
  BY <1>1, CallsAt, LifecycleAssumption
<1> HIDE DEF Calls
<1>3. /\ 0 \in 0..Len(Calls) /\ 0 \in 0..MaxEvents
      /\ 0 \in 0..PipeCap /\ 0 \in 0..MaxSignals
  BY <1>2, Sizes
<1>4. worker \in [Threads -> {"none", "waiting", "working", "ended"}]
  BY DEF Init
<1>5. handling \in [{Main} \cup Threads -> {"no", "set", "send"}]
  BY DEF Init
<1> QED BY <1>1, <1>3, <1>4, <1>5 DEF Init, TypeOK

\* usesSignals never changes, and with it the calls to make do not.
LEMMA CallsStay == ASSUME UNCHANGED usesSignals PROVE Calls' = Calls
BY DEF Calls, Pool, Listener, SignalCalls

\* The call a step of the start-up makes, and the thread it makes.
LEMMA CallNow ==
  ASSUME TypeOK, step < Len(Calls)
  PROVE  /\ Len(Calls) \in Nat /\ step \in Nat /\ step + 1 \in 1..Len(Calls)
         /\ Call \in {Calls[i] : i \in 1..Len(Calls)}
         /\ Call = "thread" <=> NextThread \in Threads
         /\ Call = "semaphore" => step = 3
         /\ Call = "handler" => usesSignals
         /\ step = 2 => Call = "mutex"
         /\ step = 3 => Call = "semaphore"
         /\ step = ThreadNum + 6 => Call = "listening"
         /\ step = ThreadNum + 9 => Call = "registered"
<1>1. usesSignals \in BOOLEAN /\ step \in 0..Len(Calls) /\ ThreadNum \in Nat
  BY LifecycleAssumption DEF TypeOK
<1>2. /\ Len(Calls) = ThreadNum + IF usesSignals THEN 13 ELSE 10
      /\ Calls[3] = "mutex" /\ Calls[4] = "semaphore"
      /\ Calls[ThreadNum + 7] = "listening"
      /\ Calls[ThreadNum + 10] = "registered"
      /\ \A i \in 1..Len(Calls) :
           /\ Calls[i] = "thread" <=> i - 4 \in Threads
           /\ Calls[i] = "semaphore" => i = 4
           /\ Calls[i] = "handler" => usesSignals
  BY <1>1, CallsAt
<1> HIDE DEF Calls
<1>3. Len(Calls) \in Nat /\ step \in Nat /\ step + 1 \in 1..Len(Calls)
  BY <1>1, <1>2
<1>4. step + 1 - 4 = NextThread
  BY <1>3 DEF NextThread
<1>5. /\ Calls[step + 1] = "thread" <=> NextThread \in Threads
      /\ Calls[step + 1] = "semaphore" => step = 3
      /\ Calls[step + 1] = "handler" => usesSignals
  BY <1>2, <1>3, <1>4
<1>6. /\ step = 2 => step + 1 = 3
      /\ step = 3 => step + 1 = 4
      /\ step = ThreadNum + 6 => step + 1 = ThreadNum + 7
      /\ step = ThreadNum + 9 => step + 1 = ThreadNum + 10
  BY <1>1
<1>7. Calls[step + 1] \in {Calls[i] : i \in 1..Len(Calls)}
  BY <1>3
<1> QED BY <1>2, <1>3, <1>5, <1>6, <1>7 DEF Call

\* The parts of the type that a step of the main thread can disturb.
LEMMA LifecycleStepType == TypeOK /\ [Next]_vars => TypeOK'
<1> SUFFICES ASSUME TypeOK, [Next]_vars PROVE TypeOK'
  OBVIOUS
<1> DEFINE Names == {Calls[i] : i \in 1..Len(Calls)}
<1>1. Calls' = Calls
  <2>1. UNCHANGED usesSignals
    BY DEF Next, vars, signalVars, MainStep, CallSucceeds, CallFails, ThreadFails, Terminate,
       EnterLoop, TestStop, EpollReturns, CloseListener, DestroyPool, ReturnFromMain,
       WorkerStep, TakeEvent, FinishEvent, UsesFreedPool, GotoWorker, Signal,
       HandlerStep, HandlerSets, HandlerSends
  <2> QED BY <2>1, CallsStay
<1> HIDE DEF Calls
<1>2. /\ process \in {"running", "exited", "aborted", "crashed", "killed"}
      /\ usesSignals \in BOOLEAN /\ step \in 0..Len(Calls)
      /\ main \in {"starting", "threw", "test", "wait", "returned", "closed",
                   "destroyed"}
      /\ have \subseteq Names
      /\ worker \in [Threads -> {"none", "waiting", "working", "ended"}]
      /\ events \in 0..MaxEvents
      /\ handling \in [{Main} \cup Threads -> {"no", "set", "send"}]
      /\ isStop \in BOOLEAN /\ pipeEdge \in BOOLEAN /\ sendFailed \in BOOLEAN
      /\ inPipe \in 0..PipeCap /\ signals \in 0..MaxSignals
      /\ MaxEvents \in Nat /\ PipeCap \in Nat /\ MaxSignals \in Nat
  BY Sizes DEF TypeOK
<1> DEFINE Typed ==
      /\ process' \in {"running", "exited", "aborted", "crashed", "killed"}
      /\ usesSignals' \in BOOLEAN /\ step' \in 0..Len(Calls)
      /\ main' \in {"starting", "threw", "test", "wait", "returned", "closed",
                    "destroyed"}
      /\ have' \subseteq Names
      /\ worker' \in [Threads -> {"none", "waiting", "working", "ended"}]
      /\ events' \in 0..MaxEvents
      /\ handling' \in [{Main} \cup Threads -> {"no", "set", "send"}]
      /\ isStop' \in BOOLEAN /\ pipeEdge' \in BOOLEAN /\ sendFailed' \in BOOLEAN
      /\ inPipe' \in 0..PipeCap /\ signals' \in 0..MaxSignals
<1>3. Typed => TypeOK'
  BY <1>1 DEF TypeOK
<1> HIDE DEF Names
<1>4. SUFFICES Typed
  BY <1>3
<1>5. CASE CallSucceeds
  <2>1. step < Len(Calls)
    BY <1>5 DEF CallSucceeds
  <2>2. /\ Len(Calls) \in Nat /\ step \in Nat /\ step + 1 \in 1..Len(Calls)
        /\ Call \in Names
        /\ Call = "thread" <=> NextThread \in Threads
    BY <2>1, CallNow DEF Names
  <2>3. step' \in 0..Len(Calls) /\ have' \subseteq Names
    BY <1>2, <1>5, <2>2 DEF CallSucceeds
  <2>4. worker' \in [Threads -> {"none", "waiting", "working", "ended"}]
    BY <1>2, <1>5, <2>2 DEF CallSucceeds
  <2> QED BY <1>2, <1>5, <2>3, <2>4 DEF CallSucceeds, signalVars
<1>6. CASE CallFails
  BY <1>2, <1>6 DEF CallFails, signalVars
<1>7. CASE ThreadFails
  <2>1. step < Len(Calls) /\ Call = "thread"
    BY <1>7 DEF ThreadFails
  <2>2. NextThread \in Threads
    BY <2>1, CallNow
  <2>3. worker' \in [Threads -> {"none", "waiting", "working", "ended"}]
    BY <1>2, <1>7, <2>2 DEF ThreadFails
  <2> QED BY <1>2, <1>7, <2>3 DEF ThreadFails, signalVars
<1>8. CASE Terminate \/ EnterLoop \/ TestStop
  BY <1>2, <1>8 DEF Terminate, EnterLoop, TestStop, signalVars
<1>9. CASE EpollReturns
  <2>1. events' \in 0..MaxEvents
    BY <1>2, <1>9 DEF EpollReturns
  <2>2. pipeEdge' \in BOOLEAN
    BY <1>2, <1>9 DEF EpollReturns
  <2> QED BY <1>2, <1>9, <2>1, <2>2 DEF EpollReturns
<1>10. CASE CloseListener \/ DestroyPool \/ ReturnFromMain
  BY <1>2, <1>10 DEF CloseListener, DestroyPool, ReturnFromMain, signalVars
<1>11. CASE \E i \in Threads : WorkerStep(i)
  <2>1. PICK i \in Threads : WorkerStep(i)
    BY <1>11
  <2>2. CASE TakeEvent(i)
    BY <1>2, <2>2 DEF TakeEvent, GotoWorker, signalVars
  <2>3. CASE FinishEvent(i)
    BY <1>2, <2>3 DEF FinishEvent, GotoWorker, signalVars
  <2>4. CASE UsesFreedPool(i)
    BY <1>2, <2>4 DEF UsesFreedPool, GotoWorker, signalVars
  <2> QED BY <2>1, <2>2, <2>3, <2>4 DEF WorkerStep
<1>12. CASE \E t \in {Main} \cup Threads : Signal(t) \/ HandlerStep(t)
  <2>1. PICK t \in {Main} \cup Threads : Signal(t) \/ HandlerStep(t)
    BY <1>12
  <2>2. CASE Signal(t)
    BY <1>2, <2>2 DEF Signal
  <2>3. CASE HandlerSets(t)
    BY <1>2, <2>3 DEF HandlerSets
  <2>4. CASE HandlerSends(t)
    <3>1. inPipe' \in 0..PipeCap
      BY <1>2, <2>4 DEF HandlerSends
    <3>2. pipeEdge' \in BOOLEAN /\ sendFailed' \in BOOLEAN
      <4>1. CASE inPipe < PipeCap
        BY <1>2, <2>4, <4>1 DEF HandlerSends
      <4>2. CASE ~(inPipe < PipeCap)
        BY <1>2, <2>4, <4>2 DEF HandlerSends
      <4> QED BY <4>1, <4>2
    <3>3. /\ worker' \in [Threads -> {"none", "waiting", "working", "ended"}]
          /\ main' \in {"starting", "threw", "test", "wait", "returned", "closed",
                        "destroyed"}
      BY <1>2, <2>4 DEF HandlerSends
    <3> QED BY <1>2, <2>4, <3>1, <3>2, <3>3 DEF HandlerSends
  <2> QED BY <2>1, <2>2, <2>3, <2>4 DEF HandlerStep
<1>13. CASE UNCHANGED vars
  BY <1>2, <1>13 DEF vars, signalVars
<1> QED BY <1>5, <1>6, <1>7, <1>8, <1>9, <1>10, <1>11, <1>12, <1>13 DEF Next, MainStep

(* Every variable keeps its type, whatever fails and whenever a signal     *)
(* comes.                                                                  *)
THEOREM LifecycleTypeCorrect == Safety => []TypeOK
<1>1. Init => TypeOK
  BY LifecycleInitType
<1>2. TypeOK /\ [Next]_vars => TypeOK'
  BY LifecycleStepType
<1> QED BY <1>1, <1>2, PTL DEF Safety

-----------------------------------------------------------------------------
(* The start-up                                                            *)

\* While the server is up, a thread there is finds the semaphore there.
LEMMA UpHasSemaphore ==
  ASSUME TypeOK, StartInv, Up, NEW i \in Threads, worker[i] # "none"
  PROVE  "semaphore" \in have
<1>1. i \in Nat /\ i >= 1 /\ step \in Nat /\ Len(Calls) >= 4
  <2>1. /\ Len(Calls) = ThreadNum + IF usesSignals THEN 13 ELSE 10
        /\ step \in 0..Len(Calls) /\ usesSignals \in BOOLEAN
    BY CallsAt DEF TypeOK
  <2> HIDE DEF Calls
  <2> QED BY <2>1, Sizes DEF Threads
<1> HIDE DEF Calls
<1>2. step >= 4
  <2>1. CASE main = "starting"
    BY <1>1, <2>1 DEF StartInv
  <2>2. CASE main # "starting"
    BY <1>1, <2>2 DEF StartInv
  <2> QED BY <2>1, <2>2
<1> QED BY <1>2 DEF StartInv

\* A step that makes no call of the start-up and destroys nothing.
LEMMA StartStays ==
  ASSUME TypeOK, StartInv, UNCHANGED <<usesSignals, step, have>>,
         Up' => /\ Up /\ process' # "crashed"
                /\ \A i \in Threads : worker[i] # "none" <=> worker'[i] # "none",
         main' = "starting" => main = "starting",
         Up' /\ main' # "starting" => main # "starting" \/ step = Len(Calls),
         Started' => Started \/ (main = "starting" /\ step = Len(Calls))
  PROVE  StartInv'
<1>1. Calls' = Calls
  BY CallsStay
<1>2. /\ Len(Calls) \in Nat /\ step \in Nat /\ Len(Calls) >= ThreadNum + 10
      /\ ThreadNum \in Nat /\ \A i \in Threads : i \in Nat /\ i <= ThreadNum
  <2>1. /\ Len(Calls) = ThreadNum + IF usesSignals THEN 13 ELSE 10
        /\ step \in 0..Len(Calls) /\ usesSignals \in BOOLEAN
    BY CallsAt DEF TypeOK
  <2> HIDE DEF Calls
  <2> QED BY <2>1, Sizes DEF Threads
<1> HIDE DEF Calls
<1>3. /\ Up' /\ step' >= 3 => "mutex" \in have'
      /\ Up' /\ step' >= 4 => "semaphore" \in have'
      /\ Up' => process' # "crashed"
  BY DEF StartInv
<1>4. Up' /\ main' # "starting" => step' = Len(Calls')
  BY <1>1 DEF StartInv
<1>5. ASSUME main' = "starting"
      PROVE  /\ \A i \in Threads : worker'[i] # "none" <=> i + 4 <= step'
             /\ step' >= ThreadNum + 7 => "listening" \in have'
             /\ step' >= ThreadNum + 10 => "registered" \in have'
  BY <1>5 DEF StartInv, Up
<1>6. ASSUME Started'
      PROVE  /\ {"listening", "registered"} \subseteq have'
             /\ \A i \in Threads : worker'[i] # "none"
  <2>1. Up'
    BY <1>6 DEF Started, Up
  <2>2. CASE Started
    BY <2>1, <2>2 DEF StartInv
  <2>3. CASE main = "starting" /\ step = Len(Calls)
    <3>1. /\ step >= ThreadNum + 7 /\ step >= ThreadNum + 10
          /\ \A i \in Threads : i + 4 <= step
      BY <1>2, <2>3
    <3> QED BY <2>1, <2>3, <3>1 DEF StartInv
  <2> QED BY <1>6, <2>2, <2>3
<1> QED BY <1>3, <1>4, <1>5, <1>6 DEF StartInv

LEMMA CallSucceedsStart ==
  ASSUME TypeOK, StartInv, CallSucceeds PROVE StartInv'
<1>1. /\ main = "starting" /\ step < Len(Calls) /\ main' = "starting"
      /\ step' = step + 1 /\ have' = have \cup {Call} /\ process' = process
      /\ worker' = IF Call = "thread"
                   THEN [worker EXCEPT ![NextThread] = "waiting"] ELSE worker
  BY DEF CallSucceeds, MainAt
<1> HIDE DEF Calls, Call
<1>2. /\ step \in Nat
      /\ Call = "thread" <=> NextThread \in Threads
      /\ step = 2 => Call = "mutex"
      /\ step = 3 => Call = "semaphore"
      /\ step = ThreadNum + 6 => Call = "listening"
      /\ step = ThreadNum + 9 => Call = "registered"
  BY <1>1, CallNow
<1>3. /\ Up /\ Up' /\ ~Started'
      /\ worker \in [Threads -> {"none", "waiting", "working", "ended"}]
  BY <1>1 DEF Up, Started, TypeOK
<1>4. /\ step' >= 3 => "mutex" \in have'
      /\ step' >= 4 => "semaphore" \in have'
  BY <1>1, <1>2, <1>3 DEF StartInv
<1>5. /\ step' >= ThreadNum + 7 => "listening" \in have'
      /\ step' >= ThreadNum + 10 => "registered" \in have'
  BY <1>1, <1>2, Sizes DEF StartInv
<1>6. ASSUME NEW i \in Threads PROVE worker'[i] # "none" <=> i + 4 <= step'
  <2>1. worker[i] # "none" <=> i + 4 <= step
    BY <1>1 DEF StartInv
  <2>2. i \in Nat
    BY DEF Threads
  <2>3. CASE Call = "thread" /\ i = NextThread
    BY <1>1, <1>2, <1>3, <2>2, <2>3 DEF NextThread
  <2>4. CASE Call = "thread" /\ i # NextThread
    <3>1. worker'[i] = worker[i]
      BY <1>1, <1>3, <2>4
    <3> QED BY <1>1, <1>2, <2>1, <2>2, <2>4, <3>1 DEF NextThread
  <2>5. CASE Call # "thread"
    <3>1. i # NextThread
      BY <1>2, <2>5
    <3> QED BY <1>1, <1>2, <2>1, <2>2, <2>5, <3>1 DEF NextThread
  <2> QED BY <2>3, <2>4, <2>5
<1>7. process' # "crashed"
  BY <1>1, <1>3 DEF StartInv
<1> QED BY <1>1, <1>3, <1>4, <1>5, <1>6, <1>7 DEF StartInv

LEMMA LifecycleInitStart == Init => StartInv
<1> SUFFICES ASSUME Init PROVE StartInv
  OBVIOUS
<1>1. /\ main = "starting" /\ step = 0 /\ process = "running"
      /\ \A i \in Threads : worker[i] = "none" /\ i \in Nat
  BY DEF Init, Threads
<1>2. ~Started /\ ~(step >= 3) /\ ~(step >= 4) /\ ThreadNum \in Nat
  BY <1>1, Sizes DEF Started
<1>3. ~(step >= ThreadNum + 7) /\ ~(step >= ThreadNum + 10)
  BY <1>1, <1>2
<1>4. \A i \in Threads : ~(i + 4 <= step)
  BY <1>1
<1> QED BY <1>1, <1>2, <1>3, <1>4 DEF StartInv

LEMMA LifecycleStepStart == TypeOK /\ StartInv /\ [Next]_vars => StartInv'
<1> SUFFICES ASSUME TypeOK, StartInv, [Next]_vars PROVE StartInv'
  OBVIOUS
<1> HIDE DEF Calls
<1>1. worker \in [Threads -> {"none", "waiting", "working", "ended"}]
  BY DEF TypeOK
<1>2. ASSUME \/ CallFails /\ main' = "threw"
             \/ ThreadFails \/ Terminate \/ DestroyPool \/ ReturnFromMain
      PROVE  StartInv'
  <2>1. main' \in {"threw", "destroyed"}
    BY <1>2 DEF ThreadFails, Terminate, DestroyPool, ReturnFromMain, MainAt
  <2>2. ~Up' /\ ~Started' /\ main' # "starting"
    BY <2>1 DEF Up, Started
  <2> QED BY <2>2 DEF StartInv
<1>3. CASE CallSucceeds
  BY <1>3, CallSucceedsStart
<1>4. CASE CallFails
  <2>1. CASE main' = "threw"
    BY <1>2, <1>4, <2>1
  <2>2. CASE main' # "threw"
    <3>1. /\ main = "starting" /\ process' = "exited"
          /\ UNCHANGED <<main, worker, usesSignals, step, have>>
      BY <1>4, <2>2 DEF CallFails, MainAt
    <3> QED BY <3>1, StartStays DEF Up, Started
  <2> QED BY <2>1, <2>2
<1>5. CASE EnterLoop
  <2>1. /\ main = "starting" /\ step = Len(Calls) /\ main' = "test"
        /\ process' = "running"
        /\ UNCHANGED <<worker, usesSignals, step, have>>
    BY <1>5 DEF EnterLoop, MainAt, Running
  <2> QED BY <2>1, StartStays DEF Up, Started
<1>6. CASE TestStop
  <2>1. /\ main = "test" /\ main' \in {"returned", "wait"} /\ process' = "running"
        /\ UNCHANGED <<worker, usesSignals, step, have>>
    BY <1>6 DEF TestStop, MainAt, Running
  <2> QED BY <2>1, StartStays DEF Up, Started
<1>7. CASE EpollReturns
  <2>1. /\ main = "wait" /\ main' = "test" /\ process' = "running"
        /\ UNCHANGED <<worker, usesSignals, step, have>>
    BY <1>7 DEF EpollReturns, MainAt, Running
  <2> QED BY <2>1, StartStays DEF Up, Started
<1>8. CASE CloseListener
  <2>1. /\ main = "returned" /\ main' = "closed" /\ process' = "running"
        /\ {"mutex", "semaphore"} \cap have \subseteq have'
        /\ UNCHANGED <<step, usesSignals>>
    BY <1>8 DEF CloseListener, MainAt, Running
  <2>2. Up /\ ~Started' /\ Calls' = Calls
    BY <2>1, CallsStay DEF Up, Started
  <2> QED BY <2>1, <2>2 DEF StartInv
<1>9. CASE \E i \in Threads : WorkerStep(i)
  <2>1. PICK i \in Threads : WorkerStep(i)
    BY <1>9
  <2>2. /\ worker[i] \in {"waiting", "working"} /\ process = "running"
        /\ \E place \in {"waiting", "working", "ended"} :
             worker' = [worker EXCEPT ![i] = place]
        /\ UNCHANGED <<usesSignals, main, step, have>>
    BY <2>1 DEF WorkerStep, TakeEvent, FinishEvent, UsesFreedPool, GotoWorker,
       WorkerAt, Running
  <2>3. \A k \in Threads : worker[k] # "none" <=> worker'[k] # "none"
    BY <1>1, <2>2
  <2>4. ASSUME Up' PROVE Up /\ process' # "crashed"
    <3>1. Up
      BY <2>2, <2>4 DEF Up
    <3>2. "semaphore" \in have
      BY <2>2, <3>1, UpHasSemaphore
    <3>3. process' = process
      BY <2>1, <3>2 DEF WorkerStep, TakeEvent, FinishEvent, UsesFreedPool
    <3> QED BY <2>2, <3>1, <3>3
  <2>5. /\ main' = "starting" => main = "starting"
        /\ Up' /\ main' # "starting" => main # "starting" \/ step = Len(Calls)
        /\ Started' => Started \/ (main = "starting" /\ step = Len(Calls))
    BY <2>2 DEF Started
  <2> QED BY <2>2, <2>3, <2>4, <2>5, StartStays
<1>10. CASE \E t \in {Main} \cup Threads : Signal(t) \/ HandlerStep(t)
  <2>1. PICK t \in {Main} \cup Threads : Signal(t) \/ HandlerStep(t)
    BY <1>10
  <2>2. /\ process' \in {"running", "killed"}
        /\ UNCHANGED <<usesSignals, step, have>>
        /\ \/ main' = main
           \/ main = "wait" /\ main' = "test"
        /\ \/ worker' = worker
           \/ /\ t \in Threads /\ worker[t] = "waiting"
              /\ worker' = [worker EXCEPT ![t] = "ended"]
    BY <2>1 DEF Signal, HandlerStep, HandlerSets, HandlerSends, Running
  <2>3. \A k \in Threads : worker[k] # "none" <=> worker'[k] # "none"
    BY <1>1, <2>2
  <2>4. /\ main' = "starting" => main = "starting"
        /\ Up' => Up
        /\ Up' /\ main' # "starting" => main # "starting" \/ step = Len(Calls)
        /\ Started' => Started \/ (main = "starting" /\ step = Len(Calls))
    BY <2>2 DEF Started, Up
  <2> QED BY <2>2, <2>3, <2>4, StartStays
<1>11. CASE UNCHANGED vars
  <2>1. UNCHANGED <<process, usesSignals, main, step, have, worker>>
    BY <1>11 DEF vars
  <2>2. Up' => Up /\ process' # "crashed"
    BY <2>1 DEF StartInv, Up
  <2> QED BY <2>1, <2>2, StartStays DEF Started
<1> QED BY <1>2, <1>3, <1>4, <1>5, <1>6, <1>7, <1>8, <1>9, <1>10, <1>11
        DEF Next, MainStep

-----------------------------------------------------------------------------
(* Which threads have ended                                                *)

LEMMA ThreadSets ==
  /\ IsFiniteSet(Threads) /\ IsFiniteSet(Ended) /\ IsFiniteSet(Busy)
  /\ Cardinality(Ended) \in Nat /\ Cardinality(Busy) \in Nat
<1>1. IsFiniteSet(Threads)
  BY Sizes, FS_Interval DEF Threads
<1>2. Ended \subseteq Threads /\ Busy \subseteq Threads
  BY DEF Ended, Busy
<1>3. IsFiniteSet(Ended) /\ IsFiniteSet(Busy)
  BY <1>1, <1>2, FS_Subset
<1> QED BY <1>1, <1>3, FS_CardinalityType

\* A step that ends no thread and sends no signal to a worker.
LEMMA EndedStays ==
  ASSUME TypeOK, TypeOK', EndedInv, UNCHANGED usesSignals, Up' => Up,
         "handler" \in have' => "handler" \in have \/ usesSignals,
         Up' => /\ \A i \in Threads : worker'[i] = "ended" => worker[i] = "ended"
                /\ \A i \in Threads : handling'[i] # "no" => handling[i] # "no",
         signals <= signals'
  PROVE  EndedInv'
<1>1. SUFFICES ASSUME Up'
               PROVE  IF usesSignals
                      THEN Cardinality(Ended') + Cardinality(Busy') <= signals'
                      ELSE Ended' = {} /\ Busy' = {}
  BY DEF EndedInv
<1>2. Ended' \subseteq Ended /\ Busy' \subseteq Busy
  BY <1>1 DEF Ended, Busy
<1>3. /\ IsFiniteSet(Ended) /\ IsFiniteSet(Busy)
      /\ Cardinality(Ended) \in Nat /\ Cardinality(Busy) \in Nat
  BY ThreadSets
<1>4. /\ IsFiniteSet(Ended') /\ IsFiniteSet(Busy')
      /\ Cardinality(Ended') <= Cardinality(Ended)
      /\ Cardinality(Busy') <= Cardinality(Busy)
  BY <1>2, <1>3, FS_Subset
<1>5. Cardinality(Ended') \in Nat /\ Cardinality(Busy') \in Nat
  BY <1>4, FS_CardinalityType
<1>6. signals \in Nat /\ signals' \in Nat
  BY Sizes DEF TypeOK
<1>7. IF usesSignals THEN Cardinality(Ended) + Cardinality(Busy) <= signals
                     ELSE Ended = {} /\ Busy = {}
  BY <1>1 DEF EndedInv
<1>8. CASE usesSignals
  BY <1>3, <1>4, <1>5, <1>6, <1>7, <1>8
<1>9. CASE ~usesSignals
  BY <1>2, <1>7, <1>9
<1> QED BY <1>8, <1>9

\* A worker begins to handle a signal.
LEMMA SignalEnded ==
  ASSUME TypeOK, TypeOK', EndedInv, NEW t \in {Main} \cup Threads, Signal(t)
  PROVE  EndedInv'
<1>1. /\ UNCHANGED <<usesSignals, main, have, worker>>
      /\ signals' = signals + 1 /\ handling[t] = "no"
      /\ \/ handling' = handling
         \/ /\ "handler" \in have
            /\ \E p \in {"set", "send"} : handling' = [handling EXCEPT ![t] = p]
  BY DEF Signal, Running
<1>2. /\ signals \in Nat /\ handling \in [{Main} \cup Threads -> {"no", "set", "send"}]
      /\ signals <= signals' /\ (Up' <=> Up) /\ Ended' = Ended
  BY <1>1, Sizes DEF TypeOK, Up, Ended
<1>3. CASE handling' = handling
  BY <1>1, <1>2, <1>3, EndedStays
<1>4. CASE handling' # handling
  <2>1. PICK p \in {"set", "send"} : handling' = [handling EXCEPT ![t] = p]
    BY <1>1, <1>4
  <2>2. usesSignals /\ usesSignals'
    BY <1>1, <1>4 DEF EndedInv
  <2>3. t \in Threads => Busy' = Busy \cup {t} /\ t \notin Busy
    BY <1>1, <1>2, <2>1 DEF Busy
  <2>4. t \notin Threads => Busy' = Busy
    BY <1>2, <2>1 DEF Busy
  <2>5. Cardinality(Busy') <= Cardinality(Busy) + 1 /\ Cardinality(Busy') \in Nat
    <3>1. CASE t \in Threads
      <4>1. Cardinality(Busy') = Cardinality(Busy) + 1
        BY <2>3, <3>1, ThreadSets, FS_AddElement
      <4> QED BY <4>1, ThreadSets
    <3>2. CASE t \notin Threads
      BY <2>4, <3>2, ThreadSets
    <3> QED BY <3>1, <3>2
  <2>6. Up => Cardinality(Ended) + Cardinality(Busy) <= signals
    BY <2>2 DEF EndedInv
  <2>7. Up' => Cardinality(Ended') + Cardinality(Busy') <= signals'
    BY <1>1, <1>2, <2>5, <2>6, ThreadSets
  <2> QED BY <1>1, <2>2, <2>7 DEF EndedInv
<1> QED BY <1>3, <1>4

\* A worker is through with a signal, which may have ended it.
LEMMA SentEnded ==
  ASSUME TypeOK, TypeOK', EndedInv, NEW t \in {Main} \cup Threads, HandlerSends(t)
  PROVE  EndedInv'
<1>1. /\ UNCHANGED <<usesSignals, have, signals>>
      /\ handling[t] = "send" /\ handling' = [handling EXCEPT ![t] = "no"]
      /\ main' = main \/ (main = "wait" /\ main' = "test")
      /\ \/ worker' = worker
         \/ /\ t \in Threads /\ worker[t] = "waiting"
            /\ worker' = [worker EXCEPT ![t] = "ended"]
  BY DEF HandlerSends
<1>2. /\ signals \in Nat /\ handling \in [{Main} \cup Threads -> {"no", "set", "send"}]
      /\ worker \in [Threads -> {"none", "waiting", "working", "ended"}]
      /\ signals <= signals' /\ (Up' <=> Up)
  BY <1>1, Sizes DEF TypeOK, Up
<1>3. \A i \in Threads : handling'[i] # "no" => handling[i] # "no"
  BY <1>1, <1>2
<1>4. CASE worker' = worker
  BY <1>1, <1>2, <1>3, <1>4, EndedStays
<1>5. CASE worker' # worker
  <2>1. /\ t \in Threads /\ Ended' = Ended \cup {t} /\ t \notin Ended
        /\ Busy' = Busy \ {t} /\ t \in Busy
    BY <1>1, <1>2, <1>5 DEF Ended, Busy
  <2>2. Cardinality(Ended') = Cardinality(Ended) + 1
    BY <2>1, ThreadSets, FS_AddElement
  <2>3. Cardinality(Busy') = Cardinality(Busy) - 1
    BY <2>1, ThreadSets, FS_RemoveElement
  <2>4. Up => usesSignals /\ Cardinality(Ended) + Cardinality(Busy) <= signals
    BY <2>1 DEF EndedInv
  <2>5. Up' => usesSignals' /\ Cardinality(Ended') + Cardinality(Busy') <= signals'
    BY <1>1, <1>2, <2>2, <2>3, <2>4, ThreadSets
  <2> QED BY <1>1, <2>5 DEF EndedInv
<1> QED BY <1>4, <1>5

LEMMA LifecycleInitEnded == Init => EndedInv
<1> SUFFICES ASSUME Init PROVE EndedInv
  OBVIOUS
<1>1. Ended = {} /\ Busy = {} /\ have = {} /\ signals = 0
  BY DEF Init, Ended, Busy
<1>2. Cardinality(Ended) = 0 /\ Cardinality(Busy) = 0
  BY <1>1, FS_EmptySet
<1> QED BY <1>1, <1>2 DEF EndedInv

LEMMA LifecycleStepEnded ==
  TypeOK /\ TypeOK' /\ StartInv /\ EndedInv /\ [Next]_vars => EndedInv'
<1> SUFFICES ASSUME TypeOK, TypeOK', StartInv, EndedInv, [Next]_vars PROVE EndedInv'
  OBVIOUS
<1> HIDE DEF Calls, Call
<1>1. /\ worker \in [Threads -> {"none", "waiting", "working", "ended"}]
      /\ signals \in Nat /\ signals <= signals
  BY Sizes DEF TypeOK
<1>2. CASE CallSucceeds
  <2>1. /\ main = "starting" /\ main' = "starting" /\ step < Len(Calls)
        /\ have' = have \cup {Call}
        /\ \/ worker' = worker
           \/ worker' = [worker EXCEPT ![NextThread] = "waiting"]
        /\ UNCHANGED <<usesSignals, handling, signals>>
    BY <1>2 DEF CallSucceeds, MainAt, signalVars
  <2>2. Call = "handler" => usesSignals
    BY <2>1, CallNow
  <2>3. \A i \in Threads : worker'[i] = "ended" => worker[i] = "ended"
    BY <1>1, <2>1
  <2> QED BY <1>1, <2>1, <2>2, <2>3, EndedStays DEF Up
<1>3. CASE CallFails \/ ThreadFails \/ Terminate \/ EnterLoop \/ TestStop
           \/ EpollReturns \/ CloseListener \/ DestroyPool \/ ReturnFromMain
           \/ UNCHANGED vars
  <2>1. /\ have' \subseteq have /\ UNCHANGED <<usesSignals, handling, signals>>
        /\ Up' => Up /\ worker' = worker
    BY <1>3 DEF CallFails, ThreadFails, Terminate, EnterLoop, TestStop, EpollReturns,
       CloseListener, DestroyPool, ReturnFromMain, MainAt, vars, signalVars, Up
  <2> QED BY <1>1, <2>1, EndedStays
<1>4. CASE \E i \in Threads : WorkerStep(i)
  <2>1. PICK i \in Threads : WorkerStep(i)
    BY <1>4
  <2>2. /\ worker[i] \in {"waiting", "working"}
        /\ UNCHANGED <<usesSignals, main, have, handling, signals>>
    BY <2>1 DEF WorkerStep, TakeEvent, FinishEvent, UsesFreedPool, GotoWorker,
       WorkerAt, signalVars
  <2>3. Up' <=> Up
    BY <2>2 DEF Up
  <2>4. ASSUME Up, NEW k \in Threads, worker'[k] = "ended" PROVE worker[k] = "ended"
    <3>1. "semaphore" \in have
      BY <2>2, <2>4, UpHasSemaphore
    <3>2. \E place \in {"waiting", "working"} :
            worker' = [worker EXCEPT ![i] = place]
      BY <2>1, <3>1 DEF WorkerStep, TakeEvent, FinishEvent, UsesFreedPool, GotoWorker
    <3> QED BY <1>1, <2>4, <3>2
  <2> QED BY <1>1, <2>2, <2>3, <2>4, EndedStays
<1>5. CASE \E t \in {Main} \cup Threads : Signal(t) \/ HandlerStep(t)
  <2>1. PICK t \in {Main} \cup Threads : Signal(t) \/ HandlerStep(t)
    BY <1>5
  <2>2. CASE Signal(t)
    BY <2>2, SignalEnded
  <2>3. CASE HandlerSets(t)
    <3>1. /\ UNCHANGED <<usesSignals, main, have, worker, signals>>
          /\ handling[t] = "set" /\ handling' = [handling EXCEPT ![t] = "send"]
      BY <2>3 DEF HandlerSets
    <3>2. handling \in [{Main} \cup Threads -> {"no", "set", "send"}]
      BY DEF TypeOK
    <3>3. \A i \in Threads : handling'[i] # "no" => handling[i] # "no"
      BY <3>1, <3>2
    <3> QED BY <1>1, <3>1, <3>3, EndedStays DEF Up
  <2>4. CASE HandlerSends(t)
    BY <2>4, SentEnded
  <2> QED BY <2>1, <2>2, <2>3, <2>4 DEF HandlerStep
<1> QED BY <1>2, <1>3, <1>4, <1>5 DEF Next, MainStep

(* The server never listens without its pool: in the loop of waitEpoll the *)
(* mutex and the semaphore exist, every thread has been created, and no    *)
(* thread finds the pool freed.  In the program of main.cpp none has       *)
(* ended; in one that handles signals no more have than signals were sent. *)
(* However many threads there are, whichever call of the start-up fails    *)
(* and whenever signals come.                                              *)
(* (main.cpp:46-74, threadpool.cpp:15-28, 70-72)                           *)
THEOREM PoolIsThere == Safety => []PoolOutlivesLoop
<1>1. Init => TypeOK /\ StartInv /\ EndedInv
  BY LifecycleInitType, LifecycleInitStart, LifecycleInitEnded
<1>2. TypeOK /\ StartInv /\ EndedInv /\ [Next]_vars => (TypeOK /\ StartInv /\ EndedInv)'
  BY LifecycleStepType, LifecycleStepStart, LifecycleStepEnded
<1>3. TypeOK /\ StartInv /\ EndedInv => PoolOutlivesLoop
  <2> SUFFICES ASSUME TypeOK, StartInv, EndedInv, main \in {"test", "wait"}
               PROVE  /\ {"mutex", "semaphore", "listening", "registered"} \subseteq have
                      /\ \A i \in Threads : worker[i] # "none"
                      /\ Cardinality(Ended) <= IF usesSignals THEN signals ELSE 0
                      /\ process # "crashed"
    BY DEF PoolOutlivesLoop
  <2>1. Up /\ Started /\ main # "starting"
    BY DEF Up, Started
  <2>2. step >= 4
    <3>1. /\ Len(Calls) = ThreadNum + IF usesSignals THEN 13 ELSE 10
          /\ usesSignals \in BOOLEAN
      BY CallsAt DEF TypeOK
    <3> HIDE DEF Calls
    <3>2. step = Len(Calls)
      BY <2>1 DEF StartInv
    <3> QED BY <3>1, <3>2, Sizes
  <2> HIDE DEF Calls
  <2>3. step >= 3
    BY <2>2 DEF TypeOK
  <2>4. Cardinality(Ended) <= IF usesSignals THEN signals ELSE 0
    <3>1. signals \in Nat
      BY Sizes DEF TypeOK
    <3>2. CASE usesSignals
      <4>1. Cardinality(Ended) + Cardinality(Busy) <= signals
        BY <2>1, <3>2 DEF EndedInv
      <4> QED BY <3>1, <3>2, <4>1, ThreadSets
    <3>3. CASE ~usesSignals
      <4>1. Ended = {}
        BY <2>1, <3>3 DEF EndedInv
      <4>2. Cardinality(Ended) = 0
        BY <4>1, FS_EmptySet
      <4> QED BY <3>3, <4>2
    <3> QED BY <3>2, <3>3
  <2> QED BY <2>1, <2>2, <2>3, <2>4 DEF StartInv
<1> QED BY <1>1, <1>2, <1>3, PTL DEF Safety
=============================================================================
