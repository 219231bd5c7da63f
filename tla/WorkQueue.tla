----------------------------- MODULE WorkQueue -----------------------------
(***************************************************************************)
(* What the thread pool promises its user, the event loop: events are      *)
(* handed to workers in the order in which they were submitted, each one   *)
(* to exactly one worker, and a worker handles one event at a time.        *)
(* ThreadPool implements this specification; Reactor is built on it.       *)
(***************************************************************************)
EXTENDS Sequences

CONSTANTS Workers,   \* the worker threads
          Events,    \* what can be submitted
          NoEvent    \* what an idle worker handles

VARIABLES queue,     \* events submitted and not yet taken, oldest first
          running    \* running[w]: the event worker w handles, or NoEvent

vars == <<queue, running>>

Init == /\ queue = <<>>
        /\ running = [w \in Workers |-> NoEvent]

\* The event loop submits e.
Submit(e) == /\ queue' = Append(queue, e)
             /\ UNCHANGED running

\* The idle worker w takes the oldest event.
Take(w) == /\ running[w] = NoEvent
           /\ queue # <<>>
           /\ running' = [running EXCEPT ![w] = Head(queue)]
           /\ queue' = Tail(queue)

\* Worker w is done with its event.
Finish(w) == /\ running[w] # NoEvent
             /\ running' = [running EXCEPT ![w] = NoEvent]
             /\ UNCHANGED queue

Next == \/ \E e \in Events : Submit(e)
        \/ \E w \in Workers : Take(w) \/ Finish(w)

Safety == Init /\ [][Next]_vars

\* Work is not left lying while a worker is idle, and handlers return.
Spec == /\ Safety
        /\ WF_vars(\E w \in Workers : Take(w))
        /\ \A w \in Workers : WF_vars(Finish(w))
=============================================================================
