------------------------------ MODULE Exchange ------------------------------
(***************************************************************************)
(* What the server promises, without its threads, events, buffers and      *)
(* maps: a connection is what its client asked and what was replied, one   *)
(* reply for each request, in order; there is one file, which requests of  *)
(* all connections ask for, delete and upload.  A reply says what was true *)
(* at one moment between its request and its arrival.                      *)
(***************************************************************************)
EXTENDS Naturals, Sequences

CONSTANTS Conns,  \* connections that may be open at the same time
          Kinds   \* kinds of requests

VARIABLES asked,    \* asked[c]: the requests made on c
          replied,  \* replied[c]: the replies decided, sent or not
          settled,  \* connections whose next reply follows a delete or a
                    \* download that failed
          present,  \* whether the file exists
          full      \* whether the descriptors of the server are used up
vars == <<asked, replied, settled, present, full>>

Init == /\ asked = [c \in Conns |-> <<>>]
        /\ replied = [c \in Conns |-> <<>>]
        /\ settled = {}
        /\ present = TRUE
        /\ full \in BOOLEAN

Owed(c) == Len(replied[c]) < Len(asked[c])
DueKind(c) == asked[c][Len(replied[c]) + 1]
Due(c, k) == Owed(c) /\ DueKind(c) = k

Ask(c) == /\ \E k \in Kinds : asked' = [asked EXCEPT ![c] = Append(@, k)]
          /\ UNCHANGED <<replied, settled, present>>

Delete(c) == /\ Due(c, "del") /\ c \notin settled
             /\ present' = FALSE
             /\ settled' = settled \cup {c}
             /\ UNCHANGED <<asked, replied>>

\* The file to download cannot be opened.
Miss(c) == /\ Due(c, "downl") /\ c \notin settled
           /\ ~present \/ full
           /\ settled' = settled \cup {c}
           /\ UNCHANGED <<asked, replied, present>>

\* A file exists from the first piece of it that is saved.
Store(c) == /\ Due(c, "upload")
            /\ present' = TRUE
            /\ UNCHANGED <<asked, replied, settled>>

\* The list of files, also after a delete; the file, unless it could not be
\* opened; for anything else the redirection to the list.
ReplyTo(c) == CASE DueKind(c) \in {"list", "del"} -> "page"
                [] DueKind(c) = "downl" /\ c \notin settled -> "file"
                [] OTHER -> "moved"

\* A request of no known kind is not replied to.
Reply(c) == /\ Owed(c) /\ ~Due(c, "unknown")
            /\ c \notin settled => ~Due(c, "del") /\ (Due(c, "downl") => present)
            /\ replied' = [replied EXCEPT ![c] = Append(@, ReplyTo(c))]
            /\ settled' = settled \ {c}
            /\ UNCHANGED <<asked, present>>

\* Only a connection on which nothing is owed ends.
Leave(c) == /\ ~Owed(c)
            /\ asked' = [asked EXCEPT ![c] = <<>>]
            /\ replied' = [replied EXCEPT ![c] = <<>>]
            /\ UNCHANGED <<settled, present>>

\* What else uses descriptors is not the service's concern.
Next == /\ full' \in BOOLEAN
        /\ \/ UNCHANGED <<asked, replied, settled, present>>
           \/ \E c \in Conns : \/ Ask(c) \/ Delete(c) \/ Miss(c) \/ Store(c)
                               \/ Reply(c) \/ Leave(c)

Spec == Init /\ [][Next]_vars
=============================================================================
