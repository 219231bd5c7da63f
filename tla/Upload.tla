------------------------------- MODULE Upload -------------------------------
(***************************************************************************)
(* The scanner that saves an uploaded file: the last part of the state     *)
(* machine of HandleRecv::process (event/myevent.cpp:171-213), letter by   *)
(* letter.  What the client sends is the content of the file, then the     *)
(* final boundary, then whatever follows it.  It arrives in pieces of any  *)
(* length, so a carriage return of the content or the boundary itself may  *)
(* be cut anywhere, and the scanner has to know what to write, what to     *)
(* keep and when to stop.  Positions are counted from 1.                   *)
(***************************************************************************)
EXTENDS Naturals, Sequences

CONSTANTS Letters, CR, LF, Dash,  \* bytes, three of which have a meaning
          Boundary,               \* the boundary named in the header
          Contents, Epilogues,    \* what clients upload, and send after it
          BufSize                 \* how much one recv returns at most

Final == <<CR, LF, Dash, Dash>> \o Boundary \o <<Dash, Dash, CR, LF>>

\* A client chooses its boundary so that the content does not contain it: in
\* the body the final boundary begins where the content ends, not before.
Body(c, e) == c \o Final \o e
OccursAt(s, p) == \A j \in 1..Len(Final) : s[p + j - 1] = Final[j]

ASSUME UploadAssumption ==
  /\ {CR, LF, Dash} \subseteq Letters
  /\ Boundary \in Seq(Letters)
  /\ Contents \subseteq Seq(Letters) /\ Epilogues \subseteq Seq(Letters)
  /\ BufSize \in Nat \ {0}
  /\ \A c \in Contents, e \in Epilogues :
       \A p \in 1..Len(c) : ~OccursAt(Body(c, e), p)

VARIABLES content, epilogue,  \* what this client sends
          received,           \* how many letters of it recv has returned
          recvMsg,            \* received and not yet processed
          file,               \* what has been written to the file
          pc                  \* "recv", "scan" or, when it is done, "complete"
vars == <<content, epilogue, received, recvMsg, file, pc>>

Init == /\ content \in Contents /\ epilogue \in Epilogues
        /\ received = 0
        /\ recvMsg = <<>> /\ file = <<>>
        /\ pc = "recv"

Sent == Body(content, epilogue)

Receive ==
  /\ pc = "recv"
  /\ \E n \in 1..BufSize :
       /\ received + n <= Len(Sent)
       /\ recvMsg' = recvMsg \o SubSeq(Sent, received + 1, received + n)
       /\ received' = received + n
  /\ pc' = "scan"
  /\ UNCHANGED <<content, epilogue, file>>

-----------------------------------------------------------------------------
(* One turn of the loop                                                    *)

\* find('\r', from) finds position e.
IsCR(e) == e \in 1..Len(recvMsg) /\ recvMsg[e] = CR
FindsCR(from, e) == /\ from <= e /\ IsCR(e)
                    /\ \A i \in from..(e - 1) : ~IsCR(i)
FindsNoCR(from) == \A i \in from..Len(recvMsg) : ~IsCR(i)

\* Defect: more letters than the final boundary has.
Whole_OneMore(e) == Len(recvMsg) - (e - 1) > Len(Final)

\* From e on there are as many letters as the final boundary has.
Whole(e) == Len(recvMsg) - (e - 1) >= Len(Final)

IsFinal(e) == Whole(e) /\ SubSeq(recvMsg, e, e + Len(Final) - 1) = Final

Write(n) == /\ file' = file \o SubSeq(recvMsg, 1, n)
            /\ recvMsg' = SubSeq(recvMsg, n + 1, Len(recvMsg))
            /\ UNCHANGED <<content, epilogue, received, pc>>

ScanEmpty == /\ recvMsg = <<>>
             /\ pc' = "recv"
             /\ UNCHANGED <<content, epilogue, received, recvMsg, file>>

ScanPlain == recvMsg # <<>> /\ FindsNoCR(1) /\ Write(Len(recvMsg))

\* What comes before a carriage return that begins the final boundary, or
\* may begin it, is content.
ScanUpTo == \E e \in 2..Len(recvMsg) :
              FindsCR(1, e) /\ (IsFinal(e) \/ ~Whole(e)) /\ Write(e - 1)

\* Defect: everything is written, without a look for the next one.
ScanPast_All == \E e \in 1..Len(recvMsg) :
                  /\ FindsCR(1, e) /\ Whole(e) /\ ~IsFinal(e)
                  /\ Write(Len(recvMsg))

\* A carriage return that begins no final boundary is content, and so is
\* everything up to the next one.
ScanPast == \E e \in 1..Len(recvMsg) :
              /\ FindsCR(1, e) /\ Whole(e) /\ ~IsFinal(e)
              /\ \/ \E n \in e + 1..Len(recvMsg) :
                      FindsCR(e + 1, n) /\ Write(n - 1)
                 \/ FindsNoCR(e + 1) /\ Write(Len(recvMsg))

\* Defect: wait for the rest before what precedes it is written.
ScanWait_Early == /\ \E e \in 1..Len(recvMsg) : FindsCR(1, e) /\ ~Whole(e)
                  /\ pc' = "recv"
                  /\ UNCHANGED <<content, epilogue, received, recvMsg, file>>

\* The first letters may be a final boundary that has not arrived yet.
ScanWait == /\ FindsCR(1, 1) /\ ~Whole(1)
            /\ pc' = "recv"
            /\ UNCHANGED <<content, epilogue, received, recvMsg, file>>

ScanFinal == /\ FindsCR(1, 1) /\ IsFinal(1)
             /\ pc' = "complete"
             /\ UNCHANGED <<content, epilogue, received, recvMsg, file>>

Scan == /\ pc = "scan"
        /\ \/ ScanEmpty \/ ScanPlain \/ ScanUpTo
           \/ ScanPast \/ ScanWait \/ ScanFinal

Next == Receive \/ Scan
Safety == Init /\ [][Next]_vars

\* The client sends all it has, and the handler runs.
Spec == Safety /\ WF_vars(Next)

-----------------------------------------------------------------------------
TypeOK == /\ content \in Contents /\ epilogue \in Epilogues
          /\ received \in 0..Len(Sent)
          /\ recvMsg \in Seq(Letters) /\ file \in Seq(Letters)
          /\ pc \in {"recv", "scan", "complete"}

(* What is saved is a beginning of what the client uploads, and all of it  *)
(* when the scanner says so: no letter of a boundary is taken for content, *)
(* none of the content for a boundary, wherever the reads cut them.        *)
(* (myevent.cpp:178-210)                                                   *)
SavedExactly == /\ Len(file) <= Len(content)
                /\ file = SubSeq(content, 1, Len(file))
                /\ pc = "complete" => file = content

(* While it waits, the handler keeps less than one boundary in memory,     *)
(* however long the file is.                                               *)
BufferStaysSmall == pc = "recv" => Len(recvMsg) < Len(Final)

(* An upload that was sent completely is recognised as complete.           *)
EventuallyComplete == <>(pc = "complete")
=============================================================================
