----------------------------- MODULE FileStore -----------------------------
(***************************************************************************)
(* One name of filedir/ and the requests that use it at the same time:     *)
(* uploads, PUT requests, downloads and deletes, each on its own           *)
(* connection, their handlers on different workers.  Nothing in the server *)
(* keeps them apart.  Each step is one system call on the file; content    *)
(* comes in pieces, what one write of an upload writes.                    *)
(***************************************************************************)
EXTENDS Naturals, Sequences, FiniteSets

CONSTANTS Uploads, Puts, Downloads, Deletes,  \* requests
          Length,                             \* Length[w]: pieces of a body
          Old,                                \* what the name holds at first
          NoFile

Writers == Uploads \cup Puts
Requests == Writers \cup Downloads \cup Deletes

\* A file is created only after a delete.
Files == 1..(Cardinality(Deletes) + 1)
Piece == UNION {{w} \X (1..Length[w]) : w \in Writers}

ASSUME FileStoreAssumption ==
  /\ IsFiniteSet(Deletes)
  /\ Length \in [Writers -> Nat] /\ NoFile \notin Files
  /\ Old \notin Piece
  /\ Uploads \cap Puts = {}
  /\ Downloads \cap Writers = {}
  /\ Deletes \cap (Writers \cup Downloads) = {}

VARIABLES name,       \* the file the name stands for, or NoFile
          made,       \* how many files there have been
          data,       \* data[f]: the content of the file f
          at,         \* at[r]: what request r does next
          open,       \* open[r]: the file r has open, or NoFile
          received,   \* received[w]: pieces of the body of w received
          length,     \* length[d]: msgBodyLen of a download
          promised,   \* promised[d]: what the file held then
          got,        \* got[d]: what was sent
          disturbed   \* requests that another one took content from
fileVars == <<name, made, data, at, open>>
downloadVars == <<length, promised, got>>
vars == <<fileVars, received, downloadVars, disturbed>>

Init == /\ name \in {1, NoFile}
        /\ made = IF name = 1 THEN 1 ELSE 0
        /\ data = [f \in Files |-> IF f = name THEN <<Old>> ELSE <<>>]
        /\ at = [r \in Requests |-> "ready"]
        /\ open = [r \in Requests |-> NoFile]
        /\ received = [w \in Writers |-> 0]
        /\ length = [d \in Downloads |-> 0]
        /\ promised = [d \in Downloads |-> <<>>]
        /\ got = [d \in Downloads |-> <<>>]
        /\ disturbed = {}

Ready(r, place) == at[r] = place
Goto(r, place) == at' = [at EXCEPT ![r] = place]

\* Requests that have begun to write and would miss what f loses; downloads
\* that read it.
Begun(w) == received[w] > 0 \/ at[w] # "ready"
WritersBut(r) == {w \in Writers \ {r} : Begun(w)}
Readers(f) == {d \in Downloads : open[d] = f}

\* open with O_CREAT: the file of the name, or a new one.
OpenForWriting(r) ==
  LET f == IF name = NoFile THEN made + 1 ELSE name IN
    /\ open' = [open EXCEPT ![r] = f]
    /\ name' = f
    /\ made' = IF name = NoFile THEN made + 1 ELSE made
Close(r) == open' = [open EXCEPT ![r] = NoFile]

\* s is a beginning of t.
Begins(s, t) == Len(s) <= Len(t) /\ \A i \in 1..Len(s) : t[i] = s[i]

\* The first n pieces of what w writes.
Body(w, n) == [i \in 1..n |-> <<w, i>>]

-----------------------------------------------------------------------------
(* HandleRecv: an upload                                                   *)

\* Defect: the file is opened without ios::app.
UploadOpen_Truncates(u) ==
  /\ Ready(u, "ready")
  /\ OpenForWriting(u)
  /\ data' = [data EXCEPT ![open'[u]] = <<>>]
  /\ Goto(u, "opened")
  /\ UNCHANGED <<received, downloadVars, disturbed>>

\* Whenever something of the upload arrives the file is opened to append to
\* it, be it only a part of the boundary.
UploadOpen(u) == /\ Ready(u, "ready")
                 /\ OpenForWriting(u)
                 /\ Goto(u, "opened")
                 /\ UNCHANGED <<data, received, downloadVars, disturbed>>

\* If that fails the handler is done and the connection is never armed again.
UploadOpenFails(u) ==
  /\ Ready(u, "ready")
  /\ Goto(u, "lost")
  /\ UNCHANGED <<name, made, data, open, received, downloadVars, disturbed>>

\* Defect: what was written stays in recvMsg and is written again.
UploadWrite_Again(u) ==
  /\ Ready(u, "opened") /\ received[u] < Length[u]
  /\ data' = [data EXCEPT ![open[u]] = @ \o Body(u, received[u] + 1)]
  /\ received' = [received EXCEPT ![u] = @ + 1]
  /\ UNCHANGED <<name, made, at, open, downloadVars, disturbed>>

UploadWrite(u) ==
  /\ Ready(u, "opened") /\ received[u] < Length[u]
  /\ data' = [data EXCEPT ![open[u]] = Append(@, <<u, received[u] + 1>>)]
  /\ received' = [received EXCEPT ![u] = @ + 1]
  /\ UNCHANGED <<name, made, at, open, downloadVars, disturbed>>

\* The final boundary may come with the last of the content or after it.
UploadClose(u) ==
  /\ Ready(u, "opened")
  /\ Close(u)
  /\ \/ Goto(u, "ready")
     \/ received[u] = Length[u] /\ Goto(u, "done")
  /\ UNCHANGED <<name, made, data, received, downloadVars, disturbed>>

-----------------------------------------------------------------------------
(* HandleRecv and HandleSend: a PUT.  HandleSend stores all of the body    *)
(* that has come by then, and once more whenever more of it comes.         *)

PutReceive(p) ==
  /\ Ready(p, "ready") \/ Ready(p, "waiting")
  /\ received[p] < Length[p]
  /\ received' = [received EXCEPT ![p] = @ + 1]
  /\ Goto(p, "ready")
  /\ UNCHANGED <<name, made, data, open, downloadVars, disturbed>>

\* open truncates the file.
PutOpen(p) ==
  /\ Ready(p, "ready")
  /\ OpenForWriting(p)
  /\ data' = [data EXCEPT ![open'[p]] = <<>>]
  /\ Goto(p, "opened")
  /\ disturbed' = disturbed \cup WritersBut(p) \cup Readers(open'[p])
  /\ UNCHANGED <<received, downloadVars>>

PutOpenFails(p) ==
  /\ Ready(p, "ready")
  /\ Goto(p, "waiting")
  /\ UNCHANGED <<name, made, data, open, received, downloadVars, disturbed>>

\* It is written from the beginning of the file, over what uploads appended
\* since the open.
PutSave(p) ==
  /\ Ready(p, "opened")
  /\ LET n == received[p] IN
     /\ data' = [data EXCEPT ![open[p]] = Body(p, n) \o SubSeq(@, n + 1, Len(@))]
     /\ disturbed' = disturbed \cup
          IF data[open[p]] = <<>> \/ Begins(Body(p, n), data[open[p]]) THEN {}
          ELSE WritersBut(p) \cup Readers(open[p])
  /\ Close(p)
  /\ Goto(p, IF received[p] = Length[p] THEN "done" ELSE "waiting")
  /\ UNCHANGED <<name, made, received, downloadVars>>

-----------------------------------------------------------------------------
(* HandleSend: a download, a delete                                        *)

DownloadOpen(d) == /\ Ready(d, "ready") /\ name # NoFile
                   /\ open' = [open EXCEPT ![d] = name]
                   /\ Goto(d, "opened")
                   /\ UNCHANGED <<name, made, data, received, downloadVars,
                                  disturbed>>

DownloadOpenFails(d) == /\ Ready(d, "ready") /\ name = NoFile
                        /\ Goto(d, "refused")
                        /\ UNCHANGED <<name, made, data, open, received,
                                       downloadVars, disturbed>>

\* Defect: one more than there is.
DownloadStat_OneMore(d) ==
  /\ Ready(d, "opened")
  /\ length' = [length EXCEPT ![d] = Len(data[open[d]]) + 1]
  /\ promised' = [promised EXCEPT ![d] = data[open[d]]]
  /\ disturbed' = disturbed \ {d}
  /\ Goto(d, "sending")
  /\ UNCHANGED <<name, made, data, open, received, got>>

\* fstat: from here on the client is owed so many bytes.
DownloadStat(d) == /\ Ready(d, "opened")
                   /\ length' = [length EXCEPT ![d] = Len(data[open[d]])]
                   /\ promised' = [promised EXCEPT ![d] = data[open[d]]]
                   /\ disturbed' = disturbed \ {d}
                   /\ Goto(d, "sending")
                   /\ UNCHANGED <<name, made, data, open, received, got>>

\* Defect: the file is looked up by its name for each call.
DownloadSend_ByName(d) ==
  /\ Ready(d, "sending") /\ name # NoFile
  /\ \E n \in Len(got[d]) + 1..length[d] :
       /\ n <= Len(data[name])
       /\ got' = [got EXCEPT ![d] = @ \o SubSeq(data[name], Len(@) + 1, n)]
  /\ UNCHANGED <<fileVars, received, length, promised, disturbed>>

\* sendfile sends as much as the socket takes.  At the end of the file it
\* returns 0, and the loop calls it again: that changes nothing, for ever.
DownloadSend(d) ==
  /\ Ready(d, "sending")
  /\ \E n \in Len(got[d]) + 1..length[d] :
       /\ n <= Len(data[open[d]])
       /\ got' = [got EXCEPT ![d] = @ \o SubSeq(data[open[d]], Len(@) + 1, n)]
  /\ UNCHANGED <<fileVars, received, length, promised, disturbed>>

DownloadEnds(d) == /\ Ready(d, "sending") /\ Len(got[d]) >= length[d]
                   /\ Close(d)
                   /\ Goto(d, "done")
                   /\ UNCHANGED <<name, made, data, received, downloadVars,
                                  disturbed>>

\* remove: the name is gone, a file that is open is not.
Delete(x) == /\ Ready(x, "ready")
             /\ name' = NoFile
             /\ Goto(x, "done")
             /\ disturbed' = disturbed \cup WritersBut(x)
             /\ UNCHANGED <<made, data, open, received, downloadVars>>

-----------------------------------------------------------------------------
UploadStep(u) == \/ UploadOpen(u) \/ UploadOpenFails(u)
                 \/ UploadWrite(u) \/ UploadClose(u)
PutStep(p) == PutReceive(p) \/ PutOpen(p) \/ PutOpenFails(p) \/ PutSave(p)
DownloadStep(d) == \/ DownloadOpen(d) \/ DownloadOpenFails(d)
                   \/ DownloadStat(d) \/ DownloadSend(d) \/ DownloadEnds(d)

Next == \/ \E u \in Uploads : UploadStep(u)
        \/ \E p \in Puts : PutStep(p)
        \/ \E d \in Downloads : DownloadStep(d)
        \/ \E x \in Deletes : Delete(x)

Safety == Init /\ [][Next]_vars

(* A download goes on as long as its client reads.  No piece of an upload  *)
(* or a PUT has to come.                                                   *)
Spec == Safety /\ \A d \in Downloads : WF_vars(DownloadStep(d))

-----------------------------------------------------------------------------
(* Properties                                                              *)

TypeOK == /\ name \in Files \cup {NoFile} /\ made \in Nat
          /\ data \in [Files -> Seq(Piece \cup {Old})]
          /\ at \in [Requests -> {"ready", "opened", "waiting", "sending",
                                  "done", "refused", "lost"}]
          /\ open \in [Requests -> Files \cup {NoFile}]
          /\ received \in [Writers -> Nat]
          /\ length \in [Downloads -> Nat]
          /\ promised \in [Downloads -> Seq(Piece \cup {Old})]
          /\ got \in [Downloads -> Seq(Piece \cup {Old})]
          /\ disturbed \subseteq Requests

(* What a client downloads is the file as it was when its length was       *)
(* taken, whatever is appended meanwhile and whether or not the name is    *)
(* deleted and used again; only a PUT can change it.                       *)
(* (myevent.cpp:293-303, 409, 172)                                         *)
DownloadIsSnapshot ==
  \A d \in Downloads \ disturbed :
    /\ Begins(got[d], promised[d])
    /\ at[d] = "done" => got[d] = promised[d]

(* A request that is through is stored whole as long as nobody deletes or  *)
(* PUTs the name after it began: every piece of it, and a PUT at the       *)
(* beginning of the file.                                                  *)
(* (myevent.cpp:172, 208, 328, 337)                                        *)
Has(s, w, n) == \E i \in DOMAIN s : s[i] = <<w, n>>
Stored ==
  \A w \in Writers \ disturbed : at[w] = "done" =>
    /\ name # NoFile
    /\ \A n \in 1..Length[w] : Has(data[name], w, n)
    /\ w \in Puts => Begins(Body(w, Length[w]), data[name])

(* Even a disturbed upload leaves no file with its pieces out of order,    *)
(* repeated or with a gap: what a file holds of it is one stretch of it.   *)
(* (myevent.cpp:172, 208-209)                                              *)
InOrder(u, s) ==
  \A m, n \in 1..Length[u] : \A i, j \in DOMAIN s :
    s[i] = <<u, m>> /\ s[j] = <<u, n>> =>
      /\ i < j <=> m < n
      /\ \A k \in m..n : Has(s, u, k)
UploadsInOrder == \A u \in Uploads, f \in Files : InOrder(u, data[f])

(* Every download ends, unless the file is shorter than its client was     *)
(* told: then sendfile returns 0 for ever (myevent.cpp:409).               *)
Short(d) == Len(data[open[d]]) < Len(promised[d])
DownloadsEnd ==
  \A d \in Downloads :
    at[d] = "sending" ~> at[d] = "done" \/ (at[d] = "sending" /\ Short(d))
=============================================================================
