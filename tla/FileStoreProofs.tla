--------------------------- MODULE FileStoreProofs ---------------------------
(***************************************************************************)
(* What a download gets and what a file keeps of an upload, for any number *)
(* of uploads, PUTs, downloads and deletes of the name.                    *)
(***************************************************************************)
EXTENDS FileStore, FiniteSetTheorems, SequenceTheorems, TLAPS

Item == Piece \cup {Old}
Gone == {x \in Deletes : at[x] = "done"}

(* A file is made only when there is none, so the files are no more than   *)
(* the deletes and one; the name stands for the last one made, and nothing *)
(* is in a file before it is made.                                         *)
NamesInv == /\ made <= Cardinality(Gone) + 1
            /\ name = NoFile => made <= Cardinality(Gone)
            /\ name # NoFile => name = made
            /\ \A r \in Requests : open[r] # NoFile => open[r] <= made
            /\ \A f \in Files : f > made => data[f] = <<>>

OpenInv == /\ \A r \in Requests :
                at[r] \in {"opened", "sending"} => open[r] # NoFile
           /\ \A w \in Writers : at[w] # "opened" => open[w] = NoFile
           /\ \A w \in Writers : received[w] <= Length[w]

Shape == TypeOK /\ NamesInv /\ OpenInv

\* Names of tuples of variables.
USE DEF fileVars, downloadVars

-----------------------------------------------------------------------------
(* Sequences                                                               *)

LEMMA AppendFacts ==
  ASSUME NEW s \in Seq(Item), NEW e \in Item
  PROVE  /\ Append(s, e) \in Seq(Item)
         /\ Len(s) \in Nat
         /\ Len(Append(s, e)) = Len(s) + 1
         /\ \A i \in 1..Len(s) : Append(s, e)[i] = s[i]
         /\ Append(s, e)[Len(s) + 1] = e
         /\ DOMAIN s = 1..Len(s)
         /\ DOMAIN Append(s, e) = 1..(Len(s) + 1)
OBVIOUS

LEMMA PieceIsItem ==
  ASSUME NEW w \in Writers, NEW n \in 1..Length[w]
  PROVE  <<w, n>> \in Item
BY DEF Item, Piece

LEMMA BodyFacts ==
  ASSUME NEW w \in Writers, NEW n \in Nat, n <= Length[w]
  PROVE  /\ Body(w, n) \in Seq(Item)
         /\ Len(Body(w, n)) = n
         /\ \A i \in 1..n : Body(w, n)[i] = <<w, i>>
<1>1. \A i \in 1..n : <<w, i>> \in Item
  <2> TAKE i \in 1..n
  <2>1. Length[w] \in Nat
    BY FileStoreAssumption
  <2>2. i \in 1..Length[w]
    BY <2>1
  <2> QED BY <2>2, PieceIsItem
<1>2. Body(w, n) \in [1..n -> Item]
  BY <1>1 DEF Body
<1> QED BY <1>2 DEF Body

(* What PutSave makes of a file.                                           *)
Overwritten(w, n, s) == Body(w, n) \o SubSeq(s, n + 1, Len(s))

LEMMA OverwriteFacts ==
  ASSUME NEW w \in Writers, NEW n \in Nat, n <= Length[w], NEW s \in Seq(Item),
         NEW t, t = Overwritten(w, n, s)
  PROVE  /\ t \in Seq(Item)
         /\ Len(s) \in Nat
         /\ Len(t) \in Nat
         /\ Len(t) = IF n <= Len(s) THEN Len(s) ELSE n
         /\ \A i \in 1..n : t[i] = <<w, i>>
         /\ \A i \in 1..Len(t) : i > n => i <= Len(s) /\ t[i] = s[i]
<1> DEFINE b == Body(w, n)
           r == SubSeq(s, n + 1, Len(s))
<1>1. b \in Seq(Item) /\ Len(b) = n /\ \A i \in 1..n : b[i] = <<w, i>>
  BY BodyFacts
<1>2. Len(s) \in Nat
  OBVIOUS
<1>3. /\ r \in Seq(Item)
      /\ Len(r) = IF n + 1 <= Len(s) THEN Len(s) - (n + 1) + 1 ELSE 0
      /\ \A i \in 1..(Len(s) - (n + 1) + 1) : r[i] = s[(n + 1) + i - 1]
  <2>1. \A i \in (n + 1)..Len(s) : s[i] \in Item
    OBVIOUS
  <2> QED BY <2>1, <1>2, SubSeqProperties
<1> HIDE DEF b, r
<1>4. /\ b \o r \in Seq(Item)
      /\ Len(b \o r) = Len(b) + Len(r)
      /\ \A i \in 1..(Len(b) + Len(r)) :
           (b \o r)[i] = IF i <= Len(b) THEN b[i] ELSE r[i - Len(b)]
  BY <1>1, <1>3, ConcatProperties
<1>5. t = b \o r
  BY DEF b, r, Overwritten
<1>6. Len(r) = IF n <= Len(s) THEN Len(s) - n ELSE 0
  <2>1. Len(r) = IF n + 1 <= Len(s) THEN Len(s) - (n + 1) + 1 ELSE 0
    BY <1>3
  <2> QED BY <1>2, <2>1
<1>7. /\ t \in Seq(Item)
      /\ Len(t) = n + Len(r)
      /\ \A i \in 1..(n + Len(r)) : t[i] = IF i <= n THEN b[i] ELSE r[i - n]
  BY <1>1, <1>4, <1>5
<1>8. ASSUME NEW i \in 1..Len(t), i > n
      PROVE  i <= Len(s) /\ t[i] = s[i]
  <2>1. n <= Len(s) /\ i \in Nat /\ i <= Len(s)
    BY <1>2, <1>6, <1>7, <1>8
  <2>2. i - n \in 1..(Len(s) - (n + 1) + 1) /\ i \in 1..(n + Len(r))
    BY <1>2, <1>6, <1>8, <2>1
  <2>3. r[i - n] = s[(n + 1) + (i - n) - 1]
    BY <1>3, <2>2
  <2>4. (n + 1) + (i - n) - 1 = i
    BY <2>1
  <2>5. t[i] = r[i - n]
    BY <1>7, <1>8, <2>1, <2>2
  <2> QED BY <2>1, <2>3, <2>4, <2>5
<1>9. \A i \in 1..n : t[i] = <<w, i>>
  <2> TAKE i \in 1..n
  <2>1. i \in 1..(n + Len(r)) /\ i <= n
    BY <1>2, <1>6
  <2>2. t[i] = b[i]
    BY <1>7, <2>1
  <2> QED BY <1>1, <2>2
<1>10. Len(t) \in Nat /\ Len(t) = IF n <= Len(s) THEN Len(s) ELSE n
  BY <1>2, <1>6, <1>7
<1> QED BY <1>2, <1>7, <1>8, <1>9, <1>10

-----------------------------------------------------------------------------
(* Types, names and files                                                  *)

LEMMA FilesFacts ==
  /\ Cardinality(Deletes) \in Nat /\ Files \subseteq Nat
  /\ 1 \in Files /\ NoFile \notin Files
  /\ Length \in [Writers -> Nat]
<1>1. Cardinality(Deletes) \in Nat
  BY FileStoreAssumption, FS_CardinalityType
<1> QED BY <1>1, FileStoreAssumption DEF Files

LEMMA GoneFacts ==
  /\ Cardinality(Gone) \in Nat
  /\ Cardinality(Gone) <= Cardinality(Deletes)
  /\ IsFiniteSet(Gone)
<1>1. Gone \in SUBSET Deletes
  BY DEF Gone
<1>2. IsFiniteSet(Gone) /\ Cardinality(Gone) <= Cardinality(Deletes)
  BY <1>1, FS_Subset, FileStoreAssumption
<1> QED BY <1>2, FS_CardinalityType

LEMMA KindsFacts ==
  /\ Writers \subseteq Requests /\ Downloads \subseteq Requests
  /\ Deletes \subseteq Requests
  /\ Uploads \subseteq Writers /\ Puts \subseteq Writers
  /\ \A w \in Writers : w \notin Deletes /\ w \notin Downloads
  /\ \A d \in Downloads : d \notin Deletes /\ d \notin Writers
  /\ \A x \in Deletes : x \notin Downloads /\ x \notin Writers
  /\ \A u \in Uploads : u \notin Puts
BY FileStoreAssumption DEF Writers, Requests

LEMMA OpeningFacts ==
  ASSUME Shape, NEW r \in Requests, OpenForWriting(r)
  PROVE  /\ open' \in [Requests -> Files \cup {NoFile}]
         /\ open'[r] \in Files /\ open'[r] # NoFile
         /\ \A q \in Requests \ {r} : open'[q] = open[q]
         /\ name' = open'[r] /\ name' = made'
         /\ made \in Nat /\ made' \in Nat
         /\ made <= made' /\ made' <= Cardinality(Gone) + 1
         /\ name = NoFile => made' = made + 1
         /\ name # NoFile => made' = made
<1>1. made \in Nat /\ name \in Files \cup {NoFile}
      /\ open \in [Requests -> Files \cup {NoFile}]
  BY DEF Shape, TypeOK
<1>2. CASE name = NoFile
  <2>1. made + 1 \in Files
    BY <1>1, <1>2, GoneFacts, FilesFacts DEF Shape, NamesInv, Files
  <2> QED BY <1>1, <1>2, <2>1, GoneFacts, FilesFacts
          DEF Shape, NamesInv, OpenForWriting
<1>3. CASE name # NoFile
  BY <1>1, <1>3, GoneFacts, FilesFacts DEF Shape, NamesInv, OpenForWriting
<1> QED BY <1>2, <1>3

LEMMA OpenFileFacts ==
  ASSUME Shape, NEW r \in Requests, at[r] \in {"opened", "sending"}
  PROVE  /\ open[r] \in Files /\ open[r] \in Nat /\ made \in Nat
         /\ open[r] <= made
         /\ data \in [Files -> Seq(Item)]
         /\ data[open[r]] \in Seq(Item) /\ Len(data[open[r]]) \in Nat
<1>1. open[r] \in Files /\ open[r] # NoFile /\ data \in [Files -> Seq(Item)]
  BY DEF Shape, TypeOK, OpenInv, Item
<1>2. open[r] <= made /\ made \in Nat /\ open[r] \in Nat
  BY <1>1, FilesFacts DEF Shape, TypeOK, NamesInv
<1> QED BY <1>1, <1>2

LEMMA ReceivedFacts ==
  ASSUME Shape, NEW w \in Writers
  PROVE  /\ received[w] \in Nat /\ Length[w] \in Nat
         /\ received[w] <= Length[w]
BY FilesFacts DEF Shape, TypeOK, OpenInv

(* The deletes that are through stay the same in the step of another       *)
(* request.                                                                *)
LEMMA GoneSame ==
  ASSUME TypeOK, NEW r \in Requests, r \notin Deletes, NEW place,
         Goto(r, place) \/ UNCHANGED at
  PROVE  Gone' = Gone
BY KindsFacts DEF Gone, Goto, TypeOK

LEMMA InitShape == Init => Shape
<1> SUFFICES ASSUME Init PROVE Shape
  OBVIOUS
<1>1. <<Old>> \in Seq(Item) /\ <<>> \in Seq(Item)
  BY DEF Item
<1>2. TypeOK
  BY <1>1, FilesFacts DEF Init, TypeOK, Item
<1>3. Gone = {}
  BY KindsFacts DEF Init, Gone
<1>4. Cardinality(Gone) = 0
  BY <1>3, FS_EmptySet
<1>5. NamesInv
  BY <1>4, FilesFacts DEF Init, NamesInv
<1>6. OpenInv
  BY FilesFacts, KindsFacts DEF Init, OpenInv
<1> QED BY <1>2, <1>5, <1>6 DEF Shape

(* The steps that open, close, make or remove no file keep NamesInv, if    *)
(* they put no content into a file that is not there.                      *)
LEMMA NamesKept ==
  ASSUME Shape, Gone' = Gone, UNCHANGED <<name, made>>,
         open' \in [Requests -> Files \cup {NoFile}],
         \A r \in Requests : open'[r] \in {open[r], NoFile, name},
         \A f \in Files : f > made => data'[f] = data[f]
  PROVE  NamesInv'
<1>1. made \in Nat /\ name \in Files \cup {NoFile}
      /\ open \in [Requests -> Files \cup {NoFile}]
  BY DEF Shape, TypeOK
<1>2. \A r \in Requests : open'[r] # NoFile => open'[r] <= made'
  BY <1>1, FilesFacts DEF Shape, NamesInv
<1> QED BY <1>1, <1>2, GoneFacts, FilesFacts DEF Shape, NamesInv

(* Opening a file for writing keeps NamesInv.                              *)
LEMMA OpeningKeepsNames ==
  ASSUME Shape, NEW r \in Requests, OpenForWriting(r), Gone' = Gone,
         \A f \in Files : data'[f] = data[f] \/ (f = open'[r] /\ data'[f] = <<>>)
  PROVE  NamesInv'
<1>1. made \in Nat /\ name \in Files \cup {NoFile}
      /\ open \in [Requests -> Files \cup {NoFile}]
      /\ \A f \in Files : f \in Nat
  BY FilesFacts DEF Shape, TypeOK
<1>2. made' <= Cardinality(Gone') + 1 /\ name' # NoFile /\ name' = made'
  BY OpeningFacts
<1>3. ASSUME NEW q \in Requests, open'[q] # NoFile
      PROVE  open'[q] <= made'
  <2>1. CASE q = r
    BY <2>1, OpeningFacts
  <2>2. CASE q # r
    <3>1. open'[q] = open[q] /\ made <= made' /\ made' \in Nat
      BY <2>2, OpeningFacts
    <3>2. open[q] <= made /\ open[q] \in Nat
      BY <1>1, <1>3, <3>1, FilesFacts DEF Shape, NamesInv
    <3> QED BY <1>1, <3>1, <3>2
  <2> QED BY <2>1, <2>2
<1>4. ASSUME NEW f \in Files, f > made'
      PROVE  data'[f] = <<>>
  <2>1. f > made /\ f \in Nat
    BY <1>1, <1>4, OpeningFacts
  <2> QED BY <2>1 DEF Shape, NamesInv
<1> QED BY <1>2, <1>3, <1>4 DEF NamesInv

LEMMA UploadOpenShape ==
  ASSUME Shape, NEW u \in Uploads, UploadOpen(u)
  PROVE  Shape'
<1>1. u \in Writers /\ u \in Requests /\ u \notin Deletes
  BY KindsFacts
<1>2. Gone' = Gone
  BY <1>1, GoneSame DEF UploadOpen, Shape
<1>3. OpenForWriting(u)
  BY DEF UploadOpen
<1>4. TypeOK'
  BY <1>1, <1>3, OpeningFacts DEF Shape, TypeOK, UploadOpen, Goto
<1>5. NamesInv'
  BY <1>1, <1>2, <1>3, OpeningKeepsNames DEF UploadOpen
<1>6. OpenInv'
  BY <1>1, <1>3, OpeningFacts, KindsFacts
  DEF Shape, TypeOK, OpenInv, UploadOpen, Goto
<1> QED BY <1>4, <1>5, <1>6 DEF Shape

LEMMA UploadOpenFailsShape ==
  ASSUME Shape, NEW u \in Uploads, UploadOpenFails(u)
  PROVE  Shape'
<1>1. u \in Writers /\ u \in Requests /\ u \notin Deletes
  BY KindsFacts
<1>2. Gone' = Gone
  BY <1>1, GoneSame DEF UploadOpenFails, Shape
<1>3. TypeOK'
  BY <1>1 DEF Shape, TypeOK, UploadOpenFails, Goto
<1>4. NamesInv'
  BY <1>2, NamesKept DEF UploadOpenFails, Shape, TypeOK
<1>5. OpenInv'
  BY <1>1, KindsFacts DEF Shape, TypeOK, OpenInv, UploadOpenFails, Ready, Goto
<1> QED BY <1>3, <1>4, <1>5 DEF Shape

LEMMA UploadWriteShape ==
  ASSUME Shape, NEW u \in Uploads, UploadWrite(u)
  PROVE  Shape'
<1>1. u \in Writers /\ u \in Requests /\ u \notin Deletes
  BY KindsFacts
<1>2. Gone' = Gone
  BY <1>1, GoneSame DEF UploadWrite, Shape
<1>3. /\ open[u] \in Files /\ open[u] <= made /\ made \in Nat
      /\ open[u] \in Nat
      /\ received[u] \in Nat /\ Length[u] \in Nat
      /\ received[u] + 1 \in 1..Length[u]
      /\ data[open[u]] \in Seq(Item)
      /\ data \in [Files -> Seq(Item)]
  <2>1. at[u] = "opened" /\ received[u] < Length[u]
    BY DEF UploadWrite, Ready
  <2> QED BY <1>1, <2>1, OpenFileFacts, ReceivedFacts
<1>4. Append(data[open[u]], <<u, received[u] + 1>>) \in Seq(Item)
  BY <1>1, <1>3, PieceIsItem, AppendFacts
<1>5. TypeOK'
  BY <1>1, <1>3, <1>4 DEF Shape, TypeOK, UploadWrite, Item
<1>6. NamesInv'
  <2>1. \A f \in Files : f > made => data'[f] = data[f]
    BY <1>3, FilesFacts DEF UploadWrite
  <2> QED BY <1>2, <2>1, NamesKept DEF UploadWrite, Shape, TypeOK
<1>7. OpenInv'
  BY <1>1, <1>3 DEF Shape, TypeOK, OpenInv, UploadWrite
<1> QED BY <1>5, <1>6, <1>7 DEF Shape

LEMMA UploadCloseShape ==
  ASSUME Shape, NEW u \in Uploads, UploadClose(u)
  PROVE  Shape'
<1>1. u \in Writers /\ u \in Requests /\ u \notin Deletes
  BY KindsFacts
<1>2. PICK place \in {"ready", "done"} : Goto(u, place)
  BY DEF UploadClose
<1>3. Gone' = Gone
  BY <1>1, <1>2, GoneSame DEF Shape
<1>4. TypeOK'
  BY <1>1, <1>2 DEF Shape, TypeOK, UploadClose, Goto, Close
<1>5. NamesInv'
  BY <1>3, <1>4, NamesKept DEF UploadClose, Shape, TypeOK, Close
<1>6. OpenInv'
  BY <1>1, <1>2, KindsFacts DEF Shape, TypeOK, OpenInv, UploadClose, Goto, Close
<1> QED BY <1>4, <1>5, <1>6 DEF Shape

LEMMA PutReceiveShape ==
  ASSUME Shape, NEW p \in Puts, PutReceive(p)
  PROVE  Shape'
<1>1. p \in Writers /\ p \in Requests /\ p \notin Deletes
  BY KindsFacts
<1>2. Gone' = Gone
  BY <1>1, GoneSame DEF PutReceive, Shape
<1>3. received[p] \in Nat /\ Length[p] \in Nat
  BY <1>1, ReceivedFacts
<1>4. TypeOK'
  BY <1>1, <1>3 DEF Shape, TypeOK, PutReceive, Goto
<1>5. NamesInv'
  BY <1>2, NamesKept DEF PutReceive, Shape, TypeOK
<1>6. OpenInv'
  BY <1>1, <1>3, KindsFacts
  DEF Shape, TypeOK, OpenInv, PutReceive, Ready, Goto
<1> QED BY <1>4, <1>5, <1>6 DEF Shape

LEMMA PutOpenShape ==
  ASSUME Shape, NEW p \in Puts, PutOpen(p)
  PROVE  Shape'
<1>1. p \in Writers /\ p \in Requests /\ p \notin Deletes
  BY KindsFacts
<1>2. Gone' = Gone
  BY <1>1, GoneSame DEF PutOpen, Shape
<1>3. OpenForWriting(p)
  BY DEF PutOpen
<1>4. TypeOK'
  BY <1>1, <1>3, OpeningFacts, KindsFacts
  DEF Shape, TypeOK, PutOpen, Goto, WritersBut, Readers
<1>5. NamesInv'
  <2>1. \A f \in Files :
          data'[f] = data[f] \/ (f = open'[p] /\ data'[f] = <<>>)
    BY DEF PutOpen, Shape, TypeOK
  <2> QED BY <1>1, <1>2, <1>3, <2>1, OpeningKeepsNames
<1>6. OpenInv'
  BY <1>1, <1>3, OpeningFacts, KindsFacts
  DEF Shape, TypeOK, OpenInv, PutOpen, Goto
<1> QED BY <1>4, <1>5, <1>6 DEF Shape

LEMMA PutOpenFailsShape ==
  ASSUME Shape, NEW p \in Puts, PutOpenFails(p)
  PROVE  Shape'
<1>1. p \in Writers /\ p \in Requests /\ p \notin Deletes
  BY KindsFacts
<1>2. Gone' = Gone
  BY <1>1, GoneSame DEF PutOpenFails, Shape
<1>3. TypeOK'
  BY <1>1 DEF Shape, TypeOK, PutOpenFails, Goto
<1>4. NamesInv'
  BY <1>2, NamesKept DEF PutOpenFails, Shape, TypeOK
<1>5. OpenInv'
  BY <1>1, KindsFacts DEF Shape, TypeOK, OpenInv, PutOpenFails, Ready, Goto
<1> QED BY <1>3, <1>4, <1>5 DEF Shape

LEMMA PutSaveShape ==
  ASSUME Shape, NEW p \in Puts, PutSave(p)
  PROVE  Shape'
<1>1. p \in Writers /\ p \in Requests /\ p \notin Deletes
  BY KindsFacts
<1>2. PICK place \in {"done", "waiting"} : Goto(p, place)
  BY DEF PutSave
<1>3. Gone' = Gone
  BY <1>1, <1>2, GoneSame DEF Shape
<1>4. /\ open[p] \in Files /\ open[p] <= made /\ made \in Nat
      /\ open[p] \in Nat
      /\ received[p] \in Nat /\ received[p] <= Length[p]
      /\ data[open[p]] \in Seq(Item)
      /\ data \in [Files -> Seq(Item)]
  <2>1. at[p] = "opened"
    BY DEF PutSave, Ready
  <2> QED BY <1>1, <2>1, OpenFileFacts, ReceivedFacts
<1> DEFINE s == data[open[p]]
           n == received[p]
           t == Overwritten(p, n, s)
<1>5. t \in Seq(Item)
  BY <1>1, <1>4, OverwriteFacts
<1>6. data' = [data EXCEPT ![open[p]] = t]
  BY DEF PutSave, Overwritten
<1> HIDE DEF s, n, t
<1>7. data' \in [Files -> Seq(Item)]
  BY <1>4, <1>5, <1>6
<1>8. disturbed' \subseteq Requests
  BY KindsFacts DEF PutSave, WritersBut, Readers, Shape, TypeOK
<1>9. TypeOK'
  BY <1>1, <1>2, <1>7, <1>8 DEF Shape, TypeOK, PutSave, Goto, Close, Item
<1>10. NamesInv'
  <2>1. \A f \in Files : f > made => data'[f] = data[f]
    BY <1>4, <1>6, FilesFacts
  <2> QED BY <1>3, <1>9, <2>1, NamesKept
          DEF PutSave, Close, Shape, TypeOK
<1>11. OpenInv'
  BY <1>1, <1>2, KindsFacts DEF Shape, TypeOK, OpenInv, PutSave, Goto, Close
<1> QED BY <1>9, <1>10, <1>11 DEF Shape

(* A call of sendfile sends a beginning of the file that has been sent to  *)
(* where got ends.                                                         *)
LEMMA SendFacts ==
  ASSUME Shape, NEW d \in Downloads, DownloadSend(d)
  PROVE  /\ got' \in [Downloads -> Seq(Item)]
         /\ got \in [Downloads -> Seq(Item)] /\ Len(got[d]) \in Nat
         /\ \A e \in Downloads \ {d} : got'[e] = got[e]
         /\ Len(got'[d]) \in Nat /\ Len(got'[d]) <= length[d]
         /\ Len(got[d]) <= Len(got'[d])
         /\ Len(got'[d]) <= Len(data[open[d]])
         /\ \A i \in 1..Len(got'[d]) :
              got'[d][i] = IF i <= Len(got[d]) THEN got[d][i]
                                               ELSE data[open[d]][i]
<1> DEFINE g == got[d]
           s == data[open[d]]
<1>1. /\ s \in Seq(Item) /\ Len(s) \in Nat /\ length[d] \in Nat
      /\ got \in [Downloads -> Seq(Item)] /\ g \in Seq(Item) /\ Len(g) \in Nat
  <2>1. at[d] = "sending" /\ d \in Requests
    BY KindsFacts DEF DownloadSend, Ready
  <2> QED BY <2>1, OpenFileFacts DEF Shape, TypeOK, Item
<1>2. PICK n \in Len(g) + 1..length[d] :
        n <= Len(s) /\ got' = [got EXCEPT ![d] = g \o SubSeq(s, Len(g) + 1, n)]
  BY DEF DownloadSend
<1> DEFINE r == SubSeq(s, Len(g) + 1, n)
           t == g \o r
<1> HIDE DEF g, s
<1>3. n \in Nat /\ n <= length[d] /\ Len(g) + 1 <= n
  BY <1>1, <1>2
<1>4. /\ r \in Seq(Item)
      /\ Len(r) = IF Len(g) + 1 <= n THEN n - (Len(g) + 1) + 1 ELSE 0
      /\ \A i \in 1..(n - (Len(g) + 1) + 1) : r[i] = s[(Len(g) + 1) + i - 1]
  <2>1. \A i \in (Len(g) + 1)..n : s[i] \in Item
    BY <1>1, <1>2, <1>3
  <2> QED BY <1>1, <1>3, <2>1, SubSeqProperties
<1> HIDE DEF r
<1>5. Len(r) = n - Len(g)
  <2>1. Len(r) = IF Len(g) + 1 <= n THEN n - (Len(g) + 1) + 1 ELSE 0
    BY <1>4
  <2> QED BY <1>1, <1>3, <2>1
<1>6. /\ t \in Seq(Item)
      /\ Len(t) = Len(g) + Len(r)
      /\ \A i \in 1..(Len(g) + Len(r)) :
           t[i] = IF i <= Len(g) THEN g[i] ELSE r[i - Len(g)]
  BY <1>1, <1>4, ConcatProperties
<1> HIDE DEF t
<1>7. Len(t) = n
  BY <1>1, <1>3, <1>5, <1>6
<1>8. ASSUME NEW i \in 1..n
      PROVE  t[i] = IF i <= Len(g) THEN g[i] ELSE s[i]
  <2>1. t[i] = IF i <= Len(g) THEN g[i] ELSE r[i - Len(g)]
    BY <1>6, <1>7
  <2>2. CASE i > Len(g)
    <3>1. i - Len(g) \in 1..(n - (Len(g) + 1) + 1)
          /\ (Len(g) + 1) + (i - Len(g)) - 1 = i
      BY <1>1, <1>3, <2>2
    <3>2. r[i - Len(g)] = s[(Len(g) + 1) + (i - Len(g)) - 1]
      BY <1>4, <3>1
    <3> QED BY <1>1, <2>1, <2>2, <3>1, <3>2
  <2> QED BY <1>1, <1>3, <2>1, <2>2
<1>9. got' = [got EXCEPT ![d] = t]
  BY <1>2 DEF t, r
<1>10. got'[d] = t /\ got' \in [Downloads -> Seq(Item)]
       /\ \A e \in Downloads \ {d} : got'[e] = got[e]
  BY <1>1, <1>6, <1>9
<1>11. /\ Len(got'[d]) = n /\ n <= length[d] /\ Len(g) <= n /\ n <= Len(s)
       /\ \A i \in 1..n : got'[d][i] = IF i <= Len(g) THEN g[i] ELSE s[i]
  BY <1>1, <1>2, <1>3, <1>7, <1>8, <1>10
<1> QED BY <1>1, <1>3, <1>10, <1>11 DEF g, s

LEMMA DownloadShape ==
  ASSUME Shape, NEW d \in Downloads, DownloadStep(d)
  PROVE  Shape'
<1>1. d \in Requests /\ d \notin Deletes /\ d \notin Writers
  BY KindsFacts
<1>2. \E place : Goto(d, place) \/ UNCHANGED at
  BY DEF DownloadStep, DownloadOpen, DownloadOpenFails, DownloadStat,
         DownloadSend, DownloadEnds
<1>3. Gone' = Gone
  BY <1>1, <1>2, GoneSame DEF Shape
<1>4. UNCHANGED <<name, made, data, received>>
  BY DEF DownloadStep, DownloadOpen, DownloadOpenFails, DownloadStat,
         DownloadSend, DownloadEnds
<1>5. CASE DownloadOpen(d)
  <2>1. TypeOK'
    BY <1>1, <1>5 DEF Shape, TypeOK, DownloadOpen, Goto
  <2>2. NamesInv'
    BY <1>3, <1>4, <1>5, <2>1, NamesKept DEF DownloadOpen, Shape, TypeOK
  <2>3. OpenInv'
    BY <1>1, <1>5, KindsFacts DEF Shape, TypeOK, OpenInv, DownloadOpen, Goto
  <2> QED BY <2>1, <2>2, <2>3 DEF Shape
<1>6. CASE DownloadOpenFails(d)
  <2>1. TypeOK'
    BY <1>1, <1>6 DEF Shape, TypeOK, DownloadOpenFails, Goto
  <2>2. NamesInv'
    BY <1>3, <1>4, <1>6, <2>1, NamesKept DEF DownloadOpenFails, Shape, TypeOK
  <2>3. OpenInv'
    BY <1>1, <1>6, KindsFacts
    DEF Shape, TypeOK, OpenInv, DownloadOpenFails, Goto
  <2> QED BY <2>1, <2>2, <2>3 DEF Shape
<1>7. CASE DownloadStat(d)
  <2>1. at[d] = "opened"
    BY <1>7 DEF DownloadStat, Ready
  <2>2. data[open[d]] \in Seq(Item) /\ Len(data[open[d]]) \in Nat
    BY <1>1, <2>1, OpenFileFacts
  <2>3. TypeOK'
    BY <1>1, <1>7, <2>2 DEF Shape, TypeOK, DownloadStat, Goto, Item
  <2>4. NamesInv'
    BY <1>3, <1>4, <1>7, <2>3, NamesKept DEF DownloadStat, Shape, TypeOK
  <2>5. OpenInv'
    BY <1>1, <1>7, <2>1, KindsFacts
    DEF Shape, TypeOK, OpenInv, DownloadStat, Goto
  <2> QED BY <2>3, <2>4, <2>5 DEF Shape
<1>8. CASE DownloadSend(d)
  <2>1. got' \in [Downloads -> Seq(Item)]
    BY <1>1, <1>8, SendFacts
  <2>2. TypeOK'
    BY <1>8, <2>1 DEF Shape, TypeOK, DownloadSend, Item
  <2>3. NamesInv'
    BY <1>3, <1>4, <1>8, <2>2, NamesKept DEF DownloadSend, Shape, TypeOK
  <2>4. OpenInv'
    BY <1>8 DEF Shape, OpenInv, DownloadSend
  <2> QED BY <2>2, <2>3, <2>4 DEF Shape
<1>9. CASE DownloadEnds(d)
  <2>1. TypeOK'
    BY <1>1, <1>9 DEF Shape, TypeOK, DownloadEnds, Goto, Close
  <2>2. NamesInv'
    BY <1>3, <1>4, <1>9, <2>1, NamesKept DEF DownloadEnds, Close, Shape, TypeOK
  <2>3. OpenInv'
    BY <1>1, <1>9, KindsFacts
    DEF Shape, TypeOK, OpenInv, DownloadEnds, Goto, Close
  <2> QED BY <2>1, <2>2, <2>3 DEF Shape
<1> QED BY <1>5, <1>6, <1>7, <1>8, <1>9 DEF DownloadStep

LEMMA DeleteShape ==
  ASSUME Shape, NEW x \in Deletes, Delete(x)
  PROVE  Shape'
<1>1. x \in Requests /\ x \notin Writers /\ x \notin Downloads
  BY KindsFacts
<1>2. at[x] = "ready" /\ at' = [at EXCEPT ![x] = "done"]
  BY DEF Delete, Ready, Goto
<1>3. Gone' = Gone \cup {x} /\ x \notin Gone
  BY <1>1, <1>2, KindsFacts DEF Gone, Shape, TypeOK
<1>4. Cardinality(Gone') = Cardinality(Gone) + 1
  BY <1>3, GoneFacts, FS_AddElement
<1>5. TypeOK'
  BY <1>1, <1>2, KindsFacts DEF Shape, TypeOK, Delete, WritersBut
<1>6. NamesInv'
  <2>1. made \in Nat
    BY DEF Shape, TypeOK
  <2> QED BY <1>4, <2>1, GoneFacts DEF Shape, NamesInv, Delete
<1>7. OpenInv'
  BY <1>1, <1>2, KindsFacts DEF Shape, TypeOK, OpenInv, Delete
<1> QED BY <1>5, <1>6, <1>7 DEF Shape

LEMMA NextShape == Shape /\ [Next]_vars => Shape'
<1> SUFFICES ASSUME Shape, [Next]_vars PROVE Shape'
  OBVIOUS
<1>1. ASSUME NEW u \in Uploads, UploadStep(u) PROVE Shape'
  BY <1>1, UploadOpenShape, UploadOpenFailsShape, UploadWriteShape,
     UploadCloseShape DEF UploadStep
<1>2. ASSUME NEW p \in Puts, PutStep(p) PROVE Shape'
  BY <1>2, PutReceiveShape, PutOpenShape, PutOpenFailsShape, PutSaveShape
  DEF PutStep
<1>3. CASE UNCHANGED vars
  BY <1>3 DEF vars, Shape, TypeOK, NamesInv, OpenInv, Gone
<1> QED BY <1>1, <1>2, <1>3, DownloadShape, DeleteShape DEF Next

-----------------------------------------------------------------------------
(* Downloads                                                               *)

(* What is in the file while it is sent still begins with what it held     *)
(* when its length was taken: this is what a PUT breaks and nothing else.  *)
SnapshotInv ==
  \A d \in Downloads :
    /\ length[d] = Len(promised[d])
    /\ Len(got[d]) <= length[d]
    /\ at[d] \in {"ready", "opened"} => got[d] = <<>>
    /\ at[d] = "done" => Len(got[d]) = length[d]
    /\ d \notin disturbed => Begins(got[d], promised[d])
    /\ d \notin disturbed /\ at[d] = "sending" =>
         Begins(promised[d], data[open[d]])

DIInv == Shape /\ SnapshotInv

LEMMA DownloadTypes ==
  ASSUME Shape, NEW d \in Downloads
  PROVE  /\ d \in Requests /\ length[d] \in Nat
         /\ promised[d] \in Seq(Item) /\ Len(promised[d]) \in Nat
         /\ got[d] \in Seq(Item) /\ Len(got[d]) \in Nat
<1>1. promised[d] \in Seq(Item) /\ got[d] \in Seq(Item) /\ length[d] \in Nat
  BY DEF Shape, TypeOK, Item
<1> QED BY <1>1, KindsFacts, LenProperties

(* The steps of the other requests leave a download as it is, except for   *)
(* its file.                                                               *)
LEMMA SnapshotKept ==
  ASSUME Shape, SnapshotInv, UNCHANGED downloadVars, disturbed \subseteq disturbed',
         \A d \in Downloads : at'[d] = at[d] /\ open'[d] = open[d],
         \A d \in Downloads \ disturbed' :
           at[d] = "sending" /\ Begins(promised[d], data[open[d]])
             => Begins(promised[d], data'[open[d]])
  PROVE  SnapshotInv'
BY DEF SnapshotInv, Begins

LEMMA OthersKeepDownloads ==
  ASSUME TypeOK, NEW r \in Requests, r \notin Downloads, NEW place,
         Goto(r, place) \/ UNCHANGED at,
         Close(r) \/ UNCHANGED open
  PROVE  \A d \in Downloads : at'[d] = at[d] /\ open'[d] = open[d]
BY KindsFacts DEF Goto, Close, TypeOK

LEMMA BeginsAppend ==
  ASSUME NEW s \in Seq(Item), NEW t \in Seq(Item), NEW e \in Item, Begins(s, t)
  PROVE  Begins(s, Append(t, e))
<1>1. Len(s) \in Nat /\ Len(t) \in Nat
  BY LenProperties
<1> QED BY <1>1, AppendFacts DEF Begins

LEMMA UploadSnapshot ==
  ASSUME DIInv, NEW u \in Uploads, UploadStep(u)
  PROVE  SnapshotInv'
<1>1. u \in Writers /\ u \in Requests /\ u \notin Downloads
  BY KindsFacts
<1>2. CASE UploadOpen(u)
  <2>1. \A d \in Downloads : at'[d] = at[d] /\ open'[d] = open[d]
    BY <1>1, <1>2, OpeningFacts, KindsFacts
    DEF UploadOpen, Goto, DIInv, Shape, TypeOK
  <2> QED BY <1>2, <2>1, SnapshotKept DEF UploadOpen, DIInv
<1>3. CASE UploadOpenFails(u)
  <2>1. \A d \in Downloads : at'[d] = at[d] /\ open'[d] = open[d]
    BY <1>1, <1>3, OthersKeepDownloads DEF UploadOpenFails, DIInv, Shape
  <2> QED BY <1>3, <2>1, SnapshotKept DEF UploadOpenFails, DIInv
<1>4. CASE UploadWrite(u)
  <2>1. at[u] = "opened" /\ received[u] < Length[u]
    BY <1>4 DEF UploadWrite, Ready
  <2>2. received[u] + 1 \in 1..Length[u]
    BY <1>1, <2>1, ReceivedFacts DEF DIInv
  <2> DEFINE e == <<u, received[u] + 1>>
  <2>3. e \in Item
    BY <1>1, <2>2, PieceIsItem
  <2>4. data' = [data EXCEPT ![open[u]] = Append(data[open[u]], e)]
    BY <1>4 DEF UploadWrite
  <2> HIDE DEF e
  <2>5. ASSUME NEW d \in Downloads, at[d] = "sending",
               Begins(promised[d], data[open[d]])
        PROVE  Begins(promised[d], data'[open[d]])
    <3>1. /\ open[d] \in Files /\ data \in [Files -> Seq(Item)]
          /\ data[open[d]] \in Seq(Item)
      BY <2>5, OpenFileFacts, KindsFacts DEF DIInv
    <3>2. CASE open[d] = open[u]
      <4>1. data'[open[d]] = Append(data[open[d]], e)
        BY <2>4, <3>1, <3>2
      <4> QED BY <2>3, <2>5, <3>1, <4>1, BeginsAppend, DownloadTypes DEF DIInv
    <3>3. CASE open[d] # open[u]
      BY <2>4, <2>5, <3>1, <3>3
    <3> QED BY <3>2, <3>3
  <2> QED BY <1>4, <2>5, SnapshotKept DEF UploadWrite, DIInv
<1>5. CASE UploadClose(u)
  <2>1. \A d \in Downloads : at'[d] = at[d] /\ open'[d] = open[d]
    BY <1>1, <1>5, OthersKeepDownloads DEF UploadClose, DIInv, Shape
  <2> QED BY <1>5, <2>1, SnapshotKept DEF UploadClose, DIInv
<1> QED BY <1>2, <1>3, <1>4, <1>5 DEF UploadStep

LEMMA PutSnapshot ==
  ASSUME DIInv, NEW p \in Puts, PutStep(p)
  PROVE  SnapshotInv'
<1>1. p \in Writers /\ p \in Requests /\ p \notin Downloads
  BY KindsFacts
<1>2. CASE PutReceive(p)
  <2>1. \A d \in Downloads : at'[d] = at[d] /\ open'[d] = open[d]
    BY <1>1, <1>2, OthersKeepDownloads DEF PutReceive, DIInv, Shape
  <2> QED BY <1>2, <2>1, SnapshotKept DEF PutReceive, DIInv
<1>3. CASE PutOpen(p)
  <2>1. \A d \in Downloads : at'[d] = at[d] /\ open'[d] = open[d]
    BY <1>1, <1>3, OpeningFacts, KindsFacts
    DEF PutOpen, Goto, DIInv, Shape, TypeOK
  <2>2. \A d \in Downloads \ disturbed' : data'[open[d]] = data[open[d]]
    BY <1>3 DEF PutOpen, Readers, DIInv, Shape, TypeOK
  <2> QED BY <1>3, <2>1, <2>2, SnapshotKept DEF PutOpen, DIInv
<1>4. CASE PutOpenFails(p)
  <2>1. \A d \in Downloads : at'[d] = at[d] /\ open'[d] = open[d]
    BY <1>1, <1>4, OthersKeepDownloads DEF PutOpenFails, DIInv, Shape
  <2> QED BY <1>4, <2>1, SnapshotKept DEF PutOpenFails, DIInv
<1>5. CASE PutSave(p)
  <2>1. \A d \in Downloads : at'[d] = at[d] /\ open'[d] = open[d]
    BY <1>1, <1>5, OthersKeepDownloads DEF PutSave, DIInv, Shape
  <2> DEFINE s == data[open[p]]
             n == received[p]
             t == Overwritten(p, n, s)
  <2>2. /\ open[p] \in Files /\ data \in [Files -> Seq(Item)]
        /\ s \in Seq(Item) /\ n \in Nat /\ n <= Length[p]
    BY <1>1, <1>5, OpenFileFacts, ReceivedFacts DEF PutSave, Ready, DIInv
  <2>3. data' = [data EXCEPT ![open[p]] = t]
    BY <1>5 DEF PutSave, Overwritten
  <2>4. /\ disturbed \subseteq disturbed'
        /\ s = <<>> \/ Begins(Body(p, n), s) \/ Readers(open[p]) \subseteq disturbed'
    BY <1>5 DEF PutSave
  <2> HIDE DEF s, n, t
  <2>5. /\ Len(s) \in Nat /\ Len(t) \in Nat
        /\ Len(t) = IF n <= Len(s) THEN Len(s) ELSE n
        /\ \A i \in 1..n : t[i] = <<p, i>>
        /\ \A i \in 1..Len(t) : i > n => t[i] = s[i]
    BY <1>1, <2>2, OverwriteFacts DEF t
  <2>6. ASSUME NEW d \in Downloads \ disturbed', at[d] = "sending",
               Begins(promised[d], data[open[d]])
        PROVE  Begins(promised[d], data'[open[d]])
    <3>1. /\ open[d] \in Files /\ Len(promised[d]) \in Nat
      BY <2>6, OpenFileFacts, KindsFacts, DownloadTypes DEF DIInv
    <3>2. CASE open[d] # open[p]
      BY <2>2, <2>3, <2>6, <3>1, <3>2
    <3>3. CASE open[d] = open[p]
      <4>1. data'[open[d]] = t /\ Begins(promised[d], s)
        BY <2>2, <2>3, <2>6, <3>3 DEF s
      <4>2. CASE s = <<>>
        <5>1. Len(promised[d]) = 0
          BY <3>1, <4>1, <4>2 DEF Begins
        <5> QED BY <2>5, <4>1, <5>1 DEF Begins
      <4>3. CASE Begins(Body(p, n), s)
        <5>1. n <= Len(s) /\ \A i \in 1..n : s[i] = <<p, i>>
          BY <1>1, <2>2, <4>3, BodyFacts DEF Begins
        <5>2. Len(t) = Len(s)
          BY <2>2, <2>5, <5>1
        <5>3. \A i \in 1..Len(s) : t[i] = s[i]
          <6> TAKE i \in 1..Len(s)
          <6>1. CASE i <= n
            <7>1. i \in 1..n
              BY <2>2, <6>1
            <7> QED BY <2>5, <5>1, <7>1
          <6>2. CASE i > n
            BY <2>5, <5>2, <6>2
          <6> QED BY <2>2, <2>5, <6>1, <6>2
        <5> QED BY <2>5, <3>1, <4>1, <5>2, <5>3 DEF Begins
      <4>4. CASE Readers(open[p]) \subseteq disturbed'
        BY <2>6, <3>3, <4>4 DEF Readers
      <4> QED BY <2>4, <4>2, <4>3, <4>4
    <3> QED BY <3>2, <3>3
  <2> QED BY <1>5, <2>1, <2>4, <2>6, SnapshotKept DEF PutSave, DIInv
<1> QED BY <1>2, <1>3, <1>4, <1>5 DEF PutStep

LEMMA DownloadSnapshot ==
  ASSUME DIInv, NEW d \in Downloads, DownloadStep(d)
  PROVE  SnapshotInv'
<1>1. d \in Requests /\ TypeOK
  BY KindsFacts DEF DIInv, Shape
<1>2. UNCHANGED data
  BY DEF DownloadStep, DownloadOpen, DownloadOpenFails, DownloadStat,
         DownloadSend, DownloadEnds
<1>3. CASE DownloadOpen(d)
  BY <1>1, <1>3, KindsFacts
  DEF DIInv, TypeOK, SnapshotInv, DownloadOpen, Ready, Goto
<1>4. CASE DownloadOpenFails(d)
  BY <1>1, <1>4, KindsFacts
  DEF DIInv, TypeOK, SnapshotInv, DownloadOpenFails, Ready, Goto
<1>5. CASE DownloadStat(d)
  <2>1. at[d] = "opened"
    BY <1>5 DEF DownloadStat, Ready
  <2>2. data[open[d]] \in Seq(Item) /\ Len(data[open[d]]) \in Nat
    BY <1>1, <2>1, OpenFileFacts DEF DIInv
  <2>3. got[d] = <<>> /\ Len(got[d]) = 0
    BY <2>1 DEF DIInv, SnapshotInv
  <2>4. Begins(got[d], data[open[d]]) /\ Begins(data[open[d]], data[open[d]])
    BY <2>2, <2>3 DEF Begins
  <2>5. /\ length'[d] = Len(data[open[d]]) /\ promised'[d] = data[open[d]]
        /\ at'[d] = "sending" /\ got' = got /\ open' = open
    BY <1>1, <1>5 DEF DownloadStat, Goto, TypeOK
  <2>6. \A e \in Downloads \ {d} :
          /\ length'[e] = length[e] /\ promised'[e] = promised[e]
          /\ at'[e] = at[e]
          /\ e \in disturbed' <=> e \in disturbed
    BY <1>1, <1>5, KindsFacts DEF DownloadStat, Goto, TypeOK
  <2>7. ASSUME NEW e \in Downloads, e # d
        PROVE  /\ length'[e] = length[e] /\ promised'[e] = promised[e]
               /\ got'[e] = got[e] /\ at'[e] = at[e]
               /\ data'[open'[e]] = data[open[e]]
               /\ e \in disturbed' <=> e \in disturbed
    BY <1>2, <2>5, <2>6, <2>7
  <2>8. /\ got'[d] = got[d] /\ data'[open'[d]] = data[open[d]]
        /\ Len(got'[d]) <= length'[d]
    BY <1>2, <2>2, <2>3, <2>5
  <2> SUFFICES ASSUME NEW e \in Downloads
               PROVE  /\ length'[e] = Len(promised'[e])
                      /\ Len(got'[e]) <= length'[e]
                      /\ at'[e] \in {"ready", "opened"} => got'[e] = <<>>
                      /\ at'[e] = "done" => Len(got'[e]) = length'[e]
                      /\ e \notin disturbed' => Begins(got'[e], promised'[e])
                      /\ e \notin disturbed' /\ at'[e] = "sending" =>
                           Begins(promised'[e], data'[open'[e]])
    BY DEF SnapshotInv, Begins
  <2>9. CASE e = d
    BY <2>4, <2>5, <2>8, <2>9
  <2>10. CASE e # d
    BY <2>7, <2>10 DEF DIInv, SnapshotInv
  <2> QED BY <2>9, <2>10
<1>6. CASE DownloadSend(d)
  <2>1. UNCHANGED <<at, open, length, promised, disturbed>> /\ at[d] = "sending"
    BY <1>6 DEF DownloadSend, Ready
  <2>2. /\ \A e \in Downloads \ {d} : got'[e] = got[e]
        /\ Len(got'[d]) <= length[d]
    BY <1>6, SendFacts DEF DIInv
  <2>3. ASSUME d \notin disturbed PROVE Begins(got'[d], promised[d])
    <3>1. /\ Begins(got[d], promised[d]) /\ Begins(promised[d], data[open[d]])
          /\ length[d] = Len(promised[d])
      BY <2>1, <2>3 DEF DIInv, SnapshotInv
    <3>2. Len(promised[d]) \in Nat /\ Len(got[d]) \in Nat /\ Len(got'[d]) \in Nat
      BY <1>6, DownloadTypes, SendFacts DEF DIInv
    <3>3. ASSUME NEW i \in 1..Len(got'[d]) PROVE promised[d][i] = got'[d][i]
      <4>1. i \in 1..Len(promised[d])
        BY <2>2, <3>1, <3>2
      <4>2. data[open[d]][i] = promised[d][i]
        BY <3>1, <4>1 DEF Begins
      <4>3. i <= Len(got[d]) => promised[d][i] = got[d][i]
        BY <3>1, <3>2 DEF Begins
      <4> QED BY <1>6, <4>2, <4>3, SendFacts DEF DIInv
    <3> QED BY <2>2, <3>1, <3>3 DEF Begins
  <2> QED BY <1>2, <2>1, <2>2, <2>3 DEF DIInv, SnapshotInv
<1>7. CASE DownloadEnds(d)
  <2>1. Len(got[d]) = length[d]
    BY <1>7, DownloadTypes DEF DownloadEnds, DIInv, SnapshotInv
  <2>2. /\ UNCHANGED <<length, promised, got, disturbed>>
        /\ at'[d] = "done"
        /\ \A e \in Downloads \ {d} : at'[e] = at[e] /\ open'[e] = open[e]
    BY <1>1, <1>7, KindsFacts DEF DownloadEnds, Goto, Close, TypeOK
  <2> QED BY <1>2, <2>1, <2>2 DEF DIInv, SnapshotInv
<1> QED BY <1>3, <1>4, <1>5, <1>6, <1>7 DEF DownloadStep

LEMMA DeleteSnapshot ==
  ASSUME DIInv, NEW x \in Deletes, Delete(x)
  PROVE  SnapshotInv'
<1>1. \A d \in Downloads : at'[d] = at[d] /\ open'[d] = open[d]
  BY KindsFacts DEF Delete, Goto, DIInv, Shape, TypeOK
<1> QED BY <1>1, SnapshotKept DEF Delete, DIInv

LEMMA InitSnapshot == Init => SnapshotInv
BY KindsFacts DEF Init, SnapshotInv, Begins

LEMMA NextSnapshot == DIInv /\ [Next]_vars => DIInv'
<1> SUFFICES ASSUME DIInv, [Next]_vars PROVE SnapshotInv'
  BY NextShape DEF DIInv
<1>1. CASE UNCHANGED vars
  BY <1>1 DEF vars, DIInv, SnapshotInv, Begins
<1> QED BY <1>1, UploadSnapshot, PutSnapshot, DownloadSnapshot, DeleteSnapshot
        DEF Next

(* With the lengths the same, a beginning is the whole.                    *)
LEMMA SnapshotImplied == DIInv => DownloadIsSnapshot
<1> SUFFICES ASSUME DIInv, NEW d \in Downloads \ disturbed
             PROVE  /\ Begins(got[d], promised[d])
                    /\ at[d] = "done" => got[d] = promised[d]
  BY DEF DownloadIsSnapshot
<1>1. Begins(got[d], promised[d])
  BY DEF DIInv, SnapshotInv
<1>2. ASSUME at[d] = "done" PROVE got[d] = promised[d]
  <2>1. Len(got[d]) = Len(promised[d])
    BY <1>2 DEF DIInv, SnapshotInv
  <2>2. \A i \in 1..Len(got[d]) : got[d][i] = promised[d][i]
    BY <1>1 DEF Begins
  <2>3. promised[d] \in Seq(Item) /\ got[d] \in Seq(Item)
    BY DownloadTypes DEF DIInv
  <2> QED BY <2>1, <2>2, <2>3, SeqEqual
<1> QED BY <1>1, <1>2

(* The state of the files keeps its types: a file that is written or sent  *)
(* is one that was made, and there are never more than the deletes allow.  *)
THEOREM TypeCorrect == Safety => []TypeOK
<1>1. Shape => TypeOK
  BY DEF Shape
<1> QED BY <1>1, InitShape, NextShape, PTL DEF Safety

(* A client that no PUT disturbs downloads the file as it was when its     *)
(* length was taken, for any number of uploads, deletes and downloads.     *)
(* (myevent.cpp:293-303, 409)                                              *)
THEOREM DownloadsAreSnapshots == Safety => []DownloadIsSnapshot
<1>1. Init => DIInv
  BY InitShape, InitSnapshot DEF DIInv
<1> QED BY <1>1, NextSnapshot, SnapshotImplied, PTL DEF Safety

-----------------------------------------------------------------------------
(* Uploads                                                                 *)

\* The file that the next piece of u goes to.
Current(u) == IF open[u] = NoFile THEN name ELSE open[u]

(* A file that u writes no more to can only be an earlier one; the one it  *)
(* writes to has all of u since the first piece of u that is still in it.  *)
StretchInv ==
  \A u \in Uploads, f \in Files : \A m \in 1..Length[u] :
    Has(data[f], u, m) =>
      /\ m <= received[u]
      /\ open[u] # NoFile => f <= open[u]
      /\ f = Current(u) => \A k \in m..received[u] : Has(data[f], u, k)

UPInv == Shape /\ StretchInv /\ UploadsInOrder

LEMMA DataFacts ==
  ASSUME Shape, NEW f \in Files
  PROVE  /\ f \in Nat /\ data[f] \in Seq(Item)
         /\ Len(data[f]) \in Nat /\ DOMAIN data[f] = 1..Len(data[f])
<1>1. f \in Nat /\ data[f] \in Seq(Item)
  BY FilesFacts DEF Shape, TypeOK, Item
<1> QED BY <1>1, LenProperties

LEMMA UploadFacts ==
  ASSUME Shape, NEW u \in Uploads
  PROVE  /\ u \in Writers /\ u \in Requests
         /\ received[u] \in Nat /\ Length[u] \in Nat
         /\ received[u] <= Length[u]
         /\ at[u] # "opened" => open[u] = NoFile
         /\ open[u] \in Files \cup {NoFile}
         /\ open[u] # NoFile => open[u] \in Nat /\ open[u] <= made
         /\ made \in Nat
         /\ name # NoFile => name = made /\ name \in Files
BY ReceivedFacts, KindsFacts, FilesFacts
DEF Shape, TypeOK, OpenInv, NamesInv

(* A step that changes no file and opens none.                             *)
LEMMA StretchKept ==
  ASSUME Shape, StretchInv, UNCHANGED <<data, name>>,
         \A u \in Uploads : received'[u] = received[u] /\ open'[u] = open[u]
  PROVE  StretchInv'
BY DEF StretchInv, Current

LEMMA EmptyFacts == \A u, m : ~Has(<<>>, u, m) /\ InOrder(u, <<>>)
BY DEF Has, InOrder

(* A step that opens a file for writing and may empty it.                  *)
LEMMA OpeningKeepsUploads ==
  ASSUME UPInv, NEW r \in Writers, OpenForWriting(r), at[r] # "opened",
         UNCHANGED received,
         \A f \in Files : data'[f] = data[f] \/ (f = open'[r] /\ data'[f] = <<>>)
  PROVE  StretchInv' /\ UploadsInOrder'
<1>1. \A f \in Files : \A u \in Uploads, m \in Nat :
        Has(data'[f], u, m) => Has(data[f], u, m) /\ data'[f] = data[f]
  BY EmptyFacts
<1>2. UploadsInOrder'
  BY EmptyFacts DEF UploadsInOrder, UPInv
<1>3. StretchInv'
  <2> SUFFICES ASSUME NEW u \in Uploads, NEW f \in Files,
                      NEW m \in 1..Length[u], Has(data'[f], u, m)
               PROVE  /\ m <= received'[u]
                      /\ open'[u] # NoFile => f <= open'[u]
                      /\ f = Current(u)' =>
                           \A k \in m..received'[u] : Has(data'[f], u, k)
    BY DEF StretchInv
  <2>1. Has(data[f], u, m) /\ data'[f] = data[f] /\ m \in Nat /\ f \in Nat
    BY <1>1, UploadFacts, DataFacts DEF UPInv
  <2>2. /\ m <= received[u]
        /\ open[u] # NoFile => f <= open[u]
        /\ f = Current(u) => \A k \in m..received[u] : Has(data[f], u, k)
    BY <2>1 DEF UPInv, StretchInv
  <2>3. f <= made /\ made \in Nat
    <3>1. data[f] # <<>>
      BY <2>1, DataFacts DEF Has, UPInv
    <3> QED BY <3>1, DataFacts, UploadFacts DEF UPInv, Shape, NamesInv
  <2>4. /\ name' = made' /\ name' = open'[r] /\ made <= made' /\ made' \in Nat
        /\ \A q \in Requests \ {r} : open'[q] = open[q]
        /\ name = NoFile => name' = made + 1
        /\ name # NoFile => name' = name
    BY OpeningFacts, KindsFacts DEF UPInv, OpenForWriting
  <2>5. open'[u] # NoFile => f <= open'[u]
    <3>1. CASE u = r
      BY <2>1, <2>3, <2>4, <3>1
    <3>2. CASE u # r
      BY <2>2, <2>4, <3>2, UploadFacts DEF UPInv
    <3> QED BY <3>1, <3>2
  <2>6. f = Current(u)' => f = Current(u)
    <3>1. CASE open[u] = NoFile
      <4>1. f = Current(u)' => f = name'
        BY <2>4, <3>1, UploadFacts DEF Current, UPInv
      <4>2. f = name' => name # NoFile
        BY <2>1, <2>3, <2>4
      <4> QED BY <2>4, <3>1, <4>1, <4>2 DEF Current
    <3>2. CASE open[u] # NoFile
      <4>1. u # r
        BY <3>2, UploadFacts DEF UPInv
      <4> QED BY <2>4, <3>2, <4>1, UploadFacts DEF Current, UPInv
    <3> QED BY <3>1, <3>2
  <2> QED BY <2>1, <2>2, <2>5, <2>6 DEF Has
<1> QED BY <1>2, <1>3

LEMMA HasAppend ==
  ASSUME NEW s \in Seq(Item), NEW e \in Item
  PROVE  \A u, m : Has(Append(s, e), u, m) <=> Has(s, u, m) \/ e = <<u, m>>
<1> DEFINE t == Append(s, e)
<1>1. /\ DOMAIN t = 1..(Len(s) + 1) /\ DOMAIN s = 1..Len(s) /\ Len(s) \in Nat
      /\ \A i \in 1..Len(s) : t[i] = s[i]
      /\ t[Len(s) + 1] = e
  BY AppendFacts
<1> HIDE DEF t
<1> SUFFICES ASSUME NEW u, NEW m
             PROVE  Has(t, u, m) <=> Has(s, u, m) \/ e = <<u, m>>
  BY DEF t
<1>2. ASSUME NEW i \in DOMAIN t, t[i] = <<u, m>>
      PROVE  Has(s, u, m) \/ e = <<u, m>>
  <2>1. i \in 1..Len(s) \/ i = Len(s) + 1
    BY <1>1
  <2> QED BY <1>1, <1>2, <2>1 DEF Has
<1>3. Has(s, u, m) => Has(t, u, m)
  <2>1. \A i \in DOMAIN s : i \in DOMAIN t /\ t[i] = s[i]
    BY <1>1
  <2> QED BY <2>1 DEF Has
<1>4. e = <<u, m>> => Has(t, u, m)
  BY <1>1 DEF Has
<1> QED BY <1>2, <1>3, <1>4 DEF Has

(* The next piece of u goes after all that u has in the file.              *)
LEMMA InOrderAppend ==
  ASSUME NEW u \in Uploads, NEW r \in Nat, r + 1 <= Length[u], NEW s \in Seq(Item),
         InOrder(u, s), <<u, r + 1>> \in Item, Length[u] \in Nat,
         \A m \in 1..Length[u] : Has(s, u, m) =>
           m <= r /\ \A k \in m..r : Has(s, u, k)
  PROVE  InOrder(u, Append(s, <<u, r + 1>>))
<1> DEFINE e == <<u, r + 1>>
           t == Append(s, e)
<1>1. /\ DOMAIN t = 1..(Len(s) + 1) /\ DOMAIN s = 1..Len(s) /\ Len(s) \in Nat
      /\ \A i \in 1..Len(s) : t[i] = s[i]
      /\ t[Len(s) + 1] = e
  BY AppendFacts
<1>2. \A m : Has(t, u, m) <=> Has(s, u, m) \/ m = r + 1
  BY HasAppend
<1> HIDE DEF t
<1> SUFFICES ASSUME NEW m \in 1..Length[u], NEW n \in 1..Length[u],
                    NEW i \in DOMAIN t, NEW j \in DOMAIN t,
                    t[i] = <<u, m>>, t[j] = <<u, n>>
             PROVE  /\ i < j <=> m < n
                    /\ \A k \in m..n : Has(t, u, k)
  BY DEF InOrder, t
<1>3. /\ i \in Nat /\ j \in Nat /\ m \in Nat /\ n \in Nat
      /\ i \in 1..Len(s) \/ i = Len(s) + 1
      /\ j \in 1..Len(s) \/ j = Len(s) + 1
  BY <1>1
<1>4. i \in 1..Len(s) => Has(s, u, m) /\ s[i] = <<u, m>>
  BY <1>1 DEF Has
<1>5. j \in 1..Len(s) => Has(s, u, n) /\ s[j] = <<u, n>>
  BY <1>1 DEF Has
<1>6. i = Len(s) + 1 => m = r + 1
  BY <1>1
<1>7. j = Len(s) + 1 => n = r + 1
  BY <1>1
<1>8. CASE i \in 1..Len(s) /\ j \in 1..Len(s)
  <2>1. (i < j <=> m < n) /\ \A k \in m..n : Has(s, u, k)
    BY <1>1, <1>4, <1>5, <1>8 DEF InOrder
  <2> QED BY <1>2, <2>1
<1>9. CASE i \in 1..Len(s) /\ j = Len(s) + 1
  <2>1. m <= r /\ n = r + 1 /\ \A k \in m..r : Has(s, u, k)
    BY <1>4, <1>7, <1>9
  <2>2. ASSUME NEW k \in m..n PROVE Has(t, u, k)
    <3>1. k \in m..r \/ k = r + 1
      BY <1>3, <2>1
    <3> QED BY <1>2, <2>1, <3>1
  <2> QED BY <1>3, <1>9, <2>1, <2>2
<1>10. CASE i = Len(s) + 1 /\ j \in 1..Len(s)
  <2>1. n <= r /\ m = r + 1
    BY <1>5, <1>6, <1>10
  <2> QED BY <1>1, <1>3, <1>10, <2>1
<1>11. CASE i = Len(s) + 1 /\ j = Len(s) + 1
  <2>1. m = r + 1 /\ n = r + 1
    BY <1>6, <1>7, <1>11
  <2>2. \A k \in m..n : k = r + 1
    BY <2>1
  <2> QED BY <1>2, <1>11, <2>1, <2>2
<1> QED BY <1>3, <1>8, <1>9, <1>10, <1>11

LEMMA UploadWriteUploads ==
  ASSUME UPInv, NEW u \in Uploads, UploadWrite(u)
  PROVE  StretchInv' /\ UploadsInOrder'
<1> DEFINE f == open[u]
           r == received[u]
           e == <<u, r + 1>>
<1>1. /\ u \in Writers /\ u \in Requests
      /\ f \in Files /\ f \in Nat /\ f # NoFile
      /\ r \in Nat /\ r + 1 <= Length[u] /\ Length[u] \in Nat
      /\ data \in [Files -> Seq(Item)] /\ data[f] \in Seq(Item)
  <2>1. at[u] = "opened" /\ received[u] < Length[u]
    BY DEF UploadWrite, Ready
  <2> QED BY <2>1, OpenFileFacts, UploadFacts, FilesFacts DEF UPInv
<1>2. e \in Item
  BY <1>1, PieceIsItem
<1>3. /\ data' = [data EXCEPT ![f] = Append(data[f], e)]
      /\ received' = [received EXCEPT ![u] = r + 1]
      /\ UNCHANGED <<name, open>>
  BY DEF UploadWrite
<1> HIDE DEF f, r
<1>4. /\ \A g \in Files \ {f} : data'[g] = data[g]
      /\ data'[f] = Append(data[f], e)
  BY <1>1, <1>3
<1>5. /\ received'[u] = r + 1
      /\ \A v \in Uploads \ {u} : received'[v] = received[v]
  BY <1>1, <1>3, KindsFacts DEF UPInv, Shape, TypeOK
<1>6. \A m \in 1..Length[u] : Has(data[f], u, m) =>
        m <= r /\ \A k \in m..r : Has(data[f], u, k)
  BY <1>1 DEF UPInv, StretchInv, Current, f, r
<1>7. \A v \in Uploads : \A m : Has(data'[f], v, m) <=>
        Has(data[f], v, m) \/ (v = u /\ m = r + 1)
  BY <1>1, <1>2, <1>4, HasAppend
<1>8. InOrder(u, data'[f])
  <2>1. InOrder(u, data[f])
    BY <1>1 DEF UPInv, UploadsInOrder
  <2> QED BY <1>1, <1>2, <1>4, <1>6, <2>1, InOrderAppend
<1>9. ASSUME NEW v \in Uploads, v # u
      PROVE  InOrder(v, data'[f])
  <2>1. InOrder(v, data[f])
    BY <1>1 DEF UPInv, UploadsInOrder
  <2>2. /\ DOMAIN data'[f] = 1..(Len(data[f]) + 1)
        /\ DOMAIN data[f] = 1..Len(data[f]) /\ Len(data[f]) \in Nat
        /\ \A i \in 1..Len(data[f]) : data'[f][i] = data[f][i]
        /\ data'[f][Len(data[f]) + 1] = e
    BY <1>1, <1>2, <1>4, AppendFacts
  <2>3. \A m : \A i \in DOMAIN data'[f] : data'[f][i] = <<v, m>> =>
          i \in DOMAIN data[f] /\ data[f][i] = <<v, m>>
    BY <1>9, <2>2
  <2>4. \A m : Has(data'[f], v, m) <=> Has(data[f], v, m)
    BY <1>7, <1>9
  <2> HIDE DEF e
  <2> QED BY <2>1, <2>3, <2>4 DEF InOrder
<1>10. UploadsInOrder'
  BY <1>4, <1>8, <1>9 DEF UPInv, UploadsInOrder
<1>11. StretchInv'
  <2> SUFFICES ASSUME NEW v \in Uploads, NEW g \in Files,
                      NEW m \in 1..Length[v], Has(data'[g], v, m)
               PROVE  /\ m <= received'[v]
                      /\ open'[v] # NoFile => g <= open'[v]
                      /\ g = Current(v)' =>
                           \A k \in m..received'[v] : Has(data'[g], v, k)
    BY DEF StretchInv
  <2>1. Current(v)' = Current(v) /\ open'[v] = open[v]
    BY <1>3 DEF Current
  <2>2. CASE v # u
    <3>1. received'[v] = received[v]
      BY <1>5, <2>2
    <3>2. \A k : Has(data'[g], v, k) <=> Has(data[g], v, k)
      BY <1>4, <1>7, <2>2
    <3> QED BY <2>1, <3>1, <3>2 DEF UPInv, StretchInv
  <2>3. CASE v = u /\ g # f
    <3>1. data'[g] = data[g] /\ g # Current(u)
      BY <1>1, <1>4, <2>3 DEF Current, f
    <3>2. m <= r /\ g <= open[u]
      BY <1>1, <2>3, <3>1 DEF UPInv, StretchInv, f, r
    <3> QED BY <1>1, <1>5, <2>1, <2>3, <3>1, <3>2
  <2>4. CASE v = u /\ g = f
    <3>1. m <= r + 1
      BY <1>1, <1>6, <1>7, <2>4
    <3>2. ASSUME NEW k \in m..(r + 1) PROVE Has(data'[f], u, k)
      <4>1. CASE k = r + 1
        BY <1>7, <4>1
      <4>2. CASE k # r + 1
        <5>1. m # r + 1 /\ k \in m..r
          BY <1>1, <3>1, <4>2
        <5>2. Has(data[f], u, m)
          BY <1>7, <2>4, <5>1
        <5> QED BY <1>6, <1>7, <2>4, <5>1, <5>2
      <4> QED BY <4>1, <4>2
    <3> QED BY <1>1, <1>5, <2>1, <2>4, <3>1, <3>2 DEF f
  <2> QED BY <2>2, <2>3, <2>4
<1> QED BY <1>10, <1>11

(* A name that goes over to another file, or that an upload goes back to,  *)
(* stands for a later one.                                                 *)
LEMMA UploadCloseUploads ==
  ASSUME UPInv, NEW u \in Uploads, UploadClose(u)
  PROVE  StretchInv' /\ UploadsInOrder'
<1>1. /\ UNCHANGED <<name, made, data, received>>
      /\ open' = [open EXCEPT ![u] = NoFile]
      /\ u \in Requests /\ open[u] # NoFile
      /\ open \in [Requests -> Files \cup {NoFile}]
  BY UploadFacts DEF UploadClose, Close, Ready, UPInv, Shape, TypeOK, OpenInv
<1>2. StretchInv'
  <2> SUFFICES ASSUME NEW v \in Uploads, NEW f \in Files,
                      NEW m \in 1..Length[v], Has(data'[f], v, m)
               PROVE  /\ m <= received'[v]
                      /\ open'[v] # NoFile => f <= open'[v]
                      /\ f = Current(v)' =>
                           \A k \in m..received'[v] : Has(data'[f], v, k)
    BY DEF StretchInv
  <2>1. /\ m <= received[v]
        /\ open[v] # NoFile => f <= open[v]
        /\ f = Current(v) => \A k \in m..received[v] : Has(data[f], v, k)
    BY <1>1 DEF UPInv, StretchInv
  <2>2. CASE v = u
    <3>1. open'[u] = NoFile /\ Current(u)' = name /\ Current(u) = open[u]
      BY <1>1 DEF Current
    <3>2. f = name => f = open[u]
      <4> SUFFICES ASSUME f = name PROVE f = open[u]
        OBVIOUS
      <4>1. f \in Nat /\ name # NoFile
        BY DataFacts, FilesFacts DEF UPInv
      <4>2. name = made /\ made \in Nat /\ open[u] \in Nat /\ open[u] <= made
        BY <1>1, <4>1, UploadFacts DEF UPInv
      <4> QED BY <1>1, <2>1, <2>2, <4>1, <4>2
    <3> QED BY <1>1, <2>1, <2>2, <3>1, <3>2
  <2>3. CASE v # u
    <3>1. open'[v] = open[v]
      BY <1>1, <2>3
    <3>2. Current(v)' = Current(v)
      BY <1>1, <3>1 DEF Current
    <3> QED BY <1>1, <2>1, <3>1, <3>2
  <2> QED BY <2>2, <2>3
<1> QED BY <1>1, <1>2 DEF UPInv, UploadsInOrder

LEMMA UploadUploads ==
  ASSUME UPInv, NEW u \in Uploads, UploadStep(u)
  PROVE  StretchInv' /\ UploadsInOrder'
<1>1. u \in Writers /\ u \in Requests
  BY KindsFacts
<1>2. CASE UploadOpen(u)
  BY <1>1, <1>2, OpeningKeepsUploads DEF UploadOpen, Ready
<1>3. CASE UploadOpenFails(u)
  <2>1. UNCHANGED <<data, name, received, open>>
    BY <1>3 DEF UploadOpenFails
  <2> QED BY <2>1, StretchKept DEF UPInv, UploadsInOrder
<1> QED BY <1>2, <1>3, UploadWriteUploads, UploadCloseUploads DEF UploadStep

(* A PUT leaves a later part of the file as it was and puts nothing of an  *)
(* upload before it: what is left of an upload is its end.                 *)
LEMMA OverwriteKeepsOrder ==
  ASSUME NEW p \in Puts, NEW n \in Nat, n <= Length[p], NEW s \in Seq(Item),
         NEW u \in Uploads, InOrder(u, s)
  PROVE  /\ InOrder(u, Overwritten(p, n, s))
         /\ \A m \in 1..Length[u] : Has(Overwritten(p, n, s), u, m) =>
              /\ Has(s, u, m)
              /\ \A k \in 1..Length[u] : m <= k /\ Has(s, u, k) =>
                   Has(Overwritten(p, n, s), u, k)
<1> DEFINE t == Overwritten(p, n, s)
<1>1. p \in Writers /\ p # u /\ Length[u] \in Nat
  BY KindsFacts, FilesFacts
<1>2. /\ Len(s) \in Nat /\ Len(t) \in Nat
      /\ DOMAIN s = 1..Len(s) /\ DOMAIN t = 1..Len(t)
      /\ Len(t) = IF n <= Len(s) THEN Len(s) ELSE n
      /\ \A i \in 1..n : t[i] = <<p, i>>
      /\ \A i \in 1..Len(t) : i > n => i <= Len(s) /\ t[i] = s[i]
  BY <1>1, OverwriteFacts
<1> HIDE DEF t
<1>3. ASSUME NEW m, NEW i \in DOMAIN t, t[i] = <<u, m>>
      PROVE  i > n /\ i \in DOMAIN s /\ s[i] = <<u, m>>
  <2>1. i > n
    <3> SUFFICES ASSUME i <= n PROVE FALSE
      BY <1>2
    <3>1. i \in 1..n
      BY <1>2
    <3> QED BY <1>1, <1>2, <1>3, <3>1
  <2> QED BY <1>2, <1>3, <2>1
<1>4. ASSUME NEW i \in DOMAIN s, i > n PROVE i \in DOMAIN t /\ t[i] = s[i]
  BY <1>2, <1>4
<1>5. ASSUME NEW m \in 1..Length[u], NEW i \in DOMAIN t, t[i] = <<u, m>>,
             NEW k \in 1..Length[u], m <= k, Has(s, u, k)
      PROVE  Has(t, u, k)
  <2>1. PICK j \in DOMAIN s : s[j] = <<u, k>>
    BY <1>5 DEF Has
  <2>2. i > n /\ i \in DOMAIN s /\ s[i] = <<u, m>>
    BY <1>3, <1>5
  <2>3. j < i <=> k < m
    BY <2>1, <2>2 DEF InOrder
  <2>4. j > n
    BY <1>1, <1>2, <1>5, <2>1, <2>2, <2>3
  <2> QED BY <1>4, <2>1, <2>4 DEF Has
<1>6. \A m \in 1..Length[u] : Has(t, u, m) =>
        /\ Has(s, u, m)
        /\ \A k \in 1..Length[u] : m <= k /\ Has(s, u, k) => Has(t, u, k)
  BY <1>3, <1>5 DEF Has
<1>7. InOrder(u, t)
  <2> SUFFICES ASSUME NEW m \in 1..Length[u], NEW l \in 1..Length[u],
                      NEW i \in DOMAIN t, NEW j \in DOMAIN t,
                      t[i] = <<u, m>>, t[j] = <<u, l>>
               PROVE  /\ i < j <=> m < l
                      /\ \A k \in m..l : Has(t, u, k)
    BY DEF InOrder
  <2>1. i \in DOMAIN s /\ s[i] = <<u, m>> /\ j \in DOMAIN s /\ s[j] = <<u, l>>
    BY <1>3
  <2>2. (i < j <=> m < l) /\ \A k \in m..l : Has(s, u, k)
    BY <2>1 DEF InOrder
  <2>3. ASSUME NEW k \in m..l PROVE Has(t, u, k)
    <3>1. k \in 1..Length[u] /\ m <= k
      BY <1>1
    <3> QED BY <1>5, <2>2, <3>1
  <2> QED BY <2>2, <2>3
<1> QED BY <1>6, <1>7 DEF t

LEMMA PutSaveUploads ==
  ASSUME UPInv, NEW p \in Puts, PutSave(p)
  PROVE  StretchInv' /\ UploadsInOrder'
<1> DEFINE f == open[p]
           n == received[p]
<1>1. /\ f \in Files /\ data \in [Files -> Seq(Item)]
      /\ n \in Nat /\ n <= Length[p]
      /\ data[f] \in Seq(Item)
  BY OpenFileFacts, ReceivedFacts, KindsFacts DEF PutSave, Ready, UPInv
<1>2. /\ data' = [data EXCEPT ![f] = Overwritten(p, n, data[f])]
      /\ open' = [open EXCEPT ![p] = NoFile]
      /\ UNCHANGED <<name, received>>
  BY DEF PutSave, Close, Overwritten
<1> HIDE DEF f, n
<1>3. /\ \A g \in Files \ {f} : data'[g] = data[g]
      /\ data'[f] = Overwritten(p, n, data[f])
  BY <1>1, <1>2
<1>4. ASSUME NEW g \in Files, NEW u \in Uploads
      PROVE  /\ InOrder(u, data'[g])
             /\ \A m \in 1..Length[u] : Has(data'[g], u, m) =>
                  /\ Has(data[g], u, m)
                  /\ \A k \in 1..Length[u] : m <= k /\ Has(data[g], u, k) =>
                       Has(data'[g], u, k)
  <2>1. InOrder(u, data[g])
    BY DEF UPInv, UploadsInOrder
  <2>2. CASE g = f
    BY <1>1, <1>3, <2>1, <2>2, OverwriteKeepsOrder
  <2>3. CASE g # f
    BY <1>3, <2>1, <2>3
  <2> QED BY <2>2, <2>3
<1>5. StretchInv'
  <2> SUFFICES ASSUME NEW u \in Uploads, NEW g \in Files,
                      NEW m \in 1..Length[u], Has(data'[g], u, m)
               PROVE  /\ m <= received'[u]
                      /\ open'[u] # NoFile => g <= open'[u]
                      /\ g = Current(u)' =>
                           \A k \in m..received'[u] : Has(data'[g], u, k)
    BY DEF StretchInv
  <2>1. open'[u] = open[u] /\ Current(u)' = Current(u)
    BY <1>2, KindsFacts DEF Current, UPInv, Shape, TypeOK
  <2>2. /\ m <= received[u]
        /\ open[u] # NoFile => g <= open[u]
        /\ g = Current(u) => \A k \in m..received[u] : Has(data[g], u, k)
    BY <1>4 DEF UPInv, StretchInv
  <2>3. \A k \in m..received[u] : k \in 1..Length[u] /\ m <= k
    BY UploadFacts DEF UPInv
  <2> QED BY <1>2, <1>4, <2>1, <2>2, <2>3
<1> QED BY <1>4, <1>5 DEF UploadsInOrder

LEMMA PutUploads ==
  ASSUME UPInv, NEW p \in Puts, PutStep(p)
  PROVE  StretchInv' /\ UploadsInOrder'
<1>1. p \in Writers /\ p \in Requests /\ \A u \in Uploads : u # p
  BY KindsFacts
<1>2. CASE PutReceive(p)
  <2>1. UNCHANGED <<data, name, open>>
    BY <1>2 DEF PutReceive
  <2>2. \A u \in Uploads : received'[u] = received[u]
    BY <1>1, <1>2, KindsFacts DEF PutReceive, UPInv, Shape, TypeOK
  <2> QED BY <2>1, <2>2, StretchKept DEF UPInv, UploadsInOrder
<1>3. CASE PutOpen(p)
  <2>1. \A f \in Files :
          data'[f] = data[f] \/ (f = open'[p] /\ data'[f] = <<>>)
    BY <1>3 DEF PutOpen, UPInv, Shape, TypeOK
  <2> QED BY <1>1, <1>3, <2>1, OpeningKeepsUploads DEF PutOpen, Ready
<1>4. CASE PutOpenFails(p)
  <2>1. UNCHANGED <<data, name, received, open>>
    BY <1>4 DEF PutOpenFails
  <2> QED BY <2>1, StretchKept DEF UPInv, UploadsInOrder
<1> QED BY <1>2, <1>3, <1>4, PutSaveUploads DEF PutStep

LEMMA DownloadUploads ==
  ASSUME UPInv, NEW d \in Downloads, DownloadStep(d)
  PROVE  StretchInv' /\ UploadsInOrder'
<1>1. UNCHANGED <<data, name, received>>
  BY DEF DownloadStep, DownloadOpen, DownloadOpenFails, DownloadStat,
         DownloadSend, DownloadEnds
<1>2. \A u \in Uploads : open'[u] = open[u]
  BY KindsFacts
  DEF DownloadStep, DownloadOpen, DownloadOpenFails, DownloadStat,
      DownloadSend, DownloadEnds, Close, UPInv, Shape, TypeOK
<1> QED BY <1>1, <1>2, StretchKept DEF UPInv, UploadsInOrder

LEMMA DeleteUploads ==
  ASSUME UPInv, NEW x \in Deletes, Delete(x)
  PROVE  StretchInv' /\ UploadsInOrder'
<1>1. UNCHANGED <<data, open, received>> /\ name' = NoFile
  BY DEF Delete
<1>2. \A u \in Uploads, f \in Files : f = Current(u)' => f = Current(u)
  BY <1>1, FilesFacts DEF Current
<1> QED BY <1>1, <1>2 DEF UPInv, StretchInv, UploadsInOrder

LEMMA InitUploads == Init => StretchInv /\ UploadsInOrder
<1> SUFFICES ASSUME Init, NEW f \in Files, NEW u \in Uploads, NEW m \in 1..Length[u]
             PROVE  \A i \in DOMAIN data[f] : data[f][i] # <<u, m>>
  BY DEF StretchInv, UploadsInOrder, InOrder, Has
<1>1. <<u, m>> # Old
  BY KindsFacts, FileStoreAssumption DEF Piece
<1>2. data[f] = <<Old>> \/ data[f] = <<>>
  BY DEF Init
<1>3. \A i \in DOMAIN <<Old>> : <<Old>>[i] = Old
  OBVIOUS
<1>4. DOMAIN <<>> = {}
  OBVIOUS
<1> QED BY <1>1, <1>2, <1>3, <1>4

LEMMA NextUploads == UPInv /\ [Next]_vars => UPInv'
<1> SUFFICES ASSUME UPInv, [Next]_vars PROVE StretchInv' /\ UploadsInOrder'
  BY NextShape DEF UPInv
<1>1. CASE UNCHANGED vars
  BY <1>1, StretchKept DEF vars, UPInv, UploadsInOrder
<1> QED BY <1>1, UploadUploads, PutUploads, DownloadUploads, DeleteUploads
        DEF Next

(* Whatever PUTs, deletes and other uploads do to the name, no file ever   *)
(* has an upload out of order, twice or with a gap.                        *)
(* (myevent.cpp:172, 208-209)                                              *)
THEOREM UploadsStayInOrder == Safety => []UploadsInOrder
<1>1. Init => UPInv
  BY InitShape, InitUploads DEF UPInv
<1>2. UPInv => UploadsInOrder
  BY DEF UPInv
<1> QED BY <1>1, <1>2, NextUploads, PTL DEF Safety

-----------------------------------------------------------------------------
(* What is stored                                                          *)

(* A writer that nobody disturbs has all it wrote in the file that the     *)
(* name stands for, and the file it has open is that one.                  *)
StoredFor(w) ==
  /\ at[w] = "opened" => open[w] = name
  /\ at[w] = "done" => name # NoFile /\ received[w] = Length[w]
  /\ w \in Uploads /\ received[w] > 0 =>
       name # NoFile /\ \A k \in 1..received[w] : Has(data[name], w, k)
  /\ w \in Puts /\ at[w] = "done" => Begins(Body(w, Length[w]), data[name])

StoredInv == \A w \in Writers \ disturbed : StoredFor(w)

STInv == Shape /\ StoredInv

LEMMA StoredKept ==
  ASSUME Shape, NEW w \in Writers, StoredFor(w),
         at'[w] = at[w], open'[w] = open[w], received'[w] = received[w],
         name # NoFile =>
           /\ name' = name
           /\ \A k : Has(data[name], w, k) => Has(data'[name], w, k)
           /\ w \in Puts /\ Begins(Body(w, Length[w]), data[name]) =>
                Begins(Body(w, Length[w]), data'[name])
  PROVE  StoredFor(w)'
<1>1. at[w] = "opened" => name # NoFile
  BY KindsFacts DEF StoredFor, Shape, OpenInv
<1>2. Body(w, Length[w])' = Body(w, Length[w])
  BY DEF Body
<1> QED BY <1>1, <1>2 DEF StoredFor

(* The same for all writers but r, when the step of r changes no content.  *)
LEMMA OthersStored ==
  ASSUME STInv, NEW r \in Requests, UNCHANGED data, disturbed \subseteq disturbed',
         \A w \in Writers \ {r} : /\ at'[w] = at[w] /\ open'[w] = open[w]
                                  /\ received'[w] = received[w],
         name # NoFile => name' = name,
         r \in Writers \ disturbed' => StoredFor(r)'
  PROVE  StoredInv'
<1> SUFFICES ASSUME NEW w \in Writers \ disturbed' PROVE StoredFor(w)'
  BY DEF StoredInv
<1>1. CASE w = r
  BY <1>1
<1>2. CASE w # r
  <2>1. StoredFor(w)
    BY DEF STInv, StoredInv
  <2> QED BY <1>2, <2>1, StoredKept DEF STInv
<1> QED BY <1>1, <1>2

LEMMA WriterTypes ==
  ASSUME Shape, NEW w \in Writers
  PROVE  /\ w \in Requests
         /\ received \in [Writers -> Nat]
         /\ at \in [Requests -> {"ready", "opened", "waiting", "sending",
                                 "done", "refused", "lost"}]
         /\ open \in [Requests -> Files \cup {NoFile}]
         /\ name \in Files \cup {NoFile} /\ NoFile \notin Files
         /\ data \in [Files -> Seq(Item)]
BY KindsFacts, FilesFacts DEF Shape, TypeOK, Item

LEMMA UploadStored ==
  ASSUME STInv, NEW u \in Uploads, UploadStep(u)
  PROVE  StoredInv'
<1>1. /\ u \in Writers /\ u \in Requests /\ u \notin Puts /\ Shape
      /\ u \notin disturbed => StoredFor(u)
  BY KindsFacts DEF STInv, StoredInv
<1>2. CASE UploadOpen(u)
  <2>1. OpenForWriting(u) /\ at' = [at EXCEPT ![u] = "opened"]
        /\ UNCHANGED <<data, received, disturbed>>
    BY <1>2 DEF UploadOpen, Goto
  <2>2. /\ name' = open'[u] /\ name' # NoFile
        /\ name # NoFile => name' = name
        /\ \A w \in Requests \ {u} : open'[w] = open[w]
    BY <1>1, <2>1, OpeningFacts DEF OpenForWriting
  <2>3. u \notin disturbed => StoredFor(u)'
    BY <1>1, <2>1, <2>2, WriterTypes DEF StoredFor
  <2> QED BY <1>1, <2>1, <2>2, <2>3, OthersStored, WriterTypes, KindsFacts
<1>3. CASE UploadOpenFails(u)
  <2>1. at' = [at EXCEPT ![u] = "lost"]
        /\ UNCHANGED <<name, open, data, received, disturbed>>
    BY <1>3 DEF UploadOpenFails, Goto
  <2>2. u \notin disturbed => StoredFor(u)'
    BY <1>1, <2>1, WriterTypes DEF StoredFor
  <2> QED BY <1>1, <2>1, <2>2, OthersStored, WriterTypes, KindsFacts
<1>4. CASE UploadWrite(u)
  <2> DEFINE f == open[u]
             e == <<u, received[u] + 1>>
  <2>1. at[u] = "opened" /\ received[u] < Length[u]
    BY <1>4 DEF UploadWrite, Ready
  <2>2. /\ f \in Files /\ data \in [Files -> Seq(Item)] /\ data[f] \in Seq(Item)
        /\ received[u] \in Nat /\ received[u] + 1 \in 1..Length[u]
    BY <1>1, <2>1, OpenFileFacts, ReceivedFacts
  <2>3. e \in Item
    BY <1>1, <2>2, PieceIsItem
  <2>4. /\ data' = [data EXCEPT ![f] = Append(data[f], e)]
        /\ received' = [received EXCEPT ![u] = received[u] + 1]
        /\ UNCHANGED <<name, at, open, disturbed>>
    BY <1>4 DEF UploadWrite
  <2> HIDE DEF f, e
  <2>5. /\ \A g \in Files \ {f} : data'[g] = data[g]
        /\ data'[f] = Append(data[f], e)
    BY <2>2, <2>4
  <2>6. \A g \in Files, w \in Writers : \A k :
          Has(data[g], w, k) => Has(data'[g], w, k)
    <3> SUFFICES ASSUME NEW g \in Files, NEW w \in Writers, NEW k,
                        Has(data[g], w, k)
                 PROVE  Has(data'[g], w, k)
      OBVIOUS
    <3>1. CASE g = f
      <4>1. Has(Append(data[f], e), w, k)
        BY <2>2, <2>3, <3>1, HasAppend
      <4> QED BY <2>5, <3>1, <4>1
    <3>2. CASE g # f
      BY <2>5, <3>2
    <3> QED BY <3>1, <3>2
  <2>7. ASSUME NEW w \in Writers \ {u}, w \notin disturbed'
        PROVE  StoredFor(w)'
    <3>1. StoredFor(w) /\ received'[w] = received[w] /\ name \in Files \cup {NoFile}
      BY <1>1, <2>4, <2>7, WriterTypes DEF STInv, StoredInv
    <3>2. ASSUME name # NoFile, Begins(Body(w, Length[w]), data[name])
          PROVE  Begins(Body(w, Length[w]), data'[name])
      <4>1. Body(w, Length[w]) \in Seq(Item)
        BY <1>1, BodyFacts, ReceivedFacts
      <4>2. name \in Files
        BY <3>1, <3>2
      <4> QED BY <2>2, <2>3, <2>5, <3>2, <4>1, <4>2, BeginsAppend
    <3> QED BY <1>1, <2>4, <2>6, <3>1, <3>2, StoredKept
  <2>8. ASSUME u \notin disturbed' PROVE StoredFor(u)'
    <3>1. name = f /\ name # NoFile
      BY <1>1, <2>1, <2>2, <2>4, <2>8, WriterTypes DEF StoredFor, f
    <3>2. received'[u] = received[u] + 1
      BY <1>1, <2>4, WriterTypes
    <3>3. Has(data'[f], u, received[u] + 1)
      BY <2>2, <2>3, <2>5, HasAppend DEF e
    <3>4. ASSUME NEW k \in 1..received[u] PROVE Has(data'[f], u, k)
      <4>1. received[u] > 0
        BY <2>2
      <4>2. Has(data[f], u, k)
        BY <1>1, <2>4, <2>8, <3>1, <4>1 DEF StoredFor
      <4> QED BY <1>1, <2>2, <2>6, <4>2
    <3>5. \A k \in 1..received'[u] : Has(data'[f], u, k)
      BY <2>2, <3>2, <3>3, <3>4
    <3> QED BY <1>1, <2>1, <2>4, <3>1, <3>5 DEF StoredFor, f
  <2> QED BY <2>7, <2>8 DEF StoredInv
<1>5. CASE UploadClose(u)
  <2>1. /\ at[u] = "opened" /\ open[u] # NoFile
        /\ UNCHANGED <<name, data, received, disturbed>>
        /\ open' = [open EXCEPT ![u] = NoFile]
        /\ \/ at' = [at EXCEPT ![u] = "ready"]
           \/ received[u] = Length[u] /\ at' = [at EXCEPT ![u] = "done"]
    BY <1>1, <1>5 DEF UploadClose, Ready, Close, Goto, Shape, OpenInv
  <2>2. u \notin disturbed => StoredFor(u)'
    BY <1>1, <2>1, WriterTypes DEF StoredFor
  <2> QED BY <1>1, <2>1, <2>2, OthersStored, WriterTypes, KindsFacts
<1> QED BY <1>2, <1>3, <1>4, <1>5 DEF UploadStep

LEMMA PutSaveStored ==
  ASSUME STInv, NEW p \in Puts, PutSave(p)
  PROVE  StoredInv'
<1> DEFINE f == open[p]
           n == received[p]
           s == data[f]
           t == Overwritten(p, n, s)
<1>1. /\ p \in Writers /\ p \in Requests /\ p \notin Uploads /\ Shape
      /\ at[p] = "opened"
  BY KindsFacts DEF STInv, PutSave, Ready
<1>2. /\ f \in Files /\ data \in [Files -> Seq(Item)] /\ s \in Seq(Item)
      /\ n \in Nat /\ n <= Length[p]
  BY <1>1, OpenFileFacts, ReceivedFacts
<1>3. /\ data' = [data EXCEPT ![f] = t]
      /\ open' = [open EXCEPT ![p] = NoFile]
      /\ at' = [at EXCEPT ![p] = IF n = Length[p] THEN "done" ELSE "waiting"]
      /\ UNCHANGED <<name, received>> /\ disturbed \subseteq disturbed'
      /\ s = <<>> \/ Begins(Body(p, n), s) \/ WritersBut(p) \subseteq disturbed'
  BY DEF PutSave, Close, Goto, Overwritten
<1> HIDE DEF f, n, s, t
<1>4. /\ Len(s) \in Nat /\ Len(t) \in Nat
      /\ Len(t) = IF n <= Len(s) THEN Len(s) ELSE n
      /\ \A i \in 1..n : t[i] = <<p, i>>
      /\ \A i \in 1..Len(t) : i > n => t[i] = s[i]
  BY <1>1, <1>2, OverwriteFacts DEF t
<1>5. /\ \A g \in Files \ {f} : data'[g] = data[g]
      /\ data'[f] = t
  BY <1>2, <1>3
<1>6. ASSUME p \notin disturbed' PROVE StoredFor(p)'
  <2>1. f = name /\ name # NoFile
    <3>1. StoredFor(p)
      BY <1>1, <1>3, <1>6 DEF STInv, StoredInv
    <3> QED BY <1>1, <1>2, <3>1, FilesFacts DEF StoredFor, f
  <2>2. at'[p] = "done" => n = Length[p]
    BY <1>1, <1>3, WriterTypes
  <2>3. Begins(Body(p, n), t)
    <3>1. Len(Body(p, n)) = n /\ \A i \in 1..n : Body(p, n)[i] = <<p, i>>
      BY <1>1, <1>2, BodyFacts
    <3>2. n <= Len(t)
      BY <1>2, <1>4
    <3> QED BY <1>4, <3>1, <3>2 DEF Begins
  <2>4. at'[p] # "opened" /\ received'[p] = n /\ name' = name /\ data'[name] = t
    BY <1>1, <1>3, <1>5, <2>1, WriterTypes DEF n
  <2>5. Body(p, Length[p])' = Body(p, Length[p])
    BY DEF Body
  <2> QED BY <1>1, <2>1, <2>2, <2>3, <2>4, <2>5 DEF StoredFor
\* Where nothing of others is lost: nothing was in the file, or what is
\* written was there already.
<1>7. Begins(Body(p, n), s) => t = s
  <2> SUFFICES ASSUME Begins(Body(p, n), s) PROVE t = s
    OBVIOUS
  <2>1. n <= Len(s) /\ \A i \in 1..n : s[i] = <<p, i>>
    BY <1>1, <1>2, BodyFacts DEF Begins
  <2>2. Len(t) = Len(s) /\ t \in Seq(Item)
    BY <1>1, <1>2, <1>4, <2>1, OverwriteFacts DEF t
  <2>3. \A i \in 1..Len(t) : t[i] = s[i]
    <3> TAKE i \in 1..Len(t)
    <3>1. CASE i <= n
      <4>1. i \in 1..n
        BY <1>2, <3>1
      <4> QED BY <1>4, <2>1, <4>1
    <3>2. CASE i > n
      BY <1>4, <3>2
    <3> QED BY <1>2, <1>4, <3>1, <3>2
  <2> QED BY <1>2, <2>2, <2>3, SeqEqual
<1>8. ASSUME NEW w \in Writers \ {p}, w \notin disturbed'
      PROVE  StoredFor(w)'
  <2>1. /\ StoredFor(w) /\ name \in Files \cup {NoFile}
        /\ at'[w] = at[w] /\ open'[w] = open[w] /\ received'[w] = received[w]
    BY <1>1, <1>3, <1>8, WriterTypes DEF STInv, StoredInv
  <2>2. CASE WritersBut(p) \subseteq disturbed'
    <3>1. ~Begun(w)
      BY <1>8, <2>2 DEF WritersBut
    <3> QED BY <1>1, <2>1, <3>1, WriterTypes DEF Begun, StoredFor
  <2>3. CASE s = <<>> \/ Begins(Body(p, n), s)
    <3>1. ASSUME NEW k, name # NoFile, Has(data[name], w, k)
          PROVE  Has(data'[name], w, k)
      <4>1. name \in Files
        BY <2>1, <3>1
      <4>2. name = f /\ s = <<>> => FALSE
        BY <3>1, EmptyFacts DEF s
      <4> QED BY <1>5, <1>7, <2>3, <3>1, <4>1, <4>2 DEF s
    <3>2. ASSUME name # NoFile, Begins(Body(w, Length[w]), data[name])
          PROVE  Begins(Body(w, Length[w]), data'[name])
      <4>1. name \in Files
        BY <2>1, <3>2
      <4>2. CASE name = f /\ s = <<>>
        <5>1. Len(Body(w, Length[w])) = 0
          <6>1. /\ Len(Body(w, Length[w])) <= 0
                /\ Len(Body(w, Length[w])) \in Nat
            BY <1>1, <3>2, <4>2, BodyFacts, ReceivedFacts DEF Begins, s
          <6> QED BY <6>1
        <5> QED BY <1>4, <1>5, <4>2, <5>1 DEF Begins
      <4> QED BY <1>5, <1>7, <2>3, <3>2, <4>1, <4>2 DEF s
    <3> QED BY <1>1, <1>3, <2>1, <3>1, <3>2, StoredKept
  <2> QED BY <1>3, <2>2, <2>3
<1> QED BY <1>6, <1>8 DEF StoredInv

LEMMA PutStored ==
  ASSUME STInv, NEW p \in Puts, PutStep(p)
  PROVE  StoredInv'
<1>1. /\ p \in Writers /\ p \in Requests /\ p \notin Uploads /\ Shape
      /\ p \notin disturbed => StoredFor(p)
  BY KindsFacts DEF STInv, StoredInv
<1>2. CASE PutReceive(p)
  <2>1. /\ at' = [at EXCEPT ![p] = "ready"]
        /\ received' = [received EXCEPT ![p] = received[p] + 1]
        /\ UNCHANGED <<name, open, data, disturbed>>
    BY <1>2 DEF PutReceive, Goto
  <2>2. StoredFor(p)'
    BY <1>1, <2>1, WriterTypes DEF StoredFor
  <2> QED BY <1>1, <2>1, <2>2, OthersStored, WriterTypes, KindsFacts
<1>3. CASE PutOpen(p)
  <2>1. /\ OpenForWriting(p) /\ at' = [at EXCEPT ![p] = "opened"]
        /\ UNCHANGED received
        /\ WritersBut(p) \subseteq disturbed' /\ disturbed \subseteq disturbed'
    BY <1>3 DEF PutOpen, Goto
  <2>2. name' = open'[p] /\ \A w \in Requests \ {p} : open'[w] = open[w]
    BY <1>1, <2>1, OpeningFacts DEF OpenForWriting
  <2>3. StoredFor(p)'
    BY <1>1, <2>1, <2>2, WriterTypes DEF StoredFor
  <2>4. ASSUME NEW w \in Writers \ {p}, w \notin disturbed'
        PROVE  StoredFor(w)'
    <3>1. at[w] = "ready" /\ ~(received[w] > 0)
      BY <2>1, <2>4 DEF WritersBut, Begun
    <3>2. at'[w] = "ready" /\ received'[w] = received[w]
      BY <1>1, <2>1, <2>4, <3>1, WriterTypes
    <3> QED BY <3>1, <3>2 DEF StoredFor
  <2> QED BY <2>3, <2>4 DEF StoredInv
<1>4. CASE PutOpenFails(p)
  <2>1. at' = [at EXCEPT ![p] = "waiting"]
        /\ UNCHANGED <<name, open, data, received, disturbed>>
    BY <1>4 DEF PutOpenFails, Goto
  <2>2. StoredFor(p)'
    BY <1>1, <2>1, WriterTypes DEF StoredFor
  <2> QED BY <1>1, <2>1, <2>2, OthersStored, WriterTypes, KindsFacts
<1> QED BY <1>2, <1>3, <1>4, PutSaveStored DEF PutStep

LEMMA DownloadStored ==
  ASSUME STInv, NEW d \in Downloads, DownloadStep(d)
  PROVE  StoredInv'
<1>1. /\ UNCHANGED <<name, data, received>>
      /\ disturbed \ {d} \subseteq disturbed'
  BY DEF DownloadStep, DownloadOpen, DownloadOpenFails, DownloadStat,
         DownloadSend, DownloadEnds
<1>2. \A w \in Writers : at'[w] = at[w] /\ open'[w] = open[w]
  BY KindsFacts
  DEF DownloadStep, DownloadOpen, DownloadOpenFails, DownloadStat,
      DownloadSend, DownloadEnds, Goto, Close, STInv, Shape, TypeOK
<1> SUFFICES ASSUME NEW w \in Writers \ disturbed' PROVE StoredFor(w)'
  BY DEF StoredInv
<1>3. StoredFor(w)
  BY <1>1, KindsFacts DEF STInv, StoredInv
<1> QED BY <1>1, <1>2, <1>3, StoredKept DEF STInv

LEMMA DeleteStored ==
  ASSUME STInv, NEW x \in Deletes, Delete(x)
  PROVE  StoredInv'
<1>1. /\ x \in Requests /\ x \notin Writers
      /\ WritersBut(x) \subseteq disturbed' /\ UNCHANGED received
  BY KindsFacts DEF Delete
<1> SUFFICES ASSUME NEW w \in Writers \ disturbed' PROVE StoredFor(w)'
  BY DEF StoredInv
<1>2. at[w] = "ready" /\ ~(received[w] > 0)
  BY <1>1 DEF WritersBut, Begun
<1>3. at'[w] = "ready"
  BY <1>1, <1>2, KindsFacts DEF Delete, Goto, STInv, Shape, TypeOK
<1> QED BY <1>1, <1>2, <1>3 DEF StoredFor

LEMMA InitStored == Init => StoredInv
<1> SUFFICES ASSUME Init, NEW w \in Writers PROVE StoredFor(w)
  BY DEF StoredInv
<1>1. at[w] = "ready" /\ ~(received[w] > 0)
  BY KindsFacts DEF Init
<1> QED BY <1>1 DEF StoredFor

LEMMA NextStored == STInv /\ [Next]_vars => STInv'
<1> SUFFICES ASSUME STInv, [Next]_vars PROVE StoredInv'
  BY NextShape DEF STInv
<1>1. CASE UNCHANGED vars
  <2> SUFFICES ASSUME NEW w \in Writers \ disturbed' PROVE StoredFor(w)'
    BY DEF StoredInv
  <2>1. StoredFor(w)
    BY <1>1 DEF vars, STInv, StoredInv
  <2> QED BY <1>1, <2>1, StoredKept DEF vars, STInv
<1> QED BY <1>1, UploadStored, PutStored, DownloadStored, DeleteStored
        DEF Next

LEMMA StoredImplied == STInv => Stored
<1> SUFFICES ASSUME STInv, NEW w \in Writers \ disturbed, at[w] = "done"
             PROVE  /\ name # NoFile
                    /\ \A n \in 1..Length[w] : Has(data[name], w, n)
                    /\ w \in Puts => Begins(Body(w, Length[w]), data[name])
  BY DEF Stored
<1>1. StoredFor(w) /\ Shape /\ Length[w] \in Nat /\ received[w] = Length[w]
  BY ReceivedFacts DEF STInv, StoredInv, StoredFor
<1>2. name # NoFile /\ (w \in Puts => Begins(Body(w, Length[w]), data[name]))
  BY <1>1 DEF StoredFor
<1>3. ASSUME NEW n \in 1..Length[w] PROVE Has(data[name], w, n)
  <2>1. CASE w \in Uploads
    BY <1>1, <2>1 DEF StoredFor
  <2>2. CASE w \in Puts
    <3>1. /\ Len(Body(w, Length[w])) = Length[w]
          /\ Body(w, Length[w])[n] = <<w, n>>
      BY <1>1, BodyFacts
    <3>2. Length[w] <= Len(data[name]) /\ data[name][n] = <<w, n>>
      BY <1>2, <2>2, <3>1 DEF Begins
    <3>3. n \in DOMAIN data[name]
      <4>1. name \in Files
        BY <1>1, <1>2, WriterTypes
      <4> QED BY <1>1, <3>2, <4>1, DataFacts
    <3> QED BY <3>2, <3>3 DEF Has
  <2> QED BY <2>1, <2>2 DEF Writers
<1> QED BY <1>2, <1>3

(* A PUT or an upload that is through is in the file whole, if nobody      *)
(* deletes or PUTs the name after it began: no upload takes anything from  *)
(* another request.  (myevent.cpp:172, 208, 328, 337)                      *)
THEOREM WhatIsDoneIsStored == Safety => []Stored
<1>1. Init => STInv
  BY InitShape, InitStored DEF STInv
<1> QED BY <1>1, NextStored, StoredImplied, PTL DEF Safety
=============================================================================
