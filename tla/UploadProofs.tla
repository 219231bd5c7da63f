---------------------------- MODULE UploadProofs ----------------------------
(***************************************************************************)
(* What Upload saves, for every content, boundary and way to cut what is   *)
(* sent into pieces.                                                       *)
(***************************************************************************)
EXTENDS Upload, SequenceTheorems, TLAPS

(* Nothing received is lost or changed: the file and then recvMsg are the  *)
(* letters received.                                                       *)
Kept == /\ Len(file) + Len(recvMsg) = received
        /\ \A i \in 1..Len(file) : file[i] = Sent[i]
        /\ \A i \in 1..Len(recvMsg) : recvMsg[i] = Sent[Len(file) + i]

(* The position of the final boundary in recvMsg, when it gets there.      *)
End == Len(content) + 1 - Len(file)
NotPastEnd == Len(file) <= Len(content)
AtEnd == pc = "complete" => Len(file) = Len(content)

IInv == TypeOK /\ Kept /\ NotPastEnd /\ AtEnd /\ BufferStaysSmall

LEMMA ConcatFacts ==
  ASSUME NEW s \in Seq(Letters), NEW t \in Seq(Letters)
  PROVE /\ s \o t \in Seq(Letters)
        /\ Len(s) \in Nat /\ Len(t) \in Nat
        /\ Len(s \o t) = Len(s) + Len(t)
        /\ \A i \in 1..Len(s) : (s \o t)[i] = s[i]
        /\ \A i \in 1..Len(t) : (s \o t)[Len(s) + i] = t[i]
OBVIOUS

LEMMA FinalFacts == /\ Final \in Seq(Letters)
                    /\ Len(Final) = Len(Boundary) + 8
                    /\ Len(Final) \in Nat /\ Len(Final) >= 8
                    /\ Final[1] = CR
<1>1. Boundary \in Seq(Letters) /\ {CR, LF, Dash} \subseteq Letters
  BY UploadAssumption
<1> DEFINE start == <<CR, LF, Dash, Dash>>
           end == <<Dash, Dash, CR, LF>>
<1>2. start \in Seq(Letters) /\ Len(start) = 4 /\ start[1] = CR
  BY <1>1
<1>3. end \in Seq(Letters) /\ Len(end) = 4
  BY <1>1
<1>4. Final = (start \o Boundary) \o end
  BY DEF Final
<1> HIDE DEF start, end
<1> DEFINE front == start \o Boundary
<1>5. Len(Boundary) \in Nat
  BY <1>1
<1>6. front \in Seq(Letters) /\ Len(front) = 4 + Len(Boundary) /\ front[1] = CR
  <2>1. /\ start \o Boundary \in Seq(Letters)
        /\ Len(start \o Boundary) = Len(start) + Len(Boundary)
        /\ \A i \in 1..Len(start) : (start \o Boundary)[i] = start[i]
    BY <1>1, <1>2, ConcatFacts
  <2>2. 1 \in 1..Len(start)
    BY <1>2
  <2> QED BY <2>1, <2>2, <1>2, <1>5
<1> HIDE DEF front
<1>7. /\ front \o end \in Seq(Letters)
      /\ Len(front \o end) = 8 + Len(Boundary)
      /\ (front \o end)[1] = CR
  <2>1. /\ front \o end \in Seq(Letters)
        /\ Len(front \o end) = Len(front) + Len(end)
        /\ \A i \in 1..Len(front) : (front \o end)[i] = front[i]
    BY <1>3, <1>6, ConcatFacts
  <2>2. 1 \in 1..Len(front)
    BY <1>5, <1>6
  <2> QED BY <2>1, <2>2, <1>3, <1>5, <1>6
<1> QED BY <1>4, <1>5, <1>7 DEF front

LEMMA SentFacts ==
  ASSUME TypeOK
  PROVE /\ Sent \in Seq(Letters)
        /\ content \in Seq(Letters) /\ Len(content) \in Nat
        /\ Len(Sent) \in Nat
        /\ Len(content) + Len(Final) <= Len(Sent)
        /\ \A i \in 1..Len(content) : Sent[i] = content[i]
        /\ \A j \in 1..Len(Final) : Sent[Len(content) + j] = Final[j]
        /\ \A p \in 1..Len(content) : ~OccursAt(Sent, p)
<1>1. content \in Seq(Letters) /\ epilogue \in Seq(Letters)
  BY UploadAssumption DEF TypeOK
<1>2. \A p \in 1..Len(content) : ~OccursAt(Sent, p)
  BY UploadAssumption DEF TypeOK, Sent
<1>3. Sent = (content \o Final) \o epilogue
  BY DEF Sent, Body
<1> QED BY <1>1, <1>2, <1>3, FinalFacts

(* A turn of the loop that writes n letters keeps what was received.       *)
LEMMA WriteKeeps ==
  ASSUME IInv, NEW n \in 1..Len(recvMsg), Write(n), n < End
  PROVE TypeOK' /\ Kept' /\ NotPastEnd'
<1>1. /\ recvMsg \in Seq(Letters) /\ file \in Seq(Letters)
      /\ Len(recvMsg) \in Nat /\ Len(file) \in Nat /\ n \in Nat
      /\ received \in Nat
  BY SentFacts DEF IInv, TypeOK
<1>2. /\ file' = file \o SubSeq(recvMsg, 1, n)
      /\ recvMsg' = SubSeq(recvMsg, n + 1, Len(recvMsg))
      /\ UNCHANGED <<content, epilogue, received, pc>>
  BY DEF Write
<1>3. /\ SubSeq(recvMsg, 1, n) \in Seq(Letters)
      /\ Len(SubSeq(recvMsg, 1, n)) = n
      /\ \A i \in 1..n : SubSeq(recvMsg, 1, n)[i] = recvMsg[i]
  BY <1>1
<1>4. /\ recvMsg' \in Seq(Letters)
      /\ Len(recvMsg') = Len(recvMsg) - n
      /\ \A i \in 1..Len(recvMsg') : recvMsg'[i] = recvMsg[n + i]
  BY <1>1, <1>2
<1>5. /\ file' \in Seq(Letters) /\ Len(file') = Len(file) + n
      /\ \A i \in 1..Len(file) : file'[i] = file[i]
      /\ \A i \in 1..n : file'[Len(file) + i] = recvMsg[i]
  BY <1>1, <1>2, <1>3
<1>6. Sent' = Sent
  BY <1>2 DEF Sent
<1>7. TypeOK'
  BY <1>2, <1>4, <1>5, <1>6 DEF IInv, TypeOK
<1>8. Kept'
  <2>1. Len(file') + Len(recvMsg') = received'
    <3>1. Len(file) + Len(recvMsg) = received
      BY DEF IInv, Kept
    <3>2. Len(file') = Len(file) + n /\ Len(recvMsg') = Len(recvMsg) - n
      BY <1>4, <1>5
    <3>3. received' = received
      BY <1>2
    <3> QED BY <3>1, <3>2, <3>3, <1>1
  <2>2. ASSUME NEW i \in 1..Len(file') PROVE file'[i] = Sent'[i]
    <3>1. CASE i <= Len(file)
      BY <3>1, <1>1, <1>5, <1>6 DEF IInv, Kept
    <3>2. CASE i > Len(file)
      <4>1. i - Len(file) \in 1..n /\ i = Len(file) + (i - Len(file))
        BY <3>2, <1>1, <1>5
      <4>2. file'[i] = recvMsg[i - Len(file)]
        BY <4>1, <1>5
      <4>3. i - Len(file) \in 1..Len(recvMsg)
        BY <4>1, <1>1
      <4>4. recvMsg[i - Len(file)] = Sent[Len(file) + (i - Len(file))]
        BY <4>3 DEF IInv, Kept
      <4> QED BY <4>1, <4>2, <4>4, <1>6
    <3> QED BY <3>1, <3>2, <1>1, <1>5
  <2>3. ASSUME NEW i \in 1..Len(recvMsg')
        PROVE recvMsg'[i] = Sent'[Len(file') + i]
    <3>1. n + i \in 1..Len(recvMsg)
      BY <1>1, <1>4
    <3>2. recvMsg[n + i] = Sent[Len(file) + (n + i)]
      BY <3>1 DEF IInv, Kept
    <3> QED BY <3>1, <3>2, <1>1, <1>4, <1>5, <1>6
  <2> QED BY <2>1, <2>2, <2>3 DEF Kept
<1>9. NotPastEnd'
  BY <1>1, <1>2, <1>5, SentFacts DEF IInv, NotPastEnd, End
<1> QED BY <1>7, <1>8, <1>9

(* Where the content ends there is a carriage return, and a whole final    *)
(* boundary if that many letters have come.                                *)
LEMMA EndIsFinal ==
  ASSUME IInv
  PROVE /\ End \in Nat \ {0} /\ Len(recvMsg) \in Nat
        /\ End <= Len(recvMsg) => IsCR(End)
        /\ End <= Len(recvMsg) /\ Whole(End) => IsFinal(End)
<1>1. /\ recvMsg \in Seq(Letters) /\ Len(recvMsg) \in Nat
      /\ file \in Seq(Letters) /\ Len(file) \in Nat
  BY DEF IInv, TypeOK
<1>2. /\ End \in Nat \ {0} /\ Len(file) + End = Len(content) + 1
      /\ Len(content) \in Nat
  BY <1>1, SentFacts DEF IInv, NotPastEnd, End
<1>3. \A j \in 1..Len(Final) :
        End + j - 1 \in 1..Len(recvMsg) => recvMsg[End + j - 1] = Final[j]
  <2> SUFFICES ASSUME NEW j \in 1..Len(Final), End + j - 1 \in 1..Len(recvMsg)
               PROVE recvMsg[End + j - 1] = Final[j]
    OBVIOUS
  <2>1. recvMsg[End + j - 1] = Sent[Len(file) + (End + j - 1)]
    BY DEF IInv, Kept
  <2>2. Len(file) + (End + j - 1) = Len(content) + j
    BY <1>1, <1>2, FinalFacts
  <2> QED BY <2>1, <2>2, SentFacts DEF IInv
<1>4. ASSUME End <= Len(recvMsg) PROVE IsCR(End)
  <2>1. 1 \in 1..Len(Final) /\ End + 1 - 1 = End /\ End \in 1..Len(recvMsg)
    BY <1>1, <1>2, <1>4, FinalFacts
  <2> QED BY <2>1, <1>3, FinalFacts DEF IsCR
<1>5. ASSUME End <= Len(recvMsg), Whole(End) PROVE IsFinal(End)
  <2> DEFINE part == SubSeq(recvMsg, End, End + Len(Final) - 1)
  <2>1. End + Len(Final) - 1 <= Len(recvMsg)
    BY <1>1, <1>2, <1>5, FinalFacts DEF Whole
  <2>2. /\ part \in Seq(Letters) /\ Len(part) = Len(Final)
        /\ \A j \in 1..Len(Final) : part[j] = recvMsg[End + j - 1]
    BY <2>1, <1>1, <1>2, FinalFacts
  <2>3. \A j \in 1..Len(Final) : part[j] = Final[j]
    BY <2>1, <2>2, <1>1, <1>2, <1>3, FinalFacts
  <2> HIDE DEF part
  <2>4. part = Final
    BY <2>2, <2>3, FinalFacts
  <2> QED BY <2>4, <1>5 DEF IsFinal, part
<1> QED BY <1>1, <1>2, <1>4, <1>5

(* The scanner takes for a final boundary only the one at the end.         *)
LEMMA FinalIsEnd ==
  ASSUME IInv, IsFinal(1)
  PROVE Len(file) = Len(content)
<1>1. /\ recvMsg \in Seq(Letters) /\ Len(recvMsg) \in Nat
      /\ file \in Seq(Letters) /\ Len(file) \in Nat
  BY DEF IInv, TypeOK
<1>2. Len(Final) <= Len(recvMsg) /\ SubSeq(recvMsg, 1, Len(Final)) = Final
  BY <1>1, FinalFacts DEF IsFinal, Whole
<1>3. \A j \in 1..Len(Final) : recvMsg[j] = Final[j]
  <2>1. \A j \in 1..Len(Final) : SubSeq(recvMsg, 1, Len(Final))[j] = recvMsg[j]
    BY <1>1, <1>2, FinalFacts
  <2> QED BY <2>1, <1>2
<1>4. \A j \in 1..Len(Final) : Sent[Len(file) + j] = Final[j]
  <2>1. \A j \in 1..Len(Final) : j \in 1..Len(recvMsg)
    BY <1>1, <1>2, FinalFacts
  <2>2. \A j \in 1..Len(recvMsg) : recvMsg[j] = Sent[Len(file) + j]
    BY DEF IInv, Kept
  <2> QED BY <2>1, <2>2, <1>3
<1>5. OccursAt(Sent, Len(file) + 1)
  <2>1. \A j \in 1..Len(Final) : Len(file) + 1 + j - 1 = Len(file) + j
    BY <1>1, FinalFacts
  <2> QED BY <2>1, <1>4 DEF OccursAt
<1>6. Len(file) + 1 \notin 1..Len(content)
  BY <1>5, SentFacts DEF IInv
<1> QED BY <1>1, <1>6, SentFacts DEF IInv, NotPastEnd

LEMMA ReceiveKeeps == ASSUME IInv, Receive PROVE IInv'
<1>1. PICK n \in 1..BufSize :
        /\ received + n <= Len(Sent)
        /\ recvMsg' = recvMsg \o SubSeq(Sent, received + 1, received + n)
        /\ received' = received + n
  BY DEF Receive
<1>2. pc' = "scan" /\ UNCHANGED <<content, epilogue, file>> /\ Sent' = Sent
  BY DEF Receive, Sent
<1> DEFINE piece == SubSeq(Sent, received + 1, received + n)
<1>3. /\ recvMsg \in Seq(Letters) /\ file \in Seq(Letters)
      /\ received \in Nat /\ n \in Nat \ {0} /\ Sent \in Seq(Letters)
      /\ Len(recvMsg) \in Nat /\ Len(file) \in Nat /\ Len(Sent) \in Nat
  BY SentFacts, UploadAssumption DEF IInv, TypeOK
<1>4. /\ piece \in Seq(Letters) /\ Len(piece) = n
      /\ \A i \in 1..n : piece[i] = Sent[received + i]
  <2>1. \A i \in received + 1..received + n : Sent[i] \in Letters
    BY <1>1, <1>3
  <2>2. received + 1 <= received + n /\ received + n - (received + 1) + 1 = n
    BY <1>3
  <2>3. /\ piece \in Seq(Letters) /\ Len(piece) = n
        /\ \A i \in 1..n : piece[i] = Sent[received + 1 + i - 1]
    BY <2>1, <2>2, <1>3, SubSeqProperties
  <2>4. \A i \in 1..n : received + 1 + i - 1 = received + i
    BY <1>3
  <2> QED BY <2>3, <2>4
<1> HIDE DEF piece
<1>5. recvMsg' = recvMsg \o piece
  BY <1>1 DEF piece
<1>6. /\ recvMsg' \in Seq(Letters) /\ Len(recvMsg') = Len(recvMsg) + n
      /\ \A i \in 1..Len(recvMsg) : recvMsg'[i] = recvMsg[i]
      /\ \A i \in 1..n : recvMsg'[Len(recvMsg) + i] = piece[i]
  <2>1. /\ recvMsg \o piece \in Seq(Letters)
        /\ Len(recvMsg \o piece) = Len(recvMsg) + n
        /\ \A i \in 1..Len(recvMsg) + n : (recvMsg \o piece)[i] =
             IF i <= Len(recvMsg) THEN recvMsg[i] ELSE piece[i - Len(recvMsg)]
    BY <1>3, <1>4, ConcatProperties
  <2> QED BY <2>1, <1>3, <1>5
<1>7. TypeOK'
  BY <1>1, <1>2, <1>3, <1>6 DEF IInv, TypeOK
<1>8. Kept'
  <2>1. Len(file') + Len(recvMsg') = received'
    <3>1. Len(file) + Len(recvMsg) = received
      BY DEF IInv, Kept
    <3>2. file' = file /\ Len(recvMsg') = Len(recvMsg) + n
      BY <1>2, <1>6
    <3>3. received' = received + n /\ n \in Nat /\ received \in Nat
      BY <1>1, <1>3
    <3>4. Len(file) \in Nat /\ Len(recvMsg) \in Nat
      BY <1>3
    <3> QED BY <3>1, <3>2, <3>3, <3>4
  <2>2. ASSUME NEW i \in 1..Len(recvMsg')
        PROVE recvMsg'[i] = Sent[Len(file) + i]
    <3>1. CASE i <= Len(recvMsg)
      BY <3>1, <1>3, <1>6 DEF IInv, Kept
    <3>2. CASE i > Len(recvMsg)
      <4>1. Len(file) + Len(recvMsg) = received
        BY DEF IInv, Kept
      <4>0. /\ Len(file) \in Nat /\ Len(recvMsg) \in Nat /\ n \in Nat
            /\ received \in Nat /\ i \in Nat /\ i <= Len(recvMsg) + n
        <5>1. Len(recvMsg') = Len(recvMsg) + n
          BY <1>6
        <5> QED BY <5>1, <1>3
      <4>2. /\ i - Len(recvMsg) \in 1..n
            /\ i = Len(recvMsg) + (i - Len(recvMsg))
            /\ Len(file) + i = received + (i - Len(recvMsg))
        BY <3>2, <4>0, <4>1
      <4> DEFINE k == i - Len(recvMsg)
      <4>3. k \in 1..n /\ i = Len(recvMsg) + k /\ Len(file) + i = received + k
        BY <4>2
      <4> HIDE DEF k
      <4>4. recvMsg'[Len(recvMsg) + k] = piece[k]
        BY <4>3, <1>6
      <4>5. piece[k] = Sent[received + k]
        BY <4>3, <1>4
      <4> QED BY <4>3, <4>4, <4>5
    <3> QED BY <3>1, <3>2, <1>3, <1>6
  <2> QED BY <2>1, <2>2, <1>2 DEF IInv, Kept
<1> QED BY <1>2, <1>7, <1>8 DEF IInv, NotPastEnd, AtEnd, BufferStaysSmall

(* The steps that write: none goes past the end.                           *)
LEMMA PlainStopsShort ==
  ASSUME IInv, ScanPlain
  PROVE Len(recvMsg) \in 1..Len(recvMsg) /\ Len(recvMsg) < End
<1>1. recvMsg \in Seq(Letters) /\ recvMsg # <<>>
  BY DEF IInv, TypeOK, ScanPlain
<1>2. ~ IsCR(End)
  BY EndIsFinal DEF ScanPlain, FindsNoCR, IsCR
<1> QED BY <1>1, <1>2, EndIsFinal

LEMMA UpToStopsShort ==
  ASSUME IInv, NEW e \in 2..Len(recvMsg), FindsCR(1, e)
  PROVE e - 1 \in 1..Len(recvMsg) /\ e - 1 < End
<1>1. CASE End < e
  <2>1. End \in 1..(e - 1) /\ IsCR(End)
    BY <1>1, EndIsFinal
  <2> QED BY <2>1 DEF FindsCR
<1>2. CASE End >= e
  BY <1>2, EndIsFinal
<1> QED BY <1>1, <1>2, EndIsFinal

LEMMA PastStopsShort ==
  ASSUME IInv, NEW e \in 1..Len(recvMsg), FindsCR(1, e), Whole(e), ~IsFinal(e)
  PROVE /\ e < End
        /\ FindsNoCR(e + 1) => Len(recvMsg) < End
        /\ \A n \in e + 1..Len(recvMsg) : FindsCR(e + 1, n) => n - 1 < End
<1>1. e < End
  <2>1. e # End
    BY EndIsFinal
  <2>2. ~(End < e)
    BY EndIsFinal DEF FindsCR
  <2> QED BY <2>1, <2>2, EndIsFinal
<1>2. ASSUME FindsNoCR(e + 1) PROVE Len(recvMsg) < End
  BY <1>1, <1>2, EndIsFinal DEF FindsNoCR
<1>3. ASSUME NEW n \in e + 1..Len(recvMsg), FindsCR(e + 1, n) PROVE n - 1 < End
  <2>1. ~(End < n)
    BY <1>1, <1>3, EndIsFinal DEF FindsCR
  <2> QED BY <2>1, EndIsFinal
<1> QED BY <1>1, <1>2, <1>3

LEMMA WriteStep ==
  ASSUME IInv, pc = "scan", NEW n \in 1..Len(recvMsg), Write(n), n < End
  PROVE IInv'
<1>1. TypeOK' /\ Kept' /\ NotPastEnd'
  BY WriteKeeps
<1>2. pc' = "scan"
  BY DEF Write
<1> QED BY <1>1, <1>2 DEF IInv, AtEnd, BufferStaysSmall

LEMMA ScanKeeps == ASSUME IInv, Scan PROVE IInv'
<1>1. pc = "scan"
  BY DEF Scan
<1>2. /\ recvMsg \in Seq(Letters) /\ Len(recvMsg) \in Nat
  BY DEF IInv, TypeOK
<1>3. ASSUME UNCHANGED <<content, epilogue, received, recvMsg, file>>,
             pc' \in {"recv", "complete"}
      PROVE TypeOK' /\ Kept' /\ NotPastEnd'
  BY <1>3 DEF IInv, TypeOK, Kept, NotPastEnd, Sent
<1>4. CASE ScanEmpty
  BY <1>3, <1>4, FinalFacts
     DEF ScanEmpty, IInv, AtEnd, BufferStaysSmall
<1>5. CASE ScanPlain
  BY <1>1, <1>5, PlainStopsShort, WriteStep DEF ScanPlain
<1>6. CASE ScanUpTo
  <2>1. PICK e \in 2..Len(recvMsg) : FindsCR(1, e) /\ Write(e - 1)
    BY <1>6 DEF ScanUpTo
  <2> QED BY <1>1, <2>1, UpToStopsShort, WriteStep
<1>7. CASE ScanPast
  <2>1. PICK e \in 1..Len(recvMsg) :
          /\ FindsCR(1, e) /\ Whole(e) /\ ~IsFinal(e)
          /\ \/ \E n \in e + 1..Len(recvMsg) :
                  FindsCR(e + 1, n) /\ Write(n - 1)
             \/ FindsNoCR(e + 1) /\ Write(Len(recvMsg))
    BY <1>7 DEF ScanPast
  <2>2. CASE FindsNoCR(e + 1) /\ Write(Len(recvMsg))
    <3>1. Len(recvMsg) \in 1..Len(recvMsg) /\ Len(recvMsg) < End
      BY <1>2, <2>1, <2>2, PastStopsShort
    <3> QED BY <1>1, <2>2, <3>1, WriteStep
  <2>3. ASSUME NEW n \in e + 1..Len(recvMsg), FindsCR(e + 1, n), Write(n - 1)
        PROVE IInv'
    <3>1. n - 1 \in 1..Len(recvMsg) /\ n - 1 < End
      BY <1>2, <2>1, <2>3, PastStopsShort
    <3> QED BY <1>1, <2>3, <3>1, WriteStep
  <2> QED BY <2>1, <2>2, <2>3
<1>8. CASE ScanWait
  <2>1. Len(recvMsg) < Len(Final)
    BY <1>2, <1>8, FinalFacts DEF ScanWait, Whole
  <2> QED BY <1>3, <1>8, <2>1 DEF ScanWait, IInv, AtEnd, BufferStaysSmall
<1>9. CASE ScanFinal
  <2>1. Len(file) = Len(content)
    BY <1>9, FinalIsEnd DEF ScanFinal
  <2> QED BY <1>3, <1>9, <2>1 DEF ScanFinal, IInv, AtEnd, BufferStaysSmall
<1> QED BY <1>4, <1>5, <1>6, <1>7, <1>8, <1>9 DEF Scan

LEMMA InitIInv == ASSUME Init PROVE IInv
<1>1. TypeOK
  BY UploadAssumption, FinalFacts DEF Init, TypeOK, Sent, Body
<1>2. Len(recvMsg) = 0 /\ Len(file) = 0 /\ received = 0 /\ pc = "recv"
  BY DEF Init
<1> QED BY <1>1, <1>2, SentFacts, FinalFacts
       DEF IInv, Kept, NotPastEnd, AtEnd, BufferStaysSmall

LEMMA Invariance == Safety => []IInv
<1>1. IInv /\ [Next]_vars => IInv'
  <2> SUFFICES ASSUME IInv, [Next]_vars PROVE IInv'
    OBVIOUS
  <2>1. CASE UNCHANGED vars
    BY <2>1 DEF vars, IInv, TypeOK, Kept, NotPastEnd, AtEnd,
                BufferStaysSmall, Sent
  <2> QED BY <2>1, ReceiveKeeps, ScanKeeps DEF Next
<1> QED BY <1>1, InitIInv, PTL DEF Safety

(* What is saved is a beginning of the content, and the whole content when *)
(* the upload is complete, for every content, boundary and cutting.        *)
THEOREM UploadSavesExactly == Safety => []SavedExactly
<1>1. IInv => SavedExactly
  <2> SUFFICES ASSUME IInv PROVE SavedExactly
    OBVIOUS
  <2>1. /\ file \in Seq(Letters) /\ content \in Seq(Letters)
        /\ Len(file) \in Nat /\ Len(content) \in Nat
        /\ Len(file) <= Len(content)
    BY SentFacts DEF IInv, TypeOK, NotPastEnd
  <2>2. \A i \in 1..Len(file) : file[i] = content[i]
    BY <2>1, SentFacts DEF IInv, Kept
  <2> DEFINE start == SubSeq(content, 1, Len(file))
  <2>3. /\ start \in Seq(Letters) /\ Len(start) = Len(file)
        /\ \A i \in 1..Len(file) : start[i] = content[i]
    BY <2>1
  <2> HIDE DEF start
  <2>4. file = start
    BY <2>1, <2>2, <2>3
  <2>5. pc = "complete" => file = content
    BY <2>1, <2>2 DEF IInv, AtEnd
  <2> QED BY <2>1, <2>4, <2>5 DEF SavedExactly, start
<1> QED BY <1>1, Invariance, PTL

(* The handler waits with less than one boundary in memory.                *)
THEOREM UploadBufferIsBounded == Safety => []BufferStaysSmall
<1>1. IInv => BufferStaysSmall
  BY DEF IInv
<1> QED BY <1>1, Invariance, PTL
=============================================================================
