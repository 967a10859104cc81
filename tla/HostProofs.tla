------------------------------ MODULE HostProofs ------------------------------
(***************************************************************************)
(* What the program shares with its hosts, for every number of threads,    *)
(* records, handles, columns and groups.                                   *)
(*                                                                         *)
(* The record queue: a drain is cut into batches, and RecordsOnce is       *)
(* inductive once the end-of-stream flag is known to tell the truth.       *)
(* The file handles: a fetch is exact because a handle has one owner and   *)
(* stands where its owner's buffer ends.  The Arrow structs: how often a   *)
(* block was freed follows from who can still release it.  The merge       *)
(* aggregates: a row is pending or in one box, a box in one slot or freed. *)
(***************************************************************************)
EXTENDS RecordQueue, DuckDbFileTransport, ArrowArrayStream, MergePartials,
        FiniteSetTheorems, SequenceTheorems, TLAPS

\* A thread that takes the queue's head leaves the order of the batches, returned
\* and queued, as it is (pop_front in pop_or_refill).
LEMMA PopKeepsOrder ==
    ASSUME NEW S, NEW s \in Seq(S), NEW r \in Seq(S), r # <<>>
    PROVE  Append(s, Head(r)) \o Tail(r) = s \o r
<1>1. /\ Append(s, Head(r)) \in Seq(S)
      /\ Tail(r) \in Seq(S)
      /\ Len(r) \in Nat \ {0}
      /\ Len(Append(s, Head(r))) = Len(s) + 1
      /\ Len(Tail(r)) = Len(r) - 1
  OBVIOUS
<1>2. Len(Append(s, Head(r)) \o Tail(r)) = Len(s) + Len(r)
  BY <1>1
<1>3. \A i \in 1 .. Len(s) + Len(r) : (Append(s, Head(r)) \o Tail(r))[i] = (s \o r)[i]
  <2> TAKE i \in 1 .. Len(s) + Len(r)
  <2>1. CASE i <= Len(s)
    BY <2>1, <1>1
  <2>2. CASE i = Len(s) + 1
    BY <2>2, <1>1
  <2>3. CASE i > Len(s) + 1
    <3>1. (Append(s, Head(r)) \o Tail(r))[i] = Tail(r)[i - (Len(s) + 1)]
      BY <2>3, <1>1
    <3>2. Tail(r)[i - (Len(s) + 1)] = r[i - Len(s)]
      BY <2>3, <1>1
    <3> QED BY <3>1, <3>2, <2>3, <1>1
  <2> QED BY <2>1, <2>2, <2>3
<1>4. /\ Append(s, Head(r)) \o Tail(r) \in Seq(S)
      /\ s \o r \in Seq(S)
      /\ Len(s \o r) = Len(s) + Len(r)
  BY <1>1
<1> QED BY <1>2, <1>3, <1>4, SeqEqual

\* A drain of at most four batches is cut into one to four, all but the last full.
LEMMA CutCount ==
    ASSUME NEW B \in Nat \ {0}, NEW n \in 1 .. 4 * B
    PROVE  LET k == (n + B - 1) \div B
           IN  k \in 1 .. 4 /\ (k - 1) * B < n /\ n <= k * B
<1> DEFINE k == (n + B - 1) \div B
<1>1. k \in Int /\ B * k <= n + B - 1 /\ n + B - 1 < B * k + B
  OBVIOUS
<1>2. k >= 1
  BY <1>1
<1>3. k <= 4
  BY <1>1
<1> QED BY <1>1, <1>2, <1>3

\* A drain of n records: its number of batches, the record before the b-th batch
\* and that batch's size.
CutLen(n) == (n + BatchSize - 1) \div BatchSize
CutFirst(b) == streamed + (b - 1) * BatchSize
CutSize(n, b) == Least(BatchSize, n - (b - 1) * BatchSize)

\* The drains a refill may see.
Drains(n) == n \in 1 .. Least(4 * BatchSize, NumRecords - streamed)

\* What a refill may drain stays within the stream and within four batches.
LEMMA CutShape ==
    ASSUME RecordQueueAssumption, streamed \in 0 .. NumRecords, NEW n, Drains(n)
    PROVE  /\ BatchSize \in Nat \ {0} /\ NumRecords \in Nat
           /\ n \in 1 .. 4 * BatchSize /\ streamed + n <= NumRecords
           /\ CutLen(n) \in 1 .. 4
           /\ (CutLen(n) - 1) * BatchSize < n /\ n <= CutLen(n) * BatchSize
<1>1. BatchSize \in Nat \ {0} /\ NumRecords \in Nat
  BY RecordQueueAssumption DEF RecordQueueAssumption
<1>2. n \in 1 .. 4 * BatchSize /\ streamed + n <= NumRecords
  BY <1>1 DEF Least, Drains
<1> QED BY <1>1, <1>2, CutCount DEF CutLen

\* The b-th batch starts after b - 1 full ones and is not empty.
LEMMA CutPlace ==
    ASSUME RecordQueueAssumption, streamed \in 0 .. NumRecords, NEW n, Drains(n),
           NEW b \in 1 .. CutLen(n)
    PROVE  /\ b \in 1 .. 4
           /\ CutFirst(b) \in Nat /\ streamed <= CutFirst(b)
           /\ CutSize(n, b) \in 1 .. BatchSize
           /\ CutFirst(b) + CutSize(n, b) <= streamed + n
<1>1. /\ BatchSize \in Nat \ {0} /\ n \in Nat /\ b \in 1 .. 4 /\ b <= CutLen(n)
      /\ CutLen(n) \in 1 .. 4 /\ (CutLen(n) - 1) * BatchSize < n
  BY CutShape
<1>2. (b - 1) * BatchSize \in Nat /\ (b - 1) * BatchSize < n
  BY <1>1
<1>3. \A m \in Nat : m < n => /\ streamed + m \in Nat /\ streamed <= streamed + m
                             /\ Least(BatchSize, n - m) \in 1 .. BatchSize
                             /\ (streamed + m) + Least(BatchSize, n - m) <= streamed + n
  BY <1>1 DEF Least
<1> QED BY <1>1, <1>2, <1>3 DEF CutFirst, CutSize

\* An earlier batch ends before a later one begins.
LEMMA CutApart ==
    ASSUME RecordQueueAssumption, streamed \in 0 .. NumRecords, NEW n, Drains(n),
           NEW b \in 1 .. CutLen(n), NEW c \in 1 .. CutLen(n), b < c
    PROVE  CutFirst(b) + CutSize(n, b) <= CutFirst(c)
<1>1. /\ BatchSize \in Nat \ {0} /\ b \in 1 .. 4 /\ c \in 1 .. 4
      /\ CutSize(n, b) \in 1 .. BatchSize
  BY CutShape, CutPlace
<1>2. (b - 1) * BatchSize + BatchSize <= (c - 1) * BatchSize
  BY <1>1
<1>3. (b - 1) * BatchSize \in Int /\ (c - 1) * BatchSize \in Int
  BY <1>1
<1>4. \A x, y \in Int : x + BatchSize <= y => (streamed + x) + CutSize(n, b) <= streamed + y
  BY <1>1
<1> QED BY <1>2, <1>3, <1>4 DEF CutFirst

\* Every drained record has a batch.
LEMMA CutCovers ==
    ASSUME RecordQueueAssumption, streamed \in 0 .. NumRecords, NEW n, Drains(n),
           NEW x \in streamed + 1 .. streamed + n
    PROVE  \E b \in 1 .. CutLen(n) : x \in CutFirst(b) + 1 .. CutFirst(b) + CutSize(n, b)
<1>1. /\ BatchSize \in Nat \ {0} /\ n \in 1 .. 4 * BatchSize /\ streamed \in Nat
      /\ CutLen(n) \in 1 .. 4 /\ n <= CutLen(n) * BatchSize
  BY CutShape
<1>2. x \in Int /\ x - streamed \in 1 .. n
  BY <1>1
<1>3. CASE x - streamed <= BatchSize
  <2>1. x \in CutFirst(1) + 1 .. CutFirst(1) + CutSize(n, 1)
    BY <1>1, <1>2, <1>3 DEF Least, CutFirst, CutSize
  <2> QED BY <2>1, <1>1
<1>4. CASE x - streamed > BatchSize /\ x - streamed <= 2 * BatchSize
  <2>1. 2 \in 1 .. CutLen(n)
    BY <1>1, <1>2, <1>4
  <2>2. x \in CutFirst(2) + 1 .. CutFirst(2) + CutSize(n, 2)
    BY <1>1, <1>2, <1>4 DEF Least, CutFirst, CutSize
  <2> QED BY <2>1, <2>2
<1>5. CASE x - streamed > 2 * BatchSize /\ x - streamed <= 3 * BatchSize
  <2>1. 3 \in 1 .. CutLen(n)
    BY <1>1, <1>2, <1>5
  <2>2. x \in CutFirst(3) + 1 .. CutFirst(3) + CutSize(n, 3)
    BY <1>1, <1>2, <1>5 DEF Least, CutFirst, CutSize
  <2> QED BY <2>1, <2>2
<1>6. CASE x - streamed > 3 * BatchSize
  <2>1. 4 \in 1 .. CutLen(n)
    BY <1>1, <1>2, <1>6
  <2>2. x \in CutFirst(4) + 1 .. CutFirst(4) + CutSize(n, 4)
    BY <1>1, <1>2, <1>6 DEF Least, CutFirst, CutSize
  <2> QED BY <2>1, <2>2
<1> QED BY <1>1, <1>2, <1>3, <1>4, <1>5, <1>6

\* The records of the b-th batch are consecutive.
LEMMA CutBatch ==
    ASSUME RecordQueueAssumption, streamed \in 0 .. NumRecords, NEW n, Drains(n),
           NEW b \in 1 .. CutLen(n)
    PROVE  /\ Cut(n)[b] \in Batches
           /\ RecordsIn(Cut(n)[b]) = CutFirst(b) + 1 .. CutFirst(b) + CutSize(n, b)
<1> DEFINE first == CutFirst(b)
           size == CutSize(n, b)
<1>1. Cut(n)[b] = [i \in 1 .. size |-> first + i]
  BY DEF Cut, CutLen, CutFirst, CutSize
<1>2. first \in Nat /\ size \in Nat /\ first + size <= NumRecords /\ NumRecords \in Nat
  BY CutShape, CutPlace
<1> HIDE DEF first, size
<1>3. Cut(n)[b] \in Batches
  <2>1. \A i \in 1 .. size : first + i \in 1 .. NumRecords
    BY <1>2
  <2> QED BY <1>1, <1>2, <2>1 DEF Batches
<1>4. RecordsIn(Cut(n)[b]) = {first + i : i \in 1 .. size}
  BY <1>1 DEF RecordsIn
<1>5. {first + i : i \in 1 .. size} = first + 1 .. first + size
  <2>1. \A x \in first + 1 .. first + size : x - first \in 1 .. size /\ x = first + (x - first)
    BY <1>2
  <2>2. \A i \in 1 .. size : first + i \in first + 1 .. first + size
    BY <1>2
  <2> QED BY <2>1, <2>2
<1> QED BY <1>3, <1>4, <1>5 DEF first, size

\* A drain is one to four batches that hold the next n records, each in one of them.
LEMMA CutExact ==
    ASSUME RecordQueueAssumption, streamed \in 0 .. NumRecords, NEW n, Drains(n)
    PROVE  /\ Cut(n) \in Seq(Batches)
           /\ Len(Cut(n)) \in 1 .. 4
           /\ UNION {RecordsIn(Cut(n)[b]) : b \in DOMAIN Cut(n)} = streamed + 1 .. streamed + n
           /\ \A b, c \in DOMAIN Cut(n) :
                 b # c => RecordsIn(Cut(n)[b]) \cap RecordsIn(Cut(n)[c]) = {}
<1>1. CutLen(n) \in 1 .. 4 /\ n \in Nat
  BY CutShape
<1>2. Cut(n) \in [1 .. CutLen(n) -> Batches]
  BY CutBatch DEF Cut, CutLen
<1>3. Cut(n) \in Seq(Batches) /\ Len(Cut(n)) = CutLen(n) /\ DOMAIN Cut(n) = 1 .. CutLen(n)
  BY <1>1, <1>2
<1>4. \A x \in streamed + 1 .. streamed + n : \E b \in DOMAIN Cut(n) : x \in RecordsIn(Cut(n)[b])
  BY <1>3, CutCovers, CutBatch
<1>5. \A b \in DOMAIN Cut(n) : RecordsIn(Cut(n)[b]) \subseteq streamed + 1 .. streamed + n
  <2> TAKE b \in DOMAIN Cut(n)
  <2>1. /\ CutFirst(b) \in Nat /\ streamed <= CutFirst(b) /\ CutSize(n, b) \in Nat
        /\ CutFirst(b) + CutSize(n, b) <= streamed + n
    BY <1>3, CutPlace, CutShape
  <2> QED BY <2>1, <1>1, <1>3, CutBatch
<1>6. UNION {RecordsIn(Cut(n)[b]) : b \in DOMAIN Cut(n)} = streamed + 1 .. streamed + n
  BY <1>4, <1>5, Zenon
<1>7. ASSUME NEW b \in 1 .. CutLen(n), NEW c \in 1 .. CutLen(n), b < c
      PROVE  RecordsIn(Cut(n)[b]) \cap RecordsIn(Cut(n)[c]) = {}
  <2>1. CutFirst(b) + CutSize(n, b) <= CutFirst(c)
    BY <1>7, CutApart
  <2>2. /\ CutFirst(b) \in Nat /\ CutFirst(c) \in Nat
        /\ CutSize(n, b) \in Nat /\ CutSize(n, c) \in Nat
    BY CutPlace, CutShape
  <2>3. /\ RecordsIn(Cut(n)[b]) = CutFirst(b) + 1 .. CutFirst(b) + CutSize(n, b)
        /\ RecordsIn(Cut(n)[c]) = CutFirst(c) + 1 .. CutFirst(c) + CutSize(n, c)
    BY CutBatch
  <2> QED BY <2>1, <2>2, <2>3
<1>8. \A b, c \in DOMAIN Cut(n) :
         b # c => RecordsIn(Cut(n)[b]) \cap RecordsIn(Cut(n)[c]) = {}
  <2> SUFFICES ASSUME NEW b \in 1 .. CutLen(n), NEW c \in 1 .. CutLen(n), b # c
               PROVE  RecordsIn(Cut(n)[b]) \cap RecordsIn(Cut(n)[c]) = {}
    BY <1>3
  <2>1. CASE b < c
    BY <2>1, <1>7
  <2>2. CASE c < b
    BY <2>2, <1>7
  <2> QED BY <2>1, <2>2, <1>1
<1> QED BY <1>1, <1>3, <1>6, <1>8

--------------------------------------------------------------------------------
(* The inductive invariant. *)

\* The flag is raised only at the real end, and nothing is queued after it.
FinishedSound == isFinished => ~streamFailed /\ streamed = NumRecords /\ readyBatches = <<>>

\* A thread is told "end of stream" only once the flag is up.
EofFinished == \A t \in Threads : pc[t] = "eof" => isFinished

\* All of it together.
QueueInv == TypeOK /\ AtMostThreeQueued /\ EachRecordOnce /\ FinishedSound /\ EofFinished

\* Taking the queue's head moves a batch to the returned ones.
LEMMA PopKeepsRecords ==
    ASSUME QueueInv, NEW t \in Threads, PopReady(t)
    PROVE  /\ returned' \in Seq(Batches) /\ readyBatches' \in Seq(Batches)
           /\ Len(readyBatches') <= 3
           /\ EachRecordOnce'
           /\ FinishedSound' /\ EofFinished'
<1> USE DEF QueueInv, PopReady
<1>1. /\ readyBatches \in Seq(Batches) /\ returned \in Seq(Batches)
      /\ readyBatches # <<>> /\ Len(readyBatches) <= 3
      /\ returned' = Append(returned, Head(readyBatches))
      /\ readyBatches' = Tail(readyBatches)
  BY DEF TypeOK, AtMostThreeQueued
<1>2. /\ Head(readyBatches) \in Batches
      /\ Tail(readyBatches) \in Seq(Batches)
      /\ Len(Tail(readyBatches)) = Len(readyBatches) - 1
      /\ Len(readyBatches) \in Nat
  BY <1>1
<1>3. Handed' = Handed
  BY <1>1, PopKeepsOrder DEF Handed
<1>4. EachRecordOnce'
  BY <1>3 DEF EachRecordOnce
<1>5. FinishedSound'
  BY <1>1 DEF FinishedSound
<1>6. EofFinished'
  BY DEF EofFinished, Goto, TypeOK
<1> QED BY <1>1, <1>2, <1>4, <1>5, <1>6

\* A refill hands out the drained records, each once.
LEMMA DrainExact ==
    ASSUME RecordQueueAssumption, QueueInv, NEW t \in Threads, readyBatches = <<>>, ~isFinished,
           RefillDrains(t)
    PROVE  /\ returned' \in Seq(Batches) /\ readyBatches' \in Seq(Batches)
           /\ Len(readyBatches') <= 3
           /\ streamed' \in 0 .. NumRecords
           /\ EachRecordOnce'
<1>1. PICK n \in 1 .. Least(4 * BatchSize, NumRecords - streamed) :
         /\ returned' = Append(returned, Head(Cut(n)))
         /\ readyBatches' = readyBatches \o Tail(Cut(n))
         /\ streamed' = streamed + n
  BY DEF RefillDrains
<1>2. /\ streamed \in 0 .. NumRecords /\ returned \in Seq(Batches)
      /\ Drains(n)
  BY DEF QueueInv, TypeOK, Drains
<1>3. /\ Cut(n) \in Seq(Batches)
      /\ Len(Cut(n)) \in 1 .. 4
      /\ UNION {RecordsIn(Cut(n)[b]) : b \in DOMAIN Cut(n)} = streamed + 1 .. streamed + n
      /\ \A b, c \in DOMAIN Cut(n) :
            b # c => RecordsIn(Cut(n)[b]) \cap RecordsIn(Cut(n)[c]) = {}
  BY <1>2, CutExact
<1>4. streamed + n <= NumRecords /\ n \in Nat /\ NumRecords \in Nat
  BY <1>2, CutShape
<1> DEFINE cut == Cut(n)
<1> HIDE DEF cut
<1>5. /\ cut \in Seq(Batches) /\ Len(cut) \in 1 .. 4
      /\ Head(cut) \in Batches /\ Tail(cut) \in Seq(Batches) /\ Len(Tail(cut)) = Len(cut) - 1
      /\ cut # <<>>
  BY <1>3 DEF cut
<1>6. /\ returned' = Append(returned, Head(cut)) /\ readyBatches' = Tail(cut)
  <2>1. <<>> \o Tail(cut) = Tail(cut)
    BY <1>5
  <2> QED BY <1>1, <2>1 DEF cut
<1>7. Handed' = returned \o cut
  BY <1>2, <1>5, <1>6, PopKeepsOrder DEF Handed
<1>8. Handed = returned
  BY <1>2 DEF Handed
<1>9. /\ UNION {RecordsIn(returned[i]) : i \in DOMAIN returned} = 1 .. streamed
      /\ \A i, j \in DOMAIN returned :
            i # j => RecordsIn(returned[i]) \cap RecordsIn(returned[j]) = {}
  BY <1>8 DEF QueueInv, EachRecordOnce
<1> DEFINE all == returned \o cut
<1>10. /\ DOMAIN returned = 1 .. Len(returned) /\ DOMAIN cut = 1 .. Len(cut)
       /\ DOMAIN all = 1 .. Len(returned) + Len(cut)
       /\ Len(returned) \in Nat /\ Len(cut) \in Nat
       /\ \A i \in 1 .. Len(returned) : all[i] = returned[i]
       /\ \A i \in 1 .. Len(cut) : all[Len(returned) + i] = cut[i]
  BY <1>2, <1>5
<1> HIDE DEF all
<1>11. \A i \in DOMAIN all : \/ i \in DOMAIN returned /\ all[i] = returned[i]
                             \/ i - Len(returned) \in DOMAIN cut /\ all[i] = cut[i - Len(returned)]
  <2> TAKE i \in DOMAIN all
  <2>0. i \in 1 .. Len(returned) + Len(cut)
    BY <1>10
  <2>1. CASE i <= Len(returned)
    <3>1. i \in 1 .. Len(returned)
      BY <2>0, <2>1, <1>10
    <3>2. i \in DOMAIN returned /\ all[i] = returned[i]
      BY <3>1, <1>10
    <3> QED BY <3>2
  <2>2. CASE i > Len(returned)
    <3>1. i - Len(returned) \in 1 .. Len(cut) /\ i = Len(returned) + (i - Len(returned))
      BY <2>2, <1>10
    <3> QED BY <3>1, <1>10
  <2> QED BY <2>1, <2>2, <1>10
<1>12. /\ \A i \in DOMAIN returned : RecordsIn(returned[i]) \subseteq 1 .. streamed
       /\ \A b \in DOMAIN cut : RecordsIn(cut[b]) \subseteq streamed + 1 .. streamed + n
       /\ (1 .. streamed) \cap (streamed + 1 .. streamed + n) = {}
       /\ (1 .. streamed) \cup (streamed + 1 .. streamed + n) = 1 .. streamed + n
  <2>1. \A i \in DOMAIN returned : RecordsIn(returned[i]) \subseteq 1 .. streamed
    BY <1>9, Zenon
  <2>2. \A b \in DOMAIN cut : RecordsIn(cut[b]) \subseteq streamed + 1 .. streamed + n
    BY <1>3, Zenon DEF cut
  <2>3. /\ (1 .. streamed) \cap (streamed + 1 .. streamed + n) = {}
        /\ (1 .. streamed) \cup (streamed + 1 .. streamed + n) = 1 .. streamed + n
    BY <1>2, <1>4
  <2> QED BY <2>1, <2>2, <2>3
<1>13. UNION {RecordsIn(all[i]) : i \in DOMAIN all} = 1 .. streamed + n
  <2>1. \A i \in DOMAIN all : RecordsIn(all[i]) \subseteq 1 .. streamed + n
    <3> TAKE i \in DOMAIN all
    <3>1. CASE i \in DOMAIN returned /\ all[i] = returned[i]
      BY <3>1, <1>12
    <3>2. CASE i - Len(returned) \in DOMAIN cut /\ all[i] = cut[i - Len(returned)]
      BY <3>2, <1>12
    <3> QED BY <3>1, <3>2, <1>11
  <2>2. ASSUME NEW x \in 1 .. streamed PROVE \E i \in DOMAIN all : x \in RecordsIn(all[i])
    <3>1. PICK i \in DOMAIN returned : x \in RecordsIn(returned[i])
      BY <1>9
    <3> QED BY <3>1, <1>10
  <2>3. ASSUME NEW x \in streamed + 1 .. streamed + n
        PROVE  \E i \in DOMAIN all : x \in RecordsIn(all[i])
    <3>1. PICK b \in DOMAIN cut : x \in RecordsIn(cut[b])
      BY <1>3 DEF cut
    <3>2. Len(returned) + b \in DOMAIN all /\ all[Len(returned) + b] = cut[b]
      BY <1>10
    <3> QED BY <3>1, <3>2
  <2>4. \A x \in 1 .. streamed + n : \E i \in DOMAIN all : x \in RecordsIn(all[i])
    BY <2>2, <2>3, <1>12
  <2> QED BY <2>1, <2>4, Zenon
<1>14. ASSUME NEW i \in DOMAIN all, NEW j \in DOMAIN all, i # j
       PROVE  RecordsIn(all[i]) \cap RecordsIn(all[j]) = {}
  <2>1. CASE i \in DOMAIN returned /\ all[i] = returned[i]
    <3>1. CASE j \in DOMAIN returned /\ all[j] = returned[j]
      BY <2>1, <3>1, <1>9, <1>14
    <3>2. CASE j - Len(returned) \in DOMAIN cut /\ all[j] = cut[j - Len(returned)]
      BY <2>1, <3>2, <1>12
    <3> QED BY <3>1, <3>2, <1>11
  <2>2. CASE i - Len(returned) \in DOMAIN cut /\ all[i] = cut[i - Len(returned)]
    <3>1. CASE j \in DOMAIN returned /\ all[j] = returned[j]
      BY <2>2, <3>1, <1>12
    <3>2. CASE j - Len(returned) \in DOMAIN cut /\ all[j] = cut[j - Len(returned)]
      <4>1. i - Len(returned) # j - Len(returned)
        BY <1>10, <1>14
      <4> QED BY <2>2, <3>2, <4>1, <1>3 DEF cut
    <3> QED BY <3>1, <3>2, <1>11
  <2> QED BY <2>1, <2>2, <1>11
<1>15. EachRecordOnce'
  <2>1. Handed' = all /\ streamed' = streamed + n
    BY <1>1, <1>7 DEF all
  <2> QED BY <2>1, <1>13, <1>14 DEF EachRecordOnce
<1>16. streamed' \in 0 .. NumRecords
  <2>1. streamed' = streamed + n
    BY <1>1
  <2>2. streamed + n \in 0 .. NumRecords
    BY <1>2, <1>4
  <2> QED BY <2>1, <2>2
<1>17. returned' \in Seq(Batches) /\ readyBatches' \in Seq(Batches)
  BY <1>2, <1>5, <1>6
<1>18. Len(readyBatches') <= 3
  BY <1>5, <1>6
<1> QED BY <1>15, <1>16, <1>17, <1>18

\* A new queue satisfies the invariant: nothing drained, nothing handed out.
LEMMA QueueInvInit ==
    ASSUME RecordQueueAssumption, Init
    PROVE  QueueInv
<1> USE DEF Init
<1>1. TypeOK
  <2>1. <<>> \in Seq(Batches)
    OBVIOUS
  <2>2. 0 \in 0 .. NumRecords
    BY RecordQueueAssumption DEF RecordQueueAssumption
  <2>3. pc \in [Threads -> {"fast", "slow", "refill", "eof", "error"}]
    OBVIOUS
  <2> QED BY <2>1, <2>2, <2>3 DEF TypeOK
<1>2. AtMostThreeQueued
  BY DEF AtMostThreeQueued
<1>3. EachRecordOnce
  <2>1. Handed = <<>>
    BY DEF Handed
  <2>2. DOMAIN <<>> = {} /\ 1 .. 0 = {}
    OBVIOUS
  <2>3. UNION {RecordsIn(Handed[i]) : i \in DOMAIN Handed} = {}
    BY <2>1, <2>2
  <2> QED BY <2>1, <2>2, <2>3 DEF EachRecordOnce
<1> QED BY <1>1, <1>2, <1>3 DEF QueueInv, FinishedSound, EofFinished

\* A step that only moves a thread keeps everything but the thread's own promise.
LEMMA MovesOnly ==
    ASSUME QueueInv, NEW t \in Threads, NEW place \in {"fast", "slow", "refill", "error"},
           Goto(t, place), streamerLock' \in Threads \cup {NoThread},
           UNCHANGED <<readyBatches, isFinished, streamed, streamFailed, returned>>
    PROVE  QueueInv'
<1>1. TypeOK'
  BY DEF QueueInv, TypeOK, Goto
<1>2. Handed' = Handed
  BY DEF Handed
<1>3. EachRecordOnce'
  BY <1>2 DEF QueueInv, EachRecordOnce
<1>4. EofFinished'
  BY DEF QueueInv, TypeOK, Goto, EofFinished
<1> QED BY <1>1, <1>3, <1>4 DEF QueueInv, AtMostThreeQueued, FinishedSound

\* A queued batch is taken.
LEMMA PopStep ==
    ASSUME QueueInv, NEW t \in Threads, PopReady(t), streamerLock' \in Threads \cup {NoThread}
    PROVE  QueueInv'
<1>1. TypeOK'
  BY PopKeepsRecords DEF QueueInv, TypeOK, PopReady, Goto
<1> QED BY <1>1, PopKeepsRecords DEF QueueInv, AtMostThreeQueued

\* The end of the stream is reported once the flag is up.
LEMMA FinishedStep ==
    ASSUME QueueInv, NEW t \in Threads, SeesFinished(t), streamerLock' \in Threads \cup {NoThread}
    PROVE  QueueInv'
<1> USE DEF SeesFinished
<1>1. TypeOK'
  BY DEF QueueInv, TypeOK, Goto
<1>2. Handed' = Handed
  BY DEF Handed
<1>3. EachRecordOnce'
  BY <1>2 DEF QueueInv, EachRecordOnce
<1> QED BY <1>1, <1>3 DEF QueueInv, AtMostThreeQueued, FinishedSound, EofFinished

\* The three outcomes of a refill.
LEMMA RefillStep ==
    ASSUME RecordQueueAssumption, QueueInv, NEW t \in Threads, readyBatches = <<>>, ~isFinished,
           RefillDrains(t) \/ RefillFindsEnd(t) \/ RefillFails(t),
           streamerLock' \in Threads \cup {NoThread}
    PROVE  QueueInv'
<1>1. CASE RefillDrains(t)
  <2>1. /\ returned' \in Seq(Batches) /\ readyBatches' \in Seq(Batches)
        /\ Len(readyBatches') <= 3
        /\ streamed' \in 0 .. NumRecords
        /\ EachRecordOnce'
    BY <1>1, DrainExact
  <2>2. /\ pc' = [pc EXCEPT ![t] = "fast"] /\ isFinished' = isFinished
        /\ streamFailed' = streamFailed
    BY <1>1 DEF RefillDrains, Goto
  <2>3. TypeOK'
    BY <2>1, <2>2 DEF QueueInv, TypeOK
  <2>4. EofFinished'
    BY <2>2 DEF QueueInv, TypeOK, EofFinished
  <2> QED BY <2>1, <2>2, <2>3, <2>4 DEF QueueInv, AtMostThreeQueued, FinishedSound
<1>2. CASE RefillFindsEnd(t)
  <2> USE <1>2 DEF RefillFindsEnd
  <2>1. TypeOK'
    BY DEF QueueInv, TypeOK, Goto
  <2>2. Handed' = Handed
    BY DEF Handed
  <2>3. EachRecordOnce'
    BY <2>2 DEF QueueInv, EachRecordOnce
  <2> QED BY <2>1, <2>3 DEF QueueInv, AtMostThreeQueued, FinishedSound, EofFinished
<1>3. CASE RefillFails(t)
  <2> USE <1>3 DEF RefillFails
  <2>1. TypeOK'
    BY DEF QueueInv, TypeOK, Goto
  <2>2. Handed' = Handed
    BY DEF Handed
  <2>3. EachRecordOnce'
    BY <2>2 DEF QueueInv, EachRecordOnce
  <2>4. EofFinished'
    BY DEF QueueInv, TypeOK, Goto, EofFinished
  <2> QED BY <2>1, <2>3, <2>4 DEF QueueInv, AtMostThreeQueued, FinishedSound
<1> QED BY <1>1, <1>2, <1>3

\* Every step of every thread keeps the invariant, whatever other threads are
\* between their two looks at the queue.
LEMMA QueueInvNext ==
    ASSUME RecordQueueAssumption, QueueInv, [Next]_vars
    PROVE  QueueInv'
<1>1. ASSUME NEW t \in Threads, FastPath(t)
      PROVE  QueueInv'
  <2>1. streamerLock' \in Threads \cup {NoThread}
    BY <1>1 DEF FastPath, QueueInv, TypeOK
  <2>2. CASE PopReady(t)
    BY <2>1, <2>2, PopStep
  <2>3. CASE SeesFinished(t)
    BY <2>1, <2>3, FinishedStep
  <2>4. CASE Goto(t, "slow") /\ UNCHANGED <<readyBatches, isFinished, streamed, streamFailed, returned>>
    BY <2>1, <2>4, MovesOnly
  <2> QED BY <1>1, <2>2, <2>3, <2>4 DEF FastPath
<1>2. ASSUME NEW t \in Threads, LockStreamer(t)
      PROVE  QueueInv'
  <2>1. streamerLock' \in Threads \cup {NoThread}
    BY <1>2 DEF LockStreamer
  <2> QED BY <1>2, <2>1, MovesOnly DEF LockStreamer
<1>3. ASSUME NEW t \in Threads, SlowPath(t)
      PROVE  QueueInv'
  <2>1. streamerLock' \in Threads \cup {NoThread}
    BY <1>3 DEF SlowPath
  <2>2. CASE PopReady(t)
    BY <2>1, <2>2, PopStep
  <2>3. CASE SeesFinished(t)
    BY <2>1, <2>3, FinishedStep
  <2>4. CASE /\ readyBatches = <<>>
             /\ ~isFinished
             /\ RefillDrains(t) \/ RefillFindsEnd(t) \/ RefillFails(t)
    BY <2>1, <2>4, RefillStep
  <2> QED BY <1>3, <2>2, <2>3, <2>4 DEF SlowPath
<1>4. CASE UNCHANGED vars
  <2>1. Handed' = Handed
    BY <1>4 DEF vars, Handed
  <2> QED BY <1>4, <2>1 DEF vars, QueueInv, TypeOK, AtMostThreeQueued, EachRecordOnce,
                            FinishedSound, EofFinished
<1> QED BY <1>1, <1>2, <1>3, <1>4 DEF Next, Done

\* pop_or_refill never loses or repeats a record, queues at most three batches and
\* reports the end only after the last record: for every number of scan threads,
\* of records and of rows to a batch, and wherever the streamer fails.
THEOREM RecordsSharedOnce == Spec => []RecordsOnce
<1>1. Init => QueueInv
  BY RecordQueueAssumption, QueueInvInit
<1>2. QueueInv /\ [Next]_vars => QueueInv'
  BY RecordQueueAssumption, QueueInvNext
<1>3. QueueInv => RecordsOnce
  BY DEF QueueInv, RecordsOnce, NoEarlyEnd, EofFinished, FinishedSound
<1> QED BY <1>1, <1>2, <1>3, PTL DEF Spec

-----------------------------------------------------------------------------
(* The handles of the DuckDB file transport.                                *)

\* The bytes of a range from start on, the first n of them.
BytesFrom(start, n) == [i \in 1..n |-> start + i - 1]

\* The types of the transport's variables.
TransportTypes ==
    /\ opened \in Handles
    /\ pool \in Seq(1..opened)
    /\ position \in [Handles -> Nat]
    /\ request \in [Readers -> [start : Nat, end : Int]]
    /\ handle \in [Readers -> 1..opened \cup {None}]
    /\ at \in [Readers -> {"idle", "ask", "seek", "read", "back"}]
    /\ DOMAIN buf = Readers /\ DOMAIN answer = Readers

\* A handle has one owner: a place in the pool or a reader inside a fetch.
OneOwner ==
    /\ \A r \in Readers : (handle[r] # None) <=> at[r] \in {"seek", "read", "back"}
    /\ \A r, q \in Readers : handle[r] # None /\ handle[r] = handle[q] => r = q
    /\ \A i, j \in 1..Len(pool) : pool[i] = pool[j] => i = j
    /\ \A i \in 1..Len(pool), r \in Readers : pool[i] # handle[r]
    /\ \A h \in 1..opened : (\E i \in 1..Len(pool) : pool[i] = h) \/ (\E r \in Readers : handle[r] = h)

\* A reader's buffer is the start of its range, and its handle stands where the
\* buffer ends.
Filling ==
    \A r \in Readers :
        /\ at[r] \in {"ask", "seek"} => buf[r] = <<>>
        /\ at[r] \in {"ask", "seek", "read"} => InRange(request[r])
        /\ at[r] = "read" =>
             \E n \in Nat :
                /\ buf[r] = BytesFrom(request[r].start, n)
                /\ n <= request[r].end - request[r].start + 1
                /\ position[handle[r]] = request[r].start + n
        /\ answer[r] # None =>
             answer[r] = BytesFrom(request[r].start, request[r].end - request[r].start + 1)

\* The inductive invariant; every handle came out of an empty pool.
TransportInv ==
    /\ TransportTypes /\ OneOwner /\ Filling
    /\ opened <= Cardinality(Readers)

-----------------------------------------------------------------------------
\* The transport opens one handle, into the pool.
LEMMA InitTransport == ASSUME TransportAssumption, TransportInit PROVE TransportInv
<1>1. /\ IsFiniteSet(Readers) /\ Readers # {} /\ MaxHandles \in Nat \ {0} /\ None \notin Nat
  BY DEF TransportAssumption
<1>2. Len(pool) = 1 /\ pool[1] = 1 /\ opened = 1
  BY DEF TransportInit
<1>3. TransportTypes
  BY <1>1, <1>2 DEF TransportInit, TransportTypes, Handles
<1>4. OneOwner
  BY <1>1, <1>2 DEF TransportInit, OneOwner
<1>5. Filling
  BY DEF TransportInit, Filling
<1>6. Cardinality(Readers) \in Nat /\ Cardinality(Readers) # 0
  BY <1>1, FS_CardinalityType, FS_EmptySet
<1> QED BY <1>2, <1>3, <1>4, <1>5, <1>6 DEF TransportInv

\* Handles with distinct readers, none of them r: one more fits.
LEMMA RoomForOne ==
  ASSUME TransportAssumption, TransportInv, pool = <<>>, NEW r \in Readers, handle[r] = None
  PROVE  opened + 1 <= Cardinality(Readers)
<1> DEFINE others == Readers \ {r}
           g == [h \in 1..opened |-> CHOOSE q \in Readers : handle[q] = h]
<1>1. /\ IsFiniteSet(Readers) /\ None \notin Nat /\ MaxHandles \in Nat
      /\ opened \in Nat \ {0}
  BY DEF TransportAssumption, TransportInv, TransportTypes, Handles
<1>2. \A h \in 1..opened : \E q \in Readers : handle[q] = h
  BY DEF TransportInv, OneOwner
<1>3. \A h \in 1..opened : g[h] \in Readers /\ handle[g[h]] = h
  BY <1>2
<1>4. \A h \in 1..opened : g[h] \in others
  BY <1>1, <1>3
<1>5. g \in Injection(1..opened, others)
  <2>1. g \in [1..opened -> others]
    BY <1>4
  <2> HIDE DEF g, others
  <2>2. \A h, k \in 1..opened : g[h] = g[k] => h = k
    BY <1>3
  <2> QED BY <2>1, <2>2 DEF Injection, IsInjective
<1>6. IsFiniteSet(others) /\ Cardinality(others) = Cardinality(Readers) - 1
  BY <1>1, FS_RemoveElement
<1>7. Cardinality(1..opened) = opened
  BY <1>1, FS_Interval
<1> HIDE DEF g, others
<1>8. Cardinality(1..opened) <= Cardinality(others)
  BY <1>5, <1>6, FS_Injection
<1>9. Cardinality(Readers) \in Nat
  BY <1>1, FS_CardinalityType
<1> QED BY <1>1, <1>6, <1>7, <1>8, <1>9

\* A handle is in one place.
LEMMA OwnerCounted ==
  ASSUME TransportAssumption, TransportInv, NEW h \in 1..opened
  PROVE  Cardinality({i \in DOMAIN pool : pool[i] = h})
           + Cardinality({r \in Readers : handle[r] = h}) = 1
<1> DEFINE P == {i \in DOMAIN pool : pool[i] = h}
           R == {r \in Readers : handle[r] = h}
<1>1. DOMAIN pool = 1..Len(pool) /\ h # None
  BY DEF TransportAssumption, TransportInv, TransportTypes, Handles
<1>2. CASE \E i \in 1..Len(pool) : pool[i] = h
  <2>1. PICK i \in 1..Len(pool) : pool[i] = h
    BY <1>2
  <2>2. P = {i}
    BY <1>1, <2>1 DEF TransportInv, OneOwner
  <2>3. R = {}
    BY <2>1 DEF TransportInv, OneOwner
  <2> HIDE DEF P, R
  <2>4. Cardinality(P) = 1 /\ Cardinality(R) = 0
    BY <2>2, <2>3, FS_Singleton, FS_EmptySet
  <2> QED BY <2>4 DEF P, R
<1>3. CASE ~\E i \in 1..Len(pool) : pool[i] = h
  <2>1. PICK r \in Readers : handle[r] = h
    BY <1>3 DEF TransportInv, OneOwner
  <2>2. R = {r}
    BY <1>1, <2>1 DEF TransportInv, OneOwner
  <2>3. P = {}
    BY <1>1, <1>3
  <2> HIDE DEF P, R
  <2>4. Cardinality(P) = 0 /\ Cardinality(R) = 1
    BY <2>2, <2>3, FS_Singleton, FS_EmptySet
  <2> QED BY <2>4 DEF P, R
<1> QED BY <1>2, <1>3

\* The invariant says of answers, handles and their number what the property says.
LEMMA InvFetchExact == ASSUME TransportAssumption, TransportInv PROVE FetchExact
<1>1. \A r \in Readers : answer[r] # None =>
         answer[r] = [i \in 1..(request[r].end - request[r].start + 1) |-> request[r].start + i - 1]
  BY DEF TransportInv, Filling, BytesFrom
<1>2. \A h \in 1..opened :
         Cardinality({i \in DOMAIN pool : pool[i] = h})
           + Cardinality({r \in Readers : handle[r] = h}) = 1
  BY OwnerCounted
<1> QED BY <1>1, <1>2 DEF FetchExact, TransportInv

-----------------------------------------------------------------------------
(* What a step of reader r leaves alone.                                    *)

\* What Filling says of one reader.
Fills(r) ==
    /\ at[r] \in {"ask", "seek"} => buf[r] = <<>>
    /\ at[r] \in {"ask", "seek", "read"} => InRange(request[r])
    /\ at[r] = "read" =>
         \E n \in Nat :
            /\ buf[r] = BytesFrom(request[r].start, n)
            /\ n <= request[r].end - request[r].start + 1
            /\ position[handle[r]] = request[r].start + n
    /\ answer[r] # None =>
         answer[r] = BytesFrom(request[r].start, request[r].end - request[r].start + 1)

\* Another reader's handle does not move, so its buffer stays right.
LEMMA OthersFill ==
  ASSUME Filling, NEW r \in Readers, Fills(r)',
         \A q \in Readers : q # r =>
            /\ at'[q] = at[q] /\ buf'[q] = buf[q] /\ request'[q] = request[q]
            /\ answer'[q] = answer[q] /\ handle'[q] = handle[q]
            /\ at[q] = "read" => position'[handle[q]] = position[handle[q]]
  PROVE  Filling'
<1>1. ASSUME NEW q \in Readers PROVE Fills(q)'
  <2>1. CASE q = r
    BY <2>1
  <2>2. CASE q # r
    <3>1. Fills(q)
      BY DEF Filling, Fills
    <3> QED BY <2>2, <3>1 DEF Fills, InRange
  <2> QED BY <2>1, <2>2
<1> QED BY <1>1 DEF Filling, Fills

\* Steps that move no handle between owners.
LEMMA OwnersKept ==
  ASSUME OneOwner, UNCHANGED <<pool, opened, handle>>,
         \A q \in Readers : (at'[q] \in {"seek", "read", "back"}) <=> (at[q] \in {"seek", "read", "back"})
  PROVE  OneOwner'
BY DEF OneOwner

\* A new request: the reader has no handle yet.
LEMMA StepFetch ==
  ASSUME TransportAssumption, TransportInv, NEW r \in Readers,
         NEW start \in Nat, NEW end \in Int, fetch_range(r, start, end)
  PROVE  TransportInv'
<1> DEFINE q == [start |-> start, end |-> end]
<1>1. /\ at[r] = "idle" /\ UNCHANGED <<pool, opened, position, handle>>
      /\ request' = [request EXCEPT ![r] = q]
      /\ buf' = [buf EXCEPT ![r] = <<>>]
      /\ answer' = [answer EXCEPT ![r] = None]
      /\ \/ InRange(q) /\ at' = [at EXCEPT ![r] = "ask"]
         \/ ~InRange(q) /\ at' = at
  BY DEF fetch_range, MoveTo
<1>2. TransportTypes'
  BY <1>1 DEF TransportInv, TransportTypes
<1>3. at'[r] \in {"idle", "ask"} /\ (at'[r] = "ask" => InRange(q))
      /\ \A p \in Readers : p # r => at'[p] = at[p]
  BY <1>1 DEF TransportInv, TransportTypes
<1>4. OneOwner'
  BY <1>1, <1>3, OwnersKept DEF TransportInv
<1>5. request'[r] = q /\ buf'[r] = <<>> /\ answer'[r] = None
  BY <1>1 DEF TransportInv, TransportTypes
<1>6. Fills(r)'
  BY <1>3, <1>5 DEF Fills
<1>7. Filling'
  BY <1>1, <1>3, <1>6, OthersFill DEF TransportInv, TransportTypes
<1> QED BY <1>1, <1>2, <1>4, <1>7 DEF TransportInv

\* probe is a fetch of the first bytes.
LEMMA StepProbe ==
  ASSUME TransportAssumption, TransportInv, NEW r \in Readers, NEW n \in Nat, probe(r, n)
  PROVE  TransportInv'
<1> DEFINE e == (IF n < TotalSize THEN n ELSE TotalSize) - 1
<1>1. e \in Int /\ fetch_range(r, 0, e)
  BY DEF probe, TransportAssumption
<1> HIDE DEF e
<1> QED BY <1>1, StepFetch

\* The last handle of the pool changes its owner.
LEMMA StepCheckout ==
  ASSUME TransportAssumption, TransportInv, NEW r \in Readers, Checkout(r)
  PROVE  TransportInv'
<1> DEFINE h == pool[Len(pool)]
           n == Len(pool) - 1
<1>1. /\ at[r] = "ask" /\ UNCHANGED <<opened, position, request, buf, answer>>
      /\ handle' = [handle EXCEPT ![r] = h] /\ pool' = SubSeq(pool, 1, n)
      /\ at' = [at EXCEPT ![r] = "seek"]
  BY DEF Checkout, MoveTo
<1>2. pool \in Seq(1..opened) /\ pool # <<>> /\ opened \in Nat /\ None \notin Nat
  BY DEF Checkout, TransportInv, TransportTypes, Handles, TransportAssumption
<1>3. Len(pool) \in Nat /\ Len(pool) > 0 /\ n \in Nat /\ h \in 1..opened /\ h # None
  BY <1>2
<1>4. /\ pool' \in Seq(1..opened) /\ Len(pool') = n
      /\ \A i \in 1..n : pool'[i] = pool[i]
  <2>1. \A i \in 1..n : pool[i] \in 1..opened
    BY <1>2, <1>3
  <2> HIDE DEF n, h
  <2>2. /\ SubSeq(pool, 1, n) \in Seq(1..opened)
        /\ Len(SubSeq(pool, 1, n)) = IF 1 <= n THEN n - 1 + 1 ELSE 0
        /\ \A i \in 1..(n - 1 + 1) : SubSeq(pool, 1, n)[i] = pool[1 + i - 1]
    BY <1>3, <2>1, SubSeqProperties
  <2>3. Len(SubSeq(pool, 1, n)) = n /\ \A i \in 1..n : SubSeq(pool, 1, n)[i] = pool[i]
    BY <1>3, <2>2
  <2> QED BY <1>1, <2>2, <2>3
<1>5. handle'[r] = h /\ \A p \in Readers : p # r => handle'[p] = handle[p]
  BY <1>1 DEF TransportInv, TransportTypes
<1>6. at'[r] = "seek" /\ \A p \in Readers : p # r => at'[p] = at[p]
  BY <1>1 DEF TransportInv, TransportTypes
<1> HIDE DEF h, n
<1>7. TransportTypes'
  <2>1. handle' \in [Readers -> 1..opened \cup {None}]
    BY <1>1, <1>3 DEF TransportInv, TransportTypes
  <2>2. at' \in [Readers -> {"idle", "ask", "seek", "read", "back"}]
    BY <1>1 DEF TransportInv, TransportTypes
  <2> QED BY <1>1, <1>4, <2>1, <2>2 DEF TransportInv, TransportTypes
<1>8. h = pool[Len(pool)] /\ n = Len(pool) - 1
  BY DEF h, n
<1>9. OneOwner'
  <2>1. \A p \in Readers : (handle'[p] # None) <=> at'[p] \in {"seek", "read", "back"}
    BY <1>3, <1>5, <1>6 DEF TransportInv, OneOwner
  <2>2. \A p \in Readers : handle[p] # h
    BY <1>3, <1>8 DEF TransportInv, OneOwner
  <2>3. \A p, q \in Readers : handle'[p] # None /\ handle'[p] = handle'[q] => p = q
    BY <1>5, <2>2 DEF TransportInv, OneOwner
  <2>4. \A i, j \in 1..n : pool'[i] = pool'[j] => i = j
    BY <1>3, <1>4, <1>8 DEF TransportInv, OneOwner
  <2>5. \A i \in 1..n : pool[i] # h
    BY <1>3, <1>8 DEF TransportInv, OneOwner
  <2>6. \A i \in 1..n, p \in Readers : pool'[i] # handle'[p]
    BY <1>3, <1>4, <1>5, <1>8, <2>5 DEF TransportInv, OneOwner
  <2>7. ASSUME NEW k \in 1..opened
        PROVE  (\E i \in 1..n : pool'[i] = k) \/ (\E p \in Readers : handle'[p] = k)
    <3>1. CASE k = h
      BY <1>5, <3>1
    <3>2. CASE k # h /\ \E i \in 1..Len(pool) : pool[i] = k
      BY <1>3, <1>4, <1>8, <3>2
    <3>3. CASE \E p \in Readers : handle[p] = k
      <4>1. PICK p \in Readers : handle[p] = k
        BY <3>3
      <4>2. handle[r] = None
        BY <1>1 DEF TransportInv, OneOwner
      <4>3. p # r
        BY <1>2, <4>1, <4>2
      <4> QED BY <1>5, <4>1, <4>3
    <3> QED BY <3>1, <3>2, <3>3 DEF TransportInv, OneOwner
  <2> QED BY <1>1, <1>4, <2>1, <2>3, <2>4, <2>6, <2>7 DEF OneOwner
<1>10. Fills(r)'
  BY <1>1, <1>6 DEF TransportInv, Filling, Fills
<1>11. Filling'
  BY <1>1, <1>5, <1>6, <1>10, OthersFill DEF TransportInv
<1> QED BY <1>1, <1>7, <1>9, <1>11 DEF TransportInv

\* An empty pool: the new handle is nobody else's.
LEMMA StepOpenHandle ==
  ASSUME TransportAssumption, TransportInv, NEW r \in Readers, OpenHandle(r)
  PROVE  TransportInv'
<1> DEFINE h == opened + 1
<1>1. /\ at[r] = "ask" /\ pool = <<>> /\ opened' = h /\ opened < MaxHandles
      /\ UNCHANGED <<pool, request, buf, answer>>
      /\ position' = [position EXCEPT ![h] = 0]
      /\ handle' = [handle EXCEPT ![r] = h] /\ at' = [at EXCEPT ![r] = "seek"]
  BY DEF OpenHandle, MoveTo
<1>2. /\ opened \in Nat \ {0} /\ None \notin Nat /\ MaxHandles \in Nat /\ h \in Handles
      /\ h # None /\ h \notin 1..opened
  BY <1>1 DEF TransportInv, TransportTypes, Handles, TransportAssumption
<1>3. handle'[r] = h /\ \A p \in Readers : p # r => handle'[p] = handle[p]
  BY <1>1 DEF TransportInv, TransportTypes
<1>4. at'[r] = "seek" /\ \A p \in Readers : p # r => at'[p] = at[p]
  BY <1>1 DEF TransportInv, TransportTypes
<1>5. TransportTypes'
  <2>1. handle' \in [Readers -> 1..h \cup {None}]
    BY <1>1, <1>2 DEF TransportInv, TransportTypes
  <2>2. at' \in [Readers -> {"idle", "ask", "seek", "read", "back"}]
    BY <1>1 DEF TransportInv, TransportTypes
  <2>3. pool' \in Seq(1..h)
    BY <1>1
  <2>4. position' \in [Handles -> Nat]
    BY <1>1 DEF TransportInv, TransportTypes
  <2> HIDE DEF h
  <2> QED BY <1>1, <1>2, <2>1, <2>2, <2>3, <2>4 DEF TransportInv, TransportTypes
<1>6. handle[r] = None
  BY <1>1 DEF TransportInv, OneOwner
<1>7. \A p \in Readers : handle[p] # h
  BY <1>2 DEF TransportInv, TransportTypes
<1>8. OneOwner'
  <2>1. \A p \in Readers : (handle'[p] # None) <=> at'[p] \in {"seek", "read", "back"}
    BY <1>2, <1>3, <1>4 DEF TransportInv, OneOwner
  <2>2. \A p, q \in Readers : handle'[p] # None /\ handle'[p] = handle'[q] => p = q
    BY <1>3, <1>7 DEF TransportInv, OneOwner
  <2>3. Len(pool') = 0
    BY <1>1
  <2>4. ASSUME NEW k \in 1..h PROVE \E p \in Readers : handle'[p] = k
    <3>1. CASE k = h
      BY <1>3, <3>1
    <3>2. CASE k \in 1..opened
      <4>1. PICK p \in Readers : handle[p] = k
        BY <1>1, <3>2 DEF TransportInv, OneOwner
      <4>2. p # r
        BY <1>2, <1>6, <3>2, <4>1
      <4> QED BY <1>3, <4>1, <4>2
    <3> QED BY <1>2, <3>1, <3>2
  <2> HIDE DEF h
  <2> QED BY <1>1, <2>1, <2>2, <2>3, <2>4 DEF OneOwner
<1>9. Fills(r)'
  BY <1>1, <1>4 DEF TransportInv, Filling, Fills
<1>10. \A p \in Readers : p # r /\ at[p] = "read" => position'[handle[p]] = position[handle[p]]
  BY <1>1, <1>7 DEF TransportInv, TransportTypes
<1>11. Filling'
  BY <1>1, <1>3, <1>4, <1>9, <1>10, OthersFill DEF TransportInv
<1>12. opened' <= Cardinality(Readers)
  BY <1>1, <1>6, RoomForOne
<1> QED BY <1>5, <1>8, <1>11, <1>12 DEF TransportInv

\* Steps that leave every handle, buffer and answer alone.
LEMMA StepQuiet ==
  ASSUME TransportAssumption, TransportInv, NEW r \in Readers, OpenFails(r) \/ ReadFails(r)
  PROVE  TransportInv'
<1>1. /\ UNCHANGED <<pool, opened, position, request, handle, buf, answer>>
      /\ \/ at[r] = "ask" /\ at' = [at EXCEPT ![r] = "idle"]
         \/ at[r] \in {"seek", "read"} /\ at' = [at EXCEPT ![r] = "back"]
  BY DEF OpenFails, ReadFails, MoveTo
<1>2. TransportTypes'
  BY <1>1 DEF TransportInv, TransportTypes
<1>3. /\ \A p \in Readers : p # r => at'[p] = at[p]
      /\ at'[r] \in {"idle", "back"}
      /\ (at'[r] = "back") <=> at[r] \in {"seek", "read", "back"}
  BY <1>1 DEF TransportInv, TransportTypes
<1>4. OneOwner'
  BY <1>1, <1>3, OwnersKept DEF TransportInv
<1>5. Fills(r)'
  BY <1>1, <1>3 DEF TransportInv, Filling, Fills
<1>6. Filling'
  BY <1>1, <1>3, <1>5, OthersFill DEF TransportInv
<1> QED BY <1>1, <1>2, <1>4, <1>6 DEF TransportInv

\* A reader's handle is no other reader's.
LEMMA OwnHandle ==
  ASSUME TransportAssumption, TransportInv, NEW r \in Readers, at[r] \in {"seek", "read"}
  PROVE  /\ handle[r] \in Handles
         /\ \A p \in Readers : p # r /\ at[p] = "read" => handle[p] # handle[r]
<1>1. handle[r] # None
  BY DEF TransportInv, OneOwner
<1>2. handle[r] \in 1..opened /\ opened \in Handles /\ MaxHandles \in Nat
  BY <1>1 DEF TransportInv, TransportTypes, TransportAssumption
<1>3. handle[r] \in Handles
  BY <1>2 DEF Handles
<1>4. \A p \in Readers : p # r => handle[p] # handle[r]
  BY <1>1 DEF TransportInv, OneOwner
<1> QED BY <1>3, <1>4

\* The seek puts the handle at the start of the range.
LEMMA StepSeek ==
  ASSUME TransportAssumption, TransportInv, NEW r \in Readers, Seek(r)
  PROVE  TransportInv'
<1>1. /\ at[r] = "seek" /\ UNCHANGED <<pool, opened, request, handle, buf, answer>>
      /\ position' = [position EXCEPT ![handle[r]] = request[r].start]
      /\ at' = [at EXCEPT ![r] = "read"]
  BY DEF Seek, MoveTo
<1>2. /\ handle[r] \in Handles /\ request[r].start \in Nat /\ request[r].end \in Int
      /\ \A p \in Readers : p # r /\ at[p] = "read" => handle[p] # handle[r]
  BY <1>1, OwnHandle DEF TransportInv, TransportTypes
<1>3. TransportTypes'
  BY <1>1, <1>2 DEF TransportInv, TransportTypes
<1>4. at'[r] = "read" /\ \A p \in Readers : p # r => at'[p] = at[p]
  BY <1>1 DEF TransportInv, TransportTypes
<1>5. OneOwner'
  BY <1>1, <1>4, OwnersKept DEF TransportInv
<1>6. /\ position'[handle[r]] = request[r].start
      /\ \A p \in Readers : p # r /\ at[p] = "read" => position'[handle[p]] = position[handle[p]]
  <2>1. position \in [Handles -> Nat]
    BY DEF TransportInv, TransportTypes
  <2>2. \A h : h # handle[r] => position'[h] = position[h]
    BY <1>1, <2>1
  <2> QED BY <1>1, <1>2, <2>1, <2>2
<1>7. Fills(r)'
  <2>1. buf[r] = <<>> /\ InRange(request[r]) /\ Fills(r)
    BY <1>1 DEF TransportInv, Filling, Fills
  <2>2. <<>> = BytesFrom(request[r].start, 0)
    BY DEF BytesFrom
  <2>3. 0 <= request[r].end - request[r].start + 1
    BY <1>2, <2>1 DEF InRange
  <2>4. position'[handle[r]] = request[r].start + 0
    BY <1>2, <1>6
  <2>5. \E n \in Nat :
          /\ buf[r] = BytesFrom(request[r].start, n)
          /\ n <= request[r].end - request[r].start + 1
          /\ position'[handle[r]] = request[r].start + n
    BY <2>1, <2>2, <2>3, <2>4
  <2> QED BY <1>1, <1>4, <2>1, <2>5 DEF Fills, InRange
<1>8. Filling'
  BY <1>1, <1>4, <1>6, <1>7, OthersFill DEF TransportInv
<1> QED BY <1>1, <1>3, <1>5, <1>8 DEF TransportInv

\* How many bytes there are.
LEMMA BytesCounted ==
  ASSUME NEW start \in Nat, NEW m \in Nat
  PROVE  /\ BytesFrom(start, m) \in Seq(Int) /\ Len(BytesFrom(start, m)) = m
         /\ \A i \in 1..m : BytesFrom(start, m)[i] = start + i - 1
BY DEF BytesFrom

\* Bytes of a range are followed by the next ones.
LEMMA BytesFollow ==
  ASSUME NEW start \in Nat, NEW m \in Nat, NEW n \in Nat
  PROVE  BytesFrom(start, m) \o BytesFrom(start + m, n) = BytesFrom(start, m + n)
<1> DEFINE a == BytesFrom(start, m)
           b == BytesFrom(start + m, n)
           c == BytesFrom(start, m + n)
<1>1. a \in Seq(Int) /\ Len(a) = m /\ \A i \in 1..m : a[i] = start + i - 1
  BY BytesCounted
<1>2. b \in Seq(Int) /\ Len(b) = n /\ \A i \in 1..n : b[i] = start + m + i - 1
  <2>1. start + m \in Nat
    OBVIOUS
  <2> QED BY <2>1, BytesCounted
<1>3. c \in Seq(Int) /\ Len(c) = m + n /\ \A i \in 1..(m + n) : c[i] = start + i - 1
  BY BytesCounted
<1> HIDE DEF a, b, c
<1>4. a \o b \in Seq(Int) /\ Len(a \o b) = m + n
  BY <1>1, <1>2, ConcatProperties
<1>5. ASSUME NEW i \in 1..(m + n) PROVE (a \o b)[i] = c[i]
  <2>1. CASE i <= m
    <3>1. (a \o b)[i] = a[i]
      BY <1>1, <1>2, <2>1
    <3> QED BY <1>1, <1>3, <2>1, <3>1
  <2>2. CASE i > m
    <3>1. i - m \in 1..n
      BY <2>2
    <3>2. (a \o b)[i] = b[i - m]
      BY <1>1, <1>2, <2>2
    <3>3. b[i - m] = start + m + (i - m) - 1
      BY <1>2, <3>1
    <3> QED BY <1>3, <3>2, <3>3
  <2>3. i <= m \/ i > m
    OBVIOUS
  <2> QED BY <2>1, <2>2, <2>3
<1>6. a \o b = c
  BY <1>3, <1>4, <1>5, SeqEqual
<1> QED BY <1>6 DEF a, b, c

\* The handle moves on by what was read.
LEMMA StepRead ==
  ASSUME TransportAssumption, TransportInv, NEW r \in Readers, Read(r)
  PROVE  TransportInv'
<1> DEFINE here == position[handle[r]]
<1>1. at[r] = "read" /\ UNCHANGED <<pool, opened, request, handle, at, answer>>
  BY DEF Read
<1>2. PICK n \in 1..Wanted(r) :
        /\ buf' = [buf EXCEPT ![r] = @ \o [i \in 1..n |-> here + i - 1]]
        /\ position' = [position EXCEPT ![handle[r]] = @ + n]
  BY DEF Read
<1>3. /\ handle[r] \in Handles /\ request[r].start \in Nat /\ request[r].end \in Int
      /\ \A p \in Readers : p # r /\ at[p] = "read" => handle[p] # handle[r]
      /\ position \in [Handles -> Nat]
  BY <1>1, OwnHandle DEF TransportInv, TransportTypes
<1>4. PICK m \in Nat :
        /\ buf[r] = BytesFrom(request[r].start, m)
        /\ m <= request[r].end - request[r].start + 1
        /\ here = request[r].start + m
  BY <1>1 DEF TransportInv, Filling
<1>5. Len(buf[r]) = m
  <2>1. Len(BytesFrom(request[r].start, m)) = m
    BY <1>3, BytesCounted
  <2> QED BY <1>4, <2>1
<1>6. n \in Nat /\ n <= request[r].end - request[r].start + 1 - m
  BY <1>3, <1>5 DEF Wanted
<1>7. buf'[r] = buf[r] \o [i \in 1..n |-> here + i - 1]
      /\ DOMAIN buf' = Readers /\ \A p \in Readers : p # r => buf'[p] = buf[p]
  BY <1>2 DEF TransportInv, TransportTypes
<1>8. /\ position'[handle[r]] = here + n /\ here \in Nat
      /\ \A h \in Handles : h # handle[r] => position'[h] = position[h]
      /\ position' \in [Handles -> Nat]
  BY <1>2, <1>3, <1>6
<1>9. \A p \in Readers : p # r /\ at[p] = "read" => position'[handle[p]] = position[handle[p]]
  BY <1>2, <1>3
<1> HIDE DEF here
<1>10. buf'[r] = BytesFrom(request[r].start, m + n)
  <2>1. [i \in 1..n |-> here + i - 1] = BytesFrom(request[r].start + m, n)
    BY <1>4 DEF BytesFrom
  <2>2. buf'[r] = BytesFrom(request[r].start, m) \o BytesFrom(request[r].start + m, n)
    BY <1>4, <1>7, <2>1
  <2> QED BY <1>3, <1>6, <2>2, BytesFollow
<1>11. TransportTypes'
  BY <1>1, <1>7, <1>8 DEF TransportInv, TransportTypes
<1>12. OneOwner'
  BY <1>1, OwnersKept DEF TransportInv
<1>13. Fills(r)'
  <2>1. /\ m + n \in Nat /\ m + n <= request[r].end - request[r].start + 1
        /\ position'[handle[r]] = request[r].start + (m + n)
    BY <1>3, <1>4, <1>6, <1>8
  <2>2. Fills(r)
    BY DEF TransportInv, Filling, Fills
  <2> QED BY <1>1, <1>10, <2>1, <2>2 DEF Fills, InRange
<1>14. Filling'
  BY <1>1, <1>7, <1>9, <1>13, OthersFill DEF TransportInv
<1> QED BY <1>1, <1>11, <1>12, <1>14 DEF TransportInv

\* The buffer is full: it is the whole range.
LEMMA StepFilled ==
  ASSUME TransportAssumption, TransportInv, NEW r \in Readers, Filled(r)
  PROVE  TransportInv'
<1>1. /\ at[r] = "read" /\ Wanted(r) = 0
      /\ UNCHANGED <<pool, opened, position, request, handle, buf>>
      /\ answer' = [answer EXCEPT ![r] = buf[r]] /\ at' = [at EXCEPT ![r] = "back"]
  BY DEF Filled, MoveTo
<1>2. TransportTypes'
  BY <1>1 DEF TransportInv, TransportTypes
<1>3. /\ at'[r] = "back" /\ answer'[r] = buf[r]
      /\ \A p \in Readers : p # r => at'[p] = at[p] /\ answer'[p] = answer[p]
      /\ request[r].start \in Nat /\ request[r].end \in Int
  BY <1>1 DEF TransportInv, TransportTypes
<1>4. OneOwner'
  BY <1>1, <1>3, OwnersKept DEF TransportInv
<1>5. PICK m \in Nat : buf[r] = BytesFrom(request[r].start, m)
  BY <1>1 DEF TransportInv, Filling
<1>6. Len(buf[r]) = m
  BY <1>3, <1>5, BytesCounted
<1>7. m = request[r].end - request[r].start + 1
  BY <1>1, <1>3, <1>6 DEF Wanted
<1>8. Fills(r)'
  BY <1>1, <1>3, <1>5, <1>7 DEF Fills
<1>9. Filling'
  BY <1>1, <1>3, <1>8, OthersFill DEF TransportInv
<1> QED BY <1>1, <1>2, <1>4, <1>9 DEF TransportInv

\* Whatever came of the read, the handle is the pool's again.
LEMMA StepPutBack ==
  ASSUME TransportAssumption, TransportInv, NEW r \in Readers, PutBack(r)
  PROVE  TransportInv'
<1> DEFINE h == handle[r]
           n == Len(pool)
<1>1. /\ at[r] = "back" /\ UNCHANGED <<opened, position, request, buf, answer>>
      /\ pool' = Append(pool, h) /\ handle' = [handle EXCEPT ![r] = None]
      /\ at' = [at EXCEPT ![r] = "idle"]
  BY DEF PutBack, MoveTo
<1>2. h # None
  BY <1>1 DEF TransportInv, OneOwner
<1>3. h \in 1..opened /\ pool \in Seq(1..opened) /\ n \in Nat
  BY <1>2 DEF TransportInv, TransportTypes
<1>4. /\ pool' \in Seq(1..opened) /\ Len(pool') = n + 1
      /\ pool'[n + 1] = h /\ \A i \in 1..n : pool'[i] = pool[i]
  BY <1>1, <1>3
<1>5. handle'[r] = None /\ \A p \in Readers : p # r => handle'[p] = handle[p]
  BY <1>1 DEF TransportInv, TransportTypes
<1>6. at'[r] = "idle" /\ \A p \in Readers : p # r => at'[p] = at[p]
  BY <1>1 DEF TransportInv, TransportTypes
<1>7. /\ \A p \in Readers : p # r => handle[p] # h
      /\ \A i \in 1..n : pool[i] # h
  BY <1>2 DEF TransportInv, OneOwner
<1>8. h = handle[r] /\ n = Len(pool) /\ \A i \in 1..n : pool[i] \in 1..opened
  BY <1>3, ElementOfSeq
<1> HIDE DEF h, n
<1>9. TransportTypes'
  <2>1. handle' \in [Readers -> 1..opened \cup {None}]
    BY <1>1 DEF TransportInv, TransportTypes
  <2>2. at' \in [Readers -> {"idle", "ask", "seek", "read", "back"}]
    BY <1>1 DEF TransportInv, TransportTypes
  <2> QED BY <1>1, <1>4, <2>1, <2>2 DEF TransportInv, TransportTypes
<1>10. OneOwner'
  <2>1. \A p \in Readers : (handle'[p] # None) <=> at'[p] \in {"seek", "read", "back"}
    BY <1>5, <1>6 DEF TransportInv, OneOwner
  <2>2. \A p, q \in Readers : handle'[p] # None /\ handle'[p] = handle'[q] => p = q
    BY <1>5 DEF TransportInv, OneOwner
  <2>3. \A i, j \in 1..n : pool[i] = pool[j] => i = j
    BY <1>8 DEF TransportInv, OneOwner
  <2>4. \A i, j \in 1..(n + 1) : pool'[i] = pool'[j] => i = j
    BY <1>3, <1>4, <1>7, <2>3
  <2>5. \A i \in 1..n, p \in Readers : pool[i] # handle[p]
    BY <1>8 DEF TransportInv, OneOwner
  <2>6. ASSUME NEW i \in 1..(n + 1) PROVE pool'[i] \in 1..opened
    <3>1. CASE i = n + 1
      BY <1>3, <1>4, <3>1
    <3>2. CASE i \in 1..n
      <4>1. pool[i] \in 1..opened
        BY <1>8, <3>2
      <4> QED BY <1>4, <3>2, <4>1
    <3> QED BY <1>3, <3>1, <3>2
  <2>7. None \notin 1..opened
    BY DEF TransportAssumption, TransportInv, TransportTypes, Handles
  <2>8. ASSUME NEW i \in 1..(n + 1), NEW p \in Readers PROVE pool'[i] # handle'[p]
    <3>1. CASE p = r
      <4>1. handle'[p] = None
        BY <1>5, <3>1
      <4> QED BY <2>6, <2>7, <4>1
    <3>2. CASE p # r /\ i = n + 1
      <4>1. pool'[i] = h /\ handle'[p] = handle[p]
        BY <1>4, <1>5, <3>2
      <4> QED BY <1>7, <3>2, <4>1
    <3>3. CASE p # r /\ i \in 1..n
      <4>1. pool'[i] = pool[i] /\ handle'[p] = handle[p]
        BY <1>4, <1>5, <3>3
      <4> QED BY <2>5, <3>3, <4>1
    <3> QED BY <1>3, <3>1, <3>2, <3>3
  <2>9. ASSUME NEW k \in 1..opened
        PROVE  (\E i \in 1..(n + 1) : pool'[i] = k) \/ (\E p \in Readers : handle'[p] = k)
    <3>1. CASE k = h
      BY <1>3, <1>4, <3>1
    <3>2. CASE \E i \in 1..n : pool[i] = k
      BY <1>3, <1>4, <3>2
    <3>3. CASE k # h /\ \E p \in Readers : handle[p] = k
      BY <1>5, <1>8, <3>3
    <3> QED BY <1>8, <3>1, <3>2, <3>3 DEF TransportInv, OneOwner
  <2> QED BY <1>1, <1>4, <2>1, <2>2, <2>4, <2>8, <2>9 DEF OneOwner
<1>11. Fills(r)'
  BY <1>1, <1>6 DEF TransportInv, Filling, Fills
<1>12. Filling'
  BY <1>1, <1>5, <1>6, <1>11, OthersFill DEF TransportInv
<1> QED BY <1>1, <1>9, <1>10, <1>12 DEF TransportInv

\* Every step of every reader keeps the invariant.
LEMMA NextTransport ==
  ASSUME TransportAssumption, TransportInv, [TransportNext]_transportVars
  PROVE  TransportInv'
<1>1. CASE UNCHANGED transportVars
  BY <1>1 DEF transportVars, TransportInv, TransportTypes, OneOwner, Filling
<1>2. ASSUME NEW r \in Readers, \E s, e \in Offsets : fetch_range(r, s, e) PROVE TransportInv'
  <2>1. PICK s \in Offsets, e \in Offsets : fetch_range(r, s, e)
    BY <1>2
  <2>2. s \in Nat /\ e \in Int
    BY DEF Offsets, TransportAssumption
  <2> QED BY <2>1, <2>2, StepFetch
<1>3. ASSUME NEW r \in Readers, \E n \in 1..2 : probe(r, n) PROVE TransportInv'
  <2>1. PICK n \in 1..2 : probe(r, n)
    BY <1>3
  <2>2. n \in Nat
    OBVIOUS
  <2> QED BY <2>1, <2>2, StepProbe
<1> QED BY <1>1, <1>2, <1>3, StepCheckout, StepOpenHandle, StepQuiet, StepSeek, StepRead,
           StepFilled, StepPutBack DEF TransportNext

\* However the seeks and reads of other threads fall, a fetch that answers returns
\* the bytes of its own range, a handle has one owner, and there are never more
\* handles than threads (fetch_range of the DuckDB file transport and its pool).
THEOREM TransportFetchExact == ASSUME TransportAssumption PROVE TransportSpec => []FetchExact
<1>1. TransportInit => TransportInv
  BY InitTransport
<1>2. TransportInv /\ [TransportNext]_transportVars => TransportInv'
  BY NextTransport
<1>3. TransportInv => FetchExact
  BY InvFetchExact
<1> QED BY <1>1, <1>2, <1>3, PTL DEF TransportSpec

-----------------------------------------------------------------------------
(* The structs of the Arrow C Data and C Stream Interfaces.                 *)

\* A struct handed out.
Structs == [kind : {"schema", "array"},
            children : [1 .. Columns -> {"inside", "moved", "gone"}]]

\* Blocks are told apart by what they are and whose.
LEMMA BlocksApart ==
  ASSUME NEW s, NEW t, NEW c, NEW d
  PROVE  /\ (Private(s) = Private(t)) <=> (s = t)
         /\ (ChildBox(s, c) = ChildBox(t, d)) <=> (s = t /\ c = d)
         /\ (ChildData(s, c) = ChildData(t, d)) <=> (s = t /\ c = d)
         /\ Private(s) # ChildBox(t, d) /\ Private(s) # ChildData(t, d)
         /\ ChildBox(s, c) # ChildData(t, d)
         /\ Private(s) # StreamData /\ ChildBox(s, c) # StreamData
         /\ ChildData(s, c) # StreamData
BY DEF Private, ChildBox, ChildData, StreamData

\* Two structs share no block.
LEMMA StructsApart ==
  ASSUME NEW s, NEW t, s # t, NEW b \in Blocks(t)
  PROVE  b \notin Blocks(s)
<1>1. CASE b = Private(t)
  BY <1>1, BlocksApart DEF Blocks
<1>2. ASSUME NEW c, b = ChildBox(t, c) PROVE b \notin Blocks(s)
  BY <1>2, BlocksApart DEF Blocks
<1>3. ASSUME NEW c, b = ChildData(t, c) PROVE b \notin Blocks(s)
  BY <1>3, BlocksApart DEF Blocks
<1> QED BY <1>1, <1>2, <1>3 DEF Blocks

\* So are the handles the consumer has.
LEMMA HandlesApart ==
  ASSUME NEW s, NEW t, NEW c, NEW d
  PROVE  /\ (Whole(s) = Whole(t)) <=> (s = t)
         /\ (Moved(s, c) = Moved(t, d)) <=> (s = t /\ c = d)
         /\ Whole(s) # Moved(t, d)
BY DEF Whole, Moved

\* The types: a block for all that was handed out, a handle only to what was.
ArrowTypes ==
    /\ stream \in {"live", "failed", "released"}
    /\ out \in Seq(Structs)
    /\ DOMAIN frees = {StreamData} \cup UNION {Blocks(s) : s \in DOMAIN out}
    /\ \A x \in held : \E s \in DOMAIN out : x = Whole(s) \/ \E c \in 1 .. Columns : x = Moved(s, c)

\* Each block's count follows from who can still release it.
Counted ==
    /\ frees[StreamData] = IF stream = "released" THEN 1 ELSE 0
    /\ \A s \in DOMAIN out :
         /\ frees[Private(s)] = IF Whole(s) \in held THEN 0 ELSE 1
         /\ \A c \in 1 .. Columns :
              /\ frees[ChildBox(s, c)] = IF Whole(s) \in held THEN 0 ELSE 1
              /\ frees[ChildData(s, c)] = IF out[s].children[c] = "gone" THEN 1 ELSE 0
              /\ out[s].children[c] = "inside" => Whole(s) \in held
              /\ (out[s].children[c] = "moved") <=> (Moved(s, c) \in held)

\* The inductive invariant.
ArrowInv == ArrowTypes /\ Counted

-----------------------------------------------------------------------------
\* At first there is the stream alone.
LEMMA InitArrow == ASSUME ArrowAssumption, ArrowInit PROVE ArrowInv
<1>1. DOMAIN out = {}
  BY DEF ArrowInit
<1>2. ArrowTypes
  BY <1>1 DEF ArrowInit, ArrowTypes
<1>3. Counted
  BY <1>1 DEF ArrowInit, Counted
<1> QED BY <1>2, <1>3 DEF ArrowInv

\* A block is freed once or not at all.
LEMMA CountsAreBits == ASSUME ArrowInv, NEW b \in DOMAIN frees PROVE frees[b] \in {0, 1}
<1>1. CASE b = StreamData
  BY <1>1 DEF ArrowInv, Counted
<1>2. ASSUME NEW s \in DOMAIN out, b \in Blocks(s) PROVE frees[b] \in {0, 1}
  BY <1>2 DEF ArrowInv, Counted, Blocks
<1> QED BY <1>1, <1>2 DEF ArrowInv, ArrowTypes

\* The accounts say what the property says.
LEMMA InvOwnership == ASSUME ArrowInv PROVE OwnershipExact
<1> USE DEF ArrowInv
<1>1. \A b \in DOMAIN frees : frees[b] \in {0, 1}
  BY CountsAreBits
<1>2. \A b \in DOMAIN frees : frees[b] <= 1
  BY <1>1
<1>3. \A s \in DOMAIN out : Whole(s) \in held =>
            /\ frees[Private(s)] = 0
            /\ \A c \in 1 .. Columns :
                 out[s].children[c] = "inside" => frees[ChildBox(s, c)] = 0 /\ frees[ChildData(s, c)] = 0
  BY DEF Counted
<1>4. \A s \in DOMAIN out, c \in 1 .. Columns : Moved(s, c) \in held => frees[ChildData(s, c)] = 0
  BY DEF Counted
<1>5. ASSUME held = {}, stream = "released", NEW b \in DOMAIN frees PROVE frees[b] = 1
  <2>1. CASE b = StreamData
    BY <1>5, <2>1 DEF Counted
  <2>2. ASSUME NEW s \in DOMAIN out, b \in Blocks(s) PROVE frees[b] = 1
    <3>1. \A c \in 1 .. Columns : out[s].children[c] = "gone"
      <4>1. out[s] \in Structs
        BY DEF ArrowTypes
      <4> QED BY <1>5, <4>1 DEF Counted, Structs
    <3> QED BY <1>5, <2>2, <3>1 DEF Counted, Blocks
  <2> QED BY <2>1, <2>2 DEF ArrowTypes
<1> QED BY <1>2, <1>3, <1>4, <1>5 DEF OwnershipExact

\* A struct handed out brings blocks of its own, none of them freed.
LEMMA StepHandOut == ASSUME ArrowAssumption, ArrowInv, NEW kind \in {"schema", "array"}, HandOut(kind) PROVE ArrowInv'
<1> DEFINE n == Len(out) + 1
           new == [kind |-> kind, children |-> [c \in 1 .. Columns |-> "inside"]]
<1>1. /\ out' = Append(out, new) /\ held' = held \cup {Whole(n)} /\ UNCHANGED stream
      /\ frees' = [b \in DOMAIN frees \cup Blocks(n) |-> IF b \in DOMAIN frees THEN frees[b] ELSE 0]
  BY DEF HandOut
<1>2. new \in Structs /\ \A c \in 1 .. Columns : new.children[c] = "inside"
  BY DEF Structs
<1>3. /\ n \in Nat /\ n >= 1 /\ DOMAIN out = 1 .. n - 1 /\ out' \in Seq(Structs) /\ DOMAIN out' = 1 .. n
      /\ out'[n] = new /\ \A s \in DOMAIN out : out'[s] = out[s]
  BY <1>1, <1>2 DEF ArrowInv, ArrowTypes
<1> HIDE DEF n, new
<1>4. n \notin DOMAIN out /\ DOMAIN out' = DOMAIN out \cup {n}
  <2>1. n \notin 1 .. n - 1
    BY <1>3
  <2>2. 1 .. n = 1 .. n - 1 \cup {n}
    BY <1>3
  <2> QED BY <1>3, <2>1, <2>2
<1>5. \A b \in Blocks(n) : b \notin DOMAIN frees
  <2>1. \A b \in Blocks(n) : b # StreamData
    BY BlocksApart DEF Blocks
  <2>2. ASSUME NEW s \in DOMAIN out, NEW b \in Blocks(n) PROVE b \notin Blocks(s)
    <3>1. s # n
      BY <1>4
    <3> QED BY <3>1, BlocksApart DEF Blocks
  <2> QED BY <2>1, <2>2 DEF ArrowInv, ArrowTypes
<1>6. /\ \A b \in DOMAIN frees : frees'[b] = frees[b]
      /\ \A b \in Blocks(n) : frees'[b] = 0
  BY <1>1, <1>5
<1>7. DOMAIN frees' = {StreamData} \cup UNION {Blocks(s) : s \in DOMAIN out'}
  <2>1. UNION {Blocks(s) : s \in DOMAIN out'} = (UNION {Blocks(s) : s \in DOMAIN out}) \cup Blocks(n)
    BY <1>4
  <2>2. DOMAIN frees' = DOMAIN frees \cup Blocks(n)
    BY <1>1
  <2> QED BY <2>1, <2>2 DEF ArrowInv, ArrowTypes
<1>8. ArrowTypes'
  <2>1. \A x \in held' : \E s \in DOMAIN out' : x = Whole(s) \/ \E c \in 1 .. Columns : x = Moved(s, c)
    BY <1>1, <1>4 DEF ArrowInv, ArrowTypes
  <2> QED BY <1>1, <1>3, <1>7, <2>1 DEF ArrowInv, ArrowTypes
<1>9. /\ \A s \in DOMAIN out : (Whole(s) \in held') <=> (Whole(s) \in held)
      /\ \A s, c : (Moved(s, c) \in held') <=> (Moved(s, c) \in held)
      /\ Whole(n) \in held'
      /\ \A c : Moved(n, c) \notin held
  <2>1. \A s \in DOMAIN out : Whole(s) # Whole(n)
    BY <1>4, HandlesApart
  <2>2. \A s, c : Moved(s, c) # Whole(n)
    BY HandlesApart
  <2>3. ASSUME NEW c PROVE Moved(n, c) \notin held
    BY <1>4, HandlesApart DEF ArrowInv, ArrowTypes
  <2> QED BY <1>1, <2>1, <2>2, <2>3
<1>10. Counted'
  <2>1. frees'[StreamData] = IF stream' = "released" THEN 1 ELSE 0
    BY <1>1, <1>6 DEF ArrowInv, ArrowTypes, Counted
  <2>2. ASSUME NEW s \in DOMAIN out, NEW b \in Blocks(s) PROVE frees'[b] = frees[b]
    BY <1>6 DEF ArrowInv, ArrowTypes
  <2>3. ASSUME NEW s \in DOMAIN out
        PROVE  /\ frees'[Private(s)] = frees[Private(s)]
               /\ \A c \in 1 .. Columns : /\ frees'[ChildBox(s, c)] = frees[ChildBox(s, c)]
                                          /\ frees'[ChildData(s, c)] = frees[ChildData(s, c)]
    BY <2>2 DEF Blocks
  <2>4. /\ frees'[Private(n)] = 0
        /\ \A c \in 1 .. Columns : frees'[ChildBox(n, c)] = 0 /\ frees'[ChildData(n, c)] = 0
    BY <1>6 DEF Blocks
  <2>5. ASSUME NEW s \in DOMAIN out
        PROVE  /\ frees'[Private(s)] = IF Whole(s) \in held' THEN 0 ELSE 1
               /\ \A c \in 1 .. Columns :
                    /\ frees'[ChildBox(s, c)] = IF Whole(s) \in held' THEN 0 ELSE 1
                    /\ frees'[ChildData(s, c)] = IF out'[s].children[c] = "gone" THEN 1 ELSE 0
                    /\ out'[s].children[c] = "inside" => Whole(s) \in held'
                    /\ (out'[s].children[c] = "moved") <=> (Moved(s, c) \in held')
    BY <1>3, <1>9, <2>3 DEF ArrowInv, Counted
  <2>6. /\ frees'[Private(n)] = IF Whole(n) \in held' THEN 0 ELSE 1
        /\ \A c \in 1 .. Columns :
             /\ frees'[ChildBox(n, c)] = IF Whole(n) \in held' THEN 0 ELSE 1
             /\ frees'[ChildData(n, c)] = IF out'[n].children[c] = "gone" THEN 1 ELSE 0
             /\ out'[n].children[c] = "inside" => Whole(n) \in held'
             /\ (out'[n].children[c] = "moved") <=> (Moved(n, c) \in held')
    BY <1>2, <1>3, <1>9, <2>4
  <2> QED BY <1>4, <2>1, <2>5, <2>6 DEF Counted
<1> QED BY <1>8, <1>10 DEF ArrowInv

\* What Counted says of one struct.
Balanced(s) ==
    /\ frees[Private(s)] = IF Whole(s) \in held THEN 0 ELSE 1
    /\ \A c \in 1 .. Columns :
         /\ frees[ChildBox(s, c)] = IF Whole(s) \in held THEN 0 ELSE 1
         /\ frees[ChildData(s, c)] = IF out[s].children[c] = "gone" THEN 1 ELSE 0
         /\ out[s].children[c] = "inside" => Whole(s) \in held
         /\ (out[s].children[c] = "moved") <=> (Moved(s, c) \in held)

\* A step on struct s leaves every other struct's account alone.
LEMMA OneStruct ==
  ASSUME ArrowInv, NEW s \in DOMAIN out, UNCHANGED stream,
         out' \in Seq(Structs), DOMAIN out' = DOMAIN out, DOMAIN frees' = DOMAIN frees,
         \A t \in DOMAIN out : t # s => out'[t] = out[t],
         \A b \in DOMAIN frees : b \notin Blocks(s) => frees'[b] = frees[b],
         \A t : t # s => (Whole(t) \in held') <=> (Whole(t) \in held),
         \A t, c : t # s => (Moved(t, c) \in held') <=> (Moved(t, c) \in held),
         \A x \in held' : x \in held \/ \E c \in 1 .. Columns : x = Moved(s, c),
         Balanced(s)'
  PROVE  ArrowInv'
<1>1. ArrowTypes'
  <2>1. \A x \in held' : \E t \in DOMAIN out' : x = Whole(t) \/ \E c \in 1 .. Columns : x = Moved(t, c)
    BY DEF ArrowInv, ArrowTypes
  <2> QED BY <2>1 DEF ArrowInv, ArrowTypes
<1>2. StreamData \notin Blocks(s) /\ StreamData \in DOMAIN frees
  BY BlocksApart DEF Blocks, ArrowInv, ArrowTypes
<1>3. frees'[StreamData] = IF stream' = "released" THEN 1 ELSE 0
  BY <1>2 DEF ArrowInv, Counted
<1>4. ASSUME NEW t \in DOMAIN out PROVE Balanced(t)'
  <2>1. CASE t = s
    BY <2>1
  <2>2. CASE t # s
    <3>1. ASSUME NEW b \in Blocks(t) PROVE b \in DOMAIN frees /\ b \notin Blocks(s)
      <4>1. b \in DOMAIN frees
        BY DEF ArrowInv, ArrowTypes
      <4>2. b \notin Blocks(s)
        BY <2>2, StructsApart
      <4> QED BY <4>1, <4>2
    <3>2. \A b \in Blocks(t) : frees'[b] = frees[b]
      BY <3>1
    <3>3. /\ frees'[Private(t)] = frees[Private(t)]
          /\ \A c \in 1 .. Columns : /\ frees'[ChildBox(t, c)] = frees[ChildBox(t, c)]
                                     /\ frees'[ChildData(t, c)] = frees[ChildData(t, c)]
      BY <3>2 DEF Blocks
    <3>4. Balanced(t)
      BY DEF ArrowInv, Counted, Balanced
    <3>5. out'[t] = out[t] /\ ((Whole(t) \in held') <=> (Whole(t) \in held))
          /\ \A c : (Moved(t, c) \in held') <=> (Moved(t, c) \in held)
      BY <2>2
    <3> QED BY <3>3, <3>4, <3>5 DEF Balanced
  <2> QED BY <2>1, <2>2
<1>5. Counted'
  BY <1>3, <1>4 DEF Counted, Balanced
<1> QED BY <1>1, <1>5 DEF ArrowInv

\* Nothing an account depends on changes.
LEMMA ArrowStutters ==
  ASSUME ArrowInv, UNCHANGED <<out, frees, held>>, stream' \in {"live", "failed", "released"},
         (stream' = "released") <=> (stream = "released")
  PROVE  ArrowInv'
<1>1. ArrowTypes'
  BY DEF ArrowInv, ArrowTypes
<1>2. Counted'
  BY DEF ArrowInv, Counted
<1> QED BY <1>1, <1>2 DEF ArrowInv

\* release_arrow_stream gives back the stream's own data, once.
LEMMA StepReleaseStream ==
  ASSUME ArrowInv, ReleaseStream
  PROVE  ArrowInv'
<1>1. stream' = "released" /\ UNCHANGED <<out, held>>
  BY DEF ReleaseStream
<1>2. CASE stream = "released"
  BY <1>1, <1>2, ArrowStutters DEF ReleaseStream
<1>3. CASE stream # "released"
  <2>1. frees' = [frees EXCEPT ![StreamData] = @ + 1] /\ StreamData \in DOMAIN frees
        /\ frees[StreamData] = 0
    BY <1>3 DEF ReleaseStream, ArrowInv, ArrowTypes, Counted
  <2>2. frees'[StreamData] = 1 /\ DOMAIN frees' = DOMAIN frees
        /\ \A b \in DOMAIN frees : b # StreamData => frees'[b] = frees[b]
    BY <2>1
  <2>3. ArrowTypes'
    BY <1>1, <2>2 DEF ArrowInv, ArrowTypes
  <2>4. ASSUME NEW t \in DOMAIN out PROVE Balanced(t)'
    <3>1. \A b \in Blocks(t) : b \in DOMAIN frees /\ b # StreamData
      BY BlocksApart DEF Blocks, ArrowInv, ArrowTypes
    <3>2. \A b \in Blocks(t) : frees'[b] = frees[b]
      BY <2>2, <3>1
    <3>3. /\ frees'[Private(t)] = frees[Private(t)]
          /\ \A c \in 1 .. Columns : /\ frees'[ChildBox(t, c)] = frees[ChildBox(t, c)]
                                     /\ frees'[ChildData(t, c)] = frees[ChildData(t, c)]
      BY <3>2 DEF Blocks
    <3>4. Balanced(t)
      BY DEF ArrowInv, Counted, Balanced
    <3> QED BY <1>1, <3>3, <3>4 DEF Balanced
  <2>5. Counted'
    BY <1>1, <2>2, <2>4 DEF Counted, Balanced
  <2> QED BY <2>3, <2>5 DEF ArrowInv
<1> QED BY <1>2, <1>3

\* Moving a child out changes its owner and frees nothing.
LEMMA StepMoveChild ==
  ASSUME ArrowInv, NEW s \in DOMAIN out, NEW c \in 1 .. Columns, MoveChild(s, c)
  PROVE  ArrowInv'
<1>1. /\ Whole(s) \in held /\ out[s].children[c] = "inside"
      /\ out' = [out EXCEPT ![s].children[c] = "moved"]
      /\ held' = held \cup {Moved(s, c)} /\ UNCHANGED <<stream, frees>>
  BY DEF MoveChild
<1>2. out \in Seq(Structs) /\ out[s] \in Structs /\ DOMAIN out = 1 .. Len(out) /\ Balanced(s)
  BY DEF ArrowInv, ArrowTypes, Counted, Balanced
<1> DEFINE new == [out[s] EXCEPT !.children[c] = "moved"]
<1>3. /\ new \in Structs /\ new.children[c] = "moved"
      /\ \A d \in 1 .. Columns : d # c => new.children[d] = out[s].children[d]
  BY <1>2 DEF Structs
<1>4. out' = [out EXCEPT ![s] = new]
  BY <1>1
<1> HIDE DEF new
<1>5. /\ out' \in Seq(Structs) /\ DOMAIN out' = DOMAIN out
      /\ out'[s] = new /\ \A t \in DOMAIN out : t # s => out'[t] = out[t]
  BY <1>2, <1>3, <1>4, ExceptSeq
<1>6. /\ \A t : (Whole(t) \in held') <=> (Whole(t) \in held)
      /\ \A t, d : ~(t = s /\ d = c) => (Moved(t, d) \in held') <=> (Moved(t, d) \in held)
      /\ Moved(s, c) \in held'
  BY <1>1, HandlesApart
<1>7. Balanced(s)'
  <2>1. ASSUME NEW d \in 1 .. Columns
        PROVE  /\ frees'[ChildBox(s, d)] = IF Whole(s) \in held' THEN 0 ELSE 1
               /\ frees'[ChildData(s, d)] = IF out'[s].children[d] = "gone" THEN 1 ELSE 0
               /\ out'[s].children[d] = "inside" => Whole(s) \in held'
               /\ (out'[s].children[d] = "moved") <=> (Moved(s, d) \in held')
    <3>1. CASE d = c
      BY <1>1, <1>2, <1>3, <1>5, <1>6, <3>1 DEF Balanced
    <3>2. CASE d # c
      BY <1>1, <1>2, <1>3, <1>5, <1>6, <3>2 DEF Balanced
    <3> QED BY <3>1, <3>2
  <2> QED BY <1>1, <1>2, <1>6, <2>1 DEF Balanced
<1> QED BY <1>1, <1>5, <1>6, <1>7, OneStruct

\* A moved child frees its own data and nothing else.
LEMMA StepReleaseMoved ==
  ASSUME ArrowInv, NEW s \in DOMAIN out, NEW c \in 1 .. Columns, ReleaseMoved(s, c)
  PROVE  ArrowInv'
<1>1. CASE Moved(s, c) \notin held
  BY <1>1, ArrowStutters DEF ReleaseMoved, ArrowInv, ArrowTypes
<1>2. CASE Moved(s, c) \in held
  <2>1. /\ frees' = [frees EXCEPT ![ChildData(s, c)] = @ + 1]
        /\ out' = [out EXCEPT ![s].children[c] = "gone"]
        /\ held' = held \ {Moved(s, c)} /\ UNCHANGED stream
    BY <1>2 DEF ReleaseMoved
  <2>2. out \in Seq(Structs) /\ out[s] \in Structs /\ DOMAIN out = 1 .. Len(out) /\ Balanced(s)
    BY DEF ArrowInv, ArrowTypes, Counted, Balanced
  <2> DEFINE new == [out[s] EXCEPT !.children[c] = "gone"]
  <2>3. /\ new \in Structs /\ new.children[c] = "gone"
        /\ \A d \in 1 .. Columns : d # c => new.children[d] = out[s].children[d]
    BY <2>2 DEF Structs
  <2>4. out' = [out EXCEPT ![s] = new]
    BY <2>1
  <2> HIDE DEF new
  <2>5. /\ out' \in Seq(Structs) /\ DOMAIN out' = DOMAIN out
        /\ out'[s] = new /\ \A t \in DOMAIN out : t # s => out'[t] = out[t]
    BY <2>2, <2>3, <2>4, ExceptSeq
  <2>6. /\ \A t : (Whole(t) \in held') <=> (Whole(t) \in held)
        /\ \A t, d : ~(t = s /\ d = c) => (Moved(t, d) \in held') <=> (Moved(t, d) \in held)
        /\ Moved(s, c) \notin held'
    BY <2>1, HandlesApart
  <2>7. ChildData(s, c) \in Blocks(s) /\ ChildData(s, c) \in DOMAIN frees
    BY DEF Blocks, ArrowInv, ArrowTypes
  <2>8. /\ frees[ChildData(s, c)] = 0
        /\ \A b : b # ChildData(s, c) => frees'[b] = frees[b]
        /\ DOMAIN frees' = DOMAIN frees
    <3>1. out[s].children[c] = "moved"
      BY <1>2, <2>2 DEF Balanced
    <3>2. frees[ChildData(s, c)] = 0
      BY <2>2, <3>1 DEF Balanced
    <3> QED BY <2>1, <3>2
  <2>9. frees'[ChildData(s, c)] = 1
    BY <2>1, <2>7, <2>8
  <2>10. /\ Private(s) # ChildData(s, c)
         /\ \A d : ChildBox(s, d) # ChildData(s, c) /\ (d # c => ChildData(s, d) # ChildData(s, c))
    BY BlocksApart
  <2>11. Balanced(s)'
    <3>1. ASSUME NEW d \in 1 .. Columns
          PROVE  /\ frees'[ChildBox(s, d)] = IF Whole(s) \in held' THEN 0 ELSE 1
                 /\ frees'[ChildData(s, d)] = IF out'[s].children[d] = "gone" THEN 1 ELSE 0
                 /\ out'[s].children[d] = "inside" => Whole(s) \in held'
                 /\ (out'[s].children[d] = "moved") <=> (Moved(s, d) \in held')
      <4>1. CASE d = c
        BY <2>2, <2>3, <2>5, <2>6, <2>8, <2>9, <2>10, <4>1 DEF Balanced
      <4>2. CASE d # c
        BY <2>2, <2>3, <2>5, <2>6, <2>8, <2>10, <4>2 DEF Balanced
      <4> QED BY <4>1, <4>2
    <3>2. frees'[Private(s)] = IF Whole(s) \in held' THEN 0 ELSE 1
      BY <2>2, <2>6, <2>8, <2>10 DEF Balanced
    <3> QED BY <3>1, <3>2 DEF Balanced
  <2>12. \A b \in DOMAIN frees : b \notin Blocks(s) => frees'[b] = frees[b]
    BY <2>7, <2>8
  <2> QED BY <2>1, <2>5, <2>6, <2>8, <2>11, <2>12, OneStruct
<1> QED BY <1>1, <1>2

\* Releasing a whole struct frees what is still inside it, and all its boxes.
LEMMA StepRelease ==
  ASSUME ArrowInv, NEW s \in DOMAIN out, Release(s)
  PROVE  ArrowInv'
<1>1. CASE Whole(s) \notin held
  BY <1>1, ArrowStutters DEF Release, ArrowInv, ArrowTypes
<1>2. CASE Whole(s) \in held
  <2> DEFINE inside == {c \in 1 .. Columns : out[s].children[c] = "inside"}
             given == {Private(s)} \cup {ChildBox(s, c) : c \in 1 .. Columns}
                                   \cup {ChildData(s, c) : c \in inside}
             new == [out[s] EXCEPT !.children =
                       [c \in 1 .. Columns |-> IF c \in inside THEN "gone" ELSE @[c]]]
  <2>1. /\ frees' = [b \in DOMAIN frees |-> frees[b] + IF b \in given THEN 1 ELSE 0]
        /\ out' = [out EXCEPT ![s] = new]
        /\ held' = held \ {Whole(s)} /\ UNCHANGED stream
    BY <1>2 DEF Release
  <2>2. out \in Seq(Structs) /\ out[s] \in Structs /\ DOMAIN out = 1 .. Len(out) /\ Balanced(s)
    BY DEF ArrowInv, ArrowTypes, Counted, Balanced
  <2>3. /\ new \in Structs
        /\ \A c \in 1 .. Columns : new.children[c] =
              IF out[s].children[c] = "inside" THEN "gone" ELSE out[s].children[c]
    BY <2>2 DEF Structs
  <2>4. /\ Private(s) \in given /\ given \subseteq Blocks(s)
        /\ \A c \in 1 .. Columns : ChildBox(s, c) \in given
    BY DEF Blocks
  <2>5. \A c \in 1 .. Columns : (ChildData(s, c) \in given) <=> (out[s].children[c] = "inside")
    BY BlocksApart
  <2> HIDE DEF new, given
  <2>6. /\ out' \in Seq(Structs) /\ DOMAIN out' = DOMAIN out
        /\ out'[s] = new /\ \A t \in DOMAIN out : t # s => out'[t] = out[t]
    BY <2>1, <2>2, <2>3, ExceptSeq
  <2>7. /\ \A t : t # s => (Whole(t) \in held') <=> (Whole(t) \in held)
        /\ \A t, d : (Moved(t, d) \in held') <=> (Moved(t, d) \in held)
        /\ Whole(s) \notin held'
    BY <2>1, HandlesApart
  <2>8. Blocks(s) \subseteq DOMAIN frees
    BY DEF ArrowInv, ArrowTypes
  <2>9. /\ DOMAIN frees' = DOMAIN frees
        /\ \A b \in DOMAIN frees : b \in given => frees'[b] = frees[b] + 1
        /\ \A b \in DOMAIN frees : b \notin given /\ frees[b] \in {0, 1} => frees'[b] = frees[b]
    BY <2>1
  <2>10. /\ Private(s) \in DOMAIN frees
         /\ \A c \in 1 .. Columns : ChildBox(s, c) \in DOMAIN frees /\ ChildData(s, c) \in DOMAIN frees
    BY <2>8 DEF Blocks
  <2>11. Balanced(s)'
    <3>1. ASSUME NEW d \in 1 .. Columns
          PROVE  /\ frees'[ChildBox(s, d)] = IF Whole(s) \in held' THEN 0 ELSE 1
                 /\ frees'[ChildData(s, d)] = IF out'[s].children[d] = "gone" THEN 1 ELSE 0
                 /\ out'[s].children[d] = "inside" => Whole(s) \in held'
                 /\ (out'[s].children[d] = "moved") <=> (Moved(s, d) \in held')
      <4>1. out'[s].children[d] =
              IF out[s].children[d] = "inside" THEN "gone" ELSE out[s].children[d]
        BY <2>3, <2>6
      <4>2. frees'[ChildBox(s, d)] = 1
        BY <1>2, <2>2, <2>4, <2>9, <2>10 DEF Balanced
      <4>3. frees'[ChildData(s, d)] = IF out'[s].children[d] = "gone" THEN 1 ELSE 0
        <5>1. CASE out[s].children[d] = "inside"
          BY <2>2, <2>5, <2>9, <2>10, <4>1, <5>1 DEF Balanced
        <5>2. CASE out[s].children[d] # "inside"
          BY <2>2, <2>5, <2>9, <2>10, <4>1, <5>2 DEF Balanced
        <5> QED BY <5>1, <5>2
      <4>4. (out'[s].children[d] = "moved") <=> (Moved(s, d) \in held')
        BY <2>2, <2>7, <4>1 DEF Balanced
      <4> QED BY <2>7, <4>1, <4>2, <4>3, <4>4
    <3>2. frees'[Private(s)] = 1
      BY <1>2, <2>2, <2>4, <2>9, <2>10 DEF Balanced
    <3> QED BY <2>7, <3>1, <3>2 DEF Balanced
  <2>12. ASSUME NEW b \in DOMAIN frees, b \notin Blocks(s) PROVE frees'[b] = frees[b]
    BY <2>4, <2>9, <2>12, CountsAreBits
  <2> QED BY <2>1, <2>6, <2>7, <2>9, <2>11, <2>12, OneStruct
<1> QED BY <1>1, <1>2

\* Every step of producer and consumer keeps the accounts.
LEMMA NextArrow == ASSUME ArrowAssumption, ArrowInv, [ArrowNext]_arrowVars PROVE ArrowInv'
<1>1. CASE UNCHANGED arrowVars
  BY <1>1, ArrowStutters DEF arrowVars, ArrowInv, ArrowTypes
<1>2. CASE GetNextEnd
  BY <1>2, ArrowStutters DEF GetNextEnd, arrowVars, ArrowInv, ArrowTypes
<1>3. CASE GetNextFails
  BY <1>3, ArrowStutters DEF GetNextFails
<1> QED BY <1>1, <1>2, <1>3, StepHandOut, StepReleaseStream, StepRelease, StepMoveChild,
           StepReleaseMoved DEF ArrowNext

\* However the consumer orders its releases, repeats them and moves children out,
\* no block is freed twice, none is freed while someone may read it, and once
\* everything is released every block is freed (columnar/arrow_c.rs).
THEOREM ArrowOwnership == ASSUME ArrowAssumption PROVE ArrowSpec => []OwnershipExact
<1>1. ArrowInit => ArrowInv
  BY InitArrow
<1>2. ArrowInv /\ [ArrowNext]_arrowVars => ArrowInv'
  BY NextArrow
<1>3. ArrowInv => OwnershipExact
  BY InvOwnership
<1> QED BY <1>1, <1>2, <1>3, PTL DEF ArrowSpec

-----------------------------------------------------------------------------
(* The boxed states of the merge aggregates.                                *)

\* The rows merged into the box of a slot.
RowsOf(o, g) == IF slot[o][g] = Null THEN {} ELSE DOMAIN box[slot[o][g]]

\* The partial states of a group.
StatesOf(g) == {row \in input : row.group = g /\ row.kind = "state"}

\* Bags of rows, each row at most once.
RowBags == {SetToBag(rows) : rows \in SUBSET input}

\* The types of the aggregate's variables.
MergeTypes ==
    /\ input \in Inputs /\ pending \subseteq input
    /\ box \in Seq(RowBags)
    /\ slot \in [Owners -> [Groups -> 1 .. Len(box) \cup {Null}]]
    /\ array \in [Owners -> {"live", "combined", "destroyed"}]
    /\ DOMAIN dropped \subseteq 1 .. Len(box) /\ \A b \in DOMAIN dropped : dropped[b] = 1

\* A box is in one slot or freed, and the slots of an array that is over are empty.
BoxOwned ==
    /\ \A o, p \in Owners, g, h \in Groups :
          slot[o][g] # Null /\ slot[o][g] = slot[p][h] => o = p /\ g = h
    /\ \A o \in Owners, g \in Groups : slot[o][g] \notin DOMAIN dropped
    /\ \A b \in 1 .. Len(box) : b \in DOMAIN dropped \/ \E o \in Owners, g \in Groups : slot[o][g] = b
    /\ \A o \in Owners, g \in Groups : array[o] # "live" => slot[o][g] = Null

\* A row of a group is pending, or in one box of that group.
RowsShared ==
    /\ \A o \in Owners, g \in Groups :
          /\ RowsOf(o, g) \subseteq StatesOf(g) /\ RowsOf(o, g) \cap pending = {}
          /\ slot[o][g] # Null => RowsOf(o, g) # {}
    /\ \A o, p \in Owners, g \in Groups : o # p => RowsOf(o, g) \cap RowsOf(p, g) = {}

\* None is lost before the result.
RowsKept ==
    ~failed /\ result = Null =>
        \A g \in Groups : \A row \in StatesOf(g) :
            row \in pending \/ \E o \in Owners : row \in RowsOf(o, g)

\* Someone is left to take a pending row.
SomeoneLeft == ~failed /\ pending # {} => \E t \in Updaters : array[t] = "live"

\* The result is the merge of the states of each group.
ResultRight ==
    result # Null => \A g \in Groups :
        result[g] = IF StatesOf(g) = {} THEN Null ELSE SetToBag(StatesOf(g))

\* The inductive invariant.
MergeInv ==
    MergeTypes /\ BoxOwned /\ RowsShared /\ RowsKept /\ SomeoneLeft /\ ResultRight

-----------------------------------------------------------------------------
\* The bag of a set has the set's elements, once each.
LEMMA BagOfSet ==
  ASSUME NEW S
  PROVE  DOMAIN SetToBag(S) = S /\ \A e \in S : SetToBag(S)[e] = 1
BY DEF SetToBag

\* Bags of disjoint sets add up to the bag of the union.
LEMMA BagsJoin ==
  ASSUME NEW S, NEW T, S \cap T = {}
  PROVE  SetToBag(S) (+) SetToBag(T) = SetToBag(S \cup T)
BY DEF SetToBag, (+)

\* Freeing what was not freed yet.
LEMMA FreedOnce ==
  ASSUME NEW boxes, \A b \in DOMAIN dropped : dropped[b] = 1,
         boxes \cap DOMAIN dropped = {}, Drop(boxes)
  PROVE  /\ DOMAIN dropped' = DOMAIN dropped \cup boxes
         /\ \A b \in DOMAIN dropped' : dropped'[b] = 1
BY DEF Drop, SetToBag, (+)

\* A box is the bag of its rows.
LEMMA BoxIsBag ==
  ASSUME MergeTypes, NEW b \in 1 .. Len(box)
  PROVE  box[b] = SetToBag(DOMAIN box[b]) /\ DOMAIN box[b] \subseteq input
<1>1. box[b] \in RowBags
  BY ElementOfSeq DEF MergeTypes
<1>2. PICK rows \in SUBSET input : box[b] = SetToBag(rows)
  BY <1>1 DEF RowBags
<1> QED BY <1>2, BagOfSet

\* A slot that is set points to a box.
LEMMA SlotPoints ==
  ASSUME MergeAssumption, MergeTypes, NEW o \in Owners, NEW g \in Groups, slot[o][g] # Null
  PROVE  slot[o][g] \in 1 .. Len(box) /\ RowsOf(o, g) = DOMAIN box[slot[o][g]]
BY DEF MergeTypes, RowsOf

\* Before the first row there is no box.
LEMMA InitMerge == ASSUME MergeAssumption, MergeInit PROVE MergeInv
<1>1. /\ \A o \in Owners, g \in Groups : slot[o][g] = Null
      /\ box = <<>> /\ Len(box) = 0 /\ DOMAIN dropped = {} /\ pending = input /\ result = Null
      /\ input \in Inputs /\ \A o \in Owners : array[o] = "live"
  BY DEF MergeInit, EmptyBag, SetToBag
<1>2. MergeTypes
  <2>1. slot \in [Owners -> [Groups -> 1 .. Len(box) \cup {Null}]]
    BY DEF MergeInit
  <2>2. array \in [Owners -> {"live", "combined", "destroyed"}]
    BY DEF MergeInit
  <2> QED BY <1>1, <2>1, <2>2 DEF MergeTypes
<1>3. BoxOwned
  BY <1>1 DEF BoxOwned
<1>4. \A o \in Owners, g \in Groups : RowsOf(o, g) = {}
  BY <1>1 DEF RowsOf
<1>5. RowsShared
  BY <1>1, <1>4 DEF RowsShared
<1>6. RowsKept
  BY <1>1 DEF RowsKept, StatesOf
<1>7. SomeoneLeft
  BY <1>1 DEF SomeoneLeft, MergeAssumption, Owners
<1>8. ResultRight
  BY <1>1 DEF ResultRight
<1> QED BY <1>2, <1>3, <1>5, <1>6, <1>7, <1>8 DEF MergeInv

\* The invariant says of boxes and results what the property says.
LEMMA InvMerge == ASSUME MergeAssumption, MergeInv PROVE MergeExact
<1>1. result # Null => \A g \in Groups :
        LET states == {row \in input : row.group = g /\ row.kind = "state"}
        IN  result[g] = IF states = {} THEN Null ELSE SetToBag(states)
  BY DEF MergeInv, ResultRight, StatesOf
<1>2. \A s \in Held : /\ s[1] \in Owners /\ s[2] \in Groups /\ s = <<s[1], s[2]>>
                      /\ slot[s[1]][s[2]] # Null
  BY DEF Held
<1>3. \A s \in Held : \A r \in Held \ {s} : slot[s[1]][s[2]] # slot[r[1]][r[2]]
  BY <1>2 DEF MergeInv, BoxOwned
<1>4. \A s \in Held : ~BagIn(slot[s[1]][s[2]], dropped)
  BY <1>2 DEF MergeInv, BoxOwned, BagIn, BagToSet
<1>5. \A b \in BagToSet(dropped) : dropped[b] = 1
  BY DEF MergeInv, MergeTypes, BagToSet
<1>6. ASSUME \A o \in Owners : array[o] = "destroyed" PROVE BagToSet(dropped) = DOMAIN box
  <2>1. \A o \in Owners, g \in Groups : slot[o][g] = Null
    BY <1>6 DEF MergeInv, BoxOwned
  <2>2. \A b \in 1 .. Len(box) : b # Null
    BY DEF MergeInv, MergeTypes, MergeAssumption
  <2>3. \A b \in 1 .. Len(box) : b \in DOMAIN dropped
    BY <2>1, <2>2 DEF MergeInv, BoxOwned
  <2>4. DOMAIN box = 1 .. Len(box) /\ DOMAIN dropped \subseteq 1 .. Len(box)
    BY DEF MergeInv, MergeTypes
  <2> QED BY <2>3, <2>4 DEF BagToSet
<1> QED BY <1>1, <1>3, <1>4, <1>5, <1>6 DEF MergeExact

-----------------------------------------------------------------------------
(* The steps.                                                               *)

\* Rows and states do not change with the slots, the boxes and the input.
LEMMA RowsKeep ==
  ASSUME UNCHANGED <<input, slot, box>>
  PROVE  /\ \A o, g : RowsOf(o, g)' = RowsOf(o, g)
         /\ \A g : StatesOf(g)' = StatesOf(g)
BY DEF RowsOf, StatesOf

\* Bytes that do not decode: only the flag changes.
LEMMA StepUpdateFails ==
  ASSUME MergeInv, NEW t \in Updaters, NEW row, UpdateFails(t, row)
  PROVE  MergeInv'
<1>1. UNCHANGED <<input, pending, slot, box, dropped, array, result>> /\ failed' = TRUE
  BY DEF UpdateFails
<1>2. MergeTypes' /\ BoxOwned'
  BY <1>1 DEF MergeInv, MergeTypes, BoxOwned, RowBags
<1>3. RowsShared'
  BY <1>1, RowsKeep DEF MergeInv, RowsShared
<1>4. RowsKept' /\ SomeoneLeft'
  BY <1>1 DEF RowsKept, SomeoneLeft
<1>5. ResultRight'
  BY <1>1, RowsKeep DEF MergeInv, ResultRight
<1> QED BY <1>2, <1>3, <1>4, <1>5 DEF MergeInv

\* state_finalize: every array but the final one is empty, so its boxes hold all.
LEMMA StepFinalize ==
  ASSUME MergeAssumption, MergeInv, Finalize
  PROVE  MergeInv'
<1>1. /\ UNCHANGED <<input, pending, slot, box, dropped, array, failed>> /\ ~failed /\ result = Null
      /\ \A t \in Updaters : array[t] # "live"
      /\ result' = [g \in Groups |-> IF slot[Final][g] = Null THEN Null ELSE box[slot[Final][g]]]
  BY DEF Finalize
<1>2. MergeTypes' /\ BoxOwned'
  BY <1>1 DEF MergeInv, MergeTypes, BoxOwned, RowBags
<1>3. RowsShared'
  BY <1>1, RowsKeep DEF MergeInv, RowsShared
<1>4. SomeoneLeft'
  BY <1>1 DEF MergeInv, SomeoneLeft
<1>5. RowsKept'
  BY <1>1, RowsKeep DEF MergeInv, RowsKept
<1>6. pending = {}
  BY <1>1 DEF MergeInv, SomeoneLeft
<1>7. ASSUME NEW g \in Groups
      PROVE  result'[g] = IF StatesOf(g) = {} THEN Null ELSE SetToBag(StatesOf(g))
  <2>1. \A t \in Updaters : RowsOf(t, g) = {}
    BY <1>1 DEF MergeInv, BoxOwned, RowsOf, Owners
  <2>2. StatesOf(g) \subseteq RowsOf(Final, g)
    BY <1>1, <1>6, <2>1 DEF MergeInv, RowsKept, Owners
  <2>3. /\ RowsOf(Final, g) \subseteq StatesOf(g)
        /\ slot[Final][g] # Null => RowsOf(Final, g) # {}
    BY DEF MergeInv, RowsShared, Owners
  <2>4. StatesOf(g) = RowsOf(Final, g)
    BY <2>2, <2>3
  <2>5. CASE slot[Final][g] = Null
    BY <1>1, <2>4, <2>5 DEF RowsOf
  <2>6. CASE slot[Final][g] # Null
    <3>1. /\ slot[Final][g] \in 1 .. Len(box) /\ RowsOf(Final, g) = DOMAIN box[slot[Final][g]]
      BY <2>6, SlotPoints DEF MergeInv, Owners
    <3>2. box[slot[Final][g]] = SetToBag(RowsOf(Final, g))
      BY <3>1, BoxIsBag DEF MergeInv
    <3> QED BY <1>1, <2>3, <2>4, <2>6, <3>2
  <2> QED BY <2>5, <2>6
<1>8. ResultRight'
  BY <1>1, <1>7, RowsKeep DEF ResultRight
<1> QED BY <1>2, <1>3, <1>4, <1>5, <1>8 DEF MergeInv

\* state_destroy frees what the slots still hold, and empties them.
LEMMA StepDestroy ==
  ASSUME MergeAssumption, MergeInv, NEW o \in Owners, Destroy(o)
  PROVE  MergeInv'
<1> DEFINE given == {slot[o][g] : g \in Groups} \ {Null}
<1>1. /\ UNCHANGED <<input, pending, box, result, failed>> /\ Drop(given)
      /\ slot' = [slot EXCEPT ![o] = [g \in Groups |-> Null]]
      /\ array' = [array EXCEPT ![o] = "destroyed"]
      /\ array[o] # "destroyed"
      /\ failed \/ array[o] = "combined" \/ (o = Final /\ result # Null)
  BY DEF Destroy
<1>2. /\ \A g \in Groups : slot'[o][g] = Null
      /\ \A p \in Owners, g \in Groups : p # o => slot'[p][g] = slot[p][g]
      /\ \A p \in Owners, g \in Groups : slot'[p][g] \in {Null, slot[p][g]}
      /\ slot' \in [Owners -> [Groups -> 1 .. Len(box) \cup {Null}]]
      /\ array' \in [Owners -> {"live", "combined", "destroyed"}]
      /\ array'[o] = "destroyed" /\ \A p \in Owners : p # o => array'[p] = array[p]
  BY <1>1 DEF MergeInv, MergeTypes
<1>3. /\ given \cap DOMAIN dropped = {}
      /\ given \subseteq 1 .. Len(box)
      /\ \A p \in Owners, g \in Groups : p # o => slot[p][g] \notin given
      /\ \A b \in DOMAIN dropped : dropped[b] = 1
      /\ DOMAIN dropped \subseteq 1 .. Len(box)
      /\ Null \notin given
  BY DEF MergeInv, MergeTypes, BoxOwned
<1>4. \A g \in Groups : slot[o][g] = Null \/ slot[o][g] \in given
  OBVIOUS
<1> HIDE DEF given
<1>5. DOMAIN dropped' = DOMAIN dropped \cup given /\ \A b \in DOMAIN dropped' : dropped'[b] = 1
  BY <1>1, <1>3, FreedOnce
<1>6. MergeTypes'
  BY <1>1, <1>2, <1>3, <1>5 DEF MergeInv, MergeTypes, RowBags
<1>7. BoxOwned'
  <2>1. \A p, q \in Owners, g, h \in Groups :
          slot'[p][g] # Null /\ slot'[p][g] = slot'[q][h] => p = q /\ g = h
    BY <1>2 DEF MergeInv, BoxOwned
  <2>2. Null \notin DOMAIN dropped'
    BY <1>3, <1>5 DEF MergeAssumption, MergeInv, MergeTypes
  <2>3. \A p \in Owners, g \in Groups : slot'[p][g] \notin DOMAIN dropped'
    BY <1>2, <1>3, <1>5, <2>2 DEF MergeInv, BoxOwned
  <2>4. ASSUME NEW b \in 1 .. Len(box), b \notin DOMAIN dropped'
        PROVE  \E p \in Owners, g \in Groups : slot'[p][g] = b
    <3>1. PICK p \in Owners, g \in Groups : slot[p][g] = b
      BY <1>5, <2>4 DEF MergeInv, BoxOwned
    <3>2. b # Null
      BY DEF MergeAssumption, MergeInv, MergeTypes
    <3>3. p # o
      BY <1>4, <1>5, <2>4, <3>1, <3>2
    <3> QED BY <1>2, <3>1, <3>3
  <2>5. \A p \in Owners, g \in Groups : array'[p] # "live" => slot'[p][g] = Null
    BY <1>2 DEF MergeInv, BoxOwned
  <2> QED BY <1>1, <2>1, <2>3, <2>4, <2>5 DEF BoxOwned
<1>8. \A p \in Owners, g \in Groups :
        /\ p # o => RowsOf(p, g)' = RowsOf(p, g)
        /\ RowsOf(o, g)' = {}
  BY <1>1, <1>2 DEF RowsOf
<1>9. \A g \in Groups : StatesOf(g)' = StatesOf(g)
  BY <1>1 DEF StatesOf
<1>10. RowsShared'
  <2>1. ASSUME NEW p \in Owners, NEW g \in Groups
        PROVE  /\ RowsOf(p, g)' \subseteq StatesOf(g) /\ RowsOf(p, g)' \cap pending = {}
               /\ slot'[p][g] # Null => RowsOf(p, g)' # {}
    BY <1>2, <1>8 DEF MergeInv, RowsShared
  <2>2. ASSUME NEW p \in Owners, NEW q \in Owners, NEW g \in Groups, p # q
        PROVE  RowsOf(p, g)' \cap RowsOf(q, g)' = {}
    BY <1>8, <2>2 DEF MergeInv, RowsShared
  <2> QED BY <1>1, <1>9, <2>1, <2>2 DEF RowsShared
<1>11. RowsKept'
  <2> SUFFICES ASSUME ~failed, result = Null, NEW g \in Groups, NEW row \in StatesOf(g)
               PROVE  row \in pending \/ \E p \in Owners : row \in RowsOf(p, g)'
    BY <1>1, <1>9 DEF RowsKept
  <2>1. \A h \in Groups : RowsOf(o, h) = {}
    BY <1>1 DEF MergeInv, BoxOwned, RowsOf
  <2>2. row \in pending \/ \E p \in Owners : row \in RowsOf(p, g)
    BY DEF MergeInv, RowsKept
  <2> QED BY <1>8, <2>1, <2>2
<1>12. SomeoneLeft'
  <2> SUFFICES ASSUME ~failed, pending # {} PROVE \E t \in Updaters : array'[t] = "live"
    BY <1>1 DEF SomeoneLeft
  <2>1. PICK t \in Updaters : array[t] = "live"
    BY DEF MergeInv, SomeoneLeft
  <2>2. t # o /\ t \in Owners
    BY <1>1, <2>1 DEF Owners, MergeAssumption
  <2> QED BY <1>2, <2>1, <2>2
<1>13. ResultRight'
  BY <1>1, <1>9 DEF MergeInv, ResultRight
<1> QED BY <1>6, <1>7, <1>10, <1>11, <1>12, <1>13 DEF MergeInv

\* What is left to show once a state was taken from the pending rows into a box.
LEMMA RowTaken ==
  ASSUME MergeAssumption, MergeInv, NEW t \in Updaters, NEW row \in pending,
         row.kind = "state", array[t] = "live",
         pending' = pending \ {row}, UNCHANGED <<input, dropped, array, result, failed>>,
         MergeTypes', BoxOwned',
         RowsOf(t, row.group)' = RowsOf(t, row.group) \cup {row},
         \A o \in Owners, g \in Groups :
            ~(o = t /\ g = row.group) => RowsOf(o, g)' = RowsOf(o, g),
         \A o \in Owners, g \in Groups :
            slot'[o][g] # Null => slot[o][g] # Null \/ (o = t /\ g = row.group)
  PROVE  MergeInv'
<1> DEFINE G == row.group
<1>1. t \in Owners /\ row \in input /\ G \in Groups /\ row \in StatesOf(G)
  BY DEF MergeInv, MergeTypes, MergeAssumption, Owners, StatesOf
<1>2. \A g \in Groups : StatesOf(g)' = StatesOf(g)
  BY DEF StatesOf
<1>3. \A o \in Owners, g \in Groups : row \notin RowsOf(o, g)
  BY DEF MergeInv, RowsShared
<1>4. RowsShared'
  <2>1. ASSUME NEW o \in Owners, NEW g \in Groups
        PROVE  /\ RowsOf(o, g)' \subseteq StatesOf(g) /\ RowsOf(o, g)' \cap pending' = {}
               /\ slot'[o][g] # Null => RowsOf(o, g)' # {}
    <3>1. CASE o = t /\ g = G
      BY <1>1, <3>1 DEF MergeInv, RowsShared
    <3>2. CASE ~(o = t /\ g = G)
      BY <3>2 DEF MergeInv, RowsShared
    <3> QED BY <3>1, <3>2
  <2>2. ASSUME NEW o \in Owners, NEW p \in Owners, NEW g \in Groups, o # p
        PROVE  RowsOf(o, g)' \cap RowsOf(p, g)' = {}
    <3>1. RowsOf(o, g) \cap RowsOf(p, g) = {}
      BY <2>2 DEF MergeInv, RowsShared
    <3>2. CASE o = t /\ g = G
      BY <1>3, <2>2, <3>1, <3>2
    <3>3. CASE p = t /\ g = G
      BY <1>3, <2>2, <3>1, <3>3
    <3>4. CASE ~(o = t /\ g = G) /\ ~(p = t /\ g = G)
      BY <3>1, <3>4
    <3> QED BY <3>2, <3>3, <3>4
  <2> QED BY <1>2, <2>1, <2>2 DEF RowsShared
<1>5. RowsKept'
  <2> SUFFICES ASSUME ~failed, result = Null, NEW g \in Groups, NEW s \in StatesOf(g)
               PROVE  s \in pending' \/ \E o \in Owners : s \in RowsOf(o, g)'
    BY <1>2 DEF RowsKept
  <2>1. CASE s = row
    BY <1>1, <2>1 DEF StatesOf
  <2>2. CASE s # row
    <3>1. \A o \in Owners : RowsOf(o, g) \subseteq RowsOf(o, g)'
      BY <1>1
    <3> QED BY <2>2, <3>1 DEF MergeInv, RowsKept
  <2> QED BY <2>1, <2>2
<1>6. SomeoneLeft' /\ ResultRight'
  BY <1>2 DEF SomeoneLeft, MergeInv, ResultRight
<1> QED BY <1>4, <1>5, <1>6 DEF MergeInv

\* The first state of a group on a thread: a box of its own.
LEMMA StepFirst ==
  ASSUME MergeAssumption, MergeInv, NEW t \in Updaters, NEW row, UpdateRow(t, row),
         row.kind = "state", slot[t][row.group] = Null
  PROVE  MergeInv'
<1> DEFINE G == row.group
           n == Len(box) + 1
           bag == SetToBag({row})
<1>1. /\ row \in pending /\ array[t] = "live" /\ pending' = pending \ {row}
      /\ UNCHANGED <<input, dropped, array, result, failed>>
      /\ box' = Append(box, bag) /\ slot' = [slot EXCEPT ![t][G] = n]
  BY DEF UpdateRow, NewBox
<1>2. t \in Owners /\ row \in input /\ G \in Groups
  BY <1>1 DEF MergeInv, MergeTypes, MergeAssumption, Owners
<1>3. bag \in RowBags /\ DOMAIN bag = {row}
  BY <1>2, BagOfSet DEF RowBags
<1>4. box \in Seq(RowBags) /\ Len(box) \in Nat /\ n \in Nat
  BY DEF MergeInv, MergeTypes
<1> HIDE DEF bag
<1>5. /\ box' \in Seq(RowBags) /\ Len(box') = n /\ box'[n] = bag
      /\ \A b \in 1 .. Len(box) : box'[b] = box[b]
  BY <1>1, <1>3, <1>4
<1>6. n = Len(box) + 1
  OBVIOUS
<1> HIDE DEF n, G
<1>7. /\ slot'[t][G] = n
      /\ \A o \in Owners, g \in Groups : ~(o = t /\ g = G) => slot'[o][g] = slot[o][g]
      /\ \A o \in Owners, g \in Groups : slot[o][g] \in 1 .. Len(box) \cup {Null}
      /\ slot' \in [Owners -> [Groups -> 1 .. n \cup {Null}]]
  <2>1. slot \in [Owners -> [Groups -> 1 .. Len(box) \cup {Null}]]
    BY DEF MergeInv, MergeTypes
  <2>2. n \in 1 .. n /\ 1 .. Len(box) \subseteq 1 .. n
    BY <1>4, <1>6
  <2>3. slot'[t] = [slot[t] EXCEPT ![G] = n] /\ \A o \in Owners : o # t => slot'[o] = slot[o]
    BY <1>1, <1>2, <2>1
  <2>4. slot'[t] \in [Groups -> 1 .. n \cup {Null}]
    BY <1>2, <2>1, <2>2, <2>3
  <2>5. \A o \in Owners : o # t => slot'[o] \in [Groups -> 1 .. n \cup {Null}]
    BY <2>1, <2>2, <2>3
  <2>6. slot' \in [Owners -> [Groups -> 1 .. n \cup {Null}]]
    BY <1>1, <2>1, <2>4, <2>5
  <2> QED BY <1>2, <2>1, <2>3, <2>6
<1>8. MergeTypes'
  <2>1. DOMAIN dropped \subseteq 1 .. n
    BY <1>4, <1>6 DEF MergeInv, MergeTypes
  <2>2. box' \in Seq(RowBags')
    BY <1>1, <1>5 DEF RowBags
  <2> QED BY <1>1, <1>5, <1>7, <2>1, <2>2 DEF MergeInv, MergeTypes
<1>9. n \notin DOMAIN dropped /\ n # Null /\ n \notin 1 .. Len(box)
      /\ \A o \in Owners, g \in Groups : slot[o][g] # n
  BY <1>4, <1>6, <1>7 DEF MergeInv, MergeTypes, MergeAssumption
<1>10. BoxOwned'
  <2>1. \A o, p \in Owners, g, h \in Groups :
          slot'[o][g] # Null /\ slot'[o][g] = slot'[p][h] => o = p /\ g = h
    BY <1>7, <1>9 DEF MergeInv, BoxOwned
  <2>2. \A o \in Owners, g \in Groups : slot'[o][g] \notin DOMAIN dropped
    BY <1>7, <1>9 DEF MergeInv, BoxOwned
  <2>3. ASSUME NEW b \in 1 .. n
        PROVE  b \in DOMAIN dropped \/ \E o \in Owners, g \in Groups : slot'[o][g] = b
    <3>1. CASE b = n
      BY <1>2, <1>7, <3>1 DEF G
    <3>2. CASE b \in 1 .. Len(box)
      <4>1. CASE b \in DOMAIN dropped
        BY <4>1
      <4>2. CASE b \notin DOMAIN dropped
        <5>1. PICK o \in Owners, g \in Groups : slot[o][g] = b
          BY <3>2, <4>2 DEF MergeInv, BoxOwned
        <5>2. b # Null
          BY <1>4, <3>2 DEF MergeAssumption
        <5>3. ~(o = t /\ g = G)
          BY <5>1, <5>2 DEF G
        <5> QED BY <1>7, <5>1, <5>3
      <4> QED BY <4>1, <4>2
    <3> QED BY <1>4, <1>6, <3>1, <3>2
  <2>4. \A o \in Owners, g \in Groups : array[o] # "live" => slot'[o][g] = Null
    BY <1>1, <1>7 DEF MergeInv, BoxOwned
  <2> QED BY <1>1, <1>5, <2>1, <2>2, <2>3, <2>4 DEF BoxOwned
<1>11. RowsOf(t, G)' = RowsOf(t, G) \cup {row}
  <2>1. RowsOf(t, G) = {}
    BY DEF RowsOf, G
  <2>2. RowsOf(t, G)' = {row}
    BY <1>3, <1>5, <1>7, <1>9 DEF RowsOf
  <2> QED BY <2>1, <2>2
<1>12. ASSUME NEW o \in Owners, NEW g \in Groups, ~(o = t /\ g = G)
       PROVE  RowsOf(o, g)' = RowsOf(o, g)
  <2>1. slot'[o][g] = slot[o][g] /\ slot[o][g] \in 1 .. Len(box) \cup {Null}
    BY <1>7, <1>12
  <2> QED BY <1>5, <2>1 DEF RowsOf
<1>13. \A o \in Owners, g \in Groups :
         slot'[o][g] # Null => slot[o][g] # Null \/ (o = t /\ g = G)
  BY <1>7
<1> QED BY <1>1, <1>8, <1>10, <1>11, <1>12, <1>13, RowTaken DEF G

\* A later state is merged into the box of the group.
LEMMA StepLater ==
  ASSUME MergeAssumption, MergeInv, NEW t \in Updaters, NEW row, UpdateRow(t, row),
         row.kind = "state", slot[t][row.group] # Null
  PROVE  MergeInv'
<1> DEFINE G == row.group
           old == slot[t][G]
           bag == box[old] (+) SetToBag({row})
<1>1. /\ row \in pending /\ array[t] = "live" /\ pending' = pending \ {row}
      /\ UNCHANGED <<input, dropped, array, result, failed, slot>>
      /\ box' = [box EXCEPT ![old] = bag]
  BY DEF UpdateRow
<1>2. t \in Owners /\ row \in input /\ G \in Groups
  BY <1>1 DEF MergeInv, MergeTypes, MergeAssumption, Owners
<1>3. old \in 1 .. Len(box) /\ RowsOf(t, G) = DOMAIN box[old] /\ old # Null
  BY <1>2, SlotPoints DEF MergeInv
<1>4. row \notin DOMAIN box[old]
  BY <1>1, <1>2, <1>3 DEF MergeInv, RowsShared
<1>5. bag = SetToBag(DOMAIN box[old] \cup {row}) /\ DOMAIN box[old] \subseteq input
  <2>1. box[old] = SetToBag(DOMAIN box[old]) /\ DOMAIN box[old] \subseteq input
    BY <1>3, BoxIsBag DEF MergeInv
  <2>2. DOMAIN box[old] \cap {row} = {}
    BY <1>4
  <2>3. SetToBag(DOMAIN box[old]) (+) SetToBag({row}) = SetToBag(DOMAIN box[old] \cup {row})
    BY <2>2, BagsJoin
  <2> QED BY <2>1, <2>3
<1>6. bag \in RowBags /\ DOMAIN bag = DOMAIN box[old] \cup {row}
  BY <1>2, <1>5, BagOfSet DEF RowBags
<1> HIDE DEF bag, old, G
<1>7. /\ box' \in Seq(RowBags) /\ Len(box') = Len(box) /\ box'[old] = bag
      /\ \A b \in 1 .. Len(box) : b # old => box'[b] = box[b]
  <2>1. box \in Seq(RowBags)
    BY DEF MergeInv, MergeTypes
  <2> QED BY <1>1, <1>3, <1>6, <2>1, ExceptSeq
<1>8. MergeTypes'
  <2>1. box' \in Seq(RowBags')
    BY <1>1, <1>7 DEF RowBags
  <2> QED BY <1>1, <1>7, <2>1 DEF MergeInv, MergeTypes
<1>9. BoxOwned'
  BY <1>1, <1>7 DEF MergeInv, BoxOwned
<1>10. old = slot[t][G]
  BY DEF old
<1>11. RowsOf(t, G)' = RowsOf(t, G) \cup {row}
  BY <1>1, <1>3, <1>6, <1>7, <1>10 DEF RowsOf
<1>12. ASSUME NEW o \in Owners, NEW g \in Groups, ~(o = t /\ g = G)
       PROVE  RowsOf(o, g)' = RowsOf(o, g)
  <2>1. slot[o][g] # Null => slot[o][g] # old /\ slot[o][g] \in 1 .. Len(box)
    BY <1>2, <1>10, <1>12, SlotPoints DEF MergeInv, BoxOwned
  <2> QED BY <1>1, <1>7, <2>1 DEF RowsOf
<1> QED BY <1>1, <1>8, <1>9, <1>11, <1>12, RowTaken DEF G

\* A NULL is skipped.
LEMMA StepNull ==
  ASSUME MergeInv, NEW t \in Updaters, NEW row, UpdateRow(t, row), row.kind = "null"
  PROVE  MergeInv'
<1>1. /\ row \in pending /\ array[t] = "live" /\ pending' = pending \ {row}
      /\ UNCHANGED <<input, dropped, array, result, failed, slot, box>>
  BY DEF UpdateRow
<1>2. MergeTypes' /\ BoxOwned'
  BY <1>1 DEF MergeInv, MergeTypes, BoxOwned, RowBags
<1>3. RowsShared'
  BY <1>1, RowsKeep DEF MergeInv, RowsShared
<1>4. \A g : row \notin StatesOf(g)
  BY DEF StatesOf
<1>5. RowsKept'
  <2> SUFFICES ASSUME ~failed, result = Null, NEW g \in Groups, NEW s \in StatesOf(g)
               PROVE  s \in pending' \/ \E o \in Owners : s \in RowsOf(o, g)
    BY <1>1, RowsKeep DEF RowsKept
  <2> QED BY <1>1, <1>4 DEF MergeInv, RowsKept
<1>6. SomeoneLeft'
  BY <1>1 DEF SomeoneLeft
<1>7. ResultRight'
  BY <1>1, RowsKeep DEF MergeInv, ResultRight
<1> QED BY <1>2, <1>3, <1>5, <1>6, <1>7 DEF MergeInv

\* state_combine: a box moves to an empty slot of the final array, or its rows do.
LEMMA StepCombine ==
  ASSUME MergeAssumption, MergeInv, NEW t \in Updaters, Combine(t)
  PROVE  MergeInv'
<1> DEFINE merged == {g \in Groups : slot[t][g] # Null /\ slot[Final][g] # Null}
           given == {slot[t][g] : g \in merged}
           join(b) == box[b] (+) box[slot[t][CHOOSE g \in merged : slot[Final][g] = b]]
<1>1. /\ array[t] = "live" /\ array[Final] = "live"
      /\ UNCHANGED <<input, pending, result, failed>>
      /\ box' = [b \in DOMAIN box |-> IF \E g \in merged : slot[Final][g] = b THEN join(b) ELSE box[b]]
      /\ Drop(given)
      /\ slot' = [slot EXCEPT ![t] = [g \in Groups |-> Null],
                              ![Final] = [g \in Groups |-> IF slot[Final][g] = Null
                                                             THEN slot[t][g] ELSE slot[Final][g]]]
      /\ array' = [array EXCEPT ![t] = "combined"]
      /\ pending = {} \/ \E u \in Updaters \ {t} : array[u] = "live"
  BY DEF Combine
<1>2. /\ t \in Owners /\ Final \in Owners /\ t # Final
      /\ slot \in [Owners -> [Groups -> 1 .. Len(box) \cup {Null}]]
      /\ box \in Seq(RowBags) /\ DOMAIN box = 1 .. Len(box)
      /\ \A b \in 1 .. Len(box) : b # Null
  BY DEF MergeAssumption, Owners, MergeInv, MergeTypes
<1>3. /\ \A g \in Groups : slot'[t][g] = Null
      /\ \A g \in Groups : slot'[Final][g] = IF slot[Final][g] = Null THEN slot[t][g] ELSE slot[Final][g]
      /\ \A o \in Owners, g \in Groups : o \notin {t, Final} => slot'[o][g] = slot[o][g]
      /\ slot' \in [Owners -> [Groups -> 1 .. Len(box) \cup {Null}]]
  <2>1. /\ slot'[t] = [g \in Groups |-> Null]
        /\ slot'[Final] = [g \in Groups |-> IF slot[Final][g] = Null THEN slot[t][g] ELSE slot[Final][g]]
        /\ \A o \in Owners : o \notin {t, Final} => slot'[o] = slot[o]
        /\ DOMAIN slot' = Owners /\ slot' = [o \in Owners |-> slot'[o]]
    BY <1>1, <1>2
  <2>2. \A o \in Owners : slot[o] \in [Groups -> 1 .. Len(box) \cup {Null}]
    BY <1>2
  <2>3. slot'[t] \in [Groups -> 1 .. Len(box) \cup {Null}]
    BY <2>1
  <2>4. \A g \in Groups : slot[Final][g] \in 1 .. Len(box) \cup {Null} /\ slot[t][g] \in 1 .. Len(box) \cup {Null}
    BY <1>2
  <2>5. slot'[Final] \in [Groups -> 1 .. Len(box) \cup {Null}]
    BY <2>1, <2>4
  <2>6. \A o \in Owners : slot'[o] \in [Groups -> 1 .. Len(box) \cup {Null}]
    BY <2>1, <2>2, <2>3, <2>5
  <2>7. slot' \in [Owners -> [Groups -> 1 .. Len(box) \cup {Null}]]
    BY <2>1, <2>6
  <2> QED BY <1>2, <2>1, <2>7
<1>4. /\ array' \in [Owners -> {"live", "combined", "destroyed"}]
      /\ array'[t] = "combined" /\ \A o \in Owners : o # t => array'[o] = array[o]
  BY <1>1, <1>2 DEF MergeInv, MergeTypes
<1>5. /\ given \cap DOMAIN dropped = {} /\ given \subseteq 1 .. Len(box)
      /\ \A b \in DOMAIN dropped : dropped[b] = 1
      /\ DOMAIN dropped \subseteq 1 .. Len(box)
  BY <1>2 DEF MergeInv, MergeTypes, BoxOwned
<1>6. \A g \in Groups : slot[t][g] \in given <=> g \in merged
  BY <1>2 DEF MergeInv, BoxOwned
<1>7. \A o \in Owners, g \in Groups : o # t => slot[o][g] \notin given
  BY <1>2 DEF MergeInv, BoxOwned
\* The box of a merged group: its rows and those of the source.
<1>8. ASSUME NEW g \in merged
      PROVE  /\ box'[slot[Final][g]] \in RowBags
             /\ DOMAIN box'[slot[Final][g]] = RowsOf(Final, g) \cup RowsOf(t, g)
  <2> DEFINE f == slot[Final][g]
             s == slot[t][g]
  <2>1. /\ g \in Groups /\ f # Null /\ s # Null
        /\ f \in 1 .. Len(box) /\ RowsOf(Final, g) = DOMAIN box[f]
        /\ s \in 1 .. Len(box) /\ RowsOf(t, g) = DOMAIN box[s]
    BY <1>2, SlotPoints DEF MergeInv
  <2>2. (CHOOSE h \in merged : slot[Final][h] = f) = g
    <3>1. \A h \in merged : slot[Final][h] = f => h = g
      BY <1>2, <2>1 DEF MergeInv, BoxOwned
    <3> QED BY <3>1
  <2>3. join(f) = box[f] (+) box[s]
    BY <2>2
  <2>4. box'[f] = box[f] (+) box[s]
    BY <1>1, <1>2, <2>1, <2>3
  <2>5. /\ box[f] = SetToBag(DOMAIN box[f]) /\ box[s] = SetToBag(DOMAIN box[s])
        /\ DOMAIN box[f] \subseteq input /\ DOMAIN box[s] \subseteq input
    BY <2>1, BoxIsBag DEF MergeInv
  <2>6. DOMAIN box[f] \cap DOMAIN box[s] = {}
    BY <1>2, <2>1 DEF MergeInv, RowsShared
  <2> HIDE DEF f, s
  <2>7. box'[f] = SetToBag(DOMAIN box[f] \cup DOMAIN box[s])
    <3>1. SetToBag(DOMAIN box[f]) (+) SetToBag(DOMAIN box[s]) = SetToBag(DOMAIN box[f] \cup DOMAIN box[s])
      BY <2>6, BagsJoin
    <3> QED BY <2>4, <2>5, <3>1
  <2>8. box'[f] \in RowBags /\ DOMAIN box'[f] = DOMAIN box[f] \cup DOMAIN box[s]
    BY <2>5, <2>7, BagOfSet DEF RowBags
  <2> QED BY <2>1, <2>8 DEF f, s
<1>9. \A b \in 1 .. Len(box) : (\A g \in merged : slot[Final][g] # b) => box'[b] = box[b]
  BY <1>1, <1>2
<1>10. DOMAIN box' = 1 .. Len(box) /\ box' = [b \in 1 .. Len(box) |-> box'[b]]
  BY <1>1, <1>2
<1>11. DOMAIN dropped' = DOMAIN dropped \cup given /\ \A b \in DOMAIN dropped' : dropped'[b] = 1
  <2> HIDE DEF given
  <2> QED BY <1>1, <1>5, FreedOnce
<1>12. \A g \in Groups : g \in merged <=> slot[t][g] # Null /\ slot[Final][g] # Null
  OBVIOUS
<1> HIDE DEF merged, given, join
<1>13. box' \in Seq(RowBags) /\ Len(box') = Len(box)
  <2>1. ASSUME NEW b \in 1 .. Len(box) PROVE box'[b] \in RowBags
    <3>1. CASE \E g \in merged : slot[Final][g] = b
      BY <1>8, <3>1
    <3>2. CASE \A g \in merged : slot[Final][g] # b
      BY <1>2, <1>9, <3>2, ElementOfSeq
    <3> QED BY <3>1, <3>2
  <2>2. Len(box) \in Nat
    BY <1>2
  <2> QED BY <1>10, <2>1, <2>2
<1>14. MergeTypes'
  <2>1. box' \in Seq(RowBags')
    BY <1>1, <1>13 DEF RowBags
  <2>2. DOMAIN dropped' \subseteq 1 .. Len(box')
    BY <1>5, <1>11, <1>13
  <2> QED BY <1>1, <1>3, <1>4, <1>11, <1>13, <2>1, <2>2 DEF MergeInv, MergeTypes
<1>15. BoxOwned'
  <2>1. \A o \in Owners, g \in Groups : slot'[o][g] # Null =>
          \E p \in Owners : /\ slot'[o][g] = slot[p][g]
                            /\ p = o \/ (o = Final /\ p = t)
    BY <1>2, <1>3
  <2>2. ASSUME NEW o \in Owners, NEW p \in Owners, NEW g \in Groups, NEW h \in Groups,
               slot'[o][g] # Null, slot'[o][g] = slot'[p][h]
        PROVE  o = p /\ g = h
    <3>1. PICK a \in Owners : slot'[o][g] = slot[a][g] /\ (a = o \/ (o = Final /\ a = t))
      BY <2>1, <2>2
    <3>2. PICK b \in Owners : slot'[p][h] = slot[b][h] /\ (b = p \/ (p = Final /\ b = t))
      BY <2>1, <2>2
    <3>3. a = b /\ g = h
      <4>1. slot[a][g] # Null /\ slot[a][g] = slot[b][h]
        BY <2>2, <3>1, <3>2
      <4> QED BY <4>1 DEF MergeInv, BoxOwned
    <3>4. o # t /\ p # t
      BY <1>3, <2>2
    <3> QED BY <1>2, <3>1, <3>2, <3>3, <3>4
  <2>3. ASSUME NEW o \in Owners, NEW g \in Groups PROVE slot'[o][g] \notin DOMAIN dropped'
    <3>1. CASE slot'[o][g] = Null
      BY <1>2, <1>5, <1>11, <3>1
    <3>2. CASE slot'[o][g] # Null
      <4>1. o # t
        BY <1>3, <3>2
      <4>2. CASE slot'[o][g] = slot[o][g]
        BY <1>7, <1>11, <4>1, <4>2 DEF MergeInv, BoxOwned
      <4>3. CASE o = Final /\ slot[Final][g] = Null /\ slot'[o][g] = slot[t][g]
        BY <1>2, <1>6, <1>11, <1>12, <4>3 DEF MergeInv, BoxOwned
      <4> QED BY <1>2, <1>3, <4>1, <4>2, <4>3
    <3> QED BY <3>1, <3>2
  <2>4. ASSUME NEW b \in 1 .. Len(box), b \notin DOMAIN dropped'
        PROVE  \E o \in Owners, g \in Groups : slot'[o][g] = b
    <3>1. PICK o \in Owners, g \in Groups : slot[o][g] = b
      BY <1>11, <2>4 DEF MergeInv, BoxOwned
    <3>2. b # Null
      BY <1>2
    <3>3. CASE o = t
      <4>1. slot[Final][g] = Null
        BY <1>6, <1>11, <1>12, <2>4, <3>1, <3>2, <3>3
      <4>2. slot'[Final][g] = b
        BY <1>3, <3>1, <3>3, <4>1
      <4> QED BY <1>2, <4>2
    <3>4. CASE o = Final
      <4>1. slot'[Final][g] = b
        BY <1>3, <3>1, <3>2, <3>4
      <4> QED BY <1>2, <4>1
    <3>5. CASE o \notin {t, Final}
      BY <1>3, <3>1, <3>5
    <3> QED BY <3>3, <3>4, <3>5
  <2>5. ASSUME NEW o \in Owners, NEW g \in Groups, array'[o] # "live" PROVE slot'[o][g] = Null
    <3>1. CASE o = t
      BY <1>3, <3>1
    <3>2. CASE o = Final
      <4>1. array'[Final] = "live"
        BY <1>1, <1>2, <1>4
      <4> QED BY <2>5, <3>2, <4>1
    <3>3. CASE o \notin {t, Final}
      BY <1>3, <1>4, <2>5, <3>3 DEF MergeInv, BoxOwned
    <3> QED BY <3>1, <3>2, <3>3
  <2> QED BY <1>13, <2>2, <2>3, <2>4, <2>5 DEF BoxOwned
<1>16. ASSUME NEW g \in Groups
       PROVE  /\ RowsOf(t, g)' = {}
              /\ RowsOf(Final, g)' = RowsOf(Final, g) \cup RowsOf(t, g)
              /\ \A o \in Owners : o \notin {t, Final} => RowsOf(o, g)' = RowsOf(o, g)
  <2>1. RowsOf(t, g)' = {}
    BY <1>3 DEF RowsOf
  <2>2. ASSUME NEW o \in Owners, NEW b \in 1 .. Len(box), slot[o][g] = b, o # Final \/ g \notin merged
        PROVE  box'[b] = box[b]
    <3>1. \A h \in merged : slot[Final][h] # b
      BY <1>2, <1>12, <2>2 DEF MergeInv, BoxOwned, merged
    <3> QED BY <1>9, <3>1
  <2>3. ASSUME NEW o \in Owners, o \notin {t, Final} PROVE RowsOf(o, g)' = RowsOf(o, g)
    <3>1. slot'[o][g] = slot[o][g]
      BY <1>3, <2>3
    <3>2. slot[o][g] # Null => slot[o][g] \in 1 .. Len(box)
      BY SlotPoints DEF MergeInv
    <3> QED BY <2>2, <2>3, <3>1, <3>2 DEF RowsOf
  <2>4. RowsOf(Final, g)' = RowsOf(Final, g) \cup RowsOf(t, g)
    <3>1. CASE g \in merged
      <4>1. slot'[Final][g] = slot[Final][g] /\ slot[Final][g] # Null
        BY <1>3, <1>12, <3>1
      <4> QED BY <1>8, <3>1, <4>1 DEF RowsOf
    <3>2. CASE g \notin merged /\ slot[Final][g] = Null
      <4>1. slot'[Final][g] = slot[t][g] /\ RowsOf(Final, g) = {}
        BY <1>3, <3>2 DEF RowsOf
      <4>2. slot[t][g] # Null => slot[t][g] \in 1 .. Len(box)
        BY <1>2, SlotPoints DEF MergeInv
      <4>3. slot[t][g] # Null => box'[slot[t][g]] = box[slot[t][g]]
        BY <1>2, <2>2, <4>2
      <4> QED BY <4>1, <4>3 DEF RowsOf
    <3>3. CASE g \notin merged /\ slot[Final][g] # Null
      <4>1. slot'[Final][g] = slot[Final][g] /\ slot[t][g] = Null
        BY <1>3, <1>12, <3>3
      <4>2. slot[Final][g] \in 1 .. Len(box)
        BY <1>2, <3>3, SlotPoints DEF MergeInv
      <4>3. box'[slot[Final][g]] = box[slot[Final][g]]
        BY <1>2, <2>2, <3>3, <4>2
      <4> QED BY <4>1, <4>3 DEF RowsOf
    <3> QED BY <3>1, <3>2, <3>3
  <2> QED BY <2>1, <2>3, <2>4
<1>17. \A g \in Groups : StatesOf(g)' = StatesOf(g)
  BY <1>1 DEF StatesOf
<1>18. RowsShared'
  <2>1. ASSUME NEW o \in Owners, NEW g \in Groups
        PROVE  /\ RowsOf(o, g)' \subseteq StatesOf(g) /\ RowsOf(o, g)' \cap pending = {}
               /\ slot'[o][g] # Null => RowsOf(o, g)' # {}
    <3>1. /\ RowsOf(t, g) \subseteq StatesOf(g) /\ RowsOf(t, g) \cap pending = {}
          /\ slot[t][g] # Null => RowsOf(t, g) # {}
          /\ RowsOf(o, g) \subseteq StatesOf(g) /\ RowsOf(o, g) \cap pending = {}
          /\ slot[o][g] # Null => RowsOf(o, g) # {}
      BY <1>2 DEF MergeInv, RowsShared
    <3>2. CASE o = t
      BY <1>3, <1>16, <3>2
    <3>3. CASE o = Final
      BY <1>3, <1>16, <3>1, <3>3
    <3>4. CASE o \notin {t, Final}
      BY <1>3, <1>16, <3>1, <3>4
    <3> QED BY <3>2, <3>3, <3>4
  <2>2. ASSUME NEW o \in Owners, NEW p \in Owners, NEW g \in Groups, o # p
        PROVE  RowsOf(o, g)' \cap RowsOf(p, g)' = {}
    <3>1. \A a, b \in Owners : a # b => RowsOf(a, g) \cap RowsOf(b, g) = {}
      BY DEF MergeInv, RowsShared
    <3>2. CASE o = t \/ p = t
      BY <1>16, <3>2
    <3>3. CASE o = Final /\ p # t
      BY <1>2, <1>16, <2>2, <3>1, <3>3
    <3>4. CASE p = Final /\ o # t
      BY <1>2, <1>16, <2>2, <3>1, <3>4
    <3>5. CASE o \notin {t, Final} /\ p \notin {t, Final}
      BY <1>16, <2>2, <3>1, <3>5
    <3> QED BY <3>2, <3>3, <3>4, <3>5
  <2>3. pending' = pending
    BY <1>1
  <2>4. ASSUME NEW o \in Owners, NEW g \in Groups
        PROVE  /\ RowsOf(o, g)' \subseteq StatesOf(g)' /\ RowsOf(o, g)' \cap pending' = {}
               /\ slot'[o][g] # Null => RowsOf(o, g)' # {}
    BY <1>17, <2>1, <2>3
  <2> QED BY <2>2, <2>4 DEF RowsShared
<1>19. RowsKept'
  <2> SUFFICES ASSUME ~failed, result = Null, NEW g \in Groups, NEW row \in StatesOf(g)
               PROVE  row \in pending \/ \E o \in Owners : row \in RowsOf(o, g)'
    BY <1>1, <1>17 DEF RowsKept
  <2>1. ASSUME NEW o \in Owners, row \in RowsOf(o, g)
        PROVE  row \in RowsOf(Final, g)' \/ row \in RowsOf(o, g)'
    BY <1>16, <2>1
  <2> QED BY <1>2, <2>1 DEF MergeInv, RowsKept
<1>20. SomeoneLeft'
  <2>1. ASSUME NEW u \in Updaters \ {t}, array[u] = "live" PROVE array'[u] = "live"
    BY <1>4, <2>1 DEF Owners
  <2> QED BY <1>1, <2>1 DEF SomeoneLeft
<1>21. ResultRight'
  BY <1>1, <1>17 DEF MergeInv, ResultRight
<1> QED BY <1>14, <1>15, <1>18, <1>19, <1>20, <1>21 DEF MergeInv

\* Every callback keeps the invariant.
LEMMA NextMerge ==
  ASSUME MergeAssumption, MergeInv, [MergeNext]_mergeVars
  PROVE  MergeInv'
<1>1. CASE UNCHANGED mergeVars
  <2>1. UNCHANGED <<input, pending, slot, box, dropped, array, result, failed>>
    BY <1>1 DEF mergeVars
  <2>2. MergeTypes' /\ BoxOwned'
    BY <2>1 DEF MergeInv, MergeTypes, BoxOwned, RowBags
  <2>3. RowsShared' /\ RowsKept' /\ ResultRight'
    BY <2>1, RowsKeep DEF MergeInv, RowsShared, RowsKept, ResultRight
  <2>4. SomeoneLeft'
    BY <2>1 DEF MergeInv, SomeoneLeft
  <2> QED BY <2>2, <2>3, <2>4 DEF MergeInv
<1>2. ASSUME NEW t \in Updaters, NEW row \in input, UpdateRow(t, row) PROVE MergeInv'
  <2>1. row.kind \in {"null", "state"}
    BY <1>2 DEF UpdateRow, MergeAssumption, MergeInv, MergeTypes
  <2> QED BY <1>2, <2>1, StepNull, StepFirst, StepLater
<1> QED BY <1>1, <1>2, StepUpdateFails, StepCombine, StepFinalize, StepDestroy DEF MergeNext

\* For every partial_state column, set of groups and number of threads: whichever
\* threads meet the rows and in whatever order their states are combined, the result
\* is the merge of each group's states, and every box is freed once
\* (state_update, state_combine, state_finalize, state_destroy).
THEOREM MergesExact == ASSUME MergeAssumption PROVE MergeSpec => []MergeExact
<1>1. MergeInit => MergeInv
  BY InitMerge
<1>2. MergeInv /\ [MergeNext]_mergeVars => MergeInv'
  BY NextMerge
<1>3. MergeInv => MergeExact
  BY InvMerge
<1> QED BY <1>1, <1>2, <1>3, PTL DEF MergeSpec

=============================================================================
