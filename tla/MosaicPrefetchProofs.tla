------------------------- MODULE MosaicPrefetchProofs -------------------------
(***************************************************************************)
(* Proofs about MosaicPrefetch for any number of workers, jobs and slots,  *)
(* and about the byte accounts of ShardedResolutionMap, whose sums are the  *)
(* same as those of the decode budget.                                      *)
(***************************************************************************)
EXTENDS MosaicPrefetch, ShardedResolutionMap, FiniteSetTheorems, SequenceTheorems, WellFoundedInduction, TLAPS

-----------------------------------------------------------------------------
(* Sums of capacities.  ByteSum counts one element per byte, so a sum is    *)
(* split, moved to other owners or changed in one place by set algebra.     *)

\* Every owner has a number of bytes.
Capacities(caps) == IsFiniteSet(DOMAIN caps) /\ \A o \in DOMAIN caps : caps[o] \in Nat

\* A byte is an owner and a number up to the owner's capacity.
LEMMA BytesMember ==
  ASSUME NEW caps
  PROVE  \A b : b \in Bytes(caps) <=> \E o \in DOMAIN caps : b \in {o} \X (1 .. caps[o])
BY Zenon DEF Bytes

\* One owner of n bytes.
LEMMA SumOfOne ==
  ASSUME NEW o, NEW n \in Nat
  PROVE  IsFiniteSet({o} \X (1 .. n)) /\ Cardinality({o} \X (1 .. n)) = n
<1> DEFINE f == [i \in 1 .. n |-> <<o, i>>]
<1>1. f \in [1 .. n -> {o} \X (1 .. n)]
  OBVIOUS
<1>2. f \in Injection(1 .. n, {o} \X (1 .. n))
  BY <1>1 DEF Injection, IsInjective
<1>3. f \in Surjection(1 .. n, {o} \X (1 .. n))
  <2>1. ASSUME NEW b \in {o} \X (1 .. n) PROVE \E i \in 1 .. n : f[i] = b
    <3>1. b[2] \in 1 .. n /\ b = <<o, b[2]>>
      OBVIOUS
    <3> QED BY <3>1
  <2> HIDE DEF f
  <2> QED BY <1>1, <2>1 DEF Surjection
<1>4. ExistsBijection(1 .. n, {o} \X (1 .. n))
  <2> HIDE DEF f
  <2> QED BY <1>2, <1>3 DEF ExistsBijection, Bijection
<1>5. IsFiniteSet(1 .. n) /\ Cardinality(1 .. n) = n
  BY FS_Interval
<1> QED BY <1>4, <1>5, FS_Bijection

\* Finitely many owners have finitely many bytes.
LEMMA SumType ==
  ASSUME NEW caps, Capacities(caps)
  PROVE  IsFiniteSet(Bytes(caps)) /\ ByteSum(caps) \in Nat
<1> DEFINE part == [o \in DOMAIN caps |-> {o} \X (1 .. caps[o])]
           parts == {{o} \X (1 .. caps[o]) : o \in DOMAIN caps}
<1>1. part \in Surjection(DOMAIN caps, parts)
  BY DEF Surjection
<1>2. IsFiniteSet(parts)
  BY <1>1, FS_Surjection DEF Capacities
<1>3. \A p \in parts : IsFiniteSet(p)
  <2> TAKE p \in parts
  <2>1. PICK o \in DOMAIN caps : p = {o} \X (1 .. caps[o])
    OBVIOUS
  <2>2. caps[o] \in Nat
    BY DEF Capacities
  <2> QED BY <2>1, <2>2, SumOfOne
<1>4. IsFiniteSet(UNION parts)
  BY <1>2, <1>3, FS_UNION
<1> QED BY <1>4, FS_CardinalityType DEF Bytes, ByteSum

\* A sum over two disjoint sets of owners.
LEMMA SumSplit ==
  ASSUME NEW caps, Capacities(caps), NEW A, NEW B,
         DOMAIN caps = A \cup B, A \cap B = {}
  PROVE  ByteSum(caps) = ByteSum([o \in A |-> caps[o]]) + ByteSum([o \in B |-> caps[o]])
<1> DEFINE fa == [o \in A |-> caps[o]]
           fb == [o \in B |-> caps[o]]
<1>1. Capacities(fa) /\ Capacities(fb)
  <2>1. IsFiniteSet(A) /\ IsFiniteSet(B)
    BY FS_Subset DEF Capacities
  <2> QED BY <2>1 DEF Capacities
<1>2. Bytes(caps) = Bytes(fa) \cup Bytes(fb)
  <2>1. \A b : b \in Bytes(fa) <=> \E o \in A : b \in {o} \X (1 .. caps[o])
    <3>1. DOMAIN fa = A /\ \A o \in A : fa[o] = caps[o]
      OBVIOUS
    <3> HIDE DEF fa
    <3> QED BY <3>1, BytesMember
  <2>2. \A b : b \in Bytes(fb) <=> \E o \in B : b \in {o} \X (1 .. caps[o])
    <3>1. DOMAIN fb = B /\ \A o \in B : fb[o] = caps[o]
      OBVIOUS
    <3> HIDE DEF fb
    <3> QED BY <3>1, BytesMember
  <2>3. \A b : b \in Bytes(caps) <=> \E o \in A \cup B : b \in {o} \X (1 .. caps[o])
    BY BytesMember
  <2> HIDE DEF fa, fb
  <2>4. \A b : b \in Bytes(caps) <=> b \in Bytes(fa) \/ b \in Bytes(fb)
    BY <2>1, <2>2, <2>3, Zenon
  <2> QED BY <2>4
<1>3. Bytes(fa) \cap Bytes(fb) = {}
  <2> SUFFICES ASSUME NEW b, b \in Bytes(fa), b \in Bytes(fb) PROVE FALSE
    OBVIOUS
  <2>1. PICK o \in A : b \in {o} \X (1 .. fa[o])
    BY BytesMember
  <2>2. PICK q \in B : b \in {q} \X (1 .. fb[q])
    BY BytesMember
  <2>3. b[1] = o /\ b[1] = q
    BY <2>1, <2>2
  <2> QED BY <2>3
<1> HIDE DEF fa, fb
<1>4. /\ IsFiniteSet(Bytes(fa)) /\ IsFiniteSet(Bytes(fb))
      /\ ByteSum(fa) \in Nat /\ ByteSum(fb) \in Nat
  BY <1>1, SumType
<1>5. Cardinality(Bytes(fa) \cap Bytes(fb)) = 0
  BY <1>3, FS_EmptySet
<1>6. Cardinality(Bytes(fa) \cup Bytes(fb)) = Cardinality(Bytes(fa)) + Cardinality(Bytes(fb)) - 0
  BY <1>4, <1>5, FS_Union
<1> QED BY <1>2, <1>4, <1>6 DEF ByteSum, fa, fb

\* Capacities that move to other owners keep their sum.
LEMMA SumMoved ==
  ASSUME NEW f, NEW g, NEW h, Capacities(f), h \in Bijection(DOMAIN f, DOMAIN g),
         \A o \in DOMAIN f : g[h[o]] = f[o]
  PROVE  ByteSum(g) = ByteSum(f)
<1> DEFINE m == [b \in Bytes(f) |-> <<h[b[1]], b[2]>>]
<1>1. /\ h \in [DOMAIN f -> DOMAIN g]
      /\ \A o, q \in DOMAIN f : h[o] = h[q] => o = q
      /\ \A q \in DOMAIN g : \E o \in DOMAIN f : h[o] = q
  BY DEF Bijection, Injection, IsInjective, Surjection
<1>2. \A b \in Bytes(f) : b[1] \in DOMAIN f /\ b[2] \in 1 .. f[b[1]] /\ b = <<b[1], b[2]>>
  <2> TAKE b \in Bytes(f)
  <2>1. PICK o \in DOMAIN f : b \in {o} \X (1 .. f[o])
    BY BytesMember
  <2> QED BY <2>1
<1>3. \A q \in DOMAIN g : \A i \in 1 .. g[q] : <<q, i>> \in Bytes(g)
  <2> TAKE q \in DOMAIN g
  <2> TAKE i \in 1 .. g[q]
  <2>1. <<q, i>> \in {q} \X (1 .. g[q])
    OBVIOUS
  <2> QED BY <2>1, BytesMember
<1>4. m \in [Bytes(f) -> Bytes(g)]
  <2> SUFFICES ASSUME NEW b \in Bytes(f) PROVE <<h[b[1]], b[2]>> \in Bytes(g)
    OBVIOUS
  <2>1. h[b[1]] \in DOMAIN g /\ b[2] \in 1 .. g[h[b[1]]]
    BY <1>1, <1>2
  <2> QED BY <1>3, <2>1
<1>5. m \in Injection(Bytes(f), Bytes(g))
  <2> SUFFICES ASSUME NEW a \in Bytes(f), NEW b \in Bytes(f), m[a] = m[b] PROVE a = b
    BY <1>4 DEF Injection, IsInjective
  <2>1. h[a[1]] = h[b[1]] /\ a[2] = b[2]
    OBVIOUS
  <2>2. a[1] = b[1]
    BY <1>1, <1>2, <2>1
  <2> QED BY <1>2, <2>1, <2>2
<1>6. m \in Surjection(Bytes(f), Bytes(g))
  <2> SUFFICES ASSUME NEW c \in Bytes(g) PROVE \E b \in Bytes(f) : m[b] = c
    BY <1>4 DEF Surjection
  <2>1. PICK q \in DOMAIN g : c \in {q} \X (1 .. g[q])
    BY BytesMember
  <2>2. PICK o \in DOMAIN f : h[o] = q
    BY <1>1
  <2>3. c[2] \in 1 .. f[o] /\ c = <<h[o], c[2]>>
    BY <2>1, <2>2
  <2>4. <<o, c[2]>> \in {o} \X (1 .. f[o])
    BY <2>3
  <2>5. <<o, c[2]>> \in Bytes(f)
    BY <2>4, BytesMember
  <2>6. m[<<o, c[2]>>] = c
    BY <2>3, <2>5
  <2> QED BY <2>5, <2>6
<1>7. ExistsBijection(Bytes(f), Bytes(g))
  <2> HIDE DEF m
  <2> QED BY <1>5, <1>6 DEF ExistsBijection, Bijection
<1>8. IsFiniteSet(Bytes(f))
  BY SumType
<1> QED BY <1>7, <1>8, FS_Bijection DEF ByteSum

\* Changing one capacity, or adding an owner, changes the sum by as much.
LEMMA SumChange ==
  ASSUME NEW f, NEW g, NEW o, Capacities(f), Capacities(g), o \in DOMAIN g,
         DOMAIN g = DOMAIN f \cup {o}, \A q \in DOMAIN f \ {o} : g[q] = f[q]
  PROVE  /\ o \in DOMAIN f => ByteSum(g) = ByteSum(f) - f[o] + g[o]
         /\ o \notin DOMAIN f => ByteSum(g) = ByteSum(f) + g[o]
<1> DEFINE others == DOMAIN f \ {o}
           rest == [q \in others |-> f[q]]
<1>1. \A caps : Capacities(caps) /\ o \in DOMAIN caps /\ DOMAIN caps = others \cup {o}
                   /\ (\A q \in others : caps[q] = f[q])
                => ByteSum(caps) = ByteSum(rest) + caps[o]
  <2> TAKE caps
  <2> HAVE Capacities(caps) /\ o \in DOMAIN caps /\ DOMAIN caps = others \cup {o}
              /\ (\A q \in others : caps[q] = f[q])
  <2>1. ByteSum(caps) = ByteSum([q \in others |-> caps[q]]) + ByteSum([q \in {o} |-> caps[q]])
    BY SumSplit
  <2>2. [q \in others |-> caps[q]] = rest
    OBVIOUS
  <2>3. ByteSum([q \in {o} |-> caps[q]]) = caps[o]
    <3>1. caps[o] \in Nat
      BY DEF Capacities
    <3> DEFINE single == [q \in {o} |-> caps[q]]
    <3>2. DOMAIN single = {o} /\ single[o] = caps[o]
      OBVIOUS
    <3> HIDE DEF single
    <3>3. \A b : b \in Bytes(single) <=> b \in {o} \X (1 .. caps[o])
      BY <3>2, BytesMember
    <3>4. Bytes(single) = {o} \X (1 .. caps[o])
      BY <3>3
    <3>5. ByteSum(single) = caps[o]
      <4>1. Cardinality({o} \X (1 .. caps[o])) = caps[o]
        BY <3>1, SumOfOne
      <4> QED BY <3>4, <4>1 DEF ByteSum
    <3> QED BY <3>5 DEF single
  <2> QED BY <2>1, <2>2, <2>3
<1>2. ByteSum(g) = ByteSum(rest) + g[o]
  BY <1>1
<1>3. g[o] \in Nat
  BY DEF Capacities
<1>4. CASE o \in DOMAIN f
  <2>1. ByteSum(f) = ByteSum(rest) + f[o]
    BY <1>1, <1>4
  <2>2. f[o] \in Nat
    BY <1>4 DEF Capacities
  <2>3. ByteSum(rest) \in Nat
    <3>1. IsFiniteSet(others)
      BY FS_RemoveElement DEF Capacities
    <3>2. Capacities(rest)
      BY <3>1 DEF Capacities
    <3> QED BY <3>2, SumType
  <2> QED BY <1>2, <1>3, <1>4, <2>1, <2>2, <2>3
<1>5. CASE o \notin DOMAIN f
  <2>1. IsFiniteSet(others) /\ others = DOMAIN f
    BY <1>5 DEF Capacities
  <2>2. \A b : b \in Bytes(rest) <=> b \in Bytes(f)
    <3>1. DOMAIN rest = DOMAIN f /\ \A q \in DOMAIN f : rest[q] = f[q]
      BY <2>1
    <3> HIDE DEF rest
    <3> QED BY <3>1, BytesMember
  <2>3. Bytes(rest) = Bytes(f)
    BY <2>2
  <2> QED BY <1>2, <1>5, <2>3 DEF ByteSum
<1> QED BY <1>4, <1>5


\* One more capacity at the end of a sequence.
LEMMA SumAppend ==
  ASSUME NEW s \in Seq(Nat), NEW n \in Nat
  PROVE  ByteSum(Append(s, n)) = ByteSum(s) + n
<1> DEFINE t == Append(s, n)
           o == Len(s) + 1
<1>1. t \in Seq(Nat) /\ DOMAIN t = 1 .. o /\ DOMAIN s = 1 .. Len(s) /\ Len(s) \in Nat
      /\ t[o] = n /\ \A q \in 1 .. Len(s) : t[q] = s[q]
  OBVIOUS
<1>2. Capacities(s) /\ Capacities(t)
  <2>1. IsFiniteSet(1 .. Len(s)) /\ IsFiniteSet(1 .. o)
    BY <1>1, FS_Interval
  <2> HIDE DEF t
  <2> QED BY <1>1, <2>1 DEF Capacities
<1>3. o \in DOMAIN t /\ o \notin DOMAIN s /\ DOMAIN t = DOMAIN s \cup {o}
  BY <1>1
<1>4. \A q \in DOMAIN s \ {o} : t[q] = s[q]
  BY <1>1
<1> HIDE DEF t, o
<1>5. ByteSum(t) = ByteSum(s) + t[o]
  BY <1>2, <1>3, <1>4, SumChange
<1> QED BY <1>1, <1>5 DEF t

\* One capacity less at the end.
LEMMA SumFront ==
  ASSUME NEW s \in Seq(Nat), s # <<>>
  PROVE  /\ s[Len(s)] \in Nat
         /\ SubSeq(s, 1, Len(s) - 1) \in Seq(Nat)
         /\ ByteSum(s) = ByteSum(SubSeq(s, 1, Len(s) - 1)) + s[Len(s)]
<1> DEFINE t == SubSeq(s, 1, Len(s) - 1)
           n == s[Len(s)]
<1>1. Len(s) \in Nat \ {0}
  BY EmptySeq, LenProperties
<1>2. t \in Seq(Nat) /\ n \in Nat
  <2>1. n \in Nat
    BY <1>1, LenProperties
  <2>2. \A i \in 1 .. Len(s) - 1 : s[i] \in Nat
    BY <1>1, LenProperties
  <2>3. 1 \in Int /\ Len(s) - 1 \in Int
    BY <1>1
  <2> QED BY <1>1, <2>1, <2>2, <2>3, SubSeqProperties
<1>3. s = Append(t, n)
  BY <1>1
<1> HIDE DEF t, n
<1> QED BY <1>2, <1>3, SumAppend DEF t, n

\* The capacities of a batch are numbers.
LEMMA CapsType ==
  ASSUME NEW items \in Seq(Items)
  PROVE  CapsOf(items) \in Seq(Nat) /\ Capacities(CapsOf(items))
<1>1. \A i \in 1 .. Len(items) : items[i].cap \in Nat
  <2> TAKE i \in 1 .. Len(items)
  <2>1. items[i] \in Items
    BY LenProperties
  <2> QED BY <2>1 DEF Items
<1>2. CapsOf(items) \in [1 .. Len(items) -> Nat] /\ Len(items) \in Nat
  BY <1>1 DEF CapsOf
<1>3. IsFiniteSet(1 .. Len(items))
  BY <1>2, FS_Interval
<1> QED BY <1>2, <1>3 DEF Capacities

\* A batch of two parts has the bytes of both.
LEMMA SumConcat ==
  ASSUME NEW s \in Seq(Items), NEW t \in Seq(Items)
  PROVE  ByteSum(CapsOf(s \o t)) = ByteSum(CapsOf(s)) + ByteSum(CapsOf(t))
<1> DEFINE u == s \o t
           A == 1 .. Len(s)
           B == Len(s) + 1 .. Len(s) + Len(t)
           f == CapsOf(u)
           shift == [i \in DOMAIN t |-> Len(s) + i]
<1>1. /\ u \in Seq(Items) /\ Len(s) \in Nat /\ Len(t) \in Nat
      /\ Len(u) = Len(s) + Len(t) /\ DOMAIN s = A /\ DOMAIN t = 1 .. Len(t)
      /\ \A i \in A : u[i] = s[i]
      /\ \A i \in 1 .. Len(t) : u[Len(s) + i] = t[i]
  OBVIOUS
<1>2. DOMAIN f = A \cup B /\ A \cap B = {}
  <2>1. DOMAIN f = 1 .. Len(s) + Len(t)
    BY <1>1 DEF CapsOf
  <2> QED BY <1>1, <2>1
<1>3. Capacities(f)
  BY <1>1, CapsType
<1>4. ByteSum(f) = ByteSum([o \in A |-> f[o]]) + ByteSum([o \in B |-> f[o]])
  <2> HIDE DEF f, A, B
  <2> QED BY <1>2, <1>3, SumSplit
<1>5. [o \in A |-> f[o]] = CapsOf(s)
  BY <1>1, <1>2 DEF CapsOf
<1>6. ByteSum([o \in B |-> f[o]]) = ByteSum(CapsOf(t))
  <2> DEFINE g == [o \in B |-> f[o]]
             k == CapsOf(t)
  <2>1. DOMAIN k = 1 .. Len(t) /\ DOMAIN g = B /\ DOMAIN shift = 1 .. Len(t)
    BY <1>1 DEF CapsOf
  <2>2. shift \in Bijection(DOMAIN k, DOMAIN g)
    <3>1. shift \in [1 .. Len(t) -> B]
      BY <1>1
    <3>2. \A q \in B : \E i \in 1 .. Len(t) : shift[i] = q
      <4> TAKE q \in B
      <4>1. q - Len(s) \in 1 .. Len(t) /\ Len(s) + (q - Len(s)) = q
        BY <1>1
      <4> QED BY <1>1, <4>1
    <3>3. \A i, j \in 1 .. Len(t) : shift[i] = shift[j] => i = j
      BY <1>1
    <3> HIDE DEF shift, B
    <3> QED BY <2>1, <3>1, <3>2, <3>3 DEF Bijection, Injection, IsInjective, Surjection
  <2>3. \A i \in 1 .. Len(t) : g[shift[i]] = k[i]
    <3> TAKE i \in 1 .. Len(t)
    <3>1. Len(s) + i \in B /\ Len(s) + i \in DOMAIN u
      BY <1>1
    <3> QED BY <1>1, <3>1 DEF CapsOf
  <2>4. Capacities(k)
    BY CapsType
  <2> HIDE DEF g, k, shift
  <2>5. \A o \in DOMAIN k : g[shift[o]] = k[o]
    BY <2>1, <2>3
  <2>6. ByteSum(g) = ByteSum(k)
    BY <2>2, <2>4, <2>5, SumMoved
  <2> QED BY <2>6 DEF g, k
<1> HIDE DEF f
<1> QED BY <1>4, <1>5, <1>6 DEF f

\* A batch without its head has the bytes of the others.
LEMMA SumTail ==
  ASSUME NEW s \in Seq(Items), s # <<>>
  PROVE  Head(s).cap \in Nat /\ ByteSum(CapsOf(s)) = Head(s).cap + ByteSum(CapsOf(Tail(s)))
<1> DEFINE h == Head(s)
           one == <<h>>
<1>1. h \in Items /\ Tail(s) \in Seq(Items) /\ s = one \o Tail(s)
  <2>1. h \in Items /\ Tail(s) \in Seq(Items)
    BY HeadTailProperties
  <2>2. s = one \o Tail(s)
    OBVIOUS
  <2> QED BY <2>1, <2>2
<1>2. h.cap \in Nat
  BY <1>1 DEF Items
<1>3. ByteSum(CapsOf(one)) = h.cap
  <2>1. CapsOf(one) = Append(<<>>, h.cap)
    BY DEF CapsOf
  <2>2. ByteSum(<<>>) = 0
    <3>1. \A b : b \notin Bytes(<<>>)
      BY BytesMember
    <3>2. Bytes(<<>>) = {}
      BY <3>1
    <3> QED BY <3>2, FS_EmptySet DEF ByteSum
  <2>3. <<>> \in Seq(Nat)
    OBVIOUS
  <2>4. ByteSum(Append(<<>>, h.cap)) = ByteSum(<<>>) + h.cap
    BY <1>2, <2>3, SumAppend
  <2> QED BY <1>2, <2>1, <2>2, <2>4
<1>4. one \in Seq(Items)
  BY <1>1
<1> HIDE DEF h, one
<1> QED BY <1>1, <1>2, <1>3, <1>4, SumConcat DEF h

\* The capacities in the ring are numbers.
LEMMA SlotCapsType ==
  ASSUME NEW ring \in [0 .. Capacity - 1 -> Items \cup {NoItem}]
  PROVE  Capacities(SlotCaps(ring))
<1>1. IsFiniteSet(0 .. Capacity - 1)
  BY QueueAssumption, FS_Interval
<1>2. \A s \in 0 .. Capacity - 1 : CapOf(ring[s]) \in Nat
  <2> TAKE s \in 0 .. Capacity - 1
  <2>1. ring[s] = NoItem \/ ring[s] \in Items
    OBVIOUS
  <2> QED BY <2>1 DEF CapOf, Items
<1> QED BY <1>1, <1>2 DEF Capacities, SlotCaps


\* The idle buffers own finitely many bytes.
LEMMA IdleBytesType ==
  ASSUME idle \in Seq(Nat)
  PROVE  Capacities(idle) /\ IdleBytes \in Nat /\ IdleBytes = ByteSum(idle)
<1>1. Len(idle) \in Nat /\ idle \in [1 .. Len(idle) -> Nat]
  BY LenProperties
<1>2. IsFiniteSet(1 .. Len(idle))
  BY <1>1, FS_Interval
<1>3. Capacities(idle)
  BY <1>1, <1>2 DEF Capacities
<1> QED BY <1>3, SumType DEF IdleBytes, ByteSum

\* The ready run of length n is a sequence of n items, and emptying it leaves a
\* ring.
LEMMA RunType ==
  ASSUME QueueType, NEW max \in Int, NEW n \in 0 .. Capacity, IsRun(n, max)
  PROVE  /\ Run(n) \in Seq(Items)
         /\ Len(Run(n)) = n
         /\ \A i \in 1 .. n : Run(n)[i] = slots[Slot(nextRead + i - 1)]
         /\ WithoutRun(n) \in [0 .. Capacity - 1 -> Items \cup {NoItem}]
         /\ nextRead + n \in 0 .. TotalJobs
BY RunOfItems DEF QueueType

\* The bytes of a drained run leave the ring.
LEMMA SumRun ==
  ASSUME QueueType, NEW max \in Int, NEW n \in 0 .. Capacity, IsRun(n, max)
  PROVE  ByteSum(SlotCaps(slots)) = ByteSum(SlotCaps(WithoutRun(n))) + ByteSum(CapsOf(Run(n)))
<1> DEFINE f == SlotCaps(slots)
           ring == 0 .. Capacity - 1
           B == {s \in ring : \E i \in 0 .. n - 1 : s = Slot(nextRead + i)}
           A == ring \ B
           h == [i \in 1 .. n |-> Slot(nextRead + i - 1)]
<1>1. slots \in [ring -> Items \cup {NoItem}] /\ nextRead \in Nat /\ n \in Nat
  BY QueueAssumption DEF QueueType
<1>2. Capacities(f) /\ DOMAIN f = ring
  BY <1>1, SlotCapsType DEF SlotCaps
<1>3. ByteSum(f) = ByteSum([o \in A |-> f[o]]) + ByteSum([o \in B |-> f[o]])
  <2>1. ring = A \cup B /\ A \cap B = {}
    OBVIOUS
  <2> HIDE DEF f, A, B
  <2> QED BY <1>2, <2>1, SumSplit
<1>4. ByteSum([o \in A |-> f[o]]) = ByteSum(SlotCaps(WithoutRun(n)))
  <2> DEFINE fa == [o \in A |-> f[o]]
             fw == SlotCaps(WithoutRun(n))
  <2>1. /\ DOMAIN fa = A /\ DOMAIN fw = ring /\ A \subseteq ring
        /\ \A o \in A : fa[o] = fw[o]
        /\ \A o \in ring \ A : fw[o] = 0
    BY <1>1 DEF SlotCaps, WithoutRun, CapOf
  <2> HIDE DEF fa, fw, A
  <2>2. \A o \in ring \ A : 1 .. fw[o] = {}
    BY <2>1
  <2>3. \A b : b \in Bytes(fw) <=> b \in Bytes(fa)
    <3> TAKE b
    <3>1. b \in Bytes(fw) <=> \E o \in ring : b \in {o} \X (1 .. fw[o])
      BY <2>1, BytesMember
    <3>2. b \in Bytes(fa) <=> \E o \in A : b \in {o} \X (1 .. fw[o])
      <4>1. b \in Bytes(fa) <=> \E o \in A : b \in {o} \X (1 .. fa[o])
        BY <2>1, BytesMember
      <4> QED BY <2>1, <4>1
    <3>3. \A o \in ring \ A : b \notin {o} \X (1 .. fw[o])
      BY <2>2
    <3> QED BY <2>1, <3>1, <3>2, <3>3
  <2>4. Bytes(fw) = Bytes(fa)
    BY <2>3
  <2> QED BY <2>4 DEF ByteSum, fa, fw
<1>5. ByteSum([o \in B |-> f[o]]) = ByteSum(CapsOf(Run(n)))
  <2> DEFINE g == [o \in B |-> f[o]]
             k == CapsOf(Run(n))
  <2>1. DOMAIN g = B /\ DOMAIN k = 1 .. n /\ Capacities(k)
    <3>1. DOMAIN k = 1 .. n
      BY DEF CapsOf, Run
    <3>2. Run(n) \in Seq(Items)
      BY RunType
    <3> QED BY <3>1, <3>2, CapsType
  <2>2. \A i \in 1 .. n : i - 1 \in 0 .. n - 1 /\ nextRead + (i - 1) = nextRead + i - 1
                          /\ nextRead + i - 1 \in Nat
    BY <1>1
  <2>3. h \in [1 .. n -> B]
    <3> SUFFICES ASSUME NEW i \in 1 .. n PROVE Slot(nextRead + i - 1) \in B
      OBVIOUS
    <3>1. Slot(nextRead + i - 1) \in ring
      BY <2>2, SlotType
    <3> QED BY <2>2, <3>1
  <2>4. \A i, j \in 1 .. n : h[i] = h[j] => i = j
    <3> TAKE i, j \in 1 .. n
    <3> HAVE h[i] = h[j]
    <3>1. Slot(nextRead + i - 1) = Slot(nextRead + j - 1)
      OBVIOUS
    <3>2. /\ nextRead <= nextRead + i - 1 /\ nextRead + i - 1 < nextRead + Capacity
          /\ nextRead <= nextRead + j - 1 /\ nextRead + j - 1 < nextRead + Capacity
      BY <1>1, QueueAssumption
    <3>3. nextRead + i - 1 = nextRead + j - 1
      BY <1>1, <2>2, <3>1, <3>2, SlotInjective
    <3> QED BY <1>1, <3>3
  <2>5. \A q \in B : \E i \in 1 .. n : h[i] = q
    <3> TAKE q \in B
    <3>1. PICK i \in 0 .. n - 1 : q = Slot(nextRead + i)
      OBVIOUS
    <3>2. i + 1 \in 1 .. n /\ nextRead + (i + 1) - 1 = nextRead + i
      BY <1>1
    <3>3. h[i + 1] = Slot(nextRead + (i + 1) - 1)
      BY <3>2
    <3>4. h[i + 1] = q
      BY <3>1, <3>2, <3>3
    <3> QED BY <3>2, <3>4
  <2>6. \A i \in 1 .. n : g[h[i]] = k[i]
    <3> TAKE i \in 1 .. n
    <3>1. Run(n)[i] = slots[Slot(nextRead + i - 1)] /\ Run(n)[i] \in Items
      BY RunType
    <3>2. Run(n)[i] # NoItem
      BY <3>1, PrefetchAssumption
    <3>3. k[i] = Run(n)[i].cap
      BY DEF CapsOf, Run
    <3>4. h[i] \in B /\ h[i] = Slot(nextRead + i - 1)
      BY <2>3
    <3>5. g[h[i]] = CapOf(slots[Slot(nextRead + i - 1)])
      BY <1>1, <3>4 DEF SlotCaps
    <3> QED BY <3>1, <3>2, <3>3, <3>5 DEF CapOf
  <2> HIDE DEF g, k, h, B
  <2>7. h \in Bijection(DOMAIN k, DOMAIN g)
    BY <2>1, <2>3, <2>4, <2>5 DEF Bijection, Injection, IsInjective, Surjection
  <2>8. \A o \in DOMAIN k : g[h[o]] = k[o]
    BY <2>1, <2>6
  <2>9. ByteSum(g) = ByteSum(k)
    BY <2>1, <2>7, <2>8, SumMoved
  <2> QED BY <2>9 DEF g, k
<1> HIDE DEF f, A, B
<1> QED BY <1>3, <1>4, <1>5 DEF f

-----------------------------------------------------------------------------
(* Type correctness.  The types alone are not inductive: Need and Size are  *)
(* defined on Jobs only, and recycling takes the head of the batch.         *)

Busy == {"turn", "fit", "decode", "push"}

ClaimsValid == \A w \in Workers : wpc[w] \in Busy => wjob[w] \in Jobs

BatchHeld == cpc \in {"more", "process", "recycle"} => batch # <<>>

TypeInv == TypeOK /\ ClaimsValid /\ BatchHeld

\* The terminal error and the result of a worker are items.
LEMMA ItemTypes ==
  /\ Fatal \in Items
  /\ TypeInv => \A w \in Workers : Result(w) \in Items
<1>1. Fatal \in Items
  BY QueueAssumption DEF Fatal, Items
<1>2. ASSUME TypeInv, NEW w \in Workers PROVE Result(w) \in Items
  <2>1. wjob[w] \in 0 .. TotalJobs /\ held[w] \in Nat
    BY <1>2 DEF TypeInv, TypeOK, WorkerType
  <2> QED BY <2>1 DEF Result, DecodeError, Chunk, Items
<1> QED BY <1>1, <1>2

\* drain_into's return leaves the consumer with a well-formed batch.
LEMMA DeliverType ==
  ASSUME ConsumerType, NEW items \in Seq(Items), Deliver(items),
         batch # <<>> \/ items # <<>>
  PROVE  ConsumerType' /\ BatchHeld'
<1>1. batch \in Seq(Items) /\ received \in Seq(Items)
  BY DEF ConsumerType
<1>2. received \o items \in Seq(Items) /\ batch \o items \in Seq(Items)
  BY <1>1, ConcatProperties
<1>3. batch \o items # <<>>
  BY <1>1, ConcatSimplifications, ConcatEqualIffEmpty
<1>4. received' \in Seq(Items) /\ batch' \in Seq(Items) /\ batch' # <<>>
  BY <1>2, <1>3 DEF Deliver
<1>5. cpc' \in {"close", "process"}
  BY DEF Deliver
<1>6. outcome' \in {"open", "eof", "failed", "cancelled"}
  BY DEF Deliver, ConsumerType
<1> QED BY <1>4, <1>5, <1>6 DEF ConsumerType, ConsumerStates, BatchHeld

\* Taking a run keeps the types of the ring and of the consumer.
LEMMA TakeRunType ==
  ASSUME QueueType, ConsumerType, NEW max \in Int, NEW want \in Int,
         NEW n \in 0 .. Capacity, IsRun(n, max), TakeRun(n, want),
         batch # <<>> \/ n > 0
  PROVE  QueueType' /\ ConsumerType' /\ BatchHeld'
<1>1. /\ Run(n) \in Seq(Items)
      /\ Len(Run(n)) = n
      /\ WithoutRun(n) \in [0 .. Capacity - 1 -> Items \cup {NoItem}]
      /\ nextRead + n \in 0 .. TotalJobs
  BY RunType
<1>2. batch \in Seq(Items) /\ received \in Seq(Items)
  BY DEF ConsumerType
<1>3. n > 0 => Run(n) # <<>>
  BY <1>1, EmptySeq
<1>4. CASE n < want /\ nextRead + n < TotalJobs /\ ~qClosed
  <2>1. /\ DrainTakesAndSleeps(n)
        /\ received' = received \o Run(n)
        /\ batch' = batch \o Run(n)
        /\ cpc' = "more"
        /\ UNCHANGED outcome
    BY <1>4 DEF TakeRun
  <2>2. QueueType'
    BY <1>1, <2>1 DEF DrainTakesAndSleeps, QueueType
  <2>3. received' \in Seq(Items) /\ batch' \in Seq(Items)
    BY <1>1, <1>2, <2>1, ConcatProperties
  <2>4. batch' # <<>>
    BY <1>1, <1>2, <1>3, <2>1, ConcatEqualIffEmpty
  <2> QED BY <2>1, <2>2, <2>3, <2>4 DEF ConsumerType, ConsumerStates, BatchHeld
<1>5. CASE ~(n < want /\ nextRead + n < TotalJobs /\ ~qClosed)
  <2> DEFINE items == IF terminalItem = NoItem THEN Run(n) ELSE Append(Run(n), terminalItem)
  <2>1. DrainTakes(n) /\ Deliver(items)
    BY <1>5 DEF TakeRun
  <2>2. QueueType'
    BY <1>1, <2>1, QueueAssumption DEF DrainTakes, QueueType
  <2>3. terminalItem \in Items \cup {NoItem}
    BY ItemTypes DEF QueueType
  <2>4. items \in Seq(Items) /\ (n > 0 => items # <<>>)
    BY <1>1, <1>3, <2>3, AppendProperties
  <2> QED BY <2>1, <2>2, <2>4, DeliverType
<1> QED BY <1>4, <1>5

\* A step of a worker keeps the types.
LEMMA WorkerKeepsTypes ==
  ASSUME TypeInv, NEW w \in Workers, Worker(w)
  PROVE  TypeInv'
<1> USE DEF TypeInv, TypeOK
<1>1. CASE Claim(w)
  <2>1. WorkerType' /\ ClaimsValid'
    BY <1>1, QueueAssumption DEF Claim, WorkerType, WorkerStates, ClaimsValid, Goto, Busy, Jobs
  <2> QED BY <1>1, <2>1 DEF Claim, queueVars, budgetVars, consumerVars,
             QueueType, BudgetType, ConsumerType, BatchHeld
<1>2. CASE AwaitTurn(w)
  <2>1. TopIdle \in Nat /\ WithoutTop \in Seq(Nat)
    BY LenProperties, SubSeqProperties DEF BudgetType, TopIdle, WithoutTop
  <2>2. BudgetType'
    BY <1>2, <2>1 DEF AwaitTurn, AcquireSleeps, AcquireEnters, BudgetType
  <2>3. WorkerType' /\ ClaimsValid'
    BY <1>2, <2>1 DEF AwaitTurn, WorkerType, WorkerStates, ClaimsValid, Goto, Holds, Busy
  <2> QED BY <1>2, <2>2, <2>3 DEF AwaitTurn, queueVars, consumerVars,
             QueueType, ConsumerType, BatchHeld
<1>3. CASE Admit(w)
  <2>0. wjob[w] \in Jobs
    BY <1>3 DEF Admit, ClaimsValid, Busy
  <2>1. TopIdle \in Nat /\ WithoutTop \in Seq(Nat)
    BY LenProperties, SubSeqProperties DEF BudgetType, TopIdle, WithoutTop
  <2>2. Need[wjob[w]] \in Nat /\ held[w] \in Nat
    BY <2>0, PrefetchAssumption DEF WorkerType
  <2>3. Extra(Need[wjob[w]], held[w]) \in Nat
    BY <2>2 DEF Extra, Saturate
  <2>4. BudgetType'
    BY <1>3, <2>1, <2>2, <2>3 DEF Admit, AdmitRefused, AdmitGrants, AdmitEvicts, AdmitSleeps, BudgetType
  <2>5. WorkerType' /\ ClaimsValid'
    BY <1>3, <2>2, <2>3 DEF Admit, WorkerType, WorkerStates, ClaimsValid, Goto, Holds, Busy
  <2> QED BY <1>3, <2>4, <2>5 DEF Admit, queueVars, consumerVars,
             QueueType, ConsumerType, BatchHeld
<1>4. CASE Decode(w)
  <2>0. wjob[w] \in Jobs
    BY <1>4 DEF Decode, ClaimsValid, Busy
  <2>1. Size[wjob[w]] \in Nat /\ held[w] \in Nat /\ reused[w] \in Nat
    BY <2>0, PrefetchAssumption DEF WorkerType
  <2>2. DecodedCaps(w) \subseteq Nat
    BY <2>1 DEF DecodedCaps, Grown, Larger
  <2>3. BudgetType'
    BY <1>4, <2>1, <2>2 DEF Decode, Settle, budgetVars, BudgetType
  <2>4. WorkerType' /\ ClaimsValid'
    BY <1>4, <2>2 DEF Decode, WorkerType, WorkerStates, ClaimsValid, Goto, Holds, Busy
  <2> QED BY <1>4, <2>3, <2>4 DEF Decode, queueVars, consumerVars,
             QueueType, ConsumerType, BatchHeld
<1>5. CASE Push(w)
  <2>0. wjob[w] \in Nat
    BY <1>5 DEF WorkerType
  <2>1. Result(w) \in Items /\ Slot(wjob[w]) \in 0 .. Capacity - 1
    BY <2>0, ItemTypes, SlotType
  <2>2. QueueType'
    BY <1>5, <2>1 DEF Push, PushSleeps, PushStores, PushRefused, queueVars, QueueType
  <2>3. WorkerType' /\ ClaimsValid'
    BY <1>5 DEF Push, WorkerType, WorkerStates, ClaimsValid, Goto, Holds, Busy
  <2> QED BY <1>5, <2>2, <2>3 DEF Push, budgetVars, consumerVars,
             BudgetType, ConsumerType, BatchHeld
<1>6. CASE Refund(w)
  <2>1. BudgetType'
    BY <1>6 DEF Refund, Settle, BudgetType, WorkerType
  <2>2. WorkerType' /\ ClaimsValid'
    BY <1>6 DEF Refund, WorkerType, WorkerStates, ClaimsValid, Goto, Holds, Busy
  <2> QED BY <1>6, <2>1, <2>2 DEF Refund, queueVars, consumerVars,
             QueueType, ConsumerType, BatchHeld
<1>7. CASE Abort(w)
  <2>1. IdleBytes \in Nat
    BY IdleBytesType DEF BudgetType
  <2>2. BudgetType'
    BY <1>7, <2>1 DEF Abort, CloseBudget, BudgetType
  <2>3. WorkerType' /\ ClaimsValid'
    BY <1>7 DEF Abort, WorkerType, WorkerStates, ClaimsValid, Goto, Busy
  <2> QED BY <1>7, <2>2, <2>3 DEF Abort, queueVars, consumerVars,
             QueueType, ConsumerType, BatchHeld
<1>8. CASE Report(w)
  <2>1. QueueType'
    BY <1>8 DEF Report, FailQueue, QueueType
  <2>2. WorkerType' /\ ClaimsValid'
    BY <1>8 DEF Report, WorkerType, WorkerStates, ClaimsValid, Goto, Busy
  <2> QED BY <1>8, <2>1, <2>2 DEF Report, budgetVars, consumerVars,
             BudgetType, ConsumerType, BatchHeld
<1> QED BY <1>1, <1>2, <1>3, <1>4, <1>5, <1>6, <1>7, <1>8 DEF Worker

\* A step of the consumer keeps the types.
LEMMA ConsumerKeepsTypes ==
  ASSUME TypeInv, Consumer
  PROVE  TypeInv'
<1> USE DEF TypeInv, TypeOK
<1>0. /\ UNCHANGED workerVars => WorkerType' /\ ClaimsValid'
      /\ UNCHANGED budgetVars => BudgetType'
      /\ UNCHANGED queueVars => QueueType'
  BY DEF workerVars, budgetVars, queueVars, WorkerType, ClaimsValid, BudgetType, QueueType
<1>1. CASE Drain
  <2>0. BudgetType' /\ WorkerType' /\ ClaimsValid'
    BY <1>0, <1>1 DEF Drain
  <2>1. CASE DrainSleeps /\ cpc' = "drain" /\ UNCHANGED <<batch, received, outcome>>
    BY <2>0, <2>1 DEF DrainSleeps, QueueType, ConsumerType, ConsumerStates, BatchHeld
  <2>2. CASE DrainTerminal /\ Deliver(<<terminalItem>>)
    <3>1. terminalItem \in Items
      BY <2>2, ItemTypes DEF DrainTerminal, QueueType
    <3>2. <<terminalItem>> \in Seq(Items) /\ <<terminalItem>> # <<>>
      BY <3>1
    <3>3. ConsumerType' /\ BatchHeld'
      BY <2>2, <3>2, DeliverType
    <3>4. QueueType'
      BY <2>2, QueueAssumption DEF DrainTerminal, QueueType
    <3> QED BY <2>0, <3>3, <3>4
  <2>3. CASE /\ DrainsNothing
             /\ cpc' = "close"
             /\ outcome' = "eof"
             /\ UNCHANGED <<batch, received>>
    BY <1>0, <2>0, <2>3 DEF DrainsNothing, ConsumerType, ConsumerStates, BatchHeld
  <2>4. CASE /\ terminalItem = NoItem
             /\ \E n \in 1 .. Capacity : IsRun(n, MaxBatch) /\ TakeRun(n, MinBatch)
    <3>1. PICK n \in 1 .. Capacity : IsRun(n, MaxBatch) /\ TakeRun(n, MinBatch)
      BY <2>4
    <3>2. n \in 0 .. Capacity /\ n > 0 /\ MaxBatch \in Int /\ MinBatch \in Int
      BY QueueAssumption, PrefetchAssumption
    <3> QED BY <2>0, <3>1, <3>2, TakeRunType
  <2> QED BY <1>1, <2>1, <2>2, <2>3, <2>4 DEF Drain
<1>2. CASE DrainMore
  <2> DEFINE want == IF qClosed THEN 1 ELSE MinBatch - Len(batch)
  <2>1. PICK n \in 0 .. Capacity : IsRun(n, want) /\ TakeRun(n, want)
    BY <1>2 DEF DrainMore
  <2>2. want \in Int
    BY LenProperties, PrefetchAssumption DEF ConsumerType
  <2>3. batch # <<>>
    BY <1>2 DEF DrainMore, BatchHeld
  <2>4. QueueType' /\ ConsumerType' /\ BatchHeld'
    BY <2>1, <2>2, <2>3, TakeRunType
  <2> QED BY <1>0, <1>2, <2>4 DEF DrainMore
<1>3. CASE Process
  BY <1>0, <1>3 DEF Process, ConsumerType, ConsumerStates, BatchHeld
<1>4. CASE RecycleOne
  <2>1. batch \in Seq(Items) /\ batch # <<>>
    BY <1>4 DEF RecycleOne, BatchHeld, ConsumerType
  <2>2. Head(batch) \in Items /\ Tail(batch) \in Seq(Items) /\ Len(Tail(batch)) = Len(batch) - 1
    BY <2>1, HeadTailProperties
  <2>3. Head(batch).cap \in Nat
    BY <2>2 DEF Items
  <2>4. BudgetType'
    <3>1. Append(idle, Head(batch).cap) \in Seq(Nat)
      BY <2>3, AppendProperties DEF BudgetType
    <3>2. \/ used' = used - Head(batch).cap /\ idle' = idle
          \/ idle' = Append(idle, Head(batch).cap) /\ used' = used
      BY <1>4, Zenon DEF RecycleOne, Recycle
    <3>3. idle' \in Seq(Nat)
      BY <3>1, <3>2, Zenon DEF BudgetType
    <3>4. used - Head(batch).cap \in Int
      BY <2>3 DEF BudgetType
    <3>5. used' \in Int
      BY <3>2, <3>4, Zenon DEF BudgetType
    <3> QED BY <1>4, <3>3, <3>5, Zenon DEF RecycleOne, Recycle, BudgetType
  <2>5. Len(batch) # 1 => Tail(batch) # <<>>
    <3>1. Len(batch) \in Nat \ {0}
      BY <2>1, EmptySeq
    <3>2. Len(batch) # 1 => Len(Tail(batch)) # 0
      BY <2>2, <3>1
    <3> QED BY <3>2, EmptySeq, Zenon
  <2>6. ConsumerType' /\ BatchHeld'
    BY <1>4, <2>2, <2>5 DEF RecycleOne, ConsumerType, ConsumerStates, BatchHeld
  <2> QED BY <1>0, <1>4, <2>4, <2>6 DEF RecycleOne
<1>5. CASE Cancel
  BY <1>0, <1>5 DEF Cancel, ConsumerType, ConsumerStates, BatchHeld
<1>6. CASE DropQueue
  BY <1>0, <1>6 DEF DropQueue, CloseQueue, QueueType, ConsumerType, ConsumerStates, BatchHeld
<1>7. CASE DropBudget
  <2>1. IdleBytes \in Nat
    BY IdleBytesType DEF BudgetType
  <2>2. BudgetType'
    BY <1>7, <2>1 DEF DropBudget, CloseBudget, BudgetType
  <2> QED BY <1>0, <1>7, <2>2 DEF DropBudget, ConsumerType, ConsumerStates, BatchHeld
<1>8. CASE Join
  BY <1>0, <1>8 DEF Join, ConsumerType, ConsumerStates, BatchHeld
<1> QED BY <1>1, <1>2, <1>3, <1>4, <1>5, <1>6, <1>7, <1>8 DEF Consumer

\* TypeInv is inductive.
LEMMA TypeInvInductive ==
  /\ Init => TypeInv
  /\ TypeInv /\ [Next]_vars => TypeInv'
<1>1. ASSUME Init PROVE TypeInv
  <2>1. QueueType
    <3>1. qClosed \in BOOLEAN /\ notEmpty \in BOOLEAN
      BY <1>1, Zenon DEF Init, QueueInit
    <3> QED BY <1>1, <3>1, QueueAssumption DEF Init, QueueInit, QueueType
  <2>2. BudgetType
    <3>1. bClosed \in BOOLEAN
      BY <1>1, Zenon DEF Init, BudgetInit
    <3> QED BY <1>1, <3>1 DEF Init, BudgetInit, BudgetType
  <2>3. WorkerType /\ ClaimsValid
    BY <1>1, QueueAssumption DEF Init, WorkerType, WorkerStates, ClaimsValid, Busy
  <2>4. ConsumerType /\ BatchHeld
    BY <1>1 DEF Init, ConsumerType, ConsumerStates, BatchHeld
  <2> QED BY <2>1, <2>2, <2>3, <2>4 DEF TypeInv, TypeOK
<1>2. ASSUME TypeInv, [Next]_vars PROVE TypeInv'
  <2>1. CASE UNCHANGED vars
    BY <1>2, <2>1 DEF vars, queueVars, budgetVars, workerVars, consumerVars, TypeInv, TypeOK,
       QueueType, BudgetType, WorkerType, ConsumerType, ClaimsValid, BatchHeld
  <2> QED BY <1>2, <2>1, WorkerKeepsTypes, ConsumerKeepsTypes DEF Next, Finished
<1> QED BY <1>1, <1>2

\* Every variable of the prefetcher keeps its type, with any number of workers,
\* jobs and slots and with every kind of failure.
THEOREM TypeCorrect == Spec => []TypeOK
<1>1. TypeInv => TypeOK
  BY DEF TypeInv
<1> QED BY <1>1, TypeInvInductive, PTL DEF Spec

-----------------------------------------------------------------------------
(* Delivery.  The window invariant: the ring holds only jobs from nextRead  *)
(* up to Capacity further, each in its own slot, no job is in two places,   *)
(* and the consumer has received exactly the jobs below nextRead.  A        *)
(* terminal error leaves the sequence, so the window is claimed as long as  *)
(* none was delivered; afterwards the queue is closed and the consumer only *)
(* drops the reader.                                                        *)

Closing == {"close", "closeBudget", "join", "gone"}

KindsIn(items, kinds) == \A i \in DOMAIN items : items[i].kind \in kinds

NoFatal == KindsIn(received, {"ok", "err"})

AllOk(items) == KindsIn(items, {"ok"})

\* A job is claimed once and is with one worker or in one slot.
ClaimedOnce ==
    /\ \A w \in Workers : wpc[w] \in Busy => wjob[w] < nextJobIdx
    /\ \A v, w \in Workers :
          v # w /\ wpc[v] \in Busy /\ wpc[w] \in Busy => wjob[v] # wjob[w]
    /\ \A s \in 0 .. Capacity - 1 : slots[s] # NoItem =>
          /\ slots[s].kind # "fatal"
          /\ slots[s].job < nextJobIdx
          /\ \A w \in Workers : wpc[w] \in Busy => slots[s].job # wjob[w]

\* Where the jobs that are not yet delivered are.
Window ==
    NoFatal =>
        /\ Len(received) = nextRead
        /\ nextRead <= nextJobIdx
        /\ \A s \in 0 .. Capacity - 1 : slots[s] # NoItem =>
              /\ s = Slot(slots[s].job)
              /\ nextRead <= slots[s].job
              /\ slots[s].job < nextRead + Capacity
        /\ \A w \in Workers : wpc[w] \in Busy => nextRead <= wjob[w]

\* Before Drop, only a failure closes the queue, and its error waits for the
\* consumer or has reached it.
ClosedByFailure ==
    /\ terminalItem # NoItem => qClosed
    /\ ~NoFatal => qClosed /\ cpc \in Closing
    /\ qClosed /\ cpc \notin Closing => terminalItem # NoItem

\* A consumer that goes on has seen no error; between the two waits of
\* drain_into the error is still in the batch.
ErrorsSeen ==
    /\ cpc \in {"idle", "drain", "process", "recycle"} => AllOk(received)
    /\ cpc = "more" /\ AllOk(batch) => AllOk(received)
    /\ outcome = "eof" => cpc \in Closing

DeliveryInv ==
    /\ ClaimedOnce
    /\ Window
    /\ ClosedByFailure
    /\ DeliveredInOrder
    /\ ErrorsSeen
    /\ NoSilentTruncation

\* The ready run is the next n jobs in order, none of them with a worker.
LEMMA RunIsNextJobs ==
  ASSUME TypeInv, ClaimedOnce, Window, NoFatal,
         NEW max \in Int, NEW n \in 0 .. Capacity, IsRun(n, max)
  PROVE  /\ \A i \in 1 .. n : Run(n)[i].job = nextRead + i - 1 /\ Run(n)[i].kind # "fatal"
         /\ \A w \in Workers : wpc[w] \in Busy => nextRead + n <= wjob[w]
         /\ nextRead + n <= nextJobIdx
<1>1. /\ nextRead \in Nat /\ n \in Nat /\ nextJobIdx \in Nat
      /\ \A i \in 1 .. n : Run(n)[i] = slots[Slot(nextRead + i - 1)] /\ Run(n)[i] \in Items
  <2>1. QueueType /\ WorkerType
    BY DEF TypeInv, TypeOK
  <2>2. Run(n) \in Seq(Items) /\ Len(Run(n)) = n
        /\ \A i \in 1 .. n : Run(n)[i] = slots[Slot(nextRead + i - 1)]
    BY <2>1, RunType
  <2>3. \A i \in 1 .. n : Run(n)[i] \in Items
    BY <2>2, ElementOfSeq
  <2> QED BY <2>1, <2>2, <2>3, QueueAssumption DEF QueueType, WorkerType
<1>2. ASSUME NEW k \in 0 .. n - 1
      PROVE  /\ slots[Slot(nextRead + k)] # NoItem
             /\ slots[Slot(nextRead + k)] \in Items
             /\ slots[Slot(nextRead + k)].job = nextRead + k
             /\ slots[Slot(nextRead + k)].kind # "fatal"
             /\ nextRead + k < nextJobIdx
             /\ \A w \in Workers : wpc[w] \in Busy => wjob[w] # nextRead + k
  <2> DEFINE s == Slot(nextRead + k)
             j == slots[s].job
  <2>1. nextRead + k \in Nat /\ s \in 0 .. Capacity - 1 /\ k < Capacity
    BY <1>1, QueueAssumption, SlotType
  <2>2. slots[s] # NoItem
    BY DEF IsRun
  <2>3. slots[s] \in Items
    BY <2>1, <2>2 DEF TypeInv, TypeOK, QueueType
  <2>4. j \in Nat
    BY <2>3, QueueAssumption DEF Items
  <2>5. s = Slot(j) /\ nextRead <= j /\ j < nextRead + Capacity
    BY <2>1, <2>2 DEF Window
  <2> HIDE DEF j
  <2>6. j = nextRead + k
    <3>1. nextRead <= nextRead + k /\ nextRead + k < nextRead + Capacity
      BY <1>1, <2>1, QueueAssumption
    <3>2. nextRead \in Nat /\ j \in Nat /\ nextRead + k \in Nat /\ Slot(j) = Slot(nextRead + k)
      BY <1>1, <2>1, <2>4, <2>5
    <3> HIDE DEF s
    <3> QED BY <2>5, <3>1, <3>2, SlotInjective
  <2>7. /\ slots[s].kind # "fatal"
        /\ slots[s].job < nextJobIdx
        /\ \A w \in Workers : wpc[w] \in Busy => slots[s].job # wjob[w]
    BY <2>1, <2>2 DEF ClaimedOnce
  <2> QED BY <2>2, <2>3, <2>6, <2>7 DEF j
<1>3. \A i \in 1 .. n : Run(n)[i].job = nextRead + i - 1 /\ Run(n)[i].kind # "fatal"
  <2> TAKE i \in 1 .. n
  <2>1. i - 1 \in 0 .. n - 1 /\ nextRead + (i - 1) = nextRead + i - 1
    BY <1>1
  <2> QED BY <1>1, <1>2, <2>1
<1>4. \A w \in Workers : wpc[w] \in Busy => nextRead + n <= wjob[w]
  <2> SUFFICES ASSUME NEW w \in Workers, wpc[w] \in Busy, wjob[w] < nextRead + n
               PROVE  FALSE
    BY <1>1 DEF TypeInv, TypeOK, WorkerType
  <2>1. wjob[w] \in Nat /\ nextRead <= wjob[w]
    BY DEF Window, TypeInv, TypeOK, WorkerType
  <2>2. wjob[w] - nextRead \in 0 .. n - 1 /\ nextRead + (wjob[w] - nextRead) = wjob[w]
    BY <1>1, <2>1
  <2> QED BY <1>2, <2>2
<1>5. nextRead + n <= nextJobIdx
  <2>1. CASE n = 0
    BY <1>1, <2>1 DEF Window
  <2>2. CASE n > 0
    <3>1. n - 1 \in 0 .. n - 1
      BY <1>1, <2>2
    <3>2. nextRead + (n - 1) < nextJobIdx
      BY <1>2, <3>1
    <3> QED BY <1>1, <3>2
  <2> QED BY <1>1, <2>1, <2>2
<1> QED BY <1>3, <1>4, <1>5

\* Appending the next jobs in order, or the terminal error, keeps the order.
LEMMA AppendInOrder ==
  ASSUME TypeInv, DeliveredInOrder, NoFatal, Len(received) = nextRead,
         NEW items \in Seq(Items), received' = received \o items,
         \A i \in 1 .. Len(items) :
            IF items[i].kind = "fatal" THEN i = Len(items)
            ELSE items[i].job = nextRead + i - 1
  PROVE  DeliveredInOrder'
<1>1. received \in Seq(Items) /\ Len(received) \in Nat /\ Len(items) \in Nat
      /\ DOMAIN received = 1 .. Len(received)
  BY LenProperties DEF TypeInv, TypeOK, ConsumerType
<1>2. /\ received' \in Seq(Items)
      /\ Len(received') = Len(received) + Len(items)
      /\ \A i \in 1 .. Len(received) + Len(items) : received'[i] =
            IF i <= Len(received) THEN received[i] ELSE items[i - Len(received)]
  BY <1>1, ConcatProperties
<1>3. DOMAIN received' = 1 .. Len(received')
  BY <1>2, LenProperties
<1>4. ASSUME NEW i \in 1 .. Len(received')
      PROVE  IF received'[i].kind = "fatal" THEN i = Len(received') ELSE received'[i].job = i - 1
  <2>1. CASE i <= Len(received)
    <3>1. i \in DOMAIN received /\ received'[i] = received[i]
      BY <1>1, <1>2, <2>1
    <3>2. received[i].kind # "fatal" /\ received[i].job = i - 1
      BY <3>1 DEF NoFatal, KindsIn, DeliveredInOrder
    <3> QED BY <3>1, <3>2
  <2>2. CASE i > Len(received)
    <3>1. i - Len(received) \in 1 .. Len(items) /\ received'[i] = items[i - Len(received)]
      BY <1>1, <1>2, <2>2
    <3>2. IF received'[i].kind = "fatal" THEN i - Len(received) = Len(items)
          ELSE received'[i].job = nextRead + (i - Len(received)) - 1
      BY <3>1
    <3> QED BY <1>1, <1>2, <3>2
  <2> QED BY <1>1, <1>2, <2>1, <2>2
<1> QED BY <1>3, <1>4 DEF DeliveredInOrder

\* What a concatenation of items has, its parts have.
LEMMA ConcatKinds ==
  ASSUME NEW a \in Seq(Items), NEW b \in Seq(Items), NEW K
  PROVE  KindsIn(a \o b, K) <=> KindsIn(a, K) /\ KindsIn(b, K)
<1>1. /\ DOMAIN a = 1 .. Len(a) /\ Len(a) \in Nat
      /\ DOMAIN b = 1 .. Len(b) /\ Len(b) \in Nat
  BY LenProperties
<1>2. /\ a \o b \in Seq(Items)
      /\ Len(a \o b) = Len(a) + Len(b)
      /\ \A i \in 1 .. Len(a) + Len(b) : (a \o b)[i] =
            IF i <= Len(a) THEN a[i] ELSE b[i - Len(a)]
  BY ConcatProperties
<1>3. DOMAIN (a \o b) = 1 .. Len(a) + Len(b)
  BY <1>2, LenProperties
<1>4. ASSUME KindsIn(a \o b, K)
      PROVE  KindsIn(a, K) /\ KindsIn(b, K)
  <2>1. ASSUME NEW i \in DOMAIN a PROVE a[i].kind \in K
    BY <1>1, <1>2, <1>3, <1>4 DEF KindsIn
  <2>2. ASSUME NEW i \in DOMAIN b PROVE b[i].kind \in K
    <3>1. i + Len(a) \in 1 .. Len(a) + Len(b) /\ (a \o b)[i + Len(a)] = b[i]
      BY <1>1, <1>2
    <3> QED BY <1>3, <1>4, <3>1 DEF KindsIn
  <2> QED BY <2>1, <2>2 DEF KindsIn
<1>5. ASSUME KindsIn(a, K) /\ KindsIn(b, K)
      PROVE  KindsIn(a \o b, K)
  <2> USE DEF KindsIn
  <2> TAKE i \in DOMAIN (a \o b)
  <2>1. CASE i <= Len(a)
    BY <1>1, <1>2, <1>3, <1>5, <2>1
  <2>2. CASE i > Len(a)
    <3>1. i - Len(a) \in 1 .. Len(b) /\ (a \o b)[i] = b[i - Len(a)]
      BY <1>1, <1>2, <1>3, <2>2
    <3> QED BY <1>1, <1>5, <3>1
  <2> QED BY <1>1, <1>3, <2>1, <2>2
<1> QED BY <1>4, <1>5

\* A step that moves no job and delivers nothing keeps the delivery order and
\* the window; the workers may only leave the busy states.
LEMMA QuietStep ==
  ASSUME TypeInv, DeliveryInv, UNCHANGED <<slots, nextRead, received, wjob, nextJobIdx>>,
         \A w \in Workers : wpc'[w] \in Busy => wpc[w] \in Busy
  PROVE  ClaimedOnce' /\ Window' /\ DeliveredInOrder'
<1>1. ClaimedOnce'
  BY DEF DeliveryInv, ClaimedOnce
<1>2. Window'
  BY DEF DeliveryInv, Window, NoFatal, KindsIn
<1>3. DeliveredInOrder'
  BY DEF DeliveryInv, DeliveredInOrder
<1> QED BY <1>1, <1>2, <1>3

\* A step of a worker keeps the delivery invariant.
LEMMA WorkerKeepsDelivery ==
  ASSUME TypeInv, DeliveryInv, NEW w \in Workers, Worker(w)
  PROVE  DeliveryInv'
<1>0. /\ wpc \in [Workers -> WorkerStates] /\ wjob \in [Workers -> 0 .. TotalJobs]
      /\ nextJobIdx \in Nat
      /\ nextRead \in Nat
      /\ slots \in [0 .. Capacity - 1 -> Items \cup {NoItem}]
      /\ \A s \in 0 .. Capacity - 1 : slots[s] # NoItem => slots[s].job \in Nat
  BY QueueAssumption DEF TypeInv, TypeOK, WorkerType, QueueType, Items
<1>1. ASSUME UNCHANGED <<qClosed, terminalItem, received, batch, cpc, outcome>>
      PROVE  ClosedByFailure' /\ ErrorsSeen' /\ NoSilentTruncation'
  BY <1>1 DEF DeliveryInv, ClosedByFailure, ErrorsSeen, NoSilentTruncation, NoFatal, AllOk, KindsIn
<1>2. ASSUME UNCHANGED <<queueVars, consumerVars, wjob, nextJobIdx>>,
             \A v \in Workers : wpc'[v] \in Busy => wpc[v] \in Busy
      PROVE  DeliveryInv'
  BY <1>1, <1>2, QuietStep DEF DeliveryInv, queueVars, consumerVars
<1>3. CASE Claim(w)
  <2>0. UNCHANGED <<queueVars, consumerVars>>
    BY <1>3 DEF Claim
  <2>1. CASE /\ wpc' = [wpc EXCEPT ![w] = "exited"] /\ wjob' = wjob
             /\ nextJobIdx' \in {nextJobIdx, nextJobIdx + 1}
    <3>1. ClaimedOnce'
      BY <1>0, <2>0, <2>1 DEF DeliveryInv, ClaimedOnce, Busy, queueVars
    <3>2. Window'
      <4>1. NoFatal' = NoFatal /\ UNCHANGED <<slots, received, nextRead>>
        BY <2>0 DEF NoFatal, KindsIn, queueVars, consumerVars
      <4>2. Window
        BY DEF DeliveryInv
      <4>3. nextRead <= nextJobIdx => nextRead <= nextJobIdx'
        BY <1>0, <2>1
      <4>4. \A v \in Workers : wpc'[v] \in Busy => wpc[v] \in Busy
        BY <1>0, <2>1 DEF Busy
      <4> QED BY <2>1, <4>1, <4>2, <4>3, <4>4 DEF Window
    <3>3. DeliveredInOrder'
      BY <2>0 DEF DeliveryInv, DeliveredInOrder, consumerVars
    <3> QED BY <1>1, <2>0, <3>1, <3>2, <3>3 DEF DeliveryInv, queueVars, consumerVars
  <2>2. CASE /\ wpc' = [wpc EXCEPT ![w] = "turn"]
             /\ wjob' = [wjob EXCEPT ![w] = nextJobIdx]
             /\ nextJobIdx' = nextJobIdx + 1
    <3>1. ClaimedOnce'
      BY <1>0, <2>0, <2>2 DEF DeliveryInv, ClaimedOnce, Busy, queueVars
    <3>2. Window'
      <4>1. NoFatal' = NoFatal /\ UNCHANGED <<slots, received, nextRead>>
        BY <2>0 DEF NoFatal, KindsIn, queueVars, consumerVars
      <4>2. Window
        BY DEF DeliveryInv
      <4>3. nextRead <= nextJobIdx => nextRead <= nextJobIdx'
        BY <1>0, <2>2
      <4>4. \A v \in Workers \ {w} : wpc'[v] = wpc[v] /\ wjob'[v] = wjob[v]
        BY <1>0, <2>2
      <4>5. wjob'[w] = nextJobIdx
        BY <1>0, <2>2
      <4> QED BY <4>1, <4>2, <4>3, <4>4, <4>5 DEF Window
    <3>3. DeliveredInOrder'
      BY <2>0 DEF DeliveryInv, DeliveredInOrder, consumerVars
    <3> QED BY <1>1, <2>0, <3>1, <3>2, <3>3 DEF DeliveryInv, queueVars, consumerVars
  <2> QED BY <1>3, <2>1, <2>2, Zenon DEF Claim, Goto
<1>4. CASE AwaitTurn(w) \/ Admit(w) \/ Decode(w) \/ Refund(w) \/ Abort(w)
  <2>1. UNCHANGED <<queueVars, consumerVars, wjob, nextJobIdx>>
    BY <1>4, Zenon DEF AwaitTurn, Admit, Decode, Refund, Abort
  <2>2. \A v \in Workers : wpc'[v] \in Busy => wpc[v] \in Busy
    BY <1>0, <1>4 DEF AwaitTurn, Admit, Decode, Refund, Abort, Goto, Busy
  <2> QED BY <1>2, <2>1, <2>2
<1>5. CASE Push(w)
  <2>0. wpc[w] = "push" /\ UNCHANGED <<wjob, nextJobIdx, consumerVars>>
    BY <1>5 DEF Push
  <2>1. CASE PushSleeps(w, wjob[w]) /\ UNCHANGED <<wpc, held>>
    <3>1. UNCHANGED <<slots, nextRead, qClosed, terminalItem, wpc>>
      BY <2>1 DEF PushSleeps
    <3> QED BY <1>1, <2>0, <3>1, QuietStep DEF DeliveryInv, consumerVars
  <2>2. CASE PushStores(wjob[w], Result(w)) /\ Goto(w, "poll") /\ Holds(w, 0)
    <3> DEFINE j == wjob[w]
    <3>1. /\ ~qClosed /\ UNCHANGED <<nextRead, qClosed, terminalItem>>
          /\ ~MustWait(j)
          /\ slots' = [slots EXCEPT ![Slot(j)] = Result(w)]
          /\ wpc' = [wpc EXCEPT ![w] = "poll"]
      BY <2>2 DEF PushStores, Goto
    <3>2. j \in Nat /\ j < nextRead + Capacity /\ Slot(j) \in 0 .. Capacity - 1
      BY <1>0, <3>1, SlotType, QueueAssumption DEF MustWait
    <3>3. NoFatal
      BY <3>1 DEF DeliveryInv, ClosedByFailure
    <3>4. nextRead <= j /\ j < nextJobIdx
      BY <2>0, <3>3 DEF DeliveryInv, Window, ClaimedOnce, Busy
    <3>5. Result(w).job = j /\ Result(w).kind # "fatal"
      BY DEF Result, DecodeError, Chunk
    <3>6. ClaimedOnce'
      <4>1. /\ \A v \in Workers : wpc'[v] \in Busy => wjob'[v] < nextJobIdx'
            /\ \A u, v \in Workers : u # v /\ wpc'[u] \in Busy /\ wpc'[v] \in Busy => wjob'[u] # wjob'[v]
        BY <1>0, <2>0, <3>1 DEF DeliveryInv, ClaimedOnce, Busy
      <4>2. ASSUME NEW s \in 0 .. Capacity - 1, slots'[s] # NoItem
            PROVE  /\ slots'[s].kind # "fatal"
                   /\ slots'[s].job < nextJobIdx'
                   /\ \A v \in Workers : wpc'[v] \in Busy => slots'[s].job # wjob'[v]
        <5>1. CASE s = Slot(j)
          <6>1. slots'[s] = Result(w)
            BY <1>0, <3>1, <3>2, <5>1
          <6>2. \A v \in Workers : wpc'[v] \in Busy => j # wjob'[v]
            BY <1>0, <2>0, <3>1 DEF DeliveryInv, ClaimedOnce, Busy
          <6> QED BY <2>0, <3>4, <3>5, <6>1, <6>2
        <5>2. CASE s # Slot(j)
          <6>1. slots'[s] = slots[s]
            BY <1>0, <3>1, <5>2
          <6> QED BY <1>0, <2>0, <3>1, <4>2, <6>1 DEF DeliveryInv, ClaimedOnce, Busy
        <5> QED BY <5>1, <5>2
      <4> QED BY <4>1, <4>2 DEF ClaimedOnce
    <3>7. Window'
      <4>1. ASSUME NEW s \in 0 .. Capacity - 1, slots'[s] # NoItem
            PROVE  s = Slot(slots'[s].job) /\ nextRead <= slots'[s].job /\ slots'[s].job < nextRead + Capacity
        <5>1. CASE s = Slot(j)
          <6>1. slots'[s] = Result(w)
            BY <1>0, <3>1, <3>2, <5>1
          <6> QED BY <3>2, <3>4, <3>5, <5>1, <6>1
        <5>2. CASE s # Slot(j)
          <6>1. slots'[s] = slots[s]
            BY <1>0, <3>1, <5>2
          <6> QED BY <3>3, <4>1, <6>1 DEF DeliveryInv, Window
        <5> QED BY <5>1, <5>2
      <4>2. \A v \in Workers : wpc'[v] \in Busy => nextRead <= wjob'[v]
        BY <1>0, <2>0, <3>1, <3>3 DEF DeliveryInv, Window, Busy
      <4>3. Len(received') = nextRead /\ nextRead <= nextJobIdx
        BY <2>0, <3>3 DEF DeliveryInv, Window, consumerVars
      <4> QED BY <2>0, <3>1, <4>1, <4>2, <4>3 DEF Window
    <3>8. DeliveredInOrder'
      BY <2>0 DEF DeliveryInv, DeliveredInOrder, consumerVars
    <3> QED BY <1>1, <2>0, <3>1, <3>6, <3>7, <3>8 DEF DeliveryInv, consumerVars
  <2>3. CASE PushRefused /\ Goto(w, "refund") /\ UNCHANGED held
    <3>1. UNCHANGED queueVars /\ wpc' = [wpc EXCEPT ![w] = "refund"]
      BY <2>3 DEF PushRefused, Goto
    <3>2. \A v \in Workers : wpc'[v] \in Busy => wpc[v] \in Busy
      BY <1>0, <3>1 DEF Busy
    <3> QED BY <1>2, <2>0, <3>1, <3>2
  <2> QED BY <1>5, <2>1, <2>2, <2>3 DEF Push
<1>6. CASE Report(w)
  <2>1. /\ wpc' = [wpc EXCEPT ![w] = "exited"]
        /\ terminalItem' = IF qClosed THEN terminalItem ELSE Fatal
        /\ qClosed' = TRUE
        /\ UNCHANGED <<slots, nextRead, wjob, nextJobIdx, received, batch, cpc, outcome>>
    BY <1>6, Zenon DEF Report, FailQueue, Goto, consumerVars
  <2>2. \A v \in Workers : wpc'[v] \in Busy => wpc[v] \in Busy
    BY <1>0, <2>1 DEF Busy
  <2>3. ClaimedOnce' /\ Window' /\ DeliveredInOrder'
    BY <2>1, <2>2, QuietStep
  <2>4. Fatal # NoItem
    BY ItemTypes, PrefetchAssumption
  <2>5. cpc \notin Closing => terminalItem' # NoItem
    BY <2>1, <2>4, Zenon DEF DeliveryInv, ClosedByFailure
  <2>6. ClosedByFailure'
    BY <2>1, <2>5, Zenon DEF DeliveryInv, ClosedByFailure, NoFatal, KindsIn
  <2>7. ErrorsSeen' /\ NoSilentTruncation'
    BY <2>1 DEF DeliveryInv, ErrorsSeen, NoSilentTruncation, AllOk, KindsIn
  <2> QED BY <2>3, <2>6, <2>7 DEF DeliveryInv
<1> QED BY <1>3, <1>4, <1>5, <1>6 DEF Worker

\* Taking the ready run, with the terminal error behind it if one has arrived,
\* keeps the delivery invariant.
LEMMA TakeRunKeepsDelivery ==
  ASSUME TypeInv, DeliveryInv, cpc \in {"idle", "drain", "more"},
         NEW max \in Int, NEW want \in Int, NEW n \in 0 .. Capacity,
         IsRun(n, max), TakeRun(n, want), UNCHANGED workerVars
  PROVE  DeliveryInv'
<1> DEFINE items == IF terminalItem = NoItem THEN Run(n) ELSE Append(Run(n), terminalItem)
           sleeps == n < want /\ nextRead + n < TotalJobs /\ ~qClosed
<1>1. /\ QueueType /\ ConsumerType /\ WorkerType
      /\ received \in Seq(Items) /\ batch \in Seq(Items)
      /\ nextRead \in Nat /\ nextJobIdx \in Nat
      /\ \A s \in 0 .. Capacity - 1 : slots[s] # NoItem => slots[s].job \in Nat
  BY QueueAssumption DEF TypeInv, TypeOK, WorkerType, QueueType, ConsumerType, Items
<1>2. NoFatal /\ Len(received) = nextRead
  BY DEF DeliveryInv, ClosedByFailure, Window, Closing
<1>3. /\ Run(n) \in Seq(Items) /\ Len(Run(n)) = n /\ n \in Nat
      /\ nextRead + n \in 0 .. TotalJobs
  BY <1>1, RunType, QueueAssumption
<1>4. /\ \A i \in 1 .. n : Run(n)[i].job = nextRead + i - 1 /\ Run(n)[i].kind # "fatal"
      /\ \A w \in Workers : wpc[w] \in Busy => nextRead + n <= wjob[w]
      /\ nextRead + n <= nextJobIdx
  BY <1>2, RunIsNextJobs DEF DeliveryInv
<1>5. terminalItem \in {Fatal, NoItem} /\ Fatal \in Items /\ Fatal.kind = "fatal"
  BY <1>1, ItemTypes DEF QueueType, Fatal
<1>6. sleeps => terminalItem = NoItem
  BY DEF DeliveryInv, ClosedByFailure
<1>7. items \in Seq(Items)
  BY <1>3, <1>5, AppendProperties
<1>8. /\ slots' = WithoutRun(n) /\ qClosed' = qClosed /\ terminalItem' = NoItem
      /\ nextRead' = IF terminalItem = NoItem THEN nextRead + n ELSE TotalJobs
      /\ received' = received \o items /\ batch' = batch \o items
  <2>1. CASE sleeps
    BY <1>6, <2>1, Zenon DEF TakeRun, DrainTakesAndSleeps
  <2>2. CASE ~sleeps
    BY <2>2, Zenon DEF TakeRun, DrainTakes, Deliver
  <2> QED BY <2>1, <2>2
<1>9. \/ cpc' = "more" /\ ~qClosed /\ outcome' = outcome
      \/ cpc' = "close" /\ outcome' = "failed"
      \/ cpc' = "process" /\ outcome' = outcome /\ AllOk(batch')
  <2>1. CASE sleeps
    BY <2>1, Zenon DEF TakeRun
  <2>2. CASE ~sleeps
    <3>1. Deliver(items)
      BY <2>2, Zenon DEF TakeRun
    <3>2. CASE \E i \in DOMAIN batch' : batch'[i].kind # "ok"
      BY <3>1, <3>2, Zenon DEF Deliver
    <3>3. CASE ~ \E i \in DOMAIN batch' : batch'[i].kind # "ok"
      BY <3>1, <3>3 DEF Deliver, AllOk, KindsIn
    <3> QED BY <3>2, <3>3
  <2> QED BY <2>1, <2>2
<1>10. terminalItem # NoItem => ~KindsIn(items, {"ok", "err"}) /\ ~AllOk(items)
  <2> SUFFICES ASSUME terminalItem # NoItem
               PROVE  ~KindsIn(items, {"ok", "err"}) /\ ~AllOk(items)
    OBVIOUS
  <2>1. items = Append(Run(n), Fatal)
    BY <1>5
  <2>2. Len(items) = n + 1 /\ items[n + 1] = Fatal
    BY <1>3, <1>5, <2>1, AppendProperties
  <2>3. n + 1 \in DOMAIN items
    BY <1>3, <1>7, <2>2, LenProperties
  <2> HIDE DEF items
  <2> QED BY <1>5, <2>2, <2>3 DEF KindsIn, AllOk
<1>11. terminalItem = NoItem => KindsIn(items, {"ok", "err"})
  <2> SUFFICES ASSUME terminalItem = NoItem PROVE KindsIn(Run(n), {"ok", "err"})
    OBVIOUS
  <2>1. ASSUME NEW i \in DOMAIN Run(n) PROVE Run(n)[i].kind \in {"ok", "err"}
    <3>1. i \in 1 .. n /\ Run(n)[i] \in Items
      BY <1>3, LenProperties
    <3>2. Run(n)[i].kind \in {"ok", "err", "fatal"}
      BY <3>1 DEF Items
    <3> QED BY <1>4, <3>1, <3>2
  <2> QED BY <2>1 DEF KindsIn
<1>12. NoFatal' <=> terminalItem = NoItem
  <2>1. NoFatal' <=> KindsIn(received \o items, {"ok", "err"})
    BY <1>8 DEF NoFatal, KindsIn
  <2>2. KindsIn(received \o items, {"ok", "err"})
        <=> NoFatal /\ KindsIn(items, {"ok", "err"})
    BY <1>1, <1>7, ConcatKinds DEF NoFatal
  <2> HIDE DEF items
  <2> QED BY <1>2, <1>10, <1>11, <2>1, <2>2
<1>13. AllOk(batch') => AllOk(items) /\ AllOk(received')
  <2>1. AllOk(batch') <=> AllOk(batch) /\ AllOk(items)
    BY <1>1, <1>7, <1>8, ConcatKinds DEF AllOk
  <2>2. AllOk(received') <=> AllOk(received) /\ AllOk(items)
    BY <1>1, <1>7, <1>8, ConcatKinds DEF AllOk
  <2>3. AllOk(batch) => AllOk(received)
    BY DEF DeliveryInv, ErrorsSeen
  <2> HIDE DEF items
  <2> QED BY <2>1, <2>2, <2>3
<1>14. \A s \in 0 .. Capacity - 1 : slots'[s] # NoItem => slots'[s] = slots[s]
  BY <1>8 DEF WithoutRun
<1>15. UNCHANGED <<wpc, wjob, nextJobIdx>>
  BY DEF workerVars
<1>16. ClaimedOnce'
  BY <1>14, <1>15 DEF DeliveryInv, ClaimedOnce
<1>17. Window'
  <2> SUFFICES ASSUME terminalItem = NoItem
      PROVE /\ Len(received') = nextRead'
            /\ nextRead' <= nextJobIdx'
            /\ \A s \in 0 .. Capacity - 1 : slots'[s] # NoItem =>
                  /\ s = Slot(slots'[s].job)
                  /\ nextRead' <= slots'[s].job
                  /\ slots'[s].job < nextRead' + Capacity
            /\ \A w \in Workers : wpc'[w] \in Busy => nextRead' <= wjob'[w]
    BY <1>12 DEF Window
  <2>1. nextRead' = nextRead + n /\ received' = received \o Run(n)
    BY <1>8
  <2>2. Len(received') = nextRead'
    BY <1>1, <1>2, <1>3, <2>1, ConcatProperties
  <2>3. ASSUME NEW s \in 0 .. Capacity - 1, slots'[s] # NoItem
        PROVE  /\ s = Slot(slots'[s].job)
               /\ nextRead' <= slots'[s].job
               /\ slots'[s].job < nextRead' + Capacity
    <3> DEFINE j == slots[s].job
    <3>1. slots'[s] = slots[s] /\ slots[s] # NoItem /\ j \in Nat
      BY <1>1, <1>14, <2>3
    <3>2. s = Slot(j) /\ nextRead <= j /\ j < nextRead + Capacity
      BY <1>2, <3>1 DEF DeliveryInv, Window
    <3> HIDE DEF j
    <3>3. nextRead + n <= j
      <4> SUFFICES ASSUME j < nextRead + n PROVE FALSE
        BY <1>1, <1>3, <3>1
      <4>1. j - nextRead \in 0 .. n - 1 /\ nextRead + (j - nextRead) = j
        BY <1>1, <1>3, <3>1, <3>2
      <4>2. \E i \in 0 .. n - 1 : s = Slot(nextRead + i)
        BY <3>2, <4>1
      <4>3. slots'[s] = NoItem
        BY <1>8, <4>2 DEF WithoutRun
      <4> QED BY <2>3, <4>3
    <3>4. nextRead' <= j /\ j < nextRead' + Capacity
      <4>1. nextRead \in Nat /\ n \in Nat /\ j \in Nat
        BY <1>1, <1>3, <3>1
      <4>2. nextRead' = nextRead + n
        BY <2>1
      <4>3. j < nextRead + Capacity
        BY <3>2
      <4> QED BY <3>3, <4>1, <4>2, <4>3, QueueAssumption
    <3> QED BY <3>1, <3>2, <3>4 DEF j
  <2> QED BY <1>4, <1>15, <2>1, <2>2, <2>3
<1>18. ClosedByFailure'
  <2>1. ~NoFatal' => qClosed' /\ cpc' \in Closing
    <3> SUFFICES ASSUME terminalItem # NoItem PROVE qClosed' /\ cpc' \in Closing
      BY <1>12
    <3>1. qClosed
      BY DEF DeliveryInv, ClosedByFailure
    <3>2. ~AllOk(batch')
      BY <1>10, <1>13
    <3> QED BY <1>8, <1>9, <3>1, <3>2, Zenon DEF Closing
  <2>2. ~(qClosed' /\ cpc' \notin Closing)
    <3> SUFFICES ASSUME qClosed, cpc' \notin Closing PROVE FALSE
      BY <1>8
    <3>1. terminalItem # NoItem
      BY DEF DeliveryInv, ClosedByFailure, Closing
    <3> QED BY <1>9, <1>10, <1>13, <3>1, Zenon DEF Closing
  <2> QED BY <1>8, <2>1, <2>2, Zenon DEF ClosedByFailure
<1>19. DeliveredInOrder'
  <2>1. ASSUME NEW i \in 1 .. Len(items)
        PROVE  IF items[i].kind = "fatal" THEN i = Len(items) ELSE items[i].job = nextRead + i - 1
    <3>1. CASE terminalItem = NoItem
      BY <1>3, <1>4, <3>1
    <3>2. CASE terminalItem # NoItem
      <4>1. items = Append(Run(n), Fatal)
        BY <1>5, <3>2
      <4>2. /\ Len(items) = n + 1 /\ items[n + 1] = Fatal
            /\ \A k \in 1 .. n : items[k] = Run(n)[k]
        BY <1>3, <1>5, <4>1, AppendProperties
      <4> HIDE DEF items
      <4>3. i \in 1 .. n \/ i = n + 1
        BY <1>3, <4>2
      <4> QED BY <1>4, <1>5, <4>2, <4>3
    <3> QED BY <3>1, <3>2
  <2> HIDE DEF items
  <2> QED BY <1>2, <1>7, <1>8, <2>1, AppendInOrder DEF DeliveryInv
<1>20. outcome' # "eof"
  BY <1>9 DEF DeliveryInv, ErrorsSeen, Closing
<1>21. ErrorsSeen'
  BY <1>9, <1>13, <1>20, Zenon DEF ErrorsSeen
<1>22. NoSilentTruncation'
  BY <1>20 DEF NoSilentTruncation
<1> QED BY <1>16, <1>17, <1>18, <1>19, <1>21, <1>22 DEF DeliveryInv

\* A step of the consumer keeps the delivery invariant.
LEMMA ConsumerKeepsDelivery ==
  ASSUME TypeInv, DeliveryInv, Consumer
  PROVE  DeliveryInv'
<1>0. ASSUME UNCHANGED <<slots, nextRead, received, workerVars>>
      PROVE  ClaimedOnce' /\ Window' /\ DeliveredInOrder'
  BY <1>0, QuietStep DEF workerVars
<1>1. CASE Drain
  <2>0. cpc \in {"idle", "drain"} /\ UNCHANGED workerVars
    BY <1>1 DEF Drain
  <2>1. CASE DrainSleeps /\ cpc' = "drain" /\ UNCHANGED <<batch, received, outcome>>
    <3>1. UNCHANGED <<slots, nextRead, received, workerVars, qClosed, terminalItem, outcome>>
      BY <2>0, <2>1 DEF DrainSleeps
    <3>2. ClosedByFailure'
      BY <2>0, <2>1, <3>1 DEF DeliveryInv, ClosedByFailure, Closing, NoFatal, KindsIn
    <3>3. ErrorsSeen' /\ NoSilentTruncation'
      BY <2>0, <2>1, <3>1 DEF DeliveryInv, ErrorsSeen, NoSilentTruncation, AllOk, KindsIn, Closing
    <3> QED BY <1>0, <3>1, <3>2, <3>3 DEF DeliveryInv
  <2>2. CASE DrainTerminal /\ Deliver(<<terminalItem>>)
    <3> DEFINE items == <<Fatal>>
    <3>1. terminalItem = Fatal /\ Fatal \in Items /\ Fatal.kind = "fatal"
      BY <2>2, ItemTypes DEF DrainTerminal, TypeInv, TypeOK, QueueType, Fatal
    <3>2. items \in Seq(Items) /\ Len(items) = 1 /\ items[1] = Fatal /\ DOMAIN items = 1 .. 1
      BY <3>1
    <3>3. received \in Seq(Items) /\ batch \in Seq(Items)
      BY DEF TypeInv, TypeOK, ConsumerType
    <3> HIDE DEF items
    <3>4. /\ received' = received \o items /\ batch' = batch \o items
          /\ UNCHANGED <<slots, qClosed>> /\ terminalItem' = NoItem
      BY <2>2, <3>1 DEF DrainTerminal, Deliver, items
    <3>5. NoFatal /\ Len(received) = nextRead /\ qClosed
      BY <2>0, <2>2 DEF DeliveryInv, ClosedByFailure, Window, Closing, DrainTerminal
    <3>6. ~KindsIn(items, {"ok", "err"}) /\ ~KindsIn(items, {"ok"})
      BY <3>1, <3>2 DEF KindsIn
    <3>7. ~NoFatal'
      BY <3>2, <3>3, <3>4, <3>6, ConcatKinds DEF NoFatal
    <3>8. ~AllOk(batch')
      BY <3>2, <3>3, <3>4, <3>6, ConcatKinds DEF AllOk
    <3>9. cpc' = "close" /\ outcome' = "failed"
      BY <2>2, <3>8 DEF Deliver, AllOk, KindsIn
    <3>10. ClaimedOnce'
      BY <2>0, <3>4 DEF DeliveryInv, ClaimedOnce, workerVars
    <3>11. Window'
      BY <3>7 DEF Window
    <3>12. ClosedByFailure'
      BY <3>4, <3>5, <3>9, Zenon DEF ClosedByFailure, Closing
    <3>13. DeliveredInOrder'
      <4>1. \A i \in 1 .. Len(items) :
              IF items[i].kind = "fatal" THEN i = Len(items)
              ELSE items[i].job = nextRead + i - 1
        BY <3>1, <3>2
      <4> QED BY <3>2, <3>4, <3>5, <4>1, AppendInOrder DEF DeliveryInv
    <3>14. ErrorsSeen' /\ NoSilentTruncation'
      BY <3>9 DEF ErrorsSeen, NoSilentTruncation, Closing
    <3> QED BY <3>10, <3>11, <3>12, <3>13, <3>14 DEF DeliveryInv
  <2>3. CASE /\ DrainsNothing
             /\ cpc' = "close"
             /\ outcome' = "eof"
             /\ UNCHANGED <<batch, received>>
    <3>1. UNCHANGED <<slots, nextRead, received, workerVars, qClosed, terminalItem>>
          /\ terminalItem = NoItem
      BY <2>0, <2>3 DEF DrainsNothing, queueVars
    <3>2. ~qClosed /\ NoFatal
      BY <2>0, <3>1 DEF DeliveryInv, ClosedByFailure, Closing
    <3>3. nextRead = TotalJobs
      BY <2>3, <3>2, QueueAssumption DEF DrainsNothing, TypeInv, TypeOK, QueueType
    <3>4. Len(received) = TotalJobs /\ AllOk(received)
      BY <2>0, <3>2, <3>3 DEF DeliveryInv, Window, ErrorsSeen
    <3>5. NoSilentTruncation'
      BY <3>1, <3>4 DEF NoSilentTruncation, AllOk, KindsIn
    <3>6. ClosedByFailure'
      BY <2>3, <3>1, <3>2 DEF ClosedByFailure, Closing, NoFatal, KindsIn
    <3>7. ErrorsSeen'
      BY <2>3 DEF ErrorsSeen, Closing
    <3> QED BY <1>0, <3>1, <3>5, <3>6, <3>7 DEF DeliveryInv
  <2>4. CASE /\ terminalItem = NoItem
             /\ \E n \in 1 .. Capacity : IsRun(n, MaxBatch) /\ TakeRun(n, MinBatch)
    <3>1. PICK n \in 1 .. Capacity : IsRun(n, MaxBatch) /\ TakeRun(n, MinBatch)
      BY <2>4
    <3>2. n \in 0 .. Capacity /\ MaxBatch \in Int /\ MinBatch \in Int
      BY QueueAssumption, PrefetchAssumption
    <3> QED BY <2>0, <3>1, <3>2, TakeRunKeepsDelivery
  <2> QED BY <1>1, <2>1, <2>2, <2>3, <2>4 DEF Drain
<1>2. CASE DrainMore
  <2> DEFINE want == IF qClosed THEN 1 ELSE MinBatch - Len(batch)
  <2>1. PICK n \in 0 .. Capacity : IsRun(n, want) /\ TakeRun(n, want)
    BY <1>2 DEF DrainMore
  <2>2. want \in Int
    BY LenProperties, PrefetchAssumption DEF TypeInv, TypeOK, ConsumerType
  <2>3. cpc = "more" /\ UNCHANGED workerVars
    BY <1>2 DEF DrainMore
  <2> HIDE DEF want
  <2> QED BY <2>1, <2>2, <2>3, TakeRunKeepsDelivery
<1>3. CASE Process \/ RecycleOne \/ Cancel \/ DropBudget \/ Join
  <2>1. /\ UNCHANGED <<queueVars, received, workerVars>>
        /\ cpc' \in {"idle", "recycle"} =>
              cpc \in {"idle", "process", "recycle"} /\ outcome' = outcome
        /\ cpc \in Closing => cpc' \in Closing /\ outcome' = outcome
        /\ cpc' \in Closing \cup {"idle", "recycle"}
        /\ cpc \notin Closing => outcome' \in {outcome, "failed", "cancelled"}
    BY <1>3 DEF Process, RecycleOne, Cancel, DropBudget, Join, Closing
  <2>2. UNCHANGED <<slots, nextRead, received, workerVars, qClosed, terminalItem>>
    BY <2>1 DEF queueVars
  <2>3. cpc \notin Closing => outcome # "eof"
    BY DEF DeliveryInv, ErrorsSeen
  <2>4. ClosedByFailure'
    BY <2>1, <2>2 DEF DeliveryInv, ClosedByFailure, Closing, NoFatal, KindsIn
  <2>5. ErrorsSeen'
    BY <2>1, <2>2, <2>3 DEF DeliveryInv, ErrorsSeen, AllOk, KindsIn, Closing
  <2>6. NoSilentTruncation'
    BY <2>1, <2>2, <2>3 DEF DeliveryInv, NoSilentTruncation
  <2> QED BY <1>0, <2>2, <2>4, <2>5, <2>6 DEF DeliveryInv
<1>4. CASE DropQueue
  <2>1. /\ cpc = "close" /\ cpc' = "closeBudget" /\ qClosed' = TRUE
        /\ UNCHANGED <<slots, nextRead, terminalItem, received, batch, outcome, workerVars>>
    BY <1>4, Zenon DEF DropQueue, CloseQueue
  <2>2. ClosedByFailure'
    BY <2>1, Zenon DEF ClosedByFailure, Closing
  <2>3. ErrorsSeen' /\ NoSilentTruncation'
    BY <2>1 DEF DeliveryInv, ErrorsSeen, NoSilentTruncation, Closing
  <2> QED BY <1>0, <2>1, <2>2, <2>3 DEF DeliveryInv
<1> QED BY <1>1, <1>2, <1>3, <1>4 DEF Consumer

\* DeliveryInv is inductive relative to TypeInv.
LEMMA DeliveryInvInductive ==
  /\ Init => DeliveryInv
  /\ TypeInv /\ DeliveryInv /\ [Next]_vars => DeliveryInv'
<1>1. ASSUME Init PROVE DeliveryInv
  <2>1. /\ slots = [s \in 0 .. Capacity - 1 |-> NoItem] /\ nextRead = 0 /\ ~qClosed
        /\ terminalItem = NoItem /\ wpc = [w \in Workers |-> "poll"] /\ nextJobIdx = 0
        /\ cpc = "idle" /\ batch = <<>> /\ received = <<>> /\ outcome = "open"
    BY <1>1, Zenon DEF Init, QueueInit
  <2>2. received = <<>> /\ Len(received) = 0 /\ DOMAIN received = {}
    BY <2>1
  <2>3. NoFatal /\ AllOk(received)
    BY <2>2 DEF NoFatal, AllOk, KindsIn
  <2>4. ClaimedOnce /\ Window
    BY <2>1, <2>2 DEF ClaimedOnce, Window, Busy
  <2>5. ClosedByFailure /\ DeliveredInOrder
    BY <2>1, <2>2, <2>3 DEF ClosedByFailure, DeliveredInOrder
  <2>6. ErrorsSeen /\ NoSilentTruncation
    BY <2>1, <2>3 DEF ErrorsSeen, NoSilentTruncation
  <2> QED BY <2>4, <2>5, <2>6 DEF DeliveryInv
<1>2. ASSUME TypeInv, DeliveryInv, [Next]_vars PROVE DeliveryInv'
  <2>1. CASE UNCHANGED vars
    <3>1. UNCHANGED <<slots, nextRead, qClosed, terminalItem, wpc, wjob, nextJobIdx,
                      cpc, batch, received, outcome>>
      BY <2>1 DEF vars, queueVars, workerVars, consumerVars
    <3>2. ClaimedOnce' /\ Window' /\ DeliveredInOrder'
      BY <1>2, <3>1, QuietStep
    <3>3. ClosedByFailure' /\ ErrorsSeen' /\ NoSilentTruncation'
      BY <1>2, <3>1 DEF DeliveryInv, ClosedByFailure, ErrorsSeen, NoSilentTruncation,
         NoFatal, AllOk, KindsIn
    <3> QED BY <3>2, <3>3 DEF DeliveryInv
  <2> QED BY <1>2, <2>1, WorkerKeepsDelivery, ConsumerKeepsDelivery DEF Next, Finished
<1> QED BY <1>1, <1>2

\* Chunks reach the streamer in job order, without gap or repetition, for any
\* number of workers and any ring: the order of drain_into is the order of the
\* mosaic, and only the terminal error, delivered last, departs from it.
THEOREM DeliveryOrder == Spec => []DeliveredInOrder
<1>1. TypeInv /\ DeliveryInv => DeliveredInOrder
  BY DEF DeliveryInv
<1> QED BY <1>1, TypeInvInductive, DeliveryInvInductive, PTL DEF Spec

\* A drain that returns nothing while no error was seen is the end of the
\* mosaic: a failing worker's close is never mistaken for it.
THEOREM EndIsComplete == Spec => []NoSilentTruncation
<1>1. TypeInv /\ DeliveryInv => NoSilentTruncation
  BY DEF DeliveryInv
<1> QED BY <1>1, TypeInvInductive, DeliveryInvInductive, PTL DEF Spec

\* The window keeps the slot of a job that may be pushed free.
LEMMA PushFindsSlotFree ==
  ASSUME TypeInv, DeliveryInv, NEW w \in Workers, wpc[w] = "push",
         PushStores(wjob[w], Result(w))
  PROVE  Slot(wjob[w]) \in 0 .. Capacity - 1 /\ slots[Slot(wjob[w])] = NoItem
<1> DEFINE j == wjob[w]
<1>1. ~qClosed /\ ~MustWait(j)
  BY DEF PushStores
<1>2. nextRead \in Nat /\ j \in Nat /\ Slot(j) \in 0 .. Capacity - 1
  BY SlotType DEF TypeInv, TypeOK, QueueType, WorkerType
<1>3. j < nextRead + Capacity
  BY <1>1, <1>2, QueueAssumption DEF MustWait
<1>4. NoFatal
  BY <1>1 DEF DeliveryInv, ClosedByFailure
<1>5. nextRead <= j
  BY <1>4 DEF DeliveryInv, Window, Busy
<1>6. ASSUME slots[Slot(j)] # NoItem PROVE FALSE
  <2> DEFINE k == slots[Slot(j)].job
  <2>1. k \in Nat
    BY <1>2, <1>6, QueueAssumption DEF Items, TypeInv, TypeOK, QueueType
  <2>2. Slot(j) = Slot(k) /\ nextRead <= k /\ k < nextRead + Capacity
    BY <1>2, <1>4, <1>6 DEF DeliveryInv, Window
  <2>3. k # j
    BY <1>2, <1>6 DEF DeliveryInv, ClaimedOnce, Busy
  <2> HIDE DEF j, k
  <2> QED BY <1>2, <1>3, <1>5, <2>1, <2>2, <2>3, SlotInjective
<1> QED BY <1>2, <1>6

\* A slot changes only by being emptied or filled when empty: push never
\* overwrites a chunk, for any Capacity and any number of workers.
THEOREM PushesKeepChunks == Spec => NoOverwrite
<1> DEFINE Keeps == \A s \in DOMAIN slots : slots[s] # NoItem => slots'[s] \in {slots[s], NoItem}
<1>1. ASSUME TypeInv, DeliveryInv, [Next]_vars PROVE [Keeps]_vars
  <2>0. slots \in [0 .. Capacity - 1 -> Items \cup {NoItem}] /\ DOMAIN slots = 0 .. Capacity - 1
    BY <1>1 DEF TypeInv, TypeOK, QueueType
  <2>1. ASSUME NEW w \in Workers, PushStores(wjob[w], Result(w)), wpc[w] = "push" PROVE Keeps
    <3>1. slots' = [slots EXCEPT ![Slot(wjob[w])] = Result(w)]
      BY <2>1 DEF PushStores
    <3>2. Slot(wjob[w]) \in 0 .. Capacity - 1 /\ slots[Slot(wjob[w])] = NoItem
      BY <1>1, <2>1, PushFindsSlotFree
    <3> QED BY <2>0, <3>1, <3>2
  <2>2. ASSUME NEW n, slots' = WithoutRun(n) PROVE Keeps
    BY <2>0, <2>2 DEF WithoutRun
  <2>3. ASSUME UNCHANGED slots PROVE Keeps
    BY <2>3
  <2>4. CASE Consumer
    BY <2>2, <2>3, <2>4 DEF Consumer, Drain, DrainMore, Process, RecycleOne, Cancel,
       DropQueue, DropBudget, Join, DrainSleeps, DrainTerminal, DrainsNothing, TakeRun,
       DrainTakes, DrainTakesAndSleeps, CloseQueue, queueVars
  <2>5. ASSUME NEW w \in Workers, Worker(w) PROVE Keeps
    <3>1. CASE Push(w)
      BY <2>1, <2>3, <3>1 DEF Push, PushSleeps, PushRefused, queueVars
    <3>2. CASE ~Push(w)
      BY <2>3, <2>5, <3>2 DEF Worker, Claim, AwaitTurn, Admit, Decode, Refund, Abort, Report,
         FailQueue, queueVars
    <3> QED BY <3>1, <3>2
  <2> QED BY <1>1, <2>4, <2>5 DEF Next, Finished
<1> QED BY <1>1, TypeInvInductive, DeliveryInvInductive, PTL DEF Spec, NoOverwrite

-----------------------------------------------------------------------------
(* The account of the decode budget.                                        *)

\* A worker without a reservation answers for no bytes.
UnreservedEmpty == \A w \in Workers : wpc[w] \in {"poll", "turn"} => held[w] = 0

AccountInv == UnreservedEmpty /\ BudgetBalanced

\* The four places that hold buffers have sums.
LEMMA PartsType ==
  ASSUME TypeOK
  PROVE  /\ Capacities(held) /\ Capacities(idle)
         /\ ByteSum(held) \in Nat /\ IdleBytes \in Nat /\ IdleBytes = ByteSum(idle)
         /\ ByteSum(SlotCaps(slots)) \in Nat /\ ByteSum(CapsOf(batch)) \in Nat
<1>1. Capacities(held)
  BY PrefetchAssumption DEF TypeOK, WorkerType, Capacities
<1>2. Capacities(idle) /\ IdleBytes \in Nat /\ IdleBytes = ByteSum(idle)
  BY IdleBytesType DEF TypeOK, BudgetType
<1>3. Capacities(SlotCaps(slots)) /\ Capacities(CapsOf(batch))
  BY SlotCapsType, CapsType DEF TypeOK, QueueType, ConsumerType
<1> QED BY <1>1, <1>2, <1>3, SumType

\* A step that moves no bytes.
LEMMA AccountQuiet ==
  ASSUME BudgetBalanced, UNCHANGED <<used, held, idle, slots, batch>>
  PROVE  BudgetBalanced'
BY DEF BudgetBalanced, IdleBytes

\* A worker answers for n bytes from now on.
LEMMA HeldChange ==
  ASSUME TypeOK, NEW w \in Workers, NEW n \in Nat, Holds(w, n)
  PROVE  /\ held' = [held EXCEPT ![w] = n] /\ held'[w] = n
         /\ \A v \in Workers \ {w} : held'[v] = held[v]
         /\ ByteSum(held)' = ByteSum(held) - held[w] + n
         /\ held[w] \in Nat /\ ByteSum(held) \in Nat
<1>1. /\ held' \in [Workers -> Nat] /\ held'[w] = n
      /\ \A v \in Workers \ {w} : held'[v] = held[v]
      /\ held \in [Workers -> Nat] /\ held' = [held EXCEPT ![w] = n]
  BY DEF TypeOK, WorkerType, Holds
<1>2. Capacities(held) /\ Capacities(held')
  BY <1>1, PrefetchAssumption DEF Capacities
<1>3. ByteSum(held') = ByteSum(held) - held[w] + held'[w]
  <2>1. DOMAIN held = Workers /\ DOMAIN held' = Workers
    BY <1>1
  <2>2. \A v \in DOMAIN held \ {w} : held'[v] = held[v]
    BY <1>1, <2>1
  <2>3. DOMAIN held' = DOMAIN held \cup {w} /\ w \in DOMAIN held'
    BY <2>1
  <2> QED BY <1>2, <2>1, <2>2, <2>3, SumChange
<1>4. ByteSum(held)' = ByteSum(held')
  BY DEF ByteSum, Bytes
<1> QED BY <1>1, <1>2, <1>3, <1>4, SumType

\* The budget is charged for what a worker answers for.
LEMMA Charge ==
  ASSUME TypeOK, BudgetBalanced, NEW w \in Workers, NEW n \in Nat, Holds(w, n),
         used' = used - held[w] + n, UNCHANGED <<idle, slots, batch>>
  PROVE  BudgetBalanced'
<1>1. ByteSum(held)' = ByteSum(held) - held[w] + n /\ held[w] \in Nat
  BY HeldChange
<1>2. UNCHANGED <<IdleBytes, ByteSum(SlotCaps(slots)), ByteSum(CapsOf(batch))>>
  BY DEF IdleBytes
<1>3. /\ ByteSum(held) \in Nat /\ IdleBytes \in Nat
      /\ ByteSum(SlotCaps(slots)) \in Nat /\ ByteSum(CapsOf(batch)) \in Nat
  BY PartsType
<1> QED BY <1>1, <1>2, <1>3 DEF BudgetBalanced

\* The idle buffer on top is a part of the idle bytes.
LEMMA TopCounted ==
  ASSUME TypeOK
  PROVE  /\ TopIdle \in Nat /\ IdleBytes \in Nat
         /\ ByteSum(WithoutTop) = IdleBytes - TopIdle
<1>1. idle \in Seq(Nat) /\ IdleBytes = ByteSum(idle) /\ IdleBytes \in Nat
  BY PartsType DEF TypeOK, BudgetType
<1>2. CASE idle = <<>>
  BY <1>1, <1>2 DEF TopIdle, WithoutTop
<1>3. CASE idle # <<>>
  <2>1. /\ idle[Len(idle)] \in Nat /\ SubSeq(idle, 1, Len(idle) - 1) \in Seq(Nat)
        /\ ByteSum(idle) = ByteSum(SubSeq(idle, 1, Len(idle) - 1)) + idle[Len(idle)]
    BY <1>1, <1>3, SumFront
  <2> DEFINE front == SubSeq(idle, 1, Len(idle) - 1)
  <2>2. ByteSum(front) \in Nat
    <3>1. Len(front) \in Nat /\ front \in [1 .. Len(front) -> Nat]
      BY <2>1, LenProperties
    <3>2. IsFiniteSet(1 .. Len(front))
      BY <3>1, FS_Interval
    <3> HIDE DEF front
    <3>3. Capacities(front)
      BY <3>1, <3>2 DEF Capacities
    <3> QED BY <3>3, SumType
  <2>3. TopIdle = idle[Len(idle)] /\ WithoutTop = front
    BY <1>3 DEF TopIdle, WithoutTop
  <2> HIDE DEF front
  <2> QED BY <1>1, <2>1, <2>2, <2>3 DEF front
<1> QED BY <1>2, <1>3

\* acquire keeps the account: a reused buffer changes hands, a refused or evicted
\* one is forgotten with its bytes.
LEMMA AcquireKeepsAccount ==
  ASSUME TypeInv, AccountInv, NEW w \in Workers, AwaitTurn(w) \/ Admit(w)
  PROVE  AccountInv'
<1>0. /\ TypeOK /\ BudgetBalanced /\ UnreservedEmpty
      /\ TopIdle \in Nat /\ IdleBytes \in Nat /\ ByteSum(WithoutTop) = IdleBytes - TopIdle
      /\ ByteSum(held) \in Nat /\ ByteSum(SlotCaps(slots)) \in Nat
      /\ ByteSum(CapsOf(batch)) \in Nat /\ held[w] \in Nat
  BY PartsType, TopCounted DEF TypeInv, AccountInv, TypeOK, WorkerType
<1>1. UNCHANGED <<slots, batch>>
  BY DEF AwaitTurn, Admit, queueVars, consumerVars
<1>2. UNCHANGED <<ByteSum(SlotCaps(slots)), ByteSum(CapsOf(batch))>>
  BY <1>1
<1>3. CASE AwaitTurn(w)
  <2>1. CASE AcquireSleeps(w, wjob[w]) /\ UNCHANGED <<wpc, reused, held>>
    BY <1>0, <1>1, <2>1, AccountQuiet DEF AcquireSleeps, AccountInv, UnreservedEmpty
  <2>2. CASE AcquireEnters(w, wjob[w]) /\ Goto(w, "fit") /\ Holds(w, TopIdle)
    <3>1. held[w] = 0
      BY <1>0, <1>3 DEF AwaitTurn, UnreservedEmpty
    <3>2. /\ ByteSum(held)' = ByteSum(held) - held[w] + TopIdle
          /\ \A v \in Workers \ {w} : held'[v] = held[v]
      BY <1>0, <2>2, HeldChange
    <3>3. used' = used /\ IdleBytes' = ByteSum(WithoutTop)
      BY <2>2 DEF AcquireEnters, IdleBytes, ByteSum
    <3>4. BudgetBalanced'
      BY <1>0, <1>2, <3>1, <3>2, <3>3 DEF BudgetBalanced
    <3>5. UnreservedEmpty'
      BY <1>0, <2>2, <3>2 DEF UnreservedEmpty, Goto, TypeOK, WorkerType
    <3> QED BY <3>4, <3>5 DEF AccountInv
  <2> QED BY <1>3, <2>1, <2>2 DEF AwaitTurn
<1>4. CASE Admit(w)
  <2> DEFINE need == Need[wjob[w]]
  <2>1. Extra(need, held[w]) \in Nat
    <3>1. wjob[w] \in Jobs
      BY <1>4 DEF TypeInv, ClaimsValid, Admit, Busy
    <3> QED BY <1>0, <3>1, PrefetchAssumption DEF Extra, Saturate
  <2>2. CASE AdmitRefused(w, held[w]) /\ Goto(w, "exited") /\ Holds(w, 0)
    <3>1. used' = used - held[w] + 0 /\ UNCHANGED idle
      BY <1>0, <2>2 DEF AdmitRefused, TypeOK, BudgetType
    <3>2. BudgetBalanced' /\ \A v \in Workers \ {w} : held'[v] = held[v]
      BY <1>0, <1>1, <2>2, <3>1, Charge, HeldChange
    <3> QED BY <1>0, <2>2, <3>2 DEF AccountInv, UnreservedEmpty, Goto, TypeOK, WorkerType
  <2>3. CASE /\ AdmitGrants(w, need, held[w])
             /\ Goto(w, "decode")
             /\ Holds(w, held[w] + Extra(need, held[w]))
    <3> DEFINE n == held[w] + Extra(need, held[w])
    <3>1. n \in Nat
      BY <1>0, <2>1
    <3>2. used' = used - held[w] + n /\ UNCHANGED idle
      BY <1>0, <2>1, <2>3 DEF AdmitGrants, TypeOK, BudgetType
    <3> HIDE DEF n
    <3>3. Holds(w, n)
      BY <2>3 DEF n
    <3>4. BudgetBalanced' /\ \A v \in Workers \ {w} : held'[v] = held[v]
      BY <1>0, <1>1, <3>1, <3>2, <3>3, Charge, HeldChange
    <3> QED BY <1>0, <2>3, <3>4 DEF AccountInv, UnreservedEmpty, Goto, TypeOK, WorkerType
  <2>4. CASE AdmitEvicts(w, need, held[w]) /\ UNCHANGED <<wpc, held>>
    <3>1. used' = used - TopIdle /\ IdleBytes' = ByteSum(WithoutTop)
      BY <2>4 DEF AdmitEvicts, IdleBytes, ByteSum
    <3>2. ByteSum(held)' = ByteSum(held)
      BY <2>4
    <3>3. BudgetBalanced'
      BY <1>0, <1>2, <3>1, <3>2 DEF BudgetBalanced
    <3> QED BY <1>0, <2>4, <3>3 DEF AccountInv, UnreservedEmpty
  <2>5. CASE AdmitSleeps(w, need, held[w]) /\ UNCHANGED <<wpc, held>>
    BY <1>0, <1>1, <2>5, AccountQuiet DEF AdmitSleeps, AccountInv, UnreservedEmpty
  <2> QED BY <1>4, <2>2, <2>3, <2>4, <2>5 DEF Admit
<1> QED BY <1>3, <1>4

\* Closing the budget forgets the idle buffers with their bytes.
LEMMA CloseKeepsAccount ==
  ASSUME TypeOK, BudgetBalanced, CloseBudget, UNCHANGED <<held, slots, batch>>
  PROVE  BudgetBalanced'
<1>1. IdleBytes' = 0
  <2>1. \A b : b \notin Bytes(<<>>)
    BY BytesMember
  <2>2. Bytes(<<>>) = {}
    BY <2>1
  <2>3. idle' = <<>>
    BY DEF CloseBudget
  <2> QED BY <2>2, <2>3, FS_EmptySet DEF IdleBytes
<1>2. UNCHANGED <<ByteSum(held), ByteSum(SlotCaps(slots)), ByteSum(CapsOf(batch))>>
  OBVIOUS
<1>3. used' = used - IdleBytes
  BY DEF CloseBudget
<1>4. /\ ByteSum(held) \in Nat /\ IdleBytes \in Nat
      /\ ByteSum(SlotCaps(slots)) \in Nat /\ ByteSum(CapsOf(batch)) \in Nat
  BY PartsType
<1> QED BY <1>1, <1>2, <1>3, <1>4 DEF BudgetBalanced

\* A pushed chunk takes its bytes to a slot that was empty.
LEMMA PushKeepsAccount ==
  ASSUME TypeInv, DeliveryInv, BudgetBalanced, NEW w \in Workers, wpc[w] = "push",
         PushStores(wjob[w], Result(w)), Holds(w, 0), UNCHANGED <<used, idle, batch>>
  PROVE  BudgetBalanced'
<1> DEFINE o == Slot(wjob[w])
           ring == 0 .. Capacity - 1
<1>1. o \in ring /\ slots[o] = NoItem
  BY PushFindsSlotFree
<1>2. held[w] \in Nat /\ wjob[w] \in 0 .. TotalJobs /\ slots \in [ring -> Items \cup {NoItem}]
  BY DEF TypeInv, TypeOK, WorkerType, QueueType
<1>3. Result(w) \in Items /\ Result(w).cap = held[w]
  <2>1. Result(w) \in Items
    BY ItemTypes
  <2> QED BY <1>2, <2>1 DEF Result, DecodeError, Chunk
<1>4. Result(w) # NoItem
  BY <1>3, PrefetchAssumption
<1>5. slots' = [slots EXCEPT ![o] = Result(w)]
  BY DEF PushStores
<1>6. ByteSum(SlotCaps(slots')) = ByteSum(SlotCaps(slots)) + held[w]
  <2> DEFINE f == SlotCaps(slots)
             g == SlotCaps(slots')
  <2>1. slots' \in [ring -> Items \cup {NoItem}]
    BY <1>1, <1>2, <1>3, <1>5
  <2>2. Capacities(f) /\ Capacities(g)
    BY <1>2, <2>1, SlotCapsType
  <2>3. /\ DOMAIN f = ring /\ DOMAIN g = ring /\ f[o] = 0 /\ g[o] = held[w]
        /\ \A q \in ring \ {o} : g[q] = f[q]
    BY <1>1, <1>2, <1>3, <1>4, <1>5, <2>1 DEF SlotCaps, CapOf
  <2>4. DOMAIN g = DOMAIN f \cup {o} /\ o \in DOMAIN f /\ o \in DOMAIN g
        /\ \A q \in DOMAIN f \ {o} : g[q] = f[q]
    BY <1>1, <2>3
  <2> HIDE DEF f, g, o
  <2>5. ByteSum(g) = ByteSum(f) - f[o] + g[o] /\ ByteSum(f) \in Nat
    BY <2>2, <2>4, SumChange, SumType
  <2>6. ByteSum(g) = ByteSum(f) + held[w]
    BY <1>2, <2>3, <2>5
  <2> QED BY <2>6 DEF f, g
<1>7. ByteSum(SlotCaps(slots))' = ByteSum(SlotCaps(slots'))
  BY DEF ByteSum, Bytes, SlotCaps, CapOf
<1>8. ByteSum(held)' = ByteSum(held) - held[w] + 0
  BY HeldChange DEF TypeInv
<1>9. UNCHANGED <<IdleBytes, ByteSum(CapsOf(batch))>>
  BY DEF IdleBytes
<1>10. /\ ByteSum(held) \in Nat /\ IdleBytes \in Nat
       /\ ByteSum(SlotCaps(slots)) \in Nat /\ ByteSum(CapsOf(batch)) \in Nat
  BY PartsType DEF TypeInv
<1> QED BY <1>2, <1>6, <1>7, <1>8, <1>9, <1>10 DEF BudgetBalanced

\* The capacities a decode may end with are numbers.
LEMMA DecodedCapsType ==
  ASSUME TypeInv, NEW w \in Workers, wpc[w] = "decode"
  PROVE  /\ DecodedCaps(w) \subseteq Nat
         /\ wjob[w] \in Jobs /\ Size[wjob[w]] \in Nat \ {0} /\ Need[wjob[w]] \in Nat
         /\ reused[w] \in Nat /\ held[w] \in Nat
<1>1. wjob[w] \in Jobs
  BY DEF TypeInv, ClaimsValid, Busy
<1>2. /\ Size[wjob[w]] \in Nat \ {0} /\ Need[wjob[w]] \in Nat
      /\ reused[w] \in Nat /\ held[w] \in Nat
  BY <1>1, PrefetchAssumption DEF TypeInv, TypeOK, WorkerType
<1> QED BY <1>1, <1>2 DEF DecodedCaps, Grown, Larger

\* Every step of a worker keeps the account.
LEMMA WorkerKeepsAccount ==
  ASSUME TypeInv, DeliveryInv, AccountInv, NEW w \in Workers, Worker(w)
  PROVE  AccountInv'
<1>0. /\ TypeOK /\ BudgetBalanced /\ UnreservedEmpty
      /\ wpc \in [Workers -> WorkerStates] /\ held[w] \in Nat /\ used \in Int
  BY DEF TypeInv, AccountInv, TypeOK, WorkerType, BudgetType
<1>1. ASSUME NEW pc, pc \notin {"poll", "turn"}, Goto(w, pc),
             \A v \in Workers \ {w} : held'[v] = held[v]
      PROVE  UnreservedEmpty'
  BY <1>0, <1>1 DEF UnreservedEmpty, Goto
<1>2. CASE Claim(w)
  <2>1. UNCHANGED <<used, held, idle, slots, batch>> /\ wpc[w] = "poll"
    BY <1>2 DEF Claim, queueVars, budgetVars, consumerVars
  <2>2. \E pc : Goto(w, pc)
    BY <1>2 DEF Claim
  <2>3. UnreservedEmpty'
    BY <1>0, <2>1, <2>2 DEF UnreservedEmpty, Goto
  <2> QED BY <1>0, <2>1, <2>3, AccountQuiet DEF AccountInv
<1>3. CASE AwaitTurn(w) \/ Admit(w)
  BY <1>3, AcquireKeepsAccount
<1>4. CASE Decode(w)
  <2>1. UNCHANGED <<slots, batch>> /\ wpc[w] = "decode"
    BY <1>4 DEF Decode, queueVars, consumerVars
  <2>2. ASSUME NEW cap \in Nat, NEW pc \in {"push", "abort"},
               Settle(held[w], cap), Holds(w, cap), Goto(w, pc)
        PROVE  AccountInv'
    <3>1. used' = used - held[w] + cap /\ UNCHANGED idle
      BY <2>2 DEF Settle
    <3>2. BudgetBalanced' /\ \A v \in Workers \ {w} : held'[v] = held[v]
      BY <1>0, <2>1, <2>2, <3>1, Charge, HeldChange
    <3> QED BY <1>1, <2>2, <3>2 DEF AccountInv
  <2>3. CASE Goto(w, "abort") /\ UNCHANGED <<held, budgetVars>>
    <3>1. BudgetBalanced'
      BY <1>0, <2>1, <2>3, AccountQuiet DEF budgetVars
    <3> QED BY <1>1, <2>3, <3>1 DEF AccountInv
  <2>4. DecodedCaps(w) \subseteq Nat
    BY <2>1, DecodedCapsType
  <2> QED BY <1>4, <2>2, <2>3, <2>4 DEF Decode
<1>5. CASE Push(w)
  <2>1. UNCHANGED <<used, idle, batch>> /\ wpc[w] = "push"
    BY <1>5 DEF Push, budgetVars, consumerVars
  <2>2. CASE PushSleeps(w, wjob[w]) /\ UNCHANGED <<wpc, held>>
    BY <1>0, <2>1, <2>2, AccountQuiet DEF PushSleeps, AccountInv, UnreservedEmpty
  <2>3. CASE PushStores(wjob[w], Result(w)) /\ Goto(w, "poll") /\ Holds(w, 0)
    <3>1. BudgetBalanced'
      BY <1>0, <2>1, <2>3, PushKeepsAccount
    <3>2. held'[w] = 0 /\ \A v \in Workers \ {w} : held'[v] = held[v]
      BY <1>0, <2>3, HeldChange
    <3>3. UnreservedEmpty'
      BY <1>0, <2>3, <3>2 DEF UnreservedEmpty, Goto
    <3> QED BY <3>1, <3>3 DEF AccountInv
  <2>4. CASE PushRefused /\ Goto(w, "refund") /\ UNCHANGED held
    <3>1. BudgetBalanced'
      BY <1>0, <2>1, <2>4, AccountQuiet DEF PushRefused, queueVars
    <3> QED BY <1>1, <2>4, <3>1 DEF AccountInv
  <2> QED BY <1>5, <2>2, <2>3, <2>4 DEF Push
<1>6. CASE Refund(w)
  <2>1. /\ used' = used - held[w] + 0 /\ UNCHANGED <<idle, slots, batch>>
        /\ Holds(w, 0) /\ Goto(w, "exited")
    BY <1>6 DEF Refund, Settle, queueVars, consumerVars
  <2>2. BudgetBalanced' /\ \A v \in Workers \ {w} : held'[v] = held[v]
    BY <1>0, <2>1, Charge, HeldChange
  <2> QED BY <1>1, <2>1, <2>2 DEF AccountInv
<1>7. CASE Abort(w)
  <2>1. CloseBudget /\ UNCHANGED <<held, slots, batch>> /\ Goto(w, "report")
    BY <1>7 DEF Abort, queueVars, consumerVars
  <2>2. BudgetBalanced'
    BY <1>0, <2>1, CloseKeepsAccount
  <2> QED BY <1>1, <2>1, <2>2 DEF AccountInv
<1>8. CASE Report(w)
  <2>1. UNCHANGED <<used, held, idle, slots, batch>> /\ Goto(w, "exited")
    BY <1>8 DEF Report, FailQueue, budgetVars, consumerVars
  <2>2. BudgetBalanced'
    BY <1>0, <2>1, AccountQuiet
  <2> QED BY <1>1, <2>1, <2>2 DEF AccountInv
<1> QED BY <1>2, <1>3, <1>4, <1>5, <1>6, <1>7, <1>8 DEF Worker

\* Bytes that move from the ring to the consumer's batch stay charged.
LEMMA DrainKeepsAccount ==
  ASSUME TypeInv, BudgetBalanced, UNCHANGED <<used, held, idle>>,
         NEW items \in Seq(Items), batch' = batch \o items,
         ByteSum(SlotCaps(slots)) = ByteSum(SlotCaps(slots')) + ByteSum(CapsOf(items)),
         QueueType'
  PROVE  BudgetBalanced'
<1>1. batch \in Seq(Items)
  BY DEF TypeInv, TypeOK, ConsumerType
<1>2. ByteSum(CapsOf(batch \o items)) = ByteSum(CapsOf(batch)) + ByteSum(CapsOf(items))
  BY <1>1, SumConcat
<1>3. /\ ByteSum(CapsOf(batch))' = ByteSum(CapsOf(batch'))
      /\ ByteSum(SlotCaps(slots))' = ByteSum(SlotCaps(slots'))
      /\ UNCHANGED <<ByteSum(held), IdleBytes>>
  BY DEF ByteSum, Bytes, CapsOf, SlotCaps, CapOf, IdleBytes
<1>4. /\ ByteSum(held) \in Nat /\ IdleBytes \in Nat
      /\ ByteSum(SlotCaps(slots)) \in Nat /\ ByteSum(CapsOf(batch)) \in Nat
  BY PartsType DEF TypeInv
<1>5. ByteSum(CapsOf(items)) \in Nat /\ ByteSum(SlotCaps(slots')) \in Nat
  BY CapsType, SlotCapsType, SumType DEF QueueType
<1> QED BY <1>2, <1>3, <1>4, <1>5 DEF BudgetBalanced

\* An error in the batch holds no bytes.
LEMMA FatalHoldsNothing ==
  ASSUME TypeOK, terminalItem # NoItem
  PROVE  /\ <<terminalItem>> \in Seq(Items)
         /\ ByteSum(CapsOf(<<terminalItem>>)) = 0
<1>1. terminalItem \in Items /\ terminalItem.cap = 0
  BY ItemTypes DEF TypeOK, QueueType, Fatal
<1>2. <<terminalItem>> \in Seq(Items) /\ <<terminalItem>> # <<>>
      /\ Head(<<terminalItem>>) = terminalItem /\ Tail(<<terminalItem>>) = <<>>
  BY <1>1
<1>3. ByteSum(CapsOf(<<terminalItem>>)) = 0 + ByteSum(CapsOf(<<>>))
  BY <1>1, <1>2, SumTail
<1>4. ByteSum(CapsOf(<<>>)) = 0
  <2>1. DOMAIN CapsOf(<<>>) = {}
    BY DEF CapsOf
  <2>2. \A b : b \notin Bytes(CapsOf(<<>>))
    BY <2>1, BytesMember
  <2>3. Bytes(CapsOf(<<>>)) = {}
    BY <2>2
  <2> QED BY <2>3, FS_EmptySet DEF ByteSum
<1> QED BY <1>2, <1>3, <1>4

\* Taking a run keeps the account.
LEMMA TakeRunKeepsAccount ==
  ASSUME TypeInv, QueueType', BudgetBalanced, UNCHANGED <<used, held, idle>>,
         NEW max \in Int, NEW want, NEW n \in 0 .. Capacity, IsRun(n, max), TakeRun(n, want)
  PROVE  BudgetBalanced'
<1>1. Run(n) \in Seq(Items) /\ QueueType
  BY RunType DEF TypeInv, TypeOK
<1>2. slots' = WithoutRun(n)
  BY DEF TakeRun, DrainTakes, DrainTakesAndSleeps
<1>3. ByteSum(SlotCaps(slots)) = ByteSum(SlotCaps(slots')) + ByteSum(CapsOf(Run(n)))
  BY <1>1, <1>2, SumRun
<1>4. CASE batch' = batch \o Run(n)
  BY <1>1, <1>3, <1>4, DrainKeepsAccount
<1>5. CASE terminalItem # NoItem /\ batch' = batch \o Append(Run(n), terminalItem)
  <2> DEFINE last == <<terminalItem>>
             items == Run(n) \o last
  <2>1. last \in Seq(Items) /\ ByteSum(CapsOf(last)) = 0
    BY <1>5, FatalHoldsNothing DEF TypeInv
  <2>2. items \in Seq(Items) /\ Append(Run(n), terminalItem) = items
    BY <1>1, <2>1
  <2>3. ByteSum(CapsOf(items)) = ByteSum(CapsOf(Run(n))) + ByteSum(CapsOf(last))
    BY <1>1, <2>1, SumConcat
  <2>4. ByteSum(CapsOf(Run(n))) \in Nat
    BY <1>1, CapsType, SumType
  <2> HIDE DEF items, last
  <2>5. ByteSum(SlotCaps(slots)) = ByteSum(SlotCaps(slots')) + ByteSum(CapsOf(items))
    BY <1>3, <2>1, <2>3, <2>4
  <2> QED BY <1>5, <2>2, <2>5, DrainKeepsAccount
<1> QED BY <1>4, <1>5 DEF TakeRun, Deliver

\* Every step of the consumer keeps the account.
LEMMA ConsumerKeepsAccount ==
  ASSUME TypeInv, AccountInv, Consumer
  PROVE  AccountInv'
<1>0. TypeOK /\ BudgetBalanced /\ UnreservedEmpty /\ used \in Int /\ QueueType'
  BY ConsumerKeepsTypes DEF TypeInv, AccountInv, TypeOK, BudgetType
<1>1. UNCHANGED workerVars
  BY DEF Consumer, Drain, DrainMore, Process, RecycleOne, Cancel, DropQueue, DropBudget, Join
<1>2. UnreservedEmpty' /\ UNCHANGED held
  BY <1>0, <1>1 DEF UnreservedEmpty, workerVars
<1> SUFFICES BudgetBalanced'
  BY <1>2 DEF AccountInv
<1>3. CASE Drain
  <2>1. UNCHANGED <<used, idle>>
    BY <1>3 DEF Drain, budgetVars
  <2>2. CASE UNCHANGED <<slots, batch>>
    BY <1>0, <1>2, <2>1, <2>2, AccountQuiet
  <2>3. CASE DrainTerminal /\ Deliver(<<terminalItem>>)
    <3>1. UNCHANGED slots /\ batch' = batch \o <<terminalItem>> /\ terminalItem # NoItem
      BY <2>3 DEF DrainTerminal, Deliver
    <3>2. <<terminalItem>> \in Seq(Items) /\ ByteSum(CapsOf(<<terminalItem>>)) = 0
      BY <1>0, <3>1, FatalHoldsNothing
    <3>3. ByteSum(SlotCaps(slots)) \in Nat
      BY <1>0, PartsType
    <3>4. ByteSum(SlotCaps(slots)) = ByteSum(SlotCaps(slots')) + ByteSum(CapsOf(<<terminalItem>>))
      BY <3>1, <3>2, <3>3
    <3> QED BY <1>0, <1>2, <2>1, <3>1, <3>2, <3>4, DrainKeepsAccount
  <2>4. ASSUME NEW n \in 1 .. Capacity, IsRun(n, MaxBatch), TakeRun(n, MinBatch)
        PROVE  BudgetBalanced'
    <3>1. n \in 0 .. Capacity /\ MaxBatch \in Int
      BY QueueAssumption, PrefetchAssumption
    <3> QED BY <1>0, <1>2, <2>1, <2>4, <3>1, TakeRunKeepsAccount
  <2> QED BY <1>3, <2>2, <2>3, <2>4 DEF Drain, DrainSleeps, DrainsNothing, queueVars
<1>4. CASE DrainMore
  <2> DEFINE want == IF qClosed THEN 1 ELSE MinBatch - Len(batch)
  <2>1. PICK n \in 0 .. Capacity : IsRun(n, want) /\ TakeRun(n, want)
    BY <1>4 DEF DrainMore
  <2>2. want \in Int
    BY <1>0, LenProperties, PrefetchAssumption DEF TypeOK, ConsumerType
  <2>3. UNCHANGED <<used, idle>>
    BY <1>4 DEF DrainMore, budgetVars
  <2> HIDE DEF want
  <2> QED BY <1>0, <1>2, <2>1, <2>2, <2>3, TakeRunKeepsAccount
<1>5. CASE RecycleOne
  <2>1. batch \in Seq(Items) /\ batch # <<>> /\ batch' = Tail(batch) /\ UNCHANGED slots
    BY <1>0, <1>5 DEF RecycleOne, TypeInv, BatchHeld, TypeOK, ConsumerType, queueVars
  <2> DEFINE n == Head(batch).cap
  <2>2. n \in Nat /\ ByteSum(CapsOf(batch)) = n + ByteSum(CapsOf(Tail(batch)))
    BY <2>1, SumTail
  <2>3. /\ ByteSum(CapsOf(batch))' = ByteSum(CapsOf(Tail(batch)))
        /\ UNCHANGED <<ByteSum(held), ByteSum(SlotCaps(slots))>>
    BY <1>2, <2>1
  <2>4. ByteSum(CapsOf(Tail(batch))) \in Nat
    <3>1. Tail(batch) \in Seq(Items)
      BY <2>1, HeadTailProperties
    <3> QED BY <3>1, CapsType, SumType
  <2>5. /\ ByteSum(held) \in Nat /\ IdleBytes \in Nat /\ IdleBytes = ByteSum(idle)
        /\ ByteSum(SlotCaps(slots)) \in Nat /\ idle \in Seq(Nat)
    BY <1>0, PartsType DEF TypeOK, BudgetType
  <2>6. \/ used' = used - n /\ UNCHANGED idle
        \/ idle' = Append(idle, n) /\ UNCHANGED used
    BY <1>5, Zenon DEF RecycleOne, Recycle
  <2> HIDE DEF n
  <2>7. CASE used' = used - n /\ UNCHANGED idle
    <3>1. IdleBytes' = IdleBytes
      BY <2>7 DEF IdleBytes
    <3> QED BY <1>0, <2>2, <2>3, <2>4, <2>5, <2>7, <3>1 DEF BudgetBalanced
  <2>8. CASE idle' = Append(idle, n) /\ UNCHANGED used
    <3>1. ByteSum(Append(idle, n)) = ByteSum(idle) + n
      BY <2>2, <2>5, SumAppend
    <3>2. IdleBytes' = IdleBytes + n
      BY <2>5, <2>8, <3>1 DEF IdleBytes, ByteSum
    <3> QED BY <1>0, <2>2, <2>3, <2>4, <2>5, <2>8, <3>2 DEF BudgetBalanced
  <2> QED BY <2>6, <2>7, <2>8
<1>6. CASE DropBudget
  <2>1. CloseBudget /\ UNCHANGED <<slots, batch>>
    BY <1>6 DEF DropBudget, queueVars
  <2> QED BY <1>0, <1>2, <2>1, CloseKeepsAccount
<1>7. CASE Process \/ Cancel \/ DropQueue \/ Join
  <2>1. UNCHANGED <<used, idle, slots, batch>>
    BY <1>7 DEF Process, Cancel, DropQueue, Join, CloseQueue, queueVars, budgetVars
  <2> QED BY <1>0, <1>2, <2>1, AccountQuiet
<1> QED BY <1>3, <1>4, <1>5, <1>6, <1>7 DEF Consumer

\* The account is inductive relative to the delivery invariant, which keeps a push
\* from overwriting a charged buffer.
LEMMA AccountInvInductive ==
  /\ Init => AccountInv
  /\ TypeInv /\ DeliveryInv /\ AccountInv /\ [Next]_vars => AccountInv'
<1>1. ASSUME Init PROVE AccountInv
  <2>1. /\ used = 0 /\ idle = <<>> /\ batch = <<>> /\ held = [w \in Workers |-> 0]
        /\ slots = [s \in 0 .. Capacity - 1 |-> NoItem]
    BY <1>1 DEF Init, BudgetInit, QueueInit
  <2>2. ASSUME NEW caps, \A o \in DOMAIN caps : caps[o] = 0 PROVE ByteSum(caps) = 0
    <3>1. \A o \in DOMAIN caps : 1 .. caps[o] = {}
      BY <2>2
    <3>2. \A b : b \notin Bytes(caps)
      BY <3>1, BytesMember
    <3>3. Bytes(caps) = {}
      BY <3>2
    <3> QED BY <3>3, FS_EmptySet DEF ByteSum
  <2>3. ByteSum(held) = 0
    BY <2>1, <2>2
  <2>4. ByteSum(SlotCaps(slots)) = 0
    <3>1. \A o \in DOMAIN SlotCaps(slots) : SlotCaps(slots)[o] = 0
      BY <2>1 DEF SlotCaps, CapOf
    <3> QED BY <2>2, <3>1
  <2>5. ByteSum(CapsOf(batch)) = 0
    <3>1. \A o \in DOMAIN CapsOf(batch) : CapsOf(batch)[o] = 0
      BY <2>1 DEF CapsOf
    <3> QED BY <2>2, <3>1
  <2>6. IdleBytes = 0
    <3>1. \A o \in DOMAIN idle : idle[o] = 0
      BY <2>1
    <3> QED BY <2>2, <3>1 DEF IdleBytes, ByteSum
  <2>7. UnreservedEmpty
    BY <2>1 DEF UnreservedEmpty
  <2> QED BY <2>1, <2>3, <2>4, <2>5, <2>6, <2>7 DEF AccountInv, BudgetBalanced
<1>2. ASSUME TypeInv, DeliveryInv, AccountInv, [Next]_vars PROVE AccountInv'
  <2>1. CASE UNCHANGED vars
    BY <1>2, <2>1, AccountQuiet DEF vars, queueVars, budgetVars, workerVars, consumerVars,
       AccountInv, UnreservedEmpty
  <2> QED BY <1>2, <2>1, WorkerKeepsAccount, ConsumerKeepsAccount DEF Next, Finished
<1> QED BY <1>1, <1>2

\* DecodeBudget's `used' is the bytes of the buffers being decoded, queued, held by
\* the consumer and idle, in every state: with any number of workers, jobs and
\* slots, no order of acquire, settle, push, recycle, close and failure charges a
\* buffer twice or forgets one.
THEOREM BudgetAccount == Spec => []BudgetBalanced
<1>1. AccountInv => BudgetBalanced
  BY DEF AccountInv
<1> QED BY <1>1, TypeInvInductive, DeliveryInvInductive, AccountInvInductive, PTL DEF Spec

-----------------------------------------------------------------------------
(* The bound on the charge.  Admission keeps a grant under the limit, or    *)
(* lets it stand alone; only a decode that grows its buffer passes its      *)
(* reservation, once, by less than a chunk.                                 *)

\* A buffer that grew past the largest chunk.
LargestBuffer == LargestChunk + MaxGrowth

\* What a worker reserved covers the buffer it reuses and the chunk it decodes.
Reserved ==
    \A w \in Workers :
        /\ wpc[w] = "fit" => held[w] = reused[w]
        /\ wpc[w] = "decode" => held[w] >= reused[w] /\ held[w] >= Size[wjob[w]]

BuffersBounded ==
    /\ \A w \in Workers : held[w] <= LargestBuffer /\ reused[w] <= LargestBuffer
    /\ \A i \in DOMAIN idle : idle[i] <= LargestBuffer
    /\ \A s \in DOMAIN slots : CapOf(slots[s]) <= LargestBuffer
    /\ \A i \in DOMAIN batch : batch[i].cap <= LargestBuffer

BoundInv == Reserved /\ BuffersBounded /\ BudgetBound

\* A set of naturals that is not empty has a least member.
LEMMA HasLeast ==
  ASSUME NEW S \in SUBSET Nat, S # {}
  PROVE  \E n \in S : \A m \in S : n <= m
<1> DEFINE less == OpToRel(<, Nat)
<1>1. PICK n \in S : \A m \in S : <<m, n>> \notin less
  <2>1. IsWellFoundedOn(less, Nat)
    BY NatLessThanWellFounded
  <2> HIDE DEF less
  <2> QED BY <2>1, WFMin
<1>2. \A m \in S : ~(m < n)
  <2> TAKE m \in S
  <2>1. <<m, n>> \in less <=> m < n
    BY DEF OpToRel
  <2> QED BY <1>1, <2>1
<1> QED BY <1>2

\* The needs of the first k jobs are bounded: there is no least k for which not.
LEMMA NeedsBounded ==
  \E b \in Nat : \A j \in Jobs : Need[j] <= b
<1> DEFINE Bounded(k) == \E b \in Nat : \A j \in Jobs : j < k => Need[j] <= b
           S == {k \in Nat : ~Bounded(k)}
<1>1. S = {}
  <2> SUFFICES ASSUME S # {} PROVE FALSE
    OBVIOUS
  <2>1. PICK k \in S : \A m \in S : k <= m
    <3>1. S \in SUBSET Nat
      OBVIOUS
    <3> HIDE DEF S
    <3> QED BY <3>1, HasLeast
  <2>2. CASE k = 0
    <3>1. \A j \in Jobs : ~(j < 0)
      BY DEF Jobs
    <3>2. Bounded(0)
      BY <3>1
    <3> QED BY <2>1, <2>2, <3>2
  <2>3. CASE k # 0
    <3>1. k - 1 \in Nat /\ ~(k <= k - 1)
      BY <2>1, <2>3
    <3>2. PICK b \in Nat : \A j \in Jobs : j < k - 1 => Need[j] <= b
      BY <2>1, <3>1
    <3>3. CASE k - 1 \in Jobs
      <4> DEFINE c == IF Need[k - 1] >= b THEN Need[k - 1] ELSE b
      <4>1. Need[k - 1] \in Nat
        BY <3>3, PrefetchAssumption
      <4>2. c \in Nat /\ b <= c /\ Need[k - 1] <= c
        BY <4>1
      <4>3. ASSUME NEW j \in Jobs, j < k PROVE Need[j] <= c
        <5>1. j \in Nat /\ Need[j] \in Nat
          <6>1. j \in Nat
            BY QueueAssumption DEF Jobs
          <6> QED BY <6>1, PrefetchAssumption
        <5>2. j = k - 1 \/ j < k - 1
          BY <2>1, <4>3, <5>1
        <5> HIDE DEF c
        <5> QED BY <3>2, <4>2, <5>1, <5>2
      <4> HIDE DEF c
      <4>4. Bounded(k)
        BY <4>2, <4>3
      <4> QED BY <2>1, <4>4
    <3>4. CASE k - 1 \notin Jobs
      <4>1. ASSUME NEW j \in Jobs, j < k PROVE Need[j] <= b
        <5>1. j \in Nat
          BY QueueAssumption DEF Jobs
        <5>2. j # k - 1
          BY <3>4
        <5> QED BY <2>1, <3>2, <4>1, <5>1, <5>2
      <4>2. Bounded(k)
        BY <4>1
      <4> QED BY <2>1, <4>2
    <3> QED BY <3>3, <3>4
  <2> QED BY <2>2, <2>3
<1>2. Bounded(TotalJobs)
  BY <1>1, QueueAssumption
<1> QED BY <1>2, QueueAssumption DEF Jobs

\* LargestChunk is the largest need.
LEMMA LargestChunkIsLargest ==
  LargestChunk \in Nat /\ \A j \in Jobs : Need[j] <= LargestChunk
<1>1. CASE TotalJobs = 0
  <2>1. Jobs = {}
    BY <1>1 DEF Jobs
  <2> QED BY <1>1, <2>1 DEF LargestChunk
<1>2. CASE TotalJobs # 0
  <2>1. 0 \in Jobs /\ \A j \in Jobs : Need[j] \in Nat
    BY <1>2, QueueAssumption, PrefetchAssumption DEF Jobs
  <2> DEFINE S == {b \in Nat : \A j \in Jobs : Need[j] <= b}
  <2>2. S \in SUBSET Nat /\ S # {}
    BY NeedsBounded
  <2>3. PICK n \in S : \A m \in S : n <= m
    <3> HIDE DEF S
    <3> QED BY <2>2, HasLeast
  <2>4. n \in {Need[j] : j \in Jobs}
    <3> SUFFICES ASSUME \A j \in Jobs : Need[j] # n PROVE FALSE
      OBVIOUS
    <3>1. \A j \in Jobs : Need[j] <= n - 1
      BY <2>1, <2>3
    <3>2. n - 1 \in Nat
      <4>1. Need[0] <= n - 1 /\ Need[0] \in Nat /\ n \in Nat
        BY <2>1, <2>3, <3>1
      <4> QED BY <4>1
    <3>3. n - 1 \in S
      BY <3>1, <3>2
    <3> QED BY <2>3, <3>2, <3>3
  <2>5. \E m \in {Need[j] : j \in Jobs} : \A j \in Jobs : Need[j] <= m
    BY <2>3, <2>4
  <2>6. /\ LargestChunk \in {Need[j] : j \in Jobs}
        /\ \A j \in Jobs : Need[j] <= LargestChunk
    BY <1>2, <2>5 DEF LargestChunk
  <2> QED BY <2>1, <2>6
<1> QED BY <1>1, <1>2

\* The numbers of the bound.
LEMMA BoundType ==
  ASSUME WorkerType
  PROVE  /\ LargestChunk \in Nat /\ MaxGrowth \in Nat /\ LargestBuffer \in Nat
         /\ LargestChunk - 2 <= MaxGrowth
         /\ Cardinality(Workers) \in Nat /\ IsFiniteSet(Decoding)
         /\ Cardinality(Decoding) \in Nat /\ Cardinality(Decoding) <= Cardinality(Workers)
         /\ Larger(Limit, LargestBuffer) \in Nat
         /\ Limit <= Larger(Limit, LargestBuffer)
         /\ LargestBuffer <= Larger(Limit, LargestBuffer)
<1>1. /\ LargestChunk \in Nat /\ MaxGrowth \in Nat /\ LargestBuffer \in Nat
      /\ LargestChunk - 2 <= MaxGrowth
  BY LargestChunkIsLargest DEF MaxGrowth, LargestBuffer, Saturate
<1>2. Decoding \subseteq Workers
  BY DEF Decoding
<1>3. /\ Cardinality(Workers) \in Nat /\ IsFiniteSet(Decoding)
      /\ Cardinality(Decoding) \in Nat /\ Cardinality(Decoding) <= Cardinality(Workers)
  BY <1>2, PrefetchAssumption, FS_Subset, FS_CardinalityType
<1> QED BY <1>1, <1>3, BudgetAssumption DEF Larger

\* More workers that do not decode allow more growth.
LEMMA GrowthGrows ==
  ASSUME NEW a \in Nat, NEW b \in Nat, NEW g \in Nat, a <= b
  PROVE  a * g \in Nat /\ a * g <= b * g
OBVIOUS

\* The charge does not grow and no decode begins.
LEMMA BoundKept ==
  ASSUME TypeOK, TypeOK', BudgetBound, used' <= used, Decoding' \subseteq Decoding
  PROVE  BudgetBound'
<1> DEFINE W == Cardinality(Workers)
           d == Cardinality(Decoding)
           e == Cardinality(Decoding)'
           top == Larger(Limit, LargestBuffer)
<1>1. W \in Nat /\ d \in Nat /\ d <= W /\ MaxGrowth \in Nat /\ top \in Nat
      /\ IsFiniteSet(Decoding)
  BY BoundType DEF TypeOK
<1>2. e \in Nat /\ e <= d
  BY <1>1, FS_Subset, FS_CardinalityType
<1>3. used <= top + (W - d) * MaxGrowth /\ used \in Int /\ used' \in Int
  BY DEF BudgetBound, LargestBuffer, TypeOK, BudgetType
<1> HIDE DEF W, d, e, top
<1>4. W - d \in Nat /\ W - e \in Nat /\ W - d <= W - e
  BY <1>1, <1>2
<1>5. /\ (W - d) * MaxGrowth \in Nat /\ (W - e) * MaxGrowth \in Nat
      /\ (W - d) * MaxGrowth <= (W - e) * MaxGrowth
  BY <1>1, <1>4, GrowthGrows
<1>6. used' <= top + (W - e) * MaxGrowth
  BY <1>1, <1>3, <1>5
<1> QED BY <1>6 DEF BudgetBound, LargestBuffer, W, e, top

\* A decode ends and its buffer has grown.
LEMMA BoundGrows ==
  ASSUME TypeOK, TypeOK', BudgetBound, NEW w \in Decoding, Decoding' = Decoding \ {w},
         used' <= used + MaxGrowth
  PROVE  BudgetBound'
<1> DEFINE W == Cardinality(Workers)
           d == Cardinality(Decoding)
           e == Cardinality(Decoding)'
           top == Larger(Limit, LargestBuffer)
<1>1. W \in Nat /\ d \in Nat /\ d <= W /\ MaxGrowth \in Nat /\ top \in Nat
      /\ IsFiniteSet(Decoding)
  BY BoundType DEF TypeOK
<1>2. e = d - 1
  BY <1>1, FS_RemoveElement
<1>3. used <= top + (W - d) * MaxGrowth /\ used \in Int /\ used' \in Int
  BY DEF BudgetBound, LargestBuffer, TypeOK, BudgetType
<1> HIDE DEF W, d, e, top
<1>4. W - d \in Nat /\ (W - d) * MaxGrowth \in Nat
  BY <1>1, GrowthGrows
<1>5. (W - e) * MaxGrowth = (W - d) * MaxGrowth + MaxGrowth
  <2>1. W - e = (W - d) + 1
    BY <1>1, <1>2
  <2>2. \A a, g \in Nat : (a + 1) * g = a * g + g
    OBVIOUS
  <2> QED BY <1>1, <1>4, <2>1, <2>2
<1>6. used' <= top + (W - e) * MaxGrowth
  BY <1>1, <1>3, <1>4, <1>5
<1> QED BY <1>6 DEF BudgetBound, LargestBuffer, W, e, top

\* A grant fits the limit or stands alone.
LEMMA BoundGranted ==
  ASSUME TypeOK', used' <= Larger(Limit, LargestBuffer)
  PROVE  BudgetBound'
<1> DEFINE W == Cardinality(Workers)
           e == Cardinality(Decoding)'
           top == Larger(Limit, LargestBuffer)
<1>1. LargestBuffer \in Nat /\ MaxGrowth \in Nat /\ top \in Nat /\ W \in Nat
  <2>1. LargestChunk \in Nat /\ MaxGrowth \in Nat /\ LargestBuffer \in Nat
    BY LargestChunkIsLargest DEF MaxGrowth, LargestBuffer, Saturate
  <2> QED BY <2>1, BudgetAssumption, PrefetchAssumption, FS_CardinalityType DEF Larger
<1>2. e \in Nat /\ e <= W
  <2>1. Decoding' \subseteq Workers
    BY DEF Decoding
  <2> QED BY <2>1, PrefetchAssumption, FS_Subset, FS_CardinalityType
<1>3. used' <= top /\ used' \in Int
  BY DEF TypeOK, BudgetType
<1> HIDE DEF W, e, top
<1>4. (W - e) * MaxGrowth \in Nat
  BY <1>1, <1>2, GrowthGrows
<1>5. used' <= top + (W - e) * MaxGrowth
  BY <1>1, <1>3, <1>4
<1> QED BY <1>5 DEF BudgetBound, LargestBuffer, W, e, top

\* acquire: the reservation covers the chunk and the buffer, and the grant is under
\* the bound.
LEMMA AcquireKeepsBound ==
  ASSUME TypeInv, TypeOK', BoundInv, NEW w \in Workers, AwaitTurn(w) \/ Admit(w)
  PROVE  BoundInv'
<1>0. /\ TypeOK /\ Reserved /\ BuffersBounded /\ BudgetBound
      /\ wpc \in [Workers -> WorkerStates] /\ held \in [Workers -> Nat]
      /\ reused \in [Workers -> Nat] /\ used \in Int /\ idle \in Seq(Nat)
  BY DEF TypeInv, BoundInv, TypeOK, WorkerType, BudgetType
<1>1. UNCHANGED <<slots, batch, wjob>>
  BY DEF AwaitTurn, Admit, queueVars, consumerVars
<1>2. /\ TopIdle \in Nat /\ TopIdle <= LargestBuffer
      /\ \A i \in DOMAIN WithoutTop : WithoutTop[i] <= LargestBuffer
      /\ LargestBuffer \in Nat /\ LargestChunk \in Nat /\ MaxGrowth \in Nat
      /\ Limit <= Larger(Limit, LargestBuffer) /\ LargestBuffer <= Larger(Limit, LargestBuffer)
      /\ Larger(Limit, LargestBuffer) \in Nat
  <2>1. /\ LargestBuffer \in Nat /\ LargestChunk \in Nat /\ MaxGrowth \in Nat
        /\ Limit <= Larger(Limit, LargestBuffer) /\ LargestBuffer <= Larger(Limit, LargestBuffer)
        /\ Larger(Limit, LargestBuffer) \in Nat
    BY <1>0, BoundType DEF TypeOK
  <2>2. CASE idle = <<>>
    BY <2>1, <2>2 DEF TopIdle, WithoutTop
  <2>3. CASE idle # <<>>
    <3>1. Len(idle) \in Nat \ {0} /\ DOMAIN idle = 1 .. Len(idle)
      BY <1>0, <2>3, EmptySeq, LenProperties
    <3>2. TopIdle \in Nat /\ TopIdle <= LargestBuffer
      <4>1. Len(idle) \in DOMAIN idle /\ TopIdle = idle[Len(idle)]
        BY <2>3, <3>1 DEF TopIdle
      <4>2. idle[Len(idle)] \in Nat
        BY <1>0, <3>1, LenProperties
      <4> QED BY <1>0, <4>1, <4>2 DEF BuffersBounded
    <3>3. \A i \in DOMAIN WithoutTop : i \in DOMAIN idle /\ WithoutTop[i] = idle[i]
      BY <1>0, <2>3, <3>1 DEF WithoutTop
    <3> QED BY <1>0, <2>1, <3>2, <3>3 DEF BuffersBounded
  <2> QED BY <2>2, <2>3
<1>3. CASE AwaitTurn(w)
  <2>1. CASE AcquireSleeps(w, wjob[w]) /\ UNCHANGED <<wpc, reused, held>>
    <3>1. UNCHANGED <<used, idle>>
      BY <2>1 DEF AcquireSleeps
    <3> QED BY <1>0, <1>1, <2>1, <3>1 DEF BoundInv, Reserved, BuffersBounded, BudgetBound, Decoding
  <2>2. CASE /\ AcquireEnters(w, wjob[w]) /\ Goto(w, "fit")
             /\ reused' = [reused EXCEPT ![w] = TopIdle] /\ Holds(w, TopIdle)
    <3>1. /\ \A v \in Workers : wpc'[v] = IF v = w THEN "fit" ELSE wpc[v]
          /\ \A v \in Workers : held'[v] = IF v = w THEN TopIdle ELSE held[v]
          /\ \A v \in Workers : reused'[v] = IF v = w THEN TopIdle ELSE reused[v]
          /\ wpc[w] = "turn" /\ used' = used /\ idle' = WithoutTop
      BY <1>0, <1>3, <2>2 DEF AwaitTurn, AcquireEnters, Goto, Holds
    <3>2. Reserved'
      BY <1>0, <1>1, <3>1 DEF Reserved
    <3>3. BuffersBounded'
      BY <1>0, <1>1, <1>2, <3>1 DEF BuffersBounded
    <3>4. Decoding' = Decoding
      BY <3>1 DEF Decoding
    <3>5. BudgetBound'
      BY <1>0, <3>1, <3>4, BoundKept
    <3> QED BY <3>2, <3>3, <3>5 DEF BoundInv
  <2> QED BY <1>3, <2>1, <2>2 DEF AwaitTurn
<1>4. CASE Admit(w)
  <2> DEFINE need == Need[wjob[w]]
             n == held[w] + Extra(need, held[w])
  <2>1. /\ wjob[w] \in Jobs /\ need \in Nat /\ Size[wjob[w]] \in Nat /\ Size[wjob[w]] <= need
        /\ need <= LargestChunk /\ wpc[w] = "fit" /\ reused' = reused
    BY <1>4, PrefetchAssumption, LargestChunkIsLargest DEF TypeInv, ClaimsValid, Admit, Busy
  <2>2. /\ n \in Nat /\ Extra(need, held[w]) \in Nat
        /\ n >= need /\ n >= held[w] /\ n <= LargestBuffer
        /\ held[w] \in Nat /\ held[w] = reused[w] /\ held[w] <= LargestBuffer
    BY <1>0, <1>2, <2>1 DEF Extra, Saturate, Reserved, BuffersBounded, LargestBuffer
  <2>3. CASE AdmitRefused(w, held[w]) /\ Goto(w, "exited") /\ Holds(w, 0)
    <3>1. /\ \A v \in Workers : wpc'[v] = IF v = w THEN "exited" ELSE wpc[v]
          /\ \A v \in Workers : held'[v] = IF v = w THEN 0 ELSE held[v]
          /\ used' = used - held[w] /\ UNCHANGED idle
      BY <1>0, <2>3 DEF AdmitRefused, Goto, Holds
    <3>2. Decoding' \subseteq Decoding /\ used' <= used
      BY <1>0, <2>2, <3>1 DEF Decoding
    <3>3. BudgetBound'
      BY <1>0, <3>2, BoundKept
    <3>4. Reserved'
      BY <1>0, <1>1, <2>1, <3>1 DEF Reserved
    <3>5. BuffersBounded'
      <4>1. BuffersBounded /\ LargestBuffer \in Nat /\ reused' = reused
        BY <1>0, <1>2, <2>1
      <4>2. \A v \in Workers : held'[v] <= LargestBuffer /\ reused'[v] <= LargestBuffer
        BY <3>1, <4>1 DEF BuffersBounded
      <4>3. UNCHANGED <<idle, slots, batch>>
        BY <1>1, <3>1
      <4> QED BY <4>1, <4>2, <4>3 DEF BuffersBounded
    <3> QED BY <3>3, <3>4, <3>5 DEF BoundInv
  <2>4. CASE AdmitGrants(w, need, held[w]) /\ Goto(w, "decode") /\ Holds(w, n)
    <3>1. /\ \A v \in Workers : wpc'[v] = IF v = w THEN "decode" ELSE wpc[v]
          /\ \A v \in Workers : held'[v] = IF v = w THEN n ELSE held[v]
          /\ used' = used + Extra(need, held[w]) /\ UNCHANGED idle
          /\ used + Extra(need, held[w]) <= Limit \/ used - held[w] = 0
      BY <1>0, <2>4 DEF AdmitGrants, Admissible, Goto, Holds
    <3> HIDE DEF n, need
    <3>2. used' <= Larger(Limit, LargestBuffer)
      <4>1. used' <= Limit \/ used' = n
        BY <1>0, <2>2, <3>1 DEF n
      <4>2. used' \in Int /\ Limit \in Nat
        BY <1>0, <2>2, <3>1, BudgetAssumption
      <4> QED BY <1>2, <2>2, <4>1, <4>2
    <3>3. BudgetBound'
      BY <3>2, BoundGranted
    <3>4. Reserved'
      <4>1. n >= Size[wjob[w]]
        BY <2>1, <2>2
      <4> QED BY <1>0, <1>1, <2>1, <2>2, <3>1, <4>1 DEF Reserved
    <3>5. BuffersBounded'
      BY <1>0, <1>1, <2>1, <2>2, <3>1 DEF BuffersBounded
    <3> QED BY <3>3, <3>4, <3>5 DEF BoundInv
  <2>5. CASE AdmitEvicts(w, need, held[w]) /\ UNCHANGED <<wpc, held>>
    <3>1. used' = used - TopIdle /\ idle' = WithoutTop
      BY <2>5 DEF AdmitEvicts
    <3>2. used' <= used /\ Decoding' \subseteq Decoding
      BY <1>0, <1>2, <2>5, <3>1 DEF Decoding
    <3>3. BudgetBound'
      BY <1>0, <3>2, BoundKept
    <3> QED BY <1>0, <1>1, <1>2, <2>1, <2>5, <3>1, <3>3 DEF BoundInv, Reserved, BuffersBounded
  <2>6. CASE AdmitSleeps(w, need, held[w]) /\ UNCHANGED <<wpc, held>>
    <3>1. UNCHANGED <<used, idle>>
      BY <2>6 DEF AdmitSleeps
    <3> QED BY <1>0, <1>1, <2>1, <2>6, <3>1 DEF BoundInv, Reserved, BuffersBounded, BudgetBound,
            Decoding
  <2> QED BY <1>4, <2>3, <2>4, <2>5, <2>6 DEF Admit
<1> QED BY <1>3, <1>4

\* The buffer of a decode grows past the largest chunk at most, and past its
\* reservation by less than a chunk.
LEMMA GrowthBound ==
  ASSUME TypeInv, BoundInv, NEW w \in Workers, wpc[w] = "decode", NEW cap \in DecodedCaps(w)
  PROVE  cap \in Nat /\ cap <= LargestBuffer /\ cap <= held[w] + MaxGrowth
<1> DEFINE size == Size[wjob[w]]
<1>1. /\ wjob[w] \in Jobs /\ size \in Nat \ {0} /\ Need[wjob[w]] \in Nat
      /\ reused[w] \in Nat /\ held[w] \in Nat
  BY DecodedCapsType
<1>2. /\ size <= Need[wjob[w]] /\ Need[wjob[w]] <= LargestChunk
      /\ LargestChunk \in Nat /\ MaxGrowth \in Nat /\ LargestChunk - 2 <= MaxGrowth
      /\ LargestBuffer = LargestChunk + MaxGrowth
  BY <1>1, PrefetchAssumption, LargestChunkIsLargest, BoundType
     DEF LargestBuffer, TypeInv, TypeOK
<1>3. held[w] >= reused[w] /\ held[w] >= size /\ reused[w] <= LargestBuffer
  BY DEF BoundInv, Reserved, BuffersBounded
<1>4. cap = size \/ cap = Grown(reused[w], size)
  BY DEF DecodedCaps
<1> HIDE DEF size
<1>5. cap = size \/ cap = reused[w] \/ (size > reused[w] /\ cap = 2 * reused[w])
  BY <1>1, <1>4 DEF Grown, Larger
<1> QED BY <1>1, <1>2, <1>3, <1>5

\* Every step of a worker keeps the bound.
LEMMA WorkerKeepsBound ==
  ASSUME TypeInv, TypeOK', BoundInv, NEW w \in Workers, Worker(w)
  PROVE  BoundInv'
<1>0. /\ TypeOK /\ Reserved /\ BuffersBounded /\ BudgetBound
      /\ wpc \in [Workers -> WorkerStates] /\ held \in [Workers -> Nat]
      /\ wjob \in [Workers -> 0 .. TotalJobs]
      /\ reused \in [Workers -> Nat] /\ used \in Int
      /\ LargestBuffer \in Nat /\ MaxGrowth \in Nat
  BY BoundType DEF TypeInv, BoundInv, TypeOK, WorkerType, BudgetType
<1>1. ASSUME NEW pc, pc \notin {"fit", "decode"}, wpc' = [wpc EXCEPT ![w] = pc],
             UNCHANGED reused,
             \A v \in Workers \ {w} : wjob'[v] = wjob[v] /\ held'[v] = held[v],
             held'[w] <= LargestBuffer
      PROVE  /\ Reserved' /\ Decoding' = Decoding \ {w}
             /\ \A v \in Workers : held'[v] <= LargestBuffer /\ reused'[v] <= LargestBuffer
  <2>1. \A v \in Workers : wpc'[v] = IF v = w THEN pc ELSE wpc[v]
    BY <1>0, <1>1
  <2>2. Reserved'
    BY <1>0, <1>1, <2>1 DEF Reserved
  <2>3. Decoding' = Decoding \ {w}
    BY <1>1, <2>1 DEF Decoding
  <2> QED BY <1>0, <1>1, <2>2, <2>3 DEF BuffersBounded
<1>2. ASSUME NEW pc, pc \notin {"fit", "decode"}, wpc' = [wpc EXCEPT ![w] = pc],
             UNCHANGED <<reused, held, batch>>,
             \A v \in Workers \ {w} : wjob'[v] = wjob[v], used' <= used,
             idle' = idle \/ idle' = <<>>, UNCHANGED slots
      PROVE  BoundInv'
  <2>1. held'[w] <= LargestBuffer /\ \A v \in Workers \ {w} : held'[v] = held[v]
    BY <1>0, <1>2 DEF BuffersBounded
  <2>2. /\ Reserved' /\ Decoding' = Decoding \ {w}
        /\ \A v \in Workers : held'[v] <= LargestBuffer /\ reused'[v] <= LargestBuffer
    BY <1>1, <1>2, <2>1
  <2>3. BudgetBound'
    BY <1>0, <1>2, <2>2, BoundKept
  <2>4. \A i \in DOMAIN idle' : idle'[i] <= LargestBuffer
    BY <1>0, <1>2 DEF BuffersBounded
  <2>5. BuffersBounded'
    BY <1>0, <1>2, <2>2, <2>4 DEF BuffersBounded
  <2> QED BY <2>2, <2>3, <2>5 DEF BoundInv
<1>3. CASE Claim(w)
  <2>1. UNCHANGED <<used, held, reused, idle, slots, batch>>
    BY <1>3 DEF Claim, queueVars, budgetVars, consumerVars
  <2>2. PICK pc \in {"turn", "exited"} : wpc' = [wpc EXCEPT ![w] = pc]
    BY <1>3 DEF Claim, Goto
  <2>3. \A v \in Workers \ {w} : wjob'[v] = wjob[v]
    BY <1>0, <1>3 DEF Claim
  <2>4. used' <= used
    BY <1>0, <2>1
  <2> QED BY <1>2, <2>1, <2>2, <2>3, <2>4
<1>4. CASE AwaitTurn(w) \/ Admit(w)
  BY <1>4, AcquireKeepsBound
<1>5. CASE Decode(w)
  <2>1. UNCHANGED <<slots, batch, wjob, reused>> /\ wpc[w] = "decode" /\ held[w] \in Nat
    BY <1>0, <1>5 DEF Decode, queueVars, consumerVars
  <2>2. ASSUME NEW cap \in Nat, NEW pc \in {"push", "abort"}, cap <= LargestBuffer,
               cap <= held[w] + MaxGrowth, Settle(held[w], cap), Holds(w, cap), Goto(w, pc)
        PROVE  BoundInv'
    <3>1. used' = used - held[w] + cap /\ UNCHANGED idle
      BY <2>2 DEF Settle
    <3>2. held'[w] = cap /\ \A v \in Workers \ {w} : held'[v] = held[v]
      BY <1>0, <2>2, HeldChange
    <3>3. /\ Reserved' /\ Decoding' = Decoding \ {w}
          /\ \A v \in Workers : held'[v] <= LargestBuffer /\ reused'[v] <= LargestBuffer
      BY <1>1, <2>1, <2>2, <3>2 DEF Goto
    <3>4. used' <= used + MaxGrowth /\ w \in Decoding
      BY <1>0, <2>1, <2>2, <3>1 DEF Decoding
    <3>5. BudgetBound'
      BY <1>0, <3>3, <3>4, BoundGrows
    <3>6. BuffersBounded'
      BY <1>0, <2>1, <3>1, <3>3 DEF BuffersBounded
    <3> QED BY <3>3, <3>5, <3>6 DEF BoundInv
  <2>3. ASSUME NEW cap \in DecodedCaps(w), Settle(held[w], cap), Holds(w, cap), Goto(w, "push")
        PROVE  BoundInv'
    BY <2>1, <2>2, <2>3, GrowthBound
  <2>4. 0 \in Nat /\ 0 <= LargestBuffer /\ 0 <= held[w] + MaxGrowth
    BY <1>0, <2>1
  <2>5. CASE Goto(w, "abort") /\ UNCHANGED <<held, budgetVars>>
    <3>1. used' <= used /\ UNCHANGED idle
      BY <1>0, <2>5 DEF budgetVars
    <3> QED BY <1>2, <2>1, <2>5, <3>1 DEF Goto
  <2> QED BY <1>5, <2>2, <2>3, <2>4, <2>5 DEF Decode
<1>6. CASE Push(w)
  <2>1. UNCHANGED <<used, idle, batch, wjob, reused>> /\ used' <= used
    BY <1>0, <1>6 DEF Push, budgetVars, consumerVars
  <2>2. CASE PushSleeps(w, wjob[w]) /\ UNCHANGED <<wpc, held>>
    <3>1. UNCHANGED slots
      BY <2>2 DEF PushSleeps
    <3> QED BY <1>0, <2>1, <2>2, <3>1 DEF BoundInv, Reserved, BuffersBounded, BudgetBound, Decoding
  <2>3. CASE PushStores(wjob[w], Result(w)) /\ Goto(w, "poll") /\ Holds(w, 0)
    <3>1. held'[w] = 0 /\ \A v \in Workers \ {w} : held'[v] = held[v]
      BY <1>0, <2>3, HeldChange
    <3>2. held'[w] <= LargestBuffer
      BY <1>0, <3>1
    <3>3. /\ Reserved' /\ Decoding' = Decoding \ {w}
          /\ \A v \in Workers : held'[v] <= LargestBuffer /\ reused'[v] <= LargestBuffer
      BY <1>1, <2>1, <2>3, <3>1, <3>2 DEF Goto
    <3>4. BudgetBound'
      BY <1>0, <2>1, <3>3, BoundKept
    <3>5. \A s \in DOMAIN slots' : CapOf(slots'[s]) <= LargestBuffer
      <4>1. slots' = [slots EXCEPT ![Slot(wjob[w])] = Result(w)]
        BY <2>3 DEF PushStores
      <4>2. CapOf(Result(w)) <= LargestBuffer
        <5>1. Result(w) \in Items /\ Result(w) # NoItem
          BY ItemTypes, PrefetchAssumption
        <5>2. Result(w).cap = held[w]
          BY <5>1 DEF Result, DecodeError, Chunk
        <5> QED BY <1>0, <5>1, <5>2 DEF CapOf, BuffersBounded
      <4>3. \A s \in DOMAIN slots' : s \in DOMAIN slots /\ slots'[s] \in {slots[s], Result(w)}
        BY <1>0, <4>1 DEF TypeOK, QueueType
      <4> QED BY <1>0, <4>2, <4>3 DEF BuffersBounded
    <3>6. BuffersBounded'
      BY <1>0, <2>1, <3>3, <3>5 DEF BuffersBounded
    <3> QED BY <3>3, <3>4, <3>6 DEF BoundInv
  <2>4. CASE PushRefused /\ Goto(w, "refund") /\ UNCHANGED held
    <3>1. UNCHANGED slots
      BY <2>4 DEF PushRefused, queueVars
    <3> QED BY <1>2, <2>1, <2>4, <3>1 DEF Goto
  <2> QED BY <1>6, <2>2, <2>3, <2>4 DEF Push
<1>7. CASE Refund(w)
  <2>1. /\ used' = used - held[w] + 0 /\ UNCHANGED <<idle, slots, batch, wjob, reused>>
        /\ Holds(w, 0) /\ wpc' = [wpc EXCEPT ![w] = "exited"]
    BY <1>7 DEF Refund, Settle, Goto, queueVars, consumerVars
  <2>2. /\ held'[w] = 0 /\ held'[w] <= LargestBuffer
        /\ \A v \in Workers \ {w} : held'[v] = held[v]
    BY <1>0, <2>1, HeldChange
  <2>3. used' <= used
    BY <1>0, <2>1
  <2>4. /\ Reserved' /\ Decoding' = Decoding \ {w}
        /\ \A v \in Workers : held'[v] <= LargestBuffer /\ reused'[v] <= LargestBuffer
    BY <1>1, <2>1, <2>2
  <2>5. BudgetBound'
    BY <1>0, <2>3, <2>4, BoundKept
  <2>6. BuffersBounded'
    BY <1>0, <2>1, <2>4 DEF BuffersBounded
  <2> QED BY <2>4, <2>5, <2>6 DEF BoundInv
<1>8. CASE Abort(w)
  <2>1. /\ used' = used - IdleBytes /\ idle' = <<>>
        /\ UNCHANGED <<held, slots, batch, wjob, reused>>
        /\ wpc' = [wpc EXCEPT ![w] = "report"]
    BY <1>8 DEF Abort, CloseBudget, Goto, queueVars, consumerVars
  <2>2. used' <= used
    BY <1>0, <2>1, PartsType
  <2> QED BY <1>2, <2>1, <2>2
<1>9. CASE Report(w)
  <2>1. /\ UNCHANGED <<used, idle, held, slots, batch, wjob, reused>>
        /\ wpc' = [wpc EXCEPT ![w] = "exited"]
    BY <1>9 DEF Report, FailQueue, Goto, budgetVars, consumerVars
  <2>2. used' <= used
    BY <1>0, <2>1
  <2> QED BY <1>2, <2>1, <2>2
<1> QED BY <1>3, <1>4, <1>5, <1>6, <1>7, <1>8, <1>9 DEF Worker

\* A batch that takes items of the ring stays bounded.
LEMMA DrainKeepsBound ==
  ASSUME TypeInv, BuffersBounded, NEW items \in Seq(Items), batch' = batch \o items,
         \A i \in DOMAIN items : items[i].cap <= LargestBuffer
  PROVE  \A i \in DOMAIN batch' : batch'[i].cap <= LargestBuffer
<1>1. batch \in Seq(Items)
  BY DEF TypeInv, TypeOK, ConsumerType
<1>2. /\ DOMAIN batch = 1 .. Len(batch) /\ DOMAIN items = 1 .. Len(items)
      /\ Len(batch) \in Nat /\ Len(items) \in Nat
      /\ DOMAIN batch' = 1 .. Len(batch) + Len(items)
      /\ \A i \in 1 .. Len(batch) : batch'[i] = batch[i]
      /\ \A i \in Len(batch) + 1 .. Len(batch) + Len(items) : batch'[i] = items[i - Len(batch)]
  BY <1>1
<1> TAKE i \in DOMAIN batch'
<1>3. CASE i \in 1 .. Len(batch)
  BY <1>2, <1>3 DEF BuffersBounded
<1>4. CASE i \in Len(batch) + 1 .. Len(batch) + Len(items)
  <2>1. i - Len(batch) \in DOMAIN items
    BY <1>2, <1>4
  <2> QED BY <1>2, <1>4, <2>1
<1> QED BY <1>2, <1>3, <1>4

\* A run leaves the ring for the batch, an error after it.
LEMMA TakeRunKeepsBound ==
  ASSUME TypeInv, BuffersBounded, LargestBuffer \in Nat,
         NEW max \in Int, NEW want, NEW n \in 0 .. Capacity, IsRun(n, max), TakeRun(n, want)
  PROVE  /\ \A i \in DOMAIN batch' : batch'[i].cap <= LargestBuffer
         /\ \A s \in DOMAIN slots' : CapOf(slots'[s]) <= LargestBuffer
<1>1. /\ Run(n) \in Seq(Items) /\ Len(Run(n)) = n
      /\ \A i \in 1 .. n : Run(n)[i] = slots[Slot(nextRead + i - 1)]
      /\ slots \in [0 .. Capacity - 1 -> Items \cup {NoItem}] /\ nextRead \in Nat /\ n \in Nat
  BY RunType, QueueAssumption DEF TypeInv, TypeOK, QueueType
<1>2. \A i \in DOMAIN Run(n) : Run(n)[i].cap <= LargestBuffer
  <2> TAKE i \in DOMAIN Run(n)
  <2>1. i \in 1 .. n /\ nextRead + i - 1 \in Nat
    BY <1>1
  <2>2. Run(n)[i] \in Items /\ Run(n)[i] # NoItem
    BY <1>1, <2>1, PrefetchAssumption, LenProperties
  <2>3. Slot(nextRead + i - 1) \in DOMAIN slots
    BY <1>1, <2>1, SlotType
  <2> QED BY <1>1, <2>1, <2>2, <2>3 DEF BuffersBounded, CapOf
<1>3. \A s \in DOMAIN slots' : CapOf(slots'[s]) <= LargestBuffer
  <2>1. slots' = WithoutRun(n)
    BY DEF TakeRun, DrainTakes, DrainTakesAndSleeps
  <2>2. \A s \in DOMAIN slots' : s \in DOMAIN slots /\ slots'[s] \in {slots[s], NoItem}
    BY <1>1, <2>1 DEF WithoutRun
  <2> QED BY <2>2 DEF BuffersBounded, CapOf
<1>4. CASE batch' = batch \o Run(n)
  BY <1>1, <1>2, <1>3, <1>4, DrainKeepsBound
<1>5. CASE terminalItem # NoItem /\ batch' = batch \o Append(Run(n), terminalItem)
  <2> DEFINE items == Append(Run(n), terminalItem)
  <2>1. terminalItem \in Items /\ terminalItem.cap = 0
    BY <1>5, ItemTypes DEF TypeInv, TypeOK, QueueType, Fatal
  <2>2. items \in Seq(Items) /\ DOMAIN items = 1 .. n + 1 /\ DOMAIN Run(n) = 1 .. n
        /\ items[n + 1] = terminalItem /\ \A i \in 1 .. n : items[i] = Run(n)[i]
    BY <1>1, <2>1
  <2>3. \A i \in 1 .. n + 1 : i \in 1 .. n \/ i = n + 1
    BY <1>1
  <2>4. \A i \in DOMAIN items : items[i].cap <= LargestBuffer
    <3> HIDE DEF items
    <3> QED BY <1>2, <2>1, <2>2, <2>3
  <2> HIDE DEF items
  <2> QED BY <1>3, <1>5, <2>2, <2>4, DrainKeepsBound DEF items
<1> QED BY <1>4, <1>5 DEF TakeRun, Deliver

\* Every step of the consumer keeps the bound.
LEMMA ConsumerKeepsBound ==
  ASSUME TypeInv, TypeOK', BoundInv, Consumer
  PROVE  BoundInv'
<1>0. /\ TypeOK /\ Reserved /\ BuffersBounded /\ BudgetBound /\ used \in Int
      /\ LargestBuffer \in Nat
  BY BoundType DEF TypeInv, BoundInv, TypeOK, BudgetType
<1>1. UNCHANGED <<wpc, wjob, reused, held>>
  BY DEF Consumer, Drain, DrainMore, Process, RecycleOne, Cancel, DropQueue, DropBudget, Join,
     workerVars
<1>2. Reserved' /\ Decoding' \subseteq Decoding
  BY <1>0, <1>1 DEF Reserved, Decoding
<1>3. ASSUME used' <= used, \A i \in DOMAIN idle' : idle'[i] <= LargestBuffer,
             \A s \in DOMAIN slots' : CapOf(slots'[s]) <= LargestBuffer,
             \A i \in DOMAIN batch' : batch'[i].cap <= LargestBuffer
      PROVE  BoundInv'
  <2>1. BudgetBound'
    BY <1>0, <1>2, <1>3, BoundKept
  <2>2. BuffersBounded'
    BY <1>0, <1>1, <1>3 DEF BuffersBounded
  <2> QED BY <1>2, <2>1, <2>2 DEF BoundInv
<1>4. ASSUME UNCHANGED <<used, idle>>,
             \A s \in DOMAIN slots' : CapOf(slots'[s]) <= LargestBuffer,
             \A i \in DOMAIN batch' : batch'[i].cap <= LargestBuffer
      PROVE  BoundInv'
  <2>1. used' <= used /\ \A i \in DOMAIN idle' : idle'[i] <= LargestBuffer
    BY <1>0, <1>4 DEF BuffersBounded
  <2> QED BY <1>3, <1>4, <2>1
<1>5. CASE Drain
  <2>1. UNCHANGED <<used, idle>>
    BY <1>5 DEF Drain, budgetVars
  <2>2. CASE UNCHANGED <<slots, batch>>
    BY <1>0, <1>4, <2>1, <2>2 DEF BuffersBounded
  <2>3. CASE DrainTerminal /\ Deliver(<<terminalItem>>)
    <3>1. UNCHANGED slots /\ batch' = batch \o <<terminalItem>> /\ terminalItem # NoItem
      BY <2>3 DEF DrainTerminal, Deliver
    <3>2. terminalItem \in Items /\ terminalItem.cap = 0
      BY <1>0, <3>1, ItemTypes DEF TypeOK, QueueType, Fatal
    <3>3. <<terminalItem>> \in Seq(Items)
          /\ \A i \in DOMAIN <<terminalItem>> : <<terminalItem>>[i].cap <= LargestBuffer
      BY <1>0, <3>2
    <3>4. \A i \in DOMAIN batch' : batch'[i].cap <= LargestBuffer
      BY <1>0, <3>1, <3>3, DrainKeepsBound
    <3> QED BY <1>0, <1>4, <2>1, <3>1, <3>4 DEF BuffersBounded
  <2>4. ASSUME NEW n \in 1 .. Capacity, IsRun(n, MaxBatch), TakeRun(n, MinBatch)
        PROVE  BoundInv'
    <3>1. n \in 0 .. Capacity /\ MaxBatch \in Int
      BY QueueAssumption, PrefetchAssumption
    <3>2. /\ \A i \in DOMAIN batch' : batch'[i].cap <= LargestBuffer
          /\ \A s \in DOMAIN slots' : CapOf(slots'[s]) <= LargestBuffer
      BY <1>0, <2>4, <3>1, TakeRunKeepsBound
    <3> QED BY <1>4, <2>1, <3>2
  <2> QED BY <1>5, <2>2, <2>3, <2>4 DEF Drain, DrainSleeps, DrainsNothing, queueVars
<1>6. CASE DrainMore
  <2> DEFINE want == IF qClosed THEN 1 ELSE MinBatch - Len(batch)
  <2>1. PICK n \in 0 .. Capacity : IsRun(n, want) /\ TakeRun(n, want)
    BY <1>6 DEF DrainMore
  <2>2. want \in Int
    BY <1>0, LenProperties, PrefetchAssumption DEF TypeOK, ConsumerType
  <2>3. UNCHANGED <<used, idle>>
    BY <1>6 DEF DrainMore, budgetVars
  <2> HIDE DEF want
  <2>4. /\ \A i \in DOMAIN batch' : batch'[i].cap <= LargestBuffer
        /\ \A s \in DOMAIN slots' : CapOf(slots'[s]) <= LargestBuffer
    BY <1>0, <2>1, <2>2, TakeRunKeepsBound
  <2> QED BY <1>4, <2>3, <2>4
<1>7. CASE RecycleOne
  <2>1. batch \in Seq(Items) /\ batch # <<>> /\ batch' = Tail(batch) /\ UNCHANGED slots
    BY <1>0, <1>7 DEF RecycleOne, TypeInv, BatchHeld, TypeOK, ConsumerType, queueVars
  <2> DEFINE n == Head(batch).cap
  <2>2. n \in Nat /\ n <= LargestBuffer
    <3>1. Head(batch) = batch[1] /\ 1 \in DOMAIN batch /\ Head(batch) \in Items
      BY <2>1
    <3> QED BY <1>0, <3>1 DEF BuffersBounded, Items
  <2>3. \A i \in DOMAIN batch' : batch'[i].cap <= LargestBuffer
    <3>1. \A i \in DOMAIN Tail(batch) : i + 1 \in DOMAIN batch /\ Tail(batch)[i] = batch[i + 1]
      BY <2>1
    <3> QED BY <1>0, <2>1, <3>1 DEF BuffersBounded
  <2>4. \A s \in DOMAIN slots' : CapOf(slots'[s]) <= LargestBuffer
    BY <1>0, <2>1 DEF BuffersBounded
  <2>5. \/ used' = used - n /\ UNCHANGED idle
        \/ idle' = Append(idle, n) /\ UNCHANGED used
    BY <1>7, Zenon DEF RecycleOne, Recycle
  <2> HIDE DEF n
  <2>6. used' <= used
    BY <1>0, <2>2, <2>5
  <2>7. \A i \in DOMAIN idle' : idle'[i] <= LargestBuffer
    <3>1. CASE UNCHANGED idle
      BY <1>0, <3>1 DEF BuffersBounded
    <3>2. CASE idle' = Append(idle, n)
      <4>1. idle \in Seq(Nat)
        BY <1>0 DEF TypeOK, BudgetType
      <4>2. /\ DOMAIN idle = 1 .. Len(idle) /\ DOMAIN idle' = 1 .. Len(idle) + 1 /\ Len(idle) \in Nat
            /\ idle'[Len(idle) + 1] = n /\ \A i \in 1 .. Len(idle) : idle'[i] = idle[i]
        BY <2>2, <3>2, <4>1
      <4>3. \A i \in 1 .. Len(idle) + 1 : i \in 1 .. Len(idle) \/ i = Len(idle) + 1
        BY <4>2
      <4> QED BY <1>0, <2>2, <4>2, <4>3 DEF BuffersBounded
    <3> QED BY <2>5, <3>1, <3>2
  <2> QED BY <1>3, <2>3, <2>4, <2>6, <2>7
<1>8. CASE DropBudget
  <2>1. used' = used - IdleBytes /\ idle' = <<>> /\ UNCHANGED <<slots, batch>>
    BY <1>8 DEF DropBudget, CloseBudget, queueVars
  <2>2. used' <= used
    BY <1>0, <2>1, PartsType
  <2>3. \A i \in DOMAIN idle' : idle'[i] <= LargestBuffer
    BY <2>1
  <2> QED BY <1>0, <1>3, <2>1, <2>2, <2>3 DEF BuffersBounded
<1>9. CASE Process \/ Cancel \/ DropQueue \/ Join
  <2>1. UNCHANGED <<used, idle, slots, batch>>
    BY <1>9 DEF Process, Cancel, DropQueue, Join, CloseQueue, queueVars, budgetVars
  <2> QED BY <1>0, <1>4, <2>1 DEF BuffersBounded
<1> QED BY <1>5, <1>6, <1>7, <1>8, <1>9 DEF Consumer

\* The bound is inductive relative to the types.
LEMMA BoundInvInductive ==
  /\ Init => BoundInv
  /\ TypeInv /\ BoundInv /\ [Next]_vars => BoundInv'
<1>1. ASSUME Init PROVE BoundInv
  <2>1. /\ used = 0 /\ idle = <<>> /\ batch = <<>> /\ held = [w \in Workers |-> 0]
        /\ reused = [w \in Workers |-> 0] /\ wpc = [w \in Workers |-> "poll"]
        /\ slots = [s \in 0 .. Capacity - 1 |-> NoItem]
    BY <1>1 DEF Init, BudgetInit, QueueInit
  <2>2. TypeOK
    BY <1>1, TypeInvInductive DEF TypeInv
  <2>3. /\ LargestBuffer \in Nat /\ MaxGrowth \in Nat /\ Larger(Limit, LargestBuffer) \in Nat
        /\ Cardinality(Workers) \in Nat /\ Cardinality(Decoding) \in Nat
        /\ Cardinality(Decoding) <= Cardinality(Workers)
    BY <2>2, BoundType DEF TypeOK
  <2>4. Reserved /\ BuffersBounded
    BY <2>1, <2>3 DEF Reserved, BuffersBounded, CapOf
  <2> DEFINE a == Cardinality(Workers) - Cardinality(Decoding)
  <2>5. a \in Nat
    BY <2>3
  <2> HIDE DEF a
  <2>6. a * MaxGrowth \in Nat
    BY <2>3, <2>5, GrowthGrows
  <2>7. used <= Larger(Limit, LargestBuffer) + a * MaxGrowth
    BY <2>1, <2>3, <2>6
  <2>8. BudgetBound
    BY <2>7 DEF BudgetBound, LargestBuffer, a
  <2> QED BY <2>4, <2>8 DEF BoundInv
<1>2. ASSUME TypeInv, BoundInv, [Next]_vars PROVE BoundInv'
  <2>0. TypeOK'
    BY <1>2, TypeInvInductive DEF TypeInv
  <2>1. CASE UNCHANGED vars
    BY <1>2, <2>1 DEF vars, queueVars, budgetVars, workerVars, consumerVars,
       BoundInv, Reserved, BuffersBounded, BudgetBound, Decoding
  <2> QED BY <1>2, <2>0, <2>1, WorkerKeepsBound, ConsumerKeepsBound DEF Next, Finished
<1> QED BY <1>1, <1>2

\* The decoded bytes stay under the limit, or under one grown buffer that is granted
\* alone, plus one growth for every worker that does not decode: for any limit, any
\* chunk sizes and any number of workers.
THEOREM BudgetStaysBounded == Spec => []BudgetBound
<1>1. BoundInv => BudgetBound
  BY DEF BoundInv
<1> QED BY <1>1, TypeInvInductive, BoundInvInductive, PTL DEF Spec

\* Both together, as admission, settling, recycling and closing have to keep them.
THEOREM BudgetIsSound == Spec => []BudgetSound
<1>1. BudgetBalanced /\ BudgetBound => BudgetSound
  BY DEF BudgetSound
<1> QED BY <1>1, BudgetAccount, BudgetStaysBounded, PTL

-----------------------------------------------------------------------------
(* The byte accounts of the sharded map and the output buffer.              *)

\* The sizes whose sums are the three accounts.
StateSizes == [c \in DOMAIN map |-> HeapBytes(map[c])]
ShardSizes(c, hc) == [s \in Shards |-> ShardBytes(s, c, hc)]
RecordSizes(records) == [i \in DOMAIN records |-> records[i][2]]

\* The types of the map's variables.
MapTypes ==
    /\ DOMAIN map \subseteq Cells /\ \A c \in DOMAIN map : map[c] \in Nat
    /\ DOMAIN heap = Shards
    /\ tableCap \in [Shards -> Nat] /\ heapCap \in [Shards -> Nat]
    /\ trackEviction \in BOOLEAN
    /\ output \in Seq(Cells \X Nat)

\* Each account is the sum of what it counts.
Counts ==
    /\ dynamicBytes = ByteSum(StateSizes)
    /\ structureBytes = ByteSum(ShardSizes(tableCap, heapCap))
    /\ outputBytes = ByteSum(RecordSizes(output))

\* A shard without cells has released its table and its heap.
Released == \A s \in Shards : InShard(s) = {} => tableCap[s] = 0 /\ heapCap[s] = 0

InHeaps == \A s \in Shards : heap[s] = IF trackEviction THEN InShard(s) ELSE {}

\* The inductive invariant.
MapInv == MapTypes /\ Counts /\ Released /\ InHeaps

\* Total is the sum the budget's lemmas are about.
LEMMA TotalIsSum == ASSUME NEW sizes PROVE Total(sizes) = ByteSum(sizes)
BY Zenon DEF Total, ByteSum, Bytes

\* Sizes are numbers.
LEMMA SizeTypes ==
  ASSUME MapAssumption
  PROVE  /\ \A n \in Nat : HeapBytes(n) \in Nat /\ MemoryBytes(n) \in Nat
         /\ \A n \in Nat : TableBytes(n) \in Nat
         /\ \A n, k \in Nat : Doubled(n, k) \in Nat
BY DEF MapAssumption, HeapBytes, MemoryBytes, TableBytes, Doubled

\* The sizes of the shards, for any capacities.
LEMMA ShardSizesType ==
  ASSUME MapAssumption, NEW c \in [Shards -> Nat], NEW hc \in [Shards -> Nat]
  PROVE  /\ Capacities(ShardSizes(c, hc))
         /\ \A s \in Shards : ShardBytes(s, c, hc) \in Nat
<1>1. \A s \in Shards : c[s] \in Nat /\ hc[s] \in Nat /\ TableBytes(c[s]) \in Nat
  BY SizeTypes
<1>2. \A s \in Shards : ShardBytes(s, c, hc) \in Nat
  BY <1>1 DEF ShardBytes
<1>3. IsFiniteSet(Shards)
  BY DEF MapAssumption
<1> QED BY <1>2, <1>3 DEF ShardSizes, Capacities

\* The sizes of the states.
LEMMA StateSizesType ==
  ASSUME MapAssumption, MapTypes
  PROVE  IsFiniteSet(DOMAIN map) /\ Capacities(StateSizes)
<1>1. IsFiniteSet(DOMAIN map)
  BY FS_Subset DEF MapAssumption, MapTypes
<1>2. \A c \in DOMAIN map : HeapBytes(map[c]) \in Nat
  BY SizeTypes DEF MapTypes
<1> QED BY <1>1, <1>2 DEF StateSizes, Capacities

\* Nobody owns nothing.
LEMMA SumOfNone ==
  ASSUME NEW caps, \A o \in DOMAIN caps : caps[o] = 0
  PROVE  ByteSum(caps) = 0
<1>1. \A o \in DOMAIN caps : {o} \X (1 .. caps[o]) = {}
  BY SMT
<1>2. \A b : b \notin Bytes(caps)
  BY <1>1, BytesMember, Zenon
<1>3. Bytes(caps) = {}
  BY <1>2
<1> QED BY <1>3, FS_EmptySet DEF ByteSum

\* An owner that leaves takes its bytes along.
LEMMA SumWithout ==
  ASSUME NEW caps, Capacities(caps), NEW o \in DOMAIN caps
  PROVE  ByteSum([q \in DOMAIN caps \ {o} |-> caps[q]]) = ByteSum(caps) - caps[o]
<1> DEFINE rest == [q \in DOMAIN caps \ {o} |-> caps[q]]
<1>1. Capacities(rest)
  BY FS_Subset DEF Capacities
<1>2. ByteSum(rest) \in Nat /\ caps[o] \in Nat
  BY <1>1, SumType DEF Capacities
<1>3. DOMAIN caps = DOMAIN rest \cup {o} /\ o \notin DOMAIN rest
  OBVIOUS
<1>4. \A q \in DOMAIN rest \ {o} : caps[q] = rest[q]
  OBVIOUS
<1> HIDE DEF rest
<1>5. ByteSum(caps) = ByteSum(rest) + caps[o]
  BY <1>1, <1>3, <1>4, SumChange
<1>6. ByteSum(rest) = ByteSum(caps) - caps[o]
  BY <1>2, <1>5
<1> QED BY <1>6 DEF rest

-----------------------------------------------------------------------------
\* The other shards keep their capacities.
OthersKept(s, c, hc, d, hd) == \A q \in Shards \ {s} : d[q] = c[q] /\ hd[q] = hc[q]

\* A changed shard changes the structure's account by its own bytes.
LEMMA ShardChange ==
  ASSUME MapAssumption, NEW s \in Shards,
         NEW c \in [Shards -> Nat], NEW hc \in [Shards -> Nat],
         NEW d \in [Shards -> Nat], NEW hd \in [Shards -> Nat],
         OthersKept(s, c, hc, d, hd)
  PROVE  ByteSum(ShardSizes(d, hd)) =
           ByteSum(ShardSizes(c, hc)) - ShardBytes(s, c, hc) + ShardBytes(s, d, hd)
<1> DEFINE f == ShardSizes(c, hc)
           g == ShardSizes(d, hd)
<1>1. Capacities(f) /\ Capacities(g)
  BY ShardSizesType
<1>2. DOMAIN f = Shards /\ DOMAIN g = Shards
  BY DEF ShardSizes
<1>3. \A q \in Shards : f[q] = ShardBytes(q, c, hc) /\ g[q] = ShardBytes(q, d, hd)
  BY DEF ShardSizes
<1>4. \A q \in Shards \ {s} : ShardBytes(q, d, hd) = ShardBytes(q, c, hc)
  BY DEF ShardBytes, OthersKept
<1> HIDE DEF f, g
<1>5. \A q \in DOMAIN f \ {s} : g[q] = f[q]
  BY <1>2, <1>3, <1>4
<1>6. DOMAIN g = DOMAIN f \cup {s} /\ s \in DOMAIN f /\ s \in DOMAIN g
  BY <1>2
<1>7. ByteSum(g) = ByteSum(f) - f[s] + g[s]
  BY <1>1, <1>5, <1>6, SumChange
<1> QED BY <1>7, <1>3 DEF f, g

-----------------------------------------------------------------------------
LEMMA InitMap == ASSUME MapAssumption, MapInit PROVE MapInv
<1>1. DOMAIN map = {} /\ DOMAIN output = {}
  BY DEF MapInit
<1>2. MapTypes
  BY <1>1 DEF MapInit, MapTypes
<1>3. ByteSum(StateSizes) = 0
  BY <1>1, SumOfNone DEF StateSizes
<1>4. \A s \in Shards : ShardBytes(s, tableCap, heapCap) = 0
  BY DEF MapInit, ShardBytes, TableBytes
<1>5. ByteSum(ShardSizes(tableCap, heapCap)) = 0
  BY <1>4, SumOfNone DEF ShardSizes
<1>6. ByteSum(RecordSizes(output)) = 0
  BY <1>1, SumOfNone DEF RecordSizes
<1>7. Counts
  BY <1>3, <1>5, <1>6 DEF MapInit, Counts
<1>8. Released
  BY DEF MapInit, Released
<1>9. InHeaps
  BY <1>1 DEF MapInit, InHeaps, InShard
<1> QED BY <1>2, <1>7, <1>8, <1>9 DEF MapInv

\* merge_owned_with on a cell that is there.
LEMMA StepMergeExisting ==
  ASSUME MapAssumption, MapInv, NEW c \in Cells, NEW n \in 1 .. MaxClasses, MergeExisting(c, n)
  PROVE  MapInv'
<1> DEFINE merged == IF map[c] + n > MaxClasses THEN MaxClasses ELSE map[c] + n
<1>0. MapTypes /\ Counts /\ Released /\ InHeaps
  BY DEF MapInv
<1>1. /\ c \in DOMAIN map /\ map' = [map EXCEPT ![c] = merged]
      /\ dynamicBytes' = dynamicBytes - HeapBytes(map[c]) + HeapBytes(merged)
      /\ UNCHANGED <<heap, tableCap, heapCap, structureBytes, trackEviction, output, outputBytes>>
  BY DEF MergeExisting
<1>2. merged \in Nat /\ map[c] \in Nat
  BY <1>0, <1>1 DEF MapTypes, MapAssumption
<1> HIDE DEF merged
<1>3. DOMAIN map' = DOMAIN map /\ map'[c] = merged /\ \A q \in DOMAIN map \ {c} : map'[q] = map[q]
  BY <1>1
<1>4. MapTypes'
  <2>1. \A q \in DOMAIN map' : map'[q] \in Nat
    BY <1>0, <1>2, <1>3 DEF MapTypes
  <2> QED BY <2>1, <1>0, <1>1, <1>3 DEF MapTypes
<1>5. \A s \in Shards : InShard(s)' = InShard(s)
  BY <1>3 DEF InShard
<1>6. Capacities(StateSizes) /\ Capacities(StateSizes')
  <2>1. Capacities(StateSizes)
    BY <1>0, StateSizesType
  <2>2. \A q \in DOMAIN map' : HeapBytes(map'[q]) \in Nat
    BY <1>4, SizeTypes DEF MapTypes
  <2>3. IsFiniteSet(DOMAIN map')
    BY <1>0, <1>3, StateSizesType
  <2> QED BY <2>1, <2>2, <2>3 DEF Capacities, StateSizes
<1>7. ByteSum(StateSizes') = ByteSum(StateSizes) - HeapBytes(map[c]) + HeapBytes(merged)
  <2> DEFINE f == StateSizes
             g == StateSizes'
  <2>1. DOMAIN f = DOMAIN map /\ DOMAIN g = DOMAIN map
    BY <1>3 DEF StateSizes
  <2>2. f[c] = HeapBytes(map[c]) /\ g[c] = HeapBytes(merged)
    BY <1>1, <1>3 DEF StateSizes
  <2>3. \A q \in DOMAIN f \ {c} : g[q] = f[q]
    BY <1>3 DEF StateSizes
  <2>4. Capacities(f) /\ Capacities(g)
    BY <1>6
  <2> HIDE DEF f, g
  <2>5. DOMAIN g = DOMAIN f \cup {c} /\ c \in DOMAIN f /\ c \in DOMAIN g
    BY <2>1, <1>1
  <2>6. ByteSum(g) = ByteSum(f) - f[c] + g[c]
    BY <2>3, <2>4, <2>5, SumChange
  <2> QED BY <2>2, <2>6 DEF f, g
<1>8. dynamicBytes' = ByteSum(StateSizes')
  BY <1>0, <1>1, <1>7 DEF Counts
<1>9. Counts'
  BY <1>0, <1>1, <1>8 DEF Counts, ByteSum, Bytes
<1>10. Released'
  BY <1>0, <1>1, <1>5 DEF Released
<1>11. InHeaps'
  BY <1>0, <1>1, <1>5 DEF InHeaps
<1> QED BY <1>4, <1>9, <1>10, <1>11 DEF MapInv

\* A shard and its heap have finitely many entries.
LEMMA CardsType ==
  ASSUME MapAssumption, MapTypes, InHeaps, NEW s \in Shards
  PROVE  /\ IsFiniteSet(InShard(s)) /\ Cardinality(InShard(s)) \in Nat
         /\ Cardinality(heap[s]) \in Nat
         /\ InShard(s) # {} => Cardinality(InShard(s)) > 0
<1>1. IsFiniteSet(DOMAIN map)
  BY StateSizesType
<1>2. InShard(s) \subseteq DOMAIN map
  BY DEF InShard
<1>3. IsFiniteSet(InShard(s))
  BY <1>1, <1>2, FS_Subset
<1>4. Cardinality(InShard(s)) \in Nat
  BY <1>3, FS_CardinalityType
<1>5. heap[s] = InShard(s) \/ heap[s] = {}
  BY DEF InHeaps
<1>6. Cardinality(heap[s]) \in Nat
  BY <1>4, <1>5, FS_EmptySet
<1>7. InShard(s) # {} => Cardinality(InShard(s)) # 0
  BY <1>3, FS_EmptySet
<1> QED BY <1>3, <1>4, <1>6, <1>7

\* merge_owned_with on a new cell.
LEMMA StepMergeNew ==
  ASSUME MapAssumption, MapInv, NEW c \in Cells, NEW n \in 1 .. MaxClasses, MergeNew(c, n)
  PROVE  MapInv'
<1> DEFINE s == ShardOf[c]
<1>0. MapTypes /\ Counts /\ Released /\ InHeaps
  BY DEF MapInv
<1>1. s \in Shards /\ n \in Nat
  BY DEF MapAssumption
<1>2. /\ c \notin DOMAIN map
      /\ map' = [x \in DOMAIN map \cup {c} |-> IF x = c THEN n ELSE map[x]]
      /\ dynamicBytes' = dynamicBytes + HeapBytes(n)
      /\ UNCHANGED <<trackEviction, output, outputBytes>>
  BY DEF MergeNew
<1>3. /\ tableCap' = [tableCap EXCEPT ![s] = Doubled(tableCap[s], Cardinality(InShard(s)))]
      /\ heapCap' = [heapCap EXCEPT ![s] =
                        IF trackEviction THEN Doubled(heapCap[s], Cardinality(heap[s])) ELSE heapCap[s]]
  BY DEF MergeNew
<1>4. heap' = [heap EXCEPT ![s] = IF trackEviction THEN heap[s] \cup {c} ELSE heap[s]]
  BY DEF MergeNew
<1>5. structureBytes' = structureBytes - ShardBytes(s, tableCap, heapCap) + ShardBytes(s, tableCap', heapCap')
  BY DEF MergeNew
<1>6. ShardOf[c] = s
  OBVIOUS
<1> HIDE DEF s
<1>7. DOMAIN map' = DOMAIN map \cup {c} /\ map'[c] = n /\ \A q \in DOMAIN map : map'[q] = map[q]
  BY <1>2
<1>8. tableCap' \in [Shards -> Nat] /\ heapCap' \in [Shards -> Nat]
  <2>1. tableCap[s] \in Nat /\ heapCap[s] \in Nat
    BY <1>0, <1>1 DEF MapTypes
  <2>2. Cardinality(InShard(s)) \in Nat /\ Cardinality(heap[s]) \in Nat
    BY <1>0, <1>1, CardsType
  <2>3. /\ Doubled(tableCap[s], Cardinality(InShard(s))) \in Nat
        /\ Doubled(heapCap[s], Cardinality(heap[s])) \in Nat
    BY <2>1, <2>2, SizeTypes
  <2> QED BY <2>1, <2>3, <1>0, <1>3 DEF MapTypes
<1>9. MapTypes'
  <2>1. \A q \in DOMAIN map' : map'[q] \in Nat
    BY <1>0, <1>1, <1>7 DEF MapTypes
  <2>2. DOMAIN heap' = Shards
    BY <1>0, <1>4 DEF MapTypes
  <2> QED BY <2>1, <2>2, <1>0, <1>2, <1>7, <1>8 DEF MapTypes
<1>10. InShard(s)' = InShard(s) \cup {c} /\ \A q \in Shards \ {s} : InShard(q)' = InShard(q)
  BY <1>6, <1>7 DEF InShard
<1>11. \A q \in Shards \ {s} : tableCap'[q] = tableCap[q] /\ heapCap'[q] = heapCap[q]
  BY <1>0, <1>3 DEF MapTypes
<1>12. Released'
  BY <1>0, <1>10, <1>11 DEF Released
<1>13. InHeaps'
  <2>1. heap'[s] = IF trackEviction THEN heap[s] \cup {c} ELSE heap[s]
    BY <1>0, <1>1, <1>4 DEF MapTypes
  <2>2. \A q \in Shards \ {s} : heap'[q] = heap[q]
    BY <1>0, <1>4 DEF MapTypes
  <2>3. heap'[s] = IF trackEviction' THEN InShard(s)' ELSE {}
    BY <2>1, <1>0, <1>1, <1>2, <1>10 DEF InHeaps
  <2>4. \A q \in Shards \ {s} : heap'[q] = IF trackEviction' THEN InShard(q)' ELSE {}
    BY <2>2, <1>0, <1>2, <1>10 DEF InHeaps
  <2> QED BY <2>3, <2>4 DEF InHeaps
<1>14. ByteSum(StateSizes') = ByteSum(StateSizes) + HeapBytes(n)
  <2> DEFINE f == StateSizes
             g == StateSizes'
  <2>1. DOMAIN f = DOMAIN map /\ DOMAIN g = DOMAIN map \cup {c}
    BY <1>7 DEF StateSizes
  <2>2. g[c] = HeapBytes(n)
    BY <1>7 DEF StateSizes
  <2>3. \A q \in DOMAIN f \ {c} : g[q] = f[q]
    BY <1>7 DEF StateSizes
  <2>4. Capacities(f)
    BY <1>0, StateSizesType
  <2>5. Capacities(g)
    <3>1. \A q \in DOMAIN map' : HeapBytes(map'[q]) \in Nat
      BY <1>9, SizeTypes DEF MapTypes
    <3>2. IsFiniteSet(DOMAIN map')
      <4>1. DOMAIN map' \subseteq Cells
        BY <1>9 DEF MapTypes
      <4> QED BY <4>1, FS_Subset DEF MapAssumption
    <3> QED BY <3>1, <3>2 DEF Capacities, StateSizes
  <2> HIDE DEF f, g
  <2>6. DOMAIN g = DOMAIN f \cup {c} /\ c \notin DOMAIN f /\ c \in DOMAIN g
    BY <2>1, <1>2
  <2>7. ByteSum(g) = ByteSum(f) + g[c]
    BY <2>3, <2>4, <2>5, <2>6, SumChange
  <2> QED BY <2>2, <2>7 DEF f, g
<1>15. ByteSum(ShardSizes(tableCap', heapCap')) =
         ByteSum(ShardSizes(tableCap, heapCap)) - ShardBytes(s, tableCap, heapCap)
           + ShardBytes(s, tableCap', heapCap')
  <2>1. tableCap \in [Shards -> Nat] /\ heapCap \in [Shards -> Nat]
    BY <1>0 DEF MapTypes
  <2> DEFINE d == tableCap'
             hd == heapCap'
  <2>2. d \in [Shards -> Nat] /\ hd \in [Shards -> Nat]
    BY <1>8
  <2>3. OthersKept(s, tableCap, heapCap, d, hd)
    BY <1>11 DEF OthersKept
  <2> HIDE DEF d, hd
  <2>4. ByteSum(ShardSizes(d, hd)) =
          ByteSum(ShardSizes(tableCap, heapCap)) - ShardBytes(s, tableCap, heapCap)
            + ShardBytes(s, d, hd)
    BY <2>1, <2>2, <2>3, <1>1, ShardChange
  <2> QED BY <2>4 DEF d, hd
<1>16. dynamicBytes' = ByteSum(StateSizes')
  BY <1>0, <1>2, <1>14 DEF Counts
<1>17. structureBytes' = ByteSum(ShardSizes(tableCap', heapCap'))
  BY <1>0, <1>5, <1>15 DEF Counts
<1>18. outputBytes' = ByteSum(RecordSizes(output'))
  BY <1>0, <1>2 DEF Counts
<1>19. Counts'
  BY <1>16, <1>17, <1>18 DEF Counts
<1> QED BY <1>9, <1>12, <1>13, <1>19 DEF MapInv

\* The sizes of waiting records.
LEMMA RecordSizesType ==
  ASSUME NEW records \in Seq(Cells \X Nat)
  PROVE  RecordSizes(records) \in Seq(Nat) /\ Capacities(RecordSizes(records))
<1>1. \A i \in 1 .. Len(records) : records[i][2] \in Nat
  OBVIOUS
<1>2. RecordSizes(records) = [i \in 1 .. Len(records) |-> records[i][2]]
  BY DEF RecordSizes
<1>3. IsFiniteSet(1 .. Len(records))
  BY FS_Interval
<1> QED BY <1>1, <1>2, <1>3 DEF Capacities

\* One more record.
LEMMA RecordAppended ==
  ASSUME NEW records \in Seq(Cells \X Nat), NEW c \in Cells, NEW n \in Nat
  PROVE  ByteSum(RecordSizes(Append(records, <<c, n>>))) = ByteSum(RecordSizes(records)) + n
<1>1. RecordSizes(Append(records, <<c, n>>)) = Append(RecordSizes(records), n)
  <2>1. RecordSizes(records) \in Seq(Nat) /\ Len(RecordSizes(records)) = Len(records)
    BY RecordSizesType DEF RecordSizes
  <2> DEFINE more == Append(records, <<c, n>>)
  <2>2. more \in Seq(Cells \X Nat) /\ Len(more) = Len(records) + 1
    OBVIOUS
  <2>3. \A i \in 1 .. Len(more) : more[i][2] = Append(RecordSizes(records), n)[i]
    BY <2>1, <2>2 DEF RecordSizes
  <2>4. Append(RecordSizes(records), n) \in Seq(Nat) /\ Len(Append(RecordSizes(records), n)) = Len(more)
    BY <2>1, <2>2
  <2>5. RecordSizes(more) \in Seq(Nat) /\ Len(RecordSizes(more)) = Len(more)
    BY <2>2, RecordSizesType DEF RecordSizes
  <2>6. \A i \in 1 .. Len(more) : RecordSizes(more)[i] = more[i][2]
    BY <2>2 DEF RecordSizes
  <2> HIDE DEF more
  <2>7. RecordSizes(more) = Append(RecordSizes(records), n)
    BY <2>3, <2>4, <2>5, <2>6, SeqEqual
  <2> QED BY <2>7 DEF more
<1> QED BY <1>1, RecordSizesType, SumAppend

\* pop_completed.
LEMMA StepPopCompleted ==
  ASSUME MapAssumption, MapInv, NEW h \in Horizons, PopCompleted(h)
  PROVE  MapInv'
<1>0. MapTypes /\ Counts /\ Released /\ InHeaps
  BY DEF MapInv
<1>1. PICK s \in Shards : \E c \in heap[s] : PopCell(s, c)
  BY DEF PopCompleted
<1>2. PICK c \in heap[s] : PopCell(s, c)
  BY <1>1
<1>3. trackEviction /\ heap[s] = InShard(s) /\ c \in InShard(s)
  BY <1>0, <1>2 DEF InHeaps
<1>4. c \in DOMAIN map /\ ShardOf[c] = s /\ c \in Cells /\ map[c] \in Nat
  BY <1>0, <1>3 DEF InShard, MapTypes
<1>5. map' = [q \in DOMAIN map \ {c} |-> map[q]]
  BY <1>2 DEF PopCell, Without
<1>6. heap' = [heap EXCEPT ![s] = IF InShard(s) = {c} THEN {} ELSE heap[s] \ {c}]
  BY <1>2 DEF PopCell
<1>7. heapCap' = [heapCap EXCEPT ![s] = IF InShard(s) = {c} THEN 0 ELSE heapCap[s]]
  BY <1>2 DEF PopCell
<1>8. PICK left \in {tableCap[s], tableCap[s] - 1} :
        /\ left >= Cardinality(InShard(s)) - 1
        /\ tableCap' = [tableCap EXCEPT ![s] = IF InShard(s) = {c} THEN 0 ELSE left]
  BY <1>2 DEF PopCell
<1>9. /\ structureBytes' = structureBytes - ShardBytes(s, tableCap, heapCap)
                             + ShardBytes(s, tableCap', heapCap')
      /\ dynamicBytes' = dynamicBytes - HeapBytes(map[c])
      /\ output' = Append(output, <<c, MemoryBytes(map[c])>>)
      /\ outputBytes' = outputBytes + MemoryBytes(map[c])
      /\ trackEviction' = trackEviction
  BY <1>2 DEF PopCell
<1>10. InShard(s)' = InShard(s) \ {c} /\ \A q \in Shards \ {s} : InShard(q)' = InShard(q)
  BY <1>4, <1>5 DEF InShard
<1>11. left \in Nat
  <2>1. Cardinality(InShard(s)) \in Nat /\ Cardinality(InShard(s)) > 0
    BY <1>0, <1>3, CardsType
  <2>2. tableCap[s] \in Nat
    BY <1>0 DEF MapTypes
  <2> QED BY <2>1, <2>2, <1>8
<1>12. tableCap' \in [Shards -> Nat] /\ heapCap' \in [Shards -> Nat]
  <2>1. tableCap \in [Shards -> Nat] /\ heapCap \in [Shards -> Nat]
    BY <1>0 DEF MapTypes
  <2>2. tableCap' \in [Shards -> Nat]
    BY <2>1, <1>8, <1>11
  <2>3. heapCap' \in [Shards -> Nat]
    BY <2>1, <1>7
  <2> QED BY <2>2, <2>3
<1>13. MemoryBytes(map[c]) \in Nat
  BY <1>4, SizeTypes
<1>14. MapTypes'
  <2>1. DOMAIN map' \subseteq Cells /\ \A q \in DOMAIN map' : map'[q] \in Nat
    BY <1>0, <1>5 DEF MapTypes
  <2>2. DOMAIN heap' = Shards
    BY <1>0, <1>6 DEF MapTypes
  <2>3. output' \in Seq(Cells \X Nat)
    <3>1. output \in Seq(Cells \X Nat)
      BY <1>0 DEF MapTypes
    <3>2. <<c, MemoryBytes(map[c])>> \in Cells \X Nat
      BY <1>4, <1>13
    <3> QED BY <3>1, <3>2, <1>9
  <2>4. trackEviction' \in BOOLEAN
    BY <1>0, <1>9 DEF MapTypes
  <2> QED BY <2>1, <2>2, <2>3, <2>4, <1>12 DEF MapTypes
<1>15. Released'
  <2>1. InShard(s)' = {} => tableCap'[s] = 0 /\ heapCap'[s] = 0
    <3>1. SUFFICES ASSUME InShard(s)' = {} PROVE tableCap'[s] = 0 /\ heapCap'[s] = 0
      OBVIOUS
    <3>2. InShard(s) = {c}
      BY <3>1, <1>3, <1>10
    <3>3. s \in DOMAIN tableCap /\ s \in DOMAIN heapCap
      BY <1>0 DEF MapTypes
    <3> QED BY <3>2, <3>3, <1>7, <1>8
  <2>2. \A q \in Shards \ {s} : tableCap'[q] = tableCap[q] /\ heapCap'[q] = heapCap[q]
    BY <1>0, <1>7, <1>8 DEF MapTypes
  <2>3. \A q \in Shards \ {s} : InShard(q)' = {} => tableCap'[q] = 0 /\ heapCap'[q] = 0
    BY <2>2, <1>0, <1>10 DEF Released
  <2> QED BY <2>1, <2>3 DEF Released
<1>16. InHeaps'
  <2>1. DOMAIN heap = Shards
    BY <1>0 DEF MapTypes
  <2>2. heap'[s] = InShard(s)'
    BY <2>1, <1>3, <1>6, <1>10
  <2>3. \A q \in Shards \ {s} : heap'[q] = heap[q]
    BY <2>1, <1>6
  <2>4. \A q \in Shards \ {s} : heap[q] = InShard(q)
    BY <1>0, <1>3 DEF InHeaps
  <2>5. trackEviction'
    BY <1>3, <1>9
  <2>6. \A q \in Shards : heap'[q] = InShard(q)'
    BY <2>2, <2>3, <2>4, <1>10
  <2> QED BY <2>5, <2>6 DEF InHeaps
<1>17. dynamicBytes' = ByteSum(StateSizes')
  <2> DEFINE f == StateSizes
  <2>1. Capacities(f)
    BY <1>0, StateSizesType
  <2>2. DOMAIN f = DOMAIN map /\ f[c] = HeapBytes(map[c])
    BY <1>4 DEF StateSizes
  <2>3. StateSizes' = [q \in DOMAIN f \ {c} |-> f[q]]
    BY <1>5 DEF StateSizes
  <2>4. dynamicBytes = ByteSum(f)
    BY <1>0 DEF Counts
  <2> HIDE DEF f
  <2>5. ByteSum([q \in DOMAIN f \ {c} |-> f[q]]) = ByteSum(f) - f[c]
    BY <2>1, <2>2, <1>4, SumWithout
  <2> QED BY <2>2, <2>3, <2>4, <2>5, <1>9
<1>18. structureBytes' = ByteSum(ShardSizes(tableCap', heapCap'))
  <2>1. tableCap \in [Shards -> Nat] /\ heapCap \in [Shards -> Nat]
    BY <1>0 DEF MapTypes
  <2> DEFINE d == tableCap'
             hd == heapCap'
  <2>2. d \in [Shards -> Nat] /\ hd \in [Shards -> Nat]
    BY <1>12
  <2>3. OthersKept(s, tableCap, heapCap, d, hd)
    BY <2>1, <1>7, <1>8 DEF OthersKept
  <2>4. structureBytes' = structureBytes - ShardBytes(s, tableCap, heapCap) + ShardBytes(s, d, hd)
    BY <1>9
  <2> HIDE DEF d, hd
  <2>5. ByteSum(ShardSizes(d, hd)) =
          ByteSum(ShardSizes(tableCap, heapCap)) - ShardBytes(s, tableCap, heapCap)
            + ShardBytes(s, d, hd)
    BY <2>1, <2>2, <2>3, ShardChange
  <2>6. structureBytes = ByteSum(ShardSizes(tableCap, heapCap))
    BY <1>0 DEF Counts
  <2>7. structureBytes' = ByteSum(ShardSizes(d, hd))
    BY <2>4, <2>5, <2>6
  <2> QED BY <2>7 DEF d, hd
<1>19. outputBytes' = ByteSum(RecordSizes(output'))
  <2>1. output \in Seq(Cells \X Nat) /\ outputBytes = ByteSum(RecordSizes(output))
    BY <1>0 DEF MapTypes, Counts
  <2>2. ByteSum(RecordSizes(Append(output, <<c, MemoryBytes(map[c])>>)))
          = ByteSum(RecordSizes(output)) + MemoryBytes(map[c])
    BY <2>1, <1>4, <1>13, RecordAppended
  <2> QED BY <2>1, <2>2, <1>9
<1>20. Counts'
  BY <1>17, <1>18, <1>19 DEF Counts
<1> QED BY <1>14, <1>15, <1>16, <1>20 DEF MapInv

\* A map without cells and capacities has no bytes.
LEMMA NoBytes ==
  ASSUME MapAssumption, DOMAIN map = {}, \A s \in Shards : tableCap[s] = 0 /\ heapCap[s] = 0
  PROVE  ByteSum(StateSizes) = 0 /\ ByteSum(ShardSizes(tableCap, heapCap)) = 0
<1>1. ByteSum(StateSizes) = 0
  BY SumOfNone DEF StateSizes
<1>2. \A s \in Shards : ShardBytes(s, tableCap, heapCap) = 0
  BY DEF ShardBytes, TableBytes
<1>3. ByteSum(ShardSizes(tableCap, heapCap)) = 0
  BY <1>2, SumOfNone DEF ShardSizes
<1> QED BY <1>1, <1>3

\* take_sorted.
LEMMA StepSpill == ASSUME MapAssumption, MapInv, Spill PROVE MapInv'
<1>0. MapTypes /\ Counts /\ Released /\ InHeaps
  BY DEF MapInv
<1>1. DOMAIN map' = {}
  BY DEF Spill
<1>2. \A s \in Shards : tableCap'[s] = 0 /\ heapCap'[s] = 0
  BY DEF Spill
<1>3. MapTypes'
  BY <1>0, <1>1 DEF Spill, MapTypes
<1>4. ByteSum(StateSizes') = 0
  BY <1>1, SumOfNone DEF StateSizes
<1>5. \A s \in Shards : ShardBytes(s, tableCap', heapCap') = 0
  BY <1>2 DEF ShardBytes, TableBytes
<1>6. ByteSum(ShardSizes(tableCap', heapCap')) = 0
  BY <1>5, SumOfNone DEF ShardSizes
<1>7. outputBytes' = ByteSum(RecordSizes(output'))
  BY <1>0 DEF Spill, Counts
<1>8. dynamicBytes' = 0 /\ structureBytes' = 0
  BY DEF Spill
<1>9. Counts'
  BY <1>4, <1>6, <1>7, <1>8 DEF Counts
<1>10. Released'
  BY <1>2 DEF Released
<1>11. InHeaps'
  BY DEF Spill, InHeaps
<1> QED BY <1>3, <1>9, <1>10, <1>11 DEF MapInv

\* set_eviction_enabled(false).
LEMMA StepDisableEviction == ASSUME MapAssumption, MapInv, DisableEviction PROVE MapInv'
<1>0. MapTypes /\ Counts /\ Released /\ InHeaps
  BY DEF MapInv
<1>1. MapTypes'
  BY <1>0 DEF DisableEviction, MapTypes
<1>2. structureBytes' = ByteSum(ShardSizes(tableCap', heapCap'))
  <2>1. structureBytes' = Total([s \in Shards |-> ShardBytes(s, tableCap, heapCap')])
    BY DEF DisableEviction, Recount
  <2>2. structureBytes' = ByteSum([s \in Shards |-> ShardBytes(s, tableCap, heapCap')])
    BY <2>1, TotalIsSum
  <2>3. tableCap' = tableCap
    BY DEF DisableEviction
  <2> QED BY <2>2, <2>3 DEF ShardSizes
<1>3. /\ UNCHANGED <<map, tableCap, dynamicBytes, output, outputBytes>>
      /\ heapCap' = [s \in Shards |-> 0]
  BY DEF DisableEviction
<1>4. StateSizes' = StateSizes
  BY <1>3 DEF StateSizes
<1>5. Counts'
  BY <1>0, <1>2, <1>3, <1>4 DEF Counts
<1>6. \A s \in Shards : InShard(s)' = InShard(s)
  BY <1>3 DEF InShard
<1>7. Released'
  BY <1>0, <1>3, <1>6 DEF Released
<1>8. InHeaps'
  BY DEF DisableEviction, InHeaps
<1> QED BY <1>1, <1>5, <1>7, <1>8 DEF MapInv

\* The first records leave, the others keep their bytes.
LEMMA RecordsDropped ==
  ASSUME NEW records \in Seq(Cells \X Nat), NEW k \in 0 .. Len(records)
  PROVE  /\ ByteSum(RecordSizes(records)) =
              ByteSum([i \in 1 .. k |-> records[i][2]])
                + ByteSum(RecordSizes(SubSeq(records, k + 1, Len(records))))
         /\ ByteSum([i \in 1 .. k |-> records[i][2]]) \in Nat
         /\ ByteSum(RecordSizes(SubSeq(records, k + 1, Len(records)))) \in Nat
<1> DEFINE A == 1 .. k
           B == k + 1 .. Len(records)
           f == RecordSizes(records)
           fb == [i \in B |-> f[i]]
           left == SubSeq(records, k + 1, Len(records))
           g == RecordSizes(left)
           h == [i \in B |-> i - k]
<1>0. Len(records) \in Nat /\ k \in Nat /\ k <= Len(records)
  OBVIOUS
<1>1. Capacities(f) /\ DOMAIN f = 1 .. Len(records) /\ \A i \in 1 .. Len(records) : f[i] = records[i][2]
  BY RecordSizesType DEF RecordSizes
<1>2. 1 .. Len(records) = A \cup B /\ A \cap B = {}
  OBVIOUS
<1>3. left \in Seq(Cells \X Nat) /\ Len(left) = Len(records) - k
  BY SubSeqProperties
<1>4. \A i \in 1 .. Len(left) : left[i] = records[i + k]
  BY <1>3, SubSeqProperties
<1>5. DOMAIN g = 1 .. Len(left) /\ \A i \in 1 .. Len(left) : g[i] = left[i][2]
  BY <1>3 DEF RecordSizes
<1>6. Capacities(g)
  BY <1>3, RecordSizesType
<1>7. [i \in A |-> f[i]] = [i \in 1 .. k |-> records[i][2]]
  BY <1>1
<1> HIDE DEF f, g, left
<1>8. ByteSum(f) = ByteSum([i \in A |-> f[i]]) + ByteSum(fb)
  <2>1. DOMAIN f = A \cup B /\ A \cap B = {}
    BY <1>1, <1>2
  <2>2. Capacities(f)
    BY <1>1
  <2> HIDE DEF A, B
  <2> QED BY <2>1, <2>2, SumSplit
<1>9. Capacities([i \in A |-> f[i]]) /\ Capacities(fb)
  <2>1. IsFiniteSet(A) /\ IsFiniteSet(B)
    BY FS_Interval
  <2> QED BY <2>1, <1>1, <1>2 DEF Capacities
<1>10. h \in Bijection(B, 1 .. Len(left))
  <2>1. h \in [B -> 1 .. Len(left)]
    <3>1. \A i \in B : i - k \in 1 .. Len(left)
      BY <1>0, <1>3
    <3> QED BY <3>1
  <2>2. \A a, b \in B : h[a] = h[b] => a = b
    OBVIOUS
  <2>3. \A j \in 1 .. Len(left) : j + k \in B /\ h[j + k] = j
    BY <1>3
  <2> HIDE DEF h, B
  <2>4. h \in Injection(B, 1 .. Len(left))
    BY <2>1, <2>2 DEF Injection, IsInjective
  <2>5. h \in Surjection(B, 1 .. Len(left))
    BY <2>1, <2>3 DEF Surjection
  <2> QED BY <2>4, <2>5 DEF Bijection
<1>11. \A i \in B : g[h[i]] = fb[i]
  <2>1. SUFFICES ASSUME NEW i \in B PROVE g[h[i]] = fb[i]
    OBVIOUS
  <2>2. h[i] = i - k /\ i - k \in 1 .. Len(left) /\ (i - k) + k = i
    BY <1>0, <1>3
  <2>3. g[i - k] = records[i][2]
    BY <2>2, <1>4, <1>5
  <2>4. fb[i] = records[i][2]
    BY <1>1
  <2> QED BY <2>2, <2>3, <2>4
<1>12. DOMAIN fb = B
  OBVIOUS
<1> HIDE DEF h, fb, B
<1>13. ByteSum(g) = ByteSum(fb)
  BY <1>5, <1>9, <1>10, <1>11, <1>12, SumMoved
<1>14. ByteSum(g) \in Nat /\ ByteSum([i \in A |-> f[i]]) \in Nat
  BY <1>6, <1>9, SumType
<1>15. ByteSum(f) = ByteSum([i \in 1 .. k |-> records[i][2]]) + ByteSum(g)
  BY <1>7, <1>8, <1>13
<1> QED BY <1>7, <1>14, <1>15 DEF f, g, left

\* drain_into and take_batch.
LEMMA StepDrainOutput ==
  ASSUME MapAssumption, MapInv, NEW n \in {1, MaxOutput}, DrainOutput(n)
  PROVE  MapInv'
<1> DEFINE k == IF n < Len(output) THEN n ELSE Len(output)
           gone == [i \in 1 .. k |-> output[i][2]]
<1>0. MapTypes /\ Counts /\ Released /\ InHeaps
  BY DEF MapInv
<1>1. output \in Seq(Cells \X Nat) /\ outputBytes = ByteSum(RecordSizes(output))
  BY <1>0 DEF MapTypes, Counts
<1>2. k \in 0 .. Len(output)
  BY <1>1 DEF MapAssumption
<1>3. /\ output' = SubSeq(output, k + 1, Len(output))
      /\ outputBytes' = outputBytes - Total(gone)
      /\ UNCHANGED <<map, heap, tableCap, heapCap, dynamicBytes, structureBytes, trackEviction>>
  BY DEF DrainOutput
<1>4. Total(gone) = ByteSum(gone)
  BY TotalIsSum
<1> HIDE DEF k
<1>5. /\ ByteSum(RecordSizes(output)) = ByteSum(gone) + ByteSum(RecordSizes(SubSeq(output, k + 1, Len(output))))
      /\ ByteSum(gone) \in Nat /\ ByteSum(RecordSizes(SubSeq(output, k + 1, Len(output)))) \in Nat
  BY <1>1, <1>2, RecordsDropped
<1> HIDE DEF gone
<1>6. outputBytes' = ByteSum(RecordSizes(output'))
  BY <1>1, <1>3, <1>4, <1>5
<1>7. output' \in Seq(Cells \X Nat)
  BY <1>1, <1>2, <1>3, SubSeqProperties
<1>8. MapTypes'
  BY <1>0, <1>3, <1>7 DEF MapTypes
<1>9. StateSizes' = StateSizes /\ ShardSizes(tableCap', heapCap') = ShardSizes(tableCap, heapCap)
  BY <1>3 DEF StateSizes, ShardSizes
<1>10. Counts'
  BY <1>0, <1>3, <1>6, <1>9 DEF Counts
<1>11. \A s \in Shards : InShard(s)' = InShard(s)
  BY <1>3 DEF InShard
<1>12. Released' /\ InHeaps'
  BY <1>0, <1>3, <1>11 DEF Released, InHeaps
<1> QED BY <1>8, <1>10, <1>12 DEF MapInv

\* Every step keeps the invariant.
LEMMA NextMap ==
  ASSUME MapAssumption, MapInv, [MapNext]_mapVars
  PROVE  MapInv'
<1>1. CASE UNCHANGED mapVars
  BY <1>1 DEF mapVars, MapInv, MapTypes, Counts, StateSizes, ShardSizes, RecordSizes,
              Released, InHeaps, InShard
<1>2. CASE \E c \in Cells, n \in 1 .. MaxClasses : MergeExisting(c, n) \/ MergeNew(c, n)
  BY <1>2, StepMergeExisting, StepMergeNew
<1>3. CASE \E h \in Horizons : PopCompleted(h)
  BY <1>3, StepPopCompleted
<1>4. CASE Spill
  BY <1>4, StepSpill
<1>5. CASE DisableEviction
  BY <1>5, StepDisableEviction
<1>6. CASE \E n \in {1, MaxOutput} : DrainOutput(n)
  BY <1>6, StepDrainOutput
<1> QED BY <1>1, <1>2, <1>3, <1>4, <1>5, <1>6 DEF MapNext

\* The invariant has the accounts, and an empty map none.
LEMMA InvAccounts == ASSUME MapAssumption, MapInv PROVE AccountsBalanced
<1>0. MapTypes /\ Counts /\ Released /\ InHeaps
  BY DEF MapInv
<1>1. dynamicBytes = Total([c \in DOMAIN map |-> HeapBytes(map[c])])
  BY <1>0, TotalIsSum DEF Counts, StateSizes
<1>2. structureBytes = Recount(tableCap, heapCap)
  BY <1>0, TotalIsSum DEF Counts, ShardSizes, Recount
<1>3. outputBytes = Total([i \in DOMAIN output |-> output[i][2]])
  BY <1>0, TotalIsSum DEF Counts, RecordSizes
<1>4. ASSUME map = <<>> PROVE dynamicBytes + structureBytes = 0
  <2>1. DOMAIN map = {}
    BY <1>4
  <2>2. \A s \in Shards : tableCap[s] = 0 /\ heapCap[s] = 0
    BY <2>1, <1>0 DEF Released, InShard
  <2>3. dynamicBytes = 0 /\ structureBytes = 0
    BY <2>1, <2>2, <1>0, NoBytes DEF Counts
  <2> QED BY <2>3
<1>5. \A s \in Shards : heap[s] = IF trackEviction THEN InShard(s) ELSE {}
  BY <1>0 DEF InHeaps
<1> QED BY <1>1, <1>2, <1>3, <1>4, <1>5 DEF AccountsBalanced

\* Whatever cells, shards and sizes: after every merge, eviction, spill, drain and change
\* of a table's capacity the bytes the aggregation budget reads are those held, and an
\* active cell waits in the heap of its shard (ShardedResolutionMap and OutputBuffer).
THEOREM MapAccounts == ASSUME MapAssumption PROVE MapSpec => []AccountsBalanced
<1>1. MapInit => MapInv
  BY InitMap
<1>2. MapInv /\ [MapNext]_mapVars => MapInv'
  BY NextMap
<1>3. MapInv => AccountsBalanced
  BY InvAccounts
<1> QED BY <1>1, <1>2, <1>3, PTL DEF MapSpec
=============================================================================
