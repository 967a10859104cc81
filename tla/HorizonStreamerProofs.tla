------------------------- MODULE HorizonStreamerProofs -------------------------
(***************************************************************************)
(* The streamer for every raster, cell hierarchy, budget and batch size:   *)
(* what leaves it is the raster, and the horizon it publishes is sound     *)
(* wherever some suffix of the chunks has a northern bound.                *)
(***************************************************************************)
EXTENDS HorizonStreamer, FiniteSetTheorems, WellFoundedInduction, TLAPS

-----------------------------------------------------------------------------
(* Accumulators, records and groups.  T[c] is what cell c must add up to.   *)

GroupCells(g) == {g[i].cell : i \in DOMAIN g}

HeldCells(groups) == UNION {GroupCells(groups[p]) : p \in Parents}

SeqCells(q) == UNION {CellsOf(q[i]) : i \in DOMAIN q}

\* The cells, or parents, a sequence of records is about.
Emits(q) == {q[i].cell : i \in DOMAIN q}

\* Every accumulator is complete, and no cell has two.
SoundAccs(g, T) ==
    /\ \A i \in DOMAIN g : g[i].n = T[g[i].cell]
    /\ \A i, j \in DOMAIN g : g[i].cell = g[j].cell => i = j

SoundRecords(q, T) ==
    /\ \A i \in DOMAIN q : SoundAccs(q[i].of, T)
    /\ \A i, j \in DOMAIN q : i # j => CellsOf(q[i]) \cap CellsOf(q[j]) = {}

SoundGroups(groups, T) ==
    \A p \in Parents :
        SoundAccs(groups[p], T) /\ GroupCells(groups[p]) \subseteq Children(p)

Compactors == [pending : [Parents -> Seq(Accs)], output : Seq(Records)]

SoundCompactor(s, T) ==
    /\ s \in Compactors
    /\ SoundGroups(s.pending, T)
    /\ SoundRecords(s.output, T)
    /\ HeldCells(s.pending) \cap SeqCells(s.output) = {}

\* What a record is made of.
LEMMA RecordFields ==
  ASSUME NEW r \in Records
  PROVE  /\ r.of \in Seq(Accs)
         /\ \A j \in DOMAIN r.of : r.of[j].cell \in Cells
         /\ CellsOf(r) \subseteq Cells
<1>1. r.of \in Seq(Accs)
  BY DEF Records
<1>2. \A j \in DOMAIN r.of : r.of[j] \in Accs
  BY <1>1
<1>3. \A j \in DOMAIN r.of : r.of[j].cell \in Cells
  BY <1>2 DEF Accs
<1> QED BY <1>1, <1>3 DEF CellsOf

\* A record of one cell.
LEMMA OneCellRecord ==
  ASSUME NEW T, NEW cell \in Cells, NEW n \in Nat, n = T[cell]
  PROVE  LET r == Record(cell, <<Acc(cell, n)>>)
         IN  /\ r \in Records
             /\ CellsOf(r) = {cell}
             /\ SoundAccs(r.of, T)
<1>1. Acc(cell, n) \in Accs /\ Acc(cell, n).cell = cell /\ Acc(cell, n).n = n
  BY DEF Acc, Accs
<1> DEFINE s == <<Acc(cell, n)>>
<1>2. s \in Seq(Accs) /\ DOMAIN s = {1} /\ s[1] = Acc(cell, n)
  BY <1>1
<1> HIDE DEF s
<1>3. Record(cell, s) \in Records /\ Record(cell, s).of = s
  BY <1>2 DEF Record, Records
<1> QED BY <1>1, <1>2, <1>3 DEF CellsOf, SoundAccs, s

\* Two sequences of records with no cell in common, one after the other.
LEMMA JoinedRecords ==
  ASSUME NEW T, NEW q \in Seq(Records), NEW r \in Seq(Records),
         SoundRecords(q, T), SoundRecords(r, T), SeqCells(q) \cap SeqCells(r) = {}
  PROVE  /\ q \o r \in Seq(Records)
         /\ SoundRecords(q \o r, T)
         /\ SeqCells(q \o r) = SeqCells(q) \cup SeqCells(r)
         /\ Emits(q \o r) = Emits(q) \cup Emits(r)
<1> DEFINE w == q \o r
<1>1. /\ w \in Seq(Records)
      /\ Len(w) = Len(q) + Len(r)
      /\ Len(q) \in Nat /\ Len(r) \in Nat
      /\ DOMAIN w = 1 .. Len(w) /\ DOMAIN q = 1 .. Len(q) /\ DOMAIN r = 1 .. Len(r)
  OBVIOUS
<1>2. \A i \in DOMAIN q : i \in DOMAIN w /\ w[i] = q[i]
  OBVIOUS
<1>3. \A i \in DOMAIN r : i + Len(q) \in DOMAIN w /\ w[i + Len(q)] = r[i]
  OBVIOUS
<1>4. \A i \in DOMAIN w : i \in DOMAIN q \/ (i - Len(q) \in DOMAIN r /\ i > Len(q))
  BY <1>1
<1>5. \A i \in DOMAIN w : \/ i \in DOMAIN q /\ w[i] = q[i]
                          \/ i > Len(q) /\ i - Len(q) \in DOMAIN r /\ w[i] = r[i - Len(q)]
  OBVIOUS
<1> HIDE DEF w
<1>6. \A i \in DOMAIN q : CellsOf(q[i]) \subseteq SeqCells(q)
  BY DEF SeqCells
<1>7. \A i \in DOMAIN r : CellsOf(r[i]) \subseteq SeqCells(r)
  BY DEF SeqCells
<1>8. SeqCells(w) = SeqCells(q) \cup SeqCells(r)
  <2>1. SeqCells(w) \subseteq SeqCells(q) \cup SeqCells(r)
    BY <1>5 DEF SeqCells
  <2>2. SeqCells(q) \subseteq SeqCells(w)
    BY <1>2 DEF SeqCells
  <2>3. SeqCells(r) \subseteq SeqCells(w)
    BY <1>3 DEF SeqCells
  <2> QED BY <2>1, <2>2, <2>3
<1>9. \A i \in DOMAIN w : SoundAccs(w[i].of, T)
  BY <1>5 DEF SoundRecords
<1>10. ASSUME NEW i \in DOMAIN w, NEW j \in DOMAIN w, i # j
       PROVE  CellsOf(w[i]) \cap CellsOf(w[j]) = {}
  <2>1. CASE i \in DOMAIN q /\ j \in DOMAIN q
    BY <1>10, <2>1, <1>2 DEF SoundRecords
  <2>2. CASE i > Len(q) /\ j > Len(q)
    <3>1. /\ i - Len(q) \in DOMAIN r /\ w[i] = r[i - Len(q)]
          /\ j - Len(q) \in DOMAIN r /\ w[j] = r[j - Len(q)]
          /\ i - Len(q) # j - Len(q)
      BY <1>1, <1>5, <1>10, <2>2
    <3> QED BY <3>1 DEF SoundRecords
  <2>3. CASE i \in DOMAIN q /\ j > Len(q)
    <3>1. w[i] = q[i] /\ j - Len(q) \in DOMAIN r /\ w[j] = r[j - Len(q)]
      BY <1>1, <1>5, <1>10, <2>3
    <3> QED BY <2>3, <3>1, <1>6, <1>7
  <2>4. CASE i > Len(q) /\ j \in DOMAIN q
    <3>1. w[j] = q[j] /\ i - Len(q) \in DOMAIN r /\ w[i] = r[i - Len(q)]
      BY <1>1, <1>5, <1>10, <2>4
    <3> QED BY <2>4, <3>1, <1>6, <1>7
  <2> QED BY <1>5, <2>1, <2>2, <2>3, <2>4
<1>11. SoundRecords(w, T)
  BY <1>9, <1>10 DEF SoundRecords
<1>12. Emits(w) = Emits(q) \cup Emits(r)
  <2>1. Emits(w) \subseteq Emits(q) \cup Emits(r)
    BY <1>5 DEF Emits
  <2>2. Emits(q) \subseteq Emits(w)
    BY <1>2 DEF Emits
  <2>3. Emits(r) \subseteq Emits(w)
    BY <1>3 DEF Emits
  <2> QED BY <2>1, <2>2, <2>3
<1> QED BY <1>1, <1>8, <1>11, <1>12 DEF w

\* One record more, of cells that are not there yet.
LEMMA AppendedRecord ==
  ASSUME NEW T, NEW q \in Seq(Records), NEW r \in Records,
         SoundRecords(q, T), SoundAccs(r.of, T), SeqCells(q) \cap CellsOf(r) = {}
  PROVE  /\ Append(q, r) \in Seq(Records)
         /\ SoundRecords(Append(q, r), T)
         /\ SeqCells(Append(q, r)) = SeqCells(q) \cup CellsOf(r)
         /\ Emits(Append(q, r)) = Emits(q) \cup {r.cell}
<1> DEFINE s == <<r>>
<1>1. s \in Seq(Records) /\ DOMAIN s = {1} /\ s[1] = r /\ Append(q, r) = q \o s
  OBVIOUS
<1> HIDE DEF s
<1>2. SoundRecords(s, T) /\ SeqCells(s) = CellsOf(r) /\ Emits(s) = {r.cell}
  BY <1>1 DEF SoundRecords, SeqCells, Emits
<1> QED BY <1>1, <1>2, JoinedRecords

\* A queue of records cut in two.
LEMMA SplitRecords ==
  ASSUME NEW T, NEW q \in Seq(Records), SoundRecords(q, T), NEW n \in 0 .. Len(q)
  PROVE  LET head == SubSeq(q, 1, n)
             tail == SubSeq(q, n + 1, Len(q))
         IN  /\ head \in Seq(Records) /\ tail \in Seq(Records)
             /\ Len(tail) = Len(q) - n
             /\ Emits(tail) \subseteq Emits(q)
             /\ SoundRecords(head, T) /\ SoundRecords(tail, T)
             /\ SeqCells(head) \cap SeqCells(tail) = {}
             /\ SeqCells(q) = SeqCells(head) \cup SeqCells(tail)
<1> DEFINE head == SubSeq(q, 1, n)
           tail == SubSeq(q, n + 1, Len(q))
<1>1. /\ Len(q) \in Nat /\ DOMAIN q = 1 .. Len(q)
      /\ head \in Seq(Records) /\ Len(head) = n /\ DOMAIN head = 1 .. n
      /\ \A i \in 1 .. n : head[i] = q[i]
  OBVIOUS
<1>2. /\ tail \in Seq(Records) /\ Len(tail) = Len(q) - n /\ DOMAIN tail = 1 .. Len(q) - n
      /\ \A i \in DOMAIN tail : i + n \in DOMAIN q /\ tail[i] = q[i + n]
  OBVIOUS
<1> HIDE DEF head, tail
<1>3. SoundRecords(head, T)
  BY <1>1 DEF SoundRecords
<1>4. SoundRecords(tail, T)
  <2>1. \A i \in DOMAIN tail : SoundAccs(tail[i].of, T)
    BY <1>2 DEF SoundRecords
  <2>2. ASSUME NEW i \in DOMAIN tail, NEW j \in DOMAIN tail, i # j
        PROVE  CellsOf(tail[i]) \cap CellsOf(tail[j]) = {}
    <3>1. i + n \in DOMAIN q /\ j + n \in DOMAIN q /\ i + n # j + n
      BY <1>1, <1>2, <2>2
    <3> QED BY <1>2, <3>1 DEF SoundRecords
  <2> QED BY <2>1, <2>2 DEF SoundRecords
<1>5. SeqCells(head) \cap SeqCells(tail) = {}
  <2>1. ASSUME NEW i \in DOMAIN head, NEW j \in DOMAIN tail
        PROVE  CellsOf(head[i]) \cap CellsOf(tail[j]) = {}
    <3>1. i \in DOMAIN q /\ j + n \in DOMAIN q /\ i # j + n /\ head[i] = q[i] /\ tail[j] = q[j + n]
      BY <1>1, <1>2
    <3> QED BY <3>1 DEF SoundRecords
  <2> QED BY <2>1 DEF SeqCells
<1>6. SeqCells(q) = SeqCells(head) \cup SeqCells(tail)
  <2>1. ASSUME NEW i \in DOMAIN q
        PROVE  \/ i \in DOMAIN head /\ q[i] = head[i]
               \/ i - n \in DOMAIN tail /\ q[i] = tail[i - n]
    <3>1. CASE i <= n
      BY <1>1, <3>1
    <3>2. CASE i > n
      <4>1. i - n \in DOMAIN tail /\ (i - n) + n = i
        BY <1>1, <1>2, <3>2
      <4> QED BY <1>2, <4>1
    <3> QED BY <1>1, <3>1, <3>2
  <2>2. \A i \in DOMAIN head : i \in DOMAIN q /\ head[i] = q[i]
    BY <1>1
  <2>3. SeqCells(q) \subseteq SeqCells(head) \cup SeqCells(tail)
    BY <2>1 DEF SeqCells
  <2>4. SeqCells(head) \subseteq SeqCells(q)
    BY <2>2 DEF SeqCells
  <2>5. SeqCells(tail) \subseteq SeqCells(q)
    BY <1>2 DEF SeqCells
  <2> QED BY <2>3, <2>4, <2>5
<1>7. Emits(tail) \subseteq Emits(q)
  BY <1>2 DEF Emits
<1> QED BY <1>1, <1>2, <1>3, <1>4, <1>5, <1>6, <1>7 DEF head, tail

-----------------------------------------------------------------------------
(* The compactor.                                                           *)

\* The accumulators of a group, as records of their own.
LEMMA GroupAsRecords ==
  ASSUME NEW T, NEW g \in Seq(Accs), SoundAccs(g, T)
  PROVE  LET q == [i \in DOMAIN g |-> Record(g[i].cell, <<g[i]>>)]
         IN  /\ q \in Seq(Records)
             /\ Len(q) = Len(g)
             /\ SoundRecords(q, T)
             /\ SeqCells(q) = GroupCells(g)
             /\ Emits(q) = GroupCells(g)
<1> DEFINE q == [i \in DOMAIN g |-> Record(g[i].cell, <<g[i]>>)]
<1>1. DOMAIN g = 1 .. Len(g) /\ Len(g) \in Nat /\ \A i \in DOMAIN g : g[i] \in Accs
  OBVIOUS
<1>2. ASSUME NEW i \in DOMAIN g
      PROVE  /\ q[i] \in Records
             /\ q[i].cell = g[i].cell
             /\ CellsOf(q[i]) = {g[i].cell}
             /\ SoundAccs(q[i].of, T)
  <2>1. g[i] \in Accs /\ g[i].cell \in Cells /\ g[i].n \in Nat
    BY <1>1, <1>2 DEF Accs
  <2>2. g[i] = Acc(g[i].cell, g[i].n)
    BY <2>1 DEF Accs, Acc
  <2>3. q[i] = Record(g[i].cell, <<Acc(g[i].cell, g[i].n)>>)
    BY <1>2, <2>2
  <2>4. g[i].n = T[g[i].cell]
    BY <1>2 DEF SoundAccs
  <2>5. q[i].cell = g[i].cell
    BY <2>3 DEF Record
  <2> QED BY <2>1, <2>3, <2>4, <2>5, OneCellRecord
<1>3. q \in Seq(Records) /\ Len(q) = Len(g) /\ DOMAIN q = DOMAIN g
  BY <1>1, <1>2
<1> HIDE DEF q
<1>4. SoundRecords(q, T)
  BY <1>2, <1>3 DEF SoundRecords, SoundAccs
<1>5. SeqCells(q) = GroupCells(g)
  BY <1>2, <1>3 DEF SeqCells, GroupCells
<1>6. Emits(q) = GroupCells(g)
  BY <1>2, <1>3 DEF GroupCells, Emits
<1> QED BY <1>3, <1>4, <1>5, <1>6 DEF q

\* Every parent has finitely many children, at least one, and shares none.
LEMMA ParentsOfChildren ==
  /\ \A p \in Parents : Children(p) # {} /\ Children(p) \subseteq Cells /\ IsFiniteSet(Children(p))
  /\ \A p, q \in Parents : p # q => Children(p) \cap Children(q) = {}
  /\ \A c \in Cells : Parent[c] # NoParent => Parent[c] \in Parents /\ c \in Children(Parent[c])
<1>1. \A p \in Parents : Children(p) # {} /\ Children(p) \subseteq Cells
  BY DEF Parents, Children
<1>2. \A p \in Parents : IsFiniteSet(Children(p))
  BY <1>1, FS_Subset, CompactorAssumption
<1> QED BY <1>1, <1>2 DEF Parents, Children

\* The cells that wait with p are the held ones among its children.
LEMMA GroupOfParent ==
  ASSUME NEW T, NEW groups, SoundGroups(groups, T), NEW p \in Parents
  PROVE  /\ GroupCells(groups[p]) = HeldCells(groups) \cap Children(p)
         /\ GroupCells(groups[p]) \subseteq HeldCells(groups)
<1>1. \A q \in Parents : GroupCells(groups[q]) \subseteq Children(q)
  BY DEF SoundGroups
<1>2. GroupCells(groups[p]) \subseteq HeldCells(groups)
  BY DEF HeldCells
<1>3. ASSUME NEW c \in HeldCells(groups) \cap Children(p)
      PROVE  c \in GroupCells(groups[p])
  <2>1. PICK q \in Parents : c \in GroupCells(groups[q])
    BY <1>3 DEF HeldCells
  <2>2. q = p
    BY <1>1, <2>1, <1>3, ParentsOfChildren
  <2> QED BY <2>1, <2>2
<1> QED BY <1>1, <1>2, <1>3

\* Replacing the group of p.
LEMMA ReplacedGroup ==
  ASSUME NEW T, NEW groups, SoundGroups(groups, T), NEW p \in Parents,
         NEW new, SoundAccs(new[p], T), GroupCells(new[p]) \subseteq Children(p),
         \A q \in Parents : q # p => new[q] = groups[q]
  PROVE  /\ SoundGroups(new, T)
         /\ HeldCells(new) = (HeldCells(groups) \ GroupCells(groups[p])) \cup GroupCells(new[p])
<1>1. SoundGroups(new, T)
  BY DEF SoundGroups
<1>2. \A q \in Parents : q # p => GroupCells(groups[q]) \cap GroupCells(groups[p]) = {}
  BY ParentsOfChildren DEF SoundGroups
<1>3. HeldCells(new) \subseteq (HeldCells(groups) \ GroupCells(groups[p])) \cup GroupCells(new[p])
  BY <1>2 DEF HeldCells
<1>4. GroupCells(new[p]) \subseteq HeldCells(new)
  BY DEF HeldCells
<1>5. ASSUME NEW c \in HeldCells(groups), c \notin GroupCells(groups[p])
      PROVE  c \in HeldCells(new)
  <2>1. PICK q \in Parents : c \in GroupCells(groups[q])
    BY <1>5 DEF HeldCells
  <2>2. q # p
    BY <1>5, <2>1
  <2> QED BY <2>1, <2>2 DEF HeldCells
<1> QED BY <1>1, <1>3, <1>4, <1>5

\* The group flush_parent leaves behind.
LEMMA EmptyGroup ==
  ASSUME NEW T
  PROVE  << >> \in Seq(Accs) /\ SoundAccs(<< >>, T) /\ GroupCells(<< >>) = {}
BY DEF SoundAccs, GroupCells

\* The parts of a sound compactor.
LEMMA CompactorFields ==
  ASSUME NEW T, NEW s, SoundCompactor(s, T)
  PROVE  /\ s.pending \in [Parents -> Seq(Accs)] /\ s.output \in Seq(Records)
         /\ SoundGroups(s.pending, T) /\ SoundRecords(s.output, T)
         /\ HeldCells(s.pending) \cap SeqCells(s.output) = {}
BY DEF SoundCompactor, Compactors

\* Decomposing a group moves its cells from the group to the output.
LEMMA FlushParentSound ==
  ASSUME NEW T, NEW s, SoundCompactor(s, T), NEW p \in Parents
  PROVE  /\ SoundCompactor(FlushParent(s, p), T)
         /\ HeldCells(FlushParent(s, p).pending) = HeldCells(s.pending) \ GroupCells(s.pending[p])
         /\ SeqCells(FlushParent(s, p).output) = SeqCells(s.output) \cup GroupCells(s.pending[p])
         /\ GroupCells(s.pending[p]) \subseteq HeldCells(s.pending)
         /\ Emits(FlushParent(s, p).output) = Emits(s.output) \cup GroupCells(s.pending[p])
<1> DEFINE f == FlushParent(s, p)
           g == s.pending[p]
           q == [i \in DOMAIN g |-> Record(g[i].cell, <<g[i]>>)]
<1>1. /\ s.pending \in [Parents -> Seq(Accs)] /\ s.output \in Seq(Records)
      /\ SoundGroups(s.pending, T) /\ SoundRecords(s.output, T)
      /\ HeldCells(s.pending) \cap SeqCells(s.output) = {}
  BY CompactorFields
<1>2. g \in Seq(Accs) /\ SoundAccs(g, T)
  BY <1>1 DEF SoundGroups
<1>3. GroupCells(g) \subseteq HeldCells(s.pending)
  BY <1>1, GroupOfParent
<1>4. f.pending = [s.pending EXCEPT ![p] = <<>>] /\ f.output = s.output \o q
      /\ f = [pending |-> f.pending, output |-> f.output]
  BY DEF FlushParent
<1>5. /\ q \in Seq(Records) /\ SoundRecords(q, T) /\ SeqCells(q) = GroupCells(g)
      /\ Emits(q) = GroupCells(g)
  BY <1>2, GroupAsRecords
<1> HIDE DEF q, g, f
<1>6. SeqCells(s.output) \cap SeqCells(q) = {}
  BY <1>1, <1>3, <1>5
<1>7. /\ s.output \o q \in Seq(Records)
      /\ SoundRecords(s.output \o q, T)
      /\ SeqCells(s.output \o q) = SeqCells(s.output) \cup GroupCells(g)
      /\ Emits(s.output \o q) = Emits(s.output) \cup GroupCells(g)
  BY <1>1, <1>5, <1>6, JoinedRecords
<1>8. /\ f.pending \in [Parents -> Seq(Accs)]
      /\ SoundGroups(f.pending, T)
      /\ HeldCells(f.pending) = HeldCells(s.pending) \ GroupCells(g)
  <2>1. /\ f.pending \in [Parents -> Seq(Accs)] /\ f.pending[p] = <<>>
        /\ \A q2 \in Parents : q2 # p => f.pending[q2] = s.pending[q2]
    BY <1>1, <1>4, EmptyGroup
  <2>2. SoundAccs(f.pending[p], T) /\ GroupCells(f.pending[p]) = {}
    BY <2>1, EmptyGroup
  <2> DEFINE new == f.pending
             old == s.pending
  <2>3. /\ SoundAccs(new[p], T) /\ GroupCells(new[p]) = {} /\ SoundGroups(old, T)
        /\ \A q2 \in Parents : q2 # p => new[q2] = old[q2]
    BY <1>1, <2>1, <2>2
  <2> HIDE DEF new, old
  <2>4. GroupCells(new[p]) \subseteq Children(p)
    BY <2>3
  <2>5. /\ SoundGroups(new, T)
        /\ HeldCells(new) = (HeldCells(old) \ GroupCells(old[p])) \cup GroupCells(new[p])
    BY <2>3, <2>4, ReplacedGroup
  <2> QED BY <2>1, <2>3, <2>5 DEF g, new, old
<1>9. f \in Compactors
  BY <1>4, <1>7, <1>8 DEF Compactors
<1> QED BY <1>1, <1>3, <1>4, <1>7, <1>9, <1>8 DEF SoundCompactor, g, f

\* An accumulator of a cell that is not in the group yet.
LEMMA GrownGroup ==
  ASSUME NEW T, NEW g \in Seq(Accs), SoundAccs(g, T), NEW acc \in Accs,
         acc.n = T[acc.cell], acc.cell \notin GroupCells(g)
  PROVE  /\ Append(g, acc) \in Seq(Accs)
         /\ Len(Append(g, acc)) = Len(g) + 1
         /\ SoundAccs(Append(g, acc), T)
         /\ GroupCells(Append(g, acc)) = GroupCells(g) \cup {acc.cell}
<1> DEFINE new == Append(g, acc)
<1>1. /\ new \in Seq(Accs) /\ Len(new) = Len(g) + 1 /\ Len(g) \in Nat
      /\ DOMAIN g = 1 .. Len(g) /\ DOMAIN new = 1 .. Len(g) + 1
      /\ \A i \in DOMAIN g : new[i] = g[i]
      /\ new[Len(g) + 1] = acc
  OBVIOUS
<1> HIDE DEF new
<1>2. \A i \in DOMAIN g : g[i].cell # acc.cell
  BY DEF GroupCells
<1>3. \A i \in DOMAIN new : i \in DOMAIN g \/ i = Len(g) + 1
  BY <1>1
<1>4. GroupCells(new) = GroupCells(g) \cup {acc.cell}
  <2>1. GroupCells(new) \subseteq GroupCells(g) \cup {acc.cell}
    BY <1>1, <1>3 DEF GroupCells
  <2>2. acc.cell \in GroupCells(new)
    BY <1>1 DEF GroupCells
  <2>3. GroupCells(g) \subseteq GroupCells(new)
    BY <1>1 DEF GroupCells
  <2> QED BY <2>1, <2>2, <2>3
<1>5. \A i \in DOMAIN new : new[i].n = T[new[i].cell]
  BY <1>1, <1>3 DEF SoundAccs
<1>6. \A i, j \in DOMAIN new : new[i].cell = new[j].cell => i = j
  BY <1>1, <1>2, <1>3 DEF SoundAccs
<1> QED BY <1>1, <1>4, <1>5, <1>6 DEF SoundAccs, new

\* No cell has two accumulators, so there are as many cells as accumulators.
LEMMA GroupSize ==
  ASSUME NEW T, NEW g \in Seq(Accs), SoundAccs(g, T)
  PROVE  Cardinality(GroupCells(g)) = Len(g)
<1> DEFINE f == [i \in 1 .. Len(g) |-> g[i].cell]
<1>1. Len(g) \in Nat /\ DOMAIN g = 1 .. Len(g)
  OBVIOUS
<1>2. f \in Bijection(1 .. Len(g), GroupCells(g))
  <2>1. f \in [1 .. Len(g) -> GroupCells(g)]
    BY <1>1 DEF GroupCells
  <2>2. \A i, j \in 1 .. Len(g) : f[i] = f[j] => i = j
    BY <1>1 DEF SoundAccs
  <2>3. \A c \in GroupCells(g) : \E i \in 1 .. Len(g) : f[i] = c
    BY <1>1 DEF GroupCells
  <2> HIDE DEF f
  <2> QED BY <2>1, <2>2, <2>3 DEF Bijection, Injection, Surjection, IsInjective
<1>3. ExistsBijection(1 .. Len(g), GroupCells(g))
  BY <1>2 DEF ExistsBijection
<1> QED BY <1>1, <1>3, FS_CountingElements

\* A group with as many accumulators as p has children has them all.
LEMMA FullGroup ==
  ASSUME NEW T, NEW g \in Seq(Accs), SoundAccs(g, T), NEW p \in Parents,
         GroupCells(g) \subseteq Children(p), Len(g) = Cardinality(Children(p))
  PROVE  GroupCells(g) = Children(p)
BY GroupSize, ParentsOfChildren, FS_Subset

\* What push_cell leaves behind: the cell is dropped, waits in its group or is on its way
\* out, alone or with all its siblings.
LEMMA PushCellSound ==
  ASSUME NEW T, NEW s, SoundCompactor(s, T), NEW cell \in Cells, NEW n \in Nat, n = T[cell],
         cell \notin HeldCells(s.pending) \cup SeqCells(s.output)
  PROVE  /\ SoundCompactor(PushCell(s, cell, n), T)
         /\ HeldCells(PushCell(s, cell, n).pending) \subseteq HeldCells(s.pending) \cup {cell}
         /\ n < MinCount => PushCell(s, cell, n) = s
         /\ ~(n < MinCount) =>
               HeldCells(PushCell(s, cell, n).pending) \cup SeqCells(PushCell(s, cell, n).output)
                 = HeldCells(s.pending) \cup SeqCells(s.output) \cup {cell}
         /\ Emits(PushCell(s, cell, n).output) \subseteq Emits(s.output) \cup {cell} \cup
               {p \in Parents : Children(p) \subseteq HeldCells(s.pending) \cup {cell}}
<1> DEFINE f == PushCell(s, cell, n)
<1>1. f = PushCell(s, cell, n)
  OBVIOUS
<1> HIDE DEF f
<1>2. /\ s.pending \in [Parents -> Seq(Accs)] /\ s.output \in Seq(Records)
      /\ SoundGroups(s.pending, T) /\ SoundRecords(s.output, T)
      /\ HeldCells(s.pending) \cap SeqCells(s.output) = {}
  BY CompactorFields
<1>3. s = [pending |-> s.pending, output |-> s.output]
  BY DEF SoundCompactor, Compactors
<1>4. CASE n < MinCount
  BY <1>4 DEF PushCell
<1>5. CASE ~(n < MinCount) /\ Parent[cell] = NoParent
  <2> DEFINE r == Record(cell, <<Acc(cell, n)>>)
  <2>1. r \in Records /\ CellsOf(r) = {cell} /\ SoundAccs(r.of, T)
    BY OneCellRecord
  <2>2. r.cell = cell
    BY DEF Record
  <2>3. f.pending = s.pending /\ f.output = Append(s.output, r)
        /\ f = [pending |-> f.pending, output |-> f.output]
    BY <1>3, <1>5, <1>1 DEF PushCell
  <2> HIDE DEF r
  <2>4. /\ Append(s.output, r) \in Seq(Records)
        /\ SoundRecords(Append(s.output, r), T)
        /\ SeqCells(Append(s.output, r)) = SeqCells(s.output) \cup {cell}
        /\ Emits(Append(s.output, r)) = Emits(s.output) \cup {r.cell}
    BY <1>2, <2>1, AppendedRecord
  <2>5. f \in Compactors
    BY <1>2, <2>3, <2>4 DEF Compactors
  <2>6. SoundCompactor(f, T)
    BY <1>2, <2>3, <2>4, <2>5 DEF SoundCompactor
  <2> QED BY <1>5, <2>1, <2>2, <2>3, <2>4, <2>6 DEF f
<1>6. CASE ~(n < MinCount) /\ Parent[cell] # NoParent
  <2> DEFINE p == Parent[cell]
             group == Append(s.pending[p], Acc(cell, n))
  <2>1. p \in Parents /\ cell \in Children(p)
    BY <1>6, ParentsOfChildren
  <2>2. f = JoinGroup(s, p, Acc(cell, n))
    BY <1>6, <1>1 DEF PushCell
  <2>3. /\ s.pending[p] \in Seq(Accs) /\ SoundAccs(s.pending[p], T)
        /\ GroupCells(s.pending[p]) \subseteq Children(p)
        /\ GroupCells(s.pending[p]) \subseteq HeldCells(s.pending)
    BY <1>2, <2>1, GroupOfParent DEF SoundGroups
  <2>4. cell \notin GroupCells(s.pending[p])
    BY <2>3
  <2> DEFINE held == s.pending[p]
             new == f.pending
             old == s.pending
  <2>5. /\ group \in Seq(Accs) /\ SoundAccs(group, T)
        /\ GroupCells(group) = GroupCells(held) \cup {cell}
    <3> DEFINE acc == Acc(cell, n)
    <3>1. group = Append(held, acc) /\ held \in Seq(Accs) /\ SoundAccs(held, T)
          /\ cell \notin GroupCells(held)
      BY <2>3, <2>4
    <3>2. acc \in Accs /\ acc.cell = cell /\ acc.n = n
      BY DEF Acc, Accs
    <3> HIDE DEF group, held, p, acc
    <3>3. acc.n = T[acc.cell] /\ acc.cell \notin GroupCells(held)
      BY <3>1, <3>2
    <3>4. /\ group \in Seq(Accs)
          /\ Len(group) = Len(held) + 1
          /\ SoundAccs(group, T)
          /\ GroupCells(group) = GroupCells(held) \cup {acc.cell}
      BY <3>1, <3>2, <3>3, GrownGroup
    <3> QED BY <3>2, <3>4
  <2>6. GroupCells(group) \subseteq Children(p)
    BY <2>1, <2>3, <2>5
  <2>7. SoundGroups(old, T) /\ old[p] = held
    BY <1>2
  <2>8. group = Append(s.pending[p], Acc(cell, n))
    OBVIOUS
  <2> HIDE DEF p, group
  <2>9. CASE Len(group) = Cardinality(Children(p))
    <3> DEFINE r == Record(p, group)
    <3>1. f = [pending |-> [s.pending EXCEPT ![p] = <<>>], output |-> Append(s.output, r)]
      BY <2>2, <2>9, <2>8 DEF JoinGroup
    <3>2. r \in Records /\ r.cell = p /\ r.of = group /\ CellsOf(r) = GroupCells(group)
      BY <2>1, <2>5 DEF Record, Records, CellsOf, GroupCells
    <3>3. GroupCells(group) = Children(p)
      BY <2>1, <2>5, <2>6, <2>9, FullGroup
    <3> HIDE DEF r
    <3>4. SeqCells(s.output) \cap CellsOf(r) = {}
      BY <1>2, <2>3, <2>5, <3>2
    <3>5. /\ Append(s.output, r) \in Seq(Records)
          /\ SoundRecords(Append(s.output, r), T)
          /\ SeqCells(Append(s.output, r)) = SeqCells(s.output) \cup CellsOf(r)
          /\ Emits(Append(s.output, r)) = Emits(s.output) \cup {r.cell}
      BY <1>2, <2>5, <3>2, <3>4, AppendedRecord
    <3>6. /\ f.pending \in [Parents -> Seq(Accs)] /\ f.pending[p] = <<>>
          /\ \A q \in Parents : q # p => f.pending[q] = s.pending[q]
      BY <1>2, <2>1, <3>1, EmptyGroup
    <3>7. SoundAccs(f.pending[p], T) /\ GroupCells(f.pending[p]) = {}
      BY <3>6, EmptyGroup
    <3>8. /\ SoundGroups(f.pending, T)
          /\ HeldCells(f.pending) = HeldCells(s.pending) \ GroupCells(s.pending[p])
      <4>1. /\ SoundAccs(new[p], T) /\ GroupCells(new[p]) \subseteq Children(p)
            /\ GroupCells(new[p]) = {}
            /\ \A q \in Parents : q # p => new[q] = old[q]
        BY <3>6, <3>7
      <4> HIDE DEF new, old, held
      <4>2. SoundGroups(new, T)
            /\ HeldCells(new) = (HeldCells(old) \ GroupCells(old[p])) \cup GroupCells(new[p])
        BY <2>1, <2>7, <4>1, ReplacedGroup
      <4> QED BY <4>1, <4>2 DEF new, old
    <3>9. f.output = Append(s.output, r) /\ f \in Compactors
      BY <3>1, <3>5, <3>6 DEF Compactors
    <3>10. SeqCells(f.output) = SeqCells(s.output) \cup GroupCells(s.pending[p]) \cup {cell}
      BY <2>5, <3>2, <3>5, <3>9
    <3>11. HeldCells(f.pending) \cap SeqCells(f.output) = {}
      BY <1>2, <3>8, <3>10
    <3>12. SoundCompactor(f, T)
      BY <3>5, <3>8, <3>9, <3>11 DEF SoundCompactor
    <3>13. HeldCells(f.pending) \cup SeqCells(f.output)
             = HeldCells(s.pending) \cup SeqCells(s.output) \cup {cell}
      BY <2>3, <3>8, <3>10
    <3>14. Children(r.cell) \subseteq HeldCells(s.pending) \cup {cell}
      BY <2>3, <2>5, <3>2, <3>3
    <3>15. Emits(f.output) = Emits(s.output) \cup {p}
      BY <3>2, <3>5, <3>9
    <3> QED BY <1>6, <2>1, <3>2, <3>8, <3>12, <3>13, <3>14, <3>15 DEF f
  <2>10. CASE Len(group) # Cardinality(Children(p))
    <3>1. f = [s EXCEPT !.pending[p] = group]
      BY <2>2, <2>10, <2>8 DEF JoinGroup
    <3>2. f.pending = [s.pending EXCEPT ![p] = group] /\ f.output = s.output
          /\ f = [pending |-> f.pending, output |-> f.output]
      BY <1>3, <3>1
    <3>3. /\ f.pending \in [Parents -> Seq(Accs)] /\ f.pending[p] = group
          /\ \A q \in Parents : q # p => f.pending[q] = s.pending[q]
      BY <1>2, <2>1, <2>5, <3>2
    <3>4. /\ SoundGroups(f.pending, T)
          /\ HeldCells(f.pending)
               = (HeldCells(s.pending) \ GroupCells(s.pending[p])) \cup GroupCells(group)
      <4>1. /\ SoundAccs(new[p], T) /\ GroupCells(new[p]) \subseteq Children(p)
            /\ new[p] = group
            /\ \A q \in Parents : q # p => new[q] = old[q]
        BY <2>5, <2>6, <3>3
      <4> HIDE DEF new, old, held
      <4>2. SoundGroups(new, T)
            /\ HeldCells(new) = (HeldCells(old) \ GroupCells(old[p])) \cup GroupCells(new[p])
        BY <2>1, <2>7, <4>1, ReplacedGroup
      <4> QED BY <4>1, <4>2 DEF new, old
    <3>5. HeldCells(f.pending) = HeldCells(s.pending) \cup {cell}
      BY <2>3, <2>5, <3>4
    <3>6. f \in Compactors
      BY <1>2, <3>2, <3>3 DEF Compactors
    <3>7. SoundCompactor(f, T)
      BY <1>2, <3>2, <3>4, <3>5, <3>6 DEF SoundCompactor
    <3> QED BY <1>6, <3>2, <3>5, <3>7 DEF f
  <2> QED BY <2>9, <2>10 DEF f
<1> QED BY <1>4, <1>5, <1>6 DEF f

-----------------------------------------------------------------------------
(* The inductive invariant.                                                 *)

Totals == [c \in Cells |-> Total(c)]

\* Records, partials and groups are complete, and no cell is in two places.
OutputSound ==
    /\ SoundCompactor(Compactor, Totals)
    /\ delivered \in Seq(Records) /\ SoundRecords(delivered, Totals)
    /\ partials \in Seq(Records) /\ SoundRecords(partials, Totals)
    /\ SeqCells(delivered)
         \cap (SeqCells(output) \cup SeqCells(partials) \cup HeldCells(pending)) = {}
    /\ SeqCells(partials) \cap (SeqCells(output) \cup HeldCells(pending)) = {}

OutCells ==
    SeqCells(delivered) \cup SeqCells(output) \cup SeqCells(partials) \cup HeldCells(pending)

MergedChunks(c) == {k \in 1 .. batchEnd : c \in Touch(k) /\ <<k, c>> \notin todo}

AllChunks(c) == {k \in 1 .. Chunks : c \in Touch(k)}

InStreamer(c) == active[c] + disk[c] + reader[c]

\* Before a cell is finalized the maps, runs and the final stream hold the samples merged
\* so far; afterwards they hold none, and the cell was kept if the filter keeps it.
Waiting(c) == InStreamer(c) = Cardinality(MergedChunks(c)) /\ c \notin OutCells

Settled(c) ==
    /\ InStreamer(c) = 0
    /\ MergedChunks(c) = AllChunks(c)
    /\ c \in OutCells <=> c \in Expected

Ledger == lifecycle # "failed" => \A c \in Cells : Waiting(c) \/ Settled(c)

\* The batch, and the horizon that no later chunk crosses.
Progress ==
    /\ \A kc \in todo : kc[1] \in processed + 1 .. batchEnd /\ kc[2] \in Touch(kc[1])
    /\ processed <= batchEnd
    /\ phase # "merge" => todo = {}
    /\ lifecycle # "failed" /\ phase # "merge" => batchEnd = processed
    /\ \A k \in processed + 1 .. Chunks : North(k) <= evictionHorizon
    /\ lifecycle = "failed" => phase = "idle"

\* Where samples can be in each part of the stream.
Places ==
    /\ \A c \in Cells : disk[c] > 0 => Res[c] \in spilled
    /\ \A c \in Cells : reader[c] > 0 => reading /\ Res[c] <= finalRes
    /\ ~finishing => ~reading /\ finalRes = 0
    /\ finishing => processed = Chunks
    /\ finishing => \A c \in Cells : Res[c] <= finalRes => active[c] = 0 /\ disk[c] = 0
    /\ phase \in {"flush", "fetch", "merge"} => ~finishing
    /\ phase \in {"flushRes", "flushAll"} => finishing /\ ~reading
    /\ phase = "flushAll" => finalRes = NumRes
    /\ lifecycle = "finished" =>
          /\ finishing /\ ~reading /\ finalRes = NumRes
          /\ phase \in {"idle", "head"}
          /\ \A p \in Parents : pending[p] = <<>>

StreamInv == TypeOK /\ OutputSound /\ Progress /\ Places /\ Ledger

-----------------------------------------------------------------------------
(* Bounds, chunks and totals.                                               *)

\* A set of integers below PosInf that is not empty has a greatest member.
LEMMA HasGreatest ==
  ASSUME NEW S \in SUBSET Int, S # {}, \A x \in S : x <= PosInf
  PROVE  \E m \in S : \A x \in S : x <= m
<1> DEFINE D == {n \in Nat : \E x \in S : n = PosInf - x}
           less == OpToRel(<, Nat)
<1>1. PosInf \in Int
  BY StreamerAssumption
<1>2. D \in SUBSET Nat /\ D # {}
  <2>1. PICK x \in S : TRUE
    OBVIOUS
  <2>2. PosInf - x \in D
    BY <1>1, <2>1
  <2> QED BY <2>2
<1>3. PICK n \in D : \A d \in D : <<d, n>> \notin less
  <2>1. IsWellFoundedOn(less, Nat)
    BY NatLessThanWellFounded
  <2> HIDE DEF less, D
  <2> QED BY <1>2, <2>1, WFMin
<1>4. \A d \in D : ~(d < n)
  <2> TAKE d \in D
  <2>1. <<d, n>> \in less <=> d < n
    BY DEF OpToRel
  <2> QED BY <1>3, <2>1
<1>5. PICK m \in S : n = PosInf - m
  BY <1>3
<1>6. ASSUME NEW x \in S
      PROVE  x <= m
  <2>1. PosInf - x \in D
    BY <1>1, <1>6
  <2>2. ~(PosInf - x < n)
    BY <1>4, <2>1
  <2> QED BY <1>1, <1>5, <2>2
<1> QED BY <1>6

\* What eviction_north_bound certifies of every chunk.
LEMMA RasterFacts ==
  ASSUME raster \in Rasters
  PROVE  /\ \A k \in 1 .. Chunks : /\ Touch(k) \subseteq Cells
                                   /\ North(k) \in Int /\ NegInf < North(k) /\ North(k) <= PosInf
         /\ \A k \in 1 .. Chunks : \A c \in Touch(k) : South[c] <= North(k)
         /\ Chunks \in Nat /\ NegInf \in Int /\ PosInf \in Int /\ NegInf < PosInf
<1>1. IsRaster(raster)
  BY StreamerAssumption
<1>2. Chunks \in Nat /\ NegInf \in Int /\ PosInf \in Int /\ NegInf < PosInf
  BY StreamerAssumption, CompactorAssumption
<1>3. \A k \in 1 .. Chunks : Touch(k) \subseteq Cells /\ North(k) \in Int
  BY <1>1 DEF IsRaster, Touch, North
<1> QED BY <1>1, <1>2, <1>3 DEF IsRaster, Touch, North

\* suffix_max_north_lat bounds every chunk after the first k.
LEMMA SuffixBound ==
  ASSUME raster \in Rasters, NEW k \in Nat
  PROVE  /\ SuffixMaxNorthLat(k) \in Int
         /\ \A j \in k + 1 .. Chunks : North(j) <= SuffixMaxNorthLat(k)
<1> DEFINE lats == {North(j) : j \in k + 1 .. Chunks} \cup {NegInf}
<1>1. lats \in SUBSET Int /\ lats # {} /\ \A x \in lats : x <= PosInf
  BY RasterFacts
<1>2. \A j \in k + 1 .. Chunks : North(j) \in lats
  OBVIOUS
<1>3. SuffixMaxNorthLat(k) = CHOOSE lat \in lats : \A l \in lats : l <= lat
  BY DEF SuffixMaxNorthLat
<1> HIDE DEF lats
<1>4. \E m \in lats : \A x \in lats : x <= m
  BY <1>1, HasGreatest
<1>5. SuffixMaxNorthLat(k) \in lats /\ \A l \in lats : l <= SuffixMaxNorthLat(k)
  BY <1>3, <1>4
<1> QED BY <1>1, <1>2, <1>5

\* pending_emit_south bounds every cell that waits in a group.
LEMMA PendingBound ==
  ASSUME NEW T, NEW s, SoundCompactor(s, T)
  PROVE  /\ PendingEmitSouth(s) \in Int
         /\ \A c \in HeldCells(s.pending) : South[c] <= PendingEmitSouth(s)
<1> DEFINE lats == (UNION {EmitLats(s, p) : p \in PendingParents(s)}) \cup {NegInf}
<1>1. /\ s.pending \in [Parents -> Seq(Accs)]
      /\ \A p \in Parents : GroupCells(s.pending[p]) \subseteq Children(p)
  BY CompactorFields DEF SoundGroups
<1>2. /\ NegInf \in Int /\ PosInf \in Int /\ NegInf < PosInf
      /\ \A x \in Cells \cup Parents : South[x] \in Int /\ South[x] < PosInf
  BY CompactorAssumption, StreamerAssumption
<1>3. \A p \in PendingParents(s) : \A x \in EmitLats(s, p) : x \in Int /\ x <= PosInf
  <2> SUFFICES ASSUME NEW p \in PendingParents(s), NEW x \in EmitLats(s, p)
               PROVE  x \in Int /\ x <= PosInf
    OBVIOUS
  <2>1. p \in Parents
    BY DEF PendingParents
  <2>2. CASE x = South[p]
    BY <1>2, <2>1, <2>2
  <2>3. CASE \E i \in DOMAIN s.pending[p] : x = South[s.pending[p][i].cell]
    <3>1. PICK i \in DOMAIN s.pending[p] : x = South[s.pending[p][i].cell]
      BY <2>3
    <3>2. s.pending[p][i].cell \in Cells
      BY <1>1, <2>1, <3>1, ParentsOfChildren DEF GroupCells
    <3> QED BY <1>2, <3>1, <3>2
  <2> QED BY <2>2, <2>3 DEF EmitLats
<1>4. lats \in SUBSET Int /\ lats # {} /\ \A x \in lats : x <= PosInf
  BY <1>2, <1>3
<1>5. ASSUME NEW c \in HeldCells(s.pending)
      PROVE  South[c] \in lats
  <2>1. PICK p \in Parents : c \in GroupCells(s.pending[p])
    BY <1>5 DEF HeldCells
  <2>2. PICK i \in DOMAIN s.pending[p] : c = s.pending[p][i].cell
    BY <2>1 DEF GroupCells
  <2>3. p \in PendingParents(s)
    BY <2>1, <2>2 DEF PendingParents
  <2>4. South[c] \in EmitLats(s, p)
    BY <2>2 DEF EmitLats
  <2> QED BY <2>3, <2>4
<1>6. PendingEmitSouth(s) = CHOOSE lat \in lats : \A l \in lats : l <= lat
  BY DEF PendingEmitSouth
<1> HIDE DEF lats
<1>7. \E m \in lats : \A x \in lats : x <= m
  BY <1>4, HasGreatest
<1>8. PendingEmitSouth(s) \in lats /\ \A l \in lats : l <= PendingEmitSouth(s)
  BY <1>6, <1>7
<1> QED BY <1>4, <1>5, <1>8

\* Only finitely many chunks touch a cell.
LEMMA TotalFacts ==
  ASSUME raster \in Rasters
  PROVE  \A c \in Cells : /\ IsFiniteSet(AllChunks(c))
                          /\ Total(c) \in Nat /\ Total(c) = Cardinality(AllChunks(c))
                          /\ Totals[c] = Total(c)
<1>1. ASSUME NEW c \in Cells
      PROVE  IsFiniteSet(AllChunks(c)) /\ Total(c) = Cardinality(AllChunks(c))
  <2>1. IsFiniteSet(1 .. Chunks)
    BY RasterFacts, FS_Interval
  <2>2. AllChunks(c) \subseteq 1 .. Chunks
    BY DEF AllChunks
  <2>3. IsFiniteSet(AllChunks(c))
    BY <2>1, <2>2, FS_Subset
  <2> QED BY <2>3 DEF Total, AllChunks
<1> QED BY <1>1, FS_CardinalityType DEF Totals

\* The raster never changes, nor does what depends on it alone.
LEMMA RasterFixed ==
  ASSUME raster' = raster
  PROVE  /\ Totals' = Totals
         /\ Expected' = Expected
         /\ \A c \in Cells : AllChunks(c)' = AllChunks(c)
         /\ \A k : Touch(k)' = Touch(k) /\ North(k)' = North(k)
         /\ CanEvictEarly' = CanEvictEarly
BY DEF Totals, Total, Expected, AllChunks, Touch, North, CanEvictEarly, SuffixMaxNorthLat

-----------------------------------------------------------------------------
(* Steps by what they do to the output.                                     *)

\* The types of the output variables.
LEMMA OutputFields ==
  ASSUME OutputSound
  PROVE  /\ pending \in [Parents -> Seq(Accs)] /\ output \in Seq(Records)
         /\ partials \in Seq(Records) /\ delivered \in Seq(Records)
<1>1. Compactor.pending = pending /\ Compactor.output = output
  BY DEF Compactor
<1> QED BY <1>1, CompactorFields DEF OutputSound

\* What is expanded of the next state's OutputSound.
LEMMA OutputSoundNext ==
  ASSUME raster' = raster, NEW f, SoundCompactor(f, Totals), SetCompactor(f),
         delivered' \in Seq(Records), SoundRecords(delivered', Totals),
         partials' \in Seq(Records), SoundRecords(partials', Totals),
         SeqCells(delivered')
           \cap (SeqCells(f.output) \cup SeqCells(partials') \cup HeldCells(f.pending)) = {},
         SeqCells(partials') \cap (SeqCells(f.output) \cup HeldCells(f.pending)) = {}
  PROVE  OutputSound'
<1>1. f = [pending |-> pending', output |-> output']
  BY DEF SoundCompactor, Compactors, SetCompactor
<1>2. Compactor' = f
  BY <1>1 DEF Compactor
<1>3. pending' = f.pending /\ output' = f.output
  BY DEF SetCompactor
<1>4. Totals' = Totals
  BY RasterFixed
<1> QED BY <1>2, <1>3, <1>4 DEF OutputSound

\* A step that leaves the output alone.
LEMMA KeptOutput ==
  ASSUME OutputSound, raster' = raster, UNCHANGED outVars
  PROVE  /\ OutputSound'
         /\ OutCells' = OutCells
         /\ pending' = pending /\ output' = output
<1>1. UNCHANGED <<pending, output, partials, delivered>>
  BY DEF outVars
<1>2. Compactor' = Compactor
  BY <1>1 DEF Compactor
<1>3. Totals' = Totals
  BY RasterFixed
<1> QED BY <1>1, <1>2, <1>3 DEF OutputSound, OutCells

\* flush_parent, whoever calls it.
LEMMA FlushedOutput ==
  ASSUME OutputSound, raster' = raster, NEW p \in Parents,
         SetCompactor(FlushParent(Compactor, p)), UNCHANGED <<partials, delivered>>
  PROVE  /\ OutputSound'
         /\ OutCells' = OutCells
         /\ HeldCells(pending') \subseteq HeldCells(pending)
         /\ Emits(output') \subseteq Emits(output) \cup HeldCells(pending)
<1> DEFINE s == Compactor
           f == FlushParent(s, p)
           T == Totals
<1>1. s.pending = pending /\ s.output = output
  BY DEF Compactor
<1>2. SoundCompactor(s, T)
  BY DEF OutputSound
<1>3. pending' = f.pending /\ output' = f.output /\ SetCompactor(f)
  BY DEF SetCompactor
<1>4. f = FlushParent(s, p)
  OBVIOUS
<1> HIDE DEF T, s, f
<1>5. /\ SoundCompactor(f, T)
      /\ HeldCells(f.pending) = HeldCells(s.pending) \ GroupCells(s.pending[p])
      /\ SeqCells(f.output) = SeqCells(s.output) \cup GroupCells(s.pending[p])
      /\ GroupCells(s.pending[p]) \subseteq HeldCells(s.pending)
      /\ Emits(f.output) = Emits(s.output) \cup GroupCells(s.pending[p])
  BY <1>2, <1>4, FlushParentSound
<1>6. /\ delivered \in Seq(Records) /\ SoundRecords(delivered, T)
      /\ partials \in Seq(Records) /\ SoundRecords(partials, T)
      /\ SeqCells(delivered)
           \cap (SeqCells(s.output) \cup SeqCells(partials) \cup HeldCells(s.pending)) = {}
      /\ SeqCells(partials) \cap (SeqCells(s.output) \cup HeldCells(s.pending)) = {}
  BY <1>1 DEF OutputSound, T
<1>7. /\ SeqCells(delivered)
           \cap (SeqCells(f.output) \cup SeqCells(partials) \cup HeldCells(f.pending)) = {}
      /\ SeqCells(partials) \cap (SeqCells(f.output) \cup HeldCells(f.pending)) = {}
  BY <1>5, <1>6
<1>8. OutputSound'
  BY <1>3, <1>5, <1>6, <1>7, OutputSoundNext DEF T
<1>9. OutCells' = OutCells
  BY <1>1, <1>3, <1>5 DEF OutCells
<1> QED BY <1>1, <1>3, <1>5, <1>8, <1>9

\* The rows handed to the caller leave the two buffers.
LEMMA ReturnedOutput ==
  ASSUME OutputSound, raster' = raster, rows \in Nat, Return
  PROVE  /\ OutputSound'
         /\ OutCells' = OutCells
         /\ pending' = pending
         /\ Emits(output') \subseteq Emits(output)
         /\ CurrentLatHorizon(Len(output') + Len(partials')) \in {NegInf, currentHorizon}
         /\ seen' = Least(seen, CurrentLatHorizon(Len(output') + Len(partials')))
<1> DEFINE records == Least(rows, Len(output))
           parts == Least(rows - records, Len(partials))
           T == Totals
           out1 == SubSeq(output, 1, records)
           out2 == SubSeq(output, records + 1, Len(output))
           par1 == SubSeq(partials, 1, parts)
           par2 == SubSeq(partials, parts + 1, Len(partials))
           given == delivered \o out1
<1>1. /\ output \in Seq(Records) /\ partials \in Seq(Records) /\ delivered \in Seq(Records)
  BY OutputFields
<1>2. Len(output) \in Nat /\ Len(partials) \in Nat
  BY <1>1
<1>3. records \in 0 .. Len(output) /\ parts \in 0 .. Len(partials)
  BY <1>2 DEF Least
<1>4. /\ delivered' = given \o par1 /\ output' = out2 /\ partials' = par2 /\ pending' = pending
      /\ seen' = Least(seen, CurrentLatHorizon(Buffered - records - parts))
  BY DEF Return
<1>5. Compactor.pending = pending /\ Compactor.output = output
  BY DEF Compactor
<1>6. /\ SoundCompactor(Compactor, T) /\ SoundRecords(delivered, T) /\ SoundRecords(partials, T)
      /\ SoundRecords(output, T) /\ SoundGroups(pending, T)
      /\ pending \in [Parents -> Seq(Accs)]
      /\ HeldCells(pending) \cap SeqCells(output) = {}
      /\ SeqCells(delivered)
           \cap (SeqCells(output) \cup SeqCells(partials) \cup HeldCells(pending)) = {}
      /\ SeqCells(partials) \cap (SeqCells(output) \cup HeldCells(pending)) = {}
  BY <1>5, CompactorFields DEF OutputSound
<1> HIDE DEF T, records, parts
<1>7. /\ out1 \in Seq(Records) /\ out2 \in Seq(Records)
      /\ Len(out2) = Len(output) - records /\ Emits(out2) \subseteq Emits(output)
      /\ SoundRecords(out1, T) /\ SoundRecords(out2, T)
      /\ SeqCells(out1) \cap SeqCells(out2) = {}
      /\ SeqCells(output) = SeqCells(out1) \cup SeqCells(out2)
  BY <1>1, <1>3, <1>6, SplitRecords
<1>8. /\ par1 \in Seq(Records) /\ par2 \in Seq(Records)
      /\ Len(par2) = Len(partials) - parts
      /\ SoundRecords(par1, T) /\ SoundRecords(par2, T)
      /\ SeqCells(par1) \cap SeqCells(par2) = {}
      /\ SeqCells(partials) = SeqCells(par1) \cup SeqCells(par2)
  BY <1>1, <1>3, <1>6, SplitRecords
<1> HIDE DEF out1, out2, par1, par2
<1>9. /\ given \in Seq(Records) /\ SoundRecords(given, T)
      /\ SeqCells(given) = SeqCells(delivered) \cup SeqCells(out1)
  <2>1. SeqCells(delivered) \cap SeqCells(out1) = {}
    BY <1>6, <1>7
  <2> QED BY <1>1, <1>6, <1>7, <2>1, JoinedRecords
<1> HIDE DEF given
<1>10. /\ delivered' \in Seq(Records) /\ SoundRecords(delivered', T)
       /\ SeqCells(delivered') = SeqCells(delivered) \cup SeqCells(out1) \cup SeqCells(par1)
  <2>1. SeqCells(given) \cap SeqCells(par1) = {}
    BY <1>6, <1>7, <1>8, <1>9
  <2>2. /\ given \o par1 \in Seq(Records) /\ SoundRecords(given \o par1, T)
        /\ SeqCells(given \o par1) = SeqCells(given) \cup SeqCells(par1)
    BY <1>8, <1>9, <2>1, JoinedRecords
  <2> QED BY <1>4, <1>9, <2>2
<1> DEFINE f == [pending |-> pending, output |-> out2]
<1>11. f.pending = pending /\ f.output = out2 /\ f \in Compactors
  BY <1>6, <1>7 DEF Compactors
<1>12. SetCompactor(f)
  BY <1>4 DEF SetCompactor
<1> HIDE DEF f
<1>13. HeldCells(pending) \cap SeqCells(out2) = {}
  BY <1>6, <1>7
<1>14. SoundCompactor(f, T)
  BY <1>6, <1>7, <1>11, <1>13 DEF SoundCompactor
<1>15. partials' \in Seq(Records) /\ SoundRecords(partials', T)
  BY <1>4, <1>8
<1>16. /\ SeqCells(delivered')
            \cap (SeqCells(f.output) \cup SeqCells(partials') \cup HeldCells(f.pending)) = {}
       /\ SeqCells(partials') \cap (SeqCells(f.output) \cup HeldCells(f.pending)) = {}
  BY <1>4, <1>6, <1>7, <1>8, <1>10, <1>11
<1>17. OutputSound'
  BY <1>10, <1>12, <1>14, <1>15, <1>16, OutputSoundNext DEF T
<1>18. OutCells' = OutCells
  BY <1>4, <1>7, <1>8, <1>10 DEF OutCells
<1>19. Buffered - records - parts = Len(output') + Len(partials')
  BY <1>2, <1>3, <1>4, <1>7, <1>8 DEF Buffered
<1>20. \A n : CurrentLatHorizon(n) \in {NegInf, currentHorizon}
  BY DEF CurrentLatHorizon
<1> QED BY <1>4, <1>7, <1>17, <1>18, <1>19, <1>20

\* emit_final of a complete cell: it is kept if the filter keeps it, and what is emitted on
\* the way are the cell, held cells, and parents of which no other child is missing.
LEMMA EmittedOutput ==
  ASSUME OutputSound, raster' = raster, compactionParent \in Parents \cup {NoParent},
         NEW cell \in Cells, NEW n \in Nat, n = Totals[cell], cell \notin OutCells,
         EmitFinal(cell, n)
  PROVE  /\ OutputSound'
         /\ OutCells' = IF cell \in Boundary \/ n >= MinCount THEN OutCells \cup {cell}
                        ELSE OutCells
         /\ HeldCells(pending') \subseteq HeldCells(pending) \cup {cell}
         /\ Emits(output') \subseteq Emits(output) \cup HeldCells(pending) \cup {cell} \cup
               {p \in Parents : Children(p) \subseteq HeldCells(pending) \cup {cell}}
<1> DEFINE T == Totals
           s == Compactor
<1>1. s.pending = pending /\ s.output = output
  BY DEF Compactor
<1>2. /\ SoundCompactor(s, T)
      /\ delivered \in Seq(Records) /\ SoundRecords(delivered, T)
      /\ partials \in Seq(Records) /\ SoundRecords(partials, T)
      /\ SeqCells(delivered)
           \cap (SeqCells(output) \cup SeqCells(partials) \cup HeldCells(pending)) = {}
      /\ SeqCells(partials) \cap (SeqCells(output) \cup HeldCells(pending)) = {}
      /\ n = T[cell]
  BY DEF OutputSound
<1>3. SoundCompactor(s, T) /\ n = T[cell]
  BY <1>2
<1>4. delivered' = delivered
  BY DEF EmitFinal
<1>5. /\ cell \notin SeqCells(delivered) /\ cell \notin SeqCells(output)
      /\ cell \notin SeqCells(partials) /\ cell \notin HeldCells(pending)
  BY DEF OutCells
<1> HIDE DEF T, s
<1>6. CASE cell \in Boundary
  <2> DEFINE r == Record(cell, <<Acc(cell, n)>>)
  <2>1. r \in Records /\ CellsOf(r) = {cell} /\ SoundAccs(r.of, T)
    BY <1>2, OneCellRecord
  <2>2. partials' = Append(partials, r) /\ pending' = pending /\ output' = output
    BY <1>6 DEF EmitFinal
  <2> HIDE DEF r
  <2>3. SeqCells(partials) \cap CellsOf(r) = {}
    BY <1>5, <2>1
  <2>4. /\ Append(partials, r) \in Seq(Records) /\ SoundRecords(Append(partials, r), T)
        /\ SeqCells(Append(partials, r)) = SeqCells(partials) \cup CellsOf(r)
    BY <1>2, <2>1, <2>3, AppendedRecord
  <2>5. /\ partials' \in Seq(Records) /\ SoundRecords(partials', T)
        /\ SeqCells(partials') = SeqCells(partials) \cup {cell}
    BY <2>1, <2>2, <2>4
  <2>6. SetCompactor(s)
    BY <1>1, <2>2 DEF SetCompactor
  <2>7. /\ SeqCells(delivered')
             \cap (SeqCells(s.output) \cup SeqCells(partials') \cup HeldCells(s.pending)) = {}
        /\ SeqCells(partials') \cap (SeqCells(s.output) \cup HeldCells(s.pending)) = {}
        /\ delivered' \in Seq(Records) /\ SoundRecords(delivered', T)
    BY <1>1, <1>2, <1>4, <1>5, <2>5
  <2>8. OutputSound'
    BY <1>2, <2>5, <2>6, <2>7, OutputSoundNext DEF T
  <2>9. OutCells' = OutCells \cup {cell}
    BY <1>4, <2>2, <2>5 DEF OutCells
  <2> QED BY <1>6, <2>2, <2>8, <2>9
<1>7. CASE cell \notin Boundary
  <2> DEFINE e == PreviousGroupFlushed(cell)
             f == PushCell(e, cell, n)
  <2>1. /\ SoundCompactor(e, T)
        /\ HeldCells(e.pending) \subseteq HeldCells(s.pending)
        /\ HeldCells(e.pending) \cup SeqCells(e.output)
             = HeldCells(s.pending) \cup SeqCells(s.output)
        /\ Emits(e.output) \subseteq Emits(s.output) \cup HeldCells(s.pending)
    <3>1. CASE finishing /\ compactionParent \notin {NoParent, Parent[cell]}
      <4> DEFINE p == compactionParent
      <4>1. p \in Parents
        BY <3>1
      <4>2. e = FlushParent(s, p)
        BY <3>1 DEF PreviousGroupFlushed, s
      <4> HIDE DEF e, f, p
      <4>3. /\ SoundCompactor(e, T)
            /\ HeldCells(e.pending) = HeldCells(s.pending) \ GroupCells(s.pending[p])
            /\ SeqCells(e.output) = SeqCells(s.output) \cup GroupCells(s.pending[p])
            /\ GroupCells(s.pending[p]) \subseteq HeldCells(s.pending)
            /\ Emits(e.output) = Emits(s.output) \cup GroupCells(s.pending[p])
        BY <1>3, <4>1, <4>2, FlushParentSound
      <4> QED BY <4>3
    <3>2. CASE ~(finishing /\ compactionParent \notin {NoParent, Parent[cell]})
      <4>1. e = s
        BY <3>2 DEF PreviousGroupFlushed, s
      <4> QED BY <1>2, <4>1
    <3> QED BY <3>1, <3>2
  <2>2. SetCompactor(f) /\ partials' = partials
    BY <1>7 DEF EmitFinal
  <2>3. pending' = f.pending /\ output' = f.output
    BY <2>2 DEF SetCompactor
  <2>4. f = PushCell(e, cell, n)
    OBVIOUS
  <2> HIDE DEF e, f
  <2>5. cell \notin HeldCells(e.pending) \cup SeqCells(e.output)
    BY <1>1, <1>5, <2>1
  <2>6. /\ SoundCompactor(f, T)
        /\ HeldCells(f.pending) \subseteq HeldCells(e.pending) \cup {cell}
        /\ n < MinCount => f = e
        /\ ~(n < MinCount) => HeldCells(f.pending) \cup SeqCells(f.output)
                              = HeldCells(e.pending) \cup SeqCells(e.output) \cup {cell}
        /\ Emits(f.output) \subseteq Emits(e.output) \cup {cell} \cup
              {p \in Parents : Children(p) \subseteq HeldCells(e.pending) \cup {cell}}
    <3>1. SoundCompactor(e, T)
      BY <2>1
    <3> QED BY <1>3, <2>4, <2>5, <3>1, PushCellSound
  <2>7. HeldCells(f.pending) \cup SeqCells(f.output)
          = IF n < MinCount THEN HeldCells(pending) \cup SeqCells(output)
            ELSE HeldCells(pending) \cup SeqCells(output) \cup {cell}
    BY <1>1, <2>1, <2>6
  <2>8. /\ SeqCells(delivered')
             \cap (SeqCells(f.output) \cup SeqCells(partials') \cup HeldCells(f.pending)) = {}
        /\ SeqCells(partials') \cap (SeqCells(f.output) \cup HeldCells(f.pending)) = {}
        /\ delivered' \in Seq(Records) /\ SoundRecords(delivered', T)
        /\ partials' \in Seq(Records) /\ SoundRecords(partials', T)
    BY <1>2, <1>4, <1>5, <2>2, <2>7
  <2>9. OutputSound'
    BY <2>2, <2>6, <2>8, OutputSoundNext DEF T
  <2>10. n < MinCount <=> ~(n >= MinCount)
    BY CompactorAssumption
  <2>11. OutCells' = IF n >= MinCount THEN OutCells \cup {cell} ELSE OutCells
    BY <1>4, <2>2, <2>3, <2>7, <2>10 DEF OutCells
  <2>12. HeldCells(pending') \subseteq HeldCells(pending) \cup {cell}
    BY <1>1, <2>1, <2>3, <2>6
  <2>13. Emits(output') \subseteq Emits(output) \cup HeldCells(pending) \cup {cell} \cup
               {p \in Parents : Children(p) \subseteq HeldCells(pending) \cup {cell}}
    BY <1>1, <2>1, <2>3, <2>6
  <2> QED BY <1>7, <2>9, <2>11, <2>12, <2>13
<1> QED BY <1>6, <1>7

\* fail: nothing is left.
LEMMA FailedOutput ==
  ASSUME OutputSound, raster' = raster, Fail
  PROVE  OutputSound'
<1> DEFINE f == [pending |-> [p \in Parents |-> <<>>], output |-> <<>>]
           T == Totals
<1>1. delivered' = delivered /\ partials' = <<>> /\ SetCompactor(f)
  BY DEF Fail, SetCompactor
<1>2. /\ f.pending \in [Parents -> Seq(Accs)] /\ f.output = <<>>
      /\ \A p \in Parents : f.pending[p] = <<>>
      /\ f \in Compactors
  BY EmptyGroup DEF Compactors
<1>3. delivered \in Seq(Records) /\ SoundRecords(delivered, T)
  BY DEF OutputSound
<1> HIDE DEF f, T
<1>4. <<>> \in Seq(Records) /\ SoundRecords(<<>>, T) /\ SeqCells(<<>>) = {}
  BY DEF SoundRecords, SeqCells
<1>5. SoundGroups(f.pending, T) /\ HeldCells(f.pending) = {}
  BY <1>2, EmptyGroup DEF SoundGroups, HeldCells
<1>6. SoundCompactor(f, T)
  BY <1>2, <1>4, <1>5 DEF SoundCompactor
<1>7. /\ SeqCells(delivered')
             \cap (SeqCells(f.output) \cup SeqCells(partials') \cup HeldCells(f.pending)) = {}
      /\ SeqCells(partials') \cap (SeqCells(f.output) \cup HeldCells(f.pending)) = {}
      /\ delivered' \in Seq(Records) /\ SoundRecords(delivered', T)
      /\ partials' \in Seq(Records) /\ SoundRecords(partials', T)
  BY <1>1, <1>2, <1>3, <1>4, <1>5
<1> QED BY <1>1, <1>6, <1>7, OutputSoundNext DEF T

-----------------------------------------------------------------------------
(* Steps by what they do to the samples.                                    *)

\* No cell gains, loses or finishes.
Quiet ==
    \A c \in Cells : InStreamer(c)' = InStreamer(c) /\ MergedChunks(c)' = MergedChunks(c)

QuietAction ==
    \/ Call \/ Return \/ EnforceLimit \/ NothingToPop \/ FlushCompleted
    \/ FlushCompletedDone \/ FetchBatch \/ BatchDone \/ OpenFinal \/ CloseFinal
    \/ FlushLeftover \/ ResolutionDone \/ StartFlushAll \/ MarkFinished \/ Stop
    \/ UNCHANGED vars

\* A cell leaves, with every sample the raster has for it.
EmitStep(c) ==
    /\ EmitFinal(c, Total(c))
    /\ Total(c) > 0
    /\ c \notin OutCells
    /\ InStreamer(c) > 0 /\ InStreamer(c)' = 0
    /\ MergedChunks(c) = AllChunks(c)
    /\ \A d \in Cells \ {c} : InStreamer(d)' = InStreamer(d)
    /\ \A d \in Cells : MergedChunks(d)' = MergedChunks(d)

\* A sample of chunk k reaches its map, which may then move to disk.
MergeStep(k, c) ==
    /\ k \in AllChunks(c) \ MergedChunks(c)
    /\ InStreamer(c)' = InStreamer(c) + 1
    /\ MergedChunks(c)' = MergedChunks(c) \cup {k}
    /\ \A d \in Cells \ {c} :
          InStreamer(d)' = InStreamer(d) /\ MergedChunks(d)' = MergedChunks(d)

\* Nothing moves when no map, run, stream or batch changes.
LEMMA UnmovedIsQuiet ==
  ASSUME raster' = raster, UNCHANGED <<batchEnd, todo, active, disk, reader>>
  PROVE  Quiet
BY DEF Quiet, InStreamer, MergedChunks, Touch

\* Fetching a batch merges nothing yet, and opening a final stream moves every sample
\* of its resolution from the map and the runs into the stream.
LEMMA QuietSteps ==
  ASSUME TypeOK, Progress, Places, raster' = raster, QuietAction
  PROVE  Quiet
<1>1. CASE FetchBatch
  <2>1. CASE processed = Chunks
    BY <1>1, <2>1, UnmovedIsQuiet DEF FetchBatch
  <2>2. CASE processed # Chunks
    <3>1. todo = {} /\ batchEnd = processed /\ processed \in Nat
      BY <1>1 DEF FetchBatch, Progress, TypeOK
    <3>2. /\ UNCHANGED <<active, disk, reader>>
          /\ batchEnd' \in processed + 1 .. Least(processed + BatchMax, Chunks)
          /\ todo' = {kc \in (processed + 1 .. batchEnd') \X Cells : kc[2] \in Touch(kc[1])}
      BY <1>1, <2>2 DEF FetchBatch
    <3>3. batchEnd' \in Nat /\ batchEnd' > processed
      BY <3>1, <3>2, StreamerAssumption DEF Least
    <3>4. ASSUME NEW c \in Cells
          PROVE  MergedChunks(c)' = MergedChunks(c)
      <4>1. ASSUME NEW k \in 1 .. batchEnd', c \in Touch(k)
            PROVE  <<k, c>> \in todo' <=> k > processed
        BY <3>1, <3>2, <3>3, <4>1
      <4>2. MergedChunks(c) = {k \in 1 .. processed : c \in Touch(k)}
        BY <3>1 DEF MergedChunks
      <4>3. MergedChunks(c)' = {k \in 1 .. batchEnd' : c \in Touch(k) /\ <<k, c>> \notin todo'}
        BY RasterFixed DEF MergedChunks
      <4> QED BY <3>1, <3>3, <4>1, <4>2, <4>3
    <3> QED BY <3>2, <3>4 DEF Quiet, InStreamer
  <2> QED BY <2>1, <2>2
<1>2. CASE OpenFinal
  <2>1. UNCHANGED <<batchEnd, todo>>
    BY <1>2 DEF OpenFinal
  <2>2. \A c \in Cells : reader[c] = 0
    BY <1>2 DEF OpenFinal, Places, TypeOK
  <2>3. \A c \in Cells : InStreamer(c)' = InStreamer(c)
    BY <1>2, <2>2 DEF OpenFinal, InStreamer, TypeOK
  <2> QED BY <2>1, <2>3 DEF Quiet, MergedChunks, Touch
<1>3. CASE QuietAction /\ ~FetchBatch /\ ~OpenFinal
  <2>1. UNCHANGED <<batchEnd, todo, active, disk, reader>>
    BY <1>3 DEF QuietAction, Call, Return, EnforceLimit, NothingToPop, FlushCompleted,
         FlushCompletedDone, BatchDone, CloseFinal, FlushLeftover, ResolutionDone,
         StartFlushAll, MarkFinished, Stop, vars, streamVars, finalVars
  <2> QED BY <2>1, UnmovedIsQuiet
<1> QED BY <1>1, <1>2, <1>3

\* Between batches a cell no later chunk touches has all its chunks.
LEMMA AllMerged ==
  ASSUME TypeOK, todo = {}, batchEnd = processed, NEW c \in Cells,
         \A k \in processed + 1 .. Chunks : c \notin Touch(k)
  PROVE  MergedChunks(c) = AllChunks(c)
<1>1. processed \in 0 .. Chunks /\ Chunks \in Nat
  BY StreamerAssumption DEF TypeOK
<1> QED BY <1>1 DEF MergedChunks, AllChunks

\* What the streamer holds of such a cell is everything, and it has not left before.
LEMMA WholeCell ==
  ASSUME TypeOK, Ledger, lifecycle # "failed", NEW c \in Cells, InStreamer(c) > 0,
         MergedChunks(c) = AllChunks(c)
  PROVE  InStreamer(c) = Total(c) /\ Total(c) > 0 /\ c \notin OutCells
<1>1. Waiting(c)
  BY DEF Ledger, Settled
<1>2. Total(c) = Cardinality(AllChunks(c))
  BY TotalFacts DEF TypeOK
<1> QED BY <1>1, <1>2 DEF Waiting

\* pop_completed: no later chunk reaches a cell that ends north of the horizon, and none of
\* its samples is on disk, so the map has them all.
LEMMA PopIsEmission ==
  ASSUME TypeOK, Progress, Places, Ledger, raster' = raster, PopCompleted
  PROVE  \E c \in Cells : EmitStep(c)
<1>1. PICK c \in Cells : /\ c \in Evictable(Res[c])
                         /\ EmitFinal(c, active[c])
                         /\ active' = [active EXCEPT ![c] = 0]
  BY DEF PopCompleted
<1>2. phase = "head" /\ ~finishing /\ UNCHANGED <<batchEnd, todo, disk, reader>>
  BY DEF PopCompleted, Advancing
<1>3. active[c] > 0 /\ Res[c] \notin spilled /\ South[c] > evictionHorizon
  BY <1>1 DEF Evictable, MapOf
<1>4. disk[c] = 0 /\ reader[c] = 0 /\ active[c] \in Nat
  BY <1>2, <1>3 DEF Places, TypeOK
<1>5. InStreamer(c) = active[c]
  BY <1>4 DEF InStreamer
<1>6. lifecycle # "failed" /\ todo = {} /\ batchEnd = processed
  BY <1>2 DEF Progress
<1>7. \A k \in processed + 1 .. Chunks : c \notin Touch(k)
  <2>1. raster \in Rasters /\ processed \in Nat /\ evictionHorizon \in Int /\ South[c] \in Int
    BY CompactorAssumption DEF TypeOK
  <2>2. ASSUME NEW k \in processed + 1 .. Chunks, c \in Touch(k)
        PROVE  FALSE
    <3>1. k \in 1 .. Chunks
      BY <2>1, StreamerAssumption
    <3>2. South[c] <= North(k) /\ North(k) \in Int
      BY <2>1, <2>2, <3>1, RasterFacts
    <3>3. North(k) <= evictionHorizon
      BY DEF Progress
    <3> QED BY <1>3, <2>1, <3>2, <3>3
  <2> QED BY <2>2
<1>8. MergedChunks(c) = AllChunks(c)
  BY <1>6, <1>7, AllMerged
<1>9. active[c] = Total(c) /\ Total(c) > 0 /\ c \notin OutCells
  BY <1>3, <1>5, <1>6, <1>8, WholeCell
<1>10. /\ InStreamer(c)' = 0
       /\ \A d \in Cells \ {c} : InStreamer(d)' = InStreamer(d)
  BY <1>1, <1>2, <1>4 DEF InStreamer, TypeOK
<1>11. \A d \in Cells : MergedChunks(d)' = MergedChunks(d)
  BY <1>2 DEF MergedChunks, Touch
<1>12. EmitFinal(c, Total(c)) /\ InStreamer(c) > 0
  BY <1>1, <1>3, <1>5, <1>9
<1> QED BY <1>8, <1>9, <1>10, <1>11, <1>12 DEF EmitStep

\* After the last chunk the merged map and runs of a resolution have them all.
LEMMA ReadIsEmission ==
  ASSUME TypeOK, Progress, Places, Ledger, raster' = raster, ReadFinal
  PROVE  \E c \in Cells : EmitStep(c)
<1>1. PICK c \in Cells : /\ reader[c] > 0
                         /\ EmitFinal(c, reader[c])
                         /\ reader' = [reader EXCEPT ![c] = 0]
  BY DEF ReadFinal
<1>2. phase = "head" /\ finishing /\ UNCHANGED <<batchEnd, todo, disk, active>>
  BY DEF ReadFinal, Advancing, streamVars
<1>3. disk[c] = 0 /\ active[c] = 0 /\ reader[c] \in Nat
  BY <1>1, <1>2 DEF Places, TypeOK
<1>4. InStreamer(c) = reader[c]
  BY <1>3 DEF InStreamer
<1>5. lifecycle # "failed" /\ todo = {} /\ batchEnd = processed /\ processed = Chunks
  BY <1>2 DEF Progress, Places
<1>6. \A k \in processed + 1 .. Chunks : c \notin Touch(k)
  BY <1>5, StreamerAssumption
<1>7. MergedChunks(c) = AllChunks(c)
  BY <1>5, <1>6, AllMerged
<1>8. reader[c] = Total(c) /\ Total(c) > 0 /\ c \notin OutCells
  BY <1>1, <1>4, <1>5, <1>7, WholeCell
<1>9. /\ InStreamer(c)' = 0
      /\ \A d \in Cells \ {c} : InStreamer(d)' = InStreamer(d)
  BY <1>1, <1>2, <1>3 DEF InStreamer, TypeOK
<1>10. \A d \in Cells : MergedChunks(d)' = MergedChunks(d)
  BY <1>2 DEF MergedChunks, Touch
<1>11. EmitFinal(c, Total(c)) /\ InStreamer(c) > 0
  BY <1>1, <1>4, <1>8
<1> QED BY <1>7, <1>8, <1>9, <1>10, <1>11 DEF EmitStep

\* merge_owned counts a chunk once, and spill_resolution moves samples without losing any.
LEMMA MergeIsMerge ==
  ASSUME TypeOK, Progress, raster' = raster, MergeCell
  PROVE  \E c \in Cells, k \in 1 .. Chunks : MergeStep(k, c)
<1>1. PICK kc \in todo :
        LET c == kc[2]
            r == Res[c]
            merged == [active EXCEPT ![c] = @ + 1]
            map == {d \in Cells : Res[d] = r /\ merged[d] > 0}
        IN  /\ todo' = todo \ {kc}
            /\ IF Cardinality(map) >= MapBudget
               THEN /\ disk' = [d \in Cells |->
                                   IF d \in map THEN disk[d] + merged[d] ELSE disk[d]]
                    /\ active' = [d \in Cells |-> IF d \in map THEN 0 ELSE merged[d]]
               ELSE active' = merged /\ UNCHANGED disk
  BY DEF MergeCell
<1> DEFINE k == kc[1]
           c == kc[2]
           merged == [active EXCEPT ![c] = @ + 1]
<1>2. UNCHANGED <<batchEnd, reader>>
  BY DEF MergeCell, finalVars
<1>3. /\ kc = <<k, c>> /\ k \in 1 .. Chunks /\ c \in Cells
      /\ k \in processed + 1 .. batchEnd /\ c \in Touch(k)
  BY DEF TypeOK, Progress
<1>4. /\ merged \in [Cells -> Nat] /\ merged[c] = active[c] + 1
      /\ \A d \in Cells \ {c} : merged[d] = active[d]
      /\ \A d \in Cells : active[d] \in Nat /\ disk[d] \in Nat /\ reader[d] \in Nat
  BY <1>3 DEF TypeOK
<1>5. \A d \in Cells : active'[d] + disk'[d] = merged[d] + disk[d]
  BY <1>1, <1>3, <1>4
<1>6. \A d \in Cells : active'[d] \in Nat /\ disk'[d] \in Nat
  BY <1>1, <1>3, <1>4
<1>7. /\ InStreamer(c)' = InStreamer(c) + 1
      /\ \A d \in Cells \ {c} : InStreamer(d)' = InStreamer(d)
  BY <1>2, <1>3, <1>4, <1>5, <1>6 DEF InStreamer
<1>8. todo' = todo \ {<<k, c>>}
  BY <1>1, <1>3
<1> HIDE DEF k, c
<1>9. k \in 1 .. batchEnd /\ <<k, c>> \in todo
  <2>1. <<k, c>> \in todo
    BY <1>3
  <2>2. processed \in Nat /\ batchEnd \in Nat
    BY StreamerAssumption DEF TypeOK
  <2> QED BY <1>3, <2>1, <2>2
<1>10. /\ MergedChunks(c)' = MergedChunks(c) \cup {k}
       /\ \A d \in Cells \ {c} : MergedChunks(d)' = MergedChunks(d)
       /\ k \in AllChunks(c) \ MergedChunks(c)
  BY <1>2, <1>3, <1>8, <1>9 DEF MergedChunks, AllChunks, Touch
<1> QED BY <1>3, <1>7, <1>10 DEF MergeStep

\* Such steps at most decompose groups or hand out rows.
LEMMA QuietOutput ==
  ASSUME TypeOK, OutputSound, raster' = raster, QuietAction
  PROVE  /\ OutputSound'
         /\ OutCells' = OutCells
         /\ HeldCells(pending') \subseteq HeldCells(pending)
         /\ Emits(output') \subseteq Emits(output) \cup HeldCells(pending)
<1>1. CASE UNCHANGED outVars
  BY <1>1, KeptOutput
<1>2. CASE \E p \in Parents : /\ SetCompactor(FlushParent(Compactor, p))
                              /\ UNCHANGED <<partials, delivered>>
  BY <1>2, FlushedOutput
<1>3. CASE Return
  BY <1>3, ReturnedOutput DEF TypeOK
<1>4. CASE EnforceLimit
  BY <1>1, <1>2, <1>4 DEF EnforceLimit, outVars
<1>5. CASE FlushCompleted
  BY <1>2, <1>5 DEF FlushCompleted
<1>6. CASE FlushLeftover
  BY <1>2, <1>6 DEF FlushLeftover, Leftover, PendingParents
<1>7. CASE QuietAction /\ ~Return /\ ~EnforceLimit /\ ~FlushCompleted /\ ~FlushLeftover
  <2>1. UNCHANGED outVars
    BY <1>7 DEF QuietAction, Call, NothingToPop, FlushCompletedDone, FetchBatch, BatchDone,
         OpenFinal, CloseFinal, ResolutionDone, StartFlushAll, MarkFinished, Stop, vars
  <2> QED BY <1>1, <2>1
<1> QED BY <1>3, <1>4, <1>5, <1>6, <1>7

\* The ways a step can go.
LEMMA StepCases ==
  ASSUME Next \/ UNCHANGED vars
  PROVE  /\ raster' = raster
         /\ \/ QuietAction
            \/ PopCompleted \/ ReadFinal
            \/ MergeCell
            \/ CanFail /\ Fail /\ (FetchFails \/ MergeFails \/ FinalFails)
BY DEF Next, vars, QuietAction, FetchFails, MergeFails, FinalFails, Fail

\* A failure is latched.
LEMMA FailureLatched ==
  ASSUME Progress, Next \/ UNCHANGED vars, lifecycle' # "failed"
  PROVE  lifecycle # "failed" /\ ~Fail
<1>1. ~Fail
  BY DEF Fail
<1>2. CASE lifecycle = "failed"
  <2>1. phase = "idle"
    BY <1>2 DEF Progress
  <2>2. Call \/ Stop \/ UNCHANGED vars
    BY <2>1 DEF Next, Return, EnforceLimit, PopCompleted, NothingToPop, FlushCompleted,
         FlushCompletedDone, FetchBatch, FetchFails, MergeCell, MergeFails, BatchDone,
         OpenFinal, ReadFinal, FinalFails, CloseFinal, FlushLeftover, ResolutionDone,
         StartFlushAll, MarkFinished, Advancing
  <2>3. lifecycle' = lifecycle
    BY <2>2 DEF Call, Stop, vars, callVars
  <2> QED BY <1>2, <2>3
<1> QED BY <1>1, <1>2

\* Complete, disjoint output and the ledger are kept.
LEMMA AccountsStep ==
  ASSUME StreamInv, Next \/ UNCHANGED vars
  PROVE  OutputSound' /\ Ledger'
<1> USE DEF StreamInv
<1>1. raster' = raster /\ raster \in Rasters
  BY StepCases DEF TypeOK
<1>2. lifecycle' # "failed" => lifecycle # "failed" /\ ~Fail
  BY FailureLatched
<1>3. \A c \in Cells : AllChunks(c)' = AllChunks(c) /\ (c \in Expected)' = (c \in Expected)
  BY <1>1, RasterFixed
<1>4. CASE QuietAction
  <2>1. OutputSound' /\ OutCells' = OutCells
    BY <1>1, <1>4, QuietOutput
  <2>2. Quiet
    BY <1>1, <1>4, QuietSteps
  <2>3. Ledger'
    BY <1>2, <1>3, <2>1, <2>2 DEF Ledger, Waiting, Settled, Quiet
  <2> QED BY <2>1, <2>3
<1>5. CASE PopCompleted \/ ReadFinal
  <2>1. PICK c \in Cells : EmitStep(c)
    BY <1>1, <1>5, PopIsEmission, ReadIsEmission
  <2> DEFINE n == Total(c)
  <2>2. n \in Nat /\ n = Totals[c] /\ n > 0 /\ c \notin OutCells /\ EmitFinal(c, n)
    BY <1>1, <2>1, TotalFacts DEF EmitStep
  <2>3. compactionParent \in Parents \cup {NoParent}
    BY DEF TypeOK
  <2>4. c \in Expected <=> c \in Boundary \/ n >= MinCount
    BY <2>2 DEF Expected
  <2> HIDE DEF n
  <2>5. /\ OutputSound'
        /\ OutCells' = IF c \in Boundary \/ n >= MinCount THEN OutCells \cup {c} ELSE OutCells
    BY <1>1, <2>2, <2>3, EmittedOutput
  <2>6. c \in OutCells' <=> c \in Expected
    BY <2>2, <2>4, <2>5
  <2>7. Settled(c)'
    BY <1>3, <2>1, <2>6 DEF Settled, EmitStep
  <2>8. ASSUME NEW d \in Cells \ {c}, Waiting(d) \/ Settled(d)
        PROVE  (Waiting(d) \/ Settled(d))'
    BY <1>3, <2>1, <2>5, <2>8 DEF Waiting, Settled, EmitStep
  <2> QED BY <1>2, <2>5, <2>7, <2>8 DEF Ledger
<1>6. CASE MergeCell
  <2>1. OutputSound' /\ OutCells' = OutCells
    BY <1>1, <1>6, KeptOutput DEF MergeCell
  <2>2. PICK c \in Cells, k \in 1 .. Chunks : MergeStep(k, c)
    BY <1>1, <1>6, MergeIsMerge
  <2>3. ASSUME NEW d \in Cells \ {c}, Waiting(d) \/ Settled(d)
        PROVE  (Waiting(d) \/ Settled(d))'
    BY <1>3, <2>1, <2>2, <2>3 DEF Waiting, Settled, MergeStep
  <2>4. ASSUME Waiting(c) \/ Settled(c)
        PROVE  Waiting(c)'
    <3>1. Waiting(c)
      BY <2>2, <2>4 DEF MergeStep, Settled
    <3>2. IsFiniteSet(MergedChunks(c))
      <4>1. batchEnd \in 0 .. Chunks /\ Chunks \in Nat
        BY StreamerAssumption DEF TypeOK
      <4>2. MergedChunks(c) \subseteq AllChunks(c)
        BY <4>1 DEF MergedChunks, AllChunks
      <4> QED BY <1>1, <4>2, TotalFacts, FS_Subset
    <3>3. k \notin MergedChunks(c) /\ MergedChunks(c)' = MergedChunks(c) \cup {k}
      BY <2>2 DEF MergeStep
    <3>4. Cardinality(MergedChunks(c) \cup {k}) = Cardinality(MergedChunks(c)) + 1
      BY <3>2, <3>3, FS_AddElement
    <3> QED BY <2>1, <2>2, <3>1, <3>3, <3>4 DEF Waiting, MergeStep
  <2> QED BY <1>2, <2>1, <2>3, <2>4 DEF Ledger
<1>7. CASE Fail
  BY <1>1, <1>2, <1>7, FailedOutput DEF Ledger
<1> QED BY <1>4, <1>5, <1>6, <1>7, StepCases

-----------------------------------------------------------------------------
(* Types, progress and places.                                              *)

\* Every step keeps the types.
LEMMA TypeStep ==
  ASSUME TypeOK, OutputSound, OutputSound', Next \/ UNCHANGED vars
  PROVE  TypeOK'
<1> DEFINE OutTyped == /\ pending \in [Parents -> Seq(Accs)] /\ output \in Seq(Records)
                       /\ partials \in Seq(Records) /\ delivered \in Seq(Records)
           RestTyped ==
             /\ raster \in Rasters
             /\ phase \in {"idle", "head", "limit", "flush", "fetch", "merge", "flushRes",
                           "flushAll"}
             /\ rows \in Nat
             /\ lifecycle \in {"running", "finished", "failed"}
             /\ processed \in 0 .. Chunks
             /\ batchEnd \in 0 .. Chunks
             /\ todo \subseteq (1 .. Chunks) \X Cells
             /\ active \in [Cells -> Nat]
             /\ disk \in [Cells -> Nat]
             /\ reader \in [Cells -> Nat]
             /\ tracked \subseteq 1 .. NumRes
             /\ spilled \subseteq 1 .. NumRes
             /\ evictionHorizon \in Int /\ currentHorizon \in Int /\ seen \in Int
             /\ finishing \in BOOLEAN /\ reading \in BOOLEAN /\ flushed \in BOOLEAN
             /\ finalRes \in 0 .. NumRes
             /\ compactionParent \in Parents \cup {NoParent}
<1>1. OutTyped'
  <2> DEFINE f == Compactor'
             T == Totals'
  <2>1. f.pending = pending' /\ f.output = output'
    BY DEF Compactor
  <2>2. SoundCompactor(f, T)
    BY DEF OutputSound
  <2> HIDE DEF f, T
  <2>3. f.pending \in [Parents -> Seq(Accs)] /\ f.output \in Seq(Records)
    BY <2>2, CompactorFields
  <2> QED BY <2>1, <2>3 DEF OutputSound
<1>2. TypeOK <=> OutTyped /\ RestTyped
  BY DEF TypeOK
<1>3. (TypeOK <=> OutTyped /\ RestTyped)'
  BY DEF TypeOK
<1>4. RestTyped
  BY <1>2
<1>5. Chunks \in Nat /\ NegInf \in Int /\ NumRes \in Nat /\ Res \in [Cells -> 1 .. NumRes]
  BY CompactorAssumption, StreamerAssumption
<1>6. raster' = raster
  BY StepCases
<1> HIDE DEF OutTyped
<1>7. RestTyped'
  <2>1. CASE Call
    BY <1>4, <1>5, <1>6, <2>1 DEF Call, callVars, streamVars, horizonVars, finalVars
  <2>2. CASE Return
    <3>1. CurrentLatHorizon(Len(output') + Len(partials')) \in Int
      BY <1>4, <1>5, <1>6, <2>2, ReturnedOutput
    <3>2. seen' \in Int
      BY <1>4, <1>6, <2>2, <3>1, ReturnedOutput DEF Least
    <3> QED BY <1>4, <1>6, <2>2, <3>2 DEF Return, streamVars, finalVars
  <2>3. CASE EnforceLimit
    BY <1>4, <1>5, <1>6, <2>3 DEF EnforceLimit, streamVars, horizonVars, finalVars
  <2>4. CASE PopCompleted
    <3>1. PICK c \in Cells : EmitFinal(c, active[c]) /\ active' = [active EXCEPT ![c] = 0]
      BY <2>4 DEF PopCompleted
    <3>2. Parent[c] \in Parents \cup {NoParent}
      BY ParentsOfChildren
    <3> QED BY <1>4, <1>6, <2>4, <3>1, <3>2 DEF PopCompleted, EmitFinal, horizonVars
  <2>5. CASE NothingToPop
    BY <1>4, <1>5, <1>6, <2>5 DEF NothingToPop, streamVars, horizonVars, finalVars
  <2>6. CASE FlushCompleted
    BY <1>4, <1>5, <1>6, <2>6 DEF FlushCompleted, streamVars, horizonVars, finalVars
  <2>7. CASE FlushCompletedDone
    BY <1>4, <1>5, <1>6, <2>7 DEF FlushCompletedDone, streamVars, horizonVars, finalVars
  <2>8. CASE FetchBatch
    <3>1. PendingEmitSouth(Compactor) \in Int
      BY PendingBound DEF OutputSound
    <3>2. currentHorizon' \in Int
      BY <1>4, <2>8, <3>1 DEF FetchBatch, PublishHorizon
    <3>3. batchEnd' \in 0 .. Chunks /\ todo' \subseteq (1 .. Chunks) \X Cells
      <4>1. CASE processed = Chunks
        BY <1>4, <2>8, <4>1 DEF FetchBatch
      <4>2. CASE processed # Chunks
        <5>1. /\ batchEnd' \in processed + 1 .. Least(processed + BatchMax, Chunks)
              /\ todo' \subseteq (processed + 1 .. batchEnd') \X Cells
          BY <2>8, <4>2 DEF FetchBatch
        <5>2. batchEnd' \in 0 .. Chunks /\ (processed + 1 .. batchEnd') \subseteq 1 .. Chunks
          BY <1>4, <1>5, <5>1, StreamerAssumption DEF Least
        <5> QED BY <5>1, <5>2
      <4> QED BY <4>1, <4>2
    <3> QED BY <1>4, <1>6, <2>8, <3>2, <3>3 DEF FetchBatch
  <2>9. CASE MergeCell
    <3>1. PICK kc \in todo :
            /\ todo' = todo \ {kc}
            /\ tracked' \subseteq tracked
            /\ spilled' \subseteq spilled \cup {Res[kc[2]]}
            /\ LET merged == [active EXCEPT ![kc[2]] = @ + 1]
                   map == {d \in Cells : Res[d] = Res[kc[2]] /\ merged[d] > 0}
               IN  \/ /\ disk' = [d \in Cells |->
                                   IF d \in map THEN disk[d] + merged[d] ELSE disk[d]]
                      /\ active' = [d \in Cells |-> IF d \in map THEN 0 ELSE merged[d]]
                   \/ active' = merged /\ UNCHANGED disk
      BY <2>9 DEF MergeCell
    <3>2. kc[2] \in Cells /\ Res[kc[2]] \in 1 .. NumRes
      BY <1>4, <1>5
    <3> DEFINE merged == [active EXCEPT ![kc[2]] = @ + 1]
    <3>3. merged \in [Cells -> Nat] /\ disk \in [Cells -> Nat]
      BY <1>4, <3>2
    <3>4. active' \in [Cells -> Nat] /\ disk' \in [Cells -> Nat]
      BY <3>1, <3>3
    <3> QED BY <1>4, <1>6, <2>9, <3>1, <3>2, <3>4
            DEF MergeCell, callVars, horizonVars, finalVars
  <2>10. CASE BatchDone
    <3>1. SuffixMaxNorthLat(batchEnd) \in Int
      BY <1>4, <1>5, SuffixBound
    <3> QED BY <1>4, <1>6, <2>10, <3>1 DEF BatchDone, finalVars
  <2>11. CASE OpenFinal
    BY <1>4, <1>5, <1>6, <2>11 DEF OpenFinal, callVars, horizonVars
  <2>12. CASE ReadFinal
    <3>1. PICK c \in Cells : EmitFinal(c, reader[c]) /\ reader' = [reader EXCEPT ![c] = 0]
      BY <2>12 DEF ReadFinal
    <3>2. Parent[c] \in Parents \cup {NoParent}
      BY ParentsOfChildren
    <3> QED BY <1>4, <1>6, <2>12, <3>1, <3>2 DEF ReadFinal, EmitFinal, horizonVars, streamVars
  <2>13. CASE Fail
    BY <1>4, <1>5, <1>6, <2>13 DEF Fail, Nothing, horizonVars
  <2>14. CASE CloseFinal
    BY <1>4, <1>5, <1>6, <2>14 DEF CloseFinal, streamVars, horizonVars
  <2>15. CASE FlushLeftover
    BY <1>4, <1>5, <1>6, <2>15 DEF FlushLeftover, callVars, streamVars, horizonVars, finalVars
  <2>16. CASE ResolutionDone
    BY <1>4, <1>5, <1>6, <2>16 DEF ResolutionDone, streamVars, horizonVars, finalVars
  <2>17. CASE StartFlushAll
    BY <1>4, <1>5, <1>6, <2>17 DEF StartFlushAll, streamVars, horizonVars, finalVars
  <2>18. CASE MarkFinished
    BY <1>4, <1>5, <1>6, <2>18 DEF MarkFinished, streamVars, horizonVars, finalVars
  <2>19. CASE Stop \/ UNCHANGED vars
    BY <1>4, <1>5, <1>6, <2>19 DEF Stop, vars, callVars, streamVars, horizonVars, finalVars
  <2> QED
    BY <2>1, <2>2, <2>3, <2>4, <2>5, <2>6, <2>7, <2>8, <2>9, <2>10, <2>11, <2>12, <2>13,
       <2>14, <2>15, <2>16, <2>17, <2>18, <2>19
       DEF Next, FetchFails, MergeFails, FinalFails
<1> QED BY <1>1, <1>3, <1>7

\* Every step keeps the batch and the horizon in order.
LEMMA ProgressStep ==
  ASSUME TypeOK, Progress, Places, Next \/ UNCHANGED vars
  PROVE  Progress'
<1>1. raster' = raster /\ raster \in Rasters
  BY StepCases DEF TypeOK
<1>2. \A k : Touch(k)' = Touch(k) /\ North(k)' = North(k)
  BY <1>1, RasterFixed
<1>3. /\ processed \in 0 .. Chunks /\ batchEnd \in 0 .. Chunks /\ Chunks \in Nat
      /\ evictionHorizon \in Int
  BY StreamerAssumption DEF TypeOK
<1>4. CASE Call
  BY <1>2, <1>3, <1>4 DEF Call, callVars, streamVars, horizonVars, finalVars, outVars, Progress
<1>5. CASE Return
  BY <1>2, <1>3, <1>5 DEF Return, streamVars, finalVars, Progress
<1>6. CASE EnforceLimit
  BY <1>2, <1>3, <1>6 DEF EnforceLimit, streamVars, horizonVars, finalVars, Progress
<1>7. CASE PopCompleted
  BY <1>2, <1>3, <1>7 DEF PopCompleted, EmitFinal, Advancing, horizonVars, Progress
<1>8. CASE NothingToPop
  BY <1>2, <1>3, <1>8 DEF NothingToPop, Advancing, streamVars, horizonVars, Progress
<1>9. CASE FlushCompleted
  BY <1>2, <1>3, <1>9 DEF FlushCompleted, streamVars, horizonVars, finalVars, Progress
<1>10. CASE FlushCompletedDone
  BY <1>2, <1>3, <1>10
     DEF FlushCompletedDone, streamVars, horizonVars, finalVars, outVars, Progress
<1>11. CASE FetchBatch
  <2>1. phase # "merge" /\ todo = {} /\ lifecycle # "failed" /\ batchEnd = processed
    BY <1>11 DEF FetchBatch, Progress
  <2>2. CASE processed = Chunks
    BY <1>2, <1>3, <1>11, <2>1, <2>2 DEF FetchBatch, Progress
  <2>3. CASE processed # Chunks
    <3>1. /\ batchEnd' \in processed + 1 .. Least(processed + BatchMax, Chunks)
          /\ todo' = {kc \in (processed + 1 .. batchEnd') \X Cells : kc[2] \in Touch(kc[1])}
          /\ phase' = "merge"
      BY <1>11, <2>3 DEF FetchBatch
    <3>2. batchEnd' >= processed
      BY <1>3, <3>1, StreamerAssumption DEF Least
    <3> QED BY <1>2, <1>3, <1>11, <2>1, <3>1, <3>2 DEF FetchBatch, Progress
  <2> QED BY <2>2, <2>3
<1>12. CASE MergeCell
  BY <1>2, <1>3, <1>12 DEF MergeCell, callVars, horizonVars, finalVars, outVars, Progress
<1>13. CASE BatchDone
  <2>1. \A k \in batchEnd + 1 .. Chunks : North(k) <= SuffixMaxNorthLat(batchEnd)
    BY <1>1, <1>3, SuffixBound
  <2>2. \A k \in batchEnd + 1 .. Chunks : North(k) <= evictionHorizon
    BY <1>3 DEF Progress
  <2>3. lifecycle # "failed"
    BY <1>13 DEF BatchDone, Progress
  <2> QED BY <1>2, <1>3, <1>13, <2>1, <2>2, <2>3 DEF BatchDone, Progress
<1>14. CASE OpenFinal
  BY <1>2, <1>3, <1>14 DEF OpenFinal, Advancing, callVars, horizonVars, Progress
<1>15. CASE ReadFinal
  BY <1>2, <1>3, <1>15 DEF ReadFinal, EmitFinal, Advancing, horizonVars, streamVars, Progress
<1>16. CASE Fail
  BY <1>2, <1>3, <1>16 DEF Fail, Nothing, horizonVars, Progress
<1>17. CASE CloseFinal
  BY <1>2, <1>3, <1>17 DEF CloseFinal, Advancing, streamVars, horizonVars, Progress
<1>18. CASE FlushLeftover
  BY <1>2, <1>3, <1>18 DEF FlushLeftover, callVars, streamVars, horizonVars, finalVars, Progress
<1>19. CASE ResolutionDone
  BY <1>2, <1>3, <1>19 DEF ResolutionDone, streamVars, horizonVars, finalVars, outVars, Progress
<1>20. CASE StartFlushAll
  BY <1>2, <1>3, <1>20 DEF StartFlushAll, Advancing, streamVars, horizonVars, Progress
<1>21. CASE MarkFinished
  BY <1>2, <1>3, <1>21 DEF MarkFinished, streamVars, horizonVars, finalVars, outVars, Progress
<1>22. CASE Stop \/ UNCHANGED vars
  BY <1>2, <1>3, <1>22
     DEF Stop, vars, callVars, streamVars, horizonVars, finalVars, outVars, Progress
<1> QED
  BY <1>4, <1>5, <1>6, <1>7, <1>8, <1>9, <1>10, <1>11, <1>12, <1>13, <1>14, <1>15, <1>16,
     <1>17, <1>18, <1>19, <1>20, <1>21, <1>22
     DEF Next, FetchFails, MergeFails, FinalFails

\* Every step keeps samples where they may be.
LEMMA PlacesStep ==
  ASSUME TypeOK, Progress, Places, Next \/ UNCHANGED vars
  PROVE  Places'
<1>1. /\ processed \in 0 .. Chunks /\ finalRes \in 0 .. NumRes
      /\ finishing \in BOOLEAN /\ reading \in BOOLEAN
      /\ Chunks \in Nat /\ NumRes \in Nat
      /\ \A c \in Cells : Res[c] \in 1 .. NumRes
      /\ active \in [Cells -> Nat] /\ disk \in [Cells -> Nat] /\ reader \in [Cells -> Nat]
  BY StreamerAssumption DEF TypeOK
<1>2. CASE Call
  BY <1>1, <1>2 DEF Call, callVars, streamVars, horizonVars, finalVars, outVars, Places
<1>3. CASE Return
  BY <1>1, <1>3 DEF Return, streamVars, finalVars, Places
<1>4. CASE EnforceLimit
  BY <1>1, <1>4 DEF EnforceLimit, streamVars, horizonVars, finalVars, Places
<1>5. CASE PopCompleted
  BY <1>1, <1>5 DEF PopCompleted, EmitFinal, Advancing, KeepsAdvancing, horizonVars, Places
<1>6. CASE NothingToPop
  BY <1>1, <1>6
     DEF NothingToPop, Advancing, KeepsAdvancing, streamVars, horizonVars, finalVars,
         outVars, Places
<1>7. CASE FlushCompleted
  BY <1>1, <1>7 DEF FlushCompleted, streamVars, horizonVars, finalVars, Places
<1>8. CASE FlushCompletedDone
  BY <1>1, <1>8 DEF FlushCompletedDone, streamVars, horizonVars, finalVars, outVars, Places
<1>9. CASE FetchBatch
  BY <1>1, <1>9 DEF FetchBatch, outVars, Places
<1>10. CASE MergeCell
  <2>1. PICK kc \in todo :
            LET merged == [active EXCEPT ![kc[2]] = @ + 1]
                map == {d \in Cells : Res[d] = Res[kc[2]] /\ merged[d] > 0}
            IN  \/ /\ disk' = [d \in Cells |->
                                   IF d \in map THEN disk[d] + merged[d] ELSE disk[d]]
                   /\ spilled' = spilled \cup {Res[kc[2]]}
                \/ UNCHANGED <<disk, spilled>>
    BY <1>10 DEF MergeCell
  <2>2. \A c \in Cells : disk'[c] > 0 => Res[c] \in spilled'
    BY <1>1, <2>1 DEF Places
  <2>3. phase = "merge" /\ ~finishing
    BY <1>10 DEF MergeCell, Places
  <2> QED BY <1>1, <1>10, <2>2, <2>3 DEF MergeCell, Places, callVars, finalVars, outVars
<1>11. CASE BatchDone
  BY <1>1, <1>11 DEF BatchDone, finalVars, outVars, Places
<1>12. CASE OpenFinal
  BY <1>1, <1>12
     DEF OpenFinal, Advancing, KeepsAdvancing, callVars, horizonVars, outVars, Places
<1>13. CASE ReadFinal
  BY <1>1, <1>13
     DEF ReadFinal, EmitFinal, Advancing, KeepsAdvancing, horizonVars, streamVars, Places
<1>14. CASE Fail
  BY <1>1, <1>14 DEF Fail, Nothing, horizonVars, Places
<1>15. CASE CloseFinal
  BY <1>1, <1>15
     DEF CloseFinal, NoCells, Advancing, KeepsAdvancing, streamVars, horizonVars, outVars,
         Places
<1>16. CASE FlushLeftover
  BY <1>1, <1>16 DEF FlushLeftover, callVars, streamVars, horizonVars, finalVars, Places
<1>17. CASE ResolutionDone
  BY <1>1, <1>17 DEF ResolutionDone, streamVars, horizonVars, finalVars, outVars, Places
<1>18. CASE StartFlushAll
  BY <1>1, <1>18
     DEF StartFlushAll, Advancing, KeepsAdvancing, streamVars, horizonVars, finalVars,
         outVars, Places
<1>19. CASE MarkFinished
  <2>1. \A p \in Parents : pending[p] = <<>>
    BY <1>19 DEF MarkFinished, Leftover, PendingParents, Compactor
  <2> QED BY <1>1, <1>19, <2>1
          DEF MarkFinished, Places, streamVars, horizonVars, finalVars, outVars
<1>20. CASE Stop \/ UNCHANGED vars
  BY <1>1, <1>20 DEF Stop, vars, callVars, streamVars, horizonVars, finalVars, outVars, Places
<1> QED
  BY <1>2, <1>3, <1>4, <1>5, <1>6, <1>7, <1>8, <1>9, <1>10, <1>11, <1>12, <1>13, <1>14,
     <1>15, <1>16, <1>17, <1>18, <1>19, <1>20
     DEF Next, FetchFails, MergeFails, FinalFails

-----------------------------------------------------------------------------
(* What leaves the streamer is the raster.                                  *)

\* The invariant holds before the first call.
LEMMA StreamInvInit == Init => StreamInv
<1> SUFFICES ASSUME Init
             PROVE  StreamInv
  OBVIOUS
<1>1. raster \in Rasters
  BY DEF Init
<1>2. /\ Chunks \in Nat /\ NegInf \in Int /\ PosInf \in Int /\ NumRes \in Nat
  BY CompactorAssumption, StreamerAssumption
<1>3. <<>> \in Seq(Records)
  OBVIOUS
<1>4. TypeOK
  <2>1. pending \in [Parents -> Seq(Accs)]
    BY EmptyGroup DEF Init
  <2>2. output \in Seq(Records) /\ partials \in Seq(Records) /\ delivered \in Seq(Records)
    BY <1>3 DEF Init
  <2>3. active \in [Cells -> Nat] /\ disk \in [Cells -> Nat] /\ reader \in [Cells -> Nat]
    BY DEF Init, Nothing
  <2>4. tracked \subseteq 1 .. NumRes
    BY DEF Init
  <2>5. /\ rows \in Nat /\ finalRes \in 0 .. NumRes
        /\ processed \in 0 .. Chunks /\ batchEnd \in 0 .. Chunks
        /\ todo \subseteq (1 .. Chunks) \X Cells /\ spilled \subseteq 1 .. NumRes
    BY <1>2 DEF Init
  <2>6. finishing \in BOOLEAN /\ reading \in BOOLEAN /\ flushed \in BOOLEAN
    BY DEF Init
  <2>7. /\ phase \in {"idle", "head", "limit", "flush", "fetch", "merge", "flushRes",
                      "flushAll"}
        /\ lifecycle \in {"running", "finished", "failed"}
        /\ evictionHorizon \in Int /\ currentHorizon \in Int /\ seen \in Int
        /\ compactionParent \in Parents \cup {NoParent}
    BY <1>2 DEF Init
  <2> QED BY <1>1, <2>1, <2>2, <2>3, <2>4, <2>5, <2>6, <2>7 DEF TypeOK
<1>5. OutputSound /\ OutCells = {}
  <2> DEFINE T == Totals
             f == Compactor
  <2>1. /\ f.pending = pending /\ f.output = <<>> /\ f \in Compactors
        /\ \A p \in Parents : pending[p] = <<>>
    BY <1>3, <1>4, EmptyGroup DEF Init, Compactor, Compactors, TypeOK
  <2>2. delivered = <<>> /\ partials = <<>> /\ output = <<>>
    BY DEF Init
  <2> HIDE DEF T, f
  <2>3. SoundRecords(<<>>, T) /\ SeqCells(<<>>) = {}
    BY DEF SoundRecords, SeqCells
  <2>4. SoundGroups(pending, T) /\ HeldCells(pending) = {}
    BY <2>1, EmptyGroup DEF SoundGroups, HeldCells
  <2>5. SoundCompactor(f, T)
    BY <2>1, <2>3, <2>4 DEF SoundCompactor
  <2> QED BY <1>3, <2>2, <2>3, <2>4, <2>5 DEF OutputSound, OutCells, T, f
<1>6. Progress
  <2>1. \A k \in 1 .. Chunks : North(k) <= PosInf
    BY <1>1, RasterFacts
  <2>2. processed = 0 /\ evictionHorizon = PosInf
    BY DEF Init
  <2>3. \A k \in processed + 1 .. Chunks : North(k) <= evictionHorizon
    BY <2>1, <2>2
  <2> QED BY <2>3 DEF Init, Progress
<1>7. Places
  BY <1>2 DEF Init, Places, Nothing
<1>8. Ledger
  <2>1. ASSUME NEW c \in Cells
        PROVE  InStreamer(c) = 0 /\ MergedChunks(c) = {}
    BY DEF Init, InStreamer, MergedChunks, Nothing
  <2> QED BY <1>5, <2>1, FS_EmptySet DEF Ledger, Waiting
<1> QED BY <1>4, <1>5, <1>6, <1>7, <1>8 DEF StreamInv

\* Every step keeps the invariant.
LEMMA StreamInvStep ==
  ASSUME StreamInv, Next \/ UNCHANGED vars
  PROVE  StreamInv'
<1>1. OutputSound' /\ Ledger'
  BY AccountsStep
<1>2. TypeOK /\ OutputSound /\ Progress /\ Places
  BY DEF StreamInv
<1>3. TypeOK' /\ Progress' /\ Places'
  BY <1>1, <1>2, TypeStep, ProgressStep, PlacesStep
<1> QED BY <1>1, <1>3 DEF StreamInv

\* The invariant says what leaves the streamer.
LEMMA StreamInvExact == StreamInv => StreamExact
<1> SUFFICES ASSUME StreamInv
             PROVE  StreamExact
  OBVIOUS
<1>1. TypeOK /\ OutputSound /\ Progress /\ Places /\ Ledger
  BY DEF StreamInv
<1> DEFINE T == Totals
           D == delivered
           O == output
           P == partials
           DO == D \o O
<1>2. Compactor.pending = pending /\ Compactor.output = output
  BY DEF Compactor
<1>3. /\ D \in Seq(Records) /\ O \in Seq(Records) /\ P \in Seq(Records)
      /\ SoundRecords(D, T) /\ SoundRecords(O, T) /\ SoundRecords(P, T)
      /\ SeqCells(D) \cap (SeqCells(O) \cup SeqCells(P)) = {}
      /\ SeqCells(P) \cap SeqCells(O) = {}
  BY <1>1, <1>2, CompactorFields DEF OutputSound
<1>4. Emitted = DO \o P
  BY DEF Emitted
<1>5. \A c \in Cells : T[c] = Total(c)
  BY DEF Totals
<1> HIDE DEF T, D, O, P
<1>6. /\ DO \in Seq(Records) /\ SoundRecords(DO, T)
      /\ SeqCells(DO) = SeqCells(D) \cup SeqCells(O)
  <2>1. SeqCells(D) \cap SeqCells(O) = {}
    BY <1>3
  <2> QED BY <1>3, <2>1, JoinedRecords
<1> HIDE DEF DO
<1>7. Emitted \in Seq(Records) /\ SoundRecords(Emitted, T)
  <2>1. SeqCells(DO) \cap SeqCells(P) = {}
    BY <1>3, <1>6
  <2> QED BY <1>3, <1>4, <1>6, <2>1, JoinedRecords
<1> DEFINE E == Emitted
<1>8. E \in Seq(Records) /\ SoundRecords(E, T)
  BY <1>7
<1> HIDE DEF E
<1>9. \A i \in DOMAIN E : E[i].of \in Seq(Accs) /\ SoundAccs(E[i].of, T)
  <2>1. \A i \in DOMAIN E : E[i] \in Records
    BY <1>8
  <2> QED BY <1>8, <2>1, RecordFields DEF SoundRecords
<1>10. CompleteRecords
  <2>1. ASSUME NEW i \in DOMAIN E, NEW j \in DOMAIN E[i].of
        PROVE  E[i].of[j].n = Total(E[i].of[j].cell)
    <3>1. E[i].of[j].n = T[E[i].of[j].cell]
      BY <1>9 DEF SoundAccs
    <3>2. E[i].of[j].cell \in Cells
      <4>1. E[i] \in Records
        BY <1>8
      <4> QED BY <4>1, RecordFields
    <3> QED BY <1>5, <3>1, <3>2
  <2> QED BY <2>1 DEF CompleteRecords, E
<1>11. EmittedOnce
  <2>1. \A i, j \in DOMAIN E : i # j => CellsOf(E[i]) \cap CellsOf(E[j]) = {}
    BY <1>8 DEF SoundRecords
  <2>2. ASSUME NEW i \in DOMAIN E
        PROVE  Cardinality(CellsOf(E[i])) = Len(E[i].of)
    <3> DEFINE g == E[i].of
    <3>1. g \in Seq(Accs) /\ SoundAccs(g, T)
      BY <1>9
    <3>2. CellsOf(E[i]) = GroupCells(g)
      BY DEF CellsOf, GroupCells
    <3> HIDE DEF g
    <3>3. Cardinality(GroupCells(g)) = Len(g)
      BY <3>1, GroupSize
    <3> QED BY <3>2, <3>3 DEF g
  <2> QED BY <2>1, <2>2 DEF EmittedOnce, E
<1>12. NothingLost
  <2> SUFFICES ASSUME EndOfStream, phase = "idle"
               PROVE  SeqCells(delivered) = Expected
    BY DEF NothingLost, SeqCells
  <2>1. lifecycle = "finished" /\ Buffered = 0
    BY DEF EndOfStream
  <2>2. output = <<>> /\ partials = <<>>
    BY <1>1, <2>1 DEF Buffered, TypeOK
  <2>3. \A p \in Parents : pending[p] = <<>>
    BY <1>1, <2>1 DEF Places
  <2>4. OutCells = SeqCells(delivered)
    <3>1. HeldCells(pending) = {}
      BY <2>3 DEF HeldCells, GroupCells
    <3>2. SeqCells(<<>>) = {}
      BY DEF SeqCells
    <3> QED BY <2>2, <3>1, <3>2 DEF OutCells
  <2>5. todo = {} /\ batchEnd = processed /\ processed = Chunks
    BY <1>1, <2>1 DEF Progress, Places
  <2>6. ASSUME NEW c \in Cells
        PROVE  c \in OutCells <=> c \in Expected
    <3>1. InStreamer(c) = 0
      <4>1. Res[c] <= finalRes
        BY <1>1, <2>1, StreamerAssumption DEF Places
      <4>2. active[c] = 0 /\ disk[c] = 0
        BY <1>1, <2>1, <4>1 DEF Places
      <4>3. reader[c] = 0
        BY <1>1, <2>1 DEF Places, TypeOK
      <4> QED BY <4>2, <4>3 DEF InStreamer
    <3>2. MergedChunks(c) = AllChunks(c)
      <4>1. \A k \in processed + 1 .. Chunks : c \notin Touch(k)
        BY <2>5, StreamerAssumption
      <4> QED BY <1>1, <2>5, <4>1, AllMerged
    <3>3. Total(c) = Cardinality(AllChunks(c))
      BY <1>1, TotalFacts DEF TypeOK
    <3>4. CASE Settled(c)
      BY <3>4 DEF Settled
    <3>5. CASE Waiting(c)
      BY <3>1, <3>2, <3>3, <3>5 DEF Waiting, Expected
    <3> QED BY <1>1, <2>1, <3>4, <3>5 DEF Ledger
  <2>7. Expected \subseteq Cells
    BY DEF Expected
  <2>8. SeqCells(delivered) \subseteq Cells
    <3>1. \A r \in Records : CellsOf(r) \subseteq Cells
      BY RecordFields
    <3> QED BY <1>1, <3>1 DEF SeqCells, TypeOK
  <2> QED BY <2>4, <2>6, <2>7, <2>8
<1> QED BY <1>10, <1>11, <1>12 DEF StreamExact

\* The inductive invariant holds in every reachable state.
THEOREM StreamIsAccounted == Spec => []StreamInv
<1>1. StreamInv /\ [Next]_vars => StreamInv'
  BY StreamInvStep
<1> QED BY <1>1, StreamInvInit, PTL DEF Spec

\* Each cell that passes the filter leaves the streamer once, with all its samples, by
\* itself or inside its parent, and at the end none is missing: whatever pop_completed
\* evicted early, flush_completed and the byte limit decomposed, and spill_resolution wrote.
THEOREM StreamIsExact == Spec => []StreamExact
BY StreamIsAccounted, StreamInvExact, PTL

-----------------------------------------------------------------------------
(* The published horizon.                                                   *)

\* Cells that can still come out of the streamer: they wait in a group, or have samples
\* in the maps, on disk, in the final stream or in a chunk that is not merged yet.
Coming == {c \in Cells : InStreamer(c) > 0 \/ MergedChunks(c) # AllChunks(c)}

Live == HeldCells(pending) \cup Coming

\* Neither the records of q nor what comes of the cells L lies north of h.
Below(q, L, h) == /\ \A x \in Emits(q) : South[x] <= h
                  /\ \A c \in L : South[c] <= h

\* What the horizon needs to be published: every map that has not spilled keeps its
\* eviction keys, and is empty north of the horizon when it is.
Tracking ==
    /\ ~finishing => tracked = (1 .. NumRes) \ spilled
    /\ phase \in {"flush", "fetch"} =>
          \A c \in Cells : active[c] > 0 /\ Res[c] \notin spilled => South[c] <= evictionHorizon

HorizonInv ==
    IF lifecycle = "failed"
    THEN output = <<>>
    ELSE CanEvictEarly => /\ Tracking
                          /\ Below(output, Live, currentHorizon)
                          /\ Below(output, Live, seen)

\* Groups hold streamed cells only.
LEMMA LiveAreCells ==
  ASSUME OutputSound
  PROVE  Live \subseteq Cells
<1> DEFINE T == Totals
           s == Compactor
<1>1. SoundCompactor(s, T) /\ s.pending = pending
  BY DEF OutputSound, Compactor
<1> HIDE DEF T, s
<1>2. SoundGroups(s.pending, T)
  BY <1>1, CompactorFields
<1>3. \A p \in Parents : GroupCells(pending[p]) \subseteq Cells
  BY <1>1, <1>2, ParentsOfChildren DEF SoundGroups
<1> QED BY <1>3 DEF Live, Coming, HeldCells

\* A bound stays one when nothing but live cells, or parents all of whose children are
\* live, comes out: a parent starts no further north than one of its children.
LEMMA BelowKept ==
  ASSUME NEW q, NEW q2, NEW L \in SUBSET Cells, NEW L2, NEW h \in Int, Below(q, L, h),
         L2 \subseteq L,
         Emits(q2) \subseteq Emits(q) \cup L \cup {p \in Parents : Children(p) \subseteq L}
  PROVE  Below(q2, L2, h)
<1>1. ASSUME NEW p \in Parents, Children(p) \subseteq L
      PROVE  South[p] <= h
  <2>1. PICK c \in Children(p) : South[p] <= South[c]
    BY CompactorAssumption
  <2>2. South[c] <= h /\ South[c] \in Int /\ South[p] \in Int
    BY <1>1, <2>1, CompactorAssumption DEF Below
  <2> QED BY <2>1, <2>2
<1> QED BY <1>1 DEF Below

\* Only live cells come out, and no cell comes back to life.
LEMMA LiveStep ==
  ASSUME StreamInv, Next \/ UNCHANGED vars, ~Fail
  PROVE  /\ Live' \subseteq Live
         /\ Emits(output')
              \subseteq Emits(output) \cup Live \cup {p \in Parents : Children(p) \subseteq Live}
<1> USE DEF StreamInv
<1>1. raster' = raster /\ raster \in Rasters
  BY StepCases DEF TypeOK
<1>2. \A c \in Cells : AllChunks(c)' = AllChunks(c)
  BY <1>1, RasterFixed
<1>3. CASE QuietAction
  <2>1. /\ HeldCells(pending') \subseteq HeldCells(pending)
        /\ Emits(output') \subseteq Emits(output) \cup HeldCells(pending)
    BY <1>1, <1>3, QuietOutput
  <2>2. Quiet
    BY <1>1, <1>3, QuietSteps
  <2>3. Coming' \subseteq Coming
    BY <1>2, <2>2 DEF Quiet, Coming
  <2> QED BY <2>1, <2>3 DEF Live
<1>4. CASE PopCompleted \/ ReadFinal
  <2>1. PICK c \in Cells : EmitStep(c)
    BY <1>1, <1>4, PopIsEmission, ReadIsEmission
  <2> DEFINE n == Total(c)
  <2>2. n \in Nat /\ n = Totals[c] /\ c \notin OutCells /\ EmitFinal(c, n)
    BY <1>1, <2>1, TotalFacts DEF EmitStep
  <2>3. compactionParent \in Parents \cup {NoParent}
    BY DEF TypeOK
  <2> HIDE DEF n
  <2>4. /\ HeldCells(pending') \subseteq HeldCells(pending) \cup {c}
        /\ Emits(output') \subseteq Emits(output) \cup HeldCells(pending) \cup {c} \cup
              {p \in Parents : Children(p) \subseteq HeldCells(pending) \cup {c}}
    BY <1>1, <2>2, <2>3, EmittedOutput
  <2>5. Coming' \subseteq Coming
    BY <1>2, <2>1 DEF EmitStep, Coming
  <2>6. c \in Coming
    BY <2>1 DEF EmitStep, Coming
  <2>7. HeldCells(pending) \cup {c} \subseteq Live
    BY <2>6 DEF Live
  <2>8. Live' \subseteq Live
    BY <2>4, <2>5, <2>7 DEF Live
  <2> QED BY <2>4, <2>7, <2>8
<1>5. CASE MergeCell
  <2>1. pending' = pending /\ output' = output
    BY <1>5 DEF MergeCell, outVars
  <2>2. PICK c \in Cells, k \in 1 .. Chunks : MergeStep(k, c)
    BY <1>1, <1>5, MergeIsMerge
  <2>3. c \in Coming
    BY <2>2 DEF MergeStep, Coming
  <2>4. \A d \in Cells \ {c} : d \in Coming' => d \in Coming
    BY <1>2, <2>2 DEF MergeStep, Coming
  <2>5. Coming' \subseteq Cells
    BY DEF Coming
  <2> QED BY <2>1, <2>3, <2>4, <2>5 DEF Live
<1> QED BY <1>3, <1>4, <1>5, StepCases

\* The horizon fetch_batch publishes when everything before it has been returned.
LEMMA PublishedBound ==
  ASSUME StreamInv, Tracking, phase = "fetch", Buffered = 0, spilled = {},
         NEW h \in Int, h >= evictionHorizon, h >= PendingEmitSouth(Compactor)
  PROVE  Below(output, Live, h)
<1>1. TypeOK /\ OutputSound /\ Progress /\ Places
  BY DEF StreamInv
<1>2. output = <<>>
  BY <1>1 DEF Buffered, TypeOK
<1>3. Emits(output) = {}
  BY <1>2 DEF Emits
<1>4. /\ PendingEmitSouth(Compactor) \in Int
      /\ \A c \in HeldCells(pending) : South[c] <= PendingEmitSouth(Compactor)
  <2> DEFINE s == Compactor
             T == Totals
  <2>1. SoundCompactor(s, T) /\ s.pending = pending
    BY <1>1 DEF OutputSound, Compactor
  <2> HIDE DEF s, T
  <2>2. /\ PendingEmitSouth(s) \in Int
        /\ \A c \in HeldCells(s.pending) : South[c] <= PendingEmitSouth(s)
    BY <2>1, PendingBound
  <2> QED BY <2>1, <2>2 DEF s
<1>5. evictionHorizon \in Int /\ raster \in Rasters /\ \A c \in Cells : South[c] \in Int
  BY <1>1, CompactorAssumption DEF TypeOK
<1>6. ASSUME NEW c \in Coming
      PROVE  South[c] <= evictionHorizon
  <2>1. c \in Cells
    BY DEF Coming
  <2>2. CASE InStreamer(c) > 0
    <3>1. disk[c] = 0 /\ reader[c] = 0 /\ active[c] \in Nat
      BY <1>1, <2>1 DEF Places, TypeOK
    <3>2. active[c] > 0
      BY <2>2, <3>1 DEF InStreamer
    <3> QED BY <2>1, <3>2 DEF Tracking
  <2>3. CASE MergedChunks(c) # AllChunks(c)
    <3>1. todo = {} /\ batchEnd = processed
      BY <1>1 DEF Progress
    <3>2. PICK k \in processed + 1 .. Chunks : c \in Touch(k)
      BY <1>1, <2>1, <2>3, <3>1, AllMerged
    <3>3. k \in 1 .. Chunks
      BY <1>1, StreamerAssumption DEF TypeOK
    <3>4. South[c] <= North(k) /\ North(k) \in Int
      BY <1>5, <3>2, <3>3, RasterFacts
    <3>5. North(k) <= evictionHorizon
      BY <1>1 DEF Progress
    <3> QED BY <1>5, <2>1, <3>4, <3>5
  <2> QED BY <2>2, <2>3 DEF Coming
<1>7. \A c \in Live : South[c] \in Int
  BY <1>1, <1>5, LiveAreCells
<1> QED BY <1>3, <1>4, <1>5, <1>6, <1>7 DEF Below, Live

\* Every step but a failure keeps the maps ready for the horizon.
LEMMA TrackingStep ==
  ASSUME TypeOK, Places, Tracking, CanEvictEarly, Next \/ UNCHANGED vars, ~Fail
  PROVE  Tracking'
<1>1. /\ tracked \subseteq 1 .. NumRes /\ spilled \subseteq 1 .. NumRes
      /\ \A c \in Cells : Res[c] \in 1 .. NumRes /\ South[c] \in Int
      /\ evictionHorizon \in Int
  BY CompactorAssumption, StreamerAssumption DEF TypeOK
<1>2. CASE Call
  BY <1>1, <1>2 DEF Call, callVars, streamVars, horizonVars, finalVars, outVars, Tracking
<1>3. CASE Return
  BY <1>1, <1>3 DEF Return, streamVars, finalVars, Tracking
<1>4. CASE EnforceLimit
  BY <1>1, <1>4 DEF EnforceLimit, streamVars, horizonVars, finalVars, Tracking
<1>5. CASE PopCompleted
  BY <1>1, <1>5 DEF PopCompleted, EmitFinal, horizonVars, Tracking
<1>6. CASE NothingToPop
  <2>1. ~finishing /\ tracked = (1 .. NumRes) \ spilled
    BY <1>6 DEF NothingToPop, Tracking
  <2>2. \A r \in 1 .. NumRes : Evictable(r) = {}
    BY <1>6 DEF NothingToPop
  <2>3. ASSUME NEW c \in Cells, active[c] > 0, Res[c] \notin spilled
        PROVE  South[c] <= evictionHorizon
    <3>1. c \in MapOf(Res[c]) /\ Res[c] \in tracked \ spilled /\ c \notin Evictable(Res[c])
      BY <1>1, <2>1, <2>2, <2>3 DEF MapOf
    <3> QED BY <1>1, <3>1 DEF Evictable
  <2> QED BY <2>1, <2>3, <1>6 DEF NothingToPop, Tracking, streamVars, horizonVars, finalVars
<1>7. CASE FlushCompleted
  BY <1>1, <1>7 DEF FlushCompleted, streamVars, horizonVars, finalVars, Tracking
<1>8. CASE FlushCompletedDone
  BY <1>1, <1>8 DEF FlushCompletedDone, streamVars, horizonVars, finalVars, outVars, Tracking
<1>9. CASE FetchBatch
  BY <1>1, <1>9 DEF FetchBatch, outVars, Tracking
<1>10. CASE MergeCell
  <2>1. \/ UNCHANGED <<spilled, tracked>>
        \/ \E r : spilled' = spilled \cup {r} /\ tracked' = tracked \ {r}
    BY <1>10 DEF MergeCell
  <2>2. phase' = "merge" /\ UNCHANGED finishing
    BY <1>10 DEF MergeCell, callVars, finalVars
  <2> QED BY <2>1, <2>2 DEF Tracking
<1>11. CASE BatchDone
  BY <1>1, <1>11 DEF BatchDone, finalVars, outVars, Tracking
<1>12. CASE OpenFinal
  BY <1>1, <1>12 DEF OpenFinal, callVars, horizonVars, Tracking
<1>13. CASE ReadFinal
  BY <1>1, <1>13 DEF ReadFinal, EmitFinal, horizonVars, streamVars, Tracking
<1>14. CASE Fail
  BY <1>14
<1>15. CASE CloseFinal
  BY <1>1, <1>15 DEF CloseFinal, streamVars, horizonVars, Tracking
<1>16. CASE FlushLeftover
  BY <1>1, <1>16 DEF FlushLeftover, callVars, streamVars, horizonVars, finalVars, Tracking
<1>17. CASE ResolutionDone
  BY <1>1, <1>17 DEF ResolutionDone, streamVars, horizonVars, finalVars, outVars, Tracking
<1>18. CASE StartFlushAll
  BY <1>1, <1>18 DEF StartFlushAll, streamVars, horizonVars, finalVars, Tracking
<1>19. CASE MarkFinished
  BY <1>1, <1>19 DEF MarkFinished, streamVars, horizonVars, finalVars, outVars, Tracking
<1>20. CASE Stop \/ UNCHANGED vars
  BY <1>1, <1>20 DEF Stop, vars, callVars, streamVars, horizonVars, finalVars, outVars, Tracking
<1> QED
  BY <1>2, <1>3, <1>4, <1>5, <1>6, <1>7, <1>8, <1>9, <1>10, <1>11, <1>12, <1>13, <1>14,
     <1>15, <1>16, <1>17, <1>18, <1>19, <1>20
     DEF Next, FetchFails, MergeFails, FinalFails

\* Before the first call the horizon is north of everything.
LEMMA HorizonInvInit == Init => HorizonInv
<1> SUFFICES ASSUME Init
             PROVE  HorizonInv
  OBVIOUS
<1>1. StreamInv
  BY StreamInvInit
<1>2. Emits(output) = {} /\ lifecycle # "failed" /\ currentHorizon = PosInf /\ seen = PosInf
  BY DEF Init, Emits
<1>3. \A c \in Live : South[c] <= PosInf
  <2>1. Live \subseteq Cells
    BY <1>1, LiveAreCells DEF StreamInv
  <2> QED BY <2>1, CompactorAssumption, StreamerAssumption
<1>4. CanEvictEarly => Tracking
  BY DEF Init, Tracking
<1> QED BY <1>2, <1>3, <1>4 DEF HorizonInv, Below

\* At the end of the stream nothing is live.
LEMMA FinishedIsEmpty ==
  ASSUME StreamInv, lifecycle = "finished", phase # "merge"
  PROVE  Live = {}
<1>1. TypeOK /\ Progress /\ Places
  BY DEF StreamInv
<1>2. HeldCells(pending) = {}
  BY <1>1 DEF Places, HeldCells, GroupCells
<1>3. todo = {} /\ batchEnd = processed /\ processed = Chunks
  BY <1>1 DEF Progress, Places
<1>4. ASSUME NEW c \in Cells
      PROVE  InStreamer(c) = 0 /\ MergedChunks(c) = AllChunks(c)
  <2>1. Res[c] <= finalRes
    BY <1>1, StreamerAssumption DEF Places
  <2>2. active[c] = 0 /\ disk[c] = 0 /\ reader[c] = 0
    BY <1>1, <2>1 DEF Places, TypeOK
  <2>3. \A k \in processed + 1 .. Chunks : c \notin Touch(k)
    BY <1>3, StreamerAssumption
  <2> QED BY <1>1, <1>3, <2>2, <2>3, AllMerged DEF InStreamer
<1> QED BY <1>2, <1>4 DEF Live, Coming

\* Every step keeps both horizons north of what is still to come.
LEMMA HorizonInvStep ==
  ASSUME StreamInv, HorizonInv, Next \/ UNCHANGED vars
  PROVE  HorizonInv'
<1>1. TypeOK /\ OutputSound /\ Progress /\ Places
  BY DEF StreamInv
<1>2. CASE Fail
  BY <1>2 DEF Fail, HorizonInv
<1>3. CASE ~Fail /\ lifecycle' = "failed"
  <2>1. lifecycle = "failed"
    BY <1>3 DEF Next, Call, Return, EnforceLimit, PopCompleted, NothingToPop, FlushCompleted,
         FlushCompletedDone, FetchBatch, FetchFails, MergeCell, MergeFails, BatchDone,
         OpenFinal, ReadFinal, FinalFails, CloseFinal, FlushLeftover, ResolutionDone,
         StartFlushAll, MarkFinished, Stop, EmitFinal, callVars, vars
  <2>2. phase = "idle"
    BY <1>1, <2>1 DEF Progress
  <2>3. Stop \/ UNCHANGED vars
    BY <2>1, <2>2 DEF Next, Call, Return, EnforceLimit, PopCompleted, NothingToPop,
         FlushCompleted, FlushCompletedDone, FetchBatch, FetchFails, MergeCell, MergeFails,
         BatchDone, OpenFinal, ReadFinal, FinalFails, CloseFinal, FlushLeftover,
         ResolutionDone, StartFlushAll, MarkFinished, Advancing
  <2>4. output' = output
    BY <2>3 DEF Stop, vars, outVars
  <2> QED BY <1>3, <2>1, <2>4 DEF HorizonInv
<1>4. CASE ~Fail /\ lifecycle' # "failed"
  <2>1. lifecycle # "failed"
    BY <1>4, <1>1, FailureLatched
  <2>2. raster' = raster /\ CanEvictEarly' = CanEvictEarly
    BY StepCases, RasterFixed
  <2> SUFFICES ASSUME CanEvictEarly
               PROVE  /\ Tracking'
                      /\ Below(output', Live', currentHorizon')
                      /\ Below(output', Live', seen')
    BY <1>4, <2>2 DEF HorizonInv
  <2>3. /\ Tracking
        /\ Below(output, Live, currentHorizon)
        /\ Below(output, Live, seen)
    BY <2>1 DEF HorizonInv
  <2>4. Tracking'
    BY <1>4, <1>1, <2>3, TrackingStep
  <2>5. /\ Live' \subseteq Live
        /\ Emits(output')
             \subseteq Emits(output) \cup Live \cup {p \in Parents : Children(p) \subseteq Live}
    BY <1>4, LiveStep
  <2>6. Live \subseteq Cells
    BY <1>1, LiveAreCells
  <2>7. ASSUME NEW h \in Int, Below(output, Live, h)
        PROVE  Below(output', Live', h)
    <3> DEFINE L == Live
               L2 == Live'
               q == output
               q2 == output'
    <3>1. /\ L \in SUBSET Cells /\ Below(q, L, h) /\ L2 \subseteq L
          /\ Emits(q2) \subseteq Emits(q) \cup L \cup {p \in Parents : Children(p) \subseteq L}
      BY <2>5, <2>6, <2>7
    <3> HIDE DEF L, L2, q, q2
    <3>2. Below(q2, L2, h)
      BY <3>1, BelowKept
    <3> QED BY <3>2 DEF L2, q2
  <2>8. currentHorizon \in Int /\ seen \in Int /\ NegInf \in Int /\ evictionHorizon \in Int
    BY <1>1, CompactorAssumption DEF TypeOK
  <2>9. Below(output', Live', currentHorizon) /\ Below(output', Live', seen)
    BY <2>3, <2>7, <2>8
  <2>10. CASE FetchBatch
    <3>1. seen' = seen
      BY <2>10 DEF FetchBatch
    <3>2. CASE Buffered = 0 /\ spilled = {}
      <4> DEFINE held == PendingEmitSouth(Compactor)
                 h == IF evictionHorizon >= held THEN evictionHorizon ELSE held
      <4>1. held \in Int
        BY <1>1, PendingBound DEF OutputSound
      <4>2. currentHorizon' = h
        BY <2>10, <3>2 DEF FetchBatch, PublishHorizon
      <4>3. h \in Int /\ h >= evictionHorizon /\ h >= held
        BY <2>8, <4>1
      <4> HIDE DEF h
      <4>4. Below(output, Live, h)
        BY <2>3, <2>10, <3>2, <4>3, PublishedBound DEF FetchBatch
      <4>5. Below(output', Live', h)
        BY <2>7, <4>3, <4>4
      <4> QED BY <2>4, <2>9, <3>1, <4>2, <4>5
    <3>3. CASE ~(Buffered = 0 /\ spilled = {})
      BY <2>4, <2>9, <2>10, <3>1, <3>3 DEF FetchBatch, PublishHorizon
    <3> QED BY <3>2, <3>3
  <2>11. CASE Return
    <3> DEFINE left == Len(output') + Len(partials')
               h == CurrentLatHorizon(left)
    <3>1. currentHorizon' = currentHorizon
      BY <2>11 DEF Return
    <3>2. seen' = Least(seen, h) /\ OutputSound'
      BY <1>1, <2>2, <2>11, ReturnedOutput DEF TypeOK
    <3>3. Below(output', Live', h)
      <4>1. CASE lifecycle = "finished" /\ left = 0
        <5>1. output' \in Seq(Records) /\ partials' \in Seq(Records)
          BY <1>1, <3>2, TypeStep DEF TypeOK
        <5>2. output' = <<>>
          BY <4>1, <5>1
        <5>3. Live' = {}
          BY <2>5, <2>11, <4>1, FinishedIsEmpty DEF Return
        <5> QED BY <5>2, <5>3 DEF Below, Emits
      <4>2. CASE ~(lifecycle = "finished" /\ left = 0)
        BY <2>9, <4>2 DEF CurrentLatHorizon
      <4> QED BY <4>1, <4>2
    <3>4. Below(output', Live', seen')
      BY <2>9, <3>2, <3>3 DEF Least
    <3> QED BY <2>4, <2>9, <3>1, <3>4
  <2>12. CASE ~FetchBatch /\ ~Return
    <3>1. currentHorizon' = currentHorizon /\ seen' = seen
      BY <1>4, <2>12
         DEF Next, Call, EnforceLimit, PopCompleted, NothingToPop, FlushCompleted,
             FlushCompletedDone, FetchFails, MergeCell, MergeFails, BatchDone, OpenFinal,
             ReadFinal, FinalFails, CloseFinal, FlushLeftover, ResolutionDone,
             StartFlushAll, MarkFinished, Stop, EmitFinal, horizonVars, vars
    <3> QED BY <2>4, <2>9, <3>1
  <2> QED BY <2>10, <2>11, <2>12
<1> QED BY <1>2, <1>3, <1>4

\* Where some suffix of the chunks has a northern bound, no record still to be returned
\* lies north of a horizon the caller has read: the tiler may close what is north of it,
\* through eviction, held groups, forced flushes, spills and the final stream.
THEOREM HorizonIsSound == Spec => []HorizonSound
<1>1. StreamInv /\ HorizonInv /\ [Next]_vars => HorizonInv'
  BY HorizonInvStep
<1>2. HorizonInv => HorizonSound
  BY DEF HorizonInv, HorizonSound, DeferredOutputKept, Below, Emits
<1> QED BY <1>1, <1>2, HorizonInvInit, StreamIsAccounted, PTL DEF Spec

=============================================================================
