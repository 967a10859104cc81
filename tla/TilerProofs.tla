----------------------------- MODULE TilerProofs ------------------------------
(***************************************************************************)
(* For every set of cells, every cutting into batches and every horizon    *)
(* the streamer may publish, the tiles the streaming exporter writes are   *)
(* complete, written once, and together the whole archive.                 *)
(***************************************************************************)
EXTENDS PmtilesTiler, WellFoundedInduction, TLAPS

\* The tiles features are added to, and the features of one tile.
Touched(ops) == {op[1] : op \in ops}
FeaturesAt(ops, t) == {op[2] : op \in {o \in ops : o[1] = t}}

\* Every tile touched by ops is open or written, never both and never written
\* twice, with exactly the features ops give it.
Accounted(buckets, layers, ops) ==
    /\ layers \in Seq(Range(layers))
    /\ \A t \in DOMAIN buckets : t \in Touched(ops) /\ buckets[t] = FeaturesAt(ops, t)
    /\ \A i \in DOMAIN layers : \A t \in DOMAIN layers[i] :
          /\ t \in Touched(ops) /\ layers[i][t] = FeaturesAt(ops, t)
          /\ t \notin DOMAIN buckets
          /\ \A j \in DOMAIN layers : t \in DOMAIN layers[j] => i = j
    /\ \A t \in Touched(ops) : t \in DOMAIN buckets \/ t \in TilesWritten(layers)

-----------------------------------------------------------------------------
(* Writing tiles.                                                          *)

\* One more write after a sequence of writes.
LEMMA AppendOne ==
  ASSUME NEW w, w \in Seq(Range(w)), NEW f
  PROVE  /\ w \o <<f>> \in Seq(Range(w \o <<f>>))
         /\ Len(w) \in Nat /\ DOMAIN w = 1..Len(w)
         /\ DOMAIN (w \o <<f>>) = 1..(Len(w) + 1)
         /\ \A i \in 1..Len(w) : (w \o <<f>>)[i] = w[i]
         /\ (w \o <<f>>)[Len(w) + 1] = f
<1> DEFINE S == Range(w) \cup {f}
           v == w \o <<f>>
<1>1. w \in Seq(S) /\ <<f>> \in Seq(S)
  OBVIOUS
<1>2. /\ v \in Seq(S) /\ Len(v) = Len(w) + 1
      /\ Len(w) \in Nat /\ DOMAIN w = 1..Len(w) /\ DOMAIN v = 1..(Len(w) + 1)
      /\ \A i \in 1..Len(w) : v[i] = w[i]
      /\ v[Len(w) + 1] = f
  BY <1>1
<1>3. v \in Seq(Range(v))
  BY <1>2 DEF Range
<1> QED BY <1>2, <1>3

\* What add_op leaves in the tiles: the old features and the new ones.
LEMMA AddFeatures ==
  ASSUME NEW acc0, NEW ops, NEW m
  PROVE  LET b == AddOps(acc0, ops, m).buckets
         IN  /\ DOMAIN b = DOMAIN acc0.buckets \cup Touched(ops)
             /\ \A t \in DOMAIN b :
                  b[t] = (IF t \in DOMAIN acc0.buckets THEN acc0.buckets[t] ELSE {})
                            \cup FeaturesAt(ops, t)
BY DEF AddOps, Touched, FeaturesAt

\* An empty accumulator ends up with exactly the features added to it.
LEMMA FreshFeatures ==
  ASSUME NEW ops
  PROVE  LET f == AddOps(NewAccumulator, ops, 0).buckets
         IN  /\ DOMAIN f = Touched(ops)
             /\ \A t \in Touched(ops) : f[t] = FeaturesAt(ops, t)
<1> DEFINE f == AddOps(NewAccumulator, ops, 0).buckets
<1>1. DOMAIN NewAccumulator.buckets = {}
  BY DEF NewAccumulator
<1>2. /\ DOMAIN f = DOMAIN NewAccumulator.buckets \cup Touched(ops)
      /\ \A t \in DOMAIN f :
           f[t] = (IF t \in DOMAIN NewAccumulator.buckets
                     THEN NewAccumulator.buckets[t] ELSE {}) \cup FeaturesAt(ops, t)
  BY AddFeatures
<1> HIDE DEF f
<1>3. /\ DOMAIN f = Touched(ops)
      /\ \A t \in Touched(ops) : f[t] = FeaturesAt(ops, t)
  BY <1>1, <1>2
<1> QED BY <1>3 DEF f

\* Adding features to tiles that are not written keeps every tile accounted for.
LEMMA AddKeeps ==
  ASSUME NEW acc0, NEW w, NEW ops, NEW more, NEW m,
         Accounted(acc0.buckets, w, ops),
         \A t \in Touched(more) : t \notin TilesWritten(w)
  PROVE  Accounted(AddOps(acc0, more, m).buckets, w, ops \cup more)
<1> DEFINE b == AddOps(acc0, more, m).buckets
<1>1. /\ DOMAIN b = DOMAIN acc0.buckets \cup Touched(more)
      /\ \A t \in DOMAIN b :
           b[t] = (IF t \in DOMAIN acc0.buckets THEN acc0.buckets[t] ELSE {})
                     \cup FeaturesAt(more, t)
  BY AddFeatures
<1> HIDE DEF b
<1>2. Touched(ops \cup more) = Touched(ops) \cup Touched(more)
  BY DEF Touched
<1>3. \A t : FeaturesAt(ops \cup more, t) = FeaturesAt(ops, t) \cup FeaturesAt(more, t)
  BY DEF FeaturesAt
<1>4. \A t : t \notin Touched(ops) => FeaturesAt(ops, t) = {}
  BY DEF FeaturesAt, Touched
<1>5. \A t : t \notin Touched(more) => FeaturesAt(more, t) = {}
  BY DEF FeaturesAt, Touched
<1>6. ASSUME NEW t \in DOMAIN b
      PROVE  t \in Touched(ops \cup more) /\ b[t] = FeaturesAt(ops \cup more, t)
  <2>1. CASE t \in DOMAIN acc0.buckets
    BY <1>1, <1>2, <1>3, <1>6, <2>1 DEF Accounted
  <2>2. CASE t \notin DOMAIN acc0.buckets
    <3>1. t \in Touched(more)
      BY <1>1, <1>6, <2>2
    <3>2. t \notin Touched(ops)
      BY <2>2, <3>1 DEF Accounted
    <3> QED BY <1>1, <1>2, <1>3, <1>4, <1>6, <2>2, <3>1, <3>2
  <2> QED BY <2>1, <2>2
<1>7. ASSUME NEW i \in DOMAIN w, NEW t \in DOMAIN w[i]
      PROVE  /\ t \in Touched(ops \cup more) /\ w[i][t] = FeaturesAt(ops \cup more, t)
             /\ t \notin DOMAIN b
             /\ \A j \in DOMAIN w : t \in DOMAIN w[j] => i = j
  <2>1. t \in TilesWritten(w)
    BY DEF TilesWritten
  <2>2. t \notin Touched(more)
    BY <2>1
  <2>3. /\ t \in Touched(ops) /\ w[i][t] = FeaturesAt(ops, t)
        /\ t \notin DOMAIN acc0.buckets
        /\ \A j \in DOMAIN w : t \in DOMAIN w[j] => i = j
    BY DEF Accounted
  <2> QED BY <1>1, <1>2, <1>3, <1>5, <2>2, <2>3
<1>8. \A t \in Touched(ops \cup more) : t \in DOMAIN b \/ t \in TilesWritten(w)
  BY <1>1, <1>2 DEF Accounted
<1>9. w \in Seq(Range(w))
  BY DEF Accounted
<1>10. Accounted(b, w, ops \cup more)
  BY <1>6, <1>7, <1>8, <1>9 DEF Accounted
<1> QED BY <1>10 DEF b

\* A write adds its tiles to those written.
LEMMA AppendWritten ==
  ASSUME NEW w, w \in Seq(Range(w)), NEW f
  PROVE  TilesWritten(w \o <<f>>) = TilesWritten(w) \cup DOMAIN f
<1> DEFINE v == w \o <<f>>
<1>1. /\ Len(w) \in Nat /\ DOMAIN w = 1..Len(w) /\ DOMAIN v = 1..(Len(w) + 1)
      /\ \A i \in 1..Len(w) : v[i] = w[i]
      /\ v[Len(w) + 1] = f
  BY AppendOne
<1> HIDE DEF v
<1>2. ASSUME NEW t
      PROVE  (\E i \in DOMAIN v : t \in DOMAIN v[i])
                <=> ((\E i \in DOMAIN w : t \in DOMAIN w[i]) \/ t \in DOMAIN f)
  BY <1>1
<1>3. TilesWritten(v) = TilesWritten(w) \cup DOMAIN f
  BY <1>2 DEF TilesWritten
<1> QED BY <1>3 DEF v

\* A write of complete tiles that were not written before keeps the account.
LEMMA AppendKeeps ==
  ASSUME NEW c, NEW w, NEW ops, NEW f,
         w \in Seq(Range(w)),
         \A t \in DOMAIN c : t \in Touched(ops) /\ c[t] = FeaturesAt(ops, t),
         \A i \in DOMAIN w : \A t \in DOMAIN w[i] :
            /\ t \in Touched(ops) /\ w[i][t] = FeaturesAt(ops, t)
            /\ t \notin DOMAIN c /\ t \notin DOMAIN f
            /\ \A j \in DOMAIN w : t \in DOMAIN w[j] => i = j,
         \A t \in DOMAIN f : /\ t \in Touched(ops) /\ f[t] = FeaturesAt(ops, t)
                             /\ t \notin DOMAIN c,
         \A t \in Touched(ops) : \/ t \in DOMAIN c \/ t \in DOMAIN f
                                 \/ t \in TilesWritten(w)
  PROVE  Accounted(c, w \o <<f>>, ops)
<1> DEFINE v == w \o <<f>>
<1>1. /\ v \in Seq(Range(v))
      /\ Len(w) \in Nat /\ DOMAIN w = 1..Len(w) /\ DOMAIN v = 1..(Len(w) + 1)
      /\ \A i \in 1..Len(w) : v[i] = w[i]
      /\ v[Len(w) + 1] = f
  BY AppendOne
<1>2. TilesWritten(v) = TilesWritten(w) \cup DOMAIN f
  BY AppendWritten
<1> HIDE DEF v
<1>3. ASSUME NEW i \in DOMAIN v, NEW t \in DOMAIN v[i]
      PROVE  /\ t \in Touched(ops) /\ v[i][t] = FeaturesAt(ops, t)
             /\ t \notin DOMAIN c
             /\ \A j \in DOMAIN v : t \in DOMAIN v[j] => i = j
  <2>1. CASE i \in DOMAIN w
    <3>1. v[i] = w[i]
      BY <1>1, <2>1
    <3>2. /\ t \in Touched(ops) /\ w[i][t] = FeaturesAt(ops, t)
          /\ t \notin DOMAIN c /\ t \notin DOMAIN f
          /\ \A j \in DOMAIN w : t \in DOMAIN w[j] => i = j
      BY <1>3, <2>1, <3>1
    <3>3. ASSUME NEW j \in DOMAIN v, t \in DOMAIN v[j]
          PROVE  i = j
      <4>1. j # Len(w) + 1
        BY <1>1, <3>2, <3>3
      <4>2. j \in DOMAIN w /\ v[j] = w[j]
        BY <1>1, <3>3, <4>1
      <4> QED BY <3>2, <3>3, <4>2
    <3> QED BY <3>1, <3>2, <3>3
  <2>2. CASE i = Len(w) + 1
    <3>1. v[i] = f
      BY <1>1, <2>2
    <3>2. t \in Touched(ops) /\ f[t] = FeaturesAt(ops, t) /\ t \notin DOMAIN c
      BY <1>3, <3>1
    <3>3. ASSUME NEW j \in DOMAIN v, t \in DOMAIN v[j]
          PROVE  i = j
      <4>1. j \notin DOMAIN w
        BY <1>1, <1>3, <3>1, <3>3
      <4> QED BY <1>1, <2>2, <3>3, <4>1
    <3> QED BY <3>1, <3>2, <3>3
  <2> QED BY <1>1, <1>3, <2>1, <2>2
<1>4. Accounted(c, v, ops)
  BY <1>1, <1>2, <1>3 DEF Accounted
<1> QED BY <1>4 DEF v

\* evict_and_write_tiles adds the ready tiles, also when there are none.
LEMMA WriteAdds ==
  ASSUME NEW b, NEW w, w \in Seq(Range(w)), NEW T
  PROVE  TilesWritten(w \o Layers(T, b)) = TilesWritten(w) \cup T
<1>1. CASE T = {}
  <2>1. w \o Layers(T, b) = w
    BY <1>1 DEF Layers
  <2> QED BY <1>1, <2>1
<1>2. CASE T # {}
  <2> DEFINE f == Restrict(b, T)
  <2>1. Layers(T, b) = <<f>> /\ DOMAIN f = T
    BY <1>2 DEF Layers, Restrict
  <2> HIDE DEF f
  <2> QED BY <2>1, AppendWritten
<1> QED BY <1>1, <1>2

\* Moving open tiles to the writer keeps every tile accounted for.
LEMMA WriteKeeps ==
  ASSUME NEW b, NEW w, NEW ops, Accounted(b, w, ops), NEW T \in SUBSET DOMAIN b
  PROVE  Accounted(Restrict(b, DOMAIN b \ T), w \o Layers(T, b), ops)
<1> DEFINE c == Restrict(b, DOMAIN b \ T)
           f == Restrict(b, T)
<1>1. w \in Seq(Range(w))
  BY DEF Accounted
<1>2. /\ DOMAIN c = DOMAIN b \ T /\ \A t \in DOMAIN c : c[t] = b[t]
      /\ DOMAIN f = T /\ \A t \in T : f[t] = b[t]
  BY DEF Restrict
<1> HIDE DEF c, f
<1>3. CASE T = {}
  <2>1. w \o Layers(T, b) = w
    BY <1>1, <1>3 DEF Layers
  <2>2. Accounted(c, w, ops)
    BY <1>2, <1>3 DEF Accounted
  <2> QED BY <1>3, <2>1, <2>2 DEF c
<1>4. CASE T # {}
  <2>1. Layers(T, b) = <<f>>
    BY <1>4 DEF Layers, f
  <2>2. \A t \in DOMAIN c : t \in Touched(ops) /\ c[t] = FeaturesAt(ops, t)
    BY <1>2 DEF Accounted
  <2>3. \A i \in DOMAIN w : \A t \in DOMAIN w[i] :
            /\ t \in Touched(ops) /\ w[i][t] = FeaturesAt(ops, t)
            /\ t \notin DOMAIN c /\ t \notin DOMAIN f
            /\ \A j \in DOMAIN w : t \in DOMAIN w[j] => i = j
    BY <1>2 DEF Accounted
  <2>4. \A t \in DOMAIN f : /\ t \in Touched(ops) /\ f[t] = FeaturesAt(ops, t)
                            /\ t \notin DOMAIN c
    BY <1>2 DEF Accounted
  <2>5. \A t \in Touched(ops) : \/ t \in DOMAIN c \/ t \in DOMAIN f
                                \/ t \in TilesWritten(w)
    BY <1>2 DEF Accounted
  <2>6. Accounted(c, w \o <<f>>, ops)
    BY <1>1, <2>2, <2>3, <2>4, <2>5, AppendKeeps
  <2> QED BY <2>1, <2>6 DEF c
<1> QED BY <1>3, <1>4

\* Tiles of their own, filled aside and flushed, are accounted for as well.
LEMMA OverviewKeeps ==
  ASSUME NEW b, NEW w, NEW ops, NEW more, Accounted(b, w, ops),
         \A t \in Touched(more) : t \notin Touched(ops)
  PROVE  Accounted(b, w \o FlushAll(AddOps(NewAccumulator, more, 0)), ops \cup more)
<1> DEFINE f == AddOps(NewAccumulator, more, 0).buckets
           all == ops \cup more
<1>1. /\ DOMAIN f = Touched(more)
      /\ \A t \in Touched(more) : f[t] = FeaturesAt(more, t)
  BY FreshFeatures
<1> HIDE DEF f
<1>2. Touched(all) = Touched(ops) \cup Touched(more)
  BY DEF Touched
<1>3. \A t \in Touched(more) : FeaturesAt(all, t) = FeaturesAt(more, t)
  BY DEF FeaturesAt, Touched
<1>4. \A t \in Touched(ops) : FeaturesAt(all, t) = FeaturesAt(ops, t)
  BY DEF FeaturesAt, Touched
<1> HIDE DEF all
<1>5. w \in Seq(Range(w))
  BY DEF Accounted
<1>6. \A t \in DOMAIN b : t \in Touched(all) /\ b[t] = FeaturesAt(all, t)
  BY <1>2, <1>4 DEF Accounted
<1>7. \A i \in DOMAIN w : \A t \in DOMAIN w[i] :
          /\ t \in Touched(all) /\ w[i][t] = FeaturesAt(all, t)
          /\ t \notin DOMAIN b /\ t \notin DOMAIN f
          /\ \A j \in DOMAIN w : t \in DOMAIN w[j] => i = j
  BY <1>1, <1>2, <1>4 DEF Accounted
<1>8. CASE Touched(more) = {}
  <2>1. w \o Layers(DOMAIN f, f) = w
    BY <1>1, <1>5, <1>8 DEF Layers
  <2>2. \A t \in Touched(all) : t \in DOMAIN b \/ t \in TilesWritten(w)
    BY <1>2, <1>8 DEF Accounted
  <2>3. Accounted(b, w, all)
    BY <1>5, <1>6, <1>7, <2>2 DEF Accounted
  <2> QED BY <2>1, <2>3 DEF all, f, FlushAll
<1>9. CASE Touched(more) # {}
  <2> DEFINE g == Restrict(f, DOMAIN f)
  <2>1. Layers(DOMAIN f, f) = <<g>>
    BY <1>1, <1>9 DEF Layers
  <2>2. DOMAIN g = DOMAIN f /\ \A t \in DOMAIN f : g[t] = f[t]
    BY DEF Restrict
  <2> HIDE DEF g
  <2>3. \A t \in DOMAIN g : /\ t \in Touched(all) /\ g[t] = FeaturesAt(all, t)
                            /\ t \notin DOMAIN b
    BY <1>1, <1>2, <1>3, <2>2 DEF Accounted
  <2>4. \A t \in Touched(all) : \/ t \in DOMAIN b \/ t \in DOMAIN g
                                \/ t \in TilesWritten(w)
    BY <1>1, <1>2, <2>2 DEF Accounted
  <2>5. \A i \in DOMAIN w : \A t \in DOMAIN w[i] :
          /\ t \in Touched(all) /\ w[i][t] = FeaturesAt(all, t)
          /\ t \notin DOMAIN b /\ t \notin DOMAIN g
          /\ \A j \in DOMAIN w : t \in DOMAIN w[j] => i = j
    BY <1>7, <2>2
  <2>6. Accounted(b, w \o <<g>>, all)
    BY <1>5, <1>6, <2>3, <2>4, <2>5, AppendKeeps
  <2> QED BY <2>1, <2>6 DEF all, f, FlushAll
<1> QED BY <1>8, <1>9

\* Written tiles that no further feature belongs to are complete.
LEMMA AccountedIsNotTorn ==
  ASSUME NEW b, NEW w, NEW ops, NEW all, Accounted(b, w, ops), ops \subseteq all,
         \A op \in all \ ops : op[1] \notin TilesWritten(w)
  PROVE  NoneTorn(w, all)
<1> DEFINE g == AddOps(NewAccumulator, all, 0).buckets
<1>1. /\ DOMAIN g = Touched(all)
      /\ \A t \in Touched(all) : g[t] = FeaturesAt(all, t)
  BY FreshFeatures
<1> HIDE DEF g
<1>2. ASSUME NEW i \in DOMAIN w, NEW t \in DOMAIN w[i]
      PROVE  /\ t \in DOMAIN g /\ w[i][t] = g[t]
             /\ \A j \in DOMAIN w : t \in DOMAIN w[j] => i = j
  <2>1. t \in TilesWritten(w)
    BY DEF TilesWritten
  <2>2. /\ t \in Touched(ops) /\ w[i][t] = FeaturesAt(ops, t)
        /\ \A j \in DOMAIN w : t \in DOMAIN w[j] => i = j
    BY DEF Accounted
  <2>3. t \in Touched(all)
    BY <2>2 DEF Touched
  <2>4. FeaturesAt(all, t) = FeaturesAt(ops, t)
    BY <2>1 DEF FeaturesAt
  <2> QED BY <1>1, <2>2, <2>3, <2>4
<1> QED BY <1>2 DEF NoneTorn, g

\* With no tile left open, what is written is the whole.
LEMMA AccountedIsWhole ==
  ASSUME NEW b, NEW w, NEW ops, Accounted(b, w, ops), DOMAIN b = {}
  PROVE  Whole(w, ops)
<1>1. NoneTorn(w, ops)
  BY AccountedIsNotTorn
<1>2. {op[1] : op \in ops} \subseteq TilesWritten(w)
  BY DEF Accounted, Touched
<1> QED BY <1>1, <1>2 DEF Whole

-----------------------------------------------------------------------------
(* The tiles of cells and of parents.                                      *)

\* A bounded set of numbers has a greatest one.
LEMMA HasGreatest ==
  ASSUME NEW S \in SUBSET Nat, S # {}, NEW top \in Nat, \A x \in S : x <= top
  PROVE  \E m \in S : \A x \in S : m >= x
<1> DEFINE D == {n \in Nat : \E x \in S : n = top - x}
           less == OpToRel(<, Nat)
<1>1. D \in SUBSET Nat /\ D # {}
  <2>1. PICK x \in S : TRUE
    OBVIOUS
  <2>2. top - x \in D
    BY <2>1
  <2> QED BY <2>2
<1>2. PICK n \in D : \A d \in D : <<d, n>> \notin less
  <2>1. IsWellFoundedOn(less, Nat)
    BY NatLessThanWellFounded
  <2> HIDE DEF less, D
  <2> QED BY <1>1, <2>1, WFMin
<1>3. \A d \in D : ~(d < n)
  <2> TAKE d \in D
  <2>1. <<d, n>> \in less <=> d < n
    BY DEF OpToRel
  <2> QED BY <1>2, <2>1
<1>4. PICK m \in S : n = top - m
  BY <1>2
<1>5. ASSUME NEW x \in S
      PROVE  m >= x
  <2>1. top - x \in D
    BY <1>5
  <2>2. ~(top - x < n)
    BY <1>3, <2>1
  <2> QED BY <1>4, <2>2
<1> QED BY <1>5

\* A set of numbers has a least one.
LEMMA HasLeast ==
  ASSUME NEW S \in SUBSET Nat, S # {}
  PROVE  \E m \in S : \A x \in S : m <= x
<1> DEFINE less == OpToRel(<, Nat)
<1>1. PICK n \in S : \A d \in S : <<d, n>> \notin less
  <2>1. IsWellFoundedOn(less, Nat)
    BY NatLessThanWellFounded
  <2> HIDE DEF less
  <2> QED BY <2>1, WFMin
<1>2. \A d \in S : ~(d < n)
  <2> TAKE d \in S
  <2>1. <<d, n>> \in less <=> d < n
    BY DEF OpToRel
  <2> QED BY <1>1, <2>1
<1> QED BY <1>2

\* The coarsest requested resolution.
LEMMA MinResFacts ==
  /\ MinRes \in Resolutions
  /\ \A r \in Resolutions : r \in Int /\ MinRes <= r
<1>1. Resolutions \in SUBSET Nat /\ Resolutions # {}
  BY TilerAssumption DEF MaxRes
<1>2. \E m \in Resolutions : \A x \in Resolutions : m <= x
  BY <1>1, HasLeast
<1>3. MinRes \in Resolutions /\ \A r \in Resolutions : MinRes <= r
  BY <1>2 DEF MinRes, Min
<1> QED BY <1>1, <1>3

\* What is assumed of a requested resolution.
LEMMA RadiusFacts ==
  ASSUME NEW r \in Resolutions
  PROVE  /\ MaxRadius[r] \in Nat /\ MaxRadius[r] <= PosInf
         /\ \A z \in DrawnZooms(r, MinRes) : RowHeight[z] \in Nat \ {0}
<1>1. MaxRadius[r] \in 0..PosInf
  BY TilerAssumption
<1>2. \A z \in DrawnZooms(r, MinRes) : RowHeight[z] \in Nat \ {0}
  BY TilerAssumption
<1> QED BY <1>1, <1>2 DEF PosInf

\* What is assumed of a cell.
LEMMA CellFacts ==
  ASSUME NEW c \in Cells
  PROVE  /\ Res[c] \in Resolutions /\ South[c] \in Int /\ North[c] \in Int
         /\ North[c] - South[c] <= 2 * MaxRadius[Res[c]]
BY TilerAssumption

\* The safety margin is at least two and a half of every resolution's radii.
LEMMA MarginFacts ==
  Margin2 \in Nat /\ \A r \in Resolutions : Margin2 >= 5 * MaxRadius[r]
<1> DEFINE S == {SafetyMargin2(r) : r \in Resolutions}
           top == 5 * PosInf
<1>1. top \in Nat
  BY DEF PosInf
<1>2. \A r \in Resolutions : MaxRadius[r] \in Nat /\ MaxRadius[r] <= PosInf
  BY RadiusFacts
<1>3. \A r \in Resolutions : SafetyMargin2(r) \in Nat /\ SafetyMargin2(r) <= top
  BY <1>2 DEF SafetyMargin2, PosInf
<1>4. S \in SUBSET Nat /\ S # {} /\ \A x \in S : x <= top
  <2> HIDE DEF top
  <2> QED BY <1>3, MinResFacts
<1>5. \E m \in S : \A x \in S : m >= x
  <2> HIDE DEF S, top
  <2> QED BY <1>1, <1>4, HasGreatest
<1>6. Max(S) \in S /\ \A x \in S : Max(S) >= x
  BY <1>5 DEF Max
<1> QED BY <1>4, <1>6 DEF Margin2, SafetyMargin2

\* A row that starts no later than a latitude begins south of it.
LEMMA RowBound ==
  ASSUME NEW n \in Int, NEW h \in Nat \ {0}, NEW row \in Int, row <= n \div h
  PROVE  row * h <= n
<1>1. PICK q \in Int : q = n \div h
  OBVIOUS
<1>2. q * h <= n
  BY <1>1
<1>3. row * h <= q * h
  BY <1>1
<1> QED BY <1>2, <1>3

\* The heart of the argument: a tile of a cell south of the horizon is not
\* evictable at that horizon, since the margin exceeds the cell's height.
LEMMA SafeMargin ==
  ASSUME NEW c \in Cells, NEW z \in DrawnZooms(Res[c], MinRes), NEW row \in Int,
         row <= North[c] \div RowHeight[z], NEW h \in Int, South[c] <= h
  PROVE  2 * row * RowHeight[z] - Margin2 <= 2 * h
<1> DEFINE H == RowHeight[z]
           rad == MaxRadius[Res[c]]
<1>1. /\ H \in Nat \ {0} /\ rad \in Nat
      /\ South[c] \in Int /\ North[c] \in Int
      /\ North[c] - South[c] <= 2 * rad
  BY CellFacts, RadiusFacts
<1>2. Margin2 \in Nat /\ Margin2 >= 5 * rad
  BY MarginFacts, CellFacts
<1> HIDE DEF H, rad
<1>3. row * H <= North[c]
  BY <1>1, RowBound DEF H
<1>4. 2 * row * H = 2 * (row * H) /\ row * H \in Int
  BY <1>1
<1>5. 2 * row * H - Margin2 <= 2 * h
  BY <1>1, <1>2, <1>3, <1>4
<1> QED BY <1>5 DEF H

\* The features of two sets of cells.
LEMMA CellOpsUnion ==
  ASSUME NEW A, NEW B
  PROVE  CellOps(A \cup B) = CellOps(A) \cup CellOps(B)
BY DEF CellOps

\* A tile that is drawn on has a cell that is drawn on it, at its zoom and row.
LEMMA CellTile ==
  ASSUME NEW A \in SUBSET Cells, NEW t \in Touched(CellOps(A))
  PROVE  \E c \in A : \E z \in DrawnZooms(Res[c], MinRes) : \E row \in Int :
            t = <<z, row>> /\ row <= North[c] \div RowHeight[z]
<1>1. PICK op \in CellOps(A) : t = op[1]
  BY DEF Touched
<1>2. PICK c \in A : op \in {<<u, [cell |-> c, of |-> {c}]>> :
              u \in UNION {RowsOf(South[c], North[c], z) :
                             z \in DrawnZooms(Res[c], MinRes)}}
  BY <1>1 DEF CellOps
<1>3. PICK z \in DrawnZooms(Res[c], MinRes) : t \in RowsOf(South[c], North[c], z)
  BY <1>1, <1>2
<1>4. PICK row \in (South[c] \div RowHeight[z])..(North[c] \div RowHeight[z]) :
         t = <<z, row>>
  BY <1>3 DEF RowsOf
<1>5. row \in Int /\ row <= North[c] \div RowHeight[z]
  BY <1>4
<1> QED BY <1>3, <1>4, <1>5

\* h3_res_for_zoom yields a resolution.
LEMMA ZoomRes == \A z : h3_res_for_zoom(z) \in 0..15
BY DEF h3_res_for_zoom

\* Records are drawn at the zooms of the requested resolutions only.
LEMMA CellZoom ==
  ASSUME NEW A \in SUBSET Cells, NEW t \in Touched(CellOps(A))
  PROVE  h3_res_for_zoom(t[1]) >= MinRes
<1>1. PICK c \in A : \E z \in DrawnZooms(Res[c], MinRes) : \E row \in Int :
                        t = <<z, row>> /\ row <= North[c] \div RowHeight[z]
  BY CellTile
<1>2. PICK z \in DrawnZooms(Res[c], MinRes) : t[1] = z
  BY <1>1
<1>3. h3_res_for_zoom(z) >= Res[c]
  BY <1>2 DEF DrawnZooms
<1>4. MinRes \in Int /\ Res[c] \in Int /\ MinRes <= Res[c]
  <2>1. Res[c] \in Resolutions
    BY CellFacts
  <2> QED BY <2>1, MinResFacts
<1>5. h3_res_for_zoom(z) \in Int
  BY ZoomRes
<1> QED BY <1>2, <1>3, <1>4, <1>5

\* The parents of cells of the coarsest requested resolution.
Keys(cells) ==
    {<<r, Parent[c][r]>> : c \in {x \in cells : Res[x] = MinRes},
                           r \in CoarseResolutions(MinRes)}

\* The overview holds every parent of the cells, with its children among them.
Merged(ps, cells) ==
    /\ DOMAIN ps = Keys(cells)
    /\ \A k \in Keys(cells) :
          ps[k] = {c \in cells : Res[c] = MinRes /\ Parent[c][k[1]] = k[2]}

\* Parents are drawn at the coarser zooms only: the overview shares no tile.
LEMMA OverviewZoom ==
  ASSUME NEW ps, NEW cells, DOMAIN ps = Keys(cells), NEW t \in Touched(OverviewOps(ps))
  PROVE  ~(h3_res_for_zoom(t[1]) >= MinRes)
<1>1. PICK k \in DOMAIN ps : t \in ParentTiles(k)
  BY DEF Touched, OverviewOps
<1>2. PICK z \in {y \in zooms_for_h3_res(MinRes, MinRes) : h3_res_for_zoom(y) = k[1]} :
         t \in RowsOf(South[k[2]], North[k[2]], z)
  BY <1>1 DEF ParentTiles
<1>3. t[1] = z
  BY <1>2 DEF RowsOf
<1>4. PICK r \in CoarseResolutions(MinRes) : k[1] = r
  BY <1>1 DEF Keys
<1>5. r < MinRes /\ h3_res_for_zoom(z) = r
  BY <1>2, <1>4 DEF CoarseResolutions
<1>6. MinRes \in Int /\ r \in Int
  BY <1>5, MinResFacts, ZoomRes
<1> QED BY <1>3, <1>5, <1>6

\* Overview::push of one more batch.
LEMMA PushKeeps ==
  ASSUME NEW ps, NEW got, NEW cells, Merged(ps, got)
  PROVE  Merged(PushParents(ps, cells), got \cup cells)
<1> DEFINE qs == PushParents(ps, cells)
           kids(A, k) == {c \in A : Res[c] = MinRes /\ Parent[c][k[1]] = k[2]}
<1>1. /\ DOMAIN qs = DOMAIN ps \cup Keys(cells)
      /\ \A k \in DOMAIN qs :
            qs[k] = (IF k \in DOMAIN ps THEN ps[k] ELSE {}) \cup kids(cells, k)
  BY DEF PushParents, Keys
<1> HIDE DEF qs
<1>2. Keys(got \cup cells) = Keys(got) \cup Keys(cells)
  BY DEF Keys
<1>3. ASSUME NEW k \in Keys(cells), k \notin Keys(got)
      PROVE  kids(got, k) = {}
  <2>1. PICK r \in CoarseResolutions(MinRes), d \in cells : k = <<r, Parent[d][r]>>
    BY <1>3 DEF Keys
  <2>2. ASSUME NEW c \in kids(got, k)
        PROVE  FALSE
    <3>1. <<r, Parent[c][r]>> \in Keys(got)
      BY <2>2 DEF Keys
    <3>2. k = <<r, Parent[c][r]>>
      BY <2>1, <2>2
    <3> QED BY <1>3, <3>1, <3>2
  <2> QED BY <2>2
<1>4. ASSUME NEW k \in Keys(got \cup cells)
      PROVE  qs[k] = kids(got \cup cells, k)
  <2>1. kids(got \cup cells, k) = kids(got, k) \cup kids(cells, k)
    OBVIOUS
  <2>2. CASE k \in Keys(got)
    BY <1>1, <2>1, <2>2 DEF Merged
  <2>3. CASE k \notin Keys(got)
    <3>1. k \in Keys(cells) /\ k \notin DOMAIN ps /\ k \in DOMAIN qs
      BY <1>1, <1>2, <1>4, <2>3 DEF Merged
    <3>2. kids(got, k) = {}
      BY <1>3, <2>3, <3>1
    <3>3. qs[k] = {} \cup kids(cells, k)
      BY <1>1, <3>1
    <3> HIDE DEF kids
    <3> QED BY <2>1, <3>2, <3>3
  <2> QED BY <2>2, <2>3
<1>5. Merged(qs, got \cup cells)
  BY <1>1, <1>2, <1>4 DEF Merged
<1> QED BY <1>5 DEF qs

\* Batch by batch the overview becomes what one push of all cells gives.
LEMMA MergedOnce ==
  ASSUME NEW ps, NEW cells, Merged(ps, cells)
  PROVE  OverviewOps(ps) = OverviewOps(PushParents(<<>>, cells))
<1> DEFINE qs == PushParents(<<>>, cells)
<1>1. Merged(<<>>, {})
  BY DEF Merged, Keys
<1>2. Merged(qs, {} \cup cells)
  BY <1>1, PushKeeps
<1>3. {} \cup cells = cells
  OBVIOUS
<1>4. Merged(qs, cells)
  BY <1>2, <1>3
<1> HIDE DEF qs
<1>5. DOMAIN ps = DOMAIN qs /\ \A k \in DOMAIN ps : ps[k] = qs[k]
  BY <1>4 DEF Merged
<1>6. OverviewOps(ps) = OverviewOps(qs)
  BY <1>5 DEF OverviewOps
<1> QED BY <1>6 DEF qs

-----------------------------------------------------------------------------
(* The invariant.                                                          *)

\* What goes through the channel.
Batches == [cells : SUBSET Cells, horizon : Int]

\* The cells still to be added to tiles: not drained yet, or in a batch.
Left(pend, flight) == pend \cup UNION {flight[i].cells : i \in DOMAIN flight}

\* No cell comes twice, and none reaches north of an earlier batch's horizon.
Ordered(pend, flight) ==
    \A i \in DOMAIN flight :
       /\ \A c \in pend : c \notin flight[i].cells /\ South[c] <= flight[i].horizon
       /\ \A j \in DOMAIN flight : i < j =>
             \A c \in flight[j].cells :
                c \notin flight[i].cells /\ South[c] <= flight[i].horizon

\* While batches are delivered: the tiles account for what has been received,
\* and no written tile belongs to a cell that is left.
Delivered(pend, flight, a, ps, w) ==
    /\ Ordered(pend, flight)
    /\ Accounted(a.buckets, w, CellOps(Cells \ Left(pend, flight)))
    /\ Merged(ps, Cells \ Left(pend, flight))
    /\ \A e \in a.evictions : e.safe2 = 2 * e.tile[2] * RowHeight[e.tile[1]] - Margin2
    /\ \A t \in TilesWritten(w) : t \notin Touched(CellOps(Left(pend, flight)))

\* The types of the threads and of the channel.
TilerTypes ==
    /\ pending \in SUBSET Cells
    /\ producer \in {"none", "drain", "send", "ok", "failed"}
    /\ outgoing \in Seq(Batches) /\ channel \in Seq(Batches)
    /\ receiver \in BOOLEAN
    /\ pc \in {"start", "recv", "dropping", "join", "overview", "flush", "finish",
               "done", "failed"}

\* What each side may rely on of the other.
Control ==
    /\ producer # "send" => outgoing = <<>>
    /\ pc = "start" => producer = "none"
    /\ pc \in {"start", "recv"} => receiver
    /\ pc \in {"join", "overview", "flush", "finish", "done"} =>
          channel = <<>> /\ ProducerEnded
    /\ pc \in {"overview", "flush", "finish", "done"} => producer = "ok"
    /\ pc \in {"recv", "join", "overview", "flush", "finish", "done"} /\ producer = "ok"
          => pending = {}

\* What has become of the tiles, by the exporter's control state.
Tiles ==
    /\ pc \in {"start", "recv", "join", "overview"} =>
          Delivered(pending, channel \o outgoing, acc, parents, written)
    /\ pc = "flush" => Accounted(acc.buckets, written, AllOps)
    /\ pc \in {"finish", "done"} => Whole(written, AllOps)
    /\ NoneTorn(written, AllOps)
    /\ output = {} \/ (pc = "done" /\ output = {written})

\* The inductive invariant.
TilerInv == TilerTypes /\ Control /\ Tiles

-----------------------------------------------------------------------------
(* The steps on what is delivered.                                         *)

\* What is left is cells.
LEMMA LeftCells ==
  ASSUME NEW pend \in SUBSET Cells, NEW flight \in Seq(Batches)
  PROVE  /\ \A i \in DOMAIN flight : flight[i].cells \in SUBSET Cells
         /\ Left(pend, flight) \in SUBSET Cells
<1>1. ASSUME NEW i \in DOMAIN flight
      PROVE  flight[i].cells \in SUBSET Cells
  <2>1. flight[i] \in Batches
    BY <1>1
  <2> QED BY <2>1 DEF Batches
<1> QED BY <1>1 DEF Left

\* A batch that leaves the streamer with its horizon disturbs nothing.
LEMMA DrainDelivers ==
  ASSUME NEW pend \in SUBSET Cells, NEW flight \in Seq(Batches), NEW a, NEW ps, NEW w,
         Delivered(pend, flight, a, ps, w),
         NEW cells \in SUBSET pend, NEW h \in Int, \A c \in pend \ cells : South[c] <= h
  PROVE  Delivered(pend \ cells, flight \o <<[cells |-> cells, horizon |-> h]>>, a, ps, w)
<1> DEFINE b == [cells |-> cells, horizon |-> h]
           f == flight \o <<b>>
<1>1. b \in Batches /\ b.cells = cells /\ b.horizon = h
  BY DEF Batches
<1> HIDE DEF b
<1>2. /\ Len(flight) \in Nat /\ DOMAIN flight = 1..Len(flight)
      /\ DOMAIN f = 1..(Len(flight) + 1)
      /\ \A i \in 1..Len(flight) : f[i] = flight[i]
      /\ f[Len(flight) + 1] = b
  BY <1>1
<1> HIDE DEF f
<1>3. Left(pend \ cells, f) = Left(pend, flight)
  <2>1. ASSUME NEW c
        PROVE  (\E i \in DOMAIN f : c \in f[i].cells)
                  <=> ((\E i \in DOMAIN flight : c \in flight[i].cells) \/ c \in cells)
    BY <1>1, <1>2
  <2> QED BY <2>1 DEF Left
<1>4. Ordered(pend \ cells, f)
  <2> SUFFICES ASSUME NEW i \in DOMAIN f
               PROVE  /\ \A c \in pend \ cells :
                           c \notin f[i].cells /\ South[c] <= f[i].horizon
                      /\ \A j \in DOMAIN f : i < j => \A c \in f[j].cells :
                           c \notin f[i].cells /\ South[c] <= f[i].horizon
    BY DEF Ordered
  <2>1. CASE i = Len(flight) + 1
    BY <1>1, <1>2, <2>1
  <2>2. CASE i \in DOMAIN flight
    <3>1. /\ f[i] = flight[i]
          /\ \A c \in pend : c \notin flight[i].cells /\ South[c] <= flight[i].horizon
          /\ \A j \in DOMAIN flight : i < j => \A c \in flight[j].cells :
                 c \notin flight[i].cells /\ South[c] <= flight[i].horizon
      BY <1>2, <2>2 DEF Delivered, Ordered
    <3>2. ASSUME NEW j \in DOMAIN f, i < j, NEW c \in f[j].cells
          PROVE  c \notin f[i].cells /\ South[c] <= f[i].horizon
      <4>1. CASE j = Len(flight) + 1
        BY <1>1, <1>2, <3>1, <3>2, <4>1
      <4>2. CASE j \in DOMAIN flight
        BY <1>2, <3>1, <3>2, <4>2
      <4> QED BY <1>2, <4>1, <4>2
    <3> QED BY <3>1, <3>2
  <2> QED BY <1>2, <2>1, <2>2
<1>5. Delivered(pend \ cells, f, a, ps, w)
  BY <1>3, <1>4 DEF Delivered
<1> QED BY <1>5 DEF f, b

\* Every eviction entry carries its tile and the margin.
LEMMA AddEvictions ==
  ASSUME NEW a, NEW ops,
         \A e \in a.evictions : e.safe2 = 2 * e.tile[2] * RowHeight[e.tile[1]] - Margin2
  PROVE  \A e \in AddOps(a, ops, Margin2).evictions :
            e.safe2 = 2 * e.tile[2] * RowHeight[e.tile[1]] - Margin2
<1> DEFINE new == {op[1] : op \in ops} \ DOMAIN a.buckets
           v == AddOps(a, ops, Margin2).evictions
<1>1. v = a.evictions \cup
            {[tile |-> t, safe2 |-> 2 * t[2] * RowHeight[t[1]] - Margin2] : t \in new}
  BY DEF AddOps
<1> HIDE DEF v, new
<1>2. ASSUME NEW e \in v
      PROVE  e.safe2 = 2 * e.tile[2] * RowHeight[e.tile[1]] - Margin2
  <2>1. CASE e \in a.evictions
    BY <2>1
  <2>2. CASE e \notin a.evictions
    <3>1. PICK t \in new :
             e = [tile |-> t, safe2 |-> 2 * t[2] * RowHeight[t[1]] - Margin2]
      BY <1>1, <1>2, <2>2
    <3> QED BY <3>1
  <2> QED BY <2>1, <2>2
<1> QED BY <1>2 DEF v

\* No cell that is still to come draws on a tile that is ready at the horizon.
LEMMA ReadyIsComplete ==
  ASSUME NEW a, NEW got \in SUBSET Cells, NEW rest \in SUBSET Cells, NEW h \in Int,
         \A t \in DOMAIN a.buckets : t \in Touched(CellOps(got)),
         \A e \in a.evictions : e.safe2 = 2 * e.tile[2] * RowHeight[e.tile[1]] - Margin2,
         \A c \in rest : South[c] <= h
  PROVE  \A t \in ReadyTiles(a, h) : t \notin Touched(CellOps(rest))
<1> SUFFICES ASSUME NEW t \in ReadyTiles(a, h), t \in Touched(CellOps(rest))
             PROVE  FALSE
  OBVIOUS
<1>1. PICK e \in a.evictions : e.tile = t /\ e.safe2 > 2 * h
  BY DEF ReadyTiles, Evictable
<1>2. PICK c \in rest : \E z \in DrawnZooms(Res[c], MinRes) : \E row \in Int :
                           t = <<z, row>> /\ row <= North[c] \div RowHeight[z]
  BY CellTile
<1>3. PICK z \in DrawnZooms(Res[c], MinRes), row \in Int :
         t = <<z, row>> /\ row <= North[c] \div RowHeight[z]
  BY <1>2
<1>4. e.safe2 = 2 * row * RowHeight[z] - Margin2
  BY <1>1, <1>3
<1>5. 2 * row * RowHeight[z] - Margin2 <= 2 * h
  <2>1. c \in Cells /\ South[c] <= h
    BY <1>2
  <2> QED BY <1>3, <2>1, SafeMargin
<1>6. 2 * row * RowHeight[z] - Margin2 \in Int
  <2>1. RowHeight[z] \in Nat
    BY <1>3, CellFacts, RadiusFacts
  <2> QED BY <1>3, <2>1, MarginFacts
<1> QED BY <1>1, <1>4, <1>5, <1>6

\* A received batch is added, and what is ready then is complete.
LEMMA ReceiveDelivers ==
  ASSUME NEW pend \in SUBSET Cells, NEW flight \in Seq(Batches), flight # <<>>,
         NEW a, NEW ps, NEW w, Delivered(pend, flight, a, ps, w),
         NEW b, b = Head(flight), NEW added, added = AddOps(a, CellOps(b.cells), Margin2)
  PROVE  Delivered(pend, Tail(flight), Evict(added, b.horizon),
                   PushParents(ps, b.cells), w \o WriteReady(added, b.horizon))
<1> DEFINE f == Tail(flight)
           rest == Left(pend, f)
           got == Cells \ Left(pend, flight)
           now == Cells \ rest
           ready == ReadyTiles(added, b.horizon)
           v == w \o WriteReady(added, b.horizon)
           ev == Evict(added, b.horizon)
<1>1. /\ b \in Batches /\ b = flight[1] /\ Len(flight) \in Nat /\ DOMAIN flight = 1..Len(flight)
      /\ f \in Seq(Batches) /\ DOMAIN f = 1..(Len(flight) - 1) /\ Len(flight) >= 1
      /\ \A i \in DOMAIN f : f[i] = flight[i + 1]
  OBVIOUS
<1>2. b.cells \in SUBSET Cells /\ b.horizon \in Int
  BY <1>1 DEF Batches
<1> HIDE DEF f
<1>3. Left(pend, flight) = rest \cup b.cells
  <2>1. ASSUME NEW c
        PROVE  (\E i \in DOMAIN flight : c \in flight[i].cells)
                  <=> ((\E i \in DOMAIN f : c \in f[i].cells) \/ c \in b.cells)
    <3>1. ASSUME NEW i \in DOMAIN flight, c \in flight[i].cells, i # 1
          PROVE  \E j \in DOMAIN f : c \in f[j].cells
      <4>1. i - 1 \in DOMAIN f /\ f[i - 1] = flight[i]
        BY <1>1, <3>1
      <4> QED BY <3>1, <4>1
    <3>2. ASSUME NEW j \in DOMAIN f, c \in f[j].cells
          PROVE  \E i \in DOMAIN flight : c \in flight[i].cells
      <4>1. j + 1 \in DOMAIN flight /\ f[j] = flight[j + 1]
        BY <1>1, <3>2
      <4> QED BY <3>2, <4>1
    <3>3. 1 \in DOMAIN flight
      BY <1>1
    <3> QED BY <1>1, <3>1, <3>2, <3>3
  <2> QED BY <2>1 DEF Left
<1>4. ASSUME NEW c \in rest
      PROVE  c \in Cells /\ c \notin b.cells /\ South[c] <= b.horizon
  <2>1. 1 \in DOMAIN flight
    BY <1>1
  <2>2. CASE c \in pend
    BY <1>1, <2>1, <2>2 DEF Delivered, Ordered
  <2>3. CASE \E j \in DOMAIN f : c \in f[j].cells
    <3>1. PICK j \in DOMAIN f : c \in f[j].cells
      BY <2>3
    <3>2. j + 1 \in DOMAIN flight /\ f[j] = flight[j + 1] /\ 1 < j + 1
      BY <1>1, <3>1
    <3>3. c \notin flight[1].cells /\ South[c] <= flight[1].horizon
      BY <2>1, <3>1, <3>2 DEF Delivered, Ordered
    <3>4. c \in Cells
      BY <1>1, <3>1, LeftCells
    <3> QED BY <1>1, <3>3, <3>4
  <2> QED BY <1>4, <2>2, <2>3 DEF Left
<1>5. rest \in SUBSET Cells /\ now = got \cup b.cells /\ now \in SUBSET Cells
  BY <1>2, <1>3, <1>4
<1>6. Ordered(pend, f)
  <2> SUFFICES ASSUME NEW i \in DOMAIN f
               PROVE  /\ \A c \in pend : c \notin f[i].cells /\ South[c] <= f[i].horizon
                      /\ \A j \in DOMAIN f : i < j => \A c \in f[j].cells :
                           c \notin f[i].cells /\ South[c] <= f[i].horizon
    BY DEF Ordered
  <2>1. i + 1 \in DOMAIN flight /\ f[i] = flight[i + 1]
    BY <1>1
  <2>2. \A c \in pend : c \notin f[i].cells /\ South[c] <= f[i].horizon
    BY <2>1 DEF Delivered, Ordered
  <2>3. ASSUME NEW j \in DOMAIN f, i < j
        PROVE  \A c \in f[j].cells : c \notin f[i].cells /\ South[c] <= f[i].horizon
    <3>1. j + 1 \in DOMAIN flight /\ f[j] = flight[j + 1] /\ i + 1 < j + 1
      BY <1>1, <2>3
    <3> QED BY <2>1, <3>1 DEF Delivered, Ordered
  <2> QED BY <2>2, <2>3
<1> HIDE DEF rest, got, now
<1>7. /\ Accounted(a.buckets, w, CellOps(got)) /\ Merged(ps, got)
      /\ \A e \in a.evictions : e.safe2 = 2 * e.tile[2] * RowHeight[e.tile[1]] - Margin2
      /\ \A t \in TilesWritten(w) : t \notin Touched(CellOps(rest \cup b.cells))
  BY <1>3 DEF Delivered, got
<1>8. CellOps(now) = CellOps(got) \cup CellOps(b.cells)
  BY <1>5, CellOpsUnion
<1>9. /\ \A t \in TilesWritten(w) : t \notin Touched(CellOps(rest))
      /\ \A t \in TilesWritten(w) : t \notin Touched(CellOps(b.cells))
  <2>1. CellOps(rest \cup b.cells) = CellOps(rest) \cup CellOps(b.cells)
    BY CellOpsUnion
  <2> QED BY <1>7, <2>1 DEF Touched
<1>10. Accounted(added.buckets, w, CellOps(now))
  <2>1. \A t \in Touched(CellOps(b.cells)) : t \notin TilesWritten(w)
    BY <1>9
  <2>2. Accounted(AddOps(a, CellOps(b.cells), Margin2).buckets, w,
                  CellOps(got) \cup CellOps(b.cells))
    BY <1>7, <2>1, AddKeeps
  <2> QED BY <1>8, <2>2
<1>11. \A e \in added.evictions : e.safe2 = 2 * e.tile[2] * RowHeight[e.tile[1]] - Margin2
  BY <1>7, AddEvictions
<1>12. ready \in SUBSET DOMAIN added.buckets
  BY DEF ReadyTiles
<1>13. \A t \in ready : t \notin Touched(CellOps(rest))
  <2>1. \A t \in DOMAIN added.buckets : t \in Touched(CellOps(now))
    BY <1>10 DEF Accounted
  <2>2. \A c \in rest : South[c] <= b.horizon
    BY <1>4
  <2> QED BY <1>2, <1>5, <1>11, <2>1, <2>2, ReadyIsComplete
<1>14. /\ ev.buckets = Restrict(added.buckets, DOMAIN added.buckets \ ready)
       /\ ev.evictions \subseteq added.evictions
       /\ v = w \o Layers(ready, added.buckets)
  BY DEF Evict, WriteReady
<1> HIDE DEF ready, v, ev
<1>15. /\ Accounted(ev.buckets, v, CellOps(now))
       /\ TilesWritten(v) = TilesWritten(w) \cup ready
  <2> DEFINE bs == added.buckets
             ops == CellOps(now)
  <2>1. Accounted(bs, w, ops)
    BY <1>10
  <2>2. ready \in SUBSET DOMAIN bs
    BY <1>12
  <2>3. ev.buckets = Restrict(bs, DOMAIN bs \ ready) /\ v = w \o Layers(ready, bs)
    BY <1>14
  <2> HIDE DEF bs, ops
  <2>4. Accounted(Restrict(bs, DOMAIN bs \ ready), w \o Layers(ready, bs), ops)
    BY <2>1, <2>2, WriteKeeps
  <2>5. TilesWritten(w \o Layers(ready, bs)) = TilesWritten(w) \cup ready
    <3>1. w \in Seq(Range(w))
      BY <2>1 DEF Accounted
    <3> QED BY <3>1, WriteAdds
  <2> QED BY <2>3, <2>4, <2>5 DEF ops
<1>16. Merged(PushParents(ps, b.cells), now)
  BY <1>5, <1>7, PushKeeps
<1>17. \A e \in ev.evictions : e.safe2 = 2 * e.tile[2] * RowHeight[e.tile[1]] - Margin2
  BY <1>11, <1>14
<1>18. \A t \in TilesWritten(v) : t \notin Touched(CellOps(rest))
  BY <1>9, <1>13, <1>15
<1>19. Delivered(pend, f, ev, PushParents(ps, b.cells), v)
  BY <1>6, <1>15, <1>16, <1>17, <1>18 DEF Delivered, now, rest
<1> QED BY <1>19 DEF f, ev, v

\* While batches come, no written tile is torn, not by the overview either.
LEMMA DeliveredIsNotTorn ==
  ASSUME NEW pend \in SUBSET Cells, NEW flight \in Seq(Batches), NEW a, NEW ps, NEW w,
         Delivered(pend, flight, a, ps, w)
  PROVE  NoneTorn(w, AllOps)
<1> DEFINE rest == Left(pend, flight)
           got == Cells \ rest
           qs == PushParents(<<>>, Cells)
<1>1. rest \in SUBSET Cells /\ got \in SUBSET Cells /\ Cells = got \cup rest
  BY LeftCells
<1>2. CellOps(Cells) = CellOps(got) \cup CellOps(rest)
  <2> HIDE DEF got, rest
  <2> QED BY <1>1, CellOpsUnion
<1>3. DOMAIN qs = Keys(Cells)
  BY DEF PushParents, Keys
<1> HIDE DEF rest, got, qs
<1>4. /\ Accounted(a.buckets, w, CellOps(got))
      /\ \A t \in TilesWritten(w) : t \notin Touched(CellOps(rest))
  BY DEF Delivered, rest, got
<1>5. \A t \in TilesWritten(w) : h3_res_for_zoom(t[1]) >= MinRes
  <2>1. \A t \in TilesWritten(w) : t \in Touched(CellOps(got))
    BY <1>4 DEF Accounted, TilesWritten
  <2> QED BY <1>1, <2>1, CellZoom
<1>6. \A t \in Touched(OverviewOps(qs)) : ~(h3_res_for_zoom(t[1]) >= MinRes)
  BY <1>3, OverviewZoom
<1>7. AllOps = (CellOps(got) \cup CellOps(rest)) \cup OverviewOps(qs)
  BY <1>2 DEF AllOps, qs
<1>8. ASSUME NEW op \in AllOps \ CellOps(got)
      PROVE  op[1] \notin TilesWritten(w)
  <2>1. CASE op \in CellOps(rest)
    BY <1>4, <2>1 DEF Touched
  <2>2. CASE op \in OverviewOps(qs)
    <3>1. op[1] \in Touched(OverviewOps(qs))
      BY <2>2 DEF Touched
    <3> QED BY <1>5, <1>6, <3>1
  <2> QED BY <1>7, <1>8, <2>1, <2>2
<1>9. CellOps(got) \subseteq AllOps
  BY <1>7
<1> QED BY <1>4, <1>8, <1>9, AccountedIsNotTorn

\* After the last batch the overview completes the account.
LEMMA OverviewDelivers ==
  ASSUME NEW a, NEW ps, NEW w, Delivered({}, <<>>, a, ps, w)
  PROVE  Accounted(a.buckets, w \o FlushAll(AddOps(NewAccumulator, OverviewOps(ps), 0)),
                   AllOps)
<1>1. Left({}, <<>>) = {}
  BY DEF Left
<1>2. Cells \ {} = Cells
  OBVIOUS
<1>3. Accounted(a.buckets, w, CellOps(Cells)) /\ Merged(ps, Cells)
  BY <1>1, <1>2 DEF Delivered
<1>4. AllOps = CellOps(Cells) \cup OverviewOps(ps)
  BY <1>3, MergedOnce DEF AllOps
<1>5. DOMAIN ps = Keys(Cells)
  BY <1>3 DEF Merged
<1>6. \A t \in Touched(OverviewOps(ps)) : t \notin Touched(CellOps(Cells))
  <2>1. \A t \in Touched(OverviewOps(ps)) : ~(h3_res_for_zoom(t[1]) >= MinRes)
    BY <1>5, OverviewZoom
  <2>2. \A t \in Touched(CellOps(Cells)) : h3_res_for_zoom(t[1]) >= MinRes
    BY CellZoom
  <2> QED BY <2>1, <2>2
<1>7. Accounted(a.buckets, w \o FlushAll(AddOps(NewAccumulator, OverviewOps(ps), 0)),
                CellOps(Cells) \cup OverviewOps(ps))
  BY <1>3, <1>6, OverviewKeeps
<1> QED BY <1>4, <1>7

-----------------------------------------------------------------------------
(* Each step keeps the invariant.                                          *)

\* The exporter has not begun to write what is left.
Delivering == pc \in {"start", "recv", "join", "overview"}

\* The invariant holds initially.
LEMMA InitTiler == ASSUME Init PROVE TilerInv
<1>1. TilerTypes
  BY DEF Init, TilerTypes
<1>2. Control
  BY DEF Init, Control
<1>3. /\ pending = Cells /\ channel \o outgoing = <<>> /\ DOMAIN acc.buckets = {}
      /\ acc.evictions = {} /\ written = <<>> /\ parents = <<>>
  BY DEF Init, NewAccumulator
<1>4. Cells \ Left(Cells, <<>>) = {}
  BY DEF Left
<1>5. TilesWritten(written) = {} /\ DOMAIN written = {} /\ written \in Seq(Range(written))
  BY <1>3 DEF TilesWritten
<1>6. Touched(CellOps({})) = {}
  BY DEF Touched, CellOps
<1>7. Accounted(acc.buckets, written, CellOps({}))
  BY <1>3, <1>5, <1>6 DEF Accounted
<1>8. Merged(parents, {})
  BY <1>3 DEF Merged, Keys
<1>9. Delivered(Cells, <<>>, acc, parents, written)
  BY <1>3, <1>4, <1>5, <1>7, <1>8 DEF Delivered, Ordered
<1>10. NoneTorn(written, AllOps)
  BY <1>5 DEF NoneTorn
<1>11. pc = "start" /\ output = {}
  BY DEF Init
<1>12. Tiles
  BY <1>3, <1>9, <1>10, <1>11 DEF Tiles
<1> QED BY <1>1, <1>2, <1>12 DEF TilerInv

\* Start keeps the invariant.
LEMMA StepStart == ASSUME TilerInv, Start PROVE TilerInv'
<1>1. TilerTypes'
  BY DEF TilerInv, TilerTypes, Start, streamVars, channelVars
<1>2. Control'
  BY DEF TilerInv, TilerTypes, Control, Start, streamVars, channelVars, ProducerEnded
<1>3. Tiles'
  BY DEF TilerInv, Tiles, Start, streamVars, channelVars, tileVars, AllOps
<1> QED BY <1>1, <1>2, <1>3 DEF TilerInv

\* Drain keeps the invariant.
LEMMA StepDrain == ASSUME TilerInv, Drain PROVE TilerInv'
<1>1. PICK cells \in SUBSET pending \ {{}}, h \in {South[c] : c \in Cells} \cup {NegInf} :
        /\ \A c \in pending \ cells : South[c] <= h
        /\ outgoing' = <<[cells |-> cells, horizon |-> h]>>
        /\ pending' = pending \ cells
  BY DEF Drain
<1>2. /\ producer = "drain" /\ producer' = "send" /\ outgoing = <<>>
      /\ UNCHANGED <<channel, receiver, pc, acc, parents, written, output>>
      /\ pending \in SUBSET Cells /\ channel \in Seq(Batches)
  BY DEF Drain, TilerInv, TilerTypes, Control, channelVars, tileVars
<1>3. h \in Int /\ cells \in SUBSET pending
  BY CellFacts DEF NegInf
<1>4. [cells |-> cells, horizon |-> h] \in Batches
  BY <1>2, <1>3 DEF Batches
<1>5. TilerTypes'
  <2>1. outgoing' \in Seq(Batches)
    BY <1>1, <1>4
  <2> QED BY <1>1, <1>2, <2>1 DEF TilerInv, TilerTypes
<1>6. Control'
  BY <1>1, <1>2 DEF TilerInv, Control, ProducerEnded
<1>7. ASSUME Delivering
      PROVE  Delivered(pending', channel' \o outgoing', acc', parents', written')
  <2>1. Delivered(pending, channel, acc, parents, written)
    <3>1. channel \o outgoing = channel
      BY <1>2
    <3> QED BY <1>7, <3>1 DEF TilerInv, Tiles, Delivering
  <2>2. Delivered(pending \ cells, channel \o <<[cells |-> cells, horizon |-> h]>>,
                  acc, parents, written)
    BY <1>1, <1>2, <1>3, <2>1, DrainDelivers
  <2> QED BY <1>1, <1>2, <2>2
<1>8. Tiles'
  BY <1>2, <1>7 DEF TilerInv, Tiles, Delivering, AllOps
<1> QED BY <1>5, <1>6, <1>8 DEF TilerInv

\* The end of the stream, or its failure, keeps the invariant.
LEMMA StepDrainEnds == ASSUME TilerInv, DrainEmpty \/ DrainFails PROVE TilerInv'
<1>1. /\ producer = "drain" /\ producer' \in {"ok", "failed"}
      /\ producer' = "ok" => pending = {}
      /\ UNCHANGED <<pending, outgoing, channel, receiver, pc, acc, parents, written, output>>
  BY DEF DrainEmpty, DrainFails, streamVars, channelVars, tileVars
<1>2. TilerTypes'
  BY <1>1 DEF TilerInv, TilerTypes
<1>3. Control'
  BY <1>1 DEF TilerInv, Control, ProducerEnded
<1>4. Tiles'
  BY <1>1 DEF TilerInv, Tiles, AllOps
<1> QED BY <1>2, <1>3, <1>4 DEF TilerInv

\* Send keeps the invariant: the batch stays in flight.
LEMMA StepSend == ASSUME TilerInv, Send PROVE TilerInv'
<1>1. /\ producer = "send" /\ producer' = "drain" /\ receiver
      /\ channel' = channel \o outgoing /\ outgoing' = <<>>
      /\ UNCHANGED <<pending, receiver, pc, acc, parents, written, output>>
      /\ outgoing \in Seq(Batches) /\ channel \in Seq(Batches)
  BY DEF Send, streamVars, tileVars, TilerInv, TilerTypes
<1>2. channel' \in Seq(Batches) /\ channel' \o outgoing' = channel \o outgoing
  BY <1>1
<1>3. TilerTypes'
  BY <1>1, <1>2 DEF TilerInv, TilerTypes
<1>4. Control'
  BY <1>1 DEF TilerInv, Control, ProducerEnded
<1>5. Tiles'
  BY <1>1, <1>2 DEF TilerInv, Tiles, AllOps
<1> QED BY <1>3, <1>4, <1>5 DEF TilerInv

\* A send to a receiver that is gone keeps the invariant.
LEMMA StepSendDisconnected == ASSUME TilerInv, SendDisconnected PROVE TilerInv'
<1>1. /\ producer = "send" /\ producer' = "ok" /\ ~receiver
      /\ outgoing' = <<>>
      /\ UNCHANGED <<pending, channel, receiver, pc, acc, parents, written, output>>
  BY DEF SendDisconnected, streamVars, channelVars, tileVars
<1>2. pc \notin {"start", "recv", "join", "overview", "flush", "finish", "done"}
  BY <1>1 DEF TilerInv, Control, ProducerEnded
<1>3. TilerTypes'
  BY <1>1 DEF TilerInv, TilerTypes
<1>4. Control'
  BY <1>1, <1>2 DEF TilerInv, Control, ProducerEnded
<1>5. Tiles'
  BY <1>1, <1>2 DEF TilerInv, Tiles, AllOps
<1> QED BY <1>3, <1>4, <1>5 DEF TilerInv

\* ReceiveBatch keeps the invariant.
LEMMA StepReceiveBatch == ASSUME TilerInv, ReceiveBatch PROVE TilerInv'
<1> DEFINE flight == channel \o outgoing
           b == Head(channel)
           added == AddOps(acc, CellOps(b.cells), Margin2)
<1>1. /\ pc = "recv" /\ channel # <<>>
      /\ acc' = Evict(added, b.horizon)
      /\ parents' = PushParents(parents, b.cells)
      /\ written' = written \o WriteReady(added, b.horizon)
      /\ channel' = Tail(channel)
      /\ UNCHANGED <<pending, producer, outgoing, receiver, pc, output>>
  BY DEF ReceiveBatch, streamVars, producerVars
<1>2. /\ outgoing \in Seq(Batches) /\ channel \in Seq(Batches) /\ pending \in SUBSET Cells
      /\ Delivered(pending, flight, acc, parents, written)
  BY <1>1 DEF TilerInv, TilerTypes, Tiles
<1>3. /\ flight \in Seq(Batches) /\ flight # <<>> /\ Head(flight) = b
      /\ Tail(flight) = channel' \o outgoing' /\ channel' \in Seq(Batches)
      /\ Tail(flight) \in Seq(Batches)
  BY <1>1, <1>2
<1> HIDE DEF flight, added, b
<1>4. Delivered(pending, Tail(flight), Evict(added, b.horizon),
                PushParents(parents, b.cells), written \o WriteReady(added, b.horizon))
  BY <1>2, <1>3, ReceiveDelivers DEF added
<1>5. Delivered(pending', channel' \o outgoing', acc', parents', written')
  BY <1>1, <1>3, <1>4
<1>6. NoneTorn(written', AllOps)
  BY <1>1, <1>2, <1>3, <1>4, DeliveredIsNotTorn
<1>7. TilerTypes'
  BY <1>1, <1>3 DEF TilerInv, TilerTypes
<1>8. Control'
  BY <1>1 DEF TilerInv, Control, ProducerEnded
<1>9. Tiles'
  BY <1>1, <1>5, <1>6 DEF TilerInv, Tiles, AllOps
<1> QED BY <1>7, <1>8, <1>9 DEF TilerInv

\* A failing exporter keeps the invariant: nothing is published.
LEMMA StepFails ==
  ASSUME TilerInv, ReceiveFails \/ DropJoins \/ WriteFails
  PROVE  TilerInv'
<1>1. /\ pc \in {"recv", "dropping", "overview", "flush", "finish"}
      /\ pc' \in {"dropping", "failed"}
      /\ channel' \in {channel, <<>>} /\ receiver' \in {receiver, FALSE}
      /\ UNCHANGED <<pending, producer, outgoing, acc, parents, written, output>>
  BY DEF ReceiveFails, DropJoins, WriteFails, streamVars, producerVars, channelVars, tileVars
<1>2. TilerTypes'
  <2>1. channel' \in Seq(Batches)
    <3>1. <<>> \in Seq(Batches) /\ channel \in Seq(Batches)
      BY DEF TilerInv, TilerTypes
    <3>2. channel' = channel \/ channel' = <<>>
      BY <1>1
    <3> QED BY <3>1, <3>2
  <2>2. receiver' \in BOOLEAN
    BY <1>1 DEF TilerInv, TilerTypes
  <2> QED BY <1>1, <2>1, <2>2 DEF TilerInv, TilerTypes
<1>3. Control'
  BY <1>1 DEF TilerInv, Control
<1>4. Tiles'
  BY <1>1 DEF TilerInv, Tiles, AllOps
<1> QED BY <1>2, <1>3, <1>4 DEF TilerInv

\* The end of the channel and the join keep the invariant.
LEMMA StepJoin ==
  ASSUME TilerInv, ReceiveDisconnected \/ JoinProducer
  PROVE  TilerInv'
<1>1. /\ pc \in {"recv", "join"} /\ pc' \in {"join", "overview", "failed"}
      /\ channel = <<>> /\ ProducerEnded
      /\ pc' = "overview" => producer = "ok"
      /\ receiver' \in {receiver, FALSE}
      /\ UNCHANGED <<pending, producer, outgoing, channel, acc, parents, written, output>>
  BY DEF ReceiveDisconnected, JoinProducer, streamVars, producerVars, channelVars, tileVars,
         TilerInv, Control
<1>2. TilerTypes'
  BY <1>1 DEF TilerInv, TilerTypes
<1>3. Control'
  BY <1>1 DEF TilerInv, Control, ProducerEnded
<1>4. Tiles'
  BY <1>1 DEF TilerInv, Tiles, AllOps
<1> QED BY <1>2, <1>3, <1>4 DEF TilerInv

\* WriteOverview keeps the invariant.
LEMMA StepOverview == ASSUME TilerInv, WriteOverview PROVE TilerInv'
<1>1. /\ pc = "overview" /\ pc' = "flush"
      /\ written' = written \o FlushAll(AddOps(NewAccumulator, OverviewOps(parents), 0))
      /\ UNCHANGED <<pending, producer, outgoing, channel, receiver, acc, parents, output>>
  BY DEF WriteOverview, streamVars, producerVars, channelVars
<1>2. pending = {} /\ channel = <<>> /\ outgoing = <<>> /\ producer = "ok"
  BY <1>1 DEF TilerInv, Control
<1>3. Delivered({}, <<>>, acc, parents, written)
  <2>1. <<>> \o <<>> = <<>>
    OBVIOUS
  <2> QED BY <1>1, <1>2, <2>1 DEF TilerInv, Tiles
<1>4. Accounted(acc.buckets, written', AllOps)
  BY <1>1, <1>3, OverviewDelivers
<1>5. NoneTorn(written', AllOps)
  BY <1>4, AccountedIsNotTorn
<1>6. TilerTypes'
  BY <1>1 DEF TilerInv, TilerTypes
<1>7. Control'
  BY <1>1 DEF TilerInv, Control, ProducerEnded
<1>8. Tiles'
  BY <1>1, <1>4, <1>5 DEF TilerInv, Tiles, AllOps
<1> QED BY <1>6, <1>7, <1>8 DEF TilerInv

\* FlushTiles keeps the invariant: the account becomes whole.
LEMMA StepFlush == ASSUME TilerInv, FlushTiles PROVE TilerInv'
<1>1. /\ pc = "flush" /\ pc' = "finish"
      /\ written' = written \o FlushAll(acc)
      /\ UNCHANGED <<pending, producer, outgoing, channel, receiver, parents, output>>
  BY DEF FlushTiles, streamVars, producerVars, channelVars
<1> DEFINE bs == acc.buckets
           w == written \o Layers(DOMAIN bs, bs)
           c == Restrict(bs, DOMAIN bs \ DOMAIN bs)
<1>2. Accounted(bs, written, AllOps) /\ written' = w
  BY <1>1 DEF TilerInv, Tiles, FlushAll
<1> HIDE DEF bs
<1>3. Accounted(c, w, AllOps)
  BY <1>2, WriteKeeps
<1>4. DOMAIN c = {}
  BY DEF Restrict
<1> HIDE DEF c, w
<1>5. Whole(w, AllOps)
  BY <1>3, <1>4, AccountedIsWhole
<1>6. NoneTorn(w, AllOps)
  BY <1>5 DEF Whole
<1>7. TilerTypes'
  BY <1>1 DEF TilerInv, TilerTypes
<1>8. Control'
  BY <1>1 DEF TilerInv, Control, ProducerEnded
<1>9. Tiles'
  BY <1>1, <1>2, <1>5, <1>6 DEF TilerInv, Tiles, AllOps
<1> QED BY <1>7, <1>8, <1>9 DEF TilerInv

\* Finish keeps the invariant.
LEMMA StepFinish == ASSUME TilerInv, Finish PROVE TilerInv'
<1>1. /\ pc = "finish" /\ pc' = "done" /\ output' = {written}
      /\ UNCHANGED <<pending, producer, outgoing, channel, receiver, acc, parents, written>>
  BY DEF Finish, streamVars, producerVars, channelVars
<1>2. TilerTypes'
  BY <1>1 DEF TilerInv, TilerTypes
<1>3. Control'
  BY <1>1 DEF TilerInv, Control, ProducerEnded
<1>4. Tiles'
  BY <1>1 DEF TilerInv, Tiles, AllOps
<1> QED BY <1>2, <1>3, <1>4 DEF TilerInv

\* A stuttering step keeps the invariant.
LEMMA StutterTiler == ASSUME TilerInv, UNCHANGED vars PROVE TilerInv'
<1>1. UNCHANGED <<pending, producer, outgoing, channel, receiver, pc, acc, parents, written,
                  output>>
  BY DEF vars, streamVars, producerVars, channelVars, tileVars
<1>2. TilerTypes'
  BY <1>1 DEF TilerInv, TilerTypes
<1>3. Control'
  BY <1>1 DEF TilerInv, Control, ProducerEnded
<1>4. Tiles'
  BY <1>1 DEF TilerInv, Tiles, AllOps
<1> QED BY <1>2, <1>3, <1>4 DEF TilerInv

\* Every step keeps the invariant.
LEMMA NextTiler == ASSUME TilerInv, [Next]_vars PROVE TilerInv'
<1>1. CASE Produce
  BY <1>1, StepDrain, StepDrainEnds, StepSend, StepSendDisconnected DEF Produce
<1>2. CASE Consume
  BY <1>2, StepStart, StepReceiveBatch, StepFails, StepJoin, StepOverview, StepFlush,
     StepFinish DEF Consume
<1>3. CASE UNCHANGED vars
  BY <1>3, StutterTiler
<1> QED BY <1>1, <1>2, <1>3 DEF Next

\* The invariant implies the property.
LEMMA InvExact == ASSUME TilerInv PROVE TilerExact
<1>1. TilesCompleteOnce
  BY DEF TilerInv, Tiles, TilesCompleteOnce
<1>2. ASSUME NEW file \in output
      PROVE  producer = "ok" /\ Whole(file, AllOps)
  <2>1. pc = "done" /\ file = written
    BY <1>2 DEF TilerInv, Tiles
  <2> QED BY <2>1 DEF TilerInv, Tiles, Control
<1> QED BY <1>1, <1>2 DEF TilerExact, OutputWhole

\* The state of the two threads and the channel keeps its types
\* (the streaming export of pmtiles/tiler.rs).
THEOREM TilerTypesHold == Spec => []TilerTypes
<1>1. TilerInv => TilerTypes
  BY DEF TilerInv
<1> QED BY <1>1, InitTiler, NextTiler, PTL DEF Spec

\* However the stream is cut into batches and whatever horizons it publishes, a
\* tile is written once, after the last cell that belongs to it, and an archive
\* appears only whole and only after both threads succeeded
\* (evict_and_write_tiles, the overview and finish in pmtiles/tiler.rs).
THEOREM TilesExact == Spec => []TilerExact
BY InitTiler, NextTiler, InvExact, PTL DEF Spec

=============================================================================
