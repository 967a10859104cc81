--------------------------- MODULE CellStatistics ---------------------------
(***************************************************************************)
(* The statistics of a cell: H3Accumulator (aggregator/accumulator.rs), the *)
(* span kernels that feed it (aggregator/simd.rs), its quantile sketch      *)
(* (aggregator/quantiles.rs) and the plan that reads several quantiles in   *)
(* one sweep (QuantilePlan of multi_horizon/config.rs).                    *)
(*                                                                         *)
(* A few accumulators are updated sample by sample, by weighted samples, by *)
(* spans and by merges, in every order, as the workers of a scan do.  The   *)
(* model is exact: values are integers, and the sum of squared deviations   *)
(* is kept multiplied by Scale^2, which every division divides as long as   *)
(* the total weight is at most MaxWeight.  The sketch has gamma = 2: a      *)
(* positive value v belongs to the bin k with 2^k <= v < 2^(k+1).           *)
(***************************************************************************)
EXTENDS Integers, FiniteSets, Sequences, SequencesExt, FiniteSetsExt

CONSTANTS Slots,       \* the accumulators
          Values,      \* sample values
          Weights,     \* weights of sub-pixel samples
          Spans,       \* rows of samples handed to a kernel
          Markers,     \* NoData markers; None is no marker
          None, Inf,   \* no marker or sketch; a value that is not finite
          Lanes,       \* partial sums a kernel keeps
          MaxWeight,   \* bound: total weight of an accumulator
          Scale,       \* lcm of 1 .. MaxWeight
          Top          \* larger than every value

VARIABLES acc,         \* Slots -> accumulator
          seen         \* ghost: Slots -> how often each <<value, weight>> was added

vars == <<acc, seen>>

-----------------------------------------------------------------------------
(* The quantile sketch: weights by bin.  A bin of weight 0 is absent.       *)

Bins == 0 .. 2
Key(v) == CHOOSE k \in Bins : 2 ^ k <= v /\ v < 2 ^ (k + 1)

NoBins == [k \in Bins |-> 0]
NewSketch == [zero |-> 0, pos |-> NoBins, neg |-> NoBins, total |-> 0]

SketchUpdate(q, v, w) ==
    IF q = None \/ w <= 0 \/ v = Inf THEN q
    ELSE LET counted == [q EXCEPT !.total = @ + w]
         IN CASE v = 0 -> [counted EXCEPT !.zero = @ + w]
              [] v > 0 -> [counted EXCEPT !.pos[Key(v)] = @ + w]
              [] OTHER -> [counted EXCEPT !.neg[Key(-v)] = @ + w]

\* Wrong: the zero bin of the other sketch is lost.
SketchMergeDropsZero(q, o) ==
    IF o.total = 0 THEN q
    ELSE IF q.total = 0 THEN o
    ELSE [zero |-> q.zero, total |-> q.total + o.total,
          pos |-> [k \in Bins |-> q.pos[k] + o.pos[k]], neg |-> [k \in Bins |-> q.neg[k] + o.neg[k]]]

SketchMerge(q, o) ==
    IF o.total = 0 THEN q
    ELSE IF q.total = 0 THEN o
    ELSE [zero |-> q.zero + o.zero, total |-> q.total + o.total,
          pos |-> [k \in Bins |-> q.pos[k] + o.pos[k]], neg |-> [k \in Bins |-> q.neg[k] + o.neg[k]]]

\* The bins in the order a sweep visits them, the most negative first.
Sweep(q) ==
    [i \in 1 .. 3 |-> [sign |-> -1, key |-> 3 - i, count |-> q.neg[3 - i]]]
      \o <<[sign |-> 0, key |-> 0, count |-> q.zero]>>
      \o [i \in 1 .. 3 |-> [sign |-> 1, key |-> i - 1, count |-> q.pos[i - 1]]]

\* Fractions are <<numerator, denominator>>; probabilities are in quarters.
Clamp(x, lo, hi) == IF x[1] < lo * x[2] THEN <<lo, 1>> ELSE IF x[1] > hi * x[2] THEN <<hi, 1>> ELSE x

\* The value of the rank (in quarters) within a bin that starts after `prior`.
InBin(b, prior, rank, lo, hi) ==
    LET n == rank - 4 * prior
        d == 4 * b.count
        v == CASE b.sign = 0 -> <<0, 1>>
               [] b.sign = 1 -> <<2 ^ b.key * (d + n), d>>
               [] OTHER -> <<-(2 ^ b.key) * (2 * d - n), d>>
    IN Clamp(v, lo, hi)

Prior(s, i) == FoldLeft(LAMBDA n, b : n + b.count, 0, SubSeq(s, 1, i - 1))

\* quantile: the first bin whose cumulative count reaches the rank.
Quantile(q, p, lo, hi) ==
    LET s == Sweep(q)
        rank == p * q.total
        Reaches(i) == s[i].count > 0 /\ 4 * (Prior(s, i) + s[i].count) >= rank
        hit == {i \in DOMAIN s : Reaches(i)}
    IN CASE q.total = 0 -> None
         [] p <= 0 -> <<lo, 1>>
         [] p >= 4 -> <<hi, 1>>
         [] lo = hi -> <<lo, 1>>
         [] hit = {} -> <<hi, 1>>
         [] OTHER -> InBin(s[Min(hit)], Prior(s, Min(hit)), rank, lo, hi)

\* quantiles_batch: one sweep settles the ranks in increasing order.
QuantilesBatch(q, ps, lo, hi) ==
    LET Fixed(p) == CASE p <= 0 -> <<lo, 1>> [] p >= 4 -> <<hi, 1>> [] lo = hi -> <<lo, 1>> [] OTHER -> None
        pending == SortSeq(SelectSeq([i \in DOMAIN ps |-> <<ps[i] * q.total, i>>],
                                     LAMBDA r : Fixed(ps[r[2]]) = None),
                           LAMBDA a, b : a[1] < b[1])
        start == [next |-> 1, cum |-> 0, out |-> [i \in DOMAIN ps |-> Fixed(ps[i])]]
        \* settle: every pending rank the bin reaches
        Visit(st, b) ==
            LET cum == st.cum + b.count
                settled == {j \in st.next .. Len(pending) : pending[j][1] <= 4 * cum}
            IN IF b.count = 0 THEN st
               ELSE [next |-> st.next + Cardinality(settled), cum |-> cum,
                     out |-> [i \in DOMAIN ps |->
                                IF \E j \in settled : pending[j][2] = i
                                THEN InBin(b, st.cum, ps[i] * q.total, lo, hi) ELSE st.out[i]]]
        last == FoldLeft(Visit, start, Sweep(q))
    IN IF q.total = 0 THEN [i \in DOMAIN ps |-> None]
       ELSE [i \in DOMAIN ps |-> IF last.out[i] = None THEN <<hi, 1>> ELSE last.out[i]]

-----------------------------------------------------------------------------
(* The accumulator.  m2 is multiplied by Scale^2.                           *)

Default == [sum |-> 0, count |-> 0, min |-> Top, max |-> -Top, m2 |-> 0, w2 |-> 0, quantiles |-> None]
WithQuantiles == [Default EXCEPT !.quantiles = NewSketch]

FromStats(sum, count, min, max, m2) ==
    [sum |-> sum, count |-> count, min |-> min, max |-> max, m2 |-> m2, w2 |-> count, quantiles |-> None]

Less(a, b) == IF a < b THEN a ELSE b
More(a, b) == IF a > b THEN a ELSE b

\* The mean multiplied by Scale.
Mean(sum, count) == (sum * Scale) \div count

\* update_weighted; update is the same with weight 1.
UpdateWeighted(a, v, w) ==
    IF w = None \/ v = Inf THEN a
    ELSE IF w <= 0 THEN a
    ELSE LET q == SketchUpdate(a.quantiles, v, w)
             sum == a.sum + v * w
             count == a.count + w
             dev == w * (v * Scale - Mean(a.sum, a.count)) * (v * Scale - Mean(sum, count))
         IN IF a.count = 0
            THEN [sum |-> v * w, count |-> w, min |-> v, max |-> v, m2 |-> 0, w2 |-> w * w, quantiles |-> q]
            ELSE [sum |-> sum, count |-> count, min |-> Less(a.min, v), max |-> More(a.max, v),
                  m2 |-> a.m2 + dev, w2 |-> a.w2 + w * w, quantiles |-> q]

\* merge: an empty accumulator takes the other's sketch, one with samples and
\* no sketch does not.
Merge(a, o) ==
    LET n1 == a.count
        n2 == o.count
        delta == a.sum * n2 - o.sum * n1
    IN IF n2 = 0 THEN a
       ELSE IF n1 = 0
       THEN [o EXCEPT !.quantiles = IF o.quantiles = None THEN a.quantiles
                                    ELSE IF a.quantiles = None THEN o.quantiles
                                    ELSE SketchMerge(a.quantiles, o.quantiles)]
       ELSE [sum |-> a.sum + o.sum, count |-> n1 + n2, w2 |-> a.w2 + o.w2,
             m2 |-> a.m2 + o.m2 + (delta * delta * Scale * Scale) \div (n1 * n2 * (n1 + n2)),
             min |-> Less(a.min, o.min), max |-> More(a.max, o.max),
             quantiles |-> IF None \in {a.quantiles, o.quantiles} THEN a.quantiles
                           ELSE SketchMerge(a.quantiles, o.quantiles)]

\* QuantilePlan: the distinct probabilities of the targets, asked for in one
\* sweep, or by a single query when there is only one.  A target is a
\* probability or Iqr.
Iqr == 9

Probabilities(targets) ==
    LET Asked(t) == IF t = Iqr THEN <<1, 3>> ELSE <<t>>
    IN FoldLeft(LAMBDA ps, p : IF p \in Range(ps) THEN ps ELSE Append(ps, p), <<>>,
                FlattenSeq([i \in DOMAIN targets |-> Asked(targets[i])]))

Spread(low, high) ==
    LET d == <<high[1] * low[2] - low[1] * high[2], high[2] * low[2]>> IN IF d[1] > 0 THEN d ELSE <<0, 1>>

EvaluateInto(a, targets) ==
    LET ps == Probabilities(targets)
        got == QuantilesBatch(a.quantiles, ps, a.min, a.max)
        At(p) == got[CHOOSE i \in DOMAIN ps : ps[i] = p]
        Output(t) == IF t = Iqr THEN Spread(At(1), At(3)) ELSE At(t)
    IN IF a.quantiles = None THEN [i \in DOMAIN targets |-> None]
       ELSE IF Len(ps) = 1 THEN [i \in DOMAIN targets |-> Quantile(a.quantiles, ps[1], a.min, a.max)]
       ELSE [i \in DOMAIN targets |-> Output(targets[i])]

\* apply_affine: as if every observation had been v * scale + offset.
ApplyAffine(a, scale, offset) ==
    LET lo == a.min * scale + offset
        hi == a.max * scale + offset
    IN IF a.count = 0 THEN a
       ELSE [a EXCEPT !.sum = @ * scale + offset * a.count, !.m2 = @ * scale * scale,
                      !.min = Less(lo, hi), !.max = More(lo, hi)]

\* variance: M2 / (W - sum(w^2) / W), as a fraction with Scale^2 in the first.
Variance(a) ==
    LET d == a.count * a.count - a.w2
    IN IF a.count = 0 THEN None ELSE IF d > 0 /\ a.m2 > 0 THEN <<a.m2 * a.count, d>> ELSE <<0, 1>>

-----------------------------------------------------------------------------
(* The span kernels: the lanes take the elements of whole groups in turn,   *)
(* the rest goes to the first lane, and the lanes are added at the end.     *)

LaneOf(n, lanes, i) == IF i <= (n \div lanes) * lanes THEN (i - 1) % lanes ELSE 0

SpanStats(slice, lanes, Valid(_)) ==
    LET n == Len(slice)
        Mine(l) == {i \in 1 .. n : LaneOf(n, lanes, i) = l /\ Valid(slice[i])}
        LaneSum(l, F(_)) == FoldSet(LAMBDA i, s : s + F(slice[i]), 0, Mine(l))
        Total(F(_)) == FoldSet(LAMBDA l, s : s + LaneSum(l, F), 0, 0 .. lanes - 1)
        count == Total(LAMBDA v : 1)
        sum == Total(LAMBDA v : v)
        kept == UNION {{slice[i] : i \in Mine(l)} : l \in 0 .. lanes - 1}
        Deviation(v) == (v * Scale - Mean(sum, count)) * (v * Scale - Mean(sum, count))
    IN IF count = 0 THEN Default
       ELSE IF Min(kept) = Max(kept) THEN FromStats(sum, count, Min(kept), Max(kept), 0)
       ELSE FromStats(sum, count, Min(kept), Max(kept), Total(Deviation))

\* f32 keeps eight lanes, f64 and the integers four; here Lanes and Lanes - 1.
AccumulateF32NoNodata(slice) == SpanStats(slice, Lanes, LAMBDA v : v # Inf)
AccumulateF32WithNodata(slice, nd) == SpanStats(slice, Lanes, LAMBDA v : v # Inf /\ v # nd)
AccumulateF64(slice, nd) == SpanStats(slice, Lanes - 1, LAMBDA v : v # Inf /\ v # nd)
AccumulateInteger(slice, nd) == SpanStats(slice, Lanes - 1, LAMBDA v : v # nd)

\* The dispatch of accumulate_span; integers have no value that is not finite.
AccumulateSpan(type, slice, nd) ==
    CASE type = "f32" /\ nd \in {None, Inf} -> AccumulateF32NoNodata(slice)
      [] type = "f32" -> AccumulateF32WithNodata(slice, nd)
      [] type = "f64" -> AccumulateF64(slice, nd)
      [] OTHER -> AccumulateInteger(slice, nd)

\* update_slice: two passes over the finite values, then a merge.
SliceStats(vals) == SpanStats(vals, 1, LAMBDA v : v # Inf)

\* The sketch of an accumulator is fed beside the merge of the span's stats.
Feed(a, vals) == [a EXCEPT !.quantiles = FoldLeft(LAMBDA q, v : SketchUpdate(q, v, 1), @, vals)]

-----------------------------------------------------------------------------
(* The actions.  The ghost counts the observations of each slot.            *)

NoObservations == [o \in Values \X Weights |-> 0]

Init == /\ acc \in [Slots -> {Default, WithQuantiles}]
        /\ seen = [s \in Slots |-> NoObservations]

Weight(obs) == FoldSet(LAMBDA o, n : n + obs[o] * o[2], 0, DOMAIN obs)
Room(s, n) == Weight(seen[s]) + n <= MaxWeight

Observe(s, v, w) == [seen EXCEPT ![s][<<v, w>>] = @ + 1]

AddSample(s) ==
    \E v \in Values \cup {Inf}, w \in Weights \cup {0, None} :
        /\ (v # Inf /\ w \in Weights) => Room(s, w)
        /\ acc' = [acc EXCEPT ![s] = UpdateWeighted(@, v, w)]
        /\ seen' = IF v # Inf /\ w \in Weights THEN Observe(s, v, w) ELSE seen

\* What a row of valid pixels adds to the ghost.
ObserveAll(s, vals) ==
    [seen EXCEPT ![s] = [o \in DOMAIN @ |->
        @[o] + IF o[2] = 1 THEN Cardinality({i \in DOMAIN vals : vals[i] = o[1]}) ELSE 0]]

\* A row of uncalibrated pixels; apply_affine is checked on the result.
AddSpan(s) ==
    \E slice \in Spans, nd \in Markers, type \in {"f32", "f64", "int"} :
        LET valid == SelectSeq(slice, LAMBDA v : v # Inf /\ v # nd)
        IN /\ type = "int" => Inf \notin Range(slice) \cup {nd}
           /\ Room(s, Len(valid))
           /\ acc' = [acc EXCEPT ![s] = Merge(Feed(@, valid), AccumulateSpan(type, slice, nd))]
           /\ seen' = ObserveAll(s, valid)

AddSlice(s) ==
    \E vals \in Spans :
        LET finite == SelectSeq(vals, LAMBDA v : v # Inf)
        IN /\ Room(s, Len(finite))
           /\ acc' = [acc EXCEPT ![s] = Merge(Feed(@, finite), SliceStats(vals))]
           /\ seen' = ObserveAll(s, finite)

\* A worker's accumulator is merged into the active one and recycled (clear).
\* Both sides of a scan track quantiles or neither does; a sketch may also
\* come from a partial state that only this side does not track.
MergeFrom(s, t) ==
    /\ s # t
    /\ acc[s].quantiles # None => acc[t].quantiles # None
    /\ Room(s, Weight(seen[t]))
    /\ acc' = [acc EXCEPT ![s] = Merge(@, acc[t]),
                          ![t] = IF @.quantiles = None THEN Default ELSE WithQuantiles]
    /\ seen' = [seen EXCEPT ![s] = [o \in DOMAIN @ |-> @[o] + seen[t][o]], ![t] = NoObservations]

Next == \E s \in Slots : AddSample(s) \/ AddSpan(s) \/ AddSlice(s) \/ \E t \in Slots : MergeFrom(s, t)

Spec == Init /\ [][Next]_vars

-----------------------------------------------------------------------------
(* What the observations say.                                              *)

Sum(obs, F(_, _)) == FoldSet(LAMBDA o, n : n + obs[o] * F(o[1], o[2]), 0, DOMAIN obs)

\* The definition of each statistic, of the observations mapped by v*m + b.
Reference(obs, m, b) ==
    LET w == Weight(obs)
        s == Sum(obs, LAMBDA v, k : k * (v * m + b))
        sq == Sum(obs, LAMBDA v, k : k * (v * m + b) * (v * m + b))
        vals == {o[1] * m + b : o \in {x \in DOMAIN obs : obs[x] > 0}}
    IN IF w = 0 THEN [Default EXCEPT !.quantiles = None]
       ELSE [sum |-> s, count |-> w, min |-> Min(vals), max |-> Max(vals), quantiles |-> None,
             m2 |-> Scale * Scale * sq - (Scale * Scale * s * s) \div w,
             w2 |-> Sum(obs, LAMBDA v, k : k * k)]

\* The smallest observation whose cumulative weight reaches the rank.
TrueQuantile(obs, p) ==
    LET below(x) == FoldSet(LAMBDA o, n : n + IF o[1] <= x THEN obs[o] * o[2] ELSE 0, 0, DOMAIN obs)
    IN Min({o[1] : o \in {x \in DOMAIN obs : obs[x] > 0 /\ 4 * below(x[1]) >= p * Weight(obs)}})

BinLow(v) == IF v = 0 THEN 0 ELSE IF v > 0 THEN 2 ^ Key(v) ELSE -(2 ^ (Key(-v) + 1))
BinHigh(v) == IF v = 0 THEN 0 ELSE IF v > 0 THEN 2 ^ (Key(v) + 1) ELSE -(2 ^ Key(-v))

\* In whatever order samples, spans and merges arrive, the statistics are those
\* of the observations (H3Accumulator::merge: the sketch must describe exactly
\* the samples that count covers), calibrated ones included (apply_affine).
StatisticsExact ==
    \A s \in Slots :
        /\ [acc[s] EXCEPT !.quantiles = None] = Reference(seen[s], 1, 0)
        /\ \A m \in {-2, 1, 3}, b \in {0, 1} :
             ApplyAffine([acc[s] EXCEPT !.quantiles = None], m, b) = Reference(seen[s], m, b)
        /\ acc[s].quantiles # None =>
             \A v \in Values :
                 LET q == acc[s].quantiles
                     same == {o \in DOMAIN seen[s] : BinLow(o[1]) = BinLow(v)}
                     got == CASE v = 0 -> q.zero [] v > 0 -> q.pos[Key(v)] [] OTHER -> q.neg[Key(-v)]
                 IN /\ got = FoldSet(LAMBDA o, n : n + seen[s][o] * o[2], 0, same)
                    /\ q.total = acc[s].count

\* An estimated quantile lies in the bin of the true one (the relative error
\* alpha of the sketch), and the single sweep of a plan returns for every target
\* what the query for that target alone returns.
QuantilesExact ==
    \A s \in Slots : acc[s].quantiles # None /\ acc[s].count > 0 =>
        LET q == acc[s].quantiles
            lo == acc[s].min
            hi == acc[s].max
        IN /\ \A p \in 1 .. 3 :
                LET x == Quantile(q, p, lo, hi)
                    t == TrueQuantile(seen[s], p)
                IN BinLow(t) * x[2] <= x[1] /\ x[1] <= BinHigh(t) * x[2]
           /\ \A targets \in {<<3, Iqr, 1>>, <<1, 4, 2, 1>>, <<0, 2>>, <<2, 2>>} :
                EvaluateInto(acc[s], targets) =
                    [i \in DOMAIN targets |->
                        IF targets[i] = Iqr THEN Spread(Quantile(q, 1, lo, hi), Quantile(q, 3, lo, hi))
                        ELSE Quantile(q, targets[i], lo, hi)]
=============================================================================
