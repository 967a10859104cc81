--------------------------- MODULE CategoryCounts ---------------------------
(***************************************************************************)
(* Class counts of a cell: CategoricalAccumulator (aggregator/             *)
(* categorical.rs), which keeps a few classes inline and then moves to a    *)
(* hash map; the engine that feeds it spans of pixels (multi_horizon/       *)
(* categorical.rs); the NoData rules (aggregator/nodata.rs) and the         *)
(* category remapper with its text format (aggregator/remap.rs).           *)
(*                                                                         *)
(* Pixels of an integer raster are integers; those of a float raster are    *)
(* written in halves, so that 3 stands for 1.5, and Inf is not finite.      *)
(***************************************************************************)
EXTENDS Integers, FiniteSets, Sequences, SequencesExt, FiniteSetsExt

CONSTANTS Slots,        \* the accumulators
          InlineCapacity,
          Spans,        \* rows of pixels: <<type, pixels>>
          Markers,      \* NoData values of the metadata, in halves; None is none
          Remaps,       \* meanings of remap texts, see Text below
          Weights,      \* weights of sub-pixel samples
          MaxTotal,     \* bound: total weight of an accumulator
          LutMax,       \* largest category of a lookup table (65535)
          TieShare,     \* counts this share of the total apart are tied (10^9)
          None, Inf, Failed

VARIABLES acc, seen,    \* Slots -> accumulator; ghost: Slots -> class -> weight
          marker, remap \* the scan's NoData value and remapper

vars == <<acc, seen, marker, remap>>

-----------------------------------------------------------------------------
(* The remapper.  A token of its text is a number, a word or punctuation.   *)

Num(n) == [k |-> "num", v |-> n]
Sign(c) == [k |-> c, v |-> 0]
Is(t, c) == t.k = c

\* split_entries: at the commas outside brackets; empty entries are dropped.
SplitEntries(text) ==
    LET Step(st, t) ==
            IF Is(t, ",") /\ ~st.inside
            THEN [st EXCEPT !.entries = IF st.current = <<>> THEN @ ELSE Append(@, st.current),
                            !.current = <<>>]
            ELSE [st EXCEPT !.current = Append(@, t),
                            !.inside = IF Is(t, "[") THEN TRUE ELSE IF Is(t, "]") THEN FALSE ELSE @]
        last == FoldLeft(Step, [entries |-> <<>>, current |-> <<>>, inside |-> FALSE], text)
    IN IF last.current = <<>> THEN last.entries ELSE Append(last.entries, last.current)

\* parse_source_rules of one list item: a number or a range.
SourceRule(part, target) ==
    CASE Len(part) = 1 /\ Is(part[1], "num") ->
             [exact |-> TRUE, from |-> part[1].v, to |-> part[1].v, target |-> target]
      [] Len(part) = 3 /\ Is(part[1], "num") /\ Is(part[2], "..") /\ Is(part[3], "num") ->
           [exact |-> FALSE, from |-> part[1].v, to |-> part[3].v, target |-> target]
      [] OTHER -> Failed

SourceRules(src, target) ==
    LET bracketed == Len(src) >= 2 /\ Is(src[1], "[") /\ Is(src[Len(src)], "]")
        parts == IF bracketed THEN SplitEntries(SubSeq(src, 2, Len(src) - 1)) ELSE <<src>>
    IN [i \in DOMAIN parts |-> SourceRule(parts[i], target)]

\* parse: the rules in order and what happens to the rest, or an error.  A
\* target is <<>> for a dropped category and <<c>> otherwise.
Parse(text) ==
    LET Entry(st, e) ==
            LET at == SelectInSeq(e, LAMBDA t : Is(t, ":"))
                src == SubSeq(e, 1, at - 1)
                to == SubSeq(e, at + 1, Len(e))
                target == IF Is(to[1], "null") THEN <<>> ELSE <<to[1].v>>
                rules == SourceRules(src, target)
            IN IF st = Failed THEN Failed
               ELSE IF at = 0 \/ Len(to) # 1 THEN Failed
               ELSE IF ~Is(to[1], "null") /\ ~Is(to[1], "num") THEN Failed
               ELSE IF src # <<>> /\ Is(Head(src), "else")
               THEN [st EXCEPT !.other = [pass |-> FALSE, target |-> target]]
               ELSE IF Failed \in Range(rules) THEN Failed
               ELSE [st EXCEPT !.rules = @ \o rules]
    IN IF text = <<>> THEN Failed
       ELSE FoldLeft(Entry, [rules |-> <<>>, other |-> [pass |-> TRUE, target |-> <<>>]], SplitEntries(text))

\* remap_fallback: an exact rule (the last one, it overwrites the map's entry)
\* before a range (the first one) before the unmapped action.
RemapFallback(m, c) ==
    LET exact == {i \in DOMAIN m.rules : m.rules[i].exact /\ m.rules[i].from = c}
        Lo(r) == IF r.from <= r.to THEN r.from ELSE r.to
        Hi(r) == IF r.from <= r.to THEN r.to ELSE r.from
        range == {i \in DOMAIN m.rules : ~m.rules[i].exact /\ Lo(m.rules[i]) <= c /\ c <= Hi(m.rules[i])}
    IN CASE exact # {} -> m.rules[Max(exact)].target
         [] range # {} -> m.rules[Min(range)].target
         [] m.other.pass -> <<c>>
         [] OTHER -> m.other.target

\* new: a dense table when every category of a rule is in 0 .. LutMax.
Lut(m) ==
    LET named == UNION {{r.from, r.to} : r \in Range(m.rules)}
    IN IF named # {} /\ Min(named) >= 0 /\ Max(named) <= LutMax
       THEN [c \in 0 .. Max(named) |-> RemapFallback(m, c)] ELSE <<>>

Remap(m, c) == LET lut == Lut(m) IN IF c \in DOMAIN lut /\ c >= 0 THEN lut[c] ELSE RemapFallback(m, c)

-----------------------------------------------------------------------------
(* NoData.  An integer raster has no marker when the value is not integral. *)

NodataCast(type, nd) ==
    IF type = "float" \/ nd = None THEN nd
    ELSE IF nd = Inf THEN None
    ELSE IF nd % 2 = 0 THEN nd \div 2 ELSE None

IsValidPixel(v, nd) == v # Inf /\ v # nd

\* is_slice_all_nodata: looks at the ends and the middle before the rest.
IsSliceAllNodata(type, s, nd) ==
    LET n == Len(s)
        Skip(v) == ~IsValidPixel(v, nd)
    IN CASE type = "int" /\ nd = None -> FALSE
         [] n = 0 -> TRUE
         [] \E i \in {1, n \div 2 + 1, n} : ~Skip(s[i]) -> FALSE
         [] OTHER -> \A i \in 1 .. n : Skip(s[i])

\* to_category: floats round half away from zero.
ToCategory(type, v) ==
    IF type = "int" THEN v ELSE IF v >= 0 THEN (v + 1) \div 2 ELSE -((1 - v) \div 2)

\* resolve_category: <<c>>, or <<>> for a pixel that is not counted.
ResolveCategory(type, v, nd) ==
    IF ~IsValidPixel(v, nd) THEN <<>>
    ELSE IF remap = None THEN <<ToCategory(type, v)>>
    ELSE Remap(remap.parsed, ToCategory(type, v))

-----------------------------------------------------------------------------
(* The accumulator: inline entries <<class, weight>> in order of arrival,   *)
(* or a map once there are more than InlineCapacity classes.                *)

Default == [inline |-> <<>>, heap |-> None, total |-> 0]

UpdateWeighted(a, c, w) ==
    LET at == SelectInSeq(a.inline, LAMBDA e : e[1] = c)
        counted == [a EXCEPT !.total = @ + w]
        spilled == [k \in {e[1] : e \in Range(a.inline)} |->
                       (CHOOSE e \in Range(a.inline) : e[1] = k)[2]]
        Put(h) == [k \in DOMAIN h \cup {c} |-> IF k # c THEN h[k] ELSE IF c \in DOMAIN h THEN h[c] + w ELSE w]
    IN CASE w <= 0 -> a
         [] a.heap # None -> [counted EXCEPT !.heap = Put(a.heap)]
         [] at # 0 -> [counted EXCEPT !.inline[at][2] = @ + w]
         [] Len(a.inline) < InlineCapacity -> [counted EXCEPT !.inline = Append(@, <<c, w>>)]
         [] OTHER -> [counted EXCEPT !.heap = Put(spilled)]

\* for_each_class: the classes as pairs; a map's come in any order.
Entries(a) == IF a.heap # None THEN {<<c, a.heap[c]>> : c \in DOMAIN a.heap} ELSE Range(a.inline)
Orders(a) == IF a.heap # None THEN SetToSeqs(Entries(a)) ELSE {a.inline}

Merge(a, o, order) ==
    IF o.total = 0 THEN a
    ELSE FoldLeft(LAMBDA x, e : UpdateWeighted(x, e[1], e[2]), a, order)

Tied(m, n, total) == TieShare * (m - n) <= total /\ TieShare * (n - m) <= total

\* majority: the largest count, ties to the lowest class, in one pass over
\* the pairs <<class, count>>.
Majority(order, total) ==
    FoldLeft(LAMBDA best, e :
                 IF \/ best = <<>>
                    \/ e[2] > best[2] /\ ~Tied(e[2], best[2], total)
                    \/ e[1] < best[1] /\ Tied(e[2], best[2], total)
                 THEN e ELSE best,
             <<>>, order)

\* histogram_json: sorted by class; shares of the total in ten-thousandths.
Histogram(a) ==
    LET sorted == SortSeq(SetToSeq(Entries(a)), LAMBDA x, y : x[1] < y[1])
    IN [i \in DOMAIN sorted |-> <<sorted[i][1], (2 * sorted[i][2] * 10000 + a.total) \div (2 * a.total)>>]

\* accumulate_span: one update for a uniform span, one per run of a class
\* otherwise; pixels that are not counted do not end a run.
AccumulateSpan(a, type, s, nd) ==
    LET uniform == \A i \in DOMAIN s : s[i] = s[1]
        first == ResolveCategory(type, s[1], nd)
        Step(st, v) ==
            LET c == ResolveCategory(type, v, nd)
            IN CASE c = <<>> -> st
                 [] c = st.cat -> [st EXCEPT !.n = @ + 1]
                 [] st.cat = <<>> -> [st EXCEPT !.cat = c, !.n = 1]
                 [] OTHER -> [a |-> UpdateWeighted(st.a, st.cat[1], st.n), cat |-> c, n |-> 1]
        last == FoldLeft(Step, [a |-> a, cat |-> <<>>, n |-> 0], s)
    IN IF s = <<>> THEN a
       ELSE IF uniform THEN IF first = <<>> THEN a ELSE UpdateWeighted(a, first[1], Len(s))
       ELSE IF last.cat = <<>> THEN a ELSE UpdateWeighted(last.a, last.cat[1], last.n)

-----------------------------------------------------------------------------
(* What a remap text means: a sequence of [from |-> set of numbers and      *)
(* ranges, to |-> target] entries, and how its author writes it.            *)

\* A list of several sources in brackets, one source bare.
WriteSource(from) ==
    LET One(x) == IF x[1] = x[2] THEN <<Num(x[1])>> ELSE <<Num(x[1]), Sign(".."), Num(x[2])>>
        listed == FlattenSeq([i \in DOMAIN from |->
                                  IF i = 1 THEN One(from[i]) ELSE <<Sign(",")>> \o One(from[i])])
    IN IF Len(from) = 1 THEN listed ELSE <<Sign("[")>> \o listed \o <<Sign("]")>>

WriteTarget(to) == IF to = <<>> THEN <<Sign("null")>> ELSE <<Num(to[1])>>

Text(meaning) ==
    FlattenSeq([i \in DOMAIN meaning.entries |->
                   WriteSource(meaning.entries[i].from) \o <<Sign(":")>> \o WriteTarget(meaning.entries[i].to)
                     \o <<Sign(",")>>])
      \o IF meaning.other.pass THEN <<>> ELSE <<Sign("else"), Sign(":")>> \o WriteTarget(meaning.other.target)

\* Which class a category becomes: single numbers before ranges.
Meant(meaning, c) ==
    LET Single == {i \in DOMAIN meaning.entries : <<c, c>> \in Range(meaning.entries[i].from)}
        Within == {i \in DOMAIN meaning.entries :
                     \E x \in Range(meaning.entries[i].from) :
                         Min({x[1], x[2]}) <= c /\ c <= Max({x[1], x[2]})}
    IN CASE Single # {} -> meaning.entries[Max(Single)].to
         [] Within # {} -> meaning.entries[Min(Within)].to
         [] meaning.other.pass -> <<c>>
         [] OTHER -> meaning.other.target

-----------------------------------------------------------------------------
Init == /\ acc = [s \in Slots |-> Default]
        /\ seen = [s \in Slots |-> <<>>]
        /\ marker \in Markers
        /\ remap \in {None} \cup {[meaning |-> m, parsed |-> Parse(Text(m))] : m \in Remaps}

Add(counts, c, w) ==
    [k \in DOMAIN counts \cup {c} |->
        (IF k \in DOMAIN counts THEN counts[k] ELSE 0) + IF k = c THEN w ELSE 0]
CountOf(counts) == FoldSet(LAMBDA c, n : n + counts[c], 0, DOMAIN counts)

\* What a pixel counts as: the marker and the meaning of the remap text.
Meaning(type, v) ==
    IF v \in {Inf, NodataCast(type, marker)} THEN <<>>
    ELSE IF remap = None THEN <<ToCategory(type, v)>>
    ELSE Meant(remap.meaning, ToCategory(type, v))

\* A row of one cell; a row without a valid pixel is not walked.
AddSpan(s) ==
    \E span \in Spans :
        LET type == span[1]
            nd == NodataCast(type, marker)
            counted == SelectSeq([i \in DOMAIN span[2] |-> Meaning(type, span[2][i])], LAMBDA c : c # <<>>)
        IN /\ acc[s].total + Len(counted) <= MaxTotal
           /\ acc' = IF IsSliceAllNodata(type, span[2], nd) THEN acc
                     ELSE [acc EXCEPT ![s] = AccumulateSpan(@, type, span[2], nd)]
           /\ seen' = [seen EXCEPT ![s] = FoldLeft(LAMBDA n, c : Add(n, c[1], 1), @, counted)]
           /\ UNCHANGED <<marker, remap>>

\* A sub-pixel sample of a pixel (update_sample).
AddSample(s) ==
    \E span \in Spans, w \in Weights :
        LET v == span[2][1]
            c == ResolveCategory(span[1], v, NodataCast(span[1], marker))
            m == Meaning(span[1], v)
        IN /\ acc[s].total + w <= MaxTotal
           /\ acc' = IF c = <<>> THEN acc ELSE [acc EXCEPT ![s] = UpdateWeighted(@, c[1], w)]
           /\ seen' = IF m = <<>> \/ w <= 0 THEN seen ELSE [seen EXCEPT ![s] = Add(@, m[1], w)]
           /\ UNCHANGED <<marker, remap>>

MergeFrom(s, t) ==
    /\ s # t
    /\ acc[s].total + acc[t].total <= MaxTotal
    /\ \E order \in Orders(acc[t]) : acc' = [acc EXCEPT ![s] = Merge(@, acc[t], order), ![t] = Default]
    /\ seen' = [seen EXCEPT ![s] = FoldSet(LAMBDA c, n : Add(n, c, seen[t][c]), @, DOMAIN seen[t]),
                            ![t] = <<>>]
    /\ UNCHANGED <<marker, remap>>

Next == \E s \in Slots : AddSpan(s) \/ AddSample(s) \/ \E t \in Slots : MergeFrom(s, t)

Spec == Init /\ [][Next]_vars

-----------------------------------------------------------------------------
\* Near counts are tied although their sums differ in the last digits, which is
\* no equivalence: a chain of them may tie neighbours and not its ends.
TiesAgree(counts, total) ==
    \A a, b, c \in DOMAIN counts :
        (Tied(counts[a], counts[b], total) /\ Tied(counts[b], counts[c], total))
          => Tied(counts[a], counts[c], total)

\* In whatever order the classes are visited the majority is the lowest class
\* tied with the largest count, unless ties form a chain (TiesAgree); then the
\* order decides, and the count of the class found is below the largest by less
\* than one tie for each other class.
MajorityExact(counts, orders) ==
    LET total == CountOf(counts)
        most  == Max({counts[c] : c \in DOMAIN counts})
        least == Min({c \in DOMAIN counts : Tied(counts[c], most, total)})
    IN  \A order \in orders :
            LET found == Majority(order, total)
            IN  /\ TiesAgree(counts, total) => found = <<least, counts[least]>>
                /\ found[2] = counts[found[1]]
                /\ TieShare * (most - found[2]) <= (Cardinality(DOMAIN counts) - 1) * total

\* Inline or spilled, in any order of spans, samples and merges, the classes and
\* weights are those of the pixels as the NoData value and the remap text mean
\* them; the majority is MajorityExact in any order a map is visited in, and the
\* histogram's shares are the classes' in order.
CountsExact ==
    \A s \in Slots :
        LET counts == seen[s]
        IN /\ Entries(acc[s]) = {<<c, counts[c]>> : c \in DOMAIN counts}
           /\ acc[s].total = CountOf(counts)
           /\ DOMAIN counts # {} =>
                /\ MajorityExact(counts, Orders(acc[s]))
                /\ LET h == Histogram(acc[s])
                   IN \A i \in DOMAIN h : /\ i > 1 => h[i - 1][1] < h[i][1]
                                          /\ h[i][2] = (2 * counts[h[i][1]] * 10000 + acc[s].total) \div (2 * acc[s].total)

=============================================================================
