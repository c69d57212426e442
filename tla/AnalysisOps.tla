---------------------------- MODULE AnalysisOps ----------------------------
(***************************************************************************)
(* The stateful and the reducing operators of the stream analysis process  *)
(* (processes/stream_analysis.py): the histogram accumulators with fixed   *)
(* and with automatic bins, the paired-ratio and the two-dimensional       *)
(* histogram, the division of two histograms, the rolling mean, the block  *)
(* average and the decimators.  One sample is offered to all of them in a  *)
(* step; `offered' is the list they have been given since the last reset,  *)
(* and what each of them reports is compared with a definition over that   *)
(* list.  Values are integers, so binning is exact: the rounding of        *)
(* floating point is left out.  Variances and standard errors follow from  *)
(* the counts and sums kept here and are left out.                         *)
(***************************************************************************)
EXTENDS Integers, Sequences, SequencesExt, FiniteSets, FiniteSetsExt, Functions

CONSTANTS Xs,           \* the x values a sample may have (Absent among them)
          Sizes,        \* the lengths a trace may have
          XMin, XMax,   \* the range of the fixed histograms
          BinCount,     \* their number of bins, and the most bins of the automatic ones
          Window,       \* window_traces of trace.rolling_mean
          Block,        \* block_traces of trace.block_average
          TargetPoints, \* target_points of trace.decimate
          MaxAge,       \* _telemetry_history_max_age_s
          MaxPoints,    \* _telemetry_history_max_points
          PrunePeriod,  \* _telemetry_history_prune_period_s
          Delays,       \* how long after it was measured a value may arrive
          MaxDts,       \* the max_dt_s of a lookup (NoMaxDt among them)
          MaxSamples    \* bound: samples offered between two resets

VARIABLES offered,      \* ghost: the samples since the last reset
          fixedHist,    \* BinStatsState, auto_range false
          autoHist,     \* two BinStatsState, auto_range true: one per shot condition
          ratioHist,    \* BinRatioStatsState, auto_range false
          mapHist,      \* Bin2DStatsState, x automatic and y fixed
          rolling,      \* TraceRollingMeanState
          blockAvg,     \* TraceBlockAverageState
          blocks,       \* ghost: the samples of each completed block
          history       \* _telemetry_history of one signal, the clock, the time of the last prune

opsVars == <<offered, fixedHist, autoHist, ratioHist, mapHist, rolling, blockAvg, blocks, history>>

Absent == -99
NoMaxDt == -99          \* max_dt_s is not given
NoBins == <<>>
NoTrace == [sum |-> <<>>, of |-> 0]   \* no average yet

\* The y of the k-th sample is 2^(k-1), so that a sum says which samples made it.
Sample(x, size) == [x |-> x, y |-> 2 ^ Len(offered), size |-> size]
TraceOf(s) == [i \in 1..s.size |-> s.y]

ZeroBins == [i \in 0..(BinCount - 1) |-> [n |-> 0, s |-> 0]]
FreshFixed == [bins |-> ZeroBins, dropped |-> 0]
FreshAuto == [groups |-> <<>>, bins |-> NoBins, dropped |-> 0, dirty |-> FALSE]
FreshRatio == [bins |-> [i \in 0..(BinCount - 1) |-> [n |-> 0, num |-> 0, den |-> 0, prod |-> 0]],
               dropped |-> 0]
FreshMap == [samples |-> <<>>, cells |-> {}, invalid |-> 0, dropped |-> 0, dirty |-> FALSE]
FreshRolling == [traces |-> <<>>, sum |-> <<>>, out |-> NoTrace]
FreshHistory == [samples |-> <<>>, clock |-> 0, pruned |-> 0]
FreshBlock == [sum |-> <<>>, count |-> 0, last |-> NoTrace, part |-> {}]

Init ==
    /\ offered = <<>> /\ blocks = <<>> /\ history = FreshHistory
    /\ fixedHist = FreshFixed /\ ratioHist = FreshRatio /\ mapHist = FreshMap
    /\ autoHist = [h \in Sizes |-> FreshAuto]
    /\ rolling = FreshRolling /\ blockAvg = FreshBlock

-----------------------------------------------------------------------------
(* Histograms *)

\* Mutant: the right edge of the range belongs to no bin.
BinIndexOpen(x, lo, hi, n) ==
    IF x = Absent \/ n = 0 \/ x < lo \/ x >= hi THEN {}
    ELSE {((x - lo) * n) \div (hi - lo)}

\* The bin of x, or none: out of range samples are dropped, the right edge
\* belongs to the last bin.
BinIndex(x, lo, hi, n) ==
    IF x = Absent \/ n = 0 \/ x < lo \/ x > hi \/ hi <= lo THEN {}
    ELSE {IF x = hi THEN n - 1 ELSE ((x - lo) * n) \div (hi - lo)}

UpdateFixed(h, s) ==
    LET at == BinIndex(s.x, XMin, XMax, BinCount)
    IN  IF at = {} THEN [h EXCEPT !.dropped = @ + 1]
        ELSE [h EXCEPT !.bins = [i \in DOMAIN @ |->
                IF i \in at THEN [n |-> @[i].n + 1, s |-> @[i].s + s.y] ELSE @[i]]]

\* The ratio's numerator is y and its denominator the length of the trace.
UpdateRatio(h, s) ==
    LET at == BinIndex(s.x, XMin, XMax, BinCount)
    IN  IF at = {} THEN [h EXCEPT !.dropped = @ + 1]
        ELSE [h EXCEPT !.bins = [i \in DOMAIN @ |->
                IF i \in at THEN [n |-> @[i].n + 1, num |-> @[i].num + s.y, den |-> @[i].den + s.size,
                                  prod |-> @[i].prod + s.y * s.size] ELSE @[i]]]

\* Samples with one x share a group; re-binning waits for the next payload.
AddToGroup(groups, s) ==
    IF \E g \in DOMAIN groups : groups[g].x = s.x
    THEN [g \in DOMAIN groups |->
            IF groups[g].x = s.x THEN [groups[g] EXCEPT !.n = @ + 1, !.s = @ + s.y] ELSE groups[g]]
    ELSE Append(groups, [x |-> s.x, n |-> 1, s |-> s.y])

UpdateAuto(h, s) ==
    IF s.x = Absent THEN [h EXCEPT !.dropped = @ + 1]
    ELSE [h EXCEPT !.groups = AddToGroup(@, s), !.dirty = TRUE]

SortedGroups(groups) == SortSeq(groups, LAMBDA a, b : a.x < b.x)

TotalOf(f, S) == FoldSet(LAMBDA i, acc : f[i] + acc, 0, S)

\* More x values than bins: equal-width bins over the range of the samples.
\* A bin is named by twice its centre times BinCount, which is an integer.
Binned(groups) ==
    LET lo == Min({groups[g].x : g \in DOMAIN groups})
        hi == Max({groups[g].x : g \in DOMAIN groups})
        idx(g) == Min({((groups[g].x - lo) * BinCount) \div (hi - lo), BinCount - 1})
        In(i) == {g \in DOMAIN groups : idx(g) = i}
    IN  [i \in 1..BinCount |->
            [x |-> lo * BinCount * 2 + (2 * i - 1) * (hi - lo),
             n |-> TotalOf([g \in DOMAIN groups |-> groups[g].n], In(i - 1)),
             s |-> TotalOf([g \in DOMAIN groups |-> groups[g].s], In(i - 1))]]

RecomputeAutoBins(h) ==
    [h EXCEPT !.dirty = FALSE,
              !.bins = IF Len(h.groups) <= BinCount
                       THEN [i \in DOMAIN h.groups |->
                                LET g == SortedGroups(h.groups)[i] IN [g EXCEPT !.x = @ * BinCount * 2]]
                       ELSE Binned(h.groups)]

\* The automatic axis is recomputed from all samples, the fixed one drops.
UpdateMap(m, s) ==
    IF s.x = Absent THEN [m EXCEPT !.invalid = @ + 1, !.dropped = @ + 1]
    ELSE [m EXCEPT !.samples = Append(@, s), !.dirty = TRUE]

RangeBins(vals) == Max({1, Min({BinCount, Cardinality(vals)})})

\* A single x value widens the range by a negligible eps: everything is in bin 0.
RecomputeMap(m) ==
    LET xs == {m.samples[k].x : k \in DOMAIN m.samples}
        lo == Min(xs)
        hi == Max(xs)
        xIdx(s) == IF hi = lo THEN 0
                   ELSE Min({((s.x - lo) * RangeBins(xs)) \div (hi - lo), RangeBins(xs) - 1})
        yIdx(s) == IF s.size < XMin \/ s.size > XMax THEN {}
                   ELSE {Min({((s.size - XMin) * BinCount) \div (XMax - XMin), BinCount - 1})}
        valid == {k \in DOMAIN m.samples : yIdx(m.samples[k]) # {}}
        cell(k) == <<xIdx(m.samples[k]), CHOOSE j \in yIdx(m.samples[k]) : TRUE>>
    IN  [m EXCEPT !.dirty = FALSE,
                  !.cells = {[at |-> cell(k),
                              of |-> {j \in valid : cell(j) = cell(k)}] : k \in valid},
                  !.dropped = m.invalid + Len(m.samples) - Cardinality(valid)]

-----------------------------------------------------------------------------
(* The quotient of two automatic histograms, aligned on the union of their bins *)

UnionXBins(a, b) ==
    SetToSortSeq({a[i].x : i \in DOMAIN a} \cup {b[i].x : i \in DOMAIN b}, <)

\* Mutant: bins are matched by position.
AlignByPosition(source, target) ==
    [i \in DOMAIN target |-> IF i \in DOMAIN source THEN source[i] ELSE [x |-> target[i], n |-> 0, s |-> 0]]

\* The source's bins at the target's x values; a value the source lacks is empty.
AlignToXBins(source, target) ==
    [i \in DOMAIN target |->
        IF \E j \in DOMAIN source : source[j].x = target[i]
        THEN source[CHOOSE j \in DOMAIN source : source[j].x = target[i]]
        ELSE [x |-> target[i], n |-> 0, s |-> 0]]

HistXs(a) == [i \in DOMAIN a |-> a[i].x]

\* The counts of the valid ratio bins, under require_equal_counts; empty when
\* the bins cannot be aligned.
HistDivide(num, den) ==
    LET target == IF HistXs(num) = HistXs(den) THEN HistXs(num) ELSE UnionXBins(num, den)
        a == AlignToXBins(num, target)
        b == AlignToXBins(den, target)
    IN  IF HistXs(num) # HistXs(den) /\ Len(target) > BinCount THEN NoBins
        ELSE [i \in DOMAIN target |->
                [x |-> target[i], a |-> a[i].n, b |-> b[i].n,
                 count |-> IF a[i].n = b[i].n /\ b[i].s # 0 THEN a[i].n ELSE 0]]

-----------------------------------------------------------------------------
(* Averages over traces *)

Plus(a, b) == [i \in DOMAIN a |-> a[i] + b[i]]
Minus(a, b) == [i \in DOMAIN a |-> a[i] - b[i]]
Zero(n) == [i \in 1..n |-> 0]

\* The running sum over the last Window traces; another length starts afresh.
UpdateRolling(r, trace) ==
    LET same == r.sum # <<>> /\ Len(r.sum) = Len(trace)
        kept == IF same THEN r.traces ELSE <<>>
        base == IF same THEN r.sum ELSE Zero(Len(trace))
        full == Len(kept) >= Window
        ts == Append(IF full THEN Tail(kept) ELSE kept, trace)
        sum == Plus(IF full THEN Minus(base, Head(kept)) ELSE base, trace)
    IN  IF Window <= 1 THEN [r EXCEPT !.out = [sum |-> trace, of |-> 1]]
        ELSE [traces |-> ts, sum |-> sum, out |-> [sum |-> sum, of |-> Len(ts)]]

\* Mutant: a trace of another length does not start a new block.
UpdateBlockSpliced(b, trace) ==
    LET base == IF b.sum = <<>> THEN Zero(Len(trace)) ELSE b.sum
        n == b.count + 1
        sum == [i \in DOMAIN trace |-> (IF i \in DOMAIN base THEN base[i] ELSE 0) + trace[i]]
        part == b.part \cup {Len(offered) + 1}
    IN  IF n >= Block
        THEN [sum |-> Zero(Len(trace)), count |-> 0, last |-> [sum |-> sum, of |-> n], part |-> {}]
        ELSE [b EXCEPT !.sum = sum, !.count = n, !.part = part]

\* The sum of a block that is not full yet, its size, and the last full
\* block's average, which is held until the next one; `part' is a ghost.
UpdateBlock(b, trace) ==
    LET same == b.sum # <<>> /\ Len(b.sum) = Len(trace)
        sum == Plus(IF same THEN b.sum ELSE Zero(Len(trace)), trace)
        n == IF same THEN b.count + 1 ELSE 1
        part == (IF same THEN b.part ELSE {}) \cup {Len(offered) + 1}
    IN  IF Block <= 1 THEN [b EXCEPT !.last = [sum |-> trace, of |-> 1]]
        ELSE IF n >= Block
        THEN [sum |-> Zero(Len(trace)), count |-> 0, last |-> [sum |-> sum, of |-> n], part |-> {}]
        ELSE [sum |-> sum, count |-> n, last |-> IF same THEN b.last ELSE NoTrace, part |-> part]

-----------------------------------------------------------------------------
(* Decimation of a trace of n points to at most TargetPoints *)

\* Mutant: the upper bound of a bucket is taken as inclusive and then shortened.
BucketRangesShort(n, buckets) ==
    [i \in 1..buckets |-> [from |-> ((i - 1) * n) \div buckets + 1,
                           to |-> Max({((i - 1) * n) \div buckets + 1, (i * n) \div buckets - 1})]]

BucketRanges(n, buckets) ==
    [i \in 1..buckets |->
        LET start == ((i - 1) * n) \div buckets
            stop == (i * n) \div buckets
        IN  [from |-> start + 1, to |-> IF stop <= start THEN Min({n, start + 1}) ELSE stop]]

Buckets(n, perBucket) == Max({1, Min({Max({1, TargetPoints \div perBucket}), n})})

\* The first place of the smallest and of the largest point of a bucket.
MinAt(p, b) == CHOOSE i \in b.from..b.to : /\ \A j \in b.from..b.to : p[i] <= p[j]
                                           /\ \A j \in b.from..(i - 1) : p[i] < p[j]
MaxAt(p, b) == CHOOSE i \in b.from..b.to : /\ \A j \in b.from..b.to : p[i] >= p[j]
                                           /\ \A j \in b.from..(i - 1) : p[i] > p[j]

Picked(S) == SetToSortSeq(S, <)
Truncated(s) == SubSeq(s, 1, Min({Len(s), TargetPoints}))

\* The places kept by the m4 and the min/max decimator.
M4Places(p) ==
    LET bs == BucketRanges(Len(p), Buckets(Len(p), 4))
    IN  Truncated(FlattenSeq([i \in DOMAIN bs |->
            Picked({bs[i].from, MinAt(p, bs[i]), MaxAt(p, bs[i]), bs[i].to})]))
MinMaxPlaces(p) ==
    LET bs == BucketRanges(Len(p), Buckets(Len(p), 2))
    IN  Truncated(FlattenSeq([i \in DOMAIN bs |-> Picked({MinAt(p, bs[i]), MaxAt(p, bs[i])})]))

\* The places averaged into each point of the mean decimator.
MeanPlaces(p) ==
    LET bs == BucketRanges(Len(p), Max({1, Min({TargetPoints, Len(p)})}))
    IN  [i \in DOMAIN bs |-> bs[i].from..bs[i].to]

-----------------------------------------------------------------------------
(* The telemetry value nearest to a shot *)

\* bisect_left on the time: how many samples are earlier than t.
Earlier(h, t) == Cardinality({i \in DOMAIN h : h[i].t < t})

\* bisect_left on the pair: how many samples are earlier, or as early with a smaller value.
Smaller(h, t, v) == Cardinality({i \in DOMAIN h : h[i].t < t \/ (h[i].t = t /\ h[i].v < v)})

\* A sample older than the newest one is inserted at its place; what is too
\* old or too much is dropped from the front.
RecordTelemetry(h, t, v) ==
    LET at == IF h = <<>> \/ t >= h[Len(h)].t THEN Len(h) + 1 ELSE Smaller(h, t, v) + 1
        all == InsertAt(h, at, [t |-> t, v |-> v])
        young == SubSeq(all, Earlier(all, all[Len(all)].t - MaxAge) + 1, Len(all))
    IN  SubSeq(young, Max({1, Len(young) - MaxPoints + 1}), Len(young))

\* Once per period, what is too old by the clock is dropped, the newest sample too.
PruneTelemetryHistory(h, now) ==
    IF now < h.pruned + PrunePeriod THEN [h EXCEPT !.clock = now]
    ELSE [samples |-> SubSeq(h.samples, Earlier(h.samples, now - MaxAge) + 1, Len(h.samples)),
          clock |-> now, pruned |-> now]

\* A value measured at t arrives.
IngestTelemetry(h, t, v, delay) ==
    PruneTelemetryHistory([h EXCEPT !.samples = RecordTelemetry(h.samples, t, v)], Max({h.clock, t + delay}))

Gap(s, t) == IF s.t > t THEN s.t - t ELSE t - s.t

\* The neighbours of the shot's time, of which the nearer is taken (the earlier
\* of two as near) unless it is further off than max_dt_s; 2 s is meant when
\* that is not given, and a limit of zero or less is none.
LookupNearest(h, t, maxDt) ==
    LET idx == Earlier(h, t)
        before == IF idx > 0 THEN {h[idx]} ELSE {}
        after == IF idx < Len(h) THEN {h[idx + 1]} ELSE {}
        best == {s \in before : \A r \in after : Gap(s, t) <= Gap(r, t)}
                \cup {s \in after : \A r \in before : Gap(s, t) < Gap(r, t)}
        cutoff == IF maxDt = NoMaxDt THEN 2 ELSE maxDt
    IN  {s \in best : cutoff > 0 => Gap(s, t) <= cutoff}

-----------------------------------------------------------------------------
(* Steps *)

\* One shot: every operator is given the sample.
Offer(x, size, delay) ==
    LET s == Sample(x, size)
        b == UpdateBlock(blockAvg, TraceOf(s))
    IN  /\ Len(offered) < MaxSamples
        /\ offered' = Append(offered, s)
        /\ fixedHist' = UpdateFixed(fixedHist, s)
        /\ ratioHist' = UpdateRatio(ratioHist, s)
        /\ mapHist' = UpdateMap(mapHist, s)
        /\ autoHist' = [autoHist EXCEPT ![size] = UpdateAuto(@, s)]
        /\ rolling' = UpdateRolling(rolling, TraceOf(s))
        /\ blockAvg' = b
        /\ history' = IF x = Absent THEN history ELSE IngestTelemetry(history, x, s.y, delay)
        /\ blocks' = IF b.count = 0 /\ b.last # NoTrace
                     THEN Append(blocks, blockAvg.part \cup {Len(offered) + 1}) ELSE blocks

\* A histogram output is due: the automatic bins are recomputed if dirty.
Payload ==
    /\ mapHist.dirty \/ \E h \in Sizes : autoHist[h].dirty
    /\ autoHist' = [h \in Sizes |-> IF autoHist[h].dirty THEN RecomputeAutoBins(autoHist[h]) ELSE autoHist[h]]
    /\ mapHist' = IF mapHist.dirty THEN RecomputeMap(mapHist) ELSE mapHist
    /\ UNCHANGED <<offered, fixedHist, ratioHist, rolling, blockAvg, blocks, history>>

\* stream_analysis.workspace.reset, and for the telemetry a restart.
ResetStates ==
    /\ offered # <<>>
    /\ offered' = <<>> /\ blocks' = <<>> /\ history' = FreshHistory
    /\ fixedHist' = FreshFixed /\ ratioHist' = FreshRatio /\ mapHist' = FreshMap
    /\ autoHist' = [h \in Sizes |-> FreshAuto]
    /\ rolling' = FreshRolling /\ blockAvg' = FreshBlock

Next == (\E x \in Xs, size \in Sizes, delay \in Delays : Offer(x, size, delay)) \/ Payload \/ ResetStates

Spec == Init /\ [][Next]_opsVars

-----------------------------------------------------------------------------
(* Properties *)

Ys(K) == FoldSet(LAMBDA k, acc : offered[k].y + acc, 0, K)
Valid == {k \in DOMAIN offered : offered[k].x # Absent}

\* x lies between the edges of bin i of n over lo..hi, the last bin closed.
Between(x, i, n, lo, hi) ==
    /\ (x - lo) * n >= i * (hi - lo)
    /\ (x - lo) * n < (i + 1) * (hi - lo) \/ (i = n - 1 /\ x = hi)

\* Every histogram holds exactly the shots its bin edges say, whatever the
\* order of shots, emissions and resets: none twice, none lost without being
\* counted as dropped, and a clean automatic histogram is the one binning all
\* its samples at once gives.
BinsHoldTheirShots ==
    LET In(i) == {k \in Valid : Between(offered[k].x, i, BinCount, XMin, XMax)
                                /\ offered[k].x \in XMin..XMax}
    IN  /\ \A i \in DOMAIN fixedHist.bins :
              fixedHist.bins[i] = [n |-> Cardinality(In(i)), s |-> Ys(In(i))]
        /\ fixedHist.dropped = Len(offered) - Cardinality(UNION {In(i) : i \in DOMAIN fixedHist.bins})
        /\ \A i \in DOMAIN ratioHist.bins :
              ratioHist.bins[i].n = Cardinality(In(i)) /\ ratioHist.bins[i].num = Ys(In(i))
        /\ \A h \in Sizes :
              LET own == {k \in Valid : offered[k].size = h}
                  bins == autoHist[h].bins
              IN  ~autoHist[h].dirty =>
                    /\ TotalOf([i \in DOMAIN bins |-> bins[i].s], DOMAIN bins) = Ys(own)
                    /\ TotalOf([i \in DOMAIN bins |-> bins[i].n], DOMAIN bins) = Cardinality(own)
                    /\ \A i, j \in DOMAIN bins : i < j => bins[i].x < bins[j].x
        /\ ~mapHist.dirty =>
              Cardinality(UNION {c.of : c \in mapHist.cells}) + mapHist.dropped = Len(offered)

\* A bin of the quotient of two clean histograms counts shots only where both
\* conditions were measured equally often, and no shot of either is left out
\* of the aligned bins.
QuotientAligned ==
    \A h, g \in Sizes :
        LET q == HistDivide(autoHist[h].bins, autoHist[g].bins)
            own(z) == {k \in Valid : offered[k].size = z}
        IN  (h # g /\ ~autoHist[h].dirty /\ ~autoHist[g].dirty /\ q # NoBins) =>
               /\ TotalOf([i \in DOMAIN q |-> q[i].a], DOMAIN q) = Cardinality(own(h))
               /\ \A i \in DOMAIN q : q[i].count > 0 => q[i].a = q[i].count /\ q[i].b = q[i].count
               /\ Len(autoHist[h].groups) <= BinCount =>
                    \A i \in DOMAIN q :
                        q[i].a = Cardinality({k \in own(h) : offered[k].x * BinCount * 2 = q[i].x})

\* The last trace's length and how many traces in a row have had it.
RunLength ==
    LET n == Len(offered)
        same(k) == \A j \in k..n : offered[j].size = offered[n].size
    IN  Cardinality({k \in 1..n : same(k)})

\* The rolling mean is the mean of the last Window traces of the present
\* length, and each trace contributes to exactly one block average: no block
\* mixes traces of two lengths, none skips a trace.
AveragesExact ==
    /\ (offered # <<>> /\ Window > 1) =>
        LET n == Min({Window, RunLength})
            last == (Len(offered) - n + 1)..Len(offered)
        IN  rolling.out = [sum |-> [i \in 1..offered[Len(offered)].size |-> Ys(last)], of |-> n]
    /\ \A i \in DOMAIN blocks :
        /\ Cardinality(blocks[i]) = Block
        /\ \A a, b \in blocks[i] : offered[a].size = offered[b].size
        /\ \A j \in DOMAIN blocks : i # j => blocks[i] \cap blocks[j] = {}
    /\ blockAvg.last # NoTrace =>
        blockAvg.last = [sum |-> [i \in 1..offered[Max(blocks[Len(blocks)])].size |-> Ys(blocks[Len(blocks)])],
                         of |-> Block]

\* The telemetry value a shot is given was measured within max_dt_s of it and
\* none was measured nearer to it, and it is given none only when there is none
\* that near; although samples arrive late and out of order, at most MaxPoints are
\* kept, and the front is cut by the newest sample and by the clock.  What is
\* forgotten is too old by one of them, or older than MaxPoints others.
NearestTelemetry ==
    LET h == history.samples
        kept(k) == \E i \in DOMAIN h : h[i] = [t |-> offered[k].x, v |-> offered[k].y]
        newest == Max({offered[k].x : k \in Valid} \cup {history.pruned})
        within(gap, dt) == LET limit == IF dt = NoMaxDt THEN 2 ELSE dt IN limit <= 0 \/ gap <= limit
        near(t, dt) == {k \in Valid : kept(k) /\ within(Gap([t |-> offered[k].x], t), dt)}
    IN  /\ \A k \in Valid : \/ kept(k) \/ offered[k].x < newest - MaxAge
                            \/ Len(h) = MaxPoints /\ \A i \in DOMAIN h : h[i].t >= offered[k].x
        /\ \A t \in Xs, dt \in MaxDts :
              /\ LookupNearest(h, t, dt) = {} <=> near(t, dt) = {}
              /\ \A s \in LookupNearest(h, t, dt) : /\ within(Gap(s, t), dt)
                                                    /\ \A k \in near(t, dt) : Gap(s, t) <= Gap([t |-> offered[k].x], t)

\* A trace to decimate: two points made of each valid sample.
Points == FlattenSeq([k \in DOMAIN offered |->
             IF offered[k].x = Absent THEN <<>> ELSE <<offered[k].x, offered[k].x * offered[k].size>>])

\* A decimated trace fits its target, stays in order and keeps the extreme
\* values; the mean decimator uses every point once.
DecimationKeepsExtremes ==
    Len(Points) > TargetPoints =>
        /\ \A places \in {M4Places(Points), MinMaxPlaces(Points)} :
              /\ Len(places) <= TargetPoints
              /\ \A i \in 1..(Len(places) - 1) : places[i] < places[i + 1]
              /\ {Max(ToSet(Points)), Min(ToSet(Points))} \subseteq {Points[places[i]] : i \in DOMAIN places}
        /\ {1, Len(Points)} \subseteq ToSet(M4Places(Points))
        /\ \A k \in DOMAIN Points : Cardinality({i \in DOMAIN MeanPlaces(Points) : k \in MeanPlaces(Points)[i]}) = 1
=============================================================================
