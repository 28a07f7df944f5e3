------------------------------- MODULE Measure -------------------------------
(***************************************************************************)
(* The arithmetic of the benches (src/client/src/core/measure.js, embedded *)
(* a second time as src/server/features/raw/measure.js): what the pages    *)
(* record while they are measured, and the verdicts read from the records. *)
(*                                                                         *)
(* Times are whole milliseconds, so the rounding to a tenth changes        *)
(* nothing; a ratio is kept as <<numerator, denominator>>.  A value that   *)
(* may be absent is a sequence of at most one.  The sentences a verdict is *)
(* printed in are left out.  Logs are in time order, so a loop that breaks *)
(* off at the first late entry is a selection.                             *)
(***************************************************************************)
EXTENDS Integers, Sequences, FiniteSets, SequencesExt

None == <<>>
Column(s, field(_)) == [i \in DOMAIN s |-> field(s[i])]
\* What passes a test, in order, each entry a sequence of none or one.
Kept(s, Test(_)) == FlattenSeq([i \in DOMAIN s |-> IF Test(s[i]) THEN <<s[i]>> ELSE <<>>])
Total(s) == FoldLeft(LAMBDA a, b : a + b, 0, s)
Greatest(S, floor) == Max(S \union {floor})
Count(s, Test(_)) == Cardinality({i \in DOMAIN s : Test(s[i])})
DuringWindow(s, from, to) == Kept(s, LAMBDA e : from <= e.t /\ e.t < to)

\* Sorting leaves equals in their order.
RankIn(keys, i) == Cardinality({j \in DOMAIN keys : keys[j] < keys[i] \/ (keys[j] = keys[i] /\ j <= i)})
AtRank(keys, rank) == CHOOSE i \in DOMAIN keys : RankIn(keys, i) = rank
SortedBy(s, key(_)) == [rank \in DOMAIN s |-> s[AtRank(Column(s, key), rank)]]
Ascending(s) == SortedBy(s, LAMBDA v : v)

(***************************************************************************)
(* What a page records.                                                    *)
(***************************************************************************)
\* WireRecorder.record: the oldest entries beyond max are dropped.
Record(log, entry, max) ==
    LET all == Append(log, entry)
    IN  IF Len(all) > max THEN SubSeq(all, Len(all) - max + 1, Len(all)) ELSE all

\* inputLog: the entries in order, and the last time of every stamp.
LogInput(log, stamp, at, input) == Append(log, [stamp |-> stamp, t |-> at, input |-> input])
TimeOfStamp(log, stamp) ==
    LET hits == {i \in DOMAIN log : log[i].stamp = stamp}
    IN  IF hits = {} THEN None ELSE <<log[Max(hits)].t>>
Since(log, from) == Kept(log, LAMBDA e : e.t >= from)

\* input and asked are history: the number of the input, and when it was made,
\* which the page's stamps hide.
Sample(p, now) == [stamp |-> p.stamp, sentAt |-> p.t, shownAt |-> now, ms |-> now - p.t,
                   input |-> p.input, asked |-> p.sent]

\* Mutant: inputs that could have been answered stay pending.
AttributePendingOnce(pending, now, paintChanged, maxAge) ==
    LET fresh == Kept(pending, LAMBDA p : now - p.t <= maxAge)
    IN  IF ~paintChanged \/ fresh = <<>>
        THEN [sample |-> None, remaining |-> fresh]
        ELSE [sample |-> <<Sample(Last(fresh), now)>>,
              remaining |-> fresh]

\* attributePending: a change is credited to the newest input that is not too
\* old, and answers all of them.
AttributePending(pending, now, paintChanged, maxAge) ==
    LET fresh == Kept(pending, LAMBDA p : now - p.t <= maxAge)
    IN  IF ~paintChanged \/ fresh = <<>>
        THEN [sample |-> None, remaining |-> fresh]
        ELSE [sample |-> <<Sample(Last(fresh), now)>>,
              remaining |-> <<>>]

(***************************************************************************)
(* Gaps, percentiles and gates.                                            *)
(***************************************************************************)
\* The nearest-rank percentile num/den: the least value that as many values as
\* its rank do not exceed, in whatever order they come.
Percentile(values, num, den) ==
    IF values = <<>> THEN None
    ELSE LET rank == Max({1, Min({Len(values), (num * Len(values) + den - 1) \div den})})
             UpTo(v) == {i \in DOMAIN values : values[i] <= v}
         IN  <<Min({v \in Range(values) : Cardinality(UpTo(v)) >= rank})>>

Gaps(times) == [i \in 1..Max({0, Len(times) - 1}) |-> [atMs |-> times[i], ms |-> times[i + 1] - times[i]]]

\* freezeReport: the gaps longer than each limit, and the first of the longest.
FreezeReport(times, limits) ==
    LET all == Gaps(times)
        longest == Greatest({all[i].ms : i \in DOMAIN all}, 0)
        Over(limit) == Kept(all, LAMBDA g : g.ms > limit)
        Longest(g) == g.ms = longest
    IN  [events |-> Len(times),
         over |-> [k \in DOMAIN limits |-> Over(limits[k])],
         longest |-> IF all = <<>> THEN None ELSE <<Head(Kept(all, Longest))>>]

GapStats(times) ==
    LET lengths == Column(Gaps(times), LAMBDA g : g.ms)
        median == Percentile(lengths, 1, 2)
        p90 == Percentile(lengths, 9, 10)
    IN  [n |-> Len(lengths), median |-> median, p90 |-> p90, max |-> Percentile(lengths, 1, 1),
         jitterRatio |-> IF lengths = <<>> \/ median[1] <= 0 THEN None ELSE <<<<p90[1], median[1]>>>>]

\* A change observed inside a gap withholds it.
ReconcileGaps(gaps, changes) ==
    LET Inside(g) == \E i \in DOMAIN changes : g.atMs < changes[i] /\ changes[i] < g.atMs + g.ms
    IN  [kept |-> Kept(gaps, LAMBDA g : ~Inside(g)), withheld |-> Kept(gaps, Inside)]

\* samplerLiveness; the rates are changes per thousand seconds.
RateVerdict(n, o) ==
    IF o.spanMs = 0 THEN "ok"
    ELSE IF n * 1000000 > o.maxRate * o.spanMs THEN "more than a display shows"
    ELSE IF n * 1000000 < o.minRate * o.spanMs THEN "too slow" ELSE "ok"
SamplerLiveness(times, o) ==
    IF Len(times) < o.minEvents THEN "too few events"
    ELSE IF Cardinality({Gaps(times)[i].ms : i \in DOMAIN Gaps(times)}) < o.minDistinct THEN "never varies"
    ELSE RateVerdict(Len(times), o)

LatencySummary(samples, minSamples) ==
    LET At(num, den) == IF Len(samples) < minSamples THEN None ELSE Percentile(samples, num, den)
    IN  [n |-> Len(samples), p50 |-> At(1, 2), p90 |-> At(9, 10), p95 |-> At(19, 20), max |-> At(1, 1),
         sufficient |-> Len(samples) >= minSamples]

\* comparability: the ratio of the two rates is rounded to hundredths before
\* it is held against the band, so half a hundredth more is within it.
Comparable(x, y, bandHundredths) ==
    /\ x # None /\ y # None /\ x[1] > 0 /\ y[1] > 0
    /\ LET larger == Max({x[1], y[1]})
           smaller == Min({x[1], y[1]})
       IN  200 * larger + smaller < 2 * smaller * (bandHundredths + 1)

WorkloadGate(firstHalf, secondHalf, minPerHalf, minRatio) ==
    IF firstHalf < minPerHalf \/ secondHalf < minPerHalf THEN "too few"
    ELSE IF secondHalf * minRatio[2] < firstHalf * minRatio[1] THEN "stopped" ELSE "ok"

\* Mutant: an input under way counts as received.
CoverageOfSent(sent, received, answered, overwritten, expired) ==
    LET unanswered == Max({0, sent - answered})
        named == overwritten + expired
    IN  [unanswered |-> unanswered,
         unaccounted |-> IF named = 0 THEN None ELSE <<Max({0, unanswered - named})>>]

\* coverage: what the host received and did not answer, and what of it the
\* buckets of its one stamp do not name; without buckets nothing is said of that.
Coverage(sent, received, answered, overwritten, expired) ==
    LET unanswered == Max({0, Min({received, sent}) - answered})
        named == overwritten + expired
    IN  [unanswered |-> unanswered,
         unaccounted |-> IF named = 0 THEN None ELSE <<Max({0, unanswered - named})>>]

\* probeArrivals: numbered probes; count arrived, from min to max.
ProbeArrivals(count, min, max, reordered) ==
    IF count = 0 \/ min = None \/ max = None
    THEN [expected |-> 0, arrived |-> 0, missing |-> None, beforeFirstSeen |-> 0]
    ELSE LET expected == max[1] - min[1] + 1
         IN  [expected |-> expected, arrived |-> count,
              missing |-> IF reordered > 0 \/ count > expected THEN None ELSE <<expected - count>>,
              beforeFirstSeen |-> min[1] - 1]

(***************************************************************************)
(* Clocks.                                                                 *)
(***************************************************************************)
\* Mutant: the host's reading is taken for the moment the request was sent.
ClockAlignFromSend(samples) ==
    LET valid == Kept(samples, LAMBDA s : s.t1 >= s.t0)
        offsets == Column(valid, LAMBDA s : 2 * s.hostNow - 2 * s.t0)
        middle == Percentile(offsets, 1, 2)
    IN  [offset2 |-> middle,
         spread2 |-> IF middle = None THEN None
                     ELSE <<Max({IF o < middle[1] THEN middle[1] - o ELSE o - middle[1] : o \in Range(offsets)})>>,
         rtt |-> Percentile(Column(valid, LAMBDA s : s.t1 - s.t0), 1, 2)]

\* clockAlign: each sample puts the host's reading at the middle of its round
\* trip; the median stands for all.  Offset and spread are doubled.
ClockAlign(samples) ==
    LET valid == Kept(samples, LAMBDA s : s.t1 >= s.t0)
        offsets == Column(valid, LAMBDA s : 2 * s.hostNow - (s.t0 + s.t1))
        middle == Percentile(offsets, 1, 2)
    IN  [offset2 |-> middle,
         spread2 |-> IF middle = None THEN None
                     ELSE <<Max({IF o < middle[1] THEN middle[1] - o ELSE o - middle[1] : o \in Range(offsets)})>>,
         rtt |-> Percentile(Column(valid, LAMBDA s : s.t1 - s.t0), 1, 2)]
=============================================================================
