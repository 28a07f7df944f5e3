------------------------------ MODULE Forensics ------------------------------
(***************************************************************************)
(* What the benches read from two logs of one window, the host's and the   *)
(* page's: which input arrived when, which frames were lost, and whose     *)
(* doing a freeze or a slow answer was (measure.js, second half).          *)
(*                                                                         *)
(* Log entries: [t, kind, bytes, id], inputs [t, stamp], answers           *)
(* [t, stamp, ms], tasks [t, ms], queue and park [t, n].                   *)
(***************************************************************************)
EXTENDS Measure

CONSTANTS SmallBytes, DeepQueue, LongMs  \* 4096 and 65536, 65536, 100

ASSUME ForensicsAssumption == {DeepQueue, LongMs} \subseteq Nat /\ SmallBytes \in Seq(Nat)

FrameKinds == {"frame", "keyframe", "part"}
AllKinds == FrameKinds \union {"artwork", "ping", "rawframe", "input"}

(***************************************************************************)
(* Windows.                                                                *)
(***************************************************************************)
\* wireBetween: what was on the wire, and the kind most bytes were of, the
\* first one seen of equals.
WireBetween(log, from, to, kinds) ==
    LET inside == Kept(DuringWindow(log, from, to), LAMBDA e : e.kind \in kinds)
        BytesOf(kind) == Total(Column(Kept(inside, LAMBDA e : e.kind = kind), LAMBDA e : e.bytes))
        Dominates(e) == \A i \in DOMAIN inside : BytesOf(inside[i].kind) <= BytesOf(e.kind)
    IN  [count |-> Len(inside), bytes |-> Total(Column(inside, LAMBDA e : e.bytes)),
         byKind |-> [k \in {inside[i].kind : i \in DOMAIN inside} |->
                        [count |-> Count(inside, LAMBDA e : e.kind = k), bytes |-> BytesOf(k)]],
         dominant |-> IF inside = <<>> THEN None ELSE <<Head(Kept(inside, Dominates)).kind>>]

\* Mutant: whatever the host's log holds is taken for frames, the arrivals of
\* the page's own inputs too.
FramesInWindowOfAnyKind(hostWire, wireLog, from, to, kinds) ==
    [host |-> Len(DuringWindow(hostWire, from, to)),
     client |-> WireBetween(wireLog, from, to, kinds).count]

FramesInWindow(hostWire, wireLog, from, to, kinds) ==
    [host |-> Count(DuringWindow(hostWire, from, to), LAMBDA e : e.kind \in kinds),
     client |-> WireBetween(wireLog, from, to, kinds).count]

\* blockedInWindow: the page's long tasks, as far as they reach into it.
BlockedInWindow(tasks, from, to) ==
    LET Overlap(k) == Min({k.t + k.ms, to}) - Max({k.t, from})
        inside == Kept(tasks, LAMBDA k : k.t + k.ms > from /\ k.t < to /\ Overlap(k) > 0)
    IN  [count |-> Len(inside), total |-> Total(Column(inside, Overlap)),
         longest |-> Greatest({inside[i].ms : i \in DOMAIN inside}, 0),
         maxOverlap |-> Greatest({Overlap(inside[i]) : i \in DOMAIN inside}, 0)]

UplinkInWindow(transits, from, to) ==
    LET values == Column(DuringWindow(transits, from, to), LAMBDA e : e.ms)
    IN  [count |-> Len(values), median |-> Percentile(values, 1, 2), max |-> Percentile(values, 1, 1)]

\* clientActivity: the longest time without a send, reaching back to the last
\* send before the window.
ClientActivity(sends, from, to) ==
    LET inside == Ascending(Kept(sends, LAMBDA t : from <= t /\ t < to))
        before == Kept(sends, LAMBDA t : t < from)
        start == IF before = <<>> THEN from ELSE Last(before)
        all == <<start>> \o inside \o <<to>>
        silences == {all[i + 1] - all[i] : i \in 1..Len(all) - 1}
    IN  [count |-> Len(inside), longestSilence |-> Max(silences),
         firstSendBefore |-> IF before = <<>> THEN None ELSE <<from - Last(before)>>]

\* arrivalHole: the first of the longest silences, if it is long enough, and
\* how much arrived at once after it.
ArrivalHole(arrivals, minMs, burstMs) ==
    LET times == Ascending(Column(arrivals, LAMBDA e : e.t))
        worst == FreezeReport(times, <<>>).longest
    IN  IF worst = None \/ worst[1].ms < minMs THEN None
        ELSE LET end == worst[1].atMs + worst[1].ms
             IN  <<[ms |-> worst[1].ms, fromMs |-> worst[1].atMs, toMs |-> end,
                    burst |-> Count(times, LAMBDA t : end <= t /\ t <= end + burstMs)]>>

(***************************************************************************)
(* Matching what was sent with what arrived.                               *)
(***************************************************************************)
\* Mutant: the pairs are made by position in the two logs.
MatchByPosition(sent, got, minTransit, maxTransit) ==
    LET n == Min({Len(sent), Len(got)})
    IN  [pairs |-> [i \in 1..n |-> <<sent[i], got[i]>>], used |-> 1..n, missing |-> Len(sent) - n,
         early |-> 0, considered |-> n]

\* A turn of the loop of matchInputs: a send takes the first arrival of its stamp
\* that is near it in time and not taken.  An arrival too far before its send is
\* taken and not quoted.
TakeArrival(acc, s, got, minTransit, maxTransit) ==
    LET Near(i) == /\ got[i].t >= s.t - maxTransit /\ got[i].t <= s.t + maxTransit
                   /\ got[i].stamp = s.stamp
        found == {i \in DOMAIN got \ acc.used : Near(i)}
        i == Min(found)
    IN  IF found = {} THEN [acc EXCEPT !.missing = @ + 1]
        ELSE IF got[i].t - s.t < minTransit
        THEN [acc EXCEPT !.used = @ \union {i}, !.considered = @ + 1, !.early = @ + 1]
        ELSE [acc EXCEPT !.used = @ \union {i}, !.considered = @ + 1, !.pairs = Append(@, <<s, got[i]>>)]

\* The loop: every send, in order.
MatchInputs(sent, got, minTransit, maxTransit) ==
    LET loop[n \in 0..Len(sent)] ==
            IF n = 0 THEN [pairs |-> <<>>, used |-> {}, missing |-> 0, early |-> 0, considered |-> 0]
            ELSE TakeArrival(loop[n - 1], sent[n], got, minTransit, maxTransit)
    IN  loop[Len(sent)]

\* Its verdict: no number is quoted when too many arrivals came before their
\* sends, which only a wrong clock explains.
MatchVerdict(m, sent, got) ==
    LET clockWrong == m.early >= 3 /\ 5 * m.early >= m.considered
        paired == sent # <<>> /\ got # <<>> /\ ~clockWrong /\ m.pairs # <<>>
    IN  [paired |-> paired, extra |-> Len(got) - Cardinality(m.used),
         transits |-> IF paired THEN Column(m.pairs, LAMBDA p : [t |-> p[1].t, ms |-> p[2].t - p[1].t]) ELSE <<>>]

\* Mutant: frames the page's log was too short for are called lost.
MatchFrameSendsToTheEnd(hostWire, clientWire, arrivalBefore, logEnd) ==
    LET Framed(e) == e.kind \in {"frame", "keyframe"} /\ e.id # 0
        sends == {i \in DOMAIN hostWire : Framed(hostWire[i])}
        ArrivalsOf(i) == {j \in DOMAIN clientWire : Framed(clientWire[j]) /\ clientWire[j].id = hostWire[i].id}
        lost == {hostWire[i].id : i \in {k \in sends : ArrivalsOf(k) = {}}}
    IN  [sent |-> Cardinality(sends), lost |-> lost, arrived |-> Cardinality(sends) - Cardinality(lost),
         beyondLog |-> 0, transits |-> <<>>]

\* matchFrameSends: a frame that never arrived is lost, unless the page's log
\* ended before it was sent.  transits: of the sends, by their place.
MatchFrameSends(hostWire, clientWire, arrivalBefore, logEnd) ==
    LET Framed(e) == e.kind \in {"frame", "keyframe"} /\ e.id # 0
        sends == {i \in DOMAIN hostWire : Framed(hostWire[i])}
        ArrivalsOf(i) == {j \in DOMAIN clientWire : Framed(clientWire[j]) /\ clientWire[j].id = hostWire[i].id}
        ArrivedAt(i) == clientWire[Max(ArrivalsOf(i))].t
        missing == {i \in sends : ArrivalsOf(i) = {}}
        beyond == {i \in missing : hostWire[i].t > logEnd}
        lost == {hostWire[i].id : i \in missing \ beyond}
        timed == {i \in sends \ missing : ArrivedAt(i) <= arrivalBefore}
    IN  [sent |-> Cardinality(sends), lost |-> lost,
         arrived |-> Cardinality(sends) - Cardinality(lost) - Cardinality(beyond),
         beyondLog |-> Cardinality(beyond), transits |-> [i \in timed |-> ArrivedAt(i) - hostWire[i].t]]

\* hostShareFor: how long the host had the input of this stamp, by the last
\* answer in time.
HostShareFor(answers, stamp, to) ==
    LET mine == Kept(answers, LAMBDA a : a.t <= to /\ a.stamp = stamp)
    IN  IF stamp = 0 \/ mine = <<>> THEN None ELSE <<Last(mine).ms>>

(***************************************************************************)
(* Verdicts on spikes.  hostRate: frames per thousand seconds.             *)
(***************************************************************************)
\* gapCause: most of what was sent did not come; or the host sent a quarter or
\* less of its usual.
GapCause(hostFrames, clientFrames, gapMs, hostRate) ==
    IF hostFrames >= 2 /\ 3 * clientFrames <= hostFrames THEN "path"
    ELSE IF 4000000 * hostFrames <= Max({0, hostRate}) * Max({0, gapMs}) THEN "quiet"
    ELSE "unclear"

\* verdictCounts
VerdictCounts(causes) ==
    [path |-> Count(causes, LAMBDA c : c = "path"), quiet |-> Count(causes, LAMBDA c : c = "quiet"),
     unclear |-> Count(causes, LAMBDA c : c \notin {"path", "quiet"})]

\* spikeContext: all that was going on during a slow answer or a freeze.
SpikeContext(kind, ms, from, to, stamp, log) ==
    LET frames == FramesInWindow(log.hostWire, log.wire, from, to, FrameKinds)
        sent == DuringWindow(log.hostWire, from, to)
        cause == GapCause(frames.host, frames.client, Max({1, to - from}), log.hostRate)
        Until(s, end) == Kept(s, LAMBDA e : e.t <= end)
        parked == Until(log.park, to)
        reference == IF kind = "latency" THEN to ELSE from
        shown == Kept(log.display, LAMBDA t : t < reference)
        queue == DuringWindow(log.queue, from, to)
    IN  [kind |-> kind, ms |-> ms, fromMs |-> from, toMs |-> to, stamp |-> stamp,
         wire |-> WireBetween(log.wire, from, to, AllKinds),
         queueMax |-> IF queue = <<>> THEN None ELSE <<Max({queue[i].n : i \in DOMAIN queue})>>,
         parked |-> IF parked = <<>> THEN 0 ELSE Last(parked).n,
         hostSent |-> Len(sent), hostBytes |-> Total(Column(sent, LAMBDA e : e.bytes)),
         lost |-> Count(sent, LAMBDA e : e.id # 0 /\ e.id \in log.lost),
         hostFrames |-> frames.host, clientFrames |-> frames.client,
         blocked |-> BlockedInWindow(log.tasks, from, to),
         cause |-> IF kind = "freeze" \/ cause = "path" THEN cause ELSE "none",
         client |-> ClientActivity(log.sends, from, to),
         uplink |-> UplinkInWindow(log.transits, from, to),
         hostMs |-> IF kind = "freeze" THEN None ELSE HostShareFor(log.answers, stamp, to),
         gapBefore |-> IF shown = <<>> THEN None ELSE <<reference - Last(shown)>>]

\* payloadBucket
PayloadBucket(bytes) ==
    IF bytes = 0 THEN "none" ELSE IF bytes < SmallBytes[1] THEN "small"
    ELSE IF bytes < SmallBytes[2] THEN "medium" ELSE "large"

\* spikeSignature: what tells one cause from another.
SpikeSignature(e) ==
    [payload |-> <<e.wire.dominant, PayloadBucket(e.wire.bytes)>>,
     queue |-> IF e.queueMax = None THEN "unknown" ELSE IF e.queueMax[1] >= DeepQueue THEN "deep" ELSE "low",
     parked |-> e.parked > 0,
     transport |-> IF e.lost > 0 THEN "frame lost"
                   ELSE IF e.hostSent > 0 /\ e.wire.count = 0 THEN "sent but not received" ELSE "clear",
     blocked |-> IF e.blocked.maxOverlap >= LongMs THEN e.blocked.maxOverlap ELSE 0,
     silent |-> IF e.client.longestSilence >= LongMs THEN e.client.longestSilence ELSE 0]

\* spikeReport's groups: how many events share each signature.
SignatureGroups(events) ==
    [sig \in {SpikeSignature(events[i]) : i \in DOMAIN events} |->
        Count(events, LAMBDA e : SpikeSignature(e) = sig)]

\* Half of the events that matter, three at least, sharing a signature is a hole.
SpikeVerdict(slow, holes, events, mattering) ==
    LET top == Greatest(Range(SignatureGroups(mattering)), 0)
    IN  [events |-> events, signatures |-> SignatureGroups(events),
         gapCauses |-> VerdictCounts(Column(holes, LAMBDA e : e.cause)),
         pathSamples |-> Count(slow, LAMBDA e : e.cause = "path"),
         topCount |-> top, of |-> Len(mattering),
         repeated |-> top >= 3 /\ 2 * top >= Len(mattering)]

\* spikeReport: the slowest twentieth of the answers and all freezes; those
\* that matter are the slow enough answers and the freezes the path caused.
\* material: the least length of a slow answer that matters.
SpikeReport(latency, freezes, log, material) ==
    LET take == Max({1, (Len(latency) + 19) \div 20})
        SlowestFirst(s) == SortedBy(s, LAMBDA e : -e.ms)
        worst == SubSeq(SlowestFirst(latency), 1, Min({take, Len(latency)}))
        slow == Column(worst, LAMBDA s : SpikeContext("latency", s.ms, s.sentAt, s.shownAt, s.stamp, log))
        holes == Column(freezes, LAMBDA g : SpikeContext("freeze", g.ms, g.atMs, g.atMs + g.ms, 0, log))
        events == SlowestFirst(slow \o holes)
        Matters(e) == IF e.kind = "latency" THEN material = None \/ e.ms >= material[1]
                      ELSE e.cause = "path"
    IN  SpikeVerdict(slow, holes, events, Kept(events, Matters))
=============================================================================
