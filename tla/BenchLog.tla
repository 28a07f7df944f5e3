------------------------------ MODULE BenchLog ------------------------------
(***************************************************************************)
(* A measured session: what happens between the page and the host, what    *)
(* each of them writes down of it, and what the benches read from that.    *)
(*                                                                         *)
(* Frames may be lost and keep their order; inputs arrive, in order; the   *)
(* page is measured from the moment its logs are cleared.  The host's log  *)
(* is held against what really happened by the numbers of the inputs and   *)
(* frames, which the page does not see (stamps come round again).          *)
(***************************************************************************)
EXTENDS Forensics

CONSTANTS
    MaxTime,      \* bound: length of a session
    MaxFrames, MaxInputs, MaxPings,  \* bounds: what is sent in it
    Stamps,       \* how many stamp values there are (255)
    LogSize,      \* WireRecorder's max
    MinTransit, MaxTransit,  \* matchInputs' tolerance (-25, 3000)
    MaxAge,       \* attributePending's maxAgeMs
    LongGap,      \* a gap longer than this is a freeze
    HostRate,     \* the host's usual rate, frames per thousand seconds
    Hashes,       \* fingerprints of pictures
    Shift         \* what the host's clock is ahead of the page's

ASSUME BenchAssumption ==
    /\ {MaxTime, MaxFrames, MaxInputs, MaxPings, MaxAge, LongGap, HostRate, MaxTransit} \subseteq Nat
    /\ {Stamps, LogSize} \subseteq Nat \ {0}
    /\ MinTransit \in Int /\ MinTransit <= 0 /\ Shift \in Int

VARIABLES
    now, windowFrom,   \* the page's clock, and when its window opened
    hostWire,          \* the host's log: frames sent and inputs arrived
    unanswered,        \* the newest input at the host no frame has answered
    answers,           \* the host's log of answers
    displaced,         \* inputs of the window another took the stamp's place of
    air,               \* frames under way
    wireLog,           \* the page's WireRecorder
    came,              \* history: every frame that ever arrived, and when
    unpainted,         \* a frame arrived since it last painted
    shown,             \* the picture it painted last, and when it painted a change
    inputLog,          \* its inputLog
    pending,           \* benchPendingStamps: answers not painted yet
    samples,           \* the answers it timed
    uplink,            \* inputs under way
    ping, pings        \* a clock request under way, and those answered

hostVars == <<hostWire, unanswered, answers, displaced>>
pageVars == <<wireLog, came, unpainted, shown, inputLog, pending, samples>>
benchVars == <<now, windowFrom, hostVars, air, pageVars, uplink, ping, pings>>

\* How many frames were sent, and the inputs that arrived.
Frames == Cardinality({i \in DOMAIN hostWire : hostWire[i].kind = "frame"})
Arrivals == Kept(hostWire, LAMBDA e : e.kind = "input")

\* No input is under way for longer than the tolerance: the assumption the
\* tolerance rests on.
InputsAreQuick == \A i \in DOMAIN uplink : now - uplink[i].t < MaxTransit

Tick ==
    /\ now < MaxTime /\ InputsAreQuick
    /\ now' = now + 1
    /\ UNCHANGED <<windowFrom, hostVars, air, pageVars, uplink, ping, pings>>

\* The bench clears the page's logs between two moments, but the one it can ask
\* for the sends of its window.
OpenWindow ==
    /\ windowFrom = 0 /\ now < MaxTime /\ ping = None /\ InputsAreQuick
    /\ now' = now + 1 /\ windowFrom' = now + 1
    /\ wireLog' = <<>> /\ samples' = <<>> /\ shown' = [shown EXCEPT !.changes = <<>>]
    /\ displaced' = 0
    /\ UNCHANGED <<hostWire, unanswered, answers, air, came, unpainted, inputLog, pending, uplink, ping, pings>>

\* A frame carries the stamp of the input it answers.
HostSends ==
    /\ Frames < MaxFrames
    /\ LET n == Frames + 1
       IN  /\ hostWire' = Append(hostWire, [t |-> now, kind |-> "frame", bytes |-> 1, id |-> n])
           /\ air' = Append(air, [id |-> n, answer |-> unanswered])
    /\ answers' = answers \o Column(unanswered, LAMBDA e :
                      [t |-> now, stamp |-> e.stamp, ms |-> now - e.arrived])
    /\ unanswered' = None
    /\ UNCHANGED <<now, windowFrom, displaced, pageVars, uplink, ping, pings>>

FrameLost ==
    /\ air # <<>>
    /\ air' = Tail(air)
    /\ UNCHANGED <<now, windowFrom, hostVars, pageVars, uplink, ping, pings>>

\* A frame arrives: the input its stamp means is the newest of that stamp.
FrameArrives ==
    /\ air # <<>>
    /\ air' = Tail(air) /\ unpainted' = TRUE
    /\ wireLog' = Record(wireLog, [t |-> now, kind |-> "frame", bytes |-> 1, id |-> Head(air).id], LogSize)
    /\ came' = came \union {[id |-> Head(air).id, t |-> now]}
    /\ LET Timed(e) == Column(TimeOfStamp(inputLog, e.stamp), LAMBDA t :
                          [stamp |-> e.stamp, t |-> t, input |-> e.input, sent |-> e.sent])
       IN  pending' = pending \o FlattenSeq(Column(Head(air).answer, Timed))
    /\ UNCHANGED <<now, windowFrom, hostVars, shown, inputLog, samples, uplink, ping, pings>>

\* render, notePaint: the first picture ever painted is a change too.
PaintChanged(hash) == shown.last # <<hash>>

\* The page paints what arrived.
Paint(hash) ==
    /\ unpainted /\ unpainted' = FALSE
    /\ shown' = [last |-> <<hash>>,
                 changes |-> IF PaintChanged(hash) THEN Append(shown.changes, now) ELSE shown.changes]
    /\ LET credit == AttributePending(pending, now, PaintChanged(hash), MaxAge)
       IN  /\ pending' = credit.remaining
           /\ samples' = samples \o credit.sample
    /\ UNCHANGED <<now, windowFrom, hostVars, air, wireLog, came, inputLog, uplink, ping, pings>>

Issued == Len(inputLog)
InputSent ==
    /\ Issued < MaxInputs
    /\ inputLog' = LogInput(inputLog, (Issued % Stamps) + 1, now, Issued + 1)
    /\ uplink' = Append(uplink, Last(inputLog'))
    /\ UNCHANGED <<now, windowFrom, hostVars, air, wireLog, came, unpainted, shown, pending, samples, ping, pings>>

InputArrives ==
    /\ uplink # <<>>
    /\ uplink' = Tail(uplink)
    /\ LET e == Head(uplink)
       IN  /\ hostWire' = Append(hostWire, [t |-> now, kind |-> "input", bytes |-> 1, id |-> e.stamp,
                                            input |-> e.input, sent |-> e.t])
           /\ unanswered' = <<[stamp |-> e.stamp, input |-> e.input, sent |-> e.t, arrived |-> now]>>
           /\ displaced' = displaced + Len(unanswered)
    /\ UNCHANGED <<now, windowFrom, answers, air, pageVars, ping, pings>>

\* The page asks for the host's clock; the host reads it; the answer comes.
Ping ==
    /\ ping = None /\ Len(pings) < MaxPings
    /\ ping' = <<[t0 |-> now, hostNow |-> None]>>
    /\ UNCHANGED <<now, windowFrom, hostVars, air, pageVars, uplink, pings>>

HostReadsClock ==
    /\ ping # None /\ ping[1].hostNow = None
    /\ ping' = <<[ping[1] EXCEPT !.hostNow = <<now + Shift>>]>>
    /\ UNCHANGED <<now, windowFrom, hostVars, air, pageVars, uplink, pings>>

Pong ==
    /\ ping # None /\ ping[1].hostNow # None
    /\ ping' = None
    /\ pings' = Append(pings, [t0 |-> ping[1].t0, t1 |-> now, hostNow |-> ping[1].hostNow[1]])
    /\ UNCHANGED <<now, windowFrom, hostVars, air, pageVars, uplink>>

BenchInit ==
    /\ now = 0 /\ windowFrom = 0
    /\ hostWire = <<>> /\ unanswered = None /\ answers = <<>> /\ displaced = 0 /\ air = <<>>
    /\ wireLog = <<>> /\ came = {} /\ unpainted = FALSE /\ shown = [last |-> None, changes |-> <<>>]
    /\ inputLog = <<>> /\ pending = <<>> /\ samples = <<>> /\ uplink = <<>>
    /\ ping = None /\ pings = <<>>

BenchNext ==
    \/ Tick \/ OpenWindow
    \/ HostSends \/ FrameLost \/ FrameArrives \/ (\E hash \in Hashes : Paint(hash))
    \/ InputSent \/ InputArrives
    \/ Ping \/ HostReadsClock \/ Pong

BenchSpec == BenchInit /\ [][BenchNext]_benchVars

-----------------------------------------------------------------------------
(* Properties.                                                              *)

Windowed == Kept(hostWire, LAMBDA e : e.t >= windowFrom)
Received == Column(Arrivals, LAMBDA e : [t |-> e.t, stamp |-> e.id, input |-> e.input])
Sent == Since(inputLog, windowFrom)
WholeLog == Len(wireLog) < LogSize

\* Every frame matchFrameSends calls lost was lost or is still under way, and
\* every frame of the window that was lost before the page's log ended is
\* called so, as long as the page's log was not cut at its limit.
LossesAreReal ==
    WholeLog =>
        \A end \in windowFrom..now :
            LET log == Windowed
                m == MatchFrameSends(log, Kept(wireLog, LAMBDA e : e.t <= end), now, end)
                sentBy == {log[i].id : i \in {j \in DOMAIN log : log[j].kind = "frame" /\ log[j].t <= end}}
                arrivedBy == {a.id : a \in {b \in came : b.t <= end}}
            IN  /\ m.lost = sentBy \ arrivedBy
                /\ \A i \in DOMAIN m.transits : m.transits[i] >= 0
                /\ m.sent = m.arrived + Cardinality(m.lost) + m.beyondLog

\* Every transit matchInputs quotes is that of one input, sent in the window
\* and arrived, although the page's log begins after the host's and stamps come
\* round again, if "The tolerance has to be shorter than one turn of the stamp"
\* is kept.
TurnIsLong ==
    LET sent == Sent
        arrived == Arrivals
    IN  \A i \in DOMAIN sent, j \in DOMAIN arrived :
            sent[i].stamp = arrived[j].id /\ sent[i].input # arrived[j].input =>
                LET apart == sent[i].t - arrived[j].sent
                IN  (IF apart < 0 THEN -apart ELSE apart) > MaxTransit - MinTransit
PairsAreTrue ==
    LET m == MatchInputs(Sent, Received, MinTransit, MaxTransit)
    IN  TurnIsLong =>
            \A i \in DOMAIN m.pairs : m.pairs[i][1].input = m.pairs[i][2].input

\* A freeze or a slow answer is put down to the path only if a frame sent while
\* it lasted had not arrived when it ended, every freeze gets one verdict, and
\* the two counts of path verdicts are those of the events reported.  The host
\* had no input longer than its answer took.
Freezes == FreezeReport(shown.changes, <<LongGap>>).over[1]
Log ==
    LET m == MatchInputs(Sent, Received, MinTransit, MaxTransit)
    IN  [hostWire |-> Windowed, wire |-> wireLog, display |-> shown.changes,
         lost |-> MatchFrameSends(Windowed, wireLog, now, now).lost,
         sends |-> Column(Sent, LAMBDA e : e.t),
         transits |-> MatchVerdict(m, Sent, Received).transits,
         queue |-> <<>>, park |-> <<>>, tasks |-> <<>>, answers |-> answers, hostRate |-> HostRate]
NotArrivedBetween(from, to) ==
    LET log == Windowed
    IN  \E i \in DOMAIN log :
            /\ log[i].kind = "frame" /\ from <= log[i].t /\ log[i].t < to
            /\ \A a \in came : a.id = log[i].id => a.t >= to
BlameIsFounded ==
    \A r \in {SpikeReport(samples, Freezes, Log, None)} :
        /\ WholeLog => \A i \in DOMAIN r.events :
                r.events[i].cause = "path" => NotArrivedBetween(r.events[i].fromMs, r.events[i].toMs)
        /\ r.gapCauses.path + r.gapCauses.quiet + r.gapCauses.unclear = Len(Freezes)
        /\ (\A i \in DOMAIN samples : samples[i].sentAt = samples[i].asked) =>
              \A i \in DOMAIN r.events :
                  r.events[i].hostMs # None => r.events[i].hostMs[1] <= r.events[i].ms
        /\ Count(r.events, LAMBDA e : e.cause = "path") = r.pathSamples + r.gapCauses.path

\* One change answers all inputs waiting for one: no input is timed twice, a
\* later sample is of a later input and none is older than the limit; and no
\* sample is longer than the input really waited: it is shorter only when the
\* stamp had been given to a newer input before the answer came.
TimedOnce ==
    /\ \A i, j \in DOMAIN samples : i < j => samples[i].input < samples[j].input
    /\ \A i \in DOMAIN samples :
          /\ samples[i].ms \in 0..MaxAge
          /\ samples[i].ms <= samples[i].shownAt - samples[i].asked
          /\ \/ samples[i].sentAt = samples[i].asked
             \/ \E k \in DOMAIN inputLog :
                   /\ inputLog[k].stamp = samples[i].stamp /\ inputLog[k].input > samples[i].input
                   /\ inputLog[k].t = samples[i].sentAt

\* No sampler sees more changes than this, per thousand seconds.
AnyRate == 4000000

\* The figures of the pictures shown: the percentiles of the gaps are in order,
\* the last of them is the longest freeze, a gap no change interrupts is kept, a
\* sampler called alive saw gaps of different lengths, and halves that compare
\* are no workload that stopped.
GapFigures ==
    LET changes == shown.changes
        gaps == Gaps(changes)
        stats == GapStats(changes)
        first == Count(changes, LAMBDA t : t < (windowFrom + now) \div 2)
        second == Len(changes) - first
        limits == [minEvents |-> 2, minDistinct |-> 2, spanMs |-> now - windowFrom,
                   minRate |-> 0, maxRate |-> AnyRate]
    IN  /\ gaps # <<>> =>
              /\ stats.max = <<FreezeReport(changes, <<>>).longest[1].ms>>
              /\ stats.median[1] <= stats.p90[1] /\ stats.p90[1] <= stats.max[1]
              /\ 2 * Count(gaps, LAMBDA g : g.ms <= stats.median[1]) >= stats.n
        /\ ReconcileGaps(gaps, changes).withheld = <<>>
        /\ SamplerLiveness(changes, limits) = "ok" => \E g \in Range(gaps) : g.ms < stats.max[1]
        /\ Comparable(<<first>>, <<second>>, 110) => WorkloadGate(first, second, 1, <<1, 4>>) = "ok"

\* Those of the answers and of the arrivals.
LatencyFigures ==
    LET summary == LatencySummary(Column(samples, LAMBDA s : s.ms), 1)
        hole == ArrivalHole(wireLog, 1, 0)
    IN  /\ summary.sufficient =>
              /\ summary.p50[1] <= summary.p90[1] /\ summary.p90[1] <= summary.p95[1]
              /\ summary.p95[1] <= summary.max[1] /\ summary.max[1] <= MaxAge
              /\ 2 * Count(samples, LAMBDA s : s.ms <= summary.p50[1]) >= Len(samples)
        /\ hole # None =>
              /\ hole[1].ms = GapStats(Column(wireLog, LAMBDA e : e.t)).max[1]
              /\ hole[1].burst >= 1 /\ hole[1].toMs <= now

\* Of numbered messages those are missing that did not arrive between two that
\* did.
ProbeFigures ==
    LET ids == {wireLog[i].id : i \in DOMAIN wireLog}
        probes == ProbeArrivals(Len(wireLog), <<Min(ids)>>, <<Max(ids)>>, 0)
    IN  ids # {} =>
            /\ probes.missing = <<Cardinality(Min(ids)..Max(ids) \ ids)>>
            /\ probes.beforeFirstSeen = Cardinality(1..Min(ids) - 1)

\* The buckets of the host's one stamp leave at most one input of the window
\* unaccounted for, and name at most one too many ("A bucket can be one larger
\* than the gap it is meant to explain"), and one more for each input that was
\* under way when the window was opened.
AccountFigures ==
    LET received == Kept(Windowed, LAMBDA e : e.kind = "input")
        answered == Count(answers, LAMBDA e : e.t >= windowFrom)
        account == Coverage(Len(Sent), Len(received), answered, displaced, 0)
    IN  /\ account.unaccounted # None => account.unaccounted[1] <= 1
        /\ displaced <= account.unanswered + 1 + Count(received, LAMBDA e : e.sent < windowFrom)

\* Figures read from one log by different functions do not contradict each other,
\* and what they say is missing is.
FiguresHold == GapFigures /\ LatencyFigures /\ ProbeFigures /\ AccountFigures

\* The clocks put together from round trips differ from the true difference by
\* no more than half the longest round trip.
ClockWithinRoundTrip ==
    pings # <<>> =>
        LET error == ClockAlign(pings).offset2[1] - 2 * Shift
        IN  (IF error < 0 THEN -error ELSE error) <= Max({pings[i].t1 - pings[i].t0 : i \in DOMAIN pings})
=============================================================================
