--------------------------- MODULE MeasurementProofs ---------------------------
(***************************************************************************)
(* What may be read from a measured session, whatever is sent in it and    *)
(* lost of it; and what the reports of both picture comparisons may be     *)
(* trusted for, for every picture, every number of checkpoints, pairs and  *)
(* polls, and every choice of steps of the walk.                           *)
(***************************************************************************)
EXTENDS BenchLog, ParityHarness, SequenceFacts

-----------------------------------------------------------------------------
(* What is kept of a sequence.                                              *)

\* kept holds what s has at the places of I, in their order: src tells where
\* each comes from.
Picks(src, kept, s, I) ==
  /\ src \in [1..Len(kept) -> I]
  /\ \A i, j \in 1..Len(kept) : i < j => src[i] < src[j]
  /\ \A k \in 1..Len(kept) : kept[k] = s[src[k]]
  /\ \A i \in I : \E k \in 1..Len(kept) : src[k] = i

LEMMA KeptPicks ==
  ASSUME NEW M, NEW s \in Seq(M), NEW I \in SUBSET DOMAIN s
  PROVE  LET kept == FlattenSeq([i \in DOMAIN s |-> IF i \in I THEN <<s[i]>> ELSE <<>>])
         IN  kept \in Seq(M) /\ \E src : Picks(src, kept, s, I)
<1> DEFINE ss == [i \in DOMAIN s |-> IF i \in I THEN <<s[i]>> ELSE <<>>]
           kept == FlattenSeq(ss)
<1>1. DOMAIN s = 1..Len(s) /\ Len(s) \in Nat /\ \A i \in DOMAIN s : s[i] \in M
  BY ElementOfSeq
<1>2. ss \in Seq(Seq(M)) /\ Len(ss) = Len(s)
  <2>1. ss \in [1..Len(s) -> Seq(M)]
    BY <1>1
  <2> HIDE DEF ss
  <2> QED
    BY <2>1, <1>1
<1>3. \A i \in 1..Len(ss) : Len(ss[i]) <= 1 /\ (ss[i] # <<>> <=> i \in I)
  BY <1>1, <1>2
<1>4. kept \in Seq(M)
  <2> HIDE DEF ss
  <2> QED
    BY <1>2, FlattenType
<1>5. PICK src : Comes(src, kept, ss, Len(ss))
  <2> HIDE DEF ss
  <2> QED
    BY <1>2, <1>3, FlattenComes
<1>6. \A k \in 1..Len(kept) : src[k] \in I /\ kept[k] = s[src[k]]
  <2> TAKE k \in 1..Len(kept)
  <2>1. src[k] \in 1..Len(ss) /\ ss[src[k]] = <<kept[k]>>
    <3> HIDE DEF kept, ss
    <3> QED
      BY <1>5 DEF Comes
  <2>2. ss[src[k]] # <<>>
    <3> HIDE DEF kept, ss
    <3> QED
      BY <2>1
  <2>3. src[k] \in I
    <3> HIDE DEF kept, ss
    <3> QED
      BY <2>1, <2>2, <1>3
  <2>4. ss[src[k]] = <<s[src[k]]>>
    BY <2>3
  <2> HIDE DEF kept, ss
  <2> QED
    BY <2>1, <2>3, <2>4
<1>7. Picks(src, kept, s, I)
  <2> HIDE DEF kept, ss
  <2> QED
    BY <1>1, <1>2, <1>3, <1>5, <1>6 DEF Picks, Comes
<1> QED
  BY <1>4, <1>7

-----------------------------------------------------------------------------
(* The inputs of a session, on their way from the page and back.            *)

Entry == [stamp : Nat, t : Nat, input : Nat]
Mark == [stamp : Nat, input : Nat, sent : Nat, arrived : Nat]
Credit == [stamp : Nat, t : Nat, input : Nat, sent : Nat]
Timing == [stamp : Nat, sentAt : Nat, shownAt : Nat, ms : Nat, input : Nat, asked : Nat]

\* What the host logs: frames, and inputs.
HostFrame == [t : Nat, kind : {"frame"}, bytes : {1}, id : Nat]
HostInput == [t : Nat, kind : {"input"}, bytes : {1}, id : Nat, input : Nat, sent : Nat]

LineType ==
  /\ now \in Nat
  /\ hostWire \in Seq(HostFrame \union HostInput)
  /\ inputLog \in Seq(Entry) /\ uplink \in Seq(Entry)
  /\ unanswered \in Seq(Mark) /\ Len(unanswered) <= 1
  /\ air \in Seq([id : Nat, answer : Seq(Mark)])
  /\ \A i \in DOMAIN air : Len(air[i].answer) <= 1
  /\ pending \in Seq(Credit) /\ samples \in Seq(Timing)

\* The log has the inputs in order; an input's number is its place in it.
LogInv ==
  /\ \A i \in DOMAIN inputLog : inputLog[i].input = i /\ inputLog[i].t <= now
  /\ \A i, j \in DOMAIN inputLog : i < j => inputLog[i].t <= inputLog[j].t

\* What is on its way is of the log.
Logged(n, stamp, at, log) == n \in DOMAIN log /\ log[n].stamp = stamp /\ log[n].t = at
Reused(n, stamp, at, log) == \E k \in DOMAIN log : log[k].stamp = stamp /\ log[k].input > n /\ log[k].t = at
KnownInv ==
  /\ \A i \in DOMAIN uplink : Logged(uplink[i].input, uplink[i].stamp, uplink[i].t, inputLog)
  /\ \A i \in DOMAIN unanswered :
        Logged(unanswered[i].input, unanswered[i].stamp, unanswered[i].sent, inputLog)
  /\ \A f \in DOMAIN air : \A i \in DOMAIN air[f].answer :
        Logged(air[f].answer[i].input, air[f].answer[i].stamp, air[f].answer[i].sent, inputLog)
  /\ \A i \in DOMAIN pending :
        /\ Logged(pending[i].input, pending[i].stamp, pending[i].sent, inputLog)
        /\ pending[i].sent <= pending[i].t /\ pending[i].t <= now
        /\ pending[i].t = pending[i].sent \/ Reused(pending[i].input, pending[i].stamp, pending[i].t, inputLog)
  /\ \A i \in DOMAIN samples :
        /\ samples[i].input \in DOMAIN inputLog
        /\ samples[i].ms <= MaxAge
        /\ samples[i].ms <= samples[i].shownAt - samples[i].asked
        /\ \/ samples[i].sentAt = samples[i].asked
           \/ Reused(samples[i].input, samples[i].stamp, samples[i].sentAt, inputLog)

\* And it keeps its order: what is further on is older.
Rising(s) == \A i, j \in DOMAIN s : i < j => s[i].input < s[j].input
Below(s, r) == \A i \in DOMAIN s, j \in DOMAIN r : s[i].input < r[j].input
OrderInv ==
  /\ Rising(samples) /\ Rising(pending) /\ Rising(uplink)
  /\ \A f, g \in DOMAIN air : f < g => Below(air[f].answer, air[g].answer)
  /\ Below(samples, pending) /\ Below(samples, unanswered) /\ Below(samples, uplink)
  /\ Below(pending, unanswered) /\ Below(pending, uplink)
  /\ Below(unanswered, uplink)
  /\ \A f \in DOMAIN air :
        /\ Below(samples, air[f].answer) /\ Below(pending, air[f].answer)
        /\ Below(air[f].answer, unanswered) /\ Below(air[f].answer, uplink)

LineInv == LineType /\ LogInv /\ KnownInv /\ OrderInv

lineVars == <<now, inputLog, uplink, unanswered, air, pending, samples>>

-----------------------------------------------------------------------------
(* Small facts about orders.                                                *)

\* What was taken off the front, and what was added at the end, of a sequence.
LEMMA TailFacts ==
  ASSUME NEW M, NEW s \in Seq(M), s # <<>>
  PROVE  /\ Tail(s) \in Seq(M) /\ Len(Tail(s)) = Len(s) - 1 /\ Len(s) \in Nat \ {0}
         /\ \A i \in DOMAIN Tail(s) : i + 1 \in DOMAIN s /\ Tail(s)[i] = s[i + 1]
         /\ 1 \in DOMAIN s /\ Head(s) = s[1] /\ s[1] \in M
  OBVIOUS

LEMMA AppendFacts ==
  ASSUME NEW M, NEW s \in Seq(M), NEW x \in M
  PROVE  /\ Append(s, x) \in Seq(M) /\ Len(Append(s, x)) = Len(s) + 1 /\ Len(s) \in Nat
         /\ DOMAIN Append(s, x) = 1..Len(s) + 1 /\ DOMAIN s = 1..Len(s)
         /\ \A i \in DOMAIN s : Append(s, x)[i] = s[i]
         /\ Append(s, x)[Len(s) + 1] = x
  OBVIOUS

LEMMA ConcatFacts ==
  ASSUME NEW M, NEW s \in Seq(M), NEW r \in Seq(M)
  PROVE  /\ s \o r \in Seq(M) /\ Len(s) \in Nat /\ Len(r) \in Nat
         /\ DOMAIN s = 1..Len(s) /\ DOMAIN r = 1..Len(r) /\ DOMAIN (s \o r) = 1..Len(s) + Len(r)
         /\ \A i \in DOMAIN s : i \in DOMAIN (s \o r) /\ (s \o r)[i] = s[i]
         /\ \A i \in DOMAIN (s \o r) : i \in DOMAIN s \/ (i - Len(s) \in DOMAIN r /\ (s \o r)[i] = r[i - Len(s)])
  OBVIOUS

\* A part of a sequence in its order, and two sequences put together.
LEMMA PickedRises ==
  ASSUME NEW M, NEW s \in Seq(M), NEW I \in SUBSET DOMAIN s, NEW kept, NEW src,
         kept \in Seq(M), Picks(src, kept, s, I), Rising(s)
  PROVE  Rising(kept)
<1>1. DOMAIN kept = 1..Len(kept)
  OBVIOUS
<1> SUFFICES ASSUME NEW i \in DOMAIN kept, NEW j \in DOMAIN kept, i < j
             PROVE  kept[i].input < kept[j].input
  BY DEF Rising
<1>2. src[i] \in DOMAIN s /\ src[j] \in DOMAIN s /\ src[i] < src[j] /\ kept[i] = s[src[i]] /\ kept[j] = s[src[j]]
  BY <1>1 DEF Picks
<1> QED
  BY <1>2 DEF Rising

LEMMA ConcatRises ==
  ASSUME NEW M, M \in {Credit, Timing}, NEW s \in Seq(M), NEW r \in Seq(M), Rising(s), Rising(r), Below(s, r)
  PROVE  s \o r \in Seq(M) /\ Rising(s \o r)
<1> SUFFICES ASSUME NEW i \in DOMAIN (s \o r), NEW j \in DOMAIN (s \o r), i < j
             PROVE  (s \o r)[i].input < (s \o r)[j].input
  BY ConcatFacts DEF Rising
<1>1. CASE j \in DOMAIN s
  <2>1. i \in DOMAIN s
    BY <1>1, ConcatFacts
  <2> QED
    BY <1>1, <2>1, ConcatFacts DEF Rising
<1>2. CASE j \notin DOMAIN s /\ i \in DOMAIN s
  BY <1>2, ConcatFacts DEF Below
<1>3. CASE j \notin DOMAIN s /\ i \notin DOMAIN s
  <2>1. /\ i - Len(s) \in DOMAIN r /\ (s \o r)[i] = r[i - Len(s)]
        /\ j - Len(s) \in DOMAIN r /\ (s \o r)[j] = r[j - Len(s)]
    BY <1>3, ConcatFacts
  <2>2. i - Len(s) < j - Len(s)
    BY ConcatFacts
  <2> QED
    BY <2>1, <2>2 DEF Rising
<1> QED
  BY <1>1, <1>2, <1>3

\* What is made of the answers that a frame brings: one of those it has.
LEMMA TimesOfStamps ==
  ASSUME LineInv, NEW e \in Mark, Logged(e.input, e.stamp, e.sent, inputLog)
  PROVE  \E at \in Nat :
           /\ TimeOfStamp(inputLog, e.stamp) = <<at>>
           /\ e.sent <= at /\ at <= now
           /\ at = e.sent \/ Reused(e.input, e.stamp, at, inputLog)
<1> DEFINE hits == {i \in DOMAIN inputLog : inputLog[i].stamp = e.stamp}
           n == Len(inputLog)
<1>1. inputLog \in Seq(Entry) /\ n \in Nat /\ DOMAIN inputLog = 1..n /\ now \in Nat
  BY DEF LineInv, LineType
<1>2. e.input \in hits
  BY DEF Logged
<1>3. \E m \in hits : \A k \in hits : k <= m
  <2> DEFINE T == {n - i : i \in hits}
  <2>1. T \in SUBSET Nat /\ n - e.input \in T
    BY <1>1, <1>2
  <2>2. PICK l \in T : \A k \in T : l <= k
    <3> HIDE DEF T
    <3> QED
      BY <2>1, LeastElement
  <2>3. PICK m \in hits : l = n - m
    BY <2>2
  <2>4. \A k \in hits : n - k \in T
    OBVIOUS
  <2>5. \A k \in hits : n - m <= n - k /\ k \in Nat /\ m \in Nat
    <3> TAKE k \in hits
    <3>1. k \in 1..n /\ m \in 1..n
      BY <1>1
    <3>2. n - m <= n - k
      <4>1. n - k \in T
        BY <2>4
      <4> HIDE DEF T, hits
      <4> QED
        BY <2>2, <2>3, <4>1
    <3> QED
      BY <1>1, <3>1, <3>2
  <2> HIDE DEF T, hits
  <2> QED
    BY <2>3, <2>5, <1>1
<1>4. Max(hits) \in hits /\ e.input <= Max(hits)
  BY <1>2, <1>3 DEF Max
<1>5. TimeOfStamp(inputLog, e.stamp) = <<inputLog[Max(hits)].t>>
  BY <1>2 DEF TimeOfStamp
<1>6. PICK m : m = Max(hits)
  OBVIOUS
<1>7. m \in DOMAIN inputLog /\ inputLog[m].stamp = e.stamp /\ e.input <= m /\ inputLog[m] \in Entry
  BY <1>1, <1>4, <1>6
<1>8. /\ inputLog[m].t \in Nat /\ inputLog[m].t <= now /\ inputLog[m].input = m
      /\ e.input < m => inputLog[e.input].t <= inputLog[m].t
      /\ e.input \in DOMAIN inputLog /\ inputLog[e.input].t = e.sent /\ e.sent \in Nat
  BY <1>7 DEF LineInv, LogInv, Entry, Logged, Mark
<1>9. m = e.input \/ e.input < m
  BY <1>1, <1>7, <1>8
<1>10. m # e.input => Reused(e.input, e.stamp, inputLog[m].t, inputLog)
  BY <1>7, <1>8, <1>9 DEF Reused
<1>11. e.sent <= inputLog[m].t /\ (inputLog[m].t = e.sent \/ Reused(e.input, e.stamp, inputLog[m].t, inputLog))
  BY <1>8, <1>9, <1>10
<1>12. TimeOfStamp(inputLog, e.stamp) = <<inputLog[m].t>>
  BY <1>5, <1>6
<1>13. PICK at \in Nat : at = inputLog[m].t
  BY <1>8
<1> QED
  BY <1>8, <1>11, <1>12, <1>13

-----------------------------------------------------------------------------
(* The steps.                                                               *)

LEMMA SentAreCounted ==
  ASSUME hostWire \in Seq(HostFrame \union HostInput)
  PROVE  Frames \in Nat
<1>1. IsFiniteSet(1..Len(hostWire))
  BY FS_Interval
<1>2. {i \in DOMAIN hostWire : hostWire[i].kind = "frame"} \subseteq 1..Len(hostWire)
  OBVIOUS
<1>3. IsFiniteSet({i \in DOMAIN hostWire : hostWire[i].kind = "frame"})
  BY <1>1, <1>2, FS_Subset
<1> QED
  BY <1>3, FS_CardinalityType DEF Frames

LEMMA ElementTypes ==
  ASSUME LineType
  PROVE  /\ \A i \in DOMAIN inputLog : inputLog[i] \in Entry /\ inputLog[i].t \in Nat /\ inputLog[i].input \in Nat
         /\ \A i \in DOMAIN uplink : uplink[i] \in Entry /\ uplink[i].t \in Nat /\ uplink[i].input \in Nat
         /\ \A i \in DOMAIN unanswered : unanswered[i] \in Mark /\ unanswered[i].input \in Nat
         /\ \A i \in DOMAIN pending : /\ pending[i] \in Credit /\ pending[i].t \in Nat
                                      /\ pending[i].input \in Nat /\ pending[i].sent \in Nat
         /\ \A i \in DOMAIN samples : samples[i] \in Timing
         /\ \A f \in DOMAIN air : air[f].answer \in Seq(Mark) /\ air[f].id \in Nat
<1>1. /\ inputLog \in Seq(Entry) /\ uplink \in Seq(Entry) /\ unanswered \in Seq(Mark)
      /\ pending \in Seq(Credit) /\ samples \in Seq(Timing)
      /\ air \in Seq([id : Nat, answer : Seq(Mark)])
  BY DEF LineType
<1>2. \A i \in DOMAIN inputLog : inputLog[i] \in Entry
  BY <1>1
<1>3. \A i \in DOMAIN uplink : uplink[i] \in Entry
  BY <1>1
<1>4. \A i \in DOMAIN unanswered : unanswered[i] \in Mark
  BY <1>1
<1>5. \A i \in DOMAIN pending : pending[i] \in Credit
  BY <1>1
<1>6. \A i \in DOMAIN samples : samples[i] \in Timing
  BY <1>1
<1>7. \A f \in DOMAIN air : air[f] \in [id : Nat, answer : Seq(Mark)]
  <2> DEFINE R == [id : Nat, answer : Seq(Mark)]
  <2>1. air \in Seq(R)
    BY <1>1
  <2> HIDE DEF R
  <2>2. \A f \in DOMAIN air : air[f] \in R
    BY <2>1
  <2> QED
    BY <2>2 DEF R
<1>8. \A e \in Entry : e.t \in Nat /\ e.input \in Nat
  BY DEF Entry
<1>9. \A e \in Mark : e.input \in Nat
  BY DEF Mark
<1>10. \A e \in Credit : e.t \in Nat /\ e.input \in Nat /\ e.sent \in Nat
  BY DEF Credit
<1> HIDE <1>1
<1>11. \A f \in DOMAIN air : air[f].answer \in Seq(Mark) /\ air[f].id \in Nat
  BY <1>7
<1> QED
  BY <1>2, <1>3, <1>4, <1>5, <1>6, <1>8, <1>9, <1>10, <1>11

\* Time passes: what is known stays known.
LEMMA TimePasses ==
  ASSUME LineInv, now' \in Nat, now <= now', samples' \in {samples, <<>>},
         UNCHANGED <<hostWire, inputLog, uplink, unanswered, air, pending>>
  PROVE  LineInv'
<1>1. LineType'
  <2>1. samples' \in Seq(Timing)
    <3>1. samples \in Seq(Timing) /\ <<>> \in Seq(Timing)
      BY DEF LineInv, LineType
    <3> QED
      BY <3>1
  <2> QED
    BY <2>1 DEF LineInv, LineType
<1>2. LogInv'
  <2>1. \A i \in DOMAIN inputLog : inputLog[i].t \in Nat
    BY ElementTypes DEF LineInv
  <2> QED
    BY <2>1 DEF LineInv, LineType, LogInv
<1>3. KnownInv'
  <2>1. \A i \in DOMAIN pending : pending[i].t \in Nat
    BY ElementTypes DEF LineInv
  <2>2. \A i \in DOMAIN pending : pending[i].t <= now'
    BY <2>1 DEF LineInv, LineType, KnownInv
  <2> QED
    BY <2>2 DEF LineInv, KnownInv, Logged, Reused
<1>4. OrderInv'
  BY DEF LineInv, OrderInv, Below, Rising
<1> QED
  BY <1>1, <1>2, <1>3, <1>4 DEF LineInv

\* A frame leaves, with the answer.
LEMMA SendStep ==
  ASSUME LineInv, HostSends
  PROVE  LineInv'
<1> DEFINE f == [id |-> Frames + 1, answer |-> unanswered]
           n == Len(air)
<1>1. /\ air' = Append(air, f) /\ unanswered' = <<>>
      /\ hostWire' = Append(hostWire, [t |-> now, kind |-> "frame", bytes |-> 1, id |-> Frames + 1])
      /\ UNCHANGED <<now, inputLog, uplink, pending, samples>>
  BY DEF HostSends, None, pageVars
<1>2. f \in [id : Nat, answer : Seq(Mark)] /\ Frames \in Nat /\ Len(f.answer) <= 1
  BY SentAreCounted DEF LineInv, LineType
<1>3. /\ air \in Seq([id : Nat, answer : Seq(Mark)]) /\ n \in Nat /\ DOMAIN air = 1..n
      /\ air' \in Seq([id : Nat, answer : Seq(Mark)]) /\ DOMAIN air' = 1..n + 1
      /\ \A i \in 1..n : air'[i] = air[i]
      /\ air'[n + 1].answer = unanswered
  <2> HIDE DEF f
  <2>1. air \in Seq([id : Nat, answer : Seq(Mark)])
    BY DEF LineInv, LineType
  <2>2. f.answer = unanswered
    BY DEF f
  <2> QED
    BY <1>1, <1>2, <2>1, <2>2, AppendFacts
<1> HIDE DEF f, n
<1>4. LineType'
  <2>1. hostWire' \in Seq(HostFrame \union HostInput)
    BY <1>1, <1>2 DEF LineInv, LineType, HostFrame
  <2>2. unanswered' \in Seq(Mark) /\ Len(unanswered') <= 1
    BY <1>1
  <2>3. \A i \in DOMAIN air' : Len(air'[i].answer) <= 1
    <3> TAKE i \in DOMAIN air'
    <3>1. i \in 1..n \/ i = n + 1
      BY <1>3
    <3>2. CASE i \in 1..n
      <4>1. air'[i] = air[i] /\ Len(air[i].answer) <= 1
        BY <1>3, <3>2 DEF LineInv, LineType
      <4> QED
        BY <4>1
    <3>3. CASE i = n + 1
      BY <1>3, <3>3 DEF LineInv, LineType
    <3> QED
      BY <3>1, <3>2, <3>3
  <2> QED
    BY <1>1, <1>3, <2>1, <2>2, <2>3 DEF LineInv, LineType
<1>5. LogInv'
  BY <1>1 DEF LineInv, LogInv
<1>6. KnownInv'
  BY <1>1, <1>3 DEF LineInv, KnownInv
<1>7. OrderInv'
  <2>1. \A a, b \in DOMAIN air' : a < b => Below(air'[a].answer, air'[b].answer)
    <3>1. TAKE a, b \in DOMAIN air'
    <3>2. HAVE a < b
    <3>3. a \in 1..n /\ air'[a] = air[a]
      BY <1>3, <3>2
    <3>4. CASE b \in 1..n
      BY <1>3, <3>2, <3>3, <3>4 DEF LineInv, OrderInv
    <3>5. CASE b = n + 1
      BY <1>3, <3>3, <3>5 DEF LineInv, OrderInv
    <3> QED
      BY <1>3, <3>4, <3>5
  <2>2. \A a \in DOMAIN air' : Below(samples, air'[a].answer) /\ Below(pending, air'[a].answer)
                              /\ Below(air'[a].answer, uplink)
    <3>1. TAKE a \in DOMAIN air'
    <3>2. CASE a \in 1..n
      BY <1>3, <3>2 DEF LineInv, OrderInv
    <3>3. CASE a = n + 1
      BY <1>3, <3>3 DEF LineInv, OrderInv
    <3> QED
      BY <1>3, <3>2, <3>3
  <2>3. \A s : Below(s, <<>>) /\ Below(<<>>, s)
    BY DEF Below
  <2> QED
    BY <1>1, <2>1, <2>2, <2>3 DEF LineInv, OrderInv
<1> QED
  BY <1>4, <1>5, <1>6, <1>7 DEF LineInv

\* A frame is gone from the air.
LEMMA AirStep ==
  ASSUME LineInv, air # <<>>
  PROVE  /\ Tail(air) \in Seq([id : Nat, answer : Seq(Mark)])
         /\ \A i \in DOMAIN Tail(air) : i + 1 \in DOMAIN air /\ Tail(air)[i] = air[i + 1]
         /\ Head(air) = air[1] /\ 1 \in DOMAIN air
         /\ \A i, j \in DOMAIN Tail(air) : i < j => i + 1 < j + 1
         /\ \A i \in DOMAIN Tail(air) : 1 < i + 1
<1>1. air \in Seq([id : Nat, answer : Seq(Mark)])
  BY DEF LineInv, LineType
<1> QED
  BY <1>1, TailFacts

LEMMA LostStep ==
  ASSUME LineInv, FrameLost
  PROVE  LineInv'
<1>1. /\ air # <<>> /\ air' = Tail(air)
      /\ UNCHANGED <<now, hostWire, inputLog, uplink, unanswered, pending, samples>>
  BY DEF FrameLost, hostVars, pageVars
<1>2. /\ air' \in Seq([id : Nat, answer : Seq(Mark)])
      /\ \A i \in DOMAIN air' : i + 1 \in DOMAIN air /\ air'[i] = air[i + 1]
      /\ \A i, j \in DOMAIN air' : i < j => i + 1 < j + 1
  BY <1>1, AirStep
<1>3. LineType'
  BY <1>1, <1>2 DEF LineInv, LineType
<1>4. LogInv'
  BY <1>1 DEF LineInv, LogInv
<1>5. KnownInv'
  BY <1>1, <1>2 DEF LineInv, KnownInv
<1>6. OrderInv'
  BY <1>1, <1>2 DEF LineInv, OrderInv
<1> QED
  BY <1>3, <1>4, <1>5, <1>6 DEF LineInv

\* What a frame that arrives adds to the answers to be painted.
Brought ==
  LET Timed(e) == Column(TimeOfStamp(inputLog, e.stamp), LAMBDA t :
                      [stamp |-> e.stamp, t |-> t, input |-> e.input, sent |-> e.sent])
  IN  FlattenSeq(Column(Head(air).answer, Timed))

CreditOf(c, e) ==
  /\ c.input = e.input /\ c.stamp = e.stamp /\ c.sent = e.sent
  /\ e.sent <= c.t /\ c.t <= now
  /\ c.t = e.sent \/ Reused(e.input, e.stamp, c.t, inputLog)

LEMMA BroughtAreCredits ==
  ASSUME LineInv, air # <<>>
  PROVE  /\ Brought \in Seq(Credit) /\ Rising(Brought)
         /\ \A k \in DOMAIN Brought : \E i \in DOMAIN air[1].answer : CreditOf(Brought[k], air[1].answer[i])
<1> DEFINE ans == air[1].answer
           One(e, t) == [stamp |-> e.stamp, t |-> t, input |-> e.input, sent |-> e.sent]
           ss == [i \in DOMAIN ans |-> [j \in DOMAIN TimeOfStamp(inputLog, ans[i].stamp) |->
                                           One(ans[i], TimeOfStamp(inputLog, ans[i].stamp)[j])]]
<1>1. Head(air) = air[1] /\ 1 \in DOMAIN air
  BY AirStep
<1>2. Brought = FlattenSeq(ss)
  BY <1>1 DEF Brought, Column
<1>3. ans \in Seq(Mark) /\ Len(ans) <= 1 /\ Len(ans) \in Nat /\ DOMAIN ans = 1..Len(ans)
  <2>1. ans \in Seq(Mark)
    BY <1>1, ElementTypes DEF LineInv
  <2>2. Len(ans) <= 1
    BY <1>1 DEF LineInv, LineType
  <2> HIDE DEF ans
  <2> QED
    BY <2>1, <2>2
<1>4. \A i \in DOMAIN ans : ans[i] \in Mark /\ Logged(ans[i].input, ans[i].stamp, ans[i].sent, inputLog)
  <2>1. \A i \in DOMAIN ans : ans[i] \in Mark
    <3> HIDE DEF ans
    <3> QED
      BY <1>3
  <2> QED
    BY <1>1, <2>1 DEF LineInv, KnownInv
<1>5. \A i \in DOMAIN ans : \E c \in Credit : ss[i] = <<c>> /\ CreditOf(c, ans[i])
  <2> TAKE i \in DOMAIN ans
  <2>1. PICK e \in Mark : e = ans[i]
    BY <1>4
  <2>2. PICK at \in Nat : /\ TimeOfStamp(inputLog, e.stamp) = <<at>>
                          /\ e.sent <= at /\ at <= now
                          /\ at = e.sent \/ Reused(e.input, e.stamp, at, inputLog)
    BY <1>4, <2>1, TimesOfStamps
  <2>3. One(e, at) \in Credit /\ CreditOf(One(e, at), e)
    BY <2>2 DEF Credit, Mark, CreditOf
  <2>4. ss[i] = [j \in DOMAIN <<at>> |-> One(e, <<at>>[j])]
    BY <2>1, <2>2
  <2>5. [j \in DOMAIN <<at>> |-> One(e, <<at>>[j])] = <<One(e, at)>>
    <3> HIDE DEF One
    <3> QED
      OBVIOUS
  <2> HIDE DEF ss, One, ans
  <2> QED
    BY <2>1, <2>3, <2>4, <2>5
<1>6. ss \in Seq(Seq(Credit)) /\ Len(ss) = Len(ans)
  <2>1. \A i \in DOMAIN ans : ss[i] \in Seq(Credit)
    <3> TAKE i \in DOMAIN ans
    <3>1. PICK c \in Credit : ss[i] = <<c>>
      BY <1>5
    <3>2. <<c>> \in Seq(Credit)
      OBVIOUS
    <3> HIDE DEF ss, ans
    <3> QED
      BY <3>1, <3>2
  <2>2. ss \in [1..Len(ans) -> Seq(Credit)]
    BY <1>3, <2>1
  <2> HIDE DEF ss, ans
  <2> QED
    BY <1>3, <2>2
<1>7. \A i \in 1..Len(ss) : Len(ss[i]) <= 1
  <2> HIDE DEF ss, ans
  <2> QED
    BY <1>3, <1>5, <1>6
<1> HIDE DEF ss, ans
<1>8. Brought \in Seq(Credit)
  BY <1>2, <1>6, FlattenType
<1>9. PICK src : Comes(src, Brought, ss, Len(ss))
  BY <1>2, <1>6, <1>7, FlattenComes
<1>10. DOMAIN Brought = 1..Len(Brought) /\ Len(Brought) \in Nat
  BY <1>8
<1>11. Rising(Brought)
  <2> SUFFICES ASSUME NEW i \in DOMAIN Brought, NEW j \in DOMAIN Brought, i < j
               PROVE  FALSE
    BY DEF Rising
  <2>1. src[i] \in 1..Len(ans) /\ src[j] \in 1..Len(ans) /\ src[i] < src[j]
    BY <1>6, <1>9, <1>10 DEF Comes
  <2> QED
    BY <2>1, <1>3
<1>12. \A k \in DOMAIN Brought : \E i \in DOMAIN ans : CreditOf(Brought[k], ans[i])
  <2> TAKE k \in DOMAIN Brought
  <2>1. src[k] \in DOMAIN ans /\ ss[src[k]] = <<Brought[k]>>
    BY <1>3, <1>6, <1>9, <1>10 DEF Comes
  <2>2. PICK c \in Credit : ss[src[k]] = <<c>> /\ CreditOf(c, ans[src[k]])
    BY <1>5, <2>1
  <2>3. c = Brought[k]
    BY <2>1, <2>2
  <2> QED
    BY <2>1, <2>2, <2>3
<1> QED
  BY <1>8, <1>11, <1>12 DEF ans

LEMMA ArriveStep ==
  ASSUME LineInv, FrameArrives
  PROVE  LineInv'
<1>1. /\ air # <<>> /\ air' = Tail(air) /\ pending' = pending \o Brought
      /\ UNCHANGED <<now, hostWire, inputLog, uplink, unanswered, samples>>
  BY DEF FrameArrives, Brought, hostVars
<1>2. /\ air' \in Seq([id : Nat, answer : Seq(Mark)])
      /\ \A i \in DOMAIN air' : i + 1 \in DOMAIN air /\ air'[i] = air[i + 1]
      /\ \A i, j \in DOMAIN air' : i < j => i + 1 < j + 1
      /\ 1 \in DOMAIN air /\ \A i \in DOMAIN air' : 1 < i + 1
  BY <1>1, AirStep
<1>3. /\ Brought \in Seq(Credit) /\ Rising(Brought)
      /\ \A k \in DOMAIN Brought : \E i \in DOMAIN air[1].answer : CreditOf(Brought[k], air[1].answer[i])
  BY <1>1, BroughtAreCredits
<1>4. pending \in Seq(Credit) /\ Rising(pending) /\ Below(pending, air[1].answer)
  BY <1>2 DEF LineInv, LineType, OrderInv
<1>5. Below(pending, Brought)
  BY <1>3, <1>4 DEF Below, CreditOf
<1>6. pending' \in Seq(Credit) /\ Rising(pending')
  BY <1>1, <1>3, <1>4, <1>5, ConcatRises
<1>7. \A k \in DOMAIN pending' :
         \/ \E j \in DOMAIN pending : pending'[k] = pending[j]
         \/ \E i \in DOMAIN air[1].answer : CreditOf(pending'[k], air[1].answer[i])
  <2> TAKE k \in DOMAIN pending'
  <2>1. CASE k \in DOMAIN pending
    BY <1>1, <1>3, <1>4, <2>1, ConcatFacts
  <2>2. CASE k \notin DOMAIN pending
    <3>1. k - Len(pending) \in DOMAIN Brought /\ pending'[k] = Brought[k - Len(pending)]
      BY <1>1, <1>3, <1>4, <2>2, ConcatFacts
    <3> QED
      BY <1>3, <3>1
  <2> QED
    BY <2>1, <2>2
<1>8. LineType'
  BY <1>1, <1>2, <1>6 DEF LineInv, LineType
<1>9. LogInv'
  BY <1>1 DEF LineInv, LogInv
<1>10. KnownInv'
  <2>1. \A k \in DOMAIN pending' :
          /\ Logged(pending'[k].input, pending'[k].stamp, pending'[k].sent, inputLog)
          /\ pending'[k].sent <= pending'[k].t /\ pending'[k].t <= now
          /\ \/ pending'[k].t = pending'[k].sent
             \/ Reused(pending'[k].input, pending'[k].stamp, pending'[k].t, inputLog)
    <3> TAKE k \in DOMAIN pending'
    <3>1. CASE \E j \in DOMAIN pending : pending'[k] = pending[j]
      BY <3>1 DEF LineInv, KnownInv
    <3>2. ASSUME NEW i \in DOMAIN air[1].answer, CreditOf(pending'[k], air[1].answer[i])
          PROVE  /\ Logged(pending'[k].input, pending'[k].stamp, pending'[k].sent, inputLog)
                 /\ pending'[k].sent <= pending'[k].t /\ pending'[k].t <= now
                 /\ \/ pending'[k].t = pending'[k].sent
                    \/ Reused(pending'[k].input, pending'[k].stamp, pending'[k].t, inputLog)
      <4>1. Logged(air[1].answer[i].input, air[1].answer[i].stamp, air[1].answer[i].sent, inputLog)
        BY <1>2 DEF LineInv, KnownInv
      <4> QED
        BY <3>2, <4>1 DEF CreditOf
    <3> QED
      BY <1>7, <3>1, <3>2
  <2> QED
    BY <1>1, <1>2, <2>1 DEF LineInv, KnownInv
<1>11. OrderInv'
  <2>1. \A k \in DOMAIN pending' :
          \/ \E j \in DOMAIN pending : pending'[k].input = pending[j].input
          \/ \E i \in DOMAIN air[1].answer : pending'[k].input = air[1].answer[i].input
    BY <1>7 DEF CreditOf
  <2>2. Below(samples, pending')
    BY <1>2, <2>1 DEF LineInv, OrderInv, Below
  <2>3. Below(pending', unanswered) /\ Below(pending', uplink)
    BY <1>2, <2>1 DEF LineInv, OrderInv, Below
  <2>4. \A f \in DOMAIN air' : Below(pending', air'[f].answer)
    <3> TAKE f \in DOMAIN air'
    <3>1. Below(pending, air'[f].answer) /\ Below(air[1].answer, air'[f].answer)
      BY <1>2 DEF LineInv, OrderInv
    <3> QED
      BY <2>1, <3>1 DEF Below
  <2> QED
    BY <1>1, <1>2, <1>6, <2>2, <2>3, <2>4 DEF LineInv, OrderInv
<1> QED
  BY <1>8, <1>9, <1>10, <1>11 DEF LineInv

\* A paint drops what is too old, and may credit the newest of the rest.
Fresh == Kept(pending, LAMBDA p : now - p.t <= MaxAge)

LEMMA FreshArePicked ==
  ASSUME LineInv
  PROVE  /\ Fresh \in Seq(Credit) /\ Rising(Fresh)
         /\ \A k \in DOMAIN Fresh : \E i \in DOMAIN pending : Fresh[k] = pending[i] /\ now - pending[i].t <= MaxAge
<1> DEFINE I == {i \in DOMAIN pending : now - pending[i].t <= MaxAge}
<1>1. Fresh = FlattenSeq([i \in DOMAIN pending |-> IF i \in I THEN <<pending[i]>> ELSE <<>>])
  <2>1. [i \in DOMAIN pending |-> IF i \in I THEN <<pending[i]>> ELSE <<>>]
          = [i \in DOMAIN pending |-> IF now - pending[i].t <= MaxAge THEN <<pending[i]>> ELSE <<>>]
    OBVIOUS
  <2> QED
    BY <2>1 DEF Fresh, Kept
<1>2. pending \in Seq(Credit) /\ Rising(pending) /\ I \in SUBSET DOMAIN pending
  BY DEF LineInv, LineType, OrderInv
<1>3. I \subseteq DOMAIN pending /\ \A i \in I : now - pending[i].t <= MaxAge
  OBVIOUS
<1> HIDE DEF I
<1>4. Fresh \in Seq(Credit) /\ \E src : Picks(src, Fresh, pending, I)
  BY <1>1, <1>2, KeptPicks
<1>5. PICK src : Picks(src, Fresh, pending, I)
  BY <1>4
<1>6. Rising(Fresh)
  BY <1>2, <1>4, <1>5, PickedRises
<1>7. DOMAIN Fresh = 1..Len(Fresh)
  BY <1>4
<1>8. \A k \in DOMAIN Fresh : src[k] \in I /\ Fresh[k] = pending[src[k]]
  BY <1>5, <1>7 DEF Picks
<1> QED
  BY <1>3, <1>4, <1>6, <1>8

LEMMA PaintStep ==
  ASSUME LineInv, NEW hash \in Hashes, Paint(hash)
  PROVE  LineInv'
<1>1. UNCHANGED <<now, hostWire, inputLog, uplink, unanswered, air>>
  BY DEF Paint, hostVars
<1>2. \/ pending' = Fresh /\ samples' = samples \o <<>>
      \/ Fresh # <<>> /\ pending' = <<>> /\ samples' = samples \o <<Sample(Last(Fresh), now)>>
  BY DEF Paint, AttributePending, Fresh, None
<1>3. /\ Fresh \in Seq(Credit) /\ Rising(Fresh)
      /\ \A k \in DOMAIN Fresh : \E i \in DOMAIN pending : Fresh[k] = pending[i] /\ now - pending[i].t <= MaxAge
  BY FreshArePicked
<1>4. samples \in Seq(Timing) /\ Rising(samples) /\ samples \o <<>> = samples
  BY DEF LineInv, LineType, OrderInv
<1>5. LogInv'
  BY <1>1 DEF LineInv, LogInv
<1>6. CASE pending' = Fresh /\ samples' = samples \o <<>>
  <2>1. LineType'
    BY <1>1, <1>3, <1>4, <1>6 DEF LineInv, LineType
  <2>2. KnownInv'
    <3>1. \A k \in DOMAIN pending' : \E i \in DOMAIN pending : pending'[k] = pending[i]
      BY <1>3, <1>6
    <3> QED
      BY <1>1, <1>4, <1>6, <3>1 DEF LineInv, KnownInv
  <2>3. OrderInv'
    <3>1. \A s : (Below(pending, s) => Below(pending', s)) /\ (Below(s, pending) => Below(s, pending'))
      BY <1>3, <1>6 DEF Below
    <3> QED
      BY <1>1, <1>3, <1>4, <1>6, <3>1 DEF LineInv, OrderInv
  <2> QED
    BY <1>5, <2>1, <2>2, <2>3 DEF LineInv
<1>7. CASE Fresh # <<>> /\ pending' = <<>> /\ samples' = samples \o <<Sample(Last(Fresh), now)>>
  <2>1. PICK p \in Credit : p = Last(Fresh) /\ \E i \in DOMAIN pending : p = pending[i] /\ now - pending[i].t <= MaxAge
    <3>1. Len(Fresh) \in DOMAIN Fresh /\ Last(Fresh) = Fresh[Len(Fresh)] /\ Fresh[Len(Fresh)] \in Credit
      BY <1>3, <1>7 DEF Last
    <3> QED
      BY <1>3, <3>1
  <2>2. PICK i \in DOMAIN pending : p = pending[i] /\ now - pending[i].t <= MaxAge
    BY <2>1
  <2>3. /\ Logged(p.input, p.stamp, p.sent, inputLog) /\ p.sent <= p.t /\ p.t <= now
        /\ p.t = p.sent \/ Reused(p.input, p.stamp, p.t, inputLog)
    BY <2>2 DEF LineInv, KnownInv
  <2>4. PICK x : x = Sample(p, now)
    OBVIOUS
  <2>5. /\ x \in Timing /\ x.input = p.input /\ x.ms <= MaxAge /\ x.ms <= x.shownAt - x.asked
        /\ x.input \in DOMAIN inputLog
        /\ x.sentAt = x.asked \/ Reused(x.input, x.stamp, x.sentAt, inputLog)
    <3>1. now \in Nat /\ p.t \in Nat /\ p.sent \in Nat /\ p.input \in Nat /\ p.stamp \in Nat
      BY DEF LineInv, LineType, Credit
    <3>2. now - p.t \in Nat /\ now - p.t <= MaxAge /\ now - p.t <= now - p.sent
      BY <2>2, <2>3, <3>1
    <3>3. /\ x.stamp = p.stamp /\ x.sentAt = p.t /\ x.shownAt = now /\ x.ms = now - p.t
          /\ x.input = p.input /\ x.asked = p.sent
      BY <2>4 DEF Sample
    <3>4. x \in Timing
      BY <2>4, <3>1, <3>2 DEF Sample, Timing
    <3>5. p.input \in DOMAIN inputLog
      BY <2>3 DEF Logged
    <3> QED
      BY <2>3, <3>2, <3>3, <3>4, <3>5
  <2>6. samples' = samples \o <<x>> /\ <<x>> \in Seq(Timing) /\ Rising(<<x>>)
    BY <1>7, <2>1, <2>4, <2>5 DEF Rising
  <2>7. Below(samples, <<x>>)
    <3>1. Below(samples, pending)
      BY DEF LineInv, OrderInv
    <3> QED
      BY <2>2, <2>5, <3>1 DEF Below
  <2>8. samples' \in Seq(Timing) /\ Rising(samples')
    BY <1>4, <2>6, <2>7, ConcatRises
  <2>9. \A k \in DOMAIN samples' : (\E j \in DOMAIN samples : samples'[k] = samples[j]) \/ samples'[k] = x
    <3> TAKE k \in DOMAIN samples'
    <3>1. CASE k \in DOMAIN samples
      BY <1>4, <2>6, <3>1, ConcatFacts
    <3>2. CASE k \notin DOMAIN samples
      <4>1. k - Len(samples) \in DOMAIN <<x>> /\ samples'[k] = <<x>>[k - Len(samples)]
        BY <1>4, <2>6, <3>2, ConcatFacts
      <4> QED
        BY <4>1
    <3> QED
      BY <3>1, <3>2
  <2>10. LineType'
    BY <1>1, <1>7, <2>8 DEF LineInv, LineType
  <2>11. KnownInv'
    <3>1. \A k \in DOMAIN samples' :
        /\ samples'[k].input \in DOMAIN inputLog
        /\ samples'[k].ms <= MaxAge
        /\ samples'[k].ms <= samples'[k].shownAt - samples'[k].asked
        /\ \/ samples'[k].sentAt = samples'[k].asked
           \/ Reused(samples'[k].input, samples'[k].stamp, samples'[k].sentAt, inputLog)
      BY <2>5, <2>9 DEF LineInv, KnownInv
    <3> QED
      BY <1>1, <1>7, <3>1 DEF LineInv, KnownInv
  <2>12. OrderInv'
    <3>1. \A s : Below(samples, s) /\ Below(pending, s) => Below(samples', s)
      BY <2>2, <2>5, <2>9 DEF Below
    <3>2. \A s : Below(<<>>, s) /\ Below(s, <<>>)
      BY DEF Below
    <3>3. Rising(pending')
      BY <1>7 DEF Rising
    <3> QED
      BY <1>1, <1>7, <2>8, <3>1, <3>2, <3>3 DEF LineInv, OrderInv
  <2> QED
    BY <1>5, <2>10, <2>11, <2>12 DEF LineInv
<1> QED
  BY <1>2, <1>6, <1>7

\* An input is sent: it is the newest of the log.
LEMMA InputStep ==
  ASSUME LineInv, InputSent
  PROVE  LineInv'
<1>1. PICK n : n = Len(inputLog)
  OBVIOUS
<1>2. PICK e : e = [stamp |-> (n % Stamps) + 1, t |-> now, input |-> n + 1]
  OBVIOUS
<1>3. inputLog \in Seq(Entry) /\ uplink \in Seq(Entry) /\ n \in Nat /\ DOMAIN inputLog = 1..n /\ now \in Nat
  BY <1>1 DEF LineInv, LineType
<1>4. e \in Entry /\ e.t = now /\ e.input = n + 1
  <2>1. (n % Stamps) + 1 \in Nat
    BY <1>3, BenchAssumption
  <2> QED
    BY <1>2, <1>3, <2>1 DEF Entry
<1>5. /\ inputLog' = Append(inputLog, e)
      /\ UNCHANGED <<now, hostWire, unanswered, air, pending, samples>>
  BY <1>1, <1>2 DEF InputSent, LogInput, Issued, hostVars
<1>6. /\ inputLog' \in Seq(Entry) /\ DOMAIN inputLog' = 1..n + 1
      /\ \A i \in 1..n : inputLog'[i] = inputLog[i]
      /\ inputLog'[n + 1] = e /\ Len(inputLog') = n + 1
  BY <1>1, <1>3, <1>4, <1>5, AppendFacts
<1>7. uplink' = Append(uplink, e)
  <2>1. Last(inputLog') = e
    BY <1>3, <1>6 DEF Last
  <2> QED
    BY <2>1 DEF InputSent
<1>8. PICK m : m = Len(uplink)
  OBVIOUS
<1>9. /\ uplink' \in Seq(Entry) /\ DOMAIN uplink' = 1..m + 1 /\ DOMAIN uplink = 1..m /\ m \in Nat
      /\ \A i \in 1..m : uplink'[i] = uplink[i]
      /\ uplink'[m + 1] = e
  BY <1>3, <1>4, <1>7, <1>8, AppendFacts
<1>10. LineType'
  BY <1>5, <1>6, <1>9 DEF LineInv, LineType
<1>11. LogInv'
  <2>1. \A i \in 1..n + 1 : i \in 1..n \/ i = n + 1
    BY <1>3
  <2>2. \A i \in 1..n : inputLog[i].input = i /\ inputLog[i].t <= now
    BY <1>3 DEF LineInv, LogInv
  <2>3. \A i \in 1..n + 1 : inputLog'[i].input = i /\ inputLog'[i].t <= now
    BY <1>3, <1>4, <1>6, <2>1, <2>2
  <2>4. \A i, j \in 1..n + 1 : i < j => inputLog'[i].t <= inputLog'[j].t
    <3> TAKE i, j \in 1..n + 1
    <3> HAVE i < j
    <3>1. i \in 1..n
      BY <1>3
    <3>2. CASE j \in 1..n
      BY <1>3, <1>6, <3>1, <3>2 DEF LineInv, LogInv
    <3>3. CASE j = n + 1
      BY <1>4, <1>6, <2>2, <3>1, <3>3
    <3> QED
      BY <2>1, <3>2, <3>3
  <2> QED
    BY <1>5, <1>6, <2>3, <2>4 DEF LogInv
<1>12. \A a, b, c : Logged(a, b, c, inputLog) => Logged(a, b, c, inputLog') /\ a \in 1..n
  <2>1. 1..n \subseteq 1..n + 1
    BY <1>3
  <2> QED
    BY <1>3, <1>6, <2>1 DEF Logged
<1>13. \A a, b, c : Reused(a, b, c, inputLog) => Reused(a, b, c, inputLog')
  <2>1. 1..n \subseteq 1..n + 1
    BY <1>3
  <2> QED
    BY <1>3, <1>6, <2>1 DEF Reused
<1>14. KnownInv'
  <2>1. \A i \in DOMAIN uplink' : Logged(uplink'[i].input, uplink'[i].stamp, uplink'[i].t, inputLog')
    <3> TAKE i \in DOMAIN uplink'
    <3>1. CASE i \in 1..m
      BY <1>9, <1>12, <3>1 DEF LineInv, KnownInv
    <3>2. CASE i = m + 1
      <4>1. n + 1 \in 1..n + 1
        BY <1>3
      <4> QED
        BY <1>4, <1>6, <1>9, <3>2, <4>1 DEF Logged
    <3> QED
      BY <1>9, <3>1, <3>2
  <2> QED
    BY <1>5, <1>12, <1>13, <2>1 DEF LineInv, KnownInv
<1>15. OrderInv'
  <2>1. \A i \in DOMAIN uplink : uplink[i].input < n + 1
    BY <1>3, <1>12, ElementTypes DEF LineInv, KnownInv
  <2>2. \A i \in DOMAIN unanswered : unanswered[i].input < n + 1
    BY <1>3, <1>12, ElementTypes DEF LineInv, KnownInv
  <2>3. \A i \in DOMAIN pending : pending[i].input < n + 1
    BY <1>3, <1>12, ElementTypes DEF LineInv, KnownInv
  <2>4. \A i \in DOMAIN samples : samples[i].input < n + 1
    BY <1>3 DEF LineInv, KnownInv
  <2>5. \A f \in DOMAIN air : \A i \in DOMAIN air[f].answer : air[f].answer[i].input < n + 1
    <3> TAKE f \in DOMAIN air
    <3> TAKE i \in DOMAIN air[f].answer
    <3>1. air[f].answer[i].input \in 1..n
      BY <1>12 DEF LineInv, KnownInv
    <3> QED
      BY <1>3, <3>1
  <2>6. \A i \in DOMAIN uplink' : (i \in DOMAIN uplink /\ uplink'[i] = uplink[i]) \/ (i = m + 1 /\ uplink'[i].input = n + 1)
    BY <1>4, <1>9
  <2>7. Rising(uplink')
    <3> SUFFICES ASSUME NEW i \in DOMAIN uplink', NEW j \in DOMAIN uplink', i < j
                 PROVE  uplink'[i].input < uplink'[j].input
      BY DEF Rising
    <3>1. i \in DOMAIN uplink /\ uplink'[i] = uplink[i]
      BY <1>9
    <3> QED
      BY <2>1, <2>6, <3>1 DEF LineInv, OrderInv, Rising
  <2>8. \A s : Below(s, uplink) /\ (\A i \in DOMAIN s : s[i].input < n + 1) => Below(s, uplink')
    BY <2>6 DEF Below
  <2>9. Below(samples, uplink') /\ Below(pending, uplink') /\ Below(unanswered, uplink')
    BY <2>2, <2>3, <2>4, <2>8 DEF LineInv, OrderInv
  <2>10. \A f \in DOMAIN air : Below(air[f].answer, uplink')
    BY <2>5, <2>8 DEF LineInv, OrderInv
  <2> QED
    BY <1>5, <2>7, <2>9, <2>10 DEF LineInv, OrderInv
<1> QED
  BY <1>10, <1>11, <1>14, <1>15 DEF LineInv

\* An input reaches the host: it is the newest no frame has answered.
LEMMA HostInputStep ==
  ASSUME LineInv, InputArrives
  PROVE  LineInv'
<1>1. PICK e : e = Head(uplink)
  OBVIOUS
<1>2. PICK u : u = [stamp |-> e.stamp, input |-> e.input, sent |-> e.t, arrived |-> now]
  OBVIOUS
<1>3. /\ uplink # <<>> /\ uplink' = Tail(uplink) /\ unanswered' = <<u>>
      /\ hostWire' = Append(hostWire, [t |-> now, kind |-> "input", bytes |-> 1, id |-> e.stamp,
                                       input |-> e.input, sent |-> e.t])
      /\ UNCHANGED <<now, inputLog, air, pending, samples>>
  BY <1>1, <1>2 DEF InputArrives, pageVars
<1>4. /\ uplink \in Seq(Entry) /\ uplink' \in Seq(Entry) /\ e \in Entry /\ e = uplink[1] /\ 1 \in DOMAIN uplink
      /\ \A i \in DOMAIN uplink' : i + 1 \in DOMAIN uplink /\ uplink'[i] = uplink[i + 1]
      /\ \A i, j \in DOMAIN uplink' : i < j => i + 1 < j + 1
      /\ \A i \in DOMAIN uplink' : 1 < i + 1
  <2>1. uplink \in Seq(Entry)
    BY DEF LineInv, LineType
  <2> QED
    BY <1>1, <1>3, <2>1, TailFacts
<1>5. u \in Mark /\ u.input = e.input /\ u.stamp = e.stamp /\ u.sent = e.t
  BY <1>2, <1>4 DEF Mark, Entry, LineInv, LineType
<1>6. <<u>> \in Seq(Mark) /\ Len(<<u>>) <= 1 /\ DOMAIN <<u>> = {1} /\ <<u>>[1] = u
  BY <1>5
<1>7. LineType'
  <2>1. hostWire' \in Seq(HostFrame \union HostInput)
    <3>1. [t |-> now, kind |-> "input", bytes |-> 1, id |-> e.stamp, input |-> e.input, sent |-> e.t] \in HostInput
      BY <1>4 DEF HostInput, Entry, LineInv, LineType
    <3> QED
      BY <1>3, <3>1, AppendFacts DEF LineInv, LineType
  <2> QED
    BY <1>3, <1>4, <1>6, <2>1 DEF LineInv, LineType
<1>8. LogInv'
  BY <1>3 DEF LineInv, LogInv
<1>9. KnownInv'
  <2>1. Logged(u.input, u.stamp, u.sent, inputLog)
    BY <1>4, <1>5 DEF LineInv, KnownInv
  <2>2. \A i \in DOMAIN unanswered' :
          Logged(unanswered'[i].input, unanswered'[i].stamp, unanswered'[i].sent, inputLog)
    BY <1>3, <1>6, <2>1
  <2> QED
    BY <1>3, <1>4, <2>2 DEF LineInv, KnownInv
<1>10. OrderInv'
  <2>1. \A i \in DOMAIN uplink' : e.input < uplink'[i].input
    BY <1>4 DEF LineInv, OrderInv, Rising
  <2>2. Below(unanswered', uplink')
    BY <1>3, <1>5, <1>6, <2>1 DEF Below
  <2>3. \A s : Below(s, uplink) => Below(s, unanswered') /\ Below(s, uplink')
    BY <1>3, <1>4, <1>5, <1>6 DEF Below
  <2>4. Rising(uplink')
    BY <1>4 DEF LineInv, OrderInv, Rising
  <2> QED
    BY <1>3, <2>2, <2>3, <2>4 DEF LineInv, OrderInv
<1> QED
  BY <1>7, <1>8, <1>9, <1>10 DEF LineInv

LEMMA LineStep ==
  ASSUME LineInv, [BenchNext]_benchVars
  PROVE  LineInv'
<1>0. now \in Nat
  BY DEF LineInv, LineType
<1>1. CASE Tick
  BY <1>0, <1>1, TimePasses DEF Tick, hostVars, pageVars
<1>2. CASE OpenWindow
  BY <1>0, <1>2, TimePasses DEF OpenWindow
<1>3. CASE HostSends
  BY <1>3, SendStep
<1>4. CASE FrameLost
  BY <1>4, LostStep
<1>5. CASE FrameArrives
  BY <1>5, ArriveStep
<1>6. CASE \E hash \in Hashes : Paint(hash)
  BY <1>6, PaintStep
<1>7. CASE InputSent
  BY <1>7, InputStep
<1>8. CASE InputArrives
  BY <1>8, HostInputStep
<1>9. CASE Ping \/ HostReadsClock \/ Pong
  BY <1>0, <1>9, TimePasses DEF Ping, HostReadsClock, Pong, hostVars, pageVars
<1>10. CASE UNCHANGED benchVars
  BY <1>0, <1>10, TimePasses DEF benchVars, hostVars, pageVars
<1> QED
  BY <1>1, <1>2, <1>3, <1>4, <1>5, <1>6, <1>7, <1>8, <1>9, <1>10 DEF BenchNext

LEMMA LineStarts == BenchInit => LineInv
<1> SUFFICES ASSUME BenchInit PROVE LineInv
  OBVIOUS
<1>1. LineType
  BY DEF BenchInit, LineType, None
<1>2. LogInv
  BY DEF BenchInit, LogInv
<1>3. KnownInv
  BY DEF BenchInit, KnownInv, None
<1>4. OrderInv
  BY DEF BenchInit, OrderInv, Rising, Below, None
<1> QED
  BY <1>1, <1>2, <1>3, <1>4 DEF LineInv

\* No answer is timed twice, later ones are of later inputs, none is older than the
\* limit, and none is longer than the input really waited (attributePending,
\* notePaint and benchPendingStamps of GameCanvas.jsx).
THEOREM TimedOnlyOnce == BenchSpec => []TimedOnce
<1>1. LineInv => TimedOnce
  <2> SUFFICES ASSUME LineInv PROVE TimedOnce
    OBVIOUS
  <2>1. \A i, j \in DOMAIN samples : i < j => samples[i].input < samples[j].input
    BY DEF LineInv, OrderInv, Rising
  <2>2. \A i \in DOMAIN samples : samples[i].ms \in 0..MaxAge
    <3> TAKE i \in DOMAIN samples
    <3>1. samples[i].ms \in Nat /\ samples[i].ms <= MaxAge
      BY ElementTypes DEF LineInv, KnownInv, Timing
    <3> QED
      BY <3>1, BenchAssumption
  <2> QED
    BY <2>1, <2>2 DEF TimedOnce, LineInv, KnownInv, Reused
<1> QED
  BY <1>1, LineStarts, LineStep, PTL DEF BenchSpec

-----------------------------------------------------------------------------
(* Pairs.                                                                   *)

\* The least and the greatest of whole numbers that are bounded.
LEMMA LeastOf ==
  ASSUME NEW S \in SUBSET Int, S # {}, NEW lo \in Int, \A v \in S : lo <= v
  PROVE  Min(S) \in S /\ \A v \in S : Min(S) <= v
<1> DEFINE T == {v - lo : v \in S}
<1>0. \A v \in S : v \in Int /\ v - lo \in Nat
  OBVIOUS
<1>1. T \in SUBSET Nat /\ T # {}
  BY <1>0
<1>2. PICK l \in T : \A k \in T : l <= k
  <2> HIDE DEF T
  <2> QED
    BY <1>1, LeastElement
<1>3. PICK m \in S : l = m - lo
  BY <1>2
<1>4. \A v \in S : m <= v
  <2> TAKE v \in S
  <2>1. m - lo <= v - lo
    BY <1>2, <1>3
  <2> QED
    BY <1>0, <2>1
<1> QED
  BY <1>4 DEF Min

LEMMA GreatestOf ==
  ASSUME NEW S \in SUBSET Int, S # {}, NEW hi \in Int, \A v \in S : v <= hi
  PROVE  Max(S) \in S /\ \A v \in S : v <= Max(S)
<1> DEFINE T == {hi - v : v \in S}
<1>0. \A v \in S : v \in Int /\ hi - v \in Nat
  OBVIOUS
<1>1. T \in SUBSET Nat /\ T # {}
  BY <1>0
<1>2. PICK l \in T : \A k \in T : l <= k
  <2> HIDE DEF T
  <2> QED
    BY <1>1, LeastElement
<1>3. PICK m \in S : l = hi - m
  BY <1>2
<1>4. \A v \in S : m >= v
  <2> TAKE v \in S
  <2>1. hi - m <= hi - v
    BY <1>2, <1>3
  <2> QED
    BY <1>0, <2>1
<1> QED
  BY <1>4 DEF Max

\* The turns of matchInputs' loop.
NothingMatched == [pairs |-> <<>>, used |-> {}, missing |-> 0, early |-> 0, considered |-> 0]
Turns(f, sent, got, lo, hi, n) ==
  f = [k \in 0..n |-> IF k = 0 THEN NothingMatched ELSE TakeArrival(f[k - 1], sent[k], got, lo, hi)]

LEMMA TurnsExist ==
  ASSUME NEW sent, NEW got, NEW lo, NEW hi, NEW n \in Nat
  PROVE  \E f : Turns(f, sent, got, lo, hi, n)
<1> DEFINE T == {k \in Nat : ~\E f : Turns(f, sent, got, lo, hi, k)}
<1>1. SUFFICES ASSUME T # {} PROVE FALSE
  OBVIOUS
<1>2. PICK m \in T : \A k \in T : m <= k
  BY <1>1, LeastElement
<1>3. CASE m = 0
  <2>1. Turns([k \in 0..0 |-> NothingMatched], sent, got, lo, hi, 0)
    BY DEF Turns
  <2> QED
    BY <2>1, <1>2, <1>3
<1>4. CASE m # 0
  <2>1. m - 1 \in Nat /\ m - 1 \notin T
    BY <1>2, <1>4
  <2>2. PICK g : Turns(g, sent, got, lo, hi, m - 1)
    BY <2>1
  <2> DEFINE f == [k \in 0..m |-> IF k < m THEN g[k] ELSE TakeArrival(g[m - 1], sent[m], got, lo, hi)]
  <2>3. \A k \in 0..m - 1 : g[k] = IF k = 0 THEN NothingMatched ELSE TakeArrival(g[k - 1], sent[k], got, lo, hi)
    BY <2>2 DEF Turns
  <2>4. \A k \in 0..m : f[k] = IF k = 0 THEN NothingMatched ELSE TakeArrival(f[k - 1], sent[k], got, lo, hi)
    BY <1>4, <2>1, <2>3
  <2>5. Turns(f, sent, got, lo, hi, m)
    BY <2>4 DEF Turns
  <2> QED
    BY <2>5, <1>2
<1> QED
  BY <1>3, <1>4

\* A pair that matchInputs quotes: of one stamp, and not further apart than allowed.
Quoted(p, sent, got, lo, hi) ==
  \E i \in DOMAIN sent, j \in DOMAIN got :
     /\ p = <<sent[i], got[j]>> /\ got[j].stamp = sent[i].stamp
     /\ got[j].t <= sent[i].t + hi /\ ~(got[j].t - sent[i].t < lo)
Matching(acc, sent, got, lo, hi) ==
  /\ DOMAIN acc = {"pairs", "used", "missing", "early", "considered"}
  /\ acc.pairs \in Seq({<<sent[i], got[j]>> : i \in DOMAIN sent, j \in DOMAIN got})
  /\ \A k \in DOMAIN acc.pairs : Quoted(acc.pairs[k], sent, got, lo, hi)

LEMMA TakeOneMore ==
  ASSUME NEW sent, NEW got, NEW M, got \in Seq(M), NEW lo, NEW hi, NEW acc, Matching(acc, sent, got, lo, hi),
         NEW n \in DOMAIN sent
  PROVE  Matching(TakeArrival(acc, sent[n], got, lo, hi), sent, got, lo, hi)
<1> DEFINE s == sent[n]
           found == {i \in DOMAIN got \ acc.used :
                       /\ got[i].t >= s.t - hi /\ got[i].t <= s.t + hi
                       /\ got[i].stamp = s.stamp}
           i == Min(found)
           after == TakeArrival(acc, s, got, lo, hi)
           R == {<<sent[a], got[b]>> : a \in DOMAIN sent, b \in DOMAIN got}
<1>1. after = IF found = {} THEN [acc EXCEPT !.missing = @ + 1]
              ELSE IF got[i].t - s.t < lo
              THEN [acc EXCEPT !.used = @ \union {i}, !.considered = @ + 1, !.early = @ + 1]
              ELSE [acc EXCEPT !.used = @ \union {i}, !.considered = @ + 1, !.pairs = Append(@, <<s, got[i]>>)]
  BY DEF TakeArrival
<1>2. found # {} => i \in found
  <2>1. found \in SUBSET Int /\ \A v \in found : 0 <= v
    OBVIOUS
  <2> HIDE DEF found
  <2> QED
    BY <2>1, LeastOf
<1>3. CASE after.pairs = acc.pairs /\ DOMAIN after = DOMAIN acc
  BY <1>3 DEF Matching
<1>4. CASE found # {} /\ ~(got[i].t - s.t < lo) /\ after.pairs = Append(acc.pairs, <<s, got[i]>>) /\ DOMAIN after = DOMAIN acc
  <2>1. i \in DOMAIN got /\ got[i].t <= s.t + hi /\ got[i].stamp = s.stamp
    BY <1>2, <1>4
  <2>2. <<s, got[i]>> \in R /\ Quoted(<<s, got[i]>>, sent, got, lo, hi)
    <3>1. PICK j : j = i
      OBVIOUS
    <3> HIDE DEF i, found
    <3>2. j \in DOMAIN got /\ got[j].t <= sent[n].t + hi /\ got[j].stamp = sent[n].stamp /\ ~(got[j].t - sent[n].t < lo)
      BY <1>4, <2>1, <3>1
    <3>3. <<sent[n], got[j]>> \in R
      BY <3>2
    <3>4. Quoted(<<sent[n], got[j]>>, sent, got, lo, hi)
      BY <3>2, Zenon DEF Quoted
    <3> QED
      BY <3>1, <3>3, <3>4
  <2>3. acc.pairs \in Seq(R)
    BY DEF Matching
  <2> HIDE DEF s, found, i, after, R
  <2>4. after.pairs \in Seq(R) /\ \A k \in DOMAIN after.pairs : k \in DOMAIN acc.pairs \/ k = Len(acc.pairs) + 1
    BY <1>4, <2>2, <2>3, AppendFacts
  <2>5. \A k \in DOMAIN after.pairs : Quoted(after.pairs[k], sent, got, lo, hi)
    BY <1>4, <2>2, <2>3, <2>4, AppendFacts DEF Matching
  <2> QED
    <3>1. DOMAIN after = {"pairs", "used", "missing", "early", "considered"}
      BY <1>4 DEF Matching
    <3>2. Matching(after, sent, got, lo, hi)
      BY <2>4, <2>5, <3>1 DEF Matching, R
    <3> QED
      BY <3>2 DEF after, s
<1>5. "pairs" \in DOMAIN acc
  BY DEF Matching
<1> HIDE DEF found, i, s, R
<1>6. CASE found = {}
  <2>1. after.pairs = acc.pairs /\ DOMAIN after = DOMAIN acc
    BY <1>1, <1>5, <1>6
  <2> QED
    BY <1>3, <2>1
<1>7. CASE found # {} /\ got[i].t - s.t < lo
  <2>1. after.pairs = acc.pairs /\ DOMAIN after = DOMAIN acc
    BY <1>1, <1>5, <1>7
  <2> QED
    BY <1>3, <2>1
<1>8. CASE found # {} /\ ~(got[i].t - s.t < lo)
  <2>1. after.pairs = Append(acc.pairs, <<s, got[i]>>) /\ DOMAIN after = DOMAIN acc
    BY <1>1, <1>5, <1>8
  <2> QED
    BY <1>4, <1>8, <2>1
<1> QED
  BY <1>6, <1>7, <1>8 DEF s

LEMMA MatchedAreNear ==
  ASSUME NEW sent, NEW got, NEW S, NEW M, sent \in Seq(S), got \in Seq(M), NEW lo, NEW hi
  PROVE  LET m == MatchInputs(sent, got, lo, hi)
         IN  \A k \in DOMAIN m.pairs : Quoted(m.pairs[k], sent, got, lo, hi)
<1>1. PICK n : n = Len(sent)
  OBVIOUS
<1>2. n \in Nat /\ DOMAIN sent = 1..n
  BY <1>1
<1> DEFINE loop == CHOOSE f : f = [k \in 0..Len(sent) |->
                       IF k = 0 THEN [pairs |-> <<>>, used |-> {}, missing |-> 0, early |-> 0, considered |-> 0]
                       ELSE TakeArrival(f[k - 1], sent[k], got, lo, hi)]
<1>3. MatchInputs(sent, got, lo, hi) = loop[n]
  BY <1>1 DEF MatchInputs
<1>4. \E f : Turns(f, sent, got, lo, hi, n)
  BY <1>2, TurnsExist
<1>5. Turns(loop, sent, got, lo, hi, n)
  BY <1>1, <1>4 DEF Turns, NothingMatched
<1> HIDE DEF loop
<1>6. \A k \in 0..n : loop[k] = IF k = 0 THEN NothingMatched ELSE TakeArrival(loop[k - 1], sent[k], got, lo, hi)
  BY <1>5 DEF Turns
<1> DEFINE T == {k \in 0..n : ~Matching(loop[k], sent, got, lo, hi)}
<1>7. T = {}
  <2> SUFFICES ASSUME T # {} PROVE FALSE
    OBVIOUS
  <2>1. PICK m \in T : \A k \in T : m <= k
    <3>1. T \in SUBSET Nat
      BY <1>2
    <3> HIDE DEF T
    <3> QED
      BY <3>1, LeastElement
  <2>2. m \in 0..n /\ ~Matching(loop[m], sent, got, lo, hi)
    BY <2>1
  <2>3. Matching(NothingMatched, sent, got, lo, hi)
    BY DEF Matching, NothingMatched
  <2>4. CASE m = 0
    BY <1>6, <2>2, <2>3, <2>4
  <2>5. CASE m # 0
    <3>1. m - 1 \in 0..n /\ m \in DOMAIN sent /\ ~(m <= m - 1)
      BY <1>2, <2>2, <2>5
    <3>2. Matching(loop[m - 1], sent, got, lo, hi)
      BY <2>1, <3>1
    <3>3. loop[m] = TakeArrival(loop[m - 1], sent[m], got, lo, hi)
      BY <1>6, <2>2, <2>5
    <3> QED
      BY <2>2, <3>1, <3>2, <3>3, TakeOneMore
  <2> QED
    BY <2>4, <2>5
<1>8. Matching(loop[n], sent, got, lo, hi)
  BY <1>2, <1>7
<1> QED
  BY <1>3, <1>8 DEF Matching

-----------------------------------------------------------------------------
(* What the host and the page log.                                          *)

WireEntry == [t : Nat, kind : {"frame"}, bytes : {1}, id : Nat]

\* A frame was sent under this number by then.
SentBy(id, at, log) == \E h \in DOMAIN log : log[h].kind = "frame" /\ log[h].id = id /\ log[h].t <= at

QuickInv == \A i \in DOMAIN uplink : now - uplink[i].t <= MaxTransit
ArrivedInv ==
  \A h \in DOMAIN hostWire :
     /\ hostWire[h].t <= now
     /\ hostWire[h].kind = "input" =>
          /\ Logged(hostWire[h].input, hostWire[h].id, hostWire[h].sent, inputLog)
          /\ hostWire[h].sent <= hostWire[h].t /\ hostWire[h].t <= hostWire[h].sent + MaxTransit
NumberedInv ==
  /\ \A h \in DOMAIN hostWire : hostWire[h].kind = "frame" => hostWire[h].id \in 1..Frames
  /\ \A g, h \in DOMAIN hostWire :
        hostWire[g].kind = "frame" /\ hostWire[h].kind = "frame" /\ hostWire[g].id = hostWire[h].id => g = h
WireInv ==
  /\ wireLog \in Seq(WireEntry)
  /\ \A j \in DOMAIN wireLog : SentBy(wireLog[j].id, wireLog[j].t, hostWire)
  /\ \A i \in DOMAIN air : SentBy(air[i].id, now, hostWire)
HostInv == QuickInv /\ ArrivedInv /\ NumberedInv /\ WireInv

\* A clock request, from the page to the host and back: the host reads its clock
\* between the page's two readings of its own.
Trip == [t0 : Nat, t1 : Nat, hostNow : Int]
Fits(p, at) == p.t0 <= p.hostNow - Shift /\ p.hostNow - Shift <= p.t1 /\ p.t1 <= at
ClockInv ==
  /\ \/ ping = <<>>
     \/ \E a \in Nat : a <= now /\ ping = <<[t0 |-> a, hostNow |-> <<>>]>>
     \/ \E a, b \in Nat : a <= b /\ b <= now /\ ping = <<[t0 |-> a, hostNow |-> <<b + Shift>>]>>
  /\ pings \in Seq(Trip)
  /\ \A i \in DOMAIN pings : Fits(pings[i], now)

\* The page's log tells of frames that came, and, while it was not cut, of all that
\* came since the window was opened.
CameInv ==
  /\ windowFrom \in Nat
  /\ \A a \in came : a.t \in Nat /\ a.t <= now /\ SentBy(a.id, a.t, hostWire)
  /\ \A j \in DOMAIN wireLog : \E a \in came : a.id = wireLog[j].id /\ a.t = wireLog[j].t
  /\ WholeLog => \A a \in came : a.t >= windowFrom =>
                    \E j \in DOMAIN wireLog : wireLog[j].id = a.id /\ wireLog[j].t = a.t
BenchInv == LineInv /\ HostInv /\ CameInv /\ ClockInv

LEMMA HostElements ==
  ASSUME LineType
  PROVE  \A h \in DOMAIN hostWire : /\ hostWire[h].t \in Nat /\ hostWire[h].id \in Nat
                                    /\ hostWire[h].kind \in {"frame", "input"}
                                    /\ hostWire[h].kind = "input" => hostWire[h].input \in Nat /\ hostWire[h].sent \in Nat
<1>1. hostWire \in Seq(HostFrame \union HostInput)
  BY DEF LineType
<1>2. \A h \in DOMAIN hostWire : hostWire[h] \in HostFrame \union HostInput
  BY <1>1
<1>3. \A e \in HostFrame : e.t \in Nat /\ e.id \in Nat /\ e.kind = "frame"
  BY DEF HostFrame
<1>4. \A e \in HostInput : e.t \in Nat /\ e.id \in Nat /\ e.kind = "input" /\ e.input \in Nat /\ e.sent \in Nat
  BY DEF HostInput
<1> QED
  BY <1>2, <1>3, <1>4

\* Time passes, and inputs are sent.
LEMMA ArrivedKept ==
  ASSUME LineInv, ArrivedInv, NumberedInv, now' \in Nat, now <= now', hostWire' = hostWire,
         inputLog' = inputLog \/ (\E e \in Entry : inputLog' = Append(inputLog, e))
  PROVE  ArrivedInv' /\ NumberedInv'
<1>1. inputLog \in Seq(Entry) /\ now \in Nat
  BY DEF LineInv, LineType
<1>2. \A a, b, c : Logged(a, b, c, inputLog) => Logged(a, b, c, inputLog')
  <2>1. CASE inputLog' = inputLog
    BY <2>1
  <2>2. ASSUME NEW e \in Entry, inputLog' = Append(inputLog, e)
        PROVE  \A a, b, c : Logged(a, b, c, inputLog) => Logged(a, b, c, inputLog')
    <3>1. \A i \in DOMAIN inputLog : i \in DOMAIN inputLog' /\ inputLog'[i] = inputLog[i]
      BY <1>1, <2>2, AppendFacts
    <3> QED
      BY <3>1 DEF Logged
  <2> QED
    BY <2>1, <2>2
<1>3. \A h \in DOMAIN hostWire : hostWire[h].t \in Nat
  BY HostElements DEF LineInv
<1>4. ArrivedInv'
  <2>1. \A h \in DOMAIN hostWire : hostWire[h].t <= now'
    BY <1>1, <1>3 DEF ArrivedInv
  <2> QED
    BY <1>2, <2>1 DEF ArrivedInv
<1>5. NumberedInv'
  <2>1. Frames' = Frames
    BY DEF Frames
  <2> QED
    BY <2>1 DEF NumberedInv
<1> QED
  BY <1>4, <1>5

\* What was sent by then stays so.
LEMMA SentByKept ==
  ASSUME NEW id, NEW a \in Nat, NEW b \in Nat, a <= b, NEW log,
         \A h \in DOMAIN log : log[h].t \in Nat, SentBy(id, a, log)
  PROVE  SentBy(id, b, log)
BY DEF SentBy

LEMMA SentByMore ==
  ASSUME NEW id, NEW a, NEW M, NEW log \in Seq(M), NEW e \in M, SentBy(id, a, log)
  PROVE  SentBy(id, a, Append(log, e))
<1>1. \A i \in DOMAIN log : i \in DOMAIN Append(log, e) /\ Append(log, e)[i] = log[i]
  BY AppendFacts
<1> QED
  BY <1>1 DEF SentBy

\* The page's log, cut at its limit, has entries it had before and the new one.
LEMMA RecordKeeps ==
  ASSUME NEW M, NEW log \in Seq(M), NEW e \in M, NEW max \in Nat \ {0}
  PROVE  /\ Record(log, e, max) \in Seq(M)
         /\ \A k \in DOMAIN Record(log, e, max) :
               Record(log, e, max)[k] = e \/ \E j \in DOMAIN log : Record(log, e, max)[k] = log[j]
<1> DEFINE all == Append(log, e)
<1>1. /\ all \in Seq(M) /\ Len(all) = Len(log) + 1 /\ Len(log) \in Nat
      /\ DOMAIN all = 1..Len(all) /\ \A k \in DOMAIN all : all[k] = e \/ \E j \in DOMAIN log : all[k] = log[j]
  BY AppendFacts
<1> HIDE DEF all
<1>2. Record(log, e, max) = IF Len(all) > max THEN SubSeq(all, Len(all) - max + 1, Len(all)) ELSE all
  BY DEF Record, all
<1>3. CASE Len(all) > max
  <2>1. /\ SubSeq(all, Len(all) - max + 1, Len(all)) \in Seq(M)
        /\ \A k \in DOMAIN SubSeq(all, Len(all) - max + 1, Len(all)) :
              \E i \in DOMAIN all : SubSeq(all, Len(all) - max + 1, Len(all))[k] = all[i]
    <3>1. PICK p : p = Len(all) - max + 1
      OBVIOUS
    <3>2. PICK q : q = Len(all)
      OBVIOUS
    <3>3. p \in Nat /\ q \in Nat /\ 1 <= p /\ p <= q /\ DOMAIN all = 1..q /\ all \in Seq(M)
      BY <1>1, <1>3, <3>1, <3>2
    <3>4. SubSeq(all, p, q) = [k \in 1..(q - p + 1) |-> all[k + p - 1]]
      BY <3>3
    <3>5. \A k \in 1..(q - p + 1) : k + p - 1 \in DOMAIN all /\ all[k + p - 1] \in M
      BY <3>3
    <3>6. SubSeq(all, p, q) \in Seq(M) /\ DOMAIN SubSeq(all, p, q) = 1..(q - p + 1)
      BY <3>3, <3>4, <3>5
    <3> QED
      BY <3>1, <3>2, <3>4, <3>5, <3>6
  <2> QED
    BY <1>1, <1>2, <1>3, <2>1
<1>4. CASE ~(Len(all) > max)
  BY <1>1, <1>2, <1>4
<1> QED
  BY <1>3, <1>4

\* Steps in which the host logs nothing and no frame moves.
LEMMA PageStep ==
  ASSUME LineInv, HostInv, now' \in Nat, now <= now', hostWire' = hostWire, air' = air,
         inputLog' = inputLog \/ (\E e \in Entry : inputLog' = Append(inputLog, e)),
         wireLog' \in {wireLog, <<>>},
         \A i \in DOMAIN uplink' : now' - uplink'[i].t <= MaxTransit
  PROVE  HostInv'
<1>1. ArrivedInv' /\ NumberedInv'
  BY ArrivedKept DEF HostInv
<1>2. QuickInv'
  BY DEF QuickInv
<1>3. WireInv'
  <2>1. wireLog' \in Seq(WireEntry)
    <3>1. wireLog \in Seq(WireEntry) /\ <<>> \in Seq(WireEntry)
      BY DEF HostInv, WireInv
    <3> QED
      BY <3>1
  <2>2. \A i \in DOMAIN air : SentBy(air[i].id, now', hostWire)
    <3>1. now \in Nat /\ \A h \in DOMAIN hostWire : hostWire[h].t \in Nat
      BY HostElements DEF LineInv, LineType
    <3>2. \A i \in DOMAIN air : SentBy(air[i].id, now, hostWire)
      BY DEF HostInv, WireInv
    <3> QED
      BY <3>1, <3>2, SentByKept
  <2>3. \A j \in DOMAIN wireLog' : SentBy(wireLog'[j].id, wireLog'[j].t, hostWire)
    BY DEF HostInv, WireInv
  <2> QED
    BY <2>1, <2>2, <2>3 DEF WireInv
<1> QED
  BY <1>1, <1>2, <1>3 DEF HostInv

\* The host sends a frame, under a new number.
LEMMA SendLogged ==
  ASSUME LineInv, HostInv, HostSends
  PROVE  HostInv'
<1>1. PICK n : n = Len(hostWire)
  OBVIOUS
<1>2. PICK e : e = [t |-> now, kind |-> "frame", bytes |-> 1, id |-> Frames + 1]
  OBVIOUS
<1>3. /\ hostWire' = Append(hostWire, e)
      /\ air' = Append(air, [id |-> Frames + 1, answer |-> unanswered])
      /\ UNCHANGED <<now, inputLog, uplink, wireLog>>
  BY <1>2 DEF HostSends, pageVars
<1>4. Frames \in Nat /\ now \in Nat
  BY SentAreCounted DEF LineInv, LineType
<1>5. e \in HostFrame /\ e \in HostFrame \union HostInput /\ e.t = now /\ e.kind = "frame" /\ e.id = Frames + 1
  BY <1>2, <1>4 DEF HostFrame
<1>6. /\ hostWire \in Seq(HostFrame \union HostInput) /\ n \in Nat /\ DOMAIN hostWire = 1..n
      /\ DOMAIN hostWire' = 1..n + 1 /\ hostWire'[n + 1] = e
      /\ \A h \in 1..n : hostWire'[h] = hostWire[h]
  BY <1>1, <1>3, <1>5, AppendFacts DEF LineInv, LineType
<1>7. \A h \in 1..n + 1 : h \in 1..n \/ h = n + 1
  BY <1>6
<1>8. Frames' = Frames + 1
  <2> DEFINE F == {h \in DOMAIN hostWire : hostWire[h].kind = "frame"}
  <2>1. {h \in DOMAIN hostWire' : hostWire'[h].kind = "frame"} = F \union {n + 1}
    BY <1>5, <1>6, <1>7
  <2>2. n + 1 \notin F
    BY <1>6
  <2>3. IsFiniteSet(F)
    <3>1. F \subseteq 1..n /\ IsFiniteSet(1..n)
      BY <1>6, FS_Interval
    <3> QED
      BY <3>1, FS_Subset
  <2>4. Cardinality(F \union {n + 1}) = Cardinality(F) + 1
    <3> HIDE DEF F
    <3> QED
      BY <2>2, <2>3, FS_AddElement
  <2> QED
    BY <2>1, <2>4 DEF Frames
<1>9. QuickInv'
  BY <1>3 DEF HostInv, QuickInv
<1>10. ArrivedInv'
  <2>1. \A h \in 1..n : /\ hostWire'[h].t <= now
                        /\ hostWire'[h].kind = "input" =>
                             /\ Logged(hostWire'[h].input, hostWire'[h].id, hostWire'[h].sent, inputLog)
                             /\ hostWire'[h].sent <= hostWire'[h].t /\ hostWire'[h].t <= hostWire'[h].sent + MaxTransit
    BY <1>6 DEF HostInv, ArrivedInv
  <2>2. hostWire'[n + 1].t <= now /\ hostWire'[n + 1].kind # "input"
    BY <1>4, <1>5, <1>6
  <2> QED
    BY <1>3, <1>6, <1>7, <2>1, <2>2 DEF ArrivedInv
<1>11. NumberedInv'
  <2>1. \A h \in 1..n : hostWire'[h].kind = "frame" => hostWire'[h].id \in 1..Frames
    BY <1>6 DEF HostInv, NumberedInv
  <2>2. hostWire'[n + 1].id = Frames + 1
    BY <1>5, <1>6
  <2>3. \A h \in 1..n + 1 : hostWire'[h].kind = "frame" => hostWire'[h].id \in 1..Frames'
    BY <1>4, <1>7, <1>8, <2>1, <2>2
  <2>4. \A g, h \in 1..n + 1 :
           hostWire'[g].kind = "frame" /\ hostWire'[h].kind = "frame" /\ hostWire'[g].id = hostWire'[h].id => g = h
    <3> TAKE g, h \in 1..n + 1
    <3>1. CASE g \in 1..n /\ h \in 1..n
      BY <1>6, <3>1 DEF HostInv, NumberedInv
    <3>2. CASE ~(g \in 1..n /\ h \in 1..n)
      BY <1>4, <1>7, <2>1, <2>2, <3>2
    <3> QED
      BY <3>1, <3>2
  <2> QED
    BY <1>6, <2>3, <2>4 DEF NumberedInv
<1>12. WireInv'
  <2>1. \A id, a : SentBy(id, a, hostWire) => SentBy(id, a, hostWire')
    BY <1>3, <1>5, <1>6, SentByMore
  <2>2. SentBy(Frames + 1, now, hostWire')
    <3>1. n + 1 \in DOMAIN hostWire' /\ now <= now
      BY <1>4, <1>6
    <3> QED
      BY <1>5, <1>6, <3>1 DEF SentBy
  <2>3. \A i \in DOMAIN air' : SentBy(air'[i].id, now, hostWire')
    <3>1. PICK f : f = [id |-> Frames + 1, answer |-> unanswered]
      OBVIOUS
    <3>2. f \in [id : Nat, answer : Seq(Mark)] /\ f.id = Frames + 1
      BY <1>4, <3>1 DEF LineInv, LineType
    <3>3. \A i \in DOMAIN air' : (i \in DOMAIN air /\ air'[i] = air[i]) \/ air'[i] = f
      <4> DEFINE R == [id : Nat, answer : Seq(Mark)]
      <4>1. air \in Seq(R) /\ f \in R /\ air' = Append(air, f)
        BY <1>3, <3>1, <3>2 DEF LineInv, LineType
      <4> HIDE DEF R
      <4> QED
        BY <4>1, AppendFacts
    <3> QED
      BY <2>1, <2>2, <3>2, <3>3 DEF HostInv, WireInv
  <2> QED
    BY <1>3, <2>1, <2>3 DEF HostInv, WireInv
<1> QED
  BY <1>9, <1>10, <1>11, <1>12 DEF HostInv

\* An input reaches the host, soon enough.
LEMMA InputLogged ==
  ASSUME LineInv, HostInv, InputArrives
  PROVE  HostInv'
<1>1. PICK n : n = Len(hostWire)
  OBVIOUS
<1>2. PICK s : s = uplink[1]
  OBVIOUS
<1>3. PICK e : e = [t |-> now, kind |-> "input", bytes |-> 1, id |-> s.stamp, input |-> s.input, sent |-> s.t]
  OBVIOUS
<1>4. /\ uplink \in Seq(Entry) /\ s \in Entry /\ Head(uplink) = s /\ 1 \in DOMAIN uplink
      /\ \A i \in DOMAIN Tail(uplink) : i + 1 \in DOMAIN uplink /\ Tail(uplink)[i] = uplink[i + 1]
  <2>1. uplink \in Seq(Entry) /\ uplink # <<>>
    BY DEF LineInv, LineType, InputArrives
  <2> QED
    BY <1>2, <2>1, TailFacts
<1>5. /\ hostWire' = Append(hostWire, e) /\ uplink' = Tail(uplink)
      /\ UNCHANGED <<now, inputLog, air, wireLog>>
  BY <1>3, <1>4 DEF InputArrives, pageVars
<1>6. /\ now \in Nat /\ s.stamp \in Nat /\ s.input \in Nat /\ s.t \in Nat
      /\ Logged(s.input, s.stamp, s.t, inputLog) /\ now - s.t <= MaxTransit /\ s.t <= now
  <2>1. now \in Nat /\ s.stamp \in Nat /\ s.input \in Nat /\ s.t \in Nat
    BY <1>4 DEF LineInv, LineType, Entry
  <2>2. Logged(s.input, s.stamp, s.t, inputLog) /\ now - s.t <= MaxTransit
    BY <1>2, <1>4 DEF LineInv, KnownInv, HostInv, QuickInv
  <2>3. s.t <= now
    BY <2>2 DEF LineInv, LogInv, Logged
  <2> QED
    BY <2>1, <2>2, <2>3
<1>7. /\ e \in HostFrame \union HostInput /\ e.t = now /\ e.kind = "input"
      /\ e.id = s.stamp /\ e.input = s.input /\ e.sent = s.t
  BY <1>3, <1>6 DEF HostInput
<1>8. /\ hostWire \in Seq(HostFrame \union HostInput) /\ n \in Nat /\ DOMAIN hostWire = 1..n
      /\ DOMAIN hostWire' = 1..n + 1 /\ hostWire'[n + 1] = e
      /\ \A h \in 1..n : hostWire'[h] = hostWire[h]
  BY <1>1, <1>5, <1>7, AppendFacts DEF LineInv, LineType
<1>9. \A h \in 1..n + 1 : h \in 1..n \/ h = n + 1
  BY <1>8
<1>10. QuickInv'
  BY <1>4, <1>5 DEF HostInv, QuickInv
<1>11. ArrivedInv'
  <2>1. \A h \in 1..n : /\ hostWire'[h].t <= now
                        /\ hostWire'[h].kind = "input" =>
                             /\ Logged(hostWire'[h].input, hostWire'[h].id, hostWire'[h].sent, inputLog)
                             /\ hostWire'[h].sent <= hostWire'[h].t /\ hostWire'[h].t <= hostWire'[h].sent + MaxTransit
    BY <1>8 DEF HostInv, ArrivedInv
  <2>2. e.t <= now /\ Logged(e.input, e.id, e.sent, inputLog) /\ e.sent <= e.t /\ e.t <= e.sent + MaxTransit
    BY <1>6, <1>7, BenchAssumption
  <2> QED
    BY <1>5, <1>8, <1>9, <2>1, <2>2 DEF ArrivedInv
<1>12. NumberedInv'
  <2>1. {h \in DOMAIN hostWire' : hostWire'[h].kind = "frame"} = {h \in DOMAIN hostWire : hostWire[h].kind = "frame"}
    BY <1>7, <1>8, <1>9
  <2>2. Frames' = Frames
    BY <2>1 DEF Frames
  <2>3. \A h \in DOMAIN hostWire' : hostWire'[h].kind = "frame" => h \in DOMAIN hostWire /\ hostWire'[h] = hostWire[h]
    BY <1>7, <1>8, <1>9
  <2> QED
    BY <2>2, <2>3 DEF HostInv, NumberedInv
<1>13. WireInv'
  <2>1. \A id, a : SentBy(id, a, hostWire) => SentBy(id, a, hostWire')
    BY <1>5, <1>7, <1>8, SentByMore
  <2> QED
    BY <1>5, <2>1 DEF HostInv, WireInv
<1> QED
  BY <1>10, <1>11, <1>12, <1>13 DEF HostInv

\* A frame is lost or arrives.
LEMMA AirLogged ==
  ASSUME LineInv, HostInv, FrameLost \/ FrameArrives
  PROVE  HostInv'
<1>1. /\ air # <<>> /\ air' = Tail(air)
      /\ UNCHANGED <<now, hostWire, inputLog, uplink>>
  BY DEF FrameLost, FrameArrives, hostVars, pageVars
<1>2. /\ \A i \in DOMAIN air' : i + 1 \in DOMAIN air /\ air'[i] = air[i + 1]
      /\ Head(air) = air[1] /\ 1 \in DOMAIN air
  BY <1>1, AirStep
<1>3. QuickInv' /\ ArrivedInv'
  BY <1>1 DEF HostInv, QuickInv, ArrivedInv
<1>4. NumberedInv'
  BY <1>1 DEF HostInv, NumberedInv, Frames
<1>5. PICK e : e = [t |-> now, kind |-> "frame", bytes |-> 1, id |-> air[1].id]
  OBVIOUS
<1>6. wireLog' = wireLog \/ wireLog' = Record(wireLog, e, LogSize)
  BY <1>2, <1>5 DEF FrameLost, FrameArrives, pageVars
<1>7. e \in WireEntry /\ e.id = air[1].id /\ e.t = now
  BY <1>2, <1>5, ElementTypes DEF WireEntry, LineInv, LineType
<1>8. SentBy(e.id, e.t, hostWire)
  BY <1>2, <1>7 DEF HostInv, WireInv
<1>9. wireLog' \in Seq(WireEntry) /\ \A j \in DOMAIN wireLog' : SentBy(wireLog'[j].id, wireLog'[j].t, hostWire)
  <2>1. wireLog \in Seq(WireEntry) /\ LogSize \in Nat \ {0}
    BY BenchAssumption DEF HostInv, WireInv
  <2>2. CASE wireLog' = wireLog
    BY <2>1, <2>2 DEF HostInv, WireInv
  <2>3. CASE wireLog' = Record(wireLog, e, LogSize)
    <3>1. \A j \in DOMAIN wireLog : SentBy(wireLog[j].id, wireLog[j].t, hostWire)
      BY DEF HostInv, WireInv
    <3>2. /\ wireLog' \in Seq(WireEntry)
          /\ \A k \in DOMAIN wireLog' : wireLog'[k] = e \/ \E j \in DOMAIN wireLog : wireLog'[k] = wireLog[j]
      BY <1>7, <2>1, <2>3, RecordKeeps
    <3> QED
      BY <1>8, <3>1, <3>2
  <2> QED
    BY <1>6, <2>2, <2>3
<1>10. WireInv'
  BY <1>1, <1>2, <1>9 DEF HostInv, WireInv
<1> QED
  BY <1>3, <1>4, <1>10 DEF HostInv

\* The host's log stays true.
LEMMA HostStep ==
  ASSUME LineInv, HostInv, [BenchNext]_benchVars
  PROVE  HostInv'
<1>0. /\ now \in Nat /\ MaxTransit \in Nat
      /\ uplink \in Seq(Entry) /\ \A i \in DOMAIN uplink : uplink[i].t \in Nat /\ now - uplink[i].t <= MaxTransit
  BY ElementTypes, BenchAssumption DEF LineInv, LineType, HostInv, QuickInv
<1>1. CASE Tick \/ OpenWindow
  <2>1. /\ now' = now + 1 /\ InputsAreQuick /\ wireLog' \in {wireLog, <<>>}
        /\ UNCHANGED <<hostWire, air, inputLog, uplink>>
    BY <1>1 DEF Tick, OpenWindow, hostVars, pageVars
  <2>2. \A i \in DOMAIN uplink' : now' - uplink'[i].t <= MaxTransit
    BY <1>0, <2>1 DEF InputsAreQuick
  <2> QED
    BY <1>0, <2>1, <2>2, PageStep
<1>2. CASE HostSends
  BY <1>2, SendLogged
<1>3. CASE FrameLost \/ FrameArrives
  BY <1>3, AirLogged
<1>4. CASE \E hash \in Hashes : Paint(hash)
  <2>1. UNCHANGED <<now, hostWire, air, inputLog, uplink, wireLog>>
    BY <1>4 DEF Paint, hostVars
  <2> QED
    BY <1>0, <2>1, PageStep
<1>5. CASE InputSent
  <2>1. PICK n : n = Len(inputLog)
    OBVIOUS
  <2>2. PICK e : e = [stamp |-> (n % Stamps) + 1, t |-> now, input |-> n + 1]
    OBVIOUS
  <2>3. inputLog \in Seq(Entry) /\ n \in Nat
    BY <2>1 DEF LineInv, LineType
  <2>4. e \in Entry /\ e.t = now
    <3>1. (n % Stamps) + 1 \in Nat
      BY <2>3, BenchAssumption
    <3> QED
      BY <1>0, <2>2, <2>3, <3>1 DEF Entry
  <2>5. /\ inputLog' = Append(inputLog, e)
        /\ UNCHANGED <<now, hostWire, air, wireLog>>
    BY <2>1, <2>2, <1>5 DEF InputSent, LogInput, Issued, hostVars
  <2>6. uplink' = Append(uplink, e)
    <3>1. inputLog' \in Seq(Entry) /\ Len(inputLog') = n + 1 /\ inputLog'[n + 1] = e
      BY <2>1, <2>3, <2>4, <2>5, AppendFacts
    <3>2. Last(inputLog') = e
      BY <2>3, <3>1 DEF Last
    <3> QED
      BY <1>5, <3>2 DEF InputSent
  <2>7. \A i \in DOMAIN uplink' : now' - uplink'[i].t <= MaxTransit
    <3>1. PICK m : m = Len(uplink)
      OBVIOUS
    <3>2. /\ m \in Nat /\ DOMAIN uplink = 1..m /\ DOMAIN uplink' = 1..m + 1
          /\ uplink'[m + 1] = e /\ \A i \in 1..m : uplink'[i] = uplink[i]
      BY <1>0, <2>4, <2>6, <3>1, AppendFacts
    <3>3. \A i \in 1..m + 1 : i \in 1..m \/ i = m + 1
      BY <3>2
    <3>4. now' - e.t <= MaxTransit
      BY <1>0, <2>4, <2>5
    <3> QED
      BY <1>0, <2>5, <3>2, <3>3, <3>4
  <2> QED
    BY <1>0, <2>4, <2>5, <2>7, PageStep
<1>6. CASE InputArrives
  BY <1>6, InputLogged
<1>7. CASE Ping \/ HostReadsClock \/ Pong
  <2>1. UNCHANGED <<now, hostWire, air, inputLog, uplink, wireLog>>
    BY <1>7 DEF Ping, HostReadsClock, Pong, hostVars, pageVars
  <2> QED
    BY <1>0, <2>1, PageStep
<1>8. CASE UNCHANGED benchVars
  <2>1. UNCHANGED <<now, hostWire, air, inputLog, uplink, wireLog>>
    BY <1>8 DEF benchVars, hostVars, pageVars
  <2> QED
    BY <1>0, <2>1, PageStep
<1> QED
  BY <1>1, <1>2, <1>3, <1>4, <1>5, <1>6, <1>7, <1>8 DEF BenchNext

LEMMA HostStarts == BenchInit => HostInv
<1> SUFFICES ASSUME BenchInit PROVE HostInv
  OBVIOUS
<1>1. hostWire = <<>> /\ uplink = <<>> /\ wireLog = <<>> /\ air = <<>>
  BY DEF BenchInit
<1> QED
  BY <1>1 DEF HostInv, QuickInv, ArrivedInv, NumberedInv, WireInv

\* The clock requests stay so.
LEMMA ClockStep ==
  ASSUME LineInv, ClockInv, [BenchNext]_benchVars
  PROVE  ClockInv'
<1>0. now \in Nat /\ now' \in Nat /\ Shift \in Int
  BY LineStep, BenchAssumption DEF LineInv, LineType
<1>1. CASE Tick \/ OpenWindow \/ UNCHANGED <<now, ping, pings>>
  <2>1. now <= now' /\ ping' = ping /\ pings' = pings
    BY <1>0, <1>1 DEF Tick, OpenWindow
  <2>2. \A i \in DOMAIN pings : pings[i].t1 \in Nat
    <3>1. \A p \in Trip : p.t1 \in Nat
      BY DEF Trip
    <3>2. \A i \in DOMAIN pings : pings[i] \in Trip
      BY DEF ClockInv
    <3> QED
      BY <3>1, <3>2
  <2>3. \A a \in Nat : a <= now => a <= now'
    BY <1>0, <2>1
  <2> QED
    BY <2>1, <2>2, <2>3 DEF ClockInv, Fits
<1>2. CASE Ping
  <2>1. ping' = <<[t0 |-> now, hostNow |-> <<>>]>> /\ now' = now /\ pings' = pings
    BY <1>2 DEF Ping, None
  <2>2. now <= now'
    BY <1>0, <2>1
  <2> QED
    BY <1>0, <2>1, <2>2 DEF ClockInv, Fits
<1>3. CASE HostReadsClock
  <2>1. /\ ping # <<>> /\ ping[1].hostNow = <<>>
        /\ ping' = <<[ping[1] EXCEPT !.hostNow = <<now + Shift>>]>> /\ now' = now /\ pings' = pings
    BY <1>3 DEF HostReadsClock, None
  <2>2. PICK a \in Nat : a <= now /\ ping = <<[t0 |-> a, hostNow |-> <<>>]>>
    BY <2>1 DEF ClockInv
  <2>3. ping' = <<[t0 |-> a, hostNow |-> <<now + Shift>>]>>
    BY <2>1, <2>2
  <2>4. now <= now'
    BY <1>0, <2>1
  <2> QED
    BY <1>0, <2>1, <2>2, <2>3, <2>4 DEF ClockInv, Fits
<1>4. CASE Pong
  <2>1. /\ ping # <<>> /\ ping[1].hostNow # <<>> /\ ping' = <<>> /\ now' = now
        /\ pings' = Append(pings, [t0 |-> ping[1].t0, t1 |-> now, hostNow |-> ping[1].hostNow[1]])
    BY <1>4 DEF Pong, None
  <2>2. PICK a, b \in Nat : a <= b /\ b <= now /\ ping = <<[t0 |-> a, hostNow |-> <<b + Shift>>]>>
    BY <2>1 DEF ClockInv
  <2>3. PICK p : p = [t0 |-> a, t1 |-> now, hostNow |-> b + Shift]
    OBVIOUS
  <2>4. p \in Trip /\ Fits(p, now)
    BY <1>0, <2>2, <2>3 DEF Trip, Fits
  <2>5. pings' = Append(pings, p) /\ pings \in Seq(Trip)
    BY <2>1, <2>2, <2>3 DEF ClockInv
  <2>6. \A i \in DOMAIN pings : Fits(pings[i], now)
    BY DEF ClockInv
  <2>7. pings' \in Seq(Trip) /\ \A i \in DOMAIN pings' : Fits(pings'[i], now)
    <3>1. \A i \in DOMAIN pings' : pings'[i] = p \/ \E j \in DOMAIN pings : pings'[i] = pings[j]
      BY <2>4, <2>5, AppendFacts
    <3>2. pings' \in Seq(Trip)
      BY <2>4, <2>5, AppendFacts
    <3> QED
      BY <2>4, <2>6, <3>1, <3>2
  <2> QED
    BY <2>1, <2>7 DEF ClockInv
<1>5. CASE BenchNext /\ ~(Tick \/ OpenWindow \/ Ping \/ HostReadsClock \/ Pong)
  <2>1. UNCHANGED <<now, ping, pings>>
    BY <1>5 DEF BenchNext, HostSends, FrameLost, FrameArrives, Paint, InputSent, InputArrives
  <2> QED
    BY <1>1, <2>1
<1>6. CASE UNCHANGED benchVars
  BY <1>1, <1>6 DEF benchVars
<1> QED
  BY <1>1, <1>2, <1>3, <1>4, <1>5, <1>6

LEMMA ClockStarts == BenchInit => ClockInv
BY DEF BenchInit, ClockInv, None

\* A frame comes: it is logged, and an entry is dropped only when the log is full.
LEMMA FrameCame ==
  ASSUME LineInv, HostInv, CameInv, FrameArrives
  PROVE  CameInv'
<1>1. PICK e : e = [t |-> now, kind |-> "frame", bytes |-> 1, id |-> air[1].id]
  OBVIOUS
<1>2. PICK c : c = [id |-> air[1].id, t |-> now]
  OBVIOUS
<1>3. air # <<>>
  BY DEF FrameArrives
<1>4. 1 \in DOMAIN air /\ Head(air) = air[1]
  BY <1>3, AirStep
<1>5. /\ wireLog' = Record(wireLog, e, LogSize) /\ came' = came \union {c}
      /\ UNCHANGED <<now, windowFrom, hostWire>>
  BY <1>1, <1>2, <1>4 DEF FrameArrives, hostVars
<1>6. e \in WireEntry /\ e.id = c.id /\ e.t = c.t /\ c.t = now /\ now \in Nat
  BY <1>1, <1>2, <1>4, ElementTypes DEF WireEntry, LineInv, LineType
<1>7. SentBy(c.id, c.t, hostWire)
  BY <1>2, <1>4 DEF HostInv, WireInv
<1>8. wireLog \in Seq(WireEntry) /\ LogSize \in Nat \ {0}
  BY BenchAssumption DEF HostInv, WireInv
<1>9. \A a \in came' : a \in came \/ a = c
  BY <1>5
<1>10. \A a \in came' : a.t \in Nat /\ a.t <= now /\ SentBy(a.id, a.t, hostWire)
  BY <1>6, <1>7, <1>9 DEF CameInv
<1>11. \A j \in DOMAIN wireLog' : \E a \in came' : a.id = wireLog'[j].id /\ a.t = wireLog'[j].t
  <2>1. \A k \in DOMAIN wireLog' : wireLog'[k] = e \/ \E j \in DOMAIN wireLog : wireLog'[k] = wireLog[j]
    BY <1>5, <1>6, <1>8, RecordKeeps
  <2>2. c \in came' /\ came \subseteq came'
    BY <1>5
  <2>3. \A j \in DOMAIN wireLog : \E a \in came : a.id = wireLog[j].id /\ a.t = wireLog[j].t
    BY DEF CameInv
  <2> TAKE k \in DOMAIN wireLog'
  <2>4. CASE wireLog'[k] = e
    BY <1>6, <2>2, <2>4
  <2>5. ASSUME NEW j \in DOMAIN wireLog, wireLog'[k] = wireLog[j]
        PROVE  \E a \in came' : a.id = wireLog'[k].id /\ a.t = wireLog'[k].t
    BY <2>2, <2>3, <2>5
  <2> QED
    BY <2>1, <2>4, <2>5
<1>12. ASSUME WholeLog'
       PROVE  /\ WholeLog
              /\ \E k \in DOMAIN wireLog' : wireLog'[k] = e
              /\ \A j \in DOMAIN wireLog : \E k \in DOMAIN wireLog' : wireLog'[k] = wireLog[j]
  <2> DEFINE all == Append(wireLog, e)
             L == Len(all)
  <2>1. all \in Seq(WireEntry) /\ L = Len(wireLog) + 1 /\ Len(wireLog) \in Nat
        /\ all[L] = e /\ L \in DOMAIN all /\ \A j \in DOMAIN wireLog : j \in DOMAIN all /\ all[j] = wireLog[j]
    BY <1>6, <1>8, AppendFacts
  <2>2. Len(wireLog') < LogSize
    BY <1>12 DEF WholeLog
  <2>3. wireLog' = all
    <3>1. wireLog' = IF L > LogSize THEN SubSeq(all, L - LogSize + 1, L) ELSE all
      BY <1>5 DEF Record
    <3>2. L > LogSize => Len(SubSeq(all, L - LogSize + 1, L)) = LogSize
      <4> HIDE DEF all
      <4> QED
        BY <1>8, <2>1
    <3>3. ~(LogSize < LogSize)
      BY <1>8
    <3> HIDE DEF all, L
    <3> QED
      BY <2>2, <3>1, <3>2, <3>3
  <2> HIDE DEF all
  <2>4. WholeLog
    BY <1>8, <2>1, <2>2, <2>3 DEF WholeLog
  <2> QED
    BY <2>1, <2>3, <2>4
<1>13. WholeLog' => \A a \in came' : a.t >= windowFrom =>
                       \E j \in DOMAIN wireLog' : wireLog'[j].id = a.id /\ wireLog'[j].t = a.t
  <2> SUFFICES ASSUME WholeLog', NEW a \in came', a.t >= windowFrom
               PROVE  \E j \in DOMAIN wireLog' : wireLog'[j].id = a.id /\ wireLog'[j].t = a.t
    OBVIOUS
  <2>1. CASE a = c
    <3>1. PICK k \in DOMAIN wireLog' : wireLog'[k] = e
      BY <1>12
    <3> QED
      BY <1>6, <2>1, <3>1
  <2>2. CASE a \in came
    <3>1. PICK j \in DOMAIN wireLog : wireLog[j].id = a.id /\ wireLog[j].t = a.t
      BY <1>12, <2>2 DEF CameInv
    <3>2. PICK k \in DOMAIN wireLog' : wireLog'[k] = wireLog[j]
      BY <1>12
    <3> QED
      BY <3>1, <3>2
  <2> QED
    BY <1>9, <2>1, <2>2
<1> QED
  BY <1>5, <1>10, <1>11, <1>13 DEF CameInv

LEMMA CameStep ==
  ASSUME LineInv, HostInv, CameInv, [BenchNext]_benchVars
  PROVE  CameInv'
<1>0. now \in Nat /\ hostWire \in Seq(HostFrame \union HostInput)
  BY DEF LineInv, LineType
<1>1. CASE Tick \/ UNCHANGED <<now, windowFrom, hostWire, wireLog, came>>
  <2>1. /\ now <= now' /\ now' \in Nat
        /\ UNCHANGED <<windowFrom, hostWire, wireLog, came>>
    BY <1>0, <1>1 DEF Tick, hostVars, pageVars
  <2>2. \A a \in came : a.t <= now'
    BY <1>0, <2>1 DEF CameInv
  <2> QED
    BY <2>1, <2>2 DEF CameInv, WholeLog
<1>2. CASE OpenWindow
  <2>1. now' = now + 1 /\ windowFrom' = now + 1 /\ wireLog' = <<>> /\ UNCHANGED <<hostWire, came>>
    BY <1>2 DEF OpenWindow
  <2>2. windowFrom' \in Nat /\ \A a \in came : a.t <= now' /\ ~(a.t >= windowFrom')
    BY <1>0, <2>1 DEF CameInv
  <2> QED
    BY <2>1, <2>2 DEF CameInv
<1>3. CASE HostSends \/ InputArrives
  <2>1. /\ UNCHANGED <<now, windowFrom, wireLog, came>>
        /\ \E e \in HostFrame \union HostInput : hostWire' = Append(hostWire, e)
    <3>1. CASE HostSends
      <4>1. [t |-> now, kind |-> "frame", bytes |-> 1, id |-> Frames + 1] \in HostFrame
        BY <1>0, SentAreCounted DEF HostFrame
      <4> QED
        BY <3>1, <4>1 DEF HostSends, pageVars
    <3>2. CASE InputArrives
      <4>1. PICK s : s = uplink[1]
        OBVIOUS
      <4>2. s \in Entry /\ Head(uplink) = s
        <5>1. uplink \in Seq(Entry) /\ uplink # <<>>
          BY <3>2 DEF LineInv, LineType, InputArrives
        <5> QED
          BY <4>1, <5>1, TailFacts
      <4>3. [t |-> now, kind |-> "input", bytes |-> 1, id |-> s.stamp, input |-> s.input, sent |-> s.t] \in HostInput
        BY <1>0, <4>2 DEF HostInput, Entry
      <4> QED
        BY <3>2, <4>2, <4>3 DEF InputArrives, pageVars
    <3> QED
      BY <1>3, <3>1, <3>2
  <2>2. \A id, a : SentBy(id, a, hostWire) => SentBy(id, a, hostWire')
    BY <1>0, <2>1, SentByMore
  <2> QED
    BY <2>1, <2>2 DEF CameInv, WholeLog
<1>4. CASE FrameArrives
  BY <1>4, FrameCame
<1>5. CASE BenchNext /\ ~(Tick \/ OpenWindow \/ HostSends \/ InputArrives \/ FrameArrives)
  <2>1. UNCHANGED <<now, windowFrom, hostWire, wireLog, came>>
    BY <1>5 DEF BenchNext, FrameLost, Paint, InputSent, Ping, HostReadsClock, Pong, hostVars, pageVars
  <2> QED
    BY <1>1, <2>1
<1>6. CASE UNCHANGED benchVars
  BY <1>1, <1>6 DEF benchVars, hostVars, pageVars
<1> QED
  BY <1>1, <1>2, <1>3, <1>4, <1>5, <1>6

LEMMA CameStarts == BenchInit => CameInv
<1> SUFFICES ASSUME BenchInit PROVE CameInv
  OBVIOUS
<1>1. came = {} /\ wireLog = <<>> /\ windowFrom = 0
  BY DEF BenchInit
<1> QED
  BY <1>1 DEF CameInv

LEMMA BenchAlways == BenchSpec => []BenchInv
<1>1. BenchInit => BenchInv
  BY LineStarts, HostStarts, CameStarts, ClockStarts DEF BenchInv
<1>2. BenchInv /\ [BenchNext]_benchVars => BenchInv'
  BY LineStep, HostStep, CameStep, ClockStep DEF BenchInv
<1> QED
  BY <1>1, <1>2, PTL DEF BenchSpec

-----------------------------------------------------------------------------
(* What the benches read from the logs.                                     *)

\* What is kept is of the sequence, and all of it that should be.
KeptAt(s, I) == FlattenSeq([i \in DOMAIN s |-> IF i \in I THEN <<s[i]>> ELSE <<>>])
LEMMA KeptAre ==
  ASSUME NEW M, NEW s \in Seq(M), NEW I \in SUBSET DOMAIN s
  PROVE  /\ KeptAt(s, I) \in Seq(M)
         /\ \A k \in DOMAIN KeptAt(s, I) : \E i \in I : KeptAt(s, I)[k] = s[i]
         /\ \A i \in I : \E k \in DOMAIN KeptAt(s, I) : KeptAt(s, I)[k] = s[i]
<1> DEFINE kept == KeptAt(s, I)
<1>1. kept \in Seq(M) /\ \E src : Picks(src, kept, s, I)
  BY KeptPicks DEF KeptAt
<1> HIDE DEF kept
<1>2. PICK src : Picks(src, kept, s, I)
  BY <1>1
<1>3. DOMAIN kept = 1..Len(kept)
  BY <1>1
<1>4. \A k \in DOMAIN kept : src[k] \in I /\ kept[k] = s[src[k]]
  BY <1>2, <1>3 DEF Picks
<1>5. \A i \in I : \E k \in DOMAIN kept : src[k] = i
  BY <1>2, <1>3 DEF Picks
<1>6. \A k \in DOMAIN kept : \E i \in I : kept[k] = s[i]
  BY <1>4
<1>7. \A i \in I : \E k \in DOMAIN kept : kept[k] = s[i]
  <2> TAKE i \in I
  <2>1. PICK k \in DOMAIN kept : src[k] = i
    BY <1>5
  <2> QED
    BY <1>4, <2>1
<1> QED
  BY <1>1, <1>6, <1>7 DEF kept

LEMMA ArrivalsAre ==
  ASSUME LineInv
  PROVE  /\ Arrivals \in Seq(HostFrame \union HostInput)
         /\ \A k \in DOMAIN Arrivals : \E h \in DOMAIN hostWire : hostWire[h].kind = "input" /\ Arrivals[k] = hostWire[h]
<1> DEFINE I == {i \in DOMAIN hostWire : hostWire[i].kind = "input"}
<1>1. Arrivals = KeptAt(hostWire, I)
  <2>1. [i \in DOMAIN hostWire |-> IF i \in I THEN <<hostWire[i]>> ELSE <<>>]
          = [i \in DOMAIN hostWire |-> IF hostWire[i].kind = "input" THEN <<hostWire[i]>> ELSE <<>>]
    OBVIOUS
  <2> QED
    BY <2>1 DEF Arrivals, Kept, KeptAt
<1>2. hostWire \in Seq(HostFrame \union HostInput) /\ I \in SUBSET DOMAIN hostWire
  BY DEF LineInv, LineType
<1>3. \A i \in I : i \in DOMAIN hostWire /\ hostWire[i].kind = "input"
  OBVIOUS
<1> HIDE DEF I
<1>4. /\ Arrivals \in Seq(HostFrame \union HostInput)
      /\ \A k \in DOMAIN Arrivals : \E i \in I : Arrivals[k] = hostWire[i]
  BY <1>1, <1>2, KeptAre
<1> QED
  BY <1>3, <1>4

LEMMA SentAre ==
  ASSUME LineInv
  PROVE  /\ Sent \in Seq(Entry)
         /\ \A k \in DOMAIN Sent : \E i \in DOMAIN inputLog : Sent[k] = inputLog[i]
<1> DEFINE I == {i \in DOMAIN inputLog : inputLog[i].t >= windowFrom}
<1>1. Sent = KeptAt(inputLog, I)
  <2>1. [i \in DOMAIN inputLog |-> IF i \in I THEN <<inputLog[i]>> ELSE <<>>]
          = [i \in DOMAIN inputLog |-> IF inputLog[i].t >= windowFrom THEN <<inputLog[i]>> ELSE <<>>]
    OBVIOUS
  <2> QED
    BY <2>1 DEF Sent, Since, Kept, KeptAt
<1>2. inputLog \in Seq(Entry) /\ I \in SUBSET DOMAIN inputLog
  BY DEF LineInv, LineType
<1>3. \A i \in I : i \in DOMAIN inputLog
  OBVIOUS
<1> HIDE DEF I
<1>4. /\ Sent \in Seq(Entry)
      /\ \A k \in DOMAIN Sent : \E i \in I : Sent[k] = inputLog[i]
  BY <1>1, <1>2, KeptAre
<1> QED
  BY <1>3, <1>4

LEMMA WindowedAre ==
  ASSUME LineInv
  PROVE  /\ Windowed \in Seq(HostFrame \union HostInput)
         /\ \A k \in DOMAIN Windowed : \E h \in DOMAIN hostWire : Windowed[k] = hostWire[h] /\ hostWire[h].t >= windowFrom
<1> DEFINE I == {i \in DOMAIN hostWire : hostWire[i].t >= windowFrom}
<1>1. Windowed = KeptAt(hostWire, I)
  <2>1. [i \in DOMAIN hostWire |-> IF i \in I THEN <<hostWire[i]>> ELSE <<>>]
          = [i \in DOMAIN hostWire |-> IF hostWire[i].t >= windowFrom THEN <<hostWire[i]>> ELSE <<>>]
    OBVIOUS
  <2> QED
    BY <2>1 DEF Windowed, Kept, KeptAt
<1>2. hostWire \in Seq(HostFrame \union HostInput) /\ I \in SUBSET DOMAIN hostWire
  BY DEF LineInv, LineType
<1>3. \A i \in I : i \in DOMAIN hostWire /\ hostWire[i].t >= windowFrom
  OBVIOUS
<1> HIDE DEF I
<1>4. /\ Windowed \in Seq(HostFrame \union HostInput)
      /\ \A k \in DOMAIN Windowed : \E i \in I : Windowed[k] = hostWire[i]
  BY <1>1, <1>2, KeptAre
<1> QED
  BY <1>3, <1>4

\* Every transit matchInputs quotes is that of one input, sent in the window and
\* arrived, although the page's log begins after the host's and stamps come round
\* again, as long as a turn of the stamp is longer than the tolerance (matchInputs).
THEOREM PairsAreAlwaysTrue == BenchSpec => []PairsAreTrue
<1>1. BenchInv => PairsAreTrue
  <2> SUFFICES ASSUME BenchInv, TurnIsLong PROVE
          LET m == MatchInputs(Sent, Received, MinTransit, MaxTransit)
          IN  \A i \in DOMAIN m.pairs : m.pairs[i][1].input = m.pairs[i][2].input
    BY DEF PairsAreTrue
  <2>0. LineInv /\ ArrivedInv
    BY DEF BenchInv, HostInv
  <2> DEFINE M == {Received[j] : j \in DOMAIN Received}
             m == MatchInputs(Sent, Received, MinTransit, MaxTransit)
  <2>1. /\ Received \in Seq(M) /\ DOMAIN Received = DOMAIN Arrivals
        /\ \A j \in DOMAIN Arrivals : Received[j] = [t |-> Arrivals[j].t, stamp |-> Arrivals[j].id, input |-> Arrivals[j].input]
    <3>1. Received = [j \in DOMAIN Arrivals |-> [t |-> Arrivals[j].t, stamp |-> Arrivals[j].id, input |-> Arrivals[j].input]]
      BY DEF Received, Column
    <3>2. PICK n \in Nat : DOMAIN Arrivals = 1..n
      BY <2>0, ArrivalsAre
    <3>3. Received \in [1..n -> M]
      BY <3>1, <3>2
    <3> HIDE DEF M
    <3> QED
      BY <3>1, <3>2, <3>3
  <2>2. \A k \in DOMAIN m.pairs : Quoted(m.pairs[k], Sent, Received, MinTransit, MaxTransit)
    <3>1. Sent \in Seq(Entry)
      BY <2>0, SentAre
    <3> HIDE DEF M
    <3> QED
      BY <2>1, <3>1, MatchedAreNear
  <2>3. ASSUME NEW k \in DOMAIN m.pairs
        PROVE  m.pairs[k][1].input = m.pairs[k][2].input
    <3>1. PICK i \in DOMAIN Sent, j \in DOMAIN Received :
             /\ m.pairs[k] = <<Sent[i], Received[j]>> /\ Received[j].stamp = Sent[i].stamp
             /\ Received[j].t <= Sent[i].t + MaxTransit /\ ~(Received[j].t - Sent[i].t < MinTransit)
      BY <2>2 DEF Quoted
    <3>2. j \in DOMAIN Arrivals /\ Received[j].t = Arrivals[j].t /\ Received[j].stamp = Arrivals[j].id
          /\ Received[j].input = Arrivals[j].input
      BY <2>1
    <3>3. PICK h \in DOMAIN hostWire : hostWire[h].kind = "input" /\ Arrivals[j] = hostWire[h]
      BY <2>0, <3>2, ArrivalsAre
    <3>4. /\ Arrivals[j].t \in Nat /\ Arrivals[j].sent \in Nat
          /\ Arrivals[j].sent <= Arrivals[j].t /\ Arrivals[j].t <= Arrivals[j].sent + MaxTransit
      BY <2>0, <3>3, HostElements DEF ArrivedInv, LineInv
    <3>5. Sent[i].t \in Nat
      <4>1. Sent[i] \in Entry
        BY <2>0, SentAre
      <4> QED
        BY <4>1 DEF Entry
    <3>6. Sent[i].input = Arrivals[j].input
      <4> SUFFICES ASSUME Sent[i].input # Arrivals[j].input PROVE FALSE
        OBVIOUS
      <4>1. PICK apart : apart = Sent[i].t - Arrivals[j].sent
        OBVIOUS
      <4>2. (IF apart < 0 THEN -apart ELSE apart) > MaxTransit - MinTransit
        BY <3>1, <3>2, <4>1 DEF TurnIsLong
      <4>3. MaxTransit \in Nat /\ MinTransit \in Int /\ MinTransit <= 0
        BY BenchAssumption
      <4>4. Arrivals[j].t <= Sent[i].t + MaxTransit /\ ~(Arrivals[j].t - Sent[i].t < MinTransit)
        BY <3>1, <3>2
      <4> QED
        BY <3>4, <3>5, <4>1, <4>2, <4>3, <4>4
    <3> QED
      BY <3>1, <3>2, <3>6
  <2> QED
    BY <2>3
<1> QED
  BY <1>1, BenchAlways, PTL

\* A number in a window's log of sends, as matchFrameSends takes them.
Framed(e) == e.kind \in {"frame", "keyframe"} /\ e.id # 0
SeenBy(end) == Kept(wireLog, LAMBDA e : e.t <= end)

LEMMA SeenAre ==
  ASSUME HostInv, NEW end
  PROVE  /\ SeenBy(end) \in Seq(WireEntry)
         /\ \A k \in DOMAIN SeenBy(end) : \E j \in DOMAIN wireLog : wireLog[j].t <= end /\ SeenBy(end)[k] = wireLog[j]
         /\ \A j \in DOMAIN wireLog : wireLog[j].t <= end => \E k \in DOMAIN SeenBy(end) : SeenBy(end)[k] = wireLog[j]
<1> DEFINE I == {j \in DOMAIN wireLog : wireLog[j].t <= end}
<1>1. SeenBy(end) = KeptAt(wireLog, I)
  <2>1. [j \in DOMAIN wireLog |-> IF j \in I THEN <<wireLog[j]>> ELSE <<>>]
          = [j \in DOMAIN wireLog |-> IF wireLog[j].t <= end THEN <<wireLog[j]>> ELSE <<>>]
    OBVIOUS
  <2> QED
    BY <2>1 DEF SeenBy, Kept, KeptAt
<1>2. wireLog \in Seq(WireEntry) /\ I \in SUBSET DOMAIN wireLog
  BY DEF HostInv, WireInv
<1>3. \A j \in DOMAIN wireLog : j \in I <=> wireLog[j].t <= end
  OBVIOUS
<1> HIDE DEF I
<1>4. /\ SeenBy(end) \in Seq(WireEntry)
      /\ \A k \in DOMAIN SeenBy(end) : \E j \in I : SeenBy(end)[k] = wireLog[j]
      /\ \A j \in I : \E k \in DOMAIN SeenBy(end) : SeenBy(end)[k] = wireLog[j]
  BY <1>1, <1>2, KeptAre
<1> QED
  BY <1>2, <1>3, <1>4

\* matchFrameSends, opened.
SendsOf(log) == {i \in DOMAIN log : Framed(log[i])}
ArrivalsFor(id, seen) == {j \in DOMAIN seen : Framed(seen[j]) /\ seen[j].id = id}
MissingOf(log, seen) == {i \in SendsOf(log) : ArrivalsFor(log[i].id, seen) = {}}
BeyondOf(log, seen, end) == {i \in MissingOf(log, seen) : log[i].t > end}
LostOf(log, seen, end) == {log[i].id : i \in MissingOf(log, seen) \ BeyondOf(log, seen, end)}
TransitAt(log, seen, i) == seen[Max(ArrivalsFor(log[i].id, seen))].t - log[i].t

LEMMA FrameSendsOpened ==
  ASSUME NEW log, NEW seen, NEW before, NEW end
  PROVE  LET m == MatchFrameSends(log, seen, before, end)
         IN  /\ m.lost = LostOf(log, seen, end)
             /\ m.sent = Cardinality(SendsOf(log))
             /\ m.beyondLog = Cardinality(BeyondOf(log, seen, end))
             /\ m.arrived = Cardinality(SendsOf(log)) - Cardinality(LostOf(log, seen, end))
                              - Cardinality(BeyondOf(log, seen, end))
             /\ \A i \in DOMAIN m.transits : /\ i \in SendsOf(log) \ MissingOf(log, seen)
                                             /\ m.transits[i] = TransitAt(log, seen, i)
BY DEF MatchFrameSends, LostOf, SendsOf, BeyondOf, MissingOf, ArrivalsFor, Framed, TransitAt

\* The frames of the host's log and of the page's are numbered, and a frame the page
\* has was sent, before it came.
LEMMA FramesAreKnown ==
  ASSUME BenchInv, NEW end
  PROVE  /\ \A i \in DOMAIN Windowed : Windowed[i].t \in Nat /\ (Framed(Windowed[i]) <=> Windowed[i].kind = "frame")
         /\ \A i \in DOMAIN Windowed : Windowed[i].kind = "frame" => Windowed[i].id \in 1..Frames
         /\ \A k \in DOMAIN SeenBy(end) : Framed(SeenBy(end)[k]) /\ SeenBy(end)[k].t \in Nat
         /\ \A k \in DOMAIN SeenBy(end), i \in DOMAIN Windowed :
               Windowed[i].kind = "frame" /\ Windowed[i].id = SeenBy(end)[k].id => Windowed[i].t <= SeenBy(end)[k].t
<1>0. LineInv /\ HostInv /\ NumberedInv /\ WireInv
  BY DEF BenchInv, HostInv
<1>1. \A h \in DOMAIN hostWire : /\ hostWire[h].t \in Nat /\ hostWire[h].kind \in {"frame", "input"}
                                 /\ hostWire[h].kind = "frame" => hostWire[h].id \in 1..Frames
  BY <1>0, HostElements DEF LineInv, NumberedInv
<1>2. Frames \in Nat
  BY <1>0, SentAreCounted DEF LineInv, LineType
<1>3. \A i \in DOMAIN Windowed : \E h \in DOMAIN hostWire : Windowed[i] = hostWire[h]
  BY <1>0, WindowedAre
<1>4. \A k \in DOMAIN SeenBy(end) : \E j \in DOMAIN wireLog : SeenBy(end)[k] = wireLog[j]
  BY <1>0, SeenAre
<1>5. \A j \in DOMAIN wireLog : wireLog[j].kind = "frame" /\ wireLog[j].t \in Nat
  <2>1. \A e \in WireEntry : e.kind = "frame" /\ e.t \in Nat
    BY DEF WireEntry
  <2>2. \A j \in DOMAIN wireLog : wireLog[j] \in WireEntry
    BY <1>0 DEF WireInv
  <2> QED
    BY <2>1, <2>2
<1>6. \A j \in DOMAIN wireLog : \E h \in DOMAIN hostWire :
         hostWire[h].kind = "frame" /\ hostWire[h].id = wireLog[j].id /\ hostWire[h].t <= wireLog[j].t
  BY <1>0 DEF WireInv, SentBy
<1>7. \A i \in DOMAIN Windowed : Windowed[i].t \in Nat /\ (Framed(Windowed[i]) <=> Windowed[i].kind = "frame")
  <2> TAKE i \in DOMAIN Windowed
  <2>1. PICK h \in DOMAIN hostWire : Windowed[i] = hostWire[h]
    BY <1>3
  <2>2. hostWire[h].kind = "frame" => hostWire[h].id # 0
    BY <1>1, <1>2
  <2> QED
    BY <1>1, <2>1, <2>2 DEF Framed
<1>8. \A k \in DOMAIN SeenBy(end) : Framed(SeenBy(end)[k]) /\ SeenBy(end)[k].t \in Nat
  <2> TAKE k \in DOMAIN SeenBy(end)
  <2>1. PICK j \in DOMAIN wireLog : SeenBy(end)[k] = wireLog[j]
    BY <1>4
  <2>2. wireLog[j].id \in 1..Frames
    BY <1>1, <1>6
  <2>3. wireLog[j].id # 0
    BY <1>2, <2>2
  <2> QED
    BY <1>5, <2>1, <2>3 DEF Framed
<1>9. ASSUME NEW k \in DOMAIN SeenBy(end), NEW i \in DOMAIN Windowed,
             Windowed[i].kind = "frame", Windowed[i].id = SeenBy(end)[k].id
      PROVE  Windowed[i].t <= SeenBy(end)[k].t
  <2>1. PICK h \in DOMAIN hostWire : Windowed[i] = hostWire[h]
    BY <1>3
  <2>2. PICK j \in DOMAIN wireLog : SeenBy(end)[k] = wireLog[j]
    BY <1>4
  <2>3. PICK g \in DOMAIN hostWire :
           hostWire[g].kind = "frame" /\ hostWire[g].id = wireLog[j].id /\ hostWire[g].t <= wireLog[j].t
    BY <1>6
  <2>4. g = h
    BY <1>0, <1>9, <2>1, <2>2, <2>3 DEF NumberedInv
  <2> QED
    BY <2>1, <2>2, <2>3, <2>4
<1>10. \A i \in DOMAIN Windowed : Windowed[i].kind = "frame" => Windowed[i].id \in 1..Frames
  BY <1>1, <1>3
<1> QED
  BY <1>7, <1>8, <1>9, <1>10

\* What was sent in the window came in the window.
LEMMA SentInWindow ==
  ASSUME BenchInv, NEW i \in DOMAIN Windowed, Windowed[i].kind = "frame",
         NEW a \in came, a.id = Windowed[i].id
  PROVE  a.t >= windowFrom
<1>0. LineInv /\ HostInv /\ NumberedInv
  BY DEF BenchInv, HostInv
<1>1. PICK h \in DOMAIN hostWire : Windowed[i] = hostWire[h] /\ hostWire[h].t >= windowFrom
  BY <1>0, WindowedAre
<1>2. PICK g \in DOMAIN hostWire : hostWire[g].kind = "frame" /\ hostWire[g].id = a.id /\ hostWire[g].t <= a.t
  BY DEF BenchInv, CameInv, SentBy
<1>3. g = h
  BY <1>0, <1>1, <1>2 DEF NumberedInv
<1>4. hostWire[h].t \in Nat /\ a.t \in Nat
  BY <1>0, HostElements DEF LineInv, BenchInv, CameInv
<1>5. windowFrom \in Nat
  BY DEF BenchInv, CameInv
<1> QED
  BY <1>1, <1>2, <1>3, <1>4, <1>5

\* Every frame matchFrameSends calls lost was lost or is still under way, and every
\* frame of the window that was lost before the page's log ended is called so, as long
\* as the page's log was not cut at its limit; no frame arrives before it was sent, and
\* no frame is left out of the count.
THEOREM LossesAreAlwaysReal == BenchSpec => []LossesAreReal
<1>1. BenchInv => LossesAreReal
  <2> SUFFICES ASSUME BenchInv, WholeLog, NEW end \in windowFrom..now
               PROVE  LET log == Windowed
                          m == MatchFrameSends(log, SeenBy(end), now, end)
                          sentBy == {log[i].id : i \in {j \in DOMAIN log : log[j].kind = "frame" /\ log[j].t <= end}}
                          arrivedBy == {a.id : a \in {b \in came : b.t <= end}}
                      IN  /\ m.lost = sentBy \ arrivedBy
                          /\ \A i \in DOMAIN m.transits : m.transits[i] >= 0
                          /\ m.sent = m.arrived + Cardinality(m.lost) + m.beyondLog
    BY DEF LossesAreReal, SeenBy
  <2> DEFINE log == Windowed
             seen == SeenBy(end)
             m == MatchFrameSends(log, seen, now, end)
             sentBy == {log[i].id : i \in {j \in DOMAIN log : log[j].kind = "frame" /\ log[j].t <= end}}
             arrivedBy == {a.id : a \in {b \in came : b.t <= end}}
  <2>0. LineInv /\ HostInv
    BY DEF BenchInv
  <2>1. \A i \in DOMAIN log : log[i].t \in Nat /\ (Framed(log[i]) <=> log[i].kind = "frame")
    BY FramesAreKnown
  <2>2. \A k \in DOMAIN seen : Framed(seen[k]) /\ seen[k].t \in Nat
    BY FramesAreKnown
  <2>3. \A k \in DOMAIN seen, i \in DOMAIN log :
           log[i].kind = "frame" /\ log[i].id = seen[k].id => log[i].t <= seen[k].t
    BY FramesAreKnown
  <2>4. end \in Int
    OBVIOUS
  <2>5. /\ m.lost = LostOf(log, seen, end)
        /\ m.sent = Cardinality(SendsOf(log))
        /\ m.beyondLog = Cardinality(BeyondOf(log, seen, end))
        /\ m.arrived = Cardinality(SendsOf(log)) - Cardinality(LostOf(log, seen, end))
                         - Cardinality(BeyondOf(log, seen, end))
        /\ \A i \in DOMAIN m.transits : /\ i \in SendsOf(log) \ MissingOf(log, seen)
                                        /\ m.transits[i] = TransitAt(log, seen, i)
    BY FrameSendsOpened
  <2>6. \A i \in DOMAIN log : log[i].kind = "frame" =>
           (log[i].id \in arrivedBy <=> ArrivalsFor(log[i].id, seen) # {})
    <3>1. /\ \A k \in DOMAIN seen : \E j \in DOMAIN wireLog : wireLog[j].t <= end /\ seen[k] = wireLog[j]
          /\ \A j \in DOMAIN wireLog : wireLog[j].t <= end => \E k \in DOMAIN seen : seen[k] = wireLog[j]
      BY <2>0, SeenAre
    <3>2. /\ \A j \in DOMAIN wireLog : \E a \in came : a.id = wireLog[j].id /\ a.t = wireLog[j].t
          /\ \A a \in came : a.t >= windowFrom => \E j \in DOMAIN wireLog : wireLog[j].id = a.id /\ wireLog[j].t = a.t
      BY DEF BenchInv, CameInv
    <3> TAKE i \in DOMAIN log
    <3> SUFFICES ASSUME log[i].kind = "frame" PROVE log[i].id \in arrivedBy <=> ArrivalsFor(log[i].id, seen) # {}
      OBVIOUS
    <3>3. \A a \in came : a.id = log[i].id => a.t >= windowFrom
      BY SentInWindow
    <3> HIDE DEF seen, log
    <3>4. log[i].id \in arrivedBy <=> \E a \in came : a.t <= end /\ a.id = log[i].id
      OBVIOUS
    <3>5. ArrivalsFor(log[i].id, seen) # {} <=> \E k \in DOMAIN seen : seen[k].id = log[i].id
      BY <2>2 DEF ArrivalsFor
    <3>6. ASSUME NEW a \in came, a.t <= end, a.id = log[i].id
          PROVE  \E k \in DOMAIN seen : seen[k].id = log[i].id
      <4>1. PICK j \in DOMAIN wireLog : wireLog[j].id = a.id /\ wireLog[j].t = a.t
        BY <3>2, <3>3, <3>6
      <4>2. PICK k \in DOMAIN seen : seen[k] = wireLog[j]
        BY <3>1, <3>6, <4>1
      <4> QED
        BY <3>6, <4>1, <4>2
    <3>7. ASSUME NEW k \in DOMAIN seen, seen[k].id = log[i].id
          PROVE  \E a \in came : a.t <= end /\ a.id = log[i].id
      <4>1. PICK j \in DOMAIN wireLog : wireLog[j].t <= end /\ seen[k] = wireLog[j]
        BY <3>1
      <4>2. PICK a \in came : a.id = wireLog[j].id /\ a.t = wireLog[j].t
        BY <3>2
      <4> QED
        BY <3>7, <4>1, <4>2
    <3> QED
      BY <3>4, <3>5, <3>6, <3>7
  <2>7. LostOf(log, seen, end) = sentBy \ arrivedBy
    <3>1. \A i : i \in MissingOf(log, seen) \ BeyondOf(log, seen, end)
                   <=> /\ i \in DOMAIN log /\ log[i].kind = "frame" /\ log[i].t <= end
                       /\ ArrivalsFor(log[i].id, seen) = {}
      <4> HIDE DEF log, seen
      <4> QED
        BY <2>1, <2>4 DEF MissingOf, BeyondOf, SendsOf
    <3>2. \A id : id \in LostOf(log, seen, end)
                    <=> \E i \in DOMAIN log : /\ log[i].kind = "frame" /\ log[i].t <= end /\ log[i].id = id
                                              /\ ArrivalsFor(id, seen) = {}
      <4> HIDE DEF log, seen
      <4> QED
        BY <3>1 DEF LostOf
    <3>3. \A id : id \in sentBy <=> \E i \in DOMAIN log : log[i].kind = "frame" /\ log[i].t <= end /\ log[i].id = id
      <4> HIDE DEF log
      <4> QED
        OBVIOUS
    <3> HIDE DEF log, seen, sentBy, arrivedBy
    <3> QED
      BY <2>6, <3>2, <3>3
  <2>8. \A i \in DOMAIN m.transits : m.transits[i] >= 0
    <3> TAKE i \in DOMAIN m.transits
    <3> HIDE DEF log, seen, m
    <3>1. /\ i \in DOMAIN log /\ Framed(log[i]) /\ ArrivalsFor(log[i].id, seen) # {}
          /\ m.transits[i] = TransitAt(log, seen, i)
      BY <2>5 DEF SendsOf, MissingOf
    <3> DEFINE A == ArrivalsFor(log[i].id, seen)
    <3>2. A \in SUBSET Int /\ \A k \in A : k \in DOMAIN seen /\ seen[k].id = log[i].id /\ k <= Len(seen) /\ Len(seen) \in Int
      <4>1. seen \in Seq(WireEntry)
        BY <2>0, SeenAre DEF seen
      <4>2. DOMAIN seen = 1..Len(seen) /\ Len(seen) \in Nat
        BY <4>1
      <4> QED
        BY <4>2 DEF ArrivalsFor
    <3>3. A # {}
      BY <3>1
    <3>4. PICK k : k = Max(A)
      OBVIOUS
    <3>5. k \in A
      <4>1. PICK hi \in Int : \A v \in A : v <= hi
        <5>1. Len(seen) \in Int /\ \A v \in A : v <= Len(seen)
          BY <3>2, <3>3
        <5> QED
          BY <5>1
      <4> HIDE DEF A
      <4> QED
        BY <3>2, <3>3, <3>4, <4>1, GreatestOf
    <3>6. m.transits[i] = seen[k].t - log[i].t
      BY <3>1, <3>4 DEF TransitAt
    <3>7. k \in DOMAIN seen /\ seen[k].id = log[i].id
      BY <3>2, <3>5
    <3>8. log[i].t <= seen[k].t /\ log[i].t \in Nat /\ seen[k].t \in Nat
      BY <2>1, <2>2, <2>3, <3>1, <3>7
    <3> QED
      BY <3>6, <3>8
  <2>9. /\ Cardinality(SendsOf(log)) \in Nat /\ Cardinality(LostOf(log, seen, end)) \in Nat
        /\ Cardinality(BeyondOf(log, seen, end)) \in Nat
    <3>1. IsFiniteSet(1..Len(log)) /\ DOMAIN log = 1..Len(log)
      <4>1. Len(log) \in Int /\ DOMAIN log = 1..Len(log)
        BY <2>0, WindowedAre
      <4> QED
        BY <4>1, FS_Interval
    <3>2. IsFiniteSet(SendsOf(log)) /\ IsFiniteSet(BeyondOf(log, seen, end))
      <4>1. SendsOf(log) \in SUBSET (1..Len(log)) /\ BeyondOf(log, seen, end) \in SUBSET (1..Len(log))
        BY <3>1 DEF SendsOf, BeyondOf, MissingOf
      <4> QED
        BY <3>1, <4>1, FS_Subset
    <3>3. IsFiniteSet(LostOf(log, seen, end))
      <4>1. Frames \in Int
        BY <2>0, SentAreCounted DEF LineInv, LineType
      <4>2. \A i \in DOMAIN log : Framed(log[i]) => log[i].id \in 1..Frames
        BY <2>1, FramesAreKnown
      <4>3. LostOf(log, seen, end) \in SUBSET (1..Frames)
        <5> HIDE DEF log, seen
        <5> QED
          BY <4>2 DEF LostOf, MissingOf, SendsOf
      <4>4. IsFiniteSet(1..Frames)
        BY <4>1, FS_Interval
      <4> HIDE DEF log, seen
      <4> QED
        BY <4>3, <4>4, FS_Subset
    <3> QED
      BY <3>2, <3>3, FS_CardinalityType
  <2>10. m.sent = m.arrived + Cardinality(m.lost) + m.beyondLog
    <3> HIDE DEF m, log, seen
    <3> QED
      BY <2>5, <2>9
  <2>11. m.lost = sentBy \ arrivedBy
    <3> HIDE DEF m, log, seen, sentBy, arrivedBy
    <3> QED
      BY <2>5, <2>7
  <2> QED
    BY <2>8, <2>10, <2>11
<1> QED
  BY <1>1, BenchAlways, PTL

-----------------------------------------------------------------------------
(* The clocks.                                                              *)

\* A percentile is one of the values.
LEMMA PercentileIsOfThem ==
  ASSUME NEW values \in Seq(Int), values # <<>>, NEW lo \in Int, NEW hi \in Int,
         \A i \in DOMAIN values : lo <= values[i] /\ values[i] <= hi,
         NEW num \in Nat, NEW den \in Nat \ {0}
  PROVE  \E i \in DOMAIN values : Percentile(values, num, den) = <<values[i]>>
<1> DEFINE L == Len(values)
           q == (num * L + den - 1) \div den
           rank == Max({1, Min({L, q})})
           UpTo(v) == {i \in DOMAIN values : values[i] <= v}
           V == {v \in Range(values) : Cardinality(UpTo(v)) >= rank}
<1>1. Percentile(values, num, den) = <<Min(V)>>
  BY DEF Percentile
<1>2. L \in Nat /\ L >= 1 /\ DOMAIN values = 1..L /\ \A i \in DOMAIN values : values[i] \in Int
  OBVIOUS
<1>3. Range(values) = {values[i] : i \in DOMAIN values}
  BY DEF Range
<1>4. rank <= L /\ rank \in Int
  <2>1. q \in Int
    <3>1. num * L + den - 1 \in Int /\ den \in Int /\ den # 0
      BY <1>2
    <3> QED
      BY <3>1
  <2>2. Min({L, q}) \in {L, q} /\ Min({L, q}) <= L
    <3>1. PICK b \in Int : b <= L /\ b <= q
      <4>1. CASE L <= q
        BY <1>2, <4>1
      <4>2. CASE ~(L <= q)
        BY <1>2, <2>1, <4>2
      <4> QED
        BY <4>1, <4>2
    <3>2. {L, q} \in SUBSET Int /\ {L, q} # {} /\ \A v \in {L, q} : b <= v
      BY <1>2, <2>1, <3>1
    <3> HIDE DEF L, q
    <3> QED
      BY <3>2, LeastOf
  <2>3. PICK least \in Int : least = Min({L, q}) /\ least <= L
    <3>1. Min({L, q}) \in Int
      <4> HIDE DEF L, q
      <4> QED
        BY <1>2, <2>1, <2>2
    <3> QED
      BY <2>2, <3>1
  <2>4. Max({1, least}) \in {1, least}
    <3>1. {1, least} \in SUBSET Int /\ {1, least} # {} /\ \A v \in {1, least} : v <= L
      BY <1>2, <2>3
    <3>2. L \in Int
      BY <1>2
    <3> HIDE DEF L
    <3> QED
      BY <3>1, <3>2, GreatestOf
  <2>5. rank = Max({1, least})
    BY <2>3
  <2> HIDE DEF rank, L, q
  <2> QED
    BY <1>2, <2>3, <2>4, <2>5
<1>5. V # {}
  <2> DEFINE R == Range(values)
             g == Max(R)
  <2>1. R \in SUBSET Int /\ R # {} /\ \A v \in R : v <= hi
    <3>1. 1 \in DOMAIN values
      BY <1>2
    <3> QED
      BY <1>2, <1>3, <3>1
  <2>2. g \in R /\ \A v \in R : v <= g
    <3> HIDE DEF R
    <3> QED
      BY <2>1, GreatestOf
  <2>3. UpTo(g) = 1..L
    <3>1. \A i \in DOMAIN values : values[i] \in R
      BY <1>3
    <3> HIDE DEF R, g
    <3> QED
      BY <1>2, <2>2, <3>1
  <2>4. Cardinality(1..L) = L
    <3>1. L \in Int /\ 1 \in Int /\ ~(1 > L)
      BY <1>2
    <3>2. Cardinality(1..L) = L - 1 + 1
      <4> HIDE DEF L
      <4> QED
        BY <3>1, FS_Interval
    <3> QED
      BY <3>2, <1>2
  <2>5. Cardinality(UpTo(g)) >= rank
    <3>1. Cardinality(UpTo(g)) = L
      BY <2>3, <2>4
    <3> HIDE DEF L, rank, UpTo, g
    <3> QED
      BY <1>2, <1>4, <3>1
  <2>6. g \in V
    <3> HIDE DEF rank, UpTo, g
    <3> QED
      BY <2>2, <2>5
  <2> QED
    BY <2>6
<1>6. V \in SUBSET Int /\ \A v \in V : lo <= v
  <2>1. \A v \in V : \E i \in DOMAIN values : v = values[i]
    <3> HIDE DEF rank, UpTo
    <3> QED
      BY <1>3
  <2> HIDE DEF V
  <2> QED
    BY <1>2, <2>1
<1>7. Min(V) \in V
  <2> HIDE DEF V
  <2> QED
    BY <1>5, <1>6, LeastOf
<1>8. PICK i \in DOMAIN values : Min(V) = values[i]
  <2>1. V \subseteq {values[i] : i \in DOMAIN values}
    <3> HIDE DEF rank, UpTo
    <3> QED
      BY <1>3
  <2> HIDE DEF V
  <2> QED
    BY <1>7, <2>1
<1> HIDE DEF V
<1> QED
  BY <1>1, <1>8

\* The clocks put together from round trips differ from the true difference by no more
\* than half the longest round trip (clockAlign; twice either side of it is compared).
THEOREM ClockIsWithinRoundTrip == BenchSpec => []ClockWithinRoundTrip
<1>1. BenchInv => ClockWithinRoundTrip
  <2> SUFFICES ASSUME BenchInv, pings # <<>>
               PROVE  LET error == ClockAlign(pings).offset2[1] - 2 * Shift
                      IN  (IF error < 0 THEN -error ELSE error) <= Max({pings[i].t1 - pings[i].t0 : i \in DOMAIN pings})
    BY DEF ClockWithinRoundTrip
  <2> DEFINE I == {i \in DOMAIN pings : pings[i].t1 >= pings[i].t0}
             valid == Kept(pings, LAMBDA s : s.t1 >= s.t0)
             offsets == [k \in DOMAIN valid |-> 2 * valid[k].hostNow - (valid[k].t0 + valid[k].t1)]
             rtts == {pings[i].t1 - pings[i].t0 : i \in DOMAIN pings}
  <2>1. pings \in Seq(Trip) /\ now \in Nat /\ Shift \in Int /\ 1 \in DOMAIN pings
    <3>1. pings \in Seq(Trip) /\ now \in Nat
      BY DEF BenchInv, ClockInv, LineInv, LineType
    <3> QED
      BY <3>1, BenchAssumption
  <2>2. \A i \in DOMAIN pings : /\ pings[i].t0 \in Nat /\ pings[i].t1 \in Nat /\ pings[i].hostNow \in Int
                                /\ pings[i].t0 <= pings[i].hostNow - Shift
                                /\ pings[i].hostNow - Shift <= pings[i].t1
                                /\ pings[i].t1 <= now
    <3>1. \A p \in Trip : p.t0 \in Nat /\ p.t1 \in Nat /\ p.hostNow \in Int
      BY DEF Trip
    <3>2. \A i \in DOMAIN pings : pings[i] \in Trip /\ Fits(pings[i], now)
      BY <2>1 DEF BenchInv, ClockInv
    <3> QED
      BY <3>1, <3>2 DEF Fits
  <2>3. /\ valid \in Seq(Trip)
        /\ \A k \in DOMAIN valid : \E i \in DOMAIN pings : valid[k] = pings[i]
        /\ valid # <<>>
    <3>1. valid = KeptAt(pings, I)
      <4>1. [i \in DOMAIN pings |-> IF i \in I THEN <<pings[i]>> ELSE <<>>]
              = [i \in DOMAIN pings |-> IF pings[i].t1 >= pings[i].t0 THEN <<pings[i]>> ELSE <<>>]
        OBVIOUS
      <4> QED
        BY <4>1 DEF Kept, KeptAt
    <3>2. I \in SUBSET DOMAIN pings /\ 1 \in I
      BY <2>1, <2>2
    <3> HIDE DEF I, valid
    <3>3. /\ valid \in Seq(Trip)
          /\ \A k \in DOMAIN valid : \E i \in I : valid[k] = pings[i]
          /\ \A i \in I : \E k \in DOMAIN valid : valid[k] = pings[i]
      BY <2>1, <3>1, <3>2, KeptAre
    <3>4. PICK k \in DOMAIN valid : valid[k] = pings[1]
      BY <3>2, <3>3
    <3> QED
      BY <3>2, <3>3, <3>4
  <2> HIDE DEF valid
  <2>4. \A k \in DOMAIN offsets : \E i \in DOMAIN pings :
           offsets[k] = 2 * pings[i].hostNow - (pings[i].t0 + pings[i].t1)
    BY <2>3
  <2>5. \A i \in DOMAIN pings :
           LET o == 2 * pings[i].hostNow - (pings[i].t0 + pings[i].t1)
           IN  o \in Int /\ 2 * Shift - now <= o /\ o <= 2 * Shift + now
    <3> TAKE i \in DOMAIN pings
    <3>1. PICK a, b \in Nat, h \in Int : a = pings[i].t0 /\ b = pings[i].t1 /\ h = pings[i].hostNow
      BY <2>2
    <3>2. a <= h - Shift /\ h - Shift <= b /\ b <= now
      BY <2>2, <3>1
    <3>3. 2 * h - (a + b) \in Int /\ 2 * Shift - now <= 2 * h - (a + b) /\ 2 * h - (a + b) <= 2 * Shift + now
      BY <2>1, <3>2
    <3> QED
      BY <3>1, <3>3
  <2>6. /\ offsets \in Seq(Int) /\ offsets # <<>>
        /\ \A k \in DOMAIN offsets : 2 * Shift - now <= offsets[k] /\ offsets[k] <= 2 * Shift + now
    <3>1. PICK n \in Nat : DOMAIN valid = 1..n /\ n >= 1
      BY <2>3
    <3>2. \A k \in DOMAIN offsets : /\ offsets[k] \in Int
                                    /\ 2 * Shift - now <= offsets[k] /\ offsets[k] <= 2 * Shift + now
      BY <2>4, <2>5
    <3>3. DOMAIN offsets = 1..n
      BY <3>1
    <3>4. offsets \in [1..n -> Int]
      BY <3>2, <3>3
    <3> HIDE DEF offsets
    <3> QED
      BY <3>1, <3>2, <3>3, <3>4
  <2>7. ClockAlign(pings).offset2 = Percentile(offsets, 1, 2)
    BY DEF ClockAlign, Column, valid
  <2>8. PICK k \in DOMAIN offsets : Percentile(offsets, 1, 2) = <<offsets[k]>>
    <3>1. 2 * Shift - now \in Int /\ 2 * Shift + now \in Int
      BY <2>1
    <3> HIDE DEF offsets
    <3> QED
      BY <2>6, <3>1, PercentileIsOfThem
  <2>9. PICK i \in DOMAIN pings : offsets[k] = 2 * pings[i].hostNow - (pings[i].t0 + pings[i].t1)
    BY <2>4
  <2>10. ClockAlign(pings).offset2[1] = 2 * pings[i].hostNow - (pings[i].t0 + pings[i].t1)
    BY <2>7, <2>8, <2>9
  <2>11. \A v \in rtts : v <= Max(rtts)
    <3>1. rtts \in SUBSET Int /\ rtts # {} /\ \A v \in rtts : v <= now
      BY <2>1, <2>2
    <3> HIDE DEF rtts
    <3> QED
      BY <2>1, <3>1, GreatestOf
  <2>12. pings[i].t1 - pings[i].t0 <= Max(rtts)
    BY <2>11
  <2>13. Max(rtts) \in Int
    <3>1. rtts \in SUBSET Int /\ rtts # {} /\ \A v \in rtts : v <= now
      BY <2>1, <2>2
    <3> HIDE DEF rtts
    <3>2. Max(rtts) \in rtts
      BY <2>1, <3>1, GreatestOf
    <3> QED
      BY <3>1, <3>2
  <2>14. PICK e : e = ClockAlign(pings).offset2[1] - 2 * Shift
    OBVIOUS
  <2>15. (IF e < 0 THEN -e ELSE e) <= pings[i].t1 - pings[i].t0
    <3>1. PICK a, b \in Nat, h \in Int : a = pings[i].t0 /\ b = pings[i].t1 /\ h = pings[i].hostNow
      BY <2>2
    <3>2. a <= h - Shift /\ h - Shift <= b
      BY <2>2, <3>1
    <3>3. e = 2 * h - (a + b) - 2 * Shift
      BY <2>10, <2>14, <3>1
    <3>4. (IF e < 0 THEN -e ELSE e) <= b - a
      BY <2>1, <3>2, <3>3
    <3> QED
      BY <3>1, <3>4
  <2>16. (IF e < 0 THEN -e ELSE e) <= Max(rtts)
    <3>1. e \in Int /\ pings[i].t1 - pings[i].t0 \in Int
      BY <2>1, <2>2, <2>10, <2>14
    <3> HIDE DEF rtts
    <3> QED
      BY <2>12, <2>13, <2>15, <3>1
  <2> QED
    BY <2>14, <2>16
<1> QED
  BY <1>1, BenchAlways, PTL

-----------------------------------------------------------------------------
(* Counting.                                                                *)

LEMMA UpToHas ==
  ASSUME NEW n \in Nat
  PROVE  IsFiniteSet(1..n) /\ Cardinality(1..n) = n
<1>1. IsFiniteSet(1..n) /\ Cardinality(1..n) = IF 1 > n THEN 0 ELSE n - 1 + 1
  BY FS_Interval
<1>2. (IF 1 > n THEN 0 ELSE n - 1 + 1) = n
  OBVIOUS
<1> QED
  BY <1>1, <1>2

\* Places of a sequence.
LEMMA PlacesAreFinite ==
  ASSUME NEW n \in Nat, NEW S \in SUBSET (1..n)
  PROVE  IsFiniteSet(S) /\ Cardinality(S) \in Nat /\ Cardinality(S) <= n
<1>1. IsFiniteSet(1..n) /\ Cardinality(1..n) = n
  BY UpToHas
<1>2. IsFiniteSet(S) /\ Cardinality(S) <= n
  BY <1>1, FS_Subset
<1> QED
  BY <1>2, FS_CardinalityType

\* Two sets as large as each other, told one element by one.
LEMMA AsMany ==
  ASSUME NEW S, NEW T, IsFiniteSet(S), NEW f, f \in [S -> T],
         \A x, y \in S : f[x] = f[y] => x = y, \A t \in T : \E x \in S : f[x] = t
  PROVE  IsFiniteSet(T) /\ Cardinality(T) = Cardinality(S)
<1>1. f \in Injection(S, T)
  BY DEF Injection, IsInjective
<1>2. f \in Surjection(S, T)
  BY DEF Surjection
<1>3. ExistsBijection(S, T)
  BY <1>1, <1>2 DEF ExistsBijection, Bijection
<1> QED
  BY <1>3, FS_Bijection

LEMMA NoMore ==
  ASSUME NEW S, NEW T, IsFiniteSet(T), NEW f, f \in [S -> T],
         \A x, y \in S : f[x] = f[y] => x = y
  PROVE  IsFiniteSet(S) /\ Cardinality(S) <= Cardinality(T)
<1>1. f \in Injection(S, T)
  BY DEF Injection, IsInjective
<1> QED
  BY <1>1, FS_Injection

\* At how many places of I a sequence has one of T.
Among(s, I, T) == Cardinality({i \in I : s[i] \in T})

\* Of what is kept, as many pass a test as of the places it is kept from.
LEMMA KeptCounts ==
  ASSUME NEW M, NEW s \in Seq(M), NEW I \in SUBSET DOMAIN s, NEW T
  PROVE  /\ KeptAt(s, I) \in Seq(M)
         /\ Among(KeptAt(s, I), DOMAIN KeptAt(s, I), T) = Among(s, I, T)
<1> DEFINE kept == KeptAt(s, I)
           K == {k \in DOMAIN kept : kept[k] \in T}
           J == {i \in I : s[i] \in T}
<1>1. kept \in Seq(M) /\ \E src : Picks(src, kept, s, I)
  BY KeptPicks DEF KeptAt
<1> HIDE DEF kept
<1>2. PICK src : Picks(src, kept, s, I)
  BY <1>1
<1>3. DOMAIN kept = 1..Len(kept) /\ Len(kept) \in Nat
  BY <1>1
<1>4. /\ \A k \in DOMAIN kept : src[k] \in I /\ kept[k] = s[src[k]]
      /\ \A i, j \in DOMAIN kept : i < j => src[i] < src[j]
      /\ \A i \in I : \E k \in DOMAIN kept : src[k] = i
  BY <1>2, <1>3 DEF Picks
<1>5. IsFiniteSet(K)
  <2>1. K \in SUBSET (1..Len(kept))
    BY <1>3
  <2> HIDE DEF K
  <2> QED
    BY <1>3, <2>1, PlacesAreFinite
<1> DEFINE f == [k \in K |-> src[k]]
<1>6. f \in [K -> J]
  BY <1>4
<1>7. \A x, y \in K : f[x] = f[y] => x = y
  <2> SUFFICES ASSUME NEW x \in K, NEW y \in K, f[x] = f[y] PROVE x = y
    OBVIOUS
  <2>1. x \in DOMAIN kept /\ y \in DOMAIN kept /\ src[x] = src[y]
    OBVIOUS
  <2>2. x \in Int /\ y \in Int
    BY <1>3, <2>1
  <2>3. src[x] \in Int
    <3>1. DOMAIN s = 1..Len(s)
      OBVIOUS
    <3> QED
      BY <3>1, <1>4, <2>1
  <2>4. ~(x < y) /\ ~(y < x)
    BY <1>4, <2>1, <2>3
  <2> QED
    BY <2>2, <2>4
<1>8. \A i \in J : \E k \in K : f[k] = i
  <2> TAKE i \in J
  <2>1. PICK k \in DOMAIN kept : src[k] = i
    BY <1>4
  <2>2. k \in K
    BY <1>4, <2>1
  <2> QED
    BY <2>1, <2>2
<1>9. Cardinality(J) = Cardinality(K)
  <2> HIDE DEF J, K, f
  <2> QED
    BY <1>5, <1>6, <1>7, <1>8, AsMany
<1> QED
  BY <1>1, <1>9 DEF kept, Among

\* All of it.
LEMMA KeptLength ==
  ASSUME NEW M, NEW s \in Seq(M), NEW I \in SUBSET DOMAIN s
  PROVE  Len(KeptAt(s, I)) = Cardinality(I)
<1> DEFINE kept == KeptAt(s, I)
<1>1. kept \in Seq(M) /\ Among(kept, DOMAIN kept, M) = Among(s, I, M)
  BY KeptCounts
<1> HIDE DEF kept
<1>2. {k \in DOMAIN kept : kept[k] \in M} = 1..Len(kept) /\ Len(kept) \in Nat
  BY <1>1
<1>3. {i \in I : s[i] \in M} = I
  OBVIOUS
<1>4. Cardinality(1..Len(kept)) = Len(kept)
  BY <1>2, UpToHas
<1> QED
  BY <1>1, <1>2, <1>3, <1>4 DEF kept, Among

-----------------------------------------------------------------------------
(* Sorting.                                                                 *)

\* Every place has a rank of its own, and every rank a place.
LEMMA RanksAreTaken ==
  ASSUME NEW n \in Nat, NEW keys \in [1..n -> Int]
  PROVE  /\ \A i \in 1..n : RankIn(keys, i) \in 1..n
         /\ \A i, j \in 1..n : RankIn(keys, i) = RankIn(keys, j) => i = j
         /\ \A r \in 1..n : \E i \in 1..n : RankIn(keys, i) = r
<1> DEFINE Before(i) == {j \in DOMAIN keys : keys[j] < keys[i] \/ (keys[j] = keys[i] /\ j <= i)}
<1>1. DOMAIN keys = 1..n /\ \A i \in 1..n : keys[i] \in Int
  OBVIOUS
<1>2. ASSUME NEW i \in 1..n PROVE Before(i) \in SUBSET (1..n) /\ i \in Before(i)
  BY <1>1
<1>3. ASSUME NEW i \in 1..n PROVE IsFiniteSet(Before(i)) /\ Cardinality(Before(i)) \in 1..n
  <2> HIDE DEF Before
  <2>1. IsFiniteSet(Before(i)) /\ Cardinality(Before(i)) \in Nat /\ Cardinality(Before(i)) <= n
    BY <1>2, PlacesAreFinite
  <2>2. Cardinality(Before(i)) # 0
    BY <1>2, <2>1, FS_EmptySet
  <2> QED
    BY <2>1, <2>2
<1>4. ASSUME NEW i \in 1..n, NEW j \in 1..n, i \in Before(j), i # j
      PROVE  Cardinality(Before(i)) # Cardinality(Before(j))
  <2>1. Before(i) \in SUBSET Before(j)
    BY <1>1, <1>4
  <2>2. j \notin Before(i)
    BY <1>1, <1>4
  <2> HIDE DEF Before
  <2> QED
    BY <1>2, <1>3, <2>1, <2>2, FS_Subset
<1>5. ASSUME NEW i \in 1..n, NEW j \in 1..n PROVE i \in Before(j) \/ j \in Before(i)
  BY <1>1
<1>6. \A i \in 1..n : RankIn(keys, i) = Cardinality(Before(i))
  BY DEF RankIn
<1> HIDE DEF Before
<1>7. \A i \in 1..n : RankIn(keys, i) \in 1..n
  BY <1>3, <1>6
<1>8. \A i, j \in 1..n : RankIn(keys, i) = RankIn(keys, j) => i = j
  BY <1>4, <1>5, <1>6
<1>9. \A r \in 1..n : \E i \in 1..n : RankIn(keys, i) = r
  <2> DEFINE f == [i \in 1..n |-> RankIn(keys, i)]
  <2>1. f \in [1..n -> 1..n] /\ \A x, y \in 1..n : f[x] = f[y] => x = y
    BY <1>7, <1>8
  <2>2. f \in Injection(1..n, 1..n)
    <3> HIDE DEF f
    <3> QED
      BY <2>1 DEF Injection, IsInjective
  <2>3. f \in Surjection(1..n, 1..n)
    <3> HIDE DEF f
    <3> QED
      BY <2>2, UpToHas, FS_Injection
  <2>4. \A r \in 1..n : \E i \in 1..n : f[i] = r
    <3> HIDE DEF f
    <3> QED
      BY <2>3 DEF Surjection
  <2> QED
    BY <2>4
<1> QED
  BY <1>7, <1>8, <1>9

\* What sorting by keys makes of s: as long as s, and of the elements of s, each as
\* often as s has it.
SortedAt(s, keys) == [rank \in DOMAIN s |-> s[AtRank(keys, rank)]]

LEMMA SortedAre ==
  ASSUME NEW M, NEW s \in Seq(M), NEW keys \in [DOMAIN s -> Int]
  PROVE  /\ SortedAt(s, keys) \in Seq(M) /\ Len(SortedAt(s, keys)) = Len(s)
         /\ \A k \in DOMAIN SortedAt(s, keys) : \E i \in DOMAIN s : SortedAt(s, keys)[k] = s[i]
         /\ \A T : Among(SortedAt(s, keys), DOMAIN SortedAt(s, keys), T) = Among(s, DOMAIN s, T)
<1> DEFINE n == Len(s)
           at == [rank \in 1..n |-> AtRank(keys, rank)]
           sorted == SortedAt(s, keys)
<1>1. n \in Nat /\ DOMAIN s = 1..n /\ \A i \in 1..n : s[i] \in M
  OBVIOUS
<1>2. keys \in [1..n -> Int] /\ DOMAIN keys = 1..n
  BY <1>1
<1>3. /\ \A r \in 1..n : \E i \in 1..n : RankIn(keys, i) = r
      /\ \A i \in 1..n : RankIn(keys, i) \in 1..n
      /\ \A i, j \in 1..n : RankIn(keys, i) = RankIn(keys, j) => i = j
  <2> HIDE DEF n
  <2> QED
    BY <1>1, <1>2, RanksAreTaken
<1>4. \A r \in 1..n : at[r] \in 1..n /\ RankIn(keys, at[r]) = r
  <2> TAKE r \in 1..n
  <2>1. \E i \in 1..n : RankIn(keys, i) = r
    BY <1>3
  <2>2. at[r] = CHOOSE i \in DOMAIN keys : RankIn(keys, i) = r
    BY DEF AtRank
  <2>3. DOMAIN keys = 1..n
    BY <1>2
  <2> HIDE DEF at, n
  <2> QED
    BY <2>1, <2>2, <2>3
<1>5. sorted = [r \in 1..n |-> s[at[r]]]
  BY <1>1 DEF SortedAt
<1> HIDE DEF at, sorted
<1>6. sorted \in Seq(M) /\ Len(sorted) = n /\ DOMAIN sorted = 1..n
  <2>1. sorted \in [1..n -> M]
    BY <1>1, <1>4, <1>5
  <2> QED
    BY <2>1, <1>1
<1>7. \A k \in DOMAIN sorted : \E i \in DOMAIN s : sorted[k] = s[i]
  BY <1>1, <1>4, <1>5, <1>6
<1>8. ASSUME NEW T
      PROVE  Cardinality({k \in DOMAIN sorted : sorted[k] \in T}) = Cardinality({i \in DOMAIN s : s[i] \in T})
  <2> DEFINE K == {k \in DOMAIN sorted : sorted[k] \in T}
             J == {i \in DOMAIN s : s[i] \in T}
             f == [k \in K |-> at[k]]
  <2>1. IsFiniteSet(K)
    <3>1. K \in SUBSET (1..n)
      BY <1>6
    <3> HIDE DEF K, n
    <3> QED
      BY <3>1, <1>1, PlacesAreFinite
  <2>2. f \in [K -> J]
    BY <1>1, <1>4, <1>5, <1>6
  <2>3. \A x, y \in K : f[x] = f[y] => x = y
    BY <1>4, <1>6
  <2>4. \A i \in J : \E k \in K : f[k] = i
    <3> TAKE i \in J
    <3> DEFINE k == RankIn(keys, i)
    <3>1. i \in 1..n /\ k \in 1..n
      BY <1>1, <1>3
    <3>2. at[k] = i
      <4> HIDE DEF n
      <4> QED
        BY <1>3, <1>4, <3>1
    <3>3. k \in K
      BY <1>5, <1>6, <3>1, <3>2
    <3>4. f[k] = i
      BY <3>2, <3>3
    <3> HIDE DEF k, f, K
    <3> QED
      BY <3>3, <3>4
  <2> HIDE DEF K, J, f
  <2>5. IsFiniteSet(J) /\ Cardinality(J) = Cardinality(K)
    BY <2>1, <2>2, <2>3, <2>4, AsMany
  <2> QED
    BY <2>5 DEF K, J
<1> QED
  BY <1>6, <1>7, <1>8 DEF sorted, Among

\* What is in order stays as it is.
LEMMA SortedStays ==
  ASSUME NEW s \in Seq(Int), \A i, j \in DOMAIN s : i < j => s[i] <= s[j]
  PROVE  Ascending(s) = s
<1> DEFINE n == Len(s)
<1>1. n \in Nat /\ DOMAIN s = 1..n /\ s \in [1..n -> Int] /\ \A i \in 1..n : s[i] \in Int
  OBVIOUS
<1>2. \A i \in 1..n : RankIn(s, i) = i
  <2> TAKE i \in 1..n
  <2>1. {j \in DOMAIN s : s[j] < s[i] \/ (s[j] = s[i] /\ j <= i)} = 1..i
    <3>1. ASSUME NEW j \in 1..n PROVE (s[j] < s[i] \/ (s[j] = s[i] /\ j <= i)) <=> j <= i
      <4>1. j < i => s[j] <= s[i]
        BY <1>1
      <4>2. i < j => s[i] <= s[j]
        BY <1>1
      <4>3. s[i] \in Int /\ s[j] \in Int
        BY <1>1
      <4> QED
        BY <4>1, <4>2, <4>3
    <3> QED
      BY <1>1, <3>1
  <2>2. Cardinality(1..i) = i
    BY UpToHas
  <2> QED
    BY <2>1, <2>2 DEF RankIn
<1>3. \A r \in DOMAIN s : AtRank(s, r) = r
  BY <1>1, <1>2 DEF AtRank
<1>4. Column(s, LAMBDA v : v) = s
  BY <1>1 DEF Column
<1>5. Ascending(s) = [r \in DOMAIN s |-> s[AtRank(s, r)]]
  BY <1>4 DEF Ascending, SortedBy
<1>6. [r \in DOMAIN s |-> s[AtRank(s, r)]] = [r \in DOMAIN s |-> s[r]]
  <2> HIDE DEF n
  <2> QED
    BY <1>3
<1>7. s = [r \in DOMAIN s |-> s[r]]
  BY <1>1
<1> QED
  BY <1>5, <1>6, <1>7

-----------------------------------------------------------------------------
(* The host's answers.                                                      *)

Answer == [t : Nat, stamp : Nat, ms : Nat]

\* The host answered an input of this stamp by then, one it had since a moment not
\* before.
AnsweredBy(stamp, by, arrival, log) ==
  \E k \in DOMAIN log : log[k].stamp = stamp /\ log[k].t <= by /\ arrival <= log[k].t - log[k].ms

\* Later answers are of inputs that came later; whatever the page has of an answer,
\* the host has an answer to it on record.
AnswerInv ==
  /\ answers \in Seq(Answer)
  /\ \A k \in DOMAIN answers : answers[k].t <= now
  /\ \A j, k \in DOMAIN answers : j < k => /\ answers[j].t <= answers[k].t
                                          /\ answers[j].t - answers[j].ms <= answers[k].t - answers[k].ms
  /\ \A i \in DOMAIN unanswered :
        /\ unanswered[i].sent <= unanswered[i].arrived /\ unanswered[i].arrived <= now
        /\ \A k \in DOMAIN answers : answers[k].t - answers[k].ms <= unanswered[i].arrived
  /\ \A f \in DOMAIN air : \A i \in DOMAIN air[f].answer :
        AnsweredBy(air[f].answer[i].stamp, now, air[f].answer[i].sent, answers)
  /\ \A i \in DOMAIN pending : AnsweredBy(pending[i].stamp, now, pending[i].sent, answers)
  /\ \A i \in DOMAIN samples :
        /\ samples[i].shownAt <= now /\ samples[i].ms = samples[i].shownAt - samples[i].sentAt
        /\ AnsweredBy(samples[i].stamp, samples[i].shownAt, samples[i].asked, answers)

LEMMA AnswerElements ==
  ASSUME answers \in Seq(Answer)
  PROVE  \A k \in DOMAIN answers : answers[k].t \in Nat /\ answers[k].ms \in Nat
<1>1. \A k \in DOMAIN answers : answers[k] \in Answer
  OBVIOUS
<1> QED
  BY <1>1 DEF Answer

LEMMA AnsweredStays ==
  ASSUME AnswerInv, now \in Nat, now' \in Nat, now <= now', NEW stamp, NEW arrival, AnsweredBy(stamp, now, arrival, answers)
  PROVE  AnsweredBy(stamp, now', arrival, answers)
<1>1. PICK k \in DOMAIN answers : answers[k].stamp = stamp /\ answers[k].t <= now /\ arrival <= answers[k].t - answers[k].ms
  BY DEF AnsweredBy
<1>2. answers[k].t \in Nat
  BY AnswerElements DEF AnswerInv
<1>3. answers[k].t <= now'
  BY <1>1, <1>2
<1> QED
  BY <1>1, <1>3 DEF AnsweredBy

\* Steps that change nothing of it but the time, or take something away.
LEMMA AnswersStay ==
  ASSUME LineInv, AnswerInv, now' \in Nat, now <= now', UNCHANGED <<answers, unanswered>>,
         \A f \in DOMAIN air' : \E g \in DOMAIN air : air'[f] = air[g],
         pending' = pending, samples' \in {samples, <<>>}
  PROVE  AnswerInv'
<1>0. now \in Nat
  BY DEF LineInv, LineType
<1>1. \A stamp, arrival : AnsweredBy(stamp, now, arrival, answers) => AnsweredBy(stamp, now', arrival, answers)
  BY <1>0, AnsweredStays
<1>2. \A k \in DOMAIN answers : answers[k].t <= now'
  <2> TAKE k \in DOMAIN answers
  <2>1. answers[k].t \in Nat /\ answers[k].t <= now
    BY AnswerElements DEF AnswerInv
  <2> QED
    BY <1>0, <2>1
<1>3. \A i \in DOMAIN unanswered : unanswered[i].arrived <= now'
  <2> TAKE i \in DOMAIN unanswered
  <2>1. unanswered[i] \in Mark
    BY ElementTypes DEF LineInv
  <2>2. unanswered[i].arrived \in Nat /\ unanswered[i].arrived <= now
    BY <2>1 DEF Mark, AnswerInv
  <2> QED
    BY <1>0, <2>2
<1>4. \A f \in DOMAIN air' : \A i \in DOMAIN air'[f].answer :
        AnsweredBy(air'[f].answer[i].stamp, now', air'[f].answer[i].sent, answers)
  <2> TAKE f \in DOMAIN air'
  <2>1. PICK g \in DOMAIN air : air'[f] = air[g]
    OBVIOUS
  <2>2. \A i \in DOMAIN air[g].answer : AnsweredBy(air[g].answer[i].stamp, now, air[g].answer[i].sent, answers)
    BY DEF AnswerInv
  <2> QED
    BY <1>1, <2>1, <2>2
<1>5. \A i \in DOMAIN pending : AnsweredBy(pending[i].stamp, now', pending[i].sent, answers)
  BY <1>1 DEF AnswerInv
<1>6. \A i \in DOMAIN samples' :
        /\ samples'[i].shownAt <= now' /\ samples'[i].ms = samples'[i].shownAt - samples'[i].sentAt
        /\ AnsweredBy(samples'[i].stamp, samples'[i].shownAt, samples'[i].asked, answers)
  <2> SUFFICES ASSUME samples' = samples, NEW i \in DOMAIN samples
               PROVE  /\ samples[i].shownAt <= now' /\ samples[i].ms = samples[i].shownAt - samples[i].sentAt
                      /\ AnsweredBy(samples[i].stamp, samples[i].shownAt, samples[i].asked, answers)
    OBVIOUS
  <2>1. samples[i] \in Timing
    BY ElementTypes DEF LineInv
  <2>2. samples[i].shownAt \in Nat
    BY <2>1 DEF Timing
  <2> QED
    BY <1>0, <2>2 DEF AnswerInv
<1> QED
  BY <1>2, <1>3, <1>4, <1>5, <1>6 DEF AnswerInv

\* The host answers what no frame had answered.
LEMMA HostAnswers ==
  ASSUME LineInv, AnswerInv, HostSends
  PROVE  AnswerInv'
<1> DEFINE R == [id : Nat, answer : Seq(Mark)]
<1>1. PICK f : f = [id |-> Frames + 1, answer |-> unanswered]
  OBVIOUS
<1>2. /\ air' = Append(air, f) /\ unanswered' = <<>>
      /\ answers' = answers \o [i \in DOMAIN unanswered |->
                        [t |-> now, stamp |-> unanswered[i].stamp, ms |-> now - unanswered[i].arrived]]
      /\ UNCHANGED <<now, pending, samples>>
  BY <1>1 DEF HostSends, None, Column, pageVars
<1>3. f \in R /\ f.answer = unanswered /\ Frames \in Nat /\ now \in Nat
  BY <1>1, SentAreCounted DEF LineInv, LineType
<1>4. \A i \in DOMAIN air' : (i \in DOMAIN air /\ air'[i] = air[i]) \/ air'[i] = f
  <2>1. air \in Seq(R)
    BY DEF LineInv, LineType
  <2> HIDE DEF R
  <2> QED
    BY <1>2, <1>3, <2>1, AppendFacts
<1>5. unanswered \in Seq(Mark) /\ (unanswered = <<>> \/ (unanswered = <<unanswered[1]>> /\ unanswered[1] \in Mark))
  <2>1. unanswered \in Seq(Mark) /\ Len(unanswered) <= 1
    BY DEF LineInv, LineType
  <2> QED
    BY <2>1, ShortComes
<1>6. answers \in Seq(Answer) /\ \A k \in DOMAIN answers : answers[k].t \in Nat /\ answers[k].ms \in Nat /\ answers[k].t <= now
  BY AnswerElements DEF AnswerInv
<1>7. /\ \A i \in DOMAIN unanswered' : FALSE
      /\ \A i \in DOMAIN pending : AnsweredBy(pending[i].stamp, now, pending[i].sent, answers)
      /\ \A i \in DOMAIN samples :
           /\ samples[i].shownAt <= now /\ samples[i].ms = samples[i].shownAt - samples[i].sentAt
           /\ AnsweredBy(samples[i].stamp, samples[i].shownAt, samples[i].asked, answers)
  BY <1>2 DEF AnswerInv
<1>8. CASE unanswered = <<>>
  <2>1. answers' = answers
    <3>1. [i \in DOMAIN unanswered |->
               [t |-> now, stamp |-> unanswered[i].stamp, ms |-> now - unanswered[i].arrived]] = <<>>
      BY <1>8
    <3> QED
      BY <1>2, <1>6, <3>1
  <2>2. \A i \in DOMAIN air' : \A j \in DOMAIN air'[i].answer :
          AnsweredBy(air'[i].answer[j].stamp, now, air'[i].answer[j].sent, answers)
    BY <1>3, <1>4, <1>8 DEF AnswerInv
  <2>3. \A j, k \in DOMAIN answers : j < k => /\ answers[j].t <= answers[k].t
                                              /\ answers[j].t - answers[j].ms <= answers[k].t - answers[k].ms
    BY DEF AnswerInv
  <2> QED
    BY <1>2, <1>6, <1>7, <2>1, <2>2, <2>3 DEF AnswerInv
<1>9. CASE unanswered = <<unanswered[1]>> /\ unanswered[1] \in Mark
  <2>1. PICK u \in Mark : u = unanswered[1] /\ unanswered = <<u>>
    BY <1>9
  <2>2. /\ u.sent <= u.arrived /\ u.arrived <= now /\ u.arrived \in Nat /\ u.sent \in Nat /\ u.stamp \in Nat
        /\ \A k \in DOMAIN answers : answers[k].t - answers[k].ms <= u.arrived
    <3>1. 1 \in DOMAIN unanswered /\ unanswered[1] = u
      BY <2>1
    <3>2. u.arrived \in Nat /\ u.sent \in Nat /\ u.stamp \in Nat
      BY DEF Mark
    <3> QED
      BY <3>1, <3>2 DEF AnswerInv
  <2>3. PICK a : a = [t |-> now, stamp |-> u.stamp, ms |-> now - u.arrived]
    OBVIOUS
  <2>4. a \in Answer /\ a.t = now /\ a.stamp = u.stamp /\ a.t - a.ms = u.arrived
    <3>1. now - u.arrived \in Nat /\ now - (now - u.arrived) = u.arrived
      BY <1>3, <2>2
    <3> QED
      BY <1>3, <2>2, <2>3, <3>1 DEF Answer
  <2>5. answers' = Append(answers, a)
    <3>1. [i \in DOMAIN unanswered |->
               [t |-> now, stamp |-> unanswered[i].stamp, ms |-> now - unanswered[i].arrived]] = <<a>>
      BY <2>1, <2>3
    <3> QED
      BY <1>2, <1>6, <3>1
  <2>6. PICK n \in Nat : n = Len(answers)
    BY <1>6
  <2>7. /\ answers' \in Seq(Answer) /\ DOMAIN answers = 1..n /\ DOMAIN answers' = 1..n + 1
        /\ \A k \in 1..n : answers'[k] = answers[k]
        /\ answers'[n + 1] = a
    BY <1>6, <2>4, <2>5, <2>6, AppendFacts
  <2>8. \A k \in 1..n + 1 : k \in 1..n \/ k = n + 1
    OBVIOUS
  <2>9. \A stamp, arrival, by : AnsweredBy(stamp, by, arrival, answers) => AnsweredBy(stamp, by, arrival, answers')
    BY <2>7 DEF AnsweredBy
  <2>10. AnsweredBy(u.stamp, now, u.sent, answers')
    <3>1. n + 1 \in DOMAIN answers' /\ a.t <= now /\ u.sent <= a.t - a.ms
      BY <1>3, <2>2, <2>4, <2>7
    <3> QED
      BY <2>4, <2>7, <3>1 DEF AnsweredBy
  <2>11. \A k \in DOMAIN answers' : answers'[k].t <= now
    BY <1>3, <1>6, <2>4, <2>7, <2>8
  <2>12. \A j, k \in DOMAIN answers' : j < k => /\ answers'[j].t <= answers'[k].t
                                              /\ answers'[j].t - answers'[j].ms <= answers'[k].t - answers'[k].ms
    <3> TAKE j, k \in DOMAIN answers'
    <3> HAVE j < k
    <3>1. j \in 1..n /\ answers'[j] = answers[j]
      BY <2>7, <2>8
    <3>2. CASE k \in 1..n
      BY <2>7, <3>1, <3>2 DEF AnswerInv
    <3>3. CASE k = n + 1
      BY <1>6, <2>2, <2>4, <2>7, <3>1, <3>3
    <3> QED
      BY <2>7, <2>8, <3>2, <3>3
  <2>13. \A i \in DOMAIN air' : \A j \in DOMAIN air'[i].answer :
          AnsweredBy(air'[i].answer[j].stamp, now, air'[i].answer[j].sent, answers')
    <3> TAKE i \in DOMAIN air'
    <3>1. CASE i \in DOMAIN air /\ air'[i] = air[i]
      BY <2>9, <3>1 DEF AnswerInv
    <3>2. CASE air'[i] = f
      <4>1. air'[i].answer = <<u>>
        BY <1>3, <2>1, <3>2
      <4> QED
        BY <2>10, <4>1
    <3> QED
      BY <1>4, <3>1, <3>2
  <2>14. \A i \in DOMAIN pending : AnsweredBy(pending[i].stamp, now, pending[i].sent, answers')
    BY <1>7, <2>9
  <2>15. \A i \in DOMAIN samples :
        /\ samples[i].shownAt <= now /\ samples[i].ms = samples[i].shownAt - samples[i].sentAt
        /\ AnsweredBy(samples[i].stamp, samples[i].shownAt, samples[i].asked, answers')
    BY <1>7, <2>9
  <2> QED
    BY <1>2, <1>7, <2>7, <2>11, <2>12, <2>13, <2>14, <2>15 DEF AnswerInv
<1> QED
  BY <1>5, <1>8, <1>9

\* A frame brings what is on record.
LEMMA AnswersBrought ==
  ASSUME LineInv, AnswerInv, FrameArrives
  PROVE  AnswerInv'
<1>1. /\ air # <<>> /\ air' = Tail(air) /\ pending' = pending \o Brought
      /\ UNCHANGED <<now, answers, unanswered, samples>>
  BY DEF FrameArrives, Brought, hostVars
<1>2. \A f \in DOMAIN air' : f + 1 \in DOMAIN air /\ air'[f] = air[f + 1]
  BY <1>1, AirStep
<1>3. 1 \in DOMAIN air
  BY <1>1, AirStep
<1>4. /\ Brought \in Seq(Credit)
      /\ \A k \in DOMAIN Brought : \E i \in DOMAIN air[1].answer : CreditOf(Brought[k], air[1].answer[i])
  BY <1>1, BroughtAreCredits
<1>5. \A k \in DOMAIN Brought : AnsweredBy(Brought[k].stamp, now, Brought[k].sent, answers)
  <2> TAKE k \in DOMAIN Brought
  <2>1. PICK i \in DOMAIN air[1].answer : CreditOf(Brought[k], air[1].answer[i])
    BY <1>4
  <2>2. AnsweredBy(air[1].answer[i].stamp, now, air[1].answer[i].sent, answers)
    BY <1>3 DEF AnswerInv
  <2> QED
    BY <2>1, <2>2 DEF CreditOf
<1>6. \A i \in DOMAIN pending' : AnsweredBy(pending'[i].stamp, now, pending'[i].sent, answers)
  <2>1. pending \in Seq(Credit)
    BY DEF LineInv, LineType
  <2>2. \A i \in DOMAIN pending' : \/ i \in DOMAIN pending /\ pending'[i] = pending[i]
                                   \/ \E k \in DOMAIN Brought : pending'[i] = Brought[k]
    BY <1>1, <1>4, <2>1, ConcatFacts
  <2> QED
    BY <1>5, <2>2 DEF AnswerInv
<1>7. \A f \in DOMAIN air' : \A i \in DOMAIN air'[f].answer :
        AnsweredBy(air'[f].answer[i].stamp, now, air'[f].answer[i].sent, answers)
  BY <1>2 DEF AnswerInv
<1> QED
  BY <1>1, <1>6, <1>7 DEF AnswerInv

\* A paint times an answer that is on record.
LEMMA AnswersPainted ==
  ASSUME LineInv, AnswerInv, NEW hash \in Hashes, Paint(hash)
  PROVE  AnswerInv'
<1>1. UNCHANGED <<now, answers, unanswered, air>>
  BY DEF Paint, hostVars
<1>2. \/ pending' = Fresh /\ samples' = samples \o <<>>
      \/ Fresh # <<>> /\ pending' = <<>> /\ samples' = samples \o <<Sample(Last(Fresh), now)>>
  BY DEF Paint, AttributePending, Fresh, None
<1>3. /\ Fresh \in Seq(Credit)
      /\ \A k \in DOMAIN Fresh : \E i \in DOMAIN pending : Fresh[k] = pending[i]
  BY FreshArePicked
<1>4. samples \in Seq(Timing) /\ samples \o <<>> = samples
  BY DEF LineInv, LineType
<1>5. CASE pending' = Fresh /\ samples' = samples \o <<>>
  <2>1. \A i \in DOMAIN pending' : AnsweredBy(pending'[i].stamp, now, pending'[i].sent, answers)
    BY <1>3, <1>5 DEF AnswerInv
  <2> QED
    BY <1>1, <1>4, <1>5, <2>1 DEF AnswerInv
<1>6. CASE Fresh # <<>> /\ pending' = <<>> /\ samples' = samples \o <<Sample(Last(Fresh), now)>>
  <2>1. PICK p \in Credit : p = Last(Fresh) /\ \E i \in DOMAIN pending : p = pending[i]
    <3>1. Len(Fresh) \in DOMAIN Fresh /\ Last(Fresh) = Fresh[Len(Fresh)] /\ Fresh[Len(Fresh)] \in Credit
      BY <1>3, <1>6 DEF Last
    <3> QED
      BY <1>3, <3>1
  <2>2. AnsweredBy(p.stamp, now, p.sent, answers)
    BY <2>1 DEF AnswerInv
  <2>3. PICK x : x = Sample(p, now)
    OBVIOUS
  <2>4. /\ x.stamp = p.stamp /\ x.shownAt = now /\ x.asked = p.sent /\ x.ms = x.shownAt - x.sentAt
    BY <2>3 DEF Sample
  <2>5. now <= now
    BY DEF LineInv, LineType
  <2>6. \A k \in DOMAIN samples' : (\E j \in DOMAIN samples : samples'[k] = samples[j]) \/ samples'[k] = x
    <3>1. samples' = samples \o <<x>> /\ <<x>> \in Seq({x})
      BY <1>6, <2>1, <2>3
    <3> TAKE k \in DOMAIN samples'
    <3>2. DOMAIN samples' = 1..Len(samples) + 1
      BY <1>4, <3>1
    <3>3. k \in 1..Len(samples) \/ k = Len(samples) + 1
      BY <1>4, <3>2
    <3> QED
      BY <1>4, <3>1, <3>3
  <2>7. \A k \in DOMAIN samples' :
          /\ samples'[k].shownAt <= now /\ samples'[k].ms = samples'[k].shownAt - samples'[k].sentAt
          /\ AnsweredBy(samples'[k].stamp, samples'[k].shownAt, samples'[k].asked, answers)
    BY <2>2, <2>4, <2>5, <2>6 DEF AnswerInv
  <2> QED
    BY <1>1, <1>6, <2>7 DEF AnswerInv
<1> QED
  BY <1>2, <1>5, <1>6

\* An input waits for its answer.
LEMMA AnswerWaits ==
  ASSUME LineInv, AnswerInv, InputArrives
  PROVE  AnswerInv'
<1>1. PICK s : s = uplink[1]
  OBVIOUS
<1>2. s \in Entry /\ Head(uplink) = s /\ 1 \in DOMAIN uplink
  <2>1. uplink \in Seq(Entry) /\ uplink # <<>>
    BY DEF LineInv, LineType, InputArrives
  <2> QED
    BY <1>1, <2>1, TailFacts
<1>3. PICK u : u = [stamp |-> s.stamp, input |-> s.input, sent |-> s.t, arrived |-> now]
  OBVIOUS
<1>4. unanswered' = <<u>> /\ UNCHANGED <<now, answers, air, pending, samples>>
  BY <1>2, <1>3 DEF InputArrives, pageVars
<1>5. now \in Nat /\ s.t <= now
  <2>1. Logged(s.input, s.stamp, s.t, inputLog)
    BY <1>1, <1>2 DEF LineInv, KnownInv
  <2> QED
    BY <2>1 DEF LineInv, LogInv, LineType, Logged
<1>6. \A k \in DOMAIN answers : answers[k].t - answers[k].ms <= now
  <2> TAKE k \in DOMAIN answers
  <2>1. answers[k].t \in Nat /\ answers[k].ms \in Nat /\ answers[k].t <= now
    BY AnswerElements DEF AnswerInv
  <2> QED
    BY <1>5, <2>1
<1>7. u.sent <= u.arrived /\ u.arrived <= now /\ \A k \in DOMAIN answers : answers[k].t - answers[k].ms <= u.arrived
  BY <1>3, <1>5, <1>6
<1>8. \A i \in DOMAIN unanswered' : unanswered'[i] = u
  BY <1>4
<1> QED
  BY <1>4, <1>7, <1>8 DEF AnswerInv

LEMMA AnswerStep ==
  ASSUME LineInv, AnswerInv, [BenchNext]_benchVars
  PROVE  AnswerInv'
<1>0. now \in Nat /\ now <= now
  BY DEF LineInv, LineType
<1>1. CASE HostSends
  BY <1>1, HostAnswers
<1>2. CASE FrameArrives
  BY <1>2, AnswersBrought
<1>3. CASE \E hash \in Hashes : Paint(hash)
  BY <1>3, AnswersPainted
<1>4. CASE InputArrives
  BY <1>4, AnswerWaits
<1>5. CASE FrameLost
  <2>1. /\ air # <<>> /\ air' = Tail(air) /\ UNCHANGED <<now, answers, unanswered, pending, samples>>
    BY <1>5 DEF FrameLost, hostVars, pageVars
  <2>2. \A f \in DOMAIN air' : \E g \in DOMAIN air : air'[f] = air[g]
    BY <2>1, AirStep
  <2> QED
    BY <1>0, <2>1, <2>2, AnswersStay
<1>6. CASE Tick \/ OpenWindow \/ InputSent \/ Ping \/ HostReadsClock \/ Pong \/ UNCHANGED benchVars
  <2>1. /\ now' \in Nat /\ now <= now' /\ UNCHANGED <<answers, unanswered, air, pending>> /\ samples' \in {samples, <<>>}
    <3>1. now' \in {now, now + 1} /\ UNCHANGED <<answers, unanswered, air, pending>> /\ samples' \in {samples, <<>>}
      BY <1>6 DEF Tick, OpenWindow, InputSent, Ping, HostReadsClock, Pong, benchVars, hostVars, pageVars
    <3> QED
      BY <1>0, <3>1
  <2>2. \A f \in DOMAIN air' : \E g \in DOMAIN air : air'[f] = air[g]
    BY <2>1
  <2> QED
    BY <2>1, <2>2, AnswersStay
<1> QED
  BY <1>1, <1>2, <1>3, <1>4, <1>5, <1>6 DEF BenchNext

LEMMA AnswerStarts == BenchInit => AnswerInv
  BY DEF BenchInit, AnswerInv, None

-----------------------------------------------------------------------------
(* What the page shows and has of the frames is in order.                   *)

ShownInv ==
  /\ \E last : shown = [last |-> last, changes |-> shown.changes]
  /\ shown.changes \in Seq(Nat)
  /\ \A i \in DOMAIN shown.changes : shown.changes[i] <= now
  /\ \A i, j \in DOMAIN shown.changes : i < j => shown.changes[i] <= shown.changes[j]

LEMMA ShownStep ==
  ASSUME LineInv, ShownInv, [BenchNext]_benchVars
  PROVE  ShownInv'
<1>0. now \in Nat
  BY DEF LineInv, LineType
<1>1. CASE UNCHANGED shown
  <2>1. now' \in Nat /\ now <= now'
    <3>1. now' \in {now, now + 1}
      BY DEF BenchNext, Tick, OpenWindow, HostSends, FrameLost, FrameArrives, Paint, InputSent, InputArrives,
             Ping, HostReadsClock, Pong, benchVars
    <3> QED
      BY <1>0, <3>1
  <2>2. \A i \in DOMAIN shown.changes : shown.changes[i] <= now'
    <3> TAKE i \in DOMAIN shown.changes
    <3>1. shown.changes[i] \in Nat /\ shown.changes[i] <= now
      BY DEF ShownInv
    <3> QED
      BY <1>0, <2>1, <3>1
  <2> QED
    BY <1>1, <2>2 DEF ShownInv
<1>2. CASE OpenWindow
  <2>1. PICK last : shown = [last |-> last, changes |-> shown.changes]
    BY DEF ShownInv
  <2>2. shown' = [last |-> last, changes |-> <<>>]
    <3>1. shown' = [shown EXCEPT !.changes = <<>>]
      BY <1>2 DEF OpenWindow
    <3> QED
      BY <2>1, <3>1
  <2>3. shown'.changes = <<>> /\ shown' = [last |-> last, changes |-> shown'.changes]
    BY <2>2
  <2>4. shown'.changes \in Seq(Nat) /\ \A i \in DOMAIN shown'.changes : FALSE
    BY <2>3
  <2> QED
    BY <2>3, <2>4 DEF ShownInv
<1>3. CASE \E hash \in Hashes : Paint(hash)
  <2>1. PICK hash \in Hashes : Paint(hash)
    BY <1>3
  <2>2. now' = now /\ shown' = [last |-> <<hash>>,
                 changes |-> IF PaintChanged(hash) THEN Append(shown.changes, now) ELSE shown.changes]
    BY <2>1 DEF Paint
  <2>3. PICK s : s = shown.changes
    OBVIOUS
  <2>4. /\ s \in Seq(Nat) /\ \A i \in DOMAIN s : s[i] <= now
        /\ \A i, j \in DOMAIN s : i < j => s[i] <= s[j]
    BY <2>3 DEF ShownInv
  <2>5. shown'.changes \in {s, Append(s, now)} /\ shown' = [last |-> <<hash>>, changes |-> shown'.changes]
    BY <2>2, <2>3
  <2>6. LET r == Append(s, now)
        IN  /\ r \in Seq(Nat) /\ \A i \in DOMAIN r : r[i] <= now
            /\ \A i, j \in DOMAIN r : i < j => r[i] <= r[j]
    BY <1>0, <2>4
  <2>7. /\ shown'.changes \in Seq(Nat) /\ \A i \in DOMAIN shown'.changes : shown'.changes[i] <= now
        /\ \A i, j \in DOMAIN shown'.changes : i < j => shown'.changes[i] <= shown'.changes[j]
    BY <2>4, <2>5, <2>6
  <2>8. \E last : shown' = [last |-> last, changes |-> shown'.changes]
    BY <2>5
  <2> QED
    BY <2>2, <2>7, <2>8 DEF ShownInv
<1> QED
  BY <1>1, <1>2, <1>3 DEF BenchNext, Tick, HostSends, FrameLost, FrameArrives, InputSent, InputArrives,
                          Ping, HostReadsClock, Pong, benchVars, pageVars

LEMMA ShownStarts == BenchInit => ShownInv
<1> SUFFICES ASSUME BenchInit PROVE ShownInv
  OBVIOUS
<1>1. shown.changes = <<>> /\ shown = [last |-> <<>>, changes |-> shown.changes]
  BY DEF BenchInit, None
<1>2. shown.changes \in Seq(Nat) /\ \A i \in DOMAIN shown.changes : FALSE
  BY <1>1
<1> QED
  BY <1>1, <1>2 DEF ShownInv

\* Frames come in the order of their numbers.
PlacedInv ==
  /\ \A j \in DOMAIN wireLog : wireLog[j].t <= now
  /\ \A i, j \in DOMAIN wireLog : i < j => wireLog[i].id < wireLog[j].id /\ wireLog[i].t <= wireLog[j].t
  /\ \A i, j \in DOMAIN air : i < j => air[i].id < air[j].id
  /\ \A j \in DOMAIN wireLog, i \in DOMAIN air : wireLog[j].id < air[i].id

LEMMA SentIsNumbered ==
  ASSUME HostInv, NEW id, NEW at, SentBy(id, at, hostWire)
  PROVE  id \in 1..Frames
BY DEF HostInv, NumberedInv, SentBy

\* What is left of the page's log, with the new entry, is its end.
EndOf(rest, log, e, d) ==
  \A k \in DOMAIN rest : \/ k + d \in DOMAIN log /\ rest[k] = log[k + d]
                         \/ k + d = Len(log) + 1 /\ rest[k] = e
LEMMA RecordIsEnd ==
  ASSUME NEW M, NEW log \in Seq(M), NEW e \in M, NEW max \in Nat \ {0}
  PROVE  \E d \in Nat : EndOf(Record(log, e, max), log, e, d)
<1> DEFINE all == Append(log, e)
<1>1. PICK n \in Nat : n = Len(log)
  OBVIOUS
<1>2. /\ all \in Seq(M) /\ Len(all) = n + 1 /\ DOMAIN all = 1..n + 1
      /\ \A k \in 1..n + 1 : \/ k \in DOMAIN log /\ all[k] = log[k]
                             \/ k = n + 1 /\ all[k] = e
  BY <1>1
<1> HIDE DEF all
<1>3. Record(log, e, max) = IF n + 1 > max THEN SubSeq(all, n + 1 - max + 1, n + 1) ELSE all
  BY <1>2 DEF Record, all
<1>4. CASE n + 1 > max
  <2>1. PICK d \in Nat : d = n + 1 - max
    BY <1>1, <1>4
  <2>2. SubSeq(all, d + 1, n + 1) = [k \in 1..(n + 1 - (d + 1) + 1) |-> all[k + (d + 1) - 1]]
    <3>1. PICK p : p = d + 1
      OBVIOUS
    <3>2. PICK q : q = n + 1
      OBVIOUS
    <3>3. p \in Nat /\ q \in Nat /\ 1 <= p /\ p <= q /\ DOMAIN all = 1..q /\ all \in Seq(M)
      BY <1>2, <1>4, <2>1, <3>1, <3>2
    <3>4. SubSeq(all, p, q) = [k \in 1..(q - p + 1) |-> all[k + p - 1]]
      BY <3>3
    <3> QED
      BY <3>1, <3>2, <3>4
  <2>3. \A k \in 1..n + 1 - d : k + (d + 1) - 1 = k + d /\ k + d \in 1..n + 1
    BY <1>1, <2>1
  <2>4. n + 1 - (d + 1) + 1 = n + 1 - d
    BY <2>1
  <2>5. Record(log, e, max) = SubSeq(all, d + 1, n + 1)
    BY <1>3, <1>4, <2>1
  <2>6. /\ DOMAIN Record(log, e, max) = 1..n + 1 - d
        /\ \A k \in 1..n + 1 - d : Record(log, e, max)[k] = all[k + d] /\ k + d \in 1..n + 1
    BY <2>2, <2>3, <2>4, <2>5
  <2> QED
    BY <1>1, <1>2, <2>6 DEF EndOf
<1>5. CASE ~(n + 1 > max)
  <2>1. Record(log, e, max) = all /\ 0 \in Nat /\ n + 1 - 0 = n + 1 /\ \A k \in 1..n + 1 : k + 0 = k
    BY <1>3, <1>5
  <2>2. \A k \in 1..n + 1 : \/ k + 0 \in DOMAIN log /\ all[k] = log[k + 0]
                            \/ k + 0 = Len(log) + 1 /\ all[k] = e
    BY <1>1, <1>2, <2>1
  <2>3. EndOf(all, log, e, 0)
    BY <1>2, <2>2 DEF EndOf
  <2> QED
    BY <2>1, <2>3
<1> QED
  BY <1>4, <1>5

LEMMA PlacedStep ==
  ASSUME LineInv, HostInv, PlacedInv, [BenchNext]_benchVars
  PROVE  PlacedInv'
<1>0. now \in Nat /\ wireLog \in Seq(WireEntry)
  BY DEF LineInv, LineType, HostInv, WireInv
<1>1. \A j \in DOMAIN wireLog : wireLog[j].t \in Nat /\ wireLog[j].id \in Nat
  <2>1. \A j \in DOMAIN wireLog : wireLog[j] \in WireEntry
    BY <1>0
  <2> QED
    BY <2>1 DEF WireEntry
<1>2. \A i \in DOMAIN air : air[i].id \in Nat
  BY ElementTypes DEF LineInv
<1>3. CASE UNCHANGED <<air, wireLog>>
  <2>1. now' \in Nat /\ now <= now'
    <3>1. now' \in {now, now + 1}
      BY DEF BenchNext, Tick, OpenWindow, HostSends, FrameLost, FrameArrives, Paint, InputSent, InputArrives,
             Ping, HostReadsClock, Pong, benchVars
    <3> QED
      BY <1>0, <3>1
  <2>2. \A j \in DOMAIN wireLog : wireLog[j].t <= now'
    <3> TAKE j \in DOMAIN wireLog
    <3>1. wireLog[j].t <= now /\ wireLog[j].t \in Nat
      BY <1>1 DEF PlacedInv
    <3> QED
      BY <1>0, <2>1, <3>1
  <2> QED
    BY <1>3, <2>2 DEF PlacedInv
<1>4. CASE OpenWindow
  BY <1>4 DEF OpenWindow, PlacedInv
<1>5. CASE HostSends
  <2> DEFINE R == [id : Nat, answer : Seq(Mark)]
  <2>1. PICK f : f = [id |-> Frames + 1, answer |-> unanswered]
    OBVIOUS
  <2>2. air' = Append(air, f) /\ UNCHANGED <<now, wireLog>>
    BY <1>5, <2>1 DEF HostSends, pageVars
  <2>3. f \in R /\ f.id = Frames + 1 /\ Frames \in Nat
    BY <2>1, SentAreCounted DEF LineInv, LineType
  <2>4. PICK n \in Nat : n = Len(air)
    BY DEF LineInv, LineType
  <2>5. DOMAIN air = 1..n /\ DOMAIN air' = 1..n + 1 /\ air'[n + 1] = f /\ \A i \in 1..n : air'[i] = air[i]
    <3>1. air \in Seq(R)
      BY DEF LineInv, LineType
    <3> HIDE DEF R
    <3> QED
      BY <2>2, <2>3, <2>4, <3>1, AppendFacts
  <2>6. \A i \in 1..n : air[i].id <= Frames
    <3>1. \A i \in 1..n : SentBy(air[i].id, now, hostWire)
      BY <2>5 DEF HostInv, WireInv
    <3> QED
      BY <2>3, <3>1, SentIsNumbered
  <2>7. \A j \in DOMAIN wireLog : wireLog[j].id <= Frames
    <3>1. \A j \in DOMAIN wireLog : SentBy(wireLog[j].id, wireLog[j].t, hostWire)
      BY DEF HostInv, WireInv
    <3> QED
      BY <2>3, <3>1, SentIsNumbered
  <2>8. \A i \in 1..n + 1 : i \in 1..n \/ i = n + 1
    OBVIOUS
  <2>9. \A i, j \in DOMAIN air' : i < j => air'[i].id < air'[j].id
    <3> TAKE i, j \in DOMAIN air'
    <3> HAVE i < j
    <3>1. i \in 1..n /\ air'[i] = air[i] /\ air[i].id \in Nat
      BY <1>2, <2>5, <2>8
    <3>2. CASE j \in 1..n
      BY <2>5, <3>1, <3>2 DEF PlacedInv
    <3>3. CASE j = n + 1
      BY <2>3, <2>5, <2>6, <3>1, <3>3
    <3> QED
      BY <2>5, <2>8, <3>2, <3>3
  <2>10. \A j \in DOMAIN wireLog, i \in DOMAIN air' : wireLog[j].id < air'[i].id
    <3> TAKE j \in DOMAIN wireLog, i \in DOMAIN air'
    <3>1. CASE i \in 1..n
      BY <2>5, <3>1 DEF PlacedInv
    <3>2. CASE i = n + 1
      BY <1>1, <2>3, <2>5, <2>7, <3>2
    <3> QED
      BY <2>5, <2>8, <3>1, <3>2
  <2> QED
    BY <2>2, <2>9, <2>10 DEF PlacedInv
<1>6. CASE FrameLost \/ FrameArrives
  <2>1. air # <<>> /\ air' = Tail(air) /\ now' = now
    BY <1>6 DEF FrameLost, FrameArrives
  <2>2. /\ \A i \in DOMAIN air' : i + 1 \in DOMAIN air /\ air'[i] = air[i + 1] /\ 1 < i + 1
        /\ \A i, j \in DOMAIN air' : i < j => i + 1 < j + 1
        /\ 1 \in DOMAIN air /\ Head(air) = air[1]
    BY <2>1, AirStep
  <2>3. \A i, j \in DOMAIN air' : i < j => air'[i].id < air'[j].id
    BY <2>2 DEF PlacedInv
  <2>4. CASE wireLog' = wireLog
    BY <2>1, <2>2, <2>3, <2>4 DEF PlacedInv
  <2>5. CASE FrameArrives
    <3>1. PICK e : e = [t |-> now, kind |-> "frame", bytes |-> 1, id |-> air[1].id]
      OBVIOUS
    <3>2. e \in WireEntry /\ e.id = air[1].id /\ e.t = now
      BY <1>0, <1>2, <2>2, <3>1 DEF WireEntry
    <3>3. wireLog' = Record(wireLog, e, LogSize)
      BY <2>2, <2>5, <3>1 DEF FrameArrives
    <3>0. LogSize \in Nat \ {0}
      BY BenchAssumption
    <3>4. PICK d \in Nat : \A k \in DOMAIN wireLog' :
                              \/ k + d \in DOMAIN wireLog /\ wireLog'[k] = wireLog[k + d]
                              \/ k + d = Len(wireLog) + 1 /\ wireLog'[k] = e
      <4>1. \E d \in Nat : EndOf(Record(wireLog, e, LogSize), wireLog, e, d)
        BY <1>0, <3>0, <3>2, RecordIsEnd
      <4> QED
        BY <3>3, <4>1 DEF EndOf
    <3>5. \A k \in DOMAIN wireLog' : k \in Int
      BY <1>0, <3>0, <3>2, <3>3, RecordKeeps
    <3>6. PICK n \in Nat : n = Len(wireLog) /\ DOMAIN wireLog = 1..n
      BY <1>0
    <3>7. \A j \in DOMAIN wireLog : wireLog[j].id < e.id /\ wireLog[j].t <= now
      BY <2>2, <3>2 DEF PlacedInv
    <3>8. \A k \in DOMAIN wireLog' : wireLog'[k].t <= now
      BY <1>0, <3>2, <3>4, <3>7
    <3>9. \A i, j \in DOMAIN wireLog' : i < j => wireLog'[i].id < wireLog'[j].id /\ wireLog'[i].t <= wireLog'[j].t
      <4> TAKE i, j \in DOMAIN wireLog'
      <4> HAVE i < j
      <4>1. i + d < j + d
        BY <3>5
      <4>2. i + d # n + 1
        BY <3>4, <3>5, <3>6, <4>1
      <4>3. i + d \in DOMAIN wireLog /\ wireLog'[i] = wireLog[i + d]
        BY <3>4, <3>6, <4>2
      <4>4. CASE j + d \in DOMAIN wireLog /\ wireLog'[j] = wireLog[j + d]
        BY <4>1, <4>3, <4>4 DEF PlacedInv
      <4>5. CASE wireLog'[j] = e
        BY <3>2, <3>7, <4>3, <4>5
      <4> QED
        BY <3>4, <4>4, <4>5
    <3>10. \A k \in DOMAIN wireLog', i \in DOMAIN air' : wireLog'[k].id < air'[i].id
      <4> TAKE k \in DOMAIN wireLog', i \in DOMAIN air'
      <4>1. i + 1 \in DOMAIN air /\ air'[i] = air[i + 1] /\ 1 < i + 1 /\ 1 \in DOMAIN air
        BY <2>2
      <4>2. CASE wireLog'[k] = e
        BY <3>2, <4>1, <4>2 DEF PlacedInv
      <4>3. CASE k + d \in DOMAIN wireLog /\ wireLog'[k] = wireLog[k + d]
        BY <4>1, <4>3 DEF PlacedInv
      <4> QED
        BY <3>4, <4>2, <4>3
    <3> QED
      BY <2>1, <2>3, <3>8, <3>9, <3>10 DEF PlacedInv
  <2> QED
    BY <1>6, <2>4, <2>5 DEF FrameLost, pageVars
<1> QED
  BY <1>3, <1>4, <1>5, <1>6 DEF BenchNext, Tick, Paint, InputSent, InputArrives, Ping, HostReadsClock, Pong, benchVars, pageVars

LEMMA PlacedStarts == BenchInit => PlacedInv
  BY DEF BenchInit, PlacedInv

-----------------------------------------------------------------------------
(* What became of the inputs of the window.                                 *)

\* The inputs reach the host in their order.
QueueInv ==
  /\ \A g, h \in DOMAIN hostWire :
        g < h /\ hostWire[g].kind = "input" /\ hostWire[h].kind = "input" => hostWire[g].input < hostWire[h].input
  /\ \A h \in DOMAIN hostWire, i \in DOMAIN uplink :
        hostWire[h].kind = "input" => hostWire[h].input < uplink[i].input

ArrivedIn == {h \in DOMAIN hostWire : hostWire[h].kind = "input" /\ hostWire[h].t >= windowFrom}
AnsweredIn == {k \in DOMAIN answers : answers[k].t >= windowFrom}

\* Those that arrived in the window, and the one that may have waited when it was
\* opened, were answered, lost their place to another, or wait.
AccountInv ==
  /\ windowFrom \in Nat /\ windowFrom <= now /\ displaced \in Nat
  /\ \E waited \in {0, 1} :
        Cardinality(ArrivedIn) + waited = Cardinality(AnsweredIn) + displaced + Len(unanswered)

LEMMA QueueStep ==
  ASSUME LineInv, HostInv, QueueInv, [BenchNext]_benchVars
  PROVE  QueueInv'
<1>0. hostWire \in Seq(HostFrame \union HostInput) /\ now \in Nat /\ uplink \in Seq(Entry)
  BY DEF LineInv, LineType
<1>1. PICK n \in Nat : n = Len(hostWire) /\ DOMAIN hostWire = 1..n
  BY <1>0
<1>2. \A k \in 1..n + 1 : k \in 1..n \/ k = n + 1
  OBVIOUS
<1>3. CASE UNCHANGED <<hostWire, uplink>>
  BY <1>3 DEF QueueInv
<1>4. CASE HostSends
  <2>1. PICK e : e = [t |-> now, kind |-> "frame", bytes |-> 1, id |-> Frames + 1]
    OBVIOUS
  <2>2. hostWire' = Append(hostWire, e) /\ uplink' = uplink
    BY <1>4, <2>1 DEF HostSends
  <2>3. e \in HostFrame \union HostInput /\ e.kind # "input"
    BY <1>0, <2>1, SentAreCounted DEF HostFrame
  <2>4. DOMAIN hostWire' = 1..n + 1 /\ hostWire'[n + 1] = e /\ \A h \in 1..n : hostWire'[h] = hostWire[h]
    BY <1>0, <1>1, <2>2, <2>3, AppendFacts
  <2>5. \A h \in DOMAIN hostWire' : hostWire'[h].kind = "input" => h \in DOMAIN hostWire /\ hostWire'[h] = hostWire[h]
    BY <1>1, <1>2, <2>3, <2>4
  <2> QED
    BY <2>2, <2>5 DEF QueueInv
<1>5. CASE InputSent
  <2>1. PICK m \in Nat : m = Len(inputLog) /\ DOMAIN inputLog = 1..m
    BY DEF LineInv, LineType
  <2>2. PICK e : e = [stamp |-> (m % Stamps) + 1, t |-> now, input |-> m + 1]
    OBVIOUS
  <2>3. inputLog' = Append(inputLog, e) /\ uplink' = Append(uplink, Last(inputLog')) /\ hostWire' = hostWire
    BY <1>5, <2>1, <2>2 DEF InputSent, LogInput, Issued, hostVars
  <2>4. e \in Entry /\ e.input = m + 1
    <3>1. (m % Stamps) + 1 \in Nat
      BY <2>1, BenchAssumption
    <3> QED
      BY <1>0, <2>1, <2>2, <3>1 DEF Entry
  <2>5. Last(inputLog') = e
    <3>1. inputLog \in Seq(Entry)
      BY DEF LineInv, LineType
    <3>2. Len(inputLog') = m + 1 /\ inputLog'[m + 1] = e
      BY <2>1, <2>3, <2>4, <3>1, AppendFacts
    <3> QED
      BY <3>2 DEF Last
  <2>6. \A i \in DOMAIN uplink' : (i \in DOMAIN uplink /\ uplink'[i] = uplink[i]) \/ uplink'[i] = e
    BY <1>0, <2>3, <2>4, <2>5, AppendFacts
  <2>7. \A h \in DOMAIN hostWire : hostWire[h].kind = "input" => hostWire[h].input <= m /\ hostWire[h].input \in Nat
    <3> TAKE h \in DOMAIN hostWire
    <3> HAVE hostWire[h].kind = "input"
    <3>1. hostWire[h].input \in DOMAIN inputLog
      BY DEF HostInv, ArrivedInv, Logged
    <3> QED
      BY <2>1, <3>1
  <2>8. \A h \in DOMAIN hostWire : hostWire[h].kind = "input" => hostWire[h].input < e.input
    BY <2>1, <2>4, <2>7
  <2> QED
    BY <2>3, <2>6, <2>8 DEF QueueInv
<1>6. CASE InputArrives
  <2>1. PICK s : s = uplink[1]
    OBVIOUS
  <2>2. /\ s \in Entry /\ Head(uplink) = s /\ 1 \in DOMAIN uplink
        /\ \A i \in DOMAIN Tail(uplink) : i + 1 \in DOMAIN uplink /\ Tail(uplink)[i] = uplink[i + 1] /\ 1 < i + 1
    <3>1. uplink # <<>>
      BY <1>6 DEF InputArrives
    <3>2. \A i \in DOMAIN Tail(uplink) : 1 < i + 1
      BY <1>0, <3>1
    <3> QED
      BY <1>0, <2>1, <3>1, <3>2, TailFacts
  <2>3. PICK e : e = [t |-> now, kind |-> "input", bytes |-> 1, id |-> s.stamp, input |-> s.input, sent |-> s.t]
    OBVIOUS
  <2>4. hostWire' = Append(hostWire, e) /\ uplink' = Tail(uplink)
    BY <1>6, <2>2, <2>3 DEF InputArrives
  <2>5. e \in HostFrame \union HostInput /\ e.input = s.input
    BY <1>0, <2>2, <2>3 DEF HostInput, Entry
  <2>6. DOMAIN hostWire' = 1..n + 1 /\ hostWire'[n + 1] = e /\ \A h \in 1..n : hostWire'[h] = hostWire[h]
    BY <1>0, <1>1, <2>4, <2>5, AppendFacts
  <2>7. \A h \in 1..n : hostWire[h].kind = "input" => hostWire[h].input < s.input
    BY <1>1, <2>1, <2>2 DEF QueueInv
  <2>8. \A g, h \in DOMAIN hostWire' :
          g < h /\ hostWire'[g].kind = "input" /\ hostWire'[h].kind = "input" => hostWire'[g].input < hostWire'[h].input
    <3> TAKE g, h \in DOMAIN hostWire'
    <3> HAVE g < h /\ hostWire'[g].kind = "input" /\ hostWire'[h].kind = "input"
    <3>1. g \in 1..n /\ hostWire'[g] = hostWire[g]
      BY <1>2, <2>6
    <3>2. CASE h \in 1..n
      BY <1>1, <2>6, <3>1, <3>2 DEF QueueInv
    <3>3. CASE h = n + 1
      BY <2>5, <2>6, <2>7, <3>1, <3>3
    <3> QED
      BY <1>2, <2>6, <3>2, <3>3
  <2>9. \A h \in DOMAIN hostWire', i \in DOMAIN uplink' : hostWire'[h].kind = "input" => hostWire'[h].input < uplink'[i].input
    <3> TAKE h \in DOMAIN hostWire', i \in DOMAIN uplink'
    <3> HAVE hostWire'[h].kind = "input"
    <3>1. i + 1 \in DOMAIN uplink /\ uplink'[i] = uplink[i + 1] /\ 1 < i + 1
      BY <2>2, <2>4
    <3>2. CASE h \in 1..n
      BY <1>1, <2>6, <3>1, <3>2 DEF QueueInv
    <3>3. CASE h = n + 1
      <4>1. uplink[1].input < uplink[i + 1].input
        BY <2>2, <3>1 DEF LineInv, OrderInv, Rising
      <4> QED
        BY <2>1, <2>5, <2>6, <3>1, <3>3, <4>1
    <3> QED
      BY <1>2, <2>6, <3>2, <3>3
  <2> QED
    BY <2>8, <2>9 DEF QueueInv
<1> QED
  BY <1>3, <1>4, <1>5, <1>6 DEF BenchNext, Tick, OpenWindow, FrameLost, FrameArrives, Paint, Ping, HostReadsClock, Pong,
                                benchVars, hostVars, pageVars

LEMMA QueueStarts == BenchInit => QueueInv
  BY DEF BenchInit, QueueInv

\* One more place.
LEMMA OneMore ==
  ASSUME NEW n \in Nat, NEW S \in SUBSET (1..n)
  PROVE  Cardinality(S \union {n + 1}) = Cardinality(S) + 1 /\ Cardinality(S) \in Nat
<1>1. IsFiniteSet(S) /\ Cardinality(S) \in Nat
  BY PlacesAreFinite
<1>2. n + 1 \notin S
  OBVIOUS
<1> QED
  BY <1>1, <1>2, FS_AddElement

LEMMA AccountStep ==
  ASSUME LineInv, HostInv, AnswerInv, AccountInv, [BenchNext]_benchVars
  PROVE  AccountInv'
<1>0. /\ hostWire \in Seq(HostFrame \union HostInput) /\ answers \in Seq(Answer)
      /\ now \in Nat /\ windowFrom \in Nat /\ windowFrom <= now /\ displaced \in Nat
      /\ unanswered \in Seq(Mark) /\ Len(unanswered) \in {0, 1}
      /\ unanswered = <<>> \/ (unanswered = <<unanswered[1]>> /\ unanswered[1] \in Mark)
  <2>1. unanswered \in Seq(Mark) /\ Len(unanswered) <= 1
    BY DEF LineInv, LineType
  <2>2. unanswered = <<>> \/ (unanswered = <<unanswered[1]>> /\ unanswered[1] \in Mark)
    BY <2>1, ShortComes
  <2>3. Len(unanswered) \in {0, 1}
    <3>1. CASE unanswered = <<>>
      BY <3>1
    <3>2. CASE unanswered = <<unanswered[1]>>
      <4>1. PICK u : u = unanswered[1]
        OBVIOUS
      <4>2. Len(<<u>>) = 1 /\ unanswered = <<u>>
        BY <3>2, <4>1
      <4> QED
        BY <4>2
    <3> QED
      BY <2>2, <3>1, <3>2
  <2> QED
    BY <2>1, <2>2, <2>3 DEF LineInv, LineType, AnswerInv, AccountInv
<1>1. PICK n \in Nat, m \in Nat : DOMAIN hostWire = 1..n /\ DOMAIN answers = 1..m /\ n = Len(hostWire) /\ m = Len(answers)
  BY <1>0
<1>2. ArrivedIn \in SUBSET (1..n) /\ AnsweredIn \in SUBSET (1..m)
  BY <1>1 DEF ArrivedIn, AnsweredIn
<1>3. PICK waited \in {0, 1} : Cardinality(ArrivedIn) + waited = Cardinality(AnsweredIn) + displaced + Len(unanswered)
  BY DEF AccountInv
<1>4. PICK R \in Nat, A \in Nat, U \in {0, 1} : R = Cardinality(ArrivedIn) /\ A = Cardinality(AnsweredIn) /\ U = Len(unanswered)
  <2>1. Cardinality(ArrivedIn) \in Nat /\ Cardinality(AnsweredIn) \in Nat
    BY <1>2, OneMore
  <2>2. Len(unanswered) \in {0, 1}
    BY <1>0
  <2> QED
    BY <2>1, <2>2
<1>5. R + waited = A + displaced + U
  BY <1>3, <1>4
<1>6. CASE UNCHANGED <<windowFrom, hostWire, answers, displaced, unanswered>>
  <2>1. now' \in Nat /\ now <= now'
    <3>1. now' \in {now, now + 1}
      BY DEF BenchNext, Tick, OpenWindow, HostSends, FrameLost, FrameArrives, Paint, InputSent, InputArrives,
             Ping, HostReadsClock, Pong, benchVars
    <3> QED
      BY <1>0, <3>1
  <2>2. windowFrom <= now'
    BY <1>0, <2>1
  <2>3. ArrivedIn' = ArrivedIn /\ AnsweredIn' = AnsweredIn
    BY <1>6 DEF ArrivedIn, AnsweredIn
  <2> QED
    BY <1>0, <1>3, <1>6, <2>2, <2>3 DEF AccountInv
<1>7. CASE OpenWindow
  <2>1. now' = now + 1 /\ windowFrom' = now + 1 /\ displaced' = 0 /\ UNCHANGED <<hostWire, answers, unanswered>>
    BY <1>7 DEF OpenWindow
  <2>2. \A h \in DOMAIN hostWire : ~(hostWire[h].t >= windowFrom')
    <3> TAKE h \in DOMAIN hostWire
    <3>1. hostWire[h].t \in Nat /\ hostWire[h].t <= now
      BY HostElements DEF LineInv, HostInv, ArrivedInv
    <3> QED
      BY <1>0, <2>1, <3>1
  <2>3. \A k \in DOMAIN answers : ~(answers[k].t >= windowFrom')
    <3> TAKE k \in DOMAIN answers
    <3>1. answers[k].t \in Nat /\ answers[k].t <= now
      BY AnswerElements DEF AnswerInv
    <3> QED
      BY <1>0, <2>1, <3>1
  <2>4. ArrivedIn' = {} /\ AnsweredIn' = {}
    BY <2>1, <2>2, <2>3 DEF ArrivedIn, AnsweredIn
  <2>5. Cardinality({}) = 0
    BY FS_EmptySet
  <2>6. windowFrom' \in Nat /\ windowFrom' <= now' /\ displaced' \in Nat
    BY <1>0, <2>1
  <2>7. Cardinality(ArrivedIn') + U = Cardinality(AnsweredIn') + displaced' + Len(unanswered')
    BY <1>4, <2>1, <2>4, <2>5
  <2> QED
    BY <2>6, <2>7 DEF AccountInv
<1>8. CASE HostSends
  <2>1. PICK e : e = [t |-> now, kind |-> "frame", bytes |-> 1, id |-> Frames + 1]
    OBVIOUS
  <2>2. /\ hostWire' = Append(hostWire, e) /\ unanswered' = <<>> /\ UNCHANGED <<now, windowFrom, displaced>>
        /\ answers' = answers \o [i \in DOMAIN unanswered |->
                          [t |-> now, stamp |-> unanswered[i].stamp, ms |-> now - unanswered[i].arrived]]
    BY <1>8, <2>1 DEF HostSends, None, Column
  <2>3. e \in HostFrame \union HostInput /\ e.kind # "input"
    BY <1>0, <2>1, SentAreCounted DEF HostFrame
  <2>4. DOMAIN hostWire' = 1..n + 1 /\ hostWire'[n + 1] = e /\ \A h \in 1..n : hostWire'[h] = hostWire[h]
    BY <1>0, <1>1, <2>2, <2>3, AppendFacts
  <2>5. \A h \in 1..n + 1 : h \in 1..n \/ h = n + 1
    OBVIOUS
  <2>6. ArrivedIn' = ArrivedIn
    BY <1>1, <2>2, <2>3, <2>4, <2>5 DEF ArrivedIn
  <2>7. Len(unanswered') = 0
    BY <2>2
  <2>8. CASE U = 0
    <3>1. unanswered = <<>>
      <4>1. Len(unanswered) = 0
        BY <1>4, <2>8
      <4> QED
        BY <1>0, <4>1
    <3>2. answers' = answers
      <4>1. [i \in DOMAIN unanswered |->
                 [t |-> now, stamp |-> unanswered[i].stamp, ms |-> now - unanswered[i].arrived]] = <<>>
        BY <3>1
      <4> QED
        BY <1>0, <2>2, <4>1
    <3>3. AnsweredIn' = AnsweredIn
      BY <2>2, <3>2 DEF AnsweredIn
    <3> QED
      BY <1>0, <1>3, <1>4, <2>2, <2>6, <2>7, <2>8, <3>3 DEF AccountInv
  <2>9. CASE U = 1
    <3>1. PICK u \in Mark : unanswered = <<u>>
      <4>1. Len(unanswered) = 1
        BY <1>4, <2>9
      <4>2. unanswered # <<>>
        BY <4>1
      <4> QED
        BY <1>0, <4>2
    <3>2. PICK a : a = [t |-> now, stamp |-> u.stamp, ms |-> now - u.arrived]
      OBVIOUS
    <3>3. answers' = Append(answers, a)
      <4>1. [i \in DOMAIN unanswered |->
                 [t |-> now, stamp |-> unanswered[i].stamp, ms |-> now - unanswered[i].arrived]] = <<a>>
        BY <3>1, <3>2
      <4> QED
        BY <1>0, <2>2, <4>1
    <3>4. DOMAIN answers' = 1..m + 1 /\ answers'[m + 1] = a /\ \A k \in 1..m : answers'[k] = answers[k]
      BY <1>0, <1>1, <3>3
    <3>5. a.t >= windowFrom
      BY <1>0, <3>2
    <3>6. \A k \in 1..m + 1 : k \in 1..m \/ k = m + 1
      OBVIOUS
    <3>7. m + 1 \in 1..m + 1 /\ 1..m \subseteq 1..m + 1
      OBVIOUS
    <3>8. AnsweredIn' = AnsweredIn \union {m + 1}
      BY <1>1, <2>2, <3>4, <3>5, <3>6, <3>7 DEF AnsweredIn
    <3>9. Cardinality(AnsweredIn') = A + 1
      BY <1>2, <1>4, <3>8, OneMore
    <3>10. Cardinality(ArrivedIn') + waited = Cardinality(AnsweredIn') + displaced' + Len(unanswered')
      <4>1. R + waited = (A + 1) + displaced + 0
        BY <1>0, <1>5, <2>9
      <4> QED
        BY <1>4, <2>2, <2>6, <2>7, <3>9, <4>1
    <3> QED
      BY <1>0, <2>2, <3>10 DEF AccountInv
  <2> QED
    BY <2>8, <2>9
<1>9. CASE InputArrives
  <2>1. PICK s : s = Head(uplink)
    OBVIOUS
  <2>2. PICK e : e = [t |-> now, kind |-> "input", bytes |-> 1, id |-> s.stamp, input |-> s.input, sent |-> s.t]
    OBVIOUS
  <2>3. /\ hostWire' = Append(hostWire, e) /\ displaced' = displaced + Len(unanswered)
        /\ unanswered' = <<[stamp |-> s.stamp, input |-> s.input, sent |-> s.t, arrived |-> now]>>
        /\ UNCHANGED <<now, windowFrom, answers>>
    BY <1>9, <2>1, <2>2 DEF InputArrives
  <2>4. DOMAIN hostWire' = 1..n + 1 /\ hostWire'[n + 1] = e /\ \A h \in 1..n : hostWire'[h] = hostWire[h]
    BY <1>0, <1>1, <2>3
  <2>5. e.kind = "input" /\ e.t >= windowFrom
    BY <1>0, <2>2
  <2>6. \A h \in 1..n + 1 : h \in 1..n \/ h = n + 1
    OBVIOUS
  <2>7. n + 1 \in 1..n + 1 /\ 1..n \subseteq 1..n + 1
    OBVIOUS
  <2>8. ArrivedIn' = ArrivedIn \union {n + 1}
    BY <1>1, <2>3, <2>4, <2>5, <2>6, <2>7 DEF ArrivedIn
  <2>9. Cardinality(ArrivedIn') = R + 1
    BY <1>2, <1>4, <2>8, OneMore
  <2>10. AnsweredIn' = AnsweredIn /\ Len(unanswered') = 1
    BY <2>3 DEF AnsweredIn
  <2>11. displaced' = displaced + U /\ displaced' \in Nat
    BY <1>0, <1>4, <2>3
  <2>12. Cardinality(ArrivedIn') + waited = Cardinality(AnsweredIn') + displaced' + Len(unanswered')
    <3>1. (R + 1) + waited = A + (displaced + U) + 1
      BY <1>0, <1>5
    <3> QED
      BY <1>4, <2>9, <2>10, <2>11, <3>1
  <2> QED
    BY <1>0, <2>3, <2>11, <2>12 DEF AccountInv
<1> QED
  BY <1>6, <1>7, <1>8, <1>9 DEF BenchNext, Tick, FrameLost, FrameArrives, Paint, InputSent, Ping, HostReadsClock, Pong,
                                benchVars, hostVars, pageVars

LEMMA AccountStarts == BenchInit => AccountInv
<1> SUFFICES ASSUME BenchInit PROVE AccountInv
  OBVIOUS
<1>1. ArrivedIn = {} /\ AnsweredIn = {} /\ Len(unanswered) = 0 /\ displaced = 0 /\ windowFrom = 0 /\ now = 0
  BY DEF BenchInit, ArrivedIn, AnsweredIn, None
<1>2. Cardinality({}) = 0
  BY FS_EmptySet
<1>3. Cardinality(ArrivedIn) + 0 = Cardinality(AnsweredIn) + displaced + Len(unanswered)
  BY <1>1, <1>2
<1> QED
  BY <1>1, <1>3 DEF AccountInv

-----------------------------------------------------------------------------
\* All of it.
ReportInv == AnswerInv /\ ShownInv /\ PlacedInv /\ QueueInv /\ AccountInv

LEMMA ReportAlways == BenchSpec => [](BenchInv /\ ReportInv)
<1>1. BenchInit => BenchInv /\ ReportInv
  BY LineStarts, HostStarts, CameStarts, ClockStarts, AnswerStarts, ShownStarts, PlacedStarts, QueueStarts, AccountStarts
     DEF BenchInv, ReportInv
<1>2. BenchInv /\ ReportInv /\ [BenchNext]_benchVars => (BenchInv /\ ReportInv)'
  BY LineStep, HostStep, CameStep, ClockStep, AnswerStep, ShownStep, PlacedStep, QueueStep, AccountStep
     DEF BenchInv, ReportInv
<1> QED
  BY <1>1, <1>2, PTL DEF BenchSpec

-----------------------------------------------------------------------------
(* Gaps and freezes.                                                        *)

LEMMA TheGreater ==
  ASSUME NEW a \in Int, NEW b \in Int
  PROVE  Max({a, b}) \in {a, b} /\ a <= Max({a, b}) /\ b <= Max({a, b})
<1>1. PICK hi \in Int : a <= hi /\ b <= hi
  <2>1. CASE a <= b
    BY <2>1
  <2>2. CASE ~(a <= b)
    BY <2>2
  <2> QED
    BY <2>1, <2>2
<1>2. {a, b} \in SUBSET Int /\ {a, b} # {} /\ \A v \in {a, b} : v <= hi
  BY <1>1
<1>3. Max({a, b}) \in {a, b} /\ \A v \in {a, b} : v <= Max({a, b})
  BY <1>2, GreatestOf
<1> QED
  BY <1>3

LEMMA TheLess ==
  ASSUME NEW a \in Int, NEW b \in Int
  PROVE  Min({a, b}) \in {a, b} /\ Min({a, b}) <= a /\ Min({a, b}) <= b
<1>1. PICK lo \in Int : lo <= a /\ lo <= b
  <2>1. CASE a <= b
    BY <2>1
  <2>2. CASE ~(a <= b)
    BY <2>2
  <2> QED
    BY <2>1, <2>2
<1>2. {a, b} \in SUBSET Int /\ {a, b} # {} /\ \A v \in {a, b} : lo <= v
  BY <1>1
<1>3. Min({a, b}) \in {a, b} /\ \A v \in {a, b} : Min({a, b}) <= v
  BY <1>2, LeastOf
<1> QED
  BY <1>3

Gap == [atMs : Int, ms : Int]

LEMMA GapsAre ==
  ASSUME NEW times \in Seq(Int)
  PROVE  /\ Gaps(times) \in Seq(Gap)
         /\ Len(times) <= 1 => Gaps(times) = <<>>
         /\ Len(times) >= 1 => Len(Gaps(times)) = Len(times) - 1
         /\ \A i \in DOMAIN Gaps(times) : /\ i \in DOMAIN times /\ i + 1 \in DOMAIN times
                                          /\ Gaps(times)[i].atMs = times[i]
                                          /\ Gaps(times)[i].ms = times[i + 1] - times[i]
<1>1. PICK n \in Nat : n = Len(times) /\ DOMAIN times = 1..n
  OBVIOUS
<1>2. PICK m : m = Max({0, n - 1})
  OBVIOUS
<1>3. m \in {0, n - 1} /\ 0 <= m /\ n - 1 <= m
  <2>1. PICK k \in Int : k = n - 1
    BY <1>1
  <2>2. PICK o \in Int : o = 0
    OBVIOUS
  <2>3. Max({o, k}) \in {o, k} /\ o <= Max({o, k}) /\ k <= Max({o, k})
    BY TheGreater
  <2> QED
    BY <1>2, <2>1, <2>2, <2>3
<1>4. m \in Nat /\ (n >= 1 => m = n - 1) /\ (n <= 1 => m = 0)
  BY <1>3
<1>5. Gaps(times) = [i \in 1..m |-> [atMs |-> times[i], ms |-> times[i + 1] - times[i]]]
  BY <1>1, <1>2 DEF Gaps
<1>6. \A i \in 1..m : i \in 1..n /\ i + 1 \in 1..n
  BY <1>4
<1>7. \A i \in 1..m : times[i] \in Int /\ times[i + 1] \in Int
  BY <1>1, <1>6
<1>8. \A i \in 1..m : [atMs |-> times[i], ms |-> times[i + 1] - times[i]] \in Gap
  BY <1>7 DEF Gap
<1>9. Gaps(times) \in [1..m -> Gap]
  BY <1>5, <1>8
<1>10. Gaps(times) \in Seq(Gap) /\ Len(Gaps(times)) = m /\ DOMAIN Gaps(times) = 1..m
  BY <1>4, <1>9
<1>11. \A i \in 1..m : Gaps(times)[i].atMs = times[i] /\ Gaps(times)[i].ms = times[i + 1] - times[i]
  BY <1>5
<1>12. n <= 1 => Gaps(times) = <<>>
  BY <1>4, <1>10
<1> QED
  BY <1>1, <1>4, <1>6, <1>10, <1>11, <1>12

LEMMA FreezesAre ==
  ASSUME ShownInv
  PROVE  Freezes \in Seq(Gap)
<1> DEFINE all == Gaps(shown.changes)
           I == {i \in DOMAIN all : all[i].ms > LongGap}
<1>1. all \in Seq(Gap)
  <2>1. shown.changes \in Seq(Int)
    BY DEF ShownInv
  <2> QED
    BY <2>1, GapsAre
<1>2. Freezes = KeptAt(all, I)
  <2>1. Freezes = FlattenSeq([i \in DOMAIN all |-> IF all[i].ms > LongGap THEN <<all[i]>> ELSE <<>>])
    BY DEF Freezes, FreezeReport, Kept
  <2>2. [i \in DOMAIN all |-> IF i \in I THEN <<all[i]>> ELSE <<>>]
          = [i \in DOMAIN all |-> IF all[i].ms > LongGap THEN <<all[i]>> ELSE <<>>]
    OBVIOUS
  <2> QED
    BY <2>1, <2>2 DEF KeptAt
<1>3. I \in SUBSET DOMAIN all
  OBVIOUS
<1> HIDE DEF I, all
<1> QED
  BY <1>1, <1>2, <1>3, KeptAre

-----------------------------------------------------------------------------
(* What the report on spikes is made of.                                    *)

\* What a verdict on an event rests on.
CauseOf(from, to, log) ==
  GapCause(FramesInWindow(log.hostWire, log.wire, from, to, FrameKinds).host,
           FramesInWindow(log.hostWire, log.wire, from, to, FrameKinds).client, Max({1, to - from}), log.hostRate)

LEMMA ContextOpened ==
  ASSUME NEW kind, NEW ms, NEW from, NEW to, NEW stamp, NEW log
  PROVE  LET e == SpikeContext(kind, ms, from, to, stamp, log)
         IN  /\ e.ms = ms /\ e.fromMs = from /\ e.toMs = to
             /\ e.cause = "path" => CauseOf(from, to, log) = "path"
             /\ e.hostMs = IF kind = "freeze" THEN None ELSE HostShareFor(log.answers, stamp, to)
<1> DEFINE e == SpikeContext(kind, ms, from, to, stamp, log)
           c == CauseOf(from, to, log)
<1>1. e.ms = ms /\ e.fromMs = from /\ e.toMs = to
  BY DEF SpikeContext
<1>2. e.cause = IF kind = "freeze" \/ c = "path" THEN c ELSE "none"
  BY DEF SpikeContext, CauseOf
<1>3. e.hostMs = IF kind = "freeze" THEN None ELSE HostShareFor(log.answers, stamp, to)
  BY DEF SpikeContext
<1> HIDE DEF e, c
<1>4. e.cause = "path" => c = "path"
  BY <1>2
<1> QED
  BY <1>1, <1>3, <1>4 DEF e, c

\* The first of a sequence.
LEMMA TheFirst ==
  ASSUME NEW M, NEW s \in Seq(M), NEW m \in Int, m <= Len(s)
  PROVE  \E w \in Nat : /\ DOMAIN SubSeq(s, 1, m) = 1..w
                        /\ \A k \in 1..w : \E i \in DOMAIN s : SubSeq(s, 1, m)[k] = s[i]
<1>1. \A i \in 1..m : i \in DOMAIN s /\ s[i] \in M
  OBVIOUS
<1>2. /\ SubSeq(s, 1, m) \in Seq(M) /\ Len(SubSeq(s, 1, m)) = IF 1 <= m THEN m - 1 + 1 ELSE 0
      /\ \A i \in 1..m - 1 + 1 : SubSeq(s, 1, m)[i] = s[1 + i - 1]
  BY <1>1, SubSeqProperties
<1>3. PICK w \in Nat : w = IF 1 <= m THEN m ELSE 0
  OBVIOUS
<1>4. DOMAIN SubSeq(s, 1, m) = 1..w
  BY <1>2, <1>3
<1>5. \A i \in 1..w : i \in DOMAIN s /\ i \in 1..m - 1 + 1 /\ 1 + i - 1 = i
  BY <1>1, <1>3
<1> QED
  BY <1>2, <1>4, <1>5

\* A sequence behind another.
LEMMA BehindCounts ==
  ASSUME NEW M, NEW a \in Seq(M), NEW b \in Seq(M), NEW T
  PROVE  Among(a \o b, DOMAIN (a \o b), T) = Among(a, DOMAIN a, T) + Among(b, DOMAIN b, T)
<1> DEFINE m == Len(a)
           n == Len(b)
           A == {i \in 1..m : a[i] \in T}
           B == {j \in 1..n : b[j] \in T}
           C == {k \in 1..(m + n) : k > m /\ b[k - m] \in T}
           f == [j \in B |-> m + j]
<1>1. /\ m \in Nat /\ n \in Nat /\ DOMAIN a = 1..m /\ DOMAIN b = 1..n
      /\ DOMAIN (a \o b) = 1..(m + n)
      /\ \A k \in 1..(m + n) : (a \o b)[k] = IF k <= m THEN a[k] ELSE b[k - m]
  OBVIOUS
<1> HIDE DEF m, n
<1>2. {k \in DOMAIN (a \o b) : (a \o b)[k] \in T} = A \union C
  <2>1. ASSUME NEW k \in 1..(m + n) PROVE (a \o b)[k] \in T <=> k \in A \union C
    <3>1. CASE k <= m
      <4>1. k \in 1..m /\ (a \o b)[k] = a[k] /\ k \notin C
        BY <1>1, <2>1, <3>1
      <4> QED
        BY <4>1
    <3>2. CASE ~(k <= m)
      <4>1. k \notin 1..m /\ (a \o b)[k] = b[k - m] /\ k > m
        BY <1>1, <2>1, <3>2
      <4> QED
        BY <4>1, <2>1
    <3> QED
      BY <3>1, <3>2
  <2>2. \A k \in A \union C : k \in 1..(m + n)
    BY <1>1
  <2> HIDE DEF A, C
  <2> QED
    BY <1>1, <2>1, <2>2
<1>3. IsFiniteSet(A) /\ IsFiniteSet(B) /\ Cardinality(A) \in Nat /\ Cardinality(B) \in Nat
  <2>1. A \in SUBSET (1..m) /\ B \in SUBSET (1..n)
    OBVIOUS
  <2> HIDE DEF A, B
  <2> QED
    BY <1>1, <2>1, PlacesAreFinite
<1>4. IsFiniteSet(C) /\ Cardinality(C) = Cardinality(B)
  <2>1. f \in [B -> C]
    <3> SUFFICES ASSUME NEW j \in B PROVE m + j \in C
      OBVIOUS
    <3>1. j \in 1..n /\ (m + j) - m = j /\ m + j \in 1..(m + n) /\ m + j > m
      BY <1>1
    <3> QED
      BY <3>1
  <2>2. \A x, y \in B : f[x] = f[y] => x = y
    BY <1>1
  <2>3. \A k \in C : \E j \in B : f[j] = k
    <3> TAKE k \in C
    <3>1. k - m \in 1..n /\ m + (k - m) = k /\ b[k - m] \in T
      BY <1>1
    <3>2. k - m \in B /\ f[k - m] = k
      BY <3>1
    <3> QED
      BY <3>2
  <2> HIDE DEF B, C, f
  <2> QED
    BY <1>3, <2>1, <2>2, <2>3, AsMany
<1>5. A \cap C = {}
  BY <1>1
<1>6. Cardinality(A \union C) = Cardinality(A) + Cardinality(C)
  <2> HIDE DEF A, C
  <2>1. Cardinality(A \union C) = Cardinality(A) + Cardinality(C) - Cardinality(A \cap C) /\ Cardinality(A \cap C) = 0
    BY <1>3, <1>4, <1>5, FS_Union, FS_EmptySet
  <2> QED
    BY <1>3, <1>4, <2>1
<1> QED
  BY <1>1, <1>2, <1>4, <1>6 DEF Among

LatencyEvent(s) == SpikeContext("latency", s.ms, s.sentAt, s.shownAt, s.stamp, Log)
FreezeEvent(g) == SpikeContext("freeze", g.ms, g.atMs, g.atMs + g.ms, 0, Log)
ByPath(s) == Cardinality({i \in DOMAIN s : s[i].cause = "path"})

LEMMA EventLengths ==
  /\ \A s : LatencyEvent(s).ms = s.ms
  /\ \A g : FreezeEvent(g).ms = g.ms
BY DEF LatencyEvent, FreezeEvent, SpikeContext

\* Sorting them keeps them all, and as many by the path.
LEMMA EventsSorted ==
  ASSUME NEW M, NEW all \in Seq(M), NEW keys \in [DOMAIN all -> Int]
  PROVE  /\ \A k \in DOMAIN SortedAt(all, keys) : \E i \in DOMAIN all : SortedAt(all, keys)[k] = all[i]
         /\ ByPath(SortedAt(all, keys)) = ByPath(all)
<1> DEFINE T == {e \in M : e.cause = "path"}
<1>1. /\ SortedAt(all, keys) \in Seq(M)
      /\ \A k \in DOMAIN SortedAt(all, keys) : \E i \in DOMAIN all : SortedAt(all, keys)[k] = all[i]
      /\ Among(SortedAt(all, keys), DOMAIN SortedAt(all, keys), T) = Among(all, DOMAIN all, T)
  <2>1. /\ SortedAt(all, keys) \in Seq(M) /\ Len(SortedAt(all, keys)) = Len(all)
        /\ \A k \in DOMAIN SortedAt(all, keys) : \E i \in DOMAIN all : SortedAt(all, keys)[k] = all[i]
        /\ \A X : Among(SortedAt(all, keys), DOMAIN SortedAt(all, keys), X) = Among(all, DOMAIN all, X)
    BY SortedAre
  <2> HIDE DEF T
  <2> QED
    BY <2>1
<1>2. \A s \in Seq(M) : ByPath(s) = Among(s, DOMAIN s, T)
  <2> TAKE s \in Seq(M)
  <2>1. \A i \in DOMAIN s : s[i] \in T <=> s[i].cause = "path"
    OBVIOUS
  <2>2. {i \in DOMAIN s : s[i] \in T} = {i \in DOMAIN s : s[i].cause = "path"}
    BY <2>1
  <2> QED
    BY <2>2 DEF ByPath, Among
<1> HIDE DEF T
<1> QED
  BY <1>1, <1>2

LEMMA BehindByPath ==
  ASSUME NEW M, NEW a \in Seq(M), NEW b \in Seq(M)
  PROVE  ByPath(a \o b) = ByPath(a) + ByPath(b)
<1> DEFINE T == {e \in M : e.cause = "path"}
<1>1. \A s \in Seq(M) : ByPath(s) = Among(s, DOMAIN s, T)
  <2> TAKE s \in Seq(M)
  <2>1. \A i \in DOMAIN s : s[i] \in T <=> s[i].cause = "path"
    OBVIOUS
  <2>2. {i \in DOMAIN s : s[i] \in T} = {i \in DOMAIN s : s[i].cause = "path"}
    BY <2>1
  <2> QED
    BY <2>2 DEF ByPath, Among
<1>2. a \o b \in Seq(M)
  OBVIOUS
<1> HIDE DEF T
<1>3. Among(a \o b, DOMAIN (a \o b), T) = Among(a, DOMAIN a, T) + Among(b, DOMAIN b, T)
  BY BehindCounts
<1> QED
  BY <1>1, <1>2, <1>3

\* The worst answers are of the answers, the events are those and the freezes, in
\* some order, and the counts are of them.
LEMMA ReportOpened ==
  ASSUME LineInv, ShownInv
  PROVE  \E slow, holes :
           LET r == SpikeReport(samples, Freezes, Log, None)
           IN  /\ \A k \in DOMAIN slow : \E i \in DOMAIN samples : slow[k] = LatencyEvent(samples[i])
               /\ DOMAIN holes = DOMAIN Freezes
               /\ \A k \in DOMAIN holes : holes[k] = FreezeEvent(Freezes[k])
               /\ \A k \in DOMAIN r.events : \/ \E i \in DOMAIN slow : r.events[k] = slow[i]
                                             \/ \E i \in DOMAIN holes : r.events[k] = holes[i]
               /\ ByPath(r.events) = ByPath(slow) + ByPath(holes)
               /\ r.gapCauses = VerdictCounts(Column(holes, LAMBDA e : e.cause))
               /\ r.pathSamples = ByPath(slow)
<1> DEFINE take == Max({1, (Len(samples) + 19) \div 20})
           keys == [i \in DOMAIN samples |-> -samples[i].ms]
           sorted == SortedAt(samples, keys)
           worst == SubSeq(sorted, 1, Min({take, Len(samples)}))
           slow == [i \in DOMAIN worst |-> LatencyEvent(worst[i])]
           holes == [i \in DOMAIN Freezes |-> FreezeEvent(Freezes[i])]
           all == slow \o holes
           keys2 == [i \in DOMAIN all |-> -all[i].ms]
           r == SpikeReport(samples, Freezes, Log, None)
<1>1. /\ r.events = SortedAt(all, keys2)
      /\ r.gapCauses = VerdictCounts(Column(holes, LAMBDA e : e.cause))
      /\ r.pathSamples = ByPath(slow)
  BY DEF SpikeReport, SpikeVerdict, SortedBy, SortedAt, Column, LatencyEvent, FreezeEvent, Count, ByPath
<1>2. PICK n \in Nat : n = Len(samples) /\ DOMAIN samples = 1..n
  BY DEF LineInv, LineType
<1>3. samples \in Seq(Timing) /\ \A i \in DOMAIN samples : samples[i].ms \in Nat
  <2>1. samples \in Seq(Timing) /\ \A i \in DOMAIN samples : samples[i] \in Timing
    BY ElementTypes DEF LineInv, LineType
  <2> QED
    BY <2>1 DEF Timing
<1>4. sorted \in Seq(Timing) /\ Len(sorted) = n /\ \A k \in DOMAIN sorted : \E i \in DOMAIN samples : sorted[k] = samples[i]
  <2>1. keys \in [DOMAIN samples -> Int] /\ samples \in Seq(Timing)
    BY <1>3
  <2> HIDE DEF keys, sorted
  <2>2. /\ SortedAt(samples, keys) \in Seq(Timing) /\ Len(SortedAt(samples, keys)) = Len(samples)
        /\ \A k \in DOMAIN SortedAt(samples, keys) : \E i \in DOMAIN samples : SortedAt(samples, keys)[k] = samples[i]
    <3>1. /\ SortedAt(samples, keys) \in Seq(Timing) /\ Len(SortedAt(samples, keys)) = Len(samples)
          /\ \A k \in DOMAIN SortedAt(samples, keys) : \E i \in DOMAIN samples : SortedAt(samples, keys)[k] = samples[i]
          /\ \A X : Among(SortedAt(samples, keys), DOMAIN SortedAt(samples, keys), X) = Among(samples, DOMAIN samples, X)
      BY <2>1, SortedAre
    <3> QED
      BY <3>1
  <2> QED
    BY <1>2, <2>2 DEF sorted
<1>5. PICK m \in Int : m = Min({take, n}) /\ m <= n
  <2>1. PICK q \in Int : q = (n + 19) \div 20
    BY <1>2
  <2>2. Max({1, q}) \in {1, q}
    <3>1. 1 \in Int
      OBVIOUS
    <3> HIDE DEF take
    <3> QED
      BY <3>1, TheGreater, Zenon
  <2>3. PICK p \in Int : p = take
    BY <1>2, <2>1, <2>2
  <2>4. Min({p, n}) \in {p, n} /\ Min({p, n}) <= n
    BY <1>2, TheLess
  <2>5. Min({p, n}) \in Int
    BY <1>2, <2>4
  <2> HIDE DEF take
  <2> QED
    BY <2>3, <2>4, <2>5
<1> HIDE DEF sorted, take
<1>6. PICK w \in Nat : DOMAIN worst = 1..w /\ \A k \in 1..w : \E i \in DOMAIN sorted : worst[k] = sorted[i]
  <2>1. worst = SubSeq(sorted, 1, m)
    BY <1>2, <1>5
  <2> HIDE DEF worst
  <2> QED
    BY <1>2, <1>4, <1>5, <2>1, TheFirst
<1>7. \A k \in DOMAIN worst : \E i \in DOMAIN samples : worst[k] = samples[i]
  BY <1>2, <1>4, <1>6
<1>8. PICK g \in Nat : Len(Freezes) = g /\ DOMAIN Freezes = 1..g /\ \A k \in 1..g : Freezes[k].ms \in Int
  <2>1. Freezes \in Seq(Gap)
    BY FreezesAre
  <2>2. \A k \in DOMAIN Freezes : Freezes[k] \in Gap
    BY <2>1
  <2> QED
    BY <2>1, <2>2 DEF Gap
<1> HIDE DEF worst
<1>9. DOMAIN slow = 1..w /\ \A k \in DOMAIN slow : \E i \in DOMAIN samples : slow[k] = LatencyEvent(samples[i])
  BY <1>6, <1>7
<1>10. DOMAIN holes = 1..g /\ DOMAIN holes = DOMAIN Freezes /\ \A k \in DOMAIN holes : holes[k] = FreezeEvent(Freezes[k])
  BY <1>8
<1>11. \A k \in 1..w : slow[k].ms \in Int
  BY <1>3, <1>9, EventLengths
<1>12. \A k \in 1..g : holes[k].ms \in Int
  BY <1>8, <1>10, EventLengths
<1>13. \E M : slow \in Seq(M) /\ holes \in Seq(M) /\ Len(slow) = w /\ Len(holes) = g
  <2> DEFINE M == Range(slow) \union Range(holes)
  <2>1. slow \in [1..w -> M] /\ holes \in [1..g -> M]
    BY <1>6, <1>8 DEF Range
  <2> HIDE DEF M, slow, holes
  <2> QED
    BY <2>1
<1> HIDE DEF slow, holes
<1>14. PICK M : slow \in Seq(M) /\ holes \in Seq(M) /\ Len(slow) = w /\ Len(holes) = g
  BY <1>13
<1>15. /\ DOMAIN all = 1..(w + g) /\ w + g \in Nat /\ all \in Seq(M)
       /\ \A k \in 1..(w + g) : all[k] = IF k <= w THEN slow[k] ELSE holes[k - w]
  BY <1>14
<1> HIDE DEF all
<1>16. \A k \in 1..(w + g) : (\E i \in 1..w : all[k] = slow[i]) \/ (\E i \in 1..g : all[k] = holes[i])
  <2> TAKE k \in 1..(w + g)
  <2>1. CASE k <= w
    BY <1>15, <2>1
  <2>2. CASE ~(k <= w)
    <3>1. k - w \in 1..g /\ all[k] = holes[k - w]
      BY <1>15, <2>2
    <3> QED
      BY <3>1
  <2> QED
    BY <2>1, <2>2
<1>17. \A k \in 1..(w + g) : all[k].ms \in Int
  BY <1>11, <1>12, <1>16
<1>18. /\ \A k \in DOMAIN r.events : \E i \in 1..(w + g) : r.events[k] = all[i]
       /\ ByPath(r.events) = ByPath(all)
  <2>1. keys2 \in [DOMAIN all -> Int]
    BY <1>15, <1>17
  <2> HIDE DEF keys2, r
  <2>2. /\ \A k \in DOMAIN SortedAt(all, keys2) : \E i \in DOMAIN all : SortedAt(all, keys2)[k] = all[i]
        /\ ByPath(SortedAt(all, keys2)) = ByPath(all)
    BY <1>15, <2>1, EventsSorted, Zenon
  <2> QED
    BY <1>1, <1>15, <2>2
<1>19. ByPath(all) = ByPath(slow) + ByPath(holes)
  BY <1>14, BehindByPath DEF all
<1> HIDE DEF r
<1>20. \A k \in DOMAIN r.events : (\E i \in DOMAIN slow : r.events[k] = slow[i]) \/ (\E i \in DOMAIN holes : r.events[k] = holes[i])
  BY <1>9, <1>10, <1>16, <1>18
<1>21. ByPath(r.events) = ByPath(slow) + ByPath(holes)
  BY <1>18, <1>19
<1> QED
  BY <1>1, <1>9, <1>10, <1>20, <1>21 DEF r

-----------------------------------------------------------------------------
(* The path is blamed for what did not come.                                *)

WindowOf(s, from, to) == {i \in DOMAIN s : from <= s[i].t /\ s[i].t < to}
FramesOf(s, from, to) == {i \in WindowOf(s, from, to) : s[i].kind \in FrameKinds}

\* What framesInWindow counts.
LEMMA WindowCounted ==
  ASSUME NEW M, NEW s \in Seq(M), NEW from, NEW to
  PROVE  LET d == DuringWindow(s, from, to)
         IN  /\ Count(d, LAMBDA e : e.kind \in FrameKinds) = Cardinality(FramesOf(s, from, to))
             /\ Len(Kept(d, LAMBDA e : e.kind \in FrameKinds)) = Cardinality(FramesOf(s, from, to))
<1> DEFINE I == WindowOf(s, from, to)
           d == DuringWindow(s, from, to)
           T == {e \in M : e.kind \in FrameKinds}
           K == {k \in DOMAIN d : d[k].kind \in FrameKinds}
<1>1. d = KeptAt(s, I)
  <2>1. [i \in DOMAIN s |-> IF i \in I THEN <<s[i]>> ELSE <<>>]
          = [i \in DOMAIN s |-> IF from <= s[i].t /\ s[i].t < to THEN <<s[i]>> ELSE <<>>]
    BY DEF WindowOf
  <2> QED
    BY <2>1 DEF DuringWindow, Kept, KeptAt
<1>2. I \in SUBSET DOMAIN s
  BY DEF WindowOf
<1> HIDE DEF I, d
<1>3. d \in Seq(M) /\ Among(d, DOMAIN d, T) = Among(s, I, T)
  <2> HIDE DEF T
  <2> QED
    BY <1>1, <1>2, KeptCounts
<1>4. K = {k \in DOMAIN d : d[k] \in T}
  <2>1. \A k \in DOMAIN d : d[k] \in T <=> d[k].kind \in FrameKinds
    BY <1>3
  <2> HIDE DEF T
  <2> QED
    BY <2>1
<1>5. FramesOf(s, from, to) = {i \in I : s[i] \in T}
  <2>1. \A i \in I : s[i] \in T <=> s[i].kind \in FrameKinds
    BY <1>2
  <2> HIDE DEF T
  <2> QED
    BY <2>1 DEF FramesOf, I
<1>6. Cardinality(K) = Cardinality(FramesOf(s, from, to))
  BY <1>3, <1>4, <1>5 DEF Among
<1>7. Kept(d, LAMBDA e : e.kind \in FrameKinds) = KeptAt(d, K)
  <2>1. [i \in DOMAIN d |-> IF i \in K THEN <<d[i]>> ELSE <<>>]
          = [i \in DOMAIN d |-> IF d[i].kind \in FrameKinds THEN <<d[i]>> ELSE <<>>]
    OBVIOUS
  <2> QED
    BY <2>1 DEF Kept, KeptAt
<1>8. Count(d, LAMBDA e : e.kind \in FrameKinds) = Cardinality(K)
  BY DEF Count
<1>9. Len(KeptAt(d, K)) = Cardinality(K)
  <2>1. K \in SUBSET DOMAIN d
    OBVIOUS
  <2> HIDE DEF K
  <2> QED
    BY <1>3, <2>1, KeptLength
<1> QED
  BY <1>6, <1>7, <1>8, <1>9 DEF d

\* A frame has one place in the window's log.
LEMMA WindowedOnce ==
  ASSUME LineInv, NumberedInv, NEW x \in DOMAIN Windowed, NEW y \in DOMAIN Windowed,
         Windowed[x].kind = "frame", Windowed[y].kind = "frame", Windowed[x].id = Windowed[y].id
  PROVE  x = y
<1> DEFINE I == {i \in DOMAIN hostWire : hostWire[i].t >= windowFrom}
           M == HostFrame \union HostInput
<1>1. Windowed = KeptAt(hostWire, I)
  <2>1. [i \in DOMAIN hostWire |-> IF i \in I THEN <<hostWire[i]>> ELSE <<>>]
          = [i \in DOMAIN hostWire |-> IF hostWire[i].t >= windowFrom THEN <<hostWire[i]>> ELSE <<>>]
    OBVIOUS
  <2> QED
    BY <2>1 DEF Windowed, Kept, KeptAt
<1>2. hostWire \in Seq(M) /\ I \in SUBSET DOMAIN hostWire /\ DOMAIN hostWire \in SUBSET Int
  BY DEF LineInv, LineType
<1> HIDE DEF I, M
<1>3. Windowed \in Seq(M) /\ \E src : Picks(src, Windowed, hostWire, I)
  BY <1>1, <1>2, KeptPicks DEF KeptAt
<1>4. PICK src : Picks(src, Windowed, hostWire, I)
  BY <1>3
<1>5. DOMAIN Windowed = 1..Len(Windowed) /\ Len(Windowed) \in Nat
  BY <1>3
<1>6. /\ \A k \in DOMAIN Windowed : src[k] \in I /\ Windowed[k] = hostWire[src[k]]
      /\ \A i, j \in DOMAIN Windowed : i < j => src[i] < src[j]
  BY <1>4, <1>5 DEF Picks
<1>7. src[x] = src[y] /\ src[x] \in Int
  BY <1>2, <1>6 DEF NumberedInv
<1>8. ~(x < y) /\ ~(y < x) /\ x \in Int /\ y \in Int
  BY <1>5, <1>6, <1>7
<1> QED
  BY <1>8

\* A frame of the window the page has, by then.
HasFrame(j, id, from, to) == j \in FramesOf(wireLog, from, to) /\ wireLog[j].id = id

LEMMA PathIsFounded ==
  ASSUME BenchInv, WholeLog, NEW from \in Int, NEW to \in Int, CauseOf(from, to, Log) = "path"
  PROVE  NotArrivedBetween(from, to)
<1> DEFINE host == FramesOf(Windowed, from, to)
           client == FramesOf(wireLog, from, to)
<1>0. LineInv /\ HostInv /\ NumberedInv /\ wireLog \in Seq(WireEntry) /\ Windowed \in Seq(HostFrame \union HostInput)
  BY WindowedAre DEF BenchInv, HostInv, WireInv
<1>1. /\ FramesInWindow(Windowed, wireLog, from, to, FrameKinds).host = Cardinality(host)
      /\ FramesInWindow(Windowed, wireLog, from, to, FrameKinds).client = Cardinality(client)
  <2>1. /\ FramesInWindow(Windowed, wireLog, from, to, FrameKinds).host
             = Count(DuringWindow(Windowed, from, to), LAMBDA e : e.kind \in FrameKinds)
        /\ FramesInWindow(Windowed, wireLog, from, to, FrameKinds).client
             = Len(Kept(DuringWindow(wireLog, from, to), LAMBDA e : e.kind \in FrameKinds))
    BY DEF FramesInWindow, WireBetween
  <2>2. Count(DuringWindow(Windowed, from, to), LAMBDA e : e.kind \in FrameKinds) = Cardinality(host)
    BY <1>0, WindowCounted
  <2>3. Len(Kept(DuringWindow(wireLog, from, to), LAMBDA e : e.kind \in FrameKinds)) = Cardinality(client)
    BY <1>0, WindowCounted
  <2> QED
    BY <2>1, <2>2, <2>3
<1>2. IsFiniteSet(client) /\ Cardinality(client) \in Nat
  <2>1. client \in SUBSET (1..Len(wireLog)) /\ Len(wireLog) \in Nat
    BY <1>0 DEF FramesOf, WindowOf
  <2> HIDE DEF client
  <2> QED
    BY <2>1, PlacesAreFinite
<1>3. IsFiniteSet(host) /\ Cardinality(host) \in Nat
  <2>1. host \in SUBSET (1..Len(Windowed)) /\ Len(Windowed) \in Nat
    BY <1>0 DEF FramesOf, WindowOf
  <2> HIDE DEF host
  <2> QED
    BY <2>1, PlacesAreFinite
<1>4. Cardinality(host) >= 2 /\ 3 * Cardinality(client) <= Cardinality(host)
  <2>1. CauseOf(from, to, Log) = GapCause(Cardinality(host), Cardinality(client), Max({1, to - from}), HostRate)
    BY <1>1 DEF CauseOf, Log
  <2> HIDE DEF host, client
  <2> QED
    BY <2>1 DEF GapCause
<1>5. SUFFICES ASSUME ~NotArrivedBetween(from, to) PROVE FALSE
  OBVIOUS
<1>6. \A i \in host : \E j \in client : HasFrame(j, Windowed[i].id, from, to)
  <2> TAKE i \in host
  <2>1. i \in DOMAIN Windowed /\ from <= Windowed[i].t /\ Windowed[i].t < to /\ Windowed[i].kind \in FrameKinds
    BY DEF FramesOf, WindowOf
  <2>2. PICK h \in DOMAIN hostWire : Windowed[i] = hostWire[h] /\ hostWire[h].t >= windowFrom
    BY <1>0, <2>1, WindowedAre
  <2>3. hostWire[h].kind = "frame" /\ hostWire[h].t \in Nat
    <3>1. hostWire[h].kind \in {"frame", "input"} /\ hostWire[h].t \in Nat
      BY <1>0, HostElements DEF LineInv
    <3> QED
      BY <2>1, <2>2, <3>1 DEF FrameKinds
  <2>4. PICK a \in came : a.id = Windowed[i].id /\ ~(a.t >= to)
    BY <1>5, <2>1, <2>2, <2>3 DEF NotArrivedBetween
  <2>5. a.t \in Nat /\ a.t >= windowFrom
    BY <2>1, <2>2, <2>3, <2>4, SentInWindow DEF BenchInv, CameInv
  <2>6. PICK j \in DOMAIN wireLog : wireLog[j].id = a.id /\ wireLog[j].t = a.t
    BY <2>5 DEF BenchInv, CameInv
  <2>7. PICK g \in DOMAIN hostWire : hostWire[g].kind = "frame" /\ hostWire[g].id = a.id /\ hostWire[g].t <= a.t
    BY DEF BenchInv, CameInv, SentBy
  <2>8. g = h
    BY <1>0, <2>2, <2>3, <2>4, <2>7 DEF NumberedInv
  <2>9. from <= a.t /\ a.t < to
    <3>1. from <= hostWire[h].t /\ hostWire[h].t <= a.t
      BY <2>1, <2>2, <2>7, <2>8
    <3> QED
      BY <2>3, <2>4, <2>5, <3>1
  <2>10. wireLog[j].kind \in FrameKinds
    <3>1. wireLog[j] \in WireEntry
      BY <1>0
    <3> QED
      BY <3>1 DEF WireEntry, FrameKinds
  <2>11. j \in client
    BY <2>6, <2>9, <2>10 DEF FramesOf, WindowOf
  <2> QED
    BY <2>4, <2>6, <2>11 DEF HasFrame
<1> DEFINE f == [i \in host |-> CHOOSE j \in client : HasFrame(j, Windowed[i].id, from, to)]
<1>7. \A i \in host : f[i] \in client /\ HasFrame(f[i], Windowed[i].id, from, to)
  <2> HIDE DEF host, client
  <2> QED
    BY <1>6
<1>8. \A x, y \in host : f[x] = f[y] => x = y
  <2> SUFFICES ASSUME NEW x \in host, NEW y \in host, f[x] = f[y] PROVE x = y
    OBVIOUS
  <2>1. Windowed[x].id = Windowed[y].id
    <3> HIDE DEF f, host, client
    <3> QED
      BY <1>7 DEF HasFrame
  <2>2. \A i \in host : i \in DOMAIN Windowed /\ Windowed[i].kind = "frame"
    <3> TAKE i \in host
    <3>1. i \in DOMAIN Windowed /\ Windowed[i].kind \in FrameKinds
      BY DEF FramesOf, WindowOf
    <3>2. PICK h \in DOMAIN hostWire : Windowed[i] = hostWire[h]
      BY <1>0, <3>1, WindowedAre
    <3>3. hostWire[h].kind \in {"frame", "input"}
      BY <1>0, HostElements DEF LineInv
    <3> QED
      BY <3>1, <3>2, <3>3 DEF FrameKinds
  <2> HIDE DEF f, host, client
  <2> QED
    BY <1>0, <2>1, <2>2, WindowedOnce
<1>9. f \in [host -> client]
  <2> HIDE DEF host, client
  <2> QED
    BY <1>7
<1>10. Cardinality(host) <= Cardinality(client)
  <2> HIDE DEF f, host, client
  <2> QED
    BY <1>2, <1>8, <1>9, NoMore
<1> HIDE DEF host, client
<1> QED
  BY <1>2, <1>3, <1>4, <1>10

-----------------------------------------------------------------------------
(* One verdict for every freeze.                                            *)

LEMMA VerdictsAreWhole ==
  ASSUME NEW n \in Nat, NEW causes, DOMAIN causes = 1..n
  PROVE  LET v == VerdictCounts(causes)
         IN  /\ v.path + v.quiet + v.unclear = n
             /\ v.path = Cardinality({i \in 1..n : causes[i] = "path"})
<1> DEFINE P == {i \in 1..n : causes[i] = "path"}
           Q == {i \in 1..n : causes[i] = "quiet"}
           U == {i \in 1..n : causes[i] \notin {"path", "quiet"}}
           v == VerdictCounts(causes)
<1>1. v.path = Cardinality(P) /\ v.quiet = Cardinality(Q) /\ v.unclear = Cardinality(U)
  BY DEF VerdictCounts, Count
<1>2. P \in SUBSET (1..n) /\ Q \in SUBSET (1..n) /\ U \in SUBSET (1..n)
  OBVIOUS
<1>3. P \cap Q = {} /\ (P \union Q) \cap U = {} /\ (P \union Q) \union U = 1..n
  OBVIOUS
<1> HIDE DEF P, Q, U, v
<1>4. /\ IsFiniteSet(P) /\ IsFiniteSet(Q) /\ IsFiniteSet(U)
      /\ Cardinality(P) \in Nat /\ Cardinality(Q) \in Nat /\ Cardinality(U) \in Nat
  BY <1>2, PlacesAreFinite
<1>5. IsFiniteSet(P \union Q) /\ Cardinality(P \union Q) = Cardinality(P) + Cardinality(Q)
  <2>1. /\ IsFiniteSet(P \union Q)
        /\ Cardinality(P \union Q) = Cardinality(P) + Cardinality(Q) - Cardinality(P \cap Q)
        /\ Cardinality(P \cap Q) = 0
    BY <1>3, <1>4, FS_Union, FS_EmptySet
  <2> QED
    BY <1>4, <2>1
<1>6. Cardinality(1..n) = Cardinality(P \union Q) + Cardinality(U)
  <2>1. /\ Cardinality((P \union Q) \union U)
             = Cardinality(P \union Q) + Cardinality(U) - Cardinality((P \union Q) \cap U)
        /\ Cardinality((P \union Q) \cap U) = 0
    BY <1>3, <1>4, <1>5, FS_Union, FS_EmptySet
  <2>2. Cardinality(P \union Q) \in Nat
    BY <1>4, <1>5
  <2>3. Cardinality((P \union Q) \union U) = Cardinality(P \union Q) + Cardinality(U)
    BY <1>4, <2>1, <2>2
  <2> QED
    BY <1>3, <2>3
<1>7. Cardinality(1..n) = n
  BY UpToHas
<1>8. Cardinality(P) + Cardinality(Q) + Cardinality(U) = n
  BY <1>4, <1>5, <1>6, <1>7
<1> QED
  BY <1>1, <1>8 DEF v, P

-----------------------------------------------------------------------------
(* The host's share of an answer.                                           *)

LEMMA ShareIsPart ==
  ASSUME LineInv, AnswerInv, NEW i \in DOMAIN samples, samples[i].sentAt = samples[i].asked,
         HostShareFor(answers, samples[i].stamp, samples[i].shownAt) # None
  PROVE  HostShareFor(answers, samples[i].stamp, samples[i].shownAt)[1] <= samples[i].ms
<1> DEFINE stamp == samples[i].stamp
           to == samples[i].shownAt
           I == {k \in DOMAIN answers : answers[k].t <= to /\ answers[k].stamp = stamp}
           mine == KeptAt(answers, I)
<1>1. HostShareFor(answers, stamp, to) = <<Last(mine).ms>> /\ mine # <<>>
  <2>1. mine = Kept(answers, LAMBDA a : a.t <= to /\ a.stamp = stamp)
    <3>1. [k \in DOMAIN answers |-> IF k \in I THEN <<answers[k]>> ELSE <<>>]
            = [k \in DOMAIN answers |-> IF answers[k].t <= to /\ answers[k].stamp = stamp THEN <<answers[k]>> ELSE <<>>]
      OBVIOUS
    <3> QED
      BY <3>1 DEF Kept, KeptAt
  <2>2. HostShareFor(answers, stamp, to) = IF stamp = 0 \/ mine = <<>> THEN <<>> ELSE <<Last(mine).ms>>
    BY <2>1 DEF HostShareFor, None
  <2> HIDE DEF mine
  <2> QED
    BY <2>2 DEF None
<1>2. samples[i].shownAt \in Nat /\ samples[i].sentAt \in Nat /\ samples[i].asked \in Nat
  <2>1. samples[i] \in Timing
    BY ElementTypes DEF LineInv
  <2> QED
    BY <2>1 DEF Timing
<1>3. PICK first \in DOMAIN answers : /\ answers[first].stamp = stamp /\ answers[first].t <= to
                                      /\ samples[i].asked <= answers[first].t - answers[first].ms
  BY DEF AnswerInv, AnsweredBy
<1>4. /\ answers \in Seq(Answer) /\ I \in SUBSET DOMAIN answers /\ first \in I /\ DOMAIN answers \in SUBSET Int
      /\ \A k \in I : answers[k].t <= to
      /\ \A k \in DOMAIN answers : answers[k].t \in Nat /\ answers[k].ms \in Nat
  BY <1>3, AnswerElements DEF AnswerInv
<1> HIDE DEF I
<1>5. mine \in Seq(Answer) /\ \E src : Picks(src, mine, answers, I)
  BY <1>4, KeptPicks DEF KeptAt
<1> HIDE DEF mine
<1>6. PICK src : Picks(src, mine, answers, I)
  BY <1>5
<1>7. PICK n \in Nat : n = Len(mine) /\ n >= 1 /\ Last(mine) = mine[n]
  BY <1>1, <1>5 DEF Last
<1>8. /\ \A k \in 1..n : src[k] \in I /\ mine[k] = answers[src[k]]
      /\ \A j, k \in 1..n : j < k => src[j] < src[k]
      /\ \E k \in 1..n : src[k] = first
  BY <1>4, <1>6, <1>7 DEF Picks
<1>9. PICK k \in 1..n : src[k] = first
  BY <1>8
<1>10. PICK last \in DOMAIN answers : last = src[n] /\ last \in I /\ Last(mine) = answers[last]
  BY <1>4, <1>7, <1>8
<1>11. first = last \/ first < last
  BY <1>7, <1>8, <1>9, <1>10
<1>12. answers[first].t - answers[first].ms <= answers[last].t - answers[last].ms
  <2>1. CASE first = last
    BY <1>4, <2>1
  <2>2. CASE first < last
    BY <2>2 DEF AnswerInv
  <2> QED
    BY <1>11, <2>1, <2>2
<1>13. answers[last].t <= to /\ answers[last].ms \in Nat /\ answers[last].t \in Nat
  BY <1>4, <1>10
<1>14. answers[last].ms <= to - samples[i].sentAt
  BY <1>2, <1>3, <1>4, <1>12, <1>13
<1>15. samples[i].ms = to - samples[i].sentAt
  BY DEF AnswerInv
<1> QED
  BY <1>1, <1>10, <1>14, <1>15

\* A freeze or a slow answer is put down to the path only if a frame sent while it
\* lasted had not arrived when it ended, every freeze gets one verdict, the two counts
\* of path verdicts are those of the events reported, and the host had no input longer
\* than its answer took (spikeReport).
THEOREM BlameIsAlwaysFounded == BenchSpec => []BlameIsFounded
<1>1. BenchInv /\ ReportInv => BlameIsFounded
  <2> SUFFICES ASSUME BenchInv, ReportInv PROVE BlameIsFounded
    OBVIOUS
  <2> DEFINE r == SpikeReport(samples, Freezes, Log, None)
  <2>0. LineInv /\ AnswerInv /\ ShownInv
    BY DEF BenchInv, ReportInv
  <2>1. PICK slow, holes :
             /\ \A k \in DOMAIN slow : \E i \in DOMAIN samples : slow[k] = LatencyEvent(samples[i])
             /\ DOMAIN holes = DOMAIN Freezes
             /\ \A k \in DOMAIN holes : holes[k] = FreezeEvent(Freezes[k])
             /\ \A k \in DOMAIN r.events : \/ \E i \in DOMAIN slow : r.events[k] = slow[i]
                                           \/ \E i \in DOMAIN holes : r.events[k] = holes[i]
             /\ ByPath(r.events) = ByPath(slow) + ByPath(holes)
             /\ r.gapCauses = VerdictCounts(Column(holes, LAMBDA e : e.cause))
             /\ r.pathSamples = ByPath(slow)
    <3> HIDE DEF r
    <3> QED
      BY <2>0, ReportOpened DEF r
  <2> HIDE DEF r
  <2>2. \A k \in DOMAIN r.events : \/ \E i \in DOMAIN samples : r.events[k] = LatencyEvent(samples[i])
                                   \/ \E i \in DOMAIN Freezes : r.events[k] = FreezeEvent(Freezes[i])
    <3> TAKE k \in DOMAIN r.events
    <3>1. CASE \E i \in DOMAIN slow : r.events[k] = slow[i]
      BY <2>1, <3>1
    <3>2. CASE \E i \in DOMAIN holes : r.events[k] = holes[i]
      BY <2>1, <3>2
    <3> QED
      BY <2>1, <3>1, <3>2
  <2>3. PICK n \in Nat : Len(Freezes) = n /\ DOMAIN Freezes = 1..n /\ \A i \in 1..n : Freezes[i].atMs \in Int /\ Freezes[i].ms \in Int
    <3>1. Freezes \in Seq(Gap)
      BY <2>0, FreezesAre
    <3>2. \A i \in DOMAIN Freezes : Freezes[i] \in Gap
      BY <3>1
    <3> QED
      BY <3>1, <3>2 DEF Gap
  <2>4. \A i \in DOMAIN samples : samples[i].sentAt \in Int /\ samples[i].shownAt \in Int
    <3>1. \A i \in DOMAIN samples : samples[i] \in Timing
      BY <2>0, ElementTypes DEF LineInv
    <3> QED
      BY <3>1 DEF Timing
  <2>5. ASSUME WholeLog, NEW k \in DOMAIN r.events, r.events[k].cause = "path"
        PROVE  NotArrivedBetween(r.events[k].fromMs, r.events[k].toMs)
    <3>1. CASE \E i \in DOMAIN samples : r.events[k] = LatencyEvent(samples[i])
      <4>1. PICK i \in DOMAIN samples : r.events[k] = LatencyEvent(samples[i])
        BY <3>1
      <4>2. /\ r.events[k].fromMs = samples[i].sentAt /\ r.events[k].toMs = samples[i].shownAt
            /\ CauseOf(samples[i].sentAt, samples[i].shownAt, Log) = "path"
        BY <2>5, <4>1, ContextOpened DEF LatencyEvent
      <4> QED
        BY <2>4, <2>5, <4>2, PathIsFounded
    <3>2. CASE \E i \in DOMAIN Freezes : r.events[k] = FreezeEvent(Freezes[i])
      <4>1. PICK i \in DOMAIN Freezes : r.events[k] = FreezeEvent(Freezes[i])
        BY <3>2
      <4>2. PICK from, to : from = Freezes[i].atMs /\ to = Freezes[i].atMs + Freezes[i].ms
        OBVIOUS
      <4>3. r.events[k].fromMs = from /\ r.events[k].toMs = to /\ CauseOf(from, to, Log) = "path"
        BY <2>5, <4>1, <4>2, ContextOpened DEF FreezeEvent
      <4>4. from \in Int /\ to \in Int
        BY <2>3, <4>2
      <4> QED
        BY <2>5, <4>3, <4>4, PathIsFounded
    <3> QED
      BY <2>2, <3>1, <3>2
  <2>6. /\ r.gapCauses.path + r.gapCauses.quiet + r.gapCauses.unclear = Len(Freezes)
        /\ r.gapCauses.path = ByPath(holes)
    <3>1. PICK causes : causes = Column(holes, LAMBDA e : e.cause)
      OBVIOUS
    <3>2. DOMAIN causes = 1..n /\ DOMAIN holes = 1..n /\ \A i \in 1..n : causes[i] = holes[i].cause
      BY <2>1, <2>3, <3>1 DEF Column
    <3>3. LET v == VerdictCounts(causes)
          IN  v.path + v.quiet + v.unclear = n /\ v.path = Cardinality({i \in 1..n : causes[i] = "path"})
      BY <3>2, VerdictsAreWhole
    <3>4. {i \in 1..n : causes[i] = "path"} = {i \in DOMAIN holes : holes[i].cause = "path"}
      BY <3>2
    <3> QED
      BY <2>1, <2>3, <3>1, <3>3, <3>4 DEF ByPath
  <2>7. ASSUME \A i \in DOMAIN samples : samples[i].sentAt = samples[i].asked,
               NEW k \in DOMAIN r.events, r.events[k].hostMs # None
        PROVE  r.events[k].hostMs[1] <= r.events[k].ms
    <3>1. CASE \E i \in DOMAIN samples : r.events[k] = LatencyEvent(samples[i])
      <4>1. PICK i \in DOMAIN samples : r.events[k] = LatencyEvent(samples[i])
        BY <3>1
      <4>2. /\ r.events[k].ms = samples[i].ms
            /\ r.events[k].hostMs = HostShareFor(answers, samples[i].stamp, samples[i].shownAt)
        BY <4>1 DEF LatencyEvent, SpikeContext, Log
      <4>3. samples[i].sentAt = samples[i].asked
        BY <2>7
      <4> QED
        BY <2>0, <2>7, <4>2, <4>3, ShareIsPart
    <3>2. CASE \E i \in DOMAIN Freezes : r.events[k] = FreezeEvent(Freezes[i])
      <4>1. r.events[k].hostMs = None
        BY <3>2 DEF FreezeEvent, SpikeContext
      <4> QED
        BY <2>7, <4>1
    <3> QED
      BY <2>2, <3>1, <3>2
  <2>8. Count(r.events, LAMBDA e : e.cause = "path") = r.pathSamples + r.gapCauses.path
    <3>1. Count(r.events, LAMBDA e : e.cause = "path") = ByPath(r.events)
      BY DEF Count, ByPath
    <3> QED
      BY <2>1, <2>6, <3>1
  <2>9. /\ WholeLog => \A i \in DOMAIN r.events :
                r.events[i].cause = "path" => NotArrivedBetween(r.events[i].fromMs, r.events[i].toMs)
        /\ (\A i \in DOMAIN samples : samples[i].sentAt = samples[i].asked) =>
              \A i \in DOMAIN r.events :
                  r.events[i].hostMs # None => r.events[i].hostMs[1] <= r.events[i].ms
    BY <2>5, <2>7
  <2> QED
    BY <2>6, <2>8, <2>9 DEF BlameIsFounded, r
<1> QED
  BY <1>1, ReportAlways, PTL

-----------------------------------------------------------------------------
(* Percentiles.                                                             *)

RankOf(n, num, den) == Max({1, Min({n, (num * n + den - 1) \div den})})
UpTo(values, v) == {i \in DOMAIN values : values[i] <= v}

\* A percentile is one of the values: the least that as many as its rank do not exceed.
Ranked(v, values, rank) ==
  /\ \E i \in DOMAIN values : v = values[i]
  /\ Cardinality(UpTo(values, v)) >= rank
  /\ \A i \in DOMAIN values : Cardinality(UpTo(values, values[i])) >= rank => v <= values[i]

LEMMA RankIsPlace ==
  ASSUME NEW n \in Nat \ {0}, NEW num \in Nat, NEW den \in Nat \ {0}
  PROVE  RankOf(n, num, den) \in 1..n
<1>1. PICK q \in Int : q = (num * n + den - 1) \div den
  OBVIOUS
<1>2. PICK one \in Int : one = 1
  OBVIOUS
<1>3. Min({n, q}) \in {n, q} /\ Min({n, q}) <= n
  BY TheLess
<1>4. PICK least \in Int : least = Min({n, q}) /\ least <= n
  BY <1>3
<1>5. Max({one, least}) \in {one, least} /\ one <= Max({one, least})
  BY TheGreater
<1>6. RankOf(n, num, den) = Max({one, least})
  BY <1>1, <1>2, <1>4 DEF RankOf
<1> QED
  BY <1>2, <1>4, <1>5, <1>6

Within(values, lo, hi) == \A i \in DOMAIN values : lo <= values[i] /\ values[i] <= hi

LEMMA PercentileIsRanked ==
  ASSUME NEW values \in Seq(Int), values # <<>>, NEW lo \in Int, NEW hi \in Int, Within(values, lo, hi),
         NEW num \in Nat, NEW den \in Nat \ {0}
  PROVE  \E v \in Int : Percentile(values, num, den) = <<v>> /\ Ranked(v, values, RankOf(Len(values), num, den))
<1> DEFINE rank == RankOf(Len(values), num, den)
           V == {v \in Range(values) : Cardinality(UpTo(values, v)) >= rank}
           R == Range(values)
           g == Max(R)
<1>1. Percentile(values, num, den) = <<Min(V)>>
  BY DEF Percentile, RankOf, UpTo
<1>2. PICK n \in Nat \ {0} : Len(values) = n /\ DOMAIN values = 1..n /\ \A i \in 1..n : values[i] \in Int
  <2>1. Len(values) # 0
    BY EmptySeq
  <2> QED
    BY <2>1
<1>3. rank \in 1..n
  BY <1>2, RankIsPlace
<1>4. R = {values[i] : i \in 1..n}
  BY <1>2 DEF Range
<1>5. R \in SUBSET Int /\ R # {} /\ \A v \in R : lo <= v /\ v <= hi
  BY <1>2, <1>4 DEF Within
<1> HIDE DEF R, rank
<1>6. g \in R /\ \A v \in R : v <= g
  BY <1>5, GreatestOf
<1>7. UpTo(values, g) = 1..n
  <2>1. \A i \in 1..n : values[i] \in R
    BY <1>4
  <2> HIDE DEF g
  <2> QED
    BY <1>2, <1>6, <2>1 DEF UpTo
<1>8. g \in V
  <2>1. Cardinality(UpTo(values, g)) = n
    BY <1>7, UpToHas
  <2> HIDE DEF g
  <2> QED
    BY <1>3, <1>6, <2>1 DEF R
<1>9. \A v \in V : v \in R /\ Cardinality(UpTo(values, v)) >= rank
  BY DEF R
<1>10. \A v \in R : Cardinality(UpTo(values, v)) >= rank => v \in V
  BY DEF R
<1> HIDE DEF V, g
<1>11. Min(V) \in V /\ \A v \in V : Min(V) <= v
  <2>1. V \in SUBSET Int /\ V # {} /\ \A v \in V : lo <= v
    BY <1>5, <1>8, <1>9
  <2> QED
    BY <2>1, LeastOf
<1>12. PICK m \in Int : m = Min(V)
  BY <1>5, <1>9, <1>11
<1>13. Ranked(m, values, rank)
  <2>1. \E i \in DOMAIN values : m = values[i]
    BY <1>2, <1>4, <1>9, <1>11, <1>12
  <2>2. Cardinality(UpTo(values, m)) >= rank
    BY <1>9, <1>11, <1>12
  <2>3. \A i \in DOMAIN values : Cardinality(UpTo(values, values[i])) >= rank => m <= values[i]
    BY <1>2, <1>4, <1>10, <1>11, <1>12
  <2> QED
    BY <2>1, <2>2, <2>3 DEF Ranked
<1> QED
  BY <1>1, <1>12, <1>13 DEF rank

\* Of a greater rank is a greater value; that of the last rank is the greatest.
LEMMA RankedGrow ==
  ASSUME NEW values \in Seq(Int), NEW v \in Int, NEW w \in Int, NEW a \in Int, NEW b \in Int, a <= b,
         Ranked(v, values, a), Ranked(w, values, b)
  PROVE  v <= w
<1>1. PICK i \in DOMAIN values : w = values[i]
  BY DEF Ranked
<1>2. Cardinality(UpTo(values, w)) \in Nat
  <2>1. UpTo(values, w) \in SUBSET (1..Len(values)) /\ Len(values) \in Nat
    BY DEF UpTo
  <2> QED
    BY <2>1, PlacesAreFinite
<1>3. Cardinality(UpTo(values, w)) >= b
  BY DEF Ranked
<1>4. Cardinality(UpTo(values, values[i])) >= a
  BY <1>1, <1>2, <1>3
<1> QED
  BY <1>1, <1>4 DEF Ranked

LEMMA RankedLast ==
  ASSUME NEW values \in Seq(Int), NEW v \in Int, Ranked(v, values, Len(values))
  PROVE  \A i \in DOMAIN values : values[i] <= v
<1>1. PICK n \in Nat : n = Len(values) /\ DOMAIN values = 1..n
  OBVIOUS
<1>2. UpTo(values, v) \in SUBSET (1..n)
  BY <1>1 DEF UpTo
<1>3. IsFiniteSet(UpTo(values, v)) /\ Cardinality(UpTo(values, v)) \in Nat /\ Cardinality(UpTo(values, v)) <= n
  BY <1>2, PlacesAreFinite
<1>4. Cardinality(UpTo(values, v)) >= n
  BY <1>1 DEF Ranked
<1>5. IsFiniteSet(1..n) /\ Cardinality(1..n) = n
  BY UpToHas
<1>6. UpTo(values, v) = 1..n
  <2>1. Cardinality(UpTo(values, v)) = Cardinality(1..n)
    BY <1>3, <1>4, <1>5
  <2> QED
    BY <1>2, <1>5, <2>1, FS_Subset
<1> QED
  BY <1>1, <1>6 DEF UpTo

\* The ranks that are quoted.
LEMMA RanksGrow ==
  ASSUME NEW n \in Nat \ {0}
  PROVE  /\ RankOf(n, 1, 2) <= RankOf(n, 9, 10) /\ RankOf(n, 9, 10) <= RankOf(n, 19, 20)
         /\ RankOf(n, 19, 20) <= RankOf(n, 1, 1) /\ RankOf(n, 9, 10) <= RankOf(n, 1, 1)
         /\ RankOf(n, 1, 1) = n /\ 2 * RankOf(n, 1, 2) >= n
<1>1. ASSUME NEW q \in Int, 1 <= q, q <= n
      PROVE  Max({1, Min({n, q})}) = q
  <2>1. Min({n, q}) \in {n, q} /\ Min({n, q}) <= n /\ Min({n, q}) <= q
    BY TheLess
  <2>2. Min({n, q}) = q
    BY <1>1, <2>1
  <2>3. PICK one \in Int : one = 1
    OBVIOUS
  <2>4. Max({one, q}) \in {one, q} /\ one <= Max({one, q}) /\ q <= Max({one, q})
    BY TheGreater
  <2> QED
    BY <1>1, <2>2, <2>3, <2>4
<1>2. PICK a \in Int : a = (1 * n + 2 - 1) \div 2
  OBVIOUS
<1>3. PICK b \in Int : b = (9 * n + 10 - 1) \div 10
  OBVIOUS
<1>4. PICK c \in Int : c = (19 * n + 20 - 1) \div 20
  OBVIOUS
<1>5. PICK d \in Int : d = (1 * n + 1 - 1) \div 1
  OBVIOUS
<1>6. 1 <= a /\ a <= b /\ b <= c /\ c <= d /\ d = n /\ 2 * a >= n
  BY <1>2, <1>3, <1>4, <1>5
<1>7. RankOf(n, 1, 2) = a
  BY <1>1, <1>2, <1>6 DEF RankOf
<1>8. RankOf(n, 9, 10) = b
  BY <1>1, <1>3, <1>6 DEF RankOf
<1>9. RankOf(n, 19, 20) = c
  BY <1>1, <1>4, <1>6 DEF RankOf
<1>10. RankOf(n, 1, 1) = d
  BY <1>1, <1>5, <1>6 DEF RankOf
<1> QED
  BY <1>6, <1>7, <1>8, <1>9, <1>10

\* All of that of a sequence of numbers.
FiguresOf(values, p50, p90, p95, max) ==
  /\ Percentile(values, 1, 2) = <<p50>> /\ Percentile(values, 9, 10) = <<p90>>
  /\ Percentile(values, 19, 20) = <<p95>> /\ Percentile(values, 1, 1) = <<max>>
  /\ p50 <= p90 /\ p90 <= p95 /\ p95 <= max /\ p90 <= max
  /\ 2 * Cardinality(UpTo(values, p50)) >= Len(values)
  /\ \E i \in DOMAIN values : max = values[i]
  /\ \A i \in DOMAIN values : values[i] <= max

LEMMA AllFigures ==
  ASSUME NEW values \in Seq(Int), values # <<>>, NEW lo \in Int, NEW hi \in Int, Within(values, lo, hi)
  PROVE  \E m \in Int, n \in Int, o \in Int, x \in Int : FiguresOf(values, m, n, o, x)
<1>0. 1 \in Nat /\ 9 \in Nat /\ 19 \in Nat /\ {1, 2, 10, 20} \subseteq Nat \ {0}
  OBVIOUS
<1>1. PICK n \in Nat \ {0} : Len(values) = n
  <2>1. Len(values) # 0
    BY EmptySeq
  <2> QED
    BY <2>1
<1>2. ASSUME NEW num \in Nat, NEW den \in Nat \ {0}
      PROVE  \E v \in Int : Percentile(values, num, den) = <<v>> /\ Ranked(v, values, RankOf(n, num, den))
  BY <1>1, PercentileIsRanked
<1>3. ASSUME NEW num \in Nat, NEW den \in Nat \ {0}
      PROVE  RankOf(n, num, den) \in Int
  BY RankIsPlace
<1>4. /\ 2 \in Nat \ {0} /\ 10 \in Nat \ {0} /\ 20 \in Nat \ {0} /\ 1 \in Nat \ {0}
  BY <1>0
<1>5. PICK p50 \in Int : Percentile(values, 1, 2) = <<p50>> /\ Ranked(p50, values, RankOf(n, 1, 2))
  BY <1>0, <1>2, <1>4, Zenon
<1>6. PICK p90 \in Int : Percentile(values, 9, 10) = <<p90>> /\ Ranked(p90, values, RankOf(n, 9, 10))
  BY <1>0, <1>2, <1>4, Zenon
<1>7. PICK p95 \in Int : Percentile(values, 19, 20) = <<p95>> /\ Ranked(p95, values, RankOf(n, 19, 20))
  BY <1>0, <1>2, <1>4, Zenon
<1>8. PICK top \in Int : Percentile(values, 1, 1) = <<top>> /\ Ranked(top, values, RankOf(n, 1, 1))
  BY <1>0, <1>2, <1>4, Zenon
<1>9. PICK a \in Int : a = RankOf(n, 1, 2)
  BY <1>0, <1>3, <1>4, Zenon
<1>10. PICK b \in Int : b = RankOf(n, 9, 10)
  BY <1>0, <1>3, <1>4, Zenon
<1>11. PICK c \in Int : c = RankOf(n, 19, 20)
  BY <1>0, <1>3, <1>4, Zenon
<1>12. PICK d \in Int : d = RankOf(n, 1, 1)
  BY <1>0, <1>3, <1>4, Zenon
<1>13. a <= b /\ b <= c /\ c <= d /\ b <= d /\ d = n /\ 2 * a >= n
  BY <1>9, <1>10, <1>11, <1>12, RanksGrow
<1>14. Ranked(p50, values, a) /\ Ranked(p90, values, b) /\ Ranked(p95, values, c) /\ Ranked(top, values, d)
  BY <1>5, <1>6, <1>7, <1>8, <1>9, <1>10, <1>11, <1>12
<1>15. p50 <= p90 /\ p90 <= p95 /\ p95 <= top /\ p90 <= top
  BY <1>13, <1>14, RankedGrow
<1>16. 2 * Cardinality(UpTo(values, p50)) >= n
  <2>1. Cardinality(UpTo(values, p50)) >= a
    BY <1>14 DEF Ranked
  <2>2. Cardinality(UpTo(values, p50)) \in Nat
    <3>1. UpTo(values, p50) \in SUBSET (1..n)
      BY <1>1 DEF UpTo
    <3> QED
      BY <3>1, PlacesAreFinite
  <2> QED
    BY <1>13, <2>1, <2>2
<1>17. \A i \in DOMAIN values : values[i] <= top
  <2>1. Ranked(top, values, Len(values))
    BY <1>1, <1>13, <1>14
  <2> QED
    BY <2>1, RankedLast
<1>18. \E i \in DOMAIN values : top = values[i]
  BY <1>14 DEF Ranked
<1>19. FiguresOf(values, p50, p90, p95, top)
  BY <1>1, <1>5, <1>6, <1>7, <1>8, <1>15, <1>16, <1>17, <1>18 DEF FiguresOf
<1> QED
  BY <1>19

-----------------------------------------------------------------------------
(* Gaps in order.                                                           *)

InOrder(s) == \A i, j \in DOMAIN s : i < j => s[i] <= s[j]
GapLengths(times) == Column(Gaps(times), LAMBDA g : g.ms)

LEMMA LengthsAre ==
  ASSUME NEW times \in Seq(Int), InOrder(times), NEW lo \in Int, NEW hi \in Int, Within(times, lo, hi)
  PROVE  /\ GapLengths(times) \in Seq(Int) /\ Within(GapLengths(times), 0, hi - lo)
         /\ Len(GapLengths(times)) = Len(Gaps(times)) /\ DOMAIN GapLengths(times) = DOMAIN Gaps(times)
         /\ \A i \in DOMAIN Gaps(times) : GapLengths(times)[i] = Gaps(times)[i].ms
<1> DEFINE gaps == Gaps(times)
           lengths == GapLengths(times)
<1>1. /\ gaps \in Seq(Gap)
      /\ \A i \in DOMAIN gaps : /\ i \in DOMAIN times /\ i + 1 \in DOMAIN times
                                /\ gaps[i].ms = times[i + 1] - times[i]
  BY GapsAre
<1>2. PICK n \in Nat : Len(gaps) = n /\ DOMAIN gaps = 1..n
  BY <1>1
<1>3. lengths = [i \in 1..n |-> gaps[i].ms]
  BY <1>2 DEF GapLengths, Column
<1>4. \A i \in 1..n : gaps[i].ms \in Int /\ 0 <= gaps[i].ms /\ gaps[i].ms <= hi - lo
  <2> TAKE i \in 1..n
  <2>1. i \in DOMAIN times /\ i + 1 \in DOMAIN times /\ gaps[i].ms = times[i + 1] - times[i]
    <3> HIDE DEF gaps
    <3> QED
      BY <1>1, <1>2
  <2>2. times[i] <= times[i + 1]
    <3>1. i < i + 1
      OBVIOUS
    <3> QED
      BY <2>1, <3>1 DEF InOrder
  <2>3. lo <= times[i] /\ times[i + 1] <= hi
    BY <2>1 DEF Within
  <2>4. times[i] \in Int /\ times[i + 1] \in Int
    BY <2>1
  <2> QED
    BY <2>1, <2>2, <2>3, <2>4
<1> HIDE DEF gaps, lengths
<1>5. lengths \in Seq(Int) /\ Len(lengths) = n /\ DOMAIN lengths = 1..n
  <2>1. lengths \in [1..n -> Int]
    BY <1>3, <1>4
  <2> QED
    BY <2>1
<1>6. \A i \in 1..n : lengths[i] = gaps[i].ms
  BY <1>3
<1>7. Within(lengths, 0, hi - lo)
  BY <1>4, <1>5, <1>6 DEF Within
<1> QED
  BY <1>2, <1>5, <1>6, <1>7 DEF gaps, lengths

\* The longest freeze is a gap, as long as the last percentile says.
LongestIs(g, times, max) ==
  /\ FreezeReport(times, <<>>).longest = <<g>>
  /\ g.ms = max
  /\ \E k \in DOMAIN Gaps(times) : g = Gaps(times)[k]

LEMMA LongestIsLast ==
  ASSUME NEW times \in Seq(Int), InOrder(times), NEW lo \in Int, NEW hi \in Int, Within(times, lo, hi),
         Gaps(times) # <<>>
  PROVE  \E p50 \in Int, p90 \in Int, p95 \in Int, max \in Int, g \in Gap :
            FiguresOf(GapLengths(times), p50, p90, p95, max) /\ LongestIs(g, times, max)
<1> DEFINE gaps == Gaps(times)
           lengths == GapLengths(times)
           S == {gaps[i].ms : i \in DOMAIN gaps}
           longest == Greatest(S, 0)
           I == {i \in DOMAIN gaps : gaps[i].ms = longest}
           kept == KeptAt(gaps, I)
<1>1. PICK n \in Nat \ {0} : gaps \in Seq(Gap) /\ Len(gaps) = n /\ DOMAIN gaps = 1..n
  <2>1. gaps \in Seq(Gap) /\ Len(gaps) # 0
    BY GapsAre, EmptySeq
  <2> QED
    BY <2>1
<1>2. /\ lengths \in Seq(Int) /\ Within(lengths, 0, hi - lo) /\ Len(lengths) = n /\ DOMAIN lengths = 1..n
      /\ \A i \in 1..n : lengths[i] = gaps[i].ms
  BY <1>1, LengthsAre
<1>3. lengths # <<>> /\ hi - lo \in Int /\ 0 \in Int
  BY <1>1, <1>2
<1>4. FreezeReport(times, <<>>).longest = <<Head(kept)>>
  <2>1. FreezeReport(times, <<>>).longest = <<Head(Kept(gaps, LAMBDA g : g.ms = longest))>>
    BY DEF FreezeReport
  <2>2. [i \in DOMAIN gaps |-> IF i \in I THEN <<gaps[i]>> ELSE <<>>]
          = [i \in DOMAIN gaps |-> IF gaps[i].ms = longest THEN <<gaps[i]>> ELSE <<>>]
    OBVIOUS
  <2> QED
    BY <2>1, <2>2 DEF Kept, KeptAt
<1>5. I \in SUBSET DOMAIN gaps /\ \A i \in DOMAIN gaps : i \in I <=> gaps[i].ms = longest
  OBVIOUS
<1>6. \A i \in DOMAIN gaps : gaps[i].ms \in S
  OBVIOUS
<1>7. \A v \in S : \E i \in DOMAIN gaps : v = gaps[i].ms
  OBVIOUS
<1> HIDE DEF I, S, gaps, lengths, kept
<1>8. PICK p50 \in Int, p90 \in Int, p95 \in Int, max \in Int : FiguresOf(lengths, p50, p90, p95, max)
  <2>1. PICK span \in Int, zero \in Int : Within(lengths, zero, span)
    BY <1>2, <1>3
  <2> QED
    BY <1>2, <1>3, <2>1, AllFigures
<1>9. (\E i \in 1..n : max = lengths[i]) /\ (\A i \in 1..n : lengths[i] <= max)
  BY <1>2, <1>8 DEF FiguresOf
<1>10. longest = max
  <2>1. S \union {0} \in SUBSET Int /\ S \union {0} # {} /\ \A v \in S \union {0} : v <= max
    <3>1. \A v \in S : v \in Int /\ 0 <= v /\ v <= max
      BY <1>1, <1>2, <1>7, <1>9 DEF Within
    <3>2. \E v \in S : TRUE
      BY <1>1, <1>6
    <3>3. 0 <= max
      BY <3>1, <3>2
    <3> QED
      BY <3>1, <3>3
  <2>2. Max(S \union {0}) \in S \union {0} /\ \A v \in S \union {0} : v <= Max(S \union {0})
    BY <2>1, GreatestOf
  <2>3. max \in S \union {0}
    BY <1>1, <1>2, <1>6, <1>9
  <2>4. Max(S \union {0}) \in Int
    BY <2>1, <2>2
  <2>5. PICK m \in Int : m = Max(S \union {0})
    BY <2>4
  <2>6. m <= max /\ max <= m
    BY <2>1, <2>2, <2>3, <2>5
  <2>7. m = max
    BY <2>6
  <2> QED
    BY <2>5, <2>7 DEF Greatest
<1> HIDE DEF longest
<1>11. PICK k \in DOMAIN gaps : k \in I
  BY <1>1, <1>2, <1>5, <1>9, <1>10
<1>12. /\ kept \in Seq(Gap)
       /\ \A i \in DOMAIN kept : \E j \in I : kept[i] = gaps[j]
       /\ \A j \in I : \E i \in DOMAIN kept : kept[i] = gaps[j]
  BY <1>1, <1>5, KeptAre DEF kept
<1>13. kept # <<>>
  BY <1>11, <1>12
<1>14. 1 \in DOMAIN kept /\ Head(kept) = kept[1]
  BY <1>12, <1>13
<1>15. PICK j \in I : Head(kept) = gaps[j]
  BY <1>12, <1>14
<1>16. j \in DOMAIN gaps /\ gaps[j].ms = max /\ gaps[j] \in Gap
  BY <1>1, <1>5, <1>10, <1>15
<1>17. LongestIs(gaps[j], times, max)
  BY <1>4, <1>15, <1>16 DEF LongestIs, gaps
<1> QED
  BY <1>8, <1>16, <1>17 DEF lengths

-----------------------------------------------------------------------------
(* The pictures shown.                                                      *)

LEMMA ShownFacts ==
  ASSUME LineInv, ShownInv
  PROVE  /\ shown.changes \in Seq(Int) /\ InOrder(shown.changes) /\ Within(shown.changes, 0, now) /\ now \in Int
         /\ Gaps(shown.changes) \in Seq(Gap)
<1>1. shown.changes \in Seq(Nat) /\ now \in Nat
  BY DEF LineInv, LineType, ShownInv
<1>2. PICK s : s = shown.changes
  OBVIOUS
<1>3. s \in Seq(Int) /\ \A i \in DOMAIN s : 0 <= s[i]
  BY <1>1, <1>2
<1>4. Within(s, 0, now)
  BY <1>2, <1>3 DEF Within, ShownInv
<1>5. InOrder(s)
  BY <1>2 DEF InOrder, ShownInv
<1> QED
  BY <1>1, <1>2, <1>3, <1>4, <1>5, GapsAre

LEMMA GapStatsHold ==
  ASSUME LineInv, ShownInv, Gaps(shown.changes) # <<>>
  PROVE  LET stats == GapStats(shown.changes)
         IN  /\ stats.max = <<FreezeReport(shown.changes, <<>>).longest[1].ms>>
             /\ stats.median[1] <= stats.p90[1] /\ stats.p90[1] <= stats.max[1]
             /\ 2 * Count(Gaps(shown.changes), LAMBDA g : g.ms <= stats.median[1]) >= stats.n
<1> DEFINE changes == shown.changes
           stats == GapStats(changes)
           lengths == GapLengths(changes)
<1>1. changes \in Seq(Int) /\ InOrder(changes) /\ Within(changes, 0, now) /\ now \in Int
  BY ShownFacts
<1>2. PICK p50 \in Int, p90 \in Int, p95 \in Int, max \in Int, g \in Gap :
         FiguresOf(lengths, p50, p90, p95, max) /\ LongestIs(g, changes, max)
  <2>1. PICK zero \in Int : Within(changes, zero, now)
    BY <1>1
  <2> QED
    BY <1>1, <2>1, LongestIsLast
<1>3. /\ Len(lengths) = Len(Gaps(changes)) /\ DOMAIN lengths = DOMAIN Gaps(changes)
      /\ \A i \in DOMAIN Gaps(changes) : lengths[i] = Gaps(changes)[i].ms
  <2>1. PICK zero \in Int : Within(changes, zero, now)
    BY <1>1
  <2> QED
    BY <1>1, <2>1, LengthsAre
<1>4. /\ stats.n = Len(lengths) /\ stats.median = Percentile(lengths, 1, 2)
      /\ stats.p90 = Percentile(lengths, 9, 10) /\ stats.max = Percentile(lengths, 1, 1)
  BY DEF GapStats, GapLengths
<1> HIDE DEF lengths, stats
<1>5. stats.median = <<p50>> /\ stats.p90 = <<p90>> /\ stats.max = <<max>>
  BY <1>2, <1>4 DEF FiguresOf
<1>6. Count(Gaps(changes), LAMBDA x : x.ms <= stats.median[1]) = Cardinality(UpTo(lengths, p50))
  <2>1. {i \in DOMAIN Gaps(changes) : Gaps(changes)[i].ms <= stats.median[1]} = {i \in DOMAIN lengths : lengths[i] <= p50}
    BY <1>3, <1>5
  <2> QED
    BY <2>1 DEF Count, UpTo
<1>7. FreezeReport(changes, <<>>).longest[1].ms = max
  BY <1>2 DEF LongestIs
<1> HIDE DEF changes
<1>8. p50 <= p90 /\ p90 <= max /\ 2 * Cardinality(UpTo(lengths, p50)) >= Len(lengths)
  BY <1>2 DEF FiguresOf
<1>9. stats.max = <<FreezeReport(changes, <<>>).longest[1].ms>> /\ stats.median[1] <= stats.p90[1] /\ stats.p90[1] <= stats.max[1]
  BY <1>5, <1>7, <1>8
<1>10. 2 * Count(Gaps(changes), LAMBDA x : x.ms <= stats.median[1]) >= stats.n
  BY <1>4, <1>6, <1>8
<1> QED
  BY <1>9, <1>10 DEF stats, changes

\* No change is within a gap.
LEMMA NothingWithheld ==
  ASSUME LineInv, ShownInv
  PROVE  ReconcileGaps(Gaps(shown.changes), shown.changes).withheld = <<>>
<1> DEFINE changes == shown.changes
           gaps == Gaps(changes)
           Inside(g) == \E i \in DOMAIN changes : g.atMs < changes[i] /\ changes[i] < g.atMs + g.ms
           I == {k \in DOMAIN gaps : Inside(gaps[k])}
<1>1. ReconcileGaps(gaps, changes).withheld = KeptAt(gaps, I)
  <2>1. ReconcileGaps(gaps, changes).withheld
          = FlattenSeq([k \in DOMAIN gaps |-> IF Inside(gaps[k]) THEN <<gaps[k]>> ELSE <<>>])
    BY DEF ReconcileGaps, Kept
  <2> HIDE DEF Inside
  <2>2. [k \in DOMAIN gaps |-> IF k \in I THEN <<gaps[k]>> ELSE <<>>]
          = [k \in DOMAIN gaps |-> IF Inside(gaps[k]) THEN <<gaps[k]>> ELSE <<>>]
    OBVIOUS
  <2> QED
    BY <2>1, <2>2 DEF KeptAt
<1>2. changes \in Seq(Int) /\ InOrder(changes) /\ gaps \in Seq(Gap)
  BY ShownFacts
<1>3. ASSUME NEW k \in DOMAIN gaps, NEW i \in DOMAIN changes PROVE ~(gaps[k].atMs < changes[i] /\ changes[i] < gaps[k].atMs + gaps[k].ms)
  <2>1. /\ k \in DOMAIN changes /\ k + 1 \in DOMAIN changes
        /\ gaps[k].atMs = changes[k] /\ gaps[k].ms = changes[k + 1] - changes[k]
    BY <1>2, GapsAre
  <2>2. /\ changes[k] \in Int /\ changes[k + 1] \in Int /\ changes[i] \in Int /\ k \in Int /\ i \in Int
    BY <1>2, <2>1
  <2>3. CASE i = k \/ i = k + 1
    BY <2>1, <2>2, <2>3
  <2>4. CASE i < k
    <3>1. changes[i] <= changes[k]
      BY <1>2, <2>1, <2>4 DEF InOrder
    <3> QED
      BY <2>1, <2>2, <3>1
  <2>5. CASE k + 1 < i
    <3>1. changes[k + 1] <= changes[i]
      BY <1>2, <2>1, <2>5 DEF InOrder
    <3> QED
      BY <2>1, <2>2, <3>1
  <2> QED
    BY <2>2, <2>3, <2>4, <2>5
<1>4. I = {}
  BY <1>3
<1> HIDE DEF I, gaps, changes
<1>5. KeptAt(gaps, I) \in Seq(Gap) /\ \A k \in DOMAIN KeptAt(gaps, I) : FALSE
  BY <1>2, <1>4, KeptAre
<1>6. KeptAt(gaps, I) = <<>>
  <2>1. PICK kept \in Seq(Gap) : kept = KeptAt(gaps, I)
    BY <1>5
  <2>2. \A k \in DOMAIN kept : FALSE
    BY <1>5, <2>1
  <2>3. kept = <<>>
    BY <2>1, <2>2
  <2> QED
    BY <2>1, <2>3
<1> QED
  BY <1>1, <1>6 DEF gaps, changes

\* A sampler that never varies is not called alive.
LEMMA AliveVaries ==
  ASSUME LineInv, ShownInv, NEW o, o.minEvents = 2, o.minDistinct = 2,
         SamplerLiveness(shown.changes, o) = "ok"
  PROVE  \E g \in Range(Gaps(shown.changes)) : g.ms < GapStats(shown.changes).max[1]
<1> DEFINE changes == shown.changes
           gaps == Gaps(changes)
           S == {gaps[i].ms : i \in DOMAIN gaps}
<1>1. changes \in Seq(Int) /\ InOrder(changes) /\ Within(changes, 0, now) /\ now \in Int /\ gaps \in Seq(Gap)
  BY ShownFacts
<1>2. ~(Len(changes) < 2) /\ ~(Cardinality(S) < o.minDistinct)
  <2>1. Len(changes) \in Nat
    BY <1>1
  <2>2. SamplerLiveness(changes, o) = IF Len(changes) < o.minEvents THEN "too few events"
                                      ELSE IF Cardinality(S) < o.minDistinct THEN "never varies"
                                      ELSE RateVerdict(Len(changes), o)
    BY DEF SamplerLiveness
  <2> HIDE DEF S, changes
  <2>3. Len(changes) < 2 => SamplerLiveness(changes, o) = "too few events"
    BY <2>1, <2>2
  <2>4. Len(changes) >= 2 /\ Cardinality(S) < o.minDistinct => SamplerLiveness(changes, o) = "never varies"
    <3>1. Len(changes) >= 2 => ~(Len(changes) < o.minEvents)
      BY <2>1
    <3> QED
      BY <2>2, <3>1, Zenon
  <2>5. SamplerLiveness(changes, o) = "ok"
    BY DEF changes
  <2> QED
    BY <2>1, <2>3, <2>4, <2>5
<1>3. gaps # <<>>
  <2>1. Len(gaps) = Len(changes) - 1
    BY <1>1, <1>2, GapsAre
  <2>2. Len(gaps) # 0
    BY <1>1, <1>2, <2>1
  <2> HIDE DEF gaps
  <2> QED
    BY <2>2
<1>4. PICK p50 \in Int, p90 \in Int, p95 \in Int, max \in Int, g \in Gap :
         FiguresOf(GapLengths(changes), p50, p90, p95, max) /\ LongestIs(g, changes, max)
  <2>1. PICK zero \in Int : Within(changes, zero, now)
    BY <1>1
  <2> HIDE DEF changes
  <2> QED
    BY <1>1, <1>3, <2>1, LongestIsLast DEF gaps
<1>5. /\ DOMAIN GapLengths(changes) = DOMAIN gaps
      /\ \A i \in DOMAIN gaps : GapLengths(changes)[i] = gaps[i].ms
  <2>1. PICK zero \in Int : Within(changes, zero, now)
    BY <1>1
  <2> QED
    BY <1>1, <2>1, LengthsAre
<1>6. GapStats(changes).max = <<max>>
  BY <1>4 DEF GapStats, GapLengths, FiguresOf
<1>7. \A i \in DOMAIN gaps : gaps[i].ms <= max /\ gaps[i].ms \in Int
  <2> HIDE DEF gaps
  <2>1. \A i \in DOMAIN gaps : gaps[i].ms \in Int
    <3>1. \A i \in DOMAIN gaps : gaps[i] \in Gap
      BY <1>1
    <3> QED
      BY <3>1 DEF Gap
  <2> QED
    BY <1>4, <1>5, <2>1 DEF FiguresOf
<1>8. SUFFICES ASSUME \A i \in DOMAIN gaps : ~(gaps[i].ms < max) PROVE FALSE
  <2>1. \A i \in DOMAIN gaps : gaps[i] \in Range(gaps)
    BY DEF Range
  <2> HIDE DEF gaps, changes
  <2>2. \E x \in Range(gaps) : x.ms < max
    BY <2>1, <1>8
  <2>3. \E x \in Range(gaps) : x.ms < GapStats(changes).max[1]
    BY <1>6, <2>2
  <2> QED
    BY <2>3 DEF gaps, changes
<1>9. S \subseteq {max}
  <2> HIDE DEF gaps
  <2> QED
    BY <1>7, <1>8
<1>10. IsFiniteSet({max}) /\ Cardinality({max}) = 1
  BY FS_Singleton
<1>11. Cardinality(S) <= 1 /\ Cardinality(S) \in Nat
  <2> HIDE DEF S
  <2> QED
    BY <1>9, <1>10, FS_Subset, FS_CardinalityType
<1> QED
  BY <1>2, <1>11

\* Halves whose rates compare did not stop.
LEMMA ComparedGoOn ==
  ASSUME NEW first \in Int, NEW second \in Int, Comparable(<<first>>, <<second>>, 110)
  PROVE  WorkloadGate(first, second, 1, <<1, 4>>) = "ok"
<1>1. PICK larger \in Int : larger = Max({first, second}) /\ first <= larger
  <2>1. Max({first, second}) \in {first, second} /\ first <= Max({first, second})
    BY TheGreater
  <2> QED
    BY <2>1
<1>2. PICK smaller \in Int : smaller = Min({first, second}) /\ smaller <= second
  <2>1. Min({first, second}) \in {first, second} /\ Min({first, second}) <= second
    BY TheLess
  <2> QED
    BY <2>1
<1>3. first > 0 /\ second > 0 /\ 200 * larger + smaller < 2 * smaller * (110 + 1)
  BY <1>1, <1>2 DEF Comparable
<1>4. ~(second * 4 < first * 1) /\ ~(first < 1) /\ ~(second < 1)
  BY <1>1, <1>2, <1>3
<1>5. WorkloadGate(first, second, 1, <<1, 4>>)
        = IF first < 1 \/ second < 1 THEN "too few" ELSE IF second * 4 < first * 1 THEN "stopped" ELSE "ok"
  BY DEF WorkloadGate
<1> QED
  BY <1>4, <1>5

LEMMA GapFiguresHold ==
  ASSUME LineInv, ShownInv
  PROVE  GapFigures
<1>1. PICK first \in Int : first = Count(shown.changes, LAMBDA t : t < (windowFrom + now) \div 2)
  <2> DEFINE S == {i \in DOMAIN shown.changes : shown.changes[i] < (windowFrom + now) \div 2}
  <2>1. S \in SUBSET (1..Len(shown.changes)) /\ Len(shown.changes) \in Nat
    BY DEF ShownInv
  <2> HIDE DEF S
  <2>2. Cardinality(S) \in Int
    BY <2>1, PlacesAreFinite
  <2> QED
    BY <2>2 DEF S, Count
<1>2. PICK second \in Int : second = Len(shown.changes) - first
  <2>1. PICK n \in Int : n = Len(shown.changes)
    BY DEF ShownInv
  <2>2. n - first \in Int
    OBVIOUS
  <2> QED
    BY <2>1, <2>2
<1>3. PICK limits : limits = [minEvents |-> 2, minDistinct |-> 2, spanMs |-> now - windowFrom,
                              minRate |-> 0, maxRate |-> AnyRate]
  OBVIOUS
<1>4. SamplerLiveness(shown.changes, limits) = "ok" =>
         \E g \in Range(Gaps(shown.changes)) : g.ms < GapStats(shown.changes).max[1]
  <2>1. limits.minEvents = 2 /\ limits.minDistinct = 2
    BY <1>3
  <2> QED
    BY <2>1, AliveVaries
<1>5. Comparable(<<first>>, <<second>>, 110) => WorkloadGate(first, second, 1, <<1, 4>>) = "ok"
  BY ComparedGoOn
<1> QED
  BY <1>1, <1>2, <1>3, <1>4, <1>5, GapStatsHold, NothingWithheld DEF GapFigures

-----------------------------------------------------------------------------
(* The answers timed, and the frames that arrived.                          *)

Lengths == Column(samples, LAMBDA s : s.ms)

LEMMA SummaryHolds ==
  ASSUME LineInv, LatencySummary(Lengths, 1).sufficient
  PROVE  LET digest == LatencySummary(Lengths, 1)
         IN  /\ digest.p50[1] <= digest.p90[1] /\ digest.p90[1] <= digest.p95[1]
             /\ digest.p95[1] <= digest.max[1] /\ digest.max[1] <= MaxAge
             /\ 2 * Count(samples, LAMBDA s : s.ms <= digest.p50[1]) >= Len(samples)
<1>1. PICK n \in Nat : samples \in Seq(Timing) /\ Len(samples) = n /\ DOMAIN samples = 1..n
  BY DEF LineInv, LineType
<1>2. \A i \in 1..n : samples[i].ms \in Int /\ 0 <= samples[i].ms /\ samples[i].ms <= MaxAge
  <2>1. \A i \in 1..n : samples[i] \in Timing
    BY <1>1
  <2>2. \A i \in 1..n : samples[i].ms \in Nat
    BY <2>1 DEF Timing
  <2>3. \A i \in 1..n : samples[i].ms <= MaxAge
    BY <1>1 DEF LineInv, KnownInv
  <2> QED
    BY <2>2, <2>3
<1>3. Lengths = [i \in 1..n |-> samples[i].ms]
  BY <1>1 DEF Lengths, Column
<1>4. Lengths \in Seq(Int) /\ Len(Lengths) = n /\ DOMAIN Lengths = 1..n /\ \A i \in 1..n : Lengths[i] = samples[i].ms
  <2>1. Lengths \in [1..n -> Int]
    BY <1>2, <1>3
  <2> QED
    BY <1>3, <2>1
<1>5. n # 0 /\ Lengths # <<>>
  <2>1. Len(Lengths) >= 1
    BY DEF LatencySummary
  <2> QED
    BY <1>4, <2>1
<1>6. PICK p50 \in Int, p90 \in Int, p95 \in Int, max \in Int : FiguresOf(Lengths, p50, p90, p95, max)
  <2>1. PICK zero \in Int, most \in Int : Within(Lengths, zero, most)
    <3>1. Within(Lengths, 0, MaxAge) /\ 0 \in Int /\ MaxAge \in Int
      BY <1>2, <1>4, BenchAssumption DEF Within
    <3> QED
      BY <3>1
  <2> QED
    BY <1>4, <1>5, <2>1, AllFigures
<1>7. LET s == LatencySummary(Lengths, 1)
      IN  s.p50 = <<p50>> /\ s.p90 = <<p90>> /\ s.p95 = <<p95>> /\ s.max = <<max>>
  <2>1. ~(Len(Lengths) < 1)
    BY <1>4, <1>5
  <2>2. LET s == LatencySummary(Lengths, 1)
        IN  /\ s.p50 = Percentile(Lengths, 1, 2) /\ s.p90 = Percentile(Lengths, 9, 10)
            /\ s.p95 = Percentile(Lengths, 19, 20) /\ s.max = Percentile(Lengths, 1, 1)
    BY <2>1 DEF LatencySummary
  <2> QED
    BY <1>6, <2>2 DEF FiguresOf
<1> DEFINE digest == LatencySummary(Lengths, 1)
<1>8. Count(samples, LAMBDA s : s.ms <= digest.p50[1]) = Cardinality(UpTo(Lengths, p50))
  <2> HIDE DEF digest
  <2>1. {i \in DOMAIN samples : samples[i].ms <= digest.p50[1]} = {i \in DOMAIN Lengths : Lengths[i] <= p50}
    BY <1>1, <1>4, <1>7 DEF digest
  <2> QED
    BY <2>1 DEF Count, UpTo
<1> HIDE DEF digest
<1>9. digest.p50[1] = p50 /\ digest.p90[1] = p90 /\ digest.p95[1] = p95 /\ digest.max[1] = max
  BY <1>7 DEF digest
<1>10. p50 <= p90 /\ p90 <= p95 /\ p95 <= max /\ 2 * Cardinality(UpTo(Lengths, p50)) >= n
  BY <1>4, <1>6 DEF FiguresOf
<1>11. max <= MaxAge
  BY <1>2, <1>4, <1>6 DEF FiguresOf
<1> QED
  BY <1>1, <1>8, <1>9, <1>10, <1>11 DEF digest

\* When the frames of the page's log came.
Came == Column(wireLog, LAMBDA e : e.t)

LEMMA CameFacts ==
  ASSUME BenchInv, PlacedInv
  PROVE  /\ Came \in Seq(Int) /\ InOrder(Came) /\ Within(Came, 0, now) /\ now \in Int /\ Gaps(Came) \in Seq(Gap)
         /\ Ascending(Came) = Came
<1>1. PICK n \in Nat : wireLog \in Seq(WireEntry) /\ Len(wireLog) = n /\ DOMAIN wireLog = 1..n
  BY DEF BenchInv, HostInv, WireInv
<1>2. \A i \in 1..n : wireLog[i].t \in Nat
  <2>1. \A i \in 1..n : wireLog[i] \in WireEntry
    BY <1>1
  <2> QED
    BY <2>1 DEF WireEntry
<1>3. Came = [i \in 1..n |-> wireLog[i].t]
  BY <1>1 DEF Came, Column
<1>4. Came \in Seq(Int) /\ DOMAIN Came = 1..n /\ \A i \in 1..n : Came[i] = wireLog[i].t
  <2>1. Came \in [1..n -> Int]
    BY <1>2, <1>3
  <2> QED
    BY <1>3, <2>1
<1>5. now \in Int
  BY DEF BenchInv, LineInv, LineType
<1>6. \A i, j \in DOMAIN Came : i < j => Came[i] <= Came[j]
  BY <1>1, <1>4 DEF PlacedInv
<1>7. Within(Came, 0, now)
  BY <1>1, <1>2, <1>4 DEF PlacedInv, Within
<1> QED
  BY <1>4, <1>5, <1>6, <1>7, SortedStays, GapsAre DEF InOrder

LEMMA HoleHolds ==
  ASSUME BenchInv, PlacedInv, ArrivalHole(wireLog, 1, 0) # None
  PROVE  LET hole == ArrivalHole(wireLog, 1, 0)
         IN  hole[1].ms = GapStats(Came).max[1] /\ hole[1].burst >= 1 /\ hole[1].toMs <= now
<1>1. Came \in Seq(Int) /\ InOrder(Came) /\ Within(Came, 0, now) /\ now \in Int /\ Gaps(Came) \in Seq(Gap)
  BY CameFacts
<1> DEFINE worst == FreezeReport(Came, <<>>).longest
           end == worst[1].atMs + worst[1].ms
           Together == {i \in DOMAIN Came : end <= Came[i] /\ Came[i] <= end + 0}
<1>2. /\ worst # None
      /\ ArrivalHole(wireLog, 1, 0)[1].ms = worst[1].ms
      /\ ArrivalHole(wireLog, 1, 0)[1].toMs = end
      /\ ArrivalHole(wireLog, 1, 0)[1].burst = Cardinality(Together)
  <2>1. Ascending(Column(wireLog, LAMBDA e : e.t)) = Came
    BY CameFacts DEF Came
  <2> HIDE DEF Came
  <2> QED
    BY <2>1 DEF ArrivalHole, Count
<1>3. Gaps(Came) # <<>>
  BY <1>2 DEF FreezeReport
<1>4. PICK p50 \in Int, p90 \in Int, p95 \in Int, max \in Int, g \in Gap :
         FiguresOf(GapLengths(Came), p50, p90, p95, max) /\ LongestIs(g, Came, max)
  <2>1. PICK zero \in Int : Within(Came, zero, now)
    BY <1>1
  <2> QED
    BY <1>1, <1>3, <2>1, LongestIsLast
<1>5. GapStats(Came).max = <<max>>
  BY <1>4 DEF GapStats, GapLengths, FiguresOf
<1>6. PICK k \in DOMAIN Gaps(Came) : g = Gaps(Came)[k]
  BY <1>4 DEF LongestIs
<1>7. worst[1] = g /\ g.ms = max
  BY <1>4 DEF LongestIs
<1>8. /\ k \in DOMAIN Came /\ k + 1 \in DOMAIN Came
      /\ g.atMs = Came[k] /\ g.ms = Came[k + 1] - Came[k] /\ Came[k] \in Int /\ Came[k + 1] \in Int
  <2>1. /\ k \in DOMAIN Came /\ k + 1 \in DOMAIN Came
        /\ g.atMs = Came[k] /\ g.ms = Came[k + 1] - Came[k]
    BY <1>1, <1>6, GapsAre
  <2> QED
    BY <1>1, <2>1
<1>9. end = Came[k + 1]
  <2> HIDE DEF worst
  <2> QED
    BY <1>7, <1>8
<1> HIDE DEF end, worst
<1>10. end <= now /\ end \in Int
  BY <1>1, <1>8, <1>9 DEF Within
<1>11. k + 1 \in Together
  BY <1>8, <1>9, <1>10
<1>12. Cardinality(Together) >= 1
  <2>1. Together \in SUBSET (1..Len(Came)) /\ Len(Came) \in Nat
    BY <1>1
  <2> HIDE DEF Together
  <2>2. IsFiniteSet(Together) /\ Cardinality(Together) \in Nat
    BY <2>1, PlacesAreFinite
  <2>3. Cardinality(Together) # 0
    BY <1>11, <2>2, FS_EmptySet
  <2> QED
    BY <2>2, <2>3
<1> QED
  BY <1>2, <1>5, <1>7, <1>10, <1>12 DEF worst

LEMMA LatencyFiguresHold ==
  ASSUME BenchInv, PlacedInv
  PROVE  LatencyFigures
<1>1. LineInv
  BY DEF BenchInv
<1> QED
  BY <1>1, SummaryHolds, HoleHolds DEF LatencyFigures, Lengths, Came

-----------------------------------------------------------------------------
(* The numbers of the frames that arrived.                                  *)

LEMMA IntervalHas ==
  ASSUME NEW lo \in Int, NEW hi \in Int, lo <= hi + 1
  PROVE  IsFiniteSet(lo..hi) /\ Cardinality(lo..hi) = hi - lo + 1
<1>1. IsFiniteSet(lo..hi) /\ Cardinality(lo..hi) = IF lo > hi THEN 0 ELSE hi - lo + 1
  BY FS_Interval
<1> QED
  BY <1>1

LEMMA ProbeFiguresHold ==
  ASSUME BenchInv, PlacedInv
  PROVE  ProbeFigures
<1> DEFINE ids == {wireLog[i].id : i \in DOMAIN wireLog}
           f == [i \in DOMAIN wireLog |-> wireLog[i].id]
<1>1. PICK n \in Nat : wireLog \in Seq(WireEntry) /\ Len(wireLog) = n /\ DOMAIN wireLog = 1..n
  BY DEF BenchInv, HostInv, WireInv
<1>2. \A i \in 1..n : wireLog[i].id \in 1..Frames
  BY <1>1, SentIsNumbered DEF BenchInv, HostInv, WireInv
<1>3. Frames \in Nat
  BY SentAreCounted DEF BenchInv, LineInv, LineType
<1>4. IsFiniteSet(1..n) /\ Cardinality(1..n) = n
  BY UpToHas
<1>5. f \in [1..n -> ids] /\ \A v \in ids : \E i \in 1..n : f[i] = v
  BY <1>1
<1>6. \A i, j \in 1..n : f[i] = f[j] => i = j
  <2>1. \A i, j \in 1..n : i < j => wireLog[i].id < wireLog[j].id
    BY <1>1 DEF PlacedInv
  <2>2. \A i \in 1..n : wireLog[i].id \in Int /\ f[i] = wireLog[i].id
    BY <1>1, <1>2, <1>3
  <2> HIDE DEF f
  <2> QED
    BY <2>1, <2>2
<1>7. ids \in SUBSET (1..Frames)
  BY <1>1, <1>2
<1> SUFFICES ASSUME ids # {}
             PROVE  LET probes == ProbeArrivals(Len(wireLog), <<Min(ids)>>, <<Max(ids)>>, 0)
                    IN  /\ probes.missing = <<Cardinality(Min(ids)..Max(ids) \ ids)>>
                        /\ probes.beforeFirstSeen = Cardinality(1..Min(ids) - 1)
  BY DEF ProbeFigures
<1> HIDE DEF ids, f
<1>8. IsFiniteSet(ids) /\ Cardinality(ids) = n
  <2>1. PICK places : /\ IsFiniteSet(places) /\ Cardinality(places) = n /\ f \in [places -> ids]
                      /\ \A i, j \in places : f[i] = f[j] => i = j
                      /\ \A v \in ids : \E i \in places : f[i] = v
    BY <1>4, <1>5, <1>6
  <2>2. IsFiniteSet(ids) /\ Cardinality(ids) = Cardinality(places)
    BY <2>1, AsMany
  <2> QED
    BY <2>1, <2>2
<1>9. n # 0
  BY <1>8, FS_EmptySet
<1>10. PICK lo \in 1..Frames : lo = Min(ids) /\ \A v \in ids : lo <= v
  <2>1. ids \in SUBSET Int /\ \A v \in ids : 0 <= v
    BY <1>3, <1>7
  <2>2. PICK zero \in Int : \A v \in ids : zero <= v
    BY <2>1
  <2>3. Min(ids) \in ids /\ \A v \in ids : Min(ids) <= v
    BY <2>1, <2>2, LeastOf
  <2> QED
    BY <1>7, <2>3
<1>11. PICK hi \in 1..Frames : hi = Max(ids) /\ hi \in ids /\ \A v \in ids : v <= hi
  <2>1. ids \in SUBSET Int /\ \A v \in ids : v <= Frames
    BY <1>3, <1>7
  <2>2. Max(ids) \in ids /\ \A v \in ids : v <= Max(ids)
    <3>1. PICK top \in Int : \A v \in ids : v <= top
      BY <1>3, <2>1
    <3> QED
      BY <2>1, <3>1, GreatestOf
  <2> QED
    BY <1>7, <2>2
<1>12. lo <= hi /\ lo \in Int /\ hi \in Int /\ 1 <= lo
  BY <1>3, <1>10, <1>11
<1>13. ids \in SUBSET (lo..hi)
  BY <1>3, <1>7, <1>10, <1>11
<1>14. IsFiniteSet(lo..hi) /\ Cardinality(lo..hi) = hi - lo + 1
  BY <1>12, IntervalHas
<1>15. PICK stretch \in Int, all \in SUBSET Int :
          /\ all = lo..hi /\ stretch = hi - lo + 1
          /\ IsFiniteSet(all) /\ Cardinality(all) = stretch /\ ids \in SUBSET all
  <2>1. PICK stretch \in Int : stretch = hi - lo + 1
    BY <1>12
  <2>2. lo..hi \in SUBSET Int
    OBVIOUS
  <2> QED
    BY <1>13, <1>14, <2>1, <2>2
<1>16. n <= stretch /\ Cardinality(all \ ids) = stretch - n
  <2>1. Cardinality(ids) <= Cardinality(all)
    BY <1>15, FS_Subset
  <2>2. Cardinality(all \ ids) = Cardinality(all) - Cardinality(all \cap ids)
    BY <1>15, FS_Difference
  <2>3. all \cap ids = ids
    BY <1>15
  <2> QED
    BY <1>8, <1>15, <2>1, <2>2, <2>3
<1>17. Cardinality(1..lo - 1) = lo - 1
  <2>1. lo - 1 \in Nat
    BY <1>12
  <2> QED
    BY <2>1, UpToHas
<1>18. LET p == ProbeArrivals(n, <<lo>>, <<hi>>, 0)
       IN  p.missing = <<stretch - n>> /\ p.beforeFirstSeen = lo - 1
  BY <1>9, <1>12, <1>15, <1>16 DEF ProbeArrivals, None
<1> QED
  BY <1>1, <1>10, <1>11, <1>15, <1>16, <1>17, <1>18

-----------------------------------------------------------------------------
(* The account of the inputs.                                               *)

InWindow == {h \in DOMAIN hostWire : hostWire[h].t >= windowFrom}
Inputs == {e \in HostFrame \union HostInput : e.kind = "input"}
Older == {e \in HostFrame \union HostInput : e.sent < windowFrom}
LateIn == {h \in ArrivedIn : hostWire[h].sent < windowFrom}
SentIn == {i \in DOMAIN inputLog : inputLog[i].t >= windowFrom}
Accounted == Kept(Windowed, LAMBDA e : e.kind = "input")

\* How many inputs the host received in the window, and how many of them were made
\* before it.
LEMMA AccountedAre ==
  ASSUME LineInv
  PROVE  /\ Len(Accounted) = Cardinality(ArrivedIn)
         /\ Count(Accounted, LAMBDA e : e.sent < windowFrom) = Cardinality(LateIn)
<1> DEFINE M == HostFrame \union HostInput
           log == Windowed
           J == {k \in DOMAIN log : log[k].kind = "input"}
<1>1. hostWire \in Seq(M) /\ InWindow \in SUBSET DOMAIN hostWire
  BY DEF LineInv, LineType, InWindow
<1>2. log = KeptAt(hostWire, InWindow)
  <2>1. [i \in DOMAIN hostWire |-> IF i \in InWindow THEN <<hostWire[i]>> ELSE <<>>]
          = [i \in DOMAIN hostWire |-> IF hostWire[i].t >= windowFrom THEN <<hostWire[i]>> ELSE <<>>]
    BY DEF InWindow
  <2> QED
    BY <2>1 DEF Windowed, Kept, KeptAt
<1>3. Accounted = KeptAt(log, J)
  <2>1. [k \in DOMAIN log |-> IF k \in J THEN <<log[k]>> ELSE <<>>]
          = [k \in DOMAIN log |-> IF log[k].kind = "input" THEN <<log[k]>> ELSE <<>>]
    OBVIOUS
  <2> HIDE DEF J
  <2> QED
    BY <2>1 DEF Accounted, Kept, KeptAt
<1>4. log \in Seq(M) /\ J \in SUBSET DOMAIN log
  BY <1>1, <1>2, KeptAre
<1>5. \A k \in DOMAIN log : log[k] \in M
  BY <1>4
<1> HIDE DEF log
<1>6. \A T : Among(log, DOMAIN log, T) = Among(hostWire, InWindow, T)
  <2> HIDE DEF M
  <2> QED
    BY <1>1, <1>2, KeptCounts
<1>7. \A T : Among(Accounted, DOMAIN Accounted, T) = Among(log, J, T)
  <2> HIDE DEF M, J
  <2> QED
    BY <1>3, <1>4, KeptCounts
<1>8. \A h \in DOMAIN hostWire : hostWire[h] \in M
  BY <1>1
<1>9. Len(Accounted) = Cardinality(ArrivedIn)
  <2>1. Len(Accounted) = Cardinality(J)
    <3> HIDE DEF M, J
    <3> QED
      BY <1>3, <1>4, KeptLength
  <2>2. J = {k \in DOMAIN log : log[k] \in Inputs}
    BY <1>5 DEF Inputs
  <2>3. ArrivedIn = {h \in InWindow : hostWire[h] \in Inputs}
    BY <1>8 DEF ArrivedIn, InWindow, Inputs
  <2> QED
    BY <1>6, <2>1, <2>2, <2>3 DEF Among
<1>10. Count(Accounted, LAMBDA e : e.sent < windowFrom) = Cardinality(LateIn)
  <2>1. Accounted \in Seq(M)
    <3> HIDE DEF M, J
    <3> QED
      BY <1>3, <1>4, KeptAre
  <2>2. {k \in DOMAIN Accounted : Accounted[k].sent < windowFrom} = {k \in DOMAIN Accounted : Accounted[k] \in Older}
    <3>1. \A k \in DOMAIN Accounted : Accounted[k] \in M
      BY <2>1
    <3> QED
      BY <3>1 DEF Older
  <2>3. {k \in J : log[k] \in Older} = {k \in DOMAIN log : log[k] \in Inputs \cap Older}
    BY <1>5 DEF Inputs
  <2>4. LateIn = {h \in InWindow : hostWire[h] \in Inputs \cap Older}
    BY <1>8 DEF LateIn, ArrivedIn, InWindow, Inputs, Older
  <2> HIDE DEF J
  <2>5. Count(Accounted, LAMBDA e : e.sent < windowFrom) = Among(Accounted, DOMAIN Accounted, Older)
    BY <2>2 DEF Count, Among
  <2>6. Among(log, J, Older) = Among(log, DOMAIN log, Inputs \cap Older)
    BY <2>3 DEF Among
  <2>7. Cardinality(LateIn) = Among(hostWire, InWindow, Inputs \cap Older)
    BY <2>4 DEF Among
  <2> QED
    BY <1>6, <1>7, <2>5, <2>6, <2>7
<1> QED
  BY <1>9, <1>10

\* Those made in it were sent in it.
LEMMA OthersWereSent ==
  ASSUME LineInv, HostInv, QueueInv, AccountInv
  PROVE  \E received, late, sent \in Nat :
            /\ received = Cardinality(ArrivedIn) /\ late = Cardinality(LateIn) /\ sent = Len(Sent)
            /\ late <= received /\ received - late <= sent
<1> DEFINE Others == ArrivedIn \ LateIn
           f == [h \in Others |-> hostWire[h].input]
<1>1. PICK n \in Nat : hostWire \in Seq(HostFrame \union HostInput) /\ Len(hostWire) = n /\ DOMAIN hostWire = 1..n
  BY DEF LineInv, LineType
<1>2. PICK m \in Nat : inputLog \in Seq(Entry) /\ Len(inputLog) = m /\ DOMAIN inputLog = 1..m
  BY DEF LineInv, LineType
<1>3. /\ \A h \in 1..n : hostWire[h].kind = "input" => hostWire[h].input \in Nat /\ hostWire[h].sent \in Nat
      /\ windowFrom \in Nat
  BY <1>1, HostElements DEF LineInv, AccountInv
<1>4. ArrivedIn \in SUBSET (1..n) /\ LateIn \in SUBSET ArrivedIn
  BY <1>1 DEF ArrivedIn, LateIn
<1>5. IsFiniteSet(ArrivedIn) /\ Cardinality(ArrivedIn) \in Nat
  BY <1>4, PlacesAreFinite
<1>6. IsFiniteSet(LateIn) /\ Cardinality(LateIn) \in Nat /\ Cardinality(LateIn) <= Cardinality(ArrivedIn)
  BY <1>4, <1>5, FS_Subset, FS_CardinalityType
<1>7. Cardinality(Others) = Cardinality(ArrivedIn) - Cardinality(LateIn)
  <2>1. Cardinality(Others) = Cardinality(ArrivedIn) - Cardinality(ArrivedIn \cap LateIn)
    BY <1>5, FS_Difference
  <2>2. ArrivedIn \cap LateIn = LateIn
    BY <1>4
  <2> QED
    BY <2>1, <2>2
<1>8. SentIn \in SUBSET (1..m)
  BY <1>2 DEF SentIn
<1>9. IsFiniteSet(SentIn) /\ Cardinality(SentIn) \in Nat
  BY <1>8, PlacesAreFinite
<1>10. Len(Sent) = Cardinality(SentIn)
  <2>1. Sent = KeptAt(inputLog, SentIn)
    <3>1. [i \in DOMAIN inputLog |-> IF i \in SentIn THEN <<inputLog[i]>> ELSE <<>>]
            = [i \in DOMAIN inputLog |-> IF inputLog[i].t >= windowFrom THEN <<inputLog[i]>> ELSE <<>>]
      BY DEF SentIn
    <3> QED
      BY <3>1 DEF Sent, Since, Kept, KeptAt
  <2> QED
    BY <1>2, <1>8, <2>1, KeptLength
<1>11. f \in [Others -> SentIn]
  <2> SUFFICES ASSUME NEW h \in Others PROVE hostWire[h].input \in SentIn
    OBVIOUS
  <2>1. h \in DOMAIN hostWire /\ hostWire[h].kind = "input" /\ ~(hostWire[h].sent < windowFrom)
    BY DEF ArrivedIn, LateIn
  <2>2. Logged(hostWire[h].input, hostWire[h].id, hostWire[h].sent, inputLog)
    BY <2>1 DEF HostInv, ArrivedInv
  <2>3. hostWire[h].sent >= windowFrom
    BY <1>1, <1>3, <2>1
  <2>4. hostWire[h].input \in DOMAIN inputLog /\ inputLog[hostWire[h].input].t = hostWire[h].sent
    BY <2>2 DEF Logged
  <2> QED
    BY <2>3, <2>4 DEF SentIn
<1>12. \A g, h \in Others : f[g] = f[h] => g = h
  <2> SUFFICES ASSUME NEW g \in Others, NEW h \in Others, hostWire[g].input = hostWire[h].input PROVE g = h
    OBVIOUS
  <2>1. g \in 1..n /\ hostWire[g].kind = "input" /\ h \in 1..n /\ hostWire[h].kind = "input"
    BY <1>1 DEF ArrivedIn
  <2>2. ~(g < h) /\ ~(h < g)
    BY <1>1, <1>3, <2>1 DEF QueueInv
  <2> QED
    BY <2>1, <2>2
<1>13. Cardinality(Others) <= Cardinality(SentIn)
  <2> HIDE DEF Others, f
  <2> QED
    BY <1>9, <1>11, <1>12, NoMore
<1> QED
  BY <1>5, <1>6, <1>7, <1>9, <1>10, <1>13

LEMMA AccountFiguresHold ==
  ASSUME LineInv, HostInv, AnswerInv, QueueInv, AccountInv
  PROVE  AccountFigures
<1>1. PICK received \in Nat, late \in Nat, sent \in Nat :
         /\ received = Cardinality(ArrivedIn) /\ late = Cardinality(LateIn) /\ sent = Len(Sent)
         /\ late <= received /\ received - late <= sent
  BY OthersWereSent
<1>2. /\ Len(Accounted) = received /\ Count(Accounted, LAMBDA e : e.sent < windowFrom) = late
  BY <1>1, AccountedAre
<1>3. PICK answered \in Nat : answered = Cardinality(AnsweredIn) /\ Count(answers, LAMBDA e : e.t >= windowFrom) = answered
  <2>1. AnsweredIn \in SUBSET (1..Len(answers)) /\ Len(answers) \in Nat
    BY DEF AnsweredIn, AnswerInv
  <2>2. Cardinality(AnsweredIn) \in Nat
    BY <2>1, PlacesAreFinite
  <2>3. Count(answers, LAMBDA e : e.t >= windowFrom) = Cardinality(AnsweredIn)
    BY DEF Count, AnsweredIn
  <2> QED
    BY <2>2, <2>3
<1>4. PICK waited \in Nat, waits \in Nat :
         /\ waited <= 1 /\ waits <= 1 /\ displaced \in Nat
         /\ received + waited = answered + displaced + waits
  <2>1. PICK waited \in {0, 1} : Cardinality(ArrivedIn) + waited = Cardinality(AnsweredIn) + displaced + Len(unanswered)
    BY DEF AccountInv
  <2>2. PICK waits \in Nat : waits = Len(unanswered) /\ waits <= 1
    BY DEF LineInv, LineType
  <2>3. displaced \in Nat
    BY DEF AccountInv
  <2>4. waited \in Nat /\ waited <= 1
    BY <2>1
  <2>5. received + waited = answered + displaced + waits
    BY <1>1, <1>3, <2>1, <2>2
  <2> QED
    BY <2>2, <2>3, <2>4, <2>5
<1>5. PICK taken \in Int : taken = Min({received, sent}) /\ taken <= received /\ taken >= received - late
  <2>1. Min({received, sent}) \in {received, sent} /\ Min({received, sent}) <= received
    BY TheLess
  <2> QED
    BY <1>1, <2>1
<1>6. PICK zero \in Int, open \in Int : zero = 0 /\ open = taken - answered
  OBVIOUS
<1>7. PICK left \in Int : left = Max({zero, open}) /\ left \in {zero, open} /\ zero <= left /\ open <= left
  BY TheGreater
<1>8. PICK over \in Int : over = left - displaced
  BY <1>4
<1>9. PICK rest \in Int : rest = Max({zero, over}) /\ rest \in {zero, over}
  BY TheGreater
<1>10. rest <= 1
  BY <1>4, <1>5, <1>6, <1>7, <1>8, <1>9
<1>11. displaced <= left + 1 + late
  BY <1>4, <1>5, <1>6, <1>7
<1> DEFINE account == Coverage(sent, received, answered, displaced, 0)
<1>12. account.unanswered = left
  BY <1>5, <1>6, <1>7 DEF Coverage
<1>13. account.unaccounted # None => account.unaccounted = <<rest>>
  BY <1>4, <1>5, <1>6, <1>7, <1>8, <1>9 DEF Coverage
<1> HIDE DEF account
<1>14. account.unaccounted # None => account.unaccounted[1] <= 1
  BY <1>10, <1>13
<1>15. displaced <= account.unanswered + 1 + late
  BY <1>11, <1>12
<1> QED
  BY <1>1, <1>2, <1>3, <1>14, <1>15 DEF AccountFigures, Accounted, account

\* The figures freezeReport, gapStats, latencySummary, arrivalHole, probeArrivals and
\* coverage read from one log never contradict each other, and what they call missing
\* is missing.
THEOREM FiguresAlwaysHold == BenchSpec => []FiguresHold
<1>1. BenchInv /\ ReportInv => FiguresHold
  <2> SUFFICES ASSUME BenchInv, ReportInv PROVE FiguresHold
    OBVIOUS
  <2>1. /\ LineInv /\ HostInv
        /\ AnswerInv /\ ShownInv /\ PlacedInv /\ QueueInv /\ AccountInv
    BY DEF BenchInv, ReportInv
  <2> QED
    BY <2>1, GapFiguresHold, LatencyFiguresHold, ProbeFiguresHold, AccountFiguresHold DEF FiguresHold
<1> QED
  BY <1>1, ReportAlways, PTL

-----------------------------------------------------------------------------
(* Types                                                                   *)

ShellAt == {"none", "clear", "touch", "look", "compare", "meta", "read", "answer"}
PhaseAt == {"off", "preflight", "load", "storm", "pair", "analyse", "await", "report",
            "summary", "done", "failed"}
Shell == [pc : ShellAt, polls : Nat, size : Nat, read : Seq(Nat)]
Pair == [host : Seq(Nat), client : Nat, from : Nat, to : Nat]
Result == [primary : Int, best : Int, never : Int, static : BOOLEAN]
Checkpoint == [failed : BOOLEAN, pairs : Nat, storm : Nat, analysis : Seq(Result)]

\* Something that is there or not.
Perhaps(s, S) == s = Absent \/ (s = <<s[1]>> /\ s[1] \in S)

GameType ==
  /\ shot \in Nat /\ drawn \in 0..shot /\ page \in {"up", "gone"} /\ trigger \in BOOLEAN
  /\ Perhaps(file, Seq(Nat)) /\ Perhaps(writing, [left : 1..Whole, removed : BOOLEAN])
  /\ writing # Absent /\ ~writing[1].removed => file # Absent

CaptureType ==
  /\ phase \in PhaseAt /\ shell \in Shell
  /\ expected \in Nat /\ since \in 0..shot /\ storm \in 0..Zooms /\ Perhaps(canvas, Nat)
  /\ pairs \in Seq(Pair) /\ checkpoints \in Seq(Checkpoint)

-----------------------------------------------------------------------------
(* The inductive invariants                                                *)

\* What has been counted where the comparison of bursts stands.
CountInv ==
  /\ phase \notin {"pair", "analyse", "failed"} => pairs = <<>>
  /\ phase = "pair" => Len(pairs) < Burst
  /\ phase = "analyse" => Len(pairs) = Burst
  /\ phase \in {"preflight", "load", "storm"} => checkpoints = <<>>
  /\ phase \in {"pair", "analyse"} =>
        Len(checkpoints) < Checkpoints /\ (checkpoints # <<>> => storm = Zooms)
  /\ phase = "await" => Len(checkpoints) = 1
  /\ phase \in {"report", "summary", "done"} => Len(checkpoints) = Checkpoints
  /\ phase \in {"summary", "done"} => report = checkpoints
  /\ \A i \in DOMAIN checkpoints :
        /\ checkpoints[i].failed <=> checkpoints[i].pairs # Burst
        /\ i > 1 => checkpoints[i].storm = Zooms

\* Once the shell has removed the last picture, whatever the file holds and
\* whatever was read of it was presented since the pair was begun.
OfTheWindow == since + 1..shot
WindowInv ==
  /\ shell.pc \in {"clear", "touch", "look", "compare", "meta"} => shell.read = <<>>
  /\ shell.pc \notin {"none", "clear"} =>
        /\ file # Absent => Range(file[1]) \subseteq OfTheWindow
        /\ writing # Absent /\ ~writing[1].removed => shot > since
        /\ Range(shell.read) \subseteq OfTheWindow
  /\ \A k \in DOMAIN pairs : Range(pairs[k].host) \subseteq pairs[k].from + 1..pairs[k].to

\* No capture failed so far, and the preflight's picture, if there was one, was
\* whole.
NoneFailed == \A i \in DOMAIN checkpoints : ~checkpoints[i].failed
Clean == phase # "failed" /\ NoneFailed /\ (phase = "preflight" \/ expected = Whole)

\* Then there is no picture being written that nobody waits for, and what is
\* there is of one picture.
OnePicture ==
  /\ Range(shell.read) \subseteq Range(file[1]) /\ Len(shell.read) <= Len(file[1])
  /\ \A m, n \in DOMAIN file[1] : file[1][m] = file[1][n]
  /\ writing = Absent => Len(file[1]) = Whole
  /\ writing # Absent =>
        /\ ~writing[1].removed /\ writing[1].left + Len(file[1]) = Whole
        /\ \A m \in DOMAIN file[1] : file[1][m] = shot

Calm == ~trigger /\ writing = Absent
ShellHolds ==
  /\ shell.pc \in {"none", "clear", "touch"} => Calm
  /\ shell.pc = "touch" => file = Absent
  /\ shell.pc \in {"look", "compare", "meta", "read", "answer"} =>
        /\ trigger => file = Absent
        /\ file = Absent => writing = Absent /\ shell.read = <<>>
        /\ file # Absent => OnePicture

PictureInv ==
  /\ Clean => ShellHolds
  /\ expected = Whole /\ NoneFailed =>
        \A k \in DOMAIN pairs :
           /\ Len(pairs[k].host) = Whole
           /\ \A m, n \in 1..Whole : pairs[k].host[m] = pairs[k].host[n]

\* The captures of the walk and their places.
StepType == {Steps[i] : i \in DOMAIN Steps}
Row == [client : Nat, natives : Seq(Nat), from : Nat]
NotBefore(r) == \A k \in DOMAIN r.natives : r.natives[k] >= r.from
Captured(r) == Len(r.natives) = Grabs /\ NotBefore(r)
InStep == {"act", "shoot", "grab", "analyse"}

WalkInv ==
  /\ row \in Row /\ row.from <= shot /\ NotBefore(row)
  /\ rows \in Seq(Row) /\ \A i \in DOMAIN rows : Captured(rows[i])
  /\ results \in Seq([id : {s.id : s \in StepType}, rows : Seq(Row)]) /\ Len(results) <= Len(Selected)
  /\ \A i \in DOMAIN results :
        /\ results[i].id = Selected[i].id /\ Len(results[i].rows) = Selected[i].captures
        /\ \A j \in DOMAIN results[i].rows : Captured(results[i].rows[j])
  /\ walk \in InStep =>
        /\ step \in 1..Len(Selected) /\ Len(results) = step - 1
        /\ Len(rows) < Selected[step].captures
  /\ walk = "grab" => Len(row.natives) < Grabs
  /\ walk = "analyse" => Len(row.natives) = Grabs
  /\ walk = "start" => rows = <<>> /\ results = <<>> /\ Selected # <<>>
  /\ walk \in {"summary", "done"} => Len(results) = Len(Selected)
  /\ walk = "done" => summary = results

-----------------------------------------------------------------------------
(* Figures                                                                 *)

LEMMA LeastOfNats ==
  ASSUME NEW S \in SUBSET Nat, S # {}
  PROVE  Min(S) \in S /\ \A n \in S : Min(S) <= n
BY LeastElement DEF Min

LEMMA MismatchSize ==
  ASSUME NEW h, NEW c
  PROVE  IsFiniteSet(Mismatch(h, c)) /\ Cardinality(Mismatch(h, c)) \in Nat
<1>1. Mismatch(h, c) \subseteq Places /\ IsFiniteSet(Places)
  BY ParityAssumption DEF Mismatch
<1> QED
  BY <1>1, FS_Subset, FS_CardinalityType

\* What no picture of the game shows is part of what each differs by.
LEMMA NeverSeenSize ==
  ASSUME NEW hosts, NEW i \in DOMAIN hosts, NEW c
  PROVE  /\ NeverSeen(c, hosts) \subseteq Mismatch(hosts[i], c)
         /\ Cardinality(NeverSeen(c, hosts)) <= Cardinality(Mismatch(hosts[i], c))
<1>1. NeverSeen(c, hosts) \subseteq Mismatch(hosts[i], c)
  BY DEF NeverSeen
<1> QED
  BY <1>1, MismatchSize, FS_Subset

LEMMA BestIsLeast ==
  ASSUME NEW hosts, NEW clients, DOMAIN hosts # {}, DOMAIN clients # {}
  PROVE  /\ BestMismatch(hosts, clients) \in Nat
         /\ \E i \in DOMAIN hosts, j \in DOMAIN clients :
              BestMismatch(hosts, clients) = Cardinality(Mismatch(hosts[i], clients[j]))
         /\ \A i \in DOMAIN hosts, j \in DOMAIN clients :
              BestMismatch(hosts, clients) <= Cardinality(Mismatch(hosts[i], clients[j]))
<1> DEFINE S == {Cardinality(Mismatch(hosts[i], clients[j])) :
                   i \in DOMAIN hosts, j \in DOMAIN clients}
<1>1. S \in SUBSET Nat /\ S # {}
  BY MismatchSize
<1>2. Min(S) \in S /\ \A n \in S : Min(S) <= n
  <2> HIDE DEF S
  <2> QED
    BY <1>1, LeastOfNats
<1>3. BestMismatch(hosts, clients) = Min(S)
  BY DEF BestMismatch
<1>4. \E i \in DOMAIN hosts, j \in DOMAIN clients :
        Min(S) = Cardinality(Mismatch(hosts[i], clients[j]))
  <2>1. \A x : x \in S => \E i \in DOMAIN hosts, j \in DOMAIN clients :
                            x = Cardinality(Mismatch(hosts[i], clients[j]))
    OBVIOUS
  <2> HIDE DEF S
  <2> QED
    BY <2>1, <1>2
<1>5. \A i \in DOMAIN hosts, j \in DOMAIN clients :
        Min(S) <= Cardinality(Mismatch(hosts[i], clients[j]))
  <2>1. \A i \in DOMAIN hosts, j \in DOMAIN clients :
          Cardinality(Mismatch(hosts[i], clients[j])) \in S
    OBVIOUS
  <2> HIDE DEF S
  <2> QED
    BY <2>1, <1>2
<1>6. Min(S) \in Nat
  <2> HIDE DEF S
  <2> QED
    BY <1>1, <1>2
<1> HIDE DEF S
<1> QED
  BY <1>3, <1>4, <1>5, <1>6

LEMMA OnlyOne ==
  ASSUME NEW s, Cardinality(Range(s)) = 1, IsFiniteSet(Range(s))
  PROVE  \A i, j \in DOMAIN s : s[i] = s[j]
<1>1. \E x : Range(s) = {x}
  BY FS_Singleton
<1>2. \A i \in DOMAIN s : s[i] \in Range(s)
  BY DEF Range
<1> QED
  BY <1>1, <1>2

LEMMA SurjectiveFinite ==
  ASSUME NEW S, IsFiniteSet(S), NEW f, f \in [S -> Range(f)]
  PROVE  IsFiniteSet(Range(f))
<1>1. f \in Surjection(S, Range(f))
  BY DEF Range, Surjection
<1> QED
  BY <1>1, FS_Surjection

\* The figures of one burst do not contradict each other.
Agrees(f) ==
  /\ f.best <= f.primary /\ f.never <= f.primary
  /\ f.static => f.best = f.primary /\ f.never = f.primary

LEMMA BestOfSame ==
  ASSUME NEW hosts, NEW clients, DOMAIN hosts # {}, DOMAIN clients # {}, NEW m,
         \A i \in DOMAIN hosts, j \in DOMAIN clients : Cardinality(Mismatch(hosts[i], clients[j])) = m
  PROVE  BestMismatch(hosts, clients) = m
BY BestIsLeast

LEMMA FiguresAgreeWithEachOther ==
  ASSUME NEW n \in Nat \ {0}, NEW hosts, NEW clients,
         NEW V, hosts \in [1..n -> V], clients \in [1..n -> V]
  PROVE  Figures(hosts, clients) \in Result /\ Agrees(Figures(hosts, clients))
<1> DEFINE f == Figures(hosts, clients)
           primary == Cardinality(Mismatch(hosts[1], clients[1]))
           best == BestMismatch(hosts, clients)
           never == Cardinality(NeverSeen(clients[1], hosts))
<1>1. 1 \in DOMAIN hosts /\ 1 \in DOMAIN clients /\ DOMAIN hosts = 1..n /\ DOMAIN clients = 1..n
  OBVIOUS
<1>2. f.primary = primary /\ f.best = best /\ f.never = never
  BY DEF Figures
<1>3. best <= primary /\ best \in Nat /\ primary \in Nat
  <2>1. DOMAIN hosts # {} /\ DOMAIN clients # {}
    BY <1>1
  <2>2. best <= primary /\ best \in Nat
    BY <1>1, <2>1, BestIsLeast
  <2> QED
    BY <2>2, MismatchSize
<1>4. never <= primary /\ never \in Nat
  <2>1. NeverSeen(clients[1], hosts) \subseteq Mismatch(hosts[1], clients[1]) /\ never <= primary
    BY <1>1, NeverSeenSize
  <2> QED
    BY <2>1, MismatchSize, FS_Subset, FS_CardinalityType
<1>5. ASSUME f.static PROVE best = primary /\ never = primary
  <2>1. Cardinality(Range(hosts)) = 1 /\ Cardinality(Range(clients)) = 1
    BY <1>5 DEF Figures
  <2>2. IsFiniteSet(Range(hosts)) /\ IsFiniteSet(Range(clients))
    <3>1. IsFiniteSet(1..n)
      BY FS_Interval
    <3>2. hosts \in [1..n -> Range(hosts)] /\ clients \in [1..n -> Range(clients)]
      BY DEF Range
    <3> QED
      BY <3>1, <3>2, SurjectiveFinite
  <2>3. /\ \A i \in DOMAIN hosts : hosts[i] = hosts[1]
        /\ \A j \in DOMAIN clients : clients[j] = clients[1]
    BY <2>1, <2>2, <1>1, OnlyOne
  <2>4. NeverSeen(clients[1], hosts) = Mismatch(hosts[1], clients[1])
    BY <2>3, <1>1 DEF NeverSeen, Mismatch
  <2>5. \A i \in DOMAIN hosts, j \in DOMAIN clients : Cardinality(Mismatch(hosts[i], clients[j])) = primary
    BY <2>3
  <2>6. best = primary
    BY <2>5, <1>1, BestOfSame
  <2> QED
    BY <2>4, <2>6
<1>6. f \in Result
  BY <1>3, <1>4 DEF Figures, Result
<1> QED
  BY <1>2, <1>3, <1>4, <1>5, <1>6 DEF Agrees

\* The figures of a capture of the walk: a page's picture against its burst.
LEMMA NativeAgrees ==
  ASSUME NEW c, NEW hosts, NEW n \in Nat \ {0}, DOMAIN hosts = 1..n
  PROVE  LET native == BestNative(c, hosts)
         IN  /\ Cardinality(NeverSeen(c, hosts)) <= native.diff
             /\ native.diff = Figures(hosts, <<c>>).best
             /\ Other(c, hosts) \subseteq Mismatch(native.native, c)
<1> DEFINE Diff(i) == Cardinality(Mismatch(hosts[i], c))
           least == Min({Diff(i) : i \in DOMAIN hosts})
           first == {i \in DOMAIN hosts : Diff(i) = least}
           S == {Diff(i) : i \in DOMAIN hosts}
<1>1. /\ least \in S
      /\ \A i \in DOMAIN hosts : least <= Diff(i)
  <2>1. S \in SUBSET Nat /\ S # {} /\ \A i \in DOMAIN hosts : Diff(i) \in S
    BY MismatchSize
  <2>2. least = Min(S)
    OBVIOUS
  <2>3. Min(S) \in S /\ \A m \in S : Min(S) <= m
    <3> HIDE DEF S
    <3> QED
      BY <2>1, LeastOfNats
  <2> HIDE DEF S, Diff, least
  <2> QED
    BY <2>1, <2>2, <2>3
<1>2. first \in SUBSET Nat /\ first # {}
  <2>1. \E i \in DOMAIN hosts : least = Diff(i)
    BY <1>1
  <2> HIDE DEF least, Diff
  <2> QED
    BY <2>1
<1>3. Min(first) \in first
  <2> HIDE DEF first
  <2> QED
    BY <1>2, LeastOfNats
<1>4. Min(first) \in DOMAIN hosts /\ least = Cardinality(Mismatch(hosts[Min(first)], c))
  BY <1>3
<1>5. BestNative(c, hosts) = [diff |-> least, native |-> hosts[Min(first)]]
  BY DEF BestNative
<1>6. Cardinality(NeverSeen(c, hosts)) <= least
      /\ NeverSeen(c, hosts) \subseteq Mismatch(hosts[Min(first)], c)
  <2> HIDE DEF first, least
  <2> QED
    BY <1>4, NeverSeenSize
<1>7. least = Figures(hosts, <<c>>).best
  <2>1. DOMAIN <<c>> = {1} /\ <<c>>[1] = c
    OBVIOUS
  <2> DEFINE T == {Cardinality(Mismatch(hosts[i], <<c>>[j])) : i \in DOMAIN hosts, j \in DOMAIN <<c>>}
  <2>2. T = S
    BY <2>1
  <2>3. Figures(hosts, <<c>>).best = BestMismatch(hosts, <<c>>)
    BY DEF Figures
  <2>4. BestMismatch(hosts, <<c>>) = Min(T)
    BY DEF BestMismatch
  <2>5. least = Min(S)
    OBVIOUS
  <2> HIDE DEF least, S, T
  <2> QED
    BY <2>2, <2>3, <2>4, <2>5
<1>8. Other(c, hosts) \subseteq NeverSeen(c, hosts)
  BY DEF Other
<1> HIDE DEF least, first
<1>9. BestNative(c, hosts).diff = least /\ BestNative(c, hosts).native = hosts[Min(first)]
  BY <1>5
<1> QED
  BY <1>6, <1>7, <1>8, <1>9

-----------------------------------------------------------------------------
(* Types are kept                                                          *)

\* Who moves.
GameMoves == GameNext /\ UNCHANGED <<qaVars, walkVars>>
QAMoves == QANext /\ UNCHANGED walkVars
WalkMoves == WalkNext /\ UNCHANGED qaVars

LEMMA SomeoneMoves ==
  ASSUME Next
  PROVE  GameMoves \/ QAMoves \/ WalkMoves
BY DEF Next, GameMoves, QAMoves, WalkMoves

\* What the comparison of bursts and the walk do to the game.
LEMMA WalkTouches ==
  ASSUME GameType, WalkMoves
  PROVE  UNCHANGED <<shot, page, trigger, file, writing>> /\ drawn' \in 0..shot
<1>1. CASE Screenshot
  BY <1>1 DEF Screenshot, Shows, GameType
<1>2. CASE UNCHANGED gameVars
  BY <1>2 DEF gameVars, GameType
<1> QED
  BY <1>1, <1>2 DEF WalkMoves, WalkNext

LEMMA GameTouched ==
  ASSUME GameType, QAMoves \/ WalkMoves \/ UNCHANGED vars
  PROVE  /\ shot' = shot /\ page' = page /\ drawn' \in 0..shot
         /\ \/ UNCHANGED <<trigger, file, writing>>
            \/ /\ shell.pc = "clear" /\ file' = Absent /\ trigger' = trigger
               /\ writing' = IF writing = Absent THEN Absent
                             ELSE <<[writing[1] EXCEPT !.removed = TRUE]>>
            \/ shell.pc = "touch" /\ trigger' = TRUE /\ UNCHANGED <<file, writing>>
<1>1. CASE UNCHANGED vars
  BY <1>1 DEF vars, gameVars, GameType
<1>2. CASE WalkMoves
  BY <1>2, WalkTouches
<1>3. CASE QAMoves
  <2>1. CASE ReadCanvas
    BY <2>1 DEF ReadCanvas, Shows, GameType
  <2>2. CASE ShellClears
    BY <2>2 DEF ShellClears, GameType
  <2>3. CASE ShellTouches
    BY <2>3 DEF ShellTouches, GameType
  <2>4. CASE UNCHANGED gameVars
    BY <2>4 DEF gameVars, GameType
  <2>5. QANext
    BY <1>3 DEF QAMoves
  <2>6. CASE ShellSteps
    BY <2>2, <2>3, <2>4, <2>6 DEF ShellSteps, ShellLooks, ShellCompares, ShellTells, ShellReads
  <2>7. CASE Preflight \/ Load \/ StormBlows \/ StormUnderWay \/ BeginPair \/ EndPair
             \/ AnalyseBurst \/ StormEnds \/ WriteReport \/ Summarise
    BY <2>4, <2>7 DEF Preflight, Load, StormBlows, StormUnderWay, BeginPair, EndPair,
                     AnalyseBurst, StormEnds, WriteReport, Summarise
  <2> QED
    BY <2>1, <2>5, <2>6, <2>7 DEF QANext
<1> QED
  BY <1>1, <1>2, <1>3

LEMMA GameTypeStep ==
  ASSUME GameType, [Next]_vars
  PROVE  GameType'
<1> USE DEF GameType, Perhaps, Absent
<1>1. CASE GameMoves /\ Present
  <2>1. 1..Whole # {} /\ Whole \in 1..Whole
    BY ParityAssumption
  <2>0. writing = Absent /\ shot' = shot + 1 /\ trigger' = FALSE /\ UNCHANGED <<drawn, page>>
    BY <1>1 DEF Present
  <2>a. shot' \in Nat /\ drawn' \in 0..shot' /\ page' \in {"up", "gone"} /\ trigger' \in BOOLEAN
    <3>1. shot \in Nat /\ drawn \in 0..shot /\ page \in {"up", "gone"}
      OBVIOUS
    <3>2. shot' \in Nat /\ drawn' \in 0..shot' /\ page' \in {"up", "gone"}
      BY <2>0, <3>1
    <3>3. trigger' \in BOOLEAN
      BY <2>0
    <3> QED
      BY <3>2, <3>3
  <2>2. CASE UNCHANGED <<file, writing>>
    BY <2>a, <2>0, <2>2
  <2>3. CASE file' = <<<<>>>> /\ writing' = <<[left |-> Whole, removed |-> FALSE]>>
    <3>1. file'[1] = <<>> /\ writing'[1] = [left |-> Whole, removed |-> FALSE] /\ file' # <<>>
      BY <2>3
    <3>2. writing'[1] \in [left : 1..Whole, removed : BOOLEAN] /\ file'[1] \in Seq(Nat)
      BY <2>1, <3>1
    <3> QED
      BY <2>a, <2>3, <3>1, <3>2
  <2> QED
    BY <1>1, <2>2, <2>3 DEF Present
<1>2. CASE GameMoves /\ PageDies
  BY <1>2 DEF PageDies
<1>3. ASSUME GameMoves, NEW n \in 1..Whole, Write(n) PROVE GameType'
  <2>1. writing # Absent /\ writing = <<writing[1]>> /\ writing[1] \in [left : 1..Whole, removed : BOOLEAN]
        /\ n \in 1..writing[1].left /\ UNCHANGED <<shot, drawn, page, trigger>>
    BY <1>3 DEF Write
  <2>2. CASE writing[1].removed
    <3>1. file' = file
      BY <1>3, <2>2 DEF Write
    <3>2. CASE n = writing[1].left
      BY <1>3, <3>1, <3>2 DEF Write
    <3>3. CASE n # writing[1].left
      <4>1. writing' = <<[writing[1] EXCEPT !.left = @ - n]>>
        BY <1>3, <3>3 DEF Write
      <4>2. writing'[1] = [writing[1] EXCEPT !.left = @ - n] /\ writing[1].left - n \in 1..Whole
        BY <4>1, <2>1, <3>3, ParityAssumption
      <4>3. writing'[1] \in [left : 1..Whole, removed : BOOLEAN] /\ writing'[1].removed
        BY <4>2, <2>1, <2>2
      <4> QED
        BY <4>1, <4>3, <3>1, <2>1, <4>2
    <3> QED
      BY <3>2, <3>3
  <2>3. CASE ~writing[1].removed
    <3>1. file' = <<file[1] \o [i \in 1..n |-> shot]>>
      BY <1>3, <2>3 DEF Write
    <3>2. file # Absent /\ file[1] \in Seq(Nat)
      BY <2>1, <2>3
    <3>3. [i \in 1..n |-> shot] \in Seq(Nat)
      BY <2>1
    <3>4. file'[1] = file[1] \o [i \in 1..n |-> shot] /\ file' # <<>>
      BY <3>1
    <3>5. file'[1] \in Seq(Nat)
      BY <3>2, <3>3, <3>4
    <3>6. CASE n = writing[1].left
      BY <1>3, <3>1, <3>4, <3>5, <3>6 DEF Write
    <3>7. CASE n # writing[1].left
      <4>1. writing' = <<[writing[1] EXCEPT !.left = @ - n]>>
        BY <1>3, <3>7 DEF Write
      <4>2. writing'[1] = [writing[1] EXCEPT !.left = @ - n] /\ writing[1].left - n \in 1..Whole
        BY <4>1, <2>1, <3>7, ParityAssumption
      <4>3. writing'[1] \in [left : 1..Whole, removed : BOOLEAN]
        BY <4>2, <2>1
      <4> QED
        BY <4>1, <4>2, <4>3, <3>1, <3>4, <3>5, <2>1
    <3> QED
      BY <3>6, <3>7
  <2> QED
    BY <2>1, <2>2, <2>3
<1>4. CASE QAMoves \/ WalkMoves \/ UNCHANGED vars
  <2>1. shot' = shot /\ page' = page /\ drawn' \in 0..shot
    BY <1>4, GameTouched
  <2>2. CASE UNCHANGED <<trigger, file, writing>>
    BY <2>1, <2>2
  <2>3. CASE /\ file' = Absent /\ trigger' = trigger
             /\ writing' = IF writing = Absent THEN Absent
                           ELSE <<[writing[1] EXCEPT !.removed = TRUE]>>
    <3>1. CASE writing = Absent
      BY <2>1, <2>3, <3>1
    <3>2. CASE writing # Absent
      <4>1. writing'[1] = [writing[1] EXCEPT !.removed = TRUE] /\ writing' = <<writing'[1]>>
        BY <2>3, <3>2
      <4>2. writing[1] \in [left : 1..Whole, removed : BOOLEAN]
        BY <3>2
      <4>3. writing'[1] \in [left : 1..Whole, removed : BOOLEAN] /\ writing'[1].removed
        BY <4>1, <4>2
      <4> QED
        BY <2>1, <2>3, <4>1, <4>3
    <3> QED
      BY <3>1, <3>2
  <2>4. CASE trigger' = TRUE /\ UNCHANGED <<file, writing>>
    BY <2>1, <2>4
  <2> QED
    BY <1>4, <2>2, <2>3, <2>4, GameTouched
<1> QED
  BY <1>1, <1>2, <1>3, <1>4, SomeoneMoves DEF GameMoves, GameNext

\* base64 goes on from where it was.
LEMMA ReadsOn ==
  ASSUME NEW f \in Seq(Nat), NEW r \in Seq(Nat), NEW n \in Len(r) + 1..Len(f)
  PROVE  LET g == r \o SubSeq(f, Len(r) + 1, n)
         IN  g \in Seq(Nat) /\ Len(g) = n /\ Range(g) \subseteq Range(r) \union Range(f)
<1> DEFINE s == SubSeq(f, Len(r) + 1, n)
<1>1. /\ Len(r) \in Nat /\ Len(f) \in Nat /\ n \in Nat /\ Len(r) + 1 <= n /\ n <= Len(f)
  OBVIOUS
<1>2. /\ s \in Seq(Nat) /\ Len(s) = n - Len(r)
      /\ \A i \in 1..(n - Len(r)) : s[i] = f[Len(r) + i]
  BY <1>1
<1> HIDE DEF s
<1>3. /\ r \o s \in Seq(Nat) /\ Len(r \o s) = n /\ DOMAIN (r \o s) = 1..n
      /\ \A i \in 1..n : (r \o s)[i] = IF i <= Len(r) THEN r[i] ELSE s[i - Len(r)]
  BY <1>1, <1>2
<1>4. \A i \in 1..n : (r \o s)[i] \in Range(r) \union Range(f)
  <2>1. DOMAIN r = 1..Len(r) /\ DOMAIN f = 1..Len(f)
    OBVIOUS
  <2> SUFFICES ASSUME NEW i \in 1..n PROVE (r \o s)[i] \in Range(r) \union Range(f)
    OBVIOUS
  <2>2. CASE i <= Len(r)
    <3>1. (r \o s)[i] = r[i] /\ i \in DOMAIN r
      BY <1>1, <1>3, <2>1, <2>2
    <3> QED
      BY <3>1 DEF Range
  <2>3. CASE ~(i <= Len(r))
    <3>1. i \in Nat /\ Len(r) < i /\ i <= n
      BY <1>1, <2>3
    <3>2. (r \o s)[i] = s[i - Len(r)]
      BY <1>3, <2>3
    <3>3. i - Len(r) \in 1..(n - Len(r)) /\ Len(r) + (i - Len(r)) = i /\ i \in 1..Len(f)
      BY <1>1, <3>1
    <3>4. s[i - Len(r)] = f[i] /\ i \in DOMAIN f
      BY <1>2, <2>1, <3>3
    <3> QED
      BY <3>2, <3>4 DEF Range
  <2> QED
    BY <2>2, <2>3
<1> QED
  BY <1>3, <1>4 DEF Range, s

\* What no step of the shell touches.
ShellOnly == UNCHANGED <<phase, expected, canvas, since, pairs, checkpoints, storm, report>>

LEMMA ShellTypeStep ==
  ASSUME GameType, CaptureType, ShellSteps
  PROVE  shell' \in Shell /\ ShellOnly
<1>0. ShellOnly /\ shell \in Shell /\ shell.polls + 1 \in Nat /\ "look" \in ShellAt /\ "meta" \in ShellAt
      /\ "touch" \in ShellAt /\ "compare" \in ShellAt /\ "read" \in ShellAt /\ "answer" \in ShellAt
  BY DEF ShellSteps, ShellOnly, CaptureType, ShellAt, Shell
<1>1. Size \in Nat
  BY DEF Size, GameType, Perhaps
<1>2. Again \in Shell
  <2> DEFINE next == IF shell.polls + 1 < MaxPolls THEN "look" ELSE "meta"
  <2>1. next \in ShellAt
    BY <1>0
  <2>2. Again = [shell EXCEPT !.pc = next, !.polls = shell.polls + 1]
    BY DEF Again
  <2> HIDE DEF next
  <2> QED
    BY <2>1, <2>2, <1>0 DEF Shell
<1>3. CASE ShellClears \/ ShellTouches \/ ShellLooks \/ ShellCompares \/ ShellTells
  BY <1>0, <1>1, <1>2, <1>3 DEF ShellClears, ShellTouches, ShellLooks, ShellCompares, ShellTells, Shell
<1>4. CASE ShellReads
  <2>1. CASE Len(shell.read) < Size
    <3>1. PICK n \in Len(shell.read) + 1..Size :
            shell' = [shell EXCEPT !.read = @ \o SubSeq(file[1], Len(@) + 1, n)]
      BY <1>4, <2>1 DEF ShellReads
    <3>2. shell.read \in Seq(Nat) /\ Len(shell.read) \in Nat
      BY <1>0 DEF Shell
    <3>3. file # Absent /\ Size = Len(file[1]) /\ file[1] \in Seq(Nat)
      BY <2>1, <3>2 DEF Size, GameType, Perhaps
    <3>4. shell.read \o SubSeq(file[1], Len(shell.read) + 1, n) \in Seq(Nat)
      BY <3>2, <3>3, ReadsOn
    <3> QED
      BY <1>0, <3>1, <3>4 DEF Shell
  <2>2. CASE ~(Len(shell.read) < Size)
    BY <1>0, <1>4, <2>2 DEF ShellReads, Shell
  <2> QED
    BY <2>1, <2>2
<1> QED
  BY <1>0, <1>3, <1>4 DEF ShellSteps

\* A checkpoint is put at the end of those recorded.
LEMMA FinishedOne ==
  ASSUME CaptureType, NEW c \in Checkpoint, Finished(c)
  PROVE  /\ checkpoints' \in Seq(Checkpoint) /\ pairs' = <<>> /\ phase' \in {"await", "pair", "report"}
         /\ Len(checkpoints') = Len(checkpoints) + 1 /\ checkpoints'[Len(checkpoints) + 1] = c
         /\ \A i \in DOMAIN checkpoints' :
               i = Len(checkpoints) + 1 \/ (i \in DOMAIN checkpoints /\ checkpoints'[i] = checkpoints[i])
         /\ \A i \in DOMAIN checkpoints : i \in DOMAIN checkpoints' /\ checkpoints'[i] = checkpoints[i]
         /\ phase' = "await" => Len(checkpoints') = 1
         /\ phase' = "pair" => Len(checkpoints') # 1 /\ Len(checkpoints') < Checkpoints
         /\ phase' = "report" => Len(checkpoints') # 1 /\ Len(checkpoints') >= Checkpoints
<1>1. checkpoints \in Seq(Checkpoint)
  BY DEF CaptureType
<1>2. checkpoints' = Append(checkpoints, c) /\ pairs' = <<>> /\ phase' = AfterCheckpoint
  BY DEF Finished
<1>3. /\ checkpoints' \in Seq(Checkpoint) /\ Len(checkpoints') = Len(checkpoints) + 1
      /\ checkpoints'[Len(checkpoints) + 1] = c /\ Len(checkpoints) \in Nat
      /\ \A i \in 1..Len(checkpoints) : checkpoints'[i] = checkpoints[i]
      /\ DOMAIN checkpoints' = 1..Len(checkpoints) + 1 /\ DOMAIN checkpoints = 1..Len(checkpoints)
  BY <1>1, <1>2
<1>4. \A i \in DOMAIN checkpoints' :
        i = Len(checkpoints) + 1 \/ (i \in DOMAIN checkpoints /\ checkpoints'[i] = checkpoints[i])
  BY <1>3
<1>5. \A i \in DOMAIN checkpoints : i \in DOMAIN checkpoints' /\ checkpoints'[i] = checkpoints[i]
  BY <1>3
<1>6. /\ phase' \in {"await", "pair", "report"} /\ (phase' = "await" => Len(checkpoints') = 1)
      /\ phase' = "pair" => Len(checkpoints') # 1 /\ Len(checkpoints') < Checkpoints
      /\ phase' = "report" => Len(checkpoints') # 1 /\ Len(checkpoints') >= Checkpoints
  BY <1>2, <1>3, CaptureAssumption DEF AfterCheckpoint
<1> QED
  BY <1>2, <1>3, <1>4, <1>5, <1>6

\* What is recorded of a burst: that it died, or its figures.
DeadBurst == [failed |-> TRUE, pairs |-> Len(pairs), storm |-> storm, analysis |-> <<>>]
HostsNow == [k \in DOMAIN pairs |-> pairs[k].host[1]]
ClientsNow == [k \in DOMAIN pairs |-> pairs[k].client]
WholeBurst == [failed |-> FALSE, pairs |-> Len(pairs), storm |-> storm,
               analysis |-> <<Figures(HostsNow, ClientsNow)>>]

LEMMA DeadBurstType ==
  ASSUME CaptureType
  PROVE  DeadBurst \in Checkpoint
<1>1. Len(pairs) \in Nat /\ storm \in Nat /\ <<>> \in Seq(Result)
  BY CaptureAssumption DEF CaptureType
<1> QED
  BY <1>1 DEF DeadBurst, Checkpoint

LEMMA WholeBurstType ==
  ASSUME CaptureType, Len(pairs) = Burst
  PROVE  WholeBurst \in Checkpoint /\ Agrees(Figures(HostsNow, ClientsNow))
<1>1. Len(pairs) \in Nat \ {0} /\ storm \in Nat /\ DOMAIN pairs = 1..Len(pairs)
  BY CaptureAssumption DEF CaptureType
<1> DEFINE V == {HostsNow[k] : k \in DOMAIN pairs} \union {ClientsNow[k] : k \in DOMAIN pairs}
<1>2. HostsNow \in [1..Len(pairs) -> V] /\ ClientsNow \in [1..Len(pairs) -> V]
  BY <1>1 DEF HostsNow, ClientsNow
<1>3. Figures(HostsNow, ClientsNow) \in Result /\ Agrees(Figures(HostsNow, ClientsNow))
  <2> HIDE DEF V
  <2> QED
    BY <1>1, <1>2, FiguresAgreeWithEachOther
<1>4. <<Figures(HostsNow, ClientsNow)>> \in Seq(Result)
  BY <1>3
<1> QED
  BY <1>1, <1>3, <1>4 DEF WholeBurst, Checkpoint

LEMMA FinishedType ==
  ASSUME CaptureType, NEW c \in Checkpoint, Finished(c), shell' \in Shell, since' \in 0..shot',
         Perhaps(canvas', Nat), UNCHANGED <<expected, storm>>
  PROVE  CaptureType'
<1>1. /\ checkpoints' \in Seq(Checkpoint) /\ pairs' = <<>> /\ phase' \in {"await", "pair", "report"}
  BY FinishedOne
<1>2. pairs' \in Seq(Pair) /\ phase' \in PhaseAt
  BY <1>1 DEF PhaseAt
<1>3. expected' \in Nat /\ storm' \in 0..Zooms
  BY DEF CaptureType
<1> QED
  BY <1>1, <1>2, <1>3 DEF CaptureType

LEMMA GameMovesOn ==
  ASSUME GameType, GameMoves
  PROVE  shot' \in Nat /\ shot <= shot' /\ UNCHANGED qaVars /\ UNCHANGED walkVars
<1>1. shot \in Nat /\ UNCHANGED qaVars /\ UNCHANGED walkVars
  BY DEF GameMoves, GameType
<1>2. CASE Present
  BY <1>1, <1>2 DEF Present
<1>3. CASE PageDies
  BY <1>1, <1>3 DEF PageDies
<1>4. ASSUME NEW n \in 1..Whole, Write(n) PROVE shot' = shot
  BY <1>4 DEF Write
<1> QED
  BY <1>1, <1>2, <1>3, <1>4 DEF GameMoves, GameNext

LEMMA CaptureTypeStep ==
  ASSUME GameType, CaptureType, CountInv, [Next]_vars
  PROVE  CaptureType'
<1>1. /\ phase \in PhaseAt /\ shell \in Shell /\ expected \in Nat /\ since \in 0..shot
      /\ storm \in 0..Zooms /\ Perhaps(canvas, Nat) /\ pairs \in Seq(Pair)
      /\ checkpoints \in Seq(Checkpoint) /\ shot \in Nat /\ drawn \in 0..shot
  BY DEF CaptureType, GameType
<1>2. Idle \in Shell /\ [Idle EXCEPT !.pc = "clear"] \in Shell
  <2>1. <<>> \in Seq(Nat) /\ 0 \in Nat /\ "none" \in ShellAt /\ "clear" \in ShellAt
    BY DEF ShellAt
  <2> QED
    BY <2>1 DEF Idle, Shell
<1>3. Perhaps(Absent, Nat) /\ \A x \in Nat : Perhaps(<<x>>, Nat)
  BY DEF Perhaps
<1>4. CASE GameMoves
  <2>1. UNCHANGED qaVars /\ shot' \in Nat /\ shot <= shot'
    BY <1>4, GameMovesOn
  <2> QED
    BY <1>1, <2>1 DEF CaptureType, qaVars
<1>5. CASE WalkMoves \/ UNCHANGED vars
  <2>1. UNCHANGED <<qaVars, shot>>
    BY <1>5, WalkTouches DEF WalkMoves, vars, gameVars
  <2> QED
    BY <1>1, <2>1 DEF CaptureType, qaVars
<1>6. CASE QAMoves
  <2>1. QANext /\ shot' = shot
    BY <1>6, GameTouched DEF QAMoves
  <2>2. CASE ShellSteps
    BY <1>1, <2>1, <2>2, ShellTypeStep DEF CaptureType, ShellOnly
  <2>3. CASE Preflight
    <3>1. shell' \in Shell /\ phase' \in PhaseAt /\ expected' \in Nat
      BY <1>1, <1>2, <2>3 DEF Preflight, Fails, PhaseAt, Shell
    <3>2. UNCHANGED <<since, pairs, storm, canvas, checkpoints>>
      BY <2>3 DEF Preflight, Fails
    <3> QED
      BY <1>1, <2>1, <3>1, <3>2 DEF CaptureType
  <2>4. CASE Load \/ StormUnderWay \/ StormEnds \/ WriteReport \/ Summarise
    <3>1. phase' \in PhaseAt /\ UNCHANGED <<shell, expected, since, storm, canvas, pairs, checkpoints>>
      BY <2>4 DEF Load, StormUnderWay, StormEnds, WriteReport, Summarise, Fails, PhaseAt
    <3> QED
      BY <1>1, <2>1, <3>1 DEF CaptureType
  <2>5. CASE StormBlows
    <3>1. phase' \in PhaseAt /\ UNCHANGED <<shell, expected, since, canvas, pairs, checkpoints>>
      BY <1>1, <2>5 DEF StormBlows, Fails, PhaseAt
    <3>2. storm' \in 0..Zooms
      BY <1>1, <2>5, CaptureAssumption DEF StormBlows
    <3> QED
      BY <1>1, <2>1, <3>1, <3>2 DEF CaptureType
  <2>6. CASE BeginPair
    <3>1. CASE page = "up"
      BY <1>1, <1>2, <1>3, <2>1, <2>6, <3>1 DEF BeginPair, CaptureType
    <3>2. CASE page # "up"
      <4>1. Finished(DeadBurst) /\ UNCHANGED <<shell, since, canvas, expected, storm>>
        BY <2>6, <3>2 DEF BeginPair, Died, DeadBurst
      <4> QED
        BY <1>1, <2>1, <4>1, DeadBurstType, FinishedType
    <3> QED
      BY <3>1, <3>2
  <2>7. CASE ReadCanvas
    <3>1. CASE page = "up"
      <4>1. PICK picture \in drawn..shot : canvas' = <<picture>>
        BY <2>7, <3>1 DEF ReadCanvas
      <4>2. UNCHANGED <<shell, phase, pairs, checkpoints, expected, since, storm>>
        BY <2>7, <3>1 DEF ReadCanvas
      <4>3. picture \in Nat
        BY <1>1
      <4> QED
        BY <1>1, <1>3, <2>1, <4>1, <4>2, <4>3 DEF CaptureType
    <3>2. CASE page # "up"
      <4>1. Finished(DeadBurst) /\ shell' = Idle /\ UNCHANGED <<since, canvas, expected, storm>>
        BY <2>7, <3>2 DEF ReadCanvas, Died, DeadBurst
      <4> QED
        BY <1>1, <1>2, <2>1, <4>1, DeadBurstType, FinishedType
    <3> QED
      BY <3>1, <3>2
  <2>8. CASE EndPair
    <3>1. shell' = Idle /\ canvas' = Absent /\ since' = 0 /\ UNCHANGED <<expected, storm>>
      BY <2>8 DEF EndPair
    <3>2. CASE Answered
      <4> DEFINE pair == [host |-> shell.read, client |-> canvas[1], from |-> since, to |-> shot]
      <4>1. pair \in Pair
        <5>1. canvas # Absent
          BY <2>8, <3>2 DEF EndPair
        <5>2. canvas[1] \in Nat /\ shell.read \in Seq(Nat) /\ since \in Nat
          BY <1>1, <5>1 DEF Perhaps, Shell
        <5> QED
          BY <1>1, <5>2 DEF Pair
      <4>2. pairs' = Append(pairs, pair) /\ checkpoints' = checkpoints /\ phase' \in PhaseAt
        BY <2>8, <3>2 DEF EndPair, PhaseAt
      <4>3. pairs' \in Seq(Pair)
        <5> HIDE DEF pair
        <5> QED
          BY <1>1, <4>1, <4>2
      <4> QED
        BY <1>1, <1>2, <1>3, <2>1, <3>1, <4>2, <4>3 DEF CaptureType
    <3>3. CASE ~Answered
      <4>1. Finished(DeadBurst)
        BY <2>8, <3>3 DEF EndPair, Died, DeadBurst
      <4> QED
        <5>1. since' \in 0..shot'
          BY <1>1, <2>1, <3>1
        <5> QED
          BY <1>2, <1>3, <3>1, <4>1, <5>1, DeadBurstType, FinishedType
    <3> QED
      BY <3>2, <3>3
  <2>9. CASE AnalyseBurst
    <3>1. Finished(WholeBurst) /\ UNCHANGED <<shell, since, canvas, expected, storm>>
      BY <2>9 DEF AnalyseBurst, WholeBurst, HostsNow, ClientsNow
    <3>2. WholeBurst \in Checkpoint
      BY <2>9, WholeBurstType DEF AnalyseBurst, CountInv
    <3> QED
      BY <1>1, <2>1, <3>1, <3>2, FinishedType
  <2> QED
    BY <2>1, <2>2, <2>3, <2>4, <2>5, <2>6, <2>7, <2>8, <2>9 DEF QANext
<1> QED
  BY <1>4, <1>5, <1>6, SomeoneMoves

-----------------------------------------------------------------------------
(* Counting                                                                *)

\* A checkpoint that was put on record as it should be.
LEMMA FinishedCount ==
  ASSUME CaptureType, CountInv, phase \in {"pair", "analyse"}, NEW c \in Checkpoint, Finished(c),
         c.failed <=> c.pairs # Burst, c.storm = storm, storm' = storm
  PROVE  CountInv'
<1>1. /\ Len(checkpoints) \in Nat /\ Len(checkpoints) < Checkpoints
      /\ checkpoints # <<>> => storm = Zooms
      /\ checkpoints = <<>> \/ Len(checkpoints) >= 1
  BY DEF CaptureType, CountInv
<1>2. /\ pairs' = <<>> /\ Len(pairs') = 0
      /\ phase' \in {"await", "pair", "report"} /\ checkpoints' \in Seq(Checkpoint)
      /\ Len(checkpoints') = Len(checkpoints) + 1 /\ checkpoints'[Len(checkpoints) + 1] = c
      /\ \A i \in DOMAIN checkpoints' :
            i = Len(checkpoints) + 1 \/ (i \in DOMAIN checkpoints /\ checkpoints'[i] = checkpoints[i])
      /\ phase' = "await" => Len(checkpoints') = 1
      /\ phase' = "pair" => Len(checkpoints') # 1 /\ Len(checkpoints') < Checkpoints
      /\ phase' = "report" => Len(checkpoints') # 1 /\ Len(checkpoints') >= Checkpoints
  BY FinishedOne
<1>3. \A i \in DOMAIN checkpoints' :
        /\ checkpoints'[i].failed <=> checkpoints'[i].pairs # Burst
        /\ i > 1 => checkpoints'[i].storm = Zooms
  <2> SUFFICES ASSUME NEW i \in DOMAIN checkpoints'
               PROVE  /\ checkpoints'[i].failed <=> checkpoints'[i].pairs # Burst
                      /\ i > 1 => checkpoints'[i].storm = Zooms
    OBVIOUS
  <2>1. CASE i \in DOMAIN checkpoints /\ checkpoints'[i] = checkpoints[i]
    BY <2>1 DEF CountInv
  <2>2. CASE i = Len(checkpoints) + 1
    <3>1. checkpoints'[i] = c
      BY <1>2, <2>2
    <3>2. i > 1 => c.storm = Zooms
      BY <1>1, <2>2
    <3> QED
      BY <3>1, <3>2
  <2> QED
    BY <1>2, <2>1, <2>2
<1>4. phase' # "await" => storm = Zooms
  BY <1>1, <1>2
<1>5. Burst > 0 /\ Checkpoints \in Nat
  BY CaptureAssumption
<1>6. /\ phase' = "report" => Len(checkpoints') = Checkpoints
      /\ phase' = "pair" => Len(pairs') < Burst /\ Len(checkpoints') < Checkpoints /\ storm' = Zooms
      /\ phase' = "await" => Len(checkpoints') = 1
  BY <1>1, <1>2, <1>4, <1>5
<1> QED
  BY <1>2, <1>3, <1>6 DEF CountInv

LEMMA CountStep ==
  ASSUME GameType, CaptureType, CountInv, [Next]_vars
  PROVE  CountInv'
<1>1. /\ pairs \in Seq(Pair) /\ Len(pairs) \in Nat /\ storm \in 0..Zooms /\ storm \in Nat
      /\ {Checkpoints, Burst} \subseteq Nat \ {0} /\ Zooms \in Nat /\ Len(<<>>) = 0
  BY CaptureAssumption DEF CaptureType
<1>2. CASE UNCHANGED qaVars
  BY <1>2 DEF CountInv, qaVars
<1>3. CASE QAMoves
  <2>1. QANext
    BY <1>3 DEF QAMoves
  <2>2. CASE ShellSteps
    BY <2>2 DEF ShellSteps, CountInv
  <2>3. CASE Preflight
    BY <2>3 DEF Preflight, Fails, CountInv
  <2>4. CASE Load
    BY <1>1, <2>4 DEF Load, Fails, CountInv
  <2>5. CASE StormBlows
    BY <1>1, <2>5 DEF StormBlows, Fails, CountInv
  <2>6. CASE StormUnderWay
    BY <1>1, <2>6 DEF StormUnderWay, CountInv
  <2>7. CASE StormEnds
    <3>1. pairs = <<>> /\ Len(checkpoints) = 1 /\ storm = Zooms
      BY <2>7 DEF StormEnds, CountInv
    <3>2. /\ UNCHANGED <<pairs, checkpoints, storm>>
          /\ \/ phase' = "pair" /\ Len(checkpoints) < Checkpoints
             \/ phase' = "report" /\ ~(Len(checkpoints) < Checkpoints)
      BY <2>7 DEF StormEnds
    <3>3. Len(pairs) < Burst
      BY <1>1, <3>1
    <3>4. phase' = "report" => Len(checkpoints) = Checkpoints
      BY <1>1, <3>1, <3>2
    <3> QED
      BY <3>1, <3>2, <3>3, <3>4 DEF CountInv
  <2>8. CASE WriteReport
    BY <2>8 DEF WriteReport, CountInv
  <2>9. CASE Summarise
    BY <2>9 DEF Summarise, CountInv
  <2>10. ASSUME phase = "pair", Finished(DeadBurst), UNCHANGED <<storm>> PROVE CountInv'
    <3>1. Len(pairs) # Burst
      BY <1>1, <2>10 DEF CountInv
    <3> QED
      BY <2>10, <3>1, DeadBurstType, FinishedCount DEF DeadBurst
  <2>11. CASE BeginPair
    <3>1. CASE page = "up"
      BY <2>11, <3>1 DEF BeginPair, CountInv
    <3>2. CASE page # "up"
      BY <2>10, <2>11, <3>2 DEF BeginPair, Died, DeadBurst
    <3> QED
      BY <3>1, <3>2
  <2>12. CASE ReadCanvas
    <3>1. CASE page = "up"
      BY <2>12, <3>1 DEF ReadCanvas, CountInv
    <3>2. CASE page # "up"
      BY <2>10, <2>12, <3>2 DEF ReadCanvas, Died, DeadBurst
    <3> QED
      BY <3>1, <3>2
  <2>13. CASE EndPair
    <3>1. CASE Answered
      <4> DEFINE pair == [host |-> shell.read, client |-> canvas[1], from |-> since, to |-> shot]
      <4>1. /\ phase = "pair" /\ pairs' = Append(pairs, pair) /\ UNCHANGED <<checkpoints, storm, report>>
            /\ phase' = IF Len(pairs') < Burst THEN "pair" ELSE "analyse"
        BY <2>13, <3>1 DEF EndPair
      <4>2. Len(pairs') = Len(pairs) + 1 /\ Len(pairs) < Burst
        <5> HIDE DEF pair
        <5> QED
          BY <1>1, <4>1 DEF CountInv
      <4> HIDE DEF pair
      <4>3. Len(pairs') < Burst \/ Len(pairs') = Burst
        BY <1>1, <4>2
      <4> QED
        BY <4>1, <4>3 DEF CountInv
    <3>2. CASE ~Answered
      BY <2>10, <2>13, <3>2 DEF EndPair, Died, DeadBurst
    <3> QED
      BY <3>1, <3>2
  <2>14. CASE AnalyseBurst
    <3>1. phase = "analyse" /\ Finished(WholeBurst) /\ storm' = storm /\ Len(pairs) = Burst
      BY <2>14 DEF AnalyseBurst, WholeBurst, HostsNow, ClientsNow, CountInv
    <3> QED
      BY <3>1, WholeBurstType, FinishedCount DEF WholeBurst
  <2> QED
    BY <2>1, <2>2, <2>3, <2>4, <2>5, <2>6, <2>7, <2>8, <2>9, <2>11, <2>12, <2>13, <2>14 DEF QANext
<1> QED
  BY <1>2, <1>3, SomeoneMoves DEF GameMoves, WalkMoves, vars

-----------------------------------------------------------------------------
(* Windows                                                                 *)

\* What the game writes more of a picture.
LEMMA MoreOfIt ==
  ASSUME NEW f \in Seq(Nat), NEW v \in Nat, NEW n \in Nat
  PROVE  LET g == f \o [i \in 1..n |-> v]
         IN  /\ g \in Seq(Nat) /\ Len(g) = Len(f) + n /\ DOMAIN g = 1..Len(f) + n
             /\ \A i \in DOMAIN g : g[i] = IF i <= Len(f) THEN f[i] ELSE v
             /\ Range(g) \subseteq Range(f) \union {v}
<1> DEFINE s == [i \in 1..n |-> v]
           g == f \o s
<1>1. s \in Seq(Nat) /\ Len(s) = n /\ \A i \in 1..n : s[i] = v
  OBVIOUS
<1> HIDE DEF s
<1>2. /\ g \in Seq(Nat) /\ Len(g) = Len(f) + n /\ DOMAIN g = 1..Len(f) + n
      /\ \A i \in DOMAIN g : g[i] = IF i <= Len(f) THEN f[i] ELSE v
  BY <1>1
<1>3. DOMAIN f = 1..Len(f) /\ Len(f) \in Nat
  OBVIOUS
<1> HIDE DEF g
<1>4. Range(g) \subseteq Range(f) \union {v}
  BY <1>2, <1>3 DEF Range
<1> QED
  BY <1>2, <1>4 DEF g, s

\* What is in the file when the game goes on writing.
LEMMA WrittenOn ==
  ASSUME GameType, NEW n \in 1..Whole, Write(n), ~writing[1].removed
  PROVE  /\ file # Absent /\ file[1] \in Seq(Nat) /\ file' # Absent /\ n \in 1..writing[1].left
         /\ file'[1] = file[1] \o [i \in 1..n |-> shot]
         /\ IF n = writing[1].left THEN writing' = Absent
            ELSE /\ writing' # Absent /\ writing'[1].left = writing[1].left - n
                 /\ ~writing'[1].removed
         /\ writing # Absent /\ UNCHANGED <<shot, trigger>>
<1>1. writing # Absent /\ n \in 1..writing[1].left /\ UNCHANGED <<shot, trigger>>
  BY DEF Write
<1>2. file # Absent /\ file[1] \in Seq(Nat) /\ writing[1] \in [left : 1..Whole, removed : BOOLEAN]
  BY <1>1 DEF GameType, Perhaps
<1>3. file' = <<file[1] \o [i \in 1..n |-> shot]>>
  BY DEF Write
<1>4. file'[1] = file[1] \o [i \in 1..n |-> shot] /\ file' # Absent
  BY <1>3 DEF Absent
<1>5. CASE n = writing[1].left
  BY <1>1, <1>2, <1>4, <1>5 DEF Write
<1>6. CASE n # writing[1].left
  <2>1. writing' = <<[writing[1] EXCEPT !.left = @ - n]>>
    BY <1>6 DEF Write
  <2>2. writing'[1] = [writing[1] EXCEPT !.left = @ - n] /\ writing' # Absent
    BY <2>1 DEF Absent
  <2> QED
    BY <1>1, <1>2, <1>4, <1>6, <2>2
<1> QED
  BY <1>5, <1>6

LEMMA WindowStep ==
  ASSUME GameType, CaptureType, WindowInv, [Next]_vars
  PROVE  WindowInv'
<1>1. /\ shell \in Shell /\ since \in 0..shot /\ shot \in Nat /\ pairs \in Seq(Pair)
      /\ Perhaps(file, Seq(Nat)) /\ Range(<<>>) = {} /\ DOMAIN <<>> = {}
  BY DEF CaptureType, GameType, Range
<1>2. CASE GameMoves
  <2>1. shot' \in Nat /\ shot <= shot' /\ UNCHANGED qaVars
    BY <1>2, GameMovesOn
  <2>2. UNCHANGED <<shell, since, pairs>> /\ OfTheWindow \subseteq OfTheWindow'
    BY <1>1, <2>1 DEF qaVars, OfTheWindow
  <2>3. /\ shell.pc \in {"clear", "touch", "look", "compare", "meta"} => shell.read = <<>>
        /\ shell.pc \notin {"none", "clear"} => Range(shell.read) \subseteq OfTheWindow'
        /\ \A k \in DOMAIN pairs : Range(pairs[k].host) \subseteq pairs[k].from + 1..pairs[k].to
    BY <2>2 DEF WindowInv
  <2> SUFFICES ASSUME shell.pc \notin {"none", "clear"}
               PROVE  /\ file' # Absent => Range(file'[1]) \subseteq OfTheWindow'
                      /\ writing' # Absent /\ ~writing'[1].removed => shot' > since
    BY <2>2, <2>3 DEF WindowInv
  <2>4. /\ file # Absent => Range(file[1]) \subseteq OfTheWindow'
        /\ writing # Absent /\ ~writing[1].removed => shot' > since
    BY <1>1, <2>1, <2>2 DEF WindowInv
  <2>5. CASE UNCHANGED <<file, writing>>
    BY <2>4, <2>5
  <2>6. CASE Present
    <3>1. CASE file' = <<<<>>>>
      <4>1. file'[1] = <<>>
        BY <3>1
      <4>2. shot' > since
        BY <1>1, <2>6 DEF Present
      <4> QED
        BY <1>1, <4>1, <4>2
    <3> QED
      BY <2>5, <2>6, <3>1 DEF Present
  <2>7. ASSUME NEW n \in 1..Whole, Write(n)
        PROVE  /\ file' # Absent => Range(file'[1]) \subseteq OfTheWindow'
               /\ writing' # Absent /\ ~writing'[1].removed => shot' > since
    <3>1. CASE ~writing[1].removed
      <4>1. /\ file # Absent /\ file[1] \in Seq(Nat) /\ writing # Absent /\ shot' = shot
            /\ file'[1] = file[1] \o [i \in 1..n |-> shot]
        BY <2>7, <3>1, WrittenOn
      <4>2. Range(file'[1]) \subseteq Range(file[1]) \union {shot}
        <5>1. n \in Nat
          BY ParityAssumption
        <5> QED
          BY <1>1, <4>1, <5>1, MoreOfIt
      <4>3. shot' > since
        BY <2>4, <3>1, <4>1
      <4>4. shot \in OfTheWindow'
        BY <1>1, <2>2, <4>1, <4>3 DEF OfTheWindow
      <4> QED
        BY <2>4, <4>1, <4>2, <4>3, <4>4
    <3>2. CASE writing[1].removed
      <4>1. file' = file
        BY <2>7, <3>2 DEF Write
      <4>2. writing # Absent /\ writing[1] \in [left : 1..Whole, removed : BOOLEAN]
        BY <2>7 DEF Write, GameType, Perhaps
      <4>3. CASE n = writing[1].left
        BY <2>4, <2>7, <4>1, <4>3 DEF Write
      <4>4. CASE n # writing[1].left
        <5>1. writing' = <<[writing[1] EXCEPT !.left = @ - n]>>
          BY <2>7, <4>4 DEF Write
        <5>2. writing'[1].removed
          BY <3>2, <4>2, <5>1
        <5> QED
          BY <2>4, <4>1, <5>2
      <4> QED
        BY <4>3, <4>4
    <3> QED
      BY <3>1, <3>2
  <2>8. CASE PageDies
    BY <2>5, <2>8 DEF PageDies
  <2> QED
    BY <1>2, <2>6, <2>7, <2>8 DEF GameMoves, GameNext
<1>3. CASE WalkMoves \/ UNCHANGED vars
  <2>1. UNCHANGED <<shell, since, pairs, shot, file, writing>>
    BY <1>3, WalkTouches DEF WalkMoves, qaVars, vars, gameVars
  <2> QED
    BY <2>1 DEF WindowInv, OfTheWindow
<1>4. CASE QAMoves
  <2>1. QANext /\ shot' = shot
    BY <1>4, GameTouched DEF QAMoves
  <2>2. ASSUME UNCHANGED <<shell, since>> \/ shell'.pc = "none" \/ (shell'.pc = "clear" /\ shell'.read = <<>>),
               UNCHANGED <<file, writing>>, pairs' = pairs \/ pairs' = <<>>
        PROVE  WindowInv'
    <3>1. \A k \in DOMAIN pairs' : Range(pairs'[k].host) \subseteq pairs'[k].from + 1..pairs'[k].to
      BY <1>1, <2>2 DEF WindowInv
    <3> QED
      BY <2>1, <2>2, <3>1 DEF WindowInv, OfTheWindow
  <2>3. CASE ShellSteps
    <3>1. UNCHANGED <<since, pairs>> /\ OfTheWindow' = OfTheWindow
      BY <2>1, <2>3 DEF ShellSteps, OfTheWindow
    <3>2. \A k \in DOMAIN pairs' : Range(pairs'[k].host) \subseteq pairs'[k].from + 1..pairs'[k].to
      BY <3>1 DEF WindowInv
    <3>3. CASE ShellClears
      <4>1. shell.pc = "clear" /\ shell' = [shell EXCEPT !.pc = "touch"] /\ file' = Absent
        BY <3>3 DEF ShellClears
      <4>2. shell'.pc = "touch" /\ shell'.read = <<>>
        BY <1>1, <4>1 DEF Shell, WindowInv
      <4>3. writing' # Absent => writing'[1].removed
        <5>1. CASE writing = Absent
          BY <3>3, <5>1 DEF ShellClears
        <5>2. CASE writing # Absent
          <6>1. writing' = <<[writing[1] EXCEPT !.removed = TRUE]>>
            BY <3>3, <5>2 DEF ShellClears
          <6>2. writing'[1] = [writing[1] EXCEPT !.removed = TRUE]
            BY <6>1
          <6>3. writing[1] \in [left : 1..Whole, removed : BOOLEAN]
            BY <5>2 DEF GameType, Perhaps
          <6> QED
            BY <6>2, <6>3
        <5> QED
          BY <5>1, <5>2
      <4>4. Range(shell'.read) \subseteq OfTheWindow'
        BY <1>1, <4>2
      <4> QED
        BY <3>2, <4>1, <4>2, <4>3, <4>4 DEF WindowInv
    <3>4. CASE ShellTouches \/ ShellLooks \/ ShellCompares \/ ShellTells
      <4>1. /\ shell.pc \in {"touch", "look", "compare", "meta"} /\ UNCHANGED <<file, writing>>
            /\ shell'.pc \in {"look", "compare", "meta", "read"} /\ shell'.read = shell.read
        BY <1>1, <3>4 DEF ShellTouches, ShellLooks, ShellCompares, ShellTells, Again, Shell, gameVars
      <4> QED
        BY <2>1, <3>1, <3>2, <4>1 DEF WindowInv
    <3>5. CASE ShellReads
      <4>1. shell.pc = "read" /\ UNCHANGED <<file, writing>>
        BY <3>5 DEF ShellReads, gameVars
      <4>2. Range(shell'.read) \subseteq OfTheWindow /\ shell'.pc \in {"read", "answer"}
        <5>1. CASE Len(shell.read) < Size
          <6>1. PICK n \in Len(shell.read) + 1..Size :
                  shell' = [shell EXCEPT !.read = @ \o SubSeq(file[1], Len(@) + 1, n)]
            BY <3>5, <5>1 DEF ShellReads
          <6>2. shell.read \in Seq(Nat) /\ Len(shell.read) \in Nat
            BY <1>1 DEF Shell
          <6>3. file # Absent /\ Size = Len(file[1]) /\ file[1] \in Seq(Nat)
            BY <1>1, <5>1, <6>2 DEF Size, Perhaps
          <6>4. Range(shell.read \o SubSeq(file[1], Len(shell.read) + 1, n))
                  \subseteq Range(shell.read) \union Range(file[1])
            BY <6>2, <6>3, ReadsOn
          <6>5. shell'.read = shell.read \o SubSeq(file[1], Len(shell.read) + 1, n) /\ shell'.pc = "read"
            BY <1>1, <4>1, <6>1 DEF Shell
          <6> QED
            BY <4>1, <6>3, <6>4, <6>5 DEF WindowInv
        <5>2. CASE ~(Len(shell.read) < Size)
          <6>1. shell' = [shell EXCEPT !.pc = "answer"]
            BY <3>5, <5>2 DEF ShellReads
          <6> QED
            BY <1>1, <4>1, <6>1 DEF Shell, WindowInv
        <5> QED
          BY <5>1, <5>2
      <4> QED
        BY <2>1, <3>1, <3>2, <4>1, <4>2 DEF WindowInv
    <3> QED
      BY <2>3, <3>3, <3>4, <3>5 DEF ShellSteps
  <2>4. CASE Preflight
    BY <2>2, <2>4 DEF Preflight, Idle, gameVars
  <2>5. CASE Load \/ StormBlows \/ StormUnderWay \/ StormEnds \/ WriteReport \/ Summarise
    BY <2>2, <2>5 DEF Load, StormBlows, StormUnderWay, StormEnds, WriteReport, Summarise, gameVars
  <2>6. CASE BeginPair
    <3>1. CASE page = "up"
      BY <2>2, <2>6, <3>1 DEF BeginPair, Idle, gameVars
    <3>2. CASE page # "up"
      BY <2>2, <2>6, <3>2 DEF BeginPair, Died, Finished, gameVars
    <3> QED
      BY <3>1, <3>2
  <2>7. CASE ReadCanvas
    <3>1. UNCHANGED <<file, writing, since>>
      BY <2>7 DEF ReadCanvas
    <3>2. CASE page = "up"
      BY <2>2, <2>7, <3>1, <3>2 DEF ReadCanvas
    <3>3. CASE page # "up"
      BY <2>2, <2>7, <3>1, <3>3 DEF ReadCanvas, Died, Finished, Idle
    <3> QED
      BY <3>2, <3>3
  <2>8. CASE EndPair
    <3>1. CASE ~Answered
      BY <2>2, <2>8, <3>1 DEF EndPair, Died, Finished, Idle, gameVars
    <3>2. CASE Answered
      <4> DEFINE pair == [host |-> shell.read, client |-> canvas[1], from |-> since, to |-> shot]
      <4>1. pairs' = Append(pairs, pair) /\ shell'.pc = "none" /\ shell.pc = "answer"
        BY <2>8, <3>2 DEF EndPair, Idle
      <4>2. Range(pair.host) \subseteq pair.from + 1..pair.to
        BY <4>1 DEF WindowInv, OfTheWindow
      <4>3. \A k \in DOMAIN pairs' : (k \in DOMAIN pairs /\ pairs'[k] = pairs[k]) \/ pairs'[k] = pair
        <5> HIDE DEF pair
        <5> QED
          BY <1>1, <4>1
      <4>4. \A k \in DOMAIN pairs' : Range(pairs'[k].host) \subseteq pairs'[k].from + 1..pairs'[k].to
        <5> HIDE DEF pair
        <5> QED
          BY <4>2, <4>3 DEF WindowInv
      <4> QED
        BY <4>1, <4>4 DEF WindowInv
    <3> QED
      BY <3>1, <3>2
  <2>9. CASE AnalyseBurst
    BY <2>2, <2>9 DEF AnalyseBurst, Finished, gameVars
  <2> QED
    BY <2>1, <2>3, <2>4, <2>5, <2>6, <2>7, <2>8, <2>9 DEF QANext
<1> QED
  BY <1>2, <1>3, <1>4, SomeoneMoves

-----------------------------------------------------------------------------
(* Whole pictures                                                          *)

LEMMA AnsweredWhole ==
  ASSUME GameType, CaptureType, ShellHolds, shell.pc = "answer", Answered, shell.size = Whole
  PROVE  /\ Calm /\ Len(shell.read) = Whole
         /\ \A m, n \in 1..Whole : shell.read[m] = shell.read[n]
<1>1. shell.read \in Seq(Nat) /\ Len(shell.read) = Whole /\ Whole > 0 /\ Whole \in Nat
  BY ParityAssumption DEF Answered, CaptureType, Shell
<1>2. file # Absent /\ ~trigger /\ OnePicture
  <2>1. shell.read # <<>>
    BY <1>1
  <2> QED
    BY <2>1 DEF ShellHolds
<1>3. file[1] \in Seq(Nat) /\ Len(file[1]) \in Nat
  BY <1>2 DEF GameType, Perhaps
<1>4. writing = Absent
  <2>1. SUFFICES ASSUME writing # Absent PROVE FALSE
    OBVIOUS
  <2>2. writing[1].left \in 1..Whole
    BY <2>1 DEF GameType, Perhaps
  <2>3. writing[1].left + Len(file[1]) = Whole /\ Whole <= Len(file[1])
    BY <1>1, <1>2, <2>1 DEF OnePicture
  <2> QED
    BY <1>1, <1>3, <2>2, <2>3
<1>5. \A m, n \in 1..Whole : shell.read[m] = shell.read[n]
  <2>1. \A m \in 1..Whole : shell.read[m] \in Range(shell.read)
    <3>1. DOMAIN shell.read = 1..Whole
      BY <1>1
    <3> QED
      BY <3>1 DEF Range
  <2>2. \A m \in 1..Whole : \E k \in DOMAIN file[1] : shell.read[m] = file[1][k]
    BY <1>2, <2>1 DEF OnePicture, Range
  <2> QED
    BY <1>2, <2>2 DEF OnePicture
<1> QED
  BY <1>1, <1>2, <1>4, <1>5 DEF Calm

\* A capture that failed is never forgotten.
LEMMA CleanBefore ==
  ASSUME CaptureType, CountInv, QANext
  PROVE  (NoneFailed' => NoneFailed) /\ (Clean' => Clean)
<1>1. CASE UNCHANGED <<phase, checkpoints, expected>>
  BY <1>1 DEF Clean, NoneFailed
<1>2. ASSUME UNCHANGED <<checkpoints, expected>>, phase # "failed", phase' # "preflight"
      PROVE  (NoneFailed' => NoneFailed) /\ (Clean' => Clean)
  BY <1>2 DEF Clean, NoneFailed
<1>3. CASE Preflight
  BY <1>3 DEF Preflight, Fails, CountInv, Clean, NoneFailed
<1>4. CASE Load \/ StormBlows \/ StormUnderWay \/ StormEnds \/ WriteReport \/ Summarise
  <2>1. phase # "failed" /\ UNCHANGED <<checkpoints, expected>>
    BY <1>4 DEF Load, StormBlows, StormUnderWay, StormEnds, WriteReport, Summarise, Fails
  <2>2. phase' # "preflight" \/ phase' = phase
    BY <1>4 DEF Load, StormBlows, StormUnderWay, StormEnds, WriteReport, Summarise, Fails
  <2> QED
    BY <1>1, <1>2, <2>1, <2>2
<1>5. ASSUME NEW c \in Checkpoint, Finished(c), expected' = expected, phase # "failed"
      PROVE  (NoneFailed' => NoneFailed) /\ (Clean' => Clean)
  <2>1. /\ \A i \in DOMAIN checkpoints : i \in DOMAIN checkpoints' /\ checkpoints'[i] = checkpoints[i]
        /\ phase' \in {"await", "pair", "report"}
    BY <1>5, FinishedOne
  <2>2. NoneFailed' => NoneFailed
    BY <2>1 DEF NoneFailed
  <2> QED
    BY <1>5, <2>1, <2>2 DEF Clean
<1>6. CASE BeginPair \/ ReadCanvas \/ EndPair
  <2>1. phase = "pair" /\ expected' = expected
    BY <1>6 DEF BeginPair, ReadCanvas, EndPair
  <2>2. Finished(DeadBurst) \/ (checkpoints' = checkpoints /\ phase' \in {"pair", "analyse"})
    BY <1>6, <2>1 DEF BeginPair, ReadCanvas, EndPair, Died, DeadBurst
  <2> QED
    BY <1>2, <1>5, <2>1, <2>2, DeadBurstType
<1>7. CASE AnalyseBurst
  <2>1. phase = "analyse" /\ Finished(WholeBurst) /\ expected' = expected /\ Len(pairs) = Burst
    BY <1>7 DEF AnalyseBurst, WholeBurst, HostsNow, ClientsNow, CountInv
  <2> QED
    BY <1>5, <2>1, WholeBurstType
<1>8. CASE ShellSteps
  BY <1>1, <1>8 DEF ShellSteps
<1> QED
  BY <1>3, <1>4, <1>6, <1>7, <1>8 DEF QANext

LEMMA DeadIsKnown ==
  ASSUME CaptureType, Finished(DeadBurst)
  PROVE  ~NoneFailed'
<1>1. DeadBurst \in Checkpoint /\ DeadBurst.failed
  BY DeadBurstType DEF DeadBurst
<1>2. checkpoints' \in Seq(Checkpoint) /\ Len(checkpoints') = Len(checkpoints) + 1
      /\ checkpoints'[Len(checkpoints) + 1] = DeadBurst /\ Len(checkpoints) \in Nat
  BY <1>1, FinishedOne DEF CaptureType
<1>3. Len(checkpoints) + 1 \in DOMAIN checkpoints'
  BY <1>2
<1> QED
  BY <1>1, <1>2, <1>3 DEF NoneFailed

PairsWhole ==
  \A k \in DOMAIN pairs : /\ Len(pairs[k].host) = Whole
                          /\ \A m, n \in 1..Whole : pairs[k].host[m] = pairs[k].host[n]

\* The game's part in it.
LEMMA GameHolds ==
  ASSUME GameType, CaptureType, WindowInv, ShellHolds, GameMoves
  PROVE  ShellHolds'
<1>1. /\ shot' \in Nat /\ shell' = shell /\ shot \in Nat
      /\ Perhaps(file, Seq(Nat)) /\ Range(<<>>) = {} /\ DOMAIN <<>> = {} /\ Len(<<>>) = 0
  BY GameMovesOn DEF GameType, qaVars, Range
<1>2. CASE PageDies
  BY <1>1, <1>2 DEF PageDies, ShellHolds, OnePicture, Calm
<1>3. CASE Present
  <2>1. writing = Absent /\ ~trigger'
    BY <1>3 DEF Present
  <2>2. CASE UNCHANGED <<file, writing>>
    BY <1>1, <2>1, <2>2 DEF ShellHolds, OnePicture, Calm
  <2>3. CASE trigger /\ file' = <<<<>>>> /\ writing' = <<[left |-> Whole, removed |-> FALSE]>>
    <3>1. shell.pc \notin {"none", "clear", "touch"}
      BY <2>3 DEF ShellHolds, Calm
    <3>2. shell.read = <<>>
      <4>1. shell.pc \in ShellAt
        BY DEF CaptureType, Shell
      <4> QED
        BY <2>3, <3>1, <4>1 DEF ShellHolds, ShellAt
    <3>3. file'[1] = <<>> /\ writing'[1].left = Whole /\ ~writing'[1].removed /\ file' # Absent /\ writing' # Absent
      BY <2>3 DEF Absent
    <3>4. OnePicture'
      BY <1>1, <3>2, <3>3, ParityAssumption DEF OnePicture
    <3> QED
      BY <1>1, <2>1, <3>1, <3>3, <3>4 DEF ShellHolds
  <2> QED
    BY <1>3, <2>2, <2>3 DEF Present
<1>4. ASSUME NEW n \in 1..Whole, Write(n) PROVE ShellHolds'
  <2>1. writing # Absent /\ shell.pc \notin {"none", "clear", "touch"}
    BY <1>4 DEF Write, ShellHolds, Calm
  <2>2. /\ file # Absent /\ OnePicture /\ ~trigger /\ shell.pc \in {"look", "compare", "meta", "read", "answer"}
    <3>1. shell.pc \in ShellAt
      BY DEF CaptureType, Shell
    <3> QED
      BY <2>1, <3>1 DEF ShellHolds, ShellAt
  <2>3. ~writing[1].removed /\ writing[1].left + Len(file[1]) = Whole
        /\ \A m \in DOMAIN file[1] : file[1][m] = shot
    BY <2>1, <2>2 DEF OnePicture
  <2>4. /\ file[1] \in Seq(Nat) /\ file' # Absent /\ n \in 1..writing[1].left /\ UNCHANGED <<shot, trigger>>
        /\ file'[1] = file[1] \o [i \in 1..n |-> shot]
        /\ IF n = writing[1].left THEN writing' = Absent
           ELSE /\ writing' # Absent /\ writing'[1].left = writing[1].left - n
                /\ ~writing'[1].removed
    BY <1>4, <2>3, WrittenOn
  <2>5. /\ n \in Nat /\ Len(file[1]) \in Nat /\ writing[1].left \in Nat /\ Whole \in Nat
        /\ DOMAIN file[1] = 1..Len(file[1])
    BY <2>1, <2>4, ParityAssumption DEF GameType, Perhaps
  <2>6. /\ Len(file'[1]) = Len(file[1]) + n /\ DOMAIN file'[1] = 1..Len(file[1]) + n
        /\ \A i \in DOMAIN file'[1] : file'[1][i] = IF i <= Len(file[1]) THEN file[1][i] ELSE shot
        /\ Range(file[1]) \subseteq Range(file'[1])
    <3> DEFINE g == file[1] \o [i \in 1..n |-> shot]
    <3>1. /\ Len(g) = Len(file[1]) + n /\ DOMAIN g = 1..Len(file[1]) + n
          /\ \A i \in DOMAIN g : g[i] = IF i <= Len(file[1]) THEN file[1][i] ELSE shot
          /\ Range(file[1]) \subseteq Range(g)
      <4>1. file[1] \in Seq(Nat) /\ shot \in Nat /\ n \in Nat
        BY <1>1, <2>4, <2>5
      <4>2. Len(g) = Len(file[1]) + n
        BY ONLY <4>1, MoreOfIt
      <4>3. DOMAIN g = 1..Len(file[1]) + n
        BY ONLY <4>1, MoreOfIt
      <4>4. \A i \in DOMAIN g : g[i] = IF i <= Len(file[1]) THEN file[1][i] ELSE shot
        BY ONLY <4>1, MoreOfIt
      <4>5. Range(file[1]) \subseteq Range(g)
        <5> HIDE DEF g
        <5>1. \A i \in DOMAIN file[1] : i \in DOMAIN g /\ g[i] = file[1][i]
          BY <2>5, <4>3, <4>4
        <5> QED
          BY <5>1 DEF Range
      <4> QED
        BY <4>2, <4>3, <4>4, <4>5
    <3>2. file'[1] = g
      BY <2>4
    <3> HIDE DEF g
    <3> QED
      BY <3>1, <3>2
  <2>7. \A m \in DOMAIN file'[1] : file'[1][m] = shot
    BY <2>3, <2>5, <2>6
  <2>8. Range(shell.read) \subseteq Range(file'[1]) /\ Len(shell.read) <= Len(file'[1])
    <3>1. Len(shell.read) \in Nat
      BY DEF CaptureType, Shell
    <3> QED
      BY <2>2, <2>5, <2>6, <3>1 DEF OnePicture
  <2>9. OnePicture'
    <3>1. writing' = Absent => Len(file'[1]) = Whole
      BY <2>3, <2>4, <2>5, <2>6
    <3>2. writing' # Absent => ~writing'[1].removed /\ writing'[1].left + Len(file'[1]) = Whole
      BY <2>3, <2>4, <2>5, <2>6
    <3> QED
      BY <1>1, <2>4, <2>7, <2>8, <3>1, <3>2 DEF OnePicture
  <2> QED
    BY <1>1, <2>2, <2>4, <2>9 DEF ShellHolds
<1> QED
  BY <1>2, <1>3, <1>4 DEF GameMoves, GameNext

\* The shell's part in it.
LEMMA ShellKeepsHold ==
  ASSUME GameType, CaptureType, WindowInv, ShellHolds, ShellSteps, UNCHANGED shot
  PROVE  ShellHolds'
<1>1. shell \in Shell /\ Perhaps(file, Seq(Nat))
  BY DEF CaptureType, GameType
<1>2. CASE ShellClears
  BY <1>1, <1>2 DEF ShellClears, ShellHolds, Calm, Shell
<1>3. CASE ShellTouches
  <2>1. shell.pc = "touch" /\ shell'.pc = "look" /\ shell'.read = <<>>
    BY <1>1, <1>3 DEF ShellTouches, Shell, WindowInv
  <2> QED
    BY <1>3, <2>1 DEF ShellTouches, ShellHolds, Calm
<1>4. CASE ShellLooks \/ ShellCompares \/ ShellTells
  <2>1. /\ shell.pc \in {"look", "compare", "meta"} /\ shell'.pc \in {"look", "compare", "meta", "read"}
        /\ shell'.read = shell.read /\ UNCHANGED <<trigger, file, writing>>
    BY <1>1, <1>4 DEF ShellLooks, ShellCompares, ShellTells, Again, Shell, gameVars
  <2> QED
    BY <2>1 DEF ShellHolds, OnePicture
<1>5. CASE ShellReads
  <2>1. shell.pc = "read" /\ UNCHANGED <<trigger, file, writing>>
    BY <1>5 DEF ShellReads, gameVars
  <2>2. CASE Len(shell.read) < Size
    <3>1. PICK n \in Len(shell.read) + 1..Size :
            shell' = [shell EXCEPT !.read = @ \o SubSeq(file[1], Len(@) + 1, n)]
      BY <1>5, <2>2 DEF ShellReads
    <3>2. shell.read \in Seq(Nat) /\ Len(shell.read) \in Nat
      BY <1>1 DEF Shell
    <3>3. file # Absent /\ Size = Len(file[1]) /\ file[1] \in Seq(Nat)
      BY <1>1, <2>2, <3>2 DEF Size, Perhaps
    <3> DEFINE g == shell.read \o SubSeq(file[1], Len(shell.read) + 1, n)
    <3>4. Len(g) = n /\ Range(g) \subseteq Range(shell.read) \union Range(file[1])
      BY <3>2, <3>3, ReadsOn
    <3>5. shell'.read = g /\ shell'.pc = "read"
      BY <1>1, <2>1, <3>1 DEF Shell
    <3> HIDE DEF g
    <3>6. OnePicture
      BY <2>1, <3>3 DEF ShellHolds
    <3>7. n <= Len(file[1])
      BY <3>2, <3>3
    <3>8. OnePicture'
      BY <2>1, <3>4, <3>5, <3>6, <3>7 DEF OnePicture
    <3> QED
      BY <2>1, <3>3, <3>5, <3>8 DEF ShellHolds
  <2>3. CASE ~(Len(shell.read) < Size)
    <3>1. shell'.pc = "answer" /\ shell'.read = shell.read
      BY <1>1, <1>5, <2>3 DEF ShellReads, Shell
    <3> QED
      BY <2>1, <3>1 DEF ShellHolds, OnePicture
  <2> QED
    BY <2>2, <2>3
<1> QED
  BY <1>2, <1>3, <1>4, <1>5 DEF ShellSteps

LEMMA PictureStep ==
  ASSUME GameType, CaptureType, CountInv, WindowInv, PictureInv, [Next]_vars
  PROVE  PictureInv'
<1>1. CASE GameMoves
  <2>1. UNCHANGED qaVars
    BY <1>1, GameMovesOn
  <2> QED
    BY <1>1, <2>1, GameHolds DEF PictureInv, Clean, NoneFailed, qaVars
<1>2. CASE WalkMoves \/ UNCHANGED vars
  <2>1. UNCHANGED <<qaVars, shot, trigger, file, writing>>
    BY <1>2, WalkTouches DEF WalkMoves, vars, gameVars
  <2> QED
    BY <2>1 DEF PictureInv, Clean, NoneFailed, qaVars, ShellHolds, OnePicture, Calm
<1>3. CASE QAMoves
  <2>1. QANext /\ shot' = shot
    BY <1>3, GameTouched DEF QAMoves
  <2>2. (NoneFailed' => NoneFailed) /\ (Clean' => Clean)
    BY <2>1, CleanBefore
  <2>3. expected = Whole /\ NoneFailed => PairsWhole
    BY DEF PictureInv, PairsWhole
  <2>4. SUFFICES /\ Clean' => ShellHolds'
                 /\ expected' = Whole /\ NoneFailed' => PairsWhole'
    BY DEF PictureInv, PairsWhole
  <2>5. ASSUME pairs' = <<>> \/ UNCHANGED <<pairs, expected>> PROVE expected' = Whole /\ NoneFailed' => PairsWhole'
    BY <2>2, <2>3, <2>5 DEF PairsWhole
  <2>6. ASSUME UNCHANGED shell, UNCHANGED <<trigger, file, writing>> PROVE Clean' => ShellHolds'
    BY <2>1, <2>2, <2>6 DEF PictureInv, ShellHolds, OnePicture, Calm
  <2>7. ASSUME shell.pc = "none", shell'.pc \in {"none", "clear"}, UNCHANGED <<trigger, file, writing>>
        PROVE  Clean' => ShellHolds'
    BY <2>2, <2>7 DEF PictureInv, ShellHolds, Calm
  <2>8. ASSUME Finished(DeadBurst)
        PROVE  /\ Clean' => ShellHolds'
               /\ expected' = Whole /\ NoneFailed' => PairsWhole'
    BY <2>8, DeadIsKnown DEF Clean
  <2>9. ASSUME Clean, shell.pc = "answer", Answered, shell.size = Whole, shell' = Idle,
               UNCHANGED <<trigger, file, writing>>
        PROVE  /\ ShellHolds' /\ Len(shell.read) = Whole
               /\ \A m, n \in 1..Whole : shell.read[m] = shell.read[n]
    <3>1. /\ Calm /\ Len(shell.read) = Whole
          /\ \A m, n \in 1..Whole : shell.read[m] = shell.read[n]
      BY <2>9, AnsweredWhole DEF PictureInv
    <3>2. shell'.pc = "none"
      BY <2>9 DEF Idle
    <3> QED
      BY <2>9, <3>1, <3>2 DEF ShellHolds, Calm
  <2>10. CASE ShellSteps
    <3>1. UNCHANGED <<pairs, expected>>
      BY <2>10 DEF ShellSteps
    <3>2. Clean' => ShellHolds'
      BY <2>1, <2>2, <2>10, ShellKeepsHold DEF PictureInv
    <3> QED
      BY <2>5, <3>1, <3>2
  <2>11. CASE Preflight
    <3>1. pairs' = <<>>
      BY <2>11 DEF Preflight, CountInv
    <3>2. ASSUME Clean' PROVE ShellHolds'
      <4>1. /\ Clean /\ shell.pc = "answer" /\ Answered /\ shell.size = Whole /\ shell' = Idle
            /\ UNCHANGED <<trigger, file, writing>>
        BY <2>2, <2>11, <3>2 DEF Preflight, Fails, Clean, gameVars
      <4> QED
        BY <2>9, <4>1
    <3> QED
      BY <2>5, <3>1, <3>2
  <2>12. CASE Load \/ StormBlows \/ StormUnderWay \/ StormEnds \/ WriteReport \/ Summarise
    <3>1. UNCHANGED <<shell, pairs, expected, trigger, file, writing>>
      BY <2>12 DEF Load, StormBlows, StormUnderWay, StormEnds, WriteReport, Summarise, gameVars
    <3> QED
      BY <2>5, <2>6, <3>1
  <2>13. CASE BeginPair
    <3>1. CASE page = "up"
      <4>1. /\ shell.pc = "none" /\ shell'.pc = "clear" /\ UNCHANGED <<pairs, expected, trigger, file, writing>>
        BY <2>13, <3>1 DEF BeginPair, Idle, gameVars
      <4> QED
        BY <2>5, <2>7, <4>1
    <3>2. CASE page # "up"
      BY <2>8, <2>13, <3>2 DEF BeginPair, Died, DeadBurst
    <3> QED
      BY <3>1, <3>2
  <2>14. CASE ReadCanvas
    <3>1. CASE page = "up"
      <4>1. UNCHANGED <<shell, pairs, expected, trigger, file, writing>>
        BY <2>14, <3>1 DEF ReadCanvas
      <4> QED
        BY <2>5, <2>6, <4>1
    <3>2. CASE page # "up"
      BY <2>8, <2>14, <3>2 DEF ReadCanvas, Died, DeadBurst
    <3> QED
      BY <3>1, <3>2
  <2>15. CASE EndPair
    <3>1. CASE ~Answered
      BY <2>8, <2>15, <3>1 DEF EndPair, Died, DeadBurst
    <3>2. CASE Answered
      <4> DEFINE pair == [host |-> shell.read, client |-> canvas[1], from |-> since, to |-> shot]
      <4>1. /\ phase = "pair" /\ shell.pc = "answer" /\ shell' = Idle /\ expected' = expected
            /\ pairs' = Append(pairs, pair) /\ UNCHANGED <<trigger, file, writing>>
        BY <2>15, <3>2 DEF EndPair, gameVars
      <4>2. expected = Whole => shell.size = Whole
        BY <3>2, ParityAssumption DEF Answered
      <4>3. expected = Whole /\ NoneFailed => Clean
        BY <4>1 DEF Clean
      <4>4. Clean => expected = Whole
        BY <4>1 DEF Clean
      <4>5. Clean' => ShellHolds'
        BY <2>2, <2>9, <3>2, <4>1, <4>2, <4>4
      <4>6. ASSUME expected' = Whole, NoneFailed' PROVE PairsWhole'
        <5>1. Len(pair.host) = Whole /\ \A m, n \in 1..Whole : pair.host[m] = pair.host[n]
          BY <2>2, <2>9, <3>2, <4>1, <4>2, <4>3, <4>6
        <5>2. PairsWhole
          BY <2>2, <2>3, <4>1, <4>6
        <5>3. \A k \in DOMAIN pairs' : (k \in DOMAIN pairs /\ pairs'[k] = pairs[k]) \/ pairs'[k] = pair
          <6>1. pairs \in Seq(Pair)
            BY DEF CaptureType
          <6> HIDE DEF pair
          <6> QED
            BY <4>1, <6>1
        <5> HIDE DEF pair
        <5> QED
          BY <5>1, <5>2, <5>3 DEF PairsWhole
      <4> QED
        BY <4>5, <4>6
    <3> QED
      BY <3>1, <3>2
  <2>16. CASE AnalyseBurst
    <3>1. pairs' = <<>> /\ UNCHANGED <<shell, trigger, file, writing>>
      BY <2>16 DEF AnalyseBurst, Finished, gameVars
    <3> QED
      BY <2>5, <2>6, <3>1
  <2> QED
    BY <2>1, <2>10, <2>11, <2>12, <2>13, <2>14, <2>15, <2>16 DEF QANext
<1> QED
  BY <1>1, <1>2, <1>3, SomeoneMoves

-----------------------------------------------------------------------------
(* The walk                                                                *)

LEMMA StepsType == \A s \in StepType : s.captures \in Nat \ {0}
<1>1. \A id, inputs, captures : Step(id, inputs, captures).captures = captures
  BY DEF Step
<1>2. (\A i \in 1..16 : Steps[i].captures = 1) /\ Steps[17].captures = SoakFrames
  BY <1>1 DEF Steps
<1>3. DOMAIN Steps = 1..17
  BY DEF Steps
<1>4. \A i \in DOMAIN Steps : Steps[i].captures \in Nat \ {0}
  BY <1>2, <1>3, WalkAssumption
<1> QED
  BY <1>4 DEF StepType

LEMMA SelectedType == Selected \in Seq(StepType)
<1> DEFINE ss == [i \in DOMAIN Steps |-> IF Steps[i].id \in Only THEN <<Steps[i]>> ELSE <<>>]
<1>1. DOMAIN Steps = 1..17
  BY DEF Steps
<1>2. \A i \in DOMAIN Steps : Steps[i] \in StepType
  BY DEF StepType
<1>3. \A i \in DOMAIN Steps : ss[i] \in Seq(StepType)
  BY <1>2
<1>5. ss \in Seq(Seq(StepType))
  BY <1>3, <1>1
<1>6. Selected = FlattenSeq(ss)
  BY DEF Selected
<1> HIDE DEF ss
<1> QED
  BY <1>5, <1>6, FlattenType

DoneType == [id : {s.id : s \in StepType}, rows : Seq(Row)]

LEMMA WalkStep ==
  ASSUME GameType, WalkInv, [Next]_vars
  PROVE  WalkInv'
<1>1. /\ Selected \in Seq(StepType) /\ Len(Selected) \in Nat /\ DOMAIN Selected = 1..Len(Selected)
      /\ \A i \in 1..Len(Selected) : Selected[i] \in StepType
      /\ \A i \in 1..Len(Selected) : Selected[i].captures \in Nat \ {0}
      /\ Grabs \in Nat \ {0} /\ shot \in Nat /\ drawn \in 0..shot
  BY SelectedType, StepsType, WalkAssumption DEF GameType
<1>2. /\ row \in Row /\ row.from \in Nat /\ row.from <= shot /\ row.natives \in Seq(Nat)
      /\ rows \in Seq(Row) /\ Len(rows) \in Nat
      /\ results \in Seq(DoneType) /\ Len(results) \in Nat
  BY DEF WalkInv, Row, DoneType
<1>3. CASE UNCHANGED walkVars /\ shot' \in Nat /\ shot' >= shot
  <2>1. row'.from <= shot'
    BY <1>1, <1>2, <1>3 DEF walkVars, GameType
  <2> QED
    BY <1>3, <2>1 DEF WalkInv, walkVars
<1>4. CASE GameMoves
  <2>1. UNCHANGED walkVars /\ shot' \in Nat /\ shot <= shot'
    BY <1>4, GameMovesOn
  <2> QED
    BY <1>1, <1>3, <2>1
<1>5. CASE QAMoves \/ UNCHANGED vars
  <2>1. UNCHANGED walkVars /\ shot' = shot
    BY <1>5, GameTouched DEF QAMoves, vars
  <2> QED
    BY <1>1, <1>3, <2>1
<1>6. CASE WalkMoves
  <2>1. WalkNext /\ shot' = shot
    BY <1>6, WalkTouches DEF WalkMoves
  <2>2. CASE WalkFails
    BY <2>1, <2>2 DEF WalkFails, WalkInv, InStep
  <2>3. CASE Screenshot
    <3>1. CASE page = "up"
      <4>1. PICK picture \in drawn..shot : row' = [client |-> picture, natives |-> <<>>, from |-> shot]
        BY <2>3, <3>1 DEF Screenshot
      <4>2. walk = "shoot" /\ walk' = "grab" /\ UNCHANGED <<step, rows, results, summary>>
        BY <2>3, <3>1 DEF Screenshot
      <4>3. row' \in Row /\ row'.from <= shot' /\ NotBefore(row') /\ Len(row'.natives) < Grabs
        <5>1. picture \in Nat /\ <<>> \in Seq(Nat)
          BY <1>1
        <5> QED
          BY <1>1, <2>1, <4>1, <5>1 DEF Row, NotBefore
      <4> QED
        BY <4>2, <4>3 DEF WalkInv, InStep
    <3>2. CASE page # "up"
      BY <2>2, <2>3, <3>2 DEF Screenshot
    <3> QED
      BY <3>1, <3>2
  <2>4. CASE WalkStarts
    <3>1. CASE page = "up"
      <4>1. walk = "start" /\ walk' = "act" /\ step' = 1 /\ UNCHANGED <<row, rows, results, summary>>
        BY <2>4, <3>1 DEF WalkStarts, OrFails
      <4>2. rows = <<>> /\ results = <<>> /\ Selected # <<>>
        BY <4>1 DEF WalkInv
      <4>3. 1 \in 1..Len(Selected) /\ Len(results) = 1 - 1 /\ Len(rows) < Selected[1].captures
        BY <1>1, <4>2
      <4> QED
        BY <2>1, <4>1, <4>3 DEF WalkInv, InStep
    <3>2. CASE page # "up"
      BY <2>2, <2>4, <3>2 DEF WalkStarts, OrFails
    <3> QED
      BY <3>1, <3>2
  <2>5. CASE SendInput
    <3>1. CASE page = "up"
      BY <2>1, <2>5, <3>1 DEF SendInput, OrFails, WalkInv
    <3>2. CASE page # "up"
      BY <2>2, <2>5, <3>2 DEF SendInput, OrFails
    <3> QED
      BY <3>1, <3>2
  <2>6. CASE ActDone
    BY <2>1, <2>6 DEF ActDone, WalkInv, InStep
  <2>7. CASE Grab /\ ~WalkFails
    <3>1. /\ walk = "grab" /\ row' = [row EXCEPT !.natives = Append(@, shot)]
          /\ walk' = IF Len(row.natives) + 1 < Grabs THEN "grab" ELSE "analyse"
          /\ UNCHANGED <<step, rows, results, summary>>
      BY <2>7 DEF Grab
    <3>2. Len(row.natives) < Grabs /\ NotBefore(row)
      BY <3>1 DEF WalkInv
    <3> DEFINE all == Append(row.natives, shot)
    <3>3. /\ all \in Seq(Nat) /\ Len(all) = Len(row.natives) + 1
          /\ \A k \in DOMAIN all : (k \in DOMAIN row.natives /\ all[k] = row.natives[k]) \/ all[k] = shot
      BY <1>1, <1>2
    <3>4. row'.natives = all /\ row'.from = row.from /\ row' \in Row
      BY <1>2, <3>1, <3>3 DEF Row
    <3> HIDE DEF all
    <3>5. NotBefore(row')
      BY <1>1, <1>2, <3>2, <3>3, <3>4 DEF NotBefore
    <3>6. (walk' = "grab" /\ Len(row'.natives) < Grabs) \/ (walk' = "analyse" /\ Len(row'.natives) = Grabs)
      BY <1>1, <1>2, <3>1, <3>2, <3>3, <3>4
    <3> QED
      BY <1>2, <2>1, <3>1, <3>4, <3>5, <3>6 DEF WalkInv, InStep
  <2>8. CASE WriteSummary
    BY <2>1, <2>8 DEF WriteSummary, WalkInv, InStep
  <2>9. CASE Analyse
    <3> DEFINE all == Append(rows, row)
    <3>1. /\ walk = "analyse" /\ row' = [client |-> 0, natives |-> <<>>, from |-> 0] /\ summary' = summary
          /\ IF Len(all) < Selected[step].captures
             THEN rows' = all /\ walk' = "shoot" /\ UNCHANGED <<step, results>>
             ELSE /\ rows' = <<>> /\ results' = Append(results, [id |-> Selected[step].id, rows |-> all])
                  /\ IF step < Len(Selected)
                     THEN walk' = "act" /\ step' = step + 1
                     ELSE walk' = "summary" /\ UNCHANGED step
      BY <2>9 DEF Analyse
    <3>2. /\ step \in 1..Len(Selected) /\ Len(results) = step - 1 /\ Len(rows) < Selected[step].captures
          /\ Captured(row)
      BY <3>1 DEF WalkInv, InStep, Captured
    <3>3. /\ all \in Seq(Row) /\ Len(all) = Len(rows) + 1
          /\ \A k \in DOMAIN all : (k \in DOMAIN rows /\ all[k] = rows[k]) \/ all[k] = row
      BY <1>2
    <3> HIDE DEF all
    <3>4. \A k \in DOMAIN all : Captured(all[k])
      BY <3>2, <3>3 DEF WalkInv
    <3>5. row' \in Row /\ row'.from <= shot' /\ NotBefore(row')
      <4>1. <<>> \in Seq(Nat) /\ 0 \in Nat
        OBVIOUS
      <4> QED
        BY <1>1, <2>1, <3>1, <4>1 DEF Row, NotBefore
    <3>6. CASE Len(all) < Selected[step].captures
      BY <3>1, <3>2, <3>3, <3>4, <3>5, <3>6 DEF WalkInv, InStep
    <3>7. CASE ~(Len(all) < Selected[step].captures)
      <4> DEFINE one == [id |-> Selected[step].id, rows |-> all]
      <4>1. Len(all) = Selected[step].captures
        BY <1>1, <1>2, <3>2, <3>3, <3>7
      <4>2. one \in DoneType
        BY <1>1, <3>2, <3>3 DEF DoneType
      <4>3. /\ results' \in Seq(DoneType) /\ Len(results') = step
            /\ \A i \in DOMAIN results' :
                  (i \in DOMAIN results /\ results'[i] = results[i]) \/ (i = step /\ results'[i] = one)
        <5>1. results' = Append(results, one) /\ step \in Nat
          BY <1>1, <3>1, <3>2, <3>7
        <5> HIDE DEF one
        <5> QED
          BY <1>2, <3>2, <4>2, <5>1
      <4>4. one.id = Selected[step].id /\ Len(one.rows) = Selected[step].captures
            /\ \A j \in DOMAIN one.rows : Captured(one.rows[j])
        BY <3>4, <4>1
      <4> HIDE DEF one
      <4>5. \A i \in DOMAIN results' :
              /\ results'[i].id = Selected[i].id /\ Len(results'[i].rows) = Selected[i].captures
              /\ \A j \in DOMAIN results'[i].rows : Captured(results'[i].rows[j])
        <5> SUFFICES ASSUME NEW i \in DOMAIN results'
                     PROVE  /\ results'[i].id = Selected[i].id /\ Len(results'[i].rows) = Selected[i].captures
                            /\ \A j \in DOMAIN results'[i].rows : Captured(results'[i].rows[j])
          OBVIOUS
        <5>1. CASE i \in DOMAIN results /\ results'[i] = results[i]
          BY <5>1 DEF WalkInv
        <5>2. CASE i = step /\ results'[i] = one
          BY <4>4, <5>2
        <5> QED
          BY <4>3, <5>1, <5>2
      <4>6. rows' = <<>> /\ rows' \in Seq(Row) /\ Len(rows') = 0 /\ \A i \in DOMAIN rows' : Captured(rows'[i])
        BY <3>1, <3>7
      <4>7. CASE step < Len(Selected)
        <5>1. walk' = "act" /\ step' = step + 1
          BY <3>1, <3>7, <4>7
        <5>2. step' \in 1..Len(Selected) /\ Len(results') = step' - 1 /\ Len(rows') < Selected[step'].captures
              /\ Len(results') <= Len(Selected)
          BY <1>1, <3>2, <4>3, <4>6, <4>7, <5>1
        <5> QED
          BY <3>5, <4>3, <4>5, <4>6, <5>1, <5>2 DEF WalkInv, InStep, DoneType
      <4>8. CASE ~(step < Len(Selected))
        <5>1. walk' = "summary" /\ Len(results') = Len(Selected)
          <6>1. walk' = "summary"
            BY <3>1, <3>7, <4>8
          <6>2. step = Len(Selected)
            <7>1. Len(Selected) \in Nat
              BY <1>1
            <7>2. step \in 1..Len(Selected)
              BY <3>2
            <7> QED
              BY <4>8, <7>1, <7>2
          <6> QED
            BY <4>3, <6>1, <6>2
        <5>2. Len(results') <= Len(Selected)
          BY <1>1, <5>1
        <5> QED
          BY <3>5, <4>3, <4>5, <4>6, <5>1, <5>2 DEF WalkInv, InStep, DoneType
      <4> QED
        BY <4>7, <4>8
    <3> QED
      BY <3>6, <3>7
  <2> QED
    BY <2>1, <2>2, <2>3, <2>4, <2>5, <2>6, <2>7, <2>8, <2>9 DEF WalkNext
<1> QED
  BY <1>4, <1>5, <1>6, SomeoneMoves

-----------------------------------------------------------------------------
(* The theorems                                                            *)

FigureInv ==
  \A i \in DOMAIN checkpoints :
    \A k \in DOMAIN checkpoints[i].analysis : Agrees(checkpoints[i].analysis[k])

LEMMA FigureStep ==
  ASSUME CaptureType, CountInv, FigureInv, [Next]_vars
  PROVE  FigureInv'
<1>1. CASE UNCHANGED checkpoints
  BY <1>1 DEF FigureInv
<1>2. ASSUME NEW c \in Checkpoint, Finished(c), \A k \in DOMAIN c.analysis : Agrees(c.analysis[k])
      PROVE  FigureInv'
  <2>1. /\ checkpoints'[Len(checkpoints) + 1] = c
        /\ \A i \in DOMAIN checkpoints' :
              i = Len(checkpoints) + 1 \/ (i \in DOMAIN checkpoints /\ checkpoints'[i] = checkpoints[i])
    BY <1>2, FinishedOne
  <2> QED
    BY <1>2, <2>1 DEF FigureInv
<1>3. CASE Finished(DeadBurst)
  <2>1. DOMAIN DeadBurst.analysis = {}
    BY DEF DeadBurst
  <2> QED
    BY <1>2, <1>3, <2>1, DeadBurstType
<1>4. CASE phase = "analyse" /\ Finished(WholeBurst)
  <2>1. WholeBurst \in Checkpoint /\ Agrees(Figures(HostsNow, ClientsNow))
    BY <1>4, WholeBurstType DEF CountInv
  <2>2. \A k \in DOMAIN WholeBurst.analysis : WholeBurst.analysis[k] = Figures(HostsNow, ClientsNow)
    BY DEF WholeBurst
  <2> QED
    BY <1>2, <1>4, <2>1, <2>2
<1>5. CASE QANext
  <2>1. CASE ShellSteps \/ Preflight \/ Load \/ StormBlows \/ StormUnderWay \/ StormEnds
             \/ WriteReport \/ Summarise
    BY <1>1, <2>1 DEF ShellSteps, Preflight, Load, StormBlows, StormUnderWay, StormEnds,
                     WriteReport, Summarise, Fails
  <2>2. CASE BeginPair \/ ReadCanvas \/ EndPair
    BY <1>1, <1>3, <2>2 DEF BeginPair, ReadCanvas, EndPair, Died, DeadBurst
  <2>3. CASE AnalyseBurst
    BY <1>4, <2>3 DEF AnalyseBurst, WholeBurst, HostsNow, ClientsNow
  <2> QED
    BY <1>5, <2>1, <2>2, <2>3 DEF QANext
<1> QED
  BY <1>1, <1>5 DEF Next, vars, qaVars

\* The inductive invariant.
Inv == /\ GameType /\ CaptureType /\ CountInv /\ WindowInv /\ PictureInv
       /\ WalkInv /\ FigureInv

LEMMA InitInv ==
  ASSUME Init
  PROVE  Inv
<1>1. /\ shot = 0 /\ drawn = 0 /\ page = "up" /\ trigger = FALSE /\ file = <<>> /\ writing = <<>>
  BY DEF Init, GameInit, Absent
<1>2. /\ phase \in {"preflight", "off"} /\ expected = 0 /\ canvas = <<>> /\ since = 0 /\ pairs = <<>>
      /\ checkpoints = <<>> /\ storm = 0 /\ report = <<>>
      /\ shell = Idle \/ shell = [Idle EXCEPT !.pc = "clear"]
  BY DEF Init, QAInit, QAOff, Absent
<1>3. /\ shell \in Shell /\ shell.read = <<>> /\ shell.pc \in {"none", "clear"}
  <2>1. <<>> \in Seq(Nat) /\ 0 \in Nat /\ "none" \in ShellAt /\ "clear" \in ShellAt
    BY DEF ShellAt
  <2>2. CASE shell = Idle
    BY <2>1, <2>2 DEF Idle, Shell
  <2>3. CASE shell = [Idle EXCEPT !.pc = "clear"]
    BY <2>1, <2>3 DEF Idle, Shell
  <2> QED
    BY <1>2, <2>2, <2>3
<1>4. /\ row = [client |-> 0, natives |-> <<>>, from |-> 0] /\ rows = <<>> /\ results = <<>>
      /\ walk \in {"off", "start", "failed"} /\ (walk = "start" => Selected # <<>>)
  BY DEF Init, WalkOff, WalkInit, WalkReset, Begin
<1>5. DOMAIN <<>> = {} /\ <<>> \in Seq(Nat) /\ <<>> \in Seq(Pair) /\ <<>> \in Seq(Checkpoint) /\ Len(<<>>) = 0
  OBVIOUS
<1>6. GameType
  <2>1. shot \in Nat /\ drawn \in 0..shot /\ page \in {"up", "gone"}
    BY <1>1
  <2>2. trigger \in BOOLEAN
    BY <1>1
  <2> QED
    BY <1>1, <2>1, <2>2 DEF GameType, Perhaps, Absent
<1>7. CaptureType
  <2>1. phase \in PhaseAt /\ 0 \in 0..shot /\ 0 \in 0..Zooms
    BY <1>1, <1>2, CaptureAssumption DEF PhaseAt
  <2> QED
    BY <1>2, <1>3, <1>5, <2>1 DEF CaptureType, Perhaps, Absent
<1>8. CountInv /\ FigureInv
  BY <1>2, <1>5 DEF CountInv, FigureInv
<1>9. WindowInv
  BY <1>2, <1>3, <1>5 DEF WindowInv
<1>10. PictureInv
  BY <1>1, <1>2, <1>3, <1>5 DEF PictureInv, ShellHolds, Calm, Absent
<1>11. WalkInv
  <2>1. /\ row.natives = <<>> /\ row \in Row /\ row.from <= shot
    BY <1>1, <1>4, <1>5 DEF Row
  <2>2. Len(Selected) \in Nat
    BY SelectedType
  <2>3. <<>> \in Seq(Row) /\ <<>> \in Seq(DoneType)
    OBVIOUS
  <2> QED
    BY <1>4, <1>5, <2>1, <2>2, <2>3 DEF WalkInv, InStep, NotBefore, DoneType
<1> QED
  BY <1>6, <1>7, <1>8, <1>9, <1>10, <1>11 DEF Inv

LEMMA InvIsInductive == Spec => []Inv
<1>1. Init => Inv
  BY InitInv
<1>2. Inv /\ [Next]_vars => Inv'
  BY GameTypeStep, CaptureTypeStep, CountStep, WindowStep, PictureStep, WalkStep, FigureStep DEF Inv
<1> QED
  BY <1>1, <1>2, PTL DEF Spec

\* The game's pictures, the shell's place and what main keeps have their types:
\* the game never has more to write than a whole picture, main never sends more
\* of the storm than asked for, and a file is there while it is written.
THEOREM CaptureTypesHold == Spec => [](GameType /\ CaptureType)
<1>1. Inv => GameType /\ CaptureType
  BY DEF Inv
<1> QED
  BY <1>1, InvIsInductive, PTL

\* Once the preflight's picture was whole, the game's side of every pair is of
\* the pair's own window, and one whole picture unless a capture failed.
THEOREM PairsAlwaysOfTheirWindow == Spec => []PairsAreOfTheirWindow
<1>1. ASSUME Inv PROVE PairsAreOfTheirWindow
  <2> SUFFICES ASSUME expected = Whole, NEW k \in DOMAIN pairs
               PROVE  /\ Range(pairs[k].host) \subseteq pairs[k].from + 1..pairs[k].to
                      /\ \/ Len(pairs[k].host) = Whole /\ Cardinality(Range(pairs[k].host)) = 1
                         \/ \E i \in DOMAIN checkpoints : checkpoints[i].failed
    BY DEF PairsAreOfTheirWindow
  <2>1. Range(pairs[k].host) \subseteq pairs[k].from + 1..pairs[k].to
    BY <1>1 DEF Inv, WindowInv
  <2>2. CASE NoneFailed
    <3>1. Len(pairs[k].host) = Whole /\ \A m, n \in 1..Whole : pairs[k].host[m] = pairs[k].host[n]
      BY <1>1, <2>2 DEF Inv, PictureInv
    <3>2. pairs[k].host \in Seq(Nat) /\ 1 \in 1..Whole
      <4>1. pairs \in Seq(Pair)
        BY <1>1 DEF Inv, CaptureType
      <4>2. pairs[k] \in Pair
        BY <4>1
      <4> QED
        BY <4>2, ParityAssumption DEF Pair
    <3>3. DOMAIN pairs[k].host = 1..Whole
      BY <3>1, <3>2
    <3>4. Range(pairs[k].host) = {pairs[k].host[1]}
      BY <3>1, <3>2, <3>3 DEF Range
    <3>5. Cardinality({pairs[k].host[1]}) = 1
      BY FS_Singleton
    <3> QED
      BY <2>1, <3>1, <3>4, <3>5
  <2>3. CASE ~NoneFailed
    BY <2>1, <2>3 DEF NoneFailed
  <2> QED
    BY <2>2, <2>3
<1> QED
  BY <1>1, InvIsInductive, PTL

\* No report leaves out anything that was asked for, and none passes a burst cut
\* short for a whole one.
THEOREM ReportsAlwaysWhole == Spec => []ReportIsWhole
<1>1. ASSUME Inv PROVE ReportIsWhole
  <2>1. ASSUME phase \in {"summary", "done"}
        PROVE  /\ Len(report) = Checkpoints
               /\ \A i \in DOMAIN report :
                     /\ report[i].failed <=> report[i].pairs # Burst
                     /\ i > 1 => report[i].storm = Zooms
    BY <1>1, <2>1 DEF Inv, CountInv
  <2>2. ASSUME walk = "done"
        PROVE  /\ [i \in DOMAIN summary |-> summary[i].id] = [i \in DOMAIN Selected |-> Selected[i].id]
               /\ \A i \in DOMAIN summary :
                     /\ Len(summary[i].rows) = Selected[i].captures
                     /\ \A r \in Range(summary[i].rows) :
                           Len(r.natives) = Grabs /\ \A k \in 1..Grabs : r.natives[k] >= r.from
    <3>1. /\ summary \in Seq(DoneType) /\ Len(summary) = Len(Selected)
          /\ \A i \in DOMAIN summary :
                /\ summary[i].id = Selected[i].id /\ Len(summary[i].rows) = Selected[i].captures
                /\ \A j \in DOMAIN summary[i].rows : Captured(summary[i].rows[j])
      BY <1>1, <2>2 DEF Inv, WalkInv, DoneType
    <3>2. DOMAIN summary = DOMAIN Selected
      BY <3>1, SelectedType
    <3>3. ASSUME NEW i \in DOMAIN summary, NEW r \in Range(summary[i].rows)
          PROVE  Len(r.natives) = Grabs /\ \A k \in 1..Grabs : r.natives[k] >= r.from
      <4>1. PICK j \in DOMAIN summary[i].rows : r = summary[i].rows[j]
        BY DEF Range
      <4>2. Captured(r)
        BY <3>1, <4>1
      <4>3. r \in Row
        <5>1. summary[i] \in DoneType
          BY <3>1
        <5>2. summary[i].rows \in Seq(Row)
          BY <5>1 DEF DoneType
        <5> QED
          BY <4>1, <5>2
      <4>4. DOMAIN r.natives = 1..Grabs
        BY <4>2, <4>3 DEF Captured, Row
      <4> QED
        BY <4>2, <4>4 DEF Captured, NotBefore
    <3> QED
      BY <3>1, <3>2, <3>3
  <2> QED
    BY <2>1, <2>2 DEF ReportIsWhole
<1> QED
  BY <1>1, InvIsInductive, PTL

\* The figures of every burst and of every capture agree with each other.
THEOREM FiguresAlwaysAgree == Spec => []FiguresAgree
<1>1. ASSUME Inv PROVE FiguresAgree
  <2>1. ASSUME NEW i \in DOMAIN checkpoints, NEW f \in Range(checkpoints[i].analysis)
        PROVE  Agrees(f)
    BY <1>1 DEF Inv, FigureInv, Range
  <2>2. ASSUME NEW i \in DOMAIN results, NEW r \in Range(results[i].rows)
        PROVE  LET native == BestNative(r.client, r.natives)
               IN  /\ Cardinality(NeverSeen(r.client, r.natives)) <= native.diff
                   /\ native.diff = Figures(r.natives, <<r.client>>).best
                   /\ Other(r.client, r.natives) \subseteq Mismatch(native.native, r.client)
    <3>1. PICK j \in DOMAIN results[i].rows : r = results[i].rows[j]
      BY DEF Range
    <3>2. Captured(r) /\ results \in Seq(DoneType)
      BY <1>1, <3>1 DEF Inv, WalkInv, DoneType
    <3>3. r \in Row
      <4>0. results[i] \in DoneType
        BY <3>2
      <4>1. results[i].rows \in Seq(Row)
        BY <4>0 DEF DoneType
      <4> QED
        BY <3>1, <4>1
    <3>4. DOMAIN r.natives = 1..Grabs /\ Grabs \in Nat \ {0}
      BY <3>2, <3>3, WalkAssumption DEF Captured, Row
    <3> QED
      BY <3>4, NativeAgrees
  <2> QED
    BY <2>1, <2>2 DEF FiguresAgree, Agrees
<1> QED
  BY <1>1, InvIsInductive, PTL
=============================================================================
