-------------------------- MODULE PageSessionProofs --------------------------
(***************************************************************************)
(* Theorems about a page's orders and its signalling, for any number of    *)
(* requests under way, of candidates and of faults.                        *)
(***************************************************************************)
EXTENDS PageSession, SequenceTheorems, FiniteSetTheorems, TLAPS

-----------------------------------------------------------------------------
(* Orders and the flags that tell of them                                  *)

FlagInv == server \in States /\ FlagsTellOrders

LEMMA FlagInit == Init => FlagInv
BY DEF Init, FlagInv, FlagsTellOrders, States

LEMMA FlagStep == FlagInv /\ [Next]_vars => FlagInv'
<1> SUFFICES ASSUME FlagInv, [Next]_vars PROVE FlagInv'
  OBVIOUS
<1> USE DEF FlagInv, FlagsTellOrders, States, sessionVars
<1>1. CASE HubNext
  <2>1. ASSUME NEW s \in Polls, HubAnswersPoll(s) PROVE FlagInv'
    BY <2>1 DEF HubAnswersPoll, hubVars
  <2>2. CASE SomebodyStarts
    BY <2>2 DEF SomebodyStarts
  <2>3. CASE GameEnds
    BY <2>3 DEF GameEnds
  <2>4. CASE HubStarts
    BY <2>4 DEF HubStarts
  <2>5. CASE HubAnswersStart
    BY <2>5 DEF HubAnswersStart, hubVars
  <2>6. CASE HubStops
    BY <2>6 DEF HubStops
  <2>7. CASE HubStopped
    BY <2>7 DEF HubStopped
  <2>8. CASE HubAnswersStop
    BY <2>8 DEF HubAnswersStop, hubVars
  <2>9. CASE AnswerLost
    BY <2>9 DEF AnswerLost, hubVars
  <2> QED
    BY <1>1, <2>1, <2>2, <2>3, <2>4, <2>5, <2>6, <2>7, <2>8, <2>9 DEF HubNext
<1>2. CASE AppNext
  <2>1. ASSUME NEW s \in Polls, FetchSession(s) \/ SessionFetched(s) \/ FetchFails(s) PROVE FlagInv'
    BY <2>1 DEF FetchSession, SessionFetched, FetchFails, hubVars
  <2>2. CASE HandleLaunch
    BY <2>2 DEF HandleLaunch, hubVars
  <2>3. CASE LaunchAnswered
    BY <2>3 DEF LaunchAnswered, hubVars
  <2>4. CASE LaunchRefused
    BY <2>4 DEF LaunchRefused, hubVars
  <2>5. CASE LaunchTimer
    BY <2>5 DEF LaunchTimer, hubVars
  <2>6. CASE HandleStop
    BY <2>6 DEF HandleStop, hubVars
  <2>7. CASE StopAnswered
    BY <2>7 DEF StopAnswered, hubVars
  <2>8. CASE StopFails
    BY <2>8 DEF StopFails, hubVars
  <2>9. CASE Resume \/ UserNavigates
    BY <2>9 DEF Resume, UserNavigates, hubVars
  <2> QED
    BY <1>2, <2>1, <2>2, <2>3, <2>4, <2>5, <2>6, <2>7, <2>8, <2>9 DEF AppNext
<1>3. CASE CanvasNext
  BY <1>3 DEF CanvasNext, Aside, hubVars
<1>4. CASE UNCHANGED vars
  BY <1>4 DEF vars, hubVars
<1> QED
  BY <1>1, <1>2, <1>3, <1>4 DEF Next

\* A page's buttons spin exactly while its order is under way, and it never has
\* two starts or two stops under way at once (App.jsx, handleLaunch, handleStop).
THEOREM FlagsAlwaysTellOrders == Spec => []FlagsTellOrders
<1>1. FlagInv => FlagsTellOrders
  BY DEF FlagInv
<1> QED
  BY <1>1, FlagInit, FlagStep, PTL DEF Spec

-----------------------------------------------------------------------------
(* Candidates                                                              *)

CanvasRecord ==
  [mounted : {TRUE}, alive : BOOLEAN, ws : {"connecting", "open"},
   input : BOOLEAN, resizes : BOOLEAN,
   pc : {"none", "offering", "describing", "offered"},
   dc : {"none", "connecting", "open", "closed"},
   inputDc : {"none", "connecting", "open", "closed"},
   ready : BOOLEAN, drawn : BOOLEAN, described : {"no", "awaited", "yes"},
   pending : Seq(Candidates), drained : Candidates \cup {NoCandidate},
   added : SUBSET Candidates, early : SUBSET Candidates]

\* What a canvas c and the messages d on their way to it agree on: nothing
\* comes before the offer, the answer comes once, and the queue of candidates
\* is drained only after the answer and then to the end.
Signalling(c, d) ==
  /\ c \in CanvasRecord
  /\ d \in Seq(Candidates \cup {Answer})
  /\ c.ws = "connecting" => c.pc = "none"
  /\ c.pc # "offered" => d = <<>> /\ c.described = "no"
  /\ c.described # "no" => \A i \in 1..Len(d) : d[i] # Answer
  /\ \A i, j \in 1..Len(d) : i # j => d[i] # d[j]
  /\ c.described # "yes" => c.drained = NoCandidate
  /\ c.described = "yes" /\ c.drained = NoCandidate => c.pending = <<>>
  /\ c.early = {}

SignalInv == IF canvas.mounted THEN Signalling(canvas, down) ELSE canvas = NoCanvas

\* A canvas that changes only what no candidate depends on.
LEMMA Unrelated ==
  ASSUME NEW c, NEW d, NEW e, Signalling(c, d), e \in CanvasRecord,
         e.described = c.described, e.pending = c.pending, e.drained = c.drained,
         e.early = c.early, e.pc = "offered" \/ c.pc # "offered",
         e.ws = "connecting" => e.pc = "none"
  PROVE  Signalling(e, d)
BY DEF Signalling

LEMMA FreshCanvas ==
  ASSUME server \in States
  PROVE  Signalling(NewCanvas, <<>>) /\ NewCanvas.mounted
<1>1. NewCanvas \in CanvasRecord /\ NewCanvas.mounted
  BY DEF NewCanvas, CanvasRecord, NoCandidate
<1>2. <<>> \in Seq(Candidates \cup {Answer}) /\ Len(<<>>) = 0
  BY EmptySeq
<1> QED
  BY <1>1, <1>2 DEF Signalling, NewCanvas

\* The next waiting candidate is taken up, or none is left.
LEMMA TakesPending ==
  ASSUME NEW c, NEW d, c \in CanvasRecord, c.described = "yes", c.early = {}, c.pc = "offered",
         d \in Seq(Candidates \cup {Answer}), \A i \in 1..Len(d) : d[i] # Answer,
         \A i, j \in 1..Len(d) : i # j => d[i] # d[j], c.ws # "connecting"
  PROVE  Signalling(TakePending(c), d)
<1>1. CASE c.pending = <<>>
  <2>1. TakePending(c) = [c EXCEPT !.drained = NoCandidate]
    BY <1>1 DEF TakePending
  <2> DEFINE e == [c EXCEPT !.drained = NoCandidate]
  <2>2. /\ e \in CanvasRecord /\ e.described = "yes" /\ e.early = {} /\ e.pc = "offered"
        /\ e.pending = <<>> /\ e.ws # "connecting"
    BY <1>1 DEF CanvasRecord
  <2> QED
    BY <2>1, <2>2 DEF Signalling
<1>2. CASE c.pending # <<>>
  <2> DEFINE e == [c EXCEPT !.drained = Head(c.pending), !.pending = Tail(c.pending)]
  <2>1. TakePending(c) = e
    BY <1>2 DEF TakePending
  <2>2. c.pending \in Seq(Candidates)
    BY DEF CanvasRecord
  <2>3. Head(c.pending) \in Candidates /\ Tail(c.pending) \in Seq(Candidates)
    BY <1>2, <2>2, HeadTailProperties
  <2>4. /\ e \in CanvasRecord /\ e.described = "yes" /\ e.early = {} /\ e.pc = "offered"
        /\ e.drained = Head(c.pending) /\ e.ws # "connecting"
    BY <2>3 DEF CanvasRecord
  <2> HIDE DEF e
  <2> QED
    BY <2>1, <2>3, <2>4, CandidatesAssumption DEF Signalling
<1> QED
  BY <1>1, <1>2

LEMMA SignalInit == Init => SignalInv
<1> SUFFICES ASSUME Init PROVE SignalInv
  OBVIOUS
<1>1. server \in States /\ down = <<>> /\ (canvas = NewCanvas \/ canvas = NoCanvas)
  BY DEF Init, States
<1>2. CASE canvas = NewCanvas
  BY <1>1, <1>2, FreshCanvas DEF SignalInv
<1>3. CASE canvas = NoCanvas
  BY <1>3 DEF SignalInv, NoCanvas
<1> QED
  BY <1>1, <1>2, <1>3

\* Going home, to the stream, or through the history.
LEMMA HomeKeeps == NavigateToHome => SignalInv'
BY DEF NavigateToHome, SignalInv, NoCanvas

LEMMA StreamKeeps == FlagInv /\ SignalInv /\ NavigateToStream => SignalInv'
<1> SUFFICES ASSUME FlagInv, SignalInv, NavigateToStream PROVE SignalInv'
  OBVIOUS
<1>1. CASE canvas.mounted
  BY <1>1 DEF NavigateToStream, SignalInv
<1>2. CASE ~canvas.mounted
  <2>1. canvas' = NewCanvas /\ down' = <<>>
    BY <1>2 DEF NavigateToStream
  <2>2. Signalling(canvas', down') /\ canvas'.mounted
    BY <2>1, FreshCanvas DEF FlagInv
  <2> QED
    BY <2>2 DEF SignalInv
<1> QED
  BY <1>1, <1>2

LEMMA HistoryKeeps ==
  ASSUME FlagInv, SignalInv, NEW p, HandlePopState(p)
  PROVE  SignalInv'
<1>1. CASE UNCHANGED <<canvas, down>>
  BY <1>1 DEF SignalInv
<1>2. CASE canvas' = NewCanvas /\ down' = <<>>
  <2>1. Signalling(canvas', down') /\ canvas'.mounted
    BY <1>2, FreshCanvas DEF FlagInv
  <2> QED
    BY <2>1 DEF SignalInv
<1>3. CASE canvas' = NoCanvas
  BY <1>3 DEF SignalInv, NoCanvas
<1>4. \/ p \in StreamPaths /\ canvas.mounted
      \/ p \in StreamPaths /\ ~canvas.mounted
      \/ p \notin StreamPaths
  BY DEF SignalInv, NoCanvas, Signalling, CanvasRecord
<1> QED
  BY <1>1, <1>2, <1>3, <1>4 DEF HandlePopState

LEMMA DeathKeeps == SignalInv /\ GameDies /\ down' = down => SignalInv'
<1> SUFFICES ASSUME SignalInv, GameDies, down' = down PROVE SignalInv'
  OBVIOUS
<1>1. CASE canvas.mounted
  <2>1. canvas' = [canvas EXCEPT !.alive = FALSE] /\ Signalling(canvas, down)
    BY <1>1 DEF GameDies, SignalInv
  <2>2. canvas \in CanvasRecord
    BY <2>1 DEF Signalling
  <2>3. /\ canvas' \in CanvasRecord /\ canvas'.described = canvas.described
        /\ canvas'.pending = canvas.pending /\ canvas'.drained = canvas.drained
        /\ canvas'.early = canvas.early /\ canvas'.pc = canvas.pc /\ canvas'.mounted
        /\ canvas'.ws = canvas.ws
    BY <2>1, <2>2 DEF CanvasRecord
  <2>4. canvas.ws = "connecting" => canvas.pc = "none"
    BY <2>1 DEF Signalling
  <2>5. Signalling(canvas', down)
    BY <2>1, <2>3, <2>4, Unrelated
  <2> QED
    BY <2>3, <2>5 DEF SignalInv
<1>2. CASE ~canvas.mounted
  BY <1>2 DEF GameDies, SignalInv
<1> QED
  BY <1>1, <1>2

\* The steps of a mounted canvas' connection.
LEMMA ConnectionKeeps == FlagInv /\ SignalInv /\ ConnectionNext => SignalInv'
<1> SUFFICES ASSUME FlagInv, SignalInv, ConnectionNext PROVE SignalInv'
  OBVIOUS
<1>0. ASSUME canvas.mounted
      PROVE  /\ Signalling(canvas, down) /\ canvas \in CanvasRecord
             /\ down \in Seq(Candidates \cup {Answer})
             /\ canvas.ws = "connecting" => canvas.pc = "none"
  BY <1>0 DEF SignalInv, Signalling
<1>1. ASSUME canvas.mounted, canvas' \in CanvasRecord, down' = down,
             canvas'.described = canvas.described, canvas'.pending = canvas.pending,
             canvas'.drained = canvas.drained, canvas'.early = canvas.early,
             canvas'.pc = "offered" \/ canvas.pc # "offered",
             canvas'.ws = "connecting" => canvas'.pc = "none"
      PROVE  SignalInv'
  <2>1. Signalling(canvas', down') /\ canvas'.mounted
    BY <1>0, <1>1, Unrelated DEF CanvasRecord
  <2> QED
    BY <2>1 DEF SignalInv
<1>2. ASSUME Signalling(canvas', down') PROVE SignalInv'
  BY <1>2 DEF SignalInv, Signalling, CanvasRecord
<1>3. CASE WsOpens
  <2>1. /\ canvas.mounted /\ canvas.ws = "connecting" /\ down' = down
        /\ canvas' = SetupWebRTC([canvas EXCEPT !.ws = "open", !.input = TRUE, !.resizes = TRUE])
    BY <1>3 DEF WsOpens
  <2>2. /\ canvas' \in CanvasRecord /\ canvas'.ws = "open" /\ canvas.pc = "none"
        /\ canvas'.described = canvas.described /\ canvas'.pending = canvas.pending
        /\ canvas'.drained = canvas.drained /\ canvas'.early = canvas.early
    BY <1>0, <2>1 DEF SetupWebRTC, CanvasRecord
  <2> QED
    BY <1>1, <2>1, <2>2
<1>4. CASE OfferCreated
  <2>1. /\ canvas.mounted /\ canvas.pc = "offering" /\ down' = down
        /\ canvas' = [canvas EXCEPT !.pc = "describing"]
    BY <1>4 DEF OfferCreated
  <2>2. /\ canvas' \in CanvasRecord /\ canvas'.ws = canvas.ws
        /\ canvas'.described = canvas.described /\ canvas'.pending = canvas.pending
        /\ canvas'.drained = canvas.drained /\ canvas'.early = canvas.early
    BY <1>0, <2>1 DEF CanvasRecord
  <2> QED
    BY <1>0, <1>1, <2>1, <2>2
<1>5. CASE OfferSent
  <2>1. /\ canvas.mounted /\ canvas.pc = "describing" /\ canvas.ws = "open"
        /\ canvas' = [canvas EXCEPT !.pc = "offered"]
        /\ down' \in [1..(Cardinality(Candidates) + 1) -> Candidates \cup {Answer}]
        /\ \A i, j \in DOMAIN down' : i # j => down'[i] # down'[j]
    BY <1>5 DEF OfferSent
  <2>2. Cardinality(Candidates) + 1 \in Nat
    BY ConnectionAssumption, FS_CardinalityType
  <2>3. down' \in Seq(Candidates \cup {Answer})
    BY <2>1, <2>2, SeqDef
  <2>4. DOMAIN down' = 1..Len(down')
    BY <2>3, LenProperties
  <2>5. canvas.described = "no" /\ canvas \in CanvasRecord /\ Signalling(canvas, down)
    BY <1>0, <2>1 DEF Signalling
  <2>6. /\ canvas' \in CanvasRecord /\ canvas'.ws = "open" /\ canvas'.pc = "offered"
        /\ canvas'.described = "no" /\ canvas'.pending = canvas.pending
        /\ canvas'.drained = canvas.drained /\ canvas'.early = canvas.early
    BY <2>1, <2>5 DEF CanvasRecord
  <2>7. Signalling(canvas', down')
    BY <2>1, <2>3, <2>4, <2>5, <2>6 DEF Signalling
  <2> QED
    BY <1>2, <2>7
<1>6. ASSUME canvas.mounted, down # <<>>, down' = Tail(down)
      PROVE  /\ down' \in Seq(Candidates \cup {Answer})
             /\ \A i, j \in 1..Len(down') : i # j => down'[i] # down'[j]
             /\ \A i \in 1..Len(down') : down'[i] # Head(down)
             /\ canvas.described # "no" => \A i \in 1..Len(down') : down'[i] # Answer
             /\ Head(down) \in Candidates \cup {Answer} /\ canvas.pc = "offered"
             /\ canvas.described # "no" => Head(down) # Answer
  <2>1. Signalling(canvas, down) /\ down \in Seq(Candidates \cup {Answer})
    BY <1>0, <1>6
  <2>2. /\ Len(down) \in Nat /\ Len(down) >= 1 /\ Head(down) = down[1]
        /\ Head(down) \in Candidates \cup {Answer}
        /\ down' \in Seq(Candidates \cup {Answer}) /\ Len(down') = Len(down) - 1
        /\ \A i \in 1..Len(down) - 1 : down'[i] = down[i + 1] /\ i + 1 \in 1..Len(down)
    <3>1. Len(down) \in Nat /\ Len(down) >= 1
      BY <1>6, <2>1, EmptySeq, LenProperties
    <3>2. Head(down) = down[1] /\ Head(down) \in Candidates \cup {Answer}
      BY <1>6, <2>1, HeadTailProperties
    <3>3. down' \in Seq(Candidates \cup {Answer}) /\ Len(down') = Len(down) - 1
      BY <1>6, <2>1, HeadTailProperties
    <3>4. \A i \in 1..Len(down) - 1 : down'[i] = down[i + 1] /\ i + 1 \in 1..Len(down)
      BY <1>6, <2>1, <3>1, HeadTailProperties
    <3> QED
      BY <3>1, <3>2, <3>3, <3>4
  <2>3. 1 \in 1..Len(down) /\ \A i \in 1..Len(down) - 1 : i + 1 # 1
    BY <2>2
  <2>4. \A i \in 1..Len(down') : down'[i] # Head(down)
    BY <2>1, <2>2, <2>3 DEF Signalling
  <2>5. \A i, j \in 1..Len(down') : i # j => down'[i] # down'[j]
    <3> SUFFICES ASSUME NEW i \in 1..Len(down'), NEW j \in 1..Len(down'), i # j
                 PROVE  down'[i] # down'[j]
      OBVIOUS
    <3>1. /\ i + 1 \in 1..Len(down) /\ down'[i] = down[i + 1]
          /\ j + 1 \in 1..Len(down) /\ down'[j] = down[j + 1] /\ i + 1 # j + 1
      BY <2>2
    <3> QED
      BY <2>1, <3>1 DEF Signalling
  <2>6. canvas.described # "no" => \A i \in 1..Len(down') : down'[i] # Answer
    BY <2>1, <2>2 DEF Signalling
  <2>7. canvas.pc = "offered" /\ (canvas.described # "no" => Head(down) # Answer)
    BY <1>6, <2>1, <2>2, <2>3 DEF Signalling
  <2> QED
    BY <2>2, <2>4, <2>5, <2>6, <2>7
<1>7. CASE AnswerArrives
  <2>1. /\ canvas.mounted /\ canvas.ws = "open" /\ down # <<>> /\ Head(down) = Answer
        /\ canvas' = [canvas EXCEPT !.described = "awaited"] /\ down' = Tail(down)
    BY <1>7 DEF AnswerArrives
  <2>2. /\ Signalling(canvas, down) /\ canvas \in CanvasRecord /\ canvas.pc = "offered"
        /\ canvas.described = "no"
    BY <1>0, <1>6, <2>1
  <2>3. /\ canvas' \in CanvasRecord /\ canvas'.ws = "open" /\ canvas'.pc = "offered"
        /\ canvas'.described = "awaited" /\ canvas'.drained = canvas.drained
        /\ canvas'.early = canvas.early
    BY <2>1, <2>2 DEF CanvasRecord
  <2>4. /\ down' \in Seq(Candidates \cup {Answer})
        /\ \A i, j \in 1..Len(down') : i # j => down'[i] # down'[j]
        /\ \A i \in 1..Len(down') : down'[i] # Answer
    BY <1>6, <2>1
  <2>5. Signalling(canvas', down')
    BY <2>2, <2>3, <2>4 DEF Signalling
  <2> QED
    BY <1>2, <2>5
<1>8. CASE CandidateArrives
  <2>1. /\ canvas.mounted /\ canvas.ws = "open" /\ down # <<>> /\ Head(down) # Answer
        /\ canvas' = IF canvas.described = "yes" THEN AddIceCandidate(canvas, Head(down))
                     ELSE [canvas EXCEPT !.pending = Append(@, Head(down))]
        /\ down' = Tail(down)
    BY <1>8 DEF CandidateArrives
  <2>2. /\ Signalling(canvas, down) /\ canvas \in CanvasRecord /\ canvas.pc = "offered"
        /\ Head(down) \in Candidates
    BY <1>0, <1>6, <2>1
  <2>3. /\ down' \in Seq(Candidates \cup {Answer})
        /\ \A i, j \in 1..Len(down') : i # j => down'[i] # down'[j]
        /\ canvas.described # "no" => \A i \in 1..Len(down') : down'[i] # Answer
    BY <1>6, <2>1
  <2>4. CASE canvas.described = "yes"
    <3>1. PICK h \in Candidates : canvas' = [canvas EXCEPT !.added = @ \cup {h}, !.early = @]
      BY <2>1, <2>2, <2>4 DEF AddIceCandidate
    <3>2. /\ canvas' \in CanvasRecord /\ canvas'.ws = "open" /\ canvas'.pc = "offered"
          /\ canvas'.described = "yes" /\ canvas'.drained = canvas.drained
          /\ canvas'.pending = canvas.pending /\ canvas'.early = canvas.early
      <4> DEFINE more == canvas.added \cup {h}
      <4>1. more \in SUBSET Candidates
        BY <2>2 DEF CanvasRecord
      <4>2. canvas' = [canvas EXCEPT !.added = more, !.early = canvas.early]
        BY <3>1
      <4> HIDE DEF more
      <4>3. canvas' \in CanvasRecord
        BY <2>2, <4>1, <4>2 DEF CanvasRecord
      <4>4. /\ canvas'.ws = canvas.ws /\ canvas'.pc = canvas.pc /\ canvas'.pending = canvas.pending
            /\ canvas'.described = canvas.described /\ canvas'.drained = canvas.drained
            /\ canvas'.early = canvas.early
        BY <2>2, <4>2 DEF CanvasRecord
      <4> QED
        BY <2>1, <2>2, <2>4, <4>3, <4>4
    <3>3. Signalling(canvas', down')
      BY <2>2, <2>3, <2>4, <3>2 DEF Signalling
    <3> QED
      BY <1>2, <3>3
  <2>5. CASE canvas.described # "yes"
    <3>1. canvas' = [canvas EXCEPT !.pending = Append(canvas.pending, Head(down))]
      BY <2>1, <2>5
    <3>2. Append(canvas.pending, Head(down)) \in Seq(Candidates)
      <4>1. canvas.pending \in Seq(Candidates)
        BY <2>2 DEF CanvasRecord
      <4> QED
        BY <2>2, <4>1, AppendProperties
    <3>3. /\ canvas' \in CanvasRecord /\ canvas'.ws = "open" /\ canvas'.pc = "offered"
          /\ canvas'.described = canvas.described /\ canvas'.drained = canvas.drained
          /\ canvas'.early = canvas.early
      BY <2>1, <2>2, <3>1, <3>2 DEF CanvasRecord
    <3>4. Signalling(canvas', down')
      BY <2>2, <2>3, <2>5, <3>3 DEF Signalling
    <3> QED
      BY <1>2, <3>4
  <2> QED
    BY <2>4, <2>5
<1>9. CASE RemoteDescriptionSet
  <2> DEFINE e == [canvas EXCEPT !.described = "yes"]
  <2>1. /\ canvas.mounted /\ canvas.described = "awaited" /\ down' = down
        /\ canvas' = TakePending(e)
    BY <1>9 DEF RemoteDescriptionSet
  <2>2. Signalling(canvas, down) /\ canvas \in CanvasRecord
    BY <1>0, <2>1
  <2>3. /\ canvas.pc = "offered" /\ canvas.ws # "connecting" /\ canvas.early = {}
        /\ down \in Seq(Candidates \cup {Answer}) /\ \A i \in 1..Len(down) : down[i] # Answer
        /\ \A i, j \in 1..Len(down) : i # j => down[i] # down[j]
    BY <2>1, <2>2 DEF Signalling
  <2>4. /\ e \in CanvasRecord /\ e.described = "yes" /\ e.early = {} /\ e.pc = "offered"
        /\ e.ws # "connecting"
    BY <2>2, <2>3 DEF CanvasRecord
  <2> HIDE DEF e
  <2>5. Signalling(canvas', down')
    BY <2>1, <2>3, <2>4, TakesPending
  <2> QED
    BY <1>2, <2>5
<1>10. CASE PendingAdded
  <2> DEFINE e == [canvas EXCEPT !.added = @ \cup {canvas.drained}, !.early = @]
  <2>1. /\ canvas.mounted /\ canvas.drained # NoCandidate /\ down' = down
        /\ canvas' = TakePending(AddIceCandidate(canvas, canvas.drained))
    BY <1>10 DEF PendingAdded
  <2>2. Signalling(canvas, down) /\ canvas \in CanvasRecord
    BY <1>0, <2>1
  <2>3. /\ canvas.pc = "offered" /\ canvas.ws # "connecting" /\ canvas.early = {}
        /\ canvas.described = "yes"
        /\ down \in Seq(Candidates \cup {Answer}) /\ \A i \in 1..Len(down) : down[i] # Answer
        /\ \A i, j \in 1..Len(down) : i # j => down[i] # down[j]
    BY <2>1, <2>2 DEF Signalling
  <2>4. AddIceCandidate(canvas, canvas.drained) = e
    BY <2>3 DEF AddIceCandidate
  <2>5. canvas.drained \in Candidates
    BY <2>1, <2>2 DEF CanvasRecord
  <2>6. /\ e \in CanvasRecord /\ e.described = "yes" /\ e.early = {} /\ e.pc = "offered"
        /\ e.ws # "connecting"
    BY <2>2, <2>3, <2>5 DEF CanvasRecord
  <2> HIDE DEF e
  <2>7. Signalling(canvas', down')
    BY <2>1, <2>3, <2>4, <2>6, TakesPending
  <2> QED
    BY <1>2, <2>7
<1>11. CASE StreamOpens \/ InputOpens \/ FrameDrawn \/ StreamCloses
  <2>1. /\ canvas.mounted /\ down' = down
        /\ \/ canvas' = [canvas EXCEPT !.dc = "open", !.ready = TRUE]
           \/ canvas' = [canvas EXCEPT !.inputDc = "open"]
           \/ canvas' = [canvas EXCEPT !.drawn = TRUE]
           \/ canvas' = [canvas EXCEPT !.dc = "closed", !.inputDc = "closed", !.ready = FALSE]
    BY <1>11 DEF StreamOpens, InputOpens, FrameDrawn, StreamCloses
  <2>2. canvas \in CanvasRecord /\ (canvas.ws = "connecting" => canvas.pc = "none")
    BY <1>0, <2>1
  <2> DEFINE Related == /\ canvas' \in CanvasRecord /\ canvas'.ws = canvas.ws
                        /\ canvas'.pc = canvas.pc /\ canvas'.described = canvas.described
                        /\ canvas'.pending = canvas.pending /\ canvas'.drained = canvas.drained
                        /\ canvas'.early = canvas.early
  <2>3. Related
    <3>1. CASE canvas' = [canvas EXCEPT !.dc = "open", !.ready = TRUE]
      BY <2>2, <3>1 DEF CanvasRecord
    <3>2. CASE canvas' = [canvas EXCEPT !.inputDc = "open"]
      BY <2>2, <3>2 DEF CanvasRecord
    <3>3. CASE canvas' = [canvas EXCEPT !.drawn = TRUE]
      BY <2>2, <3>3 DEF CanvasRecord
    <3>4. CASE canvas' = [canvas EXCEPT !.dc = "closed", !.inputDc = "closed", !.ready = FALSE]
      BY <2>2, <3>4 DEF CanvasRecord
    <3> QED
      BY <2>1, <3>1, <3>2, <3>3, <3>4
  <2> QED
    BY <1>1, <2>1, <2>2, <2>3
<1>12. CASE WsCloses \/ WsFails
  BY <1>12, HomeKeeps DEF WsCloses, WsFails
<1>13. CASE OrphanCloses
  BY <1>13 DEF OrphanCloses, SignalInv, NoCanvas
<1> QED
  BY <1>3, <1>4, <1>5, <1>7, <1>8, <1>9, <1>10, <1>11, <1>12, <1>13 DEF ConnectionNext

LEMMA SignalStep == FlagInv /\ SignalInv /\ [Next]_vars => SignalInv'
<1> SUFFICES ASSUME FlagInv, SignalInv, [Next]_vars PROVE SignalInv'
  OBVIOUS
<1>1. ASSUME UNCHANGED <<canvas, down>> PROVE SignalInv'
  BY <1>1 DEF SignalInv
<1>2. CASE HubNext
  <2>1. CASE GameEnds
    BY <2>1, DeathKeeps DEF GameEnds
  <2>2. CASE HubStops
    <3>1. UNCHANGED <<canvas, down>> \/ (GameDies /\ down' = down)
      BY <2>2 DEF HubStops
    <3> QED
      BY <1>1, <3>1, DeathKeeps
  <2>3. CASE AnswerLost
    BY <1>1, <2>3 DEF AnswerLost
  <2>4. ASSUME NEW s \in Polls, HubAnswersPoll(s) PROVE SignalInv'
    BY <1>1, <2>4 DEF HubAnswersPoll, connectionVars
  <2>5. CASE SomebodyStarts \/ HubStarts \/ HubAnswersStart \/ HubStopped \/ HubAnswersStop
    BY <1>1, <2>5 DEF SomebodyStarts, HubStarts, HubAnswersStart, HubStopped, HubAnswersStop,
                      connectionVars
  <2> QED
    BY <1>2, <2>1, <2>2, <2>3, <2>4, <2>5 DEF HubNext
<1>3. CASE AppNext
  <2>1. ASSUME NEW s \in Polls, FetchSession(s) \/ FetchFails(s) PROVE SignalInv'
    BY <1>1, <2>1 DEF FetchSession, FetchFails, connectionVars
  <2>2. ASSUME NEW s \in Polls, SessionFetched(s) PROVE SignalInv'
    <3>1. NavigateToHome \/ UNCHANGED <<canvas, down>>
      BY <2>2 DEF SessionFetched, connectionVars
    <3> QED
      BY <1>1, <3>1, HomeKeeps
  <2>3. CASE HandleLaunch \/ LaunchAnswered \/ LaunchRefused \/ HandleStop \/ StopFails
    BY <1>1, <2>3 DEF HandleLaunch, LaunchAnswered, LaunchRefused, HandleStop, StopFails,
                      connectionVars
  <2>4. CASE LaunchTimer \/ Resume
    BY <2>4, StreamKeeps DEF LaunchTimer, Resume
  <2>5. CASE StopAnswered
    BY <2>5, HomeKeeps DEF StopAnswered
  <2>6. CASE UserNavigates
    <3>1. PICK p \in visited : HandlePopState(p)
      BY <2>6 DEF UserNavigates
    <3> QED
      BY <3>1, HistoryKeeps
  <2> QED
    BY <1>3, <2>1, <2>2, <2>3, <2>4, <2>5, <2>6 DEF AppNext
<1>4. CASE CanvasNext
  BY <1>4, ConnectionKeeps DEF CanvasNext
<1>5. CASE UNCHANGED vars
  BY <1>1, <1>5 DEF vars, connectionVars
<1> QED
  BY <1>2, <1>3, <1>4, <1>5 DEF Next

\* No candidate is added before the remote description, and none is left in the
\* queue once the drain loop is over, in whatever order the host's messages and
\* the awaits of their handlers come (GameCanvas.jsx, webrtc_answer, webrtc_ice).
THEOREM NoCandidateEverForgotten == Spec => []NoCandidateForgotten
<1>1. FlagInv /\ SignalInv /\ [Next]_vars => FlagInv' /\ SignalInv'
  BY FlagStep, SignalStep
<1>2. SignalInv => NoCandidateForgotten
  BY DEF SignalInv, Signalling, NoCandidateForgotten
<1> QED
  BY <1>1, <1>2, FlagInit, SignalInit, PTL DEF Spec

=============================================================================
