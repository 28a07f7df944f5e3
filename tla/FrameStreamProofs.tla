-------------------------- MODULE FrameStreamProofs --------------------------
(***************************************************************************)
(* Theorems about FrameStream, for every number of browsers, every size of *)
(* the encoder's history and every set of pictures.                        *)
(***************************************************************************)
EXTENDS FrameStream, SequenceTheorems, FiniteSetTheorems, TLAPS

-----------------------------------------------------------------------------
(* Pictures and patches                                                    *)

\* A finite function on 1..n is a sequence of its length.
LEMMA FunctionIsSeq ==
  ASSUME NEW S, NEW n \in Nat, NEW f \in [1..n -> S]
  PROVE  f \in Seq(S) /\ Len(f) = n
<1>1. f \in Seq(S)
  BY SeqDef
<1>2. DOMAIN f = 1..n /\ DOMAIN f = 1..Len(f) /\ Len(f) \in Nat
  BY <1>1, LenProperties
<1> QED
  BY <1>1, <1>2

LEMMA UpdatesType ==
  ASSUME NEW from, NEW to \in Seq(Commands)
  PROVE  Updates(from, to) \in Seq(Commands \cup {Keep}) /\ Len(Updates(from, to)) = Len(to)
<1>1. Len(to) \in Nat /\ \A i \in 1..Len(to) : to[i] \in Commands
  BY LenProperties
<1>2. Updates(from, to) \in [1..Len(to) -> Commands \cup {Keep}]
  BY <1>1 DEF Updates
<1> QED
  BY <1>1, <1>2, FunctionIsSeq

LEMMA PatchType ==
  ASSUME NEW scene \in Seq(Commands \cup {Hole}), NEW f,
         f.updates \in Seq(Commands \cup {Keep})
  PROVE  Patch(scene, f) \in Seq(Commands \cup {Hole})
<1>1. /\ Len(scene) \in Nat /\ \A i \in 1..Len(scene) : scene[i] \in Commands \cup {Hole}
      /\ Len(f.updates) \in Nat /\ \A i \in 1..Len(f.updates) : f.updates[i] \in Commands \cup {Keep}
  BY LenProperties
<1>2. Patch(scene, f) \in [1..Len(f.updates) -> Commands \cup {Hole}]
  BY <1>1 DEF Patch
<1> QED
  BY <1>1, <1>2, FunctionIsSeq

\* A delta patched onto the very picture it was diffed against gives the new
\* picture: renderer.applyDelta undoes the diff of encode_frame_inner.
LEMMA PatchInvertsDiff ==
  ASSUME NEW from \in Seq(Commands), from # <<>>, NEW to \in Seq(Commands), NEW f,
         f.updates = Updates(from, to)
  PROVE  Patch(from, f) = to
<1>1. /\ Len(to) \in Nat /\ \A i \in 1..Len(to) : to[i] \in Commands
      /\ to \in [1..Len(to) -> Commands]
      /\ Len(from) \in Nat
      /\ Len(f.updates) = Len(to)
  BY LenProperties, UpdatesType
<1>2. \A i \in 1..Len(to) : to[i] # Keep
  BY <1>1, PicturesAssumption DEF Keep
<1>3. \A i \in 1..Len(to) : Patch(from, f)[i] = to[i]
  BY <1>1, <1>2 DEF Patch, Updates
<1>4. Patch(from, f) = [i \in 1..Len(to) |-> Patch(from, f)[i]]
  BY <1>1 DEF Patch
<1> QED
  BY <1>1, <1>3, <1>4

-----------------------------------------------------------------------------
(* Order: nothing on df-stream is overtaken, and what a page holds or holds *)
(* back is older than anything it will still receive.                       *)

Behind(s, n) ==
  /\ s.hasBaseline => s.lastSeq < n
  /\ \A p \in s.pending : p.seq < n

\* The page s, the packets q on their way to it, and the next number n.
InChannel(s, q, n) ==
  /\ Behind(s, n)
  /\ \A i \in 1..Len(q) :
       /\ q[i].seq < n
       /\ Behind(s, q[i].seq)
       /\ \A j \in 1..i - 1 : q[j].seq < q[i].seq

InOrder ==
  /\ present.phase # "idle" => present.cmds \in Pictures
  /\ sending # Free =>
       /\ sending.packet \in Frame
       /\ sending.packet.seq = sentSeq
       /\ sending.by = Render => present.phase = "sending"
  /\ \A c \in Clients : InChannel(client[c], net[c], sentSeq)

\* With the order kept, applyAt has nothing held back to replay: it patches the
\* scene, moves on to the frame's number and forgets every held frame.
LEMMA AppliedInOrder ==
  ASSUME NEW s \in Sequencer, NEW f \in Frame, Behind(s, f.seq)
  PROVE  OnApplicable(s, f) =
           [s EXCEPT !.lastSeq = f.seq,
                     !.awaitingBridge = FALSE, !.awaitingKeyframe = FALSE, !.gapFrames = 0,
                     !.pending = {}, !.scene = Patch(s.scene, f)]
<1> DEFINE newer == {p \in s.pending : p.seq > f.seq}
           run == {p \in newer : \A n \in f.seq + 1..p.seq : \E q \in newer : q.seq = n}
<1>1. f.seq \in Nat /\ \A p \in s.pending : p.seq \in Nat
  BY DEF Frame, Sequencer
<1>2. newer = {}
  BY <1>1 DEF Behind
<1>3. run = {}
  BY <1>2
<1>4. Cardinality(run) = 0
  BY <1>3, FS_EmptySet
<1>5. f.seq + Cardinality(run) = f.seq
  BY <1>1, <1>4
<1> QED
  BY <1>2, <1>3, <1>5 DEF OnApplicable

LEMMA SequencerType ==
  ASSUME NEW s \in Sequencer, NEW f \in Frame, Behind(s, f.seq)
  PROVE  OnFrame(s, f) \in Sequencer
<1>1. CASE f.type = "full"
  <2>1. f.seq \in Nat /\ f.cmds \in Seq(Commands)
    BY <1>1, PicturesAssumption DEF Frame
  <2>2. f.cmds \in Seq(Commands \cup {Hole})
    BY <2>1, SeqMonotonic
  <2> QED
    BY <1>1, <2>1, <2>2 DEF OnFrame, OnFull, NewClient, Sequencer
<1>2. CASE f.type # "full" /\ Cold(s, f)
  <2>1. OnColdDelta(s) \in Sequencer
    <3>1. CASE AsksKeyframe(s)
      BY <3>1 DEF OnColdDelta, Sequencer
    <3>2. CASE ~AsksKeyframe(s)
      BY <3>2 DEF OnColdDelta, Sequencer
    <3> QED
      BY <3>1, <3>2
  <2> QED
    BY <1>2, <2>1 DEF OnFrame
<1>3. CASE f.type # "full" /\ ~Cold(s, f) /\ Patches(s, f)
  <2>1. f.updates \in Seq(Commands \cup {Keep}) /\ f.seq \in Nat
    BY <1>3 DEF Frame
  <2>2. Patch(s.scene, f) \in Seq(Commands \cup {Hole})
    BY <2>1, PatchType DEF Sequencer
  <2>3. OnApplicable(s, f) \in Sequencer
    <3> DEFINE shown == Patch(s.scene, f)
    <3>1. OnApplicable(s, f) =
            [s EXCEPT !.lastSeq = f.seq,
                      !.awaitingBridge = FALSE, !.awaitingKeyframe = FALSE, !.gapFrames = 0,
                      !.pending = {}, !.scene = shown]
      BY AppliedInOrder
    <3>2. shown \in Seq(Commands \cup {Hole})
      BY <2>2
    <3> HIDE DEF shown
    <3>3. \A t \in Seq(Commands \cup {Hole}) :
            [s EXCEPT !.lastSeq = f.seq,
                      !.awaitingBridge = FALSE, !.awaitingKeyframe = FALSE, !.gapFrames = 0,
                      !.pending = {}, !.scene = t] \in Sequencer
      BY <2>1 DEF Sequencer
    <3> QED
      BY <3>1, <3>2, <3>3
  <2> QED
    BY <1>3, <2>3 DEF OnFrame
<1>4. CASE f.type # "full" /\ ~Cold(s, f) /\ ~Patches(s, f)
  <2>1. OnGap(s, f) \in Sequencer
    <3> DEFINE held == {p \in s.pending : p.seq # f.seq} \cup {f}
               oldest == {p \in held : Cardinality(held) > MaxPending
                                         /\ \A q \in held : p.seq <= q.seq}
    <3>1. held \ oldest \in SUBSET Frame
      BY DEF Sequencer
    <3>2. s.gapFrames \in Nat
      BY DEF Sequencer
    <3>3. OnGap(s, f) = [s EXCEPT !.pending = held \ oldest,
                                  !.awaitingBridge = TRUE,
                                  !.gapFrames = IF AsksBridge(s) THEN 0 ELSE s.gapFrames + 1]
      BY DEF OnGap
    <3> HIDE DEF held, oldest
    <3>4. \A P \in SUBSET Frame : \A n \in Nat :
            [s EXCEPT !.pending = P, !.awaitingBridge = TRUE, !.gapFrames = n] \in Sequencer
      BY DEF Sequencer
    <3>5. (IF AsksBridge(s) THEN 0 ELSE s.gapFrames + 1) \in Nat
      BY <3>2
    <3> QED
      BY <3>1, <3>3, <3>4, <3>5
  <2> QED
    BY <1>4, <2>1 DEF OnFrame
<1> QED
  BY <1>1, <1>2, <1>3, <1>4

LEMMA StaysBehind ==
  ASSUME NEW s \in Sequencer, NEW f \in Frame, Behind(s, f.seq), NEW n \in Nat, f.seq < n
  PROVE  Behind(OnFrame(s, f), n)
<1>1. f.seq \in Nat /\ s.lastSeq \in Nat /\ \A p \in s.pending : p.seq \in Nat
  BY DEF Frame, Sequencer
<1>2. Behind(s, n)
  BY <1>1 DEF Behind
<1>3. CASE f.type = "full"
  BY <1>3 DEF OnFrame, OnFull, NewClient, Behind
<1>4. CASE f.type # "full" /\ Cold(s, f)
  BY <1>2, <1>4 DEF OnFrame, OnColdDelta, Behind, Sequencer
<1>5. CASE f.type # "full" /\ ~Cold(s, f) /\ Patches(s, f)
  BY <1>5, AppliedInOrder DEF OnFrame, Behind, Sequencer
<1>6. CASE f.type # "full" /\ ~Cold(s, f) /\ ~Patches(s, f)
  BY <1>2, <1>6 DEF OnFrame, OnGap, Behind, Sequencer
<1> QED
  BY <1>3, <1>4, <1>5, <1>6

LEMMA SentInOrder ==
  ASSUME NEW s \in Sequencer, NEW q \in Seq(Frame), NEW n \in Nat, InChannel(s, q, n),
         NEW f \in Frame, f.seq = n
  PROVE  InChannel(s, q, n + 1) /\ InChannel(s, Append(q, f), n + 1)
<1>1. /\ s.lastSeq \in Nat
      /\ \A p \in s.pending : p.seq \in Nat
      /\ \A i \in 1..Len(q) : q[i].seq \in Nat
  <2>1. \A p \in Frame : p.seq \in Nat
    BY DEF Frame
  <2>2. s.lastSeq \in Nat /\ s.pending \in SUBSET Frame
    BY DEF Sequencer
  <2>3. \A i \in 1..Len(q) : q[i] \in Frame
    OBVIOUS
  <2> QED
    BY <2>1, <2>2, <2>3
<1>2. InChannel(s, q, n + 1)
  BY <1>1 DEF InChannel, Behind
<1>3. /\ Len(Append(q, f)) = Len(q) + 1 /\ Len(q) \in Nat
      /\ \A i \in 1..Len(q) : Append(q, f)[i] = q[i]
      /\ Append(q, f)[Len(q) + 1] = f
  OBVIOUS
<1>4. ASSUME NEW i \in 1..Len(q) + 1
      PROVE  /\ Append(q, f)[i].seq < n + 1
             /\ Behind(s, Append(q, f)[i].seq)
             /\ \A j \in 1..i - 1 : Append(q, f)[j].seq < Append(q, f)[i].seq
  <2>1. CASE i = Len(q) + 1
    BY <1>1, <1>3, <2>1 DEF InChannel
  <2>2. CASE i # Len(q) + 1
    BY <1>1, <1>3, <2>2 DEF InChannel
  <2> QED
    BY <2>1, <2>2
<1> QED
  BY <1>2, <1>3, <1>4 DEF InChannel

LEMMA TakenInOrder ==
  ASSUME NEW s \in Sequencer, NEW q \in Seq(Frame), q # <<>>, NEW n \in Nat, InChannel(s, q, n)
  PROVE  InChannel(s, Tail(q), n) /\ InChannel(OnFrame(s, Head(q)), Tail(q), n)
<1> DEFINE f == Head(q)
<1>1. /\ f \in Frame /\ f = q[1] /\ Len(q) \in Nat \ {0}
      /\ Tail(q) \in Seq(Frame) /\ Len(Tail(q)) = Len(q) - 1
      /\ \A i \in 1..Len(q) - 1 : Tail(q)[i] = q[i + 1]
      /\ \A i \in 1..Len(q) : q[i].seq \in Nat
  BY DEF Frame
<1>2. ASSUME NEW i \in 1..Len(Tail(q))
      PROVE  /\ Tail(q)[i].seq < n
             /\ f.seq < Tail(q)[i].seq
             /\ Behind(s, Tail(q)[i].seq)
             /\ \A j \in 1..i - 1 : Tail(q)[j].seq < Tail(q)[i].seq
  <2>1. Tail(q)[i] = q[i + 1] /\ i + 1 \in 1..Len(q) /\ 1 \in 1..(i + 1) - 1
    BY <1>1
  <2>2. ASSUME NEW j \in 1..i - 1
        PROVE  Tail(q)[j].seq < Tail(q)[i].seq
    <3>1. Tail(q)[j] = q[j + 1] /\ j + 1 \in 1..(i + 1) - 1
      BY <1>1
    <3> QED
      BY <2>1, <3>1 DEF InChannel
  <2> QED
    BY <1>1, <2>1, <2>2 DEF InChannel
<1>3. InChannel(s, Tail(q), n)
  BY <1>2 DEF InChannel
<1>4. /\ Behind(s, f.seq) /\ f.seq < n
      /\ \A i \in 1..Len(Tail(q)) : f.seq < Tail(q)[i].seq /\ Tail(q)[i].seq \in Nat
  BY <1>1, <1>2 DEF InChannel
<1> HIDE DEF f
<1>5. /\ Behind(OnFrame(s, f), n)
      /\ \A i \in 1..Len(Tail(q)) : Behind(OnFrame(s, f), Tail(q)[i].seq)
  BY <1>1, <1>4, StaysBehind
<1>6. InChannel(OnFrame(s, f), Tail(q), n)
  BY <1>2, <1>5 DEF InChannel
<1> QED
  BY <1>3, <1>6 DEF f

-----------------------------------------------------------------------------
(* Types                                                                   *)

LEMMA EncodingsType ==
  ASSUME TypeOK, NEW cmds \in Pictures, NEW force \in BOOLEAN, NEW base \in Nat,
         NEW packet \in Encodings(cmds, force, base), packet # Nothing
  PROVE  packet \in Frame /\ packet.seq = sentSeq
<1>1. FullFrame(sentSeq, cmds) \in Frame
  BY DEF FullFrame, Frame, TypeOK
<1>2. ASSUME NEW n \in Int, NEW from
      PROVE  DeltaFrame(sentSeq, n, from, cmds) \in Frame
  <2>1. Updates(from, cmds) \in Seq(Commands \cup {Keep})
    BY UpdatesType, PicturesAssumption
  <2> QED
    BY <2>1 DEF DeltaFrame, Frame, TypeOK
<1>3. sentSeq - 1 \in Int /\ base \in Int
  BY DEF TypeOK
<1>4. \/ packet = FullFrame(sentSeq, cmds)
      \/ \E n \in Int, from \in {history[Slot(base)].cmds, prevCmds} :
           packet = DeltaFrame(sentSeq, n, from, cmds)
  BY <1>3 DEF Encodings
<1> QED
  BY <1>1, <1>2, <1>4 DEF FullFrame, DeltaFrame

LEMMA SendingType ==
  ASSUME NEW by \in Clients \cup {Render}, NEW packet \in Frame
  PROVE  [phase |-> "encoded", by |-> by, packet |-> packet] \in Sending
BY DEF Sending

LEMMA EncodeType ==
  ASSUME TypeOK, NEW by \in Clients \cup {Render}, NEW cmds \in Pictures,
         NEW force \in BOOLEAN, NEW base \in Nat, Encode(by, cmds, force, base)
  PROVE  /\ sentSeq' = sentSeq
         /\ history' \in Ring
         /\ prevCmds' \in Pictures \cup {<<>>}
         /\ encoded' \in Seq(Pictures)
         /\ \/ sending' = Free
            \/ \E packet \in Frame :
                 /\ packet.seq = sentSeq
                 /\ sending' = [phase |-> "encoded", by |-> by, packet |-> packet]
         /\ sending' \in Sending
<1>1. CASE UNCHANGED <<sending, history, prevCmds, encoded>>
  BY <1>1 DEF Encode, TypeOK
<1>2. CASE Record(cmds) /\ \E packet \in Encodings(cmds, force, base) \ {Nothing} :
             sending' = [phase |-> "encoded", by |-> by, packet |-> packet]
  <2>1. \E packet \in Frame :
          /\ packet.seq = sentSeq
          /\ sending' = [phase |-> "encoded", by |-> by, packet |-> packet]
    BY <1>2, EncodingsType
  <2>2. encoded' \in Seq(Pictures)
    BY <1>2 DEF Record, TypeOK
  <2>3. prevCmds' \in Pictures \cup {<<>>}
    BY <1>2 DEF Record
  <2>4. history' \in Ring
    BY <1>2 DEF Record, TypeOK, Ring
  <2> QED
    BY <2>1, <2>2, <2>3, <2>4, SendingType DEF Encode
<1> QED
  BY <1>1, <1>2 DEF Encode

LEMMA RequestsType ==
  ASSUME NEW s \in Sequencer, NEW f \in Frame
  PROVE  Requests(s, f) \in Seq(Request)
<1>1. [op |-> "keyframe", base |-> 0] \in Request
  BY DEF Request
<1>2. [op |-> "gapAck", base |-> s.lastSeq] \in Request
  BY DEF Request, Sequencer
<1> QED
  BY <1>1, <1>2 DEF Requests

LEMMA InitType == Init => TypeOK /\ InOrder
<1> SUFFICES ASSUME Init PROVE TypeOK /\ InOrder
  OBVIOUS
<1>1. TypeOK
  <2>1. NewClient \in Sequencer
    BY DEF NewClient, Sequencer
  <2>2. history \in Ring
    BY SizesAssumption DEF Init, Ring
  <2>3. present \in Presenting /\ sending \in Sending
    BY DEF Init, Presenting, Sending, Free
  <2>4. /\ net \in [Clients -> Seq(Frame)]
        /\ up \in [Clients -> Seq(Request)]
        /\ client \in [Clients -> Sequencer]
        /\ encoded \in Seq(Pictures)
    BY <2>1 DEF Init
  <2>5. /\ status \in [Clients -> {"away", "signalling", "opening", "pushed", "open"}]
        /\ lost \in [Clients -> {"never", "earlier", "now"}]
        /\ strayed \in [Clients -> BOOLEAN]
    BY DEF Init
  <2>6. /\ sentSeq \in Nat /\ pendingBase \in Nat /\ needKeyframe \in BOOLEAN
        /\ prevCmds \in Pictures \cup {<<>>} /\ lastPicture \in Pictures \cup {<<>>}
        /\ overtaken \in BOOLEAN
    BY DEF Init
  <2> QED
    BY <2>2, <2>3, <2>4, <2>5, <2>6 DEF TypeOK
<1>2. InOrder
  BY DEF Init, InOrder, InChannel, Behind, NewClient
<1> QED
  BY <1>1, <1>2

\* Every step keeps the types, as long as nothing is out of order.
LEMMA StepType == TypeOK /\ InOrder /\ [Next]_vars => TypeOK'
<1> SUFFICES ASSUME TypeOK, InOrder, [Next]_vars PROVE TypeOK'
  OBVIOUS
<1> USE DEF encoderVars, requestVars, pathVars, linkVars, ghostVars
<1>1. CASE PresentStart
  BY <1>1 DEF PresentStart, TypeOK, Presenting
<1>2. CASE PresentEncode
  <2>1. present.cmds \in Pictures /\ present \in [phase : {"idle", "send", "sending", "remember"}, cmds : Pictures]
    BY <1>2 DEF PresentEncode, InOrder, TypeOK, Presenting
  <2>2. /\ Encode(Render, present.cmds, needKeyframe, pendingBase)
        /\ needKeyframe \in BOOLEAN /\ pendingBase \in Nat /\ Render \in Clients \cup {Render}
    BY <1>2 DEF PresentEncode, TypeOK
  <2>3. /\ sentSeq' = sentSeq
        /\ history' \in Ring
        /\ prevCmds' \in Pictures \cup {<<>>}
        /\ encoded' \in Seq(Pictures)
        /\ sending' \in Sending
    BY <2>1, <2>2, EncodeType
  <2> QED
    BY <1>2, <2>1, <2>3 DEF PresentEncode, TypeOK, Presenting
<1>3. CASE PresentRemember
  BY <1>3 DEF PresentRemember, TypeOK, InOrder, Presenting
<1>4. CASE ClearRequest
  BY <1>4 DEF ClearRequest, TypeOK, Sending
<1>5. CASE Transmit
  <2>1. sending.packet \in Frame
    BY <1>5 DEF Transmit, InOrder, Free
  <2>2. net' \in [Clients -> Seq(Frame)]
    BY <1>5, <2>1 DEF Transmit, TypeOK
  <2>3. sentSeq' \in Nat /\ present' \in Presenting
    <3>1. present' = [present EXCEPT !.phase = "remember"] \/ present' = present
      BY <1>5 DEF Transmit
    <3>2. sentSeq \in Nat /\ sentSeq' = sentSeq + 1 /\ present \in Presenting
      BY <1>5 DEF Transmit, TypeOK
    <3> QED
      BY <3>1, <3>2 DEF Presenting
  <2>4. status' \in [Clients -> {"away", "signalling", "opening", "pushed", "open"}]
    <3>1. CASE sending.by = Render
      BY <1>5, <3>1 DEF Transmit, TypeOK
    <3>2. CASE sending.by # Render
      BY <1>5, <3>2 DEF Transmit, TypeOK
    <3> QED
      BY <3>1, <3>2
  <2>5. sending' \in Sending
    BY <1>5 DEF Transmit, Free, Sending
  <2> QED
    BY <1>5, <2>2, <2>3, <2>4, <2>5 DEF Transmit, TypeOK
<1>6. ASSUME NEW c \in Clients, Join(c) PROVE TypeOK'
  BY <1>6 DEF Join, TypeOK
<1>7. ASSUME NEW c \in Clients, OpenRequest(c) PROVE TypeOK'
  BY <1>7 DEF OpenRequest, TypeOK
<1>8. ASSUME NEW c \in Clients, OpenPush(c) PROVE TypeOK'
  BY <1>8 DEF OpenPush, TypeOK
<1>9. ASSUME NEW c \in Clients, OpenSendLast(c) PROVE TypeOK'
  <2>1. CASE lastPicture = <<>>
    BY <1>9, <2>1 DEF OpenSendLast, NoteOvertaking, TypeOK
  <2>2. CASE lastPicture # <<>>
    <3>1. lastPicture \in Pictures /\ Encode(c, lastPicture, TRUE, 0)
      BY <1>9, <2>2 DEF OpenSendLast, TypeOK
    <3>2. /\ sentSeq' = sentSeq
          /\ history' \in Ring
          /\ prevCmds' \in Pictures \cup {<<>>}
          /\ encoded' \in Seq(Pictures)
          /\ sending' \in Sending
      BY <3>1, EncodeType DEF TypeOK
    <3> QED
      BY <1>9, <2>2, <3>2 DEF OpenSendLast, NoteOvertaking, TypeOK
  <2> QED
    BY <2>1, <2>2
<1>10. ASSUME NEW c \in Clients, Leave(c) PROVE TypeOK'
  <2>1. NewClient \in Sequencer
    BY DEF NewClient, Sequencer
  <2> QED
    BY <1>10, <2>1 DEF Leave, TypeOK
<1>11. ASSUME NEW c \in Clients, HandleGapAck(c) PROVE TypeOK'
  <2>1. Head(up[c]) \in Request /\ Tail(up[c]) \in Seq(Request)
    BY <1>11 DEF HandleGapAck, TypeOK
  <2>2. Head(up[c]).base \in Nat
    BY <2>1 DEF Request
  <2> QED
    BY <1>11, <2>1, <2>2 DEF HandleGapAck, Handled, TypeOK
<1>12. ASSUME NEW c \in Clients, HandleKeyframe(c) PROVE TypeOK'
  BY <1>12 DEF HandleKeyframe, Handled, TypeOK
<1>13. ASSUME NEW c \in Clients, HandleAssets(c) PROVE TypeOK'
  <2>1. CASE UNCHANGED <<sending, encoderVars, overtaken>>
    BY <1>13, <2>1 DEF HandleAssets, Handled, TypeOK
  <2>2. CASE lastPicture # <<>> /\ Encode(c, lastPicture, TRUE, 0) /\ NoteOvertaking
    <3>1. lastPicture \in Pictures
      BY <2>2 DEF TypeOK
    <3>2. /\ sentSeq' = sentSeq
          /\ history' \in Ring
          /\ prevCmds' \in Pictures \cup {<<>>}
          /\ encoded' \in Seq(Pictures)
          /\ sending' \in Sending
      BY <2>2, <3>1, EncodeType DEF TypeOK
    <3> QED
      BY <1>13, <2>2, <3>2 DEF HandleAssets, Handled, NoteOvertaking, TypeOK
  <2> QED
    BY <1>13, <2>1, <2>2 DEF HandleAssets
<1>14. ASSUME NEW c \in Clients, Deliver(c) PROVE TypeOK'
  <2> DEFINE s == client[c]
             f == Head(net[c])
  <2>1. s \in Sequencer /\ f \in Frame /\ f = net[c][1] /\ 1 \in 1..Len(net[c])
    BY <1>14 DEF Deliver, TypeOK
  <2>2. Behind(s, f.seq)
    BY <2>1 DEF InOrder, InChannel
  <2>3. OnFrame(s, f) \in Sequencer
    BY <2>1, <2>2, SequencerType
  <2>4. up[c] \o Requests(s, f) \in Seq(Request)
    BY <2>1, RequestsType, ConcatProperties DEF TypeOK
  <2>5. (f.type # "full" /\ (strayed[c] \/ Strays(s, f))) \in BOOLEAN
    OBVIOUS
  <2>6. /\ client' = [client EXCEPT ![c] = OnFrame(s, f)]
        /\ up' = [up EXCEPT ![c] = up[c] \o Requests(s, f)]
        /\ strayed' = [strayed EXCEPT ![c] = f.type # "full" /\ (strayed[c] \/ Strays(s, f))]
        /\ net' = [net EXCEPT ![c] = Tail(net[c])]
        /\ net[c] # <<>>
        /\ UNCHANGED <<encoderVars, requestVars, pathVars, status, lost, overtaken>>
    BY <1>14 DEF Deliver
  <2>7. net' \in [Clients -> Seq(Frame)]
    BY <2>6 DEF TypeOK
  <2> HIDE DEF s, f
  <2> QED
    BY <2>3, <2>4, <2>5, <2>6, <2>7 DEF TypeOK
<1>15. ASSUME NEW c \in Clients, Lose(c) PROVE TypeOK'
  BY <1>15 DEF Lose, TypeOK
<1>16. ASSUME NEW c \in Clients, Ask(c) PROVE TypeOK'
  <2>1. [op |-> "assets", base |-> 0] \in Request /\ [op |-> "keyframe", base |-> 0] \in Request
    BY DEF Request
  <2>2. up' \in [Clients -> Seq(Request)]
    <3>1. PICK r \in Request : up' = [up EXCEPT ![c] = Append(@, r)]
      BY <1>16, <2>1 DEF Ask
    <3> QED
      BY <3>1 DEF TypeOK
  <2> QED
    BY <1>16, <2>2 DEF Ask, TypeOK
<1>17. CASE UNCHANGED vars
  BY <1>17 DEF vars, TypeOK
<1> QED
  BY <1>1, <1>2, <1>3, <1>4, <1>5, <1>6, <1>7, <1>8, <1>9, <1>10, <1>11, <1>12, <1>13, <1>14,
     <1>15, <1>16, <1>17 DEF Next, OutOfFrames

\* Every step keeps the order.
LEMMA StepInOrder == TypeOK /\ TypeOK' /\ InOrder /\ [Next]_vars => InOrder'
<1> SUFFICES ASSUME TypeOK, TypeOK', InOrder, [Next]_vars PROVE InOrder'
  OBVIOUS
<1> USE DEF encoderVars, requestVars, pathVars, linkVars, ghostVars
<1>0. ASSUME NEW by \in Clients \cup {Render}, NEW cmds \in Pictures, NEW force \in BOOLEAN,
             NEW base \in Nat, Encode(by, cmds, force, base), UNCHANGED <<net, client>>,
             present' = present \/ present' = [present EXCEPT !.phase = "sending"]
               \/ present' = [present EXCEPT !.phase = "remember"],
             present.phase = "idle" => present' = present,
             by = Render /\ sending' # Free => present'.phase = "sending"
      PROVE  InOrder'
  <2>1. /\ sentSeq' = sentSeq
        /\ sending' # Free =>
             /\ sending'.packet \in Frame
             /\ sending'.packet.seq = sentSeq
             /\ sending'.by = Render => present'.phase = "sending"
    <3>1. /\ sentSeq' = sentSeq
          /\ \/ sending' = Free
             \/ \E packet \in Frame :
                  /\ packet.seq = sentSeq
                  /\ sending' = [phase |-> "encoded", by |-> by, packet |-> packet]
      BY <1>0, EncodeType
    <3> QED
      BY <1>0, <3>1
  <2>2. present'.phase # "idle" => present'.cmds \in Pictures
    BY <1>0 DEF InOrder, TypeOK, Presenting
  <2> QED
    BY <1>0, <2>1, <2>2 DEF InOrder
<1>1. CASE PresentStart
  BY <1>1 DEF PresentStart, InOrder
<1>2. CASE PresentEncode
  <2>1. /\ present.cmds \in Pictures
        /\ Encode(Render, present.cmds, needKeyframe, pendingBase)
        /\ needKeyframe \in BOOLEAN /\ pendingBase \in Nat
        /\ UNCHANGED <<net, client>>
        /\ \/ present' = [present EXCEPT !.phase = "sending"]
           \/ present' = [present EXCEPT !.phase = "remember"]
        /\ present.phase # "idle"
        /\ sending' # Free => present'.phase = "sending"
    BY <1>2 DEF PresentEncode, InOrder, TypeOK, Presenting
  <2> QED
    BY <1>0, <2>1
<1>3. CASE PresentRemember
  BY <1>3 DEF PresentRemember, InOrder, TypeOK, Presenting
<1>4. CASE ClearRequest
  BY <1>4 DEF ClearRequest, InOrder, TypeOK, Sending, Free
<1>5. CASE Transmit
  <2>1. sending.packet \in Frame /\ sending.packet.seq = sentSeq /\ sentSeq' = sentSeq + 1
    BY <1>5 DEF Transmit, InOrder, Free
  <2>2. ASSUME NEW c \in Clients
        PROVE  InChannel(client'[c], net'[c], sentSeq')
    <3>1. client[c] \in Sequencer /\ net[c] \in Seq(Frame) /\ sentSeq \in Nat
      BY DEF TypeOK
    <3>2. \/ net'[c] = net[c]
          \/ net'[c] = Append(net[c], sending.packet)
      BY <1>5 DEF Transmit
    <3>3. InChannel(client[c], net[c], sentSeq) /\ client' = client
      BY <1>5 DEF InOrder, Transmit
    <3>4. /\ InChannel(client[c], net[c], sentSeq + 1)
          /\ InChannel(client[c], Append(net[c], sending.packet), sentSeq + 1)
      BY <2>1, <3>1, <3>3, SentInOrder
    <3> QED
      BY <2>1, <3>2, <3>3, <3>4
  <2>3. present'.phase # "idle" => present'.cmds \in Pictures
    <3>1. CASE sending.by = Render
      <4>1. present.phase = "sending" /\ present.cmds \in Pictures
        BY <1>5, <3>1 DEF Transmit, InOrder, Free
      <4>2. present' = [present EXCEPT !.phase = "remember"] /\ present \in Presenting
        BY <1>5, <3>1 DEF Transmit, TypeOK
      <4> QED
        BY <4>1, <4>2 DEF Presenting
    <3>2. CASE sending.by # Render
      BY <1>5, <3>2 DEF Transmit, InOrder
    <3> QED
      BY <3>1, <3>2
  <2> QED
    BY <1>5, <2>2, <2>3 DEF Transmit, InOrder
<1>6. ASSUME NEW c \in Clients, Join(c) PROVE InOrder'
  BY <1>6 DEF Join, InOrder
<1>7. ASSUME NEW c \in Clients, OpenRequest(c) PROVE InOrder'
  BY <1>7 DEF OpenRequest, InOrder
<1>8. ASSUME NEW c \in Clients, OpenPush(c) PROVE InOrder'
  BY <1>8 DEF OpenPush, InOrder
<1>9. ASSUME NEW c \in Clients, OpenSendLast(c) PROVE InOrder'
  <2>1. CASE lastPicture = <<>>
    BY <1>9, <2>1 DEF OpenSendLast, InOrder
  <2>2. CASE lastPicture # <<>>
    <3>1. /\ lastPicture \in Pictures /\ Encode(c, lastPicture, TRUE, 0)
          /\ UNCHANGED <<net, client, present>> /\ c # Render
      BY ClientsAssumption, <1>9, <2>2 DEF OpenSendLast, TypeOK, Render
    <3> QED
      BY <1>0, <3>1
  <2> QED
    BY <2>1, <2>2
<1>10. ASSUME NEW c \in Clients, Leave(c) PROVE InOrder'
  <2>1. InChannel(NewClient, <<>>, sentSeq)
    BY DEF InChannel, Behind, NewClient
  <2> QED
    BY <1>10, <2>1 DEF Leave, InOrder, TypeOK
<1>11. ASSUME NEW c \in Clients, HandleGapAck(c) PROVE InOrder'
  BY <1>11 DEF HandleGapAck, InOrder
<1>12. ASSUME NEW c \in Clients, HandleKeyframe(c) PROVE InOrder'
  BY <1>12 DEF HandleKeyframe, InOrder
<1>13. ASSUME NEW c \in Clients, HandleAssets(c) PROVE InOrder'
  <2>1. CASE UNCHANGED <<sending, encoderVars, overtaken>>
    BY <1>13, <2>1 DEF HandleAssets, InOrder
  <2>2. CASE lastPicture # <<>> /\ Encode(c, lastPicture, TRUE, 0) /\ NoteOvertaking
    <3>1. lastPicture \in Pictures /\ UNCHANGED <<net, client, present>> /\ c # Render
      BY ClientsAssumption, <1>13, <2>2 DEF HandleAssets, TypeOK, Render
    <3> QED
      BY <1>0, <2>2, <3>1
  <2> QED
    BY <1>13, <2>1, <2>2 DEF HandleAssets
<1>14. ASSUME NEW c \in Clients, Deliver(c) PROVE InOrder'
  <2>1. /\ client[c] \in Sequencer /\ net[c] \in Seq(Frame) /\ sentSeq \in Nat
        /\ net[c] # <<>> /\ InChannel(client[c], net[c], sentSeq)
    BY <1>14 DEF Deliver, TypeOK, InOrder
  <2>2. InChannel(OnFrame(client[c], Head(net[c])), Tail(net[c]), sentSeq)
    BY <2>1, TakenInOrder
  <2>3. /\ client' = [client EXCEPT ![c] = OnFrame(client[c], Head(net[c]))]
        /\ net' = [net EXCEPT ![c] = Tail(net[c])]
        /\ UNCHANGED <<sentSeq, present, sending>>
    BY <1>14 DEF Deliver
  <2> QED
    BY <2>2, <2>3 DEF InOrder, TypeOK
<1>15. ASSUME NEW c \in Clients, Lose(c) PROVE InOrder'
  <2>1. /\ client[c] \in Sequencer /\ net[c] \in Seq(Frame) /\ sentSeq \in Nat
        /\ net[c] # <<>> /\ InChannel(client[c], net[c], sentSeq)
    BY <1>15 DEF Lose, TypeOK, InOrder
  <2>2. InChannel(client[c], Tail(net[c]), sentSeq)
    BY <2>1, TakenInOrder
  <2> QED
    BY <1>15, <2>2 DEF Lose, InOrder, TypeOK
<1>16. ASSUME NEW c \in Clients, Ask(c) PROVE InOrder'
  BY <1>16 DEF Ask, InOrder
<1>17. CASE UNCHANGED vars
  BY <1>17 DEF vars, InOrder
<1> QED
  BY <1>1, <1>2, <1>3, <1>4, <1>5, <1>6, <1>7, <1>8, <1>9, <1>10, <1>11, <1>12, <1>13, <1>14,
     <1>15, <1>16, <1>17 DEF Next, OutOfFrames

LEMMA OrderInvariant == Spec => [](TypeOK /\ InOrder)
<1>1. TypeOK /\ InOrder /\ [Next]_vars => TypeOK' /\ InOrder'
  BY StepType, StepInOrder
<1> QED
  BY <1>1, InitType, PTL DEF Spec

\* The variables keep their types.
THEOREM TypeCorrect == Spec => []TypeOK
BY OrderInvariant, PTL

\* However many frames are lost, and however a bridge, a forced keyframe and
\* the stored picture interleave: what a page holds back is older than anything
\* it will still receive.
THEOREM HeldAreAlwaysStale == Spec => []HeldAreStale
<1>1. TypeOK /\ InOrder => HeldAreStale
  <2> SUFFICES ASSUME TypeOK, InOrder, NEW c \in Clients, net[c] # <<>>,
                      NEW p \in client[c].pending
               PROVE  p.seq < Head(net[c]).seq
    BY DEF HeldAreStale
  <2>1. 1 \in 1..Len(net[c]) /\ Head(net[c]) = net[c][1]
    BY DEF TypeOK
  <2> QED
    BY <2>1 DEF InOrder, InChannel, Behind
<1> QED
  BY <1>1, OrderInvariant, PTL

-----------------------------------------------------------------------------
(* Faith: every packet, applied to the scene it is meant for, gives the    *)
(* picture that was encoded under its number.                              *)

FaithfulTo(f, pictures) ==
  /\ f.seq < Len(pictures)
  /\ f.type = "full" => f.cmds = pictures[f.seq + 1]
  /\ f.type = "delta" => /\ f.base \in 0..f.seq - 1
                         /\ Patch(pictures[f.base + 1], f) = pictures[f.seq + 1]

\* What the encoder believes: its two copies of the past are the past.
HonestEncoder ==
  /\ Len(encoded) = IF sending = Free THEN sentSeq ELSE sentSeq + 1
  /\ encoded = <<>> => prevCmds = <<>> /\ needKeyframe
  /\ encoded # <<>> => prevCmds = encoded[Len(encoded)]
  /\ \A k \in 0..HistorySize - 1 :
       history[k].cmds # <<>> =>
         /\ history[k].seq < Len(encoded)
         /\ history[k].cmds = encoded[history[k].seq + 1]

FaithfulPackets ==
  /\ sending # Free => FaithfulTo(sending.packet, encoded)
  /\ \A c \in Clients : \A i \in 1..Len(net[c]) : FaithfulTo(net[c][i], encoded)

\* Publishing one more picture takes nothing back.
LEMMA FaithLasts ==
  ASSUME NEW pictures \in Seq(Pictures), NEW cmds \in Pictures,
         NEW f \in Frame, FaithfulTo(f, pictures)
  PROVE  FaithfulTo(f, Append(pictures, cmds))
<1>1. /\ Len(pictures) \in Nat
      /\ Len(Append(pictures, cmds)) = Len(pictures) + 1
      /\ \A i \in 1..Len(pictures) : Append(pictures, cmds)[i] = pictures[i]
  OBVIOUS
<1>2. f.seq \in Nat
  BY DEF Frame
<1>3. Append(pictures, cmds)[f.seq + 1] = pictures[f.seq + 1]
  BY <1>1, <1>2 DEF FaithfulTo
<1>4. f.type = "delta" => Append(pictures, cmds)[f.base + 1] = pictures[f.base + 1]
  BY <1>1, <1>2 DEF FaithfulTo
<1> QED
  BY <1>1, <1>2, <1>3, <1>4 DEF FaithfulTo

LEMMA EncodingsFaithful ==
  ASSUME TypeOK, HonestEncoder, sending = Free,
         NEW cmds \in Pictures, NEW force \in BOOLEAN, NEW base \in Nat,
         encoded = <<>> => force,
         NEW packet \in Encodings(cmds, force, base), packet # Nothing
  PROVE  FaithfulTo(packet, Append(encoded, cmds))
<1> DEFINE after == Append(encoded, cmds)
           full == FullFrame(sentSeq, cmds)
           bridge == DeltaFrame(sentSeq, base, history[Slot(base)].cmds, cmds)
           plain == DeltaFrame(sentSeq, sentSeq - 1, prevCmds, cmds)
<1>1. /\ sentSeq = Len(encoded) /\ sentSeq \in Nat
      /\ Len(after) = sentSeq + 1
      /\ after[sentSeq + 1] = cmds
      /\ \A i \in 1..sentSeq : after[i] = encoded[i]
      /\ \A i \in 1..sentSeq : encoded[i] \in Pictures
  BY DEF HonestEncoder, TypeOK
<1>2. cmds \in Seq(Commands) /\ \A p \in Pictures : p \in Seq(Commands) /\ p # <<>>
  BY PicturesAssumption
<1>3. \/ packet = full
      \/ packet = bridge /\ base > 0 /\ BaseHeld(base)
      \/ packet = plain /\ ~force
  BY DEF Encodings
<1>4. CASE packet = full
  BY <1>1, <1>4 DEF FaithfulTo, FullFrame
<1>5. CASE packet = bridge /\ base > 0 /\ BaseHeld(base)
  <2>1. Slot(base) \in 0..HistorySize - 1
    BY SizesAssumption DEF Slot
  <2>2. history[Slot(base)].seq = base /\ history[Slot(base)].cmds # <<>>
    BY <1>5 DEF BaseHeld
  <2>3. base < sentSeq /\ history[Slot(base)].cmds = encoded[base + 1]
    BY <1>1, <2>1, <2>2 DEF HonestEncoder
  <2>4. encoded[base + 1] \in Pictures /\ after[base + 1] = encoded[base + 1]
    BY <1>1, <2>3
  <2>5. bridge.updates = Updates(encoded[base + 1], cmds)
    BY <2>3 DEF DeltaFrame
  <2>6. Patch(after[base + 1], bridge) = cmds
    BY <1>2, <2>4, <2>5, PatchInvertsDiff
  <2>7. bridge.type = "delta" /\ bridge.seq = sentSeq /\ bridge.base = base
    BY DEF DeltaFrame
  <2> HIDE DEF bridge, after
  <2> QED
    BY <1>1, <1>5, <2>3, <2>6, <2>7 DEF FaithfulTo, after
<1>6. CASE packet = plain /\ ~force
  <2>1. sentSeq > 0 /\ prevCmds = encoded[sentSeq] /\ encoded[sentSeq] \in Pictures
    BY <1>1, <1>6 DEF HonestEncoder, TypeOK
  <2>2. after[sentSeq] = encoded[sentSeq]
    BY <1>1, <2>1
  <2>3. plain.updates = Updates(encoded[sentSeq], cmds)
    BY <2>1 DEF DeltaFrame
  <2>4. Patch(after[sentSeq], plain) = cmds
    BY <1>2, <2>1, <2>2, <2>3, PatchInvertsDiff
  <2>5. plain.type = "delta" /\ plain.seq = sentSeq /\ plain.base = sentSeq - 1
    BY DEF DeltaFrame
  <2> HIDE DEF plain
  <2> QED
    BY <1>1, <1>6, <2>1, <2>4, <2>5 DEF FaithfulTo
<1> QED
  BY <1>3, <1>4, <1>5, <1>6

LEMMA EncodeFaithful ==
  ASSUME TypeOK, InOrder, HonestEncoder, FaithfulPackets,
         NEW by \in Clients \cup {Render}, NEW cmds \in Pictures,
         NEW force \in BOOLEAN, NEW base \in Nat, Encode(by, cmds, force, base),
         encoded = <<>> => force,
         UNCHANGED needKeyframe
  PROVE  /\ HonestEncoder'
         /\ sending' # Free => FaithfulTo(sending'.packet, encoded')
         /\ \A f \in Frame : FaithfulTo(f, encoded) => FaithfulTo(f, encoded')
         /\ \A i \in 1..Len(encoded) : encoded'[i] = encoded[i]
         /\ encoded' = encoded \/ encoded' = Append(encoded, cmds)
<1>1. CASE UNCHANGED <<sending, history, prevCmds, encoded>>
  <2>1. UNCHANGED sentSeq /\ sending = Free
    BY DEF Encode
  <2> QED
    BY <1>1, <2>1 DEF HonestEncoder
<1>2. CASE Record(cmds) /\ \E packet \in Encodings(cmds, force, base) \ {Nothing} :
             sending' = [phase |-> "encoded", by |-> by, packet |-> packet]
  <2>1. /\ encoded' = Append(encoded, cmds) /\ prevCmds' = cmds
        /\ history' = [history EXCEPT ![Slot(sentSeq)] = [seq |-> sentSeq, cmds |-> cmds]]
        /\ sentSeq' = sentSeq /\ sending = Free
        /\ sending' # Free
    BY <1>2 DEF Record, Encode, Free
  <2>2. /\ sentSeq = Len(encoded) /\ sentSeq \in Nat
        /\ Len(encoded') = sentSeq + 1
        /\ encoded'[sentSeq + 1] = cmds
        /\ encoded' # <<>>
        /\ \A i \in 1..sentSeq : encoded'[i] = encoded[i]
    <3>1. sentSeq = Len(encoded) /\ encoded \in Seq(Pictures)
      BY <2>1 DEF HonestEncoder, TypeOK
    <3> QED
      BY <2>1, <3>1
  <2>3. FaithfulTo(sending'.packet, encoded')
    BY <1>2, <2>1, EncodingsFaithful
  <2>4. \A f \in Frame : FaithfulTo(f, encoded) => FaithfulTo(f, encoded')
    BY <2>1, FaithLasts DEF TypeOK
  <2>5. ASSUME NEW k \in 0..HistorySize - 1, history'[k].cmds # <<>>
        PROVE  /\ history'[k].seq < Len(encoded')
               /\ history'[k].cmds = encoded'[history'[k].seq + 1]
    <3>1. CASE k = Slot(sentSeq)
      <4>1. history'[k] = [seq |-> sentSeq, cmds |-> cmds]
        BY <2>1, <3>1 DEF TypeOK, Ring
      <4> QED
        BY <2>2, <4>1
    <3>2. CASE k # Slot(sentSeq)
      <4>1. history'[k] = history[k] /\ history[k].seq \in Nat
        BY <2>1, <3>2 DEF TypeOK, Ring
      <4>2. history[k].seq < sentSeq /\ history[k].cmds = encoded[history[k].seq + 1]
        BY <2>2, <2>5, <4>1 DEF HonestEncoder
      <4> QED
        BY <2>2, <4>1, <4>2
    <3> QED
      BY <3>1, <3>2
  <2>6. HonestEncoder'
    BY <2>1, <2>2, <2>5 DEF HonestEncoder
  <2> QED
    BY <2>1, <2>2, <2>3, <2>4, <2>6
<1> QED
  BY <1>1, <1>2 DEF Encode

\* What one frame does to a page that shows the frame it is at.
LEMMA SceneFollows ==
  ASSUME NEW s \in Sequencer, NEW f \in Frame, Behind(s, f.seq),
         NEW pictures \in Seq(Pictures), FaithfulTo(f, pictures),
         NEW stray \in BOOLEAN,
         s.hasBaseline /\ ~stray => s.scene = pictures[s.lastSeq + 1],
         ~(f.type # "full" /\ (stray \/ Strays(s, f))),
         OnFrame(s, f).hasBaseline
  PROVE  OnFrame(s, f).scene = pictures[OnFrame(s, f).lastSeq + 1]
<1>1. CASE f.type = "full"
  BY <1>1 DEF OnFrame, OnFull, NewClient, FaithfulTo
<1>2. CASE f.type # "full" /\ Cold(s, f)
  <2>1. OnFrame(s, f).hasBaseline = s.hasBaseline
    BY <1>2 DEF OnFrame, OnColdDelta, Sequencer
  <2> QED
    BY <1>2, <2>1 DEF Cold
<1>3. CASE f.type # "full" /\ ~Cold(s, f) /\ Patches(s, f)
  <2>1. f.type = "delta" /\ s.hasBaseline /\ f.base = s.lastSeq
    <3>1. f.type = "delta" /\ s.hasBaseline /\ Applicable(s, f) /\ ~Strays(s, f)
      BY <1>3 DEF Patches
    <3>2. f.base \in Int /\ f.seq \in Nat /\ f.base <= f.seq - 1 /\ s.lastSeq \in Nat
      BY <3>1 DEF FaithfulTo, Frame, Sequencer
    <3>3. f.base <= s.lastSeq
      BY <3>1, <3>2 DEF Applicable
    <3>4. ~(f.base < s.lastSeq)
      BY <1>3, <3>1 DEF Strays
    <3> QED
      BY <3>1, <3>2, <3>3, <3>4
  <2>2. s.scene = pictures[f.base + 1]
    BY <1>3, <2>1
  <2>3. Patch(s.scene, f) = pictures[f.seq + 1]
    BY <2>1, <2>2 DEF FaithfulTo
  <2>4. OnFrame(s, f) = OnApplicable(s, f)
    BY <1>3 DEF OnFrame
  <2>5. OnFrame(s, f).scene = Patch(s.scene, f) /\ OnFrame(s, f).lastSeq = f.seq
    <3> DEFINE shown == Patch(s.scene, f)
    <3>1. OnApplicable(s, f) =
            [s EXCEPT !.lastSeq = f.seq,
                      !.awaitingBridge = FALSE, !.awaitingKeyframe = FALSE, !.gapFrames = 0,
                      !.pending = {}, !.scene = shown]
      BY AppliedInOrder
    <3> HIDE DEF shown
    <3>2. OnApplicable(s, f).scene = shown /\ OnApplicable(s, f).lastSeq = f.seq
      BY <3>1 DEF Sequencer
    <3> QED
      BY <2>4, <3>2 DEF shown
  <2> QED
    BY <2>3, <2>5
<1>4. CASE f.type # "full" /\ ~Cold(s, f) /\ ~Patches(s, f)
  <2>1. /\ OnFrame(s, f).hasBaseline = s.hasBaseline
        /\ OnFrame(s, f).scene = s.scene
        /\ OnFrame(s, f).lastSeq = s.lastSeq
    BY <1>4 DEF OnFrame, OnGap, Sequencer
  <2> QED
    BY <1>4, <2>1
<1> QED
  BY <1>1, <1>2, <1>3, <1>4

Faith == HonestEncoder /\ FaithfulPackets /\ SceneIsTheFrame

LEMMA InitFaith == Init => Faith
BY DEF Init, Faith, HonestEncoder, FaithfulPackets, SceneIsTheFrame, NewClient, Free

LEMMA StepFaith == TypeOK /\ InOrder /\ InOrder' /\ Faith /\ [Next]_vars => Faith'
<1> SUFFICES ASSUME TypeOK, InOrder, InOrder', Faith, [Next]_vars PROVE Faith'
  OBVIOUS
<1> USE DEF encoderVars, requestVars, pathVars, linkVars, ghostVars
<1>0. ASSUME NEW by \in Clients \cup {Render}, NEW cmds \in Pictures, NEW force \in BOOLEAN,
             NEW base \in Nat, Encode(by, cmds, force, base),
             encoded = <<>> => force,
             UNCHANGED <<needKeyframe, net, client, strayed>>
      PROVE  Faith'
  <2>1. /\ HonestEncoder'
        /\ sending' # Free => FaithfulTo(sending'.packet, encoded')
        /\ \A f \in Frame : FaithfulTo(f, encoded) => FaithfulTo(f, encoded')
        /\ \A i \in 1..Len(encoded) : encoded'[i] = encoded[i]
    BY <1>0, EncodeFaithful DEF Faith
  <2>2. \A c \in Clients : \A i \in 1..Len(net[c]) : net[c][i] \in Frame
    BY DEF TypeOK
  <2>3. FaithfulPackets'
    BY <1>0, <2>1, <2>2 DEF Faith, FaithfulPackets
  <2>4. ASSUME NEW c \in Clients, client[c].hasBaseline, ~strayed[c]
        PROVE  client[c].lastSeq < sentSeq' /\ client[c].scene = encoded'[client[c].lastSeq + 1]
    <3>1. /\ client[c].lastSeq < sentSeq /\ client[c].lastSeq \in Nat
          /\ client[c].scene = encoded[client[c].lastSeq + 1]
      BY <2>4 DEF Faith, SceneIsTheFrame, TypeOK, Sequencer
    <3>2. sentSeq' = sentSeq /\ sentSeq = Len(encoded) /\ sentSeq \in Nat
      BY <1>0 DEF Encode, Faith, HonestEncoder, TypeOK
    <3>3. client[c].lastSeq + 1 \in 1..Len(encoded)
      BY <3>1, <3>2
    <3> QED
      BY <2>1, <3>1, <3>2, <3>3
  <2>5. SceneIsTheFrame'
    BY <1>0, <2>4 DEF SceneIsTheFrame
  <2> QED
    BY <2>1, <2>3, <2>5 DEF Faith
<1>1. ASSUME UNCHANGED <<sentSeq, history, prevCmds, encoded, sending, net, client, strayed>>,
             needKeyframe => needKeyframe'
      PROVE  Faith'
  BY <1>1 DEF Faith, HonestEncoder, FaithfulPackets, SceneIsTheFrame
<1>2. CASE PresentStart \/ PresentRemember
  <2>1. UNCHANGED <<sentSeq, history, prevCmds, encoded, sending, net, client, strayed, needKeyframe>>
    BY <1>2 DEF PresentStart, PresentRemember
  <2> QED
    BY <1>1, <2>1
<1>3. CASE PresentEncode
  <2>1. /\ present.cmds \in Pictures
        /\ Encode(Render, present.cmds, needKeyframe, pendingBase)
        /\ needKeyframe \in BOOLEAN /\ pendingBase \in Nat
        /\ UNCHANGED <<needKeyframe, net, client, strayed>>
    BY <1>3 DEF PresentEncode, InOrder, TypeOK
  <2>2. encoded = <<>> => needKeyframe
    BY DEF Faith, HonestEncoder
  <2> QED
    BY <1>0, <2>1, <2>2
<1>4. CASE ClearRequest
  <2>1. /\ sending # Free /\ sending' # Free /\ sending'.packet = sending.packet
        /\ UNCHANGED <<sentSeq, history, prevCmds, encoded, net, client, strayed>>
    BY <1>4 DEF ClearRequest, Free, TypeOK, Sending
  <2>2. encoded # <<>>
    BY <2>1 DEF Faith, HonestEncoder, TypeOK
  <2>3. HonestEncoder'
    BY <2>1, <2>2 DEF Faith, HonestEncoder
  <2>4. FaithfulPackets' /\ SceneIsTheFrame'
    BY <2>1 DEF Faith, FaithfulPackets, SceneIsTheFrame
  <2> QED
    BY <2>3, <2>4 DEF Faith
<1>5. CASE Transmit
  <2>1. /\ sending # Free /\ sending' = Free /\ sentSeq' = sentSeq + 1
        /\ UNCHANGED <<history, prevCmds, encoded, needKeyframe, client, strayed>>
    BY <1>5 DEF Transmit, Free
  <2>2. HonestEncoder'
    BY <2>1 DEF Faith, HonestEncoder
  <2>3. ASSUME NEW c \in Clients, NEW i \in 1..Len(net'[c])
        PROVE  FaithfulTo(net'[c][i], encoded)
    <3>1. net[c] \in Seq(Frame)
      BY DEF TypeOK
    <3>2. net'[c] = net[c] \/ net'[c] = Append(net[c], sending.packet)
      BY <1>5 DEF Transmit
    <3>3. /\ FaithfulTo(sending.packet, encoded)
          /\ \A j \in 1..Len(net[c]) : FaithfulTo(net[c][j], encoded)
      BY <2>1 DEF Faith, FaithfulPackets
    <3>4. net'[c][i] = sending.packet \/ \E j \in 1..Len(net[c]) : net'[c][i] = net[c][j]
      BY <2>3, <3>1, <3>2
    <3> QED
      BY <3>3, <3>4
  <2>4. FaithfulPackets'
    BY <2>1, <2>3 DEF FaithfulPackets
  <2>5. SceneIsTheFrame'
    BY <2>1 DEF Faith, SceneIsTheFrame, TypeOK, Sequencer
  <2> QED
    BY <2>2, <2>4, <2>5 DEF Faith
<1>6. ASSUME NEW c \in Clients,
             Join(c) \/ OpenRequest(c) \/ OpenPush(c) \/ HandleGapAck(c) \/ HandleKeyframe(c) \/ Ask(c)
      PROVE  Faith'
  <2>1. /\ UNCHANGED <<sentSeq, history, prevCmds, encoded, sending, net, client, strayed>>
        /\ needKeyframe => needKeyframe'
    BY <1>6 DEF Join, OpenRequest, OpenPush, HandleGapAck, HandleKeyframe, Ask
  <2> QED
    BY <1>1, <2>1
<1>7. ASSUME NEW c \in Clients, OpenSendLast(c) PROVE Faith'
  <2>1. CASE lastPicture = <<>>
    <3>1. UNCHANGED <<sentSeq, history, prevCmds, encoded, sending, net, client, strayed, needKeyframe>>
      BY <1>7, <2>1 DEF OpenSendLast
    <3> QED
      BY <1>1, <3>1
  <2>2. CASE lastPicture # <<>>
    <3>1. /\ lastPicture \in Pictures /\ Encode(c, lastPicture, TRUE, 0)
          /\ UNCHANGED <<needKeyframe, net, client, strayed>>
      BY <1>7, <2>2 DEF OpenSendLast, TypeOK
    <3> QED
      BY <1>0, <3>1
  <2> QED
    BY <2>1, <2>2
<1>8. ASSUME NEW c \in Clients, HandleAssets(c) PROVE Faith'
  <2>1. CASE UNCHANGED <<sending, encoderVars, overtaken>>
    <3>1. UNCHANGED <<sentSeq, history, prevCmds, encoded, sending, net, client, strayed, needKeyframe>>
      BY <1>8, <2>1 DEF HandleAssets
    <3> QED
      BY <1>1, <3>1
  <2>2. CASE lastPicture # <<>> /\ Encode(c, lastPicture, TRUE, 0) /\ NoteOvertaking
    <3>1. lastPicture \in Pictures /\ UNCHANGED <<needKeyframe, net, client, strayed>>
      BY <1>8, <2>2 DEF HandleAssets, TypeOK
    <3> QED
      BY <1>0, <2>2, <3>1
  <2> QED
    BY <1>8, <2>1, <2>2 DEF HandleAssets
<1>9. ASSUME NEW c \in Clients, Leave(c) PROVE Faith'
  <2>1. /\ UNCHANGED <<sentSeq, history, prevCmds, encoded, sending, needKeyframe>>
        /\ \A d \in Clients : \/ client'[d] = client[d] /\ net'[d] = net[d] /\ strayed'[d] = strayed[d]
                              \/ ~client'[d].hasBaseline /\ net'[d] = <<>>
    BY <1>9 DEF Leave, NewClient, TypeOK
  <2> QED
    BY <2>1 DEF Faith, HonestEncoder, FaithfulPackets, SceneIsTheFrame
<1>10. ASSUME NEW c \in Clients, Deliver(c) PROVE Faith'
  <2> DEFINE s == client[c]
             f == Head(net[c])
             stray == f.type # "full" /\ (strayed[c] \/ Strays(s, f))
  <2>1. /\ client' = [client EXCEPT ![c] = OnFrame(s, f)]
        /\ net' = [net EXCEPT ![c] = Tail(net[c])]
        /\ strayed' = [strayed EXCEPT ![c] = stray]
        /\ net[c] # <<>> /\ net[c] \in Seq(Frame)
        /\ UNCHANGED <<sentSeq, history, prevCmds, encoded, sending, needKeyframe>>
    BY <1>10 DEF Deliver, TypeOK
  <2>2. s \in Sequencer /\ f \in Frame /\ f = net[c][1] /\ 1 \in 1..Len(net[c])
    BY <2>1 DEF TypeOK
  <2>3. Behind(s, f.seq) /\ FaithfulTo(f, encoded)
    BY <2>2 DEF InOrder, InChannel, Faith, FaithfulPackets
  <2>4. HonestEncoder'
    BY <2>1 DEF Faith, HonestEncoder
  <2>5. FaithfulPackets'
    <3>1. ASSUME NEW d \in Clients, NEW i \in 1..Len(net'[d])
          PROVE  \E j \in 1..Len(net[d]) : net'[d][i] = net[d][j]
      <4>1. CASE d = c
        <5>1. net'[d] = Tail(net[d]) /\ i + 1 \in 1..Len(net[d]) /\ net'[d][i] = net[d][i + 1]
          BY <2>1, <3>1, <4>1 DEF TypeOK
        <5> QED
          BY <5>1
      <4>2. CASE d # c
        BY <2>1, <3>1, <4>2 DEF TypeOK
      <4> QED
        BY <4>1, <4>2
    <3> QED
      BY <2>1, <3>1 DEF Faith, FaithfulPackets
  <2>6. ASSUME NEW d \in Clients, client'[d].hasBaseline, ~strayed'[d]
        PROVE  client'[d].lastSeq < sentSeq' /\ client'[d].scene = encoded'[client'[d].lastSeq + 1]
    <3>1. client'[d].lastSeq < sentSeq'
      BY <2>6 DEF InOrder, InChannel, Behind
    <3>2. CASE d = c
      <4>1. client'[d] = OnFrame(s, f) /\ strayed'[d] = stray /\ encoded' = encoded
        BY <2>1, <3>2 DEF TypeOK
      <4>2. ~stray /\ OnFrame(s, f).hasBaseline
        BY <2>6, <4>1
      <4>3. strayed[c] \in BOOLEAN /\ encoded \in Seq(Pictures)
        BY DEF TypeOK
      <4>4. s.hasBaseline /\ ~strayed[c] => s.scene = encoded[s.lastSeq + 1]
        BY DEF Faith, SceneIsTheFrame
      <4>5. OnFrame(s, f).scene = encoded[OnFrame(s, f).lastSeq + 1]
        BY <2>2, <2>3, <4>2, <4>3, <4>4, SceneFollows
      <4> QED
        BY <3>1, <4>1, <4>5
    <3>3. CASE d # c
      BY <2>1, <2>6, <3>1, <3>3 DEF Faith, SceneIsTheFrame, TypeOK
    <3> QED
      BY <3>2, <3>3
  <2>7. SceneIsTheFrame'
    BY <2>6 DEF SceneIsTheFrame
  <2> QED
    BY <2>4, <2>5, <2>7 DEF Faith
<1>11. ASSUME NEW c \in Clients, Lose(c) PROVE Faith'
  <2>1. /\ net' = [net EXCEPT ![c] = Tail(net[c])]
        /\ net[c] # <<>> /\ net[c] \in Seq(Frame)
        /\ UNCHANGED <<sentSeq, history, prevCmds, encoded, sending, needKeyframe, client, strayed>>
    BY <1>11 DEF Lose, TypeOK
  <2>2. HonestEncoder' /\ SceneIsTheFrame'
    BY <2>1 DEF Faith, HonestEncoder, SceneIsTheFrame
  <2>3. ASSUME NEW d \in Clients, NEW i \in 1..Len(net'[d])
        PROVE  \E j \in 1..Len(net[d]) : net'[d][i] = net[d][j]
    <3>1. CASE d = c
      <4>1. i + 1 \in 1..Len(net[d]) /\ net'[d][i] = net[d][i + 1]
        BY <2>1, <2>3, <3>1 DEF TypeOK
      <4> QED
        BY <4>1
    <3>2. CASE d # c
      BY <2>1, <2>3, <3>2 DEF TypeOK
    <3> QED
      BY <3>1, <3>2
  <2>4. FaithfulPackets'
    BY <2>1, <2>3 DEF Faith, FaithfulPackets
  <2> QED
    BY <2>2, <2>4 DEF Faith
<1>12. CASE UNCHANGED vars
  BY <1>1, <1>12 DEF vars
<1> QED
  BY <1>2, <1>3, <1>4, <1>5, <1>6, <1>7, <1>8, <1>9, <1>10, <1>11, <1>12 DEF Next, OutOfFrames

LEMMA FaithInvariant == Spec => [](TypeOK /\ InOrder /\ Faith)
<1>1. TypeOK /\ InOrder /\ Faith /\ [Next]_vars => TypeOK' /\ InOrder' /\ Faith'
  BY StepType, StepInOrder, StepFaith
<1> QED
  BY <1>1, InitType, InitFaith, PTL DEF Spec

\* A page that holds a baseline, and onto which no bridge for another scene was
\* patched, shows exactly the picture the host encoded under the number the
\* page is at, whatever was lost and whoever else is watching.
THEOREM SceneAlwaysTheFrame == Spec => []SceneIsTheFrame
BY FaithInvariant, PTL DEF Faith

-----------------------------------------------------------------------------
(* The ring                                                                *)

LEMMA MultiplesApart ==
  ASSUME NEW h \in Nat, h > 0, NEW j \in Int, NEW k \in Int, h * j < h * k
  PROVE  h * k >= h * j + h
<1>1. j < k
  OBVIOUS
<1>2. k - j - 1 \in Nat
  BY <1>1
<1>3. h * (k - j - 1) >= 0
  BY <1>2
<1> QED
  BY <1>3

\* Two numbers less than a ring's length apart do not share a slot.
LEMMA SlotsDiffer ==
  ASSUME NEW m \in Nat, NEW n \in Nat, m < n, n - m < HistorySize
  PROVE  Slot(m) # Slot(n)
<1> DEFINE h == HistorySize
           j == m \div h
           k == n \div h
           r == m % h
<1> SUFFICES ASSUME m % h = n % h PROVE FALSE
  BY DEF Slot
<1>1. h \in Nat /\ h > 0
  BY SizesAssumption
<1> HIDE DEF h
<1>2. h * (m \div h) + (m % h) = m
  BY <1>1
<1>3. h * (n \div h) + (n % h) = n
  BY <1>1
<1>4. j \in Int /\ k \in Int /\ r \in Int
  BY <1>1
<1>5. h * j + r = m /\ h * k + r = n
  BY <1>2, <1>3
<1>6. n - m < h
  BY DEF h
<1> HIDE DEF j, k, r
<1>7. h * j < h * k
  BY <1>1, <1>4, <1>5
<1>8. h * k >= h * j + h
  BY <1>1, <1>4, <1>7, MultiplesApart
<1> QED
  BY <1>1, <1>4, <1>5, <1>6, <1>8

RingCurrent ==
  \A n \in 1..Len(encoded) :
    n > Len(encoded) - HistorySize => history[Slot(n - 1)] = [seq |-> n - 1, cmds |-> encoded[n]]

LEMMA EncodeRing ==
  ASSUME TypeOK, HonestEncoder, RingCurrent,
         NEW by, NEW cmds \in Pictures, NEW force, NEW base, Encode(by, cmds, force, base)
  PROVE  RingCurrent'
<1>1. CASE UNCHANGED <<history, encoded>>
  BY <1>1 DEF RingCurrent
<1>2. CASE Record(cmds)
  <2>1. /\ encoded' = Append(encoded, cmds)
        /\ history' = [history EXCEPT ![Slot(sentSeq)] = [seq |-> sentSeq, cmds |-> cmds]]
        /\ sentSeq = Len(encoded) /\ sentSeq \in Nat /\ encoded \in Seq(Pictures)
    BY <1>2 DEF Record, Encode, HonestEncoder, TypeOK
  <2>2. /\ Len(encoded') = sentSeq + 1 /\ encoded'[sentSeq + 1] = cmds
        /\ \A i \in 1..sentSeq : encoded'[i] = encoded[i]
    BY <2>1
  <2>3. \A k \in Nat : Slot(k) \in 0..HistorySize - 1
    BY SizesAssumption DEF Slot
  <2>4. HistorySize \in Nat
    BY SizesAssumption
  <2> SUFFICES ASSUME NEW n \in 1..Len(encoded'), n > Len(encoded') - HistorySize
               PROVE  history'[Slot(n - 1)] = [seq |-> n - 1, cmds |-> encoded'[n]]
    BY DEF RingCurrent
  <2>5. n \in 1..sentSeq + 1 /\ n > sentSeq + 1 - HistorySize
    <3>1. Len(encoded') = sentSeq + 1 /\ sentSeq \in Nat /\ HistorySize \in Nat
      BY <2>1, <2>2, <2>4
    <3> QED
      BY <3>1
  <2>6. CASE n = sentSeq + 1
    BY <2>1, <2>2, <2>3, <2>6 DEF TypeOK, Ring
  <2>7. CASE n # sentSeq + 1
    <3>1. n - 1 \in Nat /\ n \in 1..sentSeq /\ n - 1 < sentSeq /\ sentSeq - (n - 1) < HistorySize
      BY <2>1, <2>4, <2>5, <2>7
    <3>2. Slot(n - 1) # Slot(sentSeq)
      BY <2>1, <3>1, SlotsDiffer
    <3>3. history'[Slot(n - 1)] = history[Slot(n - 1)]
      BY <2>1, <2>3, <3>1, <3>2 DEF TypeOK, Ring
    <3>4. history[Slot(n - 1)] = [seq |-> n - 1, cmds |-> encoded[n]]
      BY <2>1, <2>4, <2>5, <3>1 DEF RingCurrent
    <3> QED
      BY <2>2, <3>1, <3>3, <3>4
  <2> QED
    BY <2>6, <2>7
<1> QED
  BY <1>1, <1>2 DEF Encode

LEMMA StepRing == TypeOK /\ InOrder /\ Faith /\ RingCurrent /\ [Next]_vars => RingCurrent'
<1> SUFFICES ASSUME TypeOK, InOrder, Faith, RingCurrent, [Next]_vars PROVE RingCurrent'
  OBVIOUS
<1> USE DEF encoderVars, requestVars, pathVars, linkVars, ghostVars
<1>1. CASE UNCHANGED <<history, encoded>>
  BY <1>1 DEF RingCurrent
<1>2. CASE PresentEncode
  <2>1. present.cmds \in Pictures /\ Encode(Render, present.cmds, needKeyframe, pendingBase)
    BY <1>2 DEF PresentEncode, InOrder
  <2> QED
    BY <2>1, EncodeRing DEF Faith
<1>3. ASSUME NEW c \in Clients, Encode(c, lastPicture, TRUE, 0), lastPicture # <<>>
      PROVE  RingCurrent'
  BY <1>3, EncodeRing DEF Faith, TypeOK
<1>4. ASSUME NEW c \in Clients, OpenSendLast(c) PROVE RingCurrent'
  BY <1>1, <1>3, <1>4 DEF OpenSendLast
<1>5. ASSUME NEW c \in Clients, HandleAssets(c) PROVE RingCurrent'
  BY <1>1, <1>3, <1>5 DEF HandleAssets
<1>6. CASE PresentStart \/ PresentRemember \/ ClearRequest \/ Transmit \/ UNCHANGED vars
  BY <1>1, <1>6 DEF PresentStart, PresentRemember, ClearRequest, Transmit, vars
<1>7. ASSUME NEW c \in Clients,
             Join(c) \/ OpenRequest(c) \/ OpenPush(c) \/ Leave(c) \/ HandleGapAck(c)
               \/ HandleKeyframe(c) \/ Deliver(c) \/ Lose(c) \/ Ask(c)
      PROVE  RingCurrent'
  BY <1>1, <1>7 DEF Join, OpenRequest, OpenPush, Leave, HandleGapAck, HandleKeyframe, Deliver, Lose, Ask
<1> QED
  BY <1>2, <1>4, <1>5, <1>6, <1>7 DEF Next, OutOfFrames

\* What a bridge or a plain delta is diffed against is the picture sent under
\* that number: the ring holds the last HistorySize frames, and prev_cmds the
\* last one, also while a packet waits between encode_frame and g_sent_seq++.
THEOREM EncoderAlwaysCoherent == Spec => []EncoderCoherent
<1>1. Init => RingCurrent
  BY DEF Init, RingCurrent
<1>2. HonestEncoder /\ RingCurrent => EncoderCoherent
  BY DEF HonestEncoder, RingCurrent, EncoderCoherent
<1> QED
  BY <1>1, <1>2, StepRing, FaithInvariant, PTL DEF Spec, Faith

-----------------------------------------------------------------------------
(* The refinement                                                          *)

LEMMA StepMirrors ==
  TypeOK /\ TypeOK' /\ InOrder /\ InOrder' /\ Faith /\ Faith' /\ [Next]_vars
    => [Mirror!Next]_<<encoded, At, View>>
<1> SUFFICES ASSUME TypeOK, TypeOK', InOrder, InOrder', Faith, Faith', [Next]_vars
             PROVE  [Mirror!Next]_<<encoded, At, View>>
  OBVIOUS
<1> USE DEF encoderVars, requestVars, pathVars, linkVars, ghostVars
<1>1. CASE UNCHANGED <<encoded, client, strayed>>
  BY <1>1 DEF At, View
<1>2. ASSUME NEW by \in Clients \cup {Render}, NEW cmds \in Pictures, NEW force, NEW base,
             Encode(by, cmds, force, base), UNCHANGED <<client, strayed>>
      PROVE  [Mirror!Next]_<<encoded, At, View>>
  <2>1. encoded' = encoded \/ encoded' = Append(encoded, cmds)
    BY <1>2 DEF Encode, Record
  <2>2. UNCHANGED <<At, View>>
    BY <1>2 DEF At, View
  <2> QED
    BY <2>1, <2>2 DEF Mirror!Next, Mirror!Publish
<1>3. CASE PresentEncode
  <2>1. /\ present.cmds \in Pictures /\ Encode(Render, present.cmds, needKeyframe, pendingBase)
        /\ UNCHANGED <<client, strayed>>
    BY <1>3 DEF PresentEncode, InOrder
  <2> QED
    BY <1>2, <2>1
<1>4. ASSUME NEW c \in Clients, OpenSendLast(c) \/ HandleAssets(c)
      PROVE  [Mirror!Next]_<<encoded, At, View>>
  <2>1. /\ UNCHANGED <<client, strayed>>
        /\ UNCHANGED encoded \/ (lastPicture # <<>> /\ Encode(c, lastPicture, TRUE, 0))
    BY <1>4 DEF OpenSendLast, HandleAssets
  <2> QED
    BY <1>1, <1>2, <2>1 DEF TypeOK
<1>5. ASSUME NEW c \in Clients, Leave(c) PROVE [Mirror!Next]_<<encoded, At, View>>
  <2>1. /\ client' = [client EXCEPT ![c] = NewClient] /\ strayed' = [strayed EXCEPT ![c] = FALSE]
        /\ UNCHANGED encoded
    BY <1>5 DEF Leave
  <2>2. At' = [At EXCEPT ![c] = 0]
    BY <2>1 DEF At, TypeOK, NewClient
  <2>3. View' = [View EXCEPT ![c] = <<>>]
    BY <2>1 DEF View, TypeOK, NewClient
  <2> QED
    BY <2>1, <2>2, <2>3 DEF Mirror!Next, Mirror!Leave
<1>6. ASSUME NEW c \in Clients, Deliver(c) PROVE [Mirror!Next]_<<encoded, At, View>>
  <2> DEFINE s == client[c]
             f == Head(net[c])
             t == OnFrame(s, f)
             n == t.lastSeq + 1
             stray == f.type # "full" /\ (strayed[c] \/ Strays(s, f))
  <2>1. /\ client' = [client EXCEPT ![c] = t]
        /\ strayed' = [strayed EXCEPT ![c] = stray]
        /\ encoded' = encoded /\ sentSeq' = sentSeq
    BY <1>6 DEF Deliver
  <2>2. s \in Sequencer /\ f \in Frame /\ Behind(s, f.seq) /\ t \in Sequencer
    <3>1. s \in Sequencer /\ f \in Frame /\ f = net[c][1] /\ 1 \in 1..Len(net[c])
      BY <1>6 DEF Deliver, TypeOK
    <3>2. Behind(s, f.seq)
      BY <3>1 DEF InOrder, InChannel
    <3> QED
      BY <3>1, <3>2, SequencerType
  <2>3. CASE f.type = "full" \/ (~Cold(s, f) /\ Patches(s, f))
    <3>1. t.hasBaseline /\ t.lastSeq = f.seq
      <4>1. CASE f.type = "full"
        BY <4>1 DEF OnFrame, OnFull, NewClient
      <4>2. CASE f.type # "full" /\ ~Cold(s, f) /\ Patches(s, f)
        <5>1. t = OnApplicable(s, f) /\ s.hasBaseline
          BY <4>2 DEF OnFrame, Patches
        <5> DEFINE shown == Patch(s.scene, f)
        <5>2. OnApplicable(s, f) =
                [s EXCEPT !.lastSeq = f.seq,
                          !.awaitingBridge = FALSE, !.awaitingKeyframe = FALSE, !.gapFrames = 0,
                          !.pending = {}, !.scene = shown]
          BY <2>2, AppliedInOrder
        <5> HIDE DEF shown
        <5>3. OnApplicable(s, f).lastSeq = f.seq /\ OnApplicable(s, f).hasBaseline = s.hasBaseline
          BY <2>2, <5>2 DEF Sequencer
        <5> QED
          BY <5>1, <5>3
      <4> QED
        BY <2>3, <4>1, <4>2
    <3>2. f.seq \in Nat /\ n = f.seq + 1 /\ At[c] < n /\ At[c] \in Nat
      BY <2>2, <3>1 DEF At, Behind, Frame, Sequencer
    <3>3. n \in 1..Len(encoded)
      <4>1. t.lastSeq < sentSeq'
        BY <2>1, <3>1 DEF InOrder, InChannel, Behind, TypeOK
      <4>2. sentSeq <= Len(encoded) /\ sentSeq \in Nat /\ Len(encoded) \in Nat
        BY DEF Faith, HonestEncoder, TypeOK
      <4> QED
        BY <2>1, <3>1, <3>2, <4>1, <4>2
    <3>4. n \in At[c] + 1..Len(encoded)
      BY <3>2, <3>3
    <3>5. At' = [At EXCEPT ![c] = n]
      BY <2>1, <3>1 DEF At, TypeOK
    <3>6. CASE stray
      <4>1. View' = [View EXCEPT ![c] = Torn]
        BY <2>1, <3>6 DEF View, TypeOK
      <4>2. At[c] > 0
        BY <2>2, <2>3, <3>6 DEF At, Patches, Sequencer
      <4> QED
        BY <2>1, <3>3, <3>4, <3>5, <4>1, <4>2 DEF Mirror!Next, Mirror!Tear, Mirror!Step
    <3>7. CASE ~stray
      <4>1. View' = [View EXCEPT ![c] = t.scene]
        BY <2>1, <3>7 DEF View, TypeOK
      <4>2. t.scene = encoded[n]
        BY <2>1, <3>1, <3>7 DEF Faith, SceneIsTheFrame, TypeOK
      <4> QED
        BY <2>1, <3>3, <3>4, <3>5, <4>1, <4>2 DEF Mirror!Next, Mirror!Show, Mirror!Step
    <3> QED
      BY <3>6, <3>7
  <2>4. CASE f.type # "full" /\ (Cold(s, f) \/ ~Patches(s, f))
    <3>1. t.hasBaseline = s.hasBaseline /\ t.lastSeq = s.lastSeq /\ t.scene = s.scene
      <4>1. CASE Cold(s, f)
        BY <2>2, <2>4, <4>1 DEF OnFrame, OnColdDelta, Sequencer
      <4>2. CASE ~Cold(s, f)
        BY <2>2, <2>4, <4>2 DEF OnFrame, OnGap, Sequencer
      <4> QED
        BY <4>1, <4>2
    <3>2. stray = strayed[c]
      <4>1. ~Patches(s, f)
        BY <2>4 DEF Cold, Patches
      <4> QED
        BY <2>4, <4>1 DEF Strays, TypeOK
    <3>3. At' = At
      BY <2>1, <3>1 DEF At, TypeOK
    <3>4. View' = View
      BY <2>1, <3>1, <3>2 DEF View, TypeOK
    <3> QED
      BY <2>1, <3>3, <3>4
  <2> QED
    BY <2>3, <2>4
<1>7. ASSUME NEW c \in Clients,
             Join(c) \/ OpenRequest(c) \/ OpenPush(c) \/ HandleGapAck(c)
               \/ HandleKeyframe(c) \/ Lose(c) \/ Ask(c)
      PROVE  [Mirror!Next]_<<encoded, At, View>>
  BY <1>1, <1>7 DEF Join, OpenRequest, OpenPush, HandleGapAck, HandleKeyframe, Lose, Ask
<1>8. CASE PresentStart \/ PresentRemember \/ ClearRequest \/ Transmit \/ UNCHANGED vars
  BY <1>1, <1>8 DEF PresentStart, PresentRemember, ClearRequest, Transmit, vars
<1> QED
  BY <1>3, <1>4, <1>5, <1>6, <1>7, <1>8 DEF Next, OutOfFrames

\* The stream implements the mirror: every page steps forward through the
\* pictures the game drew, and shows whole ones unless it is torn.
THEOREM StreamIsAMirror == Spec => MirrorSpec
<1>1. Init => Mirror!Init
  BY DEF Init, Mirror!Init, At, View, NewClient
<1> QED
  BY <1>1, StepMirrors, FaithInvariant, PTL DEF Spec, MirrorSpec, Mirror!Spec

-----------------------------------------------------------------------------
(* What is promised to a page that lost nothing: no gap, no stray patch    *)
(* and the still screen.                                                   *)

-----------------------------------------------------------------------------
(* Gaps: the packets on their way to a page that lost none are numbered    *)
(* without a hole up to the next number, starting just after the frame the *)
(* page is at.                                                             *)

Consecutive(s, q, n) ==
  /\ \A i \in 1..Len(q) : q[i].seq = n - Len(q) + i - 1
  /\ s.hasBaseline => s.lastSeq + 1 = n - Len(q) /\ ~s.awaitingKeyframe
  /\ ~s.awaitingBridge /\ s.pending = {}

Gapless ==
  \A c \in Clients :
    /\ c \notin ActiveDcs => net[c] = <<>> /\ client[c] = NewClient
    /\ lost[c] # "now" => Consecutive(client[c], net[c], sentSeq)

LEMMA NewIsConsecutive == \A n \in Nat : Consecutive(NewClient, <<>>, n)
BY DEF Consecutive, NewClient

LEMMA SentConsecutively ==
  ASSUME NEW s \in Sequencer, NEW q \in Seq(Frame), NEW n \in Nat, Consecutive(s, q, n),
         NEW f \in Frame, f.seq = n
  PROVE  Consecutive(s, Append(q, f), n + 1)
<1>1. /\ Len(Append(q, f)) = Len(q) + 1 /\ Len(q) \in Nat
      /\ \A i \in 1..Len(q) : Append(q, f)[i] = q[i]
      /\ Append(q, f)[Len(q) + 1] = f
  OBVIOUS
<1>2. ASSUME NEW i \in 1..Len(q) + 1
      PROVE  Append(q, f)[i].seq = n + 1 - (Len(q) + 1) + i - 1
  <2>1. CASE i = Len(q) + 1
    BY <1>1, <2>1
  <2>2. CASE i # Len(q) + 1
    BY <1>1, <2>2 DEF Consecutive
  <2> QED
    BY <2>1, <2>2
<1>3. s.hasBaseline => s.lastSeq + 1 = n + 1 - (Len(q) + 1)
  BY <1>1 DEF Consecutive, Sequencer
<1> QED
  BY <1>1, <1>2, <1>3 DEF Consecutive

\* The next packet of an unbroken run is whole, or patches the page at once.
LEMMA NextApplies ==
  ASSUME NEW s \in Sequencer, NEW q \in Seq(Frame), q # <<>>, NEW n \in Nat,
         Consecutive(s, q, n), s.hasBaseline, Head(q).type # "full"
  PROVE  Patches(s, Head(q))
<1>1. Head(q) \in Frame /\ Head(q) = q[1] /\ 1 \in 1..Len(q) /\ Len(q) \in Nat
  OBVIOUS
<1>2. Head(q).seq = s.lastSeq + 1 /\ ~s.awaitingBridge /\ ~s.awaitingKeyframe
  BY <1>1 DEF Consecutive, Sequencer
<1> QED
  BY <1>1, <1>2 DEF Patches, Applicable, Frame, Sequencer

LEMMA TakenConsecutively ==
  ASSUME NEW s \in Sequencer, NEW q \in Seq(Frame), q # <<>>, NEW n \in Nat,
         InChannel(s, q, n), Consecutive(s, q, n)
  PROVE  Consecutive(OnFrame(s, Head(q)), Tail(q), n)
<1> DEFINE f == Head(q)
           t == OnFrame(s, f)
<1>1. /\ f \in Frame /\ f = q[1] /\ 1 \in 1..Len(q) /\ Len(q) \in Nat
      /\ Tail(q) \in Seq(Frame) /\ Len(Tail(q)) = Len(q) - 1
      /\ \A i \in 1..Len(q) - 1 : Tail(q)[i] = q[i + 1]
  OBVIOUS
<1>2. f.seq = n - Len(q) /\ Behind(s, f.seq)
  BY <1>1 DEF Consecutive, InChannel
<1>3. \A i \in 1..Len(Tail(q)) : Tail(q)[i].seq = n - Len(Tail(q)) + i - 1
  BY <1>1 DEF Consecutive
<1>4. /\ t.hasBaseline => t.lastSeq = f.seq /\ ~t.awaitingKeyframe
      /\ ~t.awaitingBridge /\ t.pending = {}
  <2>1. CASE f.type = "full"
    BY <2>1 DEF OnFrame, OnFull, NewClient
  <2>2. CASE f.type # "full" /\ Cold(s, f)
    BY <2>2 DEF OnFrame, OnColdDelta, Cold, Consecutive, Sequencer
  <2>3. CASE f.type # "full" /\ ~Cold(s, f)
    <3>1. Patches(s, f)
      BY <1>1, <2>3, NextApplies DEF Cold, Frame
    <3>2. t = OnApplicable(s, f)
      BY <2>3, <3>1 DEF OnFrame
    <3> DEFINE shown == Patch(s.scene, f)
    <3>3. OnApplicable(s, f) =
            [s EXCEPT !.lastSeq = f.seq,
                      !.awaitingBridge = FALSE, !.awaitingKeyframe = FALSE, !.gapFrames = 0,
                      !.pending = {}, !.scene = shown]
      BY <1>1, <1>2, AppliedInOrder
    <3> HIDE DEF shown, t, f
    <3> QED
      BY <3>2, <3>3 DEF Sequencer
  <2> QED
    BY <2>1, <2>2, <2>3
<1>5. t.hasBaseline => t.lastSeq + 1 = n - Len(Tail(q))
  BY <1>1, <1>2, <1>4
<1> HIDE DEF t, f
<1> QED
  BY <1>3, <1>4, <1>5 DEF Consecutive, t, f

LEMMA StepGapless == TypeOK /\ InOrder /\ Gapless /\ [Next]_vars => Gapless'
<1> SUFFICES ASSUME TypeOK, InOrder, Gapless, [Next]_vars PROVE Gapless'
  OBVIOUS
<1> USE DEF encoderVars, requestVars, pathVars, linkVars, ghostVars
<1>1. ASSUME UNCHANGED <<sentSeq, net, client, lost>>, ActiveDcs \subseteq ActiveDcs'
      PROVE  Gapless'
  BY <1>1 DEF Gapless
<1>2. CASE PresentStart \/ PresentRemember \/ ClearRequest \/ PresentEncode \/ UNCHANGED vars
  <2>1. UNCHANGED <<sentSeq, net, client, lost, status>>
    BY <1>2 DEF PresentStart, PresentRemember, ClearRequest, PresentEncode, Encode, vars
  <2> QED
    BY <1>1, <2>1 DEF ActiveDcs
<1>3. CASE Transmit
  <2>1. /\ sending.packet \in Frame /\ sending.packet.seq = sentSeq /\ sentSeq' = sentSeq + 1
        /\ UNCHANGED <<client, lost>> /\ sentSeq \in Nat
    BY <1>3 DEF Transmit, InOrder, Free, TypeOK
  <2>2. \A c \in Clients : c \in ActiveDcs => c \in ActiveDcs'
    BY <1>3 DEF Transmit, ActiveDcs, TypeOK
  <2>3. ASSUME NEW c \in Clients
        PROVE  /\ c \notin ActiveDcs' => net'[c] = <<>> /\ client'[c] = NewClient
               /\ lost'[c] # "now" => Consecutive(client'[c], net'[c], sentSeq')
    <3>1. CASE c \in ActiveDcs
      <4>1. net'[c] = Append(net[c], sending.packet)
        BY <1>3, <3>1 DEF Transmit
      <4>2. client[c] \in Sequencer /\ net[c] \in Seq(Frame)
        BY DEF TypeOK
      <4>3. lost[c] # "now" => Consecutive(client[c], Append(net[c], sending.packet), sentSeq + 1)
        BY <2>1, <4>2, SentConsecutively DEF Gapless
      <4> QED
        BY <2>1, <2>2, <3>1, <4>1, <4>3
    <3>2. CASE c \notin ActiveDcs
      <4>1. net'[c] = <<>> /\ client'[c] = NewClient
        BY <1>3, <2>1, <3>2 DEF Transmit, Gapless
      <4> QED
        BY <2>1, <4>1, NewIsConsecutive
    <3> QED
      BY <3>1, <3>2
  <2> QED
    BY <2>3 DEF Gapless
<1>4. ASSUME NEW c \in Clients, Join(c) \/ OpenRequest(c) \/ OpenPush(c) PROVE Gapless'
  <2>1. UNCHANGED <<sentSeq, net, client, lost>>
    BY <1>4 DEF Join, OpenRequest, OpenPush
  <2>2. ActiveDcs \subseteq ActiveDcs'
    BY <1>4 DEF Join, OpenRequest, OpenPush, ActiveDcs, TypeOK
  <2> QED
    BY <1>1, <2>1, <2>2
<1>5. ASSUME NEW c \in Clients, OpenSendLast(c) PROVE Gapless'
  <2>1. UNCHANGED <<sentSeq, net, client, lost>>
    BY <1>5 DEF OpenSendLast, Encode
  <2>2. ActiveDcs \subseteq ActiveDcs'
    BY <1>5 DEF OpenSendLast, ActiveDcs, TypeOK
  <2> QED
    BY <1>1, <2>1, <2>2
<1>6. ASSUME NEW c \in Clients,
             HandleGapAck(c) \/ HandleKeyframe(c) \/ HandleAssets(c) \/ Ask(c)
      PROVE  Gapless'
  <2>1. UNCHANGED <<sentSeq, net, client, lost, status>>
    BY <1>6 DEF HandleGapAck, HandleKeyframe, HandleAssets, Encode, Ask
  <2> QED
    BY <1>1, <2>1 DEF ActiveDcs
<1>7. ASSUME NEW c \in Clients, Leave(c) PROVE Gapless'
  <2>1. /\ sentSeq' = sentSeq /\ sentSeq \in Nat
        /\ net'[c] = <<>> /\ client'[c] = NewClient
        /\ \A d \in Clients \ {c} :
             net'[d] = net[d] /\ client'[d] = client[d] /\ lost'[d] = lost[d] /\ status'[d] = status[d]
    BY <1>7 DEF Leave, TypeOK
  <2> QED
    BY <2>1, NewIsConsecutive DEF Gapless, ActiveDcs
<1>8. ASSUME NEW c \in Clients, Deliver(c) PROVE Gapless'
  <2>1. /\ client[c] \in Sequencer /\ net[c] \in Seq(Frame) /\ sentSeq \in Nat
        /\ net[c] # <<>> /\ InChannel(client[c], net[c], sentSeq)
    BY <1>8 DEF Deliver, TypeOK, InOrder
  <2>2. /\ client' = [client EXCEPT ![c] = OnFrame(client[c], Head(net[c]))]
        /\ net' = [net EXCEPT ![c] = Tail(net[c])]
        /\ UNCHANGED <<sentSeq, status, lost>>
    BY <1>8 DEF Deliver
  <2>3. lost[c] # "now" => Consecutive(OnFrame(client[c], Head(net[c])), Tail(net[c]), sentSeq)
    BY <2>1, TakenConsecutively DEF Gapless
  <2>4. c \in ActiveDcs
    BY <2>1 DEF Gapless
  <2> QED
    BY <2>2, <2>3, <2>4 DEF Gapless, ActiveDcs, TypeOK
<1>9. ASSUME NEW c \in Clients, Lose(c) PROVE Gapless'
  <2>1. /\ net[c] # <<>> /\ net' = [net EXCEPT ![c] = Tail(net[c])]
        /\ lost' = [lost EXCEPT ![c] = "now"]
        /\ UNCHANGED <<sentSeq, status, client>>
    BY <1>9 DEF Lose
  <2>2. c \in ActiveDcs
    BY <2>1 DEF Gapless
  <2> QED
    BY <2>1, <2>2 DEF Gapless, ActiveDcs, TypeOK
<1> QED
  BY <1>2, <1>3, <1>4, <1>5, <1>6, <1>7, <1>8, <1>9 DEF Next, OutOfFrames

LEMMA GaplessInvariant == Spec => [](TypeOK /\ InOrder /\ Gapless)
<1>1. Init => Gapless
  BY NewIsConsecutive DEF Init, Gapless
<1>2. TypeOK /\ InOrder /\ Gapless /\ [Next]_vars => TypeOK' /\ InOrder' /\ Gapless'
  BY StepType, StepInOrder, StepGapless
<1> QED
  BY <1>1, <1>2, InitType, PTL DEF Spec

\* A number is consumed only by a frame that was sent, so whoever lost no
\* packet neither holds frames back nor waits for a bridge.
THEOREM GapsMeanLoss == Spec => []OnlyLossMakesGaps
<1>1. Gapless => OnlyLossMakesGaps
  BY DEF Gapless, Consecutive, OnlyLossMakesGaps
<1> QED
  BY <1>1, GaplessInvariant, PTL

-----------------------------------------------------------------------------
(* Strays: as long as no page ever lost a packet no bridge is asked for,   *)
(* and every delta is described against the frame just before it.          *)

Chained(f) == f.type = "delta" => f.base = f.seq - 1

NoBridges ==
  (\A c \in Clients : lost[c] = "never") =>
    /\ pendingBase = 0
    /\ sending # Free => Chained(sending.packet)
    /\ \A c \in Clients :
         /\ ~strayed[c]
         /\ \A i \in 1..Len(net[c]) : Chained(net[c][i])
         /\ \A i \in 1..Len(up[c]) : up[c][i].op # "gapAck"

LEMMA EncodesChained ==
  ASSUME NEW by, NEW cmds, NEW force, Encode(by, cmds, force, 0)
  PROVE  sending' # Free => Chained(sending'.packet)
BY DEF Encode, Encodings, FullFrame, DeltaFrame, Chained

LEMMA StepNoBridges ==
  TypeOK /\ InOrder /\ Gapless /\ NoBridges /\ [Next]_vars => NoBridges'
<1> SUFFICES ASSUME TypeOK, InOrder, Gapless, NoBridges, [Next]_vars,
                    \A c \in Clients : lost'[c] = "never"
             PROVE  /\ pendingBase' = 0
                    /\ sending' # Free => Chained(sending'.packet)
                    /\ \A c \in Clients :
                         /\ ~strayed'[c]
                         /\ \A i \in 1..Len(net'[c]) : Chained(net'[c][i])
                         /\ \A i \in 1..Len(up'[c]) : up'[c][i].op # "gapAck"
  BY DEF NoBridges
<1> DEFINE Goal == /\ pendingBase' = 0
                   /\ sending' # Free => Chained(sending'.packet)
                   /\ \A c \in Clients :
                        /\ ~strayed'[c]
                        /\ \A i \in 1..Len(net'[c]) : Chained(net'[c][i])
                        /\ \A i \in 1..Len(up'[c]) : up'[c][i].op # "gapAck"
<1> USE DEF encoderVars, requestVars, pathVars, linkVars, ghostVars
<1>1. \A c \in Clients : lost[c] = "never"
  <2>1. CASE lost' = lost
    BY <2>1
  <2>2. ASSUME NEW c \in Clients, Leave(c) PROVE \A d \in Clients : lost[d] = "never"
    BY <2>2 DEF Leave, TypeOK
  <2>3. ASSUME NEW c \in Clients, Lose(c) PROVE FALSE
    BY <2>3 DEF Lose, TypeOK
  <2>4. lost' = lost \/ \E c \in Clients : Leave(c) \/ Lose(c)
    BY DEF Next, OutOfFrames, vars, PresentStart, PresentEncode, PresentRemember, ClearRequest,
           Transmit, Join, OpenRequest, OpenPush, OpenSendLast, HandleGapAck, HandleKeyframe,
           HandleAssets, Deliver, Ask
  <2> QED
    BY <2>1, <2>2, <2>3, <2>4
<1>2. /\ pendingBase = 0
      /\ sending # Free => Chained(sending.packet)
      /\ \A c \in Clients :
           /\ ~strayed[c]
           /\ \A i \in 1..Len(net[c]) : Chained(net[c][i])
           /\ \A i \in 1..Len(up[c]) : up[c][i].op # "gapAck"
  BY <1>1 DEF NoBridges
<1>3. CASE PresentStart \/ PresentRemember \/ UNCHANGED vars
  BY <1>2, <1>3 DEF PresentStart, PresentRemember, vars
<1>4. CASE PresentEncode
  <2>1. Encode(Render, present.cmds, needKeyframe, 0) /\ pendingBase' = 0
        /\ UNCHANGED <<net, up, strayed>>
    BY <1>2, <1>4 DEF PresentEncode
  <2> QED
    BY <1>2, <2>1, EncodesChained
<1>5. CASE ClearRequest
  <2>1. sending # Free /\ sending'.packet = sending.packet /\ UNCHANGED <<pendingBase, net, up, strayed>>
    BY <1>5 DEF ClearRequest, Free, TypeOK, Sending
  <2> QED
    BY <1>2, <2>1
<1>6. CASE Transmit
  <2>1. /\ sending # Free /\ sending' = Free /\ UNCHANGED <<pendingBase, up, strayed>>
        /\ \A c \in Clients : net'[c] = net[c] \/ net'[c] = Append(net[c], sending.packet)
    BY <1>6 DEF Transmit, Free
  <2>2. ASSUME NEW c \in Clients, NEW i \in 1..Len(net'[c])
        PROVE  net'[c][i] = sending.packet \/ \E j \in 1..Len(net[c]) : net'[c][i] = net[c][j]
    <3>1. net[c] \in Seq(Frame)
      BY DEF TypeOK
    <3>2. net'[c] = net[c] \/ net'[c] = Append(net[c], sending.packet)
      BY <2>1
    <3> QED
      BY <2>2, <3>1, <3>2
  <2>3. \A c \in Clients : \A i \in 1..Len(net'[c]) : Chained(net'[c][i])
    BY <1>2, <2>1, <2>2
  <2> QED
    BY <1>2, <2>1, <2>3
<1>7. ASSUME NEW c \in Clients, Join(c) \/ OpenRequest(c) \/ OpenPush(c) PROVE Goal
  BY <1>2, <1>7 DEF Join, OpenRequest, OpenPush
<1>8. ASSUME NEW c \in Clients, OpenSendLast(c) PROVE Goal
  <2>1. UNCHANGED <<pendingBase, net, up, strayed>>
    BY <1>8 DEF OpenSendLast
  <2>2. sending' # Free => Chained(sending'.packet)
    <3>1. CASE lastPicture = <<>>
      BY <1>2, <1>8, <3>1 DEF OpenSendLast
    <3>2. CASE lastPicture # <<>>
      BY <1>8, <3>2, EncodesChained DEF OpenSendLast
    <3> QED
      BY <3>1, <3>2
  <2> QED
    BY <1>2, <2>1, <2>2
<1>9. ASSUME NEW c \in Clients, Leave(c) PROVE Goal
  <2>1. /\ UNCHANGED <<pendingBase, sending>>
        /\ net'[c] = <<>> /\ up'[c] = <<>> /\ ~strayed'[c]
        /\ \A d \in Clients \ {c} : net'[d] = net[d] /\ up'[d] = up[d] /\ strayed'[d] = strayed[d]
    BY <1>9 DEF Leave, TypeOK
  <2> QED
    BY <1>2, <2>1
<1>10. ASSUME NEW c \in Clients, HandleGapAck(c) PROVE FALSE
  <2>1. up[c] \in Seq(Request) /\ up[c] # <<>> /\ Head(up[c]).op = "gapAck"
    BY <1>10 DEF HandleGapAck, TypeOK
  <2>2. 1 \in 1..Len(up[c]) /\ Head(up[c]) = up[c][1]
    BY <2>1
  <2> QED
    BY <1>2, <2>1, <2>2
<1>11. ASSUME NEW c \in Clients, HandleKeyframe(c) \/ HandleAssets(c) PROVE Goal
  <2>1. /\ up[c] # <<>> /\ up' = [up EXCEPT ![c] = Tail(up[c])]
        /\ UNCHANGED <<pendingBase, net, strayed>>
        /\ sending' = sending \/ Encode(c, lastPicture, TRUE, 0)
    BY <1>11 DEF HandleKeyframe, HandleAssets, Handled
  <2>2. sending' # Free => Chained(sending'.packet)
    BY <1>2, <2>1, EncodesChained
  <2>3. ASSUME NEW d \in Clients, NEW i \in 1..Len(up'[d])
        PROVE  \E j \in 1..Len(up[d]) : up'[d][i] = up[d][j]
    <3>1. up \in [Clients -> Seq(Request)]
      BY DEF TypeOK
    <3>2. CASE d = c
      <4>1. i + 1 \in 1..Len(up[d]) /\ up'[d][i] = up[d][i + 1]
        BY <2>1, <2>3, <3>1, <3>2
      <4> QED
        BY <4>1
    <3>3. CASE d # c
      BY <2>1, <2>3, <3>1, <3>3
    <3> QED
      BY <3>2, <3>3
  <2> QED
    BY <1>2, <2>1, <2>2, <2>3
<1>12. ASSUME NEW c \in Clients, Deliver(c) PROVE Goal
  <2> DEFINE s == client[c]
             f == Head(net[c])
             stray == f.type # "full" /\ (strayed[c] \/ Strays(s, f))
  <2>1. /\ net[c] # <<>> /\ net' = [net EXCEPT ![c] = Tail(net[c])]
        /\ up' = [up EXCEPT ![c] = up[c] \o Requests(s, f)]
        /\ strayed' = [strayed EXCEPT ![c] = stray]
        /\ UNCHANGED <<pendingBase, sending>>
    BY <1>12 DEF Deliver
  <2>2. /\ s \in Sequencer /\ net[c] \in Seq(Frame) /\ f \in Frame /\ sentSeq \in Nat
        /\ f = net[c][1] /\ 1 \in 1..Len(net[c])
        /\ Consecutive(s, net[c], sentSeq)
    BY <1>1, <2>1 DEF TypeOK, Gapless
  <2>3. Behind(s, f.seq) /\ Chained(f)
    BY <1>2, <2>2 DEF InOrder, InChannel
  <2>4. ~stray
    <3>1. ~Strays(s, f)
      BY <2>2, <2>3 DEF Strays, Patches, Behind, Chained, Frame, Sequencer
    <3> QED
      BY <1>2, <3>1
  <2>5. ~Gaps(s, f)
    BY <2>1, <2>2, NextApplies DEF Gaps, Patches
  <2>6. \A i \in 1..Len(Requests(s, f)) : Requests(s, f)[i].op # "gapAck"
    BY <2>5 DEF Requests
  <2>7. Requests(s, f) \in Seq(Request)
    BY <2>2, RequestsType
  <2> HIDE DEF s, f, stray
  <2>8. ASSUME NEW i \in 1..Len(up[c] \o Requests(s, f))
        PROVE  (up[c] \o Requests(s, f))[i].op # "gapAck"
    <3>1. up[c] \in Seq(Request)
      BY DEF TypeOK
    <3>2. CASE i <= Len(up[c])
      <4>1. (up[c] \o Requests(s, f))[i] = up[c][i] /\ i \in 1..Len(up[c])
        BY <2>7, <2>8, <3>1, <3>2, ConcatProperties
      <4> QED
        BY <1>2, <4>1
    <3>3. CASE i > Len(up[c])
      <4>1. /\ (up[c] \o Requests(s, f))[i] = Requests(s, f)[i - Len(up[c])]
            /\ i - Len(up[c]) \in 1..Len(Requests(s, f))
        BY <2>7, <2>8, <3>1, <3>3, ConcatProperties
      <4> QED
        BY <2>6, <4>1
    <3> QED
      BY <3>1, <3>2, <3>3
  <2>9. ASSUME NEW i \in 1..Len(Tail(net[c]))
        PROVE  Chained(Tail(net[c])[i])
    <3>1. i + 1 \in 1..Len(net[c]) /\ Tail(net[c])[i] = net[c][i + 1]
      BY <2>1, <2>2, <2>9
    <3> QED
      BY <1>2, <3>1
  <2> QED
    BY <1>2, <2>1, <2>4, <2>8, <2>9 DEF TypeOK
<1>13. ASSUME NEW c \in Clients, Lose(c) PROVE FALSE
  BY <1>13 DEF Lose, TypeOK
<1>14. ASSUME NEW c \in Clients, Ask(c) PROVE Goal
  <2>1. /\ UNCHANGED <<pendingBase, sending, net, strayed>>
        /\ \E op \in {"assets", "keyframe"} : up' = [up EXCEPT ![c] = Append(up[c], [op |-> op, base |-> 0])]
    BY <1>14 DEF Ask
  <2>2. PICK op \in {"assets", "keyframe"} : up' = [up EXCEPT ![c] = Append(up[c], [op |-> op, base |-> 0])]
    BY <2>1
  <2> DEFINE r == [op |-> op, base |-> 0]
  <2>3. ASSUME NEW d \in Clients, NEW i \in 1..Len(up'[d])
        PROVE  up'[d][i] = r \/ \E j \in 1..Len(up[d]) : up'[d][i] = up[d][j]
    <3>1. up \in [Clients -> Seq(Request)]
      BY DEF TypeOK
    <3> QED
      BY <2>2, <2>3, <3>1
  <2> QED
    BY <1>2, <2>1, <2>2, <2>3
<1> QED
  BY <1>3, <1>4, <1>5, <1>6, <1>7, <1>8, <1>9, <1>10, <1>11, <1>12, <1>13, <1>14 DEF Next, OutOfFrames

\* As long as no page, present or gone, ever lost a packet, no page is patched
\* with a delta that is meant for another scene.
THEOREM StraysMeanLoss == Spec => []OnlyLossMakesStrays
<1>1. Init => NoBridges
  BY DEF Init, NoBridges, Free
<1>2. NoBridges => OnlyLossMakesStrays
  BY DEF NoBridges, OnlyLossMakesStrays
<1> QED
  BY <1>1, <1>2, StepNoBridges, GaplessInvariant, PTL DEF Spec

-----------------------------------------------------------------------------
(* The still screen.                                                       *)

\* A whole frame has reached the page, or is on its way to it.
Based(c) ==
  \/ client[c].hasBaseline
  \/ \E i \in 1..Len(net[c]) : net[c][i].type = "full"
  \/ sending # Free /\ sending.packet.type = "full"

\* Nobody is there to see what the render thread draws: every page is away or
\* still opening, and a send under way was asked for by a page that has left.
Unseen ==
  /\ \A c \in Clients : status[c] # "open"
  /\ sending # Free => sending.by # Render /\ status[sending.by] = "away"

\* What the callbacks send is the stored picture, forced.
StoredIsWhole == sending # Free /\ sending.by # Render => sending.packet.type = "full"

\* The first picture to be encoded is the first to be stored.
StoredFromTheFirst == lastPicture = <<>> /\ present.phase \in {"idle", "send"} => encoded = <<>>

OpenIsBased ==
  ~overtaken =>
    \A c \in Clients : status[c] = "open" /\ lost[c] # "now" => encoded = <<>> \/ Based(c)

StoredIsNewest ==
  ~overtaken /\ present.phase = "idle" /\ lastPicture # <<>>
    /\ (sending # Free \/ \E c \in Clients : status[c] = "open")
    => prevCmds = lastPicture

DrawnIsNewest ==
  ~overtaken /\ present.phase \in {"sending", "remember"} => prevCmds = present.cmds \/ Unseen

Remembered == StoredIsWhole /\ StoredFromTheFirst /\ OpenIsBased /\ StoredIsNewest /\ DrawnIsNewest

\* What encode_frame leaves behind: prev_cmds is the picture it was given, sent
\* or not, and a forced picture leaves as a whole frame.
LEMMA EncodeRemembers ==
  ASSUME TypeOK, NEW by, NEW cmds \in Pictures, NEW force \in BOOLEAN, NEW base \in Nat,
         Encode(by, cmds, force, base)
  PROVE  /\ sending = Free /\ sentSeq' = sentSeq
         /\ prevCmds' = cmds
         /\ \/ sending' = Free /\ encoded' = encoded
            \/ sending' # Free /\ sending'.by = by
         /\ force => sending' # Free /\ sending'.packet.type = "full"
<1>1. PICK packet \in Encodings(cmds, force, base) :
        IF packet = Nothing
          THEN UNCHANGED <<sending, history, prevCmds, encoded>>
          ELSE sending' = [phase |-> "encoded", by |-> by, packet |-> packet] /\ Record(cmds)
  BY DEF Encode
<1>2. force => packet = FullFrame(sentSeq, cmds)
  BY DEF Encodings
<1>3. Nothing.type = "nothing" /\ FullFrame(sentSeq, cmds).type = "full"
  BY DEF Nothing, FullFrame
<1>4. CASE packet = Nothing
  <2>1. packet # FullFrame(sentSeq, cmds)
    BY <1>3, <1>4
  <2>2. ~force
    BY <1>2, <2>1
  <2>3. \A b, d, e, f : DeltaFrame(b, d, e, f).type = "delta"
    BY DEF DeltaFrame
  <2>4. prevCmds = cmds
    <3>1. \A b, d, e, f : packet # DeltaFrame(b, d, e, f)
      BY <1>3, <1>4, <2>3
    <3> QED
      BY <2>1, <3>1 DEF Encodings
  <2> QED
    BY <1>1, <1>4, <2>2, <2>4 DEF Encode
<1>5. CASE packet # Nothing
  <2>1. sending' = [phase |-> "encoded", by |-> by, packet |-> packet] /\ Record(cmds)
    BY <1>1, <1>5
  <2> QED
    BY <1>2, <1>3, <2>1 DEF Record, Encode, Free
<1> QED
  BY <1>4, <1>5

LEMMA StepRemembered ==
  TypeOK /\ InOrder /\ Faith /\ Gapless /\ Remembered /\ [Next]_vars => Remembered'
<1> SUFFICES ASSUME TypeOK, InOrder, Faith, Gapless, Remembered, [Next]_vars PROVE Remembered'
  OBVIOUS
<1> USE DEF encoderVars, requestVars, pathVars, linkVars, ghostVars
<1>a. <<>> \notin Pictures
  BY PicturesAssumption
<1>b. sending # Free => encoded # <<>>
  BY DEF Faith, HonestEncoder, TypeOK
\* A forced send of the stored picture, by a page's callback.
<1>0. ASSUME NEW by \in Clients, lastPicture # <<>>, Encode(by, lastPicture, TRUE, 0), NoteOvertaking,
             UNCHANGED <<lastPicture, present>>
      PROVE  Remembered'
  <2>1. /\ prevCmds' = lastPicture
        /\ sending' # Free /\ sending'.packet.type = "full"
    BY <1>0, EncodeRemembers DEF TypeOK
  <2>2. ~overtaken' => ~overtaken /\ present.phase = "idle"
    BY <1>0 DEF NoteOvertaking
  <2>3. StoredIsWhole' /\ StoredFromTheFirst'
    BY <1>0, <2>1 DEF StoredIsWhole, StoredFromTheFirst
  <2>4. OpenIsBased'
    BY <2>1 DEF OpenIsBased, Based
  <2>5. StoredIsNewest' /\ DrawnIsNewest'
    BY <1>0, <2>1, <2>2 DEF StoredIsNewest, DrawnIsNewest
  <2> QED
    BY <2>3, <2>4, <2>5 DEF Remembered
\* Steps that only concern requests and pages that are not open.
<1>1. ASSUME UNCHANGED <<encoded, prevCmds, lastPicture, present, overtaken>>,
             \/ UNCHANGED sending
             \/ sending # Free /\ sending' # Free /\ sending'.by = sending.by /\ sending'.packet = sending.packet,
             \A c \in Clients : status'[c] = "open" /\ lost'[c] # "now" =>
               status[c] = "open" /\ lost[c] # "now" /\ (Based(c) => Based(c)'),
             \A c \in Clients : status'[c] = "open" => status[c] = "open",
             sending # Free /\ sending.by # Render /\ status[sending.by] = "away"
               => status'[sending.by] = "away"
      PROVE  Remembered'
  <2>1. StoredIsWhole' /\ StoredFromTheFirst' /\ StoredIsNewest'
    BY <1>1 DEF Remembered, StoredIsWhole, StoredFromTheFirst, StoredIsNewest
  <2>2. OpenIsBased'
    BY <1>1 DEF Remembered, OpenIsBased
  <2>3. Unseen => Unseen'
    BY <1>1 DEF Unseen
  <2>4. DrawnIsNewest'
    BY <1>1, <2>3 DEF Remembered, DrawnIsNewest
  <2> QED
    BY <2>1, <2>2, <2>4 DEF Remembered
<1>2. CASE PresentStart
  <2>1. /\ present.phase = "idle" /\ present'.phase \in {"send", "remember"}
        /\ present'.phase = "remember" => \A c \in Clients : status[c] = "away"
        /\ UNCHANGED <<encoded, prevCmds, lastPicture, sending, status, net, client, lost, overtaken>>
    BY <1>2 DEF PresentStart
  <2>2. StoredIsWhole' /\ StoredFromTheFirst' /\ StoredIsNewest'
    BY <2>1 DEF Remembered, StoredIsWhole, StoredFromTheFirst, StoredIsNewest
  <2>3. OpenIsBased'
    BY <2>1 DEF Remembered, OpenIsBased, Based
  <2>4. present'.phase = "remember" => Unseen'
    <3>1. sending # Free => sending.by \in Clients
      BY <2>1 DEF InOrder, TypeOK, Sending
    <3> QED
      BY ClientsAssumption, <2>1, <3>1 DEF Unseen, Render
  <2>5. DrawnIsNewest'
    BY <2>1, <2>4 DEF DrawnIsNewest
  <2> QED
    BY <2>2, <2>3, <2>5 DEF Remembered
<1>3. CASE PresentEncode
  <2>1. /\ present.cmds \in Pictures
        /\ Encode(Render, present.cmds, needKeyframe, pendingBase)
        /\ needKeyframe \in BOOLEAN /\ pendingBase \in Nat
        /\ present.phase = "send" /\ present'.cmds = present.cmds
        /\ present'.phase \in {"sending", "remember"}
        /\ UNCHANGED <<lastPicture, net, client, status, lost, overtaken>>
    BY <1>3 DEF PresentEncode, InOrder, TypeOK, Presenting
  <2>2. /\ sending = Free /\ prevCmds' = present.cmds
        /\ \/ sending' = Free /\ encoded' = encoded
           \/ sending' # Free /\ sending'.by = Render
        /\ needKeyframe => sending' # Free /\ sending'.packet.type = "full"
    BY <2>1, EncodeRemembers
  <2>3. encoded = <<>> => needKeyframe
    BY DEF Faith, HonestEncoder
  <2>4. StoredIsWhole' /\ StoredFromTheFirst' /\ StoredIsNewest' /\ DrawnIsNewest'
    BY <2>1, <2>2 DEF StoredIsWhole, StoredFromTheFirst, StoredIsNewest, DrawnIsNewest
  <2>5. ASSUME ~overtaken', NEW c \in Clients, status'[c] = "open", lost'[c] # "now"
        PROVE  encoded' = <<>> \/ Based(c)'
    <3>1. CASE encoded = <<>>
      BY <2>2, <2>3, <3>1 DEF Based
    <3>2. CASE encoded # <<>>
      BY <2>1, <2>2, <2>5, <3>2 DEF Remembered, OpenIsBased, Based
    <3> QED
      BY <3>1, <3>2
  <2> QED
    BY <2>4, <2>5 DEF Remembered, OpenIsBased
<1>4. CASE PresentRemember
  <2>1. /\ present.phase = "remember" /\ sending = Free /\ present'.phase = "idle"
        /\ lastPicture' = present.cmds /\ present.cmds \in Pictures
        /\ UNCHANGED <<encoded, prevCmds, sending, status, net, client, lost, overtaken>>
    BY <1>4 DEF PresentRemember, InOrder, TypeOK, Presenting
  <2>2. StoredIsWhole' /\ StoredFromTheFirst' /\ DrawnIsNewest'
    BY <1>a, <2>1 DEF StoredIsWhole, StoredFromTheFirst, DrawnIsNewest
  <2>3. OpenIsBased'
    BY <2>1 DEF Remembered, OpenIsBased, Based
  <2>4. StoredIsNewest'
    BY <2>1 DEF Remembered, DrawnIsNewest, Unseen, StoredIsNewest
  <2> QED
    BY <2>2, <2>3, <2>4 DEF Remembered
<1>5. CASE ClearRequest
  <2>1. /\ sending # Free /\ sending' # Free /\ sending'.by = sending.by
        /\ sending'.packet = sending.packet
        /\ UNCHANGED <<encoded, prevCmds, lastPicture, present, status, net, client, lost, overtaken>>
    BY <1>5 DEF ClearRequest, Free, TypeOK, Sending
  <2>2. \A c \in Clients : Based(c) => Based(c)'
    BY <2>1 DEF Based
  <2> QED
    BY <1>1, <2>1, <2>2
<1>6. CASE Transmit
  <2>1. /\ sending # Free /\ sending' = Free
        /\ UNCHANGED <<encoded, prevCmds, lastPicture, client, lost, overtaken>>
        /\ \A c \in Clients : c \in ActiveDcs => net'[c] = Append(net[c], sending.packet)
    BY <1>6 DEF Transmit, Free
  <2>2. ASSUME NEW c \in Clients, status'[c] = "open"
        PROVE  /\ c \in ActiveDcs
               /\ status[c] = "open" \/ (sending.by = c /\ status[c] = "pushed" /\ sending.by # Render)
    BY ClientsAssumption, <1>6, <2>2 DEF Transmit, ActiveDcs, TypeOK, Render
  <2>5. ASSUME ~overtaken', NEW c \in Clients, status'[c] = "open", lost'[c] # "now"
        PROVE  Based(c)'
    <3>1. /\ net[c] \in Seq(Frame) /\ sending.packet \in Frame
          /\ net'[c] = Append(net[c], sending.packet)
      BY <2>1, <2>2, <2>5 DEF TypeOK, InOrder
    <3>2. /\ Len(net'[c]) = Len(net[c]) + 1 /\ Len(net[c]) \in Nat
          /\ net'[c][Len(net[c]) + 1] = sending.packet
          /\ \A i \in 1..Len(net[c]) : net'[c][i] = net[c][i]
      BY <3>1
    <3>3. CASE sending.packet.type = "full"
      BY <3>2, <3>3 DEF Based
    <3>4. CASE sending.packet.type # "full"
      <4>1. status[c] = "open"
        BY <2>1, <2>2, <2>5, <3>4 DEF Remembered, StoredIsWhole
      <4>2. Based(c)
        BY <1>b, <2>1, <2>5, <4>1 DEF Remembered, OpenIsBased
      <4> QED
        BY <2>1, <3>2, <3>4, <4>2 DEF Based
    <3> QED
      BY <3>3, <3>4
  <2>6. OpenIsBased'
    BY <2>5 DEF OpenIsBased
  <2>3. CASE sending.by = Render
    <3>1. present'.phase = "remember" /\ present.phase = "sending" /\ present'.cmds = present.cmds
      BY <1>6, <2>1, <2>3 DEF Transmit, InOrder, TypeOK, Presenting
    <3>2. StoredIsWhole' /\ StoredFromTheFirst' /\ StoredIsNewest'
      BY <2>1, <3>1 DEF StoredIsWhole, StoredFromTheFirst, StoredIsNewest
    <3>3. DrawnIsNewest'
      BY <2>1, <2>3, <3>1 DEF Remembered, DrawnIsNewest, Unseen
    <3> QED
      BY <2>6, <3>2, <3>3 DEF Remembered
  <2>4. CASE sending.by # Render
    <3>1. present' = present /\ sending.packet.type = "full"
      BY <1>6, <2>1, <2>4 DEF Transmit, Remembered, StoredIsWhole
    <3>2. StoredIsWhole' /\ StoredFromTheFirst'
      BY <2>1, <3>1 DEF Remembered, StoredIsWhole, StoredFromTheFirst
    <3>3. StoredIsNewest'
      BY <2>1, <3>1 DEF Remembered, StoredIsNewest
    <3>4. Unseen => Unseen'
      BY <2>1, <2>2 DEF Unseen
    <3>5. DrawnIsNewest'
      BY <2>1, <3>1, <3>4 DEF Remembered, DrawnIsNewest
    <3> QED
      BY <2>6, <3>2, <3>3, <3>5 DEF Remembered
  <2> QED
    BY <2>3, <2>4
<1>7. ASSUME NEW c \in Clients, Join(c) \/ OpenRequest(c) \/ OpenPush(c) PROVE Remembered'
  <2>1. /\ UNCHANGED <<encoded, prevCmds, lastPicture, present, sending, net, client, lost, overtaken>>
        /\ \A d \in Clients \ {c} : status'[d] = status[d]
        /\ status'[c] # "open" /\ (status[c] = "away" => sending.by # c)
    BY <1>7 DEF Join, OpenRequest, OpenPush, TypeOK
  <2>2. \A d \in Clients : Based(d) => Based(d)'
    BY <2>1 DEF Based
  <2>3. sending # Free /\ sending.by # Render /\ status[sending.by] = "away"
          => status'[sending.by] = "away"
    <3>1. sending.by # Render => sending.by \in Clients
      BY DEF TypeOK, Sending
    <3> QED
      BY <2>1, <3>1
  <2> QED
    BY <1>1, <2>1, <2>2, <2>3
<1>8. ASSUME NEW c \in Clients, OpenSendLast(c) PROVE Remembered'
  <2>1. CASE lastPicture = <<>>
    <3>1. /\ UNCHANGED <<encoded, prevCmds, lastPicture, present, sending, net, client, lost>>
          /\ sending = Free
          /\ ~overtaken' => ~overtaken /\ present.phase = "idle"
          /\ \A d \in Clients \ {c} : status'[d] = status[d]
      BY <1>8, <2>1 DEF OpenSendLast, NoteOvertaking, TypeOK
    <3>2. StoredIsWhole' /\ StoredFromTheFirst' /\ StoredIsNewest' /\ DrawnIsNewest'
      BY <2>1, <3>1 DEF Remembered, StoredIsWhole, StoredFromTheFirst, StoredIsNewest, DrawnIsNewest
    <3>3. ~overtaken' => encoded' = <<>>
      BY <2>1, <3>1 DEF Remembered, StoredFromTheFirst
    <3> QED
      BY <3>2, <3>3 DEF Remembered, OpenIsBased
  <2>2. CASE lastPicture # <<>>
    BY <1>0, <1>8, <2>2 DEF OpenSendLast
  <2> QED
    BY <2>1, <2>2
<1>9. ASSUME NEW c \in Clients, Leave(c) PROVE Remembered'
  <2>1. /\ UNCHANGED <<encoded, prevCmds, lastPicture, present, sending, overtaken>>
        /\ status'[c] = "away"
        /\ \A d \in Clients \ {c} : status'[d] = status[d] /\ client'[d] = client[d]
                                     /\ net'[d] = net[d] /\ lost'[d] = lost[d]
    BY <1>9 DEF Leave, TypeOK
  <2>2. \A d \in Clients \ {c} : Based(d) => Based(d)'
    BY <2>1 DEF Based
  <2>3. sending # Free /\ sending.by # Render /\ status[sending.by] = "away"
          => status'[sending.by] = "away"
    <3>1. sending.by # Render => sending.by \in Clients
      BY DEF TypeOK, Sending
    <3> QED
      BY <2>1, <3>1
  <2> QED
    BY <1>1, <2>1, <2>2, <2>3
<1>10. ASSUME NEW c \in Clients, HandleGapAck(c) \/ HandleKeyframe(c) \/ Ask(c) PROVE Remembered'
  <2>1. UNCHANGED <<encoded, prevCmds, lastPicture, present, sending, status, net, client, lost, overtaken>>
    BY <1>10 DEF HandleGapAck, HandleKeyframe, Ask
  <2>2. \A d \in Clients : Based(d) => Based(d)'
    BY <2>1 DEF Based
  <2> QED
    BY <1>1, <2>1, <2>2
<1>11. ASSUME NEW c \in Clients, HandleAssets(c) PROVE Remembered'
  <2>1. CASE UNCHANGED <<sending, encoderVars, overtaken>>
    <3>1. UNCHANGED <<encoded, prevCmds, lastPicture, present, sending, status, net, client, lost, overtaken>>
      BY <1>11, <2>1 DEF HandleAssets
    <3>2. \A d \in Clients : Based(d) => Based(d)'
      BY <3>1 DEF Based
    <3> QED
      BY <1>1, <3>1, <3>2
  <2>2. CASE lastPicture # <<>> /\ Encode(c, lastPicture, TRUE, 0) /\ NoteOvertaking
    BY <1>0, <1>11, <2>2 DEF HandleAssets
  <2> QED
    BY <1>11, <2>1, <2>2 DEF HandleAssets
<1>12. ASSUME NEW c \in Clients, Deliver(c) PROVE Remembered'
  <2> DEFINE f == Head(net[c])
  <2>1. /\ client' = [client EXCEPT ![c] = OnFrame(client[c], f)]
        /\ net' = [net EXCEPT ![c] = Tail(net[c])] /\ net[c] # <<>> /\ net[c] \in Seq(Frame)
        /\ UNCHANGED <<encoded, prevCmds, lastPicture, present, sending, status, lost, overtaken>>
    BY <1>12 DEF Deliver, TypeOK
  <2>2. /\ client[c] \in Sequencer /\ f \in Frame /\ f = net[c][1] /\ 1 \in 1..Len(net[c])
        /\ client'[c] = OnFrame(client[c], f)
    BY <2>1 DEF TypeOK
  <2>3. client[c].hasBaseline \/ f.type = "full" => client'[c].hasBaseline
    <3>1. CASE f.type = "full"
      BY <2>2, <3>1 DEF OnFrame, OnFull, NewClient
    <3>2. CASE f.type # "full" /\ client[c].hasBaseline
      BY <2>2, <3>2 DEF OnFrame, OnApplicable, OnGap, Cold, Sequencer
    <3> QED
      BY <3>1, <3>2
  <2>4. ASSUME NEW i \in 1..Len(net[c]), net[c][i].type = "full"
        PROVE  f.type = "full" \/ \E j \in 1..Len(net'[c]) : net'[c][j].type = "full"
    <3>1. net'[c] = Tail(net[c])
      BY <2>1 DEF TypeOK
    <3>2. CASE i = 1
      BY <2>2, <2>4, <3>2
    <3>3. CASE i # 1
      <4>1. /\ Len(Tail(net[c])) = Len(net[c]) - 1
            /\ \A j \in 1..Len(net[c]) - 1 : Tail(net[c])[j] = net[c][j + 1]
        BY <2>1
      <4>2. i - 1 \in 1..Len(net[c]) - 1 /\ (i - 1) + 1 = i
        BY <2>1, <3>3
      <4>3. i - 1 \in 1..Len(net'[c]) /\ net'[c][i - 1] = net[c][i]
        BY <3>1, <4>1, <4>2
      <4> QED
        BY <2>4, <4>3
    <3> QED
      BY <3>2, <3>3
  <2>5. Based(c) => Based(c)'
    BY <2>1, <2>3, <2>4 DEF Based
  <2>6. \A d \in Clients \ {c} : Based(d) => Based(d)'
    BY <2>1 DEF Based, TypeOK
  <2> QED
    BY <1>1, <2>1, <2>5, <2>6
<1>13. ASSUME NEW c \in Clients, Lose(c) PROVE Remembered'
  <2>1. /\ UNCHANGED <<encoded, prevCmds, lastPicture, present, sending, status, client, overtaken>>
        /\ lost'[c] = "now"
        /\ \A d \in Clients \ {c} : net'[d] = net[d] /\ lost'[d] = lost[d]
    BY <1>13 DEF Lose, TypeOK
  <2>2. \A d \in Clients \ {c} : Based(d) => Based(d)'
    BY <2>1 DEF Based
  <2> QED
    BY <1>1, <2>1, <2>2
<1>14. CASE UNCHANGED vars
  <2>1. \A d \in Clients : Based(d) => Based(d)'
    BY <1>14 DEF Based, vars
  <2> QED
    BY <1>1, <1>14, <2>1 DEF vars
<1> QED
  BY <1>2, <1>3, <1>4, <1>5, <1>6, <1>7, <1>8, <1>9, <1>10, <1>11, <1>12, <1>13, <1>14
     DEF Next, OutOfFrames

\* Once nothing is under way, a page that finished connecting and lost nothing
\* shows the picture last drawn, although the game may never draw again: it was
\* handed a whole frame, it followed every number since, and what is stored is
\* what was encoded last.
THEOREM StillScreenAlwaysShown == Spec => []StillScreenShown
<1>1. Init => Remembered
  BY DEF Init, Remembered, StoredIsWhole, StoredFromTheFirst, OpenIsBased, StoredIsNewest,
         DrawnIsNewest, Free
<1>2. TypeOK /\ Faith /\ Gapless /\ Remembered => StillScreenShown
  <2> SUFFICES ASSUME TypeOK, Faith, Gapless, Remembered, Quiet, ~overtaken,
                      NEW c \in Clients, status[c] = "open", lost[c] # "now", ~strayed[c],
                      lastPicture # <<>>
               PROVE  client[c].hasBaseline /\ client[c].scene = lastPicture
    BY DEF StillScreenShown, ShowsLastPicture
  <2>1. prevCmds = lastPicture
    BY DEF Remembered, StoredIsNewest, Quiet
  <2>2. encoded # <<>> /\ sentSeq = Len(encoded) /\ prevCmds = encoded[Len(encoded)]
    BY <2>1 DEF Faith, HonestEncoder, Quiet
  <2>3. client[c].hasBaseline
    <3>1. Based(c) /\ Len(net[c]) = 0
      BY <2>2 DEF Remembered, OpenIsBased, Quiet
    <3> QED
      BY <3>1 DEF Based, Quiet
  <2>4. client[c].lastSeq + 1 = sentSeq
    BY <2>3 DEF Gapless, Consecutive, Quiet, TypeOK, Sequencer
  <2> QED
    BY <2>1, <2>2, <2>3, <2>4 DEF Faith, SceneIsTheFrame
<1> QED
  BY <1>1, <1>2, StepRemembered, FaithInvariant, GaplessInvariant, PTL DEF Spec

-----------------------------------------------------------------------------
(* Bridges                                                                 *)

\* A requested bridge is never suppressed: the present that takes up a request
\* for a bridge from frame n sends a bridge from n, or a whole frame.
THEOREM BridgesAreAnswered == Spec => BridgeAnswered
<1>1. TypeOK /\ PresentEncode /\ pendingBase > 0 => Answers(sending'.packet, pendingBase)
  <2> SUFFICES ASSUME TypeOK, PresentEncode, pendingBase > 0
               PROVE  Answers(sending'.packet, pendingBase)
    OBVIOUS
  <2>1. PICK packet \in Encodings(present.cmds, needKeyframe, pendingBase) :
          packet # Nothing => sending'.packet = packet
    BY DEF PresentEncode, Encode
  <2>2. \/ packet = FullFrame(sentSeq, present.cmds)
        \/ packet = DeltaFrame(sentSeq, pendingBase, history[Slot(pendingBase)].cmds, present.cmds)
    BY DEF Encodings, TypeOK
  <2>3. Answers(packet, pendingBase) /\ packet # Nothing
    BY <2>2 DEF Answers, FullFrame, DeltaFrame, Nothing
  <2> QED
    BY <2>1, <2>3
<1> QED
  BY <1>1, TypeCorrect, PTL DEF BridgeAnswered

=============================================================================
