----------------------------- MODULE FrameStream -----------------------------
(***************************************************************************)
(* The frame stream of the smart path: the interposer's delta encoder and  *)
(* send paths (interposer/df_streamer.cpp), the ordered, unretransmitted   *)
(* "df-stream" data channel, the reliable "df-input" channel that carries  *)
(* recovery requests back, and the browser's FrameSequencer                *)
(* (client/src/core/frameSequencer.js) patching the renderer's commands.   *)
(*                                                                         *)
(* Three kinds of host thread run here: the render thread in               *)
(* SDL_RenderPresent, the data-channel callbacks of each client (onOpen,   *)
(* onMessage), and whoever holds g_send_lock inside service_picture_send.  *)
(* The atomics g_need_keyframe and g_pending_combined_base are read and    *)
(* written without that lock, so a send is three steps: encode, the store  *)
(* that clears the keyframe request, and the transmission.                 *)
(***************************************************************************)
EXTENDS Integers, Sequences, FiniteSets

CONSTANTS
  Clients,              \* browsers that may be watching
  Commands,             \* draw commands, told apart only by equality
  Pictures,             \* the command lists the game may draw
  HistorySize,          \* frames the encoder remembers (60 in the source)
  GapRetryFrames,       \* held frames between two bridge requests (4)
  KeyframeRetryFrames,  \* dropped deltas between two keyframe requests (15)
  MaxPending,           \* frames the sequencer holds at most (30)
  MaxFrames,            \* bound of the model: frames the host ever sends
  MaxUplink             \* bound of the model: requests of a client in flight

ASSUME ClientsAssumption == "render" \notin Clients
ASSUME PicturesAssumption ==
  /\ Pictures \subseteq Seq(Commands) \ {<<>>}
  /\ "keep" \notin Commands
ASSUME SizesAssumption ==
  /\ HistorySize \in Nat \ {0}
  /\ GapRetryFrames \in Nat \ {0}
  /\ KeyframeRetryFrames \in Nat \ {0}
  /\ MaxPending \in Nat

VARIABLES
  sentSeq,       \* g_sent_seq: the number the next packet will carry
  history,       \* DeltaEncoder::history, a ring indexed by seq % HistorySize
  prevCmds,      \* DeltaEncoder::prev_cmds
  needKeyframe,  \* g_need_keyframe
  pendingBase,   \* g_pending_combined_base, 0 when no bridge was asked for
  lastPicture,   \* g_last_picture, <<>> while g_last_picture_valid is false
  present,       \* where the render thread is in SDL_RenderPresent
  sending,       \* the service_picture_send in progress under g_send_lock
  status,        \* each client's connection, as the host's callbacks see it
  net,           \* df-stream: packets on their way to each client
  up,            \* df-input: requests on their way to the host
  client,        \* each client's FrameSequencer and the renderer's commands
  encoded,       \* history variable: encoded[n + 1] is the picture of frame n
  lost,          \* history variable: when this browser last lost a packet
  strayed,       \* history variable: see Strays
  overtaken      \* history variable: see NoteOvertaking

encoderVars == <<sentSeq, history, prevCmds, encoded>>
requestVars == <<needKeyframe, pendingBase>>
pathVars == <<lastPicture, present, sending>>
linkVars == <<status, net, up, client>>
ghostVars == <<lost, strayed, overtaken>>
vars == <<sentSeq, history, prevCmds, needKeyframe, pendingBase, lastPicture, present,
          sending, status, net, up, client, encoded, lost, strayed, overtaken>>

Render == "render"  \* the render thread, as an owner of g_send_lock
Torn == <<"torn">>  \* a scene the host never encoded, in ScreenMirror
Keep == "keep"      \* an entry a delta leaves alone
Hole == "hole"      \* an entry of the command array nobody ever assigned

-----------------------------------------------------------------------------
(* Packets, as protocol.js decodes them: a delta without the combined flag *)
(* is described against the frame just before it.                          *)

Nothing == [type |-> "nothing"]  \* an empty out_packet

FullFrame(seq, cmds) == [type |-> "full", seq |-> seq, cmds |-> cmds]

\* Mutant: the entries the base never had are not emitted.
UpdatesWithinBase(from, cmds) ==
  [i \in 1..Len(cmds) |->
     IF i <= Len(from) /\ from[i] # cmds[i] THEN cmds[i] ELSE Keep]

\* One entry per command of the new picture: the command where it differs from
\* "from" or "from" never had one, Keep elsewhere. Without a base there is
\* nothing to compare, and every entry is Keep.
Updates(from, cmds) ==
  [i \in 1..Len(cmds) |->
     IF from # <<>> /\ (i > Len(from) \/ from[i] # cmds[i]) THEN cmds[i] ELSE Keep]

\* Mutant: the base is named one frame too early.
DeltaFrameEarlyBase(seq, base, from, cmds) ==
  [type |-> "delta", seq |-> seq, base |-> base - 1, updates |-> Updates(from, cmds)]

DeltaFrame(seq, base, from, cmds) ==
  [type |-> "delta", seq |-> seq, base |-> base, updates |-> Updates(from, cmds)]

\* Mutant: the command array never shrinks.
PatchGrowsOnly(scene, f) ==
  [i \in 1..IF Len(scene) > Len(f.updates) THEN Len(scene) ELSE Len(f.updates) |->
     IF i <= Len(f.updates) /\ f.updates[i] # Keep THEN f.updates[i]
     ELSE IF i <= Len(scene) THEN scene[i] ELSE Hole]

\* renderer.applyDelta: resize the command array, then overwrite entries.
Patch(scene, f) ==
  [i \in 1..Len(f.updates) |->
     IF f.updates[i] # Keep THEN f.updates[i]
     ELSE IF i <= Len(scene) THEN scene[i] ELSE Hole]

-----------------------------------------------------------------------------
(* DeltaEncoder                                                            *)

Slot(seq) == seq % HistorySize

\* The ring still holds the frame a bridge was asked for.
BaseHeld(base) == history[Slot(base)].seq = base /\ history[Slot(base)].cmds # <<>>

\* Mutant: a bridge that changes nothing is suppressed like a plain delta.
EncodingsSuppressingBridges(cmds, force, base) ==
  LET bridged == ~force /\ base > 0 /\ BaseHeld(base)
      forced  == force \/ (base > 0 /\ ~BaseHeld(base))
      from    == IF bridged THEN history[Slot(base)].cmds ELSE prevCmds
      full    == FullFrame(sentSeq, cmds)
      delta   == DeltaFrame(sentSeq, IF bridged THEN base ELSE sentSeq - 1, from, cmds)
  IN  IF forced THEN {full}
      ELSE IF from = cmds THEN {Nothing, full}
      ELSE {full, delta}

\* What encode_frame may leave in out_packet: one frame, or nothing at all.
\* Which of the two candidates is smaller, and whether the sampled pixels
\* moved under unchanged commands, depend on data the model leaves out.
Encodings(cmds, force, base) ==
  LET bridged == ~force /\ base > 0 /\ BaseHeld(base)
      forced  == force \/ (base > 0 /\ ~BaseHeld(base))
      from    == IF bridged THEN history[Slot(base)].cmds ELSE prevCmds
      full    == FullFrame(sentSeq, cmds)
      delta   == DeltaFrame(sentSeq, IF bridged THEN base ELSE sentSeq - 1, from, cmds)
  IN  IF forced THEN {full}
      ELSE IF ~bridged /\ from = cmds THEN {Nothing, full}
      ELSE {full, delta}

\* DeltaEncoder::record
Record(cmds) ==
  /\ history' = [history EXCEPT ![Slot(sentSeq)] = [seq |-> sentSeq, cmds |-> cmds]]
  /\ prevCmds' = cmds
  /\ encoded' = Append(encoded, cmds)

-----------------------------------------------------------------------------
(* service_picture_send, under g_send_lock                                 *)

Free == [phase |-> "free", by |-> Render, packet |-> Nothing]

\* Mutant: a silent present consumes a number.
EncodeCountingSilence(by, cmds, force, base) ==
  /\ sending = Free
  /\ Len(encoded) < MaxFrames
  /\ \E packet \in Encodings(cmds, force, base) :
       IF packet = Nothing
         THEN sentSeq' = sentSeq + 1 /\ UNCHANGED <<sending, history, prevCmds, encoded>>
         ELSE /\ sending' = [phase |-> "encoded", by |-> by, packet |-> packet]
              /\ Record(cmds)
              /\ UNCHANGED sentSeq

\* The first half: encode for whoever holds the lock. A picture that needs no
\* packet releases the lock at once and consumes no sequence number.
Encode(by, cmds, force, base) ==
  /\ sending = Free
  /\ Len(encoded) < MaxFrames
  /\ \E packet \in Encodings(cmds, force, base) :
       IF packet = Nothing
         THEN UNCHANGED <<sending, history, prevCmds, encoded>>
         ELSE /\ sending' = [phase |-> "encoded", by |-> by, packet |-> packet]
              /\ Record(cmds)
  /\ UNCHANGED sentSeq

\* if (enc == EncodeResult::Full) g_need_keyframe.store(false): whatever asked
\* for a keyframe since the flag was loaded is answered by this packet too.
ClearRequest ==
  /\ sending.phase = "encoded"
  /\ needKeyframe' = IF sending.packet.type = "full" THEN FALSE ELSE needKeyframe
  /\ sending' = [sending EXCEPT !.phase = "cleared"]
  /\ UNCHANGED <<encoderVars, pendingBase, lastPicture, present, linkVars, ghostVars>>

\* g_active_dcs
ActiveDcs == {c \in Clients : status[c] \in {"pushed", "open"}}

\* The packet goes to every open channel, the number is consumed, the lock is
\* released, and the caller carries on.
Transmit ==
  /\ sending.phase = "cleared"
  /\ net' = [c \in Clients |-> IF c \in ActiveDcs THEN Append(net[c], sending.packet)
                                                 ELSE net[c]]
  /\ sentSeq' = sentSeq + 1
  /\ sending' = Free
  /\ IF sending.by = Render
       THEN present' = [present EXCEPT !.phase = "remember"] /\ UNCHANGED status
       ELSE /\ status' = [status EXCEPT ![sending.by] = IF @ = "pushed" THEN "open" ELSE @]
            /\ UNCHANGED present
  /\ UNCHANGED <<history, prevCmds, encoded, requestVars, lastPicture, up, client, ghostVars>>

-----------------------------------------------------------------------------
(* SDL_RenderPresent                                                       *)

\* The game presents a picture. active_ws_clients() or g_active_dcs decides
\* whether anyone is there to send it to.
PresentStart ==
  /\ present.phase = "idle"
  /\ \E cmds \in Pictures :
       present' = [phase |-> IF \E c \in Clients : status[c] # "away" THEN "send" ELSE "remember",
                   cmds |-> cmds]
  /\ UNCHANGED <<encoderVars, requestVars, lastPicture, sending, linkVars, ghostVars>>

PresentEncode ==
  /\ present.phase = "send"
  /\ Encode(Render, present.cmds, needKeyframe, pendingBase)
  /\ pendingBase' = 0
  /\ present' = [present EXCEPT !.phase = IF sending' = Free THEN "remember" ELSE "sending"]
  /\ UNCHANGED <<needKeyframe, lastPicture, linkVars, lost, strayed, overtaken>>

\* "Remember what was just drawn": a critical section of its own.
PresentRemember ==
  /\ present.phase = "remember"
  /\ sending = Free
  /\ lastPicture' = present.cmds
  /\ present' = [present EXCEPT !.phase = "idle"]
  /\ UNCHANGED <<encoderVars, requestVars, sending, linkVars, ghostVars>>

-----------------------------------------------------------------------------
(* Connections: the WebSocket, then df-stream's onOpen on a callback thread *)

\* The browser's WebSocket is open and the offer is on its way. A client does
\* not come back while a send it asked for is still under way.
Join(c) ==
  /\ status[c] = "away"
  /\ sending.by # c
  /\ status' = [status EXCEPT ![c] = "signalling"]
  /\ UNCHANGED <<encoderVars, requestVars, pathVars, net, up, client, ghostVars>>

OpenRequest(c) ==
  /\ status[c] = "signalling"
  /\ status' = [status EXCEPT ![c] = "opening"]
  /\ needKeyframe' = TRUE
  /\ UNCHANGED <<encoderVars, pendingBase, pathVars, net, up, client, ghostVars>>

OpenPush(c) ==
  /\ status[c] = "opening"
  /\ status' = [status EXCEPT ![c] = "pushed"]
  /\ UNCHANGED <<encoderVars, requestVars, pathVars, net, up, client, ghostVars>>

\* Ghost: a stored picture was handed out while the render thread was between
\* reading who is there and remembering what it drew.
NoteOvertaking == overtaken' = (overtaken \/ present.phase # "idle")

\* Mutant: the stored picture is not forced, and is silent when unchanged.
OpenSendLastUnforced(c) ==
  /\ status[c] = "pushed"
  /\ sending = Free
  /\ NoteOvertaking
  /\ IF lastPicture = <<>>
       THEN /\ status' = [status EXCEPT ![c] = "open"]
            /\ UNCHANGED <<sending, encoderVars>>
       ELSE /\ Encode(c, lastPicture, FALSE, 0)
            /\ status' = [status EXCEPT ![c] = IF sending' = Free THEN "open" ELSE @]
  /\ UNCHANGED <<requestVars, lastPicture, present, net, up, client, lost, strayed>>

\* The end of onOpen: the stored picture, forced, if there is one.
OpenSendLast(c) ==
  /\ status[c] = "pushed"
  /\ sending = Free
  /\ NoteOvertaking
  /\ IF lastPicture = <<>>
       THEN /\ status' = [status EXCEPT ![c] = "open"]
            /\ UNCHANGED <<sending, encoderVars>>
       ELSE /\ Encode(c, lastPicture, TRUE, 0)
            /\ UNCHANGED status
  /\ UNCHANGED <<requestVars, lastPicture, present, net, up, client, lost, strayed>>

-----------------------------------------------------------------------------
(* handle_client_input_event: recovery requests, in the order they arrive  *)

Handled(c) == up' = [up EXCEPT ![c] = Tail(@)]

HandleGapAck(c) ==
  /\ up[c] # <<>> /\ Head(up[c]).op = "gapAck"
  /\ Handled(c)
  /\ pendingBase' = Head(up[c]).base
  /\ UNCHANGED <<encoderVars, needKeyframe, pathVars, status, net, client, lost, strayed,
                 overtaken>>

\* KEYFRAME_REQUEST, and RESIZE, which asks for one too.
HandleKeyframe(c) ==
  /\ up[c] # <<>> /\ Head(up[c]).op = "keyframe"
  /\ Handled(c)
  /\ needKeyframe' = TRUE
  /\ UNCHANGED <<encoderVars, pendingBase, pathVars, status, net, client, ghostVars>>

\* ASSET_BRIDGE_REQ: when any of the named pictures is held here it is queued
\* (elsewhere), and the stored picture is sent again, forced.
HandleAssets(c) ==
  /\ up[c] # <<>> /\ Head(up[c]).op = "assets"
  /\ Handled(c)
  /\ \/ UNCHANGED <<sending, encoderVars, overtaken>>
     \/ /\ lastPicture # <<>>
        /\ Encode(c, lastPicture, TRUE, 0)
        /\ NoteOvertaking
  /\ UNCHANGED <<requestVars, lastPicture, present, status, net, client, lost, strayed>>

-----------------------------------------------------------------------------
(* FrameSequencer                                                          *)

NewClient ==
  [hasBaseline |-> FALSE, lastSeq |-> 0, awaitingBridge |-> FALSE, awaitingKeyframe |-> FALSE,
   gapFrames |-> 0, keyframeFrames |-> 0, pending |-> {}, scene |-> <<>>]

OnFull(f) == [NewClient EXCEPT !.hasBaseline = TRUE, !.lastSeq = f.seq, !.scene = f.cmds]

\* A delta with nothing to patch: ask for a whole frame, at a slow cadence.
AsksKeyframe(s) == ~s.awaitingKeyframe \/ s.keyframeFrames + 1 >= KeyframeRetryFrames

OnColdDelta(s) ==
  IF AsksKeyframe(s) THEN [s EXCEPT !.awaitingKeyframe = TRUE, !.keyframeFrames = 0]
                     ELSE [s EXCEPT !.keyframeFrames = @ + 1]

\* Either branch that applies a delta at once.
Applicable(s, f) ==
  \/ f.base <= s.lastSeq
  \/ f.seq = s.lastSeq + 1 /\ ~s.awaitingBridge /\ ~s.awaitingKeyframe

\* The scene after the held frames first+1 .. n were patched onto "scene".
Replayed(scene, held, first, n) ==
  LET after[k \in first..n] ==
        IF k = first THEN scene ELSE Patch(after[k - 1], CHOOSE p \in held : p.seq = k)
  IN  after[n]

\* applyAt: patch, forget what the frame supersedes, replay what now follows
\* on without a hole.
OnApplicable(s, f) ==
  LET newer == {p \in s.pending : p.seq > f.seq}
      run   == {p \in newer : \A n \in f.seq + 1..p.seq : \E q \in newer : q.seq = n}
      last  == f.seq + Cardinality(run)
      shown == Patch(s.scene, f)
  IN  [s EXCEPT !.lastSeq = last,
                !.awaitingBridge = FALSE, !.awaitingKeyframe = FALSE, !.gapFrames = 0,
                !.pending = newer \ run,
                !.scene = IF run = {} THEN shown ELSE Replayed(shown, run, f.seq, last)]

\* A frame after a hole is held, the oldest held frame giving way to it.
AsksBridge(s) == ~s.awaitingBridge \/ s.gapFrames + 1 >= GapRetryFrames

OnGap(s, f) ==
  LET held   == {p \in s.pending : p.seq # f.seq} \cup {f}
      oldest == {p \in held : Cardinality(held) > MaxPending /\ \A q \in held : p.seq <= q.seq}
  IN  [s EXCEPT !.pending = held \ oldest,
                !.awaitingBridge = TRUE,
                !.gapFrames = IF AsksBridge(s) THEN 0 ELSE @ + 1]

\* What arrives, given what is already there.
Patches(s, f) ==
  f.type = "delta" /\ s.hasBaseline /\ f.seq > s.lastSeq /\ Applicable(s, f)
Gaps(s, f) ==
  f.type = "delta" /\ s.hasBaseline /\ f.seq > s.lastSeq /\ ~Applicable(s, f)
Cold(s, f) == f.type = "delta" /\ ~s.hasBaseline

OnFrame(s, f) ==
  IF f.type = "full" THEN OnFull(f)
  ELSE IF Cold(s, f) THEN OnColdDelta(s)
  ELSE IF Patches(s, f) THEN OnApplicable(s, f)
  ELSE IF Gaps(s, f) THEN OnGap(s, f)
  ELSE s  \* an old frame

Requests(s, f) ==
  IF Cold(s, f) /\ AsksKeyframe(s) THEN <<[op |-> "keyframe", base |-> 0]>>
  ELSE IF Gaps(s, f) /\ AsksBridge(s) THEN <<[op |-> "gapAck", base |-> s.lastSeq]>>
  ELSE <<>>

\* A patch is meant for the scene of its base frame; this one is applied to a
\* scene that has moved on.
Strays(s, f) == Patches(s, f) /\ f.base < s.lastSeq

\* dc.onmessage. A client is not modelled past MaxUplink unanswered requests.
Deliver(c) ==
  /\ net[c] # <<>>
  /\ LET s == client[c]
         f == Head(net[c])
     IN  /\ Len(up[c]) + Len(Requests(s, f)) <= MaxUplink
         /\ client' = [client EXCEPT ![c] = OnFrame(s, f)]
         /\ up' = [up EXCEPT ![c] = @ \o Requests(s, f)]
         /\ strayed' = [strayed EXCEPT ![c] = f.type # "full" /\ (@ \/ Strays(s, f))]
  /\ net' = [net EXCEPT ![c] = Tail(@)]
  /\ UNCHANGED <<encoderVars, requestVars, pathVars, status, lost, overtaken>>

\* Mutant: df-stream without "ordered": a packet may fall behind the others.
LoseReordering(c) ==
  /\ net[c] # <<>>
  /\ net' = [net EXCEPT ![c] = Append(Tail(@), Head(@))]
  /\ lost' = [lost EXCEPT ![c] = "now"]
  /\ UNCHANGED <<encoderVars, requestVars, pathVars, status, up, client, strayed, overtaken>>

\* df-stream is ordered and never retransmits: a packet may vanish, none
\* overtakes another.
Lose(c) ==
  /\ net[c] # <<>>
  /\ net' = [net EXCEPT ![c] = Tail(@)]
  /\ lost' = [lost EXCEPT ![c] = "now"]
  /\ UNCHANGED <<encoderVars, requestVars, pathVars, status, up, client, strayed, overtaken>>

\* The page tells the host its window's size as soon as its end of df-stream is
\* open, and later asks for artwork it lacks.
Ask(c) ==
  /\ status[c] \notin {"away", "signalling"}
  /\ Len(up[c]) < MaxUplink
  /\ \/ /\ status[c] = "open" /\ client[c].hasBaseline
        /\ up' = [up EXCEPT ![c] = Append(@, [op |-> "assets", base |-> 0])]
     \/ up' = [up EXCEPT ![c] = Append(@, [op |-> "keyframe", base |-> 0])]
  /\ UNCHANGED <<encoderVars, requestVars, pathVars, status, net, client, ghostVars>>

\* The page goes away: both channels die with it, and the next page starts
\* with a FrameSequencer of its own.
Leave(c) ==
  /\ status[c] \in {"signalling", "open"}
  /\ status' = [status EXCEPT ![c] = "away"]
  /\ net' = [net EXCEPT ![c] = <<>>]
  /\ up' = [up EXCEPT ![c] = <<>>]
  /\ client' = [client EXCEPT ![c] = NewClient]
  /\ lost' = [lost EXCEPT ![c] = IF @ = "now" THEN "earlier" ELSE @]
  /\ strayed' = [strayed EXCEPT ![c] = FALSE]
  /\ UNCHANGED <<encoderVars, requestVars, pathVars, overtaken>>

-----------------------------------------------------------------------------
Init ==
  /\ sentSeq = 0
  /\ history = [k \in 0..HistorySize - 1 |-> [seq |-> 0, cmds |-> <<>>]]
  /\ prevCmds = <<>>
  /\ needKeyframe = TRUE
  /\ pendingBase = 0
  /\ lastPicture = <<>>
  /\ present = [phase |-> "idle", cmds |-> <<>>]
  /\ sending = Free
  /\ status = [c \in Clients |-> "away"]
  /\ net = [c \in Clients |-> <<>>]
  /\ up = [c \in Clients |-> <<>>]
  /\ client = [c \in Clients |-> NewClient]
  /\ encoded = <<>>
  /\ lost = [c \in Clients |-> "never"]
  /\ strayed = [c \in Clients |-> FALSE]
  /\ overtaken = FALSE

\* The bound of the model, not a state of the program: the host has sent all
\* the frames it is given here.
OutOfFrames == Len(encoded) = MaxFrames /\ UNCHANGED vars

Next ==
  \/ PresentStart \/ PresentEncode \/ PresentRemember
  \/ ClearRequest \/ Transmit
  \/ \E c \in Clients :
       \/ Join(c) \/ OpenRequest(c) \/ OpenPush(c) \/ OpenSendLast(c) \/ Leave(c)
       \/ HandleGapAck(c) \/ HandleKeyframe(c) \/ HandleAssets(c)
       \/ Deliver(c) \/ Lose(c) \/ Ask(c)
  \/ OutOfFrames

Spec == Init /\ [][Next]_vars

-----------------------------------------------------------------------------
(* Types                                                                   *)

Frame ==
  [type : {"full"}, seq : Nat, cmds : Pictures]
    \cup [type : {"delta"}, seq : Nat, base : Int, updates : Seq(Commands \cup {Keep})]

Sequencer ==
  [hasBaseline : BOOLEAN, lastSeq : Nat, awaitingBridge : BOOLEAN, awaitingKeyframe : BOOLEAN,
   gapFrames : Nat, keyframeFrames : Nat, pending : SUBSET Frame,
   scene : Seq(Commands \cup {Hole})]

Request == [op : {"gapAck", "keyframe", "assets"}, base : Nat]

Ring == [0..HistorySize - 1 -> [seq : Nat, cmds : Pictures \cup {<<>>}]]

Presenting ==
  [phase : {"idle", "send", "sending", "remember"}, cmds : Pictures \cup {<<>>}]

Sending ==
  [phase : {"free", "encoded", "cleared"}, by : Clients \cup {Render},
   packet : Frame \cup {Nothing}]

TypeOK ==
  /\ sentSeq \in Nat
  /\ history \in Ring
  /\ prevCmds \in Pictures \cup {<<>>}
  /\ needKeyframe \in BOOLEAN
  /\ pendingBase \in Nat
  /\ lastPicture \in Pictures \cup {<<>>}
  /\ present \in Presenting
  /\ sending \in Sending
  /\ status \in [Clients -> {"away", "signalling", "opening", "pushed", "open"}]
  /\ net \in [Clients -> Seq(Frame)]
  /\ up \in [Clients -> Seq(Request)]
  /\ client \in [Clients -> Sequencer]
  /\ encoded \in Seq(Pictures)
  /\ lost \in [Clients -> {"never", "earlier", "now"}]
  /\ strayed \in [Clients -> BOOLEAN]
  /\ overtaken \in BOOLEAN

-----------------------------------------------------------------------------
(* Safety                                                                  *)

\* Every frame the ring still holds under its number is the picture that was
\* sent under that number, and prev_cmds is the last picture encoded: what a
\* bridge or a plain delta is diffed against is what the client is assumed to
\* hold. One number is in use but not yet consumed exactly while a packet is
\* between encode_frame and g_sent_seq++.
EncoderCoherent ==
  /\ Len(encoded) = IF sending = Free THEN sentSeq ELSE sentSeq + 1
  /\ prevCmds = IF encoded = <<>> THEN <<>> ELSE encoded[Len(encoded)]
  /\ \A n \in 1..Len(encoded) :
       n > Len(encoded) - HistorySize => history[Slot(n - 1)] = [seq |-> n - 1, cmds |-> encoded[n]]

\* Frames are applied in order, patches included: a page that holds a baseline
\* shows exactly the picture the host encoded under the number it believes it
\* is at, unless a bridge was patched onto a scene other than its base.
SceneIsTheFrame ==
  \A c \in Clients :
    client[c].hasBaseline /\ ~strayed[c] =>
      /\ client[c].lastSeq < sentSeq
      /\ client[c].scene = encoded[client[c].lastSeq + 1]

\* "Sequence numbers are consumed only by frames that were actually sent, so a
\* silent present leaves no hole for the client to treat as packet loss"
\* (df_streamer.cpp, service_picture_send): nothing but a lost packet ever
\* makes a page hold frames or ask for a bridge.
OnlyLossMakesGaps ==
  \A c \in Clients :
    lost[c] # "now" => ~client[c].awaitingBridge /\ client[c].pending = {}

\* A recovery answer meant for one page strays onto another only if some page,
\* perhaps one that has left, ever lost a packet. (A page need not have lost one
\* itself: it may inherit the request of the page before it.)
OnlyLossMakesStrays ==
  (\A c \in Clients : lost[c] = "never") => (\A c \in Clients : ~strayed[c])

\* The still screen: once nothing is under way and nothing was lost, every
\* page that finished connecting shows the picture last drawn, although the
\* game may never draw again. The window named by "overtaken" is excepted.
Quiet ==
  /\ present.phase = "idle" /\ sending = Free
  /\ \A c \in Clients : net[c] = <<>> /\ up[c] = <<>>

ShowsLastPicture(c) ==
  lastPicture # <<>> => client[c].hasBaseline /\ client[c].scene = lastPicture

StillScreenShown ==
  Quiet /\ ~overtaken =>
    \A c \in Clients : status[c] = "open" /\ lost[c] # "now" /\ ~strayed[c] => ShowsLastPicture(c)

\* What a page holds back is older than anything it will still receive, so the
\* replay loop of applyAt is never needed while df-stream is ordered.
HeldAreStale ==
  \A c \in Clients : net[c] # <<>> =>
    \A p \in client[c].pending : p.seq < Head(net[c]).seq

\* "A requested bridge is never suppressed - that packet is what advances a
\* client that is parked on an older sequence" (df_streamer.cpp, DeltaEncoder):
\* the present that takes up a request for a bridge from frame n sends a bridge
\* from n, or a whole frame. Stated here for the requests the encoder reads as
\* such.
Answers(packet, base) ==
  packet.type = "full" \/ (packet.type = "delta" /\ packet.base = base)

BridgeAnswered ==
  [][PresentEncode /\ pendingBase > 0 => Answers(sending'.packet, pendingBase)]_vars

-----------------------------------------------------------------------------
(* What a viewer is promised: see ScreenMirror.                            *)

\* How far along the pictures each page has come, and what it shows.
At == [c \in Clients |-> IF client[c].hasBaseline THEN client[c].lastSeq + 1 ELSE 0]
View == [c \in Clients |-> IF strayed[c] THEN Torn ELSE client[c].scene]

Mirror == INSTANCE ScreenMirror WITH drawn <- encoded, at <- At, view <- View

\* Each page steps forward through the pictures the game drew and shows whole
\* ones, except while a patch for another scene has torn it.
MirrorSpec == Mirror!Spec

=============================================================================
