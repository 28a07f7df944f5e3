--------------------------- MODULE PageConnection ---------------------------
(***************************************************************************)
(* A page's view and the connection of the game canvas it mounts: App's    *)
(* navigation (src/client/src/App.jsx) and GameCanvas' connect and         *)
(* setupWebRTC (src/client/src/components/GameCanvas.jsx).                 *)
(*                                                                         *)
(* The canvas opens a signalling WebSocket, offers a peer connection over  *)
(* it, and takes the host's answer and ICE candidates in asynchronous      *)
(* handlers that interleave at every await.  A canvas that ends, or is     *)
(* left, closes its channels; the browser may report the close of its      *)
(* df-stream channel to it later, when another canvas is on the page.      *)
(*                                                                         *)
(* The hub's session is seen here as its state; PageSession says when that *)
(* changes.                                                                *)
(***************************************************************************)
EXTENDS Naturals, Sequences, FiniteSets

CONSTANTS
    Candidates,    \* the host's ICE candidates
    UdpWorks,      \* whether a peer connection can be established
    MaxFaults      \* bound: connections that fail though the game lives

ASSUME ConnectionAssumption ==
    /\ IsFiniteSet(Candidates) /\ UdpWorks \in BOOLEAN /\ MaxFaults \in Nat

VARIABLES
    server,     \* the hub's session state
    path,       \* window.location.pathname
    visited,    \* paths in the browser's history
    view,       \* "menu" or "stream"
    canvas,     \* the mounted GameCanvas, NoCanvas if none
    down,       \* signalling messages under way to the page
    orphans,    \* left canvases whose channel close is still to be reported
    faults      \* connections failed so far

connectionVars == <<path, visited, view, canvas, down, orphans, faults>>

StreamPaths == {"/df", "/dwarf-fortress"}
Answer == "answer"
NoCandidate == "none"

ASSUME CandidatesAssumption == Answer \notin Candidates /\ NoCandidate \notin Candidates

NoCanvas == [mounted |-> FALSE]
NewCanvas ==
    [mounted |-> TRUE,
     alive |-> (server = "running"),   \* the game behind the socket lives
     ws |-> "connecting", input |-> FALSE, resizes |-> FALSE,
     pc |-> "none",            \* setupWebRTC: "offering", "describing", "offered", "failed"
     dc |-> "none", inputDc |-> "none",
     ready |-> FALSE,          \* isWebRTCReady
     drawn |-> FALSE,          \* hasDrawn
     described |-> "no",       \* setRemoteDescription: "no", "awaited", "yes"
     pending |-> <<>>,         \* pendingIceCandidates
     drained |-> NoCandidate,  \* the one the drain loop awaits
     added |-> {}, early |-> {}]

\* A canvas is unmounted: its cleanup, or its end, closes every channel.
Unmount == IF canvas.mounted /\ canvas.dc \notin {"none", "closed"} THEN orphans + 1 ELSE orphans

NavigateToHome ==
    /\ path' = "/" /\ visited' = visited \union {"/"}
    /\ view' = "menu" /\ canvas' = NoCanvas /\ orphans' = Unmount
    /\ down' = <<>>

NavigateToStream ==
    /\ path' = "/df" /\ visited' = visited \union {"/df"}
    /\ view' = "stream"
    /\ canvas' = IF canvas.mounted THEN canvas ELSE NewCanvas
    /\ down' = IF canvas.mounted THEN down ELSE <<>>
    /\ UNCHANGED orphans

\* The user goes back or forward to a path of the history.
HandlePopState(p) ==
    /\ p \in visited \ {path}
    /\ path' = p
    /\ view' = IF p \in StreamPaths THEN "stream" ELSE "menu"
    /\ CASE p \in StreamPaths /\ canvas.mounted -> UNCHANGED <<canvas, down, orphans>>
         [] p \in StreamPaths /\ ~canvas.mounted ->
              canvas' = NewCanvas /\ down' = <<>> /\ UNCHANGED orphans
         [] p \notin StreamPaths ->
              canvas' = NoCanvas /\ down' = <<>> /\ orphans' = Unmount
    /\ UNCHANGED <<visited, faults>>

Navigated == <<path, visited, view, orphans>>

(***************************************************************************)
(* The signalling socket.                                                  *)
(***************************************************************************)
\* setupWebRTC up to its first await: a peer connection, its channels and their
\* handlers.
SetupWebRTC(c) == [c EXCEPT !.pc = "offering", !.dc = "connecting", !.inputDc = "connecting"]

\* ws.onopen: input is captured, the size sent, and setupWebRTC begins.
WsOpens ==
    /\ canvas.mounted /\ canvas.ws = "connecting" /\ canvas.alive
    /\ canvas' = SetupWebRTC([canvas EXCEPT !.ws = "open", !.input = TRUE, !.resizes = TRUE])
    /\ UNCHANGED <<Navigated, down, faults>>

OfferCreated ==
    /\ canvas.mounted /\ canvas.pc = "offering"
    /\ canvas' = [canvas EXCEPT !.pc = "describing"]
    /\ UNCHANGED <<Navigated, down, faults>>

\* The local description is set and the offer sent.  The host answers it, and
\* names its candidates, in an order of its own.
OfferSent ==
    /\ canvas.mounted /\ canvas.pc = "describing" /\ canvas.ws = "open"
    /\ canvas' = [canvas EXCEPT !.pc = "offered"]
    /\ down' \in {s \in [1..(Cardinality(Candidates) + 1) -> Candidates \union {Answer}] :
                    \A i, j \in DOMAIN s : i # j => s[i] # s[j]}
    /\ UNCHANGED <<Navigated, faults>>

\* webrtc_answer: the handler awaits setRemoteDescription.
AnswerArrives ==
    /\ canvas.mounted /\ canvas.ws = "open" /\ down # <<>> /\ Head(down) = Answer
    /\ canvas' = [canvas EXCEPT !.described = "awaited"]
    /\ down' = Tail(down)
    /\ UNCHANGED <<Navigated, faults>>

\* Ghost in AddIceCandidate: a candidate added without a remote description.
AddIceCandidate(c, cand) ==
    [c EXCEPT !.added = @ \union {cand},
              !.early = IF c.described = "yes" THEN @ ELSE @ \union {cand}]

\* webrtc_ice: added at once when the remote description is set, else queued.
CandidateArrives ==
    /\ canvas.mounted /\ canvas.ws = "open" /\ down # <<>> /\ Head(down) # Answer
    /\ canvas' = IF canvas.described = "yes"
                 THEN AddIceCandidate(canvas, Head(down))
                 ELSE [canvas EXCEPT !.pending = Append(@, Head(down))]
    /\ down' = Tail(down)
    /\ UNCHANGED <<Navigated, faults>>

\* The drain loop takes the oldest waiting candidate and awaits its addition.
TakePending(c) ==
    IF c.pending = <<>> THEN [c EXCEPT !.drained = NoCandidate]
    ELSE [c EXCEPT !.drained = Head(c.pending), !.pending = Tail(c.pending)]

\* Mutant: the candidates that came before the answer are left queued.
RemoteDescriptionSetOnly ==
    /\ canvas.mounted /\ canvas.described = "awaited"
    /\ canvas' = [canvas EXCEPT !.described = "yes"]
    /\ UNCHANGED <<Navigated, down, faults>>

\* The continuation of that await: raise the flag, then drain the queue.
RemoteDescriptionSet ==
    /\ canvas.mounted /\ canvas.described = "awaited"
    /\ canvas' = TakePending([canvas EXCEPT !.described = "yes"])
    /\ UNCHANGED <<Navigated, down, faults>>

\* Mutant: the queue is drained once, not until it is empty.
PendingAddedOnce ==
    /\ canvas.mounted /\ canvas.drained # NoCandidate
    /\ canvas' = [AddIceCandidate(canvas, canvas.drained) EXCEPT !.drained = NoCandidate]
    /\ UNCHANGED <<Navigated, down, faults>>

PendingAdded ==
    /\ canvas.mounted /\ canvas.drained # NoCandidate
    /\ canvas' = TakePending(AddIceCandidate(canvas, canvas.drained))
    /\ UNCHANGED <<Navigated, down, faults>>

(***************************************************************************)
(* The channels.                                                           *)
(***************************************************************************)
Connectable == UdpWorks /\ canvas.alive /\ canvas.described = "yes" /\ canvas.added # {}

\* dc.onopen
StreamOpens ==
    /\ canvas.mounted /\ canvas.dc = "connecting" /\ Connectable
    /\ canvas' = [canvas EXCEPT !.dc = "open", !.ready = TRUE]
    /\ UNCHANGED <<Navigated, down, faults>>

InputOpens ==
    /\ canvas.mounted /\ canvas.inputDc = "connecting" /\ Connectable
    /\ canvas' = [canvas EXCEPT !.inputDc = "open"]
    /\ UNCHANGED <<Navigated, down, faults>>

\* A frame is painted: the overlay goes.  The host sends frames on df-stream
\* alone.
FrameDrawn ==
    /\ canvas.mounted /\ canvas.dc = "open" /\ canvas.alive /\ ~canvas.drawn
    /\ canvas' = [canvas EXCEPT !.drawn = TRUE]
    /\ UNCHANGED <<Navigated, down, faults>>

\* dc.onclose on the page's own canvas, whose socket is open: the overlay
\* returns and nothing connects again.
StreamCloses ==
    /\ canvas.mounted /\ canvas.dc = "open" /\ canvas.alive
    /\ faults < MaxFaults /\ faults' = faults + 1
    /\ canvas' = [canvas EXCEPT !.dc = "closed", !.inputDc = "closed", !.ready = FALSE]
    /\ UNCHANGED <<Navigated, down>>

\* Mutant: the end of the socket is reported to nobody.
WsClosesSilently ==
    /\ canvas.mounted /\ ~canvas.alive /\ canvas.ws # "closed"
    /\ canvas' = [canvas EXCEPT !.ws = "closed", !.dc = "none", !.inputDc = "none",
                                !.pc = "none", !.ready = FALSE]
    /\ UNCHANGED <<Navigated, down, faults>>

\* ws.onclose after the end of the game: onTerminate.
WsCloses ==
    /\ canvas.mounted /\ ~canvas.alive
    /\ NavigateToHome
    /\ UNCHANGED faults

\* ws.onclose after an error: the same.
WsFails ==
    /\ canvas.mounted /\ canvas.alive
    /\ faults < MaxFaults /\ faults' = faults + 1
    /\ NavigateToHome

\* dc.onclose of a canvas that was left: its socket is closed too, and it
\* calls the page's onTerminate whatever the page shows by now.
OrphanCloses ==
    /\ orphans > 0
    /\ path' = "/" /\ visited' = visited \union {"/"} /\ view' = "menu"
    /\ canvas' = NoCanvas /\ down' = <<>>
    /\ orphans' = Unmount - 1
    /\ UNCHANGED faults

ConnectionNext ==
    \/ WsOpens \/ OfferCreated \/ OfferSent
    \/ AnswerArrives \/ CandidateArrives
    \/ RemoteDescriptionSet \/ PendingAdded
    \/ StreamOpens \/ InputOpens \/ FrameDrawn
    \/ StreamCloses \/ WsCloses \/ WsFails \/ OrphanCloses

=============================================================================
