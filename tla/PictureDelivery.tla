--------------------------- MODULE PictureDelivery ---------------------------
(***************************************************************************)
(* How the pictures (textures) a frame names reach a page.                 *)
(*                                                                         *)
(* Host (src/interposer/df_streamer.cpp, texture_queue.hpp): before a      *)
(* frame it sends, on the unreliable stream channel, every picture the     *)
(* frame names that it does not believe the page holds.  A picture the     *)
(* page asks for goes to the front of a queue that is drained, as the      *)
(* link has room, onto the reliable asset channel.                         *)
(*                                                                         *)
(* Page (src/client/src/components/GameCanvas.jsx, core/renderer.js):      *)
(* reassembles chunks, decodes JPEG pictures asynchronously, packs them    *)
(* into an atlas that is emptied when full, and does not draw a frame      *)
(* until every picture it names is there or has been given up.             *)
(*                                                                         *)
(* One page, connected throughout.  A picture is its id: its pixels never  *)
(* change under that id (an id is reused only after 65535 allocations).    *)
(* Lost frames are the subject of FrameStream; here only chunks are lost.  *)
(***************************************************************************)
EXTENDS Naturals, Sequences, FiniteSets, Functions, SequencesExt

CONSTANTS
    TextureCount,  \* pictures the game has made: their ids are 1..TextureCount
    ChunksOf,      \* ChunksOf[p]: messages picture p takes on the wire
    Jpegs,         \* pictures sent as JPEG
    Budget,        \* messages a channel may hold before pictures wait
    Reserve,       \* messages more that an urgent picture may add
    AtlasCaps,     \* how many pictures the atlas may hold
    MaxTries,      \* ASSET_BRIDGE_MAX_TRIES
    MaxEvents,     \* bound: screens presented, chunks lost on the stream
                   \* channel and textures whose pixels are let go, in all
    MaxResets,     \* bound: times the atlas is emptied
    MaxStream,     \* bound: messages on the stream channel when a request is handled
    MaxArrived,    \* bound: chunks waiting in the page's assetQueue
    GameDrawing    \* whether the game keeps drawing a picture that is still

Pics == 1..TextureCount

ASSUME PicturesAssumption ==
    /\ TextureCount \in Nat
    /\ ChunksOf \in [Pics -> Nat \ {0}]
    /\ Jpegs \subseteq Pics
    /\ {Budget, Reserve} \union AtlasCaps \subseteq Nat \ {0}
    /\ MaxTries \in Nat \ {0, 1}
    /\ {MaxEvents, MaxResets, MaxStream, MaxArrived} \subseteq Nat
    /\ GameDrawing \in BOOLEAN

VARIABLES
    screen,     \* ids named by the picture the game presented last
    presents,   \* how many it presented
    pixels,     \* ids whose pixels the host still holds
    believed,   \* ids the host believes the page holds (g_client_cache)
    queue,      \* pictures that owe chunks (TextureQueue::pending_)
    drain,      \* "off", or the loop of a drain, which holds the session lock:
                \* "looking" for a picture to send or "sending" the first one
    worker,     \* the drain worker thread: "idle", "running" or "leaving"; "late"
                \* and "gone": leaving and ended with a request that it missed
    stream,     \* df-stream channel: chunks and frames, in order
    losses,     \* chunks lost so far
    asset,      \* df-assets channel: chunks, in order, reliable
    requests,   \* asset bridge requests under way to the host
    arrived,    \* the page's assetQueue
    page        \* the page's other state, a record (PageInit)

host == <<screen, presents, pixels, believed>>
vars == <<screen, presents, pixels, believed, queue, drain, worker, stream,
          losses, asset, requests, arrived, page>>

Chunk(p, i) == [kind |-> "chunk", id |-> p, index |-> i]
FrameOf(S) == [kind |-> "frame", names |-> S]
Owed(p, i, u) == [id |-> p, next |-> i, urgent |-> u]

Chunks(p) == [i \in 1..ChunksOf[p] |-> Chunk(p, i - 1)]

(***************************************************************************)
(* The page: pure operators on its record.                                 *)
(***************************************************************************)
PageInit(cap) ==
    [commands |-> {}, atlasCap |-> cap, textures |-> {}, ready |-> TRUE, dirty |-> TRUE,
     reclaimed |-> FALSE, generation |-> 0, resetUnseen |-> FALSE, ingesting |-> FALSE,
     chunks |-> [p \in Pics |-> {}], decoding |-> {},
     key |-> {}, fresh |-> FALSE, tries |-> [p \in Pics |-> 0],
     unfetchable |-> {}, progress |-> FALSE,
     asked |-> {},                      \* history: ids some request named
     dropped |-> {},                    \* history: refused by a full atlas
     holes |-> "none",                  \* history: how the last paint came to lack any
     decoded |-> FALSE]  \* history: since the last sync a decode has ended
                         \* of a picture that the frame names

MissingTextureIds(pg) == pg.commands \ pg.textures

\* Puts a decoded picture in the atlas.  A full atlas is emptied, once per
\* applied frame; a picture that then still does not fit is dropped.
SetTexture(pg, p) ==
    LET fits == p \in pg.textures \/ Cardinality(pg.textures) < pg.atlasCap
    IN  CASE fits -> [pg EXCEPT !.textures = @ \union {p}, !.dropped = @ \ {p},
                                !.dirty = TRUE]
          [] ~fits /\ ~pg.reclaimed ->
               [pg EXCEPT !.textures = {p}, !.dropped = @ \ {p}, !.dirty = TRUE,
                          !.reclaimed = TRUE, !.generation = @ + 1, !.resetUnseen = TRUE]
          [] ~fits /\ pg.reclaimed -> [pg EXCEPT !.dropped = @ \union {p}]

\* One chunk: fast path for a raw picture of one message, else assembly.
IngestTextureChunk(pg, c) ==
    LET had  == pg.chunks[c.id] \union {c.index}
        done == Cardinality(had) = ChunksOf[c.id]
        got  == [pg EXCEPT !.progress = TRUE,
                           !.chunks[c.id] = IF done THEN {} ELSE had]
    IN  CASE ~done -> got
          [] done /\ c.id \in Jpegs -> [got EXCEPT !.decoding = @ \union {c.id}]
          [] done /\ c.id \notin Jpegs -> SetTexture(got, c.id)

\* The first chunk of each missing picture the page does not hold.
MissingChunksFor(pg, S) ==
    [p \in S |-> CHOOSE i \in 0..(ChunksOf[p] - 1) :
                    /\ i \notin pg.chunks[p]
                    /\ \A j \in 0..(i - 1) : j \in pg.chunks[p]]

\* syncAssets runs again after a give-up, and each pass counts one more try
\* for all that is still missing: Passes is the pass that exhausts nobody.
Passes(tries, S) ==
    CHOOSE k \in 1..(MaxTries + 1) :
        /\ \A p \in S : tries[p] + k # MaxTries
        /\ \A j \in 1..(k - 1) : \E p \in S : tries[p] + j = MaxTries

\* What a sync starts from: a reset atlas annuls what was given up.
AfterReset(pg) ==
    IF pg.resetUnseen
    THEN [pg EXCEPT !.decoded = FALSE, !.resetUnseen = FALSE, !.tries = [p \in Pics |-> 0],
                    !.unfetchable = {}, !.key = {}, !.fresh = FALSE]
    ELSE [pg EXCEPT !.decoded = FALSE]

\* What gates the frame, and the tries counted so far: a chunk that arrived
\* since the last request proves the pipeline works and clears them.
Gating(pg) == MissingTextureIds(pg) \ pg.unfetchable
\* Mutant: arriving chunks do not clear the tries.
CountedRegardless(pg) == pg.tries
Counted(pg) == IF pg.progress THEN [p \in Pics |-> 0] ELSE pg.tries
AskDue(pg) == Gating(pg) # {} /\ ~(Gating(pg) = pg.key /\ pg.fresh)

GivenUp(pg) ==
    {p \in Gating(pg) : Counted(pg)[p] + Passes(Counted(pg), Gating(pg)) > MaxTries}
Wanted(pg) == Gating(pg) \ GivenUp(pg)

\* syncAssets on a page whose atlas reset, if any, is taken note of.
SyncAssets(pg) ==
    CASE Gating(pg) = {} -> [pg EXCEPT !.ready = TRUE, !.key = {}]
      [] Gating(pg) # {} /\ ~AskDue(pg) -> [pg EXCEPT !.ready = FALSE]
      [] AskDue(pg) ->
           LET k == Passes(Counted(pg), Gating(pg))
           IN  [pg EXCEPT
                 !.ready = (Wanted(pg) = {}), !.key = Wanted(pg), !.fresh = TRUE,
                 !.progress = FALSE, !.unfetchable = @ \union GivenUp(pg),
                 !.tries = [p \in Pics |-> CASE p \in GivenUp(pg) -> MaxTries
                                             [] p \in Wanted(pg) -> Counted(pg)[p] + k
                                             [] OTHER -> Counted(pg)[p]],
                 !.asked = @ \union Wanted(pg)]

\* The request a sync sends, if it sends one: a chunk index per missing id.
AssetBridgeRequest(pg) ==
    IF AskDue(pg) /\ Wanted(pg) # {}
    THEN <<MissingChunksFor(pg, Wanted(pg))>> ELSE <<>>

\* What a paint would leave out, but for what was given up, and why: the
\* atlas was emptied and no sync has seen it, or there is no reason.
Holes(pg) ==
    CASE Gating(pg) = {} -> "none"
      [] Gating(pg) # {} /\ pg.resetUnseen -> "emptied"
      [] Gating(pg) # {} /\ ~pg.resetUnseen -> "unexplained"

\* Mutant: the gate of the paint is dropped.
RenderUngated(pg) ==
    IF pg.dirty THEN [pg EXCEPT !.dirty = FALSE, !.holes = Holes(pg)] ELSE pg

\* Paints the frame if it may be painted.  An absent picture leaves a hole.
Render(pg) ==
    IF pg.ready /\ pg.dirty THEN [pg EXCEPT !.dirty = FALSE, !.holes = Holes(pg)] ELSE pg

Synced(pg) ==
    /\ pg.generation <= MaxResets
    /\ page' = SyncAssets(AfterReset(pg))
    /\ requests' = requests \o AssetBridgeRequest(AfterReset(pg))
SyncedAndDrawn(pg) ==
    /\ pg.generation <= MaxResets
    /\ page' = Render(SyncAssets(AfterReset(pg)))
    /\ requests' = requests \o AssetBridgeRequest(AfterReset(pg))

(***************************************************************************)
(* Host.                                                                   *)
(***************************************************************************)
\* The messages of one frame: the pictures it names that the page is not
\* believed to hold, in the order of their ids, whole and past the budget,
\* then the frame itself.
Packed(S) == FlattenSeq([p \in Pics |-> IF p \in S THEN Chunks(p) ELSE <<>>])
ServicePictureSend(S) ==
    /\ stream' = stream \o Packed((S \ believed) \intersect pixels) \o <<FrameOf(S)>>
    /\ believed' = believed \union (S \intersect pixels)

\* Screens the atlas has room for: a larger one can never be held whole.
Screens == {S \in SUBSET Pics : S # {} /\ Cardinality(S) <= page.atlasCap}

\* One more of the events that are bounded.
MayHappen == presents + losses + Cardinality(Pics \ pixels) < MaxEvents

\* The game presents a picture that differs from the last one sent.
Present(S) ==
    /\ MayHappen /\ drain = "off"
    /\ S # screen /\ S \in Screens /\ S \subseteq pixels
    /\ screen' = S
    /\ presents' = presents + 1
    /\ ServicePictureSend(S)
    /\ UNCHANGED <<pixels, queue, drain, worker, losses, asset, requests, arrived, page>>

\* The game destroyed the texture and the pixels are over their limit.
Release(p) ==
    /\ p \in pixels /\ MayHappen
    /\ drain # "sending"
    /\ pixels' = pixels \ {p}
    /\ UNCHANGED <<screen, presents, believed, queue, drain, worker, stream, losses,
                   asset, requests, arrived, page>>

Without(q, S) ==
    FlattenSeq([i \in 1..Len(q) |-> IF q[i].id \in S THEN <<>> ELSE <<q[i]>>])
\* What is asked for, chunk at[p] of each picture p, the highest id first.
Urgent(at) ==
    FlattenSeq([k \in Pics |->
        LET p == TextureCount + 1 - k
        IN  IF p \in DOMAIN at THEN <<Owed(p, at[p], TRUE)>> ELSE <<>>])
\* Mutant: a picture already waiting keeps its old place as well.
DeferFrontAtTwice(q, at) == Urgent(at) \o q

\* defer_front_at for each wanted picture in turn: the last one ends in front.
DeferFrontAt(q, at) == Urgent(at) \o Without(q, DOMAIN at)

\* Mutant: a request is left to the drains of the game.
LeaveToTheGame(q) == worker
\* start_texture_drain_worker: one worker at a time.
StartTextureDrainWorker(q) ==
    CASE q # <<>> /\ worker \in {"idle", "gone"} -> "running"
      [] q # <<>> /\ worker = "leaving" -> "late"
      [] q = <<>> \/ worker \in {"running", "late"} -> worker

\* One asset bridge request: queue what it names, see that a worker drains
\* the queue, and send the picture on screen again as a full frame.
\* A worker that leaves has cleared its flag before the page can ask twice.
ResendMissingTextures ==
    /\ requests # <<>> /\ drain = "off" /\ Len(stream) <= MaxStream
    /\ worker # "late"
    /\ LET known == DOMAIN Head(requests) \intersect pixels
           q     == DeferFrontAt(queue, [p \in known |-> Head(requests)[p]])
       IN  /\ queue' = q
           /\ worker' = StartTextureDrainWorker(q)
           /\ IF known # {}
              THEN ServicePictureSend(screen)
              ELSE UNCHANGED <<stream, believed>>
    /\ requests' = Tail(requests)
    /\ UNCHANGED <<screen, presents, pixels, drain, losses, asset, arrived, page>>

HasRoom == Len(asset) < Budget
MayPass(e) == HasRoom \/ (e.urgent /\ Len(asset) < Budget + Reserve)
\* A drain may go on, or begin: from the draw path or on the worker.
Draining == drain # "off" \/ worker = "running" \/ GameDrawing
MaySend == queue # <<>> /\ Draining /\ MayPass(Head(queue))

\* Mutant: a repair sends the one chunk it was asked for.
DrainOneChunk ==
    /\ MaySend /\ Head(queue).id \in pixels
    /\ asset' = Append(asset, Chunk(Head(queue).id, Head(queue).next))
    /\ queue' = Tail(queue) /\ drain' = "looking"
    /\ UNCHANGED <<host, worker, stream, losses, requests, arrived, page>>

\* The drain sends the next chunk of the picture at the head, and goes on
\* with that picture while more of it is owed.
DrainChunk ==
    /\ MaySend /\ Head(queue).id \in pixels
    /\ LET e    == Head(queue)
           rest == [e EXCEPT !.next = @ + 1]
       IN  /\ asset' = Append(asset, Chunk(e.id, e.next))
           /\ \/ /\ rest.next < ChunksOf[e.id]
                 /\ queue' = <<rest>> \o Tail(queue) /\ drain' = "sending"
              \/ /\ rest.next >= ChunksOf[e.id]
                 /\ queue' = Tail(queue) /\ drain' = "looking"
    /\ UNCHANGED <<host, worker, stream, losses, requests, arrived, page>>

\* A picture whose pixels were let go is skipped.
DrainSkip ==
    /\ MaySend /\ Head(queue).id \notin pixels
    /\ queue' = Tail(queue) /\ drain' = "looking"
    /\ UNCHANGED <<host, worker, stream, losses, asset, requests, arrived, page>>

\* No room for its next chunk: an urgent picture goes back to the front, any
\* other to the back.
DrainYield ==
    /\ drain = "sending" /\ ~MayPass(Head(queue))
    /\ drain' = "looking"
    /\ queue' = IF Head(queue).urgent THEN queue ELSE Append(Tail(queue), Head(queue))
    /\ UNCHANGED <<host, worker, stream, losses, asset, requests, arrived, page>>

\* Nothing is left, or nothing that may pass: the drain ends.
DrainEnds ==
    /\ drain = "looking"
    /\ queue # <<>> => ~MayPass(Head(queue))
    /\ drain' = "off"
    /\ UNCHANGED <<host, queue, worker, stream, losses, asset, requests, arrived, page>>

\* The worker found the queue empty: it leaves its loop, then clears the flag.
WorkerLeaves ==
    /\ worker = "running" /\ queue = <<>>
    /\ worker' = "leaving"
    /\ UNCHANGED <<host, queue, drain, stream, losses, asset, requests, arrived, page>>

WorkerEnds ==
    /\ worker \in {"leaving", "late"}
    /\ worker' = IF worker = "late" THEN "gone" ELSE "idle"
    /\ UNCHANGED <<host, queue, drain, stream, losses, asset, requests, arrived, page>>

(***************************************************************************)
(* Channels and page.                                                      *)
(***************************************************************************)
Lose ==
    /\ stream # <<>> /\ Head(stream).kind = "chunk" /\ MayHappen
    /\ stream' = Tail(stream)
    /\ losses' = losses + 1
    /\ UNCHANGED <<host, queue, drain, worker, asset, requests, arrived, page>>

\* A frame is applied, its pictures are looked for, and it is painted on
\* arrival if none is missing.
FrameArrives ==
    /\ stream # <<>> /\ Head(stream).kind = "frame" /\ ~page.ingesting
    /\ stream' = Tail(stream)
    /\ SyncedAndDrawn([page EXCEPT !.reclaimed = FALSE, !.dirty = TRUE,
                                   !.commands = Head(stream).names])
    /\ UNCHANGED <<host, queue, drain, worker, losses, asset, arrived>>

\* A chunk on the stream channel is ingested in its message handler.
ChunkArrives ==
    /\ stream # <<>> /\ Head(stream).kind = "chunk" /\ ~page.ingesting
    /\ stream' = Tail(stream)
    /\ Synced(IngestTextureChunk(page, Head(stream)))
    /\ UNCHANGED <<host, queue, drain, worker, losses, asset, arrived>>

\* A chunk on the asset channel only joins the page's queue.
AssetArrives ==
    /\ asset # <<>> /\ Len(arrived) < MaxArrived /\ ~page.ingesting
    /\ asset' = Tail(asset)
    /\ arrived' = Append(arrived, Head(asset))
    /\ UNCHANGED <<host, queue, drain, worker, stream, losses, requests, page>>

\* The heartbeat ingests queued chunks, one after the other while its budget
\* lasts (nothing else of the page runs in between: ingesting), looks again
\* for what is missing, and paints.
RenderLoopIngests ==
    /\ arrived # <<>>
    /\ arrived' = Tail(arrived)
    /\ LET pg == IngestTextureChunk(page, Head(arrived))
       IN  \/ /\ Tail(arrived) # <<>> /\ pg.generation <= MaxResets
              /\ page' = [pg EXCEPT !.ingesting = TRUE]
              /\ UNCHANGED requests
           \/ SyncedAndDrawn([pg EXCEPT !.ingesting = FALSE])
    /\ UNCHANGED <<host, queue, drain, worker, stream, losses, asset>>

\* The heartbeat with no chunk waiting only paints.
RenderLoopPaints ==
    /\ arrived = <<>> /\ page.ready /\ page.dirty
    /\ page' = Render(page)
    /\ UNCHANGED <<host, queue, drain, worker, stream, losses, asset, requests, arrived>>

\* A JPEG picture finishes decoding.  Nothing looks for missing pictures here.
DecodeDone(p) ==
    /\ p \in page.decoding /\ ~page.ingesting
    /\ page' = SetTexture([page EXCEPT !.decoding = @ \ {p}, !.progress = TRUE,
                                        !.decoded = @ \/ p \in page.commands], p)
    /\ page'.generation <= MaxResets
    /\ UNCHANGED <<host, queue, drain, worker, stream, losses, asset, requests, arrived>>

\* ASSET_BRIDGE_BACKOFF_MS, longer than a decode, have passed since the last
\* request.
BackoffPasses ==
    /\ page.fresh /\ page.key # {} /\ page.decoding = {} /\ ~page.ingesting
    /\ page' = [page EXCEPT !.fresh = FALSE]
    /\ UNCHANGED <<host, queue, drain, worker, stream, losses, asset, requests, arrived>>

\* The df-stream channel just opened: the host forgets what it believed,
\* dumps its pictures on the channel as far as it has room, queues what is
\* left of each, and sends the picture on screen.
Dump == SubSeq(Packed(Pics), 1, Min({Budget, Len(Packed(Pics))}))
Dumped(p) == Cardinality({k \in 1..Len(Dump) : Dump[k].id = p})
DumpOwes ==
    FlattenSeq([p \in Pics |->
        IF Dumped(p) < ChunksOf[p] THEN <<Owed(p, Dumped(p), FALSE)>> ELSE <<>>])

Init ==
    /\ page \in {PageInit(cap) : cap \in AtlasCaps}
    /\ screen \in Screens
    /\ presents = 0 /\ pixels = Pics /\ believed = screen
    /\ stream = Dump \o Packed(screen) \o <<FrameOf(screen)>>
    /\ queue = DumpOwes /\ drain = "off" /\ worker = "idle"
    /\ losses = 0 /\ asset = <<>> /\ requests = <<>> /\ arrived = <<>>

HostNext ==
    \/ \E S \in SUBSET Pics : Present(S)
    \/ \E p \in Pics : Release(p)
    \/ ResendMissingTextures
    \/ DrainChunk \/ DrainSkip \/ DrainYield \/ DrainEnds
    \/ WorkerLeaves \/ WorkerEnds

PageNext ==
    \/ Lose
    \/ FrameArrives \/ ChunkArrives \/ AssetArrives
    \/ RenderLoopIngests \/ RenderLoopPaints
    \/ \E p \in Pics : DecodeDone(p)
    \/ BackoffPasses

Next == HostNext \/ PageNext

\* Messages sent arrive unless lost, the browser keeps calling the render
\* loop and finishes its decodes, time passes, and the drain goes on while
\* something drives it.  The game owes nobody a new picture.
Fairness ==
    /\ WF_vars(ResendMissingTextures)
    /\ WF_vars(DrainChunk \/ DrainSkip \/ DrainYield \/ DrainEnds)
    /\ WF_vars(WorkerLeaves \/ WorkerEnds)
    /\ WF_vars(FrameArrives \/ ChunkArrives) /\ WF_vars(AssetArrives)
    /\ WF_vars(RenderLoopIngests \/ RenderLoopPaints)
    /\ \A p \in Pics : WF_vars(DecodeDone(p))
    /\ WF_vars(BackoffPasses)

Spec == Init /\ [][Next]_vars /\ Fairness

(***************************************************************************)
(* Properties.                                                             *)
(***************************************************************************)
\* No frame is painted that lacks a picture (renderer.js:406-416), but for
\* pictures given up, and but for an atlas that was emptied and nothing has
\* looked at since: by a JPEG picture whose decode ended while the page was
\* ready to paint (GameCanvas.jsx:793).
NoUnexplainedHoles == page.holes # "unexplained"

\* Pictures the page asked for are a prefix of the queue, each picture is
\* queued once, and it still owes a chunk (TextureQueue).
UrgentFirst ==
    /\ \A i, j \in 1..Len(queue) : i < j /\ queue[j].urgent => queue[i].urgent
    /\ \A i, j \in 1..Len(queue) : i # j => queue[i].id # queue[j].id
    /\ \A i \in 1..Len(queue) : queue[i].next < ChunksOf[queue[i].id]

\* While the page waits for a picture it asked for, each chunk it lacks is
\* named by a request under way, owed by the queue, or on its way: a repair
\* never steps over the chunk that was lost.
RepairCoversTheGap ==
    ~page.resetUnseen =>
    \A p \in (page.key \intersect pixels)
              \ (page.decoding \union page.textures \union page.dropped) :
      \A i \in (0..(ChunksOf[p] - 1)) \ page.chunks[p] :
        \/ \E n \in 1..Len(requests) : p \in DOMAIN requests[n] /\ requests[n][p] <= i
        \/ \E n \in 1..Len(queue) : queue[n].id = p /\ queue[n].next <= i
        \/ Chunk(p, i) \in Range(asset) \union Range(arrived)

\* Nothing is given up in a step that ingests chunks, nor by the first sync
\* after one: a page whose pictures still arrive gives none up.
NothingGivenUpWhileArriving ==
    [][page'.unfetchable \subseteq page.unfetchable
         \/ (~page.progress /\ Len(arrived') >= Len(arrived) /\ page'.chunks = page.chunks)]_vars

\* Nothing will look again at what the page misses, unless more arrives: a
\* decode, which nothing follows, was the last to change it.
NobodyLooks == page.resetUnseen \/ (page.decoded /\ ~page.ready /\ Gating(page) = {})
\* Nothing will send the pictures asked for: the worker that was to do so was
\* on its way out when they were queued, and the game does not draw.
NobodySends == ~GameDrawing /\ worker = "gone"

\* When the game stops changing a screen all of whose pictures the host
\* still holds, every picture of it is in the end on the display, unless the
\* page gave it up without having asked for it, its atlas refused it (or was
\* emptied MaxResets times, the bound), or nobody looks or sends any more.
ScreenCompleted ==
    <>[](\/ page.generation = MaxResets \/ ~(screen \subseteq pixels)
         \/ NobodyLooks \/ NobodySends
         \/ /\ page.commands = screen /\ ~page.dirty
            /\ screen \subseteq page.textures \union page.dropped
                                \union (page.unfetchable \ page.asked))

\* A frame that is held although no picture of it is awaited any more is soon
\* let go: "the heartbeat still runs - it is what catches the case where a
\* picture completes between frames" (GameCanvas.jsx:915).
HeartbeatCatches == (~page.ready /\ Gating(page) = {}) ~> page.ready
=============================================================================
