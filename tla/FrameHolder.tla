----------------------------- MODULE FrameHolder -----------------------------
(***************************************************************************)
(* The hub's FrameHolder (server/features/raw/frame_holder.go): the newest *)
(* picture of the raw path, fanned out to viewers through channels that    *)
(* hold one frame each.                                                    *)
(*                                                                         *)
(* h.mu is held for the whole of a publish, but a viewer receives from its *)
(* channel without it: a viewer may run between any two channel operations *)
(* of offer. Those are steps of their own here, the rest of a publish that *)
(* is under way being kept in "offering". Whoever else needs h.mu waits    *)
(* until it is free.                                                       *)
(***************************************************************************)
EXTENDS Naturals, Sequences

CONSTANTS
  Viewers,    \* browsers that may watch
  Images,     \* pictures
  MaxFrames   \* bound of the model: frames ever published

ASSUME ViewersAssumption == "nobody" \notin Viewers
ASSUME FramesAssumption == MaxFrames \in Nat

VARIABLES
  published,    \* the pictures, at the position that is their Frame.Seq
  offering,     \* what the publish under way still has to do
  subscribed,   \* h.subscribers
  slot,         \* each viewer's channel: the number of the frame in it, or 0
  hand,         \* the frame a viewer's loop has received and not written, or 0
  shown,        \* the last frame a viewer's loop has written, or 0
  counters      \* of each viewer: offered and replaced, as the code counts
                \* them, and two history counters, seeded and taken

holderVars == <<published, offering, subscribed, slot, hand, shown, counters>>
loopVars == <<hand, shown>>

ToServe(vs) == [to |-> vs, now |-> "nobody", phase |-> "next"]
NoOffer == ToServe({})
Count(n, offered, replaced, taken) ==
  [offered |-> n.offered + offered, replaced |-> n.replaced + replaced,
   seeded |-> n.seeded, taken |-> n.taken + taken]

MuFree == offering = NoOffer
Latest == Len(published)

-----------------------------------------------------------------------------
(* PublishStamped, and offer for one subscriber after the other            *)

\* Mutant: h.count is not incremented.
PublishUncounted(image) ==
  /\ MuFree
  /\ Latest < MaxFrames
  /\ published' = [n \in 1..IF Latest = 0 THEN 1 ELSE Latest |->
                     IF n >= Latest THEN image ELSE published[n]]
  /\ offering' = ToServe(subscribed)
  /\ UNCHANGED <<subscribed, slot, loopVars, counters>>

Publish(image) ==
  /\ MuFree
  /\ Latest < MaxFrames
  /\ published' = Append(published, image)
  /\ offering' = ToServe(subscribed)
  /\ UNCHANGED <<subscribed, slot, loopVars, counters>>

\* One viewer has been served; after the last one h.mu is free.
Served(v) == offering' = ToServe(offering.to \ {v})

\* The first select. A full channel counts as a replaced frame before anything
\* is taken out of it.
OfferTry(v) ==
  /\ offering.phase = "next" /\ v \in offering.to
  /\ \/ /\ slot[v] = 0
        /\ slot' = [slot EXCEPT ![v] = Latest]
        /\ counters' = [counters EXCEPT ![v] = Count(@, 1, 0, 0)]
        /\ Served(v)
     \/ /\ slot[v] # 0
        /\ offering' = [to |-> offering.to, now |-> v, phase |-> "full"]
        /\ counters' = [counters EXCEPT ![v] = Count(@, 1, 1, 0)]
        /\ UNCHANGED slot
  /\ UNCHANGED <<published, subscribed, loopVars>>

\* Mutant: the stale frame is left in the channel.
OfferKeepsStale(v) ==
  /\ offering.phase = "full" /\ v = offering.now
  /\ offering' = [offering EXCEPT !.phase = "drained"]
  /\ UNCHANGED <<published, subscribed, slot, loopVars, counters>>

\* takeStale. The viewer may have been faster.
OfferDrain(v) ==
  /\ offering.phase = "full" /\ v = offering.now
  /\ slot' = [slot EXCEPT ![v] = 0]
  /\ offering' = [offering EXCEPT !.phase = "drained"]
  /\ UNCHANGED <<published, subscribed, loopVars, counters>>

\* The second select, which would give up on a channel that is full again.
OfferPut(v) ==
  /\ offering.phase = "drained" /\ v = offering.now
  /\ slot' = [slot EXCEPT ![v] = IF @ = 0 THEN Latest ELSE @]
  /\ Served(v)
  /\ UNCHANGED <<published, subscribed, loopVars, counters>>

Offer(v) == OfferTry(v) \/ OfferDrain(v) \/ OfferPut(v)

-----------------------------------------------------------------------------
(* A viewer's loop                                                         *)

\* Mutant: a newcomer waits for the next frame.
SubscribeUnseeded(v) ==
  /\ MuFree /\ v \notin subscribed
  /\ subscribed' = subscribed \cup {v}
  /\ slot' = [slot EXCEPT ![v] = 0]
  /\ counters' = [counters EXCEPT ![v] =
       [offered |-> 0, replaced |-> 0, seeded |-> 0, taken |-> 0]]
  /\ UNCHANGED <<published, offering, loopVars>>

\* A newcomer is seeded with the newest frame, which nobody counts.
Subscribe(v) ==
  /\ MuFree /\ v \notin subscribed
  /\ subscribed' = subscribed \cup {v}
  /\ slot' = [slot EXCEPT ![v] = Latest]
  /\ counters' = [counters EXCEPT ![v] =
       [offered |-> 0, replaced |-> 0, seeded |-> IF Latest = 0 THEN 0 ELSE 1, taken |-> 0]]
  /\ UNCHANGED <<published, offering, loopVars>>

Take(v) ==
  /\ v \in subscribed
  /\ hand[v] = 0 /\ slot[v] # 0
  /\ hand' = [hand EXCEPT ![v] = slot[v]]
  /\ slot' = [slot EXCEPT ![v] = 0]
  /\ counters' = [counters EXCEPT ![v] = Count(@, 0, 0, 1)]
  /\ UNCHANGED <<published, offering, subscribed, shown>>

\* writeImagePart and the flush.
Write(v) ==
  /\ hand[v] # 0
  /\ shown' = [shown EXCEPT ![v] = hand[v]]
  /\ hand' = [hand EXCEPT ![v] = 0]
  /\ UNCHANGED <<published, offering, subscribed, slot, counters>>

\* The browser went away, while the loop waited for a frame or in the middle of
\* a write: the deferred Unsubscribe waits for h.mu.
Unsubscribe(v) ==
  /\ MuFree /\ v \in subscribed
  /\ subscribed' = subscribed \ {v}
  /\ slot' = [slot EXCEPT ![v] = 0]
  /\ hand' = [hand EXCEPT ![v] = 0]
  /\ shown' = [shown EXCEPT ![v] = 0]
  /\ UNCHANGED <<published, offering, counters>>

-----------------------------------------------------------------------------
HolderInit ==
  /\ published = <<>>
  /\ offering = NoOffer
  /\ subscribed = {}
  /\ slot = [v \in Viewers |-> 0]
  /\ hand = [v \in Viewers |-> 0]
  /\ shown = [v \in Viewers |-> 0]
  /\ counters = [v \in Viewers |-> [offered |-> 0, replaced |-> 0, seeded |-> 0, taken |-> 0]]

HolderNext ==
  \/ \E image \in Images : Publish(image)
  \/ \E v \in Viewers : Offer(v) \/ Subscribe(v) \/ Take(v) \/ Write(v) \/ Unsubscribe(v)

\* The holder among whatever else the relay does.
HolderSpec == HolderInit /\ [][HolderNext]_holderVars

-----------------------------------------------------------------------------
HolderTypeOK ==
  /\ published \in Seq(Images)
  /\ offering \in [to : SUBSET Viewers, now : Viewers \cup {"nobody"},
                   phase : {"next", "full", "drained"}]
  /\ subscribed \subseteq Viewers
  /\ slot \in [Viewers -> 0..Latest]
  /\ hand \in [Viewers -> 0..Latest]
  /\ shown \in [Viewers -> 0..Latest]
  /\ counters \in [Viewers -> [offered : Nat, replaced : Nat, seeded : Nat, taken : Nat]]

\* The newest frame a viewer has in any form.
Newest(v) == IF slot[v] # 0 THEN slot[v] ELSE IF hand[v] # 0 THEN hand[v] ELSE shown[v]

\* offer drops a frame only to make room for a newer one (frame_holder.go,
\* Subscriber): whenever no publish is under way, every viewer has the newest
\* frame waiting, or in its hands, or has shown it. The second select of offer
\* never meets a channel that is full again.
NewestKept == MuFree => \A v \in subscribed : Newest(v) = Latest

\* "Removing the viewer under the same lock that Publish holds is what makes
\* closing that channel safe" (frame_holder.go, Unsubscribe): nobody a publish
\* under way has still to serve has left, so no frame is sent on a closed channel.
NoneServedIsGone == offering.to \subseteq subscribed /\ offering.now \in offering.to \cup {"nobody"}

\* Frames in a viewer's channel or about to be put there.
Ahead(v) == IF slot[v] = 0 /\ offering.now # v THEN 0 ELSE 1

\* Every frame a viewer was to get is received, waiting, about to be put into
\* its channel, or counted as replaced: a viewer that falls behind shows in the
\* counters. (Counted is also the frame it takes in the midst of an offer.)
LossesCounted ==
  \A v \in subscribed :
    counters[v].seeded + counters[v].offered
      <= counters[v].taken + counters[v].replaced + Ahead(v)

\* The raw path promises its viewers what the frame stream promises: see
\* ScreenMirror. Nothing ever tears here.
At == shown
View == [v \in Viewers |-> IF shown[v] = 0 THEN <<>> ELSE published[shown[v]]]

HolderMirror == INSTANCE ScreenMirror
  WITH Clients <- Viewers, Pictures <- Images, Torn <- "torn",
       drawn <- published, at <- At, view <- View

\* Each viewer is written a selection of the published frames, in order and
\* never one twice, whatever it misses.
HolderMirrors == HolderMirror!Spec

=============================================================================
