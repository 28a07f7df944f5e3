--------------------------- MODULE RawRelayProofs ---------------------------
(***************************************************************************)
(* Theorems about FrameHolder, for every set of viewers and pictures and   *)
(* however many frames are published; and about RawRelay: all that         *)
(* FrameHolder promises holds of it in the whole relay, and an answer is   *)
(* announced before it is shown, for every number of viewers, pages,       *)
(* frames and connections.                                                 *)
(***************************************************************************)
EXTENDS RawRelay, SequenceTheorems, TLAPS

-----------------------------------------------------------------------------
(* The holder                                                              *)

\* Where the publish under way is: it serves viewers who are still there, and
\* has a viewer in turn once that one's channel was found full.
InTurn ==
  /\ NoneServedIsGone
  /\ offering.phase = "next" <=> offering.now = "nobody"
  /\ offering.phase = "drained" => slot[offering.now] = 0

\* What a viewer has: nothing when it is gone; the waiting frame is newer than
\* the one in its hands, and that one newer than the one shown.
Rising ==
  \A v \in Viewers :
    /\ v \notin subscribed => slot[v] = 0 /\ hand[v] = 0 /\ shown[v] = 0
    /\ slot[v] # 0 => hand[v] < slot[v] /\ shown[v] < slot[v]
    /\ hand[v] # 0 => shown[v] < hand[v]

\* A viewer the publish under way has still to serve has older frames only, and
\* whoever was served has the newest.
Fresh ==
  \A v \in subscribed :
    IF v \in offering.to THEN slot[v] < Latest /\ hand[v] < Latest /\ shown[v] < Latest
                         ELSE Newest(v) = Latest

HolderInv == HolderTypeOK /\ InTurn /\ Rising /\ Fresh /\ LossesCounted

Record == [offered : Nat, replaced : Nat, seeded : Nat, taken : Nat]
Offering == [to : SUBSET Viewers, now : Viewers \cup {"nobody"},
             phase : {"next", "full", "drained"}]

LEMMA CountType ==
  ASSUME NEW n \in Record, NEW a \in Nat, NEW b \in Nat, NEW c \in Nat
  PROVE  /\ Count(n, a, b, c) \in Record
         /\ Count(n, a, b, c).offered = n.offered + a
         /\ Count(n, a, b, c).replaced = n.replaced + b
         /\ Count(n, a, b, c).seeded = n.seeded
         /\ Count(n, a, b, c).taken = n.taken + c
  BY DEF Record, Count

LEMMA InitHolds == HolderInit => HolderInv
<1> SUFFICES ASSUME HolderInit PROVE HolderInv
  OBVIOUS
<1>1. published \in Seq(Images) /\ Latest = 0
  BY DEF HolderInit, Latest
<1> QED
  BY <1>1 DEF HolderInit, HolderInv, HolderTypeOK, InTurn, NoneServedIsGone, Rising, Fresh,
              LossesCounted, NoOffer, ToServe

LEMMA PublishHolds ==
  ASSUME HolderInv, NEW image \in Images, Publish(image)
  PROVE  HolderInv'
<1> USE DEF HolderInv, Publish, loopVars, MuFree, NoOffer, ToServe
<1>1. /\ published' \in Seq(Images) /\ Latest' = Latest + 1
      /\ Latest \in Nat
  BY AppendProperties, LenProperties DEF HolderTypeOK, Latest
<1>2. HolderTypeOK'
  BY <1>1 DEF HolderTypeOK
<1>3. InTurn'
  BY DEF InTurn, NoneServedIsGone
<1>4. Rising'
  BY DEF Rising
<1>5. Fresh'
  BY <1>1 DEF Fresh, HolderTypeOK
<1>6. LossesCounted'
  BY DEF LossesCounted, Ahead
<1> QED
  BY <1>2, <1>3, <1>4, <1>5, <1>6

\* What an offer does to one viewer's counters keeps the books.
LEMMA BooksKept ==
  ASSUME HolderTypeOK, LossesCounted, NEW v \in Viewers,
         NEW a \in Nat, NEW b \in Nat, NEW c \in Nat,
         subscribed' = subscribed,
         counters' = [counters EXCEPT ![v] = Count(counters[v], a, b, c)],
         Ahead(v)' \in Nat, a + Ahead(v) <= b + c + Ahead(v)',
         \A w \in Viewers : w # v => Ahead(w)' = Ahead(w)
  PROVE  counters' \in [Viewers -> Record] /\ LossesCounted'
<1>1. counters \in [Viewers -> Record] /\ subscribed \subseteq Viewers
  BY DEF HolderTypeOK, Record
<1>2. counters[v] \in Record
  BY <1>1
<1>3. counters'[v] = Count(counters[v], a, b, c) /\ \A w \in Viewers : w # v => counters'[w] = counters[w]
  BY <1>1
<1>4. counters' \in [Viewers -> Record]
  BY <1>1, <1>2, CountType
<1>5. Ahead(v) \in Nat
  BY DEF Ahead
<1>6. ASSUME NEW w \in subscribed
      PROVE  (counters[w].seeded + counters[w].offered
                <= counters[w].taken + counters[w].replaced + Ahead(w))'
  <2>1. CASE w = v
    <3>1. counters[v].seeded + counters[v].offered
            <= counters[v].taken + counters[v].replaced + Ahead(v)
      BY <2>1 DEF LossesCounted
    <3>2. /\ counters'[v].offered = counters[v].offered + a
          /\ counters'[v].replaced = counters[v].replaced + b
          /\ counters'[v].seeded = counters[v].seeded
          /\ counters'[v].taken = counters[v].taken + c
      BY <1>3 DEF Count
    <3>3. /\ counters[v].seeded \in Nat /\ counters[v].offered \in Nat
          /\ counters[v].taken \in Nat /\ counters[v].replaced \in Nat
      BY <1>2 DEF Record
    <3>4. counters'[v].seeded + counters'[v].offered
            <= counters'[v].taken + counters'[v].replaced + Ahead(v)'
      BY <3>1, <3>2, <3>3, <1>5
    <3> QED
      BY <2>1, <3>4
  <2>2. CASE w # v
    BY <2>2, <1>1, <1>3 DEF LossesCounted
  <2> QED
    BY <2>1, <2>2
<1> QED
  BY <1>4, <1>6 DEF LossesCounted

LEMMA TryHolds ==
  ASSUME HolderInv, NEW v \in Viewers, OfferTry(v)
  PROVE  HolderInv'
<1>1. /\ HolderTypeOK /\ InTurn /\ Rising /\ Fresh /\ LossesCounted
      /\ Latest' = Latest /\ Latest \in Nat
      /\ v \in subscribed /\ v \in offering.to /\ v # "nobody"
      /\ offering.now = "nobody"
      /\ slot[v] < Latest /\ hand[v] < Latest /\ shown[v] < Latest
      /\ UNCHANGED <<published, subscribed, hand, shown>>
  BY LenProperties, ViewersAssumption
     DEF HolderInv, HolderTypeOK, InTurn, NoneServedIsGone, Latest, Fresh, OfferTry, loopVars
<1>2. /\ slot \in [Viewers -> 0..Latest] /\ hand \in [Viewers -> 0..Latest]
      /\ shown \in [Viewers -> 0..Latest] /\ Latest \in 0..Latest
      /\ offering \in Offering
  BY <1>1 DEF HolderTypeOK, Offering
<1>3. CASE slot[v] = 0
  <2>1. /\ offering' = [to |-> offering.to \ {v}, now |-> "nobody", phase |-> "next"]
        /\ slot' = [slot EXCEPT ![v] = Latest]
        /\ counters' = [counters EXCEPT ![v] = Count(counters[v], 1, 0, 0)]
    BY <1>3 DEF OfferTry, Served, ToServe
  <2>2. /\ slot' \in [Viewers -> 0..Latest] /\ slot'[v] = Latest
        /\ \A w \in Viewers : w # v => slot'[w] = slot[w]
    BY <2>1, <1>2
  <2>3. Ahead(v)' = 1 /\ 1 + Ahead(v) <= 0 + 0 + Ahead(v)' /\ \A w \in Viewers : w # v => Ahead(w)' = Ahead(w)
    BY <1>1, <1>2, <1>3, <2>1, <2>2, ViewersAssumption DEF Ahead
  <2>4. counters' \in [Viewers -> Record] /\ LossesCounted'
    BY <1>1, <2>1, <2>3, BooksKept, 0 \in Nat, 1 \in Nat
  <2>5. HolderTypeOK'
    BY <1>1, <1>2, <2>1, <2>2, <2>4 DEF HolderTypeOK, Record, Offering
  <2>6. InTurn'
    BY <1>1, <2>1 DEF InTurn, NoneServedIsGone
  <2>7. Rising'
    BY <1>1, <1>2, <2>2 DEF Rising
  <2>8. Fresh'
    BY <1>1, <1>2, <2>1, <2>2 DEF Fresh, Newest, HolderTypeOK
  <2> QED
    BY <2>4, <2>5, <2>6, <2>7, <2>8 DEF HolderInv
<1>4. CASE slot[v] # 0
  <2>1. /\ offering' = [to |-> offering.to, now |-> v, phase |-> "full"]
        /\ slot' = slot
        /\ counters' = [counters EXCEPT ![v] = Count(counters[v], 1, 1, 0)]
    BY <1>4 DEF OfferTry
  <2>2. Ahead(v)' = 1 /\ 1 + Ahead(v) <= 1 + 0 + Ahead(v)' /\ \A w \in Viewers : w # v => Ahead(w)' = Ahead(w)
    BY <1>1, <1>4, <2>1, ViewersAssumption DEF Ahead
  <2>3. counters' \in [Viewers -> Record] /\ LossesCounted'
    BY <1>1, <2>1, <2>2, BooksKept, 0 \in Nat, 1 \in Nat
  <2>4. HolderTypeOK'
    BY <1>1, <1>2, <2>1, <2>3 DEF HolderTypeOK, Record, Offering
  <2>5. InTurn'
    BY <1>1, <2>1 DEF InTurn, NoneServedIsGone
  <2>6. Rising'
    BY <1>1, <2>1 DEF Rising
  <2>7. Fresh'
    BY <1>1, <2>1 DEF Fresh, Newest
  <2> QED
    BY <2>3, <2>4, <2>5, <2>6, <2>7 DEF HolderInv
<1> QED
  BY <1>3, <1>4

LEMMA DrainHolds ==
  ASSUME HolderInv, NEW v \in Viewers, OfferDrain(v)
  PROVE  HolderInv'
<1>1. /\ HolderTypeOK /\ InTurn /\ Rising /\ Fresh /\ LossesCounted
      /\ Latest' = Latest /\ Latest \in Nat
      /\ v \in subscribed /\ v \in offering.to /\ v = offering.now /\ v # "nobody"
      /\ hand[v] < Latest /\ shown[v] < Latest
      /\ slot' = [slot EXCEPT ![v] = 0]
      /\ UNCHANGED <<published, subscribed, hand, shown, counters>>
  BY LenProperties, ViewersAssumption
     DEF HolderInv, HolderTypeOK, InTurn, NoneServedIsGone, Latest, Fresh, OfferDrain, loopVars
<1>2. /\ slot \in [Viewers -> 0..Latest] /\ hand \in [Viewers -> 0..Latest]
      /\ shown \in [Viewers -> 0..Latest] /\ 0 \in 0..Latest
      /\ offering \in Offering
  BY <1>1 DEF HolderTypeOK, Offering
<1>3. offering' = [to |-> offering.to, now |-> v, phase |-> "drained"]
  BY <1>1, <1>2 DEF OfferDrain, Offering
<1>4. /\ slot' \in [Viewers -> 0..Latest] /\ slot'[v] = 0
      /\ \A w \in Viewers : w # v => slot'[w] = slot[w]
  BY <1>1, <1>2
<1>5. \A w \in Viewers : Ahead(w)' = Ahead(w)
  BY <1>1, <1>2, <1>3, <1>4 DEF Ahead
<1>6. HolderTypeOK'
  BY <1>1, <1>2, <1>3, <1>4 DEF HolderTypeOK, Offering
<1>7. InTurn'
  BY <1>1, <1>3, <1>4 DEF InTurn, NoneServedIsGone
<1>8. Rising'
  BY <1>1, <1>2, <1>4 DEF Rising
<1>9. Fresh'
  BY <1>1, <1>2, <1>3, <1>4 DEF Fresh, Newest, HolderTypeOK
<1>10. LossesCounted'
  BY <1>1, <1>5 DEF LossesCounted, HolderTypeOK
<1> QED
  BY <1>6, <1>7, <1>8, <1>9, <1>10 DEF HolderInv

\* The channel is empty: it was drained, and only a publish fills it.
LEMMA PutHolds ==
  ASSUME HolderInv, NEW v \in Viewers, OfferPut(v)
  PROVE  HolderInv'
<1>1. /\ HolderTypeOK /\ InTurn /\ Rising /\ Fresh /\ LossesCounted
      /\ Latest' = Latest /\ Latest \in Nat
      /\ v \in subscribed /\ v \in offering.to /\ v = offering.now /\ v # "nobody"
      /\ slot[v] = 0 /\ hand[v] < Latest /\ shown[v] < Latest
      /\ UNCHANGED <<published, subscribed, hand, shown, counters>>
  BY LenProperties, ViewersAssumption
     DEF HolderInv, HolderTypeOK, InTurn, NoneServedIsGone, Latest, Fresh, OfferPut, loopVars
<1>2. /\ slot \in [Viewers -> 0..Latest] /\ hand \in [Viewers -> 0..Latest]
      /\ shown \in [Viewers -> 0..Latest] /\ Latest \in 0..Latest
      /\ offering \in Offering
  BY <1>1 DEF HolderTypeOK, Offering
<1>3. /\ offering' = [to |-> offering.to \ {v}, now |-> "nobody", phase |-> "next"]
      /\ slot' = [slot EXCEPT ![v] = Latest]
  BY <1>1 DEF OfferPut, Served, ToServe
<1>4. /\ slot' \in [Viewers -> 0..Latest] /\ slot'[v] = Latest
      /\ \A w \in Viewers : w # v => slot'[w] = slot[w]
  BY <1>2, <1>3
<1>5. \A w \in Viewers : Ahead(w)' = Ahead(w)
  BY <1>1, <1>2, <1>3, <1>4, ViewersAssumption DEF Ahead
<1>6. HolderTypeOK'
  BY <1>1, <1>2, <1>3, <1>4 DEF HolderTypeOK, Offering
<1>7. InTurn'
  BY <1>1, <1>3 DEF InTurn, NoneServedIsGone
<1>8. Rising'
  BY <1>1, <1>2, <1>4 DEF Rising
<1>9. Fresh'
  BY <1>1, <1>2, <1>3, <1>4 DEF Fresh, Newest, HolderTypeOK
<1>10. LossesCounted'
  BY <1>1, <1>5 DEF LossesCounted, HolderTypeOK
<1> QED
  BY <1>6, <1>7, <1>8, <1>9, <1>10 DEF HolderInv

LEMMA SubscribeHolds ==
  ASSUME HolderInv, NEW v \in Viewers, Subscribe(v)
  PROVE  HolderInv'
<1> DEFINE n == [offered |-> 0, replaced |-> 0,
                 seeded |-> IF Latest = 0 THEN 0 ELSE 1, taken |-> 0]
<1>1. /\ HolderTypeOK /\ InTurn /\ Rising /\ Fresh /\ LossesCounted
      /\ Latest' = Latest /\ Latest \in Nat
      /\ offering.to = {} /\ offering.now = "nobody" /\ v # "nobody" /\ v \notin subscribed
      /\ hand[v] = 0 /\ shown[v] = 0
      /\ subscribed' = subscribed \cup {v}
      /\ slot' = [slot EXCEPT ![v] = Latest]
      /\ counters' = [counters EXCEPT ![v] = n]
      /\ UNCHANGED <<published, offering, hand, shown>>
  BY LenProperties, ViewersAssumption
     DEF HolderInv, HolderTypeOK, Latest, Rising, Subscribe, MuFree, NoOffer, ToServe, loopVars
<1>2. /\ slot \in [Viewers -> 0..Latest] /\ hand \in [Viewers -> 0..Latest]
      /\ shown \in [Viewers -> 0..Latest] /\ Latest \in 0..Latest
      /\ counters \in [Viewers -> Record] /\ subscribed \subseteq Viewers
  BY <1>1 DEF HolderTypeOK, Record
<1>3. /\ slot' \in [Viewers -> 0..Latest] /\ slot'[v] = Latest
      /\ \A w \in Viewers : w # v => slot'[w] = slot[w]
  BY <1>1, <1>2
<1>4. n \in Record
  BY DEF Record
<1>5. /\ counters' \in [Viewers -> Record] /\ counters'[v] = n
      /\ \A w \in Viewers : w # v => counters'[w] = counters[w]
  BY <1>1, <1>2, <1>4
<1>6. /\ \A w \in Viewers : w # v => Ahead(w)' = Ahead(w)
      /\ Ahead(v)' = IF Latest = 0 THEN 0 ELSE 1
  BY <1>1, <1>2, <1>3 DEF Ahead
<1>7. HolderTypeOK'
  BY <1>1, <1>2, <1>3, <1>5 DEF HolderTypeOK, Record
<1>8. InTurn'
  <2>1. offering.phase = "next"
    BY <1>1 DEF InTurn
  <2> QED
    BY <1>1, <2>1 DEF InTurn, NoneServedIsGone
<1>9. Rising'
  BY <1>1, <1>2, <1>3 DEF Rising
<1>10. Fresh'
  BY <1>1, <1>2, <1>3 DEF Fresh, Newest
<1>11. LossesCounted'
  <2>1. (counters[v].seeded + counters[v].offered
           <= counters[v].taken + counters[v].replaced + Ahead(v))'
    BY <1>1, <1>5, <1>6
  <2>2. ASSUME NEW w \in subscribed
        PROVE  (counters[w].seeded + counters[w].offered
                  <= counters[w].taken + counters[w].replaced + Ahead(w))'
    BY <1>1, <1>2, <1>5, <1>6 DEF LossesCounted
  <2> QED
    BY <1>1, <2>1, <2>2 DEF LossesCounted
<1> QED
  BY <1>7, <1>8, <1>9, <1>10, <1>11 DEF HolderInv

LEMMA TakeHolds ==
  ASSUME HolderInv, NEW v \in Viewers, Take(v)
  PROVE  HolderInv'
<1>1. /\ HolderTypeOK /\ InTurn /\ Rising /\ Fresh /\ LossesCounted
      /\ Latest' = Latest /\ Latest \in Nat
      /\ v \in subscribed /\ hand[v] = 0 /\ slot[v] # 0
      /\ hand' = [hand EXCEPT ![v] = slot[v]] /\ slot' = [slot EXCEPT ![v] = 0]
      /\ counters' = [counters EXCEPT ![v] = Count(counters[v], 0, 0, 1)]
      /\ UNCHANGED <<published, offering, subscribed, shown>>
  BY LenProperties DEF HolderInv, HolderTypeOK, Latest, Take
<1>2. /\ slot \in [Viewers -> 0..Latest] /\ hand \in [Viewers -> 0..Latest]
      /\ shown \in [Viewers -> 0..Latest] /\ 0 \in 0..Latest
      /\ offering \in Offering
  BY <1>1 DEF HolderTypeOK, Offering
<1>3. /\ slot' \in [Viewers -> 0..Latest] /\ hand' \in [Viewers -> 0..Latest]
      /\ slot'[v] = 0 /\ hand'[v] = slot[v]
      /\ \A w \in Viewers : w # v => slot'[w] = slot[w] /\ hand'[w] = hand[w]
  BY <1>1, <1>2
<1>4. /\ Ahead(v)' \in Nat /\ 0 + Ahead(v) <= 0 + 1 + Ahead(v)'
      /\ \A w \in Viewers : w # v => Ahead(w)' = Ahead(w)
  BY <1>1, <1>3 DEF Ahead
<1>5. counters' \in [Viewers -> Record] /\ LossesCounted'
  BY <1>1, <1>4, BooksKept, 0 \in Nat, 1 \in Nat
<1>6. HolderTypeOK'
  BY <1>1, <1>2, <1>3, <1>5 DEF HolderTypeOK, Record
<1>7. InTurn'
  BY <1>1, <1>2, <1>3 DEF InTurn, NoneServedIsGone, Offering
<1>8. Rising'
  BY <1>1, <1>2, <1>3 DEF Rising
<1>9. Fresh'
  <2>1. CASE v \in offering.to
    <3>1. slot[v] < Latest /\ shown[v] < Latest /\ 0 < Latest
      BY <1>1, <1>2, <2>1 DEF Fresh
    <3> QED
      BY <1>1, <1>2, <1>3, <2>1, <3>1 DEF Fresh, Newest, HolderTypeOK
  <2>2. CASE v \notin offering.to
    <3>1. slot[v] = Latest
      BY <1>1, <2>2 DEF Fresh, Newest
    <3> QED
      BY <1>1, <1>2, <1>3, <2>2, <3>1 DEF Fresh, Newest, HolderTypeOK
  <2> QED
    BY <2>1, <2>2
<1> QED
  BY <1>5, <1>6, <1>7, <1>8, <1>9 DEF HolderInv

LEMMA WriteHolds ==
  ASSUME HolderInv, NEW v \in Viewers, Write(v)
  PROVE  HolderInv'
<1>1. /\ HolderTypeOK /\ InTurn /\ Rising /\ Fresh /\ LossesCounted
      /\ Latest' = Latest /\ Latest \in Nat
      /\ hand[v] # 0
      /\ shown' = [shown EXCEPT ![v] = hand[v]] /\ hand' = [hand EXCEPT ![v] = 0]
      /\ UNCHANGED <<published, offering, subscribed, slot, counters>>
  BY LenProperties DEF HolderInv, HolderTypeOK, Latest, Write
<1>2. /\ slot \in [Viewers -> 0..Latest] /\ hand \in [Viewers -> 0..Latest]
      /\ shown \in [Viewers -> 0..Latest] /\ 0 \in 0..Latest
      /\ v \in subscribed
  BY <1>1 DEF HolderTypeOK, Rising
<1>3. /\ shown' \in [Viewers -> 0..Latest] /\ hand' \in [Viewers -> 0..Latest]
      /\ hand'[v] = 0 /\ shown'[v] = hand[v]
      /\ \A w \in Viewers : w # v => shown'[w] = shown[w] /\ hand'[w] = hand[w]
  BY <1>1, <1>2
<1>4. HolderTypeOK'
  BY <1>1, <1>3 DEF HolderTypeOK
<1>5. InTurn'
  BY <1>1 DEF InTurn, NoneServedIsGone
<1>6. Rising'
  BY <1>1, <1>2, <1>3 DEF Rising
<1>7. Fresh'
  <2>1. CASE v \in offering.to
    <3>1. slot[v] < Latest /\ hand[v] < Latest /\ 0 < Latest
      BY <1>1, <1>2, <2>1 DEF Fresh
    <3> QED
      BY <1>1, <1>2, <1>3, <2>1, <3>1 DEF Fresh, Newest, HolderTypeOK
  <2>2. CASE v \notin offering.to
    <3>1. IF slot[v] # 0 THEN slot[v] = Latest ELSE hand[v] = Latest
      BY <1>1, <1>2, <2>2 DEF Fresh, Newest
    <3> QED
      BY <1>1, <1>2, <1>3, <2>2, <3>1 DEF Fresh, Newest, HolderTypeOK
  <2> QED
    BY <2>1, <2>2
<1>8. LossesCounted'
  BY <1>1 DEF LossesCounted, Ahead
<1> QED
  BY <1>4, <1>5, <1>6, <1>7, <1>8 DEF HolderInv

LEMMA UnsubscribeHolds ==
  ASSUME HolderInv, NEW v \in Viewers, Unsubscribe(v)
  PROVE  HolderInv'
<1>1. /\ HolderTypeOK /\ InTurn /\ Rising /\ Fresh /\ LossesCounted
      /\ Latest' = Latest /\ Latest \in Nat
      /\ offering.to = {} /\ offering.now = "nobody"
      /\ subscribed' = subscribed \ {v}
      /\ slot' = [slot EXCEPT ![v] = 0]
      /\ hand' = [hand EXCEPT ![v] = 0] /\ shown' = [shown EXCEPT ![v] = 0]
      /\ UNCHANGED <<published, offering, counters>>
  BY LenProperties
     DEF HolderInv, HolderTypeOK, Latest, Unsubscribe, MuFree, NoOffer, ToServe
<1>2. /\ slot \in [Viewers -> 0..Latest] /\ hand \in [Viewers -> 0..Latest]
      /\ shown \in [Viewers -> 0..Latest] /\ 0 \in 0..Latest
  BY <1>1 DEF HolderTypeOK
<1>3. /\ slot' \in [Viewers -> 0..Latest] /\ hand' \in [Viewers -> 0..Latest]
      /\ shown' \in [Viewers -> 0..Latest]
      /\ slot'[v] = 0 /\ hand'[v] = 0 /\ shown'[v] = 0
      /\ \A w \in Viewers : w # v =>
           slot'[w] = slot[w] /\ hand'[w] = hand[w] /\ shown'[w] = shown[w]
  BY <1>1, <1>2
<1>4. HolderTypeOK'
  BY <1>1, <1>3 DEF HolderTypeOK
<1>5. InTurn'
  <2>1. offering.phase = "next"
    BY <1>1 DEF InTurn
  <2> QED
    BY <1>1, <2>1 DEF InTurn, NoneServedIsGone
<1>6. Rising'
  BY <1>1, <1>2, <1>3 DEF Rising
<1>7. Fresh'
  BY <1>1, <1>2, <1>3 DEF Fresh, Newest, HolderTypeOK
<1>8. LossesCounted'
  BY <1>1, <1>3 DEF LossesCounted, Ahead, HolderTypeOK
<1> QED
  BY <1>4, <1>5, <1>6, <1>7, <1>8 DEF HolderInv

LEMMA StepHolds == HolderInv /\ [HolderNext]_holderVars => HolderInv'
<1> SUFFICES ASSUME HolderInv, [HolderNext]_holderVars PROVE HolderInv'
  OBVIOUS
<1>1. CASE \E image \in Images : Publish(image)
  BY <1>1, PublishHolds
<1>2. ASSUME NEW v \in Viewers, Offer(v) PROVE HolderInv'
  BY <1>2, TryHolds, DrainHolds, PutHolds DEF Offer
<1>3. ASSUME NEW v \in Viewers, Subscribe(v) \/ Take(v) \/ Write(v) \/ Unsubscribe(v)
      PROVE  HolderInv'
  BY <1>3, SubscribeHolds, TakeHolds, WriteHolds, UnsubscribeHolds
<1>4. CASE UNCHANGED holderVars
  BY <1>4 DEF holderVars, HolderInv, HolderTypeOK, InTurn, NoneServedIsGone, Rising, Fresh,
              LossesCounted, Ahead, Newest, Latest
<1> QED
  BY <1>1, <1>2, <1>3, <1>4 DEF HolderNext

-----------------------------------------------------------------------------
(* Theorems                                                                *)

\* The invariant the others follow from: what PublishStamped, offer and the
\* viewers' loops keep true between any two channel operations.
THEOREM HolderCorrect == HolderSpec => []HolderInv
  BY InitHolds, StepHolds, PTL DEF HolderSpec

\* The types of FrameHolder's variables.
THEOREM HolderTypeCorrect == HolderSpec => []HolderTypeOK
<1>1. HolderInv => HolderTypeOK
  BY DEF HolderInv
<1> QED
  BY <1>1, HolderCorrect, PTL

\* However many viewers there are and however they are scheduled, each of them
\* has the newest frame when a publish is through: what offer throws away is
\* never the newest, and its second select never fails.
THEOREM NewestAlwaysKept == HolderSpec => []NewestKept
<1>1. HolderInv => NewestKept
  BY DEF HolderInv, Fresh, NewestKept, MuFree, NoOffer, ToServe
<1> QED
  BY <1>1, HolderCorrect, PTL

\* No frame is lost to a viewer that the counters of offer do not show.
THEOREM LossesAlwaysCounted == HolderSpec => []LossesCounted
<1>1. HolderInv => LossesCounted
  BY DEF HolderInv
<1> QED
  BY <1>1, HolderCorrect, PTL

\* No frame is sent on the channel Unsubscribe has closed.
THEOREM NoneServedIsEverGone == HolderSpec => []NoneServedIsGone
<1>1. HolderInv => NoneServedIsGone
  BY DEF HolderInv, InTurn
<1> QED
  BY <1>1, HolderCorrect, PTL

-----------------------------------------------------------------------------
(* The refinement                                                          *)

LEMMA InitMirrors == HolderInit => HolderMirror!Init
  BY DEF HolderInit, HolderMirror!Init, At, View

LEMMA StepMirrors ==
  ASSUME HolderInv, [HolderNext]_holderVars
  PROVE  [HolderMirror!Next]_<<published, At, View>>
<1>1. /\ published \in Seq(Images) /\ Len(published) \in Nat /\ Latest = Len(published)
      /\ shown \in [Viewers -> 0..Latest] /\ hand \in [Viewers -> 0..Latest]
      /\ Rising
  BY LenProperties DEF HolderInv, HolderTypeOK, Latest
<1>2. ASSUME NEW image \in Images, Publish(image)
      PROVE  HolderMirror!Publish
  <2>1. published' = Append(published, image) /\ shown' = shown
    BY <1>2 DEF Publish, loopVars
  <2>2. \A n \in 1..Len(published) : published'[n] = published[n]
    BY <1>1, <2>1, AppendProperties
  <2>3. View' = View
    BY <1>1, <2>1, <2>2 DEF View
  <2> QED
    BY <2>1, <2>3 DEF HolderMirror!Publish, At
<1>3. ASSUME NEW v \in Viewers, Write(v)
      PROVE  HolderMirror!Show(v)
  <2>1. /\ hand[v] \in shown[v] + 1..Len(published) /\ hand[v] \in 1..Len(published)
        /\ shown[v] \in Nat
    BY <1>1, <1>3 DEF Write, Rising
  <2>2. shown' = [shown EXCEPT ![v] = hand[v]] /\ published' = published
    BY <1>3 DEF Write
  <2>3. View' = [View EXCEPT ![v] = published[hand[v]]]
    <3>1. /\ shown'[v] = hand[v] /\ hand[v] # 0
          /\ \A w \in Viewers : w # v => shown'[w] = shown[w]
      BY <1>1, <1>3, <2>2 DEF Write
    <3>2. \A w \in Viewers : View'[w] = IF w = v THEN published[hand[v]] ELSE View[w]
      BY <2>2, <3>1 DEF View
    <3>3. View' = [w \in Viewers |-> View'[w]] /\ View = [w \in Viewers |-> View[w]]
      BY DEF View
    <3> QED
      BY <3>2, <3>3
  <2>4. HolderMirror!Step(v, hand[v], published[hand[v]])
    BY <2>1, <2>2, <2>3 DEF HolderMirror!Step, At
  <2> QED
    BY <2>1, <2>4 DEF HolderMirror!Show
<1>4. ASSUME NEW v \in Viewers, Unsubscribe(v)
      PROVE  HolderMirror!Leave(v)
  <2>1. shown' = [shown EXCEPT ![v] = 0] /\ published' = published
    BY <1>4 DEF Unsubscribe
  <2>2. View' = [View EXCEPT ![v] = <<>>]
    BY <1>1, <2>1 DEF View
  <2> QED
    BY <2>1, <2>2 DEF HolderMirror!Leave, At
<1>5. ASSUME NEW v \in Viewers, Offer(v) \/ Subscribe(v) \/ Take(v)
      PROVE  UNCHANGED <<published, At, View>>
  <2>1. UNCHANGED <<published, shown>>
    BY <1>5 DEF Offer, OfferTry, OfferDrain, OfferPut, Subscribe, Take, loopVars
  <2> QED
    BY <2>1 DEF At, View
<1>6. CASE UNCHANGED holderVars
  BY <1>6 DEF holderVars, At, View
<1> QED
  BY <1>2, <1>3, <1>4, <1>5, <1>6 DEF HolderNext, HolderMirror!Next

\* The FrameHolder with its viewers implements the screen mirror: every viewer
\* is written published frames in their order, and none of them twice.
THEOREM HolderIsAMirror == HolderSpec => HolderMirrors
<1>1. HolderInv /\ [HolderNext]_holderVars => [HolderMirror!Next]_<<published, At, View>>
  BY StepMirrors
<1> QED
  BY <1>1, InitMirrors, HolderCorrect, PTL
     DEF HolderSpec, HolderMirrors, HolderMirror!Spec

-----------------------------------------------------------------------------
(* The relay as a FrameHolder                                              *)

LEMMA RelayStepHolds == [Next]_vars => [HolderNext]_holderVars
<1> SUFFICES ASSUME [Next]_vars PROVE [HolderNext]_holderVars
  OBVIOUS
<1>1. CASE ServeBegin \/ Accept \/ Register \/ ReadFails \/ CloseBegin \/ CloseEnd
  BY <1>1 DEF ServeBegin, Accept, Register, ReadFails, CloseBegin, CloseEnd
<1>2. CASE ReadFrame
  BY <1>2 DEF ReadFrame, HolderNext
<1>3. ASSUME NEW k \in alive, Drop(k) PROVE UNCHANGED holderVars
  BY <1>3 DEF Drop
<1>4. ASSUME NEW v \in Viewers, Attach(v) \/ OfferTo(v) \/ Receive(v) \/ Show(v) \/ Detach(v)
      PROVE  HolderNext
  BY <1>4 DEF Attach, OfferTo, Receive, Show, Detach, HolderNext
<1>5. ASSUME NEW v \in Viewers, NEW s \in Sockets, Tell(v, s)
      PROVE  UNCHANGED holderVars
  BY <1>5 DEF Tell
<1>6. ASSUME NEW v \in Viewers, Gather(v) PROVE UNCHANGED holderVars
  BY <1>6 DEF Gather
<1>7. ASSUME NEW s \in Sockets,
             OpenSocket(s) \/ DeadlinePasses(s) \/ StatusTick(s) \/ CloseSocket(s)
      PROVE  UNCHANGED holderVars
  BY <1>7 DEF OpenSocket, DeadlinePasses, StatusTick, CloseSocket
<1>8. CASE UNCHANGED vars
  BY <1>8 DEF vars
<1> QED
  BY <1>1, <1>2, <1>3, <1>4, <1>5, <1>6, <1>7, <1>8 DEF Next

\* Links that come and go, closing and echoes touch the holder only through its
\* own operations.
THEOREM RelayIsAHolder == Spec => HolderSpec
<1>1. Init => HolderInit
  BY DEF Init
<1> QED
  BY <1>1, RelayStepHolds, PTL DEF Spec, HolderSpec

\* What the raw path shows its viewers is the game's pictures, in their order.
THEOREM RelayIsAMirror == Spec => HolderMirrors
  BY RelayIsAHolder, HolderIsAMirror, PTL

-----------------------------------------------------------------------------
(* Announcements                                                           *)

EchoTypeOK ==
  /\ socket \subseteq Sockets
  /\ heard \in [Sockets -> SUBSET Nat]
  /\ since \in [Sockets -> Nat]
  /\ echo \in [Viewers -> [phase : {"none", "gather", "tell"}, to : SUBSET Sockets]]

\* A loop that is not echoing holds no answer, and one that has gathered the
\* sockets has told all that were there but those it still has to.
InStep ==
  \A v \in Viewers :
    /\ echo[v].phase = "none" => hand[v] = 0 \/ published[hand[v]] \notin Stamped
    /\ echo[v].phase # "tell" => echo[v].to = {}
    /\ echo[v].phase = "tell" =>
         \A s \in socket \ echo[v].to : hand[v] > since[s] => hand[v] \in heard[s]

EchoInv == EchoTypeOK /\ InStep /\ AnnouncedFirst

LEMMA EchoInit == Init => EchoInv
<1> SUFFICES ASSUME Init PROVE EchoInv
  OBVIOUS
<1>1. EchoTypeOK
  BY DEF Init, EchoTypeOK, NotEchoing, Echoing
<1>2. InStep
  BY DEF Init, HolderInit, InStep, NotEchoing, Echoing
<1>3. AnnouncedFirst
  BY DEF Init, AnnouncedFirst
<1> QED
  BY <1>1, <1>2, <1>3 DEF EchoInv

\* Frames that were published keep their pictures.
LEMMA PublishedKept ==
  ASSUME HolderInv, [HolderNext]_holderVars
  PROVE  \A n \in 1..Latest : published'[n] = published[n]
<1>1. published \in Seq(Images)
  BY DEF HolderInv, HolderTypeOK
<1>2. ASSUME NEW image \in Images, Publish(image)
      PROVE  \A n \in 1..Latest : published'[n] = published[n]
  BY <1>1, <1>2, AppendProperties DEF Publish, Latest
<1>3. ASSUME NEW v \in Viewers,
             Offer(v) \/ Subscribe(v) \/ Take(v) \/ Write(v) \/ Unsubscribe(v)
      PROVE  published' = published
  BY <1>3 DEF Offer, OfferTry, OfferDrain, OfferPut, Subscribe, Take, Write, Unsubscribe
<1>4. CASE UNCHANGED holderVars
  BY <1>4 DEF holderVars
<1> QED
  BY <1>2, <1>3, <1>4 DEF HolderNext

\* What every step starts from.
Before ==
  /\ HolderInv /\ EchoInv
  /\ Latest \in Nat
  /\ hand \in [Viewers -> 0..Latest] /\ shown \in [Viewers -> 0..Latest]
  /\ \A n \in 1..Latest : published'[n] = published[n]

LEMMA NothingSaid ==
  ASSUME Before, UNCHANGED <<hand, shown, echo, socket, heard, since>>
  PROVE  EchoInv'
<1>1. EchoTypeOK'
  BY DEF Before, EchoInv, EchoTypeOK
<1>2. InStep'
  <2>1. \A v \in Viewers : hand[v] # 0 => published'[hand[v]] = published[hand[v]]
    BY DEF Before
  <2> QED
    BY <2>1 DEF Before, EchoInv, InStep
<1>3. AnnouncedFirst'
  <2>1. \A v \in Viewers, s \in socket : since[s] \in Nat /\ shown[v] \in 0..Latest
    BY DEF Before, EchoInv, EchoTypeOK
  <2>2. \A v \in Viewers, s \in socket :
          shown[v] > since[s] => published'[shown[v]] = published[shown[v]]
    BY <2>1 DEF Before
  <2> QED
    BY <2>2 DEF Before, EchoInv, AnnouncedFirst
<1> QED
  BY <1>1, <1>2, <1>3 DEF EchoInv

LEMMA ReceiveSays ==
  ASSUME Before, NEW v \in Viewers, Receive(v)
  PROVE  EchoInv'
<1>1. /\ hand' = [hand EXCEPT ![v] = slot[v]] /\ slot[v] \in 1..Latest
      /\ UNCHANGED <<published, shown, socket, heard, since>>
  BY DEF Receive, Take, socketVars, Before, HolderInv, HolderTypeOK
<1>2. hand'[v] = slot[v] /\ \A w \in Viewers : w # v => hand'[w] = hand[w]
  BY <1>1 DEF Before
<1>3. CASE published[slot[v]] \in Stamped
  <2>1. echo' = [echo EXCEPT ![v] = Echoing("gather", {})]
    BY <1>3 DEF Receive
  <2>2. Echoing("gather", {}) \in [phase : {"none", "gather", "tell"}, to : SUBSET Sockets]
    BY DEF Echoing
  <2>3. EchoTypeOK'
    BY <1>1, <2>1, <2>2 DEF Before, EchoInv, EchoTypeOK
  <2>4. echo'[v].phase = "gather" /\ echo'[v].to = {} /\ \A w \in Viewers : w # v => echo'[w] = echo[w]
    BY <2>1 DEF Before, EchoInv, EchoTypeOK, Echoing
  <2>5. InStep'
    BY <1>1, <1>2, <2>4 DEF Before, EchoInv, InStep
  <2> QED
    BY <1>1, <2>3, <2>5 DEF Before, EchoInv, AnnouncedFirst
<1>4. CASE published[slot[v]] \notin Stamped
  <2>1. echo' = [echo EXCEPT ![v] = NotEchoing]
    BY <1>4 DEF Receive
  <2>2. NotEchoing \in [phase : {"none", "gather", "tell"}, to : SUBSET Sockets]
    BY DEF NotEchoing, Echoing
  <2>3. EchoTypeOK'
    BY <1>1, <2>1, <2>2 DEF Before, EchoInv, EchoTypeOK
  <2>4. echo'[v].phase = "none" /\ echo'[v].to = {} /\ \A w \in Viewers : w # v => echo'[w] = echo[w]
    BY <2>1 DEF Before, EchoInv, EchoTypeOK, NotEchoing, Echoing
  <2>5. InStep'
    BY <1>1, <1>2, <1>4, <2>4 DEF Before, EchoInv, InStep
  <2> QED
    BY <1>1, <2>3, <2>5 DEF Before, EchoInv, AnnouncedFirst
<1> QED
  BY <1>3, <1>4

LEMMA GatherSays ==
  ASSUME Before, NEW v \in Viewers, Gather(v)
  PROVE  EchoInv'
<1>1. /\ echo' = [echo EXCEPT ![v] = Echoing("tell", socket)]
      /\ UNCHANGED <<published, hand, shown, socket, heard, since>>
  BY DEF Gather, holderVars, socketVars
<1>2. Echoing("tell", socket) \in [phase : {"none", "gather", "tell"}, to : SUBSET Sockets]
  BY DEF Echoing, Before, EchoInv, EchoTypeOK
<1>3. EchoTypeOK'
  BY <1>1, <1>2 DEF Before, EchoInv, EchoTypeOK
<1>4. echo'[v].phase = "tell" /\ echo'[v].to = socket /\ \A w \in Viewers : w # v => echo'[w] = echo[w]
  BY <1>1 DEF Before, EchoInv, EchoTypeOK, Echoing
<1>5. InStep'
  BY <1>1, <1>4 DEF Before, EchoInv, InStep
<1> QED
  BY <1>1, <1>3, <1>5 DEF Before, EchoInv, AnnouncedFirst

LEMMA TellSays ==
  ASSUME Before, NEW v \in Viewers, NEW s \in Sockets, Tell(v, s)
  PROVE  EchoInv'
<1>1. /\ echo' = [echo EXCEPT ![v] = Echoing("tell", echo[v].to \ {s})]
      /\ echo[v].phase = "tell"
      /\ UNCHANGED <<published, hand, shown, socket, since>>
      /\ heard' = IF s \in socket THEN [heard EXCEPT ![s] = heard[s] \cup {hand[v]}] ELSE heard
  BY DEF Tell, holderVars
<1>2. /\ heard' \in [Sockets -> SUBSET Nat]
      /\ \A r \in Sockets : heard[r] \subseteq heard'[r]
      /\ s \in socket => hand[v] \in heard'[s]
  BY <1>1 DEF Before, EchoInv, EchoTypeOK
<1>3. Echoing("tell", echo[v].to \ {s}) \in [phase : {"none", "gather", "tell"}, to : SUBSET Sockets]
  BY DEF Echoing, Before, EchoInv, EchoTypeOK
<1>4. EchoTypeOK'
  BY <1>1, <1>2, <1>3 DEF Before, EchoInv, EchoTypeOK
<1>5. /\ echo'[v].phase = "tell" /\ echo'[v].to = echo[v].to \ {s}
      /\ \A w \in Viewers : w # v => echo'[w] = echo[w]
  BY <1>1 DEF Before, EchoInv, EchoTypeOK, Echoing
<1>6. socket \subseteq Sockets
  BY DEF Before, EchoInv, EchoTypeOK
<1>7. InStep'
  BY <1>1, <1>2, <1>5, <1>6 DEF Before, EchoInv, InStep
<1>8. AnnouncedFirst'
  BY <1>1, <1>2, <1>6 DEF Before, EchoInv, AnnouncedFirst
<1> QED
  BY <1>4, <1>7, <1>8 DEF EchoInv

\* The loop goes on to show the frame once all sockets it gathered were told.
LEMMA ShowSays ==
  ASSUME Before, NEW v \in Viewers, Show(v) \/ Detach(v)
  PROVE  EchoInv'
<1>1. /\ echo[v].phase # "gather" /\ echo[v].to = {}
      /\ hand' = [hand EXCEPT ![v] = 0]
      /\ echo' = [echo EXCEPT ![v] = NotEchoing]
      /\ UNCHANGED <<published, socket, heard, since>>
      /\ \/ hand[v] # 0 /\ shown' = [shown EXCEPT ![v] = hand[v]]
         \/ shown' = [shown EXCEPT ![v] = 0]
  BY DEF Show, Detach, Write, Unsubscribe, socketVars
<1>2. hand'[v] = 0 /\ \A w \in Viewers : w # v => hand'[w] = hand[w] /\ shown'[w] = shown[w]
  BY <1>1 DEF Before
<1>3. NotEchoing \in [phase : {"none", "gather", "tell"}, to : SUBSET Sockets]
  BY DEF NotEchoing, Echoing
<1>4. EchoTypeOK'
  BY <1>1, <1>3 DEF Before, EchoInv, EchoTypeOK
<1>5. echo'[v].phase = "none" /\ echo'[v].to = {} /\ \A w \in Viewers : w # v => echo'[w] = echo[w]
  BY <1>1 DEF Before, EchoInv, EchoTypeOK, NotEchoing, Echoing
<1>6. InStep'
  BY <1>1, <1>2, <1>5 DEF Before, EchoInv, InStep
<1>7. \A s \in socket : hand[v] # 0 /\ hand[v] > since[s] /\ published[hand[v]] \in Stamped
        => hand[v] \in heard[s]
  BY <1>1 DEF Before, EchoInv, EchoTypeOK, InStep
<1>8. AnnouncedFirst'
  <2>1. ASSUME NEW s \in socket
        PROVE  (shown[v] > since[s] /\ published[shown[v]] \in Stamped => shown[v] \in heard[s])'
    <3>1. since[s] \in Nat /\ since'[s] = since[s] /\ heard' = heard /\ published' = published
      BY <1>1 DEF Before, EchoInv, EchoTypeOK
    <3>2. CASE hand[v] # 0 /\ shown'[v] = hand[v]
      BY <3>1, <3>2, <1>7
    <3>3. CASE shown'[v] = 0
      BY <3>1, <3>3
    <3> QED
      BY <1>1, <3>2, <3>3 DEF Before
  <2>2. ASSUME NEW w \in Viewers, w # v, NEW s \in socket
        PROVE  (shown[w] > since[s] /\ published[shown[w]] \in Stamped => shown[w] \in heard[s])'
    BY <1>1, <1>2, <2>2 DEF Before, EchoInv, AnnouncedFirst
  <2> QED
    BY <1>1, <2>1, <2>2 DEF AnnouncedFirst
<1> QED
  BY <1>4, <1>6, <1>8 DEF EchoInv

\* A page that comes was there for none of the frames published so far.
LEMMA OpenSays ==
  ASSUME Before, NEW s \in Sockets, OpenSocket(s)
  PROVE  EchoInv'
<1>1. /\ socket' = socket \cup {s}
      /\ heard' = [heard EXCEPT ![s] = {}] /\ since' = [since EXCEPT ![s] = Latest]
      /\ UNCHANGED <<published, hand, shown, echo>>
  BY DEF OpenSocket, holderVars
<1>2. EchoTypeOK'
  BY <1>1 DEF Before, EchoInv, EchoTypeOK
<1>3. /\ since'[s] = Latest
      /\ \A r \in Sockets : r # s => since'[r] = since[r] /\ heard'[r] = heard[r]
      /\ socket \subseteq Sockets
  BY <1>1 DEF Before, EchoInv, EchoTypeOK
<1>4. \A v \in Viewers : ~ (hand[v] > Latest) /\ ~ (shown[v] > Latest)
  BY DEF Before
<1>5. InStep'
  BY <1>1, <1>3, <1>4 DEF Before, EchoInv, InStep
<1>6. AnnouncedFirst'
  BY <1>1, <1>3, <1>4 DEF Before, EchoInv, AnnouncedFirst
<1> QED
  BY <1>2, <1>5, <1>6 DEF EchoInv

LEMMA CloseSays ==
  ASSUME Before, NEW s \in Sockets, CloseSocket(s)
  PROVE  EchoInv'
<1>1. /\ socket' = socket \ {s}
      /\ UNCHANGED <<published, hand, shown, echo, heard, since>>
  BY DEF CloseSocket, holderVars
<1> QED
  BY <1>1 DEF Before, EchoInv, EchoTypeOK, InStep, AnnouncedFirst

LEMMA EchoStep == HolderInv /\ EchoInv /\ [Next]_vars => EchoInv'
<1> SUFFICES ASSUME HolderInv, EchoInv, [Next]_vars PROVE EchoInv'
  OBVIOUS
<1>1. Before
  <2>1. Latest \in Nat /\ \A n \in 1..Latest : published'[n] = published[n]
    BY RelayStepHolds, PublishedKept, LenProperties DEF HolderInv, HolderTypeOK, Latest
  <2> QED
    BY <2>1 DEF Before, HolderInv, HolderTypeOK
<1>2. CASE ServeBegin \/ Accept \/ Register \/ ReadFrame \/ ReadFails \/ CloseBegin \/ CloseEnd
  <2>1. UNCHANGED <<hand, shown, echo, socket, heard, since>>
    BY <1>2 DEF ServeBegin, Accept, Register, ReadFrame, Publish, ReadFails, CloseBegin, CloseEnd,
                holderVars, loopVars, socketVars
  <2> QED
    BY <1>1, <2>1, NothingSaid
<1>3. ASSUME NEW k \in alive, Drop(k) PROVE EchoInv'
  BY <1>1, <1>3, NothingSaid DEF Drop, holderVars, socketVars
<1>4. ASSUME NEW v \in Viewers, Attach(v) \/ OfferTo(v) PROVE EchoInv'
  <2>1. UNCHANGED <<hand, shown, echo, socket, heard, since>>
    BY <1>4 DEF Attach, Subscribe, OfferTo, Offer, OfferTry, OfferDrain, OfferPut,
                loopVars, socketVars
  <2> QED
    BY <1>1, <2>1, NothingSaid
<1>5. ASSUME NEW v \in Viewers, Receive(v) \/ Gather(v) \/ Show(v) \/ Detach(v) PROVE EchoInv'
  BY <1>1, <1>5, ReceiveSays, GatherSays, ShowSays
<1>6. ASSUME NEW v \in Viewers, NEW s \in Sockets, Tell(v, s) PROVE EchoInv'
  BY <1>1, <1>6, TellSays
<1>7. ASSUME NEW s \in Sockets, DeadlinePasses(s) \/ StatusTick(s) PROVE EchoInv'
  BY <1>1, <1>7, NothingSaid DEF DeadlinePasses, StatusTick, holderVars
<1>8. ASSUME NEW s \in Sockets, OpenSocket(s) \/ CloseSocket(s) PROVE EchoInv'
  BY <1>1, <1>8, OpenSays, CloseSays
<1>9. CASE UNCHANGED vars
  BY <1>1, <1>9, NothingSaid DEF vars, holderVars, socketVars
<1> QED
  BY <1>2, <1>3, <1>4, <1>5, <1>6, <1>7, <1>8, <1>9 DEF Next

\* Whatever pages come and go while a loop echoes, no page is shown an answer it
\* was not told of, or for which its echo was not dropped.
THEOREM AlwaysAnnouncedFirst == Spec => []AnnouncedFirst
<1>1. EchoInv => AnnouncedFirst
  BY DEF EchoInv
<1>2. Spec => []HolderInv
  BY RelayIsAHolder, HolderCorrect, PTL
<1> QED
  BY <1>1, <1>2, EchoInit, EchoStep, PTL DEF Spec

=============================================================================
