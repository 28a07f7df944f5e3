------------------------- MODULE PictureDeliveryProofs -------------------------
(***************************************************************************)
(* What PictureDelivery promises for every number of pictures, every size  *)
(* of picture, budget, reserve and atlas.                                  *)
(***************************************************************************)
EXTENDS PictureDelivery, SequenceFacts

-----------------------------------------------------------------------------
(* Types.                                                                  *)

Whole(p) == 0..(ChunksOf[p] - 1)

WireChunk == {c \in [kind : {"chunk"}, id : Pics, index : Nat] : c.index < ChunksOf[c.id]}
WireFrame == [kind : {"frame"}, names : SUBSET Pics]
Entry == {e \in [id : Pics, next : Nat, urgent : BOOLEAN] : e.next < ChunksOf[e.id]}
Request == {r \in UNION {[S -> Nat] : S \in SUBSET Pics} :
              \A p \in DOMAIN r : r[p] < ChunksOf[p]}

PageState ==
  {pg \in [commands : SUBSET Pics, atlasCap : Nat \ {0}, textures : SUBSET Pics,
           ready : BOOLEAN, dirty : BOOLEAN, reclaimed : BOOLEAN, generation : Nat,
           resetUnseen : BOOLEAN, ingesting : BOOLEAN, chunks : [Pics -> SUBSET Nat],
           decoding : SUBSET Pics, key : SUBSET Pics, fresh : BOOLEAN,
           tries : [Pics -> Nat], unfetchable : SUBSET Pics, progress : BOOLEAN,
           asked : SUBSET Pics, dropped : SUBSET Pics,
           holes : {"none", "emptied", "unexplained"}, decoded : BOOLEAN] :
     \A p \in Pics : pg.chunks[p] \subseteq Whole(p) /\ pg.chunks[p] # Whole(p)}

TypeOK ==
  /\ page \in PageState
  /\ screen \subseteq Pics /\ pixels \subseteq Pics /\ believed \subseteq Pics
  /\ presents \in Nat /\ losses \in Nat
  /\ queue \in Seq(Entry) /\ requests \in Seq(Request)
  /\ stream \in Seq(WireChunk \union WireFrame)
  /\ asset \in Seq(WireChunk) /\ arrived \in Seq(WireChunk)
  /\ drain \in {"off", "looking", "sending"}
  /\ drain = "sending" => queue # <<>>
  /\ worker \in {"idle", "running", "leaving", "late", "gone"}

-----------------------------------------------------------------------------
(* The invariants.                                                         *)

\* A page that may paint has all that the frame needs, unless its atlas was
\* emptied and it does not know.
Gate(pg) == pg.ready /\ ~pg.resetUnseen => Gating(pg) = {}

PaintsWhole == Gate(page) /\ page.holes # "unexplained"

\* What the page waits for, and the chunks of it that it lacks.
Awaited(pg) == pg.key \ (pg.decoding \union pg.textures \union pg.dropped)
Lacks(pg, p) == Whole(p) \ pg.chunks[p]

\* The requests rs ask for p from a chunk no later than i on; from request n
\* on, none asks the host to begin later than at i.
NoneLater(rs, p, i, n) ==
  \A m \in n..Len(rs) : p \in DOMAIN rs[m] => rs[m][p] <= i
AskedFor(rs, p, i) ==
  \E n \in 1..Len(rs) : p \in DOMAIN rs[n] /\ NoneLater(rs, p, i, n)
Queued(q, p, i) == \E n \in 1..Len(q) : q[n].id = p /\ q[n].next <= i

\* Each chunk that page pg lacks, of a picture still held, is asked for or
\* else on its way, and then no request makes the host step over it.
Covered(pg, held, rs, q, way) ==
  ~pg.resetUnseen =>
    \A p \in Awaited(pg) \intersect held : \A i \in Lacks(pg, p) :
      \/ AskedFor(rs, p, i)
      \/ NoneLater(rs, p, i, 1) /\ (Queued(q, p, i) \/ Chunk(p, i) \in way)

RepairsCover ==
  Covered(page, pixels, requests, queue, Range(asset) \union Range(arrived))

-----------------------------------------------------------------------------
(* What the page's operators do.                                           *)

\* A page's pictures may come and its atlas may be emptied, but what it
\* shows, asks for and gives up stays.
Takes(pg, q) ==
  /\ q \in PageState
  /\ q.commands = pg.commands /\ q.ready = pg.ready /\ q.key = pg.key
  /\ q.unfetchable = pg.unfetchable /\ q.holes = pg.holes
  /\ \/ q.resetUnseen
     \/ /\ ~pg.resetUnseen
        /\ pg.textures \subseteq q.textures
        /\ pg.textures \union pg.dropped \subseteq q.textures \union q.dropped

LEMMA SetTextureDoes ==
  ASSUME NEW pg \in PageState, NEW p \in Pics
  PROVE  LET q == SetTexture(pg, p)
         IN  /\ Takes(pg, q) /\ p \in q.textures \union q.dropped
             /\ q.progress = pg.progress /\ q.chunks = pg.chunks
             /\ q.decoding = pg.decoding
<1> DEFINE fits == p \in pg.textures \/ Cardinality(pg.textures) < pg.atlasCap
           q == SetTexture(pg, p)
<1>1. CASE fits
  <2>1. q = [pg EXCEPT !.textures = @ \union {p}, !.dropped = @ \ {p}, !.dirty = TRUE]
    BY <1>1 DEF SetTexture
  <2>2. q \in PageState
    <3> HIDE DEF q, fits
    <3> QED
      BY <2>1 DEF PageState
  <2> QED
    BY <2>1, <2>2 DEF Takes, PageState
<1>2. CASE ~fits /\ ~pg.reclaimed
  <2>1. q = [pg EXCEPT !.textures = {p}, !.dropped = @ \ {p}, !.dirty = TRUE,
                       !.reclaimed = TRUE, !.generation = @ + 1, !.resetUnseen = TRUE]
    BY <1>2 DEF SetTexture
  <2>2. q \in PageState
    <3>1. pg.generation + 1 \in Nat /\ {p} \subseteq Pics /\ pg.dropped \ {p} \subseteq Pics
      BY DEF PageState
    <3> HIDE DEF q, fits
    <3> QED
      BY <2>1, <3>1 DEF PageState
  <2> QED
    BY <2>1, <2>2 DEF Takes, PageState
<1>3. CASE ~fits /\ pg.reclaimed
  <2>1. q = [pg EXCEPT !.dropped = @ \union {p}]
    BY <1>3 DEF SetTexture
  <2>2. q \in PageState
    <3> HIDE DEF q, fits
    <3> QED
      BY <2>1 DEF PageState
  <2> QED
    BY <2>1, <2>2 DEF Takes, PageState
<1>4. pg.reclaimed \in BOOLEAN
  BY DEF PageState
<1> QED
  BY <1>1, <1>2, <1>3, <1>4

LEMMA WholeSize == \A p \in Pics : IsFiniteSet(Whole(p)) /\ Cardinality(Whole(p)) = ChunksOf[p]
<1>1. TAKE p \in Pics
<1>2. ChunksOf[p] \in Nat \ {0}
  BY PicturesAssumption
<1>3. IsFiniteSet(0..(ChunksOf[p] - 1)) /\ Cardinality(0..(ChunksOf[p] - 1)) = ChunksOf[p]
  <2>1. 0 \in Int /\ ChunksOf[p] - 1 \in Int /\ ~(0 > ChunksOf[p] - 1)
        /\ ChunksOf[p] - 1 - 0 + 1 = ChunksOf[p]
    BY <1>2
  <2> QED
    BY <2>1, FS_Interval
<1> QED
  BY <1>3 DEF Whole

LEMMA IngestDoes ==
  ASSUME NEW pg \in PageState, NEW c \in WireChunk
  PROVE  LET q == IngestTextureChunk(pg, c)
         IN  /\ Takes(pg, q) /\ q.progress /\ pg.decoding \subseteq q.decoding
             /\ \A p \in Pics \ (q.decoding \union q.textures \union q.dropped) :
                  q.chunks[p] = IF p = c.id THEN pg.chunks[p] \union {c.index}
                                ELSE pg.chunks[p]
<1> DEFINE had == pg.chunks[c.id] \union {c.index}
           done == Cardinality(had) = ChunksOf[c.id]
           got == [pg EXCEPT !.progress = TRUE, !.chunks[c.id] = IF done THEN {} ELSE had]
           q == IngestTextureChunk(pg, c)
<1>1. c.id \in Pics /\ c.index \in Whole(c.id) /\ ChunksOf[c.id] \in Nat \ {0}
  BY PicturesAssumption DEF WireChunk, Whole
<1>2. had \subseteq Whole(c.id) /\ had \subseteq Nat
  BY <1>1 DEF PageState, Whole
<1>3. ~done => had # Whole(c.id)
  BY <1>1, WholeSize
<1>4. {} # Whole(c.id)
  BY <1>1 DEF Whole
<1>5. Takes(pg, got) /\ got.progress = TRUE /\ got.decoding = pg.decoding
      /\ got.textures = pg.textures /\ got.dropped = pg.dropped
      /\ got.chunks = [pg.chunks EXCEPT ![c.id] = IF done THEN {} ELSE had]
  <2> HIDE DEF had, done
  <2>1. got \in PageState
    BY <1>1, <1>2, <1>3, <1>4 DEF PageState
  <2> QED
    BY <2>1 DEF Takes, PageState
<1> HIDE DEF got
<1>6. \A p \in Pics : got.chunks[p] = IF p = c.id THEN IF done THEN {} ELSE had
                                     ELSE pg.chunks[p]
  BY <1>1, <1>5 DEF PageState
<1>7. CASE ~done
  <2>1. q = got
    BY <1>7 DEF IngestTextureChunk, got
  <2> QED
    BY <2>1, <1>5, <1>6, <1>7
<1>8. CASE done /\ c.id \in Jpegs
  <2>1. q = [got EXCEPT !.decoding = @ \union {c.id}]
    BY <1>8 DEF IngestTextureChunk, got
  <2>2. q \in PageState
    BY <2>1, <1>1, <1>5 DEF PageState, Takes
  <2>3. /\ q.progress = got.progress /\ q.decoding = got.decoding \union {c.id}
        /\ q.chunks = got.chunks /\ q.commands = got.commands /\ q.ready = got.ready
        /\ q.key = got.key /\ q.unfetchable = got.unfetchable /\ q.holes = got.holes
        /\ q.resetUnseen = got.resetUnseen /\ q.textures = got.textures
        /\ q.dropped = got.dropped
    <3>1. got \in PageState
      BY <1>5 DEF Takes
    <3> HIDE DEF q
    <3> QED
      BY <2>1, <3>1 DEF PageState
  <2>4. Takes(pg, q)
    BY <2>2, <2>3, <1>5 DEF Takes
  <2> QED
    BY <2>3, <2>4, <1>5, <1>6
<1>9. CASE done /\ c.id \notin Jpegs
  <2>1. q = SetTexture(got, c.id)
    BY <1>9 DEF IngestTextureChunk, got
  <2>2. got \in PageState
    BY <1>5 DEF Takes
  <2>3. /\ Takes(got, q) /\ c.id \in q.textures \union q.dropped
        /\ q.progress = got.progress /\ q.chunks = got.chunks /\ q.decoding = got.decoding
    BY <2>1, <2>2, <1>1, SetTextureDoes
  <2>4. Takes(pg, q)
    BY <2>3, <1>5 DEF Takes
  <2> QED
    BY <2>3, <2>4, <1>5, <1>6
<1> QED
  BY <1>7, <1>8, <1>9

LEMMA PassesIs ==
  ASSUME NEW tries \in [Pics -> Nat], NEW S \in SUBSET Pics
  PROVE  LET k == Passes(tries, S)
         IN  /\ k \in 1..(MaxTries + 1)
             /\ \A p \in S : tries[p] + k # MaxTries
             /\ \A j \in 1..(k - 1) : \E p \in S : tries[p] + j = MaxTries
<1> DEFINE Spares(k) == \A p \in S : tries[p] + k # MaxTries
           T == {k \in 1..(MaxTries + 1) : Spares(k)}
<1>0. MaxTries \in Nat
  BY PicturesAssumption
<1>1. MaxTries + 1 \in T
  BY <1>0
<1>2. PICK m \in T : \A k \in T : m <= k
  <2>1. T \in SUBSET Nat /\ T # {}
    BY <1>0, <1>1
  <2> HIDE DEF T
  <2> QED
    BY <2>1, LeastElement
<1>3. \A j \in 1..(m - 1) : \E p \in S : tries[p] + j = MaxTries
  <2>1. TAKE j \in 1..(m - 1)
  <2>2. j \in 1..(MaxTries + 1) /\ ~(m <= j)
    BY <1>0
  <2> QED
    BY <1>2, <2>2
<1>4. m \in 1..(MaxTries + 1) /\ Spares(m)
  OBVIOUS
<1> QED
  BY <1>3, <1>4 DEF Passes

LEMMA FirstLacking ==
  ASSUME NEW pg \in PageState, NEW S \in SUBSET Pics
  PROVE  LET r == MissingChunksFor(pg, S)
         IN  /\ r \in Request /\ DOMAIN r = S
             /\ \A p \in S : \A i \in Lacks(pg, p) : r[p] <= i
<1> DEFINE r == MissingChunksFor(pg, S)
           First(p, i) == /\ i \notin pg.chunks[p]
                          /\ \A j \in 0..(i - 1) : j \in pg.chunks[p]
<1>1. ASSUME NEW p \in S
      PROVE  /\ r[p] \in Whole(p) /\ First(p, r[p])
             /\ \A i \in Lacks(pg, p) : r[p] <= i
  <2>1. Lacks(pg, p) \in SUBSET Nat /\ Lacks(pg, p) # {}
        /\ Lacks(pg, p) \subseteq Whole(p) /\ ChunksOf[p] \in Nat
    <3>1. p \in Pics /\ ChunksOf[p] \in Nat /\ Whole(p) \subseteq Nat
      BY PicturesAssumption DEF Whole
    <3>2. pg.chunks[p] \subseteq Whole(p) /\ pg.chunks[p] # Whole(p)
      BY <3>1 DEF PageState
    <3> QED
      BY <3>1, <3>2 DEF Lacks
  <2>2. PICK m \in Lacks(pg, p) : \A i \in Lacks(pg, p) : m <= i
    BY <2>1, LeastElement
  <2>3. First(p, m)
    <3>1. \A j \in 0..(m - 1) : j \in Whole(p) /\ ~(m <= j)
      BY <2>1, <2>2 DEF Whole
    <3> QED
      BY <2>2, <3>1 DEF Lacks
  <2>4. m \in Whole(p)
    BY <2>1
  <2>5. r[p] = CHOOSE i \in 0..(ChunksOf[p] - 1) : First(p, i)
    BY DEF MissingChunksFor
  <2>6. r[p] \in Whole(p) /\ First(p, r[p])
    BY <2>3, <2>4, <2>5 DEF Whole
  <2>7. \A i \in Lacks(pg, p) : r[p] <= i
    BY <2>1, <2>6 DEF Lacks, Whole
  <2> QED
    BY <2>6, <2>7
<1>2. r = [p \in S |-> r[p]] /\ DOMAIN r = S
  BY DEF MissingChunksFor
<1>3. \A p \in S : r[p] \in Nat /\ r[p] < ChunksOf[p]
  <2>1. TAKE p \in S
  <2>2. ChunksOf[p] \in Nat /\ r[p] \in Whole(p)
    BY <1>1, PicturesAssumption
  <2> QED
    BY <2>2 DEF Whole
<1>4. r \in [S -> Nat]
  <2> HIDE DEF r
  <2> QED
    BY <1>2, <1>3
<1>5. r \in Request
  BY <1>2, <1>3, <1>4 DEF Request
<1> QED
  BY <1>1, <1>2, <1>5

LEMMA AfterResetDoes ==
  ASSUME NEW pg \in PageState
  PROVE  LET q == AfterReset(pg)
         IN  /\ q \in PageState /\ ~q.resetUnseen
             /\ q.commands = pg.commands /\ q.textures = pg.textures
             /\ q.chunks = pg.chunks /\ q.decoding = pg.decoding
             /\ q.dropped = pg.dropped /\ q.holes = pg.holes
             /\ q.progress = pg.progress /\ q.unfetchable \subseteq pg.unfetchable
             /\ q.key = {} \/ (~pg.resetUnseen /\ q.key = pg.key)
<1> DEFINE q == AfterReset(pg)
<1>1. CASE pg.resetUnseen
  <2>1. q = [pg EXCEPT !.decoded = FALSE, !.resetUnseen = FALSE,
                       !.tries = [p \in Pics |-> 0], !.unfetchable = {}, !.key = {},
                       !.fresh = FALSE]
    BY <1>1 DEF AfterReset
  <2> HIDE DEF q
  <2>2. q \in PageState
    BY <2>1 DEF PageState
  <2> QED
    BY <2>1, <2>2 DEF PageState, q
<1>2. CASE ~pg.resetUnseen
  <2>1. q = [pg EXCEPT !.decoded = FALSE]
    BY <1>2 DEF AfterReset
  <2> HIDE DEF q
  <2>2. q \in PageState
    BY <2>1 DEF PageState
  <2> QED
    BY <2>1, <2>2, <1>2 DEF PageState, q
<1> QED
  BY <1>1, <1>2

LEMMA CountedType ==
  ASSUME NEW pg \in PageState
  PROVE  Counted(pg) \in [Pics -> Nat] /\ Gating(pg) \subseteq Pics
BY DEF Counted, Gating, MissingTextureIds, PageState

\* While chunks arrive nobody's tries run out.
LEMMA ArrivingGivesNoneUp ==
  ASSUME NEW pg \in PageState, pg.progress
  PROVE  GivenUp(pg) = {}
<1> DEFINE k == Passes(Counted(pg), Gating(pg))
<1>1. Counted(pg) = [p \in Pics |-> 0] /\ Gating(pg) \subseteq Pics
  BY CountedType DEF Counted
<1>2. /\ k \in 1..(MaxTries + 1)
      /\ \A j \in 1..(k - 1) : \E p \in Gating(pg) : Counted(pg)[p] + j = MaxTries
  BY CountedType, PassesIs
<1> HIDE DEF k
<1>3. MaxTries \in Nat \ {0, 1}
  BY PicturesAssumption
<1>4. k = 1
  <2>1. SUFFICES ASSUME 1 \in 1..(k - 1) PROVE FALSE
    BY <1>2, <1>3
  <2>2. \E p \in Gating(pg) : Counted(pg)[p] + 1 = MaxTries
    BY <1>2, <2>1
  <2> QED
    BY <2>2, <1>1, <1>3
<1>5. \A p \in Gating(pg) : ~(Counted(pg)[p] + k > MaxTries)
  BY <1>1, <1>3, <1>4
<1> QED
  BY <1>5 DEF GivenUp, k

\* What a sync does on a page that has taken note of a reset atlas: it asks
\* for all it waits for, from the first chunk it lacks, or goes on waiting.
Syncs(pg, q, asking) ==
  /\ q \in PageState /\ ~q.resetUnseen /\ Gate(q)
  /\ q.commands = pg.commands /\ q.textures = pg.textures /\ q.chunks = pg.chunks
  /\ q.decoding = pg.decoding /\ q.dropped = pg.dropped /\ q.holes = pg.holes
  /\ pg.progress => q.unfetchable \subseteq pg.unfetchable
  /\ \/ asking = <<>> /\ (q.key = {} \/ q.key = pg.key)
     \/ \E r \in Request :
          /\ asking = <<r>> /\ DOMAIN r = q.key
          /\ \A p \in q.key : \A i \in Lacks(q, p) : r[p] <= i

LEMMA SyncDoes ==
  ASSUME NEW pg \in PageState, ~pg.resetUnseen
  PROVE  Syncs(pg, SyncAssets(pg), AssetBridgeRequest(pg))
<1> DEFINE q == SyncAssets(pg)
           k == Passes(Counted(pg), Gating(pg))
<1>0. Gating(pg) \subseteq Pics /\ Counted(pg) \in [Pics -> Nat]
  BY CountedType
<1>1. CASE Gating(pg) = {}
  <2>1. q = [pg EXCEPT !.ready = TRUE, !.key = {}]
    BY <1>1 DEF SyncAssets, AskDue
  <2>2. AssetBridgeRequest(pg) = <<>>
    BY <1>1 DEF AssetBridgeRequest, AskDue
  <2> HIDE DEF q
  <2>3. q \in PageState
    BY <2>1 DEF PageState
  <2>4. /\ ~q.resetUnseen /\ q.commands = pg.commands /\ q.textures = pg.textures
        /\ q.chunks = pg.chunks /\ q.decoding = pg.decoding /\ q.dropped = pg.dropped
        /\ q.holes = pg.holes /\ q.unfetchable = pg.unfetchable /\ q.key = {}
    BY <2>1 DEF PageState
  <2>5. Gate(q)
    BY <1>1, <2>4 DEF Gate, Gating, MissingTextureIds
  <2> QED
    BY <2>2, <2>3, <2>4, <2>5 DEF Syncs, q
<1>2. CASE Gating(pg) # {} /\ ~AskDue(pg)
  <2>1. q = [pg EXCEPT !.ready = FALSE]
    BY <1>2 DEF SyncAssets
  <2>2. AssetBridgeRequest(pg) = <<>>
    BY <1>2 DEF AssetBridgeRequest
  <2> HIDE DEF q
  <2>3. q \in PageState
    BY <2>1 DEF PageState
  <2>4. /\ ~q.resetUnseen /\ q.commands = pg.commands /\ q.textures = pg.textures
        /\ q.chunks = pg.chunks /\ q.decoding = pg.decoding /\ q.dropped = pg.dropped
        /\ q.holes = pg.holes /\ q.unfetchable = pg.unfetchable /\ q.key = pg.key
        /\ ~q.ready
    BY <2>1 DEF PageState
  <2> QED
    BY <2>2, <2>3, <2>4 DEF Syncs, q, Gate
<1>3. CASE AskDue(pg)
  <2> DEFINE T == [p \in Pics |-> CASE p \in GivenUp(pg) -> MaxTries
                                     [] p \in Wanted(pg) -> Counted(pg)[p] + k
                                     [] OTHER -> Counted(pg)[p]]
  <2>1. q = [pg EXCEPT !.ready = (Wanted(pg) = {}), !.key = Wanted(pg), !.fresh = TRUE,
                       !.progress = FALSE, !.unfetchable = @ \union GivenUp(pg),
                       !.tries = T, !.asked = @ \union Wanted(pg)]
    BY <1>3 DEF SyncAssets, AskDue
  <2>2. k \in Nat /\ MaxTries \in Nat
    BY <1>0, PassesIs, PicturesAssumption
  <2>3. T \in [Pics -> Nat]
    <3> HIDE DEF k
    <3> QED
      BY <1>0, <2>2
  <2>4. GivenUp(pg) \subseteq Gating(pg) /\ Wanted(pg) = Gating(pg) \ GivenUp(pg)
    BY DEF GivenUp, Wanted
  <2> HIDE DEF q, T
  <2>5. q \in PageState
    BY <1>0, <2>1, <2>3, <2>4 DEF PageState
  <2>6. /\ ~q.resetUnseen /\ q.commands = pg.commands /\ q.textures = pg.textures
        /\ q.chunks = pg.chunks /\ q.decoding = pg.decoding /\ q.dropped = pg.dropped
        /\ q.holes = pg.holes /\ q.unfetchable = pg.unfetchable \union GivenUp(pg)
        /\ q.key = Wanted(pg) /\ q.ready = (Wanted(pg) = {})
    BY <2>1 DEF PageState
  <2>7. Gate(q)
    BY <2>4, <2>6 DEF Gate, Gating, MissingTextureIds
  <2>8. pg.progress => q.unfetchable \subseteq pg.unfetchable
    BY <2>6, ArrivingGivesNoneUp
  <2>9. \/ AssetBridgeRequest(pg) = <<>> /\ q.key = {}
        \/ \E r \in Request :
             /\ AssetBridgeRequest(pg) = <<r>> /\ DOMAIN r = q.key
             /\ \A p \in q.key : \A i \in Lacks(q, p) : r[p] <= i
    <3>1. CASE Wanted(pg) = {}
      BY <3>1, <2>6 DEF AssetBridgeRequest
    <3>2. CASE Wanted(pg) # {}
      <4> DEFINE r == MissingChunksFor(pg, Wanted(pg))
      <4>1. AssetBridgeRequest(pg) = <<r>>
        BY <1>3, <3>2 DEF AssetBridgeRequest
      <4>2. /\ r \in Request /\ DOMAIN r = Wanted(pg)
            /\ \A p \in Wanted(pg) : \A i \in Lacks(pg, p) : r[p] <= i
        BY <1>0, <2>4, FirstLacking
      <4> QED
        BY <4>1, <4>2, <2>6 DEF Lacks
    <3> QED
      BY <3>1, <3>2
  <2> QED
    BY <2>5, <2>6, <2>7, <2>8, <2>9 DEF Syncs, q
<1> QED
  BY <1>1, <1>2, <1>3

\* A paint changes nothing but what is on the display.
Paints(pg, q) ==
  /\ q \in PageState
  /\ q.commands = pg.commands /\ q.textures = pg.textures /\ q.chunks = pg.chunks
  /\ q.decoding = pg.decoding /\ q.dropped = pg.dropped /\ q.key = pg.key
  /\ q.resetUnseen = pg.resetUnseen /\ q.ready = pg.ready
  /\ q.unfetchable = pg.unfetchable
  /\ q.holes = "unexplained" => pg.holes = "unexplained" \/ ~Gate(pg)

LEMMA RenderDoes ==
  ASSUME NEW pg \in PageState
  PROVE  Paints(pg, Render(pg))
<1>1. CASE pg.ready /\ pg.dirty
  <2>1. Render(pg) = [pg EXCEPT !.dirty = FALSE, !.holes = Holes(pg)]
    BY <1>1 DEF Render
  <2>2. /\ Holes(pg) \in {"none", "emptied", "unexplained"}
        /\ Holes(pg) = "unexplained" => Gating(pg) # {} /\ ~pg.resetUnseen
    <3>1. pg.resetUnseen \in BOOLEAN
      BY DEF PageState
    <3> QED
      BY <3>1 DEF Holes
  <2>3. [pg EXCEPT !.dirty = FALSE, !.holes = Holes(pg)] \in PageState
    BY <2>2 DEF PageState
  <2> QED
    BY <1>1, <2>1, <2>2, <2>3 DEF PageState, Paints, Gate
<1>2. CASE ~(pg.ready /\ pg.dirty)
  BY <1>2 DEF Render, Paints
<1> QED
  BY <1>1, <1>2

-----------------------------------------------------------------------------
(* The host's sequences.                                                   *)

LEMMA MapIsSeq ==
  ASSUME NEW M, NEW n \in Nat, NEW f \in [1..n -> M]
  PROVE  f \in Seq(M) /\ Len(f) = n
<1>1. f \in Seq(M)
  BY SeqDef
<1> QED
  BY <1>1

LEMMA PacketTypes ==
  /\ \A p \in Pics, i \in Nat : i < ChunksOf[p] => Chunk(p, i) \in WireChunk
  /\ \A S \in SUBSET Pics : FrameOf(S) \in WireFrame
  /\ \A p \in Pics : Chunks(p) \in Seq(WireChunk)
  /\ \A S \in SUBSET Pics : Packed(S) \in Seq(WireChunk)
<1>1. \A p \in Pics, i \in Nat : i < ChunksOf[p] => Chunk(p, i) \in WireChunk
  BY DEF Chunk, WireChunk
<1>2. \A S \in SUBSET Pics : FrameOf(S) \in WireFrame
  BY DEF FrameOf, WireFrame
<1>3. ASSUME NEW p \in Pics PROVE Chunks(p) \in Seq(WireChunk)
  <2>1. ChunksOf[p] \in Nat
    BY PicturesAssumption
  <2>2. \A i \in 1..ChunksOf[p] : Chunk(p, i - 1) \in WireChunk
    <3>1. \A i \in 1..ChunksOf[p] : i - 1 \in Nat /\ i - 1 < ChunksOf[p]
      BY <2>1
    <3> QED
      BY <1>1, <3>1
  <2>3. Chunks(p) \in [1..ChunksOf[p] -> WireChunk]
    BY <2>2 DEF Chunks
  <2> QED
    BY <2>1, <2>3, MapIsSeq
<1>4. ASSUME NEW S \in SUBSET Pics PROVE Packed(S) \in Seq(WireChunk)
  <2> DEFINE ss == [p \in Pics |-> IF p \in S THEN Chunks(p) ELSE <<>>]
  <2>1. ss \in [1..TextureCount -> Seq(WireChunk)]
    BY <1>3 DEF Pics
  <2>2. ss \in Seq(Seq(WireChunk))
    BY <2>1, PicturesAssumption, MapIsSeq
  <2> QED
    BY <2>2, FlattenType DEF Packed
<1> QED
  BY <1>1, <1>2, <1>3, <1>4

\* q's entries for the pictures outside S, in their order.
LEMMA WithoutKeeps ==
  ASSUME NEW q \in Seq(Entry), NEW S \in SUBSET Pics
  PROVE  LET w == Without(q, S)
         IN  /\ w \in Seq(Entry)
             /\ \E src \in [1..Len(w) -> 1..Len(q)] :
                  /\ \A i, j \in 1..Len(w) : i < j => src[i] < src[j]
                  /\ \A k \in 1..Len(w) : w[k] = q[src[k]] /\ w[k].id \notin S
             /\ \A i \in 1..Len(q) : q[i].id \notin S => \E k \in 1..Len(w) : w[k] = q[i]
<1> DEFINE ss == [i \in 1..Len(q) |-> IF q[i].id \in S THEN <<>> ELSE <<q[i]>>]
           w == Without(q, S)
<1>1. Len(q) \in Nat /\ \A i \in 1..Len(q) : q[i] \in Entry
  BY ElementOfSeq
<1>2. \A i \in 1..Len(q) : ss[i] \in Seq(Entry) /\ Len(ss[i]) <= 1
  BY <1>1
<1>3. ss \in Seq(Seq(Entry)) /\ Len(ss) = Len(q)
  <2>1. ss \in [1..Len(q) -> Seq(Entry)]
    BY <1>2
  <2> QED
    BY <1>1, <2>1, MapIsSeq
<1>4. w = FlattenSeq(ss)
  BY DEF Without
<1>5. PICK src : Comes(src, w, ss, Len(q))
  BY <1>2, <1>3, <1>4, FlattenComes
<1>6. w \in Seq(Entry)
  BY <1>3, <1>4, FlattenType
<1>7. \A k \in 1..Len(w) : w[k] = q[src[k]] /\ w[k].id \notin S
  <2>1. TAKE k \in 1..Len(w)
  <2>2. src[k] \in 1..Len(q) /\ ss[src[k]] = <<w[k]>>
    BY <1>5 DEF Comes
  <2> QED
    BY <2>2
<1>8. \A i \in 1..Len(q) : q[i].id \notin S => \E k \in 1..Len(w) : w[k] = q[i]
  <2>1. TAKE i \in 1..Len(q)
  <2>2. HAVE q[i].id \notin S
  <2>3. ss[i] = <<q[i]>> /\ ss[i] # <<>>
    BY <2>2
  <2>4. PICK k \in 1..Len(w) : src[k] = i
    BY <1>5, <2>3 DEF Comes
  <2>5. w[k] = q[i]
    BY <1>7, <2>4
  <2> QED
    BY <2>5
<1> QED
  BY <1>5, <1>6, <1>7, <1>8 DEF Comes

\* What is asked for, each picture once.
LEMMA UrgentHolds ==
  ASSUME NEW at \in Request
  PROVE  LET u == Urgent(at)
         IN  /\ u \in Seq(Entry)
             /\ \A k \in 1..Len(u) : /\ u[k].urgent /\ u[k].id \in DOMAIN at
                                      /\ u[k].next = at[u[k].id]
             /\ \A i, j \in 1..Len(u) : i # j => u[i].id # u[j].id
             /\ \A p \in DOMAIN at : \E k \in 1..Len(u) : u[k].id = p
<1> DEFINE N == TextureCount
           ss == [k \in Pics |-> IF N + 1 - k \in DOMAIN at
                                 THEN <<Owed(N + 1 - k, at[N + 1 - k], TRUE)>> ELSE <<>>]
           u == Urgent(at)
<1>1. N \in Nat /\ Pics = 1..N /\ DOMAIN at \subseteq Pics
  BY PicturesAssumption DEF Pics, Request
<1>2. \A p \in DOMAIN at : at[p] \in Nat /\ at[p] < ChunksOf[p]
  BY DEF Request
<1>3. \A p \in DOMAIN at : Owed(p, at[p], TRUE) \in Entry
  BY <1>1, <1>2 DEF Owed, Entry
<1>4. \A k \in 1..N : ss[k] \in Seq(Entry) /\ Len(ss[k]) <= 1
  <2>1. TAKE k \in 1..N
  <2>2. CASE N + 1 - k \in DOMAIN at
    <3>1. ss[k] = <<Owed(N + 1 - k, at[N + 1 - k], TRUE)>>
      BY <1>1, <2>2
    <3> DEFINE e == Owed(N + 1 - k, at[N + 1 - k], TRUE)
    <3>2. e \in Entry
      BY <1>3, <2>2
    <3> HIDE DEF ss, e
    <3>3. <<e>> \in Seq(Entry) /\ Len(<<e>>) <= 1
      BY <3>2
    <3> QED
      BY <3>1, <3>3 DEF e
  <2>3. CASE N + 1 - k \notin DOMAIN at
    BY <1>1, <2>3
  <2> QED
    BY <2>2, <2>3
<1>5. ss \in Seq(Seq(Entry)) /\ Len(ss) = N
  <2>1. ss \in [1..N -> Seq(Entry)]
    BY <1>1, <1>4
  <2> QED
    BY <1>1, <2>1, MapIsSeq
<1>6. u = FlattenSeq(ss)
  BY DEF Urgent
<1>7. PICK src : Comes(src, u, ss, N)
  BY <1>4, <1>5, <1>6, FlattenComes
<1>8. u \in Seq(Entry)
  BY <1>5, <1>6, FlattenType
<1>9. ASSUME NEW k \in 1..Len(u)
      PROVE  LET p == N + 1 - src[k]
             IN  src[k] \in 1..N /\ p \in DOMAIN at /\ u[k] = Owed(p, at[p], TRUE)
  <2>1. src[k] \in 1..N /\ ss[src[k]] = <<u[k]>>
    BY <1>7 DEF Comes
  <2> QED
    BY <1>1, <2>1
<1>10. \A k \in 1..Len(u) : u[k].urgent /\ u[k].id \in DOMAIN at /\ u[k].next = at[u[k].id]
                             /\ u[k].id = N + 1 - src[k]
  <2>1. TAKE k \in 1..Len(u)
  <2> DEFINE p == N + 1 - src[k]
  <2>2. p \in DOMAIN at /\ u[k] = Owed(p, at[p], TRUE)
    BY <1>9
  <2> HIDE DEF u, p
  <2>3. u[k].urgent /\ u[k].id = p /\ u[k].next = at[p]
    BY <2>2 DEF Owed
  <2> QED
    BY <2>2, <2>3 DEF p
<1>11. \A i, j \in 1..Len(u) : i # j => u[i].id # u[j].id
  <2>1. ASSUME NEW i \in 1..Len(u), NEW j \in 1..Len(u), i < j PROVE u[i].id # u[j].id
    <3>1. src[i] < src[j] /\ src[i] \in 1..N /\ src[j] \in 1..N
      BY <1>7, <1>9, <2>1 DEF Comes
    <3>2. N + 1 - src[i] # N + 1 - src[j]
      BY <1>1, <3>1
    <3> QED
      BY <3>2, <1>10
  <2>2. Len(u) \in Nat
    BY <1>8
  <2>3. \A i, j \in 1..Len(u) : i # j => i < j \/ j < i
    BY <2>2
  <2> HIDE DEF u
  <2> QED
    BY <2>1, <2>3
<1>12. \A p \in DOMAIN at : \E k \in 1..Len(u) : u[k].id = p
  <2>1. TAKE p \in DOMAIN at
  <2>2. N + 1 - p \in 1..N /\ N + 1 - (N + 1 - p) = p
    BY <1>1
  <2>3. ss[N + 1 - p] # <<>>
    BY <1>1, <2>2
  <2>4. PICK k \in 1..Len(u) : src[k] = N + 1 - p
    BY <1>7, <2>2, <2>3 DEF Comes
  <2> QED
    BY <1>10, <2>2, <2>4
<1> QED
  BY <1>8, <1>10, <1>11, <1>12

\* UrgentFirst, of any queue.
Ordered(q) ==
  /\ \A i, j \in 1..Len(q) : i < j /\ q[j].urgent => q[i].urgent
  /\ \A i, j \in 1..Len(q) : i # j => q[i].id # q[j].id

LEMMA DeferDoes ==
  ASSUME NEW q \in Seq(Entry), NEW at \in Request
  PROVE  LET d == DeferFrontAt(q, at)
         IN  /\ d \in Seq(Entry) /\ (Ordered(q) => Ordered(d))
             /\ \A p \in DOMAIN at, i \in Nat : at[p] <= i => Queued(d, p, i)
             /\ \A p \in Pics \ DOMAIN at, i \in Nat : Queued(q, p, i) => Queued(d, p, i)
<1> DEFINE u == Urgent(at)
           w == Without(q, DOMAIN at)
           d == DeferFrontAt(q, at)
<1>1. DOMAIN at \in SUBSET Pics
  BY DEF Request
<1>2. /\ u \in Seq(Entry)
      /\ \A k \in 1..Len(u) : /\ u[k].urgent /\ u[k].id \in DOMAIN at
                               /\ u[k].next = at[u[k].id]
      /\ \A i, j \in 1..Len(u) : i # j => u[i].id # u[j].id
      /\ \A p \in DOMAIN at : \E k \in 1..Len(u) : u[k].id = p
  BY UrgentHolds
<1>3. /\ w \in Seq(Entry)
      /\ \E src \in [1..Len(w) -> 1..Len(q)] :
           /\ \A i, j \in 1..Len(w) : i < j => src[i] < src[j]
           /\ \A k \in 1..Len(w) : w[k] = q[src[k]] /\ w[k].id \notin DOMAIN at
      /\ \A i \in 1..Len(q) : q[i].id \notin DOMAIN at => \E k \in 1..Len(w) : w[k] = q[i]
  BY <1>1, WithoutKeeps
<1>4. d = u \o w
  BY DEF DeferFrontAt
<1> HIDE DEF u, w, d
<1>5. /\ d \in Seq(Entry) /\ Len(d) = Len(u) + Len(w) /\ Len(u) \in Nat /\ Len(w) \in Nat
      /\ \A k \in 1..Len(u) : d[k] = u[k]
      /\ \A k \in 1..Len(w) : d[Len(u) + k] = w[k]
  BY <1>2, <1>3, <1>4
<1>6. \A i \in 1..Len(d) : i \in 1..Len(u) \/ (i - Len(u) \in 1..Len(w) /\ i > Len(u)
                                              /\ d[i] = w[i - Len(u)])
  <2>1. TAKE i \in 1..Len(d)
  <2>2. CASE i > Len(u)
    <3>1. i - Len(u) \in 1..Len(w) /\ Len(u) + (i - Len(u)) = i
      BY <1>5, <2>2
    <3> QED
      BY <1>5, <2>2, <3>1
  <2>3. CASE ~(i > Len(u))
    BY <1>5, <2>3
  <2> QED
    BY <2>2, <2>3
<1>7. PICK src \in [1..Len(w) -> 1..Len(q)] :
           /\ \A i, j \in 1..Len(w) : i < j => src[i] < src[j]
           /\ \A k \in 1..Len(w) : w[k] = q[src[k]] /\ w[k].id \notin DOMAIN at
  BY <1>3
<1>8. ASSUME Ordered(q) PROVE Ordered(d)
  <2>1. ASSUME NEW i \in 1..Len(d), NEW j \in 1..Len(d), i < j
        PROVE  d[i].id # d[j].id /\ (d[j].urgent => d[i].urgent)
    <3>1. CASE j \in 1..Len(u)
      <4>1. i \in 1..Len(u) /\ i # j
        BY <1>5, <2>1, <3>1
      <4>2. d[i] = u[i] /\ d[j] = u[j]
        BY <1>5, <3>1, <4>1
      <4>3. u[i].id # u[j].id /\ u[i].urgent
        BY <1>2, <3>1, <4>1
      <4> QED
        BY <4>2, <4>3
    <3>2. CASE j \notin 1..Len(u)
      <4> DEFINE b == j - Len(u)
      <4>1. b \in 1..Len(w) /\ d[j] = w[b] /\ b \in Nat
        BY <1>6, <3>2
      <4>2. CASE i \in 1..Len(u)
        <5>1. d[i].urgent /\ d[i].id \in DOMAIN at
          BY <1>2, <1>5, <4>2
        <5>2. d[j].id \notin DOMAIN at
          BY <1>7, <4>1
        <5> QED
          BY <5>1, <5>2
      <4>3. CASE i \notin 1..Len(u)
        <5> DEFINE a == i - Len(u)
        <5>1. a \in 1..Len(w) /\ d[i] = w[a] /\ a < b
          BY <1>5, <1>6, <2>1, <4>3
        <5> HIDE DEF a, b
        <5>2. src[a] < src[b] /\ src[a] \in 1..Len(q) /\ src[b] \in 1..Len(q)
              /\ w[a] = q[src[a]] /\ w[b] = q[src[b]]
          BY <1>7, <4>1, <5>1
        <5>3. src[a] # src[b]
          BY <5>2
        <5>4. /\ q[src[a]].id # q[src[b]].id
              /\ q[src[b]].urgent => q[src[a]].urgent
          BY <1>8, <5>2, <5>3 DEF Ordered
        <5>5. d[i] = q[src[a]] /\ d[j] = q[src[b]]
          BY <4>1, <5>1, <5>2
        <5> QED
          BY <5>4, <5>5
      <4> QED
        BY <4>2, <4>3
    <3> QED
      BY <3>1, <3>2
  <2>2. \A i, j \in 1..Len(d) : i # j => i < j \/ j < i
    BY <1>5
  <2> QED
    BY <2>1, <2>2 DEF Ordered
<1>9. ASSUME NEW p \in DOMAIN at, NEW i \in Nat, at[p] <= i PROVE Queued(d, p, i)
  <2>1. PICK k \in 1..Len(u) : u[k].id = p
    BY <1>2
  <2>2. k \in 1..Len(d) /\ d[k] = u[k]
    BY <1>5
  <2>3. u[k].next = at[p]
    BY <1>2, <2>1
  <2> QED
    BY <1>9, <2>1, <2>2, <2>3 DEF Queued
<1>10. ASSUME NEW p \in Pics \ DOMAIN at, NEW i \in Nat, Queued(q, p, i)
       PROVE  Queued(d, p, i)
  <2>1. PICK n \in 1..Len(q) : q[n].id = p /\ q[n].next <= i
    BY <1>10 DEF Queued
  <2>2. PICK k \in 1..Len(w) : w[k] = q[n]
    BY <1>3, <2>1
  <2>3. Len(u) + k \in 1..Len(d) /\ d[Len(u) + k] = w[k]
    BY <1>5
  <2> QED
    BY <2>1, <2>2, <2>3 DEF Queued
<1> QED
  BY <1>5, <1>8, <1>9, <1>10 DEF d

LEMMA DumpDoes ==
  Dump \in Seq(WireChunk) /\ DumpOwes \in Seq(Entry) /\ Ordered(DumpOwes)
<1> DEFINE N == TextureCount
           all == Packed(Pics)
           m == Min({Budget, Len(all)})
           ss == [p \in Pics |-> IF Dumped(p) < ChunksOf[p]
                                 THEN <<Owed(p, Dumped(p), FALSE)>> ELSE <<>>]
<1>1. all \in Seq(WireChunk) /\ Len(all) \in Nat /\ Budget \in Nat
  <2>1. all \in Seq(WireChunk)
    BY PacketTypes
  <2> QED
    BY <2>1, PicturesAssumption
<1>2. m \in 0..Len(all)
  <2> HIDE DEF all
  <2> QED
    BY <1>1 DEF Min
<1>3. Dump \in Seq(WireChunk)
  <2>1. Dump = SubSeq(all, 1, m)
    BY DEF Dump
  <2>2. SubSeq(all, 1, m) \in Seq(WireChunk)
    <3> HIDE DEF all, m
    <3> QED
      BY <1>1, <1>2
  <2> QED
    BY <2>1, <2>2
<1>4. \A p \in Pics : Dumped(p) \in Nat
  <2>1. TAKE p \in Pics
  <2>2. Len(Dump) \in Nat
    BY <1>3
  <2>3. IsFiniteSet(1..Len(Dump))
    <3>1. 1 \in Int /\ Len(Dump) \in Int
      BY <2>2
    <3> QED
      BY <3>1, FS_Interval
  <2>4. IsFiniteSet({k \in 1..Len(Dump) : Dump[k].id = p})
    <3>1. {k \in 1..Len(Dump) : Dump[k].id = p} \subseteq 1..Len(Dump)
      OBVIOUS
    <3> QED
      BY <2>3, <3>1, FS_Subset
  <2> QED
    BY <2>4, FS_CardinalityType DEF Dumped
<1>5. N \in Nat /\ Pics = 1..N
  BY PicturesAssumption DEF Pics
<1>6. \A p \in 1..N : ss[p] \in Seq(Entry) /\ Len(ss[p]) <= 1
  <2>1. TAKE p \in 1..N
  <2>2. CASE Dumped(p) < ChunksOf[p]
    <3> DEFINE e == Owed(p, Dumped(p), FALSE)
    <3>1. e \in Entry
      BY <1>4, <1>5, <2>2 DEF Owed, Entry
    <3>2. ss[p] = <<e>>
      BY <1>5, <2>2
    <3> HIDE DEF e, ss
    <3> QED
      BY <3>1, <3>2
  <2>3. CASE ~(Dumped(p) < ChunksOf[p])
    <3>1. ss[p] = <<>>
      BY <1>5, <2>3
    <3> HIDE DEF ss
    <3> QED
      BY <3>1
  <2> QED
    BY <2>2, <2>3
<1>7. ss \in Seq(Seq(Entry)) /\ Len(ss) = N
  <2>1. ss \in [1..N -> Seq(Entry)]
    BY <1>5, <1>6
  <2> QED
    BY <1>5, <2>1, MapIsSeq
<1>8. DumpOwes = FlattenSeq(ss)
  BY DEF DumpOwes
<1>9. DumpOwes \in Seq(Entry)
  BY <1>7, <1>8, FlattenType
<1>10. PICK src : Comes(src, DumpOwes, ss, N)
  BY <1>6, <1>7, <1>8, FlattenComes
<1>11. ASSUME NEW k \in 1..Len(DumpOwes)
       PROVE  src[k] \in 1..N /\ DumpOwes[k].id = src[k] /\ DumpOwes[k].urgent = FALSE
  <2>1. src[k] \in 1..N /\ ss[src[k]] = <<DumpOwes[k]>>
    BY <1>10 DEF Comes
  <2>2. DumpOwes[k] = Owed(src[k], Dumped(src[k]), FALSE)
    BY <1>5, <2>1
  <2> QED
    BY <2>1, <2>2 DEF Owed
<1>12. Ordered(DumpOwes)
  <2>1. Len(DumpOwes) \in Nat
    BY <1>9
  <2>2. \A i, j \in 1..Len(DumpOwes) : i < j => DumpOwes[i].id # DumpOwes[j].id
    <3>1. TAKE i, j \in 1..Len(DumpOwes)
    <3>2. HAVE i < j
    <3>3. src[i] < src[j] /\ src[i] \in 1..N /\ src[j] \in 1..N
      BY <1>10, <1>11, <3>2 DEF Comes
    <3>4. src[i] # src[j]
      BY <3>3
    <3> QED
      BY <1>11, <3>4
  <2>3. \A i, j \in 1..Len(DumpOwes) : i # j => i < j \/ j < i
    BY <2>1
  <2> QED
    BY <1>11, <2>2, <2>3 DEF Ordered
<1> QED
  BY <1>3, <1>9, <1>12

-----------------------------------------------------------------------------
(* How the steps of the page keep the invariants.                          *)

LEMMA RangeAppend ==
  ASSUME NEW M, NEW s \in Seq(M), NEW e \in M
  PROVE  Range(Append(s, e)) = Range(s) \union {e}
<1>1. Len(s) \in Nat /\ DOMAIN s = 1..Len(s) /\ DOMAIN Append(s, e) = 1..(Len(s) + 1)
      /\ Append(s, e)[Len(s) + 1] = e /\ \A i \in 1..Len(s) : Append(s, e)[i] = s[i]
  OBVIOUS
<1>2. \A i \in 1..(Len(s) + 1) : i = Len(s) + 1 \/ i \in 1..Len(s)
  BY <1>1
<1>3. 1..Len(s) \subseteq 1..(Len(s) + 1) /\ Len(s) + 1 \in 1..(Len(s) + 1)
  BY <1>1
<1> QED
  BY <1>1, <1>2, <1>3 DEF Range

LEMMA RangeTail ==
  ASSUME NEW M, NEW s \in Seq(M), s # <<>>
  PROVE  Range(s) = Range(Tail(s)) \union {Head(s)}
<1>1. Len(s) \in Nat /\ DOMAIN s = 1..Len(s) /\ DOMAIN Tail(s) = 1..(Len(s) - 1)
      /\ Head(s) = s[1] /\ 1 \in 1..Len(s) /\ \A i \in 1..(Len(s) - 1) : Tail(s)[i] = s[i + 1]
  OBVIOUS
<1>2. \A i \in 1..Len(s) : i = 1 \/ (i - 1 \in 1..(Len(s) - 1) /\ (i - 1) + 1 = i)
  BY <1>1
<1>3. \A i \in 1..(Len(s) - 1) : i + 1 \in 1..Len(s)
  BY <1>1
<1>4. \A i \in 1..Len(s) : s[i] \in Range(Tail(s)) \union {Head(s)}
  <2>1. TAKE i \in 1..Len(s)
  <2>2. CASE i = 1
    BY <1>1, <2>2
  <2>3. CASE i # 1
    <3>1. s[i] = Tail(s)[i - 1] /\ i - 1 \in DOMAIN Tail(s)
      BY <1>1, <1>2, <2>3
    <3> QED
      BY <3>1 DEF Range
  <2> QED
    BY <2>2, <2>3
<1>5. Range(Tail(s)) \subseteq Range(s) /\ Head(s) \in Range(s)
  BY <1>1, <1>3 DEF Range
<1>6. Range(s) = {s[i] : i \in 1..Len(s)}
  BY <1>1 DEF Range
<1> QED
  BY <1>4, <1>5, <1>6

LEMMA AskedOnce ==
  ASSUME NEW rs \in Seq(Request), NEW r \in Request, NEW p \in DOMAIN r, NEW i \in Nat,
         r[p] <= i
  PROVE  AskedFor(rs \o <<r>>, p, i)
<1> DEFINE all == rs \o <<r>>
           n == Len(rs) + 1
<1>1. n \in 1..Len(all) /\ Len(all) = n /\ all[n] = r /\ n \in Nat
  BY PutOneMore
<1> HIDE DEF all, n
<1>2. \A m \in n..Len(all) : m = n
  BY <1>1
<1> QED
  BY <1>1, <1>2 DEF AskedFor, NoneLater, all

\* A step that syncs, and may then paint.
Steps(pg, q, asking) ==
  /\ q \in PageState /\ asking \in Seq(Request) /\ Gate(q)
  /\ q.holes = "unexplained" => pg.holes = "unexplained"
  /\ q.chunks = pg.chunks
  /\ pg.progress => q.unfetchable \subseteq pg.unfetchable
  /\ \A rs \in Seq(Request) : \A held, qu, way :
       Covered(pg, held, rs, qu, way) => Covered(q, held, rs \o asking, qu, way)

LEMMA SyncSteps ==
  ASSUME NEW pg \in PageState
  PROVE  Steps(pg, SyncAssets(AfterReset(pg)), AssetBridgeRequest(AfterReset(pg)))
<1> DEFINE b == AfterReset(pg)
           q == SyncAssets(b)
           asking == AssetBridgeRequest(b)
<1>1. /\ b \in PageState /\ ~b.resetUnseen
      /\ b.chunks = pg.chunks /\ b.decoding = pg.decoding /\ b.textures = pg.textures
      /\ b.dropped = pg.dropped /\ b.holes = pg.holes
      /\ b.progress = pg.progress /\ b.unfetchable \subseteq pg.unfetchable
      /\ b.key = {} \/ (~pg.resetUnseen /\ b.key = pg.key)
  BY AfterResetDoes
<1>2. Syncs(b, q, asking)
  BY <1>1, SyncDoes
<1> HIDE DEF b, q, asking
<1>3. asking \in Seq(Request)
  <2>1. \A r \in Request : <<r>> \in Seq(Request)
    OBVIOUS
  <2> QED
    BY <1>2, <2>1, EmptySeq DEF Syncs
<1>4. ASSUME NEW rs \in Seq(Request), NEW held, NEW qu, NEW way,
             Covered(pg, held, rs, qu, way)
      PROVE  Covered(q, held, rs \o asking, qu, way)
  <2>1. SUFFICES ASSUME NEW p \in Awaited(q) \intersect held, NEW i \in Lacks(q, p)
                 PROVE  \/ AskedFor(rs \o asking, p, i)
                        \/ /\ NoneLater(rs \o asking, p, i, 1)
                           /\ Queued(qu, p, i) \/ Chunk(p, i) \in way
    BY DEF Covered
  <2>2. p \in q.key /\ p \in Awaited(q)
    BY DEF Awaited
  <2>3. CASE asking = <<>> /\ (q.key = {} \/ q.key = b.key)
    <3>1. ~pg.resetUnseen /\ q.key = pg.key
      BY <1>1, <2>2, <2>3
    <3>2. Awaited(pg) = Awaited(q) /\ Lacks(pg, p) = Lacks(q, p)
      BY <1>1, <1>2, <3>1 DEF Awaited, Lacks, Syncs
    <3>3. rs \o asking = rs
      BY <2>3
    <3> QED
      BY <1>4, <3>1, <3>2, <3>3 DEF Covered
  <2>4. ASSUME NEW r \in Request, asking = <<r>>, DOMAIN r = q.key,
               \A x \in q.key : \A j \in Lacks(q, x) : r[x] <= j
        PROVE  AskedFor(rs \o asking, p, i)
    <3>1. r[p] <= i /\ p \in DOMAIN r
      BY <2>2, <2>4
    <3>2. i \in Nat
      <4>1. p \in Pics /\ ChunksOf[p] \in Nat
        BY <1>2, <2>2, PicturesAssumption DEF Syncs, PageState
      <4> QED
        BY <4>1 DEF Lacks, Whole
    <3> QED
      BY <2>4, <3>1, <3>2, AskedOnce
  <2> QED
    BY <1>2, <2>3, <2>4 DEF Syncs
<1>5. /\ q \in PageState /\ Gate(q) /\ q.chunks = pg.chunks /\ q.holes = pg.holes
      /\ pg.progress => q.unfetchable \subseteq pg.unfetchable
  BY <1>1, <1>2 DEF Syncs
<1> QED
  BY <1>3, <1>4, <1>5 DEF Steps, b, q, asking

LEMMA DrawnSteps ==
  ASSUME NEW pg \in PageState
  PROVE  Steps(pg, Render(SyncAssets(AfterReset(pg))), AssetBridgeRequest(AfterReset(pg)))
<1> DEFINE s == SyncAssets(AfterReset(pg))
           q == Render(s)
           asking == AssetBridgeRequest(AfterReset(pg))
<1>1. Steps(pg, s, asking)
  BY SyncSteps
<1>2. s \in PageState
  BY <1>1 DEF Steps
<1>3. Paints(s, q)
  BY <1>2, RenderDoes
<1> HIDE DEF s, q, asking
<1>4. \A held, rs, qu, way : Covered(s, held, rs, qu, way) => Covered(q, held, rs, qu, way)
  BY <1>3 DEF Paints, Covered, Awaited, Lacks
<1>5. Gate(q)
  BY <1>1, <1>3 DEF Steps, Paints, Gate, Gating, MissingTextureIds
<1> QED
  BY <1>1, <1>3, <1>4, <1>5 DEF Steps, Paints, s, q, asking

LEMMA TakesKeepsGate ==
  ASSUME NEW pg \in PageState, NEW q, Takes(pg, q), Gate(pg)
  PROVE  Gate(q)
BY DEF Takes, Gate, Gating, MissingTextureIds

LEMMA TakesKeepsCover ==
  ASSUME NEW pg \in PageState, NEW q, Takes(pg, q), NEW held, NEW rs, NEW qu,
         NEW way, NEW way2, Covered(pg, held, rs, qu, way),
         pg.decoding \subseteq q.decoding \union q.textures \union q.dropped,
         \A p \in Awaited(q) : pg.chunks[p] \subseteq q.chunks[p],
         \A p \in Awaited(q) : \A i \in Lacks(q, p) :
            Chunk(p, i) \in way => Chunk(p, i) \in way2
  PROVE  Covered(q, held, rs, qu, way2)
<1>1. SUFFICES ASSUME ~q.resetUnseen,
                      NEW p \in Awaited(q) \intersect held, NEW i \in Lacks(q, p)
               PROVE  \/ AskedFor(rs, p, i)
                      \/ NoneLater(rs, p, i, 1) /\ (Queued(qu, p, i) \/ Chunk(p, i) \in way2)
  BY DEF Covered
<1>2. ~pg.resetUnseen /\ pg.textures \union pg.dropped \subseteq q.textures \union q.dropped
      /\ q.key = pg.key
  BY <1>1 DEF Takes
<1>3. p \in Awaited(pg) /\ p \in Awaited(q)
  BY <1>2 DEF Awaited
<1>4. i \in Lacks(pg, p)
  BY <1>3 DEF Lacks
<1> QED
  BY <1>2, <1>3, <1>4 DEF Covered

\* A chunk on its way to the page is ingested.
LEMMA IngestKeepsCover ==
  ASSUME NEW pg \in PageState, NEW c \in WireChunk, NEW held, NEW rs, NEW qu, NEW way,
         Covered(pg, held, rs, qu, way \union {c})
  PROVE  Covered(IngestTextureChunk(pg, c), held, rs, qu, way)
<1> DEFINE q == IngestTextureChunk(pg, c)
<1>1. /\ Takes(pg, q) /\ pg.decoding \subseteq q.decoding
      /\ \A p \in Pics \ (q.decoding \union q.textures \union q.dropped) :
            q.chunks[p] = IF p = c.id THEN pg.chunks[p] \union {c.index} ELSE pg.chunks[p]
  BY IngestDoes
<1> HIDE DEF q
<1>2. q.key \subseteq Pics
  BY <1>1 DEF Takes, PageState
<1>3. ASSUME NEW p \in Awaited(q)
      PROVE  pg.chunks[p] \subseteq q.chunks[p] /\ (p = c.id => c.index \in q.chunks[p])
  BY <1>1, <1>2 DEF Awaited
<1>4. \A p \in Awaited(q) : \A i \in Lacks(q, p) :
        Chunk(p, i) \in way \union {c} => Chunk(p, i) \in way
  <2>1. TAKE p \in Awaited(q)
  <2>2. TAKE i \in Lacks(q, p)
  <2>3. Chunk(p, i) = c => p = c.id /\ i = c.index
    BY DEF Chunk
  <2>4. i \notin q.chunks[p] /\ (p = c.id => c.index \in q.chunks[p])
    BY <1>3, Zenon DEF Lacks
  <2> QED
    BY <2>3, <2>4, Zenon
<1>5. Covered(q, held, rs, qu, way)
  <2>1. /\ pg.decoding \subseteq q.decoding \union q.textures \union q.dropped
        /\ \A p \in Awaited(q) : pg.chunks[p] \subseteq q.chunks[p]
    <3>1. \A p \in Awaited(q) : pg.chunks[p] \subseteq q.chunks[p]
      BY <1>3, Zenon
    <3> QED
      BY <1>1, <3>1
  <2> DEFINE old == way \union {c}
  <2>2. /\ Covered(pg, held, rs, qu, old)
        /\ \A p \in Awaited(q) : \A i \in Lacks(q, p) :
              Chunk(p, i) \in old => Chunk(p, i) \in way
    BY <1>4
  <2> HIDE DEF old
  <2> QED
    BY <1>1, <2>1, <2>2, TakesKeepsCover
<1> QED
  BY <1>5 DEF q

\* What every step of the page does to the page and to what it promises.
GivesNoneUp ==
  \/ page'.unfetchable \subseteq page.unfetchable
  \/ ~page.progress /\ Len(arrived') >= Len(arrived) /\ page'.chunks = page.chunks
PageKeeps ==
  /\ page' \in PageState /\ requests' \in Seq(Request)
  /\ PaintsWhole => PaintsWhole'
  /\ RepairsCover => RepairsCover'
  /\ GivesNoneUp

LEMMA FlagKeeps ==
  ASSUME NEW pg \in PageState, NEW flag \in BOOLEAN
  PROVE  LET q == [pg EXCEPT !.ingesting = flag]
         IN  /\ Takes(pg, q) /\ q.progress = pg.progress /\ Gate(pg) = Gate(q)
             /\ q.resetUnseen = pg.resetUnseen
             /\ \A held, rs, qu, way : Covered(pg, held, rs, qu, way) = Covered(q, held, rs, qu, way)
<1> DEFINE q == [pg EXCEPT !.ingesting = flag]
<1>1. q \in PageState
  BY DEF PageState
<1>2. /\ q.commands = pg.commands /\ q.ready = pg.ready /\ q.key = pg.key
      /\ q.unfetchable = pg.unfetchable /\ q.holes = pg.holes
      /\ q.resetUnseen = pg.resetUnseen /\ q.textures = pg.textures
      /\ q.dropped = pg.dropped /\ q.progress = pg.progress /\ q.chunks = pg.chunks
      /\ q.decoding = pg.decoding
  BY DEF PageState
<1> HIDE DEF q
<1>3. Takes(pg, q)
  <2>1. pg.resetUnseen \in BOOLEAN
    BY DEF PageState
  <2> QED
    BY <1>1, <1>2, <2>1 DEF Takes
<1>4. Gate(pg) = Gate(q)
  BY <1>2 DEF Gate, Gating, MissingTextureIds
<1>5. \A held, rs, qu, way : Covered(pg, held, rs, qu, way) = Covered(q, held, rs, qu, way)
  BY <1>2 DEF Covered, Awaited, Lacks
<1> QED
  BY <1>2, <1>3, <1>4, <1>5 DEF q

\* A sync closes the step: what it starts from is covered, so is the page.
LEMMA StepsKeep ==
  ASSUME TypeOK, NEW pg \in PageState, NEW asking, Steps(pg, page', asking),
         requests' = requests \o asking,
         PaintsWhole => pg.holes # "unexplained",
         UNCHANGED <<pixels, queue>>,
         RepairsCover => Covered(pg, pixels, requests, queue,
                                 Range(asset') \union Range(arrived')),
         pg.progress \/ (page.progress = pg.progress /\ pg.chunks = page.chunks
                          /\ Len(arrived') >= Len(arrived)),
         pg.unfetchable = page.unfetchable
  PROVE  PageKeeps
<1>1. page' \in PageState /\ requests' \in Seq(Request)
  <2>1. requests \in Seq(Request) /\ asking \in Seq(Request)
    BY DEF TypeOK, Steps
  <2> QED
    BY <2>1, ConcatProperties DEF Steps
<1>2. PaintsWhole => PaintsWhole'
  BY DEF PaintsWhole, Steps
<1>3. RepairsCover => RepairsCover'
  <2> DEFINE way == Range(asset') \union Range(arrived')
  <2>1. SUFFICES ASSUME Covered(pg, pixels, requests, queue, way)
                 PROVE  Covered(page', pixels, requests \o asking, queue, way)
    BY DEF RepairsCover
  <2>2. requests \in Seq(Request)
    BY DEF TypeOK
  <2> HIDE DEF way
  <2> QED
    BY <2>1, <2>2 DEF Steps
<1>4. GivesNoneUp
  <2>1. CASE pg.progress
    BY <2>1 DEF GivesNoneUp, Steps
  <2>2. CASE ~pg.progress
    BY <2>2 DEF GivesNoneUp, Steps
  <2> QED
    BY <2>1, <2>2
<1> QED
  BY <1>1, <1>2, <1>3, <1>4 DEF PageKeeps

LEMMA FrameArrivesKeeps ==
  ASSUME TypeOK, FrameArrives
  PROVE  PageKeeps
<1> DEFINE pg == [page EXCEPT !.reclaimed = FALSE, !.dirty = TRUE,
                              !.commands = Head(stream).names]
<1>1. page \in PageState /\ Head(stream).names \subseteq Pics
  <2>1. Head(stream) \in WireChunk \union WireFrame /\ Head(stream).kind = "frame"
    BY DEF TypeOK, FrameArrives
  <2> QED
    BY <2>1 DEF TypeOK, WireChunk, WireFrame
<1>2. pg \in PageState
  BY <1>1 DEF PageState
<1>3. /\ pg.holes = page.holes /\ pg.progress = page.progress /\ pg.chunks = page.chunks
      /\ pg.unfetchable = page.unfetchable /\ pg.key = page.key
      /\ pg.decoding = page.decoding /\ pg.textures = page.textures
      /\ pg.dropped = page.dropped /\ pg.resetUnseen = page.resetUnseen
  BY <1>1 DEF PageState
<1>4. /\ page' = Render(SyncAssets(AfterReset(pg)))
      /\ requests' = requests \o AssetBridgeRequest(AfterReset(pg))
      /\ UNCHANGED <<pixels, queue, asset, arrived>>
  BY DEF FrameArrives, SyncedAndDrawn, host
<1> HIDE DEF pg
<1>5. Steps(pg, page', AssetBridgeRequest(AfterReset(pg)))
  BY <1>2, <1>4, DrawnSteps
<1>6. Len(arrived) \in Nat
  BY DEF TypeOK
<1>7. RepairsCover => Covered(pg, pixels, requests, queue, Range(asset') \union Range(arrived'))
  BY <1>3, <1>4 DEF RepairsCover, Covered, Awaited, Lacks
<1>8. PaintsWhole => pg.holes # "unexplained"
  BY <1>3 DEF PaintsWhole
<1>9. Len(arrived') >= Len(arrived)
  BY <1>4, <1>6
<1> QED
  BY <1>2, <1>3, <1>4, <1>5, <1>7, <1>8, <1>9, StepsKeep

LEMMA ChunkArrivesKeeps ==
  ASSUME TypeOK, ChunkArrives
  PROVE  PageKeeps
<1> DEFINE c == Head(stream)
           pg == IngestTextureChunk(page, c)
           way == Range(asset) \union Range(arrived)
<1>1. page \in PageState /\ c \in WireChunk
  <2>1. c \in WireChunk \union WireFrame /\ c.kind = "chunk"
    BY DEF TypeOK, ChunkArrives
  <2> QED
    BY <2>1 DEF TypeOK, WireFrame
<1>2. /\ page' = SyncAssets(AfterReset(pg))
      /\ requests' = requests \o AssetBridgeRequest(AfterReset(pg))
      /\ UNCHANGED <<pixels, queue, asset, arrived>>
  BY DEF ChunkArrives, Synced, host
<1>3. Takes(page, pg) /\ pg.progress
  BY <1>1, IngestDoes
<1>4. RepairsCover => Covered(pg, pixels, requests, queue, way)
  <2>1. RepairsCover => Covered(page, pixels, requests, queue, way \union {c})
    BY DEF RepairsCover, Covered
  <2> HIDE DEF way, c
  <2> QED
    BY <1>1, <2>1, IngestKeepsCover
<1> HIDE DEF pg
<1>5. Steps(pg, page', AssetBridgeRequest(AfterReset(pg)))
  BY <1>2, <1>3, SyncSteps DEF Takes
<1>6. pg \in PageState /\ pg.holes = page.holes /\ pg.unfetchable = page.unfetchable
  BY <1>3 DEF Takes
<1>7. RepairsCover => Covered(pg, pixels, requests, queue, Range(asset') \union Range(arrived'))
  BY <1>2, <1>4
<1> QED
  BY <1>2, <1>3, <1>5, <1>6, <1>7, StepsKeep DEF PaintsWhole

LEMMA AssetArrivesKeeps ==
  ASSUME TypeOK, AssetArrives
  PROVE  PageKeeps
<1>1. /\ UNCHANGED <<page, pixels, queue, requests>> /\ asset # <<>>
      /\ asset' = Tail(asset) /\ arrived' = Append(arrived, Head(asset))
  BY DEF AssetArrives, host
<1>2. asset \in Seq(WireChunk) /\ arrived \in Seq(WireChunk) /\ Head(asset) \in WireChunk
  BY <1>1 DEF TypeOK
<1>3. Range(asset') \union Range(arrived') = Range(asset) \union Range(arrived)
  BY <1>1, <1>2, RangeTail, RangeAppend
<1> QED
  BY <1>1, <1>3 DEF PageKeeps, TypeOK, PaintsWhole, RepairsCover, GivesNoneUp

LEMMA RenderLoopIngestsKeeps ==
  ASSUME TypeOK, RenderLoopIngests
  PROVE  PageKeeps
<1> DEFINE c == Head(arrived)
           pg == IngestTextureChunk(page, c)
           still == [pg EXCEPT !.ingesting = TRUE]
           last == [pg EXCEPT !.ingesting = FALSE]
           way == Range(asset) \union Range(arrived')
<1>1. page \in PageState /\ c \in WireChunk /\ arrived \in Seq(WireChunk) /\ arrived # <<>>
      /\ arrived' = Tail(arrived) /\ UNCHANGED <<pixels, queue, asset>>
  BY DEF TypeOK, RenderLoopIngests, host
<1>2. Takes(page, pg) /\ pg.progress
  BY <1>1, IngestDoes
<1>3. RepairsCover => Covered(pg, pixels, requests, queue, way)
  <2>1. Range(asset) \union Range(arrived) = way \union {c}
    BY <1>1, RangeTail
  <2>2. RepairsCover => Covered(page, pixels, requests, queue, way \union {c})
    BY <2>1 DEF RepairsCover
  <2> HIDE DEF way, c
  <2> QED
    BY <1>1, <2>2, IngestKeepsCover
<1>4. \/ page' = still /\ UNCHANGED requests
      \/ /\ page' = Render(SyncAssets(AfterReset(last)))
         /\ requests' = requests \o AssetBridgeRequest(AfterReset(last))
  BY DEF RenderLoopIngests, SyncedAndDrawn
<1>5. pg \in PageState
  BY <1>2 DEF Takes
<1> HIDE DEF pg, way, c
<1>6. CASE page' = still /\ UNCHANGED requests
  <2>1. /\ Takes(pg, still) /\ Gate(pg) = Gate(still)
        /\ \A held, rs, qu, w : Covered(pg, held, rs, qu, w) = Covered(still, held, rs, qu, w)
    BY <1>5, FlagKeeps
  <2> HIDE DEF still
  <2>2. Gate(page) => Gate(page')
    BY <1>1, <1>2, <1>6, <2>1, TakesKeepsGate
  <2>3. page'.holes = page.holes /\ page'.unfetchable = page.unfetchable
        /\ page' \in PageState
    BY <1>2, <1>6, <2>1 DEF Takes
  <2>4. RepairsCover => RepairsCover'
    BY <1>1, <1>3, <1>6, <2>1 DEF RepairsCover, way
  <2>5. requests' \in Seq(Request)
    BY <1>6 DEF TypeOK
  <2> QED
    BY <2>2, <2>3, <2>4, <2>5 DEF PageKeeps, PaintsWhole, GivesNoneUp
<1>7. CASE /\ page' = Render(SyncAssets(AfterReset(last)))
           /\ requests' = requests \o AssetBridgeRequest(AfterReset(last))
  <2>1. /\ Takes(pg, last) /\ last.progress = pg.progress
        /\ \A held, rs, qu, w : Covered(pg, held, rs, qu, w) = Covered(last, held, rs, qu, w)
    BY <1>5, FlagKeeps
  <2> HIDE DEF last
  <2>2. Steps(last, page', AssetBridgeRequest(AfterReset(last)))
    BY <1>7, <2>1, DrawnSteps DEF Takes
  <2>3. last.holes = page.holes /\ last.unfetchable = page.unfetchable
        /\ last \in PageState /\ last.progress
    BY <1>2, <2>1 DEF Takes
  <2>4. RepairsCover => Covered(last, pixels, requests, queue,
                                Range(asset') \union Range(arrived'))
    BY <1>1, <1>3, <2>1 DEF way
  <2> QED
    BY <1>1, <1>7, <2>2, <2>3, <2>4, StepsKeep DEF PaintsWhole
<1> QED
  BY <1>4, <1>6, <1>7

LEMMA RenderLoopPaintsKeeps ==
  ASSUME TypeOK, RenderLoopPaints
  PROVE  PageKeeps
<1>1. /\ page \in PageState /\ page' = Render(page)
      /\ UNCHANGED <<pixels, queue, asset, arrived, requests>>
  BY DEF RenderLoopPaints, TypeOK, host
<1>2. Paints(page, page')
  BY <1>1, RenderDoes
<1>3. Gate(page) => Gate(page')
  BY <1>2 DEF Paints, Gate, Gating, MissingTextureIds
<1>4. RepairsCover => RepairsCover'
  BY <1>1, <1>2 DEF Paints, RepairsCover, Covered, Awaited, Lacks
<1> QED
  BY <1>1, <1>2, <1>3, <1>4 DEF PageKeeps, PaintsWhole, GivesNoneUp, Paints, TypeOK

LEMMA DecodeDoneKeeps ==
  ASSUME TypeOK, NEW p \in Pics, DecodeDone(p)
  PROVE  PageKeeps
<1> DEFINE pg == [page EXCEPT !.decoding = @ \ {p}, !.progress = TRUE,
                              !.decoded = @ \/ p \in page.commands]
<1>1. /\ page \in PageState /\ page' = SetTexture(pg, p)
      /\ UNCHANGED <<pixels, queue, asset, arrived, requests>>
  BY DEF DecodeDone, TypeOK, host
<1>2. pg \in PageState
  BY <1>1 DEF PageState
<1>3. /\ pg.commands = page.commands /\ pg.ready = page.ready /\ pg.key = page.key
      /\ pg.unfetchable = page.unfetchable /\ pg.holes = page.holes
      /\ pg.resetUnseen = page.resetUnseen /\ pg.textures = page.textures
      /\ pg.dropped = page.dropped /\ pg.chunks = page.chunks
      /\ pg.decoding = page.decoding \ {p}
  BY <1>1 DEF PageState
<1> HIDE DEF pg
<1>4. /\ Takes(pg, page') /\ p \in page'.textures \union page'.dropped
      /\ page'.chunks = pg.chunks /\ page'.decoding = pg.decoding
  BY <1>1, <1>2, SetTextureDoes
<1>5. Takes(page, page')
  BY <1>3, <1>4 DEF Takes
<1>6. Gate(page) => Gate(page')
  BY <1>1, <1>5, TakesKeepsGate
<1>7. RepairsCover => RepairsCover'
  <2> DEFINE way == Range(asset) \union Range(arrived)
  <2>1. /\ page.decoding \subseteq page'.decoding \union page'.textures \union page'.dropped
        /\ \A x \in Awaited(page') : page.chunks[x] \subseteq page'.chunks[x]
    BY <1>3, <1>4
  <2>2. SUFFICES ASSUME Covered(page, pixels, requests, queue, way)
                 PROVE  Covered(page', pixels, requests, queue, way)
    BY <1>1 DEF RepairsCover
  <2> HIDE DEF way
  <2> QED
    BY <1>1, <1>5, <2>1, <2>2, TakesKeepsCover
<1> QED
  BY <1>1, <1>5, <1>6, <1>7 DEF PageKeeps, PaintsWhole, GivesNoneUp, Takes, TypeOK

LEMMA BackoffPassesKeeps ==
  ASSUME TypeOK, BackoffPasses
  PROVE  PageKeeps
<1>1. /\ page \in PageState /\ page' = [page EXCEPT !.fresh = FALSE]
      /\ UNCHANGED <<pixels, queue, asset, arrived, requests>>
  BY DEF BackoffPasses, TypeOK, host
<1>2. page' \in PageState
  BY <1>1 DEF PageState
<1>3. /\ page'.commands = page.commands /\ page'.ready = page.ready /\ page'.key = page.key
      /\ page'.unfetchable = page.unfetchable /\ page'.holes = page.holes
      /\ page'.resetUnseen = page.resetUnseen /\ page'.textures = page.textures
      /\ page'.dropped = page.dropped /\ page'.chunks = page.chunks
      /\ page'.decoding = page.decoding
  BY <1>1 DEF PageState
<1>4. Gate(page) => Gate(page')
  BY <1>3 DEF Gate, Gating, MissingTextureIds
<1>5. RepairsCover => RepairsCover'
  BY <1>1, <1>3 DEF RepairsCover, Covered, Awaited, Lacks
<1> QED
  BY <1>1, <1>2, <1>3, <1>4, <1>5 DEF PageKeeps, PaintsWhole, GivesNoneUp, TypeOK

-----------------------------------------------------------------------------
(* How the steps of the host and the channels keep them.                   *)

HostKeeps ==
  TypeOK' /\ (Ordered(queue) => Ordered(queue')) /\ (RepairsCover => RepairsCover')

\* The pictures on their way, or owed, may only grow; those held may shrink.
LEMMA CoverGrows ==
  ASSUME NEW pg, NEW held, NEW held2 \in SUBSET held, NEW rs, NEW q, NEW q2, NEW way, NEW way2,
         Covered(pg, held, rs, q, way),
         \A p \in Awaited(pg) \intersect held2 : \A i \in Lacks(pg, p) :
            Queued(q, p, i) \/ Chunk(p, i) \in way => Queued(q2, p, i) \/ Chunk(p, i) \in way2
  PROVE  Covered(pg, held2, rs, q2, way2)
BY DEF Covered

LEMMA SendTypes ==
  ASSUME TypeOK, NEW S \in SUBSET Pics, ServicePictureSend(S)
  PROVE  stream' \in Seq(WireChunk \union WireFrame) /\ believed' \subseteq Pics
<1> DEFINE packed == Packed((S \ believed) \intersect pixels)
           M == WireChunk \union WireFrame
<1>1. packed \in Seq(WireChunk) /\ FrameOf(S) \in WireFrame
  BY PacketTypes
<1>2. stream \in Seq(M) /\ packed \in Seq(M) /\ <<FrameOf(S)>> \in Seq(M)
  <2>1. stream \in Seq(M)
    BY DEF TypeOK
  <2>2. packed \in Seq(M)
    <3> HIDE DEF packed
    <3> QED
      BY <1>1, SeqMonotonic
  <2>3. <<FrameOf(S)>> \in Seq(M)
    <3>1. FrameOf(S) \in M
      BY <1>1
    <3> HIDE DEF M
    <3> QED
      BY <3>1
  <2> QED
    BY <2>1, <2>2, <2>3
<1>3. stream' = stream \o packed \o <<FrameOf(S)>>
  BY DEF ServicePictureSend
<1>4. stream \o packed \o <<FrameOf(S)>> \in Seq(M)
  <2> HIDE DEF packed, M
  <2>1. stream \o packed \in Seq(M)
    BY <1>2, ConcatProperties
  <2> QED
    BY <1>2, <2>1, ConcatProperties
<1> QED
  BY <1>3, <1>4 DEF ServicePictureSend, TypeOK

LEMMA PresentKeeps ==
  ASSUME TypeOK, NEW S \in SUBSET Pics, Present(S)
  PROVE  HostKeeps
<1>1. /\ ServicePictureSend(S) /\ screen' = S /\ presents' = presents + 1
      /\ UNCHANGED <<pixels, queue, drain, worker, losses, asset, requests, arrived, page>>
  BY DEF Present
<1>2. TypeOK'
  <2>1. stream' \in Seq(WireChunk \union WireFrame) /\ believed' \subseteq Pics
    BY <1>1, SendTypes
  <2>2. presents' \in Nat
    BY <1>1 DEF TypeOK
  <2> QED
    BY <1>1, <2>1, <2>2 DEF TypeOK
<1>3. RepairsCover => RepairsCover'
  BY <1>1 DEF RepairsCover
<1> QED
  BY <1>1, <1>2, <1>3 DEF HostKeeps

LEMMA ReleaseKeeps ==
  ASSUME TypeOK, NEW p \in Pics, Release(p)
  PROVE  HostKeeps
<1>1. /\ pixels' = pixels \ {p}
      /\ UNCHANGED <<screen, presents, believed, queue, drain, worker, stream, losses,
                     asset, requests, arrived, page>>
  BY DEF Release
<1>2. TypeOK'
  BY <1>1 DEF TypeOK
<1>3. RepairsCover => RepairsCover'
  BY <1>1 DEF RepairsCover, Covered
<1> QED
  BY <1>1, <1>2, <1>3 DEF HostKeeps

\* The first request is taken off: what later ones ask for stays asked for,
\* and what only it asked for, at no chunk later than i, is now owed.
LEMMA RequestTaken ==
  ASSUME NEW rs \in Seq(Request), rs # <<>>, NEW p, NEW i \in Nat,
         AskedFor(rs, p, i) \/ NoneLater(rs, p, i, 1)
  PROVE  \/ AskedFor(Tail(rs), p, i)
         \/ /\ NoneLater(Tail(rs), p, i, 1)
            /\ p \in DOMAIN Head(rs) => Head(rs)[p] <= i
            /\ AskedFor(rs, p, i) => p \in DOMAIN Head(rs)
<1>1. /\ Len(rs) \in Nat /\ Len(Tail(rs)) = Len(rs) - 1 /\ Head(rs) = rs[1] /\ 1 \in 1..Len(rs)
      /\ \A m \in 1..(Len(rs) - 1) : Tail(rs)[m] = rs[m + 1]
  OBVIOUS
<1>2. ASSUME NEW n \in 1..Len(rs), p \in DOMAIN rs[n], NoneLater(rs, p, i, n), n # 1
      PROVE  AskedFor(Tail(rs), p, i)
  <2>1. n - 1 \in 1..Len(Tail(rs)) /\ Tail(rs)[n - 1] = rs[n]
    BY <1>1, <1>2
  <2>2. NoneLater(Tail(rs), p, i, n - 1)
    <3>1. \A m \in (n - 1)..Len(Tail(rs)) :
            m + 1 \in n..Len(rs) /\ Tail(rs)[m] = rs[m + 1]
      BY <1>1, <2>1
    <3> QED
      BY <1>2, <3>1 DEF NoneLater
  <2> QED
    BY <1>2, <2>1, <2>2 DEF AskedFor
<1>3. ASSUME NoneLater(rs, p, i, 1)
      PROVE  NoneLater(Tail(rs), p, i, 1) /\ (p \in DOMAIN Head(rs) => Head(rs)[p] <= i)
  BY <1>1, <1>3 DEF NoneLater
<1>4. ASSUME AskedFor(rs, p, i), ~AskedFor(Tail(rs), p, i)
      PROVE  NoneLater(rs, p, i, 1) /\ p \in DOMAIN Head(rs)
  <2>1. PICK n \in 1..Len(rs) : p \in DOMAIN rs[n] /\ NoneLater(rs, p, i, n)
    BY <1>4 DEF AskedFor
  <2>2. n = 1
    BY <1>2, <1>4, <2>1
  <2> QED
    BY <1>1, <2>1, <2>2
<1>5. ~AskedFor(Tail(rs), p, i) => NoneLater(rs, p, i, 1)
  BY <1>4
<1>6. ~AskedFor(Tail(rs), p, i) /\ AskedFor(rs, p, i) => p \in DOMAIN Head(rs)
  BY <1>4
<1> QED
  BY <1>3, <1>5, <1>6

LEMMA LackIsNat ==
  ASSUME NEW pg \in PageState, NEW p \in Awaited(pg), NEW i \in Lacks(pg, p)
  PROVE  p \in Pics /\ i \in Nat /\ i < ChunksOf[p]
<1>1. p \in Pics /\ ChunksOf[p] \in Nat
  BY PicturesAssumption DEF Awaited, PageState
<1> QED
  BY <1>1 DEF Lacks, Whole

LEMMA ResendKeeps ==
  ASSUME TypeOK, ResendMissingTextures
  PROVE  HostKeeps
<1> DEFINE r == Head(requests)
           known == DOMAIN r \intersect pixels
           at == [p \in known |-> r[p]]
           d == DeferFrontAt(queue, at)
           way == Range(asset) \union Range(arrived)
<1>1. /\ requests # <<>> /\ drain = "off"
      /\ queue' = d /\ worker' = StartTextureDrainWorker(d) /\ requests' = Tail(requests)
      /\ IF known # {} THEN ServicePictureSend(screen) ELSE UNCHANGED <<stream, believed>>
      /\ UNCHANGED <<screen, presents, pixels, drain, losses, asset, arrived, page>>
  BY DEF ResendMissingTextures
<1>2. /\ requests \in Seq(Request) /\ queue \in Seq(Entry) /\ r \in Request
      /\ Tail(requests) \in Seq(Request)
  <2>1. requests \in Seq(Request) /\ queue \in Seq(Entry)
    BY DEF TypeOK
  <2> QED
    BY <1>1, <2>1
<1>3. at \in Request /\ DOMAIN at = known /\ known \subseteq Pics
  <2>1. known \subseteq Pics /\ \A p \in known : r[p] \in Nat /\ r[p] < ChunksOf[p]
    BY <1>2 DEF Request
  <2>2. at \in [known -> Nat] /\ DOMAIN at = known
    BY <2>1
  <2>3. \A p \in DOMAIN at : at[p] < ChunksOf[p]
    BY <2>1
  <2> HIDE DEF at, known
  <2> QED
    BY <2>1, <2>2, <2>3 DEF Request
<1>4. /\ d \in Seq(Entry) /\ (Ordered(queue) => Ordered(d))
      /\ \A p \in known, i \in Nat : at[p] <= i => Queued(d, p, i)
      /\ \A p \in Pics \ known, i \in Nat : Queued(queue, p, i) => Queued(d, p, i)
  <2> HIDE DEF at, known
  <2> QED
    BY <1>2, <1>3, DeferDoes
<1>5. TypeOK'
  <2>1. stream' \in Seq(WireChunk \union WireFrame) /\ believed' \subseteq Pics
    <3>1. CASE known # {}
      BY <1>1, <3>1, SendTypes DEF TypeOK
    <3>2. CASE known = {}
      BY <1>1, <3>2 DEF TypeOK
    <3> QED
      BY <3>1, <3>2
  <2> HIDE DEF d, known
  <2>2. worker' \in {"idle", "running", "leaving", "late", "gone"}
    BY <1>1 DEF StartTextureDrainWorker, TypeOK
  <2> QED
    BY <1>1, <1>2, <1>4, <2>1, <2>2 DEF TypeOK
<1>6. ASSUME RepairsCover PROVE RepairsCover'
  <2>1. SUFFICES ASSUME ~page.resetUnseen, NEW p \in Awaited(page) \intersect pixels,
                        NEW i \in Lacks(page, p)
                 PROVE  \/ AskedFor(Tail(requests), p, i)
                        \/ /\ NoneLater(Tail(requests), p, i, 1)
                           /\ Queued(d, p, i) \/ Chunk(p, i) \in way
    BY <1>1 DEF RepairsCover, Covered
  <2>2. p \in Pics /\ i \in Nat
    BY LackIsNat DEF TypeOK
  <2>3. \/ AskedFor(requests, p, i)
        \/ NoneLater(requests, p, i, 1) /\ (Queued(queue, p, i) \/ Chunk(p, i) \in way)
    BY <1>6, <2>1 DEF RepairsCover, Covered
  <2> HIDE DEF d, way
  <2>4. \/ AskedFor(Tail(requests), p, i)
        \/ /\ NoneLater(Tail(requests), p, i, 1)
           /\ p \in DOMAIN r => r[p] <= i
           /\ AskedFor(requests, p, i) => p \in DOMAIN r
    BY <1>1, <1>2, <2>2, <2>3, RequestTaken
  <2>5. CASE p \in DOMAIN r
    <3>1. p \in known /\ at[p] = r[p]
      BY <2>1, <2>5
    <3> HIDE DEF r, known, at
    <3> QED
      BY <1>4, <2>2, <2>4, <2>5, <3>1
  <2>6. CASE p \notin DOMAIN r
    <3>1. p \in Pics \ known
      BY <2>2, <2>6
    <3> HIDE DEF r, known, at
    <3> QED
      BY <1>4, <2>2, <2>3, <2>4, <2>6, <3>1
  <2> QED
    BY <2>5, <2>6
<1> QED
  BY <1>1, <1>4, <1>5, <1>6 DEF HostKeeps

\* Taking the first entry off, and putting it or the rest of it back.
LEMMA OrderedTail ==
  ASSUME NEW q \in Seq(Entry), q # <<>>
  PROVE  /\ Tail(q) \in Seq(Entry) /\ (Ordered(q) => Ordered(Tail(q)))
         /\ \A p, i : Queued(q, p, i) =>
              Queued(Tail(q), p, i) \/ (Head(q).id = p /\ Head(q).next <= i)
<1>1. /\ Len(q) \in Nat /\ Len(Tail(q)) = Len(q) - 1 /\ Head(q) = q[1] /\ 1 \in 1..Len(q)
      /\ \A m \in 1..(Len(q) - 1) : Tail(q)[m] = q[m + 1] /\ Tail(q) \in Seq(Entry)
  OBVIOUS
<1>2. Ordered(q) => Ordered(Tail(q))
  <2>1. \A m \in 1..Len(Tail(q)) : m + 1 \in 1..Len(q) /\ Tail(q)[m] = q[m + 1]
    BY <1>1
  <2>2. \A i, j \in 1..Len(Tail(q)) : (i < j => i + 1 < j + 1) /\ (i # j => i + 1 # j + 1)
    BY <1>1
  <2> QED
    BY <2>1, <2>2 DEF Ordered
<1>3. ASSUME NEW p, NEW i, Queued(q, p, i)
      PROVE  Queued(Tail(q), p, i) \/ (Head(q).id = p /\ Head(q).next <= i)
  <2>1. PICK n \in 1..Len(q) : q[n].id = p /\ q[n].next <= i
    BY <1>3 DEF Queued
  <2>2. CASE n = 1
    BY <1>1, <2>1, <2>2
  <2>3. CASE n # 1
    <3>1. n - 1 \in 1..Len(Tail(q)) /\ Tail(q)[n - 1] = q[n]
      BY <1>1, <2>3
    <3> QED
      BY <2>1, <3>1 DEF Queued
  <2> QED
    BY <2>2, <2>3
<1>4. Tail(q) \in Seq(Entry)
  OBVIOUS
<1> QED
  BY <1>2, <1>3, <1>4

LEMMA OrderedHead ==
  ASSUME NEW q \in Seq(Entry), q # <<>>, NEW e \in Entry,
         e.id = Head(q).id, e.urgent = Head(q).urgent
  PROVE  LET n == <<e>> \o Tail(q)
         IN  /\ n \in Seq(Entry) /\ n # <<>> /\ (Ordered(q) => Ordered(n))
             /\ \A p, i : Queued(Tail(q), p, i) => Queued(n, p, i)
             /\ \A i : e.next <= i => Queued(n, e.id, i)
<1> DEFINE n == <<e>> \o Tail(q)
<1>1. /\ Len(q) \in Nat /\ Len(Tail(q)) = Len(q) - 1 /\ Head(q) = q[1] /\ 1 \in 1..Len(q)
      /\ \A m \in 1..(Len(q) - 1) : Tail(q)[m] = q[m + 1]
  OBVIOUS
<1>2. /\ n \in Seq(Entry) /\ Len(n) = Len(q) /\ n[1] = e
      /\ \A m \in 2..Len(q) : n[m] = Tail(q)[m - 1] /\ n[m] = q[m]
  OBVIOUS
<1> HIDE DEF n
<1>3. \A m \in 1..Len(q) : n[m].id = q[m].id /\ n[m].urgent = q[m].urgent
  <2>1. TAKE m \in 1..Len(q)
  <2>2. m = 1 \/ m \in 2..Len(q)
    BY <1>1
  <2> QED
    BY <1>1, <1>2, <2>2
<1>4. Ordered(q) => Ordered(n)
  BY <1>2, <1>3 DEF Ordered
<1>5. ASSUME NEW p, NEW i, Queued(Tail(q), p, i) PROVE Queued(n, p, i)
  <2>1. PICK m \in 1..Len(Tail(q)) : Tail(q)[m].id = p /\ Tail(q)[m].next <= i
    BY <1>5 DEF Queued
  <2>2. m + 1 \in 2..Len(q) /\ (m + 1) - 1 = m /\ m + 1 \in 1..Len(n)
    BY <1>1, <1>2
  <2>3. n[m + 1] = Tail(q)[m]
    BY <1>2, <2>2
  <2> QED
    BY <2>1, <2>2, <2>3 DEF Queued
<1>6. ASSUME NEW i, e.next <= i PROVE Queued(n, e.id, i)
  BY <1>1, <1>2, <1>6 DEF Queued
<1>7. n # <<>>
  BY <1>1, <1>2
<1> QED
  BY <1>2, <1>4, <1>5, <1>6, <1>7 DEF n

LEMMA OrderedTurned ==
  ASSUME NEW q \in Seq(Entry), q # <<>>, ~Head(q).urgent
  PROVE  LET n == Append(Tail(q), Head(q))
         IN  /\ n \in Seq(Entry) /\ (Ordered(q) => Ordered(n))
             /\ \A p, i : Queued(q, p, i) => Queued(n, p, i)
<1> DEFINE n == Append(Tail(q), Head(q))
           L == Len(q)
<1>1. /\ L \in Nat /\ Len(n) = L /\ Head(q) = q[1] /\ 1 \in 1..L /\ n[L] = q[1]
      /\ \A m \in 1..(L - 1) : n[m] = q[m + 1]
  OBVIOUS
<1>2. n \in Seq(Entry)
  OBVIOUS
<1> DEFINE from == [m \in 1..L |-> IF m = L THEN 1 ELSE m + 1]
<1> HIDE DEF n, L
<1>3. \A m \in 1..L : from[m] \in 1..L /\ n[m] = q[from[m]]
  BY <1>1
<1>4. \A i, j \in 1..L : i # j => from[i] # from[j]
  BY <1>1
<1>5. ASSUME Ordered(q) PROVE Ordered(n)
  <2>1. \A m \in 1..L : ~q[m].urgent
    <3>1. \A m \in 1..L : m = 1 \/ 1 < m
      BY <1>1
    <3> QED
      BY <1>1, <1>5, <3>1 DEF Ordered, L
  <2> QED
    BY <1>1, <1>3, <1>4, <1>5, <2>1 DEF Ordered, L
<1>6. ASSUME NEW p, NEW i, Queued(q, p, i) PROVE Queued(n, p, i)
  <2>1. PICK k \in 1..L : q[k].id = p /\ q[k].next <= i
    BY <1>6 DEF Queued, L
  <2>2. \E m \in 1..L : n[m] = q[k]
    <3>1. CASE k = 1
      BY <1>1, <3>1
    <3>2. CASE k # 1
      <4>1. k - 1 \in 1..(L - 1) /\ k - 1 \in 1..L /\ (k - 1) + 1 = k
        BY <1>1, <3>2
      <4> QED
        BY <1>1, <4>1
    <3> QED
      BY <3>1, <3>2
  <2> QED
    BY <1>1, <2>1, <2>2 DEF Queued
<1> QED
  BY <1>2, <1>5, <1>6 DEF n

LEMMA DrainChunkKeeps ==
  ASSUME TypeOK, DrainChunk
  PROVE  HostKeeps
<1> DEFINE e == Head(queue)
           c == Chunk(e.id, e.next)
           rest == [e EXCEPT !.next = @ + 1]
           way == Range(asset) \union Range(arrived)
<1>1. /\ queue # <<>> /\ queue \in Seq(Entry) /\ asset \in Seq(WireChunk)
      /\ asset' = Append(asset, c)
      /\ \/ /\ rest.next < ChunksOf[e.id]
            /\ queue' = <<rest>> \o Tail(queue) /\ drain' = "sending"
         \/ /\ rest.next >= ChunksOf[e.id]
            /\ queue' = Tail(queue) /\ drain' = "looking"
      /\ UNCHANGED <<screen, presents, pixels, believed, worker, stream, losses, requests,
                     arrived, page>>
  BY DEF DrainChunk, MaySend, TypeOK, host
<1>2. e \in Entry
  BY <1>1
<1>3. /\ e.id \in Pics /\ e.next \in Nat /\ e.next < ChunksOf[e.id] /\ ChunksOf[e.id] \in Nat
      /\ c \in WireChunk /\ rest.id = e.id /\ rest.urgent = e.urgent /\ rest.next = e.next + 1
      /\ rest.next < ChunksOf[e.id] => rest \in Entry
  <2>1. e.id \in Pics /\ e.next \in Nat /\ e.next < ChunksOf[e.id]
    BY <1>2 DEF Entry
  <2>2. ChunksOf[e.id] \in Nat
    BY <2>1, PicturesAssumption
  <2>3. c \in WireChunk
    BY <2>1, PacketTypes
  <2>4. /\ rest.id = e.id /\ rest.urgent = e.urgent /\ rest.next = e.next + 1
        /\ rest.next < ChunksOf[e.id] => rest \in Entry
    <3> HIDE DEF e
    <3> QED
      BY <1>2 DEF Entry
  <2> QED
    BY <2>1, <2>2, <2>3, <2>4
<1>4. asset' \in Seq(WireChunk) /\ Range(asset') = Range(asset) \union {c}
  <2> HIDE DEF c
  <2>1. Append(asset, c) \in Seq(WireChunk)
    BY <1>1, <1>3
  <2> QED
    BY <1>1, <1>3, <2>1, RangeAppend
<1>5. /\ Tail(queue) \in Seq(Entry) /\ (Ordered(queue) => Ordered(Tail(queue)))
      /\ \A p, i : Queued(queue, p, i) => Queued(Tail(queue), p, i) \/ (e.id = p /\ e.next <= i)
  BY <1>1, OrderedTail
<1>6. ASSUME NEW p, NEW i \in Nat, e.id = p, e.next <= i, ~(e.next + 1 <= i)
      PROVE  Chunk(p, i) = c
  BY <1>3, <1>6
<1>7. CASE rest.next < ChunksOf[e.id] /\ queue' = <<rest>> \o Tail(queue) /\ drain' = "sending"
  <2>1. /\ queue' \in Seq(Entry) /\ queue' # <<>> /\ (Ordered(queue) => Ordered(queue'))
        /\ \A p, i : Queued(Tail(queue), p, i) => Queued(queue', p, i)
        /\ \A i : e.next + 1 <= i => Queued(queue', e.id, i)
    <3> HIDE DEF rest
    <3> QED
      BY <1>1, <1>3, <1>7, OrderedHead
  <2>2. TypeOK'
    BY <1>1, <1>4, <1>7, <2>1 DEF TypeOK
  <2>3. ASSUME NEW p \in Awaited(page) \intersect pixels, NEW i \in Lacks(page, p),
               Queued(queue, p, i) \/ Chunk(p, i) \in way
        PROVE  Queued(queue', p, i) \/ Chunk(p, i) \in Range(asset') \union Range(arrived')
    <3>1. i \in Nat
      BY LackIsNat DEF TypeOK
    <3>2. CASE Chunk(p, i) \in way
      BY <1>1, <1>4, <3>2
    <3>3. CASE Queued(Tail(queue), p, i)
      BY <2>1, <3>3
    <3>4. CASE e.id = p /\ e.next <= i
      <4> HIDE DEF c, e
      <4> QED
        BY <1>4, <1>6, <2>1, <3>1, <3>4
    <3> QED
      BY <1>5, <2>3, <3>2, <3>3, <3>4
  <2>4. RepairsCover => RepairsCover'
    <3> HIDE DEF way
    <3> QED
      BY <1>1, <2>3, CoverGrows DEF RepairsCover, way
  <2> QED
    BY <2>1, <2>2, <2>4 DEF HostKeeps
<1>8. CASE rest.next >= ChunksOf[e.id] /\ queue' = Tail(queue) /\ drain' = "looking"
  <2>1. TypeOK'
    BY <1>1, <1>4, <1>5, <1>8 DEF TypeOK
  <2>2. ASSUME NEW p \in Awaited(page) \intersect pixels, NEW i \in Lacks(page, p),
               Queued(queue, p, i) \/ Chunk(p, i) \in way
        PROVE  Queued(queue', p, i) \/ Chunk(p, i) \in Range(asset') \union Range(arrived')
    <3>1. i \in Nat /\ i < ChunksOf[p]
      BY LackIsNat DEF TypeOK
    <3>2. CASE Chunk(p, i) \in way
      BY <1>1, <1>4, <3>2
    <3>3. CASE Queued(Tail(queue), p, i)
      BY <1>8, <3>3
    <3>4. CASE e.id = p /\ e.next <= i
      <4>1. ~(e.next + 1 <= i)
        BY <1>3, <1>8, <3>1, <3>4
      <4> HIDE DEF c, e
      <4> QED
        BY <1>4, <1>6, <3>1, <3>4, <4>1
    <3> QED
      BY <1>5, <2>2, <3>2, <3>3, <3>4
  <2>3. RepairsCover => RepairsCover'
    <3> HIDE DEF way
    <3> QED
      BY <1>1, <2>2, CoverGrows DEF RepairsCover, way
  <2> QED
    BY <1>5, <1>8, <2>1, <2>3 DEF HostKeeps
<1> QED
  BY <1>1, <1>7, <1>8

LEMMA DrainSkipKeeps ==
  ASSUME TypeOK, DrainSkip
  PROVE  HostKeeps
<1>1. /\ queue # <<>> /\ queue \in Seq(Entry) /\ Head(queue).id \notin pixels
      /\ queue' = Tail(queue) /\ drain' = "looking"
      /\ UNCHANGED <<screen, presents, pixels, believed, worker, stream, losses, asset, requests,
                     arrived, page>>
  BY DEF DrainSkip, MaySend, TypeOK, host
<1>2. /\ Tail(queue) \in Seq(Entry) /\ (Ordered(queue) => Ordered(Tail(queue)))
      /\ \A p, i : Queued(queue, p, i) =>
           Queued(Tail(queue), p, i) \/ (Head(queue).id = p /\ Head(queue).next <= i)
  BY <1>1, OrderedTail
<1>3. TypeOK'
  BY <1>1, <1>2 DEF TypeOK
<1>4. RepairsCover => RepairsCover'
  <2>1. \A p \in pixels : \A i : Queued(queue, p, i) => Queued(Tail(queue), p, i)
    BY <1>1, <1>2
  <2> QED
    BY <1>1, <2>1 DEF RepairsCover, Covered
<1> QED
  BY <1>1, <1>2, <1>3, <1>4 DEF HostKeeps

LEMMA DrainYieldKeeps ==
  ASSUME TypeOK, DrainYield
  PROVE  HostKeeps
<1>1. /\ queue # <<>> /\ queue \in Seq(Entry) /\ drain' = "looking"
      /\ queue' = IF Head(queue).urgent THEN queue ELSE Append(Tail(queue), Head(queue))
      /\ UNCHANGED <<screen, presents, pixels, believed, worker, stream, losses, asset, requests,
                     arrived, page>>
  BY DEF DrainYield, TypeOK, host
<1>2. /\ queue' \in Seq(Entry) /\ (Ordered(queue) => Ordered(queue'))
      /\ \A p, i : Queued(queue, p, i) => Queued(queue', p, i)
  <2>1. CASE Head(queue).urgent
    BY <1>1, <2>1
  <2>2. CASE ~Head(queue).urgent
    BY <1>1, <2>2, OrderedTurned
  <2> QED
    BY <2>1, <2>2
<1>3. TypeOK'
  BY <1>1, <1>2 DEF TypeOK
<1>4. RepairsCover => RepairsCover'
  BY <1>1, <1>2 DEF RepairsCover, Covered
<1> QED
  BY <1>2, <1>3, <1>4 DEF HostKeeps

LEMMA DrainEndsKeeps ==
  ASSUME TypeOK, DrainEnds
  PROVE  HostKeeps
<1>1. /\ drain' = "off"
      /\ UNCHANGED <<screen, presents, pixels, believed, queue, worker, stream, losses, asset,
                     requests, arrived, page>>
  BY DEF DrainEnds, host
<1>2. TypeOK' /\ (RepairsCover => RepairsCover')
  BY <1>1 DEF TypeOK, RepairsCover
<1> QED
  BY <1>1, <1>2 DEF HostKeeps

LEMMA WorkerKeeps ==
  ASSUME TypeOK, WorkerLeaves \/ WorkerEnds
  PROVE  HostKeeps
<1>1. /\ worker' \in {"leaving", "gone", "idle"}
      /\ UNCHANGED <<screen, presents, pixels, believed, queue, drain, stream, losses, asset,
                     requests, arrived, page>>
  BY DEF WorkerLeaves, WorkerEnds, host
<1>2. TypeOK' /\ (RepairsCover => RepairsCover')
  BY <1>1 DEF TypeOK, RepairsCover
<1> QED
  BY <1>1, <1>2 DEF HostKeeps

LEMMA LoseKeeps ==
  ASSUME TypeOK, Lose
  PROVE  HostKeeps
<1>1. /\ stream # <<>> /\ stream' = Tail(stream) /\ losses' = losses + 1
      /\ UNCHANGED <<screen, presents, pixels, believed, queue, drain, worker, asset, requests,
                     arrived, page>>
  BY DEF Lose, host
<1>2. Tail(stream) \in Seq(WireChunk \union WireFrame) /\ losses + 1 \in Nat
  BY <1>1 DEF TypeOK
<1>3. TypeOK' /\ (RepairsCover => RepairsCover')
  BY <1>1, <1>2 DEF TypeOK, RepairsCover
<1> QED
  BY <1>1, <1>3 DEF HostKeeps

-----------------------------------------------------------------------------
(* The invariant, and the theorems.                                        *)

IInv == TypeOK /\ Ordered(queue) /\ PaintsWhole /\ RepairsCover

LEMMA InitIInv == Init => IInv
<1> SUFFICES ASSUME Init PROVE IInv
  OBVIOUS
<1>1. PICK cap \in AtlasCaps : page = PageInit(cap)
  BY DEF Init
<1>2. /\ queue = DumpOwes /\ queue \in Seq(Entry) /\ Ordered(queue) /\ Dump \in Seq(WireChunk)
  BY DumpDoes DEF Init
<1>3. screen \subseteq Pics
  BY DEF Init, Screens
<1>4. stream \in Seq(WireChunk \union WireFrame)
  <2> DEFINE M == WireChunk \union WireFrame
             packed == Packed(screen)
  <2>1. packed \in Seq(WireChunk) /\ FrameOf(screen) \in M
    BY <1>3, PacketTypes
  <2>2. stream = Dump \o packed \o <<FrameOf(screen)>>
    BY DEF Init
  <2> HIDE DEF packed
  <2>3. Dump \in Seq(M) /\ packed \in Seq(M)
    BY <1>2, <2>1, SeqMonotonic
  <2> HIDE DEF M
  <2>4. <<FrameOf(screen)>> \in Seq(M) /\ Dump \o packed \in Seq(M)
    BY <2>1, <2>3, ConcatProperties
  <2>5. stream \in Seq(M)
    BY <2>2, <2>4, ConcatProperties
  <2> QED
    BY <2>5 DEF M
<1>5. page \in PageState
  <2>1. cap \in Nat \ {0} /\ \A p \in Pics : {} # Whole(p)
    BY PicturesAssumption DEF Whole
  <2> QED
    BY <1>1, <2>1 DEF PageInit, PageState
<1>6. /\ page.commands = {} /\ page.key = {} /\ page.holes = "none"
  BY <1>1 DEF PageInit
<1>7. PaintsWhole
  BY <1>6 DEF PaintsWhole, Gate, Gating, MissingTextureIds
<1>8. RepairsCover
  BY <1>6 DEF RepairsCover, Covered, Awaited
<1>9. TypeOK
  BY <1>2, <1>3, <1>4, <1>5 DEF Init, TypeOK
<1> QED
  BY <1>2, <1>7, <1>8, <1>9 DEF IInv

\* A step of the page takes what arrives off its channel and leaves the rest
\* of the host alone.
PageReads ==
  /\ UNCHANGED <<screen, presents, pixels, believed, queue, drain, worker, losses>>
  /\ stream' = stream \/ (stream # <<>> /\ stream' = Tail(stream))
  /\ \/ UNCHANGED <<asset, arrived>>
     \/ asset # <<>> /\ asset' = Tail(asset) /\ arrived' = Append(arrived, Head(asset))
     \/ UNCHANGED asset /\ arrived # <<>> /\ arrived' = Tail(arrived)

LEMMA ReadsKeep ==
  ASSUME IInv, PageKeeps, PageReads
  PROVE  IInv' /\ GivesNoneUp
<1> DEFINE M == WireChunk \union WireFrame
<1>1. stream' \in Seq(M)
  <2>1. stream \in Seq(M)
    BY DEF IInv, TypeOK
  <2> HIDE DEF M
  <2> QED
    BY <2>1 DEF PageReads
<1>2. asset' \in Seq(WireChunk) /\ arrived' \in Seq(WireChunk)
  <2>1. asset \in Seq(WireChunk) /\ arrived \in Seq(WireChunk)
    BY DEF IInv, TypeOK
  <2>2. /\ asset # <<>> => Tail(asset) \in Seq(WireChunk)
        /\ asset # <<>> => Append(arrived, Head(asset)) \in Seq(WireChunk)
        /\ arrived # <<>> => Tail(arrived) \in Seq(WireChunk)
    BY <2>1
  <2> QED
    BY <2>1, <2>2 DEF PageReads
<1>3. TypeOK'
  BY <1>1, <1>2 DEF PageReads, PageKeeps, IInv, TypeOK
<1>4. Ordered(queue)'
  BY DEF PageReads, IInv
<1> QED
  BY <1>3, <1>4 DEF PageKeeps, IInv

LEMMA HostSteps ==
  ASSUME IInv, HostNext \/ Lose
  PROVE  HostKeeps /\ UNCHANGED page /\ UNCHANGED arrived
<1>0. TypeOK
  BY DEF IInv
<1>1. ASSUME NEW S \in SUBSET Pics, Present(S) PROVE HostKeeps /\ UNCHANGED <<page, arrived>>
  BY <1>0, <1>1, PresentKeeps DEF Present
<1>2. ASSUME NEW p \in Pics, Release(p) PROVE HostKeeps /\ UNCHANGED <<page, arrived>>
  BY <1>0, <1>2, ReleaseKeeps DEF Release
<1>3. CASE ResendMissingTextures
  BY <1>0, <1>3, ResendKeeps DEF ResendMissingTextures
<1>4. CASE DrainChunk
  BY <1>0, <1>4, DrainChunkKeeps DEF DrainChunk
<1>5. CASE DrainSkip
  BY <1>0, <1>5, DrainSkipKeeps DEF DrainSkip
<1>6. CASE DrainYield
  BY <1>0, <1>6, DrainYieldKeeps DEF DrainYield
<1>7. CASE DrainEnds
  BY <1>0, <1>7, DrainEndsKeeps DEF DrainEnds
<1>8. CASE WorkerLeaves \/ WorkerEnds
  BY <1>0, <1>8, WorkerKeeps DEF WorkerLeaves, WorkerEnds
<1>9. CASE Lose
  BY <1>0, <1>9, LoseKeeps DEF Lose
<1> QED
  BY <1>1, <1>2, <1>3, <1>4, <1>5, <1>6, <1>7, <1>8, <1>9 DEF HostNext

LEMMA PageSteps ==
  ASSUME IInv, PageNext, ~Lose
  PROVE  PageKeeps /\ PageReads
<1>0. TypeOK
  BY DEF IInv
<1>1. CASE FrameArrives
  BY <1>0, <1>1, FrameArrivesKeeps DEF FrameArrives, PageReads, host
<1>2. CASE ChunkArrives
  BY <1>0, <1>2, ChunkArrivesKeeps DEF ChunkArrives, PageReads, host
<1>3. CASE AssetArrives
  BY <1>0, <1>3, AssetArrivesKeeps DEF AssetArrives, PageReads, host
<1>4. CASE RenderLoopIngests
  BY <1>0, <1>4, RenderLoopIngestsKeeps DEF RenderLoopIngests, PageReads, host
<1>5. CASE RenderLoopPaints
  BY <1>0, <1>5, RenderLoopPaintsKeeps DEF RenderLoopPaints, PageReads, host
<1>6. ASSUME NEW p \in Pics, DecodeDone(p) PROVE PageKeeps /\ PageReads
  BY <1>0, <1>6, DecodeDoneKeeps DEF DecodeDone, PageReads, host
<1>7. CASE BackoffPasses
  BY <1>0, <1>7, BackoffPassesKeeps DEF BackoffPasses, PageReads, host
<1> QED
  BY <1>1, <1>2, <1>3, <1>4, <1>5, <1>6, <1>7 DEF PageNext

LEMMA IInvStep ==
  ASSUME IInv, [Next]_vars
  PROVE  IInv' /\ GivesNoneUp
<1>1. CASE HostNext \/ Lose
  <2>1. HostKeeps /\ UNCHANGED page
    BY <1>1, HostSteps
  <2>2. PaintsWhole'
    BY <2>1 DEF IInv, PaintsWhole
  <2> QED
    BY <2>1, <2>2 DEF HostKeeps, IInv, GivesNoneUp
<1>2. CASE PageNext /\ ~Lose
  BY <1>2, PageSteps, ReadsKeep
<1>3. CASE UNCHANGED vars
  BY <1>3 DEF vars, IInv, TypeOK, Ordered, PaintsWhole, RepairsCover, GivesNoneUp
<1> QED
  BY <1>1, <1>2, <1>3 DEF Next

LEMMA Always == Spec => []IInv
<1>1. IInv /\ [Next]_vars => IInv'
  BY IInvStep
<1> QED
  BY InitIInv, <1>1, PTL DEF Spec

\* Every state is of its types: no chunk is owed, asked for or sent past the
\* last one of its picture, and the chunks a page assembles are never all there
\* (a picture that is whole leaves the assembly at once, GameCanvas.jsx
\* ingestTextureChunk).
THEOREM TypesAreKept == Spec => []TypeOK
<1>1. IInv => TypeOK
  BY DEF IInv
<1> QED
  BY Always, <1>1, PTL

\* A page never paints a frame that lacks a picture, but for those given up and
\* but for an atlas that was emptied since the last sync (renderer.js:406-416).
THEOREM PaintsAreWhole == Spec => []NoUnexplainedHoles
<1>1. IInv => NoUnexplainedHoles
  BY DEF IInv, PaintsWhole, NoUnexplainedHoles
<1> QED
  BY Always, <1>1, PTL

\* What the page asked for is always ahead of the rest of the queue, each
\* picture there once and with a chunk still to send (texture_queue.hpp).
THEOREM UrgentAlwaysFirst == Spec => []UrgentFirst
<1>1. IInv => UrgentFirst
  <2> SUFFICES ASSUME IInv PROVE UrgentFirst
    OBVIOUS
  <2>1. \A i \in 1..Len(queue) : queue[i].next < ChunksOf[queue[i].id]
    <3>1. \A i \in 1..Len(queue) : queue[i] \in Entry
      BY ElementOfSeq DEF IInv, TypeOK
    <3> QED
      BY <3>1 DEF Entry
  <2> QED
    BY <2>1 DEF IInv, Ordered, UrgentFirst
<1> QED
  BY Always, <1>1, PTL

\* A page that waits for a picture always has each chunk that it lacks asked
\* for, owed or on its way: no later request makes the host step over a chunk
\* that was lost (df_streamer.cpp:2258-2290, GameCanvas.jsx syncAssets).
THEOREM RepairsAlwaysCover == Spec => []RepairCoversTheGap
<1>1. IInv => RepairCoversTheGap
  <2> SUFFICES ASSUME IInv, ~page.resetUnseen,
                      NEW p \in (page.key \intersect pixels)
                               \ (page.decoding \union page.textures \union page.dropped),
                      NEW i \in (0..(ChunksOf[p] - 1)) \ page.chunks[p]
               PROVE  \/ \E n \in 1..Len(requests) : p \in DOMAIN requests[n] /\ requests[n][p] <= i
                      \/ \E n \in 1..Len(queue) : queue[n].id = p /\ queue[n].next <= i
                      \/ Chunk(p, i) \in Range(asset) \union Range(arrived)
    BY DEF RepairCoversTheGap
  <2>1. p \in Awaited(page) \intersect pixels /\ i \in Lacks(page, p)
    BY DEF Awaited, Lacks, Whole
  <2>2. \/ AskedFor(requests, p, i) \/ Queued(queue, p, i)
        \/ Chunk(p, i) \in Range(asset) \union Range(arrived)
    BY <2>1 DEF IInv, RepairsCover, Covered
  <2>3. AskedFor(requests, p, i) =>
          \E n \in 1..Len(requests) : p \in DOMAIN requests[n] /\ requests[n][p] <= i
    <3>1. Len(requests) \in Nat
      BY DEF IInv, TypeOK
    <3>2. \A n \in 1..Len(requests) : n \in n..Len(requests)
      BY <3>1
    <3> QED
      BY <3>2 DEF AskedFor, NoneLater
  <2> QED
    BY <2>2, <2>3 DEF Queued
<1> QED
  BY Always, <1>1, PTL

\* A page gives no picture up in the step that ingests a chunk, nor by the
\* first sync after it (ASSET_BRIDGE_MAX_TRIES, GameCanvas.jsx).
THEOREM ArrivingIsNeverGivenUp == Spec => NothingGivenUpWhileArriving
<1>1. IInv /\ [Next]_vars =>
        [page'.unfetchable \subseteq page.unfetchable
           \/ (~page.progress /\ Len(arrived') >= Len(arrived) /\ page'.chunks = page.chunks)]_vars
  BY IInvStep DEF GivesNoneUp
<1> QED
  BY Always, <1>1, PTL DEF Spec, NothingGivenUpWhileArriving
=============================================================================
