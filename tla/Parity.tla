------------------------------- MODULE Parity -------------------------------
(***************************************************************************)
(* What the two picture comparisons (src/scripts/df_parity_qa.mjs and      *)
(* src/scripts/qa_parity_walk.mjs) have in common: a game that presents    *)
(* pictures, a page that shows them later, the file the game writes a      *)
(* picture to when it is asked, and the figures a comparison is read from. *)
(*                                                                         *)
(* A picture is its number, and Look says what it shows at each place.     *)
(* The file the game writes takes Whole parts.  Absent things are empty    *)
(* sequences.                                                              *)
(***************************************************************************)
EXTENDS Integers, Sequences, FiniteSets, SequencesExt

CONSTANTS
    MaxPictures,  \* bound: pictures the game presents
    Whole,        \* parts of a whole picture (its bytes)
    Places,       \* the pixels of a picture
    Look,         \* Look[n][x]: the colour of picture n at place x
    Tolerance,    \* TOL: colours this near are the same
    Animated      \* colours of lava and water

ASSUME ParityAssumption ==
    /\ MaxPictures \in Nat /\ Whole \in Nat \ {0} /\ Tolerance \in Nat
    /\ IsFiniteSet(Places)
    /\ Look \in [0..MaxPictures -> [Places -> Nat]] /\ Animated \subseteq Nat

VARIABLES
    shot,     \* the picture the game presented last
    drawn,    \* the picture the page's canvas showed when it was last looked at
    page,     \* "up", or "gone": crashed, closed or without its browser
    trigger,  \* /tmp/df_snap_trigger is there
    file,     \* /tmp/df_snap_host.raw: its parts so far
    writing   \* what the game still has to write, and if the file was removed

gameVars == <<shot, drawn, page, trigger, file, writing>>
Absent == <<>>

Near(a, b) == a - b \in -Tolerance..Tolerance

(***************************************************************************)
(* The game and the page.                                                  *)
(***************************************************************************)
\* SDL_RenderPresent.  Asked for a picture, the game reads this one back, which
\* SDL may refuse, and writes it before it does anything else.
Present ==
    /\ writing = Absent /\ shot < MaxPictures
    /\ shot' = shot + 1 /\ trigger' = FALSE
    /\ \/ trigger /\ file' = <<<<>>>> /\ writing' = <<[left |-> Whole, removed |-> FALSE]>>
       \/ UNCHANGED <<file, writing>>
    /\ UNCHANGED <<drawn, page>>

\* fwrite, some parts at a time, and fclose.
Write(n) ==
    /\ writing # Absent /\ n \in 1..writing[1].left
    /\ file' = IF writing[1].removed THEN file ELSE <<file[1] \o [i \in 1..n |-> shot]>>
    /\ writing' = IF n = writing[1].left THEN Absent
                  ELSE <<[writing[1] EXCEPT !.left = @ - n]>>
    /\ UNCHANGED <<shot, drawn, page, trigger>>

\* The canvas is looked at: it shows what it showed then, or a later picture.
Shows(picture) == picture \in drawn..shot /\ drawn' = picture

PageDies ==
    /\ page = "up" /\ page' = "gone"
    /\ UNCHANGED <<shot, drawn, trigger, file, writing>>

GameInit ==
    /\ shot = 0 /\ drawn = 0 /\ page = "up"
    /\ trigger = FALSE /\ file = Absent /\ writing = Absent
GameNext == Present \/ (\E n \in 1..Whole : Write(n)) \/ PageDies

(***************************************************************************)
(* The figures.                                                            *)
(***************************************************************************)
\* mismatch_mask: the places where two pictures differ.
Mismatch(h, c) == {x \in Places : ~Near(Look[h][x], Look[c][x])}

\* Mutant: only a place that is exactly alike was seen.
NeverSeenExactly(c, hosts) == {x \in Places : \A i \in DOMAIN hosts : Look[hosts[i]][x] # Look[c][x]}

\* The places where no host picture of the burst shows what the page shows.
NeverSeen(c, hosts) == {x \in Places : \A i \in DOMAIN hosts : x \in Mismatch(hosts[i], c)}

\* The least mismatch of any host picture with any of the page's.
BestMismatch(hosts, clients) ==
    Min({Cardinality(Mismatch(hosts[i], clients[j])) : i \in DOMAIN hosts, j \in DOMAIN clients})

\* The least mismatch as a search keeps it, and where it was found first.
BestNative(c, hosts) ==
    LET Diff(i) == Cardinality(Mismatch(hosts[i], c))
        least == Min({Diff(i) : i \in DOMAIN hosts})
    IN  [diff |-> least, native |-> hosts[Min({i \in DOMAIN hosts : Diff(i) = least})]]

\* res: the first pair, the best of the burst, the places of the first canvas no
\* picture of the game shows, and if nothing moved.
Figures(hosts, clients) ==
    [primary |-> Cardinality(Mismatch(hosts[1], clients[1])),
     best |-> BestMismatch(hosts, clients),
     never |-> Cardinality(NeverSeen(clients[1], hosts)),
     static |-> Cardinality(Range(hosts)) = 1 /\ Cardinality(Range(clients)) = 1]

\* What is not seen and does not look like lava or water.
Other(c, hosts) == {x \in NeverSeen(c, hosts) : Look[c][x] \notin Animated}
=============================================================================
