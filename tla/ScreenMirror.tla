---------------------------- MODULE ScreenMirror ----------------------------
(***************************************************************************)
(* What the frame stream promises to whoever watches: the game's pictures  *)
(* are published in order, and each viewer steps forward through them,     *)
(* seeing whole published pictures. Viewers may skip pictures, leave, and  *)
(* start again from nothing. A viewer's picture may also tear, and a torn  *)
(* view mends only when a whole picture replaces it.                       *)
(***************************************************************************)
EXTENDS Naturals, Sequences

CONSTANTS
  Clients,    \* the viewers
  Pictures,   \* what may be drawn
  Torn        \* a view that is no published picture

VARIABLES
  drawn,      \* the pictures published so far, in order
  at,         \* how many of them each viewer has come past, 0 before the first
  view        \* what each viewer sees

Init ==
  /\ drawn = <<>>
  /\ at = [c \in Clients |-> 0]
  /\ view = [c \in Clients |-> <<>>]

Publish ==
  /\ \E picture \in Pictures : drawn' = Append(drawn, picture)
  /\ UNCHANGED <<at, view>>

\* A viewer only ever moves on to a later picture.
Step(c, n, seen) ==
  /\ n \in at[c] + 1..Len(drawn)
  /\ at' = [at EXCEPT ![c] = n]
  /\ view' = [view EXCEPT ![c] = seen]
  /\ UNCHANGED drawn

Show(c) == \E n \in 1..Len(drawn) : Step(c, n, drawn[n])

\* Only a viewer that already sees something can see it torn.
Tear(c) == at[c] > 0 /\ \E n \in 1..Len(drawn) : Step(c, n, Torn)

Leave(c) ==
  /\ at' = [at EXCEPT ![c] = 0]
  /\ view' = [view EXCEPT ![c] = <<>>]
  /\ UNCHANGED drawn

Next == Publish \/ \E c \in Clients : Show(c) \/ Tear(c) \/ Leave(c)

Spec == Init /\ [][Next]_<<drawn, at, view>>

=============================================================================
