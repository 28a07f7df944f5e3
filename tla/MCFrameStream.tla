--------------------------- MODULE MCFrameStream ---------------------------
(***************************************************************************)
(* FrameStream on small instances for TLC.                                 *)
(***************************************************************************)
EXTENDS FrameStream, TLC

CONSTANTS c1, c2, a, b

Symmetry == Permutations(Clients)

\* A picture that the other one extends: growing patches, shrinking patches
\* and patches that change nothing all occur.
PicturesTwo == {<<a>>, <<a, b>>}

\* A bound for the long runs: packets under way to one page.
ShortQueues == \A c \in Clients : Len(net[c]) <= 2

\* A bound for the same runs: whoever leaves once frames were sent is gone for
\* good.
NobodyReturns == \A c \in Clients : status[c] = "signalling" => sentSeq = 0

=============================================================================
