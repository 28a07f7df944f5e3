--------------------------- MODULE MCParityHarness ---------------------------
(***************************************************************************)
(* Small runs of both comparisons.  The pictures come round, and one of    *)
(* them differs from the first by less than the tolerance.                 *)
(***************************************************************************)
EXTENDS ParityHarness

Screens == <<[x \in {1, 2} |-> 10], [x \in {1, 2} |-> IF x = 1 THEN 11 ELSE 20],
             [x \in {1, 2} |-> IF x = 1 THEN 20 ELSE 30]>>
CyclingLook == [n \in 0..MaxPictures |-> Screens[(n % 3) + 1]]
=============================================================================
