----------------------------- MODULE MCBenchLog -----------------------------
(***************************************************************************)
(* A session of a few moments.  The clocks are put together while nothing  *)
(* is sent.                                                                *)
(***************************************************************************)
EXTENDS BenchLog

Sizes == <<1, 3>>
Behind == -1

PingsAlone ==
    \/ ping = None /\ pings = <<>>
    \/ hostWire = <<>> /\ uplink = <<>> /\ windowFrom = 0

\* What is sent in a session, of either kind.
FewMessages ==
    \/ windowFrom = 0 /\ Issued = 0
    \/ Frames <= 1 /\ (windowFrom = 0 \/ Issued <= 2)
    \/ Frames <= 2 /\ Issued <= 2 /\ windowFrom = 0
    \/ Frames <= 2 /\ Issued <= 1
Pictures == Permutations(Hashes)
=============================================================================
