----------------------------- MODULE MCInputPath -----------------------------
(***************************************************************************)
(* One pointer and button, few stamps, so that they come round again.      *)
(*                                                                         *)
(* The game's polls and the presents meet only in what the input messages  *)
(* left behind, neither reads what the other writes; the wheel and the     *)
(* keys share no state with the pointer.  A behaviour shows one of them.   *)
(***************************************************************************)
EXTENDS InputPath, WheelAndKeys

\* A notch of a wheel, smooth steps either way, with and without a pause
\* before, a step past two thresholds, and a finger that moves both ways.
Step(x, y, delta, idle) == [x |-> x, y |-> y, delta |-> delta, idle |-> idle]
SomeTurns == {Step(0, 4, 100, FALSE), Step(0, 1, 30, FALSE), Step(0, 1, 30, TRUE),
              Step(0, -1, -40, FALSE), Step(0, 5, 120, FALSE), Step(4, 2, 0, FALSE)}

NoPolls == ~inPass /\ held = <<>> /\ seen.pointer = Nowhere /\ ~ticked
NoPresents == claimed = 0 /\ answered = 0 /\ expired = 0 /\ frames = <<>>
OneAtATime == NoPolls \/ NoPresents

AllInit == Init /\ WheelInit
AllNext ==
    \/ turned = <<>> /\ typed = <<>> /\ Next /\ UNCHANGED wheelVars
    \/ /\ moves + issued = 0 /\ mouse = 1 /\ UNCHANGED vars
       /\ WheelNext /\ (turned' = <<>> \/ typed' = <<>>)
AllSpec == AllInit /\ [][AllNext]_<<vars, wheelVars>> /\ Fairness
=============================================================================
