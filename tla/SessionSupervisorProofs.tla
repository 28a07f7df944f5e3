----------------------- MODULE SessionSupervisorProofs -----------------------
(***************************************************************************)
(* What holds of SessionSupervisor for any number of stoppers and sessions:*)
(* its types, that a Stop finishes only after its process was reaped, and  *)
(* that nothing runs unsupervised until somebody ends a session that was   *)
(* not theirs.                                                             *)
(***************************************************************************)
EXTENDS SessionSupervisor, TLAPS

\* A monitor exists for every game that was started, and is past cmd.Wait
\* exactly when the game was reaped.
Monitored ==
  \A n \in Sessions :
    /\ monitor[n] # "none" => game[n] \in {"alive", "exited", "reaped"}
    /\ monitor[n] \in {"done", "ended"} => game[n] = "reaped"

\* Whoever names a session, the supervisor or a Stop, names one that was
\* started.
Started ==
  /\ current # None => monitor[current] # "none"
  /\ \A p \in Stoppers :
       /\ stop[p].of # None => monitor[stop[p].of] # "none"
       /\ stop[p].phase \in {"wait", "killed", "finish"} => stop[p].of # None

IInv == TypeOK /\ Monitored /\ Started /\ StoppedIsReaped /\ NothingUnsupervised

LEMMA NoneIsNoSession == None \notin Sessions /\ Sessions \subseteq Nat
BY SessionsAssumption DEF Sessions, None

LEMMA InitInvariant == Init => IInv
<1> SUFFICES ASSUME Init PROVE IInv
  OBVIOUS
<1> USE NoneIsNoSession DEF Init
<1>1. TypeOK
  BY DEF TypeOK, NoCall
<1>2. Monitored /\ Started /\ StoppedIsReaped
  BY DEF Monitored, Started, StoppedIsReaped, NoCall
<1>3. NothingUnsupervised
  BY DEF NothingUnsupervised, Alive
<1> QED
  BY <1>1, <1>2, <1>3 DEF IInv

LEMMA StepInvariant == IInv /\ [Next]_vars => IInv'
<1> SUFFICES ASSUME IInv, [Next]_vars PROVE IInv'
  OBVIOUS
<1> USE NoneIsNoSession DEF IInv, heldVars, processVars
<1>1. ASSUME NEW n \in Sessions, Start(n) PROVE IInv'
  <2> PICK needsDisplay \in BOOLEAN : StartGame(n, needsDisplay) \/ StartFails(n, needsDisplay)
    BY <1>1 DEF Start
  <2>0. /\ state = "idle" /\ current = None /\ display = None /\ game[n] = "none"
        /\ monitor[n] = "none"
    BY <1>1 DEF Start, Unused, NothingUnsupervised, Monitored, TypeOK
  <2>1. CASE StartGame(n, needsDisplay)
    <3>1. TypeOK'
      BY <1>1, <2>1 DEF TypeOK, Start, StartGame
    <3>2. Monitored'
      BY <1>1, <2>1 DEF TypeOK, Monitored, Start, StartGame
    <3>3. Started'
      BY <1>1, <2>1 DEF TypeOK, Started, Start, StartGame
    <3>4. StoppedIsReaped'
      BY <1>1, <2>0, <2>1 DEF TypeOK, StoppedIsReaped, Start, StartGame
    <3>5. NothingUnsupervised'
      BY <1>1, <2>0, <2>1 DEF TypeOK, NothingUnsupervised, Start, StartGame, Alive
    <3> QED
      BY <3>1, <3>2, <3>3, <3>4, <3>5
  <2>2. CASE StartFails(n, needsDisplay)
    <3>1. TypeOK'
      BY <1>1, <2>2 DEF TypeOK, Start, StartFails, KillDisplay
    <3>2. Monitored'
      BY <1>1, <2>0, <2>2 DEF TypeOK, Monitored, Start, StartFails
    <3>3. Started'
      BY <1>1, <2>2 DEF TypeOK, Started, Start, StartFails
    <3>4. StoppedIsReaped'
      BY <1>1, <2>0, <2>2 DEF TypeOK, StoppedIsReaped, Start, StartFails
    <3>5. NothingUnsupervised'
      BY <1>1, <2>0, <2>2 DEF TypeOK, NothingUnsupervised, Start, StartFails, KillDisplay, Alive
    <3> QED
      BY <3>1, <3>2, <3>3, <3>4, <3>5
  <2> QED
    BY <2>1, <2>2
<1>2. ASSUME NEW n \in Sessions, Exit(n) PROVE IInv'
  BY <1>2 DEF Exit, TypeOK, Monitored, Started, StoppedIsReaped, NothingUnsupervised, Alive
<1>3. ASSUME NEW n \in Sessions, Reap(n) PROVE IInv'
  BY <1>3 DEF Reap, TypeOK, Monitored, Started, StoppedIsReaped, NothingUnsupervised, Alive
<1>4. ASSUME NEW n \in Sessions, MonitorEnd(n) PROVE IInv'
  <2>1. TypeOK' /\ Monitored' /\ StoppedIsReaped'
    BY <1>4 DEF MonitorEnd, KillDisplay, ClearSession, Meddles, TypeOK, Monitored, StoppedIsReaped
  <2>2. Started'
    BY <1>4 DEF MonitorEnd, ClearSession, TypeOK, Started
  <2>3. NothingUnsupervised'
    <3>1. game[n] = "reaped"
      BY <1>4 DEF MonitorEnd, Monitored
    <3>2. displays' \subseteq {display'} \/ meddled'
      BY <1>4 DEF MonitorEnd, KillDisplay, Meddles, NothingUnsupervised
    <3>3. Alive' \subseteq {current'} \/ meddled'
      <4>1. Alive' = Alive /\ n \notin Alive
        BY <1>4, <3>1 DEF MonitorEnd, Alive
      <4>2. meddled' \/ (Alive \subseteq {current} /\ current \in {n, None})
        BY <1>4 DEF MonitorEnd, Meddles, NothingUnsupervised, TypeOK
      <4>3. meddled' \/ Alive \subseteq {None} \cap Sessions
        BY <4>1, <4>2 DEF Alive
      <4> QED
        BY <4>1, <4>3
    <3> QED
      BY <1>4, <3>2, <3>3 DEF MonitorEnd, KillDisplay, ClearSession, NothingUnsupervised
  <2> QED
    BY <2>1, <2>2, <2>3
<1>5. ASSUME NEW p \in Stoppers, StopBegin(p) PROVE IInv'
  BY <1>5 DEF StopBegin, TypeOK, Monitored, Started, StoppedIsReaped, NothingUnsupervised, Alive
<1>6. ASSUME NEW p \in Stoppers, StopKill(p) PROVE IInv'
  BY <1>6 DEF StopKill, TypeOK, Monitored, Started, StoppedIsReaped, NothingUnsupervised, Alive
<1>7. ASSUME NEW p \in Stoppers, StopSeesDone(p) PROVE IInv'
  BY <1>7 DEF StopSeesDone, TypeOK, Monitored, Started, StoppedIsReaped, NothingUnsupervised, Alive
<1>8. ASSUME NEW p \in Stoppers, StopEnd(p) PROVE IInv'
  <2>1. TypeOK' /\ Monitored' /\ StoppedIsReaped'
    BY <1>8 DEF StopEnd, KillDisplay, ClearSession, Meddles, TypeOK, Monitored, StoppedIsReaped
  <2>2. Started'
    BY <1>8 DEF StopEnd, ClearSession, TypeOK, Started
  <2>3. NothingUnsupervised'
    <3>1. game[stop[p].of] = "reaped" /\ stop[p].of \in Sessions
      BY <1>8 DEF StopEnd, StoppedIsReaped, TypeOK
    <3>2. displays' \subseteq {display'} \/ meddled'
      BY <1>8 DEF StopEnd, KillDisplay, Meddles, NothingUnsupervised
    <3>3. Alive' \subseteq {current'} \/ meddled'
      <4>1. Alive' = Alive /\ stop[p].of \notin Alive
        BY <1>8, <3>1 DEF StopEnd, Alive
      <4>2. meddled' \/ (Alive \subseteq {current} /\ current \in {stop[p].of, None})
        BY <1>8 DEF StopEnd, Meddles, NothingUnsupervised, TypeOK
      <4>3. meddled' \/ Alive \subseteq {None} \cap Sessions
        BY <4>1, <4>2 DEF Alive
      <4> QED
        BY <4>1, <4>3
    <3> QED
      BY <1>8, <3>2, <3>3 DEF StopEnd, KillDisplay, ClearSession, NothingUnsupervised
  <2> QED
    BY <2>1, <2>2, <2>3
<1>9. ASSUME NEW p \in Stoppers, StopReturn(p) PROVE IInv'
  BY <1>9 DEF StopReturn, NoCall, TypeOK, Monitored, Started, StoppedIsReaped, NothingUnsupervised, Alive
<1>10. CASE Leave
  BY <1>10 DEF Leave, TypeOK, Monitored, Started, StoppedIsReaped, NothingUnsupervised, Alive
<1>11. CASE UNCHANGED vars
  BY <1>11 DEF vars, TypeOK, Monitored, Started, StoppedIsReaped, NothingUnsupervised, Alive
<1> QED
  BY <1>1, <1>2, <1>3, <1>4, <1>5, <1>6, <1>7, <1>8, <1>9, <1>10, <1>11 DEF Next

LEMMA Invariant == Spec => []IInv
BY InitInvariant, StepInvariant, PTL DEF Spec

\* A Stop reaches its second half only after its process was waited for.
THEOREM StopsAreReaped == Spec => []StoppedIsReaped
<1>1. IInv => StoppedIsReaped
  BY DEF IInv
<1> QED
  BY <1>1, Invariant, PTL

\* Nothing runs unsupervised, and nothing runs at all under an idle supervisor,
\* until somebody ends a session that was not theirs.
THEOREM AllIsSupervised == Spec => []NothingUnsupervised
<1>1. IInv => NothingUnsupervised
  BY DEF IInv
<1> QED
  BY <1>1, Invariant, PTL

=============================================================================
