---------------------------- MODULE ParityHarness ----------------------------
(***************************************************************************)
(* One of the two picture comparisons at work on a running game, and what  *)
(* their reports may be trusted for.                                       *)
(***************************************************************************)
EXTENDS ParityCapture, ParityWalk

vars == <<gameVars, qaVars, walkVars>>

Init ==
    /\ GameInit
    /\ \/ QAInit /\ WalkOff
       \/ QAOff /\ WalkInit

\* What the game does when the run is over is of no interest.
Over == phase \in {"off", "done", "failed"} /\ walk \in {"off", "done", "failed"}

Next ==
    \/ GameNext /\ ~Over /\ UNCHANGED <<qaVars, walkVars>>
    \/ QANext /\ UNCHANGED walkVars
    \/ WalkNext /\ UNCHANGED qaVars

\* The scripts go on; nobody owes them a picture, and the page may die.
Fairness == WF_vars(QANext /\ UNCHANGED walkVars) /\ WF_vars(WalkNext /\ UNCHANGED qaVars)
Spec == Init /\ [][Next]_vars /\ Fairness

-----------------------------------------------------------------------------
(* Properties.                                                              *)

\* The game's side of every pair holds nothing the game did not present while
\* the pair was captured, and is one whole picture unless an earlier capture
\* timed out: its trigger is still raised, and the game may write a second
\* picture while the first is read ("clear the old frame, raise the trigger,
\* wait for a complete new frame").  The preflight's picture must be whole.
PairsAreOfTheirWindow ==
    expected = Whole =>
        \A k \in DOMAIN pairs :
            LET picture == pairs[k].host
            IN  /\ Range(picture) \subseteq pairs[k].from + 1..pairs[k].to
                /\ \/ Len(picture) = Whole /\ Cardinality(Range(picture)) = 1
                   \/ \E i \in DOMAIN checkpoints : checkpoints[i].failed

\* A report is of everything that was asked for: of df_parity_qa all checkpoints,
\* those that failed marked, the others with their whole burst, all but the
\* first after the storm; of qa_parity_walk all selected steps, in order, each
\* page picture with its whole burst, grabbed not before it.
ReportIsWhole ==
    /\ phase \in {"summary", "done"} =>
          /\ Len(report) = Checkpoints
          /\ \A i \in DOMAIN report :
                /\ report[i].failed <=> report[i].pairs # Burst
                /\ i > 1 => report[i].storm = Zooms
    /\ walk = "done" =>
          /\ [i \in DOMAIN summary |-> summary[i].id] = [i \in DOMAIN Selected |-> Selected[i].id]
          /\ \A i \in DOMAIN summary :
                /\ Len(summary[i].rows) = Selected[i].captures
                /\ \A r \in Range(summary[i].rows) :
                      Len(r.natives) = Grabs /\ \A k \in 1..Grabs : r.natives[k] >= r.from

\* The figures of a burst agree: the best pair is at most as bad as the first
\* canvas against the best of the game's pictures, and that as the first pair;
\* what no picture shows is part of what each differs by; of a screen that stood
\* still they are one; and what is neither lava nor water is part of them.
FiguresAgree ==
    /\ \A i \in DOMAIN checkpoints : \A f \in Range(checkpoints[i].analysis) :
          /\ f.best <= f.primary /\ f.never <= f.primary
          /\ f.static => f.best = f.primary /\ f.never = f.primary
    /\ \A i \in DOMAIN results : \A r \in Range(results[i].rows) :
          LET native == BestNative(r.client, r.natives)
          IN  /\ Cardinality(NeverSeen(r.client, r.natives)) <= native.diff
              /\ native.diff = Figures(r.natives, <<r.client>>).best
              /\ Other(r.client, r.natives) \subseteq Mismatch(native.native, r.client)

\* A run ends, whatever the game and the page do: it asks a bounded number of
\* times for a picture that does not come.
RunEnds == <>Over
=============================================================================
