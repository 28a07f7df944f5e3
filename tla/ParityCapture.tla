---------------------------- MODULE ParityCapture ----------------------------
(***************************************************************************)
(* src/scripts/df_parity_qa.mjs: while a storm of wheel events runs, and   *)
(* three times after it, a burst of pairs is captured, the game's own      *)
(* picture and the page's canvas, and every burst is analysed.             *)
(*                                                                         *)
(* The game's picture is asked for through a file (Parity) by a shell that *)
(* runs beside the game: it removes the last picture, raises the trigger,  *)
(* and looks at the size of the file until it stops growing.               *)
(*                                                                         *)
(* Times are the numbers of the pictures presented at them.                *)
(***************************************************************************)
EXTENDS Parity

CONSTANTS
    Checkpoints,  \* how many bursts: one in the storm, the others after it (4)
    Burst,        \* BURST: pairs of a burst
    Zooms,        \* ZOOMS: wheel events of the storm
    MaxPolls,     \* how often the shell looks for the file (600)
    Canvas        \* parts a picture of the canvas' own size has

ASSUME CaptureAssumption ==
    /\ {Checkpoints, Burst, MaxPolls, Canvas} \subseteq Nat \ {0} /\ Zooms \in Nat

VARIABLES
    phase,        \* where main is
    shell,        \* the shell of hostSnapshot
    expected,     \* expectedBytes: parts the preflight's picture had
    canvas,       \* the canvas as it was read for this pair
    since,        \* when this pair was begun
    pairs,        \* pairs of this burst
    checkpoints,  \* bursts recorded
    storm,        \* wheel events sent
    report        \* report.json

qaVars == <<phase, shell, expected, canvas, since, pairs, checkpoints, storm, report>>

Idle == [pc |-> "none", polls |-> 0, size |-> 0, read |-> <<>>]
Size == IF file = Absent THEN 0 ELSE Len(file[1])

(***************************************************************************)
(* The shell (snapCommand) and what hostSnapshot makes of its answer.      *)
(***************************************************************************)
\* Mutant: the last picture is left where it is.
ShellClearsNothing ==
    /\ shell.pc = "clear" /\ shell' = [shell EXCEPT !.pc = "touch"]
    /\ UNCHANGED gameVars

ShellClears ==
    /\ shell.pc = "clear" /\ shell' = [shell EXCEPT !.pc = "touch"]
    /\ file' = Absent
    /\ writing' = IF writing = Absent THEN Absent ELSE <<[writing[1] EXCEPT !.removed = TRUE]>>
    /\ UNCHANGED <<shot, drawn, page, trigger>>

ShellTouches ==
    /\ shell.pc = "touch" /\ shell' = [shell EXCEPT !.pc = "look"]
    /\ trigger' = TRUE
    /\ UNCHANGED <<shot, drawn, page, file, writing>>

\* Mutant: the shell looks for as long as it takes.
AgainUnbounded == [shell EXCEPT !.pc = "look"]

Again == [shell EXCEPT !.pc = IF shell.polls + 1 < MaxPolls THEN "look" ELSE "meta", !.polls = @ + 1]

ShellLooks ==
    /\ shell.pc = "look"
    /\ shell' = IF file = Absent THEN Again ELSE [shell EXCEPT !.pc = "compare", !.size = Size]
    /\ UNCHANGED gameVars

\* The file had this size a moment ago, and it is enough.
Settled == shell.size = Size /\ Size >= expected

ShellCompares ==
    /\ shell.pc = "compare"
    /\ shell' = IF Settled THEN [shell EXCEPT !.pc = "meta"] ELSE Again
    /\ UNCHANGED gameVars

ShellTells ==
    /\ shell.pc = "meta" /\ shell' = [shell EXCEPT !.pc = "read", !.size = Size]
    /\ UNCHANGED gameVars

\* base64 reads until there is no more.
ShellReads ==
    /\ shell.pc = "read"
    /\ IF Len(shell.read) < Size
       THEN \E n \in Len(shell.read) + 1..Size :
                shell' = [shell EXCEPT !.read = @ \o SubSeq(file[1], Len(@) + 1, n)]
       ELSE shell' = [shell EXCEPT !.pc = "answer"]
    /\ UNCHANGED gameVars

ShellSteps ==
    /\ ShellClears \/ ShellTouches \/ ShellLooks \/ ShellCompares \/ ShellTells \/ ShellReads
    /\ UNCHANGED <<phase, expected, canvas, since, pairs, checkpoints, storm, report>>

\* The checks of hostSnapshot; the preflight expects nothing in particular.
Answered ==
    /\ expected > 0 => shell.size = expected
    /\ shell.size > 0 /\ Len(shell.read) = shell.size

(***************************************************************************)
(* Preflight and start.                                                    *)
(***************************************************************************)
Fails == phase' = "failed" /\ UNCHANGED <<report, checkpoints>>

\* preflight: the size of the first picture is what later ones must have.
Preflight ==
    /\ phase = "preflight" /\ shell.pc = "answer" /\ shell' = Idle
    /\ \/ ~Answered /\ Fails /\ UNCHANGED expected
       \/ /\ Answered /\ phase' = "load" /\ expected' = shell.size
          /\ UNCHANGED <<report, checkpoints>>
    /\ UNCHANGED <<gameVars, canvas, since, pairs, storm>>

\* The page is loaded; the game's picture must be the canvas scaled up evenly.
Scaled == \E scale \in 1..expected : expected = scale * scale * Canvas
Load ==
    /\ phase = "load"
    /\ IF page = "up" /\ Scaled
       THEN phase' = "storm" /\ UNCHANGED <<report, checkpoints>>
       ELSE Fails
    /\ UNCHANGED <<gameVars, shell, expected, canvas, since, pairs, storm>>

\* One wheel event.  If it fails before main waits for the storm, nobody has
\* taken charge of the failure and the process ends.
StormBlows ==
    /\ phase \in {"storm", "pair", "analyse", "await"} /\ storm < Zooms
    /\ IF page = "up" THEN storm' = storm + 1 /\ UNCHANGED <<phase, report, checkpoints>>
       ELSE Fails /\ UNCHANGED storm
    /\ UNCHANGED <<gameVars, shell, expected, canvas, since, pairs>>

\* 85 % of the storm, or a minute, has passed.
StormUnderWay ==
    /\ phase = "storm" /\ phase' = "pair"
    /\ UNCHANGED <<gameVars, shell, expected, canvas, since, pairs, checkpoints, storm, report>>

(***************************************************************************)
(* Checkpoints.                                                            *)
(***************************************************************************)
AfterCheckpoint ==
    IF Len(checkpoints') = 1 THEN "await"
    ELSE IF Len(checkpoints') < Checkpoints THEN "pair" ELSE "report"

Finished(c) == checkpoints' = Append(checkpoints, c) /\ phase' = AfterCheckpoint /\ pairs' = <<>>

\* Mutant: a checkpoint that dies is taken for one with the pairs it has.
DiedUnnoticed == Finished([failed |-> FALSE, pairs |-> Len(pairs), storm |-> storm, analysis |-> <<>>])

\* A checkpoint that dies is recorded, with what it has and no analysis.
Died == Finished([failed |-> TRUE, pairs |-> Len(pairs), storm |-> storm, analysis |-> <<>>])

\* capturePair: both sides are asked for at once.
BeginPair ==
    /\ phase = "pair" /\ shell = Idle
    /\ IF page = "up"
       THEN /\ shell' = [Idle EXCEPT !.pc = "clear"] /\ since' = shot /\ canvas' = Absent
            /\ UNCHANGED <<phase, pairs, checkpoints>>
       ELSE Died /\ UNCHANGED <<shell, since, canvas>>
    /\ UNCHANGED <<gameVars, expected, storm, report>>

\* The canvas is read; if the page is gone the pair fails, and what the shell
\* still does is of no use to any later pair.
ReadCanvas ==
    /\ phase = "pair" /\ shell # Idle /\ canvas = Absent
    /\ \/ /\ page = "up" /\ \E picture \in drawn..shot : Shows(picture) /\ canvas' = <<picture>>
          /\ UNCHANGED <<shell, phase, pairs, checkpoints>>
       \/ page = "gone" /\ Died /\ shell' = Idle /\ UNCHANGED <<canvas, drawn>>
    /\ UNCHANGED <<shot, page, trigger, file, writing, expected, since, storm, report>>

\* Both sides are there; after the last pair the burst is analysed.
EndPair ==
    /\ phase = "pair" /\ shell.pc = "answer" /\ (Answered => canvas # Absent)
    /\ shell' = Idle /\ canvas' = Absent /\ since' = 0
    /\ LET pair == [host |-> shell.read, client |-> canvas[1], from |-> since, to |-> shot]
           all == Append(pairs, pair)
       IN  IF ~Answered THEN Died
           ELSE /\ pairs' = all /\ UNCHANGED checkpoints
                /\ phase' = IF Len(all) < Burst THEN "pair" ELSE "analyse"
    /\ UNCHANGED <<gameVars, expected, storm, report>>

\* analyze: the figures of the burst are what is kept of it.
AnalyseBurst ==
    /\ phase = "analyse"
    /\ LET hosts == [k \in DOMAIN pairs |-> pairs[k].host[1]]
           clients == [k \in DOMAIN pairs |-> pairs[k].client]
       IN  Finished([failed |-> FALSE, pairs |-> Len(pairs), storm |-> storm,
                     analysis |-> <<Figures(hosts, clients)>>])
    /\ UNCHANGED <<gameVars, shell, expected, canvas, since, storm, report>>

StormEnds ==
    /\ phase = "await" /\ storm = Zooms
    /\ phase' = IF Len(checkpoints) < Checkpoints THEN "pair" ELSE "report"
    /\ UNCHANGED <<gameVars, shell, expected, canvas, since, pairs, checkpoints, storm, report>>

\* report.json and report.md.
WriteReport ==
    /\ phase = "report" /\ phase' = "summary" /\ report' = checkpoints
    /\ UNCHANGED <<gameVars, shell, expected, canvas, since, pairs, checkpoints, storm>>

\* The summary on the console reads the analysis of every checkpoint; one that
\* failed has none.
Summarise ==
    /\ phase = "summary"
    /\ phase' = IF \E i \in DOMAIN report : report[i].failed THEN "failed" ELSE "done"
    /\ UNCHANGED <<gameVars, shell, expected, canvas, since, pairs, checkpoints, storm, report>>

QAInit ==
    /\ phase = "preflight" /\ shell = [Idle EXCEPT !.pc = "clear"]
    /\ expected = 0 /\ canvas = Absent /\ since = 0 /\ pairs = <<>> /\ checkpoints = <<>>
    /\ storm = 0 /\ report = <<>>
QAOff ==
    /\ phase = "off" /\ shell = Idle
    /\ expected = 0 /\ canvas = Absent /\ since = 0 /\ pairs = <<>> /\ checkpoints = <<>>
    /\ storm = 0 /\ report = <<>>

QANext ==
    \/ ShellSteps \/ Preflight \/ Load \/ StormBlows \/ StormUnderWay
    \/ BeginPair \/ ReadCanvas \/ EndPair \/ AnalyseBurst \/ StormEnds \/ WriteReport \/ Summarise
=============================================================================
