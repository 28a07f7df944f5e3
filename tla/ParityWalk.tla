----------------------------- MODULE ParityWalk -----------------------------
(***************************************************************************)
(* src/scripts/qa_parity_walk.mjs: the walk through the game's screens.    *)
(* Every step sends its inputs, takes the page's canvas and then a burst   *)
(* of the game's window, which a tool of the X server grabs, and counts    *)
(* what the page shows that no grab shows.  A failure anywhere ends the    *)
(* walk; the summary is written at its end.                                *)
(***************************************************************************)
EXTENDS Parity

CONSTANTS
    Only,        \* QA_ONLY: ids of the steps to run
    Grabs,       \* QA_BURST: native pictures for each of the page's
    SoakFrames   \* QA_SOAK_FRAMES: pictures of the page in the last step

ASSUME WalkAssumption == Grabs \in Nat \ {0} /\ SoakFrames \in Nat \ {0}

VARIABLES
    walk,     \* "off", "start", "act", "shoot", "grab", "analyse", "summary", "done", "failed"
    step,     \* the step under way, by its place among those selected
    todo,     \* inputs the step has still to send
    pointer,  \* where the mouse is: "away" from the canvas, or over it
    row,      \* the capture under way: the page's picture and the grabs
    rows,     \* captures of this step
    results,  \* steps done
    summary   \* index.html and summary.md

walkVars == <<walk, step, todo, pointer, row, rows, results, summary>>

(***************************************************************************)
(* The steps: their inputs, waits left out, and how often each is captured. *)
(***************************************************************************)
Step(id, inputs, captures) == [id |-> id, inputs |-> inputs, captures |-> captures]

Steps == <<
    Step("reset_to_title", <<"press", "press", "click">>, 1),
    Step("title", <<>>, 1),
    Step("world_list", <<"press">>, 1),
    Step("game_type", <<"press">>, 1),
    Step("world_map", <<"click">>, 1),
    Step("embark_view", <<"click">>, 1),
    Step("back_to_title_2", <<"press", "press", "click">>, 1),
    Step("arena_menu", <<"click">>, 1),
    Step("arena_classic", <<"click">>, 1),
    Step("arena_created", <<"click">>, 1),
    Step("pan", <<"press">>, 1),
    Step("scroll", <<"move", "wheel">>, 1),
    Step("spawn_menu", <<"click">>, 1),
    Step("spawn_create", <<"click">>, 1),
    Step("spawn_place", <<"click">>, 1),
    Step("minimap_zoom", <<"click">>, 1),
    Step("soak", <<>>, SoakFrames) >>

Selected ==
    FlattenSeq([i \in DOMAIN Steps |-> IF Steps[i].id \in Only THEN <<Steps[i]>> ELSE <<>>])

\* A failure: the browser is closed and main rejects.
WalkFails == walk' = "failed" /\ UNCHANGED <<step, todo, pointer, row, rows, results, summary>>
OrFails(A) == IF page = "up" THEN A ELSE WalkFails

Begin == IF Selected = <<>> THEN "failed" ELSE "start"

\* The page is opened, and the game resumed if it offers that.
WalkStarts ==
    /\ walk = "start"
    /\ OrFails(/\ walk' = "act" /\ step' = 1 /\ todo' = Selected[1].inputs
               /\ UNCHANGED <<pointer, row, rows, results, summary>>)

\* One input.  A key press first takes the mouse over the canvas; a wheel turns
\* wherever the mouse is.
SendInput ==
    /\ walk = "act" /\ todo # <<>>
    /\ OrFails(/\ todo' = Tail(todo)
               /\ pointer' = IF Head(todo) = "wheel" THEN pointer ELSE "over"
               /\ UNCHANGED <<walk, step, row, rows, results, summary>>)

ActDone ==
    /\ walk = "act" /\ todo = <<>> /\ walk' = "shoot"
    /\ UNCHANGED <<step, todo, pointer, row, rows, results, summary>>

\* captureStep: the page's picture first.
Screenshot ==
    /\ walk = "shoot"
    /\ \/ /\ page = "up" /\ walk' = "grab"
          /\ \E picture \in drawn..shot :
                Shows(picture) /\ row' = [client |-> picture, natives |-> <<>>, from |-> shot]
          /\ UNCHANGED <<step, todo, pointer, rows, results, summary>>
       \/ page = "gone" /\ WalkFails /\ UNCHANGED drawn
    /\ UNCHANGED <<shot, page, trigger, file, writing>>

\* nativeGrab; ssh, podman and import may fail.
Grab ==
    /\ walk = "grab"
    /\ \/ /\ row' = [row EXCEPT !.natives = Append(@, shot)]
          /\ walk' = IF Len(row.natives) + 1 < Grabs THEN "grab" ELSE "analyse"
          /\ UNCHANGED <<step, todo, pointer, rows, results, summary>>
       \/ WalkFails

\* analyse; a soak step goes on with its next capture at once, any other with
\* the next step.
Analyse ==
    /\ walk = "analyse" /\ row' = [client |-> 0, natives |-> <<>>, from |-> 0]
    /\ LET all == Append(rows, row)
       IN  IF Len(all) < Selected[step].captures
           THEN rows' = all /\ walk' = "shoot" /\ UNCHANGED <<step, todo, results>>
           ELSE /\ rows' = <<>> /\ results' = Append(results, [id |-> Selected[step].id, rows |-> all])
                /\ IF step < Len(Selected)
                   THEN walk' = "act" /\ step' = step + 1 /\ todo' = Selected[step + 1].inputs
                   ELSE walk' = "summary" /\ UNCHANGED <<step, todo>>
    /\ UNCHANGED <<pointer, summary>>

WriteSummary ==
    /\ walk = "summary" /\ walk' = "done" /\ summary' = results
    /\ UNCHANGED <<step, todo, pointer, row, rows, results>>

WalkReset ==
    /\ step = 0 /\ todo = <<>> /\ pointer = "away" /\ rows = <<>> /\ results = <<>> /\ summary = <<>>
    /\ row = [client |-> 0, natives |-> <<>>, from |-> 0]
WalkInit == walk = Begin /\ WalkReset
WalkOff == walk = "off" /\ WalkReset

WalkNext ==
    \/ Screenshot
    \/ /\ WalkStarts \/ SendInput \/ ActDone \/ Grab \/ Analyse \/ WriteSummary
       /\ UNCHANGED gameVars
=============================================================================
