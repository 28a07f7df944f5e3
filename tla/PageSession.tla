----------------------------- MODULE PageSession -----------------------------
(***************************************************************************)
(* A page's dealings with the hub's session (src/client/src/App.jsx and    *)
(* components/MainMenu.jsx): it polls the session, starts and stops games, *)
(* and moves between the menu and the stream.  PageConnection is what the  *)
(* stream's canvas does meanwhile.                                         *)
(*                                                                         *)
(* Answers of the hub arrive in any order, each telling the state as it    *)
(* was when the hub looked.  The hub's own state changes with other pages  *)
(* and games that end: it is SessionSupervisor, seen as its state.  One    *)
(* game is installed.                                                      *)
(***************************************************************************)
EXTENDS PageConnection

CONSTANTS
    Polls,         \* bound: slots for GET /api/session requests under way
    MaxMoves,      \* bound: clicks and history moves of the user
    MaxOthers      \* bound: changes of the session the page does not make

ASSUME SessionAssumption == IsFiniteSet(Polls) /\ {MaxMoves, MaxOthers} \subseteq Nat

VARIABLES
    others,       \* changes others made so far
    moves,        \* what the user did so far
    session,      \* state of the session the page knows
    isStarting,   \* the launch button spins
    isStopping,   \* the stop button spins
    polls,        \* polls[s]: the answer of a poll, or where the poll is
    start,        \* POST /api/session/start likewise
    stop,         \* POST /api/session/stop likewise
    timer         \* the 600 ms timer of a launch is pending

sessionVars == <<session, isStarting, isStopping, polls, start, stop, timer>>
hubVars == <<server, others>>
vars == <<connectionVars, hubVars, moves, sessionVars>>

States == {"idle", "running", "stopping"}
\* Where a request is: not made, made, begun by the hub, or answered.
Places == {"none", "sent", "begun"} \union States \union {"failed"}

(***************************************************************************)
(* The hub.                                                                *)
(***************************************************************************)
\* The canvas' socket dies with the game.
GameDies == canvas' = IF canvas.mounted THEN [canvas EXCEPT !.alive = FALSE] ELSE canvas

SomebodyStarts ==
    /\ others < MaxOthers /\ server = "idle"
    /\ server' = "running" /\ others' = others + 1
    /\ UNCHANGED <<connectionVars, moves, sessionVars>>

GameEnds ==
    /\ others < MaxOthers /\ server = "running"
    /\ server' = "idle" /\ others' = others + 1
    /\ GameDies
    /\ UNCHANGED <<path, visited, view, down, orphans, faults, moves, sessionVars>>

HubAnswersPoll(s) ==
    /\ polls[s] = "sent"
    /\ polls' = [polls EXCEPT ![s] = server]
    /\ UNCHANGED <<connectionVars, hubVars, moves, session, isStarting, isStopping,
                   start, stop, timer>>

\* Start is refused unless idle.
HubStarts ==
    /\ start = "sent"
    /\ IF server = "idle"
       THEN server' = "running" /\ start' = "begun"
       ELSE UNCHANGED server /\ start' = "failed"
    /\ UNCHANGED <<connectionVars, others, moves, session, isStarting, isStopping,
                   polls, stop, timer>>

\* StartSession reads the status after Start: the game may have ended by then.
HubAnswersStart ==
    /\ start = "begun"
    /\ start' = server
    /\ UNCHANGED <<connectionVars, hubVars, moves, session, isStarting, isStopping,
                   polls, stop, timer>>

HubStops ==
    /\ stop = "sent"
    /\ stop' = "begun"
    /\ IF server = "running"
       THEN server' = "stopping" /\ GameDies
       ELSE UNCHANGED <<server, canvas>>
    /\ UNCHANGED <<path, visited, view, down, orphans, faults, others, moves, session,
                   isStarting, isStopping, polls, start, timer>>

HubStopped ==
    /\ server = "stopping"
    /\ server' = "idle"
    /\ UNCHANGED <<connectionVars, others, moves, sessionVars>>

HubAnswersStop ==
    /\ stop = "begun" /\ server # "stopping"
    /\ stop' = server
    /\ UNCHANGED <<connectionVars, hubVars, moves, session, isStarting, isStopping,
                   polls, start, timer>>

\* The answer of a request that was served is lost.
AnswerLost ==
    /\ faults < MaxFaults /\ faults' = faults + 1
    /\ \/ \E s \in Polls : /\ polls[s] \in States /\ polls' = [polls EXCEPT ![s] = "failed"]
                           /\ UNCHANGED <<start, stop>>
       \/ start \in States /\ start' = "failed" /\ UNCHANGED <<polls, stop>>
       \/ stop \in States /\ stop' = "failed" /\ UNCHANGED <<polls, start>>
    /\ UNCHANGED <<path, visited, view, canvas, down, orphans, hubVars, moves, session,
                   isStarting, isStopping, timer>>

(***************************************************************************)
(* The page's requests and their answers.                                  *)
(***************************************************************************)
\* On mount and every 3 s.
FetchSession(s) ==
    /\ polls[s] = "none"
    /\ polls' = [polls EXCEPT ![s] = "sent"]
    /\ UNCHANGED <<connectionVars, hubVars, moves, session, isStarting, isStopping,
                   start, stop, timer>>

SessionFetched(s) ==
    /\ polls[s] \in States
    /\ polls' = [polls EXCEPT ![s] = "none"]
    /\ session' = polls[s]
    /\ IF polls[s] = "idle" /\ path \in StreamPaths
       THEN NavigateToHome /\ UNCHANGED faults
       ELSE UNCHANGED connectionVars
    /\ UNCHANGED <<hubVars, moves, isStarting, isStopping, start, stop, timer>>

FetchFails(s) ==
    /\ polls[s] = "failed"
    /\ polls' = [polls EXCEPT ![s] = "none"]
    /\ UNCHANGED <<connectionVars, hubVars, moves, session, isStarting, isStopping,
                   start, stop, timer>>

UserActs == moves < MaxMoves /\ moves' = moves + 1

\* The launch button: shown enabled when no game is known to run and none is
\* being started.
HandleLaunch ==
    /\ UserActs /\ view = "menu" /\ session # "running" /\ ~isStarting
    /\ start' = "sent" /\ isStarting' = TRUE
    /\ UNCHANGED <<connectionVars, hubVars, session, isStopping, polls, stop, timer>>

\* Mutant: the button is freed with the answer, not with the timer.
LaunchAnsweredFreed ==
    /\ start \in States
    /\ start' = "none" /\ session' = start /\ timer' = TRUE /\ isStarting' = FALSE
    /\ UNCHANGED <<connectionVars, hubVars, moves, isStopping, polls, stop>>

LaunchAnswered ==
    /\ start \in States
    /\ start' = "none" /\ session' = start /\ timer' = TRUE
    /\ UNCHANGED <<connectionVars, hubVars, moves, isStarting, isStopping, polls, stop>>

LaunchRefused ==
    /\ start = "failed"
    /\ start' = "none" /\ isStarting' = FALSE
    /\ UNCHANGED <<connectionVars, hubVars, moves, session, isStopping, polls, stop, timer>>

\* 600 ms after the answer, whatever has happened meanwhile.
LaunchTimer ==
    /\ timer
    /\ timer' = FALSE /\ isStarting' = FALSE
    /\ NavigateToStream
    /\ UNCHANGED <<faults, hubVars, moves, session, isStopping, polls, start, stop>>

HandleStop ==
    /\ UserActs /\ view = "menu" /\ session = "running" /\ ~isStopping
    /\ stop' = "sent" /\ isStopping' = TRUE
    /\ UNCHANGED <<connectionVars, hubVars, session, isStarting, polls, start, timer>>

StopAnswered ==
    /\ stop \in States
    /\ stop' = "none" /\ session' = stop /\ isStopping' = FALSE
    /\ NavigateToHome
    /\ UNCHANGED <<faults, hubVars, moves, isStarting, polls, start, timer>>

StopFails ==
    /\ stop = "failed"
    /\ stop' = "none" /\ isStopping' = FALSE
    /\ UNCHANGED <<connectionVars, hubVars, moves, session, isStarting, polls, start, timer>>

Resume ==
    /\ UserActs /\ view = "menu" /\ session = "running" /\ ~isStopping
    /\ NavigateToStream
    /\ UNCHANGED <<faults, hubVars, sessionVars>>

UserNavigates ==
    /\ UserActs
    /\ \E p \in visited : HandlePopState(p)
    /\ UNCHANGED <<hubVars, sessionVars>>

Init ==
    /\ server \in {"idle", "running"}
    /\ path \in {"/", "/df"} /\ visited = {path}
    /\ view = IF path \in StreamPaths THEN "stream" ELSE "menu"
    /\ canvas = IF path \in StreamPaths THEN NewCanvas
                ELSE NoCanvas
    /\ down = <<>> /\ orphans = 0 /\ faults = 0
    /\ others = 0 /\ moves = 0
    /\ session = "idle" /\ isStarting = FALSE /\ isStopping = FALSE
    /\ polls = [s \in Polls |-> "none"] /\ start = "none" /\ stop = "none" /\ timer = FALSE

HubNext ==
    \/ SomebodyStarts \/ GameEnds
    \/ \E s \in Polls : HubAnswersPoll(s)
    \/ HubStarts \/ HubAnswersStart
    \/ HubStops \/ HubStopped \/ HubAnswersStop
    \/ AnswerLost

AppNext ==
    \/ \E s \in Polls : FetchSession(s) \/ SessionFetched(s) \/ FetchFails(s)
    \/ HandleLaunch \/ LaunchAnswered \/ LaunchRefused \/ LaunchTimer
    \/ HandleStop \/ StopAnswered \/ StopFails
    \/ Resume \/ UserNavigates

Aside == UNCHANGED <<hubVars, moves, sessionVars>>
CanvasNext == ConnectionNext /\ Aside

Next == HubNext \/ AppNext \/ CanvasNext

\* The hub answers, requests made are answered, the poll's interval and the
\* timer fire, a game that is stopping ends, a socket whose game died closes,
\* and a connection that can be made is made.  The user owes nothing, and a
\* browser need not report an orphan's close.
Fairness ==
    /\ \A s \in Polls : WF_vars(HubAnswersPoll(s)) /\ WF_vars(SessionFetched(s))
                        /\ WF_vars(FetchSession(s)) /\ WF_vars(FetchFails(s))
    /\ WF_vars(HubStarts) /\ WF_vars(HubAnswersStart)
    /\ WF_vars(HubStops) /\ WF_vars(HubStopped) /\ WF_vars(HubAnswersStop)
    /\ WF_vars(LaunchAnswered) /\ WF_vars(LaunchRefused) /\ WF_vars(LaunchTimer)
    /\ WF_vars(StopAnswered) /\ WF_vars(StopFails)
    /\ WF_vars(WsOpens /\ Aside)
    /\ WF_vars(OfferCreated /\ Aside) /\ WF_vars(OfferSent /\ Aside)
    /\ WF_vars(AnswerArrives /\ Aside) /\ WF_vars(CandidateArrives /\ Aside)
    /\ WF_vars(RemoteDescriptionSet /\ Aside) /\ WF_vars(PendingAdded /\ Aside)
    /\ WF_vars(StreamOpens /\ Aside) /\ WF_vars(InputOpens /\ Aside)
    /\ WF_vars(FrameDrawn /\ Aside)
    /\ WF_vars(WsCloses /\ Aside)

Spec == Init /\ [][Next]_vars /\ Fairness

(***************************************************************************)
(* Properties.                                                             *)
(***************************************************************************)
\* The page has at most one start and one stop under way, and its buttons
\* spin exactly as long (handleLaunch's timer outlives the answer, and a
\* stop, a history move or the end of the game may come in between).
FlagsTellOrders ==
    /\ isStarting = (start # "none" \/ timer)
    /\ ~(start # "none" /\ timer)
    /\ isStopping = (stop # "none")

\* A candidate is added only on top of a remote description, and none waits
\* once the drain loop is over, though more come while it awaits.
NoCandidateForgotten ==
    canvas.mounted =>
      /\ canvas.early = {}
      /\ canvas.described = "yes" /\ canvas.drained = NoCandidate => canvas.pending = <<>>

\* Whatever order answers come in, the page in the end knows the session.
SessionLearned == <>[](session = server)

\* A canvas whose game ended does not stay on the page, even if another game
\* has started since.
DeadCanvasLeaves == canvas.mounted /\ ~canvas.alive ~> ~(canvas.mounted /\ ~canvas.alive)

\* Where UDP works and nothing failed, a page on the stream in the end shows
\* it without the overlay.
StreamShown ==
    <>[](faults > 0 \/ (canvas.mounted /\ canvas.alive => canvas.ready /\ canvas.drawn))

\* A page left alone catches up.
PageSettles == SessionLearned /\ StreamShown
=============================================================================
