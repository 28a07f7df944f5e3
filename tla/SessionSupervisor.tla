-------------------------- MODULE SessionSupervisor --------------------------
(***************************************************************************)
(* The hub's ProcessSupervisor (server/features/session/supervisor.go):    *)
(* one game process and its virtual display at a time, started and stopped *)
(* by concurrent HTTP requests and by main on shutdown, and watched by one *)
(* monitor goroutine per game.                                             *)
(*                                                                         *)
(* s.mu is held for the whole of Start and for each end of Stop and of the *)
(* monitor, so each of those is one action. A Stop releases the lock while *)
(* it waits for the game to die, and a monitor takes it only after the     *)
(* game has died: other requests run in between.                           *)
(***************************************************************************)
EXTENDS Naturals

CONSTANTS
  Stoppers,      \* goroutines that may call Stop
  Main,          \* the one of them that calls it on shutdown
  MaxSessions    \* bound of the model: games ever started

ASSUME StoppersAssumption == Main \in Stoppers
ASSUME SessionsAssumption == MaxSessions \in Nat

Sessions == 1..MaxSessions
None == 0

VARIABLES
  state,      \* s.state; "starting" is only ever seen by the holder of s.mu
  current,    \* the session whose process is s.gameCmd, None for nil
  named,      \* the session s.gameID and s.gameName tell of, None for ""
  display,    \* the session whose Xvfb is s.xvfbCmd, None for nil
  game,       \* each session's game process, as the system sees it
  killed,     \* game processes that were sent SIGKILL
  displays,   \* sessions whose Xvfb process is alive
  monitor,    \* each session's monitor goroutine
  stop,       \* each stopper's call of Stop
  serving,    \* main has not yet left
  meddled     \* history variable: see Meddles

vars == <<state, current, named, display, game, killed, displays, monitor, stop, serving, meddled>>
heldVars == <<state, current, named, display, displays>>
processVars == <<game, killed, monitor>>

-----------------------------------------------------------------------------
Alive == {n \in Sessions : game[n] = "alive"}

\* The next session to be started: they are numbered in the order they start.
Unused(n) == game[n] = "none" /\ \A m \in Sessions : m < n => game[m] # "none"

\* Everything Stop and the monitor reset under the lock.
ClearSession == state' = "idle" /\ current' = None /\ named' = None

\* s.xvfbCmd.Process.Kill() and Wait(): whatever display is registered goes.
KillDisplay == display' = None /\ displays' = displays \ {display}

\* Ghost: the second half of a Stop or of a monitor finds another session than
\* the one it waited for.
Meddles(n) == meddled' = (meddled \/ current \notin {n, None})

-----------------------------------------------------------------------------
(* Start, under the lock throughout                                        *)

StartGame(n, needsDisplay) ==
  /\ game' = [game EXCEPT ![n] = "alive"]
  /\ monitor' = [monitor EXCEPT ![n] = "waiting"]
  /\ state' = "running"
  /\ current' = n
  /\ IF needsDisplay
       THEN display' = n /\ displays' = displays \cup {n}
       ELSE UNCHANGED <<display, displays>>

\* Mutant: no clean-up on the error path.
StartFailsKeepsDisplay(n, needsDisplay) ==
  /\ game' = [game EXCEPT ![n] = "failed"]
  /\ needsDisplay /\ display' = n /\ displays' = displays \cup {n}
  /\ UNCHANGED <<state, current, monitor>>

\* Xvfb or the game could not be started: the state goes back to idle, a
\* display started for this game is killed with whatever else is registered,
\* and the name stays. A number is spent, so that failures are bounded too.
StartFails(n, needsDisplay) ==
  /\ game' = [game EXCEPT ![n] = "failed"]
  /\ \/ needsDisplay /\ UNCHANGED <<display, displays>>
     \/ needsDisplay /\ display' = None /\ UNCHANGED displays
     \/ ~needsDisplay /\ KillDisplay
  /\ UNCHANGED <<state, current, monitor>>

Start(n) ==
  /\ serving
  /\ state = "idle"
  /\ Unused(n)
  /\ \E needsDisplay \in BOOLEAN : StartGame(n, needsDisplay) \/ StartFails(n, needsDisplay)
  /\ named' = n
  /\ UNCHANGED <<killed, stop, serving, meddled>>

-----------------------------------------------------------------------------
(* The game process and its monitor                                        *)

\* A game may end on its own, by SIGTERM, or not before SIGKILL.
Exit(n) ==
  /\ game[n] = "alive"
  /\ game' = [game EXCEPT ![n] = "exited"]
  /\ UNCHANGED <<heldVars, killed, monitor, stop, serving, meddled>>

\* cmd.Wait returns and done is closed, before the lock is taken.
Reap(n) ==
  /\ serving
  /\ game[n] = "exited" /\ monitor[n] = "waiting"
  /\ game' = [game EXCEPT ![n] = "reaped"]
  /\ monitor' = [monitor EXCEPT ![n] = "done"]
  /\ UNCHANGED <<heldVars, killed, stop, serving, meddled>>

MonitorEnd(n) ==
  /\ serving
  /\ monitor[n] = "done"
  /\ monitor' = [monitor EXCEPT ![n] = "ended"]
  /\ KillDisplay
  /\ IF state # "stopping" THEN ClearSession ELSE UNCHANGED <<state, current, named>>
  /\ Meddles(n)
  /\ UNCHANGED <<game, killed, stop, serving>>

-----------------------------------------------------------------------------
(* Stop                                                                    *)

NoCall == [phase |-> "none", of |-> None]

\* Nothing to do when idle. Otherwise the process is sent SIGTERM after the
\* lock is released.
StopBegin(p) ==
  /\ serving
  /\ stop[p].phase = "none"
  /\ IF state = "idle"
       THEN /\ stop' = [stop EXCEPT ![p] = [phase |-> "returned", of |-> None]]
            /\ UNCHANGED state
       ELSE /\ state' = "stopping"
            /\ stop' = [stop EXCEPT ![p] =
                 [phase |-> IF current = None THEN "finish" ELSE "wait", of |-> current]]
  /\ UNCHANGED <<current, named, display, displays, processVars, serving, meddled>>

\* Mutant: the timer only repeats the SIGTERM.
StopTermsAgain(p) ==
  /\ stop[p].phase = "wait"
  /\ stop' = [stop EXCEPT ![p].phase = "killed"]
  /\ UNCHANGED <<heldVars, killed, game, monitor, serving, meddled>>

\* 500 ms passed and done was not closed.
StopKill(p) ==
  /\ stop[p].phase = "wait"
  /\ killed' = killed \cup {stop[p].of}
  /\ stop' = [stop EXCEPT ![p].phase = "killed"]
  /\ UNCHANGED <<heldVars, game, monitor, serving, meddled>>

\* Mutant: after the SIGKILL nobody waits for done.
StopGivesUp(p) ==
  /\ \/ stop[p].phase = "killed"
     \/ stop[p].phase = "wait" /\ monitor[stop[p].of] # "waiting"
  /\ stop' = [stop EXCEPT ![p].phase = "finish"]
  /\ UNCHANGED <<heldVars, processVars, serving, meddled>>

\* <-done
StopSeesDone(p) ==
  /\ stop[p].phase \in {"wait", "killed"}
  /\ monitor[stop[p].of] # "waiting"
  /\ stop' = [stop EXCEPT ![p].phase = "finish"]
  /\ UNCHANGED <<heldVars, processVars, serving, meddled>>

StopEnd(p) ==
  /\ stop[p].phase = "finish"
  /\ KillDisplay
  /\ ClearSession
  /\ stop' = [stop EXCEPT ![p].phase = "returned"]
  /\ Meddles(stop[p].of)
  /\ UNCHANGED <<processVars, serving>>

\* The HTTP handler has answered; the same client may call again.
StopReturn(p) ==
  /\ stop[p].phase = "returned"
  /\ p # Main
  /\ stop' = [stop EXCEPT ![p] = NoCall]
  /\ UNCHANGED <<heldVars, processVars, serving, meddled>>

\* main after supervisor.Stop(): server.Shutdown gives the handlers that are
\* still busy five seconds, several times what a Stop takes, and the hub leaves.
\* Its goroutines end with it; a game does not.
Leave ==
  /\ serving
  /\ stop[Main].phase = "returned"
  /\ \A p \in Stoppers \ {Main} : stop[p].phase = "none"
  /\ serving' = FALSE
  /\ UNCHANGED <<heldVars, processVars, stop, meddled>>

-----------------------------------------------------------------------------
Init ==
  /\ state = "idle"
  /\ current = None
  /\ named = None
  /\ display = None
  /\ game = [n \in Sessions |-> "none"]
  /\ killed = {}
  /\ displays = {}
  /\ monitor = [n \in Sessions |-> "none"]
  /\ stop = [p \in Stoppers |-> NoCall]
  /\ serving = TRUE
  /\ meddled = FALSE

Next ==
  \/ \E n \in Sessions : Start(n) \/ Exit(n) \/ Reap(n) \/ MonitorEnd(n)
  \/ \E p \in Stoppers :
       StopBegin(p) \/ StopKill(p) \/ StopSeesDone(p) \/ StopEnd(p) \/ StopReturn(p)
  \/ Leave

\* Goroutines that can run do run, the 500 ms timer fires, and a process that
\* was sent SIGKILL dies. Nothing obliges a game to react to SIGTERM, a client
\* to send requests, or main to be told to stop.
Fairness ==
  /\ \A n \in Sessions :
       /\ WF_vars(Exit(n) /\ n \in killed)
       /\ WF_vars(Reap(n))
       /\ WF_vars(MonitorEnd(n))
  /\ \A p \in Stoppers :
       /\ WF_vars(StopKill(p))
       /\ WF_vars(StopSeesDone(p))
       /\ WF_vars(StopEnd(p))

Spec == Init /\ [][Next]_vars /\ Fairness

-----------------------------------------------------------------------------
TypeOK ==
  /\ state \in {"idle", "running", "stopping"}
  /\ current \in Sessions \cup {None}
  /\ named \in Sessions \cup {None}
  /\ display \in Sessions \cup {None}
  /\ game \in [Sessions -> {"none", "failed", "alive", "exited", "reaped"}]
  /\ killed \subseteq Sessions
  /\ displays \subseteq Sessions
  /\ monitor \in [Sessions -> {"none", "waiting", "done", "ended"}]
  /\ stop \in [Stoppers -> [phase : {"none", "wait", "killed", "finish", "returned"},
                           of : Sessions \cup {None}]]
  /\ serving \in BOOLEAN
  /\ meddled \in BOOLEAN

\* A Stop gets to its second half, and reports success, only after the process
\* it was asked to end has died and been waited for.
StoppedIsReaped ==
  \A p \in Stoppers :
    stop[p].phase = "finish" => stop[p].of # None /\ game[stop[p].of] = "reaped"

\* "Stop safely terminates the active game session and reaps child processes"
\* (supervisor.go), as far as it is true: until some Stop or monitor has ended a
\* session that was not its own, no game and no display is alive but the ones
\* the supervisor can still end, and none at all when it is idle.
NothingUnsupervised ==
  /\ ~meddled => Alive \subseteq {current} /\ displays \subseteq {display}
  /\ state = "idle" <=> current = None
  /\ state = "idle" => display = None

\* Whatever the game does with SIGTERM, a Stop that began to wait returns.
EveryStopReturns ==
  \A p \in Stoppers : stop[p].phase = "wait" ~> stop[p].phase = "returned"

-----------------------------------------------------------------------------
(* What the comments of the code say, taken at their word. Each is violated. *)

\* supervisor.go, Stop: "Stop safely terminates the active game session and reaps
\* child processes." An idle supervisor then leaves no game running. But a second
\* Stop, or the monitor of a game that ended on its own, may take the lock after
\* the next game was started, and forget that one alive.
IdleMeansStopped == state = "idle" => Alive = {}

=============================================================================
