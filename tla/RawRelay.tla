------------------------------ MODULE RawRelay ------------------------------
(***************************************************************************)
(* The raw path through the hub: the link that reads frames from the one   *)
(* interposer (server/features/raw/link.go), the FrameHolder they are      *)
(* published to, the loop of each viewer in ServeMJPEG, and the input      *)
(* sockets of the pages, on which the loops announce the frames that       *)
(* answer an input (raw_controller.go). What a page sends up its socket is *)
(* forwarded as it comes and is not modelled.                              *)
(***************************************************************************)
EXTENDS FrameHolder

CONSTANTS
  Sockets,    \* pages that may hold an input socket
  Stamped,    \* the images that answer an input
  MaxConns    \* bound of the model: connections of the interposer

ASSUME StampedAssumption == Stamped \subseteq Images
ASSUME ConnsAssumption == MaxConns \in Nat

VARIABLES
  link,       \* where LinkServer.Serve is, and the connection it holds
  conn,       \* l.conn, 0 for nil
  accepted,   \* connections accepted so far: they are numbered from 1
  alive,      \* connections neither side has closed
  shutdown,   \* l.shutdown
  closing,    \* where LinkServer.Close is, and the connection it holds
  socket,     \* pages whose socket is registered in inputConns
  deadline,   \* the write deadline of a socket
  status,     \* the pushStatus goroutine of a socket
  echo,       \* where a viewer's loop is in echoStamp
  heard,      \* history variable: frames a socket's page was told of, or
              \* would have been had the write not timed out
  since       \* history variable: frames published before a socket was there

linkVars == <<link, conn, accepted, alive, shutdown, closing>>
socketVars == <<socket, deadline, status, heard, since>>
vars == <<holderVars, linkVars, socketVars, echo>>

Echoing(phase, to) == [phase |-> phase, to |-> to]
NotEchoing == Echoing("none", {})

-----------------------------------------------------------------------------
(* LinkServer                                                              *)

At0(phase) == [at |-> phase, conn |-> 0]

\* Serve takes the listener, unless Close came first.
ServeBegin ==
  /\ link.at = "starting"
  /\ link' = At0(IF shutdown THEN "ended" ELSE "accepting")
  /\ UNCHANGED <<conn, accepted, alive, shutdown, closing, holderVars, socketVars, echo>>

\* listener.Accept. A closed listener ends Serve.
Accept ==
  /\ link.at = "accepting"
  /\ \/ /\ closing.phase # "done" /\ accepted < MaxConns
        /\ accepted' = accepted + 1
        /\ alive' = alive \cup {accepted + 1}
        /\ link' = [at |-> "accepted", conn |-> accepted + 1]
     \/ /\ closing.phase = "done"
        /\ link' = At0("ended")
        /\ UNCHANGED <<accepted, alive>>
  /\ UNCHANGED <<conn, shutdown, closing, holderVars, socketVars, echo>>

\* Mutant: serveConn does not look at l.shutdown.
RegisterRegardless ==
  /\ link.at = "accepted"
  /\ conn' = link.conn
  /\ link' = [link EXCEPT !.at = "reading"]
  /\ UNCHANGED <<alive, accepted, shutdown, closing, holderVars, socketVars, echo>>

\* The head of serveConn: a connection that came in as Close ran is dropped.
Register ==
  /\ link.at = "accepted"
  /\ IF shutdown
       THEN alive' = alive \ {link.conn} /\ link' = At0("accepting") /\ UNCHANGED conn
       ELSE conn' = link.conn /\ link' = [link EXCEPT !.at = "reading"] /\ UNCHANGED alive
  /\ UNCHANGED <<accepted, shutdown, closing, holderVars, socketVars, echo>>

\* One frame is read and published by the link's own goroutine.
ReadFrame ==
  /\ link.at = "reading" /\ link.conn \in alive
  /\ \E image \in Images : Publish(image)
  /\ UNCHANGED <<linkVars, socketVars, echo>>

\* Reading failed: the connection ends, once a publish under way is through.
ReadFails ==
  /\ link.at = "reading" /\ MuFree
  /\ link.conn \notin alive
  /\ conn' = IF conn = link.conn THEN 0 ELSE conn
  /\ link' = At0("accepting")
  /\ UNCHANGED <<accepted, alive, shutdown, closing, holderVars, socketVars, echo>>

\* The interposer goes away, or sends a length that cannot be framed.
Drop(k) ==
  /\ k \in alive
  /\ alive' = alive \ {k}
  /\ UNCHANGED <<link, conn, accepted, shutdown, closing, holderVars, socketVars, echo>>

\* Close: what is to be closed is read under l.mu and closed after it.
CloseBegin ==
  /\ ~shutdown
  /\ shutdown' = TRUE
  /\ closing' = [phase |-> "marked", conn |-> conn]
  /\ UNCHANGED <<link, conn, accepted, alive, holderVars, socketVars, echo>>

CloseEnd ==
  /\ closing.phase = "marked"
  /\ closing' = [closing EXCEPT !.phase = "done"]
  /\ alive' = alive \ {closing.conn}
  /\ UNCHANGED <<link, conn, accepted, shutdown, holderVars, socketVars, echo>>

-----------------------------------------------------------------------------
(* ServeMJPEG                                                              *)

Attach(v) == Subscribe(v) /\ UNCHANGED <<linkVars, socketVars, echo>>
OfferTo(v) == Offer(v) /\ UNCHANGED <<linkVars, socketVars, echo>>

\* A frame that answers an input is announced before it is written.
Receive(v) ==
  /\ Take(v)
  /\ echo' = [echo EXCEPT ![v] =
       IF published[slot[v]] \in Stamped THEN Echoing("gather", {}) ELSE NotEchoing]
  /\ UNCHANGED <<linkVars, socketVars>>

\* The sockets are read out under inputMu, and written to without it.
Gather(v) ==
  /\ echo[v].phase = "gather"
  /\ echo' = [echo EXCEPT ![v] = Echoing("tell", socket)]
  /\ UNCHANGED <<holderVars, linkVars, socketVars>>

\* Each write gets 250 ms, a deadline the socket then keeps. A write that fails
\* is counted as dropped.
Tell(v, s) ==
  /\ echo[v].phase = "tell" /\ s \in echo[v].to
  /\ echo' = [echo EXCEPT ![v] = Echoing("tell", @.to \ {s})]
  /\ IF s \in socket
       THEN /\ deadline' = [deadline EXCEPT ![s] = "set"]
            /\ heard' = [heard EXCEPT ![s] = @ \cup {hand[v]}]
       ELSE UNCHANGED <<deadline, heard>>
  /\ UNCHANGED <<holderVars, linkVars, socket, status, since>>

\* Mutant: the picture does not wait for the announcement.
ShowAtOnce(v) ==
  /\ Write(v)
  /\ echo' = [echo EXCEPT ![v] = NotEchoing]
  /\ UNCHANGED <<linkVars, socketVars>>

Show(v) ==
  /\ echo[v].phase # "gather" /\ echo[v].to = {}
  /\ Write(v)
  /\ echo' = [echo EXCEPT ![v] = NotEchoing]
  /\ UNCHANGED <<linkVars, socketVars>>

\* The loop notices that its browser is gone when it waits or writes.
Detach(v) ==
  /\ echo[v].phase # "gather" /\ echo[v].to = {}
  /\ Unsubscribe(v)
  /\ echo' = [echo EXCEPT ![v] = NotEchoing]
  /\ UNCHANGED <<linkVars, socketVars>>

-----------------------------------------------------------------------------
(* ServeInput and pushStatus                                               *)

OpenSocket(s) ==
  /\ s \notin socket
  /\ socket' = socket \cup {s}
  /\ deadline' = [deadline EXCEPT ![s] = "none"]
  /\ status' = [status EXCEPT ![s] = "running"]
  /\ heard' = [heard EXCEPT ![s] = {}]
  /\ since' = [since EXCEPT ![s] = Latest]
  /\ UNCHANGED <<holderVars, linkVars, echo>>

\* 250 ms after an echo.
DeadlinePasses(s) ==
  /\ s \in socket /\ deadline[s] = "set"
  /\ deadline' = [deadline EXCEPT ![s] = "passed"]
  /\ UNCHANGED <<holderVars, linkVars, socket, status, heard, since, echo>>

\* A tick of pushStatus writes under whatever deadline the socket has. A write
\* that fails ends the goroutine, and with it the pings.
StatusTick(s) ==
  /\ s \in socket /\ status[s] = "running" /\ deadline[s] = "passed"
  /\ status' = [status EXCEPT ![s] = "ended"]
  /\ UNCHANGED <<holderVars, linkVars, socket, deadline, heard, since, echo>>

\* The page leaves, or says nothing for 90 s because no ping asks it to.
CloseSocket(s) ==
  /\ s \in socket
  /\ socket' = socket \ {s}
  /\ status' = [status EXCEPT ![s] = "ended"]
  /\ UNCHANGED <<holderVars, linkVars, deadline, heard, since, echo>>

-----------------------------------------------------------------------------
Init ==
  /\ HolderInit
  /\ link = At0("starting")
  /\ conn = 0
  /\ accepted = 0
  /\ alive = {}
  /\ shutdown = FALSE
  /\ closing = [phase |-> "none", conn |-> 0]
  /\ socket = {}
  /\ deadline = [s \in Sockets |-> "none"]
  /\ status = [s \in Sockets |-> "ended"]
  /\ heard = [s \in Sockets |-> {}]
  /\ since = [s \in Sockets |-> 0]
  /\ echo = [v \in Viewers |-> NotEchoing]

Next ==
  \/ ServeBegin \/ Accept \/ Register \/ ReadFrame \/ ReadFails
  \/ CloseBegin \/ CloseEnd
  \/ \E k \in alive : Drop(k)
  \/ \E v \in Viewers :
       \/ Attach(v) \/ OfferTo(v) \/ Receive(v) \/ Gather(v) \/ Show(v) \/ Detach(v)
       \/ \E s \in Sockets : Tell(v, s)
  \/ \E s \in Sockets :
       OpenSocket(s) \/ DeadlinePasses(s) \/ StatusTick(s) \/ CloseSocket(s)

\* Goroutines that can run do run: the link's, main's when it closes the link,
\* and each viewer's loop, whose echo is bounded by its deadline and whose
\* browser reads what it is sent. Nothing obliges an interposer to connect or
\* to send, or a page to come.
Fairness ==
  /\ WF_vars(ServeBegin) /\ WF_vars(Accept) /\ WF_vars(Register) /\ WF_vars(ReadFails)
  /\ WF_vars(CloseEnd)
  /\ \A v \in Viewers :
       /\ WF_vars(OfferTo(v)) /\ WF_vars(Receive(v)) /\ WF_vars(Gather(v)) /\ WF_vars(Show(v))
       /\ WF_vars(\E s \in Sockets : Tell(v, s))

Spec == Init /\ [][Next]_vars /\ Fairness

-----------------------------------------------------------------------------
\* "Announced first, the frame cannot be displayed before the page knows which
\* input it answers" (raw_controller.go, echoStamp): when any viewer's browser
\* has been written a frame that answers an input, every page whose socket was
\* there when the frame was published has been told of it, or its echo dropped.
AnnouncedFirst ==
  \A v \in Viewers, s \in socket :
    LET n == shown[v] IN
      n > since[s] /\ published[n] \in Stamped => n \in heard[s]

\* Close ends the accept loop and leaves no connection behind, whatever was
\* being accepted or read as it ran.
CloseEnds == shutdown ~> link.at = "ended" /\ conn = 0 /\ alive = {}

\* A viewer that stays is shown each frame or a newer one, however long the
\* interposer then stays silent: slow viewers lose frames, never the last one.
NewestShown ==
  \A v \in Viewers : \A n \in 1..MaxFrames :
    v \in subscribed /\ Latest >= n ~> v \notin subscribed \/ shown[v] >= n

=============================================================================
