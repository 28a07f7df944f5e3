------------------------------ MODULE InputPath ------------------------------
(***************************************************************************)
(* What a player does with the mouse, from the page's event listeners to   *)
(* the game's event loop, and the stamps that time the answers.            *)
(*                                                                         *)
(* Page (src/client/src/core/input.js): moves are coalesced into one per   *)
(* animation frame; presses and releases are sent at once, with their      *)
(* position and a stamp.  Host (src/interposer/df_streamer.cpp): the       *)
(* newest move waits in one slot, other input in SDL's queue; the game     *)
(* polls through SDL_PollEvent, which holds a release back until the game  *)
(* has run with the button down.  Stamps wait in stamp_slot.hpp until a    *)
(* frame carries them back.                                                *)
(*                                                                         *)
(* One page, one button; the input channel is reliable and ordered.        *)
(***************************************************************************)
EXTENDS Naturals, Sequences, FiniteSets, SequencesExt

CONSTANTS
    Positions,    \* where the pointer may be
    Capacity,     \* kCapacity: stamps waiting at the host
    Stamps,       \* how many stamp values there are (255)
    Remembered,   \* how many sent stamps the page remembers (100)
    MaxMoves,     \* bound: pointer moves
    MaxPresses,   \* bound: presses, releases and two-finger taps
    MaxTaps,      \* bound: two-finger taps
    MaxAnswers    \* bound: frames under way to the page

ASSUME InputAssumption ==
    /\ Positions \subseteq Nat /\ Positions # {} /\ 0 \notin Positions
    /\ {Capacity, Stamps, Remembered} \subseteq Nat \ {0}
    /\ {MaxMoves, MaxPresses, MaxTaps, MaxAnswers} \subseteq Nat

Nowhere == 0

VARIABLES
    mouse,     \* where the pointer is
    pressed,   \* whether the player holds the button down
    pending,   \* pendingMove
    lastSent,  \* lastSentX, lastSentY
    moves, presses, taps,  \* what the player did so far
    issued,    \* stamps issued so far; the n-th is StampOf(n)
    known,     \* pendingStamps of the page: numbers of the inputs it awaits
    wire,      \* input messages under way to the host
    motion,    \* g_motion_pending and its position, Nowhere if none
    cursor,    \* g_mouse_x, g_mouse_y: what SDL_GetMouseState answers
    sdl,       \* SDL's event queue
    held,      \* g_held_events
    inPass, downInPass,   \* g_in_poll_pass, g_btn_down_in_pass
    ticked,    \* g_sim_ticks > g_down_sim_tick
    seen,      \* the game's button and pointer, as its events tell them
    waiting,   \* stamp slot: inputs waiting for a frame, oldest first
    claimed,   \* stamp slot: the input a present claimed, 0 if none
    received, overwritten, answered, expired,   \* stamp slot counters
    frames,    \* stamped frames under way to the page
    credited   \* history: the inputs credited with an answer, in order

pageVars == <<mouse, pressed, pending, lastSent, moves, presses, taps, issued>>
hostVars == <<motion, cursor, sdl>>
pollVars == <<held, inPass, downInPass, ticked, seen>>
slotVars == <<waiting, claimed, received, overwritten, answered, expired>>
answerVars == <<known, frames, credited>>
vars == <<pageVars, wire, hostVars, pollVars, slotVars, answerVars>>

(***************************************************************************)
(* The page.                                                               *)
(***************************************************************************)
StampOf(n) == ((n - 1) % Stamps) + 1

Event(kind, at) == [kind |-> kind, at |-> at]
Message(kind, at, n) == [kind |-> kind, at |-> at, input |-> n]

\* getNextDebugStamp: the page forgets the oldest beyond Remembered.  A stamp
\* used again replaces what it stood for.
Remember(S, n) ==
    LET kept == {m \in S : StampOf(m) # StampOf(n)} \union {n}
    IN  IF Cardinality(kept) > Remembered
        THEN kept \ {CHOOSE m \in kept : \A k \in kept : m <= k} ELSE kept

\* Sends messages of one stamp.
Send(s) ==
    /\ issued' = issued + 1
    /\ known' = Remember(known, issued + 1)
    /\ wire' = wire \o [i \in 1..Len(s) |-> Message(s[i].kind, s[i].at, issued + 1)]

OnMouseMove(p) ==
    /\ moves < MaxMoves /\ moves' = moves + 1
    /\ p # mouse /\ mouse' = p /\ pending' = p
    /\ UNCHANGED <<pressed, lastSent, presses, taps, issued, known, wire, hostVars, pollVars,
                   slotVars, frames, credited>>

\* The animation frame sends the newest position, unless it was sent already.
FlushMove ==
    /\ pending # Nowhere
    /\ pending' = Nowhere
    /\ IF pending = lastSent
       THEN UNCHANGED <<lastSent, issued, known, wire>>
       ELSE lastSent' = pending /\ Send(<<Event("move", pending)>>)
    /\ UNCHANGED <<mouse, pressed, moves, presses, taps, hostVars, pollVars, slotVars,
                   frames, credited>>

\* Mutant: what is sent on entering is not noted as sent.
OnMouseEnterUnnoted(p) ==
    /\ moves < MaxMoves /\ moves' = moves + 1
    /\ p # mouse /\ mouse' = p /\ pending' = p
    /\ Send(<<Event("move", p)>>)
    /\ UNCHANGED <<pressed, lastSent, presses, taps, hostVars, pollVars, slotVars, frames, credited>>

\* The pointer comes back over the canvas: mouseenter, then mousemove.
OnMouseEnter(p) ==
    /\ moves < MaxMoves /\ moves' = moves + 1
    /\ p # mouse /\ mouse' = p /\ pending' = p /\ lastSent' = p
    /\ Send(<<Event("move", p)>>)
    /\ UNCHANGED <<pressed, presses, taps, hostVars, pollVars, slotVars, frames, credited>>

OnButton(kind) ==
    /\ presses + taps < MaxPresses /\ presses' = presses + 1
    /\ pressed' = (kind = "down")
    /\ lastSent' = mouse /\ pending' = Nowhere
    /\ Send(<<Event(kind, mouse)>>)
    /\ UNCHANGED <<mouse, moves, taps, hostVars, pollVars, slotVars, frames, credited>>

OnMouseDown == ~pressed /\ OnButton("down")
OnMouseUp == pressed /\ OnButton("up")

\* A two-finger tap: no press came before the context menu, so both are sent.
OnContextMenu ==
    /\ ~pressed
    /\ taps < MaxTaps /\ presses + taps < MaxPresses /\ taps' = taps + 1
    /\ Send(<<Event("down", mouse), Event("up", mouse)>>)
    /\ UNCHANGED <<mouse, pressed, pending, lastSent, moves, presses, hostVars, pollVars, slotVars,
                   frames, credited>>

(***************************************************************************)
(* The host: an input message.                                             *)
(***************************************************************************)
\* Mutant: an overflow is not counted.
ReceiveUncounted(n) ==
    /\ waiting' = Append(IF Len(waiting) >= Capacity THEN Tail(waiting) ELSE waiting, n)
    /\ received' = received + 1
    /\ UNCHANGED <<claimed, overwritten, answered, expired>>

\* Stamp slot: the oldest waiting input makes room.
Receive(n) ==
    /\ waiting' = Append(IF Len(waiting) >= Capacity THEN Tail(waiting) ELSE waiting, n)
    /\ overwritten' = IF Len(waiting) >= Capacity THEN overwritten + 1 ELSE overwritten
    /\ received' = received + 1
    /\ UNCHANGED <<claimed, answered, expired>>

\* A move supersedes the one waiting; a press is queued behind a move to
\* where it happened.
HandleInput ==
    /\ wire # <<>>
    /\ LET m == Head(wire)
       IN  /\ cursor' = m.at
           /\ Receive(m.input)
           /\ CASE m.kind = "move" -> motion' = m.at /\ UNCHANGED sdl
                [] m.kind = "down" -> /\ sdl' = sdl \o <<Event("move", m.at), Event("down", m.at)>>
                                      /\ UNCHANGED motion
                [] m.kind = "up" -> sdl' = Append(sdl, Event("up", m.at)) /\ UNCHANGED motion
    /\ wire' = Tail(wire)
    /\ UNCHANGED <<pageVars, pollVars, answerVars>>

(***************************************************************************)
(* The game's poll: one action per call of SDL_PollEvent.                  *)
(***************************************************************************)
\* The game sees an event; every event says where the pointer is.  quick and odd
\* are history: a release came before the game ran with a press that came
\* straight from SDL's queue; a press followed a press or a release a release.
See(e, direct) ==
    seen' = [pointer |-> e.at,
             down |-> IF e.kind = "move" THEN seen.down ELSE e.kind = "down",
             direct |-> IF e.kind = "down" THEN direct ELSE seen.direct,
             ran |-> IF e.kind = "down" THEN FALSE ELSE seen.ran,
             quick |-> seen.quick \/ (e.kind = "up" /\ ~seen.ran /\ seen.direct),
             odd |-> seen.odd \/ (e.kind = "down" /\ seen.down)
                              \/ (e.kind = "up" /\ ~seen.down)]

\* A pass begins with the first poll after one that found nothing.
DownThisPass == inPass /\ downInPass

\* Mutant: a release waits for the pass to end, not for the game to run.
MustWaitThisPass == DownThisPass

MustWait == DownThisPass \/ ~ticked

HeldReady == held # <<>> /\ ~(Head(held).kind = "up" /\ MustWait)

\* 1. What was held back, when it is ready.
PollHeld ==
    /\ HeldReady
    /\ held' = Tail(held) /\ See(Head(held), FALSE)
    /\ inPass' = TRUE /\ downInPass' = DownThisPass
    /\ UNCHANGED <<pageVars, wire, hostVars, ticked, slotVars, answerVars>>

\* 2. The newest pointer position.
PollMotion ==
    /\ ~HeldReady /\ motion # Nowhere
    /\ motion' = Nowhere /\ See(Event("move", motion), FALSE)
    /\ inPass' = TRUE /\ downInPass' = DownThisPass
    /\ UNCHANGED <<pageVars, wire, cursor, sdl, held, ticked, slotVars, answerVars>>

\* Mutant: a release overtakes what is held back.
HoldsOnlyEarly(e) == e.kind = "up" /\ MustWait

\* Whether an event of SDL's queue is held back: a release that is too early,
\* or anything of a button something is held of.
Holds(e) == e.kind # "move" /\ (held # <<>> \/ (e.kind = "up" /\ MustWait))

\* 3. SDL's queue.
PollSdl ==
    /\ ~HeldReady /\ motion = Nowhere /\ sdl # <<>> /\ ~Holds(Head(sdl))
    /\ sdl' = Tail(sdl) /\ See(Head(sdl), TRUE)
    /\ inPass' = TRUE /\ downInPass' = (DownThisPass \/ Head(sdl).kind = "down")
    /\ ticked' = IF Head(sdl).kind = "down" THEN FALSE ELSE ticked
    /\ UNCHANGED <<pageVars, wire, motion, cursor, held, slotVars, answerVars>>

\* The loop goes on past what it holds back.
PollHolds ==
    /\ ~HeldReady /\ motion = Nowhere /\ sdl # <<>> /\ Holds(Head(sdl))
    /\ sdl' = Tail(sdl) /\ held' = Append(held, Head(sdl))
    /\ inPass' = TRUE /\ downInPass' = DownThisPass
    /\ UNCHANGED <<pageVars, wire, motion, cursor, ticked, seen, slotVars, answerVars>>

\* Nothing is left: the pass ends.
PollNothing ==
    /\ ~HeldReady /\ motion = Nowhere /\ sdl = <<>> /\ inPass
    /\ inPass' = FALSE
    /\ UNCHANGED <<pageVars, wire, hostVars, held, downInPass, ticked, seen, slotVars, answerVars>>

\* The game runs on what a whole pass gave it (update_fps counts the tick).
Tick ==
    /\ ~inPass /\ (~ticked \/ ~seen.ran)
    /\ ticked' = TRUE /\ seen' = [seen EXCEPT !.ran = TRUE]
    /\ UNCHANGED <<pageVars, wire, hostVars, held, inPass, downInPass, slotVars, answerVars>>

(***************************************************************************)
(* A present: the stamp slot, and the frame.                               *)
(***************************************************************************)
Claim ==
    /\ claimed = 0 /\ waiting # <<>> /\ Len(frames) < MaxAnswers
    /\ claimed' = Head(waiting) /\ waiting' = Tail(waiting)
    /\ UNCHANGED <<pageVars, wire, hostVars, pollVars, received, overwritten, answered,
                   expired, answerVars>>

SettleFrame ==
    /\ claimed # 0
    /\ answered' = answered + 1 /\ claimed' = 0
    /\ frames' = Append(frames, claimed)
    /\ UNCHANGED <<pageVars, wire, hostVars, pollVars, waiting, received, overwritten,
                   expired, known, credited>>

\* Mutant: the claim goes back behind what arrived meanwhile.
SettleNothingBehind ==
    /\ claimed # 0
    /\ claimed' = 0
    /\ waiting' = Append(IF Len(waiting) >= Capacity THEN Front(waiting) ELSE waiting, claimed)
    /\ overwritten' = IF Len(waiting) >= Capacity THEN overwritten + 1 ELSE overwritten
    /\ UNCHANGED <<pageVars, wire, hostVars, pollVars, received, answered, expired, answerVars>>

\* The present sent nothing: back to the front; a full slot drops its newest.
SettleNothing ==
    /\ claimed # 0
    /\ claimed' = 0
    /\ waiting' = <<claimed>> \o (IF Len(waiting) >= Capacity THEN Front(waiting) ELSE waiting)
    /\ overwritten' = IF Len(waiting) >= Capacity THEN overwritten + 1 ELSE overwritten
    /\ UNCHANGED <<pageVars, wire, hostVars, pollVars, received, answered, expired, answerVars>>

\* The oldest waiting inputs outlived the age limit.
Expire ==
    /\ waiting # <<>> /\ claimed = 0
    /\ waiting' = Tail(waiting) /\ expired' = expired + 1
    /\ UNCHANGED <<pageVars, wire, hostVars, pollVars, claimed, received, overwritten,
                   answered, answerVars>>

\* The frame arrives and is painted: the input its stamp stands for is
\* credited, and no older one is awaited any more.
PaintAnswer ==
    /\ frames # <<>>
    /\ LET hit == {m \in known : StampOf(m) = StampOf(Head(frames))}
       IN  IF hit = {}
           THEN UNCHANGED <<known, credited>>
           ELSE LET n == CHOOSE m \in hit : TRUE
                IN  /\ credited' = Append(credited, n)
                    /\ known' = {m \in known : m > n}
    /\ frames' = Tail(frames)
    /\ UNCHANGED <<pageVars, wire, hostVars, pollVars, slotVars>>

Init ==
    /\ mouse \in Positions /\ pressed = FALSE /\ pending = Nowhere /\ lastSent = Nowhere
    /\ moves = 0 /\ presses = 0 /\ taps = 0 /\ issued = 0 /\ known = {} /\ wire = <<>>
    /\ motion = Nowhere /\ cursor = Nowhere /\ sdl = <<>>
    /\ held = <<>> /\ inPass = FALSE /\ downInPass = FALSE /\ ticked = FALSE
    /\ seen = [pointer |-> Nowhere, down |-> FALSE, direct |-> FALSE, ran |-> TRUE,
               quick |-> FALSE, odd |-> FALSE]
    /\ waiting = <<>> /\ claimed = 0
    /\ received = 0 /\ overwritten = 0 /\ answered = 0 /\ expired = 0
    /\ frames = <<>> /\ credited = <<>>

PlayerNext ==
    \/ \E p \in Positions : OnMouseMove(p) \/ OnMouseEnter(p)
    \/ FlushMove \/ OnMouseDown \/ OnMouseUp \/ OnContextMenu

GameNext ==
    \/ PollHeld \/ PollMotion \/ PollSdl \/ PollHolds \/ PollNothing
    \/ Tick

StampNext == Claim \/ SettleFrame \/ SettleNothing \/ Expire \/ PaintAnswer

Next == PlayerNext \/ HandleInput \/ GameNext \/ StampNext

\* The browser draws, messages arrive and the game keeps polling and running;
\* players owe no input and presents no frame.
Fairness ==
    /\ WF_vars(FlushMove) /\ WF_vars(HandleInput)
    /\ WF_vars(GameNext)

Spec == Init /\ [][Next]_vars /\ Fairness

(***************************************************************************)
(* Properties.                                                             *)
(***************************************************************************)
Places == Positions \union {Nowhere}

\* What a present holds on claim.
InHand == IF claimed = 0 THEN 0 ELSE 1

\* stamp_slot.hpp promises that every input lands in exactly one bucket: the
\* ones answered, overwritten, expired, waiting and claimed add up to the ones
\* received, whatever order presents, failures and expiries come in.
CountsClose == received = answered + overwritten + expired + Len(waiting) + InHand

\* Inputs are answered oldest first, also when a present failed to send and
\* its claim went back to the slot while newer inputs had come; and the page
\* credits an input with an answer at most once, in the order the inputs were
\* made, though a tap sends two messages of one stamp and stamp values come
\* round again.
OldestFirst ==
    /\ \A i, j \in DOMAIN waiting : i <= j => waiting[i] <= waiting[j]
    /\ claimed # 0 => \A i \in DOMAIN waiting : claimed <= waiting[i]

CreditedOnceInOrder == \A i, j \in DOMAIN credited : i < j => credited[i] < credited[j]

AnsweredInOrder == OldestFirst /\ CreditedOnceInOrder

\* The game is given presses and releases alternately, however many clicks were
\* queued while a release was held back (SDL_PollEvent).
ButtonsAlternate == ~seen.odd

\* A press the game takes straight from SDL's queue is followed by its release
\* only after the game ran with the button down, however fast the click was.
\* (A press that was itself held back carries no such promise in the code.)
PressSpansATick == ~seen.quick

\* However fast the clicks are, the game takes each of them whole.
ClicksArriveWhole == ButtonsAlternate /\ PressSpansATick

\* When the player rests, the host's cursor comes to where the pointer is:
\* moves coalesced, superseded or dropped for a press never lose the last
\* place.  A two-finger tap is left out: it sends a place without noting it as
\* sent, so a move back to the place noted last is not sent (input.js:80).
CursorArrives == <>[](moves + presses = 0 \/ taps > 0 \/ cursor = mouse)

\* When the player rests, the game comes to see the button as the player holds
\* it: no release stays held back and none overtakes a later press.
ButtonSettles == <>[](seen.down = pressed)

\* df_streamer.cpp:723 says of the one slot for moves that "Coalescing this way
\* cannot lose the current position, which is the only one that matters": once
\* every event was handed to the game, the last place it was told is the place
\* of the last input.
PointerKept ==
    wire = <<>> /\ motion = Nowhere /\ sdl = <<>> /\ held = <<>> => seen.pointer = cursor
=============================================================================
