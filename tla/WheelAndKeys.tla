---------------------------- MODULE WheelAndKeys ----------------------------
(***************************************************************************)
(* How the page turns wheel movements into notches and keys into the       *)
(* numbers the game's event loop knows (src/client/src/core/input.js and   *)
(* mouse_wheel_classifier.js).                                             *)
(*                                                                         *)
(* Wheel deltas are whole numbers (a spin counts quarters, so that a       *)
(* smooth wheel's broken spins occur); scores are quarters of a point and  *)
(* influences are sixteenths.                                              *)
(***************************************************************************)
EXTENDS Integers, Sequences

CONSTANTS Turns,     \* wheel events: spins, pixels moved, a pause before
          MaxTurns   \* bound: wheel events in a row

\* normalizeWheel's spin and pixels say the same direction.
ASSUME WheelAssumption ==
    /\ Turns \subseteq [x : Int, y : Int, delta : Int, idle : BOOLEAN]
    /\ \A t \in Turns : t.y * t.delta >= 0
    /\ MaxTurns \in Nat

VARIABLES turned,   \* history: the wheel events so far
          wheel,    \* the classifier's ring, wheelAccumulator, notches sent
          ledger,   \* history: after each event, all that was moved and paid
          typed     \* history: two keys pressed

wheelVars == <<turned, wheel, ledger, typed>>

SCROLL_THRESHOLD == 53
Abs(n) == IF n < 0 THEN -n ELSE n
Larger(m, n) == IF m < n THEN n ELSE m
Smaller(m, n) == IF m < n THEN m ELSE n

(***************************************************************************)
(* MouseWheelClassifier: a ring of the last five events with their scores. *)
(***************************************************************************)
RingSize == 5
NoIndex == -1
EmptyRing == [memory |-> [i \in 0..RingSize - 1 |-> [x |-> 0, y |-> 0, score |-> 0]],
              front |-> NoIndex, rear |-> NoIndex]

AlmostInt(spin) == spin % 4 = 0

\* A remainder of spins in quarters is zero where the remainder of spins is.
SameModulo(a, b) ==
    Larger(Abs(a), Abs(b)) % Larger(Smaller(Abs(a), Abs(b)), 4) = 0

\* previous: the event before, a sequence of at most one.
ComputeScore(item, previous) ==
    LET broken == IF AlmostInt(item.x) /\ AlmostInt(item.y) THEN 0 ELSE 1
        steady == previous # <<>> /\ SameModulo(item.x, previous[1].x) /\ SameModulo(item.y, previous[1].y)
    IN  IF item.x # 0 /\ item.y # 0 THEN 4
        ELSE Larger(0, 2 + broken - (IF steady THEN 2 ELSE 0))

\* Mutant: the oldest event of a full ring is not given up.
AcceptKeepsFront(ring, item) ==
    LET empty == ring.front = NoIndex
        rear == IF empty THEN 0 ELSE (ring.rear + 1) % RingSize
        score == ComputeScore(item, IF empty THEN <<>> ELSE <<ring.memory[ring.rear]>>)
    IN  [memory |-> [ring.memory EXCEPT ![rear] = [x |-> item.x, y |-> item.y, score |-> score]],
         front |-> IF empty THEN 0 ELSE ring.front, rear |-> rear]

Accept(ring, item) ==
    LET empty == ring.front = NoIndex
        rear == IF empty THEN 0 ELSE (ring.rear + 1) % RingSize
        score == ComputeScore(item, IF empty THEN <<>> ELSE <<ring.memory[ring.rear]>>)
    IN  [memory |-> [ring.memory EXCEPT ![rear] = [x |-> item.x, y |-> item.y, score |-> score]],
         front |-> IF empty THEN 0
                   ELSE IF rear = ring.front THEN (ring.front + 1) % RingSize ELSE ring.front,
         rear |-> rear]

\* The walk from the newest event to the oldest: halves, and the rest to the
\* oldest.  In sixty-fourths of a point; at most half a point is a wheel.
Ages(ring) == (ring.rear - ring.front + RingSize) % RingSize
Influence(age, oldest) == IF age = oldest THEN 16 \div 2^age ELSE 8 \div 2^age
IsPhysicalMouseWheel(ring) ==
    /\ ring.front # NoIndex
    /\ LET weighed(age) == IF age > Ages(ring) THEN 0
                           ELSE ring.memory[(ring.rear - age + RingSize) % RingSize].score
                                  * Influence(age, Ages(ring))
       IN  weighed(0) + weighed(1) + weighed(2) + weighed(3) + weighed(4) <= 32

(***************************************************************************)
(* onWheel.  idle: the reset timer fired since the event before.           *)
(***************************************************************************)
\* A change of direction forgets what was accumulated.
Accumulate(acc, delta) == IF acc * delta < 0 THEN delta ELSE acc + delta

\* A notched wheel sends one notch per event.  Smooth movement sends one for
\* every full threshold, and the rest is dropped with it.  sent: per event, the
\* notches, negative when up; smooth: no event was taken for a notched wheel's.
OnWheel(state, event) ==
    LET ring == Accept(state.ring, event)
        kept == IF event.idle THEN 0 ELSE state.acc
        acc == Accumulate(kept, event.delta)
        n == Abs(acc) \div SCROLL_THRESHOLD
        notched == IsPhysicalMouseWheel(ring)
        After(a, notches) == [ring |-> ring, acc |-> a, sent |-> Append(state.sent, notches),
                              smooth |-> state.smooth /\ ~notched]
    IN  IF notched
        THEN After(kept, IF event.y > 0 \/ (event.y = 0 /\ event.delta > 0) THEN 1 ELSE -1)
        ELSE IF event.delta = 0 THEN After(kept, 0)
        ELSE IF n > 0 THEN After(0, IF acc < 0 THEN -n ELSE n)
        ELSE After(acc, 0)

\* What was moved and paid before an event: the ledger's line before it.
Before(i) == IF i = 1 THEN [moved |-> 0, paid |-> 0] ELSE ledger[i - 1]

Turned(event) ==
    /\ Len(turned) < MaxTurns
    /\ turned' = Append(turned, event)
    /\ wheel' = OnWheel(wheel, event)
    /\ LET so == Before(Len(turned) + 1)
       IN  ledger' = Append(ledger, [moved |-> so.moved + Abs(event.delta),
                                     paid |-> so.paid + Abs(wheel'.sent[Len(turned) + 1])])
    /\ UNCHANGED typed

(***************************************************************************)
(* translateKey: [scancode, sym] of the key with this code.                *)
(***************************************************************************)
Mask == 2^30

Named(s) == [i \in DOMAIN s |-> <<s[i]>>]

\* Keys in the order of their scancodes, from 57; "" where there is none here.
FunctionKeys(first, last) == [i \in 1..last - first + 1 |-> <<"F", first + i - 1>>]
Numpad(first, last) == [i \in 1..last - first + 1 |-> <<"Numpad", first + i - 1>>]
KeysFrom57 ==
    Named(<<"CapsLock">>) \o FunctionKeys(1, 12)
    \o Named(<<"PrintScreen", "ScrollLock", "Pause", "Insert", "Home", "PageUp", "", "End", "PageDown",
         "ArrowRight", "ArrowLeft", "ArrowDown", "ArrowUp", "NumLock", "NumpadDivide",
         "NumpadMultiply", "NumpadSubtract", "NumpadAdd", "NumpadEnter">>)
    \o Numpad(1, 9) \o Numpad(0, 0)
    \o Named(<<"NumpadDecimal", "", "ContextMenu", "", "NumpadEqual">>) \o FunctionKeys(13, 24)
KeysFrom224 == Named(<<"ControlLeft", "ShiftLeft", "AltLeft", "MetaLeft",
                       "ControlRight", "ShiftRight", "AltRight", "MetaRight">>)

\* Keys with a character, in the order of their scancodes, with it.
KeysFrom40 == <<13, 27, 8, 9, 32, 45, 61, 91, 93, 92, 0, 59, 39, 96, 44, 46, 47>>

Key(code, scancode, sym) == [code |-> code, scancode |-> scancode, sym |-> sym]
MaskedKeys == {Key(KeysFrom57[i], 56 + i, Mask + 56 + i) : i \in {j \in DOMAIN KeysFrom57 : KeysFrom57[j] # <<"">>}}
              \union {Key(KeysFrom224[i], 223 + i, Mask + 223 + i) : i \in DOMAIN KeysFrom224}
CharacterKeys == {Key(<<"char", KeysFrom40[i]>>, 39 + i, KeysFrom40[i]) : i \in DOMAIN KeysFrom40 \ {11}}
                 \union {Key(<<"Delete">>, 76, 127)}
LetterKeys == {Key(<<"Key", 65 + i>>, 4 + i, 97 + i) : i \in 0..25}

DigitKeys == {Key(<<"Digit", d>>, IF d = 48 THEN 39 ELSE 30 + (d - 49), d) : d \in 48..57}
Keys == MaskedKeys \union CharacterKeys \union LetterKeys \union DigitKeys

\* A key that is not in a table is not sent.
Typed(key) ==
    /\ Len(typed) < 2 /\ typed' = Append(typed, key)
    /\ UNCHANGED <<turned, wheel, ledger>>

WheelInit ==
    /\ turned = <<>> /\ ledger = <<>> /\ typed = <<>>
    /\ wheel = [ring |-> EmptyRing, acc |-> 0, sent |-> <<>>, smooth |-> TRUE]

WheelNext == (\E e \in Turns : Turned(e)) \/ (\E k \in Keys : Typed(k))

WheelSpec == WheelInit /\ [][WheelNext]_wheelVars

-----------------------------------------------------------------------------
(* Properties.                                                              *)

\* isPhysicalMouseWheel, read from the ring, judges as its comment says: the
\* newest event counts a half, the one before a quarter and so on, the fifth
\* or the first event taking the rest; older ones do not count.
Score(s, i) == ComputeScore(s[i], IF i = 1 THEN <<>> ELSE <<s[i - 1]>>)
JudgedByTheLastFive ==
    turned # <<>> =>
        LET n == Len(turned)
            oldest == Smaller(n, RingSize) - 1
            weighed(age) == IF age > oldest THEN 0
                            ELSE Score(turned, n - age)
                                   * (IF age = oldest THEN 16 \div 2^age ELSE 8 \div 2^age)
        IN  IsPhysicalMouseWheel(wheel.ring) <=>
              weighed(0) + weighed(1) + weighed(2) + weighed(3) + weighed(4) <= 32

\* Notches go the way the wheel goes; and on a wheel that is smooth throughout,
\* the movement since the last turn or pause is never paid with more notches
\* than the thresholds it covers, nor left unpaid past a threshold.  (A notched
\* event does not reset what was accumulated before it: input.js:177.)
StretchFrom(i) ==
    /\ \A j \in i..Len(turned) : turned[j].delta * turned[i].delta > 0
    /\ \A j \in i + 1..Len(turned) : ~turned[j].idle
    /\ i = 1 \/ turned[i].idle \/ turned[i].delta * turned[i - 1].delta < 0
NotchesFollowTheWheel ==
    /\ \A i \in DOMAIN turned : wheel.sent[i] * turned[i].delta >= 0
    /\ Abs(wheel.acc) < SCROLL_THRESHOLD
    /\ wheel.smooth => \A i \in DOMAIN turned : StretchFrom(i) =>
        LET now == Before(Len(turned) + 1)
            paid == now.paid - Before(i).paid
            moved == now.moved - Before(i).moved
        IN  paid * SCROLL_THRESHOLD <= moved /\ (paid = 0 => moved < SCROLL_THRESHOLD)

\* Two keys that are not the same never look alike to the game: neither their
\* scancodes nor their numbers are the same.
KeysToldApart ==
    Len(typed) = 2 /\ typed[1].code # typed[2].code =>
        typed[1].scancode # typed[2].scancode /\ typed[1].sym # typed[2].sym

\* What the page makes of its events is what they say.
InputIsRead == JudgedByTheLastFive /\ NotchesFollowTheWheel /\ KeysToldApart
=============================================================================
