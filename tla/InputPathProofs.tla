--------------------------- MODULE InputPathProofs ---------------------------
(***************************************************************************)
(* Theorems about InputPath, for every slot capacity, every number of      *)
(* stamp values and every number of remembered inputs: no input is         *)
(* unaccounted for, the answers come in the order of the inputs, and the   *)
(* game takes every click whole.  And about WheelAndKeys, for any turns of *)
(* the wheel and any two keys: the page makes of them what they say.       *)
(***************************************************************************)
EXTENDS InputPath, WheelAndKeys, SequenceTheorems, TLAPS

Inputs == Nat \ {0}
Kinds == {"move", "down", "up"}
Told == [kind : Kinds, at : Places]
Messages == [kind : Kinds, at : Places, input : Inputs]

\* Types of what the stamps' journey touches.
StampType ==
  /\ mouse \in Positions /\ pending \in Places
  /\ issued \in Nat /\ claimed \in Nat
  /\ wire \in Seq(Messages)
  /\ waiting \in Seq(Inputs)
  /\ received \in Nat /\ overwritten \in Nat /\ answered \in Nat /\ expired \in Nat

\* The way of an input: the claim, the slot, the channel, the page's counter.
\* Nobody on it was stamped later than anybody behind.
InLine ==
  /\ \A i, j \in 1..Len(wire) : i <= j => wire[i].input <= wire[j].input
  /\ \A i \in 1..Len(wire) : wire[i].input <= issued
  /\ \A i, j \in 1..Len(waiting) : i <= j => waiting[i] <= waiting[j]
  /\ \A i \in 1..Len(waiting) : waiting[i] <= issued
  /\ \A i \in 1..Len(waiting), j \in 1..Len(wire) : waiting[i] <= wire[j].input
  /\ claimed # 0 =>
       /\ claimed <= issued
       /\ \A i \in 1..Len(waiting) : claimed <= waiting[i]
       /\ \A j \in 1..Len(wire) : claimed <= wire[j].input

\* Whatever the page still awaits is younger than all it was answered.
Credit ==
  /\ known \subseteq 1..issued
  /\ credited \in Seq(Nat)
  /\ \A i \in 1..Len(credited) : credited[i] <= issued
  /\ \A i \in 1..Len(credited), m \in known : credited[i] < m
  /\ \A i, j \in 1..Len(credited) : i < j => credited[i] < credited[j]

IInv == StampType /\ CountsClose /\ InLine /\ Credit

\* What none of the game's polls touches.
stampVars == <<mouse, pending, issued, wire, slotVars, known, credited>>

-----------------------------------------------------------------------------
(* Facts about sequences and the page's memory                             *)

\* Dropping the first or the last of a sequence keeps the order of the rest.
LEMMA Shorter ==
  ASSUME NEW S, NEW s \in Seq(S), s # <<>>
  PROVE  /\ Head(s) \in S /\ Head(s) = s[1] /\ Len(s) \in Nat /\ Len(s) >= 1
         /\ Tail(s) \in Seq(S) /\ Len(Tail(s)) = Len(s) - 1
         /\ \A i \in 1..Len(s) - 1 : Tail(s)[i] = s[i + 1] /\ i + 1 \in 1..Len(s)
         /\ Front(s) \in Seq(S) /\ Len(Front(s)) = Len(s) - 1
         /\ \A i \in 1..Len(s) - 1 : Front(s)[i] = s[i] /\ i \in 1..Len(s)
<1>1. Len(s) \in Nat /\ Len(s) >= 1
  BY EmptySeq, LenProperties
<1>2. Head(s) \in S /\ Head(s) = s[1]
  BY HeadTailProperties
<1>3. Tail(s) \in Seq(S) /\ Len(Tail(s)) = Len(s) - 1
  BY HeadTailProperties
<1>4. \A i \in 1..Len(s) - 1 : Tail(s)[i] = s[i + 1] /\ i + 1 \in 1..Len(s)
  BY <1>1, HeadTailProperties
<1>5. /\ Front(s) \in Seq(S) /\ Len(Front(s)) = Len(s) - 1
      /\ \A i \in 1..Len(s) - 1 : Front(s)[i] = s[i] /\ i \in 1..Len(s)
  <2>1. Len(s) - 1 \in Int /\ 1 \in Int /\ Front(s) = SubSeq(s, 1, Len(s) - 1)
    BY <1>1 DEF Front
  <2>2. \A i \in 1..Len(s) - 1 : i \in 1..Len(s) /\ s[i] \in S
    BY <1>1, ElementOfSeq
  <2>3. /\ Front(s) \in Seq(S)
        /\ Len(Front(s)) = IF 1 <= Len(s) - 1 THEN Len(s) - 1 - 1 + 1 ELSE 0
        /\ \A i \in 1..Len(s) - 1 - 1 + 1 : Front(s)[i] = s[1 + i - 1]
    BY <2>1, <2>2, SubSeqProperties
  <2>4. Len(Front(s)) = Len(s) - 1
    <3>1. CASE 1 <= Len(s) - 1
      <4>1. Len(Front(s)) = Len(s) - 1 - 1 + 1
        BY <2>3, <3>1, Zenon
      <4>2. Len(s) - 1 - 1 + 1 = Len(s) - 1
        BY <1>1
      <4> QED
        BY <4>1, <4>2
    <3>2. CASE ~(1 <= Len(s) - 1)
      <4>1. Len(Front(s)) = 0
        BY <2>3, <3>2, Zenon
      <4>2. Len(s) - 1 = 0
        <5>1. ASSUME NEW n \in Nat, n >= 1, ~(1 <= n - 1) PROVE n - 1 = 0
          BY <5>1
        <5> QED
          BY <1>1, <3>2, <5>1
      <4> QED
        BY <4>1, <4>2
    <3> QED
      BY <3>1, <3>2
  <2>5. \A i \in 1..Len(s) - 1 : Front(s)[i] = s[i]
    <3> SUFFICES ASSUME NEW i \in 1..Len(s) - 1 PROVE Front(s)[i] = s[i]
      OBVIOUS
    <3>1. i \in 1..Len(s) - 1 - 1 + 1 /\ 1 + i - 1 = i
      BY <1>1
    <3> QED
      BY <2>3, <3>1
  <2> QED
    BY <2>2, <2>3, <2>4, <2>5
<1> QED
  BY <1>1, <1>2, <1>3, <1>4, <1>5

\* The page forgets, it never recalls.
LEMMA RememberOnly ==
  ASSUME NEW S, NEW n
  PROVE  Remember(S, n) \subseteq S \cup {n}
BY DEF Remember

\* Sending stamps the messages with the next number and puts them last.
LEMMA Sends ==
  ASSUME StampType, NEW s \in Seq(Told), Send(s)
  PROVE  /\ issued' = issued + 1 /\ issued' \in Nat
         /\ known' \subseteq known \cup {issued + 1}
         /\ wire' \in Seq(Messages) /\ Len(wire') \in Nat /\ Len(wire) \in Nat
         /\ \A i \in 1..Len(wire') :
              wire'[i].input = IF i <= Len(wire) THEN wire[i].input ELSE issued + 1
<1> DEFINE sent == [i \in 1..Len(s) |-> Message(s[i].kind, s[i].at, issued + 1)]
<1>1. issued' = issued + 1 /\ issued' \in Nat /\ issued + 1 \in Inputs
  BY DEF Send, StampType, Inputs
<1>2. known' \subseteq known \cup {issued + 1}
  BY RememberOnly DEF Send
<1>3. Len(s) \in Nat /\ \A i \in 1..Len(s) : s[i] \in Told
  BY LenProperties
<1>4. \A i \in 1..Len(s) : sent[i] \in Messages /\ sent[i].input = issued + 1
  BY <1>1, <1>3 DEF Message, Messages, Told
<1>5. sent \in [1..Len(s) -> Messages]
  BY <1>4
<1> HIDE DEF sent
<1>6. sent \in Seq(Messages)
  BY <1>3, <1>5, SeqDef
<1>7. Len(sent) = Len(s)
  <2>1. DOMAIN sent = 1..Len(s) /\ DOMAIN sent = 1..Len(sent) /\ Len(sent) \in Nat
    BY <1>5, <1>6, LenProperties
  <2> QED
    BY <1>3, <2>1
<1>8. wire' = wire \o sent /\ wire \in Seq(Messages) /\ Len(wire) \in Nat
  BY LenProperties DEF Send, StampType, sent
<1>9. /\ wire' \in Seq(Messages) /\ Len(wire') = Len(wire) + Len(s)
      /\ \A i \in 1..Len(wire) + Len(s) :
           wire'[i] = IF i <= Len(wire) THEN wire[i] ELSE sent[i - Len(wire)]
  <2>1. /\ wire \o sent \in Seq(Messages) /\ Len(wire \o sent) = Len(wire) + Len(sent)
        /\ \A i \in 1..Len(wire) + Len(sent) :
             (wire \o sent)[i] = IF i <= Len(wire) THEN wire[i] ELSE sent[i - Len(wire)]
    BY <1>6, <1>8, ConcatProperties
  <2> QED
    BY <1>7, <1>8, <2>1
<1>10. \A i \in 1..Len(wire') :
         wire'[i].input = IF i <= Len(wire) THEN wire[i].input ELSE issued + 1
  <2> SUFFICES ASSUME NEW i \in 1..Len(wire')
               PROVE  wire'[i].input = IF i <= Len(wire) THEN wire[i].input ELSE issued + 1
    OBVIOUS
  <2>1. CASE i <= Len(wire)
    BY <1>9, <2>1
  <2>2. CASE ~(i <= Len(wire))
    <3>1. i - Len(wire) \in 1..Len(s)
      BY <1>3, <1>8, <1>9, <2>2
    <3>2. wire'[i] = sent[i - Len(wire)]
      BY <1>9, <2>2
    <3>3. sent[i - Len(wire)].input = issued + 1
      BY <1>4, <3>1
    <3> QED
      BY <2>2, <3>2, <3>3
  <2> QED
    BY <2>1, <2>2
<1> QED
  BY <1>1, <1>2, <1>3, <1>8, <1>9, <1>10

-----------------------------------------------------------------------------
(* The invariant: initially, and over every step                           *)

LEMMA InitHolds == Init => IInv
<1> SUFFICES ASSUME Init PROVE IInv
  OBVIOUS
<1>1. 0 \in Nat /\ Len(wire) = 0 /\ Len(waiting) = 0 /\ Len(credited) = 0
  BY EmptySeq DEF Init
<1>2. StampType
  BY <1>1, EmptySeq DEF Init, StampType, Places
<1>3. CountsClose
  BY <1>1 DEF Init, CountsClose, InHand
<1>4. InLine
  BY <1>1 DEF Init, InLine
<1>5. Credit
  BY <1>1, EmptySeq DEF Init, Credit
<1> QED
  BY <1>2, <1>3, <1>4, <1>5 DEF IInv

LEMMA QuietStep == IInv /\ UNCHANGED stampVars => IInv'
<1> SUFFICES ASSUME IInv, UNCHANGED stampVars PROVE IInv'
  OBVIOUS
<1> QED
  BY DEF IInv, stampVars, slotVars, StampType, CountsClose, InHand, InLine, Credit

\* Numbers are numbers, all along the way.
LEMMA Numbers ==
  ASSUME StampType
  PROVE  /\ Len(waiting) \in Nat /\ Len(wire) \in Nat
         /\ \A i \in 1..Len(waiting) : waiting[i] \in Nat /\ waiting[i] # 0
         /\ \A i \in 1..Len(wire) : wire[i].input \in Nat /\ wire[i].input # 0
<1>1. waiting \in Seq(Inputs) /\ wire \in Seq(Messages)
  BY DEF StampType
<1>2. Len(waiting) \in Nat /\ Len(wire) \in Nat
  BY <1>1, LenProperties
<1>3. \A i \in 1..Len(waiting) : waiting[i] \in Inputs
  BY <1>1, ElementOfSeq
<1>4. \A i \in 1..Len(wire) : wire[i] \in Messages
  BY <1>1, ElementOfSeq
<1> QED
  BY <1>2, <1>3, <1>4 DEF Inputs, Messages

\* The page sends: the new stamp is younger than all others.
LEMMA SendStep ==
  ASSUME IInv, NEW s \in Seq(Told), Send(s), mouse' \in Positions, pending' \in Places,
         UNCHANGED <<slotVars, credited>>
  PROVE  IInv'
<1>0. StampType /\ CountsClose /\ InLine /\ Credit
  BY DEF IInv
<1>1. /\ issued' = issued + 1 /\ issued' \in Nat /\ issued \in Nat
      /\ known' \subseteq known \cup {issued + 1}
      /\ wire' \in Seq(Messages) /\ Len(wire') \in Nat /\ Len(wire) \in Nat
      /\ \A i \in 1..Len(wire') :
           wire'[i].input = IF i <= Len(wire) THEN wire[i].input ELSE issued + 1
  BY <1>0, Sends DEF StampType
<1>2. StampType'
  BY <1>0, <1>1 DEF StampType, slotVars
<1>3. CountsClose'
  BY DEF IInv, CountsClose, InHand, slotVars
<1>4. /\ Len(waiting) \in Nat /\ \A i \in 1..Len(waiting) : waiting[i] \in Nat
      /\ \A i \in 1..Len(wire) : wire[i].input \in Nat
  BY <1>0, Numbers
<1>5. InLine'
  <2>1. \A i \in 1..Len(wire') : wire'[i].input <= issued'
    <3> SUFFICES ASSUME NEW i \in 1..Len(wire') PROVE wire'[i].input <= issued'
      OBVIOUS
    <3>1. CASE i <= Len(wire)
      <4>1. i \in 1..Len(wire) /\ wire'[i].input = wire[i].input
        BY <1>1, <3>1
      <4>2. wire[i].input <= issued /\ wire[i].input \in Nat
        BY <1>0, <1>4, <4>1 DEF InLine
      <4> QED
        BY <1>1, <4>1, <4>2
    <3>2. CASE ~(i <= Len(wire))
      BY <1>1, <3>2
    <3> QED
      BY <3>1, <3>2
  <2>2. \A i, j \in 1..Len(wire') : i <= j => wire'[i].input <= wire'[j].input
    <3> SUFFICES ASSUME NEW i \in 1..Len(wire'), NEW j \in 1..Len(wire'), i <= j
                 PROVE  wire'[i].input <= wire'[j].input
      OBVIOUS
    <3>1. CASE j <= Len(wire)
      <4>1. /\ i \in 1..Len(wire) /\ wire'[i].input = wire[i].input
            /\ j \in 1..Len(wire) /\ wire'[j].input = wire[j].input
        BY <1>1, <3>1
      <4> QED
        BY <1>0, <4>1 DEF InLine
    <3>2. CASE ~(j <= Len(wire))
      BY <1>1, <2>1, <3>2
    <3> QED
      BY <3>1, <3>2
  <2>3. \A i \in 1..Len(waiting), j \in 1..Len(wire') : waiting[i] <= wire'[j].input
    BY <1>0, <1>1, <1>4 DEF InLine
  <2>4. claimed # 0 => \A j \in 1..Len(wire') : claimed <= wire'[j].input
    BY <1>0, <1>1, <1>4 DEF InLine, StampType
  <2>5. \A i \in 1..Len(waiting) : waiting[i] <= issued'
    BY <1>0, <1>1, <1>4 DEF InLine
  <2>6. claimed # 0 => claimed <= issued'
    BY <1>0, <1>1 DEF InLine, StampType
  <2> QED
    BY <2>1, <2>2, <2>3, <2>4, <2>5, <2>6, <1>0 DEF InLine, slotVars
<1>6. Credit'
  <2>1. known' \subseteq 1..issued'
    <3>1. known \subseteq 1..issued
      BY <1>0 DEF Credit
    <3>2. issued + 1 \in 1..issued' /\ 1..issued \subseteq 1..issued'
      BY <1>1
    <3> QED
      BY <1>1, <3>1, <3>2
  <2>2. \A i \in 1..Len(credited) : credited[i] \in Nat
    BY <1>0, ElementOfSeq DEF Credit
  <2>3. \A i \in 1..Len(credited) : credited[i] <= issued'
    BY <1>0, <1>1, <2>2 DEF Credit
  <2>4. \A i \in 1..Len(credited), m \in known' : credited[i] < m
    BY <1>0, <1>1, <2>2 DEF Credit
  <2> QED
    BY <1>0, <2>1, <2>3, <2>4 DEF Credit
<1> QED
  BY <1>2, <1>3, <1>5, <1>6 DEF IInv

\* A message arrives: the oldest on the channel takes the last place in the
\* slot, and the oldest in a full slot makes room.
LEMMA HandleStep == IInv /\ HandleInput => IInv'
<1> SUFFICES ASSUME IInv, HandleInput PROVE IInv'
  OBVIOUS
<1>0. StampType /\ CountsClose /\ InLine /\ Credit
  BY DEF IInv
<1>1. /\ wire \in Seq(Messages) /\ wire # <<>> /\ wire' = Tail(wire)
      /\ waiting \in Seq(Inputs)
      /\ Receive(Head(wire).input)
      /\ UNCHANGED <<mouse, pending, issued, known, credited>>
  BY <1>0 DEF HandleInput, StampType, pageVars, answerVars
<1> DEFINE n == wire[1].input
           kept == IF Len(waiting) >= Capacity THEN Tail(waiting) ELSE waiting
<1>2. /\ Len(wire) \in Nat /\ Len(wire) >= 1 /\ n \in Inputs
      /\ wire' \in Seq(Messages) /\ Len(wire') = Len(wire) - 1
      /\ \A i \in 1..Len(wire) - 1 : wire'[i] = wire[i + 1] /\ i + 1 \in 1..Len(wire)
      /\ \A i \in 1..Len(wire) : wire[i].input \in Nat
      /\ Receive(n)
  <2>1. Head(wire) \in Messages /\ Head(wire) = wire[1]
    BY <1>1, Shorter
  <2>2. n \in Inputs
    BY <2>1 DEF Messages
  <2> QED
    BY <1>0, <1>1, <2>1, <2>2, Shorter, Numbers
<1>3. Capacity \in Nat /\ Capacity >= 1
  BY InputAssumption
<1>4. /\ kept \in Seq(Inputs) /\ Len(kept) \in Nat
      /\ Len(kept) = IF Len(waiting) >= Capacity THEN Len(waiting) - 1 ELSE Len(waiting)
      /\ \A i \in 1..Len(kept) : \E k \in 1..Len(waiting) :
           kept[i] = waiting[k] /\ k = IF Len(waiting) >= Capacity THEN i + 1 ELSE i
  <2>1. CASE Len(waiting) >= Capacity
    <3>1. waiting # <<>>
      BY <1>1, <1>3, <2>1, EmptySeq
    <3>2. /\ Len(waiting) \in Nat /\ Len(waiting) >= 1
          /\ Tail(waiting) \in Seq(Inputs) /\ Len(Tail(waiting)) = Len(waiting) - 1
          /\ \A i \in 1..Len(waiting) - 1 :
               Tail(waiting)[i] = waiting[i + 1] /\ i + 1 \in 1..Len(waiting)
      BY <1>1, <3>1, Shorter
    <3>3. kept = Tail(waiting)
      BY <2>1
    <3> QED
      BY <2>1, <3>2, <3>3
  <2>2. CASE ~(Len(waiting) >= Capacity)
    BY <1>1, <2>2, LenProperties
  <2> QED
    BY <2>1, <2>2
<1>5. waiting' = Append(kept, n)
  BY <1>2 DEF Receive
<1> HIDE DEF kept
<1>6. /\ waiting' \in Seq(Inputs) /\ Len(waiting') = Len(kept) + 1
      /\ \A i \in 1..Len(kept) : waiting'[i] = kept[i]
      /\ waiting'[Len(kept) + 1] = n
  BY <1>2, <1>4, <1>5, AppendProperties
<1>7. StampType'
  BY <1>0, <1>1, <1>2, <1>6 DEF StampType, Receive
<1>8. CountsClose'
  <2>1. /\ received' = received + 1 /\ answered' = answered /\ expired' = expired
        /\ InHand' = InHand
    BY <1>2 DEF Receive, InHand
  <2>2. /\ received \in Nat /\ answered \in Nat /\ expired \in Nat /\ overwritten \in Nat
        /\ Len(waiting) \in Nat /\ InHand \in Nat
    BY <1>0, Numbers DEF StampType, InHand
  <2>3. overwritten' + Len(waiting') = overwritten + Len(waiting) + 1
    <3>1. CASE Len(waiting) >= Capacity
      <4>1. overwritten' = overwritten + 1 /\ Len(waiting') = Len(waiting)
        BY <1>2, <1>4, <1>6, <2>2, <3>1 DEF Receive
      <4> QED
        BY <2>2, <4>1
    <3>2. CASE ~(Len(waiting) >= Capacity)
      <4>1. overwritten' = overwritten /\ Len(waiting') = Len(waiting) + 1
        BY <1>2, <1>4, <1>6, <2>2, <3>2 DEF Receive
      <4> QED
        BY <2>2, <4>1
    <3> QED
      BY <3>1, <3>2
  <2>4. overwritten' \in Nat /\ Len(waiting') \in Nat
    BY <1>4, <1>6, <1>7 DEF StampType
  <2>5. received = answered + overwritten + expired + Len(waiting) + InHand
    BY <1>0 DEF CountsClose
  <2>6. received + 1 = answered + overwritten' + expired + Len(waiting') + InHand
    <3>1. answered + overwritten + expired + Len(waiting) + InHand
            = (overwritten + Len(waiting)) + (answered + expired + InHand)
      BY <2>2
    <3>2. answered + overwritten' + expired + Len(waiting') + InHand
            = (overwritten' + Len(waiting')) + (answered + expired + InHand)
      BY <2>2, <2>4
    <3>3. \A k, m \in Nat : (k + 1) + m = (k + m) + 1
      OBVIOUS
    <3>4. overwritten + Len(waiting) \in Nat /\ answered + expired + InHand \in Nat
      BY <2>2
    <3> QED
      BY <2>3, <2>5, <3>1, <3>2, <3>3, <3>4
  <2>7. received' = answered' + overwritten' + expired' + Len(waiting') + InHand'
    BY <2>1, <2>6
  <2> QED
    BY <2>7 DEF CountsClose
<1>9. InLine'
  <2>1. \A i \in 1..Len(kept) : kept[i] \in Nat /\ kept[i] <= n /\ kept[i] <= issued
    <3> SUFFICES ASSUME NEW i \in 1..Len(kept)
                 PROVE  kept[i] \in Nat /\ kept[i] <= n /\ kept[i] <= issued
      OBVIOUS
    <3>1. PICK k \in 1..Len(waiting) : kept[i] = waiting[k]
      BY <1>4
    <3>2. 1 \in 1..Len(wire)
      BY <1>2
    <3> QED
      BY <1>0, <3>1, <3>2, Numbers DEF InLine
  <2>2. \A i, j \in 1..Len(kept) : i <= j => kept[i] <= kept[j]
    <3> SUFFICES ASSUME NEW i \in 1..Len(kept), NEW j \in 1..Len(kept), i <= j
                 PROVE  kept[i] <= kept[j]
      OBVIOUS
    <3>1. PICK k \in 1..Len(waiting) :
            kept[i] = waiting[k] /\ k = IF Len(waiting) >= Capacity THEN i + 1 ELSE i
      BY <1>4
    <3>2. PICK l \in 1..Len(waiting) :
            kept[j] = waiting[l] /\ l = IF Len(waiting) >= Capacity THEN j + 1 ELSE j
      BY <1>4
    <3>3. k <= l
      BY <1>4, <3>1, <3>2
    <3> QED
      BY <1>0, <3>1, <3>2, <3>3 DEF InLine
  <2>3. n <= issued /\ n \in Nat /\ issued \in Nat
    BY <1>0, <1>2 DEF InLine, StampType
  <2>4. \A i \in 1..Len(waiting') :
          /\ waiting'[i] \in Nat /\ waiting'[i] <= n /\ waiting'[i] <= issued
    <3> SUFFICES ASSUME NEW i \in 1..Len(waiting')
                 PROVE  waiting'[i] \in Nat /\ waiting'[i] <= n /\ waiting'[i] <= issued
      OBVIOUS
    <3>1. CASE i = Len(kept) + 1
      BY <1>6, <2>3, <3>1
    <3>2. CASE i # Len(kept) + 1
      <4>1. i \in 1..Len(kept)
        BY <1>4, <1>6, <3>2
      <4> QED
        BY <1>6, <2>1, <4>1
    <3> QED
      BY <3>1, <3>2
  <2>5. \A i, j \in 1..Len(waiting') : i <= j => waiting'[i] <= waiting'[j]
    <3> SUFFICES ASSUME NEW i \in 1..Len(waiting'), NEW j \in 1..Len(waiting'), i <= j
                 PROVE  waiting'[i] <= waiting'[j]
      OBVIOUS
    <3>1. CASE j = Len(kept) + 1
      BY <1>6, <2>4, <3>1
    <3>2. CASE j # Len(kept) + 1
      <4>1. i \in 1..Len(kept) /\ j \in 1..Len(kept)
        BY <1>4, <1>6, <3>2
      <4> QED
        BY <1>6, <2>2, <4>1
    <3> QED
      BY <3>1, <3>2
  <2>6. \A j \in 1..Len(wire') : /\ wire'[j].input \in Nat /\ n <= wire'[j].input
                                 /\ wire'[j].input <= issued
    <3> SUFFICES ASSUME NEW j \in 1..Len(wire')
                 PROVE  /\ wire'[j].input \in Nat /\ n <= wire'[j].input
                        /\ wire'[j].input <= issued
      OBVIOUS
    <3>1. j + 1 \in 1..Len(wire) /\ 1 \in 1..Len(wire) /\ 1 <= j + 1 /\ wire'[j] = wire[j + 1]
      BY <1>2
    <3> QED
      BY <1>0, <1>2, <3>1 DEF InLine
  <2>7. \A i, j \in 1..Len(wire') : i <= j => wire'[i].input <= wire'[j].input
    <3> SUFFICES ASSUME NEW i \in 1..Len(wire'), NEW j \in 1..Len(wire'), i <= j
                 PROVE  wire'[i].input <= wire'[j].input
      OBVIOUS
    <3>1. /\ i + 1 \in 1..Len(wire) /\ j + 1 \in 1..Len(wire) /\ i + 1 <= j + 1
          /\ wire'[i] = wire[i + 1] /\ wire'[j] = wire[j + 1]
      BY <1>2
    <3> QED
      BY <1>0, <3>1 DEF InLine
  <2>8. \A i \in 1..Len(waiting'), j \in 1..Len(wire') : waiting'[i] <= wire'[j].input
    <3> SUFFICES ASSUME NEW i \in 1..Len(waiting'), NEW j \in 1..Len(wire')
                 PROVE  waiting'[i] <= wire'[j].input
      OBVIOUS
    <3>1. waiting'[i] \in Nat /\ waiting'[i] <= n
      BY <2>4
    <3>2. wire'[j].input \in Nat /\ n <= wire'[j].input
      BY <2>6
    <3> QED
      BY <2>3, <3>1, <3>2
  <2>9. claimed' = claimed /\ claimed \in Nat /\ issued' = issued
    BY <1>0, <1>1, <1>2 DEF Receive, StampType
  <2>10. ASSUME claimed # 0
         PROVE  /\ claimed <= issued
                /\ \A i \in 1..Len(waiting') : claimed <= waiting'[i]
                /\ \A j \in 1..Len(wire') : claimed <= wire'[j].input
    <3>1. claimed <= issued /\ claimed <= n
      <4>1. 1 \in 1..Len(wire)
        BY <1>2
      <4> QED
        BY <1>0, <2>10, <4>1 DEF InLine
    <3>2. \A i \in 1..Len(kept) : claimed <= kept[i]
      BY <1>0, <1>4, <2>10 DEF InLine
    <3>3. \A i \in 1..Len(waiting') : claimed <= waiting'[i]
      <4> SUFFICES ASSUME NEW i \in 1..Len(waiting') PROVE claimed <= waiting'[i]
        OBVIOUS
      <4>1. CASE i = Len(kept) + 1
        BY <1>6, <3>1, <4>1
      <4>2. CASE i # Len(kept) + 1
        <5>1. i \in 1..Len(kept)
          BY <1>4, <1>6, <4>2
        <5> QED
          BY <1>6, <3>2, <5>1
      <4> QED
        BY <4>1, <4>2
    <3>4. \A j \in 1..Len(wire') : claimed <= wire'[j].input
      BY <2>3, <2>6, <2>9, <3>1
    <3> QED
      BY <3>1, <3>3, <3>4
  <2> QED
    BY <2>4, <2>5, <2>6, <2>7, <2>8, <2>9, <2>10 DEF InLine
<1>10. Credit'
  BY <1>0, <1>1 DEF Credit
<1> QED
  BY <1>7, <1>8, <1>9, <1>10 DEF IInv

\* The sum in two halves: what a claim or an expiry moves, and what it leaves.
LEMMA Halves ==
  ASSUME StampType
  PROVE  /\ answered + expired + InHand \in Nat /\ overwritten + Len(waiting) \in Nat
         /\ CountsClose <=>
              received = (answered + expired + InHand) + (overwritten + Len(waiting))
<1>1. /\ received \in Nat /\ answered \in Nat /\ expired \in Nat /\ overwritten \in Nat
      /\ Len(waiting) \in Nat /\ InHand \in Nat
  BY Numbers DEF StampType, InHand
<1>2. answered + overwritten + expired + Len(waiting) + InHand
        = (answered + expired + InHand) + (overwritten + Len(waiting))
  BY <1>1
<1> QED
  BY <1>1, <1>2 DEF CountsClose

LEMMA HalvesNext ==
  ASSUME StampType'
  PROVE  CountsClose' <=>
           received' = (answered' + expired' + InHand') + (overwritten' + Len(waiting'))
<1>1. waiting' \in Seq(Inputs)
  BY DEF StampType
<1>2. /\ received' \in Nat /\ answered' \in Nat /\ expired' \in Nat /\ overwritten' \in Nat
      /\ Len(waiting') \in Nat /\ InHand' \in Nat
  BY <1>1, LenProperties DEF StampType, InHand
<1>3. answered' + overwritten' + expired' + Len(waiting') + InHand'
        = (answered' + expired' + InHand') + (overwritten' + Len(waiting'))
  BY <1>2, SMTT(60)
<1> QED
  BY <1>2, <1>3 DEF CountsClose

\* A present takes the oldest stamp.
LEMMA ClaimStep == IInv /\ Claim => IInv'
<1> SUFFICES ASSUME IInv, Claim PROVE IInv'
  OBVIOUS
<1>0. StampType /\ CountsClose /\ InLine /\ Credit
  BY DEF IInv
<1>1. /\ claimed = 0 /\ waiting # <<>> /\ waiting \in Seq(Inputs)
      /\ claimed' = Head(waiting) /\ waiting' = Tail(waiting)
      /\ UNCHANGED <<mouse, pending, issued, wire, received, overwritten, answered, expired,
                     known, credited>>
  BY <1>0 DEF Claim, StampType, pageVars, answerVars
<1>2. /\ claimed' \in Inputs /\ claimed' = waiting[1] /\ Len(waiting) \in Nat /\ Len(waiting) >= 1
      /\ waiting' \in Seq(Inputs) /\ Len(waiting') = Len(waiting) - 1
      /\ \A i \in 1..Len(waiting) - 1 : waiting'[i] = waiting[i + 1] /\ i + 1 \in 1..Len(waiting)
  BY <1>1, Shorter
<1>3. StampType'
  BY <1>0, <1>1, <1>2 DEF StampType, Inputs
<1>4. CountsClose'
  <2>1. InHand = 0 /\ InHand' = 1
    BY <1>1, <1>2 DEF InHand, Inputs
  <2>2. answered' + expired' + InHand' = (answered + expired + InHand) + 1
    BY <1>0, <1>1, <2>1 DEF StampType
  <2>3. (overwritten' + Len(waiting')) + 1 = overwritten + Len(waiting)
    BY <1>0, <1>1, <1>2 DEF StampType
  <2>4. overwritten' + Len(waiting') \in Nat
    BY <1>0, <1>1, <1>2 DEF StampType
  <2>5. \A k, m \in Nat : (k + 1) + m = k + (m + 1)
    OBVIOUS
  <2>6. /\ answered + expired + InHand \in Nat /\ received' = received
        /\ received = (answered + expired + InHand) + (overwritten + Len(waiting))
    BY <1>0, <1>1, Halves
  <2> QED
    BY <1>3, <2>2, <2>3, <2>4, <2>5, <2>6, HalvesNext
<1>5. InLine'
  <2>1. /\ \A i \in 1..Len(waiting) : waiting[i] \in Nat
        /\ \A i \in 1..Len(wire) : wire[i].input \in Nat
    BY <1>0, Numbers
  <2>2. 1 \in 1..Len(waiting) /\ waiting[1] \in Nat /\ issued \in Nat
    BY <1>0, <1>2, <2>1 DEF StampType
  <2>3. claimed' <= issued' /\ \A j \in 1..Len(wire) : claimed' <= wire[j].input
    BY <1>0, <1>1, <1>2, <2>2 DEF InLine
  <2>4. \A i \in 1..Len(waiting') :
          /\ claimed' <= waiting'[i] /\ waiting'[i] <= issued
          /\ \A j \in 1..Len(wire) : waiting'[i] <= wire[j].input
    <3> SUFFICES ASSUME NEW i \in 1..Len(waiting')
                 PROVE  /\ claimed' <= waiting'[i] /\ waiting'[i] <= issued
                        /\ \A j \in 1..Len(wire) : waiting'[i] <= wire[j].input
      OBVIOUS
    <3>1. i + 1 \in 1..Len(waiting) /\ waiting'[i] = waiting[i + 1] /\ 1 <= i + 1
      BY <1>2
    <3> QED
      BY <1>0, <1>2, <2>2, <3>1 DEF InLine
  <2>5. \A i, j \in 1..Len(waiting') : i <= j => waiting'[i] <= waiting'[j]
    <3> SUFFICES ASSUME NEW i \in 1..Len(waiting'), NEW j \in 1..Len(waiting'), i <= j
                 PROVE  waiting'[i] <= waiting'[j]
      OBVIOUS
    <3>1. /\ i + 1 \in 1..Len(waiting) /\ waiting'[i] = waiting[i + 1]
          /\ j + 1 \in 1..Len(waiting) /\ waiting'[j] = waiting[j + 1] /\ i + 1 <= j + 1
      BY <1>2
    <3> QED
      BY <1>0, <3>1 DEF InLine
  <2> QED
    BY <1>0, <1>1, <2>3, <2>4, <2>5 DEF InLine
<1>6. Credit'
  BY <1>0, <1>1 DEF Credit
<1> QED
  BY <1>3, <1>4, <1>5, <1>6 DEF IInv

\* A frame takes the claim with it.
LEMMA SettleFrameStep == IInv /\ SettleFrame => IInv'
<1> SUFFICES ASSUME IInv, SettleFrame PROVE IInv'
  OBVIOUS
<1>0. StampType /\ CountsClose /\ InLine /\ Credit
  BY DEF IInv
<1>1. /\ claimed # 0 /\ claimed' = 0 /\ answered' = answered + 1
      /\ UNCHANGED <<mouse, pending, issued, wire, waiting, received, overwritten, expired,
                     known, credited>>
  BY DEF SettleFrame, pageVars
<1>2. StampType'
  BY <1>0, <1>1 DEF StampType
<1>3. CountsClose'
  <2>1. InHand = 1 /\ InHand' = 0
    BY <1>1 DEF InHand
  <2>2. answered' + expired' + InHand' = answered + expired + InHand
    BY <1>0, <1>1, <2>1 DEF StampType
  <2> QED
    BY <1>0, <1>1, <1>2, <2>2, Halves, HalvesNext
<1>4. InLine' /\ Credit'
  BY <1>0, <1>1 DEF InLine, Credit
<1> QED
  BY <1>2, <1>3, <1>4 DEF IInv

\* The oldest waiting stamp outlives the age limit.
LEMMA ExpireStep == IInv /\ Expire => IInv'
<1> SUFFICES ASSUME IInv, Expire PROVE IInv'
  OBVIOUS
<1>0. StampType /\ CountsClose /\ InLine /\ Credit
  BY DEF IInv
<1>1. /\ claimed = 0 /\ claimed' = 0 /\ waiting # <<>> /\ waiting \in Seq(Inputs)
      /\ waiting' = Tail(waiting) /\ expired' = expired + 1
      /\ UNCHANGED <<mouse, pending, issued, wire, received, overwritten, answered,
                     known, credited>>
  BY <1>0 DEF Expire, StampType, pageVars, answerVars
<1>2. /\ Len(waiting) \in Nat /\ Len(waiting) >= 1
      /\ waiting' \in Seq(Inputs) /\ Len(waiting') = Len(waiting) - 1
      /\ \A i \in 1..Len(waiting) - 1 : waiting'[i] = waiting[i + 1] /\ i + 1 \in 1..Len(waiting)
  BY <1>1, Shorter
<1>3. StampType'
  BY <1>0, <1>1, <1>2 DEF StampType
<1>4. CountsClose'
  <2>1. InHand = 0 /\ InHand' = 0
    BY <1>1 DEF InHand
  <2>2. answered' + expired' + InHand' = (answered + expired + InHand) + 1
    BY <1>0, <1>1, <2>1 DEF StampType
  <2>3. (overwritten' + Len(waiting')) + 1 = overwritten + Len(waiting)
    BY <1>0, <1>1, <1>2 DEF StampType
  <2>4. overwritten' + Len(waiting') \in Nat
    BY <1>0, <1>1, <1>2 DEF StampType
  <2>5. \A k, m \in Nat : (k + 1) + m = k + (m + 1)
    OBVIOUS
  <2>6. /\ answered + expired + InHand \in Nat /\ received' = received
        /\ received = (answered + expired + InHand) + (overwritten + Len(waiting))
    BY <1>0, <1>1, Halves
  <2> QED
    BY <1>3, <2>2, <2>3, <2>4, <2>5, <2>6, HalvesNext
<1>5. InLine'
  <2>1. \A i \in 1..Len(waiting') :
          /\ waiting'[i] <= issued
          /\ \A j \in 1..Len(wire) : waiting'[i] <= wire[j].input
    BY <1>0, <1>2 DEF InLine
  <2>2. \A i, j \in 1..Len(waiting') : i <= j => waiting'[i] <= waiting'[j]
    <3> SUFFICES ASSUME NEW i \in 1..Len(waiting'), NEW j \in 1..Len(waiting'), i <= j
                 PROVE  waiting'[i] <= waiting'[j]
      OBVIOUS
    <3>1. /\ i + 1 \in 1..Len(waiting) /\ waiting'[i] = waiting[i + 1]
          /\ j + 1 \in 1..Len(waiting) /\ waiting'[j] = waiting[j + 1] /\ i + 1 <= j + 1
      BY <1>2
    <3> QED
      BY <1>0, <3>1 DEF InLine
  <2> QED
    BY <1>0, <1>1, <2>1, <2>2 DEF InLine
<1>6. Credit'
  BY <1>0, <1>1 DEF Credit
<1> QED
  BY <1>3, <1>4, <1>5, <1>6 DEF IInv

\* A present that sent nothing puts its claim back in front; the newest in a
\* full slot makes room.
LEMMA SettleNothingStep == IInv /\ SettleNothing => IInv'
<1> SUFFICES ASSUME IInv, SettleNothing PROVE IInv'
  OBVIOUS
<1>0. StampType /\ CountsClose /\ InLine /\ Credit
  BY DEF IInv
<1> DEFINE kept == IF Len(waiting) >= Capacity THEN Front(waiting) ELSE waiting
<1>1. /\ claimed \in Inputs /\ claimed' = 0 /\ waiting \in Seq(Inputs)
      /\ waiting' = <<claimed>> \o kept
      /\ overwritten' = IF Len(waiting) >= Capacity THEN overwritten + 1 ELSE overwritten
      /\ UNCHANGED <<mouse, pending, issued, wire, received, answered, expired, known, credited>>
  BY <1>0 DEF SettleNothing, StampType, Inputs, pageVars, answerVars
<1>2. Capacity \in Nat /\ Capacity >= 1
  BY InputAssumption
<1>3. /\ kept \in Seq(Inputs) /\ Len(kept) \in Nat
      /\ Len(kept) = IF Len(waiting) >= Capacity THEN Len(waiting) - 1 ELSE Len(waiting)
      /\ \A i \in 1..Len(kept) : kept[i] = waiting[i] /\ i \in 1..Len(waiting)
  <2>1. CASE Len(waiting) >= Capacity
    <3>1. waiting # <<>>
      BY <1>1, <1>2, <2>1, EmptySeq
    <3>2. /\ Len(waiting) \in Nat /\ Len(waiting) >= 1
          /\ Front(waiting) \in Seq(Inputs) /\ Len(Front(waiting)) = Len(waiting) - 1
          /\ \A i \in 1..Len(waiting) - 1 : Front(waiting)[i] = waiting[i] /\ i \in 1..Len(waiting)
      BY <1>1, <3>1, Shorter
    <3>3. kept = Front(waiting)
      BY <2>1
    <3> QED
      BY <2>1, <3>2, <3>3
  <2>2. CASE ~(Len(waiting) >= Capacity)
    BY <1>1, <2>2, LenProperties
  <2> QED
    BY <2>1, <2>2
<1> HIDE DEF kept
<1>4. /\ waiting' \in Seq(Inputs) /\ Len(waiting') = 1 + Len(kept)
      /\ waiting'[1] = claimed
      /\ \A i \in 1..Len(kept) + 1 : i # 1 => i - 1 \in 1..Len(kept) /\ waiting'[i] = kept[i - 1]
  <2>1. <<claimed>> \in Seq(Inputs) /\ Len(<<claimed>>) = 1 /\ <<claimed>>[1] = claimed
    BY <1>1
  <2>2. /\ <<claimed>> \o kept \in Seq(Inputs) /\ Len(<<claimed>> \o kept) = 1 + Len(kept)
        /\ \A i \in 1..1 + Len(kept) :
             (<<claimed>> \o kept)[i] = IF i <= 1 THEN <<claimed>>[i] ELSE kept[i - 1]
    BY <1>3, <2>1, ConcatProperties
  <2>3. \A i \in 1..Len(kept) + 1 : i # 1 => i - 1 \in 1..Len(kept) /\ i \in 1..1 + Len(kept) /\ ~(i <= 1)
    BY <1>3
  <2>4. 1 \in 1..1 + Len(kept)
    BY <1>3
  <2> QED
    BY <1>1, <2>1, <2>2, <2>3, <2>4
<1>5. StampType'
  BY <1>0, <1>1, <1>4 DEF StampType
<1>6. CountsClose'
  <2>1. InHand = 1 /\ InHand' = 0
    BY <1>1 DEF InHand, Inputs
  <2>2. (answered' + expired' + InHand') + 1 = answered + expired + InHand
    BY <1>0, <1>1, <2>1 DEF StampType
  <2>3. overwritten' + Len(waiting') = (overwritten + Len(waiting)) + 1
    <3>1. Len(waiting) \in Nat /\ overwritten \in Nat
      BY <1>0, Numbers DEF StampType
    <3>2. CASE Len(waiting) >= Capacity
      <4>1. overwritten' = overwritten + 1 /\ Len(kept) = Len(waiting) - 1
        BY <1>1, <1>3, <3>2
      <4>2. Len(waiting') = Len(waiting)
        BY <1>4, <3>1, <4>1
      <4> QED
        BY <3>1, <4>1, <4>2
    <3>3. CASE ~(Len(waiting) >= Capacity)
      <4>1. overwritten' = overwritten /\ Len(kept) = Len(waiting)
        BY <1>1, <1>3, <3>3
      <4>2. Len(waiting') = Len(waiting) + 1
        BY <1>4, <3>1, <4>1
      <4> QED
        BY <3>1, <4>1, <4>2
    <3> QED
      BY <3>2, <3>3
  <2>4. answered' + expired' + InHand' \in Nat
    BY <1>0, <1>1, <2>1 DEF StampType
  <2>5. \A k, m \in Nat : (k + 1) + m = k + (m + 1)
    OBVIOUS
  <2>6. /\ overwritten + Len(waiting) \in Nat /\ received' = received
        /\ received = (answered + expired + InHand) + (overwritten + Len(waiting))
    BY <1>0, <1>1, Halves
  <2> QED
    BY <1>5, <2>2, <2>3, <2>4, <2>5, <2>6, HalvesNext
<1>7. InLine'
  <2>1. /\ claimed # 0 /\ claimed \in Nat /\ claimed <= issued /\ issued \in Nat
        /\ \A i \in 1..Len(waiting) : claimed <= waiting[i]
        /\ \A j \in 1..Len(wire) : claimed <= wire[j].input
    BY <1>0, <1>1 DEF InLine, StampType, Inputs
  <2>2. \A i \in 1..Len(waiting') :
          /\ waiting'[i] <= issued /\ claimed <= waiting'[i]
          /\ \A j \in 1..Len(wire) : waiting'[i] <= wire[j].input
    <3> SUFFICES ASSUME NEW i \in 1..Len(waiting')
                 PROVE  /\ waiting'[i] <= issued /\ claimed <= waiting'[i]
                        /\ \A j \in 1..Len(wire) : waiting'[i] <= wire[j].input
      OBVIOUS
    <3>1. CASE i = 1
      BY <1>4, <2>1, <3>1
    <3>2. CASE i # 1
      <4>1. i - 1 \in 1..Len(kept) /\ waiting'[i] = kept[i - 1]
        BY <1>3, <1>4, <3>2
      <4>2. waiting'[i] = waiting[i - 1] /\ i - 1 \in 1..Len(waiting)
        BY <1>3, <4>1
      <4> QED
        BY <1>0, <2>1, <4>2 DEF InLine
    <3> QED
      BY <3>1, <3>2
  <2>3. \A i, j \in 1..Len(waiting') : i <= j => waiting'[i] <= waiting'[j]
    <3> SUFFICES ASSUME NEW i \in 1..Len(waiting'), NEW j \in 1..Len(waiting'), i <= j
                 PROVE  waiting'[i] <= waiting'[j]
      OBVIOUS
    <3>1. CASE i = 1
      BY <1>4, <2>2, <3>1
    <3>2. CASE i # 1
      <4>1. j # 1
        BY <1>3, <1>4, <3>2
      <4>2. /\ i - 1 \in 1..Len(kept) /\ waiting'[i] = kept[i - 1]
            /\ j - 1 \in 1..Len(kept) /\ waiting'[j] = kept[j - 1] /\ i - 1 <= j - 1
        BY <1>3, <1>4, <3>2, <4>1
      <4>3. /\ waiting'[i] = waiting[i - 1] /\ i - 1 \in 1..Len(waiting)
            /\ waiting'[j] = waiting[j - 1] /\ j - 1 \in 1..Len(waiting)
        BY <1>3, <4>2
      <4> QED
        BY <1>0, <4>2, <4>3 DEF InLine
    <3> QED
      BY <3>1, <3>2
  <2> QED
    BY <1>0, <1>1, <2>2, <2>3 DEF InLine
<1>8. Credit'
  BY <1>0, <1>1 DEF Credit
<1> QED
  BY <1>5, <1>6, <1>7, <1>8 DEF IInv

\* A stamped frame is painted: what it is credited to was awaited, and what is
\* awaited from then on is younger.
LEMMA PaintStep == IInv /\ PaintAnswer => IInv'
<1> SUFFICES ASSUME IInv, PaintAnswer PROVE IInv'
  OBVIOUS
<1>0. StampType /\ CountsClose /\ InLine /\ Credit
  BY DEF IInv
<1>1. UNCHANGED <<mouse, pending, issued, wire, slotVars>>
  BY DEF PaintAnswer, pageVars
<1>2. StampType' /\ CountsClose' /\ InLine'
  BY <1>0, <1>1 DEF StampType, CountsClose, InHand, InLine, slotVars
<1>3. \/ UNCHANGED <<known, credited>>
      \/ \E n \in known : credited' = Append(credited, n) /\ known' = {m \in known : m > n}
  BY DEF PaintAnswer
<1>4. Credit'
  <2>1. CASE UNCHANGED <<known, credited>>
    BY <1>0, <1>1, <2>1 DEF Credit
  <2>2. ASSUME NEW n \in known, credited' = Append(credited, n), known' = {m \in known : m > n}
        PROVE  Credit'
    <3>1. n \in Nat /\ n <= issued /\ issued' = issued /\ known \subseteq Nat /\ issued \in Nat
      BY <1>0, <1>1, <2>2 DEF Credit, StampType
    <3>2. /\ credited \in Seq(Nat) /\ Len(credited) \in Nat
          /\ \A i \in 1..Len(credited) : credited[i] \in Nat
      BY <1>0, LenProperties, ElementOfSeq DEF Credit
    <3>3. /\ credited' \in Seq(Nat) /\ Len(credited') = Len(credited) + 1
          /\ \A i \in 1..Len(credited) : credited'[i] = credited[i]
          /\ credited'[Len(credited) + 1] = n
      BY <2>2, <3>1, <3>2, AppendProperties
    <3>4. \A i \in 1..Len(credited') : credited'[i] \in Nat /\ credited'[i] <= n
      <4> SUFFICES ASSUME NEW i \in 1..Len(credited') PROVE credited'[i] \in Nat /\ credited'[i] <= n
        OBVIOUS
      <4>1. CASE i = Len(credited) + 1
        BY <3>1, <3>3, <4>1
      <4>2. CASE i # Len(credited) + 1
        <5>1. i \in 1..Len(credited)
          BY <3>2, <3>3, <4>2
        <5>2. credited[i] \in Nat /\ credited[i] < n
          BY <1>0, <2>2, <3>2, <5>1 DEF Credit
        <5> QED
          BY <3>1, <3>3, <5>1, <5>2
      <4> QED
        BY <4>1, <4>2
    <3>5. \A i, j \in 1..Len(credited') : i < j => credited'[i] < credited'[j]
      <4> SUFFICES ASSUME NEW i \in 1..Len(credited'), NEW j \in 1..Len(credited'), i < j
                   PROVE  credited'[i] < credited'[j]
        OBVIOUS
      <4>1. i \in 1..Len(credited)
        BY <3>2, <3>3
      <4>2. CASE j = Len(credited) + 1
        BY <1>0, <3>3, <4>1, <4>2 DEF Credit
      <4>3. CASE j # Len(credited) + 1
        <5>1. j \in 1..Len(credited) + 1
          BY <3>3
        <5>2. j \in 1..Len(credited)
          BY <3>2, <4>3, <5>1
        <5> QED
          BY <1>0, <3>3, <4>1, <5>2 DEF Credit
      <4> QED
        BY <4>2, <4>3
    <3>6. \A i \in 1..Len(credited'), m \in known' : credited'[i] < m
      <4> SUFFICES ASSUME NEW i \in 1..Len(credited'), NEW m \in known' PROVE credited'[i] < m
        OBVIOUS
      <4>1. m \in Nat /\ m > n
        BY <2>2, <3>1
      <4>2. credited'[i] \in Nat /\ credited'[i] <= n
        BY <3>4
      <4> QED
        BY <3>1, <4>1, <4>2
    <3>7. known' \subseteq 1..issued'
      BY <1>0, <2>2, <3>1 DEF Credit
    <3>8. \A i \in 1..Len(credited') : credited'[i] <= issued'
      BY <3>1, <3>4
    <3> QED
      BY <3>3, <3>5, <3>6, <3>7, <3>8 DEF Credit
  <2> QED
    BY <1>3, <2>1, <2>2
<1> QED
  BY <1>2, <1>4 DEF IInv

-----------------------------------------------------------------------------
(* The theorems                                                            *)

LEMMA StepHolds == IInv /\ [Next]_vars => IInv'
<1> SUFFICES ASSUME IInv, [Next]_vars PROVE IInv'
  OBVIOUS
<1>0. /\ mouse \in Positions /\ pending \in Places /\ Nowhere \in Places /\ Positions \subseteq Places
  BY DEF IInv, StampType, Places
<1>1. ASSUME NEW p \in Positions, OnMouseMove(p) PROVE IInv'
  <2>1. mouse' \in Positions /\ pending' \in Places
    BY <1>0, <1>1 DEF OnMouseMove
  <2>2. UNCHANGED <<issued, wire, slotVars, known, credited>>
    BY <1>1 DEF OnMouseMove
  <2> QED
    BY <2>1, <2>2 DEF IInv, slotVars, StampType, CountsClose, InHand, InLine, Credit
<1>2. ASSUME NEW p \in Positions, OnMouseEnter(p) PROVE IInv'
  <2>1. mouse' \in Positions /\ pending' \in Places /\ UNCHANGED <<slotVars, credited>>
    BY <1>0, <1>2 DEF OnMouseEnter
  <2>2. <<Event("move", p)>> \in Seq(Told) /\ Send(<<Event("move", p)>>)
    BY <1>0, <1>2 DEF OnMouseEnter, Event, Told, Kinds
  <2> QED
    BY <2>1, <2>2, SendStep
<1>3. CASE FlushMove
  <2>1. mouse' \in Positions /\ pending' \in Places /\ UNCHANGED <<slotVars, credited>>
    BY <1>0, <1>3 DEF FlushMove
  <2>2. CASE pending = lastSent
    <3>1. UNCHANGED <<issued, wire, known>>
      BY <1>3, <2>2 DEF FlushMove
    <3> QED
      BY <2>1, <3>1 DEF IInv, slotVars, StampType, CountsClose, InHand, InLine, Credit
  <2>3. CASE pending # lastSent
    <3>1. <<Event("move", pending)>> \in Seq(Told) /\ Send(<<Event("move", pending)>>)
      BY <1>0, <1>3, <2>3 DEF FlushMove, Event, Told, Kinds
    <3> QED
      BY <2>1, <3>1, SendStep
  <2> QED
    BY <2>2, <2>3
<1>4. ASSUME NEW kind \in {"down", "up"}, OnButton(kind) PROVE IInv'
  <2>1. mouse' \in Positions /\ pending' \in Places /\ UNCHANGED <<slotVars, credited>>
    BY <1>0, <1>4 DEF OnButton
  <2>2. <<Event(kind, mouse)>> \in Seq(Told) /\ Send(<<Event(kind, mouse)>>)
    BY <1>0, <1>4 DEF OnButton, Event, Told, Kinds
  <2> QED
    BY <2>1, <2>2, SendStep
<1>5. CASE OnContextMenu
  <2>1. mouse' \in Positions /\ pending' \in Places /\ UNCHANGED <<slotVars, credited>>
    BY <1>0, <1>5 DEF OnContextMenu
  <2>2. /\ <<Event("down", mouse), Event("up", mouse)>> \in Seq(Told)
        /\ Send(<<Event("down", mouse), Event("up", mouse)>>)
    BY <1>0, <1>5 DEF OnContextMenu, Event, Told, Kinds
  <2> QED
    BY <2>1, <2>2, SendStep
<1>6. CASE HandleInput
  BY <1>6, HandleStep
<1>7. CASE GameNext
  <2>1. UNCHANGED stampVars
    BY <1>7 DEF GameNext, PollHeld, PollMotion, PollSdl, PollHolds, PollNothing, Tick,
                stampVars, pageVars, slotVars, answerVars
  <2> QED
    BY <2>1, QuietStep
<1>8. CASE StampNext
  BY <1>8, ClaimStep, SettleFrameStep, SettleNothingStep, ExpireStep, PaintStep DEF StampNext
<1>9. CASE UNCHANGED vars
  <2>1. UNCHANGED stampVars
    BY <1>9 DEF vars, stampVars, pageVars, slotVars, answerVars
  <2> QED
    BY <2>1, QuietStep
<1>10. CASE PlayerNext
  BY <1>1, <1>2, <1>3, <1>4, <1>5, <1>10 DEF PlayerNext, OnMouseDown, OnMouseUp
<1> QED
  BY <1>6, <1>7, <1>8, <1>9, <1>10 DEF Next

LEMMA StampsInvariant == Spec => []IInv
<1> QED
  BY InitHolds, StepHolds, PTL DEF Spec

\* stamp_slot.hpp: "every input lands in exactly one bucket". However presents,
\* failures, overflows and expiries interleave, the counters of a slot of any
\* capacity add up to the inputs received.
THEOREM CountsAlwaysClose == Spec => []CountsClose
<1>1. IInv => CountsClose
  BY DEF IInv
<1> QED
  BY <1>1, StampsInvariant, PTL

\* Answers are given oldest first, and the page credits every input at most
\* once and in the order the inputs were made, however often stamp values come
\* round, for any number of them.
THEOREM AlwaysAnsweredInOrder == Spec => []AnsweredInOrder
<1>1. IInv => AnsweredInOrder
  <2> SUFFICES ASSUME IInv PROVE AnsweredInOrder
    OBVIOUS
  <2>1. StampType /\ InLine /\ Credit
    BY DEF IInv
  <2>2. DOMAIN waiting = 1..Len(waiting) /\ DOMAIN credited = 1..Len(credited)
    BY <2>1, LenProperties DEF StampType, Credit
  <2> QED
    BY <2>1, <2>2 DEF AnsweredInOrder, OldestFirst, CreditedOnceInOrder, InLine, Credit
<1> QED
  BY <1>1, StampsInvariant, PTL

-----------------------------------------------------------------------------
(* The buttons. What is held back, then SDL's queue, then the channel: read *)
(* in this order they lead the button from how the game sees it to how the *)
(* player holds it, a press and a release in turn.                         *)

Flips(before, kind, after) ==
  \/ kind = "move" /\ after = before
  \/ kind = "down" /\ ~before /\ after
  \/ kind = "up" /\ before /\ ~after

\* The messages of q take the button from a to b.
Leads(q, a, b) ==
  \E at \in [0..Len(q) -> BOOLEAN] :
    /\ at[0] = a /\ at[Len(q)] = b
    /\ \A i \in 1..Len(q) : Flips(at[i - 1], q[i].kind, at[i])

ButtonType ==
  /\ pressed \in BOOLEAN /\ ticked \in BOOLEAN
  /\ held \in Seq(Told) /\ sdl \in Seq(Told)
  /\ motion \in Places
  /\ seen \in [pointer : Places, down : BOOLEAN, direct : BOOLEAN, ran : BOOLEAN,
               quick : BOOLEAN, odd : BOOLEAN]

InTurn ==
  \E b, c \in BOOLEAN :
    Leads(held, seen.down, b) /\ Leads(sdl, b, c) /\ Leads(wire, c, pressed)

\* While the game has not run with a press it took from the queue itself, the
\* tick counter still stands where it stood at the press.
PressAwaitsTick == seen.direct /\ ~seen.ran => ~ticked

Buttons == ButtonType /\ InTurn /\ PressAwaitsTick /\ ClicksArriveWhole

LEMMA LeadsNowhere == \A a \in BOOLEAN : Leads(<<>>, a, a)
<1> SUFFICES ASSUME NEW a \in BOOLEAN PROVE Leads(<<>>, a, a)
  OBVIOUS
<1> DEFINE at == [i \in 0..0 |-> a]
<1>1. Len(<<>>) = 0
  OBVIOUS
<1>2. at \in [0..Len(<<>>) -> BOOLEAN] /\ at[0] = a /\ at[Len(<<>>)] = a
  BY <1>1
<1>3. \A i \in 1..Len(<<>>) : Flips(at[i - 1], <<>>[i].kind, at[i])
  BY <1>1
<1> HIDE DEF at
<1> QED
  BY <1>2, <1>3 DEF Leads

LEMMA LeadsOn ==
  ASSUME NEW S, NEW q \in Seq(S), NEW e \in S, NEW a \in BOOLEAN, NEW b \in BOOLEAN,
         NEW c \in BOOLEAN, Leads(q, a, b), Flips(b, e.kind, c)
  PROVE  Leads(Append(q, e), a, c)
<1>1. PICK at \in [0..Len(q) -> BOOLEAN] :
        /\ at[0] = a /\ at[Len(q)] = b
        /\ \A i \in 1..Len(q) : Flips(at[i - 1], q[i].kind, at[i])
  BY DEF Leads
<1> DEFINE on == [i \in 0..Len(q) + 1 |-> IF i <= Len(q) THEN at[i] ELSE c]
<1>2. /\ Len(q) \in Nat /\ Len(Append(q, e)) = Len(q) + 1
      /\ \A i \in 1..Len(q) : Append(q, e)[i] = q[i]
      /\ Append(q, e)[Len(q) + 1] = e
  OBVIOUS
<1>3. \A i \in 0..Len(q) : on[i] = at[i]
  BY <1>2
<1>4. on[Len(q) + 1] = c /\ on \in [0..Len(q) + 1 -> BOOLEAN]
  BY <1>1, <1>2
<1> HIDE DEF on
<1>5. ASSUME NEW i \in 1..Len(q) + 1
      PROVE  Flips(on[i - 1], Append(q, e)[i].kind, on[i])
  <2>1. CASE i = Len(q) + 1
    <3>1. on[i - 1] = b /\ on[i] = c /\ Append(q, e)[i] = e
      BY <1>1, <1>2, <1>3, <1>4, <2>1
    <3> QED
      BY <3>1
  <2>2. CASE i # Len(q) + 1
    <3>1. i \in 1..Len(q) /\ i - 1 \in 0..Len(q) /\ i \in 0..Len(q)
      BY <1>2, <2>2
    <3>2. on[i - 1] = at[i - 1] /\ on[i] = at[i] /\ Append(q, e)[i] = q[i]
      BY <1>2, <1>3, <3>1
    <3> QED
      BY <1>1, <3>1, <3>2
  <2> QED
    BY <2>1, <2>2
<1>6. on[0] = a
  BY <1>1, <1>2, <1>3
<1> QED
  BY <1>2, <1>4, <1>5, <1>6 DEF Leads

LEMMA LeadsFirst ==
  ASSUME NEW S, NEW q \in Seq(S), q # <<>>, NEW a \in BOOLEAN, NEW c \in BOOLEAN, Leads(q, a, c)
  PROVE  \E b \in BOOLEAN : Flips(a, Head(q).kind, b) /\ Leads(Tail(q), b, c)
<1>1. PICK at \in [0..Len(q) -> BOOLEAN] :
        /\ at[0] = a /\ at[Len(q)] = c
        /\ \A i \in 1..Len(q) : Flips(at[i - 1], q[i].kind, at[i])
  BY DEF Leads
<1> DEFINE on == [i \in 0..Len(q) - 1 |-> at[i + 1]]
<1>2. /\ Len(q) \in Nat \ {0} /\ Len(Tail(q)) = Len(q) - 1 /\ Head(q) = q[1]
      /\ \A i \in 1..Len(q) - 1 : Tail(q)[i] = q[i + 1]
  OBVIOUS
<1>3. \A i \in 0..Len(q) - 1 : on[i] = at[i + 1]
  OBVIOUS
<1>4. on \in [0..Len(q) - 1 -> BOOLEAN]
  BY <1>1, <1>2
<1> HIDE DEF on
<1>5. ASSUME NEW i \in 1..Len(q) - 1
      PROVE  Flips(on[i - 1], Tail(q)[i].kind, on[i])
  <2>1. on[i - 1] = at[i] /\ on[i] = at[i + 1] /\ Tail(q)[i] = q[i + 1] /\ i + 1 \in 1..Len(q)
    BY <1>2, <1>3
  <2>2. Flips(at[(i + 1) - 1], q[i + 1].kind, at[i + 1])
    BY <1>1, <2>1
  <2>3. (i + 1) - 1 = i
    BY <1>2
  <2> QED
    BY <2>1, <2>2, <2>3
<1>6. on[0] = at[1] /\ on[Len(q) - 1] = c
  BY <1>1, <1>2, <1>3
<1>7. Flips(a, Head(q).kind, at[1]) /\ at[1] \in BOOLEAN
  BY <1>1, <1>2
<1> QED
  BY <1>2, <1>4, <1>5, <1>6, <1>7 DEF Leads

\* A move flips nothing.
LEMMA MovesFlipNothing == \A a \in BOOLEAN : \A b : Flips(a, "move", b) <=> b = a
BY DEF Flips

LEMMA PairIsTwo ==
  ASSUME NEW S, NEW q \in Seq(S), NEW m \in S, NEW n \in S
  PROVE  q \o <<m, n>> = Append(Append(q, m), n)
<1>1. <<m>> \in Seq(S) /\ <<n>> \in Seq(S)
  OBVIOUS
<1>2. Append(<<m>>, n) = <<m>> \o <<n>>
  BY <1>1, AppendIsConcat
<1>3. /\ Append(<<m>>, n) \in Seq(S) /\ Len(Append(<<m>>, n)) = 2
      /\ Append(<<m>>, n)[1] = m /\ Append(<<m>>, n)[2] = n
  BY <1>1
<1>4. /\ <<m, n>> \in Seq(S) /\ Len(<<m, n>>) = 2
      /\ <<m, n>>[1] = m /\ <<m, n>>[2] = n
  OBVIOUS
<1>5. \A i \in 1..2 : Append(<<m>>, n)[i] = <<m, n>>[i]
  BY <1>3, <1>4
<1>6. Append(<<m>>, n) = <<m, n>>
  BY <1>3, <1>4, <1>5, SeqEqual
<1>7. (q \o <<m>>) \o <<n>> = q \o (<<m>> \o <<n>>)
  BY <1>1, ConcatAssociative
<1>8. q \o <<m>> = Append(q, m) /\ Append(q, m) \in Seq(S)
  BY AppendIsConcat, AppendProperties
<1>9. Append(q, m) \o <<n>> = Append(Append(q, m), n)
  BY <1>8, AppendIsConcat
<1> QED
  BY <1>2, <1>6, <1>7, <1>8, <1>9

\* What a page sends is put last, one by one.
LEMMA SendsOne ==
  ASSUME StampType, NEW e \in Told, Send(<<e>>)
  PROVE  wire' = Append(wire, Message(e.kind, e.at, issued + 1))
           /\ Message(e.kind, e.at, issued + 1) \in Messages
<1> DEFINE m == Message(e.kind, e.at, issued + 1)
           sent == [i \in 1..Len(<<e>>) |-> Message(<<e>>[i].kind, <<e>>[i].at, issued + 1)]
<1>1. m \in Messages
  BY DEF Message, Messages, Told, StampType, Inputs
<1>2. sent = <<m>>
  OBVIOUS
<1>3. wire' = wire \o sent /\ wire \in Seq(Messages)
  BY DEF Send, StampType
<1> HIDE DEF m, sent
<1>4. wire' = Append(wire, m)
  BY <1>1, <1>2, <1>3, AppendIsConcat
<1> QED
  BY <1>1, <1>4 DEF m

LEMMA SendsTwo ==
  ASSUME StampType, NEW d \in Told, NEW e \in Told, Send(<<d, e>>)
  PROVE  /\ wire' = Append(Append(wire, Message(d.kind, d.at, issued + 1)),
                           Message(e.kind, e.at, issued + 1))
         /\ Message(d.kind, d.at, issued + 1) \in Messages
         /\ Message(e.kind, e.at, issued + 1) \in Messages
<1> DEFINE m == Message(d.kind, d.at, issued + 1)
           n == Message(e.kind, e.at, issued + 1)
           sent == [i \in 1..Len(<<d, e>>) |-> Message(<<d, e>>[i].kind, <<d, e>>[i].at, issued + 1)]
<1>1. m \in Messages /\ n \in Messages
  BY DEF Message, Messages, Told, StampType, Inputs
<1>2. sent = <<m, n>>
  OBVIOUS
<1>3. wire' = wire \o sent /\ wire \in Seq(Messages)
  BY DEF Send, StampType
<1> HIDE DEF m, n, sent
<1>4. wire \o <<m, n>> = Append(Append(wire, m), n)
  BY <1>1, <1>3, PairIsTwo
<1> QED
  BY <1>1, <1>2, <1>3, <1>4 DEF m, n

LEMMA MessageKind == \A k, p, n : Message(k, p, n).kind = k /\ Event(k, p).kind = k /\ Event(k, p).at = p
BY DEF Message, Event

LEMMA PageInTurn ==
  IInv /\ Buttons /\ PlayerNext => ButtonType' /\ InTurn'
<1> SUFFICES ASSUME IInv, Buttons, PlayerNext PROVE ButtonType' /\ InTurn'
  OBVIOUS
<1>0. /\ mouse \in Positions /\ pending \in Places /\ Positions \subseteq Places
      /\ StampType /\ ButtonType /\ wire \in Seq(Messages)
  BY DEF IInv, Buttons, StampType, Places
<1>1. PICK b, c \in BOOLEAN :
        Leads(held, seen.down, b) /\ Leads(sdl, b, c) /\ Leads(wire, c, pressed)
  BY DEF Buttons, InTurn
<1>2. pressed \in BOOLEAN /\ pressed' \in BOOLEAN /\ UNCHANGED <<hostVars, pollVars>>
  BY <1>0 DEF PlayerNext, OnMouseMove, OnMouseEnter, FlushMove, OnMouseDown, OnMouseUp, OnButton,
              OnContextMenu, ButtonType
<1>3. ButtonType'
  BY <1>0, <1>2 DEF ButtonType, hostVars, pollVars
<1>4. SUFFICES Leads(wire', c, pressed')
  BY <1>1, <1>2, <1>3 DEF InTurn, hostVars, pollVars
<1>5. ASSUME NEW kind \in Kinds, NEW p \in Places, Send(<<Event(kind, p)>>),
             Flips(pressed, kind, pressed')
      PROVE  Leads(wire', c, pressed')
  <2> DEFINE m == Message(kind, p, issued + 1)
  <2>1. Event(kind, p) \in Told /\ Event(kind, p).kind = kind /\ Event(kind, p).at = p
    BY <1>5 DEF Event, Told
  <2>2. wire' = Append(wire, m) /\ m \in Messages
    BY <1>0, <1>5, <2>1, SendsOne
  <2>3. m.kind = kind
    BY MessageKind
  <2> HIDE DEF m
  <2> QED
    BY <1>0, <1>1, <1>2, <1>5, <2>2, <2>3, LeadsOn
<1>6. ASSUME UNCHANGED <<wire, pressed>> PROVE Leads(wire', c, pressed')
  BY <1>1, <1>6
<1>7. ASSUME NEW p \in Positions, OnMouseMove(p) \/ OnMouseEnter(p)
      PROVE  Leads(wire', c, pressed')
  <2>1. \/ UNCHANGED <<wire, pressed>>
        \/ Send(<<Event("move", p)>>) /\ Flips(pressed, "move", pressed')
    BY <1>7 DEF OnMouseMove, OnMouseEnter, Flips
  <2> QED
    BY <1>0, <1>5, <1>6, <2>1 DEF Kinds
<1>8. CASE FlushMove
  <2>1. \/ UNCHANGED <<wire, pressed>>
        \/ Send(<<Event("move", pending)>>) /\ Flips(pressed, "move", pressed')
    BY <1>8 DEF FlushMove, Flips
  <2> QED
    BY <1>0, <1>5, <1>6, <2>1 DEF Kinds
<1>9. CASE OnMouseDown \/ OnMouseUp
  <2>1. \E kind \in {"down", "up"} : Send(<<Event(kind, mouse)>>) /\ Flips(pressed, kind, pressed')
    BY <1>9 DEF OnMouseDown, OnMouseUp, OnButton, Flips
  <2> QED
    BY <1>0, <1>5, <2>1 DEF Kinds
<1>10. CASE OnContextMenu
  <2> DEFINE m == Message("down", mouse, issued + 1)
             n == Message("up", mouse, issued + 1)
  <2>1. /\ Event("down", mouse) \in Told /\ Event("up", mouse) \in Told
        /\ Send(<<Event("down", mouse), Event("up", mouse)>>)
        /\ ~pressed /\ pressed' = pressed
    BY <1>0, <1>10 DEF OnContextMenu, Event, Told, Kinds
  <2>2. wire' = Append(Append(wire, m), n) /\ m \in Messages /\ n \in Messages
    BY <1>0, <2>1, SendsTwo, MessageKind
  <2>3. Flips(pressed, m.kind, TRUE) /\ Flips(TRUE, n.kind, pressed)
    BY <2>1, MessageKind DEF Flips
  <2> HIDE DEF m, n
  <2>4. Leads(Append(wire, m), c, TRUE) /\ Append(wire, m) \in Seq(Messages)
    BY <1>0, <1>1, <1>2, <2>2, <2>3, LeadsOn, AppendProperties
  <2> QED
    BY <1>1, <1>2, <2>1, <2>2, <2>3, <2>4, LeadsOn
<1> QED
  BY <1>7, <1>8, <1>9, <1>10 DEF PlayerNext

LEMMA HandleInTurn == IInv /\ Buttons /\ HandleInput => ButtonType' /\ InTurn'
<1> SUFFICES ASSUME IInv, Buttons, HandleInput PROVE ButtonType' /\ InTurn'
  OBVIOUS
<1> DEFINE m == Head(wire)
<1>0. /\ wire \in Seq(Messages) /\ wire # <<>> /\ wire' = Tail(wire)
      /\ sdl \in Seq(Told) /\ held \in Seq(Told) /\ pressed \in BOOLEAN /\ seen.down \in BOOLEAN
      /\ UNCHANGED <<pressed, held, seen, ticked>>
  BY DEF IInv, StampType, Buttons, ButtonType, HandleInput, pageVars, pollVars
<1>1. m.at \in Places /\ m.kind \in Kinds
  <2>1. m \in Messages
    BY <1>0
  <2> QED
    BY <2>1 DEF Messages
<1>2. PICK b, c \in BOOLEAN :
        Leads(held, seen.down, b) /\ Leads(sdl, b, c) /\ Leads(wire, c, pressed)
  BY DEF Buttons, InTurn
<1>3. PICK d \in BOOLEAN : Flips(c, m.kind, d) /\ Leads(Tail(wire), d, pressed)
  BY <1>0, <1>2, LeadsFirst
<1>4. \/ m.kind = "move" /\ motion' = m.at /\ sdl' = sdl
      \/ m.kind = "down" /\ motion' = motion
           /\ sdl' = sdl \o <<Event("move", m.at), Event("down", m.at)>>
      \/ m.kind = "up" /\ motion' = motion /\ sdl' = Append(sdl, Event("up", m.at))
  BY <1>1 DEF HandleInput, Kinds
<1> HIDE DEF m
<1>5. /\ \A k \in Kinds : Event(k, m.at) \in Told
      /\ {"move", "down", "up"} = Kinds
  BY <1>1 DEF Event, Told, Kinds
<1>6. sdl' \in Seq(Told) /\ Leads(sdl', b, d)
  <2>1. CASE m.kind = "move"
    BY <1>0, <1>2, <1>3, <1>4, <2>1, MovesFlipNothing
  <2>2. CASE m.kind = "down"
    <3> DEFINE e == Event("move", m.at)
               f == Event("down", m.at)
    <3>1. e \in Told /\ f \in Told /\ e.kind = "move" /\ f.kind = "down"
      BY <1>5, MessageKind DEF Kinds
    <3>2. sdl' = sdl \o <<e, f>>
      BY <1>4, <2>2
    <3> HIDE DEF e, f
    <3>3. sdl' = Append(Append(sdl, e), f)
      BY <1>0, <3>1, <3>2, PairIsTwo
    <3>4. Append(sdl, e) \in Seq(Told) /\ Append(Append(sdl, e), f) \in Seq(Told)
      BY <1>0, <3>1
    <3>5. Leads(Append(sdl, e), b, c)
      BY <1>0, <1>2, <3>1, LeadsOn, MovesFlipNothing
    <3>6. Flips(c, f.kind, d)
      BY <1>3, <2>2, <3>1
    <3>7. Leads(Append(Append(sdl, e), f), b, d)
      BY <3>1, <3>4, <3>5, <3>6, LeadsOn
    <3> QED
      BY <3>3, <3>4, <3>7
  <2>3. CASE m.kind = "up"
    <3> DEFINE f == Event("up", m.at)
    <3>1. f \in Told /\ f.kind = "up" /\ sdl' = Append(sdl, f)
      BY <1>4, <1>5, <2>3, MessageKind DEF Kinds
    <3> HIDE DEF f
    <3>2. Append(sdl, f) \in Seq(Told) /\ Flips(c, f.kind, d)
      BY <1>0, <1>3, <2>3, <3>1
    <3> QED
      BY <1>0, <1>2, <3>1, <3>2, LeadsOn
  <2> QED
    BY <1>4, <2>1, <2>2, <2>3
<1>7. ButtonType'
  BY <1>0, <1>1, <1>4, <1>6 DEF ButtonType, Buttons
<1> QED
  BY <1>0, <1>2, <1>3, <1>6, <1>7 DEF InTurn

\* What the game is told of follows from what it saw before.
LEMMA SeenFollows ==
  ASSUME ButtonType, NEW e \in Told, NEW direct \in BOOLEAN, See(e, direct),
         NEW b \in BOOLEAN, Flips(seen.down, e.kind, b)
  PROVE  /\ seen' \in [pointer : Places, down : BOOLEAN, direct : BOOLEAN, ran : BOOLEAN,
                       quick : BOOLEAN, odd : BOOLEAN]
         /\ seen'.down = b
         /\ seen'.odd = seen.odd
         /\ seen'.quick = (seen.quick \/ (e.kind = "up" /\ ~seen.ran /\ seen.direct))
         /\ e.kind = "down" => seen'.direct = direct /\ ~seen'.ran
         /\ e.kind # "down" => seen'.direct = seen.direct /\ seen'.ran = seen.ran
<1>1. /\ e.at \in Places /\ e.kind \in Kinds
      /\ seen.down \in BOOLEAN /\ seen.direct \in BOOLEAN /\ seen.ran \in BOOLEAN
      /\ seen.quick \in BOOLEAN /\ seen.odd \in BOOLEAN
  BY DEF ButtonType, Told
<1>2. /\ seen'.pointer = e.at
      /\ seen'.down = IF e.kind = "move" THEN seen.down ELSE e.kind = "down"
      /\ seen'.direct = IF e.kind = "down" THEN direct ELSE seen.direct
      /\ seen'.ran = IF e.kind = "down" THEN FALSE ELSE seen.ran
      /\ seen'.quick = (seen.quick \/ (e.kind = "up" /\ ~seen.ran /\ seen.direct))
      /\ seen'.odd = (seen.odd \/ (e.kind = "down" /\ seen.down) \/ (e.kind = "up" /\ ~seen.down))
  BY DEF See
<1>3. seen'.down = b
  BY <1>1, <1>2 DEF Flips, Kinds
<1>4. seen'.odd = seen.odd
  BY <1>1, <1>2 DEF Flips, Kinds
<1>5. seen' \in [pointer : Places, down : BOOLEAN, direct : BOOLEAN, ran : BOOLEAN,
                 quick : BOOLEAN, odd : BOOLEAN]
  BY <1>1 DEF See
<1> QED
  BY <1>2, <1>3, <1>4, <1>5

LEMMA LeadsNowhereElse ==
  ASSUME NEW a, NEW b, Leads(<<>>, a, b)
  PROVE  a = b
BY DEF Leads

LEMMA GameInTurn == IInv /\ Buttons /\ GameNext => Buttons'
<1> SUFFICES ASSUME IInv, Buttons, GameNext PROVE Buttons'
  OBVIOUS
<1>0. /\ ButtonType /\ PressAwaitsTick /\ ~seen.odd /\ ~seen.quick
      /\ held \in Seq(Told) /\ sdl \in Seq(Told) /\ motion \in Places
      /\ seen.down \in BOOLEAN /\ seen.direct \in BOOLEAN /\ seen.ran \in BOOLEAN
      /\ seen.quick \in BOOLEAN /\ seen.odd \in BOOLEAN
      /\ pressed \in BOOLEAN /\ ticked \in BOOLEAN
  BY DEF Buttons, ButtonType, ClicksArriveWhole, ButtonsAlternate, PressSpansATick
<1>1. PICK b, c \in BOOLEAN :
        Leads(held, seen.down, b) /\ Leads(sdl, b, c) /\ Leads(wire, c, pressed)
  BY DEF Buttons, InTurn
<1>2. UNCHANGED <<pressed, wire>>
  BY DEF GameNext, PollHeld, PollMotion, PollSdl, PollHolds, PollNothing, Tick, pageVars
<1>3. ASSUME NEW e \in Told, NEW direct \in BOOLEAN, See(e, direct),
             NEW d \in BOOLEAN, Flips(seen.down, e.kind, d),
             e.kind = "up" => ticked,
             e.kind = "down" => ~direct \/ ~ticked',
             e.kind # "down" => ticked' = ticked,
             held' \in Seq(Told), sdl' \in Seq(Told), motion' \in Places, ticked' \in BOOLEAN,
             NEW b1 \in BOOLEAN, Leads(held', d, b1) /\ Leads(sdl', b1, c)
      PROVE  Buttons'
  <2>1. /\ seen' \in [pointer : Places, down : BOOLEAN, direct : BOOLEAN, ran : BOOLEAN,
                      quick : BOOLEAN, odd : BOOLEAN]
        /\ seen'.down = d
        /\ seen'.odd = seen.odd
        /\ seen'.quick = (seen.quick \/ (e.kind = "up" /\ ~seen.ran /\ seen.direct))
        /\ e.kind = "down" => seen'.direct = direct /\ ~seen'.ran
        /\ e.kind # "down" => seen'.direct = seen.direct /\ seen'.ran = seen.ran
    BY <1>0, <1>3, SeenFollows
  <2>2. ButtonType'
    BY <1>0, <1>2, <1>3, <2>1 DEF ButtonType
  <2>3. InTurn'
    BY <1>1, <1>2, <1>3, <2>1 DEF InTurn
  <2>4. PressAwaitsTick'
    BY <1>0, <1>3, <2>1 DEF PressAwaitsTick
  <2>5. ~seen'.odd /\ ~seen'.quick
    BY <1>0, <1>3, <2>1 DEF PressAwaitsTick
  <2> QED
    BY <2>2, <2>3, <2>4, <2>5 DEF Buttons, ClicksArriveWhole, ButtonsAlternate, PressSpansATick
<1>4. CASE PollHeld
  <2>1. /\ held # <<>> /\ held' = Tail(held) /\ See(Head(held), FALSE)
        /\ UNCHANGED <<sdl, motion, ticked>>
    BY <1>4 DEF PollHeld, HeldReady, hostVars
  <2>3. Head(held) \in Told /\ Tail(held) \in Seq(Told)
    BY <1>0, <2>1
  <2>4. Head(held).kind = "up" => ticked
    BY <1>4 DEF PollHeld, HeldReady, MustWait
  <2>2. PICK d \in BOOLEAN : Flips(seen.down, Head(held).kind, d) /\ Leads(Tail(held), d, b)
    BY <1>0, <1>1, <2>1, LeadsFirst
  <2> QED
    BY <1>0, <1>1, <1>3, <2>1, <2>2, <2>3, <2>4
<1>5. CASE PollMotion
  <2>1. /\ See(Event("move", motion), FALSE) /\ motion' = Nowhere
        /\ UNCHANGED <<held, sdl, ticked>>
    BY <1>5 DEF PollMotion
  <2>2. Event("move", motion) \in Told /\ Event("move", motion).kind = "move" /\ Nowhere \in Places
    BY <1>0 DEF Event, Told, Kinds, Places
  <2>3. Flips(seen.down, "move", seen.down)
    BY <1>0, MovesFlipNothing
  <2> QED
    BY <1>0, <1>1, <1>3, <2>1, <2>2, <2>3
<1>6. CASE PollSdl
  <2> DEFINE e == Head(sdl)
  <2>1. /\ sdl # <<>> /\ sdl' = Tail(sdl) /\ See(e, TRUE) /\ ~Holds(e)
        /\ ticked' = IF e.kind = "down" THEN FALSE ELSE ticked
        /\ UNCHANGED <<held, motion>>
    BY <1>6 DEF PollSdl
  <2>5. e \in Told /\ Tail(sdl) \in Seq(Told)
    BY <1>0, <2>1
  <2> HIDE DEF e
  <2>2. PICK d \in BOOLEAN : Flips(b, e.kind, d) /\ Leads(Tail(sdl), d, c)
    BY <1>0, <1>1, <2>1, LeadsFirst DEF e
  <2>3. CASE e.kind = "move"
    <3>1. d = b
      BY <2>2, <2>3, MovesFlipNothing
    <3>2. Flips(seen.down, e.kind, seen.down)
      BY <1>0, <2>3, MovesFlipNothing
    <3> QED
      BY <1>0, <1>1, <1>3, <2>1, <2>2, <2>3, <2>5, <3>1, <3>2
  <2>4. CASE e.kind # "move"
    <3>1. held = <<>> /\ (e.kind = "up" => ticked)
      BY <2>1, <2>4 DEF Holds, MustWait
    <3>2. seen.down = b
      BY <1>1, <3>1, LeadsNowhereElse
    <3>3. Leads(held', d, d)
      BY <2>1, <3>1, LeadsNowhere
    <3> QED
      BY <1>0, <1>3, <2>1, <2>2, <2>5, <3>1, <3>2, <3>3
  <2> QED
    BY <2>3, <2>4
<1>7. CASE PollHolds
  <2>1. /\ sdl # <<>> /\ sdl' = Tail(sdl) /\ held' = Append(held, Head(sdl))
        /\ Head(sdl) \in Told /\ Tail(sdl) \in Seq(Told) /\ held' \in Seq(Told)
        /\ UNCHANGED <<motion, ticked, seen>>
    BY <1>0, <1>7 DEF PollHolds
  <2>2. PICK d \in BOOLEAN : Flips(b, Head(sdl).kind, d) /\ Leads(Tail(sdl), d, c)
    BY <1>0, <1>1, <2>1, LeadsFirst
  <2>3. Leads(held', seen.down, d)
    BY <1>0, <1>1, <2>1, <2>2, LeadsOn
  <2>4. InTurn'
    BY <1>1, <1>2, <2>1, <2>2, <2>3 DEF InTurn
  <2>5. ButtonType'
    BY <1>0, <1>2, <2>1 DEF ButtonType
  <2> QED
    BY <1>0, <2>1, <2>4, <2>5
       DEF Buttons, PressAwaitsTick, ClicksArriveWhole, ButtonsAlternate, PressSpansATick
<1>8. CASE PollNothing
  <2>1. UNCHANGED <<held, sdl, motion, ticked, seen>>
    BY <1>8 DEF PollNothing, hostVars
  <2> QED
    BY <1>2, <2>1 DEF Buttons, ButtonType, InTurn, PressAwaitsTick, ClicksArriveWhole,
                      ButtonsAlternate, PressSpansATick
<1>9. CASE Tick
  <2>1. /\ ticked' = TRUE /\ seen' = [seen EXCEPT !.ran = TRUE]
        /\ UNCHANGED <<held, sdl, motion>>
    BY <1>9 DEF Tick, hostVars
  <2>2. /\ seen' \in [pointer : Places, down : BOOLEAN, direct : BOOLEAN, ran : BOOLEAN,
                      quick : BOOLEAN, odd : BOOLEAN]
        /\ seen'.down = seen.down /\ seen'.odd = seen.odd /\ seen'.quick = seen.quick /\ seen'.ran
    BY <1>0, <2>1 DEF ButtonType
  <2>3. ButtonType'
    BY <1>0, <1>2, <2>1, <2>2 DEF ButtonType
  <2>4. InTurn'
    BY <1>1, <1>2, <2>1, <2>2 DEF InTurn
  <2> QED
    BY <1>0, <2>2, <2>3, <2>4
       DEF Buttons, PressAwaitsTick, ClicksArriveWhole, ButtonsAlternate, PressSpansATick
<1> QED
  BY <1>4, <1>5, <1>6, <1>7, <1>8, <1>9 DEF GameNext

LEMMA ButtonsInvariant == Spec => [](IInv /\ Buttons)
<1>1. Init => Buttons
  <2> SUFFICES ASSUME Init PROVE Buttons
    OBVIOUS
  <2>1. ButtonType
    <3>1. seen \in [pointer : Places, down : BOOLEAN, direct : BOOLEAN, ran : BOOLEAN,
                    quick : BOOLEAN, odd : BOOLEAN]
      BY DEF Init, Places
    <3>2. held \in Seq(Told) /\ sdl \in Seq(Told)
      BY EmptySeq DEF Init
    <3> QED
      BY <3>1, <3>2 DEF Init, ButtonType, Places
  <2>2. InTurn
    <3>1. held = <<>> /\ sdl = <<>> /\ wire = <<>> /\ seen.down = FALSE /\ pressed = FALSE
      BY DEF Init
    <3> QED
      BY <3>1, LeadsNowhere DEF InTurn
  <2> QED
    BY <2>1, <2>2 DEF Init, Buttons, PressAwaitsTick, ClicksArriveWhole, ButtonsAlternate,
                      PressSpansATick
<1>2. IInv /\ Buttons /\ [Next]_vars => Buttons'
  <2> SUFFICES ASSUME IInv, Buttons, [Next]_vars PROVE Buttons'
    OBVIOUS
  <2>1. CASE PlayerNext \/ HandleInput
    <3>1. ButtonType' /\ InTurn'
      BY <2>1, PageInTurn, HandleInTurn
    <3>2. UNCHANGED pollVars
      BY <2>1 DEF PlayerNext, OnMouseMove, OnMouseEnter, FlushMove, OnMouseDown, OnMouseUp,
                  OnButton, OnContextMenu, HandleInput
    <3> QED
      BY <3>1, <3>2 DEF Buttons, PressAwaitsTick, ClicksArriveWhole, ButtonsAlternate,
                        PressSpansATick, pollVars
  <2>2. CASE StampNext \/ UNCHANGED vars
    <3>1. UNCHANGED <<pressed, wire, held, sdl, motion, ticked, seen>>
      BY <2>2 DEF StampNext, Claim, SettleFrame, SettleNothing, Expire, PaintAnswer, vars,
                  pageVars, hostVars, pollVars
    <3> QED
      BY <3>1 DEF Buttons, ButtonType, InTurn, PressAwaitsTick, ClicksArriveWhole,
                  ButtonsAlternate, PressSpansATick
  <2> QED
    BY <2>1, <2>2, GameInTurn DEF Next
<1> QED
  BY <1>1, <1>2, StampsInvariant, PTL DEF Spec

\* However fast and however many the clicks are, and wherever they are held
\* back: the game is told of presses and releases in turn, and of no release
\* before it ran with a press it took from the queue itself.
THEOREM ClicksAlwaysArriveWhole == Spec => []ClicksArriveWhole
<1>1. Buttons => ClicksArriveWhole
  BY DEF Buttons
<1> QED
  BY <1>1, ButtonsInvariant, PTL

\* The safe half of ButtonSettles: whenever no input is under way or held back,
\* the game sees the button as the player holds it.
ButtonAgrees == wire = <<>> /\ sdl = <<>> /\ held = <<>> => seen.down = pressed

\* It holds of any number of clicks, held back or not, on any poll.
THEOREM ButtonAlwaysAgrees == Spec => []ButtonAgrees
<1>1. Buttons => ButtonAgrees
  BY LeadsNowhereElse DEF Buttons, InTurn, ButtonAgrees
<1> QED
  BY <1>1, ButtonsInvariant, PTL

-----------------------------------------------------------------------------
(* The wheel and the keys                                                  *)

\* Types of what a turn of the wheel touches.
WheelEvent == [x : Int, y : Int, delta : Int, idle : BOOLEAN]
Item == [x : Int, y : Int, score : Int]
Line == [moved : Nat, paid : Nat]

WheelType ==
  /\ turned \in Seq(Turns)
  /\ wheel.ring.memory \in [0..4 -> Item]
  /\ wheel.acc \in Int /\ wheel.smooth \in BOOLEAN
  /\ wheel.sent \in Seq(Int) /\ Len(wheel.sent) = Len(turned)
  /\ ledger \in Seq(Line) /\ Len(ledger) = Len(turned)
  /\ typed \in Seq(Keys)

\* Once something was turned, the ring holds the last five events, or all, the
\* newest at rear and the oldest at front, each with the score it was given.
RingHolds(ring, s) ==
  IF s = <<>> THEN ring.front = NoIndex
  ELSE /\ ring.front \in 0..4 /\ ring.rear \in 0..4
       /\ Ages(ring) = Smaller(Len(s), RingSize) - 1
       /\ \A age \in 0..Ages(ring) :
            LET at == ring.memory[(ring.rear - age + RingSize) % RingSize]
            IN  /\ at.x = s[Len(s) - age].x
                /\ at.y = s[Len(s) - age].y
                /\ at.score = Score(s, Len(s) - age)

-----------------------------------------------------------------------------
\* Places of the ring.
LEMMA Places5 ==
  ASSUME NEW r \in 0..4, NEW a \in 0..4
  PROVE  /\ (r - a + RingSize) % RingSize = IF a <= r THEN r - a ELSE r - a + 5
         /\ (r + 1) % RingSize = IF r = 4 THEN 0 ELSE r + 1
  BY DEF RingSize

\* Turning the ring on by one makes each event one older, in the same place.
LEMMA TurnedOn ==
  ASSUME NEW r \in 0..4, NEW a \in 1..4
  PROVE  LET p == (r - (a - 1) + RingSize) % RingSize
             q == (r + 1) % RingSize
         IN  p = (q - a + RingSize) % RingSize /\ p # q /\ p \in 0..4
  BY DEF RingSize

\* Scores are numbers.
LEMMA ScoreIsInt ==
  ASSUME NEW item, NEW previous
  PROVE  ComputeScore(item, previous) \in Int
  BY DEF ComputeScore, Larger

\* A score asks of the event before only where it went.
LEMMA ScoreOfLike ==
  ASSUME NEW item, NEW p, NEW q, p.x = q.x, p.y = q.y
  PROVE  ComputeScore(item, <<p>>) = ComputeScore(item, <<q>>)
  BY DEF ComputeScore

\* Later events change no earlier score.
LEMMA ScoreKept ==
  ASSUME NEW s \in Seq(WheelEvent), NEW e \in WheelEvent, NEW i \in 1..Len(s)
  PROVE  Score(Append(s, e), i) = Score(s, i)
<1>1. Append(s, e)[i] = s[i] /\ (i # 1 => Append(s, e)[i - 1] = s[i - 1])
  OBVIOUS
<1> QED
  BY <1>1 DEF Score

\* The ring stays a ring.
LEMMA AcceptedType ==
  ASSUME NEW ring, ring.memory \in [0..4 -> Item], NEW e \in WheelEvent
  PROVE  Accept(ring, e).memory \in [0..4 -> Item]
<1> DEFINE rear == IF ring.front = NoIndex THEN 0 ELSE (ring.rear + 1) % RingSize
           score == ComputeScore(e, IF ring.front = NoIndex THEN <<>> ELSE <<ring.memory[ring.rear]>>)
           new == [x |-> e.x, y |-> e.y, score |-> score]
<1>1. Accept(ring, e).memory = [ring.memory EXCEPT ![rear] = new]
  BY DEF Accept
<1>2. new \in Item
  BY ScoreIsInt DEF Item, WheelEvent
<1> HIDE DEF new, rear
<1> QED
  BY <1>1, <1>2

\* How far the ring reaches back, one place on.
Reach(f, r) == IF f <= r THEN r - f ELSE r - f + 5
NextPlace(r) == IF r = 4 THEN 0 ELSE r + 1
LEMMA ReachesBack ==
  ASSUME NEW f \in 0..4, NEW r \in 0..4, NEW n \in Nat \ {0}, Reach(f, r) = Smaller(n, 5) - 1
  PROVE  Reach(IF NextPlace(r) = f THEN NextPlace(f) ELSE f, NextPlace(r)) = Smaller(n + 1, 5) - 1
<1>1. CASE n < 5
  <2>1. Smaller(n, 5) = n /\ Smaller(n + 1, 5) = n + 1
    BY <1>1 DEF Smaller
  <2> QED
    BY <1>1, <2>1 DEF Reach, NextPlace
<1>2. CASE ~(n < 5)
  <2>1. Smaller(n, 5) = 5 /\ Smaller(n + 1, 5) = 5
    BY <1>2 DEF Smaller
  <2> QED
    BY <2>1 DEF Reach, NextPlace
<1> QED
  BY <1>1, <1>2

\* accept keeps the last five events, whatever was in the ring.
LEMMA Accepted ==
  ASSUME NEW ring, ring.memory \in [0..4 -> Item],
         NEW s \in Seq(WheelEvent), RingHolds(ring, s), NEW e \in WheelEvent
  PROVE  /\ Accept(ring, e).memory \in [0..4 -> Item]
         /\ RingHolds(Accept(ring, e), Append(s, e))
<1> DEFINE t == Append(s, e)
           n == Len(s)
           empty == ring.front = NoIndex
           rear == IF empty THEN 0 ELSE (ring.rear + 1) % RingSize
           front == IF empty THEN 0
                    ELSE IF rear = ring.front THEN (ring.front + 1) % RingSize ELSE ring.front
           score == ComputeScore(e, IF empty THEN <<>> ELSE <<ring.memory[ring.rear]>>)
           new == [x |-> e.x, y |-> e.y, score |-> score]
           r == Accept(ring, e)
<1>1. /\ n \in Nat /\ Len(t) = n + 1 /\ t \in Seq(WheelEvent) /\ t # <<>> /\ t[n + 1] = e
      /\ \A i \in 1..n : t[i] = s[i]
      /\ (s = <<>> <=> n = 0)
  OBVIOUS
<1>2. r.memory = [ring.memory EXCEPT ![rear] = new] /\ r.front = front /\ r.rear = rear
  BY DEF Accept
<1>3. empty <=> n = 0
  BY <1>1 DEF RingHolds, NoIndex
<1>4. new \in Item
  BY ScoreIsInt DEF Item, WheelEvent
<1>5. ~empty => ring.front \in 0..4 /\ ring.rear \in 0..4 /\ Ages(ring) = Smaller(n, 5) - 1
  BY <1>1, <1>3 DEF RingHolds, RingSize
<1>6. /\ rear \in 0..4 /\ front \in 0..4
      /\ ~empty => rear = IF ring.rear = 4 THEN 0 ELSE ring.rear + 1
  <2>1. CASE empty
    BY <2>1
  <2>2. CASE ~empty
    <3>1. rear = IF ring.rear = 4 THEN 0 ELSE ring.rear + 1
      BY <1>5, <2>2, Places5
    <3>2. (ring.front + 1) % RingSize = IF ring.front = 4 THEN 0 ELSE ring.front + 1
      BY <1>5, <2>2, Places5
    <3> QED
      BY <1>5, <2>2, <3>1, <3>2
  <2> QED
    BY <2>1, <2>2
<1>7. Ages(r) = Smaller(n + 1, 5) - 1
  <2>1. Ages(r) = IF front <= rear THEN rear - front ELSE rear - front + 5
    BY <1>2, <1>6, Places5 DEF Ages
  <2>2. CASE empty
    BY <1>1, <1>3, <2>1, <2>2 DEF Smaller
  <2>3. CASE ~empty
    <3>1. Ages(ring) = IF ring.front <= ring.rear THEN ring.rear - ring.front ELSE ring.rear - ring.front + 5
      BY <1>5, <2>3, Places5 DEF Ages
    <3>2. (ring.front + 1) % RingSize = IF ring.front = 4 THEN 0 ELSE ring.front + 1
      BY <1>5, <2>3, Places5
    <3>3. front = IF rear = ring.front THEN (IF ring.front = 4 THEN 0 ELSE ring.front + 1) ELSE ring.front
      BY <2>3, <3>2
    <3> HIDE DEF front, rear
    <3> QED
      <4>1. n \in Nat \ {0} /\ ring.front \in 0..4 /\ ring.rear \in 0..4
        BY <1>1, <1>3, <1>5, <2>3
      <4>2. Reach(ring.front, ring.rear) = Smaller(n, 5) - 1
        BY <1>5, <2>3, <3>1 DEF Reach
      <4>3. rear = NextPlace(ring.rear)
        BY <1>6, <2>3 DEF NextPlace
      <4>4. front = IF rear = ring.front THEN NextPlace(ring.front) ELSE ring.front
        BY <3>3 DEF NextPlace
      <4>5. Reach(front, rear) = Smaller(n + 1, 5) - 1
        <5> HIDE DEF n
        <5> QED
          BY <4>1, <4>2, <4>3, <4>4, ReachesBack
      <4>6. Ages(r) = Reach(front, rear)
        BY <2>1 DEF Reach
      <4> QED
        BY <4>5, <4>6
  <2> QED
    BY <2>2, <2>3
<1>8. r.memory \in [0..4 -> Item]
  BY <1>2, <1>4, <1>6
<1> HIDE DEF new, front, rear
<1>9. ASSUME NEW age \in 0..Ages(r)
      PROVE  LET at == r.memory[(r.rear - age + RingSize) % RingSize]
             IN  /\ at.x = t[Len(t) - age].x
                 /\ at.y = t[Len(t) - age].y
                 /\ at.score = Score(t, Len(t) - age)
  <2>0. age \in 0..4 /\ Len(t) - age = n + 1 - age /\ n + 1 - age \in 1..n + 1
    BY <1>1, <1>7 DEF Smaller
  <2>1. CASE age = 0
    <3>1. (r.rear - age + RingSize) % RingSize = rear
      BY <1>2, <1>6, <2>1, Places5
    <3>2. r.memory[rear] = new
      BY <1>2, <1>6, <1>8
    <3>3. score = Score(t, n + 1)
      <4>1. CASE n = 0
        BY <1>1, <1>3, <4>1 DEF Score
      <4>2. CASE n # 0
        <5>1. 0 \in 0..Ages(ring) /\ (ring.rear - 0 + RingSize) % RingSize = ring.rear
          BY <1>1, <1>3, <1>5, <4>2, Places5 DEF Smaller
        <5>2. ring.memory[ring.rear].x = s[n].x /\ ring.memory[ring.rear].y = s[n].y
          BY <1>1, <4>2, <5>1 DEF RingHolds
        <5>3. score = ComputeScore(e, <<s[n]>>)
          BY <1>3, <4>2, <5>2, ScoreOfLike
        <5> QED
          BY <1>1, <4>2, <5>3 DEF Score
      <4> QED
        BY <4>1, <4>2
    <3> QED
      BY <1>1, <2>0, <2>1, <3>1, <3>2, <3>3 DEF new
  <2>2. CASE age # 0
    <3>1. ~empty /\ age - 1 \in 0..Ages(ring) /\ age - 1 \in 0..4 /\ n - (age - 1) = n + 1 - age
          /\ n + 1 - age \in 1..n
      BY <1>1, <1>3, <1>5, <1>7, <2>0, <2>2 DEF Smaller
    <3> DEFINE p == (ring.rear - (age - 1) + RingSize) % RingSize
    <3>2. p = (r.rear - age + RingSize) % RingSize /\ p # rear /\ p \in 0..4
      <4>1. age \in 1..4 /\ ring.rear \in 0..4
        BY <1>5, <2>0, <2>2, <3>1
      <4>2. r.rear = (ring.rear + 1) % RingSize /\ rear = r.rear
        BY <1>2, <3>1 DEF rear
      <4> QED
        BY <4>1, <4>2, TurnedOn
    <3> HIDE DEF p
    <3>3. r.memory[p] = ring.memory[p]
      BY <1>2, <3>2
    <3>4. /\ ring.memory[p].x = s[n + 1 - age].x
          /\ ring.memory[p].y = s[n + 1 - age].y
          /\ ring.memory[p].score = Score(s, n + 1 - age)
      BY <1>1, <1>3, <3>1 DEF RingHolds, p
    <3>5. Score(t, n + 1 - age) = Score(s, n + 1 - age)
      BY <3>1, ScoreKept
    <3> QED
      BY <1>1, <2>0, <3>1, <3>2, <3>3, <3>4, <3>5
  <2> QED
    BY <2>1, <2>2
<1> QED
  BY <1>1, <1>2, <1>6, <1>7, <1>8, <1>9 DEF RingHolds, RingSize

\* What is judged from such a ring is what the last five events say.
LEMMA JudgedSo ==
  ASSUME WheelType, turned \in Seq(WheelEvent), RingHolds(wheel.ring, turned)
  PROVE  JudgedByTheLastFive
<1> DEFINE n == Len(turned)
           oldest == Smaller(n, RingSize) - 1
           weighed(age) == IF age > oldest THEN 0
                           ELSE Score(turned, n - age)
                                  * (IF age = oldest THEN 16 \div 2^age ELSE 8 \div 2^age)
           ring == wheel.ring
           given(age) == IF age > Ages(ring) THEN 0
                         ELSE ring.memory[(ring.rear - age + RingSize) % RingSize].score
                                * Influence(age, Ages(ring))
<1> SUFFICES ASSUME turned # <<>>
             PROVE  IsPhysicalMouseWheel(ring) <=>
                      weighed(0) + weighed(1) + weighed(2) + weighed(3) + weighed(4) <= 32
  BY DEF JudgedByTheLastFive
<1>1. ring.front # NoIndex /\ Ages(ring) = oldest /\ oldest \in 0..4
  <2>1. n \in Nat /\ n # 0
    OBVIOUS
  <2>2. ring.front \in 0..4 /\ Ages(ring) = oldest
    BY DEF RingHolds
  <2> HIDE DEF n
  <2>3. Smaller(n, RingSize) \in 1..5
    BY <2>1 DEF Smaller, RingSize
  <2>4. ring.front # NoIndex
    BY <2>2 DEF NoIndex
  <2> HIDE DEF ring
  <2> QED
    BY <2>2, <2>3, <2>4
<1>2. ASSUME NEW age \in 0..4
      PROVE  given(age) = weighed(age)
  <2>1. CASE age > oldest
    BY <1>1, <2>1
  <2>2. CASE ~(age > oldest)
    <3>1. age \in 0..Ages(ring)
      BY <1>1, <2>2
    <3>2. ring.memory[(ring.rear - age + RingSize) % RingSize].score = Score(turned, n - age)
      BY <3>1 DEF RingHolds
    <3> QED
      BY <1>1, <2>2, <3>2 DEF Influence
  <2> QED
    BY <2>1, <2>2
<1>3. given(0) = weighed(0) /\ given(1) = weighed(1) /\ given(2) = weighed(2)
      /\ given(3) = weighed(3) /\ given(4) = weighed(4)
  BY <1>2
<1>4. IsPhysicalMouseWheel(ring) <=> given(0) + given(1) + given(2) + given(3) + given(4) <= 32
  BY <1>1 DEF IsPhysicalMouseWheel
<1> HIDE DEF given, weighed
<1> QED
  BY <1>3, <1>4

\* What a smooth stretch has paid and left is what it has moved.
Fair(i) ==
  LET now == Before(Len(turned) + 1)
      paid == now.paid - Before(i).paid
      moved == now.moved - Before(i).moved
  IN  /\ paid >= 0
      /\ paid * SCROLL_THRESHOLD + Abs(wheel.acc) <= moved
      /\ paid = 0 => moved = Abs(wheel.acc)

NotchInv ==
  /\ \A i \in DOMAIN turned : wheel.sent[i] * turned[i].delta >= 0
  /\ Abs(wheel.acc) < SCROLL_THRESHOLD
  /\ turned = <<>> => wheel.acc = 0
  /\ wheel.smooth =>
       /\ \A i \in DOMAIN turned : i = Len(turned) => wheel.acc * turned[i].delta >= 0
       /\ \A i \in DOMAIN turned : StretchFrom(i) => Fair(i)

\* Signs of products.
LEMMA Signs ==
  ASSUME NEW a \in Int, NEW b \in Int
  PROVE  /\ a * b > 0 <=> (a > 0 /\ b > 0) \/ (a < 0 /\ b < 0)
         /\ a * b < 0 <=> (a > 0 /\ b < 0) \/ (a < 0 /\ b > 0)
         /\ a * b >= 0 <=> (a >= 0 /\ b >= 0) \/ (a <= 0 /\ b <= 0)
         /\ a * b \in Int
  OBVIOUS

\* How often a movement covers the threshold.
LEMMA Thresholds ==
  ASSUME NEW a \in Int
  PROVE  LET n == Abs(a) \div SCROLL_THRESHOLD
         IN  /\ n \in Nat /\ n * SCROLL_THRESHOLD <= Abs(a) /\ Abs(a) \in Nat
             /\ n = 0 => Abs(a) < SCROLL_THRESHOLD
             /\ Abs(n) = n /\ Abs(-n) = n
  BY DEF Abs, SCROLL_THRESHOLD

\* What an event makes of the accumulator and how many notches it sends.
Outcome(state, event, after, k) ==
  LET kept == IF event.idle THEN 0 ELSE state.acc
      acc == Accumulate(kept, event.delta)
  IN  /\ after.sent = Append(state.sent, k) /\ k \in Int /\ k * event.delta >= 0
      /\ after.acc \in Int /\ Abs(after.acc) < SCROLL_THRESHOLD
      /\ after.smooth \in BOOLEAN
      /\ after.smooth =>
           /\ state.smooth
           /\ \/ event.delta = 0 /\ k = 0 /\ after.acc = kept
              \/ event.delta # 0 /\ k = 0 /\ after.acc = acc
              \/ event.delta # 0 /\ k # 0 /\ after.acc = 0 /\ Abs(k) * SCROLL_THRESHOLD <= Abs(acc)

\* Whatever the ring says, an event has such an outcome.
LEMMA Wheeled ==
  ASSUME NEW state, state.acc \in Int, Abs(state.acc) < SCROLL_THRESHOLD, state.smooth \in BOOLEAN,
         NEW event \in WheelEvent, event.y * event.delta >= 0
  PROVE  \E k : Outcome(state, event, OnWheel(state, event), k)
<1> DEFINE ring == Accept(state.ring, event)
           notched == IsPhysicalMouseWheel(ring)
           kept == IF event.idle THEN 0 ELSE state.acc
           acc == Accumulate(kept, event.delta)
           n == Abs(acc) \div SCROLL_THRESHOLD
           after == OnWheel(state, event)
           notch == IF event.y > 0 \/ (event.y = 0 /\ event.delta > 0) THEN 1 ELSE -1
           k == IF notched THEN notch
                ELSE IF event.delta = 0 THEN 0
                ELSE IF n > 0 THEN (IF acc < 0 THEN -n ELSE n) ELSE 0
<1>1. /\ after.sent = Append(state.sent, k)
      /\ after.smooth = (state.smooth /\ ~notched)
      /\ after.acc = IF notched THEN kept ELSE IF event.delta = 0 THEN kept ELSE IF n > 0 THEN 0 ELSE acc
  BY DEF OnWheel
<1>2. event.delta \in Int /\ event.y \in Int /\ kept \in Int /\ Abs(kept) < SCROLL_THRESHOLD
  BY DEF WheelEvent, Abs, SCROLL_THRESHOLD
<1>3. notched \in BOOLEAN
  BY DEF IsPhysicalMouseWheel
<1> HIDE DEF kept, notched, after
<1>4. acc \in Int /\ (event.delta > 0 => acc > 0) /\ (event.delta < 0 => acc < 0)
  BY <1>2, Signs DEF Accumulate
<1> HIDE DEF acc
<1>5. n \in Nat /\ n * SCROLL_THRESHOLD <= Abs(acc) /\ (n = 0 => Abs(acc) < SCROLL_THRESHOLD)
      /\ Abs(n) = n /\ Abs(-n) = n
  BY <1>4, Thresholds
<1> HIDE DEF n
<1>6. k \in Int
  BY <1>5
<1>7. notch * event.delta >= 0 /\ notch \in Int
  BY <1>2, Signs
<1>8. (event.delta # 0 => (IF acc < 0 THEN -n ELSE n) * event.delta >= 0) /\ 0 * event.delta >= 0
  BY <1>2, <1>4, <1>5, Signs
<1>9. k * event.delta >= 0
  BY <1>7, <1>8
<1>10. after.acc \in Int /\ Abs(after.acc) < SCROLL_THRESHOLD
  <2>1. Abs(0) < SCROLL_THRESHOLD
    BY DEF Abs, SCROLL_THRESHOLD
  <2> QED
    BY <1>1, <1>2, <1>4, <1>5, <2>1
<1>11. after.smooth \in BOOLEAN /\ (after.smooth => state.smooth /\ ~notched)
  BY <1>1, <1>3
<1>12. ASSUME ~notched
       PROVE  \/ event.delta = 0 /\ k = 0 /\ after.acc = kept
              \/ event.delta # 0 /\ k = 0 /\ after.acc = acc
              \/ event.delta # 0 /\ k # 0 /\ after.acc = 0 /\ Abs(k) * SCROLL_THRESHOLD <= Abs(acc)
  BY <1>1, <1>5, <1>12
<1> HIDE DEF k
<1>13. Outcome(state, event, after, k)
  BY <1>1, <1>6, <1>9, <1>10, <1>11, <1>12 DEF Outcome, kept, acc
<1> QED
  BY <1>13 DEF after

\* What the wheel turns by.
LEMMA TurnsAreEvents == Turns \subseteq WheelEvent /\ \A t \in Turns : t.y * t.delta >= 0
  BY WheelAssumption DEF WheelEvent

\* Movements that go the same way are movements.
LEMMA NotStill ==
  ASSUME NEW a \in Int, NEW b \in Int, a * b > 0
  PROVE  a # 0
  BY Signs

\* What is left from before a change of direction is against it.
LEMMA TurnsBack ==
  ASSUME NEW a \in Int, NEW b \in Int, NEW c \in Int, a * b < 0, c * b >= 0
  PROVE  c = 0 \/ c * a < 0
<1>1. (a > 0 /\ b < 0) \/ (a < 0 /\ b > 0)
  BY Signs
<1>2. (c >= 0 /\ b >= 0) \/ (c <= 0 /\ b <= 0)
  BY Signs
<1>3. c = 0 \/ (c > 0 /\ a < 0) \/ (c < 0 /\ a > 0)
  BY <1>1, <1>2
<1> QED
  BY <1>3, Signs

\* What is left within a stretch goes its way.
LEMMA GoesOn ==
  ASSUME NEW a \in Int, NEW b \in Int, NEW c \in Int, NEW d \in Int,
         a * b > 0, c * b > 0, d * c >= 0
  PROVE  ((a > 0 /\ d >= 0) \/ (a < 0 /\ d <= 0)) /\ ~(d * a < 0)
<1>1. (a > 0 /\ b > 0) \/ (a < 0 /\ b < 0)
  BY Signs
<1>2. (c > 0 /\ b > 0) \/ (c < 0 /\ b < 0)
  BY Signs
<1>3. (d >= 0 /\ c >= 0) \/ (d <= 0 /\ c <= 0)
  BY Signs
<1>4. (a > 0 /\ d >= 0) \/ (a < 0 /\ d <= 0)
  BY <1>1, <1>2, <1>3
<1>5. ~(d * a < 0)
  BY <1>4, Signs
<1> QED
  BY <1>4, <1>5

\* What is accumulated with an event has its direction.
LEMMA AccumulatesThatWay ==
  ASSUME NEW a \in Int, NEW d \in Int
  PROVE  (d > 0 => Accumulate(a, d) > 0) /\ (d < 0 => Accumulate(a, d) < 0)
<1>1. a * d < 0 <=> (a > 0 /\ d < 0) \/ (a < 0 /\ d > 0)
  BY Signs
<1>2. CASE a * d < 0
  BY <1>2 DEF Accumulate
<1>3. CASE ~(a * d < 0)
  <2>1. Accumulate(a, d) = a + d
    BY <1>3 DEF Accumulate
  <2>2. ~((a > 0 /\ d < 0) \/ (a < 0 /\ d > 0))
    BY <1>1, <1>3
  <2> HIDE <1>1, <1>3
  <2> QED
    BY <2>1, <2>2
<1> QED
  BY <1>2, <1>3

\* A turn of the wheel keeps the account.
LEMMA NotchStep ==
  ASSUME WheelType, NotchInv, NEW e \in Turns, Turned(e)
  PROVE  WheelType' /\ NotchInv'
<1>0. PICK n : n = Len(turned)
  OBVIOUS
<1> DEFINE kept == IF e.idle THEN 0 ELSE wheel.acc
           acc == Accumulate(kept, e.delta)
<1>1. /\ turned' = Append(turned, e) /\ wheel' = OnWheel(wheel, e) /\ typed' = typed
      /\ e \in WheelEvent /\ e.delta \in Int /\ e.idle \in BOOLEAN /\ wheel.acc \in Int
  BY TurnsAreEvents DEF Turned, WheelEvent, WheelType
<1>2. PICK k : Outcome(wheel, e, wheel', k)
  BY <1>1, Wheeled, TurnsAreEvents DEF WheelType, NotchInv
<1>3. /\ k \in Int /\ k * e.delta >= 0 /\ Abs(k) \in Nat /\ Abs(e.delta) \in Nat
      /\ wheel'.sent = Append(wheel.sent, k)
      /\ wheel'.acc \in Int /\ Abs(wheel'.acc) < SCROLL_THRESHOLD /\ wheel'.smooth \in BOOLEAN
  BY <1>1, <1>2 DEF Outcome, Abs
<1>4. /\ n \in Nat /\ turned' \in Seq(Turns) /\ Len(turned') = n + 1 /\ DOMAIN turned' = 1..n + 1
      /\ turned'[n + 1] = e /\ \A i \in 1..n : turned'[i] = turned[i]
      /\ DOMAIN turned = 1..n
  BY <1>0, <1>1 DEF WheelType
<1>40. ASSUME NEW j \in 1..n + 1
      PROVE  turned'[j].delta \in Int /\ (j # n + 1 => j \in 1..n /\ turned'[j] = turned[j])
  <2>1. turned'[j] \in Turns
    BY <1>4
  <2> QED
    <3>1. turned'[j] \in WheelEvent
      BY <2>1, TurnsAreEvents
    <3>2. j # n + 1 => j \in 1..n
      BY <1>4
    <3> QED
      BY <1>4, <3>1, <3>2 DEF WheelEvent
<1>5. /\ wheel'.sent \in Seq(Int) /\ Len(wheel'.sent) = n + 1 /\ wheel'.sent[n + 1] = k
      /\ \A i \in 1..n : wheel'.sent[i] = wheel.sent[i]
  BY <1>0, <1>3 DEF WheelType
<1> DEFINE so == Before(n + 1)
           line == [moved |-> so.moved + Abs(e.delta), paid |-> so.paid + Abs(k)]
<1>6. ledger' = Append(ledger, line)
  BY <1>0, <1>5 DEF Turned
<1>7. so \in Line /\ \A i \in 1..n + 1 : Before(i) \in Line
  <2>1. \A i \in 1..n : ledger[i] \in Line
    BY <1>0 DEF WheelType
  <2>2. [moved |-> 0, paid |-> 0] \in Line
    BY DEF Line
  <2>3. ASSUME NEW i \in 1..n + 1 PROVE Before(i) \in Line
    <3>1. i = 1 \/ i - 1 \in 1..n
      BY <1>4
    <3> QED
      BY <2>1, <2>2, <3>1 DEF Before
  <2> QED
    BY <1>4, <2>3
<1>8. line \in Line
  BY <1>3, <1>7 DEF Line
<1> HIDE DEF line
<1>9. /\ ledger' \in Seq(Line) /\ Len(ledger') = n + 1 /\ ledger'[n + 1] = line
      /\ \A i \in 1..n : ledger'[i] = ledger[i]
  BY <1>0, <1>6, <1>8 DEF WheelType
<1>10. Before(n + 2)' = line /\ \A i \in 1..n + 1 : Before(i)' = Before(i)
  <2>1. n + 2 # 1 /\ (n + 2) - 1 = n + 1
    BY <1>4
  <2>2. ASSUME NEW i \in 1..n + 1, i # 1 PROVE i - 1 \in 1..n
    BY <1>4, <2>2
  <2> QED
    BY <1>9, <2>1, <2>2 DEF Before
<1>11. wheel'.ring.memory \in [0..4 -> Item]
  <2>1. wheel'.ring = Accept(wheel.ring, e)
    BY <1>1 DEF OnWheel
  <2> QED
    BY <1>1, <2>1, AcceptedType DEF WheelType
<1>12. WheelType'
  BY <1>1, <1>3, <1>4, <1>5, <1>9, <1>11 DEF WheelType
<1>13. \A i \in DOMAIN turned' : wheel'.sent[i] * turned'[i].delta >= 0
  BY <1>3, <1>4, <1>5 DEF NotchInv
<1>14. ASSUME wheel'.smooth
       PROVE  /\ \A i \in DOMAIN turned' : i = Len(turned') => wheel'.acc * turned'[i].delta >= 0
              /\ \A i \in DOMAIN turned' : StretchFrom(i)' => Fair(i)'
  <2>1. /\ wheel.smooth
        /\ \/ e.delta = 0 /\ k = 0 /\ wheel'.acc = kept
           \/ e.delta # 0 /\ k = 0 /\ wheel'.acc = acc
           \/ e.delta # 0 /\ k # 0 /\ wheel'.acc = 0 /\ Abs(k) * SCROLL_THRESHOLD <= Abs(acc)
    BY <1>2, <1>14 DEF Outcome
  <2>2. kept \in Int /\ acc \in Int
    BY <1>1, Signs DEF Accumulate
  <2>3. /\ e.delta > 0 => acc > 0
        /\ e.delta < 0 => acc < 0
    BY <1>1, <2>2, AccumulatesThatWay
  <2>4. wheel'.acc * e.delta >= 0
    BY <1>1, <1>3, <2>1, <2>2, <2>3, Signs
  <2>5. ASSUME NEW i \in 1..n + 1, StretchFrom(i)'
        PROVE  Fair(i)'
    <3>1. /\ \A j \in i..n + 1 : turned'[j].delta * turned'[i].delta > 0
          /\ \A j \in i + 1..n + 1 : ~turned'[j].idle
          /\ i = 1 \/ turned'[i].idle \/ turned'[i].delta * turned'[i - 1].delta < 0
      BY <1>4, <2>5 DEF StretchFrom
    <3> DEFINE now == Before(n + 1)
               paid == now.paid - Before(i).paid
               moved == now.moved - Before(i).moved
    <3>2. /\ paid \in Int /\ moved \in Int
          /\ Fair(i)' <=> /\ paid + Abs(k) >= 0
                          /\ (paid + Abs(k)) * SCROLL_THRESHOLD + Abs(wheel'.acc) <= moved + Abs(e.delta)
                          /\ paid + Abs(k) = 0 => moved + Abs(e.delta) = Abs(wheel'.acc)
      <4>1. /\ Before(n + 1) \in Line /\ Before(i) \in Line
            /\ line.paid = now.paid + Abs(k) /\ line.moved = now.moved + Abs(e.delta)
        BY <1>7 DEF line
      <4>2. /\ line.paid - Before(i).paid = paid + Abs(k)
            /\ line.moved - Before(i).moved = moved + Abs(e.delta)
            /\ paid \in Int /\ moved \in Int
        BY <1>3, <4>1 DEF Line
      <4>3. Before(Len(turned) + 1)' = line /\ Before(i)' = Before(i)
        <5>1. Before(Len(turned) + 1)' = Before(n + 2)'
          BY <1>4 DEF Before
        <5> QED
          BY <1>10, <5>1
      <4> HIDE DEF paid, moved
      <4> QED
        BY <4>2, <4>3 DEF Fair
    <3>3. e.delta # 0
      <4>1. n + 1 \in i..n + 1 /\ turned'[i].delta \in Int
        BY <1>4, <1>40
      <4>2. e.delta * turned'[i].delta > 0
        BY <1>4, <3>1, <4>1
      <4> QED
        BY <1>1, <4>1, <4>2, NotStill
    <3>4. CASE i = n + 1
      <4>1. paid = 0 /\ moved = 0
        BY <1>7, <3>4 DEF Line
      <4>2. acc = e.delta
        <5>1. CASE i = 1 \/ e.idle
          <6>1. kept = 0
            <7>1. i = 1 => turned = <<>>
              BY <1>0, <1>4, <3>4 DEF WheelType
            <7> QED
              BY <5>1, <7>1 DEF NotchInv
          <6> QED
            BY <1>1, <6>1, Signs DEF Accumulate
        <5>2. CASE i # 1 /\ ~e.idle
          <6>1. n \in 1..n /\ turned'[n] = turned[n] /\ turned[n].delta \in Int
            BY <1>4, <1>40, <3>4, <5>2
          <6>2. e.delta * turned[n].delta < 0 /\ wheel.acc * turned[n].delta >= 0
            <7>1. e.delta * turned[n].delta < 0
              BY <1>4, <3>1, <3>4, <5>2, <6>1
            <7> QED
              BY <1>0, <1>4, <2>1, <6>1, <7>1 DEF NotchInv
          <6> QED
            <7>1. wheel.acc = 0 \/ wheel.acc * e.delta < 0
              BY <1>1, <6>1, <6>2, TurnsBack
            <7>2. kept = wheel.acc
              BY <5>2
            <7> QED
              BY <1>1, <7>1, <7>2 DEF Accumulate
        <5> QED
          BY <5>1, <5>2
      <4> QED
        <5> HIDE DEF paid, moved, acc
        <5>1. Abs(0) = 0 /\ (k # 0 => Abs(k) > 0) /\ (k = 0 => Abs(k) = 0)
          BY <1>3 DEF Abs
        <5> QED
          BY <1>1, <1>3, <2>1, <3>2, <3>3, <4>1, <4>2, <5>1 DEF SCROLL_THRESHOLD
    <3>5. CASE i # n + 1
      <4>1. i \in 1..n /\ n \in i..n /\ n + 1 \in i..n + 1 /\ n + 1 \in i + 1..n + 1
        BY <1>4, <3>5
      <4>2. turned[i].delta \in Int /\ turned[n].delta \in Int
        <5>1. n \in 1..n + 1 /\ n # n + 1 /\ i # n + 1
          BY <1>4, <4>1
        <5> QED
          BY <1>40, <5>1
      <4>3. ~e.idle /\ e.delta * turned[i].delta > 0 /\ turned[n].delta * turned[i].delta > 0
        BY <1>4, <3>1, <4>1
      <4>4. StretchFrom(i)
        <5>0. n = Len(turned)
          BY <1>0
        <5>1. \A j \in i..n : turned[j].delta * turned[i].delta > 0
          BY <1>4, <3>1, <4>1
        <5>2. \A j \in i + 1..n : ~turned[j].idle
          BY <1>4, <3>1, <4>1
        <5>3. i = 1 \/ turned[i].idle \/ turned[i].delta * turned[i - 1].delta < 0
          BY <1>4, <3>1, <4>1
        <5> QED
          BY <5>0, <5>1, <5>2, <5>3 DEF StretchFrom
      <4>5. /\ paid >= 0 /\ paid * SCROLL_THRESHOLD + Abs(wheel.acc) <= moved
            /\ paid = 0 => moved = Abs(wheel.acc)
        BY <1>0, <1>4, <2>1, <4>1, <4>4 DEF NotchInv, Fair
      <4>6. wheel.acc * turned[n].delta >= 0
        <5>1. n \in DOMAIN turned
          BY <1>4, <4>1
        <5> QED
          BY <1>0, <2>1, <5>1 DEF NotchInv
      <4>7. acc = wheel.acc + e.delta /\ Abs(acc) = Abs(wheel.acc) + Abs(e.delta)
        <5>1. /\ (e.delta > 0 /\ wheel.acc >= 0) \/ (e.delta < 0 /\ wheel.acc <= 0)
              /\ ~(wheel.acc * e.delta < 0)
          BY <1>1, <4>2, <4>3, <4>6, GoesOn
        <5>2. kept = wheel.acc
          BY <4>3
        <5>3. acc = wheel.acc + e.delta
          BY <5>1, <5>2 DEF Accumulate
        <5> HIDE DEF acc
        <5> QED
          BY <1>1, <5>1, <5>3 DEF Abs
      <4> HIDE DEF paid, moved, acc
      <4>8. Abs(0) = 0 /\ (k # 0 => Abs(k) > 0) /\ Abs(wheel.acc) \in Nat
        BY <1>1, <1>3 DEF Abs
      <4> QED
        BY <1>3, <2>1, <2>2, <3>2, <3>3, <4>5, <4>7, <4>8 DEF SCROLL_THRESHOLD
    <3> QED
      BY <3>4, <3>5
  <2> QED
    BY <1>4, <2>4, <2>5
<1>15. turned' # <<>>
  BY <1>4
<1>16. NotchInv'
  BY <1>3, <1>13, <1>14, <1>15 DEF NotchInv
<1> QED
  BY <1>12, <1>16

\* What the numbers of a key say of it, in each of the tables.
IsMasked(k) ==
  /\ k.scancode \in (57..115 \ {76}) \union 224..231
  /\ k.sym = Mask + k.scancode
  /\ k.code = IF k.scancode <= 115 THEN KeysFrom57[k.scancode - 56] ELSE KeysFrom224[k.scancode - 223]

Characters == {13, 27, 8, 9, 32, 45, 61, 91, 93, 92, 59, 39, 96, 44, 46, 47}
IsCharacter(k) ==
  \/ /\ k.scancode \in 40..56 /\ k.sym \in Characters
     /\ k.sym = KeysFrom40[k.scancode - 39] /\ k.code = <<"char", k.sym>>
  \/ k.scancode = 76 /\ k.sym = 127 /\ k.code = <<"Delete">>

IsLetter(k) ==
  k.scancode \in 4..29 /\ k.sym = k.scancode + 93 /\ k.code = <<"Key", k.scancode + 61>>

IsDigit(k) ==
  /\ k.sym \in 48..57 /\ k.scancode = (IF k.sym = 48 THEN 39 ELSE 30 + (k.sym - 49))
  /\ k.code = <<"Digit", k.sym>>

\* No character is as large as a masked number.
LEMMA MaskIsLarge == Mask \in Int /\ Mask > 1000
  BY DEF Mask

\* A table of n lines.
Lines(t, n) == Len(t) = n /\ t \in Seq({t[i] : i \in 1..n})

\* A table that begins with another, and one with another from its line m on.
Begins(c, a, m) == \A i \in 1..m : c[i] = a[i]
Continues(c, b, m, n) == \A i \in 1..n : c[m + i] = b[i]

\* A function on the first numbers is a table.
LEMMA LinesOf ==
  ASSUME NEW n \in Nat, NEW t, t = [i \in 1..n |-> t[i]]
  PROVE  Lines(t, n)
<1> DEFINE S == {t[i] : i \in 1..n}
<1>1. \A i \in 1..n : t[i] \in S
  OBVIOUS
<1> HIDE DEF S
<1>2. t \in [1..n -> S]
  BY <1>1
<1>3. t \in Seq(S) /\ Len(t) = n
  BY <1>2
<1> QED
  BY <1>3 DEF Lines, S

\* Tables put together are a table.
LEMMA Joined ==
  ASSUME NEW a, NEW b, NEW m \in Nat, NEW n \in Nat, NEW k, k = m + n, Lines(a, m), Lines(b, n)
  PROVE  Lines(a \o b, k)
<1> DEFINE A == {a[i] : i \in 1..m}
           B == {b[i] : i \in 1..n}
           S == A \union B
<1>1. a \in Seq(A) /\ Len(a) = m /\ b \in Seq(B) /\ Len(b) = n
  BY DEF Lines
<1> HIDE DEF A, B
<1>2. a \in Seq(S) /\ b \in Seq(S)
  BY <1>1
<1> HIDE DEF S
<1>3. a \o b \in Seq(S) /\ Len(a \o b) = k
  BY <1>1, <1>2
<1> DEFINE c == a \o b
<1>4. k \in Nat /\ c \in Seq(S) /\ Len(c) = k
  BY <1>3
<1> HIDE DEF c
<1>5. c = [i \in 1..k |-> c[i]]
  BY <1>4
<1>6. Lines(c, k)
  BY <1>4, <1>5, LinesOf
<1> QED
  BY <1>6 DEF c

\* The lines of a table are numbered from one.
LEMMA LinesDomain ==
  ASSUME NEW a, NEW m \in Nat, Lines(a, m)
  PROVE  DOMAIN a = 1..m
<1> DEFINE A == {a[i] : i \in 1..m}
<1>1. a \in Seq(A) /\ Len(a) = m
  BY DEF Lines
<1> HIDE DEF A
<1> QED
  BY <1>1

\* Tables put together hold the lines of both.
LEMMA LinesAt ==
  ASSUME NEW a, NEW b, NEW m \in Nat, NEW n \in Nat, Lines(a, m), Lines(b, n)
  PROVE  Begins(a \o b, a, m) /\ Continues(a \o b, b, m, n)
<1> DEFINE A == {a[i] : i \in 1..m}
           B == {b[i] : i \in 1..n}
           S == A \union B
<1>1. a \in Seq(A) /\ Len(a) = m /\ b \in Seq(B) /\ Len(b) = n
  BY DEF Lines
<1> HIDE DEF A, B
<1>2. a \in Seq(S) /\ b \in Seq(S)
  BY <1>1
<1> HIDE DEF S
<1>3. /\ \A i \in 1..m : (a \o b)[i] = a[i]
      /\ \A i \in 1..n : (a \o b)[m + i] = b[i]
  BY <1>1, <1>2
<1> QED
  BY <1>3 DEF Begins, Continues

\* The tables have these lines, and no key has the scancode of Delete.
LEMMA Tables ==
  /\ DOMAIN KeysFrom57 = 1..59 /\ KeysFrom57[20] = <<"">>
  /\ DOMAIN KeysFrom224 = 1..8
<1> DEFINE names3 == <<"PrintScreen", "ScrollLock", "Pause", "Insert", "Home", "PageUp", "", "End", "PageDown",
                       "ArrowRight", "ArrowLeft", "ArrowDown", "ArrowUp", "NumLock", "NumpadDivide",
                       "NumpadMultiply", "NumpadSubtract", "NumpadAdd", "NumpadEnter">>
           names6 == <<"NumpadDecimal", "", "ContextMenu", "", "NumpadEqual">>
           first == Named(<<"CapsLock">>)
           second == FunctionKeys(1, 12)
           third == Named(names3)
           fourth == Numpad(1, 9)
           fifth == Numpad(0, 0)
           sixth == Named(names6)
           last == FunctionKeys(13, 24)
<1>1. Lines(first, 1)
  <2>1. first = [i \in 1..1 |-> first[i]]
    BY DEF Named
  <2> QED
    BY <2>1, LinesOf
<1>2. Lines(second, 12)
  <2>1. second = [i \in 1..12 |-> second[i]]
    BY DEF FunctionKeys
  <2> QED
    BY <2>1, LinesOf
<1>3. Lines(third, 19) /\ third[7] = <<"">>
  <2>1. DOMAIN names3 = 1..19 /\ names3[7] = ""
    OBVIOUS
  <2>2. third = [i \in DOMAIN names3 |-> <<names3[i]>>]
    BY DEF Named
  <2> HIDE DEF names3, third
  <2>3. third = [i \in 1..19 |-> <<names3[i]>>]
    BY <2>1, <2>2
  <2>4. third = [i \in 1..19 |-> third[i]]
    BY <2>3
  <2>5. third[7] = <<names3[7]>>
    BY <2>3
  <2> QED
    BY <2>1, <2>4, <2>5, LinesOf
<1>4. Lines(fourth, 9)
  <2>1. fourth = [i \in 1..9 |-> fourth[i]]
    BY DEF Numpad
  <2> QED
    BY <2>1, LinesOf
<1>5. Lines(fifth, 1)
  <2>1. fifth = [i \in 1..1 |-> fifth[i]]
    BY DEF Numpad
  <2> QED
    BY <2>1, LinesOf
<1>6. Lines(sixth, 5)
  <2>1. sixth = [i \in 1..5 |-> sixth[i]]
    BY DEF Named
  <2> QED
    BY <2>1, LinesOf
<1>7. Lines(last, 12)
  <2>1. last = [i \in 1..12 |-> last[i]]
    BY DEF FunctionKeys
  <2> QED
    BY <2>1, LinesOf
<1>8. KeysFrom57 = first \o second \o third \o fourth \o fifth \o sixth \o last
  BY DEF KeysFrom57
<1> HIDE DEF first, second, third, fourth, fifth, sixth, last
<1> DEFINE two == first \o second
           three == two \o third
           four == three \o fourth
           five == four \o fifth
           six == five \o sixth
           all == six \o last
<1>9. Lines(two, 13)
  <2>1. 13 = 1 + 12 /\ 1 \in Nat /\ 12 \in Nat
    OBVIOUS
  <2> QED
    BY <1>1, <1>2, <2>1, Joined
<1> HIDE DEF two
<1>10. Lines(three, 32) /\ three[20] = <<"">>
  <2>1. 32 = 13 + 19 /\ 13 \in Nat /\ 19 \in Nat /\ 20 = 13 + 7 /\ 7 \in 1..19
    OBVIOUS
  <2>2. Lines(third, 19)
    BY <1>3
  <2>3. Lines(two \o third, 32)
    BY <1>9, <2>1, <2>2, Joined
  <2>4. Continues(two \o third, third, 13, 19)
    BY <1>9, <2>1, <2>2, LinesAt
  <2> QED
    BY <1>3, <2>1, <2>3, <2>4 DEF Continues
<1> HIDE DEF three
<1>11. Lines(four, 41) /\ four[20] = <<"">>
  <2>1. 41 = 32 + 9 /\ 32 \in Nat /\ 9 \in Nat /\ 20 \in 1..32
    OBVIOUS
  <2>2. Lines(three, 32)
    BY <1>10
  <2>3. Lines(three \o fourth, 41)
    BY <1>4, <2>1, <2>2, Joined
  <2>4. Begins(three \o fourth, three, 32)
    BY <1>4, <2>1, <2>2, LinesAt
  <2> QED
    BY <1>10, <2>1, <2>3, <2>4 DEF Begins
<1> HIDE DEF four
<1>12. Lines(five, 42) /\ five[20] = <<"">>
  <2>1. 42 = 41 + 1 /\ 41 \in Nat /\ 1 \in Nat /\ 20 \in 1..41
    OBVIOUS
  <2>2. Lines(four, 41)
    BY <1>11
  <2>3. Lines(four \o fifth, 42)
    BY <1>5, <2>1, <2>2, Joined
  <2>4. Begins(four \o fifth, four, 41)
    BY <1>5, <2>1, <2>2, LinesAt
  <2> QED
    BY <1>11, <2>1, <2>3, <2>4 DEF Begins
<1> HIDE DEF five
<1>13. Lines(six, 47) /\ six[20] = <<"">>
  <2>1. 47 = 42 + 5 /\ 42 \in Nat /\ 5 \in Nat /\ 20 \in 1..42
    OBVIOUS
  <2>2. Lines(five, 42)
    BY <1>12
  <2>3. Lines(five \o sixth, 47)
    BY <1>6, <2>1, <2>2, Joined
  <2>4. Begins(five \o sixth, five, 42)
    BY <1>6, <2>1, <2>2, LinesAt
  <2> QED
    BY <1>12, <2>1, <2>3, <2>4 DEF Begins
<1> HIDE DEF six
<1>14. Lines(all, 59) /\ all[20] = <<"">>
  <2>1. 59 = 47 + 12 /\ 47 \in Nat /\ 12 \in Nat /\ 20 \in 1..47
    OBVIOUS
  <2>2. Lines(six, 47)
    BY <1>13
  <2>3. Lines(six \o last, 59)
    BY <1>7, <2>1, <2>2, Joined
  <2>4. Begins(six \o last, six, 47)
    BY <1>7, <2>1, <2>2, LinesAt
  <2> QED
    BY <1>13, <2>1, <2>3, <2>4 DEF Begins
<1>15. KeysFrom57 = all
  BY <1>8 DEF two, three, four, five, six
<1> HIDE DEF all
<1>16. DOMAIN KeysFrom57 = 1..59 /\ KeysFrom57[20] = <<"">>
  <2>1. Lines(KeysFrom57, 59) /\ KeysFrom57[20] = <<"">>
    BY <1>14, <1>15
  <2> QED
    BY <2>1, LinesDomain
<1>17. DOMAIN KeysFrom224 = 1..8
  BY DEF KeysFrom224, Named
<1> QED
  BY <1>16, <1>17

\* Every key is in one of the tables.
LEMMA KeyNumbers ==
  ASSUME NEW k \in Keys
  PROVE  IsMasked(k) \/ IsCharacter(k) \/ IsLetter(k) \/ IsDigit(k)
<1>1. CASE k \in MaskedKeys
  <2>1. CASE \E i \in {j \in DOMAIN KeysFrom57 : KeysFrom57[j] # <<"">>} : k = Key(KeysFrom57[i], 56 + i, Mask + 56 + i)
    <3>1. PICK i \in 1..59 : KeysFrom57[i] # <<"">> /\ k = Key(KeysFrom57[i], 56 + i, Mask + 56 + i)
      BY <2>1, Tables
    <3>2. i # 20
      BY <3>1, Tables
    <3>3. /\ k.scancode = 56 + i /\ k.sym = Mask + 56 + i /\ k.code = KeysFrom57[i]
          /\ 56 + i <= 115 /\ (56 + i) - 56 = i /\ 56 + i # 76 /\ 56 + i \in 57..115
          /\ Mask + 56 + i = Mask + (56 + i)
      <4>1. /\ k.scancode = 56 + i /\ k.sym = Mask + 56 + i /\ k.code = KeysFrom57[i]
        BY <3>1 DEF Key
      <4> QED
        BY <3>2, <4>1, MaskIsLarge
    <3> QED
      BY <3>3 DEF IsMasked
  <2>2. CASE \E i \in DOMAIN KeysFrom224 : k = Key(KeysFrom224[i], 223 + i, Mask + 223 + i)
    <3>1. PICK i \in 1..8 : k = Key(KeysFrom224[i], 223 + i, Mask + 223 + i)
      BY <2>2, Tables
    <3> QED
      BY <3>1, MaskIsLarge DEF Key, IsMasked
  <2> QED
    BY <1>1, <2>1, <2>2 DEF MaskedKeys
<1>2. CASE k \in CharacterKeys
  <2>1. CASE \E i \in DOMAIN KeysFrom40 \ {11} : k = Key(<<"char", KeysFrom40[i]>>, 39 + i, KeysFrom40[i])
    <3>1. PICK i \in DOMAIN KeysFrom40 \ {11} : k = Key(<<"char", KeysFrom40[i]>>, 39 + i, KeysFrom40[i])
      BY <2>1
    <3>2. i \in 1..17 /\ KeysFrom40[i] \in Characters
      BY DEF KeysFrom40, Characters
    <3> QED
      BY <3>1, <3>2 DEF Key, IsCharacter
  <2>2. CASE k = Key(<<"Delete">>, 76, 127)
    BY <2>2 DEF Key, IsCharacter
  <2> QED
    BY <1>2, <2>1, <2>2 DEF CharacterKeys
<1>3. CASE k \in LetterKeys
  BY <1>3 DEF LetterKeys, Key, IsLetter
<1>4. CASE k \in DigitKeys
  BY <1>4 DEF DigitKeys, Key, IsDigit
<1> QED
  BY <1>1, <1>2, <1>3, <1>4 DEF Keys

\* Masked keys look like no others.
LEMMA MaskedApart ==
  ASSUME NEW k, NEW l, IsMasked(k), IsCharacter(l) \/ IsLetter(l) \/ IsDigit(l)
  PROVE  k.scancode # l.scancode /\ k.sym # l.sym
<1>1. k.sym > 1000 /\ k.scancode > 56 /\ k.scancode # 76
  BY MaskIsLarge DEF IsMasked
<1>2. l.scancode \in 0..56 \union {76} /\ l.sym \in 0..127
  <2>1. CASE IsCharacter(l)
    BY <2>1 DEF IsCharacter, Characters
  <2>2. CASE IsLetter(l) \/ IsDigit(l)
    BY <2>2 DEF IsLetter, IsDigit
  <2> QED
    BY <2>1, <2>2
<1> QED
  BY <1>1, <1>2

\* No two keys look alike.
LEMMA KeysAreApart ==
  ASSUME NEW k \in Keys, NEW l \in Keys, k.code # l.code
  PROVE  k.scancode # l.scancode /\ k.sym # l.sym
<1>1. CASE IsMasked(k) /\ IsMasked(l)
  BY <1>1, MaskIsLarge DEF IsMasked
<1>2. CASE IsCharacter(k) /\ IsCharacter(l)
  BY <1>2 DEF IsCharacter, Characters
<1>3. CASE (IsLetter(k) /\ IsLetter(l)) \/ (IsDigit(k) /\ IsDigit(l))
  BY <1>3 DEF IsLetter, IsDigit
<1>4. CASE IsMasked(k) /\ (IsCharacter(l) \/ IsLetter(l) \/ IsDigit(l))
  BY <1>4, MaskedApart
<1>5. CASE IsMasked(l) /\ (IsCharacter(k) \/ IsLetter(k) \/ IsDigit(k))
  BY <1>5, MaskedApart
<1>6. CASE IsCharacter(k) /\ (IsLetter(l) \/ IsDigit(l))
  BY <1>6 DEF IsCharacter, IsLetter, IsDigit, Characters
<1>7. CASE IsCharacter(l) /\ (IsLetter(k) \/ IsDigit(k))
  BY <1>7 DEF IsCharacter, IsLetter, IsDigit, Characters
<1>8. CASE (IsLetter(k) /\ IsDigit(l)) \/ (IsDigit(k) /\ IsLetter(l))
  BY <1>8 DEF IsLetter, IsDigit
<1> QED
  BY <1>1, <1>2, <1>3, <1>4, <1>5, <1>6, <1>7, <1>8, KeyNumbers

\* Nothing but a turn of the wheel touches the account.
LEMMA NotchKept ==
  ASSUME NotchInv, wheel' = wheel, turned' = turned, ledger' = ledger
  PROVE  NotchInv'
<1>1. \A i : Before(i)' = Before(i)
  BY DEF Before
<1>2. \A i : Fair(i)' = Fair(i)
  BY <1>1 DEF Fair
<1>3. \A i : StretchFrom(i)' = StretchFrom(i)
  BY DEF StretchFrom
<1> QED
  BY <1>2, <1>3, Zenon DEF NotchInv

-----------------------------------------------------------------------------
\* The inductive invariant of the wheel and the keys.
WheelInv == WheelType /\ RingHolds(wheel.ring, turned) /\ NotchInv

\* What the page makes of wheel and keys is what they say, for wheels that turn
\* by any amounts and however often, and whatever two keys are pressed
\* (MouseWheelClassifier, onWheel, translateKey).
THEOREM InputAlwaysRead == WheelSpec => []InputIsRead
<1>1. WheelInit => WheelInv
  <2> SUFFICES ASSUME WheelInit PROVE WheelInv
    OBVIOUS
  <2>1. WheelType
    <3>1. wheel.ring.memory \in [0..4 -> Item]
      BY DEF WheelInit, EmptyRing, RingSize, Item
    <3> QED
      BY <3>1 DEF WheelInit, WheelType
  <2>2. RingHolds(wheel.ring, turned)
    BY DEF WheelInit, RingHolds, EmptyRing
  <2>3. NotchInv
    BY DEF WheelInit, NotchInv, Abs, SCROLL_THRESHOLD
  <2> QED
    BY <2>1, <2>2, <2>3 DEF WheelInv
<1>2. WheelInv /\ [WheelNext]_wheelVars => WheelInv'
  <2> SUFFICES ASSUME WheelInv, [WheelNext]_wheelVars PROVE WheelInv'
    OBVIOUS
  <2>1. ASSUME NEW e \in Turns, Turned(e) PROVE WheelInv'
    <3>1. WheelType' /\ NotchInv'
      BY <2>1, NotchStep DEF WheelInv
    <3>2. turned \in Seq(WheelEvent) /\ e \in WheelEvent
      BY TurnsAreEvents DEF WheelInv, WheelType
    <3>3. wheel'.ring = Accept(wheel.ring, e) /\ turned' = Append(turned, e)
      BY <2>1 DEF Turned, OnWheel
    <3>4. RingHolds(Accept(wheel.ring, e), Append(turned, e))
      BY <3>2, Accepted DEF WheelInv, WheelType
    <3>5. RingHolds(wheel.ring, turned)'
      BY <3>3, <3>4
    <3> QED
      BY <3>1, <3>5 DEF WheelInv
  <2>2. ASSUME NEW k \in Keys, Typed(k) PROVE WheelInv'
    <3>1. typed' \in Seq(Keys)
      BY <2>2 DEF Typed, WheelInv, WheelType
    <3>2. wheel' = wheel /\ turned' = turned /\ ledger' = ledger
      BY <2>2 DEF Typed
    <3>3. WheelType' /\ RingHolds(wheel.ring, turned)'
      BY <3>1, <3>2 DEF WheelInv, WheelType
    <3>4. NotchInv'
      BY <3>2, NotchKept DEF WheelInv
    <3> QED
      BY <3>3, <3>4 DEF WheelInv
  <2>3. CASE UNCHANGED wheelVars
    <3>1. wheel' = wheel /\ turned' = turned /\ ledger' = ledger /\ typed' = typed
      BY <2>3 DEF wheelVars
    <3>2. WheelType' /\ RingHolds(wheel.ring, turned)'
      BY <3>1 DEF WheelInv, WheelType
    <3>3. NotchInv'
      BY <3>1, NotchKept DEF WheelInv
    <3> QED
      BY <3>2, <3>3 DEF WheelInv
  <2> QED
    BY <2>1, <2>2, <2>3 DEF WheelNext
<1>3. WheelInv => InputIsRead
  <2> SUFFICES ASSUME WheelInv PROVE InputIsRead
    OBVIOUS
  <2>1. JudgedByTheLastFive
    BY JudgedSo, TurnsAreEvents DEF WheelInv, WheelType
  <2>2. ASSUME wheel.smooth, NEW i \in DOMAIN turned, StretchFrom(i)
        PROVE  LET now == Before(Len(turned) + 1)
                   paid == now.paid - Before(i).paid
                   moved == now.moved - Before(i).moved
               IN  paid * SCROLL_THRESHOLD <= moved /\ (paid = 0 => moved < SCROLL_THRESHOLD)
    <3> DEFINE now == Before(Len(turned) + 1)
               paid == now.paid - Before(i).paid
               moved == now.moved - Before(i).moved
    <3>1. Fair(i) /\ wheel.acc \in Int /\ Abs(wheel.acc) < SCROLL_THRESHOLD
      BY <2>2 DEF WheelInv, NotchInv, WheelType
    <3>2. paid \in Int /\ moved \in Int
      <4>1. \A j \in 1..Len(turned) + 1 : Before(j) \in Line
        <5>1. \A j \in 1..Len(turned) : ledger[j] \in Line
          BY DEF WheelInv, WheelType
        <5>2. [moved |-> 0, paid |-> 0] \in Line
          BY DEF Line
        <5>3. ASSUME NEW j \in 1..Len(turned) + 1 PROVE Before(j) \in Line
          <6>1. j = 1 \/ j - 1 \in 1..Len(turned)
            OBVIOUS
          <6> QED
            BY <5>1, <5>2, <6>1 DEF Before
        <5> QED
          BY <5>3
      <4>2. i \in 1..Len(turned) + 1 /\ Len(turned) + 1 \in 1..Len(turned) + 1
        BY <2>2 DEF WheelInv, WheelType
      <4> QED
        BY <4>1, <4>2 DEF Line
    <3>3. Abs(wheel.acc) \in Nat
      BY <3>1 DEF Abs
    <3>4. paid * SCROLL_THRESHOLD + Abs(wheel.acc) <= moved /\ (paid = 0 => moved = Abs(wheel.acc))
      BY <3>1 DEF Fair
    <3> HIDE DEF paid, moved
    <3>5. paid * SCROLL_THRESHOLD <= moved /\ (paid = 0 => moved < SCROLL_THRESHOLD)
      BY <3>1, <3>2, <3>3, <3>4 DEF SCROLL_THRESHOLD
    <3> QED
      BY <3>5 DEF paid, moved
  <2>3. NotchesFollowTheWheel
    BY <2>2 DEF NotchesFollowTheWheel, WheelInv, NotchInv
  <2>4. KeysToldApart
    <3>1. Len(typed) = 2 => typed[1] \in Keys /\ typed[2] \in Keys
      <4>1. typed \in Seq(Keys)
        BY DEF WheelInv, WheelType
      <4> QED
        BY <4>1
    <3> QED
      BY <3>1, KeysAreApart DEF KeysToldApart
  <2> QED
    BY <2>1, <2>3, <2>4 DEF InputIsRead
<1> QED
  BY <1>1, <1>2, <1>3, PTL DEF WheelSpec
=============================================================================
