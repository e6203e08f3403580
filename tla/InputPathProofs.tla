--------------------------- MODULE InputPathProofs ---------------------------
(***************************************************************************)
(* For tables and a queue of any size, as long as one poll fits: each poll *)
(* finds the queue empty, nothing crosses a hand-off, and the blue screen  *)
(* is dismissed by new input only.                                         *)
(***************************************************************************)
EXTENDS InputPath, FiniteSetTheorems, SequenceTheorems, TLAPS

Entry == [vk : Keys, old : BOOLEAN]

\* Where the queue may hold keys, and where the loop carries input out.
Holding  == {"mouse", "pad", "watch", "bsod", "keys", "app"}
Handling == {"keys", "pointer", "context", "click", "exec", "app"}

Drained == sh \notin Holding => q = <<>>

Current == /\ sh # "app" => \A i \in DOMAIN q : ~q[i].old
           /\ ctx # "old"

\* What survives a hand-off is not there any more when the screen comes up.
Screen ==
  bsod # "off" => /\ activate # "old" /\ click # "old"
                  /\ sh \in Handling => activate = "none" /\ click = "none"

QueueType == q \in Seq(Entry)

LatchType == activate \in Latch /\ ctx \in Latch /\ click \in Latch

IInv == QueueType /\ LatchType /\ Drained /\ Current /\ Screen

\* What one poll adds are fresh entries.
LEMMA PushedType ==
  ASSUME QueueType, NEW vks \in Seq(Keys), \A i \in DOMAIN q : ~q[i].old
  PROVE  /\ Pushed(vks) \in Seq(Entry)
         /\ \A i \in DOMAIN Pushed(vks) : ~Pushed(vks)[i].old
<1> DEFINE n   == IF Len(vks) < Room THEN Len(vks) ELSE Room
           new == [i \in 1..n |-> [vk |-> vks[i], old |-> FALSE]]
<1>1. Len(vks) \in Nat /\ Len(q) \in Nat /\ \A i \in 1..Len(vks) : vks[i] \in Keys
  BY LenProperties, ElementOfSeq DEF QueueType
<1>2. n \in Int /\ n <= Len(vks)
  BY <1>1, InputPathAssumption DEF Room
<1>7. \A i \in DOMAIN new : ~new[i].old
  OBVIOUS
<1>3. new \in Seq(Entry)
  <2>1. CASE n \in Nat
    <3>1. new \in [1..n -> Entry]
      BY <1>1, <1>2 DEF Entry
    <3> HIDE DEF n
    <3> QED
      BY <2>1, <3>1, IsASeq
  <2>2. CASE n \notin Nat
    <3>1. 1..n = {}
      BY <1>2, <2>2
    <3>2. new = <<>>
      BY <3>1
    <3> QED
      BY <3>2, EmptySeq
  <2> QED
    BY <2>1, <2>2
<1>4. Pushed(vks) = q \o new
  BY DEF Pushed
<1> HIDE DEF new
<1>5. q \o new \in Seq(Entry)
  BY <1>3, ConcatProperties DEF QueueType
<1>6. \A i \in DOMAIN (q \o new) : ~(q \o new)[i].old
  BY <1>3, <1>7, ConcatProperties, LenProperties DEF QueueType
<1> QED
  BY <1>4, <1>5, <1>6

LEMMA PushedFits ==
  ASSUME QueueType, Len(q) < QLEN, NEW vks \in Seq(Keys)
  PROVE  Pushed(vks) \in Seq(Entry) /\ Len(Pushed(vks)) < QLEN
<1> DEFINE n   == IF Len(vks) < Room THEN Len(vks) ELSE Room
           new == [i \in 1..n |-> [vk |-> vks[i], old |-> FALSE]]
<1>1. Len(vks) \in Nat /\ Len(q) \in Nat /\ \A i \in 1..Len(vks) : vks[i] \in Keys
  BY LenProperties, ElementOfSeq DEF QueueType
<1>2. n \in Nat /\ n <= Len(vks) /\ Len(q) + n < QLEN
  BY <1>1, InputPathAssumption DEF Room
<1>3. new \in [1..n -> Entry]
  BY <1>1, <1>2 DEF Entry
<1>4. Pushed(vks) = q \o new
  BY DEF Pushed
<1> HIDE DEF n, new
<1>5. new \in Seq(Entry) /\ Len(new) = n
  BY <1>2, <1>3, IsASeq
<1>6. q \o new \in Seq(Entry) /\ Len(q \o new) = Len(q) + n
  BY <1>5, ConcatProperties DEF QueueType
<1> QED
  BY <1>2, <1>4, <1>6

LEMMA InOrderType == ASSUME NEW S \in SUBSET Keys, NEW s \in InOrder(S) PROVE s \in Seq(Keys)
<1>1. IsFiniteSet(Keys)
  BY FS_Interval, InputPathAssumption DEF Keys
<1>2. Cardinality(S) \in Nat
  BY <1>1, FS_Subset, FS_CardinalityType
<1>3. s \in [1..Cardinality(S) -> Keys]
  BY DEF InOrder
<1> QED
  BY <1>2, <1>3, IsASeq

LEMMA InitInv == Init => IInv
BY DEF Init, IInv, QueueType, LatchType, Latch, Drained, Current, Screen, Holding

LEMMA PollStep == ASSUME IInv, PollKeyboard \/ PollMouse \/ PollPad PROVE IInv'
<1> USE DEF IInv, latch
<1>0. \A i \in DOMAIN q : ~q[i].old
  BY DEF Current, PollKeyboard, PollMouse, PollPad
<1>1. CASE PollKeyboard
  <2>1. q' \in Seq(Entry) /\ \A i \in DOMAIN q' : ~q'[i].old
    <3>1. CASE q' = q
      BY <1>0, <3>1 DEF QueueType
    <3>2. ASSUME NEW down \in SUBSET Keys, NEW due \in SUBSET Nav,
                 NEW vks \in InOrder((down \ now) \cup (down \cap now \cap due)),
                 q' = Pushed(vks)
          PROVE  q' \in Seq(Entry) /\ \A i \in DOMAIN q' : ~q'[i].old
      <4>1. vks \in Seq(Keys)
        BY InOrderType
      <4> QED
        BY <1>0, <3>2, <4>1, PushedType
    <3> QED
      BY <1>1, <3>1, <3>2 DEF PollKeyboard
  <2> QED
    BY <1>1, <2>1 DEF PollKeyboard, QueueType, LatchType, Latch, Drained, Current, Screen, Holding, Handling
<1>2. CASE PollMouse
  <2>1. ctx' \in {ctx, "new"} /\ UNCHANGED <<q, activate, click, bsod>> /\ sh' = "pad"
    BY <1>2 DEF PollMouse
  <2> QED
    BY <1>0, <2>1 DEF QueueType, LatchType, Latch, Drained, Current, Screen, Holding, Handling
<1>3. CASE PollPad
  <2>1. q' \in Seq(Entry) /\ \A i \in DOMAIN q' : ~q'[i].old
    <3>1. CASE q' = q
      BY <1>0, <3>1 DEF QueueType
    <3>2. ASSUME NEW dn \in SUBSET Dpad, NEW due \in SUBSET Dpad,
                 NEW s \in InOrder((dn \ dpad) \cup (dn \cap due)),
                 q' = Pushed([i \in DOMAIN s |-> Vk(s[i])])
          PROVE  q' \in Seq(Entry) /\ \A i \in DOMAIN q' : ~q'[i].old
      <4>1. (dn \ dpad) \cup (dn \cap due) \in SUBSET Keys
        <5>1. Dpad \subseteq Keys
          BY InputPathAssumption DEF Dpad, Keys
        <5> QED
          BY <5>1
      <4>2. s \in Seq(Keys)
        BY <4>1, InOrderType
      <4>3. [i \in DOMAIN s |-> Vk(s[i])] = s
        BY <4>2 DEF Vk
      <4> QED
        BY <1>0, <3>2, <4>2, <4>3, PushedType
    <3> QED
      BY <1>3, <3>1, <3>2, Zenon DEF PollPad
  <2>2. activate' \in {activate, "new"} /\ ctx' \in {ctx, "new"}
    BY <1>3 DEF PollPad
  <2>3. UNCHANGED <<click, bsod>> /\ sh' = "watch"
    BY <1>3 DEF PollPad
  <2> QED
    BY <2>1, <2>2, <2>3 DEF QueueType, LatchType, Latch, Drained, Current, Screen, Holding, Handling
<1> QED
  BY <1>1, <1>2, <1>3

LEMMA ScreenStep == ASSUME IInv, Pump \/ CrashWatch \/ Bsod \/ Wait PROVE IInv'
<1> USE DEF IInv, QueueType, LatchType, Latch, Drained, Current, Screen, Holding, Handling, device, latch
<1>1. CASE Pump
  BY <1>1 DEF Pump
<1>2. CASE CrashWatch
  <2>1. CASE crash
    BY <1>2, <2>1 DEF CrashWatch, RaiseBsod
  <2>2. CASE ~crash
    <3>1. UNCHANGED <<bsod, q, latch>> /\ sh = "watch"
      BY <1>2, <2>2 DEF CrashWatch
    <3>2. sh' = IF bsod # "off" THEN "bsod" ELSE "keys"
      BY <1>2, <2>2 DEF CrashWatch
    <3> QED
      BY <3>1, <3>2
  <2> QED
    BY <2>1, <2>2
<1>3. CASE Bsod
  BY <1>3 DEF Bsod
<1>4. CASE Wait
  BY <1>4 DEF Wait
<1> QED
  BY <1>1, <1>2, <1>3, <1>4

LEMMA HandleStep ==
  ASSUME IInv, Key \/ KeysDone \/ Pointer \/ Context \/ Click \/ Exec \/ AppExit
  PROVE  IInv'
<1> USE DEF IInv, QueueType, LatchType, Latch, Drained, Current, Screen, Holding, Handling, device, latch,
            Continue, Launch
<1>1. CASE Key
  <2>1. q' \in Seq(Entry) /\ \A i \in DOMAIN q' : q'[i] = q[i + 1] /\ i + 1 \in DOMAIN q
    BY <1>1 DEF Key
  <2> QED
    BY <1>1, <2>1 DEF Key
<1>2. CASE KeysDone
  BY <1>2 DEF KeysDone
<1>3. CASE Pointer
  BY <1>3 DEF Pointer
<1>4. CASE Context
  BY <1>4 DEF Context
<1>5. CASE Click
  BY <1>5 DEF Click
<1>6. CASE Exec
  BY <1>6 DEF Exec
<1>7. CASE AppExit
  <2>1. q' = <<>> /\ ctx' = "none"
    BY <1>7 DEF AppExit, Reacquire
  <2> QED
    BY <1>7, <2>1 DEF AppExit, Aged
<1> QED
  BY <1>1, <1>2, <1>3, <1>4, <1>5, <1>6, <1>7

LEMMA StepInv == IInv /\ [Next]_vars => IInv'
<1> SUFFICES ASSUME IInv, [Next]_vars PROVE IInv'
  OBVIOUS
<1>1. CASE Crash
  BY <1>1 DEF Crash, IInv, QueueType, LatchType, Latch, Drained, Current, Screen, Holding, Handling, latch
<1>2. CASE UNCHANGED vars
  BY <1>2 DEF vars, IInv, QueueType, LatchType, Latch, Drained, Current, Screen, Holding, Handling, latch
<1> QED
  BY <1>1, <1>2, PollStep, ScreenStep, HandleStep DEF Next, Loop

LEMMA Inductive == Spec => []IInv
BY InitInv, StepInv, PTL DEF Spec
-----------------------------------------------------------------------------
LEMMA PollTypes == ASSUME TypeOK, PollKeyboard \/ PollMouse \/ PollPad PROVE TypeOK'
<1> USE DEF TypeOK, latch, Latch
<1>0. QueueType /\ Len(q) < QLEN /\ Len(q) \in Nat
  BY LenProperties DEF QueueType, Entry
<1>1. CASE PollKeyboard
  <2>1. q' \in Seq(Entry) /\ Len(q') < QLEN
    <3>1. CASE q' = q
      BY <1>0, <3>1 DEF QueueType
    <3>2. ASSUME NEW down \in SUBSET Keys, NEW due \in SUBSET Nav,
                 NEW vks \in InOrder((down \ now) \cup (down \cap now \cap due)),
                 q' = Pushed(vks)
          PROVE  q' \in Seq(Entry) /\ Len(q') < QLEN
      <4>1. vks \in Seq(Keys)
        BY InOrderType
      <4> QED
        BY <1>0, <3>2, <4>1, PushedFits
    <3> QED
      BY <1>1, <3>1, <3>2 DEF PollKeyboard
  <2>2. now' \subseteq Keys
    BY <1>1 DEF PollKeyboard
  <2> QED
    BY <1>1, <2>1, <2>2 DEF PollKeyboard, Entry
<1>2. CASE PollMouse
  <2>1. mHeld' \in BOOLEAN /\ mR' \in BOOLEAN /\ ctx' \in Latch
    BY <1>2 DEF PollMouse
  <2> QED
    BY <1>2, <2>1 DEF PollMouse
<1>3. CASE PollPad
  <2>1. q' \in Seq(Entry) /\ Len(q') < QLEN
    <3>1. CASE q' = q
      BY <1>0, <3>1 DEF QueueType
    <3>2. ASSUME NEW dn \in SUBSET Dpad, NEW due \in SUBSET Dpad,
                 NEW s \in InOrder((dn \ dpad) \cup (dn \cap due)),
                 q' = Pushed([i \in DOMAIN s |-> Vk(s[i])])
          PROVE  q' \in Seq(Entry) /\ Len(q') < QLEN
      <4>1. Dpad \subseteq Keys
        BY InputPathAssumption DEF Dpad, Keys
      <4>2. s \in Seq(Keys)
        BY <4>1, InOrderType
      <4>3. [i \in DOMAIN s |-> Vk(s[i])] = s
        BY <4>2 DEF Vk
      <4> QED
        BY <1>0, <3>2, <4>2, <4>3, PushedFits
    <3> QED
      BY <1>3, <3>1, <3>2, Zenon DEF PollPad
  <2>2. /\ dpad' \subseteq Dpad /\ activate' \in Latch /\ ctx' \in Latch
        /\ btnLast' \in BOOLEAN /\ ctxA' \in BOOLEAN /\ jHeld' \in BOOLEAN
    BY <1>3 DEF PollPad
  <2>3. UNCHANGED <<now, mR, mHeld, prime, click, back, ptrWas, bsod, crash>>
        /\ sh' = "watch"
    BY <1>3 DEF PollPad
  <2> QED
    BY <2>1, <2>2, <2>3 DEF Entry
<1> QED
  BY <1>1, <1>2, <1>3

LEMMA LoopTypes ==
  ASSUME TypeOK, \/ Pump \/ CrashWatch \/ Bsod \/ Wait \/ Key \/ KeysDone \/ Pointer
                 \/ Context \/ Click \/ Exec \/ AppExit \/ Crash
  PROVE  TypeOK'
<1> USE InputPathAssumption DEF TypeOK, latch, device, Latch, Continue, Launch
<1>1. CASE Pump
  BY <1>1 DEF Pump
<1>2. CASE CrashWatch
  <2>1. /\ bsod' \in {"off", "up", "armed"} /\ sh' \in {"bsod", "keys"} /\ crash' = FALSE
        /\ UNCHANGED <<device, back, ptrWas>>
    BY <1>2 DEF CrashWatch, RaiseBsod
  <2>2. q' \in Seq([vk : Keys, old : BOOLEAN]) /\ Len(q') < QLEN
    <3>1. q' = q \/ q' = <<>>
      BY <1>2 DEF CrashWatch, RaiseBsod
    <3>2. CASE q' = <<>>
      BY <3>2
    <3> QED
      BY <3>1, <3>2
  <2>3. activate' \in Latch /\ ctx' \in Latch /\ click' \in Latch
    BY <1>2 DEF CrashWatch, RaiseBsod
  <2> QED
    BY <2>1, <2>2, <2>3
<1>3. CASE Bsod
  BY <1>3 DEF Bsod
<1>4. CASE Wait
  BY <1>4 DEF Wait
<1>5. CASE Key
  <2>1. Tail(q) \in Seq([vk : Keys, old : BOOLEAN]) /\ Len(Tail(q)) < QLEN
    BY <1>5 DEF Key
  <2> QED
    BY <1>5, <2>1 DEF Key
<1>6. CASE KeysDone
  BY <1>6 DEF KeysDone
<1>7. CASE Pointer
  BY <1>7 DEF Pointer
<1>8. CASE Context
  BY <1>8 DEF Context
<1>9. CASE Click
  BY <1>9 DEF Click
<1>10. CASE Exec
  BY <1>10 DEF Exec
<1>11. CASE AppExit
  <2>1. /\ now' = {} /\ q' = <<>> /\ ctx' = "none"
        /\ prime' = TRUE /\ ctxA' = FALSE /\ sh' = back
        /\ UNCHANGED <<dpad, btnLast, mR, mHeld, jHeld, back, ptrWas, crash>>
    BY <1>11 DEF AppExit, Reacquire
  <2>2. activate' \in Latch /\ click' \in Latch /\ bsod' \in {"off", "up", "armed"}
    BY <1>11 DEF AppExit, Aged
  <2>3. q' \in Seq([vk : Keys, old : BOOLEAN]) /\ Len(q') < QLEN
    BY <2>1
  <2> QED
    BY <2>1, <2>2, <2>3
<1>12. CASE Crash
  BY <1>12 DEF Crash
<1> QED
  BY <1>1, <1>2, <1>3, <1>4, <1>5, <1>6, <1>7, <1>8, <1>9, <1>10, <1>11, <1>12

\* The types hold, and the queue never grows beyond its cells.
THEOREM InputPathTypes == Spec => []TypeOK
<1>1. Init => TypeOK
  <2> SUFFICES ASSUME Init PROVE TypeOK
    OBVIOUS
  <2>1. q \in Seq([vk : Keys, old : BOOLEAN]) /\ Len(q) < QLEN
    BY InputPathAssumption DEF Init
  <2>2. now \subseteq Keys /\ dpad \subseteq Dpad
    BY DEF Init
  <2>3. /\ btnLast = FALSE /\ ctxA = FALSE /\ mR = FALSE /\ mHeld = FALSE /\ jHeld = FALSE
        /\ prime = TRUE /\ ptrWas = FALSE /\ crash = FALSE
    BY DEF Init
  <2>4. \A b \in {btnLast, ctxA, mR, mHeld, jHeld, prime, ptrWas, crash} : b \in BOOLEAN
    BY <2>3
  <2> QED
    BY <2>1, <2>2, <2>4 DEF Init, TypeOK, Latch
<1>2. TypeOK /\ [Next]_vars => TypeOK'
  <2>1. TypeOK /\ UNCHANGED vars => TypeOK'
    BY DEF vars, device, latch, TypeOK
  <2> QED
    BY <2>1, PollTypes, LoopTypes DEF Next, Loop
<1> QED
  BY <1>1, <1>2, PTL DEF Spec

\* Each poll finds the queue empty, whether keys went to the desktop, to a blue
\* screen, or were dropped at a hand-off.
THEOREM PollFindsQueueEmpty == Spec => []QueueHoldsOnePoll
<1>1. IInv => QueueHoldsOnePoll
  BY DEF IInv, Drained, Holding, QueueHoldsOnePoll
<1> QED
  BY <1>1, Inductive, PTL

\* No key and no context request is carried out after a hand-off that it was
\* made before.
THEOREM NothingCrossesHandOff == Spec => []NothingFromBeforeHandOff
<1>1. IInv => NothingFromBeforeHandOff
  BY DEF IInv, Current, NothingFromBeforeHandOff
<1> QED
  BY <1>1, Inductive, PTL

\* Only input made while the blue screen was up dismisses it, and only after its
\* arm delay.
THEOREM OnlyNewInputDismisses == Spec => DismissedByNewInput
<1> DEFINE Dismissal == bsod # "off" /\ bsod' = "off" =>
                          /\ bsod = "armed"
                          /\ \/ \E i \in DOMAIN q : ~q[i].old
                             \/ "new" \in {activate, ctx, click}
<1>1. IInv /\ [Next]_vars => [Dismissal]_vars
  <2> SUFFICES ASSUME IInv, Next, bsod # "off", bsod' = "off"
               PROVE  Dismissal
    BY DEF vars
  <2>1. Bsod
    BY DEF Next, Loop, Pump, PollKeyboard, PollMouse, PollPad, CrashWatch, RaiseBsod, Key,
           KeysDone, Pointer, Context, Click, Exec, Wait, AppExit, Crash
  <2>2. bsod = "armed" /\ Any /\ sh = "bsod"
    BY <2>1 DEF Bsod
  <2>3. QueueType /\ LatchType /\ (\A i \in DOMAIN q : ~q[i].old) /\ ctx # "old"
        /\ activate # "old" /\ click # "old"
    BY <2>2 DEF IInv, Current, Screen
  <2>4. CASE q # <<>>
    <3>1. 1 \in DOMAIN q
      BY <2>3, <2>4 DEF QueueType
    <3> QED
      BY <2>2, <2>3, <3>1
  <2> QED
    BY <2>2, <2>3, <2>4 DEF Any, LatchType, Latch
<1> QED
  BY <1>1, Inductive, PTL DEF Spec, DismissedByNewInput
=============================================================================
