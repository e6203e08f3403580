----------------------------- MODULE InputPath -----------------------------
(***************************************************************************)
(* From the devices to the handlers of the shell: the poll of keyboard,    *)
(* mouse and controller (DInUpdate of dcinput.c) with its queue of keys,   *)
(* its edges and its one-shot latches, and WinMain's loop (dcshell.c) that *)
(* consumes them, or lets the blue screen consume them, or hands all       *)
(* devices to a full-screen program and takes them back.                   *)
(*                                                                         *)
(* A button is seen when it is polled, so each poll picks what is down.    *)
(* Times are choices: whether a repeat is due, whether the settle window   *)
(* of the controller or the arm delay of the blue screen is over.  All     *)
(* three devices are there; a read may fail.  START only adds to activate, *)
(* and hotkeys and the motion of the cursor are left out.                  *)
(***************************************************************************)
EXTENDS Integers, Sequences, FiniteSets

CONSTANTS NMAP,    \* entries of g_aMap, the arrows first
          Nav,     \* those that repeat
          NDPAD,   \* directions of the D-pad
          QLEN     \* cells of g_aQ

Keys == 1..NMAP
Dpad == 1..NDPAD

ASSUME InputPathAssumption ==
  /\ NMAP \in Nat /\ NDPAD \in 0..NMAP /\ Nav \subseteq Keys
  /\ QLEN \in Nat /\ NMAP + NDPAD < QLEN

VARIABLES
  now, dpad,             \* g_aNow and g_aDpadHeld: what the last poll saw down
  btnLast, ctxA, mR,     \* g_nBtnLast, g_nCtxAHeld, g_nMbtnLast
  mHeld, jHeld,          \* g_nMHeld, g_nJHeld
  prime,                 \* before g_dwJoyPrimeUntil
  q,                     \* the queue; old tells that a key is from before the
                         \* last hand-off or blue screen
  activate, ctx, click,  \* the latches, with the same history
  sh, back,              \* where the loop is, and where it goes on after a program
  ptrWas,                \* s_bPtrWas
  bsod, crash            \* s_bBsod: "up" within the arm delay; a report waits

device == <<now, dpad, btnLast, ctxA, mR, mHeld, jHeld, prime>>
latch  == <<activate, ctx, click>>
vars   == <<device, q, latch, sh, back, ptrWas, bsod, crash>>

Init ==
  /\ now = {} /\ dpad = {} /\ btnLast = FALSE /\ ctxA = FALSE /\ mR = FALSE
  /\ mHeld = FALSE /\ jHeld = FALSE /\ prime = TRUE
  /\ q = <<>> /\ activate = "none" /\ ctx = "none" /\ click = "none"
  /\ sh = "pump" /\ back = "pump" /\ ptrWas = FALSE
  /\ bsod = "off" /\ crash = FALSE
-----------------------------------------------------------------------------
(* dcinput.c                                                               *)

Room == QLEN - 1 - Len(q)

\* The members of S in the order of the table (there is one such sequence).
InOrder(S) == {s \in [1..Cardinality(S) -> S] : \A i, j \in DOMAIN s : i < j => s[i] < s[j]}

\* Push for each key of a poll; a full queue drops the rest.
Pushed(vks) ==
  q \o [i \in 1..(IF Len(vks) < Room THEN Len(vks) ELSE Room) |-> [vk |-> vks[i], old |-> FALSE]]

\* s_adwDpadVk, whose entries are the first four of g_aMap
Vk(i) == i

PollKeyboard ==
  /\ sh = "poll" /\ sh' = "mouse"
  /\ \/ UNCHANGED <<now, q>>
     \/ \E down \in SUBSET Keys, due \in SUBSET Nav :
          /\ now' = down
          /\ \E vks \in InOrder((down \ now) \cup (down \cap now \cap due)) : q' = Pushed(vks)
  /\ UNCHANGED <<dpad, btnLast, ctxA, mR, mHeld, jHeld, prime, latch, back, ptrWas,
                 bsod, crash>>

PollMouse ==
  /\ sh = "mouse" /\ sh' = "pad"
  /\ \/ UNCHANGED <<mHeld, mR, ctx>>
     \/ \E left, right \in BOOLEAN :
          /\ mHeld' = left /\ mR' = right
          /\ ctx' = IF right /\ ~mR THEN "new" ELSE ctx
  /\ UNCHANGED <<now, dpad, btnLast, ctxA, jHeld, prime, q, activate, click, back,
                 ptrWas, bsod, crash>>

PollPad ==
  /\ sh = "pad" /\ sh' = "watch"
  /\ \/ UNCHANGED <<dpad, btnLast, ctxA, jHeld, q, activate, ctx>>
     \/ \E dn, due \in SUBSET Dpad, a, lt \in BOOLEAN :
          LET arrows == InOrder((dn \ dpad) \cup (dn \cap due))
          IN /\ dpad' = dn /\ btnLast' = (a /\ ~lt) /\ ctxA' = (a /\ lt)
             /\ jHeld' = (a /\ ~lt /\ ~prime)
             /\ IF prime THEN q' = q
                ELSE \E s \in arrows : q' = Pushed([i \in DOMAIN s |-> Vk(s[i])])
             /\ activate' = IF ~prime /\ a /\ ~lt /\ ~btnLast THEN "new" ELSE activate
             /\ ctx' = IF ~prime /\ a /\ lt /\ ~ctxA THEN "new" ELSE ctx
  /\ UNCHANGED <<now, mR, mHeld, prime, click, back, ptrWas, bsod, crash>>

Aged(l) == IF l = "none" THEN l ELSE "old"
AgedQueue == [i \in DOMAIN q |-> [q[i] EXCEPT !.old = TRUE]]

\* Mutant: the keys and the context request from before the hand-off stay.
ReacquireKeeping ==
  /\ now' = {} /\ prime' = TRUE /\ ctxA' = FALSE
  /\ q' = AgedQueue /\ ctx' = Aged(ctx)
  /\ UNCHANGED <<dpad, btnLast, mR, mHeld, jHeld>>
\* DInReacquire
Reacquire ==
  /\ now' = {} /\ prime' = TRUE /\ ctxA' = FALSE
  /\ q' = <<>> /\ ctx' = "none"
  /\ UNCHANGED <<dpad, btnLast, mR, mHeld, jHeld>>
-----------------------------------------------------------------------------
(* The loop of dcshell.c                                                   *)

\* WM_LBUTTONDOWN posts a click.
Pump ==
  /\ sh = "pump" /\ sh' = "poll"
  /\ click' \in {click, "new"}
  /\ UNCHANGED <<device, q, activate, ctx, back, ptrWas, bsod, crash>>

\* An app faults.
Crash ==
  /\ sh \in {"wait", "app"} /\ ~crash /\ crash' = TRUE
  /\ UNCHANGED <<device, q, latch, sh, back, ptrWas, bsod>>

\* Mutant: the input from before the fault is not dropped.
RaiseKeeping ==
  /\ bsod' = "up"
  /\ q' = AgedQueue /\ activate' = Aged(activate) /\ ctx' = Aged(ctx) /\ click' = Aged(click)
RaiseBsod ==
  /\ bsod' = "up"
  /\ q' = <<>> /\ activate' = "none" /\ ctx' = "none" /\ click' = "none"

CrashWatch ==
  /\ sh = "watch" /\ crash' = FALSE
  /\ sh' = IF crash \/ bsod # "off" THEN "bsod" ELSE "keys"
  /\ IF crash THEN RaiseBsod ELSE UNCHANGED <<bsod, q, latch>>
  /\ UNCHANGED <<device, back, ptrWas>>

Any == q # <<>> \/ activate # "none" \/ ctx # "none" \/ click # "none"

\* Mutants: the queue is not emptied within the arm delay; only a key dismisses
\* that follows a button.
BsodUndrained ==
  /\ sh = "bsod" /\ sh' = "wait"
  /\ IF bsod = "armed" /\ Any
       THEN bsod' = "off" /\ q' = <<>> /\ activate' = "none" /\ UNCHANGED <<ctx, click>>
       ELSE UNCHANGED <<bsod, q, latch>>
  /\ UNCHANGED <<device, back, ptrWas, crash>>
BsodButtons ==
  /\ sh = "bsod" /\ sh' = "wait" /\ q' = <<>>
  /\ IF bsod = "armed" /\ (activate # "none" \/ ctx # "none" \/ click # "none")
       THEN bsod' = "off" /\ activate' = "none" /\ UNCHANGED <<ctx, click>>
       ELSE UNCHANGED <<bsod, latch>>
  /\ UNCHANGED <<device, back, ptrWas, crash>>
\* Any key or latch dismisses the blue screen; the first that is set is taken, and
\* the ones after it stay.
Bsod ==
  /\ sh = "bsod" /\ sh' = "wait" /\ q' = <<>>
  /\ IF bsod = "armed" /\ Any
       THEN /\ bsod' = "off"
            /\ activate' = IF q # <<>> THEN activate ELSE "none"
            /\ ctx' = IF q # <<>> \/ activate # "none" THEN ctx ELSE "none"
            /\ click' = IF q # <<>> \/ activate # "none" \/ ctx # "none" THEN click ELSE "none"
       ELSE UNCHANGED <<bsod, latch>>
  /\ UNCHANGED <<device, back, ptrWas, crash>>

\* ShellLaunch of a full-screen program, and then on with the loop at next.
Continue(next) == sh' = next /\ UNCHANGED back
Launch(next)   == sh' = "app" /\ back' = next

\* OnKey
Key ==
  /\ sh = "keys" /\ q # <<>> /\ q' = Tail(q)
  /\ Continue("keys") \/ Launch("keys")
  /\ UNCHANGED <<device, latch, ptrWas, bsod, crash>>

KeysDone ==
  /\ sh = "keys" /\ q = <<>> /\ Continue("pointer")
  /\ UNCHANGED <<device, q, latch, ptrWas, bsod, crash>>

\* The button goes down, stays, or goes up, and then it may have been a click.
Pointer ==
  /\ sh = "pointer"
  /\ ptrWas' = (mHeld \/ jHeld)
  /\ Continue("context") \/ (ptrWas /\ ~ptrWas' /\ Launch("context"))
  /\ UNCHANGED <<device, q, latch, bsod, crash>>

\* DInTookContext, then DInTookClick and HandleClick
Context ==
  /\ sh = "context" /\ ctx' = "none" /\ Continue("click")
  /\ UNCHANGED <<device, q, activate, click, ptrWas, bsod, crash>>

Click ==
  /\ sh = "click" /\ click' = "none"
  /\ Continue("exec") \/ (click # "none" /\ Launch("exec"))
  /\ UNCHANGED <<device, q, activate, ctx, ptrWas, bsod, crash>>

\* execPath
Exec ==
  /\ sh = "exec" /\ (Continue("wait") \/ Launch("wait"))
  /\ UNCHANGED <<device, q, latch, ptrWas, bsod, crash>>

\* The wait for the blank, in which time goes on.
Wait ==
  /\ sh = "wait" /\ sh' = "pump"
  /\ prime' \in {prime, FALSE}
  /\ bsod' \in {bsod, IF bsod = "up" THEN "armed" ELSE bsod}
  /\ UNCHANGED <<now, dpad, btnLast, ctxA, mR, mHeld, jHeld, q, latch, back, ptrWas,
                 crash>>

\* The program exits, perhaps with the code of a fault (CheckFullscreenCrash).  Two
\* latches survive.
AppExit ==
  /\ sh = "app" /\ sh' = back
  /\ Reacquire
  /\ \/ UNCHANGED bsod /\ activate' = Aged(activate) /\ click' = Aged(click)
     \/ bsod' = "up" /\ activate' = "none" /\ click' = "none"
  /\ UNCHANGED <<back, ptrWas, crash>>

Loop ==
  \/ Pump \/ PollKeyboard \/ PollMouse \/ PollPad \/ CrashWatch \/ Bsod \/ Key \/ KeysDone
  \/ Pointer \/ Context \/ Click \/ Exec \/ Wait \/ AppExit

Next == Loop \/ Crash

\* The loop never stops, programs exit, and the arm delay ends.
Fairness == WF_vars(Loop) /\ SF_vars(Wait /\ bsod' # "up")

Spec == Init /\ [][Next]_vars /\ Fairness
-----------------------------------------------------------------------------
Latch == {"none", "new", "old"}

TypeOK ==
  /\ now \subseteq Keys /\ dpad \subseteq Dpad
  /\ \A b \in {btnLast, ctxA, mR, mHeld, jHeld, prime, ptrWas, crash} : b \in BOOLEAN
  /\ q \in Seq([vk : Keys, old : BOOLEAN]) /\ Len(q) < QLEN
  /\ activate \in Latch /\ ctx \in Latch /\ click \in Latch
  /\ sh \in {"pump", "poll", "mouse", "pad", "watch", "bsod", "keys", "pointer",
             "context", "click", "exec", "wait", "app"}
  /\ back \in {"pump", "keys", "context", "exec", "wait"}
  /\ bsod \in {"off", "up", "armed"}

\* No key that was pressed is dropped because the queue is full, neither behind a
\* blue screen nor after a program that ran for hours: each poll finds the queue
\* empty, and what one poll can add fits.
QueueHoldsOnePoll == sh = "poll" => q = <<>>

\* A key or a context request from before a hand-off is not carried out when the
\* program has come back.
NothingFromBeforeHandOff ==
  /\ sh = "keys" => \A i \in DOMAIN q : ~q[i].old
  /\ sh = "context" => ctx # "old"

\* The blue screen is dismissed after its arm delay only, and by input that came
\* while it was up; the press that made the program crash is not such input.
DismissedByNewInput ==
  [][bsod # "off" /\ bsod' = "off" =>
       /\ bsod = "armed"
       /\ \/ \E i \in DOMAIN q : ~q[i].old
          \/ "new" \in {activate, ctx, click}]_vars

\* Whoever keeps pressing keys gets rid of the blue screen, unless programs keep
\* crashing.
BsodGoesAway ==
  <>[]~crash /\ []<>(sh = "mouse" /\ q # <<>>) => (bsod # "off" ~> bsod = "off")
=============================================================================
