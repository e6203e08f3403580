------------------------------ MODULE WinSlots ------------------------------
(***************************************************************************)
(* The window slots of the shared section: how DCWin apps claim, use and   *)
(* give back a slot (dcwlib.c) and how the shell, from its own tables kept *)
(* per slot index, finds out who is there, routes input, and frees the     *)
(* slots of dead apps (dcshell.c).  Nothing tells the shell of a change;   *)
(* it polls inUse once in each iteration of its loop.                      *)
(*                                                                         *)
(* The shell outranks every app on the only processor, so one stretch of   *)
(* its loop without a blocking call is one action, and apps run while it   *)
(* waits for the vertical blank ("sleep") or for a program it starts       *)
(* ("launch").  Every shared access that matters in an app is a step.      *)
(***************************************************************************)
EXTENDS Integers, FiniteSets

CONSTANTS MAXWIN,      \* DCWIN_MAXWIN
          Pids,        \* process identifiers; each is used by one app
          NoPid,       \* ownerPid = 0
          Clear,       \* a shell flag that is 0 (see was, max and min below)
          Buttons      \* the slots whose windows the user maximizes and minimizes

Slots  == 0..MAXWIN - 1
Owners == Pids \cup {NoPid}

ASSUME WinSlotsAssumption ==
  /\ MAXWIN \in Nat \ {0} /\ NoPid \notin Pids /\ Clear \notin Owners
  /\ Buttons \subseteq Slots

VARIABLES
  \* DcWindow.  For whose window the unread keys in the ring were meant, and the
  \* requests to close ({} is wantClose = 0).
  inUse, ownerPid, wantClose, keys,
  \* The apps: where each is, the index of its DCWinOpen scan, then its slot.
  pc, slot,
  \* The shell: where it is, s_nFocus.
  sh, focus,
  \* s_abWasInUse, s_abWinMax and s_abWinMin: Clear, or else set, and then the
  \* owner the slot had at that moment, which the code does not remember.
  was, max, min,
  \* History, which no guard reads.  aim: for whose window the focus was chosen;
  \* fell: inUse of the slot has gone from 1 to 0 since the shell's last poll;
  \* shared: the living apps that have had their slot together with another.
  aim, fell, shared

window   == <<inUse, ownerPid, wantClose, keys>>
app      == <<pc, slot>>
tables   == <<was, max, min>>
history  == <<aim, fell, shared>>
vars     == <<window, app, sh, focus, tables, history>>

Init ==
  /\ inUse = [s \in Slots |-> FALSE] /\ ownerPid = [s \in Slots |-> NoPid]
  /\ wantClose = [s \in Slots |-> {}] /\ keys = wantClose
  /\ pc = [p \in Pids |-> "off"] /\ slot = [p \in Pids |-> 0]
  /\ sh = "input" /\ focus = -1
  /\ was = [s \in Slots |-> Clear] /\ max = was /\ min = was
  /\ aim = NoPid /\ fell = inUse /\ shared = {}
-----------------------------------------------------------------------------
(* The apps.                                                               *)

Opening == {"scan", "clear", "fill", "publish"}
Alive(p) == pc[p] \notin {"off", "gone"}

\* An app has a slot from the moment it finds it free.
HasSlot(p) == pc[p] \in {"clear", "fill", "publish", "run"}
Sharers(p) == {q \in Pids \ {p} : HasSlot(q) /\ slot[q] = slot[p]}

\* The falls of inUse in this step are added to those since the last poll.
Falls == fell' = [s \in Slots |-> fell[s] \/ (inUse[s] /\ ~inUse'[s])]

\* The process ends, and what it knew of its slot goes with it.
Exit(p) ==
  /\ pc' = [pc EXCEPT ![p] = "gone"] /\ slot' = [slot EXCEPT ![p] = 0]
  /\ shared' = shared \ {p}

AppsRun == sh \in {"sleep", "launchInput", "launchExec"}

\* The new process reaches DCWinOpen; the section is mapped and has its magic.
EnterOpen(p) ==
  /\ AppsRun /\ pc[p] = "start"
  /\ pc' = [pc EXCEPT ![p] = "scan"] /\ slot' = [slot EXCEPT ![p] = 0]
  /\ UNCHANGED <<window, sh, focus, tables, history>>

\* Look at one slot: take it if it is free, go on if not, fail after the last.
OpenScan(p) ==
  /\ AppsRun /\ pc[p] = "scan"
  /\ IF ~inUse[slot[p]]
       THEN /\ pc' = [pc EXCEPT ![p] = "clear"] /\ UNCHANGED slot
            /\ shared' = shared \cup Sharers(p) \cup {q \in {p} : Sharers(p) # {}}
     ELSE IF slot[p] + 1 < MAXWIN
       THEN slot' = [slot EXCEPT ![p] = @ + 1] /\ UNCHANGED <<pc, shared>>
       ELSE Exit(p)
  /\ UNCHANGED <<window, sh, focus, tables, aim, fell>>

\* memset of the whole slot
OpenClear(p) ==
  /\ AppsRun /\ pc[p] = "clear"
  /\ inUse' = [inUse EXCEPT ![slot[p]] = FALSE]
  /\ ownerPid' = [ownerPid EXCEPT ![slot[p]] = NoPid]
  /\ wantClose' = [wantClose EXCEPT ![slot[p]] = {}]
  /\ keys' = [keys EXCEPT ![slot[p]] = {}]
  /\ pc' = [pc EXCEPT ![p] = "fill"] /\ Falls
  /\ UNCHANGED <<slot, sh, focus, tables, aim, shared>>

OpenFill(p) ==
  /\ AppsRun /\ pc[p] = "fill"
  /\ ownerPid' = [ownerPid EXCEPT ![slot[p]] = p]
  /\ pc' = [pc EXCEPT ![p] = "publish"]
  /\ UNCHANGED <<inUse, wantClose, keys, slot, sh, focus, tables, history>>

OpenPublish(p) ==
  /\ AppsRun /\ pc[p] = "publish"
  /\ inUse' = [inUse EXCEPT ![slot[p]] = TRUE]
  /\ pc' = [pc EXCEPT ![p] = "run"]
  /\ UNCHANGED <<ownerPid, wantClose, keys, slot, sh, focus, tables, history>>

\* Mutant: with the keys the app takes the request to close out of the slot.
PollAll(p) ==
  /\ AppsRun /\ pc[p] = "run" /\ keys[slot[p]] # {}
  /\ keys' = [keys EXCEPT ![slot[p]] = {}]
  /\ wantClose' = [wantClose EXCEPT ![slot[p]] = {}]
  /\ UNCHANGED <<inUse, ownerPid, app, sh, focus, tables, history>>
\* while (DCWinPollKey(w, &key)) ...
PollKeys(p) ==
  /\ AppsRun /\ pc[p] = "run" /\ keys[slot[p]] # {}
  /\ keys' = [keys EXCEPT ![slot[p]] = {}]
  /\ UNCHANGED <<inUse, ownerPid, wantClose, app, sh, focus, tables, history>>

ShouldClose(p) == wantClose[slot[p]] # {}

\* DCWinClose and exit, on the shell's request or for the app's own reasons.
Close(p) ==
  /\ AppsRun /\ pc[p] = "run"
  /\ inUse' = [inUse EXCEPT ![slot[p]] = FALSE]
  /\ Exit(p) /\ Falls
  /\ UNCHANGED <<ownerPid, wantClose, keys, sh, focus, tables, aim>>

\* A fault, or Task Manager's End Task: the process is gone, its slot stays.
Die(p) ==
  /\ AppsRun /\ Alive(p)
  /\ Exit(p)
  /\ UNCHANGED <<window, sh, focus, tables, aim, fell>>

AppNext ==
  \E p \in Pids :
    \/ EnterOpen(p) \/ OpenScan(p) \/ OpenClear(p) \/ OpenFill(p)
    \/ OpenPublish(p) \/ PollKeys(p) \/ Close(p) \/ Die(p)
-----------------------------------------------------------------------------
(* The shell: one iteration of WinMain's loop goes through input, context, *)
(* exec and tick.  While the blue screen is up it does none of this.       *)

Visible(s) == inUse[s] /\ min[s] = Clear
Focused == focus >= 0 /\ inUse[focus]

\* History: what the user does to the window of slot s is meant for the app that
\* the shell found there at its last poll, or for a window that has come since.
Meant(s) == IF was[s] = Clear THEN ownerPid[s] ELSE was[s]

\* Input for q that lands in slot s.  If the slot was freed since the shell's last
\* poll, the shell cannot know of it, and the input counts as meant for who is there.
Counts(s, q) == IF fell[s] THEN ownerPid[s] ELSE q

FocusOn(f) == focus' = f /\ aim' = IF f = -1 THEN NoPid ELSE Meant(f)

Push(s, q) == keys' = [keys EXCEPT ![s] = @ \cup {Counts(s, q)}]
AskToClose(s, q) == wantClose' = [wantClose EXCEPT ![s] = @ \cup {Counts(s, q)}]

Wake ==
  /\ sh = "sleep" /\ sh' = "input"
  /\ UNCHANGED <<window, app, focus, tables, history>>

\* OnKey: a key for the focused window.
KeyToFocus ==
  /\ sh = "input" /\ Focused /\ Push(focus, aim)
  /\ UNCHANGED <<inUse, ownerPid, wantClose, app, sh, focus, tables, history>>

\* Escape in OnKey, ALT+F4, or START+A.
CloseFocus ==
  /\ sh = "input" /\ Focused /\ AskToClose(focus, aim)
  /\ UNCHANGED <<inUse, ownerPid, keys, app, sh, focus, tables, history>>

Later == {s \in Slots : s > focus /\ inUse[s]}

ComesNext(f) ==
  IF Later = {} THEN f = -1 ELSE f \in Later /\ \A s \in Later : f <= s

\* TAB, with at least one window open.
CycleFocus ==
  /\ sh = "input" /\ \E s \in Slots : inUse[s]
  /\ \E f \in -1..MAXWIN : ComesNext(f) /\ FocusOn(f)
  /\ UNCHANGED <<window, app, sh, tables, fell, shared>>

\* HandleClick and DragHitTest, by what is under the cursor.  A click is a
\* release without motion ("input") or a WM tap ("context").
ClickTaskbar(s) ==
  /\ sh \in {"input", "context"} /\ inUse[s]
  /\ min' = [min EXCEPT ![s] = Clear] /\ FocusOn(s)
  /\ UNCHANGED <<window, app, sh, was, max, fell, shared>>

\* A tap on a window's body, or a press on its title bar or corner.
FocusWindow(s) ==
  /\ sh \in {"input", "context"} /\ Visible(s)
  /\ FocusOn(s)
  /\ UNCHANGED <<window, app, sh, tables, fell, shared>>

\* A click on a window's body (HandleClick = 0) is followed by OnKey(VK_RETURN).
ClickBody(s) ==
  /\ sh = "input" /\ Visible(s)
  /\ FocusOn(s) /\ Push(s, Meant(s))
  /\ UNCHANGED <<inUse, ownerPid, wantClose, app, sh, tables, fell, shared>>

ClickClose(s) ==
  /\ sh \in {"input", "context"} /\ Visible(s) /\ AskToClose(s, Meant(s))
  /\ UNCHANGED <<inUse, ownerPid, keys, app, sh, focus, tables, history>>

\* ToggleMaximize
ClickMaximize(s) ==
  /\ sh \in {"input", "context"} /\ Visible(s) /\ s \in Buttons
  /\ max' = [max EXCEPT ![s] = IF @ = Clear THEN ownerPid[s] ELSE Clear]
  /\ UNCHANGED <<window, app, sh, focus, was, min, history>>

ClickMinimize(s) ==
  /\ sh \in {"input", "context"} /\ Visible(s) /\ s \in Buttons
  /\ min' = [min EXCEPT ![s] = ownerPid[s]]
  /\ IF focus = s THEN FocusOn(-1) ELSE UNCHANGED <<focus, aim>>
  /\ UNCHANGED <<window, app, sh, was, max, fell, shared>>

\* The pointer is handed to the window under it; no property reads where it is.
PublishPointer ==
  /\ sh = "input" /\ sh' = "context"
  /\ UNCHANGED <<window, app, focus, tables, history>>

\* A context request over a window: VK_APPS.
ContextKey(s) ==
  /\ sh = "context" /\ Visible(s)
  /\ FocusOn(s) /\ Push(s, Meant(s))
  /\ UNCHANGED <<inUse, ownerPid, wantClose, app, sh, tables, fell, shared>>

New == {s \in Slots : inUse[s] /\ was[s] = Clear}

\* What the shell finds at this poll: the windows, and its focus.
Polled ==
  /\ was' = [s \in Slots |-> IF inUse[s] THEN ownerPid[s] ELSE Clear]
  /\ aim' = IF focus' = -1 THEN NoPid ELSE ownerPid[focus']
  /\ fell' = [s \in Slots |-> FALSE]

\* Mutant: the focus is not dropped when the window it is on has closed.
FixupKeep ==
  /\ sh = "context" /\ sh' = "exec"
  /\ \/ \E s \in New : (\A t \in New : t <= s) /\ focus' = s
     \/ New = {} /\ focus' = focus
  /\ Polled
  /\ UNCHANGED <<window, app, max, min, shared>>
FixupFocus ==
  /\ sh = "context" /\ sh' = "exec"
  /\ \/ \E s \in New : (\A t \in New : t <= s) /\ focus' = s
     \/ New = {} /\ focus' = IF Focused THEN focus ELSE -1
  /\ Polled
  /\ UNCHANGED <<window, app, max, min, shared>>

\* LaunchApp of a DCWin app, from an icon, a menu, CTRL+ALT+DEL or a request in
\* execPath; or GfxLaunch of another program.  Both block the shell.
LaunchStarted == \/ UNCHANGED pc
                 \/ \E p \in Pids : pc[p] = "off" /\ pc' = [pc EXCEPT ![p] = "start"]

Launch ==
  /\ \/ sh = "input" /\ sh' = "launchInput"
     \/ sh = "exec" /\ sh' = "launchExec"
  /\ LaunchStarted
  /\ UNCHANGED <<window, slot, focus, tables, history>>

LaunchDone ==
  /\ \/ sh = "launchInput" /\ sh' = "input"
     \/ sh = "launchExec" /\ sh' = "tick"
  /\ UNCHANGED <<window, app, focus, tables, history>>

NoExec == sh = "exec" /\ sh' = "tick" /\ UNCHANGED <<window, app, focus, tables, history>>

\* The end of the iteration: free slots are forgotten to be maximized or
\* minimized, then Render, GfxPresent and the wait for the blank.
ResetFlags(table) == [s \in Slots |-> IF inUse'[s] THEN table[s] ELSE Clear]

NoTick ==
  /\ sh = "tick" /\ sh' = "sleep"
  /\ UNCHANGED window
  /\ max' = ResetFlags(max) /\ min' = ResetFlags(min)
  /\ UNCHANGED <<app, focus, was, history>>

\* Mutants: the reaper does not ask whether the owner is alive; it starts at 1.
AnyOwner(s) == inUse[s] /\ ownerPid[s] # NoPid
GhostButFirst(s) == s # 0 /\ inUse[s] /\ ownerPid[s] # NoPid /\ ~Alive(ownerPid[s])
\* The slot names an owner that OpenProcess cannot find.
Ghost(s) == inUse[s] /\ ownerPid[s] # NoPid /\ ~Alive(ownerPid[s])

\* Once a second ReapDeadWindows comes first.
Tick ==
  /\ sh = "tick" /\ sh' = "sleep"
  /\ inUse' = [s \in Slots |-> inUse[s] /\ ~Ghost(s)]
  /\ max' = ResetFlags(max) /\ min' = ResetFlags(min) /\ Falls
  /\ UNCHANGED <<ownerPid, wantClose, keys, app, focus, was, aim, shared>>

Input ==
  \/ KeyToFocus \/ CloseFocus \/ CycleFocus
  \/ \E s \in Slots :
       \/ ClickTaskbar(s) \/ FocusWindow(s) \/ ClickBody(s) \/ ClickClose(s)
       \/ ClickMaximize(s) \/ ClickMinimize(s) \/ ContextKey(s)

ShellNext ==
  Wake \/ Input \/ PublishPointer \/ FixupFocus \/ Launch \/ LaunchDone
  \/ NoExec \/ NoTick \/ Tick
-----------------------------------------------------------------------------
Next == AppNext \/ ShellNext

Spec == Init /\ [][Next]_vars

\* The input of one iteration is finite, what the shell launches returns, its
\* clock ticks, and an app in its loop looks at wantClose each time round.
Fairness ==
  /\ WF_vars(Wake) /\ SF_vars(PublishPointer) /\ WF_vars(FixupFocus)
  /\ WF_vars(LaunchDone) /\ WF_vars(NoExec) /\ SF_vars(Tick)
  /\ \A p \in Pids : SF_vars(ShouldClose(p) /\ Close(p))

FairSpec == Spec /\ Fairness
-----------------------------------------------------------------------------
TypeOK ==
  /\ inUse \in [Slots -> BOOLEAN] /\ ownerPid \in [Slots -> Owners]
  /\ wantClose \in [Slots -> SUBSET Owners] /\ keys \in [Slots -> SUBSET Owners]
  /\ pc \in [Pids -> {"off", "start", "run", "gone"} \cup Opening]
  /\ slot \in [Pids -> Slots] /\ focus \in Slots \cup {-1}
  /\ sh \in {"input", "context", "exec", "tick", "sleep", "launchInput", "launchExec"}
  /\ was \in [Slots -> Owners \cup {Clear}]
  /\ max \in [Slots -> Owners \cup {Clear}] /\ min \in [Slots -> Owners \cup {Clear}]
  /\ aim \in Owners /\ fell \in [Slots -> BOOLEAN] /\ shared \subseteq Pids

\* A running app that never had its slot together with another owns it: the slot
\* is in use and carries its process id until the app itself closes.  The reaper
\* takes no slot from a live app, and nothing else takes it, unless two apps got
\* past DCWinOpen's scan with the same slot (dcwlib.c:36 has no lock).
RunningOwns ==
  \A p \in Pids \ shared :
    pc[p] = "run" => inUse[slot[p]] /\ ownerPid[slot[p]] = p

\* A key or a request to close that waits for such an app was meant for it: it was
\* not left by the last user of the slot, and it was not sent there because the
\* focus still stood for an earlier window.  The shell learns of a freed slot only
\* by its poll, so until that poll Counts lets the input be for the next app.
InputForOwner ==
  \A p \in Pids \ shared :
    pc[p] = "run" => keys[slot[p]] \cup wantClose[slot[p]] \subseteq {p}

\* An app that is asked to close, in whatever way, is gone some time later: its
\* request is not taken by another app, nor wiped out with the slot.
CloseAnswered ==
  \A p \in Pids : (pc[p] = "run" /\ p \notin shared /\ ShouldClose(p)) ~> pc[p] = "gone"

\* No slot stays with a dead app for good ("otherwise the slot stays inUse and
\* ghosts forever", dcshell.c:928).
Ghostly(s) == inUse[s] /\ ownerPid[s] \in Pids /\ pc[ownerPid[s]] = "gone"
GhostsReaped == \A s \in Slots : Ghostly(s) ~> ~Ghostly(s)

\* dcwlib.c:59 says of inUse "publish only once fully initialised": a slot in use
\* carries the process id of its owner.
PublishedIsInitialised == \A s \in Slots : inUse[s] => ownerPid[s] # NoPid

\* dcshell.c:288 says of the maximized and minimized flags "Both reset when a
\* slot frees so a reused slot is normal": when the shell handles input, a flag
\* that is set was set for the window that is there (if no slot is shared).
ReusedSlotNormal ==
  sh = "input" /\ shared = {} => \A s \in Slots : inUse[s] => /\ max[s] \in {Clear, ownerPid[s]}
                                               /\ min[s] \in {Clear, ownerPid[s]}
=============================================================================
