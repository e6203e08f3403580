--------------------------- MODULE WinSlotsProofs ---------------------------
(***************************************************************************)
(* For any number of slots and apps, and with apps opening windows at the  *)
(* same time: an app that has had its slot to itself owns it and is handed *)
(* only its own input, whatever the shell, the reaper, the deaths of apps  *)
(* and the double claims of other slots do meanwhile.                      *)
(***************************************************************************)
EXTENDS WinSlots, TLAPS

\* What holds of an app r that has a slot and has had it to itself.
Alone(r) == \A q \in Pids \ {r} : HasSlot(q) => slot[q] # slot[r]

\* Before it publishes the slot: the slot is not in use, and from the memset on it
\* holds nothing of its past.
Opens(r) ==
  /\ pc[r] \in {"clear", "fill", "publish"} => ~inUse[slot[r]]
  /\ pc[r] \in {"fill", "publish"} => keys[slot[r]] = {} /\ wantClose[slot[r]] = {}
  /\ pc[r] = "publish" => ownerPid[slot[r]] = r

\* Afterwards, what the shell knows of the slot is of r, unless it was freed since
\* the shell's last poll.
Runs(r) ==
  pc[r] = "run" =>
    /\ inUse[slot[r]] /\ ownerPid[slot[r]] = r
    /\ keys[slot[r]] \cup wantClose[slot[r]] \subseteq {r}
    /\ ~fell[slot[r]] => was[slot[r]] \in {Clear, r} /\ (focus = slot[r] => aim = r)

Holds(r) == HasSlot(r) => Alone(r) /\ Opens(r) /\ Runs(r)

\* As long as no window of the slot has gone since its poll, the shell takes no free
\* slot for a window and has no focus on one.
PollKnows(s) == ~fell[s] => (~inUse[s] => was[s] = Clear) /\ (focus = s => inUse[s])

Owns ==
  /\ \A r \in Pids \ shared : Holds(r)
  /\ \A s \in Slots : PollKnows(s)

LEMMA InitTypes == Init => TypeOK
BY WinSlotsAssumption DEF Init, TypeOK, Slots, Owners, Opening

LEMMA FallsTypes == ASSUME Falls PROVE fell' \in [Slots -> BOOLEAN]
BY DEF Falls

LEMMA ExitTypes ==
  ASSUME TypeOK, NEW p \in Pids, Exit(p)
  PROVE  /\ pc' \in [Pids -> {"off", "start", "run", "gone"} \cup Opening]
         /\ slot' \in [Pids -> Slots] /\ shared' \subseteq Pids
BY WinSlotsAssumption DEF Exit, TypeOK, Slots

LEMMA MeantType == ASSUME TypeOK, NEW s \in Slots PROVE Meant(s) \in Owners
BY DEF TypeOK, Meant

LEMMA FocusTypes ==
  ASSUME TypeOK, NEW f \in Slots \cup {-1}, FocusOn(f)
  PROVE  focus' \in Slots \cup {-1} /\ aim' \in Owners
BY MeantType, NoPid \in Owners, f = -1 \/ f \in Slots DEF FocusOn, Owners

LEMMA AddTypes ==
  ASSUME TypeOK, NEW s \in Slots, NEW q \in Owners
  PROVE  /\ Push(s, q) => keys' \in [Slots -> SUBSET Owners]
         /\ AskToClose(s, q) => wantClose' \in [Slots -> SUBSET Owners]
<1>1. Counts(s, q) \in Owners
  BY DEF TypeOK, Counts
<1>2. ASSUME NEW table \in [Slots -> SUBSET Owners]
      PROVE  [table EXCEPT ![s] = @ \cup {Counts(s, q)}] \in [Slots -> SUBSET Owners]
  BY <1>1, <1>2
<1> QED
  BY <1>2 DEF TypeOK, Push, AskToClose

LEMMA AppTypes == ASSUME TypeOK, AppNext PROVE TypeOK'
<1> USE WinSlotsAssumption DEF Slots, Owners, Opening, TypeOK, window, app, tables, history
<1> PICK p \in Pids : \/ EnterOpen(p) \/ OpenScan(p) \/ OpenClear(p) \/ OpenFill(p)
                      \/ OpenPublish(p) \/ PollKeys(p) \/ Close(p) \/ Die(p)
  BY DEF AppNext
<1>1. CASE EnterOpen(p)
  BY <1>1 DEF EnterOpen
<1>2. CASE OpenScan(p)
  <2>0. UNCHANGED <<window, sh, focus, tables, aim, fell>>
    BY <1>2 DEF OpenScan
  <2>1. CASE ~inUse[slot[p]]
    <3>1. shared' = shared \cup Sharers(p) \cup {q \in {p} : Sharers(p) # {}}
      BY <1>2, <2>1 DEF OpenScan
    <3>2. shared' \subseteq Pids
      BY <3>1 DEF Sharers
    <3>3. pc' = [pc EXCEPT ![p] = "clear"] /\ slot' = slot
      BY <1>2, <2>1 DEF OpenScan
    <3> QED
      BY <2>0, <3>2, <3>3
  <2>2. CASE inUse[slot[p]] /\ slot[p] + 1 < MAXWIN
    <3>1. slot' = [slot EXCEPT ![p] = @ + 1] /\ UNCHANGED <<pc, shared>>
      BY <1>2, <2>2 DEF OpenScan
    <3>2. slot[p] + 1 \in Slots
      BY <2>2
    <3> QED
      BY <2>0, <3>1, <3>2
  <2>3. CASE inUse[slot[p]] /\ ~(slot[p] + 1 < MAXWIN)
    <3>1. Exit(p)
      BY <1>2, <2>3 DEF OpenScan
    <3> QED
      BY <2>0, <3>1, ExitTypes
  <2> QED
    BY <2>1, <2>2, <2>3
<1>3. CASE OpenClear(p)
  BY <1>3, FallsTypes DEF OpenClear
<1>4. CASE OpenFill(p)
  BY <1>4 DEF OpenFill
<1>5. CASE OpenPublish(p)
  BY <1>5 DEF OpenPublish
<1>6. CASE PollKeys(p)
  BY <1>6 DEF PollKeys
<1>7. CASE Close(p)
  BY <1>7, ExitTypes, FallsTypes DEF Close
<1>8. CASE Die(p)
  BY <1>8, ExitTypes DEF Die
<1> QED
  BY <1>1, <1>2, <1>3, <1>4, <1>5, <1>6, <1>7, <1>8

LEMMA InputTypes == ASSUME TypeOK, Input PROVE TypeOK'
<1> USE DEF TypeOK, window, app, tables, history
<1>1. CASE KeyToFocus
  <2>1. focus \in Slots /\ aim \in Owners /\ Push(focus, aim)
    BY <1>1, WinSlotsAssumption DEF KeyToFocus, Focused, Slots
  <2> QED
    BY <1>1, <2>1, AddTypes DEF KeyToFocus
<1>2. CASE CloseFocus
  <2>1. focus \in Slots /\ aim \in Owners /\ AskToClose(focus, aim)
    BY <1>2, WinSlotsAssumption DEF CloseFocus, Focused, Slots
  <2> QED
    BY <1>2, <2>1, AddTypes DEF CloseFocus
<1>3. CASE CycleFocus
  <2>1. PICK f \in -1..MAXWIN : ComesNext(f) /\ FocusOn(f)
    BY <1>3 DEF CycleFocus
  <2>2. f \in Slots \cup {-1}
    BY <2>1 DEF ComesNext, Later
  <2> QED
    BY <1>3, <2>1, <2>2, FocusTypes DEF CycleFocus
<1>4. ASSUME NEW s \in Slots, ClickTaskbar(s) PROVE TypeOK'
  BY <1>4, FocusTypes DEF ClickTaskbar
<1>5. ASSUME NEW s \in Slots, FocusWindow(s) PROVE TypeOK'
  BY <1>5, FocusTypes DEF FocusWindow
<1>6. ASSUME NEW s \in Slots, ClickBody(s) \/ ContextKey(s) PROVE TypeOK'
  <2>1. FocusOn(s) /\ Push(s, Meant(s)) /\ Meant(s) \in Owners
    BY <1>6, MeantType DEF ClickBody, ContextKey
  <2>2. keys' \in [Slots -> SUBSET Owners]
    BY <2>1, AddTypes
  <2> QED
    BY <1>6, <2>1, <2>2, FocusTypes DEF ClickBody, ContextKey
<1>7. ASSUME NEW s \in Slots, ClickClose(s) PROVE TypeOK'
  BY <1>7, MeantType, AddTypes DEF ClickClose
<1>8. ASSUME NEW s \in Slots, ClickMaximize(s) PROVE TypeOK'
  BY <1>8 DEF ClickMaximize
<1>9. ASSUME NEW s \in Slots, ClickMinimize(s) PROVE TypeOK'
  <2>1. focus' \in Slots \cup {-1} /\ aim' \in Owners
    BY <1>9, FocusTypes DEF ClickMinimize
  <2> QED
    BY <1>9, <2>1 DEF ClickMinimize
<1> QED
  BY <1>1, <1>2, <1>3, <1>4, <1>5, <1>6, <1>7, <1>8, <1>9 DEF Input

LEMMA ShellTypes == ASSUME TypeOK, ShellNext PROVE TypeOK'
<1> USE WinSlotsAssumption DEF Slots, Owners, TypeOK, window, app, tables, history
<1>1. CASE Wake
  BY <1>1 DEF Wake
<1>2. CASE PublishPointer
  BY <1>2 DEF PublishPointer
<1>3. CASE FixupFocus
  <2>1. focus' \in Slots \cup {-1}
    BY <1>3 DEF FixupFocus, Focused, New
  <2>2. aim' \in Owners
    BY <1>3, <2>1, focus' = -1 \/ focus' \in Slots DEF FixupFocus, Polled
  <2>3. was' \in [Slots -> Owners \cup {Clear}] /\ fell' \in [Slots -> BOOLEAN]
    BY <1>3 DEF FixupFocus, Polled
  <2> QED
    BY <1>3, <2>1, <2>2, <2>3 DEF FixupFocus
<1>4. CASE Launch
  <2>1. pc' \in [Pids -> {"off", "start", "run", "gone"} \cup Opening]
    <3>1. CASE UNCHANGED pc
      BY <3>1
    <3>2. ASSUME NEW p \in Pids, pc' = [pc EXCEPT ![p] = "start"]
          PROVE  pc' \in [Pids -> {"off", "start", "run", "gone"} \cup Opening]
      BY <3>2
    <3> QED
      BY <1>4, <3>1, <3>2, Zenon DEF Launch, LaunchStarted
  <2>2. sh' \in {"launchInput", "launchExec"}
    BY <1>4 DEF Launch
  <2> QED
    BY <1>4, <2>1, <2>2 DEF Launch
<1>5. CASE LaunchDone
  BY <1>5 DEF LaunchDone
<1>6. CASE NoExec
  BY <1>6 DEF NoExec
<1>7. CASE NoTick
  BY <1>7 DEF NoTick, ResetFlags
<1>8. CASE Tick
  BY <1>8, FallsTypes DEF Tick, ResetFlags
<1> QED
  BY <1>1, <1>2, <1>3, <1>4, <1>5, <1>6, <1>7, <1>8, InputTypes DEF ShellNext

\* The slots, the places of the programs and the shell's own tables keep to their
\* types, however many programs are inside DCWinOpen at once.
THEOREM WinSlotsTypes == Spec => []TypeOK
<1>1. TypeOK /\ [Next]_vars => TypeOK'
  <2>1. TypeOK /\ UNCHANGED vars => TypeOK'
    BY DEF vars, window, app, tables, history, TypeOK
  <2> QED
    BY <2>1, AppTypes, ShellTypes DEF Next
<1> QED
  BY <1>1, InitTypes, PTL DEF Spec
-----------------------------------------------------------------------------
LEMMA InitOwns == Init => Owns
BY DEF Init, Owns, Holds, HasSlot, PollKnows, Slots

\* What an app p does in its own slot leaves every other clean app what it has.
LEMMA OthersHold ==
  ASSUME TypeOK, Owns, NEW p \in Pids, HasSlot(p),
         \A q \in Pids \ {p} : pc'[q] = pc[q] /\ slot'[q] = slot[q],
         HasSlot(p)' => slot'[p] = slot[p],
         \A s \in Slots \ {slot[p]} :
           /\ inUse'[s] = inUse[s] /\ ownerPid'[s] = ownerPid[s]
           /\ wantClose'[s] = wantClose[s] /\ keys'[s] = keys[s] /\ fell'[s] = fell[s],
         UNCHANGED <<focus, was, aim>>,
         NEW r \in Pids \ shared, r # p
  PROVE  Holds(r)'
<1>1. HasSlot(r)' = HasSlot(r) /\ pc'[r] = pc[r] /\ slot'[r] = slot[r]
  BY DEF HasSlot
<1>2. CASE HasSlot(r)
  <2>1. Alone(r) /\ Opens(r) /\ Runs(r)
    BY <1>2 DEF Owns, Holds
  <2>2. slot[r] \in Slots \ {slot[p]}
    BY <2>1 DEF Alone, TypeOK
  <2>3. Alone(r)'
    BY <1>1, <2>1 DEF Alone, HasSlot
  <2>4. Opens(r)' /\ Runs(r)'
    BY <1>1, <2>1, <2>2 DEF Opens, Runs
  <2> QED
    BY <2>3, <2>4 DEF Holds
<1>3. CASE ~HasSlot(r)
  BY <1>1, <1>3 DEF Holds
<1> QED
  BY <1>2, <1>3

LEMMA EnterOwns == ASSUME TypeOK, Owns, NEW p \in Pids, EnterOpen(p) PROVE Owns'
<1>1. \A q \in Pids \ {p} : pc'[q] = pc[q] /\ slot'[q] = slot[q]
  BY DEF EnterOpen, TypeOK
<1>2. pc'[p] = "scan" /\ UNCHANGED <<window, focus, tables, history>>
  BY DEF EnterOpen, TypeOK
<1>3. ASSUME NEW r \in Pids \ shared' PROVE Holds(r)'
  <2>1. CASE r = p
    BY <1>2, <2>1 DEF Holds, HasSlot
  <2>2. CASE r # p
    <3>1. pc'[r] = pc[r] /\ slot'[r] = slot[r]
      BY <1>1, <2>2
    <3>2. Holds(r)
      BY <1>2 DEF Owns, history
    <3> QED
      BY <1>1, <1>2, <3>1, <3>2 DEF window, tables, history, Holds, HasSlot, Alone, Opens, Runs
  <2> QED
    BY <2>1, <2>2
<1> QED
  BY <1>2, <1>3 DEF Owns, PollKnows, window, tables, history

\* An app that exits without having published its slot, or without giving it up.
LEMMA ExitOwns ==
  ASSUME TypeOK, Owns, NEW p \in Pids, Exit(p), UNCHANGED <<window, focus, tables, aim, fell>>
  PROVE  Owns'
<1>1. \A q \in Pids \ {p} : pc'[q] = pc[q] /\ slot'[q] = slot[q]
  BY DEF Exit, TypeOK
<1>2. pc'[p] = "gone" /\ shared' = shared \ {p}
  BY DEF Exit, TypeOK
<1>3. ASSUME NEW r \in Pids \ shared' PROVE Holds(r)'
  <2>1. CASE r = p
    BY <1>2, <2>1 DEF Holds, HasSlot
  <2>2. CASE r # p
    <3>1. pc'[r] = pc[r] /\ slot'[r] = slot[r]
      BY <1>1, <2>2
    <3>2. Holds(r)
      BY <1>2, <2>2 DEF Owns
    <3> QED
      BY <1>1, <1>2, <3>1, <3>2 DEF window, tables, Holds, HasSlot, Alone, Opens, Runs
  <2> QED
    BY <2>1, <2>2
<1> QED
  BY <1>3 DEF Owns, PollKnows, window, tables

\* The claim: if another app has the slot, neither is clean from now on.
LEMMA ScanOwns == ASSUME TypeOK, Owns, NEW p \in Pids, OpenScan(p) PROVE Owns'
<1>0. UNCHANGED <<window, focus, tables, aim, fell>> /\ pc[p] = "scan"
  BY DEF OpenScan
<1>1. CASE ~inUse[slot[p]]
  <2>1. pc'[p] = "clear" /\ (\A q \in Pids \ {p} : pc'[q] = pc[q]) /\ slot' = slot
    BY <1>1 DEF OpenScan, TypeOK
  <2>2. shared' = shared \cup Sharers(p) \cup {q \in {p} : Sharers(p) # {}}
    BY <1>1 DEF OpenScan
  <2>3. \A q \in Pids \ {p} : HasSlot(q)' = HasSlot(q)
    BY <2>1 DEF HasSlot
  <2>4. ASSUME NEW r \in Pids \ shared' PROVE Holds(r)'
    <3>1. CASE r = p
      <4>1. Sharers(p) = {}
        BY <2>2, <3>1
      <4>2. Alone(p)'
        BY <2>1, <2>3, <4>1 DEF Alone, Sharers
      <4> QED
        BY <1>0, <1>1, <2>1, <3>1, <4>2 DEF Holds, Opens, Runs, window
    <3>2. CASE r # p
      <4>1. Holds(r) /\ (HasSlot(r) => slot[r] # slot[p])
        BY <2>2, <3>2 DEF Owns, Sharers
      <4>2. HasSlot(r)' = HasSlot(r) /\ pc'[r] = pc[r]
        BY <2>1, <2>3, <3>2
      <4>3. HasSlot(r) /\ Alone(r) => Alone(r)'
        BY <2>1, <2>3, <4>1 DEF Alone
      <4>4. Opens(r)' = Opens(r) /\ Runs(r)' = Runs(r)
        BY <1>0, <2>1, <4>2 DEF Opens, Runs, window, tables
      <4> QED
        BY <4>1, <4>2, <4>3, <4>4 DEF Holds
    <3> QED
      BY <3>1, <3>2
  <2> QED
    BY <1>0, <2>4 DEF Owns, PollKnows, window, tables
<1>2. CASE inUse[slot[p]] /\ slot[p] + 1 < MAXWIN
  <2>1. UNCHANGED <<pc, shared>> /\ \A q \in Pids \ {p} : slot'[q] = slot[q]
    BY <1>2 DEF OpenScan, TypeOK
  <2>2. ASSUME NEW r \in Pids \ shared' PROVE Holds(r)'
    BY <1>0, <2>1, Holds(r) DEF Owns, window, tables, Holds, HasSlot, Alone, Opens, Runs
  <2> QED
    BY <1>0, <2>2 DEF Owns, PollKnows, window, tables
<1>3. CASE inUse[slot[p]] /\ ~(slot[p] + 1 < MAXWIN)
  BY <1>0, <1>3, ExitOwns DEF OpenScan
<1> QED
  BY <1>1, <1>2, <1>3
LEMMA ClearOwns == ASSUME TypeOK, Owns, NEW p \in Pids, OpenClear(p) PROVE Owns'
<1>1. pc[p] = "clear" /\ pc'[p] = "fill" /\ slot[p] \in Slots
  BY DEF OpenClear, TypeOK
<1>2. \A q \in Pids \ {p} : pc'[q] = pc[q]
  BY DEF OpenClear, TypeOK
<1>3. \A s \in Slots \ {slot[p]} :
        /\ inUse'[s] = inUse[s] /\ ownerPid'[s] = ownerPid[s]
        /\ wantClose'[s] = wantClose[s] /\ keys'[s] = keys[s] /\ fell'[s] = fell[s]
  BY DEF OpenClear, Falls, TypeOK
<1>4. /\ ~inUse'[slot[p]] /\ keys'[slot[p]] = {} /\ wantClose'[slot[p]] = {}
      /\ fell'[slot[p]] = (fell[slot[p]] \/ inUse[slot[p]])
  BY <1>1 DEF OpenClear, Falls, TypeOK
<1>5. UNCHANGED <<slot, focus, was, aim, shared>>
  BY DEF OpenClear, tables
<1>6. ASSUME NEW r \in Pids \ shared' PROVE Holds(r)'
  <2>1. CASE r = p
    <3>1. HasSlot(p) /\ Holds(p)
      BY <1>1, <1>5, <2>1 DEF HasSlot, Owns
    <3>2. Alone(p)'
      BY <1>2, <1>5, <3>1 DEF Holds, Alone, HasSlot
    <3> QED
      BY <1>1, <1>4, <1>5, <2>1, <3>2 DEF Holds, Opens, Runs
  <2>2. CASE r # p
    BY <1>1, <1>2, <1>3, <1>5, <2>2, OthersHold DEF HasSlot
  <2> QED
    BY <2>1, <2>2
<1>7. ASSUME NEW s \in Slots PROVE PollKnows(s)'
  BY <1>1, <1>3, <1>4, <1>5 DEF Owns, PollKnows
<1> QED
  BY <1>6, <1>7 DEF Owns

LEMMA FillOwns == ASSUME TypeOK, Owns, NEW p \in Pids, OpenFill(p) PROVE Owns'
<1>1. pc[p] = "fill" /\ pc'[p] = "publish" /\ slot[p] \in Slots /\ ownerPid'[slot[p]] = p
  BY DEF OpenFill, TypeOK
<1>2. \A q \in Pids \ {p} : pc'[q] = pc[q]
  BY DEF OpenFill, TypeOK
<1>3. \A s \in Slots \ {slot[p]} : ownerPid'[s] = ownerPid[s]
  BY DEF OpenFill, TypeOK
<1>4. UNCHANGED <<inUse, wantClose, keys, slot, focus, was, aim, fell, shared>>
  BY DEF OpenFill, tables, history
<1>5. ASSUME NEW r \in Pids \ shared' PROVE Holds(r)'
  <2>1. CASE r = p
    <3>1. HasSlot(p) /\ Holds(p)
      BY <1>1, <1>4, <2>1 DEF HasSlot, Owns
    <3>2. Alone(p)'
      BY <1>2, <1>4, <3>1 DEF Holds, Alone, HasSlot
    <3> QED
      BY <1>1, <1>4, <2>1, <3>1, <3>2 DEF Holds, Opens, Runs
  <2>2. CASE r # p
    BY <1>1, <1>2, <1>3, <1>4, <2>2, OthersHold DEF HasSlot
  <2> QED
    BY <2>1, <2>2
<1> QED
  BY <1>4, <1>5 DEF Owns, PollKnows

LEMMA PublishOwns == ASSUME TypeOK, Owns, NEW p \in Pids, OpenPublish(p) PROVE Owns'
<1>1. pc[p] = "publish" /\ pc'[p] = "run" /\ slot[p] \in Slots /\ inUse'[slot[p]]
  BY DEF OpenPublish, TypeOK
<1>2. \A q \in Pids \ {p} : pc'[q] = pc[q]
  BY DEF OpenPublish, TypeOK
<1>3. \A s \in Slots \ {slot[p]} : inUse'[s] = inUse[s]
  BY DEF OpenPublish, TypeOK
<1>4. UNCHANGED <<ownerPid, wantClose, keys, slot, focus, was, aim, fell, shared>>
  BY DEF OpenPublish, tables, history
<1>5. ASSUME NEW r \in Pids \ shared' PROVE Holds(r)'
  <2>1. CASE r = p
    <3>1. HasSlot(p) /\ Holds(p)
      BY <1>1, <1>4, <2>1 DEF HasSlot, Owns
    <3>2. Alone(p)'
      BY <1>2, <1>4, <3>1 DEF Holds, Alone, HasSlot
    \* The shell has not seen this window yet: was is clear and the focus elsewhere.
    <3>3. ~fell[slot[p]] => was[slot[p]] = Clear /\ focus # slot[p]
      BY <1>1, <3>1 DEF Holds, Opens, Owns, PollKnows
    <3> QED
      BY <1>1, <1>4, <2>1, <3>1, <3>2, <3>3 DEF Holds, Opens, Runs
  <2>2. CASE r # p
    BY <1>1, <1>2, <1>3, <1>4, <2>2, OthersHold DEF HasSlot
  <2> QED
    BY <2>1, <2>2
<1>6. ASSUME NEW s \in Slots PROVE PollKnows(s)'
  BY <1>1, <1>3, <1>4 DEF Owns, PollKnows
<1> QED
  BY <1>5, <1>6 DEF Owns

LEMMA PollOwns == ASSUME TypeOK, Owns, NEW p \in Pids, PollKeys(p) PROVE Owns'
<1>1. \A s \in Slots : keys'[s] \subseteq keys[s]
  BY DEF PollKeys, TypeOK
<1>2. UNCHANGED <<inUse, ownerPid, wantClose, pc, slot, focus, was, aim, fell, shared>>
  BY DEF PollKeys, app, tables, history
<1>3. ASSUME NEW r \in Pids \ shared' PROVE Holds(r)'
  <2>1. Holds(r) /\ slot[r] \in Slots
    BY <1>2 DEF Owns, TypeOK
  <2> QED
    BY <1>1, <1>2, <2>1 DEF Holds, HasSlot, Alone, Opens, Runs
<1> QED
  BY <1>2, <1>3 DEF Owns, PollKnows

LEMMA CloseOwns == ASSUME TypeOK, Owns, NEW p \in Pids, Close(p) PROVE Owns'
<1>1. pc[p] = "run" /\ pc'[p] = "gone" /\ slot[p] \in Slots
  BY DEF Close, Exit, TypeOK
<1>2. \A q \in Pids \ {p} : pc'[q] = pc[q] /\ slot'[q] = slot[q]
  BY DEF Close, Exit, TypeOK
<1>3. \A s \in Slots \ {slot[p]} : inUse'[s] = inUse[s] /\ fell'[s] = fell[s]
  BY DEF Close, Falls, TypeOK
<1>4. ~inUse'[slot[p]] /\ fell'[slot[p]] = (fell[slot[p]] \/ inUse[slot[p]])
  BY <1>1 DEF Close, Falls, TypeOK
<1>5. UNCHANGED <<ownerPid, wantClose, keys, focus, was, aim>> /\ shared' = shared \ {p}
  BY DEF Close, Exit, tables
<1>6. ASSUME NEW r \in Pids \ shared' PROVE Holds(r)'
  <2>1. CASE r = p
    BY <1>1, <2>1 DEF Holds, HasSlot
  <2>2. CASE r # p
    BY <1>1, <1>2, <1>3, <1>5, <2>2, OthersHold DEF HasSlot
  <2> QED
    BY <2>1, <2>2
<1>7. ASSUME NEW s \in Slots PROVE PollKnows(s)'
  BY <1>1, <1>3, <1>4, <1>5 DEF Owns, PollKnows
<1> QED
  BY <1>6, <1>7 DEF Owns

LEMMA AppOwns == ASSUME TypeOK, Owns, AppNext PROVE Owns'
<1>1. ASSUME NEW p \in Pids, Die(p) PROVE Owns'
  BY <1>1, ExitOwns DEF Die
<1> QED
  BY <1>1, EnterOwns, ScanOwns, ClearOwns, FillOwns, PublishOwns, PollOwns, CloseOwns DEF AppNext-----------------------------------------------------------------------------
\* Whatever the user does to the window of a clean app counts as meant for it.
LEMMA CountsRight ==
  ASSUME TypeOK, Owns, NEW r \in Pids \ shared, pc[r] = "run"
  PROVE  /\ inUse[slot[r]] /\ Counts(slot[r], Meant(slot[r])) = r
         /\ ~fell[slot[r]] => Meant(slot[r]) = r
         /\ focus = slot[r] => Counts(slot[r], aim) = r
BY DEF Owns, Holds, HasSlot, Runs, Counts, Meant

\* The shell moves its focus to a window in use or to none, and adds input only to
\* the window under the cursor or in focus.
Refocused == \E f \in Slots \cup {-1} : FocusOn(f) /\ (f # -1 => inUse[f])
Added(s) ==
  /\ inUse[s]
  /\ \E q \in {Meant(s)} \cup {a \in {aim} : focus = s} :
       keys'[s] \cup wantClose'[s] \subseteq keys[s] \cup wantClose[s] \cup {Counts(s, q)}

LEMMA TakesInput ==
  ASSUME TypeOK, Owns, UNCHANGED <<inUse, ownerPid, pc, slot, was, fell, shared>>,
         Refocused \/ UNCHANGED <<focus, aim>>,
         \A s \in Slots : (keys'[s] = keys[s] /\ wantClose'[s] = wantClose[s]) \/ Added(s)
  PROVE  Owns'
<1>1. ASSUME NEW r \in Pids \ shared' PROVE Holds(r)'
  <2>1. r \in Pids \ shared /\ Holds(r) /\ slot[r] \in Slots
    BY DEF Owns, TypeOK
  <2>2. HasSlot(r)' = HasSlot(r) /\ (Alone(r) => Alone(r)')
    BY DEF HasSlot, Alone
  <2>3. Opens(r) => Opens(r)'
    BY <2>1 DEF Opens, Added
  <2>4. ASSUME pc[r] = "run", Runs(r) PROVE Runs(r)'
    <3>1. keys'[slot[r]] \cup wantClose'[slot[r]] \subseteq {r}
      BY <2>1, <2>4, CountsRight DEF Added, Runs
    <3>2. ASSUME ~fell[slot[r]], focus' = slot[r] PROVE aim' = r
      <4>1. CASE UNCHANGED <<focus, aim>>
        BY <2>4, <3>2, <4>1 DEF Runs
      <4>2. CASE Refocused
        <5>1. slot[r] # -1
          BY <2>1, WinSlotsAssumption DEF Slots
        <5>2. FocusOn(slot[r])
          BY <3>2, <4>2 DEF Refocused, FocusOn
        <5> QED
          BY <2>1, <2>4, <3>2, <5>1, <5>2, CountsRight DEF FocusOn
      <4> QED
        BY <4>1, <4>2
    <3> QED
      BY <2>4, <3>1, <3>2 DEF Runs
  <2>5. pc[r] # "run" => Runs(r)'
    BY DEF Runs
  <2> QED
    BY <2>1, <2>2, <2>3, <2>4, <2>5 DEF Holds
<1>2. ASSUME NEW s \in Slots PROVE PollKnows(s)'
  <2>1. PollKnows(s) /\ s # -1
    BY WinSlotsAssumption DEF Owns, Slots
  <2> QED
    BY <2>1 DEF PollKnows, Refocused, FocusOn
<1> QED
  BY <1>1, <1>2 DEF Owns

\* What the two ways of handing input over do to the tables of input.
LEMMA PushAdds ==
  ASSUME TypeOK, NEW s \in Slots, inUse[s], NEW q \in {Meant(s)} \cup {a \in {aim} : focus = s}
  PROVE  /\ Push(s, q) /\ UNCHANGED wantClose =>
              \A t \in Slots : (keys'[t] = keys[t] /\ wantClose'[t] = wantClose[t]) \/ Added(t)
         /\ AskToClose(s, q) /\ UNCHANGED keys =>
              \A t \in Slots : (keys'[t] = keys[t] /\ wantClose'[t] = wantClose[t]) \/ Added(t)
<1>1. ASSUME Push(s, q), UNCHANGED wantClose, NEW t \in Slots
      PROVE  (keys'[t] = keys[t] /\ wantClose'[t] = wantClose[t]) \/ Added(t)
  BY <1>1 DEF Push, Added, TypeOK
<1>2. ASSUME AskToClose(s, q), UNCHANGED keys, NEW t \in Slots
      PROVE  (keys'[t] = keys[t] /\ wantClose'[t] = wantClose[t]) \/ Added(t)
  BY <1>2 DEF AskToClose, Added, TypeOK
<1> QED
  BY <1>1, <1>2

LEMMA InputOwns == ASSUME TypeOK, Owns, Input PROVE Owns'
<1> USE DEF app, tables
<1>1. CASE KeyToFocus
  <2>1. focus \in Slots /\ inUse[focus] /\ Push(focus, aim)
    BY <1>1, WinSlotsAssumption DEF KeyToFocus, Focused, TypeOK, Slots
  <2>2. \A t \in Slots : (keys'[t] = keys[t] /\ wantClose'[t] = wantClose[t]) \/ Added(t)
    BY <1>1, <2>1, PushAdds DEF KeyToFocus
  <2> QED
    BY <1>1, <2>2, TakesInput DEF KeyToFocus, history
<1>2. CASE CloseFocus
  <2>1. focus \in Slots /\ inUse[focus] /\ AskToClose(focus, aim)
    BY <1>2, WinSlotsAssumption DEF CloseFocus, Focused, TypeOK, Slots
  <2>2. \A t \in Slots : (keys'[t] = keys[t] /\ wantClose'[t] = wantClose[t]) \/ Added(t)
    BY <1>2, <2>1, PushAdds DEF CloseFocus
  <2> QED
    BY <1>2, <2>2, TakesInput DEF CloseFocus, history
<1>3. CASE CycleFocus
  <2>1. PICK f \in -1..MAXWIN : ComesNext(f) /\ FocusOn(f)
    BY <1>3 DEF CycleFocus
  <2>2. Refocused
    BY <2>1 DEF ComesNext, Later, Refocused
  <2> QED
    BY <1>3, <2>2, TakesInput DEF CycleFocus, window
<1>4. ASSUME NEW s \in Slots, ClickTaskbar(s) \/ FocusWindow(s) PROVE Owns'
  <2>1. Refocused
    BY <1>4 DEF ClickTaskbar, FocusWindow, Visible, Refocused
  <2> QED
    BY <1>4, <2>1, TakesInput DEF ClickTaskbar, FocusWindow, window
<1>5. ASSUME NEW s \in Slots, ClickBody(s) \/ ContextKey(s) PROVE Owns'
  <2>1. inUse[s] /\ FocusOn(s) /\ Push(s, Meant(s)) /\ UNCHANGED wantClose
    BY <1>5 DEF ClickBody, ContextKey, Visible
  <2>2. Refocused
    BY <2>1 DEF Refocused
  <2>3. \A t \in Slots : (keys'[t] = keys[t] /\ wantClose'[t] = wantClose[t]) \/ Added(t)
    BY <2>1, PushAdds
  <2> QED
    BY <1>5, <2>2, <2>3, TakesInput DEF ClickBody, ContextKey
<1>6. ASSUME NEW s \in Slots, ClickClose(s) PROVE Owns'
  <2>1. inUse[s] /\ AskToClose(s, Meant(s)) /\ UNCHANGED keys
    BY <1>6 DEF ClickClose, Visible
  <2>2. \A t \in Slots : (keys'[t] = keys[t] /\ wantClose'[t] = wantClose[t]) \/ Added(t)
    BY <2>1, PushAdds
  <2> QED
    BY <1>6, <2>2, TakesInput DEF ClickClose, history
<1>7. ASSUME NEW s \in Slots, ClickMaximize(s) PROVE Owns'
  BY <1>7, TakesInput DEF ClickMaximize, window, history
<1>8. ASSUME NEW s \in Slots, ClickMinimize(s) PROVE Owns'
  <2>1. Refocused \/ UNCHANGED <<focus, aim>>
    BY <1>8 DEF ClickMinimize, Refocused
  <2> QED
    BY <1>8, <2>1, TakesInput DEF ClickMinimize, window
<1> QED
  BY <1>1, <1>2, <1>3, <1>4, <1>5, <1>6, <1>7, <1>8 DEF Input

\* The poll: the shell finds out what is in each slot and starts to count afresh.
LEMMA FixupOwns == ASSUME TypeOK, Owns, FixupFocus PROVE Owns'
<1>1. UNCHANGED <<inUse, ownerPid, wantClose, keys, pc, slot, shared>>
  BY DEF FixupFocus, window, app
<1>2. \A s \in Slots : was'[s] = (IF inUse[s] THEN ownerPid[s] ELSE Clear) /\ ~fell'[s]
  BY DEF FixupFocus, Polled
<1>3. focus' # -1 => focus' \in Slots /\ inUse[focus'] /\ aim' = ownerPid[focus']
  BY DEF FixupFocus, Polled, New, Focused, TypeOK
<1>4. ASSUME NEW r \in Pids \ shared' PROVE Holds(r)'
  <2>1. Holds(r) /\ slot[r] \in Slots /\ slot[r] # -1
    BY <1>1, WinSlotsAssumption DEF Owns, TypeOK, Slots
  <2> QED
    BY <1>1, <1>2, <1>3, <2>1 DEF Holds, HasSlot, Alone, Opens, Runs
<1>5. ASSUME NEW s \in Slots PROVE PollKnows(s)'
  <2>1. s # -1
    BY WinSlotsAssumption DEF Slots
  <2> QED
    BY <1>1, <1>2, <1>3, <2>1 DEF PollKnows
<1> QED
  BY <1>4, <1>5 DEF Owns

LEMMA LaunchOwns == ASSUME TypeOK, Owns, Launch PROVE Owns'
<1>1. UNCHANGED <<window, slot, focus, tables, history>>
  BY DEF Launch
<1>2. \A r \in Pids : pc'[r] = pc[r] \/ (pc[r] = "off" /\ pc'[r] = "start")
  BY DEF Launch, LaunchStarted, TypeOK
<1>3. \A r \in Pids : HasSlot(r)' = HasSlot(r) /\ (HasSlot(r) => pc'[r] = pc[r])
  BY <1>2 DEF HasSlot
<1>4. ASSUME NEW r \in Pids \ shared' PROVE Holds(r)'
  <2>1. Holds(r) /\ r \in Pids
    BY <1>1 DEF Owns, history
  <2> QED
    BY <1>1, <1>3, <2>1 DEF Holds, Alone, Opens, Runs, window, tables, history
<1> QED
  BY <1>1, <1>4 DEF Owns, PollKnows, window, tables, history

\* The reaper frees slots of apps that are gone, so none of a clean app that runs.
LEMMA TickOwns == ASSUME TypeOK, Owns, Tick PROVE Owns'
<1>1. UNCHANGED <<ownerPid, wantClose, keys, pc, slot, focus, was, aim, shared>>
  BY DEF Tick, app
<1>2. \A s \in Slots : /\ inUse'[s] = (inUse[s] /\ ~Ghost(s))
                       /\ fell'[s] = (fell[s] \/ (inUse[s] /\ ~inUse'[s]))
  BY DEF Tick, Falls
<1>3. ASSUME NEW r \in Pids \ shared' PROVE Holds(r)'
  <2>1. Holds(r) /\ slot[r] \in Slots
    BY <1>1 DEF Owns, TypeOK
  <2>2. Runs(r) /\ pc[r] = "run" => ~Ghost(slot[r])
    BY DEF Runs, Ghost, Alive
  <2> QED
    BY <1>1, <1>2, <2>1, <2>2 DEF Holds, HasSlot, Alone, Opens, Runs
<1>4. ASSUME NEW s \in Slots PROVE PollKnows(s)'
  BY <1>1, <1>2 DEF Owns, PollKnows
<1> QED
  BY <1>3, <1>4 DEF Owns

LEMMA SameOwns ==
  ASSUME Owns, UNCHANGED <<window, app, was, history, focus>> PROVE Owns'
BY DEF window, app, history, Owns, Holds, HasSlot, Alone, Opens, Runs, PollKnows

LEMMA ShellOwns == ASSUME TypeOK, Owns, ShellNext PROVE Owns'
<1>1. CASE Wake \/ PublishPointer \/ LaunchDone \/ NoExec \/ NoTick
  BY <1>1, SameOwns DEF Wake, PublishPointer, LaunchDone, NoExec, NoTick, tables
<1> QED
  BY <1>1, InputOwns, FixupOwns, LaunchOwns, TickOwns DEF ShellNext

LEMMA SlotsInvariant == Spec => []Owns
<1>1. TypeOK /\ Owns /\ [Next]_vars => Owns'
  <2>1. Owns /\ UNCHANGED vars => Owns'
    BY SameOwns DEF vars, tables
  <2> QED
    BY <2>1, AppOwns, ShellOwns DEF Next
<1> QED
  BY <1>1, InitOwns, WinSlotsTypes, PTL DEF Spec

\* A running app that has not shared its slot: the slot is in use and carries its
\* process id, whatever other apps, the reaper and the shell do.
THEOREM RunningAppOwnsSlot == Spec => []RunningOwns
<1>1. Owns => RunningOwns
  BY DEF Owns, Holds, HasSlot, Runs, RunningOwns
<1> QED
  BY <1>1, SlotsInvariant, PTL

\* No key and no request to close that waits for such an app was meant for another,
\* or left by the last user of the slot.
THEOREM InputReachesItsOwner == Spec => []InputForOwner
<1>1. Owns => InputForOwner
  BY DEF Owns, Holds, HasSlot, Runs, InputForOwner
<1> QED
  BY <1>1, SlotsInvariant, PTL
=============================================================================
