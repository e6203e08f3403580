------------------------------ MODULE FrameLock ------------------------------
(***************************************************************************)
(* The sequence lock that carries one window's draw commands from a DCWin  *)
(* client (DCWinOpen, DCWinEndFrame, DCWinClose of dcwlib.c) to the shell  *)
(* (SnapWindows and Render of dcshell.c).  gen is even while the list is   *)
(* stable; the client makes it odd, copies, and makes it even again; the   *)
(* shell copies the list and keeps it only if gen did not move.            *)
(*                                                                         *)
(* Every access of either side to the shared slot is a step of its own.    *)
(* Preempt = FALSE is the scheduling dcshell.c sets up: the shell runs     *)
(* ABOVE_NORMAL on a single processor, so a client runs only while the     *)
(* shell sleeps.  Preempt = TRUE drops that assumption.                    *)
(***************************************************************************)
EXTENDS Integers, Sequences

CONSTANTS Cmd,        \* draw commands
          NoCmd,      \* what memset leaves in a command
          MAXCMD,     \* DCWIN_MAXCMD
          TRIES,      \* attempts of one SnapWindows (8 in the code)
          Preempt,    \* may a client run between two steps of a snapshot?
          MaxGen,     \* bound: the client stops publishing here
          MaxOpen     \* bound: how many clients use the slot in turn

ASSUME FrameLockAssumption ==
  /\ MAXCMD \in Nat /\ TRIES \in Nat /\ MaxGen \in Nat /\ MaxOpen \in Nat
  /\ Preempt \in BOOLEAN
  /\ NoCmd \notin Cmd

\* Handing the slot to a second client resets gen, and only the shell's
\* priority makes that harmless: a preempted snapshot could not tell.
ASSUME ReuseAssumption == Preempt => MaxOpen <= 1

VARIABLES win,      \* the shared DcWindow slot
          cl,       \* the client: where it is, its private list, its copy loop
          opens,    \* how many clients have opened the slot
          sh,       \* SnapWindows: its locals, s_aSnap[wi] and s_anSnapN[wi]
          drawn,    \* the frame in the scene
          front     \* history: the frame the client published last

clientSide == <<win, cl, opens, front>>
shellSide  == <<sh, drawn>>
frameVars == <<clientSide, shellSide>>

Frames   == {f \in Seq(Cmd) : Len(f) <= MAXCMD}
Drawings == UNION {[1..n -> Cmd] : n \in 0..MAXCMD + 1}
Cells    == [1..MAXCMD -> Cmd \cup {NoCmd}]
Zeroed   == [i \in 1..MAXCMD |-> NoCmd]

\* Mutant: SnapWindows does not look whether the client is mid-write.
AlwaysEven(n) == n = n
Even(n) == n % 2 = 0

\* What DCWinFill, DCWinText and DCWinIcon keep of the commands drawn.
Clamp(n) == IF n > MAXCMD THEN MAXCMD ELSE n
Capped(drawing) == SubSeq(drawing, 1, Clamp(Len(drawing)))

FrameInit ==
  /\ win = [inUse |-> FALSE, gen |-> 0, cmdCount |-> 0, cmd |-> Zeroed]
  /\ cl = [pc |-> "closed", build |-> <<>>, i |-> 0]
  /\ sh = [pc |-> "wait", nTries |-> 0, dwGen1 |-> 0, cCmd |-> 0, i |-> 0,
           snap |-> Zeroed, n |-> 0]
  /\ opens = 0 /\ drawn = <<>> /\ front = <<>>
-----------------------------------------------------------------------------
(* The client.                                                             *)

\* The shell blocks between two iterations of its loop and in Sleep(1).
ClientRuns == Preempt \/ sh.pc \in {"wait", "sleep"}

\* memset, then inUse (the order of the two is WinSlots' concern).
Open ==
  /\ ClientRuns /\ cl.pc = "closed" /\ opens < MaxOpen
  /\ win' = [inUse |-> TRUE, gen |-> 0, cmdCount |-> 0, cmd |-> Zeroed]
  /\ cl' = [cl EXCEPT !.pc = "run"]
  /\ front' = <<>> /\ opens' = opens + 1
  /\ UNCHANGED shellSide

\* BeginFrame and the drawing calls build a private list; EndFrame then makes
\* gen odd.
LockFrame(drawing) ==
  /\ ClientRuns /\ cl.pc = "run" /\ win.gen + 2 <= MaxGen
  /\ cl' = [pc |-> "copy", i |-> 0, build |-> Capped(drawing)]
  /\ win' = [win EXCEPT !.gen = @ + 1]
  /\ UNCHANGED <<opens, front, shellSide>>

CopyCmd ==
  /\ ClientRuns /\ cl.pc = "copy" /\ cl.i < Len(cl.build)
  /\ win' = [win EXCEPT !.cmd[cl.i + 1] = cl.build[cl.i + 1]]
  /\ cl' = [cl EXCEPT !.i = @ + 1]
  /\ UNCHANGED <<opens, front, shellSide>>

SetCount ==
  /\ ClientRuns /\ cl.pc = "copy" /\ cl.i = Len(cl.build)
  /\ win' = [win EXCEPT !.cmdCount = Len(cl.build)]
  /\ cl' = [cl EXCEPT !.pc = "unlock"]
  /\ UNCHANGED <<opens, front, shellSide>>

\* Mutant: the second gen++ is forgotten.
UnlockFrameOnce ==
  /\ ClientRuns /\ cl.pc = "unlock"
  /\ front' = cl.build /\ cl' = [cl EXCEPT !.pc = "run"]
  /\ UNCHANGED <<win, opens, shellSide>>
UnlockFrame ==
  /\ ClientRuns /\ cl.pc = "unlock"
  /\ win' = [win EXCEPT !.gen = @ + 1] /\ front' = cl.build
  /\ cl' = [cl EXCEPT !.pc = "run"]
  /\ UNCHANGED <<opens, shellSide>>

Close ==
  /\ ClientRuns /\ cl.pc = "run"
  /\ win' = [win EXCEPT !.inUse = FALSE]
  /\ cl' = [cl EXCEPT !.pc = "closed"]
  /\ UNCHANGED <<opens, front, shellSide>>

FinishFrame == CopyCmd \/ SetCount \/ UnlockFrame

ClientNext == Open \/ (\E d \in Drawings : LockFrame(d)) \/ FinishFrame \/ Close
-----------------------------------------------------------------------------
(* The shell.                                                              *)

\* Render starts: something is dirty, or its 100 ms keepalive is over.
SnapBegin ==
  /\ sh.pc = "wait"
  /\ sh' = [sh EXCEPT !.n = 0, !.nTries = 0,
                      !.pc = IF win.inUse THEN "try" ELSE "draw"]
  /\ UNCHANGED <<clientSide, drawn>>

\* Load gen: if it is odd, Sleep(1) and use up a try.
SnapGen ==
  /\ sh.pc = "try" /\ sh.nTries < TRIES
  /\ sh' = IF Even(win.gen)
             THEN [sh EXCEPT !.dwGen1 = win.gen, !.pc = "count"]
             ELSE [sh EXCEPT !.dwGen1 = win.gen, !.pc = "sleep", !.nTries = @ + 1]
  /\ UNCHANGED <<clientSide, drawn>>

SnapWake ==
  /\ sh.pc = "sleep"
  /\ sh' = [sh EXCEPT !.pc = "try"]
  /\ UNCHANGED <<clientSide, drawn>>

SnapCount ==
  /\ sh.pc = "count"
  /\ sh' = [sh EXCEPT !.cCmd = Clamp(win.cmdCount), !.i = 0, !.pc = "copy"]
  /\ UNCHANGED <<clientSide, drawn>>

SnapCopy ==
  /\ sh.pc = "copy" /\ sh.i < sh.cCmd
  /\ sh' = [sh EXCEPT !.snap[sh.i + 1] = win.cmd[sh.i + 1], !.i = @ + 1]
  /\ UNCHANGED <<clientSide, drawn>>

\* Load gen again: keep the copy if it did not move, else try once more.
SnapCheck ==
  /\ sh.pc = "copy" /\ sh.i = sh.cCmd
  /\ sh' = IF win.gen = sh.dwGen1
             THEN [sh EXCEPT !.n = sh.cCmd, !.pc = "draw"]
             ELSE [sh EXCEPT !.nTries = @ + 1, !.pc = "try"]
  /\ UNCHANGED <<clientSide, drawn>>

\* All tries used: the window is composited without content.
SnapGiveUp ==
  /\ sh.pc = "try" /\ sh.nTries = TRIES
  /\ sh' = [sh EXCEPT !.pc = "draw"]
  /\ UNCHANGED <<clientSide, drawn>>

\* RenderWindow and the present, then the loop's pacing wait.
DrawWindow ==
  /\ sh.pc = "draw"
  /\ drawn' = IF win.inUse THEN SubSeq(sh.snap, 1, sh.n) ELSE <<>>
  /\ sh' = [sh EXCEPT !.pc = "wait"]
  /\ UNCHANGED clientSide

ShellNext ==
  \/ SnapBegin \/ SnapGen \/ SnapWake \/ SnapCount \/ SnapCopy
  \/ SnapCheck \/ SnapGiveUp \/ DrawWindow
-----------------------------------------------------------------------------
FrameNext == ClientNext \/ ShellNext

FrameSpec == FrameInit /\ [][FrameNext]_frameVars

\* The shell's loop never stops.  A client in the middle of EndFrame is
\* scheduled again and again while the shell waits, although not all the time.
FrameFairness == WF_frameVars(ShellNext) /\ SF_frameVars(FinishFrame)

FairFrameSpec == FrameSpec /\ FrameFairness
-----------------------------------------------------------------------------
DcWindow == [inUse : BOOLEAN, gen : 0..MaxGen, cmdCount : 0..MAXCMD, cmd : Cells]
Client   == [pc : {"closed", "run", "copy", "unlock"}, build : Frames, i : 0..MAXCMD]
Shell    == [pc : {"wait", "try", "sleep", "count", "copy", "draw"},
             nTries : 0..TRIES, dwGen1 : 0..MaxGen, cCmd : 0..MAXCMD,
             i : 0..MAXCMD, snap : Cells, n : 0..MAXCMD]

FrameTypeOK ==
  /\ win \in DcWindow /\ cl \in Client /\ sh \in Shell
  /\ opens \in 0..MaxOpen /\ drawn \in Frames /\ front \in Frames

\* A snapshot SnapWindows keeps is the client's current frame, whole: never a
\* mixture of two frames, nor of two clients' frames, nor a half-copied one.
NoTornFrame ==
  [][sh'.n # sh.n /\ sh'.n # 0 => SubSeq(sh'.snap, 1, sh'.n) = front]_frameVars

\* A client that stops publishing sees its last frame on the screen for good,
\* however often the shell met the lock odd or had to give up before.
LastFrameShown ==
  <>[](win.inUse /\ cl.pc = "run") => <>[](drawn = front)

Board == INSTANCE FrameBoard WITH latched <- SubSeq(sh.snap, 1, sh.n)

\* FrameLock implements the board of whole frames.
ImplementsBoard == Board!Spec
=============================================================================
