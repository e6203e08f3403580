---------------------------- MODULE ProgramsProofs ----------------------------
(***************************************************************************)
(* What programs rely on, for every size of the frames, rings, mailboxes,  *)
(* buffers and replies, and for any number of posts, presses and           *)
(* downloads: the sequence lock never hands the shell a torn frame, with   *)
(* any number of tries and both schedulings, and implements the abstract   *)
(* board of whole frames (FrameLock); the keys arrive once and in order    *)
(* until the ring is overrun, and the ring always holds the keys pressed   *)
(* last (KeyRing); the shell never takes more messages than were posted,   *)
(* nor, without an overlap, a torn one (Mailbox); the network tester gives *)
(* back what it took and says of a download what is so (NetTester); the    *)
(* track is heard in order (Player).                                       *)
(***************************************************************************)
EXTENDS FrameLock, KeyRing, Mailbox, NetTester, Player, TLAPS, SequenceTheorems,
        WellFoundedInduction
-----------------------------------------------------------------------------
(* The sequence lock                                                        *)

\* A prefix of a row of cells that hold commands is a frame.
LEMMA PrefixIsFrame ==
  ASSUME NEW s \in Cells, NEW num \in 0..MAXCMD, \A i \in 1..num : s[i] \in Cmd
  PROVE  /\ SubSeq(s, 1, num) \in Frames
         /\ Len(SubSeq(s, 1, num)) = num
         /\ \A i \in 1..num : SubSeq(s, 1, num)[i] = s[i]
<1>1. MAXCMD \in Nat
  BY FrameLockAssumption
<1>2. SubSeq(s, 1, num) = [i \in 1..num |-> s[i]]
  BY <1>1 DEF Cells
<1> QED
  BY <1>1, <1>2 DEF Frames

\* The drawing calls never produce more than MAXCMD commands.
LEMMA CappedIsFrame ==
  ASSUME NEW d \in Drawings
  PROVE  Capped(d) \in Frames
<1>1. MAXCMD \in Nat
  BY FrameLockAssumption
<1>2. PICK num \in 0..MAXCMD + 1 : d \in [1..num -> Cmd]
  BY DEF Drawings
<1>3. d \in Seq(Cmd) /\ Len(d) = num
  BY <1>1, <1>2
<1> DEFINE m == Clamp(Len(d))
<1>4. m \in 0..MAXCMD /\ m <= num
  BY <1>1, <1>3 DEF Clamp
<1>5. SubSeq(d, 1, m) = [i \in 1..m |-> d[i]]
  BY <1>1, <1>2, <1>4
<1> HIDE DEF m
<1>6. Capped(d) = [i \in 1..m |-> d[i]]
  BY <1>5 DEF Capped, m
<1> QED
  BY <1>1, <1>2, <1>4, <1>6 DEF Frames
-----------------------------------------------------------------------------
(* The inductive invariant.                                                *)

\* gen is odd exactly while the client rewrites the list, and what it has
\* rewritten so far is its private list.
Writing ==
  /\ cl.pc \in {"run", "closed"} => Even(win.gen)
  /\ cl.pc \in {"copy", "unlock"} =>
       /\ ~Even(win.gen) /\ win.gen + 1 <= MaxGen
       /\ cl.i <= Len(cl.build)
       /\ \A i \in 1..cl.i : win.cmd[i] = cl.build[i]
  /\ cl.pc = "unlock" => cl.i = Len(cl.build) /\ win.cmdCount = Len(cl.build)

\* The shell looks into the slot only after a client has opened it, under an
\* even gen that can only have grown, or not even moved if clients wait.
Looks ==
  /\ win.inUse \/ cl.pc # "closed" \/ sh.pc \in {"try", "sleep", "count", "copy"}
       => opens >= 1
  /\ sh.pc \in {"count", "copy"} =>
       /\ Even(sh.dwGen1) /\ sh.dwGen1 <= win.gen /\ sh.nTries < TRIES
       /\ Preempt \/ sh.dwGen1 = win.gen
  /\ sh.pc = "copy" => sh.i <= sh.cCmd

\* A kept snapshot holds commands only, and none is kept while one is taken.
KeptClean ==
  /\ \A i \in 1..sh.n : sh.snap[i] \in Cmd
  /\ sh.pc \in {"try", "sleep", "count", "copy"} => sh.n = 0

\* The list in the slot is the published frame whenever gen is even: what a
\* reader sees between two equal even values of gen is one DCWinEndFrame.
StableIsFront ==
  Even(win.gen) => /\ win.cmdCount = Len(front)
                   /\ \A i \in 1..Len(front) : win.cmd[i] = front[i]

\* While the shell copies and gen has not moved, what it holds so far is a
\* prefix of the published frame, and the length it goes by is that frame's.
CopyIsPrefix ==
  sh.pc = "copy" /\ win.gen = sh.dwGen1
    => sh.cCmd = Len(front) /\ \A i \in 1..sh.i : sh.snap[i] = front[i]

FrameInv == FrameTypeOK /\ StableIsFront /\ CopyIsPrefix /\ Writing /\ Looks /\ KeptClean

LEMMA FrameInitInv == FrameInit => FrameInv
<1> SUFFICES ASSUME FrameInit PROVE FrameInv
  OBVIOUS
<1>1. /\ MAXCMD \in Nat /\ TRIES \in Nat /\ MaxGen \in Nat /\ MaxOpen \in Nat
      /\ <<>> \in Frames /\ Len(<<>>) = 0
  BY FrameLockAssumption DEF Frames
<1>2. Zeroed \in Cells
  BY DEF Zeroed, Cells
<1>3. FrameTypeOK
  BY <1>1, <1>2 DEF FrameInit, FrameTypeOK, DcWindow, Client, Shell
<1> QED
  BY <1>1, <1>3 DEF FrameInit, FrameInv, StableIsFront, CopyIsPrefix, Writing, Looks, KeptClean, Even

\* What every step may use of the constants, and of a pair of records.
LEMMA Bounds == MAXCMD \in Nat /\ TRIES \in Nat /\ MaxGen \in Nat /\ MaxOpen \in Nat
BY FrameLockAssumption

LEMMA ClientStep == FrameInv /\ ClientNext => FrameInv'
<1> SUFFICES ASSUME FrameInv, ClientNext PROVE FrameInv'
  OBVIOUS
<1> USE Bounds DEF shellSide
<1>0. FrameTypeOK
  BY DEF FrameInv
<1>1. CASE Open
  <2>1. <<>> \in Frames /\ Len(<<>>) = 0 /\ Zeroed \in Cells
    BY DEF Frames, Zeroed, Cells
  <2>2. sh.pc \notin {"count", "copy"}
    BY <1>1, ReuseAssumption DEF Open, ClientRuns, FrameInv, Looks, FrameTypeOK
  <2>3. FrameTypeOK'
    BY <1>1, <2>1 DEF Open, FrameInv, FrameTypeOK, DcWindow, Client
  <2> QED
    BY <1>1, <2>1, <2>2, <2>3
    DEF Open, FrameInv, FrameTypeOK, Client, StableIsFront, CopyIsPrefix, Writing, Looks, KeptClean, Even
<1>2. ASSUME NEW d \in Drawings, LockFrame(d) PROVE FrameInv'
  <2>1. Capped(d) \in Frames
    BY CappedIsFrame
  <2>2. cl' \in Client /\ cl'.pc = "copy" /\ cl'.i = 0 /\ cl'.build = Capped(d)
    BY <1>2, <2>1 DEF LockFrame, Client
  <2>3. /\ win' \in DcWindow /\ win'.gen = win.gen + 1 /\ win'.inUse = win.inUse
        /\ win'.cmdCount = win.cmdCount /\ win'.cmd = win.cmd
    BY <1>0, <1>2 DEF LockFrame, FrameTypeOK, DcWindow
  <2>4. win.gen \in Nat /\ Even(win.gen) /\ ~Even(win'.gen) /\ win'.gen + 1 <= MaxGen
    BY <1>0, <1>2, <2>3 DEF LockFrame, FrameTypeOK, DcWindow, FrameInv, Writing, Even
  <2>5. Len(Capped(d)) \in Nat
    BY <2>1 DEF Frames
  <2>6. sh' = sh /\ opens' = opens /\ drawn' = drawn /\ front' = front
    BY <1>2 DEF LockFrame
  <2>7. ClientRuns /\ cl.pc = "run"
    BY <1>2 DEF LockFrame
  <2>8. FrameTypeOK'
    BY <1>0, <2>2, <2>3, <2>6 DEF FrameTypeOK
  <2>9. StableIsFront' /\ Writing'
    BY <2>2, <2>3, <2>4, <2>5 DEF StableIsFront, Writing
  <2>10. Looks'
    BY <1>0, <2>2, <2>3, <2>4, <2>6, <2>7 DEF FrameTypeOK, Shell, FrameInv, Looks, ClientRuns
  <2>11. CopyIsPrefix' /\ KeptClean'
    BY <1>0, <2>3, <2>4, <2>6 DEF FrameTypeOK, Shell, FrameInv, Looks, CopyIsPrefix, KeptClean
  <2> QED
    BY <2>8, <2>9, <2>10, <2>11 DEF FrameInv
<1>3. CASE CopyCmd
  <2>1. /\ cl.pc = "copy" /\ cl.i \in Nat /\ cl.i < Len(cl.build)
        /\ Len(cl.build) \in 0..MAXCMD /\ cl.build \in Seq(Cmd)
        /\ cl.i + 1 \in 1..MAXCMD /\ cl.build[cl.i + 1] \in Cmd
    BY <1>0, <1>3 DEF CopyCmd, FrameTypeOK, Client, Frames
  <2>2. /\ cl' \in Client /\ cl'.pc = "copy" /\ cl'.i = cl.i + 1 /\ cl'.build = cl.build
    BY <1>0, <1>3, <2>1 DEF CopyCmd, FrameTypeOK, Client
  <2>3. /\ win'.gen = win.gen /\ win'.inUse = win.inUse /\ win'.cmdCount = win.cmdCount
        /\ win'.cmd = [win.cmd EXCEPT ![cl.i + 1] = cl.build[cl.i + 1]]
        /\ win' = [win EXCEPT !.cmd = [win.cmd EXCEPT ![cl.i + 1] = cl.build[cl.i + 1]]]
    BY <1>0, <1>3 DEF CopyCmd, FrameTypeOK, DcWindow
  <2>4. win'.cmd \in Cells /\ win' \in DcWindow
    <3>1. win.cmd \in Cells
      BY <1>0 DEF FrameTypeOK, DcWindow
    <3>2. [win.cmd EXCEPT ![cl.i + 1] = cl.build[cl.i + 1]] \in Cells
      BY <2>1, <3>1 DEF Cells
    <3> QED
      BY <1>0, <2>3, <3>2 DEF FrameTypeOK, DcWindow
  <2>5. sh' = sh /\ opens' = opens /\ drawn' = drawn /\ front' = front
    BY <1>3 DEF CopyCmd
  <2>6. FrameTypeOK'
    BY <1>0, <2>2, <2>4, <2>5 DEF FrameTypeOK
  <2>7. ~Even(win.gen) /\ win.gen + 1 <= MaxGen
    BY <2>1 DEF FrameInv, Writing
  <2>8. \A i \in 1..cl'.i : win'.cmd[i] = cl'.build[i]
    <3> SUFFICES ASSUME NEW i \in 1..cl'.i PROVE win'.cmd[i] = cl'.build[i]
      OBVIOUS
    <3>1. win.cmd \in Cells /\ i \in 1..MAXCMD
      BY <1>0, <2>1, <2>2 DEF FrameTypeOK, DcWindow
    <3>2. i # cl.i + 1 => i \in 1..cl.i
      BY <2>1, <2>2
    <3>3. \A k \in 1..cl.i : win.cmd[k] = cl.build[k]
      BY <2>1 DEF FrameInv, Writing
    <3> QED
      BY <2>1, <2>2, <2>3, <3>1, <3>2, <3>3 DEF Cells
  <2>9. StableIsFront' /\ Writing'
    BY <2>1, <2>2, <2>3, <2>7, <2>8 DEF StableIsFront, Writing
  <2>10. Looks' /\ CopyIsPrefix' /\ KeptClean'
    BY <2>1, <2>2, <2>3, <2>5, <2>7 DEF FrameInv, Looks, CopyIsPrefix, KeptClean
  <2> QED
    BY <2>6, <2>9, <2>10 DEF FrameInv
<1>4. CASE SetCount
  <2>1. /\ cl.pc = "copy" /\ cl.i = Len(cl.build) /\ Len(cl.build) \in 0..MAXCMD
    BY <1>0, <1>4 DEF SetCount, FrameTypeOK, Client, Frames
  <2>2. /\ cl' \in Client /\ cl'.pc = "unlock" /\ cl'.i = cl.i /\ cl'.build = cl.build
    BY <1>0, <1>4 DEF SetCount, FrameTypeOK, Client
  <2>3. /\ win' \in DcWindow /\ win'.gen = win.gen /\ win'.inUse = win.inUse
        /\ win'.cmdCount = Len(cl.build) /\ win'.cmd = win.cmd
    BY <1>0, <1>4, <2>1 DEF SetCount, FrameTypeOK, DcWindow
  <2>4. sh' = sh /\ opens' = opens /\ drawn' = drawn /\ front' = front
    BY <1>4 DEF SetCount
  <2>5. FrameTypeOK'
    BY <1>0, <2>2, <2>3, <2>4 DEF FrameTypeOK
  <2>6. /\ ~Even(win.gen) /\ win.gen + 1 <= MaxGen
        /\ \A i \in 1..cl.i : win.cmd[i] = cl.build[i]
    BY <2>1 DEF FrameInv, Writing
  <2>7. StableIsFront' /\ Writing'
    BY <2>1, <2>2, <2>3, <2>6 DEF StableIsFront, Writing
  <2>8. Looks' /\ CopyIsPrefix' /\ KeptClean'
    BY <2>1, <2>2, <2>3, <2>4, <2>6 DEF FrameInv, Looks, CopyIsPrefix, KeptClean
  <2> QED
    BY <2>5, <2>7, <2>8 DEF FrameInv
<1>5. CASE UnlockFrame
  <2>1. /\ cl.pc = "unlock" /\ ~Even(win.gen) /\ win.gen + 1 <= MaxGen /\ win.gen \in Nat
        /\ cl.i = Len(cl.build) /\ win.cmdCount = Len(cl.build)
        /\ \A i \in 1..cl.i : win.cmd[i] = cl.build[i]
    BY <1>0, <1>5 DEF UnlockFrame, FrameInv, Writing, FrameTypeOK, DcWindow
  <2>2. /\ cl' \in Client /\ cl'.pc = "run" /\ cl.build \in Frames
    BY <1>0, <1>5 DEF UnlockFrame, FrameTypeOK, Client
  <2>3. /\ win' \in DcWindow /\ win'.gen = win.gen + 1 /\ win'.inUse = win.inUse
        /\ win'.cmdCount = win.cmdCount /\ win'.cmd = win.cmd
    BY <1>0, <1>5, <2>1 DEF UnlockFrame, FrameTypeOK, DcWindow
  <2>4. sh' = sh /\ opens' = opens /\ drawn' = drawn /\ front' = cl.build /\ ClientRuns
    BY <1>5 DEF UnlockFrame
  <2>5. FrameTypeOK'
    BY <1>0, <2>2, <2>3, <2>4 DEF FrameTypeOK
  <2>6. Even(win'.gen)
    BY <2>1, <2>3 DEF Even
  <2>7. StableIsFront' /\ Writing'
    BY <2>1, <2>2, <2>3, <2>4, <2>6 DEF StableIsFront, Writing
  <2>8. Looks'
    BY <1>0, <2>1, <2>2, <2>3, <2>4 DEF FrameTypeOK, Shell, FrameInv, Looks, ClientRuns
  <2>9. CopyIsPrefix' /\ KeptClean'
    BY <1>0, <2>1, <2>3, <2>4 DEF FrameTypeOK, Shell, FrameInv, Looks, CopyIsPrefix, KeptClean
  <2> QED
    BY <2>5, <2>7, <2>8, <2>9 DEF FrameInv
<1>6. CASE Close
  <2>1. /\ cl' \in Client /\ cl'.pc = "closed" /\ cl.pc = "run"
    BY <1>0, <1>6 DEF Close, FrameTypeOK, Client
  <2>2. /\ win' \in DcWindow /\ win'.gen = win.gen /\ win'.inUse = FALSE
        /\ win'.cmdCount = win.cmdCount /\ win'.cmd = win.cmd
    BY <1>0, <1>6 DEF Close, FrameTypeOK, DcWindow
  <2>3. sh' = sh /\ opens' = opens /\ drawn' = drawn /\ front' = front
    BY <1>6 DEF Close
  <2>4. FrameTypeOK'
    BY <1>0, <2>1, <2>2, <2>3 DEF FrameTypeOK
  <2>5. Looks' /\ StableIsFront' /\ CopyIsPrefix' /\ Writing' /\ KeptClean'
    BY <2>1, <2>2, <2>3 DEF FrameInv, Looks, StableIsFront, CopyIsPrefix, Writing, KeptClean
  <2> QED
    BY <2>4, <2>5 DEF FrameInv
<1> QED
  BY <1>1, <1>2, <1>3, <1>4, <1>5, <1>6 DEF ClientNext, FinishFrame

\* A step of the shell leaves the client's side alone; what is left to show is
\* said of sh' and drawn' only.
LEMMA ShellKeeps ==
  ASSUME FrameInv, UNCHANGED clientSide, sh' \in Shell, drawn' \in Frames,
         CopyIsPrefix', Looks', KeptClean'
  PROVE  FrameInv'
BY DEF clientSide, FrameInv, FrameTypeOK, StableIsFront, Writing

\* Writing one field of the shell's locals keeps them well-typed.
LEMMA ShellFields ==
  ASSUME NEW s \in Shell
  PROVE  /\ \A v \in {"wait", "try", "sleep", "count", "copy", "draw"} :
                [s EXCEPT !.pc = v] \in Shell
         /\ \A v \in 0..TRIES : [s EXCEPT !.nTries = v] \in Shell
         /\ \A v \in 0..MaxGen : [s EXCEPT !.dwGen1 = v] \in Shell
         /\ \A v \in 0..MAXCMD : /\ [s EXCEPT !.cCmd = v] \in Shell
                                 /\ [s EXCEPT !.i = v] \in Shell
                                 /\ [s EXCEPT !.n = v] \in Shell
         /\ \A v \in Cells : [s EXCEPT !.snap = v] \in Shell
BY DEF Shell

LEMMA ShellStep == FrameInv /\ ShellNext => FrameInv'
<1> SUFFICES ASSUME FrameInv, ShellNext PROVE FrameInv'
  OBVIOUS
<1> USE Bounds
<1>0. /\ FrameTypeOK /\ sh \in Shell /\ drawn \in Frames /\ win \in DcWindow
      /\ UNCHANGED clientSide /\ win' = win /\ cl' = cl /\ opens' = opens /\ front' = front
  BY DEF FrameInv, FrameTypeOK, ShellNext, SnapBegin, SnapGen, SnapWake, SnapCount, SnapCopy,
     SnapCheck, SnapGiveUp, DrawWindow, clientSide
<1>1. CASE SnapBegin
  <2>0. 0 \in 0..MAXCMD /\ 0 \in 0..TRIES
    OBVIOUS
  <2>a. sh' \in Shell
    BY <1>0, <1>1, <2>0, ShellFields DEF SnapBegin
  <2>1. /\ sh'.n = 0 /\ drawn' = drawn /\ sh'.pc \in {"try", "draw"}
        /\ sh'.pc = "try" => win.inUse
    BY <1>0, <1>1 DEF SnapBegin, Shell
  <2>2. CopyIsPrefix' /\ Looks' /\ KeptClean'
    BY <1>0, <2>1 DEF FrameInv, CopyIsPrefix, Looks, KeptClean
  <2> QED
    BY <1>0, <2>a, <2>1, <2>2, ShellKeeps
<1>2. CASE SnapGen
  <2>1. CASE Even(win.gen)
    <3>1. /\ sh' \in Shell /\ sh'.pc = "count" /\ sh'.dwGen1 = win.gen /\ sh.pc = "try"
          /\ sh'.n = sh.n /\ drawn' = drawn /\ sh.nTries < TRIES /\ sh'.nTries = sh.nTries
      BY <1>0, <1>2, <2>1 DEF SnapGen, Shell, DcWindow
    <3>2. CopyIsPrefix' /\ Looks' /\ KeptClean'
      BY <1>0, <2>1, <3>1 DEF FrameInv, CopyIsPrefix, Looks, KeptClean, DcWindow
    <3> QED
      BY <1>0, <3>1, <3>2, ShellKeeps
  <2>2. CASE ~Even(win.gen)
    <3>0. sh.nTries + 1 \in 0..TRIES /\ win.gen \in 0..MaxGen
      BY <1>0, <1>2 DEF SnapGen, Shell, DcWindow
    <3>a. sh' \in Shell
      BY <1>0, <1>2, <2>2, <3>0, ShellFields DEF SnapGen
    <3>1. sh'.pc = "sleep" /\ sh.pc = "try" /\ sh'.n = sh.n /\ drawn' = drawn
      BY <1>0, <1>2, <2>2 DEF SnapGen, Shell
    <3>2. CopyIsPrefix' /\ Looks' /\ KeptClean'
      BY <1>0, <3>1 DEF FrameInv, CopyIsPrefix, Looks, KeptClean
    <3> QED
      BY <1>0, <3>a, <3>1, <3>2, ShellKeeps
  <2> QED
    BY <2>1, <2>2
<1>3. CASE SnapWake
  <2>1. /\ sh' \in Shell /\ sh'.pc = "try" /\ sh.pc = "sleep" /\ sh'.n = sh.n /\ drawn' = drawn
    BY <1>0, <1>3 DEF SnapWake, Shell
  <2>2. CopyIsPrefix' /\ Looks' /\ KeptClean'
    BY <1>0, <2>1 DEF FrameInv, CopyIsPrefix, Looks, KeptClean
  <2> QED
    BY <1>0, <2>1, <2>2, ShellKeeps
<1>4. CASE SnapCount
  <2>1. win.cmdCount \in 0..MAXCMD
    BY <1>0 DEF DcWindow
  <2>0. sh' = [sh EXCEPT !.cCmd = win.cmdCount, !.i = 0, !.pc = "copy"] /\ 0 \in 0..MAXCMD
    <3>1. Clamp(win.cmdCount) = win.cmdCount
      BY <2>1 DEF Clamp
    <3> QED
      BY <1>4, <3>1 DEF SnapCount
  <2>a. sh' \in Shell
    <3> DEFINE s1 == [sh EXCEPT !.cCmd = win.cmdCount]
               s2 == [s1 EXCEPT !.i = 0]
    <3>1. s1 \in Shell
      BY <1>0, <2>1, ShellFields
    <3>2. ASSUME NEW t \in Shell PROVE [t EXCEPT !.i = 0] \in Shell
      BY <2>0, ShellFields
    <3>3. ASSUME NEW t \in Shell PROVE [t EXCEPT !.pc = "copy"] \in Shell
      BY ShellFields
    <3>4. s2 \in Shell
      BY <3>1, <3>2
    <3>5. [s2 EXCEPT !.pc = "copy"] \in Shell
      BY <3>3, <3>4
    <3> QED
      BY <2>0, <3>5
  <2>2. /\ sh'.pc = "copy" /\ sh.pc = "count" /\ sh'.i = 0
        /\ sh'.cCmd = win.cmdCount /\ sh'.n = sh.n /\ sh'.dwGen1 = sh.dwGen1 /\ drawn' = drawn
        /\ sh'.nTries = sh.nTries
    BY <1>0, <1>4, <2>0 DEF SnapCount, Shell
  <2>3. CopyIsPrefix' /\ Looks' /\ KeptClean'
    BY <1>0, <2>1, <2>2 DEF FrameInv, CopyIsPrefix, Looks, KeptClean, StableIsFront
  <2> QED
    BY <1>0, <2>a, <2>2, <2>3, ShellKeeps
<1>5. CASE SnapCopy
  <2>1. /\ sh.pc = "copy" /\ sh.i \in Nat /\ sh.i < sh.cCmd /\ sh.i + 1 \in 1..MAXCMD
        /\ sh.cCmd \in 0..MAXCMD /\ win.cmd \in Cells /\ sh.snap \in Cells
    BY <1>0, <1>5 DEF SnapCopy, Shell, DcWindow
  <2> DEFINE snap2 == [sh.snap EXCEPT ![sh.i + 1] = win.cmd[sh.i + 1]]
  <2>2. snap2 \in Cells
    BY <2>1 DEF Cells
  <2>0. sh' = [sh EXCEPT !.snap = snap2, !.i = sh.i + 1] /\ sh.i + 1 \in 0..MAXCMD
    BY <1>5, <2>1 DEF SnapCopy
  <2>a. sh' \in Shell
    BY <1>0, <2>0, <2>2, ShellFields
  <2>3. /\ sh'.pc = "copy" /\ sh'.i = sh.i + 1 /\ sh'.snap = snap2
        /\ sh'.cCmd = sh.cCmd /\ sh'.n = sh.n /\ sh'.dwGen1 = sh.dwGen1 /\ drawn' = drawn
        /\ sh'.nTries = sh.nTries
    BY <1>0, <1>5, <2>0, <2>1 DEF SnapCopy, Shell
  <2>4. Looks' /\ KeptClean'
    BY <1>0, <2>1, <2>3 DEF FrameInv, Looks, KeptClean
  <2>5. ASSUME win.gen = sh.dwGen1, NEW i \in 1..sh'.i
        PROVE  sh'.cCmd = Len(front) /\ sh'.snap[i] = front[i]
    <3>1. Even(win.gen) /\ sh.cCmd = Len(front) /\ \A k \in 1..sh.i : sh.snap[k] = front[k]
      BY <2>1, <2>5 DEF FrameInv, CopyIsPrefix, Looks
    <3>2. win.cmd[sh.i + 1] = front[sh.i + 1]
      BY <2>1, <3>1 DEF FrameInv, StableIsFront
    <3>3. i = sh.i + 1 \/ i \in 1..sh.i
      BY <2>1, <2>3
    <3> QED
      BY <2>1, <2>3, <3>1, <3>2, <3>3 DEF Cells
  <2>6. CopyIsPrefix'
    <3>1. win.gen = sh.dwGen1 => sh.cCmd = Len(front)
      BY <2>1 DEF FrameInv, CopyIsPrefix
    <3> QED
      BY <1>0, <2>3, <2>5, <3>1 DEF CopyIsPrefix
  <2> QED
    BY <1>0, <2>a, <2>3, <2>4, <2>6, ShellKeeps
<1>6. CASE SnapCheck
  <2>1. CASE win.gen = sh.dwGen1
    <3>1. /\ sh' \in Shell /\ sh'.pc = "draw" /\ sh.pc = "copy" /\ sh.i = sh.cCmd
          /\ sh'.n = sh.cCmd /\ sh'.snap = sh.snap /\ drawn' = drawn
      BY <1>0, <1>6, <2>1 DEF SnapCheck, Shell
    <3>2. sh.cCmd = Len(front) /\ \A i \in 1..sh.cCmd : sh.snap[i] = front[i]
      BY <2>1, <3>1 DEF FrameInv, CopyIsPrefix
    <3>3. front \in Seq(Cmd)
      BY <1>0 DEF FrameTypeOK, Frames
    <3>4. \A i \in 1..sh'.n : sh'.snap[i] \in Cmd
      BY <3>1, <3>2, <3>3
    <3>5. CopyIsPrefix' /\ Looks' /\ KeptClean'
      BY <1>0, <3>1, <3>4 DEF FrameInv, CopyIsPrefix, Looks, KeptClean
    <3> QED
      BY <1>0, <3>1, <3>5, ShellKeeps
  <2>2. CASE win.gen # sh.dwGen1
    <3>0. sh.nTries < TRIES /\ sh.nTries \in Nat
      BY <1>0, <1>6 DEF SnapCheck, FrameInv, Looks, Shell
    <3>a. sh' \in Shell
      <4>1. sh' = [sh EXCEPT !.nTries = sh.nTries + 1, !.pc = "try"]
        BY <1>6, <2>2 DEF SnapCheck
      <4>2. sh.nTries + 1 \in 0..TRIES
        BY <3>0
      <4> QED
        BY <1>0, <4>1, <4>2, ShellFields
    <3>1. sh'.pc = "try" /\ sh.pc = "copy" /\ sh'.n = sh.n /\ drawn' = drawn
      BY <1>0, <1>6, <2>2 DEF SnapCheck, Shell
    <3>2. CopyIsPrefix' /\ Looks' /\ KeptClean'
      BY <1>0, <3>1 DEF FrameInv, CopyIsPrefix, Looks, KeptClean
    <3> QED
      BY <1>0, <3>a, <3>1, <3>2, ShellKeeps
  <2> QED
    BY <2>1, <2>2
<1>7. CASE SnapGiveUp
  <2>1. /\ sh' \in Shell /\ sh'.pc = "draw" /\ sh.pc = "try" /\ sh'.n = sh.n /\ drawn' = drawn
    BY <1>0, <1>7 DEF SnapGiveUp, Shell
  <2>2. CopyIsPrefix' /\ Looks' /\ KeptClean'
    BY <1>0, <2>1 DEF FrameInv, CopyIsPrefix, Looks, KeptClean
  <2> QED
    BY <1>0, <2>1, <2>2, ShellKeeps
<1>8. CASE DrawWindow
  <2>1. drawn' \in Frames
    <3>1. SubSeq(sh.snap, 1, sh.n) \in Frames
      BY <1>0, PrefixIsFrame DEF FrameInv, KeptClean, Shell
    <3>2. <<>> \in Frames
      BY DEF Frames
    <3> QED
      BY <1>8, <3>1, <3>2 DEF DrawWindow
  <2>2. sh' \in Shell /\ sh'.pc = "wait" /\ sh'.n = sh.n /\ sh'.snap = sh.snap
    BY <1>0, <1>8 DEF DrawWindow, Shell
  <2>3. CopyIsPrefix' /\ Looks' /\ KeptClean'
    BY <1>0, <2>2 DEF FrameInv, CopyIsPrefix, Looks, KeptClean
  <2> QED
    BY <1>0, <2>1, <2>2, <2>3, ShellKeeps
<1> QED
  BY <1>1, <1>2, <1>3, <1>4, <1>5, <1>6, <1>7, <1>8 DEF ShellNext

LEMMA FrameStepInv == FrameInv /\ [FrameNext]_frameVars => FrameInv'
<1>1. FrameInv /\ UNCHANGED frameVars => FrameInv'
  BY DEF frameVars, clientSide, shellSide, FrameInv, FrameTypeOK, StableIsFront, CopyIsPrefix, Writing,
     Looks, KeptClean, Even
<1> QED
  BY <1>1, ClientStep, ShellStep DEF FrameNext

\* What holds between the accesses of a slot, for any number of tries, frames and
\* clients, and whether or not the client can cut in on the shell: the invariant
\* that the properties below follow from.
THEOREM FrameLockInvariant == FrameSpec => []FrameInv
BY FrameInitInv, FrameStepInv, PTL DEF FrameSpec
-----------------------------------------------------------------------------
(* The properties the runs check.                                          *)

\* Every reachable state is well-typed.
THEOREM FrameLockTypes == FrameSpec => []FrameTypeOK
<1>1. FrameInv => FrameTypeOK
  BY DEF FrameInv
<1> QED
  BY <1>1, FrameLockInvariant, PTL

\* While gen is even the list in the slot is the frame that its client published
\* last, so an EndFrame that is cut short never leaves a list that looks finished.
THEOREM StableList == FrameSpec => []StableIsFront
<1>1. FrameInv => StableIsFront
  BY DEF FrameInv
<1> QED
  BY <1>1, FrameLockInvariant, PTL

\* What SnapWindows keeps is the frame published last.
LEMMA AcceptedIsFront ==
  ASSUME FrameInv, SnapCheck, win.gen = sh.dwGen1
  PROVE  /\ sh'.n = sh.cCmd /\ sh'.snap = sh.snap
         /\ SubSeq(sh'.snap, 1, sh'.n) = front
<1>1. sh \in Shell /\ front \in Frames
  BY DEF FrameInv, FrameTypeOK
<1>2. /\ sh'.n = sh.cCmd /\ sh'.snap = sh.snap /\ sh.pc = "copy" /\ sh.i = sh.cCmd
      /\ sh.cCmd \in 0..MAXCMD /\ sh.snap \in Cells
  BY <1>1 DEF SnapCheck, Shell
<1>3. sh.cCmd = Len(front) /\ \A i \in 1..sh.cCmd : sh.snap[i] = front[i]
  BY <1>2 DEF FrameInv, CopyIsPrefix
<1>4. front \in Seq(Cmd)
  BY <1>1 DEF Frames
<1>5. \A i \in 1..sh.cCmd : sh.snap[i] \in Cmd
  BY <1>3, <1>4
<1>6. /\ SubSeq(sh.snap, 1, sh.cCmd) \in Seq(Cmd) /\ Len(SubSeq(sh.snap, 1, sh.cCmd)) = sh.cCmd
      /\ \A i \in 1..sh.cCmd : SubSeq(sh.snap, 1, sh.cCmd)[i] = sh.snap[i]
  BY <1>2, <1>5, PrefixIsFrame DEF Frames
<1>7. SubSeq(sh.snap, 1, sh.cCmd) = front
  BY <1>3, <1>4, <1>6
<1> QED
  BY <1>2, <1>7

\* A step of the shell that is not an accepting SnapCheck leaves the kept
\* prefix alone or drops it.
LEMMA OtherSteps ==
  ASSUME FrameInv, [FrameNext]_frameVars, ~(SnapCheck /\ win.gen = sh.dwGen1)
  PROVE  \/ sh'.n = 0 /\ sh' \in Shell
         \/ sh'.n = sh.n /\ sh'.snap = sh.snap
<1> SUFFICES ASSUME ~UNCHANGED sh
             PROVE  \/ sh'.n = 0 /\ sh' \in Shell
                    \/ sh'.n = sh.n /\ sh'.snap = sh.snap
  OBVIOUS
<1>1. ShellNext
  BY DEF FrameNext, frameVars, shellSide, ClientNext, Open, LockFrame, FinishFrame, CopyCmd, SetCount,
     UnlockFrame, Close
<1>2. sh \in Shell /\ sh' \in Shell
  BY FrameStepInv DEF FrameInv, FrameTypeOK
<1>3. CASE SnapBegin
  BY <1>2, <1>3 DEF SnapBegin, Shell
<1>4. CASE SnapGen
  BY <1>2, <1>4 DEF SnapGen, Shell
<1>5. CASE SnapWake
  BY <1>2, <1>5 DEF SnapWake, Shell
<1>6. CASE SnapCount
  BY <1>2, <1>6 DEF SnapCount, Shell
<1>7. CASE SnapCopy
  <2>1. sh.n = 0
    BY <1>7 DEF SnapCopy, FrameInv, KeptClean
  <2>2. sh'.n = sh.n
    BY <1>2, <1>7 DEF SnapCopy, Shell
  <2> QED
    BY <1>2, <2>1, <2>2
<1>8. CASE SnapCheck
  BY <1>2, <1>8 DEF SnapCheck, Shell
<1>9. CASE SnapGiveUp
  BY <1>2, <1>9 DEF SnapGiveUp, Shell
<1>10. CASE DrawWindow
  BY <1>2, <1>10 DEF DrawWindow, Shell
<1> QED
  BY <1>1, <1>3, <1>4, <1>5, <1>6, <1>7, <1>8, <1>9, <1>10 DEF ShellNext

\* A kept snapshot is one whole published frame.
THEOREM SnapshotsAreWhole == FrameSpec => NoTornFrame
<1>1. FrameInv /\ [FrameNext]_frameVars
        => [sh'.n # sh.n /\ sh'.n # 0 => SubSeq(sh'.snap, 1, sh'.n) = front]_frameVars
  BY AcceptedIsFront, OtherSteps
<1> QED
  BY <1>1, FrameLockInvariant, PTL DEF FrameSpec, NoTornFrame

\* The sequence lock implements the board of whole frames.
THEOREM FrameLockImplementsBoard == FrameSpec => ImplementsBoard
<1> DEFINE latched == SubSeq(sh.snap, 1, sh.n)
<1>1. FrameInit => Board!Init
  <2> SUFFICES ASSUME FrameInit PROVE Board!Init
    OBVIOUS
  <2>1. SubSeq(Zeroed, 1, 0) = <<>>
    OBVIOUS
  <2> QED
    BY <2>1 DEF FrameInit, Board!Init
<1>2. FrameInv /\ [FrameNext]_frameVars => [Board!Next]_(Board!vars)
  <2> SUFFICES ASSUME FrameInv, [FrameNext]_frameVars PROVE [Board!Next]_(Board!vars)
    OBVIOUS
  <2>0. /\ FrameTypeOK /\ FrameTypeOK' /\ front' \in Board!Frames
        /\ sh \in Shell /\ sh' \in Shell
    BY FrameStepInv DEF FrameInv, FrameTypeOK, Frames, Board!Frames
  <2>1. CASE ClientNext
    <3>1. UNCHANGED <<sh, drawn>>
      BY <2>1 DEF ClientNext, Open, LockFrame, FinishFrame, CopyCmd, SetCount, UnlockFrame,
         Close, shellSide
    <3> QED
      BY <2>0, <3>1 DEF Board!Next, Board!Publish, Board!vars
  <2>2. CASE SnapCheck /\ win.gen = sh.dwGen1
    <3>1. SubSeq(sh'.snap, 1, sh'.n) = front /\ drawn' = drawn /\ front' = front
      BY <2>2, AcceptedIsFront DEF SnapCheck, clientSide
    <3> QED
      BY <3>1 DEF Board!Next, Board!Latch
  <2>3. CASE DrawWindow
    <3>1. drawn' \in {latched, <<>>} /\ front' = front
      BY <2>3 DEF DrawWindow, clientSide
    <3>2. sh'.n = sh.n /\ sh'.snap = sh.snap
      BY <2>0, <2>3 DEF DrawWindow, Shell
    <3> QED
      BY <3>1, <3>2 DEF Board!Next, Board!Present
  <2>4. CASE ShellNext /\ ~DrawWindow /\ ~(SnapCheck /\ win.gen = sh.dwGen1)
    <3>1. front' = front /\ drawn' = drawn
      BY <2>4 DEF ShellNext, SnapBegin, SnapGen, SnapWake, SnapCount, SnapCopy, SnapCheck,
         SnapGiveUp, clientSide
    <3>2. CASE sh'.n = 0
      <4>1. SubSeq(sh'.snap, 1, 0) = <<>>
        OBVIOUS
      <4> QED
        BY <3>1, <3>2, <4>1 DEF Board!Next, Board!Latch
    <3>3. CASE sh'.n = sh.n /\ sh'.snap = sh.snap
      BY <3>1, <3>3 DEF Board!vars
    <3> QED
      BY <2>4, <3>2, <3>3, OtherSteps
  <2>5. CASE UNCHANGED frameVars
    BY <2>5 DEF frameVars, clientSide, shellSide, Board!vars
  <2> QED
    BY <2>1, <2>2, <2>3, <2>4, <2>5 DEF FrameNext
<1> QED
  BY <1>1, <1>2, FrameLockInvariant, PTL DEF FrameSpec, Board!Spec, ImplementsBoard

-----------------------------------------------------------------------------
(* The key ring                                                             *)

LEMMA CellRange ==
  ASSUME NEW num \in Nat PROVE Cell(num) \in 0..MAXIN - 1
BY KeyRingAssumption DEF Cell

LEMMA OtherCells ==
  ASSUME NEW S, NEW T, NEW f \in [S -> T], NEW h \in S, NEW c \in S, c # h, NEW k
  PROVE  [f EXCEPT ![h] = k][c] = f[c]
OBVIOUS

\* Less than a lap apart, two positions have different cells.
LEMMA CellsDiffer ==
  ASSUME NEW m \in Nat, NEW num \in Nat, m < num, num - m < MAXIN
  PROVE  Cell(m) # Cell(num)
<1> DEFINE qm == m \div MAXIN
           qn == num \div MAXIN
<1>1. MAXIN \in Nat \ {0}
  BY KeyRingAssumption
<1>2. /\ qm \in Nat /\ qn \in Nat
      /\ m = MAXIN * qm + (m % MAXIN) /\ num = MAXIN * qn + (num % MAXIN)
  BY <1>1
<1> SUFFICES ASSUME m % MAXIN = num % MAXIN PROVE FALSE
  BY DEF Cell
<1> HIDE DEF qm, qn
<1>3. num - m = MAXIN * qn - MAXIN * qm
  BY <1>1, <1>2
<1>4. CASE qn <= qm
  <2>1. MAXIN * qn <= MAXIN * qm
    BY <1>1, <1>2, <1>4
  <2> QED
    BY <1>1, <1>2, <1>3, <2>1
<1>5. CASE qn >= qm + 1
  <2>1. MAXIN * qn >= MAXIN * (qm + 1)
    BY <1>1, <1>2, <1>5
  <2>2. MAXIN * (qm + 1) = MAXIN * qm + MAXIN
    BY <1>1, <1>2
  <2> QED
    BY <1>1, <1>2, <1>3, <2>1, <2>2
<1> QED
  BY <1>2, <1>4, <1>5
-----------------------------------------------------------------------------
\* The indices count the histories; a poll past its test has a key to return,
\* and, until the ring is overrun, the key it read is the oldest unread one.
Counts ==
  /\ inHead = Len(pushed) /\ inTail = Len(got) /\ inTail <= inHead
  /\ pc \in {"read", "advance"} => inTail < inHead
  /\ ~overrun => inHead - inTail <= MAXIN

Reading ==
  /\ \A num \in 0..inHead - 1 : in[Cell(num)] \in Key
  /\ pc = "advance" => key \in Key /\ (~overrun => key = pushed[inTail + 1])

RingInv == RingTypeOK /\ Counts /\ Reading /\ HoldsNewest /\ InOrderUntilOverrun

LEMMA RingInitInv == RingInit => RingInv
<1> SUFFICES ASSUME RingInit PROVE RingInv
  OBVIOUS
<1> USE KeyRingAssumption
<1>0. /\ in \in [0..MAXIN - 1 -> Key \cup {NoKey}]
      /\ pushed \in Seq(Key) /\ got \in Seq(Key)
  <2>1. in = [c \in 0..MAXIN - 1 |-> NoKey] /\ pushed = <<>> /\ got = <<>>
    BY DEF RingInit
  <2>2. <<>> \in Seq(Key)
    OBVIOUS
  <2>3. in \in [0..MAXIN - 1 -> Key \cup {NoKey}]
    BY <2>1
  <2> QED
    BY <2>1, <2>2, <2>3
<1>1. RingTypeOK
  <2>1. /\ inHead = 0 /\ inTail = 0 /\ pc = "idle" /\ key = NoKey
        /\ overrun = FALSE
    BY DEF RingInit
  <2> QED
    BY <1>0, <2>1 DEF RingTypeOK
<1>2. Len(pushed) = 0 /\ Len(got) = 0 /\ inHead = 0 /\ inTail = 0 /\ pc = "idle"
  BY DEF RingInit
<1>3. Counts /\ Reading
  BY <1>2, KeyRingAssumption DEF Counts, Reading
<1>4. HoldsNewest /\ InOrderUntilOverrun
  BY <1>2 DEF HoldsNewest, InOrderUntilOverrun
<1> QED
  BY <1>1, <1>3, <1>4 DEF RingInv

LEMMA PushStep ==
  ASSUME RingInv, NEW k \in Key, Push(k) PROVE RingInv'
<1> USE KeyRingAssumption
<1>1. /\ inHead' = inHead + 1 /\ inTail' = inTail /\ pc' = pc /\ key' = key /\ got' = got
      /\ in' = [in EXCEPT ![Cell(inHead)] = k] /\ pushed' = Append(pushed, k)
      /\ overrun' = (overrun \/ inHead + 1 - inTail > MAXIN)
  BY DEF Push
<1>2. /\ inHead \in Nat /\ inTail \in Nat /\ Len(pushed) = inHead /\ Len(got) = inTail
      /\ pushed \in Seq(Key) /\ got \in Seq(Key) /\ inTail <= inHead
      /\ in \in [0..MAXIN - 1 -> Key \cup {NoKey}] /\ overrun \in BOOLEAN
  BY DEF RingInv, RingTypeOK, Counts
<1>3. Cell(inHead) \in 0..MAXIN - 1 /\ in'[Cell(inHead)] = k
  BY <1>1, <1>2, CellRange
<1>4. /\ pushed' \in Seq(Key) /\ Len(pushed') = inHead + 1 /\ pushed'[inHead + 1] = k
      /\ \A i \in 1..inHead : pushed'[i] = pushed[i]
  BY <1>1, <1>2
<1>5. RingTypeOK'
  BY <1>1, <1>2, <1>3, <1>4 DEF RingInv, RingTypeOK
<1>6. ~overrun' => ~overrun
  BY <1>1, <1>2
<1>7. Counts'
  <2>1. ~overrun' => inHead' - inTail' <= MAXIN
    <3>1. ~overrun' => ~(inHead + 1 - inTail > MAXIN)
      BY <1>1, Zenon
    <3> QED
      BY <1>1, <1>2, <3>1
  <2>2. pc' \in {"read", "advance"} => inTail' < inHead'
    BY <1>1, <1>2 DEF RingInv, Counts
  <2> QED
    BY <1>1, <1>2, <1>4, <2>1, <2>2 DEF Counts
<1>8. \A num \in 0..inHead - 1 : in'[Cell(num)] = IF Cell(num) = Cell(inHead) THEN k ELSE in[Cell(num)]
  <2> SUFFICES ASSUME NEW num \in 0..inHead - 1
               PROVE  in'[Cell(num)] = IF Cell(num) = Cell(inHead) THEN k ELSE in[Cell(num)]
    OBVIOUS
  <2>0. num \in Nat
    BY <1>2
  <2>1. Cell(num) \in 0..MAXIN - 1
    BY <2>0, CellRange
  <2>2. CASE Cell(num) = Cell(inHead)
    BY <1>3, <2>2
  <2>3. CASE Cell(num) # Cell(inHead)
    <3>1. in'[Cell(num)] = in[Cell(num)]
      BY <1>1, <1>2, <1>3, <2>1, <2>3, OtherCells
    <3> QED
      BY <2>3, <3>1
  <2> QED
    BY <2>2, <2>3
<1>9. Reading'
  <2>1. \A num \in 0..inHead' - 1 : in'[Cell(num)] \in Key
    BY <1>1, <1>2, <1>3, <1>8 DEF RingInv, Reading
  <2>2. pc' = "advance" => key' \in Key /\ (~overrun' => key' = pushed'[inTail' + 1])
    BY <1>1, <1>2, <1>4, <1>6 DEF RingInv, Reading, Counts
  <2> QED
    BY <2>1, <2>2 DEF Reading
<1>10. HoldsNewest'
  <2> SUFFICES ASSUME NEW num \in 0..Len(pushed') - 1, num >= inHead' - MAXIN
               PROVE  in'[Cell(num)] = pushed'[num + 1]
    BY DEF HoldsNewest
  <2>1. CASE num = inHead
    BY <1>3, <1>4, <2>1
  <2>2. CASE num < inHead
    <3>1. Cell(num) # Cell(inHead)
      <4>1. num \in Nat /\ inHead - num < MAXIN
        BY <1>1, <1>2
      <4> QED
        BY <1>2, <2>2, <4>1, CellsDiffer
    <3>2. in[Cell(num)] = pushed[num + 1]
      BY <1>1, <1>2, <2>2 DEF RingInv, HoldsNewest
    <3>3. in'[Cell(num)] = in[Cell(num)]
      <4>1. num \in 0..inHead - 1
        BY <1>1, <1>2, <1>4, <2>2
      <4> QED
        BY <1>8, <3>1, <4>1
    <3>4. num + 1 \in 1..inHead
      BY <1>2, <1>4, <2>2
    <3> QED
      BY <1>4, <3>2, <3>3, <3>4
  <2> QED
    BY <1>2, <1>4, <2>1, <2>2
<1>11. InOrderUntilOverrun'
  BY <1>1, <1>2, <1>4, <1>6 DEF RingInv, InOrderUntilOverrun
<1> QED
  BY <1>5, <1>7, <1>9, <1>10, <1>11 DEF RingInv

LEMMA PollStep == ASSUME RingInv, PollKey PROVE RingInv'
<1> USE KeyRingAssumption
<1>1. CASE PollCheck
  <2>1. pc' = "read" /\ inTail # inHead /\ UNCHANGED <<in, inHead, inTail, key, pushed, got, overrun>>
    BY <1>1 DEF PollCheck
  <2>2. RingTypeOK'
    BY <2>1 DEF RingInv, RingTypeOK
  <2>3. Counts'
    BY <2>1 DEF RingInv, RingTypeOK, Counts
  <2>4. Reading'
    BY <2>1 DEF RingInv, Reading, Cell
  <2>5. HoldsNewest' /\ InOrderUntilOverrun'
    BY <2>1 DEF RingInv, HoldsNewest, InOrderUntilOverrun, Cell
  <2> QED
    BY <2>2, <2>3, <2>4, <2>5 DEF RingInv
<1>2. CASE PollRead
  <2>1. in[Cell(inTail)] \in Key
    BY <1>2 DEF PollRead, RingInv, RingTypeOK, Counts, Reading
  <2>2. ~overrun => in[Cell(inTail)] = pushed[inTail + 1]
    BY <1>2 DEF PollRead, RingInv, RingTypeOK, Counts, HoldsNewest
  <2> QED
    BY <1>2, <2>1, <2>2
    DEF PollRead, RingInv, RingTypeOK, Counts, Reading, HoldsNewest, InOrderUntilOverrun
<1>3. CASE PollAdvance
  <2>1. /\ got' = Append(got, key) /\ key \in Key /\ got \in Seq(Key) /\ inTail' = inTail + 1
        /\ inTail = Len(got) /\ inTail < inHead /\ inTail \in Nat /\ inHead \in Nat
    BY <1>3 DEF PollAdvance, RingInv, RingTypeOK, Counts, Reading
  <2>2. /\ got' \in Seq(Key) /\ Len(got') = inTail + 1 /\ got'[inTail + 1] = key
        /\ \A i \in 1..inTail : got'[i] = got[i]
    BY <2>1
  <2>3. RingTypeOK' /\ Counts' /\ Reading' /\ HoldsNewest'
    BY <1>3, <2>1, <2>2 DEF PollAdvance, RingInv, RingTypeOK, Counts, Reading, HoldsNewest
  <2>4. InOrderUntilOverrun'
    BY <1>3, <2>1, <2>2 DEF PollAdvance, RingInv, Counts, Reading, InOrderUntilOverrun
  <2> QED
    BY <2>3, <2>4 DEF RingInv
<1> QED
  BY <1>1, <1>2, <1>3 DEF PollKey

\* What the ring keeps, whatever the shell pushes and the app polls (OnKey, DCWinPollKey).
THEOREM KeyRingInvariant == RingSpec => []RingInv
<1>1. RingInv /\ [RingNext]_ringVars => RingInv'
  <2>1. RingInv /\ UNCHANGED ringVars => RingInv'
    BY DEF ringVars, RingInv, RingTypeOK, Counts, Reading, HoldsNewest, InOrderUntilOverrun
  <2> QED
    BY <2>1, PushStep, PollStep DEF RingNext
<1> QED
  BY <1>1, RingInitInv, PTL DEF RingSpec

\* Indices, cells and histories keep their types.
THEOREM KeyRingTypes == RingSpec => []RingTypeOK
<1>1. RingInv => RingTypeOK
  BY DEF RingInv
<1> QED
  BY <1>1, KeyRingInvariant, PTL

\* Until the ring is overrun the app gets the keys once each and in order.
THEOREM KeysInOrder == RingSpec => []InOrderUntilOverrun
<1>1. RingInv => InOrderUntilOverrun
  BY DEF RingInv
<1> QED
  BY <1>1, KeyRingInvariant, PTL

\* The ring holds the last MAXIN keys pressed, overrun or not.
THEOREM NewestKept == RingSpec => []HoldsNewest
<1>1. RingInv => HoldsNewest
  BY DEF RingInv
<1> QED
  BY <1>1, KeyRingInvariant, PTL
-----------------------------------------------------------------------------
(* The mailboxes                                                            *)

\* A number the shell has not seen stands for one post not yet taken.
Pending == IF seq # last THEN 1 ELSE 0
Counted == Len(taken) + Pending <= posts

\* A writer in the middle of a post has one left.
Allowed == \A w \in Writers : at[w] # "idle" => n[w] < MaxPost

MailInv == MailTypeOK /\ Allowed /\ Counted

LEMMA MailInitInv == MailInit => MailInv
<1> SUFFICES ASSUME MailInit PROVE MailInv
  OBVIOUS
<1>1. /\ taken = <<>> /\ posts = 0 /\ seq = 0 /\ last = 0
      /\ newest = NoMsg /\ overlap = FALSE
  BY DEF MailInit
<1>2. taken \in Seq([Fields -> Messages \cup {NoMsg}]) /\ Len(taken) = 0
  BY <1>1
<1>3. MailTypeOK
  <2>1. /\ box \in [Fields -> Messages \cup {NoMsg}]
        /\ at \in [Writers -> {"idle", "write", "load", "store"}]
        /\ field \in [Writers -> Fields] /\ reg \in [Writers -> Nat]
        /\ n \in [Writers -> 0..MaxPost]
    BY MailboxAssumption DEF MailInit, Fields
  <2>2. newest \in Messages \cup {NoMsg}
    BY <1>1
  <2> QED
    BY <1>1, <1>2, <2>1, <2>2 DEF MailTypeOK
<1>4. Allowed
  BY DEF MailInit, Allowed
<1> QED
  BY <1>1, <1>2, <1>3, <1>4 DEF MailInv, Counted, Pending

LEMMA WriterStep ==
  ASSUME MailInv, NEW w \in Writers, Begin(w) \/ Post(w) PROVE MailInv'
<1> USE MailboxAssumption DEF MailInv, history
<1>0. Len(taken) \in Nat /\ Pending \in {0, 1} /\ seq \in Nat /\ last \in Nat /\ posts \in Nat
  BY DEF MailTypeOK, Pending
<1>1. CASE Begin(w)
  <2>1. MailTypeOK'
    BY <1>1 DEF Begin, MailTypeOK, Fields
  <2>2. Allowed'
    BY <1>1 DEF Begin, MailTypeOK, Allowed
  <2>3. Counted'
    BY <1>1 DEF Begin, Counted, Pending
  <2> QED
    BY <2>1, <2>2, <2>3
<1>2. CASE WriteField(w)
  <2>1. <<w, n[w] + 1>> \in Messages
    <3>1. n[w] \in 0..MaxPost
      BY DEF MailTypeOK
    <3>2. n[w] < MaxPost
      BY <1>2 DEF WriteField, Allowed
    <3>3. n[w] + 1 \in 1..MaxPost
      BY <3>1, <3>2
    <3> QED
      BY <3>3 DEF Messages
  <2>2. box' \in [Fields -> Messages \cup {NoMsg}]
    BY <1>2, <2>1 DEF WriteField, MailTypeOK
  <2>3. CASE field[w] < NFIELDS
    <3>1. field' = [field EXCEPT ![w] = @ + 1] /\ at' = at
      BY <1>2, <2>3 DEF WriteField
    <3>2. field[w] + 1 \in Fields
      BY <2>3 DEF MailTypeOK, Fields
    <3>3. field' \in [Writers -> Fields]
      BY <3>1, <3>2 DEF MailTypeOK
    <3>4. MailTypeOK'
      BY <1>2, <2>2, <3>1, <3>3 DEF WriteField, MailTypeOK
    <3>5. Allowed'
      BY <1>2, <3>1 DEF WriteField, Allowed
    <3> QED
      BY <1>2, <3>4, <3>5 DEF WriteField, Counted, Pending
  <2>4. CASE ~(field[w] < NFIELDS)
    <3>1. at' = [at EXCEPT ![w] = "load"] /\ field' = field /\ at[w] = "write"
      BY <1>2, <2>4 DEF WriteField
    <3>2. MailTypeOK'
      BY <1>2, <2>2, <3>1 DEF WriteField, MailTypeOK
    <3>3. Allowed'
      BY <1>2, <3>1 DEF WriteField, Allowed, MailTypeOK
    <3> QED
      BY <1>2, <3>2, <3>3 DEF WriteField, Counted, Pending
  <2> QED
    BY <2>3, <2>4
<1>3. CASE LoadSeq(w)
  <2>1. MailTypeOK'
    BY <1>3 DEF LoadSeq, MailTypeOK
  <2>2. Allowed'
    BY <1>3 DEF LoadSeq, MailTypeOK, Allowed
  <2>3. Counted'
    BY <1>3 DEF LoadSeq, Counted, Pending
  <2> QED
    BY <2>1, <2>2, <2>3
<1>4. CASE StoreSeq(w)
  <2>1. n[w] + 1 \in 0..MaxPost /\ reg[w] + 1 \in Nat
    <3>1. n[w] \in 0..MaxPost /\ reg[w] \in Nat
      BY DEF MailTypeOK
    <3>2. n[w] < MaxPost
      BY <1>4 DEF StoreSeq, Allowed
    <3> QED
      BY <3>1, <3>2
  <2>2. <<w, n[w] + 1>> \in Messages
    <3>1. n[w] \in 0..MaxPost /\ n[w] < MaxPost
      BY <1>4 DEF StoreSeq, Allowed, MailTypeOK
    <3>2. n[w] + 1 \in 1..MaxPost
      BY <3>1
    <3> QED
      BY <3>2 DEF Messages
  <2>3. MailTypeOK'
    BY <1>4, <2>1, <2>2 DEF StoreSeq, MailTypeOK
  <2>4. Allowed'
    BY <1>4 DEF StoreSeq, MailTypeOK, Allowed
  <2>5. Len(taken') = Len(taken) /\ posts' = posts + 1 /\ Pending' \in {0, 1}
    BY <1>4 DEF StoreSeq, Pending
  <2>6. Counted'
    BY <1>0, <2>5 DEF Counted
  <2> QED
    BY <2>3, <2>4, <2>6
<1> QED
  BY <1>1, <1>2, <1>3, <1>4 DEF Post

LEMMA TakeStep == ASSUME MailInv, Take PROVE MailInv'
<1>1. /\ taken \in Seq([Fields -> Messages \cup {NoMsg}])
      /\ box \in [Fields -> Messages \cup {NoMsg}]
      /\ taken' = Append(taken, box) /\ seq # last /\ last' = seq /\ seq' = seq /\ posts' = posts
  BY DEF Take, MailInv, MailTypeOK, history
<1>2. taken' \in Seq([Fields -> Messages \cup {NoMsg}]) /\ Len(taken') = Len(taken) + 1
  BY <1>1
<1>3. MailTypeOK' /\ Allowed'
  BY <1>1, <1>2 DEF Take, MailInv, MailTypeOK, Allowed, writer, history
<1>4. Pending = 1 /\ Pending' = 0
  BY <1>1 DEF Pending
<1>5. Counted'
  BY <1>1, <1>2, <1>4 DEF MailInv, MailTypeOK, Counted
<1> QED
  BY <1>3, <1>5 DEF MailInv

LEMMA MailInvStep == MailInv /\ [MailNext]_mailVars => MailInv'
<1>1. MailInv /\ UNCHANGED mailVars => MailInv'
  BY DEF mailVars, writer, history, MailInv, MailTypeOK, Allowed, Counted, Pending
<1> QED
  BY <1>1, WriterStep, TakeStep DEF MailNext

\* One message at most is taken for each that was posted.
THEOREM MailboxTakesAtMostPosts == MailSpec => []TakesAtMostPosts
<1>2. MailInv => TakesAtMostPosts
  <2> SUFFICES ASSUME MailInv PROVE TakesAtMostPosts
    OBVIOUS
  <2>1. Len(taken) \in Nat /\ posts \in Nat /\ Pending \in {0, 1}
    BY DEF MailInv, MailTypeOK, Pending
  <2> QED
    BY <2>1 DEF MailInv, Counted, TakesAtMostPosts
<1> QED
  BY <1>2, MailInvStep, MailInitInv, PTL DEF MailSpec

\* Without an overlap one app at most is at work; it has written the parts behind it, and
\* a message that nobody writes is whole, or was never asked for.
Alone   == \A v, w \in Writers : at[v] # "idle" /\ at[w] # "idle" => v = w
Partial == \A w \in Writers : at[w] = "write" => \A f \in 1..field[w] - 1 : box[f] = <<w, n[w] + 1>>
Settled == \A w \in Writers : at[w] \in {"load", "store"} => box = Whole(<<w, n[w] + 1>>)
Sound   == (\A w \in Writers : at[w] # "write") => seq = last \/ \E m \in Messages : box = Whole(m)

WholeInv == ~overlap => Alone /\ Partial /\ Settled /\ Sound

LEMMA WholeInit == MailInit => WholeInv
BY DEF MailInit, WholeInv, Alone, Partial, Settled, Sound

LEMMA PostIsMessage ==
  ASSUME MailInv, NEW w \in Writers, at[w] # "idle" PROVE <<w, n[w] + 1>> \in Messages
<1>1. n[w] \in 0..MaxPost /\ n[w] < MaxPost /\ MaxPost \in Nat
  BY MailboxAssumption DEF MailInv, MailTypeOK, Allowed
<1>2. n[w] + 1 \in 1..MaxPost
  BY <1>1
<1> QED
  BY <1>2 DEF Messages

LEMMA WriterKeepsWhole ==
  ASSUME MailInv, WholeInv, NEW w \in Writers, Begin(w) \/ Post(w) PROVE WholeInv'
<1> USE DEF history
<1>1. /\ at \in [Writers -> {"idle", "write", "load", "store"}] /\ field \in [Writers -> Fields]
      /\ n \in [Writers -> 0..MaxPost] /\ box \in [Fields -> Messages \cup {NoMsg}]
      /\ NFIELDS \in Nat /\ Fields = 1..NFIELDS /\ NFIELDS >= 1
  BY MailboxAssumption DEF MailInv, MailTypeOK, Fields
<1>2. CASE Begin(w)
  <2> SUFFICES ASSUME ~overlap' PROVE Alone' /\ Partial' /\ Settled' /\ Sound'
    BY DEF WholeInv
  <2>1. /\ ~overlap /\ \A v \in Writers : at[v] = "idle"
        /\ at' = [at EXCEPT ![w] = "write"] /\ field' = [field EXCEPT ![w] = 1]
        /\ UNCHANGED <<box, seq, n, last>>
    BY <1>2 DEF Begin
  <2>2. at'[w] = "write" /\ field'[w] = 1 /\ \A v \in Writers : v # w => at'[v] = "idle"
    BY <1>1, <2>1
  <2>3. 1..field'[w] - 1 = {}
    BY <2>2
  <2> QED
    BY <2>2, <2>3 DEF Alone, Partial, Settled, Sound
<1>3. CASE Post(w)
  <2> SUFFICES ASSUME ~overlap PROVE Alone' /\ Partial' /\ Settled' /\ Sound'
    BY <1>3 DEF WholeInv, Post, WriteField, LoadSeq, StoreSeq
  <2>1. Alone /\ Partial /\ Settled /\ Sound /\ at[w] # "idle"
    BY <1>3 DEF WholeInv, Post, WriteField, LoadSeq, StoreSeq
  <2>2. \A v \in Writers : v # w => at[v] = "idle"
    BY <2>1 DEF Alone
  <2>3. <<w, n[w] + 1>> \in Messages
    BY <2>1, PostIsMessage
  <2>4. CASE WriteField(w)
    <3>1. /\ at[w] = "write" /\ box' = [box EXCEPT ![field[w]] = <<w, n[w] + 1>>] /\ n' = n
      BY <2>4 DEF WriteField
    <3>2. /\ field[w] \in 1..NFIELDS /\ field[w] \in Fields
      BY <1>1
    <3>3. \A f \in 1..field[w] : box'[f] = <<w, n[w] + 1>>
      <4> SUFFICES ASSUME NEW f \in 1..field[w] PROVE box'[f] = <<w, n[w] + 1>>
        OBVIOUS
      <4>1. f \in Fields
        BY <1>1, <3>2
      <4>2. f # field[w] => f \in 1..field[w] - 1
        BY <3>2
      <4>3. f # field[w] => box[f] = <<w, n[w] + 1>>
        BY <2>1, <3>1, <4>2 DEF Partial
      <4> QED
        BY <1>1, <3>1, <4>1, <4>3
    <3>4. CASE field[w] < NFIELDS
      <4>1. field' = [field EXCEPT ![w] = field[w] + 1] /\ at' = at
        BY <2>4, <3>4 DEF WriteField
      <4>2. field'[w] - 1 = field[w] /\ \A v \in Writers : v # w => field'[v] = field[v]
        BY <1>1, <3>2, <4>1
      <4>3. Partial'
        BY <2>2, <3>1, <3>3, <4>1, <4>2 DEF Partial
      <4>4. Alone' /\ Settled' /\ Sound'
        BY <2>1, <2>2, <3>1, <4>1 DEF Alone, Settled, Sound
      <4> QED
        BY <4>3, <4>4
    <3>5. CASE ~(field[w] < NFIELDS)
      <4>1. field' = field /\ at' = [at EXCEPT ![w] = "load"]
        BY <2>4, <3>5 DEF WriteField
      <4>2. at'[w] = "load" /\ \A v \in Writers : v # w => at'[v] = "idle"
        BY <1>1, <2>2, <4>1
      <4>3. field[w] = NFIELDS
        BY <1>1, <3>2, <3>5
      <4>4. box' = Whole(<<w, n[w] + 1>>)
        <5>1. box' \in [Fields -> Messages \cup {NoMsg}]
          BY <1>1, <2>3, <3>1
        <5>2. \A f \in Fields : box'[f] = <<w, n[w] + 1>>
          BY <1>1, <3>3, <4>3
        <5> QED
          BY <5>1, <5>2 DEF Whole
      <4>5. Settled'
        BY <3>1, <4>2, <4>4 DEF Settled, Whole
      <4>6. Sound'
        BY <2>3, <4>4 DEF Sound, Whole
      <4> QED
        BY <4>2, <4>5, <4>6 DEF Alone, Partial
    <3> QED
      BY <3>4, <3>5
  <2>5. CASE LoadSeq(w)
    <3>1. at[w] = "load" /\ at' = [at EXCEPT ![w] = "store"] /\ UNCHANGED <<box, seq, field, n, last>>
      BY <2>5 DEF LoadSeq
    <3>2. at'[w] = "store" /\ \A v \in Writers : v # w => at'[v] = "idle"
      BY <1>1, <2>2, <3>1
    <3>3. box = Whole(<<w, n[w] + 1>>)
      BY <2>1, <3>1 DEF Settled
    <3> QED
      BY <2>3, <3>1, <3>2, <3>3 DEF Alone, Partial, Settled, Sound, Whole
  <2>6. CASE StoreSeq(w)
    <3>1. at[w] = "store" /\ at' = [at EXCEPT ![w] = "idle"] /\ box' = box
      BY <2>6 DEF StoreSeq
    <3>2. \A v \in Writers : at'[v] = "idle"
      BY <1>1, <2>2, <3>1
    <3>3. box = Whole(<<w, n[w] + 1>>)
      BY <2>1, <3>1 DEF Settled
    <3>4. Sound'
      BY <2>3, <3>1, <3>3 DEF Sound, Whole
    <3> QED
      BY <3>2, <3>4 DEF Alone, Partial, Settled
  <2> QED
    BY <1>3, <2>4, <2>5, <2>6 DEF Post
<1> QED
  BY <1>2, <1>3

LEMMA WholeStep == MailInv /\ WholeInv /\ [MailNext]_mailVars => WholeInv'
<1>1. ASSUME WholeInv, Take PROVE WholeInv'
  <2>1. UNCHANGED <<box, seq, at, field, n, overlap>> /\ last' = seq
    BY <1>1 DEF Take, writer, history
  <2> QED
    BY <1>1, <2>1 DEF WholeInv, Alone, Partial, Settled, Sound, Whole
<1>2. ASSUME WholeInv, UNCHANGED mailVars PROVE WholeInv'
  <2>1. UNCHANGED <<box, seq, at, field, n, overlap, last>>
    BY <1>2 DEF mailVars, writer, history
  <2> QED
    BY <1>2, <2>1 DEF WholeInv, Alone, Partial, Settled, Sound, Whole
<1> QED
  BY <1>1, <1>2, WriterKeepsWhole DEF MailNext

\* As long as no two apps post at the same time, the shell takes a message that one app
\* wrote, and wrote to its end, unless it takes it while the app writes.
THEOREM MailboxGivesWhole == MailSpec => WholeUnlessOverlap
<1>1. ASSUME MailInv, WholeInv, [MailNext]_mailVars, taken' # taken
      PROVE  overlap \/ (\E w \in Writers : at[w] = "write") \/ \E m \in Messages : box = Whole(m)
  <2>1. Take
    BY <1>1 DEF MailNext, mailVars, Begin, Post, WriteField, LoadSeq, StoreSeq
  <2>2. seq # last
    BY <2>1 DEF Take
  <2> QED
    BY <1>1, <2>2 DEF WholeInv, Sound
<1>2. MailInv /\ WholeInv /\ [MailNext]_mailVars
        => [taken' # taken => overlap \/ (\E w \in Writers : at[w] = "write")
                              \/ \E m \in Messages : box = Whole(m)]_mailVars
  BY <1>1
<1> QED
  BY <1>2, MailInitInv, MailInvStep, WholeInit, WholeStep, PTL DEF MailSpec, WholeUnlessOverlap
-----------------------------------------------------------------------------
(* The network tester: what it holds                                       *)

Turns == {"input", "connect", "reply", "dial", "download", "close", "gone"}

Holds ==
  /\ sockets \subseteq {"get", "test"} /\ turn \in Turns
  /\ "get" \in sockets => g_nDl = "active"
  /\ "test" \in sockets => turn \in {"connect", "reply"}
  /\ turn = "gone" => sockets = {} /\ cap = 0

\* A port that the tester has no handle of is free, unless it lost the handle.
HungUp == useDial /\ ~orphan /\ (g_hConn = 0 \/ turn = "gone") => modem = "free"

HoldsInv == Holds /\ HungUp /\ g_hConn \in {0, 1} /\ orphan \in BOOLEAN

LEMMA HoldsInit == NetInit => HoldsInv
BY DEF NetInit, HoldsInv, Holds, HungUp, Turns

LEMMA ClickHolds == ASSUME HoldsInv, Click PROVE HoldsInv'
<1> USE DEF HoldsInv, Turns
<1>1. turn = "input" /\ turn' = "dial"
  BY DEF Click
<1>2. CASE DoDial
  <2>1. UNCHANGED <<g_nDl, sockets, cap, useDial>> /\ orphan' = (orphan \/ (useDial /\ modem # "free"))
    BY <1>2 DEF DoDial, AfdRasDial, download, file
  <2>2. g_hConn' \in {0, 1}
    BY <1>2 DEF DoDial
  <2>3. Holds'
    BY <1>1, <2>1 DEF Holds
  <2>4. HungUp'
    <3> SUFFICES ASSUME useDial, ~orphan', g_hConn' = 0 \/ turn' = "gone" PROVE FALSE
      BY <2>1 DEF HungUp
    <3>1. modem = "free"
      BY <2>1
    <3>2. PICK ok \in BOOLEAN :
            /\ ok = (~useDial \/ modem = "free")
            /\ ok => g_hConn' = 1
      BY <1>2 DEF DoDial, AfdRasDial
    <3>3. ok
      BY <3>1, <3>2, Zenon
    <3> QED
      BY <1>1, <3>2, <3>3
  <2> QED
    BY <2>1, <2>2, <2>3, <2>4
<1>3. CASE DoHangup /\ UNCHANGED <<download, dials, gets, noMem, netHistory>>
  <2>1. UNCHANGED <<g_nDl, sockets, cap, useDial, orphan>> /\ g_hConn' = 0
    BY <1>3 DEF DoHangup, AfdRasHangUp, download, file, netHistory, ras
  <2>2. Holds'
    BY <1>1, <2>1 DEF Holds
  <2>3. HungUp'
    BY <1>1, <1>3, <2>1 DEF HungUp, DoHangup, AfdRasHangUp, ras
  <2> QED
    BY <2>1, <2>2, <2>3
<1>4. CASE DoDownloadStart
  <2>1. UNCHANGED <<useDial, modem, g_hConn, orphan>> /\ cap' = 0
        /\ \/ g_nDl' = "fail" /\ sockets' = sockets \ {"get"}
           \/ g_nDl' = "active" /\ sockets' = sockets \cup {"get"}
    BY <1>4 DEF DoDownloadStart, Freed, ras, conn
  <2> QED
    BY <1>1, <2>1 DEF Holds, HungUp
<1>5. CASE UNCHANGED <<ras, conn, download, dials, gets, noMem, netHistory>>
  <2>1. UNCHANGED <<useDial, modem, g_hConn, orphan, g_nDl, sockets, cap>>
    BY <1>5 DEF ras, conn, download, file, netHistory
  <2> QED
    BY <1>1, <2>1 DEF Holds, HungUp
<1> QED
  BY <1>2, <1>3, <1>4, <1>5 DEF Click

LEMMA HoldsStep == HoldsInv /\ [NetNext]_netVars => HoldsInv'
<1> SUFFICES ASSUME HoldsInv, [NetNext]_netVars PROVE HoldsInv'
  OBVIOUS
<1> USE DEF HoldsInv, Turns
<1>1. CASE Click
  BY <1>1, ClickHolds
<1>2. CASE DoTest \/ TryConnect \/ TestReply
  <2>1. UNCHANGED <<useDial, modem, g_hConn, orphan, g_nDl, cap>>
    BY <1>2 DEF DoTest, TryConnect, TestReply, ras, conn, file, netHistory
  <2>2. /\ turn \in {"input", "connect", "reply"}
        /\ \/ turn' \in {"connect", "reply"} /\ sockets' \in {sockets, sockets \cup {"test"}}
           \/ turn' = "dial" /\ sockets' = sockets \ {"test"}
    BY <1>2 DEF DoTest, TryConnect, TestReply
  <2> QED
    BY <2>1, <2>2 DEF Holds, HungUp
<1>3. CASE AdvanceDial
  <2>1. UNCHANGED <<useDial, modem, orphan, g_nDl, sockets, cap>> /\ g_hConn' = g_hConn
        /\ turn = "dial" /\ turn' = "download"
    BY <1>3 DEF AdvanceDial, PollDial, ras, conn, download, file, netHistory
  <2> QED
    BY <2>1 DEF Holds, HungUp
<1>4. CASE RecvData \/ RecvClose \/ RecvError \/ NoData \/ NoDownload
  <2>1. UNCHANGED <<useDial, modem, g_hConn, orphan>>
    BY <1>4 DEF RecvData, RecvClose, RecvError, NoData, NoDownload, ras, conn, netHistory
  <2>2. /\ turn = "download" /\ turn' \in {"download", "close"}
        /\ UNCHANGED <<g_nDl, sockets>> \/ sockets' = sockets \ {"get"}
    BY <1>4 DEF RecvData, RecvClose, RecvError, NoData, NoDownload, DownloadFinish, download
  <2> QED
    BY <2>1, <2>2 DEF Holds, HungUp
<1>5. CASE Stay
  <2>1. UNCHANGED <<useDial, modem, g_hConn, orphan, g_nDl, sockets, cap>>
        /\ turn = "close" /\ turn' = "input"
    BY <1>5 DEF Stay, ras, conn, download, file, netHistory
  <2> QED
    BY <2>1 DEF Holds, HungUp
<1>6. CASE Quit
  <2>1. UNCHANGED <<g_hConn, orphan, g_nDl>> /\ cap' = 0 /\ sockets' = sockets \ {"get"}
        /\ turn = "close" /\ turn' = "gone"
    BY <1>6 DEF Quit, Freed, conn, netHistory
  <2>2. useDial' = useDial /\ (useDial => modem' = IF g_hConn # 0 THEN "free" ELSE modem)
    BY <1>6 DEF Quit, AfdRasHangUp, ras
  <2> QED
    BY <2>1, <2>2 DEF Holds, HungUp
<1>7. CASE ModemStep \/ OtherProgram
  <2>1. UNCHANGED <<useDial, g_hConn, orphan, g_nDl, sockets, cap, turn>>
    BY <1>7 DEF ModemStep, OtherProgram, conn, download, file, netHistory
  <2>2. modem = "free" => modem' = "free"
    BY <1>7 DEF ModemStep, OtherProgram
  <2> QED
    BY <2>1, <2>2 DEF Holds, HungUp
<1>8. CASE UNCHANGED netVars
  <2>1. UNCHANGED <<useDial, modem, g_hConn, orphan, g_nDl, sockets, cap, turn>>
    BY <1>8 DEF netVars, ras, conn, download, file, netHistory
  <2> QED
    BY <2>1 DEF Holds, HungUp
<1> QED
  BY <1>1, <1>2, <1>3, <1>4, <1>5, <1>6, <1>7, <1>8 DEF NetNext, Loop

\* However often the tester dials, downloads and tests, and however each of them ends, in
\* the order of its loop: a tester that is gone has closed, freed and hung up everything,
\* unless it lost a handle by dialling again.
THEOREM TesterLeavesNothing == NetSpec => []LeavesNothing
<1>1. HoldsInv => LeavesNothing
  BY DEF HoldsInv, Holds, HungUp, LeavesNothing
<1> QED
  BY <1>1, HoldsInit, HoldsStep, PTL DEF NetSpec
-----------------------------------------------------------------------------
(* The network tester: what it received                                    *)

Units == {"header", "body"} \X Nat

\* The file after the first so many units of the reply, as long as there was memory.
Received ==
  /\ raw = came /\ ram = SubSeq(WholeReply, 1, Least(came, DL_MAX))
  /\ cap \in 0..DL_MAX /\ Least(came, DL_MAX) <= cap
  /\ hdrDone \in BOOLEAN /\ (hdrDone <=> came >= HDR)
  /\ bodyOff = IF hdrDone THEN HDR ELSE 0
  /\ total = IF hdrDone THEN length ELSE 0

Judged ==
  /\ g_nDl = "active" => verdict = "none"
  /\ verdict = "complete" => came = HDR + BODY
  /\ verdict = "incomplete" => came < HDR + BODY
  /\ verdict = "unknown" => length = 0 \/ came < HDR

FileInv ==
  /\ length \in {0, BODY} /\ came \in 0..HDR + BODY
  /\ ~short => IF turn = "gone" THEN ram = <<>> ELSE Received
  /\ ~short => Judged

LEMMA NetNumbers ==
  /\ HDR \in Nat /\ HDR > 0 /\ BODY \in Nat /\ DL_MAX \in Nat /\ HDR <= DL_MAX
BY NetTesterAssumption

LEMMA Reply ==
  /\ WholeReply \in Seq(Units) /\ Len(WholeReply) = HDR + BODY
  /\ \A i \in 1..HDR : WholeReply[i] = <<"header", i>>
  /\ \A i \in HDR + 1..HDR + BODY : WholeReply[i] = <<"body", i - HDR>>
<1>1. Header \in Seq(Units) /\ Len(Header) = HDR /\ \A i \in 1..HDR : Header[i] = <<"header", i>>
  BY NetNumbers DEF Header, Units
<1>2. Body \in Seq(Units) /\ Len(Body) = BODY /\ \A i \in 1..BODY : Body[i] = <<"body", i>>
  BY NetNumbers DEF Body, Units
<1>3. /\ WholeReply \in Seq(Units) /\ Len(WholeReply) = HDR + BODY
      /\ \A i \in 1..HDR + BODY : WholeReply[i] = IF i <= HDR THEN Header[i] ELSE Body[i - HDR]
  BY <1>1, <1>2, ConcatProperties DEF WholeReply
<1>4. \A i \in 1..HDR : i \in 1..HDR + BODY /\ i <= HDR
  BY NetNumbers
<1>5. \A i \in HDR + 1..HDR + BODY : i \in 1..HDR + BODY /\ ~(i <= HDR) /\ i - HDR \in 1..BODY
  BY NetNumbers
<1> QED
  BY <1>1, <1>2, <1>3, <1>4, <1>5

\* A part of the reply.
LEMMA Part ==
  ASSUME NEW a \in Nat, NEW b \in Nat, a <= b, b <= HDR + BODY
  PROVE  /\ SubSeq(WholeReply, a + 1, b) \in Seq(Units)
         /\ Len(SubSeq(WholeReply, a + 1, b)) = b - a
         /\ \A i \in 1..b - a : SubSeq(WholeReply, a + 1, b)[i] = WholeReply[a + i]
<1>1. \A i \in a + 1..b : WholeReply[i] \in Units
  BY Reply, NetNumbers
<1>2. /\ SubSeq(WholeReply, a + 1, b) \in Seq(Units)
      /\ Len(SubSeq(WholeReply, a + 1, b)) = IF a + 1 <= b THEN b - (a + 1) + 1 ELSE 0
      /\ \A i \in 1..b - (a + 1) + 1 : SubSeq(WholeReply, a + 1, b)[i] = WholeReply[a + 1 + i - 1]
  BY <1>1, SubSeqProperties
<1>3. b - (a + 1) + 1 = b - a
  OBVIOUS
<1>4. \A i \in 1..b - a : a + 1 + i - 1 = a + i
  OBVIOUS
<1> QED
  BY <1>2, <1>3, <1>4

LEMMA Prefix ==
  ASSUME NEW b \in Nat, b <= HDR + BODY
  PROVE  /\ SubSeq(WholeReply, 1, b) \in Seq(Units) /\ Len(SubSeq(WholeReply, 1, b)) = b
         /\ \A i \in 1..b : SubSeq(WholeReply, 1, b)[i] = WholeReply[i]
<1>1. \A i \in 1..b : WholeReply[i] \in Units
  BY Reply, NetNumbers
<1>2. /\ SubSeq(WholeReply, 1, b) \in Seq(Units)
      /\ Len(SubSeq(WholeReply, 1, b)) = IF 1 <= b THEN b - 1 + 1 ELSE 0
      /\ \A i \in 1..b - 1 + 1 : SubSeq(WholeReply, 1, b)[i] = WholeReply[1 + i - 1]
  BY <1>1, SubSeqProperties
<1>3. b - 1 + 1 = b /\ \A i \in 1..b : 1 + i - 1 = i
  OBVIOUS
<1> QED
  BY <1>2, <1>3

LEMMA PartOfPart ==
  ASSUME NEW a \in Nat, NEW b \in Nat, a <= b, b <= HDR + BODY, NEW m \in Nat, m <= b - a
  PROVE  SubSeq(SubSeq(WholeReply, a + 1, b), 1, m) = SubSeq(WholeReply, a + 1, a + m)
<1> DEFINE s == SubSeq(WholeReply, a + 1, b)
           t == SubSeq(WholeReply, a + 1, a + m)
<1>1. a + m \in Nat /\ a <= a + m /\ a + m <= HDR + BODY /\ (a + m) - a = m
  BY NetNumbers
<1>2. /\ s \in Seq(Units) /\ Len(s) = b - a /\ \A i \in 1..b - a : s[i] = WholeReply[a + i]
  BY Part
<1>3. /\ t \in Seq(Units) /\ Len(t) = m /\ \A i \in 1..m : t[i] = WholeReply[a + i]
  BY <1>1, Part
<1> HIDE DEF s, t
<1>4. \A i \in 1..m : s[i] \in Units
  BY <1>2
<1>5. /\ SubSeq(s, 1, m) \in Seq(Units)
      /\ Len(SubSeq(s, 1, m)) = IF 1 <= m THEN m - 1 + 1 ELSE 0
      /\ \A i \in 1..m - 1 + 1 : SubSeq(s, 1, m)[i] = s[1 + i - 1]
  BY <1>4, SubSeqProperties
<1>6. Len(SubSeq(s, 1, m)) = m /\ \A i \in 1..m : SubSeq(s, 1, m)[i] = s[i]
  BY <1>5
<1>7. \A i \in 1..m : SubSeq(s, 1, m)[i] = t[i]
  BY <1>2, <1>3, <1>6
<1>8. SubSeq(s, 1, m) = t
  BY <1>3, <1>5, <1>6, <1>7, SeqEqual
<1> QED
  BY <1>8 DEF s, t

LEMMA Joined ==
  ASSUME NEW a \in Nat, NEW b \in Nat, a <= b, b <= HDR + BODY
  PROVE  SubSeq(WholeReply, 1, a) \o SubSeq(WholeReply, a + 1, b) = SubSeq(WholeReply, 1, b)
<1>1. 1 \in 1..Len(WholeReply) + 1 /\ a \in 1 - 1..Len(WholeReply) /\ b \in a..Len(WholeReply)
  BY Reply, NetNumbers
<1> QED
  BY <1>1, Reply, ConcatAdjacentSubSeq

LEMMA SmallestNat ==
  ASSUME NEW T, T \subseteq Nat, T # {}
  PROVE  \E x \in T : \A y \in T : x <= y
<1> DEFINE R == OpToRel(<, Nat)
<1>1. IsWellFoundedOn(R, Nat)
  BY NatLessThanWellFounded
<1>2. R = {ss \in Nat \X Nat : ss[1] < ss[2]}
  BY DEF OpToRel
<1> HIDE DEF R
<1>3. PICK x \in T : \A y \in T : ~(<<y, x>> \in R)
  BY <1>1, WFMin, Zenon
<1>4. ASSUME NEW y \in T PROVE x <= y
  <2>1. x \in Nat /\ y \in Nat /\ ~(<<y, x>> \in R)
    BY <1>3
  <2> QED
    BY <1>2, <2>1
<1> QED
  BY <1>4

LEMMA NewCapFits ==
  ASSUME NEW need \in 1..DL_MAX PROVE NewCap(need) \in need..DL_MAX
<1> DEFINE enough == {c \in BufSizes : c >= need}
<1>1. enough \subseteq Nat /\ enough \subseteq need..DL_MAX
  BY NetNumbers DEF BufSizes
<1>2. DL_MAX \in enough
  BY NetNumbers DEF BufSizes
<1>3. NewCap(need) = CHOOSE c \in enough : \A d \in enough : c <= d
  BY DEF NewCap
<1> HIDE DEF enough
<1>4. \E c \in enough : \A d \in enough : c <= d
  BY <1>1, <1>2, SmallestNat
<1> QED
  BY <1>1, <1>3, <1>4

\* The buffer takes what follows what it holds, as long as it is not full.
LEMMA StoredIs ==
  ASSUME FileInv, Received, NEW m \in Nat, came + m <= HDR + BODY, NEW c \in 0..DL_MAX,
         Least(Len(ram) + m, DL_MAX) <= c, cap <= c
  PROVE  Stored(SubSeq(WholeReply, came + 1, came + m), c) = SubSeq(WholeReply, 1, Least(came + m, DL_MAX))
<1> DEFINE a == Least(came, DL_MAX)
           data == SubSeq(WholeReply, came + 1, came + m)
           room == IF c > a THEN c - a ELSE 0
           k == Least(m, room)
<1>1. came \in Nat /\ came <= HDR + BODY /\ c \in Nat /\ DL_MAX \in Nat /\ c <= DL_MAX
  BY NetNumbers DEF FileInv
<1>2. a \in Nat /\ a <= came /\ a <= DL_MAX /\ a <= HDR + BODY /\ (a = came \/ a = DL_MAX)
  BY <1>1, NetNumbers DEF Least
<1>3. ram = SubSeq(WholeReply, 1, a) /\ Len(ram) = a /\ a <= cap
  <2>1. Len(SubSeq(WholeReply, 1, a)) = a
    BY <1>2, Prefix
  <2> QED
    BY <2>1 DEF Received
<1>4. Len(data) = m
  <2>1. came + m \in Nat /\ came <= came + m /\ (came + m) - came = m
    BY <1>1
  <2> QED
    BY <1>1, <2>1, Part
<1>5. Stored(data, c) = ram \o SubSeq(data, 1, k)
  BY <1>3, <1>4 DEF Stored
<1>6. k \in Nat /\ k <= m
  BY <1>1, <1>2 DEF Least
<1>7. SubSeq(data, 1, k) = SubSeq(WholeReply, came + 1, came + k)
  <2>1. came + m \in Nat /\ came <= came + m /\ k <= (came + m) - came
    BY <1>1, <1>6
  <2> QED
    BY <1>1, <1>6, <2>1, PartOfPart
<1>8. Least(a + m, DL_MAX) <= c
  BY <1>3
<1>9. cap \in Nat
  BY <1>1 DEF Received
<1> HIDE DEF data
<1>10. CASE a = came
  <2>1. a + k = Least(came + m, DL_MAX)
    BY <1>1, <1>2, <1>8, <1>10 DEF Least
  <2>2. a + k \in Nat /\ a <= a + k /\ a + k <= HDR + BODY
    BY <1>1, <1>2, <1>6, <1>10, NetNumbers
  <2>3. SubSeq(WholeReply, 1, a) \o SubSeq(WholeReply, a + 1, a + k) = SubSeq(WholeReply, 1, a + k)
    BY <1>2, <2>2, Joined
  <2>4. Stored(data, c) = SubSeq(WholeReply, 1, a + k)
    BY <1>3, <1>5, <1>7, <1>10, <2>3
  <2> QED
    BY <2>1, <2>4 DEF data
<1>11. CASE a # came
  <2>1. a = DL_MAX /\ DL_MAX < came
    BY <1>1, <1>2, <1>11 DEF Least
  <2>2. k = 0 /\ Least(came + m, DL_MAX) = a
    BY <1>1, <1>2, <2>1 DEF Least
  <2>3. SubSeq(WholeReply, came + 1, came + k) = <<>>
    BY <1>1, <2>2, SubSeqEmpty
  <2>4. SubSeq(WholeReply, 1, a) \o <<>> = SubSeq(WholeReply, 1, a)
    <3>1. SubSeq(WholeReply, 1, a) \in Seq(Units)
      BY <1>2, Prefix
    <3> QED
      BY <3>1, ConcatEmptySeq
  <2> QED
    BY <1>3, <1>5, <1>7, <2>2, <2>3, <2>4 DEF data
<1> QED
  BY <1>10, <1>11

\* The end of the header is found when it is there, and in its place.
LEMMA EndFound ==
  ASSUME NEW b \in Nat, b <= HDR + BODY
  PROVE  EndOf(SubSeq(WholeReply, 1, b)) = IF b >= HDR THEN {HDR} ELSE {}
<1> DEFINE s == SubSeq(WholeReply, 1, b)
<1>2. /\ s \in Seq(Units) /\ Len(s) = b /\ \A i \in 1..b : s[i] = WholeReply[i]
  BY Prefix
<1>3. DOMAIN s = 1..b
  BY <1>2
<1>4. \A i \in 1..b : s[i] = <<"header", HDR>> <=> i = HDR
  <2> SUFFICES ASSUME NEW i \in 1..b PROVE s[i] = <<"header", HDR>> <=> i = HDR
    OBVIOUS
  <2>1. s[i] = WholeReply[i]
    BY <1>2
  <2>2. CASE i \in 1..HDR
    BY <2>1, <2>2, Reply
  <2>3. CASE i \notin 1..HDR
    <3>1. i \in HDR + 1..HDR + BODY /\ i # HDR
      BY <2>3, NetNumbers
    <3>2. s[i] = <<"body", i - HDR>>
      BY <2>1, <3>1, Reply
    <3> QED
      BY <3>1, <3>2
  <2> QED
    BY <2>2, <2>3
<1> HIDE DEF s
<1>5. EndOf(s) = {i \in 1..b : i = HDR}
  BY <1>3, <1>4 DEF EndOf
<1> QED
  BY <1>5, NetNumbers DEF s

LEMMA FileInit == NetInit => FileInv
<1> SUFFICES ASSUME NetInit PROVE FileInv
  OBVIOUS
<1>1. /\ length = 0 /\ came = 0 /\ raw = 0 /\ cap = 0 /\ ram = <<>>
      /\ bodyOff = 0 /\ total = 0 /\ verdict = "none" /\ turn = "input"
  BY DEF NetInit
<1>2. Least(came, DL_MAX) = 0
  BY <1>1, NetNumbers DEF Least
<1>3. SubSeq(WholeReply, 1, 0) = <<>>
  BY SubSeqEmpty
<1>4. HDR > 0 /\ HDR \in Nat /\ BODY \in Nat /\ DL_MAX \in Nat
  BY NetNumbers
<1>7. hdrDone \in BOOLEAN /\ ~hdrDone
  BY DEF NetInit
<1>5. Received
  BY <1>1, <1>2, <1>3, <1>4, <1>7 DEF Received
<1>6. Judged
  BY <1>1 DEF Judged
<1> QED
  BY <1>1, <1>4, <1>5, <1>6 DEF FileInv

\* A download that has begun, or could not: nothing came yet.
LEMMA StartKeepsFile ==
  ASSUME FileInv, DoDownloadStart, turn' = "dial" PROVE FileInv'
<1>1. /\ length' \in {0, BODY} /\ came' = 0 /\ raw' = 0 /\ cap' = 0 /\ ram' = <<>>
      /\ bodyOff' = 0 /\ total' = 0 /\ verdict' = "none"
  BY DEF DoDownloadStart, Freed, FileInv
<1>2. Least(came', DL_MAX) = 0
  BY <1>1, NetNumbers DEF Least
<1>3. SubSeq(WholeReply, 1, 0) = <<>>
  BY SubSeqEmpty
<1>4. HDR > 0 /\ HDR \in Nat /\ BODY \in Nat /\ DL_MAX \in Nat
  BY NetNumbers
<1>7. hdrDone' \in BOOLEAN /\ ~hdrDone'
  BY DEF DoDownloadStart, Freed
<1>5. Received'
  BY <1>1, <1>2, <1>3, <1>4, <1>7 DEF Received
<1>6. Judged'
  BY <1>1 DEF Judged
<1> QED
  BY <1>1, <1>4, <1>5, <1>6 DEF FileInv

\* A step that leaves the file alone, and the verdict with it.
LEMMA FileLeftAlone ==
  ASSUME FileInv, UNCHANGED <<server, file, verdict, short>>, g_nDl' = "active" => g_nDl = "active",
         turn' = "gone" <=> turn = "gone"
  PROVE  FileInv'
<1>1. UNCHANGED <<length, came, ram, cap, raw, hdrDone, bodyOff, total, verdict, short>>
  BY DEF server, file
<1> QED
  BY <1>1 DEF FileInv, Received, Judged

\* What is said of a download that ends.
LEMMA FinishJudges ==
  ASSUME NEW units \in 0..HDR + BODY, NEW off, NEW tot, NEW len \in {0, BODY}, NEW v,
         off = IF units >= HDR THEN HDR ELSE 0,
         tot = IF units >= HDR THEN len ELSE 0,
         v = IF tot = 0 THEN "unknown" ELSE IF BodyOf(units, off) = tot THEN "complete" ELSE "incomplete"
  PROVE  /\ v = "complete" => units = HDR + BODY
         /\ v = "incomplete" => units < HDR + BODY
         /\ v = "unknown" => len = 0 \/ units < HDR
<1>1. CASE units >= HDR
  <2>1. BodyOf(units, off) = units - HDR
    BY <1>1 DEF BodyOf
  <2>2. units - HDR = BODY <=> units = HDR + BODY
    BY NetNumbers
  <2>3. units # HDR + BODY => units < HDR + BODY
    BY NetNumbers
  <2> QED
    BY <1>1, <2>1, <2>2, <2>3
<1>2. CASE ~(units >= HDR)
  BY <1>2, NetNumbers
<1> QED
  BY <1>1, <1>2

LEMMA DataKeepsFile == ASSUME FileInv, Holds, RecvData PROVE FileInv'
<1> DEFINE rest == Len(WholeReply) - came
<1>1. /\ turn = "download" /\ g_nDl = "active" /\ length' = length
      /\ turn' \in {"download", "close"}
      /\ came \in Nat /\ rest = HDR + BODY - came /\ rest \in Nat
  BY Reply, NetNumbers DEF RecvData, FileInv
<1>2. PICK m \in 1..Least(CHUNK, rest) :
        DownloadAppend(SubSeq(WholeReply, came + 1, came + m)) /\ came' = came + m
  BY DEF RecvData
<1>3. m \in Nat /\ came + m <= HDR + BODY
  BY <1>1, <1>2, NetTesterAssumption DEF Least
<1> DEFINE data == SubSeq(WholeReply, came + 1, came + m)
<1>4. Len(data) = m
  <2>1. came + m \in Nat /\ came <= came + m /\ (came + m) - came = m
    BY <1>1, <1>3
  <2> QED
    BY <1>1, <1>3, <2>1, Part
<1>5. came' \in 0..HDR + BODY /\ length' \in {0, BODY}
  BY <1>1, <1>2, <1>3, NetNumbers DEF FileInv
<1>6. ASSUME ~short' PROVE Received'
  <2> DEFINE need == Least(Len(ram) + m, DL_MAX)
             b == Least(came + m, DL_MAX)
  <2>1. /\ raw' = raw + m /\ ~short
        /\ cap' = (IF need > cap THEN NewCap(need) ELSE cap)
        /\ ram' = Stored(data, cap') /\ ParseHeaders(ram')
    <3>1. DownloadAppend(data)
      BY <1>2
    <3> HIDE DEF data
    <3> QED
      BY <1>4, <1>6, <3>1 DEF DownloadAppend
  <2>2. Received
    BY <1>1, <2>1 DEF FileInv
  <2>3. Len(ram) \in Nat
    <3>1. Least(came, DL_MAX) \in Nat /\ Least(came, DL_MAX) <= HDR + BODY
      BY <1>1, NetNumbers DEF Least
    <3>2. SubSeq(WholeReply, 1, Least(came, DL_MAX)) \in Seq(Units)
      BY <3>1, Prefix
    <3> QED
      BY <2>2, <3>2 DEF Received
  <2>4. need \in 1..DL_MAX
    BY <1>2, <1>3, <2>3, NetNumbers DEF Least
  <2>5. cap' \in need..DL_MAX /\ cap <= cap' /\ cap' \in 0..DL_MAX
    <3>1. cap \in 0..DL_MAX
      BY <2>2 DEF Received
    <3>2. NewCap(need) \in need..DL_MAX
      BY <2>4, NewCapFits
    <3> HIDE DEF need
    <3> QED
      BY <2>1, <2>4, <3>1, <3>2
  <2>6. ram' = SubSeq(WholeReply, 1, b)
    <3>1. need <= cap'
      BY <2>5
    <3> QED
      BY <1>3, <2>1, <2>2, <2>5, <3>1, StoredIs
  <2>7. /\ b \in Nat /\ b <= HDR + BODY /\ b <= DL_MAX /\ b <= came + m
        /\ (b >= HDR <=> came + m >= HDR)
    BY <1>1, <1>3, NetNumbers DEF Least
  <2>8. b <= cap'
    <3>1. Least(Len(ram) + m, DL_MAX) <= cap' /\ Len(ram) = Least(came, DL_MAX)
      <4>1. Least(came, DL_MAX) \in Nat /\ Least(came, DL_MAX) <= HDR + BODY
        BY <1>1, NetNumbers DEF Least
      <4>2. Len(SubSeq(WholeReply, 1, Least(came, DL_MAX))) = Least(came, DL_MAX)
        BY <4>1, Prefix
      <4>3. need <= cap'
        BY <2>4, <2>5
      <4>4. Len(ram) = Least(came, DL_MAX)
        BY <2>2, <4>2 DEF Received
      <4> QED
        BY <4>3, <4>4
    <3>2. b <= Least(Least(came, DL_MAX) + m, DL_MAX)
      BY <1>1, <1>3, NetNumbers DEF Least
    <3>3. Least(Least(came, DL_MAX) + m, DL_MAX) \in Nat
      BY <1>1, <1>3, NetNumbers DEF Least
    <3> QED
      BY <2>5, <2>7, <3>1, <3>2, <3>3
  <2>9. EndOf(ram') = IF b >= HDR THEN {HDR} ELSE {}
    BY <2>6, <2>7, EndFound
  <2>10. b >= HDR => ram'[1] = <<"header", 1>>
    <3> SUFFICES ASSUME b >= HDR PROVE ram'[1] = <<"header", 1>>
      OBVIOUS
    <3>1. 1 \in 1..b /\ 1 \in 1..HDR
      BY <2>7, NetNumbers
    <3>2. SubSeq(WholeReply, 1, b)[1] = WholeReply[1]
      BY <2>7, <3>1, Prefix
    <3> QED
      BY <2>6, <3>1, <3>2, Reply
  <2> HIDE DEF b, need, data
  <2>11. /\ hdrDone' \in BOOLEAN /\ (hdrDone' <=> came + m >= HDR)
         /\ bodyOff' = IF hdrDone' THEN HDR ELSE 0
         /\ total' = IF hdrDone' THEN length ELSE 0
    <3>1. /\ hdrDone \in BOOLEAN /\ (hdrDone <=> came >= HDR) /\ bodyOff = (IF hdrDone THEN HDR ELSE 0)
          /\ total = (IF hdrDone THEN length ELSE 0)
      BY <2>2 DEF Received
    <3>2. came >= HDR => came + m >= HDR
      BY <1>1, <1>3, NetNumbers
    <3>3. CASE hdrDone \/ EndOf(ram') = {}
      <4>1. UNCHANGED <<hdrDone, bodyOff, total>>
        BY <2>1, <3>3 DEF ParseHeaders
      <4>2. hdrDone <=> came + m >= HDR
        BY <2>7, <2>9, <3>1, <3>2, <3>3
      <4> QED
        BY <3>1, <4>1, <4>2
    <3>4. CASE ~hdrDone /\ EndOf(ram') # {}
      <4>1. /\ hdrDone' = TRUE /\ bodyOff' \in EndOf(ram')
            /\ total' = IF \E i \in 1..bodyOff' : ram'[i] = <<"header", 1>> THEN length ELSE total
        BY <2>1, <3>4 DEF ParseHeaders
      <4>2. b >= HDR /\ came + m >= HDR /\ bodyOff' = HDR
        BY <2>7, <2>9, <3>4, <4>1
      <4>3. 1 \in 1..bodyOff'
        BY <4>2, NetNumbers
      <4>4. total' = length
        BY <2>10, <4>1, <4>2, <4>3
      <4> QED
        BY <4>1, <4>2, <4>4
    <3> QED
      BY <3>3, <3>4
  <2>12. raw' = came'
    BY <1>2, <2>1, <2>2 DEF Received
  <2>13. b = Least(came', DL_MAX)
    BY <1>2 DEF b
  <2> QED
    BY <1>1, <1>2, <2>5, <2>6, <2>8, <2>11, <2>12, <2>13 DEF Received
<1>7. ASSUME ~short' PROVE Judged'
  <2>1. ~short
    BY <1>2, <1>7 DEF DownloadAppend
  <2>2. verdict = "none"
    BY <1>1, <2>1 DEF FileInv, Judged
  <2>3. CASE UNCHANGED <<g_nDl, sockets, verdict>>
    BY <2>2, <2>3 DEF Judged
  <2>4. CASE DownloadFinish
    <3>1. g_nDl' = "done" /\ verdict' = IF total' = 0 THEN "unknown"
                ELSE IF BodyOf(raw', bodyOff') = total' THEN "complete" ELSE "incomplete"
      BY <2>4 DEF DownloadFinish
    <3>2. Received'
      BY <1>6, <1>7
    <3>3. /\ verdict' = "complete" => came' = HDR + BODY
          /\ verdict' = "incomplete" => came' < HDR + BODY
          /\ verdict' = "unknown" => length' = 0 \/ came' < HDR
      BY <1>5, <3>1, <3>2, FinishJudges DEF Received
    <3> QED
      BY <3>1, <3>3 DEF Judged
  <2> QED
    BY <2>3, <2>4 DEF RecvData
<1> QED
  BY <1>1, <1>5, <1>6, <1>7 DEF FileInv

LEMMA FileStep == HoldsInv /\ FileInv /\ [NetNext]_netVars => FileInv'
<1> SUFFICES ASSUME HoldsInv, FileInv, [NetNext]_netVars PROVE FileInv'
  OBVIOUS
<1>1. CASE Click
  <2>1. turn = "input" /\ turn' = "dial"
    BY <1>1 DEF Click
  <2>2. CASE DoDownloadStart
    BY <2>1, <2>2, StartKeepsFile
  <2>3. CASE DoDial
    BY <2>1, <2>3, FileLeftAlone DEF DoDial, download
  <2>4. CASE DoHangup /\ UNCHANGED <<download, dials, gets, noMem, netHistory>>
    BY <2>1, <2>4, FileLeftAlone DEF download, netHistory
  <2>5. CASE UNCHANGED <<ras, conn, download, dials, gets, noMem, netHistory>>
    BY <2>1, <2>5, FileLeftAlone DEF download, netHistory
  <2> QED
    BY <1>1, <2>2, <2>3, <2>4, <2>5 DEF Click
<1>2. CASE DoTest \/ TryConnect \/ TestReply
  BY <1>2, FileLeftAlone DEF DoTest, TryConnect, TestReply, netHistory
<1>3. CASE AdvanceDial \/ NoDownload \/ Stay
  BY <1>3, FileLeftAlone DEF AdvanceDial, NoDownload, Stay, download, netHistory
<1>4. CASE RecvData
  BY <1>4, DataKeepsFile DEF HoldsInv
<1>5. CASE RecvClose
  <2>1. /\ UNCHANGED <<length, came, ram, cap, raw, hdrDone, bodyOff, total, short>>
        /\ turn = "download" /\ turn' = "close" /\ g_nDl' = "done"
        /\ verdict' = IF total = 0 THEN "unknown"
                      ELSE IF BodyOf(raw, bodyOff) = total THEN "complete" ELSE "incomplete"
    BY <1>5 DEF RecvClose, DownloadFinish, server, file, netHistory
  <2>2. ~short => Received
    BY <2>1 DEF FileInv
  <2>3. ~short => Judged'
    <3>1. ~short =>
            /\ verdict' = "complete" => came = HDR + BODY
            /\ verdict' = "incomplete" => came < HDR + BODY
            /\ verdict' = "unknown" => length = 0 \/ came < HDR
      BY <2>1, <2>2, FinishJudges DEF FileInv, Received
    <3> QED
      BY <2>1, <3>1 DEF Judged
  <2> QED
    BY <2>1, <2>2, <2>3 DEF FileInv, Received
<1>6. CASE RecvError \/ NoData
  BY <1>6, FileLeftAlone DEF RecvError, NoData, netHistory
<1>7. CASE Quit
  <2>1. /\ UNCHANGED <<length, came, verdict, g_nDl, short>> /\ ram' = <<>> /\ turn' = "gone"
    BY <1>7 DEF Quit, Freed, server, netHistory
  <2> QED
    BY <2>1 DEF FileInv, Judged
<1>8. CASE ModemStep \/ OtherProgram
  BY <1>8, FileLeftAlone DEF ModemStep, OtherProgram, download, netHistory
<1>9. CASE UNCHANGED netVars
  BY <1>9, FileLeftAlone DEF netVars, download, netHistory
<1> QED
  BY <1>1, <1>2, <1>3, <1>4, <1>5, <1>6, <1>7, <1>8, <1>9 DEF NetNext, Loop

\* Whatever the length of the reply, the sizes of the chunks and of the buffer, and wherever
\* the connection ends: what the tester says of a download is so, and what it holds of it is
\* the beginning of what was sent, as long as no allocation failed.
THEOREM TesterTellsTheTruth == NetSpec => []DownloadFaithful
<1>1. FileInv => DownloadFaithful
  <2> SUFFICES ASSUME FileInv, ~short
               PROVE  /\ verdict = "complete" => came = Len(WholeReply)
                      /\ verdict = "incomplete" => came < Len(WholeReply)
                      /\ verdict = "unknown" => length = 0 \/ came < HDR
                      /\ ram = SubSeq(WholeReply, 1, Len(ram))
    BY DEF DownloadFaithful
  <2>1. Judged /\ Len(WholeReply) = HDR + BODY
    BY Reply DEF FileInv
  <2>2. ram = SubSeq(WholeReply, 1, Len(ram))
    <3>1. CASE turn = "gone"
      <4>1. ram = <<>> /\ Len(ram) = 0
        BY <3>1 DEF FileInv
      <4>2. SubSeq(WholeReply, 1, 0) = <<>>
        BY SubSeqEmpty
      <4> QED
        BY <4>1, <4>2
    <3>2. CASE turn # "gone"
      <4> DEFINE a == Least(came, DL_MAX)
      <4>1. a \in Nat /\ a <= HDR + BODY
        BY NetNumbers DEF FileInv, Least
      <4>2. Len(SubSeq(WholeReply, 1, a)) = a
        BY <4>1, Prefix
      <4>3. ram = SubSeq(WholeReply, 1, a)
        BY <3>2 DEF FileInv, Received
      <4> HIDE DEF a
      <4> QED
        BY <4>1, <4>2, <4>3
    <3> QED
      BY <3>1, <3>2
  <2> QED
    BY <2>1, <2>2 DEF Judged
<1> QED
  BY <1>1, HoldsInit, HoldsStep, FileInit, FileStep, PTL DEF NetSpec

-----------------------------------------------------------------------------
(* The audio player                                                        *)

Decoders ==
  [pos : Nat, streamPos : Nat, sbuf : Seq(Seq(Nat)), pcm : Seq(Nat), cur : Nat, nxt : Nat,
   phase : Nat, primed : BOOLEAN, srcEof : BOOLEAN]

\* How many frames of the track the first t units of the file hold, and how many units it
\* takes to have them all.
Upto(t) == IF isMp3 THEN IF t = 0 THEN 0 ELSE PER * (t - 1) ELSE t
AllUnits == IF isMp3 THEN Len(File) ELSE TRACK

\* The buffers hold the next part of the file.
Buffered(d) ==
  /\ d \in Decoders /\ d.pos <= Len(File) /\ Len(d.sbuf) <= SBUF /\ Len(d.sbuf) <= d.pos
  /\ d.streamPos = d.pos - Len(d.sbuf) /\ d.streamPos <= AllUnits
  /\ \A i \in 1..Len(d.sbuf) : d.sbuf[i] = File[d.streamPos + i]
  /\ Len(d.pcm) <= Upto(d.streamPos)
  /\ \A i \in 1..Len(d.pcm) : d.pcm[i] = Upto(d.streamPos) - Len(d.pcm) + i

\* The frames that were handed to the resampler.
At(d) == Upto(d.streamPos) - Len(d.pcm)

\* The resampler after cnt outputs.
Between(d, cnt) ==
  /\ d.primed /\ d.phase \in 0..ONE - 1
  /\ d.cur >= 1 /\ d.nxt = d.cur + 1 /\ At(d) = d.nxt
  /\ cnt * step = ONE * (d.cur - 1) + d.phase

Synced(d, cnt) ==
  /\ Buffered(d)
  /\ \/ d.srcEof
     \/ ~d.srcEof /\ Between(d, cnt)
     \/ ~d.srcEof /\ ~d.primed /\ cnt = 0 /\ At(d) = 0

LEMMA PlayerNumbers ==
  /\ PER \in Nat /\ PER > 0 /\ TRACK \in Nat /\ TRACK >= 2 /\ TRACK % PER = 0
  /\ SBUF \in Nat /\ SBUF > 0 /\ MP3_MAXFRAME \in Nat /\ MP3_MAXFRAME >= 1 /\ MP3_MAXFRAME <= SBUF
  /\ ONE \in Nat /\ ONE > 0 /\ SrcSteps \subseteq Nat /\ 0 \notin SrcSteps
  /\ ALIGN \in Nat /\ ALIGN > 0 /\ RING \in Nat /\ RING > 0
BY PlayerAssumption

\* Induction: what 0 has, and passes on, all the numbers up to cnt have.
LEMMA Upwards ==
  ASSUME NEW cnt \in Nat, NEW T, 0 \in T, \A k \in 0..cnt - 1 : k \in T => k + 1 \in T
  PROVE  \A k \in 0..cnt : k \in T
<1> SUFFICES ASSUME {k \in 0..cnt : k \notin T} # {} PROVE FALSE
  OBVIOUS
<1> DEFINE U == {k \in 0..cnt : k \notin T}
<1>1. U \subseteq Nat /\ U # {}
  OBVIOUS
<1> HIDE DEF U
<1>2. PICK k \in U : \A j \in U : k <= j
  BY <1>1, SmallestNat
<1>3. k \in 0..cnt /\ k \notin T /\ k # 0
  BY <1>2 DEF U
<1>4. k - 1 \in 0..cnt - 1 /\ k - 1 \in 0..cnt /\ (k - 1) + 1 = k
  BY <1>3
<1>5. k - 1 \in T
  <2> SUFFICES ASSUME k - 1 \notin T PROVE FALSE
    OBVIOUS
  <2>1. k - 1 \in U
    BY <1>4 DEF U
  <2> QED
    BY <1>2, <1>3, <2>1
<1> QED
  BY <1>3, <1>4, <1>5

\* A loop of cnt turns, each of which takes D to D.
Runs(D, F, x, cnt) == \E g \in [0..cnt -> D] : g[0] = x /\ \A k \in 1..cnt : g[k] = F[g[k - 1]]

LEMMA LoopRuns ==
  ASSUME NEW D, NEW F \in [D -> D], NEW x \in D, NEW cnt \in Nat
  PROVE  Runs(D, F, x, cnt)
<1> DEFINE T == {i \in Nat : \E g \in [0..i -> D] : g[0] = x /\ \A k \in 1..i : g[k] = F[g[k - 1]]}
<1>1. 0 \in T
  <2> DEFINE g == [k \in 0..0 |-> x]
  <2>1. g \in [0..0 -> D] /\ g[0] = x /\ \A k \in 1..0 : g[k] = F[g[k - 1]]
    OBVIOUS
  <2> QED
    BY <2>1
<1>2. ASSUME NEW i \in 0..cnt - 1, i \in T PROVE i + 1 \in T
  <2>1. PICK g \in [0..i -> D] : g[0] = x /\ \A k \in 1..i : g[k] = F[g[k - 1]]
    BY <1>2
  <2> DEFINE h == [k \in 0..i + 1 |-> IF k <= i THEN g[k] ELSE F[g[i]]]
  <2>2. \A k \in 0..i + 1 : k \in 0..i \/ (k = i + 1 /\ ~(k <= i))
    BY <1>2
  <2>3. \A k \in 0..i : h[k] = g[k] /\ g[k] \in D
    BY <1>2
  <2>4. h[i + 1] = F[g[i]] /\ h[i + 1] \in D
    BY <1>2, <2>3
  <2>5. h \in [0..i + 1 -> D]
    BY <2>2, <2>3, <2>4
  <2> HIDE DEF h
  <2>6. h[0] = x
    BY <1>2, <2>1, <2>3
  <2>7. ASSUME NEW k \in 1..i + 1 PROVE h[k] = F[h[k - 1]]
    <3>1. CASE k = i + 1
      BY <1>2, <2>3, <2>4, <3>1
    <3>2. CASE k # i + 1
      <4>1. k \in 1..i /\ k \in 0..i /\ k - 1 \in 0..i
        BY <1>2, <3>2
      <4> QED
        BY <2>1, <2>3, <4>1
    <3> QED
      BY <3>1, <3>2
  <2>8. i + 1 \in Nat
    BY <1>2
  <2> QED
    BY <2>5, <2>6, <2>7, <2>8
<1>3. cnt \in T
  <2> HIDE DEF T
  <2>1. \A k \in 0..cnt : k \in T
    BY <1>1, <1>2, Upwards
  <2> QED
    BY <2>1
<1> QED
  BY <1>3 DEF Runs

LEMMA MinOfTwo == ASSUME NEW a \in Int, NEW b \in Int PROVE Min({a, b}) = IF a <= b THEN a ELSE b
<1> DEFINE m == IF a <= b THEN a ELSE b
<1>1. \A x \in {a, b} : (\A y \in {a, b} : x <= y) <=> x = m
  OBVIOUS
<1>2. m \in {a, b}
  OBVIOUS
<1> HIDE DEF m
<1>3. Min({a, b}) = CHOOSE x \in {a, b} : \A y \in {a, b} : x <= y
  BY DEF Min
<1> QED
  BY <1>1, <1>2, <1>3 DEF m

LEMMA ModOf ==
  ASSUME NEW x \in Nat, NEW m \in Nat \ {0}, x < 2 * m
  PROVE  x % m = IF x < m THEN x ELSE x - m
OBVIOUS

LEMMA DivModIs ==
  ASSUME NEW x \in Nat, NEW m \in Nat \ {0}, NEW q \in Nat, NEW r \in 0..m - 1, x = m * q + r
  PROVE  x \div m = q /\ x % m = r
OBVIOUS

LEMMA ModPlus ==
  ASSUME NEW x \in Nat, NEW cnt \in Nat, NEW m \in Nat \ {0}
  PROVE  (x + cnt) % m = ((x % m) + cnt) % m
<1> DEFINE q == x \div m
           r == x % m
           y == r + cnt
           a == y \div m
           b == y % m
<1>1. q \in Nat /\ r \in Nat /\ x = m * q + r
  OBVIOUS
<1> HIDE DEF q, r
<1>2. y \in Nat
  BY <1>1
<1>3. a \in Nat /\ b \in 0..m - 1 /\ y = m * a + b
  <2> HIDE DEF y
  <2> QED
    BY <1>2
<1> HIDE DEF a, b
<1>4. x + cnt = m * (q + a) + b
  <2>1. m * (q + a) = m * q + m * a
    BY <1>1, <1>3
  <2>2. m * q \in Nat /\ m * a \in Nat
    BY <1>1, <1>3
  <2> DEFINE u == m * q
             v == m * a
  <2> HIDE DEF u, v
  <2>3. x = u + r /\ r + cnt = v + b /\ u \in Nat /\ v \in Nat /\ m * (q + a) = u + v
    BY <1>1, <1>3, <2>1, <2>2 DEF u, v
  <2> QED
    BY <1>1, <1>3, <2>3
<1>5. (x + cnt) % m = b
  <2>1. x + cnt \in Nat /\ q + a \in Nat
    BY <1>1, <1>3
  <2> QED
    BY <1>3, <1>4, <2>1, DivModIs
<1> QED
  BY <1>5 DEF b, r
-----------------------------------------------------------------------------
(* The file *)

LEMMA FileIs ==
  ASSUME isMp3 \in BOOLEAN
  PROVE  /\ File \in Seq(Seq(Nat)) /\ Len(File) \in Nat /\ AllUnits \in 1..Len(File)
         /\ \A t \in 0..AllUnits : Upto(t) \in Nat /\ Upto(t) <= TRACK
         /\ Upto(0) = 0 /\ Upto(AllUnits) = TRACK
         /\ \A t \in 1..AllUnits :
              /\ Upto(t - 1) + Len(File[t]) = Upto(t)
              /\ \A i \in 1..Len(File[t]) : File[t][i] = Upto(t - 1) + i
<1>1. CASE isMp3
  <2> DEFINE m == TRACK \div PER
             Frame(u) == [i \in 1..PER |-> PER * (u - 1) + i]
             rest == [u \in 1..m |-> Frame(u)]
  <2>1. m \in Nat /\ PER * m = TRACK
    BY PlayerNumbers
  <2>2. \A u \in 1..m : PER * (u - 1) \in Nat /\ PER * (u - 1) <= TRACK
    <3> SUFFICES ASSUME NEW u \in 1..m PROVE PER * (u - 1) \in Nat /\ PER * (u - 1) <= TRACK
      OBVIOUS
    <3> HIDE DEF m
    <3>1. u - 1 \in Nat /\ u - 1 <= m
      BY <2>1
    <3>2. \A a, b \in Nat : a <= b => PER * a <= PER * b /\ PER * a \in Nat
      BY PlayerNumbers
    <3> QED
      BY <2>1, <3>1, <3>2
  <2> HIDE DEF m
  <2>3. ASSUME NEW u \in 1..m
        PROVE  Frame(u) \in Seq(Nat) /\ Len(Frame(u)) = PER /\ \A i \in 1..PER : Frame(u)[i] = PER * (u - 1) + i
    <3>1. \A i \in 1..PER : PER * (u - 1) + i \in Nat
      BY <2>2, PlayerNumbers
    <3>2. Frame(u) \in [1..PER -> Nat]
      BY <3>1
    <3>3. Frame(u) \in Seq(Nat)
      BY <3>2, SeqDef, PlayerNumbers
    <3> QED
      BY <3>2, <3>3, LenProperties, PlayerNumbers
  <2> HIDE DEF Frame
  <2>4. rest \in Seq(Seq(Nat)) /\ Len(rest) = m /\ \A u \in 1..m : rest[u] = Frame(u)
    <3>1. rest \in [1..m -> Seq(Nat)]
      BY <2>3
    <3>2. rest \in Seq(Seq(Nat))
      BY <2>1, <3>1, SeqDef
    <3> QED
      BY <2>1, <3>1, <3>2, LenProperties
  <2>5. File = <<<<>>>> \o rest
    BY <1>1 DEF File, Frame, m
  <2>6. <<<<>>>> \in Seq(Seq(Nat)) /\ Len(<<<<>>>>) = 1 /\ <<<<>>>>[1] = <<>> /\ Len(<<>>) = 0
    OBVIOUS
  <2> HIDE DEF rest
  <2>7. /\ File \in Seq(Seq(Nat)) /\ Len(File) = 1 + m /\ File[1] = <<>>
        /\ \A u \in 1..m : File[1 + u] = Frame(u)
    <3>1. \A i \in 1..1 + m : File[i] = IF i <= 1 THEN <<<<>>>>[i] ELSE rest[i - 1]
      BY <2>1, <2>4, <2>5, <2>6, ConcatProperties
    <3>2. \A u \in 1..m : 1 + u \in 1..1 + m /\ ~(1 + u <= 1) /\ (1 + u) - 1 = u
      BY <2>1
    <3>3. 1 \in 1..1 + m /\ 1 <= 1
      BY <2>1
    <3>4. \A u \in 1..m : File[1 + u] = Frame(u)
      BY <2>4, <3>1, <3>2
    <3> QED
      BY <2>1, <2>4, <2>5, <2>6, <3>1, <3>3, <3>4, ConcatProperties
  <2>8. \A t \in 0..Len(File) : Upto(t) = IF t = 0 THEN 0 ELSE PER * (t - 1)
    BY <1>1 DEF Upto
  <2>9. AllUnits = 1 + m
    BY <1>1, <2>7 DEF AllUnits
  <2>10. ASSUME NEW t \in 0..AllUnits PROVE Upto(t) \in Nat /\ Upto(t) <= TRACK
    <3>1. CASE t = 0
      BY <3>1, <1>1, PlayerNumbers DEF Upto
    <3>2. CASE t = 1 + m
      BY <3>2, <1>1, <2>1, PlayerNumbers DEF Upto
    <3>3. CASE t # 0 /\ t # 1 + m
      <4>1. t \in 1..m
        BY <2>1, <2>9, <3>3
      <4> QED
        BY <1>1, <2>2, <3>3, <4>1 DEF Upto
    <3> QED
      BY <3>1, <3>2, <3>3
  <2>11. ASSUME NEW t \in 1..AllUnits
         PROVE  /\ Upto(t - 1) + Len(File[t]) = Upto(t)
                /\ \A i \in 1..Len(File[t]) : File[t][i] = Upto(t - 1) + i
    <3>1. CASE t = 1
      <4>1. File[t] = <<>> /\ Len(File[t]) = 0 /\ Upto(t - 1) = 0
        BY <1>1, <2>6, <2>7, <3>1 DEF Upto
      <4>2. Upto(t) = PER * 0 /\ PER * 0 = 0
        BY <1>1, <3>1, PlayerNumbers DEF Upto
      <4> QED
        BY <4>1, <4>2
    <3>2. CASE t # 1
      <4> DEFINE u == t - 1
      <4>1. u \in 1..m /\ 1 + u = t
        BY <2>1, <2>9, <3>2
      <4>2. File[t] = Frame(u)
        BY <2>7, <4>1
      <4>3. Upto(t) = PER * u /\ Upto(u) = PER * (u - 1)
        BY <1>1, <4>1 DEF Upto
      <4>4. PER * (u - 1) + PER = PER * u
        BY <4>1, PlayerNumbers
      <4> QED
        BY <2>3, <4>1, <4>2, <4>3, <4>4
    <3> QED
      BY <3>1, <3>2
  <2>12. Upto(0) = 0 /\ Upto(AllUnits) = TRACK
    BY <1>1, <2>1, <2>9 DEF Upto
  <2>13. AllUnits \in 1..Len(File) /\ Len(File) \in Nat
    BY <2>1, <2>7, <2>9
  <2> QED
    BY <2>7, <2>10, <2>11, <2>12, <2>13
<1>2. CASE ~isMp3
  <2> DEFINE wav == [i \in 1..TRACK |-> <<i>>]
  <2>1. wav \in Seq(Seq(Nat)) /\ Len(wav) = TRACK /\ \A i \in 1..TRACK : wav[i] = <<i>>
    <3>1. \A i \in 1..TRACK : <<i>> \in Seq(Nat)
      BY PlayerNumbers
    <3>2. wav \in [1..TRACK -> Seq(Nat)]
      BY <3>1
    <3>3. wav \in Seq(Seq(Nat))
      BY <3>2, SeqDef, PlayerNumbers
    <3> QED
      BY <3>2, <3>3, LenProperties, PlayerNumbers
  <2>2. <<<<0>>>> \in Seq(Seq(Nat)) /\ Len(<<<<0>>>>) = 1
    OBVIOUS
  <2>3. File = wav \o <<<<0>>>>
    BY <1>2 DEF File
  <2> HIDE DEF wav
  <2>4. /\ File \in Seq(Seq(Nat)) /\ Len(File) = TRACK + 1
        /\ \A i \in 1..TRACK : File[i] = <<i>>
    <3>1. \A i \in 1..TRACK + 1 : File[i] = IF i <= TRACK THEN wav[i] ELSE <<<<0>>>>[i - TRACK]
      BY <2>1, <2>2, <2>3, ConcatProperties
    <3>2. \A i \in 1..TRACK : i \in 1..TRACK + 1 /\ i <= TRACK
      BY PlayerNumbers
    <3> QED
      BY <2>1, <2>2, <2>3, <3>1, <3>2, ConcatProperties
  <2>5. AllUnits = TRACK /\ \A t \in 0..TRACK : Upto(t) = t
    BY <1>2 DEF AllUnits, Upto
  <2>6. ASSUME NEW t \in 1..AllUnits
        PROVE  /\ Upto(t - 1) + Len(File[t]) = Upto(t)
               /\ \A i \in 1..Len(File[t]) : File[t][i] = Upto(t - 1) + i
    <3>1. t \in 1..TRACK /\ t - 1 \in 0..TRACK /\ t \in 0..TRACK
      BY <2>5, PlayerNumbers
    <3>2. File[t] = <<t>> /\ Len(<<t>>) = 1 /\ <<t>>[1] = t
      BY <2>4, <3>1
    <3>3. Upto(t) = t /\ Upto(t - 1) = t - 1
      BY <2>5, <3>1
    <3> QED
      BY <3>1, <3>2, <3>3
  <2> QED
    BY <2>4, <2>5, <2>6, PlayerNumbers
<1> QED
  BY <1>1, <1>2
-----------------------------------------------------------------------------
(* The decoder *)

Kept(d, e) ==
  /\ Buffered(e) /\ At(e) = At(d)
  /\ e.cur = d.cur /\ e.nxt = d.nxt /\ e.phase = d.phase
  /\ (e.primed <=> d.primed) /\ (e.srcEof <=> d.srcEof)

LEMMA FillReads ==
  ASSUME isMp3 \in BOOLEAN, NEW d, Buffered(d)
  PROVE  LET e == StreamFill(d)
         IN /\ Kept(d, e) /\ e.streamPos = d.streamPos /\ e.pcm = d.pcm
            /\ e.sbuf # <<>> \/ e.streamPos = Len(File)
<1> DEFINE cnt == d.pos + SBUF - Len(d.sbuf)
           upTo == IF Len(File) <= cnt THEN Len(File) ELSE cnt
           more == SubSeq(File, d.pos + 1, upTo)
           e == [d EXCEPT !.sbuf = d.sbuf \o more, !.pos = upTo]
<1>1. File \in Seq(Seq(Nat)) /\ Len(File) \in Nat
  BY FileIs
<1>2. /\ d \in Decoders /\ d.pos \in Nat /\ Len(d.sbuf) \in Nat /\ d.sbuf \in Seq(Seq(Nat))
      /\ d.pos <= Len(File) /\ Len(d.sbuf) <= SBUF /\ Len(d.sbuf) <= d.pos
      /\ d.streamPos = d.pos - Len(d.sbuf)
  BY DEF Buffered, Decoders
<1>3. cnt \in Nat /\ upTo \in Nat /\ d.pos <= upTo /\ upTo <= Len(File) /\ upTo - d.pos + Len(d.sbuf) <= SBUF
  BY <1>1, <1>2, PlayerNumbers
<1>4. StreamFill(d) = e
  <2> HIDE DEF cnt
  <2>1. cnt \in Int /\ Len(File) \in Int
    BY <1>1, <1>3
  <2>2. Min({Len(File), cnt}) = upTo
    BY <2>1, MinOfTwo
  <2> QED
    BY <2>2 DEF StreamFill, cnt
<1> HIDE DEF upTo, cnt
<1>5. /\ more \in Seq(Seq(Nat)) /\ Len(more) = upTo - d.pos
      /\ \A i \in 1..upTo - d.pos : more[i] = File[d.pos + i]
  <2>1. \A i \in d.pos + 1..upTo : File[i] \in Seq(Nat)
    <3>1. \A i \in d.pos + 1..upTo : i \in 1..Len(File)
      BY <1>1, <1>2, <1>3
    <3> QED
      BY <1>1, <3>1, ElementOfSeq
  <2>2. /\ more \in Seq(Seq(Nat))
        /\ Len(more) = IF d.pos + 1 <= upTo THEN upTo - (d.pos + 1) + 1 ELSE 0
        /\ \A i \in 1..upTo - (d.pos + 1) + 1 : more[i] = File[d.pos + 1 + i - 1]
    BY <1>2, <1>3, <2>1, SubSeqProperties
  <2> QED
    <3> DEFINE a == d.pos
               l == Len(more)
    <3>1. a \in Nat /\ upTo \in Nat /\ a <= upTo
      BY <1>2, <1>3
    <3>2. /\ l = IF a + 1 <= upTo THEN upTo - (a + 1) + 1 ELSE 0
          /\ \A i \in 1..upTo - (a + 1) + 1 : more[i] = File[a + 1 + i - 1]
      BY <2>2
    <3> HIDE DEF a, l, more
    <3>3. l = upTo - a /\ upTo - (a + 1) + 1 = upTo - a
      BY <3>1, <3>2
    <3>4. ASSUME NEW i \in 1..upTo - a PROVE more[i] = File[a + i]
      <4>1. a + 1 + i - 1 = a + i
        BY <3>1, <3>4
      <4> QED
        BY <3>2, <3>3, <3>4, <4>1
    <3> QED
      BY <2>2, <3>3, <3>4 DEF a, l
<1> HIDE DEF more
<1>6. /\ d.sbuf \o more \in Seq(Seq(Nat)) /\ Len(d.sbuf \o more) = Len(d.sbuf) + Len(more)
      /\ \A i \in 1..Len(d.sbuf) + Len(more) :
           (d.sbuf \o more)[i] = IF i <= Len(d.sbuf) THEN d.sbuf[i] ELSE more[i - Len(d.sbuf)]
  <2>1. d.sbuf \in Seq(Seq(Nat)) /\ more \in Seq(Seq(Nat))
    BY <1>2, <1>5
  <2> QED
    BY <2>1, ConcatProperties
<1>7. /\ e.sbuf = d.sbuf \o more /\ e.pos = upTo /\ e.streamPos = d.streamPos /\ e.pcm = d.pcm
      /\ e.cur = d.cur /\ e.nxt = d.nxt /\ e.phase = d.phase
      /\ (e.primed <=> d.primed) /\ (e.srcEof <=> d.srcEof)
  BY <1>2 DEF Decoders
<1>8. e \in Decoders
  BY <1>2, <1>3, <1>6 DEF Decoders
<1> HIDE DEF e
<1>9. /\ Len(e.sbuf) = Len(d.sbuf) + (upTo - d.pos)
      /\ Len(e.sbuf) \in Nat /\ Len(e.sbuf) <= SBUF /\ Len(e.sbuf) <= e.pos /\ e.streamPos = e.pos - Len(e.sbuf)
  <2>1. Len(e.sbuf) = Len(d.sbuf) + (upTo - d.pos)
    BY <1>5, <1>6, <1>7
  <2>2. e.pos = upTo /\ e.streamPos = d.pos - Len(d.sbuf)
    BY <1>2, <1>7
  <2> QED
    BY <1>2, <1>3, <2>1, <2>2
<1>10. ASSUME NEW i \in 1..Len(e.sbuf) PROVE e.sbuf[i] = File[e.streamPos + i]
  <2> DEFINE l == Len(d.sbuf)
             m == Len(more)
  <2>1. /\ l \in Nat /\ m \in Nat /\ m = upTo - d.pos /\ i \in 1..l + m /\ d.pos \in Nat /\ upTo \in Nat
        /\ e.streamPos = d.pos - l /\ e.streamPos = d.streamPos
    <3>1. l \in Nat /\ m = upTo - d.pos /\ d.pos \in Nat /\ upTo \in Nat /\ m \in Nat
      BY <1>2, <1>3, <1>5
    <3>2. Len(e.sbuf) = l + m
      BY <1>6, <1>7
    <3>3. e.streamPos = d.pos - l /\ e.streamPos = d.streamPos
      BY <1>2, <1>7
    <3>4. i \in 1..l + m
      BY <1>10, <3>2
    <3> QED
      BY <3>1, <3>3, <3>4
  <2>2. e.sbuf[i] = IF i <= l THEN d.sbuf[i] ELSE more[i - l]
    BY <1>6, <1>7, <2>1
  <2>3. \A k \in 1..l : d.sbuf[k] = File[d.streamPos + k]
    BY DEF Buffered
  <2>4. \A k \in 1..m : more[k] = File[d.pos + k]
    BY <1>5, <2>1
  <2> HIDE DEF l, m
  <2>5. CASE i <= l
    <3>1. i \in 1..l
      BY <2>5, <2>1
    <3> QED
      BY <2>5, <2>1, <2>2, <2>3, <3>1
  <2>6. CASE ~(i <= l)
    <3>1. i - l \in 1..m /\ d.pos + (i - l) = e.streamPos + i
      BY <2>6, <2>1
    <3> QED
      BY <2>6, <2>2, <2>4, <3>1
  <2> QED
    BY <2>5, <2>6
<1>11. Buffered(e) /\ At(e) = At(d)
  BY <1>3, <1>7, <1>8, <1>9, <1>10 DEF Buffered, At
<1>12. e.sbuf # <<>> \/ e.streamPos = Len(File)
  <2>1. CASE upTo = Len(File)
    <3> SUFFICES ASSUME e.sbuf = <<>> PROVE e.streamPos = Len(File)
      OBVIOUS
    <3>1. Len(e.sbuf) = 0
      OBVIOUS
    <3> QED
      BY <1>1, <1>7, <1>9, <2>1, <3>1
  <2>2. CASE upTo # Len(File)
    <3>1. upTo = cnt
      BY <2>2 DEF upTo
    <3>2. Len(e.sbuf) = SBUF
      BY <1>2, <1>9, <3>1, PlayerNumbers DEF cnt
    <3>3. Len(e.sbuf) # 0
      BY <3>2, PlayerNumbers
    <3> QED
      BY <3>3
  <2> QED
    BY <2>1, <2>2
<1> QED
  BY <1>4, <1>7, <1>11, <1>12 DEF Kept

LEMMA NextUnitReads ==
  ASSUME isMp3 \in BOOLEAN, NEW d, Buffered(d)
  PROVE  LET e == NextUnit(d)
         IN Kept(d, e) /\ (e.pcm # <<>> \/ e.streamPos > d.streamPos \/ e.streamPos = AllUnits)
<1> DEFINE e == IF Len(d.sbuf) < (IF isMp3 THEN MP3_MAXFRAME ELSE 1) THEN StreamFill(d) ELSE d
<1>1. Len(d.sbuf) \in Nat /\ d.streamPos \in Nat /\ d.streamPos <= AllUnits /\ AllUnits \in Nat /\ AllUnits <= Len(File) /\ Len(File) \in Nat
  BY FileIs DEF Buffered, Decoders
<1>2. Kept(d, d)
  BY DEF Kept
<1>3. Kept(d, e) /\ e.streamPos = d.streamPos /\ e.pcm = d.pcm /\ (e.sbuf # <<>> \/ e.streamPos = Len(File))
  <2>1. CASE Len(d.sbuf) < (IF isMp3 THEN MP3_MAXFRAME ELSE 1)
    BY <2>1, FillReads
  <2>2. CASE ~(Len(d.sbuf) < (IF isMp3 THEN MP3_MAXFRAME ELSE 1))
    <3>1. Len(d.sbuf) # 0
      BY <1>1, <2>2, PlayerNumbers
    <3> QED
      BY <1>2, <2>2, <3>1
  <2> QED
    BY <2>1, <2>2
<1>4. NextUnit(d) = IF d.pcm # <<>> \/ (~isMp3 /\ d.streamPos >= TRACK) THEN d
                    ELSE IF e.sbuf = <<>> THEN e
                    ELSE [e EXCEPT !.sbuf = Tail(e.sbuf), !.pcm = Head(e.sbuf), !.streamPos = e.streamPos + 1]
  BY DEF NextUnit
<1> HIDE DEF e
<1>5. CASE d.pcm # <<>>
  BY <1>2, <1>4, <1>5
<1>6. CASE ~isMp3 /\ d.streamPos >= TRACK
  <2>1. AllUnits = TRACK
    BY <1>6 DEF AllUnits
  <2>2. d.streamPos = AllUnits
    BY <1>1, <1>6, <2>1
  <2> QED
    BY <1>2, <1>4, <1>6, <2>2
<1>7. CASE d.pcm = <<>> /\ ~(~isMp3 /\ d.streamPos >= TRACK) /\ e.sbuf = <<>>
  <2>1. NextUnit(d) = e /\ e.streamPos = Len(File)
    BY <1>3, <1>4, <1>7
  <2>2. e.streamPos = AllUnits
    BY <1>1, <1>3, <2>1
  <2> QED
    BY <1>3, <2>1, <2>2
<1>8. CASE d.pcm = <<>> /\ ~(~isMp3 /\ d.streamPos >= TRACK) /\ e.sbuf # <<>>
  <2> DEFINE f == [e EXCEPT !.sbuf = Tail(e.sbuf), !.pcm = Head(e.sbuf), !.streamPos = e.streamPos + 1]
             s == e.streamPos
  <2>1. NextUnit(d) = f
    BY <1>4, <1>8
  <2>2. /\ e \in Decoders /\ e.sbuf \in Seq(Seq(Nat)) /\ Len(e.sbuf) \in Nat /\ e.pos \in Nat /\ s \in Nat
        /\ e.pos <= Len(File) /\ Len(e.sbuf) <= SBUF /\ s = e.pos - Len(e.sbuf) /\ s <= AllUnits
        /\ \A i \in 1..Len(e.sbuf) : e.sbuf[i] = File[s + i]
    BY <1>3 DEF Kept, Buffered, Decoders
  <2>3. Len(e.sbuf) # 0
    BY <1>8, <2>2, EmptySeq
  <2>4. /\ Tail(e.sbuf) \in Seq(Seq(Nat)) /\ Len(Tail(e.sbuf)) = Len(e.sbuf) - 1
        /\ \A i \in 1..Len(e.sbuf) - 1 : Tail(e.sbuf)[i] = e.sbuf[i + 1]
        /\ Head(e.sbuf) = e.sbuf[1] /\ Head(e.sbuf) \in Seq(Nat)
    BY <1>8, <2>2, HeadTailProperties
  <2>5. s + 1 \in 1..AllUnits
    <3>1. CASE isMp3
      BY <1>1, <2>2, <2>3, <3>1 DEF AllUnits
    <3>2. CASE ~isMp3
      BY <1>3, <1>8, <2>2, <3>2, PlayerNumbers DEF AllUnits
    <3> QED
      BY <3>1, <3>2
  <2>6. Head(e.sbuf) = File[s + 1]
    BY <2>2, <2>3, <2>4
  <2>7. /\ f \in Decoders
        /\ f.sbuf = Tail(e.sbuf) /\ f.pcm = Head(e.sbuf) /\ f.streamPos = s + 1 /\ f.pos = e.pos
        /\ f.cur = e.cur /\ f.nxt = e.nxt /\ f.phase = e.phase
        /\ (f.primed <=> e.primed) /\ (f.srcEof <=> e.srcEof)
    <3> DEFINE b == Tail(e.sbuf)
               p == Head(e.sbuf)
               t == e.streamPos + 1
    <3>1. b \in Seq(Seq(Nat)) /\ p \in Seq(Nat) /\ t \in Nat
      BY <2>2, <2>4
    <3>2. f = [e EXCEPT !.sbuf = b, !.pcm = p, !.streamPos = t]
      OBVIOUS
    <3> HIDE DEF f, b, p, t
    <3>3. /\ f \in Decoders /\ f.sbuf = b /\ f.pcm = p /\ f.streamPos = t /\ f.pos = e.pos
          /\ f.cur = e.cur /\ f.nxt = e.nxt /\ f.phase = e.phase
          /\ (f.primed <=> e.primed) /\ (f.srcEof <=> e.srcEof)
      <4>1. e \in Decoders
        BY <2>2
      <4> QED
        BY <3>1, <3>2, <4>1 DEF Decoders
    <3> QED
      BY <3>3 DEF b, p, t
  <2> HIDE DEF f, s
  <2>8. /\ Upto(s) \in Nat /\ Upto(s + 1) \in Nat /\ Upto(s) + Len(f.pcm) = Upto(s + 1)
        /\ \A i \in 1..Len(f.pcm) : f.pcm[i] = Upto(s) + i
    <3>1. (s + 1) - 1 = s /\ s \in 0..AllUnits /\ s + 1 \in 0..AllUnits
      BY <1>1, <2>2, <2>5
    <3>2. /\ Upto((s + 1) - 1) + Len(File[s + 1]) = Upto(s + 1)
          /\ \A i \in 1..Len(File[s + 1]) : File[s + 1][i] = Upto((s + 1) - 1) + i
      BY <2>5, FileIs
    <3>3. Upto(s) \in Nat /\ Upto(s + 1) \in Nat
      BY <3>1, FileIs
    <3>4. f.pcm = File[s + 1]
      BY <2>6, <2>7
    <3> QED
      BY <3>1, <3>2, <3>3, <3>4
  <2>9. Len(f.pcm) \in Nat
    BY <2>4, <2>7
  <2>10. Buffered(f)
    <3> DEFINE size == Len(e.sbuf)
    <3>5. Len(f.sbuf) = size - 1 /\ f.pos = e.pos /\ f.streamPos = s + 1
      BY <2>4, <2>7
    <3>6. /\ size \in Nat /\ size # 0 /\ e.pos \in Nat /\ s \in Nat /\ e.pos <= Len(File) /\ size <= SBUF
          /\ s = e.pos - size /\ s + 1 <= AllUnits
      BY <1>1, <2>2, <2>3, <2>5
    <3> HIDE DEF size
    <3>1. /\ Len(f.sbuf) <= SBUF /\ Len(f.sbuf) <= f.pos /\ f.streamPos = f.pos - Len(f.sbuf)
          /\ f.pos <= Len(File) /\ f.streamPos <= AllUnits
      BY <1>1, <3>5, <3>6, PlayerNumbers
    <3>2. \A i \in 1..Len(f.sbuf) : f.sbuf[i] = File[f.streamPos + i]
      <4> SUFFICES ASSUME NEW i \in 1..Len(f.sbuf) PROVE f.sbuf[i] = File[f.streamPos + i]
        OBVIOUS
      <4>1. i \in 1..size - 1 /\ i + 1 \in 1..size /\ s + (i + 1) = f.streamPos + i
        <5>1. i \in 1..Len(f.sbuf) /\ f.streamPos = s + 1 /\ Len(f.sbuf) = size - 1
          BY <3>5
        <5> QED
          BY <3>6, <5>1
      <4>2. f.sbuf[i] = e.sbuf[i + 1] /\ e.sbuf[i + 1] = File[s + (i + 1)]
        BY <2>2, <2>4, <2>7, <4>1 DEF size
      <4> QED
        BY <4>1, <4>2
    <3>3. Len(f.pcm) <= Upto(f.streamPos) /\ Upto(f.streamPos) - Len(f.pcm) = Upto(s)
      BY <2>7, <2>8, <2>9
    <3>4. \A i \in 1..Len(f.pcm) : f.pcm[i] = Upto(f.streamPos) - Len(f.pcm) + i
      BY <2>8, <2>9, <3>3
    <3> QED
      BY <2>7, <3>1, <3>2, <3>3, <3>4 DEF Buffered
  <2>11. At(f) = At(d)
    <3>1. At(f) = Upto(s)
      BY <2>7, <2>8, <2>9 DEF At
    <3>2. At(d) = Upto(s) - 0
      BY <1>3, <1>8, EmptySeq DEF At, s
    <3> QED
      BY <2>8, <3>1, <3>2
  <2>12. f.streamPos > d.streamPos
    BY <1>1, <1>3, <2>7 DEF s
  <2> QED
    BY <1>3, <2>1, <2>7, <2>10, <2>11, <2>12 DEF Kept
<1> QED
  BY <1>5, <1>6, <1>7, <1>8

LEMMA KeptOn ==
  ASSUME NEW c, NEW d, NEW e, Kept(c, d), Kept(d, e) PROVE Kept(c, e)
BY DEF Kept

LEMMA WithFrameReads ==
  ASSUME isMp3 \in BOOLEAN, NEW d, Buffered(d)
  PROVE  LET e == WithFrame(d) IN Kept(d, e) /\ (e.pcm # <<>> \/ At(d) = TRACK)
<1> DEFINE cnt == Len(File)
           D == {e \in Decoders : Kept(d, e)}
           F == [e \in D |-> NextUnit(e)]
           P(g) == g = [k \in 0..cnt |-> IF k = 0 THEN d ELSE NextUnit(g[k - 1])]
           h == CHOOSE g : P(g)
           Turned(k) == h[k] \in D /\ (h[k].pcm # <<>> \/ h[k].streamPos >= k \/ h[k].streamPos = AllUnits)
           T == {k \in 0..cnt : Turned(k)}
<1>1. cnt \in Nat /\ AllUnits \in Nat /\ AllUnits <= cnt /\ 0 \in 0..cnt
  BY FileIs
<1>2. d \in D
  BY DEF Kept, Buffered
<1>3. ASSUME NEW e \in D
      PROVE  /\ NextUnit(e) \in D /\ F[e] = NextUnit(e)
             /\ \A k \in Nat :
                  (e.pcm # <<>> \/ e.streamPos >= k \/ e.streamPos = AllUnits) =>
                  NextUnit(e).pcm # <<>> \/ NextUnit(e).streamPos >= k + 1 \/ NextUnit(e).streamPos = AllUnits
  <2>1. Buffered(e) /\ Kept(d, e)
    BY <1>3 DEF Kept
  <2>2. Kept(e, NextUnit(e)) /\ (NextUnit(e).pcm # <<>> \/ NextUnit(e).streamPos > e.streamPos \/ NextUnit(e).streamPos = AllUnits)
    BY <2>1, NextUnitReads
  <2>3. NextUnit(e) \in D
    BY <2>1, <2>2, KeptOn DEF Kept, Buffered
  <2>4. e.pcm # <<>> => NextUnit(e) = e
    BY DEF NextUnit
  <2>5. /\ e.streamPos \in Nat /\ NextUnit(e).streamPos \in Nat
        /\ NextUnit(e).streamPos <= AllUnits
    BY <2>1, <2>2 DEF Kept, Buffered, Decoders
  <2>6. F[e] = NextUnit(e)
    BY <1>3
  <2> HIDE DEF D, F
  <2>7. ASSUME NEW k \in Nat, e.pcm # <<>> \/ e.streamPos >= k \/ e.streamPos = AllUnits
        PROVE  NextUnit(e).pcm # <<>> \/ NextUnit(e).streamPos >= k + 1 \/ NextUnit(e).streamPos = AllUnits
    BY <1>1, <2>2, <2>4, <2>5, <2>7
  <2> QED
    BY <2>3, <2>6, <2>7
<1>4. F \in [D -> D]
  BY <1>3
<1> HIDE DEF F, D, cnt
<1>5. PICK g \in [0..cnt -> D] : g[0] = d /\ \A k \in 1..cnt : g[k] = F[g[k - 1]]
  <2>1. Runs(D, F, d, cnt)
    BY <1>1, <1>2, <1>4, LoopRuns
  <2> QED
    BY <2>1 DEF Runs
<1>6. P(g)
  <2>1. ASSUME NEW k \in 0..cnt PROVE g[k] = IF k = 0 THEN d ELSE NextUnit(g[k - 1])
    <3>1. CASE k = 0
      BY <1>5, <3>1
    <3>2. CASE k # 0
      <4>1. k \in 1..cnt /\ k - 1 \in 0..cnt
        BY <1>1, <3>2
      <4>2. g[k] = F[g[k - 1]] /\ g[k - 1] \in D
        BY <1>5, <4>1
      <4> QED
        BY <1>3, <3>2, <4>2
    <3> QED
      BY <3>1, <3>2
  <2> QED
    BY <1>5, <2>1
<1> HIDE DEF P
<1>7. P(h)
  BY <1>6, Zenon
<1>8. WithFrame(d) = h[cnt]
  BY DEF WithFrame, h, P, cnt
<1> HIDE DEF h
<1>9. h[0] = d /\ \A k \in 0..cnt - 1 : h[k + 1] = NextUnit(h[k])
  BY <1>1, <1>7 DEF P
<1>10. Turned(0)
  BY <1>2, <1>9, FileIs DEF D, Kept, Buffered, Decoders
<1>11. ASSUME NEW k \in 0..cnt - 1, k \in T PROVE k + 1 \in T
  <2>1. Turned(k) /\ k \in Nat /\ k + 1 \in 0..cnt /\ h[k + 1] = NextUnit(h[k])
    BY <1>1, <1>9, <1>11
  <2>2. Turned(k + 1)
    BY <1>3, <2>1
  <2> QED
    BY <2>1, <2>2
<1>12. Turned(cnt)
  <2>1. 0 \in T
    BY <1>1, <1>10
  <2> HIDE DEF T
  <2>2. \A k \in 0..cnt : k \in T
    BY <1>1, <1>11, <2>1, Upwards
  <2>3. cnt \in T
    BY <1>1, <2>2
  <2> QED
    BY <2>3 DEF T
<1> DEFINE e == h[cnt]
<1>13. Kept(d, e) /\ e.streamPos \in Nat /\ e.streamPos <= AllUnits
  BY <1>12 DEF D, Kept, Buffered, Decoders
<1>14. ASSUME e.pcm = <<>> PROVE At(d) = TRACK
  <2>1. e.streamPos = AllUnits
    BY <1>1, <1>12, <1>13, <1>14
  <2>2. At(e) = TRACK - 0
    BY <1>14, <2>1, FileIs, EmptySeq DEF At
  <2> QED
    BY <1>13, <2>2, PlayerNumbers DEF Kept
<1> QED
  BY <1>8, <1>13, <1>14

\* Another frame, or the end of the track.
Took(d, e) ==
  /\ Buffered(e) /\ e.cur = d.cur /\ e.phase = d.phase /\ (e.primed <=> d.primed)
  /\ \/ At(e) = At(d) + 1 /\ e.nxt = At(e) /\ (e.srcEof <=> d.srcEof)
     \/ At(d) = TRACK /\ e.srcEof

LEMMA SrcNextTakes ==
  ASSUME isMp3 \in BOOLEAN, NEW d, Buffered(d)
  PROVE  Took(d, SrcNext(d))
<1> DEFINE e == WithFrame(d)
<1>1. Kept(d, e) /\ (e.pcm # <<>> \/ At(d) = TRACK)
  BY WithFrameReads
<1>2. SrcNext(d) = IF e.pcm = <<>> THEN [e EXCEPT !.nxt = e.cur, !.srcEof = TRUE]
                   ELSE [e EXCEPT !.nxt = Head(e.pcm), !.pcm = Tail(e.pcm)]
  BY DEF SrcNext
<1> HIDE DEF e
<1>3. /\ e \in Decoders /\ e.pcm \in Seq(Nat) /\ Len(e.pcm) \in Nat /\ Upto(e.streamPos) \in Nat
      /\ e.cur \in Nat /\ At(d) = Upto(e.streamPos) - Len(e.pcm) /\ Len(e.pcm) <= Upto(e.streamPos)
      /\ \A i \in 1..Len(e.pcm) : e.pcm[i] = At(d) + i
  <2>1. Buffered(e) /\ At(e) = At(d)
    BY <1>1 DEF Kept
  <2>2. e \in Decoders /\ e.streamPos \in Nat /\ e.streamPos <= AllUnits
    BY <2>1 DEF Buffered, Decoders
  <2>3. AllUnits \in Nat
    BY FileIs
  <2>4. e.streamPos \in 0..AllUnits
    BY <2>2, <2>3
  <2>5. Upto(e.streamPos) \in Nat
    BY <2>4, FileIs
  <2>6. e.pcm \in Seq(Nat) /\ Len(e.pcm) \in Nat /\ e.cur \in Nat
    BY <2>2 DEF Decoders
  <2>7. At(d) = Upto(e.streamPos) - Len(e.pcm)
    BY <2>1 DEF At
  <2> HIDE DEF e
  <2>8. \A i \in 1..Len(e.pcm) : e.pcm[i] = At(d) + i
    BY <2>1, <2>7 DEF Buffered
  <2> QED
    BY <2>1, <2>2, <2>5, <2>6, <2>7, <2>8 DEF Buffered
<1>4. CASE e.pcm = <<>>
  <2> DEFINE f == [e EXCEPT !.nxt = e.cur, !.srcEof = TRUE]
  <2>1. /\ f \in Decoders /\ f.pos = e.pos /\ f.streamPos = e.streamPos /\ f.sbuf = e.sbuf /\ f.pcm = e.pcm
        /\ f.cur = e.cur /\ f.phase = e.phase /\ (f.primed <=> e.primed) /\ f.srcEof
    BY <1>3 DEF Decoders
  <2>2. SrcNext(d) = f
    BY <1>2, <1>4
  <2> HIDE DEF f
  <2>3. Buffered(f)
    BY <1>1, <2>1 DEF Buffered, Kept
  <2>4. At(d) = TRACK
    BY <1>1, <1>4
  <2> QED
    BY <1>1, <2>1, <2>2, <2>3, <2>4 DEF Took, Kept
<1>5. CASE e.pcm # <<>>
  <2> DEFINE hd == Head(e.pcm)
             tl == Tail(e.pcm)
             f == [e EXCEPT !.nxt = hd, !.pcm = tl]
  <2>1. /\ tl \in Seq(Nat) /\ Len(tl) = Len(e.pcm) - 1
        /\ \A i \in 1..Len(e.pcm) - 1 : tl[i] = e.pcm[i + 1]
        /\ hd = e.pcm[1] /\ hd \in Nat
    BY <1>3, <1>5, HeadTailProperties
  <2>2. SrcNext(d) = f
    BY <1>2, <1>5
  <2> HIDE DEF hd, tl
  <2>3. /\ f \in Decoders /\ f.pos = e.pos /\ f.streamPos = e.streamPos /\ f.sbuf = e.sbuf
        /\ f.pcm = tl /\ f.nxt = hd
        /\ f.cur = e.cur /\ f.phase = e.phase /\ (f.primed <=> e.primed) /\ (f.srcEof <=> e.srcEof)
    BY <1>3, <2>1 DEF Decoders
  <2> HIDE DEF f
  <2>4. Len(e.pcm) # 0
    BY <1>3, <1>5, EmptySeq
  <2>5. hd = At(d) + 1
    BY <1>3, <2>1, <2>4
  <2>6. Upto(f.streamPos) = Upto(e.streamPos)
    BY <2>3
  <2>7. At(f) = At(d) + 1 /\ Len(f.pcm) <= Upto(f.streamPos)
    BY <1>3, <2>1, <2>3, <2>6 DEF At
  <2>8. ASSUME NEW i \in 1..Len(f.pcm) PROVE f.pcm[i] = Upto(f.streamPos) - Len(f.pcm) + i
    <3>1. Len(f.pcm) = Len(e.pcm) - 1
      BY <2>1, <2>3
    <3>2. i \in 1..Len(e.pcm) - 1 /\ i + 1 \in 1..Len(e.pcm)
      BY <1>3, <2>4, <2>8, <3>1
    <3>3. f.pcm[i] = At(d) + (i + 1)
      BY <1>3, <2>1, <2>3, <3>2
    <3>4. At(d) + (i + 1) = Upto(f.streamPos) - Len(f.pcm) + i
      <4>1. Upto(f.streamPos) = At(d) + Len(e.pcm) /\ Upto(f.streamPos) \in Nat /\ At(d) \in Int
        BY <1>3, <2>6
      <4>2. i \in Nat /\ Len(e.pcm) \in Nat
        BY <1>3, <3>2
      <4> HIDE DEF f
      <4> QED
        BY <3>1, <4>1, <4>2
    <3> QED
      BY <3>3, <3>4
  <2>9. Buffered(f)
    BY <1>1, <2>3, <2>7, <2>8 DEF Buffered, Kept
  <2>10. f.nxt = At(f) /\ f.cur = d.cur /\ f.phase = d.phase /\ (f.primed <=> d.primed) /\ (f.srcEof <=> d.srcEof)
    BY <1>1, <2>3, <2>5, <2>7 DEF Kept
  <2> QED
    BY <2>2, <2>7, <2>9, <2>10 DEF Took
<1> QED
  BY <1>4, <1>5

LEMMA SameReading ==
  ASSUME NEW d, Buffered(d), NEW e \in Decoders,
         e.pos = d.pos, e.streamPos = d.streamPos, e.sbuf = d.sbuf, e.pcm = d.pcm
  PROVE  Buffered(e) /\ At(e) = At(d)
BY DEF Buffered, At

LEMMA TookSame ==
  ASSUME NEW d, NEW c, NEW e, Took(c, e), At(c) = At(d), c.phase = d.phase, (c.primed <=> d.primed), (c.srcEof <=> d.srcEof)
  PROVE  /\ Buffered(e) /\ e \in Decoders /\ e.cur = c.cur /\ e.phase = d.phase /\ (e.primed <=> d.primed)
         /\ \/ At(e) = At(d) + 1 /\ e.nxt = At(e) /\ (e.srcEof <=> d.srcEof)
            \/ At(d) = TRACK /\ e.srcEof
BY DEF Took, Buffered

\* cur becomes another frame.
LEMMA CurSet ==
  ASSUME NEW d, Buffered(d), NEW x \in Nat, NEW c, c = [d EXCEPT !.cur = x]
  PROVE  /\ Buffered(c) /\ At(c) = At(d) /\ c.cur = x /\ c.phase = d.phase
         /\ (c.primed <=> d.primed) /\ (c.srcEof <=> d.srcEof)
<1>1. d \in Decoders
  BY DEF Buffered
<1>2. /\ c \in Decoders /\ c.pos = d.pos /\ c.streamPos = d.streamPos /\ c.sbuf = d.sbuf /\ c.pcm = d.pcm
      /\ c.cur = x /\ c.phase = d.phase /\ (c.primed <=> d.primed) /\ (c.srcEof <=> d.srcEof)
  BY <1>1 DEF Decoders
<1> QED
  BY <1>2, SameReading

\* Between two frames of the track, or at its end.
Midway(d) == d.srcEof \/ (d.nxt = d.cur + 1 /\ At(d) = d.nxt)

LEMMA ShiftedGoesOn ==
  ASSUME isMp3 \in BOOLEAN, NEW d, Buffered(d), Midway(d)
  PROVE  LET e == Shifted(d)
         IN /\ Buffered(e) /\ Midway(e) /\ e.phase = d.phase /\ (e.primed <=> d.primed)
            /\ e.srcEof \/ (~d.srcEof /\ e.cur = d.cur + 1)
<1> DEFINE c == [d EXCEPT !.cur = d.nxt]
           e == Shifted(d)
<1>1. d \in Decoders /\ d.nxt \in Nat /\ d.cur \in Nat /\ d.srcEof \in BOOLEAN
  BY DEF Buffered, Decoders
<1>2. e = SrcNext(c)
  BY DEF Shifted
<1>3. Buffered(c) /\ At(c) = At(d) /\ c.cur = d.nxt /\ c.phase = d.phase /\ (c.primed <=> d.primed) /\ (c.srcEof <=> d.srcEof)
  <2>1. c = [d EXCEPT !.cur = d.nxt]
    OBVIOUS
  <2> HIDE DEF c
  <2> QED
    BY <1>1, <2>1, CurSet
<1> HIDE DEF c, e
<1>4. Took(c, e)
  BY <1>2, <1>3, SrcNextTakes
<1>5. /\ Buffered(e) /\ e.cur = c.cur /\ e.phase = d.phase /\ (e.primed <=> d.primed)
      /\ \/ At(e) = At(d) + 1 /\ e.nxt = At(e) /\ (e.srcEof <=> d.srcEof)
         \/ At(d) = TRACK /\ e.srcEof
  BY <1>3, <1>4, TookSame
<1>6. e.srcEof \/ (~d.srcEof /\ e.cur = d.cur + 1)
  BY <1>1, <1>3, <1>5 DEF Midway
<1>7. Midway(e)
  BY <1>1, <1>3, <1>5, <1>6 DEF Midway
<1> QED
  BY <1>5, <1>6, <1>7 DEF e

LEMMA SteppedGoesOn ==
  ASSUME isMp3 \in BOOLEAN, step \in SrcSteps, NEW cnt \in Nat, NEW d, Buffered(d), ~d.srcEof, Between(d, cnt)
  PROVE  LET e == Stepped(d) IN Buffered(e) /\ (e.srcEof \/ Between(e, cnt + 1))
<1> DEFINE p == d.phase + step
           q == p \div ONE
           D == {e \in Decoders : Buffered(e) /\ Midway(e) /\ e.phase = d.phase /\ (e.primed <=> d.primed)}
           F == [e \in D |-> Shifted(e)]
           P(g) == g = [k \in 0..q |-> IF k = 0 THEN d ELSE Shifted(g[k - 1])]
           h == CHOOSE g : P(g)
           Turned(k) == h[k] \in D /\ (h[k].srcEof \/ h[k].cur = d.cur + k)
           T == {k \in 0..q : Turned(k)}
<1>1. /\ d \in Decoders /\ d.phase \in Nat /\ d.cur \in Nat /\ d.cur >= 1 /\ step \in Nat /\ step > 0
      /\ p \in Nat /\ q \in Nat /\ p % ONE \in Nat /\ p % ONE < ONE /\ p = ONE * q + (p % ONE) /\ 0 \in 0..q
  <2>1. d \in Decoders /\ d.phase \in Nat /\ d.cur \in Nat /\ d.cur >= 1
    BY DEF Buffered, Decoders, Between
  <2>2. step \in Nat /\ step > 0
    BY PlayerNumbers
  <2>3. \A x \in Nat : x \div ONE \in Nat /\ x % ONE \in Nat /\ x % ONE < ONE /\ x = ONE * (x \div ONE) + (x % ONE)
    BY PlayerNumbers
  <2> QED
    BY <2>1, <2>2, <2>3
<1> HIDE DEF q
<1>2. d \in D
  BY <1>1 DEF Between, Midway
<1>3. ASSUME NEW e \in D
      PROVE  /\ Shifted(e) \in D /\ F[e] = Shifted(e)
             /\ Shifted(e).srcEof \/ (~e.srcEof /\ Shifted(e).cur = e.cur + 1)
  <2>1. Buffered(e) /\ Midway(e) /\ e.phase = d.phase /\ (e.primed <=> d.primed)
    OBVIOUS
  <2>2. /\ Buffered(Shifted(e)) /\ Midway(Shifted(e)) /\ Shifted(e).phase = e.phase /\ (Shifted(e).primed <=> e.primed)
        /\ Shifted(e).srcEof \/ (~e.srcEof /\ Shifted(e).cur = e.cur + 1)
    BY <2>1, ShiftedGoesOn
  <2>3. Shifted(e) \in Decoders
    BY <2>2 DEF Buffered
  <2> QED
    BY <2>1, <2>2, <2>3
<1>4. F \in [D -> D]
  BY <1>3
<1> HIDE DEF F, D
<1>5. PICK g \in [0..q -> D] : g[0] = d /\ \A k \in 1..q : g[k] = F[g[k - 1]]
  <2>1. Runs(D, F, d, q)
    BY <1>1, <1>2, <1>4, LoopRuns
  <2> QED
    BY <2>1 DEF Runs
<1>6. P(g)
  <2>1. ASSUME NEW k \in 0..q PROVE g[k] = IF k = 0 THEN d ELSE Shifted(g[k - 1])
    <3>1. CASE k = 0
      BY <1>5, <3>1
    <3>2. CASE k # 0
      <4>1. k \in 1..q /\ k - 1 \in 0..q
        BY <1>1, <3>2
      <4>2. g[k] = F[g[k - 1]] /\ g[k - 1] \in D
        BY <1>5, <4>1
      <4> QED
        BY <1>3, <3>2, <4>2
    <3> QED
      BY <3>1, <3>2
  <2> QED
    BY <1>5, <2>1
<1> HIDE DEF P
<1>7. P(h)
  BY <1>6, Zenon
<1>8. Stepped(d) = [h[q] EXCEPT !.phase = p % ONE]
  BY DEF Stepped, h, P, q
<1> HIDE DEF h
<1>9. h[0] = d /\ \A k \in 0..q - 1 : h[k + 1] = Shifted(h[k])
  BY <1>1, <1>7 DEF P
<1>10. Turned(0)
  BY <1>1, <1>2, <1>9
<1>11. ASSUME NEW k \in 0..q - 1, k \in T PROVE k + 1 \in T
  <2>1. Turned(k) /\ k \in Nat /\ k + 1 \in 0..q /\ h[k + 1] = Shifted(h[k])
    BY <1>1, <1>9, <1>11
  <2>2. Turned(k + 1)
    <3>1. /\ Shifted(h[k]) \in D
          /\ Shifted(h[k]).srcEof \/ (~h[k].srcEof /\ Shifted(h[k]).cur = h[k].cur + 1)
      BY <1>3, <2>1
    <3>2. (d.cur + k) + 1 = d.cur + (k + 1)
      <4>1. d.cur \in Nat /\ k \in Nat
        BY <1>1, <2>1
      <4> QED
        BY <4>1
    <3>3. Shifted(h[k]).srcEof \/ Shifted(h[k]).cur = d.cur + (k + 1)
      BY <2>1, <3>1, <3>2
    <3> QED
      BY <2>1, <3>1, <3>3
  <2> QED
    BY <2>1, <2>2
<1>12. Turned(q)
  <2>1. 0 \in T
    BY <1>1, <1>10
  <2> HIDE DEF T
  <2>2. \A k \in 0..q : k \in T
    BY <1>1, <1>11, <2>1, Upwards
  <2>3. q \in T
    BY <1>1, <2>2
  <2> QED
    BY <2>3 DEF T
<1> DEFINE g1 == h[q]
           r == p % ONE
           e == [g1 EXCEPT !.phase = r]
<1>13. /\ g1 \in Decoders /\ Buffered(g1) /\ Midway(g1) /\ (g1.primed <=> d.primed) /\ g1.cur \in Nat
       /\ g1.srcEof \/ g1.cur = d.cur + q
  BY <1>12 DEF D, Decoders
<1>14. Stepped(d) = e
  BY <1>8
<1>15. r \in Nat /\ r < ONE /\ p = ONE * q + r
  BY <1>1
<1> HIDE DEF g1, r
<1>16. /\ e \in Decoders /\ e.pos = g1.pos /\ e.streamPos = g1.streamPos /\ e.sbuf = g1.sbuf /\ e.pcm = g1.pcm
       /\ e.cur = g1.cur /\ e.nxt = g1.nxt /\ e.phase = r /\ (e.primed <=> g1.primed) /\ (e.srcEof <=> g1.srcEof)
  BY <1>13, <1>15 DEF Decoders
<1> HIDE DEF e
<1>17. Buffered(e) /\ At(e) = At(g1)
  BY <1>13, <1>16, SameReading
<1>18. ASSUME ~e.srcEof PROVE Between(e, cnt + 1)
  <2>1. /\ e.cur = d.cur + q /\ e.cur >= 1 /\ e.nxt = e.cur + 1 /\ At(e) = e.nxt /\ e.primed /\ e.phase = r
        /\ r \in 0..ONE - 1
    <3>1. ~g1.srcEof
      BY <1>16, <1>18
    <3>2. g1.cur = d.cur + q /\ g1.nxt = g1.cur + 1 /\ At(g1) = g1.nxt
      BY <1>13, <3>1 DEF Midway
    <3>3. d.primed
      BY DEF Between
    <3>4. d.cur + q >= 1
      BY <1>1
    <3>5. r \in 0..ONE - 1
      BY <1>15, PlayerNumbers
    <3> QED
      BY <1>13, <1>16, <1>17, <3>2, <3>3, <3>4, <3>5
  <2>2. cnt * step = ONE * (d.cur - 1) + d.phase
    BY DEF Between
  <2>3. (cnt + 1) * step = ONE * (e.cur - 1) + e.phase
    <3>1. (cnt + 1) * step = cnt * step + step
      BY <1>1
    <3>2. ONE * (e.cur - 1) = ONE * (d.cur - 1) + ONE * q
      <4>1. e.cur - 1 = (d.cur - 1) + q /\ d.cur - 1 \in Nat
        <5>1. d.cur \in Nat /\ d.cur >= 1 /\ q \in Nat
          BY <1>1
        <5>2. e.cur = d.cur + q
          BY <2>1
        <5> QED
          BY <5>1, <5>2
      <4>2. \A x, y \in Nat : ONE * (x + y) = ONE * x + ONE * y
        BY PlayerNumbers
      <4> QED
        BY <1>1, <4>1, <4>2
    <3>3. ONE * (d.cur - 1) \in Nat /\ ONE * q \in Nat /\ cnt * step \in Nat /\ ONE * (e.cur - 1) \in Nat
      <4>1. \A x, y \in Nat : x * y \in Nat
        OBVIOUS
      <4>2. d.cur - 1 \in Nat /\ e.cur - 1 \in Nat
        BY <1>1, <2>1
      <4> QED
        BY <1>1, <4>1, <4>2, PlayerNumbers
    <3> DEFINE u == (cnt + 1) * step
               v == cnt * step
               y == ONE * (e.cur - 1)
               z == ONE * (d.cur - 1)
               w == ONE * q
    <3>4. v = z + d.phase /\ d.phase + step = w + r /\ u = v + step /\ y = z + w /\ e.phase = r
      BY <1>15, <2>1, <2>2, <3>1, <3>2
    <3>5. v \in Nat /\ z \in Nat /\ w \in Nat /\ y \in Nat
      BY <3>3
    <3> HIDE DEF u, v, y, z, w, p
    <3>6. step \in Nat /\ d.phase \in Nat /\ r \in Nat
      BY <1>1, <1>15
    <3>7. u = y + e.phase
      <4> DEFINE f == d.phase
      <4>1. /\ v = z + f /\ f + step = w + r /\ u = v + step /\ y = z + w
            /\ step \in Nat /\ f \in Nat /\ r \in Nat
        BY <3>4, <3>6
      <4> HIDE DEF f
      <4>2. u = y + r
        BY <3>5, <4>1
      <4> QED
        BY <3>4, <4>2
    <3> QED
      BY <3>7 DEF u, y
  <2> QED
    BY <2>1, <2>3 DEF Between
<1>19. Buffered(e) /\ (e.srcEof \/ Between(e, cnt + 1))
  BY <1>17, <1>18
<1> QED
  BY <1>14, <1>19

LEMMA PrimedBegins ==
  ASSUME isMp3 \in BOOLEAN, step \in SrcSteps, NEW d, Buffered(d), ~d.srcEof, ~d.primed, At(d) = 0
  PROVE  LET e == Primed(d) IN Buffered(e) /\ ~e.srcEof /\ Between(e, 0)
<1> DEFINE e == SrcNext(d)
           x == e.nxt
           c == [e EXCEPT !.cur = x]
           f == SrcNext(c)
           g == [f EXCEPT !.srcEof = FALSE, !.phase = 0, !.primed = TRUE]
<1>1. Took(d, e)
  BY SrcNextTakes
<1>2. /\ Buffered(e) /\ e \in Decoders /\ At(e) = 1 /\ x = 1 /\ ~e.srcEof
  <2>1. At(d) # TRACK
    BY PlayerNumbers
  <2> HIDE DEF e
  <2> QED
    BY <1>1, <2>1 DEF Took, Buffered
<1>3. Primed(d) = g
  BY <1>2 DEF Primed
<1> HIDE DEF e, x
<1>4. Buffered(c) /\ At(c) = At(e) /\ c.cur = x /\ (c.srcEof <=> e.srcEof)
  <2>1. c = [e EXCEPT !.cur = x] /\ x \in Nat
    BY <1>2
  <2> HIDE DEF c
  <2> QED
    BY <1>2, <2>1, CurSet
<1> HIDE DEF c
<1>5. Took(c, f)
  BY <1>4, SrcNextTakes
<1> HIDE DEF f
<1>6. Buffered(f) /\ f \in Decoders /\ f.cur = 1 /\ f.nxt = 2 /\ At(f) = 2
  <2>1. At(c) = 1 /\ 1 # TRACK
    BY <1>2, <1>4, PlayerNumbers
  <2>2. Buffered(f) /\ f.cur = c.cur /\ At(f) = At(c) + 1 /\ f.nxt = At(f)
    BY <1>5, <2>1 DEF Took
  <2> QED
    BY <1>2, <1>4, <2>1, <2>2 DEF Buffered
<1>7. /\ g \in Decoders /\ g.pos = f.pos /\ g.streamPos = f.streamPos /\ g.sbuf = f.sbuf /\ g.pcm = f.pcm
      /\ g.cur = f.cur /\ g.nxt = f.nxt /\ g.phase = 0 /\ g.primed /\ ~g.srcEof
  BY <1>6 DEF Decoders
<1> HIDE DEF g
<1>8. Buffered(g) /\ At(g) = 2
  BY <1>6, <1>7, SameReading
<1>9. 0 * step = 0 /\ ONE * (g.cur - 1) = 0 /\ 0 \in 0..ONE - 1
  <2>1. step \in Nat /\ ONE \in Nat /\ ONE > 0 /\ g.cur - 1 = 0
    BY <1>6, <1>7, PlayerNumbers
  <2> QED
    BY <2>1
<1>10. Between(g, 0)
  BY <1>6, <1>7, <1>8, <1>9 DEF Between
<1> QED
  BY <1>3, <1>7, <1>8, <1>10
-----------------------------------------------------------------------------
(* What Decode returns *)

Sounds == Nat \X Nat \X Nat

LEMMA OutputSounds ==
  ASSUME step \in SrcSteps, NEW cnt \in Nat
  PROVE  Output(cnt) \in Sounds /\ Output(cnt) # Silence
<1> DEFINE c == (cnt * step) \div ONE + 1
           r == (cnt * step) % ONE
<1>1. c \in Nat /\ r \in Nat
  <2>1. cnt * step \in Nat
    BY PlayerNumbers
  <2>2. \A x \in Nat : x \div ONE \in Nat /\ x % ONE \in Nat
    BY PlayerNumbers
  <2> QED
    BY <2>1, <2>2
<1>2. Output(cnt) = <<c, c + 1, r>>
  BY DEF Output
<1> HIDE DEF c, r
<1>3. <<c, c + 1, r>> # <<>>
  <2>1. Len(<<c, c + 1, r>>) = 3 /\ Len(<<>>) = 0
    OBVIOUS
  <2> QED
    BY <2>1
<1> QED
  BY <1>1, <1>2, <1>3 DEF Sounds, Silence

LEMMA BetweenIsOutput ==
  ASSUME step \in SrcSteps, NEW cnt \in Nat, NEW d, Buffered(d), Between(d, cnt)
  PROVE  <<d.cur, d.nxt, d.phase>> = Output(cnt)
<1>1. d.cur \in Nat /\ d.cur >= 1 /\ d.nxt = d.cur + 1 /\ d.phase \in 0..ONE - 1
  BY DEF Buffered, Decoders, Between
<1> DEFINE x == cnt * step
           q == d.cur - 1
           r == d.phase
<1>2. x = ONE * q + r
  BY DEF Between
<1>3. x \in Nat
  BY PlayerNumbers
<1>4. q \in Nat /\ r \in 0..ONE - 1 /\ ONE \in Nat \ {0}
  BY <1>1, PlayerNumbers
<1> HIDE DEF x
<1>5. x \div ONE = q /\ x % ONE = r
  BY <1>2, <1>3, <1>4, DivModIs
<1>6. q + 1 = d.cur
  BY <1>1
<1> QED
  BY <1>1, <1>5, <1>6 DEF Output, x

\* The decoder and the outputs so far, cnt having come before.
Plays(r, cnt) ==
  /\ r.out \in Seq(Sounds) /\ Buffered(r.d)
  /\ ~r.d.srcEof => Between(r.d, cnt + Len(r.out))
  /\ \A i \in 1..Len(r.out) : r.out[i] = Output(cnt + i - 1)

LEMMA OneOutputPlays ==
  ASSUME isMp3 \in BOOLEAN, step \in SrcSteps, NEW cnt \in Nat, NEW r, Plays(r, cnt)
  PROVE  Plays(OneOutput(r), cnt) /\ Len(OneOutput(r).out) <= Len(r.out) + 1
<1>1. r.out \in Seq(Sounds) /\ Len(r.out) \in Nat
  BY DEF Plays
<1>2. CASE r.d.srcEof
  <2>1. OneOutput(r) = r
    BY <1>2 DEF OneOutput
  <2> QED
    BY <1>1, <2>1
<1>3. CASE ~r.d.srcEof
  <2> DEFINE m == cnt + Len(r.out)
             x == <<r.d.cur, r.d.nxt, r.d.phase>>
             o == Append(r.out, x)
             e == Stepped(r.d)
             s == [d |-> e, out |-> o]
  <2>1. OneOutput(r) = s
    BY <1>3 DEF OneOutput
  <2>2. m \in Nat /\ Buffered(r.d) /\ Between(r.d, m)
    BY <1>1, <1>3 DEF Plays
  <2>3. x = Output(m) /\ Output(m) \in Sounds
    BY <2>2, BetweenIsOutput, OutputSounds
  <2>4. Buffered(e) /\ (e.srcEof \/ Between(e, m + 1))
    BY <1>3, <2>2, SteppedGoesOn
  <2> HIDE DEF x, e
  <2>5. /\ o \in Seq(Sounds) /\ Len(o) = Len(r.out) + 1
        /\ \A i \in 1..Len(r.out) : o[i] = r.out[i]
        /\ o[Len(r.out) + 1] = x
    BY <1>1, <2>3, AppendProperties
  <2>6. s.d = e /\ s.out = o
    OBVIOUS
  <2> HIDE DEF o, s
  <2>7. ASSUME NEW i \in 1..Len(o) PROVE o[i] = Output(cnt + i - 1)
    <3>1. CASE i = Len(r.out) + 1
      <4>1. cnt + i - 1 = m
        BY <1>1, <3>1
      <4> QED
        BY <2>3, <2>5, <3>1, <4>1
    <3>2. CASE i # Len(r.out) + 1
      <4>1. i \in 1..Len(r.out)
        BY <1>1, <2>5, <3>2
      <4> QED
        BY <2>5, <4>1 DEF Plays
    <3> QED
      BY <3>1, <3>2
  <2>8. cnt + Len(o) = m + 1
    BY <1>1, <2>5
  <2>9. Plays(s, cnt)
    BY <2>4, <2>5, <2>6, <2>7, <2>8 DEF Plays
  <2> QED
    BY <1>1, <2>1, <2>5, <2>6, <2>9
<1> QED
  BY <1>2, <1>3

LEMMA DecodePlays ==
  ASSUME isMp3 \in BOOLEAN, step \in SrcSteps, NEW cnt \in Nat, Synced(dec, cnt), NEW max \in Nat
  PROVE  LET r == Decode(max)
         IN Plays(r, cnt) /\ Synced(r.d, cnt + Len(r.out)) /\ Len(r.out) <= max
<1> DEFINE d == IF dec.srcEof \/ dec.primed THEN dec ELSE Primed(dec)
           x == [d |-> d, out |-> <<>>]
           D == {r \in [d : Decoders, out : Seq(Sounds)] : Plays(r, cnt)}
           F == [r \in D |-> OneOutput(r)]
           P(g) == g = [k \in 0..max |-> IF k = 0 THEN x ELSE OneOutput(g[k - 1])]
           h == CHOOSE g : P(g)
           Turned(k) == h[k] \in D /\ Len(h[k].out) <= k
           T == {k \in 0..max : Turned(k)}
<1>1. Buffered(d) /\ (~d.srcEof => Between(d, cnt))
  <2>1. CASE dec.srcEof \/ dec.primed
    BY <2>1 DEF Synced
  <2>2. CASE ~(dec.srcEof \/ dec.primed)
    <3>1. Buffered(dec) /\ At(dec) = 0 /\ cnt = 0
      BY <2>2 DEF Synced, Between
    <3>2. Buffered(Primed(dec)) /\ ~Primed(dec).srcEof /\ Between(Primed(dec), 0)
      BY <2>2, <3>1, PrimedBegins
    <3> QED
      BY <2>2, <3>1, <3>2
  <2> QED
    BY <2>1, <2>2
<1> HIDE DEF d
<1>2. x \in D /\ Len(x.out) = 0
  <2>1. d \in Decoders
    BY <1>1 DEF Buffered
  <2>2. x.d = d /\ x.out = <<>> /\ <<>> \in Seq(Sounds) /\ Len(<<>>) = 0 /\ cnt + 0 = cnt
    OBVIOUS
  <2>3. x \in [d : Decoders, out : Seq(Sounds)]
    BY <2>1, <2>2
  <2> HIDE DEF x
  <2>4. Plays(x, cnt)
    BY <1>1, <2>2 DEF Plays
  <2> QED
    BY <2>2, <2>3, <2>4
<1>3. ASSUME NEW r \in D
      PROVE  OneOutput(r) \in D /\ F[r] = OneOutput(r) /\ Len(OneOutput(r).out) <= Len(r.out) + 1
  <2>1. Plays(OneOutput(r), cnt) /\ Len(OneOutput(r).out) <= Len(r.out) + 1
    BY OneOutputPlays
  <2>2. OneOutput(r).out \in Seq(Sounds) /\ OneOutput(r).d \in Decoders
    BY <2>1 DEF Plays, Buffered
  <2>3. OneOutput(r) \in [d : Decoders, out : Seq(Sounds)]
    <3>1. CASE r.d.srcEof
      BY <3>1 DEF OneOutput
    <3>2. CASE ~r.d.srcEof
      <4> DEFINE e == Stepped(r.d)
                 o == Append(r.out, <<r.d.cur, r.d.nxt, r.d.phase>>)
      <4>1. OneOutput(r) = [d |-> e, out |-> o]
        BY <3>2 DEF OneOutput
      <4> HIDE DEF e, o
      <4> QED
        BY <2>2, <4>1
    <3> QED
      BY <3>1, <3>2
  <2> QED
    BY <2>1, <2>3
<1>4. F \in [D -> D]
  BY <1>3
<1> HIDE DEF F, D, x
<1>5. PICK g \in [0..max -> D] : g[0] = x /\ \A k \in 1..max : g[k] = F[g[k - 1]]
  <2>1. Runs(D, F, x, max)
    BY <1>2, <1>4, LoopRuns
  <2> QED
    BY <2>1 DEF Runs
<1>6. P(g)
  <2>1. ASSUME NEW k \in 0..max PROVE g[k] = IF k = 0 THEN x ELSE OneOutput(g[k - 1])
    <3>1. CASE k = 0
      BY <1>5, <3>1
    <3>2. CASE k # 0
      <4>1. k \in 1..max /\ k - 1 \in 0..max
        BY <3>2
      <4>2. g[k] = F[g[k - 1]] /\ g[k - 1] \in D
        BY <1>5, <4>1
      <4> QED
        BY <1>3, <3>2, <4>2
    <3> QED
      BY <3>1, <3>2
  <2> QED
    BY <1>5, <2>1
<1> HIDE DEF P
<1>7. P(h)
  BY <1>6, Zenon
<1>8. Decode(max) = h[max]
  BY DEF Decode, h, P, x, d
<1> HIDE DEF h
<1>9. h[0] = x /\ \A k \in 0..max - 1 : h[k + 1] = OneOutput(h[k])
  BY <1>7 DEF P
<1>10. Turned(0)
  BY <1>2, <1>9
<1>11. ASSUME NEW k \in 0..max - 1, k \in T PROVE k + 1 \in T
  <2>1. Turned(k) /\ k \in Nat /\ k + 1 \in 0..max /\ h[k + 1] = OneOutput(h[k])
    BY <1>9, <1>11
  <2>2. Len(h[k].out) \in Nat /\ Len(OneOutput(h[k]).out) \in Nat
    <3>1. \A r \in D : Len(r.out) \in Nat
      BY DEF D
    <3> QED
      BY <1>3, <2>1, <3>1
  <2>3. Turned(k + 1)
    BY <1>3, <2>1, <2>2
  <2> QED
    BY <2>1, <2>3
<1>12. Turned(max)
  <2>1. 0 \in T
    BY <1>10
  <2> HIDE DEF T
  <2>2. \A k \in 0..max : k \in T
    BY <1>11, <2>1, Upwards
  <2>3. max \in T
    BY <2>2
  <2> QED
    BY <2>3 DEF T
<1>13. Plays(h[max], cnt)
  BY <1>12 DEF D
<1>14. Synced(h[max].d, cnt + Len(h[max].out))
  BY <1>13 DEF Plays, Synced
<1> QED
  BY <1>8, <1>12, <1>13, <1>14
-----------------------------------------------------------------------------
(* The ring *)

\* The j-th slot from the cursor of the chip on; the slots it will play a frame from.
Slot(j) == (playCursor + j) % RING
Audible(s) == s \notin stale /\ ring[s] # Silence

\* num numbers the outputs in the slots the chip has not played.
Order(num) ==
  /\ num \in [0..unheard -> Nat] /\ num[0] = due /\ num[unheard] = nPlayed
  /\ \A j \in 0..unheard - 1 :
       IF Audible(Slot(j)) THEN ring[Slot(j)] = Output(num[j]) /\ num[j + 1] = num[j] + 1
                           ELSE num[j + 1] = num[j]

PlayerTypes ==
  /\ isMp3 \in BOOLEAN /\ step \in SrcSteps /\ hFile \in BOOLEAN /\ hasBuf \in BOOLEAN
  /\ sounding \in BOOLEAN /\ lost \in BOOLEAN
  /\ loopAt \in {"load", "pump", "fill", "keys", "gone"}
  /\ playCursor \in Slots /\ writePos \in Slots /\ lPlay \in Slots /\ unheard \in 0..RING

\* What is open; and the loop never fills what is not played yet.
Device ==
  /\ sounding => hasBuf
  /\ hasBuf => hFile
  /\ ~hasBuf => playCursor = 0
  /\ ~hFile => dec = Rewound /\ nPlayed = 0 /\ ~lost
  /\ loopAt = "load" => ~hFile /\ unheard = 0
  /\ loopAt = "fill" => hasBuf /\ (~lost => unheard + Free <= RING)

InOrder ==
  ~lost => /\ nPlayed \in Nat /\ due \in Nat /\ Synced(dec, nPlayed)
           /\ (playCursor + unheard) % RING = writePos
           /\ tone # Silence => tone = Output(due - 1)
           /\ \E num : Order(num)

PlayerInv == PlayerTypes /\ Device /\ InOrder

LEMMA SlotIs ==
  ASSUME playCursor \in Slots, NEW j \in 0..RING
  PROVE  Slot(j) \in Slots /\ Slot(j) = IF playCursor + j < RING THEN playCursor + j ELSE playCursor + j - RING
<1> DEFINE x == playCursor + j
<1>1. x \in Nat /\ x < 2 * RING /\ RING \in Nat \ {0}
  BY PlayerNumbers DEF Slots
<1> HIDE DEF x
<1>2. x % RING = IF x < RING THEN x ELSE x - RING
  BY <1>1, ModOf
<1> QED
  BY <1>1, <1>2 DEF Slot, Slots, x

LEMMA BehindSlot ==
  ASSUME playCursor \in Slots, writePos \in Slots, unheard \in 0..RING,
         (playCursor + unheard) % RING = writePos, NEW j \in 0..RING - 1
  PROVE  Behind(Slot(j)) = IF j < unheard THEN RING + j - unheard ELSE j - unheard
<1> DEFINE s == Slot(j)
           x == s - writePos + RING
<1>1. j \in 0..RING /\ RING \in Nat \ {0} /\ j < RING /\ playCursor \in 0..RING - 1 /\ writePos \in 0..RING - 1
  BY PlayerNumbers DEF Slots
<1>2. s \in 0..RING - 1 /\ s = IF playCursor + j < RING THEN playCursor + j ELSE playCursor + j - RING
  BY <1>1, SlotIs DEF Slots
<1>3. writePos = IF playCursor + unheard < RING THEN playCursor + unheard ELSE playCursor + unheard - RING
  <2>1. Slot(unheard) = writePos
    BY DEF Slot
  <2> QED
    BY <2>1, SlotIs
<1> HIDE DEF s
<1>4. x \in Nat /\ x < 2 * RING
  BY <1>1, <1>2
<1>5. (IF x < RING THEN x ELSE x - RING) = (IF j < unheard THEN RING + j - unheard ELSE j - unheard)
  <2>1. CASE playCursor + j < RING
    BY <1>1, <1>2, <1>3, <2>1
  <2>2. CASE ~(playCursor + j < RING)
    BY <1>1, <1>2, <1>3, <2>2
  <2> QED
    BY <2>1, <2>2
<1> HIDE DEF x
<1>6. x % RING = IF x < RING THEN x ELSE x - RING
  BY <1>1, <1>4, ModOf
<1> QED
  BY <1>5, <1>6 DEF Behind, s, x

LEMMA OutputStays ==
  ASSUME step' = step, NEW cnt PROVE Output(cnt)' = Output(cnt)
BY DEF Output

LEMMA SyncedStays ==
  ASSUME isMp3' = isMp3, step' = step, NEW d, NEW cnt, Synced(d, cnt), dec' = d, nPlayed' = cnt
  PROVE  Synced(dec, nPlayed)'
<1>1. File' = File /\ AllUnits' = AllUnits
  BY DEF File, AllUnits
<1>2. ASSUME NEW t PROVE Upto(t)' = Upto(t)
  BY DEF Upto
<1>3. Buffered(d)'
  BY <1>1, <1>2 DEF Synced, Buffered
<1>4. At(d)' = At(d)
  BY <1>2 DEF At
<1>5. Between(d, cnt)' <=> Between(d, cnt)
  BY <1>4 DEF Between
<1>6. Synced(d, cnt)'
  BY <1>3, <1>4, <1>5 DEF Synced
<1> QED
  BY <1>6 DEF Synced, Buffered, Between, At

LEMMA FilledInOrder ==
  ASSUME PlayerTypes, ~lost, nPlayed \in Nat, (playCursor + unheard) % RING = writePos,
         NEW num, Order(num), NEW cnt \in Nat, unheard + cnt <= RING,
         NEW out \in Seq(Sounds), Len(out) <= cnt,
         \A i \in 1..Len(out) : out[i] = Output(nPlayed + i - 1),
         Filled(cnt, out), playCursor' = playCursor, due' = due, step' = step
  PROVE  /\ unheard' = unheard + cnt /\ nPlayed' = nPlayed + Len(out)
         /\ \E m : Order(m)'
<1> DEFINE l == Len(out)
           u == unheard
           m0 == [j \in 0..u + cnt |-> IF j <= u THEN num[j] ELSE nPlayed + (IF j - u <= l THEN j - u ELSE l)]
<1>1. l \in Nat /\ l <= cnt /\ u \in Nat /\ u <= RING /\ RING \in Nat /\ playCursor \in Slots /\ writePos \in Slots
  BY PlayerNumbers DEF PlayerTypes
<1>2. u' = u + cnt /\ nPlayed' = nPlayed + l
  BY DEF Filled
<1>3. /\ num \in [0..u -> Nat] /\ num[0] = due /\ num[u] = nPlayed
      /\ \A j \in 0..u - 1 :
           IF Audible(Slot(j)) THEN ring[Slot(j)] = Output(num[j]) /\ num[j + 1] = num[j] + 1
                               ELSE num[j + 1] = num[j]
  BY DEF Order
<1>4. ASSUME NEW j \in 0..u PROVE m0[j] = num[j] /\ num[j] \in Nat
  BY <1>1, <1>3
<1>5. ASSUME NEW b \in 0..cnt PROVE m0[u + b] = nPlayed + (IF b <= l THEN b ELSE l)
  <2>1. u + b \in 0..u + cnt /\ (u + b) - u = b
    BY <1>1
  <2>2. CASE b = 0
    <3>1. m0[u] = num[u] /\ u + b = u
      BY <1>1, <1>4, <2>2
    <3> QED
      BY <1>1, <1>3, <2>2, <3>1
  <2>3. CASE b # 0
    <3>1. ~(u + b <= u)
      BY <1>1, <2>3
    <3> QED
      BY <2>1, <3>1
  <2> QED
    BY <2>2, <2>3
<1>6. m0 \in [0..u + cnt -> Nat]
  <2>1. ASSUME NEW j \in 0..u + cnt PROVE (IF j <= u THEN num[j] ELSE nPlayed + (IF j - u <= l THEN j - u ELSE l)) \in Nat
    <3>1. CASE j <= u
      <4>1. j \in 0..u
        BY <1>1, <2>1, <3>1
      <4> QED
        BY <1>3, <3>1, <4>1
    <3>2. CASE ~(j <= u)
      <4>1. j - u \in Nat /\ l \in Nat
        BY <1>1, <2>1, <3>2
      <4> QED
        BY <3>2, <4>1
    <3> QED
      BY <3>1, <3>2
  <2> QED
    BY <2>1
<1> HIDE DEF m0
<1>10. PICK m : m = m0
  OBVIOUS
<1>11. /\ m \in [0..u + cnt -> Nat] /\ \A j \in 0..u : m[j] = num[j] /\ num[j] \in Nat
       /\ \A b \in 0..cnt : m[u + b] = nPlayed + (IF b <= l THEN b ELSE l)
  BY <1>4, <1>5, <1>6, <1>10
<1>7. m[0] = due' /\ m[u'] = nPlayed'
  <2>1. 0 \in 0..u /\ cnt \in 0..cnt
    BY <1>1
  <2>2. (IF cnt <= l THEN cnt ELSE l) = l
    BY <1>1
  <2>3. m[u + cnt] = nPlayed + l
    BY <1>1, <1>11, <2>1, <2>2
  <2> QED
    BY <1>2, <1>3, <1>11, <2>1, <2>3
<1>8. ASSUME NEW j \in 0..u' - 1
      PROVE  IF Audible(Slot(j))' THEN ring'[Slot(j)'] = Output(m[j])' /\ m[j + 1] = m[j] + 1 ELSE m[j + 1] = m[j]
  <2> DEFINE s == Slot(j)
  <2>1. j \in 0..u + cnt - 1 /\ j \in 0..RING - 1 /\ j \in 0..RING /\ j \in Nat
    BY <1>1, <1>2
  <2>2. s \in Slots /\ Slot(j)' = s
    BY <1>1, <2>1, SlotIs DEF Slot
  <2>3. Behind(s) = IF j < u THEN RING + j - u ELSE j - u
    BY <1>1, <2>1, BehindSlot DEF PlayerTypes
  <2>4. /\ ring'[s] = IF Behind(s) >= cnt THEN ring[s] ELSE IF Behind(s) < l THEN out[Behind(s) + 1] ELSE Silence
        /\ s \in stale' <=> (s \in stale /\ Behind(s) >= cnt)
    BY <2>2 DEF Filled
  <2>5. Audible(Slot(j))' <=> (s \notin stale' /\ ring'[s] # Silence)
    BY <2>2 DEF Audible, Silence
  <2>6. Output(m[j])' = Output(m[j])
    BY OutputStays
  <2> HIDE DEF s
  <2>7. CASE j < u
    <3>1. Behind(s) >= cnt /\ j \in 0..u /\ j + 1 \in 0..u /\ j \in 0..u - 1
      BY <1>1, <2>1, <2>3, <2>7
    <3>2. ring'[s] = ring[s] /\ (s \in stale' <=> s \in stale)
      BY <2>4, <3>1
    <3>3. m[j] = num[j] /\ m[j + 1] = num[j + 1]
      BY <1>11, <3>1
    <3>4. Audible(Slot(j))' <=> Audible(s)
      BY <2>5, <3>2 DEF Audible
    <3> QED
      BY <1>3, <2>2, <2>6, <3>1, <3>2, <3>3, <3>4 DEF s
  <2>8. CASE ~(j < u)
    <3> DEFINE b == j - u
    <3>1. b \in 0..cnt - 1 /\ b \in 0..cnt /\ b + 1 \in 0..cnt /\ u + b = j /\ u + (b + 1) = j + 1 /\ ~(b >= cnt) /\ b \in Nat
      BY <1>1, <2>1, <2>8
    <3>2. Behind(s) = b
      BY <2>3, <2>8
    <3>3. m[j] = nPlayed + (IF b <= l THEN b ELSE l) /\ m[j + 1] = nPlayed + (IF b + 1 <= l THEN b + 1 ELSE l)
      <4> HIDE DEF b
      <4>1. m[u + b] = nPlayed + (IF b <= l THEN b ELSE l)
        BY <1>11, <3>1
      <4>2. m[u + (b + 1)] = nPlayed + (IF b + 1 <= l THEN b + 1 ELSE l)
        BY <1>11, <3>1
      <4> QED
        BY <3>1, <4>1, <4>2
    <3> HIDE DEF b
    <3>4. s \notin stale' /\ ring'[s] = IF b < l THEN out[b + 1] ELSE Silence
      BY <2>4, <3>1, <3>2
    <3>5. CASE b < l
      <4>1. b + 1 \in 1..l /\ nPlayed + (b + 1) - 1 = nPlayed + b
        BY <1>1, <3>1, <3>5
      <4>2. out[b + 1] = Output(nPlayed + b)
        BY <4>1
      <4>3. m[j] = nPlayed + b /\ m[j + 1] = nPlayed + b + 1
        BY <1>1, <3>1, <3>3, <3>5
      <4>4. Output(nPlayed + b) # Silence
        BY <3>1, OutputSounds DEF PlayerTypes
      <4>5. ring'[s] = Output(m[j]) /\ ring'[s] # Silence
        BY <3>4, <3>5, <4>2, <4>3, <4>4
      <4> QED
        BY <2>2, <2>5, <2>6, <3>4, <4>3, <4>5
    <3>6. CASE ~(b < l)
      <4>1. m[j + 1] = m[j]
        <5>1. b \in Nat /\ l \in Nat /\ b <= cnt
          BY <1>1, <3>1
        <5>2. (IF b + 1 <= l THEN b + 1 ELSE l) = l /\ (IF b <= l THEN b ELSE l) = l
          BY <3>6, <5>1
        <5> QED
          BY <3>3, <5>2
      <4> QED
        BY <2>5, <3>4, <3>6, <4>1
    <3> QED
      BY <3>5, <3>6
  <2> QED
    BY <2>7, <2>8
<1>9. Order(m)'
  BY <1>2, <1>11, <1>7, <1>8 DEF Order
<1> QED
  BY <1>2, <1>9

\* A slot is played.
LEMMA PlayedInOrder ==
  ASSUME PlayerTypes, ~lost, due \in Nat, nPlayed \in Nat, (playCursor + unheard) % RING = writePos,
         NEW num, Order(num), unheard # 0, Card
  PROVE  /\ due' \in Nat /\ (playCursor' + unheard') % RING = writePos'
         /\ tone' # Silence => tone' = Output(due - 1)'
         /\ \E m : Order(m)'
<1> DEFINE u == unheard
           m0 == [j \in 0..u - 1 |-> num[j + 1]]
<1>1. u \in Nat /\ u >= 1 /\ u <= RING /\ RING \in Nat /\ playCursor \in Slots /\ playCursor \in 0..RING - 1 /\ writePos \in Slots
  BY PlayerNumbers DEF PlayerTypes, Slots
<1>2. /\ playCursor' = (playCursor + 1) % RING /\ unheard' = u - 1
      /\ tone' = (IF playCursor \in stale THEN Silence ELSE ring[playCursor])
      /\ due' = due + (IF tone' = Silence THEN 0 ELSE 1)
      /\ stale' = stale /\ nPlayed' = nPlayed /\ ring' = ring /\ step' = step /\ writePos' = writePos
  BY DEF Card, track
<1>3. /\ num \in [0..u -> Nat] /\ num[0] = due /\ num[u] = nPlayed
      /\ \A j \in 0..u - 1 :
           IF Audible(Slot(j)) THEN ring[Slot(j)] = Output(num[j]) /\ num[j + 1] = num[j] + 1
                               ELSE num[j + 1] = num[j]
  BY DEF Order
<1>4. Slot(0) = playCursor
  BY <1>1, SlotIs
<1>5. /\ playCursor' \in 0..RING - 1
      /\ playCursor' = IF playCursor + 1 < RING THEN playCursor + 1 ELSE playCursor + 1 - RING
  <2>1. playCursor' = Slot(1)
    BY <1>2 DEF Slot
  <2>2. 1 \in 0..RING
    BY <1>1
  <2> QED
    BY <2>1, <2>2, <1>1, SlotIs DEF Slots
<1>6. ASSUME NEW j \in 0..u - 1 PROVE (playCursor' + j) % RING = Slot(j + 1)
  <2> DEFINE x == playCursor' + j
  <2>1. j + 1 \in 0..RING /\ j \in Nat
    BY <1>1
  <2>2. x \in Nat /\ x < 2 * RING /\ RING \in Nat \ {0}
    BY <1>1, <1>5, <2>1
  <2>3. Slot(j + 1) = IF playCursor + (j + 1) < RING THEN playCursor + (j + 1) ELSE playCursor + (j + 1) - RING
    BY <1>1, <2>1, SlotIs
  <2>4. (IF x < RING THEN x ELSE x - RING) =
        (IF playCursor + (j + 1) < RING THEN playCursor + (j + 1) ELSE playCursor + (j + 1) - RING)
    BY <1>1, <1>5, <2>1
  <2> HIDE DEF x
  <2>5. x % RING = IF x < RING THEN x ELSE x - RING
    BY <2>2, ModOf
  <2> QED
    BY <2>3, <2>4, <2>5 DEF x
<1>7. (playCursor' + unheard') % RING = writePos'
  <2>1. u - 1 \in 0..u - 1 /\ (u - 1) + 1 = u
    BY <1>1
  <2>2. (playCursor' + (u - 1)) % RING = Slot(u)
    BY <1>6, <2>1
  <2> QED
    BY <1>2, <2>2 DEF Slot
<1>8. IF Audible(playCursor) THEN tone' = Output(due) /\ tone' # Silence /\ num[1] = due + 1
                             ELSE tone' = Silence /\ num[1] = due
  <2>1. 0 \in 0..u - 1 /\ 0 + 1 = 1
    BY <1>1
  <2>2. IF Audible(playCursor) THEN ring[playCursor] = Output(due) /\ num[1] = due + 1 ELSE num[1] = due
    BY <1>3, <1>4, <2>1
  <2> QED
    BY <1>2, <2>2 DEF Audible, Silence
<1>9. due' = num[1] /\ due' \in Nat
  BY <1>2, <1>8
<1>10. tone' # Silence => tone' = Output(due - 1)'
  <2> SUFFICES ASSUME tone' # Silence PROVE tone' = Output(due - 1)'
    OBVIOUS
  <2>1. tone' = Output(due) /\ due' = due + 1
    BY <1>8, <1>9
  <2>2. PICK k : k = due
    OBVIOUS
  <2>3. due' - 1 = k
    BY <2>1, <2>2
  <2>4. Output(due - 1)' = Output(due)
    BY <1>2, <2>2, <2>3 DEF Output
  <2> QED
    BY <2>1, <2>4
<1>11. m0 \in [0..u - 1 -> Nat] /\ \A j \in 0..u - 1 : m0[j] = num[j + 1]
  <2>1. \A j \in 0..u - 1 : num[j + 1] \in Nat
    BY <1>1, <1>3
  <2> QED
    BY <2>1
<1> HIDE DEF m0
<1>12. PICK m : m = m0
  OBVIOUS
<1>13. m \in [0..u - 1 -> Nat] /\ \A j \in 0..u - 1 : m[j] = num[j + 1]
  BY <1>11, <1>12
<1>14. m[0] = due' /\ m[unheard'] = nPlayed'
  <2>1. 0 \in 0..u - 1 /\ u - 1 \in 0..u - 1 /\ 0 + 1 = 1 /\ (u - 1) + 1 = u
    BY <1>1
  <2> QED
    BY <1>2, <1>3, <1>9, <1>13, <2>1
<1>15. ASSUME NEW j \in 0..unheard' - 1
       PROVE  IF Audible(Slot(j))' THEN ring'[Slot(j)'] = Output(m[j])' /\ m[j + 1] = m[j] + 1 ELSE m[j + 1] = m[j]
  <2> DEFINE s == Slot(j + 1)
  <2>1. j \in 0..u - 1 /\ j + 1 \in 0..u - 1 /\ j \in Nat
    BY <1>1, <1>2
  <2>2. Slot(j)' = s
    BY <1>6, <2>1 DEF Slot
  <2>3. Audible(Slot(j))' <=> Audible(s)
    BY <1>2, <2>2 DEF Audible, Silence
  <2>4. m[j] = num[j + 1] /\ m[j + 1] = num[(j + 1) + 1]
    BY <1>13, <2>1
  <2>5. Output(m[j])' = Output(m[j])
    BY <1>2, OutputStays
  <2>6. IF Audible(s) THEN ring[s] = Output(num[j + 1]) /\ num[(j + 1) + 1] = num[j + 1] + 1
                      ELSE num[(j + 1) + 1] = num[j + 1]
    BY <1>3, <2>1
  <2> HIDE DEF s
  <2> QED
    BY <1>2, <2>2, <2>3, <2>4, <2>5, <2>6
<1>16. Order(m)'
  BY <1>2, <1>13, <1>14, <1>15 DEF Order
<1> QED
  BY <1>7, <1>9, <1>10, <1>16

LEMMA RewoundSynced ==
  ASSUME isMp3 \in BOOLEAN
  PROVE  Synced(Rewound, 0)
<1>1. Len(File) \in Nat /\ AllUnits \in Nat /\ Upto(0) = 0
  BY FileIs
<1>2. /\ Rewound \in Decoders /\ Rewound.pos = 0 /\ Rewound.streamPos = 0 /\ Rewound.sbuf = <<>> /\ Rewound.pcm = <<>>
      /\ ~Rewound.primed /\ ~Rewound.srcEof /\ Len(<<>>) = 0
  BY DEF Rewound, Decoders
<1>3. At(Rewound) = 0
  BY <1>1, <1>2 DEF At
<1>4. Buffered(Rewound)
  <2>1. Len(Rewound.sbuf) = 0 /\ Len(Rewound.pcm) = 0
    BY <1>2
  <2>2. Upto(Rewound.streamPos) = 0 /\ 1..0 = {}
    BY <1>1, <1>2
  <2> QED
    <3> DEFINE d == Rewound
    <3>1. d \in Decoders /\ d.pos <= Len(File) /\ Len(d.sbuf) <= SBUF /\ Len(d.sbuf) <= d.pos
      BY <1>1, <1>2, <2>1, PlayerNumbers
    <3>2. d.streamPos = d.pos - Len(d.sbuf) /\ d.streamPos <= AllUnits /\ Len(d.pcm) <= Upto(d.streamPos)
      <4>1. d.streamPos = 0 /\ d.pos = 0 /\ Len(d.sbuf) = 0 /\ Len(d.pcm) = 0 /\ Upto(d.streamPos) = 0
        BY <1>2, <2>1, <2>2
      <4> HIDE DEF d
      <4> QED
        BY <1>1, <4>1
    <3>3. \A i \in 1..Len(d.sbuf) : d.sbuf[i] = File[d.streamPos + i]
      BY <2>1, <2>2
    <3>4. \A i \in 1..Len(d.pcm) : d.pcm[i] = Upto(d.streamPos) - Len(d.pcm) + i
      BY <2>1, <2>2
    <3> HIDE DEF d
    <3> QED
      BY <3>1, <3>2, <3>3, <3>4 DEF Buffered, d
<1> QED
  BY <1>2, <1>3, <1>4 DEF Synced

\* A Stop, or the start: nothing of this track is in the ring.
LEMMA StopInOrder ==
  ASSUME PlayerInv, Stop, step' = step, isMp3' = isMp3
  PROVE  InOrder' /\ playCursor' = 0 /\ unheard' = RING /\ ~lost'
         /\ dec' = Rewound /\ nPlayed' = 0
<1>1. /\ writePos' = 0 /\ playCursor' = 0 /\ dec' = Rewound /\ nPlayed' = 0
      /\ tone' = Silence /\ due' = 0 /\ unheard' = RING /\ stale' = Slots /\ ~lost'
  BY DEF Stop, PlayerInv, Device
<1>2. Synced(dec, nPlayed)'
  <2>1. PICK d : d = Rewound
    OBVIOUS
  <2>2. Synced(d, 0) /\ dec' = d
    BY <1>1, <2>1, RewoundSynced DEF PlayerInv, PlayerTypes
  <2> QED
    BY <1>1, <2>2, SyncedStays
<1>3. RING \in Nat /\ RING > 0
  BY PlayerNumbers
<1>4. (playCursor' + unheard') % RING = writePos'
  <2>1. (0 + RING) % RING = 0
    BY <1>3
  <2> QED
    BY <1>1, <2>1
<1>5. Order([j \in 0..RING |-> 0])'
  <2> DEFINE m == [j \in 0..RING |-> 0]
  <2>1. m \in [0..RING -> Nat] /\ \A j \in 0..RING : m[j] = 0
    OBVIOUS
  <2> HIDE DEF m
  <2>2. m[0] = 0 /\ m[RING] = 0
    BY <1>3, <2>1
  <2>3. ASSUME NEW j \in 0..RING - 1 PROVE ~Audible(Slot(j))' /\ m[j + 1] = m[j]
    <3>1. j \in Nat /\ j \in 0..RING /\ j + 1 \in 0..RING
      BY <1>3
    <3>2. Slot(j)' = (0 + j) % RING
      BY <1>1 DEF Slot
    <3>3. (0 + j) % RING \in 0..RING - 1
      BY <1>3, <3>1
    <3>4. Slot(j)' \in stale'
      BY <1>1, <3>2, <3>3 DEF Slots
    <3> QED
      BY <2>1, <3>1, <3>4 DEF Audible
  <2>4. Order(m)'
    BY <1>1, <2>1, <2>2, <2>3 DEF Order
  <2> QED
    BY <2>4 DEF m
<1>6. InOrder'
  <2>1. nPlayed' \in Nat /\ due' \in Nat
    BY <1>1
  <2>2. tone' = Silence
    BY <1>1
  <2> QED
    BY <1>2, <1>4, <1>5, <2>1, <2>2 DEF InOrder, Silence
<1> QED
  BY <1>1, <1>6 DEF Stop

\* What the ring and the decoder do not take part in.
LEMMA InOrderStays ==
  ASSUME InOrder, isMp3' = isMp3, step' = step, dec' = dec, nPlayed' = nPlayed, ring' = ring,
         writePos' = writePos, playCursor' = playCursor, UNCHANGED playerHistory
  PROVE  InOrder'
<1>1. tone' = tone /\ due' = due /\ unheard' = unheard /\ stale' = stale /\ lost' = lost
  BY DEF playerHistory
<1> SUFFICES ASSUME ~lost PROVE InOrder'
  BY <1>1 DEF InOrder
<1>2. /\ nPlayed \in Nat /\ due \in Nat /\ Synced(dec, nPlayed) /\ (playCursor + unheard) % RING = writePos
      /\ tone # Silence => tone = Output(due - 1)
      /\ \E num : Order(num)
  BY DEF InOrder
<1>3. Synced(dec, nPlayed)'
  <2>1. PICK d, cnt : d = dec /\ cnt = nPlayed
    OBVIOUS
  <2>2. Synced(d, cnt) /\ dec' = d /\ nPlayed' = cnt
    BY <1>2, <2>1
  <2> QED
    BY <2>2, SyncedStays
<1>4. \E num : Order(num)'
  <2>1. PICK num : Order(num)
    BY <1>2
  <2>2. ASSUME NEW j PROVE Slot(j)' = Slot(j) /\ (Audible(Slot(j))' <=> Audible(Slot(j))) /\ Output(num[j])' = Output(num[j])
    BY <1>1 DEF Slot, Audible, Output, Silence
  <2>3. Order(num)'
    BY <1>1, <2>1, <2>2 DEF Order
  <2> QED
    BY <2>3
<1>5. tone' # Silence => tone' = Output(due - 1)'
  BY <1>1, <1>2 DEF Output, Silence
<1> QED
  BY <1>1, <1>2, <1>3, <1>4, <1>5 DEF InOrder
-----------------------------------------------------------------------------
(* The steps *)

LEMMA FreeIs ==
  ASSUME PlayerTypes
  PROVE  Free \in Nat /\ Free - (Free % ALIGN) \in Nat /\ Free - (Free % ALIGN) <= Free
<1>1. RING \in Nat /\ ALIGN \in Nat /\ ALIGN > 0 /\ lPlay \in 0..RING - 1 /\ writePos \in 0..RING - 1
  BY PlayerNumbers DEF PlayerTypes, Slots
<1>2. Free \in Nat
  BY <1>1 DEF Free
<1>3. ASSUME NEW x \in Nat PROVE x - (x % ALIGN) \in Nat /\ x - (x % ALIGN) <= x
  BY <1>1
<1> QED
  BY <1>2, <1>3

LEMMA WritePosStays ==
  ASSUME writePos \in Slots, NEW cnt \in Nat
  PROVE  (writePos + cnt) % RING \in Slots
<1>1. writePos + cnt \in Nat /\ RING \in Nat \ {0}
  BY PlayerNumbers DEF Slots
<1> QED
  BY <1>1 DEF Slots

\* More of the track, or silence, goes into the ring.
LEMMA WrittenInOrder ==
  ASSUME PlayerInv, ~lost, NEW cnt \in Nat, unheard + cnt <= RING,
         NEW d, NEW o \in Seq(Sounds), Len(o) <= cnt, Synced(d, nPlayed + Len(o)),
         \A i \in 1..Len(o) : o[i] = Output(nPlayed + i - 1),
         dec' = d, Filled(cnt, o),
         UNCHANGED <<isMp3, step, playCursor, due, tone, lost>>,
         writePos' = (writePos + cnt) % RING
  PROVE  InOrder' /\ unheard' = unheard + cnt
<1>1. /\ nPlayed \in Nat /\ due \in Nat /\ (playCursor + unheard) % RING = writePos
      /\ tone # Silence => tone = Output(due - 1)
  BY DEF PlayerInv, InOrder
<1>2. PICK num : Order(num)
  BY DEF PlayerInv, InOrder
<1>3. unheard' = unheard + cnt /\ nPlayed' = nPlayed + Len(o) /\ \E m : Order(m)'
  BY <1>1, <1>2, FilledInOrder DEF PlayerInv
<1>4. Synced(dec, nPlayed)'
  <2>1. PICK k : k = nPlayed + Len(o)
    OBVIOUS
  <2>2. Synced(d, k) /\ nPlayed' = k
    BY <1>3, <2>1
  <2> QED
    BY <2>2, SyncedStays
<1>5. (playCursor' + unheard') % RING = writePos'
  <2> DEFINE x == playCursor + unheard
  <2>1. x \in Nat /\ RING \in Nat \ {0}
    BY PlayerNumbers DEF PlayerInv, PlayerTypes, Slots
  <2>2. playCursor' + unheard' = x + cnt
    BY <1>3, PlayerNumbers DEF PlayerInv, PlayerTypes, Slots
  <2> HIDE DEF x
  <2>3. (x + cnt) % RING = ((x % RING) + cnt) % RING
    BY <2>1, ModPlus
  <2> QED
    BY <1>1, <2>2, <2>3 DEF x
<1>6. tone' # Silence => tone' = Output(due - 1)'
  BY <1>1 DEF Output, Silence
<1>7. nPlayed' \in Nat /\ due' \in Nat
  BY <1>1, <1>3
<1> QED
  BY <1>3, <1>4, <1>5, <1>6, <1>7 DEF InOrder

LEMMA DecodedInOrder ==
  ASSUME PlayerInv, ~lost, NEW cnt \in Nat, unheard + cnt <= RING,
         dec' = Decode(cnt).d, Filled(cnt, Decode(cnt).out),
         UNCHANGED <<isMp3, step, playCursor, due, tone, lost>>,
         writePos' = (writePos + cnt) % RING
  PROVE  InOrder' /\ unheard' = unheard + cnt
<1>1. nPlayed \in Nat /\ Synced(dec, nPlayed) /\ isMp3 \in BOOLEAN /\ step \in SrcSteps
  BY DEF PlayerInv, InOrder, PlayerTypes
<1>2. PICK r : r = Decode(cnt)
  OBVIOUS
<1>3. Plays(r, nPlayed) /\ Synced(r.d, nPlayed + Len(r.out)) /\ Len(r.out) <= cnt
  BY <1>1, <1>2, DecodePlays
<1>4. dec' = r.d /\ Filled(cnt, r.out)
  BY <1>2
<1>5. r.out \in Seq(Sounds) /\ \A i \in 1..Len(r.out) : r.out[i] = Output(nPlayed + i - 1)
  BY <1>3 DEF Plays
<1> QED
  BY <1>3, <1>4, <1>5, WrittenInOrder

LEMMA SilenceInOrder ==
  ASSUME PlayerInv, ~lost, NEW cnt \in Nat, unheard + cnt <= RING, dec' = dec, Filled(cnt, <<>>),
         UNCHANGED <<isMp3, step, playCursor, due, tone, lost>>,
         writePos' = (writePos + cnt) % RING
  PROVE  InOrder' /\ unheard' = unheard + cnt
<1>1. nPlayed \in Nat /\ Synced(dec, nPlayed)
  BY DEF PlayerInv, InOrder
<1>2. PICK d, o : d = dec /\ o = <<>>
  OBVIOUS
<1>3. o \in Seq(Sounds) /\ Len(o) = 0 /\ Filled(cnt, o) /\ dec' = d
  BY <1>2
<1>4. Synced(d, nPlayed + Len(o)) /\ Len(o) <= cnt
  <2>1. nPlayed + 0 = nPlayed
    BY <1>1
  <2> QED
    BY <1>1, <1>2, <1>3, <2>1
<1>5. \A i \in 1..Len(o) : o[i] = Output(nPlayed + i - 1)
  BY <1>3
<1> QED
  BY <1>3, <1>4, <1>5, WrittenInOrder

LEMMA PlayerInitInv == PlayerInit => PlayerInv
<1> SUFFICES ASSUME PlayerInit PROVE PlayerInv
  OBVIOUS
<1>1. RING \in Nat /\ RING > 0 /\ 0 \in Slots
  BY PlayerNumbers DEF Slots
<1>2. PlayerTypes
  <2>1. 0 \in 0..RING
    BY <1>1
  <2> QED
    BY <1>1, <2>1 DEF PlayerInit, PlayerTypes
<1>3. Device
  BY DEF PlayerInit, Device
<1>4. Order([j \in 0..0 |-> 0])
  BY DEF PlayerInit, Order
<1>5. Synced(dec, nPlayed)
  BY RewoundSynced DEF PlayerInit
<1>6. (playCursor + unheard) % RING = writePos
  BY <1>1 DEF PlayerInit
<1>7. InOrder
  BY <1>4, <1>5, <1>6 DEF PlayerInit, InOrder
<1> QED
  BY <1>2, <1>3, <1>7 DEF PlayerInv

LEMMA LoadFileInv == ASSUME PlayerInv, LoadFile PROVE PlayerInv'
<1>1. /\ loopAt = "load" /\ loopAt' = "pump" /\ UNCHANGED <<isMp3, step, nEof, writePos, playCursor, lPlay, tone, due, lost>>
      /\ ~hFile /\ unheard = 0 /\ ~lost /\ PlayerTypes /\ Device /\ InOrder
  BY DEF LoadFile, PlayerInv, Device
<1>2. CASE UNCHANGED <<hasBuf, dec, playing, nPlayed, ring, sounding, unheard, stale>> /\ hFile' \in BOOLEAN /\ (hFile => hFile')
  <2>1. InOrder'
    BY <1>1, <1>2, InOrderStays DEF playerHistory
  <2>2. PlayerTypes'
    BY <1>1, <1>2 DEF PlayerTypes, Slots
  <2>3. Device'
    BY <1>1, <1>2 DEF Device, Rewound
  <2> QED
    BY <2>1, <2>2, <2>3 DEF PlayerInv
<1>3. CASE hFile' = TRUE /\ hasBuf' = TRUE /\ playing' = TRUE /\ sounding' = TRUE /\ Prime
  <2>1. RING \in Nat /\ RING > 0
    BY PlayerNumbers
  <2>2. writePos' = (writePos + RING) % RING
    <3>1. writePos \in 0..RING - 1 /\ writePos' = writePos
      BY <1>1 DEF PlayerTypes, Slots
    <3>2. (writePos + RING) % RING = writePos
      BY <2>1, <3>1
    <3> QED
      BY <3>1, <3>2
  <2>3. InOrder' /\ unheard' = unheard + RING
    BY <1>1, <1>3, <2>1, <2>2, DecodedInOrder DEF Prime
  <2>4. PlayerTypes'
    BY <1>1, <1>3, <2>1, <2>3 DEF PlayerTypes, Slots
  <2>5. Device'
    BY <1>1, <1>3 DEF Device
  <2> QED
    BY <2>3, <2>4, <2>5 DEF PlayerInv
<1> QED
  BY <1>1, <1>2, <1>3 DEF LoadFile, PlayerTypes

LEMMA CardInv == ASSUME PlayerInv, Card PROVE PlayerInv'
<1>1. /\ sounding /\ ~lost /\ playCursor' = (playCursor + 1) % RING
      /\ UNCHANGED <<loopAt, isMp3, step, hFile, hasBuf, dec, playing, nEof, nPlayed, ring, writePos, sounding, lPlay>>
      /\ PlayerTypes /\ Device /\ hasBuf /\ hFile /\ loopAt # "load"
  BY DEF Card, track, PlayerInv, Device
<1>2. playCursor' \in Slots /\ RING \in Nat /\ RING > 0
  <2>1. playCursor \in 0..RING - 1 /\ RING \in Nat /\ RING > 0
    BY <1>1, PlayerNumbers DEF PlayerTypes, Slots
  <2>2. playCursor + 1 \in Nat
    BY <2>1
  <2> QED
    BY <1>1, <2>1, <2>2 DEF Slots
<1>3. Free' = Free
  BY <1>1 DEF Free
<1>4. CASE unheard = 0
  <2>1. lost' = TRUE /\ unheard' = 0
    BY <1>4 DEF Card, Lost
  <2>2. PlayerTypes'
    BY <1>1, <1>2, <2>1 DEF PlayerTypes, Slots
  <2>3. Device'
    BY <1>1, <2>1 DEF Device
  <2>4. InOrder'
    BY <2>1 DEF InOrder
  <2> QED
    BY <2>2, <2>3, <2>4 DEF PlayerInv
<1>5. CASE unheard # 0
  <2>1. unheard' = unheard - 1 /\ lost' = lost
    BY <1>5 DEF Card
  <2>2. unheard \in 1..RING
    BY <1>1, <1>5 DEF PlayerTypes
  <2>3. PlayerTypes'
    BY <1>1, <1>2, <2>1, <2>2 DEF PlayerTypes, Slots
  <2>4. Device'
    <3>1. loopAt = "fill" => unheard + Free <= RING
      BY <1>1 DEF Device
    <3>2. Free \in Nat
      BY <1>1, FreeIs
    <3>3. loopAt' = "fill" => unheard' + Free' <= RING
      BY <1>1, <1>2, <1>3, <2>1, <2>2, <3>1, <3>2
    <3> QED
      BY <1>1, <2>1, <3>3 DEF Device
  <2>5. InOrder'
    <3>1. nPlayed \in Nat /\ due \in Nat /\ Synced(dec, nPlayed) /\ (playCursor + unheard) % RING = writePos
      BY <1>1 DEF PlayerInv, InOrder
    <3>2. PICK num : Order(num)
      BY <1>1 DEF PlayerInv, InOrder
    <3>3. /\ due' \in Nat /\ (playCursor' + unheard') % RING = writePos'
          /\ tone' # Silence => tone' = Output(due - 1)'
          /\ \E m : Order(m)'
      BY <1>1, <1>5, <3>1, <3>2, PlayedInOrder
    <3>4. Synced(dec, nPlayed)'
      <4>1. PICK d, k : d = dec /\ k = nPlayed
        OBVIOUS
      <4>2. Synced(d, k) /\ dec' = d /\ nPlayed' = k
        BY <1>1, <3>1, <4>1
      <4> QED
        BY <1>1, <4>2, SyncedStays
    <3> QED
      BY <1>1, <3>1, <3>3, <3>4 DEF InOrder, Silence
  <2> QED
    BY <2>3, <2>4, <2>5 DEF PlayerInv
<1> QED
  BY <1>4, <1>5

LEMMA PumpPositionInv == ASSUME PlayerInv, PumpPosition PROVE PlayerInv'
<1>1. /\ loopAt = "pump"
      /\ UNCHANGED <<isMp3, step, hFile, hasBuf, dec, playing, nEof, nPlayed, ring, writePos, sounding, playCursor, tone, due, unheard, stale, lost>>
      /\ PlayerTypes /\ Device /\ InOrder
  BY DEF PumpPosition, PlayerInv, track, chip, playerHistory
<1>2. InOrder'
  BY <1>1, InOrderStays DEF playerHistory
<1>3. CASE hasBuf
  <2>1. loopAt' = "fill" /\ lPlay' = playCursor
    BY <1>3 DEF PumpPosition
  <2>2. PlayerTypes'
    BY <1>1, <2>1 DEF PlayerTypes, Slots
  <2>3. ~lost => unheard + Free' <= RING
    <3> SUFFICES ASSUME ~lost PROVE unheard + Free' <= RING
      OBVIOUS
    <3>1. /\ RING \in Nat /\ playCursor \in 0..RING - 1 /\ unheard \in 0..RING
          /\ Slot(unheard) = writePos
      BY <1>1, PlayerNumbers DEF PlayerTypes, Slots, InOrder, Slot
    <3>2. writePos = IF playCursor + unheard < RING THEN playCursor + unheard ELSE playCursor + unheard - RING
      BY <1>1, <3>1, SlotIs DEF PlayerTypes
    <3>3. Free' = IF playCursor >= writePos THEN playCursor - writePos ELSE RING - writePos + playCursor
      BY <1>1, <2>1 DEF Free
    <3> QED
      BY <3>1, <3>2, <3>3
  <2>4. Device'
    BY <1>1, <1>3, <2>1, <2>3 DEF Device, Rewound
  <2> QED
    BY <1>2, <2>2, <2>4 DEF PlayerInv
<1>4. CASE ~hasBuf
  <2>1. loopAt' = "keys" /\ lPlay' = lPlay
    BY <1>4 DEF PumpPosition
  <2>2. PlayerTypes'
    BY <1>1, <2>1 DEF PlayerTypes, Slots
  <2>3. Device'
    BY <1>1, <2>1 DEF Device, Rewound
  <2> QED
    BY <1>2, <2>2, <2>3 DEF PlayerInv
<1> QED
  BY <1>3, <1>4

LEMMA PumpFillInv == ASSUME PlayerInv, PumpFill PROVE PlayerInv'
<1> DEFINE cnt == Free - (Free % ALIGN)
<1>1. /\ loopAt = "fill" /\ loopAt' = "keys" /\ lPlay' = 0
      /\ UNCHANGED <<isMp3, step, hFile, hasBuf, playing, sounding, playCursor, tone, due, lost>>
      /\ PlayerTypes /\ Device /\ InOrder /\ hasBuf /\ hFile
  BY DEF PumpFill, PlayerInv, track, chip, Device
<1>2. cnt \in Nat /\ cnt <= Free /\ Free \in Nat /\ RING \in Nat /\ RING > 0 /\ 0 \in Slots
  BY <1>1, FreeIs, PlayerNumbers DEF Slots
<1>3. \/ UNCHANGED <<dec, nEof, nPlayed, ring, writePos, unheard, stale>>
      \/ dec' = Decode(cnt).d /\ Filled(cnt, Decode(cnt).out) /\ writePos' = (writePos + cnt) % RING
      \/ Filled(cnt, <<>>) /\ dec' = dec /\ writePos' = (writePos + cnt) % RING
  BY DEF PumpFill
<1> HIDE DEF cnt
<1>4. ~lost => unheard + cnt <= RING
  <2>1. ~lost => unheard + Free <= RING
    BY <1>1 DEF Device
  <2>2. unheard \in Nat
    BY <1>1 DEF PlayerTypes
  <2> QED
    BY <1>2, <2>1, <2>2
<1>5. Device'
  BY <1>1 DEF Device
<1>6. ASSUME unheard' \in 0..RING, writePos' \in Slots PROVE PlayerTypes'
  BY <1>1, <1>2, <1>6 DEF PlayerTypes, Slots
<1>7. unheard \in 0..RING /\ writePos \in Slots
  BY <1>1 DEF PlayerTypes
<1>8. CASE UNCHANGED <<dec, nEof, nPlayed, ring, writePos, unheard, stale>>
  <2>1. InOrder'
    BY <1>1, <1>8, InOrderStays DEF playerHistory
  <2>2. PlayerTypes'
    BY <1>6, <1>7, <1>8 DEF Slots
  <2> QED
    BY <1>5, <2>1, <2>2 DEF PlayerInv
<1>9. CASE dec' = Decode(cnt).d /\ Filled(cnt, Decode(cnt).out) /\ writePos' = (writePos + cnt) % RING
  <2>1. writePos' \in Slots
    BY <1>2, <1>7, <1>9, WritePosStays DEF Slots
  <2>2. CASE lost
    <3>1. unheard' = 0
      BY <1>9, <2>2 DEF Filled
    <3>2. PlayerTypes'
      BY <1>2, <1>6, <2>1, <3>1
    <3>3. InOrder'
      BY <1>1, <2>2 DEF InOrder
    <3> QED
      BY <1>5, <3>2, <3>3 DEF PlayerInv
  <2>3. CASE ~lost
    <3>1. InOrder' /\ unheard' = unheard + cnt
      BY <1>1, <1>2, <1>4, <1>9, <2>3, DecodedInOrder
    <3>2. unheard' \in 0..RING
      BY <1>2, <1>4, <1>7, <2>3, <3>1
    <3> QED
      BY <1>5, <1>6, <2>1, <3>1, <3>2 DEF PlayerInv
  <2> QED
    BY <2>2, <2>3
<1>10. CASE Filled(cnt, <<>>) /\ dec' = dec /\ writePos' = (writePos + cnt) % RING
  <2>1. writePos' \in Slots
    BY <1>2, <1>7, <1>10, WritePosStays DEF Slots
  <2>2. CASE lost
    <3>1. unheard' = 0
      BY <1>10, <2>2 DEF Filled
    <3>2. PlayerTypes'
      BY <1>2, <1>6, <2>1, <3>1
    <3>3. InOrder'
      BY <1>1, <2>2 DEF InOrder
    <3> QED
      BY <1>5, <3>2, <3>3 DEF PlayerInv
  <2>3. CASE ~lost
    <3>1. InOrder' /\ unheard' = unheard + cnt
      BY <1>1, <1>2, <1>4, <1>10, <2>3, SilenceInOrder
    <3>2. unheard' \in 0..RING
      BY <1>2, <1>4, <1>7, <2>3, <3>1
    <3> QED
      BY <1>5, <1>6, <2>1, <3>1, <3>2 DEF PlayerInv
  <2> QED
    BY <2>2, <2>3
<1> QED
  BY <1>3, <1>8, <1>9, <1>10

LEMMA KeysInv == ASSUME PlayerInv, Keys PROVE PlayerInv'
<1>1. /\ loopAt = "keys" /\ loopAt' = "pump" /\ UNCHANGED <<isMp3, step, hFile, hasBuf, ring, lPlay>>
      /\ PlayerTypes /\ Device /\ InOrder
  BY DEF Keys, track, PlayerInv
<1>2. CASE PlayOrPause
  <2>1. /\ UNCHANGED <<dec, nEof, nPlayed, writePos, playCursor, playerHistory>>
        /\ sounding' \in BOOLEAN /\ (sounding' => hasBuf)
    BY <1>1, <1>2 DEF PlayOrPause, PlayerTypes, Device
  <2>2. lost' = lost /\ unheard' = unheard
    BY <2>1 DEF playerHistory
  <2>3. InOrder'
    BY <1>1, <2>1, InOrderStays
  <2>4. PlayerTypes'
    BY <1>1, <2>1, <2>2 DEF PlayerTypes, Slots
  <2>5. Device'
    BY <1>1, <2>1, <2>2 DEF Device, Rewound
  <2> QED
    BY <2>3, <2>4, <2>5 DEF PlayerInv
<1>3. CASE Stop
  <2>1. InOrder' /\ playCursor' = 0 /\ unheard' = RING /\ ~lost' /\ dec' = Rewound /\ nPlayed' = 0
    BY <1>1, <1>3, StopInOrder
  <2>2. RING \in Nat /\ RING > 0 /\ 0 \in Slots
    BY PlayerNumbers DEF Slots
  <2>3. sounding' = FALSE /\ writePos' = 0 /\ lost' = FALSE
    BY <1>3 DEF Stop
  <2>4. PlayerTypes'
    <3>1. RING \in 0..RING
      BY <2>2
    <3> QED
      BY <1>1, <2>1, <2>2, <2>3, <3>1 DEF PlayerTypes, Slots
  <2>5. Device'
    BY <1>1, <2>1, <2>3 DEF Device, Rewound
  <2> QED
    BY <2>1, <2>4, <2>5 DEF PlayerInv
<1>4. ASSUME NEW u \in 0..Len(File), SeekFrac(u) PROVE PlayerInv'
  <2>1. /\ hFile /\ lost' = TRUE /\ unheard' = 0 /\ UNCHANGED <<playing, sounding, writePos, playCursor>>
    BY <1>4 DEF SeekFrac, Lost
  <2>2. RING \in Nat /\ 0 \in 0..RING
    BY PlayerNumbers
  <2>3. PlayerTypes'
    BY <1>1, <2>1, <2>2 DEF PlayerTypes, Slots
  <2>4. Device'
    BY <1>1, <2>1 DEF Device
  <2>5. InOrder'
    BY <2>1 DEF InOrder
  <2> QED
    BY <2>3, <2>4, <2>5 DEF PlayerInv
<1>5. CASE UNCHANGED <<dec, playing, nEof, nPlayed, writePos, chip, playerHistory>>
  <2>1. UNCHANGED <<sounding, playCursor, lost, unheard>>
    BY <1>5 DEF chip, playerHistory
  <2>2. InOrder'
    BY <1>1, <1>5, <2>1, InOrderStays
  <2>3. PlayerTypes'
    BY <1>1, <1>5, <2>1 DEF PlayerTypes, Slots
  <2>4. Device'
    BY <1>1, <1>5, <2>1 DEF Device, Rewound
  <2> QED
    BY <2>2, <2>3, <2>4 DEF PlayerInv
<1> QED
  BY <1>2, <1>3, <1>4, <1>5 DEF Keys

LEMMA LeaveInv == ASSUME PlayerInv, Leave PROVE PlayerInv'
<1>1. /\ loopAt' = "gone" /\ Stop /\ hFile' = FALSE /\ hasBuf' = FALSE /\ UNCHANGED <<isMp3, step, ring, lPlay>>
      /\ PlayerTypes
  BY DEF Leave, PlayerInv
<1>2. InOrder' /\ playCursor' = 0 /\ unheard' = RING /\ ~lost' /\ dec' = Rewound /\ nPlayed' = 0
  BY <1>1, StopInOrder
<1>3. RING \in Nat /\ RING > 0 /\ 0 \in Slots /\ RING \in 0..RING
  BY PlayerNumbers DEF Slots
<1>4. sounding' = FALSE /\ writePos' = 0 /\ lost' = FALSE
  BY <1>1 DEF Stop
<1>5. PlayerTypes'
  BY <1>1, <1>2, <1>3, <1>4 DEF PlayerTypes, Slots
<1>6. Device'
  BY <1>1, <1>2, <1>4 DEF Device, Rewound
<1> QED
  BY <1>2, <1>5, <1>6 DEF PlayerInv

LEMMA PlayerNextInv == PlayerInv /\ [PlayerNext]_playerVars => PlayerInv'
<1> SUFFICES ASSUME PlayerInv, [PlayerNext]_playerVars PROVE PlayerInv'
  OBVIOUS
<1>1. CASE LoadFile
  BY <1>1, LoadFileInv
<1>2. CASE Card
  BY <1>2, CardInv
<1>3. CASE PumpPosition
  BY <1>3, PumpPositionInv
<1>4. CASE PumpFill
  BY <1>4, PumpFillInv
<1>5. CASE Keys
  BY <1>5, KeysInv
<1>6. CASE Leave
  BY <1>6, LeaveInv
<1>7. CASE UNCHANGED playerVars
  <2>1. /\ UNCHANGED <<loopAt, isMp3, step, hFile, hasBuf, dec, nPlayed, ring, writePos, sounding, playCursor, lPlay>>
        /\ UNCHANGED playerHistory /\ PlayerTypes /\ Device /\ InOrder
    BY <1>7 DEF playerVars, track, chip, PlayerInv
  <2>2. lost' = lost /\ unheard' = unheard
    BY <2>1 DEF playerHistory
  <2>3. InOrder'
    BY <2>1, InOrderStays
  <2>4. PlayerTypes'
    BY <2>1, <2>2 DEF PlayerTypes, Slots
  <2>5. Device'
    BY <2>1, <2>2 DEF Device, Rewound, Free
  <2> QED
    BY <2>3, <2>4, <2>5 DEF PlayerInv
<1> QED
  BY <1>1, <1>2, <1>3, <1>4, <1>5, <1>6, <1>7 DEF PlayerNext

LEMMA InOrderIsHeard == PlayerInv => HeardInOrder
<1> SUFFICES ASSUME PlayerInv, ~lost PROVE HeardInOrder
  BY DEF HeardInOrder
<1>1. nPlayed \in Nat /\ due \in Nat /\ (tone # Silence => tone = Output(due - 1)) /\ unheard \in 0..RING
  BY DEF PlayerInv, PlayerTypes, InOrder
<1>2. PICK num : Order(num)
  BY DEF PlayerInv, InOrder
<1> DEFINE T == {k \in 0..unheard : num[0] <= num[k] /\ num[k] <= num[0] + k}
<1>3. /\ num \in [0..unheard -> Nat] /\ num[0] = due /\ num[unheard] = nPlayed /\ unheard \in Nat
      /\ \A j \in 0..unheard - 1 : num[j + 1] = num[j] + 1 \/ num[j + 1] = num[j]
  BY <1>1, <1>2 DEF Order
<1>4. 0 \in T
  BY <1>1, <1>3
<1>5. ASSUME NEW k \in 0..unheard - 1, k \in T PROVE k + 1 \in T
  <2>1. k \in 0..unheard /\ k + 1 \in 0..unheard /\ num[k] \in Nat /\ num[k + 1] \in Nat /\ num[0] \in Nat /\ k \in Nat
    BY <1>3, <1>5
  <2>2. num[k + 1] = num[k] + 1 \/ num[k + 1] = num[k]
    BY <1>3
  <2>3. num[0] <= num[k + 1] /\ num[k + 1] <= num[0] + (k + 1)
    BY <1>5, <2>1, <2>2
  <2> QED
    BY <2>1, <2>3
<1>6. unheard \in T
  <2> HIDE DEF T
  <2>1. \A k \in 0..unheard : k \in T
    BY <1>3, <1>4, <1>5, Upwards
  <2> QED
    BY <1>3, <2>1
<1>7. RING \in Nat
  BY PlayerNumbers
<1>8. due <= nPlayed /\ nPlayed <= due + RING
  BY <1>1, <1>3, <1>6, <1>7
<1> QED
  BY <1>1, <1>8 DEF HeardInOrder

\* What the player keeps: the buffers hold the next part of the file, the resampler stands where
\* nPlayed outputs leave it, and the slots the chip has not played hold the outputs in between.
THEOREM PlayerInvariant == PlayerSpec => []PlayerInv
<1>1. PlayerInit => PlayerInv
  BY PlayerInitInv
<1>2. PlayerInv /\ [PlayerNext]_playerVars => PlayerInv'
  BY PlayerNextInv
<1> QED
  BY <1>1, <1>2, PTL DEF PlayerSpec

\* The audio player (dcwplay.c): the sound chip plays the track in order, with nothing lost or
\* played twice, and the time shown is at most a ring ahead of it.
THEOREM TrackHeardInOrder == PlayerSpec => []HeardInOrder
BY PlayerInvariant, InOrderIsHeard, PTL
=============================================================================
