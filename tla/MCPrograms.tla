----------------------------- MODULE MCPrograms -----------------------------
(***************************************************************************)
(* A DCWin program and the shell: its frames, its keys, its messages and   *)
(* the size it draws for, and the network tester.  The five use different  *)
(* fields of the shared section and different variables of a program, and  *)
(* none waits for another, so a behaviour follows one of them and leaves   *)
(* the others as they began.                                               *)
(***************************************************************************)
EXTENDS FrameLock, KeyRing, Mailbox, WinResize, NetTester

VARIABLE part     \* the one that is followed

ProgramsInit ==
  /\ part \in {"frames", "keys", "mail", "size", "net"}
  /\ FrameInit /\ RingInit /\ MailInit /\ ResizeInit /\ NetInit
  /\ part = "net" \/ ~useDial
  /\ part = "size" \/ (dim = (CHOOSE s \in Sizes : TRUE) /\ loop = (CHOOSE l \in Loops : TRUE))

ProgramsNext ==
  \/ part = "frames" /\ FrameNext /\ UNCHANGED <<ringVars, mailVars, resizeVars, netVars, part>>
  \/ part = "keys" /\ RingNext /\ UNCHANGED <<frameVars, mailVars, resizeVars, netVars, part>>
  \/ part = "mail" /\ MailNext /\ UNCHANGED <<frameVars, ringVars, resizeVars, netVars, part>>
  \/ part = "size" /\ ResizeNext /\ UNCHANGED <<frameVars, ringVars, mailVars, netVars, part>>
  \/ part = "net" /\ NetNext /\ UNCHANGED <<frameVars, ringVars, mailVars, resizeVars, part>>

\* The fairness of FrameLock, KeyRing, Mailbox, WinResize and NetTester.
ProgramsSpec ==
  /\ ProgramsInit /\ [][ProgramsNext]_<<frameVars, ringVars, mailVars, resizeVars, netVars, part>>
  /\ WF_frameVars(part = "frames" /\ ShellNext) /\ SF_frameVars(part = "frames" /\ FinishFrame)
  /\ WF_ringVars(part = "keys" /\ PollKey)
  /\ WF_mailVars(part = "mail" /\ Take)
  /\ \A w \in Writers : WF_mailVars(part = "mail" /\ Post(w))
  /\ WF_resizeVars(part = "size" /\ RedrawLoop)
  /\ WF_netVars(part = "net" /\ Loop)
=============================================================================
