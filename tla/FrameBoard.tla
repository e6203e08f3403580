----------------------------- MODULE FrameBoard -----------------------------
(***************************************************************************)
(* What DCWin promises about the pictures in a window: a client publishes  *)
(* whole frames, and what the shell composites is a whole frame that was   *)
(* current when the shell latched it, or nothing at all.  FrameLock, the   *)
(* sequence lock of dcwlib.c and dcshell.c, implements this module.        *)
(***************************************************************************)
EXTENDS Naturals, Sequences

CONSTANTS Cmd,      \* the draw commands a client can put in a frame
          MAXCMD    \* DCWIN_MAXCMD, the most commands of one frame

VARIABLES front,    \* the frame the client published last
          latched,  \* the frame the shell took from the shared section
          drawn     \* the frame on the screen

vars == <<front, latched, drawn>>

Frames == {f \in Seq(Cmd) : Len(f) <= MAXCMD}

Init == front = <<>> /\ latched = <<>> /\ drawn = <<>>

\* The client replaces its picture by another complete one.
Publish == /\ front' \in Frames
           /\ UNCHANGED <<latched, drawn>>

\* The shell takes the current frame, or gives up and takes the empty one.
Latch == /\ latched' \in {front, <<>>}
         /\ UNCHANGED <<front, drawn>>

\* The scene is rebuilt from the latched frame, or without the window.
Present == /\ drawn' \in {latched, <<>>}
           /\ UNCHANGED <<front, latched>>

Next == Publish \/ Latch \/ Present

Spec == Init /\ [][Next]_vars
=============================================================================
