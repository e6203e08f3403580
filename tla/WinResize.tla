------------------------------ MODULE WinResize ------------------------------
(***************************************************************************)
(* A program that learns of a new size of its window.  The shell stores    *)
(* the size; the library compares it with the size it handed out last      *)
(* (DCWinClientSize, DCWinResized, dcwlib.c), and the loop of the program  *)
(* draws again when one of the two reports a change.  The programs call    *)
(* them in three ways, and a behaviour follows one.  It begins with the    *)
(* first frame on the screen.                                              *)
(***************************************************************************)
EXTENDS Naturals

CONSTANTS
  Sizes,        \* the sizes a window can have
  Loops,        \* "report" (dcwmem, dcwtask, dcwnet): redraws on the result of ClientSize
                \* "ask" (dcwcalc, dcwclock): redraws on that of Resized, and reads in Draw
                \* "both" (dcwlog): reads, drops the result, redraws on that of Resized
                \* "hover" (dcwexp): as "ask", but reads first while the pointer is over it
  MaxResizes    \* bound: the shell resizes the window that often

ASSUME ResizeAssumption ==
  Loops \subseteq {"report", "ask", "both", "hover"} /\ MaxResizes \in Nat

VARIABLES
  dim,        \* w and h of the slot
  lastSize,   \* lastW, lastH of the library
  client,     \* nCw, nCh of the program
  redraw,     \* its nChanged
  phase,      \* where its loop is
  frameSize,  \* the size its last frame was drawn for
  loop,       \* which of the loops it is
  resizes     \* history: counter of the bound

resizeVars == <<dim, lastSize, client, redraw, phase, frameSize, loop, resizes>>

ResizeInit ==
  /\ dim \in Sizes /\ loop \in Loops
  /\ lastSize = dim /\ client = dim /\ frameSize = dim
  /\ redraw = FALSE /\ phase = "top" /\ resizes = 0

\* A drag of the corner, or the maximize box.
Resize ==
  /\ resizes < MaxResizes
  /\ dim' \in Sizes \ {dim}
  /\ resizes' = resizes + 1
  /\ UNCHANGED <<lastSize, client, redraw, phase, frameSize, loop>>

\* DCWinClientSize: what it reports, and what it does.
Changed == dim # lastSize
Consume == lastSize' = dim

\* The top of the loop, where a key or a clock may ask for a frame as well.
Top ==
  /\ phase = "top" /\ phase' = IF loop = "report" THEN "frame" ELSE "ask"
  /\ \E other \in BOOLEAN :
       redraw' = (other \/ (loop = "report" /\ Changed))
  /\ \/ loop # "ask" /\ Consume /\ client' = dim
     \/ loop \in {"ask", "hover"} /\ UNCHANGED <<lastSize, client>>
  /\ UNCHANGED <<dim, frameSize, loop, resizes>>

\* DCWinResized, which is a call of DCWinClientSize.
AskResized ==
  /\ phase = "ask" /\ phase' = IF loop = "both" THEN "frame" ELSE "read"
  /\ redraw' = (redraw \/ Changed) /\ Consume
  /\ UNCHANGED <<dim, client, frameSize, loop, resizes>>

\* Mutant: Draw does not look at the size again and draws for the one it knows.
NoRead ==
  /\ phase = "read" /\ redraw
  /\ Consume /\ phase' = "frame"
  /\ UNCHANGED <<dim, client, redraw, frameSize, loop, resizes>>

\* The first call of Draw.
ReadSize ==
  /\ phase = "read" /\ redraw
  /\ Consume /\ client' = dim /\ phase' = "frame"
  /\ UNCHANGED <<dim, redraw, frameSize, loop, resizes>>

\* BeginFrame .. EndFrame, or an iteration without a frame.
Draw ==
  /\ phase = "frame" \/ (phase = "read" /\ ~redraw)
  /\ frameSize' = IF redraw THEN client ELSE frameSize
  /\ phase' = "top" /\ redraw' = FALSE
  /\ UNCHANGED <<dim, lastSize, client, loop, resizes>>

RedrawLoop == Top \/ AskResized \/ ReadSize \/ Draw

ResizeNext == Resize \/ RedrawLoop

\* The loop of a program goes on for ever.
ResizeSpec == ResizeInit /\ [][ResizeNext]_resizeVars /\ WF_resizeVars(RedrawLoop)

-----------------------------------------------------------------------------
\* Once the user leaves the window alone, what is on the screen has been drawn for the size
\* the window has, wherever in its loop the program was when the size changed (the two
\* calls of DCWinClientSize and the frame, without a lock against the shell).
ResizeDrawn == []<>(frameSize = dim)

\* DCWinResized answers 1 if the window was resized since the last frame (dcwlib.h).
ReportsResize ==
  [][phase = "ask" /\ phase' # "ask" /\ dim # frameSize => redraw']_resizeVars
=============================================================================
