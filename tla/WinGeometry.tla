----------------------------- MODULE WinGeometry -----------------------------
(***************************************************************************)
(* Where a window is: what the pointer does to the rectangle of one slot   *)
(* (DragHitTest, DragApply, ToggleMaximize of dcshell.c).  A drag keeps    *)
(* the slot and the offset of the pointer, the maximize box the rectangle  *)
(* to go back to, and neither is told when the window closes and another   *)
(* program takes the slot.                                                 *)
(***************************************************************************)
EXTENDS Integers

CONSTANTS
  SCREEN_W, SCREEN_H, TASK_Y,  \* the screen; the task bar begins at TASK_Y
  WIN_MINW, WIN_MINH,          \* the smallest window
  GRIP,                        \* the corner that resizes reaches so far in (12)
  EDGE,                        \* the frame (2)
  BOX,                         \* the boxes of the title bar (16)
  KEEP,                        \* what a move leaves on the screen (40)
  Opens,                       \* the rectangles programs open with
  MaxGestures                  \* bound: presses of the button

BAR == BOX + EDGE              \* the title bar, with the frame (18)

Rect == [x : Int, y : Int, w : Int, h : Int]

ASSUME GeometryAssumption ==
  /\ {SCREEN_W, SCREEN_H, TASK_Y, WIN_MINW, WIN_MINH, GRIP, EDGE, BOX, KEEP, MaxGestures}
       \subseteq Nat
  /\ 0 < GRIP /\ 0 < EDGE /\ EDGE < BOX /\ BOX <= KEEP /\ KEEP <= WIN_MINW /\ 3 * BOX <= WIN_MINW
  /\ GRIP < WIN_MINH /\ BAR < TASK_Y /\ TASK_Y <= SCREEN_H
  /\ WIN_MINW + 2 * EDGE <= SCREEN_W /\ WIN_MINH + BAR + 2 * EDGE <= TASK_Y
  /\ Opens \subseteq Rect
  /\ \A r \in Opens : /\ r.w \in WIN_MINW..SCREEN_W /\ r.x \in 0..(SCREEN_W - r.w)
                      /\ r.h \in WIN_MINH..TASK_Y /\ r.y \in BAR..(TASK_Y - r.h)

VARIABLES
  isOpen,    \* inUse
  rect,      \* x, y, w, h of the slot
  maxed,     \* s_abWinMax
  restore,   \* s_awinRestore
  grab,      \* s_nDragKind, s_nDragOffX, s_nDragOffY
  gestures   \* history: counter of the bound

geometryVars == <<isOpen, rect, maxed, restore, grab, gestures>>

NoGrab == [kind |-> "none", dx |-> 0, dy |-> 0]

GeometryInit ==
  /\ isOpen = TRUE /\ rect \in Opens
  /\ maxed = FALSE /\ restore = rect
  /\ grab = NoGrab /\ gestures = 0

-----------------------------------------------------------------------------
(* What the pointer at px, py is on. *)

OnCorner(r, px, py) ==
  /\ px \in (r.x + r.w - GRIP)..(r.x + r.w + EDGE)
  /\ py \in (r.y + r.h - GRIP)..(r.y + r.h + EDGE)

OnTitle(r, px, py) ==
  /\ px \in (r.x - EDGE)..(r.x + r.w - (3 * BOX - EDGE) - 1)
  /\ py \in (r.y - BAR)..(r.y - EDGE - 1)

OnMaximize(r, px, py) ==
  /\ px \in (r.x + r.w - (2 * BOX - EDGE))..(r.x + r.w - (BOX - EDGE) - 1)
  /\ py \in (r.y - BOX)..(r.y - EDGE - 1)

ScreenX == 0..(SCREEN_W - 1)
ScreenY == 0..(SCREEN_H - 1)

-----------------------------------------------------------------------------
(* The gestures. *)

\* The button goes down: DragHitTest.
PressWindow(px, py) ==
  /\ gestures < MaxGestures /\ grab.kind = "none" /\ isOpen
  /\ \/ /\ OnCorner(rect, px, py)
        /\ grab' = [kind |-> "size", dx |-> px - (rect.x + rect.w),
                    dy |-> py - (rect.y + rect.h)]
     \/ /\ OnTitle(rect, px, py) /\ ~OnCorner(rect, px, py)
        /\ grab' = [kind |-> "move", dx |-> px - rect.x, dy |-> py - rect.y]
  /\ gestures' = gestures + 1
  /\ UNCHANGED <<isOpen, rect, maxed, restore>>

\* v, moved into lo..hi.
Clamp(v, lo, hi) == IF v < lo THEN lo ELSE IF v > hi THEN hi ELSE v

\* Mutant: a window may be moved out to the left until nothing of it is left.
MovedAway(r, nx, ny) ==
  [r EXCEPT !.x = Clamp(nx, -r.w - EDGE, SCREEN_W - KEEP), !.y = Clamp(ny, BAR, TASK_Y - 1)]

Moved(r, nx, ny) ==
  [r EXCEPT !.x = Clamp(nx, -(r.w - KEEP), SCREEN_W - KEEP), !.y = Clamp(ny, BAR, TASK_Y - 1)]

Sized(r, nw, nh) ==
  [r EXCEPT !.w = Clamp(nw, WIN_MINW, SCREEN_W), !.h = Clamp(nh, WIN_MINH, SCREEN_H)]

\* The pointer moves with the button down: DragApply, on whatever window has the slot.
\* Whether it has left the threshold of a click behind is left to choose.
DragApply(px, py) ==
  /\ grab.kind # "none" /\ isOpen
  /\ rect' = IF grab.kind = "move"
               THEN Moved(rect, px - grab.dx, py - grab.dy)
               ELSE Sized(rect, px - grab.dx - rect.x, py - grab.dy - rect.y)
  /\ UNCHANGED <<isOpen, maxed, restore, grab, gestures>>

ReleaseWindow ==
  /\ grab.kind # "none" /\ grab' = NoGrab
  /\ UNCHANGED <<isOpen, rect, maxed, restore, gestures>>

Maximized ==
  [x |-> EDGE, y |-> BAR + EDGE,
   w |-> SCREEN_W - 2 * EDGE, h |-> TASK_Y - BAR - 2 * EDGE]

\* A click on the maximize box, with the one pointing device that is in use.
ToggleMaximize(px, py) ==
  /\ gestures < MaxGestures /\ grab.kind = "none" /\ isOpen
  /\ OnMaximize(rect, px, py)
  /\ maxed' = ~maxed
  /\ IF maxed THEN rect' = restore /\ UNCHANGED restore
              ELSE rect' = Maximized /\ restore' = rect
  /\ gestures' = gestures + 1
  /\ UNCHANGED <<isOpen, grab>>

-----------------------------------------------------------------------------
(* The slot changes hands, with the button up or down. *)

CloseWindow == isOpen /\ isOpen' = FALSE /\ UNCHANGED <<rect, maxed, restore, grab, gestures>>

\* The shell finds the slot free (WinMain), if it looks in time.
Forget ==
  /\ ~isOpen /\ maxed /\ maxed' = FALSE
  /\ UNCHANGED <<isOpen, rect, restore, grab, gestures>>

OpenWindow ==
  /\ ~isOpen /\ isOpen' = TRUE
  /\ rect' \in Opens
  /\ UNCHANGED <<maxed, restore, grab, gestures>>

GeometryNext ==
  \/ \E px \in ScreenX, py \in ScreenY :
       PressWindow(px, py) \/ DragApply(px, py) \/ ToggleMaximize(px, py)
  \/ ReleaseWindow \/ CloseWindow \/ Forget \/ OpenWindow

GeometrySpec == GeometryInit /\ [][GeometryNext]_geometryVars

-----------------------------------------------------------------------------
\* The pointer can reach the title bar, the corner or the maximize box.
InReach(r) ==
  \E px \in ScreenX, py \in ScreenY :
    OnTitle(r, px, py) \/ OnCorner(r, px, py) \/ OnMaximize(r, px, py)

\* No sequence of moves, resizes and maximizing takes a window where the pointer cannot take
\* hold of it again, although a resize and a move clamp different things (DragApply), a
\* drag may go on over the window of the next program, and the flag and the rectangle of
\* the maximize box may be those of the program before (s_abWinMax, s_awinRestore).
WindowInReach == isOpen => InReach(rect)
=============================================================================
