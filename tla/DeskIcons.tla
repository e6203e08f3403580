----------------------------- MODULE DeskIcons -----------------------------
(***************************************************************************)
(* The desktop shortcuts of dcshell.c: the live array s_aDesk and its copy *)
(* on the VMU, and what the pointer, the keys, the Start menu and the      *)
(* context menu do to it.  Selection, context menu and drag each remember  *)
(* an icon by its index, and the array shifts when a shortcut is removed.  *)
(*                                                                         *)
(* Every action is one event of the shell's single-threaded loop, with no  *)
(* window under the cursor or in focus; what opening an icon starts is     *)
(* left out.  Icons are numbered from 1, and 0 is the code's -1.  A        *)
(* position is a place of the desktop; place i of the grid is where        *)
(* DeskPosInit puts the i-th built-in icon.                                *)
(***************************************************************************)
EXTENDS Integers, Sequences, SequencesExt, FiniteSetsExt

CONSTANTS DEFAULT_N,   \* built-in icons
          MAXDESK,     \* the capacity of s_aDesk
          START,       \* the items of s_start that have an exe or a path
          NPLACES,     \* places of the desktop
          ROWS         \* s_nDeskRows

ASSUME DeskIconsAssumption ==
  /\ DEFAULT_N \in Nat \ {0} /\ MAXDESK \in Nat /\ NPLACES \in Nat /\ ROWS \in Nat \ {0}
  /\ DEFAULT_N <= MAXDESK /\ DEFAULT_N <= NPLACES
  /\ 0 \notin START

Places  == 1..NPLACES
BuiltIn == 0     \* s_anDeskUser = -1

VARIABLES
  desk,    \* s_aDesk, s_anDeskUser, s_aDeskPos.  id tells the icons apart and
           \* is not in the code.
  vmu,     \* DCWINSHC.BIN: the start index and the position of each shortcut
  sel,     \* s_nDeskSel
  menu,    \* s_bMenuOpen
  ctx,     \* s_pCtxItems, s_nCtxIcon, and the id of the icon it was opened for;
           \* delete tells which of the item tables it shows
  cursor,  \* the place the pointer is at
  drag     \* s_bPtrWas, s_bDragMoved, s_nDragKind, s_nDragTarget

iconVars == <<desk, vmu, sel, menu, ctx, cursor, drag>>

Closed  == [open |-> FALSE, icon |-> 0, id |-> 0, delete |-> FALSE]
NoDrag  == [held |-> FALSE, moved |-> FALSE, kind |-> "none", target |-> 0]

NewId(icons) == Min((1..MAXDESK + 1) \ {icons[k].id : k \in DOMAIN icons})

\* The entries SaveShortcuts writes: one for each icon that is no built-in one, in their
\* order.
Users(icons) == {k \in DOMAIN icons : icons[k].user # BuiltIn}
Nth(S, j)    == CHOOSE k \in S : Cardinality({i \in S : i <= k}) = j
UserEntries(icons) ==
  [j \in 1..Cardinality(Users(icons)) |->
     LET icon == icons[Nth(Users(icons), j)] IN <<icon.user, icon.pos>>]

\* DeskPosInit: back to the grid with the built-in icons.
Arranged(icons) ==
  [k \in DOMAIN icons |-> IF icons[k].user = BuiltIn THEN [icons[k] EXCEPT !.pos = k] ELSE icons[k]]

\* DeskInit and LoadShortcuts
Loaded(entries) ==
  [k \in 1..Min({MAXDESK, DEFAULT_N + Len(entries)}) |->
     IF k <= DEFAULT_N THEN [id |-> k, user |-> BuiltIn, pos |-> k]
     ELSE [id |-> k, user |-> entries[k - DEFAULT_N][1], pos |-> entries[k - DEFAULT_N][2]]]

\* The icon under the cursor.
IconAt(p) == LET hit == {k \in DOMAIN desk : desk[k].pos = p}
             IN IF hit = {} THEN 0 ELSE Min(hit)

Boot(entries) ==
  /\ desk' = Loaded(entries) /\ sel' = 1 /\ menu' = FALSE
  /\ ctx' = Closed /\ drag' = NoDrag /\ cursor' = NPLACES

IconsInit ==
  /\ desk = Loaded(<<>>) /\ vmu = <<>> /\ sel = 1 /\ menu = FALSE
  /\ ctx = Closed /\ drag = NoDrag /\ cursor = NPLACES

\* The power goes, and the VMU keeps what was saved.
Reboot == Boot(vmu) /\ UNCHANGED vmu
-----------------------------------------------------------------------------
Removable(i) == i \in DOMAIN desk /\ desk[i].user # BuiltIn

\* The selection for n icons.
ClampedSel(n) == IF sel > n THEN n ELSE IF sel < 1 THEN 1 ELSE sel

RemoveShortcut(i) ==
  IF Removable(i)
    THEN /\ desk' = RemoveAt(desk, i) /\ sel' = ClampedSel(Len(desk) - 1)
         /\ vmu' = UserEntries(desk')
    ELSE UNCHANGED <<desk, sel, vmu>>

\* At the place p, if there is room.
AddDesktopShortcut(s, p) ==
  IF Len(desk) < MAXDESK
    THEN /\ desk' = Append(desk, [id |-> NewId(desk), user |-> s, pos |-> p])
         /\ sel' = Len(desk) + 1 /\ vmu' = UserEntries(desk')
    ELSE UNCHANGED <<desk, sel, vmu>>

\* Mutant: only the live icon moves.
PlaceUnsaved(i, p) == desk' = [desk EXCEPT ![i].pos = p] /\ UNCHANGED vmu
\* DropIcon
Place(i, p) ==
  /\ desk' = [desk EXCEPT ![i].pos = p]
  /\ vmu' = IF desk[i].user # BuiltIn THEN UserEntries(desk') ELSE vmu
-----------------------------------------------------------------------------
(* Keys, on the desktop or in the context menu.                            *)

\* Mutant: the context menu does not capture the keys.
KeysToMenu == ~menu
KeysToDesktop == ~menu /\ ~ctx.open

Steps(i) ==
  {IF (i - 1) % ROWS > 0 THEN i - 1 ELSE i,
   IF (i - 1) % ROWS < ROWS - 1 /\ i < Len(desk) THEN i + 1 ELSE i,
   IF i - ROWS >= 1 THEN i - ROWS ELSE i,
   IF i + ROWS <= Len(desk) THEN i + ROWS ELSE i}

KeyArrow ==
  /\ KeysToDesktop
  /\ sel' \in IF sel = 0 THEN {1} ELSE Steps(sel)
  /\ UNCHANGED <<desk, vmu, menu, ctx, cursor, drag>>

KeyDelete ==
  /\ KeysToDesktop /\ sel # 0 /\ RemoveShortcut(sel)
  /\ UNCHANGED <<menu, ctx, cursor, drag>>

\* The end of a press that did not become a drag, or a tap that GWES reported.
Release == drag.held /\ drag' = NoDrag
Click   == (Release /\ ~drag.moved) \/ UNCHANGED drag

\* TAB with no window open, or a click on the Start button.
ToggleMenu ==
  /\ Click /\ ~ctx.open /\ menu' = ~menu
  /\ UNCHANGED <<desk, vmu, sel, ctx, cursor>>

\* OpenContextMenu, whether or not a menu is open or a drag is going on.
OpenContext ==
  LET k == IconAt(cursor)
  IN /\ ctx' = [open |-> TRUE, icon |-> k, id |-> IF k = 0 THEN 0 ELSE desk[k].id,
                delete |-> k # 0 /\ desk[k].user # BuiltIn]
     /\ sel' = IF k = 0 THEN sel ELSE k
     /\ menu' = FALSE
     /\ UNCHANGED <<desk, vmu, cursor, drag>>

CloseContext ==
  /\ ctx.open /\ ctx' = Closed
  /\ UNCHANGED <<desk, vmu, sel, menu, cursor>>

\* ContextActivate, on the command that the selected row stands for.
ContextOpen ==
  /\ ctx.open /\ ctx.icon \in DOMAIN desk
  /\ ctx' = Closed
  /\ UNCHANGED <<desk, vmu, sel, menu, cursor>>

ContextDelete ==
  /\ ctx.open /\ ctx.delete
  /\ ctx' = Closed /\ RemoveShortcut(ctx.icon)
  /\ UNCHANGED <<menu, cursor>>

ContextArrange ==
  /\ ctx.open /\ ctx.icon = 0
  /\ ctx' = Closed /\ desk' = Arranged(desk)
  /\ UNCHANGED <<vmu, sel, menu, cursor>>

\* By Return and Escape; a click comes with the end of a press.
ContextActivate == ContextOpen \/ ContextDelete \/ ContextArrange

ContextKey == (ContextActivate \/ CloseContext) /\ UNCHANGED drag
-----------------------------------------------------------------------------
(* The pointer.                                                            *)

\* Hover follows the cursor unless a menu is open; a press becomes a drag past
\* the threshold, unless the button is up by the time the loop sees the move.
Move(p) ==
  /\ p # cursor /\ cursor' = p
  /\ \E m \in {drag.moved, drag.held} : drag' = [drag EXCEPT !.moved = m]
  /\ IF KeysToDesktop THEN sel' = IconAt(p) ELSE UNCHANGED sel
  /\ UNCHANGED <<desk, vmu, menu, ctx>>

Pressed(kind, target) ==
  drag' = [held |-> TRUE, moved |-> FALSE, kind |-> kind, target |-> target]

\* DragHitTest looks at the Start menu but not at the context menu.
Press ==
  /\ ~drag.held
  /\ \/ menu /\ \E s \in START \cup {0} :
          Pressed(IF s = 0 THEN "none" ELSE "start", s) /\ UNCHANGED sel
     \/ LET k == IconAt(cursor)
        IN /\ ~menu
           /\ IF k = 0 THEN Pressed("none", 0) /\ UNCHANGED sel
                       ELSE Pressed("icon", k) /\ sel' = k
  /\ UNCHANGED <<desk, vmu, menu, ctx, cursor>>

ClickContext == Click /\ (ContextActivate \/ CloseContext)

\* On an item, which starts it, or elsewhere.
ClickMenu ==
  /\ Click /\ ~ctx.open /\ menu /\ menu' = FALSE
  /\ UNCHANGED <<desk, vmu, sel, ctx, cursor>>

ClickIcon ==
  LET k == IconAt(cursor)
  IN /\ Click /\ KeysToDesktop /\ k # 0
     /\ sel' = k
     /\ UNCHANGED <<desk, vmu, menu, ctx, cursor>>

\* HandleClick hits nothing, and OnKey(VK_RETURN) opens the selection, if any.
ClickEmpty ==
  /\ Release /\ ~drag.moved /\ KeysToDesktop /\ IconAt(cursor) = 0
  /\ UNCHANGED <<desk, vmu, sel, menu, ctx, cursor>>

Drop == Release /\ drag.moved /\ UNCHANGED <<ctx, cursor>>

DropStartItem ==
  /\ Drop /\ drag.kind = "start"
  /\ \/ AddDesktopShortcut(drag.target, cursor)
     \/ UNCHANGED <<desk, vmu, sel>>   \* over the menu or the taskbar
  /\ menu' = FALSE

DropIcon ==
  /\ Drop /\ drag.kind = "icon" /\ drag.target \in DOMAIN desk
  /\ Place(drag.target, cursor)
  /\ UNCHANGED <<sel, menu>>

DropNothing ==
  /\ Drop
  /\ drag.kind = "none" \/ (drag.kind = "icon" /\ drag.target \notin DOMAIN desk)
  /\ UNCHANGED <<desk, vmu, sel, menu>>

IconsNext ==
  \/ KeyArrow \/ KeyDelete \/ ToggleMenu
  \/ OpenContext \/ ContextKey
  \/ (\E p \in Places : Move(p)) \/ Press
  \/ ClickContext \/ ClickMenu \/ ClickIcon \/ ClickEmpty
  \/ DropStartItem \/ DropIcon \/ DropNothing
  \/ Reboot

IconsSpec == IconsInit /\ [][IconsNext]_iconVars
-----------------------------------------------------------------------------
\* A power cycle at any moment brings back every shortcut the user has, at the
\* place where it is and in the same order: each change of them was saved.
RebootRestores == [][Reboot => UserEntries(desk') = UserEntries(desk)]_iconVars

\* The context menu acts on the icon it was opened for, although it holds only
\* an index, and a drag or a shortcut's arrival may happen under it.
ContextOnItsIcon ==
  ctx.open /\ ctx.icon # 0 => ctx.icon \in DOMAIN desk /\ desk[ctx.icon].id = ctx.id
=============================================================================
