\* One built-in icon and up to two shortcuts, in columns of two.  Two writers of a log of
\* three lines, and a viewer with two rows.  A track of three MPEG frames, at the rate of
\* the chip and at one and a half times it.  Images of up to five pages, four of which can
\* be listed, and RAM of which two pages may lie in the destination.  A screen of 12 by 9,
\* one window as wide as the screen and one half as wide, and two presses of the button.  Three
\* cells for name servers, a DHCP reply that fills them all, and one program that dials
\* again and again; that part ends at a store past the array.
CONSTANTS
  DEFAULT_N = 1
  MAXDESK = 3
  START = {1, 2}
  NPLACES = 3
  ROWS = 2
  LogWriters = {u, v}
  LINES = 3
  NVIS = 2
  MaxLines = 5
  TRACK = 9
  PER = 3
  SBUF = 2
  MP3_MAXFRAME = 2
  ONE = 2
  SrcSteps = {2, 3}
  RING = 3
  ALIGN = 1
  DST = 0
  RAM = {2, 3, 4, 5, 6, 7, 8}
  ENTRIES = 2
  CHAIN_MAXPFNPG = 2
  MaxPages = 5
  MaxShells = 2
  SCREEN_W = 12
  SCREEN_H = 9
  TASK_Y = 8
  WIN_MINW = 6
  WIN_MINH = 3
  GRIP = 1
  EDGE = 1
  BOX = 2
  KEEP = 3
  Opens <- MCOpens
  MaxGestures = 2
  CAP = 3
  Revival = 9
  UserDns <- MCUserDns
  DhcpDns <- MCDhcpDns
  LastResort <- MCLastResort
  Worker = wk
  Dialers = {dl}
SPECIFICATION DesktopSpec
INVARIANTS ContextOnItsIcon WindowInReach ShownAsWritten HeardInOrder BootsWholeOrNot NeverAppends
PROPERTIES RebootRestores DialTakesEntry
CHECK_DEADLOCK FALSE
