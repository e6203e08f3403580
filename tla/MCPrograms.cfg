\* A program whose list has two commands, and a second one in its slot; the scheduling
\* of dcshell.c.  Two cells for keys and five presses.  Two apps that post twice.
\* Two sizes, and the loops that ask for one before they read it, or only read it.
\* A reply of two units of header and two of body into a buffer of three.
CONSTANTS
  Cmd = {a, b}
  NoCmd = NoCmd
  MAXCMD = 2
  TRIES = 2
  Preempt = FALSE
  MaxGen = 4
  MaxOpen = 2
  Key = {k1, k2, k3}
  NoKey = NoKey
  MAXIN = 2
  MaxPush = 5
  Writers = {w1, w2}
  NFIELDS = 2
  MaxPost = 2
  Sizes = {small, big}
  Loops = {"report", "ask"}
  MaxResizes = 2
  HDR = 2
  BODY = 2
  DL_INIT = 1
  DL_MAX = 3
  CHUNK = 2
  STALL = 1
  MaxDials = 2
  MaxGets = 1
  MaxNoMem = 1
SPECIFICATION ProgramsSpec
INVARIANTS InOrderUntilOverrun DownloadFaithful LeavesNothing
PROPERTIES LastFrameShown ImplementsBoard EveryPushIsPolled
           WholeUnlessOverlap LatestServed ResizeDrawn Settles
CHECK_DEADLOCK FALSE
