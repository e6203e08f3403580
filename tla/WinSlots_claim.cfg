\* Two apps inside DCWinOpen at once.
CONSTANTS
  MAXWIN = 2
  Pids = {p1, p2}
  NoPid = NoPid
  Clear = Clear
  Buttons = {}
SPECIFICATION Spec
INVARIANT PublishedIsInitialised
