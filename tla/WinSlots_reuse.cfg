\* One app closes and the next opens between two iterations of the shell.
CONSTANTS
  MAXWIN = 2
  Pids = {p1, p2}
  NoPid = NoPid
  Clear = Clear
  Buttons = {0, 1}
SPECIFICATION Spec
INVARIANT ReusedSlotNormal
