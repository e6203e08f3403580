\* Two slots, three apps: one app more than slots, and a reuse of each slot.
\* No property here is a liveness property, so the symmetry is sound.
CONSTANTS
  MAXWIN = 2
  Pids = {p1, p2, p3}
  NoPid = NoPid
  Clear = Clear
  Buttons = {0}
SYMMETRY Symmetry
SPECIFICATION Spec
INVARIANTS RunningOwns InputForOwner
