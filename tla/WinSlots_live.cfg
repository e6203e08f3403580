\* One slot and two apps: an app that finds no slot, a slot handed on, a slot shared.
CONSTANTS
  MAXWIN = 1
  Pids = {p1, p2}
  NoPid = NoPid
  Clear = Clear
  Buttons = {0}
SPECIFICATION FairSpec
PROPERTIES CloseAnswered GhostsReaped
