\* Two sizes; the loops that read the size before they ask whether it has changed.
CONSTANTS
  Sizes = {small, big}
  Loops = {"both", "hover"}
  MaxResizes = 2
SPECIFICATION ResizeSpec
PROPERTY ReportsResize
