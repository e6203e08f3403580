\* Two descriptors, a ring of four frames, and frames of one size in the one adapter; a
\* buffer of two units, frames of one or two, and registers that wrap after two laps in
\* the other.  With the null link, and where transmissions overlap, the model ends.
CONSTANTS
  TxN = 2
  RingLen = 32
  RxWrap = 32
  FrameSizes = {6}
  TxIds = 2
  W5Wrap = 4
  W5Buf = 2
  Lens = {1, 2}
  W5Ids = 2
SPECIFICATION Spec
INVARIANTS SendsWhole InStep ConsoleBack
PROPERTY Drains
CHECK_DEADLOCK FALSE
