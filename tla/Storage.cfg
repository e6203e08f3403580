\* Two names on a volume of five clusters of two units, three calls to the file system, and
\* one call to the card that fails or one power cut.
CONSTANTS
  Names = {a, b}
  LastCluster = 6
  FatPer = 3
  Units = 2
  Lengths = {1, 3}
  Offsets = {0, 3}
  Starts = {"empty", "file", "open"}
  OldLen = 3
  MaxOps = 3
  MaxTrouble = 1
  MaxCalls = 7
SPECIFICATION Spec
SYMMETRY Perms
INVARIANTS
  ChainsApart
  SyncedSurvives
  ReadsBack
  ListsAll
  FreeCountRight
CHECK_DEADLOCK FALSE
