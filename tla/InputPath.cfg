\* One key that repeats, one direction of the D-pad, room for one key more than a
\* poll adds.
CONSTANTS
  NMAP = 1
  Nav = {1}
  NDPAD = 1
  QLEN = 4
SPECIFICATION Spec
INVARIANTS QueueHoldsOnePoll NothingFromBeforeHandOff
PROPERTIES DismissedByNewInput BsodGoesAway
