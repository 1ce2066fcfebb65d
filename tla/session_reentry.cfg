\* The reader calls pause and resume from inside its DATA callback.
SPECIFICATION Spec
CONSTANTS
  MaxId = 1
  MaxBytes = 4
  MaxStreams = 1
  MaxChunk = 2
  Window <- Windows4
  Word = 64
  Ops = {"write", "pause"}
  FreeResume = TRUE
INVARIANTS
  DeliveredInOrder
CHECK_DEADLOCK FALSE
