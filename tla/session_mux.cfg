\* Two streams at a time, in one direction or one in each, a third that may be
\* refused by a full table, a link that may break and a close.
SPECIFICATION Spec
CONSTANTS
  MaxId = 3
  MaxBytes = 2
  MaxStreams = 2
  MaxChunk = 1
  Window <- Windows1
  Word = 64
  Ops = {"write", "drop", "close"}
  FreeResume = FALSE
INVARIANTS
  IInv
PROPERTIES
  ImplementsPipe
CHECK_DEADLOCK FALSE
