\* A stream longer than its window, under fairness.
SPECIFICATION FairSpec
CONSTANTS
  MaxId = 1
  MaxBytes = 8
  MaxStreams = 1
  MaxChunk = 3
  Window <- Windows4
  Word = 64
  Ops = {"write", "finish", "pause"}
  FreeResume = FALSE
PROPERTIES
  EveryByteArrives
  FinishArrives
  WindowReopens
CHECK_DEADLOCK FALSE
