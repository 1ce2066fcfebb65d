\* One stream from open to close, with every call a reader and a writer make on it.
SPECIFICATION Spec
CONSTANTS
  MaxId = 1
  MaxBytes = 5
  MaxStreams = 1
  MaxChunk = 2
  Window <- Windows4
  Word = 64
  Ops = {"write", "finish", "reset", "pause", "release"}
  FreeResume = FALSE
INVARIANTS
  TypeOK
  NoProtocolError
  WindowRespected
  DeliveredInOrder
  FinishedIsComplete
  CreditConserved
PROPERTIES
  ImplementsPipe
CHECK_DEADLOCK FALSE
