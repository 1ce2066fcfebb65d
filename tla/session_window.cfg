\* The host lowered its stream_window, the client did not, and the host pauses.
SPECIFICATION Spec
CONSTANTS
  MaxId = 1
  MaxBytes = 4
  MaxStreams = 1
  MaxChunk = 2
  Window <- HostLowered
  Word = 64
  Ops = {"write", "pause"}
  FreeResume = FALSE
INVARIANTS
  NoProtocolError
CHECK_DEADLOCK FALSE
