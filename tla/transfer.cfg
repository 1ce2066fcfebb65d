\* Cards of two pieces over a window of one.
SPECIFICATION FairSpec
CONSTANTS
  Chunks = 2
  Window = 1
  Faults <- MCFaults
INVARIANTS
  TypeOK
  AckMeansReceived
  GalleryIsWhole
  OutcomeIsTrue
  FailureNeverOpens
PROPERTIES
  ConnectedTerminates
  ImplementsExchange
\* Two devices that have booted again have nothing left to do.
CHECK_DEADLOCK FALSE
