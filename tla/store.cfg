\* Two cards of two blobs in a partition that holds one of them, three header slots.
SPECIFICATION Spec
CONSTANTS
  Cards = {c1, c2}
  BlobId = {"PDF", "DISPLAY"}
  Size <- Sizes
  Sectors = 3
  SlotCount = 3
  Erased = Erased
  Junk = Junk
  None = None
INVARIANTS
  StoreInv
  SlotsAreWhole
  CacheIsWhole
PROPERTIES
  CommittedStays
  ImplementsShelf
