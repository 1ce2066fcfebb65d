\* A card and a plain image whose files do not change; writes of two keys may fail.
SPECIFICATION Spec
CONSTANTS
  Paths = {card, image}
  Versions = {1}
  CardPaths = {card}
  Replace = FALSE
  Unreliable = {"cpath", "path"}
  My = My
  Cards <- AllCards
  BlobId = {"PDF", "DISPLAY"}
  Size <- OneSector
  Sectors = 2
  SlotCount = 2
  Erased = Erased
  Junk = Junk
  None = None
INVARIANTS
  TypeOK
  CacheIsOfPath
  MappedStays
  ResumesWhatWasShown
  AdoptsWhatSlept
PROPERTIES
  UsesStore
