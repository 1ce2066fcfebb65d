\* One card whose file is replaced by another of the same name while the SD card is out.
SPECIFICATION Spec
CONSTANTS
  Paths = {card}
  Versions = {1, 2}
  CardPaths = {card}
  Replace = TRUE
  Unreliable = {}
  My = My
  Cards <- AllCards
  BlobId = {"PDF", "DISPLAY"}
  Size <- OneSector
  Sectors = 2
  SlotCount = 2
  Erased = Erased
  Junk = Junk
  None = None
INVARIANTS
  ResumesWhatWasShown
