\* A sleep on another screen than the card: the next boot takes its glass for the card.
SPECIFICATION Spec
CONSTANTS
  Paths = {card}
  Versions = {1}
  CardPaths = {card}
  Replace = FALSE
  Unreliable = {}
  My = My
  Cards <- AllCards
  BlobId = {"PDF", "DISPLAY"}
  Size <- OneSector
  Sectors = 2
  SlotCount = 2
  Erased = Erased
  Junk = Junk
  None = None
INVARIANTS
  AdoptsWhatIsShown
