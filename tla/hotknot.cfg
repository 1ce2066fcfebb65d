\* Either role, with and without images to decode, power by battery or USB.
SPECIFICATION FairSpec
CONSTANTS
  UsbPower = TRUE
  EarlyPaired = TRUE
INVARIANTS
  TypeOK
  WorkerHasSlots
  SessionOutlivesSend
  TransferHasDescriptor
PROPERTIES
  DeadPanelEnds
\* A screen that was left has nothing more to do.
CHECK_DEADLOCK FALSE
