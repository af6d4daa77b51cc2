SPECIFICATION FairSpec
CONSTANTS
  MaxRows = 6
  QueueSize = 2
  MaxBoots = 2
INVARIANTS
  TypeOK
  InOrderOnce
  NothingVanishes
PROPERTIES
  ImplementsOrderedDelivery
  RelayDrained
  EveryRowBegun
CHECK_DEADLOCK FALSE
