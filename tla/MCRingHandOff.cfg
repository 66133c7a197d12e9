SPECIFICATION FairSpec
CONSTANTS
  SlotCount = 1
  Handles = {h1, h2}
  None = None
  MaxFrames = 3
  MaxSessions = 3
CHECK_DEADLOCK FALSE
INVARIANTS TypeOK ExclusiveCopy DeliveredInOrder
PROPERTIES NeverOverwritten DropsInvalidBlock
