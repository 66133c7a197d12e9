SPECIFICATION FairSpec
CONSTANTS
  SlotCount = 2
  Handles = {h1, h2}
  None = None
  MaxFrames = 2
  MaxSessions = 1
CHECK_DEADLOCK FALSE
PROPERTIES FrameArrives
