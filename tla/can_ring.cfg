SPECIFICATION FairSpec
CONSTANTS
  Size = 3
  MaxFrames = 7
INVARIANTS TypeOK FramesWhole
PROPERTIES ImplementsRxQueue AllDelivered
