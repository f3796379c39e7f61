SPECIFICATION FairSpec
CONSTANTS
  Period <- FinePeriod
  MaxLag = 2
  AgeCap = 4
  Delays = {2}
  DefaultDelay = 2
  BootRuntimes <- BootDelay
  RsetFields = {"lock"}
  UiOps = {"stop"}
  MaxCommands = 1
PROPERTIES StopSendsBst BstRepeats ChargingStreams DelayReleases LockReleases
