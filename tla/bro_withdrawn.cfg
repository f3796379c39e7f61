SPECIFICATION Spec
CONSTANTS
  Period <- CoarsePeriod
  MaxLag = 1
  AgeCap = 3
  Delays = {2}
  DefaultDelay = 2
  BootRuntimes <- BootDelay
  RsetFields = {}
  UiOps = {}
  MaxCommands = 0
PROPERTIES BroNeverWithdrawn
