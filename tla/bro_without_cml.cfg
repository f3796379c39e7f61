SPECIFICATION Spec
CONSTANTS
  Period <- CoarsePeriod
  MaxLag = 1
  AgeCap = 3
  Delays = {2}
  DefaultDelay = 2
  BootRuntimes <- BootDelay
  RsetFields = {}
  UiOps = {"step"}
  MaxCommands = 1
INVARIANTS BroNeedsCml
