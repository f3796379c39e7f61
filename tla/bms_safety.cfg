SPECIFICATION Spec
CONSTANTS
  Period <- CoarsePeriod
  MaxLag = 1
  AgeCap = 3
  Delays = {0, 2}
  DefaultDelay = 2
  BootRuntimes <- BootLocked
  RsetFields = {"lock", "wait", "mode", "confirm", "permit", "delay", "demand"}
  UiOps = {"stop","step","restore"}
  MaxCommands = 2
INVARIANTS TypeOK BootLockSilent StrictSilence BroReleaseEarned
PROPERTIES BroSteady PermitHostOwned TailOnce
