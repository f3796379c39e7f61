SPECIFICATION FairSpec
CONSTANTS
  States = {"idle", "busy"}
  NoState = "none"
  Busy = {"busy"}
  Blobs = {"default", "tuned"}
  Defaults = "default"
  Absent = "absent"
  Room = 3
  ReplyTicks = 2
  RetryTicks = 1
  BeatTicks = 2
  Budgets <- Mixes
INVARIANTS TypeOK StreamFaithful ConnectedRaw
PROPERTIES ImplementsNvStore StateHeard Reestablished
