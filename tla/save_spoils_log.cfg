SPECIFICATION Spec
CONSTANTS
  Sectors = 2
  SectorWords = 3
  EntryWords = 2
  SettingWords = 2
  d = d
  c = c
  q = q
  Settings = {d, c, q}
  NoLog = {q}
  Default = d
  MaxWrites = 3
INVARIANT SavingSparesLog
