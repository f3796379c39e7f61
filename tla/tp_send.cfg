SPECIFICATION FairSpec
CONSTANTS
  Total = 4
  CtsTimeout = 5
  EomTimeout = 5
  Overall = 14
  Gap = 1
  Windows = {2, 4}
  Grants = {0, 2}
  Firsts = {0, 2, 5}
  Late = 2
  MaxAnswer = 3
  RingCap = 2
  MaxDrops = 2
INVARIANTS TypeOK UnsentPaidByLoss SuccessIsReal
PROPERTIES TpTerminates Delivers
