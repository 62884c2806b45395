CONSTANTS
  Deposits = {d1}
  Workers = {w1}
  Handlers = {h1}
  None = None
  Faults <- MCAllFaults
  MaxFaults = 2
  MaxQueued = 2
SPECIFICATION FairSpec
CHECK_DEADLOCK FALSE
PROPERTIES
  OrphansRecovered
  EveryDepositEnds
