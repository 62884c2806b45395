CONSTANTS
  Deposits = {d1}
  Workers = {w1}
  Handlers = {h1, h2}
  None = None
  Faults <- MCNoFaults
  MaxFaults = 1
  MaxQueued = 2
SPECIFICATION Spec
CHECK_DEADLOCK FALSE
SYMMETRY MCSymmetry
INVARIANTS
  SecondConfirmFails
