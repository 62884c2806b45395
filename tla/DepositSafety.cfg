CONSTANTS
  Deposits = {d1}
  Workers = {w1, w2}
  Handlers = {h1, h2}
  None = None
  Faults <- MCAllFaults
  MaxFaults = 3
  MaxQueued = 2
SPECIFICATION Spec
CHECK_DEADLOCK FALSE
SYMMETRY MCSymmetry
INVARIANTS
  TypeOK
  CreditedOnce
  CreditsBounded
  OutcomeFromProvider
PROPERTIES
  FinalStaysFinal
