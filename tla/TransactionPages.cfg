CONSTANTS
  Txns = {t1, t2, t3, t4}
  Stamps <- MCStamps
  PageSizes <- MCPageSizes
SPECIFICATION Spec
SYMMETRY MCSymmetry
INVARIANTS
  TypeOK
  NothingMissed
  RepeatsAreArrivals
  MissedAreRepeats
