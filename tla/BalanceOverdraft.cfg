CONSTANTS
  Writers = {w1, w2}
  Readers = {r1}
  Snapshotters = {s1}
  None = None
  Moves <- MCMoves
  Threshold = 1
  MaxEntries = 4
  MaxJobs = 1
SPECIFICATION Spec
SYMMETRY MCSymmetry
INVARIANTS
  NoOverdraft
