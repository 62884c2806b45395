CONSTANTS
  Writers = {w1, w2}
  Readers = {r1}
  Snapshotters = {s1, s2}
  None = None
  Moves <- MCMoves
  Threshold = 1
  MaxEntries = 3
  MaxJobs = 2
SPECIFICATION FairSpec
INVARIANTS
  TypeOK
  UncrossedSnapshotExact
  NoOverdraftUncrossed
  QuietCacheExact
PROPERTIES
  CacheHeals
