SPECIFICATION Spec
CONSTANTS
  m1 = m1  m2 = m2  r1 = r1  r2 = r2  h1 = h1  h2 = h2  d1 = d1
  w1 = w1  w2 = w2
  ResRef = {r1, r2}
  Hash = {h1, h2}
  Manifest = {m1, m2}
  Entries <- MCEntries
  Dir = {d1}
  DirOf <- MCDirOf
  Writer = {w1, w2}
  Pruner = {p1}
  NoManifest = NoManifest
  Nothing = Nothing
  Overlap = {{"write"}, {"prune"}, {"write", "prune"}}
  MinAge = 0
  RunLimit = 1
  MaxTime = 1
  MaxRuns = 3
  MaxCrashes = 1
  MaxRetired = 1
CHECK_DEADLOCK FALSE
SYMMETRY Symmetry
INVARIANTS PublishedPresent AtRest
PROPERTY SoloRunComplete
