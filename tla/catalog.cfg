CONSTANTS
  r1 = r1
  r2 = r2
  e1 = e1
  e2 = e2
  nobody = nobody
  Requests = {r1, r2}
  Nobody = nobody
  Experiments = {e1, e2}
  Sizes = {1, 2}
  Seeds = {1, 2}
  DefaultSize = 1
  Batches = {1}
  MaxVersion = 2
  MaxNumber = 4
  SplitOf <- Parity
SPECIFICATION Spec
INVARIANTS TypeOK VersionsExtendTheirParents ChallengesCountOnce VersionsForkOnlyWhenConcurrent
PROPERTY NumbersClashOnlyWhenConcurrent
CONSTRAINT Bounded
SYMMETRY Symmetry
CHECK_DEADLOCK FALSE
