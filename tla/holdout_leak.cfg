CONSTANTS
  r1 = r1
  r2 = r2
  e1 = e1
  e2 = e2
  nobody = nobody
  Requests = {r1}
  Nobody = nobody
  Experiments = {}
  Sizes = {1, 2}
  Seeds = {1, 2}
  DefaultSize = 1
  Batches = {1}
  MaxVersion = 3
  MaxNumber = 4
  SplitOf <- Parity
SPECIFICATION Spec
INVARIANT HeldOutIsNeverSearched

CHECK_DEADLOCK FALSE
