CONSTANTS
  w = w
  t = t
  c = c
  p = p
  nobody = nobody
  prober = prober
  Workers = {w}
  Threads = {t}
  Callers = {}
  Clients = {p}
  Nobody = nobody
  Prober = prober
  MaxBatches = 2
  MaxVersion = 2
  MaxQueue = 1
SPECIFICATION Spec
INVARIANTS TypeOK SearchOwnsCheckpoint QuietMeansStartable
PROPERTY ImplementsSearch
