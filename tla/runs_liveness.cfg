CONSTANTS
  w = w
  t = t
  c = c
  p = p
  nobody = nobody
  prober = prober
  Workers = {}
  Threads = {t}
  Callers = {c}
  Clients = {p}
  Nobody = nobody
  Prober = prober
  MaxBatches = 1
  MaxVersion = 1
  MaxQueue = 0
SPECIFICATION FairSpec
PROPERTIES PlaceIsGivenBack RunsEnd
