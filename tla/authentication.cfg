CONSTANTS
  t1 = t1
  t2 = t2
  Threads = {t1, t2}
  Clients = {"client", "other"}
  RawKeys = {"k1", "k2", "guess"}
  Stored = {"k1", "k2"}
  NoKey = "no key"
  Requests <- FewRequests
  KeyCapacity = 2
  KeyCost = 1
  FailureCapacity = 3
  FailureCost = 2
  MaxTracked = 1
  Ttl = 1
  MaxEntries = 2
  MaxTime = 2
SPECIFICATION Spec
SYMMETRY Symmetry
VIEW View
INVARIANTS TypeOK CacheKnowsRecentKeys GuessesBounded
PROPERTIES CacheIsNotStale KeysGetTheirBuckets ClientsGetTheirBuckets
