CONSTANTS
  e1 = e1
  e2 = e2
  champion = champion
  challenger = challenger
  Requests = {r1, r2, r3}
  Candidates = {c}
  Experiments = {e1, e2}
  BaselineOf <- MCBaselines
  VersionOf <- MCVersions
  Results = {good, bad}
  Missing = Missing
  Nobody = Nobody
SPECIFICATION FairSpec
INVARIANTS TypeOK StoredMeasurementDecides
PROPERTY ReviewsEnd
