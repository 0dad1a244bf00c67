CONSTANTS
  orig = orig
  a = a
  b = b
  x = x
  y = y
  o = o
  nobody = nobody
  Genomes = {orig, a, b}
  Original = orig
  Comparisons <- Comebacks
  Admins = {x, y}
  Operators = {o}
  Nobody = nobody
  MaxEvents = 3
  MaxDecisions = 3
SPECIFICATION Spec
CONSTRAINT Bounded
SYMMETRY Symmetry
INVARIANTS TypeOK ProductionReadsStayCurrent CacheNeverOverstates
PROPERTIES ChangesRepairCache ImplementsHistory
