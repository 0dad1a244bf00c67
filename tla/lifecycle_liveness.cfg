CONSTANTS
  orig = orig
  a = a
  b = b
  x = x
  y = y
  o = o
  nobody = nobody
  Genomes = {orig, a}
  Original = orig
  Comparisons <- FirstChallenge
  Admins = {x, y}
  Operators = {o}
  Nobody = nobody
  MaxEvents = 2
  MaxDecisions = 1
SPECIFICATION FairSpec
PROPERTY LockIsReleased
