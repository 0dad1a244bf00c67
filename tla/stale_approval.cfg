CONSTANTS
  orig = orig
  a = a
  b = b
  x = x
  y = y
  o = o
  nobody = nobody
  Genomes = {orig, a, b}
  Original = orig
  Comparisons <- Challenges
  Admins = {x}
  Operators = {o}
  Nobody = nobody
  MaxEvents = 2
  MaxDecisions = 2
SPECIFICATION Spec
PROPERTY PromotedOnApprovedComparison
