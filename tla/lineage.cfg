CONSTANTS
  ConstraintLibrary <- MCLibrary
  MaxChanges = 2
  Allowed <- MCAllowed
  Forbidden = {"agent.planning_strategy"}
  ForbiddenPairs <- MCPairs
  Root <- MCRoot
  Focuses <- MCFocuses
  Space <- MCSpace
  MaxCandidates = 2
  MaxVersion = 3
SPECIFICATION Spec
INVARIANTS TypeOK LineageIsATree RecordsExplainTheGenome PolicyFieldsNeverMove
CHECK_DEADLOCK FALSE
