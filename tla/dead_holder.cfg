CONSTANTS
  NNodes = 5
  NScopes = 2
  Trees <- DeadHolderTrees
SPECIFICATION Spec
INVARIANTS NoDeadHolder
