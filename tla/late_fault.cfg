CONSTANTS
  NNodes = 3
  NScopes = 2
  Trees <- LateFaultTrees
SPECIFICATION Spec
INVARIANTS NoDoomedWaiter
