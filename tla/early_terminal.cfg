CONSTANTS
  NNodes = 4
  NScopes = 2
  Trees <- EarlyTerminalTrees
SPECIFICATION Spec
INVARIANTS NothingStalls
