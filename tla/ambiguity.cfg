CONSTANTS
  N = 1
  Pool = {"slots"}
  Plans <- AmbiguityPlans
SPECIFICATION Spec
INVARIANTS EveryAmbiguityReported
