\* Up to three instances, nested or beside each other, in any order.
CONSTANTS
  Plans <- PlansDef
  Main = 1
  Ids <- IdsDef
SPECIFICATION PicturedSpec
INVARIANT RetentionBounded
PROPERTY ImplementsInstances
CHECK_DEADLOCK FALSE
