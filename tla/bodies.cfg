CONSTANTS
  PlanOf <- MCPlanOf
  Kind <- MCKind
  Needs <- MCNeeds
  Source <- MCSource
  Child <- MCChild
  Export <- MCExport
  ByDrop <- MCByDrop
  Identity <- MCIdentity
  Spawns <- MCSpawns
  Flaky <- MCFlaky
  Roots = {"A", "B"}
  MaxAttempts = 2
  MaxInstances = 2
SPECIFICATION Spec
INVARIANTS GivenTheCurrent ReadyIsReadable DropIsLast
