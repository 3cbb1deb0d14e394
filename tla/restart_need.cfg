CONSTANTS
  N = 2
  Pool = {"slots"}
  Plans <- RestartPlans
SPECIFICATION Spec
PROPERTIES StartsOnServingNeeds
