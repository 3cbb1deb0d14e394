CONSTANTS
  N = 2
  Pool = {"threads"}
  MaxRequests = 1
  Plans <- DriverPlans
SPECIFICATION FairDriverSpec
INVARIANTS NothingMisplaced NothingLeaks
PROPERTIES ValuesInPlace ImplementsMachine
