CONSTANTS
  N = 2
  Pool = {"threads"}
  MaxRequests = 1
  Plans <- LateHoldPlans
SPECIFICATION DriverSpec
INVARIANT NothingRefused
