CONSTANTS
  Id <- OneChild
  MaxRequests = 1
  MaxEvents = 1
SPECIFICATION FairSpec
INVARIANT CallersAreServed
PROPERTIES ReportArrives ChildrenAreTold
