CONSTANTS
  Id <- OneChild
  MaxRequests = 1
  MaxEvents = 1
SPECIFICATION Spec
INVARIANT OwnTemplatesKnown
