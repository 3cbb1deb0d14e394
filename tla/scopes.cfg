CONSTANTS
  NNodes = 6
  NScopes = 3
  Trees <- RunTrees
SPECIFICATION HostSpec
INVARIANTS ReleaseOrder NothingOutlivesTheRun AdmissionNests GrantsAreExact NothingStalls InstanceTellsItsOwn
PROPERTIES IsolatedFaultsStayInside CleanupsAreShielded BoundedShutdown StoppedInstanceEnds
