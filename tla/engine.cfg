CONSTANTS
  N = 5
  Pool = {"slots"}
  Plans <- EnginePlans
SPECIFICATION FairSpec
INVARIANTS TypeOK NothingLost JoinsBeforeCleanup PolicyHolds GrantsAreExclusive NoIdleGrant
PROPERTIES AttemptsBracketed NoUnearnedBody NoOvertaking Completes
