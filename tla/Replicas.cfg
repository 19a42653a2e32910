SPECIFICATION FairSpec
CONSTANTS
  ReplicaSet = {r1, r2}
  ElectionValues = {"", "no"}
  MaxFaults = 4
INVARIANTS
  InServiceHasDirectory
  StrayOnlyByLateInit
  ReclaimLeavesNothing
PROPERTY ClaimIsProvisioned
CHECK_DEADLOCK FALSE
