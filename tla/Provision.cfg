SPECIFICATION FairSpec
CONSTANTS
  DefaultBasePath <- MCDefaultBasePath
  Claims <- MCClaims
  PVName = "pvc-1"
  Classes = {"sc"}
  ClassTexts <- MCTexts
  MaxVersions = 4
  MaxFaults = 2
INVARIANTS
  SettingsAreOfOneVersion
  StrayOnlyAfterNewBasePath
  OnlySupportedClaimsTouchNodes
PROPERTY ClaimIsServed
CHECK_DEADLOCK FALSE
