SPECIFICATION Spec
CONSTANTS
  n1 = n1
  n2 = n2
  v1 = v1
  v2 = v2
  t1 = t1
  Nodes = {n1, n2}
  NoNode = NoNode
  Volumes = {v1, v2}
  LabelPairs <- MCLabelPairs
  InitLabels <- MCLabels
  LabelStates <- MCLabelStates
  Taints = {t1}
  InitTaints <- MCTaints
  Filesystem <- MCMixedFilesystem
  Selected <- MCSelected
  AffinityKeys <- MCRackKeys
  Quotas <- MCTwoQuotas
  ValidLimits = {v1}
  Policy <- MCMixedPolicy
  CmdTimeoutCounts = 1
  FaultKinds = {"create", "reply", "get", "delete", "slow", "fail", "evict", "shutdown", "retaint"}
  MaxFaults = 3
CHECK_DEADLOCK FALSE
INVARIANTS TypeOK BoundVolumeHasDirectory BoundVolumeIsLimited ReclaimLeavesNoDirectory
PROPERTY ImplementsLifecycle
