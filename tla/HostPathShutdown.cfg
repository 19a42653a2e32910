SPECIFICATION FairSpec
CONSTANTS
  n1 = n1
  n2 = n2
  v1 = v1
  v2 = v2
  t1 = t1
  Nodes = {n1, n2}
  NoNode = NoNode
  Volumes = {v1}
  LabelPairs <- MCLabelPairs
  InitLabels <- MCLabels
  LabelStates <- MCLabelStates
  Taints = {t1}
  InitTaints <- MCTaints
  Filesystem <- MCKnownFilesystem
  Selected <- MCSelected
  AffinityKeys <- MCRackKeys
  Quotas <- MCOneQuota
  ValidLimits = {v1}
  Policy <- MCDelete
  CmdTimeoutCounts = 2
  FaultKinds = {"shutdown"}
  MaxFaults = 1
CHECK_DEADLOCK FALSE
PROPERTY ReleasedVolumeIsReclaimed
