SPECIFICATION QuotaSpec
CONSTANTS
  n1 = n1
  v1 = v1
  v2 = v2
  v3 = v3
  Volumes = {v1, v2}
  Nodes = {n1}
  Home <- MCHome
  Quotas <- MCOneQuota
  NoVolume = NoVolume
  MaxProject = 2
  Sizes = {1024}
  Tenths = {0}
CHECK_DEADLOCK FALSE
INVARIANT ProjectIsNew
