SPECIFICATION QuotaSpec
CONSTANTS
  n1 = n1
  v1 = v1
  v2 = v2
  v3 = v3
  Volumes = {v1, v2, v3}
  Nodes = {n1}
  Home <- MCHome
  Quotas <- MCQuotas
  NoVolume = NoVolume
  MaxProject = 3
  Sizes <- MCSizes
  Tenths = {0, 1, 5, 100, 800, 850, 999, 1000, 1001, 5000}
CHECK_DEADLOCK FALSE
INVARIANTS
  TypeOK
  InServiceIsLimited
  SharedOnlyByOverlap
  LimitsAreOwn
  LimitsFitTheRequest
  OnlyBadLimitsAreRejected
  NoGraceIsZeroPercent
