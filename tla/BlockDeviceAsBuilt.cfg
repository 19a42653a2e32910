SPECIFICATION FairSpec
CONSTANTS
  Volumes = {v1, v2}
  Devices = {d1, d2}
  NoDevice = NoDevice
  Free = Free
  Other = Other
  Old = {v1}
  Counts = 0
  MaxFaults = 2
PROPERTIES
  VolumeGetsDevice
CHECK_DEADLOCK FALSE
