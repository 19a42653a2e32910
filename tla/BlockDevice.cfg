SPECIFICATION FairSpec
CONSTANTS
  Volumes = {v1, v2}
  Devices = {d1, d2}
  NoDevice = NoDevice
  Free = Free
  Other = Other
  Old = {v1}
  Counts = 2
  MaxFaults = 2
INVARIANTS
  
  GoneVolumeHoldsNothing
PROPERTIES
  DeviceComesBack
  VolumeGetsDevice
CHECK_DEADLOCK FALSE
