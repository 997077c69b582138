\* SINGLE mode, two workers on devices 0 and 1, device 0 creating the DAG,
\* over the first epoch.
CONSTANTS
  Workers = {0, 1}
  NumDevices = 2
  SDevices <- MCSDevices
  DagCreateDevice = 0
  Instances = 2
  Modes = {"single"}
  MaxEpochOf <- MCSingle1
SPECIFICATION Spec
CHECK_DEADLOCK FALSE
INVARIANT HostBufferSafe
