\* SINGLE mode, two workers on devices 0 and 1, device 0 creating the DAG,
\* over two epochs.
CONSTANTS
  Workers = {0, 1}
  NumDevices = 2
  SDevices <- MCSDevices
  DagCreateDevice = 0
  Instances = 2
  Modes = {"single"}
  MaxEpochOf <- MCSingle2
SPECIFICATION Spec
CHECK_DEADLOCK FALSE
PROPERTY EventuallyAllLoaded
