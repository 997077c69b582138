\* Three workers on devices 0, 1 and 2, device 0 creating the DAG, in every
\* load mode: PARALLEL and SEQUENTIAL over three epochs, SINGLE over one.
CONSTANTS
  Workers = {0, 1, 2}
  NumDevices = 3
  SDevices <- MCSDevices
  DagCreateDevice = 0
  Instances = 3
  Modes = {"parallel", "sequential", "single"}
  MaxEpochOf <- MCMaxEpochOf
SPECIFICATION Spec
\* After the last epoch every worker searches, which CUDAMiner.tla models.
CHECK_DEADLOCK FALSE
PROPERTY EventuallyAllLoaded
