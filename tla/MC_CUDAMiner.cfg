\* One worker, two streams, stratum and ethereum-stratum work over three epochs; the third epoch's DAG does not fit, init() and NVRTC may fail.
CONSTANTS
  NumStreams = 2
  BatchSize = 2
  SearchResults = 1
  MaxHits = 2
  NonceBits = 4
  Log2MaxMiners = 1
  index = 1
  PeriodLength = 2
  TargetShift = 4
  NoHeader = NoHeader
  SentinelHeader = SentinelHeader
  NoEpoch = NoEpoch
  NoPeriod = NoPeriod
  h1 = h1
  h2 = h2
  h3 = h3
  h4 = h4
  Works <- MCWorksAll
  NoWork <- MCNoWork
  StartNonces = {2, 6}
  DagFits = {0, 1}
  InitMayFail = TRUE
  CompileMayFail = TRUE
  GpuMayFail = TRUE
  MaxPublish = 2
SPECIFICATION Spec
\* the worker thread ends after a stop
CHECK_DEADLOCK FALSE
INVARIANT
  TypeOK
  LaunchUsesLiveDagAndKernel
  ResultAttribution
  KickExitBound
PROPERTY
  StartsInWorkSlice
  StopTerminates
  WorkAdopted
