\* Ethereum-stratum work re-notified with the same header and a new boundary.
CONSTANTS
  NumStreams = 2
  BatchSize = 1
  SearchResults = 1
  MaxHits = 1
  NonceBits = 4
  Log2MaxMiners = 1
  index = 1
  PeriodLength = 2
  TargetShift = 4
  NoHeader = NoHeader
  SentinelHeader = SentinelHeader
  NoEpoch = NoEpoch
  NoPeriod = NoPeriod
  h1 = h1
  h2 = h2
  h3 = h3
  h4 = h4
  Works <- MCWorksRenotify
  NoWork <- MCNoWork
  StartNonces = {0, 8}
  DagFits = {0, 1}
  InitMayFail = FALSE
  CompileMayFail = FALSE
  GpuMayFail = FALSE
  MaxPublish = 2
SPECIFICATION Spec
\* the worker thread ends after a stop
CHECK_DEADLOCK FALSE
INVARIANT
  SearchMatchesWork
