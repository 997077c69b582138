CONSTANTS
  Configs <- MCConfigsCallback
  DiffOne = 2
  h1 = h1
  h2 = h2
  x1 = x1
  x2 = x2
  Headers <- MCHeaders1
  NoHeader = NoHeader
  Difficulties = {2}
  ExtraNonces <- MCExtraNonces
  NoExtraNonce = NoExtraNonce
  MaxConnects = 2
  MaxSubmits = 1
  ChanBound = 1
  MaxReports = 1
SPECIFICATION Spec
INVARIANT ReadAccounting
PROPERTY ConnectSettles DeadLinkNoticed
CHECK_DEADLOCK FALSE
