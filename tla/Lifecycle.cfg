SPECIFICATION FairSpec
CONSTANTS
  d1 = d1
  e1 = e1
  Daemon <- MCDaemon
  Embedded <- MCEmbedded
  WithHealth <- MCHealth
  WithTicker <- MCTicker
  Client = {c1, c2}
  Nobody = Nobody
  Empty = Empty
  MayOverlap = FALSE
INVARIANTS
  TypeOK
  ClosedIsClosed
  PidFileNamesServer
  FailedStartLeavesNothing
PROPERTY CloseReturns
CHECK_DEADLOCK FALSE
