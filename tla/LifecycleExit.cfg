SPECIFICATION Spec
CONSTANTS
  d1 = d1
  e1 = e1
  Daemon <- MCDaemon
  Embedded <- MCEmbedded
  WithHealth <- MCHealth
  WithTicker <- MCTicker
  Client = {c1, c2}
  Nobody = Nobody
  Empty = Empty
  MayOverlap = FALSE
INVARIANT ExitIsClean
CHECK_DEADLOCK FALSE
