SPECIFICATION Spec
CONSTANTS
  Value <- MCValue
  StrLeq <- MCLeq
  HasPrefix <- MCAffix
  HasSuffix <- MCAffix
  Dates <- MCDates
  Instant <- MCInstant
  Handler = {h1, h2}
  Requests <- MCRequests
  Values <- MCValues
  NestingOf <- MCNesting
  Written <- MCWritten
  Held <- MCHeld
  Below <- MCBelow
  Same <- MCSame
  Directories <- MCDirectories
  Additions <- MCRules
  MaxArrivals = 2
CHECK_DEADLOCK FALSE
INVARIANTS
  CloseMeansQuiet
  ReportCountsAnswers
  GrantsStand
  SameQuerySameRequest
