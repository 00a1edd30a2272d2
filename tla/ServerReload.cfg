SPECIFICATION MetricsSpec
CONSTANTS
  Conn = {c1}
  Ticker = {auto}
  Http = {}
  NumFiles = 2
  Bob = Bob
  Rule <- OneRule
  Leq <- MCLeq
  Bad = Bad
  Absent = Absent
  RuleSets <- JustBob
  Malformed = Malformed
  NoProc = NoProc
  MaxEdits = 1
  MaxArrivals = 4
INVARIANTS
  EngineIsWhole
  ReloadIsFresh
  GaugeCountsFiles
  DecisionsAreQueries
PROPERTIES
  InstalledNeverOlder
