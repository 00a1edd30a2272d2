SPECIFICATION FairSpec
CONSTANTS
  Conn = {c1}
  Ticker = {auto}
  Http = {h}
  NumFiles = 1
  Bob = Bob
  Rule <- OneRule
  Leq <- MCLeq
  Bad = Bad
  Absent = Absent
  RuleSets <- JustBob
  Malformed = Malformed
  NoProc = NoProc
  MaxEdits = 1
PROPERTIES
  RequestsAreDecided
  EditsTakeEffect
