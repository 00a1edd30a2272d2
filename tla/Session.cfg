SPECIFICATION FairSpec
CONSTANTS
  Elements <- MCElements
  SizeOf <- MCSizeOf
  Requests <- MCRequests
  Parses <- MCParses
  MaxCalls = 3
CHECK_DEADLOCK FALSE
INVARIANTS
  ExecutedInOrder
  DecisionsAreAnswers
PROPERTIES
  SessionsEnd
