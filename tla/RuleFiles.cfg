SPECIFICATION Spec
CONSTANTS
  Elements <- MCElements
  SizeOf <- Size
  RuleLists <- MCRuleLists
INVARIANTS
  PrintedRulesAreExact
  SavedFilesLoad
  TornFilesAddNothing
