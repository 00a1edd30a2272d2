SPECIFICATION AdaptiveSpec
CONSTANTS
  Value <- MCValue
  StrLeq <- MCStrLeq
  HasPrefix <- MCAffix
  HasSuffix <- MCAffix
  Dates = {}
  Instant <- MCInstant
  Element <- Parsed
  StarForm <- NoStars
  IsListRule <- IsList
  TagOf <- ElementTag
  Tag <- MCTag
  Below <- MCBelow
  Same <- MCSame
  Leq <- LessPermissive
  Batches <- ParsedBatches
  MaxRules = 4
  MinRulesForIndexing = 2
  MinTagCountForIndexing = 2
  MaxAvgFanoutForIndexing = 1
  MaxStale = 3
INVARIANTS
  IndexCovers
  IndexExactUnlessStale
  NoPanicUnlessStale
  StatsCountRules
  StrategyChangesNoAnswer
