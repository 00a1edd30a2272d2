SPECIFICATION Spec
CONSTANTS
  Value <- MCValue
  StrLeq <- MCStrLeq
  HasPrefix <- MCAffix
  HasSuffix <- MCAffix
  Dates = {}
  Instant <- MCInstant
  Element <- WithStars
  StarForm <- StarForms
  IsListRule <- IsList
  TagOf <- ElementTag
  Tag <- MCTag
  Below <- MCBelow
  Same <- MCSame
  Leq <- LessPermissive
  Batches <- EngineBatches
  MaxRules = 4
INVARIANTS
  TypeOK
  IndexExact
  NoPanic
  IndexedAnswersAreLinear
  FindsWhatLinearFinds
PROPERTIES
  ImplementsRuleBook
