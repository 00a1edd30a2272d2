SPECIFICATION Spec
CONSTANTS
  Value <- MCValue
  StrLeq <- MCStrLeq
  HasPrefix <- MCHasPrefix
  HasSuffix <- MCHasSuffix
  Dates <- MCDates
  Instant <- MCInstant
  Universe <- Exact
  Contained <- Inclusive
  Ordered <- Setless
  Requests <- MCRequests
  ValueOrder <- MCValueOrder
  Below <- MCBelow
  Same <- MCSame
  Grants <- MCGrants
  SizeOf <- Size
INVARIANTS
  GroundExact
  ContainmentSound
  Transitive
  Antisymmetric
