SPECIFICATION Spec
CONSTANTS
  ref = ref
  bad = bad
  empty = empty
  References = {ref, bad, empty}
  Grammatical = {ref}
  Empty = empty
  Nothing = Nothing
  Events <- MCEvents
  Databases <- MCDatabases
  Legacy <- MCLegacy
  MaxRuns = 4
  MaxWrites = 2
CHECK_DEADLOCK FALSE
INVARIANTS
  TypeOK
  HeadSound
  ExpandSuffices
  ProvidersStable
  NeverIntermediate
