SPECIFICATION Spec
CONSTANTS
  d1 = d1
  d2 = d2
  g = g
  h = h
  None = None
  Deliveries = {d1, d2}
  Episodes = {g, h}
  Windows = {1, 2}
  Profiles <- MCProfiles
  Alphabetical <- MCAlphabetical
  WindowOf <- MCWindowOf
  ProfileOf <- MCProfileOf
  OutcomeOf <- MCOutcomeOf
  StartOf <- MCStartOf
  SegmentOf <- MCSegmentOf
  Pasts <- MCPasts
  Histories <- MCHistories
  Earlier <- NotEarlier
  MinFailures = 2
  MinVolume = 2
  MinWindows = 2
  MaxFaults = 0
CHECK_DEADLOCK FALSE
INVARIANT NoExcessIsUnknown
