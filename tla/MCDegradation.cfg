SPECIFICATION Spec
CONSTANTS
  late = late
  next = next
  Deliveries = {late, next}
  WindowOf <- MCWindowOf
  OutcomeOf <- MCOutcomeOf
  LastWindow = 6
  Past = 6
  PastCounts <- MCPast
  NoBaseline = {}
  Baseline = 50
  Threshold = 1
  Required = 2
  Recovery = 2
  MaxFaults = 1
CHECK_DEADLOCK FALSE
INVARIANTS
  SignalLogSound
  ReplayConverges
PROPERTY ReplayMeetsRules
