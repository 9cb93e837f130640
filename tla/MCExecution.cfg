SPECIFICATION Spec
CONSTANTS
  p1 = p1
  s1 = s1
  s2 = s2
  d1 = d1
  d2 = d2
  Sessions = {s1, s2}
  Decisions = {d1, d2}
  Executable = {d1}
  Attempts = {p1}
  AttemptOf <- MCAttemptOf
  Events <- MCEvents
  MaxTime = 1
  TTL = 1
  Durations = {0}
  MaxLost = 1
  Nobody = Nobody
  NoDecision = NoDecision
SYMMETRY SessionSymmetry
INVARIANTS
  TypeOK
  DispatchedAtMostOnce
  AttemptsMatchStatus
  NoStaleClaim
  BarriersRespected
  ObservationLogSound
PROPERTY CommandHistoryLegal
