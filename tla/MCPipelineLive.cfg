SPECIFICATION BacklogSpec
CONSTANTS
  a1 = a1
  a2 = a2
  t1 = t1
  t2 = t2
  t3 = t3
  c1 = c1
  f1 = f1
  u1 = u1
  s1 = s1
  s2 = s2
  Attempts = {a1}
  Events = {t1, t2, t3, c1, f1}
  AttemptOf <- MCAttemptOf
  ProviderOf <- MCProviderOf
  KindOf <- MCKindOf
  Routes = {"FALLBACK_PAYMENT_LINK"}
  Cooldown = 0
  Minute = 1
  Limit = 2
  Duration = 0
  MaxTime = 1
  MaxFaults = 0
CHECK_DEADLOCK FALSE
INVARIANTS
  VersionsExclusive
PROPERTIES
  TasksEnd
  OutcomeAttributed
