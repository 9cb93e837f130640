SPECIFICATION PipelineSpec
CONSTANTS
  a1 = a1
  a2 = a2
  t1 = t1
  t2 = t2
  t3 = t3
  c1 = c1
  f1 = f1
  u1 = u1
  s1 = s1
  s2 = s2
  Attempts = {a1, a2}
  Events = {t1, u1, c1, f1, s1, s2}
  AttemptOf <- MCAttemptOf
  ProviderOf <- MCProviderOf
  KindOf <- MCKindOf
  Routes = {"FALLBACK_PAYMENT_LINK"}
  Cooldown = 1
  Minute = 1
  Limit = 1
  Duration = 1
  MaxTime = 2
  MaxFaults = 2
CHECK_DEADLOCK FALSE
INVARIANTS
  RateLimitHolds
  CreditJustified
  ProvidersKept
  DecidingEventMovesBack
