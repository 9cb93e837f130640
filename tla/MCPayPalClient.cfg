SPECIFICATION FairSpec
CONSTANTS
  c1 = c1
  c2 = c2
  c3 = c3
  Callers = {c1, c2, c3}
  Lifetimes = {1, 4}
  Margin = 2
  MaxTime = 4
  MaxTokens = 2
  Nobody = Nobody
INVARIANTS
  TypeOK
  FetchesShared
  ServedTokensLive
  RejectedTokenGone
PROPERTIES
  CallersAnswered
