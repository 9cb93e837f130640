SPECIFICATION FairSpec
CONSTANTS
  h1 = h1
  h2 = h2
  Handlers = {h1, h2}
  Payloads <- MCPayloads
  MaxCrashes = 2
  NoPayload = NoPayload
CHECK_DEADLOCK FALSE
INVARIANTS
  EvidenceSound
  PipelineScheduledOnce
PROPERTIES
  PayPalKeepsPromise
  RequestsAnswered
