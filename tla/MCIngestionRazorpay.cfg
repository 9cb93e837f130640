SPECIFICATION Spec
CONSTANTS
  h1 = h1
  h2 = h2
  Handlers = {h1, h2}
  Payloads <- MCRazorpay
  MaxCrashes = 0
  NoPayload = NoPayload
CHECK_DEADLOCK FALSE
INVARIANT
  ConflictMeansDifferentPayload
