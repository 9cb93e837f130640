SPECIFICATION Spec
CHECK_DEADLOCK FALSE
CONSTANTS
  Scale <- MCScale
  Policy <- MCPolicy
  Triggers = {e1, e2}
  Instants = {0, 100, 400}
  Amounts = {300, 2000}
  Rates <- MCRates
  Settings <- MCSettings
  Evidence <- MCEvidence
  Duration = 1
  MaxEvaluations = 1
  None = None
SYMMETRY TriggerSymmetry
INVARIANTS
  RoutesCoolDown
  DiagnosedRouteFits
  CreditSized
  ClampsIdle
PROPERTIES
  ActMonotone
