---------------------------- MODULE Decisioning -------------------------------
(***************************************************************************)
(* The arithmetic of Stages 5 and 6: the failure probability of the        *)
(* deterministic model, the eligibility of a route, the utility of an      *)
(* eligible one and the verdict.                                           *)
(*                                                                         *)
(* Probabilities and rates are integers in units of 1/Scale (the code      *)
(* keeps four to six decimals), amounts and costs are minor units.  The    *)
(* confidence that accompanies a verdict decides nothing and is left out,  *)
(* and so is the alignment score, which only enters the confidence.        *)
(***************************************************************************)
EXTENDS Integers

CONSTANTS
  Scale,     \* units of a probability of one
  Policy     \* the routes of the policy: a function from keys to definitions

\* Half of every percentage below must be a whole number of units.
ASSUME DecisioningAssumption == Scale \in Nat \ {0} /\ Scale % 100 = 0

\* Percentages, minor units and seconds; no two routes have the same key.
ASSUME PolicyAssumption ==
  /\ \A r \in DOMAIN Policy :
       /\ Policy[r].rate \in 0..100 /\ Policy[r].cost \in Nat
       /\ Policy[r].cooldown \in Nat /\ Policy[r].order \in Nat
  /\ \A r, s \in DOMAIN Policy : Policy[r].order = Policy[s].order => r = s

\* The nearest integer to n / d, the even one of two (ROUND_HALF_EVEN)
HalfEven(n, d) ==
  LET q == n \div d
      r == n % d
  IN  IF 2 * r > d \/ (2 * r = d /\ q % 2 = 1) THEN q + 1 ELSE q

Percent(x) == x * (Scale \div 100)

\* The routes of get_default_policy; order is their place in the alphabet.
DefaultPolicy ==
  LET Route(targets, rate, cost, cooldown, diagnosed, strong, order) ==
        [targets |-> targets, rate |-> rate, cost |-> cost, cooldown |-> cooldown,
         requires_diagnosis |-> diagnosed, requires_strong_rca |-> strong, order |-> order]
  IN [DEGRADATION_CIRCUIT_BYPASS   |->
        Route({"BANK", "PAYMENT_METHOD"}, 75, 500, 900, TRUE, TRUE, 1),
      DYNAMIC_RETRY_BACKOFF        |->
        Route({"GLOBAL", "BANK", "PAYMENT_METHOD"}, 35, 50, 180, FALSE, FALSE, 2),
      FALLBACK_PAYMENT_LINK        |-> Route({"GLOBAL"}, 45, 200, 1800, FALSE, FALSE, 3),
      PROMPT_PAYMENT_METHOD_SWITCH |-> Route({"PAYMENT_METHOD"}, 65, 300, 600, TRUE, TRUE, 4),
      RETRY_SECONDARY_GATEWAY      |-> Route({"BANK", "GLOBAL"}, 55, 150, 300, TRUE, FALSE, 5)]

Routes == DOMAIN Policy

ActThreshold     == Percent(70)
MonitorThreshold == Percent(35)
MinUtility       == 50
CostCurrency     == "INR"

-----------------------------------------------------------------------------
(* What Stage 4 says of an episode: its classification and the candidate   *)
(* of rank 1, with whether the payment has the candidate's value.  Only a  *)
(* SEGMENT_SPECIFIC evaluation has a candidate.                            *)

NoCandidate(class) ==
  [class |-> class, dimension |-> "NONE", own |-> FALSE, strength |-> "NONE"]

Segment(dimension, own, strength) ==
  [class |-> "SEGMENT_SPECIFIC", dimension |-> dimension, own |-> own, strength |-> strength]

\* rca_candidate_matches_payment_segment
Matches(evidence) == evidence.class = "SEGMENT_SPECIFIC" /\ evidence.own

\* Stage 5: DeterministicBaselineModel.predict, from the global failure rate, the
\* severity of the episode and the evidence
Degraded(severity) ==
  CASE severity = "CRITICAL" -> Percent(30)
    [] severity = "HIGH"     -> Percent(15)
    [] severity = "MODERATE" -> Percent(5)
    [] OTHER                 -> 0

Implicated(evidence) ==
  CASE Matches(evidence) /\ evidence.strength = "STRONG"   -> Percent(20)
    [] Matches(evidence) /\ evidence.strength = "MODERATE" -> Percent(10)
    [] OTHER                                               -> 0

Probability(rate, severity, evidence) ==
  LET p == (Percent(5) + rate) \div 2 + Degraded(severity) + Implicated(evidence)
  IN  IF p > Scale THEN Scale ELSE p

-----------------------------------------------------------------------------
(* The facts of a decision: amount, currency, method and bank of the       *)
(* authorization (the latter two as whether they are known), the           *)
(* probability and the match flag of the prediction, the evidence, the     *)
(* routes on cooldown and whether a terminal event is known.               *)

\* Mutated form of Applies: the match flag is ignored.
AppliesUnmatched(route, facts) ==
  IF route.requires_diagnosis
  THEN \/ /\ facts.evidence.class = "SEGMENT_SPECIFIC"
          /\ facts.evidence.dimension \in route.targets
       \/ facts.evidence.class = "SYSTEMIC" /\ "GLOBAL" \in route.targets
  ELSE \/ "GLOBAL" \in route.targets
       \/ "BANK" \in route.targets /\ facts.bank
       \/ "PAYMENT_METHOD" \in route.targets /\ facts.method

\* A route that needs a diagnosis must fit it, any other the payment.
Applies(route, facts) ==
  IF route.requires_diagnosis
  THEN \/ /\ facts.evidence.class = "SEGMENT_SPECIFIC"
          /\ facts.matches
          /\ facts.evidence.dimension \in route.targets
       \/ facts.evidence.class = "SYSTEMIC" /\ "GLOBAL" \in route.targets
  ELSE \/ "GLOBAL" \in route.targets
       \/ "BANK" \in route.targets /\ facts.bank
       \/ "PAYMENT_METHOD" \in route.targets /\ facts.method

Eligible(r, facts) ==
  /\ facts.currency = CostCurrency
  /\ r \notin facts.cooling
  /\ Policy[r].requires_strong_rca => facts.evidence.strength \in {"STRONG", "MODERATE"}
  /\ Applies(Policy[r], facts)

\* Mutated form of Utility: the benefit is not weighed with the risk.
UtilityUnweighed(r, facts) ==
  HalfEven(facts.amount * (Scale - facts.probability) * Policy[r].rate, Scale * 100)
    - Policy[r].cost

Utility(r, facts) ==
  HalfEven(facts.amount * facts.probability * Policy[r].rate, Scale * 100) - Policy[r].cost

\* r comes before s: by utility, then by cost, then by name.
Before(r, s, facts) ==
  LET u == Utility(r, facts)
      v == Utility(s, facts)
  IN  \/ u > v
      \/ u = v /\ Policy[r].cost < Policy[s].cost
      \/ u = v /\ Policy[r].cost = Policy[s].cost /\ Policy[r].order < Policy[s].order

Best(candidates, facts) ==
  CHOOSE r \in candidates : \A s \in candidates \ {r} : Before(r, s, facts)

Verdict(type, route, gate) == [type |-> type, route |-> route, gate |-> gate]
NoAction(gate)  == Verdict("NO_ACTION", "NONE", gate)

\* The verdict on risk alone: it needs no costs.
ByRisk(p) ==
  Verdict(IF p >= MonitorThreshold THEN "MONITOR" ELSE "NO_ACTION", "NONE", "PASSED")

\* The gates in their order, the candidates, and determine_verdict; the limit on ACT
\* decisions per minute, which comes after them, is RecoveryPipeline's.
Decide(facts) ==
  LET candidates == {r \in Routes : Eligible(r, facts)}
      risky      == facts.probability >= ActThreshold
      best       == Best(candidates, facts)
  IN CASE facts.amount <= 0 -> NoAction("FAILED_INVALID_AMOUNT")
       [] facts.amount > 0 /\ facts.terminal -> NoAction("FAILED_TERMINAL_OUTCOME_INGESTED")
       [] facts.amount > 0 /\ ~facts.terminal /\ candidates = {} ->
            IF ~risky THEN ByRisk(facts.probability)
            ELSE NoAction(IF facts.currency = CostCurrency
                          THEN "FAILED_NO_ELIGIBLE_ROUTES" ELSE "FAILED_UNSUPPORTED_COST_CURRENCY")
       [] OTHER ->
            IF risky /\ Utility(best, facts) >= MinUtility
            THEN Verdict("ACT", best, "PASSED") ELSE ByRisk(facts.probability)
==============================================================================
