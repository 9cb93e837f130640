---------------------------- MODULE Attribution -------------------------------
(***************************************************************************)
(* The arithmetic of Stage 8: how much of a captured payment is credited   *)
(* to the intervention, from the amount, the predicted risk and the        *)
(* strength of the evidence.                                               *)
(***************************************************************************)
EXTENDS Decisioning

ProvenanceWeight(provenance) ==
  CASE provenance = "EMPIRICAL_PRODUCTION"  -> Percent(100)
    [] provenance = "SYNTHETIC_DEVELOPMENT" -> Percent(60)
    [] OTHER                                -> Percent(30)

DiagnosisWeight(strength) ==
  CASE strength = "STRONG"   -> Percent(100)
    [] strength = "MODERATE" -> Percent(85)
    [] strength = "WEAK"     -> Percent(70)
    [] OTHER                 -> Percent(60)

\* compute_timing_confidence: seconds from the end of the execution to the outcome
TimingWeight(delta) ==
  CASE delta <= 60  -> Percent(100)
    [] delta > 60 /\ delta <= 300 -> Percent(85)
    [] OTHER        -> Percent(60)

Floor == Percent(25)

\* Mutated form of Alpha: the weights are added up.
AlphaOfSum(provenance, strength, delta) ==
  ProvenanceWeight(provenance) + DiagnosisWeight(strength) + TimingWeight(delta)

\* alpha_confidence
Alpha(provenance, strength, delta) ==
  HalfEven(ProvenanceWeight(provenance) * DiagnosisWeight(strength) * TimingWeight(delta),
           Scale * Scale)

\* Before the clamps
Exposure(amount, p0)         == HalfEven(amount * p0, Scale)

Protected(amount, p0, alpha) == HalfEven(amount * p0 * alpha, Scale * Scale)

AtMost(x, bound) == IF x > bound THEN bound ELSE x
AtLeast0(x)      == IF x < 0 THEN 0 ELSE x

NoCredit(status, amount) ==
  [status |-> status, amount |-> amount, exposure |-> 0, natural |-> 0, protected |-> 0]

\* calculate_attribution, for an outcome that is known and a prediction that was made
Credit(amount, p0, treatment, outcome, provenance, strength, delta) ==
  LET alpha    == Alpha(provenance, strength, delta)
      exposure == AtLeast0(AtMost(Exposure(amount, p0), amount))
  IN CASE treatment = "UNTREATED" -> NoCredit("UNATTRIBUTED_UNTREATED", amount)
       [] treatment = "EXECUTION_FAILED" -> NoCredit("UNATTRIBUTED_EXECUTION_FAILED", amount)
       [] treatment = "TREATED" /\ outcome # "CAPTURED" ->
            NoCredit("UNATTRIBUTED_PAYMENT_FAILED", amount)
       [] treatment = "TREATED" /\ outcome = "CAPTURED" /\ alpha < Floor ->
            NoCredit("INDETERMINATE_INSUFFICIENT_EVIDENCE", amount)
       [] OTHER ->
            [status |-> "ATTRIBUTED", amount |-> amount, exposure |-> exposure,
             natural |-> AtLeast0(amount - exposure),
             protected |-> AtLeast0(AtMost(Protected(amount, p0, alpha), exposure))]
==============================================================================
