--------------------------- MODULE EvaluationProofs ----------------------------
(***************************************************************************)
(* Proofs about Stages 6 and 8 for every policy, scale, amount, risk and   *)
(* evidence: the roundings keep the order of what is rounded, the route    *)
(* ranked first is an eligible one, and from these the properties of       *)
(* Evaluation in every behaviour.                                          *)
(***************************************************************************)
EXTENDS Evaluation, TLAPS, WellFoundedInduction

-----------------------------------------------------------------------------
(* Sequences *)

LEMMA SeqWidens ==
  ASSUME NEW T, NEW s \in Seq(T), NEW x
  PROVE  s \in Seq(T \cup {x})
<1>1. s \in [1 .. Len(s) -> T] /\ Len(s) \in Nat
  OBVIOUS
<1>2. s \in [1 .. Len(s) -> T \cup {x}]
  BY <1>1
<1> QED BY <1>1, <1>2

\* A longer sequence keeps its earlier elements.
LEMMA AppendFacts ==
  ASSUME NEW T, NEW s \in Seq(T), NEW x \in T
  PROVE  /\ Append(s, x) \in Seq(T)
         /\ DOMAIN Append(s, x) = 1 .. Len(s) + 1 /\ DOMAIN s = 1 .. Len(s)
         /\ Append(s, x)[Len(s) + 1] = x
         /\ \A i \in 1 .. Len(s) : Append(s, x)[i] = s[i]
  OBVIOUS

-----------------------------------------------------------------------------
(* Rounding half even *)

(***************************************************************************)
(* A rounded quotient is within one half of the quotient, and even where   *)
(* it is one half away (Decimal.quantize with ROUND_HALF_EVEN).            *)
(***************************************************************************)
LEMMA HalfEvenBounds ==
  ASSUME NEW n \in Int, NEW d \in Nat \ {0}
  PROVE  /\ HalfEven(n, d) \in Int
         /\ 2 * n - d <= 2 * (HalfEven(n, d) * d)
         /\ 2 * (HalfEven(n, d) * d) <= 2 * n + d
         /\ 2 * n - d = 2 * (HalfEven(n, d) * d) => HalfEven(n, d) % 2 = 0
         /\ 2 * (HalfEven(n, d) * d) = 2 * n + d => HalfEven(n, d) % 2 = 0
<1> DEFINE q == n \div d
           r == n % d
<1>1. q \in Int /\ r \in 0 .. d - 1 /\ n = q * d + r
  OBVIOUS
<1>2. (q + 1) * d = q * d + d /\ q * d \in Int
  BY <1>1
<1>3. CASE 2 * r > d \/ (2 * r = d /\ q % 2 = 1)
  <2>1. HalfEven(n, d) = q + 1
    BY <1>3 DEF HalfEven
  <2>2. 2 * ((q + 1) * d) = 2 * n + d => 2 * r = d
    BY <1>1, <1>2
  <2>3. q % 2 = 1 => (q + 1) % 2 = 0
    BY <1>1
  <2> HIDE DEF q, r
  <2> QED BY <1>1, <1>2, <1>3, <2>1, <2>2, <2>3
<1>4. CASE ~(2 * r > d \/ (2 * r = d /\ q % 2 = 1))
  <2>1. HalfEven(n, d) = q
    BY <1>4 DEF HalfEven
  <2>2. q % 2 = 1 \/ q % 2 = 0
    BY <1>1
  <2> HIDE DEF q, r
  <2> QED BY <1>1, <1>2, <1>4, <2>1, <2>2
<1> QED BY <1>3, <1>4

(***************************************************************************)
(* Rounding keeps the order of two quotients, of whatever denominators.    *)
(***************************************************************************)
LEMMA HalfEvenMonotone ==
  ASSUME NEW m \in Int, NEW c \in Nat \ {0}, NEW n \in Int, NEW d \in Nat \ {0},
         m * d <= n * c
  PROVE  HalfEven(m, c) <= HalfEven(n, d)
<1> DEFINE a == HalfEven(m, c)
           b == HalfEven(n, d)
<1>1. /\ a \in Int /\ 2 * (a * c) <= 2 * m + c
      /\ 2 * (a * c) = 2 * m + c => a % 2 = 0
  BY HalfEvenBounds
<1>2. /\ b \in Int /\ 2 * n - d <= 2 * (b * d)
      /\ 2 * n - d = 2 * (b * d) => b % 2 = 0
  BY HalfEvenBounds
<1> HIDE DEF a, b
<1>3. SUFFICES ASSUME a > b PROVE FALSE
  BY <1>1, <1>2 DEF a, b
<1>4. (2 * a - 1) * c <= 2 * m /\ 2 * n <= (2 * b + 1) * d
  BY <1>1, <1>2
<1>5. ((2 * a - 1) * c) * d <= (2 * m) * d
  BY <1>1, <1>4
<1>6. (2 * n) * c <= ((2 * b + 1) * d) * c
  BY <1>2, <1>4
<1>7. (2 * a - 1) * (c * d) <= (2 * b + 1) * (c * d)
  BY <1>1, <1>2, <1>5, <1>6
<1>8. c * d \in Nat \ {0}
  OBVIOUS
<1>9. a = b + 1
  <2>1. 2 * a - 1 <= 2 * b + 1
    BY <1>1, <1>2, <1>7, <1>8
  <2> QED BY <1>1, <1>2, <1>3, <2>1
<1>10. ((2 * a - 1) * c) * d = (2 * m) * d /\ (2 * n) * c = ((2 * b + 1) * d) * c
  BY <1>1, <1>2, <1>5, <1>6, <1>9
<1>11. (2 * a - 1) * c = 2 * m /\ 2 * n = (2 * b + 1) * d
  BY <1>1, <1>2, <1>10
<1>12. a % 2 = 0 /\ b % 2 = 0
  BY <1>1, <1>2, <1>11
<1> QED BY <1>1, <1>2, <1>9, <1>12

\* A whole quotient is not rounded.
LEMMA HalfEvenWhole ==
  ASSUME NEW n \in Int, NEW d \in Nat \ {0}
  PROVE  HalfEven(n * d, d) = n
<1>1. (n * d) \div d = n /\ (n * d) % d = 0
  OBVIOUS
<1> QED BY <1>1 DEF HalfEven

-----------------------------------------------------------------------------
(* The parts of an amount *)

\* A percentage is a number of units between none and all of them.
LEMMA PercentWithin ==
  ASSUME NEW x \in 0 .. 100
  PROVE  Percent(x) \in 0 .. Scale
<1> DEFINE k == Scale \div 100
<1>1. k \in Nat /\ Scale = 100 * k
  BY DecisioningAssumption
<1>2. 0 <= x * k /\ x * k <= 100 * k /\ x * k \in Int
  BY <1>1
<1> HIDE DEF k
<1>3. x * k \in 0 .. Scale
  BY <1>1, <1>2
<1> QED BY <1>3 DEF Percent, k

(***************************************************************************)
(* alpha_confidence is a probability, for evidence of every kind.          *)
(***************************************************************************)
THEOREM AlphaWithin ==
  ASSUME NEW provenance, NEW strength, NEW delta
  PROVE  Alpha(provenance, strength, delta) \in 0 .. Scale
<1> DEFINE u == ProvenanceWeight(provenance)
           v == DiagnosisWeight(strength)
           w == TimingWeight(delta)
<1>1. u \in 0 .. Scale
  BY PercentWithin DEF ProvenanceWeight
<1>2. v \in 0 .. Scale
  BY PercentWithin DEF DiagnosisWeight
<1>3. w \in 0 .. Scale
  BY PercentWithin DEF TimingWeight
<1> HIDE DEF u, v, w
<1>4. Scale \in Nat \ {0} /\ Scale * Scale \in Nat \ {0}
  BY DecisioningAssumption
<1>5. u * v \in 0 .. Scale * Scale
  BY <1>1, <1>2, <1>4
<1>6. u * v * w \in 0 .. Scale * (Scale * Scale)
  <2>1. 0 <= u * v * w /\ u * v * w \in Int
    BY <1>3, <1>4, <1>5
  <2>2. (u * v) * w <= (Scale * Scale) * w
    BY <1>3, <1>4, <1>5
  <2>3. (Scale * Scale) * w <= Scale * (Scale * Scale)
    BY <1>3, <1>4
  <2> QED BY <1>3, <1>4, <1>5, <2>1, <2>2, <2>3
<1> DEFINE d == Scale * Scale
<1>7. HalfEven(u * v * w, d) <= HalfEven(Scale * d, d)
  <2>1. (u * v * w) * d <= (Scale * d) * d
    BY <1>4, <1>6
  <2> QED BY <1>4, <1>6, <2>1, HalfEvenMonotone
<1>8. HalfEven(0 * d, d) <= HalfEven(u * v * w, d)
  <2>1. (0 * d) * d <= (u * v * w) * d
    BY <1>4, <1>6
  <2> QED BY <1>4, <1>6, <2>1, HalfEvenMonotone
<1>9. HalfEven(Scale * d, d) = Scale /\ HalfEven(0 * d, d) = 0
  BY <1>4, HalfEvenWhole
<1>10. HalfEven(u * v * w, d) \in Int
  BY <1>4, <1>6, HalfEvenBounds
<1> QED BY <1>4, <1>7, <1>8, <1>9, <1>10 DEF Alpha, u, v, w

(***************************************************************************)
(* The invariant of calculate_attribution holds of the rounded products    *)
(* before anything is clamped: no double rounding can take the protected   *)
(* part beyond the exposure, or the exposure beyond the amount.            *)
(***************************************************************************)
THEOREM PartsOrdered ==
  ASSUME NEW amount \in Nat, NEW p0 \in 0 .. Scale, NEW alpha \in 0 .. Scale
  PROVE  /\ Protected(amount, p0, alpha) \in Int /\ Exposure(amount, p0) \in Int
         /\ 0 <= Protected(amount, p0, alpha)
         /\ Protected(amount, p0, alpha) <= Exposure(amount, p0)
         /\ Exposure(amount, p0) <= amount
<1> DEFINE e == amount * p0
           d == Scale * Scale
<1>1. Scale \in Nat \ {0} /\ d \in Nat \ {0}
  BY DecisioningAssumption
<1>2. e \in Nat /\ e <= amount * Scale /\ amount * Scale \in Nat
  BY <1>1
<1>3. e * alpha \in Nat /\ e * alpha <= e * Scale
  BY <1>1, <1>2
<1>4. Protected(amount, p0, alpha) = HalfEven(e * alpha, d) /\ Exposure(amount, p0) = HalfEven(e, Scale)
  BY DEF Protected, Exposure
<1>5. HalfEven(e * alpha, d) \in Int /\ HalfEven(e, Scale) \in Int
  BY <1>1, <1>2, <1>3, HalfEvenBounds
<1>6. HalfEven(e, Scale) <= HalfEven(amount * Scale, Scale)
  <2>1. e * Scale <= (amount * Scale) * Scale
    BY <1>1, <1>2
  <2> QED BY <1>1, <1>2, <2>1, HalfEvenMonotone
<1>7. HalfEven(e * alpha, d) <= HalfEven(e, Scale)
  <2>1. (e * alpha) * Scale <= e * d
    <3>1. (e * alpha) * Scale <= (e * Scale) * Scale
      BY <1>1, <1>2, <1>3
    <3> QED BY <1>1, <1>2, <3>1
  <2> HIDE DEF e, d
  <2> QED BY <1>1, <1>2, <1>3, <2>1, HalfEvenMonotone
<1>8. HalfEven(0 * d, d) <= HalfEven(e * alpha, d)
  <2>1. (0 * d) * d <= (e * alpha) * d
    BY <1>1, <1>3
  <2> HIDE DEF e, d
  <2> QED BY <1>1, <1>3, <2>1, HalfEvenMonotone
<1>9. HalfEven(amount * Scale, Scale) = amount /\ HalfEven(0 * d, d) = 0
  BY <1>1, HalfEvenWhole
<1> QED BY <1>4, <1>5, <1>6, <1>7, <1>8, <1>9

-----------------------------------------------------------------------------
(* The probabilities and the credits of a behaviour *)

(***************************************************************************)
(* The deterministic model answers with a probability, whatever the        *)
(* severity and the evidence add to the blended rate.                      *)
(***************************************************************************)
THEOREM ProbabilityWithin ==
  ASSUME NEW rate \in 0 .. Scale, NEW severity, NEW evidence
  PROVE  Probability(rate, severity, evidence) \in 0 .. Scale
<1>1. Scale \in Nat
  BY DecisioningAssumption
<1>2. (Percent(5) + rate) \div 2 \in Nat
  BY <1>1, PercentWithin
<1>3. Degraded(severity) \in Nat
  BY <1>1, PercentWithin DEF Degraded
<1>4. Implicated(evidence) \in Nat
  BY <1>1, PercentWithin DEF Implicated
<1> QED BY <1>1, <1>2, <1>3, <1>4 DEF Probability

(***************************************************************************)
(* An attributed credit is the rounded products of its payment's amount.   *)
(***************************************************************************)
LEMMA CreditClamps ==
  ASSUME NEW amount \in Nat, NEW p0 \in 0 .. Scale, NEW treatment, NEW type,
         NEW provenance, NEW strength, NEW delta,
         Credit(amount, p0, treatment, type, provenance, strength, delta).status = "ATTRIBUTED"
  PROVE  LET credit == Credit(amount, p0, treatment, type, provenance, strength, delta)
             alpha  == Alpha(provenance, strength, delta)
         IN  /\ credit.protected = Protected(credit.amount, p0, alpha)
             /\ credit.exposure = Exposure(credit.amount, p0)
             /\ 0 <= credit.protected /\ credit.protected <= credit.exposure
             /\ credit.exposure + credit.natural = credit.amount
<1> DEFINE credit   == Credit(amount, p0, treatment, type, provenance, strength, delta)
           alpha    == Alpha(provenance, strength, delta)
           exposure == AtLeast0(AtMost(Exposure(amount, p0), amount))
<1>1. credit = [status |-> "ATTRIBUTED", amount |-> amount, exposure |-> exposure,
                natural |-> AtLeast0(amount - exposure),
                protected |-> AtLeast0(AtMost(Protected(amount, p0, alpha), exposure))]
  BY DEF Credit, NoCredit
<1>2. alpha \in 0 .. Scale
  BY AlphaWithin
<1>3. /\ Protected(amount, p0, alpha) \in Int /\ Exposure(amount, p0) \in Int
      /\ 0 <= Protected(amount, p0, alpha)
      /\ Protected(amount, p0, alpha) <= Exposure(amount, p0)
      /\ Exposure(amount, p0) <= amount
  BY <1>2, PartsOrdered
<1>4. exposure = Exposure(amount, p0)
  BY <1>3 DEF AtLeast0, AtMost
<1>5. AtLeast0(AtMost(Protected(amount, p0, alpha), exposure)) = Protected(amount, p0, alpha)
  BY <1>3, <1>4 DEF AtLeast0, AtMost
<1>6. AtLeast0(amount - exposure) = amount - Exposure(amount, p0)
  BY <1>3, <1>4 DEF AtLeast0
<1> HIDE DEF credit, alpha, exposure
<1>7. /\ credit.amount = amount /\ credit.exposure = Exposure(amount, p0)
      /\ credit.natural = amount - Exposure(amount, p0)
      /\ credit.protected = Protected(amount, p0, alpha)
  BY <1>1, <1>4, <1>5, <1>6
<1>8. credit.exposure + credit.natural = credit.amount
  BY <1>3, <1>7
<1> QED BY <1>3, <1>7, <1>8 DEF credit, alpha

\* Every probability that a task holds or a decision states is one.
ProbabilitiesOK ==
  /\ pc \in [Triggers -> {"none", "stored", "predicted", "done"}] /\ DOMAIN features = Triggers
  /\ \A e \in Triggers : pc[e] = "predicted" => features[e].probability \in 0 .. Scale
  /\ \E S : decisions \in Seq(S)
  /\ \A i \in DOMAIN decisions : decisions[i].facts.probability \in 0 .. Scale

\* The credits are those of the decisions, for some amount, and the outcome that is known.
CreditsOK ==
  attributions # None =>
    /\ outcome # None
    /\ \A i \in DOMAIN attributions :
         i \in DOMAIN decisions /\ \E a \in Nat : attributions[i] = CreditOf(decisions[i], a)

CreditInv == ProbabilitiesOK /\ CreditsOK

LEMMA CreditInvInit == Init => CreditInv
<1> SUFFICES ASSUME Init PROVE CreditInv
  OBVIOUS
<1>1. decisions \in Seq({}) /\ DOMAIN decisions = {}
  BY DEF Init
<1> QED BY <1>1 DEF Init, CreditInv, ProbabilitiesOK, CreditsOK

\* The credit of a decision depends on nothing else than the outcome.
LEMMA CreditKept ==
  ASSUME CreditsOK, attributions' = attributions, outcome # None => outcome' = outcome,
         \A i \in DOMAIN decisions : i \in DOMAIN decisions' /\ decisions'[i] = decisions[i]
  PROVE  CreditsOK'
<1> SUFFICES ASSUME attributions # None, NEW i \in DOMAIN attributions
             PROVE  /\ outcome' # None /\ i \in DOMAIN decisions'
                    /\ \E a \in Nat : attributions[i] = CreditOf(decisions[i], a)'
  BY DEF CreditsOK
<1>1. /\ outcome # None /\ outcome' = outcome /\ i \in DOMAIN decisions
      /\ \E a \in Nat : attributions[i] = CreditOf(decisions[i], a)
  BY DEF CreditsOK
<1> QED BY <1>1 DEF CreditOf, Treatment

LEMMA CreditInvNext == CreditInv /\ [Next]_vars => CreditInv'
<1> SUFFICES ASSUME CreditInv, [Next]_vars PROVE CreditInv'
  OBVIOUS
<1> USE DEF CreditInv
<1>1. CASE UNCHANGED vars
  <2>1. ProbabilitiesOK'
    BY <1>1 DEF vars, ProbabilitiesOK
  <2> QED BY <1>1, <2>1, CreditKept DEF vars, stage1
<1>2. CASE Evaluate
  <2>1. ProbabilitiesOK'
    BY <1>2 DEF Evaluate, ProbabilitiesOK
  <2> QED BY <1>2, <2>1, CreditKept DEF Evaluate, stage1
<1>3. CASE Finish
  <2>1. ProbabilitiesOK'
    BY <1>3 DEF Finish, ProbabilitiesOK
  <2> QED BY <1>3, <2>1, CreditKept DEF Finish
<1>4. ASSUME NEW e \in Triggers, Store(e)
      PROVE  CreditInv'
  <2>1. ProbabilitiesOK'
    BY <1>4 DEF Store, Goto, ProbabilitiesOK
  <2> QED BY <1>4, <2>1, CreditKept DEF Store
<1>5. ASSUME NEW e \in Triggers, Predict(e)
      PROVE  CreditInv'
  <2>1. ProbabilitiesOK'
    <3>1. CASE \E rate \in Rates :
                 LET p == Probability(rate, setting.severity, EvidenceAsOf(auth[e].ingested_at)) IN
                 /\ features' = [features EXCEPT ![e] =
                      [probability |-> p, matches |-> Matches(EvidenceAsOf(auth[e].ingested_at)),
                       evaluated |-> Len(evaluations)]]
                 /\ Goto(e, "predicted")
      <4>1. PICK rate \in Rates :
              /\ features' = [features EXCEPT ![e] =
                   [probability |->
                      Probability(rate, setting.severity, EvidenceAsOf(auth[e].ingested_at)),
                    matches |-> Matches(EvidenceAsOf(auth[e].ingested_at)),
                    evaluated |-> Len(evaluations)]]
              /\ Goto(e, "predicted")
        BY <3>1
      <4>2. rate \in 0 .. Scale
        BY EvaluationAssumption
      <4>3. Probability(rate, setting.severity, EvidenceAsOf(auth[e].ingested_at)) \in 0 .. Scale
        BY <4>2, ProbabilityWithin
      <4>4. decisions' = decisions
        BY <1>5 DEF Predict
      <4> QED BY <1>5, <4>1, <4>3, <4>4 DEF Goto, ProbabilitiesOK
    <3>2. CASE Goto(e, "done") /\ UNCHANGED features
      BY <1>5, <3>2 DEF Predict, Goto, ProbabilitiesOK
    <3> QED BY <1>5, <3>1, <3>2 DEF Predict
  <2> QED BY <1>5, <2>1, CreditKept DEF Predict, stage1
<1>6. ASSUME NEW e \in Triggers, MakeDecision(e)
      PROVE  CreditInv'
  <2>1. PICK d : /\ decisions' = Append(decisions, d)
                 /\ d.facts.probability = features[e].probability
    BY <1>6 DEF MakeDecision, FactsOf
  <2>2. PICK S : decisions \in Seq(S)
    BY DEF ProbabilitiesOK
  <2>3. /\ decisions' \in Seq(S \cup {d})
        /\ DOMAIN decisions' = 1 .. Len(decisions) + 1 /\ DOMAIN decisions = 1 .. Len(decisions)
        /\ decisions'[Len(decisions) + 1] = d
        /\ \A i \in 1 .. Len(decisions) : decisions'[i] = decisions[i]
    <3>1. decisions \in Seq(S \cup {d}) /\ d \in S \cup {d}
      BY <2>2, SeqWidens
    <3>2. decisions' = Append(decisions, d)
      BY <2>1
    <3> QED BY <3>1, <3>2, AppendFacts
  <2>4. features[e].probability \in 0 .. Scale
    BY <1>6 DEF MakeDecision, ProbabilitiesOK
  <2>5. \A i \in DOMAIN decisions' : decisions'[i].facts.probability \in 0 .. Scale
    BY <2>1, <2>2, <2>3, <2>4 DEF ProbabilitiesOK
  <2>6. ProbabilitiesOK'
    BY <1>6, <2>3, <2>5 DEF MakeDecision, Goto, ProbabilitiesOK
  <2>7. \A i \in DOMAIN decisions : i \in DOMAIN decisions' /\ decisions'[i] = decisions[i]
    BY <2>2, <2>3
  <2> QED BY <1>6, <2>6, <2>7, CreditKept DEF MakeDecision, stage1
<1>7. CASE Attribute
  <2>1. ProbabilitiesOK'
    BY <1>7 DEF Attribute, ProbabilitiesOK
  <2>2. outcome # None /\ UNCHANGED <<outcome, decisions>>
    BY <1>7 DEF Attribute, stage1
  <2> DEFINE commands == {i \in DOMAIN decisions : decisions[i].type = "ACT"}
  <2>3. PICK amount \in [commands -> Amounts] :
          attributions' = [i \in commands |-> CreditOf(decisions[i], amount[i])]
    BY <1>7 DEF Attribute
  <2>4. \A i \in commands : amount[i] \in Nat
    BY EvaluationAssumption
  <2>5. \A i \in DOMAIN attributions' :
          /\ i \in DOMAIN decisions
          /\ \E a \in Nat : attributions'[i] = CreditOf(decisions[i], a)
    BY <2>3, <2>4
  <2>6. \A i \in DOMAIN attributions' :
          /\ i \in DOMAIN decisions'
          /\ \E a \in Nat : attributions'[i] = CreditOf(decisions[i], a)'
    BY <2>2, <2>5 DEF CreditOf, Treatment
  <2> QED BY <2>1, <2>2, <2>6 DEF CreditsOK
<1> QED BY <1>1, <1>2, <1>3, <1>4, <1>5, <1>6, <1>7 DEF Next

(***************************************************************************)
(* In every behaviour and for every policy, amount, rate and evidence, the *)
(* clamps behind the roundings of calculate_attribution change nothing.    *)
(***************************************************************************)
THEOREM CreditsClampFree == Spec => []ClampsIdle
<1>1. CreditInv => ClampsIdle
  <2> SUFFICES ASSUME CreditInv, attributions # None, NEW i \in DOMAIN attributions,
                      attributions[i].status = "ATTRIBUTED"
               PROVE  LET d      == decisions[i]
                          credit == attributions[i]
                          p0     == d.facts.probability
                          alpha  == Alpha(Provenance, d.facts.evidence.strength,
                                          outcome.timestamp - d.decided_at - Duration)
                      IN  /\ credit.protected = Protected(credit.amount, p0, alpha)
                          /\ credit.exposure = Exposure(credit.amount, p0)
                          /\ 0 <= credit.protected /\ credit.protected <= credit.exposure
                          /\ credit.exposure + credit.natural = credit.amount
    BY DEF ClampsIdle
  <2>1. i \in DOMAIN decisions /\ decisions[i].facts.probability \in 0 .. Scale
    BY DEF CreditInv, CreditsOK, ProbabilitiesOK
  <2>2. PICK a \in Nat : attributions[i] = CreditOf(decisions[i], a)
    BY DEF CreditInv, CreditsOK
  <2> QED BY <2>1, <2>2, CreditClamps DEF CreditOf
<1> QED BY <1>1, CreditInvInit, CreditInvNext, PTL DEF Spec

-----------------------------------------------------------------------------
(* The choice of a route *)

\* A set of naturals with a member has a least one.
LEMMA LeastExists ==
  ASSUME NEW S \in SUBSET Nat, S # {}
  PROVE  \E m \in S : \A n \in S : m <= n
<1>1. PICK m \in S : \A n \in S : ~(<<n, m>> \in OpToRel(<, Nat))
  <2> HIDE DEF OpToRel
  <2>1. S \subseteq Nat
    OBVIOUS
  <2> QED BY <2>1, NatLessThanWellFounded, WFMin, Zenon
<1>2. \A n \in S : ~(n < m)
  BY <1>1 DEF OpToRel
<1> QED BY <1>2

\* A set of which a function has naturals as values has a member of the least value.
LEMMA LeastValue ==
  ASSUME NEW R, NEW f \in [R -> Nat], NEW C \in SUBSET R, C # {}
  PROVE  \E r \in C : \A s \in C : f[r] <= f[s]
<1>1. {f[r] : r \in C} \in SUBSET Nat /\ {f[r] : r \in C} # {}
  OBVIOUS
<1>2. PICK m \in {f[r] : r \in C} : \A n \in {f[r] : r \in C} : m <= n
  BY <1>1, LeastExists
<1> QED BY <1>2

\* The facts that a probability, an amount and a policy make a utility of
FactsOK(facts) == facts.amount \in Nat /\ facts.probability \in 0 .. Scale

(***************************************************************************)
(* calculate_policy_utility: a benefit is no negative number and at most   *)
(* the amount, from which the cost is taken.                               *)
(***************************************************************************)
LEMMA UtilityWithin ==
  ASSUME NEW facts, FactsOK(facts), NEW r \in Routes
  PROVE  Utility(r, facts) \in Int /\ Utility(r, facts) <= facts.amount
<1> DEFINE a == facts.amount
           p == facts.probability
           k == Policy[r].rate
           b == Scale * 100
<1>1. a \in Nat /\ p \in 0 .. Scale /\ k \in 0 .. 100 /\ Policy[r].cost \in Nat
  BY PolicyAssumption DEF FactsOK, Routes
<1>2. Scale \in Nat \ {0} /\ b \in Nat \ {0}
  BY DecisioningAssumption
<1> HIDE DEF a, p, k
<1>3. a * p \in Nat /\ a * p <= a * Scale /\ a * Scale \in Nat
  BY <1>1, <1>2
<1>4. a * p * k \in Nat /\ a * p * k <= a * b
  <2>1. a * p * k \in Nat /\ (a * p) * k <= (a * p) * 100
    BY <1>1, <1>3
  <2> QED BY <1>1, <1>2, <1>3, <2>1
<1>5. HalfEven(a * p * k, b) <= HalfEven(a * b, b)
  <2>1. (a * p * k) * b <= (a * b) * b
    BY <1>1, <1>2, <1>4
  <2> HIDE DEF b
  <2> QED BY <1>1, <1>2, <1>4, <2>1, HalfEvenMonotone
<1>6. HalfEven(a * b, b) = a /\ HalfEven(a * p * k, b) \in Int
  BY <1>1, <1>2, <1>4, HalfEvenWhole, HalfEvenBounds
<1>7. Utility(r, facts) = HalfEven(a * p * k, b) - Policy[r].cost
  BY DEF Utility, a, p, k
<1> HIDE DEF b
<1> QED BY <1>1, <1>5, <1>6, <1>7 DEF a

\* A greater risk or a greater amount takes nothing from the utility of a route.
LEMMA UtilityMonotone ==
  ASSUME NEW facts, FactsOK(facts), NEW more, FactsOK(more), NEW r \in Routes,
         facts.amount <= more.amount, facts.probability <= more.probability
  PROVE  Utility(r, facts) <= Utility(r, more)
<1> DEFINE a == facts.amount
           p == facts.probability
           c == more.amount
           q == more.probability
           k == Policy[r].rate
           b == Scale * 100
<1>1. /\ a \in Nat /\ p \in Nat /\ c \in Nat /\ q \in Nat /\ k \in Nat
      /\ a <= c /\ p <= q /\ Policy[r].cost \in Nat
  BY PolicyAssumption, DecisioningAssumption DEF FactsOK, Routes
<1>2. b \in Nat \ {0}
  BY DecisioningAssumption
<1> HIDE DEF a, p, c, q, k, b
<1>3. a * p \in Nat /\ c * q \in Nat /\ a * p <= c * q
  <2>1. a * p \in Nat /\ c * q \in Nat /\ c * p \in Nat
    BY <1>1
  <2>2. a * p <= c * p /\ c * p <= c * q
    BY <1>1
  <2> QED BY <2>1, <2>2
<1>4. a * p * k \in Nat /\ c * q * k \in Nat /\ a * p * k <= c * q * k
  BY <1>1, <1>3
<1>5. (a * p * k) * b <= (c * q * k) * b
  BY <1>2, <1>4
<1>6. HalfEven(a * p * k, b) <= HalfEven(c * q * k, b)
  BY <1>2, <1>4, <1>5, HalfEvenMonotone
<1>7. HalfEven(a * p * k, b) \in Int /\ HalfEven(c * q * k, b) \in Int
  BY <1>2, <1>4, HalfEvenBounds
<1>8. /\ Utility(r, facts) = HalfEven(a * p * k, b) - Policy[r].cost
      /\ Utility(r, more) = HalfEven(c * q * k, b) - Policy[r].cost
  BY DEF Utility, a, p, c, q, k, b
<1> QED BY <1>1, <1>6, <1>7, <1>8

(***************************************************************************)
(* score_and_rank_candidates: among candidates there is one that comes     *)
(* before every other, so that the one ranked first is a candidate, and no *)
(* other has a greater utility.                                            *)
(***************************************************************************)
THEOREM BestIsCandidate ==
  ASSUME NEW facts, FactsOK(facts), NEW C \in SUBSET Routes, C # {}
  PROVE  /\ Best(C, facts) \in C
         /\ \A s \in C : Utility(s, facts) <= Utility(Best(C, facts), facts)
<1> DEFINE u == [r \in Routes |-> Utility(r, facts)]
           loss == [r \in Routes |-> facts.amount - Utility(r, facts)]
           cost == [r \in Routes |-> Policy[r].cost]
           order == [r \in Routes |-> Policy[r].order]
<1>1. \A r \in Routes : Utility(r, facts) \in Int /\ Utility(r, facts) <= facts.amount
  BY UtilityWithin
<1>2. loss \in [Routes -> Nat] /\ cost \in [Routes -> Nat] /\ order \in [Routes -> Nat]
  BY <1>1, PolicyAssumption DEF FactsOK, Routes
<1> HIDE DEF loss, cost, order
<1>3. PICK r1 \in C : \A s \in C : loss[r1] <= loss[s]
  BY <1>2, LeastValue
<1> DEFINE D == {s \in C : loss[s] = loss[r1]}
<1>4. PICK r2 \in D : \A s \in D : cost[r2] <= cost[s]
  <2>1. D \in SUBSET Routes /\ D # {}
    OBVIOUS
  <2> HIDE DEF D
  <2> QED BY <1>2, <2>1, LeastValue
<1> DEFINE F == {s \in D : cost[s] = cost[r2]}
<1>5. PICK r3 \in F : \A s \in F : order[r3] <= order[s]
  <2>1. F \in SUBSET Routes /\ F # {}
    OBVIOUS
  <2> HIDE DEF D, F
  <2> QED BY <1>2, <2>1, LeastValue
<1>6. \A s \in C \ {r3} : Before(r3, s, facts)
  <2> SUFFICES ASSUME NEW s \in C \ {r3} PROVE Before(r3, s, facts)
    OBVIOUS
  <2>1. /\ loss[s] = facts.amount - Utility(s, facts) /\ cost[s] = Policy[s].cost
        /\ order[s] = Policy[s].order
        /\ loss[r3] = facts.amount - Utility(r3, facts) /\ cost[r3] = Policy[r3].cost
        /\ order[r3] = Policy[r3].order
    BY DEF loss, cost, order
  <2>2. /\ Utility(s, facts) \in Int /\ Utility(r3, facts) \in Int
        /\ Policy[s].cost \in Nat /\ Policy[r3].cost \in Nat
        /\ Policy[s].order \in Nat /\ Policy[r3].order \in Nat
        /\ Policy[s].order # Policy[r3].order
        /\ facts.amount \in Nat
    BY <1>1, PolicyAssumption DEF FactsOK, Routes
  <2>3. loss[r3] = loss[r1] /\ cost[r3] = cost[r2]
    BY <1>5
  <2>4. CASE loss[s] # loss[r1]
    <3>1. Utility(r3, facts) > Utility(s, facts)
      BY <1>3, <2>1, <2>2, <2>3, <2>4
    <3> QED BY <3>1 DEF Before
  <2>5. CASE loss[s] = loss[r1] /\ cost[s] # cost[r2]
    <3>1. cost[r2] <= cost[s]
      BY <1>4, <2>5
    <3>2. Utility(r3, facts) = Utility(s, facts) /\ Policy[r3].cost < Policy[s].cost
      BY <2>1, <2>2, <2>3, <2>5, <3>1
    <3> QED BY <3>2 DEF Before
  <2>6. CASE loss[s] = loss[r1] /\ cost[s] = cost[r2]
    <3>1. order[r3] <= order[s]
      BY <1>5, <2>6
    <3>2. /\ Utility(r3, facts) = Utility(s, facts) /\ Policy[r3].cost = Policy[s].cost
          /\ Policy[r3].order < Policy[s].order
      BY <2>1, <2>2, <2>3, <2>6, <3>1
    <3> QED BY <3>2 DEF Before
  <2> QED BY <2>4, <2>5, <2>6
<1>7. r3 \in C
  OBVIOUS
<1> HIDE DEF D, F
<1>8. /\ Best(C, facts) \in C
      /\ \A s \in C \ {Best(C, facts)} : Before(Best(C, facts), s, facts)
  BY <1>6, <1>7 DEF Best
<1>9. \A r, s \in Routes : Before(r, s, facts) => Utility(s, facts) <= Utility(r, facts)
  BY <1>1 DEF Before
<1>10. \A s \in C : Utility(s, facts) <= Utility(Best(C, facts), facts)
  <2> SUFFICES ASSUME NEW s \in C
               PROVE  Utility(s, facts) <= Utility(Best(C, facts), facts)
    OBVIOUS
  <2>1. s \in Routes /\ Best(C, facts) \in Routes /\ Utility(s, facts) \in Int
    BY <1>1, <1>8
  <2>2. CASE s = Best(C, facts)
    <3>1. Utility(s, facts) <= Utility(s, facts)
      BY <2>1
    <3> QED BY <2>2, <3>1
  <2>3. CASE s # Best(C, facts)
    BY <1>8, <1>9, <2>1, <2>3
  <2> QED BY <2>2, <2>3
<1> QED BY <1>8, <1>10

Candidates(facts) == {r \in Routes : Eligible(r, facts)}

(***************************************************************************)
(* determine_verdict: what is acted upon has an amount, a risk above the   *)
(* threshold and no known outcome, the route is an eligible one, and its   *)
(* utility is enough.                                                      *)
(***************************************************************************)
LEMMA ActIs ==
  ASSUME NEW facts, FactsOK(facts), Decide(facts).type = "ACT"
  PROVE  /\ facts.amount > 0 /\ ~facts.terminal /\ facts.probability >= ActThreshold
         /\ Candidates(facts) # {} /\ Decide(facts).route = Best(Candidates(facts), facts)
         /\ Decide(facts).route \in Routes /\ Eligible(Decide(facts).route, facts)
         /\ Utility(Best(Candidates(facts), facts), facts) >= MinUtility
<1> DEFINE C == Candidates(facts)
           risky == facts.probability >= ActThreshold
<1>1. \A gate : NoAction(gate).type # "ACT"
  BY DEF NoAction, Verdict
<1>2. ByRisk(facts.probability).type # "ACT"
  BY DEF ByRisk, Verdict
<1>3. Decide(facts) =
        CASE facts.amount <= 0 -> NoAction("FAILED_INVALID_AMOUNT")
          [] facts.amount > 0 /\ facts.terminal -> NoAction("FAILED_TERMINAL_OUTCOME_INGESTED")
          [] facts.amount > 0 /\ ~facts.terminal /\ C = {} ->
               IF ~risky THEN ByRisk(facts.probability)
               ELSE NoAction(IF facts.currency = CostCurrency
                             THEN "FAILED_NO_ELIGIBLE_ROUTES"
                             ELSE "FAILED_UNSUPPORTED_COST_CURRENCY")
          [] OTHER ->
               IF risky /\ Utility(Best(C, facts), facts) >= MinUtility
               THEN Verdict("ACT", Best(C, facts), "PASSED") ELSE ByRisk(facts.probability)
  BY DEF Decide, Candidates
<1> HIDE DEF C, risky
<1>4. facts.amount > 0 <=> ~(facts.amount <= 0)
  BY DEF FactsOK
<1>5. ~(facts.amount <= 0) /\ ~facts.terminal /\ C # {}
  BY <1>1, <1>2, <1>3, <1>4
<1>6. Decide(facts) = IF risky /\ Utility(Best(C, facts), facts) >= MinUtility
                      THEN Verdict("ACT", Best(C, facts), "PASSED") ELSE ByRisk(facts.probability)
  BY <1>3, <1>4, <1>5
<1>7. /\ risky /\ Utility(Best(C, facts), facts) >= MinUtility
      /\ Decide(facts) = Verdict("ACT", Best(C, facts), "PASSED")
  BY <1>2, <1>6
<1>8. Decide(facts).route = Best(C, facts)
  BY <1>7 DEF Verdict
<1>9. Best(C, facts) \in C
  BY <1>5, BestIsCandidate DEF C, Candidates
<1> QED BY <1>4, <1>5, <1>7, <1>8, <1>9 DEF C, Candidates, risky

(***************************************************************************)
(* The converse: with an eligible route of enough utility a risk above the *)
(* threshold is acted upon.                                                *)
(***************************************************************************)
LEMMA ActWhen ==
  ASSUME NEW facts, FactsOK(facts), facts.amount > 0, ~facts.terminal,
         facts.probability >= ActThreshold, NEW r \in Routes, Eligible(r, facts),
         Utility(r, facts) >= MinUtility
  PROVE  Decide(facts).type = "ACT"
<1> DEFINE C == Candidates(facts)
           risky == facts.probability >= ActThreshold
<1>1. r \in C /\ C \in SUBSET Routes
  BY DEF Candidates
<1>2. Utility(Best(C, facts), facts) >= MinUtility
  <2>1. Best(C, facts) \in Routes /\ Utility(r, facts) <= Utility(Best(C, facts), facts)
    BY <1>1, BestIsCandidate
  <2>2. Utility(r, facts) \in Int /\ Utility(Best(C, facts), facts) \in Int
    BY <2>1, UtilityWithin
  <2> QED BY <2>1, <2>2 DEF MinUtility
<1>3. Decide(facts) =
        CASE facts.amount <= 0 -> NoAction("FAILED_INVALID_AMOUNT")
          [] facts.amount > 0 /\ facts.terminal -> NoAction("FAILED_TERMINAL_OUTCOME_INGESTED")
          [] facts.amount > 0 /\ ~facts.terminal /\ C = {} ->
               IF ~risky THEN ByRisk(facts.probability)
               ELSE NoAction(IF facts.currency = CostCurrency
                             THEN "FAILED_NO_ELIGIBLE_ROUTES"
                             ELSE "FAILED_UNSUPPORTED_COST_CURRENCY")
          [] OTHER ->
               IF risky /\ Utility(Best(C, facts), facts) >= MinUtility
               THEN Verdict("ACT", Best(C, facts), "PASSED") ELSE ByRisk(facts.probability)
  BY DEF Decide, Candidates
<1>4. ~(facts.amount <= 0) /\ risky
  BY DEF FactsOK
<1> HIDE DEF C, risky
<1>5. Decide(facts) = Verdict("ACT", Best(C, facts), "PASSED")
  BY <1>1, <1>2, <1>3, <1>4
<1> QED BY <1>5 DEF Verdict

(***************************************************************************)
(* A verdict ACT stays one when the risk or the amount is greater.         *)
(***************************************************************************)
THEOREM ActGrows ==
  ASSUME NEW facts, FactsOK(facts), NEW more, FactsOK(more),
         facts.amount <= more.amount, facts.probability <= more.probability,
         more.terminal = facts.terminal, \A r \in Routes : Eligible(r, facts) => Eligible(r, more),
         Decide(facts).type = "ACT"
  PROVE  Decide(more).type = "ACT"
<1> DEFINE r == Best(Candidates(facts), facts)
<1>1. /\ facts.amount > 0 /\ ~facts.terminal /\ facts.probability >= ActThreshold
      /\ r \in Routes /\ Eligible(r, facts) /\ Utility(r, facts) >= MinUtility
  BY ActIs
<1> HIDE DEF r
<1>2. Utility(r, facts) <= Utility(r, more)
  BY <1>1, UtilityMonotone
<1>3. Utility(r, facts) \in Int /\ Utility(r, more) \in Int
  BY <1>1, UtilityWithin
<1>4. Utility(r, more) >= MinUtility
  BY <1>1, <1>2, <1>3 DEF MinUtility
<1>5. ActThreshold \in Int
  BY DecisioningAssumption, PercentWithin DEF ActThreshold
<1>6. more.amount > 0 /\ more.probability >= ActThreshold
  BY <1>1, <1>5, DecisioningAssumption DEF FactsOK
<1> QED BY <1>1, <1>4, <1>6, ActWhen

-----------------------------------------------------------------------------
(* The reads of a decision *)

\* A stored authorization is a row with a stamp of its own.
AuthOK ==
  /\ pc \in [Triggers -> {"none", "stored", "predicted", "done"}]
  /\ auth \in [Triggers -> {None} \cup [ingested_at : Instants, amount : Amounts]]
  /\ \A e \in Triggers : pc[e] = "none" <=> auth[e] = None
  /\ \A e, f \in Triggers :
       auth[e] # None /\ auth[f] # None /\ auth[e].ingested_at = auth[f].ingested_at => e = f

\* The match flag of a prediction is that of the evidence, unless Stage 4 has gone on.
FlagsOK ==
  /\ \E S : evaluations \in Seq(S)
  /\ DOMAIN features = Triggers
  /\ \A e \in Triggers : pc[e] = "predicted" =>
       /\ features[e].probability \in 0 .. Scale
       /\ features[e].evaluated \in 0 .. Len(evaluations)
       /\ features[e].evaluated = Len(evaluations)
            => features[e].matches = Matches(EvidenceAsOf(auth[e].ingested_at))

\* A row of the decisions: what it was made of, and that an ACT has a route which the
\* facts admitted.
DecisionOK(d) ==
  /\ d.decided_at \in Instants /\ FactsOK(d.facts)
  /\ d.type = "ACT" => d.route \in Routes /\ Eligible(d.route, d.facts)
  /\ ~d.reread => d.facts.matches = Matches(d.facts.evidence)

\* The authorization that sized a decision is the latest of those it found.
SizedBy(d, a) ==
  /\ d.stored \subseteq {e \in Triggers : a[e] # None /\ a[e].ingested_at <= d.decided_at}
  /\ \E x \in d.stored :
       /\ d.facts.amount = a[x].amount
       /\ \A y \in d.stored : a[y].ingested_at <= a[x].ingested_at

TableOK ==
  /\ \E S : decisions \in Seq(S)
  /\ \A i \in DOMAIN decisions : DecisionOK(decisions[i]) /\ SizedBy(decisions[i], auth)

ReadInv == AuthOK /\ FlagsOK /\ TableOK

\* Neither Stage 4 nor another event touches a row that is there.
LEMMA TableKept ==
  ASSUME TableOK, UNCHANGED decisions,
         \A e \in Triggers : auth[e] # None => auth'[e] = auth[e]
  PROVE  TableOK'
<1>1. PICK S : decisions' \in Seq(S)
  BY DEF TableOK
<1>2. \A i \in DOMAIN decisions' : DecisionOK(decisions'[i])
  BY DEF TableOK
<1>3. ASSUME NEW i \in DOMAIN decisions'
      PROVE  SizedBy(decisions'[i], auth')
  <2> DEFINE d == decisions[i]
  <2>1. SizedBy(d, auth) /\ decisions'[i] = d
    BY <1>3 DEF TableOK
  <2>2. \A e \in d.stored : auth'[e] = auth[e]
    BY <2>1 DEF SizedBy
  <2> HIDE DEF d
  <2>3. SizedBy(d, auth')
    BY <2>1, <2>2 DEF SizedBy
  <2> QED BY <2>1, <2>3
<1> QED BY <1>1, <1>2, <1>3 DEF TableOK, DecisionOK, SizedBy, FactsOK, Eligible, Applies

\* Nor do predictions change while Stage 4 rests.
LEMMA FlagsKept ==
  ASSUME FlagsOK, UNCHANGED <<setting, evaluations>>, DOMAIN features' = Triggers,
         \A e \in Triggers : pc'[e] = "predicted" =>
           pc[e] = "predicted" /\ features'[e] = features[e] /\ auth'[e] = auth[e]
  PROVE  FlagsOK'
<1>1. PICK S : evaluations' \in Seq(S)
  BY DEF FlagsOK
<1>2. ASSUME NEW e \in Triggers, pc'[e] = "predicted"
      PROVE  /\ features'[e].probability \in 0 .. Scale
             /\ features'[e].evaluated \in 0 .. Len(evaluations')
             /\ features'[e].evaluated = Len(evaluations')
                  => features'[e].matches = Matches(EvidenceAsOf(auth[e].ingested_at)')
  <2>1. /\ pc[e] = "predicted" /\ features'[e] = features[e] /\ auth'[e] = auth[e]
        /\ evaluations' = evaluations /\ setting' = setting
    BY <1>2
  <2>2. EvidenceAsOf(auth[e].ingested_at)' = EvidenceAsOf(auth[e].ingested_at)
    BY <2>1 DEF EvidenceAsOf
  <2> QED BY <2>1, <2>2 DEF FlagsOK
<1> QED BY <1>1, <1>2 DEF FlagsOK, Matches

LEMMA ReadInvInit == Init => ReadInv
<1> SUFFICES ASSUME Init PROVE ReadInv
  OBVIOUS
<1>1. decisions \in Seq({}) /\ DOMAIN decisions = {} /\ evaluations \in Seq({})
  BY DEF Init
<1>2. AuthOK
  BY DEF Init, AuthOK
<1>3. FlagsOK
  BY <1>1 DEF Init, FlagsOK
<1>4. TableOK
  BY <1>1 DEF TableOK
<1> QED BY <1>2, <1>3, <1>4 DEF ReadInv

LEMMA ReadInvNext == ReadInv /\ [Next]_vars => ReadInv'
<1> SUFFICES ASSUME ReadInv, [Next]_vars PROVE ReadInv'
  OBVIOUS
<1> USE DEF ReadInv
<1>1. CASE UNCHANGED vars
  <2>1. AuthOK'
    BY <1>1 DEF vars, stage1, AuthOK
  <2>2. FlagsOK'
    BY <1>1, FlagsKept DEF vars, stage1, FlagsOK
  <2> QED BY <1>1, <2>1, <2>2, TableKept DEF vars, stage1
<1>2. CASE Evaluate
  <2>1. AuthOK'
    BY <1>2 DEF Evaluate, stage1, AuthOK
  <2>2. PICK x : evaluations' = Append(evaluations, x)
    BY <1>2 DEF Evaluate
  <2>3. PICK S : evaluations \in Seq(S)
    BY DEF FlagsOK
  <2>4. evaluations' \in Seq(S \cup {x}) /\ Len(evaluations') = Len(evaluations) + 1
        /\ Len(evaluations) \in Nat
    <3>1. evaluations \in Seq(S \cup {x}) /\ x \in S \cup {x}
      BY <2>3, SeqWidens
    <3> QED BY <2>2, <3>1
  <2>5. FlagsOK'
    BY <1>2, <2>4 DEF Evaluate, stage1, FlagsOK
  <2> QED BY <1>2, <2>1, <2>5, TableKept DEF Evaluate, stage1
<1>3. CASE Finish
  <2>1. AuthOK'
    BY <1>3 DEF Finish, AuthOK
  <2>2. FlagsOK'
    BY <1>3, FlagsKept DEF Finish, FlagsOK
  <2> QED BY <1>3, <2>1, <2>2, TableKept DEF Finish
<1>4. ASSUME NEW e \in Triggers, Store(e)
      PROVE  ReadInv'
  <2>1. PICK a \in Amounts, t \in Instants \ Stamps :
          auth' = [auth EXCEPT ![e] = [ingested_at |-> t, amount |-> a]]
    BY <1>4 DEF Store
  <2>2. pc[e] = "none" /\ auth[e] = None /\ pc' = [pc EXCEPT ![e] = "stored"]
    BY <1>4 DEF Store, Goto, AuthOK
  <2>3. \A f \in Triggers : auth[f] # None => auth'[f] = auth[f]
    BY <2>1, <2>2 DEF AuthOK
  <2>4. auth' \in [Triggers -> {None} \cup [ingested_at : Instants, amount : Amounts]]
    BY <2>1 DEF AuthOK
  <2>5. auth'[e] # None /\ auth'[e].ingested_at = t
    BY <2>1, EvaluationAssumption DEF AuthOK
  <2>6. \A f \in Triggers \ {e} : auth'[f] = auth[f]
    BY <2>1 DEF AuthOK
  <2>7. \A f \in Triggers : auth[f] # None => auth[f].ingested_at # t
    BY <2>1 DEF Stamps
  <2>8. \A f, g \in Triggers :
          auth'[f] # None /\ auth'[g] # None /\ auth'[f].ingested_at = auth'[g].ingested_at
            => f = g
    BY <2>5, <2>6, <2>7 DEF AuthOK
  <2>9. AuthOK'
    BY <2>2, <2>4, <2>5, <2>6, <2>8 DEF AuthOK
  <2>10. FlagsOK'
    <3>1. \A f \in Triggers : pc'[f] = "predicted" => pc[f] = "predicted" /\ f # e
      BY <2>2 DEF AuthOK
    <3> QED BY <1>4, <2>6, <3>1, FlagsKept DEF Store, FlagsOK
  <2> QED BY <1>4, <2>3, <2>9, <2>10, TableKept DEF Store
<1>5. ASSUME NEW e \in Triggers, Predict(e)
      PROVE  ReadInv'
  <2>1. pc[e] = "stored" /\ UNCHANGED <<setting, evaluations, auth, decisions>>
    BY <1>5 DEF Predict, stage1
  <2>2. pc' = [pc EXCEPT ![e] = "predicted"] \/ pc' = [pc EXCEPT ![e] = "done"]
    BY <1>5 DEF Predict, Goto
  <2>3. AuthOK'
    BY <2>1, <2>2 DEF AuthOK
  <2>4. \A t : EvidenceAsOf(t)' = EvidenceAsOf(t)
    BY <2>1 DEF EvidenceAsOf
  <2>5. FlagsOK'
    <3>1. CASE \E rate \in Rates :
                 LET p == Probability(rate, setting.severity, EvidenceAsOf(auth[e].ingested_at)) IN
                 /\ features' = [features EXCEPT ![e] =
                      [probability |-> p, matches |-> Matches(EvidenceAsOf(auth[e].ingested_at)),
                       evaluated |-> Len(evaluations)]]
                 /\ Goto(e, "predicted")
      <4>1. PICK rate \in Rates :
              /\ features' = [features EXCEPT ![e] =
                   [probability |->
                      Probability(rate, setting.severity, EvidenceAsOf(auth[e].ingested_at)),
                    matches |-> Matches(EvidenceAsOf(auth[e].ingested_at)),
                    evaluated |-> Len(evaluations)]]
              /\ Goto(e, "predicted")
        BY <3>1
      <4>2. rate \in 0 .. Scale
        BY EvaluationAssumption
      <4>3. Probability(rate, setting.severity, EvidenceAsOf(auth[e].ingested_at)) \in 0 .. Scale
        BY <4>2, ProbabilityWithin
      <4>4. Len(evaluations) \in 0 .. Len(evaluations)
        BY DEF FlagsOK
      <4> DEFINE p == Probability(rate, setting.severity, EvidenceAsOf(auth[e].ingested_at))
                 m == Matches(EvidenceAsOf(auth[e].ingested_at))
      <4>5. p \in 0 .. Scale /\ features' = [features EXCEPT ![e] =
              [probability |-> p, matches |-> m, evaluated |-> Len(evaluations)]]
        BY <4>1, <4>3
      <4>6. m = Matches(EvidenceAsOf(auth[e].ingested_at))
        OBVIOUS
      <4> HIDE DEF p, m
      <4>7. /\ features'[e].probability = p /\ features'[e].evaluated = Len(evaluations)
            /\ features'[e].matches = m
            /\ \A f \in Triggers \ {e} : features'[f] = features[f]
            /\ DOMAIN features' = Triggers
        BY <4>5 DEF FlagsOK
      <4>8. \A f \in Triggers \ {e} : pc'[f] = pc[f]
        BY <2>2 DEF AuthOK
      <4>9. /\ evaluations' = evaluations /\ auth' = auth
            /\ EvidenceAsOf(auth[e].ingested_at)' = EvidenceAsOf(auth[e].ingested_at)
        BY <2>1, <2>4 DEF EvidenceAsOf
      <4>10. \A f \in Triggers \ {e} :
               EvidenceAsOf(auth[f].ingested_at)' = EvidenceAsOf(auth[f].ingested_at)
        BY <2>1 DEF EvidenceAsOf
      <4> QED BY <4>4, <4>5, <4>6, <4>7, <4>8, <4>9, <4>10 DEF FlagsOK, Matches
    <3>2. CASE Goto(e, "done") /\ UNCHANGED features
      <4>1. \A f \in Triggers : pc'[f] = "predicted" => pc[f] = "predicted"
        BY <2>1, <3>2 DEF Goto, AuthOK
      <4> QED BY <2>1, <3>2, <4>1, FlagsKept DEF FlagsOK
    <3> QED BY <1>5, <3>1, <3>2 DEF Predict
  <2> QED BY <2>1, <2>3, <2>5, TableKept
<1>6. ASSUME NEW e \in Triggers, MakeDecision(e)
      PROVE  ReadInv'
  <2> DEFINE t == auth[e].ingested_at
  <2>1. /\ pc[e] = "predicted" /\ pc' = [pc EXCEPT ![e] = "done"]
        /\ features' = [features EXCEPT ![e] = None] /\ UNCHANGED <<setting, evaluations, auth>>
    BY <1>6 DEF MakeDecision, Goto, stage1
  <2>2. AuthOK'
    BY <2>1 DEF AuthOK
  <2>3. FlagsOK'
    <3>1. \A f \in Triggers : pc'[f] = "predicted" => pc[f] = "predicted" /\ f # e
      BY <2>1 DEF AuthOK
    <3>2. DOMAIN features' = Triggers /\ \A f \in Triggers \ {e} : features'[f] = features[f]
      BY <2>1 DEF FlagsOK
    <3> QED BY <2>1, <3>1, <3>2, FlagsKept
  <2>4. PICK x \in Latest(t), result \in {"SUCCESS", "FAILURE"} :
          decisions' = Append(decisions,
            [decided_at |-> t, facts |-> FactsOf(e, x), type |-> Decide(FactsOf(e, x)).type,
             route |-> Decide(FactsOf(e, x)).route,
             result |-> IF Decide(FactsOf(e, x)).type = "ACT" THEN result ELSE "NONE",
             reread |-> Len(evaluations) # features[e].evaluated, stored |-> AsOf(t)])
    BY <1>6 DEF MakeDecision
  <2> DEFINE d == [decided_at |-> t, facts |-> FactsOf(e, x), type |-> Decide(FactsOf(e, x)).type,
                   route |-> Decide(FactsOf(e, x)).route,
                   result |-> IF Decide(FactsOf(e, x)).type = "ACT" THEN result ELSE "NONE",
                   reread |-> Len(evaluations) # features[e].evaluated, stored |-> AsOf(t)]
  <2>5. /\ decisions' = Append(decisions, d)
        /\ d.decided_at = t /\ d.facts = FactsOf(e, x) /\ d.type = Decide(FactsOf(e, x)).type
        /\ d.route = Decide(FactsOf(e, x)).route
        /\ d.reread <=> Len(evaluations) # features[e].evaluated
        /\ d.stored = AsOf(t)
    BY <2>4
  <2> HIDE DEF d
  <2>6. t \in Instants /\ auth[e] # None
    BY <2>1 DEF AuthOK
  <2>7. x \in Triggers /\ auth[x] # None /\ x \in AsOf(t)
        /\ \A y \in AsOf(t) : auth[y].ingested_at <= auth[x].ingested_at
    BY DEF Latest, AsOf
  <2>8. auth[x].amount \in Nat
    BY <2>7, EvaluationAssumption DEF AuthOK
  <2>9. /\ FactsOf(e, x).amount = auth[x].amount
        /\ FactsOf(e, x).probability = features[e].probability
        /\ FactsOf(e, x).matches = features[e].matches
        /\ FactsOf(e, x).evidence = EvidenceAsOf(t)
    BY DEF FactsOf
  <2> HIDE DEF t
  <2>10. FactsOK(FactsOf(e, x))
    BY <2>1, <2>8, <2>9 DEF FactsOK, FlagsOK
  <2>11. d.type = "ACT" => d.route \in Routes /\ Eligible(d.route, d.facts)
    BY <2>5, <2>10, ActIs
  <2>12. ~d.reread => d.facts.matches = Matches(d.facts.evidence)
    BY <2>1, <2>5, <2>9 DEF FlagsOK, t
  <2>13. DecisionOK(d)
    BY <2>5, <2>6, <2>10, <2>11, <2>12 DEF DecisionOK
  <2>14. SizedBy(d, auth)
    BY <2>5, <2>7, <2>9 DEF SizedBy, AsOf
  <2>15. PICK S : decisions \in Seq(S)
    BY DEF TableOK
  <2>16. /\ decisions' \in Seq(S \cup {d})
         /\ DOMAIN decisions' = 1 .. Len(decisions) + 1 /\ DOMAIN decisions = 1 .. Len(decisions)
         /\ Len(decisions) \in Nat
         /\ decisions'[Len(decisions) + 1] = d
         /\ \A i \in 1 .. Len(decisions) : decisions'[i] = decisions[i]
    <3>1. decisions \in Seq(S \cup {d}) /\ d \in S \cup {d} /\ Len(decisions) \in Nat
      BY <2>15, SeqWidens
    <3>2. decisions' = Append(decisions, d)
      BY <2>5
    <3> QED BY <3>1, <3>2, AppendFacts
  <2>17. \A i \in DOMAIN decisions' : DecisionOK(decisions'[i]) /\ SizedBy(decisions'[i], auth)
    BY <2>13, <2>14, <2>16 DEF TableOK
  <2>18. auth' = auth
    BY <2>1
  <2>19. TableOK'
    BY <2>16, <2>17, <2>18 DEF TableOK, DecisionOK, SizedBy, FactsOK, Eligible, Applies
  <2> QED BY <2>2, <2>3, <2>19
<1>7. CASE Attribute
  <2>1. AuthOK'
    BY <1>7 DEF Attribute, stage1, AuthOK
  <2>2. FlagsOK'
    BY <1>7, FlagsKept DEF Attribute, stage1, FlagsOK
  <2> QED BY <1>7, <2>1, <2>2, TableKept DEF Attribute, stage1
<1> QED BY <1>1, <1>2, <1>3, <1>4, <1>5, <1>6, <1>7 DEF Next

LEMMA Reads == Spec => []ReadInv
<1> QED BY ReadInvInit, ReadInvNext, PTL DEF Spec

-----------------------------------------------------------------------------
(* Cooldown, diagnosis, size and stakes *)

(***************************************************************************)
(* A decision appends one row, made of what it read.                       *)
(***************************************************************************)
LEMMA Decided ==
  ASSUME ReadInv, NEW e \in Triggers, MakeDecision(e)
  PROVE  \E d : /\ decisions' = Append(decisions, d)
                /\ DOMAIN decisions' = 1 .. Len(decisions) + 1
                /\ DOMAIN decisions = 1 .. Len(decisions) /\ Len(decisions) \in Nat
                /\ decisions'[Len(decisions) + 1] = d
                /\ \A i \in DOMAIN decisions : decisions'[i] = decisions[i]
                /\ d.type = Decide(d.facts).type
                /\ FactsOK(d.facts) /\ \E x : d.facts = FactsOf(e, x)
                /\ d.facts.cooling = Cooling(d.decided_at) /\ d.decided_at \in Instants
                /\ d.type = "ACT" => d.route \in Routes /\ Eligible(d.route, d.facts)
<1> DEFINE t == auth[e].ingested_at
<1>1. PICK x \in Latest(t), result \in {"SUCCESS", "FAILURE"} :
        decisions' = Append(decisions,
          [decided_at |-> t, facts |-> FactsOf(e, x), type |-> Decide(FactsOf(e, x)).type,
           route |-> Decide(FactsOf(e, x)).route,
           result |-> IF Decide(FactsOf(e, x)).type = "ACT" THEN result ELSE "NONE",
           reread |-> Len(evaluations) # features[e].evaluated, stored |-> AsOf(t)])
  BY DEF MakeDecision
<1> DEFINE d == [decided_at |-> t, facts |-> FactsOf(e, x), type |-> Decide(FactsOf(e, x)).type,
                 route |-> Decide(FactsOf(e, x)).route,
                 result |-> IF Decide(FactsOf(e, x)).type = "ACT" THEN result ELSE "NONE",
                 reread |-> Len(evaluations) # features[e].evaluated, stored |-> AsOf(t)]
<1>2. /\ decisions' = Append(decisions, d)
      /\ d.decided_at = t /\ d.facts = FactsOf(e, x) /\ d.type = Decide(d.facts).type
      /\ d.facts.cooling = Cooling(t)
  BY <1>1 DEF FactsOf
<1> HIDE DEF d, t
<1>3. PICK S : decisions \in Seq(S)
  BY DEF ReadInv, TableOK
<1>4. /\ DOMAIN decisions' = 1 .. Len(decisions) + 1 /\ DOMAIN decisions = 1 .. Len(decisions)
      /\ Len(decisions) \in Nat
      /\ decisions'[Len(decisions) + 1] = d
      /\ \A i \in 1 .. Len(decisions) : decisions'[i] = decisions[i]
  <2>1. decisions \in Seq(S \cup {d}) /\ d \in S \cup {d} /\ Len(decisions) \in Nat
    BY <1>3, SeqWidens
  <2> QED BY <1>2, <2>1, AppendFacts
<1>5. TableOK'
  BY ReadInvNext DEF Next, ReadInv
<1>6. DecisionOK(d)
  <2>1. Len(decisions) + 1 \in DOMAIN decisions'
    BY <1>4
  <2>2. DecisionOK(decisions'[Len(decisions) + 1])
    BY <1>5, <2>1 DEF TableOK, DecisionOK, FactsOK, Eligible, Applies
  <2> QED BY <1>4, <2>2
<1> QED BY <1>2, <1>4, <1>6 DEF DecisionOK

(***************************************************************************)
(* has_recent_route_decision: in whatever order the triggers of an attempt *)
(* are decided, no route is taken within the cooldown of an earlier one.   *)
(***************************************************************************)
THEOREM RoutesCoolDownHolds == Spec => []RoutesCoolDown
<1>1. Init => RoutesCoolDown
  BY DEF Init, RoutesCoolDown, Acts
<1>2. ReadInv /\ RoutesCoolDown /\ [Next]_vars => RoutesCoolDown'
  <2> SUFFICES ASSUME ReadInv, RoutesCoolDown, [Next]_vars PROVE RoutesCoolDown'
    OBVIOUS
  <2>1. CASE UNCHANGED decisions
    BY <2>1 DEF RoutesCoolDown, Acts
  <2>2. ASSUME NEW e \in Triggers, MakeDecision(e)
        PROVE  RoutesCoolDown'
    <3>1. PICK d :
            /\ DOMAIN decisions' = 1 .. Len(decisions) + 1
            /\ DOMAIN decisions = 1 .. Len(decisions) /\ Len(decisions) \in Nat
            /\ decisions'[Len(decisions) + 1] = d
            /\ \A i \in DOMAIN decisions : decisions'[i] = decisions[i]
            /\ d.facts.cooling = Cooling(d.decided_at) /\ d.decided_at \in Instants
            /\ d.type = "ACT" => d.route \in Routes /\ Eligible(d.route, d.facts)
      BY <2>2, Decided
    <3> SUFFICES ASSUME NEW i \in Acts', NEW j \in Acts', i < j,
                        decisions'[i].route = decisions'[j].route
                 PROVE  decisions'[i].decided_at + Policy[decisions'[i].route].cooldown
                          < decisions'[j].decided_at
      BY DEF RoutesCoolDown
    <3>2. /\ i \in 1 .. Len(decisions) + 1 /\ j \in 1 .. Len(decisions) + 1
          /\ decisions'[i].type = "ACT" /\ decisions'[j].type = "ACT"
      BY <3>1 DEF Acts
    <3>3. i \in DOMAIN decisions /\ decisions'[i] = decisions[i]
      BY <3>1, <3>2
    <3>4. CASE j \in DOMAIN decisions
      <4>1. decisions'[j] = decisions[j]
        BY <3>1, <3>4
      <4> QED BY <3>2, <3>3, <3>4, <4>1 DEF RoutesCoolDown, Acts
    <3>5. CASE j = Len(decisions) + 1
      <4>1. decisions'[j] = d /\ d.type = "ACT" /\ d.route = decisions[i].route
        BY <3>1, <3>2, <3>3, <3>5
      <4>2. d.route \in Routes /\ d.route \notin Cooling(d.decided_at)
        BY <3>1, <4>1 DEF Eligible
      <4>3. ~(decisions[i].decided_at >= d.decided_at - Policy[d.route].cooldown)
        BY <3>2, <3>3, <4>1, <4>2 DEF Cooling
      <4>4. /\ decisions[i].decided_at \in Nat /\ d.decided_at \in Nat
            /\ Policy[d.route].cooldown \in Nat
        BY <3>1, <3>3, <4>2, PolicyAssumption, EvaluationAssumption
           DEF ReadInv, TableOK, DecisionOK, Routes
      <4> QED BY <3>3, <4>1, <4>3, <4>4
    <3> QED BY <3>1, <3>2, <3>4, <3>5
  <2>3. UNCHANGED decisions \/ \E e \in Triggers : MakeDecision(e)
    BY DEF Next, vars, Evaluate, Finish, Attribute, Store, Predict
  <2> QED BY <2>1, <2>2, <2>3
<1> QED BY <1>1, <1>2, Reads, PTL DEF Spec

(***************************************************************************)
(* evaluate_route_eligibility: a route that needs a diagnosis is taken     *)
(* only where the diagnosis fits it, when prediction and decision read the *)
(* same evaluation.                                                        *)
(***************************************************************************)
THEOREM DiagnosedRouteFitsHolds == Spec => []DiagnosedRouteFits
<1>1. ReadInv => DiagnosedRouteFits
  <2> SUFFICES ASSUME ReadInv, NEW i \in Acts,
                      Policy[decisions[i].route].requires_diagnosis, ~decisions[i].reread
               PROVE  LET route    == Policy[decisions[i].route]
                          evidence == decisions[i].facts.evidence
                      IN \/ evidence.class = "SYSTEMIC" /\ "GLOBAL" \in route.targets
                         \/ Matches(evidence) /\ evidence.dimension \in route.targets
    BY DEF DiagnosedRouteFits
  <2>1. DecisionOK(decisions[i]) /\ decisions[i].type = "ACT"
    BY DEF ReadInv, TableOK, Acts
  <2>2. /\ Applies(Policy[decisions[i].route], decisions[i].facts)
        /\ decisions[i].facts.matches = Matches(decisions[i].facts.evidence)
    BY <2>1 DEF DecisionOK, Eligible
  <2> QED BY <2>2 DEF Applies, Matches
<1> QED BY <1>1, Reads, PTL

\* A credit states the amount it was measured on (calculate_attribution).
LEMMA CreditAmount ==
  ASSUME NEW amount, NEW p0, NEW treatment, NEW type, NEW provenance, NEW strength, NEW delta,
         treatment \in {"UNTREATED", "EXECUTION_FAILED", "TREATED"}
  PROVE  Credit(amount, p0, treatment, type, provenance, strength, delta).amount = amount
BY DEF Credit, NoCredit

(***************************************************************************)
(* get_canonical_payment_amount: credit is measured on the amount that     *)
(* sized the intervention, unless an authorization of its past came late.  *)
(***************************************************************************)
THEOREM CreditSizedHolds == Spec => []CreditSized
<1>1. Init => CreditSized
  BY DEF Init, CreditSized
<1>2. ReadInv /\ CreditInv /\ CreditSized /\ [Next]_vars => CreditSized'
  <2> SUFFICES ASSUME ReadInv, CreditInv, CreditSized, [Next]_vars,
                      attributions' # None, NEW i \in DOMAIN attributions',
                      (decisions[i].stored = AsOf(decisions[i].decided_at))'
               PROVE  attributions'[i].amount = decisions'[i].facts.amount
    BY DEF CreditSized
  <2>1. CASE attributions' = attributions
    <3>1. i \in DOMAIN decisions
      BY <2>1 DEF CreditInv, CreditsOK
    <3>2. decisions'[i] = decisions[i]
      <4>1. ASSUME NEW e \in Triggers, MakeDecision(e)
            PROVE  decisions'[i] = decisions[i]
        BY <3>1, <4>1, Decided
      <4>2. UNCHANGED decisions \/ \E e \in Triggers : MakeDecision(e)
        BY DEF Next, vars, Evaluate, Finish, Attribute, Store, Predict
      <4> QED BY <4>1, <4>2
    <3> DEFINE d == decisions[i]
    <3>3. \A e \in Triggers : auth[e] # None => auth'[e] = auth[e]
      <4>1. ASSUME NEW f \in Triggers, Store(f)
            PROVE  \A e \in Triggers : auth[e] # None => auth'[e] = auth[e]
        BY <4>1 DEF Store, ReadInv, AuthOK
      <4>2. UNCHANGED auth \/ \E f \in Triggers : Store(f)
        BY DEF Next, vars, stage1, Evaluate, Finish, Attribute, MakeDecision, Predict
      <4> QED BY <4>1, <4>2
    <3>4. SizedBy(d, auth)
      BY <3>1 DEF ReadInv, TableOK
    <3>5. d.stored = {e \in Triggers : auth'[e] # None /\ auth'[e].ingested_at <= d.decided_at}
      BY <3>2 DEF AsOf
    <3> HIDE DEF d
    <3>6. \A e \in Triggers : auth[e] # None /\ auth[e].ingested_at <= d.decided_at
            => e \in d.stored
      <4> SUFFICES ASSUME NEW e \in Triggers, auth[e] # None,
                          auth[e].ingested_at <= d.decided_at
                   PROVE  e \in d.stored
        OBVIOUS
      <4>1. auth'[e] = auth[e]
        BY <3>3
      <4> QED BY <3>5, <4>1
    <3>7. d.stored = AsOf(d.decided_at)
      BY <3>4, <3>6 DEF SizedBy, AsOf
    <3> QED BY <2>1, <3>2, <3>7 DEF CreditSized, d
  <2>2. CASE Attribute
    <3> DEFINE commands == {k \in DOMAIN decisions : decisions[k].type = "ACT"}
    <3>1. PICK amount \in [commands -> Amounts] :
            /\ \A k \in commands : amount[k] \in CanonicalAmount(decisions[k])
            /\ attributions' = [k \in commands |-> CreditOf(decisions[k], amount[k])]
      BY <2>2 DEF Attribute
    <3>2. /\ i \in commands /\ attributions'[i] = CreditOf(decisions[i], amount[i])
          /\ amount[i] \in CanonicalAmount(decisions[i])
      BY <3>1
    <3>3. UNCHANGED <<decisions, auth>>
      BY <2>2 DEF Attribute, stage1
    <3> DEFINE d == decisions[i]
    <3>4. SizedBy(d, auth) /\ d.stored = AsOf(d.decided_at)
      BY <3>2, <3>3 DEF ReadInv, TableOK, AsOf
    <3>5. Treatment(d) \in {"UNTREATED", "EXECUTION_FAILED", "TREATED"}
      BY DEF Treatment
    <3>6. attributions'[i].amount = amount[i]
      BY <3>2, <3>5, CreditAmount DEF CreditOf
    <3>7. PICK e \in Latest(d.decided_at) : amount[i] = auth[e].amount
      BY <3>2 DEF CanonicalAmount
    <3> HIDE DEF d
    <3>8. PICK x \in d.stored : /\ d.facts.amount = auth[x].amount
                                /\ \A y \in d.stored : auth[y].ingested_at <= auth[x].ingested_at
      BY <3>4 DEF SizedBy
    <3>9. x \in Triggers /\ e \in Triggers /\ auth[x] # None /\ auth[e] # None
          /\ auth[x].ingested_at <= auth[e].ingested_at
          /\ auth[e].ingested_at <= auth[x].ingested_at
      BY <3>4, <3>7, <3>8 DEF Latest, AsOf
    <3>10. auth[x].ingested_at \in Nat /\ auth[e].ingested_at \in Nat
      BY <3>9, EvaluationAssumption DEF ReadInv, AuthOK
    <3>11. auth[x].ingested_at = auth[e].ingested_at
      BY <3>9, <3>10
    <3>12. \A f, g \in Triggers :
             auth[f] # None /\ auth[g] # None /\ auth[f].ingested_at = auth[g].ingested_at
               => f = g
      BY DEF ReadInv, AuthOK
    <3>13. x = e
      BY <3>9, <3>11, <3>12
    <3> QED BY <3>3, <3>6, <3>7, <3>8, <3>13 DEF d
  <2>3. attributions' = attributions \/ Attribute
    BY DEF Next, vars, Evaluate, Finish, Store, Predict, MakeDecision
  <2> QED BY <2>1, <2>2, <2>3
<1> QED BY <1>1, <1>2, Reads, CreditInvInit, CreditInvNext, PTL DEF Spec

(***************************************************************************)
(* determine_verdict and calculate_policy_utility: what is acted upon      *)
(* would also be acted upon at a greater risk or for a greater amount.     *)
(***************************************************************************)
THEOREM ActMonotoneHolds == Spec => ActMonotone
<1>1. ReadInv /\ [Next]_vars =>
        [\A i \in Acts' \ Acts :
           LET facts == decisions'[i].facts IN
           \A p \in facts.probability .. Scale, a \in Amounts :
             a >= facts.amount
               => Decide([facts EXCEPT !.probability = p, !.amount = a]).type = "ACT"]_decisions
  <2> SUFFICES ASSUME ReadInv, [Next]_vars, ~UNCHANGED decisions
               PROVE  \A i \in Acts' \ Acts :
                        LET facts == decisions'[i].facts IN
                        \A p \in facts.probability .. Scale, a \in Amounts :
                          a >= facts.amount
                            => Decide([facts EXCEPT !.probability = p, !.amount = a]).type = "ACT"
    BY Zenon
  <2> SUFFICES ASSUME NEW i \in Acts' \ Acts,
                      NEW p \in decisions'[i].facts.probability .. Scale, NEW a \in Amounts,
                      a >= decisions'[i].facts.amount
               PROVE  Decide([decisions'[i].facts EXCEPT !.probability = p,
                                                         !.amount = a]).type = "ACT"
    OBVIOUS
  <2>1. PICK e \in Triggers : MakeDecision(e)
    BY DEF Next, vars, Evaluate, Finish, Attribute, Store, Predict
  <2>2. PICK d :
          /\ DOMAIN decisions' = 1 .. Len(decisions) + 1
          /\ DOMAIN decisions = 1 .. Len(decisions) /\ Len(decisions) \in Nat
          /\ decisions'[Len(decisions) + 1] = d
          /\ \A k \in DOMAIN decisions : decisions'[k] = decisions[k]
          /\ d.type = Decide(d.facts).type /\ FactsOK(d.facts)
          /\ \E x : d.facts = FactsOf(e, x)
    BY <2>1, Decided
  <2>3. decisions'[i] = d /\ d.type = "ACT"
    BY <2>2 DEF Acts
  <2>4. PICK x : d.facts = FactsOf(e, x)
    BY <2>2
  <2> DEFINE facts == d.facts
             more  == [facts EXCEPT !.probability = p, !.amount = a]
  <2>5. /\ more.probability = p /\ more.amount = a /\ more.terminal = facts.terminal
        /\ more.currency = facts.currency /\ more.cooling = facts.cooling
        /\ more.evidence = facts.evidence /\ more.matches = facts.matches
        /\ more.bank = facts.bank /\ more.method = facts.method
    BY <2>4 DEF FactsOf
  <2>6. facts = decisions'[i].facts /\ FactsOK(facts) /\ Decide(facts).type = "ACT"
    BY <2>2, <2>3
  <2> HIDE DEF facts, more
  <2>7. /\ p \in 0 .. Scale /\ a \in Nat
        /\ facts.amount <= a /\ facts.probability <= p
    BY <2>6, EvaluationAssumption, DecisioningAssumption DEF FactsOK
  <2>8. FactsOK(more)
    BY <2>5, <2>7 DEF FactsOK
  <2>9. \A r \in Routes : Eligible(r, facts) => Eligible(r, more)
    BY <2>5 DEF Eligible, Applies
  <2>10. Decide(more).type = "ACT"
    BY <2>5, <2>6, <2>7, <2>8, <2>9, ActGrows
  <2> QED BY <2>3, <2>10 DEF facts, more
<1> QED BY <1>1, Reads, PTL DEF Spec, ActMonotone
==============================================================================
