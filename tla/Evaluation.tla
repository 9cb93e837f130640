----------------------------- MODULE Evaluation -------------------------------
(***************************************************************************)
(* One payment attempt from its authorizations to its credit: what Stage 5 *)
(* reads of Stage 4 and of the history, what Stage 6 makes of it, and what *)
(* Stage 8 credits.  RecoveryPipeline models the transactions and leaves   *)
(* the values open; this module has the values, and of the interleavings   *)
(* those that change them:                                                 *)
(*                                                                         *)
(*   - an event is stamped (ingested_at, generated_at) before it is        *)
(*     committed and the two may be far apart, so that rows appear in      *)
(*     another order than that of their stamps: whatever is committed here *)
(*     has any stamp, and no clock is needed;                              *)
(*   - Stage 4 commits a new evaluation between the prediction of a        *)
(*     trigger and its decision, which read it separately;                 *)
(*   - several triggers of the attempt are decided in any order.  The      *)
(*     version lock makes the rest of a trigger's task, from the append of *)
(*     its prediction to its commit, one step for others: MakeDecision.    *)
(***************************************************************************)
EXTENDS Attribution, Sequences, FiniteSets

CONSTANTS
  Triggers,        \* authorization events of the attempt
  Instants,        \* times, in seconds
  Amounts,         \* minor units an authorization may state
  Rates,           \* global failure rates of the history
  Settings,        \* what stays as it is: see setting
  Evidence,        \* results of Stage 4
  Duration,        \* time from the claim to the end of an execution
  MaxEvaluations,  \* bound: evaluations of the episode by Stage 4
  None             \* no row

ASSUME EvaluationAssumption ==
  /\ Instants \subseteq Nat /\ Amounts \subseteq Nat /\ Rates \subseteq 0..Scale
  /\ Duration \in Nat
  /\ None \notin [ingested_at : Instants, amount : Amounts]

VARIABLES
  setting,       \* currency, method and bank known, severity of the episode
  evaluations,   \* Stage 4's of the episode: [generated_at, evidence], by version
  auth,          \* of each trigger: [ingested_at, amount]
  pc,            \* of each trigger
  features,      \* of each trigger with a prediction and no decision yet: its probability,
                 \* its match flag and the evaluations there were
  decisions,     \* table: in order of version
  outcome,       \* the terminal event: [type, timestamp, ingested_at]
  attributions   \* table: of the commands its task found

stage1 == <<auth, outcome>>
vars   == <<setting, evaluations, stage1, pc, features, decisions, attributions>>

Stamps == {auth[e].ingested_at : e \in {x \in Triggers : auth[x] # None}}

\* The authorizations ingested at or before t, and the latest of them
AsOf(t)   == {e \in Triggers : auth[e] # None /\ auth[e].ingested_at <= t}
Latest(t) == {e \in AsOf(t) : \A x \in AsOf(t) : auth[x].ingested_at <= auth[e].ingested_at}

\* A terminal event was ingested before t.
Terminal(t) == outcome # None /\ outcome.ingested_at < t

Goto(e, label) == pc' = [pc EXCEPT ![e] = label]

-----------------------------------------------------------------------------
(* What Stage 5 and Stage 6 read *)

\* get_rca_context: the latest version generated before t, for a degraded payment
EvidenceAsOf(t) ==
  LET known == {v \in DOMAIN evaluations : evaluations[v].generated_at < t} IN
  IF setting.severity = "NONE" \/ known = {}
  THEN NoCandidate("NONE")
  ELSE evaluations[CHOOSE v \in known : \A w \in known : w <= v].evidence

\* Mutated form of Cooling: a decision of the future of t does not count.
CoolingAfter(t) ==
  {r \in Routes : \E i \in DOMAIN decisions :
     /\ decisions[i].type = "ACT" /\ decisions[i].route = r
     /\ decisions[i].decided_at \in t - Policy[r].cooldown .. t}

\* has_recent_route_decision
Cooling(t) ==
  {r \in Routes : \E i \in DOMAIN decisions :
     /\ decisions[i].type = "ACT" /\ decisions[i].route = r
     /\ decisions[i].decided_at >= t - Policy[r].cooldown}

\* What the decision of e is made of, x being the authorization it is sized by.
\* The match flag is that of the prediction, the evidence is read again.
FactsOf(e, x) ==
  LET t == auth[e].ingested_at IN
  [amount |-> auth[x].amount, currency |-> setting.currency, method |-> setting.method,
   bank |-> setting.bank, probability |-> features[e].probability,
   matches |-> features[e].matches, evidence |-> EvidenceAsOf(t), cooling |-> Cooling(t),
   terminal |-> Terminal(t)]

-----------------------------------------------------------------------------
(* Actions *)

\* Stage 4 appends an evaluation.
Evaluate ==
  /\ Len(evaluations) < MaxEvaluations
  /\ setting.severity # "NONE"
  /\ \E x \in Evidence, t \in Instants :
       evaluations' = Append(evaluations, [generated_at |-> t, evidence |-> x])
  /\ UNCHANGED <<setting, stage1, pc, features, decisions, attributions>>

\* An authorization is committed; events are stamped apart.
Store(e) ==
  /\ pc[e] = "none"
  /\ \E a \in Amounts, t \in Instants \ Stamps :
       auth' = [auth EXCEPT ![e] = [ingested_at |-> t, amount |-> a]]
  /\ Goto(e, "stored")
  /\ UNCHANGED <<setting, evaluations, outcome, features, decisions, attributions>>

\* Stage 5 of a trigger's task.  Without volume, or after a terminal event, there is no
\* probability, and unless one is above one half the task is done.
Predict(e) ==
  LET t == auth[e].ingested_at IN
  /\ pc[e] = "stored"
  /\ \/ \E rate \in Rates :
          LET p == Probability(rate, setting.severity, EvidenceAsOf(t)) IN
          /\ ~Terminal(t) /\ p > Percent(50)
          /\ features' = [features EXCEPT ![e] =
               [probability |-> p, matches |-> Matches(EvidenceAsOf(t)),
                evaluated |-> Len(evaluations)]]
          /\ Goto(e, "predicted")
     \/ Goto(e, "done") /\ UNCHANGED features
  /\ UNCHANGED <<setting, evaluations, stage1, decisions, attributions>>

\* Stages 6 and 7 of the task: an ACT decision has a command, executed at once.
MakeDecision(e) ==
  LET t == auth[e].ingested_at IN
  /\ pc[e] = "predicted"
  /\ \E x \in Latest(t), result \in {"SUCCESS", "FAILURE"} :
       LET facts   == FactsOf(e, x)
           verdict == Decide(facts)
       IN decisions' = Append(decisions,
            [decided_at |-> t, facts |-> facts, type |-> verdict.type, route |-> verdict.route,
             result |-> IF verdict.type = "ACT" THEN result ELSE "NONE",
             reread |-> Len(evaluations) # features[e].evaluated, stored |-> AsOf(t)])
  /\ features' = [features EXCEPT ![e] = None]
  /\ Goto(e, "done")
  /\ UNCHANGED <<setting, evaluations, stage1, attributions>>

\* The terminal event is committed.
Finish ==
  /\ outcome = None
  /\ \E type \in {"CAPTURED", "FAILED"}, at, t \in Instants :
       outcome' = [type |-> type, timestamp |-> at, ingested_at |-> t]
  /\ UNCHANGED <<setting, evaluations, auth, pc, features, decisions, attributions>>

\* Mutated form of CanonicalAmount: the cutoff is the time of the outcome.
CanonicalAmountNow(d) == {auth[e].amount : e \in Latest(outcome.ingested_at)}

\* get_canonical_payment_amount of the latest authorization when d was decided
CanonicalAmount(d) == {auth[e].amount : e \in Latest(d.decided_at)}

Treatment(d) ==
  CASE d.result # "SUCCESS" -> "EXECUTION_FAILED"
    [] d.result = "SUCCESS" /\ outcome.timestamp < d.decided_at + Duration -> "UNTREATED"
    [] OTHER -> "TREATED"

\* classify_model_provenance of the model that the live pipeline takes
Provenance == "SYNTHETIC_DEVELOPMENT"

CreditOf(d, amount) ==
  Credit(amount, d.facts.probability, Treatment(d), outcome.type, Provenance,
         d.facts.evidence.strength, outcome.timestamp - d.decided_at - Duration)

\* The terminal event's task attributes the commands it finds.
Attribute ==
  /\ outcome # None /\ attributions = None
  /\ LET commands == {i \in DOMAIN decisions : decisions[i].type = "ACT"} IN
     \E amount \in [commands -> Amounts] :
       /\ \A i \in commands : amount[i] \in CanonicalAmount(decisions[i])
       /\ attributions' = [i \in commands |-> CreditOf(decisions[i], amount[i])]
  /\ UNCHANGED <<setting, evaluations, stage1, pc, features, decisions>>

-----------------------------------------------------------------------------

Init ==
  /\ setting \in Settings
  /\ evaluations = <<>>
  /\ auth = [e \in Triggers |-> None]
  /\ pc = [e \in Triggers |-> "none"]
  /\ features = [e \in Triggers |-> None]
  /\ decisions = <<>>
  /\ outcome = None
  /\ attributions = None

Next ==
  \/ Evaluate \/ Finish \/ Attribute
  \/ \E e \in Triggers : Store(e) \/ Predict(e) \/ MakeDecision(e)

Spec == Init /\ [][Next]_vars

-----------------------------------------------------------------------------
(* Properties *)

Acts == {i \in DOMAIN decisions : decisions[i].type = "ACT"}

(***************************************************************************)
(* Cooldown: the route of an ACT decision is not taken again for the       *)
(* attempt until its cooldown is over, in whatever order the triggers are  *)
(* decided: a decision that catches up finds the later ones.               *)
(***************************************************************************)
RoutesCoolDown ==
  \A i, j \in Acts :
    i < j /\ decisions[i].route = decisions[j].route
      => decisions[i].decided_at + Policy[decisions[i].route].cooldown < decisions[j].decided_at

(***************************************************************************)
(* A route that needs a diagnosis is taken only where the diagnosis is of  *)
(* the payment and of a dimension the route treats, or of everything.  The *)
(* two halves come from different reads, so a decision before which Stage  *)
(* 4 committed another evaluation is left out: there the flag of one       *)
(* candidate may admit a route for another.                                *)
(***************************************************************************)
DiagnosedRouteFits ==
  \A i \in Acts :
    LET route    == Policy[decisions[i].route]
        evidence == decisions[i].facts.evidence
    IN route.requires_diagnosis /\ ~decisions[i].reread
         => \/ evidence.class = "SYSTEMIC" /\ "GLOBAL" \in route.targets
            \/ Matches(evidence) /\ evidence.dimension \in route.targets

(***************************************************************************)
(* ACT is monotone in the stakes: what is acted upon would also be acted   *)
(* upon if the risk or the amount were greater.                            *)
(***************************************************************************)
ActMonotone ==
  [][\A i \in Acts' \ Acts :
       LET facts == decisions'[i].facts IN
       \A p \in facts.probability .. Scale, a \in Amounts :
         a >= facts.amount
           => Decide([facts EXCEPT !.probability = p, !.amount = a]).type = "ACT"]_decisions

(***************************************************************************)
(* Credit is measured on the amount that sized the intervention, read      *)
(* again from the authorizations, unless one that belongs before the       *)
(* decision was committed after it.                                        *)
(***************************************************************************)
CreditSized ==
  attributions # None =>
    \A i \in DOMAIN attributions :
      decisions[i].stored = AsOf(decisions[i].decided_at)
        => attributions[i].amount = decisions[i].facts.amount

(***************************************************************************)
(* The invariant of calculate_attribution, 0 <= protected <= exposure <=   *)
(* amount, holds of the rounded products themselves: the clamps behind     *)
(* them never change a value, and the parts of the amount add up to it.    *)
(***************************************************************************)
ClampsIdle ==
  attributions # None =>
    \A i \in DOMAIN attributions :
      LET d       == decisions[i]
          credit  == attributions[i]
          p0      == d.facts.probability
          alpha   == Alpha(Provenance, d.facts.evidence.strength,
                           outcome.timestamp - d.decided_at - Duration)
      IN credit.status = "ATTRIBUTED" =>
           /\ credit.protected = Protected(credit.amount, p0, alpha)
           /\ credit.exposure = Exposure(credit.amount, p0)
           /\ 0 <= credit.protected /\ credit.protected <= credit.exposure
           /\ credit.exposure + credit.natural = credit.amount
==============================================================================
