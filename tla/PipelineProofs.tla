--------------------------- MODULE PipelineProofs ----------------------------
(***************************************************************************)
(* Proofs about RecoveryPipeline for every set of attempts, events and     *)
(* routes and every limit.                                                 *)
(*                                                                         *)
(* IInv is the inductive invariant.  Its parts say, in the order in which  *)
(* they are used: the types (TypeInv), that every versioned table has a    *)
(* greatest version (VersionInv), what a task may hold at each label       *)
(* (TaskInv), which locks guard its uncommitted rows (LockInv), the rate   *)
(* limit over finitely many ACT decisions (RateInv), whose rows a trigger  *)
(* task writes (MineInv), that a key has one provider (RegistryInv,        *)
(* OwnedInv), that uncommitted versions are greater than committed ones    *)
(* (FreshInv), and which event an observed outcome is of (OutcomeInv).     *)
(*                                                                         *)
(* CreditIInv adds what lies behind a credit, a command that was withheld  *)
(* and two observations of a command; its parts are defined further below. *)
(***************************************************************************)
EXTENDS RecoveryPipeline, FiniteSetTheorems, WellFoundedInduction, TLAPS

Ids == Attempts \X Nat
Outcomes == {"UNKNOWN_IN_FLIGHT", "CAPTURED", "FAILED"}
Statuses ==
  {"UNRESOLVED_IN_FLIGHT", "UNATTRIBUTED_UNTREATED", "UNATTRIBUTED_PAYMENT_FAILED",
   "ATTRIBUTED", "INDETERMINATE_INSUFFICIENT_EVIDENCE"}

AttemptRow == [attempt : Attempts, provider : Providers, trigger : Events]
PredictionRow ==
  [attempt : Attempts, provider : Providers, version : Nat, predicted_at : Nat,
   probability : Probabilities]
DecisionRow ==
  [attempt : Attempts, provider : Providers, version : Nat, decided_at : Nat,
   type : {"ACT", "NO_ACTION"}, route : Routes \cup {"none"}]
CommandRow ==
  [decision : Ids, provider : Providers, status : {"NOT_NEEDED", "SUCCEEDED"}, updated_at : Nat]
ExecutionRow == [decision : Ids, provider : Providers, completed_at : Nat]
ObservationRow ==
  [decision : Ids, provider : Providers, version : Nat, as_of : Nat, outcome : Outcomes,
   timestamp : Nat]
AttributionRow ==
  [decision : Ids, provider : Providers, version : Nat, as_of : Nat,
   treatment : {"TREATED", "UNTREATED"}, status : Statuses]

Database ==
  [payment_attempts : SUBSET AttemptRow, predictions : SUBSET PredictionRow,
   decisions : SUBSET DecisionRow, commands : SUBSET CommandRow,
   execution_attempts : SUBSET ExecutionRow, observations : SUBSET ObservationRow,
   attributions : SUBSET AttributionRow]

Locks == {"attempt", "rate", "attribution"} \X (Attempts \cup {"all"}) \X Nat

TypeInv ==
  /\ now \in Nat
  /\ occurred \in [Events -> Nat]
  /\ ingested_at \in [Events -> Nat]
  /\ payment_events \subseteq Events
  /\ db \in Database
  /\ new \in [Events -> Database]
  /\ held \in [Events -> SUBSET Locks]
  /\ pc \in [Events -> Labels]
  /\ noted \in [Events -> Probabilities \cup Routes \cup {"open", "closed"}]
  /\ todo \in [Events -> SUBSET CommandRow]
  /\ obs \in [Events -> ObservationRow \cup {NoObservation}]
  /\ dispatched \subseteq Ids \X Nat
  /\ faults \in Nat

\* The upper bounds of the versions of some rows
Above(R) == {m \in Nat : \A r \in R : r.version <= m}
Versioned(R) == Above(R) # {} /\ \A r \in R : r.version \in Nat

VersionInv ==
  /\ Versioned(db.predictions) /\ Versioned(db.decisions)
  /\ Versioned(db.observations) /\ Versioned(db.attributions)
  /\ \A e \in Events :
       /\ Versioned(new[e].predictions) /\ Versioned(new[e].decisions)
       /\ Versioned(new[e].observations) /\ Versioned(new[e].attributions)

TriggerLabels  == {"predict", "allocate", "assess", "decide", "admit", "execute"}
TerminalLabels == {"next", "append", "attribute"}

TaskOK(e) ==
  /\ pc[e] \in TriggerLabels \cup {"commit"} => Trigger(e)
  /\ pc[e] \in TerminalLabels => Terminal(e)
  /\ pc[e] \notin TriggerLabels \cup TerminalLabels \cup {"commit"} =>
       new[e] = NoRows /\ todo[e] = {}
  /\ Trigger(e) => new[e].observations = {} /\ new[e].attributions = {}
  /\ Terminal(e) =>
       /\ new[e].payment_attempts = {} /\ new[e].predictions = {} /\ new[e].decisions = {}
       /\ new[e].commands = {} /\ new[e].execution_attempts = {}
  /\ pc[e] = "allocate" => noted[e] \in Probabilities
  /\ pc[e] = "admit" => noted[e] \in Routes
  /\ pc[e] \in {"append", "attribute"} =>
       /\ obs[e] \in ObservationRow
       /\ \E c \in todo[e] : c.decision = obs[e].decision /\ c.provider = obs[e].provider

TaskInv == \A e \in Events : TaskOK(e)

LockOK(e) ==
  /\ \/ new[e].predictions # {} \/ new[e].decisions # {} \/ pc[e] = "admit"
     => AttemptLock(AttemptOf[e]) \in held[e]
  /\ (\E d \in new[e].decisions : d.type = "ACT") => RateLock \in held[e]
  /\ \A a \in new[e].attributions : AttributionLock(a.decision) \in held[e]

LockInv ==
  /\ \A e, o \in Events : e # o => held[e] \cap held[o] = {}
  /\ \A e \in Events : LockOK(e)

Acts == {d \in Rows("decisions") : d.type = "ACT"}

\* The ACT decisions of the minute that ends with d, of a set
Window(A, d) == {x \in A : x.decided_at <= d.decided_at /\ d.decided_at <= x.decided_at + Minute}

RateInv ==
  /\ IsFiniteSet(Acts)
  /\ \A d \in Acts : Cardinality(Window(Acts, d)) <= Limit

\* A trigger task writes the versions of its own attempt.
MineInv ==
  \A e \in Events : \A r \in new[e].predictions \cup new[e].decisions : Mine(e, r)

\* A key is registered with the provider of its trigger, and with one.
RegistryInv ==
  /\ \A r \in Rows("payment_attempts") :
       ProviderOf[r.trigger] = r.provider /\ AttemptOf[r.trigger] = r.attempt
  /\ \A r, q \in Rows("payment_attempts") : r.attempt = q.attempt => r.provider = q.provider

Owner(D, a, p) == \E r \in D.payment_attempts : r.attempt = a /\ r.provider = p

\* The rows of a database are those of registered attempts of their providers.
OwnedIn(D) ==
  /\ \A r \in D.predictions \cup D.decisions : Owner(D, r.attempt, r.provider)
  /\ \A r \in D.commands \cup D.execution_attempts \cup D.observations \cup D.attributions :
       Owner(D, r.decision[1], r.provider)

OwnedOK(e) ==
  /\ OwnedIn(View(e))
  /\ \A c \in todo[e] : c \in db.commands /\ c.decision[1] = AttemptOf[e]
  /\ pc[e] \in TriggerLabels => Owner(View(e), AttemptOf[e], ProviderOf[e])

OwnedInv == OwnedIn(db) /\ \A e \in Events : OwnedOK(e)

FreshOK(e) ==
  /\ \A r \in new[e].predictions, q \in db.predictions :
       r.attempt = q.attempt => q.version < r.version
  /\ \A r \in new[e].decisions, q \in db.decisions :
       r.attempt = q.attempt => q.version < r.version
  /\ \A r \in new[e].attributions, q \in db.attributions :
       r.decision = q.decision => q.version < r.version /\ r.as_of # q.as_of

FreshInv == \A e \in Events : FreshOK(e)

EventInv == \A e \in payment_events : pc[e] \notin {"none", "occurred", "normalized"}

Observed(o) == o.outcome # "UNKNOWN_IN_FLIGHT" => \E f \in payment_events : Decides(f, o)
OutcomeInv ==
  /\ \A o \in Rows("observations") : Observed(o)
  /\ \A e \in Events : pc[e] \in {"append", "attribute"} => Observed(obs[e])

-----------------------------------------------------------------------------
(* Rows and tables *)

\* A table with bounded versions has a greatest one, which MaxVersion returns.
LEMMA MaxVersionIs ==
  ASSUME NEW R, Versioned(R)
  PROVE  /\ MaxVersion(R) \in Nat
         /\ \A r \in R : r.version <= MaxVersion(R)
         /\ MaxVersion(R) # 0 => \E r \in R : r.version = MaxVersion(R)
<1>1. PICK m \in Above(R) : \A k \in Above(R) : ~(<<k, m>> \in OpToRel(<, Nat))
  <2> HIDE DEF OpToRel
  <2> QED BY NatLessThanWellFounded, WFMin DEF Versioned, Above
<1>2. \A k \in Above(R) : ~(k < m)
  BY <1>1 DEF OpToRel, Above
<1>3. m \in {0} \cup {r.version : r \in R}
  <2>1. CASE m = 0 BY <2>1
  <2>2. CASE m # 0
    <3>1. m - 1 \in Nat /\ m - 1 < m BY <2>2 DEF Above
    <3>2. PICK r \in R : ~(r.version <= m - 1) BY <1>2, <3>1 DEF Above
    <3>3. r.version = m BY <3>1, <3>2 DEF Above, Versioned
    <3> QED BY <3>3
  <2> QED BY <2>1, <2>2
<1>4. \E n \in {0} \cup {r.version : r \in R} : \A r \in R : r.version <= n
  BY <1>3 DEF Above
<1>5. /\ MaxVersion(R) \in {0} \cup {r.version : r \in R}
      /\ \A r \in R : r.version <= MaxVersion(R)
  BY <1>4 DEF MaxVersion
<1> QED BY <1>5 DEF Versioned

LEMMA VersionedSubset ==
  ASSUME NEW R, Versioned(R), NEW S \in SUBSET R
  PROVE  Versioned(S)
BY DEF Versioned, Above

LEMMA VersionedUnion ==
  ASSUME NEW R, Versioned(R), NEW S, Versioned(S)
  PROVE  Versioned(R \cup S)
<1>1. PICK m \in Nat : \A r \in R : r.version <= m BY DEF Versioned, Above
<1>2. PICK n \in Nat : \A s \in S : s.version <= n BY DEF Versioned, Above
<1>3. (\A r \in R : r.version \in Nat) /\ (\A s \in S : s.version \in Nat) BY DEF Versioned
<1>4. CASE m <= n
  <2>1. \A r \in R \cup S : r.version <= n BY <1>1, <1>2, <1>3, <1>4
  <2> QED BY <1>3, <2>1 DEF Versioned, Above
<1>5. CASE n <= m
  <2>1. \A r \in R \cup S : r.version <= m BY <1>1, <1>2, <1>3, <1>5
  <2> QED BY <1>3, <2>1 DEF Versioned, Above
<1> QED BY <1>4, <1>5

LEMMA VersionedAdd ==
  ASSUME NEW R, Versioned(R), NEW r, r.version \in Nat
  PROVE  Versioned(R \cup {r})
<1>1. Versioned({r})
  <2>1. r.version \in Above({r}) BY DEF Above
  <2> QED BY <2>1 DEF Versioned
<1> QED BY <1>1, VersionedUnion

LEMMA VersionedEmpty == Versioned({})
<1>1. 0 \in Above({}) BY DEF Above
<1> QED BY <1>1 DEF Versioned

LEMMA NoRowsType ==
  /\ NoRows \in Database
  /\ NoRows.payment_attempts = {} /\ NoRows.predictions = {} /\ NoRows.decisions = {}
  /\ NoRows.commands = {} /\ NoRows.execution_attempts = {}
  /\ NoRows.observations = {} /\ NoRows.attributions = {}
BY DEF NoRows, Database

LEMMA ViewIs ==
  ASSUME db \in Database, new \in [Events -> Database], NEW e \in Events
  PROVE  /\ View(e) \in Database
         /\ View(e).payment_attempts = db.payment_attempts \cup new[e].payment_attempts
         /\ View(e).predictions = db.predictions \cup new[e].predictions
         /\ View(e).decisions = db.decisions \cup new[e].decisions
         /\ View(e).commands = db.commands \cup new[e].commands
         /\ View(e).execution_attempts = db.execution_attempts \cup new[e].execution_attempts
         /\ View(e).observations = db.observations \cup new[e].observations
         /\ View(e).attributions = db.attributions \cup new[e].attributions
BY DEF View, NoRows, Database

Tables ==
  {"payment_attempts", "predictions", "decisions", "commands", "execution_attempts",
   "observations", "attributions"}

\* The rows of another task, and of another table of its own, are left alone.
LEMMA InsertIs ==
  ASSUME new \in [Events -> Database], NEW e \in Events, NEW table \in Tables, NEW r,
         Insert(e, table, r)
  PROVE  /\ \A o \in Events : o # e => new'[o] = new[o]
         /\ \A t \in Tables : t # table => new'[e][t] = new[e][t]
         /\ new'[e][table] = new[e][table] \cup {r}
BY DEF Insert, Database, Tables

LEMMA InsertType ==
  ASSUME new \in [Events -> Database], NEW e \in Events
  PROVE  /\ \A r \in AttemptRow :
              Insert(e, "payment_attempts", r) => new' \in [Events -> Database]
         /\ \A r \in PredictionRow : Insert(e, "predictions", r) => new' \in [Events -> Database]
         /\ \A r \in DecisionRow : Insert(e, "decisions", r) => new' \in [Events -> Database]
         /\ \A r \in CommandRow : Insert(e, "commands", r) => new' \in [Events -> Database]
         /\ \A r \in ObservationRow : Insert(e, "observations", r) => new' \in [Events -> Database]
         /\ \A r \in AttributionRow : Insert(e, "attributions", r) => new' \in [Events -> Database]
<1>1. \A r \in AttemptRow :
        Insert(e, "payment_attempts", r) => new' \in [Events -> Database]
  BY DEF Insert, Database
<1>2. \A r \in PredictionRow : Insert(e, "predictions", r) => new' \in [Events -> Database]
  BY DEF Insert, Database
<1>3. \A r \in DecisionRow : Insert(e, "decisions", r) => new' \in [Events -> Database]
  BY DEF Insert, Database
<1>4. \A r \in CommandRow : Insert(e, "commands", r) => new' \in [Events -> Database]
  BY DEF Insert, Database
<1>5. \A r \in ObservationRow : Insert(e, "observations", r) => new' \in [Events -> Database]
  BY DEF Insert, Database
<1>6. \A r \in AttributionRow : Insert(e, "attributions", r) => new' \in [Events -> Database]
  BY DEF Insert, Database
<1> QED BY <1>1, <1>2, <1>3, <1>4, <1>5, <1>6

\* The end of a transaction leaves the other tasks alone.
LEMMA EndIs ==
  ASSUME TypeInv, NEW e \in Events, NEW label, EndTransaction(e, label)
  PROVE  /\ \A o \in Events : o # e =>
              /\ new'[o] = new[o] /\ held'[o] = held[o] /\ noted'[o] = noted[o]
              /\ todo'[o] = todo[o] /\ obs'[o] = obs[o] /\ pc'[o] = pc[o]
         /\ new'[e] = NoRows /\ held'[e] = {} /\ noted'[e] = "none" /\ todo'[e] = {}
         /\ obs'[e] = NoObservation /\ pc'[e] = label
         /\ new' \in [Events -> Database]
         /\ held' \in [Events -> SUBSET Locks]
         /\ noted' \in [Events -> Probabilities \cup Routes \cup {"open", "closed"}]
         /\ todo' \in [Events -> SUBSET CommandRow]
         /\ obs' \in [Events -> ObservationRow \cup {NoObservation}]
         /\ label \in Labels => pc' \in [Events -> Labels]
<1> USE DEF TypeInv, EndTransaction
<1>1. /\ \A o \in Events : o # e =>
           /\ new'[o] = new[o] /\ held'[o] = held[o] /\ noted'[o] = noted[o]
           /\ todo'[o] = todo[o] /\ obs'[o] = obs[o] /\ pc'[o] = pc[o]
      /\ new'[e] = NoRows /\ held'[e] = {} /\ noted'[e] = "none" /\ todo'[e] = {}
      /\ obs'[e] = NoObservation /\ pc'[e] = label
  BY DEF Note, Goto
<1>2. new' \in [Events -> Database]
  BY NoRowsType
<1>3. /\ held' \in [Events -> SUBSET Locks]
      /\ todo' \in [Events -> SUBSET CommandRow]
      /\ obs' \in [Events -> ObservationRow \cup {NoObservation}]
      /\ label \in Labels => pc' \in [Events -> Labels]
  BY DEF Goto
<1>4. noted' \in [Events -> Probabilities \cup Routes \cup {"open", "closed"}]
  BY DEF Note, Probabilities
<1> QED BY <1>1, <1>2, <1>3, <1>4

-----------------------------------------------------------------------------
(* Steps *)

\* The transaction of a task that fails is rolled back.
Aborts(e) ==
  /\ EndTransaction(e, "failed")
  /\ faults' \in {faults, faults + 1}
  /\ UNCHANGED <<clock, db, dispatched>>

\* AppendObservation of a key that is not taken
Appends(e) ==
  /\ pc[e] = "append"
  /\ Free(e)
  /\ ~\E o \in View(e).observations : SameKey(o, obs[e])
  /\ Insert(e, "observations", obs[e])
  /\ Goto(e, "attribute")
  /\ UNCHANGED <<clock, db, held, noted, todo, obs, history>>

\* A step with what each leaves unchanged of a task, grouped for the proofs below
Arrives(e) == Occur(e) \/ Normalize(e) \/ Ingest(e)
Reads(e)   == Predict(e) \/ Assess(e) \/ SelectCommands(e) \/ Observe(e)

LEMMA StepCases ==
  ASSUME [Next]_vars
  PROVE  \/ UNCHANGED vars \/ Tick \/ Crash
         \/ \E e \in Events :
              \/ Arrives(e) \/ Reads(e)
              \/ Register(e) \/ AppendPrediction(e) \/ Decide(e) \/ Admit(e) \/ Execute(e)
              \/ Appends(e) \/ Attribute(e) \/ Commit(e) \/ Aborts(e)
<1>1. ASSUME NEW e \in Events, Fail(e) \/ AbortDeadlock(e)
      PROVE  Aborts(e)
  BY <1>1 DEF Fail, AbortDeadlock, Aborts, history
<1>2. ASSUME NEW e \in Events, AppendObservation(e)
      PROVE  Appends(e) \/ Aborts(e)
  BY <1>2 DEF AppendObservation, Appends, Aborts, history
<1> QED
  BY <1>1, <1>2 DEF Next, TriggerStep, TerminalStep, Arrives, Reads

\* Steps that leave the tables, the uncommitted rows and the locks alone
LEMMA QuietSteps ==
  ASSUME UNCHANGED vars \/ Tick \/ \E e \in Events : Arrives(e) \/ Reads(e)
  PROVE  UNCHANGED <<db, new, held>>
BY DEF vars, task, clock, history, Tick, Arrives, Reads, Occur, Normalize, Ingest, Predict,
       Assess, SelectCommands, Observe

LEMMA VersionsOf ==
  ASSUME TypeInv, VersionInv, NEW e \in Events
  PROVE  /\ Versioned(PredictionsOf(e)) /\ Versioned(DecisionsOf(e))
         /\ \A d : Versioned(ObservationsOf(e, d)) /\ Versioned(AttributionsOf(e, d))
<1>1. /\ View(e).predictions = db.predictions \cup new[e].predictions
      /\ View(e).decisions = db.decisions \cup new[e].decisions
      /\ View(e).observations = db.observations \cup new[e].observations
      /\ View(e).attributions = db.attributions \cup new[e].attributions
  BY ViewIs DEF TypeInv
<1>2. /\ Versioned(View(e).predictions) /\ Versioned(View(e).decisions)
      /\ Versioned(View(e).observations) /\ Versioned(View(e).attributions)
  BY <1>1, VersionedUnion DEF VersionInv
<1>3. Versioned(PredictionsOf(e)) /\ Versioned(DecisionsOf(e))
  <2>1. PredictionsOf(e) \subseteq View(e).predictions BY DEF PredictionsOf
  <2>2. DecisionsOf(e) \subseteq View(e).decisions BY DEF DecisionsOf
  <2> QED BY <1>2, <2>1, <2>2, VersionedSubset
<1>4. ASSUME NEW d PROVE Versioned(ObservationsOf(e, d)) /\ Versioned(AttributionsOf(e, d))
  <2>1. ObservationsOf(e, d) \subseteq View(e).observations BY DEF ObservationsOf
  <2>2. AttributionsOf(e, d) \subseteq View(e).attributions BY DEF AttributionsOf
  <2> QED BY <1>2, <2>1, <2>2, VersionedSubset
<1> QED BY <1>3, <1>4

\* What a task inserts has the type of its table.
LEMMA NewRows ==
  ASSUME PipelineAssumption, TypeInv, VersionInv, TaskInv, NEW e \in Events
  PROVE  /\ [attempt |-> AttemptOf[e], provider |-> ProviderOf[e], trigger |-> e] \in AttemptRow
         /\ \A p \in Probabilities :
              [attempt |-> AttemptOf[e], provider |-> ProviderOf[e],
               version |-> MaxVersion(PredictionsOf(e)) + 1, predicted_at |-> TEval(e),
               probability |-> p] \in PredictionRow
         /\ Decision(e, "NO_ACTION", "none") \in DecisionRow
         /\ \A r \in Routes : Decision(e, "ACT", r) \in DecisionRow
         /\ <<AttemptOf[e], MaxVersion(DecisionsOf(e))>> \in Ids
         /\ \A id \in Ids : \A status \in {"NOT_NEEDED", "SUCCEEDED"} : \A t \in Nat :
              Command(e, id, status, t) \in CommandRow
<1>1. AttemptOf[e] \in Attempts /\ ProviderOf[e] \in Providers /\ TEval(e) \in Nat
  BY DEF PipelineAssumption, TypeInv, TEval
<1>2. MaxVersion(PredictionsOf(e)) \in Nat /\ MaxVersion(DecisionsOf(e)) \in Nat
  BY VersionsOf, MaxVersionIs
<1>3. [attempt |-> AttemptOf[e], provider |-> ProviderOf[e], trigger |-> e] \in AttemptRow
  BY <1>1 DEF AttemptRow
<1>4. \A p \in Probabilities :
        [attempt |-> AttemptOf[e], provider |-> ProviderOf[e],
         version |-> MaxVersion(PredictionsOf(e)) + 1, predicted_at |-> TEval(e),
         probability |-> p] \in PredictionRow
  BY <1>1, <1>2 DEF PredictionRow
<1>5. Decision(e, "NO_ACTION", "none") \in DecisionRow
  BY <1>1, <1>2 DEF Decision, DecisionRow
<1>6. \A r \in Routes : Decision(e, "ACT", r) \in DecisionRow
  BY <1>1, <1>2 DEF Decision, DecisionRow
<1>7. <<AttemptOf[e], MaxVersion(DecisionsOf(e))>> \in Ids
  BY <1>1, <1>2 DEF Ids
<1>8. \A id \in Ids : \A status \in {"NOT_NEEDED", "SUCCEEDED"} : \A t \in Nat :
        Command(e, id, status, t) \in CommandRow
  BY <1>1 DEF Command, CommandRow
<1> QED BY <1>3, <1>4, <1>5, <1>6, <1>7, <1>8

\* The row that Attribute appends, with the command it is about
LEMMA AttributeIs ==
  ASSUME PipelineAssumption, TypeInv, VersionInv, TaskInv, NEW e \in Events, Attribute(e)
  PROVE  LET d == obs[e].decision
             c == CHOOSE x \in todo[e] : x.decision = d
         IN
         /\ obs[e] \in ObservationRow /\ d \in Ids
         /\ c \in todo[e] /\ c.decision = d /\ c.provider \in Providers
         /\ \/ UNCHANGED new
            \/ \E a \in AttributionRow :
                 /\ a.decision = d /\ a.provider = c.provider /\ a.as_of = obs[e].as_of
                 /\ a.version = MaxVersion(AttributionsOf(e, d)) + 1
                 /\ ~\E b \in AttributionsOf(e, d) : b.as_of = a.as_of
                 /\ Insert(e, "attributions", a)
<1> DEFINE d == obs[e].decision
           t == obs[e].as_of
           c == CHOOSE x \in todo[e] : x.decision = d
           attempts == {x \in View(e).execution_attempts : x.decision = d /\ x.completed_at <= t}
<1>1. pc[e] = "attribute" /\ e \in Events
  BY DEF Attribute
<1>2. obs[e] \in ObservationRow /\ \E x \in todo[e] : x.decision = d
  BY <1>1 DEF TaskInv, TaskOK
<1>3. d \in Ids /\ t \in Nat
  BY <1>2 DEF ObservationRow
<1>4. c \in todo[e] /\ c.decision = d
  BY <1>2
<1>5. c.provider \in Providers
  <2>1. c \in CommandRow BY <1>4 DEF TypeInv
  <2> QED BY <2>1 DEF CommandRow
<1>6. MaxVersion(AttributionsOf(e, d)) + 1 \in Nat
  BY VersionsOf, MaxVersionIs
<1>7. ASSUME NEW o, NEW status \in StatusesOf(TreatmentOf(c, attempts, o), o.outcome)
      PROVE  [decision |-> d, provider |-> c.provider,
              version |-> MaxVersion(AttributionsOf(e, d)) + 1, as_of |-> t,
              treatment |-> TreatmentOf(c, attempts, o), status |-> status] \in AttributionRow
  <2>1. TreatmentOf(c, attempts, o) \in {"TREATED", "UNTREATED"}
    BY DEF TreatmentOf
  <2>2. status \in Statuses
    BY DEF StatusesOf, Statuses
  <2> HIDE DEF attempts, c
  <2> QED BY <1>3, <1>5, <1>6, <2>1, <2>2 DEF AttributionRow
<1>8. CASE UNCHANGED new
  BY <1>2, <1>3, <1>4, <1>5, <1>8
<1>9. CASE ~UNCHANGED new
  <2>1. ~\E b \in AttributionsOf(e, d) : b.as_of = t
    BY <1>9 DEF Attribute
  <2>2. PICK o \in Latest({x \in ObservationsOf(e, d) : x.as_of <= t}) :
          \E status \in StatusesOf(TreatmentOf(c, attempts, o), o.outcome) :
             Insert(e, "attributions",
                    [decision |-> d, provider |-> c.provider,
                     version |-> MaxVersion(AttributionsOf(e, d)) + 1, as_of |-> t,
                     treatment |-> TreatmentOf(c, attempts, o), status |-> status])
    BY <1>9 DEF Attribute
  <2>3. PICK status \in StatusesOf(TreatmentOf(c, attempts, o), o.outcome) :
             Insert(e, "attributions",
                    [decision |-> d, provider |-> c.provider,
                     version |-> MaxVersion(AttributionsOf(e, d)) + 1, as_of |-> t,
                     treatment |-> TreatmentOf(c, attempts, o), status |-> status])
    BY <2>2
  <2> DEFINE a == [decision |-> d, provider |-> c.provider,
                   version |-> MaxVersion(AttributionsOf(e, d)) + 1, as_of |-> t,
                   treatment |-> TreatmentOf(c, attempts, o), status |-> status]
  <2>4. a \in AttributionRow BY <1>7
  <2>5. /\ a.decision = d /\ a.provider = c.provider /\ a.as_of = t
        /\ a.version = MaxVersion(AttributionsOf(e, d)) + 1
    OBVIOUS
  <2>6. Insert(e, "attributions", a) BY <2>3
  <2>7. \E b \in AttributionRow :
          /\ b.decision = d /\ b.provider = c.provider /\ b.as_of = t
          /\ b.version = MaxVersion(AttributionsOf(e, d)) + 1
          /\ ~\E x \in AttributionsOf(e, d) : x.as_of = b.as_of
          /\ Insert(e, "attributions", b)
    <3> HIDE DEF a, c
    <3> QED BY <2>1, <2>4, <2>5, <2>6
  <2> QED BY <1>2, <1>3, <1>4, <1>5, <2>7
<1> QED BY <1>8, <1>9

-----------------------------------------------------------------------------
(* Types *)

LEMMA ArrivesTypes ==
  ASSUME PipelineAssumption, TypeInv, NEW e \in Events, Arrives(e)
  PROVE  TypeInv'
<1> USE DEF TypeInv, clock, history, Goto, Labels
<1>1. CASE Occur(e) BY <1>1 DEF Occur
<1>2. CASE Normalize(e) BY <1>2 DEF Normalize
<1>3. CASE Ingest(e) BY <1>3 DEF Ingest
<1> QED BY <1>1, <1>2, <1>3 DEF Arrives

\* What is observed of a command
LEMMA ObserveIs ==
  ASSUME PipelineAssumption, TypeInv, VersionInv, NEW e \in Events, Observe(e)
  PROVE  \E c \in todo[e] : \E o \in ObservationRow :
           /\ obs' = [obs EXCEPT ![e] = o]
           /\ o.decision = c.decision /\ o.provider = c.provider /\ o.as_of = AsOf(e, c)
           /\ o.version = MaxVersion(ObservationsOf(e, c.decision)) + 1
           /\ [outcome |-> o.outcome, timestamp |-> o.timestamp]
                \in FirstOutcomes(Terminals(c.provider, AttemptOf[e], AsOf(e, c)))
<1> DEFINE Seen(c, first) ==
             [decision |-> c.decision, provider |-> c.provider,
              version |-> MaxVersion(ObservationsOf(e, c.decision)) + 1,
              as_of |-> AsOf(e, c), outcome |-> first.outcome, timestamp |-> first.timestamp]
<1>0. PICK c \in todo[e] :
        \E first \in FirstOutcomes(Terminals(c.provider, AttemptOf[e], AsOf(e, c))) :
          obs' = [obs EXCEPT ![e] = Seen(c, first)]
  BY DEF Observe
<1>1. PICK first \in FirstOutcomes(Terminals(c.provider, AttemptOf[e], AsOf(e, c))) :
        obs' = [obs EXCEPT ![e] = Seen(c, first)]
  BY <1>0
<1>2. c.decision \in Ids /\ c.provider \in Providers /\ c.updated_at \in Nat
  BY DEF TypeInv, CommandRow
<1>3. AsOf(e, c) \in Nat
  BY <1>2 DEF AsOf, TypeInv
<1>4. MaxVersion(ObservationsOf(e, c.decision)) + 1 \in Nat
  BY VersionsOf, MaxVersionIs
<1> DEFINE T == Terminals(c.provider, AttemptOf[e], AsOf(e, c))
<1>5. /\ first.outcome \in Outcomes /\ first.timestamp \in Nat
      /\ first = [outcome |-> first.outcome, timestamp |-> first.timestamp]
  <2>1. CASE T = {}
    BY <1>1, <2>1 DEF FirstOutcomes, Outcomes
  <2>2. CASE T # {}
    <3>1. PICK f \in T : first = [outcome |-> Outcome(f), timestamp |-> occurred[f]]
      BY <1>1, <2>2 DEF FirstOutcomes
    <3>2. f \in Events BY DEF Terminals, TerminalsOfKey, TypeInv
    <3> QED BY <3>1, <3>2 DEF TypeInv, Outcome, Outcomes
  <2> QED BY <2>1, <2>2
<1> DEFINE o == Seen(c, first)
<1>6. o \in ObservationRow
  BY <1>2, <1>3, <1>4, <1>5 DEF ObservationRow
<1> QED BY <1>1, <1>5, <1>6

LEMMA ReadsTypes ==
  ASSUME PipelineAssumption, TypeInv, VersionInv, NEW e \in Events, Reads(e)
  PROVE  TypeInv'
<1> USE DEF TypeInv, clock, history, Goto, Note, Labels, AfterPrediction
<1>1. CASE Predict(e)
  <2>1. pc' \in [Events -> Labels] BY <1>1 DEF Predict
  <2>2. noted' \in [Events -> Probabilities \cup Routes \cup {"open", "closed"}]
    BY <1>1 DEF Predict, Probabilities
  <2> QED BY <1>1, <2>1, <2>2 DEF Predict
<1>2. CASE Assess(e) BY <1>2 DEF Assess
<1>3. CASE SelectCommands(e)
  <2>1. db.commands \subseteq CommandRow BY DEF Database
  <2> QED BY <1>3, <2>1 DEF SelectCommands
<1>4. CASE Observe(e)
  <2>1. PICK o \in ObservationRow : obs' = [obs EXCEPT ![e] = o]
    <3> HIDE DEF TypeInv
    <3> QED BY <1>4, ObserveIs
  <2>2. obs \in [Events -> ObservationRow \cup {NoObservation}] OBVIOUS
  <2>3. obs' \in [Events -> ObservationRow \cup {NoObservation}] BY <2>1, <2>2
  <2> QED BY <1>4, <2>3 DEF Observe
<1> QED BY <1>1, <1>2, <1>3, <1>4 DEF Reads

LEMMA AcquireTypes ==
  ASSUME PipelineAssumption, TypeInv, TaskInv, NEW e \in Events, Acquire(e)
  PROVE  held' \in [Events -> SUBSET Locks]
<1>1. AttemptLock(AttemptOf[e]) \in Locks /\ RateLock \in Locks
  BY DEF PipelineAssumption, AttemptLock, RateLock, Locks
<1>2. ASSUME pc[e] = "attribute" PROVE AttributionLock(obs[e].decision) \in Locks
  <2>1. obs[e].decision \in Ids BY <1>2 DEF TaskInv, TaskOK, ObservationRow
  <2> QED BY <2>1 DEF Ids, AttributionLock, Locks
<1>3. Wanted(e) \subseteq Locks
  BY <1>1, <1>2 DEF Wanted
<1> QED BY <1>3 DEF Acquire, TypeInv

LEMMA WritesTypes ==
  ASSUME PipelineAssumption, TypeInv, VersionInv, TaskInv, NEW e \in Events,
         \/ Register(e) \/ AppendPrediction(e) \/ Decide(e) \/ Admit(e) \/ Execute(e)
         \/ Appends(e) \/ Attribute(e)
  PROVE  TypeInv'
<1>1. CASE Register(e)
  <2>1. new' \in [Events -> Database]
    BY <1>1, InsertType, NewRows DEF Register, TypeInv
  <2> QED BY <1>1, <2>1 DEF Register, TypeInv, clock, history, Goto, Labels
<1>2. CASE AppendPrediction(e)
  <2>1. noted[e] \in Probabilities BY <1>2 DEF AppendPrediction, TaskInv, TaskOK
  <2>2. new' \in [Events -> Database]
    BY <1>2, <2>1, InsertType, NewRows DEF AppendPrediction, TypeInv
  <2>3. held' \in [Events -> SUBSET Locks] BY <1>2, AcquireTypes DEF AppendPrediction
  <2>4. noted' \in [Events -> Probabilities \cup Routes \cup {"open", "closed"}]
    BY <1>2 DEF AppendPrediction, Note, TypeInv, Probabilities
  <2> QED
    BY <1>2, <2>2, <2>3, <2>4
    DEF AppendPrediction, TypeInv, clock, history, Goto, Labels, AfterPrediction
<1>3. CASE Decide(e)
  <2>1. new' \in [Events -> Database]
    BY <1>3, InsertType, NewRows DEF Decide, TypeInv
  <2>2. held' \in [Events -> SUBSET Locks] BY <1>3, AcquireTypes DEF Decide
  <2>3. noted' \in [Events -> Probabilities \cup Routes \cup {"open", "closed"}]
    BY <1>3 DEF Decide, Note, TypeInv, Probabilities
  <2> QED BY <1>3, <2>1, <2>2, <2>3 DEF Decide, TypeInv, clock, history, Goto, Labels
<1>4. CASE Admit(e)
  <2>1. noted[e] \in Routes BY <1>4 DEF Admit, TaskInv, TaskOK
  <2>2. new' \in [Events -> Database]
    BY <1>4, <2>1, InsertType, NewRows DEF Admit, TypeInv
  <2>3. held' \in [Events -> SUBSET Locks] BY <1>4, AcquireTypes DEF Admit
  <2>4. noted' \in [Events -> Probabilities \cup Routes \cup {"open", "closed"}]
    BY <1>4 DEF Admit, Note, TypeInv, Probabilities
  <2> QED BY <1>4, <2>2, <2>3, <2>4 DEF Admit, TypeInv, clock, history, Goto, Labels
<1>5. CASE Execute(e)
  <2> DEFINE id == <<AttemptOf[e], MaxVersion(DecisionsOf(e))>>
  <2>1. Duration \in Nat /\ TEval(e) \in Nat
    BY DEF TEval, TypeInv, PipelineAssumption
  <2>2. TEval(e) \in Nat /\ TEval(e) + Duration \in Nat
    BY <2>1
  <2>3. id \in Ids
    BY ONLY PipelineAssumption, TypeInv, VersionInv, TaskInv, e \in Events, NewRows
  <2>4. /\ Command(e, id, "NOT_NEEDED", TEval(e)) \in CommandRow
        /\ Command(e, id, "SUCCEEDED", TEval(e) + Duration) \in CommandRow
    BY <2>2, <2>3, NewRows
  <2>5. [decision |-> id, provider |-> ProviderOf[e], completed_at |-> TEval(e) + Duration]
          \in ExecutionRow
    BY <2>2, <2>3 DEF ExecutionRow, PipelineAssumption
  <2>6. CASE TerminalsOfKey(AttemptOf[e], TEval(e)) # {}
    <3>1. Insert(e, "commands", Command(e, id, "NOT_NEEDED", TEval(e))) /\ UNCHANGED dispatched
      BY <1>5, <2>6 DEF Execute
    <3>2. new' \in [Events -> Database] BY <2>4, <3>1, InsertType DEF TypeInv
    <3> QED BY <1>5, <3>1, <3>2 DEF Execute, TypeInv, clock, Goto, Labels
  <2>7. CASE TerminalsOfKey(AttemptOf[e], TEval(e)) = {}
    <3>1. /\ new' = [new EXCEPT
               ![e].commands = @ \cup {Command(e, id, "SUCCEEDED", TEval(e) + Duration)},
               ![e].execution_attempts = @ \cup
                 {[decision |-> id, provider |-> ProviderOf[e], completed_at |-> TEval(e) + Duration]}]
          /\ dispatched' = dispatched \cup {<<id, now>>}
      BY <1>5, <2>7 DEF Execute
    <3> HIDE DEF id
    <3>2. new' \in [Events -> Database]
      <4> DEFINE c == Command(e, id, "SUCCEEDED", TEval(e) + Duration)
                 x == [decision |-> id, provider |-> ProviderOf[e],
                       completed_at |-> TEval(e) + Duration]
                 D == [new[e] EXCEPT !.commands = @ \cup {c}]
                 F == [D EXCEPT !.execution_attempts = @ \cup {x}]
      <4>1. new \in [Events -> Database] /\ new[e] \in Database BY DEF TypeInv
      <4>2. c \in CommandRow /\ x \in ExecutionRow BY <2>4, <2>5
      <4>3. new' = [new EXCEPT ![e] = F] BY <3>1, <4>1 DEF Database
      <4> HIDE DEF c, x
      <4>4. D \in Database BY <4>1, <4>2 DEF Database
      <4>5. F \in Database
        <5> HIDE DEF D
        <5> QED BY <4>2, <4>4 DEF Database
      <4> HIDE DEF F
      <4> QED BY <4>1, <4>3, <4>5
    <3>3. dispatched' \subseteq Ids \X Nat BY <2>3, <3>1 DEF TypeInv
    <3> QED BY <1>5, <3>2, <3>3 DEF Execute, TypeInv, clock, Goto, Labels
  <2> QED BY <2>6, <2>7
<1>6. CASE Appends(e)
  <2>1. obs[e] \in ObservationRow BY <1>6 DEF Appends, TaskInv, TaskOK
  <2>2. new' \in [Events -> Database]
    BY <1>6, <2>1, InsertType DEF Appends, TypeInv
  <2> QED BY <1>6, <2>2 DEF Appends, TypeInv, clock, history, Goto, Labels
<1>7. CASE Attribute(e)
  <2>1. new' \in [Events -> Database]
    BY <1>7, AttributeIs, InsertType DEF TypeInv
  <2>2. held' \in [Events -> SUBSET Locks] BY <1>7, AcquireTypes DEF Attribute
  <2>3. todo' \in [Events -> SUBSET CommandRow] BY <1>7 DEF Attribute, TypeInv
  <2>4. obs' \in [Events -> ObservationRow \cup {NoObservation}] BY <1>7 DEF Attribute, TypeInv
  <2> QED
    BY <1>7, <2>1, <2>2, <2>3, <2>4 DEF Attribute, TypeInv, clock, history, Goto, Labels
<1> QED BY <1>1, <1>2, <1>3, <1>4, <1>5, <1>6, <1>7

LEMMA TypeStep ==
  ASSUME PipelineAssumption, TypeInv, VersionInv, TaskInv, [Next]_vars
  PROVE  TypeInv'
<1>1. CASE UNCHANGED vars
  BY <1>1 DEF vars, TypeInv, clock, task, history
<1>2. CASE Tick
  BY <1>2 DEF Tick, TypeInv, task, history
<1>3. CASE Crash
  <2>1. new' \in [Events -> Database] BY <1>3, NoRowsType DEF Crash
  <2>2. pc' \in [Events -> Labels] BY <1>3 DEF Crash, TypeInv, Labels
  <2>3. noted' \in [Events -> Probabilities \cup Routes \cup {"open", "closed"}]
    BY <1>3 DEF Crash, Probabilities
  <2>4. obs' \in [Events -> ObservationRow \cup {NoObservation}] BY <1>3 DEF Crash
  <2> QED BY <1>3, <2>1, <2>2, <2>3, <2>4 DEF Crash, TypeInv, clock
<1>4. ASSUME NEW e \in Events, Arrives(e) \/ Reads(e) PROVE TypeInv'
  BY <1>4, ArrivesTypes, ReadsTypes
<1>5. ASSUME NEW e \in Events,
             \/ Register(e) \/ AppendPrediction(e) \/ Decide(e) \/ Admit(e) \/ Execute(e)
             \/ Appends(e) \/ Attribute(e)
      PROVE  TypeInv'
  BY <1>5, WritesTypes
<1>6. ASSUME NEW e \in Events, Commit(e) PROVE TypeInv'
  <2>1. EndTransaction(e, "done") /\ db' = View(e) /\ UNCHANGED <<clock, history>>
    BY <1>6 DEF Commit
  <2>2. db' \in Database BY <2>1, ViewIs DEF TypeInv
  <2>3. "done" \in Labels BY DEF Labels
  <2> QED BY <2>1, <2>2, <2>3, EndIs DEF TypeInv, clock, history
<1>7. ASSUME NEW e \in Events, Aborts(e) PROVE TypeInv'
  <2>1. "failed" \in Labels BY DEF Labels
  <2> QED BY <1>7, <2>1, EndIs DEF Aborts, TypeInv, clock
<1> QED BY <1>1, <1>2, <1>3, <1>4, <1>5, <1>6, <1>7, StepCases

-----------------------------------------------------------------------------
(* What each writing step does to the rows of its task *)

Writes(e) ==
  \/ Register(e) \/ AppendPrediction(e) \/ Decide(e) \/ Admit(e) \/ Execute(e)
  \/ Appends(e) \/ Attribute(e)

LEMMA WritesFrame ==
  ASSUME TypeInv, NEW e \in Events, Writes(e)
  PROVE  /\ UNCHANGED <<clock, db>>
         /\ \A o \in Events : o # e =>
              /\ new'[o] = new[o] /\ held'[o] = held[o] /\ pc'[o] = pc[o]
              /\ noted'[o] = noted[o] /\ todo'[o] = todo[o] /\ obs'[o] = obs[o]
<1> USE DEF TypeInv, Goto, Note, Insert, Acquire
<1>1. CASE Register(e) BY <1>1 DEF Register
<1>2. CASE AppendPrediction(e) BY <1>2 DEF AppendPrediction
<1>3. CASE Decide(e) BY <1>3 DEF Decide
<1>4. CASE Admit(e) BY <1>4 DEF Admit
<1>5. CASE Execute(e) BY <1>5 DEF Execute
<1>6. CASE Appends(e) BY <1>6 DEF Appends
<1>7. CASE Attribute(e) BY <1>7 DEF Attribute
<1> QED BY <1>1, <1>2, <1>3, <1>4, <1>5, <1>6, <1>7 DEF Writes

LEMMA RegisterIs ==
  ASSUME TypeInv, NEW e \in Events, Register(e)
  PROVE  /\ \A t \in Tables : t # "payment_attempts" => new'[e][t] = new[e][t]
         /\ held'[e] = held[e]
         /\ \/ /\ Registrations(e) # {} /\ UNCHANGED new
            \/ /\ Registrations(e) = {}
               /\ new'[e].payment_attempts = new[e].payment_attempts \cup
                    {[attempt |-> AttemptOf[e], provider |-> ProviderOf[e], trigger |-> e]}
<1>1. new \in [Events -> Database] /\ "payment_attempts" \in Tables BY DEF TypeInv, Tables
<1>2. held'[e] = held[e] BY DEF Register
<1>3. CASE Registrations(e) # {}
  BY <1>2, <1>3 DEF Register
<1>4. CASE Registrations(e) = {}
  <2>1. Insert(e, "payment_attempts",
               [attempt |-> AttemptOf[e], provider |-> ProviderOf[e], trigger |-> e])
    BY <1>4 DEF Register
  <2> QED BY <1>1, <1>2, <1>4, <2>1, InsertIs
<1> QED BY <1>3, <1>4

LEMMA AppendPredictionIs ==
  ASSUME TypeInv, NEW e \in Events, AppendPrediction(e)
  PROVE  /\ \A t \in Tables : t # "predictions" => new'[e][t] = new[e][t]
         /\ new'[e].predictions = new[e].predictions \cup
              {[attempt |-> AttemptOf[e], provider |-> ProviderOf[e],
                version |-> MaxVersion(PredictionsOf(e)) + 1, predicted_at |-> TEval(e),
                probability |-> noted[e]]}
<1>1. new \in [Events -> Database] /\ "predictions" \in Tables BY DEF TypeInv, Tables
<1>2. Insert(e, "predictions",
             [attempt |-> AttemptOf[e], provider |-> ProviderOf[e],
              version |-> MaxVersion(PredictionsOf(e)) + 1, predicted_at |-> TEval(e),
              probability |-> noted[e]])
  BY DEF AppendPrediction
<1> QED BY <1>1, <1>2, InsertIs

\* Decide and Admit
LEMMA DecisionIs ==
  ASSUME TypeInv, TaskInv, NEW e \in Events, Decide(e) \/ Admit(e)
  PROVE  /\ \A t \in Tables : t # "decisions" => new'[e][t] = new[e][t]
         /\ \/ UNCHANGED new
            \/ new'[e].decisions = new[e].decisions \cup {Decision(e, "NO_ACTION", "none")}
            \/ \E r \in Routes :
                 /\ Admit(e) /\ ~(Cardinality(RecentActs(e)) >= Limit) /\ pc'[e] = "execute"
                 /\ new'[e].decisions = new[e].decisions \cup {Decision(e, "ACT", r)}
<1>1. new \in [Events -> Database] /\ "decisions" \in Tables BY DEF TypeInv, Tables
<1>2. CASE UNCHANGED new BY <1>2
<1>3. CASE Insert(e, "decisions", Decision(e, "NO_ACTION", "none")) BY <1>1, <1>3, InsertIs
<1>4. CASE Admit(e) /\ Insert(e, "decisions", Decision(e, "ACT", noted[e]))
               /\ ~(Cardinality(RecentActs(e)) >= Limit) /\ Goto(e, "execute")
  <2>1. noted[e] \in Routes BY <1>4 DEF Admit, TaskInv, TaskOK
  <2>2. pc'[e] = "execute" BY <1>4 DEF Goto, TypeInv
  <2>3. /\ \A t \in Tables : t # "decisions" => new'[e][t] = new[e][t]
        /\ new'[e].decisions = new[e].decisions \cup {Decision(e, "ACT", noted[e])}
    BY <1>1, <1>4, InsertIs
  <2> QED BY <1>4, <2>1, <2>2, <2>3
<1> QED BY <1>2, <1>3, <1>4 DEF Decide, Admit

LEMMA ExecuteIs ==
  ASSUME PipelineAssumption, TypeInv, VersionInv, TaskInv, NEW e \in Events, Execute(e)
  PROVE  LET id == <<AttemptOf[e], MaxVersion(DecisionsOf(e))>> IN
         /\ \A t \in Tables : t \notin {"commands", "execution_attempts"} => new'[e][t] = new[e][t]
         /\ \E c \in CommandRow :
              /\ c.decision = id /\ c.provider = ProviderOf[e]
              /\ new'[e].commands = new[e].commands \cup {c}
              /\ \/ /\ c.status = "NOT_NEEDED" /\ c.updated_at = TEval(e)
                    /\ TerminalsOfKey(AttemptOf[e], TEval(e)) # {}
                    /\ new'[e].execution_attempts = new[e].execution_attempts
                    /\ dispatched' = dispatched
                 \/ /\ c.status = "SUCCEEDED" /\ c.updated_at = TEval(e) + Duration
                    /\ \E x \in ExecutionRow :
                         /\ x.decision = id /\ x.provider = ProviderOf[e]
                         /\ x.completed_at = c.updated_at
                         /\ new'[e].execution_attempts = new[e].execution_attempts \cup {x}
                         /\ dispatched' = dispatched \cup {<<id, now>>}
<1> DEFINE id == <<AttemptOf[e], MaxVersion(DecisionsOf(e))>>
           t0 == TEval(e)
           x0 == [decision |-> id, provider |-> ProviderOf[e], completed_at |-> t0 + Duration]
<1>1. t0 \in Nat /\ t0 + Duration \in Nat /\ ProviderOf[e] \in Providers
  <2>1. Duration \in Nat BY DEF PipelineAssumption
  <2>2. t0 \in Nat BY DEF TEval, TypeInv
  <2> QED BY <2>1, <2>2 DEF PipelineAssumption
<1>2. id \in Ids
  BY NewRows
<1>3. /\ Command(e, id, "NOT_NEEDED", t0) \in CommandRow
      /\ Command(e, id, "SUCCEEDED", t0 + Duration) \in CommandRow
  BY <1>1, <1>2, NewRows
<1>4. x0 \in ExecutionRow
  BY <1>1, <1>2 DEF ExecutionRow
<1>5. ASSUME NEW k, NEW t
      PROVE  /\ Command(e, id, k, t).decision = id /\ Command(e, id, k, t).provider = ProviderOf[e]
             /\ Command(e, id, k, t).status = k /\ Command(e, id, k, t).updated_at = t
  BY DEF Command
<1>6. new \in [Events -> Database] /\ "commands" \in Tables BY DEF TypeInv, Tables
<1>7. CASE TerminalsOfKey(AttemptOf[e], t0) # {}
  <2> DEFINE c0 == Command(e, id, "NOT_NEEDED", t0)
  <2>1. Insert(e, "commands", c0) /\ UNCHANGED dispatched
    BY <1>7 DEF Execute
  <2>2. /\ \A t \in Tables : t # "commands" => new'[e][t] = new[e][t]
        /\ new'[e].commands = new[e].commands \cup {c0}
    BY <1>6, <2>1, InsertIs
  <2>3. "execution_attempts" \in Tables BY DEF Tables
  <2>4. /\ c0 \in CommandRow /\ c0.decision = id /\ c0.provider = ProviderOf[e]
        /\ c0.status = "NOT_NEEDED" /\ c0.updated_at = TEval(e)
    BY <1>3, <1>5
  <2> HIDE DEF id, c0
  <2> QED BY <1>7, <2>1, <2>2, <2>3, <2>4 DEF id
<1>8. CASE TerminalsOfKey(AttemptOf[e], t0) = {}
  <2> DEFINE c0 == Command(e, id, "SUCCEEDED", t0 + Duration)
  <2>1. /\ new' = [new EXCEPT
             ![e].commands = @ \cup {c0}, ![e].execution_attempts = @ \cup {x0}]
        /\ dispatched' = dispatched \cup {<<id, now>>}
    BY <1>8 DEF Execute
  <2>2. /\ x0.decision = id /\ x0.provider = ProviderOf[e]
        /\ x0.completed_at = TEval(e) + Duration
    OBVIOUS
  <2>3. /\ c0 \in CommandRow /\ c0.decision = id /\ c0.provider = ProviderOf[e]
        /\ c0.status = "SUCCEEDED" /\ c0.updated_at = TEval(e) + Duration
    BY <1>3, <1>5
  <2> HIDE DEF id, x0, t0, c0
  <2>4. /\ \A t \in Tables : t \notin {"commands", "execution_attempts"} => new'[e][t] = new[e][t]
        /\ new'[e].commands = new[e].commands \cup {c0}
        /\ new'[e].execution_attempts = new[e].execution_attempts \cup {x0}
    BY <1>6, <2>1 DEF Database, Tables
  <2>5. \E x \in ExecutionRow :
          /\ x.decision = id /\ x.provider = ProviderOf[e] /\ x.completed_at = c0.updated_at
          /\ new'[e].execution_attempts = new[e].execution_attempts \cup {x}
          /\ dispatched' = dispatched \cup {<<id, now>>}
    BY <1>4, <2>1, <2>2, <2>3, <2>4
  <2> QED BY <2>3, <2>4, <2>5 DEF id
<1> QED BY <1>7, <1>8

\* Whose rows these are
LEMMA ExecuteWrites ==
  ASSUME PipelineAssumption, TypeInv, VersionInv, TaskInv, NEW e \in Events, Execute(e)
  PROVE  LET id == <<AttemptOf[e], MaxVersion(DecisionsOf(e))>> IN
         \E c : /\ c.decision = id /\ c.provider = ProviderOf[e]
               /\ new'[e].commands = new[e].commands \cup {c}
               /\ \/ new'[e].execution_attempts = new[e].execution_attempts
                  \/ \E x : /\ x.decision = id /\ x.provider = ProviderOf[e]
                            /\ new'[e].execution_attempts
                                 = new[e].execution_attempts \cup {x}
<1> DEFINE id == <<AttemptOf[e], MaxVersion(DecisionsOf(e))>>
           Tried(x) == /\ x.decision = id /\ x.provider = ProviderOf[e]
                       /\ new'[e].execution_attempts = new[e].execution_attempts \cup {x}
<1>1. PICK c \in CommandRow :
        /\ c.decision = id /\ c.provider = ProviderOf[e]
        /\ new'[e].commands = new[e].commands \cup {c}
        /\ \/ /\ c.status = "NOT_NEEDED" /\ c.updated_at = TEval(e)
              /\ TerminalsOfKey(AttemptOf[e], TEval(e)) # {}
              /\ new'[e].execution_attempts = new[e].execution_attempts
              /\ dispatched' = dispatched
           \/ /\ c.status = "SUCCEEDED" /\ c.updated_at = TEval(e) + Duration
              /\ \E x \in ExecutionRow :
                   /\ x.decision = id /\ x.provider = ProviderOf[e]
                   /\ x.completed_at = c.updated_at
                   /\ new'[e].execution_attempts = new[e].execution_attempts \cup {x}
                   /\ dispatched' = dispatched \cup {<<id, now>>}
  BY ExecuteIs
<1>2. new'[e].execution_attempts = new[e].execution_attempts \/ \E x : Tried(x)
  BY <1>1
<1> QED BY <1>1, <1>2

LEMMA AppendsIs ==
  ASSUME TypeInv, NEW e \in Events, Appends(e)
  PROVE  /\ \A t \in Tables : t # "observations" => new'[e][t] = new[e][t]
         /\ new'[e].observations = new[e].observations \cup {obs[e]}
<1>1. new \in [Events -> Database] /\ "observations" \in Tables BY DEF TypeInv, Tables
<1> QED BY <1>1, InsertIs DEF Appends

LEMMA AttributionIs ==
  ASSUME PipelineAssumption, TypeInv, VersionInv, TaskInv, NEW e \in Events, Attribute(e)
  PROVE  /\ \A t \in Tables : t # "attributions" => new'[e][t] = new[e][t]
         /\ \/ UNCHANGED new
            \/ \E a \in AttributionRow :
                 /\ a.decision = obs[e].decision
                 /\ \E c \in todo[e] : c.decision = a.decision /\ c.provider = a.provider
                 /\ a.as_of = obs[e].as_of
                 /\ a.version = MaxVersion(AttributionsOf(e, a.decision)) + 1
                 /\ ~\E b \in AttributionsOf(e, a.decision) : b.as_of = a.as_of
                 /\ new'[e].attributions = new[e].attributions \cup {a}
<1>1. new \in [Events -> Database] /\ "attributions" \in Tables BY DEF TypeInv, Tables
<1>2. CASE UNCHANGED new BY <1>2
<1>3. CASE ~UNCHANGED new
  <2>1. PICK a \in AttributionRow :
          /\ a.decision = obs[e].decision
          /\ \E c \in todo[e] : c.decision = a.decision /\ c.provider = a.provider
          /\ a.as_of = obs[e].as_of
          /\ a.version = MaxVersion(AttributionsOf(e, a.decision)) + 1
          /\ ~\E b \in AttributionsOf(e, a.decision) : b.as_of = a.as_of
          /\ Insert(e, "attributions", a)
    BY <1>3, AttributeIs
  <2> QED BY <1>1, <2>1, InsertIs
<1> QED BY <1>2, <1>3

-----------------------------------------------------------------------------
(* Versions and tasks *)

\* The effect of the end of all transactions, of one, and of its commit on the tables
LEMMA EndsIs ==
  ASSUME TypeInv
  PROVE  /\ Crash => db' = db /\ \A e \in Events :
                       new'[e] = NoRows /\ held'[e] = {} /\ todo'[e] = {}
         /\ \A e \in Events : Aborts(e) \/ Commit(e) =>
              /\ new'[e] = NoRows /\ held'[e] = {} /\ todo'[e] = {} /\ pc'[e] \in {"failed", "done"}
              /\ \A o \in Events : o # e =>
                   /\ new'[o] = new[o] /\ held'[o] = held[o] /\ noted'[o] = noted[o]
                   /\ todo'[o] = todo[o] /\ obs'[o] = obs[o] /\ pc'[o] = pc[o]
              /\ UNCHANGED clock
         /\ \A e \in Events : Aborts(e) => db' = db
         /\ \A e \in Events : Commit(e) => db' = View(e)
<1>1. Crash => db' = db /\ \A e \in Events : new'[e] = NoRows /\ held'[e] = {} /\ todo'[e] = {}
  BY DEF Crash
<1>2. ASSUME NEW e \in Events, Aborts(e) \/ Commit(e)
      PROVE  /\ new'[e] = NoRows /\ held'[e] = {} /\ todo'[e] = {}
             /\ pc'[e] \in {"failed", "done"}
             /\ \A o \in Events : o # e =>
                  /\ new'[o] = new[o] /\ held'[o] = held[o] /\ noted'[o] = noted[o]
                  /\ todo'[o] = todo[o] /\ obs'[o] = obs[o] /\ pc'[o] = pc[o]
             /\ UNCHANGED clock
  <2>1. PICK l \in {"failed", "done"} : EndTransaction(e, l) BY <1>2 DEF Aborts, Commit
  <2>2. UNCHANGED clock BY <1>2 DEF Aborts, Commit
  <2> QED BY <2>1, <2>2, EndIs
<1>3. \A e \in Events : Aborts(e) => db' = db
  BY DEF Aborts
<1>4. \A e \in Events : Commit(e) => db' = View(e)
  BY DEF Commit
<1> QED BY <1>1, <1>2, <1>3, <1>4

LEMMA VersionStep ==
  ASSUME PipelineAssumption, TypeInv, VersionInv, TaskInv, [Next]_vars
  PROVE  VersionInv'
<1> DEFINE T == {"predictions", "decisions", "observations", "attributions"}
<1> USE DEF Tables
<1>1. (\A t \in T : Versioned(db[t])) /\ \A e \in Events : \A t \in T : Versioned(new[e][t])
  BY DEF VersionInv
<1>2. SUFFICES (\A t \in T : Versioned(db'[t])) /\ \A e \in Events : \A t \in T : Versioned(new'[e][t])
  BY DEF VersionInv
<1>3. CASE UNCHANGED <<db, new>>
  BY <1>1, <1>3
<1>4. \A t \in T : Versioned(NoRows[t])
  BY NoRowsType, VersionedEmpty
<1>5. CASE Crash
  BY <1>1, <1>4, <1>5, EndsIs
<1>6. ASSUME NEW e \in Events, Aborts(e) \/ Commit(e)
      PROVE  (\A t \in T : Versioned(db'[t])) /\ \A o \in Events : \A t \in T : Versioned(new'[o][t])
  <2>1. \A o \in Events : \A t \in T : Versioned(new'[o][t])
    BY <1>1, <1>4, <1>6, EndsIs
  <2>2. \A t \in T : View(e)[t] = db[t] \cup new[e][t]
    BY ViewIs DEF TypeInv
  <2>3. \A t \in T : Versioned(View(e)[t])
    BY <1>1, <2>2, VersionedUnion
  <2> QED BY <1>1, <1>6, <2>1, <2>3, EndsIs
<1>7. ASSUME NEW e \in Events, Writes(e)
      PROVE  (\A t \in T : Versioned(db'[t])) /\ \A o \in Events : \A t \in T : Versioned(new'[o][t])
  <2>1. db' = db /\ \A o \in Events : o # e => new'[o] = new[o]
    BY <1>7, WritesFrame
  <2>2. SUFFICES \A t \in T : Versioned(new'[e][t])
    BY <1>1, <2>1
  <2>3. CASE Register(e) BY <1>1, <2>3, RegisterIs
  <2>4. CASE AppendPrediction(e)
    <3>1. MaxVersion(PredictionsOf(e)) + 1 \in Nat BY VersionsOf, MaxVersionIs
    <3>2. \A p : p.version \in Nat => Versioned(new[e].predictions \cup {p})
      BY <1>1, VersionedAdd
    <3>3. Versioned(new'[e].predictions) BY <2>4, <3>1, <3>2, AppendPredictionIs
    <3> QED BY <1>1, <2>4, <3>3, AppendPredictionIs
  <2>5. CASE Decide(e) \/ Admit(e)
    <3>1. \A type, r : Decision(e, type, r).version \in Nat
      BY VersionsOf, MaxVersionIs DEF Decision
    <3>2. \A d : d.version \in Nat => Versioned(new[e].decisions \cup {d})
      BY <1>1, VersionedAdd
    <3>3. Versioned(new'[e].decisions) BY <1>1, <2>5, <3>1, <3>2, DecisionIs
    <3> QED BY <1>1, <2>5, <3>3, DecisionIs
  <2>6. CASE Execute(e) BY <1>1, <2>6, ExecuteIs
  <2>7. CASE Appends(e)
    <3>1. obs[e].version \in Nat BY <2>7 DEF Appends, TaskInv, TaskOK, ObservationRow
    <3>2. Versioned(new'[e].observations) BY <1>1, <2>7, <3>1, AppendsIs, VersionedAdd
    <3> QED BY <1>1, <2>7, <3>2, AppendsIs
  <2>8. CASE Attribute(e)
    <3>1. \A a \in AttributionRow : Versioned(new[e].attributions \cup {a})
      BY <1>1, VersionedAdd DEF AttributionRow
    <3>2. Versioned(new'[e].attributions) BY <1>1, <2>8, <3>1, AttributionIs
    <3> QED BY <1>1, <2>8, <3>2, AttributionIs
  <2> QED BY <1>7, <2>3, <2>4, <2>5, <2>6, <2>7, <2>8 DEF Writes
<1> QED BY <1>3, <1>5, <1>6, <1>7, StepCases, QuietSteps DEF Writes

LEMMA QuietFrame ==
  ASSUME TypeInv, NEW e \in Events, Arrives(e) \/ Reads(e)
  PROVE  /\ UNCHANGED <<db, new, held>>
         /\ \A o \in Events : o # e =>
              /\ pc'[o] = pc[o] /\ noted'[o] = noted[o] /\ todo'[o] = todo[o] /\ obs'[o] = obs[o]
<1> USE DEF TypeInv, Goto, Note
<1>1. UNCHANGED <<db, new, held>> BY QuietSteps
<1>2. CASE Arrives(e) BY <1>1, <1>2 DEF Arrives, Occur, Normalize, Ingest
<1>3. CASE Predict(e) BY <1>1, <1>3 DEF Predict
<1>4. CASE Assess(e) BY <1>1, <1>4 DEF Assess
<1>5. CASE SelectCommands(e) BY <1>1, <1>5 DEF SelectCommands
<1>6. CASE Observe(e) BY <1>1, <1>6 DEF Observe
<1> QED BY <1>2, <1>3, <1>4, <1>5, <1>6 DEF Reads

LEMMA ReadsTask ==
  ASSUME PipelineAssumption, TypeInv, VersionInv, TaskInv, NEW e \in Events, Arrives(e) \/ Reads(e)
  PROVE  TaskOK(e)'
<1> DEFINE Ended == {"none", "occurred", "normalized", "scheduled", "done", "failed", "lost"}
<1>1. TaskOK(e) /\ UNCHANGED <<new, held>>
  BY QuietSteps DEF TaskInv
<1>2. ASSUME Observe(e)
      PROVE  \E c \in todo[e] : \E o \in ObservationRow :
               obs' = [obs EXCEPT ![e] = o] /\ o.decision = c.decision /\ o.provider = c.provider
  <2>1. PICK c \in todo[e] : \E o \in ObservationRow :
           /\ obs' = [obs EXCEPT ![e] = o]
           /\ o.decision = c.decision /\ o.provider = c.provider /\ o.as_of = AsOf(e, c)
           /\ o.version = MaxVersion(ObservationsOf(e, c.decision)) + 1
           /\ [outcome |-> o.outcome, timestamp |-> o.timestamp]
                \in FirstOutcomes(Terminals(c.provider, AttemptOf[e], AsOf(e, c)))
    BY <1>2, ObserveIs
  <2> QED BY <2>1
<1> USE DEF TriggerLabels, TerminalLabels, Goto, Note, TypeInv
<1>3. CASE Arrives(e)
  <2>1. pc[e] \in Ended /\ pc'[e] \in Ended /\ UNCHANGED <<noted, todo, obs>>
    BY <1>3 DEF Arrives, Occur, Normalize, Ingest
  <2> QED BY <1>1, <2>1 DEF TaskOK
<1>4. CASE Predict(e)
  <2>1. pc[e] = "predict" /\ UNCHANGED <<todo, obs>> BY <1>4 DEF Predict
  <2>2. \/ pc'[e] \in {"assess", "commit"}
        \/ pc'[e] = "allocate" /\ noted'[e] \in Probabilities
    BY <1>4 DEF Predict, AfterPrediction, Probabilities
  <2> QED BY <1>1, <2>1, <2>2 DEF TaskOK, Trigger, Terminal
<1>5. CASE Assess(e)
  <2>1. pc[e] = "assess" /\ pc'[e] \in {"decide", "commit"} /\ UNCHANGED <<todo, obs>>
    BY <1>5 DEF Assess
  <2> QED BY <1>1, <2>1 DEF TaskOK, Trigger, Terminal
<1>6. CASE SelectCommands(e)
  <2>1. pc[e] = "scheduled" /\ Terminal(e) /\ pc'[e] = "next" BY <1>6 DEF SelectCommands
  <2>2. new[e] = NoRows BY <1>1, <2>1 DEF TaskOK
  <2> QED BY <1>1, <2>1, <2>2, NoRowsType DEF TaskOK
<1>7. CASE Observe(e)
  <2>1. pc[e] = "next" /\ pc'[e] = "append" /\ UNCHANGED todo BY <1>7 DEF Observe
  <2>2. PICK c \in todo[e], o \in ObservationRow :
          obs' = [obs EXCEPT ![e] = o] /\ o.decision = c.decision /\ o.provider = c.provider
    BY <1>2, <1>7
  <2>3. obs'[e] = o BY <2>2
  <2> QED BY <1>1, <2>1, <2>2, <2>3 DEF TaskOK
<1> QED BY <1>3, <1>4, <1>5, <1>6, <1>7 DEF Reads

LEMMA WritesTask ==
  ASSUME PipelineAssumption, TypeInv, VersionInv, TaskInv, NEW e \in Events, Writes(e)
  PROVE  TaskOK(e)'
<1>1. TaskOK(e)
  BY DEF TaskInv
<1> USE DEF TriggerLabels, TerminalLabels, Goto, Note, TypeInv, Tables
<1>2. CASE Register(e)
  <2>1. pc[e] = "scheduled" /\ Trigger(e) /\ pc'[e] \in {"commit", "predict"}
    BY <1>2 DEF Register
  <2>2. UNCHANGED <<todo, obs, noted>> BY <1>2 DEF Register
  <2>3. new[e] = NoRows BY <1>1, <2>1 DEF TaskOK
  <2>4. new'[e].observations = {} /\ new'[e].attributions = {}
    BY <1>2, <2>3, RegisterIs, NoRowsType
  <2> QED BY <1>1, <2>1, <2>2, <2>4 DEF TaskOK, Trigger, Terminal, TerminalTypes
<1>3. CASE AppendPrediction(e)
  <2>1. pc[e] = "allocate" /\ pc'[e] \in {"assess", "commit"} /\ UNCHANGED <<todo, obs>>
    BY <1>3 DEF AppendPrediction, AfterPrediction
  <2>2. Trigger(e) BY <1>1, <2>1 DEF TaskOK
  <2>3. new'[e].observations = new[e].observations /\ new'[e].attributions = new[e].attributions
    BY <1>3, AppendPredictionIs
  <2> QED BY <1>1, <2>1, <2>2, <2>3 DEF TaskOK, Trigger, Terminal, TerminalTypes
<1>4. CASE Decide(e) \/ Admit(e)
  <2>1. /\ pc[e] \in {"decide", "admit"} /\ UNCHANGED <<todo, obs>>
        /\ pc'[e] \in {"commit", "execute"} \/ (pc'[e] = "admit" /\ noted'[e] \in Routes)
    BY <1>4 DEF Decide, Admit
  <2>2. Trigger(e) BY <1>1, <2>1 DEF TaskOK
  <2>3. new'[e].observations = new[e].observations /\ new'[e].attributions = new[e].attributions
    BY <1>4, DecisionIs
  <2> QED BY <1>1, <2>1, <2>2, <2>3 DEF TaskOK, Trigger, Terminal, TerminalTypes
<1>5. CASE Execute(e)
  <2>1. pc[e] = "execute" /\ pc'[e] = "commit" /\ UNCHANGED <<todo, obs>>
    BY <1>5 DEF Execute
  <2>2. Trigger(e) BY <1>1, <2>1 DEF TaskOK
  <2>3. new'[e].observations = new[e].observations /\ new'[e].attributions = new[e].attributions
    BY <1>5, ExecuteIs
  <2> QED BY <1>1, <2>1, <2>2, <2>3 DEF TaskOK, Trigger, Terminal, TerminalTypes
<1>6. CASE Appends(e)
  <2>1. pc[e] = "append" /\ pc'[e] = "attribute" /\ UNCHANGED <<todo, obs>>
    BY <1>6 DEF Appends
  <2>2. Terminal(e) BY <1>1, <2>1 DEF TaskOK
  <2>3. \A t \in Tables : t # "observations" => new'[e][t] = new[e][t]
    BY <1>6, AppendsIs
  <2> QED BY <1>1, <2>1, <2>2, <2>3 DEF TaskOK, Trigger, Terminal, TerminalTypes
<1>7. CASE Attribute(e)
  <2>1. pc[e] = "attribute" /\ pc'[e] = "next"
    BY <1>7 DEF Attribute
  <2>2. Terminal(e) BY <1>1, <2>1 DEF TaskOK
  <2>3. \A t \in Tables : t # "attributions" => new'[e][t] = new[e][t]
    BY <1>7, AttributionIs
  <2> QED BY <1>1, <2>1, <2>2, <2>3 DEF TaskOK, Trigger, Terminal, TerminalTypes
<1> QED BY <1>2, <1>3, <1>4, <1>5, <1>6, <1>7 DEF Writes

LEMMA TaskStep ==
  ASSUME PipelineAssumption, TypeInv, VersionInv, TaskInv, [Next]_vars
  PROVE  TaskInv'
<1>1. SUFFICES ASSUME NEW o \in Events PROVE TaskOK(o)'
  BY DEF TaskInv
<1>2. TaskOK(o)
  BY DEF TaskInv
<1>3. ASSUME UNCHANGED <<pc, new, todo, noted, obs>> PROVE TaskOK(o)'
  BY <1>2, <1>3 DEF TaskOK
<1>4. CASE UNCHANGED vars \/ Tick
  BY <1>3, <1>4 DEF vars, task, Tick
<1>5. ASSUME /\ new'[o] = NoRows /\ todo'[o] = {}
             /\ pc'[o] \notin TriggerLabels \cup TerminalLabels \cup {"commit"}
      PROVE  TaskOK(o)'
  BY <1>5, NoRowsType DEF TaskOK, TerminalLabels, TriggerLabels
<1>6. CASE Crash
  <2>1. pc'[o] \notin TriggerLabels \cup TerminalLabels \cup {"commit"}
    BY <1>6 DEF Crash, TypeInv, Running, TriggerLabels, TerminalLabels, Labels
  <2> QED BY <1>5, <1>6, <2>1, EndsIs
<1>7. ASSUME /\ pc'[o] = pc[o] /\ new'[o] = new[o] /\ todo'[o] = todo[o]
             /\ noted'[o] = noted[o] /\ obs'[o] = obs[o]
      PROVE  TaskOK(o)'
  BY <1>2, <1>7 DEF TaskOK
<1>8. ASSUME NEW e \in Events, Arrives(e) \/ Reads(e) PROVE TaskOK(o)'
  BY <1>7, <1>8, ReadsTask, QuietFrame
<1>9. ASSUME NEW e \in Events, Writes(e) PROVE TaskOK(o)'
  BY <1>7, <1>9, WritesTask, WritesFrame
<1>10. ASSUME NEW e \in Events, Aborts(e) \/ Commit(e) PROVE TaskOK(o)'
  <2>1. CASE o = e
    <3>1. pc'[o] \in {"failed", "done"} BY <1>10, <2>1, EndsIs
    <3> QED BY <1>5, <1>10, <2>1, <3>1, EndsIs DEF TriggerLabels, TerminalLabels
  <2>2. CASE o # e BY <1>7, <1>10, <2>2, EndsIs
  <2> QED BY <2>1, <2>2
<1> QED BY <1>4, <1>6, <1>8, <1>9, <1>10, StepCases DEF Writes

-----------------------------------------------------------------------------
(* Locks *)

LEMMA HeldIs ==
  ASSUME TypeInv, NEW e \in Events, Writes(e)
  PROVE  /\ held[e] \subseteq held'[e]
         /\ held'[e] \subseteq held[e] \cup Wanted(e)
         /\ held'[e] = held[e] \/ Free(e)
         /\ AppendPrediction(e) \/ Decide(e) \/ Admit(e) \/ Attribute(e) => Wanted(e) \subseteq held'[e]
<1> USE DEF TypeInv
<1>1. CASE Register(e) \/ Execute(e) \/ Appends(e)
  <2>1. held'[e] = held[e] BY <1>1 DEF Register, Execute, Appends
  <2>2. ~(AppendPrediction(e) \/ Decide(e) \/ Admit(e) \/ Attribute(e))
    BY <1>1 DEF Register, Execute, Appends, AppendPrediction, Decide, Admit, Attribute
  <2> QED BY <2>1, <2>2
<1>2. CASE AppendPrediction(e) \/ Decide(e) \/ Admit(e) \/ Attribute(e)
  <2>1. Acquire(e) /\ Free(e) BY <1>2 DEF AppendPrediction, Decide, Admit, Attribute
  <2>2. held'[e] = held[e] \cup Wanted(e) BY <2>1 DEF Acquire
  <2> QED BY <2>1, <2>2
<1> QED BY <1>1, <1>2 DEF Writes

LEMMA WritesLock ==
  ASSUME PipelineAssumption, TypeInv, VersionInv, TaskInv, LockInv, NEW e \in Events, Writes(e)
  PROVE  LockOK(e)'
<1>1. LockOK(e) /\ held[e] \subseteq held'[e]
  BY HeldIs DEF LockInv
<1> USE DEF Tables
<1>2. CASE Register(e)
  <2>1. /\ new'[e].predictions = new[e].predictions /\ new'[e].decisions = new[e].decisions
        /\ new'[e].attributions = new[e].attributions
    BY <1>2, RegisterIs
  <2>2. pc'[e] # "admit" BY <1>2 DEF Register, Goto, TypeInv
  <2> QED BY <1>1, <2>1, <2>2 DEF LockOK
<1>3. CASE AppendPrediction(e)
  <2>1. new'[e].decisions = new[e].decisions /\ new'[e].attributions = new[e].attributions
    BY <1>3, AppendPredictionIs
  <2>2. AttemptLock(AttemptOf[e]) \in held'[e]
    BY <1>3, HeldIs DEF AppendPrediction, Wanted, Writes
  <2> QED BY <1>1, <2>1, <2>2 DEF LockOK
<1>4. CASE Decide(e) \/ Admit(e)
  <2>1. new'[e].predictions = new[e].predictions /\ new'[e].attributions = new[e].attributions
    BY <1>4, DecisionIs
  <2>2. AttemptLock(AttemptOf[e]) \in held'[e]
    <3>1. CASE Decide(e) BY <3>1, HeldIs DEF Decide, Wanted, Writes
    <3>2. CASE Admit(e) BY <1>1, <3>2 DEF Admit, LockOK
    <3> QED BY <1>4, <3>1, <3>2
  <2>3. Admit(e) => RateLock \in held'[e]
    BY HeldIs DEF Admit, Wanted, Writes
  <2>4. (\E d \in new'[e].decisions : d.type = "ACT") => RateLock \in held'[e]
    <3>1. Decision(e, "NO_ACTION", "none").type # "ACT" BY DEF Decision
    <3> QED BY <1>1, <1>4, <2>3, <3>1, DecisionIs DEF LockOK
  <2> QED BY <1>1, <2>1, <2>2, <2>4 DEF LockOK
<1>5. CASE Execute(e)
  <2>1. /\ new'[e].predictions = new[e].predictions /\ new'[e].decisions = new[e].decisions
        /\ new'[e].attributions = new[e].attributions
    BY <1>5, ExecuteIs
  <2>2. pc'[e] # "admit" BY <1>5 DEF Execute, Goto, TypeInv
  <2> QED BY <1>1, <2>1, <2>2 DEF LockOK
<1>6. CASE Appends(e)
  <2>1. /\ new'[e].predictions = new[e].predictions /\ new'[e].decisions = new[e].decisions
        /\ new'[e].attributions = new[e].attributions
    BY <1>6, AppendsIs
  <2>2. pc'[e] # "admit" BY <1>6 DEF Appends, Goto, TypeInv
  <2> QED BY <1>1, <2>1, <2>2 DEF LockOK
<1>7. CASE Attribute(e)
  <2>1. /\ new'[e].predictions = new[e].predictions /\ new'[e].decisions = new[e].decisions
    BY <1>7, AttributionIs
  <2>2. pc'[e] # "admit" BY <1>7 DEF Attribute, Goto, TypeInv
  <2>3. AttributionLock(obs[e].decision) \in held'[e]
    BY <1>7, HeldIs DEF Attribute, Wanted, Writes
  <2>4. \A a \in new'[e].attributions :
          a \in new[e].attributions \/ a.decision = obs[e].decision
    BY <1>7, AttributionIs
  <2> QED BY <1>1, <2>1, <2>2, <2>3, <2>4 DEF LockOK
<1> QED BY <1>2, <1>3, <1>4, <1>5, <1>6, <1>7 DEF Writes

\* A lock has one holder, and guards the uncommitted rows made under it.
LEMMA LockStep ==
  ASSUME PipelineAssumption, TypeInv, VersionInv, TaskInv, LockInv, [Next]_vars
  PROVE  LockInv'
<1>1. ASSUME UNCHANGED <<held, new, pc>> PROVE LockInv'
  BY <1>1 DEF LockInv, LockOK
<1>2. CASE UNCHANGED vars \/ Tick
  BY <1>1, <1>2 DEF vars, task, Tick
<1>3. ASSUME NEW e \in Events, new'[e] = NoRows, pc'[e] # "admit" PROVE LockOK(e)'
  BY <1>3, NoRowsType DEF LockOK
<1>4. ASSUME NEW e \in Events, new'[e] = new[e], pc'[e] = pc[e] \/ pc'[e] # "admit",
             held'[e] = held[e]
      PROVE  LockOK(e)'
  BY <1>4 DEF LockOK, LockInv
<1>5. CASE Crash
  <2>1. \A e \in Events : new'[e] = NoRows /\ held'[e] = {}
    BY <1>5, EndsIs
  <2>2. \A e \in Events : pc'[e] # "admit"
    BY <1>5 DEF Crash, TypeInv, Running, Labels
  <2> QED BY <1>3, <2>1, <2>2 DEF LockInv
<1>6. ASSUME NEW e \in Events, Arrives(e) \/ Reads(e) PROVE LockInv'
  <2>1. UNCHANGED <<new, held>> /\ \A o \in Events : o # e => pc'[o] = pc[o]
    BY <1>6, QuietFrame
  <2>2. pc'[e] # "admit"
    BY <1>6 DEF Arrives, Reads, Occur, Normalize, Ingest, Predict, Assess, SelectCommands,
                Observe, Goto, TypeInv, AfterPrediction
  <2> QED BY <1>4, <2>1, <2>2 DEF LockInv
<1>7. ASSUME NEW e \in Events, Aborts(e) \/ Commit(e) PROVE LockInv'
  <2>1. /\ new'[e] = NoRows /\ held'[e] = {} /\ pc'[e] # "admit"
        /\ \A o \in Events : o # e => new'[o] = new[o] /\ held'[o] = held[o] /\ pc'[o] = pc[o]
    BY <1>7, EndsIs
  <2>2. \A o \in Events : LockOK(o)' BY <1>3, <1>4, <2>1
  <2> QED BY <2>1, <2>2 DEF LockInv
<1>8. ASSUME NEW e \in Events, Writes(e) PROVE LockInv'
  <2>1. \A o \in Events : o # e => new'[o] = new[o] /\ held'[o] = held[o] /\ pc'[o] = pc[o]
    BY <1>8, WritesFrame
  <2>2. \A o \in Events : LockOK(o)' BY <1>4, <1>8, <2>1, WritesLock
  <2>3. \A o \in Events : o # e => held'[e] \cap held'[o] = {}
    <3>1. \A o \in Events : o # e => held[e] \cap held[o] = {} BY DEF LockInv
    <3>2. Free(e) => \A o \in Events : o # e => Wanted(e) \cap held[o] = {}
      BY DEF Free, WaitsFor
    <3> QED BY <1>8, <2>1, <3>1, <3>2, HeldIs
  <2> QED BY <2>1, <2>2, <2>3 DEF LockInv
<1> QED BY <1>2, <1>5, <1>6, <1>7, <1>8, StepCases DEF Writes

-----------------------------------------------------------------------------
(* The rate limit *)

LEMMA RowsAre ==
  ASSUME NEW t, NEW r
  PROVE  r \in Rows(t) <=> (r \in db[t] \/ \E e \in Events : r \in new[e][t])
BY DEF Rows

LEMMA RateInvIs == RateInv => RateLimitHolds
<1>1. ASSUME NEW d
      PROVE  Window(Acts, d) =
        {x \in Rows("decisions") :
           /\ x.type = "ACT"
           /\ x.decided_at <= d.decided_at /\ d.decided_at <= x.decided_at + Minute}
  BY DEF Window, Acts
<1>2. ASSUME RateInv, NEW d \in Rows("decisions"), d.type = "ACT"
      PROVE  Cardinality(Window(Acts, d)) <= Limit
  BY <1>2 DEF RateInv, Acts
<1> QED BY <1>1, <1>2 DEF RateLimitHolds

\* Only an admission under the rate lock adds an ACT, and it sees all the others.
LEMMA ActsGrow ==
  ASSUME PipelineAssumption, TypeInv, VersionInv, TaskInv, LockInv, [Next]_vars
  PROVE  \/ Acts' \subseteq Acts
         \/ \E e \in Events, r \in Routes :
              /\ ~(Cardinality(RecentActs(e)) >= Limit)
              /\ Acts \subseteq View(e).decisions
              /\ Acts' \subseteq Acts \cup {Decision(e, "ACT", r)}
<1>0. \A d : (d \in Acts)' <=>
        /\ d.type = "ACT"
        /\ d \in db'.decisions \/ \E o \in Events : d \in new'[o].decisions
  BY DEF Acts, Rows
<1>1. \A d : d \in Acts <=>
        /\ d.type = "ACT"
        /\ d \in db.decisions \/ \E o \in Events : d \in new[o].decisions
  BY DEF Acts, Rows
<1>2. ASSUME UNCHANGED <<db, new>> PROVE Acts' \subseteq Acts
  BY <1>2 DEF Acts, Rows
<1>3. CASE Crash
  <2>1. db' = db /\ \A o \in Events : new'[o].decisions = {} BY <1>3, EndsIs, NoRowsType
  <2> QED BY <1>0, <1>1, <2>1
<1>4. ASSUME NEW e \in Events, Aborts(e) \/ Commit(e) PROVE Acts' \subseteq Acts
  <2>1. /\ \A o \in Events : o # e => new'[o] = new[o]
        /\ new'[e].decisions = {}
        /\ db' = db \/ db' = View(e)
    BY <1>4, EndsIs, NoRowsType
  <2>2. View(e).decisions = db.decisions \cup new[e].decisions
    BY ViewIs DEF TypeInv
  <2> QED BY <1>0, <1>1, <2>1, <2>2
<1>5. ASSUME NEW e \in Events, Writes(e), new'[e].decisions = new[e].decisions
      PROVE  Acts' \subseteq Acts
  <2>1. db' = db /\ \A o \in Events : o # e => new'[o] = new[o]
    BY <1>5, WritesFrame
  <2> QED BY <1>0, <1>1, <1>5, <2>1
<1>6. ASSUME NEW e \in Events,
             Register(e) \/ AppendPrediction(e) \/ Execute(e) \/ Appends(e) \/ Attribute(e)
      PROVE  Acts' \subseteq Acts
  <2>1. new'[e].decisions = new[e].decisions
    BY <1>6, RegisterIs, AppendPredictionIs, ExecuteIs, AppendsIs, AttributionIs DEF Tables
  <2> QED BY <1>5, <1>6, <2>1 DEF Writes
<1>7. ASSUME NEW e \in Events, Decide(e) \/ Admit(e)
      PROVE  \/ Acts' \subseteq Acts
             \/ \E r \in Routes :
                  /\ ~(Cardinality(RecentActs(e)) >= Limit)
                  /\ Acts \subseteq View(e).decisions
                  /\ Acts' \subseteq Acts \cup {Decision(e, "ACT", r)}
  <2>1. db' = db /\ \A o \in Events : o # e => new'[o] = new[o]
    BY <1>7, WritesFrame DEF Writes
  <2>2. CASE UNCHANGED new BY <1>2, <2>1, <2>2
  <2>3. CASE new'[e].decisions = new[e].decisions \cup {Decision(e, "NO_ACTION", "none")}
    <3>1. Decision(e, "NO_ACTION", "none").type # "ACT" BY DEF Decision
    <3> QED BY <1>0, <1>1, <2>1, <2>3, <3>1
  <2>4. ASSUME NEW r \in Routes, Admit(e), ~(Cardinality(RecentActs(e)) >= Limit),
               new'[e].decisions = new[e].decisions \cup {Decision(e, "ACT", r)}
        PROVE  /\ Acts \subseteq View(e).decisions
               /\ Acts' \subseteq Acts \cup {Decision(e, "ACT", r)}
    <3>1. RateLock \in Wanted(e) /\ Free(e)
      BY <2>4 DEF Admit, Wanted
    <3>2. \A o \in Events : o # e => RateLock \notin held[o]
      BY <3>1 DEF Free, WaitsFor
    <3>3. \A o \in Events : o # e => ~\E d \in new[o].decisions : d.type = "ACT"
      BY <3>2 DEF LockInv, LockOK
    <3>4. View(e).decisions = db.decisions \cup new[e].decisions
      BY ViewIs DEF TypeInv
    <3>5. Acts \subseteq View(e).decisions
      BY <1>1, <3>3, <3>4
    <3> QED BY <1>0, <1>1, <2>1, <2>4, <3>5
  <2> QED BY <1>7, <2>2, <2>3, <2>4, DecisionIs
<1>8. CASE UNCHANGED vars \/ Tick \/ \E e \in Events : Arrives(e) \/ Reads(e)
  BY <1>2, <1>8, QuietSteps
<1> QED BY <1>3, <1>4, <1>6, <1>7, <1>8, StepCases

\* The window of an old ACT gains the new one only if it lies within what was counted.
LEMMA RateStep ==
  ASSUME PipelineAssumption, TypeInv, VersionInv, TaskInv, LockInv, RateInv, [Next]_vars
  PROVE  RateInv'
<1>0. /\ Limit \in Nat /\ Minute \in Nat /\ IsFiniteSet(Acts)
  BY DEF PipelineAssumption, RateInv
<1>1. \A d \in Acts : d.decided_at \in Nat
  <2>1. db.decisions \subseteq DecisionRow /\ \A e \in Events : new[e].decisions \subseteq DecisionRow
    BY DEF TypeInv, Database
  <2> QED BY <2>1, RowsAre DEF Acts, DecisionRow
<1>2. RateInv' <=> IsFiniteSet(Acts') /\ \A d \in Acts' : Cardinality(Window(Acts', d)) <= Limit
  BY DEF RateInv, Window
<1>3. CASE Acts' \subseteq Acts
  <2>1. IsFiniteSet(Acts') BY <1>0, <1>3, FS_Subset
  <2>2. ASSUME NEW d \in Acts' PROVE Cardinality(Window(Acts', d)) <= Limit
    <3>1. Window(Acts', d) \subseteq Window(Acts, d) /\ Window(Acts, d) \subseteq Acts
      BY <1>3 DEF Window
    <3>2. IsFiniteSet(Window(Acts, d)) /\ IsFiniteSet(Window(Acts', d))
      BY <1>0, <3>1, FS_Subset
    <3>3. Cardinality(Window(Acts', d)) <= Cardinality(Window(Acts, d))
      BY <3>1, <3>2, FS_Subset
    <3>4. Cardinality(Window(Acts, d)) <= Limit BY <1>3 DEF RateInv
    <3>5. Cardinality(Window(Acts, d)) \in Nat /\ Cardinality(Window(Acts', d)) \in Nat
      BY <3>2, FS_CardinalityType
    <3> QED BY <1>0, <3>3, <3>4, <3>5
  <2> QED BY <1>2, <2>1, <2>2
<1>4. ASSUME NEW e \in Events, NEW r \in Routes,
             ~(Cardinality(RecentActs(e)) >= Limit), Acts \subseteq View(e).decisions,
             Acts' \subseteq Acts \cup {Decision(e, "ACT", r)}
      PROVE  RateInv'
  <2> DEFINE d0 == Decision(e, "ACT", r)
             Recent == {x \in Acts : x.decided_at + Minute >= TEval(e)}
  <2>1. d0.decided_at = TEval(e) /\ TEval(e) \in Nat BY DEF Decision, TEval, TypeInv
  <2>2. IsFiniteSet(Acts \cup {d0}) /\ IsFiniteSet(Acts') BY <1>0, <1>4, FS_AddElement, FS_Subset
  <2>3. Recent \subseteq RecentActs(e) /\ RecentActs(e) \subseteq Acts \cup RecentActs(e)
    BY <1>4 DEF RecentActs, Acts
  <2>4. RecentActs(e) \subseteq Acts
    <3>1. View(e).decisions = db.decisions \cup new[e].decisions BY ViewIs DEF TypeInv
    <3> QED BY <3>1, RowsAre DEF RecentActs, Acts
  <2>5. Recent = RecentActs(e) BY <2>3, <2>4 DEF RecentActs
  <2>6. /\ IsFiniteSet(Recent) /\ Cardinality(Recent) \in Nat
        /\ IsFiniteSet(Recent \cup {d0})
        /\ Cardinality(Recent \cup {d0}) \in Nat
        /\ Cardinality(Recent \cup {d0}) <= Cardinality(Recent) + 1
    <3>1. Recent \subseteq Acts OBVIOUS
    <3>2. IsFiniteSet(Recent) BY <1>0, <3>1, FS_Subset
    <3>3. Cardinality(Recent) \in Nat BY <3>2, FS_CardinalityType
    <3>4. /\ IsFiniteSet(Recent \cup {d0})
          /\ Cardinality(Recent \cup {d0}) =
               IF d0 \in Recent THEN Cardinality(Recent) ELSE Cardinality(Recent) + 1
      BY <3>2, FS_AddElement
    <3> HIDE DEF d0, Recent
    <3> QED BY <3>2, <3>3, <3>4
  <2>7. Cardinality(Recent) + 1 <= Limit
    <3>1. ~(Cardinality(Recent) >= Limit) BY <1>4, <2>5
    <3> HIDE DEF d0, Recent
    <3> QED BY <1>0, <2>6, <3>1
  <2>8. ASSUME NEW d \in Acts', NEW W, W = Window(Acts', d), W \subseteq Recent \cup {d0}
        PROVE  Cardinality(W) <= Limit
    <3>1. IsFiniteSet(W) /\ Cardinality(W) <= Cardinality(Recent \cup {d0})
      BY <2>6, <2>8, FS_Subset
    <3>2. Cardinality(W) \in Nat BY <3>1, FS_CardinalityType
    <3> HIDE DEF d0, Recent
    <3> QED BY <1>0, <2>6, <2>7, <3>1, <3>2
  <2>9. ASSUME NEW d \in Acts' PROVE Cardinality(Window(Acts', d)) <= Limit
    <3> DEFINE W == Window(Acts', d)
    <3>1. \A x \in W :
            /\ x \in Acts \/ x = d0
            /\ x.decided_at <= d.decided_at /\ d.decided_at <= x.decided_at + Minute
      BY <1>4 DEF Window
    <3>2. d \in Acts \/ d = d0 BY <1>4
    <3>3. d.decided_at \in Nat BY <1>1, <2>1, <3>2
    <3>4. CASE d0 \in W \/ d = d0
      <4>1. TEval(e) <= d.decided_at BY <2>1, <3>1, <3>3, <3>4
      <4>2. ASSUME NEW x \in W PROVE x \in Recent \cup {d0}
        <5>1. CASE x = d0 BY <5>1
        <5>2. CASE x # d0
          <6>1. x \in Acts /\ x.decided_at \in Nat /\ d.decided_at <= x.decided_at + Minute
            BY <1>1, <3>1, <5>2
          <6>2. x.decided_at + Minute >= TEval(e) BY <1>0, <2>1, <3>3, <4>1, <6>1
          <6> QED BY <6>1, <6>2
        <5> QED BY <5>1, <5>2
      <4> QED BY <2>8, <4>2
    <3>5. CASE d0 \notin W /\ d # d0
      <4>1. d \in Acts BY <3>2, <3>5
      <4>2. W \subseteq Window(Acts, d) BY <3>1, <3>5 DEF Window
      <4>3. Window(Acts, d) \subseteq Acts BY DEF Window
      <4>4. IsFiniteSet(Window(Acts, d)) BY <1>0, <4>3, FS_Subset
      <4>5. IsFiniteSet(W) /\ Cardinality(W) <= Cardinality(Window(Acts, d))
        BY <4>2, <4>4, FS_Subset
      <4>6. Cardinality(W) \in Nat /\ Cardinality(Window(Acts, d)) \in Nat
        BY <4>4, <4>5, FS_CardinalityType
      <4>7. Cardinality(Window(Acts, d)) <= Limit BY <4>1 DEF RateInv
      <4> HIDE DEF W
      <4>8. Cardinality(W) <= Limit BY <1>0, <4>5, <4>6, <4>7
      <4> QED BY <4>8 DEF W
    <3> QED BY <3>4, <3>5
  <2> QED BY <1>2, <2>2, <2>9
<1> QED BY <1>3, <1>4, ActsGrow

-----------------------------------------------------------------------------
(* The registry *)

LEMMA MineStep ==
  ASSUME PipelineAssumption, TypeInv, VersionInv, TaskInv, MineInv, [Next]_vars
  PROVE  MineInv'
<1> DEFINE Own(e) == \A r \in new[e].predictions \cup new[e].decisions : Mine(e, r)
<1>1. \A e \in Events : Own(e)
  BY DEF MineInv
<1>2. SUFFICES ASSUME NEW o \in Events PROVE Own(o)'
  BY DEF MineInv
<1>3. ASSUME new'[o] = new[o] \/ new'[o] = NoRows PROVE Own(o)'
  BY <1>1, <1>3, NoRowsType DEF Mine
<1>4. CASE UNCHANGED vars \/ Tick \/ \E e \in Events : Arrives(e) \/ Reads(e)
  BY <1>3, <1>4, QuietSteps
<1>5. CASE Crash
  BY <1>3, <1>5, EndsIs
<1>6. ASSUME NEW e \in Events, Aborts(e) \/ Commit(e) PROVE Own(o)'
  BY <1>3, <1>6, EndsIs
<1>7. ASSUME NEW e \in Events, Writes(e) PROVE Own(o)'
  <2>1. CASE o # e BY <1>3, <1>7, <2>1, WritesFrame
  <2>2. ASSUME Register(e) \/ Execute(e) \/ Appends(e) \/ Attribute(e) PROVE Own(e)'
    <3>1. new'[e].predictions = new[e].predictions /\ new'[e].decisions = new[e].decisions
      BY <2>2, RegisterIs, ExecuteIs, AppendsIs, AttributionIs DEF Tables
    <3> QED BY <1>1, <3>1 DEF Mine
  <2>3. ASSUME AppendPrediction(e) PROVE Own(e)'
    <3>1. new'[e].decisions = new[e].decisions BY <2>3, AppendPredictionIs DEF Tables
    <3>2. \A r \in new'[e].predictions : r \in new[e].predictions \/ Mine(e, r)
      BY <2>3, AppendPredictionIs DEF Mine
    <3> QED BY <1>1, <3>1, <3>2 DEF Mine
  <2>4. ASSUME Decide(e) \/ Admit(e) PROVE Own(e)'
    <3>1. new'[e].predictions = new[e].predictions BY <2>4, DecisionIs DEF Tables
    <3>2. \A type, r : Mine(e, Decision(e, type, r)) BY DEF Mine, Decision
    <3>3. \A d \in new'[e].decisions : d \in new[e].decisions \/ Mine(e, d)
      BY <2>4, <3>2, DecisionIs
    <3> QED BY <1>1, <3>1, <3>3 DEF Mine
  <2> QED BY <1>7, <2>1, <2>2, <2>3, <2>4 DEF Writes
<1> QED BY <1>4, <1>5, <1>6, <1>7, StepCases DEF Writes

\* An insertion waits for an uncommitted equal key, and finds a committed one.
LEMMA RegistryStep ==
  ASSUME PipelineAssumption, TypeInv, VersionInv, TaskInv, RegistryInv, [Next]_vars
  PROVE  RegistryInv'
<1> DEFINE R == Rows("payment_attempts")
<1>1. \A r : r \in R <=> r \in db.payment_attempts \/ \E o \in Events : r \in new[o].payment_attempts
  BY DEF Rows
<1>2. \A r : r \in R' <=>
         r \in db'.payment_attempts \/ \E o \in Events : r \in new'[o].payment_attempts
  BY DEF Rows
<1>3. ASSUME R' \subseteq R PROVE RegistryInv'
  BY <1>3 DEF RegistryInv
<1> HIDE DEF R
<1>4. CASE UNCHANGED vars \/ Tick \/ \E e \in Events : Arrives(e) \/ Reads(e)
  BY <1>1, <1>2, <1>3, <1>4, QuietSteps
<1>5. CASE Crash
  <2>1. db' = db /\ \A o \in Events : new'[o].payment_attempts = {} BY <1>5, EndsIs, NoRowsType
  <2> QED BY <1>1, <1>2, <1>3, <2>1
<1>6. ASSUME NEW e \in Events, Aborts(e) \/ Commit(e) PROVE RegistryInv'
  <2>1. /\ \A o \in Events : o # e => new'[o] = new[o]
        /\ new'[e].payment_attempts = {}
        /\ db' = db \/ db' = View(e)
    BY <1>6, EndsIs, NoRowsType
  <2>2. View(e).payment_attempts = db.payment_attempts \cup new[e].payment_attempts
    BY ViewIs DEF TypeInv
  <2>3. R' \subseteq R BY <1>1, <1>2, <2>1, <2>2
  <2> QED BY <1>3, <2>3
<1>7. ASSUME NEW e \in Events, Writes(e),
             new'[e].payment_attempts = new[e].payment_attempts
      PROVE  RegistryInv'
  <2>1. db' = db /\ \A o \in Events : o # e => new'[o] = new[o]
    BY <1>7, WritesFrame
  <2>2. R' \subseteq R BY <1>1, <1>2, <1>7, <2>1
  <2> QED BY <1>3, <2>2
<1>8. ASSUME NEW e \in Events,
             \/ AppendPrediction(e) \/ Decide(e) \/ Admit(e) \/ Execute(e)
             \/ Appends(e) \/ Attribute(e)
      PROVE  RegistryInv'
  <2>1. new'[e].payment_attempts = new[e].payment_attempts
    BY <1>8, AppendPredictionIs, DecisionIs, ExecuteIs, AppendsIs, AttributionIs DEF Tables
  <2> QED BY <1>7, <1>8, <2>1 DEF Writes
<1>9. ASSUME NEW e \in Events, Register(e) PROVE RegistryInv'
  <2> DEFINE row == [attempt |-> AttemptOf[e], provider |-> ProviderOf[e], trigger |-> e]
  <2>1. db' = db /\ \A o \in Events : o # e => new'[o] = new[o]
    BY <1>9, WritesFrame DEF Writes
  <2>2. CASE UNCHANGED new
    BY <1>7, <1>9, <2>2 DEF Writes
  <2>3. CASE Registrations(e) = {} /\ new'[e].payment_attempts = new[e].payment_attempts \cup {row}
    <3>1. new[e].payment_attempts = {}
      <4>1. pc[e] = "scheduled" BY <1>9 DEF Register
      <4> QED BY <4>1, NoRowsType DEF TaskInv, TaskOK, TriggerLabels, TerminalLabels
    <3>2. \A o \in Events : o # e => \A r \in new[o].payment_attempts : r.attempt # AttemptOf[e]
      BY <1>9 DEF Register, Free, WaitsFor, InsertWaits
    <3>3. \A r \in db.payment_attempts : r.attempt # AttemptOf[e]
      BY <2>3 DEF Registrations
    <3>4. \A r \in R : r.attempt # AttemptOf[e]
      BY <1>1, <3>1, <3>2, <3>3
    <3>5. \A r \in R' : r \in R \/ r = row
      BY <1>1, <1>2, <2>1, <2>3
    <3>6. row.attempt = AttemptOf[e] /\ row.provider = ProviderOf[e] /\ row.trigger = e
      OBVIOUS
    <3> HIDE DEF row
    <3>7. \A r \in R' : ProviderOf[r.trigger] = r.provider /\ AttemptOf[r.trigger] = r.attempt
      BY <3>5, <3>6 DEF RegistryInv, R
    <3>8. \A r, q \in R' : r.attempt = q.attempt => r.provider = q.provider
      BY <3>4, <3>5, <3>6 DEF RegistryInv, R
    <3> QED BY <3>7, <3>8 DEF RegistryInv, R
  <2> QED BY <1>9, <2>2, <2>3, RegisterIs
<1> QED BY <1>4, <1>5, <1>6, <1>8, <1>9, StepCases

-----------------------------------------------------------------------------
(* Owners *)

LEMMA ViewIsNext ==
  ASSUME db' \in Database, new' \in [Events -> Database], NEW e \in Events
  PROVE  /\ View(e)'.payment_attempts = db'.payment_attempts \cup new'[e].payment_attempts
         /\ View(e)'.predictions = db'.predictions \cup new'[e].predictions
         /\ View(e)'.decisions = db'.decisions \cup new'[e].decisions
         /\ View(e)'.commands = db'.commands \cup new'[e].commands
         /\ View(e)'.execution_attempts = db'.execution_attempts \cup new'[e].execution_attempts
         /\ View(e)'.observations = db'.observations \cup new'[e].observations
         /\ View(e)'.attributions = db'.attributions \cup new'[e].attributions
BY DEF View, NoRows, Database

\* A database keeps its owners when it gains rows with owners.
LEMMA OwnedGrow ==
  ASSUME NEW D, NEW E, OwnedIn(D), D.payment_attempts \subseteq E.payment_attempts,
         \A r \in E.predictions \cup E.decisions :
           r \in D.predictions \cup D.decisions \/ Owner(E, r.attempt, r.provider),
         \A r \in E.commands \cup E.execution_attempts \cup E.observations \cup E.attributions :
           \/ r \in D.commands \cup D.execution_attempts \cup D.observations \cup D.attributions
           \/ Owner(E, r.decision[1], r.provider)
  PROVE  OwnedIn(E)
BY DEF OwnedIn, Owner

LEMMA OwnerGrows ==
  ASSUME NEW D, NEW E, D.payment_attempts \subseteq E.payment_attempts, NEW a, NEW p, Owner(D, a, p)
  PROVE  Owner(E, a, p)
BY DEF Owner

LEMMA WritesOwned ==
  ASSUME PipelineAssumption, TypeInv, VersionInv, TaskInv, OwnedInv, TypeInv',
         NEW e \in Events, Writes(e)
  PROVE  OwnedOK(e)'
<1> DEFINE V == View(e)
           W == View(e)'
<1>1. OwnedOK(e) /\ OwnedIn(V) /\ db' = db
  BY WritesFrame DEF OwnedInv, OwnedOK
<1>2. /\ V.payment_attempts = db.payment_attempts \cup new[e].payment_attempts
      /\ V.predictions = db.predictions \cup new[e].predictions
      /\ V.decisions = db.decisions \cup new[e].decisions
      /\ V.commands = db.commands \cup new[e].commands
      /\ V.execution_attempts = db.execution_attempts \cup new[e].execution_attempts
      /\ V.observations = db.observations \cup new[e].observations
      /\ V.attributions = db.attributions \cup new[e].attributions
  BY ViewIs DEF TypeInv
<1>3. /\ W.payment_attempts = db.payment_attempts \cup new'[e].payment_attempts
      /\ W.predictions = db.predictions \cup new'[e].predictions
      /\ W.decisions = db.decisions \cup new'[e].decisions
      /\ W.commands = db.commands \cup new'[e].commands
      /\ W.execution_attempts = db.execution_attempts \cup new'[e].execution_attempts
      /\ W.observations = db.observations \cup new'[e].observations
      /\ W.attributions = db.attributions \cup new'[e].attributions
  BY <1>1, ViewIsNext DEF TypeInv
<1> HIDE DEF V, W
<1>4. \A c \in todo'[e] : c \in db'.commands /\ c.decision[1] = AttemptOf[e]
  <2>1. todo'[e] \subseteq todo[e]
    <3> USE DEF TypeInv
    <3>1. CASE Attribute(e) BY <3>1 DEF Attribute
    <3>2. CASE ~Attribute(e)
      BY <3>2 DEF Writes, Register, AppendPrediction, Decide, Admit, Execute, Appends
    <3> QED BY <3>1, <3>2
  <2> QED BY <1>1, <2>1 DEF OwnedOK
<1>5. ASSUME OwnedIn(W), pc'[e] \in TriggerLabels => Owner(W, AttemptOf[e], ProviderOf[e])
      PROVE  OwnedOK(e)'
  BY <1>4, <1>5 DEF OwnedOK, OwnedIn, Owner, W
<1>6. ASSUME V.payment_attempts \subseteq W.payment_attempts, pc[e] \in TriggerLabels
      PROVE  Owner(W, AttemptOf[e], ProviderOf[e])
  <2>1. Owner(V, AttemptOf[e], ProviderOf[e]) BY <1>1, <1>6 DEF OwnedOK, V
  <2> QED BY <1>6, <2>1, OwnerGrows
<1> USE DEF Tables
<1>7. CASE Register(e)
  <2>1. /\ V.payment_attempts \subseteq W.payment_attempts
        /\ W.predictions = V.predictions /\ W.decisions = V.decisions
        /\ W.commands = V.commands /\ W.execution_attempts = V.execution_attempts
        /\ W.observations = V.observations /\ W.attributions = V.attributions
    BY <1>2, <1>3, <1>7, RegisterIs
  <2>2. OwnedIn(W) BY <1>1, <2>1, OwnedGrow
  <2>3. ASSUME pc'[e] \in TriggerLabels PROVE Owner(W, AttemptOf[e], ProviderOf[e])
    <3>1. ~\E r \in Registrations(e) : r.provider # ProviderOf[e]
      BY <1>7, <2>3 DEF Register, Goto, TypeInv, TriggerLabels
    <3>2. CASE Registrations(e) # {}
      <4>1. \E r \in db.payment_attempts : r.attempt = AttemptOf[e] /\ r.provider = ProviderOf[e]
        BY <3>1, <3>2 DEF Registrations
      <4> QED BY <1>3, <4>1 DEF Owner
    <3>3. CASE Registrations(e) = {}
      <4>1. [attempt |-> AttemptOf[e], provider |-> ProviderOf[e], trigger |-> e]
               \in W.payment_attempts
        BY <1>3, <1>7, <3>3, RegisterIs
      <4> QED BY <4>1 DEF Owner
    <3> QED BY <3>2, <3>3
  <2> QED BY <1>5, <2>2, <2>3
<1>8. CASE AppendPrediction(e)
  <2>1. /\ W.payment_attempts = V.payment_attempts /\ W.decisions = V.decisions
        /\ W.commands = V.commands /\ W.execution_attempts = V.execution_attempts
        /\ W.observations = V.observations /\ W.attributions = V.attributions
    BY <1>2, <1>3, <1>8, AppendPredictionIs
  <2>2. Owner(W, AttemptOf[e], ProviderOf[e])
    BY <1>6, <1>8, <2>1 DEF AppendPrediction, TriggerLabels
  <2>3. \A r \in W.predictions :
          r \in V.predictions \/ (r.attempt = AttemptOf[e] /\ r.provider = ProviderOf[e])
    BY <1>2, <1>3, <1>8, AppendPredictionIs
  <2>4. OwnedIn(W) BY <1>1, <2>1, <2>2, <2>3, OwnedGrow
  <2> QED BY <1>5, <2>2, <2>4
<1>9. CASE Decide(e) \/ Admit(e)
  <2>1. /\ W.payment_attempts = V.payment_attempts /\ W.predictions = V.predictions
        /\ W.commands = V.commands /\ W.execution_attempts = V.execution_attempts
        /\ W.observations = V.observations /\ W.attributions = V.attributions
    BY <1>2, <1>3, <1>9, DecisionIs
  <2>2. Owner(W, AttemptOf[e], ProviderOf[e])
    BY <1>6, <1>9, <2>1 DEF Decide, Admit, TriggerLabels
  <2>3. \A type, r : Mine(e, Decision(e, type, r)) BY DEF Mine, Decision
  <2>4. \A r \in W.decisions : r \in V.decisions \/ Mine(e, r)
    BY <1>2, <1>3, <1>9, <2>3, DecisionIs
  <2>5. OwnedIn(W) BY <1>1, <2>1, <2>2, <2>4, OwnedGrow DEF Mine
  <2> QED BY <1>5, <2>2, <2>5
<1>10. CASE Execute(e)
  <2>1. /\ W.payment_attempts = V.payment_attempts /\ W.predictions = V.predictions
        /\ W.decisions = V.decisions
        /\ W.observations = V.observations /\ W.attributions = V.attributions
    BY <1>2, <1>3, <1>10, ExecuteIs
  <2>2. Owner(W, AttemptOf[e], ProviderOf[e])
    BY <1>6, <1>10, <2>1 DEF Execute, TriggerLabels
  <2> DEFINE id == <<AttemptOf[e], MaxVersion(DecisionsOf(e))>>
             Tried(x) == /\ x.decision = id /\ x.provider = ProviderOf[e]
                         /\ new'[e].execution_attempts = new[e].execution_attempts \cup {x}
  <2>3. PICK c : /\ c.decision = id /\ c.provider = ProviderOf[e]
                 /\ new'[e].commands = new[e].commands \cup {c}
                 /\ \/ new'[e].execution_attempts = new[e].execution_attempts
                    \/ \E x : Tried(x)
    BY <1>10, ExecuteWrites
  <2>4. c.decision[1] = AttemptOf[e] BY <2>3
  <2>5. \A r \in W.commands :
          r \in V.commands \/ (r.decision[1] = AttemptOf[e] /\ r.provider = ProviderOf[e])
    BY <1>2, <1>3, <2>3, <2>4
  <2>6. \/ new'[e].execution_attempts = new[e].execution_attempts
        \/ \E x : Tried(x)
    BY <2>3
  <2>7. \A r \in W.execution_attempts :
             \/ r \in V.execution_attempts
             \/ r.decision[1] = AttemptOf[e] /\ r.provider = ProviderOf[e]
    BY <1>2, <1>3, <2>6
  <2>8. OwnedIn(W) BY <1>1, <2>1, <2>2, <2>5, <2>7, OwnedGrow
  <2> QED BY <1>5, <2>2, <2>8
<1>11. ASSUME NEW c \in todo[e] PROVE Owner(db, c.decision[1], c.provider)
  BY <1>1 DEF OwnedOK, OwnedInv, OwnedIn
<1>12. CASE Appends(e)
  <2>1. /\ W.payment_attempts = V.payment_attempts /\ W.predictions = V.predictions
        /\ W.decisions = V.decisions /\ W.commands = V.commands
        /\ W.execution_attempts = V.execution_attempts /\ W.attributions = V.attributions
    BY <1>2, <1>3, <1>12, AppendsIs
  <2>2. PICK c \in todo[e] : c.decision = obs[e].decision /\ c.provider = obs[e].provider
    BY <1>12 DEF Appends, TaskInv, TaskOK
  <2>3. Owner(W, obs[e].decision[1], obs[e].provider)
    BY <1>3, <1>11, <2>2 DEF Owner
  <2>4. W.observations = V.observations \cup {obs[e]}
    BY <1>2, <1>3, <1>12, AppendsIs
  <2>5. OwnedIn(W) BY <1>1, <2>1, <2>3, <2>4, OwnedGrow
  <2>6. pc'[e] \notin TriggerLabels
    BY <1>12 DEF Appends, Goto, TypeInv, TriggerLabels
  <2> QED BY <1>5, <2>5, <2>6
<1>13. CASE Attribute(e)
  <2>1. /\ W.payment_attempts = V.payment_attempts /\ W.predictions = V.predictions
        /\ W.decisions = V.decisions /\ W.commands = V.commands
        /\ W.execution_attempts = V.execution_attempts /\ W.observations = V.observations
    BY <1>2, <1>3, <1>13, AttributionIs
  <2>2. \A a \in W.attributions : a \in V.attributions \/
          \E c \in todo[e] : c.decision = a.decision /\ c.provider = a.provider
    BY <1>2, <1>3, <1>13, AttributionIs
  <2>3. \A a \in W.attributions : a \in V.attributions \/ Owner(W, a.decision[1], a.provider)
    BY <1>3, <1>11, <2>2 DEF Owner
  <2>4. OwnedIn(W) BY <1>1, <2>1, <2>3, OwnedGrow
  <2>5. pc'[e] \notin TriggerLabels
    BY <1>13 DEF Attribute, Goto, TypeInv, TriggerLabels
  <2> QED BY <1>5, <2>4, <2>5
<1> QED BY <1>7, <1>8, <1>9, <1>10, <1>12, <1>13 DEF Writes

LEMMA OwnedStep ==
  ASSUME PipelineAssumption, TypeInv, VersionInv, TaskInv, OwnedInv, [Next]_vars
  PROVE  OwnedInv'
<1>1. OwnedIn(db) /\ \A o \in Events : OwnedOK(o)
  BY DEF OwnedInv
<1>2. TypeInv'
  BY TypeStep
<1>3. ASSUME NEW o \in Events, db' = db, new'[o] = new[o], todo'[o] = todo[o],
             pc'[o] \in TriggerLabels => pc[o] \in TriggerLabels
      PROVE  OwnedOK(o)'
  <2>1. View(o)' = View(o) BY <1>3 DEF View
  <2>2. OwnedIn(View(o)') BY <1>1, <2>1 DEF OwnedOK
  <2>3. pc'[o] \in TriggerLabels => Owner(View(o)', AttemptOf[o], ProviderOf[o])
    BY <1>1, <1>3, <2>1 DEF OwnedOK
  <2>4. \A c \in todo'[o] : c \in db'.commands /\ c.decision[1] = AttemptOf[o]
    BY <1>1, <1>3 DEF OwnedOK
  <2> QED BY <2>2, <2>3, <2>4 DEF OwnedOK, OwnedIn, Owner
<1>4. ASSUME db' = db PROVE OwnedIn(db)'
  BY <1>1, <1>4 DEF OwnedIn, Owner
<1>5. ASSUME NEW o \in Events, new'[o] = NoRows, todo'[o] = {}, pc'[o] \notin TriggerLabels,
             OwnedIn(db)'
      PROVE  OwnedOK(o)'
  <2>1. /\ View(o)'.payment_attempts = db'.payment_attempts
        /\ View(o)'.predictions = db'.predictions
        /\ View(o)'.decisions = db'.decisions /\ View(o)'.commands = db'.commands
        /\ View(o)'.execution_attempts = db'.execution_attempts
        /\ View(o)'.observations = db'.observations /\ View(o)'.attributions = db'.attributions
    <3>1. /\ new'[o].payment_attempts = {} /\ new'[o].predictions = {} /\ new'[o].decisions = {}
          /\ new'[o].commands = {} /\ new'[o].execution_attempts = {}
          /\ new'[o].observations = {} /\ new'[o].attributions = {}
      BY <1>5, NoRowsType
    <3>2. db' \in Database /\ new' \in [Events -> Database] BY <1>2 DEF TypeInv
    <3>3. /\ View(o)'.payment_attempts = db'.payment_attempts \cup {}
          /\ View(o)'.predictions = db'.predictions \cup {}
          /\ View(o)'.decisions = db'.decisions \cup {}
          /\ View(o)'.commands = db'.commands \cup {}
          /\ View(o)'.execution_attempts = db'.execution_attempts \cup {}
          /\ View(o)'.observations = db'.observations \cup {}
          /\ View(o)'.attributions = db'.attributions \cup {}
      BY <3>1, <3>2, ViewIsNext
    <3>4. \A S : S \cup {} = S OBVIOUS
    <3> QED BY <3>3, <3>4
  <2> QED BY <1>5, <2>1 DEF OwnedOK, OwnedIn, Owner
<1>6. CASE UNCHANGED vars \/ Tick
  BY <1>1, <1>3, <1>4, <1>6 DEF vars, task, Tick, OwnedInv
<1>7. CASE Crash
  <2>1. \A o \in Events : pc'[o] \notin TriggerLabels
    BY <1>7 DEF Crash, TypeInv, Running, Labels, TriggerLabels
  <2> QED BY <1>4, <1>5, <1>7, <2>1, EndsIs DEF OwnedInv
<1>8. ASSUME NEW e \in Events, Arrives(e) \/ Reads(e) PROVE OwnedInv'
  <2>1. /\ UNCHANGED <<db, new>>
        /\ \A o \in Events : o # e => pc'[o] = pc[o] /\ todo'[o] = todo[o]
    BY <1>8, QuietFrame
  <2>2. pc'[e] \in TriggerLabels => pc[e] \in TriggerLabels
    BY <1>8 DEF Arrives, Reads, Occur, Normalize, Ingest, Predict, Assess, SelectCommands,
                Observe, Goto, TypeInv, TriggerLabels
  <2>3. CASE ~SelectCommands(e)
    <3>1. todo' = todo
      BY <1>8, <2>3 DEF Arrives, Reads, Occur, Normalize, Ingest, Predict, Assess, Observe
    <3> QED BY <1>3, <1>4, <2>1, <2>2, <3>1 DEF OwnedInv
  <2>4. CASE SelectCommands(e)
    <3>1. \A o \in Events : o # e => OwnedOK(o)' BY <1>3, <2>1
    <3>2. pc'[e] \notin TriggerLabels
      BY <2>4 DEF SelectCommands, Goto, TypeInv, TriggerLabels
    <3>3. \A c \in todo'[e] : c \in db'.commands /\ c.decision[1] = AttemptOf[e]
      BY <2>1, <2>4 DEF SelectCommands, TypeInv
    <3>4. View(e)' = View(e) BY <2>1 DEF View
    <3>5. OwnedIn(View(e)') BY <1>1, <3>4 DEF OwnedOK
    <3>6. OwnedOK(e)' BY <3>2, <3>3, <3>5 DEF OwnedOK, OwnedIn, Owner
    <3> QED BY <1>4, <2>1, <3>1, <3>6 DEF OwnedInv
  <2> QED BY <2>3, <2>4
<1>9. ASSUME NEW e \in Events, Writes(e) PROVE OwnedInv'
  <2>1. db' = db /\ \A o \in Events : o # e =>
          new'[o] = new[o] /\ pc'[o] = pc[o] /\ todo'[o] = todo[o]
    BY <1>9, WritesFrame
  <2> QED BY <1>2, <1>3, <1>4, <1>9, <2>1, WritesOwned DEF OwnedInv
<1>10. ASSUME NEW e \in Events, Aborts(e) PROVE OwnedInv'
  <2>1. /\ db' = db /\ new'[e] = NoRows /\ todo'[e] = {} /\ pc'[e] \in {"failed", "done"}
        /\ \A o \in Events : o # e =>
             new'[o] = new[o] /\ pc'[o] = pc[o] /\ todo'[o] = todo[o]
    BY <1>10, EndsIs
  <2>2. pc'[e] \notin TriggerLabels BY <2>1 DEF TriggerLabels
  <2> QED BY <1>3, <1>4, <1>5, <2>1, <2>2 DEF OwnedInv
<1>11. ASSUME NEW e \in Events, Commit(e) PROVE OwnedInv'
  <2>1. /\ db' = View(e) /\ new'[e] = NoRows /\ todo'[e] = {} /\ pc'[e] \in {"failed", "done"}
        /\ \A o \in Events : o # e =>
             new'[o] = new[o] /\ pc'[o] = pc[o] /\ todo'[o] = todo[o]
    BY <1>11, EndsIs
  <2>2. OwnedIn(View(e)) BY <1>1 DEF OwnedOK
  <2>3. OwnedIn(db)' BY <2>1, <2>2 DEF OwnedIn, Owner
  <2>4. pc'[e] \notin TriggerLabels BY <2>1 DEF TriggerLabels
  <2>5. OwnedOK(e)' BY <1>5, <2>1, <2>3, <2>4
  <2>6. ASSUME NEW o \in Events, o # e PROVE OwnedOK(o)'
    <3> DEFINE V == View(o)
               W == View(o)'
               D == View(e)
    <3>1. /\ W.payment_attempts = D.payment_attempts \cup V.payment_attempts
          /\ W.predictions = D.predictions \cup V.predictions
          /\ W.decisions = D.decisions \cup V.decisions
          /\ W.commands = D.commands \cup V.commands
          /\ W.execution_attempts = D.execution_attempts \cup V.execution_attempts
          /\ W.observations = D.observations \cup V.observations
          /\ W.attributions = D.attributions \cup V.attributions
      <4>1. W = [t \in DOMAIN NoRows |-> View(e)[t] \cup new[o][t]] BY <2>1, <2>6 DEF View
      <4>2. V = [t \in DOMAIN NoRows |-> db[t] \cup new[o][t]] BY DEF View
      <4>3. D = [t \in DOMAIN NoRows |-> db[t] \cup new[e][t]] BY DEF View
      <4>4. DOMAIN NoRows = Tables BY DEF NoRows, Tables
      <4> HIDE DEF V, W, D
      <4>5. \A t \in Tables : W[t] = D[t] \cup V[t] BY <4>1, <4>2, <4>3, <4>4 DEF D
      <4> QED BY <4>5 DEF Tables
    <3>2. OwnedIn(V) /\ OwnedIn(D) BY <1>1, <2>2 DEF OwnedOK
    <3>3. pc'[o] \in TriggerLabels => Owner(V, AttemptOf[o], ProviderOf[o])
      BY <1>1, <2>1, <2>6 DEF OwnedOK
    <3>4. \A c \in todo'[o] : c \in db'.commands /\ c.decision[1] = AttemptOf[o]
      <4>1. db.commands \subseteq View(e).commands BY ViewIs DEF TypeInv
      <4> QED BY <1>1, <2>1, <2>6, <4>1 DEF OwnedOK
    <3> HIDE DEF V, W, D
    <3>5. OwnedIn(W)
      <4>1. \A a, p : Owner(V, a, p) \/ Owner(D, a, p) => Owner(W, a, p) BY <3>1 DEF Owner
      <4>2. \A r \in W.predictions \cup W.decisions : Owner(W, r.attempt, r.provider)
        BY <3>1, <3>2, <4>1 DEF OwnedIn
      <4>3. \A r \in W.commands \cup W.execution_attempts \cup W.observations \cup W.attributions :
              Owner(W, r.decision[1], r.provider)
        BY <3>1, <3>2, <4>1 DEF OwnedIn
      <4> QED BY <4>2, <4>3 DEF OwnedIn
    <3>6. pc'[o] \in TriggerLabels => Owner(W, AttemptOf[o], ProviderOf[o])
      BY <3>1, <3>3 DEF Owner
    <3> QED BY <3>4, <3>5, <3>6 DEF OwnedOK, OwnedIn, Owner, W
  <2> QED BY <2>3, <2>5, <2>6 DEF OwnedInv
<1> QED BY <1>6, <1>7, <1>8, <1>9, <1>10, <1>11, StepCases DEF Writes

-----------------------------------------------------------------------------
(* Uncommitted versions *)

\* Two tasks never hold versions of one attempt, or attributions of one command.
LEMMA Exclusive ==
  ASSUME LockInv, MineInv, NEW e \in Events, NEW o \in Events, e # o
  PROVE  /\ \A r \in new[e].predictions, q \in new[o].predictions : r.attempt # q.attempt
         /\ \A r \in new[e].decisions, q \in new[o].decisions : r.attempt # q.attempt
         /\ \A r \in new[e].attributions, q \in new[o].attributions : r.decision # q.decision
<1>1. held[e] \cap held[o] = {} /\ LockOK(e) /\ LockOK(o)
  BY DEF LockInv
<1>2. ASSUME \/ new[e].predictions # {} \/ new[e].decisions # {},
             \/ new[o].predictions # {} \/ new[o].decisions # {}
      PROVE  AttemptOf[e] # AttemptOf[o]
  BY <1>1, <1>2 DEF LockOK
<1>3. \A r \in new[e].predictions, q \in new[o].predictions : r.attempt # q.attempt
  BY <1>2 DEF MineInv, Mine
<1>4. \A r \in new[e].decisions, q \in new[o].decisions : r.attempt # q.attempt
  BY <1>2 DEF MineInv, Mine
<1>5. \A r \in new[e].attributions, q \in new[o].attributions : r.decision # q.decision
  BY <1>1 DEF LockOK
<1> QED BY <1>3, <1>4, <1>5

\* A committed version of a task's attempt is of its provider, so the task counts it.
LEMMA SameProvider ==
  ASSUME TypeInv, RegistryInv, OwnedInv, NEW e \in Events, pc[e] \in TriggerLabels
  PROVE  /\ \A q \in db.predictions : q.attempt = AttemptOf[e] => q \in PredictionsOf(e)
         /\ \A q \in db.decisions : q.attempt = AttemptOf[e] => q \in DecisionsOf(e)
<1>1. /\ View(e).payment_attempts = db.payment_attempts \cup new[e].payment_attempts
      /\ View(e).predictions = db.predictions \cup new[e].predictions
      /\ View(e).decisions = db.decisions \cup new[e].decisions
  BY ViewIs DEF TypeInv
<1>2. Owner(View(e), AttemptOf[e], ProviderOf[e]) /\ OwnedIn(db)
  BY DEF OwnedInv, OwnedOK
<1>3. PICK r \in View(e).payment_attempts : r.attempt = AttemptOf[e] /\ r.provider = ProviderOf[e]
  BY <1>2 DEF Owner
<1>4. r \in Rows("payment_attempts")
  BY <1>1, <1>3, RowsAre
<1>5. ASSUME NEW p, Owner(db, AttemptOf[e], p) PROVE p = ProviderOf[e]
  <2>1. PICK q \in db.payment_attempts : q.attempt = AttemptOf[e] /\ q.provider = p
    BY <1>5 DEF Owner
  <2>2. q \in Rows("payment_attempts") BY <2>1, RowsAre
  <2> QED BY <1>3, <1>4, <2>1, <2>2 DEF RegistryInv
<1>6. \A q \in db.predictions : q.attempt = AttemptOf[e] => q \in PredictionsOf(e)
  BY <1>1, <1>2, <1>5 DEF OwnedIn, PredictionsOf, Mine
<1>7. \A q \in db.decisions : q.attempt = AttemptOf[e] => q \in DecisionsOf(e)
  BY <1>1, <1>2, <1>5 DEF OwnedIn, DecisionsOf, Mine
<1> QED BY <1>6, <1>7

LEMMA WritesFresh ==
  ASSUME PipelineAssumption, TypeInv, VersionInv, TaskInv, RegistryInv, OwnedInv, FreshInv,
         NEW e \in Events, Writes(e)
  PROVE  FreshOK(e)'
<1>1. FreshOK(e) /\ db' = db
  BY WritesFrame DEF FreshInv
<1> USE DEF Tables
<1>2. CASE Register(e) \/ Execute(e) \/ Appends(e)
  <2>1. /\ new'[e].predictions = new[e].predictions /\ new'[e].decisions = new[e].decisions
        /\ new'[e].attributions = new[e].attributions
    BY <1>2, RegisterIs, ExecuteIs, AppendsIs
  <2> QED BY <1>1, <2>1 DEF FreshOK
<1>3. CASE AppendPrediction(e)
  <2>1. new'[e].decisions = new[e].decisions /\ new'[e].attributions = new[e].attributions
    BY <1>3, AppendPredictionIs
  <2> DEFINE m == MaxVersion(PredictionsOf(e))
  <2>2. m \in Nat /\ \A p \in PredictionsOf(e) : p.version <= m /\ p.version \in Nat
    BY VersionsOf, MaxVersionIs DEF Versioned
  <2>3. \A q \in db.predictions : q.attempt = AttemptOf[e] => q \in PredictionsOf(e)
    BY <1>3, SameProvider DEF AppendPrediction, TriggerLabels
  <2>4. \A r \in new'[e].predictions :
          r \in new[e].predictions \/ (r.attempt = AttemptOf[e] /\ r.version = m + 1)
    BY <1>3, AppendPredictionIs
  <2> HIDE DEF m
  <2>5. \A r \in new'[e].predictions, q \in db.predictions :
          r.attempt = q.attempt => q.version < r.version
    BY <1>1, <2>2, <2>3, <2>4 DEF FreshOK
  <2> QED BY <1>1, <2>1, <2>5 DEF FreshOK
<1>4. CASE Decide(e) \/ Admit(e)
  <2>1. new'[e].predictions = new[e].predictions /\ new'[e].attributions = new[e].attributions
    BY <1>4, DecisionIs
  <2> DEFINE m == MaxVersion(DecisionsOf(e))
  <2>2. m \in Nat /\ \A p \in DecisionsOf(e) : p.version <= m /\ p.version \in Nat
    BY VersionsOf, MaxVersionIs DEF Versioned
  <2>3. \A q \in db.decisions : q.attempt = AttemptOf[e] => q \in DecisionsOf(e)
    BY <1>4, SameProvider DEF Decide, Admit, TriggerLabels
  <2>4. \A type, r : /\ Decision(e, type, r).attempt = AttemptOf[e]
                     /\ Decision(e, type, r).version = m + 1
    BY DEF Decision
  <2>5. \A r \in new'[e].decisions :
          r \in new[e].decisions \/ (r.attempt = AttemptOf[e] /\ r.version = m + 1)
    BY <1>4, <2>4, DecisionIs
  <2> HIDE DEF m
  <2>6. \A r \in new'[e].decisions, q \in db.decisions :
          r.attempt = q.attempt => q.version < r.version
    BY <1>1, <2>2, <2>3, <2>5 DEF FreshOK
  <2> QED BY <1>1, <2>1, <2>6 DEF FreshOK
<1>5. CASE Attribute(e)
  <2>1. new'[e].predictions = new[e].predictions /\ new'[e].decisions = new[e].decisions
    BY <1>5, AttributionIs
  <2>2. ASSUME NEW a,
               a.version = MaxVersion(AttributionsOf(e, a.decision)) + 1,
               ~\E b \in AttributionsOf(e, a.decision) : b.as_of = a.as_of,
               new'[e].attributions = new[e].attributions \cup {a}
        PROVE  FreshOK(e)'
    <3> DEFINE m == MaxVersion(AttributionsOf(e, a.decision))
    <3>1. m \in Nat /\ \A p \in AttributionsOf(e, a.decision) : p.version <= m /\ p.version \in Nat
      BY VersionsOf, MaxVersionIs DEF Versioned
    <3>2. View(e).attributions = db.attributions \cup new[e].attributions
      BY ViewIs DEF TypeInv
    <3>3. \A q \in db.attributions : q.decision = a.decision => q \in AttributionsOf(e, a.decision)
      BY <3>2 DEF AttributionsOf
    <3>4. a.version = m + 1 BY <2>2
    <3> HIDE DEF m
    <3>5. \A q \in db.attributions :
            a.decision = q.decision => q.version < a.version /\ a.as_of # q.as_of
      BY <2>2, <3>1, <3>3, <3>4
    <3> QED BY <1>1, <2>1, <2>2, <3>5 DEF FreshOK
  <2>3. CASE UNCHANGED new BY <1>1, <2>3 DEF FreshOK
  <2> QED BY <1>5, <2>2, <2>3, AttributionIs
<1> QED BY <1>2, <1>3, <1>4, <1>5 DEF Writes

\* A version taken under a lock stays greater than the committed ones while the lock is held.
LEMMA FreshStep ==
  ASSUME PipelineAssumption, TypeInv, VersionInv, TaskInv, LockInv, MineInv, RegistryInv,
         OwnedInv, FreshInv, [Next]_vars
  PROVE  FreshInv'
<1>1. \A o \in Events : FreshOK(o)
  BY DEF FreshInv
<1>2. SUFFICES ASSUME NEW o \in Events PROVE FreshOK(o)'
  BY DEF FreshInv
<1>3. ASSUME new'[o] = NoRows PROVE FreshOK(o)'
  BY <1>3, NoRowsType DEF FreshOK
<1>4. ASSUME new'[o] = new[o], db' = db PROVE FreshOK(o)'
  BY <1>1, <1>4 DEF FreshOK
<1>5. CASE UNCHANGED vars \/ Tick \/ \E e \in Events : Arrives(e) \/ Reads(e)
  BY <1>4, <1>5, QuietSteps
<1>6. CASE Crash
  BY <1>3, <1>6, EndsIs
<1>7. ASSUME NEW e \in Events, Aborts(e) PROVE FreshOK(o)'
  BY <1>3, <1>4, <1>7, EndsIs
<1>8. ASSUME NEW e \in Events, Writes(e) PROVE FreshOK(o)'
  BY <1>4, <1>8, WritesFrame, WritesFresh
<1>9. ASSUME NEW e \in Events, Commit(e) PROVE FreshOK(o)'
  <2>1. CASE o = e BY <1>3, <1>9, <2>1, EndsIs
  <2>2. CASE o # e
    <3>1. new'[o] = new[o] /\ db' = View(e) BY <1>9, <2>2, EndsIs
    <3>2. /\ db'.predictions = db.predictions \cup new[e].predictions
          /\ db'.decisions = db.decisions \cup new[e].decisions
          /\ db'.attributions = db.attributions \cup new[e].attributions
      BY <3>1, ViewIs DEF TypeInv
    <3>3. /\ \A r \in new[o].predictions, q \in new[e].predictions : r.attempt # q.attempt
          /\ \A r \in new[o].decisions, q \in new[e].decisions : r.attempt # q.attempt
          /\ \A r \in new[o].attributions, q \in new[e].attributions : r.decision # q.decision
      BY <2>2, Exclusive
    <3> QED BY <1>1, <3>1, <3>2, <3>3 DEF FreshOK
  <2> QED BY <2>1, <2>2
<1> QED BY <1>5, <1>6, <1>7, <1>8, <1>9, StepCases DEF Writes

-----------------------------------------------------------------------------
(* Outcomes *)

LEMMA EventStep ==
  ASSUME TypeInv, EventInv, [Next]_vars
  PROVE  /\ EventInv'
         /\ payment_events \subseteq payment_events'
         /\ \A f \in payment_events : ingested_at'[f] = ingested_at[f] /\ occurred'[f] = occurred[f]
<1> DEFINE Before == {"none", "occurred", "normalized"}
<1> USE DEF TypeInv, Goto
<1>1. ASSUME UNCHANGED <<occurred, ingested_at, payment_events>>,
             \A f \in Events : pc[f] \notin Before => pc'[f] \notin Before
      PROVE  /\ EventInv'
             /\ payment_events \subseteq payment_events'
             /\ \A f \in payment_events :
                  ingested_at'[f] = ingested_at[f] /\ occurred'[f] = occurred[f]
  BY <1>1 DEF EventInv
<1>2. CASE UNCHANGED vars \/ Tick
  BY <1>1, <1>2 DEF vars, clock, task, Tick
<1>3. CASE Crash
  <2>1. \A f \in Events : pc[f] \notin Before => pc'[f] \notin Before
    BY <1>3 DEF Crash, Running, Labels
  <2> QED BY <1>1, <1>3, <2>1 DEF Crash, clock
<1>4. ASSUME NEW e \in Events, Arrives(e)
      PROVE  /\ EventInv'
             /\ payment_events \subseteq payment_events'
             /\ \A f \in payment_events :
                  ingested_at'[f] = ingested_at[f] /\ occurred'[f] = occurred[f]
  <2>1. CASE Occur(e) BY <2>1 DEF Occur, EventInv
  <2>2. CASE Normalize(e) BY <2>2 DEF Normalize, EventInv
  <2>3. CASE Ingest(e) BY <2>3 DEF Ingest, EventInv
  <2> QED BY <1>4, <2>1, <2>2, <2>3 DEF Arrives
<1>5. ASSUME NEW e \in Events, Reads(e)
      PROVE  UNCHANGED clock /\ \A f \in Events : pc[f] \notin Before => pc'[f] \notin Before
  BY <1>5 DEF Reads, Predict, Assess, SelectCommands, Observe, AfterPrediction
<1>6. ASSUME NEW e \in Events, Writes(e)
      PROVE  UNCHANGED clock /\ \A f \in Events : pc[f] \notin Before => pc'[f] \notin Before
  <2>1. pc'[e] \notin Before
    BY <1>6 DEF Writes, Register, AppendPrediction, Decide, Admit, Execute, Appends, Attribute,
                AfterPrediction
  <2> QED BY <1>6, <2>1, WritesFrame
<1>7. ASSUME NEW e \in Events, Aborts(e) \/ Commit(e)
      PROVE  UNCHANGED clock /\ \A f \in Events : pc[f] \notin Before => pc'[f] \notin Before
  <2>1. pc'[e] \notin Before BY <1>7, EndsIs
  <2> QED BY <1>7, <2>1, EndsIs
<1>8. ASSUME NEW e \in Events, Reads(e) \/ Writes(e) \/ Aborts(e) \/ Commit(e)
      PROVE  /\ UNCHANGED <<occurred, ingested_at, payment_events>>
             /\ \A f \in Events : pc[f] \notin Before => pc'[f] \notin Before
  BY <1>5, <1>6, <1>7, <1>8 DEF clock
<1> QED BY <1>1, <1>2, <1>3, <1>4, <1>8, StepCases DEF Writes

\* What is observed is the outcome of a stored event of the command's provider.
LEMMA ObserveOutcome ==
  ASSUME PipelineAssumption, TypeInv, VersionInv, OwnedInv, NEW e \in Events, Observe(e)
  PROVE  \E c \in todo[e], o \in ObservationRow :
           /\ obs'[e] = o /\ Observed(o)
           /\ o.decision = c.decision /\ o.provider = c.provider
           /\ o.version = MaxVersion(ObservationsOf(e, c.decision)) + 1
           /\ o.outcome # "UNKNOWN_IN_FLIGHT" =>
                \E f \in Terminals(o.provider, o.decision[1], o.as_of) :
                  /\ Decides(f, o)
                  /\ \A h \in Terminals(o.provider, o.decision[1], o.as_of) :
                       ingested_at[f] <= ingested_at[h]
<1>1. PICK c \in todo[e], o \in ObservationRow :
        /\ obs' = [obs EXCEPT ![e] = o]
        /\ o.decision = c.decision /\ o.provider = c.provider /\ o.as_of = AsOf(e, c)
        /\ o.version = MaxVersion(ObservationsOf(e, c.decision)) + 1
        /\ [outcome |-> o.outcome, timestamp |-> o.timestamp]
              \in FirstOutcomes(Terminals(c.provider, AttemptOf[e], AsOf(e, c)))
  BY ObserveIs
<1>2. obs'[e] = o
  BY <1>1 DEF TypeInv
<1>3. o.decision[1] = AttemptOf[e]
  BY <1>1 DEF OwnedInv, OwnedOK
<1> DEFINE T == Terminals(o.provider, o.decision[1], o.as_of)
<1>4. [outcome |-> o.outcome, timestamp |-> o.timestamp] \in FirstOutcomes(T)
  BY <1>1, <1>3
<1>5. ASSUME o.outcome # "UNKNOWN_IN_FLIGHT"
      PROVE  \E f \in T : /\ Decides(f, o)
                          /\ \A h \in T : ingested_at[f] <= ingested_at[h]
  <2>1. T # {} BY <1>4, <1>5 DEF FirstOutcomes
  <2>2. PICK f \in {g \in T : \A h \in T : ingested_at[g] <= ingested_at[h]} :
          [outcome |-> o.outcome, timestamp |-> o.timestamp] =
          [outcome |-> Outcome(f), timestamp |-> occurred[f]]
    BY <1>4, <2>1 DEF FirstOutcomes
  <2>3. o.outcome = Outcome(f) /\ o.timestamp = occurred[f] BY <2>2
  <2>4. f \in TerminalsOfKey(o.decision[1], o.as_of) /\ ProviderOf[f] = o.provider
    BY DEF Terminals
  <2> QED BY <2>2, <2>3, <2>4 DEF Decides
<1>6. \A f \in T : f \in payment_events
  BY DEF Terminals, TerminalsOfKey
<1> QED BY <1>1, <1>2, <1>5, <1>6 DEF Observed

\* Stored events stay as they are, ...
LEMMA DecidesKept ==
  ASSUME TypeInv, EventInv, [Next]_vars, NEW o, NEW f \in payment_events, Decides(f, o)
  PROVE  f \in payment_events' /\ Decides(f, o)'
BY EventStep DEF Decides, TerminalsOfKey

\* ... so an observed outcome remains one.
LEMMA OutcomeStep ==
  ASSUME PipelineAssumption, TypeInv, VersionInv, TaskInv, OwnedInv, EventInv, OutcomeInv,
         [Next]_vars
  PROVE  OutcomeInv'
<1>1. ASSUME NEW o, Observed(o) PROVE Observed(o)'
  BY <1>1, DecidesKept DEF Observed
<1>2. /\ \A o \in db.observations : Observed(o)
      /\ \A e \in Events : \A o \in new[e].observations : Observed(o)
      /\ \A e \in Events : pc[e] \in {"append", "attribute"} => Observed(obs[e])
  BY RowsAre DEF OutcomeInv
<1>3. ASSUME \A o \in db'.observations : Observed(o)',
             \A e \in Events : \A o \in new'[e].observations : Observed(o)',
             \A e \in Events : pc'[e] \in {"append", "attribute"} => Observed(obs[e])'
      PROVE  OutcomeInv'
  <2>1. \A o : (o \in Rows("observations"))' <=>
          (o \in db'.observations \/ \E e \in Events : o \in new'[e].observations)
    BY DEF Rows
  <2> QED BY <1>3, <2>1 DEF OutcomeInv, Observed, Decides, TerminalsOfKey
<1>4. ASSUME db' = db \/ \E e \in Events : db' = View(e),
             \A e \in Events : new'[e].observations \subseteq new[e].observations,
             \A e \in Events : pc'[e] \in {"append", "attribute"} =>
                                 pc[e] \in {"append", "attribute"} /\ obs'[e] = obs[e]
      PROVE  OutcomeInv'
  <2>1. \A e \in Events : View(e).observations = db.observations \cup new[e].observations
    BY ViewIs DEF TypeInv
  <2>2. \A o \in db'.observations : Observed(o)' BY <1>1, <1>2, <1>4, <2>1
  <2>3. \A e \in Events : \A o \in new'[e].observations : Observed(o)' BY <1>1, <1>2, <1>4
  <2>4. ASSUME NEW e \in Events, pc'[e] \in {"append", "attribute"} PROVE Observed(obs[e])'
    <3> DEFINE o == obs[e]
    <3>1. Observed(o) /\ obs'[e] = o BY <1>2, <1>4, <2>4
    <3> QED BY <1>1, <3>1 DEF Observed, Decides, TerminalsOfKey
  <2> QED BY <1>3, <2>2, <2>3, <2>4
<1>5. CASE UNCHANGED vars \/ Tick
  BY <1>4, <1>5, QuietSteps DEF vars, task, Tick
<1>6. CASE Crash
  <2>1. \A e \in Events : pc'[e] \notin {"append", "attribute"}
    BY <1>6 DEF Crash, TypeInv, Running, Labels
  <2> QED BY <1>4, <1>6, <2>1, EndsIs, NoRowsType
<1>7. ASSUME NEW e \in Events, Aborts(e) \/ Commit(e) PROVE OutcomeInv'
  <2>1. db' = db \/ db' = View(e) BY <1>7, EndsIs
  <2>2. \A o \in Events : new'[o].observations \subseteq new[o].observations
    BY <1>7, EndsIs, NoRowsType
  <2>3. \A o \in Events : pc'[o] \in {"append", "attribute"} =>
          pc[o] \in {"append", "attribute"} /\ obs'[o] = obs[o]
    BY <1>7, EndsIs
  <2> QED BY <1>4, <2>1, <2>2, <2>3
<1>8. ASSUME NEW e \in Events, Arrives(e) \/ Reads(e) PROVE OutcomeInv'
  <2>1. UNCHANGED <<db, new>> /\ \A o \in Events : o # e => pc'[o] = pc[o] /\ obs'[o] = obs[o]
    BY <1>8, QuietFrame
  <2>2. CASE ~Observe(e)
    <3>1. pc'[e] \notin {"append", "attribute"}
      BY <1>8, <2>2 DEF Arrives, Reads, Occur, Normalize, Ingest, Predict, Assess,
                        SelectCommands, Goto, TypeInv, AfterPrediction
    <3> QED BY <1>4, <2>1, <3>1
  <2>3. CASE Observe(e)
    <3>1. PICK x : obs'[e] = x /\ Observed(x) BY <2>3, ObserveOutcome
    <3>2. Observed(x)' BY <1>1, <3>1
    <3>3. Observed(obs[e])' BY <3>1, <3>2 DEF Observed, Decides, TerminalsOfKey
    <3>4. ASSUME NEW o \in Events, o # e, pc'[o] \in {"append", "attribute"}
          PROVE  Observed(obs[o])'
      <4> DEFINE y == obs[o]
      <4>1. Observed(y) /\ obs'[o] = y BY <1>2, <2>1, <3>4
      <4> QED BY <1>1, <4>1 DEF Observed, Decides, TerminalsOfKey
    <3>5. /\ \A o \in db'.observations : Observed(o)'
          /\ \A o \in Events : \A z \in new'[o].observations : Observed(z)'
      BY <1>1, <1>2, <2>1
    <3> QED BY <1>3, <3>3, <3>4, <3>5
  <2> QED BY <2>2, <2>3
<1>9. ASSUME NEW e \in Events, Writes(e) PROVE OutcomeInv'
  <2>1. db' = db /\ \A o \in Events : o # e =>
          new'[o] = new[o] /\ pc'[o] = pc[o] /\ obs'[o] = obs[o]
    BY <1>9, WritesFrame
  <2>2. CASE ~Appends(e)
    <3>1. new'[e].observations = new[e].observations
      BY <1>9, <2>2, RegisterIs, AppendPredictionIs, DecisionIs, ExecuteIs, AttributionIs
      DEF Writes, Tables
    <3>2. pc'[e] \notin {"append", "attribute"}
      BY <1>9, <2>2 DEF Writes, Register, AppendPrediction, Decide, Admit, Execute, Attribute,
                        Goto, TypeInv, AfterPrediction
    <3> QED BY <1>4, <2>1, <3>1, <3>2
  <2>3. CASE Appends(e)
    <3>1. /\ pc[e] = "append" /\ obs' = obs
          /\ new'[e].observations = new[e].observations \cup {obs[e]}
      BY <2>3, AppendsIs DEF Appends
    <3>2. \A o \in db'.observations : Observed(o)' BY <1>1, <1>2, <2>1
    <3>3. \A o \in Events : \A z \in new'[o].observations : Observed(z)
      BY <1>2, <2>1, <3>1
    <3>4. \A o \in Events : \A z \in new'[o].observations : Observed(z)'
      BY <1>1, <3>3
    <3>5. ASSUME NEW o \in Events, pc'[o] \in {"append", "attribute"} PROVE Observed(obs[o])'
      <4> DEFINE y == obs[o]
      <4>1. Observed(y) /\ obs'[o] = y BY <1>2, <2>1, <3>1, <3>5
      <4> QED BY <1>1, <4>1 DEF Observed, Decides, TerminalsOfKey
    <3> QED BY <1>3, <3>2, <3>4, <3>5
  <2> QED BY <2>2, <2>3
<1> QED BY <1>5, <1>6, <1>7, <1>8, <1>9, StepCases DEF Writes

-----------------------------------------------------------------------------
(* Theorems *)

IInv ==
  /\ TypeInv /\ VersionInv /\ TaskInv /\ LockInv /\ RateInv /\ MineInv
  /\ RegistryInv /\ OwnedInv /\ FreshInv /\ EventInv /\ OutcomeInv

LEMMA InitInv == Init => IInv
<1> SUFFICES ASSUME Init PROVE IInv
  OBVIOUS
<1> USE DEF Init, Starting
<1>1. /\ db = NoRows /\ payment_events = {}
      /\ \A e \in Events : new[e] = NoRows /\ held[e] = {} /\ todo[e] = {} /\ pc[e] = "none"
  OBVIOUS
<1>2. TypeInv
  BY NoRowsType DEF TypeInv, Labels, Probabilities
<1>3. VersionInv
  BY NoRowsType, VersionedEmpty DEF VersionInv
<1>4. TaskInv
  BY <1>1, NoRowsType DEF TaskInv, TaskOK, TriggerLabels, TerminalLabels
<1>5. LockInv
  BY <1>1, NoRowsType DEF LockInv, LockOK
<1>6. \A t \in Tables : Rows(t) = {}
  <2>1. \A t \in Tables : NoRows[t] = {} BY NoRowsType DEF Tables
  <2> QED BY <1>1, <2>1 DEF Rows
<1>7. RateInv
  <2>1. Acts = {} BY <1>6 DEF Acts, Tables
  <2> QED BY <2>1, FS_EmptySet DEF RateInv
<1>8. MineInv
  BY <1>1, NoRowsType DEF MineInv
<1>9. RegistryInv
  BY <1>6 DEF RegistryInv, Tables
<1>10. OwnedInv
  <2>1. OwnedIn(db) BY <1>1, NoRowsType DEF OwnedIn
  <2>2. ASSUME NEW e \in Events PROVE OwnedIn(View(e))
    <3>1. /\ View(e).predictions = {} /\ View(e).decisions = {} /\ View(e).commands = {}
          /\ View(e).execution_attempts = {} /\ View(e).observations = {}
          /\ View(e).attributions = {}
      BY <1>1, <1>2, ViewIs, NoRowsType DEF TypeInv
    <3> QED BY <3>1 DEF OwnedIn
  <2> QED BY <1>1, <2>1, <2>2 DEF OwnedInv, OwnedOK, TriggerLabels
<1>11. FreshInv
  BY <1>1, NoRowsType DEF FreshInv, FreshOK
<1>12. EventInv
  BY <1>1 DEF EventInv
<1>13. OutcomeInv
  BY <1>1, <1>6 DEF OutcomeInv, Tables
<1> QED
  BY <1>2, <1>3, <1>4, <1>5, <1>7, <1>8, <1>9, <1>10, <1>11, <1>12, <1>13 DEF IInv

LEMMA StepInv == ASSUME PipelineAssumption, IInv, [Next]_vars PROVE IInv'
<1>1. /\ TypeInv /\ VersionInv /\ TaskInv /\ LockInv /\ RateInv /\ MineInv
      /\ RegistryInv /\ OwnedInv /\ FreshInv /\ EventInv /\ OutcomeInv
  BY DEF IInv
<1>2. TypeInv' BY <1>1, TypeStep
<1>3. VersionInv' BY <1>1, VersionStep
<1>4. TaskInv' BY <1>1, TaskStep
<1>5. LockInv' BY <1>1, LockStep
<1>6. RateInv' BY <1>1, RateStep
<1>7. MineInv' BY <1>1, MineStep
<1>8. RegistryInv' BY <1>1, RegistryStep
<1>9. OwnedInv' BY <1>1, OwnedStep
<1>10. FreshInv' BY <1>1, FreshStep
<1>11. EventInv' BY <1>1, EventStep
<1>12. OutcomeInv' BY <1>1, OutcomeStep
<1> QED
  BY <1>2, <1>3, <1>4, <1>5, <1>6, <1>7, <1>8, <1>9, <1>10, <1>11, <1>12 DEF IInv

LEMMA Invariant == Spec => []IInv
<1>1. Init => IInv BY InitInv
<1>2. IInv /\ [Next]_vars => IInv' BY StepInv, PipelineAssumption
<1> QED BY <1>1, <1>2, PTL DEF Spec

\* Every table holds rows of its kind, and every task is in a state of its own code
\* (live_pipeline).
THEOREM TypesHold == Spec => []TypeInv
<1>1. IInv => TypeInv BY DEF IInv
<1> QED BY <1>1, Invariant, PTL

\* acquire_global_rate_limit_lock: however many tasks decide for times long past, and in
\* whatever order, no minute of decision time ever holds more ACTs than the limit.
THEOREM RateLimitAlwaysHolds == Spec => []RateLimitHolds
<1>1. IInv => RateLimitHolds BY RateInvIs DEF IInv
<1> QED BY <1>1, Invariant, PTL

\* acquire_version_allocation_lock and acquire_attribution_lock: no version is ever given
\* twice, so the unique keys of these tables never fail a task.
THEOREM VersionsAlwaysExclusive == Spec => []VersionsExclusive
<1>1. ASSUME IInv PROVE VersionsExclusive
  <2>1. TypeInv /\ VersionInv /\ LockInv /\ MineInv /\ FreshInv BY <1>1 DEF IInv
  <2>2. SUFFICES ASSUME NEW e \in Events, NEW o \in Events, e # o
        PROVE  /\ \A t \in {"predictions", "decisions"} :
                    \A r \in new[e][t], q \in new[o][t] \cup db[t] :
                      r.attempt = q.attempt => r.version # q.version
               /\ \A r \in new[e].attributions, q \in new[o].attributions \cup db.attributions :
                    r.decision = q.decision => r.version # q.version /\ r.as_of # q.as_of
    BY DEF VersionsExclusive
  <2>3. FreshOK(e) BY <2>1 DEF FreshInv
  <2>4. /\ \A q \in db.predictions \cup db.decisions \cup db.attributions : q.version \in Nat
        /\ \A r \in new[e].predictions \cup new[e].decisions \cup new[e].attributions :
             r.version \in Nat
    BY <2>1 DEF VersionInv, Versioned
  <2>5. \A r \in new[e].predictions, q \in new[o].predictions \cup db.predictions :
          r.attempt = q.attempt => r.version # q.version
    BY <2>1, <2>2, <2>3, <2>4, Exclusive DEF FreshOK
  <2>6. \A r \in new[e].decisions, q \in new[o].decisions \cup db.decisions :
          r.attempt = q.attempt => r.version # q.version
    BY <2>1, <2>2, <2>3, <2>4, Exclusive DEF FreshOK
  <2>7. \A r \in new[e].attributions, q \in new[o].attributions \cup db.attributions :
          r.decision = q.decision => r.version # q.version /\ r.as_of # q.as_of
    BY <2>1, <2>2, <2>3, <2>4, Exclusive DEF FreshOK
  <2> QED BY <2>5, <2>6, <2>7
<1>2. IInv => VersionsExclusive BY <1>1
<1> QED BY <1>2, Invariant, PTL

-----------------------------------------------------------------------------
(***************************************************************************)
(* Every credit is justified.  CreditIInv adds to the invariant above that *)
(* a command is that of one decision (CommandInv), that a task which acts  *)
(* has seen a high risk and its own ACT (RiskInv), that no stamp is in the *)
(* future (StampInv), that an execution attempt has a decision, a          *)
(* prediction, a succeeded command and an executor call (JustifiedInv),    *)
(* that the observations of a command are numbered without gaps and a      *)
(* task's own is the latest (LogInv), what an ATTRIBUTED row rests on      *)
(* (CreditInv), what a NOT_NEEDED command rests on (WithheldInv), and that *)
(* the deciding event only moves back (MovesInv).                          *)
(***************************************************************************)

Decided(R, id) == \E d \in R : <<d.attempt, d.version>> = id

CommandOK(e) ==
  /\ \A c \in new[e].commands : Decided(new[e].decisions, c.decision)
  /\ \A c, k \in new[e].commands : c = k
  /\ pc[e] \in TriggerLabels => new[e].commands = {}

\* A command is that of a decision, and its only one.
CommandInv ==
  /\ \A c \in db.commands : Decided(db.decisions, c.decision)
  /\ \A c, k \in db.commands : c.decision = k.decision => c = k
  /\ \A e \in Events : CommandOK(e)

HighIn(R, a, t) == \E p \in R : p.attempt = a /\ p.probability = "high" /\ p.predicted_at <= t

RiskOK(e) ==
  /\ pc[e] \in {"assess", "decide", "admit", "execute"} =>
       HighIn(View(e).predictions, AttemptOf[e], TEval(e))
  /\ pc[e] = "execute" =>
       \E d \in new[e].decisions :
         /\ d.type = "ACT" /\ d.decided_at = TEval(e)
         /\ \A q \in DecisionsOf(e) : q.version <= d.version

\* A task acts on a high risk, and executes its own ACT.
RiskInv == \A e \in Events : RiskOK(e)

\* The decision of a command in a database, with the prediction it acts on
Acted(D, id) ==
  \E d \in D.decisions :
    /\ <<d.attempt, d.version>> = id /\ d.type = "ACT"
    /\ HighIn(D.predictions, d.attempt, d.decided_at)

\* The succeeded command of an execution attempt
Succeeded(D, x) ==
  \E c \in D.commands :
    c.decision = x.decision /\ c.status = "SUCCEEDED" /\ c.updated_at = x.completed_at

\* The executor was called, not so early that the completion on record is too late.
Called(x) ==
  \E t \in 0..now : <<x.decision, t>> \in dispatched /\ x.completed_at <= t + Duration

JustifiedIn(D) ==
  \A x \in D.execution_attempts : Acted(D, x.decision) /\ Succeeded(D, x) /\ Called(x)

\* An execution attempt rests on a decision, a prediction, a command and a call of the
\* executor.
JustifiedInv == JustifiedIn(db) /\ \A e \in Events : JustifiedIn(View(e))

\* Events are stamped with times that have passed.
StampInv == \A e \in Events : ingested_at[e] <= now

Withheld(c) ==
  c.status = "NOT_NEEDED" => \E f \in payment_events : f \in TerminalsOfKey(c.decision[1], c.updated_at)
TreatedBy(D, a) ==
  a.treatment = "TREATED" =>
    \E c \in D.commands : c.decision = a.decision /\ c.status # "NOT_NEEDED"

WithheldIn(D) ==
  /\ \A c \in D.commands : Withheld(c)
  /\ \A a \in D.attributions : TreatedBy(D, a)

\* A command is withheld for a terminal event of its key, and then there is no treatment.
WithheldInv == WithheldIn(db) /\ \A e \in Events : WithheldIn(View(e))

\* An observation follows the committed ones of its command.
Follows(o) ==
  \/ o.version = 1
  \/ o.version > 1 /\ \E p \in db.observations :
                         p.decision = o.decision /\ p.version = o.version - 1

LogOK(e) ==
  /\ \A o \in new[e].observations :
       /\ Follows(o)
       /\ \A p \in db.observations : o.decision = p.decision => p.version < o.version
       /\ \A p \in new[e].observations : o.decision = p.decision => o = p
  /\ pc[e] = "next" => \A o \in new[e].observations, c \in todo[e] : o.decision # c.decision
  /\ pc[e] = "append" =>
       /\ Follows(obs[e])
       /\ \A o \in new[e].observations, c \in todo[e] : o.decision # c.decision
  /\ pc[e] = "attribute" =>
       /\ obs[e] \in new[e].observations
       /\ \A o \in new[e].observations, c \in todo[e] :
            c.decision # obs[e].decision => o.decision # c.decision

\* The observations of a command are numbered without gaps, and one task at a time adds one.
LogInv ==
  /\ \A o \in db.observations : \A v \in 1..o.version :
       \E p \in db.observations : p.decision = o.decision /\ p.version = v
  /\ \A e \in Events : LogOK(e)
  /\ \A e, o \in Events : e # o =>
       \A r \in new[e].observations, q \in new[o].observations : r.decision # q.decision

\* The observations there are, and those to be appended next
Made == Rows("observations") \cup {obs[e] : e \in {x \in Events : pc[x] = "append"}}

\* p is of an event that is stamped no later than that of o.
MovesBack(o, p) ==
  /\ o.decision = p.decision /\ o.version < p.version
  /\ "UNKNOWN_IN_FLIGHT" \notin {o.outcome, p.outcome}
  => \E f, g \in payment_events :
       Decides(f, o) /\ Decides(g, p) /\ ingested_at[g] <= ingested_at[f]

\* So it is of any two, in the order of their versions.
MovesInv == \A o, p \in Made : MovesBack(o, p)

\* An attribution rests on an execution attempt and an observation, and this on a capture.
Backs(x, o, a) ==
  /\ x.decision = a.decision /\ o.decision = a.decision /\ o.provider = a.provider
  /\ o.as_of = a.as_of /\ o.outcome = "CAPTURED"
  /\ \E f \in payment_events : Decides(f, o) /\ occurred[f] >= x.completed_at

Credit(D, a) == \E x \in D.execution_attempts, o \in D.observations : Backs(x, o, a)

CreditIn(D) == \A a \in D.attributions : a.status = "ATTRIBUTED" => Credit(D, a)

\* A credit rests on an execution attempt and on a capture that follows it.
CreditInv == CreditIn(db) /\ \A e \in Events : CreditIn(View(e))

-----------------------------------------------------------------------------
(* Commands *)

LEMMA QuietLabels ==
  ASSUME TypeInv, NEW e \in Events, Arrives(e) \/ Reads(e)
  PROVE  pc'[e] \in TriggerLabels => pc[e] \in TriggerLabels
BY DEF Arrives, Reads, Occur, Normalize, Ingest, Predict, Assess, SelectCommands, Observe, Goto,
       TypeInv, TriggerLabels

\* At execute, the latest decision a task sees is its own ACT.
LEMMA ExecutesOwn ==
  ASSUME TypeInv, VersionInv, MineInv, RiskInv, NEW e \in Events, pc[e] = "execute"
  PROVE  \E d \in new[e].decisions :
           /\ d.type = "ACT" /\ d.decided_at = TEval(e) /\ d.attempt = AttemptOf[e]
           /\ d.version = MaxVersion(DecisionsOf(e))
<1>1. PICK d \in new[e].decisions :
        /\ d.type = "ACT" /\ d.decided_at = TEval(e)
        /\ \A q \in DecisionsOf(e) : q.version <= d.version
  BY DEF RiskInv, RiskOK
<1>2. View(e).decisions = db.decisions \cup new[e].decisions
  BY ViewIs DEF TypeInv
<1>3. d \in DecisionsOf(e) /\ d.attempt = AttemptOf[e]
  BY <1>2 DEF DecisionsOf, MineInv, Mine
<1> DEFINE m == MaxVersion(DecisionsOf(e))
<1>4. /\ m \in Nat /\ \A q \in DecisionsOf(e) : q.version <= m /\ q.version \in Nat
      /\ m # 0 => \E q \in DecisionsOf(e) : q.version = m
  BY VersionsOf, MaxVersionIs DEF Versioned
<1> HIDE DEF m
<1>5. d.version = m
  BY <1>1, <1>3, <1>4
<1> QED BY <1>1, <1>3, <1>5 DEF m

LEMMA WritesCommand ==
  ASSUME PipelineAssumption, IInv, CommandInv, RiskInv, NEW e \in Events, Writes(e)
  PROVE  CommandOK(e)'
<1>1. TypeInv /\ VersionInv /\ TaskInv /\ MineInv /\ CommandOK(e)
  BY DEF IInv, CommandInv
<1> USE DEF Tables
<1>2. CASE Register(e)
  <2>1. pc[e] = "scheduled" BY <1>2 DEF Register
  <2>2. new[e].commands = {}
    BY <1>1, <2>1, NoRowsType DEF TaskInv, TaskOK, TriggerLabels, TerminalLabels
  <2>3. new'[e].commands = {} BY <1>1, <1>2, <2>2, RegisterIs
  <2> QED BY <2>3 DEF CommandOK
<1>3. CASE AppendPrediction(e)
  <2>1. new'[e].commands = new[e].commands /\ new'[e].decisions = new[e].decisions
    BY <1>1, <1>3, AppendPredictionIs
  <2>2. pc[e] \in TriggerLabels BY <1>3 DEF AppendPrediction, TriggerLabels
  <2> QED BY <1>1, <2>1, <2>2 DEF CommandOK
<1>4. CASE Decide(e) \/ Admit(e)
  <2>1. new'[e].commands = new[e].commands BY <1>1, <1>4, DecisionIs
  <2>2. pc[e] \in TriggerLabels BY <1>4 DEF Decide, Admit, TriggerLabels
  <2> QED BY <1>1, <2>1, <2>2 DEF CommandOK
<1>5. CASE Execute(e)
  <2>1. pc[e] = "execute" /\ pc'[e] = "commit"
    BY <1>1, <1>5 DEF Execute, Goto, TypeInv
  <2>2. new[e].commands = {} BY <1>1, <2>1 DEF CommandOK, TriggerLabels
  <2>3. PICK d \in new[e].decisions :
          d.attempt = AttemptOf[e] /\ d.version = MaxVersion(DecisionsOf(e))
    BY <1>1, <2>1, ExecutesOwn
  <2>4. PICK c : /\ c.decision = <<AttemptOf[e], MaxVersion(DecisionsOf(e))>>
                 /\ new'[e].commands = new[e].commands \cup {c}
    BY <1>1, <1>5, ExecuteIs
  <2>5. new'[e].decisions = new[e].decisions BY <1>1, <1>5, ExecuteIs
  <2>6. Decided(new'[e].decisions, c.decision) BY <2>3, <2>4, <2>5 DEF Decided
  <2> QED BY <2>1, <2>2, <2>4, <2>6 DEF CommandOK, TriggerLabels
<1>6. CASE Appends(e)
  <2>1. new'[e].commands = new[e].commands /\ new'[e].decisions = new[e].decisions
    BY <1>1, <1>6, AppendsIs
  <2>2. pc'[e] \notin TriggerLabels
    BY <1>1, <1>6 DEF Appends, Goto, TypeInv, TriggerLabels
  <2> QED BY <1>1, <2>1, <2>2 DEF CommandOK
<1>7. CASE Attribute(e)
  <2>1. new'[e].commands = new[e].commands /\ new'[e].decisions = new[e].decisions
    BY <1>1, <1>7, AttributionIs
  <2>2. pc'[e] \notin TriggerLabels
    BY <1>1, <1>7 DEF Attribute, Goto, TypeInv, TriggerLabels
  <2> QED BY <1>1, <2>1, <2>2 DEF CommandOK
<1> QED BY <1>2, <1>3, <1>4, <1>5, <1>6, <1>7 DEF Writes

LEMMA CommandStep ==
  ASSUME PipelineAssumption, IInv, CommandInv, RiskInv, [Next]_vars
  PROVE  CommandInv'
<1>1. TypeInv /\ VersionInv /\ TaskInv /\ MineInv /\ FreshInv
  BY DEF IInv
<1>2. /\ \A c \in db.commands : Decided(db.decisions, c.decision)
      /\ \A c, k \in db.commands : c.decision = k.decision => c = k
      /\ \A e \in Events : CommandOK(e)
  BY DEF CommandInv
<1>3. ASSUME db' = db, \A e \in Events : CommandOK(e)' PROVE CommandInv'
  BY <1>2, <1>3 DEF CommandInv, Decided
<1>4. ASSUME NEW e \in Events, new'[e] = new[e], pc'[e] \in TriggerLabels => pc[e] \in TriggerLabels
      PROVE  CommandOK(e)'
  BY <1>2, <1>4 DEF CommandOK, Decided
<1>5. ASSUME NEW e \in Events, new'[e] = NoRows PROVE CommandOK(e)'
  BY <1>5, NoRowsType DEF CommandOK
<1>6. CASE UNCHANGED vars \/ Tick
  BY <1>3, <1>4, <1>6 DEF vars, task, Tick
<1>7. CASE Crash
  BY <1>1, <1>3, <1>5, <1>7, EndsIs
<1>8. ASSUME NEW e \in Events, Arrives(e) \/ Reads(e) PROVE CommandInv'
  BY <1>1, <1>3, <1>4, <1>8, QuietFrame, QuietLabels
<1>9. ASSUME NEW e \in Events, Writes(e) PROVE CommandInv'
  BY <1>1, <1>3, <1>4, <1>9, WritesFrame, WritesCommand
<1>10. ASSUME NEW e \in Events, Aborts(e) PROVE CommandInv'
  BY <1>1, <1>3, <1>4, <1>5, <1>10, EndsIs
<1>11. ASSUME NEW e \in Events, Commit(e) PROVE CommandInv'
  <2>1. /\ db' = View(e) /\ new'[e] = NoRows
        /\ \A o \in Events : o # e => new'[o] = new[o] /\ pc'[o] = pc[o]
    BY <1>1, <1>11, EndsIs
  <2>2. /\ db'.commands = db.commands \cup new[e].commands
        /\ db'.decisions = db.decisions \cup new[e].decisions
    BY <1>1, <2>1, ViewIs DEF TypeInv
  <2>3. CommandOK(e) /\ FreshOK(e) BY <1>1, <1>2 DEF FreshInv
  <2>4. \A c \in db'.commands : Decided(db'.decisions, c.decision)
    BY <1>2, <2>2, <2>3 DEF CommandOK, Decided
  <2>5. ASSUME NEW c \in db.commands, NEW k \in new[e].commands PROVE c.decision # k.decision
    <3>1. PICK d \in db.decisions : <<d.attempt, d.version>> = c.decision
      BY <1>2 DEF Decided
    <3>2. PICK q \in new[e].decisions : <<q.attempt, q.version>> = k.decision
      BY <2>3 DEF CommandOK, Decided
    <3>3. d.attempt = q.attempt => d.version < q.version BY <2>3 DEF FreshOK
    <3>4. d.version \in Nat /\ q.version \in Nat BY <1>1 DEF VersionInv, Versioned
    <3>5. <<d.attempt, d.version>> # <<q.attempt, q.version>> BY <3>3, <3>4
    <3> QED BY <3>1, <3>2, <3>5
  <2>6. \A c, k \in db'.commands : c.decision = k.decision => c = k
    BY <1>2, <2>2, <2>3, <2>5 DEF CommandOK
  <2>7. \A o \in Events : CommandOK(o)' BY <1>4, <1>5, <2>1
  <2> QED BY <2>4, <2>6, <2>7 DEF CommandInv, Decided
<1> QED BY <1>6, <1>7, <1>8, <1>9, <1>10, <1>11, StepCases DEF Writes

-----------------------------------------------------------------------------
(* Risk and justification *)

Acting == {"assess", "decide", "admit", "execute"}

\* The time a task decides for does not change while it acts.
LEMMA StampKept ==
  ASSUME TypeInv, [Next]_vars, NEW e \in Events, pc'[e] \in Acting
  PROVE  TEval(e)' = TEval(e)
<1> USE DEF TEval, clock
<1>1. CASE UNCHANGED vars \/ Tick BY <1>1 DEF vars, Tick
<1>2. CASE Crash BY <1>2 DEF Crash
<1>3. ASSUME NEW o \in Events, Arrives(o) PROVE TEval(e)' = TEval(e)
  <2>1. pc'[o] \notin Acting
    BY <1>3 DEF Arrives, Occur, Normalize, Ingest, Goto, TypeInv, Acting
  <2>2. o # e BY <2>1
  <2> QED BY <1>3, <2>2 DEF Arrives, Occur, Normalize, Ingest, TypeInv
<1>4. ASSUME NEW o \in Events, Reads(o) PROVE TEval(e)' = TEval(e)
  BY <1>4 DEF Reads, Predict, Assess, SelectCommands, Observe
<1>5. ASSUME NEW o \in Events, Writes(o) PROVE TEval(e)' = TEval(e)
  BY <1>5, WritesFrame
<1>6. ASSUME NEW o \in Events, Aborts(o) \/ Commit(o) PROVE TEval(e)' = TEval(e)
  BY <1>6, EndsIs
<1> QED BY <1>1, <1>2, <1>3, <1>4, <1>5, <1>6, StepCases DEF Writes

LEMMA ReadsRisk ==
  ASSUME PipelineAssumption, IInv, RiskInv, NEW e \in Events, Arrives(e) \/ Reads(e),
         pc'[e] \in Acting, TEval(e)' = TEval(e)
  PROVE  /\ pc'[e] # "execute"
         /\ HighIn(View(e).predictions, AttemptOf[e], TEval(e))
<1>1. TypeInv BY DEF IInv
<1>2. CASE Predict(e)
  <2>1. pc'[e] = "assess" BY <1>1, <1>2 DEF Predict, Goto, TypeInv, AfterPrediction, Acting
  <2>2. \E p \in Latest(PredictionsOf(e)) :
          p.predicted_at = TEval(e) /\ AfterPrediction(p.probability) = "assess"
    BY <1>1, <1>2, <2>1 DEF Predict, Goto, TypeInv
  <2>3. PICK p \in PredictionsOf(e) : p.predicted_at = TEval(e) /\ p.probability = "high"
    BY <2>2 DEF Latest, AfterPrediction
  <2>4. TEval(e) \in Nat BY <1>1 DEF TEval, TypeInv
  <2>5. p \in View(e).predictions /\ p.attempt = AttemptOf[e] BY DEF PredictionsOf, Mine
  <2>6. p.predicted_at <= TEval(e) BY <2>3, <2>4
  <2> QED BY <2>1, <2>3, <2>5, <2>6 DEF HighIn
<1>3. CASE Assess(e)
  <2>1. pc[e] = "assess" /\ pc'[e] # "execute" BY <1>1, <1>3 DEF Assess, Goto, TypeInv
  <2> QED BY <2>1 DEF RiskInv, RiskOK
<1>4. CASE ~Predict(e) /\ ~Assess(e)
  <2>1. pc'[e] \notin Acting
    BY <1>1, <1>4 DEF Arrives, Reads, Occur, Normalize, Ingest, SelectCommands, Observe, Goto,
                      TypeInv, Acting
  <2> QED BY <2>1
<1> QED BY <1>2, <1>3, <1>4

LEMMA WritesRisk ==
  ASSUME PipelineAssumption, IInv, RiskInv, [Next]_vars, NEW e \in Events, Writes(e)
  PROVE  RiskOK(e)'
<1>1. TypeInv /\ VersionInv /\ TaskInv BY DEF IInv
<1>2. TypeInv' BY <1>1, TypeStep
<1>3. db' = db BY <1>1, WritesFrame
<1>4. /\ View(e).predictions = db.predictions \cup new[e].predictions
      /\ View(e).decisions = db.decisions \cup new[e].decisions
  BY <1>1, ViewIs DEF TypeInv
<1>5. /\ View(e)'.predictions = db.predictions \cup new'[e].predictions
      /\ View(e)'.decisions = db.decisions \cup new'[e].decisions
  BY <1>2, <1>3, ViewIsNext DEF TypeInv
<1> USE DEF Tables
<1>6. CASE AppendPrediction(e)
  <2>1. pc'[e] \in {"assess", "commit"} /\ (pc'[e] = "assess" => noted[e] = "high")
    BY <1>1, <1>6 DEF AppendPrediction, Goto, TypeInv, AfterPrediction
  <2>2. ASSUME pc'[e] = "assess"
        PROVE  HighIn(View(e)'.predictions, AttemptOf[e], TEval(e)')
    <3> DEFINE p == [attempt |-> AttemptOf[e], provider |-> ProviderOf[e],
                     version |-> MaxVersion(PredictionsOf(e)) + 1, predicted_at |-> TEval(e),
                     probability |-> noted[e]]
    <3>1. TEval(e)' = TEval(e) /\ TEval(e) \in Nat
      BY <1>1, <2>2, StampKept DEF Acting, TEval, TypeInv
    <3>2. p \in new'[e].predictions BY <1>1, <1>6, AppendPredictionIs
    <3>3. p.attempt = AttemptOf[e] /\ p.predicted_at = TEval(e) /\ p.probability = "high"
      BY <2>1, <2>2
    <3> HIDE DEF p
    <3>4. p \in View(e)'.predictions /\ p.predicted_at <= TEval(e)' BY <1>5, <3>1, <3>2, <3>3
    <3> QED BY <3>3, <3>4 DEF HighIn
  <2> QED BY <2>1, <2>2 DEF RiskOK, HighIn
<1>7. CASE Decide(e) \/ Admit(e)
  <2>1. pc[e] \in Acting /\ pc'[e] \in {"commit", "admit", "execute"}
    BY <1>1, <1>7 DEF Decide, Admit, Goto, TypeInv, Acting
  <2>2. new'[e].predictions = new[e].predictions BY <1>1, <1>7, DecisionIs
  <2>3. HighIn(View(e).predictions, AttemptOf[e], TEval(e)) /\ View(e)'.predictions = View(e).predictions
    BY <1>4, <1>5, <2>1, <2>2 DEF RiskInv, RiskOK, Acting
  <2>4. ASSUME pc'[e] \in Acting PROVE HighIn(View(e)'.predictions, AttemptOf[e], TEval(e)')
    <3>1. TEval(e)' = TEval(e) BY <1>1, <2>4, StampKept
    <3> QED BY <2>3, <3>1
  <2>5. ASSUME pc'[e] = "execute"
        PROVE  \E d \in new'[e].decisions :
                 /\ d.type = "ACT" /\ d.decided_at = TEval(e)'
                 /\ \A q \in DecisionsOf(e)' : q.version <= d.version
    <3>1. TEval(e)' = TEval(e) BY <1>1, <2>5, StampKept DEF Acting
    <3>2. Admit(e) /\ pc[e] = "admit" /\ noted[e] \in Routes
      BY <1>1, <1>7, <2>5 DEF Decide, Admit, Goto, TypeInv, TaskInv, TaskOK
    <3> DEFINE d == Decision(e, "ACT", noted[e])
               m == MaxVersion(DecisionsOf(e))
    <3>3. Insert(e, "decisions", d)
      BY <1>1, <2>5, <3>2 DEF Admit, Goto, TypeInv
    <3>4. new'[e].decisions = new[e].decisions \cup {d}
      BY <1>1, <3>3, InsertIs DEF TypeInv
    <3>5. d.type = "ACT" /\ d.decided_at = TEval(e) /\ d.version = m + 1 BY DEF Decision
    <3>6. m \in Nat /\ \A q \in DecisionsOf(e) : q.version <= m /\ q.version \in Nat
      BY <1>1, VersionsOf, MaxVersionIs DEF Versioned
    <3> HIDE DEF d, m
    <3>7. \A q \in DecisionsOf(e)' : q \in DecisionsOf(e) \/ q = d
      BY <1>4, <1>5, <3>4 DEF DecisionsOf, Mine
    <3>8. \A q \in DecisionsOf(e)' : q.version <= d.version BY <3>5, <3>6, <3>7
    <3> QED BY <3>1, <3>4, <3>5, <3>8
  <2> QED BY <2>1, <2>4, <2>5 DEF RiskOK, HighIn, Acting
<1>8. CASE Register(e) \/ Execute(e) \/ Appends(e) \/ Attribute(e)
  <2>1. pc'[e] \notin Acting
    BY <1>1, <1>8 DEF Register, Execute, Appends, Attribute, Goto, TypeInv, Acting
  <2> QED BY <2>1 DEF RiskOK, Acting
<1> QED BY <1>6, <1>7, <1>8 DEF Writes

LEMMA RiskStep ==
  ASSUME PipelineAssumption, IInv, RiskInv, [Next]_vars
  PROVE  RiskInv'
<1>1. TypeInv /\ VersionInv /\ TaskInv /\ LockInv /\ MineInv
  BY DEF IInv
<1>2. SUFFICES ASSUME NEW o \in Events PROVE RiskOK(o)'
  BY DEF RiskInv
<1>3. RiskOK(o)
  BY DEF RiskInv
<1>4. ASSUME pc'[o] \notin Acting PROVE RiskOK(o)'
  BY <1>4 DEF RiskOK, Acting
<1>5. ASSUME db' = db, new'[o] = new[o], pc'[o] = pc[o] PROVE RiskOK(o)'
  <2>1. CASE pc'[o] \notin Acting BY <1>4, <2>1
  <2>2. CASE pc'[o] \in Acting
    <3>1. TEval(o)' = TEval(o) BY <1>1, <2>2, StampKept
    <3>2. View(o)' = View(o) BY <1>5 DEF View
    <3>3. DecisionsOf(o)' = DecisionsOf(o) BY <3>2 DEF DecisionsOf, Mine
    <3> QED BY <1>3, <1>5, <3>1, <3>2, <3>3 DEF RiskOK, HighIn
  <2> QED BY <2>1, <2>2
<1>6. CASE UNCHANGED vars \/ Tick
  BY <1>5, <1>6 DEF vars, task, Tick
<1>7. CASE Crash
  <2>1. pc'[o] \notin Acting BY <1>1, <1>7 DEF Crash, TypeInv, Running, Labels, Acting
  <2> QED BY <1>4, <2>1
<1>8. ASSUME NEW e \in Events, Arrives(e) \/ Reads(e) PROVE RiskOK(o)'
  <2>1. CASE o # e BY <1>1, <1>5, <1>8, <2>1, QuietFrame
  <2>2. CASE o = e /\ pc'[e] \in Acting
    <3>1. TEval(e)' = TEval(e) BY <1>1, <2>2, StampKept
    <3>2. pc'[e] # "execute" /\ HighIn(View(e).predictions, AttemptOf[e], TEval(e))
      BY <1>8, <2>2, <3>1, ReadsRisk
    <3>3. View(e)' = View(e) BY <1>1, <1>8, QuietFrame DEF View
    <3> QED BY <2>2, <3>1, <3>2, <3>3 DEF RiskOK, HighIn
  <2> QED BY <1>4, <2>1, <2>2
<1>9. ASSUME NEW e \in Events, Writes(e) PROVE RiskOK(o)'
  <2>1. CASE o # e BY <1>1, <1>5, <1>9, <2>1, WritesFrame
  <2> QED BY <1>9, <2>1, WritesRisk
<1>10. ASSUME NEW e \in Events, Aborts(e) PROVE RiskOK(o)'
  <2>1. CASE o # e BY <1>1, <1>5, <1>10, <2>1, EndsIs
  <2>2. CASE o = e
    <3>1. pc'[o] \in {"failed", "done"} BY <1>1, <1>10, <2>2, EndsIs
    <3> QED BY <1>4, <3>1 DEF Acting
  <2> QED BY <2>1, <2>2
<1>11. ASSUME NEW e \in Events, Commit(e) PROVE RiskOK(o)'
  <2>1. CASE o = e
    <3>1. pc'[o] \in {"failed", "done"} BY <1>1, <1>11, <2>1, EndsIs
    <3> QED BY <1>4, <3>1 DEF Acting
  <2>2. CASE o # e /\ pc'[o] \in Acting
    <3>1. db' = View(e) /\ new'[o] = new[o] /\ pc'[o] = pc[o] BY <1>1, <1>11, <2>2, EndsIs
    <3>2. TypeInv' BY <1>1, TypeStep
    <3>3. TEval(o)' = TEval(o) BY <1>1, <2>2, StampKept
    <3>4. /\ db'.predictions = db.predictions \cup new[e].predictions
          /\ db'.decisions = db.decisions \cup new[e].decisions
      BY <1>1, <3>1, ViewIs DEF TypeInv
    <3>5. /\ View(o).predictions = db.predictions \cup new[o].predictions
          /\ View(o).decisions = db.decisions \cup new[o].decisions
      BY <1>1, ViewIs DEF TypeInv
    <3>6. /\ View(o)'.predictions = db'.predictions \cup new[o].predictions
          /\ View(o)'.decisions = db'.decisions \cup new[o].decisions
      BY <3>1, <3>2, ViewIsNext DEF TypeInv
    <3>7. HighIn(View(o)'.predictions, AttemptOf[o], TEval(o)')
      BY <1>3, <2>2, <3>1, <3>3, <3>4, <3>5, <3>6 DEF RiskOK, HighIn, Acting
    <3>8. ASSUME pc'[o] = "execute"
          PROVE  \E d \in new'[o].decisions :
                   /\ d.type = "ACT" /\ d.decided_at = TEval(o)'
                   /\ \A q \in DecisionsOf(o)' : q.version <= d.version
      <4>1. PICK d \in new[o].decisions :
              /\ d.type = "ACT" /\ d.decided_at = TEval(o)
              /\ \A q \in DecisionsOf(o) : q.version <= d.version
        BY <1>3, <3>1, <3>8 DEF RiskOK
      <4>2. d.attempt = AttemptOf[o] BY <1>1 DEF MineInv, Mine
      <4>3. \A q \in new[e].decisions : q.attempt # AttemptOf[o]
        BY <1>1, <2>2, <4>2, Exclusive
      <4>4. \A q \in DecisionsOf(o)' : q \in DecisionsOf(o)
        BY <3>4, <3>5, <3>6, <4>3 DEF DecisionsOf, Mine
      <4> QED BY <3>1, <3>3, <4>1, <4>4
    <3> QED BY <3>7, <3>8 DEF RiskOK, HighIn
  <2> QED BY <1>4, <2>1, <2>2
<1> QED BY <1>6, <1>7, <1>8, <1>9, <1>10, <1>11, StepCases DEF Writes

-----------------------------------------------------------------------------
(* What the steps do to the views *)

Seen == {db} \cup {View(e) : e \in Events}

\* The database only becomes a view; and a view changes by a write of its task, or to the
\* union of two.
LEMMA ViewStep ==
  ASSUME PipelineAssumption, IInv, [Next]_vars
  PROVE  /\ db' \in Seen
         /\ \A o \in Events :
              \/ Writes(o)
              \/ \E D, E \in Seen : \A t \in Tables : View(o)'[t] = D[t] \cup E[t]
<1>1. TypeInv
  BY DEF IInv
<1>2. DOMAIN NoRows = Tables
  BY DEF NoRows, Tables
<1>3. \A o \in Events : db \in Seen /\ View(o) \in Seen
  BY DEF Seen
<1>4. ASSUME NEW o \in Events, NEW D \in Seen, \A t \in Tables : View(o)'[t] = D[t]
      PROVE  \E D1, E1 \in Seen : \A t \in Tables : View(o)'[t] = D1[t] \cup E1[t]
  <2> DEFINE W == View(o)'
  <2>1. \A t \in Tables : W[t] = D[t] BY <1>4
  <2> HIDE DEF W
  <2>2. \A t \in Tables : W[t] = D[t] \cup D[t] BY <2>1
  <2> QED BY <2>2 DEF W
<1>5. ASSUME NEW o \in Events, db' = db, new'[o] = new[o]
      PROVE  \A t \in Tables : View(o)'[t] = View(o)[t]
  BY <1>5 DEF View
<1>6. ASSUME NEW o \in Events, db' \in Seen, new'[o] = NoRows
      PROVE  \E D1, E1 \in Seen : \A t \in Tables : View(o)'[t] = D1[t] \cup E1[t]
  <2> DEFINE W == View(o)'
             D == db'
  <2>1. W = [t \in Tables |-> D[t] \cup NoRows[t]] BY <1>2, <1>6 DEF View
  <2>2. \A t \in Tables : NoRows[t] = {} BY NoRowsType DEF Tables
  <2>3. D \in Seen BY <1>6
  <2> HIDE DEF W, D
  <2>4. \A t \in Tables : W[t] = D[t] BY <2>1, <2>2
  <2>5. \A t \in Tables : W[t] = D[t] \cup D[t] BY <2>4
  <2> QED BY <2>3, <2>5 DEF W
<1>7. CASE UNCHANGED vars \/ Tick
  <2>1. db' = db /\ new' = new BY <1>7, QuietSteps
  <2>2. db' \in Seen BY <2>1 DEF Seen
  <2>3. ASSUME NEW o \in Events
        PROVE  \E D, E \in Seen : \A t \in Tables : View(o)'[t] = D[t] \cup E[t]
    BY <1>3, <1>4, <1>5, <2>1
  <2> QED BY <2>2, <2>3
<1>8. CASE Crash
  <2>1. db' = db /\ \A o \in Events : new'[o] = NoRows BY <1>1, <1>8, EndsIs
  <2>2. db' \in Seen BY <2>1 DEF Seen
  <2> QED BY <1>6, <2>1, <2>2
<1>9. ASSUME NEW e \in Events, Arrives(e) \/ Reads(e)
      PROVE  db' = db /\ new' = new
  BY <1>9, QuietSteps
<1>10. ASSUME NEW e \in Events, Writes(e)
       PROVE  /\ db' = db
              /\ \A o \in Events : o # e => new'[o] = new[o]
  BY <1>1, <1>10, WritesFrame
<1>11. ASSUME NEW e \in Events, Aborts(e)
       PROVE  /\ db' = db /\ new'[e] = NoRows
              /\ \A o \in Events : o # e => new'[o] = new[o]
  BY <1>1, <1>11, EndsIs
<1>12. ASSUME NEW e \in Events, Commit(e)
       PROVE  /\ db' \in Seen
              /\ \A o \in Events :
                   \E D, E \in Seen : \A t \in Tables : View(o)'[t] = D[t] \cup E[t]
  <2>1. /\ db' = View(e) /\ new'[e] = NoRows
        /\ \A o \in Events : o # e => new'[o] = new[o]
    BY <1>1, <1>12, EndsIs
  <2>2. db' \in Seen BY <1>3, <2>1
  <2>3. ASSUME NEW o \in Events, o # e
        PROVE  \E D, E \in Seen : \A t \in Tables : View(o)'[t] = D[t] \cup E[t]
    <3> DEFINE V == View(o)
               W == View(o)'
               D == View(e)
    <3>1. W = [t \in Tables |-> View(e)[t] \cup new[o][t]] BY <1>2, <2>1, <2>3 DEF View
    <3>2. V = [t \in Tables |-> db[t] \cup new[o][t]] BY <1>2 DEF View
    <3>3. D = [t \in Tables |-> db[t] \cup new[e][t]] BY <1>2 DEF View
    <3>4. V \in Seen /\ D \in Seen BY <1>3
    <3> HIDE DEF V, W, D
    <3>5. \A t \in Tables : W[t] = D[t] \cup V[t] BY <3>1, <3>2, <3>3 DEF D
    <3> QED BY <3>4, <3>5 DEF W
  <2> QED BY <1>6, <2>1, <2>2, <2>3
<1>13. ASSUME NEW e \in Events, Arrives(e) \/ Reads(e)
       PROVE  /\ db' \in Seen
              /\ \A o \in Events :
                   \E D, E \in Seen : \A t \in Tables : View(o)'[t] = D[t] \cup E[t]
  BY <1>3, <1>4, <1>5, <1>9, <1>13
<1>14. ASSUME NEW e \in Events, Writes(e)
       PROVE  /\ db' \in Seen
              /\ \A o \in Events : o # e =>
                   \E D, E \in Seen : \A t \in Tables : View(o)'[t] = D[t] \cup E[t]
  BY <1>3, <1>4, <1>5, <1>10, <1>14
<1>15. ASSUME NEW e \in Events, Aborts(e)
       PROVE  /\ db' \in Seen
              /\ \A o \in Events :
                   \E D, E \in Seen : \A t \in Tables : View(o)'[t] = D[t] \cup E[t]
  BY <1>3, <1>4, <1>5, <1>6, <1>11, <1>15
<1> QED BY <1>7, <1>8, <1>12, <1>13, <1>14, <1>15, StepCases DEF Writes

LEMMA CalledKept ==
  ASSUME TypeInv, [Next]_vars, NEW x, Called(x)
  PROVE  Called(x)'
<1>1. now' \in Nat /\ now <= now' /\ now \in Nat
  <2>1. now' = now \/ now' = now + 1
    BY StepCases, WritesFrame, EndsIs
    DEF vars, clock, Tick, Crash, Arrives, Reads, Occur, Normalize, Ingest, Predict, Assess,
        SelectCommands, Observe, Writes
  <2> QED BY <2>1 DEF TypeInv
<1>2. dispatched \subseteq dispatched'
  <2> USE DEF history
  <2>1. CASE UNCHANGED vars \/ Tick \/ Crash BY <2>1 DEF vars, Tick, Crash
  <2>2. ASSUME NEW e \in Events, Arrives(e) PROVE dispatched' = dispatched
    BY <2>2 DEF Arrives, Occur, Normalize, Ingest
  <2>3. ASSUME NEW e \in Events, Reads(e) PROVE dispatched' = dispatched
    BY <2>3 DEF Reads, Predict, Assess, SelectCommands, Observe
  <2>4. ASSUME NEW e \in Events, Execute(e) PROVE dispatched \subseteq dispatched'
    BY <2>4 DEF Execute
  <2>5. ASSUME NEW e \in Events, Register(e) \/ AppendPrediction(e)
        PROVE  dispatched' = dispatched
    BY <2>5 DEF Register, AppendPrediction
  <2>6. ASSUME NEW e \in Events, Decide(e) \/ Admit(e) PROVE dispatched' = dispatched
    BY <2>6 DEF Decide, Admit
  <2>7. ASSUME NEW e \in Events, Appends(e) \/ Attribute(e) PROVE dispatched' = dispatched
    BY <2>7 DEF Appends, Attribute
  <2>8. ASSUME NEW e \in Events, Aborts(e) \/ Commit(e) PROVE dispatched' = dispatched
    BY <2>8 DEF Aborts, Commit
  <2> QED BY <2>1, <2>2, <2>3, <2>4, <2>5, <2>6, <2>7, <2>8, StepCases
<1>3. 0..now \subseteq 0..now'
  BY <1>1
<1> QED BY <1>2, <1>3 DEF Called

-----------------------------------------------------------------------------
(* Justification *)

\* What justifies an execution attempt stays with it.
LEMMA ActedGrows ==
  ASSUME NEW D, NEW E, D.decisions \subseteq E.decisions, D.predictions \subseteq E.predictions,
         NEW id, Acted(D, id)
  PROVE  Acted(E, id)
BY DEF Acted, HighIn

LEMMA SucceededGrows ==
  ASSUME NEW D, NEW E, D.commands \subseteq E.commands, NEW x, Succeeded(D, x)
  PROVE  Succeeded(E, x)
BY DEF Succeeded

LEMMA WritesJustified ==
  ASSUME PipelineAssumption, IInv, RiskInv, StampInv, JustifiedInv, [Next]_vars,
         NEW e \in Events, Writes(e)
  PROVE  JustifiedIn(View(e))'
<1> DEFINE V == View(e)
           W == View(e)'
<1>1. TypeInv /\ VersionInv /\ TaskInv /\ MineInv BY DEF IInv
<1>2. TypeInv' BY <1>1, TypeStep
<1>3. db' = db BY <1>1, WritesFrame
<1>4. /\ V.predictions = db.predictions \cup new[e].predictions
      /\ V.decisions = db.decisions \cup new[e].decisions
      /\ V.commands = db.commands \cup new[e].commands
      /\ V.execution_attempts = db.execution_attempts \cup new[e].execution_attempts
  BY <1>1, ViewIs DEF TypeInv
<1>5. /\ W.predictions = db.predictions \cup new'[e].predictions
      /\ W.decisions = db.decisions \cup new'[e].decisions
      /\ W.commands = db.commands \cup new'[e].commands
      /\ W.execution_attempts = db.execution_attempts \cup new'[e].execution_attempts
  BY <1>2, <1>3, ViewIsNext DEF TypeInv
<1>6. \A x \in V.execution_attempts : Acted(V, x.decision) /\ Succeeded(V, x) /\ Called(x)
  BY DEF JustifiedInv, JustifiedIn
<1>7. ASSUME V.decisions \subseteq W.decisions,
             V.predictions \subseteq W.predictions,
             V.commands \subseteq W.commands,
             \A x \in W.execution_attempts :
               \/ x \in V.execution_attempts
               \/ Acted(W, x.decision) /\ Succeeded(W, x) /\ Called(x)'
      PROVE  JustifiedIn(View(e))'
  <2>1. \A x \in V.execution_attempts : Called(x)' BY <1>1, <1>6, CalledKept
  <2>2. \A x \in V.execution_attempts : Acted(W, x.decision) /\ Succeeded(W, x)
    <3> HIDE DEF V, W
    <3> QED BY <1>6, <1>7, ActedGrows, SucceededGrows
  <2>3. \A x \in W.execution_attempts : Acted(W, x.decision) /\ Succeeded(W, x) /\ Called(x)'
    <3> HIDE DEF V, W
    <3> QED BY <1>7, <2>1, <2>2
  <2> QED BY <2>3 DEF JustifiedIn, Acted, Succeeded, Called
<1> HIDE DEF V, W
<1> USE DEF Tables
<1>8. CASE ~Execute(e)
  <2>1. /\ new[e].decisions \subseteq new'[e].decisions
        /\ new[e].predictions \subseteq new'[e].predictions
    BY <1>1, <1>8, RegisterIs, AppendPredictionIs, DecisionIs, AppendsIs, AttributionIs DEF Writes
  <2>2. /\ new'[e].commands = new[e].commands
        /\ new'[e].execution_attempts = new[e].execution_attempts
    BY <1>1, <1>8, RegisterIs, AppendPredictionIs, DecisionIs, AppendsIs, AttributionIs DEF Writes
  <2> QED BY <1>4, <1>5, <1>7, <2>1, <2>2
<1>9. CASE Execute(e)
  <2>0. PICK id : id = <<AttemptOf[e], MaxVersion(DecisionsOf(e))>> OBVIOUS
  <2>1. pc[e] = "execute" BY <1>9 DEF Execute
  <2>2. PICK d \in new[e].decisions :
          /\ d.type = "ACT" /\ d.decided_at = TEval(e) /\ d.attempt = AttemptOf[e]
          /\ d.version = MaxVersion(DecisionsOf(e))
    BY <1>1, <2>1, ExecutesOwn
  <2>3. HighIn(V.predictions, AttemptOf[e], TEval(e)) BY <2>1 DEF RiskInv, RiskOK, V
  <2>4. Acted(V, id) BY <1>4, <2>0, <2>2, <2>3 DEF Acted
  <2>5. new'[e].decisions = new[e].decisions /\ new'[e].predictions = new[e].predictions
    BY <1>1, <1>9, ExecuteIs
  <2>6. Acted(W, id) BY <1>4, <1>5, <2>4, <2>5, ActedGrows
  <2>7. PICK c \in CommandRow :
          LET id0 == <<AttemptOf[e], MaxVersion(DecisionsOf(e))>> IN
          /\ c.decision = id0 /\ c.provider = ProviderOf[e]
          /\ new'[e].commands = new[e].commands \cup {c}
          /\ \/ /\ c.status = "NOT_NEEDED" /\ c.updated_at = TEval(e)
                /\ TerminalsOfKey(AttemptOf[e], TEval(e)) # {}
                /\ new'[e].execution_attempts = new[e].execution_attempts
                /\ dispatched' = dispatched
             \/ /\ c.status = "SUCCEEDED" /\ c.updated_at = TEval(e) + Duration
                /\ \E x \in ExecutionRow :
                     /\ x.decision = id0 /\ x.provider = ProviderOf[e]
                     /\ x.completed_at = c.updated_at
                     /\ new'[e].execution_attempts = new[e].execution_attempts \cup {x}
                     /\ dispatched' = dispatched \cup {<<id0, now>>}
    BY <1>1, <1>9, ExecuteIs
  <2>8. CASE new'[e].execution_attempts = new[e].execution_attempts
    BY <1>4, <1>5, <1>7, <2>5, <2>7, <2>8
  <2>9. CASE new'[e].execution_attempts # new[e].execution_attempts
    <3>1. PICK x : /\ x.decision = id /\ x.completed_at = TEval(e) + Duration
                   /\ x.completed_at = c.updated_at /\ c.status = "SUCCEEDED"
                   /\ new'[e].execution_attempts = new[e].execution_attempts \cup {x}
                   /\ dispatched' = dispatched \cup {<<id, now>>}
      BY <2>0, <2>7, <2>9
    <3>2. now' = now /\ now \in 0..now
      BY <1>1, WritesFrame DEF clock, TypeInv
    <3>3. TEval(e) + Duration <= now + Duration
      BY <1>1 DEF StampInv, TEval, TypeInv, PipelineAssumption
    <3>4. Called(x)' BY <3>1, <3>2, <3>3 DEF Called
    <3>5. Succeeded(W, x)
      <4>1. c \in W.commands /\ c.decision = x.decision BY <1>5, <2>0, <2>7, <3>1
      <4> QED BY <3>1, <4>1 DEF Succeeded
    <3> QED BY <1>4, <1>5, <1>7, <2>5, <2>6, <2>7, <3>1, <3>4, <3>5
  <2> QED BY <2>8, <2>9
<1> QED BY <1>8, <1>9

LEMMA JustifiedStep ==
  ASSUME PipelineAssumption, IInv, RiskInv, StampInv, JustifiedInv, [Next]_vars
  PROVE  JustifiedInv'
<1>1. TypeInv BY DEF IInv
<1>2. \A D \in Seen : JustifiedIn(D) BY DEF JustifiedInv, Seen
<1>3. \A D \in Seen : \A x \in D.execution_attempts : Called(x)'
  BY <1>1, <1>2, CalledKept DEF JustifiedIn
<1>4. JustifiedIn(db)'
  <2> DEFINE D == db'
  <2>1. D \in Seen BY ViewStep
  <2>2. \A x \in D.execution_attempts : Acted(D, x.decision) /\ Succeeded(D, x) /\ Called(x)'
    BY <1>2, <1>3, <2>1 DEF JustifiedIn
  <2> QED BY <2>2 DEF JustifiedIn, Acted, Succeeded, Called
<1>5. ASSUME NEW o \in Events PROVE JustifiedIn(View(o))'
  <2>1. CASE Writes(o) BY <2>1, WritesJustified
  <2>2. CASE \E D, E \in Seen : \A t \in Tables : View(o)'[t] = D[t] \cup E[t]
    <3> DEFINE W == View(o)'
    <3>1. PICK D \in Seen, E \in Seen : \A t \in Tables : W[t] = D[t] \cup E[t] BY <2>2
    <3> HIDE DEF W
    <3>2. /\ W.decisions = D.decisions \cup E.decisions
          /\ W.predictions = D.predictions \cup E.predictions
          /\ W.commands = D.commands \cup E.commands
          /\ W.execution_attempts = D.execution_attempts \cup E.execution_attempts
      BY <3>1 DEF Tables
    <3>3. JustifiedIn(D) /\ JustifiedIn(E) BY <1>2
    <3>4. \A x \in W.execution_attempts : Acted(W, x.decision)
      BY <3>2, <3>3, ActedGrows DEF JustifiedIn
    <3>5. \A x \in W.execution_attempts : Succeeded(W, x)
      BY <3>2, <3>3, SucceededGrows DEF JustifiedIn
    <3>6. \A x \in W.execution_attempts : Called(x)' BY <1>3, <3>2
    <3> QED BY <3>4, <3>5, <3>6 DEF JustifiedIn, Acted, Succeeded, Called, W
  <2> QED BY <2>1, <2>2, ViewStep
<1> QED BY <1>4, <1>5 DEF JustifiedInv

LEMMA StampStep ==
  ASSUME PipelineAssumption, IInv, StampInv, [Next]_vars
  PROVE  StampInv'
<1>1. TypeInv BY DEF IInv
<1>2. ASSUME now' = now \/ now' = now + 1, ingested_at' = ingested_at PROVE StampInv'
  BY <1>1, <1>2 DEF StampInv, TypeInv
<1>3. CASE UNCHANGED vars \/ Tick BY <1>2, <1>3 DEF vars, clock, Tick
<1>4. CASE Crash BY <1>2, <1>4 DEF clock, Crash
<1>5. ASSUME NEW e \in Events, Arrives(e) PROVE StampInv'
  <2>1. CASE Normalize(e) BY <1>1, <2>1 DEF Normalize, StampInv, TypeInv
  <2> QED BY <1>2, <1>5, <2>1 DEF Arrives, Occur, Ingest
<1>6. ASSUME NEW e \in Events, Reads(e) PROVE StampInv'
  BY <1>2, <1>6 DEF clock, Reads, Predict, Assess, SelectCommands, Observe
<1>7. ASSUME NEW e \in Events, Writes(e) PROVE StampInv'
  BY <1>1, <1>2, <1>7, WritesFrame DEF clock
<1>8. ASSUME NEW e \in Events, Aborts(e) \/ Commit(e) PROVE StampInv'
  BY <1>1, <1>2, <1>8, EndsIs DEF clock
<1> QED BY <1>3, <1>4, <1>5, <1>6, <1>7, <1>8, StepCases DEF Writes

-----------------------------------------------------------------------------
(* The log of observations *)

\* What is observed next has the version after the committed ones.
LEMMA ObserveLog ==
  ASSUME PipelineAssumption, IInv, LogInv, NEW e \in Events, Observe(e)
  PROVE  LogOK(e)'
<1>1. TypeInv /\ VersionInv /\ LogOK(e)
  BY DEF IInv, LogInv
<1>2. pc[e] = "next" /\ pc'[e] = "append" /\ new' = new /\ db' = db /\ todo' = todo
  BY <1>1 DEF Observe, Goto, TypeInv
<1>3. PICK c \in todo[e], r \in ObservationRow :
        /\ obs' = [obs EXCEPT ![e] = r] /\ r.decision = c.decision
        /\ r.version = MaxVersion(ObservationsOf(e, c.decision)) + 1
  BY <1>1, ObserveIs
<1>4. obs'[e] = r
  BY <1>1, <1>3 DEF TypeInv
<1> DEFINE R == ObservationsOf(e, c.decision)
           m == MaxVersion(R)
<1>5. m \in Nat /\ (m # 0 => \E p \in R : p.version = m)
  BY <1>1, VersionsOf, MaxVersionIs
<1>6. \A p \in R : p \in db.observations /\ p.decision = c.decision
  <2>1. View(e).observations = db.observations \cup new[e].observations
    BY <1>1, ViewIs DEF TypeInv
  <2> QED BY <1>1, <1>2, <2>1 DEF ObservationsOf, LogOK
<1>7. r.version = m + 1
  BY <1>3
<1> HIDE DEF R, m
<1>8. Follows(r)
  <2>1. CASE m = 0 BY <1>7, <2>1 DEF Follows
  <2>2. CASE m # 0
    <3>1. PICK p \in db.observations : p.decision = r.decision /\ p.version = m
      BY <1>3, <1>5, <1>6, <2>2
    <3>2. r.version > 1 /\ r.version - 1 = m BY <1>5, <1>7, <2>2
    <3> QED BY <3>1, <3>2 DEF Follows
  <2> QED BY <2>1, <2>2
<1>9. Follows(obs[e])'
  BY <1>2, <1>4, <1>8 DEF Follows
<1> QED BY <1>1, <1>2, <1>9 DEF LogOK, Follows

\* An observation that is appended is the next of its command, and only its task's.
LEMMA AppendsNext ==
  ASSUME IInv, LogInv, NEW e \in Events, Appends(e)
  PROVE  /\ Follows(obs[e])
         /\ \A p \in db.observations : obs[e].decision = p.decision => p.version < obs[e].version
         /\ \A f \in Events : \A q \in new[f].observations : q.decision # obs[e].decision
<1> DEFINE o == obs[e]
<1>1. TypeInv /\ VersionInv /\ TaskInv
  BY DEF IInv
<1>2. pc[e] = "append" /\ Free(e) /\ ~\E q \in View(e).observations : SameKey(q, o)
  BY DEF Appends
<1>3. Follows(o) /\ \A q \in new[e].observations, c \in todo[e] : q.decision # c.decision
  BY <1>2 DEF LogInv, LogOK
<1>4. o.version \in Nat
  BY <1>1, <1>2 DEF TaskInv, TaskOK, ObservationRow
<1>5. /\ \A p \in db.observations : p.version \in Nat
      /\ \A f \in Events : \A q \in new[f].observations : q.version \in Nat
  BY <1>1 DEF VersionInv, Versioned
<1>6. \A p \in db.observations : p.decision = o.decision => p.version # o.version
  <2>1. View(e).observations = db.observations \cup new[e].observations
    BY <1>1, ViewIs DEF TypeInv
  <2> QED BY <1>2, <2>1 DEF SameKey
<1>7. \A f \in Events : f # e =>
        \A q \in new[f].observations : q.decision = o.decision => q.version # o.version
  BY <1>2 DEF Free, WaitsFor, InsertWaits, SameKey
<1>8. \A p \in db.observations : \A v \in 1..p.version :
        \E x \in db.observations : x.decision = p.decision /\ x.version = v
  BY DEF LogInv
<1> HIDE DEF o
<1>9. o.version >= 1
  BY <1>3, <1>4 DEF Follows
<1>10. ASSUME NEW p \in db.observations, p.decision = o.decision PROVE p.version < o.version
  <2>1. SUFFICES ASSUME o.version <= p.version PROVE FALSE
    BY <1>4, <1>5
  <2>2. o.version \in 1..p.version BY <1>4, <1>5, <1>9, <2>1
  <2>3. \E x \in db.observations : x.decision = p.decision /\ x.version = o.version
    BY <1>8, <2>2
  <2> QED BY <1>6, <1>10, <2>3
<1>11. ASSUME NEW q \in new[e].observations PROVE q.decision # o.decision
  <2>1. \E c \in todo[e] : c.decision = o.decision
    BY <1>1, <1>2 DEF TaskInv, TaskOK, o
  <2> QED BY <1>3, <2>1
<1>12. ASSUME NEW f \in Events, f # e, NEW q \in new[f].observations
       PROVE  q.decision # o.decision
  <2>1. SUFFICES ASSUME q.decision = o.decision PROVE FALSE
    OBVIOUS
  <2>2. q.version # o.version BY <1>7, <1>12, <2>1
  <2>3. /\ Follows(q)
        /\ \A p \in db.observations : q.decision = p.decision => p.version < q.version
    BY DEF LogInv, LogOK
  <2>4. q.version \in Nat /\ q.version >= 1 BY <1>5, <2>3 DEF Follows
  <2>5. CASE q.version < o.version
    <3>1. PICK p \in db.observations : p.decision = o.decision /\ p.version = o.version - 1
      BY <1>3, <1>4, <2>4, <2>5 DEF Follows
    <3>2. p.version < q.version BY <2>1, <2>3, <3>1
    <3> QED BY <1>4, <2>4, <2>5, <3>1, <3>2
  <2>6. CASE o.version < q.version
    <3>1. PICK p \in db.observations : p.decision = q.decision /\ p.version = q.version - 1
      BY <1>9, <1>4, <2>3, <2>4, <2>6 DEF Follows
    <3>2. p.version < o.version BY <1>10, <2>1, <3>1
    <3> QED BY <1>4, <2>4, <2>6, <3>1, <3>2
  <2> QED BY <1>4, <2>2, <2>4, <2>5, <2>6
<1> QED BY <1>3, <1>10, <1>11, <1>12 DEF o

LEMMA AppendsLog ==
  ASSUME IInv, LogInv, NEW e \in Events, Appends(e)
  PROVE  LogOK(e)'
<1>1. TypeInv /\ TaskInv /\ LogOK(e)
  BY DEF IInv, LogInv
<1>2. /\ pc[e] = "append" /\ pc'[e] = "attribute" /\ db' = db
      /\ obs' = obs /\ todo' = todo
  BY <1>1 DEF Appends, Goto, TypeInv
<1>3. new'[e].observations = new[e].observations \cup {obs[e]}
  BY <1>1, AppendsIs
<1>4. /\ Follows(obs[e])
      /\ \A p \in db.observations : obs[e].decision = p.decision => p.version < obs[e].version
      /\ \A q \in new[e].observations : q.decision # obs[e].decision
  BY AppendsNext
<1>5. ASSUME NEW o \in new'[e].observations
      PROVE  /\ Follows(o)'
             /\ \A p \in db'.observations : o.decision = p.decision => p.version < o.version
             /\ \A p \in new'[e].observations : o.decision = p.decision => o = p
  <2>1. CASE o = obs[e] BY <1>2, <1>3, <1>4, <2>1 DEF Follows
  <2>2. CASE o \in new[e].observations
    <3>1. Follows(o)' BY <1>1, <1>2, <2>2 DEF LogOK, Follows
    <3> QED BY <1>1, <1>2, <1>3, <1>4, <2>2, <3>1 DEF LogOK
  <2> QED BY <1>3, <2>1, <2>2
<1>6. \A o \in new'[e].observations, c \in todo'[e] :
        c.decision # obs'[e].decision => o.decision # c.decision
  BY <1>1, <1>2, <1>3 DEF LogOK
<1> QED BY <1>2, <1>3, <1>5, <1>6 DEF LogOK, Follows

LEMMA AttributeLog ==
  ASSUME PipelineAssumption, IInv, CommandInv, LogInv, NEW e \in Events, Attribute(e)
  PROVE  LogOK(e)'
<1>1. TypeInv /\ VersionInv /\ TaskInv /\ OwnedInv /\ LogOK(e)
  BY DEF IInv, LogInv
<1> DEFINE c == CHOOSE x \in todo[e] : x.decision = obs[e].decision
<1>2. c \in todo[e] /\ c.decision = obs[e].decision
  BY <1>1, AttributeIs
<1>3. pc[e] = "attribute" /\ pc'[e] = "next" /\ db' = db /\ todo'[e] = todo[e] \ {c}
  BY <1>1 DEF Attribute, Goto, TypeInv
<1>4. new'[e].observations = new[e].observations
  BY <1>1, AttributionIs DEF Tables
<1> HIDE DEF c
<1>5. ASSUME NEW o \in new[e].observations, NEW k \in todo[e] \ {c}
      PROVE  o.decision # k.decision
  <2>1. k \in db.commands /\ c \in db.commands BY <1>1, <1>2 DEF OwnedInv, OwnedOK
  <2>2. k.decision # obs[e].decision BY <1>2, <2>1 DEF CommandInv
  <2> QED BY <1>1, <1>3, <2>2 DEF LogOK
<1> QED BY <1>1, <1>3, <1>4, <1>5 DEF LogOK, Follows

LEMMA LogStep ==
  ASSUME PipelineAssumption, IInv, CommandInv, LogInv, [Next]_vars
  PROVE  LogInv'
<1>1. TypeInv /\ VersionInv /\ TaskInv
  BY DEF IInv
<1>2. \A o \in Events : LogOK(o)
  BY DEF LogInv
<1>3. ASSUME NEW o \in Events, db' = db, new'[o].observations = new[o].observations,
             \/ pc'[o] \notin TerminalLabels
             \/ pc'[o] = pc[o] /\ todo'[o] = todo[o] /\ obs'[o] = obs[o]
      PROVE  LogOK(o)'
  <2>1. \A q \in new[o].observations : Follows(q)' BY <1>2, <1>3 DEF LogOK, Follows
  <2>2. pc'[o] = "append" => Follows(obs[o])'
    BY <1>2, <1>3 DEF LogOK, Follows, TerminalLabels
  <2> QED BY <1>2, <1>3, <2>1, <2>2 DEF LogOK, Follows, TerminalLabels
<1>4. ASSUME NEW o \in Events, new'[o] = NoRows, pc'[o] \notin TerminalLabels PROVE LogOK(o)'
  BY <1>4, NoRowsType DEF LogOK, TerminalLabels
<1>5. ASSUME db' = db, \A o \in Events : LogOK(o)',
             \A o \in Events : new'[o].observations \subseteq new[o].observations
      PROVE  LogInv'
  BY <1>5 DEF LogInv
<1>6. CASE UNCHANGED vars \/ Tick
  <2>1. db' = db /\ new' = new /\ pc' = pc /\ todo' = todo /\ obs' = obs
    BY <1>6 DEF vars, task, Tick
  <2> QED BY <1>3, <1>5, <2>1
<1>7. CASE Crash
  <2>1. db' = db /\ \A o \in Events : new'[o] = NoRows BY <1>1, <1>7, EndsIs
  <2>2. \A o \in Events : pc'[o] \notin TerminalLabels
    BY <1>1, <1>7 DEF Crash, TypeInv, Running, Labels, TerminalLabels
  <2> QED BY <1>4, <1>5, <2>1, <2>2, NoRowsType
<1>8. ASSUME NEW e \in Events, Arrives(e) \/ Reads(e) PROVE LogInv'
  <2>1. /\ db' = db /\ new' = new
        /\ \A o \in Events : o # e => pc'[o] = pc[o] /\ todo'[o] = todo[o] /\ obs'[o] = obs[o]
    BY <1>1, <1>8, QuietFrame
  <2>2. CASE Observe(e) BY <1>3, <1>5, <2>1, <2>2, ObserveLog
  <2>3. CASE SelectCommands(e)
    <3>1. pc[e] = "scheduled" /\ pc'[e] = "next"
      BY <1>1, <2>3 DEF SelectCommands, Goto, TypeInv
    <3>2. new'[e].observations = {}
      BY <1>1, <2>1, <3>1, NoRowsType DEF TaskInv, TaskOK, TriggerLabels, TerminalLabels
    <3>3. LogOK(e)' BY <3>1, <3>2 DEF LogOK
    <3> QED BY <1>3, <1>5, <2>1, <3>3
  <2>4. CASE ~Observe(e) /\ ~SelectCommands(e)
    <3>1. pc'[e] \notin TerminalLabels
      BY <1>1, <1>8, <2>4 DEF Arrives, Reads, Occur, Normalize, Ingest, Predict, Assess, Goto,
                              TypeInv, AfterPrediction, TerminalLabels
    <3> QED BY <1>3, <1>5, <2>1, <3>1
  <2> QED BY <2>2, <2>3, <2>4
<1>9. ASSUME NEW e \in Events, Writes(e) PROVE LogInv'
  <2>1. /\ db' = db
        /\ \A o \in Events : o # e =>
             new'[o] = new[o] /\ pc'[o] = pc[o] /\ todo'[o] = todo[o] /\ obs'[o] = obs[o]
    BY <1>1, <1>9, WritesFrame
  <2>2. CASE Appends(e)
    <3>1. new'[e].observations = new[e].observations \cup {obs[e]} BY <1>1, <2>2, AppendsIs
    <3>2. \A f \in Events : \A q \in new[f].observations : q.decision # obs[e].decision
      BY <2>2, AppendsNext
    <3>3. \A f, o \in Events : f # o =>
            \A r \in new[f].observations, q \in new[o].observations : r.decision # q.decision
      BY DEF LogInv
    <3>4. \A f, o \in Events : f # o =>
            \A r \in new'[f].observations, q \in new'[o].observations : r.decision # q.decision
      BY <2>1, <3>1, <3>2, <3>3
    <3>5. \A o \in Events : LogOK(o)' BY <1>3, <2>1, <2>2, AppendsLog
    <3>6. \A o \in db'.observations : \A v \in 1..o.version :
            \E p \in db'.observations : p.decision = o.decision /\ p.version = v
      BY <2>1 DEF LogInv
    <3> QED BY <3>4, <3>5, <3>6 DEF LogInv
  <2>3. CASE Attribute(e)
    <3>1. new'[e].observations = new[e].observations BY <1>1, <2>3, AttributionIs DEF Tables
    <3> QED BY <1>3, <1>5, <2>1, <2>3, <3>1, AttributeLog
  <2>4. CASE ~Appends(e) /\ ~Attribute(e)
    <3>1. new'[e].observations = new[e].observations
      BY <1>1, <1>9, <2>4, RegisterIs, AppendPredictionIs, DecisionIs, ExecuteIs DEF Writes, Tables
    <3>2. pc'[e] \notin TerminalLabels
      BY <1>1, <1>9, <2>4 DEF Writes, Register, AppendPrediction, Decide, Admit, Execute, Goto,
                              TypeInv, AfterPrediction, TerminalLabels
    <3> QED BY <1>3, <1>5, <2>1, <3>1, <3>2
  <2> QED BY <2>2, <2>3, <2>4
<1>10. ASSUME NEW e \in Events, Aborts(e) PROVE LogInv'
  <2>1. /\ db' = db /\ new'[e] = NoRows /\ pc'[e] \in {"failed", "done"}
        /\ \A o \in Events : o # e =>
             new'[o] = new[o] /\ pc'[o] = pc[o] /\ todo'[o] = todo[o] /\ obs'[o] = obs[o]
    BY <1>1, <1>10, EndsIs
  <2>2. LogOK(e)' BY <1>4, <2>1 DEF TerminalLabels
  <2> QED BY <1>3, <1>5, <2>1, <2>2, NoRowsType
<1>11. ASSUME NEW e \in Events, Commit(e) PROVE LogInv'
  <2>1. /\ db' = View(e) /\ new'[e] = NoRows /\ pc'[e] \in {"failed", "done"}
        /\ \A o \in Events : o # e =>
             new'[o] = new[o] /\ pc'[o] = pc[o] /\ todo'[o] = todo[o] /\ obs'[o] = obs[o]
    BY <1>1, <1>11, EndsIs
  <2>2. db'.observations = db.observations \cup new[e].observations
    BY <1>1, <2>1, ViewIs DEF TypeInv
  <2>3. \A f, o \in Events : f # o =>
          \A r \in new[f].observations, q \in new[o].observations : r.decision # q.decision
    BY DEF LogInv
  <2>4. ASSUME NEW o \in db'.observations, NEW v \in 1..o.version
        PROVE  \E p \in db'.observations : p.decision = o.decision /\ p.version = v
    <3>1. CASE o \in db.observations BY <2>2, <3>1 DEF LogInv
    <3>2. CASE o \in new[e].observations
      <4>1. Follows(o) BY <1>2, <3>2 DEF LogOK
      <4>2. o.version \in Nat BY <1>1, <3>2 DEF VersionInv, Versioned
      <4>3. CASE v = o.version BY <4>3
      <4>4. CASE v # o.version
        <5>1. PICK p \in db.observations : p.decision = o.decision /\ p.version = o.version - 1
          BY <4>1, <4>2, <4>4 DEF Follows
        <5>2. v \in 1..p.version BY <4>2, <4>4, <5>1
        <5>3. \E q \in db.observations : q.decision = p.decision /\ q.version = v
          BY <5>2 DEF LogInv
        <5> QED BY <2>2, <5>1, <5>3
      <4> QED BY <4>3, <4>4
    <3> QED BY <2>2, <3>1, <3>2
  <2>5. ASSUME NEW o \in Events, o # e PROVE LogOK(o)'
    <3>1. \A q : Follows(q) => Follows(q)' BY <2>2 DEF Follows
    <3>2. new'[o] = new[o] /\ pc'[o] = pc[o] /\ todo'[o] = todo[o] /\ obs'[o] = obs[o]
      BY <2>1, <2>5
    <3>3. \A q \in new[o].observations : Follows(q)' BY <1>2, <3>1 DEF LogOK
    <3>4. \A q \in new[o].observations, p \in db'.observations :
            q.decision = p.decision => p.version < q.version
      BY <1>2, <2>2, <2>3, <2>5 DEF LogOK
    <3>5. pc[o] = "append" => Follows(obs[o])'
      BY <1>2, <2>2, <3>2 DEF LogOK, Follows
    <3> QED BY <1>2, <3>2, <3>3, <3>4, <3>5 DEF LogOK, Follows
  <2>6. LogOK(e)' BY <1>4, <2>1 DEF TerminalLabels
  <2>7. \A f, o \in Events : f # o =>
          \A r \in new'[f].observations, q \in new'[o].observations : r.decision # q.decision
    BY <2>1, <2>3, NoRowsType
  <2> QED BY <2>4, <2>5, <2>6, <2>7 DEF LogInv
<1> QED BY <1>6, <1>7, <1>8, <1>9, <1>10, <1>11, StepCases DEF Writes

-----------------------------------------------------------------------------
(* Credits *)

LEMMA BacksKept ==
  ASSUME TypeInv, EventInv, [Next]_vars, NEW x, NEW o, NEW a, Backs(x, o, a)
  PROVE  Backs(x, o, a)'
<1>1. PICK f \in payment_events : Decides(f, o) /\ occurred[f] >= x.completed_at
  BY DEF Backs
<1>2. f \in payment_events' /\ Decides(f, o)' /\ occurred'[f] = occurred[f]
  BY <1>1, DecidesKept, EventStep
<1> QED BY <1>1, <1>2 DEF Backs

\* What backs an attribution stays with it.
LEMMA CreditGrows ==
  ASSUME NEW D, NEW E, D.execution_attempts \subseteq E.execution_attempts,
         D.observations \subseteq E.observations, NEW a, Credit(D, a)
  PROVE  Credit(E, a)
BY DEF Credit

\* What is attributed is the observation just made.
LEMMA AttributesLatest ==
  ASSUME IInv, LogInv, NEW e \in Events, pc[e] = "attribute",
         NEW o \in Latest({x \in ObservationsOf(e, obs[e].decision) : x.as_of <= obs[e].as_of})
  PROVE  o = obs[e]
<1> DEFINE S == {x \in ObservationsOf(e, obs[e].decision) : x.as_of <= obs[e].as_of}
<1>1. TypeInv /\ VersionInv /\ TaskInv /\ LogOK(e)
  BY DEF IInv, LogInv
<1>2. View(e).observations = db.observations \cup new[e].observations
  BY <1>1, ViewIs DEF TypeInv
<1>3. obs[e] \in new[e].observations /\ obs[e] \in ObservationRow
  BY <1>1 DEF LogOK, TaskInv, TaskOK
<1>4. obs[e] \in S
  <2>1. obs[e].as_of <= obs[e].as_of BY <1>3 DEF ObservationRow
  <2> QED BY <1>2, <1>3, <2>1 DEF ObservationsOf
<1>5. Versioned(S)
  <2>1. S \in SUBSET ObservationsOf(e, obs[e].decision) OBVIOUS
  <2> HIDE DEF S
  <2> QED BY <1>1, <2>1, VersionsOf, VersionedSubset
<1>6. o \in S /\ o.version = MaxVersion(S)
  BY DEF Latest
<1>7. obs[e].version <= o.version
  <2> HIDE DEF S
  <2> QED BY <1>4, <1>5, <1>6, MaxVersionIs
<1>8. o.decision = obs[e].decision /\ o \in View(e).observations
  BY <1>6 DEF ObservationsOf
<1>9. o \notin db.observations
  <2>1. SUFFICES ASSUME o \in db.observations PROVE FALSE
    OBVIOUS
  <2>2. o.version < obs[e].version BY <1>1, <1>3, <1>8, <2>1 DEF LogOK
  <2>3. o.version \in Nat /\ obs[e].version \in Nat
    BY <1>1, <1>3, <2>1 DEF VersionInv, Versioned
  <2> QED BY <1>7, <2>2, <2>3
<1> QED BY <1>1, <1>2, <1>3, <1>8, <1>9 DEF LogOK

\* Credit is given for a treated and captured outcome only.
LEMMA CreditedWhen ==
  ASSUME NEW c, NEW attempts, NEW o \in ObservationRow,
         "ATTRIBUTED" \in StatusesOf(TreatmentOf(c, attempts, o), o.outcome)
  PROVE  /\ o.outcome = "CAPTURED"
         /\ \E x \in attempts : ~(o.timestamp < x.completed_at)
<1>1. o.outcome \in Outcomes
  BY DEF ObservationRow
<1>2. o.outcome # "UNKNOWN_IN_FLIGHT"
  BY DEF StatusesOf
<1>3. TreatmentOf(c, attempts, o) # "UNTREATED"
  BY <1>2 DEF StatusesOf
<1>4. TreatmentOf(c, attempts, o) = "TREATED"
  BY <1>3 DEF TreatmentOf
<1>5. o.outcome # "FAILED"
  BY <1>2, <1>4 DEF StatusesOf
<1>6. attempts # {} /\ ~\E x \in attempts : o.timestamp < x.completed_at
  BY <1>2, <1>3 DEF TreatmentOf
<1> QED BY <1>1, <1>2, <1>5, <1>6 DEF Outcomes

LEMMA AttributeCredits ==
  ASSUME PipelineAssumption, IInv, CommandInv, LogInv, NEW e \in Events, Attribute(e)
  PROVE  \A a \in new'[e].attributions :
           a \in new[e].attributions \/ (a.status = "ATTRIBUTED" => Credit(View(e), a))
<1> DEFINE d == obs[e].decision
           t == obs[e].as_of
           c == CHOOSE x \in todo[e] : x.decision = d
           attempts == {x \in View(e).execution_attempts : x.decision = d /\ x.completed_at <= t}
<1>1. TypeInv /\ VersionInv /\ TaskInv /\ OwnedInv /\ OutcomeInv
  BY DEF IInv
<1>2. /\ obs[e] \in ObservationRow /\ c \in todo[e] /\ c.decision = d
  BY <1>1, AttributeIs
<1>3. pc[e] = "attribute"
  BY DEF Attribute
<1>4. c.provider = obs[e].provider
  <2>1. PICK k \in todo[e] : k.decision = d /\ k.provider = obs[e].provider
    BY <1>1, <1>3 DEF TaskInv, TaskOK
  <2> HIDE DEF c
  <2>2. k \in db.commands /\ c \in db.commands BY <1>1, <1>2 DEF OwnedInv, OwnedOK
  <2>3. k = c BY <1>2, <2>1, <2>2 DEF CommandInv
  <2> QED BY <2>1, <2>3
<1>5. CASE UNCHANGED new
  BY <1>5
<1>6. CASE ~UNCHANGED new
  <2>1. PICK o \in Latest({x \in ObservationsOf(e, d) : x.as_of <= t}) :
          \E status \in StatusesOf(TreatmentOf(c, attempts, o), o.outcome) :
             Insert(e, "attributions",
                    [decision |-> d, provider |-> c.provider,
                     version |-> MaxVersion(AttributionsOf(e, d)) + 1, as_of |-> t,
                     treatment |-> TreatmentOf(c, attempts, o), status |-> status])
    BY <1>6 DEF Attribute
  <2>2. PICK status \in StatusesOf(TreatmentOf(c, attempts, o), o.outcome) :
             Insert(e, "attributions",
                    [decision |-> d, provider |-> c.provider,
                     version |-> MaxVersion(AttributionsOf(e, d)) + 1, as_of |-> t,
                     treatment |-> TreatmentOf(c, attempts, o), status |-> status])
    BY <2>1
  <2>3. o = obs[e] BY <1>3, AttributesLatest
  <2> DEFINE a == [decision |-> d, provider |-> c.provider,
                   version |-> MaxVersion(AttributionsOf(e, d)) + 1, as_of |-> t,
                   treatment |-> TreatmentOf(c, attempts, o), status |-> status]
  <2>4. new'[e].attributions = new[e].attributions \cup {a}
    BY <1>1, <2>2, InsertIs DEF TypeInv, Tables
  <2>5. /\ a.decision = d /\ a.provider = c.provider /\ a.as_of = t /\ a.status = status
    OBVIOUS
  <2> HIDE DEF a, c
  <2>6. ASSUME status = "ATTRIBUTED" PROVE Credit(View(e), a)
    <3>1. /\ obs[e].outcome = "CAPTURED"
          /\ \E x \in attempts : ~(obs[e].timestamp < x.completed_at)
      <4> HIDE DEF attempts
      <4> QED BY <1>2, <2>2, <2>3, <2>6, CreditedWhen
    <3>2. PICK x \in attempts : ~(obs[e].timestamp < x.completed_at) BY <3>1
    <3>3. x \in View(e).execution_attempts /\ x.decision = d OBVIOUS
    <3>4. PICK f \in payment_events : Decides(f, obs[e])
      BY <1>1, <1>3, <3>1 DEF OutcomeInv, Observed
    <3>5. occurred[f] = obs[e].timestamp
      BY <3>4 DEF Decides
    <3>6. occurred[f] >= x.completed_at
      <4>1. occurred[f] \in Nat BY <1>1, <3>4 DEF TypeInv
      <4>2. x.completed_at \in Nat
        BY <1>1, <3>3, ViewIs DEF TypeInv, Database, ExecutionRow
      <4> QED BY <3>2, <3>5, <4>1, <4>2
    <3>7. Backs(x, obs[e], a)
      BY <1>4, <2>5, <3>1, <3>3, <3>4, <3>6 DEF Backs
    <3>8. obs[e] \in View(e).observations
      BY <2>1, <2>3 DEF Latest, ObservationsOf
    <3> QED BY <3>3, <3>7, <3>8 DEF Credit
  <2> QED BY <2>4, <2>5, <2>6
<1> QED BY <1>5, <1>6

LEMMA WritesCredit ==
  ASSUME PipelineAssumption, IInv, CommandInv, LogInv, CreditInv, [Next]_vars,
         NEW e \in Events, Writes(e)
  PROVE  CreditIn(View(e))'
<1> DEFINE V == View(e)
           W == View(e)'
<1>1. TypeInv /\ VersionInv /\ TaskInv /\ EventInv
  BY DEF IInv
<1>2. TypeInv' /\ db' = db
  BY <1>1, TypeStep, WritesFrame
<1>3. /\ V.attributions = db.attributions \cup new[e].attributions
      /\ V.observations = db.observations \cup new[e].observations
      /\ V.execution_attempts = db.execution_attempts \cup new[e].execution_attempts
  BY <1>1, ViewIs DEF TypeInv
<1>4. /\ W.attributions = db.attributions \cup new'[e].attributions
      /\ W.observations = db.observations \cup new'[e].observations
      /\ W.execution_attempts = db.execution_attempts \cup new'[e].execution_attempts
  BY <1>2, ViewIsNext DEF TypeInv
<1>5. \A a \in V.attributions : a.status = "ATTRIBUTED" => Credit(V, a)
  BY DEF CreditInv, CreditIn
<1>6. /\ new[e].observations \subseteq new'[e].observations
      /\ new[e].execution_attempts \subseteq new'[e].execution_attempts
      /\ \A a \in new'[e].attributions :
           a \in new[e].attributions \/ (a.status = "ATTRIBUTED" => Credit(V, a))
  <2> USE DEF Tables
  <2>1. CASE Execute(e)
    <3>1. new'[e].observations = new[e].observations /\ new'[e].attributions = new[e].attributions
      BY <1>1, <2>1, ExecuteIs
    <3>2. new[e].execution_attempts \subseteq new'[e].execution_attempts
      BY <1>1, <2>1, ExecuteIs
    <3> QED BY <3>1, <3>2
  <2>2. CASE Attribute(e)
    <3>1. /\ new'[e].observations = new[e].observations
          /\ new'[e].execution_attempts = new[e].execution_attempts
      BY <1>1, <2>2, AttributionIs
    <3> QED BY <2>2, <3>1, AttributeCredits
  <2>3. CASE Appends(e)
    <3>1. /\ new'[e].attributions = new[e].attributions
          /\ new'[e].execution_attempts = new[e].execution_attempts
          /\ new[e].observations \subseteq new'[e].observations
      BY <1>1, <2>3, AppendsIs
    <3> QED BY <3>1
  <2>4. CASE Register(e) \/ AppendPrediction(e) \/ Decide(e) \/ Admit(e)
    <3>1. /\ new'[e].attributions = new[e].attributions
          /\ new'[e].execution_attempts = new[e].execution_attempts
          /\ new'[e].observations = new[e].observations
      BY <1>1, <2>4, RegisterIs, AppendPredictionIs, DecisionIs
    <3> QED BY <3>1
  <2> QED BY <2>1, <2>2, <2>3, <2>4 DEF Writes
<1> HIDE DEF V, W
<1>7. ASSUME NEW a \in W.attributions, a.status = "ATTRIBUTED"
      PROVE  \E x \in W.execution_attempts, o \in W.observations : Backs(x, o, a)'
  <2>1. Credit(V, a) BY <1>3, <1>4, <1>5, <1>6, <1>7
  <2>2. PICK x \in V.execution_attempts : \E o \in V.observations : Backs(x, o, a)
    BY <2>1 DEF Credit
  <2>3. PICK o \in V.observations : Backs(x, o, a) BY <2>2
  <2>4. Backs(x, o, a)' BY <1>1, <2>3, BacksKept
  <2> QED BY <1>3, <1>4, <1>6, <2>4
<1> QED BY <1>7 DEF CreditIn, Credit, Backs, W

LEMMA CreditStep ==
  ASSUME PipelineAssumption, IInv, CommandInv, LogInv, CreditInv, [Next]_vars
  PROVE  CreditInv'
<1>1. TypeInv /\ EventInv
  BY DEF IInv
<1>2. ASSUME NEW D \in Seen, NEW a \in D.attributions, a.status = "ATTRIBUTED"
      PROVE  \E x \in D.execution_attempts, o \in D.observations : Backs(x, o, a)'
  <2>1. CreditIn(D) BY DEF CreditInv, Seen
  <2>2. PICK x \in D.execution_attempts : \E o \in D.observations : Backs(x, o, a)
    BY <1>2, <2>1 DEF CreditIn, Credit
  <2>3. PICK o \in D.observations : Backs(x, o, a) BY <2>2
  <2>4. Backs(x, o, a)' BY <1>1, <2>3, BacksKept
  <2> QED BY <2>4
<1>3. CreditIn(db)'
  <2> DEFINE D == db'
  <2>1. D \in Seen BY ViewStep
  <2> HIDE DEF D
  <2>2. \A a \in D.attributions : a.status = "ATTRIBUTED" =>
          \E x \in D.execution_attempts, o \in D.observations : Backs(x, o, a)'
    BY <1>2, <2>1
  <2> QED BY <2>2 DEF CreditIn, Credit, Backs, D
<1>4. ASSUME NEW o \in Events PROVE CreditIn(View(o))'
  <2>1. CASE Writes(o) BY <2>1, WritesCredit
  <2>2. CASE \E D, E \in Seen : \A t \in Tables : View(o)'[t] = D[t] \cup E[t]
    <3> DEFINE W == View(o)'
    <3>1. PICK D \in Seen, E \in Seen : \A t \in Tables : W[t] = D[t] \cup E[t] BY <2>2
    <3> HIDE DEF W
    <3>2. /\ W.attributions = D.attributions \cup E.attributions
          /\ W.observations = D.observations \cup E.observations
          /\ W.execution_attempts = D.execution_attempts \cup E.execution_attempts
      BY <3>1 DEF Tables
    <3>3. \A a \in W.attributions : a.status = "ATTRIBUTED" =>
            \E x \in W.execution_attempts, r \in W.observations : Backs(x, r, a)'
      BY <1>2, <3>2
    <3> QED BY <3>3 DEF CreditIn, Credit, Backs, W
  <2> QED BY <2>1, <2>2, ViewStep
<1> QED BY <1>3, <1>4 DEF CreditInv

-----------------------------------------------------------------------------
(* What withholds an intervention *)

LEMMA WithheldKept ==
  ASSUME TypeInv, EventInv, [Next]_vars, NEW c, Withheld(c)
  PROVE  Withheld(c)'
BY EventStep DEF Withheld, TerminalsOfKey

LEMMA TreatedByGrows ==
  ASSUME NEW D, NEW E, D.commands \subseteq E.commands, NEW a, TreatedBy(D, a)
  PROVE  TreatedBy(E, a)
BY DEF TreatedBy

\* A treatment is of a command that was not withheld.
LEMMA AttributeTreats ==
  ASSUME PipelineAssumption, IInv, NEW e \in Events, Attribute(e)
  PROVE  \A a \in new'[e].attributions : a \in new[e].attributions \/ TreatedBy(db, a)
<1> DEFINE d == obs[e].decision
           t == obs[e].as_of
           c == CHOOSE x \in todo[e] : x.decision = d
           attempts == {x \in View(e).execution_attempts : x.decision = d /\ x.completed_at <= t}
<1>1. TypeInv /\ VersionInv /\ TaskInv /\ OwnedInv
  BY DEF IInv
<1>2. c \in todo[e] /\ c.decision = d
  BY <1>1, AttributeIs
<1>3. c \in db.commands
  BY <1>1, <1>2 DEF OwnedInv, OwnedOK
<1>4. CASE UNCHANGED new
  BY <1>4
<1>5. CASE ~UNCHANGED new
  <2>1. PICK o \in Latest({x \in ObservationsOf(e, d) : x.as_of <= t}) :
          \E status \in StatusesOf(TreatmentOf(c, attempts, o), o.outcome) :
             Insert(e, "attributions",
                    [decision |-> d, provider |-> c.provider,
                     version |-> MaxVersion(AttributionsOf(e, d)) + 1, as_of |-> t,
                     treatment |-> TreatmentOf(c, attempts, o), status |-> status])
    BY <1>5 DEF Attribute
  <2>2. PICK status :
             Insert(e, "attributions",
                    [decision |-> d, provider |-> c.provider,
                     version |-> MaxVersion(AttributionsOf(e, d)) + 1, as_of |-> t,
                     treatment |-> TreatmentOf(c, attempts, o), status |-> status])
    BY <2>1
  <2> DEFINE a == [decision |-> d, provider |-> c.provider,
                   version |-> MaxVersion(AttributionsOf(e, d)) + 1, as_of |-> t,
                   treatment |-> TreatmentOf(c, attempts, o), status |-> status]
  <2>3. new'[e].attributions = new[e].attributions \cup {a}
    BY <1>1, <2>2, InsertIs DEF TypeInv, Tables
  <2>4. a.decision = d /\ a.treatment = TreatmentOf(c, attempts, o)
    OBVIOUS
  <2> HIDE DEF a, c, d, attempts
  <2>5. TreatmentOf(c, attempts, o) = "TREATED" => c.status # "NOT_NEEDED"
    BY DEF TreatmentOf
  <2>6. TreatedBy(db, a) BY <1>2, <1>3, <2>4, <2>5 DEF TreatedBy
  <2> QED BY <2>3, <2>6
<1> QED BY <1>4, <1>5

LEMMA WritesWithheld ==
  ASSUME PipelineAssumption, IInv, WithheldInv, [Next]_vars, NEW e \in Events, Writes(e)
  PROVE  WithheldIn(View(e))'
<1> DEFINE V == View(e)
           W == View(e)'
<1>1. TypeInv /\ VersionInv /\ TaskInv /\ EventInv
  BY DEF IInv
<1>2. TypeInv' /\ UNCHANGED <<db, clock>>
  BY <1>1, TypeStep, WritesFrame
<1>3. /\ V.attributions = db.attributions \cup new[e].attributions
      /\ V.commands = db.commands \cup new[e].commands
  BY <1>1, ViewIs DEF TypeInv
<1>4. /\ W.attributions = db.attributions \cup new'[e].attributions
      /\ W.commands = db.commands \cup new'[e].commands
  BY <1>2, ViewIsNext DEF TypeInv
<1>5. /\ \A c \in V.commands : Withheld(c)
      /\ \A a \in V.attributions : TreatedBy(V, a)
  BY DEF WithheldInv, WithheldIn
<1>6. /\ new[e].commands \subseteq new'[e].commands
      /\ \A c \in new'[e].commands : c \in new[e].commands \/ Withheld(c)
      /\ \A a \in new'[e].attributions : a \in new[e].attributions \/ TreatedBy(db, a)
  <2> USE DEF Tables
  <2>1. CASE Execute(e)
    <3>1. PICK c \in CommandRow :
            LET id0 == <<AttemptOf[e], MaxVersion(DecisionsOf(e))>> IN
            /\ c.decision = id0 /\ c.provider = ProviderOf[e]
            /\ new'[e].commands = new[e].commands \cup {c}
            /\ \/ /\ c.status = "NOT_NEEDED" /\ c.updated_at = TEval(e)
                  /\ TerminalsOfKey(AttemptOf[e], TEval(e)) # {}
                  /\ new'[e].execution_attempts = new[e].execution_attempts
                  /\ dispatched' = dispatched
               \/ /\ c.status = "SUCCEEDED" /\ c.updated_at = TEval(e) + Duration
                  /\ \E x \in ExecutionRow :
                       /\ x.decision = id0 /\ x.provider = ProviderOf[e]
                       /\ x.completed_at = c.updated_at
                       /\ new'[e].execution_attempts = new[e].execution_attempts \cup {x}
                       /\ dispatched' = dispatched \cup {<<id0, now>>}
      BY <1>1, <2>1, ExecuteIs
    <3>2. new'[e].attributions = new[e].attributions BY <1>1, <2>1, ExecuteIs
    <3>3. Withheld(c)
      <4>1. CASE c.status = "SUCCEEDED" BY <4>1 DEF Withheld
      <4>2. CASE c.status # "SUCCEEDED"
        <5>1. c.updated_at = TEval(e) /\ c.decision[1] = AttemptOf[e] BY <3>1, <4>2
        <5>2. PICK f : f \in TerminalsOfKey(AttemptOf[e], TEval(e)) BY <3>1, <4>2
        <5>3. f \in payment_events BY <5>2 DEF TerminalsOfKey
        <5> QED BY <5>1, <5>2, <5>3 DEF Withheld
      <4> QED BY <4>1, <4>2
    <3> QED BY <3>1, <3>2, <3>3
  <2>2. CASE Attribute(e)
    <3>1. new'[e].commands = new[e].commands BY <1>1, <2>2, AttributionIs
    <3> QED BY <2>2, <3>1, AttributeTreats
  <2>3. CASE Appends(e)
    BY <1>1, <2>3, AppendsIs
  <2>4. CASE Register(e) \/ AppendPrediction(e) \/ Decide(e) \/ Admit(e)
    <3>1. /\ new'[e].attributions = new[e].attributions
          /\ new'[e].commands = new[e].commands
      BY <1>1, <2>4, RegisterIs, AppendPredictionIs, DecisionIs
    <3> QED BY <3>1
  <2> QED BY <2>1, <2>2, <2>3, <2>4 DEF Writes
<1> HIDE DEF V, W
<1>7. \A c \in W.commands : Withheld(c)'
  BY <1>1, <1>3, <1>4, <1>5, <1>6, WithheldKept
<1>8. \A a \in W.attributions : TreatedBy(W, a)
  <2>1. V.commands \subseteq W.commands /\ db.commands \subseteq W.commands
    BY <1>3, <1>4, <1>6
  <2>2. \A a \in V.attributions : TreatedBy(W, a) BY <1>5, <2>1, TreatedByGrows
  <2>3. \A a : TreatedBy(db, a) => TreatedBy(W, a) BY <2>1 DEF TreatedBy
  <2> QED BY <1>3, <1>4, <1>6, <2>2, <2>3
<1> QED BY <1>7, <1>8 DEF WithheldIn, Withheld, TreatedBy, W

LEMMA WithheldStep ==
  ASSUME PipelineAssumption, IInv, WithheldInv, [Next]_vars
  PROVE  WithheldInv'
<1>1. TypeInv /\ EventInv BY DEF IInv
<1>2. \A D \in Seen : WithheldIn(D) BY DEF WithheldInv, Seen
<1>3. \A D \in Seen : \A c \in D.commands : Withheld(c)'
  BY <1>1, <1>2, WithheldKept DEF WithheldIn
<1>4. WithheldIn(db)'
  <2> DEFINE D == db'
  <2>1. D \in Seen BY ViewStep
  <2> HIDE DEF D
  <2>2. (\A c \in D.commands : Withheld(c)') /\ \A a \in D.attributions : TreatedBy(D, a)
    BY <1>2, <1>3, <2>1 DEF WithheldIn
  <2> QED BY <2>2 DEF WithheldIn, Withheld, TreatedBy, D
<1>5. ASSUME NEW o \in Events PROVE WithheldIn(View(o))'
  <2>1. CASE Writes(o) BY <2>1, WritesWithheld
  <2>2. CASE \E D, E \in Seen : \A t \in Tables : View(o)'[t] = D[t] \cup E[t]
    <3> DEFINE W == View(o)'
    <3>1. PICK D \in Seen, E \in Seen : \A t \in Tables : W[t] = D[t] \cup E[t] BY <2>2
    <3> HIDE DEF W
    <3>2. /\ W.commands = D.commands \cup E.commands
          /\ W.attributions = D.attributions \cup E.attributions
      BY <3>1 DEF Tables
    <3>3. WithheldIn(D) /\ WithheldIn(E) BY <1>2
    <3>4. \A a \in W.attributions : TreatedBy(W, a)
      BY <3>2, <3>3, TreatedByGrows DEF WithheldIn
    <3>5. \A c \in W.commands : Withheld(c)' BY <1>3, <3>2
    <3> QED BY <3>4, <3>5 DEF WithheldIn, Withheld, TreatedBy, W
  <2> QED BY <2>1, <2>2, ViewStep
<1> QED BY <1>4, <1>5 DEF WithheldInv

-----------------------------------------------------------------------------
(* The events that decide *)

LEMMA MadeAre ==
  \A o : o \in Made <=>
    \/ o \in db.observations
    \/ \E e \in Events : o \in new[e].observations
    \/ \E e \in Events : pc[e] = "append" /\ o = obs[e]
BY DEF Made, Rows

\* Only Observe makes an observation.
LEMMA MadeStep ==
  ASSUME PipelineAssumption, IInv, [Next]_vars
  PROVE  \A o \in Made' : o \in Made \/ \E e \in Events : Observe(e) /\ o = obs'[e]
<1>1. TypeInv
  BY DEF IInv
<1>2. \A o : o \in Made' <=>
        \/ o \in db'.observations
        \/ \E e \in Events : o \in new'[e].observations
        \/ \E e \in Events : pc'[e] = "append" /\ o = obs'[e]
  BY DEF Made, Rows
<1>3. \A e \in Events : View(e).observations = db.observations \cup new[e].observations
  BY <1>1, ViewIs DEF TypeInv
<1>4. ASSUME db' = db \/ \E e \in Events : db' = View(e),
             \A e \in Events : \A o \in new'[e].observations :
               o \in new[e].observations \/ (pc[e] = "append" /\ o = obs[e]),
             \A e \in Events : pc'[e] = "append" =>
               (pc[e] = "append" /\ obs'[e] = obs[e]) \/ Observe(e)
      PROVE  \A o \in Made' : o \in Made \/ \E e \in Events : Observe(e) /\ o = obs'[e]
  <2>1. ASSUME NEW o \in db'.observations PROVE o \in Made
    BY <1>3, <1>4, <2>1, MadeAre
  <2>2. ASSUME NEW e \in Events, NEW o \in new'[e].observations PROVE o \in Made
    BY <1>4, <2>2, MadeAre
  <2>3. ASSUME NEW e \in Events, pc'[e] = "append" PROVE obs'[e] \in Made \/ Observe(e)
    BY <1>4, <2>3, MadeAre
  <2> QED BY <1>2, <2>1, <2>2, <2>3
<1>5. CASE UNCHANGED vars \/ Tick
  BY <1>4, <1>5, QuietSteps DEF vars, task, Tick
<1>6. CASE Crash
  <2>1. \A e \in Events : pc'[e] # "append"
    BY <1>1, <1>6 DEF Crash, TypeInv, Running, Labels
  <2> QED BY <1>1, <1>4, <1>6, <2>1, EndsIs, NoRowsType
<1>7. ASSUME NEW e \in Events, Aborts(e) \/ Commit(e)
      PROVE  \A o \in Made' : o \in Made \/ \E x \in Events : Observe(x) /\ o = obs'[x]
  <2>1. db' = db \/ db' = View(e) BY <1>1, <1>7, EndsIs
  <2>2. \A o \in Events : new'[o].observations \subseteq new[o].observations
    BY <1>1, <1>7, EndsIs, NoRowsType
  <2>3. \A o \in Events : pc'[o] = "append" => pc[o] = "append" /\ obs'[o] = obs[o]
    BY <1>1, <1>7, EndsIs
  <2> QED BY <1>4, <2>1, <2>2, <2>3
<1>8. ASSUME NEW e \in Events, Arrives(e) \/ Reads(e)
      PROVE  \A o \in Made' : o \in Made \/ \E x \in Events : Observe(x) /\ o = obs'[x]
  <2>1. UNCHANGED <<db, new>> /\ \A o \in Events : o # e => pc'[o] = pc[o] /\ obs'[o] = obs[o]
    BY <1>1, <1>8, QuietFrame
  <2>2. pc'[e] = "append" => Observe(e)
    BY <1>1, <1>8 DEF Arrives, Reads, Occur, Normalize, Ingest, Predict, Assess,
                      SelectCommands, Goto, TypeInv, AfterPrediction
  <2> QED BY <1>4, <2>1, <2>2
<1>9. ASSUME NEW e \in Events, Writes(e)
      PROVE  \A o \in Made' : o \in Made \/ \E x \in Events : Observe(x) /\ o = obs'[x]
  <2>1. db' = db /\ \A o \in Events : o # e =>
          new'[o] = new[o] /\ pc'[o] = pc[o] /\ obs'[o] = obs[o]
    BY <1>1, <1>9, WritesFrame
  <2>2. pc'[e] # "append"
    BY <1>1, <1>9 DEF Writes, Register, AppendPrediction, Decide, Admit, Execute, Appends,
                      Attribute, Goto, TypeInv, AfterPrediction
  <2>3. \A o \in new'[e].observations :
          o \in new[e].observations \/ (pc[e] = "append" /\ o = obs[e])
    <3>1. CASE Appends(e)
      <4>1. pc[e] = "append" BY <3>1 DEF Appends
      <4> QED BY <1>1, <3>1, <4>1, AppendsIs
    <3>2. CASE ~Appends(e)
      <4>1. new'[e].observations = new[e].observations
        BY <1>1, <1>9, <3>2, RegisterIs, AppendPredictionIs, DecisionIs, ExecuteIs,
           AttributionIs
        DEF Writes, Tables, IInv
      <4> QED BY <4>1
    <3> QED BY <3>1, <3>2
  <2> QED BY <1>4, <2>1, <2>2, <2>3
<1> QED BY <1>5, <1>6, <1>7, <1>8, <1>9, StepCases DEF Writes

\* What is made for a command has the provider of its key, and a version that is at most
\* the one after the committed ones.
LEMMA MadeOwned ==
  ASSUME IInv, LogInv, NEW o \in Made
  PROVE  /\ \E r \in Rows("payment_attempts") : r.attempt = o.decision[1] /\ r.provider = o.provider
         /\ o \in db.observations \/ Follows(o)
         /\ o.version \in Nat /\ o.as_of \in Nat
         /\ Observed(o)
<1>1. TypeInv /\ TaskInv /\ OwnedInv /\ OutcomeInv
  BY DEF IInv
<1>2. \A e \in Events :
        /\ View(e).payment_attempts = db.payment_attempts \cup new[e].payment_attempts
        /\ View(e).observations = db.observations \cup new[e].observations
  BY <1>1, ViewIs DEF TypeInv
<1>3. ASSUME NEW a, NEW p, Owner(db, a, p) \/ \E e \in Events : Owner(View(e), a, p)
      PROVE  \E r \in Rows("payment_attempts") : r.attempt = a /\ r.provider = p
  BY <1>2, <1>3, RowsAre DEF Owner
<1>4. CASE o \in db.observations
  <2>1. Owner(db, o.decision[1], o.provider) BY <1>1, <1>4 DEF OwnedInv, OwnedIn
  <2>2. o \in ObservationRow BY <1>1, <1>4 DEF TypeInv, Database
  <2>3. Observed(o) BY <1>1, <1>4, RowsAre DEF OutcomeInv
  <2> QED BY <1>3, <1>4, <2>1, <2>2, <2>3 DEF ObservationRow
<1>5. ASSUME NEW e \in Events, o \in new[e].observations
      PROVE  /\ Owner(View(e), o.decision[1], o.provider) /\ Follows(o)
             /\ o \in ObservationRow /\ Observed(o)
  <2>1. Owner(View(e), o.decision[1], o.provider)
    BY <1>1, <1>2, <1>5 DEF OwnedInv, OwnedOK, OwnedIn
  <2>2. Follows(o) BY <1>5 DEF LogInv, LogOK
  <2>3. o \in ObservationRow BY <1>1, <1>5 DEF TypeInv, Database
  <2>4. Observed(o) BY <1>1, <1>5, RowsAre DEF OutcomeInv
  <2> QED BY <2>1, <2>2, <2>3, <2>4
<1>6. ASSUME NEW e \in Events, pc[e] = "append", o = obs[e]
      PROVE  /\ Owner(db, o.decision[1], o.provider) /\ Follows(o)
             /\ o \in ObservationRow /\ Observed(o)
  <2>1. PICK c \in todo[e] : c.decision = o.decision /\ c.provider = o.provider
    BY <1>1, <1>6 DEF TaskInv, TaskOK
  <2>2. c \in db.commands BY <1>1 DEF OwnedInv, OwnedOK
  <2>3. Owner(db, o.decision[1], o.provider) BY <1>1, <2>1, <2>2 DEF OwnedInv, OwnedIn
  <2>4. Follows(o) BY <1>6 DEF LogInv, LogOK
  <2>5. o \in ObservationRow BY <1>1, <1>6 DEF TaskInv, TaskOK
  <2>6. Observed(o) BY <1>1, <1>6 DEF OutcomeInv
  <2> QED BY <2>3, <2>4, <2>5, <2>6
<1> QED BY <1>3, <1>4, <1>5, <1>6, MadeAre DEF ObservationRow

\* What is observed next is of an event stamped no later than those that decided before.
LEMMA ObserveMoves ==
  ASSUME PipelineAssumption, IInv, LogInv, NEW e \in Events, Observe(e), NEW o \in Made
  PROVE  MovesBack(o, obs'[e]) /\ MovesBack(obs'[e], o)
<1>1. TypeInv /\ VersionInv /\ RegistryInv /\ OwnedInv
  BY DEF IInv
<1>2. PICK c \in todo[e], n \in ObservationRow :
        /\ obs'[e] = n
        /\ n.decision = c.decision /\ n.provider = c.provider
        /\ n.version = MaxVersion(ObservationsOf(e, c.decision)) + 1
        /\ n.outcome # "UNKNOWN_IN_FLIGHT" =>
             \E g \in Terminals(n.provider, n.decision[1], n.as_of) :
               /\ Decides(g, n)
               /\ \A h \in Terminals(n.provider, n.decision[1], n.as_of) :
                    ingested_at[g] <= ingested_at[h]
  BY <1>1, ObserveOutcome
<1>3. PICK r \in Rows("payment_attempts") : r.attempt = o.decision[1] /\ r.provider = o.provider
  BY MadeOwned
<1>4. \E q \in Rows("payment_attempts") : q.attempt = n.decision[1] /\ q.provider = n.provider
  <2>1. c \in db.commands BY <1>1 DEF OwnedInv, OwnedOK
  <2>2. Owner(db, n.decision[1], n.provider) BY <1>1, <1>2, <2>1 DEF OwnedInv, OwnedIn
  <2> QED BY <2>2, RowsAre DEF Owner
<1>5. o.decision = n.decision => o.provider = n.provider
  BY <1>1, <1>3, <1>4 DEF RegistryInv
<1>6. MovesBack(o, n)
  <2>1. SUFFICES ASSUME o.decision = n.decision,
                        o.outcome # "UNKNOWN_IN_FLIGHT", n.outcome # "UNKNOWN_IN_FLIGHT"
        PROVE  \E f, g \in payment_events :
                 Decides(f, o) /\ Decides(g, n) /\ ingested_at[g] <= ingested_at[f]
    BY DEF MovesBack
  <2>2. PICK f \in payment_events : Decides(f, o)
    BY <2>1, MadeOwned DEF Observed
  <2>3. PICK g \in Terminals(n.provider, n.decision[1], n.as_of) :
          /\ Decides(g, n)
          /\ \A h \in Terminals(n.provider, n.decision[1], n.as_of) :
               ingested_at[g] <= ingested_at[h]
    BY <1>2, <2>1
  <2>4. g \in payment_events /\ ingested_at[g] <= n.as_of
    BY <2>3 DEF Terminals, TerminalsOfKey
  <2>5. ingested_at[f] \in Nat /\ ingested_at[g] \in Nat /\ n.as_of \in Nat
    BY <1>1, <2>2, <2>4 DEF TypeInv, ObservationRow
  <2>6. CASE ingested_at[f] <= n.as_of
    <3>1. f \in Terminals(n.provider, n.decision[1], n.as_of)
      BY <1>5, <2>1, <2>2, <2>6 DEF Decides, Terminals, TerminalsOfKey
    <3> QED BY <2>2, <2>3, <2>4, <3>1
  <2>7. CASE ~(ingested_at[f] <= n.as_of)
    <3>1. ingested_at[g] <= ingested_at[f] BY <2>4, <2>5, <2>7
    <3> QED BY <2>2, <2>3, <2>4, <3>1
  <2> QED BY <2>6, <2>7
<1>7. MovesBack(n, o)
  <2> DEFINE R == ObservationsOf(e, c.decision)
             m == MaxVersion(R)
  <2>1. SUFFICES ASSUME n.decision = o.decision PROVE ~(n.version < o.version)
    BY DEF MovesBack
  <2>2. m \in Nat /\ \A q \in R : q.version <= m
    BY <1>1, VersionsOf, MaxVersionIs
  <2>3. \A q \in db.observations : q.decision = c.decision => q \in R
    <3>1. View(e).observations = db.observations \cup new[e].observations
      BY <1>1, ViewIs DEF TypeInv
    <3> QED BY <3>1 DEF ObservationsOf
  <2>4. n.version = m + 1 BY <1>2
  <2> HIDE DEF R, m
  <2>5. o.version \in Nat /\ (o \in db.observations \/ Follows(o)) BY MadeOwned
  <2>6. CASE o \in db.observations
    <3>1. o.version <= m BY <1>2, <2>1, <2>2, <2>3, <2>6
    <3> QED BY <2>2, <2>4, <2>5, <3>1
  <2>7. CASE Follows(o)
    <3>1. CASE o.version = 1 BY <2>2, <2>4, <3>1
    <3>2. CASE o.version # 1
      <4>1. PICK q \in db.observations : q.decision = o.decision /\ q.version = o.version - 1
        BY <2>7, <3>2 DEF Follows
      <4>2. o.version - 1 <= m BY <1>2, <2>1, <2>2, <2>3, <4>1
      <4> QED BY <2>2, <2>4, <2>5, <4>2
    <3> QED BY <3>1, <3>2
  <2> QED BY <2>5, <2>6, <2>7
<1> QED BY <1>2, <1>6, <1>7

LEMMA MovesBackKept ==
  ASSUME TypeInv, EventInv, [Next]_vars, NEW o, NEW p, MovesBack(o, p)
  PROVE  MovesBack(o, p)'
<1>1. SUFFICES ASSUME o.decision = p.decision /\ o.version < p.version,
                      "UNKNOWN_IN_FLIGHT" \notin {o.outcome, p.outcome}
      PROVE  (\E f, g \in payment_events :
                Decides(f, o) /\ Decides(g, p) /\ ingested_at[g] <= ingested_at[f])'
  BY DEF MovesBack
<1>2. PICK f \in payment_events, g \in payment_events :
        Decides(f, o) /\ Decides(g, p) /\ ingested_at[g] <= ingested_at[f]
  BY <1>1 DEF MovesBack
<1>3. /\ f \in payment_events' /\ Decides(f, o)' /\ g \in payment_events' /\ Decides(g, p)'
      /\ ingested_at'[g] <= ingested_at'[f]
  BY <1>2, DecidesKept, EventStep
<1> QED BY <1>3

LEMMA MovesStep ==
  ASSUME PipelineAssumption, IInv, LogInv, MovesInv, [Next]_vars
  PROVE  MovesInv'
<1>1. TypeInv /\ EventInv
  BY DEF IInv
<1>2. ASSUME NEW o \in Made', NEW p \in Made' PROVE MovesBack(o, p)
  <2>1. \A x \in Made' : x \in Made \/ \E e \in Events : Observe(e) /\ x = obs'[e]
    BY MadeStep
  <2>2. CASE o \in Made /\ p \in Made BY <2>2 DEF MovesInv
  <2>3. ASSUME NEW e \in Events, Observe(e), p = obs'[e], o \in Made PROVE MovesBack(o, p)
    BY <2>3, ObserveMoves
  <2>4. ASSUME NEW e \in Events, Observe(e), o = obs'[e], p \in Made PROVE MovesBack(o, p)
    BY <2>4, ObserveMoves
  <2>5. ASSUME NEW e \in Events, Observe(e), o = obs'[e],
               NEW x \in Events, Observe(x), p = obs'[x], o \notin Made, p \notin Made
        PROVE  MovesBack(o, p)
    <3>1. UNCHANGED <<db, new>> /\ \A y \in Events : y # e => pc'[y] = pc[y] /\ obs'[y] = obs[y]
      BY <1>1, <2>5, QuietFrame DEF Reads
    <3>2. pc[x] = "next" /\ pc'[x] = "append"
      BY <1>1, <2>5 DEF Observe, Goto, TypeInv
    <3>3. x = e BY <3>1, <3>2
    <3>4. o.version \in Nat
      BY <1>1, <2>5, ObserveOutcome DEF IInv, ObservationRow
    <3> QED BY <2>5, <3>3, <3>4 DEF MovesBack
  <2> QED BY <2>1, <2>2, <2>3, <2>4, <2>5
<1>3. ASSUME NEW o \in Made', NEW p \in Made' PROVE MovesBack(o, p)'
  BY <1>1, <1>2, <1>3, MovesBackKept
<1> QED BY <1>3 DEF MovesInv, MovesBack, Decides, TerminalsOfKey

-----------------------------------------------------------------------------
(* Theorems *)

CreditIInv ==
  /\ IInv /\ CommandInv /\ RiskInv /\ StampInv /\ JustifiedInv /\ LogInv /\ CreditInv
  /\ WithheldInv /\ MovesInv

LEMMA InitCredit == Init => CreditIInv
<1> SUFFICES ASSUME Init PROVE CreditIInv
  OBVIOUS
<1>1. IInv
  BY InitInv
<1>2. db = NoRows /\ \A e \in Events : new[e] = NoRows /\ pc[e] = "none"
  BY DEF Init, Starting
<1>3. ASSUME NEW e \in Events
      PROVE  /\ View(e).execution_attempts = {} /\ View(e).attributions = {}
             /\ View(e).commands = {}
  BY <1>1, <1>2, ViewIs, NoRowsType DEF IInv, TypeInv
<1>4. CommandInv
  BY <1>2, NoRowsType DEF CommandInv, CommandOK
<1>5. RiskInv
  BY <1>2 DEF RiskInv, RiskOK
<1>6. JustifiedInv
  BY <1>2, <1>3, NoRowsType DEF JustifiedInv, JustifiedIn
<1>7. LogInv
  BY <1>2, NoRowsType DEF LogInv, LogOK
<1>8. CreditInv
  BY <1>2, <1>3, NoRowsType DEF CreditInv, CreditIn
<1>9. StampInv
  BY DEF Init, Starting, StampInv
<1>10. WithheldInv
  BY <1>2, <1>3, NoRowsType DEF WithheldInv, WithheldIn
<1>11. MovesInv
  <2>1. Made = {} BY <1>2, MadeAre, NoRowsType
  <2> QED BY <2>1 DEF MovesInv
<1> QED BY <1>1, <1>4, <1>5, <1>6, <1>7, <1>8, <1>9, <1>10, <1>11 DEF CreditIInv

LEMMA StepCredit == ASSUME PipelineAssumption, CreditIInv, [Next]_vars PROVE CreditIInv'
<1>1. /\ IInv /\ CommandInv /\ RiskInv /\ StampInv /\ JustifiedInv /\ LogInv /\ CreditInv
      /\ WithheldInv /\ MovesInv
  BY DEF CreditIInv
<1>2. IInv' BY <1>1, StepInv
<1>3. CommandInv' BY <1>1, CommandStep
<1>4. RiskInv' BY <1>1, RiskStep
<1>5. StampInv' BY <1>1, StampStep
<1>6. JustifiedInv' BY <1>1, JustifiedStep
<1>7. LogInv' BY <1>1, LogStep
<1>8. CreditInv' BY <1>1, CreditStep
<1>9. WithheldInv' BY <1>1, WithheldStep
<1>10. MovesInv' BY <1>1, MovesStep
<1> QED BY <1>2, <1>3, <1>4, <1>5, <1>6, <1>7, <1>8, <1>9, <1>10 DEF CreditIInv

LEMMA CreditInvariant == Spec => []CreditIInv
<1>1. Init => CreditIInv BY InitCredit
<1>2. CreditIInv /\ [Next]_vars => CreditIInv' BY StepCredit, PipelineAssumption
<1> QED BY <1>1, <1>2, PTL DEF Spec

\* README, section 12: every credit points to the prediction, the decision, the succeeded
\* command and its execution attempt, the call of the executor and the capture that justify
\* it, for any number of tasks and any clock.  The capture is no older than the completion
\* on record, and the record no later than the call and its duration.
THEOREM CreditAlwaysJustified == Spec => []CreditJustified
<1>1. ASSUME CreditIInv PROVE CreditJustified
  <2>1. SUFFICES ASSUME NEW a \in db.attributions, a.status = "ATTRIBUTED"
        PROVE  /\ \E d \in db.decisions, p \in db.predictions :
                    /\ <<d.attempt, d.version>> = a.decision /\ d.type = "ACT"
                    /\ p.attempt = d.attempt /\ p.probability = "high"
                    /\ p.predicted_at <= d.decided_at
               /\ \E c \in db.commands, x \in db.execution_attempts :
                    /\ c.decision = a.decision /\ c.status = "SUCCEEDED"
                    /\ x.decision = a.decision /\ x.completed_at = c.updated_at
                    /\ \E t \in 0..now :
                         <<a.decision, t>> \in dispatched /\ x.completed_at <= t + Duration
                    /\ \E o \in db.observations, f \in payment_events :
                         /\ o.decision = a.decision /\ o.provider = a.provider
                         /\ o.as_of = a.as_of /\ o.outcome = "CAPTURED"
                         /\ Decides(f, o) /\ occurred[f] >= x.completed_at
    BY DEF CreditJustified
  <2>2. CreditIn(db) /\ JustifiedIn(db) BY <1>1 DEF CreditIInv, CreditInv, JustifiedInv
  <2>3. PICK x \in db.execution_attempts : \E o \in db.observations : Backs(x, o, a)
    BY <2>1, <2>2 DEF CreditIn, Credit
  <2>4. PICK o \in db.observations : Backs(x, o, a) BY <2>3
  <2>5. x.decision = a.decision BY <2>4 DEF Backs
  <2>6. Acted(db, a.decision) /\ Succeeded(db, x) /\ Called(x)
    BY <2>2, <2>5 DEF JustifiedIn
  <2>7. \E d \in db.decisions, p \in db.predictions :
          /\ <<d.attempt, d.version>> = a.decision /\ d.type = "ACT"
          /\ p.attempt = d.attempt /\ p.probability = "high" /\ p.predicted_at <= d.decided_at
    BY <2>6 DEF Acted, HighIn
  <2>8. PICK c \in db.commands :
          c.decision = x.decision /\ c.status = "SUCCEEDED" /\ c.updated_at = x.completed_at
    BY <2>6 DEF Succeeded
  <2>9. \E t \in 0..now : <<a.decision, t>> \in dispatched /\ x.completed_at <= t + Duration
    BY <2>5, <2>6 DEF Called
  <2>10. \E f \in payment_events :
           /\ o.decision = a.decision /\ o.provider = a.provider
           /\ o.as_of = a.as_of /\ o.outcome = "CAPTURED"
           /\ Decides(f, o) /\ occurred[f] >= x.completed_at
    BY <2>4 DEF Backs
  <2> QED BY <2>5, <2>7, <2>8, <2>9, <2>10
<1>2. CreditIInv => CreditJustified BY <1>1
<1> QED BY <1>2, CreditInvariant, PTL

\* ObservationRepository: a later version of an outcome is of an event that is stamped no
\* later than the one before, in whatever order events are committed and tasks observe.
THEOREM DecidingEventAlwaysMovesBack == Spec => []DecidingEventMovesBack
<1>1. ASSUME CreditIInv PROVE DecidingEventMovesBack
  <2>1. \A o, p \in db.observations : MovesBack(o, p)
    BY <1>1, MadeAre DEF CreditIInv, MovesInv
  <2> QED BY <2>1 DEF DecidingEventMovesBack, MovesBack
<1>2. CreditIInv => DecidingEventMovesBack BY <1>1
<1> QED BY <1>2, CreditInvariant, PTL

\* A decision has one command, committed or not.
LEMMA CommandsUnique ==
  ASSUME IInv, CommandInv, NEW c \in Rows("commands"), NEW k \in Rows("commands"),
         c.decision = k.decision
  PROVE  c = k
<1>1. TypeInv /\ VersionInv /\ LockInv /\ MineInv /\ FreshInv
  BY DEF IInv
<1>2. \A e \in Events : \A x \in new[e].commands : Decided(new[e].decisions, x.decision)
  BY DEF CommandInv, CommandOK
<1>3. ASSUME NEW e \in Events, NEW d \in new[e].decisions, NEW q,
             <<d.attempt, d.version>> = <<q.attempt, q.version>>
      PROVE  q \notin db.decisions /\ \A f \in Events : f # e => q \notin new[f].decisions
  <2>1. d.version \in Nat BY <1>1 DEF VersionInv, Versioned
  <2>2. q \notin db.decisions BY <1>1, <1>3, <2>1 DEF FreshInv, FreshOK
  <2>3. \A f \in Events : f # e => q \notin new[f].decisions BY <1>1, <1>3, Exclusive
  <2> QED BY <2>2, <2>3
<1>4. ASSUME NEW e \in Events, NEW x \in new[e].commands, NEW y,
             y.decision = x.decision
      PROVE  y \notin db.commands /\ \A f \in Events : f # e => y \notin new[f].commands
  <2>1. PICK d \in new[e].decisions : <<d.attempt, d.version>> = x.decision
    BY <1>2 DEF Decided
  <2>2. y \notin db.commands
    <3>1. y \in db.commands => \E q \in db.decisions : <<q.attempt, q.version>> = y.decision
      BY DEF CommandInv, Decided
    <3> QED BY <1>3, <1>4, <2>1, <3>1
  <2>3. ASSUME NEW f \in Events, f # e PROVE y \notin new[f].commands
    <3>1. y \in new[f].commands => \E q \in new[f].decisions : <<q.attempt, q.version>> = y.decision
      BY <1>2 DEF Decided
    <3> QED BY <1>3, <1>4, <2>1, <2>3, <3>1
  <2> QED BY <2>2, <2>3
<1>5. CASE c \in db.commands /\ k \in db.commands
  BY <1>5 DEF CommandInv
<1>6. ASSUME NEW e \in Events, c \in new[e].commands PROVE c = k
  <2>1. k \in new[e].commands BY <1>4, <1>6, RowsAre
  <2> QED BY <1>6, <2>1 DEF CommandInv, CommandOK
<1>7. ASSUME NEW e \in Events, k \in new[e].commands PROVE c = k
  <2>1. c \in new[e].commands BY <1>4, <1>7, RowsAre
  <2> QED BY <1>7, <2>1 DEF CommandInv, CommandOK
<1> QED BY <1>5, <1>6, <1>7, RowsAre

\* payment_attempts.py: a key registered under one provider is never merged with another
\* provider's events, in any row and in any outcome; another's event can only withhold the
\* intervention.
THEOREM ProvidersAlwaysKept == Spec => []ProvidersKept
<1>1. ASSUME CreditIInv PROVE ProvidersKept
  <2> DEFINE Owned(a, p) == \E r \in Rows("payment_attempts") :
               r.attempt = a /\ r.provider = p /\ ProviderOf[r.trigger] = p
  <2>1. TypeInv /\ RegistryInv /\ OwnedInv /\ OutcomeInv BY <1>1 DEF CreditIInv, IInv
  <2>2. ASSUME NEW a, NEW p, Owner(db, a, p) \/ \E e \in Events : Owner(View(e), a, p)
        PROVE  Owned(a, p)
    <3>1. \A e \in Events :
            View(e).payment_attempts = db.payment_attempts \cup new[e].payment_attempts
      BY <2>1, ViewIs DEF TypeInv
    <3>2. PICK r \in Rows("payment_attempts") : r.attempt = a /\ r.provider = p
      BY <2>2, <3>1, RowsAre DEF Owner
    <3> QED BY <2>1, <3>2 DEF RegistryInv
  <2>3. OwnedIn(db) /\ \A e \in Events : OwnedIn(View(e))
    BY <2>1 DEF OwnedInv, OwnedOK
  <2>4. \A e \in Events :
          /\ new[e].predictions \subseteq View(e).predictions
          /\ new[e].decisions \subseteq View(e).decisions
          /\ new[e].commands \subseteq View(e).commands
          /\ new[e].execution_attempts \subseteq View(e).execution_attempts
          /\ new[e].observations \subseteq View(e).observations
          /\ new[e].attributions \subseteq View(e).attributions
    BY <2>1, ViewIs DEF TypeInv
  <2> HIDE DEF Owned
  <2>5. \A r \in Rows("predictions") \cup Rows("decisions") : Owned(r.attempt, r.provider)
    BY <2>2, <2>3, <2>4, RowsAre DEF OwnedIn
  <2>6. /\ \A r \in Rows("commands") : Owned(r.decision[1], r.provider)
        /\ \A r \in Rows("execution_attempts") : Owned(r.decision[1], r.provider)
    BY <2>2, <2>3, <2>4, RowsAre DEF OwnedIn
  <2>7. /\ \A r \in Rows("observations") : Owned(r.decision[1], r.provider)
        /\ \A r \in Rows("attributions") : Owned(r.decision[1], r.provider)
    BY <2>2, <2>3, <2>4, RowsAre DEF OwnedIn
  <2>8. \A o \in Rows("observations") : o.outcome # "UNKNOWN_IN_FLIGHT" =>
          \E f \in payment_events : Decides(f, o)
    BY <2>1 DEF OutcomeInv, Observed
  <2>9. ASSUME NEW c \in Rows("commands"), c.status = "NOT_NEEDED"
        PROVE  /\ TerminalsOfKey(c.decision[1], c.updated_at) # {}
               /\ \A x \in Rows("execution_attempts") : x.decision # c.decision
               /\ \A a \in Rows("attributions") : a.decision = c.decision => a.treatment = "UNTREATED"
    <3>1. WithheldIn(db) /\ \A e \in Events : WithheldIn(View(e))
      BY <1>1 DEF CreditIInv, WithheldInv
    <3>2. JustifiedIn(db) /\ \A e \in Events : JustifiedIn(View(e))
      BY <1>1 DEF CreditIInv, JustifiedInv
    <3>3. \A e \in Events : \A x \in View(e).commands : x \in Rows("commands")
      <4>1. \A e \in Events : View(e).commands = db.commands \cup new[e].commands
        BY <2>1, ViewIs DEF TypeInv
      <4> QED BY <4>1, RowsAre
    <3>4. \A k \in Rows("commands") : k.decision = c.decision => k = c
      BY <1>1, CommandsUnique DEF CreditIInv
    <3>5. Withheld(c)
      BY <2>4, <3>1, RowsAre DEF WithheldIn
    <3>6. TerminalsOfKey(c.decision[1], c.updated_at) # {}
      BY <2>9, <3>5 DEF Withheld
    <3>7. ASSUME NEW x \in Rows("execution_attempts"), x.decision = c.decision PROVE FALSE
      <4>1. Succeeded(db, x) \/ \E e \in Events : Succeeded(View(e), x)
        BY <2>4, <3>2, RowsAre DEF JustifiedIn
      <4>2. PICK k \in Rows("commands") : k.decision = x.decision /\ k.status = "SUCCEEDED"
        BY <3>3, <4>1, RowsAre DEF Succeeded
      <4> QED BY <2>9, <3>4, <3>7, <4>2
    <3>8. ASSUME NEW a \in Rows("attributions"), a.decision = c.decision
          PROVE  a.treatment = "UNTREATED"
      <4>1. TreatedBy(db, a) \/ \E e \in Events : TreatedBy(View(e), a)
        BY <2>4, <3>1, RowsAre DEF WithheldIn
      <4>2. a.treatment \in {"TREATED", "UNTREATED"}
        BY <2>1, RowsAre DEF TypeInv, Database, AttributionRow
      <4>3. a.treatment = "TREATED" =>
              \E k \in Rows("commands") : k.decision = a.decision /\ k.status # "NOT_NEEDED"
        BY <3>3, <4>1, RowsAre DEF TreatedBy
      <4> QED BY <2>9, <3>4, <3>8, <4>2, <4>3
    <3> QED BY <3>6, <3>7, <3>8
  <2> QED BY <2>5, <2>6, <2>7, <2>8, <2>9 DEF ProvidersKept, Owned
<1>2. CreditIInv => ProvidersKept BY <1>1
<1> QED BY <1>2, CreditInvariant, PTL
==============================================================================
