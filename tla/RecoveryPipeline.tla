-------------------------- MODULE RecoveryPipeline ---------------------------
(***************************************************************************)
(* Stages 5 to 8 of live_pipeline: what happens to a payment attempt from  *)
(* its trigger event to the attribution of its outcome.                    *)
(*                                                                         *)
(* Every event that Ingestion stores starts one background task, which     *)
(* runs in one transaction: it commits at its end or is rolled back.  The  *)
(* task of a trigger event registers the attempt, predicts, decides, and   *)
(* creates and executes a command; that of a terminal event observes and   *)
(* attributes every command of its attempt.  Tasks interleave at every     *)
(* await, may start arbitrarily late, and see committed rows only, while   *)
(* the times they reason with are those of their event (t_eval).  Waits    *)
(* are for advisory locks and for uncommitted rows with an equal unique    *)
(* key; PostgreSQL aborts a transaction of a deadlock.                     *)
(*                                                                         *)
(* Execution models commands with several workers, Ingestion the intake;   *)
(* here the executor is the simulator in the mode the pipeline gives it    *)
(* (ALWAYS_SUCCEED) and a command lives in the transaction that creates    *)
(* it.  Provider and process read one clock, `now'.  An attempt is a key:  *)
(* events of two providers may name it, and the registry gives it to one.  *)
(***************************************************************************)
EXTENDS Naturals, FiniteSets

CONSTANTS
  Attempts,    \* payment attempts, by their keys
  Events,      \* canonical events with a Stage 5-8 role
  AttemptOf,   \* the attempt of each event
  ProviderOf,  \* its source_system
  KindOf,      \* TRIGGER or the type of a terminal event
  Routes,      \* intervention routes of the policy
  Cooldown,    \* cooldown_seconds of a route
  Minute,      \* the window of the global rate limit
  Limit,       \* global_rate_limit_per_minute
  Duration,    \* simulated_duration_ms
  MaxTime,     \* bound on the clock
  MaxFaults    \* bound: failures of a task and crashes of the process

TerminalTypes == {"payment.captured", "payment.failed"}
Kinds == {"TRIGGER"} \cup TerminalTypes
Providers == {"razorpay", "synthetic", "paypal"}

ASSUME PipelineAssumption ==
  /\ AttemptOf \in [Events -> Attempts]
  /\ ProviderOf \in [Events -> Providers]
  /\ KindOf \in [Events -> Kinds]
  \* A key in PayPal's namespace names PayPal's orders, and nothing else.
  /\ \A e, f \in Events : AttemptOf[e] = AttemptOf[f] =>
       (ProviderOf[e] = "paypal" <=> ProviderOf[f] = "paypal")
  /\ "none" \notin Routes
  /\ {Cooldown, Minute, Limit, Duration, MaxTime, MaxFaults} \subseteq Nat

VARIABLES
  now,             \* the clock
  occurred,        \* timestamp of each event, the provider's
  ingested_at,     \* its ingested_at, stamped by normalization
  payment_events,  \* table: the events of Stage 1
  db,              \* the tables of Stages 5 to 8
  new,             \* the uncommitted rows of each task
  held,            \* the advisory transaction locks of each task
  pc,              \* the life of an event, then of its task
  noted,           \* what a trigger task has concluded so far
  todo,            \* the commands a terminal task has yet to resolve
  obs,             \* the observation it is about to append
  dispatched,      \* history: executor calls <<decision, time>>, kept or rolled back
  faults           \* history: failures of a task and crashes of the process

clock   == <<now, occurred, ingested_at, payment_events>>
task    == <<new, held, pc, noted, todo, obs>>
history == <<dispatched, faults>>
vars    == <<clock, db, task, history>>

-----------------------------------------------------------------------------
(* Rows, each with its source_system.  A decision is named by              *)
(* <<attempt, version>>, and so is its command.                            *)

NoRows ==
  [payment_attempts   |-> {},  \* [attempt, provider, trigger]
   predictions        |-> {},  \* [attempt, provider, version, predicted_at, probability]
   decisions          |-> {},  \* [attempt, provider, version, decided_at, type, route]; type
                               \* NO_ACTION stands for MONITOR too: neither makes a command
   commands           |-> {},  \* [decision, provider, status, updated_at]
   execution_attempts |-> {},  \* [decision, provider, completed_at]
   observations       |-> {},  \* [decision, provider, version, as_of, outcome, timestamp]
   attributions       |-> {}]  \* [decision, provider, version, as_of, treatment, status]

\* "none" is a prediction without a probability, "high" one above 0.5.
Probabilities == {"none", "low", "high"}

NoObservation ==
  [decision |-> <<>>, provider |-> "none", version |-> 0, as_of |-> 0,
   outcome |-> "UNKNOWN_IN_FLIGHT", timestamp |-> 0]

Labels ==
  {"none", "occurred", "normalized", "scheduled", "done", "failed", "lost"}
  \cup {"predict", "allocate", "assess", "decide", "admit", "execute", "commit"}
  \cup {"next", "append", "attribute"}
Running ==
  Labels \ {"none", "occurred", "normalized", "done", "failed", "lost"}

Trigger(e)  == KindOf[e] = "TRIGGER"
Terminal(e) == KindOf[e] \in TerminalTypes

\* What a SELECT of the task returns: committed rows and its own.
View(e) == [t \in DOMAIN NoRows |-> db[t] \cup new[e][t]]

MaxVersion(R) ==
  CHOOSE n \in {0} \cup {r.version : r \in R} : \A r \in R : r.version <= n
Latest(R) == {r \in R : r.version = MaxVersion(R)}

\* Rows of the event's attempt, under its provider
Mine(e, r) == r.attempt = AttemptOf[e] /\ r.provider = ProviderOf[e]
PredictionsOf(e) == {p \in View(e).predictions : Mine(e, p)}
DecisionsOf(e)   == {d \in View(e).decisions : Mine(e, d)}

\* t_eval: an event is ingested after it occurred.
TEval(e) == ingested_at[e]

\* Terminal events of a key that are committed and ingested at or before t: whose they
\* are is not asked.
TerminalsOfKey(a, t) ==
  {f \in payment_events : Terminal(f) /\ AttemptOf[f] = a /\ ingested_at[f] <= t}

\* Mutated form of Terminals: by the key alone.
TerminalsAnyProvider(p, a, t) == TerminalsOfKey(a, t)

\* Those of one provider
Terminals(p, a, t) == {f \in TerminalsOfKey(a, t) : ProviderOf[f] = p}
IngestedBefore(p, a, t) == \E f \in Terminals(p, a, t) : ingested_at[f] < t

Insert(e, table, r) == new' = [new EXCEPT ![e][table] = @ \cup {r}]
Goto(e, label)      == pc' = [pc EXCEPT ![e] = label]
Note(e, x)          == noted' = [noted EXCEPT ![e] = x]

-----------------------------------------------------------------------------
(* Waiting *)

AttemptLock(a)     == <<"attempt", a, 0>>
RateLock           == <<"rate", "all", 0>>
AttributionLock(d) == <<"attribution", d[1], d[2]>>

\* Mutated form of Wanted: no version allocation lock.
WantedNoVersion(e) ==
  CASE pc[e] = "admit"     -> {RateLock}
    [] pc[e] = "attribute" -> {AttributionLock(obs[e].decision)}
    [] OTHER               -> {}

\* The advisory locks that the next statement of a task acquires.
Wanted(e) ==
  CASE pc[e] \in {"allocate", "decide"} -> {AttemptLock(AttemptOf[e])}
    [] pc[e] = "admit"                  -> {RateLock}
    [] pc[e] = "attribute"              -> {AttributionLock(obs[e].decision)}
    [] OTHER                            -> {}

\* Both unique keys of an observation: (command, version) and (command, as_of).
SameKey(o, p) ==
  /\ o.decision = p.decision
  /\ o.version = p.version \/ o.as_of = p.as_of

\* The next statement of e inserts a key that o has inserted and not committed.
InsertWaits(e, o) ==
  \/ /\ pc[e] = "scheduled" /\ Trigger(e)
     /\ \E r \in new[o].payment_attempts : r.attempt = AttemptOf[e]
  \/ /\ pc[e] = "append"
     /\ \E r \in new[o].observations : SameKey(r, obs[e])

WaitsFor(e, o) == e # o /\ (Wanted(e) \cap held[o] # {} \/ InsertWaits(e, o))
Free(e) == \A o \in Events : ~WaitsFor(e, o)

\* The transactions in a cycle of waits
Deadlocked(e) ==
  /\ ~Free(e)
  /\ \E S \in SUBSET {x \in Events : ~Free(x)} :
    /\ e \in S
    /\ \A x \in S : (\E y \in S : WaitsFor(x, y)) /\ (\E y \in S : WaitsFor(y, x))

Acquire(e) == held' = [held EXCEPT ![e] = @ \cup Wanted(e)]

\* The end of a transaction: its locks and uncommitted rows are gone.
EndTransaction(e, label) ==
  /\ new' = [new EXCEPT ![e] = NoRows]
  /\ held' = [held EXCEPT ![e] = {}]
  /\ Note(e, "none")
  /\ todo' = [todo EXCEPT ![e] = {}]
  /\ obs' = [obs EXCEPT ![e] = NoObservation]
  /\ Goto(e, label)

-----------------------------------------------------------------------------
(* Events: the provider, and Stage 1.  A payment is authorized before its  *)
(* outcome, and captured once; a declined capture may be retried.          *)

Tick ==
  /\ now < MaxTime
  /\ now' = now + 1
  /\ UNCHANGED <<occurred, ingested_at, payment_events, db, task, history>>

Happened(kind, p, a) ==
  \E f \in Events :
    AttemptOf[f] = a /\ ProviderOf[f] = p /\ KindOf[f] = kind /\ pc[f] # "none"

Occur(e) ==
  /\ pc[e] = "none"
  /\ Terminal(e) => /\ Happened("TRIGGER", ProviderOf[e], AttemptOf[e])
                    /\ ~Happened("payment.captured", ProviderOf[e], AttemptOf[e])
  /\ occurred' = [occurred EXCEPT ![e] = now]
  /\ Goto(e, "occurred")
  /\ UNCHANGED <<now, ingested_at, payment_events, db, new, held, noted, todo, obs, history>>

\* A delivery is normalized, ...
Normalize(e) ==
  /\ pc[e] = "occurred"
  /\ ingested_at' = [ingested_at EXCEPT ![e] = now]
  /\ Goto(e, "normalized")
  /\ UNCHANGED <<now, occurred, payment_events, db, new, held, noted, todo, obs, history>>

\* ... and later stored; its task is scheduled.
Ingest(e) ==
  /\ pc[e] = "normalized"
  /\ payment_events' = payment_events \cup {e}
  /\ Goto(e, "scheduled")
  /\ UNCHANGED <<now, occurred, ingested_at, db, new, held, noted, todo, obs, history>>

-----------------------------------------------------------------------------
(* The task of a trigger event *)

Registrations(e) == {r \in db.payment_attempts : r.attempt = AttemptOf[e]}

\* INSERT ... ON CONFLICT DO NOTHING: an attempt keeps its first trigger.  One that is
\* another provider's (AttemptProviderConflictError) leaves the task without an attempt.
Register(e) ==
  /\ pc[e] = "scheduled" /\ Trigger(e)
  /\ Free(e)
  /\ IF Registrations(e) # {}
       THEN UNCHANGED new
       ELSE Insert(e, "payment_attempts",
                   [attempt |-> AttemptOf[e], provider |-> ProviderOf[e], trigger |-> e])
  /\ Goto(e, IF \E r \in Registrations(e) : r.provider # ProviderOf[e]
               THEN "commit" ELSE "predict")
  /\ UNCHANGED <<clock, db, held, noted, todo, obs, history>>

\* Where the pipeline goes with a probability
AfterPrediction(p) == IF p = "high" THEN "assess" ELSE "commit"

\* Eligibility, features and the idempotency check, all before the lock.  An equal
\* fingerprint needs an equal predicted_at and equal features.
Predict(e) ==
  LET ineligible == IngestedBefore(ProviderOf[e], AttemptOf[e], TEval(e)) IN
  /\ pc[e] = "predict"
  /\ \/ \E p \in Latest(PredictionsOf(e)) :
          /\ p.predicted_at = TEval(e)
          /\ ineligible => p.probability = "none"
          /\ Goto(e, AfterPrediction(p.probability))
          /\ UNCHANGED noted
     \/ \E p \in (IF ineligible THEN {"none"} ELSE Probabilities) :
          /\ Note(e, p)
          /\ Goto(e, "allocate")
  /\ UNCHANGED <<clock, db, new, held, todo, obs, history>>

\* The next version, under the attempt's lock
AppendPrediction(e) ==
  /\ pc[e] = "allocate"
  /\ Free(e)
  /\ Acquire(e)
  /\ Insert(e, "predictions",
            [attempt |-> AttemptOf[e], provider |-> ProviderOf[e],
             version |-> MaxVersion(PredictionsOf(e)) + 1, predicted_at |-> TEval(e),
             probability |-> noted[e]])
  /\ Note(e, "none")
  /\ Goto(e, AfterPrediction(noted[e]))
  /\ UNCHANGED <<clock, db, todo, obs, history>>

\* An equal fingerprint needs the latest decision to be for the same time.
DecidedNow(e) == \E d \in Latest(DecisionsOf(e)) : d.decided_at = TEval(e)

\* What decide reads before its lock: terminal events, the prediction as of t_eval, and
\* the latest decision, which an equal fingerprint repeats, with the command it has.
Assess(e) ==
  LET current == Latest({p \in PredictionsOf(e) : p.predicted_at <= TEval(e)}) IN
  /\ pc[e] = "assess"
  /\ \/ /\ DecidedNow(e)
        /\ Goto(e, "commit")
        /\ UNCHANGED noted
     \/ /\ Note(e, IF /\ ~IngestedBefore(ProviderOf[e], AttemptOf[e], TEval(e))
                      /\ \E p \in current : p.probability # "none"
                     THEN "open" ELSE "closed")
        /\ Goto(e, "decide")
  /\ UNCHANGED <<clock, db, new, held, todo, obs, history>>

Decision(e, type, route) ==
  [attempt |-> AttemptOf[e], provider |-> ProviderOf[e],
   version |-> MaxVersion(DecisionsOf(e)) + 1, decided_at |-> TEval(e), type |-> type, route |-> route]

OnCooldown(e, route) ==
  \E d \in DecisionsOf(e) : d.route = route /\ d.decided_at + Cooldown >= TEval(e)

\* Under the attempt's lock, where the fingerprint is compared again: a closed gate, or
\* the policy, says NO_ACTION; else the ACT is tentative.
Decide(e) ==
  /\ pc[e] = "decide"
  /\ Free(e)
  /\ Acquire(e)
  /\ \/ /\ DecidedNow(e)
        /\ Note(e, "none")
        /\ Goto(e, "commit")
        /\ UNCHANGED new
     \/ /\ Insert(e, "decisions", Decision(e, "NO_ACTION", "none"))
        /\ Note(e, "none")
        /\ Goto(e, "commit")
     \/ /\ noted[e] = "open"
        /\ \E r \in Routes : ~OnCooldown(e, r) /\ Note(e, r)
        /\ Goto(e, "admit")
        /\ UNCHANGED new
  /\ UNCHANGED <<clock, db, todo, obs, history>>

\* Mutated form of RecentActs: up to the time of the decision.
RecentActsUpTo(e) ==
  {d \in View(e).decisions :
     /\ d.type = "ACT"
     /\ d.decided_at + Minute >= TEval(e) /\ d.decided_at <= TEval(e)}

\* count_recent_act_decisions
RecentActs(e) == {d \in View(e).decisions : d.type = "ACT" /\ d.decided_at + Minute >= TEval(e)}

\* Admission under the global rate limit lock
Admit(e) ==
  /\ pc[e] = "admit"
  /\ Free(e)
  /\ Acquire(e)
  /\ IF Cardinality(RecentActs(e)) >= Limit
       THEN /\ Insert(e, "decisions", Decision(e, "NO_ACTION", "none"))
            /\ Goto(e, "commit")
       ELSE /\ Insert(e, "decisions", Decision(e, "ACT", noted[e]))
            /\ Goto(e, "execute")
  /\ Note(e, "none")
  /\ UNCHANGED <<clock, db, todo, obs, history>>

Command(e, id, status, t) ==
  [decision |-> id, provider |-> ProviderOf[e], status |-> status, updated_at |-> t]

\* create_command and execute_command with t_create = t_claim = t_eval: an ingested
\* outcome of the key, the owner's or not, makes the command NOT_NEEDED; else the
\* simulator is called, now, and succeeds, as of t_eval and its duration.
Execute(e) ==
  LET t == TEval(e)
      id == <<AttemptOf[e], MaxVersion(DecisionsOf(e))>>
  IN
  /\ pc[e] = "execute"
  /\ IF TerminalsOfKey(AttemptOf[e], t) # {}
       THEN /\ Insert(e, "commands", Command(e, id, "NOT_NEEDED", t))
            /\ UNCHANGED dispatched
       ELSE /\ new' = [new EXCEPT
                 ![e].commands = @ \cup {Command(e, id, "SUCCEEDED", t + Duration)},
                 ![e].execution_attempts = @ \cup
                   {[decision |-> id, provider |-> ProviderOf[e], completed_at |-> t + Duration]}]
            /\ dispatched' = dispatched \cup {<<id, now>>}
  /\ Goto(e, "commit")
  /\ UNCHANGED <<clock, db, held, noted, todo, obs, faults>>

-----------------------------------------------------------------------------
(* The task of a terminal event *)

\* Mutated form of SelectCommands: those still to be executed.
SelectPending(e) ==
  /\ pc[e] = "scheduled" /\ Terminal(e)
  /\ todo' = [todo EXCEPT ![e] =
       {c \in db.commands : c.decision[1] = AttemptOf[e] /\ c.status = "PENDING"}]
  /\ Goto(e, "next")
  /\ UNCHANGED <<clock, db, new, held, noted, obs, history>>

\* The commands of the key, whatever their provider
SelectCommands(e) ==
  /\ pc[e] = "scheduled" /\ Terminal(e)
  /\ todo' = [todo EXCEPT ![e] = {c \in db.commands : c.decision[1] = AttemptOf[e]}]
  /\ Goto(e, "next")
  /\ UNCHANGED <<clock, db, new, held, noted, obs, history>>

\* as_of_terminal
AsOf(e, c) == IF c.updated_at > ingested_at[e] THEN c.updated_at ELSE ingested_at[e]

ObservationsOf(e, d) == {o \in View(e).observations : o.decision = d}
AttributionsOf(e, d) == {a \in View(e).attributions : a.decision = d}

Outcome(f) == IF KindOf[f] = "payment.captured" THEN "CAPTURED" ELSE "FAILED"

\* Mutated form of FirstOutcomes: the last terminal event.
LastOutcomes(T) ==
  IF T = {} THEN {[outcome |-> "UNKNOWN_IN_FLIGHT", timestamp |-> 0]}
  ELSE {[outcome |-> Outcome(f), timestamp |-> occurred[f]] :
          f \in {g \in T : \A h \in T : ingested_at[g] >= ingested_at[h]}}

\* The outcome of the first terminal event of a set, of those ingested together any
FirstOutcomes(T) ==
  IF T = {} THEN {[outcome |-> "UNKNOWN_IN_FLIGHT", timestamp |-> 0]}
  ELSE {[outcome |-> Outcome(f), timestamp |-> occurred[f]] :
          f \in {g \in T : \A h \in T : ingested_at[g] <= ingested_at[h]}}

\* The command's own provider decides; e may be another's.  The SELECT has no order.
Observe(e) ==
  /\ pc[e] = "next"
  /\ \E c \in todo[e] :
       \E first \in FirstOutcomes(Terminals(c.provider, AttemptOf[e], AsOf(e, c))) :
         obs' = [obs EXCEPT ![e] =
           [decision |-> c.decision, provider |-> c.provider,
            version |-> MaxVersion(ObservationsOf(e, c.decision)) + 1,
            as_of |-> AsOf(e, c), outcome |-> first.outcome, timestamp |-> first.timestamp]]
  /\ Goto(e, "append")
  /\ UNCHANGED <<clock, db, new, held, noted, todo, history>>

\* A committed equal key is an IntegrityError, which ends the task.
AppendObservation(e) ==
  /\ pc[e] = "append"
  /\ Free(e)
  /\ IF \E o \in View(e).observations : SameKey(o, obs[e])
       THEN EndTransaction(e, "failed")
       ELSE /\ Insert(e, "observations", obs[e])
            /\ Goto(e, "attribute")
            /\ UNCHANGED <<held, noted, todo, obs>>
  /\ UNCHANGED <<clock, db, history>>

\* Mutated form of TreatmentOf: without temporal precedence.
TreatmentOfAnyOrder(c, attempts, o) ==
  IF c.status = "NOT_NEEDED" \/ attempts = {} THEN "UNTREATED" ELSE "TREATED"

\* Treated: dispatched with success, and not completed after the outcome.
TreatmentOf(c, attempts, o) ==
  IF \/ c.status = "NOT_NEEDED"
     \/ attempts = {}
     \/ o.outcome # "UNKNOWN_IN_FLIGHT" /\ \E x \in attempts : o.timestamp < x.completed_at
    THEN "UNTREATED" ELSE "TREATED"

\* Whether the confidence reaches its floor depends on evidence that is not modelled.
StatusesOf(treatment, outcome) ==
  CASE outcome = "UNKNOWN_IN_FLIGHT" -> {"UNRESOLVED_IN_FLIGHT"}
    [] outcome # "UNKNOWN_IN_FLIGHT" /\ treatment = "UNTREATED" -> {"UNATTRIBUTED_UNTREATED"}
    [] treatment = "TREATED" /\ outcome = "FAILED" -> {"UNATTRIBUTED_PAYMENT_FAILED"}
    [] OTHER -> {"ATTRIBUTED", "INDETERMINATE_INSUFFICIENT_EVIDENCE"}

\* Under the attribution lock: the latest attempt and observation as of the observation
\* just made give a new version, unless there is one for this as_of.
Attribute(e) ==
  LET d == obs[e].decision
      t == obs[e].as_of
      c == CHOOSE x \in todo[e] : x.decision = d
      attempts == {x \in View(e).execution_attempts : x.decision = d /\ x.completed_at <= t}
  IN
  /\ pc[e] = "attribute"
  /\ Free(e)
  /\ Acquire(e)
  /\ \/ /\ \E a \in AttributionsOf(e, d) : a.as_of = t
        /\ UNCHANGED new
     \/ /\ ~\E a \in AttributionsOf(e, d) : a.as_of = t
        /\ \E o \in Latest({x \in ObservationsOf(e, d) : x.as_of <= t}) :
           LET treatment == TreatmentOf(c, attempts, o) IN
           \E status \in StatusesOf(treatment, o.outcome) :
             Insert(e, "attributions",
                    [decision |-> d, provider |-> c.provider,
                     version |-> MaxVersion(AttributionsOf(e, d)) + 1, as_of |-> t,
                     treatment |-> treatment, status |-> status])
  /\ todo' = [todo EXCEPT ![e] = @ \ {c}]
  /\ obs' = [obs EXCEPT ![e] = NoObservation]
  /\ Goto(e, "next")
  /\ UNCHANGED <<clock, db, noted, history>>

-----------------------------------------------------------------------------
(* The end of a task *)

Commit(e) ==
  /\ pc[e] = "commit" \/ (pc[e] = "next" /\ todo[e] = {})
  /\ db' = View(e)
  /\ EndTransaction(e, "done")
  /\ UNCHANGED <<clock, history>>

\* Any exception, in Stages 2 to 4 too, rolls the transaction back; nothing retries it.
Fail(e) ==
  /\ pc[e] \in Running
  /\ faults < MaxFaults
  /\ faults' = faults + 1
  /\ EndTransaction(e, "failed")
  /\ UNCHANGED <<clock, db, dispatched>>

\* Mutated form of AbortDeadlock: no detector.
NoDetector(e) == FALSE /\ UNCHANGED vars

\* PostgreSQL aborts one of the transactions.
AbortDeadlock(e) ==
  /\ Deadlocked(e)
  /\ EndTransaction(e, "failed")
  /\ UNCHANGED <<clock, db, history>>

\* The process stops.  The provider redelivers what was not stored; the tasks of what was
\* stored are lost.
Crash ==
  /\ faults < MaxFaults
  /\ faults' = faults + 1
  /\ pc' = [e \in Events |->
       CASE pc[e] = "normalized" -> "occurred" [] pc[e] \in Running -> "lost" [] OTHER -> pc[e]]
  /\ new' = [e \in Events |-> NoRows]
  /\ held' = [e \in Events |-> {}]
  /\ noted' = [e \in Events |-> "none"]
  /\ todo' = [e \in Events |-> {}]
  /\ obs' = [e \in Events |-> NoObservation]
  /\ UNCHANGED <<clock, db, dispatched>>

-----------------------------------------------------------------------------

Starting(labels) ==
  /\ now = 0
  /\ occurred = [e \in Events |-> 0]
  /\ ingested_at = [e \in Events |-> 0]
  /\ payment_events = {}
  /\ db = NoRows
  /\ new = [e \in Events |-> NoRows]
  /\ held = [e \in Events |-> {}]
  /\ pc = labels
  /\ noted = [e \in Events |-> "none"]
  /\ todo = [e \in Events |-> {}]
  /\ obs = [e \in Events |-> NoObservation]
  /\ dispatched = {}
  /\ faults = 0

Init == Starting([e \in Events |-> "none"])

TriggerStep(e) ==
  \/ Register(e) \/ Predict(e) \/ AppendPrediction(e) \/ Assess(e)
  \/ Decide(e) \/ Admit(e) \/ Execute(e)

TerminalStep(e) ==
  SelectCommands(e) \/ Observe(e) \/ AppendObservation(e) \/ Attribute(e)

Next ==
  \/ Tick
  \/ \E e \in Events :
       \/ Occur(e) \/ Normalize(e) \/ Ingest(e)
       \/ TriggerStep(e) \/ TerminalStep(e)
       \/ Commit(e) \/ Fail(e) \/ AbortDeadlock(e)
  \/ Crash

Spec == Init /\ [][Next]_vars

-----------------------------------------------------------------------------
(* Properties *)

Rows(t) == db[t] \cup UNION {new[e][t] : e \in Events}

\* InterventionRepository.acquire_global_rate_limit_lock: "checking remaining ACT capacity
\* and inserting an ACT decision are completely atomic".  No minute of decision time holds
\* more ACT decisions than the policy allows, though tasks decide for times long past and
\* in any order; rows not committed yet count.
RateLimitHolds ==
  \A d \in Rows("decisions") :
    d.type = "ACT" =>
      Cardinality({x \in Rows("decisions") :
        /\ x.type = "ACT"
        /\ x.decided_at <= d.decided_at /\ d.decided_at <= x.decided_at + Minute}) <= Limit

\* acquire_version_allocation_lock and acquire_attribution_lock "avoid race conditions":
\* no two tasks ever hold rows with the same version, and none holds one that is taken, so
\* the unique keys of these tables never fail a task.
VersionsExclusive ==
  \A e, o \in Events : e # o =>
    /\ \A t \in {"predictions", "decisions"} :
         \A r \in new[e][t], q \in new[o][t] \cup db[t] :
           r.attempt = q.attempt => r.version # q.version
    /\ \A r \in new[e].attributions, q \in new[o].attributions \cup db.attributions :
         r.decision = q.decision => r.version # q.version /\ r.as_of # q.as_of

\* A stored terminal event that an observation can be of
Decides(f, o) ==
  /\ f \in TerminalsOfKey(o.decision[1], o.as_of) /\ ProviderOf[f] = o.provider
  /\ o.outcome = Outcome(f) /\ o.timestamp = occurred[f]

\* README, section 12: "no protected revenue number can be recorded without pointing
\* directly to the prediction, decision, execution attempt, and factual payment capture
\* that justified it".  The command has succeeded, the executor was called, and the capture
\* is no older than the completion on record.  That record can be earlier than the call and
\* its duration, never later; that it is earlier is the matter of CaptureFollowsCall.
CreditJustified ==
  \A a \in db.attributions : a.status = "ATTRIBUTED" =>
    /\ \E d \in db.decisions, p \in db.predictions :
         /\ <<d.attempt, d.version>> = a.decision /\ d.type = "ACT"
         /\ p.attempt = d.attempt /\ p.probability = "high" /\ p.predicted_at <= d.decided_at
    /\ \E c \in db.commands, x \in db.execution_attempts :
         /\ c.decision = a.decision /\ c.status = "SUCCEEDED"
         /\ x.decision = a.decision /\ x.completed_at = c.updated_at
         /\ \E t \in 0..now : <<a.decision, t>> \in dispatched /\ x.completed_at <= t + Duration
         /\ \E o \in db.observations, f \in payment_events :
              /\ o.decision = a.decision /\ o.provider = a.provider
              /\ o.as_of = a.as_of /\ o.outcome = "CAPTURED"
              /\ Decides(f, o) /\ occurred[f] >= x.completed_at

\* README, section 13: "Terminal payment capture must occur at or after intervention
\* execution completion for causal attribution eligibility".  The capture behind a credit
\* has not happened before the executor was even called.
CaptureFollowsCall ==
  \A a \in db.attributions : a.status = "ATTRIBUTED" =>
    \E t \in 0..now, f \in payment_events :
      /\ <<a.decision, t>> \in dispatched
      /\ AttemptOf[f] = a.decision[1] /\ KindOf[f] = "payment.captured"
      /\ occurred[f] >= t

\* "A key registered under one provider is never merged with another provider's events",
\* but "a synthetic event sharing a Razorpay attempt's payment_id can still be read for that
\* attempt" (payment_attempts.py:22, 26).  Every row of a key carries the provider of the
\* trigger that registered it, and an outcome is that of an event of this provider, though
\* the tasks of both providers' events run and observe the key's commands.  What another's
\* event can do, in the barrier before the dispatch, is to withhold the intervention: a
\* command is NOT_NEEDED by a terminal event of the key, and is never taken for a treatment.
ProvidersKept ==
  LET Owned(a, p) == \E r \in Rows("payment_attempts") :
        r.attempt = a /\ r.provider = p /\ ProviderOf[r.trigger] = p
  IN
  /\ \A t \in {"predictions", "decisions"} : \A r \in Rows(t) : Owned(r.attempt, r.provider)
  /\ \A t \in {"commands", "execution_attempts", "observations", "attributions"} :
       \A r \in Rows(t) : Owned(r.decision[1], r.provider)
  /\ \A o \in Rows("observations") : o.outcome # "UNKNOWN_IN_FLIGHT" =>
       \E f \in payment_events : Decides(f, o)
  /\ \A c \in Rows("commands") : c.status = "NOT_NEEDED" =>
       /\ TerminalsOfKey(c.decision[1], c.updated_at) # {}
       /\ \A x \in Rows("execution_attempts") : x.decision # c.decision
       /\ \A a \in Rows("attributions") : a.decision = c.decision => a.treatment = "UNTREATED"

\* observe takes the first terminal event "ordered by ingested_at" of those committed by
\* then.  Tasks number observations without a lock, and events are committed in another
\* order than they are stamped; a later version may therefore have another outcome than an
\* earlier one, but only that of an event stamped no later.
DecidingEventMovesBack ==
  \A o, p \in db.observations :
    /\ o.decision = p.decision /\ o.version < p.version
    /\ "UNKNOWN_IN_FLIGHT" \notin {o.outcome, p.outcome}
    => \E f, g \in payment_events :
         Decides(f, o) /\ Decides(g, p) /\ ingested_at[g] <= ingested_at[f]

\* A task that can go on does, however often others get a lock before it (PostgreSQL
\* queues its waiters), and deadlocks are found.
Fairness ==
  \A e \in Events :
    /\ SF_vars(TriggerStep(e) \/ TerminalStep(e) \/ Commit(e))
    /\ WF_vars(AbortDeadlock(e))

\* Locks and unique keys never leave a task of live_pipeline waiting for ever.
TasksEnd == \A e \in Events : pc[e] = "scheduled" ~> pc[e] \notin Running

\* A command that is committed when the task of an outcome starts is attributed by it,
\* unless the task fails.
OutcomeAttributed ==
  \A e \in {f \in Events : Terminal(f)} : \A v \in 1..Cardinality({f \in Events : Trigger(f)}) :
    (pc[e] = "scheduled" /\ \E c \in db.commands : c.decision = <<AttemptOf[e], v>>)
    ~> (\/ pc[e] \in {"failed", "lost"}
        \/ \E x \in db.attributions :
             x.decision = <<AttemptOf[e], v>> /\ x.as_of >= ingested_at[e])
==============================================================================
