------------------------------ MODULE Execution ------------------------------
(***************************************************************************)
(* Stage 7: the lifecycle of an InterventionCommand.                       *)
(*                                                                         *)
(* InterventionExecutionService.create_command / execute_command and       *)
(* PaymentOutcomeObservationService.observe run inside a database          *)
(* transaction that their caller commits or rolls back.  A session is one  *)
(* such transaction at a time: its statements are separate steps, read     *)
(* committed rows (READ COMMITTED), and write rows nobody else sees until  *)
(* the commit.  What one session can do to another goes through three      *)
(* PostgreSQL mechanisms, modelled here as the code relies on them: the    *)
(* advisory transaction lock on the command, the row version an            *)
(* uncommitted write keeps locked, and the wait of an INSERT on an equal   *)
(* key that is not committed yet.                                          *)
(*                                                                         *)
(* command_id is a function of decision_id (make_command_id), so a         *)
(* decision also names its command.  A payment attempt stands for the pair *)
(* (source_system, payment_attempt_id).  Times are the labels the callers  *)
(* pass (t_create, t_claim, as_of_timestamp) and the ingested_at stamps of *)
(* events: neither is tied to the order in which things happen, because a  *)
(* background task may run, and an ingestion may commit, arbitrarily late. *)
(***************************************************************************)
EXTENDS Naturals, FiniteSets

CONSTANTS
  Sessions,    \* database sessions (background tasks, scripts, workers)
  Decisions,   \* Stage 6 decisions handed to create_command
  Executable,  \* those with ACT, a selected route and gate verdict PASSED
  Attempts,    \* payment attempts
  AttemptOf,   \* the attempt of each decision
  Events,      \* the terminal events Stage 1 may ingest
  MaxTime,     \* bound on the time labels
  TTL,         \* expires_in_seconds
  Durations,   \* duration_ms an executor may report
  MaxLost,     \* bound: dispatches of a command lost to a rollback
  Nobody,      \* no session holds the lock
  NoDecision   \* a session outside a transaction works on no command

Times == 0..MaxTime

TerminalTypes == {"payment.captured", "payment.failed"}
TerminalEvent == [attempt : Attempts, type : TerminalTypes, ingested_at : Nat]

ASSUME ExecutionAssumption ==
  /\ Executable \subseteq Decisions
  /\ AttemptOf \in [Decisions -> Attempts]
  /\ Events \subseteq TerminalEvent
  /\ MaxTime \in Nat
  /\ TTL \in Nat
  /\ Durations \subseteq Nat
  /\ MaxLost \in Nat
  /\ Nobody \notin Sessions
  /\ NoDecision \notin Decisions

VARIABLES
  payment_attempts,    \* table: the registered attempts
  payment_events,      \* table: the terminal events of Stage 1
  commands,            \* table intervention_commands, by decision
  execution_attempts,  \* table intervention_execution_attempts
  observations,        \* table payment_outcome_observations
  lock,                \* advisory lock of each command
  pc,                  \* where each session is
  cur,                 \* the command its transaction works on
  at,                  \* t_create, t_claim or as_of of the call
  row,                 \* its uncommitted version of the command's row
  new_attempt,         \* its uncommitted execution attempt
  new_obs,             \* its uncommitted observation
  result,              \* what the executor answered
  seen,                \* outcome and version an observe call derived
  dispatched,          \* history: executor calls made for each command
  lost,                \* history: rollbacks after such a call
  precluding           \* history: the outcomes that a session's lock came too late for

tables  == <<payment_attempts, payment_events, commands, execution_attempts,
             observations>>
session == <<pc, cur, at, row, new_attempt, new_obs, result, seen>>
history == <<dispatched, lost, precluding>>
vars    == <<tables, lock, session, history>>

-----------------------------------------------------------------------------
(* Data *)

Finals == {"SUCCEEDED", "FAILED", "EXPIRED", "NOT_NEEDED"}
CommandStatus == {"PENDING", "EXECUTING"} \cup Finals
ExecutionResultStatus == {"SUCCESS", "FAILURE", "TIMEOUT"}
PaymentOutcome == {"CAPTURED", "FAILED", "UNKNOWN_IN_FLIGHT"}

\* No row with this key, or no uncommitted version of it.
Absent == [status |-> "ABSENT", created_at |-> 0, expires_at |-> 0, updated_at |-> 0]

InterventionCommand ==
  [status : CommandStatus, created_at : Nat, expires_at : Nat, updated_at : Nat]

ExecutionAttempt ==
  [command : Decisions, attempt_number : Nat, started_at : Nat,
   completed_at : Nat, status : ExecutionResultStatus]

Observation ==
  [command : Decisions, version : Nat, as_of : Nat, outcome : PaymentOutcome]

ExecutionResult == [status : ExecutionResultStatus, duration : Durations]

NoResult == [status |-> "NONE", duration |-> 0]
Unseen   == [outcome |-> "UNKNOWN_IN_FLIGHT", version |-> 0]

Labels == {"idle", "insert", "created", "lock", "fetch", "barrier", "claim",
           "dispatch", "record", "version", "append", "returned", "failed"}

-----------------------------------------------------------------------------
(* What a statement of session s reads and what makes it wait *)

\* A SELECT of the command's row: the session's own version, else the committed one.
View(s, d) ==
  IF cur[s] = d /\ row[s].status # "ABSENT" THEN row[s] ELSE commands[d]

\* No other transaction holds an uncommitted version of the row of d.
RowFree(s, d) ==
  \A o \in Sessions \ {s} : cur[o] = d => row[o].status = "ABSENT"

\* PaymentAttemptRepository.require
Registered(d) == AttemptOf[d] \in payment_attempts

\* Terminal events ingested at or before t.  Barrier B reads them by the key, observe those
\* of the provider; an attempt stands for both here, and has no other provider's events.
TerminalEvents(d, t) ==
  {e \in payment_events : e.attempt = AttemptOf[d] /\ e.ingested_at <= t}

\* The events that ORDER BY ingested_at ASC may put first.
Earliest(E) == {e \in E : \A f \in E : e.ingested_at <= f.ingested_at}

AttemptsOf(d)     == {a \in execution_attempts : a.command = d}
ObservationsOf(d) == {o \in observations : o.command = d}

\* get_max_attempt_number and get_max_observation_version: 0 when there is none
MaxAttemptNumber(d) ==
  CHOOSE n \in {0} \cup {a.attempt_number : a \in AttemptsOf(d)} :
    \A a \in AttemptsOf(d) : a.attempt_number <= n
MaxObservationVersion(d) ==
  CHOOSE n \in {0} \cup {o.version : o \in ObservationsOf(d)} :
    \A o \in ObservationsOf(d) : o.version <= n

\* Mutated form of OutcomeOf: stores the event type unconverted.
OutcomeOfUnmapped(e) == e.type

\* Derive PaymentOutcome from the first terminal event
OutcomeOf(e) ==
  IF e.type = "payment.captured" THEN "CAPTURED" ELSE "FAILED"

\* Mutated forms of FinalStatus: a timeout is reopened for a retry; a timeout counts
\* as a success.
FinalStatusReopen(r) ==
  CASE r = "SUCCESS" -> "SUCCEEDED" [] r = "TIMEOUT" -> "PENDING" [] OTHER -> "FAILED"
FinalStatusOptimistic(r) == IF r = "FAILURE" THEN "FAILED" ELSE "SUCCEEDED"

\* The status execute_command finalizes a dispatched command with
FinalStatus(r) == IF r = "SUCCESS" THEN "SUCCEEDED" ELSE "FAILED"

Goto(s, label) == pc' = [pc EXCEPT ![s] = label]

\* UPDATE ... WHERE command_status = expected, by session s on its command.  The
\* session goes to `hit` when the statement changed the row and to `miss` otherwise.
UpdateStatusAtomic(s, expected, target, t, hit, miss) ==
  /\ RowFree(s, cur[s])
  /\ IF View(s, cur[s]).status = expected
       THEN /\ row' = [row EXCEPT ![s] =
                         [View(s, cur[s]) EXCEPT !.status = target, !.updated_at = t]]
            /\ Goto(s, hit)
       ELSE /\ Goto(s, miss)
            /\ UNCHANGED row

-----------------------------------------------------------------------------
(* The environment: Stage 5 registers attempts, Stage 1 commits terminal   *)
(* events.                                                                 *)

RegisterAttempt(a) ==
  /\ payment_attempts' = payment_attempts \cup {a}
  /\ UNCHANGED <<payment_events, commands, execution_attempts, observations,
                 lock, session, history>>

IngestTerminal(e) ==
  /\ payment_events' = payment_events \cup {e}
  /\ UNCHANGED <<payment_attempts, commands, execution_attempts, observations,
                 lock, session, history>>

-----------------------------------------------------------------------------
(* create_command *)

\* Contract check, registration check and the two idempotency lookups.
CreateCommand(s, d, t) ==
  /\ pc[s] = "idle"
  /\ cur' = [cur EXCEPT ![s] = d]
  /\ at' = [at EXCEPT ![s] = t]
  /\ Goto(s, IF d \notin Executable \/ ~Registered(d) THEN "failed"
             ELSE IF commands[d].status # "ABSENT" THEN "created"
             ELSE "insert")
  /\ UNCHANGED <<tables, lock, row, new_attempt, new_obs, result, seen, history>>

\* Mutated form of InsertCommand: ON CONFLICT DO UPDATE.
InsertCommandUpsert(s) ==
  /\ pc[s] = "insert"
  /\ RowFree(s, cur[s])
  /\ Goto(s, "created")
  /\ row' = [row EXCEPT ![s] =
               [status |-> "PENDING", created_at |-> at[s],
                expires_at |-> at[s] + TTL, updated_at |-> at[s]]]
  /\ UNCHANGED <<tables, lock, cur, at, new_attempt, new_obs, result, seen, history>>

\* The INSERT waits for a concurrent one; a committed row is an IntegrityError.
InsertCommand(s) ==
  /\ pc[s] = "insert"
  /\ RowFree(s, cur[s])
  /\ IF commands[cur[s]].status # "ABSENT"
       THEN /\ Goto(s, "failed")
            /\ UNCHANGED row
       ELSE /\ Goto(s, "created")
            /\ row' = [row EXCEPT ![s] =
                         [status |-> "PENDING", created_at |-> at[s],
                          expires_at |-> at[s] + TTL, updated_at |-> at[s]]]
  /\ UNCHANGED <<tables, lock, cur, at, new_attempt, new_obs, result, seen, history>>

-----------------------------------------------------------------------------
(* execute_command *)

\* A worker calls it for a command in a new transaction, ...
ExecuteCommand(s, d, t) ==
  /\ pc[s] = "idle"
  /\ cur' = [cur EXCEPT ![s] = d]
  /\ at' = [at EXCEPT ![s] = t]
  /\ Goto(s, "lock")
  /\ UNCHANGED <<tables, lock, row, new_attempt, new_obs, result, seen, history>>

\* ... the pipeline right after create_command, with t_claim = t_create.
ExecuteCreated(s) ==
  /\ pc[s] = "created"
  /\ Goto(s, "lock")
  /\ UNCHANGED <<tables, lock, cur, at, row, new_attempt, new_obs, result, seen, history>>

\* Mutated form of AcquireCommandLock: the answer of a try-lock is ignored.
TryCommandLock(s) ==
  /\ pc[s] = "lock"
  /\ lock' = [lock EXCEPT ![cur[s]] = IF @ = Nobody THEN s ELSE @]
  /\ Goto(s, "fetch")
  /\ precluding' = [precluding EXCEPT ![s] = TerminalEvents(cur[s], at[s])]
  /\ UNCHANGED <<tables, cur, at, row, new_attempt, new_obs, result, seen, dispatched, lost>>

\* pg_advisory_xact_lock waits until no other transaction holds the lock.
AcquireCommandLock(s) ==
  /\ pc[s] = "lock"
  /\ lock[cur[s]] = Nobody
  /\ lock' = [lock EXCEPT ![cur[s]] = s]
  /\ Goto(s, "fetch")
  /\ precluding' = [precluding EXCEPT ![s] = TerminalEvents(cur[s], at[s])]
  /\ UNCHANGED <<tables, cur, at, row, new_attempt, new_obs, result, seen, dispatched, lost>>

\* Barrier A
Expired(claim_time, expires_at) == claim_time >= expires_at

\* Steps 2 and 3: the row, its registration, and barrier A.
FetchCommand(s) ==
  LET cmd == View(s, cur[s]) IN
  /\ pc[s] = "fetch"
  /\ \/ /\ cmd.status = "ABSENT" \/ ~Registered(cur[s])
        /\ Goto(s, "failed")
        /\ UNCHANGED row
     \/ /\ cmd.status \in CommandStatus \ {"PENDING"}
        /\ Registered(cur[s])
        /\ Goto(s, "returned")
        /\ UNCHANGED row
     \/ /\ cmd.status = "PENDING"
        /\ Registered(cur[s])
        /\ Expired(at[s], cmd.expires_at)
        /\ UpdateStatusAtomic(s, "PENDING", "EXPIRED", at[s], "returned", "returned")
     \/ /\ cmd.status = "PENDING"
        /\ Registered(cur[s])
        /\ ~Expired(at[s], cmd.expires_at)
        /\ Goto(s, "barrier")
        /\ UNCHANGED row
  /\ UNCHANGED <<tables, lock, cur, at, new_attempt, new_obs, result, seen, history>>

\* Mutated form of CheckTerminal: no barrier B.
SkipTerminalCheck(s) ==
  /\ pc[s] = "barrier"
  /\ Goto(s, "claim")
  /\ UNCHANGED <<tables, lock, cur, at, row, new_attempt, new_obs, result, seen, history>>

\* Barrier B: an outcome that is already ingested makes the command NOT_NEEDED.
CheckTerminal(s) ==
  /\ pc[s] = "barrier"
  /\ IF TerminalEvents(cur[s], at[s]) # {}
       THEN UpdateStatusAtomic(s, "PENDING", "NOT_NEEDED", at[s], "returned", "returned")
       ELSE /\ Goto(s, "claim")
            /\ UNCHANGED row
  /\ UNCHANGED <<tables, lock, cur, at, new_attempt, new_obs, result, seen, history>>

ClaimCommand(s) ==
  /\ pc[s] = "claim"
  /\ UpdateStatusAtomic(s, "PENDING", "EXECUTING", at[s], "dispatch", "returned")
  /\ UNCHANGED <<tables, lock, cur, at, new_attempt, new_obs, result, seen, history>>

\* executor.execute: the side effect no rollback undoes.
Dispatch(s) ==
  /\ pc[s] = "dispatch"
  /\ \E r \in ExecutionResult : result' = [result EXCEPT ![s] = r]
  /\ dispatched' = [dispatched EXCEPT ![cur[s]] = @ + 1]
  /\ Goto(s, "record")
  /\ UNCHANGED <<tables, lock, cur, at, row, new_attempt, new_obs, seen, lost, precluding>>

\* Steps 7 and 8: append the attempt, finalize the command.
RecordAttempt(s) ==
  LET end == at[s] + result[s].duration IN
  /\ pc[s] = "record"
  /\ new_attempt' = [new_attempt EXCEPT ![s] =
       {[command |-> cur[s], attempt_number |-> MaxAttemptNumber(cur[s]) + 1,
         started_at |-> at[s], completed_at |-> end, status |-> result[s].status]}]
  /\ UpdateStatusAtomic(s, "EXECUTING", FinalStatus(result[s].status), end,
                        "returned", "returned")
  /\ result' = [result EXCEPT ![s] = NoResult]
  /\ UNCHANGED <<tables, lock, cur, at, new_obs, seen, history>>

-----------------------------------------------------------------------------
(* observe *)

\* The command, its registration, and the outcome of the first terminal event.
Observe(s, d, t) ==
  /\ pc[s] = "idle"
  /\ cur' = [cur EXCEPT ![s] = d]
  /\ at' = [at EXCEPT ![s] = t]
  /\ \/ /\ commands[d].status = "ABSENT" \/ ~Registered(d)
        /\ Goto(s, "failed")
        /\ UNCHANGED seen
     \/ /\ commands[d].status # "ABSENT"
        /\ Registered(d)
        /\ Goto(s, "version")
        /\ LET E == TerminalEvents(d, t) IN
           \/ /\ E = {}
              /\ seen' = [seen EXCEPT ![s] = Unseen]
           \/ \E e \in Earliest(E) :
                seen' = [seen EXCEPT ![s] = [outcome |-> OutcomeOf(e), version |-> 0]]
  /\ UNCHANGED <<tables, lock, row, new_attempt, new_obs, result, history>>

\* Mutated form of AllocateObservationVersion: counts uncommitted observations.
AllocateFromDirtyRead(s) ==
  LET written == observations \cup UNION {new_obs[o] : o \in Sessions} IN
  /\ pc[s] = "version"
  /\ seen' = [seen EXCEPT ![s].version =
       Cardinality({o \in written : o.command = cur[s]}) + 1]
  /\ Goto(s, "append")
  /\ UNCHANGED <<tables, lock, cur, at, row, new_attempt, new_obs, result, history>>

\* The version is the committed maximum plus one, read without a lock.
AllocateObservationVersion(s) ==
  /\ pc[s] = "version"
  /\ seen' = [seen EXCEPT ![s].version = MaxObservationVersion(cur[s]) + 1]
  /\ Goto(s, "append")
  /\ UNCHANGED <<tables, lock, cur, at, row, new_attempt, new_obs, result, history>>

\* Both unique keys of an observation: (command, version) and (command, as_of).
SameKey(o, p) ==
  /\ o.command = p.command
  /\ o.version = p.version \/ o.as_of = p.as_of

AppendObservation(s) ==
  LET obs == [command |-> cur[s], version |-> seen[s].version, as_of |-> at[s],
              outcome |-> seen[s].outcome] IN
  /\ pc[s] = "append"
  /\ \A o \in Sessions \ {s} : \A p \in new_obs[o] : ~SameKey(obs, p)
  /\ IF \E p \in observations : SameKey(obs, p)
       THEN /\ Goto(s, "failed")
            /\ UNCHANGED new_obs
       ELSE /\ Goto(s, "returned")
            /\ new_obs' = [new_obs EXCEPT ![s] = {obs}]
  /\ UNCHANGED <<tables, lock, cur, at, row, new_attempt, result, seen, history>>

-----------------------------------------------------------------------------
(* The end of a transaction *)

\* A finished transaction leaves nothing behind and frees its advisory lock.
EndTransaction(s) ==
  /\ cur' = [cur EXCEPT ![s] = NoDecision]
  /\ at' = [at EXCEPT ![s] = 0]
  /\ row' = [row EXCEPT ![s] = Absent]
  /\ new_attempt' = [new_attempt EXCEPT ![s] = {}]
  /\ new_obs' = [new_obs EXCEPT ![s] = {}]
  /\ result' = [result EXCEPT ![s] = NoResult]
  /\ seen' = [seen EXCEPT ![s] = Unseen]
  /\ precluding' = [precluding EXCEPT ![s] = {}]
  /\ lock' = [d \in Decisions |-> IF lock[d] = s THEN Nobody ELSE lock[d]]
  /\ Goto(s, "idle")

Commit(s) ==
  /\ pc[s] \in {"created", "returned"}
  /\ commands' = [commands EXCEPT ![cur[s]] = View(s, cur[s])]
  /\ execution_attempts' = execution_attempts \cup new_attempt[s]
  /\ observations' = observations \cup new_obs[s]
  /\ EndTransaction(s)
  /\ UNCHANGED <<payment_attempts, payment_events, dispatched, lost>>

\* The transaction has called the executor.
HasDispatched(s) == pc[s] = "record" \/ new_attempt[s] # {}

\* An exception, a cancelled task or a crash at any point of the transaction.
Rollback(s) ==
  /\ pc[s] # "idle"
  /\ HasDispatched(s) => lost[cur[s]] < MaxLost
  /\ lost' = IF HasDispatched(s) THEN [lost EXCEPT ![cur[s]] = @ + 1] ELSE lost
  /\ EndTransaction(s)
  /\ UNCHANGED <<tables, dispatched>>

-----------------------------------------------------------------------------

Init ==
  /\ payment_attempts = {}
  /\ payment_events = {}
  /\ commands = [d \in Decisions |-> Absent]
  /\ execution_attempts = {}
  /\ observations = {}
  /\ lock = [d \in Decisions |-> Nobody]
  /\ pc = [s \in Sessions |-> "idle"]
  /\ cur = [s \in Sessions |-> NoDecision]
  /\ at = [s \in Sessions |-> 0]
  /\ row = [s \in Sessions |-> Absent]
  /\ new_attempt = [s \in Sessions |-> {}]
  /\ new_obs = [s \in Sessions |-> {}]
  /\ result = [s \in Sessions |-> NoResult]
  /\ seen = [s \in Sessions |-> Unseen]
  /\ dispatched = [d \in Decisions |-> 0]
  /\ lost = [d \in Decisions |-> 0]
  /\ precluding = [s \in Sessions |-> {}]

\* The statements a session runs without choosing what to do next.
Statement(s) ==
  \/ InsertCommand(s)
  \/ AcquireCommandLock(s)
  \/ FetchCommand(s)
  \/ CheckTerminal(s)
  \/ ClaimCommand(s)
  \/ Dispatch(s)
  \/ RecordAttempt(s)
  \/ AllocateObservationVersion(s)
  \/ AppendObservation(s)

Next ==
  \/ \E a \in Attempts : RegisterAttempt(a)
  \/ \E e \in Events : IngestTerminal(e)
  \/ \E s \in Sessions :
       \/ \E d \in Decisions, t \in Times :
            CreateCommand(s, d, t) \/ ExecuteCommand(s, d, t) \/ Observe(s, d, t)
       \/ ExecuteCreated(s)
       \/ Statement(s)
       \/ Commit(s)
       \/ Rollback(s)

Spec == Init /\ [][Next]_vars

-----------------------------------------------------------------------------
(* Properties *)

\* The tables hold rows of their types and every session a legal position.
TypeOK ==
  /\ payment_attempts \subseteq Attempts
  /\ payment_events \subseteq Events
  /\ commands \in [Decisions -> InterventionCommand \cup {Absent}]
  /\ execution_attempts \subseteq ExecutionAttempt
  /\ observations \subseteq Observation
  /\ lock \in [Decisions -> Sessions \cup {Nobody}]
  /\ pc \in [Sessions -> Labels]
  /\ cur \in [Sessions -> Decisions \cup {NoDecision}]
  /\ at \in [Sessions -> Nat]
  /\ row \in [Sessions -> InterventionCommand \cup {Absent}]
  /\ new_attempt \in [Sessions -> SUBSET ExecutionAttempt]
  /\ new_obs \in [Sessions -> SUBSET Observation]
  /\ result \in [Sessions -> ExecutionResult \cup {NoResult}]
  /\ seen \in [Sessions -> [outcome : PaymentOutcome, version : Nat]]
  /\ dispatched \in [Decisions -> Nat]
  /\ lost \in [Decisions -> Nat]
  /\ precluding \in [Sessions -> SUBSET Events]

\* execution_service.execute_command: "Thread/process concurrency safe via advisory
\* lock + optimistic status claim".  The executor is called once per command, and once
\* more only for a call whose transaction was rolled back afterwards.
DispatchedAtMostOnce ==
  \A d \in Decisions : dispatched[d] <= 1 + lost[d]

\* The audit trail and the command agree in every committed state: a finalized command
\* has exactly the attempt that finalized it, any other command has none, and nobody
\* ever reads EXECUTING.
AttemptsMatchStatus ==
  \A d \in Decisions :
    LET cmd == commands[d] IN
    /\ cmd.status # "EXECUTING"
    /\ \A a, b \in AttemptsOf(d) : a = b
    /\ cmd.status \notin {"SUCCEEDED", "FAILED"} => AttemptsOf(d) = {}
    /\ cmd.status \in {"SUCCEEDED", "FAILED"} =>
         \E a \in AttemptsOf(d) :
           /\ a.attempt_number = 1
           /\ (a.status = "SUCCESS") <=> (cmd.status = "SUCCEEDED")
           /\ a.completed_at = cmd.updated_at

\* The status a session read under the lock still holds when it acts on it: between the
\* fetch and the commit nobody else finalizes the command it is about to dispatch.
NoStaleClaim ==
  \A s \in Sessions :
    pc[s] \in {"barrier", "claim", "dispatch", "record"} =>
      /\ commands[cur[s]].status \in {"ABSENT", "PENDING"}
      /\ \A o \in Sessions \ {s} : cur[o] = cur[s] => row[o].status = "ABSENT"

\* What the two pre-execution barriers leave behind.  A command that is dispatched had not
\* expired at its claim time, and no outcome of its payment up to that time was committed
\* when its session got the lock, however long it had waited; EXPIRED and NOT_NEEDED have
\* their reason.
BarriersRespected ==
  /\ \A d \in Decisions :
       LET cmd == commands[d] IN
       /\ \A a \in AttemptsOf(d) : a.started_at < cmd.expires_at
       /\ cmd.status = "EXPIRED" => cmd.updated_at >= cmd.expires_at
       /\ cmd.status = "NOT_NEEDED" => TerminalEvents(d, cmd.updated_at) # {}
  /\ \A s \in Sessions :
       pc[s] \in {"dispatch", "record"} \/ new_attempt[s] # {} => precluding[s] = {}

\* The observation log of a command has no gaps, one entry per as_of, and every
\* outcome it states is that of a terminal event ingested by then.
ObservationLogSound ==
  \A d \in Decisions :
    LET log == ObservationsOf(d) IN
    /\ \A o, p \in log : SameKey(o, p) => o = p
    /\ \A o \in log : \A n \in 1..o.version : \E p \in log : p.version = n
    /\ \A o \in log : o.outcome # "UNKNOWN_IN_FLIGHT" =>
         \E e \in TerminalEvents(d, o.as_of) :
           (e.type = "payment.captured") <=> (o.outcome = "CAPTURED")

\* state_machine.LEGAL_TRANSITIONS, as a reader of committed rows sees it: a final
\* status is for ever, and the creation facts of a command never change.
CommandHistoryLegal ==
  [][\A d \in Decisions :
       commands[d].status # "ABSENT" =>
         /\ commands[d].status \in Finals => commands'[d] = commands[d]
         /\ commands'[d].created_at = commands[d].created_at
         /\ commands'[d].expires_at = commands[d].expires_at
         /\ commands'[d].status \in Finals \cup {commands[d].status}]_commands
==============================================================================
