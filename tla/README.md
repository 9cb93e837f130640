# A TLA+ model of the Revenue Protection & Recovery Engine

This directory models the engine whose source is under `src/src` (paths below are
relative to it), checks the models with TLC and proves the central invariants of
command execution, of webhook intake, of the recovery pipeline, of root cause analysis, of
the PayPal token cache, of the credited amounts and of the migration to provider identity
with TLAPS. `PROJECT.json` lists the runs, the mutants that show that each property can
fail, the source lines behind every definition, the hazards the properties are aimed at,
and the theorems.

## The system

One FastAPI process answers webhooks of two payment providers and runs, for every newly
stored event, a background task (`live_pipeline`) over one PostgreSQL database at READ
COMMITTED. Tasks and request handlers are coroutines: they interleave at every `await`,
that is at every statement. They share nothing but the database; what keeps them apart is
transaction-level advisory locks, unique keys and conditional updates. Background tasks
live in memory only: a restart forgets them.

| Component | State | Operations | Correct when |
|---|---|---|---|
| Stage 1 ingestion (`core/services/*ingestion_service.py`, `infrastructure/repository.py`, `api/routes.py`) | `raw_ingestion_records`, `payment_events` | verify, parse, look up, insert both rows, commit, schedule the task, answer | one immutable record per source identity; honest answers to redeliveries and conflicts; the pipeline is scheduled at most once per event |
| Stage 2 analytics (`core/analytics`) | `payment_health_snapshots` | read a window's events, count, upsert the snapshot | the snapshot is that of the window's events |
| Stage 3 degradation (`core/degradation`) | `degradation_signals`, `degradation_episodes`, `episode_state_history` | evaluate a snapshot into a versioned signal, replay the timeline, reconcile episodes | signal versions have no gap; episodes are those the rules find in the latest signals, also after late events |
| Stage 4 root cause analysis (`core/rca`) | `rca_evaluations`, `rca_candidate_causes` | compare fingerprints, diagnose, append | versions are sequential and repeat by race only; the latest diagnosis is that of all stored events |
| Feature reconstruction (`core/services/feature_reconstruction_service.py`) | none | as-of reads | no leakage from after T |
| Stage 5 prediction (`core/services/failure_prediction_service.py`) | `failure_predictions` | lock, compare with latest, append | versions per attempt are exclusive |
| Stage 6 decisioning (`core/intervention`) | `intervention_decisions` | gates, rank, rate limit, append | rate limit over decision time; idempotent on equal input; routes cool down and fit the diagnosis |
| Stage 7 execution and observation (`core/execution`) | `intervention_commands`, `intervention_execution_attempts`, `payment_outcome_observations` | create, claim, dispatch, record, finalize, observe | one dispatch per command; status and audit trail agree; barriers hold; observation log has no gaps |
| Stage 8 attribution (`core/attribution`) | `counterfactual_attributions` | lock, gather evidence, calculate, append | credit points at evidence that justifies it; protected <= exposure <= amount |
| Attempt registry (`infrastructure/payment_attempt_repository.py`, `core/domain/payment_attempts.py`) | `payment_attempts` | register on conflict do nothing, require | one row per attempt; a key stays its provider's |
| Migrations (`migrations/env.py`, revisions `9d2e4f6a8b1c` and `e2d3c4b5a6f7`) | `alembic_version`, the schema and rows of Stages 5 to 8 | check, resolve, backfill, contract, downgrade; guard of the target and of the final revision | each contracted row has one provider, proven by a trigger event; no database is left half-way |
| PayPal client (`infrastructure/paypal_client.py`) | cached token, lock | fetch, refresh, verify, discard a token answered 401 (no retry) | one fetch for many waiters; no stale token is served, no new one lost |

Interactions. A handler commits the event and only then schedules the task. The task of a
*trigger* event (authorization, approved order) runs Stages 5 to 7 in one transaction; the
task of a *terminal* event (capture, failure) observes and attributes every command of the
attempt that it can see. For Razorpay events Stages 2 to 4 run first and commit by
themselves. Times stored by Stages 5 to 8 are not clock readings: they derive from the
event (`t_eval = max(timestamp, ingested_at)`).

What is hard here: two tasks of one attempt in any order; an outcome that is committed
between a barrier's read and the claim; rows committed in another order than their
`ingested_at`; rollback of a transaction that has already dispatched; duplicates,
conflicts and lost acknowledgements of webhooks; lock cycles between terminal tasks; lost
tasks; late events of old windows that rewrite a timeline others are reading; a migration
that checks rows while the older release still writes them.
`hazards` in `PROJECT.json` gives each at its line.

## Modules

| Module | Models | How it corresponds to the code |
|---|---|---|
| `Ingestion` | Stage 1, both providers | A handler is a process; its steps are the awaits of `ingest_event` and `save_ingestion`. Inserted rows are visible to others at commit, and an insert waits while another transaction holds the same identity. `CommitUnacknowledged` commits and raises; `Crash` drops handlers and scheduled tasks. |
| `EventStore` | what the PayPal endpoint promises | A map from identities to hashes, and the verdicts (stored, duplicate, conflict) on their way to the provider; a new one must be true of the map that its step leaves. |
| `ProviderIdentity` | which events start and end attempts, and the registry | Pure operators: `KeyOf`, `Triggers`, `Resolves` are `resolve_pipeline_attempt`; `Register` and `Registered` the repository's two methods; `ValidAttempt` the checks of `AttemptRef`, which the table repeats. |
| `ProviderMigration` | the two revisions that give Stage 5-8 rows a provider, their downgrades, and the guards of `env.py` | A run of Alembic is one transaction whose statements see what is committed before each: `Begin` collects the keys, `Candidates`, `CheckRows` and `Resolve` read the live tables, `Expand` does everything behind the first table lock. `CheckRows` takes PF-03 and PF-07 to PF-14 in one step although each has a snapshot of its own: no modelled commit adds a row that they refuse. PF-01 to PF-19 and PF-B12 to PF-B16 are named at their operators. `Write` is a commit of the current release, or of the older one before revision A, whose behaviour is inferred from what the checks look for and from the module comment it left in `payment_attempts.py`. |
| `RecoveryPipeline` | `live_pipeline` from Stage 5 on, at the grain of the statements that matter between tasks | A task per event with its own uncommitted rows `new[e]` and locks `held[e]`; `db` holds the committed rows. `Occur`, `Normalize`, `Ingest` give an event its three times: when it happened, the `ingested_at` stamped by normalization, and the commit. Rows carry the provider of the event that made them; `Register` refuses a trigger whose key is another provider's. Terminal events are read in two ways: by key in the barrier before the dispatch (`TerminalsOfKey`), under the command's provider in observations (`Terminals`). `Fail` is the `except` branch, `AbortDeadlock` PostgreSQL's detector, `Crash` the restart. |
| `Execution` | Stage 7 in full detail | A session is a transaction around calls of `create_command`, `execute_command` and `observe`; its private row version is `row`, `new_attempt` and `new_obs`. Labels name the next statement. `dispatched`, `lost` and `precluding` are history variables: calls of the executor, those of transactions rolled back, and the terminal events that were committed, with a stamp up to the claim time, when a session locked the command for the claim. |
| `Degradation` | Stages 2 and 3 of one segment | A delivery is a task; `counts` is what the event table would be counted to. Rates stay counts, compared by multiplication. `Reconcile` is the machine of `reconcile_timeline` on the latest signals in window order; `ExpectedEpisodes` says without a machine which episodes a set of BAD and NORMAL windows has. |
| `Diagnosis` | Stage 4's calculator | Pure operators: baselines of the weeks before, excess failures, candidates of each structural dimension with their shares and ranking, the classification, and the fingerprint. Rates and shares stay fractions. |
| `RootCause` | Stage 4 in the task | `evaluate_episode` statement by statement in the loop over ACTIVE episodes: window, events, comparison, advisory lock, append with the commit. What Stage 3 writes before is open (`Detect` may set any episode of the window's segments) and stays uncommitted until the first evaluation is appended. `compared`, the `after` of a row and `overlapped` are history variables. |
| `PayPalClient` | the token cache of the PayPal client | A caller is a handler between the awaits of `verify_webhook_signature`; `lock` and `queue` are `_token_lock`. PayPal's token endpoint is external: it issues a new token at `Issue`, and the answer may be slow. |
| `Decisioning` | Stage 5's deterministic model and Stage 6's gates, eligibility, utility, ranking and verdict | Pure operators over integers; `DefaultPolicy` is `get_default_policy`, `Decide` is `decide` from its gates to `determine_verdict`. |
| `Attribution` | Stage 8's calculator | The weights and the two rounded products, before (`Exposure`, `Protected`) and after the clamps (`Credit`). |
| `Evaluation` | one attempt from its authorizations to its credits | `Store`, `Evaluate` and `Finish` commit rows with any stamp, `Predict` and `MakeDecision` read Stage 4 separately, `Attribute` reads the amount again. |
| `ExecutionProofs`, `PipelineProofs`, `RootCauseProofs`, `DegradationProofs`, `PayPalClientProofs`, `EvaluationProofs`, `ProviderMigrationProofs`, `IngestionProofs` | | Theorems about `Execution`, `RecoveryPipeline`, `RootCause` with `Diagnosis`, `Degradation`, `PayPalClient`, `Decisioning` and `Attribution` with `Evaluation`, `ProviderIdentity` with `ProviderMigration`, and `Ingestion` |
| `MC*` | | Instances for TLC |

Which rows a statement sees is written out (`View...`): the committed ones and the
transaction's own. A statement that waits for a lock is disabled until the lock is free.

Abstractions. Names, bodies, currencies and amounts are members of small sets. A prediction
is `high` or `low`, chosen freely, in `RecoveryPipeline`; `Evaluation` computes it. PayPal's
keys have a prefix, which normalization refuses in other providers' webhooks, so only
razorpay and synthetic events can share one (`PipelineAssumption`); the pipeline's instances
have such a key. MONITOR is folded into NO_ACTION: neither creates a command, and neither
counts against limits (`Decisioning` has both). Provider and process share one clock in
`RecoveryPipeline`, so `t_eval` is `ingested_at`. `ALWAYS_SUCCEED` is what the pipeline
runs; `Execution` admits every result an executor may return.

Figures in `Decisioning` and `Attribution` are integers: probabilities in units of
`1/Scale`, money in minor units, roundings half to even as in the code. The code keeps four
decimals; TLC's instance keeps two, because its integers have 32 bits, and the theorems
hold for every scale. Confidences that accompany a verdict decide nothing and are left out.
So are the kill switch (a constant of the policy) and gate 5: its readers return only
ACTIVE episodes, and nothing writes the audit fields it looks for. `Evaluation` has no
clock: an event's stamp and its commit may lie arbitrarily far apart, so rows appear with
any stamp in any order.

In `RootCause`, RECOVERED and INVALIDATED are one status, ENDED, because the loop selects
neither; `evaluate_episode`'s branches for them have no caller in the pipeline. The weeks
before do not change while tasks run. Row locks of Stage 3 are taken all at once, so that
deadlocks among its upserts do not arise (the pipeline's own are in `RecoveryPipeline`).
Error evidence only adorns the audit payload and is left out. A diagnosis that `Evaluation`
reads is an input there.

## Runs

| Run | Question | Bounds, and why they are enough |
|---|---|---|
| `execution` | Is a command dispatched once, and do tables agree, in every interleaving of create, execute and observe with rollbacks? | Two sessions suffice for every race between a holder and a contender; two decisions of one attempt, one executable; two events of opposite outcome; times 0..1 with TTL 1, so that a command expires, and a terminal event commits late; one lost transaction. |
| `ingestion` | Is evidence kept, is the pipeline scheduled once, does the PayPal endpoint implement `EventStore`, and is every request answered? | Two handlers, both providers, an identity of PayPal's with two good bodies and a defective one, one of Razorpay's with a forged body, a delivery with each other defect, two crashes. A race is between two deliveries. |
| `razorpay_race` (violation) | Is the answer *conflict* only given to a different payload? | No: see below. |
| `pipeline` | Rate limit, justified credit, one provider per key, deciding outcomes | Three beginnings. From nothing: triggers of two attempts and a capture; limit 1 so that two ACT decisions collide; three times, two faults. From stored events: a trigger and a capture of each of two providers under one key, with every order of their stamps; the tasks race for the registry, and the loser's capture finds the winner's commands, or withholds them. From a stored trigger, a capture and a failure stamped in any order and stored in any other, so that a later observation may find an earlier event. 1.9 million states. |
| `pipeline_live` | Exclusive versions, no lock cycle left, commands attributed | A backlog after a restart: the events are stored, some tasks are lost, the others begin at once. Two triggers and two outcomes give two commands that two terminal tasks lock in both orders; two triggers of a registered attempt give a race for versions. Starting from the backlog leaves out only the arrival of events, which `pipeline` covers. |
| `pipeline_late` (violation) | Is a credited capture one that followed the executor's call? | No: see below. |
| `degradation` | Signal log, replay rules, convergence | Six windows of four kinds (empty, normal, bad, worse), every timeline, and a late capture and a late failure of one window. `Required` and `Recovery` are 2 (the code has 3 and 2) so that six windows hold two episodes; the machine is the same for any value. |
| `rca` | Versions, repetitions, sound fingerprints, convergence of diagnoses | Two tasks (a failure in a second window, a late capture in the first) and two episodes (of all payments, of one bank), of which an earlier task may have evaluated one; one failure of a task. Two banks of one currency make candidates of different dimensions compete; few and many failures and four histories (calm weeks, failures of one bank, an outage, too little volume) give every class. The thresholds on failures, volume and windows are scaled to 2; those on shares are the code's. 650 000 states. |
| `rca_baseline` (violation) | Is an episode without excess failures UNKNOWN? | No: see below. |
| `paypal_client` | One fetch for many callers, no stale token, nobody left waiting | Three callers: one fetches, one waits, one comes with an older token; lifetimes shorter and longer than the margin; time 0..4; two tokens, so that a late 401 for the first meets the second. 140 000 states. |
| `evaluation` | Cooldowns, diagnoses, monotone decisions, credited amounts | Two authorizations (late, out of order, of different amounts), one evaluation of Stage 4 that may fall between prediction and decision, all routes of the default policy. Times 0, 100 and 400 s lie within and beyond the cooldowns of 180 and 300 s and give each timing class; the amounts make the utility of the cheapest route straddle its threshold (300) or not (2000); the rates and severities put the risk below, at and above 0.70 and beyond 1. 2.4 million states. |
| `migration` | Does a contracted row have one proven provider, does no detour change it, and is no database left between the revisions? | 77 databases: chains of rows cut at every table, of a Razorpay, a PayPal and a malformed key, with trigger events of one, two, unsupported and no providers, terminal events of the wrong one, and single columns edited by hand; on a plant's database, a developer's, the disposable one and a remote namesake of it. Four runs (down, up and down again needs three), two commits of others between or during them. 217 000 states. |

Deadlock is checked in `execution` and `paypal_client`, where sessions and callers can
always begin anew; the other systems stop when all events are processed.

### What the violations show

* `razorpay_race`: two identical concurrent Razorpay deliveries; the loser of the insert
  is answered 409. PayPal's service compares hashes after the failed insert, Razorpay's
  does not.
* `pipeline_late`: README.md:434 wants captures "at or after intervention execution
  completion". The attempt is recorded to begin at the claim time
  (`execution_service.py:208`), which is the trigger's and not the clock's
  (`live_pipeline.py:246`), and the barrier reads terminal events stamped up to that time. The
  trigger is ingested at 0, the capture happens at 1, the trigger's task runs at 2: it calls
  the executor, records the completion at 1, and the capture is ATTRIBUTED.
* `rca_baseline`: Stage 4 looks for global baselines under `GLOBAL`/`GLOBAL`
  (`core/rca/service.py:228`), Stage 2 stores them as `GLOBAL`/`ALL`. None is found, expected
  failures are 0, and the guard "No net excess failures detected" is never taken once there
  are failures enough. The weeks before hold an outage in one of three: its failures lift
  the volume-weighted baseline above the present but not the medians that find the episode.

Consequences of the code that no document contradicts, and divergences that no run is
about:

* Two tasks that evaluate different windows of a segment at once each replay a timeline
  without the other's signal; the segment's episodes are those of neither timeline until
  its next event. `ReplayConverges` speaks of tasks that do not overlap.
* A terminal event of another provider with the same key withholds the intervention: the
  barrier before the dispatch passes no `source_system` (`execution_service.py:173`), so that
  it reads the events of every provider of the key but PayPal's
  (`execution_repository.py:308-330`), and the owner's command is NOT_NEEDED. It also makes an
  observation of the key's commands, UNKNOWN_IN_FLIGHT while the owner's outcome is not
  known, since the outcome is read under the command's provider; with the same `as_of` as the
  owner's event it makes the owner's task fail on the unique key, which is not retried. The
  "Limitation" in `payment_attempts.py:25` says that such an event can be read for the
  attempt; the amount Stage 6 sizes by is another case
  (`feature_reconstruction_repository.py:46`). `ProvidersKept` says what is left of "never
  merged": no row and no outcome of a key is another provider's.
* The first outcome is the first by `ingested_at` among the committed events, which are
  committed in another order: a row stamped earlier and committed later turns FAILED into
  CAPTURED in the next observation. `DecidingEventMovesBack` says that nothing else does. The
  promise that the outcome never flips (`payment_attempts.py:30`) is made of PayPal's orders.
* PF-15 (`9d2e4f6a8b1c`) reads observations before the first table lock. An observation
  that the older release commits in between is migrated with whatever terminal event it
  names. `HeadSound` leaves out just these.
* After a downgrade, a key whose payment another provider has since authorized too makes
  the next upgrade refuse (PF-05): the revision does not guess.
* An offline script asserts the name of the disposable database and neither host nor port
  (`db_safety.py`), although the disposable database is the one on localhost:5434
  (README.md:540); a namesake elsewhere can be left at
  revision A (`Namesake` in the run). PROJECT_CONTEXT.md speaks of PF-01 to PF-15.
* README.md:243 speaks of at most one intervention command per attempt. Only the route's
  cooldown stands between two triggers of one attempt and two commands.
* Two overlapping tasks may append two evaluations of the same evidence, against the
  docstring of `evaluate_episode`; `tests/integration/test_rca_service_concurrency.py`
  expects just that. `RepeatsAreRaces` says that nothing else leads to it. Likewise an
  evaluation of older evidence may follow one of newer, until the next event.
* The first evaluation that a task appends commits what Stages 2 and 3 wrote before it; a
  failure later in the loop does not undo it.
* `_get_latest_bad_window_start` takes BAD signals of every version, although its docstring
  speaks of the latest evaluation version.
* As long as no global baseline is found, the shares of one dimension's candidates add up to
  no more than the whole, since the denominator is the failures of all. Measured against the
  excess over a baseline they can exceed it, and two be STRONG. No property speaks of this.
* `DiagnosedRouteFits` holds only where Stage 4 committed nothing between a trigger's
  prediction and its decision; otherwise the flag of one candidate admits a route for
  another. `CreditSized` likewise leaves out an authorization stamped before a decision and
  committed after it, which changes the amount Stage 8 credits, although the comment in
  `attribution_service.py:129` speaks of the same authorization.
* Two commands of one attempt may together be credited more than its amount.
* The pipeline decides only above a probability of 0.5, so nothing in the MONITOR range
  below it is monitored. A risk of 0.70 or more without an eligible route gives NO_ACTION
  where less risk gives MONITOR: monotonicity (`ActMonotone`) is a property of ACT only.
* Without degradation the deterministic model stays below 0.53. Stages 2 to 4 exclude PayPal,
  so a PayPal attempt never reaches the ACT threshold in the live pipeline.
* The README's confidence `max(0.25, ...)` is a floor under which the calculator credits
  nothing at all.
* A duplicate Razorpay delivery is answered with a fresh `event_id` (the code comments on
  it).
* Organic captures have no attribution row although the README describes
  UNATTRIBUTED_UNTREATED for them.
* The severity thresholds in the README are not those of `core/degradation/severity.py`
  (the model has the code's).

## Fairness

* `Ingestion!Fairness`: strong for a handler's steps. A waiter in an insert is woken when the
  other transaction ends, and PostgreSQL queues waiters, so others cannot overtake it for ever.
* `PayPalClient!FairSpec`: weak fairness of the step a caller is at. Requests have timeouts,
  so that a fetch or a verification ends, and `asyncio.Lock` is handed on in the order of
  arrival, so that a waiter's turn, once it has come, stays.
* `RecoveryPipeline!Fairness`: strong for a task's steps, weak for deadlock detection.

## Proofs

`ExecutionProofs` proves for any sets of sessions, decisions, attempts and events, any
TTL and any bounds (`Execution`'s named assumptions are all it takes):
`TypeCorrect`, `ExecutorCalledOnce`, `AuditTrailComplete`, `ClaimsAreFresh`,
`BarriersAlwaysRespected`, `ObservationLogAlwaysSound`, `HistoryAlwaysLegal`.

None of the invariants is inductive alone. That nobody dispatches twice rests on the
claim being fresh, which rests on the command read under the lock not having changed,
which rests on everyone who finalizes a command holding the same lock to the end of the
transaction. `IInv` is the conjunction, in that order: `SessionInv` (what a session holds
at each label), `LockInv` (a session past the lock, or with a finalized row, has the
lock), `RowInv` (one uncommitted version per row), `FreshInv` (the committed version
under a working session is not final), `AttemptsMatchStatus` and `NewAttemptInv` (what
attempts record), `LogInv` (logs are finite and numbered), `LedgerInv` (dispatches =
recorded + uncommitted + lost). One lemma per part says that every step preserves it;
`QuietSteps` and the `...Effect` lemmas say once what the steps change, `Inductive` puts
them together. `IInv`'s parts were first checked by TLC.

The last three theorems rest on a second invariant above it (`MoreInv`). A deadline read
at the barrier is still the one the attempt is recorded under, because updates keep the
creation facts (`KeptInv`) and a committed command only ever moves to a final status
(`HistoryStep`). Observations have no lock: an entry waits for every uncommitted one of an
equal key (`ObservingInv`), and the version it was given, the committed maximum plus one at
an earlier moment, follows a log that has no gaps and only grows (`MaxBelow`,
`LogSoundInv`). `BarriersAlwaysRespected` needs of what a session read when it locked the
command (`precluding`) that a session past the barrier has read none and keeps it to the end
of its transaction (`ClearInv`).

`PipelineProofs` proves of `RecoveryPipeline`, for any attempts, events, providers, limits
and clock, with failures and crashes: `RateLimitAlwaysHolds`, `VersionsAlwaysExclusive`,
`ProvidersAlwaysKept`, `CreditAlwaysJustified`, `DecidingEventAlwaysMovesBack`. A version is
a maximum over the rows a task sees plus one, so the first lemma (`MaxVersionIs`) is that
rows with a bound have a maximum; the bound is part of the invariant (`VersionInv`), and
that the bounds of a set of rows have a least comes from the well-foundedness of the
naturals, not from an induction. `IInv` then says what every task has in hand (`TaskInv`),
that who holds new versions, an ACT or an attribution holds the lock they are allocated
under and nobody else does (`LockInv`), that new versions lie above the committed ones
(`FreshInv`), and that rows are those of a registered key of one provider (`RegistryInv`,
`OwnedInv`), which is why the rows a task selects by key *and* provider are all rows of the
key. For the rate limit, every window that ends with a decision holds at most `Limit` ACTs
(`RateInv`): a new ACT enters only windows that its own count includes, since
`count_recent_act_decisions` has no upper bound on `decided_at`, and the rate lock keeps
uncommitted ACTs of others out of the count.

On top of it, `CreditIInv` follows a credit back through the tables: a command is that of
one committed decision (`CommandInv`); a task that acts has seen a high risk, and executes
its own ACT (`RiskInv`); no event is stamped with a time to come (`StampInv`), so that a
recorded completion is never later than the call allows; an execution attempt has that
decision, its prediction and an executor call (`JustifiedInv`); what Stage 8 attributes is
the observation its task has just made and no later one (`LogInv`, where the two unique keys
of observations replace a lock: numbers without gaps and the wait for an equal key keep two
tasks from numbering one command at once); and this observation is that of a stored capture
of the command's own provider, no older than the completion (`CreditInv`). `WithheldInv`
says of a command that was NOT_NEEDED that a terminal event of its key was there, and that
it has no attempt and counts as untreated: `ProvidersAlwaysKept` rests on it, because the
barrier reads by key. `DecidingEventAlwaysMovesBack` rests on `MovesInv`: the event that
decided an observation is still stored when the next one is made, which takes the first of
those stamped up to its `as_of`: whether the earlier event is among them or not, it is
stamped no earlier than that one. Observations in hand and not yet appended are numbered
already, so the invariant includes them. `ViewStep` says once what any step does to what a
task sees: it is its own write, or the union of two earlier views.

`RootCauseProofs` proves for any deliveries, episodes, windows and histories that versions
are allocated exclusively (`VersionsSequential`, `NoIntegrityError`) and that evaluations
repeat by races only (`RepeatsByRaceOnly`). A task compares fingerprints without the lock
and commits inside its loop, so what it knows about the log ages. `IInv` says what of it
lasts: who inserts holds the episode's lock (`BusyInv`), so the log ends where it read it
(`VersionsHold`), which keeps the log dense (`LogInv`); the version compared with differs
from the evidence in hand and stays where it is, because others append only greater
versions (`ComparedInv`); and unless tasks have overlapped it is still the last one, because
then nobody else is at work (`AloneInv`).

`FingerprintsSound` says that totals stand for the counts behind them. That is false of
arbitrary counts; it holds because events are only added: of two readings of the same
windows, by evaluations or by tasks at work, one holds all that the other does
(`EvidenceInv`), so that equal totals mean equal counts of every profile (`SameTotals`).
It takes that the sum over a finite set is recursive and monotone. The library's `FoldSet`
is a recursive function whose equation is an induction over sets; it is proved here by
contradiction (`SumsRecursive`): a least cardinality up to which no such function exists has
a predecessor, whose function can be extended. `DiagnosesConverge` adds `ConvergeInv`: while
nobody has failed or overlapped, the task at work sees every ACTIVE episode diagnosed but
those it has still to evaluate, among its own uncommitted rows too, and what it has read is
what is stored; so it skips an evaluation only if the one it would repeat is the diagnosis.

`CandidatesRanked` is about the arithmetic of one evaluation, so it needs of the behaviour
only that rows are what their windows and tallies say (`RowFits`). A baseline that suffices
has volume, because sums do not depend on the order (`CountsRemove`, `BaselineFits`); so the
denominator of the contributions is a fraction with a global baseline and without
(`TotalFits`), and every contribution to a positive one is. The sort key is then a strict
total order (`BeforeIsOrder`), so that the number of candidates before one is its place
(`RankedSorts`).

The assumptions say of the instance that there are finitely many windows and profiles, that
windows are consecutive, that counts are natural numbers, and that a payment has one value
per field.

`DegradationProofs` proves `SignalLogAlwaysSound`. Stage 3 takes no lock; what keeps the log
of a window dense is the unique key. A version in hand leaves no gap, because the log only
grows (`NumberInv`); an insert waits for an uncommitted equal key and fails on a committed
one, so who has inserted has the next version, and nobody else holds a signal of the window
(`NextInv`). That rows number 1 .. n then means that there are n of them (`LogSize`).

It also proves `ReplayAlwaysMeetsRules`, for any thresholds and any timeline. After each
window the machine agrees with the rules for the windows so far (`Agrees`): it is HEALTHY
when every stretch of BAD windows is over or was too short, BAD_PENDING while it counts the
one that lasts, and DEGRADED or RECOVERY_PENDING while the last episode is open, with its
NORMAL windows counted. There is one lemma for each state and type of signal
(`BadPendingAgrees`, ...); what they need of the rules is that an episode whose recovery is
known stays what it is (`ClosedStays`) and that later windows begin none before
(`StartsBad`, `StartsNormal`). `FoldAgrees` carries it along the timeline, by the least
prefix at which it would fail, and `LatestIs` says that the latest signals, ranked by window,
are a timeline. The proof needed the conditions of `SeverityOf` and `Improve` to exclude one
another, since an ambiguous CASE means any of its arms.

`ReplayAlwaysConverges` follows what an event's task has in hand. While nothing has failed
and tasks have not overlapped, one task runs at a time (`AloneInv`); the latest signal of a
window is the evaluation of its events unless a task of the window has yet to finish
(`EvaluatedInv`); one that has begun since the last event carries its counts (`HandInv`);
and the table as it will be after the upserts that remain has the rules' episodes
(`EpisodesInv`). The last part does not rest on what was stored before: `Compare` invalidates
every row whose start the replay has not found (`ComparedTable`). What it takes is that rows
and plan hold one episode for each start (`TableInv`), whoever fails or overlaps.

`PayPalClientProofs` proves for any callers, lifetimes and margin that the cache is shared
and never stale: `FetchShared`, `ServedTokensAreLive`, `RejectedForgotten`,
`NewTokenIsKept`. A rejected token could come back in two ways: from the cache, or in the
answer of a fetch. So `IInv` adds to `TypeOK` and `RejectedTokenGone` what excludes them:
`LockInv` (the callers that fetch are exactly the lock's owner), `FetchInv` (who fetches
finds no valid token in the cache, and asked no later than now), `NewTokenInv` (the token
on its way lives at least its lifetime from when it was asked for, is not rejected, and
nobody else uses it), and `CacheInv` (the cached token's refresh time is past, or lies at
least the margin before its expiry). The assumption behind it is about PayPal: it issues a fresh token each time.

`EvaluationProofs` proves that rounding half to even is monotone across denominators
(`HalfEvenMonotone`, by contradiction: two neighbours can be exchanged only where both
quotients lie one half between them, and there both must be even), hence `PartsOrdered`:
protected <= exposure <= amount holds before the clamps of `calculate_attribution` for
every amount, risk and confidence. `CreditsClampFree` carries it over to behaviours; its
invariant says that each probability in a table is one (`ProbabilityWithin`) and that each
credit is the calculator's for some amount.

Of the decisions it proves `RoutesCoolDownHolds`, `DiagnosedRouteFitsHolds`,
`CreditSizedHolds` and, of every step, `ActMonotoneHolds`, for every policy whose rates,
costs and order `PolicyAssumption` describes. All of them look through `decide` at the route
that was chosen, so first comes `BestIsCandidate`: of finitely many eligible routes, ranked
by utility and then by order, there is a best one (its utility is the greatest among
integers with a bound, and its order the least among naturals). `ActGrows` then compares two
runs of the calculator: the route that was best for the lesser risk is a candidate for the
greater one. What behaviours add is `ReadInv`: authorizations have stamps of their own (`AuthOK`), the
match flag a task carries is that of the latest diagnosis unless Stage 4 has gone on
(`FlagsOK`), and a row of the decisions is what the facts it was made of admit and is sized
by the latest authorization it could read (`TableOK`).

`ProviderMigrationProofs` proves of the registry, for any keys and events, that `Register`
only adds (`RegisterSound`) and that a key is required with success under one provider
(`OneOwner`); that no database but those of the disposable name is left at revision A
(`NeverIntermediateHolds`: the invariant adds that a run's goal, once admitted, may be
ended at, since the guard looks at the database it connects to before anything is applied);
and that contracting can be undone whatever has been written since
(`DowngradeAlwaysWorks`: composite keys under a registry with one provider per key imply
the single-column keys that the downgrade restores, `SingleKeys`).

Of the rows it proves `TypeCorrect`, `HeadSoundHolds`, `ExpandSufficesHolds` and
`ProvidersStableHolds`, for any legacy rows and whoever writes meanwhile, by an invariant of
three main parts. `DbInv` says what each revision guarantees: nothing is labelled at the base
revision, and from revision A on rows have parents of their own key (`Linked`) and an
observation of a provider is of one of its own events (`Observed`). `RunInv` says what the
checks that a run has passed still mean, though the application commits between them: the
candidates it has collected are stored triggers of the keys it has seen, and stay so because
rows are only added. `GivenInv`
is about the registry's past, which a downgrade drops: whatever provider a key was ever
registered under is that of a trigger that is still stored, so that a later run has it among
its candidates, and with two of them stops.

`IngestionProofs` proves `EvidenceAlwaysSound`, `ScheduledAtMostOnce` and the refinement
`PayPalPromiseKept`, for any handlers, deliveries and crashes; it assumes that a payload's
hash determines it. A handler's look-up is stale when it inserts, so nothing rests on it:
what lasts from the insert to the commit is that nothing is committed under the identity
and nobody else holds its entry of the unique index (`WriterInv`), and that the body has
passed the checks (`CheckedInv`). The records only grow, so an answer that is true of them
when it is given stays true until it is sent (`AnswerInv`), and the event of an answer
"stored" is scheduled by its handler or, after a crash, by nobody (`RunsInv`). For the
refinement a record is the hash that `EventStore` keeps: a commit is its `Record`, and
`Tell` is `AnswerInv` of the state a step leads to (`AlwaysHonest`).

Only model-checked: liveness, which is out of the prover's reach. Every invariant and action
property that a passing run checks is also the statement of a theorem.

## Not modelled

Parsers and normalizers (pure, only their verdict is kept), the logistic models and the
training, the guard of the destructive test and demo scripts, the revisions that create
empty tables, the read-only inspection API with its access
control and dashboard, the scripts. The failure rates and the choice of an episode in
feature reconstruction are planned.

## Plan

1. `Evaluation` reads diagnoses of `Diagnosis` instead of `Evidence`, and RCA's commits are
   composed with `Degradation`, so that the statuses `Detect` leaves open are the replay's.
2. `episode_state_history` in `Degradation` and the choice of the most severe episode.
