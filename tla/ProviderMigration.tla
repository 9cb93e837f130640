-------------------------- MODULE ProviderMigration --------------------------
(***************************************************************************)
(* Alembic revisions 9d2e4f6a8b1c (expand, here "A") and e2d3c4b5a6f7      *)
(* (contract, here "head") of a database whose Stage 5-8 rows belong to no *)
(* provider yet ("base"), the guards of migrations/env.py, and the writers *)
(* that go on meanwhile.                                                   *)
(*                                                                         *)
(* A run is one READ COMMITTED transaction, and each of its statements     *)
(* sees what was committed before it: a check may be stale when the next   *)
(* statement runs.  Checks of the run's own temporary tables are taken     *)
(* together; each reading of the live tables is a step.  From its first    *)
(* ALTER TABLE (payment_events, which every writer reads) nothing else     *)
(* runs, so the rest of a revision is one step.  CheckRows alone takes     *)
(* several readings together: no commit modelled here adds a row that they *)
(* refuse, so that what comes between them cannot matter.                  *)
(***************************************************************************)
EXTENDS ProviderIdentity, FiniteSets

CONSTANTS
  Nothing,     \* NULL
  Events,      \* events that may be stored
  Databases,   \* [local, port, name]
  Legacy,      \* <<database, its rows>> when the migration is deployed
  MaxRuns,     \* bound on the runs of Alembic
  MaxWrites    \* bound on what is committed by others

TestName  == "payment_recovery_test"
Revisions == {"base", "A", "head"}

VARIABLES
  database,  \* the database the runs connect to
  revision,  \* alembic_version
  db,        \* the committed rows
  stage,     \* how far a run has come
  run,       \* its goal and what it has read
  runs,      \* how many runs there were
  writes,    \* how many commits of others
  given,     \* history: <<key, provider>> pairs the registry ever held
  late       \* history: observations the older release committed behind PF-15

bounds == <<runs, writes>>
vars   == <<database, revision, db, stage, run, bounds, given, late>>

-----------------------------------------------------------------------------
(* Rows.  A column source_system that is NULL, or does not exist, holds    *)
(* Nothing.                                                                *)

KeyedTables == {"predictions", "decisions", "commands", "observations", "attributions"}
Tables      == KeyedTables \cup {"executions"}
Versioned   == {"predictions", "decisions", "commands"}
Executed    == {"executions", "observations", "attributions"}  \* of a command

NoRows ==
  [payment_events   |-> {},
   payment_attempts |-> {},  \* [key, provider, reference, trigger]
   predictions      |-> {},  \* [id, key, version, provider]
   decisions        |-> {},  \* [id, prediction, key, version, provider]
   commands         |-> {},  \* [id, decision, key, version, provider]
   executions       |-> {},  \* [id, command, provider]
   observations     |-> {},  \* [id, command, key, terminal, provider]
   attributions     |-> {}]  \* [id, command, decision, key, provider]

KeysOf(d) == UNION {{r.key : r \in d[t]} : t \in KeyedTables}

Ids(d) == \A t \in Tables : \A r, s \in d[t] : r.id = s.id => r = s

\* The single-key constraints the older migrations created
BaseConstraints(d) ==
  /\ Ids(d)
  /\ \A t \in Versioned : \A r, s \in d[t] : r.key = s.key /\ r.version = s.version => r = s
  /\ \A r, s \in d.commands : r.decision = s.decision => r = s
  /\ \A a \in d.attributions : /\ \E c \in d.commands : c.id = a.command
                               /\ \E x \in d.decisions : x.id = a.decision

\* The columns of a table
Columns(t) ==
  CASE t = "predictions"  -> {"id", "key", "version", "provider"}
    [] t = "decisions"    -> {"id", "prediction", "key", "version", "provider"}
    [] t = "commands"     -> {"id", "decision", "key", "version", "provider"}
    [] t = "executions"   -> {"id", "command", "provider"}
    [] t = "observations" -> {"id", "command", "key", "terminal", "provider"}
    [] t = "attributions" -> {"id", "command", "decision", "key", "provider"}

\* Rows of any content that the older migrations admit, of no provider
LegacyRows(d) ==
  /\ DOMAIN d = DOMAIN NoRows
  /\ d.payment_events \subseteq EventsOf(Nat) /\ d.payment_attempts = {}
  /\ \A t \in Tables : \A r \in d[t] : DOMAIN r = Columns(t) /\ r.provider = Nothing
  /\ \A t \in KeyedTables : \A r \in d[t] : r.key \in Texts
  /\ BaseConstraints(d)

ASSUME MigrationAssumption ==
  /\ Nothing \notin Providers /\ Events \subseteq EventsOf(Nat)
  /\ MaxRuns \in Nat /\ MaxWrites \in Nat
  /\ \A start \in Legacy : start[1] \in Databases /\ LegacyRows(start[2])

\* (payment_attempt_id, source_system) REFERENCES payment_attempts
InRegistry(d, r) ==
  \E a \in d.payment_attempts : a.key = r.key /\ a.provider = r.provider

CommandOf(d, r) == \E c \in d.commands : c.id = r.command /\ c.provider = r.provider
DecisionOf(d, r) == \E x \in d.decisions : x.id = r.decision /\ x.provider = r.provider

\* What revision B adds; NOT NULL follows from the keys to the registry and to commands.
HeadConstraints(d) ==
  /\ Ids(d)
  /\ RegistryConstraints(d.payment_attempts, d.payment_events)
  /\ \A t \in Versioned : \A r, s \in d[t] :
       r.key = s.key /\ r.provider = s.provider /\ r.version = s.version => r = s
  /\ \A r, s \in d.commands : r.decision = s.decision => r = s
  /\ \A t \in KeyedTables : \A r \in d[t] : InRegistry(d, r)
  /\ \A t \in {"commands", "attributions"} : \A r \in d[t] : DecisionOf(d, r)
  /\ \A t \in Executed : \A r \in d[t] : CommandOf(d, r)

Constraints(rev, d) ==
  CASE rev = "base" -> BaseConstraints(d)
    [] rev = "A"    -> BaseConstraints(d)
                       /\ RegistryConstraints(d.payment_attempts, d.payment_events)
    [] rev = "head" -> HeadConstraints(d)

-----------------------------------------------------------------------------
(* The guards *)

Disposable(d) == d.local /\ d.port = 5434 /\ d.name = TestName

\* validate_alembic_target: the operator states the name, and allows what is not disposable.
\* The URL of an offline script needs neither, and the script may be run anywhere.
Admitted(d, offline, target, allow) ==
  offline \/ (d.port # 5433 /\ target = d.name /\ (Disposable(d) \/ allow))

\* Mutated form of MayEndAt: the assertion is not emitted.
MayEndAnywhere(goal, offline) == TRUE

\* final_state_requires_assertion, and the assertion on current_database()
MayEndAt(goal, offline) ==
  goal = "A" => database.name = TestName /\ (offline \/ Disposable(database))

-----------------------------------------------------------------------------
(* Revision A: the checks *)

NoRun ==
  [goal |-> "none", offline |-> FALSE, keys |-> [t \in KeyedTables |-> {}],
   candidates |-> {}, draft |-> NoRows]

KeysSeen(u) == UNION {u.keys[t] : t \in KeyedTables}

Candidate(key, e) ==
  /\ e.payment = Plain(key.reference)
  /\ IF key.paypal
       THEN e.source = "paypal" /\ e.type = "order.approved"
       ELSE e.source # "paypal" /\ e.type = "payment.authorized"

CandidatesOf(u, key) == {c.event : c \in {x \in u.candidates : x.key = key}}

\* Mutated form of OneProvider: PF-05 is missing.
AnyProvider(u) == TRUE

OneProvider(u) ==                                                       \* PF-05
  \A b, c \in u.candidates : b.key = c.key => b.event.source = c.event.source

\* PF-01, PF-02, PF-04, PF-05 and PF-06, on the temporary tables
CandidatesSound(u) ==
  /\ \A c \in u.candidates : c.event.source \in Providers
  /\ \A k \in KeysSeen(u) :
       /\ IF k.paypal THEN k.reference \in Grammatical ELSE k.reference # Empty
       /\ CandidatesOf(u, k) # {}
  /\ OneProvider(u)
  /\ u.keys["observations"] \cup u.keys["attributions"] \subseteq u.keys["commands"]

\* Mutated form of RowsAgree: PF-08 compares nothing.
RowsExist(d) ==
  /\ \A e \in d.payment_events : ~(e.source # "paypal" /\ e.payment.paypal)
  /\ \A x \in d.decisions : x.prediction # Nothing =>
       \E p \in d.predictions : p.id = x.prediction
  /\ \A c \in d.commands :
       \E x \in d.decisions : x.id = c.decision /\ x.key = c.key /\ x.version = c.version
  /\ \A r \in d.executions : \E c \in d.commands : c.id = r.command
  /\ \A r \in d.observations : \E c \in d.commands : c.id = r.command /\ c.key = r.key
  /\ \A a \in d.attributions :
       /\ \E c \in d.commands : c.id = a.command /\ c.decision = a.decision /\ c.key = a.key
       /\ \E x \in d.decisions : x.id = a.decision /\ x.key = a.key

\* PF-03, and PF-07 to PF-14: the rows of each table agree with their parents.
RowsAgree(d) ==
  /\ \A e \in d.payment_events : ~(e.source # "paypal" /\ e.payment.paypal)
  /\ \A x \in d.decisions : x.prediction # Nothing =>
       /\ \E p \in d.predictions : p.id = x.prediction
       /\ \A p \in d.predictions : p.id = x.prediction => p.key = x.key
  /\ \A c \in d.commands :
       \E x \in d.decisions : x.id = c.decision /\ x.key = c.key /\ x.version = c.version
  /\ \A r \in d.executions : \E c \in d.commands : c.id = r.command
  /\ \A r \in d.observations : \E c \in d.commands : c.id = r.command /\ c.key = r.key
  /\ \A a \in d.attributions :
       /\ \E c \in d.commands : c.id = a.command /\ c.decision = a.decision /\ c.key = a.key
       /\ \E x \in d.decisions : x.id = a.decision /\ x.key = a.key

\* The first of a set of events, by (ingested_at, event_id)
Earliest(E) ==
  CHOOSE e \in E : \A f \in E : e.at < f.at \/ (e.at = f.at /\ e.id <= f.id)

\* The earliest candidate of each key
Resolved(u) ==
  {LET e == Earliest(CandidatesOf(u, k)) IN
   [key |-> k, provider |-> e.source, reference |-> k.reference, trigger |-> e.id] :
     k \in {c.key : c \in u.candidates}}

\* A terminal event of the row's own attempt
OwnTerminal(d, provider, r) ==
  \E e \in TerminalsOf(d.payment_events, provider, r.key) : e.id = r.terminal

\* PF-15 on the live tables; PF-16 and PF-17
ResolutionSound(d, R) ==
  /\ \A o \in d.observations, r \in R :
       r.key = o.key /\ o.terminal # Nothing => OwnTerminal(d, r.provider, o)
  /\ \A r, s \in R : r.provider = s.provider /\ r.reference = s.reference => r = s
  /\ \A r \in R : r.provider \in Providers /\ (r.provider = "paypal" <=> r.key.paypal)

-----------------------------------------------------------------------------
(* Revision A: the change *)

ProviderIn(R, key) ==
  LET S == {r.provider : r \in {x \in R : x.key = key}}
  IN IF S = {} THEN Nothing ELSE CHOOSE p \in S : TRUE

\* Insert the registry, then backfill the keyed tables, then the executions.
Expanded(d, R) ==
  LET commands == {[r EXCEPT !.provider = ProviderIn(R, r.key)] : r \in d.commands}
      Of(x) == LET S == {c.provider : c \in {y \in commands : y.id = x.command}}
               IN IF S = {} THEN Nothing ELSE CHOOSE p \in S : TRUE
  IN [t \in DOMAIN d |->
        CASE t = "payment_events"   -> d[t]
          [] t = "payment_attempts" -> R
          [] t = "executions" -> {[x EXCEPT !.provider = Of(x)] : x \in d[t]}
          [] OTHER -> {[r EXCEPT !.provider = ProviderIn(R, r.key)] : r \in d[t]}]

\* Mutated form of Complete: PF-19 is missing.
CompleteUnchecked(u, d) == \A k \in KeysSeen(u) : ProviderIn(d.payment_attempts, k) # Nothing

\* PF-18 and PF-19
Complete(u, d) ==
  /\ \A k \in KeysSeen(u) : ProviderIn(d.payment_attempts, k) # Nothing
  /\ \A t \in Tables : \A r \in d[t] : r.provider # Nothing

(* Revision B: PF-B01 to PF-B19, then the constraints *)

Agreed(child, parent) == child.provider = parent.provider

Contractable(d) ==
  /\ \A t \in Tables : \A r \in d[t] : r.provider # Nothing
  /\ \A t \in KeyedTables : \A r \in d[t] : InRegistry(d, r)
  /\ \A t \in {"commands", "attributions"} : \A r \in d[t], x \in d.decisions :
       x.id = r.decision => Agreed(r, x)
  /\ \A t \in Executed : \A r \in d[t], c \in d.commands : c.id = r.command => Agreed(r, c)
  /\ HeadConstraints(d)

-----------------------------------------------------------------------------
(* The steps of a run *)

StartRun(offline) ==
  /\ stage = "idle" /\ runs < MaxRuns
  /\ \E target \in {d.name : d \in Databases}, allow \in BOOLEAN :
       Admitted(database, offline, target, allow)
  /\ runs' = runs + 1

\* A run starts: the guards, then the keys of the five tables (S1).
Begin(goal, offline) ==
  /\ revision = "base"
  /\ StartRun(offline)
  /\ stage' = "keys"
  /\ run' = [NoRun EXCEPT !.goal = goal, !.offline = offline,
                          !.keys = [t \in KeyedTables |-> {r.key : r \in db[t]}]]
  /\ UNCHANGED <<database, revision, db, writes, given, late>>

\* The transaction is rolled back.
EndRun == stage' = "idle" /\ run' = NoRun

\* S2 and S3: the trigger events of the keys
Candidates ==
  LET u == [run EXCEPT !.candidates =
              {c \in [key : KeysSeen(run), event : db.payment_events] : Candidate(c.key, c.event)}]
  IN
  /\ stage = "keys"
  /\ IF CandidatesSound(u) THEN stage' = "candidates" /\ run' = u ELSE EndRun
  /\ UNCHANGED <<database, revision, db, bounds, given, late>>

\* PF-03 and PF-07 to PF-14, each with a snapshot of its own
CheckRows ==
  /\ stage = "candidates"
  /\ IF RowsAgree(db) THEN stage' = "agreed" /\ UNCHANGED run ELSE EndRun
  /\ UNCHANGED <<database, revision, db, bounds, given, late>>

Resolve ==
  /\ stage = "agreed"
  /\ IF ResolutionSound(db, Resolved(run)) THEN stage' = "resolved" /\ UNCHANGED run ELSE EndRun
  /\ UNCHANGED <<database, revision, db, bounds, given, late>>

\* The transaction commits at a revision.
Finish(goal, d) ==
  /\ revision' = goal
  /\ db' = d
  /\ given' = given \cup {<<r.key, r.provider>> : r \in d.payment_attempts}
  /\ EndRun

\* Nothing else runs from here on.
Expand ==
  LET d == Expanded(db, Resolved(run)) IN
  /\ stage = "resolved"
  /\ IF ~(Complete(run, d) /\ RegistryConstraints(d.payment_attempts, d.payment_events))
       THEN EndRun /\ UNCHANGED <<revision, db, given>>
       ELSE IF run.goal = "head"
         THEN /\ stage' = "contract"
              /\ run' = [run EXCEPT !.draft = d]
              /\ UNCHANGED <<revision, db, given>>
         ELSE IF MayEndAt("A", run.offline)
           THEN Finish("A", d)
           ELSE EndRun /\ UNCHANGED <<revision, db, given>>
  /\ UNCHANGED <<database, bounds, late>>

Contract ==
  /\ stage = "contract"
  /\ IF Contractable(run.draft) THEN Finish("head", run.draft)
                                ELSE EndRun /\ UNCHANGED <<revision, db, given>>
  /\ UNCHANGED <<database, bounds, late>>

\* Revision B alone; its constraints are validated under their own locks.
ContractAlone(offline) ==
  /\ revision = "A"
  /\ StartRun(offline)
  /\ Contractable(db)
  /\ Finish("head", db)
  /\ UNCHANGED <<database, writes, late>>

\* Mutated form of Without: the columns stay.
WithoutRegistry(d) == [d EXCEPT !.payment_attempts = {}]

\* What the downgrade of revision A drops
Without(d) ==
  [t \in DOMAIN d |->
     CASE t = "payment_events"   -> d[t]
       [] t = "payment_attempts" -> {}
       [] OTHER -> {[r EXCEPT !.provider = Nothing] : r \in d[t]}]

\* A downgrade fails when a constraint it restores does not hold.
Downgrade(goal, offline) ==
  /\ <<revision, goal>> \in {<<"head", "A">>, <<"head", "base">>, <<"A", "base">>}
  /\ StartRun(offline)
  /\ MayEndAt(goal, offline)
  /\ BaseConstraints(db)
  /\ Finish(goal, IF goal = "base" THEN Without(db) ELSE db)
  /\ UNCHANGED <<database, writes, late>>

\* Another check or statement fails, or the process or the connection is lost.
Abort ==
  /\ stage # "idle"
  /\ EndRun
  /\ UNCHANGED <<database, revision, db, bounds, given, late>>

-----------------------------------------------------------------------------
(* Writers.  A task commits its rows at once; the database refuses what    *)
(* breaks a constraint of the revision it is at.                           *)

Quiet == stage # "contract" /\ writes < MaxWrites

Commit(d) ==
  /\ Constraints(revision, d)
  /\ db' = d
  /\ writes' = writes + 1
  /\ given' = given \cup {<<r.key, r.provider>> : r \in d.payment_attempts}
  /\ UNCHANGED <<database, revision, stage, run, runs>>

\* Stage 1 stores an event; ingested_at was stamped before.
Ingest(e) ==
  /\ Quiet
  /\ e \notin db.payment_events
  /\ Commit([db EXCEPT !.payment_events = @ \cup {e}])
  /\ UNCHANGED late

VersionAfter(R) ==
  LET V == {r.version : r \in R}
  IN CHOOSE n \in 1..Cardinality(V) + 2 : \A v \in V : v < n

\* The prediction of a trigger, with the decision and executed command it may lead to.
\* Versions follow those of the key's rows in `mine'.
WithChain(d, key, provider, mine, acts) ==
  LET NextVersion(t) == VersionAfter({r \in d[t] : r.key = key /\ r.provider \in mine})
      p == [id |-> <<key, NextVersion("predictions")>>, key |-> key,
            version |-> NextVersion("predictions"), provider |-> provider]
      n == NextVersion("decisions")
      x == [id |-> <<key, n>>, prediction |-> p.id, key |-> key, version |-> n,
            provider |-> provider]
      c == [id |-> <<key, n>>, decision |-> x.id, key |-> key, version |-> n,
            provider |-> provider]
  IN IF acts
       THEN [d EXCEPT !.predictions = @ \cup {p}, !.decisions = @ \cup {x},
                      !.commands = @ \cup {c},
                      !.executions = @ \cup
                        {[id |-> <<c.id, 1>>, command |-> c.id, provider |-> provider]}]
       ELSE [d EXCEPT !.predictions = @ \cup {p}]

\* The outcome of a command, and its attribution
WithOutcome(d, c, terminal, provider) ==
  LET n == Cardinality({o \in d.observations : o.command = c.id}) + 1 IN
  [d EXCEPT
     !.observations = @ \cup {[id |-> <<c.id, n>>, command |-> c.id, key |-> c.key,
                               terminal |-> terminal, provider |-> provider]},
     !.attributions = @ \cup {[id |-> <<c.id, n>>, command |-> c.id, decision |-> c.decision,
                               key |-> c.key, provider |-> provider]}]

\* The first ingested of a set of terminal events; there may be none.
FirstOf(E) == IF E = {} THEN Nothing ELSE Earliest(E).id

(* This release, whose queries need the columns of revision A *)

\* A conflict of providers leaves the task without an attempt.
Trigger(e, acts) ==
  LET d == [db EXCEPT !.payment_attempts = Register(@, e)] IN
  /\ Quiet /\ revision # "base"
  /\ e \in db.payment_events /\ Triggers(e)
  /\ Registered(d.payment_attempts, e.source, KeyOf(e))
  /\ Commit(WithChain(d, KeyOf(e), e.source, {e.source}, acts))
  /\ UNCHANGED late

\* The commands are those of the key, whatever their provider; each is observed from its
\* own provider's events.  A record without a provider, or of two, ends the task.
Terminal(e) ==
  /\ Quiet /\ revision # "base"
  /\ e \in db.payment_events /\ Resolves(e)
  /\ \E c \in db.commands :
       /\ c.key = KeyOf(e)
       /\ Registered(db.payment_attempts, c.provider, c.key)
       /\ \E x \in db.decisions : x.id = c.decision /\ x.key = c.key /\ Agreed(x, c)
       /\ \A x \in db.executions : x.command = c.id => Agreed(x, c)
       /\ Commit(WithOutcome(db, c, FirstOf(TerminalsOf(db.payment_events, c.provider, c.key)),
                            c.provider))
  /\ UNCHANGED late

(* The older release, until revision B makes the column NOT NULL: it routes by the key. *)

LegacyTrigger(e, acts) ==
  /\ Quiet /\ revision # "head"
  /\ e \in db.payment_events /\ IsTrigger(e)
  /\ Commit(WithChain(db, KeyOf(e), Nothing, Providers \cup {Nothing}, acts))
  /\ UNCHANGED late

LegacyTerminals(E, key) ==
  {e \in E : /\ e.type \in TerminalTypes
             /\ IF key.paypal THEN e.source = "paypal" /\ e.order = key.reference
                              ELSE e.source # "paypal" /\ e.payment = key}

LegacyTerminal(e) ==
  /\ Quiet /\ revision # "head"
  /\ e \in db.payment_events /\ IsTerminal(e)
  /\ \E c \in db.commands :
       LET d == WithOutcome(db, c, FirstOf(LegacyTerminals(db.payment_events, c.key)), Nothing) IN
       /\ c.key = KeyOf(e)
       /\ Commit(d)
       /\ late' = IF stage = "resolved"
                    THEN late \cup {o.id : o \in d.observations \ db.observations}
                    ELSE late

-----------------------------------------------------------------------------

Init ==
  /\ \E start \in Legacy : database = start[1] /\ db = start[2]
  /\ revision = "base"
  /\ stage = "idle" /\ run = NoRun
  /\ runs = 0 /\ writes = 0
  /\ given = {} /\ late = {}

Migrate ==
  \/ \E offline \in BOOLEAN :
       \/ \E goal \in {"A", "head"} : Begin(goal, offline)
       \/ ContractAlone(offline)
       \/ \E goal \in {"A", "base"} : Downgrade(goal, offline)
  \/ Candidates \/ CheckRows \/ Resolve \/ Expand \/ Contract \/ Abort

Write ==
  \E e \in Events :
    \/ Ingest(e)
    \/ \E acts \in BOOLEAN : Trigger(e, acts) \/ LegacyTrigger(e, acts)
    \/ Terminal(e) \/ LegacyTerminal(e)

Next == Migrate \/ Write

Spec == Init /\ [][Next]_vars

-----------------------------------------------------------------------------
(* Properties *)

\* Every table holds rows of its kind, and a run has a goal and a draft of its own.
TypeOK ==
  /\ database \in Databases /\ revision \in Revisions
  /\ db.payment_events \subseteq EventsOf(Nat)
  /\ \A r \in db.payment_attempts : r.key \in Texts /\ r.provider \in Providers
  /\ \A t \in Tables : \A r \in db[t] : r.provider \in Providers \cup {Nothing}
  /\ \A t \in KeyedTables : \A r \in db[t] : r.key \in Texts
  /\ revision = "base" => /\ db.payment_attempts = {}
                          /\ \A t \in Tables : \A r \in db[t] : r.provider = Nothing
  /\ stage \in {"idle", "keys", "candidates", "agreed", "resolved", "contract"}
  /\ stage = "idle" <=> run = NoRun
  /\ stage # "idle" => revision = "base"
  /\ runs \in 0..MaxRuns /\ writes \in 0..MaxWrites

\* "Every attempt key referenced by Stage 5-8 rows must resolve to exactly one supported
\* provider through a valid trigger event, and every child row must agree with its parent"
\* (9d2e4f6a8b1c): under the contract each row has the provider its key is registered
\* under by a trigger of that provider, and so have the rows it came from, of the same
\* key.  What was committed behind PF-15 is the one exception.
HeadSound ==
  revision = "head" =>
    /\ \A t \in KeyedTables : \A r \in db[t] :
         \E a \in db.payment_attempts, e \in db.payment_events :
           /\ a.key = r.key /\ a.provider = r.provider /\ a.trigger = e.id
           /\ Triggers(e) /\ e.source = r.provider /\ KeyOf(e) = r.key
    /\ \A x \in db.decisions : x.prediction # Nothing =>
         \E p \in db.predictions :
           p.id = x.prediction /\ p.key = x.key /\ p.provider = x.provider
    /\ \A c \in db.commands : \E x \in db.decisions :
         /\ x.id = c.decision /\ x.key = c.key
         /\ x.version = c.version /\ x.provider = c.provider
    /\ \A t \in {"observations", "attributions"} : \A r \in db[t] : \E c \in db.commands :
         c.id = r.command /\ c.key = r.key /\ c.provider = r.provider
    /\ \A a \in db.attributions, c \in db.commands :
         c.id = a.command => c.decision = a.decision
    /\ \A o \in db.observations :
         o.terminal = Nothing \/ o.id \in late \/ OwnTerminal(db, o.provider, o)

\* Both revisions run in one `alembic upgrade head': whatever is committed while revision A
\* checks, once it has passed, revision B finds nothing to refuse.
ExpandSuffices == stage = "contract" => Contractable(run.draft)

\* "It never deletes, rewrites or guesses" (9d2e4f6a8b1c): through downgrades, later events
\* and further upgrades no key is ever registered under two providers.
ProvidersStable == \A g, h \in given : g[1] = h[1] => g[2] = h[2]

\* db_safety.py: "Revisions a non-disposable database must never be left at".  An offline
\* script knows only the name of the database it runs on.
NeverIntermediate == revision = "A" => database.name = TestName

==============================================================================
