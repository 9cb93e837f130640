----------------------- MODULE ProviderMigrationProofs -----------------------
(***************************************************************************)
(* Theorems about ProviderMigration and ProviderIdentity: what Register    *)
(* does to the registry, that only disposable databases are left halfway,  *)
(* and what the rows of every table are at each revision, whatever the     *)
(* older release left, whoever writes meanwhile, and however runs end.     *)
(*                                                                         *)
(* A run decides on what it has read and rewrites rows in the light of it; *)
(* RunInv says what of that survives the commits in between, and GivenInv  *)
(* keeps the past of the registry, which a downgrade drops.                *)
(***************************************************************************)
EXTENDS ProviderMigration, WellFoundedInduction, TLAPS

-----------------------------------------------------------------------------
(* The registry *)

\* INSERT ... ON CONFLICT DO NOTHING (payment_attempt_repository.py): rows are only added,
\* an event's key is registered afterwards, and a key stays registered once.
THEOREM RegisterSound ==
  ASSUME NEW R, NEW e, \A r, s \in R : r.key = s.key => r = s
  PROVE  /\ R \subseteq Register(R, e)
         /\ \E r \in Register(R, e) : r.key = KeyOf(e)
         /\ \A r, s \in Register(R, e) : r.key = s.key => r = s
<1>1. CASE \E r \in R : r.key = KeyOf(e)
  BY <1>1 DEF Register
<1>2. CASE ~\E r \in R : r.key = KeyOf(e)
  <2>1. Register(R, e) = R \cup {AttemptOf(e)}
    BY <1>2 DEF Register
  <2>2. AttemptOf(e).key = KeyOf(e)
    BY DEF AttemptOf
  <2> QED
    BY <1>2, <2>1, <2>2
<1> QED
  BY <1>1, <1>2

\* A registered key resolves to one provider only: require succeeds for at most one.
THEOREM OneOwner ==
  ASSUME NEW R, NEW E, RegistryConstraints(R, E),
         NEW p, NEW q, NEW key, Registered(R, p, key), Registered(R, q, key)
  PROVE  p = q
BY DEF RegistryConstraints, Registered

-----------------------------------------------------------------------------
(* Intermediate revisions *)

\* db_safety.py: revision A stays applied on databases of the disposable name only,
\* whatever is run, downgraded, rendered offline or interrupted.
THEOREM NeverIntermediateHolds == Spec => []NeverIntermediate
<1>1. Init => NeverIntermediate
  BY DEF Init, NeverIntermediate
<1>2. NeverIntermediate /\ [Next]_vars => NeverIntermediate'
  <2> SUFFICES ASSUME NeverIntermediate, [Next]_vars
               PROVE  NeverIntermediate'
    OBVIOUS
  <2> USE DEF NeverIntermediate
  <2>1. ASSUME NEW goal \in {"A", "head"}, NEW offline \in BOOLEAN, Begin(goal, offline)
        PROVE  NeverIntermediate'
    BY <2>1 DEF Begin
  <2>2. ASSUME NEW offline \in BOOLEAN, ContractAlone(offline)
        PROVE  NeverIntermediate'
    BY <2>2 DEF ContractAlone, Finish
  <2>3. ASSUME NEW goal \in {"A", "base"}, NEW offline \in BOOLEAN, Downgrade(goal, offline)
        PROVE  NeverIntermediate'
    BY <2>3 DEF Downgrade, Finish, MayEndAt
  <2>4. CASE Candidates
    BY <2>4 DEF Candidates
  <2>5. CASE CheckRows
    BY <2>5 DEF CheckRows
  <2>6. CASE Resolve
    BY <2>6 DEF Resolve
  <2>7. CASE Expand
    <3>1. revision' = revision \/ MayEndAt("A", run.offline)
      BY <2>7 DEF Expand
    <3>2. database' = database
      BY <2>7 DEF Expand
    <3> QED
      BY <3>1, <3>2 DEF MayEndAt
  <2>8. CASE Contract
    <3>1. database' = database /\ (revision' = revision \/ revision' = "head")
      BY <2>8 DEF Contract, Finish
    <3> QED
      BY <3>1
  <2>9. CASE Abort
    BY <2>9 DEF Abort
  <2>10. CASE Write
    <3>1. PICK d : Commit(d)
      BY <2>10 DEF Write, Ingest, Trigger, LegacyTrigger, Terminal, LegacyTerminal
    <3> QED
      BY <3>1 DEF Commit
  <2>11. CASE UNCHANGED vars
    BY <2>11 DEF vars
  <2> QED
    BY <2>1, <2>2, <2>3, <2>4, <2>5, <2>6, <2>7, <2>8, <2>9, <2>10, <2>11 DEF Next, Migrate
<1> QED
  BY <1>1, <1>2, PTL DEF Spec

-----------------------------------------------------------------------------
(* Downgrades *)

\* Rows under the composite keys satisfy the single-column keys the downgrade restores:
\* a key has one provider in the registry, so rows of a key and version have the same.
LEMMA SingleKeys ==
  ASSUME NEW d, HeadConstraints(d)
  PROVE  BaseConstraints(d)
<1>1. \A t \in Versioned : \A r, s \in d[t] :
        r.key = s.key /\ r.version = s.version => r = s
  <2> SUFFICES ASSUME NEW t \in Versioned, NEW r \in d[t], NEW s \in d[t],
                      r.key = s.key, r.version = s.version
               PROVE  r = s
    OBVIOUS
  <2>1. InRegistry(d, r) /\ InRegistry(d, s)
    BY DEF HeadConstraints, Versioned, KeyedTables
  <2>2. PICK a \in d.payment_attempts : a.key = r.key /\ a.provider = r.provider
    BY <2>1 DEF InRegistry
  <2>3. PICK b \in d.payment_attempts : b.key = s.key /\ b.provider = s.provider
    BY <2>1 DEF InRegistry
  <2>4. \A g, h \in d.payment_attempts : g.key = h.key => g = h
    BY DEF HeadConstraints, RegistryConstraints
  <2>5. a = b
    BY <2>2, <2>3, <2>4
  <2>6. r.provider = s.provider
    BY <2>2, <2>3, <2>5
  <2> QED
    BY <2>6 DEF HeadConstraints
<1>2. \A a \in d.attributions : /\ \E c \in d.commands : c.id = a.command
                                /\ \E x \in d.decisions : x.id = a.decision
  BY DEF HeadConstraints, Executed, CommandOf, DecisionOf
<1>3. Ids(d) /\ \A r, s \in d.commands : r.decision = s.decision => r = s
  BY DEF HeadConstraints
<1> QED
  BY <1>1, <1>2, <1>3 DEF BaseConstraints

\* What PostgreSQL holds at head
HeadHolds == revision = "head" => HeadConstraints(db)

\* e2d3c4b5a6f7: a contracted database can go back at any time; no constraint its downgrade
\* restores can refuse the rows.
DowngradeWorks == revision = "head" => BaseConstraints(db)

LEMMA HeadInvariant == Spec => []HeadHolds
<1>1. Init => HeadHolds
  BY DEF Init, HeadHolds
<1>2. HeadHolds /\ [Next]_vars => HeadHolds'
  <2> SUFFICES ASSUME HeadHolds, [Next]_vars
               PROVE  HeadHolds'
    OBVIOUS
  <2>1. ASSUME UNCHANGED <<revision, db>>
        PROVE  HeadHolds'
    <3>1. HeadConstraints(db)' <=> HeadConstraints(db)
      BY <2>1
    <3> QED
      BY <2>1, <3>1 DEF HeadHolds
  <2>2. ASSUME revision' # "head"
        PROVE  HeadHolds'
    BY <2>2 DEF HeadHolds
  <2>3. ASSUME HeadConstraints(db')
        PROVE  HeadHolds'
    <3>1. HeadConstraints(db)'
      BY <2>3
    <3> QED
      BY <3>1 DEF HeadHolds
  <2>4. ASSUME NEW goal \in {"A", "head"}, NEW offline \in BOOLEAN, Begin(goal, offline)
        PROVE  HeadHolds'
    BY <2>1, <2>4 DEF Begin
  <2>5. ASSUME NEW offline \in BOOLEAN, ContractAlone(offline)
        PROVE  HeadHolds'
    BY <2>3, <2>5 DEF ContractAlone, Finish, Contractable
  <2>6. ASSUME NEW goal \in {"A", "base"}, NEW offline \in BOOLEAN, Downgrade(goal, offline)
        PROVE  HeadHolds'
    BY <2>2, <2>6 DEF Downgrade, Finish
  <2>7. CASE Candidates
    BY <2>1, <2>7 DEF Candidates
  <2>8. CASE CheckRows
    BY <2>1, <2>8 DEF CheckRows
  <2>9. CASE Resolve
    BY <2>1, <2>9 DEF Resolve
  <2>10. CASE Expand
    <3>1. UNCHANGED <<revision, db>> \/ revision' = "A"
      BY <2>10 DEF Expand, Finish
    <3> QED
      BY <2>1, <2>2, <3>1
  <2>11. CASE Contract
    <3>1. UNCHANGED <<revision, db>> \/ (Contractable(run.draft) /\ db' = run.draft)
      BY <2>11 DEF Contract, Finish
    <3> QED
      BY <2>1, <2>3, <3>1 DEF Contractable
  <2>12. CASE Abort
    BY <2>1, <2>12 DEF Abort
  <2>13. CASE Write
    <3>1. PICK d : Commit(d)
      BY <2>13 DEF Write, Ingest, Trigger, LegacyTrigger, Terminal, LegacyTerminal
    <3>2. revision' = revision /\ db' = d /\ Constraints(revision, d)
      BY <3>1 DEF Commit
    <3>3. revision = "head" => HeadConstraints(d)
      BY <3>2 DEF Constraints
    <3> QED
      BY <2>2, <2>3, <3>2, <3>3
  <2>14. CASE UNCHANGED vars
    BY <2>1, <2>14 DEF vars
  <2> QED
    BY <2>4, <2>5, <2>6, <2>7, <2>8, <2>9, <2>10, <2>11, <2>12, <2>13, <2>14 DEF Next, Migrate
<1> QED
  BY <1>1, <1>2, PTL DEF Spec

THEOREM DowngradeAlwaysWorks == Spec => []DowngradeWorks
<1>1. HeadHolds => DowngradeWorks
  BY SingleKeys DEF HeadHolds, DowngradeWorks
<1> QED
  BY <1>1, HeadInvariant, PTL

-----------------------------------------------------------------------------
(* What the database and a run know *)

\* An attempt is registered by a trigger of its provider.
StartedBy(a, e) ==
  a.trigger = e.id /\ Triggers(e) /\ e.source = a.provider /\ KeyOf(e) = a.key

RowsOK(d) ==
  /\ DOMAIN d = DOMAIN NoRows
  /\ d.payment_events \subseteq EventsOf(Nat)
  /\ \A t \in Tables : \A r \in d[t] :
       DOMAIN r = Columns(t) /\ r.provider \in Providers \cup {Nothing}
  /\ \A t \in KeyedTables : \A r \in d[t] : r.key \in Texts

AttemptsOK(d) ==
  \A a \in d.payment_attempts :
    a.key \in KeysOf(d) /\ \E e \in d.payment_events : StartedBy(a, e)

Unlabelled(d) ==
  /\ d.payment_attempts = {}
  /\ \A t \in Tables : \A r \in d[t] : r.provider = Nothing

\* What RowsAgree says of the rows (PF-07 to PF-14)
Linked(d) ==
  /\ \A x \in d.decisions : x.prediction # Nothing =>
       \E p \in d.predictions : p.id = x.prediction /\ p.key = x.key
  /\ \A c \in d.commands :
       \E x \in d.decisions : x.id = c.decision /\ x.key = c.key /\ x.version = c.version
  /\ \A r \in d.executions : \E c \in d.commands : c.id = r.command
  /\ \A r \in d.observations : \E c \in d.commands : c.id = r.command /\ c.key = r.key
  /\ \A a \in d.attributions :
       /\ \E c \in d.commands : c.id = a.command /\ c.decision = a.decision /\ c.key = a.key
       /\ \E x \in d.decisions : x.id = a.decision /\ x.key = a.key

\* An observation that has a provider is of a terminal event of its own attempt, unless it
\* was committed behind PF-15.
Observed(d, l) ==
  \A o \in d.observations :
    o.provider # Nothing /\ o.terminal # Nothing => o.id \in l \/ OwnTerminal(d, o.provider, o)

\* Every key that was ever registered is registered, under the same provider.
Covers(R, G) == \A g \in G : \E a \in R : a.key = g[1] /\ a.provider = g[2]

DbInv ==
  /\ database \in Databases /\ revision \in Revisions
  /\ RowsOK(db) /\ AttemptsOK(db) /\ Constraints(revision, db)
  /\ revision = "base" => Unlabelled(db)
  /\ revision # "base" => Linked(db) /\ Observed(db, late)

\* A registered key was named by a trigger of its provider, and has rows.
GivenInv ==
  /\ ProvidersStable
  /\ \A g \in given :
       /\ g[1] \in KeysOf(db)
       /\ \E e \in db.payment_events : Triggers(e) /\ KeyOf(e) = g[1] /\ e.source = g[2]
  /\ revision # "base" => Covers(db.payment_attempts, given)
  /\ \A a \in db.payment_attempts : <<a.key, a.provider>> \in given

\* The candidates of a run are stored triggers of its keys, and of the provider that a key
\* was registered under before.
CandidatesInv ==
  /\ CandidatesSound(run)
  /\ \A c \in run.candidates :
       /\ c.key \in KeysSeen(run) /\ c.event \in db.payment_events /\ Candidate(c.key, c.event)
       /\ \A g \in given : g[1] = c.key => g[2] = c.event.source

RunInv ==
  /\ stage \in {"idle", "keys", "candidates", "agreed", "resolved", "contract"}
  /\ stage = "idle" => run = NoRun
  /\ stage # "idle" =>
       /\ revision = "base" /\ DOMAIN run = DOMAIN NoRun /\ run.goal \in {"A", "head"}
       /\ KeysSeen(run) \subseteq KeysOf(db) /\ \A g \in given : g[1] \in KeysSeen(run)
  /\ stage \notin {"idle", "keys"} => CandidatesInv
  /\ stage \in {"agreed", "resolved"} => Linked(db)
  /\ stage = "resolved" =>
       \A o \in db.observations, r \in Resolved(run) :
         r.key = o.key /\ o.terminal # Nothing => o.id \in late \/ OwnTerminal(db, r.provider, o)
  /\ stage = "contract" =>
       LET d == run.draft IN
       /\ RowsOK(d) /\ AttemptsOK(d) /\ Linked(d) /\ Observed(d, late) /\ Contractable(d)
       /\ Covers(d.payment_attempts, given)
       /\ d.payment_events = db.payment_events /\ KeysOf(d) = KeysOf(db)

BoundsInv == runs \in 0..MaxRuns /\ writes \in 0..MaxWrites

IInv == DbInv /\ GivenInv /\ RunInv /\ BoundsInv

-----------------------------------------------------------------------------
(* Rows *)

\* A set of naturals with a member has a least one.
LEMMA LeastExists ==
  ASSUME NEW S \in SUBSET Nat, S # {}
  PROVE  \E m \in S : \A n \in S : m <= n
<1>1. PICK m \in S : \A n \in S : ~(<<n, m>> \in OpToRel(<, Nat))
  <2> HIDE DEF OpToRel
  <2>1. S \subseteq Nat
    OBVIOUS
  <2> QED BY <2>1, NatLessThanWellFounded, WFMin, Zenon
<1>2. \A n \in S : ~(n < m)
  BY <1>1 DEF OpToRel
<1> QED BY <1>2

LEMMA TableNames ==
  /\ Tables = {"predictions", "decisions", "commands", "executions", "observations",
               "attributions"}
  /\ DOMAIN NoRows = Tables \cup {"payment_events", "payment_attempts"}
  /\ KeyedTables \subseteq Tables /\ Versioned \subseteq KeyedTables /\ Executed \subseteq Tables
BY DEF Tables, KeyedTables, Versioned, Executed, NoRows

\* A row is stored under another provider; its other columns stay.
Label(r, p) == [r EXCEPT !.provider = p]

LEMMA LabelIs ==
  ASSUME NEW t \in Tables, NEW r, DOMAIN r = Columns(t), NEW p
  PROVE  /\ DOMAIN Label(r, p) = Columns(t) /\ Label(r, p).provider = p
         /\ Label(r, p).id = r.id
         /\ t \in KeyedTables => Label(r, p).key = r.key
         /\ t \in Versioned => Label(r, p).version = r.version
         /\ t = "decisions" => Label(r, p).prediction = r.prediction
         /\ t = "observations" => Label(r, p).terminal = r.terminal
         /\ t \in {"commands", "attributions"} => Label(r, p).decision = r.decision
         /\ t \in Executed => Label(r, p).command = r.command
BY DEF Label, Columns, Tables, KeyedTables, Versioned, Executed

\* The rows of f are those of d under the providers P.
Labelled(d, f, P) ==
  /\ DOMAIN f = DOMAIN d
  /\ f.payment_events = d.payment_events
  /\ \A t \in Tables : f[t] = {Label(r, P[t][r]) : r \in d[t]}

LEMMA LabelledKeys ==
  ASSUME NEW d, RowsOK(d), NEW f, NEW P, Labelled(d, f, P)
  PROVE  KeysOf(f) = KeysOf(d)
<1>1. \A t \in KeyedTables : {r.key : r \in f[t]} = {r.key : r \in d[t]}
  <2> TAKE t \in KeyedTables
  <2>1. t \in Tables /\ \A r \in d[t] : DOMAIN r = Columns(t)
    BY TableNames DEF RowsOK
  <2>2. \A r \in d[t] : Label(r, P[t][r]).key = r.key
    BY <2>1, LabelIs
  <2>3. f[t] = {Label(r, P[t][r]) : r \in d[t]}
    BY <2>1 DEF Labelled
  <2> QED BY <2>2, <2>3
<1> QED BY <1>1 DEF KeysOf

LEMMA LabelledRows ==
  ASSUME NEW d, RowsOK(d), NEW f, NEW P, Labelled(d, f, P),
         \A t \in Tables : \A r \in d[t] : P[t][r] \in Providers \cup {Nothing}
  PROVE  RowsOK(f)
<1>1. ASSUME NEW t \in Tables, NEW s \in f[t]
      PROVE  /\ DOMAIN s = Columns(t) /\ s.provider \in Providers \cup {Nothing}
             /\ t \in KeyedTables => s.key \in Texts
  <2>1. PICK r \in d[t] : s = Label(r, P[t][r])
    BY <1>1 DEF Labelled
  <2>2. DOMAIN r = Columns(t) /\ (t \in KeyedTables => r.key \in Texts)
    BY DEF RowsOK
  <2> QED BY <2>1, <2>2, LabelIs
<1>2. \A t \in KeyedTables : t \in Tables
  BY TableNames
<1> QED BY <1>1, <1>2 DEF RowsOK, Labelled

LEMMA LabelledIds ==
  ASSUME NEW d, RowsOK(d), NEW f, NEW P, Labelled(d, f, P), Ids(d)
  PROVE  Ids(f)
<1> SUFFICES ASSUME NEW t \in Tables, NEW r \in f[t], NEW s \in f[t], r.id = s.id
             PROVE  r = s
  BY DEF Ids
<1>1. PICK q \in d[t] : r = Label(q, P[t][q])
  BY DEF Labelled
<1>2. PICK p \in d[t] : s = Label(p, P[t][p])
  BY DEF Labelled
<1>3. r.id = q.id /\ s.id = p.id
  BY <1>1, <1>2, LabelIs DEF RowsOK
<1> QED BY <1>1, <1>2, <1>3 DEF Ids

\* Links of columns other than the provider are kept.
LEMMA LabelledLinks ==
  ASSUME NEW d, RowsOK(d), NEW f, NEW P, Labelled(d, f, P), Linked(d)
  PROVE  Linked(f)
<1>1. \A t \in Tables : \A s \in f[t] : \E r \in d[t] : s = Label(r, P[t][r])
  BY DEF Labelled
<1>2. \A t \in Tables : \A r \in d[t] : Label(r, P[t][r]) \in f[t] /\ DOMAIN r = Columns(t)
  BY DEF Labelled, RowsOK
<1>3. ASSUME NEW s \in f.decisions, s.prediction # Nothing
      PROVE  \E p \in f.predictions : p.id = s.prediction /\ p.key = s.key
  <2>1. PICK r \in d.decisions : s = Label(r, P.decisions[r]) /\ DOMAIN r = Columns("decisions")
    BY <1>1, <1>2 DEF Tables, KeyedTables
  <2>2. s.prediction = r.prediction /\ s.key = r.key
    BY <2>1, LabelIs DEF Tables, KeyedTables
  <2>3. PICK q \in d.predictions : q.id = r.prediction /\ q.key = r.key
    BY <1>3, <2>2 DEF Linked
  <2>4. Label(q, P.predictions[q]) \in f.predictions /\ DOMAIN q = Columns("predictions")
    BY <1>2 DEF Tables, KeyedTables
  <2>5. /\ Label(q, P.predictions[q]).id = q.id
        /\ Label(q, P.predictions[q]).key = q.key
    BY <2>4, LabelIs DEF Tables, KeyedTables
  <2> QED BY <2>2, <2>3, <2>4, <2>5
<1>4. \A c \in d.commands :
        LET s == Label(c, P.commands[c]) IN
        /\ s \in f.commands /\ s.id = c.id /\ s.key = c.key
        /\ s.decision = c.decision /\ s.version = c.version
  BY <1>2, LabelIs DEF Tables, KeyedTables, Versioned
<1>5. \A x \in d.decisions :
        LET s == Label(x, P.decisions[x]) IN
        s \in f.decisions /\ s.id = x.id /\ s.key = x.key /\ s.version = x.version
  BY <1>2, LabelIs DEF Tables, KeyedTables, Versioned
<1>6. ASSUME NEW s \in f.commands
      PROVE  \E x \in f.decisions : x.id = s.decision /\ x.key = s.key /\ x.version = s.version
  <2>1. PICK c \in d.commands : s = Label(c, P.commands[c])
    BY <1>1 DEF Tables, KeyedTables
  <2>2. PICK x \in d.decisions : x.id = c.decision /\ x.key = c.key /\ x.version = c.version
    BY DEF Linked
  <2> QED BY <1>4, <1>5, <2>1, <2>2
<1>7. ASSUME NEW s \in f.executions
      PROVE  \E c \in f.commands : c.id = s.command
  <2>1. PICK r \in d.executions :
          s = Label(r, P.executions[r]) /\ DOMAIN r = Columns("executions")
    BY <1>1, <1>2 DEF Tables, KeyedTables
  <2>2. s.command = r.command
    BY <2>1, LabelIs DEF Tables, Executed
  <2>3. PICK c \in d.commands : c.id = r.command
    BY DEF Linked
  <2> QED BY <1>4, <2>2, <2>3
<1>8. ASSUME NEW s \in f.observations
      PROVE  \E c \in f.commands : c.id = s.command /\ c.key = s.key
  <2>1. PICK r \in d.observations :
          s = Label(r, P.observations[r]) /\ DOMAIN r = Columns("observations")
    BY <1>1, <1>2 DEF Tables, KeyedTables
  <2>2. s.command = r.command /\ s.key = r.key
    BY <2>1, LabelIs DEF Tables, Executed, KeyedTables
  <2>3. PICK c \in d.commands : c.id = r.command /\ c.key = r.key
    BY DEF Linked
  <2> QED BY <1>4, <2>2, <2>3
<1>9. ASSUME NEW s \in f.attributions
      PROVE  /\ \E c \in f.commands : c.id = s.command /\ c.decision = s.decision /\ c.key = s.key
             /\ \E x \in f.decisions : x.id = s.decision /\ x.key = s.key
  <2>1. PICK r \in d.attributions :
          s = Label(r, P.attributions[r]) /\ DOMAIN r = Columns("attributions")
    BY <1>1, <1>2 DEF Tables, KeyedTables
  <2>2. s.command = r.command /\ s.key = r.key /\ s.decision = r.decision
    BY <2>1, LabelIs DEF Tables, Executed, KeyedTables
  <2>3. PICK c \in d.commands : c.id = r.command /\ c.decision = r.decision /\ c.key = r.key
    BY DEF Linked
  <2>4. PICK x \in d.decisions : x.id = r.decision /\ x.key = r.key
    BY DEF Linked
  <2> QED BY <1>4, <1>5, <2>2, <2>3, <2>4
<1> QED BY <1>3, <1>6, <1>7, <1>8, <1>9 DEF Linked

\* The single-column constraints do not look at providers.
LEMMA LabelledBase ==
  ASSUME NEW d, RowsOK(d), NEW f, NEW P, Labelled(d, f, P), BaseConstraints(d)
  PROVE  BaseConstraints(f)
<1>1. Ids(f)
  BY LabelledIds DEF BaseConstraints
<1>2. \A t \in Tables : \A s \in f[t] : \E r \in d[t] : s = Label(r, P[t][r])
  BY DEF Labelled
<1>3. \A t \in Tables : \A r \in d[t] : Label(r, P[t][r]) \in f[t] /\ DOMAIN r = Columns(t)
  BY DEF Labelled, RowsOK
<1>4. ASSUME NEW t \in Versioned, NEW r \in f[t], NEW s \in f[t],
             r.key = s.key, r.version = s.version
      PROVE  r = s
  <2>1. t \in Tables /\ t \in KeyedTables
    BY TableNames
  <2>2. PICK q \in d[t] : r = Label(q, P[t][q])
    BY <1>2, <2>1
  <2>3. PICK p \in d[t] : s = Label(p, P[t][p])
    BY <1>2, <2>1
  <2>4. /\ r.key = q.key /\ r.version = q.version
        /\ s.key = p.key /\ s.version = p.version
    BY <1>3, <2>1, <2>2, <2>3, LabelIs
  <2> QED BY <1>4, <2>2, <2>3, <2>4 DEF BaseConstraints
<1>5. ASSUME NEW r \in f.commands, NEW s \in f.commands, r.decision = s.decision
      PROVE  r = s
  <2>1. PICK q \in d.commands : r = Label(q, P.commands[q]) /\ DOMAIN q = Columns("commands")
    BY <1>2, <1>3 DEF Tables, KeyedTables
  <2>2. PICK p \in d.commands : s = Label(p, P.commands[p]) /\ DOMAIN p = Columns("commands")
    BY <1>2, <1>3 DEF Tables, KeyedTables
  <2>3. r.decision = q.decision /\ s.decision = p.decision
    BY <2>1, <2>2, LabelIs DEF Tables, KeyedTables
  <2> QED BY <1>5, <2>1, <2>2, <2>3 DEF BaseConstraints
<1>6. ASSUME NEW s \in f.attributions
      PROVE  /\ \E c \in f.commands : c.id = s.command
             /\ \E x \in f.decisions : x.id = s.decision
  <2>1. PICK r \in d.attributions :
          s = Label(r, P.attributions[r]) /\ DOMAIN r = Columns("attributions")
    BY <1>2, <1>3 DEF Tables, KeyedTables
  <2>2. s.command = r.command /\ s.decision = r.decision
    BY <2>1, LabelIs DEF Tables, KeyedTables, Executed
  <2>3. PICK c \in d.commands : c.id = r.command
    BY DEF BaseConstraints
  <2>4. PICK x \in d.decisions : x.id = r.decision
    BY DEF BaseConstraints
  <2>5. Label(c, P.commands[c]) \in f.commands /\ Label(c, P.commands[c]).id = c.id
    BY <1>3, LabelIs DEF Tables, KeyedTables
  <2>6. Label(x, P.decisions[x]) \in f.decisions /\ Label(x, P.decisions[x]).id = x.id
    BY <1>3, LabelIs DEF Tables, KeyedTables
  <2> QED BY <2>2, <2>3, <2>4, <2>5, <2>6
<1> QED BY <1>1, <1>4, <1>5, <1>6 DEF BaseConstraints

-----------------------------------------------------------------------------
(* Writers *)

\* Rows are only added.
Grown(d, f) ==
  /\ DOMAIN f = DOMAIN d
  /\ d.payment_events \subseteq f.payment_events /\ d.payment_attempts \subseteq f.payment_attempts
  /\ \A t \in Tables : d[t] \subseteq f[t]

LEMMA GrownKeys ==
  ASSUME NEW d, NEW f, Grown(d, f)
  PROVE  KeysOf(d) \subseteq KeysOf(f)
<1>1. \A t \in KeyedTables : {r.key : r \in d[t]} \subseteq {r.key : r \in f[t]}
  BY TableNames DEF Grown
<1> QED BY <1>1 DEF KeysOf

LEMMA TerminalKept ==
  ASSUME NEW d, NEW f, d.payment_events \subseteq f.payment_events, NEW p, NEW o,
         OwnTerminal(d, p, o)
  PROVE  OwnTerminal(f, p, o)
BY DEF OwnTerminal, TerminalsOf

\* The rows of a trigger's task
LEMMA ChainIs ==
  ASSUME NEW d, RowsOK(d), NEW key, NEW provider, NEW mine, NEW acts \in BOOLEAN
  PROVE  LET f == WithChain(d, key, provider, mine, acts) IN
         /\ DOMAIN f = DOMAIN d /\ f.payment_events = d.payment_events
         /\ f.payment_attempts = d.payment_attempts
         /\ f.observations = d.observations /\ f.attributions = d.attributions
         /\ \E p, x, c, r :
              /\ DOMAIN p = Columns("predictions") /\ p.key = key /\ p.provider = provider
              /\ DOMAIN x = Columns("decisions") /\ x.key = key /\ x.provider = provider
              /\ x.prediction = p.id
              /\ DOMAIN c = Columns("commands") /\ c.key = key /\ c.provider = provider
              /\ c.decision = x.id /\ c.version = x.version
              /\ DOMAIN r = Columns("executions") /\ r.command = c.id /\ r.provider = provider
              /\ f.predictions = d.predictions \cup {p}
              /\ \/ /\ f.decisions = d.decisions \cup {x} /\ f.commands = d.commands \cup {c}
                    /\ f.executions = d.executions \cup {r}
                 \/ /\ f.decisions = d.decisions /\ f.commands = d.commands
                    /\ f.executions = d.executions
<1> DEFINE NextVersion(t) == VersionAfter({r \in d[t] : r.key = key /\ r.provider \in mine})
           m == NextVersion("predictions")
           n == NextVersion("decisions")
           p == [id |-> <<key, m>>, key |-> key, version |-> m, provider |-> provider]
           x == [id |-> <<key, n>>, prediction |-> p.id, key |-> key, version |-> n,
                 provider |-> provider]
           c == [id |-> <<key, n>>, decision |-> x.id, key |-> key, version |-> n,
                 provider |-> provider]
           r == [id |-> <<c.id, 1>>, command |-> c.id, provider |-> provider]
           f == WithChain(d, key, provider, mine, acts)
<1>1. f = IF acts
          THEN [d EXCEPT !.predictions = @ \cup {p}, !.decisions = @ \cup {x},
                         !.commands = @ \cup {c}, !.executions = @ \cup {r}]
          ELSE [d EXCEPT !.predictions = @ \cup {p}]
  BY DEF WithChain
<1>2. /\ DOMAIN p = Columns("predictions") /\ p.key = key /\ p.provider = provider
      /\ DOMAIN x = Columns("decisions") /\ x.key = key /\ x.provider = provider
      /\ x.prediction = p.id
      /\ DOMAIN c = Columns("commands") /\ c.key = key /\ c.provider = provider
      /\ c.decision = x.id /\ c.version = x.version
      /\ DOMAIN r = Columns("executions") /\ r.command = c.id /\ r.provider = provider
  BY DEF Columns
<1> HIDE DEF p, x, c, r, f
<1>3. /\ "predictions" \in DOMAIN d /\ "decisions" \in DOMAIN d /\ "commands" \in DOMAIN d
      /\ "executions" \in DOMAIN d /\ "payment_events" \in DOMAIN d
      /\ "payment_attempts" \in DOMAIN d /\ "observations" \in DOMAIN d
      /\ "attributions" \in DOMAIN d
  BY DEF RowsOK, NoRows
<1>4. /\ DOMAIN f = DOMAIN d /\ f.payment_events = d.payment_events
      /\ f.payment_attempts = d.payment_attempts
      /\ f.observations = d.observations /\ f.attributions = d.attributions
      /\ f.predictions = d.predictions \cup {p}
  BY <1>1, <1>3
<1>5. \/ /\ f.decisions = d.decisions \cup {x} /\ f.commands = d.commands \cup {c}
         /\ f.executions = d.executions \cup {r}
      \/ /\ f.decisions = d.decisions /\ f.commands = d.commands
         /\ f.executions = d.executions
  BY <1>1, <1>3
<1> QED BY <1>2, <1>4, <1>5 DEF f

LEMMA ChainKeeps ==
  ASSUME NEW d, RowsOK(d), NEW key \in Texts, NEW provider \in Providers \cup {Nothing}, NEW mine,
         NEW acts \in BOOLEAN
  PROVE  LET f == WithChain(d, key, provider, mine, acts) IN
         /\ Grown(d, f) /\ RowsOK(f) /\ key \in KeysOf(f)
         /\ \A t \in Tables : \A r \in f[t] \ d[t] : r.provider = provider
         /\ Linked(d) => Linked(f)
<1> DEFINE f == WithChain(d, key, provider, mine, acts)
<1>1. /\ DOMAIN f = DOMAIN d /\ f.payment_events = d.payment_events
      /\ f.payment_attempts = d.payment_attempts
      /\ f.observations = d.observations /\ f.attributions = d.attributions
  BY ChainIs
<1>2. PICK p, x, c, r :
        /\ DOMAIN p = Columns("predictions") /\ p.key = key /\ p.provider = provider
        /\ DOMAIN x = Columns("decisions") /\ x.key = key /\ x.provider = provider
        /\ x.prediction = p.id
        /\ DOMAIN c = Columns("commands") /\ c.key = key /\ c.provider = provider
        /\ c.decision = x.id /\ c.version = x.version
        /\ DOMAIN r = Columns("executions") /\ r.command = c.id /\ r.provider = provider
        /\ f.predictions = d.predictions \cup {p}
        /\ \/ /\ f.decisions = d.decisions \cup {x} /\ f.commands = d.commands \cup {c}
              /\ f.executions = d.executions \cup {r}
           \/ /\ f.decisions = d.decisions /\ f.commands = d.commands
              /\ f.executions = d.executions
  BY ChainIs
<1> HIDE DEF f
<1>3. \A t \in Tables : d[t] \subseteq f[t] /\ f[t] \ d[t] \subseteq {s \in {p, x, c, r} :
         /\ t = "predictions" => s = p
         /\ t = "decisions" => s = x
         /\ t = "commands" => s = c
         /\ t = "executions" => s = r
         /\ t \notin {"observations", "attributions"}}
  BY <1>1, <1>2, TableNames
<1>4. Grown(d, f)
  BY <1>1, <1>3 DEF Grown
<1>5. \A t \in Tables : \A s \in f[t] \ d[t] : s.provider = provider
  BY <1>2, <1>3
<1>6. \A t \in Tables : \A s \in f[t] : DOMAIN s = Columns(t)
  BY <1>1, <1>2, TableNames DEF RowsOK
<1>7. \A t \in KeyedTables : \A s \in f[t] : s.key \in Texts
  <2>1. KeyedTables = {"predictions", "decisions", "commands", "observations", "attributions"}
    BY DEF KeyedTables
  <2> QED BY <1>1, <1>2, <2>1 DEF RowsOK
<1>8. RowsOK(f)
  BY <1>1, <1>5, <1>6, <1>7 DEF RowsOK
<1>9. key \in KeysOf(f)
  <2>1. p \in f.predictions /\ p.key = key /\ "predictions" \in KeyedTables
    BY <1>2 DEF KeyedTables
  <2> QED BY <2>1 DEF KeysOf
<1>10. ASSUME Linked(d)
       PROVE  Linked(f)
  <2>1. \A s \in f.decisions : s.prediction # Nothing =>
          \E q \in f.predictions : q.id = s.prediction /\ q.key = s.key
    BY <1>2, <1>10 DEF Linked
  <2>2. \A s \in f.commands :
          \E y \in f.decisions : y.id = s.decision /\ y.key = s.key /\ y.version = s.version
    BY <1>2, <1>10 DEF Linked
  <2>3. \A s \in f.executions : \E y \in f.commands : y.id = s.command
    BY <1>2, <1>10 DEF Linked
  <2>4. d.commands \subseteq f.commands /\ d.decisions \subseteq f.decisions
    BY <1>2
  <2>5. \A s \in f.observations : \E y \in f.commands : y.id = s.command /\ y.key = s.key
    BY <1>1, <1>10, <2>4 DEF Linked
  <2>6. \A a \in f.attributions :
          /\ \E y \in f.commands : y.id = a.command /\ y.decision = a.decision /\ y.key = a.key
          /\ \E y \in f.decisions : y.id = a.decision /\ y.key = a.key
    BY <1>1, <1>10, <2>4 DEF Linked
  <2> QED BY <2>1, <2>2, <2>3, <2>5, <2>6 DEF Linked
<1> QED BY <1>4, <1>5, <1>8, <1>9, <1>10 DEF f

\* The rows of an outcome's task
LEMMA OutcomeKeeps ==
  ASSUME NEW d, RowsOK(d), NEW c \in d.commands, NEW terminal,
         NEW provider \in Providers \cup {Nothing}
  PROVE  LET f == WithOutcome(d, c, terminal, provider) IN
         /\ Grown(d, f) /\ RowsOK(f) /\ KeysOf(f) = KeysOf(d)
         /\ f.payment_events = d.payment_events /\ f.payment_attempts = d.payment_attempts
         /\ \A t \in Tables : \A r \in f[t] \ d[t] : r.provider = provider
         /\ \A o \in f.observations \ d.observations : o.key = c.key /\ o.terminal = terminal
         /\ Linked(d) => Linked(f)
<1> DEFINE n == Cardinality({o \in d.observations : o.command = c.id}) + 1
           o == [id |-> <<c.id, n>>, command |-> c.id, key |-> c.key,
                 terminal |-> terminal, provider |-> provider]
           a == [id |-> <<c.id, n>>, command |-> c.id, decision |-> c.decision,
                 key |-> c.key, provider |-> provider]
           f == WithOutcome(d, c, terminal, provider)
<1>1. f = [d EXCEPT !.observations = @ \cup {o}, !.attributions = @ \cup {a}]
  BY DEF WithOutcome
<1>2. /\ DOMAIN o = Columns("observations") /\ o.command = c.id /\ o.key = c.key
      /\ o.terminal = terminal /\ o.provider = provider
      /\ DOMAIN a = Columns("attributions") /\ a.command = c.id /\ a.decision = c.decision
      /\ a.key = c.key /\ a.provider = provider
  BY DEF Columns
<1> HIDE DEF n, o, a, f
<1>3. /\ "predictions" \in DOMAIN d /\ "decisions" \in DOMAIN d /\ "commands" \in DOMAIN d
      /\ "executions" \in DOMAIN d /\ "payment_events" \in DOMAIN d
      /\ "payment_attempts" \in DOMAIN d /\ "observations" \in DOMAIN d
      /\ "attributions" \in DOMAIN d
  BY DEF RowsOK, NoRows
<1>4. /\ DOMAIN f = DOMAIN d /\ f.payment_events = d.payment_events
      /\ f.payment_attempts = d.payment_attempts /\ f.predictions = d.predictions
      /\ f.decisions = d.decisions /\ f.commands = d.commands /\ f.executions = d.executions
      /\ f.observations = d.observations \cup {o} /\ f.attributions = d.attributions \cup {a}
  BY <1>1, <1>3
<1>5. Grown(d, f)
  BY <1>4, TableNames DEF Grown
<1>6. \A t \in Tables : \A r \in f[t] \ d[t] : r.provider = provider
  BY <1>2, <1>4, TableNames
<1>7. \A r \in f.observations \ d.observations : r.key = c.key /\ r.terminal = terminal
  BY <1>2, <1>4
<1>8. \A t \in Tables : \A s \in f[t] : DOMAIN s = Columns(t)
  BY <1>2, <1>4, TableNames DEF RowsOK
<1>9. c.key \in Texts
  BY DEF RowsOK, KeyedTables
<1>10. \A t \in KeyedTables : \A s \in f[t] : s.key \in Texts
  <2>1. KeyedTables = {"predictions", "decisions", "commands", "observations", "attributions"}
    BY DEF KeyedTables
  <2> QED BY <1>2, <1>4, <1>9, <2>1 DEF RowsOK
<1>11. RowsOK(f)
  BY <1>4, <1>6, <1>8, <1>10 DEF RowsOK
<1>12. KeysOf(f) = KeysOf(d)
  <2>1. KeysOf(d) \subseteq KeysOf(f)
    BY <1>5, GrownKeys
  <2>2. ASSUME NEW t \in KeyedTables, NEW s \in f[t]
        PROVE  s.key \in KeysOf(d)
    <3>1. s \in d[t] \/ s.key = c.key
      <4>1. KeyedTables = {"predictions", "decisions", "commands", "observations",
                           "attributions"}
        BY DEF KeyedTables
      <4> QED BY <1>2, <1>4, <4>1
    <3>2. c.key \in KeysOf(d)
      BY DEF KeysOf, KeyedTables
    <3> QED BY <3>1, <3>2 DEF KeysOf
  <2>3. KeysOf(f) \subseteq KeysOf(d)
    BY <2>2 DEF KeysOf
  <2> QED BY <2>1, <2>3
<1>13. ASSUME Linked(d)
       PROVE  Linked(f)
  BY <1>2, <1>4, <1>13 DEF Linked
<1> QED BY <1>4, <1>5, <1>6, <1>7, <1>11, <1>12, <1>13 DEF f

\* A set of events with a member has an earliest one, by (ingested_at, event_id).
LEMMA EarliestIs ==
  ASSUME NEW E \in SUBSET EventsOf(Nat), E # {}
  PROVE  Earliest(E) \in E
<1>1. \A e \in E : e.at \in Nat /\ e.id \in Nat
  BY DEF EventsOf
<1>2. {e.at : e \in E} \in SUBSET Nat /\ {e.at : e \in E} # {}
  BY <1>1
<1>3. PICK e \in E : \A f \in E : e.at <= f.at
  <2>1. PICK m \in {e.at : e \in E} : \A n \in {e.at : e \in E} : m <= n
    BY <1>2, LeastExists
  <2> QED BY <2>1
<1> DEFINE F == {f \in E : f.at = e.at}
<1>4. {f.id : f \in F} \in SUBSET Nat /\ {f.id : f \in F} # {}
  BY <1>1
<1>5. PICK g \in F : \A f \in F : g.id <= f.id
  <2>1. PICK m \in {f.id : f \in F} : \A n \in {f.id : f \in F} : m <= n
    <3> HIDE DEF F
    <3> QED BY <1>4, LeastExists
  <2> QED BY <2>1
<1>6. \A f \in E : g.at < f.at \/ (g.at = f.at /\ g.id <= f.id)
  BY <1>1, <1>3, <1>5
<1>7. g \in E
  OBVIOUS
<1> QED BY <1>6, <1>7 DEF Earliest

\* An outcome observed from the events of a command's own attempt is one of them.
LEMMA FirstIs ==
  ASSUME NEW d, RowsOK(d), NEW p, NEW c, NEW o, o.key = c.key, o.terminal # Nothing,
         o.terminal = FirstOf(TerminalsOf(d.payment_events, p, c.key))
  PROVE  OwnTerminal(d, p, o)
<1> DEFINE E == TerminalsOf(d.payment_events, p, c.key)
<1>1. E \in SUBSET EventsOf(Nat)
  BY DEF RowsOK, TerminalsOf
<1> HIDE DEF E
<1>2. E # {} /\ o.terminal = Earliest(E).id
  BY DEF FirstOf, E
<1>3. Earliest(E) \in E
  BY <1>1, <1>2, EarliestIs
<1> QED BY <1>2, <1>3 DEF OwnTerminal, E

\* A commit of rows that are added keeps what is known of the database and of a run.
LEMMA CommitKeeps ==
  ASSUME IInv, Quiet, NEW f, Commit(f), Grown(db, f), RowsOK(f), AttemptsOK(f),
         Linked(db) => Linked(f), revision = "base" => Unlabelled(f), late \subseteq late',
         \A o \in f.observations \ db.observations :
           /\ o.provider # Nothing /\ o.terminal # Nothing => OwnTerminal(f, o.provider, o)
           /\ stage = "resolved" => o.id \in late'
  PROVE  IInv'
<1>1. /\ Constraints(revision, f) /\ db' = f /\ writes' = writes + 1
      /\ given' = given \cup {<<r.key, r.provider>> : r \in f.payment_attempts}
      /\ UNCHANGED <<database, revision, stage, run, runs>>
  BY DEF Commit
<1>2. BoundsInv'
  BY <1>1, MigrationAssumption DEF Quiet, IInv, BoundsInv
<1>3. f.observations \subseteq (f.observations \ db.observations) \cup db.observations
  OBVIOUS
<1>4. db.payment_events \subseteq f.payment_events
  BY DEF Grown
<1>5. DbInv'
  <2>1. Observed(db, late) => Observed(f, late')
    BY <1>3, <1>4, TerminalKept DEF Observed
  <2>2. RowsOK(db') /\ AttemptsOK(db') /\ Constraints(revision', db')
    BY <1>1
  <2>3. revision' = "base" => Unlabelled(db')
    BY <1>1
  <2>4. revision' # "base" => Linked(db') /\ Observed(db', late')
    BY <1>1, <2>1 DEF IInv, DbInv
  <2>5. database' \in Databases /\ revision' \in Revisions
    BY <1>1 DEF IInv, DbInv
  <2> QED BY <2>2, <2>3, <2>4, <2>5 DEF DbInv
<1>6. GivenInv'
  <2>1. revision = "base" => f.payment_attempts = {}
    BY DEF Unlabelled
  <2>2. ASSUME NEW a \in f.payment_attempts, NEW g \in given, g[1] = a.key
        PROVE  g[2] = a.provider
    <3>1. revision # "base"
      BY <2>1, <2>2
    <3>2. PICK b \in db.payment_attempts : b.key = g[1] /\ b.provider = g[2]
      BY <2>2, <3>1 DEF IInv, GivenInv, Covers
    <3>3. b \in f.payment_attempts
      BY DEF Grown
    <3>4. RegistryConstraints(f.payment_attempts, f.payment_events)
      BY <1>1, <3>1 DEF Constraints, HeadConstraints, IInv, DbInv, Revisions
    <3> QED BY <2>2, <3>2, <3>3, <3>4 DEF RegistryConstraints
  <2>3. ASSUME NEW a \in f.payment_attempts, NEW b \in f.payment_attempts, a.key = b.key
        PROVE  a.provider = b.provider
    <3>1. revision # "base"
      BY <2>1, <2>3
    <3>2. RegistryConstraints(f.payment_attempts, f.payment_events)
      BY <1>1, <3>1 DEF Constraints, HeadConstraints, IInv, DbInv, Revisions
    <3> QED BY <2>3, <3>2 DEF RegistryConstraints
  <2>4. \A g \in given' :
          g \in given \/ \E a \in f.payment_attempts : g[1] = a.key /\ g[2] = a.provider
    BY <1>1
  <2>5. ProvidersStable'
    <3> SUFFICES ASSUME NEW g \in given', NEW h \in given', g[1] = h[1] PROVE g[2] = h[2]
      BY DEF ProvidersStable
    <3>1. CASE g \in given /\ h \in given
      BY <3>1 DEF IInv, GivenInv, ProvidersStable
    <3>2. CASE g \in given /\ h \notin given
      BY <2>2, <2>4, <3>2
    <3>3. CASE g \notin given /\ h \in given
      BY <2>2, <2>4, <3>3
    <3>4. CASE g \notin given /\ h \notin given
      BY <2>3, <2>4, <3>4
    <3> QED BY <3>1, <3>2, <3>3, <3>4
  <2>6. ASSUME NEW g \in given'
        PROVE  /\ g[1] \in KeysOf(f)
               /\ \E e \in f.payment_events : Triggers(e) /\ KeyOf(e) = g[1] /\ e.source = g[2]
    <3>1. CASE g \in given
      BY <1>4, <3>1, GrownKeys DEF IInv, GivenInv
    <3>2. CASE \E a \in f.payment_attempts : g[1] = a.key /\ g[2] = a.provider
      BY <3>2 DEF AttemptsOK, StartedBy
    <3> QED BY <2>4, <3>1, <3>2
  <2>7. ASSUME revision # "base", NEW g \in given'
        PROVE  \E a \in f.payment_attempts : a.key = g[1] /\ a.provider = g[2]
    <3>1. CASE g \in given
      <4>1. PICK b \in db.payment_attempts : b.key = g[1] /\ b.provider = g[2]
        BY <2>7, <3>1 DEF IInv, GivenInv, Covers
      <4> QED BY <4>1 DEF Grown
    <3> QED BY <2>4, <3>1
  <2>8. \A a \in f.payment_attempts : <<a.key, a.provider>> \in given'
    BY <1>1
  <2>9. KeysOf(db)' = KeysOf(f)
    BY <1>1 DEF KeysOf
  <2> QED BY <1>1, <2>5, <2>6, <2>7, <2>8, <2>9 DEF GivenInv, Covers
<1>7. RunInv'
  <2>1. stage # "contract"
    BY DEF Quiet
  <2>2. stage # "idle" => given' = given
    <3>1. stage # "idle" => f.payment_attempts = {}
      BY DEF IInv, RunInv, Unlabelled
    <3> QED BY <1>1, <3>1
  <2>3. /\ stage' \in {"idle", "keys", "candidates", "agreed", "resolved", "contract"}
        /\ stage' = "idle" => run' = NoRun
    BY <1>1 DEF IInv, RunInv
  <2>4. KeysOf(db) \subseteq KeysOf(f)
    BY GrownKeys
  <2>5. ASSUME stage # "idle"
        PROVE  /\ revision' = "base" /\ DOMAIN run' = DOMAIN NoRun /\ run'.goal \in {"A", "head"}
               /\ KeysSeen(run') \subseteq KeysOf(f)
               /\ \A g \in given' : g[1] \in KeysSeen(run')
    BY <1>1, <2>2, <2>4, <2>5 DEF IInv, RunInv
  <2>6. ASSUME stage \notin {"idle", "keys"}
        PROVE  /\ CandidatesSound(run)
               /\ \A c \in run.candidates :
                    /\ c.key \in KeysSeen(run) /\ c.event \in f.payment_events
                    /\ Candidate(c.key, c.event)
                    /\ \A g \in given' : g[1] = c.key => g[2] = c.event.source
    BY <1>4, <2>2, <2>6 DEF IInv, RunInv, CandidatesInv
  <2>7. stage \notin {"idle", "keys"} => CandidatesInv'
    BY <1>1, <2>6 DEF CandidatesInv, CandidatesSound, CandidatesOf, KeysSeen, OneProvider, Candidate
  <2>8. stage \in {"agreed", "resolved"} => Linked(f)
    BY DEF IInv, RunInv
  <2>9. ASSUME stage = "resolved", NEW o \in f.observations, NEW r \in Resolved(run),
               r.key = o.key, o.terminal # Nothing
        PROVE  o.id \in late' \/ OwnTerminal(f, r.provider, o)
    <3>1. CASE o \in db.observations
      BY <1>4, <2>9, <3>1, TerminalKept DEF IInv, RunInv
    <3>2. CASE o \notin db.observations
      BY <2>9, <3>2
    <3> QED BY <3>1, <3>2
  <2>10. KeysOf(db)' = KeysOf(f) /\ KeysSeen(run)' = KeysSeen(run) /\ Resolved(run)' = Resolved(run)
    BY <1>1 DEF KeysOf, KeysSeen, Resolved, CandidatesOf
  <2> QED BY <1>1, <2>1, <2>3, <2>5, <2>7, <2>8, <2>9, <2>10 DEF RunInv
<1> QED BY <1>2, <1>5, <1>6, <1>7 DEF IInv

\* Keys that events name are texts.
LEMMA KeyOfText ==
  ASSUME NEW e \in EventsOf(Nat)
  PROVE  KeyOf(e) \in Texts
BY DEF EventsOf, KeyOf, Texts, PaypalAttemptId

LEMMA StepWrite ==
  ASSUME IInv, Write
  PROVE  IInv'
<1>1. RowsOK(db) /\ AttemptsOK(db) /\ Nothing \notin Providers
  BY MigrationAssumption DEF IInv, DbInv
<1>2. \A e \in db.payment_events : e \in EventsOf(Nat)
  BY <1>1 DEF RowsOK
<1>3. ASSUME NEW e \in Events, Ingest(e)
      PROVE  IInv'
  <2> DEFINE f == [db EXCEPT !.payment_events = @ \cup {e}]
  <2>1. Quiet /\ Commit(f) /\ late' = late
    BY <1>3 DEF Ingest
  <2>2. /\ DOMAIN f = DOMAIN db /\ f.payment_events = db.payment_events \cup {e}
        /\ f.payment_attempts = db.payment_attempts /\ \A t \in Tables : f[t] = db[t]
    BY <1>1, TableNames DEF RowsOK
  <2> HIDE DEF f
  <2>3. Grown(db, f) /\ RowsOK(f)
    BY <1>1, <2>2, MigrationAssumption, TableNames DEF Grown, RowsOK
  <2>4. KeysOf(f) = KeysOf(db)
    BY <2>2, TableNames DEF KeysOf
  <2>5. AttemptsOK(f)
    BY <1>1, <2>2, <2>4 DEF AttemptsOK
  <2>6. Linked(db) => Linked(f)
    BY <2>2, TableNames DEF Linked
  <2>7. revision = "base" => Unlabelled(f)
    BY <2>2 DEF IInv, DbInv, Unlabelled
  <2>8. f.observations \ db.observations = {}
    BY <2>2, TableNames
  <2> QED BY <2>1, <2>3, <2>5, <2>6, <2>7, <2>8, CommitKeeps
<1>4. ASSUME NEW e \in Events, NEW acts \in BOOLEAN, Trigger(e, acts)
      PROVE  IInv'
  <2> DEFINE d == [db EXCEPT !.payment_attempts = Register(@, e)]
             f == WithChain(d, KeyOf(e), e.source, {e.source}, acts)
  <2>1. /\ Quiet /\ revision # "base" /\ e \in db.payment_events /\ Triggers(e)
        /\ Commit(f) /\ late' = late
    BY <1>4 DEF Trigger
  <2>2. /\ DOMAIN d = DOMAIN db /\ d.payment_events = db.payment_events
        /\ d.payment_attempts = Register(db.payment_attempts, e)
        /\ \A t \in Tables : d[t] = db[t]
    BY <1>1, TableNames DEF RowsOK
  <2> HIDE DEF d
  <2>3. RowsOK(d)
    BY <1>1, <2>2, TableNames DEF RowsOK
  <2>4. KeyOf(e) \in Texts /\ e.source \in Providers
    BY <1>2, <2>1, KeyOfText DEF Triggers, HasRole, ValidAttempt
  <2>5. /\ Grown(d, f) /\ RowsOK(f) /\ KeyOf(e) \in KeysOf(f)
        /\ Linked(d) => Linked(f)
    BY <2>3, <2>4, ChainKeeps
  <2>6. /\ f.payment_events = d.payment_events /\ f.payment_attempts = d.payment_attempts
        /\ f.observations = d.observations
    BY <2>3, ChainIs
  <2> HIDE DEF f
  <2>7. db.payment_attempts \subseteq Register(db.payment_attempts, e)
    BY DEF Register
  <2>8. Grown(db, f)
    BY <2>2, <2>5, <2>6, <2>7 DEF Grown
  <2>9. AttemptsOK(f)
    <3> SUFFICES ASSUME NEW a \in f.payment_attempts
                 PROVE  a.key \in KeysOf(f) /\ \E g \in f.payment_events : StartedBy(a, g)
      BY DEF AttemptsOK
    <3>1. a \in db.payment_attempts \/ a = AttemptOf(e)
      BY <2>2, <2>6 DEF Register
    <3>2. CASE a \in db.payment_attempts
      BY <1>1, <2>2, <2>6, <2>8, <3>2, GrownKeys DEF AttemptsOK
    <3>3. CASE a = AttemptOf(e)
      BY <2>1, <2>2, <2>5, <2>6, <3>3 DEF AttemptOf, StartedBy
    <3> QED BY <3>1, <3>2, <3>3
  <2>10. Linked(db) => Linked(f)
    BY <2>2, <2>5, TableNames DEF Linked
  <2>11. f.observations \ db.observations = {}
    BY <2>2, <2>6, TableNames
  <2> QED BY <2>1, <2>5, <2>8, <2>9, <2>10, <2>11, CommitKeeps
<1>5. ASSUME NEW e \in Events, NEW acts \in BOOLEAN, LegacyTrigger(e, acts)
      PROVE  IInv'
  <2> DEFINE f == WithChain(db, KeyOf(e), Nothing, Providers \cup {Nothing}, acts)
  <2>1. Quiet /\ e \in db.payment_events /\ Commit(f) /\ late' = late
    BY <1>5 DEF LegacyTrigger
  <2>2. KeyOf(e) \in Texts
    BY <1>2, <2>1, KeyOfText
  <2>3. /\ Grown(db, f) /\ RowsOK(f)
        /\ Linked(db) => Linked(f)
        /\ \A t \in Tables : \A r \in f[t] \ db[t] : r.provider = Nothing
    BY <1>1, <2>2, ChainKeeps
  <2>4. /\ f.payment_events = db.payment_events /\ f.payment_attempts = db.payment_attempts
        /\ f.observations = db.observations
    BY <1>1, ChainIs
  <2> HIDE DEF f
  <2>5. AttemptsOK(f)
    BY <1>1, <2>3, <2>4, GrownKeys DEF AttemptsOK
  <2>6. revision = "base" => Unlabelled(f)
    BY <2>3, <2>4 DEF IInv, DbInv, Unlabelled
  <2> QED BY <2>1, <2>3, <2>4, <2>5, <2>6, CommitKeeps
<1>6. ASSUME NEW e \in Events, Terminal(e)
      PROVE  IInv'
  <2>1. /\ Quiet /\ revision # "base" /\ late' = late
        /\ \E c \in db.commands :
             /\ Registered(db.payment_attempts, c.provider, c.key)
             /\ Commit(WithOutcome(db, c,
                         FirstOf(TerminalsOf(db.payment_events, c.provider, c.key)), c.provider))
    BY <1>6 DEF Terminal
  <2>2. PICK c \in db.commands :
          Commit(WithOutcome(db, c,
                   FirstOf(TerminalsOf(db.payment_events, c.provider, c.key)), c.provider))
    BY <2>1
  <2> DEFINE terminal == FirstOf(TerminalsOf(db.payment_events, c.provider, c.key))
             f == WithOutcome(db, c, terminal, c.provider)
  <2>3. c.provider \in Providers \cup {Nothing}
    BY <1>1, TableNames DEF RowsOK
  <2> HIDE DEF terminal
  <2>4. /\ Grown(db, f) /\ RowsOK(f) /\ KeysOf(f) = KeysOf(db)
        /\ Linked(db) => Linked(f)
        /\ f.payment_events = db.payment_events /\ f.payment_attempts = db.payment_attempts
        /\ \A t \in Tables : \A r \in f[t] \ db[t] : r.provider = c.provider
        /\ \A o \in f.observations \ db.observations : o.key = c.key /\ o.terminal = terminal
    BY <1>1, <2>3, OutcomeKeeps
  <2>5. Commit(f)
    BY <2>2 DEF terminal
  <2> HIDE DEF f
  <2>6. AttemptsOK(f)
    BY <1>1, <2>4 DEF AttemptsOK
  <2>7. ASSUME NEW o \in f.observations \ db.observations, o.terminal # Nothing
        PROVE  OwnTerminal(f, o.provider, o)
    <3>1. o.key = c.key /\ o.terminal = terminal /\ o.provider = c.provider
      BY <2>4, TableNames
    <3>2. OwnTerminal(db, c.provider, o)
      BY <1>1, <2>7, <3>1, FirstIs DEF terminal
    <3> QED BY <2>4, <3>1, <3>2, TerminalKept
  <2>8. stage # "resolved"
    BY <2>1 DEF IInv, RunInv
  <2> QED BY <2>1, <2>4, <2>5, <2>6, <2>7, <2>8, CommitKeeps
<1>7. ASSUME NEW e \in Events, LegacyTerminal(e)
      PROVE  IInv'
  <2>1. PICK c \in db.commands :
          LET d == WithOutcome(db, c, FirstOf(LegacyTerminals(db.payment_events, c.key)), Nothing)
          IN  /\ Quiet /\ Commit(d)
              /\ late' = IF stage = "resolved"
                         THEN late \cup {o.id : o \in d.observations \ db.observations}
                         ELSE late
    BY <1>7 DEF LegacyTerminal
  <2> DEFINE terminal == FirstOf(LegacyTerminals(db.payment_events, c.key))
             f == WithOutcome(db, c, terminal, Nothing)
  <2> HIDE DEF terminal
  <2>2. /\ Grown(db, f) /\ RowsOK(f) /\ KeysOf(f) = KeysOf(db)
        /\ Linked(db) => Linked(f)
        /\ f.payment_events = db.payment_events /\ f.payment_attempts = db.payment_attempts
        /\ \A t \in Tables : \A r \in f[t] \ db[t] : r.provider = Nothing
    BY <1>1, OutcomeKeeps
  <2>3. /\ Quiet /\ Commit(f)
        /\ late' = IF stage = "resolved"
                   THEN late \cup {o.id : o \in f.observations \ db.observations}
                   ELSE late
    BY <2>1 DEF terminal
  <2> HIDE DEF f
  <2>4. AttemptsOK(f)
    BY <1>1, <2>2 DEF AttemptsOK
  <2>5. revision = "base" => Unlabelled(f)
    BY <2>2 DEF IInv, DbInv, Unlabelled
  <2>6. \A o \in f.observations \ db.observations :
          o.provider = Nothing /\ (stage = "resolved" => o.id \in late')
    BY <2>2, <2>3, TableNames
  <2> QED BY <2>2, <2>3, <2>4, <2>5, <2>6, CommitKeeps
<1> QED BY <1>3, <1>4, <1>5, <1>6, <1>7 DEF Write

-----------------------------------------------------------------------------
(* Steps of a run *)

LEMMA StepStays ==
  ASSUME IInv, UNCHANGED <<database, revision, db, given, late>>
  PROVE  DbInv' /\ GivenInv'
<1>1. DbInv'
  BY DEF IInv, DbInv
<1>2. KeysOf(db)' = KeysOf(db)
  BY DEF KeysOf
<1>3. ProvidersStable'
  BY DEF IInv, GivenInv, ProvidersStable
<1> QED BY <1>1, <1>2, <1>3 DEF IInv, GivenInv

\* A run that is rolled back leaves what it found.
LEMMA StepEnds ==
  ASSUME IInv, UNCHANGED <<database, revision, db, given, late>>, UNCHANGED bounds, EndRun
  PROVE  IInv'
<1>1. BoundsInv'
  BY DEF IInv, BoundsInv, bounds
<1>2. RunInv'
  BY DEF EndRun, RunInv, NoRun
<1> QED BY <1>1, <1>2, StepStays DEF IInv

LEMMA StepStutters ==
  ASSUME IInv, UNCHANGED vars
  PROVE  IInv'
<1>1. BoundsInv'
  BY DEF IInv, BoundsInv, vars, bounds
<1>2. /\ KeysOf(db)' = KeysOf(db) /\ KeysSeen(run)' = KeysSeen(run)
      /\ Resolved(run)' = Resolved(run)
  BY DEF vars, KeysOf, KeysSeen, Resolved, CandidatesOf
<1>3. CandidatesInv' = CandidatesInv
  BY DEF vars, CandidatesInv, CandidatesSound, CandidatesOf, KeysSeen, OneProvider, Candidate
<1>4. RunInv'
  BY <1>2, <1>3 DEF vars, IInv, RunInv
<1> QED BY <1>1, <1>4, StepStays DEF IInv, vars

LEMMA StartKeepsBounds ==
  ASSUME IInv, NEW offline, StartRun(offline), writes' = writes
  PROVE  BoundsInv' /\ stage = "idle"
BY MigrationAssumption DEF IInv, BoundsInv, StartRun

LEMMA StepBegin ==
  ASSUME IInv, NEW goal \in {"A", "head"}, NEW offline \in BOOLEAN, Begin(goal, offline)
  PROVE  IInv'
<1>1. /\ revision = "base" /\ StartRun(offline) /\ stage' = "keys"
      /\ run' = [NoRun EXCEPT !.goal = goal, !.offline = offline,
                              !.keys = [t \in KeyedTables |-> {r.key : r \in db[t]}]]
      /\ UNCHANGED <<database, revision, db, writes, given, late>>
  BY DEF Begin
<1>2. run'.goal = goal /\ DOMAIN run' = DOMAIN NoRun
      /\ run'.keys = [t \in KeyedTables |-> {r.key : r \in db[t]}]
  BY <1>1 DEF NoRun
<1>3. KeysSeen(run') = KeysOf(db)
  BY <1>2 DEF KeysSeen, KeysOf
<1>4. KeysOf(db)' = KeysOf(db) /\ KeysSeen(run)' = KeysSeen(run')
  BY <1>1 DEF KeysOf, KeysSeen
<1>5. \A g \in given : g[1] \in KeysOf(db)
  BY DEF IInv, GivenInv
<1>6. /\ stage' = "keys" /\ revision' = "base" /\ DOMAIN run' = DOMAIN NoRun
      /\ run'.goal \in {"A", "head"} /\ KeysSeen(run)' = KeysOf(db)' /\ given' = given
      /\ \A g \in given : g[1] \in KeysSeen(run)'
  <2>1. /\ stage' = "keys" /\ revision' = "base" /\ given' = given
    BY <1>1
  <2>2. DOMAIN run' = DOMAIN NoRun /\ run'.goal \in {"A", "head"}
    BY <1>2
  <2>3. KeysSeen(run)' = KeysOf(db)' /\ KeysSeen(run)' = KeysOf(db)
    BY <1>3, <1>4
  <2> QED BY <1>5, <2>1, <2>2, <2>3
<1>7. RunInv'
  BY <1>6 DEF RunInv
<1> QED BY <1>1, <1>7, StepStays, StartKeepsBounds DEF IInv

\* The trigger of a key is among the candidates of the key.
LEMMA TriggerIsCandidate ==
  ASSUME NEW e \in EventsOf(Nat), Triggers(e)
  PROVE  Candidate(KeyOf(e), e)
<1>1. e.payment = Plain(e.payment.reference) \/ e.payment.paypal
  BY DEF EventsOf, Texts, Plain
<1>2. CASE e.source = "paypal"
  BY <1>1, <1>2 DEF Triggers, HasRole, IsTrigger, KeyOf, Candidate, PaypalAttemptId, Plain
<1>3. CASE e.source # "paypal"
  <2>1. KeyOf(e) = e.payment /\ e.payment = Plain(e.payment.reference)
    BY <1>3 DEF Triggers, HasRole, KeyOf, ValidAttempt
  <2>2. ~e.payment.paypal
    BY <2>1 DEF Plain
  <2> QED BY <1>3, <2>1, <2>2 DEF Triggers, IsTrigger, Candidate
<1> QED BY <1>2, <1>3

LEMMA StepCandidates ==
  ASSUME IInv, Candidates
  PROVE  IInv'
<1> DEFINE u == [run EXCEPT !.candidates = {c \in [key : KeysSeen(run), event : db.payment_events] :
                                              Candidate(c.key, c.event)}]
<1>1. /\ stage = "keys" /\ UNCHANGED <<database, revision, db, given, late>> /\ UNCHANGED bounds
      /\ IF CandidatesSound(u) THEN stage' = "candidates" /\ run' = u ELSE EndRun
  BY DEF Candidates
<1>2. CASE EndRun
  BY <1>1, <1>2, StepEnds
<1>3. CASE CandidatesSound(u) /\ stage' = "candidates" /\ run' = u
  <2>1. PICK v : v = u
    OBVIOUS
  <2>2. /\ DOMAIN v = DOMAIN NoRun /\ v.goal = run.goal /\ v.keys = run.keys
        /\ v.candidates = {c \in [key : KeysSeen(run), event : db.payment_events] :
                             Candidate(c.key, c.event)}
    BY <1>1, <2>1 DEF IInv, RunInv, NoRun
  <2>3. CandidatesSound(v) /\ run' = v
    BY <1>3, <2>1
  <2> HIDE DEF u
  <2>4. KeysSeen(v) = KeysSeen(run)
    BY <2>2 DEF KeysSeen
  <2>5. ASSUME NEW c \in v.candidates, NEW g \in given, g[1] = c.key
        PROVE  g[2] = c.event.source
    <3>1. PICK e \in db.payment_events : Triggers(e) /\ KeyOf(e) = c.key /\ e.source = g[2]
      BY <2>5 DEF IInv, GivenInv
    <3>2. Candidate(c.key, e)
      BY <3>1, TriggerIsCandidate DEF IInv, DbInv, RowsOK
    <3>3. c.key \in KeysSeen(run)
      BY <2>2
    <3>4. [key |-> c.key, event |-> e] \in v.candidates
      BY <2>2, <3>2, <3>3
    <3>5. OneProvider(v)
      BY <2>3 DEF CandidatesSound
    <3> QED BY <3>1, <3>4, <3>5 DEF OneProvider
  <2>6. CandidatesInv'
    <3>1. CandidatesSound(run)'
      BY <2>3 DEF CandidatesSound, CandidatesOf, KeysSeen, OneProvider
    <3>2. \A c \in v.candidates :
            c.key \in KeysSeen(run) /\ c.event \in db.payment_events /\ Candidate(c.key, c.event)
      BY <2>2
    <3>3. KeysSeen(run)' = KeysSeen(run)
      BY <2>3, <2>4 DEF KeysSeen
    <3> QED BY <1>1, <2>3, <2>5, <3>1, <3>2, <3>3 DEF CandidatesInv, Candidate
  <2>7. KeysSeen(run)' = KeysSeen(run) /\ KeysOf(db)' = KeysOf(db)
    BY <1>1, <2>3, <2>4 DEF KeysSeen, KeysOf
  <2>8. RunInv'
    BY <1>1, <1>3, <2>2, <2>3, <2>6, <2>7 DEF IInv, RunInv
  <2>9. BoundsInv'
    BY <1>1 DEF IInv, BoundsInv, bounds
  <2> QED BY <1>1, <2>8, <2>9, StepStays DEF IInv
<1> QED BY <1>1, <1>2, <1>3

LEMMA StepCheckRows ==
  ASSUME IInv, CheckRows
  PROVE  IInv'
<1>1. /\ stage = "candidates" /\ UNCHANGED <<database, revision, db, given, late>>
      /\ UNCHANGED bounds
      /\ EndRun \/ (RowsAgree(db) /\ stage' = "agreed" /\ run' = run)
  BY DEF CheckRows
<1>2. CASE EndRun
  BY <1>1, <1>2, StepEnds
<1>3. CASE RowsAgree(db) /\ stage' = "agreed" /\ run' = run
  <2>1. Linked(db)
    BY <1>3 DEF RowsAgree, Linked
  <2>2. KeysOf(db)' = KeysOf(db) /\ KeysSeen(run)' = KeysSeen(run)
    BY <1>1, <1>3 DEF KeysOf, KeysSeen
  <2>3. CandidatesInv' = CandidatesInv
    BY <1>1, <1>3
       DEF CandidatesInv, CandidatesSound, CandidatesOf, KeysSeen, OneProvider, Candidate
  <2>4. RunInv'
    BY <1>1, <1>3, <2>1, <2>2, <2>3 DEF IInv, RunInv
  <2>5. BoundsInv'
    BY <1>1 DEF IInv, BoundsInv, bounds
  <2> QED BY <1>1, <2>4, <2>5, StepStays DEF IInv
<1> QED BY <1>1, <1>2, <1>3

LEMMA StepResolve ==
  ASSUME IInv, Resolve
  PROVE  IInv'
<1>1. /\ stage = "agreed" /\ UNCHANGED <<database, revision, db, given, late>>
      /\ UNCHANGED bounds
      /\ EndRun \/ (ResolutionSound(db, Resolved(run)) /\ stage' = "resolved" /\ run' = run)
  BY DEF Resolve
<1>2. CASE EndRun
  BY <1>1, <1>2, StepEnds
<1>3. CASE ResolutionSound(db, Resolved(run)) /\ stage' = "resolved" /\ run' = run
  <2>1. \A o \in db.observations, r \in Resolved(run) :
          r.key = o.key /\ o.terminal # Nothing => OwnTerminal(db, r.provider, o)
    BY <1>3 DEF ResolutionSound
  <2>2. /\ KeysOf(db)' = KeysOf(db) /\ KeysSeen(run)' = KeysSeen(run)
        /\ Resolved(run)' = Resolved(run)
    BY <1>1, <1>3 DEF KeysOf, KeysSeen, Resolved, CandidatesOf
  <2>3. CandidatesInv' = CandidatesInv
    BY <1>1, <1>3
       DEF CandidatesInv, CandidatesSound, CandidatesOf, KeysSeen, OneProvider, Candidate
  <2>4. RunInv'
    BY <1>1, <1>3, <2>1, <2>2, <2>3 DEF IInv, RunInv
  <2>5. BoundsInv'
    BY <1>1 DEF IInv, BoundsInv, bounds
  <2> QED BY <1>1, <2>4, <2>5, StepStays DEF IInv
<1> QED BY <1>1, <1>2, <1>3

LEMMA StepAbort ==
  ASSUME IInv, Abort
  PROVE  IInv'
BY StepEnds DEF Abort

\* A run that commits rows of the same keys and events leaves what a database at its
\* revision holds.
LEMMA FinishKeeps ==
  ASSUME IInv, NEW goal \in Revisions, NEW f, Finish(goal, f), BoundsInv',
         UNCHANGED <<database, late>>,
         RowsOK(f), AttemptsOK(f), Constraints(goal, f), goal = "base" => Unlabelled(f),
         goal # "base" => Linked(f) /\ Observed(f, late) /\ Covers(f.payment_attempts, given),
         f.payment_events = db.payment_events, KeysOf(f) = KeysOf(db)
  PROVE  IInv'
<1>1. /\ revision' = goal /\ db' = f /\ EndRun
      /\ given' = given \cup {<<r.key, r.provider>> : r \in f.payment_attempts}
  BY DEF Finish
<1>2. DbInv'
  BY <1>1 DEF IInv, DbInv
<1>3. RunInv'
  BY <1>1 DEF EndRun, RunInv
<1>4. GivenInv'
  <2>1. goal # "base" => RegistryConstraints(f.payment_attempts, f.payment_events)
    BY DEF Constraints, HeadConstraints, Revisions
  <2>2. goal = "base" => f.payment_attempts = {}
    BY DEF Unlabelled
  <2>3. \A g \in given' :
          g \in given \/ \E a \in f.payment_attempts : g[1] = a.key /\ g[2] = a.provider
    BY <1>1
  <2>4. ASSUME goal # "base", NEW g \in given'
        PROVE  \E a \in f.payment_attempts : a.key = g[1] /\ a.provider = g[2]
    BY <2>3, <2>4 DEF Covers
  <2>5. ProvidersStable'
    <3> SUFFICES ASSUME NEW g \in given', NEW h \in given', g[1] = h[1] PROVE g[2] = h[2]
      BY DEF ProvidersStable
    <3>1. CASE goal = "base"
      BY <2>2, <2>3, <3>1 DEF IInv, GivenInv, ProvidersStable
    <3>2. CASE goal # "base"
      <4>1. PICK a \in f.payment_attempts : a.key = g[1] /\ a.provider = g[2]
        BY <2>4, <3>2
      <4>2. PICK b \in f.payment_attempts : b.key = h[1] /\ b.provider = h[2]
        BY <2>4, <3>2
      <4> QED BY <2>1, <3>2, <4>1, <4>2 DEF RegistryConstraints
    <3> QED BY <3>1, <3>2
  <2>6. ASSUME NEW g \in given'
        PROVE  /\ g[1] \in KeysOf(f)
               /\ \E e \in f.payment_events : Triggers(e) /\ KeyOf(e) = g[1] /\ e.source = g[2]
    <3>1. CASE g \in given
      BY <3>1 DEF IInv, GivenInv
    <3>2. CASE \E a \in f.payment_attempts : g[1] = a.key /\ g[2] = a.provider
      BY <3>2 DEF AttemptsOK, StartedBy
    <3> QED BY <2>3, <3>1, <3>2
  <2>7. \A a \in f.payment_attempts : <<a.key, a.provider>> \in given'
    BY <1>1
  <2>8. KeysOf(db)' = KeysOf(f)
    BY <1>1 DEF KeysOf
  <2> QED BY <1>1, <2>4, <2>5, <2>6, <2>7, <2>8 DEF GivenInv, Covers
<1> QED BY <1>2, <1>3, <1>4 DEF IInv

LEMMA StepContract ==
  ASSUME IInv, Contract
  PROVE  IInv'
<1>1. /\ stage = "contract" /\ UNCHANGED <<database, late>> /\ UNCHANGED bounds
      /\ \/ Contractable(run.draft) /\ Finish("head", run.draft)
         \/ EndRun /\ UNCHANGED <<revision, db, given>>
  BY DEF Contract
<1>2. BoundsInv'
  BY <1>1 DEF IInv, BoundsInv, bounds
<1>3. CASE Contractable(run.draft) /\ Finish("head", run.draft)
  <2>1. Constraints("head", run.draft)
    BY <1>3 DEF Contractable, Constraints
  <2> QED BY <1>1, <1>2, <1>3, <2>1, FinishKeeps DEF Revisions, IInv, RunInv
<1>4. CASE EndRun /\ UNCHANGED <<revision, db, given>>
  BY <1>1, <1>4, StepEnds
<1> QED BY <1>1, <1>3, <1>4

LEMMA StepContractAlone ==
  ASSUME IInv, NEW offline \in BOOLEAN, ContractAlone(offline)
  PROVE  IInv'
<1>1. /\ revision = "A" /\ StartRun(offline) /\ Contractable(db) /\ Finish("head", db)
      /\ UNCHANGED <<database, writes, late>>
  BY DEF ContractAlone
<1>2. Constraints("head", db)
  BY <1>1 DEF Contractable, Constraints
<1>3. BoundsInv'
  BY <1>1, StartKeepsBounds
<1>4. RowsOK(db) /\ AttemptsOK(db) /\ Linked(db) /\ Observed(db, late)
      /\ Covers(db.payment_attempts, given)
  BY <1>1 DEF IInv, DbInv, GivenInv
<1> QED BY <1>1, <1>2, <1>3, <1>4, FinishKeeps DEF Revisions

LEMMA WithoutIs ==
  ASSUME NEW d, RowsOK(d), BaseConstraints(d), Nothing \notin Providers
  PROVE  LET f == Without(d) IN
         /\ RowsOK(f) /\ AttemptsOK(f) /\ Unlabelled(f) /\ BaseConstraints(f)
         /\ f.payment_events = d.payment_events /\ KeysOf(f) = KeysOf(d)
<1> DEFINE f == Without(d)
           P == [t \in Tables |-> [r \in d[t] |-> Nothing]]
<1>1. /\ DOMAIN f = DOMAIN d /\ f.payment_events = d.payment_events /\ f.payment_attempts = {}
      /\ \A t \in Tables : f[t] = {Label(r, Nothing) : r \in d[t]}
  BY TableNames DEF Without, RowsOK, Label
<1>2. \A t \in Tables : \A r \in d[t] : P[t][r] = Nothing
  OBVIOUS
<1> HIDE DEF f, P
<1>3. Labelled(d, f, P)
  BY <1>1, <1>2 DEF Labelled
<1>4. Unlabelled(f)
  <2>1. ASSUME NEW t \in Tables, NEW s \in f[t]
        PROVE  s.provider = Nothing
    <3>1. PICK r \in d[t] : s = Label(r, Nothing)
      BY <1>1
    <3> QED BY <3>1, LabelIs DEF RowsOK
  <2> QED BY <1>1, <2>1 DEF Unlabelled
<1>5. RowsOK(f)
  BY <1>2, <1>3, LabelledRows
<1>6. AttemptsOK(f)
  BY <1>1 DEF AttemptsOK
<1>7. BaseConstraints(f) /\ KeysOf(f) = KeysOf(d)
  BY <1>3, LabelledBase, LabelledKeys
<1> QED BY <1>1, <1>4, <1>5, <1>6, <1>7 DEF f

LEMMA StepDowngrade ==
  ASSUME IInv, NEW goal \in {"A", "base"}, NEW offline \in BOOLEAN, Downgrade(goal, offline)
  PROVE  IInv'
<1>1. /\ goal = "A" => revision = "head"
      /\ StartRun(offline) /\ BaseConstraints(db)
      /\ Finish(goal, IF goal = "base" THEN Without(db) ELSE db)
      /\ UNCHANGED <<database, writes, late>>
  BY DEF Downgrade
<1>2. RowsOK(db) /\ AttemptsOK(db) /\ Nothing \notin Providers
  BY MigrationAssumption DEF IInv, DbInv
<1>3. BoundsInv'
  BY <1>1, StartKeepsBounds
<1>4. CASE goal = "base"
  <2>1. PICK f : f = Without(db)
    OBVIOUS
  <2>2. /\ RowsOK(f) /\ AttemptsOK(f) /\ Unlabelled(f) /\ BaseConstraints(f)
        /\ f.payment_events = db.payment_events /\ KeysOf(f) = KeysOf(db)
    BY <1>1, <1>2, <2>1, WithoutIs
  <2>3. Finish("base", f) /\ Constraints("base", f)
    BY <1>1, <1>4, <2>1, <2>2 DEF Constraints
  <2> QED BY <1>1, <1>3, <2>2, <2>3, FinishKeeps DEF Revisions
<1>5. CASE goal = "A"
  <2>1. revision = "head"
    BY <1>1, <1>5
  <2>2. RegistryConstraints(db.payment_attempts, db.payment_events)
    BY <2>1 DEF IInv, DbInv, Constraints, HeadConstraints
  <2>3. Finish("A", db) /\ Constraints("A", db)
    BY <1>1, <1>5, <2>2 DEF Constraints
  <2>4. Linked(db) /\ Observed(db, late) /\ Covers(db.payment_attempts, given)
    BY <2>1 DEF IInv, DbInv, GivenInv
  <2> QED BY <1>1, <1>2, <1>3, <2>3, <2>4, FinishKeeps DEF Revisions
<1> QED BY <1>4, <1>5

-----------------------------------------------------------------------------
(* The change of revision A *)

LEMMA CandidateTriggers ==
  ASSUME NEW key \in Texts, NEW e \in EventsOf(Nat), Candidate(key, e), e.source \in Providers,
         IF key.paypal THEN key.reference \in Grammatical ELSE key.reference # Empty
  PROVE  Triggers(e) /\ KeyOf(e) = key
<1>1. key = [paypal |-> key.paypal, reference |-> key.reference] /\ key.paypal \in BOOLEAN
  BY DEF Texts
<1>2. ~e.payment.paypal /\ e.payment.reference = key.reference /\ e.payment = Plain(key.reference)
  BY DEF Candidate, Plain
<1>3. CASE key.paypal
  <2>1. e.source = "paypal" /\ IsTrigger(e)
    BY <1>3 DEF Candidate, IsTrigger
  <2>2. KeyOf(e) = key /\ key = PaypalAttemptId(key.reference)
    BY <1>1, <1>2, <1>3, <2>1 DEF KeyOf, PaypalAttemptId
  <2> QED BY <1>2, <1>3, <2>1, <2>2 DEF Triggers, HasRole, InNamespace, ValidAttempt
<1>4. CASE ~key.paypal
  <2>1. e.source # "paypal" /\ IsTrigger(e)
    BY <1>4 DEF Candidate, IsTrigger
  <2>2. KeyOf(e) = key /\ key = Plain(key.reference)
    BY <1>1, <1>2, <1>4, <2>1 DEF KeyOf, Plain
  <2> QED BY <1>2, <1>4, <2>1, <2>2 DEF Triggers, HasRole, InNamespace, ValidAttempt
<1> QED BY <1>3, <1>4

\* What is resolved is one attempt for each key of the run, started by a stored trigger, and
\* under the provider the key had before.
LEMMA ResolvedIs ==
  ASSUME IInv, stage = "resolved"
  PROVE  /\ \A r \in Resolved(run) :
              r.key \in KeysSeen(run) /\ \E e \in db.payment_events : StartedBy(r, e)
         /\ \A r, s \in Resolved(run) : r.key = s.key => r = s
         /\ Covers(Resolved(run), given)
<1>1. /\ CandidatesSound(run) /\ KeysSeen(run) \subseteq KeysOf(db)
      /\ \A g \in given : g[1] \in KeysSeen(run)
      /\ \A c \in run.candidates :
           /\ c.key \in KeysSeen(run) /\ c.event \in db.payment_events
           /\ Candidate(c.key, c.event)
           /\ \A g \in given : g[1] = c.key => g[2] = c.event.source
  BY DEF IInv, RunInv, CandidatesInv
<1>2. db.payment_events \subseteq EventsOf(Nat) /\ KeysOf(db) \subseteq Texts
  BY DEF IInv, DbInv, RowsOK, KeysOf
<1> DEFINE K == {c.key : c \in run.candidates}
           First(k) == Earliest(CandidatesOf(run, k))
           At(k) == [key |-> k, provider |-> First(k).source, reference |-> k.reference,
                     trigger |-> First(k).id]
<1>3. Resolved(run) = {At(k) : k \in K}
  BY DEF Resolved
<1>4. ASSUME NEW k \in K
      PROVE  \E c \in run.candidates : c.key = k /\ c.event = First(k)
  <2>1. CandidatesOf(run, k) # {} /\ CandidatesOf(run, k) \in SUBSET EventsOf(Nat)
    BY <1>1, <1>2 DEF CandidatesOf
  <2>2. First(k) \in CandidatesOf(run, k)
    BY <2>1, EarliestIs
  <2> QED BY <2>2 DEF CandidatesOf
<1> HIDE DEF First
<1>5. ASSUME NEW k \in K
      PROVE  At(k).key \in KeysSeen(run) /\ \E e \in db.payment_events : StartedBy(At(k), e)
  <2>1. PICK c \in run.candidates : c.key = k /\ c.event = First(k)
    BY <1>4
  <2>2. c.event.source \in Providers /\ k \in KeysSeen(run) /\ k \in Texts
    BY <1>1, <1>2, <2>1 DEF CandidatesSound
  <2>3. IF k.paypal THEN k.reference \in Grammatical ELSE k.reference # Empty
    BY <1>1, <2>2 DEF CandidatesSound
  <2>4. Triggers(c.event) /\ KeyOf(c.event) = k
    BY <1>1, <1>2, <2>1, <2>2, <2>3, CandidateTriggers
  <2>5. StartedBy(At(k), c.event)
    BY <2>1, <2>4 DEF StartedBy
  <2> QED BY <1>1, <2>2, <2>5
<1>6. ASSUME NEW g \in given
      PROVE  \E a \in Resolved(run) : a.key = g[1] /\ a.provider = g[2]
  <2>1. CandidatesOf(run, g[1]) # {}
    BY <1>1 DEF CandidatesSound
  <2>2. g[1] \in K
    BY <2>1 DEF CandidatesOf
  <2>3. PICK c \in run.candidates : c.key = g[1] /\ c.event = First(g[1])
    BY <1>4, <2>2
  <2>4. At(g[1]).key = g[1] /\ At(g[1]).provider = g[2]
    BY <1>1, <2>3
  <2> QED BY <1>3, <2>2, <2>4
<1>7. \A k \in K : At(k).key = k
  OBVIOUS
<1> HIDE DEF At, K
<1> QED BY <1>3, <1>5, <1>6, <1>7 DEF Covers

LEMMA ProviderInIs ==
  ASSUME NEW R, \A r, s \in R : r.key = s.key => r = s, NEW key
  PROVE  \/ ProviderIn(R, key) = Nothing
         \/ \E r \in R : r.key = key /\ r.provider = ProviderIn(R, key)
BY DEF ProviderIn

\* A backfilled row has the provider its key resolves to, an execution that of its command.
LEMMA ExpandedIs ==
  ASSUME NEW d, RowsOK(d), Ids(d), NEW R
  PROVE  LET f == Expanded(d, R) IN
         /\ f.payment_attempts = R
         /\ \E P : /\ Labelled(d, f, P)
                   /\ \A t \in KeyedTables : \A r \in d[t] : P[t][r] = ProviderIn(R, r.key)
                   /\ \A r \in d.executions :
                        \/ P.executions[r] = Nothing
                        \/ \E c \in d.commands : /\ c.id = r.command
                                                 /\ P.executions[r] = ProviderIn(R, c.key)
                   /\ \A r \in d.executions, c \in d.commands :
                        c.id = r.command => P.executions[r] = ProviderIn(R, c.key)
<1> DEFINE commands == {Label(r, ProviderIn(R, r.key)) : r \in d.commands}
           Own(x) == {c.provider : c \in {y \in commands : y.id = x.command}}
           Of(x) == IF Own(x) = {} THEN Nothing ELSE CHOOSE p \in Own(x) : TRUE
           f == Expanded(d, R)
           P == [t \in Tables |-> [r \in d[t] |-> IF t = "executions" THEN Of(r)
                                                  ELSE ProviderIn(R, r.key)]]
<1>1. f = [t \in DOMAIN d |->
             CASE t = "payment_events"   -> d[t]
               [] t = "payment_attempts" -> R
               [] t = "executions" -> {Label(x, Of(x)) : x \in d[t]}
               [] OTHER -> {Label(r, ProviderIn(R, r.key)) : r \in d[t]}]
  BY DEF Expanded, Label
<1>2. ASSUME NEW r \in d.executions
      PROVE  /\ \A c \in d.commands : c.id = r.command => Of(r) = ProviderIn(R, c.key)
             /\ \/ Of(r) = Nothing
                \/ \E c \in d.commands : c.id = r.command /\ Of(r) = ProviderIn(R, c.key)
  <2>1. \A c \in d.commands : /\ Label(c, ProviderIn(R, c.key)).id = c.id
                              /\ Label(c, ProviderIn(R, c.key)).provider = ProviderIn(R, c.key)
    BY LabelIs DEF RowsOK, Tables, KeyedTables
  <2>2. Own(r) = {ProviderIn(R, c.key) : c \in {y \in d.commands : y.id = r.command}}
    BY <2>1
  <2>3. \A b, c \in d.commands : b.id = c.id => b = c
    BY DEF Ids, Tables, KeyedTables
  <2> HIDE DEF Own
  <2>4. ASSUME NEW c \in d.commands, c.id = r.command
        PROVE  Of(r) = ProviderIn(R, c.key)
    <3>1. Own(r) = {ProviderIn(R, c.key)}
      BY <2>2, <2>3, <2>4
    <3> QED BY <3>1
  <2>5. CASE Own(r) = {}
    BY <2>4, <2>5
  <2>6. CASE Own(r) # {}
    <3>1. PICK c \in d.commands : c.id = r.command
      BY <2>2, <2>6
    <3> QED BY <2>4, <3>1
  <2> QED BY <2>4, <2>5, <2>6
<1> HIDE DEF commands, Own, Of, f
<1>3. /\ \A t \in KeyedTables : \A r \in d[t] : P[t][r] = ProviderIn(R, r.key)
      /\ \A r \in d.executions : P.executions[r] = Of(r)
  <2>1. /\ \A t \in KeyedTables : t \in Tables /\ t # "executions"
        /\ "executions" \in Tables
    BY DEF KeyedTables, Tables
  <2> QED BY <2>1
<1>4. /\ DOMAIN f = DOMAIN d /\ f.payment_events = d.payment_events /\ f.payment_attempts = R
      /\ f.executions = {Label(x, Of(x)) : x \in d.executions}
      /\ \A t \in KeyedTables : f[t] = {Label(r, ProviderIn(R, r.key)) : r \in d[t]}
  <2>1. /\ DOMAIN d = Tables \cup {"payment_events", "payment_attempts"}
        /\ "executions" \in Tables
        /\ \A t \in KeyedTables :
             /\ t \in Tables /\ t # "executions"
             /\ t # "payment_events" /\ t # "payment_attempts"
    BY TableNames DEF RowsOK, KeyedTables, Tables
  <2> QED BY <1>1, <2>1
<1> HIDE DEF P
<1>5. Labelled(d, f, P)
  <2>1. ASSUME NEW t \in KeyedTables
        PROVE  f[t] = {Label(r, P[t][r]) : r \in d[t]}
    <3>1. \A r \in d[t] : Label(r, P[t][r]) = Label(r, ProviderIn(R, r.key))
      BY <1>3
    <3>2. f[t] = {Label(r, ProviderIn(R, r.key)) : r \in d[t]}
      BY <1>4
    <3> QED BY <3>1, <3>2
  <2>2. f.executions = {Label(r, P.executions[r]) : r \in d.executions}
    <3>1. \A r \in d.executions : Label(r, P.executions[r]) = Label(r, Of(r))
      BY <1>3
    <3>2. f.executions = {Label(r, Of(r)) : r \in d.executions}
      BY <1>4
    <3> QED BY <3>1, <3>2
  <2> QED BY <1>4, <2>1, <2>2 DEF Labelled, Tables
<1> QED BY <1>2, <1>3, <1>4, <1>5 DEF f

\* The rows after the change of a run that passed PF-18 and PF-19 satisfy what revision B
\* checks.
LEMMA ExpandedOK ==
  ASSUME IInv, stage = "resolved", NEW f, f = Expanded(db, Resolved(run)), Complete(run, f),
         RegistryConstraints(f.payment_attempts, f.payment_events)
  PROVE  /\ RowsOK(f) /\ AttemptsOK(f) /\ BaseConstraints(f) /\ Linked(f) /\ Observed(f, late)
         /\ Contractable(f) /\ Covers(f.payment_attempts, given)
         /\ f.payment_events = db.payment_events /\ KeysOf(f) = KeysOf(db)
<1>1. PICK R : R = Resolved(run)
  OBVIOUS
<1>2. /\ RowsOK(db) /\ BaseConstraints(db) /\ Ids(db) /\ Linked(db)
      /\ KeysSeen(run) \subseteq KeysOf(db)
      /\ \A o \in db.observations, r \in R :
           r.key = o.key /\ o.terminal # Nothing => o.id \in late \/ OwnTerminal(db, r.provider, o)
  BY <1>1 DEF IInv, DbInv, RunInv, Constraints, BaseConstraints
<1>3. /\ \A r \in R : r.key \in KeysSeen(run) /\ \E e \in db.payment_events : StartedBy(r, e)
      /\ \A r, s \in R : r.key = s.key => r = s
      /\ Covers(R, given)
  BY <1>1, ResolvedIs
<1> DEFINE Of(k) == ProviderIn(R, k)
<1>4. /\ f.payment_attempts = R
      /\ \E P : /\ Labelled(db, f, P)
                /\ \A t \in KeyedTables : \A r \in db[t] : P[t][r] = Of(r.key)
                /\ \A r \in db.executions :
                     \/ P.executions[r] = Nothing
                     \/ \E c \in db.commands : c.id = r.command /\ P.executions[r] = Of(c.key)
                /\ \A r \in db.executions, c \in db.commands :
                     c.id = r.command => P.executions[r] = Of(c.key)
  BY <1>1, <1>2, ExpandedIs
<1>5. PICK P : /\ Labelled(db, f, P)
               /\ \A t \in KeyedTables : \A r \in db[t] : P[t][r] = Of(r.key)
               /\ \A r \in db.executions :
                    \/ P.executions[r] = Nothing
                    \/ \E c \in db.commands : c.id = r.command /\ P.executions[r] = Of(c.key)
               /\ \A r \in db.executions, c \in db.commands :
                    c.id = r.command => P.executions[r] = Of(c.key)
  BY <1>4
<1>6. \A k : Of(k) = Nothing \/ \E r \in R : r.key = k /\ r.provider = Of(k)
  BY <1>3, ProviderInIs
<1> HIDE DEF Of
<1>7. f.payment_events = db.payment_events /\ KeysOf(f) = KeysOf(db)
  <2>1. KeysOf(f) = KeysOf(db)
    BY <1>2, <1>5, LabelledKeys
  <2>2. f.payment_events = db.payment_events
    BY <1>5 DEF Labelled
  <2> QED BY <2>1, <2>2
<1>8. RowsOK(f)
  <2>1. \A r \in R : r.provider \in Providers
    BY <1>4 DEF RegistryConstraints, ValidAttempt
  <2>2. \A k : Of(k) \in Providers \cup {Nothing}
    BY <1>6, <2>1
  <2>3. \A t \in Tables : \A r \in db[t] : P[t][r] \in Providers \cup {Nothing}
    BY <1>5, <2>2 DEF Tables
  <2> QED BY <1>2, <1>5, <2>3, LabelledRows
<1>9. AttemptsOK(f)
  BY <1>2, <1>3, <1>4, <1>7 DEF AttemptsOK
<1>10. BaseConstraints(f) /\ Linked(f) /\ Ids(f)
  BY <1>2, <1>5, LabelledBase, LabelledLinks, LabelledIds
<1>11. \A t \in Tables : \A s \in f[t] : s.provider # Nothing
  BY DEF Complete
\* A row of a keyed table has the provider of its key.
<1>12. ASSUME NEW t \in KeyedTables, NEW s \in f[t]
       PROVE  s.provider = Of(s.key) /\ InRegistry(f, s)
  <2>1. t \in Tables
    BY TableNames
  <2>2. PICK r \in db[t] : s = Label(r, P[t][r])
    BY <1>5, <2>1 DEF Labelled
  <2>3. s.provider = P[t][r] /\ s.key = r.key
    BY <1>2, <2>1, <2>2, LabelIs DEF RowsOK
  <2>4. s.provider = Of(s.key)
    BY <1>5, <2>3
  <2> QED BY <1>4, <1>6, <1>11, <2>1, <2>4 DEF InRegistry
<1>13. ASSUME NEW s \in f.executions, NEW c \in f.commands, c.id = s.command
       PROVE  s.provider = Of(c.key)
  <2>1. PICK r \in db.executions : s = Label(r, P.executions[r]) /\ DOMAIN r = Columns("executions")
    BY <1>2, <1>5 DEF Labelled, Tables, RowsOK
  <2>2. s.command = r.command /\ s.provider = P.executions[r]
    BY <2>1, LabelIs DEF Tables, Executed
  <2>3. PICK b \in db.commands : c = Label(b, P.commands[b]) /\ DOMAIN b = Columns("commands")
    BY <1>2, <1>5 DEF Labelled, Tables, KeyedTables, RowsOK
  <2>4. c.id = b.id /\ c.key = b.key
    BY <2>3, LabelIs DEF Tables, KeyedTables
  <2> QED BY <1>5, <1>13, <2>2, <2>4
<1>14. Observed(f, late)
  <2> SUFFICES ASSUME NEW o \in f.observations, o.provider # Nothing, o.terminal # Nothing
               PROVE  o.id \in late \/ OwnTerminal(f, o.provider, o)
    BY DEF Observed
  <2>1. PICK q \in db.observations :
          o = Label(q, P.observations[q]) /\ DOMAIN q = Columns("observations")
    BY <1>2, <1>5 DEF Labelled, Tables, KeyedTables, RowsOK
  <2>2. o.id = q.id /\ o.key = q.key /\ o.terminal = q.terminal
    BY <2>1, LabelIs DEF Tables, KeyedTables
  <2>3. o.provider = Of(o.key)
    BY <1>12 DEF KeyedTables
  <2>4. PICK r \in R : r.key = o.key /\ r.provider = o.provider
    BY <1>6, <2>3
  <2>5. q.id \in late \/ OwnTerminal(db, o.provider, q)
    BY <1>2, <2>2, <2>4
  <2> QED BY <1>7, <2>2, <2>5 DEF OwnTerminal
<1>15. \A x, y \in f.decisions : x.id = y.id => x = y
  BY <1>10 DEF Ids, Tables, KeyedTables
<1>16. \A b, c \in f.commands : b.id = c.id => b = c
  BY <1>10 DEF Ids, Tables, KeyedTables
<1>17. ASSUME NEW t \in {"commands", "attributions"}, NEW r \in f[t]
       PROVE  \E x \in f.decisions : x.id = r.decision /\ Agreed(r, x)
  <2>1. \E x \in f.decisions : x.id = r.decision /\ x.key = r.key
    BY <1>10 DEF Linked
  <2>2. r.provider = Of(r.key) /\ \A x \in f.decisions : x.provider = Of(x.key)
    BY <1>12 DEF KeyedTables
  <2> QED BY <2>1, <2>2 DEF Agreed
<1>18. ASSUME NEW t \in Executed, NEW r \in f[t]
       PROVE  \E c \in f.commands : c.id = r.command /\ Agreed(r, c)
  <2>1. \A c \in f.commands : c.provider = Of(c.key)
    BY <1>12 DEF KeyedTables
  <2>2. CASE t = "executions"
    <3>1. PICK c \in f.commands : c.id = r.command
      BY <1>10, <2>2 DEF Linked
    <3> QED BY <1>13, <2>1, <2>2, <3>1 DEF Agreed
  <2>3. CASE t \in {"observations", "attributions"}
    <3>1. PICK c \in f.commands : c.id = r.command /\ c.key = r.key
      BY <1>10, <2>3 DEF Linked
    <3>2. r.provider = Of(r.key)
      BY <1>12, <2>3 DEF KeyedTables
    <3> QED BY <2>1, <3>1, <3>2 DEF Agreed
  <2> QED BY <2>2, <2>3 DEF Executed
<1>19. HeadConstraints(f)
  <2>1. \A t \in Versioned : \A r, s \in f[t] :
          r.key = s.key /\ r.provider = s.provider /\ r.version = s.version => r = s
    BY <1>10 DEF BaseConstraints
  <2>2. \A r, s \in f.commands : r.decision = s.decision => r = s
    BY <1>10 DEF BaseConstraints
  <2>3. \A t \in {"commands", "attributions"} : \A r \in f[t] : DecisionOf(f, r)
    BY <1>17 DEF DecisionOf, Agreed
  <2>4. \A t \in Executed : \A r \in f[t] : CommandOf(f, r)
    BY <1>18 DEF CommandOf, Agreed
  <2> QED BY <1>10, <1>12, <2>1, <2>2, <2>3, <2>4 DEF HeadConstraints
<1>20. Contractable(f)
  <2>1. \A t \in {"commands", "attributions"} : \A r \in f[t], x \in f.decisions :
          x.id = r.decision => Agreed(r, x)
    BY <1>15, <1>17
  <2>2. \A t \in Executed : \A r \in f[t], c \in f.commands : c.id = r.command => Agreed(r, c)
    BY <1>16, <1>18
  <2> QED BY <1>11, <1>12, <1>19, <2>1, <2>2 DEF Contractable
<1> QED BY <1>3, <1>4, <1>7, <1>8, <1>9, <1>10, <1>14, <1>20

LEMMA StepExpand ==
  ASSUME IInv, Expand
  PROVE  IInv'
<1>1. PICK f : f = Expanded(db, Resolved(run))
  OBVIOUS
<1>2. stage = "resolved" /\ UNCHANGED <<database, late>> /\ UNCHANGED bounds
  BY DEF Expand
<1>3. \/ EndRun /\ UNCHANGED <<revision, db, given>>
      \/ /\ Complete(run, f) /\ RegistryConstraints(f.payment_attempts, f.payment_events)
         /\ \/ /\ stage' = "contract" /\ run' = [run EXCEPT !.draft = f]
               /\ UNCHANGED <<revision, db, given>>
            \/ Finish("A", f)
  BY <1>1 DEF Expand
<1>4. BoundsInv'
  BY <1>2 DEF IInv, BoundsInv, bounds
<1>5. CASE EndRun /\ UNCHANGED <<revision, db, given>>
  BY <1>2, <1>5, StepEnds
<1>6. ASSUME Complete(run, f), RegistryConstraints(f.payment_attempts, f.payment_events)
      PROVE  /\ RowsOK(f) /\ AttemptsOK(f) /\ BaseConstraints(f) /\ Linked(f)
             /\ Observed(f, late) /\ Contractable(f) /\ Covers(f.payment_attempts, given)
             /\ f.payment_events = db.payment_events /\ KeysOf(f) = KeysOf(db)
  BY <1>1, <1>2, <1>6, ExpandedOK
<1>7. ASSUME Complete(run, f), RegistryConstraints(f.payment_attempts, f.payment_events),
             Finish("A", f)
      PROVE  IInv'
  <2>1. Constraints("A", f)
    BY <1>6, <1>7 DEF Constraints
  <2> QED BY <1>2, <1>4, <1>6, <1>7, <2>1, FinishKeeps DEF Revisions
<1>8. ASSUME Complete(run, f), RegistryConstraints(f.payment_attempts, f.payment_events),
             stage' = "contract", run' = [run EXCEPT !.draft = f],
             UNCHANGED <<revision, db, given>>
      PROVE  IInv'
  <2>1. PICK u : u = [run EXCEPT !.draft = f]
    OBVIOUS
  <2>2. /\ DOMAIN u = DOMAIN NoRun /\ u.goal = run.goal /\ u.keys = run.keys
        /\ u.candidates = run.candidates /\ u.draft = f
    BY <1>2, <2>1 DEF IInv, RunInv, NoRun
  <2>3. run' = u
    BY <1>8, <2>1
  <2>4. KeysSeen(run)' = KeysSeen(run) /\ KeysOf(db)' = KeysOf(db)
    BY <1>8, <2>2, <2>3 DEF KeysSeen, KeysOf
  <2>5. CandidatesInv' = CandidatesInv
    <3>1. CandidatesSound(run)' = CandidatesSound(run)
      BY <2>2, <2>3 DEF CandidatesSound, CandidatesOf, KeysSeen, OneProvider
    <3> QED BY <1>8, <2>2, <2>3, <2>4, <3>1 DEF CandidatesInv, Candidate
  <2>6. RunInv'
    BY <1>2, <1>6, <1>8, <2>2, <2>3, <2>4, <2>5 DEF IInv, RunInv
  <2> QED BY <1>2, <1>4, <1>8, <2>6, StepStays DEF IInv
<1> QED BY <1>3, <1>5, <1>7, <1>8

-----------------------------------------------------------------------------
(* What holds at every moment *)

LEMMA InitInv == Init => IInv
<1> SUFFICES ASSUME Init PROVE IInv
  OBVIOUS
<1>1. database \in Databases /\ LegacyRows(db)
  BY MigrationAssumption DEF Init
<1>2. /\ revision = "base" /\ stage = "idle" /\ run = NoRun /\ runs = 0 /\ writes = 0
      /\ given = {} /\ late = {}
  BY DEF Init
<1>3. RowsOK(db) /\ AttemptsOK(db) /\ Unlabelled(db) /\ BaseConstraints(db)
  BY <1>1 DEF LegacyRows, RowsOK, AttemptsOK, Unlabelled
<1>4. DbInv
  BY <1>1, <1>2, <1>3 DEF DbInv, Constraints, Revisions
<1>5. GivenInv
  BY <1>2, <1>3 DEF GivenInv, ProvidersStable, Unlabelled
<1>6. RunInv
  BY <1>2 DEF RunInv
<1>7. BoundsInv
  BY <1>2, MigrationAssumption DEF BoundsInv
<1> QED BY <1>4, <1>5, <1>6, <1>7 DEF IInv

LEMMA Invariant == Spec => []IInv
<1>1. IInv /\ [Next]_vars => IInv'
  <2> SUFFICES ASSUME IInv, [Next]_vars
               PROVE  IInv'
    OBVIOUS
  <2>1. ASSUME NEW goal \in {"A", "head"}, NEW offline \in BOOLEAN, Begin(goal, offline)
        PROVE  IInv'
    BY <2>1, StepBegin
  <2>2. ASSUME NEW offline \in BOOLEAN, ContractAlone(offline)
        PROVE  IInv'
    BY <2>2, StepContractAlone
  <2>3. ASSUME NEW goal \in {"A", "base"}, NEW offline \in BOOLEAN, Downgrade(goal, offline)
        PROVE  IInv'
    BY <2>3, StepDowngrade
  <2>4. CASE Candidates \/ CheckRows \/ Resolve
    BY <2>4, StepCandidates, StepCheckRows, StepResolve
  <2>5. CASE Expand \/ Contract \/ Abort
    BY <2>5, StepExpand, StepContract, StepAbort
  <2>6. CASE Write
    BY <2>6, StepWrite
  <2>7. CASE UNCHANGED vars
    BY <2>7, StepStutters
  <2> QED BY <2>1, <2>2, <2>3, <2>4, <2>5, <2>6, <2>7 DEF Next, Migrate
<1> QED BY <1>1, InitInv, PTL DEF Spec

\* The rows of every table, the revision and the state of a run are of their kinds, and
\* before revision A no row has a provider.
THEOREM TypeCorrect == Spec => []TypeOK
<1>1. IInv => TypeOK
  <2> SUFFICES ASSUME IInv PROVE TypeOK
    OBVIOUS
  <2>1. \A r \in db.payment_attempts : r.key \in Texts /\ r.provider \in Providers
    <3>1. KeysOf(db) \subseteq Texts
      BY DEF IInv, DbInv, RowsOK, KeysOf
    <3> QED BY <3>1 DEF IInv, DbInv, AttemptsOK, StartedBy, Triggers, HasRole, ValidAttempt
  <2>2. stage = "idle" <=> run = NoRun
    <3>1. NoRun.goal = "none"
      BY DEF NoRun
    <3> QED BY <3>1 DEF IInv, RunInv
  <2>3. /\ database \in Databases /\ revision \in Revisions
        /\ db.payment_events \subseteq EventsOf(Nat)
        /\ \A t \in Tables : \A r \in db[t] : r.provider \in Providers \cup {Nothing}
        /\ \A t \in KeyedTables : \A r \in db[t] : r.key \in Texts
    BY DEF IInv, DbInv, RowsOK
  <2>4. revision = "base" => /\ db.payment_attempts = {}
                             /\ \A t \in Tables : \A r \in db[t] : r.provider = Nothing
    BY DEF IInv, DbInv, Unlabelled
  <2>5. /\ stage \in {"idle", "keys", "candidates", "agreed", "resolved", "contract"}
        /\ stage # "idle" => revision = "base"
    BY DEF IInv, RunInv
  <2>6. runs \in 0..MaxRuns /\ writes \in 0..MaxWrites
    BY DEF IInv, BoundsInv
  <2> QED BY <2>1, <2>2, <2>3, <2>4, <2>5, <2>6 DEF TypeOK
<1> QED BY <1>1, Invariant, PTL

\* Revision B refuses nothing in a run that passed revision A (9d2e4f6a8b1c, then
\* e2d3c4b5a6f7): what was committed between the checks of A is caught by PF-18 and PF-19,
\* or agrees.
THEOREM ExpandSufficesHolds == Spec => []ExpandSuffices
<1>1. IInv => ExpandSuffices
  BY DEF IInv, RunInv, ExpandSuffices
<1> QED BY <1>1, Invariant, PTL

\* The registry never names two providers for one key, across upgrades and downgrades: a key
\* keeps its rows and its trigger, and PF-05 resolves it to the provider it had.
THEOREM ProvidersStableHolds == Spec => []ProvidersStable
<1>1. IInv => ProvidersStable
  BY DEF IInv, GivenInv
<1> QED BY <1>1, Invariant, PTL

\* Under the contract of revision B each Stage 5-8 row has the provider whose trigger
\* registered its key, so do its parents, and an observed outcome is of its own attempt.
THEOREM HeadSoundHolds == Spec => []HeadSound
<1>1. IInv => HeadSound
  <2> SUFFICES ASSUME IInv, revision = "head" PROVE HeadSound
    BY DEF HeadSound
  <2>1. /\ RowsOK(db) /\ AttemptsOK(db) /\ HeadConstraints(db) /\ Linked(db)
        /\ Observed(db, late) /\ Ids(db) /\ Nothing \notin Providers
    BY MigrationAssumption DEF IInv, DbInv, Constraints, HeadConstraints
  <2>2. \A t \in KeyedTables : \A r \in db[t] : InRegistry(db, r)
    BY <2>1 DEF HeadConstraints
  <2>3. \A a, b \in db.payment_attempts : a.key = b.key => a = b
    BY <2>1 DEF HeadConstraints, RegistryConstraints
  <2>4. ASSUME NEW t \in KeyedTables, NEW r \in db[t], NEW u \in KeyedTables, NEW s \in db[u],
               r.key = s.key
        PROVE  r.provider = s.provider
    BY <2>2, <2>3, <2>4 DEF InRegistry
  <2>5. \A t \in KeyedTables : \A r \in db[t] :
          \E a \in db.payment_attempts, e \in db.payment_events :
            /\ a.key = r.key /\ a.provider = r.provider /\ a.trigger = e.id
            /\ Triggers(e) /\ e.source = r.provider /\ KeyOf(e) = r.key
    <3> TAKE t \in KeyedTables
    <3> TAKE r \in db[t]
    <3>1. PICK a \in db.payment_attempts : a.key = r.key /\ a.provider = r.provider
      BY <2>2 DEF InRegistry
    <3>2. PICK e \in db.payment_events : StartedBy(a, e)
      BY <2>1 DEF AttemptsOK
    <3> QED BY <3>1, <3>2 DEF StartedBy
  <2>6. ASSUME NEW x \in db.decisions, x.prediction # Nothing
        PROVE  \E p \in db.predictions :
                 p.id = x.prediction /\ p.key = x.key /\ p.provider = x.provider
    BY <2>1, <2>4, <2>6 DEF Linked, KeyedTables
  <2>7. ASSUME NEW c \in db.commands
        PROVE  \E x \in db.decisions : /\ x.id = c.decision /\ x.key = c.key
                                       /\ x.version = c.version /\ x.provider = c.provider
    BY <2>1, <2>4 DEF Linked, KeyedTables
  <2>8. ASSUME NEW t \in {"observations", "attributions"}, NEW r \in db[t]
        PROVE  \E c \in db.commands :
                 c.id = r.command /\ c.key = r.key /\ c.provider = r.provider
    <3>1. PICK c \in db.commands : c.id = r.command /\ c.key = r.key
      BY <2>1, <2>8 DEF Linked
    <3>2. c.provider = r.provider
      BY <2>4, <3>1 DEF KeyedTables
    <3> QED BY <3>1, <3>2
  <2>9. ASSUME NEW a \in db.attributions, NEW c \in db.commands, c.id = a.command
        PROVE  c.decision = a.decision
    <3>1. PICK b \in db.commands : b.id = a.command /\ b.decision = a.decision
      BY <2>1 DEF Linked
    <3>2. b = c
      BY <2>1, <2>9, <3>1 DEF Ids, Tables, KeyedTables
    <3> QED BY <3>1, <3>2
  <2>10. ASSUME NEW o \in db.observations
         PROVE  o.terminal = Nothing \/ o.id \in late \/ OwnTerminal(db, o.provider, o)
    <3>1. PICK a \in db.payment_attempts, e \in db.payment_events :
            Triggers(e) /\ e.source = o.provider
      BY <2>5 DEF KeyedTables
    <3>2. o.provider # Nothing
      BY <2>1, <3>1 DEF Triggers, HasRole, ValidAttempt
    <3> QED BY <2>1, <3>2 DEF Observed
  <2> QED BY <2>5, <2>6, <2>7, <2>8, <2>9, <2>10 DEF HeadSound
<1> QED BY <1>1, Invariant, PTL
==============================================================================
