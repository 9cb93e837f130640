----------------------------- MODULE Ingestion -------------------------------
(***************************************************************************)
(* Stage 1: webhook intake.                                                *)
(*                                                                         *)
(* ingest_razorpay and ingest_paypal run one handler per HTTP request, each *)
(* with a service and a database session of its own.  A handler looks the  *)
(* event up, inserts the raw record and the canonical event in one         *)
(* transaction, answers, and schedules the recovery pipeline as a          *)
(* background task of the process.  Handlers interleave at every await;    *)
(* the unique indexes on (source_system, source_event_id) make an insert   *)
(* wait for an equal one that is not committed yet.  A crash of the        *)
(* process loses the handlers and the tasks but not the tables, and the    *)
(* provider redelivers whatever it likes.                                  *)
(***************************************************************************)
EXTENDS Naturals, FiniteSets

CONSTANTS
  Handlers,    \* concurrent requests
  Payloads,    \* the deliveries the providers may make
  MaxCrashes,  \* bound: crashes of the process
  NoPayload    \* an idle handler

Providers == {"razorpay", "paypal"}
Defects   == {"none", "unverified", "malformed", "unsupported", "unnormalizable"}

\* source_event_id, payload_hash, what intake will find wrong with the body, and whether
\* the event has a Stage 5-8 role (resolve_pipeline_attempt).
Payload == [source_system : Providers, source_event_id : Nat, payload_hash : Nat \ {0},
            defect : Defects, role : BOOLEAN]

\* The hash is that of the body, so it determines everything else about it.
ASSUME IngestionAssumption ==
  /\ Payloads \subseteq Payload
  /\ \A p, q \in Payloads :
       /\ p.source_system = q.source_system
       /\ p.source_event_id = q.source_event_id
       /\ p.payload_hash = q.payload_hash
       => p = q
  /\ MaxCrashes \in Nat
  /\ NoPayload \notin Payloads

VARIABLES
  raw_ingestion_records,  \* table
  payment_events,         \* table
  pc,                     \* where each handler is
  req,                    \* the delivery it handles
  answer,                 \* what it is about to answer
  background,             \* scheduled pipeline tasks, by event
  runs,                   \* history: pipeline runs scheduled for each event
  crashes                 \* history: crashes of the process

tables  == <<raw_ingestion_records, payment_events>>
handler == <<pc, req, answer>>
history == <<runs, crashes>>
vars    == <<tables, handler, background, history>>

Labels  == {"idle", "authenticate", "lookup", "insert", "commit", "reread", "respond"}
Verdicts == {"stored", "duplicate", "conflict"}

SameEvent(p, q) ==
  /\ p.source_system = q.source_system
  /\ p.source_event_id = q.source_event_id

\* get_raw_record: the committed record of the event, if there is one
Existing(p) == {r \in raw_ingestion_records : SameEvent(r, p)}

\* An equal hash is an idempotent retry, another one a conflict.
Resolve(p, existing) ==
  IF \E r \in existing : r.payload_hash = p.payload_hash THEN "duplicate" ELSE "conflict"

Goto(h, label) == pc' = [pc EXCEPT ![h] = label]

RespondWith(h, a) ==
  /\ answer' = [answer EXCEPT ![h] = a]
  /\ Goto(h, "respond")

-----------------------------------------------------------------------------

Receive(h, p) ==
  /\ pc[h] = "idle"
  /\ req' = [req EXCEPT ![h] = p]
  /\ Goto(h, "authenticate")
  /\ UNCHANGED <<tables, answer, background, history>>

\* Signature, JSON and schema.  PayPal events of an unsupported type are acknowledged so
\* that PayPal stops retrying; Razorpay ones fail schema validation.
Authenticate(h) ==
  LET p == req[h] IN
  /\ pc[h] = "authenticate"
  /\ \/ p.defect = "unverified" /\ RespondWith(h, "unauthorized")
     \/ p.defect = "malformed" /\ RespondWith(h, "bad_request")
     \/ /\ p.defect = "unsupported"
        /\ RespondWith(h, IF p.source_system = "paypal" THEN "ignored" ELSE "unprocessable")
     \/ /\ p.defect \in {"none", "unnormalizable"}
        /\ Goto(h, "lookup")
        /\ UNCHANGED answer
  /\ UNCHANGED <<tables, req, background, history>>

\* PayPal's verification service rejects the request or cannot be reached.
VerificationFails(h) ==
  /\ pc[h] = "authenticate"
  /\ req[h].source_system = "paypal"
  /\ \E a \in {"bad_request", "unavailable"} : RespondWith(h, a)
  /\ UNCHANGED <<tables, req, background, history>>

\* Deduplication before the insert, then normalization.
LookUp(h) ==
  LET existing == Existing(req[h]) IN
  /\ pc[h] = "lookup"
  /\ IF existing # {} THEN RespondWith(h, Resolve(req[h], existing))
     ELSE IF req[h].defect = "unnormalizable" THEN RespondWith(h, "unprocessable")
     ELSE Goto(h, "insert") /\ UNCHANGED answer
  /\ UNCHANGED <<tables, req, background, history>>

\* Handler o holds an uncommitted entry of the unique index that h inserts into.
HeldBy(h, o) == pc[o] = "commit" /\ SameEvent(req[o], req[h])

\* The inserts of save_ingestion wait for an uncommitted equal identity.  A committed one
\* is an IntegrityError: Razorpay's service lets it out as a conflict, PayPal's reads the
\* record that won.
Insert(h) ==
  /\ pc[h] = "insert"
  /\ \A o \in Handlers \ {h} : ~HeldBy(h, o)
  /\ IF Existing(req[h]) = {}
       THEN Goto(h, "commit") /\ UNCHANGED answer
       ELSE IF req[h].source_system = "paypal"
              THEN Goto(h, "reread") /\ UNCHANGED answer
              ELSE RespondWith(h, "conflict")
  /\ UNCHANGED <<tables, req, background, history>>

\* Mutated form of Persist: the raw record is committed before the event.
PersistRawFirst(h) ==
  /\ pc[h] = "commit"
  /\ IF req[h] \in raw_ingestion_records
       THEN /\ payment_events' = payment_events \cup {req[h]}
            /\ RespondWith(h, "stored")
            /\ UNCHANGED raw_ingestion_records
       ELSE /\ raw_ingestion_records' = raw_ingestion_records \cup {req[h]}
            /\ UNCHANGED <<payment_events, pc, answer>>
  /\ UNCHANGED <<req, background, history>>

\* The commit publishes the evidence and the canonical event together.
Persist(h) ==
  /\ pc[h] = "commit"
  /\ raw_ingestion_records' = raw_ingestion_records \cup {req[h]}
  /\ payment_events' = payment_events \cup {req[h]}
  /\ RespondWith(h, "stored")
  /\ UNCHANGED <<req, background, history>>

\* A PersistenceError: the query or the transaction failed and was rolled back.
PersistenceFails(h) ==
  /\ pc[h] \in {"lookup", "insert", "commit", "reread"}
  /\ RespondWith(h, "server_error")
  /\ UNCHANGED <<tables, req, background, history>>

\* The connection breaks while the commit is under way, and the commit took place.
CommitUnacknowledged(h) ==
  /\ pc[h] = "commit"
  /\ raw_ingestion_records' = raw_ingestion_records \cup {req[h]}
  /\ payment_events' = payment_events \cup {req[h]}
  /\ RespondWith(h, "server_error")
  /\ UNCHANGED <<req, background, history>>

\* Mutated form of Reread: the loser of the race is told that it conflicts.
RereadConflict(h) ==
  /\ pc[h] = "reread"
  /\ RespondWith(h, "conflict")
  /\ UNCHANGED <<tables, req, background, history>>

\* Mutated form of Reread: the loser of the race tries again.
RereadInsertsAgain(h) ==
  /\ pc[h] = "reread"
  /\ Goto(h, "insert")
  /\ UNCHANGED <<tables, req, answer, background, history>>

\* The stored hash decides what the loser of the insert race is told.
Reread(h) ==
  LET winner == Existing(req[h]) IN
  /\ pc[h] = "reread"
  /\ RespondWith(h, IF winner = {} THEN "conflict" ELSE Resolve(req[h], winner))
  /\ UNCHANGED <<tables, req, background, history>>

\* Mutated form of Schedules: duplicates are scheduled as well.
SchedulesAgain(p, a) == a \in {"stored", "duplicate"}

\* Razorpay schedules every event that is not a duplicate, PayPal those with a role.
Schedules(p, a) == a = "stored" /\ (p.source_system = "razorpay" \/ p.role)

\* The response leaves and the background tasks of the request start.
Respond(h) ==
  LET p == req[h] IN
  /\ pc[h] = "respond"
  /\ IF Schedules(p, answer[h])
       THEN /\ background' = background \cup {p}
            /\ runs' = [runs EXCEPT ![p] = @ + 1]
       ELSE UNCHANGED <<background, runs>>
  /\ req' = [req EXCEPT ![h] = NoPayload]
  /\ answer' = [answer EXCEPT ![h] = "none"]
  /\ Goto(h, "idle")
  /\ UNCHANGED <<tables, crashes>>

\* A background task ends; what it does is the subject of RecoveryPipeline.
EndTask(p) ==
  /\ p \in background
  /\ background' = background \ {p}
  /\ UNCHANGED <<tables, handler, history>>

\* The process stops: uncommitted work, handlers and scheduled tasks are gone.
Crash ==
  /\ crashes < MaxCrashes
  /\ crashes' = crashes + 1
  /\ pc' = [h \in Handlers |-> "idle"]
  /\ req' = [h \in Handlers |-> NoPayload]
  /\ answer' = [h \in Handlers |-> "none"]
  /\ background' = {}
  /\ UNCHANGED <<tables, runs>>

-----------------------------------------------------------------------------

Init ==
  /\ raw_ingestion_records = {}
  /\ payment_events = {}
  /\ pc = [h \in Handlers |-> "idle"]
  /\ req = [h \in Handlers |-> NoPayload]
  /\ answer = [h \in Handlers |-> "none"]
  /\ background = {}
  /\ runs = [p \in Payloads |-> 0]
  /\ crashes = 0

Handle(h) ==
  \/ Authenticate(h)
  \/ LookUp(h)
  \/ Insert(h)
  \/ Persist(h)
  \/ Reread(h)
  \/ Respond(h)

Next ==
  \/ \E h \in Handlers :
       \/ \E p \in Payloads : Receive(h, p)
       \/ Handle(h)
       \/ VerificationFails(h)
       \/ PersistenceFails(h)
       \/ CommitUnacknowledged(h)
  \/ \E p \in Payloads : EndTask(p)
  \/ Crash

Spec == Init /\ [][Next]_vars

\* A handler that can go on does.  One that waits in its insert is woken when the entry it
\* waits for is gone, and gets its turn however often others insert before it.
Fairness == \A h \in Handlers : SF_vars(Handle(h))

FairSpec == Spec /\ Fairness

-----------------------------------------------------------------------------
(* Properties *)

\* PROJECT_CONTEXT, Stage 1: the deduplication identity is (source_system,
\* source_event_id) and conflicting reuse never overwrites evidence.  Whatever races and
\* crashes: one record per event, with its canonical event, and only of payloads that
\* passed every check.
EvidenceSound ==
  /\ raw_ingestion_records = payment_events
  /\ \A r, q \in raw_ingestion_records : SameEvent(r, q) => r = q
  /\ \A r \in raw_ingestion_records : r.defect = "none"

\* routes.ingest_razorpay and ingest_paypal: the pipeline is scheduled at most once for an
\* event, over all its deliveries, and only for one that is stored.
PipelineScheduledOnce ==
  \A p \in Payloads :
    /\ runs[p] <= 1
    /\ runs[p] = 1 => p \in payment_events
    /\ \A q \in Payloads : SameEvent(p, q) /\ p # q => runs[p] = 0 \/ runs[q] = 0

\* PayPal's endpoint keeps the promises of EventStore.
PayPal == {p \in Payloads : p.source_system = "paypal"}
PayPalIds == {p.source_event_id : p \in PayPal}
PayPalHashes == {p.payload_hash : p \in PayPal}
NoHash == 0

RecordedHash(i) ==
  LET R == {r \in raw_ingestion_records : r.source_system = "paypal" /\ r.source_event_id = i}
  IN  IF R = {} THEN NoHash ELSE (CHOOSE r \in R : TRUE).payload_hash

Promise == INSTANCE EventStore WITH
  Identities <- PayPalIds,
  Hashes     <- PayPalHashes,
  store      <- [i \in PayPalIds |-> RecordedHash(i)],
  verdicts   <- {<<req[h].source_event_id, req[h].payload_hash, answer[h]>> :
                   h \in {o \in Handlers : req[o] \in PayPal /\ answer[o] \in Verdicts}}

\* PayPalIngestionService implements EventStore: in every race its answers are honest.
PayPalKeepsPromise == Promise!Spec

\* ingest_razorpay and ingest_paypal: each request ends in an answer, or with the process,
\* though its insert waits for another's transaction, which may roll back, and what it
\* finds afterwards depends on how that one ended.
RequestsAnswered == \A h \in Handlers : pc[h] = "authenticate" ~> pc[h] = "idle"

\* exceptions.DuplicateEventConflictError: "The same source identity has already been
\* persisted with a different payload hash."
ConflictMeansDifferentPayload ==
  \A h \in Handlers :
    answer[h] = "conflict" =>
      \E r \in raw_ingestion_records :
        SameEvent(r, req[h]) /\ r.payload_hash # req[h].payload_hash
==============================================================================
