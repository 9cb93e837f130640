--------------------------- MODULE IngestionProofs ---------------------------
(***************************************************************************)
(* Theorems about Ingestion, for any handlers, deliveries and crashes.     *)
(*                                                                         *)
(* IInv says what an insert has found out that lasts to its commit         *)
(* (WriterInv), that bodies are checked before (CheckedInv), what every    *)
(* answer is entitled to say (AnswerInv), and that an event has been       *)
(* scheduled, or is about to be, once and after its commit (RunsInv).      *)
(***************************************************************************)
EXTENDS Ingestion, TLAPS

Answers ==
  {"none", "unauthorized", "bad_request", "ignored", "unprocessable", "unavailable",
   "server_error"} \cup Verdicts

TypeInv ==
  /\ raw_ingestion_records \subseteq Payloads
  /\ payment_events \subseteq Payloads
  /\ pc \in [Handlers -> Labels]
  /\ req \in [Handlers -> Payloads \cup {NoPayload}]
  /\ answer \in [Handlers -> Answers]
  /\ background \subseteq Payloads
  /\ runs \in [Payloads -> Nat]
  /\ crashes \in Nat
  /\ \A h \in Handlers : pc[h] # "idle" => req[h] \in Payloads

\* No body with a defect gets further than normalization.
CheckedInv ==
  \A h \in Handlers :
    /\ pc[h] \in {"lookup", "insert", "commit", "reread"} =>
         req[h].defect \in {"none", "unnormalizable"}
    /\ pc[h] \in {"insert", "commit", "reread"} => req[h].defect = "none"

\* Who has inserted is the only one, and nothing is committed under the identity.
WriterInv ==
  \A h \in Handlers : pc[h] = "commit" =>
    /\ Existing(req[h]) = {}
    /\ \A o \in Handlers \ {h} : ~HeldBy(h, o)

\* An answer is true of the records, which only grow.
AnswerOK(h) ==
  /\ pc[h] # "respond" => answer[h] = "none"
  /\ answer[h] \in {"stored", "duplicate"} => req[h] \in raw_ingestion_records
  /\ answer[h] = "conflict" /\ req[h].source_system = "paypal" =>
       \E r \in Existing(req[h]) : r.payload_hash # req[h].payload_hash
  /\ pc[h] = "reread" => Existing(req[h]) # {}

AnswerInv == \A h \in Handlers : AnswerOK(h)

\* Handler h is about to schedule the event of p.
Owes(h, p) == answer[h] = "stored" /\ req[h] = p

RunsInv ==
  /\ \A p \in Payloads :
       /\ runs[p] \in {0, 1}
       /\ runs[p] = 1 => p \in raw_ingestion_records /\ \A h \in Handlers : ~Owes(h, p)
  /\ \A h, o \in Handlers : h # o /\ answer[h] = "stored" => ~Owes(o, req[h])

IInv ==
  /\ TypeInv /\ CheckedInv /\ WriterInv /\ EvidenceSound /\ AnswerInv /\ RunsInv

\* One step of one handler, with what it leaves of the others
Steps(h) ==
  \/ \E p \in Payloads : Receive(h, p)
  \/ Authenticate(h) \/ VerificationFails(h) \/ LookUp(h) \/ Insert(h)
  \/ Persist(h) \/ CommitUnacknowledged(h) \/ PersistenceFails(h) \/ Reread(h)
  \/ Respond(h)

-----------------------------------------------------------------------------

LEMMA StepCases ==
  ASSUME [Next]_vars
  PROVE  \/ UNCHANGED vars \/ Crash
         \/ \E p \in Payloads : EndTask(p)
         \/ \E h \in Handlers : Steps(h)
BY DEF Next, Handle, Steps

\* A handler keeps to itself, and commits what it has inserted or nothing.
LEMMA Frame ==
  ASSUME TypeInv, NEW h \in Handlers, Steps(h)
  PROVE  /\ \A o \in Handlers : o # h =>
              pc'[o] = pc[o] /\ req'[o] = req[o] /\ answer'[o] = answer[o]
         /\ \/ UNCHANGED tables
            \/ /\ pc[h] = "commit" /\ pc'[h] = "respond" /\ req' = req
               /\ raw_ingestion_records' = raw_ingestion_records \cup {req[h]}
               /\ payment_events' = payment_events \cup {req[h]}
<1> USE DEF TypeInv, Goto, RespondWith, tables, history
<1>1. CASE \E p \in Payloads : Receive(h, p) BY <1>1 DEF Receive
<1>2. CASE Authenticate(h) BY <1>2 DEF Authenticate
<1>3. CASE VerificationFails(h) BY <1>3 DEF VerificationFails
<1>4. CASE LookUp(h) BY <1>4 DEF LookUp
<1>5. CASE Insert(h) BY <1>5 DEF Insert
<1>6. CASE Persist(h) BY <1>6 DEF Persist
<1>7. CASE CommitUnacknowledged(h) BY <1>7 DEF CommitUnacknowledged
<1>8. CASE PersistenceFails(h) BY <1>8 DEF PersistenceFails
<1>9. CASE Reread(h) BY <1>9 DEF Reread
<1>10. CASE Respond(h) BY <1>10 DEF Respond
<1> QED
  BY <1>1, <1>2, <1>3, <1>4, <1>5, <1>6, <1>7, <1>8, <1>9, <1>10 DEF Steps

LEMMA TypeStep ==
  ASSUME IngestionAssumption, TypeInv, [Next]_vars
  PROVE  TypeInv'
<1> USE DEF TypeInv, Labels, Answers, Verdicts, Goto, RespondWith, Resolve, tables, handler,
        history
<1>1. CASE UNCHANGED vars BY <1>1 DEF vars
<1>2. CASE Crash BY <1>2 DEF Crash
<1>3. ASSUME NEW p \in Payloads, EndTask(p) PROVE TypeInv' BY <1>3 DEF EndTask
<1>4. ASSUME NEW h \in Handlers, Steps(h) PROVE TypeInv'
  <2>1. ASSUME NEW p \in Payloads, Receive(h, p) PROVE TypeInv' BY <2>1 DEF Receive
  <2>2. CASE Authenticate(h) BY <2>2 DEF Authenticate
  <2>3. CASE VerificationFails(h) BY <2>3 DEF VerificationFails
  <2>4. CASE LookUp(h) BY <2>4 DEF LookUp
  <2>5. CASE Insert(h) BY <2>5 DEF Insert
  <2>6. CASE Persist(h) BY <2>6 DEF Persist
  <2>7. CASE CommitUnacknowledged(h) BY <2>7 DEF CommitUnacknowledged
  <2>8. CASE PersistenceFails(h) BY <2>8 DEF PersistenceFails
  <2>9. CASE Reread(h) BY <2>9 DEF Reread
  <2>10. CASE Respond(h)
    <3>1. runs' \in [Payloads -> Nat] BY <2>10 DEF Respond
    <3> QED BY <2>10, <3>1 DEF Respond
  <2> QED
    BY <1>4, <2>1, <2>2, <2>3, <2>4, <2>5, <2>6, <2>7, <2>8, <2>9, <2>10 DEF Steps
<1> QED BY <1>1, <1>2, <1>3, <1>4, StepCases

LEMMA CheckedStep ==
  ASSUME IngestionAssumption, TypeInv, CheckedInv, [Next]_vars
  PROVE  CheckedInv'
<1>1. CASE UNCHANGED vars BY <1>1 DEF vars, handler, CheckedInv
<1>2. CASE Crash BY <1>2 DEF Crash, CheckedInv
<1>3. ASSUME NEW p \in Payloads, EndTask(p) PROVE CheckedInv'
  BY <1>3 DEF EndTask, handler, CheckedInv
<1>4. ASSUME NEW h \in Handlers, Steps(h) PROVE CheckedInv'
  <2>1. \A o \in Handlers : o # h => pc'[o] = pc[o] /\ req'[o] = req[o] BY <1>4, Frame
  <2>2. /\ pc'[h] \in {"lookup", "insert", "commit", "reread"} =>
             req'[h].defect \in {"none", "unnormalizable"}
        /\ pc'[h] \in {"insert", "commit", "reread"} => req'[h].defect = "none"
    <3> USE DEF TypeInv, Goto, RespondWith, CheckedInv
    <3>1. CASE \E p \in Payloads : Receive(h, p) BY <3>1 DEF Receive
    <3>2. CASE Authenticate(h) BY <3>2 DEF Authenticate
    <3>3. CASE VerificationFails(h) BY <3>3 DEF VerificationFails
    <3>4. CASE LookUp(h) BY <3>4 DEF LookUp
    <3>5. CASE Insert(h) BY <3>5 DEF Insert
    <3>6. CASE Persist(h) BY <3>6 DEF Persist
    <3>7. CASE CommitUnacknowledged(h) BY <3>7 DEF CommitUnacknowledged
    <3>8. CASE PersistenceFails(h) BY <3>8 DEF PersistenceFails
    <3>9. CASE Reread(h) BY <3>9 DEF Reread
    <3>10. CASE Respond(h) BY <3>10 DEF Respond
    <3> QED
      BY <1>4, <3>1, <3>2, <3>3, <3>4, <3>5, <3>6, <3>7, <3>8, <3>9, <3>10 DEF Steps
  <2> QED BY <2>1, <2>2 DEF CheckedInv
<1> QED BY <1>1, <1>2, <1>3, <1>4, StepCases

LEMMA WriterStep ==
  ASSUME TypeInv, WriterInv, [Next]_vars
  PROVE  WriterInv'
<1>1. ASSUME UNCHANGED <<raw_ingestion_records, handler>> PROVE WriterInv'
  BY <1>1 DEF handler, WriterInv, Existing, HeldBy
<1>2. CASE UNCHANGED vars BY <1>1, <1>2 DEF vars, tables
<1>3. CASE Crash BY <1>3 DEF Crash, WriterInv
<1>4. ASSUME NEW p \in Payloads, EndTask(p) PROVE WriterInv'
  BY <1>1, <1>4 DEF EndTask, tables
<1>5. ASSUME NEW h \in Handlers, Steps(h) PROVE WriterInv'
  <2>1. \A o \in Handlers : o # h => pc'[o] = pc[o] /\ req'[o] = req[o] BY <1>5, Frame
  <2>2. ASSUME pc'[h] = "commit"
        PROVE  /\ Existing(req[h]) = {} /\ UNCHANGED <<tables, req>>
               /\ \A o \in Handlers \ {h} : ~HeldBy(h, o)
    <3>1. Insert(h)
      BY <1>5, <2>2 DEF Steps, Receive, Authenticate, VerificationFails, LookUp, Persist,
         CommitUnacknowledged, PersistenceFails, Reread, Respond, Goto, RespondWith, TypeInv
    <3> QED BY <2>2, <3>1 DEF Insert, Goto, RespondWith, TypeInv
  <2>3. ASSUME NEW o \in Handlers, pc'[o] = "commit"
        PROVE  Existing(req[o])' = {} /\ \A x \in Handlers \ {o} : ~HeldBy(o, x)'
    <3>1. CASE o = h
      BY <2>1, <2>2, <2>3, <3>1 DEF Existing, HeldBy, tables
    <3>2. CASE o # h
      <4>1. /\ pc[o] = "commit" /\ req'[o] = req[o] /\ Existing(req[o]) = {}
            /\ \A x \in Handlers \ {o} : ~HeldBy(o, x)
        BY <2>1, <2>3, <3>2 DEF WriterInv
      <4>2. Existing(req[o])' = {}
        <5>1. CASE UNCHANGED tables BY <4>1, <5>1 DEF Existing, tables
        <5>2. CASE /\ pc[h] = "commit"
                   /\ raw_ingestion_records' = raw_ingestion_records \cup {req[h]}
          <6>1. ~SameEvent(req[h], req[o]) BY <3>2, <4>1, <5>2 DEF HeldBy
          <6> QED BY <4>1, <5>2, <6>1 DEF Existing
        <5> QED BY <1>5, <5>1, <5>2, Frame
      <4>3. ASSUME NEW x \in Handlers \ {o} PROVE ~HeldBy(o, x)'
        <5>1. CASE x # h BY <2>1, <4>1, <5>1 DEF HeldBy
        <5>2. CASE x = h
          <6>1. ASSUME pc'[h] = "commit" PROVE ~SameEvent(req'[h], req'[o])
            BY <2>2, <3>2, <4>1, <6>1 DEF HeldBy, SameEvent
          <6> QED BY <5>2, <6>1 DEF HeldBy
        <5> QED BY <5>1, <5>2
      <4> QED BY <4>2, <4>3
    <3> QED BY <3>1, <3>2
  <2> QED BY <2>3 DEF WriterInv
<1> QED BY <1>2, <1>3, <1>4, <1>5, StepCases

LEMMA EvidenceStep ==
  ASSUME TypeInv, CheckedInv, WriterInv, EvidenceSound, [Next]_vars
  PROVE  EvidenceSound'
<1>1. ASSUME UNCHANGED tables PROVE EvidenceSound'
  BY <1>1 DEF tables, EvidenceSound
<1>2. ASSUME NEW h \in Handlers, pc[h] = "commit",
             raw_ingestion_records' = raw_ingestion_records \cup {req[h]},
             payment_events' = payment_events \cup {req[h]}
      PROVE  EvidenceSound'
  <2>1. \A r \in raw_ingestion_records : ~SameEvent(r, req[h])
    BY <1>2 DEF WriterInv, Existing
  <2>2. req[h].defect = "none" BY <1>2 DEF CheckedInv
  <2>3. \A r, q \in raw_ingestion_records' : SameEvent(r, q) => r = q
    BY <1>2, <2>1 DEF EvidenceSound, SameEvent
  <2> QED BY <1>2, <2>2, <2>3 DEF EvidenceSound
<1>3. CASE UNCHANGED vars \/ Crash BY <1>1, <1>3 DEF vars, Crash
<1>4. ASSUME NEW p \in Payloads, EndTask(p) PROVE EvidenceSound' BY <1>1, <1>4 DEF EndTask
<1>5. ASSUME NEW h \in Handlers, Steps(h) PROVE EvidenceSound' BY <1>1, <1>2, <1>5, Frame
<1> QED BY <1>3, <1>4, <1>5, StepCases

\* The verdict on a payload whose event is recorded is true.
LEMMA ResolveIs ==
  ASSUME IngestionAssumption, TypeInv, NEW p \in Payloads, Existing(p) # {}
  PROVE  /\ Resolve(p, Existing(p)) \in {"duplicate", "conflict"}
         /\ Resolve(p, Existing(p)) = "duplicate" => p \in raw_ingestion_records
         /\ Resolve(p, Existing(p)) = "conflict" =>
              \E r \in Existing(p) : r.payload_hash # p.payload_hash
<1>1. ASSUME NEW r \in Existing(p), r.payload_hash = p.payload_hash
      PROVE  p \in raw_ingestion_records
  BY <1>1 DEF Existing, SameEvent, IngestionAssumption, TypeInv
<1> QED BY <1>1 DEF Resolve

LEMMA AnswerStep ==
  ASSUME IngestionAssumption, TypeInv, AnswerInv, [Next]_vars
  PROVE  AnswerInv'
<1>1. ASSUME NEW h \in Handlers, pc'[h] = pc[h], req'[h] = req[h], answer'[h] = answer[h],
             raw_ingestion_records \subseteq raw_ingestion_records'
      PROVE  AnswerOK(h)'
  <2>1. Existing(req[h]) \subseteq Existing(req[h])' BY <1>1 DEF Existing
  <2> QED BY <1>1, <2>1 DEF AnswerInv, AnswerOK
<1>2. CASE UNCHANGED vars BY <1>1, <1>2 DEF vars, tables, handler, AnswerInv
<1>3. CASE Crash BY <1>3 DEF Crash, AnswerInv, AnswerOK
<1>4. ASSUME NEW p \in Payloads, EndTask(p) PROVE AnswerInv'
  BY <1>1, <1>4 DEF EndTask, tables, handler, AnswerInv
<1>5. ASSUME NEW h \in Handlers, Steps(h) PROVE AnswerInv'
  <2>1. /\ \A o \in Handlers : o # h =>
             pc'[o] = pc[o] /\ req'[o] = req[o] /\ answer'[o] = answer[o]
        /\ raw_ingestion_records \subseteq raw_ingestion_records'
    BY <1>5, Frame DEF tables
  <2>2. AnswerOK(h) BY DEF AnswerInv
  <2>3. AnswerOK(h)'
    <3> USE DEF TypeInv, Goto, RespondWith
    <3>1. CASE \E p \in Payloads : Receive(h, p) BY <2>2, <3>1 DEF Receive, AnswerOK
    <3>2. CASE Authenticate(h) BY <2>2, <3>2 DEF Authenticate, AnswerOK
    <3>3. CASE VerificationFails(h) BY <3>3 DEF VerificationFails, AnswerOK
    <3>4. CASE LookUp(h)
      <4>1. /\ pc[h] = "lookup" /\ req[h] \in Payloads /\ UNCHANGED <<tables, req>>
            /\ answer[h] = "none"
        BY <2>2, <3>4 DEF LookUp, AnswerOK
      <4>2. CASE Existing(req[h]) # {}
        <5>1. answer'[h] = Resolve(req[h], Existing(req[h])) /\ pc'[h] = "respond"
          BY <3>4, <4>2 DEF LookUp
        <5> QED BY <4>1, <4>2, <5>1, ResolveIs DEF AnswerOK, Existing, tables
      <4>3. CASE Existing(req[h]) = {}
        BY <3>4, <4>1, <4>3 DEF LookUp, AnswerOK
      <4> QED BY <4>2, <4>3
    <3>5. CASE Insert(h)
      BY <2>2, <3>5 DEF Insert, AnswerOK, Existing, tables
    <3>6. CASE Persist(h) BY <3>6 DEF Persist, AnswerOK
    <3>7. CASE CommitUnacknowledged(h) BY <3>7 DEF CommitUnacknowledged, AnswerOK
    <3>8. CASE PersistenceFails(h) BY <3>8 DEF PersistenceFails, AnswerOK
    <3>9. CASE Reread(h)
      <4>1. /\ pc[h] = "reread" /\ req[h] \in Payloads /\ UNCHANGED <<tables, req>>
            /\ Existing(req[h]) # {}
        BY <2>2, <3>9 DEF Reread, AnswerOK
      <4>2. answer'[h] = Resolve(req[h], Existing(req[h])) /\ pc'[h] = "respond"
        BY <3>9, <4>1 DEF Reread
      <4> QED BY <4>1, <4>2, ResolveIs DEF AnswerOK, Existing, tables
    <3>10. CASE Respond(h) BY <3>10 DEF Respond, AnswerOK
    <3> QED
      BY <1>5, <3>1, <3>2, <3>3, <3>4, <3>5, <3>6, <3>7, <3>8, <3>9, <3>10 DEF Steps
  <2> QED BY <1>1, <2>1, <2>3 DEF AnswerInv
<1> QED BY <1>2, <1>3, <1>4, <1>5, StepCases

LEMMA RunsStep ==
  ASSUME IngestionAssumption, TypeInv, WriterInv, AnswerInv, RunsInv, [Next]_vars
  PROVE  RunsInv'
<1>1. ASSUME runs' = runs, raw_ingestion_records \subseteq raw_ingestion_records',
             \A o \in Handlers : answer'[o] = "stored" =>
               answer[o] = "stored" /\ req'[o] = req[o]
      PROVE  RunsInv'
  BY <1>1 DEF RunsInv, Owes
<1>2. CASE UNCHANGED vars BY <1>1, <1>2 DEF vars, tables, handler, history
<1>3. CASE Crash BY <1>1, <1>3 DEF Crash, tables
<1>4. ASSUME NEW p \in Payloads, EndTask(p) PROVE RunsInv'
  BY <1>1, <1>4 DEF EndTask, tables, handler, history
<1>5. ASSUME NEW h \in Handlers, Steps(h) PROVE RunsInv'
  <2>1. /\ \A o \in Handlers : o # h =>
             pc'[o] = pc[o] /\ req'[o] = req[o] /\ answer'[o] = answer[o]
        /\ raw_ingestion_records \subseteq raw_ingestion_records'
    BY <1>5, Frame DEF tables
  <2>2. CASE Persist(h)
    <3>1. /\ pc[h] = "commit" /\ req' = req /\ runs' = runs /\ req[h] \in Payloads
          /\ req[h] \in raw_ingestion_records'
      BY <2>2 DEF Persist, history, TypeInv
    <3>2. req[h] \notin raw_ingestion_records
      BY <3>1 DEF WriterInv, Existing, SameEvent
    <3>3. \A o \in Handlers : answer[o] = "stored" => req[o] # req[h]
      BY <3>2 DEF AnswerInv, AnswerOK
    <3>4. runs[req[h]] # 1 BY <3>1, <3>2 DEF RunsInv
    <3>5. ASSUME NEW p \in Payloads
          PROVE  /\ runs'[p] \in {0, 1}
                 /\ runs'[p] = 1 =>
                      p \in raw_ingestion_records' /\ \A o \in Handlers : ~Owes(o, p)'
      <4>1. ASSUME runs[p] = 1, NEW o \in Handlers PROVE ~Owes(o, p)'
        BY <2>1, <3>1, <3>4, <4>1 DEF RunsInv, Owes
      <4> QED BY <2>1, <3>1, <4>1 DEF RunsInv
    <3>6. \A o, x \in Handlers : o # x /\ answer'[o] = "stored" => ~Owes(x, req[o])'
      BY <2>1, <3>1, <3>3 DEF RunsInv, Owes
    <3> QED BY <3>5, <3>6 DEF RunsInv
  <2>3. CASE Respond(h)
    <3>1. answer'[h] = "none" BY <2>3 DEF Respond, TypeInv
    <3>2. CASE ~Schedules(req[h], answer[h])
      <4>1. runs' = runs BY <2>3, <3>2 DEF Respond
      <4> QED BY <1>1, <2>1, <3>1, <4>1
    <3>3. CASE Schedules(req[h], answer[h])
      <4>1. PICK p \in Payloads : p = req[h] BY <2>3 DEF Respond, TypeInv
      <4>2. answer[h] = "stored" /\ Owes(h, p) BY <3>3, <4>1 DEF Schedules, Owes
      <4>3. runs' = [runs EXCEPT ![p] = @ + 1] BY <2>3, <3>3, <4>1 DEF Respond
      <4>4. p \in raw_ingestion_records BY <4>1, <4>2 DEF AnswerInv, AnswerOK
      <4>5. runs[p] = 0 BY <4>2 DEF RunsInv
      <4>6. runs'[p] = 1 /\ \A q \in Payloads : q # p => runs'[q] = runs[q]
        BY <4>3, <4>5 DEF TypeInv
      <4>7. \A o \in Handlers : ~Owes(o, p)'
        BY <2>1, <3>1, <4>1, <4>2 DEF RunsInv, Owes
      <4>8. ASSUME NEW q \in Payloads
            PROVE  /\ runs'[q] \in {0, 1}
                   /\ runs'[q] = 1 =>
                        q \in raw_ingestion_records' /\ \A o \in Handlers : ~Owes(o, q)'
        <5>1. CASE q = p BY <2>1, <4>4, <4>6, <4>7, <5>1
        <5>2. CASE q # p BY <2>1, <3>1, <4>6, <5>2 DEF RunsInv, Owes
        <5> QED BY <5>1, <5>2
      <4>9. \A o, x \in Handlers : o # x /\ answer'[o] = "stored" => ~Owes(x, req[o])'
        BY <2>1, <3>1 DEF RunsInv, Owes
      <4> QED BY <4>8, <4>9 DEF RunsInv
    <3> QED BY <3>2, <3>3
  <2>4. CASE ~Persist(h) /\ ~Respond(h)
    <3>1. runs' = runs
      BY <1>5, <2>4 DEF Steps, Receive, Authenticate, VerificationFails, LookUp, Insert,
                        CommitUnacknowledged, PersistenceFails, Reread, history
    <3>2. answer'[h] # "stored"
      <4> USE DEF TypeInv, RespondWith
      <4>1. pc[h] # "respond" => answer[h] = "none" BY DEF AnswerInv, AnswerOK
      <4>2. CASE \E p \in Payloads : Receive(h, p) BY <4>1, <4>2 DEF Receive
      <4>3. CASE Authenticate(h) BY <4>1, <4>3 DEF Authenticate
      <4>4. CASE VerificationFails(h) BY <4>4 DEF VerificationFails
      <4>5. CASE LookUp(h) BY <4>1, <4>5 DEF LookUp, Resolve
      <4>6. CASE Insert(h) BY <4>1, <4>6 DEF Insert
      <4>7. CASE CommitUnacknowledged(h) \/ PersistenceFails(h)
        BY <4>7 DEF CommitUnacknowledged, PersistenceFails
      <4>8. CASE Reread(h) BY <4>8 DEF Reread, Resolve
      <4> QED BY <1>5, <2>4, <4>2, <4>3, <4>4, <4>5, <4>6, <4>7, <4>8 DEF Steps
    <3> QED BY <1>1, <2>1, <3>1, <3>2
  <2> QED BY <2>2, <2>3, <2>4
<1> QED BY <1>2, <1>3, <1>4, <1>5, StepCases

LEMMA InitInv ==
  ASSUME IngestionAssumption, Init
  PROVE  IInv
<1>1. TypeInv BY DEF Init, TypeInv, Labels, Answers, IngestionAssumption
<1>2. CheckedInv /\ WriterInv BY DEF Init, CheckedInv, WriterInv
<1>3. EvidenceSound BY DEF Init, EvidenceSound
<1>4. AnswerInv BY DEF Init, AnswerInv, AnswerOK
<1>5. RunsInv BY DEF Init, RunsInv, Owes
<1> QED BY <1>1, <1>2, <1>3, <1>4, <1>5 DEF IInv

LEMMA StepInv ==
  ASSUME IngestionAssumption, IInv, [Next]_vars
  PROVE  IInv'
<1>1. TypeInv' BY TypeStep DEF IInv
<1>2. CheckedInv' BY CheckedStep DEF IInv
<1>3. WriterInv' BY WriterStep DEF IInv
<1>4. EvidenceSound' BY EvidenceStep DEF IInv
<1>5. AnswerInv' BY AnswerStep DEF IInv
<1>6. RunsInv' BY RunsStep DEF IInv
<1> QED BY <1>1, <1>2, <1>3, <1>4, <1>5, <1>6 DEF IInv

LEMMA Invariant == Spec => []IInv
BY InitInv, StepInv, IngestionAssumption, PTL DEF Spec

\* save_ingestion and the unique indexes on (source_system, source_event_id): whatever the
\* handlers race for, the commits that break and the crashes, each event has one record,
\* its canonical event with it, and only of a payload that passed every check.
THEOREM EvidenceAlwaysSound == Spec => []EvidenceSound
<1>1. IInv => EvidenceSound BY DEF IInv
<1> QED BY <1>1, Invariant, PTL

\* routes.ingest_razorpay and ingest_paypal: however often and by whomever an event is
\* delivered, its pipeline is scheduled once at most, and after its commit.
THEOREM ScheduledAtMostOnce == Spec => []PipelineScheduledOnce
<1>1. ASSUME IInv PROVE PipelineScheduledOnce
  <2>1. \A p \in Payloads :
          runs[p] \in {0, 1} /\ (runs[p] = 1 => p \in raw_ingestion_records)
    BY <1>1 DEF IInv, RunsInv
  <2> QED BY <1>1, <2>1 DEF IInv, EvidenceSound, PipelineScheduledOnce
<1> QED BY <1>1, Invariant, PTL

-----------------------------------------------------------------------------
(* The promise to PayPal *)

PayPalRecords(S, i) == {r \in S : r.source_system = "paypal" /\ r.source_event_id = i}

\* RecordedHash of a set of records
HashOf(R) == IF R = {} THEN NoHash ELSE (CHOOSE r \in R : TRUE).payload_hash
HashIn(S, i) == HashOf(PayPalRecords(S, i))

LEMMA HashInIs ==
  ASSUME NEW S, \A r, q \in S : SameEvent(r, q) => r = q
  PROVE  /\ \A r \in S : r.source_system = "paypal" =>
              HashIn(S, r.source_event_id) = r.payload_hash
         /\ \A i : PayPalRecords(S, i) = {} => HashIn(S, i) = NoHash
<1>1. ASSUME NEW r \in S, r.source_system = "paypal"
      PROVE  HashIn(S, r.source_event_id) = r.payload_hash
  <2>1. PayPalRecords(S, r.source_event_id) = {r} BY <1>1 DEF PayPalRecords, SameEvent
  <2>2. (CHOOSE q \in {r} : TRUE) = r OBVIOUS
  <2> QED BY <2>1, <2>2 DEF HashIn, HashOf
<1> QED BY <1>1 DEF HashIn, HashOf

LEMMA RecordedIs ==
  /\ \A i : RecordedHash(i) = HashIn(raw_ingestion_records, i)
  /\ \A i : RecordedHash(i)' = HashIn(raw_ingestion_records', i)
BY DEF RecordedHash, HashIn, HashOf, PayPalRecords

\* An event that is inserted, and no other one, gets its hash.
LEMMA InsertRecords ==
  ASSUME NEW S, NEW p,
         \A r, q \in S \cup {p} : SameEvent(r, q) => r = q,
         \A r \in S : ~SameEvent(r, p)
  PROVE  \A i : HashIn(S \cup {p}, i) =
           IF p.source_system = "paypal" /\ i = p.source_event_id THEN p.payload_hash
           ELSE HashIn(S, i)
<1>1. ASSUME NEW i, ~(p.source_system = "paypal" /\ i = p.source_event_id)
      PROVE  HashIn(S \cup {p}, i) = HashIn(S, i)
  <2>1. PayPalRecords(S \cup {p}, i) = PayPalRecords(S, i) BY <1>1 DEF PayPalRecords
  <2> QED BY <2>1 DEF HashIn
<1>2. p.source_system = "paypal" => HashIn(S \cup {p}, p.source_event_id) = p.payload_hash
  BY HashInIs
<1> QED BY <1>1, <1>2

Store == [i \in PayPalIds |-> RecordedHash(i)]
Telling == {h \in Handlers : req[h] \in PayPal /\ answer[h] \in Verdicts}
Told == {<<req[h].source_event_id, req[h].payload_hash, answer[h]>> : h \in Telling}

\* The records only change when an event is inserted that was not there.
LEMMA RecordsStep ==
  ASSUME IInv, [Next]_vars
  PROVE  \/ UNCHANGED raw_ingestion_records
         \/ \E p \in Payloads :
              /\ raw_ingestion_records' = raw_ingestion_records \cup {p}
              /\ \A r \in raw_ingestion_records : ~SameEvent(r, p)
<1>1. CASE UNCHANGED vars \/ Crash BY <1>1 DEF vars, tables, Crash
<1>2. ASSUME NEW p \in Payloads, EndTask(p) PROVE UNCHANGED raw_ingestion_records
  BY <1>2 DEF EndTask, tables
<1>3. ASSUME NEW h \in Handlers, Steps(h)
      PROVE  \/ UNCHANGED raw_ingestion_records
             \/ \E p \in Payloads :
                  /\ raw_ingestion_records' = raw_ingestion_records \cup {p}
                  /\ \A r \in raw_ingestion_records : ~SameEvent(r, p)
  <2>1. CASE UNCHANGED tables BY <2>1 DEF tables
  <2>2. CASE pc[h] = "commit" /\ raw_ingestion_records' = raw_ingestion_records \cup {req[h]}
    <3>1. req[h] \in Payloads BY <2>2 DEF IInv, TypeInv
    <3>2. \A r \in raw_ingestion_records : ~SameEvent(r, req[h])
      BY <2>2 DEF IInv, WriterInv, Existing
    <3> QED BY <2>2, <3>1, <3>2
  <2> QED BY <1>3, <2>1, <2>2, Frame DEF IInv
<1> QED BY <1>1, <1>2, <1>3, StepCases

LEMMA StoreStep ==
  ASSUME IngestionAssumption, IInv, IInv', [Next]_vars
  PROVE  Store' = Store \/ \E i \in PayPalIds, h \in PayPalHashes :
           Store[i] = NoHash /\ Store' = [Store EXCEPT ![i] = h]
<1>1. CASE UNCHANGED raw_ingestion_records
  <2>1. \A i : RecordedHash(i)' = RecordedHash(i) BY <1>1, RecordedIs
  <2> QED BY <2>1 DEF Store
<1>2. ASSUME NEW p \in Payloads,
             raw_ingestion_records' = raw_ingestion_records \cup {p},
             \A r \in raw_ingestion_records : ~SameEvent(r, p)
      PROVE  Store' = Store \/ \E i \in PayPalIds, h \in PayPalHashes :
               Store[i] = NoHash /\ Store' = [Store EXCEPT ![i] = h]
  <2>1. \A r, q \in raw_ingestion_records' : SameEvent(r, q) => r = q
    BY DEF IInv, EvidenceSound
  <2>2. \A i : RecordedHash(i)' =
          IF p.source_system = "paypal" /\ i = p.source_event_id THEN p.payload_hash
          ELSE RecordedHash(i)
    <3>1. \A i : HashIn(raw_ingestion_records \cup {p}, i) =
            IF p.source_system = "paypal" /\ i = p.source_event_id THEN p.payload_hash
            ELSE HashIn(raw_ingestion_records, i)
      BY <1>2, <2>1, InsertRecords
    <3> QED BY <1>2, <3>1, RecordedIs
  <2>3. CASE p.source_system = "paypal"
    <3>1. p.source_event_id \in PayPalIds /\ p.payload_hash \in PayPalHashes
      BY <2>3 DEF PayPalIds, PayPalHashes, PayPal
    <3>2. RecordedHash(p.source_event_id) = NoHash
      <4>1. PayPalRecords(raw_ingestion_records, p.source_event_id) = {}
        BY <1>2, <2>3 DEF PayPalRecords, SameEvent
      <4> QED BY <4>1, RecordedIs DEF HashIn, HashOf
    <3>3. Store' = [Store EXCEPT ![p.source_event_id] = p.payload_hash]
      BY <2>2, <2>3 DEF Store
    <3>4. Store[p.source_event_id] = NoHash BY <3>1, <3>2 DEF Store
    <3> QED BY <3>1, <3>3, <3>4
  <2>4. CASE p.source_system # "paypal"
    <3>1. \A i : RecordedHash(i)' = RecordedHash(i) BY <2>2, <2>4
    <3> QED BY <3>1 DEF Store
  <2> QED BY <2>3, <2>4
<1> QED BY <1>1, <1>2, RecordsStep

\* What a handler is about to say is true of the records.
LEMMA HonestAnswers ==
  ASSUME IngestionAssumption, IInv, NEW h \in Telling
  PROVE  /\ req[h].source_event_id \in PayPalIds
         /\ \/ /\ answer[h] \in {"stored", "duplicate"}
               /\ RecordedHash(req[h].source_event_id) = req[h].payload_hash
            \/ /\ answer[h] = "conflict"
               /\ RecordedHash(req[h].source_event_id) \notin {req[h].payload_hash, NoHash}
<1>1. /\ h \in Handlers /\ req[h] \in Payloads /\ req[h].source_system = "paypal"
      /\ answer[h] \in Verdicts /\ req[h].source_event_id \in PayPalIds
  BY DEF Telling, PayPal, PayPalIds
<1>2. AnswerOK(h) BY <1>1 DEF IInv, AnswerInv
<1>3. \A r \in raw_ingestion_records : r.source_system = "paypal" =>
        RecordedHash(r.source_event_id) = r.payload_hash
  BY HashInIs, RecordedIs DEF IInv, EvidenceSound
<1>4. CASE answer[h] \in {"stored", "duplicate"} BY <1>1, <1>2, <1>3, <1>4 DEF AnswerOK
<1>5. CASE answer[h] = "conflict"
  <2>1. PICK r \in Existing(req[h]) : r.payload_hash # req[h].payload_hash
    BY <1>1, <1>2, <1>5 DEF AnswerOK
  <2>2. /\ r \in raw_ingestion_records /\ r.source_system = "paypal"
        /\ r.source_event_id = req[h].source_event_id
    BY <1>1 DEF Existing, SameEvent
  <2>3. r.payload_hash # NoHash
    BY <2>2 DEF IInv, TypeInv, IngestionAssumption, Payload, NoHash
  <2> QED BY <1>1, <1>3, <1>5, <2>1, <2>2, <2>3
<1> QED BY <1>1, <1>4, <1>5 DEF Verdicts

HonestInv ==
  \A d \in Told :
    \/ d[3] \in {"stored", "duplicate"} /\ Store[d[1]] = d[2]
    \/ d[3] = "conflict" /\ Store[d[1]] \notin {d[2], NoHash}

LEMMA AlwaysHonest ==
  ASSUME IngestionAssumption, IInv
  PROVE  HonestInv
<1>1. ASSUME NEW h \in Telling,
             NEW d, d = <<req[h].source_event_id, req[h].payload_hash, answer[h]>>
      PROVE  \/ d[3] \in {"stored", "duplicate"} /\ Store[d[1]] = d[2]
             \/ d[3] = "conflict" /\ Store[d[1]] \notin {d[2], NoHash}
  <2>1. d[1] = req[h].source_event_id /\ d[2] = req[h].payload_hash /\ d[3] = answer[h]
    BY <1>1
  <2>2. Store[d[1]] = RecordedHash(req[h].source_event_id)
    BY <2>1, HonestAnswers DEF Store
  <2> QED BY <2>1, <2>2, HonestAnswers
<1> QED BY <1>1 DEF HonestInv, Told

LEMMA HonestAlways == Spec => []HonestInv
BY Invariant, AlwaysHonest, IngestionAssumption, PTL

LEMMA PromiseInit == Init => Promise!Init
<1> SUFFICES ASSUME Init PROVE Promise!Init OBVIOUS
<1>1. \A i : RecordedHash(i) = NoHash BY DEF Init, RecordedHash
<1>2. Told = {} BY DEF Init, Told, Telling, Verdicts
<1> QED BY <1>1, <1>2 DEF Promise!Init, Told, Telling

LEMMA PromiseStep ==
  ASSUME IngestionAssumption, IInv, IInv', HonestInv', [Next]_vars
  PROVE  [Promise!Next]_(Promise!vars)
<1>1. UNCHANGED Store \/ \E i \in PayPalIds, h \in PayPalHashes :
        Store[i] = NoHash /\ Store' = [Store EXCEPT ![i] = h]
  BY StoreStep
<1>2. UNCHANGED [i \in PayPalIds |-> RecordedHash(i)] \/
      \E i \in PayPalIds, h \in PayPalHashes : Promise!Record(i, h)
  BY <1>1 DEF Promise!Record, Store
<1>3. Promise!Tell BY DEF HonestInv, Told, Telling, Store, Promise!Tell, Promise!Honest
<1> QED BY <1>2, <1>3 DEF Promise!Next

\* PayPalIngestionService.ingest implements EventStore: its steps are the promise's or
\* change nothing of it, so that in every race an event's evidence stands and PayPal is
\* told the truth about it.
THEOREM PayPalPromiseKept == Spec => PayPalKeepsPromise
<1>1. IInv /\ IInv' /\ HonestInv' /\ [Next]_vars => [Promise!Next]_(Promise!vars)
  BY PromiseStep, IngestionAssumption
<1> QED
  BY <1>1, PromiseInit, Invariant, HonestAlways, PTL DEF Spec, PayPalKeepsPromise, Promise!Spec
==============================================================================
