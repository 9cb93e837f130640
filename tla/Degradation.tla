----------------------------- MODULE Degradation -----------------------------
(***************************************************************************)
(* Stages 2 and 3 of live_pipeline for one segment (one dimension and      *)
(* value): the snapshot of a five-minute window is computed and committed, *)
(* evaluated into a new version of the window's signal, and the latest     *)
(* signals of all windows are folded into degradation episodes, which are  *)
(* reconciled with the table.                                              *)
(*                                                                         *)
(* The tasks of concurrent deliveries interleave at every await.  They     *)
(* take no advisory lock: what keeps them apart is the unique key of the   *)
(* signals and the row locks of the episodes they upsert.                  *)
(*                                                                         *)
(* Windows are numbered.  Rates are kept as counts and compared by         *)
(* multiplication; thresholds are percentages.                             *)
(***************************************************************************)
EXTENDS Integers, FiniteSets, SequencesExt

CONSTANTS
  Deliveries,       \* events that arrive while the model runs
  WindowOf,         \* the window of the timestamp of each
  OutcomeOf,        \* its event type
  LastWindow,       \* windows are 1..LastWindow
  Past,             \* windows evaluated before the model starts: 1..Past
  PastCounts,       \* what may have happened in a past window
  NoBaseline,       \* windows without a historical rate
  Baseline,         \* baseline_success_rate of the others, in percent
  Threshold,        \* MIN_TRANSACTION_THRESHOLD
  Required,         \* REQUIRED_CONSECUTIVE_WINDOWS
  Recovery,         \* RECOVERY_CONSECUTIVE_WINDOWS
  MaxFaults         \* bound: failures of a task

Windows == 1..LastWindow
Outcomes == {"payment.captured", "payment.failed", "payment.authorized"}
Counts == [ok : Nat, failed : Nat]

ASSUME DegradationAssumption ==
  /\ WindowOf \in [Deliveries -> Windows] /\ OutcomeOf \in [Deliveries -> Outcomes]
  /\ LastWindow \in Nat /\ Past \in 0..LastWindow
  /\ PastCounts \subseteq Counts /\ NoBaseline \subseteq Windows
  /\ Baseline \in 0..100
  /\ Threshold \in Nat \ {0} /\ {Required, Recovery} \subseteq Nat \ {0, 1} /\ MaxFaults \in Nat

-----------------------------------------------------------------------------
(* evaluate_snapshot and evaluate_severity *)

Total(c) == c.ok + c.failed
Drop(c)  == Baseline * Total(c) - 100 * c.ok  \* absolute drop, times Total

\* The baseline takes part in relative tests from MIN_BASELINE_RATE_FOR_RELATIVE_TEST on.
Relative(c, percent) == 100 * Drop(c) >= percent * Baseline * Total(c)

TypeOfSnapshot(w, c) ==
  CASE w \in NoBaseline -> "NO_BASELINE"
    [] w \notin NoBaseline /\ Total(c) < Threshold -> "LOW_VOLUME"
    [] OTHER ->
         IF Drop(c) >= 5 * Total(c) /\ (Baseline < 5 \/ Relative(c, 10)) THEN "BAD" ELSE "NORMAL"

Moderate == 1
High     == 2
Critical == 3
Worst(a, b) == IF b > a THEN b ELSE a

SeverityOf(c) ==
  LET critical == Drop(c) >= 30 * Total(c) \/ (Baseline >= 5 /\ Relative(c, 50))
      high     == Drop(c) >= 15 * Total(c) \/ (Baseline >= 5 /\ Relative(c, 25))
  IN CASE critical          -> Critical
       [] ~critical /\ high -> High
       [] OTHER             -> Moderate

SignalOf(w, c, version) ==
  LET type == TypeOfSnapshot(w, c) IN
  [window |-> w, version |-> version, type |-> type,
   severity |-> IF type = "BAD" THEN SeverityOf(c) ELSE Moderate]

-----------------------------------------------------------------------------
(* reconcile_timeline.  LOW_VOLUME and NO_BASELINE pause the machine.      *)

Episode(start, count, severity) ==
  [start |-> start, status |-> "ACTIVE", ended |-> 0, count |-> count, severity |-> severity]

NoEpisode == Episode(0, 0, Moderate)

Healthy ==
  [state |-> "HEALTHY", bad |-> 0, normal |-> 0, first |-> 0, last |-> 0,
   severity |-> Moderate, episode |-> NoEpisode, episodes |-> <<>>]

Begin(m, s) ==
  [m EXCEPT !.state = "BAD_PENDING", !.bad = 1, !.first = s.window, !.severity = s.severity]

Persist(m, s) ==
  LET n == [m EXCEPT !.bad = @ + 1, !.severity = Worst(@, s.severity)] IN
  IF n.bad < Required THEN n
  ELSE [n EXCEPT !.state = "DEGRADED", !.episode = Episode(n.first, n.bad, n.severity)]

\* Mutated form of Worsen: a relapse does not interrupt the recovery.
WorsenStaysPending(m, s) ==
  [m EXCEPT !.episode.count = @ + 1, !.episode.severity = Worst(@, s.severity)]

Worsen(m, s) ==
  [m EXCEPT !.state = "DEGRADED", !.normal = 0,
            !.episode.count = @ + 1, !.episode.severity = Worst(@, s.severity)]

Recover(m) ==
  [m EXCEPT
    !.state = "HEALTHY", !.normal = 0, !.first = 0, !.episode = NoEpisode,
    !.episodes = Append(@, [m.episode EXCEPT !.status = "RECOVERED", !.ended = m.last])]

Improve(m, s) ==
  CASE m.state = "DEGRADED" -> [m EXCEPT !.state = "RECOVERY_PENDING", !.normal = 1]
    [] m.state # "DEGRADED" /\ m.normal + 1 < Recovery -> [m EXCEPT !.normal = @ + 1]
    [] OTHER -> Recover(m)

Step(m, s) ==
  LET bad == s.type = "BAD"
      normal == s.type = "NORMAL"
      n == CASE m.state = "HEALTHY" /\ bad        -> Begin(m, s)
             [] m.state = "BAD_PENDING" /\ bad    -> Persist(m, s)
             [] m.state = "BAD_PENDING" /\ normal ->
                  [m EXCEPT !.state = "HEALTHY", !.bad = 0, !.first = 0]
             [] m.state \in {"DEGRADED", "RECOVERY_PENDING"} /\ bad    -> Worsen(m, s)
             [] m.state \in {"DEGRADED", "RECOVERY_PENDING"} /\ normal -> Improve(m, s)
             [] OTHER -> m
  IN [n EXCEPT !.last = IF bad THEN s.window ELSE @]

\* Episodes in the order in which they start
Reconcile(timeline) ==
  LET m == FoldLeft(Step, Healthy, timeline) IN
  IF m.episode = NoEpisode THEN m.episodes ELSE Append(m.episodes, m.episode)

-----------------------------------------------------------------------------

VARIABLES
  counts,      \* payment_events: what happened in each window
  snapshots,   \* table payment_health_snapshots: rows [window, counts]
  signals,     \* table degradation_signals
  episodes,    \* table degradation_episodes
  new,         \* uncommitted rows of each task: [signals, episodes]
  pc,          \* progress of the task of each delivery
  read,        \* the counts a task has read
  version,     \* the evaluation_version it is about to insert
  plan,        \* the episodes it has yet to upsert
  overlapped,  \* history: two tasks have run at once
  faults       \* history: failures of a task

tables == <<counts, snapshots, signals, episodes>>
task   == <<new, pc, read, version, plan>>
vars   == <<tables, task, overlapped, faults>>

NoRows   == [signals |-> {}, episodes |-> {}]
NoCounts == [ok |-> 0, failed |-> 0]

Labels == {"none", "scheduled", "save", "select", "number", "append", "replay", "compare",
           "upsert", "done", "failed"}
Running == Labels \ {"none", "scheduled", "done", "failed"}

\* The latest signals of all windows, ...
Current(S) == {s \in S : \A t \in S : t.window = s.window => t.version <= s.version}

\* ... in window order
Latest(S) ==
  LET rank(s) == Cardinality({t \in Current(S) : t.window <= s.window}) IN
  [i \in 1..Cardinality(Current(S)) |-> CHOOSE s \in Current(S) : rank(s) = i]

\* ON CONFLICT (episode_id) DO UPDATE
Upsert(E, x) == {y \in E : y.start # x.start} \cup {x}

ViewSignals(d)  == signals \cup new[d].signals
ViewEpisodes(d) ==
  {x \in episodes : \A y \in new[d].episodes : y.start # x.start} \cup new[d].episodes

\* Mutated form of MaxVersion: numbers are drawn from a sequence, which sees the
\* uncommitted signals of other tasks.
MaxDrawn(d, w) ==
  Max({0} \cup {s.version : s \in {t \in UNION {ViewSignals(o) : o \in Deliveries} : t.window = w}})

MaxVersion(d, w) == Max({0} \cup {s.version : s \in {t \in ViewSignals(d) : t.window = w}})
Taken(S, d)      == \E s \in S : s.window = WindowOf[d] /\ s.version = version[d]

EndTask(d, label) ==
  /\ pc' = [pc EXCEPT ![d] = label]
  /\ new' = [new EXCEPT ![d] = NoRows]
  /\ read' = [read EXCEPT ![d] = NoCounts]
  /\ version' = [version EXCEPT ![d] = 0]
  /\ plan' = [plan EXCEPT ![d] = <<>>]

\* Stage 1 has stored an event; its task is scheduled.
Ingest(d) ==
  /\ pc[d] = "none"
  /\ counts' = [counts EXCEPT ![WindowOf[d]] =
       CASE OutcomeOf[d] = "payment.captured" -> [@ EXCEPT !.ok = @ + 1]
         [] OutcomeOf[d] = "payment.failed"   -> [@ EXCEPT !.failed = @ + 1]
         [] OTHER                             -> @]
  /\ pc' = [pc EXCEPT ![d] = "scheduled"]
  /\ UNCHANGED <<snapshots, signals, episodes, new, read, version, plan, overlapped, faults>>

\* Stage 2 reads the events of the window, ...
ReadEvents(d) ==
  /\ pc[d] = "scheduled"
  /\ read' = [read EXCEPT ![d] = counts[WindowOf[d]]]
  /\ pc' = [pc EXCEPT ![d] = "save"]
  /\ overlapped' = (overlapped \/ \E o \in Deliveries : pc[o] \in Running)
  /\ UNCHANGED <<tables, new, version, plan, faults>>

\* ... and upserts its snapshot, and commits.
SaveSnapshot(d) ==
  /\ pc[d] = "save"
  /\ snapshots' = {x \in snapshots : x.window # WindowOf[d]}
                  \cup {[window |-> WindowOf[d], counts |-> read[d]]}
  /\ pc' = [pc EXCEPT ![d] = "select"]
  /\ UNCHANGED <<counts, signals, episodes, new, read, version, plan, overlapped, faults>>

\* Stage 3 reads the snapshot, ...
SelectSnapshot(d) ==
  /\ pc[d] = "select"
  /\ \E x \in snapshots : x.window = WindowOf[d] /\ read' = [read EXCEPT ![d] = x.counts]
  /\ pc' = [pc EXCEPT ![d] = "number"]
  /\ UNCHANGED <<tables, new, version, plan, overlapped, faults>>

NextVersion(d) ==
  /\ pc[d] = "number"
  /\ version' = [version EXCEPT ![d] = MaxVersion(d, WindowOf[d]) + 1]
  /\ pc' = [pc EXCEPT ![d] = "append"]
  /\ UNCHANGED <<tables, new, read, plan, overlapped, faults>>

\* ... and appends its evaluation: an insert waits for an uncommitted equal key, and a
\* committed one is an IntegrityError, which ends the task.
AppendSignal(d) ==
  /\ pc[d] = "append"
  /\ \A o \in Deliveries \ {d} : ~Taken(new[o].signals, d)
  /\ IF Taken(signals, d)
       THEN EndTask(d, "failed")
       ELSE /\ new' = [new EXCEPT ![d].signals =
                         @ \cup {SignalOf(WindowOf[d], read[d], version[d])}]
            /\ pc' = [pc EXCEPT ![d] = "replay"]
            /\ UNCHANGED <<read, version, plan>>
  /\ UNCHANGED <<tables, overlapped, faults>>

\* The episodes of the latest signals; ...
Replay(d) ==
  /\ pc[d] = "replay"
  /\ plan' = [plan EXCEPT ![d] = Reconcile(Latest(ViewSignals(d)))]
  /\ pc' = [pc EXCEPT ![d] = "compare"]
  /\ UNCHANGED <<tables, new, read, version, overlapped, faults>>

\* Mutated form of Stale: episodes that have recovered are history.
StaleActive(E, valid) ==
  {[x EXCEPT !.status = "INVALIDATED"] :
     x \in {y \in E : y.status = "ACTIVE" /\ y.start \notin {v.start : v \in valid}}}

\* Existing episodes that the latest signals no longer support
Stale(E, valid) ==
  {[x EXCEPT !.status = "INVALIDATED"] :
     x \in {y \in E : y.status # "INVALIDATED" /\ y.start \notin {v.start : v \in valid}}}

\* ... existing ones that are not among them are invalidated first.
Compare(d) ==
  /\ pc[d] = "compare"
  /\ plan' = [plan EXCEPT ![d] = SetToSeq(Stale(ViewEpisodes(d), ToSet(@))) \o @]
  /\ pc' = [pc EXCEPT ![d] = "upsert"]
  /\ UNCHANGED <<tables, new, read, version, overlapped, faults>>

\* An upsert waits for an uncommitted row of the episode.
UpsertEpisode(d) ==
  /\ pc[d] = "upsert" /\ plan[d] # <<>>
  /\ \A o \in Deliveries \ {d} : \A y \in new[o].episodes : y.start # Head(plan[d]).start
  /\ new' = [new EXCEPT ![d].episodes = Upsert(@, Head(plan[d]))]
  /\ plan' = [plan EXCEPT ![d] = Tail(@)]
  /\ UNCHANGED <<tables, pc, read, version, overlapped, faults>>

Commit(d) ==
  /\ pc[d] = "upsert" /\ plan[d] = <<>>
  /\ signals' = ViewSignals(d)
  /\ episodes' = ViewEpisodes(d)
  /\ EndTask(d, "done")
  /\ UNCHANGED <<counts, snapshots, overlapped, faults>>

\* Any exception, and the abort of a deadlock between upserts
Fail(d) ==
  /\ pc[d] \in Running
  /\ faults < MaxFaults
  /\ faults' = faults + 1
  /\ EndTask(d, "failed")
  /\ UNCHANGED <<tables, overlapped>>

\* The past was evaluated window by window, once each.
Init ==
  /\ counts \in {c \in [Windows -> PastCounts \cup {NoCounts}] :
                   \A w \in Windows \ (1..Past) : c[w] = NoCounts}
  /\ snapshots = {[window |-> w, counts |-> counts[w]] : w \in 1..Past}
  /\ signals = {SignalOf(w, counts[w], 1) : w \in 1..Past}
  /\ episodes = ToSet(Reconcile(Latest(signals)))
  /\ new = [d \in Deliveries |-> NoRows]
  /\ pc = [d \in Deliveries |-> "none"]
  /\ read = [d \in Deliveries |-> NoCounts]
  /\ version = [d \in Deliveries |-> 0]
  /\ plan = [d \in Deliveries |-> <<>>]
  /\ overlapped = FALSE
  /\ faults = 0

Next ==
  \E d \in Deliveries :
    \/ Ingest(d) \/ ReadEvents(d) \/ SaveSnapshot(d)
    \/ SelectSnapshot(d) \/ NextVersion(d) \/ AppendSignal(d)
    \/ Replay(d) \/ Compare(d) \/ UpsertEpisode(d)
    \/ Commit(d) \/ Fail(d)

Spec == Init /\ [][Next]_vars

-----------------------------------------------------------------------------
(* What reconcile_timeline is for, without its machine: rules about the    *)
(* windows B that are BAD and N that are NORMAL.  Pause signals are in     *)
(* neither.  The test data of test_degradation_state_machine are instances *)
(* of them.                                                                *)

\* With v begins a stretch of BAD windows that is long enough.
StartsRun(B, N, v) ==
  /\ v \in B
  /\ \A u \in B : u < v => \E n \in N : u < n /\ n < v
  /\ \E w \in B : N \cap v..w = {} /\ Cardinality(B \cap v..w) >= Required

\* NORMAL windows that end a recovery after v
Recoveries(B, N, v) ==
  {w \in N : \E u \in v..w : B \cap u..w = {} /\ Cardinality(N \cap u..w) >= Recovery}

\* Episodes start where no earlier one goes on.
Starts(B, N) ==
  {v \in B : /\ StartsRun(B, N, v)
             /\ \A u \in B : u < v /\ StartsRun(B, N, u) =>
                  \E r \in Recoveries(B, N, u) : r < v}

EpisodeAt(S, B, N, v) ==
  LET recovered == Recoveries(B, N, v)
      affected  == {b \in B : v <= b /\ (recovered # {} => b <= Min(recovered))}
  IN [start |-> v,
      status |-> IF recovered = {} THEN "ACTIVE" ELSE "RECOVERED",
      ended |-> IF recovered = {} THEN 0 ELSE Max(affected),
      count |-> Cardinality(affected),
      severity |-> Max({s.severity : s \in {x \in S : x.type = "BAD" /\ x.window \in affected}})]

OfType(S, type) == {s.window : s \in {x \in S : x.type = type}}

\* The episodes of a set of signals, one for each window
ExpectedEpisodes(S) ==
  LET B == OfType(S, "BAD")
      N == OfType(S, "NORMAL")
  IN {EpisodeAt(S, B, N, v) : v \in Starts(B, N)}

-----------------------------------------------------------------------------
(* Properties *)

Rows(table) == [signals |-> signals, episodes |-> episodes][table]
               \cup UNION {new[d][table] : d \in Deliveries}

\* PROJECT_CONTEXT.md, Stage 3: "Persistence requires consecutive BAD windows", pause
\* signals "do not reset pending counters", affected_window_count "counts BAD windows
\* only", severity "is monotonic".  The episodes a task computes are those that these
\* rules find in the timeline it has read.
ReplayMeetsRules ==
  [][\A d \in Deliveries : pc[d] = "replay" /\ pc'[d] = "compare" =>
       ToSet(plan'[d]) = ExpectedEpisodes(Current(ViewSignals(d)))]_vars

\* "Signals are versioned using evaluation_version via database unique constraints": the
\* evaluations of a window are numbered 1, 2, ... without gap or tie, whoever fails.
SignalLogSound ==
  \A w \in Windows : LET log == {s \in signals : s.window = w} IN
    {s.version : s \in log} = 1..Cardinality(log)

\* "Late-event replay reconciles state": whatever the order in which events of old and
\* new windows arrive, when tasks have run one after the other and none has failed, the
\* episodes that count are those of all events, and the others are invalidated.
ReplayConverges ==
  (~overlapped /\ faults = 0 /\ \A d \in Deliveries : pc[d] \in {"none", "done"}) =>
    {x \in episodes : x.status # "INVALIDATED"}
      = ExpectedEpisodes({SignalOf(w, counts[w], 1) : w \in Windows})

==============================================================================
