------------------------------ MODULE RootCause -------------------------------
(***************************************************************************)
(* Stage 4 in the background task: the loop over ACTIVE episodes and       *)
(* RCAService.evaluate_episode, statement by statement.                    *)
(*                                                                         *)
(* What Stage 3 decides is open here (module Degradation has its rules):   *)
(* a task may add a BAD signal of its window and set the status of the     *)
(* episodes whose segment its window has events of.  What matters is how   *)
(* Stage 3's writes are seen: they belong to the task's transaction, which *)
(* the first evaluation it appends commits, and until then the rows it     *)
(* has upserted are locked.                                                *)
(*                                                                         *)
(* RECOVERED and INVALIDATED are one status, ENDED: the loop selects       *)
(* neither.  The weeks before do not change.                               *)
(***************************************************************************)
EXTENDS Diagnosis

CONSTANTS
  Deliveries,  \* stored terminal events, each with its background task
  WindowOf, ProfileOf, OutcomeOf,  \* of each delivery
  Windows,     \* five-minute windows
  Episodes,    \* episodes that may come to exist
  StartOf, SegmentOf,              \* of each episode
  Pasts,       \* counts of the windows there may be before
  Histories,   \* baselines there may be
  Earlier,     \* sets of episodes that earlier tasks may have left ACTIVE
  MaxFaults,   \* bound: tasks that fail
  None

Statuses == {"none", "ACTIVE", "ENDED"}
Labels   == {"none", "scheduled", "select", "loop", "read", "compare", "lock", "append",
             "done", "failed"}

ASSUME RootCauseAssumption ==
  /\ WindowOf \in [Deliveries -> Windows] /\ ProfileOf \in [Deliveries -> Profiles]
  /\ OutcomeOf \in [Deliveries -> {"ok", "failed"}]
  /\ \E last \in Windows : Windows \subseteq 0 .. last
  /\ \A v, w \in Windows : v .. w \subseteq Windows
  /\ StartOf \in [Episodes -> Windows]
  /\ Pasts \subseteq [Windows -> [Profiles -> [ok : Nat, failed : Nat]]]
  /\ \A h \in Histories : \A seg \in DOMAIN h :
       h[seg] \in [Windows -> Seq([ok : Nat, failed : Nat])]
  /\ Earlier \subseteq SUBSET Episodes
  /\ MaxFaults \in Nat
  /\ None \notin Deliveries /\ None \notin Episodes

VARIABLES
  history,      \* snapshots of the weeks before
  counts,       \* payment_events: of each window and profile
  signals,      \* table degradation_signals: the BAD ones, <<episode's segment, window>>
  episodes,     \* table degradation_episodes: status
  evaluations,  \* table rca_evaluations with rca_candidate_causes
  new,          \* uncommitted rows of each task: [signals, episodes]
  pc,           \* progress of each task
  todo,         \* ACTIVE episodes it has fetched and not yet evaluated
  current,      \* the episode it evaluates
  windows,      \* its analysis window
  tally,        \* the counts it has read there
  compared,     \* the version it has compared with
  version,      \* the evaluation_version it is about to insert
  lock,         \* of each episode: the task that holds its advisory lock
  overlapped,   \* history: two tasks have run at once
  faults        \* history: failures of a task

stage3 == <<history, counts, signals, episodes>>
locals == <<todo, current, windows, tally, compared, version>>
vars   == <<stage3, evaluations, new, pc, locals, lock, overlapped, faults>>

NoRows  == [signals |-> {}, episodes |-> <<>>]
NoTally == [p \in Profiles |-> NoCounts]

Running(d) == pc[d] \in {"select", "loop", "read", "compare", "lock", "append"}

Goto(d, label) == pc' = [pc EXCEPT ![d] = label]

\* What a task sees: committed rows and its own
ViewSignals(d)  == signals \cup new[d].signals
ViewEpisodes(d) ==
  LET own == new[d].episodes IN
  [e \in Episodes |-> IF e \in DOMAIN own THEN own[e] ELSE episodes[e]]

\* Its rows become everyone's.
Publish(d) ==
  /\ signals' = ViewSignals(d)
  /\ episodes' = ViewEpisodes(d)
  /\ new' = [new EXCEPT ![d] = NoRows]

LogOf(e)  == {r \in evaluations : r.episode = e}
Latest(e) == {r \in LogOf(e) : \A x \in LogOf(e) : x.version <= r.version}
MaxVersion(e) == Max({0} \cup {r.version : r \in LogOf(e)})

\* The events of some windows, by profile
TallyOf(W) == [p \in Profiles |-> CountsOf([w \in W |-> counts[w][p]], W)]

\* From the start of an episode to its latest BAD window; all versions of a signal count.
AnalysisWindow(S, e) == StartOf[e] .. Max({w \in Windows : <<e, w>> \in S})

Evaluation(e, v, W, t, after) ==
  [episode |-> e, version |-> v, windows |-> W, tally |-> t, after |-> after,
   fingerprint |-> Fingerprint(history, W, t), diagnosis |-> Diagnose(history, W, t)]

-----------------------------------------------------------------------------
(* Actions *)

\* Stage 1 has stored an event; its task is scheduled.
Ingest(d) ==
  /\ pc[d] = "none"
  /\ counts' = [counts EXCEPT ![WindowOf[d]][ProfileOf[d]][OutcomeOf[d]] = @ + 1]
  /\ Goto(d, "scheduled")
  /\ UNCHANGED <<history, signals, episodes, evaluations, new, locals, lock, overlapped, faults>>

\* Episodes of segments that Stage 2 has a snapshot of in the task's window
Touched(d) ==
  {e \in Episodes : SegmentOf[e] = GlobalSegment
                    \/ SegmentOf[e] \in Present(counts[WindowOf[d]])}

\* Stages 2 and 3: an upsert waits for an uncommitted row of the same episode.
Detect(d) ==
  /\ pc[d] = "scheduled"
  /\ \E status \in [Touched(d) -> Statuses],
        bad \in SUBSET {e \in Touched(d) : StartOf[e] <= WindowOf[d]} :
       LET kept == {e \in Touched(d) : status[e] = "none"}
           rows == [e \in Touched(d) \ kept |-> status[e]]
       IN /\ \A e \in kept : episodes[e] = "none"
          /\ \A o \in Deliveries : DOMAIN rows \cap DOMAIN new[o].episodes = {}
          /\ new' = [new EXCEPT ![d] =
               [signals |-> bad \X {WindowOf[d]}, episodes |-> rows]]
  /\ Goto(d, "select")
  /\ overlapped' = (overlapped \/ \E o \in Deliveries : Running(o))
  /\ UNCHANGED <<stage3, evaluations, locals, lock, faults>>

\* Mutated form of Select: the episodes are selected outside of the transaction.
SelectCommitted(d) ==
  /\ pc[d] = "select"
  /\ todo' = [todo EXCEPT ![d] = {e \in Episodes : episodes[e] = "ACTIVE"}]
  /\ Goto(d, "loop")
  /\ UNCHANGED <<stage3, evaluations, new, current, windows, tally, compared, version, lock,
                 overlapped, faults>>

\* Stage 4: the ACTIVE episodes, of whatever segment
Select(d) ==
  /\ pc[d] = "select"
  /\ todo' = [todo EXCEPT ![d] = {e \in Episodes : ViewEpisodes(d)[e] = "ACTIVE"}]
  /\ Goto(d, "loop")
  /\ UNCHANGED <<stage3, evaluations, new, current, windows, tally, compared, version, lock,
                 overlapped, faults>>

\* evaluate_episode of the next one; _get_latest_bad_window_start
NextEpisode(d) ==
  /\ pc[d] = "loop"
  /\ \E e \in todo[d] :
       /\ todo' = [todo EXCEPT ![d] = @ \ {e}]
       /\ current' = [current EXCEPT ![d] = e]
       /\ windows' = [windows EXCEPT ![d] = AnalysisWindow(ViewSignals(d), e)]
  /\ Goto(d, "read")
  /\ UNCHANGED <<stage3, evaluations, new, tally, compared, version, lock, overlapped, faults>>

\* _get_events_in_window: of all segments
ReadEvents(d) ==
  /\ pc[d] = "read"
  /\ tally' = [tally EXCEPT ![d] = TallyOf(windows[d])]
  /\ Goto(d, "compare")
  /\ UNCHANGED <<stage3, evaluations, new, todo, current, windows, compared, version, lock,
                 overlapped, faults>>

EndEpisode(d, label) ==
  /\ Goto(d, label)
  /\ current' = [current EXCEPT ![d] = None]
  /\ windows' = [windows EXCEPT ![d] = {}]
  /\ tally' = [tally EXCEPT ![d] = NoTally]
  /\ compared' = [compared EXCEPT ![d] = 0]
  /\ version' = [version EXCEPT ![d] = 0]

\* Mutated form of Unchanged: the log is read in the wrong order.
UnchangedSinceFirst(d) ==
  \E r \in LogOf(current[d]) :
    r.version = 1 /\ r.fingerprint = Fingerprint(history, windows[d], tally[d])

Unchanged(d) ==
  \E r \in Latest(current[d]) : r.fingerprint = Fingerprint(history, windows[d], tally[d])

\* The idempotency check: nothing is appended, and nothing committed, if the latest
\* evaluation is of the same input.  (With too few failures it is made twice; this is
\* the one that decides.)
CompareFingerprint(d) ==
  /\ pc[d] = "compare"
  /\ IF Unchanged(d)
       THEN EndEpisode(d, "loop")
       ELSE /\ Goto(d, "lock")
            /\ compared' = [compared EXCEPT ![d] = MaxVersion(current[d])]
            /\ UNCHANGED <<current, windows, tally, version>>
  /\ UNCHANGED <<stage3, evaluations, new, todo, lock, overlapped, faults>>

\* Mutated form of Allocate: the version is read without the lock.
AllocateUnlocked(d) ==
  /\ pc[d] = "lock"
  /\ version' = [version EXCEPT ![d] = MaxVersion(current[d]) + 1]
  /\ Goto(d, "append")
  /\ UNCHANGED <<stage3, evaluations, new, todo, current, windows, tally, compared, lock,
                 overlapped, faults>>

\* pg_advisory_xact_lock, then the next version
Allocate(d) ==
  /\ pc[d] = "lock"
  /\ lock[current[d]] = None
  /\ lock' = [lock EXCEPT ![current[d]] = d]
  /\ version' = [version EXCEPT ![d] = MaxVersion(current[d]) + 1]
  /\ Goto(d, "append")
  /\ UNCHANGED <<stage3, evaluations, new, todo, current, windows, tally, compared, overlapped,
                 faults>>

Release(d) == lock' = [e \in Episodes |-> IF lock[e] = d THEN None ELSE lock[e]]

\* The transaction is rolled back.
EndTask(d) ==
  /\ EndEpisode(d, "failed")
  /\ new' = [new EXCEPT ![d] = NoRows]
  /\ todo' = [todo EXCEPT ![d] = {}]
  /\ Release(d)

\* The evaluation and its candidates are inserted, and the transaction is committed, with
\* what Stage 3 wrote; a version that is taken is an IntegrityError.
AppendEvaluation(d) ==
  /\ pc[d] = "append"
  /\ IF \E r \in LogOf(current[d]) : r.version = version[d]
       THEN EndTask(d) /\ UNCHANGED <<signals, episodes, evaluations>>
       ELSE /\ evaluations' = evaluations \cup
                 {Evaluation(current[d], version[d], windows[d], tally[d], compared[d])}
            /\ Publish(d)
            /\ Release(d)
            /\ EndEpisode(d, "loop")
            /\ UNCHANGED todo
  /\ UNCHANGED <<history, counts, overlapped, faults>>

\* The loop is over: the commit behind it.
Finish(d) ==
  /\ pc[d] = "loop" /\ todo[d] = {}
  /\ Publish(d)
  /\ Goto(d, "done")
  /\ UNCHANGED <<history, counts, evaluations, locals, lock, overlapped, faults>>

\* Any exception: what has been committed stays.
Fail(d) ==
  /\ Running(d)
  /\ faults < MaxFaults
  /\ faults' = faults + 1
  /\ EndTask(d)
  /\ UNCHANGED <<stage3, evaluations, overlapped>>

\* Earlier tasks have evaluated the episodes they left ACTIVE.
Init ==
  /\ history \in Histories
  /\ counts \in Pasts
  /\ signals = {<<e, StartOf[e]>> : e \in Episodes}
  /\ \E active \in Earlier :
       /\ episodes = [e \in Episodes |-> IF e \in active THEN "ACTIVE" ELSE "none"]
       /\ evaluations =
            {LET W == AnalysisWindow(signals, e) IN Evaluation(e, 1, W, TallyOf(W), 0) :
               e \in active}
  /\ new = [d \in Deliveries |-> NoRows]
  /\ pc = [d \in Deliveries |-> "none"]
  /\ todo = [d \in Deliveries |-> {}]
  /\ current = [d \in Deliveries |-> None]
  /\ windows = [d \in Deliveries |-> {}]
  /\ tally = [d \in Deliveries |-> NoTally]
  /\ compared = [d \in Deliveries |-> 0]
  /\ version = [d \in Deliveries |-> 0]
  /\ lock = [e \in Episodes |-> None]
  /\ overlapped = FALSE
  /\ faults = 0

Next ==
  \E d \in Deliveries :
    \/ Ingest(d) \/ Detect(d) \/ Select(d)
    \/ NextEpisode(d) \/ ReadEvents(d) \/ CompareFingerprint(d)
    \/ Allocate(d) \/ AppendEvaluation(d) \/ Finish(d) \/ Fail(d)

Spec == Init /\ [][Next]_vars

-----------------------------------------------------------------------------
(* Properties *)

(***************************************************************************)
(* "Ensure both succeed, and the versions are sequential without throwing  *)
(* an IntegrityError" (test_concurrent_evaluate_episode_serializes_safely):*)
(* a version that a task is about to insert is still the next one.         *)
(***************************************************************************)
VersionsHold ==
  \A d \in Deliveries :
    pc[d] = "append" =>
      {r.version : r \in LogOf(current[d])} = 1 .. version[d] - 1

(***************************************************************************)
(* "If the deterministic input fingerprint matches the last persisted      *)
(* evaluation, no new version is created" (evaluate_episode), up to the    *)
(* race the test above provokes: an evaluation repeats the one before it   *)
(* only if that one was committed after its task had looked.               *)
(***************************************************************************)
RepeatsAreRaces ==
  \A r, x \in evaluations :
    r.episode = x.episode /\ x.version = r.version + 1 /\ x.fingerprint = r.fingerprint
      => x.after < r.version /\ overlapped

(***************************************************************************)
(* "Identical input state" (evaluate_episode's idempotency check): the     *)
(* fingerprint holds totals, not the counts by segment that the diagnosis  *)
(* is made of.  Still, an evaluation with the fingerprint of what a task   *)
(* has read is the diagnosis of it, because events are only added.         *)
(***************************************************************************)
FingerprintSound ==
  \A d \in Deliveries : pc[d] = "compare" =>
    \A r \in LogOf(current[d]) :
      r.fingerprint = Fingerprint(history, windows[d], tally[d])
        => r.diagnosis = Diagnose(history, windows[d], tally[d])

(***************************************************************************)
(* When tasks have run one after the other and none has failed, the latest *)
(* evaluation of an ACTIVE episode is the diagnosis of all events that are *)
(* stored, whichever of them arrived late.                                 *)
(***************************************************************************)
DiagnosisConverges ==
  (~overlapped /\ faults = 0 /\ \A d \in Deliveries : pc[d] \in {"none", "done"}) =>
    \A e \in Episodes : episodes[e] = "ACTIVE" =>
      LET W == AnalysisWindow(signals, e) IN
      \E r \in Latest(e) : r.windows = W /\ r.diagnosis = Diagnose(history, W, TallyOf(W))

(***************************************************************************)
(* "No net excess failures detected: observed failures did not exceed      *)
(* historical baseline" is UNKNOWN (evaluate_episode's guard), where the   *)
(* global snapshots of the weeks before suffice for a baseline.            *)
(***************************************************************************)
NoExcessIsUnknown ==
  \A r \in evaluations :
    LET baseline == Baseline(history, GlobalSegment, r.windows) IN
    /\ Sufficient(history, GlobalSegment, r.windows)
    /\ Excess(Everything(r.tally), baseline).num <= 0
    => r.diagnosis.class = "UNKNOWN"
==============================================================================
