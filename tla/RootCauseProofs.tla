--------------------------- MODULE RootCauseProofs ----------------------------
(***************************************************************************)
(* Theorems about RootCause, for any deliveries, episodes and histories:   *)
(* the versions of an episode's evaluations are allocated exclusively,     *)
(* evaluations repeat by races only, a fingerprint stands for one          *)
(* diagnosis, the diagnosis converges, and its candidates are ranked,      *)
(* whether there is a global baseline or none.                             *)
(*                                                                         *)
(* What a task has compared with and the version it is about to insert say *)
(* something about the log only in the light of what the others may append *)
(* meanwhile: nothing to an episode whose advisory lock is held, and only  *)
(* greater versions to the others.                                         *)
(*                                                                         *)
(* Totals stand for the counts behind them because events are only added:  *)
(* of two readings of the same windows, one holds all that the other does, *)
(* and if they add up to the same they are the same.  That rests on what a *)
(* sum over a finite set does, which is recursive: its equation is proved  *)
(* here by a least cardinality at which it would fail.  From it follows    *)
(* that the order does not matter, so that a baseline that suffices has    *)
(* volume and contributions can be compared.                               *)
(***************************************************************************)
EXTENDS RootCause, FiniteSetTheorems, WellFoundedInduction, TLAPS

Versions(e) == {r.version : r \in LogOf(e)}

Step(d) ==
  \/ Ingest(d) \/ Detect(d) \/ Select(d)
  \/ NextEpisode(d) \/ ReadEvents(d) \/ CompareFingerprint(d)
  \/ Allocate(d) \/ AppendEvaluation(d) \/ Finish(d) \/ Fail(d)

\* Types, as far as the proof needs them
TypeInv ==
  /\ pc \in [Deliveries -> Labels]
  /\ todo \in [Deliveries -> SUBSET Episodes]
  /\ current \in [Deliveries -> Episodes \cup {None}]
  /\ DOMAIN windows = Deliveries /\ DOMAIN tally = Deliveries
  /\ compared \in [Deliveries -> Nat] /\ version \in [Deliveries -> Nat]
  /\ lock \in [Episodes -> Deliveries \cup {None}]
  /\ overlapped \in BOOLEAN

\* A task that has an episode in hand knows it, and inserts with its lock.
BusyInv ==
  \A d \in Deliveries :
    /\ pc[d] \in {"read", "compare", "lock", "append"} => current[d] \in Episodes
    /\ pc[d] = "append" => lock[current[d]] = d /\ version[d] > 0

\* The versions of an episode are numbered from one.
LogInv ==
  /\ \A r \in evaluations : r.episode \in Episodes
  /\ \A e \in Episodes : \E n \in Nat : Versions(e) = 1 .. n

\* What a task has compared with is not the evidence it has read, and still the end of the
\* log unless tasks overlap.
ComparedInv ==
  \A d \in Deliveries : pc[d] \in {"lock", "append"} =>
    /\ compared[d] \in Versions(current[d]) \cup {0}
    /\ \A r \in LogOf(current[d]) :
         r.version = compared[d] => r.fingerprint # Fingerprint(history, windows[d], tally[d])
    /\ ~overlapped => \A r \in LogOf(current[d]) : r.version <= compared[d]

\* Without overlap there is one task at work.
AloneInv == ~overlapped => \A d, o \in Deliveries : Running(d) /\ Running(o) => d = o

IInv ==
  /\ TypeInv /\ BusyInv /\ LogInv /\ VersionsHold /\ ComparedInv /\ AloneInv
  /\ RepeatsAreRaces

-----------------------------------------------------------------------------

LEMMA MaxOfLog ==
  ASSUME NEW e, NEW n \in Nat, Versions(e) = 1 .. n
  PROVE  MaxVersion(e) = n
<1> DEFINE S == {0} \cup Versions(e)
<1>1. n \in S /\ S \subseteq Nat /\ \A y \in S : n >= y
  OBVIOUS
<1>2. Max(S) \in S /\ \A y \in S : Max(S) >= y
  BY <1>1 DEF Max
<1> HIDE DEF S
<1>3. n >= Max(S) /\ Max(S) >= n /\ Max(S) \in Nat
  BY <1>1, <1>2
<1>4. Max(S) = n
  BY <1>3
<1> QED
  BY <1>4 DEF S, MaxVersion, Versions

\* A step changes its own task's variables only, and the weeks before not at all.
LEMMA Others ==
  ASSUME TypeInv, NEW d \in Deliveries, Step(d), NEW o \in Deliveries, o # d
  PROVE  /\ pc'[o] = pc[o] /\ current'[o] = current[o]
         /\ windows'[o] = windows[o] /\ tally'[o] = tally[o]
         /\ compared'[o] = compared[o] /\ version'[o] = version[o]
BY DEF TypeInv, Step, Ingest, Detect, Select, NextEpisode, ReadEvents, CompareFingerprint,
       Allocate, AppendEvaluation, Finish, Fail, EndTask, EndEpisode, Goto, locals

LEMMA PastFixed ==
  ASSUME NEW d \in Deliveries, Step(d)
  PROVE  history' = history
BY DEF Step, Ingest, Detect, Select, NextEpisode, ReadEvents, CompareFingerprint,
       Allocate, AppendEvaluation, Finish, Fail, stage3

LEMMA TypeStep ==
  ASSUME IInv, NEW d \in Deliveries, Step(d)
  PROVE  TypeInv'
<1> USE DEF IInv, TypeInv, Goto, Labels
<1>1. CASE Ingest(d)
  BY <1>1 DEF Ingest, locals
<1>2. CASE Detect(d)
  BY <1>2 DEF Detect, locals
<1>3. CASE Select(d)
  BY <1>3 DEF Select
<1>4. CASE NextEpisode(d)
  BY <1>4 DEF NextEpisode
<1>5. CASE ReadEvents(d)
  BY <1>5 DEF ReadEvents
<1>6. CASE CompareFingerprint(d)
  <2>1. current[d] \in Episodes
    BY <1>6 DEF CompareFingerprint, BusyInv
  <2>2. MaxVersion(current[d]) \in Nat
    BY <2>1, MaxOfLog DEF LogInv
  <2> QED
    BY <1>6, <2>2 DEF CompareFingerprint, EndEpisode
<1>7. CASE Allocate(d)
  <2>1. current[d] \in Episodes
    BY <1>7 DEF Allocate, BusyInv
  <2>2. MaxVersion(current[d]) \in Nat
    BY <2>1, MaxOfLog DEF LogInv
  <2>3. version' \in [Deliveries -> Nat]
    BY <1>7, <2>2 DEF Allocate
  <2>4. lock' \in [Episodes -> Deliveries \cup {None}]
    BY <1>7 DEF Allocate
  <2> QED
    BY <1>7, <2>3, <2>4 DEF Allocate
<1>8. CASE AppendEvaluation(d)
  BY <1>8 DEF AppendEvaluation, EndTask, EndEpisode, Release
<1>9. CASE Finish(d)
  BY <1>9 DEF Finish, locals
<1>10. CASE Fail(d)
  BY <1>10 DEF Fail, EndTask, EndEpisode, Release
<1> QED
  BY <1>1, <1>2, <1>3, <1>4, <1>5, <1>6, <1>7, <1>8, <1>9, <1>10 DEF Step

LEMMA BusyStep ==
  ASSUME IInv, NEW d \in Deliveries, Step(d)
  PROVE  BusyInv'
<1> USE DEF IInv, TypeInv, BusyInv, Goto, Labels
<1>1. CASE Ingest(d)
  BY <1>1 DEF Ingest, locals
<1>2. CASE Detect(d)
  BY <1>2 DEF Detect, locals
<1>3. CASE Select(d)
  BY <1>3 DEF Select
<1>4. CASE NextEpisode(d)
  BY <1>4 DEF NextEpisode
<1>5. CASE ReadEvents(d)
  BY <1>5 DEF ReadEvents
<1>6. CASE CompareFingerprint(d)
  BY <1>6 DEF CompareFingerprint, EndEpisode
<1>7. CASE Allocate(d)
  <2>1. MaxVersion(current[d]) \in Nat
    BY <1>7, MaxOfLog DEF Allocate, LogInv
  <2> QED
    BY <1>7, <2>1, RootCauseAssumption DEF Allocate, RootCauseAssumption
<1>8. CASE AppendEvaluation(d)
  BY <1>8 DEF AppendEvaluation, EndTask, EndEpisode, Release
<1>9. CASE Finish(d)
  BY <1>9 DEF Finish, locals
<1>10. CASE Fail(d)
  BY <1>10 DEF Fail, EndTask, EndEpisode, Release
<1> QED
  BY <1>1, <1>2, <1>3, <1>4, <1>5, <1>6, <1>7, <1>8, <1>9, <1>10 DEF Step

-----------------------------------------------------------------------------

\* The evaluation that a task is about to insert
Row(d) == Evaluation(current[d], version[d], windows[d], tally[d], compared[d])

Inserts(d) ==
  /\ pc[d] = "append"
  /\ evaluations' = evaluations \cup {Row(d)}

LEMMA RowFields ==
  ASSUME NEW d \in Deliveries
  PROVE  /\ Row(d).episode = current[d] /\ Row(d).version = version[d]
         /\ Row(d).after = compared[d]
         /\ Row(d).fingerprint = Fingerprint(history, windows[d], tally[d])
BY DEF Row, Evaluation

LEMMA LogGrows ==
  ASSUME NEW d \in Deliveries, Step(d)
  PROVE  evaluations' = evaluations \/ Inserts(d)
BY DEF Step, Ingest, Detect, Select, NextEpisode, ReadEvents, CompareFingerprint,
       Allocate, AppendEvaluation, Finish, Fail, Inserts, Row

LEMMA VersionsGrow ==
  ASSUME NEW d \in Deliveries, Inserts(d)
  PROVE  \A e : Versions(e)' = IF e = current[d] THEN Versions(e) \cup {version[d]}
                               ELSE Versions(e)
BY RowFields DEF Inserts, Versions, LogOf

\* Only the task that holds an episode's lock appends to it, with the next version.
LEMMA NextVersion ==
  ASSUME IInv, NEW d \in Deliveries, pc[d] = "append"
  PROVE  /\ current[d] \in Episodes /\ lock[current[d]] = d
         /\ version[d] \in Nat /\ version[d] > 0
         /\ Versions(current[d]) = 1 .. version[d] - 1
BY DEF IInv, BusyInv, TypeInv, VersionsHold, Versions

LEMMA LogStep ==
  ASSUME IInv, NEW d \in Deliveries, Step(d)
  PROVE  LogInv'
<1>1. CASE evaluations' = evaluations
  BY <1>1 DEF IInv, LogInv, Versions, LogOf
<1>2. CASE Inserts(d)
  <2>1. \A r \in evaluations' : r.episode \in Episodes
    BY <1>2, NextVersion, RowFields DEF Inserts, IInv, LogInv
  <2>2. ASSUME NEW e \in Episodes PROVE \E n \in Nat : Versions(e)' = 1 .. n
    <3>1. CASE e = current[d]
      <4>1. Versions(e)' = 1 .. version[d]
        <5>1. Versions(e)' = Versions(e) \cup {version[d]}
          BY <1>2, <3>1, VersionsGrow
        <5>2. version[d] \in Nat /\ version[d] > 0 /\ Versions(e) = 1 .. version[d] - 1
          BY <1>2, <3>1, NextVersion DEF Inserts
        <5> QED
          BY <5>1, <5>2
      <4> QED
        BY <1>2, <4>1, NextVersion DEF Inserts
    <3>2. CASE e # current[d]
      BY <1>2, <3>2, VersionsGrow DEF IInv, LogInv
    <3> QED
      BY <3>1, <3>2
  <2> QED
    BY <2>1, <2>2 DEF LogInv
<1> QED
  BY <1>1, <1>2, LogGrows

LEMMA VersionsStep ==
  ASSUME IInv, NEW d \in Deliveries, Step(d)
  PROVE  VersionsHold'
<1> SUFFICES ASSUME NEW o \in Deliveries, pc'[o] = "append"
             PROVE  Versions(current[o])' = 1 .. version'[o] - 1
  BY DEF VersionsHold, Versions
<1>1. CASE o = d
  <2>1. Allocate(d)
    BY <1>1 DEF Step, Ingest, Detect, Select, NextEpisode, ReadEvents, CompareFingerprint,
       AppendEvaluation, Finish, Fail, EndTask, EndEpisode, Goto, IInv, TypeInv
  <2>2. current[d] \in Episodes
    BY <2>1 DEF Allocate, IInv, BusyInv
  <2>3. PICK n \in Nat : Versions(current[d]) = 1 .. n
    BY <2>2 DEF IInv, LogInv
  <2>4. version'[d] = n + 1
    BY <2>1, <2>3, MaxOfLog DEF Allocate, IInv, TypeInv
  <2>5. Versions(current[d])' = Versions(current[d])
    BY <2>1 DEF Allocate, Versions, LogOf
  <2> QED
    BY <1>1, <2>3, <2>4, <2>5
<1>2. CASE o # d
  <2>1. pc[o] = "append" /\ current'[o] = current[o] /\ version'[o] = version[o]
    BY <1>2, Others DEF IInv
  <2>2. Versions(current[o]) = 1 .. version[o] - 1
    BY <2>1, NextVersion
  <2>3. CASE evaluations' = evaluations
    BY <2>1, <2>2, <2>3 DEF Versions, LogOf
  <2>4. CASE Inserts(d)
    <3>1. current[d] # current[o]
      BY <1>2, <2>1, <2>4, NextVersion DEF Inserts
    <3>2. \A e : Versions(e)' = IF e = current[d] THEN Versions(e) \cup {version[d]}
                                ELSE Versions(e)
      BY <2>4, VersionsGrow
    <3>3. Versions(current[o])' = Versions(current[o])
      BY <2>1, <3>1, <3>2 DEF Versions, LogOf
    <3> QED
      BY <2>1, <2>2, <3>3
  <2> QED
    BY <2>3, <2>4, LogGrows
<1> QED
  BY <1>1, <1>2

LEMMA OverlapStays ==
  ASSUME TypeInv, NEW d \in Deliveries, Step(d), overlapped
  PROVE  overlapped'
BY DEF TypeInv, Step, Ingest, Detect, Select, NextEpisode, ReadEvents, CompareFingerprint,
       Allocate, AppendEvaluation, Finish, Fail

LEMMA ComparedStep ==
  ASSUME IInv, NEW d \in Deliveries, Step(d)
  PROVE  ComparedInv'
<1> SUFFICES ASSUME NEW o \in Deliveries, pc'[o] \in {"lock", "append"}
             PROVE  /\ compared'[o] \in Versions(current[o])' \cup {0}
                    /\ \A r \in LogOf(current[o])' : r.version = compared'[o] =>
                         r.fingerprint # Fingerprint(history', windows'[o], tally'[o])
                    /\ ~overlapped' =>
                         \A r \in LogOf(current[o])' : r.version <= compared'[o]
  BY DEF ComparedInv
<1>1. CASE o = d /\ CompareFingerprint(d)
  <2>1. ~Unchanged(d) /\ compared' = [compared EXCEPT ![d] = MaxVersion(current[d])]
        /\ UNCHANGED <<evaluations, history, current, windows, tally>>
    BY <1>1 DEF CompareFingerprint, EndEpisode, Goto, IInv, TypeInv, stage3
  <2>2. current[d] \in Episodes
    BY <1>1 DEF CompareFingerprint, IInv, BusyInv
  <2>3. PICK n \in Nat : Versions(current[d]) = 1 .. n
    BY <2>2 DEF IInv, LogInv
  <2>4. compared'[d] = n
    BY <2>1, <2>3, MaxOfLog DEF IInv, TypeInv
  <2>5. LogOf(current[d])' = LogOf(current[d]) /\ Versions(current[d])' = Versions(current[d])
    BY <2>1 DEF LogOf, Versions
  <2>6. \A r \in LogOf(current[d]) : r.version \in 1 .. n
    BY <2>3 DEF Versions
  <2>7. \A r \in LogOf(current[d]) : r.version = n => r \in Latest(current[d])
    BY <2>6 DEF Latest
  <2>8. n \in Versions(current[d]) \cup {0}
    BY <2>3
  <2> QED
    BY <1>1, <2>1, <2>4, <2>5, <2>6, <2>7, <2>8 DEF Unchanged
<1>2. CASE o = d /\ Allocate(d)
  <2>1. UNCHANGED <<evaluations, history, current, windows, tally, compared, overlapped>>
    BY <1>2 DEF Allocate, stage3
  <2>2. LogOf(current[d])' = LogOf(current[d]) /\ Versions(current[d])' = Versions(current[d])
    BY <2>1 DEF LogOf, Versions
  <2>3. pc[d] = "lock"
    BY <1>2 DEF Allocate
  <2> QED
    BY <1>2, <2>1, <2>2, <2>3 DEF IInv, ComparedInv
<1>3. CASE o = d /\ ~CompareFingerprint(d) /\ ~Allocate(d)
  BY <1>3 DEF Step, Ingest, Detect, Select, NextEpisode, ReadEvents, AppendEvaluation,
     Finish, Fail, EndTask, EndEpisode, Goto, IInv, TypeInv
<1>4. CASE o # d
  <2>1. /\ pc[o] \in {"lock", "append"} /\ current'[o] = current[o]
        /\ windows'[o] = windows[o] /\ tally'[o] = tally[o] /\ compared'[o] = compared[o]
        /\ history' = history
    BY <1>4, Others, PastFixed DEF IInv
  <2>2. ~overlapped' => ~overlapped
    BY OverlapStays DEF IInv, TypeInv
  <2>3. CASE LogOf(current[o])' = LogOf(current[o])
    <3>1. Versions(current[o])' = Versions(current[o])
      BY <2>3 DEF Versions
    <3> QED
      BY <2>1, <2>2, <2>3, <3>1 DEF IInv, ComparedInv
  <2>4. CASE Inserts(d) /\ current[d] = current[o]
    <3>1. LogOf(current[o])' = LogOf(current[o]) \cup {Row(d)}
      BY <2>1, <2>4, RowFields DEF Inserts, LogOf
    <3>2. overlapped
      BY <1>4, <2>1, <2>4 DEF Inserts, IInv, AloneInv, Running
    <3>3. /\ version[d] \in Nat /\ version[d] > 0
          /\ Versions(current[o]) = 1 .. version[d] - 1
      BY <2>4, NextVersion DEF Inserts
    <3>4. compared[o] \in Versions(current[o]) \cup {0}
      BY <2>1 DEF IInv, ComparedInv
    <3>5. compared[o] # version[d]
      BY <3>3, <3>4
    <3>6. Versions(current[o]) \subseteq Versions(current[o])'
      BY <3>1 DEF Versions
    <3> QED
      BY <2>1, <2>2, <3>1, <3>2, <3>4, <3>5, <3>6, RowFields DEF IInv, ComparedInv
  <2> QED
    <3>1. CASE evaluations' = evaluations
      BY <2>1, <2>3, <3>1 DEF LogOf
    <3>2. CASE Inserts(d) /\ current[d] # current[o]
      BY <2>1, <2>3, <3>2, RowFields DEF Inserts, LogOf
    <3> QED
      BY <2>4, <3>1, <3>2, LogGrows
<1> QED
  BY <1>1, <1>2, <1>3, <1>4

LEMMA AloneStep ==
  ASSUME IInv, NEW d \in Deliveries, Step(d)
  PROVE  AloneInv'
<1> SUFFICES ASSUME ~overlapped', NEW x \in Deliveries, NEW y \in Deliveries,
                    Running(x)', Running(y)'
             PROVE  x = y
  BY DEF AloneInv
<1>1. CASE Detect(d)
  <2>1. \A o \in Deliveries : ~Running(o)
    BY <1>1 DEF Detect
  <2>2. \A o \in Deliveries : o # d => pc'[o] = pc[o]
    BY Others DEF IInv
  <2> QED
    BY <2>1, <2>2 DEF Running
<1>2. CASE ~Detect(d)
  <2>1. \A o \in Deliveries : Running(o)' => Running(o)
    BY <1>2 DEF Step, Ingest, Select, NextEpisode, ReadEvents, CompareFingerprint, Allocate,
       AppendEvaluation, Finish, Fail, EndTask, EndEpisode, Goto, Running, IInv, TypeInv
  <2> QED
    BY <2>1, OverlapStays DEF IInv, AloneInv
<1> QED
  BY <1>1, <1>2

LEMMA RepeatsStep ==
  ASSUME IInv, NEW d \in Deliveries, Step(d)
  PROVE  RepeatsAreRaces'
<1> SUFFICES ASSUME NEW r \in evaluations', NEW x \in evaluations',
                    r.episode = x.episode, x.version = r.version + 1,
                    x.fingerprint = r.fingerprint
             PROVE  x.after < r.version /\ overlapped'
  BY DEF RepeatsAreRaces
<1>1. CASE r \in evaluations /\ x \in evaluations
  BY <1>1, OverlapStays DEF IInv, RepeatsAreRaces
<1>2. CASE Inserts(d) /\ (r = Row(d) \/ x = Row(d))
  <2>1. /\ version[d] \in Nat /\ version[d] > 0
        /\ Versions(current[d]) = 1 .. version[d] - 1
    BY <1>2, NextVersion DEF Inserts
  <2>2. \A z \in evaluations : z.episode = current[d] =>
           z.version \in 1 .. version[d] - 1
    BY <2>1 DEF Versions, LogOf
  <2>3. CASE r = Row(d)
    <3>1. x # Row(d) /\ x.episode = current[d] /\ x.version = version[d] + 1
      BY <2>1, <2>3, RowFields
    <3>2. x \in evaluations
      BY <1>2, <3>1 DEF Inserts
    <3> QED
      BY <2>1, <2>2, <3>1, <3>2
  <2>4. CASE x = Row(d) /\ r # Row(d)
    <3>1. r \in evaluations /\ r.episode = current[d] /\ r \in LogOf(current[d])
      BY <1>2, <2>4, RowFields DEF Inserts, LogOf
    <3>2. r.version \in 1 .. version[d] - 1 /\ r.version + 1 = version[d]
      BY <2>2, <2>4, <3>1, RowFields
    <3>3. /\ compared[d] \in Versions(current[d]) \cup {0}
          /\ r.version # compared[d]
          /\ ~overlapped => r.version <= compared[d]
      BY <1>2, <2>4, <3>1, RowFields DEF Inserts, IInv, ComparedInv
    <3>4. compared[d] < r.version
      BY <2>1, <3>2, <3>3
    <3>5. overlapped
      BY <2>1, <3>2, <3>3, <3>4
    <3> QED
      BY <2>4, <3>4, <3>5, RowFields, OverlapStays DEF IInv
  <2> QED
    BY <1>2, <2>3, <2>4
<1> QED
  BY <1>1, <1>2, LogGrows DEF Inserts

-----------------------------------------------------------------------------

LEMMA InitIInv == Init => IInv
<1> SUFFICES ASSUME Init PROVE IInv
  OBVIOUS
<1>1. TypeInv /\ BusyInv /\ VersionsHold /\ ComparedInv /\ AloneInv
  BY DEF Init, TypeInv, BusyInv, VersionsHold, ComparedInv, AloneInv, Running, Labels
<1> DEFINE First(e) ==
      Evaluation(e, 1, AnalysisWindow(signals, e), TallyOf(AnalysisWindow(signals, e)), 0)
<1>2. PICK active \in Earlier : evaluations = {First(e) : e \in active}
  BY DEF Init
<1>0. \A e : First(e).version = 1 /\ First(e).episode = e
  BY DEF Evaluation
<1> HIDE DEF First
<1>3. \A r \in evaluations : r.version = 1 /\ r.episode \in active
  BY <1>2, <1>0
<1>4. \A e \in active : \E r \in evaluations : r.version = 1 /\ r.episode = e
  BY <1>2, <1>0
<1>5. LogInv
  <2>1. active \subseteq Episodes
    BY RootCauseAssumption DEF RootCauseAssumption
  <2>2. ASSUME NEW e \in Episodes PROVE \E n \in Nat : Versions(e) = 1 .. n
    <3>1. CASE e \in active
      <4>1. Versions(e) = 1 .. 1
        BY <1>3, <1>4, <3>1 DEF Versions, LogOf
      <4> QED
        BY <4>1
    <3>2. CASE e \notin active
      <4>1. Versions(e) = 1 .. 0
        BY <1>3, <3>2 DEF Versions, LogOf
      <4> QED
        BY <4>1
    <3> QED
      BY <3>1, <3>2
  <2> QED
    BY <1>3, <2>1, <2>2 DEF LogInv
<1>6. RepeatsAreRaces
  BY <1>3 DEF RepeatsAreRaces
<1> QED
  BY <1>1, <1>5, <1>6 DEF IInv

LEMMA Stutter == IInv /\ UNCHANGED vars => IInv'
<1> SUFFICES ASSUME IInv, UNCHANGED vars PROVE IInv'
  OBVIOUS
<1>1. TypeInv' /\ BusyInv' /\ AloneInv' /\ RepeatsAreRaces'
  BY DEF IInv, TypeInv, BusyInv, AloneInv, RepeatsAreRaces, Running, vars, stage3, locals
<1>2. LogInv' /\ VersionsHold'
  BY DEF IInv, LogInv, VersionsHold, Versions, LogOf, vars, stage3, locals
<1>3. ComparedInv'
  BY DEF IInv, ComparedInv, Versions, LogOf, vars, stage3, locals
<1> QED
  BY <1>1, <1>2, <1>3 DEF IInv

\* What the tasks hold, have compared with and are about to insert fits the log in every
\* reachable state.
THEOREM Inductive == Spec => []IInv
<1>1. IInv /\ [Next]_vars => IInv'
  <2>1. IInv /\ Next => IInv'
    <3> SUFFICES ASSUME IInv, NEW d \in Deliveries, Step(d) PROVE IInv'
      BY DEF Next, Step
    <3> QED
      BY TypeStep, BusyStep, LogStep, VersionsStep, ComparedStep, AloneStep, RepeatsStep
      DEF IInv
  <2> QED
    BY <2>1, Stutter
<1> QED
  BY InitIInv, <1>1, PTL DEF Spec

\* Whatever tasks do at once, the version that evaluate_episode has allocated is the next
\* one when it inserts: versions of an episode are 1, 2, 3, ...
THEOREM VersionsSequential == Spec => []VersionsHold
<1>1. IInv => VersionsHold
  BY DEF IInv
<1> QED
  BY <1>1, Inductive, PTL

\* The insert of an evaluation, behind the advisory lock, never meets its unique key.
THEOREM NoIntegrityError ==
  Spec => [](\A d \in Deliveries : pc[d] = "append" =>
               ~\E r \in LogOf(current[d]) : r.version = version[d])
<1>1. IInv => \A d \in Deliveries : pc[d] = "append" =>
                ~\E r \in LogOf(current[d]) : r.version = version[d]
  BY NextVersion DEF Versions
<1> QED
  BY <1>1, Inductive, PTL

\* The idempotency check of evaluate_episode fails only by the race between the comparison
\* and the lock; tasks one after the other append no evaluation of the same evidence.
THEOREM RepeatsByRaceOnly == Spec => []RepeatsAreRaces
<1>1. IInv => RepeatsAreRaces
  BY DEF IInv
<1> QED
  BY <1>1, Inductive, PTL

-----------------------------------------------------------------------------
(* Sums of counts *)

Counts == [ok : Nat, failed : Nat]

\* A fold over a set takes an element, then the rest.
Taken(s) == CHOOSE x \in s : TRUE
Sum(t, f, s) == IF s = {} THEN NoCounts ELSE Add(t[Taken(s)], f[s \ {Taken(s)}])
Sums(t, S) == CHOOSE f : f = [s \in SUBSET S |-> Sum(t, f, s)]

LEMMA CountsSum ==
  ASSUME NEW t, NEW S
  PROVE  CountsOf(t, S) = Sums(t, S)[S]
BY DEF CountsOf, FoldSet, MapThenFoldSet, Sums, Sum, Taken

LEMMA LeastExists ==
  ASSUME NEW S \in SUBSET Nat, S # {}
  PROVE  \E m \in S : \A n \in S : m <= n
<1>1. PICK m \in S : \A n \in S : ~(<<n, m>> \in OpToRel(<, Nat))
  <2> HIDE DEF OpToRel
  <2>1. S \subseteq Nat
    OBVIOUS
  <2> QED BY <2>1, NatLessThanWellFounded, WFMin, Zenon
<1>2. \A n \in S : ~(n < m)
  BY <1>1 DEF OpToRel
<1> QED BY <1>2

\* What is left has one element less.
LEMMA Rest ==
  ASSUME NEW S, IsFiniteSet(S), NEW s \in SUBSET S
  PROVE  /\ Cardinality(s) \in Nat /\ Cardinality(s) <= Cardinality(S)
         /\ s # {} => /\ Taken(s) \in s /\ s \ {Taken(s)} \in SUBSET S
                      /\ Cardinality(s \ {Taken(s)}) = Cardinality(s) - 1
                      /\ Cardinality(s) > 0
<1>1. IsFiniteSet(s) /\ Cardinality(s) \in Nat /\ Cardinality(s) <= Cardinality(S)
  BY FS_Subset, FS_CardinalityType
<1>2. ASSUME s # {}
      PROVE  /\ Taken(s) \in s /\ s \ {Taken(s)} \in SUBSET S
             /\ Cardinality(s \ {Taken(s)}) = Cardinality(s) - 1
             /\ Cardinality(s) > 0
  <2>1. Taken(s) \in s
    BY <1>2 DEF Taken
  <2>2. Cardinality(s \ {Taken(s)}) = Cardinality(s) - 1
    BY <1>1, <2>1, FS_RemoveElement
  <2>3. Cardinality(s) # 0
    BY <1>1, <1>2, FS_EmptySet
  <2> QED BY <1>1, <2>1, <2>2, <2>3
<1> QED BY <1>1, <1>2

\* The recursion is one: a function of all subsets up to a size extends to the next size.
LEMMA SumsRecursive ==
  ASSUME NEW t, NEW S, IsFiniteSet(S)
  PROVE  \A s \in SUBSET S : Sums(t, S)[s] = Sum(t, Sums(t, S), s)
<1> DEFINE Upto(n) == \E f : /\ f = [s \in SUBSET S |-> f[s]]
                             /\ \A s \in SUBSET S : Cardinality(s) <= n => f[s] = Sum(t, f, s)
           C == {n \in Nat : ~Upto(n)}
<1>1. Upto(0)
  <2> DEFINE f == [s \in SUBSET S |-> NoCounts]
  <2>1. \A s \in SUBSET S : Cardinality(s) <= 0 => s = {}
    <3> HIDE DEF f
    <3> TAKE s \in SUBSET S
    <3>1. s # {} => Cardinality(s) > 0 /\ Cardinality(s) \in Nat
      BY Rest
    <3> QED BY <3>1
  <2>2. \A s \in SUBSET S : Cardinality(s) <= 0 => f[s] = Sum(t, f, s)
    BY <2>1 DEF Sum
  <2>3. f = [s \in SUBSET S |-> f[s]]
    OBVIOUS
  <2> HIDE DEF f
  <2> QED BY <2>2, <2>3
<1>2. ASSUME NEW n \in Nat, Upto(n)
      PROVE  Upto(n + 1)
  <2>1. PICK f : \A s \in SUBSET S : Cardinality(s) <= n => f[s] = Sum(t, f, s)
    BY <1>2
  <2> DEFINE g == [s \in SUBSET S |-> IF Cardinality(s) <= n THEN f[s] ELSE Sum(t, f, s)]
  <2>2. g = [s \in SUBSET S |-> g[s]]
    OBVIOUS
  <2>3. \A s \in SUBSET S : g[s] = Sum(t, f, s)
    BY <2>1
  <2>4. \A s \in SUBSET S : Cardinality(s) <= n => g[s] = f[s]
    OBVIOUS
  <2> HIDE DEF g
  <2>5. ASSUME NEW s \in SUBSET S, Cardinality(s) <= n + 1
        PROVE  g[s] = Sum(t, g, s)
    <3>1. CASE s = {}
      BY <2>3, <3>1 DEF Sum
    <3>2. CASE s # {}
      <4>1. s \ {Taken(s)} \in SUBSET S /\ Cardinality(s \ {Taken(s)}) <= n
        BY <2>5, <3>2, Rest
      <4>2. g[s \ {Taken(s)}] = f[s \ {Taken(s)}]
        BY <2>4, <4>1
      <4> QED BY <2>3, <3>2, <4>2 DEF Sum
    <3> QED BY <3>1, <3>2
  <2> QED BY <2>2, <2>5
<1> HIDE DEF Upto
<1>3. C = {}
  <2> SUFFICES ASSUME C # {} PROVE FALSE
    OBVIOUS
  <2>1. PICK m \in C : \A n \in C : m <= n
    BY LeastExists
  <2>2. m \in Nat /\ ~Upto(m) /\ m # 0
    BY <1>1
  <2>3. m - 1 \in Nat /\ m - 1 \notin C
    BY <2>1, <2>2
  <2>4. Upto(m - 1)
    BY <2>3
  <2> HIDE DEF C
  <2>5. Upto(m - 1 + 1)
    BY <1>2, <2>3, <2>4
  <2> QED BY <2>2, <2>5
<1>4. Cardinality(S) \in Nat /\ \A s \in SUBSET S : Cardinality(s) <= Cardinality(S)
  BY Rest
<1>5. Upto(Cardinality(S))
  BY <1>3, <1>4
<1>6. PICK f : /\ f = [s \in SUBSET S |-> f[s]]
               /\ \A s \in SUBSET S : f[s] = Sum(t, f, s)
  BY <1>4, <1>5 DEF Upto
<1>7. f = [s \in SUBSET S |-> Sum(t, f, s)]
  BY <1>6, Zenon
<1>8. Sums(t, S) = [s \in SUBSET S |-> Sum(t, Sums(t, S), s)]
  BY <1>7, Zenon DEF Sums
<1> QED BY <1>8, Zenon

\* Of counts that are nowhere less, the sum is not less, and equal only if all are.
LEMMA SumMonotone ==
  ASSUME NEW S, IsFiniteSet(S), NEW a \in [S -> Counts], NEW b \in [S -> Counts],
         \A x \in S : a[x].ok <= b[x].ok /\ a[x].failed <= b[x].failed
  PROVE  /\ CountsOf(a, S) \in Counts /\ CountsOf(b, S) \in Counts
         /\ CountsOf(a, S).ok <= CountsOf(b, S).ok
         /\ CountsOf(a, S).failed <= CountsOf(b, S).failed
         /\ CountsOf(a, S) = CountsOf(b, S) => a = b
<1> DEFINE A(s) == Sums(a, S)[s]
           B(s) == Sums(b, S)[s]
           Q(s) == /\ A(s) \in Counts /\ B(s) \in Counts
                   /\ A(s).ok <= B(s).ok /\ A(s).failed <= B(s).failed
                   /\ A(s) = B(s) => \A x \in s : a[x] = b[x]
           C == {n \in Nat : \E s \in SUBSET S : Cardinality(s) = n /\ ~Q(s)}
<1>0. /\ \A s \in SUBSET S : A(s) = Sum(a, Sums(a, S), s) /\ B(s) = Sum(b, Sums(b, S), s)
      /\ \A s \in SUBSET S :
           /\ Cardinality(s) \in Nat
           /\ s # {} => /\ Taken(s) \in s /\ s \ {Taken(s)} \in SUBSET S
                        /\ Cardinality(s \ {Taken(s)}) = Cardinality(s) - 1
                        /\ Cardinality(s) > 0
  <2>1. \A s \in SUBSET S : A(s) = Sum(a, Sums(a, S), s)
    BY SumsRecursive
  <2>2. \A s \in SUBSET S : B(s) = Sum(b, Sums(b, S), s)
    BY SumsRecursive
  <2> HIDE DEF A, B, Q, C
  <2>3. ASSUME NEW s \in SUBSET S
        PROVE  /\ Cardinality(s) \in Nat
               /\ s # {} => /\ Taken(s) \in s /\ s \ {Taken(s)} \in SUBSET S
                            /\ Cardinality(s \ {Taken(s)}) = Cardinality(s) - 1
                            /\ Cardinality(s) > 0
    BY Rest
  <2> QED BY <2>1, <2>2, <2>3
<1>1. Q({})
  <2>1. A({}) = NoCounts /\ B({}) = NoCounts
    BY <1>0 DEF Sum
  <2> HIDE DEF A, B
  <2> QED BY <2>1 DEF Counts, NoCounts
<1>2. ASSUME NEW s \in SUBSET S, s # {}, Q(s \ {Taken(s)})
      PROVE  Q(s)
  <2> DEFINE r == s \ {Taken(s)}
             x == Taken(s)
  <2>1. A(s) = Add(a[x], A(r)) /\ B(s) = Add(b[x], B(r))
    BY <1>0, <1>2 DEF Sum
  <2>2. x \in S /\ s = r \cup {x}
    <3>1. Taken(s) \in s
      BY <1>0, <1>2
    <3> QED BY <3>1
  <2>3. /\ a[x] \in Counts /\ b[x] \in Counts
        /\ a[x].ok <= b[x].ok /\ a[x].failed <= b[x].failed
    BY <2>2
  <2>4. Q(r)
    BY <1>2
  <2> HIDE DEF A, B, r, x
  <2>5. A(s) \in Counts /\ B(s) \in Counts /\ A(s).ok <= B(s).ok /\ A(s).failed <= B(s).failed
    BY <2>1, <2>3, <2>4 DEF Add, Counts
  <2>6. ASSUME A(s) = B(s) PROVE \A y \in s : a[y] = b[y]
    <3>1. A(s).ok = B(s).ok /\ A(s).failed = B(s).failed
      BY <2>6
    <3>2. A(r) = B(r) /\ a[x] = b[x]
      <4>1. /\ a[x].ok + A(r).ok = b[x].ok + B(r).ok
            /\ a[x].failed + A(r).failed = b[x].failed + B(r).failed
        BY <2>1, <3>1 DEF Add
      <4>2. /\ a[x].ok = b[x].ok /\ A(r).ok = B(r).ok
            /\ a[x].failed = b[x].failed /\ A(r).failed = B(r).failed
        <5>1. /\ a[x].ok \in Nat /\ b[x].ok \in Nat /\ A(r).ok \in Nat /\ B(r).ok \in Nat
              /\ a[x].ok <= b[x].ok /\ A(r).ok <= B(r).ok
          BY <2>3, <2>4 DEF Counts
        <5>2. /\ a[x].failed \in Nat /\ b[x].failed \in Nat
              /\ A(r).failed \in Nat /\ B(r).failed \in Nat
              /\ a[x].failed <= b[x].failed /\ A(r).failed <= B(r).failed
          BY <2>3, <2>4 DEF Counts
        <5>3. a[x].ok = b[x].ok /\ A(r).ok = B(r).ok
          BY <4>1, <5>1
        <5>4. a[x].failed = b[x].failed /\ A(r).failed = B(r).failed
          BY <4>1, <5>2
        <5> QED BY <5>3, <5>4
      <4> QED BY <2>3, <2>4, <4>2 DEF Counts
    <3> QED BY <2>2, <2>4, <3>2
  <2> QED BY <2>5, <2>6
<1> HIDE DEF Q
<1>3. C = {}
  <2> SUFFICES ASSUME C # {} PROVE FALSE
    OBVIOUS
  <2>1. PICK m \in C : \A n \in C : m <= n
    BY LeastExists
  <2>2. PICK s \in SUBSET S : Cardinality(s) = m /\ ~Q(s)
    OBVIOUS
  <2>3. s # {}
    BY <1>1, <2>2
  <2>4. /\ s \ {Taken(s)} \in SUBSET S /\ Cardinality(s \ {Taken(s)}) = m - 1
        /\ m - 1 \in Nat
    BY <1>0, <2>2, <2>3
  <2>5. m - 1 \notin C
    BY <2>1, <2>4
  <2>6. Q(s \ {Taken(s)})
    BY <2>4, <2>5
  <2> QED BY <1>2, <2>2, <2>3, <2>6
<1>4. Q(S)
  <2>1. Cardinality(S) \in Nat
    BY <1>0
  <2> QED BY <1>3, <2>1
<1>5. CountsOf(a, S) = A(S) /\ CountsOf(b, S) = B(S)
  BY CountsSum
<1>6. (\A x \in S : a[x] = b[x]) => a = b
  OBVIOUS
<1> HIDE DEF A, B
<1> QED BY <1>4, <1>5, <1>6 DEF Q

-----------------------------------------------------------------------------
(* The evidence of evaluations *)

Tallies == [Profiles -> Counts]

NoMore(a, b) == \A p \in Profiles : a[p].ok <= b[p].ok /\ a[p].failed <= b[p].failed

\* What was read of which windows: by evaluations, and by the tasks at work
Evidence ==
  {<<r.windows, r.tally>> : r \in evaluations}
  \cup {<<windows[d], tally[d]>> : d \in {o \in Deliveries : pc[o] \in {"compare", "lock", "append"}}}

RowIs(r) ==
  /\ r.fingerprint = Fingerprint(history, r.windows, r.tally)
  /\ r.diagnosis = Diagnose(history, r.windows, r.tally)

\* Events are only added: of the same windows, one reading holds all that another does.
EvidenceInv ==
  /\ counts \in [Windows -> Tallies]
  /\ \A e \in Episodes : <<e, StartOf[e]>> \in signals
  /\ \A d \in Deliveries : pc[d] \in {"read", "compare", "lock", "append"} =>
       windows[d] \subseteq Windows
  /\ \A r \in evaluations : RowIs(r)
  /\ \A x \in Evidence :
       x[1] \subseteq Windows /\ x[2] \in Tallies /\ NoMore(x[2], TallyOf(x[1]))
  /\ \A x, y \in Evidence : x[1] = y[1] => NoMore(x[2], y[2]) \/ NoMore(y[2], x[2])


TallyIn(c, W) == [p \in Profiles |-> CountsOf([w \in W |-> c[w][p]], W)]

LEMMA WindowsFinite ==
  ASSUME NEW W \in SUBSET Windows
  PROVE  IsFiniteSet(W) /\ W \subseteq Nat
<1>1. PICK last \in Windows : Windows \subseteq 0 .. last
  BY RootCauseAssumption DEF RootCauseAssumption
<1>2. last \in 0 .. last
  BY <1>1
<1>3. last \in Int
  BY <1>2
<1>4. IsFiniteSet(0 .. last)
  BY <1>3, FS_Interval
<1>5. W \in SUBSET (0 .. last)
  BY <1>1
<1>6. IsFiniteSet(W)
  BY <1>4, <1>5, FS_Subset
<1>7. W \subseteq Nat
  BY <1>3, <1>5
<1> QED BY <1>6, <1>7

\* The analysis window of an episode with a BAD signal lies among the windows.
LEMMA WindowFits ==
  ASSUME NEW S, NEW e \in Episodes, <<e, StartOf[e]>> \in S
  PROVE  AnalysisWindow(S, e) \subseteq Windows
<1> DEFINE B == {w \in Windows : <<e, w>> \in S}
<1>1. StartOf[e] \in B
  BY RootCauseAssumption DEF RootCauseAssumption
<1>2. PICK last \in Windows : Windows \subseteq 0 .. last
  BY RootCauseAssumption DEF RootCauseAssumption
<1>3. last \in Nat /\ B \subseteq 0 .. last
  <2>1. last \in 0 .. last /\ B \subseteq Windows
    BY <1>2
  <2> HIDE DEF B
  <2>2. last \in Nat
    BY <2>1
  <2> QED BY <1>2, <2>1, <2>2
<1> DEFINE L == {last - w : w \in B}
<1>4. L \in SUBSET Nat /\ L # {}
  <2>1. \A w \in B : last - w \in Nat
    <3> HIDE DEF B
    <3> QED BY <1>3
  <2>2. last - StartOf[e] \in L
    BY <1>1
  <2> HIDE DEF B
  <2> QED BY <2>1, <2>2
<1> HIDE DEF L
<1>5. PICK m \in L : \A n \in L : m <= n
  BY <1>4, LeastExists
<1>6. PICK v \in B : m = last - v
  BY DEF L
<1>7. \A w \in B : v >= w
  <2> HIDE DEF B
  <2> TAKE w \in B
  <2>1. last - w \in L
    BY DEF L
  <2>2. last - v <= last - w
    BY <1>5, <1>6, <2>1
  <2>3. v \in Nat /\ w \in Nat
    BY <1>3
  <2> QED BY <1>3, <2>2, <2>3
<1>8. Max(B) \in B
  BY <1>7 DEF Max
<1> HIDE DEF B
<1>9. StartOf[e] \in Windows /\ Max(B) \in Windows
  BY <1>1, <1>8 DEF B
<1>10. StartOf[e] .. Max(B) \subseteq Windows
  BY <1>9, RootCauseAssumption DEF RootCauseAssumption
<1> QED BY <1>10 DEF AnalysisWindow, B

\* More events in the windows are more events in the tally.
LEMMA TallyGrows ==
  ASSUME NEW c \in [Windows -> Tallies], NEW k \in [Windows -> Tallies],
         \A w \in Windows : NoMore(c[w], k[w]),
         NEW W \in SUBSET Windows
  PROVE  /\ TallyIn(c, W) \in Tallies
         /\ NoMore(TallyIn(c, W), TallyIn(k, W))
<1>1. ASSUME NEW p \in Profiles
      PROVE  /\ CountsOf([w \in W |-> c[w][p]], W) \in Counts
             /\ CountsOf([w \in W |-> c[w][p]], W).ok <= CountsOf([w \in W |-> k[w][p]], W).ok
             /\ CountsOf([w \in W |-> c[w][p]], W).failed
                  <= CountsOf([w \in W |-> k[w][p]], W).failed
  <2> DEFINE a == [w \in W |-> c[w][p]]
             b == [w \in W |-> k[w][p]]
  <2>1. IsFiniteSet(W)
    BY WindowsFinite
  <2>2. a \in [W -> Counts] /\ b \in [W -> Counts]
    BY DEF Tallies
  <2>3. \A w \in W : a[w].ok <= b[w].ok /\ a[w].failed <= b[w].failed
    BY DEF NoMore
  <2> HIDE DEF a, b
  <2>4. /\ CountsOf(a, W) \in Counts /\ CountsOf(a, W).ok <= CountsOf(b, W).ok
        /\ CountsOf(a, W).failed <= CountsOf(b, W).failed
    BY <2>1, <2>2, <2>3, SumMonotone
  <2> QED BY <2>4 DEF a, b
<1> QED BY <1>1 DEF TallyIn, Tallies, NoMore

LEMMA NoMoreIsOrder ==
  /\ \A a \in Tallies : NoMore(a, a)
  /\ \A a, b, c \in Tallies : NoMore(a, b) /\ NoMore(b, c) => NoMore(a, c)
<1>1. \A a \in Tallies, p \in Profiles : a[p].ok \in Nat /\ a[p].failed \in Nat
  BY DEF Tallies, Counts
<1> QED BY <1>1 DEF NoMore

\* Two readings of the same windows with the same totals are the same.
LEMMA SameTotals ==
  ASSUME NEW a \in Tallies, NEW b \in Tallies, NoMore(a, b) \/ NoMore(b, a),
         Everything(a).failed = Everything(b).failed,
         Total(Everything(a)) = Total(Everything(b))
  PROVE  a = b
<1>1. ASSUME NEW x \in Tallies, NEW y \in Tallies, NoMore(x, y),
             Everything(x).failed = Everything(y).failed,
             Total(Everything(x)) = Total(Everything(y))
      PROVE  x = y
  <2>1. IsFiniteSet(Profiles)
    BY DiagnosisAssumption DEF DiagnosisAssumption
  <2>2. x \in [Profiles -> Counts] /\ y \in [Profiles -> Counts]
    BY DEF Tallies
  <2>3. \A p \in Profiles : x[p].ok <= y[p].ok /\ x[p].failed <= y[p].failed
    BY <1>1 DEF NoMore
  <2>4. /\ CountsOf(x, Profiles) \in Counts /\ CountsOf(y, Profiles) \in Counts
        /\ CountsOf(x, Profiles) = CountsOf(y, Profiles) => x = y
    BY <2>1, <2>2, <2>3, SumMonotone
  <2>5. /\ CountsOf(x, Profiles).failed = CountsOf(y, Profiles).failed
        /\ CountsOf(x, Profiles).ok + CountsOf(x, Profiles).failed
             = CountsOf(y, Profiles).ok + CountsOf(y, Profiles).failed
    BY <1>1 DEF Everything, Total
  <2>6. CountsOf(x, Profiles) = CountsOf(y, Profiles)
    BY <2>4, <2>5 DEF Counts
  <2> QED BY <2>4, <2>6
<1> QED BY <1>1

\* What a task has read stays, but for the next reading.
LEMMA ReadingKept ==
  ASSUME IInv, NEW d \in Deliveries, Step(d)
  PROVE  /\ pc'[d] \in {"read", "compare", "lock", "append"} /\ ~NextEpisode(d) =>
              pc[d] \in {"read", "compare", "lock", "append"} /\ windows'[d] = windows[d]
         /\ pc'[d] \in {"compare", "lock", "append"} /\ ~ReadEvents(d) =>
              pc[d] \in {"compare", "lock", "append"} /\ tally'[d] = tally[d]
<1> USE DEF IInv, TypeInv, Goto
<1>1. CASE Ingest(d)
  BY <1>1 DEF Ingest
<1>2. CASE Detect(d)
  BY <1>2 DEF Detect
<1>3. CASE Select(d)
  BY <1>3 DEF Select
<1>4. CASE NextEpisode(d)
  BY <1>4 DEF NextEpisode
<1>5. CASE ReadEvents(d)
  BY <1>5 DEF ReadEvents
<1>6. CASE CompareFingerprint(d)
  BY <1>6 DEF CompareFingerprint, EndEpisode
<1>7. CASE Allocate(d)
  BY <1>7 DEF Allocate
<1>8. CASE AppendEvaluation(d)
  BY <1>8 DEF AppendEvaluation, EndTask, EndEpisode
<1>9. CASE Finish(d)
  BY <1>9 DEF Finish
<1>10. CASE Fail(d)
  BY <1>10 DEF Fail, EndTask, EndEpisode
<1> QED
  BY <1>1, <1>2, <1>3, <1>4, <1>5, <1>6, <1>7, <1>8, <1>9, <1>10 DEF Step

\* A step adds to the evidence at most what the task reads now.
LEMMA EvidenceGrows ==
  ASSUME IInv, NEW d \in Deliveries, Step(d)
  PROVE  \A x \in Evidence' :
           x \in Evidence \/ (ReadEvents(d) /\ x = <<windows[d], TallyOf(windows[d])>>)
<1> SUFFICES ASSUME NEW x \in Evidence'
             PROVE  x \in Evidence \/ (ReadEvents(d) /\ x = <<windows[d], TallyOf(windows[d])>>)
  OBVIOUS
<1>1. CASE \E r \in evaluations' : x = <<r.windows, r.tally>>
  <2>1. PICK r \in evaluations' : x = <<r.windows, r.tally>>
    BY <1>1
  <2>2. CASE r \in evaluations
    BY <2>1, <2>2 DEF Evidence
  <2>3. CASE r \notin evaluations
    <3>1. Inserts(d) /\ r = Row(d)
      BY <2>3, LogGrows DEF Inserts
    <3>2. x = <<windows[d], tally[d]>> /\ pc[d] = "append"
      BY <2>1, <3>1 DEF Row, Evaluation, Inserts
    <3> QED BY <3>2 DEF Evidence
  <2> QED BY <2>2, <2>3
<1>2. CASE \E o \in Deliveries : /\ pc'[o] \in {"compare", "lock", "append"}
                                 /\ x = <<windows'[o], tally'[o]>>
  <2>1. PICK o \in Deliveries : /\ pc'[o] \in {"compare", "lock", "append"}
                                /\ x = <<windows'[o], tally'[o]>>
    BY <1>2
  <2>2. CASE o # d
    <3>1. pc[o] \in {"compare", "lock", "append"} /\ x = <<windows[o], tally[o]>>
      BY <2>1, <2>2, Others DEF IInv
    <3> QED BY <3>1 DEF Evidence
  <2>3. CASE o = d /\ ReadEvents(d)
    <3>1. windows'[d] = windows[d] /\ tally'[d] = TallyOf(windows[d])
      BY <2>3 DEF ReadEvents, IInv, TypeInv
    <3> QED BY <2>1, <2>3, <3>1
  <2>4. CASE o = d /\ ~ReadEvents(d)
    <3>1. ~NextEpisode(d)
      BY <2>1, <2>4 DEF NextEpisode, Goto, IInv, TypeInv
    <3>2. pc[d] \in {"compare", "lock", "append"} /\ x = <<windows[d], tally[d]>>
      BY <2>1, <2>4, <3>1, ReadingKept
    <3> QED BY <3>2 DEF Evidence
  <2> QED BY <2>2, <2>3, <2>4
<1> QED BY <1>1, <1>2 DEF Evidence

LEMMA CountsGrow ==
  ASSUME EvidenceInv, NEW d \in Deliveries, Step(d)
  PROVE  /\ counts' \in [Windows -> Tallies]
         /\ \A w \in Windows : NoMore(counts[w], counts'[w])
<1>0. \A w \in Windows : NoMore(counts[w], counts[w])
  BY NoMoreIsOrder DEF EvidenceInv
<1>1. CASE Ingest(d)
  <2> DEFINE W == WindowOf[d]
             P == ProfileOf[d]
             F == OutcomeOf[d]
  <2>1. W \in Windows /\ P \in Profiles /\ F \in {"ok", "failed"}
    BY RootCauseAssumption DEF RootCauseAssumption
  <2>2. counts' = [counts EXCEPT ![W][P][F] = @ + 1]
    BY <1>1 DEF Ingest
  <2>3. counts \in [Windows -> [Profiles -> Counts]]
    BY DEF EvidenceInv, Tallies
  <2> HIDE DEF W, P, F
  <2>4. counts[W][P] \in Counts
    BY <2>1, <2>3
  <2>5. PICK c : c = [counts[W][P] EXCEPT ![F] = @ + 1]
    OBVIOUS
  <2>6. /\ c \in Counts
        /\ counts[W][P].ok <= c.ok /\ counts[W][P].failed <= c.failed
    BY <2>1, <2>4, <2>5 DEF Counts
  <2>7. counts' = [counts EXCEPT ![W] = [counts[W] EXCEPT ![P] = c]]
    BY <2>1, <2>2, <2>3, <2>5
  <2>8. counts' \in [Windows -> [Profiles -> Counts]]
    BY <2>1, <2>3, <2>6, <2>7
  <2>9. ASSUME NEW w \in Windows, NEW p \in Profiles
        PROVE  counts[w][p].ok <= counts'[w][p].ok /\ counts[w][p].failed <= counts'[w][p].failed
    <3>1. CASE w = W /\ p = P
      BY <2>1, <2>3, <2>6, <2>7, <3>1
    <3>2. CASE ~(w = W /\ p = P)
      <4>1. counts'[w][p] = counts[w][p]
        BY <2>1, <2>3, <2>7, <3>2
      <4>2. counts[w][p] \in Counts
        BY <2>3
      <4> QED BY <4>1, <4>2 DEF Counts
    <3> QED BY <3>1, <3>2
  <2> QED BY <2>8, <2>9 DEF Tallies, NoMore
<1>2. CASE ~Ingest(d)
  <2>1. counts' = counts
    BY <1>2 DEF Step, Detect, Select, NextEpisode, ReadEvents, CompareFingerprint, Allocate,
       AppendEvaluation, Finish, Fail, stage3
  <2> QED BY <1>0, <2>1 DEF EvidenceInv
<1> QED BY <1>1, <1>2

LEMMA SignalsGrow ==
  ASSUME NEW d \in Deliveries, Step(d)
  PROVE  signals \subseteq signals'
BY DEF Step, Ingest, Detect, Select, NextEpisode, ReadEvents, CompareFingerprint, Allocate,
       AppendEvaluation, Finish, Fail, stage3, Publish, ViewSignals

LEMMA EvidenceStep ==
  ASSUME IInv, EvidenceInv, NEW d \in Deliveries, Step(d)
  PROVE  EvidenceInv'
<1>1. /\ counts' \in [Windows -> Tallies] /\ counts \in [Windows -> Tallies]
      /\ \A w \in Windows : NoMore(counts[w], counts'[w])
  BY CountsGrow DEF EvidenceInv
<1>2. \A e \in Episodes : <<e, StartOf[e]>> \in signals'
  BY SignalsGrow DEF EvidenceInv
<1>3. ASSUME NEW o \in Deliveries, pc'[o] \in {"read", "compare", "lock", "append"}
      PROVE  windows'[o] \subseteq Windows
  <2>1. CASE o # d
    BY <1>3, <2>1, Others DEF IInv, EvidenceInv
  <2>2. CASE o = d /\ ~NextEpisode(d)
    BY <1>3, <2>2, ReadingKept DEF EvidenceInv
  <2>3. CASE o = d /\ NextEpisode(d)
    <3>1. PICK e \in todo[d] : windows'[d] = AnalysisWindow(ViewSignals(d), e)
      BY <2>3 DEF NextEpisode, IInv, TypeInv
    <3>2. e \in Episodes
      BY DEF IInv, TypeInv
    <3>3. <<e, StartOf[e]>> \in ViewSignals(d)
      BY <3>2 DEF EvidenceInv, ViewSignals
    <3> QED BY <2>3, <3>1, <3>2, <3>3, WindowFits
  <2> QED BY <2>1, <2>2, <2>3
<1>4. ASSUME NEW r \in evaluations'
      PROVE  RowIs(r)'
  <2>1. history' = history
    BY PastFixed
  <2>2. CASE r \in evaluations
    BY <2>1, <2>2 DEF EvidenceInv, RowIs
  <2>3. CASE r \notin evaluations
    <3>1. r = Row(d)
      BY <2>3, LogGrows DEF Inserts
    <3>2. /\ r.windows = windows[d] /\ r.tally = tally[d]
          /\ r.fingerprint = Fingerprint(history, windows[d], tally[d])
          /\ r.diagnosis = Diagnose(history, windows[d], tally[d])
      BY <3>1 DEF Row, Evaluation
    <3> QED BY <2>1, <3>2 DEF RowIs
  <2> QED BY <2>2, <2>3
<1>5. \A W : TallyOf(W) = TallyIn(counts, W) /\ TallyOf(W)' = TallyIn(counts', W)
  BY DEF TallyOf, TallyIn
<1>6. \A W \in SUBSET Windows : /\ TallyOf(W) \in Tallies /\ TallyOf(W)' \in Tallies
                                /\ NoMore(TallyOf(W), TallyOf(W)')
  <2> TAKE W \in SUBSET Windows
  <2>1. TallyIn(counts, W) \in Tallies /\ NoMore(TallyIn(counts, W), TallyIn(counts', W))
    BY <1>1, TallyGrows
  <2>2. \A w \in Windows : NoMore(counts'[w], counts'[w])
    BY <1>1, NoMoreIsOrder
  <2>3. TallyIn(counts', W) \in Tallies
    BY <1>1, <2>2, TallyGrows
  <2> QED BY <1>5, <2>1, <2>3
<1> DEFINE now == <<windows[d], TallyOf(windows[d])>>
<1>7. \A x \in Evidence' : x \in Evidence \/ (ReadEvents(d) /\ x = now)
  BY EvidenceGrows
<1>8. ReadEvents(d) => windows[d] \in SUBSET Windows
  BY DEF ReadEvents, EvidenceInv
<1> HIDE DEF now
<1>9. ASSUME NEW x \in Evidence'
      PROVE  x[1] \subseteq Windows /\ x[2] \in Tallies /\ NoMore(x[2], TallyOf(x[1])')
  <2>1. CASE x \in Evidence
    <3>1. x[1] \in SUBSET Windows /\ x[2] \in Tallies /\ NoMore(x[2], TallyOf(x[1]))
      BY <2>1 DEF EvidenceInv
    <3> QED BY <1>6, <3>1, NoMoreIsOrder
  <2>2. CASE ReadEvents(d) /\ x = now
    <3>1. x[1] = windows[d] /\ x[2] = TallyOf(windows[d])
      BY <2>2 DEF now
    <3> QED BY <1>6, <1>8, <2>2, <3>1
  <2> QED BY <1>7, <2>1, <2>2
<1>10. ASSUME NEW x \in Evidence', NEW y \in Evidence', x[1] = y[1]
       PROVE  NoMore(x[2], y[2]) \/ NoMore(y[2], x[2])
  <2>1. CASE x \in Evidence /\ y \in Evidence
    BY <1>10, <2>1 DEF EvidenceInv
  <2>2. ASSUME ReadEvents(d), NEW a \in Evidence \cup {now}, a[1] = now[1]
        PROVE  NoMore(a[2], now[2])
    <3>1. now[1] = windows[d] /\ now[2] = TallyOf(windows[d])
      BY DEF now
    <3>2. CASE a \in Evidence
      BY <2>2, <3>1, <3>2 DEF EvidenceInv
    <3>3. CASE a = now
      BY <1>6, <1>8, <2>2, <3>1, <3>3, NoMoreIsOrder
    <3> QED BY <3>2, <3>3
  <2>3. CASE ReadEvents(d) /\ x = now
    BY <1>7, <1>10, <2>2, <2>3
  <2>4. CASE ReadEvents(d) /\ y = now
    BY <1>7, <1>10, <2>2, <2>4
  <2> QED BY <1>7, <2>1, <2>3, <2>4
<1> QED BY <1>1, <1>2, <1>3, <1>4, <1>9, <1>10 DEF EvidenceInv

LEMMA EvidenceSound ==
  ASSUME EvidenceInv
  PROVE  FingerprintSound
<1> SUFFICES ASSUME NEW d \in Deliveries, pc[d] = "compare", NEW r \in LogOf(current[d]),
                    r.fingerprint = Fingerprint(history, windows[d], tally[d])
             PROVE  r.diagnosis = Diagnose(history, windows[d], tally[d])
  BY DEF FingerprintSound
<1>1. r \in evaluations /\ RowIs(r)
  BY DEF LogOf, EvidenceInv
<1>2. Fingerprint(history, r.windows, r.tally) = Fingerprint(history, windows[d], tally[d])
  BY <1>1 DEF RowIs
<1>3. /\ r.windows = windows[d]
      /\ Everything(r.tally).failed = Everything(tally[d]).failed
      /\ Total(Everything(r.tally)) = Total(Everything(tally[d]))
  BY <1>2 DEF Fingerprint
<1> DEFINE x == <<r.windows, r.tally>>
           y == <<windows[d], tally[d]>>
<1>4. x \in Evidence /\ y \in Evidence
  BY <1>1 DEF Evidence
<1>5. x[1] = r.windows /\ x[2] = r.tally /\ y[1] = windows[d] /\ y[2] = tally[d]
  OBVIOUS
<1> HIDE DEF x, y
<1>6. /\ r.tally \in Tallies /\ tally[d] \in Tallies
      /\ \/ NoMore(r.tally, tally[d])
         \/ NoMore(tally[d], r.tally)
  BY <1>3, <1>4, <1>5 DEF EvidenceInv
<1>7. r.tally = tally[d]
  BY <1>3, <1>6, SameTotals
<1> QED BY <1>1, <1>3, <1>7 DEF RowIs

LEMMA InitEvidence == Init => EvidenceInv
<1> SUFFICES ASSUME Init PROVE EvidenceInv
  OBVIOUS
<1>1. counts \in [Windows -> Tallies]
  BY RootCauseAssumption DEF Init, RootCauseAssumption, Tallies, Counts
<1>2. \A e \in Episodes : <<e, StartOf[e]>> \in signals
  BY DEF Init
<1>3. \A d \in Deliveries : pc[d] = "none"
  BY DEF Init
<1> DEFINE Span(e) == AnalysisWindow(signals, e)
           First(e) == Evaluation(e, 1, Span(e), TallyOf(Span(e)), 0)
<1>4. PICK active \in Earlier : evaluations = {First(e) : e \in active}
  BY DEF Init
<1>5. \A e \in active : e \in Episodes
  BY RootCauseAssumption DEF RootCauseAssumption
<1>6. \A e \in active : Span(e) \in SUBSET Windows
  BY <1>2, <1>5, WindowFits
<1>7. \A e : /\ First(e).windows = Span(e) /\ First(e).tally = TallyOf(Span(e))
             /\ RowIs(First(e))
  BY DEF Evaluation, RowIs
<1> HIDE DEF First
<1>8. \A w \in Windows : NoMore(counts[w], counts[w])
  BY <1>1, NoMoreIsOrder
<1>9. \A W : TallyOf(W) = TallyIn(counts, W)
  BY DEF TallyOf, TallyIn
<1>10. ASSUME NEW W \in SUBSET Windows
       PROVE  TallyOf(W) \in Tallies /\ NoMore(TallyOf(W), TallyOf(W))
  <2>1. TallyIn(counts, W) \in Tallies /\ NoMore(TallyIn(counts, W), TallyIn(counts, W))
    BY <1>1, <1>8, TallyGrows
  <2> QED BY <1>9, <2>1
<1>11. ASSUME NEW x \in Evidence
       PROVE  x[1] \in SUBSET Windows /\ x[2] = TallyOf(x[1])
  <2>1. PICK r \in evaluations : x = <<r.windows, r.tally>>
    BY <1>3 DEF Evidence
  <2>2. PICK e \in active : r = First(e)
    BY <1>4
  <2>3. r.windows \in SUBSET Windows /\ r.tally = TallyOf(r.windows)
    BY <1>6, <1>7, <2>2
  <2> QED BY <2>1, <2>3
<1>12. \A r \in evaluations : RowIs(r)
  BY <1>4, <1>7
<1>13. \A x \in Evidence :
         x[1] \subseteq Windows /\ x[2] \in Tallies /\ NoMore(x[2], TallyOf(x[1]))
  BY <1>10, <1>11
<1>14. \A x, y \in Evidence : x[1] = y[1] => NoMore(x[2], y[2]) \/ NoMore(y[2], x[2])
  BY <1>10, <1>11
<1> QED BY <1>1, <1>2, <1>3, <1>12, <1>13, <1>14 DEF EvidenceInv

LEMMA EvidenceStutter == EvidenceInv /\ UNCHANGED vars => EvidenceInv'
<1> SUFFICES ASSUME EvidenceInv, UNCHANGED vars PROVE EvidenceInv'
  OBVIOUS
<1>1. Evidence' = Evidence
  BY DEF vars, stage3, locals, Evidence
<1>2. \A W : TallyOf(W)' = TallyOf(W)
  BY DEF vars, stage3, locals, TallyOf
<1>3. \A r : RowIs(r)' <=> RowIs(r)
  BY DEF vars, stage3, locals, RowIs
<1> QED BY <1>1, <1>2, <1>3 DEF EvidenceInv, vars, stage3, locals

\* Rows are what their fingerprint and diagnosis say, and readings of the same windows form
\* a chain, in every reachable state.
THEOREM EvidenceInductive == Spec => [](IInv /\ EvidenceInv)
<1>1. EvidenceInv /\ IInv /\ [Next]_vars => EvidenceInv'
  <2>1. EvidenceInv /\ IInv /\ Next => EvidenceInv'
    <3> SUFFICES ASSUME EvidenceInv, IInv, NEW d \in Deliveries, Step(d) PROVE EvidenceInv'
      BY DEF Next, Step
    <3> QED BY EvidenceStep
  <2> QED BY <2>1, EvidenceStutter
<1> QED BY InitEvidence, Inductive, <1>1, PTL DEF Spec

\* The fingerprint of compute_input_fingerprint has totals only, and still tells apart what
\* the diagnosis depends on: evaluate_episode skips no evaluation that would differ.
THEOREM FingerprintsSound == Spec => []FingerprintSound
<1>1. EvidenceInv => FingerprintSound
  BY EvidenceSound
<1> QED BY <1>1, EvidenceInductive, PTL

-----------------------------------------------------------------------------
(* The diagnosis converges *)

\* The latest evaluation of episode e in the log E is the diagnosis of counts c, as far as
\* the signals S go.
Diagnosed(h, c, E, S, e) ==
  LET W == AnalysisWindow(S, e) IN
  \E r \in E : /\ r.episode = e
               /\ \A x \in E : x.episode = e => x.version <= r.version
               /\ r.windows = W /\ r.diagnosis = Diagnose(h, W, TallyIn(c, W))

\* Nobody has failed or overlapped, and no event waits for its task.
Settled == ~overlapped /\ faults = 0 /\ \A d \in Deliveries : pc[d] # "scheduled"

\* A task sees the ACTIVE episodes diagnosed but those it has still to evaluate, and has
\* read what is stored.
Progress(d) ==
  /\ pc[d] \in {"loop", "read", "compare", "lock", "append"} =>
       \A e \in Episodes :
         ViewEpisodes(d)[e] = "ACTIVE" /\ e \notin todo[d] /\ (pc[d] # "loop" => e # current[d])
           => Diagnosed(history, counts, evaluations, ViewSignals(d), e)
  /\ pc[d] \in {"read", "compare", "lock", "append"} =>
       windows[d] = AnalysisWindow(ViewSignals(d), current[d])
  /\ pc[d] \in {"compare", "lock", "append"} => tally[d] = TallyIn(counts, windows[d])

ConvergeInv ==
  /\ faults \in Nat /\ DOMAIN new = Deliveries
  /\ Settled =>
       /\ (\A d \in Deliveries : ~Running(d)) =>
            \A e \in Episodes : episodes[e] = "ACTIVE" =>
              Diagnosed(history, counts, evaluations, signals, e)
       /\ \A d \in Deliveries : Progress(d)

LEMMA ConvergeSound ==
  ASSUME ConvergeInv
  PROVE  DiagnosisConverges
<1> SUFFICES ASSUME ~overlapped, faults = 0,
                    \A d \in Deliveries : pc[d] \in {"none", "done"},
                    NEW e \in Episodes, episodes[e] = "ACTIVE"
             PROVE  \E r \in Latest(e) :
                      /\ r.windows = AnalysisWindow(signals, e)
                      /\ r.diagnosis = Diagnose(history, AnalysisWindow(signals, e),
                                                TallyOf(AnalysisWindow(signals, e)))
  BY DEF DiagnosisConverges
<1>1. Diagnosed(history, counts, evaluations, signals, e)
  BY DEF ConvergeInv, Settled, Running
<1>2. \A W : TallyOf(W) = TallyIn(counts, W)
  BY DEF TallyOf, TallyIn
<1> QED BY <1>1, <1>2 DEF Diagnosed, Latest, LogOf

LEMMA InitConverge == Init => ConvergeInv
<1> SUFFICES ASSUME Init PROVE ConvergeInv
  OBVIOUS
<1>1. \A d \in Deliveries : pc[d] = "none"
  BY DEF Init
<1>2. \A d \in Deliveries : Progress(d)
  BY <1>1 DEF Progress
<1> DEFINE Span(e) == AnalysisWindow(signals, e)
           First(e) == Evaluation(e, 1, Span(e), TallyOf(Span(e)), 0)
<1>3. PICK active \in Earlier :
        /\ episodes = [e \in Episodes |-> IF e \in active THEN "ACTIVE" ELSE "none"]
        /\ evaluations = {First(e) : e \in active}
  BY DEF Init
<1>4. \A e : /\ First(e).episode = e /\ First(e).version = 1 /\ First(e).windows = Span(e)
             /\ First(e).diagnosis = Diagnose(history, Span(e), TallyIn(counts, Span(e)))
  BY DEF Evaluation, TallyOf, TallyIn
<1> HIDE DEF First
<1>5. ASSUME NEW e \in Episodes, episodes[e] = "ACTIVE"
      PROVE  Diagnosed(history, counts, evaluations, signals, e)
  <2>1. First(e) \in evaluations
    BY <1>3, <1>5
  <2>2. \A x \in evaluations : x.version <= First(e).version
    BY <1>3, <1>4
  <2> QED BY <1>4, <2>1, <2>2 DEF Diagnosed
<1>6. faults \in Nat /\ DOMAIN new = Deliveries
  BY DEF Init
<1> QED BY <1>2, <1>5, <1>6 DEF ConvergeInv

LEMMA ConvergeStutter == ConvergeInv /\ UNCHANGED vars => ConvergeInv'
<1> SUFFICES ASSUME ConvergeInv, UNCHANGED vars PROVE ConvergeInv'
  OBVIOUS
<1>1. \A d \in Deliveries : ViewSignals(d)' = ViewSignals(d) /\ ViewEpisodes(d)' = ViewEpisodes(d)
  BY DEF ViewSignals, ViewEpisodes, vars, stage3
<1>2. (\A d \in Deliveries : Progress(d)) => (\A d \in Deliveries : Progress(d)')
  BY <1>1 DEF Progress, vars, stage3, locals
<1>3. \A d : Running(d)' <=> Running(d)
  BY DEF Running, vars
<1> QED BY <1>2, <1>3 DEF ConvergeInv, Settled, vars, stage3

\* Steps within an evaluation write nothing.
LEMMA NothingWritten ==
  ASSUME NEW d \in Deliveries,
         \/ Select(d) \/ NextEpisode(d) \/ ReadEvents(d) \/ CompareFingerprint(d) \/ Allocate(d)
  PROVE  /\ UNCHANGED <<history, counts, evaluations, overlapped, faults>>
         /\ ViewSignals(d)' = ViewSignals(d) /\ ViewEpisodes(d)' = ViewEpisodes(d)
BY DEF Select, NextEpisode, ReadEvents, CompareFingerprint, Allocate, stage3,
       ViewSignals, ViewEpisodes

\* An evaluation is appended, with the rows of its task, as the latest of its episode.
LEMMA Appended ==
  ASSUME IInv, DOMAIN new = Deliveries, NEW d \in Deliveries, AppendEvaluation(d)
  PROVE  /\ evaluations' = evaluations \cup {Row(d)}
         /\ UNCHANGED <<history, counts, overlapped, faults, todo>>
         /\ ViewSignals(d)' = ViewSignals(d) /\ ViewEpisodes(d)' = ViewEpisodes(d)
         /\ pc'[d] = "loop"
         /\ \A x \in evaluations' : x.episode = current[d] => x.version <= version[d]
<1>1. pc[d] = "append"
  BY DEF AppendEvaluation
<1>2. /\ current[d] \in Episodes /\ version[d] \in Nat /\ version[d] > 0
      /\ Versions(current[d]) = 1 .. version[d] - 1
  BY <1>1, NextVersion
<1>3. ~\E r \in LogOf(current[d]) : r.version = version[d]
  BY <1>2 DEF Versions
<1>4. /\ evaluations' = evaluations \cup {Row(d)}
      /\ Publish(d) /\ EndEpisode(d, "loop")
      /\ UNCHANGED <<history, counts, overlapped, faults, todo>>
  BY <1>3 DEF AppendEvaluation, Row
<1>5. pc'[d] = "loop"
  BY <1>4 DEF EndEpisode, Goto, IInv, TypeInv
<1>6. new'[d] = NoRows /\ signals' = ViewSignals(d) /\ episodes' = ViewEpisodes(d)
  BY <1>4 DEF Publish
<1>7. ViewSignals(d)' = ViewSignals(d) /\ ViewEpisodes(d)' = ViewEpisodes(d)
  <2>1. ViewSignals(d)' = ViewSignals(d)
    BY <1>6 DEF ViewSignals, NoRows
  <2>2. DOMAIN NoRows.episodes = {}
    BY DEF NoRows
  <2>3. ViewEpisodes(d)' = ViewEpisodes(d)
    BY <1>6, <2>2 DEF ViewEpisodes
  <2> QED BY <2>1, <2>3
<1>8. ASSUME NEW x \in evaluations', x.episode = current[d]
      PROVE  x.version <= version[d]
  <2>1. CASE x = Row(d)
    BY <1>2, <2>1, RowFields
  <2>2. CASE x \in evaluations
    <3>1. x.version \in Versions(current[d])
      BY <1>8, <2>2 DEF Versions, LogOf
    <3>2. x.version \in 1 .. version[d] - 1
      BY <1>2, <3>1
    <3> QED BY <1>2, <3>2
  <2> QED BY <1>4, <2>1, <2>2
<1> QED BY <1>4, <1>5, <1>7, <1>8

\* An evaluation of what has been read is the diagnosis of it.
LEMMA ComparedDiagnosed ==
  ASSUME EvidenceInv, NEW d \in Deliveries, pc[d] = "compare", Unchanged(d),
         NEW S, windows[d] = AnalysisWindow(S, current[d]),
         tally[d] = TallyIn(counts, windows[d])
  PROVE  Diagnosed(history, counts, evaluations, S, current[d])
<1>1. PICK r \in Latest(current[d]) : r.fingerprint = Fingerprint(history, windows[d], tally[d])
  BY DEF Unchanged
<1>2. /\ r \in evaluations /\ r.episode = current[d] /\ r \in LogOf(current[d])
      /\ \A x \in evaluations : x.episode = current[d] => x.version <= r.version
  BY DEF Latest, LogOf
<1>3. r.diagnosis = Diagnose(history, windows[d], tally[d])
  BY <1>1, <1>2, EvidenceSound DEF FingerprintSound
<1>4. r.windows = windows[d]
  <2>1. r.fingerprint = Fingerprint(history, r.windows, r.tally)
    BY <1>2 DEF EvidenceInv, RowIs
  <2>2. Fingerprint(history, r.windows, r.tally) = Fingerprint(history, windows[d], tally[d])
    BY <1>1, <2>1
  <2> QED BY <2>2 DEF Fingerprint
<1> QED BY <1>2, <1>3, <1>4 DEF Diagnosed

LEMMA ConvergeStep ==
  ASSUME IInv, EvidenceInv, ConvergeInv, NEW d \in Deliveries, Step(d)
  PROVE  ConvergeInv'
<1>0. faults' \in Nat /\ (Fail(d) => faults' # 0)
  BY DEF ConvergeInv, Step, Ingest, Detect, Select, NextEpisode, ReadEvents,
     CompareFingerprint, Allocate, AppendEvaluation, Finish, Fail
<1>1. DOMAIN new' = Deliveries
  BY DEF ConvergeInv, Step, Ingest, Detect, Select, NextEpisode, ReadEvents,
     CompareFingerprint, Allocate, AppendEvaluation, Finish, Fail, EndTask, Publish
<1> SUFFICES ASSUME Settled'
             PROVE  /\ (\A o \in Deliveries : ~Running(o)') =>
                         \A e \in Episodes : episodes'[e] = "ACTIVE" =>
                           Diagnosed(history', counts', evaluations', signals', e)
                    /\ \A o \in Deliveries : Progress(o)'
  BY <1>0, <1>1 DEF ConvergeInv
<1>2. ~overlapped' /\ faults' = 0 /\ \A o \in Deliveries : pc'[o] # "scheduled"
  BY DEF Settled
<1>3. ~Ingest(d) /\ ~Fail(d)
  BY <1>0, <1>2 DEF Ingest, Goto, IInv, TypeInv
<1>4. ASSUME Detect(d)
      PROVE  Running(d)' /\ \A o \in Deliveries : Progress(o)'
  <2>1. pc'[d] = "select" /\ \A o \in Deliveries : ~Running(o)
    BY <1>2, <1>4 DEF Detect, Goto, IInv, TypeInv
  <2>2. \A o \in Deliveries : o # d => ~Running(o)'
    BY <2>1, Others DEF Running, IInv
  <2> QED BY <2>1, <2>2 DEF Running, Progress
<1>5. ASSUME ~Detect(d)
      PROVE  /\ Settled /\ Running(d) /\ Progress(d)
             /\ \A o \in Deliveries : o # d => Progress(o)'
             /\ \A o \in Deliveries : o # d => ~Running(o)
  <2>1. Running(d) /\ ~overlapped /\ faults = 0
    BY <1>2, <1>3, <1>5 DEF Running, Step, Select, NextEpisode, ReadEvents,
       CompareFingerprint, Allocate, AppendEvaluation, Finish
  <2>2. \A o \in Deliveries : pc[o] # "scheduled"
    BY <1>2, <2>1, Others DEF Running, IInv
  <2>3. \A o \in Deliveries : o # d => ~Running(o)
    BY <2>1 DEF IInv, AloneInv
  <2>4. \A o \in Deliveries : o # d => ~Running(o)'
    BY <2>3, Others DEF Running, IInv
  <2>5. \A o \in Deliveries : o # d => Progress(o)'
    BY <2>4 DEF Running, Progress
  <2> QED BY <2>1, <2>2, <2>3, <2>5 DEF ConvergeInv, Settled
<1>6. ASSUME ~Detect(d), ~Finish(d)
      PROVE  Running(d)'
  <2>1. CASE AppendEvaluation(d)
    BY <2>1, Appended DEF Running, ConvergeInv
  <2>2. CASE ~AppendEvaluation(d)
    BY <1>3, <1>6, <2>2 DEF Running, Step, Select, NextEpisode, ReadEvents,
       CompareFingerprint, Allocate, EndEpisode, Goto, IInv, TypeInv
  <2> QED BY <2>1, <2>2
<1>7. ASSUME ~Detect(d)
      PROVE  Progress(d)'
  <2> USE DEF IInv, TypeInv, Goto
  <2>0. Progress(d)
    BY <1>5, <1>7
  <2>1. CASE Select(d)
    <3>1. /\ pc'[d] = "loop"
          /\ todo'[d] = {e \in Episodes : ViewEpisodes(d)[e] = "ACTIVE"}
      BY <2>1 DEF Select
    <3>2. ViewEpisodes(d)' = ViewEpisodes(d)
      BY <2>1, NothingWritten
    <3> QED BY <3>1, <3>2 DEF Progress
  <2>2. CASE NextEpisode(d)
    <3>1. PICK n \in todo[d] : /\ todo'[d] = todo[d] \ {n} /\ current'[d] = n
                               /\ windows'[d] = AnalysisWindow(ViewSignals(d), n)
      BY <2>2 DEF NextEpisode
    <3>2. pc[d] = "loop" /\ pc'[d] = "read"
      BY <2>2 DEF NextEpisode
    <3>3. /\ UNCHANGED <<history, counts, evaluations>>
          /\ ViewSignals(d)' = ViewSignals(d) /\ ViewEpisodes(d)' = ViewEpisodes(d)
      BY <2>2, NothingWritten
    <3> QED BY <2>0, <3>1, <3>2, <3>3 DEF Progress
  <2>3. CASE ReadEvents(d)
    <3>1. /\ pc[d] = "read" /\ pc'[d] = "compare" /\ UNCHANGED <<todo, current, windows>>
          /\ tally'[d] = TallyIn(counts, windows[d])
      BY <2>3 DEF ReadEvents, TallyOf, TallyIn
    <3>2. /\ UNCHANGED <<history, counts, evaluations>>
          /\ ViewSignals(d)' = ViewSignals(d) /\ ViewEpisodes(d)' = ViewEpisodes(d)
      BY <2>3, NothingWritten
    <3> QED BY <2>0, <3>1, <3>2 DEF Progress
  <2>4. CASE CompareFingerprint(d)
    <3>1. /\ UNCHANGED <<history, counts, evaluations, todo>>
          /\ ViewSignals(d)' = ViewSignals(d) /\ ViewEpisodes(d)' = ViewEpisodes(d)
      BY <2>4, NothingWritten DEF CompareFingerprint
    <3>2. pc[d] = "compare"
      BY <2>4 DEF CompareFingerprint
    <3>3. CASE Unchanged(d)
      <4>1. pc'[d] = "loop"
        BY <2>4, <3>3 DEF CompareFingerprint, EndEpisode
      <4>2. Diagnosed(history, counts, evaluations, ViewSignals(d), current[d])
        BY <2>0, <3>2, <3>3, ComparedDiagnosed DEF Progress
      <4> QED BY <2>0, <3>1, <3>2, <4>1, <4>2 DEF Progress
    <3>4. CASE ~Unchanged(d)
      <4>1. pc'[d] = "lock" /\ UNCHANGED <<current, windows, tally>>
        BY <2>4, <3>4 DEF CompareFingerprint
      <4> QED BY <2>0, <3>1, <3>2, <4>1 DEF Progress
    <3> QED BY <3>3, <3>4
  <2>5. CASE Allocate(d)
    <3>1. /\ pc[d] = "lock" /\ pc'[d] = "append" /\ UNCHANGED <<todo, current, windows, tally>>
      BY <2>5 DEF Allocate
    <3>2. /\ UNCHANGED <<history, counts, evaluations>>
          /\ ViewSignals(d)' = ViewSignals(d) /\ ViewEpisodes(d)' = ViewEpisodes(d)
      BY <2>5, NothingWritten
    <3> QED BY <2>0, <3>1, <3>2 DEF Progress
  <2>6. CASE AppendEvaluation(d)
    <3>1. /\ evaluations' = evaluations \cup {Row(d)}
          /\ UNCHANGED <<history, counts, overlapped, faults, todo>>
          /\ ViewSignals(d)' = ViewSignals(d) /\ ViewEpisodes(d)' = ViewEpisodes(d)
          /\ pc'[d] = "loop"
          /\ \A x \in evaluations' : x.episode = current[d] => x.version <= version[d]
      BY <2>6, Appended DEF ConvergeInv
    <3>2. pc[d] = "append"
      BY <2>6 DEF AppendEvaluation
    <3>3. /\ windows[d] = AnalysisWindow(ViewSignals(d), current[d])
          /\ tally[d] = TallyIn(counts, windows[d])
      BY <2>0, <3>2 DEF Progress
    <3>4. /\ Row(d).episode = current[d] /\ Row(d).version = version[d]
          /\ Row(d).windows = windows[d]
          /\ Row(d).diagnosis = Diagnose(history, windows[d], tally[d])
      BY DEF Row, Evaluation
    <3>5. Row(d) \in evaluations'
      BY <3>1
    <3>6. Diagnosed(history, counts, evaluations', ViewSignals(d), current[d])
      BY <3>1, <3>3, <3>4, <3>5 DEF Diagnosed
    <3>7. ASSUME NEW e \in Episodes, e # current[d],
                 Diagnosed(history, counts, evaluations, ViewSignals(d), e)
          PROVE  Diagnosed(history, counts, evaluations', ViewSignals(d), e)
      <4>1. \A x \in evaluations' : x.episode = e => x \in evaluations
        BY <3>1, <3>4, <3>7
      <4>2. evaluations \subseteq evaluations'
        BY <3>1
      <4> QED BY <3>7, <4>1, <4>2 DEF Diagnosed
    <3> QED BY <2>0, <3>1, <3>2, <3>6, <3>7 DEF Progress
  <2>7. CASE Finish(d)
    BY <2>7 DEF Finish, Progress
  <2> QED BY <1>3, <1>7, <2>1, <2>2, <2>3, <2>4, <2>5, <2>6, <2>7 DEF Step
<1>8. ASSUME Finish(d), ~Detect(d)
      PROVE  \A e \in Episodes : episodes'[e] = "ACTIVE" =>
               Diagnosed(history', counts', evaluations', signals', e)
  <2>1. /\ pc[d] = "loop" /\ todo[d] = {}
        /\ signals' = ViewSignals(d) /\ episodes' = ViewEpisodes(d)
        /\ UNCHANGED <<history, counts, evaluations>>
    BY <1>8 DEF Finish, Publish
  <2>2. Progress(d)
    BY <1>5, <1>8
  <2> QED BY <2>1, <2>2 DEF Progress
<1>9. Detect(d) => ~Finish(d)
  BY DEF Detect, Finish
<1> QED BY <1>4, <1>5, <1>6, <1>7, <1>8, <1>9

\* Whatever order events arrive in, once the tasks of all of them have run one after the
\* other and none has failed, the latest evaluation that evaluate_episode has appended to an
\* ACTIVE episode is the diagnosis of all events stored.
THEOREM DiagnosesConverge == Spec => []DiagnosisConverges
<1>1. ConvergeInv /\ IInv /\ EvidenceInv /\ [Next]_vars => ConvergeInv'
  <2>1. ConvergeInv /\ IInv /\ EvidenceInv /\ Next => ConvergeInv'
    <3> SUFFICES ASSUME ConvergeInv, IInv, EvidenceInv, NEW d \in Deliveries, Step(d)
                 PROVE  ConvergeInv'
      BY DEF Next, Step
    <3> QED BY ConvergeStep
  <2> QED BY <2>1, ConvergeStutter
<1>2. ConvergeInv => DiagnosisConverges
  BY ConvergeSound
<1> QED BY InitConverge, EvidenceInductive, <1>1, <1>2, PTL DEF Spec

-----------------------------------------------------------------------------
(* Sums in any order *)

\* What holds of a set of elements if it holds of its proper subsets holds of all.
LEMMA SubsetInduction ==
  ASSUME NEW S, IsFiniteSet(S), NEW P,
         \A s \in SUBSET S : (\A u \in SUBSET s : u # s => u \in P) => s \in P
  PROVE  \A s \in SUBSET S : s \in P
<1> DEFINE C == {n \in Nat : \E s \in SUBSET S : Cardinality(s) = n /\ s \notin P}
<1>1. C = {}
  <2> SUFFICES ASSUME C # {} PROVE FALSE
    OBVIOUS
  <2>1. PICK m \in C : \A n \in C : m <= n
    BY LeastExists
  <2>2. PICK s \in SUBSET S : Cardinality(s) = m /\ s \notin P
    OBVIOUS
  <2>3. ASSUME NEW u \in SUBSET s, u # s
        PROVE  u \in P
    <3>1. IsFiniteSet(s)
      BY FS_Subset
    <3>2. Cardinality(u) \in Nat /\ Cardinality(u) <= m /\ Cardinality(u) # m
      BY <2>2, <2>3, <3>1, FS_Subset, FS_CardinalityType
    <3>3. ~(m <= Cardinality(u))
      BY <3>2
    <3> QED BY <2>1, <3>2, <3>3
  <2> QED BY <2>2, <2>3
<1>2. ASSUME NEW s \in SUBSET S
      PROVE  Cardinality(s) \in Nat
  BY FS_Subset, FS_CardinalityType
<1> QED BY <1>1, <1>2

LEMMA SubsetSum ==
  ASSUME NEW t, NEW S, IsFiniteSet(S), NEW T \in SUBSET S
  PROVE  CountsOf(t, T) = Sums(t, S)[T]
<1> DEFINE P == {s \in SUBSET T : Sums(t, S)[s] = Sums(t, T)[s]}
<1>1. IsFiniteSet(T)
  BY FS_Subset
<1>2. ASSUME NEW s \in SUBSET T, \A u \in SUBSET s : u # s => u \in P
      PROVE  s \in P
  <2>1. Sums(t, S)[s] = Sum(t, Sums(t, S), s) /\ Sums(t, T)[s] = Sum(t, Sums(t, T), s)
    BY <1>1, SumsRecursive
  <2>2. CASE s = {}
    BY <2>1, <2>2 DEF Sum
  <2>3. CASE s # {}
    <3>1. Taken(s) \in s
      BY <2>3 DEF Taken
    <3>2. s \ {Taken(s)} \in P
      BY <1>2, <3>1
    <3> QED BY <2>1, <3>2 DEF Sum
  <2> QED BY <2>2, <2>3
<1> HIDE DEF P
<1>3. T \in P
  BY <1>1, <1>2, SubsetInduction
<1> QED BY <1>3, CountsSum DEF P

LEMMA CountsTake ==
  ASSUME NEW t, NEW S, IsFiniteSet(S)
  PROVE  CountsOf(t, S) = IF S = {} THEN NoCounts
                          ELSE Add(t[Taken(S)], CountsOf(t, S \ {Taken(S)}))
<1>1. Sums(t, S)[S] = Sum(t, Sums(t, S), S)
  BY SumsRecursive
<1>2. CountsOf(t, S \ {Taken(S)}) = Sums(t, S)[S \ {Taken(S)}]
  BY SubsetSum
<1> QED BY <1>1, <1>2, CountsSum DEF Sum

LEMMA CountsType ==
  ASSUME NEW t, NEW S, IsFiniteSet(S), \A x \in S : t[x] \in Counts
  PROVE  CountsOf(t, S) \in Counts
<1> DEFINE P == {s \in SUBSET S : CountsOf(t, s) \in Counts}
<1>1. ASSUME NEW s \in SUBSET S, \A u \in SUBSET s : u # s => u \in P
      PROVE  s \in P
  <2>1. IsFiniteSet(s)
    BY FS_Subset
  <2>2. CountsOf(t, s) = IF s = {} THEN NoCounts
                         ELSE Add(t[Taken(s)], CountsOf(t, s \ {Taken(s)}))
    BY <2>1, CountsTake
  <2>3. CASE s = {}
    BY <2>2, <2>3 DEF NoCounts, Counts
  <2>4. CASE s # {}
    <3>1. Taken(s) \in s
      BY <2>4 DEF Taken
    <3>2. CountsOf(t, s \ {Taken(s)}) \in Counts
      BY <1>1, <3>1
    <3> QED BY <2>2, <2>4, <3>1, <3>2 DEF Add, Counts
  <2> QED BY <2>3, <2>4
<1> HIDE DEF P
<1>2. S \in P
  BY <1>1, SubsetInduction
<1> QED BY <1>2 DEF P

LEMMA AddLaws ==
  \A a, b, c \in Counts : Add(a, Add(b, c)) = Add(b, Add(a, c))
BY DEF Add, Counts

\* Whichever element comes first
LEMMA CountsRemove ==
  ASSUME NEW t, NEW S, IsFiniteSet(S), \A x \in S : t[x] \in Counts
  PROVE  \A x \in S : CountsOf(t, S) = Add(t[x], CountsOf(t, S \ {x}))
<1> DEFINE P == {s \in SUBSET S : \A x \in s : CountsOf(t, s) = Add(t[x], CountsOf(t, s \ {x}))}
<1>1. ASSUME NEW s \in SUBSET S, \A u \in SUBSET s : u # s => u \in P
      PROVE  s \in P
  <2> SUFFICES ASSUME NEW x \in s
               PROVE  CountsOf(t, s) = Add(t[x], CountsOf(t, s \ {x}))
    OBVIOUS
  <2> DEFINE y == Taken(s)
  <2>1. y \in s
    BY DEF Taken
  <2>2. IsFiniteSet(s)
    BY FS_Subset
  <2>3. CountsOf(t, s) = Add(t[y], CountsOf(t, s \ {y}))
    BY <2>2, CountsTake
  <2> HIDE DEF y
  <2>4. CASE x = y
    BY <2>3, <2>4
  <2>5. CASE x # y
    <3> DEFINE rest == CountsOf(t, s \ {x, y})
    <3>1. s \ {y} \in P /\ s \ {x} \in P
      BY <1>1, <2>1
    <3>2. x \in s \ {y} /\ y \in s \ {x}
      BY <2>1, <2>5
    <3>3. (s \ {y}) \ {x} = s \ {x, y} /\ (s \ {x}) \ {y} = s \ {x, y}
      OBVIOUS
    <3>4. CountsOf(t, s \ {y}) = Add(t[x], rest) /\ CountsOf(t, s \ {x}) = Add(t[y], rest)
      BY <3>1, <3>2, <3>3
    <3>5. rest \in Counts
      <4>1. IsFiniteSet(s \ {x, y})
        BY <2>2, FS_Subset
      <4> QED BY <4>1, CountsType
    <3>6. t[x] \in Counts /\ t[y] \in Counts
      BY <2>1
    <3> HIDE DEF rest
    <3>7. Add(t[y], Add(t[x], rest)) = Add(t[x], Add(t[y], rest))
      BY <3>5, <3>6, AddLaws
    <3> QED BY <2>3, <3>4, <3>7
  <2> QED BY <2>4, <2>5
<1> HIDE DEF P
<1>2. S \in P
  BY <1>1, SubsetInduction
<1> QED BY <1>2 DEF P

-----------------------------------------------------------------------------
(* The baselines of the weeks before *)

LEMMA ValidFinite ==
  ASSUME NEW h \in Histories, NEW seg, NEW W \in SUBSET Windows
  PROVE  /\ IsFiniteSet(Valid(h, seg, W))
         /\ \A x \in Valid(h, seg, W) : /\ seg \in DOMAIN h /\ h[seg][x[1]][x[2]] \in Counts
                                        /\ Total(h[seg][x[1]][x[2]]) >= MinVolume
<1>1. CASE seg \notin DOMAIN h
  BY <1>1, FS_EmptySet DEF Valid
<1>2. CASE seg \in DOMAIN h
  <2> DEFINE f == [w \in W |-> {w} \X DOMAIN h[seg][w]]
             T == {{w} \X DOMAIN h[seg][w] : w \in W}
  <2>1. h[seg] \in [Windows -> Seq(Counts)]
    BY <1>2, RootCauseAssumption DEF RootCauseAssumption, Counts
  <2>2. IsFiniteSet(W)
    BY WindowsFinite
  <2>3. f \in Surjection(W, T)
    BY DEF Surjection
  <2>4. IsFiniteSet(T)
    BY <2>2, <2>3, FS_Surjection
  <2>5. ASSUME NEW A \in T
        PROVE  IsFiniteSet(A)
    <3>1. PICK w \in W : A = {w} \X DOMAIN h[seg][w]
      OBVIOUS
    <3>2. h[seg][w] \in Seq(Counts)
      BY <2>1
    <3>3. DOMAIN h[seg][w] = 1 .. Len(h[seg][w]) /\ Len(h[seg][w]) \in Nat
      BY <3>2
    <3>4. IsFiniteSet(DOMAIN h[seg][w])
      BY <3>3, FS_Interval
    <3>5. IsFiniteSet({w})
      BY FS_Singleton
    <3> QED BY <3>1, <3>4, <3>5, FS_Product
  <2>6. IsFiniteSet(UNION T)
    BY <2>4, <2>5, FS_UNION
  <2>7. Valid(h, seg, W) = {x \in UNION T : Total(h[seg][x[1]][x[2]]) >= MinVolume}
    BY <1>2 DEF Valid
  <2>8. IsFiniteSet(Valid(h, seg, W))
    BY <2>6, <2>7, FS_Subset
  <2>9. ASSUME NEW x \in UNION T
        PROVE  h[seg][x[1]][x[2]] \in Counts
    <3>1. PICK w \in W : x \in {w} \X DOMAIN h[seg][w]
      OBVIOUS
    <3>2. x[1] = w /\ x[2] \in DOMAIN h[seg][w]
      BY <3>1
    <3>3. h[seg][w] \in Seq(Counts)
      BY <2>1
    <3> QED BY <3>2, <3>3
  <2> HIDE DEF T
  <2> QED BY <1>2, <2>7, <2>8, <2>9
<1> QED BY <1>1, <1>2

\* A baseline that suffices has volume.
LEMMA BaselineFits ==
  ASSUME NEW h \in Histories, NEW seg, NEW W \in SUBSET Windows, Sufficient(h, seg, W)
  PROVE  Baseline(h, seg, W) \in Counts /\ Total(Baseline(h, seg, W)) > 0
<1> DEFINE V == Valid(h, seg, W)
           t == [x \in V |-> h[seg][x[1]][x[2]]]
<1>1. IsFiniteSet(V) /\ \A x \in V : t[x] \in Counts /\ Total(t[x]) >= MinVolume
  BY ValidFinite
<1>2. V # {}
  <2>1. Cardinality({}) = 0 /\ MinWindows \in Nat \ {0}
    BY FS_EmptySet, DiagnosisAssumption DEF DiagnosisAssumption
  <2>2. Cardinality(V) >= MinWindows
    BY DEF Sufficient
  <2> HIDE DEF V
  <2> QED BY <2>1, <2>2
<1>3. Baseline(h, seg, W) = CountsOf(t, V)
  BY DEF Baseline
<1> HIDE DEF V, t
<1>4. PICK x \in V : TRUE
  BY <1>2
<1>5. CountsOf(t, V) = Add(t[x], CountsOf(t, V \ {x}))
  BY <1>1, CountsRemove
<1>6. CountsOf(t, V \ {x}) \in Counts
  <2>1. IsFiniteSet(V \ {x})
    BY <1>1, FS_Subset
  <2> QED BY <1>1, <2>1, CountsType
<1>7. t[x] \in Counts /\ Total(t[x]) > 0
  BY <1>1, DiagnosisAssumption DEF DiagnosisAssumption, Counts, Total
<1> QED BY <1>3, <1>5, <1>6, <1>7 DEF Add, Counts, Total

LEMMA TallySums ==
  ASSUME NEW t \in Tallies, NEW T \in SUBSET Profiles
  PROVE  CountsOf(t, T) \in Counts /\ Everything(t) \in Counts
<1>1. IsFiniteSet(Profiles) /\ \A p \in Profiles : t[p] \in Counts
  BY DiagnosisAssumption DEF DiagnosisAssumption, Tallies
<1>2. IsFiniteSet(T)
  BY <1>1, FS_Subset
<1> QED BY <1>1, <1>2, CountsType DEF Everything

IsFraction(x) == x.num \in Int /\ x.den \in Nat /\ x.den > 0

\* What exceeds a baseline with volume is a fraction.
LEMMA ExcessFits ==
  ASSUME NEW n \in Counts, NEW b \in Counts, Total(b) > 0
  PROVE  IsFraction(Excess(n, b))
<1>1. n.failed \in Nat /\ b.failed \in Nat /\ Total(n) \in Nat /\ Total(b) \in Nat
  BY DEF Counts, Total
<1>2. Excess(n, b).num = n.failed * Total(b) - Total(n) * b.failed
      /\ Excess(n, b).den = Total(b)
  BY DEF Excess
<1>3. n.failed * Total(b) \in Int /\ Total(n) * b.failed \in Int
  BY <1>1
<1> QED BY <1>1, <1>2, <1>3 DEF IsFraction

\* So is the denominator of all contributions, with a global baseline or without.
LEMMA TotalFits ==
  ASSUME NEW h \in Histories, NEW W \in SUBSET Windows, NEW t \in Tallies
  PROVE  IsFraction(TotalExcess(h, W, t))
<1> DEFINE global == <<"GLOBAL", "GLOBAL">>
<1>1. Everything(t) \in Counts
  BY TallySums
<1>2. CASE Sufficient(h, global, W)
  <2>1. Baseline(h, global, W) \in Counts /\ Total(Baseline(h, global, W)) > 0
    BY <1>2, BaselineFits
  <2>2. TotalExcess(h, W, t) = Excess(Everything(t), Baseline(h, global, W))
    BY <1>2 DEF TotalExcess
  <2> QED BY <1>1, <2>1, <2>2, ExcessFits
<1>3. CASE ~Sufficient(h, global, W)
  <2>1. TotalExcess(h, W, t) = [num |-> Everything(t).failed, den |-> 1]
    BY <1>3 DEF TotalExcess
  <2> QED BY <1>1, <2>1 DEF IsFraction, Counts
<1> QED BY <1>2, <1>3

\* A fraction of a positive one is a fraction.
LEMMA ContributionFits ==
  ASSUME NEW x, NEW y, IsFraction(x), IsFraction(y), y.num > 0
  PROVE  IsFraction(Contribution(x, y))
<1> DEFINE m == x.num
           a == x.den
           n == y.num
           b == y.den
<1>1. m \in Int /\ n \in Int /\ a \in Nat /\ b \in Nat /\ a > 0 /\ b > 0 /\ n > 0
  BY DEF IsFraction
<1>2. Contribution(x, y).num = m * b /\ Contribution(x, y).den = a * n
  BY DEF Contribution
<1> HIDE DEF m, n, a, b
<1>3. m * b \in Int /\ a * n \in Nat /\ a * n > 0
  BY <1>1
<1> QED BY <1>2, <1>3 DEF IsFraction

\* Where the failures exceed what was expected, a candidate is one of its segment, and its
\* share is a fraction.
LEMMA CandidateFits ==
  ASSUME NEW h \in Histories, NEW W \in SUBSET Windows, NEW t \in Tallies,
         TotalExcess(h, W, t).num > 0
  PROVE  /\ \A b, c \in Candidates(h, W, t) : b.segment = c.segment => b = c
         /\ \A c \in Candidates(h, W, t) :
              c.segment \in Segments /\ c.failed \in Nat /\ IsFraction(c.share)
<1> DEFINE total == TotalExcess(h, W, t)
           excess(seg) == Excess(Within(t, seg), Baseline(h, seg, W))
           share(seg) == Contribution(excess(seg), total)
           made(seg) == [segment |-> seg, share |-> share(seg), failed |-> Within(t, seg).failed,
                         strength |-> StrengthOf(share(seg), Within(t, seg).failed)]
<1>1. \A c \in Candidates(h, W, t) :
        c.segment \in Segments /\ Sufficient(h, c.segment, W) /\ c = made(c.segment)
  <2> TAKE c \in Candidates(h, W, t)
  <2>1. PICK seg \in Present(t) : Sufficient(h, seg, W) /\ c = made(seg)
    BY DEF Candidates
  <2>2. c.segment = seg
    BY <2>1
  <2> HIDE DEF made
  <2> QED BY <2>1, <2>2 DEF Present
<1>2. ASSUME NEW b \in Candidates(h, W, t), NEW c \in Candidates(h, W, t),
             b.segment = c.segment
      PROVE  b = c
  <2> HIDE DEF made
  <2> QED BY <1>1, <1>2
<1>3. ASSUME NEW c \in Candidates(h, W, t)
      PROVE  c.failed \in Nat /\ IsFraction(c.share)
  <2> DEFINE seg == c.segment
             n == Within(t, seg)
             b == Baseline(h, seg, W)
  <2>1. c.share = Contribution(Excess(n, b), total) /\ c.failed = n.failed
        /\ Sufficient(h, seg, W)
    BY <1>1
  <2>2. n \in Counts
    <3>1. {p \in Profiles : seg \in p} \in SUBSET Profiles
      OBVIOUS
    <3> HIDE DEF seg
    <3> QED BY <3>1, TallySums DEF Within
  <2>3. b \in Counts /\ Total(b) > 0
    BY <2>1, BaselineFits
  <2>4. IsFraction(total) /\ total.num > 0
    BY TotalFits
  <2> HIDE DEF seg, n, b, total
  <2>5. IsFraction(Excess(n, b))
    BY <2>2, <2>3, ExcessFits
  <2> QED BY <2>1, <2>2, <2>4, <2>5, ContributionFits DEF Counts
<1> QED BY <1>1, <1>2, <1>3

-----------------------------------------------------------------------------
(* The order of candidates *)

LEMMA CompareLaws ==
  ASSUME NEW x, NEW y, NEW z, IsFraction(x), IsFraction(y), IsFraction(z)
  PROVE  /\ Compare(x, y) \in Int /\ Compare(y, x) = 0 - Compare(x, y)
         /\ Compare(x, y) = 0 /\ Compare(y, z) = 0 => Compare(x, z) = 0
         /\ Compare(x, y) >= 0 /\ Compare(y, z) > 0 => Compare(x, z) > 0
         /\ Compare(x, y) > 0 /\ Compare(y, z) >= 0 => Compare(x, z) > 0
<1> DEFINE a == x.den
           b == y.den
           c == z.den
           P == Compare(x, y)
           Q == Compare(y, z)
           R == Compare(x, z)
<1>1. /\ a \in Nat /\ a > 0 /\ b \in Nat /\ b > 0 /\ c \in Nat /\ c > 0
      /\ x.num \in Int /\ y.num \in Int /\ z.num \in Int
  BY DEF IsFraction
<1>2. /\ P = x.num * b - y.num * a /\ Q = y.num * c - z.num * b /\ R = x.num * c - z.num * a
      /\ Compare(y, x) = y.num * a - x.num * b
  BY DEF Compare
<1> HIDE DEF a, b, c, P, Q, R
<1>3. /\ x.num * b \in Int /\ y.num * a \in Int /\ y.num * c \in Int /\ z.num * b \in Int
      /\ x.num * c \in Int /\ z.num * a \in Int
  BY <1>1
<1>4. P \in Int /\ Q \in Int /\ R \in Int /\ Compare(y, x) = 0 - P
  BY <1>2, <1>3
<1>5. b * R = c * P + a * Q
  <2>1. b * (x.num * c - z.num * a)
          = c * (x.num * b - y.num * a) + a * (y.num * c - z.num * b)
    BY <1>1
  <2> QED BY <1>2, <2>1
<1>6. \A k \in Nat, n \in Int : k > 0 => /\ n = 0 => k * n = 0
                                         /\ n > 0 => k * n > 0
                                         /\ n < 0 => k * n < 0
                                         /\ k * n \in Int
  OBVIOUS
<1>7. /\ P = 0 => c * P = 0
      /\ P > 0 => c * P > 0
      /\ Q = 0 => a * Q = 0
      /\ Q > 0 => a * Q > 0
      /\ R = 0 => b * R = 0
      /\ R < 0 => b * R < 0
      /\ R > 0 => b * R > 0
      /\ c * P \in Int /\ a * Q \in Int /\ b * R \in Int
  BY <1>1, <1>4, <1>6
<1>8. /\ P = 0 /\ Q = 0 => R = 0
      /\ P >= 0 /\ Q > 0 => R > 0
      /\ P > 0 /\ Q >= 0 => R > 0
  BY <1>4, <1>5, <1>7
<1> QED BY <1>4, <1>8 DEF P, Q, R

LEMMA Positions ==
  /\ \A s \in Segments : Position(s) \in Nat
  /\ \A s, t \in Segments : Position(s) = Position(t) => s = t
<1>1. DOMAIN Alphabetical \subseteq Nat
  <2>1. Alphabetical \in Seq(Segments)
    BY DiagnosisAssumption DEF DiagnosisAssumption
  <2>2. DOMAIN Alphabetical = 1 .. Len(Alphabetical) /\ Len(Alphabetical) \in Nat
    BY <2>1
  <2> QED BY <2>2
<1>2. ASSUME NEW s \in Segments
      PROVE  Position(s) \in DOMAIN Alphabetical /\ Alphabetical[Position(s)] = s
  <2>1. \E i \in DOMAIN Alphabetical : Alphabetical[i] = s
    BY DEF Segments, ToSet
  <2> QED BY <2>1, Zenon DEF Position
<1> QED BY <1>1, <1>2

\* Candidates as the sort key sees them
Sortable(C) ==
  /\ \A b \in C : b.segment \in Segments /\ b.failed \in Nat /\ IsFraction(b.share)
  /\ \A b, c \in C : b.segment = c.segment => b = c

LEMMA BeforeIsOrder ==
  ASSUME NEW C, Sortable(C)
  PROVE  /\ \A a \in C : ~Before(a, a)
         /\ \A a, b, c \in C : Before(a, b) /\ Before(b, c) => Before(a, c)
         /\ \A a, b \in C : a # b => Before(a, b) \/ Before(b, a)
<1>1. \A a \in C : /\ IsFraction(a.share) /\ a.failed \in Nat /\ Position(a.segment) \in Nat
  BY Positions DEF Sortable
<1>2. \A a, b \in C : Position(a.segment) = Position(b.segment) => a = b
  BY Positions DEF Sortable
<1>3. ASSUME NEW a \in C
      PROVE  ~Before(a, a)
  <2>1. Compare(a.share, a.share) \in Int /\ Compare(a.share, a.share) = 0 - Compare(a.share, a.share)
    BY <1>1, CompareLaws
  <2>2. Compare(a.share, a.share) = 0
    BY <2>1
  <2> QED BY <1>1, <2>2 DEF Before
<1>4. ASSUME NEW a \in C, NEW b \in C, NEW c \in C, Before(a, b), Before(b, c)
      PROVE  Before(a, c)
  <2> DEFINE P == Compare(a.share, b.share)
             Q == Compare(b.share, c.share)
             R == Compare(a.share, c.share)
  <2>1. /\ P \in Int /\ Q \in Int /\ P >= 0 /\ Q >= 0
        /\ P = 0 /\ Q = 0 => R = 0
        /\ P >= 0 /\ Q > 0 => R > 0
        /\ P > 0 /\ Q >= 0 => R > 0
    <3>1. P \in Int /\ Q \in Int
      BY <1>1, CompareLaws
    <3>2. P >= 0 /\ Q >= 0
      BY <1>4, <3>1 DEF Before
    <3>3. /\ P = 0 /\ Q = 0 => R = 0
          /\ P >= 0 /\ Q > 0 => R > 0
          /\ P > 0 /\ Q >= 0 => R > 0
      BY <1>1, CompareLaws
    <3> QED BY <3>1, <3>2, <3>3
  <2>2. CASE P > 0 \/ Q > 0
    BY <2>1, <2>2 DEF Before
  <2>3. CASE P = 0 /\ Q = 0
    <3>1. R = 0
      BY <2>1, <2>3
    <3>2. /\ \/ a.failed > b.failed
             \/ a.failed = b.failed /\ Position(a.segment) < Position(b.segment)
          /\ \/ b.failed > c.failed
             \/ b.failed = c.failed /\ Position(b.segment) < Position(c.segment)
      BY <1>4, <2>3 DEF Before
    <3>3. \/ a.failed > c.failed
          \/ a.failed = c.failed /\ Position(a.segment) < Position(c.segment)
      BY <1>1, <3>2
    <3> QED BY <3>1, <3>3 DEF Before
  <2> QED BY <2>1, <2>2, <2>3
<1>5. ASSUME NEW a \in C, NEW b \in C, a # b
      PROVE  Before(a, b) \/ Before(b, a)
  <2> DEFINE P == Compare(a.share, b.share)
             Q == Compare(b.share, a.share)
  <2>1. P \in Int /\ Q = 0 - P
    BY <1>1, CompareLaws
  <2>2. Position(a.segment) # Position(b.segment)
    BY <1>2, <1>5
  <2>3. CASE P # 0
    <3>1. P > 0 \/ Q > 0
      BY <2>1, <2>3
    <3> QED BY <3>1 DEF Before
  <2>4. CASE P = 0
    <3>1. Q = 0
      BY <2>1, <2>4
    <3>2. \/ a.failed > b.failed
          \/ b.failed > a.failed
          \/ a.failed = b.failed /\ Position(a.segment) < Position(b.segment)
          \/ b.failed = a.failed /\ Position(b.segment) < Position(a.segment)
      BY <1>1, <2>2
    <3> QED BY <2>4, <3>1, <3>2 DEF Before
  <2> QED BY <2>3, <2>4
<1> QED BY <1>3, <1>4, <1>5

\* Ranked lists the candidates, the first before the second and so on: each has as many
\* before it as its place says.
LEMMA RankedSorts ==
  ASSUME NEW C, IsFiniteSet(C), Sortable(C)
  PROVE  /\ ToSet(Ranked(C)) = C
         /\ \A i, j \in DOMAIN Ranked(C) : i < j => Before(Ranked(C)[i], Ranked(C)[j])
<1> DEFINE n == Cardinality(C)
           q == Ranked(C)
           ahead(c) == {b \in C : Before(b, c)}
           rank(c) == Cardinality(ahead(c))
           f == [c \in C |-> rank(c) + 1]
<1>1. n \in Nat
  BY FS_CardinalityType
<1>2. q = [i \in 1 .. n |-> CHOOSE c \in C : rank(c) = i - 1]
  BY DEF Ranked
<1> HIDE DEF n, q
<1>3. \A c \in C : IsFiniteSet(ahead(c)) /\ rank(c) \in Nat /\ rank(c) < n
  <2> TAKE c \in C
  <2>1. ahead(c) \in SUBSET (C \ {c})
    BY BeforeIsOrder
  <2>2. IsFiniteSet(C \ {c}) /\ Cardinality(C \ {c}) = n - 1
    BY FS_RemoveElement DEF n
  <2> HIDE DEF ahead
  <2>3. IsFiniteSet(ahead(c)) /\ rank(c) \in Nat /\ rank(c) <= n - 1
    BY <2>1, <2>2, FS_Subset, FS_CardinalityType
  <2> QED BY <1>1, <2>3
<1>4. \A b, c \in C : Before(b, c) => rank(b) < rank(c)
  <2> TAKE b, c \in C
  <2> HAVE Before(b, c)
  <2>1. ahead(b) \in SUBSET ahead(c)
    BY BeforeIsOrder
  <2>2. b \in ahead(c) /\ b \notin ahead(b)
    BY BeforeIsOrder
  <2>3. IsFiniteSet(ahead(c)) /\ rank(b) \in Nat /\ rank(c) \in Nat
    BY <1>3
  <2> HIDE DEF ahead
  <2>4. rank(b) <= rank(c) /\ rank(b) # rank(c)
    BY <2>1, <2>2, <2>3, FS_Subset
  <2> QED BY <2>3, <2>4
<1> HIDE DEF ahead
<1>5. \A b, c \in C : rank(b) = rank(c) => b = c
  <2> TAKE b, c \in C
  <2> HAVE rank(b) = rank(c)
  <2>1. ~Before(b, c) /\ ~Before(c, b)
    BY <1>3, <1>4
  <2> QED BY <2>1, BeforeIsOrder
<1> HIDE DEF rank
<1>6. f \in Injection(C, 1 .. n)
  <2>1. f \in [C -> 1 .. n]
    BY <1>1, <1>3
  <2>2. \A b, c \in C : f[b] = f[c] => b = c
    BY <1>3, <1>5
  <2> HIDE DEF f
  <2>3. IsInjective(f)
    BY <2>1, <2>2 DEF IsInjective
  <2> QED BY <2>1, <2>3 DEF Injection
<1>7. f \in Surjection(C, 1 .. n)
  <2>1. IsFiniteSet(1 .. n) /\ Cardinality(1 .. n) = IF 1 > n THEN 0 ELSE n - 1 + 1
    BY <1>1, FS_Interval
  <2>2. Cardinality(C) = Cardinality(1 .. n)
    BY <1>1, <2>1 DEF n
  <2> HIDE DEF f
  <2> QED BY <1>6, <2>1, <2>2, FS_Injection
<1>8. \A i \in 1 .. n : q[i] \in C /\ rank(q[i]) = i - 1
  <2> TAKE i \in 1 .. n
  <2>1. PICK c \in C : f[c] = i
    BY <1>7 DEF Surjection
  <2>2. rank(c) = i - 1
    BY <1>1, <1>3, <2>1
  <2>3. q[i] = CHOOSE b \in C : rank(b) = i - 1
    BY <1>2
  <2> QED BY <2>2, <2>3, Zenon
<1>9. DOMAIN q = 1 .. n
  BY <1>2
<1>10. ToSet(q) = C
  <2>1. ASSUME NEW c \in C
        PROVE  \E i \in 1 .. n : q[i] = c
    <3>1. PICK i \in 1 .. n : i = rank(c) + 1
      BY <1>1, <1>3
    <3>2. q[i] \in C /\ rank(q[i]) = rank(c)
      <4>1. q[i] \in C /\ rank(q[i]) = i - 1
        BY <1>8
      <4> QED BY <1>3, <3>1, <4>1
    <3> QED BY <1>5, <3>2
  <2> QED BY <1>8, <1>9, <2>1 DEF ToSet
<1>11. ASSUME NEW i \in 1 .. n, NEW j \in 1 .. n, i < j
       PROVE  Before(q[i], q[j])
  <2>1. q[i] \in C /\ q[j] \in C /\ rank(q[i]) < rank(q[j])
    BY <1>1, <1>8, <1>11
  <2>2. q[i] # q[j] /\ ~(rank(q[j]) < rank(q[i]))
    BY <1>3, <2>1
  <2>3. ~Before(q[j], q[i])
    BY <1>4, <2>1, <2>2
  <2> QED BY <2>1, <2>2, <2>3, BeforeIsOrder
<1> QED BY <1>9, <1>10, <1>11 DEF q

-----------------------------------------------------------------------------
(* The candidates of an evaluation *)

LEMMA CandidatesSortable ==
  ASSUME NEW h \in Histories, NEW W \in SUBSET Windows, NEW t \in Tallies,
         TotalExcess(h, W, t).num > 0
  PROVE  IsFiniteSet(Candidates(h, W, t)) /\ Sortable(Candidates(h, W, t))
<1> DEFINE C == Candidates(h, W, t)
           f == [c \in C |-> c.segment]
<1>1. Sortable(C)
  BY CandidateFits DEF Sortable
<1>2. IsFiniteSet(Segments)
  <2>1. Alphabetical \in Seq(Segments)
    BY DiagnosisAssumption DEF DiagnosisAssumption
  <2> DEFINE n == Len(Alphabetical)
  <2>2. n \in Nat /\ DOMAIN Alphabetical = 1 .. n /\ Alphabetical \in [1 .. n -> Segments]
    BY <2>1
  <2>3. Alphabetical \in Surjection(1 .. n, Segments)
    BY <2>2 DEF Surjection, Segments, ToSet
  <2>4. IsFiniteSet(1 .. n)
    BY <2>2, FS_Interval
  <2> QED BY <2>3, <2>4, FS_Surjection
<1> HIDE DEF C
<1>3. f \in Injection(C, Segments)
  <2>1. f \in [C -> Segments] /\ \A b, c \in C : f[b] = f[c] => b = c
    BY <1>1 DEF Sortable
  <2> HIDE DEF f
  <2>2. IsInjective(f)
    BY <2>1 DEF IsInjective
  <2> QED BY <2>1, <2>2 DEF Injection
<1> HIDE DEF f
<1>4. IsFiniteSet(C)
  BY <1>2, <1>3, FS_Injection
<1> QED BY <1>1, <1>4 DEF C

\* There is something to explain.
Explained(h, W, t) == ~TooFew(t) /\ TotalExcess(h, W, t).num > 0

\* What a diagnosis lists is the candidates of its input, the first before the second and
\* so on, where there is something to explain; else nothing.
LEMMA DiagnosisLists ==
  ASSUME NEW h \in Histories, NEW W \in SUBSET Windows, NEW t \in Tallies
  PROVE  LET q == Diagnose(h, W, t).candidates IN
         IF ~Explained(h, W, t) THEN q = <<>>
         ELSE /\ ToSet(q) = Candidates(h, W, t)
              /\ \A i, j \in DOMAIN q : i < j => Before(q[i], q[j])
<1> DEFINE C == Candidates(h, W, t)
           x == TotalExcess(h, W, t).num
<1>1. x \in Int
  BY TotalFits DEF IsFraction
<1>2. CASE ~Explained(h, W, t)
  <2>1. TooFew(t) \/ x <= 0
    BY <1>1, <1>2 DEF Explained
  <2>2. Diagnose(h, W, t) = Unknown
    BY <2>1 DEF Diagnose
  <2> QED BY <1>2, <2>2 DEF Unknown
<1>3. CASE Explained(h, W, t)
  <2>1. ~TooFew(t) /\ ~(x <= 0) /\ x > 0
    BY <1>1, <1>3 DEF Explained
  <2>2. Diagnose(h, W, t).candidates = Ranked(C)
    BY <2>1 DEF Diagnose
  <2>3. IsFiniteSet(C) /\ Sortable(C)
    BY <2>1, CandidatesSortable
  <2> HIDE DEF C
  <2>4. /\ ToSet(Ranked(C)) = C
        /\ \A i, j \in DOMAIN Ranked(C) : i < j => Before(Ranked(C)[i], Ranked(C)[j])
    BY <2>3, RankedSorts
  <2> QED BY <1>3, <2>2, <2>4 DEF C
<1> QED BY <1>2, <1>3

\* evaluate_episode's snapshots of the weeks before are among those assumed.
HistoryInv == history \in Histories

LEMMA HistoryFixed == Spec => []HistoryInv
<1>1. Init => HistoryInv
  BY DEF Init, HistoryInv
<1>2. HistoryInv /\ [Next]_vars => HistoryInv'
  BY PastFixed DEF Next, Step, vars, stage3, HistoryInv
<1> QED BY <1>1, <1>2, PTL DEF Spec

\* The candidates of each evaluation, with their tally and windows, in its order
LEMMA RowFits ==
  ASSUME EvidenceInv, HistoryInv, NEW r \in evaluations
  PROVE  /\ r.windows \in SUBSET Windows /\ r.tally \in Tallies
         /\ r.diagnosis = Diagnose(history, r.windows, r.tally)
<1>1. <<r.windows, r.tally>> \in Evidence
  BY DEF Evidence
<1>2. RowIs(r)
  BY DEF EvidenceInv
<1> DEFINE x == <<r.windows, r.tally>>
<1>3. x[1] = r.windows /\ x[2] = r.tally /\ x \in Evidence
  BY <1>1
<1> HIDE DEF x
<1>4. r.windows \subseteq Windows /\ r.tally \in Tallies
  BY <1>3 DEF EvidenceInv
<1> QED BY <1>2, <1>4 DEF RowIs

\* rank_candidates: an evaluation lists exactly the segments that qualify, each once, by
\* contribution, failures and name, where the failures are enough and exceed the expected
\* ones, whatever the denominator of the contributions; else none.
THEOREM CandidatesRanked ==
  Spec => [](\A r \in evaluations :
               LET q == r.diagnosis.candidates IN
               IF ~Explained(history, r.windows, r.tally) THEN q = <<>>
               ELSE /\ ToSet(q) = Candidates(history, r.windows, r.tally)
                    /\ \A i, j \in DOMAIN q : i < j => Before(q[i], q[j]))
<1>1. EvidenceInv /\ HistoryInv =>
        \A r \in evaluations :
          LET q == r.diagnosis.candidates IN
          IF ~Explained(history, r.windows, r.tally) THEN q = <<>>
          ELSE /\ ToSet(q) = Candidates(history, r.windows, r.tally)
               /\ \A i, j \in DOMAIN q : i < j => Before(q[i], q[j])
  <2> SUFFICES ASSUME EvidenceInv, HistoryInv, NEW r \in evaluations
               PROVE  LET q == r.diagnosis.candidates IN
                      IF ~Explained(history, r.windows, r.tally) THEN q = <<>>
                      ELSE /\ ToSet(q) = Candidates(history, r.windows, r.tally)
                           /\ \A i, j \in DOMAIN q : i < j => Before(q[i], q[j])
    OBVIOUS
  <2>1. /\ r.windows \in SUBSET Windows /\ r.tally \in Tallies
        /\ r.diagnosis = Diagnose(history, r.windows, r.tally)
        /\ history \in Histories
    BY RowFits DEF HistoryInv
  <2> QED BY <2>1, DiagnosisLists
<1> QED BY <1>1, EvidenceInductive, HistoryFixed, PTL
==============================================================================
