-------------------------- MODULE DegradationProofs ---------------------------
(***************************************************************************)
(* Theorems about Degradation.  The tasks of Stage 3 take no lock; what    *)
(* keeps the log of a window's evaluations dense is the unique key alone.  *)
(* A version in hand leaves no gap (NumberInv), because the log has only   *)
(* grown since it was read.  Who inserts it meets neither a committed row  *)
(* of the key nor, having waited, an uncommitted one, so that it is the    *)
(* next one and nobody else holds a signal of the window (NextInv), until  *)
(* it commits or fails.                                                    *)
(*                                                                         *)
(* The state machine meets the rules on any timeline of windows.  Having   *)
(* read the windows up to some w it agrees with the rules for those up to  *)
(* w (Agrees): HEALTHY, when every stretch so far is over or too short;    *)
(* BAD_PENDING, while it counts the stretch that lasts; DEGRADED or        *)
(* RECOVERY_PENDING, while the last episode is open, with the NORMAL       *)
(* windows since the last BAD one counted.  One more window changes the    *)
(* rules' answer as it changes the machine, and the log gives the replay   *)
(* one signal for each window, in the order of the windows.                *)
(*                                                                         *)
(* Without failures and overlaps (Calm) the tables converge.  The latest   *)
(* signal of a window is the evaluation of its events, unless a task of    *)
(* the window has yet to finish (EvaluatedInv); one that has begun since   *)
(* the last event has its counts in hand (HandInv); and the stored         *)
(* episodes, with what a task has yet to upsert, are those of the signals  *)
(* (EpisodesInv), because Compare invalidates whatever the replay has not  *)
(* found, and rows and plan have one row for each start (TableInv).        *)
(***************************************************************************)
EXTENDS Degradation, FiniteSetTheorems, FunctionTheorems, WellFoundedInduction, TLAPS

LogOf(w)    == {s \in signals : s.window = w}
Versions(w) == {s.version : s \in LogOf(w)}

Holding == {"replay", "compare", "upsert"}

Action(d) ==
  \/ Ingest(d) \/ ReadEvents(d) \/ SaveSnapshot(d)
  \/ SelectSnapshot(d) \/ NextVersion(d) \/ AppendSignal(d)
  \/ Replay(d) \/ Compare(d) \/ UpsertEpisode(d)
  \/ Commit(d) \/ Fail(d)

\* Types, as far as the proof needs them
TypeInv ==
  /\ pc \in [Deliveries -> Labels]
  /\ version \in [Deliveries -> Nat]
  /\ DOMAIN new = Deliveries
  /\ \A d \in Deliveries : new[d] = [signals |-> new[d].signals, episodes |-> new[d].episodes]

\* An uncommitted signal is the one its task has inserted.
HeldInv ==
  \A d \in Deliveries :
    IF pc[d] \in Holding
    THEN \E s : /\ new[d].signals = {s}
                /\ s.window = WindowOf[d] /\ s.version = version[d]
    ELSE new[d].signals = {}

\* The evaluations of a window are numbered from one, each once.
LogInv ==
  /\ \A w \in Windows : \E n \in Nat : Versions(w) = 1 .. n
  /\ \A s, t \in signals : s.window = t.window /\ s.version = t.version => s = t

\* The version that a task has in hand leaves no gap, ...
NumberInv ==
  \A d \in Deliveries : pc[d] = "append" =>
    version[d] > 0 /\ version[d] - 1 \in Versions(WindowOf[d]) \cup {0}

\* ... and that of an uncommitted signal is the next one, and nobody else's.
NextInv ==
  /\ \A d \in Deliveries : pc[d] \in Holding =>
       version[d] > 0 /\ Versions(WindowOf[d]) = 1 .. version[d] - 1
  /\ \A d, o \in Deliveries :
       pc[d] \in Holding /\ pc[o] \in Holding /\ WindowOf[d] = WindowOf[o] => d = o

SignalInv == TypeInv /\ HeldInv /\ LogInv /\ NumberInv /\ NextInv

-----------------------------------------------------------------------------

LEMMA MaxOfLog ==
  ASSUME NEW d \in Deliveries, NEW w, NEW n \in Nat, Versions(w) = 1 .. n,
         new[d].signals = {}
  PROVE  MaxVersion(d, w) = n
<1> DEFINE S == {0} \cup Versions(w)
<1>1. n \in S /\ S \subseteq Nat /\ \A y \in S : n >= y
  OBVIOUS
<1>2. Max(S) \in S /\ \A y \in S : Max(S) >= y
  BY <1>1 DEF Max
<1> HIDE DEF S
<1>3. n >= Max(S) /\ Max(S) >= n /\ Max(S) \in Nat
  BY <1>1, <1>2
<1>4. Max(S) = n
  BY <1>3
<1>5. MaxVersion(d, w) = Max(S)
  BY DEF S, MaxVersion, Versions, LogOf, ViewSignals
<1> QED
  BY <1>4, <1>5

\* A log whose versions are 1 .. n, each once, has n rows.
LEMMA LogSize ==
  ASSUME NEW w, NEW n \in Nat, Versions(w) = 1 .. n,
         \A s, t \in signals : s.window = t.window /\ s.version = t.version => s = t
  PROVE  Cardinality(LogOf(w)) = n
<1> DEFINE f == [i \in 1 .. n |-> CHOOSE s \in LogOf(w) : s.version = i]
<1>1. \A i \in 1 .. n : \E s \in LogOf(w) : s.version = i
  BY DEF Versions
<1>2. \A i \in 1 .. n : f[i] \in LogOf(w) /\ f[i].version = i
  BY <1>1
<1>3. \A s \in LogOf(w) : s.version \in 1 .. n
  BY DEF Versions
<1>4. \A s \in LogOf(w) : f[s.version] = s
  <2> TAKE s \in LogOf(w)
  <2>1. s.version \in 1 .. n
    BY <1>3
  <2>2. f[s.version] \in LogOf(w) /\ f[s.version].version = s.version
    BY <1>2, <2>1
  <2> HIDE DEF f
  <2> QED
    BY <2>2 DEF LogOf
<1>5. f \in [1 .. n -> LogOf(w)]
  BY <1>2
<1> HIDE DEF f
<1>6. f \in Bijection(1 .. n, LogOf(w))
  <2>1. \A i, j \in 1 .. n : f[i] = f[j] => i = j
    BY <1>2
  <2>2. \A s \in LogOf(w) : \E i \in 1 .. n : f[i] = s
    BY <1>3, <1>4
  <2> QED
    BY <1>5, <2>1, <2>2 DEF Bijection, Injection, Surjection, IsInjective
<1>7. ExistsBijection(1 .. n, LogOf(w))
  BY <1>6 DEF ExistsBijection
<1>8. IsFiniteSet(1 .. n) /\ Cardinality(1 .. n) = n
  BY FS_Interval
<1> QED
  BY <1>7, <1>8, FS_Bijection

\* A step changes its own task's variables only.
LEMMA Others ==
  ASSUME TypeInv, NEW d \in Deliveries, Action(d), NEW o \in Deliveries, o # d
  PROVE  pc'[o] = pc[o] /\ version'[o] = version[o] /\ new'[o] = new[o]
BY DEF TypeInv, Action, Ingest, ReadEvents, SaveSnapshot, SelectSnapshot, NextVersion,
       AppendSignal, Replay, Compare, UpsertEpisode, Commit, Fail, EndTask

LEMMA TypeStep ==
  ASSUME SignalInv, NEW d \in Deliveries, Action(d)
  PROVE  TypeInv'
<1> USE DEF SignalInv, TypeInv, Labels
<1>1. CASE Ingest(d)
  BY <1>1 DEF Ingest
<1>2. CASE ReadEvents(d)
  BY <1>2 DEF ReadEvents
<1>3. CASE SaveSnapshot(d)
  BY <1>3 DEF SaveSnapshot
<1>4. CASE SelectSnapshot(d)
  BY <1>4 DEF SelectSnapshot
<1>5. CASE NextVersion(d)
  <2>1. new[d].signals = {}
    BY <1>5 DEF NextVersion, HeldInv, Holding
  <2>2. WindowOf[d] \in Windows
    BY DegradationAssumption DEF DegradationAssumption
  <2>3. MaxVersion(d, WindowOf[d]) \in Nat
    BY <2>1, <2>2, MaxOfLog DEF LogInv
  <2> QED
    BY <1>5, <2>3 DEF NextVersion
<1>6. CASE AppendSignal(d)
  <2>1. CASE Taken(signals, d)
    <3>1. EndTask(d, "failed")
      BY <1>6, <2>1 DEF AppendSignal
    <3> QED
      BY <3>1 DEF EndTask, NoRows
  <2>2. CASE ~Taken(signals, d)
    <3>1. PICK s : s = new[d].signals \cup {SignalOf(WindowOf[d], read[d], version[d])}
      OBVIOUS
    <3>2. new' = [new EXCEPT ![d] = [signals |-> s, episodes |-> new[d].episodes]]
      BY <1>6, <2>2, <3>1 DEF AppendSignal
    <3> QED
      BY <1>6, <2>2, <3>2 DEF AppendSignal
  <2> QED
    BY <2>1, <2>2
<1>7. CASE Replay(d)
  BY <1>7 DEF Replay
<1>8. CASE Compare(d)
  BY <1>8 DEF Compare
<1>9. CASE UpsertEpisode(d)
  BY <1>9 DEF UpsertEpisode
<1>10. CASE Commit(d)
  BY <1>10 DEF Commit, EndTask, NoRows
<1>11. CASE Fail(d)
  BY <1>11 DEF Fail, EndTask, NoRows
<1> QED
  BY <1>1, <1>2, <1>3, <1>4, <1>5, <1>6, <1>7, <1>8, <1>9, <1>10, <1>11 DEF Action


LEMMA HeldStep ==
  ASSUME SignalInv, NEW d \in Deliveries, Action(d)
  PROVE  HeldInv'
<1> SUFFICES ASSUME NEW o \in Deliveries
             PROVE  IF pc'[o] \in Holding
                    THEN \E s : /\ new'[o].signals = {s}
                                /\ s.window = WindowOf[o] /\ s.version = version'[o]
                    ELSE new'[o].signals = {}
  BY DEF HeldInv
<1>1. CASE o # d
  BY <1>1, Others DEF SignalInv, HeldInv
<1> SUFFICES ASSUME o = d PROVE IF pc'[d] \in Holding
                    THEN \E s : /\ new'[d].signals = {s}
                                /\ s.window = WindowOf[d] /\ s.version = version'[d]
                    ELSE new'[d].signals = {}
  BY <1>1
<1> USE DEF SignalInv, TypeInv, HeldInv, Holding
<1>2. CASE Ingest(d) \/ ReadEvents(d) \/ SaveSnapshot(d) \/ SelectSnapshot(d) \/ NextVersion(d)
  BY <1>2 DEF Ingest, ReadEvents, SaveSnapshot, SelectSnapshot, NextVersion
<1>3. CASE AppendSignal(d) /\ Taken(signals, d)
  <2>1. EndTask(d, "failed")
    BY <1>3 DEF AppendSignal
  <2> QED
    BY <2>1 DEF EndTask, NoRows
<1>4. CASE AppendSignal(d) /\ ~Taken(signals, d)
  <2>1. PICK s : s = SignalOf(WindowOf[d], read[d], version[d])
    OBVIOUS
  <2>2. s.window = WindowOf[d] /\ s.version = version[d]
    BY <2>1 DEF SignalOf
  <2>3. new[d].signals = {}
    BY <1>4 DEF AppendSignal
  <2>4. pc'[d] = "replay" /\ version' = version /\ new'[d].signals = {s}
    BY <1>4, <2>1, <2>3 DEF AppendSignal
  <2> QED
    BY <2>2, <2>4
<1>5. CASE Replay(d) \/ Compare(d)
  BY <1>5 DEF Replay, Compare
<1>6. CASE UpsertEpisode(d)
  BY <1>6 DEF UpsertEpisode
<1>7. CASE Commit(d)
  BY <1>7 DEF Commit, EndTask, NoRows
<1>8. CASE Fail(d)
  BY <1>8 DEF Fail, EndTask, NoRows
<1> QED
  BY <1>2, <1>3, <1>4, <1>5, <1>6, <1>7, <1>8 DEF Action

\* Only a commit adds to the log, and what its task holds.
LEMMA LogGrows ==
  ASSUME SignalInv, NEW d \in Deliveries, Action(d)
  PROVE  \/ signals' = signals
         \/ /\ Commit(d) /\ pc[d] \in Holding /\ pc'[d] \notin Holding
            /\ \E s : signals' = signals \cup {s} /\ s.window = WindowOf[d] /\ s.version = version[d]
<1>1. CASE Commit(d)
  <2>1. pc[d] = "upsert" /\ signals' = signals \cup new[d].signals /\ pc'[d] = "done"
    BY <1>1 DEF Commit, ViewSignals, EndTask, SignalInv, TypeInv
  <2> QED
    BY <1>1, <2>1 DEF SignalInv, HeldInv, Holding
<1>2. CASE ~Commit(d)
  BY <1>2 DEF Action, Ingest, ReadEvents, SaveSnapshot, SelectSnapshot, NextVersion,
     AppendSignal, Replay, Compare, UpsertEpisode, Fail, tables
<1> QED
  BY <1>1, <1>2

\* A commit adds to one window's log the version behind its last.
LEMMA VersionsGrow ==
  ASSUME SignalInv, NEW d \in Deliveries, Action(d), signals' # signals
  PROVE  /\ pc[d] \in Holding /\ pc'[d] \notin Holding
         /\ version[d] \in Nat /\ version[d] > 0
         /\ Versions(WindowOf[d]) = 1 .. version[d] - 1
         /\ Versions(WindowOf[d])' = 1 .. version[d]
         /\ \A w : w # WindowOf[d] => Versions(w)' = Versions(w)
         /\ \A s, t \in signals' : s.window = t.window /\ s.version = t.version => s = t
<1>1. /\ pc[d] \in Holding /\ pc'[d] \notin Holding
      /\ \E s : signals' = signals \cup {s} /\ s.window = WindowOf[d] /\ s.version = version[d]
  BY LogGrows
<1>2. PICK s : signals' = signals \cup {s} /\ s.window = WindowOf[d] /\ s.version = version[d]
  BY <1>1
<1>3. /\ version[d] \in Nat /\ version[d] > 0
      /\ Versions(WindowOf[d]) = 1 .. version[d] - 1
  BY <1>1 DEF SignalInv, NextInv, TypeInv
<1>4. Versions(WindowOf[d])' = Versions(WindowOf[d]) \cup {version[d]}
  BY <1>2 DEF Versions, LogOf
<1>5. Versions(WindowOf[d])' = 1 .. version[d]
  BY <1>3, <1>4
<1>6. \A w : w # WindowOf[d] => Versions(w)' = Versions(w)
  BY <1>2 DEF Versions, LogOf
<1>7. \A t \in signals : t.window = WindowOf[d] => t.version \in 1 .. version[d] - 1
  BY <1>3 DEF Versions, LogOf
<1>8. \A t \in signals : t.window = WindowOf[d] => t.version # version[d]
  BY <1>3, <1>7
<1>9. \A x, y \in signals' : x.window = y.window /\ x.version = y.version => x = y
  BY <1>2, <1>8 DEF SignalInv, LogInv
<1> QED
  BY <1>1, <1>3, <1>5, <1>6, <1>9

LEMMA LogStep ==
  ASSUME SignalInv, NEW d \in Deliveries, Action(d)
  PROVE  LogInv'
<1>1. CASE signals' = signals
  BY <1>1 DEF SignalInv, LogInv, Versions, LogOf
<1>2. CASE signals' # signals
  BY <1>2, VersionsGrow DEF SignalInv, LogInv
<1> QED
  BY <1>1, <1>2

LEMMA NumberStep ==
  ASSUME SignalInv, NEW d \in Deliveries, Action(d)
  PROVE  NumberInv'
<1> SUFFICES ASSUME NEW o \in Deliveries, pc'[o] = "append"
             PROVE  version'[o] > 0 /\ version'[o] - 1 \in Versions(WindowOf[o])' \cup {0}
  BY DEF NumberInv
<1>1. CASE o = d
  <2>1. NextVersion(d)
    BY <1>1 DEF Action, Ingest, ReadEvents, SaveSnapshot, SelectSnapshot, AppendSignal,
       Replay, Compare, UpsertEpisode, Commit, Fail, EndTask, SignalInv, TypeInv
  <2>2. new[d].signals = {} /\ Versions(WindowOf[d])' = Versions(WindowOf[d])
    BY <2>1 DEF NextVersion, SignalInv, HeldInv, Holding, tables, Versions, LogOf
  <2>3. WindowOf[d] \in Windows
    BY DegradationAssumption DEF DegradationAssumption
  <2>4. PICK n \in Nat : Versions(WindowOf[d]) = 1 .. n
    BY <2>3 DEF SignalInv, LogInv
  <2>5. version'[d] = n + 1
    BY <2>1, <2>2, <2>4, MaxOfLog DEF NextVersion, SignalInv, TypeInv
  <2>6. n \in Versions(WindowOf[d]) \cup {0}
    BY <2>4
  <2> QED
    BY <1>1, <2>2, <2>5, <2>6
<1>2. CASE o # d
  <2>1. pc[o] = "append" /\ version'[o] = version[o]
    BY <1>2, Others DEF SignalInv
  <2>2. version[o] > 0 /\ version[o] - 1 \in Versions(WindowOf[o]) \cup {0}
    BY <2>1 DEF SignalInv, NumberInv
  <2>3. Versions(WindowOf[o]) \subseteq Versions(WindowOf[o])'
    <3>1. CASE signals' = signals
      BY <3>1 DEF Versions, LogOf
    <3>2. CASE signals' # signals /\ WindowOf[o] # WindowOf[d]
      BY <3>2, VersionsGrow
    <3>3. CASE signals' # signals /\ WindowOf[o] = WindowOf[d]
      <4>1. 1 .. version[d] - 1 \subseteq 1 .. version[d]
        BY <3>3, VersionsGrow
      <4>2. Versions(WindowOf[d]) \subseteq Versions(WindowOf[d])'
        BY <3>3, <4>1, VersionsGrow
      <4> QED
        BY <3>3, <4>2
    <3> QED
      BY <3>1, <3>2, <3>3
  <2> QED
    BY <2>1, <2>2, <2>3
<1> QED
  BY <1>1, <1>2

\* Whoever inserts meets neither a committed nor an uncommitted row of its key: its version
\* is the next one, and nobody else holds a signal of the window.
LEMMA Inserted ==
  ASSUME SignalInv, NEW d \in Deliveries, AppendSignal(d), ~Taken(signals, d)
  PROVE  /\ version[d] > 0 /\ Versions(WindowOf[d]) = 1 .. version[d] - 1
         /\ \A o \in Deliveries : pc[o] \in Holding => WindowOf[o] # WindowOf[d]
         /\ version' = version /\ signals' = signals
<1>1. /\ pc[d] = "append" /\ version' = version /\ signals' = signals
      /\ \A o \in Deliveries \ {d} : ~Taken(new[o].signals, d)
  BY DEF AppendSignal, tables
<1>2. WindowOf[d] \in Windows /\ version[d] \in Nat
  BY DegradationAssumption DEF DegradationAssumption, SignalInv, TypeInv
<1>3. PICK n \in Nat : Versions(WindowOf[d]) = 1 .. n
  BY <1>2 DEF SignalInv, LogInv
<1>4. version[d] > 0 /\ version[d] - 1 \in 0 .. n
  BY <1>1, <1>2, <1>3 DEF SignalInv, NumberInv
<1>5. version[d] \notin 1 .. n
  BY <1>3 DEF Taken, Versions, LogOf
<1>6. version[d] = n + 1
  BY <1>2, <1>4, <1>5
<1>7. Versions(WindowOf[d]) = 1 .. version[d] - 1
  BY <1>3, <1>6
<1>8. ASSUME NEW o \in Deliveries, pc[o] \in Holding, WindowOf[o] = WindowOf[d]
      PROVE  FALSE
  <2>1. o # d
    BY <1>1, <1>8 DEF Holding
  <2>2. version[o] \in Nat /\ version[o] > 0 /\ Versions(WindowOf[d]) = 1 .. version[o] - 1
    BY <1>8 DEF SignalInv, NextInv, TypeInv
  <2>3. version[o] = version[d]
    <3>1. 1 .. version[o] - 1 = 1 .. version[d] - 1
      BY <1>7, <2>2
    <3> QED
      BY <1>2, <1>4, <2>2, <3>1
  <2>4. \E s : new[o].signals = {s} /\ s.window = WindowOf[o] /\ s.version = version[o]
    BY <1>8 DEF SignalInv, HeldInv
  <2>5. Taken(new[o].signals, d)
    BY <1>8, <2>3, <2>4 DEF Taken
  <2> QED
    BY <1>1, <2>1, <2>5
<1> QED
  BY <1>1, <1>4, <1>7, <1>8

LEMMA NextStep ==
  ASSUME SignalInv, NEW d \in Deliveries, Action(d)
  PROVE  NextInv'
<1>1. CASE AppendSignal(d) /\ ~Taken(signals, d)
  <2>1. /\ version[d] > 0 /\ Versions(WindowOf[d]) = 1 .. version[d] - 1
        /\ \A o \in Deliveries : pc[o] \in Holding => WindowOf[o] # WindowOf[d]
        /\ version' = version /\ signals' = signals
    BY <1>1, Inserted
  <2>2. \A w : Versions(w)' = Versions(w)
    BY <2>1 DEF Versions, LogOf
  <2>3. \A o \in Deliveries : o # d => pc'[o] = pc[o]
    BY Others DEF SignalInv
  <2> QED
    BY <2>1, <2>2, <2>3 DEF SignalInv, NextInv
<1>2. CASE ~(AppendSignal(d) /\ ~Taken(signals, d))
  <2>1. pc'[d] \in Holding => pc[d] \in Holding /\ version'[d] = version[d]
    <3>1. CASE AppendSignal(d)
      <4>1. EndTask(d, "failed")
        BY <1>2, <3>1 DEF AppendSignal
      <4> QED
        BY <4>1 DEF EndTask, Holding, SignalInv, TypeInv
    <3>2. CASE ~AppendSignal(d)
      BY <3>2 DEF Action, Ingest, ReadEvents, SaveSnapshot, SelectSnapshot, NextVersion,
         Replay, Compare, UpsertEpisode, Commit, Fail, EndTask, SignalInv, TypeInv, Holding
    <3> QED
      BY <3>1, <3>2
  <2>2. \A o \in Deliveries : pc'[o] \in Holding => pc[o] \in Holding /\ version'[o] = version[o]
    BY <2>1, Others DEF SignalInv
  <2>3. \A o \in Deliveries :
          pc'[o] \in Holding => Versions(WindowOf[o])' = Versions(WindowOf[o])
    <3>1. CASE signals' = signals
      BY <3>1 DEF Versions, LogOf
    <3>2. CASE signals' # signals
      <4>1. \A o \in Deliveries : pc'[o] \in Holding => WindowOf[o] # WindowOf[d]
        BY <2>2, <3>2, VersionsGrow DEF SignalInv, NextInv
      <4> QED
        BY <3>2, <4>1, VersionsGrow
    <3> QED
      BY <3>1, <3>2
  <2> QED
    BY <2>2, <2>3 DEF SignalInv, NextInv
<1> QED
  BY <1>1, <1>2

LEMMA InitSignal == Init => SignalInv
<1> SUFFICES ASSUME Init PROVE SignalInv
  OBVIOUS
<1>1. TypeInv
  BY DEF Init, TypeInv, Labels, NoRows
<1>2. HeldInv /\ NumberInv /\ NextInv
  BY DEF Init, HeldInv, NumberInv, NextInv, Holding, NoRows
<1> DEFINE First(w) == SignalOf(w, counts[w], 1)
<1>3. signals = {First(w) : w \in 1 .. Past}
  BY DEF Init
<1>4. \A w : First(w).window = w /\ First(w).version = 1
  BY DEF SignalOf
<1> HIDE DEF First
<1>5. \A s, t \in signals : s.window = t.window /\ s.version = t.version => s = t
  BY <1>3, <1>4
<1>6. ASSUME NEW w \in Windows
      PROVE  \E n \in Nat : Versions(w) = 1 .. n
  <2>1. CASE w \in 1 .. Past
    <3>1. Versions(w) = {1}
      BY <1>3, <1>4, <2>1 DEF Versions, LogOf
    <3>2. {1} = 1 .. 1
      OBVIOUS
    <3> QED
      BY <3>1, <3>2
  <2>2. CASE w \notin 1 .. Past
    <3>1. Versions(w) = {}
      BY <1>3, <1>4, <2>2 DEF Versions, LogOf
    <3>2. {} = 1 .. 0
      OBVIOUS
    <3> QED
      BY <3>1, <3>2
  <2> QED
    BY <2>1, <2>2
<1> QED
  BY <1>1, <1>2, <1>5, <1>6 DEF SignalInv, LogInv

LEMMA SignalStutter == SignalInv /\ UNCHANGED vars => SignalInv'
BY DEF SignalInv, TypeInv, HeldInv, LogInv, NumberInv, NextInv, Versions, LogOf,
       vars, tables, task

\* Versions in hand and uncommitted signals fit the log of their window in every reachable
\* state.
THEOREM SignalInductive == Spec => []SignalInv
<1>1. SignalInv /\ [Next]_vars => SignalInv'
  <2>1. SignalInv /\ Next => SignalInv'
    <3> SUFFICES ASSUME SignalInv, NEW d \in Deliveries, Action(d) PROVE SignalInv'
      BY DEF Next, Action
    <3> QED
      BY TypeStep, HeldStep, LogStep, NumberStep, NextStep DEF SignalInv
  <2> QED
    BY <2>1, SignalStutter
<1> QED
  BY InitSignal, <1>1, PTL DEF Spec

\* Whatever tasks run at once or fail, the evaluations that evaluate_snapshot has committed
\* for a window are numbered 1, 2, ... without gap or tie, by the unique key alone.
THEOREM SignalLogAlwaysSound == Spec => []SignalLogSound
<1>1. SignalInv => SignalLogSound
  <2> SUFFICES ASSUME SignalInv, NEW w \in Windows
               PROVE  Versions(w) = 1 .. Cardinality(LogOf(w))
    BY DEF SignalLogSound, Versions, LogOf
  <2>1. PICK n \in Nat : Versions(w) = 1 .. n
    BY DEF SignalInv, LogInv
  <2>2. Cardinality(LogOf(w)) = n
    BY <2>1, LogSize DEF SignalInv, LogInv
  <2> QED
    BY <2>1, <2>2
<1> QED
  BY <1>1, SignalInductive, PTL

-----------------------------------------------------------------------------
(* The rules, as windows B that are BAD and N that are NORMAL grow by one  *)
(* later window.                                                           *)

\* The windows that end a recovery do not depend on the episode they end.
Ends(B, N) ==
  {w \in N : \E u \in 0..w : B \cap u..w = {} /\ Cardinality(N \cap u..w) >= Recovery}

IsWindows(B, N) == /\ B \subseteq Nat /\ N \subseteq Nat
                   /\ IsFiniteSet(B) /\ IsFiniteSet(N) /\ B \cap N = {}

\* Window w is later than all of B and N.
Later(B, N, w) == w \in Nat /\ (\A b \in B : b < w) /\ (\A n \in N : n < w)

\* With v begins a stretch of BAD windows.
Begins(B, N, v) == v \in B /\ \A u \in B : u < v => \E n \in N : u < n /\ n < v

LEMMA Thresholds == Required \in Nat /\ Recovery \in Nat /\ Required >= 2 /\ Recovery >= 2
BY DegradationAssumption DEF DegradationAssumption

LEMMA EndsAfter ==
  ASSUME NEW B, NEW N, IsWindows(B, N), NEW v \in B
  PROVE  Recoveries(B, N, v) = {w \in Ends(B, N) : v < w}
<1> USE DEF IsWindows
<1>1. ASSUME NEW w \in Recoveries(B, N, v)
      PROVE  w \in Ends(B, N) /\ v < w
  <2>1. PICK u \in v..w : B \cap u..w = {} /\ Cardinality(N \cap u..w) >= Recovery
    BY <1>1 DEF Recoveries
  <2>2. v \in Nat /\ w \in Nat /\ u \in 0..w /\ w \in N
    BY <1>1, <2>1 DEF Recoveries
  <2>3. v \notin u..w
    BY <2>1
  <2>4. v < w
    BY <2>2, <2>3
  <2>5. w \in Ends(B, N)
    BY <2>1, <2>2, Zenon DEF Ends
  <2> QED BY <2>4, <2>5
<1>2. ASSUME NEW w \in Ends(B, N), v < w
      PROVE  w \in Recoveries(B, N, v)
  <2>1. PICK u \in 0..w : B \cap u..w = {} /\ Cardinality(N \cap u..w) >= Recovery
    BY DEF Ends
  <2>2. v \in Nat /\ w \in Nat /\ w \in N
    BY DEF Ends
  <2>3. v \notin u..w
    BY <2>1
  <2>4. u \in v..w
    BY <1>2, <2>2, <2>3
  <2> QED BY <2>1, <2>2, <2>4 DEF Recoveries
<1> QED BY <1>1, <1>2

LEMMA EndsBad ==
  ASSUME NEW B, NEW N, IsWindows(B, N), NEW w, Later(B, N, w)
  PROVE  Ends(B \cup {w}, N) = Ends(B, N)
<1>1. \A r \in N : r \in Nat /\ r < w /\ w \in Nat
  BY DEF IsWindows, Later
<1>2. \A r \in N : \A u \in 0..r : (B \cup {w}) \cap u..r = B \cap u..r
  BY <1>1
<1>3. \A r : r \in Ends(B \cup {w}, N) <=> r \in Ends(B, N)
  BY <1>2, Zenon DEF Ends
<1> QED BY <1>3, Zenon

LEMMA EndsNormal ==
  ASSUME NEW B, NEW N, IsWindows(B, N), NEW w, Later(B, N, w)
  PROVE  \A r : r # w => (r \in Ends(B, N \cup {w}) <=> r \in Ends(B, N))
<1>1. \A r \in N : r \in Nat /\ r < w /\ w \in Nat
  BY DEF IsWindows, Later
<1>2. \A r \in N : \A u \in 0..r : (N \cup {w}) \cap u..r = N \cap u..r
  BY <1>1
<1>3. \A r : r # w => (r \in N \cup {w} <=> r \in N)
  OBVIOUS
<1> QED BY <1>2, <1>3, Zenon DEF Ends

\* A window ends a recovery when enough NORMAL windows follow the last BAD one.
LEMMA EndsTop ==
  ASSUME NEW B, NEW N, IsWindows(B, N), NEW w, Later(B, N, w),
         NEW last \in B, \A b \in B : b <= last
  PROVE  w \in Ends(B, N \cup {w}) <=> Cardinality({n \in N : last < n}) + 1 >= Recovery
<1> DEFINE M == {n \in N : last < n}
<1>1. last \in Nat /\ w \in Nat /\ last < w /\ w \notin N /\ N \subseteq Nat /\ B \subseteq Nat
  BY DEF IsWindows, Later
<1>2. IsFiniteSet(M) /\ Cardinality(M) \in Nat
  <2>1. M \in SUBSET N
    OBVIOUS
  <2> QED BY <2>1, FS_Subset, FS_CardinalityType DEF IsWindows
<1>3. IsFiniteSet(M \cup {w}) /\ Cardinality(M \cup {w}) = Cardinality(M) + 1
  BY <1>1, <1>2, FS_AddElement
<1>4. ASSUME NEW u \in 0..w, B \cap u..w = {}, Cardinality((N \cup {w}) \cap u..w) >= Recovery
      PROVE  Cardinality(M) + 1 >= Recovery
  <2>1. last \notin u..w
    BY <1>4
  <2>2. last < u
    BY <1>1, <2>1
  <2>3. (N \cup {w}) \cap u..w \in SUBSET (M \cup {w})
    BY <1>1, <2>2
  <2>4. Cardinality((N \cup {w}) \cap u..w) <= Cardinality(M \cup {w})
    BY <1>3, <2>3, FS_Subset
  <2>5. Cardinality((N \cup {w}) \cap u..w) \in Nat
    BY <1>3, <2>3, FS_Subset, FS_CardinalityType
  <2> HIDE DEF M
  <2> QED BY <1>2, <1>3, <1>4, <2>4, <2>5, Thresholds
<1>5. /\ last + 1 \in 0..w
      /\ B \cap (last + 1)..w = {}
      /\ (N \cup {w}) \cap (last + 1)..w = M \cup {w}
  <2>1. last + 1 \in 0..w
    BY <1>1
  <2>2. B \cap (last + 1)..w = {}
    BY <1>1
  <2>3. \A n \in N : n < w
    BY DEF Later
  <2>4. \A n : n \in (N \cup {w}) \cap (last + 1)..w <=> n \in M \cup {w}
    <3>1. \A n \in N \cup {w} : n \in Nat /\ n <= w
      BY <1>1, <2>3
    <3>2. \A n \in N \cup {w} : n \in (last + 1)..w <=> last < n
      BY <1>1, <3>1
    <3> QED BY <1>1, <3>2
  <2> HIDE DEF M
  <2> QED BY <2>1, <2>2, <2>4
<1>6. w \in Ends(B, N \cup {w}) <=>
        \E u \in 0..w : B \cap u..w = {} /\ Cardinality((N \cup {w}) \cap u..w) >= Recovery
  BY DEF Ends
<1>7. Cardinality(M) + 1 >= Recovery =>
        \E u \in 0..w : B \cap u..w = {} /\ Cardinality((N \cup {w}) \cap u..w) >= Recovery
  <2> HIDE DEF M
  <2> QED BY <1>3, <1>5, Zenon
<1> QED BY <1>4, <1>6, <1>7, Zenon

LEMMA RunsNormal ==
  ASSUME NEW B, NEW N, IsWindows(B, N), NEW w, Later(B, N, w)
  PROVE  \A v : StartsRun(B, N \cup {w}, v) <=> StartsRun(B, N, v)
<1>1. \A b \in B : b \in Nat /\ b < w /\ w \in Nat
  BY DEF IsWindows, Later
<1>2. \A v, b \in B : (N \cup {w}) \cap v..b = N \cap v..b
  BY <1>1
<1>3. ASSUME NEW v \in B, NEW u \in B
      PROVE  (\E n \in N \cup {w} : u < n /\ n < v) <=> (\E n \in N : u < n /\ n < v)
  BY <1>1
<1> QED BY <1>2, <1>3, Zenon DEF StartsRun

LEMMA RunsBad ==
  ASSUME NEW B, NEW N, IsWindows(B, N), NEW w, Later(B, N, w), NEW v
  PROVE  StartsRun(B \cup {w}, N, v) <=>
           \/ StartsRun(B, N, v)
           \/ /\ Begins(B, N, v) /\ \A n \in N : n < v
              /\ Cardinality({b \in B : v <= b}) + 1 >= Required
<1>1. \A b \in B : b \in Nat /\ b < w /\ w \in Nat
  BY DEF IsWindows, Later
<1>2. w \in Nat /\ w \notin B /\ N \subseteq Nat /\ B \subseteq Nat /\ \A n \in N : n < w
  BY DEF IsWindows, Later
<1>3. \A x, b \in B : (B \cup {w}) \cap x..b = B \cap x..b
  BY <1>1
<1>4. CASE v = w
  <2>1. ASSUME NEW b \in B \cup {w}, Cardinality((B \cup {w}) \cap v..b) >= Required
        PROVE  FALSE
    <3>1. (B \cup {w}) \cap v..b \in SUBSET {w}
      BY <1>1, <1>4
    <3>2. /\ Cardinality((B \cup {w}) \cap v..b) <= 1
          /\ Cardinality((B \cup {w}) \cap v..b) \in Nat
      <4>1. IsFiniteSet({w}) /\ Cardinality({w}) = 1
        BY FS_Singleton
      <4> QED BY <3>1, <4>1, FS_Subset, FS_CardinalityType
    <3> QED BY <2>1, <3>2, Thresholds
  <2>2. ~StartsRun(B \cup {w}, N, v)
    BY <2>1 DEF StartsRun
  <2>3. ~StartsRun(B, N, v) /\ ~Begins(B, N, v)
    BY <1>2, <1>4 DEF StartsRun, Begins
  <2> QED BY <2>2, <2>3
<1>5. CASE v # w /\ v \notin B
  BY <1>5 DEF StartsRun, Begins
<1>6. CASE v \in B
  <2>1. Begins(B \cup {w}, N, v) <=> Begins(B, N, v)
    BY <1>1, <1>6 DEF Begins
  <2>2. (B \cup {w}) \cap v..w = {b \in B : v <= b} \cup {w}
    <3>1. \A b \in B \cup {w} : b \in v..w <=> v <= b
      BY <1>1, <1>2, <1>6
    <3>2. v <= w
      BY <1>1, <1>6
    <3> QED BY <3>1, <3>2
  <2>3. Cardinality((B \cup {w}) \cap v..w) = Cardinality({b \in B : v <= b}) + 1
    <3>1. {b \in B : v <= b} \in SUBSET B
      OBVIOUS
    <3>2. IsFiniteSet({b \in B : v <= b})
      BY <3>1, FS_Subset DEF IsWindows
    <3> QED BY <1>2, <2>2, <3>2, FS_AddElement
  <2>4. N \cap v..w = {} <=> \A n \in N : n < v
    BY <1>1, <1>2, <1>6
  <2> DEFINE L(b) == N \cap v..b = {} /\ Cardinality((B \cup {w}) \cap v..b) >= Required
             K(b) == N \cap v..b = {} /\ Cardinality(B \cap v..b) >= Required
  <2>5. \A b \in B : L(b) <=> K(b)
    <3>1. \A b \in B : (B \cup {w}) \cap v..b = B \cap v..b
      BY <1>3, <1>6
    <3> QED BY <3>1, Zenon
  <2>6. L(w) <=> (\A n \in N : n < v) /\ Cardinality({b \in B : v <= b}) + 1 >= Required
    BY <2>3, <2>4
  <2>7. StartsRun(B \cup {w}, N, v) <=> Begins(B, N, v) /\ \E b \in B \cup {w} : L(b)
    BY <2>1 DEF StartsRun, Begins
  <2>8. StartsRun(B, N, v) <=> Begins(B, N, v) /\ \E b \in B : K(b)
    BY DEF StartsRun, Begins
  <2> HIDE DEF L, K
  <2> QED BY <2>5, <2>6, <2>7, <2>8
<1> QED BY <1>4, <1>5, <1>6

LEMMA StartsAre ==
  ASSUME NEW B, NEW N, IsWindows(B, N)
  PROVE  \A v : v \in Starts(B, N) <=>
           /\ StartsRun(B, N, v)
           /\ \A u \in B : u < v /\ StartsRun(B, N, u) => \E r \in Ends(B, N) : u < r /\ r < v
<1>1. \A u \in B : Recoveries(B, N, u) = {w \in Ends(B, N) : u < w}
  BY EndsAfter
<1>2. \A v : StartsRun(B, N, v) => v \in B
  BY DEF StartsRun
<1>3. \A v : \A u \in B : (\E r \in Recoveries(B, N, u) : r < v)
                        <=> (\E r \in Ends(B, N) : u < r /\ r < v)
  BY <1>1
<1> QED BY <1>2, <1>3 DEF Starts

LEMMA StartsNormal ==
  ASSUME NEW B, NEW N, IsWindows(B, N), NEW w, Later(B, N, w), IsWindows(B, N \cup {w})
  PROVE  Starts(B, N \cup {w}) = Starts(B, N)
<1>1. \A v : StartsRun(B, N \cup {w}, v) <=> StartsRun(B, N, v)
  BY RunsNormal
<1>2. \A r : r # w => (r \in Ends(B, N \cup {w}) <=> r \in Ends(B, N))
  BY EndsNormal
<1>3. \A v \in B : v \in Nat /\ v < w /\ w \in Nat
  BY DEF IsWindows, Later
<1>4. w \notin Ends(B, N)
  BY <1>3 DEF Ends, Later
<1>5. \A v \in B : \A u \in B : (\E r \in Ends(B, N \cup {w}) : u < r /\ r < v)
                                  <=> (\E r \in Ends(B, N) : u < r /\ r < v)
  BY <1>2, <1>3, <1>4
<1>6. \A v : StartsRun(B, N, v) => v \in B
  BY DEF StartsRun
<1>7. \A v : v \in Starts(B, N \cup {w}) <=>
           /\ StartsRun(B, N \cup {w}, v)
           /\ \A u \in B : u < v /\ StartsRun(B, N \cup {w}, u) =>
                \E r \in Ends(B, N \cup {w}) : u < r /\ r < v
  BY StartsAre
<1>8. \A v : v \in Starts(B, N) <=>
           /\ StartsRun(B, N, v)
           /\ \A u \in B : u < v /\ StartsRun(B, N, u) => \E r \in Ends(B, N) : u < r /\ r < v
  BY StartsAre
<1> QED BY <1>1, <1>5, <1>6, <1>7, <1>8

-----------------------------------------------------------------------------
(* A timeline, as it grows by one later signal.                            *)

\* One signal for each of some windows
IsTimeline(S) ==
  /\ \A s \in S : s.window \in Windows /\ s.severity \in 1..3
  /\ \A s, t \in S : s.window = t.window => s = t

Bads(S)  == OfType(S, "BAD")
Norms(S) == OfType(S, "NORMAL")

\* Signal s is of a later window than those of S.
Follows(S, s) ==
  /\ IsTimeline(S) /\ s.window \in Windows /\ s.severity \in 1..3
  /\ \A x \in S : x.window < s.window

LEMMA TimelineWindows ==
  ASSUME NEW S, IsTimeline(S)
  PROVE  IsWindows(Bads(S), Norms(S))
<1>1. LastWindow \in Nat
  BY DegradationAssumption DEF DegradationAssumption
<1>2. Bads(S) \in SUBSET Windows /\ Norms(S) \in SUBSET Windows
  BY DEF IsTimeline, Bads, Norms, OfType
<1>3. IsFiniteSet(Windows) /\ Windows \subseteq Nat
  BY <1>1, FS_Interval DEF Windows
<1>4. IsFiniteSet(Bads(S)) /\ IsFiniteSet(Norms(S))
  BY <1>2, <1>3, FS_Subset
<1>5. Bads(S) \cap Norms(S) = {}
  BY DEF IsTimeline, Bads, Norms, OfType
<1> QED BY <1>2, <1>3, <1>4, <1>5 DEF IsWindows

LEMMA TimelineGrows ==
  ASSUME NEW S, NEW s, Follows(S, s)
  PROVE  /\ IsTimeline(S \cup {s}) /\ s.window \in Nat
         /\ Later(Bads(S), Norms(S), s.window)
         /\ Bads(S \cup {s}) = IF s.type = "BAD" THEN Bads(S) \cup {s.window} ELSE Bads(S)
         /\ Norms(S \cup {s}) = IF s.type = "NORMAL" THEN Norms(S) \cup {s.window} ELSE Norms(S)
<1>1. Windows \subseteq Nat
  BY DegradationAssumption DEF DegradationAssumption, Windows
<1>2. \A x \in S \cup {s} : x.window \in Nat
  BY <1>1 DEF Follows, IsTimeline
<1>3. IsTimeline(S \cup {s})
  <2>1. \A x \in S : x.window # s.window
    BY <1>2 DEF Follows
  <2> QED BY <2>1 DEF Follows, IsTimeline
<1>4. Later(Bads(S), Norms(S), s.window)
  BY <1>2 DEF Follows, Later, Bads, Norms, OfType
<1>5. Bads(S \cup {s}) = IF s.type = "BAD" THEN Bads(S) \cup {s.window} ELSE Bads(S)
  BY DEF Bads, OfType
<1>6. Norms(S \cup {s}) = IF s.type = "NORMAL" THEN Norms(S) \cup {s.window} ELSE Norms(S)
  BY DEF Norms, OfType
<1> QED BY <1>2, <1>3, <1>4, <1>5, <1>6

\* EpisodeAt, by its parts
Affected(B, R, v)  == {b \in B : v <= b /\ (R # {} => b <= Min(R))}
Severities(S, A)   == {s.severity : s \in {x \in S : x.type = "BAD" /\ x.window \in A}}
EpisodeOf(S, R, A, v) ==
  [start |-> v, status |-> IF R = {} THEN "ACTIVE" ELSE "RECOVERED",
   ended |-> IF R = {} THEN 0 ELSE Max(A), count |-> Cardinality(A),
   severity |-> Max(Severities(S, A))]
From(B, v) == {b \in B : v <= b}

LEMMA EpisodeParts ==
  ASSUME NEW S, NEW B, NEW N, NEW v
  PROVE  EpisodeAt(S, B, N, v) =
           EpisodeOf(S, Recoveries(B, N, v), Affected(B, Recoveries(B, N, v), v), v)
BY DEF EpisodeAt, EpisodeOf, Affected, Severities

LEMMA MinIs ==
  ASSUME NEW X \in SUBSET Nat, NEW m \in X, \A x \in X : m <= x
  PROVE  Min(X) = m
<1>1. Min(X) \in X /\ \A x \in X : Min(X) <= x
  BY DEF Min
<1>2. Min(X) <= m /\ m <= Min(X) /\ Min(X) \in Nat /\ m \in Nat
  BY <1>1
<1> QED BY <1>2

LEMMA MaxIs ==
  ASSUME NEW X \in SUBSET Nat, NEW m \in X, \A x \in X : x <= m
  PROVE  Max(X) = m
<1>1. Max(X) \in X /\ \A x \in X : Max(X) >= x
  <2>1. \A x \in X : m >= x
    OBVIOUS
  <2> QED BY <2>1 DEF Max
<1>2. Max(X) >= m /\ Max(X) <= m /\ Max(X) \in Nat /\ m \in Nat
  BY <1>1
<1> QED BY <1>2

LEMMA LeastWindow ==
  ASSUME NEW X \in SUBSET Nat, X # {}
  PROVE  Min(X) \in X /\ \A x \in X : Min(X) <= x
<1>1. PICK m \in X : \A n \in X : ~(<<n, m>> \in OpToRel(<, Nat))
  <2> HIDE DEF OpToRel
  <2>1. X \subseteq Nat
    OBVIOUS
  <2> QED BY <2>1, NatLessThanWellFounded, WFMin, Zenon
<1>2. \A n \in X : ~(n < m)
  BY <1>1 DEF OpToRel
<1>3. \A n \in X : m <= n
  BY <1>2
<1>4. Min(X) = m
  BY <1>3, MinIs
<1> QED BY <1>3, <1>4

\* An episode whose recovery is known stays what it is.
LEMMA ClosedStays ==
  ASSUME NEW S, NEW s, Follows(S, s), NEW v \in Bads(S),
         NEW e \in Ends(Bads(S), Norms(S)), v < e
  PROVE  EpisodeAt(S \cup {s}, Bads(S \cup {s}), Norms(S \cup {s}), v)
           = EpisodeAt(S, Bads(S), Norms(S), v)
<1> DEFINE B == Bads(S)  N == Norms(S)  w == s.window
           T == S \cup {s}  C == Bads(S \cup {s})  M == Norms(S \cup {s})
           R == Recoveries(B, N, v)
           Q == Recoveries(C, M, v)
<1>1. /\ IsTimeline(T) /\ w \in Nat /\ Later(B, N, w)
      /\ C = IF s.type = "BAD" THEN B \cup {w} ELSE B
      /\ M = IF s.type = "NORMAL" THEN N \cup {w} ELSE N
  BY TimelineGrows
<1>2. IsWindows(B, N) /\ IsWindows(C, M)
  <2>1. IsTimeline(S)
    BY DEF Follows
  <2> QED BY <1>1, <2>1, TimelineWindows
<1>3. v \in B /\ v \in C /\ B \subseteq Nat /\ N \subseteq Nat /\ w \in Nat
  BY <1>1, <1>2 DEF IsWindows
<1>4. e \in Ends(B, N)
  OBVIOUS
<1>5. \A x \in S : x.window # w
  <2>1. Windows \subseteq Nat
    BY DegradationAssumption DEF DegradationAssumption, Windows
  <2>2. \A x \in S : x.window \in Nat /\ x.window < w
    BY <2>1 DEF Follows, IsTimeline
  <2> HIDE DEF w
  <2> QED BY <1>1, <2>2
<1>6. T = S \cup {s}
  OBVIOUS
<1> HIDE DEF B, N, w, T, C, M
<1>7. R = {x \in Ends(B, N) : v < x} /\ Q = {x \in Ends(C, M) : v < x}
  BY <1>2, <1>3, EndsAfter
<1>8. \A r : r # w => (r \in Ends(C, M) <=> r \in Ends(B, N))
  <2>1. CASE C = B /\ M = N
    BY <2>1
  <2>2. CASE C = B \cup {w} /\ M = N
    BY <1>1, <1>2, <2>2, EndsBad
  <2>3. CASE C = B /\ M = N \cup {w}
    BY <1>1, <1>2, <2>3, EndsNormal
  <2>4. ~(s.type = "BAD" /\ s.type = "NORMAL")
    OBVIOUS
  <2> QED BY <1>1, <2>1, <2>2, <2>3, <2>4
<1>9. \A r \in Ends(B, N) : r \in N /\ r < w /\ r \in Nat
  BY <1>1, <1>3 DEF Ends, Later
<1> HIDE DEF R, Q
<1>10. R # {} /\ R \subseteq Nat
  BY <1>4, <1>7, <1>9
<1>11. Min(R) \in R /\ \A x \in R : Min(R) <= x
  BY <1>10, LeastWindow
<1>12. Min(R) < w /\ Min(R) \in Nat /\ Min(R) \in Q
  BY <1>7, <1>8, <1>9, <1>11
<1>13. \A x \in Q : x \in Nat /\ Min(R) <= x
  BY <1>3, <1>7, <1>8, <1>9, <1>11, <1>12
<1>14. Min(Q) = Min(R) /\ Q # {}
  BY <1>12, <1>13, MinIs
<1>15. Affected(C, Q, v) = Affected(B, R, v)
  <2>1. ~(w <= Min(R))
    BY <1>3, <1>12
  <2>2. \A b : b # w => (b \in C <=> b \in B)
    BY <1>1
  <2>3. w \notin B
    BY <1>1, <1>3 DEF Later
  <2> QED BY <1>10, <1>14, <2>1, <2>2, <2>3 DEF Affected
<1>16. w \notin Affected(B, R, v)
  BY <1>1, <1>3 DEF Affected, Later
<1> DEFINE A == Affected(B, R, v)
<1>17. Severities(T, A) = Severities(S, A)
  <2> HIDE DEF A
  <2>1. s.window = w
    BY DEF w
  <2>2. {x \in T : x.type = "BAD" /\ x.window \in A} = {x \in S : x.type = "BAD" /\ x.window \in A}
    BY <1>6, <1>16, <2>1 DEF A
  <2> QED BY <2>2, Zenon DEF Severities
<1>18. EpisodeOf(T, Q, A, v) = EpisodeOf(S, R, A, v)
  <2> HIDE DEF A
  <2> QED BY <1>10, <1>14, <1>17, Zenon DEF EpisodeOf
<1>19. EpisodeAt(T, C, M, v) = EpisodeOf(T, Q, Affected(C, Q, v), v)
  BY EpisodeParts DEF Q
<1>20. EpisodeAt(S, B, N, v) = EpisodeOf(S, R, Affected(B, R, v), v)
  BY EpisodeParts DEF R
<1>21. EpisodeAt(T, C, M, v) = EpisodeAt(S, B, N, v)
  BY <1>15, <1>18, <1>19, <1>20, Zenon DEF A
<1> QED BY <1>21 DEF T, C, M, B, N

\* The episode of a start that no recovery follows counts all later BAD windows.
LEMMA OpenEpisode ==
  ASSUME NEW S, IsTimeline(S), NEW v \in Bads(S),
         \A e \in Ends(Bads(S), Norms(S)) : ~(v < e)
  PROVE  EpisodeAt(S, Bads(S), Norms(S), v) =
           Episode(v, Cardinality(From(Bads(S), v)), Max(Severities(S, From(Bads(S), v))))
<1>1. IsWindows(Bads(S), Norms(S))
  BY TimelineWindows
<1>2. Recoveries(Bads(S), Norms(S), v) = {}
  BY <1>1, EndsAfter
<1>3. Affected(Bads(S), {}, v) = From(Bads(S), v)
  BY DEF Affected, From
<1>4. EpisodeAt(S, Bads(S), Norms(S), v) = EpisodeOf(S, {}, From(Bads(S), v), v)
  BY <1>2, <1>3, EpisodeParts, Zenon
<1> QED BY <1>4 DEF EpisodeOf, Episode

\* When its recovery is the latest window, too; and it ended with the last of them.
LEMMA RecoveredEpisode ==
  ASSUME NEW S, IsTimeline(S), NEW v \in Bads(S),
         NEW w \in Ends(Bads(S), Norms(S)), \A e \in Ends(Bads(S), Norms(S)) : v < e => e = w,
         NEW last \in Bads(S), \A b \in Bads(S) : b <= last, last < w
  PROVE  EpisodeAt(S, Bads(S), Norms(S), v) =
           [start |-> v, status |-> "RECOVERED", ended |-> last,
            count |-> Cardinality(From(Bads(S), v)),
            severity |-> Max(Severities(S, From(Bads(S), v)))]
<1> DEFINE B == Bads(S)  N == Norms(S)
<1>1. IsWindows(B, N)
  BY TimelineWindows
<1>2. Recoveries(B, N, v) = {e \in Ends(B, N) : v < e}
  BY <1>1, EndsAfter
<1>3. B \subseteq Nat /\ N \subseteq Nat /\ w \in Nat /\ v <= last /\ v \in Nat /\ last \in Nat
  BY <1>1 DEF IsWindows, Ends
<1>4. v < w
  BY <1>3
<1>5. Recoveries(B, N, v) = {w}
  BY <1>2, <1>4
<1>6. Min({w}) = w
  BY <1>3, MinIs
<1>7. \A b \in B : b <= w
  BY <1>3
<1> HIDE DEF B, N
<1>8. Affected(B, {w}, v) = From(B, v)
  BY <1>6, <1>7 DEF Affected, From
<1>9. EpisodeAt(S, B, N, v) = EpisodeOf(S, {w}, From(B, v), v)
  BY <1>5, <1>8, EpisodeParts, Zenon
<1>10. Max(From(B, v)) = last
  <2>1. From(B, v) \in SUBSET Nat /\ last \in From(B, v) /\ \A b \in From(B, v) : b <= last
    BY <1>3 DEF From, B
  <2> QED BY <2>1, MaxIs
<1> QED BY <1>9, <1>10 DEF EpisodeOf, B, N

-----------------------------------------------------------------------------
(* The starts of episodes, as the timeline grows.                          *)

\* A stretch of BAD windows that no NORMAL window has ended begins only once.
LEMMA LastStretch ==
  ASSUME NEW B, NEW N, IsWindows(B, N), NEW v, NEW x,
         Begins(B, N, v), \A n \in N : n < v, Begins(B, N, x)
  PROVE  x <= v /\ ((\A n \in N : n < x) => x = v)
<1>1. v \in B /\ x \in B /\ B \subseteq Nat /\ N \subseteq Nat
  BY DEF IsWindows, Begins
<1>2. ~(v < x)
  <2> SUFFICES ASSUME v < x PROVE FALSE
    OBVIOUS
  <2>1. PICK n \in N : v < n
    BY <1>1 DEF Begins
  <2> QED BY <1>1, <2>1
<1>3. ASSUME x < v, \A n \in N : n < x
      PROVE  FALSE
  <2>1. PICK n \in N : x < n
    BY <1>1, <1>3 DEF Begins
  <2> QED BY <1>1, <1>3, <2>1
<1> QED BY <1>1, <1>2, <1>3

LEMMA RunBegins ==
  ASSUME NEW B, NEW N, NEW v, StartsRun(B, N, v)
  PROVE  Begins(B, N, v)
BY DEF StartsRun, Begins

\* A BAD window does not change which earlier runs start an episode.
LEMMA StartsBad ==
  ASSUME NEW B, NEW N, IsWindows(B, N), NEW w, Later(B, N, w), IsWindows(B \cup {w}, N),
         NEW x, StartsRun(B, N, x)
  PROVE  x \in Starts(B \cup {w}, N) <=> x \in Starts(B, N)
<1> DEFINE Recovered(u) == \E r \in Ends(B, N) : u < r /\ r < x
<1>1. Ends(B \cup {w}, N) = Ends(B, N)
  BY EndsBad
<1>2. StartsRun(B \cup {w}, N, x) /\ x \in B /\ x \in Nat /\ x < w /\ w \in Nat
  <2>1. StartsRun(B \cup {w}, N, x)
    BY RunsBad
  <2>2. x \in B
    BY DEF StartsRun
  <2> QED BY <2>1, <2>2 DEF IsWindows, Later
<1>3. \A u \in B : u < x => (StartsRun(B \cup {w}, N, u) <=> StartsRun(B, N, u))
  <2> TAKE u \in B
  <2> HAVE u < x
  <2>1. PICK n \in N : u < n
    BY <1>2 DEF StartsRun
  <2>2. ~(n < u)
    BY <1>2, <2>1 DEF IsWindows
  <2> QED BY <2>2, RunsBad
<1>4. ~(w < x)
  BY <1>2
<1>5. x \in Starts(B \cup {w}, N) <=>
        \A u \in B \cup {w} : u < x /\ StartsRun(B \cup {w}, N, u) => Recovered(u)
  BY <1>1, <1>2, StartsAre
<1>6. x \in Starts(B, N) <=> \A u \in B : u < x /\ StartsRun(B, N, u) => Recovered(u)
  BY StartsAre
<1> HIDE DEF Recovered
<1> QED BY <1>3, <1>4, <1>5, <1>6

\* A BAD window recovers nothing.
LEMMA ClosedBad ==
  ASSUME NEW B, NEW N, IsWindows(B, N), NEW w, Later(B, N, w), IsWindows(B \cup {w}, N)
  PROVE  \A x : (x \in Starts(B \cup {w}, N) /\ \E e \in Ends(B \cup {w}, N) : x < e)
                  <=> (x \in Starts(B, N) /\ \E e \in Ends(B, N) : x < e)
<1>1. Ends(B \cup {w}, N) = Ends(B, N)
  BY EndsBad
<1>2. ASSUME NEW x, x \in Starts(B, N)
      PROVE  x \in Starts(B \cup {w}, N)
  <2>1. StartsRun(B, N, x)
    BY <1>2, StartsAre
  <2> QED BY <1>2, <2>1, StartsBad
<1>3. ASSUME NEW x, x \in Starts(B \cup {w}, N), NEW e \in Ends(B, N), x < e
      PROVE  x \in Starts(B, N)
  <2>1. StartsRun(B \cup {w}, N, x) /\ x \in B \cup {w}
    BY <1>3 DEF Starts
  <2>2. ~(e < x) /\ e \in N
    <3>1. x \in Nat /\ e \in Nat /\ e \in N
      BY <2>1 DEF IsWindows, Ends
    <3> QED BY <1>3, <3>1
  <2>3. StartsRun(B, N, x)
    BY <2>1, <2>2, RunsBad
  <2> QED BY <1>3, <2>3, StartsBad
<1> QED BY <1>1, <1>2, <1>3

\* Between an episode that goes on and the last window no other one starts.
LEMMA OpenIsOnly ==
  ASSUME NEW B, NEW N, IsWindows(B, N),
         NEW v \in Starts(B, N), \A e \in Ends(B, N) : ~(v < e), NEW x \in Starts(B, N)
  PROVE  x = v \/ \E e \in Ends(B, N) : x < e
<1>1. v \in B /\ x \in B /\ StartsRun(B, N, v) /\ StartsRun(B, N, x)
  BY DEF Starts
<1>2. v \in Nat /\ x \in Nat
  BY <1>1 DEF IsWindows
<1>3. CASE x < v
  BY <1>1, <1>3, StartsAre
<1>4. CASE v < x
  BY <1>1, <1>4, StartsAre
<1> QED BY <1>2, <1>3, <1>4

-----------------------------------------------------------------------------
(* The machine, one signal at a time.                                      *)

Records  == [start : Nat, status : {"ACTIVE", "RECOVERED"}, ended : Nat, count : Nat,
             severity : 1..3]
Machines == [state : {"HEALTHY", "BAD_PENDING", "DEGRADED", "RECOVERY_PENDING"},
             bad : Nat, normal : Nat, first : Nat, last : Nat, severity : 1..3,
             episode : Records, episodes : Seq(Records)]

LEMMA AppendSet ==
  ASSUME NEW X, NEW q \in Seq(X), NEW x \in X
  PROVE  Append(q, x) \in Seq(X) /\ ToSet(Append(q, x)) = ToSet(q) \cup {x}
<1>1. /\ Append(q, x) \in Seq(X) /\ Len(q) \in Nat /\ DOMAIN q = 1 .. Len(q)
      /\ DOMAIN Append(q, x) = 1 .. Len(q) + 1
      /\ \A i \in 1 .. Len(q) : Append(q, x)[i] = q[i]
      /\ Append(q, x)[Len(q) + 1] = x
  OBVIOUS
<1>2. 1 .. Len(q) + 1 = 1 .. Len(q) \cup {Len(q) + 1}
  BY <1>1
<1> QED BY <1>1, <1>2 DEF ToSet

LEMMA WorstType ==
  ASSUME NEW a \in 1..3, NEW b \in 1..3
  PROVE  Worst(a, b) \in 1..3
BY DEF Worst

LEMMA RecoverType ==
  ASSUME NEW m \in Machines
  PROVE  Recover(m) \in Machines
<1>1. [m.episode EXCEPT !.status = "RECOVERED", !.ended = m.last] \in Records
  BY DEF Machines, Records
<1>2. NoEpisode \in Records
  BY DEF NoEpisode, Episode, Records, Moderate
<1>3. Append(m.episodes, [m.episode EXCEPT !.status = "RECOVERED", !.ended = m.last]) \in Seq(Records)
  BY <1>1, AppendSet DEF Machines
<1> QED BY <1>2, <1>3 DEF Recover, Machines

Machine(state, bad, normal, first, last, severity, episode, closed) ==
  [state |-> state, bad |-> bad, normal |-> normal, first |-> first, last |-> last,
   severity |-> severity, episode |-> episode, episodes |-> closed]

\* An episode that goes on, and one that is over
Worsened(x, count, severity) == [x EXCEPT !.count = count, !.severity = severity]
Over(x, last) == [x EXCEPT !.status = "RECOVERED", !.ended = last]

\* What a signal does in each state
LEMMA StepPause ==
  ASSUME NEW m \in Machines, NEW s, s.type \notin {"BAD", "NORMAL"}
  PROVE  Step(m, s) = m
BY DEF Step, Machines

LEMMA NormalHealthy ==
  ASSUME NEW m \in Machines, NEW s, s.type = "NORMAL", m.state = "HEALTHY"
  PROVE  Step(m, s) = m
BY DEF Step, Machines

LEMMA NormalPending ==
  ASSUME NEW m \in Machines, NEW s, s.type = "NORMAL", m.state = "BAD_PENDING"
  PROVE  Step(m, s) = Machine("HEALTHY", 0, m.normal, 0, m.last, m.severity, m.episode, m.episodes)
BY DEF Step, Machines, Machine

LEMMA NormalDegraded ==
  ASSUME NEW m \in Machines, NEW s, s.type = "NORMAL", m.state = "DEGRADED"
  PROVE  Step(m, s) = Machine("RECOVERY_PENDING", m.bad, 1, m.first, m.last, m.severity,
                              m.episode, m.episodes)
<1>1. Improve(m, s) = [m EXCEPT !.state = "RECOVERY_PENDING", !.normal = 1]
  BY DEF Improve
<1>2. Step(m, s) = [Improve(m, s) EXCEPT !.last = Improve(m, s).last]
  BY DEF Step
<1> QED BY <1>1, <1>2 DEF Machines, Machine

LEMMA NormalRecovery ==
  ASSUME NEW m \in Machines, NEW s, s.type = "NORMAL", m.state = "RECOVERY_PENDING"
  PROVE  Step(m, s) =
           IF m.normal + 1 < Recovery
             THEN Machine("RECOVERY_PENDING", m.bad, m.normal + 1, m.first, m.last, m.severity,
                          m.episode, m.episodes)
             ELSE Machine("HEALTHY", m.bad, 0, 0, m.last, m.severity, NoEpisode,
                          Append(m.episodes, Over(m.episode, m.last)))
<1>1. Step(m, s) = [Improve(m, s) EXCEPT !.last = Improve(m, s).last]
  BY DEF Step
<1>2. CASE m.normal + 1 < Recovery
  <2>1. Improve(m, s) = [m EXCEPT !.normal = m.normal + 1]
    BY <1>2 DEF Improve
  <2> QED BY <1>1, <1>2, <2>1 DEF Machines, Machine
<1>3. CASE ~(m.normal + 1 < Recovery)
  <2>1. Improve(m, s) = Recover(m)
    BY <1>3 DEF Improve
  <2> DEFINE x == [m.episode EXCEPT !.status = "RECOVERED", !.ended = m.last]
             q == Append(m.episodes, x)
  <2>2. Recover(m) = [m EXCEPT !.state = "HEALTHY", !.normal = 0, !.first = 0,
                               !.episode = NoEpisode, !.episodes = q]
    BY DEF Recover
  <2> HIDE DEF q
  <2>3. Recover(m) = Machine("HEALTHY", m.bad, 0, 0, m.last, m.severity, NoEpisode, q)
    BY <2>2 DEF Machines, Machine
  <2>4. Step(m, s) = Machine("HEALTHY", m.bad, 0, 0, m.last, m.severity, NoEpisode, q)
    BY <1>1, <2>1, <2>3 DEF Machine
  <2> QED BY <1>3, <2>4 DEF q, Over
<1> QED BY <1>2, <1>3

LEMMA BadHealthy ==
  ASSUME NEW m \in Machines, NEW s, s.type = "BAD", m.state = "HEALTHY"
  PROVE  Step(m, s) = Machine("BAD_PENDING", 1, m.normal, s.window, s.window, s.severity,
                              m.episode, m.episodes)
<1>1. Step(m, s) = [Begin(m, s) EXCEPT !.last = s.window]
  BY DEF Step
<1> QED BY <1>1 DEF Begin, Machines, Machine

LEMMA BadPending ==
  ASSUME NEW m \in Machines, NEW s, s.type = "BAD", m.state = "BAD_PENDING"
  PROVE  LET bad == m.bad + 1
             severity == Worst(m.severity, s.severity)
         IN Step(m, s) =
              IF bad < Required
                THEN Machine("BAD_PENDING", bad, m.normal, m.first, s.window, severity,
                             m.episode, m.episodes)
                ELSE Machine("DEGRADED", bad, m.normal, m.first, s.window, severity,
                             Episode(m.first, bad, severity), m.episodes)
<1>1. Step(m, s) = [Persist(m, s) EXCEPT !.last = s.window]
  BY DEF Step
<1> QED BY <1>1 DEF Persist, Machines, Machine

LEMMA BadDegraded ==
  ASSUME NEW m \in Machines, NEW s, s.type = "BAD", m.state \in {"DEGRADED", "RECOVERY_PENDING"}
  PROVE  Step(m, s) =
           Machine("DEGRADED", m.bad, 0, m.first, s.window, m.severity,
                   Worsened(m.episode, m.episode.count + 1,
                            Worst(m.episode.severity, s.severity)),
                   m.episodes)
<1>1. Step(m, s) = [Worsen(m, s) EXCEPT !.last = s.window]
  BY DEF Step
<1> QED BY <1>1 DEF Worsen, Worsened, Machines, Machine

-----------------------------------------------------------------------------
(* The state of the machine says what the rules find so far.               *)

EndsOf(S)   == Ends(Bads(S), Norms(S))
StartsOf(S) == Starts(Bads(S), Norms(S))
At(S, v)    == EpisodeAt(S, Bads(S), Norms(S), v)
Closed(S)   == {v \in StartsOf(S) : \E e \in EndsOf(S) : v < e}

\* Every run is over.
Quiet(S) ==
  \A u \in Bads(S) : StartsRun(Bads(S), Norms(S), u) => \E e \in EndsOf(S) : u < e

IsHealthy(S, m) ==
  /\ m.state = "HEALTHY" /\ m.episode = NoEpisode /\ m.normal = 0
  /\ Quiet(S)
  /\ \A b \in Bads(S) : \E n \in Norms(S) : b < n

IsPending(S, m) ==
  /\ m.state = "BAD_PENDING" /\ m.episode = NoEpisode /\ m.normal = 0
  /\ Quiet(S)
  /\ Begins(Bads(S), Norms(S), m.first) /\ \A n \in Norms(S) : n < m.first
  /\ m.bad = Cardinality(From(Bads(S), m.first)) /\ m.bad < Required
  /\ m.severity = Max(Severities(S, From(Bads(S), m.first)))

IsDegraded(S, m) ==
  /\ m.state \in {"DEGRADED", "RECOVERY_PENDING"}
  /\ m.normal = Cardinality({n \in Norms(S) : m.last < n}) /\ m.normal < Recovery
  /\ m.state = "DEGRADED" => m.normal = 0
  /\ \E v \in StartsOf(S) : (\A e \in EndsOf(S) : ~(v < e)) /\ m.episode = At(S, v)

LastIs(S, last) == (\A b \in Bads(S) : b <= last) /\ (Bads(S) # {} => last \in Bads(S))

Agrees(S, m) ==
  /\ m \in Machines
  /\ LastIs(S, m.last)
  /\ ToSet(m.episodes) = {At(S, v) : v \in Closed(S)}
  /\ IsHealthy(S, m) \/ IsPending(S, m) \/ IsDegraded(S, m)

\* Closed episodes stay closed and as they are.
LEMMA ClosedKept ==
  ASSUME NEW S, NEW s, Follows(S, s), NEW v \in Closed(S)
  PROVE  At(S \cup {s}, v) = At(S, v)
<1>1. v \in Bads(S) /\ \E e \in EndsOf(S) : v < e
  BY DEF Closed, StartsOf, Starts
<1> QED BY <1>1, ClosedStays DEF At, EndsOf

LEMMA ClosedSame ==
  ASSUME NEW S, NEW s, Follows(S, s), Closed(S \cup {s}) = Closed(S)
  PROVE  {At(S \cup {s}, v) : v \in Closed(S \cup {s})} = {At(S, v) : v \in Closed(S)}
<1>1. \A v \in Closed(S) : At(S \cup {s}, v) = At(S, v)
  BY ClosedKept
<1> QED BY <1>1

\* Severities grow with the BAD windows.
LEMMA SeveritiesGrow ==
  ASSUME NEW S, NEW s, Follows(S, s), NEW v \in Nat
  PROVE  Severities(S \cup {s}, From(Bads(S \cup {s}), v)) =
           IF s.type = "BAD" /\ v <= s.window
             THEN Severities(S, From(Bads(S), v)) \cup {s.severity}
             ELSE Severities(S, From(Bads(S), v))
<1>1. \A T : \A x \in T : x.type = "BAD" => (x.window \in From(Bads(T), v) <=> v <= x.window)
  BY DEF From, Bads, OfType
<1>2. \A T : {x \in T : x.type = "BAD" /\ x.window \in From(Bads(T), v)}
               = {x \in T : x.type = "BAD" /\ v <= x.window}
  BY <1>1
<1>3. {x \in S \cup {s} : x.type = "BAD" /\ v <= x.window} =
        IF s.type = "BAD" /\ v <= s.window
          THEN {x \in S : x.type = "BAD" /\ v <= x.window} \cup {s}
          ELSE {x \in S : x.type = "BAD" /\ v <= x.window}
  OBVIOUS
<1>4. \A T : Severities(T, From(Bads(T), v)) =
               {x.severity : x \in {y \in T : y.type = "BAD" /\ v <= y.window}}
  BY <1>2 DEF Severities
<1> DEFINE K(T) == {y \in T : y.type = "BAD" /\ v <= y.window}
<1>5. /\ Severities(S, From(Bads(S), v)) = {x.severity : x \in K(S)}
      /\ Severities(S \cup {s}, From(Bads(S \cup {s}), v)) = {x.severity : x \in K(S \cup {s})}
  BY <1>4
<1>6. K(S \cup {s}) = IF s.type = "BAD" /\ v <= s.window THEN K(S) \cup {s} ELSE K(S)
  BY <1>3
<1> HIDE DEF K
<1>7. {x.severity : x \in K(S) \cup {s}} = {x.severity : x \in K(S)} \cup {s.severity}
  OBVIOUS
<1> QED BY <1>5, <1>6, <1>7

LEMMA SeverityType ==
  ASSUME NEW S, IsTimeline(S), NEW v \in Bads(S)
  PROVE  /\ Severities(S, From(Bads(S), v)) \subseteq 1..3
         /\ Severities(S, From(Bads(S), v)) # {}
<1>1. v \in Nat
  BY TimelineWindows DEF IsWindows
<1>2. PICK s \in S : s.type = "BAD" /\ s.window = v
  BY DEF Bads, OfType
<1>3. v \in From(Bads(S), v)
  BY <1>1 DEF From
<1>4. s.severity \in Severities(S, From(Bads(S), v))
  BY <1>2, <1>3 DEF Severities
<1>5. Severities(S, From(Bads(S), v)) \subseteq 1..3
  BY DEF Severities, IsTimeline
<1> QED BY <1>4, <1>5

LEMMA WorstIsMax ==
  ASSUME NEW X \in SUBSET (1..3), X # {}, NEW y \in 1..3
  PROVE  Max(X) \in 1..3 /\ Max(X \cup {y}) = Worst(Max(X), y)
<1>1. PICK m \in X : \A x \in X : x <= m
  <2>1. CASE 3 \in X
    BY <2>1
  <2>2. CASE 3 \notin X /\ 2 \in X
    <3>1. \A x \in X : x <= 2
      BY <2>2
    <3> QED BY <2>2, <3>1
  <2>3. CASE 3 \notin X /\ 2 \notin X
    <3>1. \A x \in X : x = 1
      BY <2>3
    <3>2. PICK m \in X : m = 1
      BY <3>1
    <3>3. \A x \in X : x <= m
      BY <3>1, <3>2
    <3> QED BY <3>3
  <2> QED BY <2>1, <2>2, <2>3
<1>2. X \in SUBSET Nat /\ X \cup {y} \in SUBSET Nat
  OBVIOUS
<1>3. Max(X) = m
  BY <1>1, <1>2, MaxIs
<1>4. Worst(m, y) \in X \cup {y} /\ \A x \in X \cup {y} : x <= Worst(m, y)
  BY <1>1 DEF Worst
<1>5. Max(X \cup {y}) = Worst(m, y)
  BY <1>2, <1>4, MaxIs
<1> QED BY <1>3, <1>5

LEMMA FromGrows ==
  ASSUME NEW S, NEW s, Follows(S, s), s.type = "BAD", NEW v \in Nat, v <= s.window
  PROVE  /\ From(Bads(S \cup {s}), v) = From(Bads(S), v) \cup {s.window}
         /\ Cardinality(From(Bads(S \cup {s}), v)) = Cardinality(From(Bads(S), v)) + 1
<1>1. Bads(S \cup {s}) = Bads(S) \cup {s.window} /\ Later(Bads(S), Norms(S), s.window)
  BY TimelineGrows
<1>2. IsWindows(Bads(S), Norms(S))
  BY TimelineWindows DEF Follows
<1>3. From(Bads(S \cup {s}), v) = From(Bads(S), v) \cup {s.window}
  BY <1>1 DEF From
<1>4. IsFiniteSet(From(Bads(S), v))
  <2>1. From(Bads(S), v) \in SUBSET Bads(S)
    BY DEF From
  <2> QED BY <1>2, <2>1, FS_Subset DEF IsWindows
<1>5. s.window \notin From(Bads(S), v)
  <2>1. \A b \in Bads(S) : b \in Nat /\ b < s.window /\ s.window \in Nat
    BY <1>1, <1>2 DEF Later, IsWindows
  <2> QED BY <2>1 DEF From
<1> QED BY <1>3, <1>4, <1>5, FS_AddElement

LEMMA GrowBad ==
  ASSUME NEW S, NEW s, Follows(S, s), s.type = "BAD", NEW T, T = S \cup {s}
  PROVE  /\ Bads(T) = Bads(S) \cup {s.window} /\ Norms(T) = Norms(S)
         /\ EndsOf(T) = EndsOf(S) /\ Closed(T) = Closed(S)
         /\ {At(T, v) : v \in Closed(T)} = {At(S, v) : v \in Closed(S)}
         /\ LastIs(T, s.window)
<1>1. /\ Bads(T) = Bads(S) \cup {s.window} /\ Norms(T) = Norms(S)
      /\ IsTimeline(T) /\ Later(Bads(S), Norms(S), s.window)
  BY TimelineGrows
<1>2. IsWindows(Bads(S), Norms(S)) /\ IsWindows(Bads(S) \cup {s.window}, Norms(S))
  BY <1>1, TimelineWindows DEF Follows
<1>3. EndsOf(T) = EndsOf(S)
  BY <1>1, <1>2, EndsBad DEF EndsOf
<1>4. Closed(T) = Closed(S)
  <2> DEFINE B == Bads(S)
             N == Norms(S)
             w == s.window
  <2>1. IsWindows(B, N) /\ Later(B, N, w) /\ IsWindows(B \cup {w}, N)
    BY <1>1, <1>2
  <2>2. /\ StartsOf(S) = Starts(B, N) /\ EndsOf(S) = Ends(B, N)
        /\ StartsOf(T) = Starts(B \cup {w}, N) /\ EndsOf(T) = Ends(B \cup {w}, N)
    BY <1>1 DEF StartsOf, EndsOf
  <2> HIDE DEF B, N, w
  <2>3. \A x : (x \in Starts(B \cup {w}, N) /\ \E e \in Ends(B \cup {w}, N) : x < e)
                 <=> (x \in Starts(B, N) /\ \E e \in Ends(B, N) : x < e)
    BY <2>1, ClosedBad
  <2> QED BY <2>2, <2>3 DEF Closed
<1>5. LastIs(T, s.window)
  BY <1>1, <1>2 DEF LastIs, Later, IsWindows
<1> QED BY <1>1, <1>3, <1>4, <1>5, ClosedSame

LEMMA GrowNormal ==
  ASSUME NEW S, NEW s, Follows(S, s), s.type = "NORMAL", NEW T, T = S \cup {s}
  PROVE  /\ Bads(T) = Bads(S) /\ Norms(T) = Norms(S) \cup {s.window}
         /\ StartsOf(T) = StartsOf(S)
         /\ \A r : r # s.window => (r \in EndsOf(T) <=> r \in EndsOf(S))
         /\ s.window \notin EndsOf(S) /\ s.window \notin Norms(S)
         /\ \A b \in Bads(S) : b < s.window
         /\ \A v : StartsRun(Bads(T), Norms(T), v) <=> StartsRun(Bads(S), Norms(S), v)
<1>1. /\ Bads(T) = Bads(S) /\ Norms(T) = Norms(S) \cup {s.window}
      /\ IsTimeline(T) /\ Later(Bads(S), Norms(S), s.window)
  BY TimelineGrows
<1>2. IsWindows(Bads(S), Norms(S)) /\ IsWindows(Bads(S), Norms(S) \cup {s.window})
  BY <1>1, TimelineWindows DEF Follows
<1>3. StartsOf(T) = StartsOf(S)
  BY <1>1, <1>2, StartsNormal DEF StartsOf
<1>4. \A r : r # s.window => (r \in EndsOf(T) <=> r \in EndsOf(S))
  BY <1>1, <1>2, EndsNormal DEF EndsOf
<1>5. \A v : StartsRun(Bads(T), Norms(T), v) <=> StartsRun(Bads(S), Norms(S), v)
  BY <1>1, <1>2, RunsNormal
<1>6. s.window \notin Norms(S)
  BY <1>1, <1>2 DEF Later, IsWindows
<1>7. s.window \notin EndsOf(S)
  BY <1>6 DEF EndsOf, Ends
<1> QED BY <1>1, <1>3, <1>4, <1>5, <1>6, <1>7 DEF Later

\* A window that ends no recovery closes nothing, ...
LEMMA NothingCloses ==
  ASSUME NEW S, NEW s, Follows(S, s), s.type = "NORMAL", NEW T, T = S \cup {s},
         Quiet(S) \/ s.window \notin EndsOf(T)
  PROVE  {At(T, v) : v \in Closed(T)} = {At(S, v) : v \in Closed(S)}
<1>1. /\ StartsOf(T) = StartsOf(S)
      /\ \A r : r # s.window => (r \in EndsOf(T) <=> r \in EndsOf(S))
      /\ s.window \notin EndsOf(S)
  BY GrowNormal
<1>2. \A v \in StartsOf(S) : v \in Bads(S) /\ StartsRun(Bads(S), Norms(S), v)
  BY DEF StartsOf, Starts
<1>3. Closed(T) = Closed(S)
  <2>1. CASE Quiet(S)
    <3>1. \A v \in StartsOf(S) : \E e \in EndsOf(S) : v < e
      BY <1>2, <2>1 DEF Quiet
    <3>2. \A e \in EndsOf(S) : e \in EndsOf(T)
      BY <1>1
    <3> QED BY <1>1, <3>1, <3>2 DEF Closed
  <2>2. CASE s.window \notin EndsOf(T)
    <3>1. EndsOf(T) = EndsOf(S)
      BY <1>1, <2>2
    <3> QED BY <1>1, <3>1 DEF Closed
  <2> QED BY <2>1, <2>2
<1> QED BY <1>3, ClosedSame

\* ... and what was over is over.
LEMMA QuietNormal ==
  ASSUME NEW S, NEW s, Follows(S, s), s.type = "NORMAL", NEW T, T = S \cup {s},
         Quiet(S) \/ s.window \in EndsOf(T)
  PROVE  Quiet(T)
<1>1. /\ Bads(T) = Bads(S)
      /\ \A r : r # s.window => (r \in EndsOf(T) <=> r \in EndsOf(S))
      /\ s.window \notin EndsOf(S)
      /\ \A b \in Bads(S) : b < s.window
      /\ \A v : StartsRun(Bads(T), Norms(T), v) <=> StartsRun(Bads(S), Norms(S), v)
  BY GrowNormal
<1>2. CASE s.window \in EndsOf(T)
  BY <1>1, <1>2 DEF Quiet
<1>3. CASE Quiet(S)
  <2>1. \A e \in EndsOf(S) : e \in EndsOf(T)
    BY <1>1
  <2> QED BY <1>1, <1>3, <2>1 DEF Quiet
<1> QED BY <1>2, <1>3

LEMMA PauseAgrees ==
  ASSUME NEW S, NEW s, Follows(S, s), NEW m, Agrees(S, m), s.type \notin {"BAD", "NORMAL"}
  PROVE  Agrees(S \cup {s}, Step(m, s))
<1> DEFINE T == S \cup {s}
<1>1. Step(m, s) = m /\ m \in Machines
  BY StepPause DEF Agrees
<1>2. Bads(T) = Bads(S) /\ Norms(T) = Norms(S)
  BY TimelineGrows
<1>3. \A X : {x \in S \cup {s} : x.type = "BAD" /\ x.window \in X}
               = {x \in S : x.type = "BAD" /\ x.window \in X}
  OBVIOUS
<1> HIDE DEF T
<1>4. \A X : Severities(T, X) = Severities(S, X)
  BY <1>3, Zenon DEF Severities, T
<1>5. \A v : At(T, v) = At(S, v)
  <2> TAKE v
  <2> DEFINE R == Recoveries(Bads(S), Norms(S), v)
             A == Affected(Bads(S), R, v)
  <2>1. At(S, v) = EpisodeOf(S, R, A, v)
    BY EpisodeParts DEF At
  <2>2. At(T, v) = EpisodeOf(T, R, A, v)
    BY <1>2, EpisodeParts DEF At
  <2> HIDE DEF R, A
  <2>3. EpisodeOf(T, R, A, v) = EpisodeOf(S, R, A, v)
    BY <1>4, Zenon DEF EpisodeOf
  <2> QED BY <2>1, <2>2, <2>3
<1>6. EndsOf(T) = EndsOf(S) /\ StartsOf(T) = StartsOf(S) /\ Closed(T) = Closed(S)
  BY <1>2 DEF EndsOf, StartsOf, Closed
<1>7. Quiet(S) => Quiet(T)
  BY <1>2, <1>6 DEF Quiet
<1>8. {At(T, v) : v \in Closed(T)} = {At(S, v) : v \in Closed(S)}
  BY <1>5, <1>6
<1>9. LastIs(T, m.last) /\ ToSet(m.episodes) = {At(T, v) : v \in Closed(T)}
  BY <1>2, <1>8 DEF Agrees, LastIs
<1>10. IsHealthy(S, m) => IsHealthy(T, m)
  BY <1>2, <1>7 DEF IsHealthy
<1>11. IsPending(S, m) => IsPending(T, m)
  BY <1>2, <1>4, <1>7 DEF IsPending
<1>12. IsDegraded(S, m) => IsDegraded(T, m)
  BY <1>2, <1>5, <1>6 DEF IsDegraded
<1>13. Agrees(T, m)
  BY <1>1, <1>9, <1>10, <1>11, <1>12 DEF Agrees
<1> QED BY <1>1, <1>13 DEF T

LEMMA NormalHealthyAgrees ==
  ASSUME NEW S, NEW s, Follows(S, s), NEW m, Agrees(S, m), s.type = "NORMAL", IsHealthy(S, m)
  PROVE  Agrees(S \cup {s}, Step(m, s))
<1> DEFINE T == S \cup {s}
<1>1. Step(m, s) = m /\ m \in Machines /\ Quiet(S) /\ LastIs(S, m.last)
  BY NormalHealthy DEF Agrees, IsHealthy
<1>2. T = S \cup {s}
  OBVIOUS
<1> HIDE DEF T
<1>3. /\ Bads(T) = Bads(S) /\ Norms(T) = Norms(S) \cup {s.window}
      /\ \A b \in Bads(S) : b < s.window
  BY <1>2, GrowNormal
<1>4. Quiet(T)
  BY <1>1, <1>2, QuietNormal
<1>5. IsHealthy(T, m)
  BY <1>3, <1>4 DEF IsHealthy
<1>6. LastIs(T, m.last)
  BY <1>1, <1>3 DEF LastIs
<1>7. ToSet(m.episodes) = {At(T, v) : v \in Closed(T)}
  BY <1>1, <1>2, NothingCloses DEF Agrees
<1>8. Agrees(T, m)
  BY <1>1, <1>5, <1>6, <1>7 DEF Agrees
<1> QED BY <1>1, <1>2, <1>8

LEMMA NormalPendingAgrees ==
  ASSUME NEW S, NEW s, Follows(S, s), NEW m, Agrees(S, m), s.type = "NORMAL", IsPending(S, m)
  PROVE  Agrees(S \cup {s}, Step(m, s))
<1> DEFINE T == S \cup {s}
           n == Step(m, s)
<1>1. /\ n = Machine("HEALTHY", 0, m.normal, 0, m.last, m.severity, m.episode, m.episodes)
      /\ m \in Machines /\ Quiet(S) /\ LastIs(S, m.last)
  BY NormalPending DEF Agrees, IsPending
<1>2. T = S \cup {s} /\ n = Step(m, s)
  OBVIOUS
<1> HIDE DEF T, n
<1>3. /\ Bads(T) = Bads(S) /\ Norms(T) = Norms(S) \cup {s.window}
      /\ \A b \in Bads(S) : b < s.window
  BY <1>2, GrowNormal
<1>4. Quiet(T)
  BY <1>1, <1>2, QuietNormal
<1>5. /\ n \in Machines /\ n.state = "HEALTHY" /\ n.episode = m.episode /\ n.normal = m.normal
      /\ n.last = m.last /\ n.episodes = m.episodes
  BY <1>1 DEF Machine, Machines
<1>6. IsHealthy(T, n)
  BY <1>3, <1>4, <1>5 DEF IsHealthy, IsPending
<1>7. LastIs(T, n.last)
  BY <1>1, <1>3, <1>5 DEF LastIs
<1>8. ToSet(n.episodes) = {At(T, v) : v \in Closed(T)}
  BY <1>1, <1>2, <1>5, NothingCloses DEF Agrees
<1>9. Agrees(T, n)
  BY <1>5, <1>6, <1>7, <1>8 DEF Agrees
<1> QED BY <1>2, <1>9

LEMMA EpisodeFields ==
  ASSUME NEW v, NEW c, NEW p, NEW x, x = Episode(v, c, p)
  PROVE  x.count = c /\ x.severity = p
BY DEF Episode

LEMMA EpisodeWorsens ==
  ASSUME NEW v, NEW c, NEW p, NEW x \in Records, x = Episode(v, c, p),
         NEW d \in Nat, NEW q \in 1..3
  PROVE  Worsened(x, d, q) = Episode(v, d, q)
<1> DEFINE y == [x EXCEPT !.count = d, !.severity = q]
<1>1. y.start = v /\ y.status = "ACTIVE" /\ y.ended = 0 /\ y.count = d /\ y.severity = q
  BY DEF Episode
<1>2. y \in Records
  BY DEF Records
<1> HIDE DEF y
<1>3. y = Episode(v, d, q)
  BY <1>1, <1>2 DEF Records, Episode
<1> QED BY <1>3 DEF y, Worsened

LEMMA EpisodeRecovers ==
  ASSUME NEW v, NEW c, NEW p, NEW x \in Records, x = Episode(v, c, p), NEW last \in Nat
  PROVE  Over(x, last) =
           [start |-> v, status |-> "RECOVERED", ended |-> last, count |-> c, severity |-> p]
<1> DEFINE y == [x EXCEPT !.status = "RECOVERED", !.ended = last]
<1>1. y.start = v /\ y.status = "RECOVERED" /\ y.ended = last /\ y.count = c /\ y.severity = p
  BY DEF Episode
<1>2. y \in Records
  BY DEF Records
<1> HIDE DEF y
<1>3. y = [start |-> v, status |-> "RECOVERED", ended |-> last, count |-> c, severity |-> p]
  BY <1>1, <1>2 DEF Records
<1> QED BY <1>3 DEF y, Over

\* An open episode is confirmed by NORMAL windows that do not end it, ...
LEMMA OpenNormal ==
  ASSUME NEW S, NEW s, Follows(S, s), s.type = "NORMAL", NEW T, T = S \cup {s},
         NEW v \in Bads(S), \A e \in EndsOf(S) : ~(v < e)
  PROVE  /\ At(S, v) = Episode(v, Cardinality(From(Bads(S), v)), Max(Severities(S, From(Bads(S), v))))
         /\ Severities(T, From(Bads(T), v)) = Severities(S, From(Bads(S), v))
         /\ (\A e \in EndsOf(T) : ~(v < e)) => At(T, v) = At(S, v)
<1>1. IsTimeline(S) /\ IsTimeline(T) /\ Bads(T) = Bads(S)
  BY TimelineGrows DEF Follows
<1>2. v \in Nat
  BY <1>1, TimelineWindows DEF IsWindows
<1>3. Severities(T, From(Bads(T), v)) = Severities(S, From(Bads(S), v))
  BY <1>2, SeveritiesGrow
<1>4. At(S, v) = Episode(v, Cardinality(From(Bads(S), v)), Max(Severities(S, From(Bads(S), v))))
  BY <1>1, OpenEpisode DEF At, EndsOf
<1>5. ASSUME \A e \in EndsOf(T) : ~(v < e)
      PROVE  At(T, v) = At(S, v)
  <2>1. At(T, v) = Episode(v, Cardinality(From(Bads(T), v)), Max(Severities(T, From(Bads(T), v))))
    BY <1>1, <1>5, OpenEpisode DEF At, EndsOf
  <2> QED BY <1>1, <1>3, <1>4, <2>1
<1> QED BY <1>3, <1>4, <1>5

\* ... and every BAD one is counted.
LEMMA OpenBad ==
  ASSUME NEW S, NEW s, Follows(S, s), s.type = "BAD", NEW T, T = S \cup {s},
         NEW v \in Bads(S), \A e \in EndsOf(S) : ~(v < e)
  PROVE  At(T, v) = Worsened(At(S, v), At(S, v).count + 1,
                             Worst(At(S, v).severity, s.severity))
<1>1. /\ IsTimeline(S) /\ IsTimeline(T) /\ Bads(T) = Bads(S) \cup {s.window}
      /\ EndsOf(T) = EndsOf(S) /\ Later(Bads(S), Norms(S), s.window)
  BY TimelineGrows, GrowBad DEF Follows
<1>2. v \in Nat /\ v <= s.window /\ v \in Bads(T)
  BY <1>1, TimelineWindows DEF IsWindows, Later
<1> DEFINE c == Cardinality(From(Bads(S), v))
           X == Severities(S, From(Bads(S), v))
<1>3. At(S, v) = Episode(v, c, Max(X))
  BY <1>1, OpenEpisode DEF At, EndsOf
<1>4. At(T, v) = Episode(v, Cardinality(From(Bads(T), v)), Max(Severities(T, From(Bads(T), v))))
  BY <1>1, <1>2, OpenEpisode DEF At, EndsOf
<1>5. Cardinality(From(Bads(T), v)) = c + 1
  BY <1>2, FromGrows
<1>6. Severities(T, From(Bads(T), v)) = X \cup {s.severity}
  BY <1>2, SeveritiesGrow
<1>7. X \in SUBSET (1..3) /\ X # {}
  BY <1>1, SeverityType
<1>8. s.severity \in 1..3
  BY DEF Follows
<1> HIDE DEF c, X
<1>9. Max(X \cup {s.severity}) = Worst(Max(X), s.severity)
  BY <1>7, <1>8, WorstIsMax
<1> DEFINE p == Max(X)  q == Worst(p, s.severity)
<1>10. At(T, v) = Episode(v, c + 1, q)
  BY <1>4, <1>5, <1>6, <1>9, Zenon
<1>11. At(S, v) = Episode(v, c, p)
  BY <1>3
<1>12. q = Worst(p, s.severity)
  OBVIOUS
<1> HIDE DEF p, q
<1> DEFINE x == At(S, v)
<1>13. x.count = c /\ x.severity = p
  <2> HIDE DEF x
  <2>1. x = Episode(v, c, p)
    BY <1>11 DEF x
  <2> QED BY <2>1, EpisodeFields
<1>14. Worsened(x, c + 1, q) = Episode(v, c + 1, q)
  <2> HIDE DEF x
  <2>1. x = Episode(v, c, p)
    BY <1>11 DEF x
  <2>2. c + 1 \in Nat /\ q \in 1..3 /\ x \in Records
    <3>1. IsFiniteSet(From(Bads(S), v))
      <4>1. From(Bads(S), v) \in SUBSET Bads(S)
        BY DEF From
      <4> QED BY <1>1, <4>1, FS_Subset, TimelineWindows DEF IsWindows
    <3>2. c \in Nat
      BY <3>1, FS_CardinalityType DEF c
    <3>3. p \in 1..3 /\ q \in 1..3
      BY <1>7, <1>8, WorstIsMax, WorstType DEF p, q
    <3> QED BY <1>2, <2>1, <3>2, <3>3 DEF Records, Episode
  <2> QED BY <2>1, <2>2, EpisodeWorsens
<1> QED BY <1>10, <1>12, <1>13, <1>14, Zenon

LEMMA NormalDegradedAgrees ==
  ASSUME NEW S, NEW s, Follows(S, s), NEW m, Agrees(S, m), s.type = "NORMAL", IsDegraded(S, m)
  PROVE  Agrees(S \cup {s}, Step(m, s))
<1> DEFINE T == S \cup {s}
           n == Step(m, s)
           w == s.window
<1>1. T = S \cup {s} /\ n = Step(m, s) /\ w = s.window
  OBVIOUS
<1> HIDE DEF T, n, w
<1>2. PICK v \in StartsOf(S) : (\A e \in EndsOf(S) : ~(v < e)) /\ m.episode = At(S, v)
  BY DEF IsDegraded
<1>3. v \in Bads(S) /\ m \in Machines /\ m.last \in Bads(S) /\ \A b \in Bads(S) : b <= m.last
  <2>1. v \in Bads(S)
    BY DEF StartsOf, Starts
  <2> QED BY <2>1 DEF Agrees, LastIs
<1>4. /\ Bads(T) = Bads(S) /\ Norms(T) = Norms(S) \cup {w}
      /\ StartsOf(T) = StartsOf(S)
      /\ \A r : r # w => (r \in EndsOf(T) <=> r \in EndsOf(S))
      /\ w \notin EndsOf(S) /\ w \notin Norms(S)
      /\ \A b \in Bads(S) : b < w
  BY <1>1, GrowNormal
<1>5. /\ IsTimeline(S) /\ IsTimeline(T) /\ IsWindows(Bads(S), Norms(S))
      /\ Later(Bads(S), Norms(S), w) /\ w \in Nat
  BY <1>1, TimelineGrows, TimelineWindows DEF Follows
<1>6. v \in Nat /\ m.last \in Nat /\ m.last < w /\ m.normal \in Nat /\ Norms(S) \subseteq Nat
  BY <1>3, <1>4, <1>5 DEF IsWindows, Machines
<1>7. m.normal = Cardinality({x \in Norms(S) : m.last < x}) /\ m.normal < Recovery
  BY DEF IsDegraded
<1>8. w \in EndsOf(T) <=> m.normal + 1 >= Recovery
  BY <1>3, <1>4, <1>5, <1>7, EndsTop DEF EndsOf
<1>9. LastIs(T, m.last)
  BY <1>3, <1>4 DEF LastIs
<1>10. /\ At(S, v) = Episode(v, Cardinality(From(Bads(S), v)), Max(Severities(S, From(Bads(S), v))))
       /\ Severities(T, From(Bads(T), v)) = Severities(S, From(Bads(S), v))
       /\ (\A e \in EndsOf(T) : ~(v < e)) => At(T, v) = At(S, v)
  BY <1>1, <1>2, <1>3, OpenNormal
<1>11. CASE w \notin EndsOf(T)
  <2>1. n = Machine("RECOVERY_PENDING", m.bad, m.normal + 1, m.first, m.last, m.severity,
                    m.episode, m.episodes)
    <3>1. m.normal + 1 < Recovery
      BY <1>6, <1>8, <1>11, Thresholds
    <3>2. CASE m.state = "DEGRADED"
      <4>1. m.normal = 0
        BY <3>2 DEF IsDegraded
      <4> QED BY <1>1, <1>3, <3>2, <4>1, NormalDegraded
    <3>3. CASE m.state = "RECOVERY_PENDING"
      BY <1>1, <1>3, <3>1, <3>3, NormalRecovery, Zenon
    <3> QED BY <3>2, <3>3 DEF IsDegraded
  <2>2. /\ n \in Machines /\ n.state = "RECOVERY_PENDING" /\ n.episode = m.episode
        /\ n.normal = m.normal + 1 /\ n.last = m.last /\ n.episodes = m.episodes
    BY <1>3, <2>1 DEF Machine, Machines
  <2>3. EndsOf(T) = EndsOf(S)
    BY <1>4, <1>11
  <2>4. At(T, v) = At(S, v)
    BY <1>2, <1>10, <2>3
  <2>5. Cardinality({x \in Norms(T) : m.last < x}) = m.normal + 1
    <3>1. {x \in Norms(T) : m.last < x} = {x \in Norms(S) : m.last < x} \cup {w}
      BY <1>4, <1>6
    <3>2. {x \in Norms(S) : m.last < x} \in SUBSET Norms(S)
      OBVIOUS
    <3>3. IsFiniteSet({x \in Norms(S) : m.last < x})
      BY <1>5, <3>2, FS_Subset DEF IsWindows
    <3>4. w \notin {x \in Norms(S) : m.last < x}
      BY <1>4
    <3> QED BY <1>7, <3>1, <3>3, <3>4, FS_AddElement
  <2>6. IsDegraded(T, n)
    <3>1. n.normal < Recovery
      BY <1>6, <1>8, <1>11, <2>2, Thresholds
    <3>2. n.normal = Cardinality({x \in Norms(T) : n.last < x})
      BY <2>2, <2>5
    <3>3. v \in StartsOf(T) /\ (\A e \in EndsOf(T) : ~(v < e)) /\ n.episode = At(T, v)
      BY <1>2, <1>4, <2>2, <2>3, <2>4
    <3> QED BY <2>2, <3>1, <3>2, <3>3 DEF IsDegraded
  <2>7. ToSet(n.episodes) = {At(T, x) : x \in Closed(T)}
    BY <1>1, <1>11, <2>2, NothingCloses DEF Agrees
  <2> QED BY <1>1, <1>9, <2>2, <2>6, <2>7 DEF Agrees
<1>12. CASE w \in EndsOf(T)
  <2> DEFINE y == Over(m.episode, m.last)
  <2>1. m.state = "RECOVERY_PENDING" /\ ~(m.normal + 1 < Recovery)
    <3>1. ~(m.normal + 1 < Recovery)
      BY <1>6, <1>8, <1>12, Thresholds
    <3>2. m.normal # 0
      BY <3>1, Thresholds
    <3> QED BY <3>1, <3>2 DEF IsDegraded
  <2>2. n = Machine("HEALTHY", m.bad, 0, 0, m.last, m.severity, NoEpisode, Append(m.episodes, y))
    BY <1>1, <1>3, <2>1, NormalRecovery, Zenon
  <2>3. y \in Records
    BY <1>3 DEF Machines, Records, Over
  <2>4. y = At(T, v)
    <3>1. \A e \in EndsOf(T) : v < e => e = w
      BY <1>2, <1>4
    <3>2. At(T, v) = [start |-> v, status |-> "RECOVERED", ended |-> m.last,
                      count |-> Cardinality(From(Bads(T), v)),
                      severity |-> Max(Severities(T, From(Bads(T), v)))]
      <4>1. /\ v \in Bads(T) /\ w \in Ends(Bads(T), Norms(T))
            /\ m.last \in Bads(T) /\ (\A b \in Bads(T) : b <= m.last) /\ m.last < w
            /\ \A e \in Ends(Bads(T), Norms(T)) : v < e => e = w
        BY <1>3, <1>4, <1>6, <1>12, <3>1 DEF EndsOf
      <4> QED BY <1>5, <4>1, RecoveredEpisode DEF At
    <3> DEFINE c == Cardinality(From(Bads(S), v))
               p == Max(Severities(S, From(Bads(S), v)))
    <3>3. m.episode = Episode(v, c, p)
      BY <1>2, <1>10
    <3>4. At(T, v) = [start |-> v, status |-> "RECOVERED", ended |-> m.last,
                      count |-> c, severity |-> p]
      BY <1>4, <1>10, <3>2
    <3>5. m.episode \in Records /\ m.last \in Nat
      BY <1>3 DEF Machines
    <3> HIDE DEF c, p
    <3>6. Over(m.episode, m.last) = At(T, v)
      BY <3>3, <3>4, <3>5, EpisodeRecovers
    <3> QED BY <3>6
  <2> HIDE DEF y
  <2>5. m.episodes \in Seq(Records)
    BY <1>3 DEF Machines
  <2>6. /\ Append(m.episodes, y) \in Seq(Records)
        /\ ToSet(Append(m.episodes, y)) = ToSet(m.episodes) \cup {y}
    BY <2>3, <2>5, AppendSet
  <2>7. NoEpisode \in Records
    BY DEF NoEpisode, Episode, Records, Moderate
  <2>8. /\ n \in Machines /\ n.state = "HEALTHY" /\ n.episode = NoEpisode
        /\ n.normal = 0 /\ n.last = m.last /\ n.episodes = Append(m.episodes, y)
    BY <1>3, <2>2, <2>6, <2>7 DEF Machine, Machines
  <2>9. Quiet(T)
    BY <1>1, <1>12, QuietNormal
  <2>10. IsHealthy(T, n)
    <3>1. \A b \in Bads(T) : b < w /\ w \in Norms(T)
      BY <1>4
    <3> QED BY <2>8, <2>9, <3>1 DEF IsHealthy
  <2>11. Closed(T) = Closed(S) \cup {v}
    <3>1. ASSUME NEW x \in StartsOf(S)
          PROVE  x = v \/ \E e \in EndsOf(S) : x < e
      BY <1>2, <1>5, OpenIsOnly DEF StartsOf, EndsOf
    <3>2. \A e \in EndsOf(S) : e \in EndsOf(T)
      BY <1>4
    <3>3. v < w
      BY <1>3, <1>4
    <3> QED BY <1>4, <1>12, <3>1, <3>2, <3>3 DEF Closed
  <2>12. \A x \in Closed(S) : At(T, x) = At(S, x)
    BY <1>1, ClosedKept
  <2>13. ToSet(n.episodes) = {At(T, x) : x \in Closed(T)}
    <3>1. ToSet(m.episodes) = {At(S, x) : x \in Closed(S)}
      BY DEF Agrees
    <3>2. {At(T, x) : x \in Closed(T)} = {At(S, x) : x \in Closed(S)} \cup {y}
      BY <2>4, <2>11, <2>12
    <3> QED BY <2>6, <2>8, <3>1, <3>2
  <2> QED BY <1>1, <1>9, <2>8, <2>10, <2>13 DEF Agrees
<1> QED BY <1>11, <1>12

LEMMA BadHealthyAgrees ==
  ASSUME NEW S, NEW s, Follows(S, s), NEW m, Agrees(S, m), s.type = "BAD", IsHealthy(S, m)
  PROVE  Agrees(S \cup {s}, Step(m, s))
<1> DEFINE T == S \cup {s}
           n == Step(m, s)
           w == s.window
<1>1. T = S \cup {s} /\ n = Step(m, s) /\ w = s.window
  OBVIOUS
<1> HIDE DEF T, n, w
<1>2. /\ m \in Machines /\ m.episode = NoEpisode /\ m.normal = 0 /\ m.state = "HEALTHY"
      /\ Quiet(S) /\ \A b \in Bads(S) : \E x \in Norms(S) : b < x
  BY DEF Agrees, IsHealthy
<1>3. n = Machine("BAD_PENDING", 1, m.normal, w, w, s.severity, m.episode, m.episodes)
  BY <1>1, <1>2, BadHealthy
<1>4. /\ Bads(T) = Bads(S) \cup {w} /\ Norms(T) = Norms(S)
      /\ EndsOf(T) = EndsOf(S) /\ Closed(T) = Closed(S)
      /\ {At(T, v) : v \in Closed(T)} = {At(S, v) : v \in Closed(S)}
      /\ LastIs(T, w)
  BY <1>1, GrowBad
<1>5. /\ IsTimeline(T) /\ w \in Nat /\ Later(Bads(S), Norms(S), w)
      /\ IsWindows(Bads(S), Norms(S)) /\ s.severity \in 1..3
  BY <1>1, TimelineGrows, TimelineWindows DEF Follows
<1>6. /\ \A b \in Bads(S) : b \in Nat /\ b < w
      /\ \A x \in Norms(S) : x \in Nat /\ x < w
  BY <1>5 DEF IsWindows, Later
<1>7. /\ n \in Machines /\ n.state = "BAD_PENDING" /\ n.bad = 1 /\ n.first = w /\ n.last = w
      /\ n.severity = s.severity /\ n.episode = NoEpisode /\ n.normal = 0
      /\ n.episodes = m.episodes
  BY <1>2, <1>3, <1>5 DEF Machine, Machines
<1>8. Quiet(T)
  <2>1. ASSUME NEW u \in Bads(T), StartsRun(Bads(T), Norms(T), u)
        PROVE  \E e \in EndsOf(T) : u < e
    <3>1. StartsRun(Bads(S), Norms(S), u)
      <4>1. ~(Begins(Bads(S), Norms(S), u) /\ \A x \in Norms(S) : x < u)
        <5> SUFFICES ASSUME Begins(Bads(S), Norms(S), u), \A x \in Norms(S) : x < u
                     PROVE  FALSE
          OBVIOUS
        <5>1. u \in Bads(S)
          BY DEF Begins
        <5>2. PICK x \in Norms(S) : u < x
          BY <1>2, <5>1
        <5> QED BY <1>6, <5>1, <5>2
      <4>2. StartsRun(Bads(S) \cup {w}, Norms(S), u)
        BY <1>4, <2>1
      <4> QED BY <1>5, <4>1, <4>2, RunsBad
    <3>2. u \in Bads(S)
      BY <3>1 DEF StartsRun
    <3> QED BY <1>2, <1>4, <3>1, <3>2 DEF Quiet
  <2> QED BY <2>1 DEF Quiet
<1>9. From(Bads(T), w) = {w}
  BY <1>4, <1>5, <1>6 DEF From
<1>10. Cardinality({w}) = 1 /\ 1 < Required
  BY FS_Singleton, Thresholds
<1>11. Max(Severities(T, From(Bads(T), w))) = s.severity
  <2>1. Severities(T, From(Bads(T), w)) = Severities(S, From(Bads(S), w)) \cup {s.severity}
    <3>1. w \in Nat /\ w <= w
      BY <1>5
    <3> QED BY <1>1, <3>1, SeveritiesGrow
  <2>2. From(Bads(S), w) = {}
    BY <1>5, <1>6 DEF From
  <2>3. Severities(S, {}) = {}
    BY DEF Severities
  <2>4. Severities(T, From(Bads(T), w)) = {s.severity}
    BY <2>1, <2>2, <2>3
  <2>5. {s.severity} \in SUBSET Nat /\ s.severity <= s.severity
    BY <1>5
  <2> QED BY <2>4, <2>5, MaxIs
<1>12. Begins(Bads(T), Norms(T), w) /\ \A x \in Norms(T) : x < w
  BY <1>2, <1>4, <1>5, <1>6 DEF Begins
<1>13. IsPending(T, n)
  BY <1>7, <1>8, <1>9, <1>10, <1>11, <1>12 DEF IsPending
<1>14. ToSet(n.episodes) = {At(T, v) : v \in Closed(T)}
  BY <1>4, <1>7 DEF Agrees
<1>15. Agrees(T, n)
  BY <1>4, <1>7, <1>13, <1>14 DEF Agrees
<1> QED BY <1>1, <1>15

LEMMA BadPendingAgrees ==
  ASSUME NEW S, NEW s, Follows(S, s), NEW m, Agrees(S, m), s.type = "BAD", IsPending(S, m)
  PROVE  Agrees(S \cup {s}, Step(m, s))
<1> DEFINE T == S \cup {s}
           n == Step(m, s)
           w == s.window
           f == m.first
           bad == m.bad + 1
           severity == Worst(m.severity, s.severity)
<1>1. T = S \cup {s} /\ n = Step(m, s) /\ w = s.window
  OBVIOUS
<1>2. n = IF bad < Required
            THEN Machine("BAD_PENDING", bad, m.normal, f, w, severity, m.episode, m.episodes)
            ELSE Machine("DEGRADED", bad, m.normal, f, w, severity,
                         Episode(f, bad, severity), m.episodes)
  BY BadPending DEF Agrees, IsPending
<1>3. bad = m.bad + 1 /\ severity = Worst(m.severity, s.severity) /\ f = m.first
  OBVIOUS
<1> HIDE DEF T, n, w, f, bad, severity
<1>4. /\ m \in Machines /\ m.episode = NoEpisode /\ m.normal = 0 /\ m.state = "BAD_PENDING"
      /\ Quiet(S) /\ Begins(Bads(S), Norms(S), f) /\ \A x \in Norms(S) : x < f
      /\ m.bad = Cardinality(From(Bads(S), f)) /\ m.bad < Required
      /\ m.severity = Max(Severities(S, From(Bads(S), f)))
  BY <1>3 DEF Agrees, IsPending
<1>5. /\ Bads(T) = Bads(S) \cup {w} /\ Norms(T) = Norms(S)
      /\ EndsOf(T) = EndsOf(S) /\ Closed(T) = Closed(S)
      /\ {At(T, v) : v \in Closed(T)} = {At(S, v) : v \in Closed(S)}
      /\ LastIs(T, w)
  BY <1>1, GrowBad
<1>6. /\ IsTimeline(T) /\ IsTimeline(S) /\ w \in Nat /\ Later(Bads(S), Norms(S), w)
      /\ IsWindows(Bads(S), Norms(S)) /\ IsWindows(Bads(T), Norms(T)) /\ s.severity \in 1..3
  BY <1>1, TimelineGrows, TimelineWindows DEF Follows
<1>7. f \in Bads(S) /\ f \in Nat /\ f < w /\ f <= w
  BY <1>4, <1>6 DEF Begins, IsWindows, Later
<1>8. /\ \A b \in Bads(S) : b \in Nat /\ b < w
      /\ \A x \in Norms(S) : x \in Nat /\ x < w
  BY <1>6 DEF IsWindows, Later
<1>9. bad \in Nat /\ severity \in 1..3
  BY <1>3, <1>4, <1>6, WorstType DEF Machines
<1>10. Cardinality(From(Bads(T), f)) = bad
  BY <1>1, <1>3, <1>4, <1>7, FromGrows
<1>11. Max(Severities(T, From(Bads(T), f))) = severity
  <2>1. Severities(T, From(Bads(T), f)) = Severities(S, From(Bads(S), f)) \cup {s.severity}
    BY <1>1, <1>7, SeveritiesGrow
  <2>2. Severities(S, From(Bads(S), f)) \in SUBSET (1..3) /\ Severities(S, From(Bads(S), f)) # {}
    BY <1>6, <1>7, SeverityType
  <2> DEFINE X == Severities(S, From(Bads(S), f))
  <2>3. Max(X \cup {s.severity}) = Worst(Max(X), s.severity)
    <3> HIDE DEF X
    <3>1. X \in SUBSET (1..3) /\ X # {}
      BY <2>2 DEF X
    <3> QED BY <1>6, <3>1, WorstIsMax
  <2> QED BY <1>3, <1>4, <2>1, <2>3
<1>12. Begins(Bads(T), Norms(T), f) /\ \A x \in Norms(T) : x < f
  BY <1>4, <1>5, <1>7 DEF Begins
<1>13. \A u : StartsRun(Bads(T), Norms(T), u) =>
               StartsRun(Bads(S), Norms(S), u) \/ (u = f /\ ~(bad < Required))
  <2> TAKE u
  <2> HAVE StartsRun(Bads(T), Norms(T), u)
  <2> SUFFICES ASSUME ~StartsRun(Bads(S), Norms(S), u)
               PROVE  u = f /\ ~(bad < Required)
    OBVIOUS
  <2>1. /\ Begins(Bads(S), Norms(S), u) /\ \A x \in Norms(S) : x < u
        /\ Cardinality({b \in Bads(S) : u <= b}) + 1 >= Required
    BY <1>5, <1>6, RunsBad
  <2>2. u = f
    BY <1>4, <1>6, <2>1, LastStretch
  <2>3. Cardinality({b \in Bads(S) : u <= b}) = m.bad
    BY <1>4, <2>2 DEF From
  <2> QED BY <1>3, <1>9, <2>1, <2>2, <2>3, Thresholds
<1>14. ASSUME NEW u, StartsRun(Bads(S), Norms(S), u)
       PROVE  u \in Bads(S) /\ \E e \in EndsOf(T) : u < e /\ e < f
  <2>1. u \in Bads(S)
    BY <1>14 DEF StartsRun
  <2>2. PICK e \in EndsOf(S) : u < e
    BY <1>4, <1>14, <2>1 DEF Quiet
  <2>3. e \in Norms(S)
    BY DEF EndsOf, Ends
  <2> QED BY <1>4, <1>5, <2>1, <2>2, <2>3
<1>15. ToSet(m.episodes) = {At(T, v) : v \in Closed(T)}
  BY <1>5 DEF Agrees
<1>16. CASE bad < Required
  <2>1. n = Machine("BAD_PENDING", bad, m.normal, f, w, severity, m.episode, m.episodes)
    BY <1>2, <1>16
  <2>2. /\ n \in Machines /\ n.state = "BAD_PENDING" /\ n.bad = bad /\ n.first = f /\ n.last = w
        /\ n.severity = severity /\ n.episode = NoEpisode /\ n.normal = 0
        /\ n.episodes = m.episodes
    BY <1>4, <1>6, <1>7, <1>9, <2>1 DEF Machine, Machines
  <2>3. Quiet(T)
    BY <1>13, <1>14, <1>16 DEF Quiet
  <2>4. IsPending(T, n)
    BY <1>10, <1>11, <1>12, <1>16, <2>2, <2>3 DEF IsPending
  <2>5. Agrees(T, n)
    BY <1>5, <1>15, <2>2, <2>4 DEF Agrees
  <2> QED BY <1>1, <2>5
<1>17. CASE ~(bad < Required)
  <2> DEFINE x == Episode(f, bad, severity)
  <2>1. n = Machine("DEGRADED", bad, m.normal, f, w, severity, x, m.episodes)
    BY <1>2, <1>17
  <2>2. x \in Records
    BY <1>7, <1>9 DEF Episode, Records
  <2>3. f \in StartsOf(T)
    <3>1. StartsRun(Bads(T), Norms(T), f)
      <4>1. Cardinality({b \in Bads(S) : f <= b}) + 1 >= Required
        <5>1. {b \in Bads(S) : f <= b} = From(Bads(S), f)
          BY DEF From
        <5> QED BY <1>3, <1>4, <1>9, <1>17, <5>1, Thresholds
      <4> QED BY <1>4, <1>5, <1>6, <4>1, RunsBad
    <3>2. ASSUME NEW u \in Bads(T), u < f, StartsRun(Bads(T), Norms(T), u)
          PROVE  \E e \in EndsOf(T) : u < e /\ e < f
      <4>1. StartsRun(Bads(S), Norms(S), u)
        BY <1>7, <1>13, <3>2
      <4> QED BY <1>14, <4>1
    <3> QED BY <1>6, <3>1, <3>2, StartsAre DEF StartsOf, EndsOf
  <2>4. \A e \in EndsOf(T) : ~(f < e)
    <3>1. \A e \in EndsOf(T) : e \in Norms(S)
      BY <1>5 DEF EndsOf, Ends
    <3> QED BY <1>4, <1>7, <1>8, <3>1
  <2>5. x = At(T, f)
    <3>1. f \in Bads(T)
      BY <1>5, <1>7
    <3> QED BY <1>6, <1>10, <1>11, <2>4, <3>1, OpenEpisode DEF At, EndsOf
  <2>6. Cardinality({y \in Norms(T) : w < y}) = 0
    <3>1. {y \in Norms(T) : w < y} = {}
      BY <1>5, <1>6 DEF Later, IsWindows
    <3> QED BY <3>1, FS_EmptySet
  <2> HIDE DEF x
  <2>7. /\ n \in Machines /\ n.state = "DEGRADED" /\ n.last = w
        /\ n.episode = x /\ n.normal = 0 /\ n.episodes = m.episodes
    BY <1>4, <1>6, <1>7, <1>9, <2>1, <2>2 DEF Machine, Machines
  <2>8. IsDegraded(T, n)
    BY <2>3, <2>4, <2>5, <2>6, <2>7, Thresholds DEF IsDegraded
  <2>9. Agrees(T, n)
    BY <1>5, <1>15, <2>7, <2>8 DEF Agrees
  <2> QED BY <1>1, <2>9
<1> QED BY <1>16, <1>17

LEMMA BadDegradedAgrees ==
  ASSUME NEW S, NEW s, Follows(S, s), NEW m, Agrees(S, m), s.type = "BAD", IsDegraded(S, m)
  PROVE  Agrees(S \cup {s}, Step(m, s))
<1> DEFINE T == S \cup {s}
           n == Step(m, s)
           w == s.window
           x == Worsened(m.episode, m.episode.count + 1, Worst(m.episode.severity, s.severity))
<1>1. T = S \cup {s} /\ n = Step(m, s) /\ w = s.window
  OBVIOUS
<1>2. n = Machine("DEGRADED", m.bad, 0, m.first, w, m.severity, x, m.episodes)
  BY BadDegraded DEF Agrees, IsDegraded
<1> HIDE DEF T, n, w
<1>3. PICK v \in StartsOf(S) : (\A e \in EndsOf(S) : ~(v < e)) /\ m.episode = At(S, v)
  BY DEF IsDegraded
<1>4. v \in Bads(S) /\ m \in Machines /\ StartsRun(Bads(S), Norms(S), v)
  <2>1. v \in Bads(S) /\ StartsRun(Bads(S), Norms(S), v)
    BY DEF StartsOf, Starts
  <2> QED BY <2>1 DEF Agrees
<1>5. /\ Bads(T) = Bads(S) \cup {w} /\ Norms(T) = Norms(S)
      /\ EndsOf(T) = EndsOf(S) /\ Closed(T) = Closed(S)
      /\ {At(T, u) : u \in Closed(T)} = {At(S, u) : u \in Closed(S)}
      /\ LastIs(T, w)
  BY <1>1, GrowBad
<1>6. /\ w \in Nat /\ Later(Bads(S), Norms(S), w)
      /\ IsWindows(Bads(S), Norms(S)) /\ IsWindows(Bads(T), Norms(T)) /\ s.severity \in 1..3
  BY <1>1, TimelineGrows, TimelineWindows DEF Follows
<1>7. x = At(T, v)
  BY <1>1, <1>3, <1>4, OpenBad DEF x
<1>8. x \in Records
  <2>1. m.episode \in Records
    BY <1>4 DEF Machines
  <2>2. m.episode.count + 1 \in Nat /\ Worst(m.episode.severity, s.severity) \in 1..3
    BY <1>6, <2>1, WorstType DEF Records
  <2> QED BY <2>1, <2>2 DEF Records, Worsened
<1> HIDE DEF x
<1>9. /\ n \in Machines /\ n.state = "DEGRADED" /\ n.last = w
      /\ n.episode = x /\ n.normal = 0 /\ n.episodes = m.episodes
  BY <1>2, <1>4, <1>6, <1>8 DEF Machine, Machines
<1>10. v \in StartsOf(T)
  BY <1>4, <1>5, <1>6, StartsBad DEF StartsOf
<1>11. Cardinality({y \in Norms(T) : w < y}) = 0
  <2>1. {y \in Norms(T) : w < y} = {}
    BY <1>5, <1>6 DEF Later, IsWindows
  <2> QED BY <2>1, FS_EmptySet
<1>12. \A e \in EndsOf(T) : ~(v < e)
  BY <1>3, <1>5
<1>13. IsDegraded(T, n)
  BY <1>7, <1>9, <1>10, <1>11, <1>12, Thresholds DEF IsDegraded
<1>14. ToSet(n.episodes) = {At(T, u) : u \in Closed(T)}
  BY <1>5, <1>9 DEF Agrees
<1>15. Agrees(T, n)
  BY <1>5, <1>9, <1>13, <1>14 DEF Agrees
<1> QED BY <1>1, <1>15

\* The machine goes on saying what the rules find.
LEMMA StepAgrees ==
  ASSUME NEW S, NEW s, Follows(S, s), NEW m, Agrees(S, m)
  PROVE  Agrees(S \cup {s}, Step(m, s))
<1>1. IsHealthy(S, m) \/ IsPending(S, m) \/ IsDegraded(S, m)
  BY DEF Agrees
<1>2. CASE s.type = "BAD"
  BY <1>1, <1>2, BadHealthyAgrees, BadPendingAgrees, BadDegradedAgrees
<1>3. CASE s.type = "NORMAL"
  BY <1>1, <1>3, NormalHealthyAgrees, NormalPendingAgrees, NormalDegradedAgrees
<1>4. CASE s.type \notin {"BAD", "NORMAL"}
  BY <1>4, PauseAgrees
<1> QED BY <1>2, <1>3, <1>4

-----------------------------------------------------------------------------
(* Replay: the machine folded over the latest signals in window order.     *)

\* A fold takes what comes before the last element, then that one.
FoldStep(t, f, s) == IF s = {} THEN Healthy ELSE Step(f[s \ {Max(s)}], t[Max(s)])
FoldOf(t) == CHOOSE f : f = [s \in SUBSET (DOMAIN t) |-> FoldStep(t, f, s)]

LEMMA FoldIs ==
  ASSUME NEW t
  PROVE  FoldLeft(Step, Healthy, t) = FoldOf(t)[DOMAIN t]
BY DEF FoldLeft, MapThenFoldSet, FoldOf, FoldStep

LEMMA GreatestWindow ==
  ASSUME NEW X \in SUBSET Nat, X # {}, NEW n \in Nat, \A x \in X : x <= n
  PROVE  Max(X) \in X /\ \A x \in X : x <= Max(X)
<1> DEFINE U == {u \in Nat : \A x \in X : x <= u}
           m == Min(U)
<1>1. n \in U
  OBVIOUS
<1>2. m \in U /\ \A u \in U : m <= u
  <2>1. U \in SUBSET Nat /\ U # {}
    BY <1>1
  <2> HIDE DEF U
  <2> QED BY <2>1, LeastWindow
<1>3. m \in Nat /\ \A x \in X : x <= m
  BY <1>2
<1>4. m \in X
  <2> SUFFICES ASSUME m \notin X PROVE FALSE
    OBVIOUS
  <2> HIDE DEF m
  <2>1. \A x \in X : x < m /\ x \in Nat
    BY <1>3
  <2>2. m - 1 \in Nat
    <3>1. PICK x \in X : TRUE
      OBVIOUS
    <3>2. x < m /\ x \in Nat
      BY <2>1, <3>1
    <3> QED BY <1>3, <3>2
  <2>3. m - 1 \in U
    <3>1. \A x \in X : x <= m - 1
      BY <1>3, <2>1
    <3> QED BY <2>2, <3>1
  <2> QED BY <1>2, <1>3, <2>3
<1> HIDE DEF m
<1>5. Max(X) = m
  BY <1>3, <1>4, MaxIs
<1> QED BY <1>3, <1>4, <1>5

LEMMA PrefixRest ==
  ASSUME NEW n \in Nat, NEW s \in SUBSET (1..n)
  PROVE  /\ Cardinality(s) \in Nat /\ Cardinality(s) <= n
         /\ s # {} => /\ Max(s) \in s /\ s \ {Max(s)} \in SUBSET (1..n)
                      /\ Cardinality(s \ {Max(s)}) = Cardinality(s) - 1
                      /\ Cardinality(s) > 0
<1>1. IsFiniteSet(1..n) /\ Cardinality(1..n) = n
  <2>1. IsFiniteSet(1..n) /\ Cardinality(1..n) = IF 1 > n THEN 0 ELSE n - 1 + 1
    BY FS_Interval
  <2> QED BY <2>1
<1>2. IsFiniteSet(s) /\ Cardinality(s) \in Nat /\ Cardinality(s) <= n
  BY <1>1, FS_Subset, FS_CardinalityType
<1>3. ASSUME s # {}
      PROVE  /\ Max(s) \in s /\ s \ {Max(s)} \in SUBSET (1..n)
             /\ Cardinality(s \ {Max(s)}) = Cardinality(s) - 1
             /\ Cardinality(s) > 0
  <2>1. s \in SUBSET Nat /\ \A x \in s : x <= n
    OBVIOUS
  <2>2. Max(s) \in s
    BY <1>3, <2>1, GreatestWindow
  <2>3. Cardinality(s \ {Max(s)}) = Cardinality(s) - 1
    BY <1>2, <2>2, FS_RemoveElement
  <2>4. Cardinality(s) # 0
    BY <1>2, <1>3, FS_EmptySet
  <2>5. Cardinality(s) > 0
    <3> DEFINE c == Cardinality(s)
    <3>1. c \in Nat /\ c # 0
      BY <1>2, <2>4
    <3> HIDE DEF c
    <3>2. c > 0
      BY <3>1
    <3> QED BY <3>2 DEF c
  <2>6. s \ {Max(s)} \in SUBSET (1..n)
    OBVIOUS
  <2> QED BY <2>2, <2>3, <2>5, <2>6, Zenon
<1> QED BY <1>2, <1>3

\* The recursion is one: a function of all subsets up to a size extends to the next size.
LEMMA FoldRecursive ==
  ASSUME NEW n \in Nat, NEW t, DOMAIN t = 1..n
  PROVE  \A s \in SUBSET (1..n) : FoldOf(t)[s] = FoldStep(t, FoldOf(t), s)
<1> DEFINE S == 1..n
           Upto(k) == \E f : /\ f = [s \in SUBSET S |-> f[s]]
                             /\ \A s \in SUBSET S : Cardinality(s) <= k => f[s] = FoldStep(t, f, s)
           C == {k \in Nat : ~Upto(k)}
<1>0. \A s \in SUBSET S :
         /\ Cardinality(s) \in Nat /\ Cardinality(s) <= n
         /\ s # {} => /\ s \ {Max(s)} \in SUBSET S
                      /\ Cardinality(s \ {Max(s)}) = Cardinality(s) - 1
                      /\ Cardinality(s) > 0
  <2> TAKE s \in SUBSET S
  <2>1. s \in SUBSET (1..n)
    OBVIOUS
  <2> QED BY <2>1, PrefixRest, Zenon
<1> HIDE DEF S
<1>1. Upto(0)
  <2> DEFINE f == [s \in SUBSET S |-> Healthy]
  <2>1. \A s \in SUBSET S : Cardinality(s) <= 0 => s = {}
    <3> HIDE DEF f
    <3> TAKE s \in SUBSET S
    <3>1. s # {} => Cardinality(s) > 0 /\ Cardinality(s) \in Nat
      BY <1>0
    <3> QED BY <3>1
  <2>2. \A s \in SUBSET S : Cardinality(s) <= 0 => f[s] = FoldStep(t, f, s)
    BY <2>1 DEF FoldStep
  <2>3. f = [s \in SUBSET S |-> f[s]]
    OBVIOUS
  <2> HIDE DEF f
  <2> QED BY <2>2, <2>3
<1>2. ASSUME NEW k \in Nat, Upto(k)
      PROVE  Upto(k + 1)
  <2>1. PICK f : \A s \in SUBSET S : Cardinality(s) <= k => f[s] = FoldStep(t, f, s)
    BY <1>2
  <2> DEFINE g == [s \in SUBSET S |-> IF Cardinality(s) <= k THEN f[s] ELSE FoldStep(t, f, s)]
  <2>2. g = [s \in SUBSET S |-> g[s]]
    OBVIOUS
  <2>3. \A s \in SUBSET S : g[s] = FoldStep(t, f, s)
    BY <2>1
  <2>4. \A s \in SUBSET S : Cardinality(s) <= k => g[s] = f[s]
    OBVIOUS
  <2> HIDE DEF g
  <2>5. ASSUME NEW s \in SUBSET S, Cardinality(s) <= k + 1
        PROVE  g[s] = FoldStep(t, g, s)
    <3>1. CASE s = {}
      BY <2>3, <3>1 DEF FoldStep
    <3>2. CASE s # {}
      <4>1. s \ {Max(s)} \in SUBSET S /\ Cardinality(s \ {Max(s)}) <= k
        BY <1>0, <2>5, <3>2
      <4>2. g[s \ {Max(s)}] = f[s \ {Max(s)}]
        BY <2>4, <4>1
      <4> QED BY <2>3, <3>2, <4>2 DEF FoldStep
    <3> QED BY <3>1, <3>2
  <2> QED BY <2>2, <2>5
<1> HIDE DEF Upto
<1>3. C = {}
  <2> SUFFICES ASSUME C # {} PROVE FALSE
    OBVIOUS
  <2>0. C \in SUBSET Nat
    OBVIOUS
  <2> HIDE DEF C
  <2>1. Min(C) \in C /\ \A k \in C : Min(C) <= k
    BY <2>0, LeastWindow
  <2> DEFINE k == Min(C)
  <2>2. k \in Nat /\ ~Upto(k) /\ k # 0
    BY <1>1, <2>1 DEF C
  <2>3. k - 1 \in Nat /\ k - 1 \notin C
    <3> HIDE DEF k
    <3>1. \A j \in C : k <= j
      BY <2>1 DEF k
    <3>2. k - 1 \in Nat
      BY <2>2
    <3> QED BY <2>2, <3>1, <3>2
  <2>4. Upto(k - 1)
    BY <2>3 DEF C
  <2> HIDE DEF k
  <2>5. Upto(k - 1 + 1)
    BY <1>2, <2>3, <2>4
  <2>6. k - 1 + 1 = k
    BY <2>2
  <2> QED BY <2>2, <2>5, <2>6
<1>5. Upto(n)
  BY <1>3
<1>6. PICK f : /\ f = [s \in SUBSET S |-> f[s]]
               /\ \A s \in SUBSET S : f[s] = FoldStep(t, f, s)
  BY <1>0, <1>5 DEF Upto
<1>7. f = [s \in SUBSET S |-> FoldStep(t, f, s)]
  BY <1>6, Zenon
<1>8. DOMAIN t = S
  BY DEF S
<1>9. FoldOf(t) = [s \in SUBSET S |-> FoldStep(t, FoldOf(t), s)]
  BY <1>7, <1>8, Zenon DEF FoldOf
<1>10. \A s \in SUBSET S : FoldOf(t)[s] = FoldStep(t, FoldOf(t), s)
  BY <1>9, Zenon
<1> QED BY <1>10 DEF S

LEMMA NothingAgrees == Agrees({}, Healthy)
<1>1. Bads({}) = {} /\ Norms({}) = {}
  BY DEF Bads, Norms, OfType
<1>2. StartsOf({}) = {} /\ EndsOf({}) = {} /\ Closed({}) = {}
  BY <1>1 DEF StartsOf, Starts, EndsOf, Ends, Closed
<1>3. Healthy \in Machines
  BY DEF Healthy, Machines, NoEpisode, Episode, Records, Moderate
<1>4. IsHealthy({}, Healthy)
  BY <1>1 DEF IsHealthy, Quiet, Healthy
<1>5. ToSet(Healthy.episodes) = {}
  BY DEF Healthy, ToSet
<1>6. LastIs({}, Healthy.last)
  BY <1>1 DEF LastIs
<1> QED BY <1>2, <1>3, <1>4, <1>5, <1>6 DEF Agrees

\* What a fold over a timeline in window order ends with
LEMMA FoldAgrees ==
  ASSUME NEW n \in Nat, NEW t, DOMAIN t = 1..n,
         \A i \in 1..n : t[i].window \in Windows /\ t[i].severity \in 1..3,
         \A i, j \in 1..n : i < j => t[i].window < t[j].window
  PROVE  Agrees({t[i] : i \in 1..n}, FoldLeft(Step, Healthy, t))
<1> DEFINE P(k) == {t[i] : i \in 1..k}
           M(k) == FoldOf(t)[1..k]
           C == {k \in Nat : k <= n /\ ~Agrees(P(k), M(k))}
<1>1. M(0) = Healthy
  <2>1. {} \in SUBSET (1..n) /\ 1..0 = {}
    OBVIOUS
  <2>2. FoldOf(t)[{}] = FoldStep(t, FoldOf(t), {})
    BY <2>1, FoldRecursive
  <2> QED BY <2>1, <2>2 DEF FoldStep
<1>2. Agrees(P(0), M(0))
  <2>1. P(0) = {}
    OBVIOUS
  <2> HIDE DEF P, M
  <2> QED BY <1>1, <2>1, NothingAgrees
<1>3. ASSUME NEW k \in Nat, k + 1 <= n
      PROVE  M(k + 1) = Step(M(k), t[k + 1]) /\ P(k + 1) = P(k) \cup {t[k + 1]}
  <2>1. /\ 1..(k + 1) \in SUBSET (1..n) /\ 1..(k + 1) # {}
        /\ 1..(k + 1) = 1..k \cup {k + 1} /\ (1..(k + 1)) \ {k + 1} = 1..k
    <3>1. \A i : i \in 1..(k + 1) <=> i \in 1..k \/ i = k + 1
      BY <1>3
    <3>2. k + 1 \notin 1..k /\ k + 1 \in 1..(k + 1)
      BY <1>3
    <3>3. \A i \in 1..(k + 1) : i \in 1..n
      BY <1>3
    <3> QED BY <3>1, <3>2, <3>3
  <2>2. Max(1..(k + 1)) = k + 1
    <3>1. 1..(k + 1) \in SUBSET Nat /\ k + 1 \in 1..(k + 1) /\ \A x \in 1..(k + 1) : x <= k + 1
      BY <1>3
    <3> QED BY <3>1, MaxIs
  <2>3. FoldOf(t)[1..(k + 1)] = FoldStep(t, FoldOf(t), 1..(k + 1))
    BY <2>1, FoldRecursive
  <2>4. M(k + 1) = Step(M(k), t[k + 1])
    BY <2>1, <2>2, <2>3 DEF FoldStep
  <2>5. P(k + 1) = P(k) \cup {t[k + 1]}
    BY <2>1
  <2> QED BY <2>4, <2>5
<1>4. ASSUME NEW k \in Nat, k + 1 <= n
      PROVE  Follows(P(k), t[k + 1])
  <2>1. \A i \in 1..k : i \in 1..n /\ i < k + 1 /\ k + 1 \in 1..n
    BY <1>4
  <2>2. k + 1 \in 1..n
    BY <1>4
  <2>3. \A x \in P(k) : x.window \in Windows /\ x.severity \in 1..3 /\ x.window < t[k + 1].window
    BY <2>1
  <2>4. ASSUME NEW i \in 1..k, NEW j \in 1..k, t[i].window = t[j].window
        PROVE  t[i] = t[j]
    <3>1. i \in 1..n /\ j \in 1..n
      BY <2>1
    <3>2. t[i].window \in Nat
      <4>1. Windows \subseteq Nat
        BY DegradationAssumption DEF DegradationAssumption, Windows
      <4> QED BY <3>1, <4>1
    <3>3. ~(i < j) /\ ~(j < i)
      BY <2>4, <3>1, <3>2
    <3> QED BY <3>1, <3>3
  <2>5. \A x, y \in P(k) : x.window = y.window => x = y
    BY <2>4
  <2> QED BY <2>2, <2>3, <2>5 DEF Follows, IsTimeline
<1>5. ASSUME NEW k \in Nat, k + 1 <= n, Agrees(P(k), M(k))
      PROVE  Agrees(P(k + 1), M(k + 1))
  <2>1. M(k + 1) = Step(M(k), t[k + 1]) /\ P(k + 1) = P(k) \cup {t[k + 1]} /\ Follows(P(k), t[k + 1])
    BY <1>3, <1>4, <1>5
  <2> HIDE DEF M, P
  <2>2. Agrees(P(k) \cup {t[k + 1]}, Step(M(k), t[k + 1]))
    BY <1>5, <2>1, StepAgrees
  <2> QED BY <2>1, <2>2
<1> HIDE DEF M, P
<1>6. C = {}
  <2> SUFFICES ASSUME C # {} PROVE FALSE
    OBVIOUS
  <2>0. C \in SUBSET Nat
    OBVIOUS
  <2> DEFINE k == Min(C)
  <2>1. k \in C /\ \A j \in C : k <= j
    <3> HIDE DEF C
    <3> QED BY <2>0, LeastWindow
  <2> HIDE DEF k
  <2>2. k \in Nat /\ k <= n /\ ~Agrees(P(k), M(k)) /\ k # 0
    BY <1>2, <2>1
  <2>3. k - 1 \in Nat /\ k - 1 \notin C /\ k - 1 + 1 = k /\ k - 1 <= n
    <3>1. k - 1 \in Nat /\ k - 1 + 1 = k /\ k - 1 <= n /\ ~(k <= k - 1)
      BY <2>2
    <3> QED BY <2>1, <3>1
  <2>4. Agrees(P(k - 1), M(k - 1))
    BY <2>3
  <2> HIDE DEF C
  <2>5. Agrees(P(k - 1 + 1), M(k - 1 + 1))
    BY <1>5, <2>2, <2>3, <2>4
  <2> QED BY <2>2, <2>3, <2>5
<1>7. Agrees(P(n), M(n))
  BY <1>6
<1>8. FoldLeft(Step, Healthy, t) = M(n)
  BY FoldIs DEF M
<1> QED BY <1>7, <1>8 DEF P

\* The latest signals in window order: as many windows as there are up to and including
\* its own tell the place of each.
LEMMA LatestIs ==
  ASSUME NEW S, IsTimeline(Current(S)), IsFiniteSet(Current(S))
  PROVE  LET C == Current(S)
             n == Cardinality(C)
             t == Latest(S)
         IN /\ n \in Nat /\ DOMAIN t = 1..n /\ {t[i] : i \in 1..n} = C
            /\ \A i, j \in 1..n : i < j => t[i].window < t[j].window
<1> DEFINE C == Current(S)
           n == Cardinality(C)
           t == Latest(S)
           Upto(s) == {u \in C : u.window <= s.window}
           rank(s) == Cardinality(Upto(s))
           f == [s \in C |-> rank(s)]
<1>1. n \in Nat /\ IsFiniteSet(C)
  BY FS_CardinalityType
<1>2. \A s \in C : s.window \in Nat
  <2>1. Windows \subseteq Nat
    BY DegradationAssumption DEF DegradationAssumption, Windows
  <2> QED BY <2>1 DEF IsTimeline
<1>3. \A s, u \in C : s.window = u.window => s = u
  BY DEF IsTimeline
<1>4. t = [i \in 1..n |-> CHOOSE s \in C : rank(s) = i]
  BY DEF Latest
<1> HIDE DEF C, n, t
<1>5. \A s \in C : IsFiniteSet(Upto(s)) /\ rank(s) \in Nat /\ Upto(s) \in SUBSET C /\ rank(s) <= n
  <2> TAKE s \in C
  <2>1. Upto(s) \in SUBSET C
    OBVIOUS
  <2> QED BY <1>1, <2>1, FS_Subset, FS_CardinalityType DEF n
<1>6. \A s, u \in C : s.window < u.window => rank(s) < rank(u)
  <2> TAKE s, u \in C
  <2> HAVE s.window < u.window
  <2>1. Upto(s) \in SUBSET Upto(u)
    BY <1>2
  <2>2. u \in Upto(u) /\ u \notin Upto(s)
    BY <1>2
  <2>3. rank(s) <= rank(u) /\ rank(s) # rank(u)
    BY <1>5, <2>1, <2>2, FS_Subset
  <2>4. rank(s) \in Nat /\ rank(u) \in Nat
    BY <1>5
  <2> QED BY <2>3, <2>4
<1>7. \A s \in C : rank(s) \in 1..n
  <2> TAKE s \in C
  <2>1. s \in Upto(s)
    BY <1>2
  <2>2. rank(s) # 0
    BY <1>5, <2>1, FS_EmptySet
  <2>3. rank(s) \in Nat /\ rank(s) <= n
    BY <1>5
  <2> HIDE DEF rank
  <2> QED BY <1>1, <2>2, <2>3
<1>8. \A s, u \in C : rank(s) = rank(u) => s = u
  <2> TAKE s, u \in C
  <2> HAVE rank(s) = rank(u)
  <2>1. rank(s) \in Nat /\ rank(u) \in Nat
    BY <1>5
  <2>2. ~(s.window < u.window) /\ ~(u.window < s.window)
    <3>1. rank(s) = rank(u)
      OBVIOUS
    <3> HIDE DEF rank
    <3> QED BY <1>6, <2>1, <3>1
  <2> QED BY <1>2, <1>3, <2>2
<1> HIDE DEF rank
<1>9. f \in Injection(C, 1..n)
  <2>1. f \in [C -> 1..n]
    BY <1>7
  <2>2. IsInjective(f)
    BY <1>8 DEF IsInjective
  <2> QED BY <2>1, <2>2 DEF Injection
<1>10. IsFiniteSet(1..n) /\ Cardinality(1..n) = n
  <2>1. IsFiniteSet(1..n) /\ Cardinality(1..n) = IF 1 > n THEN 0 ELSE n - 1 + 1
    BY <1>1, FS_Interval
  <2> QED BY <1>1, <2>1
<1>11. f \in Surjection(C, 1..n)
  <2>1. Cardinality(C) = Cardinality(1..n)
    BY <1>10 DEF n
  <2> HIDE DEF f
  <2> QED BY <1>9, <1>10, <2>1, FS_Injection
<1>12. \A i \in 1..n : \E s \in C : rank(s) = i
  BY <1>11 DEF Surjection
<1>13. \A i \in 1..n : t[i] \in C /\ rank(t[i]) = i
  <2> TAKE i \in 1..n
  <2>1. t[i] = CHOOSE s \in C : rank(s) = i
    BY <1>4
  <2> QED BY <1>12, <2>1, Zenon
<1>14. \A s \in C : t[rank(s)] = s
  BY <1>7, <1>8, <1>13
<1>15. {t[i] : i \in 1..n} = C
  BY <1>7, <1>13, <1>14
<1>16. \A i, j \in 1..n : i < j => t[i].window < t[j].window
  <2> TAKE i, j \in 1..n
  <2> HAVE i < j
  <2>1. t[i] \in C /\ t[j] \in C /\ rank(t[i]) = i /\ rank(t[j]) = j
    BY <1>13
  <2>2. t[i].window # t[j].window
    BY <1>3, <2>1
  <2>3. ~(t[j].window < t[i].window)
    <3> SUFFICES ASSUME t[j].window < t[i].window PROVE FALSE
      OBVIOUS
    <3>1. j < i
      BY <1>6, <2>1
    <3> QED BY <3>1
  <2> QED BY <1>2, <2>1, <2>2, <2>3
<1>17. DOMAIN t = 1..n
  BY <1>4
<1> QED BY <1>1, <1>15, <1>16, <1>17 DEF C, n, t

\* What the machine finds in a timeline is what the rules find.
LEMMA MachineMeetsRules ==
  ASSUME NEW S, IsTimeline(Current(S)), IsFiniteSet(Current(S))
  PROVE  /\ Reconcile(Latest(S)) \in Seq(Records)
         /\ ToSet(Reconcile(Latest(S))) = ExpectedEpisodes(Current(S))
<1> DEFINE C == Current(S)
           n == Cardinality(C)
           t == Latest(S)
           m == FoldLeft(Step, Healthy, t)
<1>1. /\ n \in Nat /\ DOMAIN t = 1..n /\ {t[i] : i \in 1..n} = C
      /\ \A i, j \in 1..n : i < j => t[i].window < t[j].window
  BY LatestIs
<1>2. IsTimeline(C)
  OBVIOUS
<1>3. Reconcile(t) = IF m.episode = NoEpisode THEN m.episodes ELSE Append(m.episodes, m.episode)
  BY DEF Reconcile
<1> HIDE DEF C, n, t
<1>4. Agrees(C, m)
  <2>1. \A i \in 1..n : t[i] \in C
    BY <1>1
  <2>2. \A i \in 1..n : t[i].window \in Windows /\ t[i].severity \in 1..3
    BY <1>2, <2>1 DEF IsTimeline
  <2>3. Agrees({t[i] : i \in 1..n}, m)
    BY <1>1, <2>2, FoldAgrees
  <2> QED BY <1>1, <2>3
<1> HIDE DEF m
<1>5. ExpectedEpisodes(C) = {At(C, v) : v \in StartsOf(C)}
  BY DEF ExpectedEpisodes, At, StartsOf, Bads, Norms
<1>6. m \in Machines /\ ToSet(m.episodes) = {At(C, v) : v \in Closed(C)}
  BY <1>4 DEF Agrees
<1>7. IsWindows(Bads(C), Norms(C))
  BY <1>2, TimelineWindows
<1>8. CASE IsHealthy(C, m) \/ IsPending(C, m)
  <2>1. m.episode = NoEpisode /\ Quiet(C)
    BY <1>8 DEF IsHealthy, IsPending
  <2>2. \A v \in StartsOf(C) : v \in Bads(C) /\ StartsRun(Bads(C), Norms(C), v)
    BY DEF StartsOf, Starts
  <2>3. Closed(C) = StartsOf(C)
    BY <2>1, <2>2 DEF Quiet, Closed
  <2>4. ToSet(Reconcile(t)) = ExpectedEpisodes(C) /\ Reconcile(t) \in Seq(Records)
    BY <1>3, <1>5, <1>6, <2>1, <2>3 DEF Machines
  <2> QED BY <2>4 DEF t, C
<1>9. CASE IsDegraded(C, m)
  <2>1. PICK v \in StartsOf(C) : (\A e \in EndsOf(C) : ~(v < e)) /\ m.episode = At(C, v)
    BY <1>9 DEF IsDegraded
  <2>2. v \in Bads(C)
    BY DEF StartsOf, Starts
  <2>3. v # 0
    <3>1. v \in Windows
      BY <1>2, <2>2 DEF Bads, OfType, IsTimeline
    <3> QED BY <3>1, DegradationAssumption DEF Windows, DegradationAssumption
  <2>4. m.episode # NoEpisode
    <3>1. m.episode.start = v
      BY <2>1 DEF At, EpisodeAt
    <3>2. NoEpisode.start = 0
      BY DEF NoEpisode, Episode
    <3> QED BY <2>3, <3>1, <3>2
  <2>5. /\ Append(m.episodes, m.episode) \in Seq(Records)
        /\ ToSet(Append(m.episodes, m.episode)) = ToSet(m.episodes) \cup {m.episode}
    <3>1. m.episodes \in Seq(Records) /\ m.episode \in Records
      BY <1>6 DEF Machines
    <3> QED BY <3>1, AppendSet
  <2>6. StartsOf(C) = Closed(C) \cup {v}
    <3>1. ASSUME NEW x \in StartsOf(C)
          PROVE  x = v \/ \E e \in EndsOf(C) : x < e
      BY <1>7, <2>1, OpenIsOnly DEF StartsOf, EndsOf
    <3> QED BY <3>1 DEF Closed
  <2>7. {At(C, x) : x \in StartsOf(C)} = {At(C, x) : x \in Closed(C)} \cup {At(C, v)}
    BY <2>6
  <2>8. ToSet(Reconcile(t)) = ExpectedEpisodes(C) /\ Reconcile(t) \in Seq(Records)
    BY <1>3, <1>5, <1>6, <2>1, <2>4, <2>5, <2>7
  <2> QED BY <2>8 DEF t, C
<1> QED BY <1>4, <1>8, <1>9 DEF Agrees

-----------------------------------------------------------------------------
(* The timelines that tasks read                                           *)

IsSignal(s) == s.window \in Windows /\ s.severity \in 1..3

\* Every signal is the evaluation of some window.
RowInv ==
  /\ \A s \in signals : IsSignal(s)
  /\ \A d \in Deliveries : \A s \in new[d].signals : IsSignal(s)
  /\ DOMAIN plan = Deliveries

LEMMA SignalIsSignal ==
  ASSUME NEW w \in Windows, NEW c, NEW v
  PROVE  IsSignal(SignalOf(w, c, v))
<1>1. SeverityOf(c) \in 1..3
  <2> DEFINE critical == Drop(c) >= 30 * Total(c) \/ (Baseline >= 5 /\ Relative(c, 50))
             high     == Drop(c) >= 15 * Total(c) \/ (Baseline >= 5 /\ Relative(c, 25))
  <2>1. SeverityOf(c) = CASE critical          -> Critical
                          [] ~critical /\ high -> High
                          [] OTHER             -> Moderate
    BY DEF SeverityOf
  <2> HIDE DEF critical, high
  <2> QED BY <2>1 DEF Critical, High, Moderate
<1> QED BY <1>1 DEF IsSignal, SignalOf, Moderate

LEMMA RowStep ==
  ASSUME SignalInv, RowInv, NEW d \in Deliveries, Action(d)
  PROVE  RowInv'
<1> USE DEF RowInv
<1>1. DOMAIN plan' = Deliveries
  BY DEF Action, Ingest, ReadEvents, SaveSnapshot, SelectSnapshot, NextVersion, AppendSignal,
         Replay, Compare, UpsertEpisode, Commit, Fail, EndTask
<1>2. ASSUME NEW s \in signals'
      PROVE  IsSignal(s)
  <2>1. signals' = signals \/ signals' = ViewSignals(d)
    BY DEF Action, Ingest, ReadEvents, SaveSnapshot, SelectSnapshot, NextVersion, AppendSignal,
           Replay, Compare, UpsertEpisode, Commit, Fail, tables
  <2> QED BY <1>2, <2>1 DEF ViewSignals
<1>3. ASSUME NEW o \in Deliveries, NEW s \in new'[o].signals
      PROVE  IsSignal(s)
  <2>1. CASE o # d
    BY <1>3, <2>1, Others DEF SignalInv
  <2>2. CASE o = d
    <3> DEFINE x == SignalOf(WindowOf[d], read[d], version[d])
    <3>1. IsSignal(x)
      <4>1. WindowOf[d] \in Windows
        BY DegradationAssumption DEF DegradationAssumption
      <4> QED BY <4>1, SignalIsSignal
    <3> HIDE DEF x
    <3>2. new'[d].signals \in {new[d].signals, {}, new[d].signals \cup {x}}
      <4>1. DOMAIN new = Deliveries
        BY DEF SignalInv, TypeInv
      <4>2. CASE EndTask(d, "failed") \/ EndTask(d, "done")
        BY <4>1, <4>2 DEF EndTask, NoRows
      <4>3. CASE AppendSignal(d) /\ ~Taken(signals, d)
        <5>1. new' = [new EXCEPT ![d].signals = @ \cup {x}]
          BY <4>3 DEF AppendSignal, x
        <5> QED BY <4>1, <5>1
      <4>4. CASE UpsertEpisode(d)
        <5>1. new' = [new EXCEPT ![d].episodes = Upsert(@, Head(plan[d]))]
          BY <4>4 DEF UpsertEpisode
        <5> QED BY <4>1, <5>1
      <4>5. CASE new' = new
        BY <4>5
      <4> QED
        BY <4>2, <4>3, <4>4, <4>5
           DEF Action, Ingest, ReadEvents, SaveSnapshot, SelectSnapshot, NextVersion, AppendSignal,
               Replay, Compare, Commit, Fail, task
    <3> QED BY <1>3, <2>2, <3>1, <3>2
  <2> QED BY <2>1, <2>2
<1> QED BY <1>1, <1>2, <1>3

\* Whatever evaluate_snapshot has committed or a task holds uncommitted is the evaluation of
\* a window, with a version of its own: get_latest_signals_for_segment finds at most one
\* latest signal of each window.
THEOREM TimelinesInductive == Spec => [](SignalInv /\ RowInv)
<1>1. Init => RowInv
  <2> SUFFICES ASSUME Init PROVE RowInv
    OBVIOUS
  <2>1. \A w \in 1..Past : IsSignal(SignalOf(w, counts[w], 1))
    <3>1. 1..Past \subseteq Windows
      BY DegradationAssumption DEF DegradationAssumption, Windows
    <3> QED BY <3>1, SignalIsSignal
  <2> QED BY <2>1 DEF Init, RowInv, NoRows
<1>2. SignalInv /\ RowInv /\ [Next]_vars => RowInv'
  <2>1. SignalInv /\ RowInv /\ Next => RowInv'
    BY RowStep DEF Next, Action
  <2>2. RowInv /\ UNCHANGED vars => RowInv'
    BY DEF RowInv, vars, tables, task
  <2> QED BY <2>1, <2>2
<1> QED BY <1>1, <1>2, SignalInductive, PTL DEF Spec

LEMMA TimelineFinite ==
  ASSUME NEW S, IsTimeline(S)
  PROVE  IsFiniteSet(S)
<1> DEFINE f == [s \in S |-> s.window]
<1>1. f \in [S -> Windows]
  BY DEF IsTimeline
<1>2. IsInjective(f)
  BY DEF IsTimeline, IsInjective
<1>3. f \in Injection(S, Windows)
  BY <1>1, <1>2 DEF Injection
<1>4. IsFiniteSet(Windows)
  BY DegradationAssumption, FS_Interval DEF DegradationAssumption, Windows
<1> HIDE DEF f
<1> QED BY <1>3, <1>4, FS_Injection

\* In what a task sees there is one latest signal for each window that has any.
LEMMA ViewIsTimeline ==
  ASSUME SignalInv, RowInv, NEW d \in Deliveries
  PROVE  IsTimeline(Current(ViewSignals(d))) /\ IsFiniteSet(Current(ViewSignals(d)))
<1> DEFINE V == ViewSignals(d)
           C == Current(V)
<1>1. \A s \in V : IsSignal(s)
  BY DEF RowInv, ViewSignals
<1>2. \A s \in signals : s.version \in Versions(s.window) /\ s.version \in Nat
  <2> TAKE s \in signals
  <2>1. s.window \in Windows
    BY DEF RowInv, IsSignal
  <2>2. PICK n \in Nat : Versions(s.window) = 1..n
    BY <2>1 DEF SignalInv, LogInv
  <2>3. s.version \in Versions(s.window)
    BY DEF Versions, LogOf
  <2> QED BY <2>2, <2>3
<1>3. ASSUME NEW s \in new[d].signals
      PROVE  /\ new[d].signals = {s} /\ s.version \in Nat
             /\ \A t \in signals : t.window = s.window => t.version # s.version
  <2>1. pc[d] \in Holding
    BY <1>3 DEF SignalInv, HeldInv
  <2>2. new[d].signals = {s} /\ s.window = WindowOf[d] /\ s.version = version[d]
    BY <1>3, <2>1 DEF SignalInv, HeldInv
  <2>3. version[d] \in Nat /\ Versions(WindowOf[d]) = 1 .. version[d] - 1
    BY <2>1 DEF SignalInv, TypeInv, NextInv
  <2>4. version[d] \notin Versions(WindowOf[d])
    BY <2>3
  <2>5. \A t \in signals : t.window = WindowOf[d] => t.version \in Versions(WindowOf[d])
    BY <1>2
  <2> QED BY <2>2, <2>3, <2>4, <2>5
<1>4. \A s \in V : s.version \in Nat
  BY <1>2, <1>3 DEF ViewSignals
<1>5. \A s, t \in V : s.window = t.window /\ s.version = t.version => s = t
  BY <1>3 DEF SignalInv, LogInv, ViewSignals
<1> HIDE DEF V
<1>6. \A s, t \in C : s.window = t.window => s = t
  <2> TAKE s, t \in C
  <2> HAVE s.window = t.window
  <2>1. s \in V /\ t \in V /\ t.version <= s.version /\ s.version <= t.version
    BY DEF Current
  <2>2. s.version = t.version
    BY <1>4, <2>1
  <2> QED BY <1>5, <2>1, <2>2
<1>7. \A s \in C : IsSignal(s)
  BY <1>1 DEF Current
<1>8. IsTimeline(C)
  BY <1>6, <1>7 DEF IsTimeline, IsSignal
<1> QED BY <1>8, TimelineFinite DEF V

\* Property ReplayMeetsRules: the episodes that a task plans to store when it has replayed
\* are those that the rules of reconcile_timeline's documentation find in the latest signals
\* it sees, whichever they are and whoever has written them.
THEOREM ReplayAlwaysMeetsRules == Spec => ReplayMeetsRules
<1> DEFINE A == \A d \in Deliveries : pc[d] = "replay" /\ pc'[d] = "compare" =>
                  ToSet(plan'[d]) = ExpectedEpisodes(Current(ViewSignals(d)))
<1>1. SignalInv /\ RowInv /\ [Next]_vars => [A]_vars
  <2> SUFFICES ASSUME SignalInv, RowInv, NEW e \in Deliveries, Action(e),
                      NEW d \in Deliveries, pc[d] = "replay", pc'[d] = "compare"
               PROVE  ToSet(plan'[d]) = ExpectedEpisodes(Current(ViewSignals(d)))
    BY DEF Next, Action
  <2>1. d = e
    BY Others DEF SignalInv
  <2>2. Replay(d)
    BY <2>1 DEF Action, Ingest, ReadEvents, SaveSnapshot, SelectSnapshot, NextVersion,
                AppendSignal, Compare, UpsertEpisode, Commit, Fail, EndTask, SignalInv, TypeInv
  <2>3. plan'[d] = Reconcile(Latest(ViewSignals(d)))
    BY <2>2 DEF Replay, RowInv
  <2> QED BY <2>3, ViewIsTimeline, MachineMeetsRules
<1>2. ReplayMeetsRules <=> [][A]_vars
  BY DEF ReplayMeetsRules
<1> QED BY <1>1, <1>2, TimelinesInductive, PTL DEF Spec

-----------------------------------------------------------------------------
(* Convergence                                                             *)

Stored == [start : Nat, status : {"ACTIVE", "RECOVERED", "INVALIDATED"}, ended : Nat,
           count : Nat, severity : 1..3]

Keyed(E)    == \A x, y \in E : x.start = y.start => x = y
IsTable(E)  == E \subseteq Stored /\ IsFiniteSet(E) /\ Keyed(E)
Valid(E)    == {x \in E : x.status # "INVALIDATED"}
StartsIn(E) == {x.start : x \in E}

\* Episodes are rows of a table keyed by their start, and so are those to be upserted.
TableInv ==
  /\ DOMAIN counts = Windows /\ DOMAIN read = Deliveries
  /\ IsTable(episodes)
  /\ \A d \in Deliveries : IsTable(new[d].episodes) /\ (pc[d] # "upsert" => new[d].episodes = {})
  /\ \A d \in Deliveries : plan[d] \in Seq(Stored) /\ Keyed(ToSet(plan[d]))

\* Nothing has failed, and tasks have run one after the other.
Calm == ~overlapped /\ faults = 0 /\ \A d \in Deliveries : pc[d] # "failed"

AloneInv ==
  \A d, o \in Deliveries : pc[d] \in Running /\ pc[o] \in Running => d = o

\* The latest signal of w is the evaluation of its events.
Evaluated(w) ==
  /\ \A s \in Current(signals) : s.window = w => s = SignalOf(w, counts[w], s.version)
  /\ LogOf(w) = {} => counts[w] = NoCounts

\* No task of w is scheduled or at work.
Settled(w) == \A d \in Deliveries : WindowOf[d] = w => pc[d] \in {"none", "done"}

EvaluatedInv == \A w \in Windows : Settled(w) => Evaluated(w)

\* Nothing has been stored since d has read its events.
UpToDate(d) ==
  pc[d] \in Running /\ \A o \in Deliveries : WindowOf[o] = WindowOf[d] => pc[o] # "scheduled"

HandInv ==
  \A d \in Deliveries : UpToDate(d) =>
    /\ pc[d] \in {"save", "number", "append"} => read[d] = counts[WindowOf[d]]
    /\ pc[d] = "select" =>
         \A x \in snapshots : x.window = WindowOf[d] => x.counts = counts[WindowOf[d]]
    /\ \A s \in new[d].signals : s = SignalOf(WindowOf[d], counts[WindowOf[d]], s.version)

\* The table when d has upserted what it plans
After(d) ==
  {x \in ViewEpisodes(d) : x.start \notin StartsIn(ToSet(plan[d]))} \cup ToSet(plan[d])

EpisodesInv ==
  /\ Valid(episodes) = ExpectedEpisodes(Current(signals))
  /\ \A d \in Deliveries : pc[d] = "compare" =>
       ToSet(plan[d]) = ExpectedEpisodes(Current(ViewSignals(d)))
  /\ \A d \in Deliveries : pc[d] = "upsert" =>
       Valid(After(d)) = ExpectedEpisodes(Current(ViewSignals(d)))

CalmInv == Calm => AloneInv /\ EvaluatedInv /\ HandInv /\ EpisodesInv

LEMMA SetFinite ==
  ASSUME NEW X, NEW q \in Seq(X)
  PROVE  ToSet(q) \subseteq X /\ IsFiniteSet(ToSet(q))
<1>1. Len(q) \in Nat /\ DOMAIN q = 1..Len(q) /\ \A i \in 1..Len(q) : q[i] \in X
  OBVIOUS
<1>2. q \in Surjection(1..Len(q), ToSet(q))
  <2>1. q \in [1..Len(q) -> ToSet(q)]
    BY <1>1 DEF ToSet
  <2> QED BY <1>1, <2>1 DEF ToSet, Surjection
<1>3. IsFiniteSet(1..Len(q))
  BY <1>1, FS_Interval
<1> QED BY <1>1, <1>2, <1>3, FS_Surjection DEF ToSet

LEMMA SetSequence ==
  ASSUME NEW X, NEW E \in SUBSET X, IsFiniteSet(E)
  PROVE  SetToSeq(E) \in Seq(X) /\ ToSet(SetToSeq(E)) = E
<1> DEFINE n == Cardinality(E)
           f == SetToSeq(E)
<1>1. n \in Nat /\ ExistsBijection(1..n, E)
  BY FS_CardinalityType
<1>2. PICK g : g \in Bijection(1..n, E)
  BY <1>1 DEF ExistsBijection
<1>3. g \in [1..n -> E] /\ IsInjective(g)
  BY <1>2 DEF Bijection, Injection
<1>4. f \in [1..n -> E] /\ IsInjective(f)
  BY <1>3 DEF SetToSeq
<1>5. f \in Injection(1..n, E)
  BY <1>4 DEF Injection
<1> HIDE DEF f
<1>6. IsFiniteSet(1..n) /\ Cardinality(1..n) = n
  BY <1>1, FS_Interval
<1>7. f \in Surjection(1..n, E)
  BY <1>5, <1>6, FS_Injection
<1>8. \A x \in E : \E i \in 1..n : f[i] = x
  BY <1>7 DEF Surjection
<1>9. ToSet(f) = E
  BY <1>4, <1>8 DEF ToSet
<1>10. f \in Seq(X)
  <2> HIDE DEF n
  <2> QED BY <1>1, <1>4
<1> QED BY <1>9, <1>10 DEF f

LEMMA ConcatSet ==
  ASSUME NEW X, NEW p \in Seq(X), NEW q \in Seq(X)
  PROVE  p \o q \in Seq(X) /\ ToSet(p \o q) = ToSet(p) \cup ToSet(q)
<1>1. /\ Len(p) \in Nat /\ Len(q) \in Nat /\ DOMAIN p = 1..Len(p) /\ DOMAIN q = 1..Len(q)
      /\ p \o q \in Seq(X) /\ DOMAIN (p \o q) = 1..Len(p) + Len(q)
      /\ \A i \in 1..Len(p) : (p \o q)[i] = p[i]
      /\ \A i \in Len(p) + 1..Len(p) + Len(q) : (p \o q)[i] = q[i - Len(p)]
  OBVIOUS
<1>2. ASSUME NEW x \in ToSet(p \o q)
      PROVE  x \in ToSet(p) \cup ToSet(q)
  <2>1. PICK i \in 1..Len(p) + Len(q) : x = (p \o q)[i]
    BY <1>1 DEF ToSet
  <2>2. CASE i \in 1..Len(p)
    BY <1>1, <2>1, <2>2 DEF ToSet
  <2>3. CASE i \notin 1..Len(p)
    <3>1. i \in Len(p) + 1..Len(p) + Len(q) /\ i - Len(p) \in 1..Len(q)
      BY <1>1, <2>3
    <3> QED BY <1>1, <2>1, <3>1 DEF ToSet
  <2> QED BY <2>2, <2>3
<1>3. ASSUME NEW x \in ToSet(p) \cup ToSet(q)
      PROVE  x \in ToSet(p \o q)
  <2>1. CASE x \in ToSet(p)
    <3>1. PICK i \in 1..Len(p) : x = p[i]
      BY <1>1, <2>1 DEF ToSet
    <3>2. i \in 1..Len(p) + Len(q)
      BY <1>1
    <3> QED BY <1>1, <3>1, <3>2 DEF ToSet
  <2>2. CASE x \in ToSet(q)
    <3>1. PICK i \in 1..Len(q) : x = q[i]
      BY <1>1, <2>2 DEF ToSet
    <3>2. /\ i + Len(p) \in 1..Len(p) + Len(q) /\ i + Len(p) \in Len(p) + 1..Len(p) + Len(q)
          /\ (i + Len(p)) - Len(p) = i
      BY <1>1
    <3> QED BY <1>1, <3>1, <3>2 DEF ToSet
  <2> QED BY <2>1, <2>2
<1> QED BY <1>1, <1>2, <1>3

LEMMA HeadTailSet ==
  ASSUME NEW X, NEW q \in Seq(X), q # <<>>
  PROVE  Head(q) \in X /\ Tail(q) \in Seq(X) /\ ToSet(q) = {Head(q)} \cup ToSet(Tail(q))
<1>1. /\ Len(q) \in Nat /\ Len(q) > 0 /\ DOMAIN q = 1..Len(q) /\ Head(q) = q[1]
      /\ Head(q) \in X /\ Tail(q) \in Seq(X) /\ DOMAIN Tail(q) = 1..Len(q) - 1
      /\ \A i \in 1..Len(q) - 1 : Tail(q)[i] = q[i + 1]
  OBVIOUS
<1>2. ASSUME NEW i \in 1..Len(q)
      PROVE  q[i] \in {Head(q)} \cup ToSet(Tail(q))
  <2>1. CASE i = 1
    BY <1>1, <2>1
  <2>2. CASE i # 1
    <3>1. i - 1 \in 1..Len(q) - 1 /\ (i - 1) + 1 = i
      BY <1>1, <2>2
    <3> QED BY <1>1, <3>1 DEF ToSet
  <2> QED BY <2>1, <2>2
<1>3. \A i \in 1..Len(q) - 1 : i + 1 \in 1..Len(q)
  BY <1>1
<1>4. 1 \in 1..Len(q)
  BY <1>1
<1> QED BY <1>1, <1>2, <1>3, <1>4 DEF ToSet

Invalidated(x) == [x EXCEPT !.status = "INVALIDATED"]

LEMMA InvalidatedRow ==
  ASSUME NEW x \in Stored
  PROVE  /\ Invalidated(x) \in Stored
         /\ Invalidated(x).start = x.start /\ Invalidated(x).status = "INVALIDATED"
BY DEF Stored, Invalidated

LEMMA RecordsStored == Records \subseteq Stored
BY DEF Records, Stored

\* The rules give one episode for a start, none invalidated.
LEMMA ExpectedRows ==
  ASSUME NEW S
  PROVE  /\ Keyed(ExpectedEpisodes(S))
         /\ \A x \in ExpectedEpisodes(S) : x.status # "INVALIDATED"
<1> DEFINE Found(v) == EpisodeAt(S, OfType(S, "BAD"), OfType(S, "NORMAL"), v)
<1>1. ExpectedEpisodes(S) = {Found(v) : v \in Starts(OfType(S, "BAD"), OfType(S, "NORMAL"))}
  BY DEF ExpectedEpisodes
<1>2. \A v : Found(v).start = v /\ Found(v).status # "INVALIDATED"
  BY DEF EpisodeAt
<1> HIDE DEF Found
<1> QED BY <1>1, <1>2 DEF Keyed

LEMMA TableUpserted ==
  ASSUME NEW E, IsTable(E), NEW x \in Stored
  PROVE  IsTable(Upsert(E, x))
<1> DEFINE Y == {y \in E : y.start # x.start}
<1>1. Y \in SUBSET E
  OBVIOUS
<1>2. IsFiniteSet(Y)
  BY <1>1, FS_Subset DEF IsTable
<1>3. IsFiniteSet(Y \cup {x})
  BY <1>2, FS_AddElement
<1> QED BY <1>3 DEF Upsert, IsTable, Keyed

\* What a task sees of the episodes is a table, ...
LEMMA TableSeen ==
  ASSUME TableInv, NEW d \in Deliveries
  PROVE  IsTable(ViewEpisodes(d))
<1> DEFINE F == new[d].episodes
           Y == {x \in episodes : \A y \in F : y.start # x.start}
<1>1. Y \in SUBSET episodes /\ IsTable(episodes) /\ IsTable(F)
  BY DEF TableInv
<1>2. IsFiniteSet(Y)
  BY <1>1, FS_Subset DEF IsTable
<1>3. IsFiniteSet(Y \cup F)
  BY <1>1, <1>2, FS_Union DEF IsTable
<1>4. Keyed(Y \cup F)
  BY <1>1 DEF IsTable, Keyed
<1>5. Y \cup F \subseteq Stored
  BY <1>1 DEF IsTable
<1> QED BY <1>3, <1>4, <1>5 DEF IsTable, ViewEpisodes

\* ... and what it invalidates are rows of it that the valid ones do not replace.
LEMMA StaleRows ==
  ASSUME NEW E, IsTable(E), NEW V
  PROVE  /\ Stale(E, V) \subseteq Stored /\ IsFiniteSet(Stale(E, V))
         /\ \A x \in Stale(E, V) : x.status = "INVALIDATED"
         /\ StartsIn(Stale(E, V)) = StartsIn(Valid(E)) \ StartsIn(V)
         /\ Keyed(Stale(E, V))
<1> DEFINE Y == {y \in E : y.status # "INVALIDATED" /\ y.start \notin {v.start : v \in V}}
           f == [x \in Y |-> Invalidated(x)]
<1>1. Stale(E, V) = {Invalidated(x) : x \in Y}
  BY DEF Stale, Invalidated
<1>2. \A x \in Y : /\ x \in E /\ x \in Stored /\ Invalidated(x) \in Stored
                   /\ Invalidated(x).start = x.start /\ Invalidated(x).status = "INVALIDATED"
  BY InvalidatedRow DEF IsTable
<1>3. IsFiniteSet(Stale(E, V))
  <2>1. Y \in SUBSET E
    OBVIOUS
  <2>2. IsFiniteSet(Y)
    BY <2>1, FS_Subset DEF IsTable
  <2>3. f \in Surjection(Y, Stale(E, V))
    BY <1>1 DEF Surjection
  <2> HIDE DEF f, Y
  <2> QED BY <2>2, <2>3, FS_Surjection
<1>4. Keyed(Stale(E, V))
  BY <1>1, <1>2 DEF Keyed, IsTable
<1>5. StartsIn(Stale(E, V)) = {y.start : y \in Y}
  BY <1>1, <1>2 DEF StartsIn
<1>6. {y.start : y \in Y} = StartsIn(Valid(E)) \ StartsIn(V)
  BY DEF StartsIn, Valid
<1>7. \A x \in Stale(E, V) : x \in Stored /\ x.status = "INVALIDATED"
  BY <1>1, <1>2
<1> HIDE DEF Y
<1> QED BY <1>3, <1>4, <1>5, <1>6, <1>7

\* The plan of Compare: what it invalidates, and what the replay found
LEMMA ComparedPlan ==
  ASSUME TableInv, NEW d \in Deliveries
  PROVE  LET stale == Stale(ViewEpisodes(d), ToSet(plan[d]))
             p     == SetToSeq(stale) \o plan[d]
         IN p \in Seq(Stored) /\ ToSet(p) = stale \cup ToSet(plan[d]) /\ Keyed(ToSet(p))
<1> DEFINE V     == ToSet(plan[d])
           stale == Stale(ViewEpisodes(d), V)
           p     == SetToSeq(stale) \o plan[d]
<1>1. IsTable(ViewEpisodes(d)) /\ plan[d] \in Seq(Stored) /\ Keyed(V)
  BY TableSeen DEF TableInv
<1>2. /\ stale \in SUBSET Stored /\ IsFiniteSet(stale)
      /\ StartsIn(stale) \cap StartsIn(V) = {} /\ Keyed(stale)
  BY <1>1, StaleRows
<1> HIDE DEF stale
<1>3. SetToSeq(stale) \in Seq(Stored) /\ ToSet(SetToSeq(stale)) = stale
  BY <1>2, SetSequence
<1>4. p \in Seq(Stored) /\ ToSet(p) = stale \cup V
  BY <1>1, <1>3, ConcatSet
<1> HIDE DEF p, V
<1>5. Keyed(stale \cup V)
  BY <1>1, <1>2 DEF Keyed, StartsIn
<1> QED BY <1>4, <1>5 DEF p, V, stale

LEMMA OthersToo ==
  ASSUME RowInv, TableInv, NEW d \in Deliveries, Action(d), NEW o \in Deliveries, o # d
  PROVE  plan'[o] = plan[o] /\ read'[o] = read[o]
<1> USE DEF RowInv, TableInv
<1>1. CASE EndTask(d, "failed") \/ EndTask(d, "done")
  BY <1>1 DEF EndTask
<1>2. CASE ~(EndTask(d, "failed") \/ EndTask(d, "done"))
  BY <1>2 DEF Action, Ingest, ReadEvents, SaveSnapshot, SelectSnapshot, NextVersion,
              AppendSignal, Replay, Compare, UpsertEpisode, Commit, Fail, tables, task
<1> QED BY <1>1, <1>2

LEMMA TableStep ==
  ASSUME SignalInv, RowInv, TableInv, NEW d \in Deliveries, Action(d)
  PROVE  TableInv'
<1>1. DOMAIN counts' = Windows /\ DOMAIN read' = Deliveries
  BY DEF TableInv, Action, Ingest, ReadEvents, SaveSnapshot, SelectSnapshot, NextVersion,
         AppendSignal, Replay, Compare, UpsertEpisode, Commit, Fail, EndTask, tables, task
<1>2. IsTable(episodes')
  <2>1. episodes' = episodes \/ episodes' = ViewEpisodes(d)
    BY DEF Action, Ingest, ReadEvents, SaveSnapshot, SelectSnapshot, NextVersion, AppendSignal,
           Replay, Compare, UpsertEpisode, Commit, Fail, tables
  <2> QED BY <2>1, TableSeen DEF TableInv
<1>3. ASSUME NEW o \in Deliveries, o # d
      PROVE  /\ IsTable(new'[o].episodes) /\ (pc'[o] # "upsert" => new'[o].episodes = {})
             /\ plan'[o] \in Seq(Stored) /\ Keyed(ToSet(plan'[o]))
  BY <1>3, Others, OthersToo DEF SignalInv, TableInv
<1>4. /\ IsTable(new'[d].episodes) /\ (pc'[d] # "upsert" => new'[d].episodes = {})
      /\ plan'[d] \in Seq(Stored) /\ Keyed(ToSet(plan'[d]))
  <2>1. /\ DOMAIN new = Deliveries /\ DOMAIN pc = Deliveries /\ DOMAIN plan = Deliveries
        /\ IsTable(new[d].episodes) /\ (pc[d] # "upsert" => new[d].episodes = {})
        /\ plan[d] \in Seq(Stored) /\ Keyed(ToSet(plan[d]))
    BY DEF SignalInv, TypeInv, RowInv, TableInv
  <2>2. CASE EndTask(d, "failed") \/ EndTask(d, "done")
    <3>1. new'[d].episodes = {} /\ plan'[d] = <<>>
      BY <2>1, <2>2 DEF EndTask, NoRows
    <3>2. IsTable({}) /\ ToSet(<<>>) = {} /\ Keyed({}) /\ <<>> \in Seq(Stored)
      BY FS_EmptySet DEF IsTable, Keyed, ToSet
    <3> QED BY <3>1, <3>2
  <2>3. CASE \/ Ingest(d) \/ ReadEvents(d) \/ SaveSnapshot(d)
             \/ SelectSnapshot(d) \/ NextVersion(d)
    BY <2>1, <2>3 DEF Ingest, ReadEvents, SaveSnapshot, SelectSnapshot, NextVersion
  <2>4. CASE AppendSignal(d) /\ ~Taken(signals, d)
    <3> DEFINE x == SignalOf(WindowOf[d], read[d], version[d])
    <3>1. /\ new' = [new EXCEPT ![d].signals = @ \cup {x}] /\ plan' = plan
          /\ pc[d] = "append"
      BY <2>4 DEF AppendSignal
    <3> HIDE DEF x
    <3>2. new'[d].episodes = new[d].episodes
      BY <2>1, <3>1
    <3> QED BY <2>1, <3>1, <3>2
  <2>5. CASE Replay(d)
    <3>1. /\ pc[d] = "replay" /\ pc'[d] = "compare" /\ new' = new
          /\ plan'[d] = Reconcile(Latest(ViewSignals(d)))
      BY <2>1, <2>5 DEF Replay
    <3>2. /\ plan'[d] \in Seq(Records)
          /\ ToSet(plan'[d]) = ExpectedEpisodes(Current(ViewSignals(d)))
      BY <3>1, ViewIsTimeline, MachineMeetsRules
    <3>3. plan'[d] \in Seq(Stored)
      BY <3>2, RecordsStored
    <3> QED BY <2>1, <3>1, <3>2, <3>3, ExpectedRows
  <2>6. CASE Compare(d)
    <3>1. /\ pc[d] = "compare" /\ new' = new
          /\ plan'[d] = SetToSeq(Stale(ViewEpisodes(d), ToSet(plan[d]))) \o plan[d]
      BY <2>1, <2>6 DEF Compare
    <3> QED BY <2>1, <3>1, ComparedPlan
  <2>7. CASE UpsertEpisode(d)
    <3> DEFINE h == Head(plan[d])
    <3>1. /\ pc'[d] = "upsert" /\ plan[d] # <<>> /\ plan'[d] = Tail(plan[d])
          /\ new' = [new EXCEPT ![d].episodes = Upsert(@, h)]
      BY <2>1, <2>7 DEF UpsertEpisode
    <3>2. /\ h \in Stored /\ plan'[d] \in Seq(Stored)
          /\ ToSet(plan[d]) = {h} \cup ToSet(plan'[d])
      BY <2>1, <3>1, HeadTailSet
    <3> HIDE DEF h
    <3>3. new'[d].episodes = Upsert(new[d].episodes, h)
      BY <2>1, <3>1 DEF TypeInv, SignalInv
    <3>4. Keyed(ToSet(plan'[d]))
      BY <2>1, <3>2 DEF Keyed
    <3> QED BY <2>1, <3>1, <3>2, <3>3, <3>4, TableUpserted
  <2> QED
    BY <2>2, <2>3, <2>4, <2>5, <2>6, <2>7 DEF Action, AppendSignal, Commit, Fail
<1> QED BY <1>1, <1>2, <1>3, <1>4 DEF TableInv

\* The log of the past is a timeline, ...
LEMMA InitTimeline ==
  ASSUME Init
  PROVE  /\ Current(signals) = signals /\ IsTimeline(signals)
         /\ \A s \in signals : s = SignalOf(s.window, counts[s.window], 1)
<1> DEFINE First(w) == SignalOf(w, counts[w], 1)
<1>1. signals = {First(w) : w \in 1..Past}
  BY DEF Init
<1>2. \A w : First(w).window = w /\ First(w).version = 1
  BY DEF SignalOf
<1>3. \A w \in 1..Past : IsSignal(First(w))
  <2>1. 1..Past \subseteq Windows
    BY DegradationAssumption DEF DegradationAssumption, Windows
  <2> QED BY <2>1, SignalIsSignal
<1>4. \A s \in signals : s = First(s.window)
  BY <1>1, <1>2
<1> HIDE DEF First
<1>5. IsTimeline(signals)
  BY <1>1, <1>2, <1>3 DEF IsTimeline, IsSignal
<1>6. \A s, t \in signals : t.version <= s.version
  BY <1>1, <1>2
<1>7. Current(signals) = signals
  BY <1>6 DEF Current
<1> QED BY <1>4, <1>5, <1>7 DEF First

\* ... and its episodes are what the rules find in it.
LEMMA InitTable ==
  ASSUME Init
  PROVE  TableInv /\ episodes = ExpectedEpisodes(Current(signals))
<1>1. /\ Reconcile(Latest(signals)) \in Seq(Records)
      /\ episodes = ExpectedEpisodes(Current(signals))
      /\ episodes = ToSet(Reconcile(Latest(signals)))
  BY InitTimeline, TimelineFinite, MachineMeetsRules DEF Init
<1>2. IsTable(episodes)
  BY <1>1, SetFinite, ExpectedRows, RecordsStored DEF IsTable
<1>3. IsTable({}) /\ ToSet(<<>>) = {} /\ Keyed({}) /\ <<>> \in Seq(Stored)
  BY FS_EmptySet DEF IsTable, Keyed, ToSet
<1>4. DOMAIN counts = Windows /\ DOMAIN read = Deliveries
  BY DEF Init
<1>5. \A d \in Deliveries : new[d].episodes = {} /\ plan[d] = <<>>
  BY DEF Init, NoRows
<1> QED BY <1>1, <1>2, <1>3, <1>4, <1>5 DEF TableInv

LEMMA CalmBefore ==
  ASSUME SignalInv, NEW d \in Deliveries, Action(d), Calm'
  PROVE  Calm /\ ~EndTask(d, "failed") /\ ~Fail(d)
<1>1. pc'[d] # "failed" /\ DOMAIN pc = Deliveries
  BY DEF Calm, SignalInv, TypeInv
<1>2. ~EndTask(d, "failed")
  BY <1>1 DEF EndTask
<1>3. ~Fail(d)
  BY <1>2 DEF Fail
<1>4. faults' = faults /\ pc[d] # "failed"
  BY <1>2, <1>3 DEF Action, Ingest, ReadEvents, SaveSnapshot, SelectSnapshot, NextVersion,
     AppendSignal, Replay, Compare, UpsertEpisode, Commit
<1>5. ~overlapped
  <2>1. ~overlapped'
    BY DEF Calm
  <2>2. CASE ReadEvents(d)
    <3>1. overlapped' = (overlapped \/ \E o \in Deliveries : pc[o] \in Running)
      BY <2>2 DEF ReadEvents
    <3> QED BY <2>1, <3>1
  <2>3. CASE ~ReadEvents(d)
    <3>1. overlapped' = overlapped
      BY <1>3, <2>3 DEF Action, Ingest, SaveSnapshot, SelectSnapshot, NextVersion,
         AppendSignal, Replay, Compare, UpsertEpisode, Commit
    <3> QED BY <2>1, <3>1
  <2> QED BY <2>2, <2>3
<1>6. \A o \in Deliveries : pc[o] # "failed"
  BY <1>4, Others DEF Calm, SignalInv
<1> QED BY <1>2, <1>3, <1>4, <1>5, <1>6 DEF Calm, SignalInv

\* In calm, who runs runs alone; meanwhile only events arrive.
LEMMA OthersIdle ==
  ASSUME SignalInv, AloneInv, NEW d \in Deliveries, Action(d), Calm', ~Ingest(d)
  PROVE  \A o \in Deliveries : o # d => pc[o] \notin Running
<1>1. ~overlapped' /\ ~Fail(d)
  BY CalmBefore DEF Calm
<1>2. CASE ReadEvents(d)
  BY <1>1, <1>2 DEF ReadEvents
<1>3. CASE ~ReadEvents(d)
  <2>1. pc[d] \in Running
    BY <1>1, <1>3 DEF Action, SaveSnapshot, SelectSnapshot, NextVersion, AppendSignal,
       Replay, Compare, UpsertEpisode, Commit, Running, Labels
  <2> QED BY <2>1 DEF AloneInv
<1> QED BY <1>2, <1>3

LEMMA AloneStep ==
  ASSUME SignalInv, AloneInv, NEW d \in Deliveries, Action(d), Calm'
  PROVE  AloneInv'
<1>1. \A o \in Deliveries : o # d => pc'[o] = pc[o]
  BY Others DEF SignalInv
<1>2. CASE Ingest(d)
  <2>1. pc'[d] \notin Running
    BY <1>2 DEF Ingest, Running, SignalInv, TypeInv
  <2> QED BY <1>1, <2>1 DEF AloneInv
<1>3. CASE ~Ingest(d)
  BY <1>1, <1>3, OthersIdle DEF AloneInv
<1> QED BY <1>2, <1>3

\* Who inserts, commits.
LEMMA SignalAdded ==
  ASSUME SignalInv, NEW d \in Deliveries, Commit(d)
  PROVE  \E n : /\ new[d].signals = {n} /\ signals' = signals \cup {n}
                /\ n.window = WindowOf[d]
                /\ \A s \in signals : s.window = n.window => ~(n.version <= s.version)
<1>1. pc[d] \in Holding /\ signals' = signals \cup new[d].signals
  BY DEF Commit, Holding, ViewSignals
<1>2. PICK n : new[d].signals = {n} /\ n.window = WindowOf[d] /\ n.version = version[d]
  BY <1>1 DEF SignalInv, HeldInv
<1>3. version[d] \in Nat /\ Versions(WindowOf[d]) = 1..version[d] - 1
  BY <1>1 DEF SignalInv, NextInv, TypeInv
<1>4. ASSUME NEW s \in signals, s.window = n.window
      PROVE  ~(n.version <= s.version)
  <2>1. s.version \in 1..version[d] - 1
    BY <1>2, <1>3, <1>4 DEF Versions, LogOf
  <2> QED BY <1>2, <1>3, <2>1
<1> QED BY <1>1, <1>2, <1>4

LEMMA EvaluatedStep ==
  ASSUME SignalInv, TableInv, AloneInv, EvaluatedInv, HandInv,
         NEW d \in Deliveries, Action(d), Calm'
  PROVE  EvaluatedInv'
<1> SUFFICES ASSUME NEW w \in Windows, Settled(w)'
             PROVE  Evaluated(w)'
  BY DEF EvaluatedInv
<1>1. /\ \A o \in Deliveries : o # d => pc'[o] = pc[o]
      /\ \A o \in Deliveries : WindowOf[o] = w => pc'[o] \in {"none", "done"}
      /\ DOMAIN pc = Deliveries /\ DOMAIN counts = Windows
  BY Others DEF SignalInv, TypeInv, Settled, TableInv
<1>2. ~Fail(d) /\ ~EndTask(d, "failed")
  BY CalmBefore
<1>3. CASE WindowOf[d] # w
  <2>1. Evaluated(w)
    <3>1. Settled(w)
      BY <1>1, <1>3 DEF Settled
    <3> QED BY <3>1 DEF EvaluatedInv
  <2>2. counts'[w] = counts[w]
    <3>1. CASE Ingest(d)
      BY <1>1, <1>3, <3>1 DEF Ingest
    <3>2. CASE ~Ingest(d)
      BY <3>2 DEF Action, ReadEvents, SaveSnapshot, SelectSnapshot, NextVersion, AppendSignal,
         Replay, Compare, UpsertEpisode, Commit, Fail, tables
    <3> QED BY <3>1, <3>2
  <2>3. CASE Commit(d)
    <3>1. PICK n : signals' = signals \cup {n} /\ n.window = WindowOf[d]
      BY <2>3, SignalAdded
    <3>2. LogOf(w)' = LogOf(w)
      BY <1>3, <3>1 DEF LogOf
    <3>3. ASSUME NEW s \in Current(signals'), s.window = w
          PROVE  s \in Current(signals)
      BY <1>3, <3>1, <3>3 DEF Current
    <3> QED BY <2>1, <2>2, <3>2, <3>3 DEF Evaluated
  <2>4. CASE ~Commit(d)
    <3>1. signals' = signals
      BY <2>4 DEF Action, Ingest, ReadEvents, SaveSnapshot, SelectSnapshot, NextVersion,
         AppendSignal, Replay, Compare, UpsertEpisode, Fail, tables
    <3> QED BY <2>1, <2>2, <3>1 DEF Evaluated, LogOf
  <2> QED BY <2>3, <2>4
<1>4. CASE WindowOf[d] = w
  <2>1. pc'[d] \in {"none", "done"}
    BY <1>1, <1>4
  <2>2. Commit(d)
    BY <1>1, <1>2, <2>1
       DEF Action, Ingest, ReadEvents, SaveSnapshot, SelectSnapshot, NextVersion, AppendSignal,
           Replay, Compare, UpsertEpisode
  <2>3. PICK n : /\ new[d].signals = {n} /\ signals' = signals \cup {n} /\ n.window = w
                 /\ \A s \in signals : s.window = n.window => ~(n.version <= s.version)
    BY <1>4, <2>2, SignalAdded
  <2>4. n = SignalOf(w, counts[w], n.version)
    <3>1. pc[d] = "upsert" /\ pc[d] \in Running
      BY <2>2 DEF Commit, Running, Labels
    <3>2. UpToDate(d)
      <4>1. ASSUME NEW o \in Deliveries, WindowOf[o] = w
            PROVE  pc[o] # "scheduled"
        BY <1>1, <3>1, <4>1
      <4> QED BY <1>4, <3>1, <4>1 DEF UpToDate
    <3> QED BY <1>4, <2>3, <3>2 DEF HandInv
  <2>5. counts' = counts
    BY <2>2 DEF Commit
  <2>6. ASSUME NEW s \in Current(signals'), s.window = w
        PROVE  s = n
    BY <2>3, <2>6 DEF Current
  <2>7. n \in LogOf(w)'
    BY <2>3 DEF LogOf
  <2> QED BY <2>4, <2>5, <2>6, <2>7 DEF Evaluated
<1> QED BY <1>3, <1>4

LEMMA HandStep ==
  ASSUME SignalInv, TableInv, AloneInv, HandInv, NEW d \in Deliveries, Action(d), Calm'
  PROVE  HandInv'
<1> DEFINE Hand(o) ==
      /\ pc[o] \in {"save", "number", "append"} => read[o] = counts[WindowOf[o]]
      /\ pc[o] = "select" =>
           \A x \in snapshots : x.window = WindowOf[o] => x.counts = counts[WindowOf[o]]
      /\ \A s \in new[o].signals : s = SignalOf(WindowOf[o], counts[WindowOf[o]], s.version)
<1> SUFFICES ASSUME NEW o \in Deliveries, UpToDate(o)'
             PROVE  Hand(o)'
  BY DEF HandInv
<1>1. /\ \A x \in Deliveries : x # d => pc'[x] = pc[x]
      /\ pc'[o] \in Running
      /\ \A x \in Deliveries : WindowOf[x] = WindowOf[o] => pc'[x] # "scheduled"
      /\ DOMAIN pc = Deliveries /\ DOMAIN new = Deliveries /\ DOMAIN read = Deliveries
      /\ DOMAIN counts = Windows /\ WindowOf[d] \in Windows /\ WindowOf[o] \in Windows
  BY Others, DegradationAssumption DEF SignalInv, TypeInv, UpToDate, TableInv, DegradationAssumption
<1>2. ~Fail(d) /\ ~EndTask(d, "failed")
  BY CalmBefore
<1>3. ASSUME pc[o] \in Running, pc[d] # "scheduled"
      PROVE  Hand(o)
  <2>1. UpToDate(o)
    BY <1>1, <1>3 DEF UpToDate
  <2> QED BY <2>1 DEF HandInv
<1>4. CASE Ingest(d)
  <2>1. pc[d] = "none" /\ pc'[d] = "scheduled"
    BY <1>1, <1>4 DEF Ingest
  <2>2. o # d /\ WindowOf[d] # WindowOf[o] /\ pc'[o] = pc[o]
    BY <1>1, <2>1
  <2>3. /\ counts'[WindowOf[o]] = counts[WindowOf[o]]
        /\ snapshots' = snapshots /\ new' = new /\ read' = read
    BY <1>1, <1>4, <2>2 DEF Ingest
  <2>4. Hand(o)
    BY <1>1, <1>3, <2>1, <2>2
  <2> QED BY <2>2, <2>3, <2>4
<1>5. CASE ~Ingest(d)
  <2>1. o = d
    BY <1>1, <1>5, OthersIdle
  <2>2. counts' = counts /\ pc'[d] \in Running
    BY <1>1, <1>5, <2>1 DEF Action, ReadEvents, SaveSnapshot, SelectSnapshot, NextVersion,
       AppendSignal, Replay, Compare, UpsertEpisode, Commit, Fail, tables
  <2>3. pc[d] \notin Holding => new[d].signals = {}
    BY DEF SignalInv, HeldInv
  <2>4. CASE ReadEvents(d)
    <3>1. /\ pc[d] = "scheduled" /\ pc'[d] = "save" /\ new' = new
          /\ read'[d] = counts[WindowOf[d]]
      BY <1>1, <2>4 DEF ReadEvents
    <3>2. new'[d].signals = {}
      BY <2>3, <3>1 DEF Holding
    <3> QED BY <2>1, <2>2, <3>1, <3>2
  <2>5. CASE SaveSnapshot(d)
    <3>1. /\ pc[d] = "save" /\ pc'[d] = "select" /\ new' = new
          /\ snapshots' = {x \in snapshots : x.window # WindowOf[d]}
                          \cup {[window |-> WindowOf[d], counts |-> read[d]]}
      BY <1>1, <2>5 DEF SaveSnapshot
    <3>2. new'[d].signals = {}
      BY <2>3, <3>1 DEF Holding
    <3>3. read[d] = counts[WindowOf[d]]
      BY <1>3, <2>1, <3>1 DEF Running, Labels
    <3> QED BY <2>1, <2>2, <3>1, <3>2, <3>3
  <2>6. CASE SelectSnapshot(d)
    <3>1. /\ pc[d] = "select" /\ pc'[d] = "number" /\ new' = new
          /\ \E x \in snapshots : x.window = WindowOf[d] /\ read'[d] = x.counts
      BY <1>1, <2>6 DEF SelectSnapshot
    <3>2. new'[d].signals = {}
      BY <2>3, <3>1 DEF Holding
    <3>3. \A x \in snapshots : x.window = WindowOf[d] => x.counts = counts[WindowOf[d]]
      BY <1>3, <2>1, <3>1 DEF Running, Labels
    <3> QED BY <2>1, <2>2, <3>1, <3>2, <3>3
  <2>7. CASE NextVersion(d)
    <3>1. pc[d] = "number" /\ pc'[d] = "append" /\ new' = new /\ read' = read
      BY <1>1, <2>7 DEF NextVersion
    <3>2. new'[d].signals = {}
      BY <2>3, <3>1 DEF Holding
    <3>3. read[d] = counts[WindowOf[d]]
      BY <1>3, <2>1, <3>1 DEF Running, Labels
    <3> QED BY <2>1, <2>2, <3>1, <3>2, <3>3
  <2>8. CASE AppendSignal(d)
    <3> DEFINE n == SignalOf(WindowOf[d], read[d], version[d])
    <3>1. /\ pc[d] = "append" /\ pc'[d] = "replay"
          /\ new' = [new EXCEPT ![d].signals = @ \cup {n}]
      BY <1>1, <1>2, <2>8 DEF AppendSignal
    <3>2. new[d].signals = {}
      BY <2>3, <3>1 DEF Holding
    <3>3. read[d] = counts[WindowOf[d]]
      BY <1>3, <2>1, <3>1 DEF Running, Labels
    <3>4. n = SignalOf(WindowOf[d], counts[WindowOf[d]], n.version)
      BY <3>3 DEF SignalOf
    <3> HIDE DEF n
    <3>5. new'[d].signals = new[d].signals \cup {n}
      <4>1. new[d] = [signals |-> new[d].signals, episodes |-> new[d].episodes]
        BY DEF SignalInv, TypeInv
      <4> QED BY <1>1, <3>1, <4>1
    <3>6. new'[d].signals = {n}
      BY <3>2, <3>5
    <3> QED BY <2>1, <2>2, <3>1, <3>4, <3>6
  <2>9. CASE Replay(d) \/ Compare(d) \/ UpsertEpisode(d)
    <3>1. pc[d] \in {"replay", "compare", "upsert"} /\ pc'[d] \in {"compare", "upsert"}
      BY <1>1, <2>9 DEF Replay, Compare, UpsertEpisode
    <3>2. new'[d].signals = new[d].signals
      <4>1. new[d] = [signals |-> new[d].signals, episodes |-> new[d].episodes]
        BY DEF SignalInv, TypeInv
      <4>2. CASE UpsertEpisode(d)
        <5>1. new' = [new EXCEPT ![d].episodes = Upsert(@, Head(plan[d]))]
          BY <4>2 DEF UpsertEpisode
        <5> QED BY <1>1, <4>1, <5>1
      <4> QED BY <2>9, <4>2 DEF Replay, Compare
    <3>3. Hand(d)
      BY <1>3, <2>1, <3>1 DEF Running, Labels
    <3> QED BY <2>1, <2>2, <3>1, <3>2, <3>3
  <2>10. CASE Commit(d)
    <3>1. pc'[d] = "done"
      BY <1>1, <2>10 DEF Commit, EndTask
    <3> QED BY <2>2, <3>1 DEF Running
  <2> QED
    BY <1>2, <1>5, <2>4, <2>5, <2>6, <2>7, <2>8, <2>9, <2>10 DEF Action
<1> QED BY <1>4, <1>5

\* An upsert does not change what the table will be.
LEMMA UpsertedTable ==
  ASSUME NEW E, NEW h, NEW T, Keyed({h} \cup T)
  PROVE  {x \in Upsert(E, h) : x.start \notin StartsIn(T)} \cup T
           = {x \in E : x.start \notin StartsIn({h} \cup T)} \cup {h} \cup T
<1>1. ASSUME NEW x \in Upsert(E, h), x.start \notin StartsIn(T), x # h
      PROVE  x \in E /\ x.start \notin StartsIn({h} \cup T)
  BY <1>1 DEF Upsert, StartsIn
<1>2. ASSUME NEW x \in E, x.start \notin StartsIn({h} \cup T)
      PROVE  x \in Upsert(E, h) /\ x.start \notin StartsIn(T)
  BY <1>2 DEF Upsert, StartsIn
<1>3. h \in Upsert(E, h) /\ (h.start \in StartsIn(T) => h \in T)
  BY DEF Upsert, StartsIn, Keyed
<1> QED BY <1>1, <1>2, <1>3

LEMMA UpsertSeen ==
  ASSUME NEW E, NEW F, NEW h
  PROVE  {x \in E : \A y \in Upsert(F, h) : y.start # x.start} \cup Upsert(F, h)
           = Upsert({x \in E : \A y \in F : y.start # x.start} \cup F, h)
<1>1. ASSUME NEW x \in E
      PROVE  (\A y \in Upsert(F, h) : y.start # x.start)
               <=> (\A y \in F : y.start # x.start) /\ x.start # h.start
  <2>1. \A y \in F : y \in Upsert(F, h) \/ y.start = h.start
    BY DEF Upsert
  <2>2. \A y \in Upsert(F, h) : y = h \/ y \in F
    BY DEF Upsert
  <2>3. h \in Upsert(F, h)
    BY DEF Upsert
  <2> QED BY <2>1, <2>2, <2>3
<1>2. {x \in E : \A y \in Upsert(F, h) : y.start # x.start}
        = {x \in E : (\A y \in F : y.start # x.start) /\ x.start # h.start}
  BY <1>1
<1> QED BY <1>2 DEF Upsert

\* What Compare invalidates hides all that the replay has not found.
LEMMA ComparedTable ==
  ASSUME NEW E, IsTable(E), NEW V, \A x \in V : x.status # "INVALIDATED"
  PROVE  LET P == Stale(E, V) \cup V
         IN Valid({x \in E : x.start \notin StartsIn(P)} \cup P) = V
<1> DEFINE Q == Stale(E, V)
<1>1. /\ \A x \in Q : x.status = "INVALIDATED"
      /\ StartsIn(Q) = StartsIn(Valid(E)) \ StartsIn(V)
  BY StaleRows
<1> HIDE DEF Q
<1>2. ASSUME NEW x \in E, x.start \notin StartsIn(Q \cup V)
      PROVE  x.status = "INVALIDATED"
  <2>1. x.start \notin StartsIn(Q) /\ x.start \notin StartsIn(V)
    BY <1>2 DEF StartsIn
  <2>2. x.start \notin StartsIn(Valid(E))
    BY <1>1, <2>1
  <2> QED BY <2>2 DEF StartsIn, Valid
<1>3. Valid({x \in E : x.start \notin StartsIn(Q \cup V)} \cup (Q \cup V)) = V
  BY <1>1, <1>2 DEF Valid
<1> QED BY <1>3 DEF Q

LEMMA EpisodesStep ==
  ASSUME SignalInv, RowInv, TableInv, AloneInv, EpisodesInv,
         NEW d \in Deliveries, Action(d), Calm'
  PROVE  EpisodesInv'
<1>1. /\ DOMAIN pc = Deliveries /\ DOMAIN new = Deliveries /\ DOMAIN plan = Deliveries
      /\ pc[d] \in Labels /\ plan[d] \in Seq(Stored) /\ Keyed(ToSet(plan[d]))
      /\ pc[d] # "upsert" => new[d].episodes = {}
      /\ new[d] = [signals |-> new[d].signals, episodes |-> new[d].episodes]
  BY DEF SignalInv, TypeInv, RowInv, TableInv
<1>2. ~Fail(d) /\ ~EndTask(d, "failed")
  BY CalmBefore
<1>3. Valid(episodes') = ExpectedEpisodes(Current(signals'))
  <2>1. CASE Commit(d)
    <3>1. /\ pc[d] = "upsert" /\ plan[d] = <<>>
          /\ signals' = ViewSignals(d) /\ episodes' = ViewEpisodes(d)
      BY <2>1 DEF Commit
    <3>2. After(d) = ViewEpisodes(d)
      BY <3>1 DEF After, ToSet, StartsIn
    <3> QED BY <3>1, <3>2 DEF EpisodesInv
  <2>2. CASE ~Commit(d)
    <3>1. signals' = signals /\ episodes' = episodes
      BY <2>2 DEF Action, Ingest, ReadEvents, SaveSnapshot, SelectSnapshot, NextVersion,
         AppendSignal, Replay, Compare, UpsertEpisode, Fail, tables
    <3> QED BY <3>1 DEF EpisodesInv
  <2> QED BY <2>1, <2>2
<1>4. ASSUME NEW o \in Deliveries, pc'[o] \in {"compare", "upsert"}, o # d
      PROVE  /\ pc'[o] = pc[o] /\ plan'[o] = plan[o] /\ ViewSignals(o)' = ViewSignals(o)
             /\ ViewEpisodes(o)' = ViewEpisodes(o)
  <2>1. pc'[o] = pc[o] /\ plan'[o] = plan[o] /\ new'[o] = new[o]
    BY <1>4, Others, OthersToo DEF SignalInv
  <2>2. Ingest(d)
    BY <1>4, <2>1, OthersIdle DEF Running, Labels
  <2>3. signals' = signals /\ episodes' = episodes
    BY <2>2 DEF Ingest
  <2> QED BY <2>1, <2>3 DEF ViewSignals, ViewEpisodes
<1>5. ASSUME pc'[d] = "compare"
      PROVE  ToSet(plan'[d]) = ExpectedEpisodes(Current(ViewSignals(d)'))
  <2>1. Replay(d)
    BY <1>1, <1>2, <1>5
       DEF Action, Ingest, ReadEvents, SaveSnapshot, SelectSnapshot, NextVersion, AppendSignal,
           Compare, UpsertEpisode, Commit, EndTask
  <2>2. plan'[d] = Reconcile(Latest(ViewSignals(d))) /\ signals' = signals /\ new' = new
    BY <1>1, <2>1 DEF Replay, tables
  <2>3. ViewSignals(d)' = ViewSignals(d)
    BY <2>2 DEF ViewSignals
  <2> QED BY <2>2, <2>3, ViewIsTimeline, MachineMeetsRules
<1>6. ASSUME pc'[d] = "upsert"
      PROVE  Valid(After(d)') = ExpectedEpisodes(Current(ViewSignals(d)'))
  <2>1. Compare(d) \/ UpsertEpisode(d)
    BY <1>1, <1>2, <1>6
       DEF Action, Ingest, ReadEvents, SaveSnapshot, SelectSnapshot, NextVersion, AppendSignal,
           Replay, Commit, EndTask
  <2>2. CASE Compare(d)
    <3> DEFINE V == ToSet(plan[d])
               P == Stale(ViewEpisodes(d), V) \cup V
    <3>1. /\ pc[d] = "compare" /\ new' = new /\ signals' = signals /\ episodes' = episodes
          /\ plan'[d] = SetToSeq(Stale(ViewEpisodes(d), V)) \o plan[d]
      BY <1>1, <2>2 DEF Compare, tables
    <3>2. ToSet(plan'[d]) = P
      BY <3>1, ComparedPlan
    <3>3. ViewSignals(d)' = ViewSignals(d) /\ ViewEpisodes(d)' = ViewEpisodes(d)
      BY <3>1 DEF ViewSignals, ViewEpisodes
    <3>4. V = ExpectedEpisodes(Current(ViewSignals(d)))
      BY <3>1 DEF EpisodesInv
    <3>5. \A x \in V : x.status # "INVALIDATED"
      BY <3>4, ExpectedRows
    <3> HIDE DEF V
    <3>6. Valid({x \in ViewEpisodes(d) : x.start \notin StartsIn(P)} \cup P) = V
      BY <3>5, TableSeen, ComparedTable
    <3> HIDE DEF P
    <3>7. After(d)' = {x \in ViewEpisodes(d) : x.start \notin StartsIn(P)} \cup P
      BY <3>2, <3>3 DEF After, StartsIn
    <3> QED BY <3>3, <3>4, <3>6, <3>7
  <2>3. CASE UpsertEpisode(d)
    <3> DEFINE h == Head(plan[d])
               T == ToSet(Tail(plan[d]))
    <3>1. /\ pc[d] = "upsert" /\ plan[d] # <<>> /\ plan'[d] = Tail(plan[d])
          /\ new' = [new EXCEPT ![d].episodes = Upsert(@, h)]
          /\ signals' = signals /\ episodes' = episodes
      BY <1>1, <2>3 DEF UpsertEpisode, tables
    <3>2. ToSet(plan[d]) = {h} \cup T
      BY <1>1, <3>1, HeadTailSet
    <3>3. ToSet(plan'[d]) = T
      BY <3>1
    <3> HIDE DEF h, T
    <3>4. new'[d].episodes = Upsert(new[d].episodes, h) /\ new'[d].signals = new[d].signals
      BY <1>1, <3>1
    <3>5. ViewSignals(d)' = ViewSignals(d)
      BY <3>1, <3>4 DEF ViewSignals
    <3>6. ViewEpisodes(d)' = Upsert(ViewEpisodes(d), h)
      BY <3>1, <3>4, UpsertSeen DEF ViewEpisodes
    <3>7. After(d)' = {x \in Upsert(ViewEpisodes(d), h) : x.start \notin StartsIn(T)} \cup T
      BY <3>3, <3>6 DEF After, StartsIn
    <3>8. After(d) = {x \in ViewEpisodes(d) : x.start \notin StartsIn({h} \cup T)} \cup {h} \cup T
      BY <3>2 DEF After
    <3>9. After(d)' = After(d)
      BY <1>1, <3>2, <3>7, <3>8, UpsertedTable
    <3> QED BY <3>1, <3>5, <3>9 DEF EpisodesInv
  <2> QED BY <2>1, <2>2, <2>3
<1>7. ASSUME NEW o \in Deliveries
      PROVE  /\ pc'[o] = "compare" =>
                  ToSet(plan'[o]) = ExpectedEpisodes(Current(ViewSignals(o)'))
             /\ pc'[o] = "upsert" =>
                  Valid(After(o)') = ExpectedEpisodes(Current(ViewSignals(o)'))
  <2>1. CASE o = d
    BY <1>5, <1>6, <2>1
  <2>2. CASE o # d /\ pc'[o] \in {"compare", "upsert"}
    <3>1. After(o)' = After(o)
      BY <1>4, <2>2 DEF After, StartsIn
    <3> QED BY <1>4, <2>2, <3>1 DEF EpisodesInv
  <2> QED BY <2>1, <2>2
<1> QED BY <1>3, <1>7 DEF EpisodesInv

\* In calm what is stored keeps up with the events, and what is planned with the signals.
THEOREM EpisodesInductive == Spec => [](SignalInv /\ RowInv /\ TableInv /\ CalmInv)
<1>1. Init => TableInv /\ CalmInv
  <2> SUFFICES ASSUME Init PROVE TableInv /\ CalmInv
    OBVIOUS
  <2>1. TableInv /\ episodes = ExpectedEpisodes(Current(signals))
    BY InitTable
  <2>2. \A d \in Deliveries : pc[d] = "none"
    BY DEF Init
  <2>3. AloneInv /\ HandInv
    BY <2>2 DEF AloneInv, HandInv, UpToDate, Running
  <2>4. EvaluatedInv
    <3> SUFFICES ASSUME NEW w \in Windows PROVE Evaluated(w)
      BY DEF EvaluatedInv
    <3>1. \A s \in Current(signals) : s.window = w => s = SignalOf(w, counts[w], s.version)
      <4>1. \A v : SignalOf(w, counts[w], v).version = v
        BY DEF SignalOf
      <4> QED BY <4>1, InitTimeline
    <3>2. ASSUME LogOf(w) = {}
          PROVE  counts[w] = NoCounts
      <4>1. w \notin 1..Past
        <5>1. SUFFICES ASSUME w \in 1..Past PROVE FALSE
          OBVIOUS
        <5>2. SignalOf(w, counts[w], 1) \in signals
          BY <5>1 DEF Init
        <5>3. SignalOf(w, counts[w], 1).window = w
          BY DEF SignalOf
        <5> QED BY <3>2, <5>2, <5>3 DEF LogOf
      <4> QED BY <4>1 DEF Init
    <3> QED BY <3>1, <3>2 DEF Evaluated
  <2>5. EpisodesInv
    <3>1. Valid(episodes) = episodes
      BY <2>1, ExpectedRows DEF Valid
    <3> QED BY <2>1, <2>2, <3>1 DEF EpisodesInv
  <2> QED BY <2>1, <2>3, <2>4, <2>5 DEF CalmInv
<1>2. SignalInv /\ RowInv /\ TableInv /\ CalmInv /\ [Next]_vars => TableInv' /\ CalmInv'
  <2>1. SignalInv /\ RowInv /\ TableInv /\ CalmInv /\ Next => TableInv' /\ CalmInv'
    <3> SUFFICES ASSUME SignalInv, RowInv, TableInv, CalmInv, NEW d \in Deliveries, Action(d)
                 PROVE  TableInv' /\ CalmInv'
      BY DEF Next, Action
    <3>1. TableInv'
      BY TableStep
    <3>2. ASSUME Calm'
          PROVE  AloneInv' /\ EvaluatedInv' /\ HandInv' /\ EpisodesInv'
      <4>1. AloneInv /\ EvaluatedInv /\ HandInv /\ EpisodesInv
        BY <3>2, CalmBefore DEF CalmInv
      <4> QED BY <3>2, <4>1, AloneStep, EvaluatedStep, HandStep, EpisodesStep
    <3> QED BY <3>1, <3>2 DEF CalmInv
  <2>2. TableInv /\ CalmInv /\ UNCHANGED vars => TableInv' /\ CalmInv'
    <3> SUFFICES ASSUME TableInv, CalmInv, UNCHANGED vars PROVE TableInv' /\ CalmInv'
      OBVIOUS
    <3> USE DEF vars, tables, task
    <3>1. TableInv'
      BY DEF TableInv
    <3>2. Calm' => Calm
      BY DEF Calm
    <3>3. AloneInv => AloneInv'
      BY DEF AloneInv
    <3>4. EvaluatedInv => EvaluatedInv'
      BY DEF EvaluatedInv, Evaluated, Settled, LogOf
    <3>5. HandInv => HandInv'
      BY DEF HandInv, UpToDate
    <3>6. EpisodesInv => EpisodesInv'
      BY DEF EpisodesInv, After, ViewSignals, ViewEpisodes
    <3> QED BY <3>1, <3>2, <3>3, <3>4, <3>5, <3>6 DEF CalmInv
  <2> QED BY <2>1, <2>2
<1> QED BY <1>1, <1>2, TimelinesInductive, PTL DEF Spec

\* Versions do not matter to the rules, nor signals that are neither BAD nor NORMAL.
LEMMA SameEpisodes ==
  ASSUME NEW S, NEW T,
         \A s \in S : s.type \in {"BAD", "NORMAL"} =>
            \E t \in T : t.window = s.window /\ t.type = s.type /\ t.severity = s.severity,
         \A t \in T : t.type \in {"BAD", "NORMAL"} =>
            \E s \in S : t.window = s.window /\ t.type = s.type /\ t.severity = s.severity
  PROVE  ExpectedEpisodes(S) = ExpectedEpisodes(T)
<1> DEFINE B == OfType(S, "BAD")
           N == OfType(S, "NORMAL")
<1>1. OfType(T, "BAD") = B /\ OfType(T, "NORMAL") = N
  BY DEF OfType
<1>2. \A A : Severities(S, A) = Severities(T, A)
  BY DEF Severities
<1> HIDE DEF B, N
<1>3. ASSUME NEW v
      PROVE  EpisodeAt(S, B, N, v) = EpisodeAt(T, B, N, v)
  BY <1>2, EpisodeParts DEF EpisodeOf
<1>4. {EpisodeAt(S, B, N, v) : v \in Starts(B, N)} = {EpisodeAt(T, B, N, v) : v \in Starts(B, N)}
  BY <1>3
<1>5. ExpectedEpisodes(S) = {EpisodeAt(S, B, N, v) : v \in Starts(B, N)}
  BY DEF ExpectedEpisodes, B, N
<1>6. ExpectedEpisodes(T) = {EpisodeAt(T, B, N, v) : v \in Starts(B, N)}
  BY <1>1 DEF ExpectedEpisodes
<1> QED BY <1>4, <1>5, <1>6

\* A window without events says nothing.
LEMMA EmptyWindow ==
  ASSUME NEW w \in Windows, NEW v
  PROVE  SignalOf(w, NoCounts, v).type \notin {"BAD", "NORMAL"}
<1>1. Total(NoCounts) = 0
  BY DEF Total, NoCounts
<1>2. 0 < Threshold
  BY DegradationAssumption DEF DegradationAssumption
<1>3. TypeOfSnapshot(w, NoCounts) \in {"NO_BASELINE", "LOW_VOLUME"}
  <2>1. Total(NoCounts) < Threshold
    BY <1>1, <1>2
  <2> QED BY <2>1 DEF TypeOfSnapshot
<1> QED BY <1>3 DEF SignalOf

\* Property ReplayConverges: when the tasks of all events that have arrived, in whatever
\* order, have run one after the other and none has failed, the episodes that
\* process_snapshots has stored and not invalidated are those of all events.
THEOREM ReplayAlwaysConverges == Spec => []ReplayConverges
<1>1. SignalInv /\ RowInv /\ TableInv /\ CalmInv => ReplayConverges
  <2> SUFFICES ASSUME SignalInv, RowInv, CalmInv, ~overlapped, faults = 0,
                      \A d \in Deliveries : pc[d] \in {"none", "done"}
               PROVE  Valid(episodes)
                        = ExpectedEpisodes({SignalOf(w, counts[w], 1) : w \in Windows})
    BY DEF ReplayConverges, Valid
  <2> DEFINE C    == Current(signals)
             T    == {SignalOf(w, counts[w], 1) : w \in Windows}
             Of(w) == SignalOf(w, counts[w], 1)
  <2>1. /\ \A w \in Windows : Evaluated(w)
        /\ Valid(episodes) = ExpectedEpisodes(C)
    BY DEF CalmInv, Calm, EvaluatedInv, Settled, EpisodesInv
  <2>2. ASSUME NEW w \in Windows, NEW v
        PROVE  LET s == SignalOf(w, counts[w], v) IN
               s.window = w /\ Of(w).window = w /\ Of(w).type = s.type /\ Of(w).severity = s.severity
    BY DEF SignalOf
  <2>3. ASSUME NEW s \in C
        PROVE  \E t \in T : t.window = s.window /\ t.type = s.type /\ t.severity = s.severity
    <3>1. s.window \in Windows
      BY DEF Current, RowInv, IsSignal
    <3>2. s = SignalOf(s.window, counts[s.window], s.version)
      BY <2>1, <3>1 DEF Evaluated
    <3>3. Of(s.window) \in T
      BY <3>1
    <3> HIDE DEF Of, T
    <3> QED BY <2>2, <3>1, <3>2, <3>3
  <2>4. ASSUME NEW w \in Windows, Of(w).type \in {"BAD", "NORMAL"}
        PROVE  \E s \in C : s.window = w /\ s.type = Of(w).type /\ s.severity = Of(w).severity
    <3>1. LogOf(w) # {}
      BY <2>1, <2>4, EmptyWindow DEF Evaluated
    <3>2. PICK n \in Nat : Versions(w) = 1..n
      BY DEF SignalInv, LogInv
    <3>3. \E s \in LogOf(w) : s.version = n
      <4>1. PICK x \in LogOf(w) : x.version \in 1..n
        BY <3>1, <3>2 DEF Versions
      <4>2. n \in Versions(w)
        BY <3>2, <4>1
      <4> QED BY <4>2 DEF Versions
    <3>4. PICK s \in LogOf(w) : s.version = n
      BY <3>3
    <3>5. \A t \in signals : t.window = w => t.version <= n
      <4>1. \A t \in LogOf(w) : t.version \in 1..n
        BY <3>2 DEF Versions
      <4> QED BY <3>2, <4>1 DEF LogOf
    <3>6. s \in C /\ s.window = w
      BY <3>4, <3>5 DEF Current, LogOf
    <3>7. s = SignalOf(w, counts[w], s.version)
      BY <2>1, <3>6 DEF Evaluated
    <3> HIDE DEF Of, C
    <3> QED BY <2>2, <3>6, <3>7
  <2>5. \A t \in T : \E w \in Windows : t = Of(w) /\ t.window = w
    BY DEF SignalOf
  <2> HIDE DEF C, T, Of
  <2>6. ExpectedEpisodes(C) = ExpectedEpisodes(T)
    BY <2>3, <2>4, <2>5, SameEpisodes
  <2> QED BY <2>1, <2>6 DEF T
<1> QED BY <1>1, EpisodesInductive, PTL
==============================================================================
