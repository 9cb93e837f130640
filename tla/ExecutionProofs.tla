--------------------------- MODULE ExecutionProofs ---------------------------
(***************************************************************************)
(* Proofs about Execution for every set of sessions, decisions and events. *)
(*                                                                         *)
(* IInv is the inductive invariant.  Its parts say, in the order in which  *)
(* they are used: what a session may hold at each position (SessionInv),   *)
(* who holds the advisory lock (LockInv), that a row has one uncommitted   *)
(* version (RowInv), that the command of such a version is not finalized   *)
(* (FreshInv), what committed and uncommitted attempts record              *)
(* (AttemptsMatchStatus, NewAttemptInv), that an observation log has a     *)
(* greatest version (LogInv), and how many executor calls there were       *)
(* (LedgerInv).  MoreInv adds, assuming it, what updates keep (KeptInv),   *)
(* what the barriers found (BarredInv, ReasonInv) and what observations    *)
(* and their log state (ObservingInv, LogSoundInv).                        *)
(***************************************************************************)
EXTENDS Execution, TLAPS

\* Positions between the grant of the advisory lock and the return of the call.
Holding == {"fetch", "barrier", "claim", "dispatch", "record"}

\* Positions at which the command has been found PENDING.
Working == {"barrier", "claim", "dispatch", "record"}

\* What a session holds at each position of its transaction.
SessionInv ==
  \A s \in Sessions :
    /\ pc[s] # "idle" => cur[s] \in Decisions
    /\ pc[s] = "idle" => row[s] = Absent
    /\ pc[s] \in {"insert", "version", "append"} => row[s].status = "ABSENT"
    /\ pc[s] \in {"created", "lock", "fetch", "barrier", "claim"} =>
         row[s].status \in {"ABSENT", "PENDING"}
    /\ pc[s] \in {"dispatch", "record"} <=> row[s].status = "EXECUTING"
    /\ pc[s] # "returned" => new_attempt[s] = {} /\ new_obs[s] = {}
    /\ pc[s] = "record" => result[s] \in ExecutionResult
    /\ row[s].status \in {"SUCCEEDED", "FAILED"} <=> new_attempt[s] # {}

\* A session past the lock, or one that has finalized a command, holds the lock.
LockInv ==
  \A s \in Sessions :
    \/ pc[s] \in Holding
    \/ row[s].status \in Finals
    => lock[cur[s]] = s

\* Only one transaction has an uncommitted version of a row.
RowInv ==
  \A s, o \in Sessions :
    s # o /\ cur[s] = cur[o] /\ row[s].status # "ABSENT" => row[o].status = "ABSENT"

\* An uncommitted version belongs to a command nobody has finalized.
FreshInv ==
  \A s \in Sessions :
    /\ row[s].status = "PENDING" => commands[cur[s]].status = "ABSENT"
    /\ row[s].status # "ABSENT" => commands[cur[s]].status \in {"ABSENT", "PENDING"}
    /\ pc[s] \in {"barrier", "claim"} => View(s, cur[s]).status = "PENDING"

\* Every uncommitted attempt belongs to the command the session has just finalized.
NewAttemptInv ==
  \A s \in Sessions :
    /\ \A a, b \in new_attempt[s] : a = b
    /\ \A a \in new_attempt[s] :
         /\ a.command = cur[s]
         /\ a.attempt_number = 1
         /\ (a.status = "SUCCESS") <=> (row[s].status = "SUCCEEDED")
         /\ a.completed_at = row[s].updated_at

\* An observation log has a greatest version, and a session adds at most one entry.
LogInv ==
  /\ \A d \in Decisions :
       \E n \in {0} \cup {o.version : o \in ObservationsOf(d)} :
         \A o \in ObservationsOf(d) : o.version <= n
  /\ \A s \in Sessions : \A o, p \in new_obs[s] : o = p

\* Executor calls: one if a record of it exists or a session is about to write it, none
\* otherwise, and one more for every call whose transaction was rolled back.
LedgerInv ==
  \A d \in Decisions :
    /\ dispatched[d] <= lost[d] + 1
    /\ \/ AttemptsOf(d) # {}
       \/ \E s \in Sessions : cur[s] = d /\ HasDispatched(s)
       \/ dispatched[d] <= lost[d]

IInv ==
  /\ TypeOK
  /\ SessionInv
  /\ LockInv
  /\ RowInv
  /\ FreshInv
  /\ AttemptsMatchStatus
  /\ NewAttemptInv
  /\ LogInv
  /\ LedgerInv

-----------------------------------------------------------------------------
(* What the helper operators return *)

\* The greatest attempt number of a command without attempts is 0.
LEMMA EmptyMax ==
  ASSUME NEW d \in Decisions, AttemptsOf(d) = {}
  PROVE  MaxAttemptNumber(d) = 0
<1>1. {a.attempt_number : a \in AttemptsOf(d)} = {}
  OBVIOUS
<1>2. QED
  BY <1>1 DEF MaxAttemptNumber

\* The greatest version of a log that has one is a natural number and bounds the log.
LEMMA LogMax ==
  ASSUME TypeOK, LogInv, NEW d \in Decisions
  PROVE  /\ MaxObservationVersion(d) \in Nat
         /\ \A o \in ObservationsOf(d) : o.version <= MaxObservationVersion(d)
<1>1. PICK n \in {0} \cup {o.version : o \in ObservationsOf(d)} :
        \A o \in ObservationsOf(d) : o.version <= n
  BY DEF LogInv
<1>2. \A o \in ObservationsOf(d) : o.version \in Nat
  BY DEF TypeOK, ObservationsOf, Observation
<1>3. QED
  BY <1>1, <1>2 DEF MaxObservationVersion

\* A SELECT returns a row or nothing.
LEMMA ViewType ==
  ASSUME TypeOK, NEW s \in Sessions, NEW d \in Decisions
  PROVE  /\ View(s, d) \in InterventionCommand \cup {Absent}
         /\ View(s, d).status # "ABSENT" => View(s, d) \in InterventionCommand
  BY DEF TypeOK, View, Absent

\* What the conditional UPDATE does to the rows and to the position of a session.
LEMMA UpdateEffect ==
  ASSUME TypeOK, NEW s \in Sessions, cur[s] \in Decisions,
         NEW expected \in CommandStatus, NEW target \in CommandStatus, NEW t \in Nat,
         NEW hit \in Labels, NEW miss \in Labels,
         UpdateStatusAtomic(s, expected, target, t, hit, miss)
  PROVE  /\ row' \in [Sessions -> InterventionCommand \cup {Absent}]
         /\ pc' \in [Sessions -> Labels]
         /\ \A o \in Sessions \ {s} : row'[o] = row[o] /\ pc'[o] = pc[o]
         /\ View(s, cur[s]).status = expected =>
              /\ pc'[s] = hit
              /\ row'[s] = [View(s, cur[s]) EXCEPT !.status = target, !.updated_at = t]
              /\ row'[s].status = target
              /\ row'[s].updated_at = t
         /\ View(s, cur[s]).status # expected => pc'[s] = miss /\ row'[s] = row[s]
<1>1. CASE View(s, cur[s]).status = expected
  <2>1. View(s, cur[s]) \in InterventionCommand
    BY <1>1, ViewType DEF CommandStatus, Finals
  <2>2. [View(s, cur[s]) EXCEPT !.status = target, !.updated_at = t] \in InterventionCommand
    BY <2>1 DEF InterventionCommand
  <2>3. /\ row' = [row EXCEPT ![s] =
                    [View(s, cur[s]) EXCEPT !.status = target, !.updated_at = t]]
        /\ pc' = [pc EXCEPT ![s] = hit]
    BY <1>1 DEF UpdateStatusAtomic, Goto
  <2>4. row'[s] = [View(s, cur[s]) EXCEPT !.status = target, !.updated_at = t]
    BY <2>3 DEF TypeOK
  <2>5. row'[s].status = target /\ row'[s].updated_at = t
    BY <2>1, <2>4 DEF InterventionCommand
  <2>6. QED
    BY <1>1, <2>2, <2>3, <2>4, <2>5 DEF TypeOK
<1>2. CASE View(s, cur[s]).status # expected
  BY <1>2 DEF UpdateStatusAtomic, TypeOK, Goto
<1>3. QED
  BY <1>1, <1>2

\* The same for a row that is known to have the expected status.
LEMMA UpdateHit ==
  ASSUME TypeOK, NEW s \in Sessions, cur[s] \in Decisions,
         NEW expected, expected \in CommandStatus, NEW target, target \in CommandStatus,
         NEW t, t \in Nat, NEW hit, hit \in Labels, NEW miss, miss \in Labels,
         View(s, cur[s]).status = expected,
         UpdateStatusAtomic(s, expected, target, t, hit, miss)
  PROVE  /\ \A o \in Sessions \ {s} : row'[o] = row[o] /\ pc'[o] = pc[o]
         /\ pc'[s] = hit
         /\ row'[s].status = target
         /\ row'[s].updated_at = t
<1>1. View(s, cur[s]) \in InterventionCommand
  BY ViewType DEF CommandStatus, Finals
<1>2. /\ row' = [row EXCEPT ![s] =
                  [View(s, cur[s]) EXCEPT !.status = target, !.updated_at = t]]
      /\ pc' = [pc EXCEPT ![s] = hit]
  BY DEF UpdateStatusAtomic, Goto
<1>3. row'[s] = [View(s, cur[s]) EXCEPT !.status = target, !.updated_at = t]
  BY <1>2 DEF TypeOK
<1>4. row'[s].status = target /\ row'[s].updated_at = t
  BY <1>1, <1>3 DEF InterventionCommand
<1>5. QED
  BY <1>2, <1>4 DEF TypeOK

-----------------------------------------------------------------------------
(* Type correctness *)

\* Every step keeps the tables and the sessions in their types.
LEMMA TypeStep ==
  ASSUME IInv, [Next]_vars
  PROVE  TypeOK'
<1>1. ASSUME NEW a \in Attempts, RegisterAttempt(a)
      PROVE  TypeOK'
  BY <1>1 DEF RegisterAttempt, IInv, TypeOK, tables, session, history, Goto
<1>2. ASSUME NEW e \in Events, IngestTerminal(e)
      PROVE  TypeOK'
  BY <1>2 DEF IngestTerminal, IInv, TypeOK, tables, session, history, Goto
<1>3. ASSUME NEW s \in Sessions, NEW d \in Decisions, NEW t \in Times, CreateCommand(s, d, t)
      PROVE  TypeOK'
  BY <1>3, ExecutionAssumption DEF CreateCommand, IInv, TypeOK, tables, session, history, Goto, Labels, Times
<1>4. ASSUME NEW s \in Sessions, NEW d \in Decisions, NEW t \in Times, ExecuteCommand(s, d, t)
      PROVE  TypeOK'
  BY <1>4, ExecutionAssumption DEF ExecuteCommand, IInv, TypeOK, tables, session, history, Goto, Labels, Times
<1>5. ASSUME NEW s \in Sessions, NEW d \in Decisions, NEW t \in Times, Observe(s, d, t)
      PROVE  TypeOK'
  <2>0. TypeOK /\ t \in Nat /\ d \in Decisions
    BY ExecutionAssumption DEF IInv, Times
  <2>1. /\ UNCHANGED <<payment_attempts, payment_events, commands, execution_attempts,
                       observations, lock, row, new_attempt, new_obs, result, dispatched, lost,
                       precluding>>
        /\ cur' = [cur EXCEPT ![s] = d] /\ at' = [at EXCEPT ![s] = t]
        /\ \E label \in {"failed", "version"} : pc' = [pc EXCEPT ![s] = label]
    BY <1>5 DEF Observe, tables, history, Goto
  <2>2. \/ seen' = seen
        \/ \E o \in PaymentOutcome : seen' = [seen EXCEPT ![s] = [outcome |-> o, version |-> 0]]
    <3>1. \A e : OutcomeOf(e) \in PaymentOutcome
      BY DEF OutcomeOf, PaymentOutcome
    <3>2. "UNKNOWN_IN_FLIGHT" \in PaymentOutcome
      BY DEF PaymentOutcome
    <3>3. \/ seen' = seen
          \/ seen' = [seen EXCEPT ![s] = Unseen]
          \/ \E e : seen' = [seen EXCEPT ![s] = [outcome |-> OutcomeOf(e), version |-> 0]]
      BY <1>5 DEF Observe
    <3> QED BY <3>1, <3>2, <3>3 DEF Unseen
  <2>3. seen' \in [Sessions -> [outcome : PaymentOutcome, version : Nat]]
    <3>1. seen \in [Sessions -> [outcome : PaymentOutcome, version : Nat]]
      BY <2>0 DEF TypeOK
    <3> QED BY <2>2, <3>1
  <2>4. cur' \in [Sessions -> Decisions \cup {NoDecision}] /\ at' \in [Sessions -> Nat]
    BY <2>0, <2>1 DEF TypeOK
  <2>5. pc' \in [Sessions -> Labels]
    BY <2>0, <2>1 DEF TypeOK, Labels
  <2> QED BY <2>0, <2>1, <2>3, <2>4, <2>5 DEF TypeOK
<1>6. ASSUME NEW s \in Sessions, ExecuteCreated(s)
      PROVE  TypeOK'
  BY <1>6 DEF ExecuteCreated, IInv, TypeOK, tables, session, history, Goto, Labels
<1>7. ASSUME NEW s \in Sessions, InsertCommand(s)
      PROVE  TypeOK'
  <2> DEFINE new == [status |-> "PENDING", created_at |-> at[s],
                     expires_at |-> at[s] + TTL, updated_at |-> at[s]]
  <2>1. new \in InterventionCommand
    <3>1. at[s] \in Nat /\ TTL \in Nat
      BY ExecutionAssumption DEF IInv, TypeOK
    <3>2. QED
      BY <3>1 DEF InterventionCommand, CommandStatus
  <2>2. row' \in [Sessions -> InterventionCommand \cup {Absent}] /\ pc' \in [Sessions -> Labels]
    <3>1. CASE commands[cur[s]].status # "ABSENT"
      BY <1>7, <3>1 DEF InsertCommand, IInv, TypeOK, Goto, Labels
    <3>2. CASE commands[cur[s]].status = "ABSENT"
      <4>1. row' = [row EXCEPT ![s] = new] /\ pc' = [pc EXCEPT ![s] = "created"]
        BY <1>7, <3>2 DEF InsertCommand, Goto
      <4>2. QED
        BY <2>1, <4>1 DEF IInv, TypeOK, Labels
    <3>3. QED
      BY <3>1, <3>2
  <2>3. QED
    BY <1>7, <2>2 DEF InsertCommand, IInv, TypeOK, tables, session, history
<1>8. ASSUME NEW s \in Sessions, AcquireCommandLock(s)
      PROVE  TypeOK'
  <2>1. TerminalEvents(cur[s], at[s]) \subseteq Events BY DEF TerminalEvents, IInv, TypeOK
  <2> QED
    BY <1>8, <2>1 DEF AcquireCommandLock, IInv, TypeOK, tables, session, history, Goto, SessionInv, Labels
<1>9. ASSUME NEW s \in Sessions, FetchCommand(s)
      PROVE  TypeOK'
  <2>1. cur[s] \in Decisions /\ at[s] \in Nat
    BY <1>9 DEF IInv, SessionInv, TypeOK, FetchCommand
  <2>2. row' \in [Sessions -> InterventionCommand \cup {Absent}] /\ pc' \in [Sessions -> Labels]
    BY <1>9, <2>1, UpdateEffect DEF IInv, TypeOK, FetchCommand, Goto, Labels, CommandStatus, Finals
  <2>3. QED
    BY <1>9, <2>2 DEF IInv, TypeOK, FetchCommand, tables, session, history
<1>10. ASSUME NEW s \in Sessions, CheckTerminal(s)
      PROVE  TypeOK'
  <2>1. cur[s] \in Decisions /\ at[s] \in Nat
    BY <1>10 DEF IInv, SessionInv, TypeOK, CheckTerminal
  <2>2. row' \in [Sessions -> InterventionCommand \cup {Absent}] /\ pc' \in [Sessions -> Labels]
    BY <1>10, <2>1, UpdateEffect DEF IInv, TypeOK, CheckTerminal, Goto, Labels, CommandStatus, Finals
  <2>3. QED
    BY <1>10, <2>2 DEF IInv, TypeOK, CheckTerminal, tables, session, history
<1>11. ASSUME NEW s \in Sessions, ClaimCommand(s)
      PROVE  TypeOK'
  <2>1. cur[s] \in Decisions /\ at[s] \in Nat
    BY <1>11 DEF IInv, SessionInv, TypeOK, ClaimCommand
  <2>2. row' \in [Sessions -> InterventionCommand \cup {Absent}] /\ pc' \in [Sessions -> Labels]
    BY <1>11, <2>1, UpdateEffect DEF IInv, TypeOK, ClaimCommand, Goto, Labels, CommandStatus, Finals
  <2>3. QED
    BY <1>11, <2>2 DEF IInv, TypeOK, ClaimCommand, tables, session, history
<1>12. ASSUME NEW s \in Sessions, Dispatch(s)
      PROVE  TypeOK'
  BY <1>12 DEF Dispatch, IInv, TypeOK, tables, session, history, Goto, SessionInv, Labels
<1>13. ASSUME NEW s \in Sessions, RecordAttempt(s)
      PROVE  TypeOK'
  <2> DEFINE end == at[s] + result[s].duration
             new == [command |-> cur[s], attempt_number |-> MaxAttemptNumber(cur[s]) + 1,
                     started_at |-> at[s], completed_at |-> end, status |-> result[s].status]
  <2>1. /\ cur[s] \in Decisions
        /\ at[s] \in Nat
        /\ result[s] \in ExecutionResult
        /\ row[s].status = "EXECUTING"
    BY <1>13 DEF IInv, SessionInv, TypeOK, RecordAttempt
  <2>2. AttemptsOf(cur[s]) = {}
    BY <2>1 DEF IInv, FreshInv, AttemptsMatchStatus
  <2>3. MaxAttemptNumber(cur[s]) = 0
    BY <2>1, <2>2, EmptyMax
  <2>4. end \in Nat /\ result[s].status \in ExecutionResultStatus
    <3>1. result[s].duration \in Durations /\ result[s].status \in ExecutionResultStatus
      BY <2>1 DEF ExecutionResult
    <3>2. result[s].duration \in Nat
      BY <3>1, ExecutionAssumption
    <3>3. at[s] \in Nat
      BY <2>1
    <3>4. QED
      BY <3>1, <3>2, <3>3
  <2>5. new \in ExecutionAttempt
    BY <2>1, <2>3, <2>4 DEF ExecutionAttempt
  <2>6. row' \in [Sessions -> InterventionCommand \cup {Absent}] /\ pc' \in [Sessions -> Labels]
    <3>1. FinalStatus(result[s].status) \in CommandStatus
      BY DEF FinalStatus, CommandStatus, Finals
    <3>2. UpdateStatusAtomic(s, "EXECUTING", FinalStatus(result[s].status), end,
                             "returned", "returned")
      BY <1>13 DEF RecordAttempt
    <3>3. QED
      BY <2>1, <2>4, <3>1, <3>2, UpdateEffect DEF IInv, Labels, CommandStatus
  <2>7. new_attempt' \in [Sessions -> SUBSET ExecutionAttempt]
    BY <1>13, <2>5 DEF RecordAttempt, IInv, TypeOK
  <2>8. QED
    BY <1>13, <2>6, <2>7 DEF RecordAttempt, IInv, TypeOK, tables, session, history
<1>14. ASSUME NEW s \in Sessions, AllocateObservationVersion(s)
      PROVE  TypeOK'
  <2>1. cur[s] \in Decisions
    BY <1>14 DEF AllocateObservationVersion, IInv, SessionInv
  <2>2. MaxObservationVersion(cur[s]) + 1 \in Nat
    BY <2>1, LogMax DEF IInv
  <2>3. seen' \in [Sessions -> [outcome : PaymentOutcome, version : Nat]]
    BY <1>14, <2>2 DEF AllocateObservationVersion, IInv, TypeOK
  <2>4. QED
    BY <1>14, <2>3 DEF AllocateObservationVersion, IInv, TypeOK, tables, session, history,
                      Goto, Labels
<1>15. ASSUME NEW s \in Sessions, AppendObservation(s)
      PROVE  TypeOK'
  <2> DEFINE obs == [command |-> cur[s], version |-> seen[s].version, as_of |-> at[s],
                     outcome |-> seen[s].outcome]
  <2>1. obs \in Observation
    BY <1>15 DEF AppendObservation, IInv, SessionInv, TypeOK, Observation
  <2>2. new_obs' \in [Sessions -> SUBSET Observation]
    BY <1>15, <2>1 DEF AppendObservation, IInv, TypeOK
  <2>3. QED
    BY <1>15, <2>2 DEF AppendObservation, IInv, TypeOK, tables, session, history, Goto, Labels
<1>16. ASSUME NEW s \in Sessions, Commit(s)
      PROVE  TypeOK'
  BY <1>16, ViewType DEF Commit, IInv, TypeOK, tables, session, history, Goto, SessionInv, EndTransaction, NoResult, Unseen, PaymentOutcome, Labels
<1>17. ASSUME NEW s \in Sessions, Rollback(s)
      PROVE  TypeOK'
  BY <1>17 DEF Rollback, IInv, TypeOK, tables, session, history, Goto, SessionInv, EndTransaction, NoResult, Unseen, PaymentOutcome, Labels
<1>18. CASE UNCHANGED vars
  BY <1>18 DEF vars, tables, session, history, IInv, TypeOK, tables, session, history, Goto
<1>19. QED
  BY <1>1, <1>2, <1>3, <1>4, <1>5, <1>6, <1>7, <1>8, <1>9, <1>10, <1>11, <1>12, <1>13, <1>14, <1>15, <1>16, <1>17, <1>18 DEF Next, Statement
-----------------------------------------------------------------------------
(* What the four statements that update a command do *)

\* The fetch returns, refuses, expires the command or goes on with a PENDING one.
LEMMA FetchEffect ==
  ASSUME IInv, NEW s \in Sessions, FetchCommand(s)
  PROVE  /\ cur[s] \in Decisions
         /\ \A o \in Sessions \ {s} : row'[o] = row[o] /\ pc'[o] = pc[o]
         /\ \/ pc'[s] \in {"failed", "returned"} /\ row'[s] = row[s]
            \/ /\ View(s, cur[s]).status = "PENDING"
               /\ pc'[s] = "barrier" /\ row'[s] = row[s]
            \/ /\ View(s, cur[s]).status = "PENDING"
               /\ RowFree(s, cur[s])
               /\ pc'[s] = "returned"
               /\ row'[s].status = "EXPIRED"
<1>1. cur[s] \in Decisions /\ at[s] \in Nat
  BY DEF IInv, SessionInv, TypeOK, FetchCommand
<1>2. CASE UNCHANGED row
  BY <1>1, <1>2 DEF FetchCommand, IInv, TypeOK, Goto, UpdateStatusAtomic
<1>3. CASE /\ View(s, cur[s]).status = "PENDING"
           /\ UpdateStatusAtomic(s, "PENDING", "EXPIRED", at[s], "returned", "returned")
  <2>1. RowFree(s, cur[s])
    BY <1>3 DEF UpdateStatusAtomic
  <2>2. "PENDING" \in CommandStatus /\ "EXPIRED" \in CommandStatus /\ "returned" \in Labels
    BY DEF CommandStatus, Finals, Labels
  <2>3. QED
    BY <1>1, <1>3, <2>1, <2>2, UpdateEffect DEF IInv
<1>4. QED
  BY <1>2, <1>3 DEF FetchCommand

\* Barrier B lets a PENDING command through or finalizes it NOT_NEEDED.
LEMMA CheckTerminalEffect ==
  ASSUME IInv, NEW s \in Sessions, CheckTerminal(s)
  PROVE  /\ cur[s] \in Decisions
         /\ View(s, cur[s]).status = "PENDING"
         /\ \A o \in Sessions \ {s} : row'[o] = row[o] /\ pc'[o] = pc[o]
         /\ \/ pc'[s] = "claim" /\ row'[s] = row[s]
            \/ /\ RowFree(s, cur[s])
               /\ pc'[s] = "returned"
               /\ row'[s].status = "NOT_NEEDED"
<1>1. /\ cur[s] \in Decisions /\ at[s] \in Nat
      /\ View(s, cur[s]).status = "PENDING"
  BY DEF IInv, SessionInv, FreshInv, TypeOK, CheckTerminal
<1>2. CASE TerminalEvents(cur[s], at[s]) = {}
  BY <1>1, <1>2 DEF CheckTerminal, IInv, TypeOK, Goto
<1>3. CASE TerminalEvents(cur[s], at[s]) # {}
  <2>1. UpdateStatusAtomic(s, "PENDING", "NOT_NEEDED", at[s], "returned", "returned")
    BY <1>3 DEF CheckTerminal
  <2>2. "PENDING" \in CommandStatus /\ "NOT_NEEDED" \in CommandStatus /\ "returned" \in Labels
    BY DEF CommandStatus, Finals, Labels
  <2>3. RowFree(s, cur[s])
    BY <2>1 DEF UpdateStatusAtomic
  <2>4. QED
    BY <1>1, <2>1, <2>2, <2>3, UpdateEffect DEF IInv
<1>4. QED
  BY <1>2, <1>3

\* Under the lock the claim of a PENDING command never misses.
LEMMA ClaimEffect ==
  ASSUME IInv, NEW s \in Sessions, ClaimCommand(s)
  PROVE  /\ cur[s] \in Decisions
         /\ View(s, cur[s]).status = "PENDING"
         /\ \A o \in Sessions \ {s} : row'[o] = row[o] /\ pc'[o] = pc[o]
         /\ RowFree(s, cur[s])
         /\ pc'[s] = "dispatch"
         /\ row'[s].status = "EXECUTING"
<1>1. /\ cur[s] \in Decisions /\ at[s] \in Nat
      /\ View(s, cur[s]).status = "PENDING"
  BY DEF IInv, SessionInv, FreshInv, TypeOK, ClaimCommand
<1>2. UpdateStatusAtomic(s, "PENDING", "EXECUTING", at[s], "dispatch", "returned")
  BY DEF ClaimCommand
<1>3. /\ "PENDING" \in CommandStatus /\ "EXECUTING" \in CommandStatus
      /\ "dispatch" \in Labels /\ "returned" \in Labels
  BY DEF CommandStatus, Labels
<1>4. RowFree(s, cur[s])
  BY <1>2 DEF UpdateStatusAtomic
<1>5. TypeOK
  BY DEF IInv
<1>6. /\ pc'[s] = "dispatch"
      /\ row'[s].status = "EXECUTING"
      /\ \A o \in Sessions \ {s} : row'[o] = row[o] /\ pc'[o] = pc[o]
  BY <1>1, <1>2, <1>3, <1>5, UpdateHit
<1>7. QED
  BY <1>1, <1>4, <1>6

\* Recording writes attempt number 1 and the status that matches it.
LEMMA RecordEffect ==
  ASSUME IInv, NEW s \in Sessions, RecordAttempt(s)
  PROVE  /\ cur[s] \in Decisions
         /\ row[s].status = "EXECUTING"
         /\ \A o \in Sessions \ {s} : /\ row'[o] = row[o] /\ pc'[o] = pc[o]
                                      /\ new_attempt'[o] = new_attempt[o]
         /\ pc'[s] = "returned"
         /\ row'[s].status \in {"SUCCEEDED", "FAILED"}
         /\ \E a : /\ new_attempt'[s] = {a}
                   /\ a.command = cur[s]
                   /\ a.attempt_number = 1
                   /\ (a.status = "SUCCESS") <=> (row'[s].status = "SUCCEEDED")
                   /\ a.completed_at = row'[s].updated_at
<1> DEFINE end == at[s] + result[s].duration
           new == [command |-> cur[s], attempt_number |-> MaxAttemptNumber(cur[s]) + 1,
                   started_at |-> at[s], completed_at |-> end, status |-> result[s].status]
<1>1. /\ cur[s] \in Decisions
      /\ at[s] \in Nat
      /\ result[s] \in ExecutionResult
      /\ row[s].status = "EXECUTING"
  BY DEF IInv, SessionInv, TypeOK, RecordAttempt
<1>2. MaxAttemptNumber(cur[s]) = 0
  <2>1. AttemptsOf(cur[s]) = {}
    BY <1>1 DEF IInv, FreshInv, AttemptsMatchStatus
  <2>2. QED
    BY <1>1, <2>1, EmptyMax
<1>3. end \in Nat
  <2>1. result[s].duration \in Nat
    BY <1>1, ExecutionAssumption DEF ExecutionResult
  <2>2. QED
    BY <1>1, <2>1
<1>4. View(s, cur[s]) = row[s]
  BY <1>1 DEF View
<1>5. UpdateStatusAtomic(s, "EXECUTING", FinalStatus(result[s].status), end,
                         "returned", "returned")
  BY DEF RecordAttempt
<1>6. /\ FinalStatus(result[s].status) \in {"SUCCEEDED", "FAILED"}
      /\ (FinalStatus(result[s].status) = "SUCCEEDED") <=> (result[s].status = "SUCCESS")
  BY DEF FinalStatus
<1>7. /\ pc'[s] = "returned"
      /\ row'[s].status = FinalStatus(result[s].status)
      /\ row'[s].updated_at = end
      /\ \A o \in Sessions \ {s} : row'[o] = row[o] /\ pc'[o] = pc[o]
  <2>1. /\ "EXECUTING" \in CommandStatus /\ "returned" \in Labels
        /\ FinalStatus(result[s].status) \in CommandStatus
    BY <1>6 DEF CommandStatus, Finals, Labels
  <2>2. TypeOK
    BY DEF IInv
  <2>3. View(s, cur[s]).status = "EXECUTING"
    BY <1>1, <1>4
  <2>4. \A target \in CommandStatus, t \in Nat :
          UpdateStatusAtomic(s, "EXECUTING", target, t, "returned", "returned") =>
            /\ pc'[s] = "returned"
            /\ row'[s].status = target
            /\ row'[s].updated_at = t
            /\ \A o \in Sessions \ {s} : row'[o] = row[o] /\ pc'[o] = pc[o]
    BY <1>1, <2>1, <2>2, <2>3, UpdateHit
  <2>5. QED
    BY <1>3, <1>5, <2>1, <2>4
<1>8. /\ new_attempt'[s] = {new}
      /\ \A o \in Sessions \ {s} : new_attempt'[o] = new_attempt[o]
  BY DEF RecordAttempt, IInv, TypeOK
<1>9. /\ new.command = cur[s]
      /\ new.attempt_number = 1
      /\ (new.status = "SUCCESS") <=> (row'[s].status = "SUCCEEDED")
      /\ new.completed_at = row'[s].updated_at
  BY <1>2, <1>6, <1>7
<1> HIDE DEF new
<1>10. QED
  BY <1>1, <1>6, <1>7, <1>8, <1>9

-----------------------------------------------------------------------------
(* Sessions, locks and rows *)

\* Every step leaves each session with what it may hold at its position.
LEMMA SessionStep ==
  ASSUME IInv, [Next]_vars
  PROVE  SessionInv'
<1>1. ASSUME NEW a \in Attempts, RegisterAttempt(a)
      PROVE  SessionInv'
  BY <1>1 DEF RegisterAttempt, IInv, TypeOK, SessionInv, Absent, Finals, tables, session, history, Goto
<1>2. ASSUME NEW e \in Events, IngestTerminal(e)
      PROVE  SessionInv'
  BY <1>2 DEF IngestTerminal, IInv, TypeOK, SessionInv, Absent, Finals, tables, session, history, Goto
<1>3. ASSUME NEW s \in Sessions, NEW d \in Decisions, NEW t \in Times, CreateCommand(s, d, t)
      PROVE  SessionInv'
  BY <1>3 DEF CreateCommand, IInv, TypeOK, SessionInv, Absent, Finals, tables, session, history, Goto
<1>4. ASSUME NEW s \in Sessions, NEW d \in Decisions, NEW t \in Times, ExecuteCommand(s, d, t)
      PROVE  SessionInv'
  BY <1>4 DEF ExecuteCommand, IInv, TypeOK, SessionInv, Absent, Finals, tables, session, history, Goto
<1>5. ASSUME NEW s \in Sessions, NEW d \in Decisions, NEW t \in Times, Observe(s, d, t)
      PROVE  SessionInv'
  BY <1>5 DEF Observe, IInv, TypeOK, SessionInv, Absent, Finals, tables, session, history, Goto
<1>6. ASSUME NEW s \in Sessions, ExecuteCreated(s)
      PROVE  SessionInv'
  BY <1>6 DEF ExecuteCreated, IInv, TypeOK, SessionInv, Absent, Finals, tables, session, history, Goto
<1>7. ASSUME NEW s \in Sessions, InsertCommand(s)
      PROVE  SessionInv'
  BY <1>7 DEF InsertCommand, IInv, TypeOK, SessionInv, Absent, Finals, tables, session, history, Goto
<1>8. ASSUME NEW s \in Sessions, AcquireCommandLock(s)
      PROVE  SessionInv'
  BY <1>8 DEF AcquireCommandLock, IInv, TypeOK, SessionInv, Absent, Finals, tables, session, history, Goto
<1>9. ASSUME NEW s \in Sessions, FetchCommand(s)
      PROVE  SessionInv'
  <2>1. /\ cur' = cur /\ result' = result /\ new_attempt' = new_attempt /\ new_obs' = new_obs
        /\ pc[s] = "fetch"
    BY <1>9 DEF FetchCommand
  <2>2. pc'[s] \in {"failed", "returned", "barrier"}
    BY <1>9, FetchEffect
  <2>3. row'[s] = row[s] \/ row'[s].status = "EXPIRED"
    BY <1>9, FetchEffect
  <2>4. row[s].status \in {"ABSENT", "PENDING"} /\ new_attempt[s] = {} /\ new_obs[s] = {}
        /\ cur[s] \in Decisions
    BY <2>1 DEF IInv, SessionInv
  <2>5. \A o \in Sessions \ {s} : row'[o] = row[o] /\ pc'[o] = pc[o]
    BY <1>9, FetchEffect
  <2>6. pc'[s] = "barrier" => row'[s] = row[s]
    BY <1>9, FetchEffect
  <2>7. ASSUME NEW o \in Sessions
        PROVE  /\ pc'[o] # "idle" => cur'[o] \in Decisions
               /\ pc'[o] = "idle" => row'[o] = Absent
               /\ pc'[o] \in {"insert", "version", "append"} => row'[o].status = "ABSENT"
               /\ pc'[o] \in {"created", "lock", "fetch", "barrier", "claim"} =>
                    row'[o].status \in {"ABSENT", "PENDING"}
               /\ pc'[o] \in {"dispatch", "record"} <=> row'[o].status = "EXECUTING"
               /\ pc'[o] # "returned" => new_attempt'[o] = {} /\ new_obs'[o] = {}
               /\ pc'[o] = "record" => result'[o] \in ExecutionResult
               /\ row'[o].status \in {"SUCCEEDED", "FAILED"} <=> new_attempt'[o] # {}
    <3>1. CASE o = s BY <2>1, <2>2, <2>3, <2>4, <2>6, <3>1
    <3>2. CASE o # s BY <2>1, <2>5, <3>2 DEF IInv, SessionInv
    <3> QED BY <3>1, <3>2
  <2> QED BY <2>7 DEF SessionInv
<1>10. ASSUME NEW s \in Sessions, CheckTerminal(s)
      PROVE  SessionInv'
  <2>1. /\ pc[s] = "barrier"
        /\ UNCHANGED <<cur, new_attempt, new_obs, result>>
    BY <1>10 DEF CheckTerminal
  <2>2. /\ \A o \in Sessions \ {s} : row'[o] = row[o] /\ pc'[o] = pc[o]
        /\ \/ pc'[s] = "claim" /\ row'[s] = row[s]
           \/ pc'[s] = "returned" /\ row'[s].status = "NOT_NEEDED"
    BY <1>10, CheckTerminalEffect
  <2> QED BY <2>1, <2>2 DEF IInv, SessionInv, Absent, Finals
<1>11. ASSUME NEW s \in Sessions, ClaimCommand(s)
      PROVE  SessionInv'
  BY <1>11, ClaimEffect DEF ClaimCommand, IInv, TypeOK, SessionInv, Absent, Finals, tables, session, history, Goto, RowFree
<1>12. ASSUME NEW s \in Sessions, Dispatch(s)
      PROVE  SessionInv'
  <2>1. /\ UNCHANGED <<cur, row, new_attempt, new_obs>>
        /\ pc[s] = "dispatch" /\ pc' = [pc EXCEPT ![s] = "record"]
        /\ \E r \in ExecutionResult : result' = [result EXCEPT ![s] = r]
    BY <1>12 DEF Dispatch, Goto
  <2>2. pc \in [Sessions -> Labels] /\ result \in [Sessions -> ExecutionResult \cup {NoResult}]
    BY DEF IInv, TypeOK
  <2>3. pc'[s] = "record" /\ result'[s] \in ExecutionResult
    BY <2>1, <2>2
  <2>4. \A o \in Sessions \ {s} : pc'[o] = pc[o] /\ result'[o] = result[o]
    BY <2>1, <2>2
  <2>5. SessionInv
    BY DEF IInv
  <2> QED BY <2>1, <2>3, <2>4, <2>5 DEF SessionInv
<1>13. ASSUME NEW s \in Sessions, RecordAttempt(s)
      PROVE  SessionInv'
  <2>1. UNCHANGED <<cur, new_obs>>
    BY <1>13 DEF RecordAttempt
  <2>2. /\ pc'[s] = "returned"
        /\ row'[s].status \in {"SUCCEEDED", "FAILED"}
        /\ new_attempt'[s] # {}
        /\ cur[s] \in Decisions
    BY <1>13, RecordEffect
  <2>3. \A o \in Sessions \ {s} : /\ row'[o] = row[o] /\ pc'[o] = pc[o]
                                 /\ new_attempt'[o] = new_attempt[o]
                                 /\ result'[o] = result[o]
    <3>1. result' = [result EXCEPT ![s] = NoResult]
      BY <1>13 DEF RecordAttempt
    <3>2. result \in [Sessions -> ExecutionResult \cup {NoResult}]
      BY DEF IInv, TypeOK
    <3>3. \A o \in Sessions \ {s} : result'[o] = result[o]
      BY <3>1, <3>2
    <3> QED BY <1>13, <3>3, RecordEffect
  <2>4. SessionInv /\ new_obs[s] = {}
    BY <1>13 DEF IInv, SessionInv, RecordAttempt
  <2>5. ASSUME NEW o \in Sessions \ {s} PROVE
          /\ row'[o] = row[o] /\ pc'[o] = pc[o] /\ result'[o] = result[o]
          /\ new_attempt'[o] = new_attempt[o] /\ new_obs'[o] = new_obs[o] /\ cur'[o] = cur[o]
    BY <2>1, <2>3
  <2>6. QED
    BY <2>1, <2>2, <2>4, <2>5 DEF SessionInv
<1>14. ASSUME NEW s \in Sessions, AllocateObservationVersion(s)
      PROVE  SessionInv'
  BY <1>14 DEF AllocateObservationVersion, IInv, TypeOK, SessionInv, Absent, Finals, tables, session, history, Goto
<1>15. ASSUME NEW s \in Sessions, AppendObservation(s)
      PROVE  SessionInv'
  BY <1>15 DEF AppendObservation, IInv, TypeOK, SessionInv, Absent, Finals, tables, session, history, Goto
<1>16. ASSUME NEW s \in Sessions, Commit(s)
      PROVE  SessionInv'
  BY <1>16 DEF Commit, IInv, TypeOK, SessionInv, Absent, Finals, tables, session, history, Goto, EndTransaction, View, Absent
<1>17. ASSUME NEW s \in Sessions, Rollback(s)
      PROVE  SessionInv'
  BY <1>17 DEF Rollback, IInv, TypeOK, SessionInv, Absent, Finals, tables, session, history, Goto, EndTransaction, Absent
<1>18. CASE UNCHANGED vars
  BY <1>18 DEF vars, tables, session, history, IInv, SessionInv, Absent, Finals
<1>19. QED
  BY <1>1, <1>2, <1>3, <1>4, <1>5, <1>6, <1>7, <1>8, <1>9, <1>10, <1>11, <1>12, <1>13, <1>14, <1>15, <1>16, <1>17, <1>18 DEF Next, Statement

\* A session that has passed the lock keeps it until its transaction ends.
LEMMA LockStep ==
  ASSUME IInv, [Next]_vars
  PROVE  LockInv'
<1>1. ASSUME NEW a \in Attempts, RegisterAttempt(a)
      PROVE  LockInv'
  BY <1>1 DEF RegisterAttempt, IInv, TypeOK, LockInv, SessionInv, Holding, Finals, Absent, tables, session, history, Goto
<1>2. ASSUME NEW e \in Events, IngestTerminal(e)
      PROVE  LockInv'
  BY <1>2 DEF IngestTerminal, IInv, TypeOK, LockInv, SessionInv, Holding, Finals, Absent, tables, session, history, Goto
<1>3. ASSUME NEW s \in Sessions, NEW d \in Decisions, NEW t \in Times, CreateCommand(s, d, t)
      PROVE  LockInv'
  BY <1>3 DEF CreateCommand, IInv, TypeOK, LockInv, SessionInv, Holding, Finals, Absent, tables, session, history, Goto
<1>4. ASSUME NEW s \in Sessions, NEW d \in Decisions, NEW t \in Times, ExecuteCommand(s, d, t)
      PROVE  LockInv'
  BY <1>4 DEF ExecuteCommand, IInv, TypeOK, LockInv, SessionInv, Holding, Finals, Absent, tables, session, history, Goto
<1>5. ASSUME NEW s \in Sessions, NEW d \in Decisions, NEW t \in Times, Observe(s, d, t)
      PROVE  LockInv'
  BY <1>5 DEF Observe, IInv, TypeOK, LockInv, SessionInv, Holding, Finals, Absent, tables, session, history, Goto
<1>6. ASSUME NEW s \in Sessions, ExecuteCreated(s)
      PROVE  LockInv'
  BY <1>6 DEF ExecuteCreated, IInv, TypeOK, LockInv, SessionInv, Holding, Finals, Absent, tables, session, history, Goto
<1>7. ASSUME NEW s \in Sessions, InsertCommand(s)
      PROVE  LockInv'
  BY <1>7 DEF InsertCommand, IInv, TypeOK, LockInv, SessionInv, Holding, Finals, Absent, tables, session, history, Goto
<1>8. ASSUME NEW s \in Sessions, AcquireCommandLock(s)
      PROVE  LockInv'
  BY <1>8, ExecutionAssumption DEF AcquireCommandLock, IInv, TypeOK, LockInv, SessionInv, Holding, Finals, Absent, tables, session, history, Goto
<1>9. ASSUME NEW s \in Sessions, FetchCommand(s)
      PROVE  LockInv'
  BY <1>9, FetchEffect DEF FetchCommand, IInv, TypeOK, LockInv, SessionInv, Holding, Finals, Absent, tables, session, history, Goto, RowFree
<1>10. ASSUME NEW s \in Sessions, CheckTerminal(s)
      PROVE  LockInv'
  <2>1. pc[s] = "barrier" /\ UNCHANGED <<cur, lock>>
    BY <1>10 DEF CheckTerminal
  <2>2. \A o \in Sessions \ {s} : row'[o] = row[o] /\ pc'[o] = pc[o]
    BY <1>10, CheckTerminalEffect
  <2> QED BY <2>1, <2>2 DEF IInv, LockInv, Holding
<1>11. ASSUME NEW s \in Sessions, ClaimCommand(s)
      PROVE  LockInv'
  BY <1>11, ClaimEffect DEF ClaimCommand, IInv, TypeOK, LockInv, SessionInv, Holding, Finals, Absent, tables, session, history, Goto, RowFree
<1>12. ASSUME NEW s \in Sessions, Dispatch(s)
      PROVE  LockInv'
  BY <1>12 DEF Dispatch, IInv, TypeOK, LockInv, SessionInv, Holding, Finals, Absent, tables, session, history, Goto
<1>13. ASSUME NEW s \in Sessions, RecordAttempt(s)
      PROVE  LockInv'
  <2>1. UNCHANGED <<cur, lock>> /\ pc[s] = "record"
    BY <1>13 DEF RecordAttempt
  <2>2. /\ lock[cur[s]] = s
        /\ \A o \in Sessions \ {s} : row'[o] = row[o] /\ pc'[o] = pc[o]
    BY <1>13, <2>1, RecordEffect DEF IInv, LockInv, Holding
  <2>3. QED
    BY <2>1, <2>2 DEF IInv, LockInv
<1>14. ASSUME NEW s \in Sessions, AllocateObservationVersion(s)
      PROVE  LockInv'
  BY <1>14 DEF AllocateObservationVersion, IInv, TypeOK, LockInv, SessionInv, Holding, Finals, Absent, tables, session, history, Goto
<1>15. ASSUME NEW s \in Sessions, AppendObservation(s)
      PROVE  LockInv'
  BY <1>15 DEF AppendObservation, IInv, TypeOK, LockInv, SessionInv, Holding, Finals, Absent, tables, session, history, Goto
<1>16. ASSUME NEW s \in Sessions, Commit(s)
      PROVE  LockInv'
  BY <1>16 DEF Commit, IInv, TypeOK, LockInv, SessionInv, Holding, Finals, Absent, tables, session, history, Goto, EndTransaction, View, Absent
<1>17. ASSUME NEW s \in Sessions, Rollback(s)
      PROVE  LockInv'
  BY <1>17 DEF Rollback, IInv, TypeOK, LockInv, SessionInv, Holding, Finals, Absent, tables, session, history, Goto, EndTransaction, Absent
<1>18. CASE UNCHANGED vars
  BY <1>18 DEF vars, tables, session, history, IInv, LockInv, SessionInv, Holding, Finals, Absent
<1>19. QED
  BY <1>1, <1>2, <1>3, <1>4, <1>5, <1>6, <1>7, <1>8, <1>9, <1>10, <1>11, <1>12, <1>13, <1>14, <1>15, <1>16, <1>17, <1>18 DEF Next, Statement

\* Two transactions never hold uncommitted versions of one row.
LEMMA RowStep ==
  ASSUME IInv, [Next]_vars
  PROVE  RowInv'
<1>1. ASSUME NEW a \in Attempts, RegisterAttempt(a)
      PROVE  RowInv'
  BY <1>1 DEF RegisterAttempt, IInv, TypeOK, RowInv, SessionInv, RowFree, Absent, tables, session, history, Goto
<1>2. ASSUME NEW e \in Events, IngestTerminal(e)
      PROVE  RowInv'
  BY <1>2 DEF IngestTerminal, IInv, TypeOK, RowInv, SessionInv, RowFree, Absent, tables, session, history, Goto
<1>3. ASSUME NEW s \in Sessions, NEW d \in Decisions, NEW t \in Times, CreateCommand(s, d, t)
      PROVE  RowInv'
  BY <1>3 DEF CreateCommand, IInv, TypeOK, RowInv, SessionInv, RowFree, Absent, tables, session, history, Goto
<1>4. ASSUME NEW s \in Sessions, NEW d \in Decisions, NEW t \in Times, ExecuteCommand(s, d, t)
      PROVE  RowInv'
  BY <1>4 DEF ExecuteCommand, IInv, TypeOK, RowInv, SessionInv, RowFree, Absent, tables, session, history, Goto
<1>5. ASSUME NEW s \in Sessions, NEW d \in Decisions, NEW t \in Times, Observe(s, d, t)
      PROVE  RowInv'
  BY <1>5 DEF Observe, IInv, TypeOK, RowInv, SessionInv, RowFree, Absent, tables, session, history, Goto
<1>6. ASSUME NEW s \in Sessions, ExecuteCreated(s)
      PROVE  RowInv'
  BY <1>6 DEF ExecuteCreated, IInv, TypeOK, RowInv, SessionInv, RowFree, Absent, tables, session, history, Goto
<1>7. ASSUME NEW s \in Sessions, InsertCommand(s)
      PROVE  RowInv'
  <2>1. /\ UNCHANGED cur
        /\ \A o \in Sessions \ {s} : row'[o] = row[o]
        /\ \A o \in Sessions \ {s} : cur[o] = cur[s] => row[o].status = "ABSENT"
    BY <1>7 DEF InsertCommand, RowFree, IInv, TypeOK
  <2>2. QED
    BY <2>1 DEF IInv, RowInv
<1>8. ASSUME NEW s \in Sessions, AcquireCommandLock(s)
      PROVE  RowInv'
  BY <1>8 DEF AcquireCommandLock, IInv, TypeOK, RowInv, SessionInv, RowFree, Absent, tables, session, history, Goto
<1>9. ASSUME NEW s \in Sessions, FetchCommand(s)
      PROVE  RowInv'
  BY <1>9, FetchEffect DEF FetchCommand, IInv, TypeOK, RowInv, SessionInv, RowFree, Absent, tables, session, history, Goto, RowFree
<1>10. ASSUME NEW s \in Sessions, CheckTerminal(s)
      PROVE  RowInv'
  <2>1. UNCHANGED cur
    BY <1>10 DEF CheckTerminal
  <2>2. \A o \in Sessions \ {s} : row'[o] = row[o]
    BY <1>10, CheckTerminalEffect
  <2>3. CASE row'[s] = row[s]
    BY <2>1, <2>2, <2>3 DEF IInv, RowInv
  <2>4. CASE RowFree(s, cur[s])
    BY <2>1, <2>2, <2>4 DEF IInv, RowInv, RowFree
  <2>5. QED
    BY <1>10, <2>3, <2>4, CheckTerminalEffect
<1>11. ASSUME NEW s \in Sessions, ClaimCommand(s)
      PROVE  RowInv'
  <2>1. UNCHANGED cur
    BY <1>11 DEF ClaimCommand
  <2>2. (\A o \in Sessions \ {s} : row'[o] = row[o]) /\ (row'[s] = row[s] \/ RowFree(s, cur[s]))
    BY <1>11, ClaimEffect
  <2>3. CASE row'[s] = row[s]
    BY <2>1, <2>2, <2>3 DEF IInv, RowInv
  <2>4. CASE RowFree(s, cur[s])
    BY <2>1, <2>2, <2>4 DEF IInv, RowInv, RowFree
  <2> QED BY <2>2, <2>3, <2>4
<1>12. ASSUME NEW s \in Sessions, Dispatch(s)
      PROVE  RowInv'
  BY <1>12 DEF Dispatch, IInv, TypeOK, RowInv, SessionInv, RowFree, Absent, tables, session, history, Goto
<1>13. ASSUME NEW s \in Sessions, RecordAttempt(s)
      PROVE  RowInv'
  <2>1. UNCHANGED cur /\ row[s].status = "EXECUTING"
    BY <1>13, RecordEffect DEF RecordAttempt
  <2>2. \A o \in Sessions \ {s} : row'[o] = row[o]
    BY <1>13, RecordEffect
  <2>3. QED
    BY <2>1, <2>2 DEF IInv, RowInv
<1>14. ASSUME NEW s \in Sessions, AllocateObservationVersion(s)
      PROVE  RowInv'
  BY <1>14 DEF AllocateObservationVersion, IInv, TypeOK, RowInv, SessionInv, RowFree, Absent, tables, session, history, Goto
<1>15. ASSUME NEW s \in Sessions, AppendObservation(s)
      PROVE  RowInv'
  BY <1>15 DEF AppendObservation, IInv, TypeOK, RowInv, SessionInv, RowFree, Absent, tables, session, history, Goto
<1>16. ASSUME NEW s \in Sessions, Commit(s)
      PROVE  RowInv'
  BY <1>16 DEF Commit, IInv, TypeOK, RowInv, SessionInv, RowFree, Absent, tables, session, history, Goto, EndTransaction, View, Absent
<1>17. ASSUME NEW s \in Sessions, Rollback(s)
      PROVE  RowInv'
  BY <1>17 DEF Rollback, IInv, TypeOK, RowInv, SessionInv, RowFree, Absent, tables, session, history, Goto, EndTransaction, Absent
<1>18. CASE UNCHANGED vars
  BY <1>18 DEF vars, tables, session, history, IInv, RowInv, SessionInv, RowFree, Absent
<1>19. QED
  BY <1>1, <1>2, <1>3, <1>4, <1>5, <1>6, <1>7, <1>8, <1>9, <1>10, <1>11, <1>12, <1>13, <1>14, <1>15, <1>16, <1>17, <1>18 DEF Next, Statement

-----------------------------------------------------------------------------
(* Committed state *)

\* A step that commits, dispatches and records nothing.
Quiet ==
  /\ UNCHANGED <<commands, execution_attempts, observations, new_attempt, dispatched, lost>>
  /\ \A o \in Sessions :
       pc[o] \in {"record", "returned"} =>
         cur'[o] = cur[o] /\ row'[o] = row[o] /\ pc'[o] = pc[o]

\* Only four actions are not quiet.
LEMMA QuietSteps ==
  ASSUME IInv, [Next]_vars
  PROVE  \/ Quiet
         \/ \E s \in Sessions : Dispatch(s) \/ RecordAttempt(s) \/ Commit(s) \/ Rollback(s)
<1>1. ASSUME NEW a \in Attempts, RegisterAttempt(a)
      PROVE  Quiet
  BY <1>1 DEF RegisterAttempt, Quiet, tables, session, history
<1>2. ASSUME NEW e \in Events, IngestTerminal(e)
      PROVE  Quiet
  BY <1>2 DEF IngestTerminal, Quiet, tables, session, history
<1>3. ASSUME NEW s \in Sessions, NEW d \in Decisions, NEW t \in Times,
             CreateCommand(s, d, t) \/ ExecuteCommand(s, d, t) \/ Observe(s, d, t)
      PROVE  Quiet
  BY <1>3 DEF CreateCommand, ExecuteCommand, Observe, Quiet, IInv, TypeOK, tables, history, Goto
<1>4. ASSUME NEW s \in Sessions, ExecuteCreated(s) \/ InsertCommand(s) \/ AcquireCommandLock(s)
      PROVE  Quiet
  BY <1>4 DEF ExecuteCreated, InsertCommand, AcquireCommandLock, Quiet, IInv, TypeOK,
              tables, history, Goto
<1>5. ASSUME NEW s \in Sessions, FetchCommand(s)
      PROVE  Quiet
  BY <1>5, FetchEffect DEF FetchCommand, Quiet, IInv, TypeOK, tables, history
<1>6. ASSUME NEW s \in Sessions, CheckTerminal(s)
      PROVE  Quiet
  BY <1>6, CheckTerminalEffect DEF CheckTerminal, Quiet, IInv, TypeOK, tables, history
<1>7. ASSUME NEW s \in Sessions, ClaimCommand(s)
      PROVE  Quiet
  BY <1>7, ClaimEffect DEF ClaimCommand, Quiet, IInv, TypeOK, tables, history
<1>8. ASSUME NEW s \in Sessions, AllocateObservationVersion(s) \/ AppendObservation(s)
      PROVE  Quiet
  BY <1>8 DEF AllocateObservationVersion, AppendObservation, Quiet, IInv, TypeOK,
              tables, history, Goto
<1>9. CASE UNCHANGED vars
  BY <1>9 DEF vars, tables, session, history, Quiet
<1>10. QED
  BY <1>1, <1>2, <1>3, <1>4, <1>5, <1>6, <1>7, <1>8, <1>9 DEF Next, Statement

\* What a commit publishes: nothing new about other commands, the session's own
\* version of the row if it has one, and the attempt that finalized it.
LEMMA CommitEffect ==
  ASSUME IInv, NEW s \in Sessions, Commit(s), NEW d \in Decisions
  PROVE  \/ /\ commands'[d] = commands[d]
            /\ AttemptsOf(d)' = AttemptsOf(d)
            /\ d # cur[s] \/ row[s].status = "ABSENT"
         \/ /\ d = cur[s]
            /\ row[s].status \notin {"ABSENT", "EXECUTING"}
            /\ commands'[d] = row[s]
            /\ AttemptsOf(d) = {}
            /\ AttemptsOf(d)' = new_attempt[s]
<1>1. /\ cur[s] \in Decisions
      /\ row[s].status # "EXECUTING"
      /\ row[s].status = "ABSENT" => new_attempt[s] = {}
      /\ \A a \in new_attempt[s] : a.command = cur[s]
  BY DEF Commit, IInv, SessionInv, NewAttemptInv
<1>2. execution_attempts' = execution_attempts \cup new_attempt[s]
  BY DEF Commit
<1>3. commands' = [commands EXCEPT ![cur[s]] = View(s, cur[s])]
  BY DEF Commit
<1>4. CASE d # cur[s]
  BY <1>1, <1>2, <1>3, <1>4 DEF IInv, TypeOK, AttemptsOf
<1>5. CASE d = cur[s] /\ row[s].status = "ABSENT"
  <2>1. commands'[d] = commands[d]
    BY <1>1, <1>3, <1>5 DEF View, IInv, TypeOK
  <2>2. AttemptsOf(d)' = AttemptsOf(d)
    BY <1>1, <1>2, <1>5 DEF AttemptsOf
  <2>3. QED
    BY <1>5, <2>1, <2>2
<1>6. CASE d = cur[s] /\ row[s].status # "ABSENT"
  <2>1. commands'[d] = row[s]
    BY <1>1, <1>3, <1>6 DEF View, IInv, TypeOK
  <2>2. AttemptsOf(d) = {}
    BY <1>1, <1>6 DEF IInv, FreshInv, AttemptsMatchStatus
  <2>3. AttemptsOf(d)' = new_attempt[s]
    BY <1>1, <1>2, <1>6, <2>2 DEF AttemptsOf
  <2>4. QED
    BY <1>1, <1>6, <2>1, <2>2, <2>3
<1>7. QED
  BY <1>4, <1>5, <1>6

\* A finished transaction forgets what it held.
LEMMA EndEffect ==
  ASSUME IInv, NEW s \in Sessions, EndTransaction(s)
  PROVE  /\ pc'[s] = "idle" /\ row'[s] = Absent
         /\ new_attempt'[s] = {} /\ new_obs'[s] = {}
         /\ \A o \in Sessions \ {s} :
              /\ pc'[o] = pc[o] /\ cur'[o] = cur[o] /\ row'[o] = row[o]
              /\ new_attempt'[o] = new_attempt[o] /\ new_obs'[o] = new_obs[o]
  BY DEF EndTransaction, IInv, TypeOK, Goto

\* Committed attempts and committed commands go on agreeing.
LEMMA AttemptsStep ==
  ASSUME IInv, [Next]_vars
  PROVE  AttemptsMatchStatus'
<1>1. CASE UNCHANGED <<commands, execution_attempts>>
  BY <1>1 DEF IInv, AttemptsMatchStatus, AttemptsOf
<1>2. ASSUME NEW s \in Sessions, Commit(s)
      PROVE  AttemptsMatchStatus'
  <2>1. SUFFICES ASSUME NEW d \in Decisions
                 PROVE  LET cmd == commands'[d] IN
                        /\ cmd.status # "EXECUTING"
                        /\ \A a, b \in AttemptsOf(d)' : a = b
                        /\ cmd.status \notin {"SUCCEEDED", "FAILED"} => AttemptsOf(d)' = {}
                        /\ cmd.status \in {"SUCCEEDED", "FAILED"} =>
                             \E a \in AttemptsOf(d)' :
                               /\ a.attempt_number = 1
                               /\ (a.status = "SUCCESS") <=> (cmd.status = "SUCCEEDED")
                               /\ a.completed_at = cmd.updated_at
    BY DEF AttemptsMatchStatus
  <2>2. CASE commands'[d] = commands[d] /\ AttemptsOf(d)' = AttemptsOf(d)
    BY <2>2 DEF IInv, AttemptsMatchStatus
  <2>3. CASE /\ row[s].status \notin {"ABSENT", "EXECUTING"}
             /\ commands'[d] = row[s]
             /\ AttemptsOf(d)' = new_attempt[s]
    <3>1. /\ \A a, b \in new_attempt[s] : a = b
          /\ \A a \in new_attempt[s] :
               /\ a.attempt_number = 1
               /\ (a.status = "SUCCESS") <=> (row[s].status = "SUCCEEDED")
               /\ a.completed_at = row[s].updated_at
          /\ row[s].status \in {"SUCCEEDED", "FAILED"} <=> new_attempt[s] # {}
      BY DEF IInv, NewAttemptInv, SessionInv
    <3>2. QED
      BY <2>3, <3>1
  <2>4. QED
    BY <1>2, <2>2, <2>3, CommitEffect
<1>3. QED
  BY <1>1, <1>2, QuietSteps DEF Quiet, Dispatch, RecordAttempt, Rollback, tables

\* An uncommitted attempt stays the one that finalized the uncommitted row.
LEMMA NewAttemptStep ==
  ASSUME IInv, [Next]_vars
  PROVE  NewAttemptInv'
<1>1. CASE Quiet
  <2>1. \A s \in Sessions : new_attempt[s] # {} => cur'[s] = cur[s] /\ row'[s] = row[s]
    BY <1>1 DEF Quiet, IInv, SessionInv
  <2>2. UNCHANGED new_attempt
    BY <1>1 DEF Quiet
  <2>3. QED
    BY <2>1, <2>2 DEF IInv, NewAttemptInv
<1>2. ASSUME NEW s \in Sessions, Dispatch(s)
      PROVE  NewAttemptInv'
  BY <1>2 DEF Dispatch, IInv, NewAttemptInv, tables
<1>3. ASSUME NEW s \in Sessions, RecordAttempt(s)
      PROVE  NewAttemptInv'
  <2>1. UNCHANGED cur
    BY <1>3 DEF RecordAttempt
  <2>2. \A o \in Sessions \ {s} : row'[o] = row[o] /\ new_attempt'[o] = new_attempt[o]
    BY <1>3, RecordEffect
  <2>3. PICK a : /\ new_attempt'[s] = {a}
                 /\ a.command = cur[s]
                 /\ a.attempt_number = 1
                 /\ (a.status = "SUCCESS") <=> (row'[s].status = "SUCCEEDED")
                 /\ a.completed_at = row'[s].updated_at
    BY <1>3, RecordEffect
  <2>4. QED
    BY <2>1, <2>2, <2>3 DEF IInv, NewAttemptInv
<1>4. ASSUME NEW s \in Sessions, EndTransaction(s)
      PROVE  NewAttemptInv'
  BY <1>4, EndEffect DEF IInv, NewAttemptInv
<1>5. QED
  BY <1>1, <1>2, <1>3, <1>4, QuietSteps DEF Commit, Rollback

\* A step of session s that commits nothing preserves FreshInv when it does for s.
LEMMA FreshFrame ==
  ASSUME IInv, NEW s \in Sessions, UNCHANGED commands,
         \A o \in Sessions \ {s} : row'[o] = row[o] /\ pc'[o] = pc[o] /\ cur'[o] = cur[o],
         row'[s].status = "PENDING" => commands[cur'[s]].status = "ABSENT",
         row'[s].status # "ABSENT" => commands[cur'[s]].status \in {"ABSENT", "PENDING"},
         pc'[s] \in {"barrier", "claim"} =>
           IF row'[s].status # "ABSENT" THEN row'[s].status = "PENDING"
                                        ELSE commands[cur'[s]].status = "PENDING"
  PROVE  FreshInv'
<1>1. SUFFICES ASSUME NEW o \in Sessions
               PROVE  /\ row'[o].status = "PENDING" => commands'[cur'[o]].status = "ABSENT"
                      /\ row'[o].status # "ABSENT" =>
                           commands'[cur'[o]].status \in {"ABSENT", "PENDING"}
                      /\ pc'[o] \in {"barrier", "claim"} =>
                           View(o, cur[o])'.status = "PENDING"
  BY DEF FreshInv
<1>2. CASE o = s
  BY <1>2 DEF View
<1>3. CASE o # s
  BY <1>3 DEF View, IInv, FreshInv
<1>4. QED
  BY <1>2, <1>3

\* What FreshInv says of the session itself, and what a position says of its row.
LEMMA FreshFacts ==
  ASSUME IInv, NEW s \in Sessions
  PROVE  /\ row[s].status = "PENDING" => commands[cur[s]].status = "ABSENT"
         /\ row[s].status # "ABSENT" => commands[cur[s]].status \in {"ABSENT", "PENDING"}
         /\ View(s, cur[s]).status = "PENDING" =>
              IF row[s].status # "ABSENT" THEN row[s].status = "PENDING"
                                          ELSE commands[cur[s]].status = "PENDING"
         /\ View(s, cur[s]).status = "PENDING" =>
              commands[cur[s]].status \in {"ABSENT", "PENDING"}
  BY DEF IInv, FreshInv, View

\* A row that is written, or known to be PENDING, belongs to a command that no committed
\* transaction has finalized.
LEMMA FreshStep ==
  ASSUME IInv, [Next]_vars
  PROVE  FreshInv'
<1>1. CASE UNCHANGED <<commands, row, pc, cur>>
  BY <1>1 DEF IInv, FreshInv, View
<1>2. ASSUME NEW s \in Sessions, NEW d \in Decisions, NEW t \in Times,
             CreateCommand(s, d, t) \/ ExecuteCommand(s, d, t) \/ Observe(s, d, t)
      PROVE  FreshInv'
  <2>1. row[s].status = "ABSENT" /\ UNCHANGED <<commands, row>>
    BY <1>2 DEF CreateCommand, ExecuteCommand, Observe, IInv, SessionInv, Absent, tables
  <2>2. /\ pc'[s] \notin {"barrier", "claim"}
        /\ \A o \in Sessions \ {s} : pc'[o] = pc[o] /\ cur'[o] = cur[o]
    BY <1>2 DEF CreateCommand, ExecuteCommand, Observe, IInv, TypeOK, Goto
  <2>3. QED
    BY <2>1, <2>2, FreshFrame
<1>3. ASSUME NEW s \in Sessions,
             ExecuteCreated(s) \/ AcquireCommandLock(s) \/ Dispatch(s)
               \/ AllocateObservationVersion(s) \/ AppendObservation(s)
      PROVE  FreshInv'
  <2>1. UNCHANGED <<commands, row, cur>>
    BY <1>3 DEF ExecuteCreated, AcquireCommandLock, Dispatch, AllocateObservationVersion,
                AppendObservation, tables
  <2>2. /\ pc'[s] \notin {"barrier", "claim"}
        /\ \A o \in Sessions \ {s} : pc'[o] = pc[o]
    BY <1>3 DEF ExecuteCreated, AcquireCommandLock, Dispatch, AllocateObservationVersion,
                AppendObservation, IInv, TypeOK, Goto
  <2>3. QED
    BY <2>1, <2>2, FreshFacts, FreshFrame
<1>4. ASSUME NEW s \in Sessions, InsertCommand(s)
      PROVE  FreshInv'
  <2>1. UNCHANGED <<commands, cur>> /\ row[s].status = "ABSENT"
    BY <1>4 DEF InsertCommand, IInv, SessionInv, tables
  <2>2. /\ pc'[s] \notin {"barrier", "claim"}
        /\ \A o \in Sessions \ {s} : pc'[o] = pc[o] /\ row'[o] = row[o]
        /\ row'[s].status # "ABSENT" => commands[cur[s]].status = "ABSENT"
    BY <1>4, <2>1 DEF InsertCommand, IInv, TypeOK, Goto
  <2>3. QED
    BY <2>1, <2>2, FreshFrame
<1>5. ASSUME NEW s \in Sessions, FetchCommand(s)
      PROVE  FreshInv'
  <2>1. UNCHANGED <<commands, cur>>
    BY <1>5 DEF FetchCommand, tables
  <2>2. QED
    BY <1>5, <2>1, FetchEffect, FreshFacts, FreshFrame
<1>6. ASSUME NEW s \in Sessions, CheckTerminal(s)
      PROVE  FreshInv'
  <2>1. UNCHANGED <<commands, cur>>
    BY <1>6 DEF CheckTerminal, tables
  <2>2. QED
    BY <1>6, <2>1, CheckTerminalEffect, FreshFacts, FreshFrame
<1>7. ASSUME NEW s \in Sessions, ClaimCommand(s)
      PROVE  FreshInv'
  <2>1. UNCHANGED <<commands, cur>>
    BY <1>7 DEF ClaimCommand, tables
  <2>2. QED
    BY <1>7, <2>1, ClaimEffect, FreshFacts, FreshFrame
<1>8. ASSUME NEW s \in Sessions, RecordAttempt(s)
      PROVE  FreshInv'
  <2>1. UNCHANGED <<commands, cur>>
    BY <1>8 DEF RecordAttempt, tables
  <2>2. QED
    BY <1>8, <2>1, RecordEffect, FreshFacts, FreshFrame
<1>9. ASSUME NEW s \in Sessions, Rollback(s)
      PROVE  FreshInv'
  <2>1. UNCHANGED commands /\ EndTransaction(s)
    BY <1>9 DEF Rollback, tables
  <2>2. QED
    BY <2>1, EndEffect, FreshFrame DEF Absent
<1>10. ASSUME NEW s \in Sessions, Commit(s)
      PROVE  FreshInv'
  <2>1. SUFFICES ASSUME NEW o \in Sessions
                 PROVE  /\ row'[o].status = "PENDING" => commands'[cur'[o]].status = "ABSENT"
                        /\ row'[o].status # "ABSENT" =>
                             commands'[cur'[o]].status \in {"ABSENT", "PENDING"}
                        /\ pc'[o] \in {"barrier", "claim"} =>
                             View(o, cur[o])'.status = "PENDING"
    BY DEF FreshInv
  <2>2. /\ pc'[s] = "idle" /\ row'[s] = Absent
        /\ o # s => pc'[o] = pc[o] /\ cur'[o] = cur[o] /\ row'[o] = row[o]
    BY <1>10, EndEffect DEF Commit
  <2>3. CASE o = s
    BY <2>2, <2>3 DEF Absent
  <2>4. CASE o # s /\ commands'[cur[o]] = commands[cur[o]]
    BY <2>2, <2>4 DEF View, IInv, FreshInv
  <2>5. CASE o # s /\ commands'[cur[o]] # commands[cur[o]]
    <3>1. CASE pc[o] = "idle"
      BY <2>2, <2>5, <3>1 DEF IInv, SessionInv, Absent
    <3>2. CASE pc[o] # "idle"
      <4>1. cur[o] \in Decisions
        BY <3>2 DEF IInv, SessionInv
      <4>2. /\ cur[o] = cur[s]
            /\ row[s].status # "ABSENT"
            /\ commands'[cur[o]] = row[s]
        BY <1>10, <2>5, <4>1, CommitEffect
      <4>3. row[o].status = "ABSENT"
        BY <2>5, <4>2 DEF IInv, RowInv
      <4>4. pc[o] \in {"barrier", "claim"} => row[s].status = "PENDING"
        <5>1. row[s].status \in CommandStatus /\ row[s].status # "EXECUTING"
          <6>1. row[s].status \in CommandStatus \cup {"ABSENT"}
            BY DEF IInv, TypeOK, InterventionCommand, Absent
          <6>2. row[s].status # "EXECUTING"
            BY <1>10 DEF IInv, SessionInv, Commit
          <6> QED BY <4>2, <6>1, <6>2
        <5>2. pc[o] \in {"barrier", "claim"} => lock[cur[o]] = o
          BY DEF IInv, LockInv, Holding
        <5>3. row[s].status \in Finals => lock[cur[s]] = s
          BY DEF IInv, LockInv
        <5>4. QED
          BY <2>5, <4>2, <5>1, <5>2, <5>3 DEF CommandStatus
      <4>5. QED
        BY <2>2, <2>5, <4>2, <4>3, <4>4 DEF View
    <3>3. QED
      BY <3>1, <3>2
  <2>6. QED
    BY <2>3, <2>4, <2>5
<1>11. QED
  BY <1>1, <1>2, <1>3, <1>4, <1>5, <1>6, <1>7, <1>8, <1>9, <1>10
  DEF Next, Statement, vars, tables, session, history, RegisterAttempt, IngestTerminal

\* Every observation log keeps a greatest version.
LEMMA LogStep ==
  ASSUME IInv, [Next]_vars
  PROVE  LogInv'
<1>1. CASE UNCHANGED <<observations, new_obs>>
  BY <1>1 DEF IInv, LogInv, ObservationsOf
<1>2. ASSUME NEW s \in Sessions, AppendObservation(s)
      PROVE  LogInv'
  BY <1>2 DEF AppendObservation, IInv, TypeOK, LogInv, ObservationsOf, tables
<1>3. ASSUME NEW s \in Sessions, Rollback(s)
      PROVE  LogInv'
  <2>1. UNCHANGED observations /\ EndTransaction(s)
    BY <1>3 DEF Rollback, tables
  <2>2. QED
    BY <2>1, EndEffect DEF IInv, LogInv, ObservationsOf
<1>4. ASSUME NEW s \in Sessions, Commit(s)
      PROVE  LogInv'
  <2>1. /\ observations' = observations \cup new_obs[s]
        /\ new_obs'[s] = {}
        /\ \A o \in Sessions \ {s} : new_obs'[o] = new_obs[o]
    BY <1>4, EndEffect DEF Commit
  <2>2. \A o, p \in new_obs[s] : o = p
    BY DEF IInv, LogInv
  <2>3. ASSUME NEW d \in Decisions
        PROVE  \E n \in {0} \cup {o.version : o \in ObservationsOf(d)'} :
                 \A o \in ObservationsOf(d)' : o.version <= n
    <3>1. PICK n \in {0} \cup {o.version : o \in ObservationsOf(d)} :
            \A o \in ObservationsOf(d) : o.version <= n
      BY DEF IInv, LogInv
    <3>2. ObservationsOf(d)' = ObservationsOf(d) \cup {o \in new_obs[s] : o.command = d}
      BY <2>1 DEF ObservationsOf
    <3>3. /\ n \in Nat
          /\ \A o \in ObservationsOf(d) \cup new_obs[s] : o.version \in Nat
      BY DEF IInv, TypeOK, ObservationsOf, Observation
    <3>4. CASE \A o \in ObservationsOf(d)' : o.version <= n
      BY <3>1, <3>2, <3>4
    <3>5. CASE \E o \in ObservationsOf(d)' : ~(o.version <= n)
      <4>1. PICK o \in ObservationsOf(d)' : ~(o.version <= n)
        BY <3>5
      <4>2. o \in new_obs[s]
        BY <3>1, <3>2, <4>1
      <4>3. \A q \in ObservationsOf(d)' : q.version <= o.version
        BY <2>2, <3>1, <3>2, <3>3, <4>1, <4>2
      <4>4. QED
        BY <4>1, <4>3
    <3>6. QED
      BY <3>4, <3>5
  <2>4. \A o \in Sessions : \A q, r \in new_obs'[o] : q = r
    BY <2>1 DEF IInv, LogInv
  <2>5. QED
    BY <2>3, <2>4 DEF LogInv
<1>5. QED
  BY <1>1, <1>2, <1>3, <1>4
  DEF Next, Statement, vars, tables, session, history, RegisterAttempt, IngestTerminal,
      CreateCommand, ExecuteCommand, Observe, ExecuteCreated, InsertCommand,
      AcquireCommandLock, FetchCommand, CheckTerminal, ClaimCommand, Dispatch, RecordAttempt,
      AllocateObservationVersion

\* The session that is about to dispatch is the first: no committed attempt, and no
\* other session with a dispatch of its own.
LEMMA FirstDispatch ==
  ASSUME IInv, NEW s \in Sessions, pc[s] = "dispatch"
  PROVE  /\ cur[s] \in Decisions
         /\ AttemptsOf(cur[s]) = {}
         /\ \A o \in Sessions : cur[o] = cur[s] => ~HasDispatched(o)
         /\ dispatched[cur[s]] <= lost[cur[s]]
<1>1. cur[s] \in Decisions /\ row[s].status = "EXECUTING" /\ new_attempt[s] = {}
  BY DEF IInv, SessionInv
<1>2. AttemptsOf(cur[s]) = {}
  BY <1>1 DEF IInv, FreshInv, AttemptsMatchStatus
<1>3. ASSUME NEW o \in Sessions, cur[o] = cur[s]
      PROVE  ~HasDispatched(o)
  <2>1. lock[cur[s]] = s
    BY DEF IInv, LockInv, Holding
  <2>2. HasDispatched(o) => lock[cur[o]] = o
    BY DEF HasDispatched, IInv, SessionInv, LockInv, Holding, Finals
  <2>3. QED
    BY <1>1, <1>3, <2>1, <2>2 DEF HasDispatched
<1>4. QED
  BY <1>1, <1>2, <1>3 DEF IInv, LedgerInv

\* The ledger of executor calls stays balanced.
LEMMA LedgerStep ==
  ASSUME IInv, [Next]_vars
  PROVE  LedgerInv'
<1>1. SUFFICES ASSUME NEW d \in Decisions
               PROVE  /\ dispatched'[d] <= lost'[d] + 1
                      /\ \/ AttemptsOf(d)' # {}
                         \/ \E o \in Sessions : cur'[o] = d /\ HasDispatched(o)'
                         \/ dispatched'[d] <= lost'[d]
  BY DEF LedgerInv
<1>2. /\ dispatched[d] \in Nat /\ lost[d] \in Nat
      /\ dispatched[d] <= lost[d] + 1
      /\ \/ AttemptsOf(d) # {}
         \/ \E o \in Sessions : cur[o] = d /\ HasDispatched(o)
         \/ dispatched[d] <= lost[d]
  BY DEF IInv, TypeOK, LedgerInv
<1>3. CASE Quiet
  <2>1. UNCHANGED <<execution_attempts, dispatched, lost, new_attempt>>
    BY <1>3 DEF Quiet, history
  <2>2. AttemptsOf(d)' = AttemptsOf(d)
    BY <2>1 DEF AttemptsOf
  <2>3. \A o \in Sessions : HasDispatched(o) => cur'[o] = cur[o] /\ HasDispatched(o)'
    BY <1>3, <2>1 DEF Quiet, HasDispatched, IInv, SessionInv
  <2>4. QED
    BY <1>2, <2>1, <2>2, <2>3
<1>4. ASSUME NEW s \in Sessions, Dispatch(s)
      PROVE  /\ dispatched'[d] <= lost'[d] + 1
             /\ \/ AttemptsOf(d)' # {}
                \/ \E o \in Sessions : cur'[o] = d /\ HasDispatched(o)'
                \/ dispatched'[d] <= lost'[d]
  <2>1. /\ pc[s] = "dispatch" /\ pc'[s] = "record"
        /\ \A o \in Sessions \ {s} : pc'[o] = pc[o]
        /\ UNCHANGED <<execution_attempts, cur, lost, new_attempt>>
        /\ dispatched' = [dispatched EXCEPT ![cur[s]] = @ + 1]
    BY <1>4 DEF Dispatch, Goto, IInv, TypeOK, tables
  <2>2. AttemptsOf(d)' = AttemptsOf(d)
    BY <2>1 DEF AttemptsOf
  <2>3. HasDispatched(s)'
    BY <2>1 DEF HasDispatched
  <2>4. CASE d = cur[s]
    BY <1>2, <2>1, <2>3, <2>4, FirstDispatch DEF IInv, TypeOK
  <2>5. CASE d # cur[s]
    <3>1. dispatched'[d] = dispatched[d]
      BY <2>1, <2>5 DEF IInv, TypeOK
    <3>2. \A o \in Sessions : cur[o] = d /\ HasDispatched(o) => HasDispatched(o)'
      BY <2>1, <2>5 DEF HasDispatched
    <3>3. QED
      BY <1>2, <2>1, <2>2, <3>1, <3>2
  <2>6. QED
    BY <2>4, <2>5
<1>5. ASSUME NEW s \in Sessions, RecordAttempt(s)
      PROVE  /\ dispatched'[d] <= lost'[d] + 1
             /\ \/ AttemptsOf(d)' # {}
                \/ \E o \in Sessions : cur'[o] = d /\ HasDispatched(o)'
                \/ dispatched'[d] <= lost'[d]
  <2>1. UNCHANGED <<execution_attempts, cur, dispatched, lost>>
    BY <1>5 DEF RecordAttempt, history, tables
  <2>2. AttemptsOf(d)' = AttemptsOf(d)
    BY <2>1 DEF AttemptsOf
  <2>3. new_attempt'[s] # {}
    BY <1>5, RecordEffect
  <2>4. \A o \in Sessions : HasDispatched(o) => HasDispatched(o)'
    BY <1>5, <2>3, RecordEffect DEF HasDispatched
  <2>5. QED
    BY <1>2, <2>1, <2>2, <2>4
<1>6. ASSUME NEW s \in Sessions, Commit(s)
      PROVE  /\ dispatched'[d] <= lost'[d] + 1
             /\ \/ AttemptsOf(d)' # {}
                \/ \E o \in Sessions : cur'[o] = d /\ HasDispatched(o)'
                \/ dispatched'[d] <= lost'[d]
  <2>1. UNCHANGED <<dispatched, lost>> /\ pc[s] # "record"
    BY <1>6 DEF Commit, history
  <2>2. \A o \in Sessions \ {s} : HasDispatched(o) => cur'[o] = cur[o] /\ HasDispatched(o)'
    BY <1>6, EndEffect DEF Commit, HasDispatched
  <2>3. execution_attempts' = execution_attempts \cup new_attempt[s]
    BY <1>6 DEF Commit
  <2>4. cur[s] = d /\ HasDispatched(s) => AttemptsOf(d)' # {}
    BY <2>1, <2>3 DEF HasDispatched, AttemptsOf, IInv, NewAttemptInv
  <2>5. AttemptsOf(d) # {} => AttemptsOf(d)' # {}
    BY <2>3 DEF AttemptsOf
  <2>6. QED
    BY <1>2, <2>1, <2>2, <2>4, <2>5
<1>7. ASSUME NEW s \in Sessions, Rollback(s)
      PROVE  /\ dispatched'[d] <= lost'[d] + 1
             /\ \/ AttemptsOf(d)' # {}
                \/ \E o \in Sessions : cur'[o] = d /\ HasDispatched(o)'
                \/ dispatched'[d] <= lost'[d]
  <2>1. UNCHANGED <<execution_attempts, dispatched>>
    BY <1>7 DEF Rollback, tables
  <2>2. AttemptsOf(d)' = AttemptsOf(d)
    BY <2>1 DEF AttemptsOf
  <2>3. \A o \in Sessions \ {s} : HasDispatched(o) => cur'[o] = cur[o] /\ HasDispatched(o)'
    BY <1>7, EndEffect DEF Rollback, HasDispatched
  <2>4. CASE HasDispatched(s) /\ cur[s] = d
    <3>1. lost'[d] = lost[d] + 1
      BY <1>7, <2>4 DEF Rollback, IInv, TypeOK
    <3>2. QED
      BY <1>2, <2>1, <3>1
  <2>5. CASE ~HasDispatched(s) \/ cur[s] # d
    <3>1. lost'[d] = lost[d]
      BY <1>7, <2>5 DEF Rollback, IInv, TypeOK
    <3>2. QED
      BY <1>2, <2>1, <2>2, <2>3, <2>5, <3>1
  <2>6. QED
    BY <2>4, <2>5
<1>8. QED
  BY <1>3, <1>4, <1>5, <1>6, <1>7, QuietSteps

-----------------------------------------------------------------------------
(* Theorems *)

\* The invariant holds in the empty database.
LEMMA InitIInv == Init => IInv
<1>1. SUFFICES ASSUME Init PROVE IInv
  OBVIOUS
<1>2. TypeOK
  BY <1>1, ExecutionAssumption DEF Init, TypeOK, Labels, NoResult, Unseen, PaymentOutcome
<1>3. SessionInv /\ LockInv /\ RowInv /\ FreshInv
  BY <1>1 DEF Init, SessionInv, LockInv, RowInv, FreshInv, Absent, Holding, Finals
<1>4. AttemptsMatchStatus /\ NewAttemptInv
  BY <1>1 DEF Init, AttemptsMatchStatus, AttemptsOf, NewAttemptInv, Absent
<1>5. LogInv
  BY <1>1 DEF Init, LogInv, ObservationsOf
<1>6. LedgerInv
  BY <1>1 DEF Init, LedgerInv
<1>7. QED
  BY <1>2, <1>3, <1>4, <1>5, <1>6 DEF IInv

\* The conjunction of the named parts is inductive.
THEOREM Inductive == Spec => []IInv
<1>1. IInv /\ [Next]_vars => IInv'
  BY TypeStep, SessionStep, LockStep, RowStep, FreshStep, AttemptsStep, NewAttemptStep,
     LogStep, LedgerStep DEF IInv
<1>2. QED
  BY <1>1, InitIInv, PTL DEF Spec

\* Type correctness for any number of sessions, commands and events.
THEOREM TypeCorrect == Spec => []TypeOK
<1>1. IInv => TypeOK
  BY DEF IInv
<1>2. QED
  BY <1>1, Inductive, PTL

\* execute_command calls the executor once per command, and once more only for a call
\* whose transaction was rolled back afterwards, whatever else runs concurrently.
THEOREM ExecutorCalledOnce == Spec => []DispatchedAtMostOnce
<1>1. IInv => DispatchedAtMostOnce
  BY DEF IInv, LedgerInv, TypeOK, DispatchedAtMostOnce
<1>2. QED
  BY <1>1, Inductive, PTL

\* A finalized command has exactly the attempt that finalized it.
THEOREM AuditTrailComplete == Spec => []AttemptsMatchStatus
<1>1. IInv => AttemptsMatchStatus
  BY DEF IInv
<1>2. QED
  BY <1>1, Inductive, PTL

\* What a session read under the command's lock is still so when it acts on it.
THEOREM ClaimsAreFresh == Spec => []NoStaleClaim
<1>1. ASSUME IInv, NEW s \in Sessions, pc[s] \in {"barrier", "claim", "dispatch", "record"}
      PROVE  /\ commands[cur[s]].status \in {"ABSENT", "PENDING"}
             /\ \A o \in Sessions \ {s} : cur[o] = cur[s] => row[o].status = "ABSENT"
  <2>1. commands[cur[s]].status \in {"ABSENT", "PENDING"}
    BY <1>1, FreshFacts DEF IInv, FreshInv, SessionInv
  <2>2. ASSUME NEW o \in Sessions, o # s, cur[o] = cur[s]
        PROVE  row[o].status = "ABSENT"
    <3>1. CASE row[s].status # "ABSENT"
      BY <1>1, <2>2, <3>1 DEF IInv, RowInv
    <3>2. CASE row[s].status = "ABSENT"
      <4>1. View(s, cur[s]).status = "PENDING" /\ lock[cur[s]] = s
        BY <1>1, <3>2 DEF IInv, SessionInv, FreshInv, LockInv, Holding
      <4>2. commands[cur[o]].status = "PENDING"
        BY <2>2, <3>2, <4>1 DEF View
      <4>3. row[o].status # "PENDING"
        BY <1>1, <4>2, FreshFacts
      <4>4. row[o].status # "EXECUTING" /\ row[o].status \notin Finals
        <5>1. lock[cur[o]] # o
          BY <2>2, <4>1
        <5>2. QED
          BY <1>1, <5>1 DEF IInv, SessionInv, LockInv, Holding
      <4>5. row[o].status \in CommandStatus \cup {"ABSENT"}
        BY <1>1 DEF IInv, TypeOK, InterventionCommand, Absent
      <4>6. QED
        BY <4>3, <4>4, <4>5 DEF CommandStatus
    <3>3. QED
      BY <3>1, <3>2
  <2>3. QED
    BY <2>1, <2>2
<1>2. IInv => NoStaleClaim
  BY <1>1 DEF NoStaleClaim
<1>3. QED
  BY <1>2, Inductive, PTL

-----------------------------------------------------------------------------
(* The barriers, the history and the log.  What follows assumes IInv: it    *)
(* says what else the uncommitted versions of a session are good for.       *)

\* A version that updates a command has its creation facts.
KeptInv ==
  \A s \in Sessions :
    row[s].status # "ABSENT" /\ commands[cur[s]].status # "ABSENT" =>
      /\ row[s].created_at = commands[cur[s]].created_at
      /\ row[s].expires_at = commands[cur[s]].expires_at

\* An outcome of the command of d is among the events E at t.
Known(E, d, t) == \E e \in E : e.attempt = AttemptOf[d] /\ e.ingested_at <= t

\* What the barriers have found of the command of session s.
BarredOK(s) ==
  /\ pc[s] \in {"barrier", "claim"} => at[s] < View(s, cur[s]).expires_at
  /\ pc[s] \in {"dispatch", "record"} => at[s] < row[s].expires_at
  /\ \A a \in new_attempt[s] : a.started_at < row[s].expires_at
  /\ row[s].status = "EXPIRED" => row[s].updated_at >= row[s].expires_at
  /\ row[s].status = "NOT_NEEDED" => Known(payment_events, cur[s], row[s].updated_at)

BarredInv == \A s \in Sessions : BarredOK(s)

\* The actions of a session that publish nothing
Acts(s) ==
  \/ \E d \in Decisions, t \in Times :
       CreateCommand(s, d, t) \/ ExecuteCommand(s, d, t) \/ Observe(s, d, t)
  \/ ExecuteCreated(s) \/ Statement(s) \/ Rollback(s)

LEMMA Moves ==
  ASSUME [Next]_vars
  PROVE  \/ /\ UNCHANGED <<commands, execution_attempts, observations, session, precluding>>
            /\ payment_events \subseteq payment_events'
         \/ \E s \in Sessions : Acts(s) \/ Commit(s)
<1>1. CASE UNCHANGED vars BY <1>1 DEF vars, tables, history
<1>2. ASSUME NEW a \in Attempts, RegisterAttempt(a)
      PROVE  /\ UNCHANGED <<commands, execution_attempts, observations, session, precluding>>
             /\ payment_events \subseteq payment_events'
  BY <1>2 DEF RegisterAttempt, history
<1>3. ASSUME NEW e \in Events, IngestTerminal(e)
      PROVE  /\ UNCHANGED <<commands, execution_attempts, observations, session, precluding>>
             /\ payment_events \subseteq payment_events'
  BY <1>3 DEF IngestTerminal, history
<1> QED BY <1>1, <1>2, <1>3 DEF Next, Acts

SameSession(o) ==
  /\ pc'[o] = pc[o] /\ cur'[o] = cur[o] /\ at'[o] = at[o] /\ row'[o] = row[o]
  /\ new_attempt'[o] = new_attempt[o] /\ new_obs'[o] = new_obs[o] /\ seen'[o] = seen[o]
  /\ precluding'[o] = precluding[o]

\* A session's actions leave the others alone, and the tables until the commit.
LEMMA OthersKept ==
  ASSUME TypeOK, NEW s \in Sessions, Acts(s) \/ Commit(s)
  PROVE  /\ \A o \in Sessions \ {s} : SameSession(o)
         /\ UNCHANGED payment_events
         /\ Acts(s) => UNCHANGED <<commands, execution_attempts, observations>>
<1> USE DEF SameSession, TypeOK, Goto, tables, history
<1>1. ASSUME NEW d \in Decisions, NEW t \in Times,
             CreateCommand(s, d, t) \/ ExecuteCommand(s, d, t)
      PROVE  /\ \A o \in Sessions \ {s} : SameSession(o)
             /\ UNCHANGED <<payment_events, commands, execution_attempts, observations>>
  BY <1>1 DEF CreateCommand, ExecuteCommand
<1>2. ASSUME NEW d \in Decisions, NEW t \in Times, Observe(s, d, t)
      PROVE  /\ \A o \in Sessions \ {s} : SameSession(o)
             /\ UNCHANGED <<payment_events, commands, execution_attempts, observations>>
  BY <1>2 DEF Observe
<1>3. CASE ExecuteCreated(s) \/ InsertCommand(s) \/ AcquireCommandLock(s)
  BY <1>3 DEF ExecuteCreated, InsertCommand, AcquireCommandLock
<1>4. CASE FetchCommand(s) BY <1>4 DEF FetchCommand, UpdateStatusAtomic
<1>5. CASE CheckTerminal(s) BY <1>5 DEF CheckTerminal, UpdateStatusAtomic
<1>6. CASE ClaimCommand(s) BY <1>6 DEF ClaimCommand, UpdateStatusAtomic
<1>7. CASE Dispatch(s) BY <1>7 DEF Dispatch
<1>8. CASE RecordAttempt(s) BY <1>8 DEF RecordAttempt, UpdateStatusAtomic
<1>9. CASE AllocateObservationVersion(s) \/ AppendObservation(s)
  BY <1>9 DEF AllocateObservationVersion, AppendObservation
<1>10. ASSUME Commit(s) \/ Rollback(s)
       PROVE  (\A o \in Sessions \ {s} : SameSession(o)) /\ UNCHANGED payment_events
  <2>1. EndTransaction(s) /\ UNCHANGED payment_events BY <1>10 DEF Commit, Rollback
  <2> QED BY <2>1 DEF EndTransaction
<1>11. Rollback(s) => UNCHANGED <<commands, execution_attempts, observations>>
  BY DEF Rollback
<1> QED
  BY <1>1, <1>2, <1>3, <1>4, <1>5, <1>6, <1>7, <1>8, <1>9, <1>10, <1>11 DEF Acts, Statement

\* An update changes the status and its time.
LEMMA UpdateKeeps ==
  ASSUME TypeOK, NEW s \in Sessions, cur[s] \in Decisions,
         NEW expected, expected # "ABSENT", NEW target, NEW t, NEW hit, NEW miss,
         UpdateStatusAtomic(s, expected, target, t, hit, miss)
  PROVE  \/ pc'[s] = miss /\ row'[s] = row[s] /\ View(s, cur[s]).status # expected
         \/ /\ pc'[s] = hit
            /\ View(s, cur[s]).status = expected
            /\ row'[s].status = target /\ row'[s].updated_at = t
            /\ row'[s].created_at = View(s, cur[s]).created_at
            /\ row'[s].expires_at = View(s, cur[s]).expires_at
<1>1. CASE View(s, cur[s]).status = expected
  <2>1. View(s, cur[s]) \in InterventionCommand BY <1>1, ViewType
  <2>2. /\ row' = [row EXCEPT ![s] =
                    [View(s, cur[s]) EXCEPT !.status = target, !.updated_at = t]]
        /\ pc' = [pc EXCEPT ![s] = hit]
    BY <1>1 DEF UpdateStatusAtomic, Goto
  <2>3. row'[s] = [View(s, cur[s]) EXCEPT !.status = target, !.updated_at = t]
    BY <2>2 DEF TypeOK
  <2> QED BY <1>1, <2>1, <2>2, <2>3 DEF InterventionCommand, TypeOK
<1>2. CASE View(s, cur[s]).status # expected
  BY <1>2 DEF UpdateStatusAtomic, TypeOK, Goto
<1> QED BY <1>1, <1>2

\* A version is what it was, given up, inserted for a command without a row, or an update
\* of the row the session sees.
LEMMA RowCases ==
  ASSUME IInv, NEW s \in Sessions, Acts(s)
  PROVE  \/ row'[s] = row[s] /\ (cur'[s] = cur[s] \/ row[s] = Absent)
         \/ row'[s] = Absent
         \/ cur'[s] = cur[s] /\ commands[cur[s]].status = "ABSENT"
         \/ /\ cur'[s] = cur[s] /\ View(s, cur[s]).status # "ABSENT"
            /\ row'[s].created_at = View(s, cur[s]).created_at
            /\ row'[s].expires_at = View(s, cur[s]).expires_at
<1> USE DEF IInv
<1>1. ASSUME NEW d \in Decisions, NEW t \in Times,
             CreateCommand(s, d, t) \/ ExecuteCommand(s, d, t) \/ Observe(s, d, t)
      PROVE  row'[s] = row[s] /\ row[s] = Absent
  BY <1>1 DEF CreateCommand, ExecuteCommand, Observe, SessionInv
<1>2. CASE ExecuteCreated(s) \/ AcquireCommandLock(s) \/ Dispatch(s)
           \/ AllocateObservationVersion(s) \/ AppendObservation(s)
  BY <1>2 DEF ExecuteCreated, AcquireCommandLock, Dispatch, AllocateObservationVersion,
              AppendObservation
<1>3. CASE InsertCommand(s) BY <1>3 DEF InsertCommand
<1>4. ASSUME FetchCommand(s) \/ CheckTerminal(s) \/ ClaimCommand(s) \/ RecordAttempt(s)
      PROVE  /\ cur'[s] = cur[s]
             /\ \/ row'[s] = row[s]
                \/ /\ View(s, cur[s]).status # "ABSENT"
                   /\ row'[s].created_at = View(s, cur[s]).created_at
                   /\ row'[s].expires_at = View(s, cur[s]).expires_at
  <2>1. cur[s] \in Decisions /\ TypeOK /\ cur' = cur
    BY <1>4 DEF SessionInv, FetchCommand, CheckTerminal, ClaimCommand, RecordAttempt
  <2>2. \/ row' = row
        \/ UpdateStatusAtomic(s, "PENDING", "EXPIRED", at[s], "returned", "returned")
        \/ UpdateStatusAtomic(s, "PENDING", "NOT_NEEDED", at[s], "returned", "returned")
        \/ UpdateStatusAtomic(s, "PENDING", "EXECUTING", at[s], "dispatch", "returned")
        \/ UpdateStatusAtomic(s, "EXECUTING", FinalStatus(result[s].status),
                              at[s] + result[s].duration, "returned", "returned")
    BY <1>4 DEF FetchCommand, CheckTerminal, ClaimCommand, RecordAttempt
  <2> HIDE DEF IInv
  <2>3. CASE row' = row BY <2>1, <2>3
  <2>4. CASE \/ UpdateStatusAtomic(s, "PENDING", "EXPIRED", at[s], "returned", "returned")
             \/ UpdateStatusAtomic(s, "PENDING", "NOT_NEEDED", at[s], "returned", "returned")
             \/ UpdateStatusAtomic(s, "PENDING", "EXECUTING", at[s], "dispatch", "returned")
    BY <2>1, <2>4, UpdateKeeps
  <2>5. CASE UpdateStatusAtomic(s, "EXECUTING", FinalStatus(result[s].status),
                                at[s] + result[s].duration, "returned", "returned")
    BY <2>1, <2>5, UpdateKeeps
  <2> QED BY <2>1, <2>2, <2>3, <2>4, <2>5
<1>5. CASE Rollback(s) BY <1>5, EndEffect DEF Rollback
<1> QED BY <1>1, <1>2, <1>3, <1>4, <1>5 DEF Acts, Statement

LEMMA KeptStep ==
  ASSUME IInv, KeptInv, [Next]_vars
  PROVE  KeptInv'
<1>1. CASE UNCHANGED <<commands, session>> BY <1>1 DEF KeptInv, session
<1>2. ASSUME NEW s \in Sessions, Acts(s) PROVE KeptInv'
  <2>1. /\ \A o \in Sessions \ {s} : SameSession(o)
        /\ commands' = commands
    BY <1>2, OthersKept DEF IInv
  <2>2. row'[s].status # "ABSENT" /\ commands[cur'[s]].status # "ABSENT" =>
          /\ row'[s].created_at = commands[cur'[s]].created_at
          /\ row'[s].expires_at = commands[cur'[s]].expires_at
    BY <1>2, RowCases DEF KeptInv, View, Absent
  <2> QED BY <2>1, <2>2 DEF KeptInv, SameSession
<1>3. ASSUME NEW s \in Sessions, Commit(s) PROVE KeptInv'
  <2>1. /\ \A o \in Sessions \ {s} : SameSession(o)
        /\ row'[s] = Absent
    BY <1>3, OthersKept, EndEffect DEF IInv, Commit
  <2>2. ASSUME NEW o \in Sessions, o # s, row[o].status # "ABSENT"
        PROVE  commands'[cur[o]] = commands[cur[o]]
    <3>1. cur[o] \in Decisions BY <2>2 DEF IInv, SessionInv, TypeOK, Absent
    <3>2. cur[o] # cur[s] \/ row[s].status = "ABSENT" BY <2>2 DEF IInv, RowInv
    <3> QED BY <1>3, <3>1, <3>2, CommitEffect
  <2> QED BY <2>1, <2>2 DEF KeptInv, SameSession, Absent
<1> QED BY <1>1, <1>2, <1>3, Moves

\* What a step may do to a committed command.
LEMMA HistoryStep ==
  ASSUME IInv, KeptInv, [Next]_vars, NEW d \in Decisions, commands[d].status # "ABSENT"
  PROVE  /\ commands[d].status \in Finals => commands'[d] = commands[d]
         /\ commands'[d].created_at = commands[d].created_at
         /\ commands'[d].expires_at = commands[d].expires_at
         /\ commands'[d].status \in Finals \cup {commands[d].status}
<1>1. CASE UNCHANGED commands BY <1>1
<1>2. ASSUME NEW s \in Sessions, Commit(s),
             d = cur[s], row[s].status \notin {"ABSENT", "EXECUTING"}, commands'[d] = row[s]
      PROVE  /\ commands[d].status \notin Finals
             /\ commands'[d].created_at = commands[d].created_at
             /\ commands'[d].expires_at = commands[d].expires_at
             /\ commands'[d].status \in Finals
  <2>1. commands[d].status = "PENDING" /\ row[s].status # "PENDING"
    BY <1>2 DEF IInv, FreshInv
  <2>2. row[s].status \in CommandStatus \cup {"ABSENT"}
    BY DEF IInv, TypeOK, InterventionCommand, Absent
  <2>3. commands'[d].status \in Finals BY <1>2, <2>1, <2>2 DEF CommandStatus
  <2> QED BY <1>2, <2>1, <2>3 DEF KeptInv, Finals
<1>3. ASSUME NEW s \in Sessions, Commit(s)
      PROVE  \/ commands'[d] = commands[d]
             \/ /\ d = cur[s] /\ row[s].status \notin {"ABSENT", "EXECUTING"}
                /\ commands'[d] = row[s]
  BY <1>3, CommitEffect
<1>4. ASSUME NEW s \in Sessions, Acts(s) PROVE UNCHANGED commands
  BY <1>4, OthersKept DEF IInv
<1> QED BY <1>1, <1>2, <1>3, <1>4, Moves

\* What the barriers have found of a session's command lasts while the session rests.
LEMMA BarredFrame ==
  ASSUME IInv, KeptInv, BarredInv, [Next]_vars, NEW o \in Sessions, SameSession(o),
         payment_events \subseteq payment_events'
  PROVE  BarredOK(o)'
<1>1. BarredOK(o) BY DEF BarredInv
<1>2. pc[o] \in {"barrier", "claim"} =>
        View(o, cur[o])'.expires_at = View(o, cur[o]).expires_at
  <2>1. CASE row[o].status # "ABSENT" BY <2>1 DEF View, SameSession
  <2>2. ASSUME row[o].status = "ABSENT", pc[o] \in {"barrier", "claim"}
        PROVE  View(o, cur[o])'.expires_at = View(o, cur[o]).expires_at
    <3>1. cur[o] \in Decisions /\ commands[cur[o]].status # "ABSENT"
      BY <2>2 DEF IInv, SessionInv, FreshInv, View
    <3>2. commands'[cur[o]].expires_at = commands[cur[o]].expires_at BY <3>1, HistoryStep
    <3> QED BY <2>2, <3>2 DEF View, SameSession
  <2> QED BY <2>1, <2>2
<1>3. \A d, t : Known(payment_events, d, t) => Known(payment_events', d, t)
  BY DEF Known
<1> QED BY <1>1, <1>2, <1>3 DEF BarredOK, SameSession

\* Each statement keeps, of its own session, what the barriers have found, or finds it.
LEMMA BarredOwn ==
  ASSUME IInv, BarredInv, NEW s \in Sessions, Acts(s) \/ Commit(s)
  PROVE  BarredOK(s)'
<1>1. BarredOK(s) BY DEF BarredInv
<1>2. ASSUME NEW d \in Decisions, NEW t \in Times,
             CreateCommand(s, d, t) \/ ExecuteCommand(s, d, t) \/ Observe(s, d, t)
      PROVE  BarredOK(s)'
  <2>1. /\ row' = row /\ new_attempt' = new_attempt /\ row[s] = Absent /\ new_attempt[s] = {}
        /\ pc'[s] \notin {"barrier", "claim", "dispatch", "record"}
    BY <1>2 DEF CreateCommand, ExecuteCommand, Observe, Goto, IInv, SessionInv, TypeOK
  <2> QED BY <2>1 DEF BarredOK, Absent
<1>3. CASE InsertCommand(s)
  <2>1. /\ new_attempt' = new_attempt /\ new_attempt[s] = {}
        /\ pc'[s] \notin {"barrier", "claim", "dispatch", "record"}
        /\ row'[s].status \in {"ABSENT", "PENDING"}
    BY <1>3 DEF InsertCommand, Goto, IInv, SessionInv, TypeOK
  <2> QED BY <2>1 DEF BarredOK
<1>4. CASE ExecuteCreated(s) \/ AcquireCommandLock(s) \/ AllocateObservationVersion(s)
           \/ AppendObservation(s)
  <2>1. /\ UNCHANGED <<row, new_attempt>> /\ new_attempt[s] = {}
        /\ row[s].status \in {"ABSENT", "PENDING"}
        /\ pc'[s] \notin {"barrier", "claim", "dispatch", "record"}
    BY <1>4 DEF ExecuteCreated, AcquireCommandLock, AllocateObservationVersion,
                AppendObservation, Goto, IInv, SessionInv, TypeOK
  <2> QED BY <2>1 DEF BarredOK
<1>5. ASSUME FetchCommand(s) \/ CheckTerminal(s) \/ ClaimCommand(s)
      PROVE  /\ cur[s] \in Decisions /\ at[s] \in Nat /\ new_attempt'[s] = {}
             /\ UNCHANGED <<cur, at, commands, payment_events>>
             /\ row[s].status \in {"ABSENT", "PENDING"}
  BY <1>5 DEF FetchCommand, CheckTerminal, ClaimCommand, IInv, SessionInv, TypeOK, tables
<1>6. CASE FetchCommand(s)
  <2>1. CASE row' = row /\ pc'[s] \in {"failed", "returned"}
    BY <1>5, <1>6, <2>1 DEF BarredOK
  <2>2. CASE /\ row' = row /\ pc'[s] = "barrier" /\ View(s, cur[s]).status = "PENDING"
             /\ ~Expired(at[s], View(s, cur[s]).expires_at)
    <3>1. View(s, cur[s])' = View(s, cur[s]) BY <1>5, <1>6, <2>2 DEF View
    <3>2. View(s, cur[s]).expires_at \in Nat
      BY <1>5, <1>6, <2>2, ViewType DEF InterventionCommand, Absent, IInv
    <3>3. at[s] < View(s, cur[s]).expires_at BY <1>5, <1>6, <2>2, <3>2 DEF Expired
    <3> QED BY <1>5, <1>6, <2>2, <3>1, <3>3 DEF BarredOK
  <2>3. CASE /\ Expired(at[s], View(s, cur[s]).expires_at)
             /\ UpdateStatusAtomic(s, "PENDING", "EXPIRED", at[s], "returned", "returned")
    <3>1. \/ pc'[s] = "returned" /\ row'[s] = row[s]
          \/ /\ pc'[s] = "returned" /\ row'[s].status = "EXPIRED" /\ row'[s].updated_at = at[s]
             /\ row'[s].expires_at = View(s, cur[s]).expires_at
      BY <1>5, <1>6, <2>3, UpdateKeeps DEF IInv
    <3> QED BY <1>5, <1>6, <2>3, <3>1 DEF BarredOK, Expired
  <2> QED BY <1>6, <2>1, <2>2, <2>3 DEF FetchCommand, Goto, IInv, TypeOK
<1>7. CASE CheckTerminal(s)
  <2>1. View(s, cur[s]).status = "PENDING" BY <1>7, CheckTerminalEffect
  <2>2. CASE TerminalEvents(cur[s], at[s]) = {}
    <3>1. row' = row /\ pc'[s] = "claim" /\ pc[s] = "barrier"
      BY <1>7, <2>2 DEF CheckTerminal, Goto, IInv, TypeOK
    <3>2. View(s, cur[s])' = View(s, cur[s]) BY <1>5, <1>7, <3>1 DEF View
    <3> QED BY <1>1, <1>5, <1>7, <3>1, <3>2 DEF BarredOK
  <2>3. CASE TerminalEvents(cur[s], at[s]) # {}
    <3>1. UpdateStatusAtomic(s, "PENDING", "NOT_NEEDED", at[s], "returned", "returned")
      BY <1>7, <2>3 DEF CheckTerminal
    <3>2. pc'[s] = "returned" /\ row'[s].status = "NOT_NEEDED" /\ row'[s].updated_at = at[s]
      BY <1>5, <1>7, <2>1, <3>1, UpdateKeeps DEF IInv
    <3>3. Known(payment_events, cur[s], at[s]) BY <2>3 DEF TerminalEvents, Known
    <3>4. Known(payment_events', cur'[s], row'[s].updated_at) BY <1>5, <1>7, <3>2, <3>3
    <3> QED BY <1>5, <1>7, <3>2, <3>4 DEF BarredOK
  <2> QED BY <2>2, <2>3
<1>8. CASE ClaimCommand(s)
  <2>1. View(s, cur[s]).status = "PENDING" /\ pc[s] = "claim"
    BY <1>8, ClaimEffect DEF ClaimCommand
  <2>2. UpdateStatusAtomic(s, "PENDING", "EXECUTING", at[s], "dispatch", "returned")
    BY <1>8 DEF ClaimCommand
  <2>3. /\ pc'[s] = "dispatch" /\ row'[s].status = "EXECUTING"
        /\ row'[s].expires_at = View(s, cur[s]).expires_at
    BY <1>5, <1>8, <2>1, <2>2, UpdateKeeps DEF IInv
  <2> QED BY <1>1, <1>5, <1>8, <2>1, <2>3 DEF BarredOK
<1>9. CASE Dispatch(s)
  BY <1>1, <1>9 DEF Dispatch, Goto, IInv, TypeOK, SessionInv, BarredOK, tables
<1>10. CASE RecordAttempt(s)
  <2>1. /\ pc[s] = "record" /\ cur[s] \in Decisions /\ View(s, cur[s]) = row[s]
        /\ row[s].status = "EXECUTING"
    BY <1>10 DEF RecordAttempt, IInv, SessionInv, View
  <2>2. at[s] < row[s].expires_at BY <1>1, <2>1 DEF BarredOK
  <2>3. row'[s].status \in {"SUCCEEDED", "FAILED"} /\ pc'[s] = "returned"
    BY <1>10, RecordEffect
  <2>4. UpdateStatusAtomic(s, "EXECUTING", FinalStatus(result[s].status),
                           at[s] + result[s].duration, "returned", "returned")
    BY <1>10 DEF RecordAttempt
  <2>5. row'[s].expires_at = row[s].expires_at BY <2>1, <2>4, UpdateKeeps DEF IInv
  <2>6. \A a \in new_attempt'[s] : a.started_at = at[s]
    BY <1>10 DEF RecordAttempt, IInv, TypeOK
  <2> QED BY <2>2, <2>3, <2>5, <2>6 DEF BarredOK
<1>11. CASE Commit(s) \/ Rollback(s)
  <2>1. pc'[s] = "idle" /\ row'[s] = Absent /\ new_attempt'[s] = {}
    BY <1>11, EndEffect DEF Commit, Rollback
  <2> QED BY <2>1 DEF BarredOK, Absent
<1> QED
  BY <1>2, <1>3, <1>4, <1>6, <1>7, <1>8, <1>9, <1>10, <1>11 DEF Acts, Statement

LEMMA BarredStep ==
  ASSUME IInv, KeptInv, BarredInv, [Next]_vars
  PROVE  BarredInv'
<1>1. CASE UNCHANGED <<session, precluding>> /\ payment_events \subseteq payment_events'
  BY <1>1, BarredFrame DEF session, SameSession, BarredInv
<1>2. ASSUME NEW s \in Sessions, Acts(s) \/ Commit(s) PROVE BarredInv'
  <2>1. BarredOK(s)' BY <1>2, BarredOwn
  <2>2. \A o \in Sessions \ {s} : SameSession(o) /\ UNCHANGED payment_events
    BY <1>2, OthersKept DEF IInv
  <2>3. \A o \in Sessions \ {s} : BarredOK(o)' BY <2>2, BarredFrame
  <2> QED BY <2>1, <2>3 DEF BarredInv
<1> QED BY <1>1, <1>2, Moves

\* An outcome there was at the lock keeps a session from passing barrier B.
ClearOK(s) ==
  /\ pc[s] \in {"fetch", "barrier"} /\ precluding[s] # {} => Known(payment_events, cur[s], at[s])
  /\ pc[s] \in {"claim", "dispatch", "record"} \/ new_attempt[s] # {} => precluding[s] = {}

ClearInv == \A s \in Sessions : ClearOK(s)

LEMMA ClearOwn ==
  ASSUME IInv, ClearInv, NEW s \in Sessions, Acts(s) \/ Commit(s)
  PROVE  ClearOK(s)'
<1>1. ClearOK(s) BY DEF ClearInv
<1>2. ASSUME NEW d \in Decisions, NEW t \in Times,
             CreateCommand(s, d, t) \/ ExecuteCommand(s, d, t) \/ Observe(s, d, t)
      PROVE  ClearOK(s)'
  <2>1. /\ new_attempt'[s] = {}
        /\ pc'[s] \notin {"fetch", "barrier", "claim", "dispatch", "record"}
    BY <1>2 DEF CreateCommand, ExecuteCommand, Observe, Goto, IInv, SessionInv, TypeOK
  <2> QED BY <2>1 DEF ClearOK
<1>3. CASE ExecuteCreated(s) \/ InsertCommand(s) \/ AllocateObservationVersion(s)
           \/ AppendObservation(s)
  <2>1. /\ new_attempt'[s] = {}
        /\ pc'[s] \notin {"fetch", "barrier", "claim", "dispatch", "record"}
    BY <1>3 DEF ExecuteCreated, InsertCommand, AllocateObservationVersion, AppendObservation,
                Goto, IInv, SessionInv, TypeOK
  <2> QED BY <2>1 DEF ClearOK
<1>4. CASE AcquireCommandLock(s)
  <2>1. /\ new_attempt'[s] = {} /\ pc'[s] = "fetch" /\ UNCHANGED <<cur, at, payment_events>>
        /\ precluding'[s] = TerminalEvents(cur[s], at[s])
    BY <1>4 DEF AcquireCommandLock, Goto, IInv, SessionInv, TypeOK, tables
  <2>2. precluding'[s] # {} => Known(payment_events', cur'[s], at'[s])
    BY <2>1 DEF TerminalEvents, Known
  <2> QED BY <2>1, <2>2 DEF ClearOK
<1>5. CASE FetchCommand(s)
  <2>1. /\ pc[s] = "fetch" /\ new_attempt'[s] = {}
        /\ UNCHANGED <<cur, at, payment_events, precluding>>
        /\ pc'[s] \in {"failed", "returned", "barrier"}
    BY <1>5 DEF FetchCommand, UpdateStatusAtomic, Goto, IInv, SessionInv, TypeOK, tables, history
  <2> QED BY <1>1, <2>1 DEF ClearOK
<1>6. CASE CheckTerminal(s)
  <2>1. /\ pc[s] = "barrier" /\ new_attempt'[s] = {}
        /\ UNCHANGED <<cur, at, payment_events, precluding>>
    BY <1>6 DEF CheckTerminal, IInv, SessionInv, TypeOK, tables, history
  <2>2. CASE TerminalEvents(cur[s], at[s]) = {}
    <3>1. precluding[s] = {} BY <1>1, <2>1, <2>2 DEF ClearOK, TerminalEvents, Known
    <3> QED BY <1>1, <2>1, <3>1 DEF ClearOK
  <2>3. CASE TerminalEvents(cur[s], at[s]) # {}
    <3>1. pc'[s] = "returned"
      BY <1>6, <2>3 DEF CheckTerminal, UpdateStatusAtomic, Goto, IInv, TypeOK
    <3> QED BY <2>1, <3>1 DEF ClearOK
  <2> QED BY <2>2, <2>3
<1>7. CASE ClaimCommand(s) \/ Dispatch(s) \/ RecordAttempt(s)
  <2>1. pc[s] \in {"claim", "dispatch", "record"} /\ precluding' = precluding
    BY <1>7 DEF ClaimCommand, Dispatch, RecordAttempt, history
  <2> QED BY <1>1, <2>1 DEF ClearOK
<1>8. CASE Commit(s) \/ Rollback(s)
  <2>1. pc'[s] = "idle" /\ new_attempt'[s] = {}
    BY <1>8, EndEffect DEF Commit, Rollback
  <2> QED BY <2>1 DEF ClearOK
<1> QED BY <1>2, <1>3, <1>4, <1>5, <1>6, <1>7, <1>8 DEF Acts, Statement

LEMMA ClearStep ==
  ASSUME IInv, ClearInv, [Next]_vars
  PROVE  ClearInv'
<1>1. ASSUME NEW o \in Sessions, SameSession(o), payment_events \subseteq payment_events'
      PROVE  ClearOK(o)'
  <2>1. Known(payment_events, cur[o], at[o]) => Known(payment_events', cur[o], at[o])
    BY <1>1 DEF Known
  <2> QED BY <1>1, <2>1 DEF ClearInv, ClearOK, SameSession
<1>2. CASE UNCHANGED <<session, precluding>> /\ payment_events \subseteq payment_events'
  BY <1>1, <1>2 DEF session, SameSession, ClearInv
<1>3. ASSUME NEW s \in Sessions, Acts(s) \/ Commit(s) PROVE ClearInv'
  <2>1. ClearOK(s)' BY <1>3, ClearOwn
  <2>2. \A o \in Sessions \ {s} : SameSession(o) /\ UNCHANGED payment_events
    BY <1>3, OthersKept DEF IInv
  <2>3. \A o \in Sessions \ {s} : ClearOK(o)' BY <1>1, <2>2
  <2> QED BY <2>1, <2>3 DEF ClearInv
<1> QED BY <1>2, <1>3, Moves

\* BarriersRespected, by command
ReasonOK(d) ==
  /\ \A a \in AttemptsOf(d) : a.started_at < commands[d].expires_at
  /\ commands[d].status = "EXPIRED" => commands[d].updated_at >= commands[d].expires_at
  /\ commands[d].status = "NOT_NEEDED" => Known(payment_events, d, commands[d].updated_at)

ReasonInv == \A d \in Decisions : ReasonOK(d)

\* A command is committed with the reason for its status.
LEMMA ReasonStep ==
  ASSUME IInv, KeptInv, BarredInv, ReasonInv, [Next]_vars
  PROVE  ReasonInv'
<1>1. payment_events \subseteq payment_events' BY Moves, OthersKept DEF IInv
<1>2. \A d, t : Known(payment_events, d, t) => Known(payment_events', d, t)
  BY <1>1 DEF Known
<1>3. ASSUME NEW d \in Decisions, commands'[d] = commands[d], AttemptsOf(d)' = AttemptsOf(d)
      PROVE  ReasonOK(d)'
  BY <1>2, <1>3 DEF ReasonInv, ReasonOK
<1>4. CASE UNCHANGED <<commands, execution_attempts>>
  BY <1>3, <1>4 DEF ReasonInv, AttemptsOf
<1>5. ASSUME NEW s \in Sessions, Commit(s), NEW d \in Decisions PROVE ReasonOK(d)'
  <2>1. CASE d = cur[s] /\ commands'[d] = row[s] /\ AttemptsOf(d)' = new_attempt[s]
    BY <1>2, <2>1 DEF BarredInv, BarredOK, ReasonOK
  <2> QED BY <1>3, <1>5, <2>1, CommitEffect
<1>6. ASSUME NEW s \in Sessions, Acts(s) PROVE UNCHANGED <<commands, execution_attempts>>
  BY <1>6, OthersKept DEF IInv
<1> QED BY <1>4, <1>5, <1>6, Moves DEF ReasonInv

\* One of the events E states the outcome of d at t.
Tells(E, d, t, outcome) ==
  \E e \in E : /\ e.attempt = AttemptOf[d] /\ e.ingested_at <= t
               /\ (e.type = "payment.captured") <=> (outcome = "CAPTURED")

\* Every version up to n is taken.
Below(S, d, n) == \A m \in 1..n : \E p \in S : p.command = d /\ p.version = m

Entry(E, o) == o.outcome # "UNKNOWN_IN_FLIGHT" => Tells(E, o.command, o.as_of, o.outcome)

LogSoundInv ==
  /\ \A o, p \in observations : SameKey(o, p) => o = p
  /\ \A o \in observations :
       Below(observations, o.command, o.version) /\ Entry(payment_events, o)

\* What an observe call has in hand until its commit
ObservingOK(s) ==
  /\ pc[s] \in {"version", "append"} /\ seen[s].outcome # "UNKNOWN_IN_FLIGHT" =>
       Tells(payment_events, cur[s], at[s], seen[s].outcome)
  /\ pc[s] = "append" => Below(observations, cur[s], seen[s].version - 1)
  /\ \A o \in new_obs[s] :
       /\ Below(observations, o.command, o.version - 1)
       /\ Entry(payment_events, o)
       /\ \A p \in observations : ~SameKey(o, p)

ObservingInv ==
  /\ \A s \in Sessions : ObservingOK(s)
  /\ \A s, o \in Sessions : \A p \in new_obs[s], q \in new_obs[o] : s # o => ~SameKey(p, q)

LEMMA MaxBelow ==
  ASSUME IInv, LogSoundInv, NEW d \in Decisions
  PROVE  /\ MaxObservationVersion(d) \in Nat
         /\ Below(observations, d, MaxObservationVersion(d))
<1>1. MaxObservationVersion(d) \in {0} \cup {o.version : o \in ObservationsOf(d)}
  <2>1. \E n \in {0} \cup {o.version : o \in ObservationsOf(d)} :
          \A o \in ObservationsOf(d) : o.version <= n
    BY DEF IInv, LogInv
  <2> QED BY <2>1 DEF MaxObservationVersion
<1>2. MaxObservationVersion(d) \in Nat BY LogMax DEF IInv
<1>3. CASE MaxObservationVersion(d) = 0 BY <1>3 DEF Below
<1>4. ASSUME NEW o \in ObservationsOf(d), MaxObservationVersion(d) = o.version
      PROVE  Below(observations, d, MaxObservationVersion(d))
  BY <1>4 DEF LogSoundInv, ObservationsOf
<1> QED BY <1>1, <1>2, <1>3, <1>4

LEMMA SameKeySymmetric == \A o, p : SameKey(o, p) <=> SameKey(p, o)
BY DEF SameKey

\* The log grows by one entry at a time, at its end.
LEMMA LogSoundStep ==
  ASSUME IInv, LogSoundInv, ObservingInv, [Next]_vars
  PROVE  LogSoundInv'
<1>1. payment_events \subseteq payment_events' BY Moves, OthersKept DEF IInv
<1>2. \A o : Entry(payment_events, o) => Entry(payment_events', o)
  BY <1>1 DEF Entry, Tells
<1>3. CASE UNCHANGED observations BY <1>2, <1>3 DEF LogSoundInv
<1>4. ASSUME NEW s \in Sessions, Commit(s) PROVE LogSoundInv'
  <2>1. observations' = observations \cup new_obs[s] BY <1>4 DEF Commit
  <2>2. \A o, p \in new_obs[s] : o = p BY DEF IInv, LogInv
  <2>3. \A o \in new_obs[s] :
          /\ Below(observations, o.command, o.version - 1) /\ Entry(payment_events, o)
          /\ \A p \in observations : ~SameKey(o, p)
    BY DEF ObservingInv, ObservingOK
  <2>4. \A o, p \in observations' : SameKey(o, p) => o = p
    BY <2>1, <2>2, <2>3, SameKeySymmetric DEF LogSoundInv
  <2>5. ASSUME NEW o \in observations PROVE Below(observations', o.command, o.version)
    BY <2>1 DEF LogSoundInv, Below
  <2>6. ASSUME NEW o \in new_obs[s] PROVE Below(observations', o.command, o.version)
    <3>1. o.version \in Nat BY DEF IInv, TypeOK, Observation
    <3>2. ASSUME NEW m \in 1..o.version
          PROVE  \E p \in observations' : p.command = o.command /\ p.version = m
      <4>1. CASE m = o.version BY <2>1, <4>1
      <4>2. CASE m # o.version
        <5>1. m \in 1..(o.version - 1) BY <3>1, <4>2
        <5> QED BY <2>1, <2>3, <5>1 DEF Below
      <4> QED BY <4>1, <4>2
    <3> QED BY <3>2 DEF Below
  <2>7. \A o \in observations' : Entry(payment_events', o)
    BY <1>2, <2>1, <2>3 DEF LogSoundInv
  <2> QED BY <2>1, <2>4, <2>5, <2>6, <2>7 DEF LogSoundInv
<1>5. ASSUME NEW s \in Sessions, Acts(s) PROVE UNCHANGED observations
  BY <1>5, OthersKept DEF IInv
<1> QED BY <1>3, <1>4, <1>5, Moves

\* Another session's commit leaves an observation its place in the log.
LEMMA ObservingFrame ==
  ASSUME ObservingInv, NEW o \in Sessions, SameSession(o),
         payment_events \subseteq payment_events',
         \/ UNCHANGED observations
         \/ \E s \in Sessions \ {o} : observations' = observations \cup new_obs[s]
  PROVE  ObservingOK(o)'
<1>1. ObservingOK(o) BY DEF ObservingInv
<1>2. \A d, t, x : Tells(payment_events, d, t, x) => Tells(payment_events', d, t, x)
  BY DEF Tells
<1>3. \A d, n : Below(observations, d, n) => Below(observations', d, n) BY DEF Below
<1>4. \A p \in new_obs[o] : \A q \in observations' : ~SameKey(p, q)
  BY <1>1 DEF ObservingInv, ObservingOK
<1> QED BY <1>1, <1>2, <1>3, <1>4 DEF ObservingOK, SameSession, Entry

LEMMA ObservingOwn ==
  ASSUME IInv, LogSoundInv, ObservingInv, NEW s \in Sessions, Acts(s) \/ Commit(s)
  PROVE  /\ ObservingOK(s)'
         /\ \/ new_obs'[s] = new_obs[s] \/ new_obs'[s] = {}
            \/ \A p \in new_obs'[s] : \A o \in Sessions \ {s} : \A q \in new_obs[o] :
                 ~SameKey(p, q)
<1>1. ObservingOK(s) BY DEF ObservingInv
<1>2. ASSUME NEW d \in Decisions, NEW t \in Times, CreateCommand(s, d, t) \/ ExecuteCommand(s, d, t)
      PROVE  new_obs'[s] = {} /\ pc'[s] \notin {"version", "append"}
  BY <1>2 DEF CreateCommand, ExecuteCommand, Goto, IInv, SessionInv, TypeOK
<1>3. ASSUME NEW d \in Decisions, NEW t \in Times, Observe(s, d, t)
      PROVE  ObservingOK(s)' /\ new_obs'[s] = {}
  <2>1. /\ new_obs'[s] = {} /\ pc'[s] # "append" /\ cur'[s] = d /\ at'[s] = t
        /\ payment_events' = payment_events
    BY <1>3 DEF Observe, Goto, IInv, SessionInv, TypeOK, tables
  <2>2. pc'[s] = "version" =>
          \/ seen'[s] = Unseen
          \/ \E e \in TerminalEvents(d, t) : seen'[s] = [outcome |-> OutcomeOf(e), version |-> 0]
    BY <1>3 DEF Observe, Goto, IInv, TypeOK, Earliest
  <2>3. ASSUME pc'[s] = "version", seen'[s].outcome # "UNKNOWN_IN_FLIGHT"
        PROVE  Tells(payment_events, d, t, seen'[s].outcome)
    <3>1. PICK e \in TerminalEvents(d, t) :
            seen'[s] = [outcome |-> OutcomeOf(e), version |-> 0]
      BY <2>2, <2>3 DEF Unseen
    <3>2. e \in payment_events /\ e.attempt = AttemptOf[d] /\ e.ingested_at <= t
      BY DEF TerminalEvents
    <3>3. (e.type = "payment.captured") <=> (seen'[s].outcome = "CAPTURED")
      BY <3>1 DEF OutcomeOf
    <3> QED BY <3>2, <3>3 DEF Tells
  <2> QED BY <2>1, <2>3 DEF ObservingOK
<1>4. ASSUME ExecuteCreated(s) \/ InsertCommand(s) \/ AcquireCommandLock(s) \/ Dispatch(s)
      PROVE  new_obs'[s] = {} /\ pc'[s] \notin {"version", "append"}
  BY <1>4 DEF ExecuteCreated, InsertCommand, AcquireCommandLock, Dispatch, Goto,
              IInv, SessionInv, TypeOK
<1>5. ASSUME FetchCommand(s) \/ CheckTerminal(s) \/ ClaimCommand(s) \/ RecordAttempt(s)
      PROVE  new_obs'[s] = {} /\ pc'[s] \notin {"version", "append"}
  <2>1. new_obs'[s] = {}
    BY <1>5 DEF FetchCommand, CheckTerminal, ClaimCommand, RecordAttempt, IInv, SessionInv
  <2>2. pc'[s] \notin {"version", "append"}
    BY <1>5, FetchEffect, CheckTerminalEffect, ClaimEffect, RecordEffect
  <2> QED BY <2>1, <2>2
<1>6. CASE AllocateObservationVersion(s)
  <2>1. /\ new_obs'[s] = {} /\ cur' = cur /\ at' = at /\ payment_events' = payment_events
        /\ observations' = observations /\ pc[s] = "version" /\ pc'[s] = "append"
        /\ cur[s] \in Decisions
    BY <1>6 DEF AllocateObservationVersion, Goto, IInv, SessionInv, TypeOK, tables
  <2>2. /\ seen'[s].outcome = seen[s].outcome
        /\ seen'[s].version = MaxObservationVersion(cur[s]) + 1
    BY <1>6 DEF AllocateObservationVersion, IInv, TypeOK
  <2>3. Below(observations, cur[s], seen'[s].version - 1)
    <3>1. seen'[s].version - 1 = MaxObservationVersion(cur[s]) BY <2>1, <2>2, MaxBelow
    <3> QED BY <2>1, <3>1, MaxBelow
  <2> QED BY <1>1, <2>1, <2>2, <2>3 DEF ObservingOK
<1>7. CASE AppendObservation(s)
  <2>1. /\ UNCHANGED <<cur, at, seen, payment_events, observations>> /\ pc[s] = "append"
        /\ new_obs[s] = {} /\ pc'[s] \in {"failed", "returned"}
    BY <1>7 DEF AppendObservation, Goto, IInv, SessionInv, TypeOK, tables
  <2>2. CASE new_obs' = new_obs BY <2>1, <2>2 DEF ObservingOK
  <2>3. CASE new_obs' # new_obs
    <3>1. PICK obs :
            /\ obs = [command |-> cur[s], version |-> seen[s].version, as_of |-> at[s],
                      outcome |-> seen[s].outcome]
            /\ new_obs'[s] = {obs}
            /\ \A p \in observations : ~SameKey(obs, p)
            /\ \A o \in Sessions \ {s} : \A p \in new_obs[o] : ~SameKey(obs, p)
      BY <1>7, <2>3 DEF AppendObservation, IInv, TypeOK
    <3>2. Below(observations, obs.command, obs.version - 1) /\ Entry(payment_events, obs)
      BY <1>1, <2>1, <3>1 DEF ObservingOK, Entry
    <3> QED BY <2>1, <3>1, <3>2 DEF ObservingOK
  <2> QED BY <2>2, <2>3
<1>8. ASSUME Commit(s) \/ Rollback(s)
      PROVE  new_obs'[s] = {} /\ pc'[s] \notin {"version", "append"}
  BY <1>8, EndEffect DEF Commit, Rollback
<1>9. new_obs'[s] = {} /\ pc'[s] \notin {"version", "append"} => ObservingOK(s)'
  BY DEF ObservingOK
<1> QED
  BY <1>2, <1>3, <1>4, <1>5, <1>6, <1>7, <1>8, <1>9 DEF Acts, Statement

LEMMA ObservingStep ==
  ASSUME IInv, LogSoundInv, ObservingInv, [Next]_vars
  PROVE  ObservingInv'
<1>1. CASE UNCHANGED <<observations, session, precluding>> /\ payment_events \subseteq payment_events'
  <2>1. \A o \in Sessions : ObservingOK(o)'
    BY <1>1, ObservingFrame DEF session, SameSession
  <2> QED BY <1>1, <2>1 DEF ObservingInv, session
<1>2. ASSUME NEW s \in Sessions, Acts(s) \/ Commit(s) PROVE ObservingInv'
  <2>1. \A o \in Sessions \ {s} : SameSession(o) /\ UNCHANGED payment_events
    BY <1>2, OthersKept DEF IInv
  <2>2. UNCHANGED observations \/ observations' = observations \cup new_obs[s]
    BY <1>2, OthersKept DEF IInv, Commit
  <2>3. ASSUME NEW o \in Sessions, o # s PROVE ObservingOK(o)'
    BY <2>1, <2>2, <2>3, ObservingFrame
  <2>4. ObservingOK(s)' BY <1>2, ObservingOwn
  <2>5. ASSUME NEW o \in Sessions, NEW x \in Sessions, o # x,
               NEW p \in new_obs'[o], NEW q \in new_obs'[x]
        PROVE  ~SameKey(p, q)
    BY <1>2, <2>1, <2>5, ObservingOwn, SameKeySymmetric DEF ObservingInv, SameSession
  <2>6. \A o \in Sessions : ObservingOK(o)' BY <2>3, <2>4
  <2> QED BY <2>5, <2>6 DEF ObservingInv
<1> QED BY <1>1, <1>2, Moves

MoreInv ==
  KeptInv /\ BarredInv /\ ClearInv /\ ReasonInv /\ LogSoundInv /\ ObservingInv

LEMMA More == Spec => [](IInv /\ MoreInv)
<1>1. Init => MoreInv
  BY DEF Init, MoreInv, KeptInv, BarredInv, BarredOK, ClearInv, ClearOK, ReasonInv, ReasonOK, AttemptsOf,
         LogSoundInv, ObservingInv, ObservingOK, Absent
<1>2. IInv /\ MoreInv /\ [Next]_vars => MoreInv'
  BY KeptStep, BarredStep, ClearStep, ReasonStep, LogSoundStep, ObservingStep DEF MoreInv
<1> QED BY <1>1, <1>2, Inductive, PTL DEF Spec

\* The barriers of execute_command, however late a session acts on what they found: no
\* command is dispatched past its deadline, or after an outcome that was there when its
\* session got the lock; none expires before the deadline, and none is dropped without an
\* outcome.
THEOREM BarriersAlwaysRespected == Spec => []BarriersRespected
<1>1. IInv /\ MoreInv => BarriersRespected
  BY DEF MoreInv, ReasonInv, ReasonOK, ClearInv, ClearOK, BarriersRespected, TerminalEvents, Known
<1> QED BY <1>1, More, PTL

\* get_max_observation_version and the unique keys of payment_outcome_observations, no lock:
\* a command's log has no gaps and no repetitions, and states only known outcomes.
THEOREM ObservationLogAlwaysSound == Spec => []ObservationLogSound
<1>1. ASSUME MoreInv, NEW d \in Decisions
      PROVE  /\ \A o, p \in ObservationsOf(d) : SameKey(o, p) => o = p
             /\ \A o \in ObservationsOf(d) : \A n \in 1..o.version :
                  \E p \in ObservationsOf(d) : p.version = n
             /\ \A o \in ObservationsOf(d) : o.outcome # "UNKNOWN_IN_FLIGHT" =>
                  \E e \in TerminalEvents(d, o.as_of) :
                    (e.type = "payment.captured") <=> (o.outcome = "CAPTURED")
  <2>1. \A o, p \in ObservationsOf(d) : SameKey(o, p) => o = p
    BY <1>1 DEF MoreInv, LogSoundInv, ObservationsOf
  <2>2. \A o \in ObservationsOf(d) : \A n \in 1..o.version :
          \E p \in ObservationsOf(d) : p.version = n
    BY <1>1 DEF MoreInv, LogSoundInv, ObservationsOf, Below
  <2>3. \A o \in ObservationsOf(d) : o.outcome # "UNKNOWN_IN_FLIGHT" =>
          \E e \in TerminalEvents(d, o.as_of) :
            (e.type = "payment.captured") <=> (o.outcome = "CAPTURED")
    BY <1>1 DEF MoreInv, LogSoundInv, ObservationsOf, Entry, Tells, TerminalEvents
  <2> QED BY <2>1, <2>2, <2>3
<1>2. MoreInv => ObservationLogSound BY <1>1 DEF ObservationLogSound
<1> QED BY <1>2, More, PTL

\* state_machine.LEGAL_TRANSITIONS, kept by concurrent transactions: a finalized command
\* stays as it is, and what it was created with never changes.
THEOREM HistoryAlwaysLegal == Spec => CommandHistoryLegal
<1>1. IInv /\ MoreInv /\ [Next]_vars =>
        [\A d \in Decisions :
           commands[d].status # "ABSENT" =>
             /\ commands[d].status \in Finals => commands'[d] = commands[d]
             /\ commands'[d].created_at = commands[d].created_at
             /\ commands'[d].expires_at = commands[d].expires_at
             /\ commands'[d].status \in Finals \cup {commands[d].status}]_commands
  BY HistoryStep DEF MoreInv
<1> QED BY <1>1, More, PTL DEF Spec, CommandHistoryLegal
==============================================================================
