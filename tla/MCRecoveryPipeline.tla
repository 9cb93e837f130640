------------------------- MODULE MCRecoveryPipeline --------------------------
(* RecoveryPipeline on small instances. *)
EXTENDS RecoveryPipeline, TLC

CONSTANTS a1, a2                 \* payment attempts
CONSTANTS t1, t2, t3, c1, f1, u1 \* events: triggers, capture and failure of a1; trigger of a2
CONSTANTS s1, s2                 \* another provider's trigger and capture, also of the key a1

MCAttemptOf == [e \in Events |-> IF e = u1 THEN a2 ELSE a1]

MCKindOf ==
  [e \in Events |->
     CASE e \in {c1, s2} -> "payment.captured" [] e = f1 -> "payment.failed" [] OTHER -> "TRIGGER"]

MCProviderOf == [e \in Events |-> IF e \in {s1, s2} THEN "synthetic" ELSE "razorpay"]

\* From nothing, without the events of the other provider
Fresh == Starting([e \in Events |-> IF e \in {s1, s2, f1} THEN "lost" ELSE "none"])

\* Events of a1 and their stamps, stored or not; the others do not take part.
Arrived(stored, normalized) ==
  LET events == stored \cup normalized IN
  /\ now = MaxTime
  /\ occurred = [e \in Events |-> 0]
  /\ ingested_at \in {f \in [Events -> 0..MaxTime] :
       \A e \in {t1, s1} \cup (Events \ events) : e \in Events => f[e] = 0}
  /\ payment_events = stored
  /\ pc = [e \in Events |->
       IF e \in stored THEN "scheduled" ELSE IF e \in normalized THEN "normalized" ELSE "lost"]
  /\ db = NoRows
  /\ new = [e \in Events |-> NoRows]
  /\ held = [e \in Events |-> {}]
  /\ noted = [e \in Events |-> "none"]
  /\ todo = [e \in Events |-> {}]
  /\ obs = [e \in Events |-> NoObservation]
  /\ dispatched = {}
  /\ faults = MaxFaults

\* One key, events of two providers: all are stored, and their tasks are about to begin.
Collision == Arrived({t1, c1, s1, s2}, {})

\* A trigger is stored; two outcomes are stamped, and are stored in any order.
Late == Arrived({t1}, {c1, f1})

PipelineSpec == (Fresh \/ Collision \/ Late) /\ [][Next]_vars

\* After a restart: events of a1 are stored, the tasks of those in lost went down with the
\* process, and the others are about to begin.  The first trigger is one of these, or was
\* found to carry little risk.
Backlog(lost, first) ==
  /\ now = MaxTime
  /\ occurred = [e \in Events |-> 0]
  /\ ingested_at \in {f \in [Events -> 0..MaxTime] :
       f[t1] = 0 /\ \A e \in lost \cup {c1} : f[e] = MaxTime}
  /\ payment_events = Events
  /\ pc = [e \in Events |-> CASE e \in lost -> "lost" [] e = t1 -> first [] OTHER -> "scheduled"]
  /\ db = IF first = "scheduled" THEN NoRows ELSE [NoRows EXCEPT
       !.payment_attempts = {[attempt |-> a1, provider |-> "razorpay", trigger |-> t1]},
       !.predictions =
         {[attempt |-> a1, provider |-> "razorpay", version |-> 1, predicted_at |-> 0,
           probability |-> "low"]}]
  /\ new = [e \in Events |-> NoRows]
  /\ held = [e \in Events |-> {}]
  /\ noted = [e \in Events |-> "none"]
  /\ todo = [e \in Events |-> {}]
  /\ obs = [e \in Events |-> NoObservation]
  /\ dispatched = {}
  /\ faults = 0

\* Two triggers and two outcomes of an attempt, or two triggers of a registered one
BacklogSpec ==
  /\ Backlog({t3}, "scheduled") \/ Backlog({c1, f1}, "done")
  /\ [][Next]_vars
  /\ Fairness
==============================================================================
