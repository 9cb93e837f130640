--------------------------- MODULE MCDegradation -----------------------------
(* Degradation on small instances. *)
EXTENDS Degradation

CONSTANTS late, next  \* deliveries

\* A late capture and a late failure of one window
MCWindowOf  == [d \in Deliveries |-> LastWindow - 2]
MCOutcomeOf ==
  [d \in Deliveries |-> IF d = late THEN "payment.captured" ELSE "payment.failed"]

Happened(ok, failed) == [ok |-> ok, failed |-> failed]

\* With a baseline of 50 %: LOW_VOLUME, NORMAL, BAD of two severities
MCPast == {Happened(0, 0), Happened(1, 1), Happened(4, 6), Happened(0, 1)}
==============================================================================
