----------------------------- MODULE MCExecution -----------------------------
(* Small instance of Execution: see the configurations beside it. *)
EXTENDS Execution, TLC
CONSTANTS p1, s1, s2, d1, d2
MCAttemptOf == [d \in Decisions |-> p1]
\* A decline ingested first and a capture of the same payment ingested later.
MCEvents == {[attempt |-> p1, type |-> "payment.failed", ingested_at |-> 0],
             [attempt |-> p1, type |-> "payment.captured", ingested_at |-> 1]}
SessionSymmetry == Permutations(Sessions)
==============================================================================
