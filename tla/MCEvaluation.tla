---------------------------- MODULE MCEvaluation ------------------------------
(***************************************************************************)
(* Instance of Evaluation for TLC: two authorizations of one attempt, the  *)
(* routes of the default policy, percentages.                              *)
(***************************************************************************)
EXTENDS Evaluation, TLC

\* Rates are odd, so that half of one plus five is a whole percentage.
MCRates == {65, 97}

MCSettings ==
  {[currency |-> "INR", method |-> TRUE, bank |-> TRUE, severity |-> "CRITICAL"],
   [currency |-> "INR", method |-> TRUE, bank |-> TRUE, severity |-> "HIGH"],
   [currency |-> "USD", method |-> TRUE, bank |-> TRUE, severity |-> "NONE"]}

MCEvidence ==
  {NoCandidate("SYSTEMIC"),
   Segment("BANK", TRUE, "STRONG"), Segment("BANK", FALSE, "STRONG"),
   Segment("PAYMENT_METHOD", TRUE, "MODERATE")}

TriggerSymmetry == Permutations(Triggers)

MCScale     == 100
MCPolicy    == DefaultPolicy
==============================================================================
