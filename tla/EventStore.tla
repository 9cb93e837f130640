----------------------------- MODULE EventStore ------------------------------
(***************************************************************************)
(* What a webhook endpoint promises its provider.  Every event is recorded *)
(* once and its evidence is never replaced.  Every verdict is honest:      *)
(* "stored" and "duplicate" are said of the payload that is recorded,      *)
(* "conflict" when a different one is.                                     *)
(***************************************************************************)
CONSTANTS
  Identities,  \* event identities of the provider
  Hashes,      \* payload hashes
  NoHash       \* nothing recorded

VARIABLES
  store,    \* the recorded hash of each event
  verdicts  \* <<identity, hash, verdict>> of the answers on their way

vars == <<store, verdicts>>

Init ==
  /\ store = [i \in Identities |-> NoHash]
  /\ verdicts = {}

Record(i, h) ==
  /\ store[i] = NoHash
  /\ store' = [store EXCEPT ![i] = h]

Honest(i, h, v) ==
  \/ v \in {"stored", "duplicate"} /\ store[i] = h
  \/ v = "conflict" /\ store[i] \notin {h, NoHash}

\* Answers leave or are lost.  A new one is honest about the record that the step leaves.
Tell == \A d \in verdicts' \ verdicts : Honest(d[1], d[2], d[3])'

Next ==
  /\ UNCHANGED store \/ \E i \in Identities, h \in Hashes : Record(i, h)
  /\ Tell

Spec == Init /\ [][Next]_vars
==============================================================================
