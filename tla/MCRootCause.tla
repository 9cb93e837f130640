----------------------------- MODULE MCRootCause ------------------------------
(* RootCause on small instances: two banks and a currency. *)
EXTENDS RootCause, TLC

CONSTANTS d1, d2  \* deliveries
CONSTANTS g, h    \* an episode of all payments, one of the first bank's

Bank1  == <<"BANK", "HDFC">>
Bank2  == <<"BANK", "SBI">>
Rupees == <<"CURRENCY", "INR">>
One    == {Bank1, Rupees}
Other  == {Bank2, Rupees}

MCProfiles     == {One, Other}
MCAlphabetical == <<Bank1, Bank2, Rupees>>

\* Of the second bank: a failure in the second window, where the first bank has no
\* payments, so that its episode is evaluated by a task that does not touch its row; and a
\* late capture in the first window.
MCWindowOf  == [d \in Deliveries |-> IF d = d1 THEN 2 ELSE 1]
MCProfileOf == [d \in Deliveries |-> Other]
MCOutcomeOf == [d \in Deliveries |-> IF d = d1 THEN "failed" ELSE "ok"]

MCStartOf   == [e \in Episodes |-> 1]
MCSegmentOf == [e \in Episodes |-> IF e = g THEN GlobalSegment ELSE Bank1]

Happened(ok, failed) == [ok |-> ok, failed |-> failed]

\* Few or many failures in the first window
MCPasts ==
  {[w \in Windows |-> [p \in Profiles |->
      CASE w = 1 /\ p = One   -> Happened(2, first)
        [] w = 1 /\ p = Other -> Happened(3, second)
        [] w = 2 /\ p = One   -> NoCounts
        [] w = 2 /\ p = Other -> Happened(0, 1)]] : first \in {1, 6}, second \in {0, 3}}

\* Snapshots of the weeks before, the same for every window
Weeks(rows) == [w \in Windows |-> rows]

WeeksBefore(one, other) ==
  LET both == [i \in DOMAIN one |-> Add(one[i], other[i])] IN
  (Bank1 :> Weeks(one)) @@ (Bank2 :> Weeks(other))
  @@ (Rupees :> Weeks(both)) @@ (GlobalSegment :> Weeks(both))

Calm == <<Happened(4, 0), Happened(4, 0)>>

\* One of three weeks: the median that Stage 2 and 3 go by is calm.
Outage == <<Happened(2, 0), Happened(2, 0), Happened(0, 8)>>

\* Calm weeks, failures of one bank, an outage, and too little volume for one bank
MCHistories ==
  {WeeksBefore(Calm, Calm),
   WeeksBefore(<<Happened(2, 2), Happened(2, 2)>>, Calm),
   WeeksBefore(Outage, Outage),
   WeeksBefore(<<Happened(1, 0), Happened(4, 0)>>, <<Happened(3, 1), Happened(3, 1)>>)}

\* Before, at most one of the episodes was found.
MCEarlier  == {{}, {g}, {h}}
NotEarlier == {{}}
==============================================================================
