------------------------ MODULE MCProviderMigration -------------------------
(* ProviderMigration on small databases. *)
EXTENDS ProviderMigration, TLC

CONSTANTS ref, bad, empty   \* references: "bad" is no PayPal identifier

Event(id, source, type, payment, order, at) ==
  [id |-> id, source |-> source, type |-> type, payment |-> payment, order |-> order, at |-> at]

x == Plain(ref)             \* an attempt of razorpay, or of synthetic
y == PaypalAttemptId(ref)   \* the PayPal attempt with the same reference
z == PaypalAttemptId(bad)   \* a key no PayPal order can have

e1 == Event(1, "razorpay", "payment.authorized", x, empty, 1)
e2 == Event(2, "synthetic", "payment.authorized", x, empty, 0)
e3 == Event(3, "paypal", "order.approved", x, empty, 1)
e4 == Event(4, "unsupported", "payment.authorized", x, empty, 0)
e5 == Event(5, "razorpay", "payment.captured", x, empty, 2)
e6 == Event(6, "synthetic", "payment.captured", x, empty, 2)
e7 == Event(7, "paypal", "payment.captured", Plain(bad), ref, 2)
e8 == Event(8, "razorpay", "payment.authorized", y, empty, 1)
e9 == Event(9, "paypal", "order.approved", Plain(bad), empty, 1)

MCEvents == {e1, e2, e3, e5, e6}

Test     == [local |-> TRUE, port |-> 5434, name |-> TestName]
Namesake == [local |-> FALSE, port |-> 5432, name |-> TestName]
Plant    == [local |-> FALSE, port |-> 5432, name |-> "payment_recovery"]
Dev      == [local |-> TRUE, port |-> 5433, name |-> "payment_recovery"]

MCDatabases == {Test, Namesake, Plant, Dev}

\* What the older release leaves of an attempt: a prediction, then a decision, an
\* executed command, an outcome of some terminal event, and its attribution
Chain(key, terminal) ==
  [NoRows EXCEPT
     !.predictions = {[id |-> <<key, 1>>, key |-> key, version |-> 1, provider |-> Nothing]},
     !.decisions = {[id |-> <<key, 1>>, prediction |-> <<key, 1>>, key |-> key, version |-> 1,
                     provider |-> Nothing]},
     !.commands = {[id |-> <<key, 1>>, decision |-> <<key, 1>>, key |-> key, version |-> 1,
                    provider |-> Nothing]},
     !.executions = {[id |-> <<<<key, 1>>, 1>>, command |-> <<key, 1>>, provider |-> Nothing]},
     !.observations = {[id |-> <<<<key, 1>>, 1>>, command |-> <<key, 1>>, key |-> key,
                        terminal |-> terminal, provider |-> Nothing]},
     !.attributions = {[id |-> <<<<key, 1>>, 1>>, command |-> <<key, 1>>, decision |-> <<key, 1>>,
                        key |-> key, provider |-> Nothing]}]

Cut(d, tables) == [t \in DOMAIN d |-> IF t \in tables THEN {} ELSE d[t]]
Depths ==
  {{}, {"attributions"}, {"observations", "attributions"},
   {"executions", "observations", "attributions"},
   {"commands", "executions", "observations", "attributions"}, Tables \ {"predictions"}}

Join(c, d) == [t \in DOMAIN c |-> c[t] \cup d[t]]
Storing(d, E) == [d EXCEPT !.payment_events = E]

\* Rows edited by hand: one column of one row
Edited(d) ==
  {[d EXCEPT !.decisions = {[r EXCEPT !.prediction = p] : r \in @}] : p \in {Nothing, <<z, 1>>}}
  \cup {[d EXCEPT ![t] = {[r EXCEPT !.key = y] : r \in @}] : t \in KeyedTables}
  \cup {[d EXCEPT !.commands = {[r EXCEPT !.version = 2] : r \in @}]}
  \cup {[d EXCEPT ![t] = {[r EXCEPT !.command = <<z, 1>>] : r \in @}] :
          t \in {"executions", "observations"}}
  \cup {Cut(d, {t}) : t \in {"predictions", "executions", "observations"}}
  \cup {Cut(d, {"commands", "attributions"})}

MCLegacy ==
  LET stored == {{e1}, {e2}, {e1, e2}, {e1, e4}, {e1, e8}, {}, {e1, e3}}
      attempts ==
        {Cut(Storing(Chain(x, Nothing), E), c) : E \in stored, c \in Depths}
        \cup {Cut(Storing(Chain(k, Nothing), {e3, e9}), c) : k \in {y, z}, c \in Depths}
        \cup {Storing(Chain(x, e.id), {e1, e5, e6}) : e \in {e5, e6, e7}}
        \cup {Storing(Chain(y, e.id), {e3, e5, e7}) : e \in {e5, e7}}
        \cup {Storing(Join(Chain(x, Nothing), Chain(y, Nothing)), {e1, e3})}
        \cup Edited(Storing(Chain(x, Nothing), {e1, e3}))
      d0 == Cut(Storing(Chain(x, Nothing), {e1}), {"observations", "attributions"})
  IN ({Plant} \X attempts)
     \cup {<<Test, d0>>, <<Namesake, d0>>, <<Dev, d0>>}
==============================================================================
