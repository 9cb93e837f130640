--------------------------- MODULE ProviderIdentity ---------------------------
(***************************************************************************)
(* The identity of a payment attempt: which event starts or resolves which *)
(* attempt, under which key, and what the payment_attempts registry takes. *)
(*                                                                         *)
(* An attempt key, and any payment id that could be read as one, is a text *)
(* [paypal, reference]: the reference, behind "paypal-order:" or not.      *)
(***************************************************************************)
EXTENDS Naturals

CONSTANTS
  References,   \* payment ids and order ids, as providers write them
  Grammatical,  \* those PAYPAL_IDENTIFIER_PATTERN accepts
  Empty         \* the empty string

ASSUME IdentityAssumption ==
  Empty \in References /\ Grammatical \subseteq References \ {Empty}

Providers == {"razorpay", "synthetic", "paypal"}
Sources   == Providers \cup {"unsupported"}

Texts == [paypal : BOOLEAN, reference : References]
Plain(r)           == [paypal |-> FALSE, reference |-> r]
PaypalAttemptId(r) == [paypal |-> TRUE, reference |-> r]

TerminalTypes == {"payment.captured", "payment.failed"}
EventTypes    == TerminalTypes \cup {"payment.authorized", "order.approved"}

\* Canonical events; `at' is ingested_at, and without an order_id the order is Empty.
EventsOf(ids) ==
  [id : ids, source : Sources, type : EventTypes, payment : Texts, order : References, at : Nat]

-----------------------------------------------------------------------------

\* AttemptRef.__post_init__, and the CHECK constraints of the registry
ValidAttempt(provider, key, reference) ==
  /\ provider \in Providers
  /\ IF provider = "paypal"
       THEN reference \in Grammatical /\ key = PaypalAttemptId(reference)
       ELSE reference # Empty /\ key = Plain(reference)

IsTrigger(e) ==
  e.type = IF e.source = "paypal" THEN "order.approved" ELSE "payment.authorized"

IsTerminal(e) ==
  e.type \in TerminalTypes /\ (e.source = "paypal" => e.order # Empty)

\* The key an event of a role names
KeyOf(e) ==
  IF e.source = "paypal"
    THEN PaypalAttemptId(IF IsTrigger(e) THEN e.payment.reference ELSE e.order)
    ELSE e.payment

InNamespace(e) == e.source # "paypal" /\ e.payment.paypal /\ e.payment.reference # Empty

\* pipeline_attempt_refusal: the namespace, or an identity that no attempt can have.  No
\* PayPal order id has a colon.
HasRole(e) ==
  /\ IsTrigger(e) \/ IsTerminal(e)
  /\ ~InNamespace(e)
  /\ e.source = "paypal" /\ IsTrigger(e) => ~e.payment.paypal
  /\ ValidAttempt(e.source, KeyOf(e), KeyOf(e).reference)

Triggers(e)  == HasRole(e) /\ IsTrigger(e)
Resolves(e)  == HasRole(e) /\ IsTerminal(e)

-----------------------------------------------------------------------------
(* The registry: rows [key, provider, reference, trigger] *)

AttemptOf(e) ==
  [key |-> KeyOf(e), provider |-> e.source, reference |-> KeyOf(e).reference, trigger |-> e.id]

\* INSERT ... ON CONFLICT (payment_attempt_id) DO NOTHING
Register(R, e) ==
  IF \E r \in R : r.key = KeyOf(e) THEN R ELSE R \cup {AttemptOf(e)}

\* require: false is AttemptNotRegisteredError or AttemptProviderConflictError
Registered(R, provider, key) ==
  \E r \in R : r.key = key /\ r.provider = provider /\ r.reference = key.reference

\* Primary key, unique keys, CHECKs, and the foreign key to the events E
RegistryConstraints(R, E) ==
  /\ \A r, s \in R : r.key = s.key => r = s
  /\ \A r, s \in R : r.provider = s.provider /\ r.reference = s.reference => r = s
  /\ \A r \in R : ValidAttempt(r.provider, r.key, r.reference)
  /\ \A r \in R : \E e \in E : e.id = r.trigger /\ e.source = r.provider

\* Terminal events of a provider's attempt: by order for PayPal, by payment otherwise
TerminalsOf(E, provider, key) ==
  {e \in E : /\ e.source = provider /\ e.type \in TerminalTypes
             /\ IF provider = "paypal" THEN key.paypal /\ e.order = key.reference
                                       ELSE e.payment = key}
==============================================================================
