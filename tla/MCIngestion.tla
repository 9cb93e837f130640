---------------------------- MODULE MCIngestion ------------------------------
(* Ingestion on a small instance. *)
EXTENDS Ingestion, TLC

Delivery(s, i, g, defect, role) ==
  [source_system |-> s, source_event_id |-> i, payload_hash |-> g,
   defect |-> defect, role |-> role]

\* A PayPal event delivered with two good bodies and a defective one, a Razorpay event
\* also delivered with a forged body, and a delivery with each of the other defects.
MCPayloads ==
  {Delivery("razorpay", 1, 1, "none", TRUE), Delivery("razorpay", 1, 2, "unverified", FALSE),
   Delivery("paypal", 1, 1, "none", TRUE), Delivery("paypal", 1, 2, "none", FALSE),
   Delivery("paypal", 1, 3, "unnormalizable", FALSE),
   Delivery("paypal", 2, 1, "unsupported", FALSE),
   Delivery("paypal", 2, 3, "malformed", FALSE)}

MCRazorpay ==
  {Delivery("razorpay", 1, 1, "none", TRUE), Delivery("razorpay", 1, 2, "none", FALSE)}
==============================================================================
