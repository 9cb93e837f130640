--------------------------- MODULE MCPayPalClient -----------------------------
(* PayPalClient on a small instance. *)
EXTENDS PayPalClient

CONSTANTS c1, c2, c3
==============================================================================
