--------------------------- MODULE MCTransaction ---------------------------
(* Model checking of Transaction on small instances. *)
EXTENDS Transaction
=============================================================================
