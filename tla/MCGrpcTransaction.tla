------------------------- MODULE MCGrpcTransaction -------------------------
(* Model checking of GrpcTransaction on small instances. *)
EXTENDS GrpcTransaction
=============================================================================
