------------------------- MODULE MCGrpcResultStream -------------------------
(* Model checking of GrpcResultStream on small instances. *)
EXTENDS GrpcResultStream
=============================================================================
