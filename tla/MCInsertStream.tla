--------------------------- MODULE MCInsertStream ---------------------------
(* Model checking of InsertStream on small instances. *)
EXTENDS InsertStream
=============================================================================
