-------------------------- MODULE MCInsertSession --------------------------
(* Model checking of InsertSession on small instances. *)
EXTENDS InsertSession
=============================================================================
