---------------------------- MODULE MCServerText ----------------------------
(* Model checking of ServerText on small instances. *)
EXTENDS ServerText
=============================================================================
