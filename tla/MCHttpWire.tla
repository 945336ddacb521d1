----------------------------- MODULE MCHttpWire -----------------------------
(* Model checking of ResultStream and of ServerText on small instances. They share no      *)
(* variable, so that one run checks both: a behaviour is one of the first, or one of the   *)
(* second beside a range over an empty body that has not begun.                            *)
EXTENDS ResultStream, ServerText

WireInit == Init /\ TextInit

Streams == TextInit /\ Next /\ UNCHANGED textVars
Exchanges == Init /\ lines = <<>> /\ TextNext /\ UNCHANGED vars

WireNext == Streams \/ Exchanges

WireSpec == WireInit /\ [][WireNext]_<<vars, textVars>>
=============================================================================
