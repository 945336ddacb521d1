------------------------------ MODULE AtomicTx ------------------------------
(***************************************************************************)
(* What a transaction block promises its caller, over HTTP and over gRPC:  *)
(* the writes made through the transaction's handle become durable in one  *)
(* step or not at all, except for a part that a statement published itself;*)
(* the caller is told "ok" only of a commit and "rolledback" only of a     *)
(* rollback, and may be told "failed" of either.                           *)
(***************************************************************************)
CONSTANT Writes

VARIABLES durable, fate, partial, told

vars == <<durable, fate, partial, told>>

Init == durable = {} /\ fate = "open" /\ partial = FALSE /\ told = "none"

\* More writes become durable, never fewer.
Publish == durable' \in SUBSET Writes /\ durable \subseteq durable'

Commit ==
  /\ fate = "open" /\ fate' = "committed"
  /\ Publish /\ UNCHANGED <<partial, told>>

PublishPart ==
  /\ fate = "open" /\ partial' = TRUE
  /\ Publish /\ UNCHANGED <<fate, told>>

Discard ==
  /\ fate = "open" /\ fate' = "discarded"
  /\ UNCHANGED <<durable, partial, told>>

Tell ==
  /\ told = "none"
  /\ \/ fate = "committed" /\ told' = "ok"
     \/ fate = "discarded" /\ told' = "rolledback"
     \/ told' = "failed"
  /\ UNCHANGED <<durable, fate, partial>>

Next == Commit \/ PublishPart \/ Discard \/ Tell

Spec == Init /\ [][Next]_vars
=============================================================================
