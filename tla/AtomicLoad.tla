----------------------------- MODULE AtomicLoad -----------------------------
(***************************************************************************)
(* What a per_stream insert session promises the caller who drives it:     *)
(* chunks are accepted one by one, and then either all of the accepted     *)
(* chunks become durable in one step, or none ever does. The caller may    *)
(* never learn which, but is never told the wrong one.                     *)
(***************************************************************************)
EXTENDS Sequences

CONSTANT Chunks

VARIABLES accepted, durable, fate, told

vars == <<accepted, durable, fate, told>>

Init == accepted = <<>> /\ durable = <<>> /\ fate = "open" /\ told = "none"

\* A chunk is accepted. An acknowledgement can still be on its way when the
\* load has been discarded, never when it has been committed.
Accept ==
  /\ fate # "committed"
  /\ \E n \in Chunks : accepted' = Append(accepted, n)
  /\ UNCHANGED <<durable, fate, told>>

Commit ==
  /\ fate = "open"
  /\ fate' = "committed" /\ durable' = accepted
  /\ UNCHANGED <<accepted, told>>

\* Discarded, or left to the transaction the session joined.
GiveUp ==
  /\ fate = "open"
  /\ fate' \in {"discarded", "detached"}
  /\ UNCHANGED <<accepted, durable, told>>

\* The caller is told the fate.
Tell ==
  /\ told = "none" /\ fate # "open"
  /\ told' = fate
  /\ UNCHANGED <<accepted, durable, fate>>

Next == Accept \/ Commit \/ GiveUp \/ Tell

Spec == Init /\ [][Next]_vars
=============================================================================
