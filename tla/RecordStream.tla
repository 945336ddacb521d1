---------------------------- MODULE RecordStream ----------------------------
(***************************************************************************)
(* What one range over a result stream promises, over HTTP and over gRPC:  *)
(* the caller sees the items of the answer in order, none skipped, none    *)
(* repeated, none that did not arrive; the loop ends once, by itself, with *)
(* one error or by the caller leaving it, and nothing is seen afterwards;  *)
(* and what the request holds is released before the loop returns.         *)
(***************************************************************************)
EXTENDS Naturals

CONSTANT Positions   \* the positions an item may have in an answer, natural numbers

VARIABLES items,     \* the positions that hold an item of this answer
          arrived, seen, verdict, held, returned

vars == <<items, arrived, seen, verdict, held, returned>>

Init ==
  /\ items \in SUBSET Positions
  /\ arrived = {} /\ seen = {} /\ verdict = "none" /\ held = FALSE /\ returned = FALSE

\* The answer arrives from its beginning.
Arrive ==
  /\ arrived' \in SUBSET items /\ arrived \subseteq arrived'
  /\ UNCHANGED <<items, seen, verdict, held, returned>>

Acquire ==
  /\ verdict = "none" /\ seen = {} /\ ~held /\ held' = TRUE
  /\ UNCHANGED <<items, arrived, seen, verdict, returned>>

Yield(i) ==
  /\ verdict = "none" /\ held
  /\ i \in arrived \ seen
  /\ \A j \in items : j < i <=> j \in seen
  /\ seen' = seen \union {i}
  /\ UNCHANGED <<items, arrived, verdict, held, returned>>

End(how) ==
  /\ verdict = "none" /\ verdict' = how
  /\ UNCHANGED <<items, arrived, seen, held, returned>>

\* The loop returns, and holds nothing.
Return ==
  /\ verdict # "none" /\ ~returned
  /\ returned' = TRUE /\ held' = FALSE
  /\ UNCHANGED <<items, arrived, seen, verdict>>

Next ==
  \/ Arrive \/ Acquire \/ Return
  \/ \E i \in items : Yield(i)
  \/ \E how \in {"end", "error", "left"} : End(how)

Spec == Init /\ [][Next]_vars
=============================================================================
