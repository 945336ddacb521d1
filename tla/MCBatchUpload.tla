--------------------------- MODULE MCBatchUpload ---------------------------
(* Model checking of BatchUpload on small instances. *)
EXTENDS BatchUpload

\* Rows of one, six, two and two units: behind a partly filled buffer of three the second
\* fills it, is flushed and then passes it by, and a later row is cut in two.
MCRowEnds == [i \in 0..4 |-> <<0, 1, 7, 9, 11>>[i + 1]]
=============================================================================
