---------------------------- MODULE MCHttpClient ----------------------------
(* Model checking of LoginSessions and of HttpCall on small instances. They share no       *)
(* variable, so that one run checks both: a behaviour is one of the first, or one of the   *)
(* second beside a client that has not been used.                                          *)
EXTENDS LoginSessions, HttpCall, TLC

\* each class of status: decoded by some parser, success without a document, documented or
\* undocumented refusal
MCStatuses == {200, 201, 204, 299, 400, 418, 503}
MCBodies == Json \cup {"text", "empty"}

\* no property or action tells two users apart
Symmetric == Permutations(Users)

ClientInit == Init /\ HttpInit

Sessions == HttpInit /\ Next /\ UNCHANGED httpVars
Calls == Init /\ (\E u \in Users : maps = <<Basic(u)>>) /\ HttpNext /\ UNCHANGED vars

ClientNext == Sessions \/ Calls

ClientSpec == ClientInit /\ [][ClientNext]_<<vars, httpVars>>
=============================================================================
