----------------------------- MODULE ServerText -----------------------------
(***************************************************************************)
(* What crosses the boundary of the Go HTTP driver as text and numbers:    *)
(* the commands and waits it writes (ServerCommands) and the numbers of a  *)
(* failed answer it reads (ServerNumbers), one exchange at a time.         *)
(***************************************************************************)
EXTENDS ServerCommands, ServerNumbers

textVars == <<commandVars, numberVars>>

TextInit == CommandInit /\ NumberInit

Writes == field = "none" /\ CommandNext /\ UNCHANGED numberVars
ReadsAnswer == phase = "idle" /\ NumberNext /\ UNCHANGED commandVars

TextNext == Writes \/ ReadsAnswer

TextSpec == TextInit /\ [][TextNext]_textVars

-----------------------------------------------------------------------------
\* What becomes of every number at every width: what an error carries of the server's
\* (errors.go) and what the server is sent of the caller's wait (running.go), at the edges
\* where a conversion or a sum overflows too.
NumbersAreKept == NumberIsServers /\ WaitIsRoundedUp
=============================================================================
