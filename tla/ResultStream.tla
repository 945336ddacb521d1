---------------------------- MODULE ResultStream ----------------------------
(***************************************************************************)
(* One range over QueryStream or CommandStream of the Go HTTP driver: the  *)
(* request, the lines of the body cut by ndjson.Lines out of buffered      *)
(* reads, the events decoded from them, and the caller's loop.             *)
(*                                                                         *)
(* The body is a sequence of lines of three units: two of text (of white   *)
(* space in a blank line) and the line feed.  It is known how many units   *)
(* have arrived and how the body ended: "clean" at the end of the answer,  *)
(* or where a proxy or a server gave up without a trace; "error" when the  *)
(* connection broke or the context was cancelled.                          *)
(***************************************************************************)
EXTENDS Naturals, Sequences

CONSTANTS
  MaxLines,   \* the lines of a body
  BufSize     \* the units bufio.Reader holds

ASSUME BoundsAssumption == MaxLines \in Nat /\ BufSize \in Nat \ {0}

Unit == 3
\* what a line holds: an event, an event of a kind this client does not know, no JSON, nothing
Kinds == {"record", "stats", "error", "unknown", "garbage", "blank"}
Visible == {"record", "stats"}

\* Lines of every kind in any order. A server ends a body with its trailer (stats of a complete
\* answer, or an error), but the loop does not count on it: it reads on after stats.
Bodies == UNION {[1..n -> Kinds] : n \in 0..MaxLines}

VARIABLES
  lines,      \* the body, as the server means to send it
  arrived,    \* the units of it that reached the client
  ended,      \* "open", "clean", "error": whether and how the body ended
  pc,         \* "start", "read", "line", "loop", "defer", "done"
  body,       \* "none", "open", "closed": resp.Body
  start,      \* where pending begins
  read,       \* the units read; pending is the units from start to read
  eof,        \* ReadSlice reported the end of the body
  seen,       \* the lines yielded as events
  err         \* the error yielded, "none" so far

wire == <<lines, arrived, ended>>
vars == <<wire, pc, body, start, read, eof, seen, err>>

Init ==
  /\ lines \in Bodies /\ arrived = 0 /\ ended = "open"
  /\ pc = "start" /\ body = "none" /\ start = 0 /\ read = 0 /\ eof = FALSE
  /\ seen = {} /\ err = "none"

-----------------------------------------------------------------------------
(* The body arrives. *)

Arrive ==
  /\ body = "open" /\ ended = "open" /\ arrived < Unit * Len(lines)
  /\ arrived' = arrived + 1
  /\ UNCHANGED <<lines, ended, pc, body, start, read, eof, seen, err>>

BodyEnds(how) ==
  /\ body = "open" /\ ended = "open"
  /\ ended' = how
  /\ UNCHANGED <<lines, arrived, pc, body, start, read, eof, seen, err>>

-----------------------------------------------------------------------------
(* The range. *)

Fails(e) == err' = e /\ pc' = "defer"

\* open, then unpackStream: a refusal's body is read and closed by errorFromResponse.
Open ==
  /\ pc = "start"
  /\ \/ Fails("transport") /\ UNCHANGED body
     \/ Fails("status") /\ body' = "closed"
     \/ pc' = "read" /\ body' = "open" /\ UNCHANGED err
  /\ UNCHANGED <<wire, start, read, eof, seen>>

\* the position of the next line feed, which may not have arrived yet
Feed == Unit * (read \div Unit + 1)

\* a failed read ends the body as its end does
FaultyReadFails == eof' = TRUE /\ pc' = "line" /\ UNCHANGED err

\* the read fails: the line read so far is dropped
ReadFails == Fails("read") /\ UNCHANGED eof

\* br.ReadSlice: up to the line feed, a full buffer without one (and the loop goes on), or
\* what is left when the body has ended.
ReadSlice ==
  /\ pc = "read"
  /\ \/ /\ Feed <= arrived /\ Feed - read <= BufSize
        /\ read' = Feed /\ eof' = FALSE /\ pc' = "line" /\ UNCHANGED err
     \/ /\ Feed - read > BufSize /\ arrived - read >= BufSize
        /\ read' = read + BufSize /\ UNCHANGED <<pc, eof, err>>
     \/ /\ Feed > arrived /\ ended # "open" /\ arrived - read < BufSize
        /\ read' = arrived
        /\ IF ended = "clean" THEN eof' = TRUE /\ pc' = "line" /\ UNCHANGED err ELSE ReadFails
  /\ UNCHANGED <<wire, body, start, seen>>

\* What decodeStreamLine makes of pending: half a line is never JSON, and a line without
\* text is never handed to it.
Number == start \div Unit + 1
decodeStreamLine ==
  IF read = start \/ lines[Number] = "blank" THEN "blank"
  ELSE IF read = start + 1 THEN "garbage"
  ELSE lines[Number]

\* where the loop of Lines goes on: the next line, or its end
Onward == pc' = IF eof THEN "defer" ELSE "read"

Skip ==
  /\ pc = "line"
  /\ decodeStreamLine \in {"blank", "unknown"}
  /\ Onward /\ start' = read
  /\ UNCHANGED <<wire, body, read, eof, seen, err>>

YieldEvent ==
  /\ pc = "line" /\ decodeStreamLine \in Visible
  /\ seen' = seen \union {Number}
  /\ pc' = "loop"
  /\ UNCHANGED <<wire, body, start, read, eof, err>>

YieldError ==
  /\ pc = "line"
  /\ \/ decodeStreamLine = "garbage" /\ Fails("decode")
     \/ decodeStreamLine = "error" /\ Fails("inband")
  /\ UNCHANGED <<wire, body, start, read, eof, seen>>

\* The caller's loop body ends: it goes on, or leaves by break, return or panic.
Continue ==
  /\ pc = "loop"
  /\ Onward /\ start' = read
  /\ UNCHANGED <<wire, body, read, eof, seen, err>>

Leave ==
  /\ pc = "loop"
  /\ pc' = "defer" /\ err' = "left"
  /\ UNCHANGED <<wire, body, start, read, eof, seen>>

\* the body stays open when the caller left
FaultyClose ==
  /\ pc = "defer"
  /\ body' = IF body = "open" /\ err # "left" THEN "closed" ELSE body
  /\ pc' = "done"
  /\ UNCHANGED <<wire, start, read, eof, seen, err>>

\* defer resp.Body.Close()
Close ==
  /\ pc = "defer"
  /\ body' = IF body = "open" THEN "closed" ELSE body
  /\ pc' = "done"
  /\ UNCHANGED <<wire, start, read, eof, seen, err>>

Next ==
  \/ Arrive \/ (\E how \in {"clean", "error"} : BodyEnds(how))
  \/ Open \/ ReadSlice \/ Skip \/ YieldEvent \/ YieldError \/ Continue \/ Leave \/ Close

Spec == Init /\ [][Next]_vars

-----------------------------------------------------------------------------
(* Properties. *)

\* a line whose text has arrived
Arrived(i) == arrived >= Unit * (i - 1) + 2
Events == {i \in DOMAIN lines : lines[i] \in Visible}

\* The end of the loop says what became of the answer. Without an error it means the body
\* ended cleanly between lines and every event that arrived was seen, so that of a server which
\* ends a body with its stats the answer is complete exactly when they were seen.
\* A decode error means a line that is no event, or a body that ended inside a line without
\* a failed read: a failed read is reported as itself, never as the half line it left. An
\* in-band error is one the server sent, and is reported after all that came before it.
EndIsExplained ==
  pc = "done" =>
    /\ err = "none" => /\ ended = "clean"
                       /\ \A i \in DOMAIN lines : Arrived(i) => lines[i] \notin {"error", "garbage"}
                       /\ seen = {i \in Events : Arrived(i)}
    /\ err = "decode" => lines[Number] = "garbage" \/ ended = "clean"
    /\ err = "inband" => lines[Number] = "error" /\ Arrived(Number) /\ seen = {i \in Events : i < Number}
    /\ err = "read" => ended = "error" /\ seen = {i \in Events : Unit * i <= arrived}

\* A range implements the contract of a result stream: what is seen is the events that
\* arrived, in order and without gaps, nothing is seen after an error or after the caller
\* left, and resp.Body is closed on every way out.
Contract == INSTANCE RecordStream WITH
  Positions <- 1..MaxLines,
  items <- Events,
  arrived <- {i \in Events : Arrived(i)},
  verdict <- CASE err = "none" -> (IF pc \in {"defer", "done"} THEN "end" ELSE "none")
               [] err = "left" -> "left"
               [] OTHER -> "error",
  held <- body = "open",
  returned <- pc = "done"

ContractSpec == Contract!Spec
=============================================================================
