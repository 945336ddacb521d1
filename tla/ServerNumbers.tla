---------------------------- MODULE ServerNumbers ----------------------------
(***************************************************************************)
(* The numbers the Go HTTP driver reads out of a failed answer (errors.go, *)
(* stream.go, batch.go, timeseries.go): Retry-After and the commit index   *)
(* of a header, a text of digits; status, retryAfter, commitIndex, written *)
(* and dropped of a JSON object, which encoding/json decodes into float64. *)
(* The widths are parameters: TLC cannot enumerate an int64 of 64 bits,    *)
(* and every edge is where the widths meet.                                *)
(***************************************************************************)
EXTENDS GoIntegers

CONSTANTS
  MaxInt32,     \* the largest int32: 2^31 - 1
  Exact,        \* a float64 holds every whole number below it: 2^53
  Powers,       \* what a mantissa is multiplied by: the powers of two up to 2^971
  Second,       \* time.Second, in units of a Duration: 1000000000
  MaxNumber     \* bound: the largest number the server sends

\* An int32 is a float64 without rounding, and some int64 is none; a Duration in whole
\* seconds is one.
ASSUME WidthsAssumption ==
  /\ MaxInt32 \in Nat /\ Exact \in Nat /\ MaxNumber \in Nat
  /\ MaxInt32 + 1 < Exact /\ Exact <= MaxInt64
  /\ Powers \subseteq Nat \ {0} /\ {1, 2} \subseteq Powers
  /\ Second \in Nat \ {0} /\ MaxInt64 \div Second < Exact

ASSUME EvenAssumption == Exact % 2 = 0 /\ Second % 2 = 0

Absent == [ok |-> FALSE, n |-> 0]
Present(n) == [ok |-> TRUE, n |-> n]

-----------------------------------------------------------------------------
(* float64 *)

\* the floats that are whole and not negative
WholeFloats == {m * p : m \in 0..(Exact - 1), p \in Powers}

Distance(a, b) == IF a > b THEN a - b ELSE b - a

\* the floats a whole number may be rounded to: two at most, when it lies halfway
Nearest(n) ==
  IF n < 0 THEN {n}
  ELSE {f \in WholeFloats : \A g \in WholeFloats : Distance(n, f) <= Distance(n, g)}

\* Go leaves a conversion that does not fit to the platform: the least int64 on amd64, the
\* largest on arm64.
Int64(f) == IF f <= MaxInt64 THEN {f} ELSE {MinInt64, MaxInt64}

\* 2^63: a float64, which int64 does not hold, and what the largest int64 is rounded to
Edge == MaxInt64 + 1

ASSUME EdgeAssumption == Nearest(MaxInt64) = {Edge}

-----------------------------------------------------------------------------
(* errors.go *)

\* a text of digits, read as a base-10 int64
parseNonNegative(digits) == IF digits.text \/ digits.n > MaxInt64 THEN Absent ELSE Present(digits.n)

\* The limit math.MaxInt64 is itself converted to a float64. f is what a whole number was
\* rounded to; fraction says that the number was none.
jsonNonNegative(f, fraction) ==
  IF fraction \/ f < 0 \/ (\E limit \in Nearest(MaxInt64) : f > limit)
  THEN {Absent}
  ELSE {Present(n) : n \in Int64(f)}

\* Faulty: the width of an int32 is not looked at.
inBandStatusUnbounded(v, fallback) == IF v.ok /\ v.n > 0 THEN v.n ELSE fallback

inBandStatus(v, fallback) == IF v.ok /\ v.n > 0 /\ v.n <= MaxInt32 THEN v.n ELSE fallback

secondsDuration(n) == IF n > MaxInt64 \div Second THEN MaxInt64 ELSE Wrap(n * Second)

-----------------------------------------------------------------------------
VARIABLES
  field,    \* the field read, "none" before
  number,   \* what the server sent: a number, whether it has a fraction, whether it is text
  value     \* what the error carries of it

numberVars == <<field, number, value>>

Fallback == -1
\* a float64 keeps no fraction of a larger number
Numbers == {m \in [n : (-1)..MaxNumber, fraction : BOOLEAN, text : BOOLEAN] :
              m.fraction => m.n < Exact \div 2}

NumberInit == field = "none" /\ number = [n |-> 0, fraction |-> FALSE, text |-> FALSE] /\ value = 0

Reads(f, m) == field' = f /\ number' = m

\* errorFromHeaders: a minus sign or a fraction is no digit
Header(m) ==
  LET parsed == parseNonNegative([m EXCEPT !.text = m.text \/ m.fraction \/ m.n < 0]) IN
  \/ Reads("Retry-After", m) /\ value' = IF parsed.ok THEN secondsDuration(parsed.n) ELSE 0
  \/ Reads("Commit-Index", m) /\ value' = parsed.n

\* a number of a JSON object; a string is none
Parsed(m) ==
  IF m.text THEN {Absent} ELSE UNION {jsonNonNegative(f, m.fraction) : f \in Nearest(m.n)}

StatusAndWait(m, v) ==
  \/ Reads("status", m) /\ value' = inBandStatus(v, Fallback)
  \/ Reads("retryAfter", m) /\ value' = IF v.ok THEN secondsDuration(v.n) ELSE 0

\* an error of a result stream, of a batch stream (with its fallback and a commit index) and
\* of a time-series write (written, dropped)
StreamError(m) == \E v \in Parsed(m) : StatusAndWait(m, v)
BatchError(m) ==
  \E v \in Parsed(m) : StatusAndWait(m, v) \/ (Reads("commitIndex", m) /\ value' = v.n)
WriteError(m) == \E v \in Parsed(m) : Reads("written", m) /\ value' = v.n

NextAnswer ==
  /\ field # "none" /\ field' = "none"
  /\ number' = [n |-> 0, fraction |-> FALSE, text |-> FALSE] /\ value' = 0

NumberNext == NextAnswer \/ (field = "none" /\ \E m \in Numbers : Header(m) \/ StreamError(m) \/ BatchError(m) \/ WriteError(m))

-----------------------------------------------------------------------------
Usable == ~number.text /\ ~number.fraction /\ number.n >= 0
Capped(n) == IF n > MaxInt64 THEN MaxInt64 ELSE n

\* What is read of a whole JSON number: below 2^53 the number, from there on the float64
\* nearest to it, and nothing above 2^63. A number that is rounded to 2^63 itself passes the
\* limit and is converted as the platform does it.
JsonNumber(n) ==
  UNION {CASE f <= MaxInt64 -> {f}
           [] f = Edge -> {MinInt64, MaxInt64}
           [] f > Edge -> {0} : f \in Nearest(n)}

\* What an error carries of each field (errors.go:160-213). A status is the server's in the
\* range of an int32, and nothing else is one. A wait of a header is as long as the server
\* asked or, when no Duration is that long, the longest one, never a short or negative one
\* by wrap-around; a header's index is exact. A wait of a JSON object too, except that from
\* 2^63 on it may be none. An index or a count of one is exact below 2^53, the nearest float64
\* from there on, 0 above 2^63, and for what is rounded to 2^63 the largest or the least
\* int64, a negative one, by the platform.
NumberIsServers ==
  /\ field = "status" =>
       value = IF Usable /\ number.n \in 1..MaxInt32 THEN number.n ELSE Fallback
  /\ field = "Retry-After" =>
       value = IF Usable /\ number.n <= MaxInt64 THEN Capped(number.n * Second) ELSE 0
  /\ field = "retryAfter" =>
       /\ Usable /\ number.n < Exact => value = Capped(number.n * Second)
       /\ Usable /\ number.n >= Exact =>
            \/ value = MaxInt64 /\ \E f \in Nearest(number.n) : f <= Edge
            \/ value = 0 /\ \E f \in Nearest(number.n) : f >= Edge
       /\ ~Usable => value = 0
  /\ field = "Commit-Index" => value = IF Usable /\ number.n <= MaxInt64 THEN number.n ELSE 0
  /\ field \in {"commitIndex", "written"} =>
       /\ Usable /\ number.n < Exact => value = number.n
       /\ Usable /\ number.n >= Exact => value \in JsonNumber(number.n)
       /\ ~Usable => value = 0

\* What the comments say of the numbers of a JSON object (errors.go:185, batch.go:331-332,
\* timeseries.go:84): a non-negative whole number is read, and anything else is left at 0.
CountIsNeverNegative == field \in {"commitIndex", "written"} => value >= 0
=============================================================================
