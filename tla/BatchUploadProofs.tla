-------------------------- MODULE BatchUploadProofs --------------------------
(***************************************************************************)
(* Proofs about BatchUpload, for sequences, rows and buffers of every      *)
(* size: the inductive invariant Inv below, and from it the properties the *)
(* run checks.                                                             *)
(***************************************************************************)
EXTENDS BatchUpload, TLAPS

(* The inductive invariant. *)

Total == Len(vertices) + Len(edges)

\* Nothing follows a row that is not ok.
RowsInv == \A i \in 1..Total : i < Total => Row(i) = "ok"

\* The writer works through good rows until something ends it, and says what
\* did; only then does it close the pipe, as a failure unless it is through.
WriterInv ==
  /\ at <= Total
  /\ wpc \in {"iterate", "fill", "blocked"} => werr = None /\ pclosed = None
  /\ wpc = "close" => pclosed = None
  /\ werr = None => \A i \in 1..at : Row(i) = "ok"
  /\ werr \in {"bad", "goexit", "panic"} => at \in 1..Total /\ Row(at) = werr
  /\ wpc \in {"close", "send", "ended"} /\ werr = None => at = Total /\ cur = <<>> /\ wbuf = <<>>
  /\ pclosed = "eof" => werr = None
  /\ pclosed # None => wpc \in {"send", "ended"}
  /\ pipe # <<>> => wpc = "blocked"
  /\ wbuf # <<>> => wpc # "blocked"
  /\ wpc = "iterate" => cur = <<>>

\* x is the unit at position k of a body that holds the rows W.
Placed(W, x, k) == \E i \in W : \E u \in 1..Size(i) : x = <<i, u>> /\ k = RowEnds[i - 1] + u
Follows(W, s, base) == \A k \in 1..Len(s) : Placed(W, s[k], base + k)

\* What was sent, what is offered, what is buffered and the rest of the row
\* follow each other in the body, and are all of the rows taken.
StreamInv ==
  /\ Follows(Wanted, wire, 0)
  /\ werr = None =>
       /\ Follows(Wanted, pipe, Len(wire))
       /\ Follows(Wanted, wbuf, Len(wire) + Len(pipe))
       /\ Follows(Wanted, cur, Len(wire) + Len(pipe) + Len(wbuf))
       /\ Len(wire) + Len(pipe) + Len(wbuf) + Len(cur) = RowEnds[at]

\* The body is complete only after EOF, and the transport says so only early
\* or then; a clean answer was read to its end.
AnswerInv ==
  /\ sent = "complete" => pclosed = "eof"
  /\ body = "eof" /\ ~early => sent = "complete"
  /\ cause = "clean" => body = "eof"
  /\ ret = "ok" => cause = "clean" /\ pc \in {"deferred", "done"}

\* The call leaves stop with the writer's own failure, raised once.
JoinInv ==
  /\ pc \in {"deferred", "done"} =>
       /\ wpc = "ended"
       /\ cause # "break" /\ werr \in {"bad", "goexit"} => ret = werr
       /\ raised = (IF werr = "panic" THEN 1 ELSE 0)
  /\ pc \notin {"deferred", "done"} => raised = 0 /\ ret = None

Inv == TypeOK /\ RowsInv /\ WriterInv /\ StreamInv /\ AnswerInv /\ JoinInv

-----------------------------------------------------------------------------
(* Rows, units and their places. *)

LEMMA RowsAreSequences ==
  ASSUME NEW r \in Rows
  PROVE  r \in Seq(RowKinds) /\ Len(r) \in 0..MaxRows /\ DOMAIN r = 1..Len(r)
  <1>1. PICK n \in 0..MaxRows : r \in [1..n -> RowKinds]
    BY DEF Rows
  <1>2. n \in Nat
    BY <1>1, SizesAssumption
  <1> QED BY <1>1, <1>2

\* A row number has two rows' bounds; its kind is one of the kinds.
LEMMA RowOfNumber ==
  ASSUME vertices \in Rows, edges \in Rows
  PROVE  /\ Total \in 0..(2 * MaxRows) /\ Len(vertices) \in Nat /\ Len(edges) \in Nat
         /\ \A i \in 1..Total : Row(i) \in RowKinds
  <1>1. /\ vertices \in Seq(RowKinds) /\ Len(vertices) \in 0..MaxRows
        /\ edges \in Seq(RowKinds) /\ Len(edges) \in 0..MaxRows
    BY RowsAreSequences
  <1>2. Total \in 0..(2 * MaxRows) /\ Len(vertices) \in Nat /\ Len(edges) \in Nat
    BY <1>1, SizesAssumption DEF Total
  <1>3. ASSUME NEW i \in 1..Total PROVE Row(i) \in RowKinds
    <2>1. CASE i <= Len(vertices)
      BY <1>1, <1>2, <1>3, <2>1 DEF Row, Total
    <2>2. CASE ~(i <= Len(vertices))
      <3>1. i - Len(vertices) \in 1..Len(edges)
        BY <1>2, <1>3, <2>2 DEF Total
      <3> QED BY <1>1, <2>2, <3>1 DEF Row
    <2> QED BY <2>1, <2>2
  <1> QED BY <1>2, <1>3

LEMMA RowSize ==
  ASSUME NEW i \in 1..(2 * MaxRows)
  PROVE  /\ Size(i) \in Nat \ {0} /\ RowEnds[i] \in Nat /\ RowEnds[i - 1] \in Nat
         /\ RowEnds[i] = RowEnds[i - 1] + Size(i)
  <1>1. i \in 0..(2 * MaxRows) /\ i - 1 \in 0..(2 * MaxRows) /\ i - 1 < i
    BY SizesAssumption
  <1>2. RowEnds[i] \in Nat /\ RowEnds[i - 1] \in Nat /\ RowEnds[i - 1] < RowEnds[i]
    BY <1>1, SizesAssumption
  <1> QED BY <1>2 DEF Size

LEMMA EncodedRow ==
  ASSUME NEW i \in 1..(2 * MaxRows)
  PROVE  /\ Encoded(i) \in Seq(Units) /\ Len(Encoded(i)) = Size(i)
         /\ \A u \in 1..Size(i) : Encoded(i)[u] = <<i, u>>
  <1>1. Encoded(i) \in [1..Size(i) -> Units] /\ Size(i) \in Nat
    BY RowSize DEF Encoded, Units
  <1>2. \A u \in 1..Size(i) : Encoded(i)[u] = <<i, u>>
    BY DEF Encoded
  <1>3. DOMAIN Encoded(i) = 1..Size(i)
    BY DEF Encoded
  <1> QED BY <1>1, <1>2, <1>3

LEMMA EmptyUnits ==
  <<>> \in Seq(Units) /\ Len(<<>>) = 0 /\ (\A s \in Seq(Units) : Len(s) = 0 <=> s = <<>>)
  OBVIOUS

\* Two pieces that follow each other are one.
LEMMA FollowsConcat ==
  ASSUME NEW W, NEW s \in Seq(Units), NEW t \in Seq(Units), NEW b \in Nat,
         Follows(W, s, b), Follows(W, t, b + Len(s))
  PROVE  /\ s \o t \in Seq(Units) /\ Len(s \o t) = Len(s) + Len(t)
         /\ Follows(W, s \o t, b)
  <1>1. s \o t \in Seq(Units) /\ Len(s \o t) = Len(s) + Len(t)
    OBVIOUS
  <1>2. ASSUME NEW k \in 1..Len(s \o t) PROVE Placed(W, (s \o t)[k], b + k)
    <2>1. CASE k <= Len(s)
      <3>1. (s \o t)[k] = s[k] /\ k \in 1..Len(s)
        BY <1>1, <2>1
      <3> QED BY <3>1 DEF Follows
    <2>2. CASE ~(k <= Len(s))
      <3>1. (s \o t)[k] = t[k - Len(s)] /\ k - Len(s) \in 1..Len(t)
        BY <1>1, <2>2
      <3>2. b + k = (b + Len(s)) + (k - Len(s))
        BY <1>1
      <3> QED BY <3>1, <3>2 DEF Follows
    <2> QED BY <2>1, <2>2
  <1> QED BY <1>1, <1>2 DEF Follows

\* A piece cut in two is two that follow each other.
LEMMA FollowsCut ==
  ASSUME NEW W, NEW s \in Seq(Units), NEW n \in 0..Len(s), NEW b \in Nat, Follows(W, s, b)
  PROVE  /\ SubSeq(s, 1, n) \in Seq(Units) /\ Len(SubSeq(s, 1, n)) = n
         /\ SubSeq(s, n + 1, Len(s)) \in Seq(Units) /\ Len(SubSeq(s, n + 1, Len(s))) = Len(s) - n
         /\ Follows(W, SubSeq(s, 1, n), b) /\ Follows(W, SubSeq(s, n + 1, Len(s)), b + n)
  <1>1. /\ SubSeq(s, 1, n) \in Seq(Units) /\ Len(SubSeq(s, 1, n)) = n
        /\ \A k \in 1..n : SubSeq(s, 1, n)[k] = s[k]
    OBVIOUS
  <1>2. /\ SubSeq(s, n + 1, Len(s)) \in Seq(Units) /\ Len(SubSeq(s, n + 1, Len(s))) = Len(s) - n
        /\ \A k \in 1..(Len(s) - n) : SubSeq(s, n + 1, Len(s))[k] = s[n + k]
    OBVIOUS
  <1>3. Follows(W, SubSeq(s, 1, n), b)
    BY <1>1 DEF Follows
  <1>4. ASSUME NEW k \in 1..Len(SubSeq(s, n + 1, Len(s)))
        PROVE  Placed(W, SubSeq(s, n + 1, Len(s))[k], (b + n) + k)
    <2>1. n + k \in 1..Len(s) /\ b + (n + k) = (b + n) + k
      BY <1>2
    <2> QED BY <1>2, <2>1 DEF Follows
  <1> QED BY <1>1, <1>2, <1>3, <1>4 DEF Follows

LEMMA FollowsEmpty == ASSUME NEW W, NEW b PROVE Follows(W, <<>>, b)
  BY DEF Follows

\* The last unit of a row is the last of no other.
LEMMA OneRow ==
  ASSUME NEW i \in 1..(2 * MaxRows), NEW j \in 1..(2 * MaxRows), NEW u \in 1..Size(j),
         RowEnds[i] = RowEnds[j - 1] + u
  PROVE  j = i /\ u = Size(i)
  <1>1. MaxRows \in Nat /\ j - 1 \in 0..(2 * MaxRows) /\ i \in 0..(2 * MaxRows) /\ j \in 0..(2 * MaxRows)
    BY SizesAssumption
  <1>2. RowEnds[i] \in Nat /\ RowEnds[j] \in Nat /\ RowEnds[j - 1] \in Nat
    BY <1>1, SizesAssumption
  <1>3. u \in Int /\ 1 <= u /\ u <= RowEnds[j] - RowEnds[j - 1]
    BY <1>2 DEF Size
  <1>4. ~(i < j)
    <2>1. i < j => i = j - 1 \/ RowEnds[i] < RowEnds[j - 1]
      BY <1>1, SizesAssumption
    <2> QED BY <1>2, <1>3, <2>1
  <1>5. ~(j < i)
    <2>1. j < i => RowEnds[j] < RowEnds[i]
      BY <1>1, SizesAssumption
    <2> QED BY <1>2, <1>3, <2>1
  <1>6. j = i
    BY <1>4, <1>5
  <1> QED BY <1>2, <1>3, <1>6 DEF Size

-----------------------------------------------------------------------------
(* The parts of the type invariant. *)

RowType == mode \in {"load", "stream"} /\ vertices \in Rows /\ edges \in Rows

WriterType ==
  /\ wpc \in {"iterate", "fill", "blocked", "close", "send", "ended"} /\ at \in 0..(2 * MaxRows)
  /\ werr \in {None, "bad", "panic", "goexit", "closed"} /\ pclosed \in {None, "eof", "error"}

UnitsType ==
  /\ cur \in Seq(Units) /\ wbuf \in Seq(Units) /\ pipe \in Seq(Units) /\ wire \in Seq(Units)
  /\ Len(wbuf) <= BufCap

NetType ==
  /\ sent \in {"sending", "complete", "broken"} /\ resp \in {None, "failed", "2xx", "non2xx"}
  /\ body \in {"open", "eof", "cut"}

CallType ==
  /\ pc \in {"do", "read", "stop", "join", "deferred", "done"}
  /\ cause \in {None, "clean", "break", "transport", "status", "body", "decode", "inband"}
  /\ raised \in 0..2 /\ ret \in Results

FlagType == rclosed \in BOOLEAN /\ early \in BOOLEAN

LEMMA TypeParts == TypeOK <=> RowType /\ WriterType /\ UnitsType /\ NetType /\ CallType /\ FlagType
  BY Zenon DEF TypeOK, RowType, WriterType, UnitsType, NetType, CallType, FlagType

LEMMA NextTypeParts == TypeOK' <=> RowType' /\ WriterType' /\ UnitsType' /\ NetType' /\ CallType' /\ FlagType'
  BY Zenon DEF TypeOK, RowType, WriterType, UnitsType, NetType, CallType, FlagType

\* The numbers the writer's steps compare.
LEMMA Sizes ==
  ASSUME UnitsType
  PROVE  /\ Len(cur) \in Nat /\ Len(wbuf) \in Nat /\ Len(pipe) \in Nat /\ Len(wire) \in Nat
         /\ BufCap - Len(wbuf) \in Nat /\ BufCap \in Nat \ {0}
  BY SizesAssumption DEF UnitsType

\* The caller's rows do not change.
LEMMA SameRows ==
  ASSUME vertices' = vertices, edges' = edges
  PROVE  /\ Total' = Total /\ Wanted' = Wanted
         /\ \A i : Row(i)' = Row(i)
         /\ RowsInv => RowsInv'
  <1>1. Total' = Total
    BY DEF Total
  <1>2. \A i : Row(i)' = Row(i)
    BY DEF Row
  <1>3. Wanted' = Wanted
    BY DEF Wanted, Row
  <1>4. RowsInv => RowsInv'
    BY <1>1 DEF RowsInv, Row
  <1> QED BY <1>1, <1>2, <1>3, <1>4

LEMMA InitInv == Init => Inv
  <1> SUFFICES ASSUME Init PROVE Inv
    OBVIOUS
  <1>1. vertices \in Rows /\ edges \in Rows /\ at = 0 /\ cur = <<>> /\ wbuf = <<>> /\ pipe = <<>> /\ wire = <<>>
    BY DEF Init
  <1>2. /\ vertices \in Seq(RowKinds) /\ edges \in Seq(RowKinds)
        /\ DOMAIN vertices = 1..Len(vertices) /\ DOMAIN edges = 1..Len(edges)
        /\ Total \in 0..(2 * MaxRows) /\ Len(vertices) \in Nat /\ Len(edges) \in Nat
    BY <1>1, RowsAreSequences, RowOfNumber
  <1>3. MaxRows \in Nat /\ RowEnds[0] = 0 /\ BufCap \in Nat /\ 0 \in 0..(2 * MaxRows)
    BY SizesAssumption
  <1>4. UnitsType
    BY <1>1, <1>3, EmptyUnits DEF UnitsType
  <1>5. RowType /\ WriterType /\ NetType
    BY <1>3 DEF Init, RowType, WriterType, NetType, None
  <1>6. CallType
    BY DEF Init, CallType, None, Results
  <1>7. FlagType
    BY Zenon DEF Init, FlagType
  <1>8. TypeOK
    BY <1>4, <1>5, <1>6, <1>7, TypeParts
  <1>9. RowsInv
    <2> SUFFICES ASSUME NEW i \in 1..Total, i < Total PROVE Row(i) = "ok"
      BY DEF RowsInv
    <2>1. CASE i <= Len(vertices)
      <3>1. i \in DOMAIN vertices /\ ~(i = Len(vertices) /\ edges = <<>>)
        <4>1. i \in Nat /\ 1 <= i /\ i < Len(vertices) + Len(edges)
          BY <1>2 DEF Total
        <4>2. i = Len(vertices) => Len(edges) # 0
          BY <1>2, <4>1
        <4>3. i \in DOMAIN vertices
          BY <1>2, <2>1, <4>1
        <4>4. edges = <<>> => Len(edges) = 0
          OBVIOUS
        <4> QED BY <4>2, <4>3, <4>4, Zenon
      <3>2. i \notin Faulty(vertices)
        BY <3>1 DEF Init
      <3> QED BY <2>1, <3>1, <3>2 DEF Faulty, Row
    <2>2. CASE ~(i <= Len(vertices))
      <3>1. i - Len(vertices) \in DOMAIN edges /\ i - Len(vertices) # Len(edges)
        BY <1>2, <2>2 DEF Total
      <3>2. i - Len(vertices) \notin Faulty(edges)
        BY <3>1 DEF Init
      <3> QED BY <2>2, <3>1, <3>2 DEF Faulty, Row
    <2> QED BY <2>1, <2>2
  <1>10. WriterInv
    <2>1. at <= Total /\ (\A i \in 1..at : Row(i) = "ok")
      BY <1>1, <1>2
    <2> QED BY <1>1, <2>1 DEF Init, WriterInv, None
  <1>11. StreamInv
    BY <1>1, <1>3, EmptyUnits, FollowsEmpty DEF StreamInv
  <1>12. AnswerInv /\ JoinInv
    BY DEF Init, AnswerInv, JoinInv, None
  <1> QED BY <1>8, <1>9, <1>10, <1>11, <1>12 DEF Inv

-----------------------------------------------------------------------------
(* The writer's steps. *)

\* What a step of the writer leaves alone.
LEMMA WriterFrame ==
  ASSUME Inv, writerFrame
  PROVE  /\ RowType' /\ NetType' /\ CallType' /\ FlagType' /\ RowsInv'
         /\ Total' = Total /\ Wanted' = Wanted /\ (\A i : Row(i)' = Row(i))
         /\ wire' = wire /\ sent' = sent /\ body' = body /\ early' = early
         /\ pc' = pc /\ cause' = cause /\ raised' = raised /\ ret' = ret
  <1>1. /\ vertices' = vertices /\ edges' = edges /\ mode' = mode /\ rclosed' = rclosed
        /\ wire' = wire /\ sent' = sent /\ resp' = resp /\ body' = body /\ early' = early
        /\ pc' = pc /\ cause' = cause /\ raised' = raised /\ ret' = ret
    BY DEF writerFrame, net, call
  <1>2. RowType /\ NetType /\ CallType /\ FlagType /\ RowsInv
    BY TypeParts DEF Inv
  <1>3. RowType' /\ NetType' /\ CallType'
    BY <1>1, <1>2 DEF RowType, NetType, CallType
  <1>4. FlagType'
    BY <1>1, <1>2, Zenon DEF FlagType
  <1> QED BY <1>1, <1>2, <1>3, <1>4, SameRows

\* The answer and the joined call keep what they say while the writer goes on.
LEMMA WriterAnswer ==
  ASSUME Inv, writerFrame, wpc # "ended", pclosed' = pclosed \/ sent # "complete"
  PROVE  AnswerInv' /\ JoinInv'
  <1>1. AnswerInv /\ JoinInv
    BY DEF Inv
  <1>2. /\ sent' = sent /\ body' = body /\ early' = early
        /\ pc' = pc /\ cause' = cause /\ raised' = raised /\ ret' = ret
    BY WriterFrame
  <1>3. AnswerInv'
    BY <1>1, <1>2 DEF AnswerInv
  <1>4. JoinInv'
    BY <1>1, <1>2 DEF JoinInv
  <1> QED BY <1>3, <1>4

LEMMA NextRowStep == ASSUME Inv, NextRow PROVE Inv'
  <1>1. /\ wpc = "iterate" /\ at < Len(vertices) + Len(edges) /\ at' = at + 1
        /\ wbuf' = wbuf /\ pipe' = pipe /\ pclosed' = pclosed /\ writerFrame
        /\ \/ /\ Row(at') = "ok" /\ cur' = Encoded(at') /\ wpc' = "fill" /\ werr' = werr
           \/ /\ Row(at') # "ok" /\ werr' = Row(at') /\ wpc' = "close" /\ cur' = cur
    BY DEF NextRow
  <1>2. RowType /\ WriterType /\ UnitsType /\ RowsInv /\ WriterInv /\ StreamInv
    BY TypeParts DEF Inv
  <1>3. /\ RowType' /\ NetType' /\ CallType' /\ FlagType' /\ RowsInv'
        /\ Total' = Total /\ Wanted' = Wanted /\ wire' = wire /\ (\A i : Row(i)' = Row(i))
    BY <1>1, WriterFrame
  <1>4. AnswerInv' /\ JoinInv'
    BY <1>1, WriterAnswer
  <1>5. PICK n \in 1..(2 * MaxRows) : n = at' /\ n = at + 1 /\ n \in 1..Total /\ Row(n) \in RowKinds
    <2>1. vertices \in Rows /\ edges \in Rows /\ at \in Nat
      BY <1>2, SizesAssumption DEF RowType, WriterType
    <2>2. Total \in 0..(2 * MaxRows) /\ (\A i \in 1..Total : Row(i) \in RowKinds)
      BY <2>1, RowOfNumber
    <2>3. at + 1 \in 1..Total /\ Total <= 2 * MaxRows
      BY <1>1, <2>1, <2>2, SizesAssumption DEF Total
    <2>4. at + 1 \in 1..(2 * MaxRows)
      BY <2>1, <2>2, <2>3, SizesAssumption
    <2> QED BY <1>1, <2>2, <2>3, <2>4
  <1>6. werr = None /\ pclosed = None /\ cur = <<>> /\ pipe = <<>> /\ (\A i \in 1..at : Row(i) = "ok")
    BY <1>1, <1>2 DEF WriterInv
  <1>7. CASE Row(n) = "ok" /\ cur' = Encoded(n) /\ wpc' = "fill" /\ werr' = werr
    <2>1. /\ Encoded(n) \in Seq(Units) /\ Len(Encoded(n)) = Size(n)
          /\ \A u \in 1..Size(n) : Encoded(n)[u] = <<n, u>>
      BY EncodedRow
    <2>2. WriterType' /\ UnitsType'
      <3>1. WriterType'
        BY <1>1, <1>2, <1>5, <1>7 DEF WriterType
      <3>2. UnitsType'
        BY <1>1, <1>2, <1>3, <1>7, <2>1 DEF UnitsType
      <3> QED BY <3>1, <3>2
    <2>3. WriterInv'
      <3>1. \A i \in 1..n : Row(i) = "ok"
        BY <1>2, <1>5, <1>6, <1>7 DEF WriterType
      <3>2. \A i \in 1..at' : Row(i)' = "ok"
        BY <1>3, <1>5, <3>1
      <3>3. at' <= Total'
        BY <1>3, <1>5
      <3> QED BY <1>1, <1>6, <1>7, <3>2, <3>3 DEF WriterInv, None
    <2>4. StreamInv'
      <3>1. /\ Len(cur) = 0 /\ Len(pipe) = 0 /\ Len(wbuf) \in Nat /\ Len(wire) \in Nat
            /\ at \in Nat /\ Size(n) \in Nat /\ RowEnds[at] \in Nat /\ RowEnds[n] = RowEnds[at] + Size(n)
            /\ n - 1 = at
        <4>1. at \in Nat /\ n - 1 = at
          BY <1>2, <1>5, SizesAssumption DEF WriterType
        <4> QED BY <1>2, <1>6, <4>1, Sizes, EmptyUnits, RowSize
      <3>2. Len(wire) + Len(pipe) + Len(wbuf) = RowEnds[at]
        BY <1>2, <1>6, <3>1 DEF StreamInv
      <3>4. n \in Wanted
        BY <1>5, <1>7 DEF Wanted, Total
      <3>5. Follows(Wanted, Encoded(n), RowEnds[at])
        <4> SUFFICES ASSUME NEW k \in 1..Size(n) PROVE Placed(Wanted, Encoded(n)[k], RowEnds[at] + k)
          BY <2>1 DEF Follows
        <4> QED BY <2>1, <3>1, <3>4 DEF Placed
      <3>6. /\ Follows(Wanted, wire, 0) /\ Follows(Wanted, pipe, Len(wire))
            /\ Follows(Wanted, wbuf, Len(wire) + Len(pipe))
        BY <1>2, <1>6 DEF StreamInv
      <3>7. Len(wire) + Len(pipe) + Len(wbuf) + Size(n) = RowEnds[n]
        BY <3>1, <3>2
      <3> QED BY <1>1, <1>3, <1>5, <1>7, <2>1, <3>2, <3>5, <3>6, <3>7 DEF StreamInv
    <2> QED BY <1>3, <1>4, <2>2, <2>3, <2>4, NextTypeParts DEF Inv
  <1>8. CASE Row(n) # "ok" /\ werr' = Row(n) /\ wpc' = "close" /\ cur' = cur
    <2>1. Row(n) \in {"bad", "panic", "goexit"}
      BY <1>5, <1>8 DEF RowKinds
    <2>2. WriterType'
      BY <1>1, <1>2, <1>5, <1>8, <2>1 DEF WriterType
    <2>3. UnitsType'
      BY <1>1, <1>2, <1>3, <1>8 DEF UnitsType
    <2>4. WriterInv'
      <3>1. at' \in 1..Total' /\ Row(at)' = werr' /\ werr' # None
        BY <1>3, <1>5, <1>8, <2>1 DEF None
      <3>2. at' <= Total'
        BY <1>3, <1>5
      <3>3. \A i : werr' = None => Row(i)' = "ok"
        BY <3>1
      <3> QED BY <1>1, <1>6, <1>8, <3>1, <3>2, <3>3 DEF WriterInv, None
    <2>5. StreamInv'
      BY <1>2, <1>3, <1>8, <2>1 DEF StreamInv, None
    <2> QED BY <1>3, <1>4, <2>2, <2>3, <2>4, <2>5, NextTypeParts DEF Inv
  <1> QED BY <1>1, <1>5, <1>7, <1>8

LEMMA FillBufferStep == ASSUME Inv, FillBuffer PROVE Inv'
  <1>1. /\ wpc = "fill" /\ at' = at /\ werr' = werr /\ pclosed' = pclosed /\ writerFrame
        /\ \/ /\ Len(cur) <= BufCap - Len(wbuf)
              /\ wbuf' = wbuf \o cur /\ cur' = <<>> /\ wpc' = "iterate" /\ pipe' = pipe
           \/ /\ Len(cur) > BufCap - Len(wbuf) /\ wpc' = "blocked"
              /\ pipe' = wbuf \o SubSeq(cur, 1, BufCap - Len(wbuf)) /\ wbuf' = <<>>
              /\ cur' = SubSeq(cur, BufCap - Len(wbuf) + 1, Len(cur))
           \/ /\ wbuf = <<>> /\ wbuf' = wbuf /\ wpc' = "blocked"
              /\ pipe' = cur /\ cur' = <<>>
    BY DEF FillBuffer
  <1>2. RowType /\ WriterType /\ UnitsType /\ RowsInv /\ WriterInv /\ StreamInv
    BY TypeParts DEF Inv
  <1>3. /\ RowType' /\ NetType' /\ CallType' /\ FlagType' /\ RowsInv'
        /\ Total' = Total /\ Wanted' = Wanted /\ wire' = wire /\ (\A i : Row(i)' = Row(i))
    BY <1>1, WriterFrame
  <1>4. AnswerInv' /\ JoinInv'
    BY <1>1, WriterAnswer
  <1>5. /\ werr = None /\ pclosed = None /\ pipe = <<>> /\ at <= Total
        /\ \A i \in 1..at : Row(i) = "ok"
    BY <1>1, <1>2 DEF WriterInv
  <1>6. /\ Len(cur) \in Nat /\ Len(wbuf) \in Nat /\ Len(pipe) = 0 /\ Len(wire) \in Nat
        /\ BufCap - Len(wbuf) \in Nat
    BY <1>2, <1>5, Sizes, EmptyUnits
  <1>7. /\ Follows(Wanted, wire, 0) /\ Follows(Wanted, wbuf, Len(wire))
        /\ Follows(Wanted, cur, Len(wire) + Len(wbuf))
        /\ Len(wire) + Len(wbuf) + Len(cur) = RowEnds[at]
    BY <1>2, <1>5, <1>6 DEF StreamInv
  <1>8. cur \in Seq(Units) /\ wbuf \in Seq(Units) /\ pipe \in Seq(Units)
    BY <1>2 DEF UnitsType
  <1>9. WriterType'
    BY <1>1, <1>2 DEF WriterType
  <1>10. \A i \in 1..at' : Row(i)' = "ok"
    BY <1>1, <1>3, <1>5
  <1>11. CASE /\ Len(cur) <= BufCap - Len(wbuf)
              /\ wbuf' = wbuf \o cur /\ cur' = <<>> /\ wpc' = "iterate" /\ pipe' = pipe
    <2>1. /\ wbuf \o cur \in Seq(Units) /\ Len(wbuf \o cur) = Len(wbuf) + Len(cur)
          /\ Follows(Wanted, wbuf \o cur, Len(wire))
      BY <1>6, <1>7, <1>8, FollowsConcat
    <2>2. Len(wbuf) + Len(cur) <= BufCap
      BY <1>6, <1>11, SizesAssumption
    <2>3. UnitsType'
      BY <1>2, <1>3, <1>11, <2>1, <2>2, EmptyUnits DEF UnitsType
    <2>4. WriterInv'
      BY <1>1, <1>3, <1>5, <1>10, <1>11 DEF WriterInv, None
    <2>5. Follows(Wanted', pipe', Len(wire')) /\ Follows(Wanted', cur', Len(wire') + Len(pipe') + Len(wbuf'))
      BY <1>5, <1>11, FollowsEmpty
    <2>6. Len(wire') + Len(pipe') + Len(wbuf') + Len(cur') = RowEnds[at]'
      BY <1>1, <1>3, <1>6, <1>7, <1>11, <2>1, EmptyUnits
    <2>7. Follows(Wanted', wire', 0) /\ Follows(Wanted', wbuf', Len(wire') + Len(pipe'))
      BY <1>3, <1>6, <1>7, <1>11, <2>1
    <2>8. StreamInv'
      BY <2>5, <2>6, <2>7 DEF StreamInv
    <2> QED BY <1>3, <1>4, <1>9, <2>3, <2>4, <2>8, NextTypeParts DEF Inv
  <1>12. CASE /\ Len(cur) > BufCap - Len(wbuf) /\ wpc' = "blocked"
              /\ pipe' = wbuf \o SubSeq(cur, 1, BufCap - Len(wbuf)) /\ wbuf' = <<>>
              /\ cur' = SubSeq(cur, BufCap - Len(wbuf) + 1, Len(cur))
    <2>1. PICK room \in 0..Len(cur) : room = BufCap - Len(wbuf)
      BY <1>6, <1>12
    <2>2. PICK s, t : s = SubSeq(cur, 1, room) /\ t = SubSeq(cur, room + 1, Len(cur))
      OBVIOUS
    <2>3. PICK base \in Nat : base = Len(wire) + Len(wbuf)
      BY <1>6
    <2>4. /\ s \in Seq(Units) /\ Len(s) = room /\ t \in Seq(Units) /\ Len(t) = Len(cur) - room
          /\ Follows(Wanted, s, base) /\ Follows(Wanted, t, base + room)
      <3>1. cur \in Seq(Units) /\ room \in 0..Len(cur) /\ base \in Nat /\ Follows(Wanted, cur, base)
        BY <1>7, <1>8, <2>1, <2>3
      <3>2. s \in Seq(Units) /\ Len(s) = room /\ t \in Seq(Units) /\ Len(t) = Len(cur) - room
        BY <2>2, <3>1
      <3>3. Follows(Wanted, SubSeq(cur, 1, room), base)
        BY <3>1, FollowsCut
      <3>4. Follows(Wanted, SubSeq(cur, room + 1, Len(cur)), base + room)
        BY <3>1, FollowsCut
      <3> QED BY <2>2, <3>2, <3>3, <3>4, Zenon
    <2>5. room \in Nat /\ Len(wire) \in Nat /\ Follows(Wanted, s, Len(wire) + Len(wbuf))
      BY <1>6, <2>1, <2>3, <2>4
    <2>6. /\ wbuf \o s \in Seq(Units) /\ Len(wbuf \o s) = Len(wbuf) + room
          /\ Follows(Wanted, wbuf \o s, Len(wire))
      <3>1. /\ wbuf \in Seq(Units) /\ s \in Seq(Units) /\ Len(wire) \in Nat
            /\ Follows(Wanted, wbuf, Len(wire)) /\ Follows(Wanted, s, Len(wire) + Len(wbuf))
        BY <1>7, <1>8, <2>4, <2>5
      <3>2. Follows(Wanted, wbuf \o s, Len(wire))
        BY <3>1, FollowsConcat
      <3>3. wbuf \o s \in Seq(Units) /\ Len(wbuf \o s) = Len(wbuf) + Len(s)
        BY <3>1
      <3> QED BY <2>4, <3>2, <3>3
    <2>7. pipe' = wbuf \o s /\ wbuf' = <<>> /\ cur' = t
      BY <1>12, <2>1, <2>2
    <2>8. UnitsType'
      BY <1>2, <1>3, <2>4, <2>6, <2>7, EmptyUnits, SizesAssumption DEF UnitsType
    <2>9. WriterInv'
      BY <1>1, <1>3, <1>5, <1>10, <1>12 DEF WriterInv, None
    <2>10. Len(pipe') = Len(wbuf) + room /\ Len(wbuf') = 0 /\ Len(cur') = Len(cur) - room
      BY <2>4, <2>6, <2>7, EmptyUnits, Zenon
    <2>11. Len(wire') + Len(pipe') + Len(wbuf') + Len(cur') = RowEnds[at]'
      BY <1>1, <1>3, <1>6, <1>7, <2>5, <2>10
    <2>12. /\ Follows(Wanted', wire', 0) /\ Follows(Wanted', pipe', Len(wire'))
           /\ Follows(Wanted', wbuf', Len(wire') + Len(pipe'))
      BY <1>3, <1>7, <2>6, <2>7, FollowsEmpty
    <2>13. Follows(Wanted', cur', Len(wire') + Len(pipe') + Len(wbuf'))
      <3>1. Len(wire') + Len(pipe') + Len(wbuf') = base + room
        BY <1>3, <1>6, <2>3, <2>5, <2>10
      <3> QED BY <1>3, <2>4, <2>7, <3>1
    <2>14. StreamInv'
      BY <2>11, <2>12, <2>13 DEF StreamInv
    <2> QED BY <1>3, <1>4, <1>9, <2>8, <2>9, <2>14, NextTypeParts DEF Inv
  <1>13. CASE wbuf = <<>> /\ wbuf' = wbuf /\ wpc' = "blocked" /\ pipe' = cur /\ cur' = <<>>
    <2>1. Len(wbuf) = 0 /\ Len(wbuf') = 0 /\ Len(cur') = 0 /\ Len(pipe') = Len(cur)
      BY <1>13, EmptyUnits
    <2>2. UnitsType'
      BY <1>2, <1>3, <1>13, EmptyUnits DEF UnitsType
    <2>3. WriterInv'
      BY <1>1, <1>3, <1>5, <1>10, <1>13 DEF WriterInv, None
    <2>4. Len(wire') + Len(pipe') + Len(wbuf') + Len(cur') = RowEnds[at']
      BY <1>1, <1>3, <1>6, <1>7, <2>1
    <2>5. /\ Follows(Wanted', wire', 0) /\ Follows(Wanted', pipe', Len(wire'))
          /\ Follows(Wanted', wbuf', Len(wire') + Len(pipe'))
          /\ Follows(Wanted', cur', Len(wire') + Len(pipe') + Len(wbuf'))
      BY <1>3, <1>6, <1>7, <1>13, <2>1, FollowsEmpty
    <2>6. StreamInv'
      BY <2>4, <2>5 DEF StreamInv
    <2> QED BY <1>3, <1>4, <1>9, <2>2, <2>3, <2>6, NextTypeParts DEF Inv
  <1> QED BY <1>1, <1>11, <1>12, <1>13

LEMMA FlushStep == ASSUME Inv, Flush PROVE Inv'
  <1>1. /\ wpc = "iterate" /\ at = Total /\ at' = at /\ cur' = cur /\ werr' = werr /\ pclosed' = pclosed
        /\ writerFrame /\ pipe' = wbuf /\ wbuf' = <<>>
        /\ wbuf = <<>> => wpc' = "close"
        /\ wbuf # <<>> => wpc' = "blocked"
    BY DEF Flush, Total
  <1>2. RowType /\ WriterType /\ UnitsType /\ RowsInv /\ WriterInv /\ StreamInv
    BY TypeParts DEF Inv
  <1>3. /\ RowType' /\ NetType' /\ CallType' /\ FlagType' /\ RowsInv'
        /\ Total' = Total /\ Wanted' = Wanted /\ wire' = wire /\ (\A i : Row(i)' = Row(i))
    BY <1>1, WriterFrame
  <1>4. AnswerInv' /\ JoinInv'
    BY <1>1, WriterAnswer
  <1>5. /\ werr = None /\ pclosed = None /\ pipe = <<>> /\ cur = <<>> /\ at <= Total
        /\ \A i \in 1..at : Row(i) = "ok"
    BY <1>1, <1>2 DEF WriterInv
  <1>6. Len(cur) = 0 /\ Len(wbuf) \in Nat /\ Len(pipe) = 0 /\ Len(wire) \in Nat
    BY <1>2, <1>5, Sizes, EmptyUnits
  <1>7. /\ Follows(Wanted, wire, 0) /\ Follows(Wanted, wbuf, Len(wire))
        /\ Len(wire) + Len(wbuf) = RowEnds[at]
    BY <1>2, <1>5, <1>6 DEF StreamInv
  <1>8. WriterType'
    BY <1>1, <1>2 DEF WriterType
  <1>9. \A i \in 1..at' : Row(i)' = "ok"
    BY <1>1, <1>3, <1>5
  <1>10. UnitsType'
    BY <1>1, <1>2, <1>3, EmptyUnits, SizesAssumption DEF UnitsType
  <1>11. WriterInv'
    <2>1. at' = Total' /\ at' <= Total'
      BY <1>1, <1>3, <1>5
    <2>2. wpc' \in {"close", "blocked"} /\ (pipe' # <<>> => wpc' = "blocked")
      BY <1>1
    <2> QED BY <1>1, <1>5, <1>9, <2>1, <2>2 DEF WriterInv, None
  <1>12. StreamInv'
    <2>1. Len(wire') + Len(pipe') + Len(wbuf') + Len(cur') = RowEnds[at]'
      BY <1>1, <1>3, <1>6, <1>7, EmptyUnits
    <2>2. /\ Follows(Wanted', wire', 0) /\ Follows(Wanted', pipe', Len(wire'))
          /\ Follows(Wanted', wbuf', Len(wire') + Len(pipe'))
          /\ Follows(Wanted', cur', Len(wire') + Len(pipe') + Len(wbuf'))
      BY <1>1, <1>3, <1>5, <1>7, FollowsEmpty
    <2> QED BY <2>1, <2>2 DEF StreamInv
  <1> QED BY <1>3, <1>4, <1>8, <1>10, <1>11, <1>12, NextTypeParts DEF Inv

LEMMA WriteReturnsStep == ASSUME Inv, WriteReturns PROVE Inv'
  <1>1. /\ wpc = "blocked" /\ at' = at /\ cur' = cur /\ wbuf' = wbuf /\ pclosed' = pclosed /\ writerFrame
        /\ \/ pipe = <<>> /\ wpc' = "fill" /\ werr' = werr /\ pipe' = pipe
           \/ werr' = "closed" /\ wpc' = "close" /\ pipe' = <<>>
    BY DEF WriteReturns
  <1>2. RowType /\ WriterType /\ UnitsType /\ RowsInv /\ WriterInv /\ StreamInv
    BY TypeParts DEF Inv
  <1>3. /\ RowType' /\ NetType' /\ CallType' /\ FlagType' /\ RowsInv'
        /\ Total' = Total /\ Wanted' = Wanted /\ wire' = wire /\ (\A i : Row(i)' = Row(i))
    BY <1>1, WriterFrame
  <1>4. AnswerInv' /\ JoinInv'
    BY <1>1, WriterAnswer
  <1>5. /\ werr = None /\ pclosed = None /\ wbuf = <<>> /\ at <= Total
        /\ \A i \in 1..at : Row(i) = "ok"
    BY <1>1, <1>2 DEF WriterInv
  <1>6. WriterType'
    BY <1>1, <1>2 DEF WriterType
  <1>7. UnitsType'
    BY <1>1, <1>2, <1>3, EmptyUnits DEF UnitsType
  <1>8. WriterInv'
    <2>1. at' <= Total' /\ (\A i \in 1..at' : Row(i)' = "ok")
      BY <1>1, <1>3, <1>5
    <2> QED BY <1>1, <1>5, <2>1 DEF WriterInv, None
  <1>9. StreamInv'
    <2>1. CASE werr' = "closed"
      BY <1>2, <1>3, <2>1 DEF StreamInv, None
    <2>2. CASE werr' # "closed"
      BY <1>1, <1>2, <1>3, <2>2 DEF StreamInv
    <2> QED BY <2>1, <2>2
  <1> QED BY <1>3, <1>4, <1>6, <1>7, <1>8, <1>9, NextTypeParts DEF Inv

LEMMA CloseWriterStep == ASSUME Inv, CloseWriter PROVE Inv'
  <1>1. /\ wpc = "close" /\ wpc' = "send" /\ pclosed' = IF werr = None THEN "eof" ELSE "error"
        /\ at' = at /\ cur' = cur /\ wbuf' = wbuf /\ werr' = werr /\ pipe' = pipe /\ writerFrame
    BY DEF CloseWriter
  <1>2. RowType /\ WriterType /\ UnitsType /\ RowsInv /\ WriterInv /\ StreamInv /\ AnswerInv
    BY TypeParts DEF Inv
  <1>3. /\ RowType' /\ NetType' /\ CallType' /\ FlagType' /\ RowsInv'
        /\ Total' = Total /\ Wanted' = Wanted /\ wire' = wire /\ (\A i : Row(i)' = Row(i))
    BY <1>1, WriterFrame
  <1>4. sent # "complete"
    BY <1>1, <1>2 DEF WriterInv, AnswerInv, None
  <1>5. AnswerInv' /\ JoinInv'
    BY <1>1, <1>4, WriterAnswer
  <1>6. WriterType' /\ UnitsType'
    BY <1>1, <1>2, <1>3 DEF WriterType, UnitsType
  <1>7. WriterInv'
    <2>1. /\ at' <= Total' /\ (werr' = None => \A i \in 1..at' : Row(i)' = "ok")
          /\ werr' \in {"bad", "goexit", "panic"} => at' \in 1..Total' /\ Row(at)' = werr'
          /\ werr' = None => at' = Total' /\ cur' = <<>> /\ wbuf' = <<>>
      BY <1>1, <1>2, <1>3 DEF WriterInv
    <2>2. (pipe' # <<>> => wpc' = "blocked") /\ (pclosed' = "eof" => werr' = None)
      BY <1>1, <1>2 DEF WriterInv
    <2> QED BY <1>1, <2>1, <2>2 DEF WriterInv
  <1>8. StreamInv'
    BY <1>1, <1>2, <1>3 DEF StreamInv
  <1> QED BY <1>3, <1>5, <1>6, <1>7, <1>8, NextTypeParts DEF Inv

LEMMA SendResultStep == ASSUME Inv, SendResult PROVE Inv'
  <1>1. /\ wpc = "send" /\ wpc' = "ended" /\ pclosed' = pclosed
        /\ at' = at /\ cur' = cur /\ wbuf' = wbuf /\ werr' = werr /\ pipe' = pipe /\ writerFrame
    BY DEF SendResult
  <1>2. RowType /\ WriterType /\ UnitsType /\ RowsInv /\ WriterInv /\ StreamInv
    BY TypeParts DEF Inv
  <1>3. /\ RowType' /\ NetType' /\ CallType' /\ FlagType' /\ RowsInv'
        /\ Total' = Total /\ Wanted' = Wanted /\ wire' = wire /\ (\A i : Row(i)' = Row(i))
    BY <1>1, WriterFrame
  <1>4. AnswerInv' /\ JoinInv'
    BY <1>1, WriterAnswer
  <1>5. WriterType' /\ UnitsType'
    BY <1>1, <1>2, <1>3 DEF WriterType, UnitsType
  <1>6. WriterInv'
    <2>1. /\ at' <= Total' /\ (werr' = None => \A i \in 1..at' : Row(i)' = "ok")
          /\ werr' \in {"bad", "goexit", "panic"} => at' \in 1..Total' /\ Row(at)' = werr'
          /\ werr' = None => at' = Total' /\ cur' = <<>> /\ wbuf' = <<>>
      BY <1>1, <1>2, <1>3 DEF WriterInv
    <2>2. (pipe' # <<>> => wpc' = "blocked") /\ (pclosed' = "eof" => werr' = None)
      BY <1>1, <1>2 DEF WriterInv
    <2> QED BY <1>1, <2>1, <2>2 DEF WriterInv
  <1>7. StreamInv'
    BY <1>1, <1>2, <1>3 DEF StreamInv
  <1> QED BY <1>3, <1>4, <1>5, <1>6, <1>7, NextTypeParts DEF Inv

-----------------------------------------------------------------------------
(* The steps of the transport and the server. *)

\* What a step of the network leaves alone.
LEMMA NetFrame ==
  ASSUME Inv, netFrame
  PROVE  /\ RowType' /\ WriterType' /\ CallType' /\ RowsInv' /\ JoinInv'
         /\ Wanted' = Wanted /\ cur' = cur /\ wbuf' = wbuf /\ werr' = werr /\ at' = at /\ wpc' = wpc
         /\ pclosed' = pclosed /\ pc' = pc /\ cause' = cause /\ ret' = ret
         /\ (pipe' = <<>> \/ pipe # <<>>) => WriterInv'
  <1>1. /\ vertices' = vertices /\ edges' = edges /\ mode' = mode /\ pclosed' = pclosed
        /\ cur' = cur /\ wbuf' = wbuf /\ werr' = werr /\ at' = at /\ wpc' = wpc
        /\ pc' = pc /\ cause' = cause /\ raised' = raised /\ ret' = ret
    BY DEF netFrame, writer, call
  <1>2. RowType /\ WriterType /\ CallType /\ RowsInv /\ WriterInv /\ JoinInv
    BY TypeParts DEF Inv
  <1>3. RowType' /\ WriterType' /\ CallType' /\ JoinInv'
    BY <1>1, <1>2 DEF RowType, WriterType, CallType, JoinInv
  <1>4. RowsInv' /\ Total' = Total /\ Wanted' = Wanted /\ (\A i : Row(i)' = Row(i))
    BY <1>1, <1>2, SameRows
  <1>5. ASSUME pipe' = <<>> \/ pipe # <<>> PROVE WriterInv'
    <2>1. /\ at' <= Total' /\ (werr' = None => \A i \in 1..at' : Row(i)' = "ok")
          /\ werr' \in {"bad", "goexit", "panic"} => at' \in 1..Total' /\ Row(at)' = werr'
      BY <1>1, <1>2, <1>4 DEF WriterInv
    <2>2. pipe' # <<>> => wpc' = "blocked"
      BY <1>1, <1>2, <1>5 DEF WriterInv
    <2> QED BY <1>1, <1>2, <1>4, <2>1, <2>2 DEF WriterInv
  <1> QED BY <1>1, <1>3, <1>4, <1>5

LEMMA NetReadsStep == ASSUME Inv, NetReads PROVE Inv'
  <1>1. PICK n \in 1..Len(pipe) :
          wire' = wire \o SubSeq(pipe, 1, n) /\ pipe' = SubSeq(pipe, n + 1, Len(pipe))
    BY DEF NetReads
  <1>2. rclosed' = rclosed /\ sent' = sent /\ resp' = resp /\ body' = body /\ early' = early /\ netFrame
    BY DEF NetReads
  <1>3. UnitsType /\ NetType /\ FlagType /\ WriterInv /\ StreamInv /\ AnswerInv
    BY TypeParts DEF Inv
  <1>4. pipe \in Seq(Units) /\ wire \in Seq(Units) /\ Len(wire) \in Nat /\ n \in 0..Len(pipe) /\ pipe # <<>>
    BY <1>1, <1>3, EmptyUnits DEF UnitsType
  <1>5. /\ RowType' /\ WriterType' /\ CallType' /\ RowsInv' /\ JoinInv' /\ WriterInv'
        /\ Wanted' = Wanted /\ cur' = cur /\ wbuf' = wbuf /\ werr' = werr /\ at' = at
        /\ pclosed' = pclosed /\ cause' = cause /\ ret' = ret /\ pc' = pc
    BY <1>2, <1>4, NetFrame
  <1>6. werr = None /\ Follows(Wanted, wire, 0) /\ Follows(Wanted, pipe, Len(wire))
    <2>1. werr = None
      BY <1>3, <1>4 DEF WriterInv
    <2> QED BY <1>3, <2>1 DEF StreamInv
  <1>7. PICK s, t : s = SubSeq(pipe, 1, n) /\ t = SubSeq(pipe, n + 1, Len(pipe))
    OBVIOUS
  <1>8. s \in Seq(Units) /\ Len(s) = n /\ t \in Seq(Units) /\ Len(t) = Len(pipe) - n
    BY <1>4, <1>7
  <1>9. Follows(Wanted, s, Len(wire)) /\ Follows(Wanted, t, Len(wire) + n)
    <2>1. Follows(Wanted, SubSeq(pipe, 1, n), Len(wire))
      BY <1>4, <1>6, FollowsCut
    <2>2. Follows(Wanted, SubSeq(pipe, n + 1, Len(pipe)), Len(wire) + n)
      BY <1>4, <1>6, FollowsCut
    <2> QED BY <1>7, <2>1, <2>2, Zenon
  <1>10. wire \o s \in Seq(Units) /\ Len(wire \o s) = Len(wire) + n
    <2>1. wire \in Seq(Units) /\ s \in Seq(Units)
      BY <1>4, <1>8
    <2>2. wire \o s \in Seq(Units) /\ Len(wire \o s) = Len(wire) + Len(s)
      BY <2>1
    <2> QED BY <1>8, <2>2
  <1>11. Follows(Wanted, wire \o s, 0)
    <2>1. 0 \in Nat /\ 0 + Len(wire) = Len(wire)
      BY <1>4
    <2>2. Follows(Wanted, s, 0 + Len(wire))
      BY <1>9, <2>1
    <2> QED BY <1>4, <1>6, <1>8, <2>1, <2>2, FollowsConcat
  <1>12. wire' = wire \o s /\ pipe' = t
    BY <1>1, <1>7
  <1>13. Len(wire') = Len(wire) + n /\ Len(pipe') = Len(pipe) - n
    BY <1>8, <1>10, <1>12, Zenon
  <1>14. UnitsType'
    <2>1. cur \in Seq(Units) /\ wbuf \in Seq(Units) /\ Len(wbuf) <= BufCap
      BY <1>3 DEF UnitsType
    <2>2. cur' \in Seq(Units) /\ wbuf' \in Seq(Units) /\ Len(wbuf') <= BufCap
      BY <1>5, <2>1, Zenon
    <2>3. pipe' \in Seq(Units) /\ wire' \in Seq(Units)
      BY <1>8, <1>10, <1>12, Zenon
    <2> QED BY <2>2, <2>3 DEF UnitsType
  <1>15. StreamInv'
    <2>1. Len(cur) \in Nat /\ Len(wbuf) \in Nat /\ Len(pipe) \in Nat
      BY <1>3, Sizes
    <2>2. Len(wire') + Len(pipe') = Len(wire) + Len(pipe)
      BY <1>4, <1>13, <2>1
    <2>3. Follows(Wanted', wire', 0) /\ Follows(Wanted', pipe', Len(wire'))
      BY <1>5, <1>9, <1>11, <1>12, <1>13, Zenon
    <2>4. /\ Follows(Wanted, wbuf, Len(wire) + Len(pipe))
          /\ Follows(Wanted, cur, Len(wire) + Len(pipe) + Len(wbuf))
          /\ Len(wire) + Len(pipe) + Len(wbuf) + Len(cur) = RowEnds[at]
      BY <1>3, <1>6 DEF StreamInv
    <2>5. /\ Follows(Wanted', wbuf', Len(wire') + Len(pipe'))
          /\ Follows(Wanted', cur', Len(wire') + Len(pipe') + Len(wbuf'))
          /\ Len(wire') + Len(pipe') + Len(wbuf') + Len(cur') = RowEnds[at]'
      BY <1>5, <2>2, <2>4, Zenon
    <2> QED BY <2>3, <2>5 DEF StreamInv
  <1>16. AnswerInv' /\ NetType'
    BY <1>2, <1>3, <1>5 DEF AnswerInv, NetType
  <1>17. FlagType'
    BY <1>2, <1>3, Zenon DEF FlagType
  <1> QED BY <1>5, <1>14, <1>15, <1>16, <1>17, NextTypeParts DEF Inv

\* The other steps of the network leave the pipe and the wire alone.
LEMMA NetStep ==
  ASSUME Inv, netFrame, pipe' = pipe, wire' = wire
  PROVE  /\ RowType' /\ WriterType' /\ CallType' /\ UnitsType' /\ RowsInv' /\ JoinInv' /\ WriterInv' /\ StreamInv'
         /\ pclosed' = pclosed /\ cause' = cause /\ ret' = ret /\ pc' = pc
  <1>1. /\ RowType' /\ WriterType' /\ CallType' /\ RowsInv' /\ JoinInv' /\ WriterInv'
        /\ Wanted' = Wanted /\ cur' = cur /\ wbuf' = wbuf /\ werr' = werr /\ at' = at
        /\ pclosed' = pclosed /\ cause' = cause /\ ret' = ret /\ pc' = pc
    <2>1. pipe' = <<>> \/ pipe # <<>>
      OBVIOUS
    <2> QED BY <2>1, NetFrame
  <1>2. UnitsType /\ StreamInv
    BY TypeParts DEF Inv
  <1>3. UnitsType' /\ StreamInv'
    BY <1>1, <1>2 DEF UnitsType, StreamInv
  <1> QED BY <1>1, <1>3

LEMMA NetReadsEndStep == ASSUME Inv, NetReadsEnd PROVE Inv'
  <1>1. /\ pclosed = "eof" /\ sent' = "complete" /\ pipe' = pipe /\ wire' = wire
        /\ rclosed' = rclosed /\ resp' = resp /\ body' = body /\ early' = early /\ netFrame
    BY DEF NetReadsEnd
  <1>2. NetType /\ FlagType /\ AnswerInv
    BY TypeParts DEF Inv
  <1>3. /\ RowType' /\ WriterType' /\ CallType' /\ UnitsType' /\ RowsInv' /\ JoinInv' /\ WriterInv' /\ StreamInv'
        /\ pclosed' = pclosed /\ cause' = cause /\ ret' = ret /\ pc' = pc
    BY <1>1, NetStep
  <1>4. NetType' /\ AnswerInv'
    BY <1>1, <1>2, <1>3 DEF NetType, AnswerInv
  <1>5. FlagType'
    BY <1>1, <1>2, Zenon DEF FlagType
  <1> QED BY <1>3, <1>4, <1>5, NextTypeParts DEF Inv

LEMMA BreaksStep == ASSUME Inv, Breaks PROVE Inv'
  <1>1. /\ sent' = (IF sent = "sending" THEN "broken" ELSE sent)
        /\ resp' = (IF resp = None THEN "failed" ELSE resp)
        /\ body' = (IF body = "open" THEN "cut" ELSE body)
        /\ rclosed' \in {rclosed, TRUE}
        /\ pipe' = pipe /\ wire' = wire /\ early' = early /\ netFrame
    BY DEF Breaks
  <1>2. NetType /\ FlagType /\ AnswerInv
    BY TypeParts DEF Inv
  <1>3. /\ RowType' /\ WriterType' /\ CallType' /\ UnitsType' /\ RowsInv' /\ JoinInv' /\ WriterInv' /\ StreamInv'
        /\ pclosed' = pclosed /\ cause' = cause /\ ret' = ret /\ pc' = pc
    BY <1>1, NetStep
  <1>4. NetType'
    BY <1>1, <1>2 DEF NetType
  <1>5. AnswerInv'
    <2>1. sent' = "complete" => sent = "complete"
      BY <1>1
    <2>2. body' = "eof" <=> body = "eof"
      BY <1>1
    <2>3. sent = "complete" => sent' = "complete"
      BY <1>1
    <2> QED BY <1>1, <1>2, <1>3, <2>1, <2>2, <2>3, Zenon DEF AnswerInv
  <1>6. FlagType'
    BY <1>1, <1>2, Zenon DEF FlagType
  <1> QED BY <1>3, <1>4, <1>5, <1>6, NextTypeParts DEF Inv

LEMMA SrvAnswersStep == ASSUME Inv, SrvAnswers PROVE Inv'
  <1>1. /\ resp' \in {"2xx", "non2xx"} /\ pipe' = pipe /\ wire' = wire
        /\ rclosed' = rclosed /\ sent' = sent /\ body' = body /\ early' = early /\ netFrame
    BY DEF SrvAnswers
  <1>2. NetType /\ FlagType /\ AnswerInv
    BY TypeParts DEF Inv
  <1>3. /\ RowType' /\ WriterType' /\ CallType' /\ UnitsType' /\ RowsInv' /\ JoinInv' /\ WriterInv' /\ StreamInv'
        /\ pclosed' = pclosed /\ cause' = cause /\ ret' = ret /\ pc' = pc
    BY <1>1, NetStep
  <1>4. NetType' /\ AnswerInv'
    BY <1>1, <1>2, <1>3 DEF NetType, AnswerInv
  <1>5. FlagType'
    BY <1>1, <1>2, Zenon DEF FlagType
  <1> QED BY <1>3, <1>4, <1>5, NextTypeParts DEF Inv

LEMMA SrvEndsStep == ASSUME Inv, SrvEnds PROVE Inv'
  <1>1. /\ body = "open" /\ body' = "eof" /\ early' = (sent # "complete")
        /\ rclosed' \in {rclosed, TRUE}
        /\ pipe' = pipe /\ wire' = wire /\ sent' = sent /\ resp' = resp /\ netFrame
    BY DEF SrvEnds
  <1>2. NetType /\ FlagType /\ AnswerInv
    BY TypeParts DEF Inv
  <1>3. /\ RowType' /\ WriterType' /\ CallType' /\ UnitsType' /\ RowsInv' /\ JoinInv' /\ WriterInv' /\ StreamInv'
        /\ pclosed' = pclosed /\ cause' = cause /\ ret' = ret /\ pc' = pc
    BY <1>1, NetStep
  <1>4. NetType'
    BY <1>1, <1>2 DEF NetType
  <1>5. AnswerInv'
    BY <1>1, <1>2, <1>3, Zenon DEF AnswerInv
  <1>6. FlagType'
    BY <1>1, <1>2, Zenon DEF FlagType
  <1> QED BY <1>3, <1>4, <1>5, <1>6, NextTypeParts DEF Inv

-----------------------------------------------------------------------------
(* The steps of the calling goroutine. *)

\* What a step of the call leaves alone.
LEMMA CallFrame ==
  ASSUME Inv, callFrame
  PROVE  /\ RowType' /\ WriterType' /\ UnitsType' /\ NetType' /\ RowsInv' /\ WriterInv' /\ StreamInv'
         /\ sent' = sent /\ body' = body /\ early' = early /\ pclosed' = pclosed
         /\ wpc' = wpc /\ werr' = werr /\ mode' = mode
  <1>1. /\ vertices' = vertices /\ edges' = edges /\ mode' = mode /\ pclosed' = pclosed /\ pipe' = pipe
        /\ wpc' = wpc /\ at' = at /\ cur' = cur /\ wbuf' = wbuf /\ werr' = werr
        /\ wire' = wire /\ sent' = sent /\ resp' = resp /\ body' = body /\ early' = early
    BY DEF callFrame, writer, net
  <1>2. RowType /\ WriterType /\ UnitsType /\ NetType /\ RowsInv /\ WriterInv /\ StreamInv
    BY TypeParts DEF Inv
  <1>3. RowsInv' /\ Total' = Total /\ Wanted' = Wanted /\ (\A i : Row(i)' = Row(i))
    BY <1>1, <1>2, SameRows
  <1>4. RowType' /\ WriterType' /\ UnitsType' /\ NetType'
    BY <1>1, <1>2 DEF RowType, WriterType, UnitsType, NetType
  <1>5. WriterInv'
    <2>1. /\ at' <= Total' /\ (werr' = None => \A i \in 1..at' : Row(i)' = "ok")
          /\ werr' \in {"bad", "goexit", "panic"} => at' \in 1..Total' /\ Row(at)' = werr'
      BY <1>1, <1>2, <1>3 DEF WriterInv
    <2> QED BY <1>1, <1>2, <1>3, <2>1 DEF WriterInv
  <1>6. StreamInv'
    BY <1>1, <1>2, <1>3 DEF StreamInv
  <1> QED BY <1>1, <1>3, <1>4, <1>5, <1>6

\* A step that heads for stop, or only goes on: nothing is reported yet.
LEMMA GoingOnStep ==
  ASSUME Inv, callFrame, pc \notin {"deferred", "done"}, pc' \in {"read", "stop", "join"},
         raised' = raised, ret' = ret, rclosed' \in {rclosed, TRUE},
         \/ cause' = cause \/ cause' \in {"break", "transport", "status", "body", "decode", "inband"}
         \/ cause' = "clean" /\ body = "eof"
  PROVE  Inv'
  <1>1. /\ RowType' /\ WriterType' /\ UnitsType' /\ NetType' /\ RowsInv' /\ WriterInv' /\ StreamInv'
        /\ sent' = sent /\ body' = body /\ early' = early /\ pclosed' = pclosed
    BY CallFrame
  <1>2. CallType /\ FlagType /\ AnswerInv /\ JoinInv
    BY TypeParts DEF Inv
  <1>3. CallType'
    BY <1>2 DEF CallType
  <1>4. FlagType'
    BY <1>1, <1>2, Zenon DEF FlagType
  <1>5. JoinInv' /\ ret' = None
    BY <1>2 DEF JoinInv
  <1>6. AnswerInv'
    <2>1. cause' = "clean" => body' = "eof"
      BY <1>1, <1>2 DEF AnswerInv
    <2>2. ret' # "ok"
      BY <1>5 DEF None
    <2> QED BY <1>1, <1>2, <2>1, <2>2, Zenon DEF AnswerInv
  <1> QED BY <1>1, <1>3, <1>4, <1>5, <1>6, NextTypeParts DEF Inv

LEMMA RespondedStep == ASSUME Inv, Responded PROVE Inv'
  <1>1. /\ pc = "do" /\ rclosed' = rclosed /\ callFrame /\ raised' = raised /\ ret' = ret
        /\ \/ pc' = "stop" /\ cause' \in {"transport", "status"}
           \/ pc' = "read" /\ cause' = cause
    BY DEF Responded, Stopping
  <1>2. pc \notin {"deferred", "done"} /\ pc' \in {"read", "stop", "join"} /\ rclosed' \in {rclosed, TRUE}
    BY <1>1
  <1> QED BY <1>1, <1>2, GoingOnStep

LEMMA BodyReadStep == ASSUME Inv, BodyRead PROVE Inv'
  <1>1. /\ pc = "read" /\ rclosed' = rclosed /\ callFrame /\ raised' = raised /\ ret' = ret
        /\ pc' = "stop"
        /\ \/ cause' \in {"break", "transport", "status", "body", "decode", "inband"}
           \/ cause' = "clean" /\ body = "eof"
    BY DEF BodyRead, Stopping
  <1>2. pc \notin {"deferred", "done"} /\ pc' \in {"read", "stop", "join"} /\ rclosed' \in {rclosed, TRUE}
    BY <1>1
  <1> QED BY <1>1, <1>2, GoingOnStep

LEMMA StreamEndsStep == ASSUME Inv, StreamEnds PROVE Inv'
  <1>1. /\ pc = "read" /\ rclosed' = rclosed /\ callFrame /\ raised' = raised /\ ret' = ret
        /\ pc' = "stop" /\ cause' \in {"decode", "inband", "break"}
    BY DEF StreamEnds, Stopping
  <1>2. pc \notin {"deferred", "done"} /\ pc' \in {"read", "stop", "join"} /\ rclosed' \in {rclosed, TRUE}
    BY <1>1
  <1> QED BY <1>1, <1>2, GoingOnStep

LEMMA StopStep == ASSUME Inv, Stop PROVE Inv'
  <1>1. /\ pc = "stop" /\ rclosed' = TRUE /\ callFrame /\ raised' = raised /\ ret' = ret
        /\ pc' = "join" /\ cause' = cause
    BY DEF Stop
  <1>2. pc \notin {"deferred", "done"} /\ pc' \in {"read", "stop", "join"} /\ rclosed' \in {rclosed, TRUE}
    BY <1>1
  <1> QED BY <1>1, <1>2, GoingOnStep

\* What the call reports when it leaves stop: the writer's own failure before
\* everything but the caller's break.
LEMMA ReportedIs ==
  ASSUME WriterType, CallType
  PROVE  /\ Reported(ownError) \in Results
         /\ cause # "break" /\ werr \in {"bad", "goexit"} => Reported(ownError) = werr
         /\ Reported(ownError) = "ok" => cause = "clean" /\ werr \notin {"bad", "goexit"}
  BY DEF Reported, ownError, Results, None, WriterType, CallType

LEMMA JoinStep == ASSUME Inv, Join PROVE Inv'
  <1>1. /\ pc = "join" /\ wpc = "ended" /\ cause' = cause /\ rclosed' = rclosed /\ callFrame
        /\ pc' \in {"deferred", "done"}
        /\ \/ werr = "panic" /\ raised' = 1 /\ ret' = "panic"
           \/ werr # "panic" /\ raised' = raised /\ ret' = Reported(ownError)
           \/ werr # "panic" /\ raised' = raised /\ ret' = "decode" /\ Reported(ownError) = "ok"
    BY DEF Join
  <1>2. WriterType /\ CallType /\ FlagType /\ AnswerInv /\ JoinInv
    BY TypeParts DEF Inv
  <1>3. /\ RowType' /\ WriterType' /\ UnitsType' /\ NetType' /\ RowsInv' /\ WriterInv' /\ StreamInv'
        /\ sent' = sent /\ body' = body /\ early' = early /\ pclosed' = pclosed /\ wpc' = wpc /\ werr' = werr
    BY <1>1, CallFrame
  <1>4. /\ Reported(ownError) \in Results
        /\ cause # "break" /\ werr \in {"bad", "goexit"} => Reported(ownError) = werr
        /\ Reported(ownError) = "ok" => cause = "clean" /\ werr \notin {"bad", "goexit"}
    BY <1>2, ReportedIs
  <1>5. raised = 0
    BY <1>1, <1>2 DEF JoinInv
  <1>6. CallType'
    BY <1>1, <1>2, <1>4 DEF CallType, Results
  <1>7. FlagType'
    BY <1>1, <1>2, <1>3, Zenon DEF FlagType
  <1>8. AnswerInv'
    <2>1. ret' = "ok" => cause = "clean"
      BY <1>1, <1>4
    <2> QED BY <1>1, <1>2, <1>3, <2>1, Zenon DEF AnswerInv
  <1>9. JoinInv'
    <2>1. cause # "break" /\ werr \in {"bad", "goexit"} => ret' = werr
      BY <1>1, <1>4
    <2>2. raised' = (IF werr = "panic" THEN 1 ELSE 0)
      BY <1>1, <1>5
    <2> QED BY <1>1, <1>3, <2>1, <2>2 DEF JoinInv
  <1> QED BY <1>3, <1>6, <1>7, <1>8, <1>9, NextTypeParts DEF Inv

LEMMA DeferredStopStep == ASSUME Inv, DeferredStop PROVE Inv'
  <1>1. /\ pc = "deferred" /\ pc' = "done" /\ cause' = cause /\ raised' = raised /\ ret' = ret
        /\ rclosed' = rclosed /\ callFrame
    BY DEF DeferredStop
  <1>2. CallType /\ FlagType /\ AnswerInv /\ JoinInv
    BY TypeParts DEF Inv
  <1>3. /\ RowType' /\ WriterType' /\ UnitsType' /\ NetType' /\ RowsInv' /\ WriterInv' /\ StreamInv'
        /\ sent' = sent /\ body' = body /\ early' = early /\ pclosed' = pclosed /\ wpc' = wpc /\ werr' = werr
    BY <1>1, CallFrame
  <1>4. CallType' /\ JoinInv'
    BY <1>1, <1>2, <1>3 DEF CallType, JoinInv
  <1>5. FlagType'
    BY <1>1, <1>2, <1>3, Zenon DEF FlagType
  <1>6. AnswerInv'
    BY <1>1, <1>2, <1>3 DEF AnswerInv
  <1> QED BY <1>3, <1>4, <1>5, <1>6, NextTypeParts DEF Inv

\* A step that changes nothing.
LEMMA StutterStep == ASSUME Inv, UNCHANGED vars PROVE Inv'
  <1>1. callFrame /\ pc' = pc /\ cause' = cause /\ raised' = raised /\ ret' = ret /\ rclosed' = rclosed
    BY DEF vars, callFrame, writer, net, call
  <1>2. CallType /\ FlagType /\ AnswerInv /\ JoinInv
    BY TypeParts DEF Inv
  <1>3. /\ RowType' /\ WriterType' /\ UnitsType' /\ NetType' /\ RowsInv' /\ WriterInv' /\ StreamInv'
        /\ sent' = sent /\ body' = body /\ early' = early /\ pclosed' = pclosed /\ wpc' = wpc /\ werr' = werr
    BY <1>1, CallFrame
  <1>4. CallType' /\ JoinInv'
    BY <1>1, <1>2, <1>3 DEF CallType, JoinInv
  <1>5. FlagType'
    BY <1>1, <1>2, <1>3, Zenon DEF FlagType
  <1>6. AnswerInv'
    BY <1>1, <1>2, <1>3 DEF AnswerInv
  <1> QED BY <1>3, <1>4, <1>5, <1>6, NextTypeParts DEF Inv

LEMMA NextInv == ASSUME Inv, [Next]_vars PROVE Inv'
  <1>1. CASE Writer
    BY <1>1, NextRowStep, FillBufferStep, FlushStep, WriteReturnsStep, CloseWriterStep, SendResultStep DEF Writer
  <1>2. CASE Net
    BY <1>2, NetReadsStep, NetReadsEndStep, BreaksStep, SrvAnswersStep, SrvEndsStep
       DEF Net, NetReadsError, NetFails
  <1>3. CASE Call
    BY <1>3, RespondedStep, BodyReadStep, StopStep, JoinStep, DeferredStopStep DEF Call
  <1>4. CASE StreamEnds
    BY <1>4, StreamEndsStep
  <1>5. CASE UNCHANGED vars
    BY <1>5, StutterStep
  <1> QED BY <1>1, <1>2, <1>3, <1>4, <1>5 DEF Next

THEOREM Invariance == Spec => []Inv
  BY InitInv, NextInv, PTL DEF Spec

-----------------------------------------------------------------------------
(* What follows from the invariant. *)

\* A body that was read to its EOF holds every row whole.
LEMMA CompleteBody ==
  ASSUME Inv, sent = "complete"
  PROVE  /\ Len(wire) = RowEnds[Total]
         /\ \A i \in 1..Total : Row(i) = "ok" /\ \E k \in 1..Len(wire) : wire[k] = <<i, Size(i)>>
  <1>1. RowType /\ WriterType /\ UnitsType /\ WriterInv /\ StreamInv /\ AnswerInv
    BY TypeParts DEF Inv
  <1>2. pclosed = "eof" /\ werr = None
    BY <1>1 DEF WriterInv, AnswerInv
  <1>3. wpc \in {"send", "ended"}
    BY <1>1, <1>2 DEF WriterInv, None
  <1>4. at = Total /\ cur = <<>> /\ wbuf = <<>> /\ pipe = <<>> /\ (\A i \in 1..at : Row(i) = "ok")
    BY <1>1, <1>2, <1>3 DEF WriterInv
  <1>5. Len(wire) \in Nat /\ Total \in 0..(2 * MaxRows)
    BY <1>1, Sizes, RowOfNumber DEF RowType
  <1>6. Len(wire) = RowEnds[Total]
    BY <1>1, <1>2, <1>4, <1>5, EmptyUnits DEF StreamInv
  <1>7. ASSUME NEW i \in 1..Total PROVE \E k \in 1..Len(wire) : wire[k] = <<i, Size(i)>>
    <2>1. i \in 1..(2 * MaxRows) /\ i \in 0..(2 * MaxRows) /\ 0 \in 0..(2 * MaxRows) /\ 0 < i
      BY <1>5, SizesAssumption
    <2>2. RowEnds[i] \in Nat /\ RowEnds[i] > 0 /\ RowEnds[i] <= RowEnds[Total]
      <3>1. RowEnds[i] \in Nat /\ RowEnds[i] > 0
        BY <2>1, SizesAssumption
      <3>2. i = Total \/ RowEnds[i] < RowEnds[Total]
        BY <1>5, <2>1, SizesAssumption
      <3> QED BY <1>5, <1>6, <3>1, <3>2
    <2>3. RowEnds[i] \in 1..Len(wire)
      BY <1>5, <1>6, <2>2
    <2>4. PICK j \in Wanted : \E u \in 1..Size(j) : wire[RowEnds[i]] = <<j, u>> /\ 0 + RowEnds[i] = RowEnds[j - 1] + u
      BY <1>1, <2>3 DEF StreamInv, Follows, Placed
    <2>5. PICK u \in 1..Size(j) : wire[RowEnds[i]] = <<j, u>> /\ RowEnds[i] = RowEnds[j - 1] + u
      BY <2>2, <2>4
    <2>6. j \in 1..(2 * MaxRows)
      BY <1>5, SizesAssumption DEF Wanted, Total
    <2>7. j = i /\ u = Size(i)
      BY <2>1, <2>5, <2>6, OneRow
    <2> QED BY <2>3, <2>5, <2>7
  <1> QED BY <1>4, <1>6, <1>7

LEMMA Consequences == Inv => WireInOrder /\ WriterJoined /\ CompleteMeansAll /\ OwnFaultReported
  <1> SUFFICES ASSUME Inv PROVE WireInOrder /\ WriterJoined /\ CompleteMeansAll /\ OwnFaultReported
    OBVIOUS
  <1>1. StreamInv /\ AnswerInv /\ JoinInv
    BY DEF Inv
  <1>2. WireInOrder
    <2>1. ASSUME NEW k \in 1..Len(wire) PROVE Placed(Wanted, wire[k], k)
      <3>1. Placed(Wanted, wire[k], 0 + k) /\ 0 + k = k
        BY <1>1 DEF StreamInv, Follows
      <3> QED BY <3>1
    <2> QED BY <2>1 DEF WireInOrder, IsWire, Placed
  <1>3. WriterJoined /\ OwnFaultReported
    BY <1>1 DEF JoinInv, WriterJoined, OwnFaultReported
  <1>4. CompleteMeansAll
    <2>1. ret = "ok" => early \/ sent = "complete"
      BY <1>1, Zenon DEF AnswerInv
    <2> QED BY <2>1, CompleteBody, Zenon DEF CompleteMeansAll, Total
  <1> QED BY <1>2, <1>3, <1>4

\* The variables keep their types and the writer never holds more than its
\* buffer, whatever the sizes of the rows and of the buffer: a row may be cut
\* over it, or be longer than it and pass it by (writeRows through bufio).
THEOREM TypeCorrect == Spec => []TypeOK
  BY Invariance, PTL DEF Inv

\* Whatever the sizes of rows and buffer, what BatchLoad puts on the wire is a
\* prefix of the rows in order, with no unit of a refused row.
THEOREM BodyInOrder == Spec => []WireInOrder
  BY Invariance, Consequences, PTL

\* stop waits for the writer: no call returns while its goroutine may still
\* iterate the caller's sequences.
THEOREM NoWriterBehind == Spec => []WriterJoined
  BY Invariance, Consequences, PTL

\* CloseWithError: only an upload that wrote every row ends its body with EOF,
\* and success means that, or an answer the server finished early.
THEOREM EofMeansAll == Spec => []CompleteMeansAll
  BY Invariance, Consequences, PTL

\* fail prefers the upload's own error, and a sequence's panic is raised once.
THEOREM FaultReported == Spec => []OwnFaultReported
  BY Invariance, Consequences, PTL

\* Action property: a call that has returned is over for its caller: no row is taken from
\* the sequences, no unit of the body leaves and the result stays, whatever the transport
\* and the server still do with the request (batch.go: stop waits for writeRows on every
\* way out, BatchLoadStream's deferred one included).
THEOREM ReturnIsFinal == Spec => [][pc = "done" => UNCHANGED <<at, werr, wire, raised, ret>>]_vars
  <1>1. Inv /\ [Next]_vars => [pc = "done" => UNCHANGED <<at, werr, wire, raised, ret>>]_vars
    <2> SUFFICES ASSUME Inv, [Next]_vars, pc = "done" PROVE UNCHANGED <<at, werr, wire, raised, ret>>
      OBVIOUS
    <2>1. wpc = "ended" /\ pipe = <<>>
      BY DEF Inv, JoinInv, WriterInv
    <2>2. ~Writer /\ ~Call /\ ~StreamEnds
      BY <2>1 DEF Writer, NextRow, FillBuffer, Flush, WriteReturns, CloseWriter, SendResult,
                  Call, Responded, BodyRead, Stop, Join, DeferredStop, StreamEnds
    <2>3. CASE Net
      <3>1. ~NetReads
        BY <2>1, EmptyUnits DEF NetReads
      <3> QED BY <2>3, <3>1 DEF Net, NetReadsEnd, NetReadsError, NetFails, Breaks, SrvAnswers, SrvEnds,
                                netFrame, writer, call
    <2>4. CASE UNCHANGED vars
      BY <2>4 DEF vars, writer, net, call
    <2> QED BY <2>2, <2>3, <2>4 DEF Next
  <1> QED BY Invariance, <1>1, PTL DEF Spec
=============================================================================
