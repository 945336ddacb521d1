------------------------ MODULE GrpcResultStreamProofs ------------------------
(***************************************************************************)
(* Proofs about GrpcResultStream, for answers of every length and messages *)
(* of every size: the inductive invariant Inv below, the property the run  *)
(* checks, and the refinement of RecordStream.                             *)
(***************************************************************************)
EXTENDS GrpcResultStream, TLAPS

(* The inductive invariant. *)

Types ==
  /\ batches \in Answers /\ sent \in 0..Len(batches) /\ got \in 0..sent
  /\ status \in {"open", "ok", "error"} /\ ctx \in {"none", "live", "done"}
  /\ pc \in {"start", "open", "recv", "batch", "loop", "defer", "done"}
  /\ next \in Nat /\ err \in {"open", "status", "left", "none"}

\* The RPC's context lives from its derivation to the return; the server says
\* OK only once the whole answer is sent.
RpcInv ==
  /\ ctx = (CASE pc = "start" -> "none" [] pc = "done" -> "done" [] OTHER -> "live")
  /\ status = "ok" => sent = Len(batches)
  /\ pc \in {"start", "open"} => sent = 0

\* What was seen is everything received, but for the rest of the message the
\* loop is in.
SeenInv ==
  /\ pc \in {"start", "open", "recv"} => seen = Records(got) /\ err = "none"
  /\ pc \in {"batch", "loop"} =>
       /\ got \in 1..sent /\ next <= batches[got] /\ err = "none"
       /\ seen = Records(got - 1) \union {Position(got, r) : r \in 1..next}

\* Why the range ended, and what it had seen by then.
EndInv ==
  pc \in {"defer", "done"} =>
    /\ err = "none" => status = "ok" /\ seen = Records(Len(batches))
    /\ err = "status" => cancelled \/ (status = "error" /\ seen = Records(sent))

Inv == Types /\ cancelled \in BOOLEAN /\ RpcInv /\ SeenInv /\ EndInv

-----------------------------------------------------------------------------
(* Positions in an answer. *)

LEMMA AnswerParts ==
  ASSUME NEW a \in Answers
  PROVE  /\ Len(a) \in 0..MaxMessages /\ Len(a) \in Nat
         /\ \A b \in 1..Len(a) : a[b] \in 0..MaxBatch
  <1>1. PICK n \in 0..MaxMessages : a \in [1..n -> 0..MaxBatch]
    BY DEF Answers
  <1>2. n \in Nat /\ Len(a) = n
    BY <1>1, BoundsAssumption
  <1> QED BY <1>1, <1>2

LEMMA PositionIsNat ==
  ASSUME NEW b \in Nat \ {0}, NEW r \in Nat
  PROVE  Position(b, r) \in Nat
  <1>1. MaxBatch \in Nat /\ b - 1 \in Nat
    BY BoundsAssumption
  <1>2. (b - 1) * MaxBatch \in Nat
    BY <1>1
  <1> QED BY <1>2 DEF Position

\* Positions are ordered as the messages are, and within a message as its items.
LEMMA PositionOrder ==
  ASSUME NEW b \in Nat \ {0}, NEW r \in 1..MaxBatch, NEW c \in Nat \ {0}, NEW q \in 1..MaxBatch
  PROVE  /\ b < c => Position(b, r) < Position(c, q)
         /\ b = c => (Position(b, r) < Position(c, q) <=> r < q)
  <1>1. MaxBatch \in Nat \ {0} /\ r \in Nat /\ q \in Nat
    BY BoundsAssumption
  <1>2. ASSUME b < c PROVE Position(b, r) < Position(c, q)
    <2>1. PICK d \in Nat : c = b + d + 1
      <3>1. c - b - 1 \in Nat /\ c = b + (c - b - 1) + 1
        BY <1>2
      <3> QED BY <3>1
    <2>2. (c - 1) * MaxBatch = (b - 1) * MaxBatch + d * MaxBatch + MaxBatch
      BY <1>1, <2>1
    <2>3. d * MaxBatch >= 0 /\ (b - 1) * MaxBatch \in Nat /\ d * MaxBatch \in Nat
      BY <1>1, <2>1
    <2>4. (b - 1) * MaxBatch + r < (c - 1) * MaxBatch + q
      BY <1>1, <2>2, <2>3
    <2> QED BY <2>4 DEF Position
  <1>3. (b - 1) * MaxBatch \in Nat
    BY <1>1
  <1>4. b = c => (Position(b, r) < Position(c, q) <=> r < q)
    BY <1>1, <1>3 DEF Position
  <1> QED BY <1>2, <1>4

LEMMA RecordsParts ==
  ASSUME Types, NEW n \in 0..Len(batches), NEW i
  PROVE  i \in Records(n) <=> \E b \in 1..n, r \in 1..MaxBatch : r <= batches[b] /\ i = Position(b, r)
  <1>1. Len(batches) \in Nat /\ \A b \in 1..Len(batches) : batches[b] \in 0..MaxBatch
    BY AnswerParts DEF Types
  <1>2. \A b \in 1..n : 1..batches[b] = {r \in 1..MaxBatch : r <= batches[b]}
    BY <1>1, BoundsAssumption
  <1> QED BY <1>2 DEF Records

\* Every item has one of the positions.
LEMMA RecordsInPositions ==
  ASSUME Types, NEW n \in 0..Len(batches)
  PROVE  Records(n) \subseteq Positions /\ Records(n) \subseteq Records(Len(batches))
  <1>1. Len(batches) \in 0..MaxMessages /\ Len(batches) \in Nat /\ Len(batches) \in 0..Len(batches)
    BY AnswerParts DEF Types
  <1>2. ASSUME NEW i \in Records(n) PROVE i \in Positions
    <2>1. PICK b \in 1..n, r \in 1..MaxBatch : i = Position(b, r)
      BY RecordsParts
    <2>2. MaxBatch \in Nat \ {0} /\ MaxMessages \in Nat /\ b \in Nat \ {0} /\ r \in Nat /\ b <= MaxMessages
      BY <1>1, <2>1, BoundsAssumption
    <2>3. PICK d \in Nat : MaxMessages = b + d
      <3>1. MaxMessages - b \in Nat /\ MaxMessages = b + (MaxMessages - b)
        BY <2>2
      <3> QED BY <3>1
    <2>4. /\ (b - 1) * MaxBatch \in Nat /\ d * MaxBatch \in Nat
          /\ MaxMessages * MaxBatch = (b - 1) * MaxBatch + MaxBatch + d * MaxBatch
      BY <2>2, <2>3
    <2>5. (b - 1) * MaxBatch + r \in 1..(MaxMessages * MaxBatch)
      BY <2>1, <2>2, <2>4
    <2> QED BY <2>1, <2>5 DEF Position, Positions
  <1>3. ASSUME NEW i \in Records(n) PROVE i \in Records(Len(batches))
    <2>1. \E b \in 1..n, r \in 1..MaxBatch : r <= batches[b] /\ i = Position(b, r)
      BY RecordsParts
    <2>2. \E b \in 1..Len(batches), r \in 1..MaxBatch : r <= batches[b] /\ i = Position(b, r)
      BY <1>1, <2>1
    <2> QED BY <1>1, <2>2, RecordsParts
  <1> QED BY <1>2, <1>3

\* One more message adds its items.
LEMMA RecordsStep ==
  ASSUME NEW n \in Nat \ {0}
  PROVE  Records(n) = Records(n - 1) \union {Position(n, r) : r \in 1..batches[n]}
  <1>1. 1..n = (1..(n - 1)) \union {n}
    OBVIOUS
  <1> QED BY <1>1 DEF Records

LEMMA NoRecords == Records(0) = {}
  <1>1. 1..0 = {}
    OBVIOUS
  <1> QED BY <1>1 DEF Records

\* The answer does not change.
LEMMA SameAnswer == ASSUME batches' = batches PROVE \A n : Records(n)' = Records(n)
  BY DEF Records

-----------------------------------------------------------------------------
(* The steps. *)

LEMMA InitInv == Init => Inv
  <1> SUFFICES ASSUME Init PROVE Inv
    OBVIOUS
  <1>1. /\ batches \in Answers /\ sent = 0 /\ status = "open" /\ cancelled = FALSE
        /\ ctx = "none" /\ pc = "start" /\ got = 0 /\ next = 0 /\ seen = {} /\ err = "none"
    BY DEF Init
  <1>2. Len(batches) \in Nat
    BY <1>1, AnswerParts
  <1>3. Types /\ RpcInv /\ SeenInv /\ EndInv
    BY <1>1, <1>2, NoRecords DEF Types, RpcInv, SeenInv, EndInv
  <1>4. cancelled \in BOOLEAN
    BY <1>1, Zenon
  <1> QED BY <1>3, <1>4 DEF Inv

LEMMA MessageStep == ASSUME Inv, Message PROVE Inv'
  <1>1. /\ ctx = "live" /\ pc # "open" /\ status = "open" /\ sent < Len(batches) /\ sent' = sent + 1
        /\ batches' = batches /\ status' = status /\ cancelled' = cancelled /\ ctx' = ctx /\ pc' = pc
        /\ got' = got /\ next' = next /\ seen' = seen /\ err' = err
    BY DEF Message, Running
  <1>2. Types /\ RpcInv /\ SeenInv /\ EndInv /\ Len(batches) \in Nat
    BY AnswerParts DEF Inv, Types
  <1>3. \A n : Records(n)' = Records(n)
    BY <1>1, SameAnswer
  <1>4. Types' /\ RpcInv'
    BY <1>1, <1>2 DEF Types, RpcInv
  <1>5. SeenInv'
    BY <1>1, <1>2, <1>3 DEF SeenInv, Types
  <1>6. EndInv'
    BY <1>1, <1>2 DEF EndInv
  <1>7. cancelled' \in BOOLEAN
    BY <1>1, Zenon DEF Inv
  <1> QED BY <1>4, <1>5, <1>6, <1>7 DEF Inv

LEMMA FinishStep == ASSUME Inv, NEW how \in {"ok", "error"}, Finish(how) PROVE Inv'
  <1>1. /\ ctx = "live" /\ pc # "open" /\ status = "open" /\ status' = how
        /\ how = "ok" => sent = Len(batches)
        /\ batches' = batches /\ sent' = sent /\ cancelled' = cancelled /\ ctx' = ctx /\ pc' = pc
        /\ got' = got /\ next' = next /\ seen' = seen /\ err' = err
    BY DEF Finish, Running
  <1>2. Types /\ RpcInv /\ SeenInv /\ EndInv
    BY DEF Inv
  <1>3. \A n : Records(n)' = Records(n)
    BY <1>1, SameAnswer
  <1>4. Types' /\ RpcInv'
    BY <1>1, <1>2 DEF Types, RpcInv
  <1>5. SeenInv'
    BY <1>1, <1>2, <1>3 DEF SeenInv, Types
  <1>6. EndInv'
    BY <1>1, <1>2 DEF EndInv
  <1>7. cancelled' \in BOOLEAN
    BY <1>1, Zenon DEF Inv
  <1> QED BY <1>4, <1>5, <1>6, <1>7 DEF Inv

LEMMA CancelStep == ASSUME Inv, Cancel PROVE Inv'
  <1>1. /\ cancelled' = TRUE
        /\ batches' = batches /\ sent' = sent /\ status' = status /\ ctx' = ctx /\ pc' = pc
        /\ got' = got /\ next' = next /\ seen' = seen /\ err' = err
    BY DEF Cancel
  <1>2. Types /\ RpcInv /\ SeenInv /\ EndInv
    BY DEF Inv
  <1>3. \A n : Records(n)' = Records(n)
    BY <1>1, SameAnswer
  <1>4. Types' /\ RpcInv'
    BY <1>1, <1>2 DEF Types, RpcInv
  <1>5. SeenInv'
    BY <1>1, <1>2, <1>3 DEF SeenInv, Types
  <1>6. EndInv'
    BY <1>1, <1>2, <1>3 DEF EndInv
  <1> QED BY <1>1, <1>4, <1>5, <1>6, Zenon DEF Inv

\* What a step of the range leaves alone.
LEMMA RangeFrame ==
  ASSUME Inv, UNCHANGED rpc
  PROVE  /\ batches' = batches /\ sent' = sent /\ status' = status /\ cancelled' = cancelled
         /\ (\A n : Records(n)' = Records(n)) /\ cancelled' \in BOOLEAN
         /\ Types /\ RpcInv /\ SeenInv /\ EndInv
         /\ Len(batches) \in Nat /\ (\A b \in 1..Len(batches) : batches[b] \in 0..MaxBatch)
  <1>1. batches' = batches /\ sent' = sent /\ status' = status /\ cancelled' = cancelled
    BY DEF rpc
  <1>2. cancelled' \in BOOLEAN
    BY <1>1, Zenon DEF Inv
  <1>3. Types /\ RpcInv /\ SeenInv /\ EndInv
    BY DEF Inv
  <1>4. Len(batches) \in Nat /\ (\A b \in 1..Len(batches) : batches[b] \in 0..MaxBatch)
    BY <1>3, AnswerParts DEF Types
  <1> QED BY <1>1, <1>2, <1>3, <1>4, SameAnswer

LEMMA DeriveStep == ASSUME Inv, Derive PROVE Inv'
  <1>1. /\ pc = "start" /\ ctx' = "live" /\ pc' = "open" /\ UNCHANGED rpc
        /\ got' = got /\ next' = next /\ seen' = seen /\ err' = err
    BY DEF Derive
  <1>2. Types' /\ RpcInv' /\ EndInv'
    BY <1>1, RangeFrame DEF Types, RpcInv, EndInv
  <1>3. SeenInv'
    BY <1>1, RangeFrame DEF SeenInv
  <1> QED BY <1>1, <1>2, <1>3, RangeFrame DEF Inv

LEMMA OpenStep == ASSUME Inv, Open PROVE Inv'
  <1>1. /\ pc = "open" /\ UNCHANGED rpc /\ ctx' = ctx /\ got' = got /\ next' = next /\ seen' = seen
        /\ \/ err' = "open" /\ pc' = "defer"
           \/ pc' = "recv" /\ err' = err
    BY DEF Open, Yields
  <1>2. Types' /\ RpcInv' /\ EndInv'
    BY <1>1, RangeFrame DEF Types, RpcInv, EndInv
  <1>3. SeenInv'
    BY <1>1, RangeFrame DEF SeenInv
  <1> QED BY <1>1, <1>2, <1>3, RangeFrame DEF Inv

LEMMA ReceiveStep == ASSUME Inv, Receive PROVE Inv'
  <1>1. /\ pc = "recv" /\ got < sent /\ got' = got + 1 /\ next' = 0 /\ pc' = "batch"
        /\ UNCHANGED rpc /\ ctx' = ctx /\ seen' = seen /\ err' = err
    BY DEF Receive
  <1>2. sent \in 0..Len(batches) /\ got \in 0..sent /\ seen = Records(got) /\ err = "none"
    BY <1>1, RangeFrame DEF Types, SeenInv
  <1>3. got + 1 \in 1..sent /\ got + 1 \in 0..sent /\ batches[got + 1] \in 0..MaxBatch
    BY <1>1, <1>2, RangeFrame
  <1>4. Types' /\ RpcInv' /\ EndInv'
    BY <1>1, <1>3, RangeFrame DEF Types, RpcInv, EndInv
  <1>5. SeenInv'
    <2>1. got' - 1 = got
      BY <1>1, <1>2, RangeFrame
    <2>2. 1..next' = {} /\ next' <= batches'[got'] /\ got' \in 1..sent'
      BY <1>1, <1>3, RangeFrame
    <2>3. seen' = Records(got' - 1) \union {Position(got', r) : r \in 1..next'}
      BY <1>1, <1>2, <2>1, <2>2
    <2>4. seen' = Records(got - 1)' \union {Position(got', r) : r \in 1..next'}
      BY <2>3, RangeFrame, <1>1 DEF Records
    <2> QED BY <1>1, <1>2, <2>2, <2>4 DEF SeenInv
  <1> QED BY <1>1, <1>4, <1>5, RangeFrame DEF Inv

LEMMA EndsStep == ASSUME Inv, Ends PROVE Inv'
  <1>1. /\ pc = "recv" /\ pc' = "defer" /\ UNCHANGED rpc
        /\ ctx' = ctx /\ got' = got /\ next' = next /\ seen' = seen
        /\ \/ got = sent /\ status = "ok" /\ err' = err
           \/ got = sent /\ status = "error" /\ err' = "status"
           \/ cancelled /\ err' = "status"
    BY DEF Ends, Yields
  <1>2. seen = Records(got) /\ err = "none" /\ (status = "ok" => sent = Len(batches))
    BY <1>1, RangeFrame DEF SeenInv, RpcInv
  <1>3. Types' /\ RpcInv' /\ SeenInv'
    BY <1>1, <1>2, RangeFrame DEF Types, RpcInv, SeenInv
  <1>4. EndInv'
    <2>1. err' = "none" => status = "ok" /\ seen = Records(Len(batches))
      BY <1>1, <1>2
    <2>2. err' = "status" => cancelled \/ (status = "error" /\ seen = Records(sent))
      BY <1>1, <1>2
    <2> QED BY <1>1, <2>1, <2>2, RangeFrame DEF EndInv, Records
  <1> QED BY <1>1, <1>3, <1>4, RangeFrame DEF Inv

LEMMA YieldRecordStep == ASSUME Inv, YieldRecord PROVE Inv'
  <1>1. /\ pc = "batch" /\ next < batches[got] /\ next' = next + 1 /\ pc' = "loop"
        /\ seen' = seen \union {Position(got, next')}
        /\ UNCHANGED rpc /\ ctx' = ctx /\ got' = got /\ err' = err
    BY DEF YieldRecord
  <1>2. /\ sent \in 0..Len(batches) /\ got \in 1..sent /\ next \in Nat /\ err = "none"
        /\ seen = Records(got - 1) \union {Position(got, r) : r \in 1..next}
    BY <1>1, RangeFrame DEF Types, SeenInv
  <1>3. batches[got] \in 0..MaxBatch
    <2>1. got \in 1..Len(batches)
      BY <1>1, <1>2, RangeFrame
    <2> QED BY <1>1, <2>1, RangeFrame
  <1>4. Types' /\ RpcInv' /\ EndInv'
    BY <1>1, <1>2, RangeFrame DEF Types, RpcInv, EndInv
  <1>5. SeenInv'
    <2>1. next + 1 <= batches[got] /\ next + 1 \in Nat
      BY <1>1, <1>2, <1>3, BoundsAssumption
    <2>2. 1..(next + 1) = (1..next) \union {next + 1}
      BY <1>2
    <2>3. seen' = Records(got - 1) \union {Position(got, r) : r \in 1..(next + 1)}
      BY <1>1, <1>2, <2>2
    <2>4. seen' = Records(got - 1)' \union {Position(got', r) : r \in 1..next'}
      BY <1>1, <2>3, RangeFrame DEF Records
    <2>5. got' \in 1..sent' /\ next' <= batches'[got'] /\ err' = "none"
      BY <1>1, <1>2, <2>1, RangeFrame
    <2> QED BY <1>1, <2>4, <2>5 DEF SeenInv
  <1> QED BY <1>1, <1>4, <1>5, RangeFrame DEF Inv

LEMMA NextMessageStep == ASSUME Inv, NextMessage PROVE Inv'
  <1>1. /\ pc = "batch" /\ next = batches[got] /\ pc' = "recv" /\ UNCHANGED rpc
        /\ ctx' = ctx /\ got' = got /\ next' = next /\ seen' = seen /\ err' = err
    BY DEF NextMessage
  <1>2. /\ sent \in 0..Len(batches) /\ got \in 1..sent /\ err = "none"
        /\ seen = Records(got - 1) \union {Position(got, r) : r \in 1..next}
    BY <1>1, RangeFrame DEF Types, SeenInv
  <1>3. seen = Records(got)
    <2>1. got \in Nat \ {0}
      BY <1>2, RangeFrame
    <2> QED BY <1>1, <1>2, <2>1, RecordsStep
  <1>4. Types' /\ RpcInv' /\ EndInv'
    BY <1>1, RangeFrame DEF Types, RpcInv, EndInv
  <1>5. SeenInv'
    BY <1>1, <1>2, <1>3, RangeFrame DEF SeenInv
  <1> QED BY <1>1, <1>4, <1>5, RangeFrame DEF Inv

LEMMA ContinueStep == ASSUME Inv, Continue PROVE Inv'
  <1>1. /\ pc = "loop" /\ pc' = "batch" /\ UNCHANGED rpc
        /\ ctx' = ctx /\ got' = got /\ next' = next /\ seen' = seen /\ err' = err
    BY DEF Continue
  <1>2. Types' /\ RpcInv' /\ EndInv'
    BY <1>1, RangeFrame DEF Types, RpcInv, EndInv
  <1>3. SeenInv'
    BY <1>1, RangeFrame DEF SeenInv, Records
  <1> QED BY <1>1, <1>2, <1>3, RangeFrame DEF Inv

LEMMA LeaveStep == ASSUME Inv, Leave PROVE Inv'
  <1>1. /\ pc = "loop" /\ pc' = "defer" /\ err' = "left" /\ UNCHANGED rpc
        /\ ctx' = ctx /\ got' = got /\ next' = next /\ seen' = seen
    BY DEF Leave
  <1>2. Types' /\ RpcInv' /\ EndInv' /\ SeenInv'
    BY <1>1, RangeFrame DEF Types, RpcInv, EndInv, SeenInv
  <1> QED BY <1>1, <1>2, RangeFrame DEF Inv

LEMMA ReturnStep == ASSUME Inv, Return PROVE Inv'
  <1>1. /\ pc = "defer" /\ pc' = "done" /\ ctx' = "done" /\ UNCHANGED rpc
        /\ got' = got /\ next' = next /\ seen' = seen /\ err' = err
    BY DEF Return
  <1>2. Types' /\ RpcInv' /\ SeenInv'
    BY <1>1, RangeFrame DEF Types, RpcInv, SeenInv
  <1>3. EndInv'
    BY <1>1, RangeFrame DEF EndInv, Records
  <1> QED BY <1>1, <1>2, <1>3, RangeFrame DEF Inv

\* A step that changes nothing.
LEMMA StutterStep == ASSUME Inv, UNCHANGED vars PROVE Inv'
  <1>1. /\ UNCHANGED rpc /\ pc' = pc /\ ctx' = ctx /\ got' = got /\ next' = next /\ seen' = seen /\ err' = err
    BY DEF vars
  <1>2. Types' /\ RpcInv'
    BY <1>1, RangeFrame DEF Types, RpcInv
  <1>3. EndInv' /\ SeenInv'
    BY <1>1, RangeFrame DEF EndInv, SeenInv, Records
  <1> QED BY <1>1, <1>2, <1>3, RangeFrame DEF Inv

LEMMA NextInv == ASSUME Inv, [Next]_vars PROVE Inv'
  <1>1. CASE Next
    BY <1>1, MessageStep, FinishStep, CancelStep, DeriveStep, OpenStep, ReceiveStep, EndsStep,
       YieldRecordStep, NextMessageStep, ContinueStep, LeaveStep, ReturnStep DEF Next
  <1>2. CASE UNCHANGED vars
    BY <1>2, StutterStep
  <1> QED BY <1>1, <1>2

THEOREM Invariance == Spec => []Inv
  BY InitInv, NextInv, PTL DEF Spec

\* recvAll ends without an error only at io.EOF, after every batch of the
\* answer was flattened; a failed RPC never looks like a shorter answer.
THEOREM EndSeesAll == Spec => []EndIsWhole
  <1>1. Inv => EndIsWhole
    BY DEF Inv, EndInv, EndIsWhole
  <1> QED BY <1>1, Invariance, PTL

-----------------------------------------------------------------------------
(* The refinement of RecordStream. *)

Items == Records(Len(batches))
Arrived == Records(sent)
Verdict == CASE err = "none" -> (IF pc \in {"defer", "done"} THEN "end" ELSE "none")
             [] err = "left" -> "left"
             [] OTHER -> "error"

LEMMA InitRefines == Init => Contract!Init
  <1> SUFFICES ASSUME Init PROVE Contract!Init
    OBVIOUS
  <1>1. Types /\ Inv
    BY InitInv DEF Inv
  <1>2. Len(batches) \in 0..Len(batches)
    BY AnswerParts DEF Init
  <1>3. Items \in SUBSET Positions
    BY <1>1, <1>2, RecordsInPositions DEF Items
  <1>4. Arrived = {} /\ seen = {} /\ Verdict = "none"
    BY NoRecords DEF Init, Arrived, Verdict
  <1>5. (ctx = "live") = FALSE /\ (pc = "done") = FALSE
    BY DEF Init
  <1> QED BY <1>3, <1>4, <1>5 DEF Contract!Init, Items, Arrived, Verdict

\* A step of the range that yields no item, ends nothing and holds on to what
\* it holds.
LEMMA StutterRefines ==
  ASSUME batches' = batches, sent' = sent, seen' = seen, err' = err, ctx' = ctx,
         (pc \notin {"defer", "done"} /\ pc' \notin {"defer", "done"}) \/ pc' = pc
  PROVE  UNCHANGED Contract!vars
  <1>1. Items' = Items /\ Arrived' = Arrived
    BY DEF Items, Arrived, Records
  <1>2. Verdict' = Verdict
    BY DEF Verdict
  <1>3. (ctx = "live")' = (ctx = "live") /\ (pc = "done")' = (pc = "done")
    OBVIOUS
  <1> QED BY <1>1, <1>2, <1>3 DEF Contract!vars, Items, Arrived, Verdict

LEMMA MessageRefines == ASSUME Inv, Message PROVE Contract!Next
  <1>1. /\ sent < Len(batches) /\ sent' = sent + 1 /\ batches' = batches /\ ctx' = ctx /\ pc' = pc
        /\ seen' = seen /\ err' = err
    BY DEF Message
  <1>2. Types /\ sent \in 0..Len(batches) /\ Len(batches) \in Nat
    BY AnswerParts DEF Inv, Types
  <1>3. sent + 1 \in 0..Len(batches) /\ sent + 1 \in Nat \ {0} /\ (sent + 1) - 1 = sent
    BY <1>1, <1>2
  <1>4. Records(sent + 1) \subseteq Items
    BY <1>2, <1>3, RecordsInPositions DEF Items
  <1>5. Records(sent) \subseteq Records(sent + 1)
    BY <1>3, RecordsStep
  <1>6. Items' = Items /\ Arrived' = Records(sent + 1)
    BY <1>1 DEF Items, Arrived, Records
  <1>7. Verdict' = Verdict /\ (ctx = "live")' = (ctx = "live") /\ (pc = "done")' = (pc = "done")
    BY <1>1 DEF Verdict
  <1>8. Contract!Arrive
    BY <1>1, <1>4, <1>5, <1>6, <1>7 DEF Contract!Arrive, Items, Arrived, Verdict
  <1> QED BY <1>8 DEF Contract!Next

LEMMA DeriveRefines == ASSUME Inv, Derive PROVE Contract!Next
  <1>1. /\ pc = "start" /\ ctx' = "live" /\ pc' = "open" /\ UNCHANGED rpc
        /\ seen' = seen /\ err' = err
    BY DEF Derive
  <1>2. batches' = batches /\ sent' = sent
    BY <1>1 DEF rpc
  <1>3. ctx = "none" /\ seen = Records(got) /\ err = "none" /\ sent = 0 /\ got = 0
    BY <1>1, RangeFrame DEF RpcInv, SeenInv, Types
  <1>4. seen = {} /\ Verdict = "none" /\ Verdict' = Verdict
    BY <1>1, <1>3, NoRecords DEF Verdict
  <1>5. Items' = Items /\ Arrived' = Arrived
    BY <1>2 DEF Items, Arrived, Records
  <1>6. (ctx = "live")' = TRUE /\ ~(ctx = "live") /\ (pc = "done")' = (pc = "done")
    BY <1>1, <1>3
  <1>7. Contract!Acquire
    BY <1>1, <1>4, <1>5, <1>6 DEF Contract!Acquire, Items, Arrived, Verdict
  <1> QED BY <1>7 DEF Contract!Next

\* Every way to the deferred cancel ends the loop once.
LEMMA EndRefines ==
  ASSUME Inv, pc \in {"open", "recv", "loop"}, pc' = "defer", UNCHANGED rpc, seen' = seen, ctx' = ctx,
         err' \in {"none", "open", "status", "left"}
  PROVE  Contract!Next
  <1>1. batches' = batches /\ sent' = sent
    BY DEF rpc
  <1>2. err = "none"
    BY RangeFrame DEF SeenInv
  <1>3. Verdict = "none" /\ Verdict' \in {"end", "error", "left"}
    BY <1>2 DEF Verdict
  <1>4. Items' = Items /\ Arrived' = Arrived
    BY <1>1 DEF Items, Arrived, Records
  <1>5. (ctx = "live")' = (ctx = "live") /\ (pc = "done")' = (pc = "done")
    OBVIOUS
  <1>6. \E how \in {"end", "error", "left"} : Contract!End(how)
    BY <1>3, <1>4, <1>5 DEF Contract!End, Items, Arrived, Verdict
  <1> QED BY <1>6 DEF Contract!Next

LEMMA YieldRefines == ASSUME Inv, YieldRecord PROVE Contract!Next
  <1>1. /\ pc = "batch" /\ next < batches[got] /\ next' = next + 1 /\ pc' = "loop"
        /\ seen' = seen \union {Position(got, next')}
        /\ UNCHANGED rpc /\ ctx' = ctx /\ err' = err
    BY DEF YieldRecord
  <1>2. batches' = batches /\ sent' = sent
    BY <1>1 DEF rpc
  <1>3. /\ sent \in 0..Len(batches) /\ got \in 1..sent /\ next \in Nat /\ err = "none" /\ ctx = "live"
        /\ seen = Records(got - 1) \union {Position(got, r) : r \in 1..next}
    BY <1>1, RangeFrame DEF Types, SeenInv, RpcInv
  <1>4. batches[got] \in 0..MaxBatch /\ Len(batches) \in Nat /\ Types
    <2>1. got \in 1..Len(batches)
      BY <1>1, <1>3, RangeFrame
    <2> QED BY <1>1, <2>1, RangeFrame
  <1>5. PICK i : i = Position(got, next + 1)
    OBVIOUS
  <1>6. /\ got \in Nat \ {0} /\ next + 1 \in 1..MaxBatch /\ next + 1 <= batches[got]
        /\ got - 1 \in 0..Len(batches) /\ sent \in 0..Len(batches) /\ Len(batches) \in 0..Len(batches)
    BY <1>1, <1>3, <1>4, BoundsAssumption
  <1>7. ASSUME NEW j
        PROVE  j \in seen <=> \/ \E b \in 1..(got - 1), r \in 1..MaxBatch : r <= batches[b] /\ j = Position(b, r)
                              \/ \E r \in 1..next : j = Position(got, r)
    BY <1>3, <1>4, <1>6, RecordsParts
  <1>8. i \in Arrived /\ i \in Items
    <2>1. got \in 1..sent /\ got \in 1..Len(batches)
      BY <1>3, <1>4
    <2>2. /\ \E b \in 1..sent, r \in 1..MaxBatch : r <= batches[b] /\ i = Position(b, r)
          /\ \E b \in 1..Len(batches), r \in 1..MaxBatch : r <= batches[b] /\ i = Position(b, r)
      BY <1>5, <1>6, <2>1
    <2> QED BY <1>4, <1>6, <2>2, RecordsParts DEF Arrived, Items
  <1>9. ASSUME NEW j \in Items PROVE j < i <=> j \in seen
    <2>1. PICK b \in 1..Len(batches), r \in 1..MaxBatch : r <= batches[b] /\ j = Position(b, r)
      BY <1>4, <1>6, RecordsParts DEF Items
    <2>2. b \in Nat \ {0} /\ r \in Nat \ {0} /\ Position(b, r) \in Nat /\ Position(got, next + 1) \in Nat
      <3>1. b \in Nat \ {0} /\ r \in Nat \ {0} /\ next + 1 \in Nat
        BY <1>4, <1>6, <2>1, BoundsAssumption
      <3> QED BY <1>6, <3>1, PositionIsNat
    <2>3. CASE b < got
      <3>1. j < i
        BY <1>5, <1>6, <2>1, <2>2, <2>3, PositionOrder
      <3>2. b \in 1..(got - 1)
        BY <1>6, <2>1, <2>2, <2>3
      <3> QED BY <1>7, <2>1, <3>1, <3>2
    <2>4. CASE b = got
      <3>1. j < i <=> r < next + 1
        BY <1>5, <1>6, <2>1, <2>2, <2>4, PositionOrder
      <3>2. r <= next => j \in seen
        BY <1>3, <1>7, <2>1, <2>2, <2>4
      <3>3. j \in seen => r <= next
        <4> SUFFICES ASSUME j \in seen, r > next PROVE FALSE
          BY <1>3, <2>2
        <4>1. CASE \E c \in 1..(got - 1), q \in 1..MaxBatch : q <= batches[c] /\ j = Position(c, q)
          <5>1. PICK c \in 1..(got - 1), q \in 1..MaxBatch : j = Position(c, q)
            BY <4>1
          <5>2. c \in Nat \ {0} /\ c < b
            BY <1>6, <2>4, <5>1
          <5>3. Position(c, q) < Position(b, r)
            BY <2>1, <2>2, <5>1, <5>2, PositionOrder
          <5> QED BY <2>1, <2>2, <5>1, <5>3
        <4>2. CASE \E q \in 1..next : j = Position(got, q)
          <5>1. PICK q \in 1..next : j = Position(got, q)
            BY <4>2
          <5>2. q \in 1..MaxBatch /\ q < r
            BY <1>3, <1>6, <2>2, <5>1, BoundsAssumption
          <5>3. Position(b, q) < Position(b, r)
            BY <2>1, <2>2, <5>2, PositionOrder
          <5> QED BY <2>1, <2>2, <2>4, <5>1, <5>3
        <4> QED BY <1>7, <4>1, <4>2
      <3> QED BY <1>3, <2>2, <3>1, <3>2, <3>3
    <2>5. CASE got < b
      <3>1. i < j
        BY <1>5, <1>6, <2>1, <2>2, <2>5, PositionOrder
      <3>2. ~(j < i)
        BY <1>5, <2>1, <2>2, <3>1
      <3>3. j \notin seen
        <4> SUFFICES ASSUME j \in seen PROVE FALSE
          OBVIOUS
        <4>1. PICK c \in 1..got, q \in 1..MaxBatch : j = Position(c, q)
          <5>1. CASE \E c \in 1..(got - 1), q \in 1..MaxBatch : q <= batches[c] /\ j = Position(c, q)
            BY <1>6, <5>1
          <5>2. CASE \E q \in 1..next : j = Position(got, q)
            BY <1>3, <1>6, <5>2, BoundsAssumption
          <5> QED BY <1>7, <5>1, <5>2
        <4>2. c \in Nat \ {0} /\ c < b
          BY <1>6, <2>2, <2>5, <4>1
        <4>3. Position(c, q) < Position(b, r)
          BY <2>1, <2>2, <4>1, <4>2, PositionOrder
        <4> QED BY <2>1, <2>2, <4>1, <4>3
      <3> QED BY <3>2, <3>3
    <2> QED BY <1>6, <2>2, <2>3, <2>4, <2>5
  <1>10. i \notin seen
    <2>1. ~(i < i)
      BY <1>5, <1>6, PositionIsNat
    <2> QED BY <1>8, <1>9, <2>1
  <1>11. Verdict = "none" /\ Verdict' = Verdict
    BY <1>1, <1>3 DEF Verdict
  <1>12. Items' = Items /\ Arrived' = Arrived
    BY <1>2 DEF Items, Arrived, Records
  <1>13. (ctx = "live")' = (ctx = "live") /\ ctx = "live" /\ (pc = "done")' = (pc = "done")
    BY <1>1, <1>3
  <1>14. seen' = seen \union {i}
    BY <1>1, <1>5
  <1>15. Contract!Yield(i)
    BY <1>8, <1>9, <1>10, <1>11, <1>12, <1>13, <1>14 DEF Contract!Yield, Items, Arrived, Verdict
  <1> QED BY <1>8, <1>15 DEF Contract!Next, Items

LEMMA ReturnRefines == ASSUME Inv, Return PROVE Contract!Next
  <1>1. pc = "defer" /\ ctx' = "done" /\ pc' = "done" /\ UNCHANGED rpc /\ seen' = seen /\ err' = err
    BY DEF Return
  <1>2. batches' = batches /\ sent' = sent
    BY <1>1 DEF rpc
  <1>3. Items' = Items /\ Arrived' = Arrived
    BY <1>2 DEF Items, Arrived, Records
  <1>4. Verdict # "none" /\ Verdict' = Verdict
    BY <1>1 DEF Verdict
  <1>5. (ctx = "live")' = FALSE /\ ~(pc = "done") /\ (pc = "done")' = TRUE
    BY <1>1
  <1>6. Contract!Return
    BY <1>1, <1>3, <1>4, <1>5 DEF Contract!Return, Items, Arrived, Verdict
  <1> QED BY <1>6 DEF Contract!Next

LEMMA NextRefines == ASSUME Inv, [Next]_vars PROVE [Contract!Next]_(Contract!vars)
  <1>1. CASE Message
    BY <1>1, MessageRefines
  <1>2. ASSUME NEW how \in {"ok", "error"}, Finish(how) PROVE UNCHANGED Contract!vars
    BY <1>2, StutterRefines DEF Finish
  <1>3. CASE Cancel
    BY <1>3, StutterRefines DEF Cancel
  <1>4. CASE Derive
    BY <1>4, DeriveRefines
  <1>5. CASE Open
    <2>1. /\ pc = "open" /\ UNCHANGED rpc /\ ctx' = ctx /\ seen' = seen
          /\ \/ err' = "open" /\ pc' = "defer"
             \/ pc' = "recv" /\ err' = err
      BY <1>5 DEF Open, Yields
    <2>2. CASE pc' = "defer"
      BY <2>1, <2>2, EndRefines
    <2>3. CASE pc' = "recv"
      BY <2>1, <2>3, StutterRefines DEF rpc
    <2> QED BY <2>1, <2>2, <2>3
  <1>6. CASE Receive \/ NextMessage \/ Continue
    BY <1>6, StutterRefines DEF Receive, NextMessage, Continue, rpc
  <1>7. CASE Ends
    <2>1. /\ pc = "recv" /\ UNCHANGED rpc /\ ctx' = ctx /\ seen' = seen /\ pc' = "defer"
          /\ err' \in {err, "status"}
      BY <1>7 DEF Ends, Yields
    <2>2. err = "none"
      BY <2>1 DEF Inv, SeenInv
    <2> QED BY <2>1, <2>2, EndRefines
  <1>8. CASE YieldRecord
    BY <1>8, YieldRefines
  <1>9. CASE Leave
    BY <1>9, EndRefines DEF Leave
  <1>10. CASE Return
    BY <1>10, ReturnRefines
  <1>11. CASE UNCHANGED vars
    BY <1>11, StutterRefines DEF vars, rpc
  <1> QED BY <1>1, <1>2, <1>3, <1>4, <1>5, <1>6, <1>7, <1>8, <1>9, <1>10, <1>11 DEF Next

\* A range over StreamQuery or TimeSeriesQuery (streamQuery, recvAll) keeps
\* the contract of a result stream: items in order, one end, nothing held.
THEOREM ImplementsContract == Spec => ContractSpec
  <1>1. Init => Contract!Init
    BY InitRefines
  <1>2. Inv /\ [Next]_vars => [Contract!Next]_(Contract!vars)
    BY NextRefines
  <1> QED BY <1>1, <1>2, Invariance, PTL DEF Spec, ContractSpec, Contract!Spec

-----------------------------------------------------------------------------
(* What the contract means for the caller's loop. *)

Answer == Records(Len(batches))
InOrder == \A i \in seen : \A j \in Answer : j < i => j \in seen

LEMMA OrderIsKept == ASSUME InOrder, [Contract!Next]_(Contract!vars) PROVE InOrder'
  BY DEF InOrder, Answer, Contract!Next, Contract!vars, Contract!Arrive, Contract!Acquire, Contract!Yield,
         Contract!End, Contract!Return

\* At every moment the records the loop has seen are the first ones of the answer: nothing
\* that implements RecordStream can skip a record or hand two out of order, whatever the
\* batches and however they arrive.
THEOREM RecordsInOrder == Spec => []InOrder
  <1>1. Contract!Init => InOrder
    BY DEF InOrder, Contract!Init
  <1> QED BY <1>1, OrderIsKept, ImplementsContract, PTL DEF ContractSpec, Contract!Spec

\* Action property: after the end of the loop, or its one error, nothing more is seen, not
\* even of the messages that have arrived (recvAll).
THEOREM EndIsFinal == Spec => [][Verdict # "none" => UNCHANGED <<seen, Verdict>>]_vars
  <1>1. Inv /\ [Next]_vars => [Verdict # "none" => UNCHANGED <<seen, Verdict>>]_vars
    <2> SUFFICES ASSUME Inv, [Next]_vars, Verdict # "none" PROVE UNCHANGED <<seen, Verdict>>
      OBVIOUS
    <2> QED BY NextRefines DEF Verdict, Contract!Next, Contract!vars, Contract!Arrive, Contract!Acquire,
               Contract!Yield, Contract!End, Contract!Return
  <1> QED BY <1>1, Invariance, PTL DEF Spec
=============================================================================
