--------------------------- MODULE HttpWireProofs ---------------------------
(***************************************************************************)
(* Proofs about what crosses the wire of the Go HTTP driver. ResultStream, *)
(* for bodies of every length and read buffers of every size: the          *)
(* inductive invariant Inv below, the property the run checks, and the     *)
(* refinement of RecordStream. ServerText, for arguments of every length   *)
(* and integers and floats of every width: what the server makes of a      *)
(* command and the driver of a number, from lemmas on the operators that   *)
(* cut and round.                                                          *)
(***************************************************************************)
EXTENDS ResultStream, ServerText, SequenceTheorems, WellFoundedInduction, TLAPS

(* The inductive invariant. *)

Types ==
  /\ lines \in Bodies /\ arrived \in 0..(Unit * Len(lines)) /\ ended \in {"open", "clean", "error"}
  /\ pc \in {"start", "read", "line", "loop", "defer", "done"} /\ body \in {"none", "open", "closed"}
  /\ read \in 0..arrived /\ start \in 0..read
  /\ err \in {"transport", "status", "read", "decode", "inband", "left", "none"}

\* The body is open while it is read, and closed by the return.
BodyInv ==
  /\ pc = "start" => body = "none" /\ arrived = 0 /\ ended = "open" /\ seen = {} /\ err = "none" /\ ~eof
  /\ pc \in {"read", "line", "loop"} => body = "open"
  /\ pc = "done" => body # "open"

\* Pending begins at a line. It is a part of that line while it is read; then
\* it is the line, or what a body that ended cleanly has of it.
PendingInv ==
  /\ pc \in {"read", "line", "loop"} => start % Unit = 0 /\ err = "none"
  /\ pc = "read" => read < start + Unit /\ ~eof
  /\ pc \in {"line", "loop"} =>
       \/ ~eof /\ read = start + Unit
       \/ eof /\ ended = "clean" /\ read = arrived /\ read < start + Unit

\* The events before pending were seen, and nothing there ends the range.
SeenInv ==
  /\ pc \in {"read", "line"} => seen = {i \in Events : i < Number}
  /\ pc = "loop" => /\ seen = {i \in Events : i <= Number}
                    /\ lines[Number] \in Visible /\ read >= start + 2
  /\ pc \in {"read", "line", "loop"} =>
       \A i \in DOMAIN lines : i < Number => lines[i] \notin {"error", "garbage"}

\* Why the range ended, and what it had seen by then.
EndInv ==
  pc \in {"defer", "done"} =>
    /\ err = "none" => /\ ended = "clean"
                       /\ \A i \in DOMAIN lines : Arrived(i) => lines[i] \notin {"error", "garbage"}
                       /\ seen = {i \in Events : Arrived(i)}
    /\ err = "decode" => lines[Number] = "garbage" \/ ended = "clean"
    /\ err = "inband" => lines[Number] = "error" /\ Arrived(Number) /\ seen = {i \in Events : i < Number}
    /\ err = "read" => ended = "error" /\ seen = {i \in Events : Unit * i <= arrived}

Inv == Types /\ eof \in BOOLEAN /\ BodyInv /\ PendingInv /\ SeenInv /\ EndInv

-----------------------------------------------------------------------------
(* Bodies and the lines in them. *)

LEMMA BodyParts ==
  ASSUME NEW b \in Bodies
  PROVE  /\ DOMAIN b = 1..Len(b) /\ Len(b) \in 0..MaxLines /\ Len(b) \in Nat
         /\ \A i \in DOMAIN b : b[i] \in Kinds
  <1>1. PICK n \in 0..MaxLines : b \in [1..n -> Kinds]
    BY Zenon DEF Bodies
  <1>2. n \in Nat /\ Len(b) = n
    BY <1>1, BoundsAssumption
  <1> QED BY <1>1, <1>2

LEMMA EventParts ==
  ASSUME Types
  PROVE  /\ Len(lines) \in 0..MaxLines /\ Len(lines) \in Nat /\ DOMAIN lines = 1..Len(lines)
         /\ \A i : i \in Events <=> i \in 1..Len(lines) /\ lines[i] \in Visible
         /\ \A i \in 1..Len(lines) : lines[i] \in Kinds
         /\ Events \subseteq 1..MaxLines
  <1>1. /\ Len(lines) \in 0..MaxLines /\ Len(lines) \in Nat /\ DOMAIN lines = 1..Len(lines)
        /\ \A i \in 1..Len(lines) : lines[i] \in Kinds
    BY BodyParts DEF Types
  <1>2. \A i : i \in Events <=> i \in 1..Len(lines) /\ lines[i] \in Visible
    BY <1>1 DEF Events
  <1>3. Events \subseteq 1..MaxLines
    BY <1>1, <1>2, BoundsAssumption
  <1> QED BY <1>1, <1>2, <1>3

\* Where pending's line is.
LEMMA NumberIs ==
  ASSUME start \in Nat, start % Unit = 0
  PROVE  Number \in Nat \ {0} /\ start = Unit * (Number - 1)
  BY DEF Number, Unit

\* Where the number of a later beginning is.
LEMMA NumberAfter ==
  ASSUME NEW s \in Nat, s % Unit = 0
  PROVE  /\ (s + Unit) % Unit = 0
         /\ (s + Unit) \div Unit + 1 = (s \div Unit + 1) + 1
  BY DEF Unit

\* The line feed ReadSlice looks for is the end of pending's line.
LEMMA FeedIs ==
  ASSUME start \in Nat, read \in Nat, start % Unit = 0, start <= read, read < start + Unit
  PROVE  Feed = start + Unit
  BY DEF Feed, Unit

\* What the lines before pending's, and the later ones, have to do with the
\* units that arrived.
LEMMA ArrivedIs ==
  ASSUME start \in Nat, start % Unit = 0, arrived \in Nat, start <= arrived, NEW i \in Nat \ {0}
  PROVE  /\ i < Number => Arrived(i) /\ Unit * i <= arrived
         /\ arrived < start + Unit /\ i >= Number => ~(Unit * i <= arrived)
         /\ arrived < start + Unit /\ i > Number => ~Arrived(i)
         /\ arrived < start + 2 /\ i >= Number => ~Arrived(i)
         /\ arrived >= start + 2 /\ i <= Number => Arrived(i)
  <1>1. PICK n \in Nat \ {0} : n = Number /\ start = 3 * (n - 1)
    BY NumberIs DEF Unit
  <1>2. Arrived(i) <=> arrived >= 3 * (i - 1) + 2
    BY DEF Arrived, Unit
  <1>3. Unit = 3
    BY DEF Unit
  <1>4. i < n => arrived >= 3 * i
    BY <1>1
  <1>5. arrived < start + 3 /\ i >= n => ~(3 * i <= arrived)
    BY <1>1
  <1>6. arrived < start + 3 /\ i > n => ~(arrived >= 3 * (i - 1) + 2)
    BY <1>1
  <1>7. arrived < start + 2 /\ i >= n => ~(arrived >= 3 * (i - 1) + 2)
    BY <1>1
  <1>8. arrived >= start + 2 /\ i <= n => arrived >= 3 * (i - 1) + 2
    BY <1>1
  <1>9. arrived >= 3 * i => arrived >= 3 * (i - 1) + 2
    OBVIOUS
  <1> QED BY <1>1, <1>2, <1>3, <1>4, <1>5, <1>6, <1>7, <1>8, <1>9

\* The facts of a state while the range reads.
LEMMA Reading ==
  ASSUME Inv, pc \in {"read", "line", "loop"}
  PROVE  /\ lines \in Bodies /\ arrived \in Nat /\ read \in Nat /\ start \in Nat
         /\ start <= read /\ read <= arrived /\ arrived <= Unit * Len(lines)
         /\ start % Unit = 0 /\ err = "none" /\ body = "open"
         /\ Number \in Nat \ {0} /\ start = Unit * (Number - 1)
  <1>1. Types /\ BodyInv /\ PendingInv
    BY DEF Inv
  <1>2. Len(lines) \in Nat /\ Unit * Len(lines) \in Nat
    BY <1>1, EventParts DEF Unit
  <1>3. /\ lines \in Bodies /\ arrived \in Nat /\ read \in Nat /\ start \in Nat
        /\ start <= read /\ read <= arrived /\ arrived <= Unit * Len(lines)
    BY <1>1, <1>2 DEF Types
  <1>4. start % Unit = 0 /\ err = "none" /\ body = "open"
    BY <1>1 DEF PendingInv, BodyInv
  <1> QED BY <1>3, <1>4, NumberIs

\* The body as it is meant does not change.
LEMMA SameLines ==
  ASSUME lines' = lines
  PROVE  Events' = Events /\ (start' = start => Number' = Number)
  BY DEF Events, Number

-----------------------------------------------------------------------------
(* The steps. *)

LEMMA InitInv == Init => Inv
  <1> SUFFICES ASSUME Init PROVE Inv
    OBVIOUS
  <1>1. /\ lines \in Bodies /\ arrived = 0 /\ ended = "open" /\ pc = "start" /\ body = "none"
        /\ start = 0 /\ read = 0 /\ eof = FALSE /\ seen = {} /\ err = "none"
    BY DEF Init
  <1>2. Len(lines) \in Nat /\ Unit * Len(lines) \in Nat
    BY <1>1, BodyParts DEF Unit
  <1>3. Types /\ BodyInv /\ PendingInv /\ SeenInv /\ EndInv
    BY <1>1, <1>2 DEF Types, BodyInv, PendingInv, SeenInv, EndInv
  <1>4. eof \in BOOLEAN
    BY <1>1, Zenon
  <1> QED BY <1>3, <1>4 DEF Inv

LEMMA ArriveStep == ASSUME Inv, Arrive PROVE Inv'
  <1>1. /\ body = "open" /\ ended = "open" /\ arrived < Unit * Len(lines) /\ arrived' = arrived + 1
        /\ lines' = lines /\ ended' = ended /\ pc' = pc /\ body' = body /\ start' = start
        /\ read' = read /\ eof' = eof /\ seen' = seen /\ err' = err
    BY DEF Arrive
  <1>2. Types /\ BodyInv /\ PendingInv /\ SeenInv /\ EndInv
    BY DEF Inv
  <1>3. Len(lines) \in Nat /\ Unit * Len(lines) \in Nat
    BY <1>2, EventParts DEF Unit
  <1>4. Types'
    BY <1>1, <1>2, <1>3 DEF Types
  <1>5. BodyInv' /\ PendingInv'
    BY <1>1, <1>2 DEF BodyInv, PendingInv
  <1>6. Events' = Events /\ Number' = Number
    BY <1>1, SameLines
  <1>7. SeenInv'
    BY <1>1, <1>2, <1>6 DEF SeenInv
  <1>8. EndInv'
    <2>1. ASSUME pc \in {"defer", "done"}, err = "inband" PROVE Arrived(Number)'
      <3>1. Arrived(Number) /\ arrived \in Nat /\ Number \in Int
        BY <1>2, <1>3, <2>1 DEF EndInv, Types, Number, Unit
      <3> QED BY <1>1, <1>6, <3>1 DEF Arrived, Unit
    <2> QED BY <1>1, <1>2, <1>6, <2>1 DEF EndInv
  <1>9. eof' \in BOOLEAN
    BY <1>1, Zenon DEF Inv
  <1> QED BY <1>4, <1>5, <1>7, <1>8, <1>9 DEF Inv

LEMMA BodyEndsStep == ASSUME Inv, NEW how \in {"clean", "error"}, BodyEnds(how) PROVE Inv'
  <1>1. /\ body = "open" /\ ended = "open" /\ ended' = how
        /\ lines' = lines /\ arrived' = arrived /\ pc' = pc /\ body' = body /\ start' = start
        /\ read' = read /\ eof' = eof /\ seen' = seen /\ err' = err
    BY DEF BodyEnds
  <1>2. Types /\ BodyInv /\ PendingInv /\ SeenInv /\ EndInv
    BY DEF Inv
  <1>3. Types' /\ BodyInv' /\ PendingInv'
    BY <1>1, <1>2 DEF Types, BodyInv, PendingInv
  <1>4. Events' = Events /\ Number' = Number /\ (\A i : Arrived(i)' = Arrived(i))
    BY <1>1, SameLines DEF Arrived
  <1>5. SeenInv'
    BY <1>1, <1>2, <1>4 DEF SeenInv
  <1>6. EndInv'
    BY <1>1, <1>2, <1>4 DEF EndInv, Arrived
  <1>7. eof' \in BOOLEAN
    BY <1>1, Zenon DEF Inv
  <1> QED BY <1>3, <1>5, <1>6, <1>7 DEF Inv

\* What a step of the range leaves alone.
LEMMA RangeFrame ==
  ASSUME Inv, UNCHANGED wire
  PROVE  /\ lines' = lines /\ arrived' = arrived /\ ended' = ended /\ Events' = Events
         /\ (\A i : Arrived(i)' = Arrived(i)) /\ (start' = start => Number' = Number)
         /\ Types /\ BodyInv /\ PendingInv /\ SeenInv /\ EndInv
  <1>1. lines' = lines /\ arrived' = arrived /\ ended' = ended
    BY DEF wire
  <1> QED BY <1>1, SameLines DEF Inv, Arrived

LEMMA OpenStep == ASSUME Inv, Open PROVE Inv'
  <1>1. /\ pc = "start" /\ UNCHANGED wire /\ start' = start /\ read' = read /\ eof' = eof /\ seen' = seen
        /\ \/ err' = "transport" /\ pc' = "defer" /\ body' = body
           \/ err' = "status" /\ pc' = "defer" /\ body' = "closed"
           \/ pc' = "read" /\ body' = "open" /\ err' = err
    BY DEF Open, Fails
  <1>2. /\ body = "none" /\ arrived = 0 /\ seen = {} /\ err = "none" /\ ~eof
        /\ start = 0 /\ read = 0
    BY <1>1, RangeFrame DEF BodyInv, Types
  <1>3. Types' /\ BodyInv' /\ EndInv'
    BY <1>1, <1>2, RangeFrame DEF Types, BodyInv, EndInv
  <1>4. PendingInv'
    BY <1>1, <1>2 DEF PendingInv, Unit
  <1>5. Number' = 1
    BY <1>1, <1>2 DEF Number, Unit
  <1>6. SeenInv'
    <2>1. DOMAIN lines = 1..Len(lines) /\ Len(lines) \in Nat /\ Events \subseteq 1..MaxLines /\ MaxLines \in Nat
      BY <1>1, RangeFrame, EventParts, BoundsAssumption
    <2>2. \A i \in DOMAIN lines : ~(i < 1)
      BY <2>1
    <2>3. \A i \in Events : ~(i < 1)
      BY <2>1
    <2>4. {i \in Events : i < 1} = {}
      BY <2>3
    <2> QED BY <1>1, <1>2, <1>5, <2>2, <2>4, RangeFrame DEF SeenInv
  <1>7. eof' \in BOOLEAN
    BY <1>1, Zenon DEF Inv
  <1> QED BY <1>3, <1>4, <1>6, <1>7 DEF Inv

LEMMA ReadSliceStep == ASSUME Inv, ReadSlice PROVE Inv'
  <1>1. pc = "read" /\ UNCHANGED wire /\ body' = body /\ start' = start /\ seen' = seen
    BY DEF ReadSlice
  <1>2. \/ /\ Feed <= arrived /\ read' = Feed /\ eof' = FALSE /\ pc' = "line" /\ err' = err
        \/ /\ Feed - read > BufSize /\ arrived - read >= BufSize
           /\ read' = read + BufSize /\ pc' = pc /\ eof' = eof /\ err' = err
        \/ /\ Feed > arrived /\ ended = "clean" /\ read' = arrived
           /\ eof' = TRUE /\ pc' = "line" /\ err' = err
        \/ /\ Feed > arrived /\ ended \notin {"open", "clean"} /\ read' = arrived
           /\ err' = "read" /\ pc' = "defer" /\ eof' = eof
    BY DEF ReadSlice, ReadFails, Fails
  <1>3. /\ arrived \in Nat /\ read \in Nat /\ start \in Nat /\ start <= read /\ read <= arrived
        /\ start % Unit = 0 /\ err = "none" /\ Number \in Nat \ {0}
    BY <1>1, Reading
  <1>4. /\ read < start + Unit /\ ~eof /\ seen = {i \in Events : i < Number}
        /\ \A i \in DOMAIN lines : i < Number => lines[i] \notin {"error", "garbage"}
    BY <1>1, RangeFrame DEF PendingInv, SeenInv
  <1>5. Feed = start + Unit /\ Unit = 3
    BY <1>3, <1>4, FeedIs DEF Unit
  <1>6. /\ lines' = lines /\ arrived' = arrived /\ ended' = ended /\ Events' = Events /\ Number' = Number
        /\ \A i : Arrived(i)' = Arrived(i)
    BY <1>1, RangeFrame
  <1>7. BodyInv'
    BY <1>1, <1>2, RangeFrame DEF BodyInv
  <1>8. read' \in 0..arrived /\ start <= read'
    BY <1>2, <1>3, <1>5, BoundsAssumption
  <1>9. Types'
    <2>1. pc' \in {"read", "line", "defer"} /\ err' \in {"none", "read"}
      BY <1>1, <1>2, <1>3
    <2>2. start' \in 0..read' /\ read' \in 0..arrived'
      BY <1>1, <1>3, <1>6, <1>8
    <2> QED BY <1>1, <1>6, <2>1, <2>2, RangeFrame DEF Types
  <1>10. SeenInv'
    BY <1>1, <1>2, <1>4, <1>6 DEF SeenInv
  <1>11. PendingInv'
    <2>1. CASE Feed <= arrived /\ read' = Feed /\ eof' = FALSE /\ pc' = "line" /\ err' = err
      BY <1>1, <1>3, <1>5, <2>1 DEF PendingInv
    <2>2. CASE Feed - read > BufSize /\ read' = read + BufSize /\ pc' = pc /\ eof' = eof /\ err' = err
      BY <1>1, <1>3, <1>4, <1>5, <2>2, BoundsAssumption DEF PendingInv
    <2>3. CASE /\ Feed > arrived /\ ended = "clean" /\ read' = arrived
               /\ eof' = TRUE /\ pc' = "line" /\ err' = err
      BY <1>1, <1>3, <1>5, <1>6, <2>3 DEF PendingInv
    <2>4. CASE pc' = "defer"
      BY <2>4 DEF PendingInv
    <2> QED BY <1>2, <2>1, <2>2, <2>3, <2>4
  <1>12. EndInv'
    <2>1. CASE pc' # "defer"
      BY <1>1, <1>2, <2>1 DEF EndInv
    <2>2. CASE pc' = "defer"
      <3>1. arrived < start + Unit /\ err' = "read" /\ ended = "error"
        BY <1>1, <1>2, <1>5, <2>2, RangeFrame DEF Types
      <3>2. ASSUME NEW i \in Events PROVE i < Number <=> Unit * i <= arrived
        <4>1. i \in Nat \ {0}
          BY <1>1, RangeFrame, EventParts
        <4>2. start <= arrived
          BY <1>3
        <4>3. /\ i < Number => Unit * i <= arrived
              /\ i >= Number => ~(Unit * i <= arrived)
          BY <1>3, <3>1, <4>1, <4>2, ArrivedIs
        <4> QED BY <1>3, <4>1, <4>3
      <3>3. seen = {i \in Events : Unit * i <= arrived}
        BY <1>4, <3>2
      <3> QED BY <1>1, <1>6, <3>1, <3>3 DEF EndInv
    <2> QED BY <2>1, <2>2
  <1>13. eof' \in BOOLEAN
    BY <1>2, Zenon DEF Inv
  <1> QED BY <1>7, <1>9, <1>10, <1>11, <1>12, <1>13 DEF Inv

\* Lines goes on after a line that was looked at: with the next one, or at
\* the end of the body with nothing left out.
LEMMA OnwardStep ==
  ASSUME Inv, UNCHANGED wire, pc \in {"line", "loop"}, Onward, start' = read,
         body' = body, read' = read, eof' = eof, err' = err, seen' = seen,
         seen = {i \in Events : i < Number \/ (i = Number /\ read >= start + 2)},
         read >= start + 2 /\ Number \in DOMAIN lines => lines[Number] \notin {"error", "garbage"}
  PROVE  Inv'
  <1>1. /\ arrived \in Nat /\ read \in Nat /\ start \in Nat /\ start <= read /\ read <= arrived
        /\ start % Unit = 0 /\ err = "none" /\ Number \in Nat \ {0} /\ Unit = 3
    BY Reading DEF Unit
  <1>2. /\ \/ ~eof /\ read = start + Unit
           \/ eof /\ ended = "clean" /\ read = arrived /\ read < start + Unit
        /\ \A i \in DOMAIN lines : i < Number => lines[i] \notin {"error", "garbage"}
    BY RangeFrame DEF PendingInv, SeenInv
  <1>3. lines' = lines /\ arrived' = arrived /\ ended' = ended /\ Events' = Events
    BY RangeFrame
  <1>4. eof' \in BOOLEAN
    BY Zenon DEF Inv
  <1>5. \/ ~eof /\ pc' = "read"
        \/ eof /\ pc' = "defer"
    <2>1. eof = TRUE \/ eof = FALSE
      BY Zenon DEF Inv
    <2>2. CASE eof = TRUE
      BY <2>2 DEF Onward
    <2>3. CASE eof = FALSE
      BY <2>3 DEF Onward
    <2> QED BY <2>1, <2>2, <2>3
  <1>6. Types' /\ BodyInv'
    <2>1. start' \in 0..read' /\ read' \in 0..arrived'
      BY <1>1, <1>3
    <2>2. Types'
      BY <1>3, <1>5, <2>1, RangeFrame DEF Types
    <2> QED BY <1>5, <2>2, RangeFrame DEF BodyInv
  <1>7. \A i : i \in Events => i \in Nat \ {0}
    BY RangeFrame, EventParts
  <1>8. DOMAIN lines = 1..Len(lines) /\ Len(lines) \in Nat
    BY RangeFrame, EventParts
  <1>9. CASE ~eof /\ pc' = "read"
    <2>1. read = start + Unit /\ read % Unit = 0 /\ Number' = Number + 1
      BY <1>1, <1>2, <1>9, NumberAfter DEF Number
    <2>2. PendingInv'
      BY <1>1, <1>9, <2>1 DEF PendingInv
    <2>3. seen = {i \in Events : i < Number + 1}
      BY <1>1, <1>7, <2>1
    <2>4. \A i \in DOMAIN lines : i < Number + 1 => lines[i] \notin {"error", "garbage"}
      BY <1>1, <1>2, <1>8, <2>1
    <2>5. SeenInv'
      BY <1>3, <1>9, <2>1, <2>3, <2>4 DEF SeenInv
    <2>6. EndInv'
      BY <1>9 DEF EndInv
    <2> QED BY <1>4, <1>6, <2>2, <2>5, <2>6 DEF Inv
  <1>10. CASE eof /\ pc' = "defer"
    <2>1. ended = "clean" /\ read = arrived /\ arrived < start + Unit
      BY <1>2, <1>10
    <2>2. ASSUME NEW i \in Nat \ {0} PROVE Arrived(i) <=> i < Number \/ (i = Number /\ read >= start + 2)
      <3>1. start <= arrived
        BY <1>1
      <3>2. /\ i < Number => Arrived(i)
            /\ i > Number => ~Arrived(i)
            /\ arrived < start + 2 /\ i >= Number => ~Arrived(i)
            /\ arrived >= start + 2 /\ i <= Number => Arrived(i)
        BY <1>1, <2>1, <3>1, ArrivedIs
      <3> QED BY <1>1, <2>1, <3>2
    <2>3. seen = {i \in Events : Arrived(i)}
      BY <1>7, <2>2
    <2>4. \A i \in DOMAIN lines : Arrived(i) => lines[i] \notin {"error", "garbage"}
      BY <1>2, <1>8, <2>2
    <2>5. EndInv'
      BY <1>1, <1>3, <1>10, <2>1, <2>3, <2>4, RangeFrame DEF EndInv
    <2>6. PendingInv' /\ SeenInv'
      BY <1>10 DEF PendingInv, SeenInv
    <2> QED BY <1>4, <1>6, <2>5, <2>6 DEF Inv
  <1> QED BY <1>5, <1>9, <1>10

\* What pending's line is, for the lines that are not shown.
LEMMA SkippedLine ==
  ASSUME Inv, pc = "line", decodeStreamLine \in {"blank", "unknown"}
  PROVE  /\ seen = {i \in Events : i < Number \/ (i = Number /\ read >= start + 2)}
         /\ read >= start + 2 /\ Number \in DOMAIN lines => lines[Number] \notin {"error", "garbage"}
  <1>1. /\ arrived \in Nat /\ read \in Nat /\ start \in Nat /\ start <= read /\ Types
        /\ Number \in Nat \ {0} /\ seen = {i \in Events : i < Number}
    BY Reading DEF Inv, SeenInv
  <1>2. read >= start + 2 => lines[Number] \in {"blank", "unknown"}
    BY <1>1 DEF decodeStreamLine
  <1>3. ASSUME read >= start + 2 PROVE Number \notin Events
    BY <1>1, <1>2, <1>3, EventParts DEF Visible
  <1> QED BY <1>1, <1>2, <1>3

LEMMA SkipStep == ASSUME Inv, Skip PROVE Inv'
  <1>1. /\ pc = "line" /\ decodeStreamLine \in {"blank", "unknown"} /\ Onward /\ start' = read
        /\ UNCHANGED wire /\ body' = body /\ read' = read /\ eof' = eof /\ seen' = seen /\ err' = err
    BY DEF Skip
  <1>2. /\ seen = {i \in Events : i < Number \/ (i = Number /\ read >= start + 2)}
        /\ read >= start + 2 /\ Number \in DOMAIN lines => lines[Number] \notin {"error", "garbage"}
    BY <1>1, SkippedLine
  <1>3. pc \in {"line", "loop"}
    BY <1>1
  <1> QED BY <1>1, <1>2, <1>3, OnwardStep, Zenon

LEMMA ContinueStep == ASSUME Inv, Continue PROVE Inv'
  <1>1. /\ pc = "loop" /\ Onward /\ start' = read
        /\ UNCHANGED wire /\ body' = body /\ read' = read /\ eof' = eof /\ seen' = seen /\ err' = err
    BY DEF Continue
  <1>2. /\ seen = {i \in Events : i <= Number} /\ lines[Number] \in Visible /\ read >= start + 2
        /\ Number \in Nat \ {0} /\ Types
    BY <1>1, Reading DEF Inv, SeenInv
  <1>3. \A i \in Events : i \in Nat
    BY <1>2, EventParts
  <1>4. seen = {i \in Events : i < Number \/ (i = Number /\ read >= start + 2)}
    BY <1>2, <1>3
  <1>5. read >= start + 2 /\ Number \in DOMAIN lines => lines[Number] \notin {"error", "garbage"}
    BY <1>2 DEF Visible
  <1>6. pc \in {"line", "loop"}
    BY <1>1
  <1> QED BY <1>1, <1>4, <1>5, <1>6, OnwardStep, Zenon

\* The line an event was decoded from has arrived as far as its text.
LEMMA ShownLine ==
  ASSUME Inv, pc = "line", decodeStreamLine \notin {"blank", "garbage"}
  PROVE  read >= start + 2 /\ decodeStreamLine = lines[Number] /\ Number \in DOMAIN lines /\ Arrived(Number)
  <1>1. /\ arrived \in Nat /\ read \in Nat /\ start \in Nat /\ start <= read /\ read <= arrived
        /\ arrived <= Unit * Len(lines) /\ start % Unit = 0 /\ Types
        /\ Number \in Nat \ {0} /\ start = Unit * (Number - 1)
    BY Reading DEF Inv
  <1>2. read >= start + 2 /\ decodeStreamLine = lines[Number]
    BY <1>1 DEF decodeStreamLine
  <1>3. Len(lines) \in Nat /\ DOMAIN lines = 1..Len(lines)
    BY <1>1, EventParts
  <1>4. Number \in 1..Len(lines)
    BY <1>1, <1>2, <1>3 DEF Unit
  <1>5. Arrived(Number)
    BY <1>1, <1>2 DEF Arrived
  <1> QED BY <1>2, <1>3, <1>4, <1>5

LEMMA YieldEventStep == ASSUME Inv, YieldEvent PROVE Inv'
  <1>1. /\ pc = "line" /\ decodeStreamLine \in Visible /\ seen' = seen \union {Number} /\ pc' = "loop"
        /\ UNCHANGED wire /\ body' = body /\ start' = start /\ read' = read /\ eof' = eof /\ err' = err
    BY DEF YieldEvent
  <1>2. decodeStreamLine \notin {"blank", "garbage"}
    BY <1>1 DEF Visible
  <1>3. /\ read >= start + 2 /\ lines[Number] \in Visible /\ Number \in DOMAIN lines
        /\ Number \in Nat \ {0} /\ Types
    BY <1>1, <1>2, ShownLine, Reading DEF Inv
  <1>4. Number \in Events /\ (\A i \in Events : i \in Nat)
    BY <1>3, EventParts
  <1>5. Types' /\ BodyInv' /\ EndInv'
    BY <1>1, RangeFrame DEF Types, BodyInv, EndInv
  <1>6. PendingInv'
    BY <1>1, RangeFrame DEF PendingInv
  <1>7. SeenInv'
    <2>1. seen = {i \in Events : i < Number}
      BY <1>1, RangeFrame DEF SeenInv
    <2>2. seen' = {i \in Events : i <= Number}
      BY <1>1, <1>3, <1>4, <2>1
    <2>3. \A i \in DOMAIN lines : i < Number => lines[i] \notin {"error", "garbage"}
      BY <1>1, RangeFrame DEF SeenInv
    <2> QED BY <1>1, <1>3, <2>2, <2>3, RangeFrame DEF SeenInv
  <1>8. eof' \in BOOLEAN
    BY <1>1, Zenon DEF Inv
  <1> QED BY <1>5, <1>6, <1>7, <1>8 DEF Inv

LEMMA YieldErrorStep == ASSUME Inv, YieldError PROVE Inv'
  <1>1. /\ pc = "line" /\ pc' = "defer"
        /\ UNCHANGED wire /\ body' = body /\ start' = start /\ read' = read /\ eof' = eof /\ seen' = seen
        /\ \/ decodeStreamLine = "garbage" /\ err' = "decode"
           \/ decodeStreamLine = "error" /\ err' = "inband"
    BY DEF YieldError, Fails
  <1>2. Types' /\ BodyInv' /\ PendingInv' /\ SeenInv'
    BY <1>1, RangeFrame DEF Types, BodyInv, PendingInv, SeenInv
  <1>3. seen = {i \in Events : i < Number}
    BY <1>1, RangeFrame DEF SeenInv
  <1>4. decodeStreamLine = "garbage" => lines[Number] = "garbage" \/ ended = "clean"
    <2>1. decodeStreamLine = "garbage" => lines[Number] = "garbage" \/ read = start + 1
      BY DEF decodeStreamLine
    <2>2. read = start + 1 => ended = "clean"
      BY <1>1, Reading, RangeFrame DEF PendingInv, Unit
    <2> QED BY <2>1, <2>2
  <1>5. decodeStreamLine = "error" => lines[Number] = "error" /\ Arrived(Number)
    BY <1>1, ShownLine
  <1>6. EndInv'
    <2>1. CASE decodeStreamLine = "garbage" /\ err' = "decode"
      BY <1>1, <1>4, <2>1, RangeFrame DEF EndInv
    <2>2. CASE decodeStreamLine = "error" /\ err' = "inband"
      <3>1. lines'[Number'] = "error" /\ Arrived(Number)' /\ seen' = {i \in Events' : i < Number'}
        BY <1>1, <1>3, <1>5, <2>2, RangeFrame DEF Arrived
      <3> QED BY <2>2, <3>1 DEF EndInv
    <2> QED BY <1>1, <2>1, <2>2
  <1>7. eof' \in BOOLEAN
    BY <1>1, Zenon DEF Inv
  <1> QED BY <1>2, <1>6, <1>7 DEF Inv

LEMMA LeaveStep == ASSUME Inv, Leave PROVE Inv'
  <1>1. /\ pc = "loop" /\ pc' = "defer" /\ err' = "left"
        /\ UNCHANGED wire /\ body' = body /\ start' = start /\ read' = read /\ eof' = eof /\ seen' = seen
    BY DEF Leave
  <1>2. Types' /\ BodyInv' /\ PendingInv' /\ SeenInv' /\ EndInv'
    BY <1>1, RangeFrame DEF Types, BodyInv, PendingInv, SeenInv, EndInv
  <1>3. eof' \in BOOLEAN
    BY <1>1, Zenon DEF Inv
  <1> QED BY <1>2, <1>3 DEF Inv

LEMMA CloseStep == ASSUME Inv, Close PROVE Inv'
  <1>1. /\ pc = "defer" /\ pc' = "done" /\ body' = (IF body = "open" THEN "closed" ELSE body)
        /\ UNCHANGED wire /\ start' = start /\ read' = read /\ eof' = eof /\ seen' = seen /\ err' = err
    BY DEF Close
  <1>2. Types' /\ BodyInv' /\ PendingInv' /\ SeenInv'
    BY <1>1, RangeFrame DEF Types, BodyInv, PendingInv, SeenInv
  <1>3. EndInv'
    BY <1>1, RangeFrame DEF EndInv, Arrived
  <1>4. eof' \in BOOLEAN
    BY <1>1, Zenon DEF Inv
  <1> QED BY <1>2, <1>3, <1>4 DEF Inv

\* A step that changes nothing.
LEMMA StutterStep == ASSUME Inv, UNCHANGED vars PROVE Inv'
  <1>1. /\ UNCHANGED wire /\ pc' = pc /\ body' = body /\ start' = start /\ read' = read
        /\ eof' = eof /\ seen' = seen /\ err' = err
    BY DEF vars
  <1>2. Types' /\ BodyInv' /\ PendingInv'
    BY <1>1, RangeFrame DEF Types, BodyInv, PendingInv
  <1>3. SeenInv' /\ EndInv'
    BY <1>1, RangeFrame DEF SeenInv, EndInv, Arrived
  <1>4. eof' \in BOOLEAN
    BY <1>1, Zenon DEF Inv
  <1> QED BY <1>2, <1>3, <1>4 DEF Inv

LEMMA NextInv == ASSUME Inv, [Next]_vars PROVE Inv'
  <1>1. CASE Next
    BY <1>1, ArriveStep, BodyEndsStep, OpenStep, ReadSliceStep, SkipStep, YieldEventStep,
       YieldErrorStep, ContinueStep, LeaveStep, CloseStep DEF Next
  <1>2. CASE UNCHANGED vars
    BY <1>2, StutterStep
  <1> QED BY <1>1, <1>2

THEOREM Invariance == Spec => []Inv
  BY InitInv, NextInv, PTL DEF Spec

\* What a range over QueryStream or CommandStream says at its end is true:
\* ndjson.Lines and decodeStreamLine lose, invent and mistake no line, however
\* the buffer cuts them and wherever the body stops.
THEOREM EndTellsTruth == Spec => []EndIsExplained
  <1>1. Inv => EndIsExplained
    BY DEF Inv, EndInv, EndIsExplained
  <1> QED BY <1>1, Invariance, PTL

-----------------------------------------------------------------------------
(* The refinement of RecordStream. *)

Came == {i \in Events : Arrived(i)}
Verdict == CASE err = "none" -> (IF pc \in {"defer", "done"} THEN "end" ELSE "none")
             [] err = "left" -> "left"
             [] OTHER -> "error"

LEMMA InitRefines == Init => Contract!Init
  <1> SUFFICES ASSUME Init PROVE Contract!Init
    OBVIOUS
  <1>1. Types
    BY InitInv DEF Inv
  <1>2. Events \in SUBSET (1..MaxLines) /\ \A i \in Events : i \in Nat \ {0}
    BY <1>1, EventParts
  <1>3. Came = {}
    <2>1. ASSUME NEW i \in Nat \ {0} PROVE ~Arrived(i)
      <3>1. arrived = 0 /\ ~(0 >= 3 * (i - 1) + 2)
        BY DEF Init
      <3> QED BY <3>1 DEF Arrived, Unit
    <2> QED BY <1>2, <2>1 DEF Came
  <1>4. seen = {} /\ Verdict = "none" /\ (body = "open") = FALSE /\ (pc = "done") = FALSE
    BY DEF Init, Verdict
  <1> QED BY <1>2, <1>3, <1>4 DEF Contract!Init, Came, Verdict

\* What a step of the range leaves alone in the contract.
LEMMA WireRefines == ASSUME UNCHANGED wire PROVE Events' = Events /\ Came' = Came
  BY DEF wire, Events, Came, Arrived

\* A step that yields no event, ends nothing and holds on to what it holds.
LEMMA StutterRefines ==
  ASSUME Events' = Events, Came' = Came, seen' = seen, err' = err, body' = body,
         (pc \notin {"defer", "done"} /\ pc' \notin {"defer", "done"}) \/ pc' = pc
  PROVE  UNCHANGED Contract!vars
  <1>1. Verdict' = Verdict /\ (body = "open")' = (body = "open") /\ (pc = "done")' = (pc = "done")
    BY DEF Verdict
  <1> QED BY <1>1 DEF Contract!vars, Came, Verdict

\* Every way to the deferred Close ends the loop once.
LEMMA EndRefines ==
  ASSUME err = "none", pc \notin {"defer", "done"}, pc' = "defer", UNCHANGED wire, seen' = seen,
         (body' = "open") = (body = "open"),
         err' \in {"none", "transport", "status", "read", "decode", "inband", "left"}
  PROVE  Contract!Next
  <1>1. Verdict = "none" /\ Verdict' \in {"end", "error", "left"}
    BY DEF Verdict
  <1>2. Events' = Events /\ Came' = Came
    BY WireRefines
  <1>3. (body = "open")' = (body = "open") /\ (pc = "done")' = (pc = "done")
    OBVIOUS
  <1>4. \E how \in {"end", "error", "left"} : Contract!End(how)
    BY <1>1, <1>2, <1>3 DEF Contract!End, Came, Verdict
  <1> QED BY <1>4 DEF Contract!Next

LEMMA ArriveRefines == ASSUME Inv, Arrive PROVE Contract!Next
  <1>1. /\ lines' = lines /\ arrived' = arrived + 1 /\ pc' = pc /\ body' = body /\ seen' = seen /\ err' = err
    BY DEF Arrive
  <1>2. Types /\ arrived \in Nat
    BY EventParts DEF Inv, Types, Unit
  <1>3. Events' = Events /\ \A i \in Events : i \in Nat \ {0}
    BY <1>1, <1>2, EventParts, SameLines
  <1>4. Came' \in SUBSET Events /\ Came \subseteq Came'
    BY <1>1, <1>2, <1>3 DEF Came, Arrived, Unit
  <1>5. Verdict' = Verdict /\ (body = "open")' = (body = "open") /\ (pc = "done")' = (pc = "done")
    BY <1>1 DEF Verdict
  <1>6. Contract!Arrive
    BY <1>1, <1>3, <1>4, <1>5 DEF Contract!Arrive, Came, Verdict
  <1> QED BY <1>6 DEF Contract!Next

LEMMA OpenRefines == ASSUME Inv, Open PROVE Contract!Next
  <1>1. /\ pc = "start" /\ UNCHANGED wire /\ seen' = seen
        /\ \/ err' = "transport" /\ pc' = "defer" /\ body' = body
           \/ err' = "status" /\ pc' = "defer" /\ body' = "closed"
           \/ pc' = "read" /\ body' = "open" /\ err' = err
    BY DEF Open, Fails
  <1>2. body = "none" /\ seen = {} /\ err = "none"
    BY <1>1 DEF Inv, BodyInv
  <1>3. CASE pc' = "defer"
    <2>1. (body' = "open") = (body = "open") /\ err' \in {"transport", "status"}
      BY <1>1, <1>2, <1>3
    <2> QED BY <1>1, <1>2, <1>3, <2>1, EndRefines
  <1>4. CASE pc' = "read" /\ body' = "open" /\ err' = err
    <2>1. Verdict = "none" /\ Verdict' = Verdict
      BY <1>1, <1>2, <1>4 DEF Verdict
    <2>2. (body = "open")' = TRUE /\ ~(body = "open") /\ (pc = "done")' = (pc = "done")
      BY <1>1, <1>2, <1>4
    <2>3. Events' = Events /\ Came' = Came
      BY <1>1, WireRefines
    <2>4. Contract!Acquire
      BY <1>1, <1>2, <2>1, <2>2, <2>3 DEF Contract!Acquire, Came, Verdict
    <2> QED BY <2>4 DEF Contract!Next
  <1> QED BY <1>1, <1>3, <1>4

LEMMA YieldRefines == ASSUME Inv, YieldEvent PROVE Contract!Next
  <1>1. /\ pc = "line" /\ decodeStreamLine \in Visible /\ seen' = seen \union {Number} /\ pc' = "loop"
        /\ UNCHANGED wire /\ body' = body /\ err' = err
    BY DEF YieldEvent
  <1>2. decodeStreamLine \notin {"blank", "garbage"}
    BY <1>1 DEF Visible
  <1>3. lines[Number] \in Visible /\ Number \in DOMAIN lines /\ Arrived(Number)
    BY <1>1, <1>2, ShownLine
  <1>4. seen = {i \in Events : i < Number} /\ err = "none" /\ body = "open" /\ Number \in Nat \ {0} /\ Types
    BY <1>1, Reading DEF Inv, SeenInv
  <1>5. PICK i : i = Number
    OBVIOUS
  <1>6. i \in Events /\ i \in Came
    BY <1>3, <1>5 DEF Came, Events
  <1>7. i \notin seen /\ \A j \in Events : j < i <=> j \in seen
    BY <1>4, <1>5
  <1>8. seen' = seen \union {i}
    BY <1>1, <1>5
  <1>9. Events' = Events /\ Came' = Came
    BY <1>1, WireRefines
  <1>10. /\ Verdict = "none" /\ Verdict' = Verdict
         /\ (body = "open") = TRUE /\ (body = "open")' = (body = "open") /\ (pc = "done")' = (pc = "done")
    BY <1>1, <1>4 DEF Verdict
  <1>11. Contract!Yield(i)
    BY <1>6, <1>7, <1>8, <1>9, <1>10 DEF Contract!Yield, Came, Verdict
  <1> QED BY <1>6, <1>11 DEF Contract!Next

LEMMA CloseRefines == ASSUME Inv, Close PROVE Contract!Next
  <1>1. /\ pc = "defer" /\ pc' = "done" /\ body' = (IF body = "open" THEN "closed" ELSE body)
        /\ UNCHANGED wire /\ seen' = seen /\ err' = err
    BY DEF Close
  <1>2. Events' = Events /\ Came' = Came
    BY <1>1, WireRefines
  <1>3. Verdict # "none" /\ Verdict' = Verdict
    BY <1>1 DEF Verdict
  <1>4. (body = "open")' = FALSE /\ (pc = "done") = FALSE /\ (pc = "done")' = TRUE
    BY <1>1
  <1>5. Contract!Return
    BY <1>1, <1>2, <1>3, <1>4 DEF Contract!Return, Came, Verdict
  <1> QED BY <1>5 DEF Contract!Next

\* The next line, or the end of the loop by itself.
LEMMA OnwardRefines ==
  ASSUME Inv, UNCHANGED wire, pc \in {"line", "loop"}, Onward, body' = body, err' = err, seen' = seen
  PROVE  [Contract!Next]_(Contract!vars)
  <1>1. err = "none"
    BY DEF Inv, PendingInv
  <1>2. pc' \in {"read", "defer"}
    BY DEF Onward
  <1>3. CASE pc' = "read"
    BY <1>3, WireRefines, StutterRefines
  <1>4. CASE pc' = "defer"
    BY <1>1, <1>4, EndRefines
  <1> QED BY <1>2, <1>3, <1>4

LEMMA NextRefines == ASSUME Inv, [Next]_vars PROVE [Contract!Next]_(Contract!vars)
  <1>1. CASE Arrive
    BY <1>1, ArriveRefines
  <1>2. ASSUME NEW how \in {"clean", "error"}, BodyEnds(how) PROVE UNCHANGED Contract!vars
    <2>1. lines' = lines /\ arrived' = arrived /\ pc' = pc /\ body' = body /\ seen' = seen /\ err' = err
      BY <1>2 DEF BodyEnds
    <2>2. Events' = Events /\ Came' = Came
      BY <2>1 DEF Events, Came, Arrived
    <2> QED BY <2>1, <2>2, StutterRefines
  <1>3. CASE Open
    BY <1>3, OpenRefines
  <1>4. CASE ReadSlice
    <2>1. /\ pc = "read" /\ UNCHANGED wire /\ body' = body /\ seen' = seen
          /\ \/ pc' \in {"read", "line"} /\ err' = err
             \/ pc' = "defer" /\ err' = "read"
      BY <1>4 DEF ReadSlice, ReadFails, Fails
    <2>2. err = "none"
      BY <2>1 DEF Inv, PendingInv
    <2>3. CASE pc' \in {"read", "line"} /\ err' = err
      BY <2>1, <2>3, WireRefines, StutterRefines
    <2>4. CASE pc' = "defer" /\ err' = "read"
      BY <2>1, <2>2, <2>4, EndRefines
    <2> QED BY <2>1, <2>3, <2>4
  <1>5. CASE Skip
    BY <1>5, OnwardRefines DEF Skip
  <1>6. CASE YieldEvent
    BY <1>6, YieldRefines
  <1>7. CASE YieldError
    <2>1. /\ pc = "line" /\ pc' = "defer" /\ UNCHANGED wire /\ body' = body /\ seen' = seen
          /\ err' \in {"decode", "inband"}
      BY <1>7 DEF YieldError, Fails
    <2>2. err = "none"
      BY <2>1 DEF Inv, PendingInv
    <2> QED BY <2>1, <2>2, EndRefines
  <1>8. CASE Continue
    BY <1>8, OnwardRefines DEF Continue
  <1>9. CASE Leave
    <2>1. pc = "loop" /\ pc' = "defer" /\ UNCHANGED wire /\ body' = body /\ seen' = seen /\ err' = "left"
      BY <1>9 DEF Leave
    <2>2. err = "none"
      BY <2>1 DEF Inv, PendingInv
    <2> QED BY <2>1, <2>2, EndRefines
  <1>10. CASE Close
    BY <1>10, CloseRefines
  <1>11. CASE UNCHANGED vars
    BY <1>11, WireRefines, StutterRefines DEF vars
  <1> QED BY <1>1, <1>2, <1>3, <1>4, <1>5, <1>6, <1>7, <1>8, <1>9, <1>10, <1>11 DEF Next

\* A range over QueryStream or CommandStream keeps the contract of a result
\* stream: the events that came, in order, one end, and resp.Body closed.
THEOREM ImplementsContract == Spec => ContractSpec
  <1>1. Init => Contract!Init
    BY InitRefines
  <1>2. Inv /\ [Next]_vars => [Contract!Next]_(Contract!vars)
    BY NextRefines
  <1> QED BY <1>1, <1>2, Invariance, PTL DEF Spec, ContractSpec, Contract!Spec

-----------------------------------------------------------------------------
(* What the contract means for the caller's loop. *)

InOrder == \A i \in seen : \A j \in Events : j < i => j \in seen

LEMMA OrderIsKept == ASSUME InOrder, [Contract!Next]_(Contract!vars) PROVE InOrder'
  BY DEF InOrder, Contract!Next, Contract!vars, Contract!Arrive, Contract!Acquire, Contract!Yield,
         Contract!End, Contract!Return

\* At every moment the events the loop has seen are the first ones of the body: no line is
\* skipped or handed out of order, however the reads cut them (decodeStreamLine, ndjson.Lines).
THEOREM EventsInOrder == Spec => []InOrder
  <1>1. Contract!Init => InOrder
    BY DEF InOrder, Contract!Init
  <1> QED BY <1>1, OrderIsKept, ImplementsContract, PTL DEF ContractSpec, Contract!Spec

\* Action property: after the end of the loop, or its one error, nothing more is seen, not
\* even of the lines that are buffered (stream.go).
THEOREM EndIsFinal == Spec => [][Verdict # "none" => UNCHANGED <<seen, Verdict>>]_vars
  <1>1. Inv /\ [Next]_vars => [Verdict # "none" => UNCHANGED <<seen, Verdict>>]_vars
    <2> SUFFICES ASSUME Inv, [Next]_vars, Verdict # "none" PROVE UNCHANGED <<seen, Verdict>>
      OBVIOUS
    <2> QED BY NextRefines DEF Verdict, Contract!Next, Contract!vars, Contract!Arrive, Contract!Acquire,
               Contract!Yield, Contract!End, Contract!Return
  <1> QED BY <1>1, Invariance, PTL DEF Spec

-----------------------------------------------------------------------------
(* ServerText: arguments written as text. *)

\* Every set of naturals has a least element, and a bounded one a greatest.
LEMMA LeastExists ==
  ASSUME NEW S, S \subseteq Nat, S # {}
  PROVE  \E x \in S : \A y \in S : x <= y
  <1>1. IsWellFoundedOn({ss \in Nat \X Nat : ss[1] < ss[2]}, Nat)
    BY NatLessThanWellFounded DEF OpToRel
  <1>2. \E x \in S : \A y \in S : <<y, x>> \notin {ss \in Nat \X Nat : ss[1] < ss[2]}
    BY <1>1, WFMin, Zenon
  <1>3. \A x, y \in Nat : <<y, x>> \notin {ss \in Nat \X Nat : ss[1] < ss[2]} => x <= y
    OBVIOUS
  <1> QED
    BY <1>2, <1>3

LEMMA MinOf ==
  ASSUME NEW n \in Nat, NEW S \in SUBSET (1..n), S # {}
  PROVE  Min(S) \in S /\ \A y \in S : Min(S) <= y
  <1>1. S \subseteq Nat
    OBVIOUS
  <1>2. \E x \in S : \A y \in S : x <= y
    BY <1>1, LeastExists
  <1> QED
    BY <1>2 DEF Min

LEMMA MaxOf ==
  ASSUME NEW n \in Nat, NEW S \in SUBSET (1..n), S # {}
  PROVE  Max(S) \in S /\ \A y \in S : Max(S) >= y
  <1> DEFINE T == {n - y : y \in S}
  <1>1. \A y \in S : y \in Nat /\ y <= n /\ n - y \in Nat
    OBVIOUS
  <1>2. T \subseteq Nat /\ T # {} /\ \A y \in S : n - y \in T
    BY <1>1
  <1>3. PICK t \in T : \A u \in T : t <= u
    BY <1>2, LeastExists
  <1>4. PICK x \in S : t = n - x
    BY <1>3
  <1>5. \A y \in S : n - x <= n - y
    BY <1>2, <1>3, <1>4
  <1>h. HIDE DEF T
  <1>6. \A y \in S : x >= y
    BY <1>1, <1>5
  <1> QED
    BY <1>6 DEF Max

\* The extremum, named by what it is.
LEMMA MinIs ==
  ASSUME NEW n \in Nat, NEW S \in SUBSET (1..n), NEW x \in S, \A y \in S : x <= y
  PROVE  Min(S) = x
  <1>0. S # {}
    OBVIOUS
  <1>1. Min(S) \in S /\ \A y \in S : Min(S) <= y
    BY <1>0, MinOf, Zenon
  <1>2. Min(S) <= x /\ x <= Min(S)
    BY <1>1
  <1>3. \A y \in S : y \in Int
    OBVIOUS
  <1>4. Min(S) \in Int /\ x \in Int
    BY <1>1, <1>3
  <1> QED
    BY <1>2, <1>4

LEMMA MaxIs ==
  ASSUME NEW n \in Nat, NEW S \in SUBSET (1..n), NEW x \in S, \A y \in S : x >= y
  PROVE  Max(S) = x
  <1>0. S # {}
    OBVIOUS
  <1>1. Max(S) \in S /\ \A y \in S : Max(S) >= y
    BY <1>0, MaxOf, Zenon
  <1>2. Max(S) <= x /\ x <= Max(S)
    BY <1>1
  <1>3. \A y \in S : y \in Int
    OBVIOUS
  <1>4. Max(S) \in Int /\ x \in Int
    BY <1>1, <1>3
  <1> QED
    BY <1>2, <1>4

-----------------------------------------------------------------------------
\* Trim takes what is cut away from both ends and nothing else.
LEMMA TrimIs ==
  ASSUME NEW T, NEW s \in Seq(T), NEW cut,
         NEW lo \in 1..Len(s), NEW hi \in 1..Len(s), s[lo] \notin cut, s[hi] \notin cut,
         \A i \in 1..Len(s) : i < lo \/ i > hi => s[i] \in cut
  PROVE  Trim(s, cut) = SubSeq(s, lo, hi)
  <1> DEFINE kept == {i \in DOMAIN s : s[i] \notin cut}
  <1>1. Len(s) \in Nat /\ DOMAIN s = 1..Len(s)
    OBVIOUS
  <1>2. kept \in SUBSET (1..Len(s)) /\ lo \in kept /\ hi \in kept
    BY <1>1
  <1>3. \A y \in kept : lo <= y /\ y <= hi
    BY <1>1
  <1>h. HIDE DEF kept
  <1>4. Min(kept) = lo
    BY <1>1, <1>2, <1>3, MinIs
  <1>5. Max(kept) = hi
    BY <1>1, <1>2, <1>3, MaxIs
  <1> QED
    BY <1>2, <1>4, <1>5 DEF Trim, kept

LEMMA TrimOfNone ==
  ASSUME NEW s, NEW cut, \A i \in DOMAIN s : s[i] \in cut
  PROVE  Trim(s, cut) = <<>>
  BY DEF Trim

\* What has an end that is cut, or nothing in it, stands for itself.
EndsKept(s, cut) == s = <<>> \/ (s[1] \notin cut /\ s[Len(s)] \notin cut)

LEMMA EmptyLength ==
  Len(<<>>) = 0 /\ DOMAIN <<>> = {}
  OBVIOUS

LEMMA NonEmpty ==
  ASSUME NEW T, NEW s \in Seq(T), s # <<>>
  PROVE  1 \in 1..Len(s) /\ Len(s) \in 1..Len(s) /\ Len(s) \in Nat /\ DOMAIN s = 1..Len(s)
  OBVIOUS

LEMMA TrimKeeps ==
  ASSUME NEW T, NEW s \in Seq(T), NEW cut, EndsKept(s, cut)
  PROVE  Trim(s, cut) = s
  <1>1. CASE s = <<>>
    BY <1>1, TrimOfNone, EmptyLength
  <1>2. CASE s # <<>>
    <2>1. 1 \in 1..Len(s) /\ Len(s) \in 1..Len(s) /\ Len(s) \in Nat
      BY <1>2, NonEmpty
    <2>2. s[1] \notin cut /\ s[Len(s)] \notin cut
      BY <1>2 DEF EndsKept
    <2>3. Trim(s, cut) = SubSeq(s, 1, Len(s))
      BY <2>1, <2>2, TrimIs
    <2> QED
      BY <2>3, SubSeqFull
  <1> QED
    BY <1>1, <1>2

LEMMA TrimEnds ==
  ASSUME NEW T, NEW s \in Seq(T), NEW cut
  PROVE  Trim(s, cut) \in Seq(T) /\ EndsKept(Trim(s, cut), cut)
  <1> DEFINE kept == {i \in DOMAIN s : s[i] \notin cut}
  <1>1. Len(s) \in Nat /\ DOMAIN s = 1..Len(s)
    OBVIOUS
  <1>2. CASE kept = {}
    <2>1. Trim(s, cut) = <<>>
      BY <1>2 DEF Trim
    <2> QED
      BY <2>1, EmptySeq DEF EndsKept
  <1>3. CASE kept # {}
    <2>1. kept \in SUBSET (1..Len(s))
      BY <1>1
    <2>d. DEFINE lo == Min(kept)
    <2>e. DEFINE hi == Max(kept)
    <2>f. Trim(s, cut) = SubSeq(s, lo, hi)
      BY <1>3 DEF Trim
    <2>2. lo \in kept /\ hi \in kept /\ lo <= hi
      <3> HIDE DEF kept
      <3> QED
        BY <1>1, <1>3, <2>1, MinOf, MaxOf
    <2>3. lo \in 1..Len(s) /\ hi \in 1..Len(s) /\ s[lo] \notin cut /\ s[hi] \notin cut
      BY <2>2, <2>1
    <2>h. HIDE DEF lo, hi, kept
    <2>4. \A i \in lo..hi : s[i] \in T
      BY <2>3
    <2>5. /\ SubSeq(s, lo, hi) \in Seq(T)
          /\ Len(SubSeq(s, lo, hi)) = hi - lo + 1
          /\ \A i \in 1..(hi - lo + 1) : SubSeq(s, lo, hi)[i] = s[lo + i - 1]
      BY <2>2, <2>3, <2>4, SubSeqProperties
    <2>6. 1 \in 1..(hi - lo + 1) /\ hi - lo + 1 \in 1..(hi - lo + 1)
      BY <2>2, <2>3
    <2>7. SubSeq(s, lo, hi)[1] = s[lo] /\ SubSeq(s, lo, hi)[hi - lo + 1] = s[hi]
      BY <2>3, <2>5, <2>6
    <2> QED
      BY <2>f, <2>3, <2>5, <2>7 DEF EndsKept
  <1> QED
    BY <1>2, <1>3

LEMMA TrimmedIsKept ==
  ASSUME NEW T, NEW s \in Seq(T), NEW cut
  PROVE  Trim(s, cut) = s <=> EndsKept(s, cut)
  BY TrimKeeps, TrimEnds

-----------------------------------------------------------------------------
(* What the server makes of a command. *)

Letters == Chars \cup {"database", "tag"}
Spaced(v) == <<"spc">> \o v

LEMMA ArgumentIsText ==
  ASSUME NEW v \in Strings
  PROVE  v \in Seq(Letters) /\ \A i \in DOMAIN v : v[i] \in Chars
  <1>1. PICK n \in Nat : v \in [1..n -> Chars]
    BY MaxLenAssumption DEF Strings
  <1>2. v \in [1..n -> Letters]
    BY <1>1 DEF Letters
  <1> QED
    BY <1>1, <1>2, SeqDef

LEMMA SpacedParts ==
  ASSUME NEW v \in Seq(Letters)
  PROVE  /\ Spaced(v) \in Seq(Letters) /\ Len(Spaced(v)) = Len(v) + 1
         /\ Spaced(v)[1] = "spc" /\ \A i \in 1..Len(v) : Spaced(v)[i + 1] = v[i]
         /\ SubSeq(Spaced(v), 2, Len(v) + 1) = v
  <1>1. <<"spc">> \in Seq(Letters) /\ Len(<<"spc">>) = 1 /\ Len(v) \in Nat
    BY DEF Letters, Chars
  <1>2. /\ Spaced(v) \in Seq(Letters) /\ Len(Spaced(v)) = Len(v) + 1
        /\ \A i \in 1..(Len(v) + 1) : Spaced(v)[i] = IF i <= 1 THEN <<"spc">>[i] ELSE v[i - 1]
    BY <1>1, ConcatProperties DEF Spaced
  <1>3. Spaced(v)[1] = "spc"
    BY <1>1, <1>2
  <1>4. \A i \in 1..Len(v) : Spaced(v)[i + 1] = v[i]
    BY <1>1, <1>2
  <1>5. \A i \in 2..(Len(v) + 1) : Spaced(v)[i] \in Letters
    BY <1>1, <1>2
  <1>6. /\ SubSeq(Spaced(v), 2, Len(v) + 1) \in Seq(Letters)
        /\ Len(SubSeq(Spaced(v), 2, Len(v) + 1)) = IF 2 <= Len(v) + 1 THEN (Len(v) + 1) - 2 + 1 ELSE 0
        /\ \A i \in 1..((Len(v) + 1) - 2 + 1) : SubSeq(Spaced(v), 2, Len(v) + 1)[i] = Spaced(v)[2 + i - 1]
    <2>1. Len(v) + 1 \in Int /\ 2 \in Int
      BY <1>1
    <2> QED
      BY <1>5, <2>1, SubSeqProperties
  <1>7. Len(SubSeq(Spaced(v), 2, Len(v) + 1)) = Len(v)
    BY <1>1, <1>6
  <1>8. \A i \in 1..Len(v) : SubSeq(Spaced(v), 2, Len(v) + 1)[i] = v[i]
    BY <1>1, <1>4, <1>6
  <1>9. SubSeq(Spaced(v), 2, Len(v) + 1) = v
    BY <1>6, <1>7, <1>8, SeqEqual
  <1> QED
    BY <1>2, <1>3, <1>4, <1>9

LEMMA TrimSpaced ==
  ASSUME NEW v \in Seq(Letters), NEW cut, v # <<>>, EndsKept(v, cut), "spc" \in cut
  PROVE  Trim(Spaced(v), cut) = v
  <1>1. Len(v) \in Nat \ {0} /\ v[1] \notin cut /\ v[Len(v)] \notin cut
    BY NonEmpty DEF EndsKept
  <1> DEFINE s == Spaced(v)
  <1>2. /\ s \in Seq(Letters) /\ Len(s) = Len(v) + 1
        /\ s[1] = "spc" /\ \A i \in 1..Len(v) : s[i + 1] = v[i]
        /\ SubSeq(s, 2, Len(v) + 1) = v
    BY SpacedParts
  <1>h. HIDE DEF s
  <1>3. 2 \in 1..Len(s) /\ Len(v) + 1 \in 1..Len(s)
    BY <1>1, <1>2
  <1>4. s[2] = v[1] /\ s[Len(v) + 1] = v[Len(v)]
    <2>1. 1 \in 1..Len(v) /\ Len(v) \in 1..Len(v) /\ 1 + 1 = 2
      BY <1>1
    <2> QED
      BY <1>2, <2>1
  <1>5. \A i \in 1..Len(s) : i < 2 \/ i > Len(v) + 1 => s[i] \in cut
    <2>1. \A i \in 1..Len(s) : i < 2 \/ i > Len(v) + 1 => i = 1
      BY <1>1, <1>2
    <2> QED
      BY <1>2, <2>1
  <1>6. s[2] \notin cut /\ s[Len(v) + 1] \notin cut
    BY <1>1, <1>4
  <1>7. Trim(s, cut) = SubSeq(s, 2, Len(v) + 1)
    BY <1>2, <1>3, <1>5, <1>6, TrimIs
  <1> QED
    BY <1>2, <1>7 DEF s

\* A space before a text is trimmed with it, whatever its ends are.
LEMMA TrimThroughSpace ==
  ASSUME NEW v \in Seq(Letters), NEW cut, "spc" \in cut
  PROVE  Trim(Spaced(v), cut) = Trim(v, cut)
  <1> DEFINE s == Spaced(v)
             kept == {i \in DOMAIN v : v[i] \notin cut}
  <1>1. /\ Len(v) \in Nat /\ DOMAIN v = 1..Len(v)
        /\ s \in Seq(Letters) /\ Len(s) = Len(v) + 1 /\ DOMAIN s = 1..(Len(v) + 1)
        /\ s[1] = "spc" /\ \A i \in 1..Len(v) : s[i + 1] = v[i]
    BY SpacedParts
  <1>h. HIDE DEF s
  <1>2. CASE kept = {}
    <2>1. \A i \in DOMAIN v : v[i] \in cut
      BY <1>2
    <2>2. ASSUME NEW i \in DOMAIN s PROVE s[i] \in cut
      <3>1. i = 1 \/ (i - 1 \in 1..Len(v) /\ (i - 1) + 1 = i)
        BY <1>1
      <3> QED
        BY <1>1, <2>1, <3>1
    <2>3. Trim(v, cut) = <<>> /\ Trim(s, cut) = <<>>
      BY <2>1, <2>2, TrimOfNone
    <2> QED
      BY <2>3 DEF s
  <1>3. CASE kept # {}
    <2>d. DEFINE lo == Min(kept)
    <2>e. DEFINE hi == Max(kept)
    <2>1. kept \in SUBSET (1..Len(v))
      BY <1>1
    <2>2. lo \in kept /\ hi \in kept /\ lo <= hi /\ \A i \in kept : lo <= i /\ i <= hi
      <3> HIDE DEF kept
      <3> QED
        BY <1>1, <1>3, <2>1, MinOf, MaxOf
    <2>a. lo \in 1..Len(v) /\ hi \in 1..Len(v) /\ v[lo] \notin cut /\ v[hi] \notin cut
      BY <1>1, <2>2
    <2>b. ASSUME NEW i \in 1..Len(v), i < lo \/ i > hi PROVE v[i] \in cut
      <3>1. i \notin kept
        <4> HIDE DEF kept, lo, hi
        <4> QED
          BY <2>2, <2>a, <2>b
      <3> QED
        BY <1>1, <3>1
    <2>3. /\ lo \in 1..Len(v) /\ hi \in 1..Len(v) /\ v[lo] \notin cut /\ v[hi] \notin cut
          /\ \A i \in 1..Len(v) : i < lo \/ i > hi => v[i] \in cut
      BY <2>a, <2>b
    <2>f. lo <= hi
      BY <2>2
    <2>h. HIDE DEF lo, hi, kept
    <2>4. Trim(v, cut) = SubSeq(v, lo, hi)
      BY <2>3, TrimIs
    <2>5. /\ lo + 1 \in 1..Len(s) /\ hi + 1 \in 1..Len(s) /\ s[lo + 1] = v[lo] /\ s[hi + 1] = v[hi]
      BY <1>1, <2>3
    <2>6. ASSUME NEW i \in 1..Len(s), i < lo + 1 \/ i > hi + 1 PROVE s[i] \in cut
      <3>1. i = 1 \/ (i - 1 \in 1..Len(v) /\ (i - 1) + 1 = i /\ (i - 1 < lo \/ i - 1 > hi))
        BY <1>1, <2>3, <2>6
      <3>2. CASE i = 1
        BY <1>1, <3>2
      <3>3. CASE i - 1 \in 1..Len(v) /\ (i - 1) + 1 = i /\ (i - 1 < lo \/ i - 1 > hi)
        <4>1. v[i - 1] \in cut
          BY <2>3, <3>3
        <4>2. s[(i - 1) + 1] = v[i - 1]
          BY <1>1, <3>3
        <4> QED
          BY <3>3, <4>1, <4>2
      <3> QED
        BY <3>1, <3>2, <3>3
    <2>7. Trim(s, cut) = SubSeq(s, lo + 1, hi + 1)
      BY <1>1, <2>3, <2>5, <2>6, TrimIs
    <2>8. /\ SubSeq(v, lo, hi) \in Seq(Letters) /\ Len(SubSeq(v, lo, hi)) = hi - lo + 1
          /\ \A i \in 1..(hi - lo + 1) : SubSeq(v, lo, hi)[i] = v[lo + i - 1]
      <3>1. \A i \in lo..hi : v[i] \in Letters
        BY <2>3
      <3> QED
        BY <2>3, <2>f, <3>1, SubSeqProperties
    <2>9. /\ SubSeq(s, lo + 1, hi + 1) \in Seq(Letters) /\ Len(SubSeq(s, lo + 1, hi + 1)) = hi - lo + 1
          /\ \A i \in 1..(hi - lo + 1) : SubSeq(s, lo + 1, hi + 1)[i] = s[lo + i]
      <3>1. \A i \in (lo + 1)..(hi + 1) : s[i] \in Letters
        BY <1>1, <2>3
      <3>2. lo + 1 \in Int /\ hi + 1 \in Int /\ lo + 1 <= hi + 1 /\ (hi + 1) - (lo + 1) + 1 = hi - lo + 1
        BY <2>3, <2>f
      <3>3. /\ SubSeq(s, lo + 1, hi + 1) \in Seq(Letters)
            /\ Len(SubSeq(s, lo + 1, hi + 1)) = (hi + 1) - (lo + 1) + 1
            /\ \A i \in 1..((hi + 1) - (lo + 1) + 1) : SubSeq(s, lo + 1, hi + 1)[i] = s[(lo + 1) + i - 1]
        BY <3>1, <3>2, SubSeqProperties
      <3>4. \A i \in 1..(hi - lo + 1) : (lo + 1) + i - 1 = lo + i
        BY <2>3
      <3> QED
        BY <3>2, <3>3, <3>4
    <2>10. ASSUME NEW i \in 1..(hi - lo + 1) PROVE SubSeq(s, lo + 1, hi + 1)[i] = SubSeq(v, lo, hi)[i]
      <3>1. lo + i - 1 \in 1..Len(v) /\ (lo + i - 1) + 1 = lo + i
        BY <1>1, <2>3
      <3> QED
        BY <1>1, <2>8, <2>9, <3>1
    <2>11. SubSeq(s, lo + 1, hi + 1) = SubSeq(v, lo, hi)
      BY <2>8, <2>9, <2>10, SeqEqual
    <2> QED
      BY <2>4, <2>7, <2>11 DEF s
  <1> QED
    BY <1>2, <1>3

\* The first word is what comes before the first gap of the trimmed text.
LEMMA WordAlone ==
  ASSUME NEW s, \A i \in DOMAIN Trim(s, spaceOrControl) : Trim(s, spaceOrControl)[i] \notin spaceOrControl
  PROVE  FirstWord(s) = Trim(s, spaceOrControl)
  BY DEF FirstWord

LEMMA WordBefore ==
  ASSUME NEW s, Trim(s, spaceOrControl) \in Seq(Letters),
         NEW p \in 1..Len(Trim(s, spaceOrControl)), Trim(s, spaceOrControl)[p] \in spaceOrControl,
         \A i \in 1..(p - 1) : Trim(s, spaceOrControl)[i] \notin spaceOrControl
  PROVE  FirstWord(s) = SubSeq(Trim(s, spaceOrControl), 1, p - 1)
  <1> DEFINE t == Trim(s, spaceOrControl)
             gaps == {i \in DOMAIN t : t[i] \in spaceOrControl}
  <1>1. t \in Seq(Letters) /\ Len(t) \in Nat /\ DOMAIN t = 1..Len(t)
    OBVIOUS
  <1>2. gaps \in SUBSET (1..Len(t)) /\ p \in gaps
    BY <1>1
  <1>3. \A y \in gaps : p <= y
    BY <1>1
  <1>4. FirstWord(s) = IF gaps = {} THEN t ELSE SubSeq(t, 1, Min(gaps) - 1)
    BY DEF FirstWord
  <1>h. HIDE DEF gaps, t
  <1>5. Min(gaps) = p
    BY <1>1, <1>2, <1>3, MinIs
  <1>6. FirstWord(s) = SubSeq(t, 1, p - 1)
    BY <1>2, <1>4, <1>5
  <1> QED
    BY <1>6 DEF t

LEMMA FirstWordIsOneWord ==
  ASSUME NEW s \in Seq(Letters)
  PROVE  /\ FirstWord(s) \in Seq(Letters)
         /\ \A i \in DOMAIN FirstWord(s) : FirstWord(s)[i] \notin spaceOrControl
  <1> DEFINE t == Trim(s, spaceOrControl)
             gaps == {i \in DOMAIN t : t[i] \in spaceOrControl}
  <1>1. t \in Seq(Letters)
    BY TrimEnds
  <1>2. FirstWord(s) = IF gaps = {} THEN t ELSE SubSeq(t, 1, Min(gaps) - 1)
    BY DEF FirstWord
  <1>h. HIDE DEF t
  <1>3. Len(t) \in Nat /\ DOMAIN t = 1..Len(t) /\ \A i \in 1..Len(t) : t[i] \in Letters
    BY <1>1
  <1>4. CASE gaps = {}
    BY <1>1, <1>2, <1>4
  <1>5. CASE gaps # {}
    <2>1. gaps \in SUBSET (1..Len(t))
      BY <1>3
    <2>2. PICK g \in gaps : g = Min(gaps) /\ \A y \in gaps : g <= y
      <3>1. HIDE DEF gaps
      <3> QED
        BY <1>3, <1>5, <2>1, MinOf
    <2>a. g \in 1..Len(t)
      BY <2>1
    <2>b. \A y \in 1..(g - 1) : y \in 1..Len(t) /\ y < g
      BY <1>3, <2>a
    <2>3. \A y \in 1..(g - 1) : y \in 1..Len(t) /\ t[y] \notin spaceOrControl
      <3> SUFFICES ASSUME NEW y \in 1..(g - 1), t[y] \in spaceOrControl PROVE FALSE
        BY <2>b
      <3>1. y \in DOMAIN t /\ y < g
        BY <1>3, <2>b
      <3>2. y \in gaps
        BY <3>1
      <3>3. g <= y
        BY <2>2, <3>2
      <3>4. y \in Int /\ g \in Int
        BY <2>a
      <3> QED
        BY <3>1, <3>3, <3>4
    <2>4. FirstWord(s) = SubSeq(t, 1, g - 1)
      BY <1>2, <1>5, <2>2
    <2>h. HIDE DEF gaps
    <2>5. /\ SubSeq(t, 1, g - 1) \in Seq(Letters)
          /\ \A i \in 1..((g - 1) - 1 + 1) : SubSeq(t, 1, g - 1)[i] = t[1 + i - 1]
          /\ Len(SubSeq(t, 1, g - 1)) = IF 1 <= g - 1 THEN (g - 1) - 1 + 1 ELSE 0
      <3>1. g - 1 \in Int /\ 1 \in Int /\ \A i \in 1..(g - 1) : t[i] \in Letters
        BY <1>3, <2>3, <2>a
      <3> QED
        BY <3>1, SubSeqProperties
    <2>6. DOMAIN SubSeq(t, 1, g - 1) = 1..(g - 1)
      BY <2>a, <2>5
    <2>7. \A i \in 1..(g - 1) : SubSeq(t, 1, g - 1)[i] = t[i]
      BY <2>a, <2>5
    <2> QED
      BY <2>3, <2>4, <2>5, <2>6, <2>7
  <1> QED
    BY <1>4, <1>5

\* What comes after a keyword.
LEMMA AfterIs ==
  ASSUME NEW s \in Seq(Letters), NEW k, NEW p \in 1..Len(s), s[p] = k,
         \A i \in 1..(p - 1) : s[i] # k
  PROVE  After(s, k) = SubSeq(s, p + 1, Len(s))
  <1> DEFINE at == {i \in DOMAIN s : s[i] = k}
  <1>1. Len(s) \in Nat /\ DOMAIN s = 1..Len(s)
    OBVIOUS
  <1>2. at \in SUBSET (1..Len(s)) /\ p \in at
    BY <1>1
  <1>3. \A y \in at : p <= y
    BY <1>1
  <1>4. After(s, k) = IF at = {} THEN <<>> ELSE SubSeq(s, Min(at) + 1, Len(s))
    BY DEF After
  <1>h. HIDE DEF at
  <1>5. Min(at) = p
    BY <1>1, <1>2, <1>3, MinIs
  <1> QED
    BY <1>2, <1>4, <1>5

LEMMA AfterNothing ==
  ASSUME NEW s, NEW k, \A i \in DOMAIN s : s[i] # k
  PROVE  After(s, k) = <<>>
  BY DEF After

LEMMA AfterIsText ==
  ASSUME NEW s \in Seq(Letters), NEW k
  PROVE  After(s, k) \in Seq(Letters)
  <1> DEFINE at == {i \in DOMAIN s : s[i] = k}
  <1>1. Len(s) \in Nat /\ DOMAIN s = 1..Len(s) /\ \A i \in 1..Len(s) : s[i] \in Letters
    OBVIOUS
  <1>2. After(s, k) = IF at = {} THEN <<>> ELSE SubSeq(s, Min(at) + 1, Len(s))
    BY DEF After
  <1>3. CASE at = {}
    BY <1>2, <1>3, EmptySeq
  <1>4. CASE at # {}
    <2>1. at \in SUBSET (1..Len(s))
      BY <1>1
    <2>2. Min(at) \in at
      <3>1. HIDE DEF at
      <3> QED
        BY <1>1, <1>4, <2>1, MinOf
    <2>3. Min(at) \in 1..Len(s)
      BY <2>1, <2>2
    <2>h. HIDE DEF at
    <2>4. Min(at) + 1 \in Int /\ Len(s) \in Int
      BY <1>1, <2>3
    <2>6. \A i \in (Min(at) + 1)..Len(s) : i \in 1..Len(s)
      BY <1>1, <2>3
    <2>5. SubSeq(s, Min(at) + 1, Len(s)) \in Seq(Letters)
      BY <1>1, <2>4, <2>6, SubSeqProperties
    <2> QED
      BY <1>2, <1>4, <2>5
  <1> QED
    BY <1>3, <1>4

LEMMA AfterKeyword ==
  ASSUME NEW s \in Seq(Letters), NEW u \in Seq(Letters), s # <<>>, u # <<>>,
         NEW k, s[Len(s)] = k, \A i \in 1..(Len(s) - 1) : s[i] # k
  PROVE  After(s \o u, k) = u
  <1>1. Len(s) \in Nat \ {0} /\ Len(u) \in Nat \ {0}
    BY NonEmpty
  <1>2. /\ s \o u \in Seq(Letters) /\ Len(s \o u) = Len(s) + Len(u)
        /\ \A i \in 1..(Len(s) + Len(u)) : (s \o u)[i] = IF i <= Len(s) THEN s[i] ELSE u[i - Len(s)]
    BY ConcatProperties
  <1>3. Len(s) \in 1..Len(s \o u)
    BY <1>1, <1>2
  <1>4. (s \o u)[Len(s)] = k
    BY <1>1, <1>2, <1>3
  <1>5. \A i \in 1..(Len(s) - 1) : i \in 1..(Len(s) + Len(u)) /\ i <= Len(s)
    BY <1>1
  <1>6. \A i \in 1..(Len(s) - 1) : (s \o u)[i] # k
    BY <1>2, <1>5
  <1>7. After(s \o u, k) = SubSeq(s \o u, Len(s) + 1, Len(s \o u))
    BY <1>2, <1>3, <1>4, <1>6, AfterIs
  <1>8. SubSeq(s \o u, Len(s) + 1, Len(s) + Len(u)) = SubSeq(u, Len(s) + 1 - Len(s), Len(s) + Len(u) - Len(s))
    <2>1. Len(s) + 1 \in Len(s) + 1 .. Len(s) + Len(u) /\ Len(s) + Len(u) \in Len(s) + 1 .. Len(s) + Len(u)
      BY <1>1
    <2> QED
      BY <2>1, SubSeqOfConcat2
  <1>9. Len(s) + 1 - Len(s) = 1 /\ Len(s) + Len(u) - Len(s) = Len(u)
    BY <1>1
  <1> QED
    BY <1>2, <1>7, <1>8, <1>9, SubSeqFull

\* A keyword, its argument and what surrounds them.
Keywords == {"database", "tag"}

LEMMA KeywordIs ==
  ASSUME NEW k \in Keywords, NEW v \in Seq(Letters), v # <<>>
  PROVE  Keyword(k, v) = <<"spc", k>> \o Spaced(v)
  <1>1. <<"spc", k>> \in Seq(Letters) /\ <<"spc">> \in Seq(Letters)
    BY DEF Letters, Chars, Keywords
  <1>2. (<<"spc", k>> \o <<"spc">>) \o v = <<"spc", k>> \o (<<"spc">> \o v)
    BY <1>1, ConcatAssociative
  <1>3. <<"spc", k>> \o <<"spc">> = <<"spc", k, "spc">>
    <2>1. Len(<<"spc", k>>) = 2 /\ Len(<<"spc">>) = 1
      OBVIOUS
    <2>2. /\ <<"spc", k>> \o <<"spc">> \in Seq(Letters) /\ Len(<<"spc", k>> \o <<"spc">>) = 3
          /\ \A i \in 1..3 : (<<"spc", k>> \o <<"spc">>)[i] = IF i <= 2 THEN <<"spc", k>>[i] ELSE <<"spc">>[i - 2]
      BY <1>1, <2>1, ConcatProperties
    <2>3. <<"spc", k, "spc">> \in Seq(Letters) /\ Len(<<"spc", k, "spc">>) = 3
      BY DEF Letters, Chars, Keywords
    <2>4. \A i \in 1..3 : (<<"spc", k>> \o <<"spc">>)[i] = <<"spc", k, "spc">>[i]
      BY <2>2
    <2> QED
      BY <2>2, <2>3, <2>4, SeqEqual
  <1>4. Keyword(k, v) = <<"spc", k, "spc">> \o v
    BY DEF Keyword
  <1> QED
    BY <1>2, <1>3, <1>4 DEF Spaced

LEMMA KeywordOnce ==
  ASSUME NEW k \in Keywords, NEW v \in Strings
  PROVE  /\ Keyword(k, v) \in Seq(Letters)
         /\ \A i \in 1..Len(Keyword(k, v)) : Keyword(k, v)[i] \in Keywords => Keyword(k, v)[i] = k
  <1>1. v \in Seq(Letters) /\ \A i \in DOMAIN v : v[i] \in Chars
    BY ArgumentIsText
  <1>2. CASE v = <<>>
    <2>1. Keyword(k, v) = <<>>
      BY <1>2 DEF Keyword
    <2> QED
      BY <2>1, EmptySeq
  <1>3. CASE v # <<>>
    <2> DEFINE s == Keyword(k, v)
               a == <<"spc", k, "spc">>
    <2>1. a \in Seq(Letters) /\ Len(a) = 3
      BY DEF Letters, Chars, Keywords
    <2>2. s = a \o v
      BY <1>3 DEF Keyword
    <2>3. /\ s \in Seq(Letters) /\ Len(s) = 3 + Len(v)
          /\ \A i \in 1..(3 + Len(v)) : s[i] = IF i <= 3 THEN a[i] ELSE v[i - 3]
      BY <1>1, <2>1, <2>2, ConcatProperties
    <2>4. \A i \in 1..3 : a[i] \in Keywords => a[i] = k
      BY DEF Keywords
    <2>h. HIDE DEF a, s
    <2>5. ASSUME NEW i \in 1..Len(s), s[i] \in Keywords
          PROVE  s[i] = k
      <3>1. CASE i <= 3
        <4>1. i \in 1..3 /\ s[i] = a[i]
          BY <1>1, <2>3, <3>1
        <4> QED
          BY <2>4, <2>5, <4>1
      <3>2. CASE i > 3
        <4>1. i - 3 \in DOMAIN v /\ s[i] = v[i - 3]
          BY <1>1, <2>3, <3>2
        <4>2. s[i] \in Chars
          BY <1>1, <4>1
        <4> QED
          BY <2>5, <4>2 DEF Chars, Keywords
      <3> QED
        BY <1>1, <2>3, <3>1, <3>2
    <2> QED
      BY <2>3, <2>5 DEF s
  <1> QED
    BY <1>2, <1>3

\* The two keywords of ListQueries, read back: the tag to its end, the database to the first gap.
Listed(w, t) == Keyword("database", w) \o Keyword("tag", t)

LEMMA ListedIsText ==
  ASSUME NEW w \in Strings, NEW t \in Strings
  PROVE  Listed(w, t) \in Seq(Letters)
  BY KeywordOnce, ConcatProperties DEF Listed, Keywords

LEMMA TagIsReadBack ==
  ASSUME NEW w \in Strings, NEW t \in Strings, EndsKept(t, spaceOrControl)
  PROVE  Trim(After(Listed(w, t), "tag"), spaceOrControl) = t
  <1> DEFINE d == Keyword("database", w)
  <1>1. t \in Seq(Letters) /\ d \in Seq(Letters)
    BY ArgumentIsText, KeywordOnce DEF Keywords
  <1>2. \A i \in 1..Len(d) : d[i] # "tag"
    BY KeywordOnce DEF Keywords
  <1>h. HIDE DEF d
  <1>3. CASE t = <<>>
    <2>1. Listed(w, t) = d
      BY <1>1, <1>3, ConcatEmptySeq DEF Listed, Keyword, d
    <2>2. After(d, "tag") = <<>>
      BY <1>1, <1>2, LenProperties, AfterNothing
    <2> QED
      BY <1>3, <2>1, <2>2, TrimOfNone, EmptyLength
  <1>4. CASE t # <<>>
    <2> DEFINE k == <<"spc", "tag">>
    <2>1. k \in Seq(Letters) /\ Len(k) = 2 /\ k[1] = "spc" /\ k[2] = "tag"
      BY DEF Letters, Chars
    <2>2. Spaced(t) \in Seq(Letters) /\ Spaced(t) # <<>>
      <3>1. Len(Spaced(t)) = Len(t) + 1 /\ Len(t) \in Nat /\ Spaced(t) \in Seq(Letters)
        BY <1>1, SpacedParts
      <3> QED
        BY <3>1, EmptyLength
    <2>3. Listed(w, t) = d \o (k \o Spaced(t))
      BY <1>1, <1>4, KeywordIs DEF Listed, Keywords, d
    <2>h. HIDE DEF k
    <2>a. d \in Seq(Letters) /\ k \in Seq(Letters) /\ Spaced(t) \in Seq(Letters)
      BY <1>1, <2>1, <2>2
    <2>b. (d \o k) \o Spaced(t) = d \o (k \o Spaced(t))
      BY <2>a, ConcatAssociative
    <2>4. Listed(w, t) = (d \o k) \o Spaced(t)
      BY <2>3, <2>b
    <2>c. /\ d \o k \in Seq(Letters) /\ Len(d \o k) = Len(d) + Len(k)
          /\ \A i \in 1..(Len(d) + Len(k)) : (d \o k)[i] = IF i <= Len(d) THEN d[i] ELSE k[i - Len(d)]
      BY <2>a, ConcatProperties
    <2>5. /\ d \o k \in Seq(Letters) /\ Len(d \o k) = Len(d) + 2 /\ Len(d) \in Nat
          /\ \A i \in 1..(Len(d) + 2) : (d \o k)[i] = IF i <= Len(d) THEN d[i] ELSE k[i - Len(d)]
      BY <2>1, <2>a, <2>c
    <2>6. (d \o k)[Len(d) + 2] = "tag"
      <3>1. Len(d) + 2 \in 1..(Len(d) + 2) /\ ~(Len(d) + 2 <= Len(d)) /\ Len(d) + 2 - Len(d) = 2
        BY <2>5
      <3> QED
        BY <2>1, <2>5, <3>1
    <2>7. ASSUME NEW i \in 1..(Len(d) + 1)
          PROVE  (d \o k)[i] # "tag"
      <3>1. i \in 1..(Len(d) + 2)
        BY <2>5
      <3>2. CASE i <= Len(d)
        <4>1. i \in 1..Len(d)
          BY <2>5, <3>2
        <4> QED
          BY <1>2, <2>5, <3>1, <3>2, <4>1
      <3>3. CASE ~(i <= Len(d))
        <4>1. i - Len(d) = 1
          BY <2>5, <3>3
        <4> QED
          BY <2>1, <2>5, <3>1, <3>3, <4>1
      <3> QED
        BY <3>2, <3>3
    <2>8. d \o k # <<>> /\ Len(d \o k) - 1 = Len(d) + 1
      BY <2>5, EmptyLength
    <2>d. DEFINE p == d \o k
    <2>e. /\ p \in Seq(Letters) /\ p # <<>> /\ p[Len(p)] = "tag"
          /\ \A i \in 1..(Len(p) - 1) : p[i] # "tag"
      BY <2>5, <2>6, <2>7, <2>8
    <2>f. Listed(w, t) = p \o Spaced(t)
      BY <2>4
    <2>g. HIDE DEF p
    <2>9. After(Listed(w, t), "tag") = Spaced(t)
      BY <2>2, <2>e, <2>f, AfterKeyword
    <2> QED
      BY <1>1, <1>4, <2>9, TrimSpaced DEF spaceOrControl
  <1> QED
    BY <1>3, <1>4

LEMMA WordIsReadBack ==
  ASSUME NEW w \in Strings, NEW t \in Strings, EndsKept(t, spaceOrControl),
         \A i \in DOMAIN w : w[i] \notin spaceOrControl
  PROVE  FirstWord(After(Listed(w, t), "database")) = w
  <1> DEFINE g == Keyword("tag", t)
  <1>1. /\ w \in Seq(Letters) /\ t \in Seq(Letters) /\ g \in Seq(Letters)
        /\ \A i \in 1..Len(g) : g[i] # "database"
    BY ArgumentIsText, KeywordOnce DEF Keywords
  <1>2. CASE w = <<>>
    <2>1. Listed(w, t) = g
      BY <1>1, <1>2, ConcatEmptySeq DEF Listed, Keyword
    <2>h. HIDE DEF g
    <2>2. After(g, "database") = <<>>
      BY <1>1, LenProperties, AfterNothing
    <2>3. Trim(<<>>, spaceOrControl) = <<>>
      BY TrimOfNone, EmptyLength
    <2>4. FirstWord(<<>>) = <<>>
      BY <2>3, WordAlone, EmptyLength
    <2> QED
      BY <1>2, <2>1, <2>2, <2>4
  <1>3. CASE w # <<>>
    <2> DEFINE k == <<"spc", "database">>
               u == w \o g
    <2>1. k \in Seq(Letters) /\ k # <<>> /\ k[Len(k)] = "database" /\ \A i \in 1..(Len(k) - 1) : k[i] # "database"
      BY DEF Letters, Chars
    <2>2. <<"spc">> \in Seq(Letters)
      BY DEF Letters, Chars
    <2>3. Listed(w, t) = (k \o Spaced(w)) \o g
      BY <1>1, <1>3, KeywordIs DEF Listed, Keywords
    <2>h. HIDE DEF k, g
    <2>4. Spaced(w) \in Seq(Letters) /\ u \in Seq(Letters)
      BY <1>1, SpacedParts, ConcatProperties
    <2>5. Spaced(w) \o g = Spaced(u)
      BY <1>1, <2>2, ConcatAssociative DEF Spaced
    <2>6. (k \o Spaced(w)) \o g = k \o (Spaced(w) \o g)
      BY <1>1, <2>1, <2>4, ConcatAssociative
    <2>7. Listed(w, t) = k \o Spaced(u)
      BY <2>3, <2>5, <2>6
    <2>a. Len(w) \in Nat \ {0}
      BY <1>1, <1>3, NonEmpty
    <2>8. /\ Len(u) = Len(w) + Len(g)
          /\ \A i \in 1..(Len(w) + Len(g)) : u[i] = IF i <= Len(w) THEN w[i] ELSE g[i - Len(w)]
      BY <1>1, ConcatProperties
    <2>i. HIDE DEF u
    <2>9. Spaced(u) \in Seq(Letters) /\ Spaced(u) # <<>>
      <3>1. Len(Spaced(u)) = Len(u) + 1 /\ Len(u) \in Nat /\ Spaced(u) \in Seq(Letters)
        BY <2>4, SpacedParts
      <3> QED
        BY <3>1, EmptyLength
    <2>b. After(Listed(w, t), "database") = Spaced(u)
      BY <2>1, <2>7, <2>9, AfterKeyword
    <2>c. \A i \in 1..Len(w) : w[i] \notin spaceOrControl
      BY <1>1
    <2>d. Len(g) \in Nat
      BY <1>1
    <2>e. \A i \in 1..Len(w) : u[i] = w[i] /\ u[i] \notin spaceOrControl
      BY <2>8, <2>a, <2>c, <2>d
    <2>f. u # <<>>
      BY <2>8, <2>a, <2>d, EmptyLength
    <2>j. CASE t = <<>>
      <3>1. g = <<>>
        BY <2>j DEF g, Keyword
      <3>2. u = w
        BY <1>1, <3>1, ConcatEmptySeq DEF u
      <3>3. EndsKept(w, spaceOrControl)
        BY <2>a, <2>c DEF EndsKept
      <3>4. Trim(Spaced(w), spaceOrControl) = w
        BY <1>1, <1>3, <3>3, TrimSpaced DEF spaceOrControl
      <3> QED
        BY <2>b, <3>2, <3>4, WordAlone
    <2>k. CASE t # <<>>
      <3>1. Len(g) = Len(t) + 3 /\ Len(t) \in Nat \ {0} /\ g[1] = "spc" /\ g[Len(g)] = t[Len(t)]
        <4> DEFINE a == <<"spc", "tag", "spc">>
        <4>1. a \in Seq(Letters) /\ Len(a) = 3 /\ a[1] = "spc"
          BY DEF Letters, Chars
        <4>2. g = a \o t
          BY <2>k DEF Keyword, g
        <4>h. HIDE DEF a
        <4>3. Len(t) \in Nat \ {0}
          BY <1>1, <2>k, NonEmpty
        <4>4. /\ Len(a \o t) = Len(a) + Len(t)
              /\ \A i \in 1..(Len(a) + Len(t)) : (a \o t)[i] = IF i <= Len(a) THEN a[i] ELSE t[i - Len(a)]
          BY <1>1, <4>1, ConcatProperties
        <4>5. /\ Len(g) = 3 + Len(t)
              /\ \A i \in 1..(3 + Len(t)) : g[i] = IF i <= 3 THEN a[i] ELSE t[i - 3]
          BY <4>1, <4>2, <4>4
        <4>6. g[1] = "spc"
          BY <4>1, <4>3, <4>5
        <4>7. g[3 + Len(t)] = t[Len(t)]
          <5>1. 3 + Len(t) \in 1..(3 + Len(t)) /\ ~(3 + Len(t) <= 3) /\ 3 + Len(t) - 3 = Len(t)
            BY <4>3
          <5> QED
            BY <4>5, <5>1
        <4> QED
          BY <4>3, <4>5, <4>6, <4>7
      <3>2. u[Len(u)] = t[Len(t)]
        <4>1. Len(u) \in 1..(Len(w) + Len(g)) /\ ~(Len(u) <= Len(w)) /\ Len(u) - Len(w) = Len(g)
          BY <2>8, <2>a, <3>1
        <4> QED
          BY <2>8, <3>1, <4>1
      <3>3. u[Len(w) + 1] = "spc"
        <4>1. Len(w) + 1 \in 1..(Len(w) + Len(g)) /\ ~(Len(w) + 1 <= Len(w)) /\ Len(w) + 1 - Len(w) = 1
          BY <2>a, <3>1
        <4> QED
          BY <2>8, <3>1, <4>1
      <3>4. u[1] \notin spaceOrControl
        BY <2>a, <2>e
      <3>5. t[Len(t)] \notin spaceOrControl
        BY <2>k DEF EndsKept
      <3>6. EndsKept(u, spaceOrControl)
        BY <3>2, <3>4, <3>5 DEF EndsKept
      <3>7. Trim(Spaced(u), spaceOrControl) = u
        BY <2>4, <2>f, <3>6, TrimSpaced DEF spaceOrControl
      <3>8. Len(w) + 1 \in 1..Len(u) /\ Len(w) + 1 - 1 = Len(w)
        BY <2>8, <2>a, <3>1
      <3>9. "spc" \in spaceOrControl
        BY DEF spaceOrControl
      <3>a. FirstWord(Spaced(u)) = SubSeq(u, 1, Len(w))
        BY <2>4, <2>e, <3>3, <3>7, <3>8, <3>9, WordBefore
      <3>b. SubSeq(u, 1, Len(w)) = SubSeq(w, 1, Len(w))
        <4>1. 1 \in 1..Len(w) /\ Len(w) \in 1..Len(w)
          BY <2>a
        <4> QED
          BY <1>1, <4>1, SubSeqOfConcat1 DEF u
      <3> QED
        BY <1>1, <2>b, <3>a, <3>b, SubSeqFull
    <2> QED
      BY <2>j, <2>k
  <1> QED
    BY <1>2, <1>3

-----------------------------------------------------------------------------
(* The methods. *)

OneWord == {"TerminateQuery", "TerminateTransaction"}
Args(m) == [word : Words(m), tag : Tags(m)]

LEMMA MethodSplit ==
  ASSUME NEW m \in Methods
  PROVE  m \in Databases \/ m \in OneWord \/ m = "ListQueries" \/ m = "TerminateQueriesByTag" \/ m = "ListTransactions"
  BY DEF Methods, TakesWord, TakesTag, Databases, OneWord

LEMMA ArgsParts ==
  ASSUME NEW m \in Methods, NEW a \in Args(m)
  PROVE  /\ a = [word |-> a.word, tag |-> a.tag]
         /\ a.word \in Strings /\ a.tag \in Strings
         /\ m \in Databases \cup OneWord => a.tag = <<>>
         /\ m = "TerminateQueriesByTag" => a.word = <<>>
         /\ m = "ListTransactions" => a = NoArgs
  <1>1. <<>> \in Strings
    <2>1. <<>> \in [1..0 -> Chars] /\ 0 \in 0..MaxLen
      BY MaxLenAssumption
    <2> QED
      BY <2>1 DEF Strings
  <1>2. a = [word |-> a.word, tag |-> a.tag] /\ a.word \in Words(m) /\ a.tag \in Tags(m)
    BY DEF Args
  <1>3. a.word \in Strings /\ a.tag \in Strings
    BY <1>1, <1>2 DEF Words, Tags
  <1>4. m \in Databases \cup OneWord => a.tag = <<>>
    BY <1>2 DEF Tags, TakesTag, Databases, OneWord
  <1>5. m = "TerminateQueriesByTag" => a.word = <<>>
    BY <1>2 DEF Words, TakesWord
  <1>6. m = "ListTransactions" => a = NoArgs
    BY <1>2 DEF Words, Tags, TakesWord, TakesTag, NoArgs
  <1> QED
    BY <1>2, <1>3, <1>4, <1>5, <1>6

LEMMA ReadsAs ==
  ASSUME NEW m, NEW c
  PROVE  /\ m \in Databases => ServerReads(m, c) = [word |-> Trim(c, spaceOrControl), tag |-> <<>>]
         /\ m \in OneWord => ServerReads(m, c) = [word |-> FirstWord(c), tag |-> <<>>]
         /\ m = "ListQueries" =>
              ServerReads(m, c) = [word |-> FirstWord(After(c, "database")), tag |-> Trim(After(c, "tag"), spaceOrControl)]
         /\ m = "TerminateQueriesByTag" =>
              ServerReads(m, c) = [word |-> <<>>, tag |-> Trim(c, spaceOrControl)]
         /\ m = "ListTransactions" => ServerReads(m, c) = NoArgs
  <1>1. m \in Databases => ServerReads(m, c) = [word |-> Trim(c, spaceOrControl), tag |-> <<>>]
    BY DEF ServerReads, Databases, NoArgs
  <1>2. m \in OneWord => ServerReads(m, c) = [word |-> FirstWord(c), tag |-> <<>>]
    BY DEF ServerReads, OneWord, NoArgs
  <1>3. m = "ListQueries" =>
          ServerReads(m, c) = [word |-> FirstWord(After(c, "database")), tag |-> Trim(After(c, "tag"), spaceOrControl)]
    BY DEF ServerReads
  <1>4. m = "TerminateQueriesByTag" => ServerReads(m, c) = [word |-> <<>>, tag |-> Trim(c, spaceOrControl)]
    BY DEF ServerReads, NoArgs
  <1>5. m = "ListTransactions" => ServerReads(m, c) = NoArgs
    BY DEF ServerReads
  <1> QED
    BY <1>1, <1>2, <1>3, <1>4, <1>5

LEMMA Commands ==
  ASSUME NEW m, NEW a
  PROVE  /\ m \in Databases \cup OneWord => Command(m, a) = Spaced(a.word)
         /\ m = "ListQueries" => Command(m, a) = Listed(a.word, a.tag)
         /\ m = "TerminateQueriesByTag" => Command(m, a) = Spaced(a.tag)
  <1>1. m \in Databases \cup OneWord => Command(m, a) = Spaced(a.word)
    BY DEF Command, Databases, OneWord, Spaced
  <1>2. m = "ListQueries" => Command(m, a) = Listed(a.word, a.tag)
    BY DEF Command, Listed
  <1>3. m = "TerminateQueriesByTag" => Command(m, a) = Spaced(a.tag)
    BY DEF Command, Spaced
  <1> QED
    BY <1>1, <1>2, <1>3

LEMMA SendsWhen ==
  ASSUME NEW m, NEW a
  PROVE  /\ m \in Databases => Sends(m, a) = databaseCommand(a)
         /\ m \in OneWord => Sends(m, a) = TerminateByWord(a)
         /\ m = "ListQueries" => Sends(m, a) = ListQueries(a)
         /\ m = "TerminateQueriesByTag" => Sends(m, a) = TerminateQueriesByTag(a)
         /\ m = "ListTransactions" => Sends(m, a)
  <1>1. m \in Databases => Sends(m, a) = databaseCommand(a)
    BY DEF Sends, Databases
  <1>2. m \in OneWord => Sends(m, a) = TerminateByWord(a)
    BY DEF Sends, OneWord
  <1>3. m = "ListQueries" => Sends(m, a) = ListQueries(a)
    BY DEF Sends
  <1>4. m = "TerminateQueriesByTag" => Sends(m, a) = TerminateQueriesByTag(a)
    BY DEF Sends
  <1>5. m = "ListTransactions" => Sends(m, a)
    BY DEF Sends
  <1> QED
    BY <1>1, <1>2, <1>3, <1>4, <1>5

\* A word that passes its check keeps its ends.
LEMMA WordsKeepEnds ==
  ASSUME NEW v \in Seq(Letters), checkWord(v)
  PROVE  v # <<>> /\ EndsKept(v, spaceOrControl) /\ \A i \in DOMAIN v : v[i] \notin spaceOrControl
  <1>1. v # <<>> /\ \A i \in DOMAIN v : v[i] \notin spaceOrControl
    BY DEF checkWord
  <1>2. 1 \in DOMAIN v /\ Len(v) \in DOMAIN v
    BY <1>1, NonEmpty
  <1> QED
    BY <1>1, <1>2 DEF EndsKept

\* A command that is sent is read back as what the caller named, a database without the control
\* characters at its ends.
LEMMA SentIsReadBack ==
  ASSUME NEW m \in Methods, NEW a \in Args(m), Sends(m, a)
  PROVE  /\ m \notin Databases => ServerReads(m, Command(m, a)) = a
         /\ m \in Databases =>
              ServerReads(m, Command(m, a)) = [a EXCEPT !.word = Trim(a.word, spaceOrControl)]
  <1>1. /\ a = [word |-> a.word, tag |-> a.tag] /\ a.word \in Strings /\ a.tag \in Strings
        /\ a.word \in Seq(Letters) /\ a.tag \in Seq(Letters)
    BY ArgsParts, ArgumentIsText
  <1>o. m \in OneWord \/ m = "ListQueries" \/ m = "TerminateQueriesByTag" \/ m = "ListTransactions" => m \notin Databases
    BY DEF OneWord, Databases
  <1>2. CASE m \in Databases
    <2>1. Trim(Spaced(a.word), spaceOrControl) = Trim(a.word, spaceOrControl)
      BY <1>1, TrimThroughSpace DEF spaceOrControl
    <2>2. ServerReads(m, Spaced(a.word)) = [word |-> Trim(a.word, spaceOrControl), tag |-> <<>>]
      BY <1>2, <2>1, ReadsAs
    <2>3. a.tag = <<>> /\ Command(m, a) = Spaced(a.word)
      BY <1>2, ArgsParts, Commands
    <2>4. [a EXCEPT !.word = Trim(a.word, spaceOrControl)] = [word |-> Trim(a.word, spaceOrControl), tag |-> <<>>]
      BY <1>1, <2>3
    <2> QED
      BY <1>2, <2>2, <2>3, <2>4
  <1>3. CASE m \in OneWord
    <2>1. checkWord(a.word)
      BY <1>3, SendsWhen DEF TerminateByWord
    <2>2. Trim(Spaced(a.word), spaceOrControl) = a.word
      BY <1>1, <2>1, WordsKeepEnds, TrimSpaced DEF spaceOrControl
    <2>3. FirstWord(Spaced(a.word)) = a.word
      BY <1>1, <2>1, <2>2, WordsKeepEnds, WordAlone
    <2>4. ServerReads(m, Spaced(a.word)) = [word |-> a.word, tag |-> <<>>]
      BY <1>3, <2>3, ReadsAs
    <2> QED
      BY <1>1, <1>3, <1>o, <2>4, ArgsParts, Commands
  <1>4. CASE m = "ListQueries"
    <2>1. (a.word = <<>> \/ checkWord(a.word)) /\ (a.tag = <<>> \/ checkTag(a.tag))
      BY <1>4, SendsWhen DEF ListQueries
    <2>2. EndsKept(a.tag, spaceOrControl)
      BY <1>1, <2>1, TrimmedIsKept DEF checkTag, EndsKept
    <2>3. \A i \in DOMAIN a.word : a.word[i] \notin spaceOrControl
      BY <2>1, EmptyLength DEF checkWord
    <2>4. FirstWord(After(Listed(a.word, a.tag), "database")) = a.word
      BY <1>1, <2>2, <2>3, WordIsReadBack
    <2>5. Trim(After(Listed(a.word, a.tag), "tag"), spaceOrControl) = a.tag
      BY <1>1, <2>2, TagIsReadBack
    <2>6. ServerReads(m, Listed(a.word, a.tag)) = [word |-> a.word, tag |-> a.tag]
      BY <1>4, <2>4, <2>5, ReadsAs
    <2> QED
      BY <1>1, <1>4, <1>o, <2>6, Commands
  <1>5. CASE m = "TerminateQueriesByTag"
    <2>1. a.tag # <<>> /\ EndsKept(a.tag, spaceOrControl)
      BY <1>1, <1>5, SendsWhen, TrimmedIsKept DEF TerminateQueriesByTag, checkTag
    <2>2. Trim(Spaced(a.tag), spaceOrControl) = a.tag
      BY <1>1, <2>1, TrimSpaced DEF spaceOrControl
    <2>3. ServerReads(m, Spaced(a.tag)) = [word |-> <<>>, tag |-> a.tag]
      BY <1>5, <2>2, ReadsAs
    <2> QED
      BY <1>1, <1>5, <1>o, <2>3, ArgsParts, Commands
  <1>6. CASE m = "ListTransactions"
    BY <1>6, <1>o, ArgsParts, ReadsAs
  <1> QED
    BY <1>2, <1>3, <1>4, <1>5, <1>6, MethodSplit

\* What a running-work method refuses would have been read as something else.
LEMMA RefusedIsMisread ==
  ASSUME NEW m \in Methods, NEW a \in Args(m), ~Sends(m, a), m \notin Databases
  PROVE  ServerReads(m, Command(m, a)) # a \/ a = NoArgs
  <1>1. /\ a = [word |-> a.word, tag |-> a.tag] /\ a.word \in Strings /\ a.tag \in Strings
        /\ a.word \in Seq(Letters) /\ a.tag \in Seq(Letters)
    BY ArgsParts, ArgumentIsText
  <1>2. CASE m \in OneWord
    <2>1. ~checkWord(a.word)
      BY <1>2, SendsWhen DEF TerminateByWord
    <2>2. CASE a.word = <<>>
      BY <1>1, <1>2, <2>2, ArgsParts DEF NoArgs
    <2>3. CASE a.word # <<>>
      <3>1. ~(\A i \in DOMAIN a.word : a.word[i] \notin spaceOrControl)
        BY <2>1, <2>3 DEF checkWord
      <3>2. FirstWord(Spaced(a.word)) # a.word
        BY <1>1, <3>1, SpacedParts, FirstWordIsOneWord
      <3>3. ServerReads(m, Command(m, a)).word = FirstWord(Spaced(a.word))
        BY <1>2, ReadsAs, Commands
      <3> QED
        BY <3>2, <3>3
    <2> QED
      BY <2>2, <2>3
  <1>3. CASE m = "ListQueries"
    <2>1. \/ a.word # <<>> /\ ~checkWord(a.word)
          \/ a.tag # <<>> /\ ~checkTag(a.tag)
      BY <1>3, SendsWhen DEF ListQueries
    <2>2. /\ After(Listed(a.word, a.tag), "database") \in Seq(Letters)
          /\ After(Listed(a.word, a.tag), "tag") \in Seq(Letters)
      BY <1>1, ListedIsText, AfterIsText
    <2>3. /\ ServerReads(m, Command(m, a)).word = FirstWord(After(Listed(a.word, a.tag), "database"))
          /\ ServerReads(m, Command(m, a)).tag = Trim(After(Listed(a.word, a.tag), "tag"), spaceOrControl)
      BY <1>3, ReadsAs, Commands
    <2>4. CASE a.word # <<>> /\ ~checkWord(a.word)
      <3>1. ~(\A i \in DOMAIN a.word : a.word[i] \notin spaceOrControl)
        BY <2>4 DEF checkWord
      <3>2. FirstWord(After(Listed(a.word, a.tag), "database")) # a.word
        BY <2>2, <3>1, FirstWordIsOneWord
      <3> QED
        BY <2>3, <3>2
    <2>5. CASE a.tag # <<>> /\ ~checkTag(a.tag)
      <3>1. ~EndsKept(a.tag, spaceOrControl)
        BY <1>1, <2>5, TrimmedIsKept DEF checkTag
      <3>2. Trim(After(Listed(a.word, a.tag), "tag"), spaceOrControl) # a.tag
        BY <2>2, <3>1, TrimEnds
      <3> QED
        BY <2>3, <3>2
    <2> QED
      BY <2>1, <2>4, <2>5
  <1>4. CASE m = "TerminateQueriesByTag"
    <2>1. a.tag = <<>> \/ ~checkTag(a.tag)
      BY <1>4, SendsWhen DEF TerminateQueriesByTag
    <2>2. CASE a.tag = <<>>
      BY <1>1, <1>4, <2>2, ArgsParts DEF NoArgs
    <2>3. CASE ~checkTag(a.tag)
      <3>1. ~EndsKept(a.tag, spaceOrControl)
        BY <1>1, <2>3, TrimmedIsKept DEF checkTag
      <3>2. Trim(Spaced(a.tag), spaceOrControl) # a.tag
        BY <1>1, <3>1, SpacedParts, TrimEnds
      <3>3. ServerReads(m, Command(m, a)).tag = Trim(Spaced(a.tag), spaceOrControl)
        BY <1>4, ReadsAs, Commands
      <3> QED
        BY <3>2, <3>3
    <2> QED
      BY <2>1, <2>2, <2>3
  <1>5. CASE m = "ListTransactions"
    BY <1>5, SendsWhen
  <1> QED
    BY <1>2, <1>3, <1>4, <1>5, MethodSplit

-----------------------------------------------------------------------------
(* ServerText: numbers. *)

LEMMA Division ==
  ASSUME NEW a \in Nat, NEW d \in Nat \ {0}
  PROVE  (a \div d) \in Nat /\ (a \div d) * d <= a /\ a < (a \div d) * d + d
  OBVIOUS

LEMMA Remainder ==
  ASSUME NEW k \in Nat \ {0}, NEW h \in Int, NEW r \in 0..(k - 1)
  PROVE  (h * k + r) % k = r
  OBVIOUS

LEMMA RemainderOnce ==
  ASSUME NEW k \in Nat \ {0}, NEW r \in 0..(k - 1)
  PROVE  (k + r) % k = r
  OBVIOUS

LEMMA Times ==
  ASSUME NEW a \in Nat, NEW b \in Nat, NEW d \in Nat, a <= b
  PROVE  a * d <= b * d /\ a * d \in Nat
  OBVIOUS

LEMMA WrapFits ==
  ASSUME NEW n \in MinInt64..MaxInt64
  PROVE  Wrap(n) = n
  <1> DEFINE k == 2 * (MaxInt64 + 1)
  <1>1. k \in Nat \ {0} /\ n - MinInt64 \in 0..(k - 1) /\ MinInt64 \in Int /\ n \in Int
    BY MaxInt64Assumption DEF MinInt64
  <1>2. (n - MinInt64) % k = n - MinInt64
    BY <1>1
  <1> QED
    BY <1>1, <1>2 DEF Wrap

\* The wait in milliseconds.
LEMMA RoundedUp ==
  ASSUME NEW wait \in 1..(MaxInt64 - Ms + 1)
  PROVE  Rounded(wait) * Ms >= wait /\ (Rounded(wait) - 1) * Ms < wait
  <1>1. wait \in Nat \ {0} /\ Ms \in Nat \ {0} /\ wait + Ms - 1 \in Nat
    BY MaxInt64Assumption, MsAssumption
  <1>2. wait + Ms - 1 \in MinInt64..MaxInt64
    BY <1>1, MaxInt64Assumption DEF MinInt64
  <1>3. Rounded(wait) = (wait + Ms - 1) \div Ms
    BY <1>1, <1>2, WrapFits DEF Rounded, Quo
  <1> DEFINE q == (wait + Ms - 1) \div Ms
  <1>4. q \in Nat /\ q * Ms <= wait + Ms - 1 /\ wait + Ms - 1 < q * Ms + Ms
    BY <1>1, Division
  <1>h. HIDE DEF q
  <1>5. q * Ms \in Int /\ (q - 1) * Ms = q * Ms - Ms
    BY <1>1, <1>4
  <1>6. q * Ms >= wait /\ (q - 1) * Ms < wait
    BY <1>1, <1>4, <1>5
  <1> QED
    BY <1>3, <1>6 DEF q

\* A wait whose sum overflows: about the longest one, with a minus sign.
LEMMA RoundedWraps ==
  ASSUME NEW wait \in Durations, wait > MaxInt64 - Ms + 1
  PROVE  Rounded(wait) \in (-LongestWait)..(1 - LongestWait)
  <1> DEFINE k == 2 * (MaxInt64 + 1)
             sum == wait + Ms - 1
             rest == k - sum
             e == rest \div Ms
  <1>1. wait \in Nat /\ wait <= MaxInt64 /\ MaxInt64 \in Nat /\ Ms \in Nat \ {0} /\ Ms <= MaxInt64
    BY MaxInt64Assumption, MsAssumption DEF Durations
  <1>2. /\ k \in Nat \ {0} /\ sum \in Nat /\ rest \in Nat \ {0}
        /\ rest <= MaxInt64 + 1 /\ rest > MaxInt64 + 1 - Ms
    BY <1>1
  <1>3. Wrap(sum) = -rest
    <2>1. sum - MinInt64 = k + (MaxInt64 + 1 - rest) /\ MaxInt64 + 1 - rest \in 0..(k - 1)
      BY <1>1, <1>2 DEF MinInt64
    <2>h. HIDE DEF k, sum, rest
    <2>2. (sum - MinInt64) % k = MaxInt64 + 1 - rest
      BY <1>2, <2>1, RemainderOnce
    <2>3. Wrap(sum) = ((sum - MinInt64) % k) + MinInt64
      BY DEF Wrap, k
    <2> QED
      BY <1>1, <1>2, <2>2, <2>3 DEF MinInt64
  <1>4. Rounded(wait) = -e
    <2>1. -rest < 0 /\ -(-rest) = rest
      BY <1>2
    <2> QED
      BY <1>3, <2>1 DEF Rounded, Quo
  <1>h. HIDE DEF k, sum, rest
  <1>5. e \in Nat /\ e * Ms <= rest /\ rest < e * Ms + Ms
    BY <1>1, <1>2, Division
  <1>6. LongestWait \in Nat /\ LongestWait * Ms <= MaxInt64 + 1 /\ MaxInt64 + 1 < LongestWait * Ms + Ms
    BY <1>1, Division DEF LongestWait
  <1>i. HIDE DEF e
  <1>7. ~(e > LongestWait)
    <2> SUFFICES ASSUME e > LongestWait PROVE FALSE
      OBVIOUS
    <2>1. (LongestWait + 1) * Ms <= e * Ms /\ (LongestWait + 1) * Ms = LongestWait * Ms + Ms
      BY <1>1, <1>5, <1>6, Times
    <2>2. e * Ms \in Nat /\ LongestWait * Ms \in Nat
      BY <1>1, <1>5, <1>6
    <2> QED
      BY <1>1, <1>2, <1>5, <1>6, <2>1, <2>2
  <1>8. ~(e + 1 < LongestWait)
    <2> SUFFICES ASSUME e + 1 < LongestWait PROVE FALSE
      OBVIOUS
    <2>1. (e + 2) * Ms <= LongestWait * Ms /\ (e + 2) * Ms = e * Ms + Ms + Ms
      BY <1>1, <1>5, <1>6, Times
    <2>2. e * Ms \in Nat /\ LongestWait * Ms \in Nat
      BY <1>1, <1>5, <1>6
    <2> QED
      BY <1>1, <1>2, <1>5, <1>6, <2>1, <2>2
  <1>9. -e \in (-LongestWait)..(1 - LongestWait)
    BY <1>5, <1>6, <1>7, <1>8
  <1> QED
    BY <1>4, <1>9

\* The constants, as the numbers they are.
LEMMA Widths ==
  /\ MaxInt64 \in Nat /\ MaxInt32 \in Nat /\ Exact \in Nat /\ Second \in Nat \ {0}
  /\ MaxInt32 + 1 < Exact /\ Exact <= MaxInt64 /\ MinInt64 \in Int /\ MinInt64 < 0 /\ MinInt64 = -(MaxInt64 + 1)
  /\ MaxInt64 \div Second \in Nat /\ MaxInt64 \div Second < Exact
  BY MaxInt64Assumption, WidthsAssumption, Division DEF MinInt64

-----------------------------------------------------------------------------
(* Numbers as a float64. *)

LEMMA FloatsAreWhole ==
  WholeFloats \subseteq Nat
  <1>1. ASSUME NEW m \in 0..(Exact - 1), NEW p \in Powers
        PROVE  m * p \in Nat
    <2>1. m \in Nat /\ p \in Nat
      BY WidthsAssumption
    <2> QED
      BY <2>1
  <1> QED
    BY <1>1 DEF WholeFloats

LEMMA SmallIsFloat ==
  ASSUME NEW n \in 0..Exact
  PROVE  n \in WholeFloats
  <1>1. CASE n < Exact
    <2>1. n \in 0..(Exact - 1) /\ 1 \in Powers /\ n = n * 1
      BY <1>1, WidthsAssumption
    <2> QED
      BY <2>1 DEF WholeFloats
  <1>2. CASE n = Exact
    <2>1. Exact \div 2 \in 0..(Exact - 1) /\ 2 \in Powers /\ Exact = (Exact \div 2) * 2
      BY WidthsAssumption, EvenAssumption
    <2> QED
      BY <1>2, <2>1 DEF WholeFloats
  <1> QED
    BY <1>1, <1>2, WidthsAssumption

\* Rounding keeps a float as it is, and never crosses one.
LEMMA NearestOfFloat ==
  ASSUME NEW n \in WholeFloats, NEW f \in Nearest(n)
  PROVE  f = n
  <1>1. n \in Nat
    BY FloatsAreWhole
  <1>2. f \in WholeFloats /\ Distance(n, f) <= Distance(n, n)
    BY <1>1 DEF Nearest
  <1>3. f \in Nat
    BY <1>2, FloatsAreWhole
  <1> QED
    BY <1>1, <1>2, <1>3 DEF Distance

LEMMA NearestNotBelow ==
  ASSUME NEW n \in Nat, NEW g \in WholeFloats, g <= n, NEW f \in Nearest(n)
  PROVE  f \in Nat /\ g <= f
  <1>1. f \in WholeFloats /\ Distance(n, f) <= Distance(n, g)
    BY DEF Nearest
  <1>2. f \in Nat /\ g \in Nat
    BY <1>1, FloatsAreWhole
  <1> QED
    BY <1>1, <1>2 DEF Distance

-----------------------------------------------------------------------------
(* What is read of one number. *)

IsUsable(m) == ~m.text /\ ~m.fraction /\ m.n >= 0

LEMMA NumbersAre ==
  ASSUME NEW m \in Numbers
  PROVE  m.n \in Int /\ m.text \in BOOLEAN /\ m.fraction \in BOOLEAN
  BY WidthsAssumption DEF Numbers

LEMMA UnusableIsAbsent ==
  ASSUME NEW m \in Numbers, ~IsUsable(m), NEW v \in Parsed(m)
  PROVE  v = Absent
  <1>1. m.n \in Int /\ m.text \in BOOLEAN /\ m.fraction \in BOOLEAN
    BY NumbersAre
  <1>2. CASE m.text
    BY <1>2 DEF Parsed
  <1>3. CASE ~m.text
    <2>1. PICK f \in Nearest(m.n) : v \in jsonNonNegative(f, m.fraction)
      BY <1>3 DEF Parsed
    <2>2. CASE m.fraction
      BY <2>1, <2>2 DEF jsonNonNegative
    <2>3. CASE m.n < 0
      <3>1. f < 0
        BY <2>1, <2>3 DEF Nearest
      <3> QED
        BY <2>1, <3>1 DEF jsonNonNegative
    <2> QED
      BY <1>1, <1>3, <2>2, <2>3 DEF IsUsable
  <1> QED
    BY <1>2, <1>3

LEMMA ExactIsPresent ==
  ASSUME NEW m \in Numbers, IsUsable(m), m.n < Exact, NEW v \in Parsed(m)
  PROVE  v = Present(m.n)
  <1>1. m.n \in 0..Exact /\ m.n \in Nat /\ m.n <= MaxInt64
    BY NumbersAre, Widths DEF IsUsable
  <1>2. m.n \in WholeFloats
    BY <1>1, SmallIsFloat
  <1>3. PICK f \in Nearest(m.n) : v \in jsonNonNegative(f, m.fraction)
    BY DEF Parsed, IsUsable
  <1>4. f = m.n
    BY <1>2, <1>3, NearestOfFloat
  <1>5. \A limit \in Nearest(MaxInt64) : ~(f > limit)
    <2> SUFFICES ASSUME NEW limit \in Nearest(MaxInt64) PROVE ~(f > limit)
      OBVIOUS
    <2>1. limit \in Nat /\ m.n <= limit
      BY <1>1, <1>2, Widths, NearestNotBelow
    <2> QED
      BY <1>1, <1>4, <2>1
  <1>6. ~m.fraction /\ ~(f < 0)
    BY <1>1, <1>4 DEF IsUsable
  <1>7. v \in {Present(n) : n \in Int64(f)}
    BY <1>3, <1>5, <1>6, Zenon DEF jsonNonNegative
  <1>8. Int64(f) = {m.n}
    BY <1>1, <1>4 DEF Int64
  <1> QED
    BY <1>7, <1>8

\* From 2^53 on: the float it is rounded to, which may be 2^63, or nothing above that.
LEMMA LargeIsFloat ==
  ASSUME NEW m \in Numbers, IsUsable(m), m.n >= Exact, NEW v \in Parsed(m)
  PROVE  \E f \in Nearest(m.n) :
           /\ f \in Nat /\ Exact <= f
           /\ \/ f <= MaxInt64 /\ v = Present(f)
              \/ f = Edge /\ (v = Present(MinInt64) \/ v = Present(MaxInt64))
              \/ f > Edge /\ v = Absent
  <1>1. m.n \in Nat /\ Exact \in WholeFloats /\ Exact <= m.n
    BY NumbersAre, Widths, SmallIsFloat DEF IsUsable
  <1>2. PICK f \in Nearest(m.n) : v \in jsonNonNegative(f, m.fraction)
    BY DEF Parsed, IsUsable
  <1>3. f \in Nat /\ Exact <= f
    BY <1>1, <1>2, NearestNotBelow
  <1>4. (\E limit \in Nearest(MaxInt64) : f > limit) <=> f > Edge
    BY EdgeAssumption
  <1>5. ~m.fraction /\ ~(f < 0)
    BY <1>3 DEF IsUsable
  <1>6. v \in IF f > Edge THEN {Absent} ELSE {Present(n) : n \in Int64(f)}
    BY <1>2, <1>4, <1>5, Zenon DEF jsonNonNegative
  <1>7. f <= MaxInt64 \/ f = Edge \/ f > Edge
    BY <1>3, Widths DEF Edge
  <1>8. CASE f <= MaxInt64
    <2>1. Int64(f) = {f} /\ ~(f > Edge)
      BY <1>3, <1>8, Widths DEF Int64, Edge
    <2> QED
      BY <1>2, <1>3, <1>6, <1>8, <2>1
  <1>9. CASE f = Edge
    <2>1. Int64(f) = {MinInt64, MaxInt64} /\ ~(f > Edge)
      BY <1>3, <1>9, Widths DEF Int64, Edge
    <2> QED
      BY <1>2, <1>3, <1>6, <1>9, <2>1
  <1>10. CASE f > Edge
    BY <1>2, <1>3, <1>6, <1>10
  <1> QED
    BY <1>7, <1>8, <1>9, <1>10

LEMMA RecordParts ==
  /\ Absent.ok = FALSE /\ Absent.n = 0
  /\ \A n : Present(n).ok = TRUE /\ Present(n).n = n
  BY DEF Absent, Present

\* A Duration of so many seconds, or the longest.
LEMMA SecondsAreCapped ==
  ASSUME NEW n \in Nat
  PROVE  secondsDuration(n) = Capped(n * Second)
  <1> DEFINE q == MaxInt64 \div Second
  <1>1. q \in Nat /\ q * Second <= MaxInt64 /\ MaxInt64 < q * Second + Second
    BY Widths, Division
  <1>2. n * Second \in Nat /\ q * Second \in Nat
    BY <1>1, Widths
  <1>3. secondsDuration(n) = IF n > q THEN MaxInt64 ELSE Wrap(n * Second)
    BY DEF secondsDuration
  <1>h. HIDE DEF q
  <1>4. CASE n > q
    <2>1. (q + 1) * Second <= n * Second /\ (q + 1) * Second = q * Second + Second
      BY <1>1, <1>4, Widths, Times
    <2> QED
      BY <1>1, <1>2, <1>3, <1>4, <2>1, Widths DEF Capped
  <1>5. CASE ~(n > q)
    <2>1. n * Second <= q * Second
      BY <1>1, <1>5, Widths, Times
    <2>2. n * Second \in MinInt64..MaxInt64
      BY <1>1, <1>2, <2>1, Widths
    <2> QED
      BY <1>1, <1>2, <1>3, <1>5, <2>1, <2>2, Widths, WrapFits DEF Capped
  <1> QED
    BY <1>4, <1>5

LEMMA LargeSecondsAreCapped ==
  ASSUME NEW n \in Exact..MaxInt64
  PROVE  secondsDuration(n) = MaxInt64
  BY Widths DEF secondsDuration

\* The least int64 has no seconds: the product wraps around to nothing, a second being even.
LEMMA LeastSecondsVanish ==
  secondsDuration(MinInt64) = 0
  <1> DEFINE k == 2 * (MaxInt64 + 1)
             h == Second \div 2
  <1>1. h \in Nat /\ Second = h * 2 /\ k \in Nat \ {0} /\ -h \in Int
    BY Widths, EvenAssumption
  <1>2. MinInt64 * Second = (-h) * k
    <2>1. MinInt64 = -(MaxInt64 + 1)
      BY Widths
    <2>2. \A x \in Int, y \in Int : (-x) * (y * 2) = (-y) * (2 * x)
      OBVIOUS
    <2>3. MaxInt64 + 1 \in Int /\ h \in Int
      BY <1>1, Widths
    <2>4. (-(MaxInt64 + 1)) * (h * 2) = (-h) * (2 * (MaxInt64 + 1))
      <3>1. HIDE DEF h
      <3> QED
        BY <2>2, <2>3
    <2> QED
      BY <1>1, <2>1, <2>4, Zenon
  <1>3. MaxInt64 + 1 \in 0..(k - 1)
    BY Widths
  <1>4. secondsDuration(MinInt64) = ((MinInt64 * Second - MinInt64) % k) + MinInt64
    BY Widths DEF secondsDuration, Wrap
  <1>5. MinInt64 * Second - MinInt64 = (-h) * k + (MaxInt64 + 1)
    BY <1>1, <1>2, Widths
  <1>h. HIDE DEF h, k
  <1>6. ((-h) * k + (MaxInt64 + 1)) % k = MaxInt64 + 1
    BY <1>1, <1>3, Remainder
  <1> QED
    BY <1>4, <1>5, <1>6, Widths

-----------------------------------------------------------------------------
(* What is made of each field. *)

LEMMA StatusValue ==
  ASSUME NEW m \in Numbers, NEW v \in Parsed(m)
  PROVE  inBandStatus(v, Fallback) = IF IsUsable(m) /\ m.n \in 1..MaxInt32 THEN m.n ELSE Fallback
  <1>1. CASE ~IsUsable(m)
    <2>1. v.ok = FALSE
      BY <1>1, UnusableIsAbsent, RecordParts
    <2> QED
      BY <1>1, <2>1 DEF inBandStatus
  <1>2. CASE IsUsable(m) /\ m.n < Exact
    <2>1. v.ok = TRUE /\ v.n = m.n /\ m.n \in Int
      BY <1>2, ExactIsPresent, RecordParts, NumbersAre
    <2> QED
      BY <1>2, <2>1, Widths DEF inBandStatus
  <1>3. CASE IsUsable(m) /\ m.n >= Exact
    <2>1. ~(m.n \in 1..MaxInt32)
      BY <1>3, NumbersAre, Widths
    <2>2. CASE v = Absent
      BY <2>1, <2>2, RecordParts DEF inBandStatus
    <2>3. CASE v = Present(MinInt64)
      <3>1. v.n = MinInt64 /\ ~(v.n > 0)
        BY <2>3, RecordParts, Widths
      <3> QED
        BY <2>1, <3>1 DEF inBandStatus
    <2>4. ASSUME NEW n \in Exact..MaxInt64, v = Present(n)
          PROVE  inBandStatus(v, Fallback) = Fallback
      <3>1. v.n = n /\ ~(v.n <= MaxInt32)
        BY <2>4, RecordParts, Widths
      <3> QED
        BY <3>1 DEF inBandStatus
    <2>5. v = Absent \/ v = Present(MinInt64) \/ (\E n \in Exact..MaxInt64 : v = Present(n))
      BY <1>3, LargeIsFloat, Widths
    <2> QED
      BY <2>1, <2>2, <2>3, <2>4, <2>5
  <1> QED
    BY <1>1, <1>2, <1>3, NumbersAre, Widths

\* the wait of a JSON object
Waited(v) == IF v.ok THEN secondsDuration(v.n) ELSE 0

LEMMA WaitValue ==
  ASSUME NEW m \in Numbers, NEW v \in Parsed(m)
  PROVE  /\ IsUsable(m) /\ m.n < Exact => Waited(v) = Capped(m.n * Second)
         /\ IsUsable(m) /\ m.n >= Exact =>
              \/ Waited(v) = MaxInt64 /\ \E f \in Nearest(m.n) : f <= Edge
              \/ Waited(v) = 0 /\ \E f \in Nearest(m.n) : f >= Edge
         /\ ~IsUsable(m) => Waited(v) = 0
  <1>1. ASSUME ~IsUsable(m) PROVE Waited(v) = 0
    BY <1>1, UnusableIsAbsent, RecordParts DEF Waited
  <1>2. ASSUME IsUsable(m), m.n < Exact PROVE Waited(v) = Capped(m.n * Second)
    <2>1. v.ok = TRUE /\ v.n = m.n /\ m.n \in Nat
      BY <1>2, ExactIsPresent, RecordParts, NumbersAre DEF IsUsable
    <2> QED
      BY <2>1, SecondsAreCapped DEF Waited
  <1>3. ASSUME IsUsable(m), m.n >= Exact
        PROVE  \/ Waited(v) = MaxInt64 /\ \E f \in Nearest(m.n) : f <= Edge
               \/ Waited(v) = 0 /\ \E f \in Nearest(m.n) : f >= Edge
    <2>1. PICK f \in Nearest(m.n) :
            /\ f \in Nat /\ Exact <= f
            /\ \/ f <= MaxInt64 /\ v = Present(f)
               \/ f = Edge /\ (v = Present(MinInt64) \/ v = Present(MaxInt64))
               \/ f > Edge /\ v = Absent
      BY <1>3, LargeIsFloat
    <2>2. CASE f <= MaxInt64 /\ v = Present(f)
      <3>1. Waited(v) = MaxInt64
        BY <2>1, <2>2, RecordParts, LargeSecondsAreCapped, Widths DEF Waited
      <3> QED
        BY <2>1, <2>2, <3>1, Widths DEF Edge
    <2>3. CASE f = Edge /\ v = Present(MinInt64)
      <3>1. Waited(v) = 0
        BY <2>3, RecordParts, LeastSecondsVanish DEF Waited
      <3> QED
        BY <2>1, <2>3, <3>1
    <2>4. CASE f = Edge /\ v = Present(MaxInt64)
      <3>1. MaxInt64 \in Exact..MaxInt64
        BY Widths
      <3>2. Waited(v) = MaxInt64
        BY <2>4, <3>1, RecordParts, LargeSecondsAreCapped DEF Waited
      <3> QED
        BY <2>1, <2>4, <3>2
    <2>5. CASE f > Edge /\ v = Absent
      <3>1. Waited(v) = 0 /\ f >= Edge
        BY <2>1, <2>5, RecordParts, Widths DEF Waited, Edge
      <3> QED
        BY <3>1
    <2> QED
      BY <2>1, <2>2, <2>3, <2>4, <2>5
  <1> QED
    BY <1>1, <1>2, <1>3

LEMMA IndexValue ==
  ASSUME NEW m \in Numbers, NEW v \in Parsed(m)
  PROVE  /\ IsUsable(m) /\ m.n < Exact => v.n = m.n
         /\ IsUsable(m) /\ m.n >= Exact => v.n \in JsonNumber(m.n)
         /\ ~IsUsable(m) => v.n = 0
  <1>1. ~IsUsable(m) => v.n = 0
    BY UnusableIsAbsent, RecordParts
  <1>2. IsUsable(m) /\ m.n < Exact => v.n = m.n
    BY ExactIsPresent, RecordParts
  <1>3. ASSUME IsUsable(m), m.n >= Exact PROVE v.n \in JsonNumber(m.n)
    <2> DEFINE made(f) == CASE f <= MaxInt64 -> {f}
                            [] f = Edge -> {MinInt64, MaxInt64}
                            [] f > Edge -> {0}
    <2>1. PICK f \in Nearest(m.n) :
            /\ f \in Nat /\ Exact <= f
            /\ \/ f <= MaxInt64 /\ v = Present(f)
               \/ f = Edge /\ (v = Present(MinInt64) \/ v = Present(MaxInt64))
               \/ f > Edge /\ v = Absent
      BY <1>3, LargeIsFloat
    <2>2. v.n \in made(f)
      <3>1. CASE f <= MaxInt64 /\ v = Present(f)
        <4>1. made(f) = {f}
          BY <2>1, <3>1, Widths DEF Edge
        <4> QED
          BY <3>1, <4>1, RecordParts
      <3>2. CASE f = Edge /\ (v = Present(MinInt64) \/ v = Present(MaxInt64))
        <4>1. made(f) = {MinInt64, MaxInt64}
          BY <2>1, <3>2, Widths DEF Edge
        <4> QED
          BY <3>2, <4>1, RecordParts
      <3>3. CASE f > Edge /\ v = Absent
        <4>1. made(f) = {0}
          BY <2>1, <3>3, Widths DEF Edge
        <4> QED
          BY <3>3, <4>1, RecordParts
      <3> QED
        BY <2>1, <3>1, <3>2, <3>3
    <2>3. JsonNumber(m.n) = UNION {made(g) : g \in Nearest(m.n)}
      BY DEF JsonNumber
    <2>h. HIDE DEF made
    <2> QED
      BY <2>2, <2>3
  <1> QED
    BY <1>1, <1>2, <1>3

\* the text of a header
Digits(m) == [m EXCEPT !.text = m.text \/ m.fraction \/ m.n < 0]

LEMMA HeaderValue ==
  ASSUME NEW m \in Numbers
  PROVE  parseNonNegative(Digits(m)) = IF IsUsable(m) /\ m.n <= MaxInt64 THEN Present(m.n) ELSE Absent
  <1>1. /\ Digits(m).n = m.n
        /\ Digits(m).text <=> (m.text \/ m.fraction \/ m.n < 0)
    BY DEF Digits, Numbers
  <1>2. m.n \in Int
    BY NumbersAre
  <1>3. IsUsable(m) <=> ~(m.text \/ m.fraction \/ m.n < 0)
    BY <1>2 DEF IsUsable
  <1>4. ~(m.n <= MaxInt64) <=> m.n > MaxInt64
    BY <1>2, Widths
  <1> QED
    BY <1>1, <1>3, <1>4, Zenon DEF parseNonNegative

-----------------------------------------------------------------------------
(* The steps that read an answer. *)

LEMMA HeaderKeeps ==
  ASSUME NEW m \in Numbers, Header(m)
  PROVE  NumberIsServers'
  <1> DEFINE parsed == parseNonNegative(Digits(m))
  <1>1. \/ /\ field' = "Retry-After" /\ number' = m
           /\ value' = IF parsed.ok THEN secondsDuration(parsed.n) ELSE 0
        \/ field' = "Commit-Index" /\ number' = m /\ value' = parsed.n
    BY DEF Header, Reads, Digits
  <1>2. parsed = IF IsUsable(m) /\ m.n <= MaxInt64 THEN Present(m.n) ELSE Absent
    BY HeaderValue
  <1>h. HIDE DEF parsed
  <1>3. CASE field' = "Retry-After"
    <2>1. number' = m /\ value' = IF parsed.ok THEN secondsDuration(parsed.n) ELSE 0
      BY <1>1, <1>3
    <2>2. value' = IF IsUsable(m) /\ m.n <= MaxInt64 THEN Capped(m.n * Second) ELSE 0
      <3>1. CASE IsUsable(m) /\ m.n <= MaxInt64
        <4>1. parsed.ok = TRUE /\ parsed.n = m.n /\ m.n \in Nat
          BY <1>2, <3>1, RecordParts, NumbersAre DEF IsUsable
        <4> QED
          BY <2>1, <3>1, <4>1, SecondsAreCapped
      <3>2. CASE ~(IsUsable(m) /\ m.n <= MaxInt64)
        <4>1. parsed.ok = FALSE
          BY <1>2, <3>2, RecordParts
        <4> QED
          BY <2>1, <3>2, <4>1
      <3> QED
        BY <3>1, <3>2
    <2> QED
      BY <1>3, <2>1, <2>2 DEF NumberIsServers, Usable, IsUsable
  <1>4. CASE field' = "Commit-Index"
    <2>1. number' = m /\ value' = parsed.n
      BY <1>1, <1>4
    <2>2. value' = IF IsUsable(m) /\ m.n <= MaxInt64 THEN m.n ELSE 0
      BY <1>2, <2>1, RecordParts
    <2> QED
      BY <1>4, <2>1, <2>2 DEF NumberIsServers, Usable, IsUsable
  <1> QED
    BY <1>1, <1>3, <1>4

LEMMA StatusAndWaitKeeps ==
  ASSUME NEW m \in Numbers, NEW v \in Parsed(m), StatusAndWait(m, v)
  PROVE  NumberIsServers'
  <1>1. \/ field' = "status" /\ number' = m /\ value' = inBandStatus(v, Fallback)
        \/ field' = "retryAfter" /\ number' = m /\ value' = Waited(v)
    BY DEF StatusAndWait, Reads, Waited
  <1>2. CASE field' = "status"
    <2>1. number' = m /\ value' = IF IsUsable(m) /\ m.n \in 1..MaxInt32 THEN m.n ELSE Fallback
      BY <1>1, <1>2, StatusValue
    <2> QED
      BY <1>2, <2>1 DEF NumberIsServers, Usable, IsUsable
  <1>3. CASE field' = "retryAfter"
    <2>1. /\ number' = m
          /\ IsUsable(m) /\ m.n < Exact => value' = Capped(m.n * Second)
          /\ IsUsable(m) /\ m.n >= Exact =>
               \/ value' = MaxInt64 /\ \E f \in Nearest(m.n) : f <= Edge
               \/ value' = 0 /\ \E f \in Nearest(m.n) : f >= Edge
          /\ ~IsUsable(m) => value' = 0
      BY <1>1, <1>3, WaitValue
    <2> QED
      BY <1>3, <2>1 DEF NumberIsServers, Usable, IsUsable
  <1> QED
    BY <1>1, <1>2, <1>3

LEMMA IndexKeeps ==
  ASSUME NEW m \in Numbers, NEW v \in Parsed(m),
         field' \in {"commitIndex", "written"}, number' = m, value' = v.n
  PROVE  NumberIsServers'
  <1>1. /\ IsUsable(m) /\ m.n < Exact => value' = m.n
        /\ IsUsable(m) /\ m.n >= Exact => value' \in JsonNumber(m.n)
        /\ ~IsUsable(m) => value' = 0
    BY IndexValue
  <1> QED
    BY <1>1 DEF NumberIsServers, Usable, IsUsable

LEMMA ReadsAnswerKeeps ==
  ASSUME NumberNext
  PROVE  NumberIsServers'
  <1>1. CASE NextAnswer
    BY <1>1 DEF NextAnswer, NumberIsServers
  <1>2. ASSUME NEW m \in Numbers, Header(m) PROVE NumberIsServers'
    BY <1>2, HeaderKeeps
  <1>3. ASSUME NEW m \in Numbers, StreamError(m) PROVE NumberIsServers'
    BY <1>3, StatusAndWaitKeeps DEF StreamError
  <1>4. ASSUME NEW m \in Numbers, BatchError(m) PROVE NumberIsServers'
    BY <1>4, StatusAndWaitKeeps, IndexKeeps DEF BatchError, Reads
  <1>5. ASSUME NEW m \in Numbers, WriteError(m) PROVE NumberIsServers'
    BY <1>5, IndexKeeps DEF WriteError, Reads
  <1> QED
    BY <1>1, <1>2, <1>3, <1>4, <1>5 DEF NumberNext

-----------------------------------------------------------------------------
(* The steps that write a command, and both properties. *)

\* What is on its way is the command of a call whose arguments passed their checks.
SentInv ==
  phase = "sent" =>
    \E m \in Methods : \E a \in Args(m) :
      /\ call.method = m /\ call.args = a /\ Sends(m, a)
      /\ request.command = Command(m, a)

TextInv == SentInv /\ TargetIsNamed /\ NumberIsServers /\ WaitIsRoundedUp

LEMMA TextInitHolds ==
  TextInit => TextInv
  <1> SUFFICES ASSUME TextInit PROVE TextInv
    OBVIOUS
  <1>1. phase = "idle" /\ field = "none"
    BY DEF TextInit, CommandInit, NumberInit
  <1>2. SentInv
    BY <1>1 DEF SentInv
  <1>3. TargetIsNamed
    BY <1>1 DEF TargetIsNamed
  <1>4. NumberIsServers
    BY <1>1 DEF NumberIsServers
  <1>5. WaitIsRoundedUp
    BY <1>1 DEF WaitIsRoundedUp
  <1> QED
    BY <1>2, <1>3, <1>4, <1>5 DEF TextInv

CommandKept == SentInv /\ TargetIsNamed /\ WaitIsRoundedUp

LEMMA RefuseKeeps ==
  ASSUME NEW m \in Methods, NEW a \in Args(m), NEW wait, Refuse(m, a, wait)
  PROVE  CommandKept'
  <1>1. phase' = "refused" /\ call'.method = m /\ call'.args = a /\ ~Sends(m, a)
    BY DEF Refuse
  <1>2. m \notin Databases => ServerReads(m, Command(m, a)) # a \/ a = NoArgs
    BY <1>1, RefusedIsMisread
  <1>d. m \in Databases => a.word = <<>> \/ Trim(a.word, IsSpace) # a.word
    BY <1>1, SendsWhen DEF databaseCommand, checkName
  <1>3. SentInv'
    BY <1>1 DEF SentInv
  <1>4. TargetIsNamed'
    BY <1>1, <1>2, <1>d DEF TargetIsNamed
  <1>5. WaitIsRoundedUp'
    BY <1>1 DEF WaitIsRoundedUp
  <1> QED
    BY <1>3, <1>4, <1>5 DEF CommandKept

LEMMA SendKeeps ==
  ASSUME NEW m \in Methods, NEW a \in Args(m), NEW wait \in Durations, Send(m, a, wait)
  PROVE  CommandKept'
  <1>1. /\ phase' = "sent" /\ call'.method = m /\ call'.args = a /\ call'.wait = wait /\ Sends(m, a)
        /\ request'.command = Command(m, a) /\ request'.wait = IF wait > 0 THEN Rounded(wait) ELSE 0
    BY DEF Send
  <1>2. SentInv'
    BY <1>1 DEF SentInv
  <1>3. TargetIsNamed'
    BY <1>1 DEF TargetIsNamed
  <1>4. ASSUME wait \in 1..(MaxInt64 - Ms + 1)
        PROVE  request'.wait * Ms >= wait /\ (request'.wait - 1) * Ms < wait
    <2>1. wait > 0
      BY <1>4
    <2>2. request'.wait = Rounded(wait)
      BY <1>1, <2>1
    <2> QED
      BY <1>4, <2>2, RoundedUp
  <1>5. ASSUME wait > MaxInt64 - Ms + 1
        PROVE  request'.wait \in (-LongestWait)..(1 - LongestWait)
    <2>1. wait > 0
      BY <1>5, MaxInt64Assumption, MsAssumption DEF Durations
    <2>2. request'.wait = Rounded(wait)
      BY <1>1, <2>1
    <2> QED
      BY <1>5, <2>2, RoundedWraps
  <1>6. WaitIsRoundedUp'
    BY <1>1, <1>4, <1>5 DEF WaitIsRoundedUp
  <1> QED
    BY <1>2, <1>3, <1>6 DEF CommandKept

LEMMA ServeKeeps ==
  ASSUME SentInv, Serve
  PROVE  CommandKept'
  <1>1. phase = "sent" /\ phase' = "served" /\ call' = call /\ acted' = ServerReads(call.method, request.command)
    BY DEF Serve
  <1>2. PICK m \in Methods : \E a \in Args(m) :
          /\ call.method = m /\ call.args = a /\ Sends(m, a)
          /\ request.command = Command(m, a)
    BY <1>1 DEF SentInv
  <1>3. PICK a \in Args(m) :
          /\ call.method = m /\ call.args = a /\ Sends(m, a)
          /\ request.command = Command(m, a)
    BY <1>2
  <1>4. ServerReads(m, Command(m, a)) = IF m \in Databases
                                        THEN [a EXCEPT !.word = Trim(a.word, spaceOrControl)] ELSE a
    BY <1>3, SentIsReadBack
  <1>5. acted' = IF call'.method \in Databases
                 THEN [call'.args EXCEPT !.word = Trim(call'.args.word, spaceOrControl)] ELSE call'.args
    BY <1>1, <1>3, <1>4
  <1>6. SentInv'
    BY <1>1 DEF SentInv
  <1>7. TargetIsNamed'
    BY <1>1, <1>5 DEF TargetIsNamed
  <1>8. WaitIsRoundedUp'
    BY <1>1 DEF WaitIsRoundedUp
  <1> QED
    BY <1>6, <1>7, <1>8 DEF CommandKept

LEMMA WritesKeeps ==
  ASSUME SentInv, CommandNext
  PROVE  CommandKept'
  <1>1. ASSUME NEW m \in Methods, NEW w \in Words(m), NEW t \in Tags(m), NEW wait,
               Refuse(m, [word |-> w, tag |-> t], wait)
        PROVE  CommandKept'
    <2>1. [word |-> w, tag |-> t] \in Args(m)
      BY DEF Args
    <2> QED
      BY <1>1, <2>1, RefuseKeeps
  <1>2. ASSUME NEW m \in Methods, NEW w \in Words(m), NEW t \in Tags(m), NEW wait \in Waits(m),
               Send(m, [word |-> w, tag |-> t], wait)
        PROVE  CommandKept'
    <2>1. [word |-> w, tag |-> t] \in Args(m) /\ wait \in Durations
      BY MaxInt64Assumption DEF Args, Waits, Durations
    <2> QED
      BY <1>2, <2>1, SendKeeps
  <1>3. CASE Serve
    BY <1>3, ServeKeeps
  <1>4. CASE NextCall
    BY <1>4 DEF NextCall, CommandKept, SentInv, TargetIsNamed, WaitIsRoundedUp
  <1> QED
    BY <1>1, <1>2, <1>3, <1>4 DEF CommandNext

LEMMA CommandFrame ==
  ASSUME CommandKept, UNCHANGED commandVars
  PROVE  CommandKept'
  <1>1. phase' = phase /\ call' = call /\ request' = request /\ acted' = acted
    BY DEF commandVars
  <1>2. SentInv'
    BY <1>1 DEF CommandKept, SentInv
  <1>3. TargetIsNamed'
    BY <1>1 DEF CommandKept, TargetIsNamed
  <1>4. WaitIsRoundedUp'
    BY <1>1 DEF CommandKept, WaitIsRoundedUp
  <1> QED
    BY <1>2, <1>3, <1>4 DEF CommandKept

LEMMA NumberFrame ==
  ASSUME NumberIsServers, UNCHANGED numberVars
  PROVE  NumberIsServers'
  <1>1. field' = field /\ number' = number /\ value' = value
    BY DEF numberVars
  <1> QED
    BY <1>1 DEF NumberIsServers, Usable

LEMMA TextStepKeeps ==
  TextInv /\ [TextNext]_textVars => TextInv'
  <1> SUFFICES ASSUME TextInv, [TextNext]_textVars PROVE TextInv'
    OBVIOUS
  <1>1. CommandKept /\ SentInv /\ NumberIsServers
    BY DEF TextInv, CommandKept
  <1>2. CASE Writes
    BY <1>1, <1>2, WritesKeeps, NumberFrame DEF Writes, TextInv, CommandKept
  <1>3. CASE ReadsAnswer
    BY <1>1, <1>3, ReadsAnswerKeeps, CommandFrame DEF ReadsAnswer, TextInv, CommandKept
  <1>4. CASE UNCHANGED textVars
    <2>1. UNCHANGED commandVars /\ UNCHANGED numberVars
      BY <1>4 DEF textVars
    <2> QED
      BY <1>1, <2>1, CommandFrame, NumberFrame DEF TextInv, CommandKept
  <1> QED
    BY <1>2, <1>3, <1>4 DEF TextNext

THEOREM TextAlways == TextSpec => []TextInv
  BY TextInitHolds, TextStepKeeps, PTL DEF TextSpec

\* A command acts on what the caller named, or is refused (running.go, admin.go): the server
\* reads every argument of every length back as the caller wrote it, a database name without
\* the control characters at its ends, which the database methods let through; and what a
\* running-work method refuses would have been read as something else.
THEOREM CommandsMeanWhatTheySay == TextSpec => []TargetIsNamed
  <1>1. TextInv => TargetIsNamed
    BY DEF TextInv
  <1> QED
    BY <1>1, TextAlways, PTL

\* What becomes of every number and of every wait (errors.go, running.go), at the real widths
\* of int32, int64, Duration and float64 as at the run's: which are kept, which are the nearest
\* float64, and what the two edges make of the rest.
THEOREM NumbersSurvive == TextSpec => []NumbersAreKept
  <1>1. TextInv => NumbersAreKept
    BY DEF TextInv, NumbersAreKept
  <1> QED
    BY <1>1, TextAlways, PTL
====
