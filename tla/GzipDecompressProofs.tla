------------------------ MODULE GzipDecompressProofs ------------------------
(***************************************************************************)
(* Theorems about GzipDecompress, for all sizes of buffers, chunks, data   *)
(* and output that satisfy GzipAssumption.                                 *)
(***************************************************************************)
EXTENDS GzipDecompress, SequenceTheorems, TLAPS

\* The first n bytes of the output.
First(n) == [k \in 1 .. n |-> k]

\* Before the loop nothing was made, and a whole stream is not empty.
Fresh ==
  pc = "call" => made = 0 /\ out = <<>> /\ (data.fault = "none" => data.len > 0)

\* While the loop runs every byte made is in place, a whole stream has input
\* left, and the buffer has room for the terminator and at least one more byte;
\* it is enlarged only when the terminator is all there is room for.
Loops ==
  pc \in {"loop", "enlarge"} =>
    /\ out = First(made)
    /\ data.fault = "none" => avail_in > 0
    /\ ~chunked /\ pc = "loop" => made + 1 < capacity
    /\ pc = "enlarge" => ~chunked /\ made + 1 = capacity

Returned ==
  pc = "returned" =>
    /\ data.fault = "none" /\ made = data.output /\ out = First(made)
    /\ ~chunked => made < capacity

\* Only data that decompress to half of what an unsigned counts overrun the buffer.
Overran == pc = "overrun" => 2 * (data.output + 1) >= Modulus

Inv == TypeOK /\ Fresh /\ Loops /\ Returned /\ Overran /\ WholeStreamIsTaken

-----------------------------------------------------------------------------
(* Lemmas about sequences of bytes, unsigned numbers and inflate *)

\* Unsigned arithmetic that stays below its modulus is arithmetic.
LEMMA NoWrap ==
  ASSUME NEW x \in Nat, NEW m \in Nat, x < m
  PROVE  x % m = x
  BY Z3

\* One that is less than twice its modulus wraps once.
LEMMA WrapOnce ==
  ASSUME NEW x \in Nat, NEW m \in Nat, m > 0, x >= m, x < 2 * m
  PROVE  x % m = x - m
  BY Z3

\* A prefix of the output is a sequence of its length.
LEMMA FirstSeq ==
  ASSUME NEW n \in Nat
  PROVE  First(n) \in Seq(Nat) /\ Len(First(n)) = n
<1>1. First(n) \in [1 .. n -> Nat]
  BY DEF First
<1> QED
  BY <1>1 DEF First

\* A prefix of the output with the bytes that come next is a prefix again.
LEMMA FirstThenNext ==
  ASSUME NEW m \in Nat, NEW n \in Nat
  PROVE  First(m) \o [k \in 1 .. n |-> m + k] = First(m + n)
<1> DEFINE next == [k \in 1 .. n |-> m + k]
<1>1. next \in Seq(Nat) /\ Len(next) = n
  OBVIOUS
<1>2. First(m) \o next \in Seq(Nat) /\ Len(First(m) \o next) = m + n
  BY <1>1, FirstSeq, ConcatProperties
<1>3. ASSUME NEW k \in 1 .. m + n PROVE (First(m) \o next)[k] = k
  <2>1. CASE k <= m
    BY <2>1, <1>1, <1>3, FirstSeq DEF First
  <2>2. CASE k > m
    BY <2>2, <1>1, <1>3, FirstSeq DEF First
  <2>3. k <= m \/ k > m
    BY <1>3
  <2> QED
    BY <2>1, <2>2, <2>3
<1>4. First(m + n) \in Seq(Nat) /\ Len(First(m + n)) = m + n
  BY FirstSeq
<1>5. ASSUME NEW k \in 1 .. m + n PROVE First(m + n)[k] = k
  BY <1>5 DEF First
<1> QED
  BY <1>2, <1>3, <1>4, <1>5, SeqEqual

\* The numbers of the data and of a run.
LEMMA Numbers ==
  ASSUME TypeOK
  PROVE  /\ data.len \in Nat /\ data.output \in Nat /\ data.output <= MaxOutput
         /\ data.fault \in {"none", "cut", "damaged"}
         /\ made \in Nat /\ made <= data.output /\ avail_in \in Nat /\ capacity \in Nat
<1>1. /\ data \in Data /\ made \in 0 .. data.output /\ avail_in \in Nat
      /\ capacity \in 0 .. Modulus - 1
  BY DEF TypeOK
<1>2. MaxLen \in Nat /\ MaxOutput \in Nat /\ Modulus \in Nat
  BY GzipAssumption
<1>3. data.len \in 0 .. MaxLen /\ data.output \in 0 .. MaxOutput
        /\ data.fault \in {"none", "cut", "damaged"}
  BY <1>1 DEF Data
<1> QED
  BY <1>1, <1>2, <1>3

\* What inflate can do in the state of a loop.
LEMMA ResultsMeaning ==
  ASSUME TypeOK, NEW room \in Nat \ {0}, NEW r \in Results(room)
  PROVE  /\ r.ret \in {"ok", "end", "error"} /\ r.rest \in 0 .. avail_in
         /\ r.n \in Nat /\ r.n <= room /\ made + r.n <= data.output
         /\ r.ret = "end" => data.fault = "none" /\ made + r.n = data.output
         /\ r.ret = "error" => data.fault # "none"
         /\ r.ret = "ok" /\ r.rest > 0 => r.n = room
         /\ r.ret = "ok" /\ data.fault = "none" => r.rest > 0
  BY Numbers DEF Results, Result

-----------------------------------------------------------------------------
(* The invariant is inductive *)

LEMMA InitInv == Init => Inv
<1> SUFFICES ASSUME Init PROVE Inv
  OBVIOUS
<1> USE DEF Init
<1>1. data \in Data /\ data.output \in Nat /\ 0 \in 0 .. Modulus - 1
  <2>1. data \in Data
    OBVIOUS
  <2>2. MaxOutput \in Nat /\ Modulus \in Nat /\ 0 < Modulus
    BY GzipAssumption
  <2> QED
    BY <2>1, <2>2 DEF Data
<1>2. TypeOK
  BY <1>1 DEF TypeOK
<1> QED
  BY <1>2 DEF Inv, Fresh, Loops, Returned, Overran, WholeStreamIsTaken

\* A call that is refused or cannot begin has nothing to show.
LEMMA RefuseInv == Inv /\ (Refuse \/ InitFails) => Inv'
<1> SUFFICES ASSUME Inv, Refuse \/ InitFails PROVE Inv'
  OBVIOUS
<1>1. /\ pc' = "thrown" /\ error' \in {"too large", "init failed"}
      /\ UNCHANGED <<chunked, data, avail_in, made, capacity, out>>
      /\ error' = "too large" => ~chunked /\ data.len > MaxInput
  BY DEF Refuse, InitFails, Throw
<1>2. TypeOK'
  BY <1>1 DEF Inv, TypeOK
<1> QED
  BY <1>1, <1>2 DEF Inv, Fresh, Loops, Returned, Overran, WholeStreamIsTaken

\* The first buffer has room for the terminator and a byte, and a whole stream
\* is not empty.
LEMMA BeginInv == Inv /\ Begin => Inv'
<1> SUFFICES ASSUME Inv, Begin PROVE Inv'
  OBVIOUS
<1>1. /\ pc = "call" /\ pc' = "loop" /\ avail_in' = data.len
      /\ UNCHANGED <<chunked, data, made, out, error>>
      /\ made = 0 /\ out = <<>> /\ (data.fault = "none" => data.len > 0)
  BY DEF Begin, Inv, Fresh
<1>2. /\ capacity' \in Nat /\ capacity' < Modulus
      /\ ~chunked => 1 < capacity'
  <2>1. /\ MinCapacity \in Nat /\ Ratio \in Nat /\ BufferLen \in Nat /\ MaxInput \in Nat
        /\ 1 < MinCapacity /\ MinCapacity < Modulus /\ Ratio * MaxInput < Modulus
        /\ Modulus \in Nat /\ data.len \in Nat /\ BufferLen < Modulus
    BY Numbers, GzipAssumption DEF Inv
  <2>2. CASE chunked
    BY <2>1, <2>2 DEF Begin
  <2>3. CASE ~chunked
    <3>1. data.len * Ratio \in Nat /\ data.len * Ratio <= Ratio * MaxInput
      BY <2>1, <2>3 DEF Begin
    <3> QED
      BY <2>1, <2>3, <3>1 DEF Begin
  <2> QED
    BY <2>2, <2>3
<1>3. TypeOK'
  <2>1. capacity' \in 0 .. Modulus - 1 /\ data.len \in Nat
    BY <1>2, GzipAssumption, Numbers DEF Inv
  <2> QED
    BY <1>1, <2>1 DEF Inv, TypeOK
<1>4. out' = First(made')
  BY <1>1 DEF First
<1> QED
  BY <1>1, <1>2, <1>3, <1>4 DEF Inv, Fresh, Loops, Returned, Overran, WholeStreamIsTaken

\* The bytes that inflate gives go on where the buffer ends.
LEMMA AppendBytes ==
  ASSUME Inv, pc = "loop", NEW r, r.n \in Nat
  PROVE  Appended(r.n) = First(made + r.n)
BY Numbers, FirstThenNext DEF Inv, Loops, Appended

\* One more byte fits when inflate is called; it is called again only when the
\* terminator alone fits.
LEMMA InflateInv == Inv /\ Inflate => Inv'
<1> SUFFICES ASSUME Inv, Inflate PROVE Inv'
  OBVIOUS
<1>1. /\ pc = "loop" /\ ~chunked /\ out = First(made) /\ made + 1 < capacity
      /\ UNCHANGED <<chunked, data, capacity>>
  BY DEF Inflate, Inv, Loops
<1>2. /\ made \in Nat /\ Len(out) = made /\ capacity \in Int
      /\ AvailOut = capacity - made - 1 /\ AvailOut \in Nat \ {0}
  <2>1. made \in Nat /\ capacity \in Int
    BY Numbers DEF Inv
  <2>2. Len(out) = made
    BY <1>1, <2>1, FirstSeq
  <2>3. AvailOut = capacity - made - 1
    BY <2>2 DEF AvailOut
  <2> QED
    BY <1>1, <2>1, <2>2, <2>3
<1>3. PICK r \in Results(AvailOut) :
        /\ avail_in' = r.rest /\ made' = made + r.n
        /\ out' = Appended(r.n)
        /\ \/ r.ret = "end" /\ pc' = "returned" /\ error' = error
           \/ r.ret = "ok" /\ r.rest > 0 /\ pc' = "enlarge" /\ error' = error
           \/ r.ret = "ok" /\ r.rest = 0 /\ pc' = "thrown" /\ error' = "no more input"
           \/ r.ret = "error" /\ pc' = "thrown" /\ error' = "zlib error"
  BY DEF Inflate, Throw
<1>4. /\ r.ret \in {"ok", "end", "error"} /\ r.rest \in 0 .. avail_in
      /\ r.n \in Nat /\ r.n <= AvailOut /\ made + r.n <= data.output
      /\ r.ret = "end" => data.fault = "none" /\ made + r.n = data.output
      /\ r.ret = "error" => data.fault # "none"
      /\ r.ret = "ok" /\ r.rest > 0 => r.n = AvailOut
      /\ r.ret = "ok" /\ data.fault = "none" => r.rest > 0
  BY <1>2, ResultsMeaning DEF Inv
<1>5. avail_in \in Nat /\ r.rest \in Nat /\ made' \in Nat /\ made' <= data.output
  <2>1. avail_in \in Nat
    BY Numbers DEF Inv
  <2>2. r.rest \in Nat
    BY <1>4, <2>1
  <2>3. made' = made + r.n
    BY <1>3
  <2>4. made + r.n \in Nat
    BY <1>2, <1>4
  <2> QED
    BY <1>4, <2>1, <2>2, <2>3, <2>4
<1>6. out' = First(made') /\ out' \in Seq(Nat) /\ Len(out') = made'
  BY <1>1, <1>3, <1>4, <1>5, AppendBytes, FirstSeq
<1>7. \/ r.ret = "end" /\ pc' = "returned" /\ error' = error
      \/ r.ret = "ok" /\ r.rest > 0 /\ pc' = "enlarge" /\ error' = error
      \/ /\ (r.ret = "ok" /\ r.rest = 0) \/ r.ret = "error"
         /\ pc' = "thrown" /\ error' \in {"no more input", "zlib error"}
  BY <1>3, <1>4, <1>5
<1>8. TypeOK'
  <2>1. made' \in 0 .. data.output
    <3>1. data.output \in Nat
      BY Numbers DEF Inv
    <3> QED
      BY <1>5, <3>1
  <2>2. avail_in' \in Nat
    BY <1>3, <1>5
  <2>3. capacity' \in 0 .. Modulus - 1 /\ chunked' \in BOOLEAN /\ data' \in Data
    BY <1>1 DEF Inv, TypeOK
  <2>4. Len(out') <= made'
    BY <1>5, <1>6
  <2>5. /\ pc' \in {"call", "loop", "enlarge", "returned", "thrown", "overrun"}
        /\ error' \in {"none", "too large", "init failed", "no more input", "zlib error"}
    BY <1>7 DEF Inv, TypeOK
  <2>6. data' = data
    BY <1>1
  <2> QED
    BY <1>6, <2>1, <2>2, <2>3, <2>4, <2>5, <2>6 DEF TypeOK
<1>9. Fresh'
  BY <1>7 DEF Fresh
<1>10. Loops'
  <2> SUFFICES ASSUME pc' = "enlarge" PROVE Loops'
    BY <1>7 DEF Loops
  <2>1. r.ret = "ok" /\ r.rest > 0
    BY <1>7
  <2>2. avail_in' > 0
    BY <1>3, <2>1
  <2>3. r.n = AvailOut /\ made' = made + r.n
    BY <1>3, <1>4, <2>1
  <2>4. made' + 1 = capacity
    BY <1>2, <2>3
  <2> QED
    BY <1>1, <1>6, <2>2, <2>4 DEF Loops
<1>11. Returned'
  <2> SUFFICES ASSUME pc' = "returned" PROVE Returned'
    BY DEF Returned
  <2>1. r.ret = "end"
    BY <1>7
  <2>2. data.fault = "none" /\ made' = data.output
    BY <1>3, <1>4, <2>1
  <2>3. made' < capacity
    <3>1. made' = made + r.n
      BY <1>3
    <3>2. made + r.n < capacity
      BY <1>2, <1>4
    <3> QED
      BY <3>1, <3>2
  <2> QED
    BY <1>1, <1>6, <2>2, <2>3 DEF Returned
<1>12. WholeStreamIsTaken'
  <2> SUFFICES ASSUME pc' = "thrown" PROVE data.fault # "none"
    BY <1>1 DEF WholeStreamIsTaken
  <2>1. (r.ret = "ok" /\ r.rest = 0) \/ r.ret = "error"
    BY <1>7
  <2> QED
    BY <1>4, <2>1
<1> QED
  BY <1>7, <1>8, <1>9, <1>10, <1>11, <1>12 DEF Inv, Overran

\* A capacity that wraps is less than what the full buffer holds, which has come
\* from the data; one that does not leaves room for another byte.
LEMMA EnlargeInv == Inv /\ Enlarge => Inv'
<1> SUFFICES ASSUME Inv, Enlarge PROVE Inv'
  OBVIOUS
<1>1. /\ pc = "enlarge" /\ capacity' = (capacity * 2) % Modulus
      /\ pc' = IF capacity' > Len(out) THEN "loop" ELSE "overrun"
      /\ UNCHANGED <<chunked, data, avail_in, made, out, error>>
      /\ made + 1 = capacity /\ out = First(made) /\ ~chunked
      /\ data.fault = "none" => avail_in > 0
  BY DEF Enlarge, Inv, Loops
<1>2. /\ made \in Nat /\ made <= data.output /\ data.output \in Nat /\ Len(out) = made
      /\ capacity \in 0 .. Modulus - 1 /\ Modulus \in Nat
  BY <1>1, Numbers, FirstSeq, GzipAssumption DEF Inv, TypeOK
<1>3. capacity' \in 0 .. Modulus - 1
  BY <1>1, <1>2
<1>4. TypeOK'
  <2>1. pc' \in {"loop", "overrun"}
    BY <1>1
  <2> QED
    BY <1>1, <1>3, <2>1 DEF Inv, TypeOK
<1>5. CASE 2 * (made + 1) < Modulus
  <2>1. capacity * 2 = 2 * (made + 1) /\ capacity * 2 \in Nat /\ capacity * 2 < Modulus
    BY <1>1, <1>2, <1>5
  <2>2. capacity' = 2 * (made + 1)
    BY <1>1, <1>2, <2>1, NoWrap
  <2>3. pc' = "loop" /\ made + 1 < capacity'
    BY <1>1, <1>2, <2>2
  <2> QED
    BY <1>1, <1>4, <2>3 DEF Inv, Fresh, Loops, Returned, Overran, WholeStreamIsTaken
<1>6. CASE 2 * (made + 1) >= Modulus
  <2>1. capacity' = 2 * (made + 1) - Modulus
    <3> DEFINE x == capacity * 2
    <3>1. x \in Nat /\ x = 2 * (made + 1) /\ x >= Modulus /\ x < 2 * Modulus /\ Modulus > 0
      BY <1>1, <1>2, <1>6
    <3> HIDE DEF x
    <3>2. x % Modulus = x - Modulus
      BY <1>2, <3>1, WrapOnce
    <3> QED
      BY <1>1, <3>1, <3>2 DEF x
  <2>2. capacity' <= made
    BY <1>1, <1>2, <2>1
  <2>3. pc' = "overrun"
    BY <1>1, <1>2, <1>3, <2>2
  <2>4. 2 * (data.output + 1) >= Modulus
    BY <1>2, <1>6
  <2> QED
    BY <1>1, <1>4, <2>3, <2>4 DEF Inv, Fresh, Loops, Returned, Overran, WholeStreamIsTaken
<1> QED
  BY <1>2, <1>5, <1>6

\* A chunk is appended as it is; only cut off data run out of input.
LEMMA InflateChunkInv == Inv /\ InflateChunk => Inv'
<1> SUFFICES ASSUME Inv, InflateChunk PROVE Inv'
  OBVIOUS
<1>1. /\ pc = "loop" /\ chunked /\ out = First(made)
      /\ data.fault = "none" => avail_in > 0
      /\ UNCHANGED <<chunked, data, capacity>>
  BY DEF InflateChunk, Inv, Loops
<1>2. made \in Nat /\ made <= data.output /\ avail_in \in Nat
  BY Numbers DEF Inv
<1>3. CASE avail_in = 0
  <2>1. pc' = "thrown" /\ error' = "no more input" /\ UNCHANGED <<avail_in, made, out>>
    <3>1. ~(avail_in > 0)
      BY <1>3
    <3> QED
      BY <3>1, Zenon DEF InflateChunk, Throw
  <2>2. TypeOK'
    BY <1>1, <2>1 DEF Inv, TypeOK
  <2>3. data'.fault # "none"
    BY <1>1, <1>3
  <2> QED
    BY <2>1, <2>2, <2>3, Zenon DEF Inv, Fresh, Loops, Returned, Overran, WholeStreamIsTaken
<1>4. CASE avail_in > 0
  <2>1. PICK r \in Results(BufferLen) :
          /\ avail_in' = r.rest /\ made' = made + r.n
          /\ out' = IF r.ret = "error" THEN out ELSE Appended(r.n)
          /\ \/ r.ret = "end" /\ pc' = "returned" /\ error' = error
             \/ r.ret = "ok" /\ pc' = pc /\ error' = error
             \/ r.ret = "error" /\ pc' = "thrown" /\ error' = "zlib error"
    <3>1. avail_in # 0
      BY <1>2, <1>4
    <3> QED
      BY <3>1, Zenon DEF InflateChunk, Throw
  <2>2. BufferLen \in Nat \ {0}
    BY GzipAssumption
  <2>3. /\ r.ret \in {"ok", "end", "error"} /\ r.rest \in 0 .. avail_in
        /\ r.n \in Nat /\ made + r.n <= data.output
        /\ r.ret = "end" => data.fault = "none" /\ made + r.n = data.output
        /\ r.ret = "error" => data.fault # "none"
        /\ r.ret = "ok" /\ data.fault = "none" => r.rest > 0
    BY <2>2, ResultsMeaning DEF Inv
  <2>4. r.rest \in Nat /\ made' \in Nat /\ made' <= data.output /\ made <= made'
    <3>1. r.rest \in Nat
      BY <1>2, <2>3
    <3>2. made' = made + r.n
      BY <2>1
    <3>3. made + r.n \in Nat /\ made <= made + r.n
      BY <1>2, <2>3
    <3> QED
      BY <2>3, <3>1, <3>2, <3>3
  <2>5. r.ret # "error" => out' = First(made')
    BY <1>1, <2>1, <2>3, AppendBytes
  <2>6. out' \in Seq(Nat) /\ Len(out') <= made'
    <3>1. CASE r.ret = "error"
      <4>1. out' = First(made)
        BY <1>1, <2>1, <3>1
      <4> QED
        BY <1>2, <2>4, <4>1, FirstSeq
    <3>2. CASE r.ret # "error"
      BY <2>4, <2>5, <3>2, FirstSeq
    <3> QED
      BY <3>1, <3>2
  <2>7. \/ r.ret = "end" /\ pc' = "returned" /\ error' = error
        \/ r.ret = "ok" /\ pc' = "loop" /\ error' = error
        \/ r.ret = "error" /\ pc' = "thrown" /\ error' = "zlib error"
    BY <1>1, <2>1, <2>3
  <2>8. TypeOK'
    <3>1. made' \in 0 .. data.output
      BY <1>2, <2>4
    <3>2. avail_in' \in Nat
      BY <2>1, <2>4
    <3>3. data' = data
      BY <1>1
    <3> QED
      BY <1>1, <2>6, <2>7, <3>1, <3>2, <3>3 DEF Inv, TypeOK
  <2> QED
    BY <1>1, <2>1, <2>3, <2>4, <2>5, <2>7, <2>8
       DEF Inv, Fresh, Loops, Returned, Overran, WholeStreamIsTaken
<1> QED
  BY <1>2, <1>3, <1>4

LEMMA NextInv == Inv /\ [Next]_vars => Inv'
<1> SUFFICES ASSUME Inv, [Next]_vars PROVE Inv'
  OBVIOUS
<1>1. CASE UNCHANGED vars
  BY <1>1 DEF vars, Inv, TypeOK, Fresh, Loops, Returned, Overran, WholeStreamIsTaken
<1>2. CASE Refuse \/ InitFails
  BY <1>2, RefuseInv
<1>3. CASE Begin
  BY <1>3, BeginInv
<1>4. CASE Inflate
  BY <1>4, InflateInv
<1>5. CASE Enlarge
  BY <1>5, EnlargeInv
<1>6. CASE InflateChunk
  BY <1>6, InflateChunkInv
<1> QED
  BY <1>1, <1>2, <1>3, <1>4, <1>5, <1>6 DEF Next

LEMMA AlwaysInv == Spec => []Inv
BY InitInv, NextInv, PTL DEF Spec

-----------------------------------------------------------------------------
(* Theorems *)

\* The variables keep their types, and no byte is counted that was not made.
THEOREM TypeCorrect == Spec => []TypeOK
<1>1. Inv => TypeOK
  BY DEF Inv
<1> QED
  BY <1>1, AlwaysInv, PTL

\* data[size] is inside the buffer whatever its size was and however often it was
\* enlarged, and no write goes behind it, as the comment in Gzip.hpp guarantees:
\* for all data but those that decompress to half of what an unsigned counts.
THEOREM RoomCorrect == Spec => []RoomForTerminator
<1>1. Inv => RoomForTerminator
  <2> SUFFICES ASSUME Inv, ~chunked, pc \in {"loop", "enlarge", "returned"}
               PROVE  Len(out) < capacity
    BY DEF RoomForTerminator, Inv, Overran
  <2>1. made \in Nat /\ out = First(made) /\ Len(out) = made
    BY Numbers, FirstSeq DEF Inv, Loops, Returned
  <2>2. capacity \in Int
    BY Numbers DEF Inv
  <2> QED
    BY <2>1, <2>2 DEF Inv, Loops, Returned
<1> QED
  BY <1>1, AlwaysInv, PTL

\* What is returned is the whole output of a whole stream.
THEOREM OutputCorrect == Spec => []ReturnsTheOutput
<1>1. Inv => ReturnsTheOutput
  BY DEF Inv, Returned, ReturnsTheOutput, First
<1> QED
  BY <1>1, AlwaysInv, PTL

\* No whole stream is refused, wherever its end meets that of a buffer or chunk.
THEOREM WholeStreamsCorrect == Spec => []WholeStreamIsTaken
<1>1. Inv => WholeStreamIsTaken
  BY DEF Inv
<1> QED
  BY <1>1, AlwaysInv, PTL

=============================================================================
