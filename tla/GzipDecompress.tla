--------------------------- MODULE GzipDecompress ---------------------------
(***************************************************************************)
(* gzip_decompress: the variant that inflates into one growing buffer and  *)
(* returns it (the download of orders), and the one that inflates into a   *)
(* chunk again and again and appends that (the history pages).             *)
(*                                                                         *)
(* Bytes are counted.  The k-th byte of what the data decompresses to is   *)
(* the number k, and a byte that nobody wrote is 0.                        *)
(*                                                                         *)
(* The numbers of the code (4096, 20, 8 MiB, 0x40000, 2^32) are constants, *)
(* so that small ones can be checked; the assumptions hold of them all.    *)
(***************************************************************************)
EXTENDS Integers, Sequences

CONSTANTS
  MinCapacity, Ratio,   \* the buffer has max(4096, len * 20) bytes at first
  MaxInput,             \* longer data are refused
  BufferLen,            \* BUFFER_LEN, of a chunk
  Modulus,              \* unsigned arithmetic is modulo this
  MaxLen, MaxOutput     \* bounds on the data, and on what they decompress to

\* Any output is possible.  The length of the input is not: (uInt)len is len.
ASSUME GzipAssumption ==
  /\ MinCapacity \in Nat \ {0, 1} /\ Ratio \in Nat \ {0} /\ BufferLen \in Nat \ {0}
  /\ MaxInput \in Nat /\ MaxLen \in Nat /\ MaxOutput \in Nat /\ Modulus \in Nat
  /\ MinCapacity < Modulus /\ BufferLen < Modulus /\ Ratio * MaxInput < Modulus
  /\ MaxLen < Modulus

VARIABLES
  pc,         \* "call", "loop", "enlarge", "returned", "thrown", "overrun"
  chunked,    \* which variant it is
  data,       \* the argument: its length, what it decompresses to, its fault
  avail_in,   \* what is left of it
  made,       \* the bytes that inflate has written so far
  capacity,   \* of the buffer
  out,        \* the first _len bytes of the buffer, or what was appended
  error       \* why it was thrown

vars == <<pc, chunked, data, avail_in, made, capacity, out, error>>

\* Data are a whole gzip stream, perhaps with bytes after it; a stream that was cut
\* off, of which `output' bytes can be had; or one that is damaged after as many.
Data == [len : 0 .. MaxLen, output : 0 .. MaxOutput, fault : {"none", "cut", "damaged"}]

Init ==
  /\ pc = "call" /\ chunked \in BOOLEAN
  /\ data \in {d \in Data : d.fault = "none" => d.len > 0}
  /\ avail_in = 0 /\ made = 0 /\ capacity = 0 /\ out = <<>> /\ error = "none"

-----------------------------------------------------------------------------
(***************************************************************************)
(* External: inflate of zlib, with room for a number of bytes.  It returns *)
(* Z_OK when it made progress and ran out of input or of room, and goes on *)
(* as far as it can before.  A whole stream ends with a trailer that is    *)
(* read after the last byte of output is written: as long as some output   *)
(* is missing, some input is left.                                         *)
(***************************************************************************)
Result(ret, rest, n) == [ret |-> ret, rest |-> rest, n |-> n]

Results(room) ==
  LET left == data.output - made
      full == [ret : {"ok"}, rest : 0 .. avail_in, n : {room}]
  IN  {r \in [ret : {"end"}, rest : 0 .. avail_in - 1, n : {left}] :
         data.fault = "none" /\ left <= room}
      \cup {r \in full : room > 0 /\ left >= room /\ (data.fault = "none" => r.rest > 0)}
      \cup {r \in {Result("ok", 0, left), Result("error", 0, left)} :
              data.fault = "cut" /\ left <= room /\ (r.ret = "ok" <=> avail_in + left > 0)}
      \cup {r \in [ret : {"error"}, rest : 0 .. avail_in, n : {left}] :
              data.fault = "damaged" /\ left <= room}
      \cup {r \in {Result("error", avail_in, 0)} : room = 0}

\* What was written before, and the n bytes that come next.
Appended(n) == out \o [k \in 1 .. n |-> made + k]

Throw(why) == pc' = "thrown" /\ error' = why

-----------------------------------------------------------------------------
(* Both variants set up their stream *)

Refuse ==
  /\ pc = "call" /\ ~chunked /\ data.len > MaxInput
  /\ Throw("too large")
  /\ UNCHANGED <<chunked, data, avail_in, made, capacity, out>>

InitFails ==
  /\ pc = "call" /\ (~chunked => data.len <= MaxInput)
  /\ Throw("init failed")
  /\ UNCHANGED <<chunked, data, avail_in, made, capacity, out>>

Begin ==
  /\ pc = "call" /\ (~chunked => data.len <= MaxInput)
  /\ avail_in' = data.len
  /\ capacity' = IF chunked THEN BufferLen
                 ELSE IF data.len * Ratio > MinCapacity THEN data.len * Ratio ELSE MinCapacity
  /\ pc' = "loop"
  /\ UNCHANGED <<chunked, data, made, out, error>>

-----------------------------------------------------------------------------
(* The growing buffer *)

\* Mutant: no byte is kept free.
AvailOutWhole == capacity - Len(out)

AvailOut == capacity - Len(out) - 1

\* Mutant: a full buffer is taken for truncated data as well.
InflateOrGiveUp ==
  /\ pc = "loop" /\ ~chunked
  /\ \E r \in Results(AvailOut) :
       /\ avail_in' = r.rest /\ made' = made + r.n
       /\ out' = Appended(r.n)
       /\ \/ r.ret = "end" /\ pc' = "returned" /\ UNCHANGED error
          \/ r.ret = "ok" /\ Throw("no more input")
          \/ r.ret = "error" /\ Throw("zlib error")
  /\ UNCHANGED <<chunked, data, capacity>>

\* Mutant: all the room counts as written.
InflateCountsRoom ==
  /\ pc = "loop" /\ ~chunked
  /\ \E r \in Results(AvailOut) :
       /\ avail_in' = r.rest /\ made' = made + r.n
       /\ out' = Appended(AvailOut)
       /\ \/ r.ret = "end" /\ pc' = "returned" /\ UNCHANGED error
          \/ r.ret = "ok" /\ r.rest > 0 /\ pc' = "enlarge" /\ UNCHANGED error
          \/ r.ret = "ok" /\ r.rest = 0 /\ Throw("no more input")
          \/ r.ret = "error" /\ Throw("zlib error")
  /\ UNCHANGED <<chunked, data, capacity>>

Inflate ==
  /\ pc = "loop" /\ ~chunked
  /\ \E r \in Results(AvailOut) :
       /\ avail_in' = r.rest /\ made' = made + r.n
       /\ out' = Appended(r.n)
       /\ \/ r.ret = "end" /\ pc' = "returned" /\ UNCHANGED error
          \/ r.ret = "ok" /\ r.rest > 0 /\ pc' = "enlarge" /\ UNCHANGED error
          \/ r.ret = "ok" /\ r.rest = 0 /\ Throw("no more input")
          \/ r.ret = "error" /\ Throw("zlib error")
  /\ UNCHANGED <<chunked, data, capacity>>

\* Mutant: the old contents are not copied.
EnlargeEmpty ==
  /\ pc = "enlarge"
  /\ capacity' = (capacity * 2) % Modulus
  /\ out' = [k \in 1 .. Len(out) |-> 0]
  /\ pc' = IF capacity' > Len(out) THEN "loop" ELSE "overrun"
  /\ UNCHANGED <<chunked, data, avail_in, made, error>>

\* A new buffer of twice the capacity, with the first _len bytes of the old one.  A
\* capacity that wrapped is no larger than what is in the buffer, which then is
\* written past its end: what the program does from there on is not defined.
Enlarge ==
  /\ pc = "enlarge"
  /\ capacity' = (capacity * 2) % Modulus
  /\ pc' = IF capacity' > Len(out) THEN "loop" ELSE "overrun"
  /\ UNCHANGED <<chunked, data, avail_in, made, out, error>>

-----------------------------------------------------------------------------
(* Chunks *)

\* Mutant: the input is not checked, and only damaged data are an error.
InflateChunkAgain ==
  /\ pc = "loop" /\ chunked
  /\ \E r \in Results(BufferLen) :
       /\ avail_in' = r.rest /\ made' = made + r.n
       /\ out' = IF r.ret = "error" THEN out ELSE Appended(r.n)
       /\ \/ r.ret = "end" /\ pc' = "returned" /\ UNCHANGED error
          \/ r.ret = "error" /\ data.fault = "damaged" /\ Throw("zlib error")
          \/ r.ret # "end" /\ data.fault # "damaged" /\ UNCHANGED <<pc, error>>
  /\ UNCHANGED <<chunked, data, capacity>>

\* Nothing is appended when zlib reports an error.
InflateChunk ==
  /\ pc = "loop" /\ chunked
  /\ \/ /\ avail_in = 0
        /\ Throw("no more input")
        /\ UNCHANGED <<avail_in, made, out>>
     \/ /\ avail_in > 0
        /\ \E r \in Results(BufferLen) :
             /\ avail_in' = r.rest /\ made' = made + r.n
             /\ out' = IF r.ret = "error" THEN out ELSE Appended(r.n)
             /\ \/ r.ret = "end" /\ pc' = "returned" /\ UNCHANGED error
                \/ r.ret = "ok" /\ UNCHANGED <<pc, error>>
                \/ r.ret = "error" /\ Throw("zlib error")
  /\ UNCHANGED <<chunked, data, capacity>>

-----------------------------------------------------------------------------
Next ==
  \/ Refuse \/ InitFails \/ Begin
  \/ Inflate \/ Enlarge
  \/ InflateChunk

Spec == Init /\ [][Next]_vars
FairSpec == Spec /\ WF_vars(Next)

-----------------------------------------------------------------------------
(* Properties *)

\* The type invariant: not a byte more is counted than there are.
TypeOK ==
  /\ pc \in {"call", "loop", "enlarge", "returned", "thrown", "overrun"}
  /\ chunked \in BOOLEAN /\ data \in Data
  /\ avail_in \in Nat /\ made \in 0 .. data.output /\ capacity \in 0 .. Modulus - 1
  /\ out \in Seq(Nat) /\ Len(out) <= made
  /\ error \in {"none", "too large", "init failed", "no more input", "zlib error"}

\* What Gzip.hpp guarantees of the buffer, and every write before relies on: its
\* element after the last byte is inside it, through all enlargements.  Only data
\* that decompress to at least half of what an unsigned can count, less the
\* terminator, make the doubled capacity wrap, and then the buffer is overrun.
RoomForTerminator ==
  ~chunked =>
    /\ pc \in {"loop", "enlarge", "returned"} => Len(out) < capacity
    /\ pc = "overrun" => 2 * (data.output + 1) >= Modulus

\* What is returned is what the data decompress to: every byte once, in order,
\* and nothing was missing or damaged.
ReturnsTheOutput ==
  pc = "returned" =>
    /\ data.fault = "none"
    /\ out = [k \in 1 .. data.output |-> k]

\* A whole stream is never taken for one that was cut off or damaged, however its
\* end and the end of the buffer or of a chunk fall together.
WholeStreamIsTaken ==
  pc = "thrown" /\ data.fault = "none" =>
    error = "init failed" \/ (~chunked /\ data.len > MaxInput)

\* Cut off and damaged data end in an exception, and whole ones are returned: the
\* loops make progress in every round, until one overruns the buffer.
CallEnds == <>(pc \in {"returned", "thrown", "overrun"})

=============================================================================
