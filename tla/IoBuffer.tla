------------------------------ MODULE IoBuffer ------------------------------
(***************************************************************************)
(* bas/io_buffer.hpp as operators on a value.  A buffer is the bytes up to *)
(* end_offset_, of which those before begin_offset_ are consumed.  What    *)
(* lies behind end_offset_ is not part of it: only resize brings it back.  *)
(***************************************************************************)
EXTENDS Integers, Sequences

CONSTANTS
  Byte,
  Capacity  \* the size of buffer_

\* The assertions of the code keep every buffer of this kind.
Buffers == {b \in [bytes : Seq(Byte), begin : Nat] :
              Len(b.bytes) <= Capacity /\ b.begin <= Len(b.bytes)}

\* The constructor, and clear().
Cleared == [bytes |-> <<>>, begin |-> 0]

IsEmpty(b) == b.begin = Len(b.bytes)
Size(b) == Len(b.bytes) - b.begin
Space(b) == Capacity - Len(b.bytes)

\* data() and size(): what is still to be read.
Unread(b) == SubSeq(b.bytes, b.begin + 1, Len(b.bytes))

\* consume(count), count <= size()
Consume(b, count) ==
  IF b.begin + count = Len(b.bytes) THEN Cleared
  ELSE [bytes |-> b.bytes, begin |-> b.begin + count]

\* produce(length, data), length <= space(); and produce(count) after data was put there.
Produce(b, data) == [bytes |-> b.bytes \o data, begin |-> b.begin]

\* crunch()
Crunch(b) ==
  IF b.begin = 0 THEN b ELSE IF IsEmpty(b) THEN Cleared
  ELSE [bytes |-> Unread(b), begin |-> 0]

\* resize(length), length <= capacity(), where stale is what lies behind the unread data.
Resize(b, length, stale) ==
  IF b.begin + length <= Capacity
  THEN [b EXCEPT !.bytes = SubSeq(@ \o stale, 1, b.begin + length)]
  ELSE [bytes |-> SubSeq(Unread(b) \o stale, 1, length), begin |-> 0]
=============================================================================
