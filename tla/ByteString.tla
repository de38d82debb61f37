----------------------------- MODULE ByteString -----------------------------
(***************************************************************************)
(* bastool/byte_string.hpp as operators on sequences of bytes.  Positions  *)
(* and lengths are numbers of type size_t, whose sums wrap around; the     *)
(* default length npos, the largest of them, means the rest.               *)
(***************************************************************************)
EXTENDS Integers, Sequences

CONSTANTS
  Byte,
  NPos  \* std::string::npos

ASSUME ByteStringAssumption == NPos \in Nat

SizeT == 0..NPos
Sum(a, b) == IF a + b > NPos THEN a + b - (NPos + 1) ELSE a + b

\* Strings of a size that a vector can have: at most half of the numbers.
Strings == {s \in Seq(Byte) : 2 * Len(s) <= NPos}

\* resize, where zero is the byte a vector fills with.
Resize(s, n, zero) == [i \in 1..n |-> IF i <= Len(s) THEN s[i] ELSE zero]

\* memmove of n bytes within the buffer, and memcpy into it.
Move(s, to, from, n) == [i \in 1..Len(s) |-> IF to < i /\ i <= to + n THEN s[from + (i - to)] ELSE s[i]]
Overwrite(s, to, data) ==
  [i \in 1..Len(s) |-> IF to < i /\ i <= to + Len(data) THEN data[i - to] ELSE s[i]]

\* assign, the constructors, fill and append.
Assign(s, data, zero) == Overwrite(Resize(s, Len(data), zero), 0, data)
Fill(s, byte) == [i \in 1..Len(s) |-> byte]
Append0(s, data, zero) == Overwrite(Resize(s, Len(s) + Len(data), zero), Len(s), data)

\* The length of the section of a string that substr and replace work on; 0 if they
\* refuse it.
SectionLength(size, position, length) ==
  LET n == IF length = NPos /\ position < size THEN size - position ELSE length
  IN  IF Sum(position, n) > size \/ n = 0 \/ n > size \/ position >= size THEN 0 ELSE n

Substr(s, position, length) ==
  LET n == SectionLength(Len(s), position, length)
  IN  IF n = 0 THEN <<>> ELSE SubSeq(s, position + 1, position + n)

\* replace of a section of n bytes: what lies behind it is moved before the buffer
\* shrinks, or after it has grown.
ReplaceSection(s, position, n, other, zero) ==
  LET size == (Len(s) - n) + Len(other)
      rest == (Len(s) - position) - n
      moved == IF n > Len(other)
               THEN Resize(Move(s, position + Len(other), position + n, rest), size, zero)
               ELSE IF n < Len(other)
               THEN Move(Resize(s, size, zero), position + Len(other), position + n, rest)
               ELSE s
  IN  Overwrite(moved, position, other)

Replace(s, position, length, other, zero) ==
  LET n == SectionLength(Len(s), position, length)
  IN  IF n = 0 THEN s ELSE ReplaceSection(s, position, n, other, zero)

Erase(s, position, length, zero) == Replace(s, position, length, <<>>, zero)
=============================================================================
