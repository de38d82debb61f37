----------------------------- MODULE RelayProofs -----------------------------
(***************************************************************************)
(* Theorems about a server connection and its client connections, for any  *)
(* number of children and any sizes of the buffers: under the proxy, under *)
(* the echo, and under a business handler that answers anything, which for *)
(* three of the theorems must have no child with a timer.                  *)
(*                                                                         *)
(* The argument is that the relay moves by one token, which is at any time *)
(* in one place: a callback or an event in the queue of the work thread, a *)
(* handler in the queue of the io thread, an operation under way, or the   *)
(* call of client::connect.  To each place belongs what is in the buffers  *)
(* and which bytes have not been passed on yet (FineWork, FineIo, FineOp). *)
(***************************************************************************)
EXTENDS Relay, FiniteSetTheorems, SequenceTheorems, TLAPS

-----------------------------------------------------------------------------
(* The items of a queue, and how many of them are of a kind *)

Items(s) == {s[i] : i \in 1..Len(s)}
Number(s, kinds) == Cardinality({i \in 1..Len(s) : s[i] \in kinds})

\* The items of a queue that is taken from or appended to.
LEMMA ItemsOf ==
  ASSUME NEW S, NEW s \in Seq(S)
  PROVE  /\ Items(s) \subseteq S
         /\ (s = <<>>) <=> (Items(s) = {})
         /\ s # <<>> => /\ Tail(s) \in Seq(S) /\ Head(s) \in S
                        /\ Items(s) = Items(Tail(s)) \cup {Head(s)}
         /\ \A x \in S : /\ Append(s, x) \in Seq(S)
                         /\ Items(Append(s, x)) = Items(s) \cup {x}
<1>1. Items(s) \subseteq S /\ ((s = <<>>) <=> (Items(s) = {}))
  BY EmptySeq DEF Items
<1>2. ASSUME s # <<>>
      PROVE  /\ Tail(s) \in Seq(S) /\ Head(s) \in S
             /\ Items(s) = Items(Tail(s)) \cup {Head(s)}
  <2>1. /\ Tail(s) \in Seq(S) /\ Len(Tail(s)) = Len(s) - 1 /\ Len(s) \in Nat /\ Len(s) >= 1
        /\ Head(s) = s[1] /\ Head(s) \in S
        /\ \A i \in 1..(Len(s) - 1) : Tail(s)[i] = s[i + 1]
    BY <1>2
  <2>2. \A i \in 1..Len(s) : s[i] \in Items(Tail(s)) \cup {Head(s)}
    <3> SUFFICES ASSUME NEW i \in 1..Len(s), i # 1 PROVE \E j \in 1..(Len(s) - 1) : s[i] = Tail(s)[j]
      BY <2>1 DEF Items
    <3>1. i - 1 \in 1..(Len(s) - 1) /\ s[i] = Tail(s)[i - 1]
      BY <2>1
    <3>2. QED
      BY <3>1
  <2>3. \A j \in 1..Len(Tail(s)) : Tail(s)[j] \in Items(s)
    BY <2>1 DEF Items
  <2>4. QED
    BY <2>1, <2>2, <2>3 DEF Items
<1>3. ASSUME NEW x \in S
      PROVE  Append(s, x) \in Seq(S) /\ Items(Append(s, x)) = Items(s) \cup {x}
  <2>1. /\ Append(s, x) \in Seq(S) /\ Len(Append(s, x)) = Len(s) + 1 /\ Len(s) \in Nat
        /\ Append(s, x)[Len(s) + 1] = x /\ \A i \in 1..Len(s) : Append(s, x)[i] = s[i]
    OBVIOUS
  <2>2. \A i \in 1..(Len(s) + 1) : i \in 1..Len(s) \/ i = Len(s) + 1
    BY <2>1
  <2>3. \A y : y \in Items(Append(s, x)) <=> \E i \in 1..(Len(s) + 1) : y = Append(s, x)[i]
    BY <2>1 DEF Items
  <2>4. \A y : y \in Items(s) <=> \E i \in 1..Len(s) : y = s[i]
    BY DEF Items
  <2>5. \A i \in 1..Len(s) : i \in 1..(Len(s) + 1)
    BY <2>1
  <2>6. Len(s) + 1 \in 1..(Len(s) + 1)
    BY <2>1
  <2> HIDE DEF Items
  <2>7. QED
    BY <2>1, <2>2, <2>3, <2>4, <2>5, <2>6
<1>4. QED
  BY <1>1, <1>2, <1>3

\* The items of a kind are finitely many.
LEMMA NumberType ==
  ASSUME NEW S, NEW s \in Seq(S), NEW kinds
  PROVE  /\ IsFiniteSet({i \in 1..Len(s) : s[i] \in kinds})
         /\ Number(s, kinds) \in Nat
<1>1. IsFiniteSet({i \in 1..Len(s) : s[i] \in kinds})
  BY FS_Interval, FS_Subset
<1>2. QED
  BY <1>1, FS_CardinalityType DEF Number

\* None of a kind.
LEMMA NumberZero ==
  ASSUME NEW S, NEW s \in Seq(S), NEW kinds
  PROVE  Number(s, kinds) = 0 <=> \A x \in Items(s) : x \notin kinds
<1> DEFINE A == {i \in 1..Len(s) : s[i] \in kinds}
<1>1. IsFiniteSet(A)
  BY NumberType
<1>2. Cardinality(A) = 0 <=> A = {}
  BY <1>1, FS_EmptySet
<1>3. A = {} <=> \A x \in Items(s) : x \notin kinds
  BY DEF Items
<1>4. QED
  BY <1>2, <1>3 DEF Number

\* One item more.
LEMMA NumberAppend ==
  ASSUME NEW S, NEW s \in Seq(S), NEW x \in S, NEW kinds
  PROVE  Number(Append(s, x), kinds) = Number(s, kinds) + (IF x \in kinds THEN 1 ELSE 0)
<1> DEFINE A == {i \in 1..Len(s) : s[i] \in kinds}
           n == Len(s) + 1
<1>1. IsFiniteSet(A) /\ Number(s, kinds) = Cardinality(A) /\ Cardinality(A) \in Nat
  BY NumberType DEF Number
<1>2. /\ Len(Append(s, x)) = n /\ n \in Nat /\ Append(s, x)[n] = x
      /\ \A i \in 1..Len(s) : Append(s, x)[i] = s[i]
  OBVIOUS
<1>3. {i \in 1..Len(Append(s, x)) : Append(s, x)[i] \in kinds} =
        IF x \in kinds THEN A \cup {n} ELSE A
  BY <1>2
<1>4. n \notin A
  OBVIOUS
<1>5. Cardinality(A \cup {n}) = Cardinality(A) + 1
  BY <1>1, <1>4, FS_AddElement
<1>6. Number(Append(s, x), kinds) = Cardinality(IF x \in kinds THEN A \cup {n} ELSE A)
  BY <1>3 DEF Number
<1> HIDE DEF A, n
<1>7. QED
  BY <1>1, <1>5, <1>6

\* One item less.
LEMMA NumberTail ==
  ASSUME NEW S, NEW s \in Seq(S), s # <<>>, NEW kinds
  PROVE  Number(s, kinds) = Number(Tail(s), kinds) + (IF Head(s) \in kinds THEN 1 ELSE 0)
<1> DEFINE A == {i \in 1..Len(s) : s[i] \in kinds}
           B0 == {i \in 1..Len(Tail(s)) : Tail(s)[i] \in kinds}
           C == A \ {1}
<1>1. IsFiniteSet(A) /\ Number(s, kinds) = Cardinality(A) /\ Cardinality(A) \in Nat
  BY NumberType DEF Number
<1>2. /\ Tail(s) \in Seq(S) /\ Len(Tail(s)) = Len(s) - 1 /\ Len(s) \in Nat /\ Len(s) >= 1
      /\ Head(s) = s[1]
      /\ \A i \in 1..(Len(s) - 1) : Tail(s)[i] = s[i + 1]
  OBVIOUS
<1>3. IsFiniteSet(B0) /\ Number(Tail(s), kinds) = Cardinality(B0) /\ Cardinality(B0) \in Nat
  BY <1>2, NumberType DEF Number
<1>4. Cardinality(B0) = Cardinality(C)
  <2> DEFINE f == [i \in B0 |-> i + 1]
  <2>1. f \in [B0 -> C]
    BY <1>2
  <2>2. \A a, b \in B0 : f[a] = f[b] => a = b
    BY <1>2
  <2>3. \A c \in C : \E b \in B0 : f[b] = c
    <3> SUFFICES ASSUME NEW c \in C PROVE c - 1 \in B0 /\ f[c - 1] = c
      OBVIOUS
    <3> QED
      BY <1>2
  <2>4. f \in Bijection(B0, C)
    BY <2>1, <2>2, <2>3 DEF Bijection, Injection, Surjection, IsInjective
  <2>5. ExistsBijection(B0, C)
    BY <2>4 DEF ExistsBijection
  <2>6. QED
    BY <1>3, <2>5, FS_Bijection
<1> HIDE DEF B0
<1>5. CASE Head(s) \in kinds
  <2>1. 1 \in A
    BY <1>2, <1>5
  <2>2. Cardinality(C) = Cardinality(A) - 1
    BY <1>1, <2>1, FS_RemoveElement
  <2> HIDE DEF A
  <2>3. QED
    BY <1>1, <1>3, <1>4, <1>5, <2>2
<1>6. CASE Head(s) \notin kinds
  <2>1. A = C
    BY <1>2, <1>6
  <2>2. Cardinality(C) = Cardinality(A)
    BY <2>1
  <2> HIDE DEF A, C
  <2>3. QED
    BY <1>1, <1>3, <1>4, <1>6, <2>2
<1>7. QED
  BY <1>5, <1>6

\* A change of the kinds.
LEMMA NumberKinds ==
  ASSUME NEW S, NEW s \in Seq(S), NEW k1, NEW k2, \A x \in Items(s) : x \in k2 => x \in k1
  PROVE  /\ Number(s, k2) <= Number(s, k1)
         /\ (\A x \in Items(s) : x \in k1 => x \in k2) => Number(s, k2) = Number(s, k1)
<1> DEFINE A == {i \in 1..Len(s) : s[i] \in k1}
           D == {i \in 1..Len(s) : s[i] \in k2}
<1>1. D \in SUBSET A /\ IsFiniteSet(A)
  <2>1. \A i \in 1..Len(s) : s[i] \in Items(s)
    BY DEF Items
  <2>2. IsFiniteSet(A)
    BY NumberType
  <2>3. QED
    BY <2>1, <2>2
<1>2. Cardinality(D) <= Cardinality(A)
  BY <1>1, FS_Subset
<1>3. (\A x \in Items(s) : x \in k1 => x \in k2) => D = A
  <2>1. \A i \in 1..Len(s) : s[i] \in Items(s)
    BY DEF Items
  <2>2. QED
    BY <1>1, <2>1
<1>4. QED
  BY <1>2, <1>3 DEF Number
-----------------------------------------------------------------------------
(* The buffers *)

\* What the assertions of io_buffer demand of a buffer of c bytes.
Fit(c, b) ==
  b \in [bytes : Seq(Byte), begin : Nat] /\ Len(b.bytes) <= c /\ b.begin <= Len(b.bytes)

\* The unread bytes.
Rest(b) == SubSeq(b.bytes, b.begin + 1, Len(b.bytes))

\* What IoBuffer says of a buffer that fits, in terms of its rest.
LEMMA SizesOfRest ==
  ASSUME NEW c \in Nat, NEW b, Fit(c, b)
  PROVE  /\ Rest(b) \in Seq(Byte) /\ Len(Rest(b)) = Len(b.bytes) - b.begin
         /\ Len(b.bytes) \in Nat /\ b.begin \in Nat
         /\ B(c)!Unread(b) = Rest(b) /\ B(c)!Size(b) = Len(Rest(b))
         /\ B(c)!Space(b) \in Nat /\ Len(Rest(b)) <= c
<1>1. /\ b.bytes \in Seq(Byte) /\ b.begin \in Nat /\ Len(b.bytes) \in Nat
      /\ Len(b.bytes) <= c /\ b.begin <= Len(b.bytes)
  BY DEF Fit
<1>2. Rest(b) \in Seq(Byte) /\ Len(Rest(b)) = Len(b.bytes) - b.begin
  BY <1>1 DEF Rest
<1>3. QED
  BY <1>1, <1>2 DEF B!Unread, B!Size, B!Space, Rest

\* The space is what the bytes leave of the capacity.
LEMMA SpaceOf ==
  ASSUME NEW c \in Nat, NEW b
  PROVE  B(c)!Space(b) = c - Len(b.bytes)
BY DEF B!Space

\* An empty buffer has all its room.
LEMMA ClearedFits ==
  ASSUME NEW c \in Nat
  PROVE  Fit(c, B(c)!Cleared) /\ Rest(B(c)!Cleared) = <<>> /\ B(c)!Space(B(c)!Cleared) = c
<1>1. <<>> \in Seq(Byte) /\ Len(<<>>) = 0
  BY EmptySeq
<1>2. SubSeq(<<>>, 0 + 1, 0) = <<>>
  BY SubSeqEmpty
<1>3. QED
  BY <1>1, <1>2 DEF B!Cleared, B!Space, Fit, Rest

\* produce() of what there is room for keeps the capacity.
LEMMA ProduceFits ==
  ASSUME NEW c \in Nat, NEW b, Fit(c, b), NEW d \in Seq(Byte), Len(d) <= B(c)!Space(b)
  PROVE  Fit(c, B(c)!Produce(b, d)) /\ (Rest(b) = <<>> => Rest(B(c)!Produce(b, d)) = d)
<1>1. /\ b.bytes \in Seq(Byte) /\ b.begin \in Nat /\ Len(b.bytes) \in Nat
      /\ Len(b.bytes) <= c /\ b.begin <= Len(b.bytes)
  BY DEF Fit
<1> DEFINE s == b.bytes \o d
<1>2. s \in Seq(Byte) /\ Len(s) = Len(b.bytes) + Len(d) /\ Len(d) \in Nat
  BY <1>1
<1>3. B(c)!Produce(b, d) = [bytes |-> s, begin |-> b.begin]
  BY DEF B!Produce
<1>4. Len(s) <= c
  BY <1>1, <1>2 DEF B!Space
<1>5. ASSUME Rest(b) = <<>> PROVE SubSeq(s, b.begin + 1, Len(s)) = d
  <2>1. b.begin = Len(b.bytes)
    BY <1>1, <1>5, SizesOfRest
  <2>2. \A i \in 1..Len(d) : s[b.begin + i] = d[i]
    BY <1>1, <2>1
  <2> DEFINE u == SubSeq(s, b.begin + 1, Len(s))
  <2>3. u \in Seq(Byte) /\ Len(u) = Len(d) /\ \A i \in 1..Len(d) : u[i] = s[b.begin + i]
    BY <1>1, <1>2, <2>1
  <2>4. Len(u) = Len(d) /\ u \in Seq(Byte) /\ \A i \in 1..Len(u) : u[i] = d[i]
    BY <2>2, <2>3
  <2> HIDE DEF s, u
  <2>5. u = d
    BY <2>4, SeqEqual
  <2>6. QED
    BY <2>5 DEF u
<1> HIDE DEF s
<1>6. QED
  BY <1>1, <1>2, <1>3, <1>4, <1>5 DEF Fit, Rest

\* A write of all there is empties the buffer.
LEMMA WrittenClears ==
  ASSUME NEW c \in Nat, NEW b, Fit(c, b)
  PROVE  B(c)!Crunch(B(c)!Consume(b, Len(Rest(b)))) = B(c)!Cleared
<1>1. b.begin + Len(Rest(b)) = Len(b.bytes)
  BY SizesOfRest
<1>2. B(c)!Consume(b, Len(Rest(b))) = B(c)!Cleared
  BY <1>1 DEF B!Consume
<1>3. QED
  BY <1>2 DEF B!Crunch, B!Cleared

\* A copy to a buffer that is large enough has the same bytes unread.
LEMMA CopiedFits ==
  ASSUME NEW c \in Nat, NEW e \in Nat, NEW in, Fit(c, in), NEW out, Fit(e, out), Len(Rest(in)) <= e
  PROVE  Fit(e, Copied(in, out)) /\ Rest(Copied(in, out)) = Rest(in)
<1>1. Copied(in, out) = [bytes |-> Rest(in), begin |-> 0]
  <2>1. PICK s \in Seq(Byte), n \in Nat : out = [bytes |-> s, begin |-> n]
    BY DEF Fit
  <2>2. Copied(in, out) = [out EXCEPT !.bytes = Rest(in), !.begin = 0]
    BY DEF Copied, Rest
  <2> HIDE DEF Rest
  <2>3. QED
    BY <2>1, <2>2
<1>2. Rest(in) \in Seq(Byte) /\ Len(Rest(in)) \in Nat
  BY SizesOfRest
<1>3. SubSeq(Rest(in), 0 + 1, Len(Rest(in))) = Rest(in)
  BY <1>2
<1>4. Fit(e, Copied(in, out)) /\ Rest(Copied(in, out)) = SubSeq(Rest(in), 0 + 1, Len(Rest(in)))
  <2> HIDE DEF Rest
  <2>1. Fit(e, Copied(in, out))
    BY <1>1, <1>2 DEF Fit
  <2>2. Copied(in, out).bytes = Rest(in) /\ Copied(in, out).begin = 0
    BY <1>1
  <2>3. QED
    BY <2>1, <2>2 DEF Rest
<1>5. QED
  BY <1>3, <1>4

\* A part of what a peer sends.
LEMMA StreamType ==
  ASSUME NEW p \in Peers, NEW n \in Nat, NEW k \in Nat
  PROVE  Stream(p, n, k) \in Seq(Byte) /\ Len(Stream(p, n, k)) = k
<1>1. \A i \in 1..k : (IF setting.biz = "any" THEN [from |-> p, i |-> 0]
                       ELSE [from |-> p, i |-> n + i]) \in Byte
  BY DEF Byte
<1>2. QED
  BY <1>1 DEF Stream
-----------------------------------------------------------------------------
(* The invariant *)

WorkItem == {x \in [h : Handlers, cb : {"open", "read", "write", "close", "event"},
                    ev : Events \cup {"none"}, data : Seq(Byte)] : x.cb # "event" => x.ev = "none"}
IoItem == [h : Handlers, do : Ops \cup {"close_i", "connect_i", "read_i", "write_i"},
           ok : BOOLEAN, data : Seq(Byte)]
PendItem == [op : Ops, data : Seq(Byte)]

Typed ==
  /\ setting \in Settings
  /\ state \in [Handlers -> {"unused", "active", "stopped", "closed"}]
  /\ pend \in [Handlers -> SUBSET PendItem]
  /\ ioq \in Seq(IoItem) /\ workq \in Seq(WorkItem)
  /\ opening \in BOOLEAN /\ child \in 0..MaxChildren
  /\ parent \subseteq Children /\ passive \subseteq Handlers /\ reading \subseteq Children
  /\ reads \in 0..setting.reads
  /\ got \in [Peers -> Nat] /\ sent \in [{"parent", "child"} -> Nat]

Fits == buf \in [Handlers -> [bytes : Seq(Byte), begin : Nat]] /\ \A h \in Handlers : Fit(Room(h), buf[h])

\* The business handler may answer anything.
Chooses == setting.biz = "any"

\* The relay moves by one token: what an operation of a handler is waiting for, from
\* its start to its callback, or an event between parent and child.  A close is one
\* only where the business handler may answer it with something else.
WorkToken ==
  {x \in WorkItem :
     \/ x.cb \in {"open", "read", "write"}
     \/ x.cb = "event" /\ (x.ev # "close" \/ (Chooses /\ x.h = Parent))
     \/ x.cb = "close" /\ Chooses /\ x.h # Parent /\ x.h \notin passive}
IoToken == {x \in IoItem : x.do # "close_i" \/ (Chooses /\ x.h # Parent /\ x.h \notin passive)}

Queued == Number(workq, WorkToken) + Number(ioq, IoToken) + (IF opening THEN 1 ELSE 0)
OneToken ==
  /\ Queued <= 1
  /\ \A g, h \in Handlers : \A x \in pend[g], y \in pend[h] : Queued = 0 /\ g = h /\ x = y

\* The writers of the relay, and whose bytes they write; who writes what a handler reads.
Lanes == IF setting.biz = "proxy" THEN {"parent", "child"} ELSE {"parent"}
From(w) == IF setting.biz = "proxy" /\ w = "parent" THEN "server" ELSE "client"
Lane(h) == IF setting.biz = "proxy" /\ h = Parent THEN "child" ELSE "parent"

\* All that was read has been written; all but d, which w shall write.
Even == \A w \in Lanes : sent[w] = got[From(w)]
Owed(w, d) ==
  /\ w \in Lanes
  /\ d = Stream(From(w), sent[w], Len(d)) /\ got[From(w)] = sent[w] + Len(d)
  /\ \A v \in Lanes \ {w} : sent[v] = got[From(v)]

\* Room in the buffer of h for d.
Holds(h, d) == Len(d) + Len(buf[h].bytes) <= Room(h)

FineWork(x) ==
  /\ x.cb = "read" => Holds(x.h, x.data)
  /\ x.cb = "write" => x.data = Rest(buf[x.h])
  /\ Active(Parent) => /\ x.h # Parent => child = x.h
                       /\ x.h = Parent /\ x.ev \in {"open", "read"} => child # 0
  /\ ~Chooses =>
     /\ x.cb = "open" => Even /\ (x.h # Parent => Rest(buf[Parent]) = <<>>)
     /\ x.cb = "read" => Owed(Lane(x.h), x.data) /\ Rest(buf[x.h]) = <<>>
     /\ x.cb = "write" => Even
     /\ x.h = Parent /\ x.ev = "open" => Even /\ Rest(buf[Parent]) = <<>>
     /\ x.h = Parent /\ x.ev = "read" /\ Active(Parent) => Owed("parent", Rest(buf[child]))
     /\ x.h # Parent /\ x.cb = "event" => x.ev = "write_read" /\ Owed("child", Rest(buf[x.h]))

FineOp(h, op, data) ==
  /\ op = "write" => data = Rest(buf[h])
  /\ op = "connect" => h # Parent
  /\ h # Parent /\ Active(Parent) => child = h
  /\ ~Chooses =>
     /\ op = "connect" => Even /\ Rest(buf[Parent]) = <<>>
     /\ op = "read" => Even /\ Rest(buf[h]) = <<>>
     /\ op = "write" => Owed(WriterOf(h), data)

FineIo(x) ==
  /\ x.do \in {"connect_i", "connect"} => FineOp(x.h, "connect", x.data)
  /\ x.do = "read_i" => FineOp(x.h, "read", x.data)
  /\ x.do = "write_i" => FineOp(x.h, "write", x.data)
  /\ x.do = "read" /\ x.ok => /\ Holds(x.h, x.data)
                              /\ ~Chooses => Owed(Lane(x.h), x.data) /\ Rest(buf[x.h]) = <<>>
  /\ x.do = "write" /\ x.ok => x.data = Rest(buf[x.h]) /\ (~Chooses => Even)
  /\ x.h # Parent /\ Active(Parent) => child = x.h

FineTokens ==
  /\ \A x \in Items(workq) : x \in WorkToken => FineWork(x)
  /\ \A x \in Items(ioq) : x \in IoToken => FineIo(x)
  /\ \A h \in Handlers : \A x \in pend[h] : FineOp(h, x.op, x.data)
  /\ opening /\ ~Chooses => Even /\ Rest(buf[Parent]) = <<>>

\* A child that was never connected is nowhere, and the echo server has none.
Unused ==
  /\ \A k \in Children : state[k] = "unused" =>
       /\ k # child /\ \A x \in Items(workq) : x.h # k
       /\ \A x \in Items(ioq) : x.h # k
  /\ state[Parent] # "unused"
  /\ setting.biz = "echo" => child = 0 /\ ~opening /\ \A k \in Children : state[k] = "unused"

\* Only open handlers have operations, and a handler keeps its parent until on_close.
Shut == \A h \in Handlers : ~Active(h) => pend[h] = {}
Linked == \A k \in Children : k \in parent <=> state[k] \in {"active", "stopped"}
Broken == state[Parent] = "closed" => child = 0

\* A stopped handler has on_close before it, an open one has not.
Stopped ==
  /\ \A h \in Handlers : state[h] = "stopped" => \E x \in Items(workq) : x.h = h /\ x.cb = "close"
  /\ \A x \in Items(workq) : x.cb = "close" => state[x.h] \in {"stopped", "closed"}

\* Until the parent of the proxy closes it gives up no child.
Faithful ==
  Active(Parent) /\ ~Chooses =>
    /\ passive \cap Children = {}
    /\ \A x \in Items(workq) : x.h # Parent => x.ev # "close"
    /\ \A x \in Items(workq) : x.h = Parent /\ x.cb = "open" => child = 0

\* The parent is about to close, or a child is, or the token is somewhere.
ParentCloses ==
  \/ \E x \in Items(ioq) : x.h = Parent /\ x.do = "close_i"
  \/ \E x \in Items(workq) : x.h = Parent /\ x.ev = "close"
Somewhere ==
  \/ opening \/ \E x \in Items(workq) : x \in WorkToken
  \/ (\E x \in Items(ioq) : x \in IoToken) \/ \E h \in Handlers : pend[h] # {}
Alive ==
  Active(Parent) /\ ~Chooses =>
    /\ ParentCloses \/ Somewhere \/ \E k \in Children : state[k] = "stopped"
    /\ (\E k \in Children : state[k] = "closed") => ParentCloses

Inv == /\ Typed /\ Fits /\ OneToken /\ FineTokens /\ Unused
       /\ Shut /\ Linked /\ Broken /\ Stopped /\ Faithful /\ Alive
-----------------------------------------------------------------------------
(* The items that the actions append *)

\* An event is an item of the work_service.
LEMMA EventItem ==
  ASSUME NEW h \in Handlers, NEW ev \in Events
  PROVE  /\ Event(h, ev) \in WorkItem
         /\ Event(h, ev).h = h /\ Event(h, ev).cb = "event" /\ Event(h, ev).ev = ev
<1>1. <<>> \in Seq(Byte)
  BY EmptySeq
<1>2. QED
  BY <1>1 DEF Event, WorkItem

\* So is a callback.
LEMMA CallbackItem ==
  ASSUME NEW h \in Handlers, NEW cb \in {"open", "read", "write", "close"}, NEW data \in Seq(Byte)
  PROVE  /\ Callback(h, cb, data) \in WorkItem
         /\ Callback(h, cb, data).h = h /\ Callback(h, cb, data).cb = cb
         /\ Callback(h, cb, data).ev = "none" /\ Callback(h, cb, data).data = data
BY DEF Callback, WorkItem

\* What is posted with data is an item of the io_service.
LEMMA IoDataItem ==
  ASSUME NEW h \in Handlers, NEW do \in Ops \cup {"close_i", "connect_i", "read_i", "write_i"},
         NEW data \in Seq(Byte)
  PROVE  /\ IoData(h, do, TRUE, data) \in IoItem
         /\ IoData(h, do, TRUE, data).h = h /\ IoData(h, do, TRUE, data).do = do
         /\ IoData(h, do, TRUE, data).data = data
BY DEF IoData, IoItem

\* So is what is posted without.
LEMMA IoIsItem ==
  ASSUME NEW h \in Handlers, NEW do \in Ops \cup {"close_i", "connect_i", "read_i", "write_i"}
  PROVE  /\ Io(h, do, TRUE) \in IoItem
         /\ Io(h, do, TRUE).h = h /\ Io(h, do, TRUE).do = do /\ Io(h, do, TRUE).data = <<>>
         /\ Io(h, do, FALSE) \in IoItem /\ ~Io(h, do, FALSE).ok
         /\ Io(h, do, FALSE).h = h /\ Io(h, do, FALSE).do = do /\ Io(h, do, FALSE).data = <<>>
<1>1. <<>> \in Seq(Byte)
  BY EmptySeq
<1>2. QED
  BY <1>1 DEF Io, IoData, IoItem

\* What AsyncReadSome and AsyncWrite append, close_i and connect_i.
LEMMA IoItems ==
  ASSUME NEW h \in Handlers
  PROVE  /\ Io(h, "close_i", TRUE) \in IoItem /\ Io(h, "close_i", TRUE).h = h
         /\ Io(h, "close_i", TRUE).do = "close_i"
         /\ Io(h, "close_i", FALSE) \in IoItem /\ Io(h, "close_i", FALSE).h = h
         /\ Io(h, "close_i", FALSE).do = "close_i"
         /\ Io(h, "connect_i", TRUE) \in IoItem /\ Io(h, "connect_i", TRUE).h = h
         /\ Io(h, "connect_i", TRUE).do = "connect_i"
         /\ Io(h, "read_i", TRUE) \in IoItem /\ Io(h, "read_i", TRUE).h = h
         /\ Io(h, "read_i", TRUE).do = "read_i"
<1>1. \A do \in Ops \cup {"close_i", "connect_i", "read_i", "write_i"} :
        /\ Io(h, do, TRUE) \in IoItem /\ Io(h, do, TRUE).h = h /\ Io(h, do, TRUE).do = do
        /\ Io(h, do, FALSE) \in IoItem /\ Io(h, do, FALSE).h = h /\ Io(h, do, FALSE).do = do
  BY IoIsItem
<1>2. QED
  BY <1>1

\* What AsyncWrite appends.
LEMMA WriteItem ==
  ASSUME NEW h \in Handlers, NEW d \in Seq(Byte)
  PROVE  /\ IoData(h, "write_i", TRUE, d) \in IoItem /\ IoData(h, "write_i", TRUE, d).h = h
         /\ IoData(h, "write_i", TRUE, d).do = "write_i" /\ IoData(h, "write_i", TRUE, d).data = d
BY DEF IoData, IoItem

\* The handlers are the parent and its children.
LEMMA HandlerSets ==
  /\ Parent \in Handlers /\ Parent \notin Children /\ Children \subseteq Handlers
  /\ \A h \in Handlers : h # Parent => h \in Children
  /\ \A k \in 0..MaxChildren : k # 0 => k \in Children
  /\ Parent = 0 /\ MaxChildren \in Nat
BY RelayAssumption DEF Parent, Children, Handlers
-----------------------------------------------------------------------------
(* The token moves *)

Tokenless(wq, iq) == /\ \A x \in Items(wq) : x \notin WorkToken
                     /\ \A x \in Items(iq) : x \notin IoToken
NoOperation == \A h \in Handlers : pend[h] = {}

\* Whoever has the token has the only one.
LEMMA NoOther ==
  ASSUME Typed, OneToken
  PROVE  /\ workq # <<>> /\ Head(workq) \in WorkToken =>
              Tokenless(Tail(workq), ioq) /\ ~opening /\ NoOperation
         /\ ioq # <<>> /\ Head(ioq) \in IoToken =>
              Tokenless(workq, Tail(ioq)) /\ ~opening /\ NoOperation
         /\ opening => Tokenless(workq, ioq) /\ NoOperation
         /\ \A h \in Handlers : \A x \in pend[h] :
              /\ Tokenless(workq, ioq) /\ ~opening /\ pend[h] = {x}
              /\ \A g \in Handlers \ {h} : pend[g] = {}
<1> DEFINE w == Number(workq, WorkToken)
           i == Number(ioq, IoToken)
           o == IF opening THEN 1 ELSE 0
<1>1. w \in Nat /\ i \in Nat /\ o \in Nat /\ Queued = w + i + o /\ Queued <= 1 /\ (o = 0 <=> ~opening)
  <2>1. w \in Nat
    BY NumberType DEF Typed
  <2>2. i \in Nat
    BY NumberType DEF Typed
  <2>3. QED
    BY <2>1, <2>2 DEF OneToken, Queued
<1>2. w = 0 <=> \A x \in Items(workq) : x \notin WorkToken
  BY NumberZero DEF Typed
<1>3. i = 0 <=> \A x \in Items(ioq) : x \notin IoToken
  BY NumberZero DEF Typed
<1>4. ASSUME workq # <<>>, Head(workq) \in WorkToken
      PROVE  Tokenless(Tail(workq), ioq) /\ ~opening /\ NoOperation
  <2>1. Tail(workq) \in Seq(WorkItem)
    BY <1>4, ItemsOf DEF Typed
  <2>2. w = Number(Tail(workq), WorkToken) + 1
    BY <1>4, NumberTail DEF Typed
  <2>3. Number(Tail(workq), WorkToken) \in Nat
    BY <2>1, NumberType
  <2>4. Number(Tail(workq), WorkToken) = 0 /\ i = 0 /\ o = 0 /\ Queued # 0
    <3> HIDE DEF w, i, o
    <3> QED
      BY <1>1, <2>2, <2>3
  <2>5. \A x \in Items(Tail(workq)) : x \notin WorkToken
    BY <2>1, <2>4, NumberZero
  <2>6. QED
    BY <1>1, <1>3, <2>4, <2>5 DEF Tokenless, NoOperation, OneToken
<1>5. ASSUME ioq # <<>>, Head(ioq) \in IoToken
      PROVE  Tokenless(workq, Tail(ioq)) /\ ~opening /\ NoOperation
  <2>1. Tail(ioq) \in Seq(IoItem)
    BY <1>5, ItemsOf DEF Typed
  <2>2. i = Number(Tail(ioq), IoToken) + 1
    BY <1>5, NumberTail DEF Typed
  <2>3. Number(Tail(ioq), IoToken) \in Nat
    BY <2>1, NumberType
  <2>4. Number(Tail(ioq), IoToken) = 0 /\ w = 0 /\ o = 0 /\ Queued # 0
    <3> HIDE DEF w, i, o
    <3> QED
      BY <1>1, <2>2, <2>3
  <2>5. \A x \in Items(Tail(ioq)) : x \notin IoToken
    BY <2>1, <2>4, NumberZero
  <2>6. QED
    BY <1>1, <1>2, <2>4, <2>5 DEF Tokenless, NoOperation, OneToken
<1>6. ASSUME opening PROVE Tokenless(workq, ioq) /\ NoOperation
  <2>1. o = 1
    BY <1>6
  <2>2. w = 0 /\ i = 0 /\ Queued # 0
    <3> HIDE DEF w, i, o
    <3> QED
      BY <1>1, <2>1
  <2>3. QED
    BY <1>2, <1>3, <2>2 DEF Tokenless, NoOperation, OneToken
<1>7. ASSUME NEW h \in Handlers, NEW x \in pend[h]
      PROVE  /\ Tokenless(workq, ioq) /\ ~opening /\ pend[h] = {x}
             /\ \A g \in Handlers \ {h} : pend[g] = {}
  <2>1. Queued = 0 /\ pend[h] = {x} /\ \A g \in Handlers \ {h} : pend[g] = {}
    BY <1>7 DEF OneToken
  <2>2. w = 0 /\ i = 0 /\ o = 0
    <3> HIDE DEF w, i, o
    <3> QED
      BY <1>1, <2>1
  <2>3. QED
    BY <1>1, <1>2, <1>3, <2>1, <2>2 DEF Tokenless
<1>8. QED
  BY <1>4, <1>5, <1>6, <1>7

\* Nothing but a child that is given up changes what a token is, and a child that
\* is just opened has no items.
LEMMA TokensKept ==
  ASSUME setting' = setting, passive \cap Children \subseteq passive'
  PROVE  (WorkToken' \subseteq WorkToken) /\ (IoToken' \subseteq IoToken)
<1>1. \A x \in WorkItem : x.h # Parent => x.h \in Children
  BY HandlerSets DEF WorkItem
<1>2. \A x \in IoItem : x.h # Parent => x.h \in Children
  BY HandlerSets DEF IoItem
<1>3. Chooses' = Chooses
  BY DEF Chooses
<1>4. QED
  BY <1>1, <1>2, <1>3 DEF WorkToken, IoToken

\* A queue without a token has none after a child was reset.
LEMMA StillTokenless ==
  ASSUME setting' = setting, NEW wq, NEW iq, Tokenless(wq, iq),
         \A h \in passive \cap Children :
           h \in passive' \/ ((\A x \in Items(wq) : x.h # h) /\ (\A x \in Items(iq) : x.h # h))
  PROVE  /\ \A x \in Items(wq) : x \notin WorkToken'
         /\ \A x \in Items(iq) : x \notin IoToken'
<1>1. \A x \in WorkItem : x.h # Parent => x.h \in Children
  BY HandlerSets DEF WorkItem
<1>2. \A x \in IoItem : x.h # Parent => x.h \in Children
  BY HandlerSets DEF IoItem
<1>3. Chooses' = Chooses
  BY DEF Chooses
<1>4. ASSUME NEW x \in Items(wq), x \in WorkToken' PROVE FALSE
  <2>1. x \notin WorkToken
    BY <1>4 DEF Tokenless
  <2>2. QED
    BY <1>1, <1>3, <1>4, <2>1 DEF WorkToken
<1>5. ASSUME NEW x \in Items(iq), x \in IoToken' PROVE FALSE
  <2>1. x \notin IoToken
    BY <1>5 DEF Tokenless
  <2>2. QED
    BY <1>2, <1>3, <1>5, <2>1 DEF IoToken
<1>6. QED
  BY <1>4, <1>5

\* The token is in the queue of the work thread now ...
LEMMA MovedToWork ==
  ASSUME Typed', NEW wq \in Seq(WorkItem), NEW iq \in Seq(IoItem), NEW x \in WorkItem,
         \A y \in Items(wq) : y \notin WorkToken', \A y \in Items(iq) : y \notin IoToken',
         workq' = Append(wq, x), ioq' = iq, ~opening', NoOperation', FineWork(x)'
  PROVE  OneToken' /\ FineTokens'
<1>1. Number(wq, WorkToken') = 0 /\ Number(iq, IoToken') = 0
  BY NumberZero
<1>2. Number(workq', WorkToken') = Number(wq, WorkToken') + (IF x \in WorkToken' THEN 1 ELSE 0)
  BY NumberAppend
<1>3. Queued' <= 1
  BY <1>1, <1>2 DEF Queued
<1>4. Items(workq') = Items(wq) \cup {x}
  BY ItemsOf
<1>5. (\A y \in Items(workq) : y \in WorkToken => FineWork(y))'
  BY <1>4
<1>6. (\A y \in Items(ioq) : y \in IoToken => FineIo(y))'
  OBVIOUS
<1>7. QED
  BY <1>3, <1>5, <1>6 DEF OneToken, FineTokens, NoOperation

\* ... or in that of the io thread ...
LEMMA MovedToIo ==
  ASSUME Typed', NEW wq \in Seq(WorkItem), NEW iq \in Seq(IoItem), NEW x \in IoItem,
         \A y \in Items(wq) : y \notin WorkToken', \A y \in Items(iq) : y \notin IoToken',
         workq' = wq, ioq' = Append(iq, x), ~opening', NoOperation', FineIo(x)'
  PROVE  OneToken' /\ FineTokens'
<1>1. Number(wq, WorkToken') = 0 /\ Number(iq, IoToken') = 0
  BY NumberZero
<1>2. Number(ioq', IoToken') = Number(iq, IoToken') + (IF x \in IoToken' THEN 1 ELSE 0)
  BY NumberAppend
<1>3. Queued' <= 1
  BY <1>1, <1>2 DEF Queued
<1>4. Items(ioq') = Items(iq) \cup {x}
  BY ItemsOf
<1>5. (\A y \in Items(ioq) : y \in IoToken => FineIo(y))'
  BY <1>4
<1>6. (\A y \in Items(workq) : y \in WorkToken => FineWork(y))'
  OBVIOUS
<1>7. QED
  BY <1>3, <1>5, <1>6 DEF OneToken, FineTokens, NoOperation

\* ... or a child is to be opened, an operation is under way, or it is lost.
LEMMA MovedAway ==
  ASSUME Typed', NEW wq \in Seq(WorkItem), NEW iq \in Seq(IoItem),
         \A y \in Items(wq) : y \notin WorkToken', \A y \in Items(iq) : y \notin IoToken',
         workq' = wq, ioq' = iq,
         \/ NoOperation' /\ (opening /\ ~Chooses => Even /\ Rest(buf[Parent]) = <<>>)'
         \/ ~opening' /\ \E h \in Handlers : \E x \in PendItem :
              /\ pend'[h] = {x} /\ \A g \in Handlers \ {h} : pend'[g] = {}
              /\ FineOp(h, x.op, x.data)'
  PROVE  OneToken' /\ FineTokens'
<1>1. Number(workq', WorkToken') = 0 /\ Number(ioq', IoToken') = 0
  BY NumberZero
<1>2. Queued' = IF opening' THEN 1 ELSE 0
  BY <1>1 DEF Queued
<1>3. /\ (\A y \in Items(workq) : y \in WorkToken => FineWork(y))'
      /\ (\A y \in Items(ioq) : y \in IoToken => FineIo(y))'
  OBVIOUS
<1>4. CASE NoOperation' /\ (opening /\ ~Chooses => Even /\ Rest(buf[Parent]) = <<>>)'
  BY <1>2, <1>3, <1>4 DEF OneToken, FineTokens, NoOperation
<1>5. CASE ~opening' /\ \E h \in Handlers : \E x \in PendItem :
              /\ pend'[h] = {x} /\ \A g \in Handlers \ {h} : pend'[g] = {}
              /\ FineOp(h, x.op, x.data)'
  <2>1. PICK h \in Handlers, x \in PendItem :
              /\ pend'[h] = {x} /\ \A g \in Handlers \ {h} : pend'[g] = {}
              /\ FineOp(h, x.op, x.data)'
    BY <1>5
  <2>2. OneToken'
    BY <1>2, <1>5, <2>1 DEF OneToken
  <2>3. QED
    BY <1>3, <1>5, <2>1, <2>2 DEF FineTokens
<1>6. QED
  BY <1>4, <1>5

\* A step that leaves the token where it is, or drops it.
LEMMA TokenStays ==
  ASSUME Typed, Typed', OneToken, FineTokens,
         UNCHANGED <<setting, buf, got, sent>>, WorkToken' \subseteq WorkToken, IoToken' \subseteq IoToken,
         Active(Parent)' => Active(Parent) /\ child' = child,
         Number(workq', WorkToken') <= Number(workq, WorkToken),
         Number(ioq', IoToken') <= Number(ioq, IoToken),
         \A x \in Items(workq') : x \in WorkToken' => x \in Items(workq),
         \A x \in Items(ioq') : x \in IoToken' => x \in Items(ioq),
         opening' => opening, \A h \in Handlers : pend'[h] \subseteq pend[h]
  PROVE  OneToken' /\ FineTokens'
<1>1. Queued' \in Nat /\ Queued \in Nat /\ Queued' <= Queued
  <2>1. /\ Number(workq, WorkToken) \in Nat /\ Number(ioq, IoToken) \in Nat
        /\ Number(workq', WorkToken') \in Nat /\ Number(ioq', IoToken') \in Nat
    BY NumberType DEF Typed
  <2>2. QED
    BY <2>1 DEF Queued
<1>2. OneToken'
  BY <1>1 DEF OneToken
<1>3. \A w, d : /\ Owed(w, d) => Owed(w, d)'
                /\ Even => Even'
  BY DEF Owed, Even, Lanes, From, Stream
<1>4. /\ \A h, d : Holds(h, d)' <=> Holds(h, d)
      /\ \A h : Lane(h)' = Lane(h)
      /\ Chooses' = Chooses /\ buf' = buf
  BY DEF Holds, Room, Lane, Chooses
<1>5. \A x : FineWork(x) => FineWork(x)'
  <2> SUFFICES ASSUME NEW x, FineWork(x) PROVE FineWork(x)'
    OBVIOUS
  <2>1. (x.cb = "read" => Holds(x.h, x.data))' /\ (x.cb = "write" => x.data = Rest(buf[x.h]))'
    BY <1>4 DEF FineWork
  <2>2. (Active(Parent) => /\ x.h # Parent => child = x.h
                           /\ x.h = Parent /\ x.ev \in {"open", "read"} => child # 0)'
    BY <1>4 DEF FineWork
  <2>3. (~Chooses =>
     /\ x.cb = "open" => Even /\ (x.h # Parent => Rest(buf[Parent]) = <<>>)
     /\ x.cb = "read" => Owed(Lane(x.h), x.data) /\ Rest(buf[x.h]) = <<>>
     /\ x.cb = "write" => Even
     /\ x.h = Parent /\ x.ev = "open" => Even /\ Rest(buf[Parent]) = <<>>)'
    BY <1>3, <1>4 DEF FineWork
  <2>4. (~Chooses =>
     /\ x.h = Parent /\ x.ev = "read" /\ Active(Parent) => Owed("parent", Rest(buf[child]))
     /\ x.h # Parent /\ x.cb = "event" => x.ev = "write_read" /\ Owed("child", Rest(buf[x.h])))'
    BY <1>3, <1>4 DEF FineWork
  <2>5. QED
    BY <2>1, <2>2, <2>3, <2>4 DEF FineWork
<1>6. \A h, op, data : FineOp(h, op, data) => FineOp(h, op, data)'
  BY <1>3 DEF FineOp, Chooses
<1>7. \A x : FineIo(x) => FineIo(x)'
  <2> SUFFICES ASSUME NEW x, FineIo(x) PROVE FineIo(x)'
    OBVIOUS
  <2>1. QED
    BY <1>3, <1>4, <1>6 DEF FineIo
<1>8. QED
  BY <1>2, <1>3, <1>5, <1>6, <1>7 DEF FineTokens, Chooses
-----------------------------------------------------------------------------
(* What the rest of the invariant needs of a step *)

\* Capacities are numbers.
LEMMA RoomNat ==
  ASSUME Typed, NEW h \in Handlers PROVE Room(h) \in Nat
BY RelayAssumption DEF Typed, Room

\* Unused survives a step that names only handlers that are used.
LEMMA UnusedKept ==
  ASSUME Unused, setting' = setting, state[Parent] # "unused" => state'[Parent] # "unused",
         \A k \in Children : state'[k] = "unused" => state[k] = "unused",
         \A x \in Items(workq') : x \in Items(workq) \/ x.h = Parent \/ state[x.h] # "unused" \/ state'[x.h] # "unused",
         \A x \in Items(ioq') : x \in Items(ioq) \/ x.h = Parent \/ state[x.h] # "unused" \/ state'[x.h] # "unused",
         child' \in {child, 0} \/ (setting.biz # "echo" /\ state'[child'] # "unused"),
         setting.biz = "echo" => ~opening' /\ \A k \in Children : state'[k] = state[k]
  PROVE  Unused'
<1>1. \A k \in Children : k # Parent /\ k # 0
  BY HandlerSets
<1>2. ASSUME NEW k \in Children, state'[k] = "unused"
      PROVE  k # child' /\ (\A x \in Items(workq') : x.h # k) /\ \A x \in Items(ioq') : x.h # k
  BY <1>1, <1>2 DEF Unused
<1>3. setting.biz = "echo" => child' = 0 /\ ~opening' /\ \A k \in Children : state'[k] = "unused"
  BY DEF Unused
<1>4. state'[Parent] # "unused"
  BY DEF Unused
<1>5. QED
  BY <1>2, <1>3, <1>4 DEF Unused

\* Stopped survives a step that keeps the on_close of every stopped handler.
LEMMA StoppedKept ==
  ASSUME Stopped, \A x \in Items(workq) : x.cb = "close" => x \in Items(workq') \/ state'[x.h] # "stopped",
         \A h \in Handlers : state'[h] = "stopped" =>
           state[h] = "stopped" \/ \E x \in Items(workq') : x.h = h /\ x.cb = "close",
         \A x \in Items(workq) : state[x.h] \in {"stopped", "closed"} => state'[x.h] \in {"stopped", "closed"},
         \A x \in Items(workq') :
           x.cb = "close" => x \in Items(workq) \/ state'[x.h] \in {"stopped", "closed"}
  PROVE  Stopped'
<1>1. \A h \in Handlers : state'[h] = "stopped" => \E x \in Items(workq') : x.h = h /\ x.cb = "close"
  BY DEF Stopped
<1>2. \A x \in Items(workq') : x.cb = "close" => state'[x.h] \in {"stopped", "closed"}
  BY DEF Stopped
<1>3. QED
  BY <1>1, <1>2 DEF Stopped

\* Faithful survives a step that gives up no child.
LEMMA FaithfulKept ==
  ASSUME Faithful, setting' = setting,
         Active(Parent)' /\ ~Chooses =>
           /\ Active(Parent) /\ passive' \cap Children \subseteq passive
           /\ child' = child \/ child' = 0 \/ \A x \in Items(workq') : ~(x.h = Parent /\ x.cb = "open")
           /\ \A x \in Items(workq') :
                \/ x \in Items(workq)
                \/ (x.h # Parent => x.ev # "close") /\ ~(x.h = Parent /\ x.cb = "open")
  PROVE  Faithful'
<1>1. Chooses' = Chooses
  BY DEF Chooses
<1>2. QED
  BY <1>1 DEF Faithful

\* What the work and io threads have to do grows.
LEMMA ClosesKept ==
  ASSUME Items(ioq) \subseteq Items(ioq'),
         \A x \in Items(workq) : x.ev = "close" => x \in Items(workq'),
         ParentCloses
  PROVE  ParentCloses'
BY DEF ParentCloses
-----------------------------------------------------------------------------
(* server_work::do_io *)

\* The business handler that relays asks for what the relay is ready for.
Ready(do, b) ==
  ~Chooses =>
    /\ do \in {"read", "write", "client_open", "client_write_read", "close"}
    /\ do = "read" => Even /\ Rest(b[Parent]) = <<>>
    /\ do = "write" => Owed("parent", Rest(b[Parent]))
    /\ do = "client_open" => Even /\ Rest(b[Parent]) = <<>> /\ child = 0
    /\ do = "client_write_read" => setting.biz = "proxy" /\ Owed("child", Rest(b[Parent]))

\* The balance of bytes read and written is as it was if nothing moves.
LEMMA BalanceKept ==
  ASSUME UNCHANGED <<setting, got, sent>>
  PROVE  Chooses' = Chooses /\ (Even => Even') /\ \A w, d : Owed(w, d) => Owed(w, d)'
BY DEF Chooses, Owed, Even, Lanes, From, Stream

\* do_io consumes the token, and what the work handler asks for is the next one.
LEMMA DoIoKeeps ==
  ASSUME Inv, workq # <<>>, Head(workq).h = Parent, Head(workq).cb # "close",
         Head(workq) \in WorkToken, Active(Parent), ~opening,
         NEW do, NEW p, NEW b \in [Handlers -> [bytes : Seq(Byte), begin : Nat]],
         \A h \in Handlers : Fit(Room(h), b[h]),
         Ready(do, b), DoIo(do, p, b), passive' \in {passive, passive \cup {Parent}},
         UNCHANGED <<setting, state, pend, parent, reading, reads, got, sent>>
  PROVE  Inv'
<1> DEFINE wq == Tail(workq)
<1>1. /\ Typed /\ OneToken /\ Unused /\ Shut /\ Linked /\ Broken /\ Stopped /\ Faithful /\ Alive
  BY DEF Inv
<1>2. /\ wq \in Seq(WorkItem) /\ Items(workq) = Items(wq) \cup {Head(workq)}
      /\ ioq \in Seq(IoItem) /\ Items(wq) \subseteq WorkItem
  BY <1>1, ItemsOf DEF Typed
<1>3. Tokenless(wq, ioq) /\ NoOperation
  BY <1>1, NoOther
<1>4. /\ NoOperation' /\ Active(Parent)'
      /\ \A h : Room(h)' = Room(h)
  BY <1>3 DEF NoOperation, Active, Room
<1>5. passive \cap Children \subseteq passive' /\ passive' \cap Children \subseteq passive /\ passive' \subseteq Handlers
  BY <1>1, HandlerSets DEF Typed
<1>6. (\A y \in Items(wq) : y \notin WorkToken') /\ (\A y \in Items(ioq) : y \notin IoToken')
  BY <1>3, <1>5, TokensKept DEF Tokenless
<1>7. \A h \in Handlers :
        Unread(h, b) = Rest(b[h]) /\ Rest(b[h]) \in Seq(Byte) /\ Room(h) \in Nat /\ Len(Rest(b[h])) \in Nat
  BY <1>1, RoomNat, SizesOfRest DEF Unread
<1>8. /\ Parent \in Handlers /\ child \in Handlers /\ (child # 0 => child \in Children /\ child # Parent)
      /\ Parent \notin Children /\ Children \subseteq Handlers /\ 0 \in 0..MaxChildren
  BY <1>1, HandlerSets DEF Typed
<1>9. child # 0 => state[child] # "unused"
  BY <1>1, <1>8 DEF Unused
<1>10. ASSUME workq' \in Seq(WorkItem), ioq' \in Seq(IoItem), opening' \in BOOLEAN, child' \in {child, 0}
       PROVE  Typed'
  BY <1>1, <1>5, <1>8, <1>10 DEF Typed
<1>11. ASSUME Typed', Fits', OneToken', FineTokens',
              Items(wq) \subseteq Items(workq'), Items(ioq) \subseteq Items(ioq'),
              \A x \in Items(workq') : x \in Items(wq) \/
                 /\ x.h = Parent \/ (child # 0 /\ x.h = child)
                 /\ x.cb = "event" /\ (~Chooses /\ x.h # Parent => x.ev # "close"),
              \A x \in Items(ioq') : x \in Items(ioq) \/ x.h = Parent,
              child' \in {child, 0}, setting.biz = "echo" => ~opening',
              ~Chooses => ParentCloses' \/ Somewhere'
       PROVE  Inv'
  <2>1. Unused'
    BY <1>1, <1>2, <1>8, <1>9, <1>11, UnusedKept
  <2>2. Stopped'
    <3>1. \A x \in Items(workq) : x.cb = "close" => x \in Items(workq')
      BY <1>2, <1>11
    <3> \A x \in Items(workq') : x.cb = "close" => x \in Items(workq)
      BY <1>2, <1>11
    <3>2. QED
      BY <1>1, <3>1, StoppedKept
  <2>3. Faithful'
    <3>1. Items(wq) \subseteq Items(workq)
      BY <1>2
    <3>2. \A x \in Items(workq') : x \in Items(workq) \/
             (x.cb # "open" /\ (~Chooses /\ x.h # Parent => x.ev # "close"))
      BY <1>11, <3>1
    <3>3. QED
      BY <1>1, <1>5, <1>11, <3>2, FaithfulKept
  <2>4. Shut' /\ Linked' /\ Broken'
    BY <1>1, <1>4, <1>11 DEF Shut, Linked, Broken, Active
  <2>5. Alive'
    <3> SUFFICES ASSUME ~Chooses, \E k \in Children : state[k] = "closed" PROVE ParentCloses'
      BY <1>1, <1>11 DEF Alive, Chooses
    <3>1. ParentCloses
      BY <1>1 DEF Alive
    <3>2. Head(workq).ev # "close"
      BY DEF WorkToken, WorkItem
    <3>3. QED
      BY <1>2, <1>11, <3>1, <3>2, ClosesKept
  <2>6. QED
    BY <1>11, <2>1, <2>2, <2>3, <2>4, <2>5 DEF Inv
<1>12. ASSUME buf' = b PROVE Fits'
  BY <1>4, <1>12 DEF Fits
<1> HIDE DEF wq
<1>13. \A z \in IoItem : Append(ioq, z) \in Seq(IoItem) /\ Items(Append(ioq, z)) = Items(ioq) \cup {z}
  BY <1>2, ItemsOf
<1>14. ASSUME NEW v \in Seq(WorkItem), NEW z \in WorkItem
       PROVE  Append(v, z) \in Seq(WorkItem) /\ Items(Append(v, z)) = Items(v) \cup {z}
  BY ItemsOf
\* The parent reads or writes, or closes.
<1>15. ASSUME NEW z \in IoItem, z.h = Parent, ioq' = Append(ioq, z), workq' = wq, buf' = b,
              UNCHANGED <<opening, child>>, FineIo(z)',
              ~Chooses => z.do \in {"close_i", "read_i", "write_i"}
       PROVE  Inv'
  <2>1. Typed' /\ Fits'
    BY <1>1, <1>2, <1>10, <1>12, <1>13, <1>15 DEF Typed
  <2>2. OneToken' /\ FineTokens'
    BY <1>2, <1>4, <1>6, <1>15, <2>1, MovedToIo
  <2>3. ~Chooses => ParentCloses' \/ Somewhere'
    <3>1. z \in Items(ioq')
      BY <1>13, <1>15
    <3>2. z.do # "close_i" => z \in IoToken'
      BY DEF IoToken
    <3>3. QED
      BY <1>15, <3>1, <3>2 DEF ParentCloses, Somewhere
  <2>4. Items(workq') = Items(wq) /\ Items(ioq') = Items(ioq) \cup {z}
    BY <1>13, <1>15
  <2>5. \A x \in Items(ioq') : x \in Items(ioq) \/ x.h = Parent
    BY <1>15, <2>4
  <2>6. child' \in {child, 0} /\ ~opening'
    BY <1>15
  <2>7. QED
    BY <1>11, <2>1, <2>2, <2>3, <2>4, <2>5, <2>6
\* An event goes to the child or back to the parent.
<1>16. ASSUME NEW v \in Seq(WorkItem), Items(wq) \subseteq Items(v),
              \A x \in Items(v) : x \in Items(wq) \/ (child # 0 /\ x = Event(child, "close") /\ Chooses),
              NEW z \in WorkItem, z.cb = "event", z.h = Parent \/ (child # 0 /\ z.h = child),
              z.ev # "close", workq' = Append(v, z), ioq' = ioq, child' \in {child, 0},
              ~opening', opening' \in BOOLEAN, Fits', FineWork(z)'
       PROVE  Inv'
  <2>1. Items(workq') = Items(v) \cup {z} /\ workq' \in Seq(WorkItem)
    BY <1>14, <1>16
  <2>2. Typed'
    BY <1>2, <1>10, <1>16, <2>1
  <2>3. \A x \in Items(v) : x \notin WorkToken'
    <3>1. child # 0 => Event(child, "close") \notin WorkToken'
      BY <1>8, EventItem DEF WorkToken, Events
    <3>2. QED
      BY <1>6, <1>16, <3>1
  <2>4. OneToken' /\ FineTokens'
    BY <1>2, <1>4, <1>6, <1>16, <2>2, <2>3, MovedToWork
  <2>5. z \in WorkToken' /\ z \in Items(workq')
    BY <1>16, <2>1 DEF WorkToken
  <2>6. Somewhere'
    BY <2>5 DEF Somewhere
  <2>7. \A x \in Items(workq') : x \in Items(wq) \/
          /\ x.h = Parent \/ (child # 0 /\ x.h = child)
          /\ x.cb = "event" /\ (~Chooses /\ x.h # Parent => x.ev # "close")
    BY <1>8, <1>16, <2>1, EventItem DEF Events
  <2>8. Items(wq) \subseteq Items(workq') /\ Items(ioq') = Items(ioq)
    BY <1>16, <2>1
  <2>9. \A x \in Items(ioq') : x \in Items(ioq) \/ x.h = Parent
    BY <2>8
  <2>10. QED
    BY <1>11, <1>16, <2>2, <2>4, <2>6, <2>7, <2>8, <2>9
<1>17. CASE /\ do \in {"read", "write"}
            /\ ioq' = Append(ioq, IF do = "read" THEN AsyncReadSome(Parent, b) ELSE AsyncWrite(Parent, b))
            /\ workq' = wq /\ buf' = b /\ UNCHANGED <<opening, child>>
  <2>1. CASE do = "read"
    <3>1. PICK z \in IoItem : /\ z = AsyncReadSome(Parent, b)
                              /\ z.h = Parent /\ z.do \in {"close_i", "read_i"}
      <4>1. \A act \in {"close_i", "read_i"} :
              Io(Parent, act, TRUE) \in IoItem /\ Io(Parent, act, TRUE).h = Parent /\ Io(Parent, act, TRUE).do = act
        BY HandlerSets, IoItems
      <4>2. AsyncReadSome(Parent, b) = Io(Parent, IF B(Room(Parent))!Space(b[Parent]) = 0 THEN "close_i" ELSE "read_i", TRUE)
        BY DEF AsyncReadSome
      <4>3. QED
        BY <4>1, <4>2
    <3>2. FineIo(z)'
      <4>1. (~Chooses => Even /\ Rest(buf[Parent]) = <<>>)'
        BY <1>17, <2>1, BalanceKept DEF Ready
      <4>2. QED
        BY <3>1, <4>1 DEF FineIo, FineOp
    <3>3. QED
      BY <1>15, <1>17, <2>1, <3>1, <3>2
  <2>2. CASE do = "write"
    <3>1. PICK z \in IoItem : /\ z = AsyncWrite(Parent, b)
                              /\ z.h = Parent /\ z.do = "write_i" /\ z.data = Rest(b[Parent])
      <4>1. \A d \in Seq(Byte) : /\ IoData(Parent, "write_i", TRUE, d) \in IoItem
                                 /\ IoData(Parent, "write_i", TRUE, d).h = Parent
                                 /\ IoData(Parent, "write_i", TRUE, d).do = "write_i"
                                 /\ IoData(Parent, "write_i", TRUE, d).data = d
        BY HandlerSets, WriteItem
      <4>2. AsyncWrite(Parent, b) = IoData(Parent, "write_i", TRUE, Rest(b[Parent]))
        BY <1>7, <1>8 DEF AsyncWrite
      <4>3. QED
        BY <1>7, <1>8, <4>1, <4>2
    <3>2. FineIo(z)'
      <4>1. z.data = Rest(buf[Parent])' /\ (~Chooses => Owed(WriterOf(Parent), z.data))'
        BY <1>17, <2>2, <3>1, BalanceKept DEF Ready, WriterOf
      <4>2. QED
        BY <3>1, <4>1 DEF FineIo, FineOp
    <3>3. QED
      BY <1>15, <1>17, <2>2, <3>1, <3>2
  <2>3. QED
    BY <1>17, <2>1, <2>2
<1>18. CASE /\ do \in {"client_open", "client_close"} /\ setting.biz # "echo"
            /\ child' = 0
            /\ opening' = (do = "client_open")
            /\ workq' = wq \o GiveUpChild(p)
                         \o (IF do = "client_close" THEN <<Event(Parent, "notify")>> ELSE <<>>)
            /\ buf' = b /\ UNCHANGED ioq
  <2>1. PICK v \in Seq(WorkItem) :
          /\ v = wq \o GiveUpChild(p) /\ Items(wq) \subseteq Items(v)
          /\ \A x \in Items(v) : x \in Items(wq) \/ (child # 0 /\ x = Event(child, "close") /\ Chooses)
    <3>1. CASE child # 0 /\ ~p
      <4>1. PICK e \in WorkItem : e = Event(child, "close")
        BY <1>8, EventItem DEF Events
      <4>2. Chooses
        BY <1>18, <3>1 DEF Ready
      <4>3. wq \o GiveUpChild(p) = Append(wq, e)
        BY <1>2, <3>1, <4>1 DEF GiveUpChild
      <4>4. Append(wq, e) \in Seq(WorkItem) /\ Items(Append(wq, e)) = Items(wq) \cup {e}
        BY <1>2, <1>14
      <4>5. QED
        BY <3>1, <4>1, <4>2, <4>3, <4>4
    <3>2. CASE ~(child # 0 /\ ~p)
      <4>1. wq \o GiveUpChild(p) = wq
        BY <1>2, <3>2 DEF GiveUpChild
      <4>2. QED
        BY <1>2, <4>1
    <3>3. QED
      BY <3>1, <3>2
  <2>2. CASE do = "client_close"
    <3>1. PICK z \in WorkItem : z = Event(Parent, "notify") /\ z.h = Parent /\ z.cb = "event" /\ z.ev = "notify"
      BY <1>8, EventItem DEF Events
    <3>2. Chooses
      BY <2>2 DEF Ready
    <3>3. FineWork(z)'
      BY <3>1, <3>2, BalanceKept, <1>18 DEF FineWork
    <3>4. workq' = Append(v, z)
      BY <1>18, <2>1, <2>2, <3>1
    <3>5. QED
      BY <1>12, <1>16, <1>18, <2>1, <2>2, <3>1, <3>3, <3>4
  <2>3. CASE do = "client_open"
    <3>1. workq' = v /\ opening'
      <4>1. workq' = v \o <<>>
        BY <1>18, <2>1, <2>3
      <4>2. QED
        BY <1>18, <2>3, <4>1, ConcatEmptySeq
    <3>2. Typed' /\ Fits'
      BY <1>2, <1>10, <1>12, <1>18, <2>1, <3>1
    <3>3. \A x \in Items(v) : x \notin WorkToken'
      <4>1. child # 0 => Event(child, "close") \notin WorkToken'
        BY <1>8, EventItem DEF WorkToken, Events
      <4>2. QED
        BY <1>6, <2>1, <4>1
    <3>4. (opening /\ ~Chooses => Even /\ Rest(buf[Parent]) = <<>>)'
      BY <1>18, <2>3, BalanceKept DEF Ready
    <3>5. OneToken' /\ FineTokens'
      BY <1>2, <1>4, <1>6, <1>18, <2>1, <3>1, <3>2, <3>3, <3>4, MovedAway
    <3>6. \A x \in Items(workq') : x \in Items(wq) \/
            /\ x.h = Parent \/ (child # 0 /\ x.h = child)
            /\ x.cb = "event" /\ (~Chooses /\ x.h # Parent => x.ev # "close")
      BY <1>8, <2>1, <3>1, EventItem DEF Events
    <3>7. Items(wq) \subseteq Items(workq') /\ Items(ioq') = Items(ioq)
      BY <1>18, <2>1, <3>1
    <3>8. \A x \in Items(ioq') : x \in Items(ioq) \/ x.h = Parent
      BY <3>7
    <3>9. Somewhere'
      BY <3>1 DEF Somewhere
    <3>10. QED
      BY <1>11, <1>18, <3>2, <3>5, <3>6, <3>7, <3>8, <3>9
  <2>4. QED
    BY <1>18, <2>2, <2>3
<1>19. CASE /\ do = "client_read" /\ child # 0
            /\ workq' = Append(wq, Event(IF B(Room(child))!Space(b[child]) = 0 THEN Parent ELSE child, "read"))
            /\ buf' = b /\ UNCHANGED <<ioq, opening, child>>
  <2>1. Chooses
    BY <1>19 DEF Ready
  <2>2. PICK z \in WorkItem : /\ workq' = Append(wq, z) /\ z.h \in {Parent, child}
                              /\ z.cb = "event" /\ z.ev = "read"
    BY <1>8, <1>19, EventItem DEF Events
  <2>3. FineWork(z)'
    BY <1>19, <2>1, <2>2, BalanceKept DEF FineWork
  <2>4. \A x \in Items(wq) : x \in Items(wq) \/ (child # 0 /\ x = Event(child, "close") /\ Chooses)
    OBVIOUS
  <2>5. QED
    BY <1>1, <1>2, <1>12, <1>16, <1>19, <2>2, <2>3, <2>4 DEF Typed
<1>20. CASE /\ do \in {"client_write", "client_write_read"} /\ child # 0
            /\ IF Room(child) < Len(Unread(Parent, b))
               THEN buf' = Clear(child, b) /\ workq' = Append(wq, Event(Parent, "write"))
               ELSE /\ buf' = Request(b)
                    /\ workq' = Append(wq, Event(child, IF do = "client_write" THEN "write" ELSE "write_read"))
            /\ UNCHANGED <<ioq, opening, child>>
  <2> DEFINE c == IF Room(child) < Len(Unread(Parent, b)) THEN B(Room(child))!Cleared
                  ELSE B(Room(child))!Produce(B(Room(child))!Cleared, Unread(Parent, b))
  <2>1. Fit(Room(child), c) /\ (Room(child) >= Len(Unread(Parent, b)) => Rest(c) = Rest(b[Parent]))
    <3>1. /\ Fit(Room(child), B(Room(child))!Cleared) /\ Rest(B(Room(child))!Cleared) = <<>>
          /\ B(Room(child))!Space(B(Room(child))!Cleared) = Room(child)
      BY <1>7, <1>8, ClearedFits
    <3>2. ASSUME ~(Room(child) < Len(Unread(Parent, b)))
          PROVE  /\ Fit(Room(child), B(Room(child))!Produce(B(Room(child))!Cleared, Unread(Parent, b)))
                 /\ Rest(B(Room(child))!Produce(B(Room(child))!Cleared, Unread(Parent, b))) = Rest(b[Parent])
      BY <1>7, <1>8, <3>1, <3>2, ProduceFits
    <3>3. QED
      BY <1>7, <1>8, <3>1, <3>2
  <2>2. buf' = [b EXCEPT ![child] = c]
    BY <1>20 DEF Clear, Request
  <2> HIDE DEF c
  <2>3. buf' \in [Handlers -> [bytes : Seq(Byte), begin : Nat]] /\ buf'[child] = c
    BY <1>8, <2>1, <2>2 DEF Fit
  <2>4. Fits'
    BY <1>4, <1>8, <2>1, <2>2, <2>3 DEF Fits
  <2>5. PICK z \in WorkItem :
          /\ workq' = Append(wq, z) /\ z.cb = "event"
          /\ \/ z.h = Parent /\ z.ev = "write"
             \/ /\ z.h = child /\ Room(child) >= Len(Unread(Parent, b))
                /\ z.ev = IF do = "client_write" THEN "write" ELSE "write_read"
    BY <1>7, <1>8, <1>20, EventItem DEF Events
  <2>6. FineWork(z)'
    <3>1. z.cb # "read" /\ z.cb # "write" /\ z.cb # "open" /\ z.ev # "open" /\ z.ev # "read"
      BY <2>5
    <3>2. z.h # Parent => child' = z.h
      BY <1>20, <2>5
    <3>3. (~Chooses => (z.h # Parent => z.ev = "write_read" /\ Owed("child", Rest(buf[z.h]))))'
      <4>1. ASSUME ~Chooses, z.h # Parent
            PROVE  z.ev = "write_read" /\ Owed("child", Rest(b[Parent])) /\ Rest(buf'[z.h]) = Rest(b[Parent])
        BY <1>20, <2>1, <2>3, <2>5, <4>1 DEF Ready
      <4>2. QED
        BY <4>1, BalanceKept
    <3>4. QED
      BY <3>1, <3>2, <3>3 DEF FineWork
  <2>7. \A x \in Items(wq) : x \in Items(wq) \/ (child # 0 /\ x = Event(child, "close") /\ Chooses)
    OBVIOUS
  <2>8. z.ev # "close" /\ (z.h = Parent \/ (child # 0 /\ z.h = child))
    BY <1>20, <2>5
  <2>9. QED
    BY <1>1, <1>2, <1>16, <1>20, <2>4, <2>5, <2>6, <2>7, <2>8 DEF Typed
<1>21. CASE /\ ioq' = Append(ioq, Io(Parent, "close_i", TRUE))
            /\ workq' = wq /\ buf' = b /\ UNCHANGED <<opening, child>>
  <2>1. PICK z \in IoItem : z = Io(Parent, "close_i", TRUE) /\ z.h = Parent /\ z.do = "close_i"
    <3>1. /\ Io(Parent, "close_i", TRUE) \in IoItem
          /\ Io(Parent, "close_i", TRUE).h = Parent /\ Io(Parent, "close_i", TRUE).do = "close_i"
      BY HandlerSets, IoItems
    <3>2. QED
      BY <3>1
  <2>2. FineIo(z)'
    BY <2>1 DEF FineIo
  <2>3. QED
    BY <1>15, <1>21, <2>1, <2>2
<1>22. QED
  BY <1>17, <1>18, <1>19, <1>20, <1>21 DEF DoIo, wq
-----------------------------------------------------------------------------
(* The business handlers *)

\* What the business handlers answer.
LEMMA ProcessFine ==
  ASSUME Typed, NEW on, NEW c \in Nat, NEW in, Fit(c, in), NEW out, Fit(Room(Parent), out),
         NEW a \in Process(on, in, out)
  PROVE  /\ Fit(Room(Parent), a.out)
         /\ setting.biz \in {"echo", "proxy", "any"}
         /\ setting.biz = "echo" =>
              /\ a.out = out
              /\ on = "open" => a.do = "read"
              /\ on = "read" => a.do = "write"
              /\ on = "write" => a.do = "read"
              /\ on \notin {"open", "read", "write"} => a.do = "close"
         /\ setting.biz = "proxy" =>
              /\ a.do # "write" => a.out = out
              /\ on = "open" => a.do = "client_open"
              /\ on = "client_open" => a.do = "read"
              /\ on = "read" => a.do = "client_write_read"
              /\ on = "write" => a.do = "read"
              /\ on = "client_read" => a.do = "close" \/ (a.do = "write" /\ Rest(a.out) = Rest(in))
              /\ on \notin {"open", "client_open", "read", "write", "client_read"} => a.do = "close"
<1>1. setting.biz \in {"echo", "proxy", "any"}
  BY RelayAssumption DEF Typed
<1>2. Room(Parent) \in Nat
  BY RoomNat, HandlerSets
<1>3. CASE setting.biz = "echo"
  BY <1>3 DEF Process, EchoProcess, Answer
<1>4. CASE setting.biz = "proxy"
  <2>1. a \in ProxyProcess(on, in, out)
    BY <1>4 DEF Process
  <2>2. CASE on = "client_read" /\ B(Room(Parent))!Size(in) <= Room(Parent)
    <3>1. a = [do |-> "write", out |-> Copied(in, out)]
      BY <2>1, <2>2 DEF ProxyProcess, Answer
    <3>2. Len(Rest(in)) <= Room(Parent)
      BY <2>2, SizesOfRest DEF B!Size
    <3>3. Fit(Room(Parent), Copied(in, out)) /\ Rest(Copied(in, out)) = Rest(in)
      BY <1>2, <3>2, CopiedFits
    <3>4. QED
      BY <1>4, <2>2, <3>1, <3>3
  <2>3. CASE ~(on = "client_read" /\ B(Room(Parent))!Size(in) <= Room(Parent))
    <3>1. a = [do |-> IF on \in DOMAIN ProxyTable THEN ProxyTable[on] ELSE "close", out |-> out]
      BY <2>1, <2>3 DEF ProxyProcess, Answer
    <3>2. /\ DOMAIN ProxyTable = {"open", "client_open", "read", "write"}
          /\ ProxyTable["open"] = "client_open" /\ ProxyTable["client_open"] = "read"
          /\ ProxyTable["read"] = "client_write_read" /\ ProxyTable["write"] = "read"
      BY DEF ProxyTable
    <3>3. QED
      BY <1>4, <3>1, <3>2
  <2>4. QED
    BY <2>2, <2>3
<1>5. CASE setting.biz = "any"
  <2>1. a \in [do : Dos, out : {out, B(Room(Parent))!Cleared}
                            \cup (IF Len(in.bytes) <= Room(Parent) THEN {Copied(in, out)} ELSE {})]
    BY <1>5 DEF Process
  <2>2. Len(in.bytes) <= Room(Parent) => Fit(Room(Parent), Copied(in, out))
    <3>1. Len(Rest(in)) <= Len(in.bytes) /\ Len(in.bytes) \in Nat /\ Len(Rest(in)) \in Nat
      BY SizesOfRest DEF Fit
    <3>2. QED
      BY <1>2, <3>1, CopiedFits
  <2>3. Fit(Room(Parent), B(Room(Parent))!Cleared)
    BY <1>2, ClearedFits
  <2>4. QED
    BY <1>5, <2>1, <2>2, <2>3
<1>6. QED
  BY <1>1, <1>3, <1>4, <1>5

\* One buffer is replaced.
LEMMA BufferSet ==
  ASSUME Typed, NEW b \in [Handlers -> [bytes : Seq(Byte), begin : Nat]],
         \A h \in Handlers : Fit(Room(h), b[h]), NEW h \in Handlers, NEW c, Fit(Room(h), c)
  PROVE  /\ [b EXCEPT ![h] = c] \in [Handlers -> [bytes : Seq(Byte), begin : Nat]]
         /\ \A g \in Handlers : Fit(Room(g), [b EXCEPT ![h] = c][g])
         /\ [b EXCEPT ![h] = c][h] = c
         /\ \A g \in Handlers \ {h} : [b EXCEPT ![h] = c][g] = b[g]
<1>1. c \in [bytes : Seq(Byte), begin : Nat]
  BY DEF Fit
<1>2. /\ [b EXCEPT ![h] = c] \in [Handlers -> [bytes : Seq(Byte), begin : Nat]]
      /\ [b EXCEPT ![h] = c][h] = c
      /\ \A g \in Handlers \ {h} : [b EXCEPT ![h] = c][g] = b[g]
  BY <1>1
<1>3. QED
  BY <1>2

\* The buffer of a handler in on_open, on_read and on_write.
LEMMA FilledBuffer ==
  ASSUME Typed, Fits, NEW x \in WorkItem, x.cb \in {"open", "read", "write"}, FineWork(x), NEW b,
         b = CASE x.cb = "open" -> Clear(x.h, buf)
               [] x.cb = "read" -> AfterRead(x.h, x.data)
               [] OTHER -> AfterWrite(x.h, x.data)
  PROVE  /\ b \in [Handlers -> [bytes : Seq(Byte), begin : Nat]]
         /\ \A g \in Handlers : Fit(Room(g), b[g])
         /\ \A g \in Handlers \ {x.h} : b[g] = buf[g]
         /\ x.cb \in {"open", "write"} => Rest(b[x.h]) = <<>> /\ B(Room(x.h))!Space(b[x.h]) = Room(x.h)
         /\ x.cb = "read" /\ Rest(buf[x.h]) = <<>> => Rest(b[x.h]) = x.data
<1> DEFINE c == CASE x.cb = "open" -> B(Room(x.h))!Cleared
                  [] x.cb = "read" -> B(Room(x.h))!Produce(buf[x.h], x.data)
                  [] OTHER -> B(Room(x.h))!Crunch(B(Room(x.h))!Consume(buf[x.h], Len(x.data)))
<1>1. x.h \in Handlers /\ x.data \in Seq(Byte) /\ Len(x.data) \in Nat
  BY DEF WorkItem
<1>2. Room(x.h) \in Nat /\ Fit(Room(x.h), buf[x.h]) /\ buf \in [Handlers -> [bytes : Seq(Byte), begin : Nat]]
  BY <1>1, RoomNat DEF Fits
<1>3. b = [buf EXCEPT ![x.h] = c]
  BY DEF Clear, AfterRead, AfterWrite
<1>4. /\ Fit(Room(x.h), B(Room(x.h))!Cleared) /\ Rest(B(Room(x.h))!Cleared) = <<>>
      /\ B(Room(x.h))!Space(B(Room(x.h))!Cleared) = Room(x.h)
  BY <1>2, ClearedFits
<1>5. x.cb = "read" => /\ Fit(Room(x.h), c)
                       /\ Rest(buf[x.h]) = <<>> => Rest(c) = x.data
  <2> SUFFICES ASSUME x.cb = "read"
               PROVE  /\ Fit(Room(x.h), B(Room(x.h))!Produce(buf[x.h], x.data))
                      /\ Rest(buf[x.h]) = <<>> => Rest(B(Room(x.h))!Produce(buf[x.h], x.data)) = x.data
    OBVIOUS
  <2>1. Len(x.data) <= B(Room(x.h))!Space(buf[x.h])
    <3>1. Len(x.data) + Len(buf[x.h].bytes) <= Room(x.h)
      BY DEF FineWork, Holds
    <3>2. Len(buf[x.h].bytes) \in Nat
      BY <1>2 DEF Fit
    <3>3. B(Room(x.h))!Space(buf[x.h]) = Room(x.h) - Len(buf[x.h].bytes)
      BY DEF B!Space
    <3>4. \A m, n, r \in Nat : m + n <= r => m <= r - n
      OBVIOUS
    <3> HIDE DEF c
    <3>5. Len(x.data) <= Room(x.h) - Len(buf[x.h].bytes)
      BY <1>1, <1>2, <3>1, <3>2, <3>4
    <3>6. QED
      BY <3>3, <3>5
  <2>2. QED
    BY <1>1, <1>2, <2>1, ProduceFits
<1>6. x.cb = "write" => c = B(Room(x.h))!Cleared
  BY <1>2, WrittenClears DEF FineWork
<1>7. x.cb = "open" => c = B(Room(x.h))!Cleared
  OBVIOUS
<1> HIDE DEF c
<1>8. Fit(Room(x.h), c)
  BY <1>4, <1>5, <1>6, <1>7
<1>9. /\ b \in [Handlers -> [bytes : Seq(Byte), begin : Nat]]
      /\ \A g \in Handlers : Fit(Room(g), b[g])
      /\ b[x.h] = c /\ \A g \in Handlers \ {x.h} : b[g] = buf[g]
  <2>1. \A g \in Handlers : Fit(Room(g), buf[g])
    BY DEF Fits
  <2>2. /\ [buf EXCEPT ![x.h] = c] \in [Handlers -> [bytes : Seq(Byte), begin : Nat]]
        /\ \A g \in Handlers : Fit(Room(g), [buf EXCEPT ![x.h] = c][g])
        /\ [buf EXCEPT ![x.h] = c][x.h] = c
        /\ \A g \in Handlers \ {x.h} : [buf EXCEPT ![x.h] = c][g] = buf[g]
    BY <1>1, <1>2, <1>8, <2>1, BufferSet
  <2>3. QED
    BY <1>3, <2>2
<1>10. QED
  BY <1>4, <1>5, <1>6, <1>7, <1>9
-----------------------------------------------------------------------------
(* The callbacks of the parent *)

\* There are no more tokens in the rest of a queue.
LEMMA FewerOfTail ==
  ASSUME NEW S, NEW s \in Seq(S), s # <<>>, NEW k1, NEW k2, k2 \subseteq k1
  PROVE  Number(Tail(s), k2) <= Number(s, k1) /\ Number(Tail(s), k2) \in Nat
<1>1. Tail(s) \in Seq(S)
  BY ItemsOf
<1>2. Number(Tail(s), k2) <= Number(Tail(s), k1)
  BY <1>1, NumberKinds
<1>3. Number(s, k1) = Number(Tail(s), k1) + (IF Head(s) \in k1 THEN 1 ELSE 0)
  BY NumberTail
<1>4. Number(Tail(s), k1) \in Nat /\ Number(Tail(s), k2) \in Nat
  BY <1>1, NumberType
<1>5. QED
  BY <1>2, <1>3, <1>4

\* There are no more tokens if fewer items count as one.
LEMMA FewerKinds ==
  ASSUME NEW S, NEW s \in Seq(S), NEW k1, NEW k2, k2 \subseteq k1
  PROVE  Number(s, k2) <= Number(s, k1) /\ Number(s, k2) \in Nat
BY NumberKinds, NumberType

\* A callback of a handler that is stopped is dropped.
LEMMA DropKeeps ==
  ASSUME Inv, workq # <<>>, NEW x, x = Head(workq), x.cb # "close", ~Active(x.h), workq' = Tail(workq),
         UNCHANGED <<setting, state, pend, ioq, opening, child, parent, passive, reading, reads, buf, got, sent>>
  PROVE  Inv'
<1>1. /\ Typed /\ Fits /\ OneToken /\ FineTokens /\ Unused /\ Shut /\ Linked /\ Broken
      /\ Stopped /\ Faithful /\ Alive
  BY DEF Inv
<1>2. /\ workq' \in Seq(WorkItem) /\ Items(workq) = Items(workq') \cup {x} /\ x \in WorkItem
      /\ ioq \in Seq(IoItem)
  BY <1>1, ItemsOf DEF Typed
<1>3. Typed' /\ Fits' /\ Shut' /\ Linked' /\ Broken'
  BY <1>1, <1>2 DEF Typed, Fits, Fit, Room, Shut, Linked, Broken, Active
<1>4. (WorkToken' = WorkToken) /\ (IoToken' = IoToken) /\ (Active(Parent)' <=> Active(Parent)) /\ Chooses' = Chooses
  BY DEF WorkToken, IoToken, Chooses, Active
<1>5. OneToken' /\ FineTokens'
  <2>1. Number(workq', WorkToken') <= Number(workq, WorkToken)
    BY <1>1, <1>4, FewerOfTail DEF Typed
  <2>2. Number(ioq', IoToken') <= Number(ioq, IoToken)
    BY <1>2, <1>4, FewerKinds
  <2>3. QED
    BY <1>1, <1>2, <1>3, <1>4, <2>1, <2>2, TokenStays
<1>6. Unused'
  BY <1>1, <1>2, UnusedKept DEF Unused
<1>7. Stopped'
  BY <1>1, <1>2, StoppedKept
<1>8. Faithful'
  BY <1>1, <1>2, <1>4, FaithfulKept
<1>9. Alive'
  <2> SUFFICES ASSUME Active(Parent), ~Chooses
               PROVE  /\ (ParentCloses \/ Somewhere \/ \E k \in Children : state[k] = "stopped")'
                      /\ (\E k \in Children : state[k] = "closed") => ParentCloses'
    BY <1>4 DEF Alive
  <2>1. x.h \in Children /\ state[x.h] \in {"stopped", "closed"}
    <3>1. x.h \in Handlers /\ x.h # Parent
      BY <1>2 DEF WorkItem
    <3>2. x.h \in Children /\ x \in Items(workq)
      BY <1>2, <3>1, HandlerSets
    <3>3. state[x.h] # "unused"
      BY <1>1, <3>2 DEF Unused
    <3>4. QED
      BY <1>1, <3>1, <3>2, <3>3, HandlerSets DEF Typed, Active
  <2>2. ParentCloses => ParentCloses'
    BY <1>2, <2>1, HandlerSets DEF ParentCloses
  <2>3. (\E k \in Children : state[k] = "closed") => ParentCloses'
    BY <1>1, <2>2 DEF Alive
  <2>4. QED
    BY <2>1, <2>3
<1>10. QED
  BY <1>1, <1>3, <1>5, <1>6, <1>7, <1>8, <1>9 DEF Inv

\* on_close of the parent.
LEMMA ParentCloseKeeps ==
  ASSUME Inv, workq # <<>>, NEW x, x = Head(workq), x.h = Parent, x.cb = "close", ParentClose,
         state' = [state EXCEPT ![Parent] = "closed"],
         UNCHANGED <<setting, pend, parent, passive, reading, reads, got, sent>>
  PROVE  Inv'
<1>1. /\ Typed /\ Fits /\ OneToken /\ FineTokens /\ Unused /\ Shut /\ Linked /\ Broken
      /\ Stopped /\ Faithful /\ Alive
  BY DEF Inv
<1>2. /\ Tail(workq) \in Seq(WorkItem) /\ Items(workq) = Items(Tail(workq)) \cup {x} /\ x \in WorkItem
      /\ ioq \in Seq(IoItem) /\ ioq' = ioq /\ buf' = buf /\ opening' = opening /\ child' = 0
  BY <1>1, ItemsOf DEF Typed, ParentClose
<1>3. /\ Parent \in Handlers /\ Parent \notin Children /\ (child # 0 => child \in Children)
      /\ Children \subseteq Handlers /\ 0 \in 0..MaxChildren
  BY <1>1, HandlerSets DEF Typed
<1>4. (WorkToken' = WorkToken) /\ (IoToken' = IoToken) /\ Chooses' = Chooses
  BY DEF WorkToken, IoToken, Chooses
<1>5. /\ state'[Parent] = "closed" /\ \A k \in Children : state'[k] = state[k]
      /\ ~Active(Parent)' /\ state' \in [Handlers -> {"unused", "active", "stopped", "closed"}]
  BY <1>1, <1>3 DEF Typed, Active
<1>6. /\ workq' \in Seq(WorkItem) /\ Items(Tail(workq)) \subseteq Items(workq')
      /\ \A y \in Items(workq') : y \in Items(workq) \/ (child # 0 /\ y.h = child /\ y.cb = "event" /\ y \notin WorkToken)
      /\ Number(workq', WorkToken) <= Number(workq, WorkToken)
  <2>1. Number(Tail(workq), WorkToken) <= Number(workq, WorkToken) /\ Number(Tail(workq), WorkToken) \in Nat
    BY <1>1, FewerOfTail DEF Typed
  <2>2. CASE child # 0 /\ Parent \notin passive
    <3>1. PICK e \in WorkItem : e = Event(child, "close") /\ e.h = child /\ e.cb = "event" /\ e \notin WorkToken
      BY <1>3, <2>2, EventItem DEF WorkToken, Events
    <3>2. workq' = Append(Tail(workq), e)
      BY <1>2, <2>2, <3>1 DEF ParentClose, GiveUpChild
    <3>3. Number(workq', WorkToken) = Number(Tail(workq), WorkToken)
      <4>1. Number(Append(Tail(workq), e), WorkToken) = Number(Tail(workq), WorkToken) + (IF e \in WorkToken THEN 1 ELSE 0)
        BY <1>2, NumberAppend
      <4>2. QED
        BY <2>1, <3>1, <3>2, <4>1
    <3>4. workq' \in Seq(WorkItem) /\ Items(workq') = Items(Tail(workq)) \cup {e}
      BY <1>2, <3>2, ItemsOf
    <3>5. QED
      BY <1>2, <2>1, <2>2, <3>1, <3>3, <3>4
  <2>3. CASE ~(child # 0 /\ Parent \notin passive)
    <3>1. workq' = Tail(workq)
      BY <1>2, <2>3 DEF ParentClose, GiveUpChild
    <3>2. QED
      BY <1>2, <2>1, <3>1
  <2>4. QED
    BY <2>2, <2>3
<1>7. Typed' /\ Fits'
  BY <1>1, <1>2, <1>3, <1>5, <1>6 DEF Typed, Fits, Fit, Room
<1>8. OneToken' /\ FineTokens'
  <2>1. Number(ioq', IoToken') <= Number(ioq, IoToken)
    BY <1>2, <1>4, FewerKinds
  <2>2. QED
    BY <1>1, <1>2, <1>4, <1>5, <1>6, <1>7, <2>1, TokenStays
<1>9. Unused'
  <2>1. child # 0 => state[child] # "unused"
    BY <1>1, <1>3 DEF Unused
  <2>2. QED
    BY <1>1, <1>2, <1>5, <1>6, <2>1, UnusedKept DEF Unused
<1>10. Shut'
  <2>1. pend[Parent] = {}
    BY <1>1, <1>2, <1>3 DEF Shut, Stopped, Active
  <2>2. QED
    BY <1>1, <1>5, <2>1, HandlerSets DEF Shut, Active
<1>11. Linked' /\ Broken'
  BY <1>1, <1>2, <1>5 DEF Linked, Broken
<1>12. Stopped'
  <2>1. \A h \in Handlers : h = Parent \/ state'[h] = state[h]
    BY <1>5, HandlerSets
  <2>2. \A y \in Items(workq) : y.h \in Handlers
    BY <1>1, ItemsOf DEF Typed, WorkItem
  <2>3. QED
    BY <1>1, <1>2, <1>5, <1>6, <2>1, <2>2, StoppedKept
<1>13. Faithful' /\ Alive'
  BY <1>5 DEF Faithful, Alive
<1>14. QED
  BY <1>7, <1>8, <1>9, <1>10, <1>11, <1>12, <1>13 DEF Inv

\* on_open, on_read and on_write of the parent.
LEMMA ParentDataKeeps ==
  ASSUME Inv, workq # <<>>, NEW x, x = Head(workq), x.h = Parent, x.cb \in {"open", "read", "write"},
         Active(Parent), ~opening, ParentData(x.cb, x.data), passive' \in {passive, passive \cup {Parent}},
         UNCHANGED <<setting, state, pend, parent, reading, reads, got, sent>>
  PROVE  Inv'
<1>1. Typed /\ Fits /\ FineTokens /\ Faithful
  BY DEF Inv
<1>2. x \in WorkItem /\ x \in Items(workq) /\ Parent \in Handlers
  BY <1>1, ItemsOf, HandlerSets DEF Typed
<1>3. x \in WorkToken /\ FineWork(x)
  BY <1>1, <1>2 DEF WorkToken, FineTokens
<1>4. PICK b : b = CASE x.cb = "open" -> Clear(Parent, buf)
                     [] x.cb = "read" -> AfterRead(Parent, x.data)
                     [] OTHER -> AfterWrite(Parent, x.data)
  OBVIOUS
<1>5. /\ b \in [Handlers -> [bytes : Seq(Byte), begin : Nat]]
      /\ \A g \in Handlers : Fit(Room(g), b[g])
      /\ x.cb \in {"open", "write"} => Rest(b[Parent]) = <<>>
      /\ x.cb = "read" /\ Rest(buf[Parent]) = <<>> => Rest(b[Parent]) = x.data
  <2>1. b = CASE x.cb = "open" -> Clear(x.h, buf)
              [] x.cb = "read" -> AfterRead(x.h, x.data)
              [] OTHER -> AfterWrite(x.h, x.data)
    BY <1>4
  <2>2. QED
    BY <1>1, <1>2, <1>3, <2>1, FilledBuffer
<1>6. PICK a \in Process(x.cb, b[Parent], b[Parent]) :
        DoIo(a.do, Parent \in passive, [b EXCEPT ![Parent] = a.out])
  BY <1>4, SMTT(30) DEF ParentData
<1>7. Room(Parent) \in Nat /\ Fit(Room(Parent), b[Parent])
  BY <1>1, <1>2, <1>5, RoomNat
<1>8. /\ Fit(Room(Parent), a.out)
      /\ setting.biz \in {"echo", "proxy", "any"}
      /\ setting.biz = "echo" =>
           /\ a.out = b[Parent]
           /\ x.cb = "open" => a.do = "read"
           /\ x.cb = "read" => a.do = "write"
           /\ x.cb = "write" => a.do = "read"
      /\ setting.biz = "proxy" =>
           /\ a.do # "write" => a.out = b[Parent]
           /\ x.cb = "open" => a.do = "client_open"
           /\ x.cb = "read" => a.do = "client_write_read"
           /\ x.cb = "write" => a.do = "read"
  BY <1>1, <1>7, ProcessFine
<1>9. PICK c : c = [b EXCEPT ![Parent] = a.out]
  OBVIOUS
<1>10. /\ c \in [Handlers -> [bytes : Seq(Byte), begin : Nat]]
       /\ \A g \in Handlers : Fit(Room(g), c[g])
       /\ c[Parent] = a.out
  <2>1. /\ [b EXCEPT ![Parent] = a.out] \in [Handlers -> [bytes : Seq(Byte), begin : Nat]]
        /\ \A g \in Handlers : Fit(Room(g), [b EXCEPT ![Parent] = a.out][g])
        /\ [b EXCEPT ![Parent] = a.out][Parent] = a.out
    <3>1. Typed /\ Parent \in Handlers /\ Fit(Room(Parent), a.out)
      BY <1>1, <1>2, <1>8
    <3>2. QED
      BY <1>5, <3>1, BufferSet
  <2>2. QED
    BY <1>9, <2>1
<1>11. Ready(a.do, c)
  <2> SUFFICES ASSUME ~Chooses PROVE
        /\ a.do \in {"read", "write", "client_open", "client_write_read", "close"}
        /\ a.do = "read" => Even /\ Rest(c[Parent]) = <<>>
        /\ a.do = "write" => Owed("parent", Rest(c[Parent]))
        /\ a.do = "client_open" => Even /\ Rest(c[Parent]) = <<>> /\ child = 0
        /\ a.do = "client_write_read" => setting.biz = "proxy" /\ Owed("child", Rest(c[Parent]))
    BY DEF Ready
  <2>1. a.do # "write" \/ setting.biz = "echo" => c[Parent] = b[Parent]
    BY <1>8, <1>10 DEF Chooses
  <2>2. CASE x.cb = "open"
    <3>1. Even /\ child = 0
      BY <1>1, <1>2, <1>3, <2>2 DEF FineWork, Faithful
    <3>2. a.do \in {"read", "client_open"}
      BY <1>8, <2>2 DEF Chooses
    <3>3. QED
      BY <1>5, <2>1, <2>2, <3>1, <3>2
  <2>3. CASE x.cb = "read"
    <3>1. Owed(Lane(Parent), x.data) /\ Rest(b[Parent]) = x.data
      BY <1>3, <1>5, <2>3 DEF FineWork
    <3>2. QED
      BY <1>8, <2>1, <2>3, <3>1 DEF Lane, Chooses
  <2>4. CASE x.cb = "write"
    <3>1. Even
      BY <1>3, <2>4 DEF FineWork
    <3>2. a.do = "read"
      BY <1>8, <2>4 DEF Chooses
    <3>3. QED
      BY <1>5, <2>1, <2>4, <3>1, <3>2
  <2>5. QED
    BY <2>2, <2>3, <2>4
<1>12. DoIo(a.do, Parent \in passive, c)
  BY <1>6, <1>9
<1>13. PICK p : p = (Parent \in passive)
  OBVIOUS
<1>14. DoIo(a.do, p, c)
  BY <1>12, <1>13
<1>15. QED
  BY <1>3, <1>10, <1>11, <1>14, DoIoKeeps

\* The parent closes because its child has closed.
LEMMA CloseEventKeeps ==
  ASSUME Inv, workq # <<>>, NEW x, x = Head(workq), x.h = Parent, x.cb = "event", x.ev = "close",
         ~Chooses, ~opening, Active(Parent),
         ioq' = Append(ioq, Io(Parent, "close_i", TRUE)), workq' = Tail(workq),
         passive' \in {passive, passive \cup {Parent}},
         UNCHANGED <<setting, state, pend, opening, child, parent, reading, reads, buf, got, sent>>
  PROVE  Inv'
<1>1. /\ Typed /\ Fits /\ OneToken /\ FineTokens /\ Unused /\ Shut /\ Linked /\ Broken
      /\ Stopped /\ Faithful /\ Alive
  BY DEF Inv
<1>2. /\ workq' \in Seq(WorkItem) /\ Items(workq) = Items(workq') \cup {x} /\ x \in WorkItem
      /\ ioq \in Seq(IoItem)
  BY <1>1, ItemsOf DEF Typed
<1>3. /\ Parent \in Handlers /\ Parent \notin Children /\ passive' \subseteq Handlers
      /\ passive \cap Children \subseteq passive' /\ passive' \cap Children \subseteq passive
  BY <1>1, HandlerSets DEF Typed
<1>4. PICK z \in IoItem : z = Io(Parent, "close_i", TRUE) /\ z.h = Parent /\ z.do = "close_i"
  <2>1. /\ Io(Parent, "close_i", TRUE) \in IoItem
        /\ Io(Parent, "close_i", TRUE).h = Parent /\ Io(Parent, "close_i", TRUE).do = "close_i"
    BY <1>3, IoItems
  <2>2. QED
    BY <2>1
<1>5. ioq' = Append(ioq, z) /\ ioq' \in Seq(IoItem) /\ Items(ioq') = Items(ioq) \cup {z}
  <2>1. ioq' = Append(ioq, z)
    BY <1>4
  <2>2. Append(ioq, z) \in Seq(IoItem) /\ Items(Append(ioq, z)) = Items(ioq) \cup {z}
    BY <1>2, ItemsOf
  <2>3. QED
    BY <2>1, <2>2
<1>6. Typed' /\ Fits' /\ Shut' /\ Linked' /\ Broken'
  BY <1>1, <1>2, <1>3, <1>5 DEF Typed, Fits, Fit, Room, Shut, Linked, Broken, Active
<1>7. (WorkToken' \subseteq WorkToken) /\ (IoToken' \subseteq IoToken)
  BY <1>3, TokensKept
<1>8. OneToken' /\ FineTokens'
  <2>1. Number(workq', WorkToken') <= Number(workq, WorkToken)
    BY <1>1, <1>7, FewerOfTail DEF Typed
  <2>2. z \notin IoToken'
    BY <1>4 DEF IoToken
  <2>3. Number(ioq', IoToken') = Number(ioq, IoToken')
    <3>1. Number(Append(ioq, z), IoToken') = Number(ioq, IoToken') + (IF z \in IoToken' THEN 1 ELSE 0)
      BY <1>2, NumberAppend
    <3>2. Number(ioq, IoToken') \in Nat
      BY <1>2, NumberType
    <3>3. Number(Append(ioq, z), IoToken') = Number(ioq, IoToken')
      BY <2>2, <3>1, <3>2
    <3>4. QED
      BY <1>5, <3>3
  <2>4. Number(ioq, IoToken') <= Number(ioq, IoToken) /\ Number(ioq, IoToken') \in Nat
    BY <1>2, <1>7, FewerKinds
  <2>5. Number(ioq', IoToken') <= Number(ioq, IoToken)
    BY <2>3, <2>4
  <2>6. Active(Parent)' => Active(Parent) /\ child' = child
    BY DEF Active
  <2>7. (\A y \in Items(workq') : y \in WorkToken' => y \in Items(workq))
         /\ \A y \in Items(ioq') : y \in IoToken' => y \in Items(ioq)
    BY <1>2, <1>5, <2>2
  <2>8. (opening' => opening) /\ \A h \in Handlers : pend'[h] \subseteq pend[h]
    OBVIOUS
  <2>9. QED
    BY <1>1, <1>6, <1>7, <2>1, <2>5, <2>6, <2>7, <2>8, TokenStays
<1>9. Unused'
  <2>1. /\ \A y \in Items(workq') : y \in Items(workq)
        /\ \A y \in Items(ioq') : y \in Items(ioq) \/ y.h = Parent
    BY <1>2, <1>4, <1>5
  <2>2. QED
    BY <1>1, <2>1, UnusedKept DEF Unused
<1>10. Stopped'
  BY <1>1, <1>2, StoppedKept
<1>11. Faithful'
  BY <1>1, <1>2, <1>3, FaithfulKept DEF Active
<1>12. Alive'
  BY <1>4, <1>5 DEF Alive, ParentCloses
<1>13. QED
  BY <1>6, <1>8, <1>9, <1>10, <1>11, <1>12 DEF Inv

\* on_child.
LEMMA ParentEventKeeps ==
  ASSUME Inv, workq # <<>>, NEW x, x = Head(workq), x.h = Parent, x.cb = "event",
         x.ev \notin {"open", "read"} \/ child # 0,
         Active(Parent), ~opening, ParentEvent(x.ev), passive' \in {passive, passive \cup {Parent}},
         UNCHANGED <<setting, state, pend, parent, reading, reads, got, sent>>
  PROVE  Inv'
<1>1. Typed /\ Fits /\ FineTokens
  BY DEF Inv
<1>2. x \in WorkItem /\ x \in Items(workq) /\ Parent \in Handlers /\ child \in Handlers
  BY <1>1, ItemsOf, HandlerSets DEF Typed
<1>3. PICK on : on = CASE x.ev = "open" -> "client_open" [] x.ev = "read" -> "client_read"
                       [] x.ev = "write" -> "client_write" [] x.ev = "close" -> "client_close"
                       [] OTHER -> "notify"
  OBVIOUS
<1>4. PICK k \in Handlers : k = IF x.ev = "read" THEN child ELSE Parent
  BY <1>2
<1>5. PICK p : p = (x.ev = "close" \/ Parent \in passive)
  OBVIOUS
<1>6. PICK a \in Process(on, buf[k], buf[Parent]) : DoIo(a.do, p, [buf EXCEPT ![Parent] = a.out])
  BY <1>3, <1>4, <1>5 DEF ParentEvent
<1>7. /\ Room(Parent) \in Nat /\ Room(k) \in Nat /\ Fit(Room(Parent), buf[Parent]) /\ Fit(Room(k), buf[k])
      /\ buf \in [Handlers -> [bytes : Seq(Byte), begin : Nat]] /\ \A h \in Handlers : Fit(Room(h), buf[h])
  BY <1>1, <1>2, RoomNat DEF Fits
<1>8. /\ Fit(Room(Parent), a.out)
      /\ setting.biz \in {"echo", "proxy", "any"}
      /\ setting.biz = "echo" => (a.out = buf[Parent] /\ (on \notin {"open", "read", "write"} => a.do = "close"))
      /\ setting.biz = "proxy" =>
           /\ a.do # "write" => a.out = buf[Parent]
           /\ on = "client_open" => a.do = "read"
           /\ on = "client_read" => a.do = "close" \/ (a.do = "write" /\ Rest(a.out) = Rest(buf[k]))
           /\ on \notin {"open", "client_open", "read", "write", "client_read"} => a.do = "close"
  BY <1>1, <1>7, ProcessFine
<1>9. PICK c : c = [buf EXCEPT ![Parent] = a.out]
  OBVIOUS
<1>10. /\ c \in [Handlers -> [bytes : Seq(Byte), begin : Nat]]
       /\ \A g \in Handlers : Fit(Room(g), c[g])
       /\ c[Parent] = a.out
  <2>1. /\ [buf EXCEPT ![Parent] = a.out] \in [Handlers -> [bytes : Seq(Byte), begin : Nat]]
        /\ \A g \in Handlers : Fit(Room(g), [buf EXCEPT ![Parent] = a.out][g])
        /\ [buf EXCEPT ![Parent] = a.out][Parent] = a.out
    <3>1. Fit(Room(Parent), a.out) /\ buf \in [Handlers -> [bytes : Seq(Byte), begin : Nat]]
      BY <1>7, <1>8
    <3>2. \A g \in Handlers : Fit(Room(g), buf[g])
      BY <1>7
    <3>3. PICK d : d = a.out /\ d \in [bytes : Seq(Byte), begin : Nat] /\ Fit(Room(Parent), d)
      BY <3>1 DEF Fit
    <3>4. /\ [buf EXCEPT ![Parent] = d] \in [Handlers -> [bytes : Seq(Byte), begin : Nat]]
          /\ [buf EXCEPT ![Parent] = d][Parent] = d
          /\ \A g \in Handlers \ {Parent} : [buf EXCEPT ![Parent] = d][g] = buf[g]
      BY <1>2, <3>1, <3>3
    <3>5. \A g \in Handlers : Fit(Room(g), [buf EXCEPT ![Parent] = d][g])
      BY <3>2, <3>3, <3>4
    <3>6. QED
      BY <3>3, <3>4, <3>5
  <2>2. QED
    BY <1>9, <2>1
<1>11. DoIo(a.do, p, c)
  BY <1>6, <1>9
<1>12. on \notin {"open", "read", "write"}
  BY <1>3
<1>13. CASE x \in WorkToken
  <2>1. FineWork(x)
    BY <1>1, <1>2, <1>13 DEF FineTokens
  <2>2. Ready(a.do, c)
    <3> SUFFICES ASSUME ~Chooses PROVE
          /\ a.do \in {"read", "write", "client_open", "client_write_read", "close"}
          /\ a.do = "read" => Even /\ Rest(c[Parent]) = <<>>
          /\ a.do = "write" => Owed("parent", Rest(c[Parent]))
          /\ a.do = "client_open" => Even /\ Rest(c[Parent]) = <<>> /\ child = 0
          /\ a.do = "client_write_read" => setting.biz = "proxy" /\ Owed("child", Rest(c[Parent]))
      BY DEF Ready
    <3>1. CASE x.ev = "open" /\ setting.biz = "proxy"
      <4>1. a.do = "read" /\ c[Parent] = buf[Parent]
        BY <1>3, <1>8, <1>10, <3>1
      <4>2. Even /\ Rest(buf[Parent]) = <<>>
        BY <2>1, <3>1 DEF FineWork
      <4>3. QED
        BY <4>1, <4>2
    <3>2. CASE x.ev = "read" /\ setting.biz = "proxy"
      <4>1. a.do = "close" \/ (a.do = "write" /\ Rest(c[Parent]) = Rest(buf[child]))
        BY <1>3, <1>4, <1>8, <1>10, <3>2
      <4>2. Owed("parent", Rest(buf[child]))
        BY <2>1, <3>2 DEF FineWork
      <4>3. QED
        BY <4>1, <4>2
    <3>3. CASE x.ev \notin {"open", "read"} \/ setting.biz = "echo"
      BY <1>3, <1>8, <1>12, <3>3 DEF Chooses
    <3>4. QED
      BY <1>8, <3>1, <3>2, <3>3 DEF Chooses
  <2>3. QED
    BY <1>10, <1>11, <1>13, <2>2, DoIoKeeps
<1>14. CASE x \notin WorkToken
  <2>1. x.ev = "close" /\ ~Chooses
    BY <1>2, <1>14 DEF WorkToken
  <2>2. a.do = "close" /\ c = buf
    <3>1. a.do = "close" /\ a.out = buf[Parent]
      BY <1>3, <1>8, <2>1 DEF Chooses
    <3>2. QED
      BY <1>2, <1>7, <1>9, <3>1
  <2>3. /\ ioq' = Append(ioq, Io(Parent, "close_i", TRUE)) /\ workq' = Tail(workq) /\ buf' = buf
        /\ UNCHANGED <<opening, child>>
    BY <1>11, <2>2 DEF DoIo
  <2>4. QED
    BY <2>1, <2>3, CloseEventKeeps
<1>15. QED
  BY <1>13, <1>14

\* Every callback of the parent.
LEMMA ParentCallbackKeeps ==
  ASSUME Inv, workq # <<>>, ~opening, ParentCallback(Head(workq)),
         UNCHANGED <<setting, pend, reads, got, sent>>
  PROVE  Inv'
<1>1. PICK x : x = Head(workq)
  OBVIOUS
<1>2. x.h = Parent /\ x \in WorkItem /\ UNCHANGED <<parent, reading>>
  <2>1. Typed
    BY DEF Inv
  <2>2. QED
    BY <1>1, <2>1, ItemsOf DEF ParentCallback, Typed
<1>3. CASE /\ x.cb = "close" /\ ParentClose
           /\ state' = [state EXCEPT ![Parent] = "closed"]
           /\ UNCHANGED passive
  BY <1>1, <1>2, <1>3, ParentCloseKeeps
<1>4. CASE /\ x.cb # "close" /\ ~Active(Parent)
           /\ workq' = Tail(workq)
           /\ UNCHANGED <<state, ioq, opening, child, passive, buf>>
  BY <1>1, <1>2, <1>4, DropKeeps
<1>5. CASE /\ x.cb # "close" /\ Active(Parent)
           /\ x.cb # "event" \/ x.ev \notin {"open", "read"} \/ child # 0
           /\ IF x.cb = "event" THEN ParentEvent(x.ev) ELSE ParentData(x.cb, x.data)
           /\ passive' = IF x.ev = "close" THEN passive \cup {Parent} ELSE passive
           /\ UNCHANGED state
  <2>1. passive' \in {passive, passive \cup {Parent}}
    BY <1>5
  <2>2. CASE x.cb = "event"
    BY <1>1, <1>2, <1>5, <2>1, <2>2, ParentEventKeeps
  <2>3. CASE x.cb # "event"
    <3>1. x.cb \in {"open", "read", "write"}
      BY <1>2, <1>5, <2>3 DEF WorkItem
    <3>2. QED
      BY <1>1, <1>2, <1>5, <2>1, <2>3, <3>1, ParentDataKeeps
  <2>4. QED
    BY <2>2, <2>3
<1>6. QED
  BY <1>1, <1>3, <1>4, <1>5 DEF ParentCallback
-----------------------------------------------------------------------------
(* client::connect *)

\* client::connect.
LEMMA ConnectKeeps ==
  ASSUME Inv, ConnectChild, UNCHANGED <<setting, got, sent>>
  PROVE  Inv'
<1>1. /\ Typed /\ Fits /\ OneToken /\ FineTokens /\ Unused /\ Shut /\ Linked /\ Broken
      /\ Stopped /\ Faithful /\ Alive
  BY DEF Inv
<1>2. /\ opening /\ ~opening' /\ opening' \in BOOLEAN
      /\ UNCHANGED <<pend, workq, reading, reads, buf>>
  BY DEF ConnectChild
<1>3. Tokenless(workq, ioq) /\ NoOperation /\ NoOperation'
  BY <1>1, <1>2, NoOther DEF NoOperation
<1>4. workq \in Seq(WorkItem) /\ ioq \in Seq(IoItem) /\ Items(workq) \subseteq WorkItem
  BY <1>1, ItemsOf DEF Typed
<1>5. /\ Parent \in Handlers /\ Parent \notin Children /\ Children \subseteq Handlers
      /\ \A k \in Children : k # 0 /\ k \in 0..MaxChildren
  BY HandlerSets DEF Children
<1>6. ~Chooses => Even /\ Rest(buf[Parent]) = <<>>
  BY <1>1, <1>2 DEF FineTokens
<1>7. CASE ioq' = Append(ioq, Io(Parent, "close_i", TRUE)) /\ UNCHANGED <<state, child, passive, parent>>
  <2>1. PICK z \in IoItem : z = Io(Parent, "close_i", TRUE) /\ z.h = Parent /\ z.do = "close_i"
    <3>1. /\ Io(Parent, "close_i", TRUE) \in IoItem
          /\ Io(Parent, "close_i", TRUE).h = Parent /\ Io(Parent, "close_i", TRUE).do = "close_i"
      BY <1>5, IoItems
    <3>2. QED
      BY <3>1
  <2>2. ioq' = Append(ioq, z) /\ ioq' \in Seq(IoItem) /\ Items(ioq') = Items(ioq) \cup {z}
    <3>1. Append(ioq, z) \in Seq(IoItem) /\ Items(Append(ioq, z)) = Items(ioq) \cup {z}
      BY <1>4, ItemsOf
    <3>2. QED
      BY <1>7, <2>1, <3>1
  <2>3. Typed' /\ Fits' /\ Shut' /\ Linked' /\ Broken'
    BY <1>1, <1>2, <1>7, <2>2 DEF Typed, Fits, Fit, Room, Shut, Linked, Broken, Active
  <2>4. (\A y \in Items(workq) : y \notin WorkToken') /\ \A y \in Items(ioq) : y \notin IoToken'
    BY <1>3, <1>7, TokensKept DEF Tokenless
  <2>5. FineIo(z)'
    BY <2>1 DEF FineIo
  <2>6. OneToken' /\ FineTokens'
    BY <1>2, <1>3, <1>4, <2>2, <2>3, <2>4, <2>5, MovedToIo
  <2>7. Unused'
    BY <1>1, <1>2, <1>7, <2>1, <2>2, UnusedKept
  <2>8. Stopped' /\ Faithful'
    BY <1>1, <1>2, <1>7 DEF Stopped, Faithful, Active, Chooses
  <2>9. Alive'
    BY <2>1, <2>2 DEF Alive, ParentCloses
  <2>10. QED
    BY <2>3, <2>6, <2>7, <2>8, <2>9 DEF Inv
<1>8. ASSUME NEW k \in Children, state[k] = "unused", state' = [state EXCEPT ![k] = "active"],
             child' = IF Active(Parent) THEN k ELSE child,
             passive' = IF Active(Parent) THEN passive \ {k, Parent} ELSE passive \ {k},
             parent' = parent \cup {k}, ioq' = Append(ioq, Io(k, "connect_i", TRUE))
      PROVE  Inv'
  <2>1. PICK z \in IoItem : z = Io(k, "connect_i", TRUE) /\ z.h = k /\ z.do = "connect_i"
    <3>1. /\ Io(k, "connect_i", TRUE) \in IoItem
          /\ Io(k, "connect_i", TRUE).h = k /\ Io(k, "connect_i", TRUE).do = "connect_i"
      BY <1>5, IoItems
    <3>2. QED
      BY <3>1
  <2>2. ioq' = Append(ioq, z) /\ ioq' \in Seq(IoItem) /\ Items(ioq') = Items(ioq) \cup {z}
    <3>1. Append(ioq, z) \in Seq(IoItem) /\ Items(Append(ioq, z)) = Items(ioq) \cup {z}
      BY <1>4, ItemsOf
    <3>2. QED
      BY <1>8, <2>1, <3>1
  <2>3. /\ state' \in [Handlers -> {"unused", "active", "stopped", "closed"}]
        /\ state'[k] = "active" /\ \A h \in Handlers : h # k => state'[h] = state[h]
        /\ k \in Handlers /\ k # Parent /\ (Active(Parent)' <=> Active(Parent)) /\ Chooses' = Chooses
    BY <1>1, <1>5, <1>8 DEF Typed, Active, Chooses
  <2>4. child' \in 0..MaxChildren /\ passive' \subseteq passive
    BY <1>1, <1>5, <1>8 DEF Typed
  <2>5. Typed' /\ Fits'
    BY <1>1, <1>2, <1>8, <2>2, <2>3, <2>4 DEF Typed, Fits, Fit, Room
  <2>6. (\A y \in Items(workq) : y.h # k) /\ \A y \in Items(ioq) : y.h # k
    BY <1>1, <1>8 DEF Unused
  <2>7. (\A y \in Items(workq) : y \notin WorkToken') /\ \A y \in Items(ioq) : y \notin IoToken'
    <3>1. \A h \in passive \cap Children : h = k \/ h \in passive'
      BY <1>5, <1>8
    <3>2. \A h \in passive \cap Children :
            h \in passive' \/ ((\A y \in Items(workq) : y.h # h) /\ \A y \in Items(ioq) : y.h # h)
      BY <2>6, <3>1
    <3>3. Tokenless(workq, ioq) /\ setting' = setting
      BY <1>3
    <3>4. QED
      BY <3>2, <3>3, StillTokenless
  <2>8. FineIo(z)'
    <3>1. (~Chooses => Even /\ Rest(buf[Parent]) = <<>>)'
      BY <1>2, <1>6, BalanceKept
    <3>2. Active(Parent)' => child' = k
      BY <1>8, <2>3
    <3>3. QED
      BY <2>1, <2>3, <3>1, <3>2 DEF FineIo, FineOp
  <2>9. OneToken' /\ FineTokens'
    BY <1>2, <1>3, <1>4, <2>2, <2>5, <2>7, <2>8, MovedToIo
  <2>10. Unused'
    <3>1. setting.biz # "echo"
      BY <1>1, <1>2 DEF Unused
    <3>2. child' \in {child, 0} \/ (setting.biz # "echo" /\ state'[child'] # "unused")
      BY <1>8, <2>3, <3>1
    <3>3. (\A h \in Children : state'[h] = "unused" => state[h] = "unused") /\ state'[Parent] = state[Parent]
      BY <1>5, <2>3
    <3>4. (\A y \in Items(workq') : y \in Items(workq))
          /\ \A y \in Items(ioq') : y \in Items(ioq) \/ state'[y.h] # "unused"
      BY <1>2, <2>1, <2>2, <2>3
    <3>5. QED
      BY <1>1, <3>1, <3>2, <3>3, <3>4, UnusedKept
  <2>11. Shut' /\ Linked' /\ Broken'
    <3>1. Shut'
      BY <1>3 DEF Shut, NoOperation
    <3>2. Linked'
      BY <1>1, <1>5, <1>8, <2>3 DEF Linked
    <3>3. Broken'
      BY <1>1, <1>5, <1>8, <2>3 DEF Broken, Active
    <3>4. QED
      BY <3>1, <3>2, <3>3
  <2>12. Stopped'
    <3>1. \A y \in Items(workq) : y.h \in Handlers /\ y.h # k
      BY <1>4, <2>6 DEF WorkItem
    <3>2. QED
      BY <1>1, <1>2, <2>3, <3>1, StoppedKept
  <2>13. Faithful'
    <3>1. \A y \in Items(workq) : y.cb # "open"
      BY <1>3, <1>4 DEF Tokenless, WorkToken
    <3>2. QED
      BY <1>1, <1>2, <2>3, <2>4, <3>1, FaithfulKept
  <2>14. Alive'
    <3>1. z \in IoToken' /\ z \in Items(ioq')
      BY <2>1, <2>2 DEF IoToken
    <3>2. Somewhere'
      BY <3>1 DEF Somewhere
    <3>3. ParentCloses => ParentCloses'
      BY <1>2, <2>2, ClosesKept
    <3>4. (\E h \in Children : state'[h] = "closed") => \E h \in Children : state[h] = "closed"
      BY <1>5, <2>3
    <3>5. QED
      BY <1>1, <2>3, <3>2, <3>3, <3>4 DEF Alive
  <2>15. QED
    BY <2>5, <2>9, <2>10, <2>11, <2>12, <2>13, <2>14 DEF Inv
<1>9. QED
  BY <1>7, <1>8 DEF ConnectChild
-----------------------------------------------------------------------------
(* The callbacks of a child *)

\* on_open, on_read and on_write of a child.
LEMMA ChildDataKeeps ==
  ASSUME Inv, workq # <<>>, NEW x, x = Head(workq), x.h \in Children, x.cb \in {"open", "read", "write"},
         Active(x.h), ~opening, ChildData(x.h, x.cb, x.data),
         UNCHANGED <<setting, state, pend, opening, child, reads, got, sent>>
  PROVE  Inv'
<1>1. /\ Typed /\ Fits /\ OneToken /\ FineTokens /\ Unused /\ Shut /\ Linked /\ Broken
      /\ Stopped /\ Faithful /\ Alive
  BY DEF Inv
<1> DEFINE wq == Tail(workq)
<1>2. /\ wq \in Seq(WorkItem) /\ Items(workq) = Items(wq) \cup {x} /\ x \in WorkItem
      /\ ioq \in Seq(IoItem)
  BY <1>1, ItemsOf DEF Typed
<1> HIDE DEF wq
<1>3. PICK k \in Children : k = x.h /\ k \in Handlers /\ k # Parent /\ k # 0 /\ Active(k) /\ Parent \in Handlers
  BY HandlerSets DEF Children
<1>4. x \in WorkToken /\ FineWork(x) /\ x.ev = "none"
  BY <1>1, <1>2 DEF WorkToken, FineTokens, WorkItem
<1>5. Tokenless(wq, ioq) /\ NoOperation /\ NoOperation'
  BY <1>1, <1>4, NoOther DEF NoOperation, wq
<1>6. /\ buf' \in [Handlers -> [bytes : Seq(Byte), begin : Nat]]
      /\ \A g \in Handlers : Fit(Room(g), buf'[g])
      /\ buf'[Parent] = buf[Parent]
      /\ x.cb \in {"open", "write"} => Rest(buf'[k]) = <<>> /\ B(Room(k))!Space(buf'[k]) = Room(k)
      /\ x.cb = "read" /\ Rest(buf[k]) = <<>> => Rest(buf'[k]) = x.data
  <2>1. PICK b : b = buf'
    OBVIOUS
  <2>2. b = CASE x.cb = "open" -> Clear(x.h, buf)
              [] x.cb = "read" -> AfterRead(x.h, x.data)
              [] OTHER -> AfterWrite(x.h, x.data)
    BY <2>1 DEF ChildData
  <2>3. /\ b \in [Handlers -> [bytes : Seq(Byte), begin : Nat]]
        /\ \A g \in Handlers : Fit(Room(g), b[g])
        /\ \A g \in Handlers \ {x.h} : b[g] = buf[g]
        /\ x.cb \in {"open", "write"} => Rest(b[x.h]) = <<>> /\ B(Room(x.h))!Space(b[x.h]) = Room(x.h)
        /\ x.cb = "read" /\ Rest(buf[x.h]) = <<>> => Rest(b[x.h]) = x.data
    BY <1>1, <1>2, <1>4, <2>2, FilledBuffer
  <2>4. QED
    BY <1>3, <2>1, <2>3
<1>7. Active(Parent)' = Active(Parent) /\ Chooses' = Chooses /\ (Active(Parent) => child = k)
  BY <1>3, <1>4 DEF Active, Chooses, FineWork
<1>8. (\A y \in Items(wq) : y \notin WorkToken') /\ (\A y \in Items(ioq) : y \notin IoToken')
      /\ UNCHANGED <<parent, passive, reading>>
  <2>1. UNCHANGED <<parent, passive, reading>>
    BY DEF ChildData
  <2>2. QED
    BY <1>5, <2>1, TokensKept DEF Tokenless
<1>9. ASSUME workq' \in Seq(WorkItem), ioq' \in Seq(IoItem)
      PROVE  Typed' /\ Fits'
  BY <1>1, <1>6, <1>8, <1>9 DEF Typed, Fits, Room
<1>10. ASSUME Typed', Fits', OneToken', FineTokens', Somewhere',
              Items(wq) \subseteq Items(workq'), Items(ioq) \subseteq Items(ioq'),
              \A y \in Items(workq') : y \in Items(wq) \/ (y.h = Parent /\ y.cb = "event"),
              \A y \in Items(ioq') : y \in Items(ioq) \/ y.h = k
       PROVE  Inv'
  <2>1. Unused'
    <3>1. state[k] # "unused"
      BY <1>3 DEF Active
    <3>2. (\A y \in Items(workq') : y \in Items(workq) \/ y.h = Parent)
      BY <1>2, <1>10
    <3>3. \A y \in Items(ioq') : y \in Items(ioq) \/ state[y.h] # "unused"
      BY <1>10, <3>1
    <3>4. QED
      BY <1>1, <3>2, <3>3, UnusedKept DEF Unused
  <2>2. Shut' /\ Linked' /\ Broken'
    BY <1>1, <1>8 DEF Shut, Linked, Broken, Active
  <2>3. Stopped'
    <3>1. \A y \in Items(workq) : y.cb = "close" => y \in Items(workq')
      BY <1>2, <1>10
    <3>2. \A y \in Items(workq') : y.cb = "close" => y \in Items(workq)
      BY <1>2, <1>10
    <3>3. QED
      BY <1>1, <3>1, <3>2, StoppedKept
  <2>4. Faithful'
    <3>1. \A y \in Items(workq') : y \in Items(workq) \/ (y.h = Parent /\ y.cb # "open")
      BY <1>2, <1>10
    <3>2. QED
      BY <1>1, <1>7, <1>8, <3>1, FaithfulKept
  <2>5. Alive'
    <3>1. ParentCloses => ParentCloses'
      <4>1. \A y \in Items(workq) : y.ev = "close" => y \in Items(workq')
        BY <1>2, <1>4, <1>10
      <4>2. QED
        BY <1>10, <4>1, ClosesKept
    <3>2. QED
      BY <1>1, <1>7, <1>10, <3>1 DEF Alive
  <2>6. QED
    BY <1>10, <2>1, <2>2, <2>3, <2>4, <2>5 DEF Inv
<1>11. CASE x.cb = "write" /\ k \in reading
  <2>1. PICK z \in IoItem : z = AsyncReadSome(k, buf') /\ z.h = k /\ z.do = "read_i"
    <3>1. /\ Io(k, "read_i", TRUE) \in IoItem
          /\ Io(k, "read_i", TRUE).h = k /\ Io(k, "read_i", TRUE).do = "read_i"
      BY <1>3, IoItems
    <3>2. Room(k) # 0
      BY <1>1, <1>3, RelayAssumption DEF Typed, Room
    <3>3. AsyncReadSome(k, buf') = Io(k, "read_i", TRUE)
      BY <1>6, <1>11, <3>2 DEF AsyncReadSome
    <3>4. QED
      BY <3>1, <3>3
  <2>2. workq' = wq /\ ioq' = Append(ioq, z)
    BY <1>3, <1>11, <2>1 DEF ChildData, wq
  <2>3. ioq' \in Seq(IoItem) /\ Items(ioq') = Items(ioq) \cup {z}
    <3>1. Append(ioq, z) \in Seq(IoItem) /\ Items(Append(ioq, z)) = Items(ioq) \cup {z}
      BY <1>2, ItemsOf
    <3>2. QED
      BY <2>2, <3>1
  <2>4. Typed' /\ Fits'
    BY <1>2, <1>9, <2>2, <2>3
  <2>5. FineIo(z)'
    <3>1. ~Chooses' => Even' /\ Rest(buf'[k]) = <<>>
      BY <1>4, <1>6, <1>7, <1>11, BalanceKept DEF FineWork
    <3>2. Active(Parent)' => child' = k
      BY <1>7
    <3>3. QED
      BY <2>1, <3>1, <3>2 DEF FineIo, FineOp
  <2>6. OneToken' /\ FineTokens'
    BY <1>2, <1>5, <1>8, <2>2, <2>4, <2>5, MovedToIo
  <2>7. Somewhere'
    <3>1. z \in IoToken' /\ z \in Items(ioq')
      BY <2>1, <2>3 DEF IoToken
    <3>2. QED
      BY <3>1 DEF Somewhere
  <2>8. QED
    BY <1>10, <2>1, <2>2, <2>3, <2>4, <2>6, <2>7
<1>12. CASE ~(x.cb = "write" /\ k \in reading)
  <2>1. PICK z \in WorkItem : z = Event(Parent, x.cb) /\ z.h = Parent /\ z.cb = "event" /\ z.ev = x.cb
    BY <1>3, EventItem DEF Events
  <2>2. workq' = Append(wq, z) /\ ioq' = ioq
    BY <1>3, <1>12, <2>1 DEF ChildData, wq
  <2>3. workq' \in Seq(WorkItem) /\ Items(workq') = Items(wq) \cup {z}
    <3>1. Append(wq, z) \in Seq(WorkItem) /\ Items(Append(wq, z)) = Items(wq) \cup {z}
      BY <1>2, ItemsOf
    <3>2. QED
      BY <2>2, <3>1
  <2>4. Typed' /\ Fits'
    BY <1>2, <1>9, <2>2, <2>3
  <2>5. FineWork(z)'
    <3>1. Active(Parent)' => child' # 0 /\ child' = k
      BY <1>3, <1>7
    <3>2. (~Chooses => (z.ev = "open" => Even /\ Rest(buf[Parent]) = <<>>))'
      BY <1>3, <1>4, <1>6, <1>7, <2>1, BalanceKept DEF FineWork
    <3>3. (~Chooses => (z.ev = "read" /\ Active(Parent) => Owed("parent", Rest(buf[child]))))'
      <4>1. ASSUME ~Chooses, z.ev = "read", Active(Parent)
            PROVE  Owed("parent", x.data)' /\ Rest(buf'[child']) = x.data
        <5>1. Owed(Lane(k), x.data) /\ Rest(buf[k]) = <<>>
          BY <1>3, <1>4, <2>1, <4>1 DEF FineWork
        <5>2. Lane(k) = "parent"
          BY <1>3 DEF Lane
        <5>3. QED
          BY <1>6, <1>7, <2>1, <3>1, <4>1, <5>1, <5>2, BalanceKept
      <4>2. QED
        BY <1>7, <4>1
    <3>4. QED
      BY <2>1, <3>1, <3>2, <3>3 DEF FineWork
  <2>6. OneToken' /\ FineTokens'
    BY <1>2, <1>5, <1>8, <2>2, <2>4, <2>5, MovedToWork
  <2>7. Somewhere'
    <3>1. z \in WorkToken' /\ z \in Items(workq')
      BY <2>1, <2>3 DEF WorkToken
    <3>2. QED
      BY <3>1 DEF Somewhere
  <2>8. QED
    BY <1>10, <2>1, <2>2, <2>3, <2>4, <2>6, <2>7
<1>13. QED
  BY <1>11, <1>12

\* on_parent.
LEMMA ChildEventKeeps ==
  ASSUME Inv, workq # <<>>, NEW x, x = Head(workq), x.h \in Children, x.cb = "event",
         Active(x.h), ~opening, ChildEvent(x.h, x.ev),
         UNCHANGED <<setting, state, pend, opening, child, reads, got, sent>>
  PROVE  Inv'
<1>1. /\ Typed /\ Fits /\ OneToken /\ FineTokens /\ Unused /\ Shut /\ Linked /\ Broken
      /\ Stopped /\ Faithful /\ Alive
  BY DEF Inv
<1>2. /\ workq' \in Seq(WorkItem) /\ Items(workq) = Items(workq') \cup {x} /\ x \in WorkItem
      /\ ioq \in Seq(IoItem) /\ workq' = Tail(workq) /\ UNCHANGED <<parent, buf>>
  BY <1>1, ItemsOf DEF Typed, ChildEvent
<1>3. PICK k \in Children : k = x.h /\ k \in Handlers /\ k # Parent /\ k # 0 /\ Active(k)
  BY HandlerSets DEF Children
<1>4. /\ passive' = IF x.ev = "close" THEN passive \cup {k} ELSE passive
      /\ passive' \subseteq Handlers /\ reading' \subseteq Children
      /\ passive \cap Children \subseteq passive'
  BY <1>1, <1>3 DEF ChildEvent, Typed
<1>5. /\ Active(Parent)' = Active(Parent) /\ Chooses' = Chooses
      /\ (WorkToken' \subseteq WorkToken) /\ (IoToken' \subseteq IoToken)
  BY <1>4, TokensKept DEF Active, Chooses
<1>6. PICK z \in IoItem : /\ ioq' = Append(ioq, z) /\ z.h = k
                          /\ x.ev = "close" => z.do = "close_i"
                          /\ x.ev = "read" => z.do \in {"close_i", "read_i"}
                          /\ x.ev \notin {"close", "read"} => z.do = "write_i" /\ z.data = Rest(buf[k])
  <2>1. CASE x.ev = "close"
    <3>1. ioq' = Append(ioq, Io(k, "close_i", TRUE))
      BY <1>3, <2>1 DEF ChildEvent
    <3>2. /\ Io(k, "close_i", TRUE) \in IoItem
          /\ Io(k, "close_i", TRUE).h = k /\ Io(k, "close_i", TRUE).do = "close_i"
      BY <1>3, IoItems
    <3>3. QED
      BY <2>1, <3>1, <3>2
  <2>2. CASE x.ev = "read"
    <3>1. ioq' = Append(ioq, Io(k, IF B(Room(k))!Space(buf[k]) = 0 THEN "close_i" ELSE "read_i", TRUE))
      BY <1>3, <2>2 DEF ChildEvent, AsyncReadSome
    <3>2. PICK do \in {"close_i", "read_i"} : ioq' = Append(ioq, Io(k, do, TRUE))
      BY <3>1
    <3>3. Io(k, do, TRUE) \in IoItem /\ Io(k, do, TRUE).h = k /\ Io(k, do, TRUE).do = do
      <4>1. /\ Io(k, "close_i", TRUE) \in IoItem /\ Io(k, "close_i", TRUE).h = k
            /\ Io(k, "close_i", TRUE).do = "close_i"
            /\ Io(k, "read_i", TRUE) \in IoItem /\ Io(k, "read_i", TRUE).h = k
            /\ Io(k, "read_i", TRUE).do = "read_i"
        BY <1>3, IoItems
      <4>2. QED
        BY <4>1
    <3>4. QED
      BY <2>2, <3>2, <3>3
  <2>3. CASE x.ev \notin {"close", "read"}
    <3>1. Unread(k, buf) = Rest(buf[k]) /\ Rest(buf[k]) \in Seq(Byte)
      <4>1. Room(k) \in Nat /\ Fit(Room(k), buf[k])
        BY <1>1, <1>3, RoomNat DEF Fits
      <4>2. QED
        BY <4>1, SizesOfRest DEF Unread
    <3>2. ioq' = Append(ioq, IoData(k, "write_i", TRUE, Rest(buf[k])))
      BY <1>3, <2>3, <3>1 DEF ChildEvent, AsyncWrite
    <3>3. /\ IoData(k, "write_i", TRUE, Rest(buf[k])) \in IoItem
          /\ IoData(k, "write_i", TRUE, Rest(buf[k])).h = k
          /\ IoData(k, "write_i", TRUE, Rest(buf[k])).do = "write_i"
          /\ IoData(k, "write_i", TRUE, Rest(buf[k])).data = Rest(buf[k])
      BY <1>3, <3>1, WriteItem
    <3>4. QED
      BY <2>3, <3>2, <3>3
  <2>4. QED
    BY <2>1, <2>2, <2>3
<1> ioq' = Append(ioq, z)
  BY <1>6, Zenon
<1>61. /\ z.h = k
       /\ x.ev = "close" => z.do = "close_i"
       /\ x.ev = "read" => z.do \in {"close_i", "read_i"}
       /\ x.ev \notin {"close", "read"} => z.do = "write_i" /\ z.data = Rest(buf[k])
  BY <1>6, Zenon
<1>7. ioq' \in Seq(IoItem) /\ Items(ioq') = Items(ioq) \cup {z}
  <2>1. Append(ioq, z) \in Seq(IoItem) /\ Items(Append(ioq, z)) = Items(ioq) \cup {z}
    BY <1>2, ItemsOf
  <2>2. QED
    BY <2>1
<1>8. Typed' /\ Fits' /\ Shut' /\ Linked' /\ Broken'
  BY <1>1, <1>2, <1>4, <1>7 DEF Typed, Fits, Fit, Room, Shut, Linked, Broken, Active
<1>9. Unused'
  <2>1. state[k] # "unused"
    BY <1>3 DEF Active
  <2>2. (\A y \in Items(workq') : y \in Items(workq))
        /\ \A y \in Items(ioq') : y \in Items(ioq) \/ state[y.h] # "unused"
    BY <1>2, <1>61, <1>7, <2>1
  <2>3. QED
    BY <1>1, <2>2, UnusedKept DEF Unused
<1>10. Stopped'
  BY <1>1, <1>2, StoppedKept
<1>11. Active(Parent) /\ ~Chooses => x.ev # "close"
  BY <1>1, <1>2, <1>3 DEF Faithful
<1>12. Faithful'
  BY <1>1, <1>2, <1>4, <1>5, <1>11, FaithfulKept
<1>13. ParentCloses => ParentCloses'
  BY <1>2, <1>3, <1>7 DEF ParentCloses
<1>14. CASE x.ev = "close"
  <2>1. OneToken' /\ FineTokens'
    <3>1. Number(workq', WorkToken') <= Number(workq, WorkToken)
      BY <1>1, <1>2, <1>5, FewerOfTail DEF Typed
    <3>2. z \notin IoToken'
      BY <1>4, <1>61, <1>14 DEF IoToken
    <3>3. Number(ioq', IoToken') = Number(ioq, IoToken')
      <4>1. Number(Append(ioq, z), IoToken') = Number(ioq, IoToken') + (IF z \in IoToken' THEN 1 ELSE 0)
        BY <1>2, NumberAppend
      <4>2. Number(ioq, IoToken') \in Nat
        BY <1>2, NumberType
      <4>3. Number(Append(ioq, z), IoToken') = Number(ioq, IoToken')
        BY <3>2, <4>1, <4>2
      <4>4. QED
        BY <4>3
    <3>4. Number(ioq, IoToken') <= Number(ioq, IoToken)
      BY <1>2, <1>5, FewerKinds
    <3>5. Number(ioq', IoToken') <= Number(ioq, IoToken)
      BY <3>3, <3>4
    <3>6. (\A y \in Items(workq') : y \in WorkToken' => y \in Items(workq))
           /\ \A y \in Items(ioq') : y \in IoToken' => y \in Items(ioq)
      BY <1>2, <1>7, <3>2
    <3>7. /\ UNCHANGED <<setting, buf, got, sent>> /\ (Active(Parent)' => Active(Parent) /\ child' = child)
          /\ (opening' => opening) /\ \A h \in Handlers : pend'[h] \subseteq pend[h]
      BY <1>2, <1>5
    <3>8. QED
      BY <1>1, <1>5, <1>8, <3>1, <3>5, <3>6, <3>7, TokenStays
  <2>2. Alive'
    BY <1>5, <1>11, <1>14 DEF Alive
  <2>3. QED
    BY <1>8, <1>9, <1>10, <1>12, <2>1, <2>2 DEF Inv
<1>15. CASE x.ev # "close"
  <2>1. x \in WorkToken /\ FineWork(x)
    BY <1>1, <1>2, <1>15 DEF WorkToken, FineTokens
  <2>2. Tokenless(workq', ioq) /\ NoOperation /\ NoOperation'
    BY <1>1, <1>2, <2>1, NoOther DEF NoOperation
  <2>3. (\A y \in Items(workq') : y \notin WorkToken') /\ (\A y \in Items(ioq) : y \notin IoToken')
    BY <1>5, <2>2 DEF Tokenless
  <2>4. ~Chooses => x.ev = "write_read" /\ Owed("child", Rest(buf[k]))
    BY <1>3, <2>1 DEF FineWork
  <2>5. FineIo(z)'
    <3>1. Active(Parent)' => child' = k
      BY <1>3, <1>5, <2>1 DEF FineWork
    <3>2. z.do = "write_i" => z.data = Rest(buf[k])'
      BY <1>2, <1>61, <1>15
    <3>3. (~Chooses)' => z.do = "write_i" /\ Owed("child", z.data)'
      BY <1>5, <1>61, <2>4, BalanceKept
    <3>4. z.do \in {"close_i", "read_i", "write_i"} /\ z.h = k /\ k # Parent /\ WriterOf(k) = "child"
      BY <1>3, <1>61, <1>15 DEF WriterOf
    <3>5. QED
      BY <3>1, <3>2, <3>3, <3>4 DEF FineIo, FineOp
  <2>6. OneToken' /\ FineTokens'
    <3>1. PICK v \in Seq(WorkItem) : v = workq'
      BY <1>2
    <3>2. QED
      BY <1>2, <1>61, <1>8, <2>2, <2>3, <2>5, <3>1, MovedToIo
  <2>7. Alive'
    <3>1. ~Chooses => z \in IoToken' /\ z \in Items(ioq')
      BY <1>61, <1>7, <2>4 DEF IoToken
    <3>2. ~Chooses => Somewhere'
      BY <3>1 DEF Somewhere
    <3>3. QED
      BY <1>1, <1>5, <1>13, <3>2 DEF Alive
  <2>8. QED
    BY <1>8, <1>9, <1>10, <1>12, <2>6, <2>7 DEF Inv
<1>16. QED
  BY <1>14, <1>15

\* on_close of a child.
LEMMA ChildCloseKeeps ==
  ASSUME Inv, workq # <<>>, NEW x, x = Head(workq), x.h \in Children, x.cb = "close",
         ~opening, ChildClose(x.h), state' = [state EXCEPT ![x.h] = "closed"],
         UNCHANGED <<setting, pend, opening, child, reads, got, sent>>
  PROVE  Inv'
<1>1. /\ Typed /\ Fits /\ OneToken /\ FineTokens /\ Unused /\ Shut /\ Linked /\ Broken
      /\ Stopped /\ Faithful /\ Alive
  BY DEF Inv
<1> DEFINE wq == Tail(workq)
<1>2. /\ wq \in Seq(WorkItem) /\ Items(workq) = Items(wq) \cup {x} /\ x \in WorkItem
      /\ ioq \in Seq(IoItem) /\ UNCHANGED <<ioq, passive, reading, buf>>
  BY <1>1, ItemsOf DEF Typed, ChildClose
<1>3. PICK k \in Children : k = x.h /\ k \in Handlers /\ k # Parent /\ k # 0
  BY HandlerSets DEF Children
<1>4. /\ state' \in [Handlers -> {"unused", "active", "stopped", "closed"}] /\ parent' = parent \ {k}
      /\ state'[k] = "closed" /\ \A h \in Handlers : h # k => state'[h] = state[h]
  BY <1>1, <1>3 DEF Typed, ChildClose
<1>5. state[k] \in {"stopped", "closed"} /\ setting.biz # "echo"
  BY <1>1, <1>2, <1>3 DEF Stopped, Unused
<1>6. /\ (WorkToken' = WorkToken) /\ (IoToken' = IoToken) /\ Chooses' = Chooses
      /\ Active(Parent)' = Active(Parent) /\ Parent \in Handlers
  BY <1>2, <1>3, <1>4, HandlerSets DEF WorkToken, IoToken, Chooses, Active
<1> DEFINE tells == k \in parent /\ k \notin passive
<1>7. PICK z \in WorkItem : z = Event(Parent, "close") /\ z.h = Parent /\ z.cb = "event" /\ z.ev = "close"
  BY <1>6, EventItem DEF Events
<1>8. workq' = IF tells THEN Append(wq, z) ELSE wq
  BY <1>2, <1>3, <1>7 DEF ChildClose
<1> HIDE DEF wq
<1>9. /\ workq' \in Seq(WorkItem) /\ Items(wq) \subseteq Items(workq')
      /\ \A y \in Items(workq') : y \in Items(wq) \/ y = z
      /\ tells => z \in Items(workq')
  <2>1. Append(wq, z) \in Seq(WorkItem) /\ Items(Append(wq, z)) = Items(wq) \cup {z}
    BY <1>2, ItemsOf
  <2>2. QED
    BY <1>2, <1>8, <2>1
<1>10. Typed' /\ Fits'
  BY <1>1, <1>2, <1>4, <1>9 DEF Typed, Fits, Fit, Room
<1>11. Unused'
  <2>1. /\ \A h \in Children : state'[h] = "unused" => state[h] = "unused"
        /\ state'[Parent] = state[Parent]
    BY <1>3, <1>4, <1>6, HandlerSets
  <2>2. \A y \in Items(workq') : y \in Items(workq) \/ y.h = Parent
    BY <1>2, <1>7, <1>9
  <2>3. QED
    BY <1>1, <1>2, <1>5, <2>1, <2>2, UnusedKept
<1>12. Shut' /\ Linked' /\ Broken'
  <2>1. Shut'
    BY <1>1, <1>3, <1>4, <1>5 DEF Shut, Active
  <2>2. Linked'
    BY <1>1, <1>3, <1>4, HandlerSets DEF Linked
  <2>3. Broken'
    BY <1>1, <1>3, <1>4, <1>6 DEF Broken
  <2>4. QED
    BY <2>1, <2>2, <2>3
<1>13. Stopped'
  <2>1. \A y \in Items(workq) : y.cb = "close" => y \in Items(workq') \/ state'[y.h] # "stopped"
    BY <1>2, <1>3, <1>4, <1>9
  <2>2. \A h \in Handlers : state'[h] = "stopped" => state[h] = "stopped"
    BY <1>4
  <2>3. \A y \in Items(workq) : state[y.h] \in {"stopped", "closed"} => state'[y.h] \in {"stopped", "closed"}
    <3>1. \A y \in Items(workq) : y.h \in Handlers
      BY <1>1, ItemsOf DEF Typed, WorkItem
    <3>2. QED
      BY <1>4, <3>1
  <2>4. \A y \in Items(workq') : y.cb = "close" => y \in Items(workq)
    BY <1>2, <1>7, <1>9
  <2>5. QED
    BY <1>1, <2>1, <2>2, <2>3, <2>4, StoppedKept
<1>14. Faithful'
  <2>1. \A y \in Items(workq') : y \in Items(workq) \/ (y.h = Parent /\ y.cb # "open")
    BY <1>2, <1>7, <1>9
  <2>2. QED
    BY <1>1, <1>2, <1>6, <2>1, FaithfulKept
<1>15. Alive'
  <2> SUFFICES ASSUME Active(Parent), ~Chooses PROVE ParentCloses'
    BY <1>6 DEF Alive
  <2>1. CASE state[k] = "stopped"
    <3>1. tells
      BY <1>1, <1>3, <2>1 DEF Linked, Faithful
    <3>2. QED
      BY <1>7, <1>9, <3>1 DEF ParentCloses
  <2>2. CASE state[k] = "closed"
    <3>1. ParentCloses
      BY <1>1, <1>3, <2>2 DEF Alive
    <3>2. \A y \in Items(workq) : y.ev = "close" => y \in Items(workq')
      BY <1>2, <1>9 DEF WorkItem
    <3>3. QED
      BY <1>2, <3>1, <3>2, ClosesKept
  <2>3. QED
    BY <1>5, <2>1, <2>2
<1>16. CASE Chooses /\ tells
  <2>1. x \in WorkToken
    BY <1>2, <1>3, <1>16 DEF WorkToken
  <2>2. Tokenless(wq, ioq) /\ NoOperation /\ NoOperation'
    BY <1>1, <1>2, <2>1, NoOther DEF NoOperation, wq
  <2>3. FineWork(z)'
    BY <1>6, <1>7, <1>16 DEF FineWork
  <2>4. workq' = Append(wq, z) /\ (\A y \in Items(wq) : y \notin WorkToken') /\ \A y \in Items(ioq) : y \notin IoToken'
    BY <1>6, <1>8, <1>16, <2>2 DEF Tokenless
  <2>5. OneToken' /\ FineTokens'
    BY <1>2, <1>10, <2>2, <2>3, <2>4, MovedToWork
  <2>6. QED
    BY <1>10, <1>11, <1>12, <1>13, <1>14, <1>15, <2>5 DEF Inv
<1>17. CASE ~(Chooses /\ tells)
  <2>1. Number(wq, WorkToken) <= Number(workq, WorkToken) /\ Number(wq, WorkToken) \in Nat
    BY <1>1, FewerOfTail DEF Typed, wq
  <2>2. tells => z \notin WorkToken
    BY <1>7, <1>17 DEF WorkToken
  <2>3. Number(workq', WorkToken') <= Number(workq, WorkToken)
    <3>1. tells => Number(Append(wq, z), WorkToken) = Number(wq, WorkToken)
      <4>1. Number(Append(wq, z), WorkToken) = Number(wq, WorkToken) + (IF z \in WorkToken THEN 1 ELSE 0)
        BY <1>2, NumberAppend
      <4>2. QED
        BY <2>1, <2>2, <4>1
    <3>2. QED
      BY <1>6, <1>8, <2>1, <3>1
  <2>4. Number(ioq', IoToken') <= Number(ioq, IoToken)
    BY <1>2, <1>6, FewerKinds
  <2>5. (\A y \in Items(workq') : y \in WorkToken' => y \in Items(workq))
         /\ \A y \in Items(ioq') : y \in IoToken' => y \in Items(ioq)
    <3>1. \A y \in Items(workq') : y \in Items(wq) \/ (y = z /\ tells)
      <4>1. ~tells => Items(workq') = Items(wq)
        BY <1>8
      <4>2. QED
        BY <1>9, <4>1
    <3>2. QED
      BY <1>2, <1>6, <2>2, <3>1
  <2>6. /\ UNCHANGED <<setting, buf, got, sent>> /\ (Active(Parent)' => Active(Parent) /\ child' = child)
        /\ (opening' => opening) /\ \A h \in Handlers : pend'[h] \subseteq pend[h]
    BY <1>2, <1>6
  <2>7. OneToken' /\ FineTokens'
    BY <1>1, <1>6, <1>10, <2>3, <2>4, <2>5, <2>6, TokenStays
  <2>8. QED
    BY <1>10, <1>11, <1>12, <1>13, <1>14, <1>15, <2>7 DEF Inv
<1>18. QED
  BY <1>16, <1>17

\* Every callback of a child.
LEMMA ChildCallbackKeeps ==
  ASSUME Inv, workq # <<>>, ~opening, ChildCallback(Head(workq)),
         UNCHANGED <<setting, pend, reads, got, sent>>
  PROVE  Inv'
<1>1. PICK x : x = Head(workq)
  OBVIOUS
<1>2. x.h \in Children /\ x \in WorkItem /\ UNCHANGED <<opening, child>>
  <2>1. Typed
    BY DEF Inv
  <2>2. QED
    BY <1>1, <2>1, ItemsOf DEF ChildCallback, Typed
<1>3. CASE /\ x.cb = "close" /\ ChildClose(x.h)
           /\ state' = [state EXCEPT ![x.h] = "closed"]
  BY <1>1, <1>2, <1>3, ChildCloseKeeps
<1>4. CASE /\ x.cb # "close" /\ ~Active(x.h)
           /\ workq' = Tail(workq)
           /\ UNCHANGED <<state, ioq, parent, passive, reading, buf>>
  BY <1>1, <1>2, <1>4, DropKeeps
<1>5. CASE /\ x.cb # "close" /\ Active(x.h)
           /\ IF x.cb = "event" THEN ChildEvent(x.h, x.ev) ELSE ChildData(x.h, x.cb, x.data)
           /\ UNCHANGED state
  <2>1. CASE x.cb = "event"
    BY <1>1, <1>2, <1>5, <2>1, ChildEventKeeps
  <2>2. CASE x.cb # "event"
    <3>1. x.cb \in {"open", "read", "write"}
      BY <1>2, <1>5, <2>2 DEF WorkItem
    <3>2. QED
      BY <1>1, <1>2, <1>5, <2>2, <3>1, ChildDataKeeps
  <2>3. QED
    BY <2>1, <2>2
<1>6. QED
  BY <1>1, <1>3, <1>4, <1>5 DEF ChildCallback

\* The steps of the work thread.
LEMMA WorkThreadKeeps ==
  ASSUME Inv, WorkThread
  PROVE  Inv'
BY ConnectKeeps, ParentCallbackKeeps, ChildCallbackKeeps DEF WorkThread
-----------------------------------------------------------------------------
(* The io thread *)

\* A handler that is stopped does nothing.
LEMMA IoDropKeeps ==
  ASSUME Inv, ioq # <<>>, NEW y, y = Head(ioq), ~Active(y.h), ioq' = Tail(ioq),
         UNCHANGED <<setting, state, pend, workq, opening, child, parent, passive, reading, reads, buf, got, sent>>
  PROVE  Inv'
<1>1. /\ Typed /\ Fits /\ OneToken /\ FineTokens /\ Unused /\ Shut /\ Linked /\ Broken
      /\ Stopped /\ Faithful /\ Alive
  BY DEF Inv
<1>2. /\ ioq' \in Seq(IoItem) /\ Items(ioq) = Items(ioq') \cup {y} /\ y \in IoItem
      /\ workq \in Seq(WorkItem)
  BY <1>1, ItemsOf DEF Typed
<1>3. Typed' /\ Fits' /\ Shut' /\ Linked' /\ Broken' /\ Stopped'
  BY <1>1, <1>2 DEF Typed, Fits, Fit, Room, Shut, Linked, Broken, Stopped, Active
<1>4. /\ (WorkToken' = WorkToken) /\ (IoToken' = IoToken)
      /\ (Active(Parent)' <=> Active(Parent)) /\ Chooses' = Chooses
  BY DEF WorkToken, IoToken, Chooses, Active
<1>5. OneToken' /\ FineTokens'
  <2>1. Number(ioq', IoToken') <= Number(ioq, IoToken)
    BY <1>1, <1>4, FewerOfTail DEF Typed
  <2>2. Number(workq', WorkToken') <= Number(workq, WorkToken)
    BY <1>2, <1>4, FewerKinds
  <2>3. QED
    BY <1>1, <1>2, <1>3, <1>4, <2>1, <2>2, TokenStays
<1>6. Unused'
  BY <1>1, <1>2, UnusedKept DEF Unused
<1>7. Faithful'
  BY <1>1, <1>4 DEF Faithful
<1>8. Alive'
  <2> SUFFICES ASSUME Active(Parent), ~Chooses
               PROVE  /\ (ParentCloses \/ Somewhere \/ \E k \in Children : state[k] = "stopped")'
                      /\ (\E k \in Children : state[k] = "closed") => ParentCloses'
    BY <1>4 DEF Alive
  <2>1. y.h \in Children /\ state[y.h] \in {"stopped", "closed"}
    <3>1. y.h \in Handlers /\ y.h # Parent
      BY <1>2 DEF IoItem
    <3>2. y.h \in Children /\ y \in Items(ioq)
      BY <1>2, <3>1, HandlerSets
    <3>3. state[y.h] # "unused"
      BY <1>1, <3>2 DEF Unused
    <3>4. QED
      BY <1>1, <3>1, <3>2, <3>3, HandlerSets DEF Typed, Active
  <2>2. ParentCloses => ParentCloses'
    BY <1>2, <2>1, HandlerSets DEF ParentCloses
  <2>3. (\E k \in Children : state[k] = "closed") => ParentCloses'
    BY <1>1, <2>2 DEF Alive
  <2>4. QED
    BY <2>1, <2>3
<1>9. QED
  BY <1>1, <1>3, <1>5, <1>6, <1>7, <1>8 DEF Inv

\* close_i stops a handler and drops its operations.
LEMMA IoCloseKeeps ==
  ASSUME Inv, ioq # <<>>, NEW y, y = Head(ioq), Active(y.h), ioq' = Tail(ioq), CloseI(y.h),
         UNCHANGED <<setting, opening, child, parent, passive, reading, reads, buf, got, sent>>
  PROVE  Inv'
<1>1. /\ Typed /\ Fits /\ OneToken /\ FineTokens /\ Unused /\ Shut /\ Linked /\ Broken
      /\ Stopped /\ Faithful /\ Alive
  BY DEF Inv
<1>2. /\ ioq' \in Seq(IoItem) /\ Items(ioq) = Items(ioq') \cup {y} /\ y \in IoItem
      /\ workq \in Seq(WorkItem)
  BY <1>1, ItemsOf DEF Typed
<1>3. PICK h \in Handlers : h = y.h /\ Active(h) /\ (h # Parent => h \in Children)
  BY <1>2, HandlerSets DEF IoItem
<1>4. PICK z \in WorkItem : /\ z = Callback(h, "close", <<>>)
                            /\ z.h = h /\ z.cb = "close" /\ z.ev = "none"
  <2>1. <<>> \in Seq(Byte)
    BY EmptySeq
  <2>2. /\ Callback(h, "close", <<>>) \in WorkItem
        /\ Callback(h, "close", <<>>).h = h /\ Callback(h, "close", <<>>).cb = "close"
        /\ Callback(h, "close", <<>>).ev = "none"
    BY <1>3, <2>1 DEF Callback, WorkItem
  <2>3. QED
    BY <2>2
<1>5. /\ state' = [state EXCEPT ![h] = "stopped"] /\ pend' = [pend EXCEPT ![h] = {}]
      /\ workq' = Append(workq, z)
  BY <1>3, <1>4 DEF CloseI
<1>6. workq' \in Seq(WorkItem) /\ Items(workq') = Items(workq) \cup {z}
  <2>1. Append(workq, z) \in Seq(WorkItem) /\ Items(Append(workq, z)) = Items(workq) \cup {z}
    BY <1>2, ItemsOf
  <2>2. QED
    BY <1>5, <2>1
<1>7. /\ state' \in [Handlers -> {"unused", "active", "stopped", "closed"}]
      /\ state'[h] = "stopped" /\ \A g \in Handlers : g # h => state'[g] = state[g]
      /\ pend' \in [Handlers -> SUBSET PendItem]
      /\ pend'[h] = {} /\ \A g \in Handlers : g # h => pend'[g] = pend[g]
  BY <1>1, <1>5 DEF Typed
<1>8. /\ (WorkToken' = WorkToken) /\ (IoToken' = IoToken) /\ Chooses' = Chooses
      /\ Parent \in Handlers /\ (Active(Parent)' => Active(Parent) /\ h # Parent)
  BY <1>7, HandlerSets DEF WorkToken, IoToken, Chooses, Active
<1>9. Typed' /\ Fits'
  BY <1>1, <1>2, <1>6, <1>7 DEF Typed, Fits, Fit, Room
<1>10. Unused'
  <2>1. (\A k \in Children : state'[k] = "unused" => state[k] = "unused") /\ state'[Parent] # "unused"
    BY <1>1, <1>7, <1>8, HandlerSets DEF Unused
  <2>2. \A x \in Items(workq') : x \in Items(workq) \/ state'[x.h] # "unused"
    BY <1>4, <1>6, <1>7
  <2>3. setting.biz = "echo" => ~opening' /\ \A k \in Children : state'[k] = state[k]
    <3>1. setting.biz = "echo" => h = Parent /\ ~opening
      BY <1>1, <1>3 DEF Unused, Active
    <3>2. QED
      BY <1>7, <3>1, HandlerSets
  <2>4. QED
    BY <1>1, <1>2, <2>1, <2>2, <2>3, UnusedKept
<1>11. Shut' /\ Linked' /\ Broken'
  <2>1. Shut'
    BY <1>1, <1>7 DEF Shut, Active
  <2>2. Linked'
    BY <1>1, <1>3, <1>7, HandlerSets DEF Linked, Active
  <2>3. Broken'
    BY <1>1, <1>7, <1>8 DEF Broken
  <2>4. QED
    BY <2>1, <2>2, <2>3
<1>12. Stopped'
  <2>1. \A x \in Items(workq) : state[x.h] \in {"stopped", "closed"} => state'[x.h] \in {"stopped", "closed"}
    <3>1. \A x \in Items(workq) : x.h \in Handlers
      BY <1>1, ItemsOf DEF Typed, WorkItem
    <3>2. QED
      BY <1>3, <1>7, <3>1 DEF Active
  <2>2. \A g \in Handlers : state'[g] = "stopped" =>
          state[g] = "stopped" \/ \E x \in Items(workq') : x.h = g /\ x.cb = "close"
    BY <1>4, <1>6, <1>7
  <2>3. \A x \in Items(workq') : x.cb = "close" => x \in Items(workq) \/ state'[x.h] \in {"stopped", "closed"}
    BY <1>4, <1>6, <1>7
  <2>4. Items(workq) \subseteq Items(workq')
    BY <1>6
  <2>5. QED
    BY <1>1, <2>1, <2>2, <2>3, <2>4, StoppedKept
<1>13. Faithful'
  <2>1. \A x \in Items(workq') : x \in Items(workq) \/ (x.ev = "none" /\ x.cb = "close")
    BY <1>4, <1>6
  <2>2. QED
    BY <1>1, <1>8, <2>1, FaithfulKept
<1>14. Alive'
  <2> SUFFICES ASSUME Active(Parent)', ~Chooses
               PROVE  /\ \E k \in Children : state'[k] = "stopped"
                      /\ (\E k \in Children : state'[k] = "closed") => ParentCloses'
    BY <1>8 DEF Alive
  <2>1. h \in Children /\ h # Parent /\ Active(Parent)
    BY <1>3, <1>8
  <2>2. ParentCloses => ParentCloses'
    BY <1>2, <1>3, <1>6, <2>1 DEF ParentCloses
  <2>3. (\E k \in Children : state'[k] = "closed") => \E k \in Children : state[k] = "closed"
    BY <1>7, HandlerSets
  <2>4. QED
    BY <1>1, <1>7, <2>1, <2>2, <2>3 DEF Alive
<1>15. CASE y \in IoToken
  <2>1. Tokenless(workq, ioq') /\ ~opening /\ NoOperation
    BY <1>1, <1>15, NoOther
  <2>2. NoOperation'
    BY <1>7, <2>1 DEF NoOperation
  <2>3. (\A x \in Items(workq) : x \notin WorkToken') /\ \A x \in Items(ioq') : x \notin IoToken'
    BY <1>8, <2>1 DEF Tokenless
  <2>4. FineWork(z)'
    <3>1. y.h # Parent /\ Active(Parent) => child = y.h
      BY <1>1, <1>2, <1>15 DEF FineTokens, FineIo
    <3>2. QED
      BY <1>3, <1>4, <1>8, <3>1 DEF FineWork
  <2>5. OneToken' /\ FineTokens'
    <3>1. PICK q \in Seq(IoItem) : q = ioq'
      BY <1>2
    <3>2. QED
      BY <1>2, <1>5, <1>9, <2>1, <2>2, <2>3, <2>4, <3>1, MovedToWork
  <2>6. QED
    BY <1>9, <1>10, <1>11, <1>12, <1>13, <1>14, <2>5 DEF Inv
<1>16. CASE y \notin IoToken
  <2>1. z \notin WorkToken
    BY <1>2, <1>3, <1>4, <1>16 DEF IoToken, WorkToken
  <2>2. Number(workq', WorkToken') = Number(workq, WorkToken)
    <3>1. Number(Append(workq, z), WorkToken) = Number(workq, WorkToken) + (IF z \in WorkToken THEN 1 ELSE 0)
      BY <1>2, NumberAppend
    <3>2. Number(workq, WorkToken) \in Nat
      BY <1>2, NumberType
    <3>3. Number(Append(workq, z), WorkToken) = Number(workq, WorkToken)
      BY <2>1, <3>1, <3>2
    <3>4. QED
      BY <1>5, <1>8, <3>3
  <2>3. Number(workq', WorkToken') <= Number(workq, WorkToken)
    <3>1. Number(workq, WorkToken) \in Nat
      BY <1>2, NumberType
    <3>2. QED
      BY <2>2, <3>1
  <2>4. Number(ioq', IoToken') <= Number(ioq, IoToken)
    BY <1>1, <1>8, FewerOfTail DEF Typed
  <2>5. (\A x \in Items(workq') : x \in WorkToken' => x \in Items(workq))
         /\ \A x \in Items(ioq') : x \in IoToken' => x \in Items(ioq)
    BY <1>2, <1>6, <1>8, <2>1
  <2>6. \A g \in Handlers : pend'[g] \subseteq pend[g]
    BY <1>7
  <2>7. /\ UNCHANGED <<setting, buf, got, sent>> /\ (Active(Parent)' => Active(Parent) /\ child' = child)
        /\ (opening' => opening)
    BY <1>8
  <2>8. OneToken' /\ FineTokens'
    BY <1>1, <1>8, <1>9, <2>3, <2>4, <2>5, <2>6, <2>7, TokenStays
  <2>9. QED
    BY <1>9, <1>10, <1>11, <1>12, <1>13, <1>14, <2>8 DEF Inv
<1>17. QED
  BY <1>15, <1>16

\* The token becomes an operation.
LEMMA StartKeeps ==
  ASSUME Inv, ioq # <<>>, NEW y, y = Head(ioq), Active(y.h), ioq' = Tail(ioq),
         NEW op, \/ y.do = "connect_i" /\ op = "connect"
                 \/ y.do = "read_i" /\ op = "read"
                 \/ y.do = "write_i" /\ op = "write",
         pend' = [pend EXCEPT ![y.h] = @ \cup {[op |-> op, data |-> y.data]}],
         UNCHANGED <<setting, state, workq, opening, child, parent, passive, reading, reads, buf, got, sent>>
  PROVE  Inv'
<1>1. /\ Typed /\ Fits /\ OneToken /\ FineTokens /\ Unused /\ Shut /\ Linked /\ Broken
      /\ Stopped /\ Faithful /\ Alive
  BY DEF Inv
<1>2. /\ ioq' \in Seq(IoItem) /\ Items(ioq) = Items(ioq') \cup {y} /\ y \in IoItem
      /\ workq \in Seq(WorkItem)
  BY <1>1, ItemsOf DEF Typed
<1>3. PICK h \in Handlers : h = y.h /\ Active(h)
  BY <1>2 DEF IoItem
<1>4. PICK d \in PendItem : d = [op |-> op, data |-> y.data] /\ d.op = op /\ d.data = y.data
  <2>1. op \in Ops /\ y.data \in Seq(Byte)
    BY <1>2 DEF IoItem, Ops
  <2>2. [op |-> op, data |-> y.data] \in PendItem
    BY <2>1 DEF PendItem
  <2>3. QED
    BY <2>2
<1>5. y \in IoToken /\ FineIo(y)
  BY <1>1, <1>2 DEF IoToken, FineTokens
<1>6. Tokenless(workq, ioq') /\ ~opening /\ NoOperation
  BY <1>1, <1>5, NoOther
<1>7. /\ pend' \in [Handlers -> SUBSET PendItem]
      /\ pend'[h] = {d} /\ \A g \in Handlers \ {h} : pend'[g] = {}
  <2>1. pend' = [pend EXCEPT ![h] = pend[h] \cup {d}]
    BY <1>3, <1>4
  <2>2. pend[h] \cup {d} = {d} /\ (\A g \in Handlers : pend[g] = {}) /\ pend \in [Handlers -> SUBSET PendItem]
    BY <1>1, <1>6 DEF Typed, NoOperation
  <2>3. pend' = [pend EXCEPT ![h] = {d}]
    BY <2>1, <2>2
  <2>4. QED
    BY <2>2, <2>3
<1>8. /\ (WorkToken' = WorkToken) /\ (IoToken' = IoToken)
      /\ (Active(Parent)' <=> Active(Parent)) /\ Chooses' = Chooses
  BY DEF WorkToken, IoToken, Chooses, Active
<1>9. Typed' /\ Fits' /\ Linked' /\ Broken' /\ Stopped' /\ Faithful'
  BY <1>1, <1>2, <1>7, <1>8 DEF Typed, Fits, Fit, Room, Linked, Broken, Stopped, Faithful
<1>10. Shut'
  BY <1>3, <1>7 DEF Shut, Active
<1>11. Unused'
  BY <1>1, <1>2, UnusedKept DEF Unused
<1>12. OneToken' /\ FineTokens'
  <2>1. FineOp(h, op, y.data)
    BY <1>3, <1>5 DEF FineIo
  <2>2. FineOp(h, op, y.data)'
    BY <1>8, <2>1, BalanceKept DEF FineOp
  <2>3. FineOp(h, d.op, d.data)'
    BY <1>4, <2>2
  <2>4. (\A x \in Items(workq) : x \notin WorkToken') /\ \A x \in Items(ioq') : x \notin IoToken'
    BY <1>6, <1>8 DEF Tokenless
  <2>5. PICK q \in Seq(IoItem) : q = ioq'
    BY <1>2
  <2>6. ~opening' /\ \E g \in Handlers : \E x \in PendItem :
              /\ pend'[g] = {x} /\ \A f \in Handlers \ {g} : pend'[f] = {}
              /\ FineOp(g, x.op, x.data)'
    BY <1>6, <1>7, <2>3
  <2>7. QED
    BY <1>2, <1>9, <2>4, <2>5, <2>6, MovedAway
<1>13. Alive'
  <2>1. Somewhere'
    BY <1>7 DEF Somewhere
  <2>2. ParentCloses => ParentCloses'
    BY <1>2 DEF ParentCloses
  <2>3. QED
    BY <1>1, <1>8, <2>1, <2>2 DEF Alive
<1>14. QED
  BY <1>9, <1>10, <1>11, <1>12, <1>13 DEF Inv

\* An operation that went well calls back.
LEMMA HandleKeeps ==
  ASSUME Inv, ioq # <<>>, NEW y, y = Head(ioq), y.do \in Ops, y.ok, Active(y.h), ioq' = Tail(ioq),
         workq' = Append(workq, Callback(y.h, IF y.do = "connect" THEN "open" ELSE y.do, y.data)),
         UNCHANGED <<setting, state, pend, opening, child, parent, passive, reading, reads, buf, got, sent>>
  PROVE  Inv'
<1>1. /\ Typed /\ Fits /\ OneToken /\ FineTokens /\ Unused /\ Shut /\ Linked /\ Broken
      /\ Stopped /\ Faithful /\ Alive
  BY DEF Inv
<1>2. /\ ioq' \in Seq(IoItem) /\ Items(ioq) = Items(ioq') \cup {y} /\ y \in IoItem
      /\ workq \in Seq(WorkItem)
  BY <1>1, ItemsOf DEF Typed
<1>3. y.h \in Handlers /\ y.data \in Seq(Byte)
  BY <1>2 DEF IoItem
<1>4. PICK cb \in {"open", "read", "write", "close"} : cb = IF y.do = "connect" THEN "open" ELSE y.do
  BY DEF Ops
<1>5. PICK z \in WorkItem : /\ z = Callback(y.h, cb, y.data)
                            /\ z.h = y.h /\ z.cb = cb /\ z.ev = "none" /\ z.data = y.data
  <2>1. /\ Callback(y.h, cb, y.data) \in WorkItem
        /\ Callback(y.h, cb, y.data).h = y.h /\ Callback(y.h, cb, y.data).cb = cb
        /\ Callback(y.h, cb, y.data).ev = "none" /\ Callback(y.h, cb, y.data).data = y.data
    BY <1>3, CallbackItem
  <2>2. QED
    BY <2>1
<1>6. workq' = Append(workq, z) /\ workq' \in Seq(WorkItem) /\ Items(workq') = Items(workq) \cup {z}
  <2>1. workq' = Append(workq, z)
    BY <1>4, <1>5
  <2>2. Append(workq, z) \in Seq(WorkItem) /\ Items(Append(workq, z)) = Items(workq) \cup {z}
    BY <1>2, ItemsOf
  <2>3. QED
    BY <2>1, <2>2
<1>7. y \in IoToken /\ FineIo(y)
  BY <1>1, <1>2 DEF IoToken, FineTokens, Ops
<1>8. Tokenless(workq, ioq') /\ ~opening /\ NoOperation /\ NoOperation'
  BY <1>1, <1>7, NoOther DEF NoOperation
<1>9. /\ (WorkToken' = WorkToken) /\ (IoToken' = IoToken)
      /\ (Active(Parent)' <=> Active(Parent)) /\ Chooses' = Chooses
  BY DEF WorkToken, IoToken, Chooses, Active
<1>10. Typed' /\ Fits' /\ Shut' /\ Linked' /\ Broken'
  BY <1>1, <1>2, <1>6 DEF Typed, Fits, Fit, Room, Shut, Linked, Broken, Active
<1>11. z.cb \in {"open", "read", "write"} /\ (z.cb = "open" => y.do = "connect" /\ z.h # Parent)
  BY <1>4, <1>5, <1>7 DEF Ops, FineIo, FineOp
<1>12. FineWork(z)'
  <2>1. z.h # Parent /\ Active(Parent) => child = z.h
    BY <1>5, <1>7 DEF FineIo
  <2>2. z.cb = "open" /\ ~Chooses => Even /\ Rest(buf[Parent]) = <<>>
    BY <1>5, <1>7, <1>11 DEF FineIo, FineOp
  <2>3. z.cb = "read" => /\ Holds(z.h, z.data)
                         /\ ~Chooses => Owed(Lane(z.h), z.data) /\ Rest(buf[z.h]) = <<>>
    BY <1>4, <1>5, <1>7 DEF FineIo
  <2>4. z.cb = "write" => z.data = Rest(buf[z.h]) /\ (~Chooses => Even)
    BY <1>4, <1>5, <1>7 DEF FineIo
  <2>5. FineWork(z)
    BY <1>5, <1>11, <2>1, <2>2, <2>3, <2>4 DEF FineWork
  <2>6. /\ (Holds(z.h, z.data) <=> Holds(z.h, z.data)') /\ Lane(z.h)' = Lane(z.h)
    BY DEF Holds, Room, Lane
  <2>7. (z.cb = "read" => Holds(z.h, z.data))' /\ (z.cb = "write" => z.data = Rest(buf[z.h]))'
    BY <2>3, <2>4, <2>6
  <2>8. (~Chooses =>
     /\ z.cb = "open" => Even /\ (z.h # Parent => Rest(buf[Parent]) = <<>>)
     /\ z.cb = "read" => Owed(Lane(z.h), z.data) /\ Rest(buf[z.h]) = <<>>
     /\ z.cb = "write" => Even)'
    BY <1>9, <2>2, <2>3, <2>4, <2>6, BalanceKept
  <2>9. QED
    BY <1>5, <1>9, <1>11, <2>1, <2>7, <2>8 DEF FineWork
<1>13. OneToken' /\ FineTokens'
  <2>1. PICK q \in Seq(IoItem) : q = ioq'
    BY <1>2
  <2>2. (\A x \in Items(workq) : x \notin WorkToken') /\ \A x \in Items(q) : x \notin IoToken'
    BY <1>8, <1>9, <2>1 DEF Tokenless
  <2>3. QED
    BY <1>2, <1>6, <1>8, <1>10, <1>12, <2>1, <2>2, MovedToWork
<1>14. Unused'
  <2>1. state[z.h] # "unused"
    BY <1>5 DEF Active
  <2>2. \A x \in Items(workq') : x \in Items(workq) \/ state[x.h] # "unused"
    BY <1>6, <2>1
  <2>3. QED
    BY <1>1, <1>2, <2>2, UnusedKept DEF Unused
<1>15. Stopped'
  <2>1. \A x \in Items(workq') : x.cb = "close" => x \in Items(workq)
    BY <1>6, <1>11
  <2>2. QED
    BY <1>1, <1>6, <2>1, StoppedKept
<1>16. Faithful'
  <2>1. \A x \in Items(workq') : x \in Items(workq) \/ (x.ev = "none" /\ ~(x.h = Parent /\ x.cb = "open"))
    BY <1>5, <1>6, <1>11
  <2>2. QED
    BY <1>1, <1>9, <2>1, FaithfulKept
<1>17. Alive'
  <2>1. z \in WorkToken' /\ z \in Items(workq')
    BY <1>6, <1>11 DEF WorkToken
  <2>2. Somewhere'
    BY <2>1 DEF Somewhere
  <2>3. ParentCloses => ParentCloses'
    BY <1>2, <1>6 DEF ParentCloses, Ops
  <2>4. QED
    BY <1>1, <1>9, <2>2, <2>3 DEF Alive
<1>18. QED
  BY <1>10, <1>13, <1>14, <1>15, <1>16, <1>17 DEF Inv

\* The steps of the io thread.
LEMMA IoThreadKeeps ==
  ASSUME Inv, IoThread
  PROVE  Inv'
<1>1. PICK y : y = Head(ioq)
  OBVIOUS
<1>2. /\ ioq # <<>> /\ ioq' = Tail(ioq)
      /\ UNCHANGED <<setting, opening, child, parent, passive, reading, reads, buf, got, sent>>
  BY DEF IoThread
<1>3. ASSUME UNCHANGED <<state, pend, workq>>, ~Active(y.h) PROVE Inv'
  BY <1>1, <1>2, <1>3, IoDropKeeps
<1>4. ASSUME CloseI(y.h) PROVE Inv'
  <2>1. CASE Active(y.h)
    BY <1>1, <1>2, <1>4, <2>1, IoCloseKeeps
  <2>2. CASE ~Active(y.h)
    BY <1>3, <1>4, <2>2 DEF CloseI
  <2>3. QED
    BY <2>1, <2>2
<1>5. ASSUME NEW op, \/ y.do = "connect_i" /\ op = "connect"
                     \/ y.do = "read_i" /\ op = "read"
                     \/ y.do = "write_i" /\ op = "write",
             Start(y.h, op, y.data)
      PROVE  Inv'
  <2>1. CASE /\ Active(y.h)
             /\ pend' = [pend EXCEPT ![y.h] = @ \cup {[op |-> op, data |-> y.data]}]
             /\ UNCHANGED <<state, workq>>
    BY <1>1, <1>2, <1>5, <2>1, StartKeeps
  <2>2. QED
    BY <1>3, <1>4, <1>5, <2>1 DEF Start
<1>6. ASSUME y.do \in Ops, Handle(y.h, y.do, y.ok, y.data) PROVE Inv'
  <2>1. CASE y.ok /\ Active(y.h)
    BY <1>1, <1>2, <1>6, <2>1, HandleKeeps DEF Handle
  <2>2. CASE ~(y.ok /\ Active(y.h))
    BY <1>4, <1>6, <2>2 DEF Handle
  <2>3. QED
    BY <2>1, <2>2
<1>7. QED
  BY <1>1, <1>4, <1>5, <1>6 DEF IoThread
-----------------------------------------------------------------------------
(* The peers and the clock *)

\* An operation is done: it becomes an item of the io thread.
LEMMA OperationDone ==
  ASSUME Inv, NEW h \in Handlers, NEW x \in pend[h], pend' = [pend EXCEPT ![h] = @ \ {x}],
         NEW z \in IoItem, z.h = h, z.do \in Ops, ioq' = Append(ioq, z), FineIo(z)',
         reads' \in 0..setting.reads, got' \in [Peers -> Nat], sent' \in [{"parent", "child"} -> Nat],
         UNCHANGED <<setting, state, workq, opening, child, parent, passive, reading, buf>>
  PROVE  Inv'
<1>1. /\ Typed /\ Fits /\ OneToken /\ FineTokens /\ Unused /\ Shut /\ Linked /\ Broken
      /\ Stopped /\ Faithful /\ Alive
  BY DEF Inv
<1>2. workq \in Seq(WorkItem) /\ ioq \in Seq(IoItem) /\ ioq' \in Seq(IoItem) /\ Items(ioq') = Items(ioq) \cup {z}
  BY <1>1, ItemsOf DEF Typed
<1>3. /\ Tokenless(workq, ioq) /\ ~opening /\ pend[h] = {x}
      /\ \A g \in Handlers \ {h} : pend[g] = {}
  BY <1>1, NoOther
<1>4. NoOperation' /\ pend' \in [Handlers -> SUBSET PendItem]
  BY <1>1, <1>3 DEF Typed, NoOperation
<1>5. /\ (WorkToken' = WorkToken) /\ (IoToken' = IoToken)
      /\ (Active(Parent)' <=> Active(Parent)) /\ Chooses' = Chooses
  BY DEF WorkToken, IoToken, Chooses, Active
<1>6. Typed' /\ Fits' /\ Shut' /\ Linked' /\ Broken' /\ Stopped' /\ Faithful'
  <2>1. Typed' /\ Fits'
    BY <1>1, <1>2, <1>4 DEF Typed, Fits, Fit, Room
  <2>2. Shut' /\ Linked' /\ Broken' /\ Stopped' /\ Faithful'
    BY <1>1, <1>4, <1>5 DEF Shut, Linked, Broken, Stopped, Faithful, NoOperation
  <2>3. QED
    BY <2>1, <2>2
<1>7. OneToken' /\ FineTokens'
  <2>1. (\A y \in Items(workq) : y \notin WorkToken') /\ \A y \in Items(ioq) : y \notin IoToken'
    BY <1>3, <1>5 DEF Tokenless
  <2>2. QED
    BY <1>2, <1>3, <1>4, <1>6, <2>1, MovedToIo
<1>8. Unused'
  <2>1. state[h] # "unused"
    BY <1>1, <1>3 DEF Shut, Active
  <2>2. \A y \in Items(ioq') : y \in Items(ioq) \/ state[y.h] # "unused"
    BY <1>2, <2>1
  <2>3. QED
    BY <1>1, <2>2, UnusedKept DEF Unused
<1>9. Alive'
  <2>1. z \in IoToken' /\ z \in Items(ioq')
    BY <1>2 DEF IoToken, Ops
  <2>2. Somewhere'
    BY <2>1 DEF Somewhere
  <2>3. ParentCloses => ParentCloses'
    BY <1>2 DEF ParentCloses
  <2>4. QED
    BY <1>1, <1>5, <2>2, <2>3 DEF Alive
<1>10. QED
  BY <1>6, <1>7, <1>8, <1>9 DEF Inv

\* A peer or the network completes an operation.
LEMMA CompleteKeeps ==
  ASSUME Inv, NEW h \in Handlers, NEW op \in Ops, Complete(h, op)
  PROVE  Inv'
<1>1. Typed /\ Fits /\ FineTokens /\ Unused /\ Shut
  BY DEF Inv
<1>2. UNCHANGED <<setting, state, workq, opening, child, parent, passive, reading, buf>>
  BY DEF Complete
<1>3. PICK x \in pend[h] :
        /\ x.op = op
        /\ pend' = [pend EXCEPT ![h] = @ \ {x}]
        /\ \/ /\ ioq' = Append(ioq, Io(h, op, FALSE))
              /\ UNCHANGED <<reads, got, sent>>
           \/ /\ op = "connect"
              /\ ioq' = Append(ioq, Io(h, op, TRUE))
              /\ UNCHANGED <<reads, got, sent>>
           \/ /\ op = "read" /\ (h = Parent => reads < setting.reads)
              /\ \E n \in 1..B(Room(h))!Space(buf[h]) :
                   /\ ioq' = Append(ioq, IoData(h, op, TRUE, Stream(PeerOf(h), got[PeerOf(h)], n)))
                   /\ got' = [got EXCEPT ![PeerOf(h)] = @ + Count(n)]
              /\ reads' = IF h = Parent THEN reads + 1 ELSE reads
              /\ UNCHANGED sent
           \/ /\ op = "write"
              /\ ioq' = Append(ioq, IoData(h, op, TRUE, x.data))
              /\ sent' = [sent EXCEPT ![WriterOf(h)] = @ + Count(Len(x.data))]
              /\ UNCHANGED <<reads, got>>
  BY DEF Complete
<1>4. /\ x \in PendItem /\ x.data \in Seq(Byte) /\ Len(x.data) \in Nat
      /\ FineOp(h, op, x.data) /\ Active(h)
  BY <1>1, <1>3 DEF Typed, PendItem, FineTokens, Shut
<1>5. /\ (Active(Parent)' <=> Active(Parent)) /\ Chooses' = Chooses
      /\ (h # Parent /\ Active(Parent)' => child' = h)
      /\ setting.biz \in {"echo", "proxy", "any"} /\ setting.reads \in Nat
  BY <1>1, <1>2, <1>4, RelayAssumption DEF Active, Chooses, FineOp, Typed
<1>6. /\ reads \in 0..setting.reads /\ got \in [Peers -> Nat] /\ sent \in [{"parent", "child"} -> Nat]
      /\ PeerOf(h) \in Peers /\ WriterOf(h) \in {"parent", "child"}
  BY <1>1 DEF Typed, PeerOf, WriterOf, Peers
\* failed, or connected
<1>7. ASSUME NEW z \in IoItem, z.h = h, z.do = op, op = "connect" \/ ~z.ok,
             ioq' = Append(ioq, z), UNCHANGED <<reads, got, sent>>
      PROVE  Inv'
  <2>1. op = "connect" => FineOp(h, "connect", z.data)'
    BY <1>2, <1>4, <1>5, <1>7, BalanceKept DEF FineOp
  <2>2. FineIo(z)'
    BY <1>5, <1>7, <2>1 DEF FineIo, Ops
  <2>3. QED
    BY <1>2, <1>3, <1>6, <1>7, <2>2, OperationDone
<1>8. CASE ioq' = Append(ioq, Io(h, op, FALSE)) /\ UNCHANGED <<reads, got, sent>>
  <2>1. PICK z \in IoItem : z = Io(h, op, FALSE) /\ z.h = h /\ z.do = op /\ ~z.ok
    <3>1. /\ Io(h, op, FALSE) \in IoItem
          /\ Io(h, op, FALSE).h = h /\ Io(h, op, FALSE).do = op /\ ~Io(h, op, FALSE).ok
      BY IoIsItem
    <3>2. QED
      BY <3>1
  <2>2. QED
    BY <1>7, <1>8, <2>1
<1>9. CASE op = "connect" /\ ioq' = Append(ioq, Io(h, op, TRUE)) /\ UNCHANGED <<reads, got, sent>>
  <2>1. PICK z \in IoItem : z = Io(h, op, TRUE) /\ z.h = h /\ z.do = op
    <3>1. /\ Io(h, op, TRUE) \in IoItem
          /\ Io(h, op, TRUE).h = h /\ Io(h, op, TRUE).do = op
      BY IoIsItem
    <3>2. QED
      BY <3>1
  <2>2. QED
    BY <1>7, <1>9, <2>1
<1>10. ASSUME op = "read", h = Parent => reads < setting.reads,
              NEW n \in 1..B(Room(h))!Space(buf[h]),
              ioq' = Append(ioq, IoData(h, op, TRUE, Stream(PeerOf(h), got[PeerOf(h)], n))),
              got' = [got EXCEPT ![PeerOf(h)] = @ + Count(n)],
              reads' = IF h = Parent THEN reads + 1 ELSE reads, UNCHANGED sent
       PROVE  Inv'
  <2>1. PICK p \in Peers : p = PeerOf(h)
    BY <1>6
  <2>2. n \in Nat /\ Count(n) \in Nat /\ got[p] \in Nat /\ (~Chooses => Count(n) = n)
    <3>1. B(Room(h))!Space(buf[h]) \in Nat
      BY <1>1, RoomNat, SizesOfRest DEF Fits
    <3>2. n \in Nat
      BY <3>1
    <3>3. QED
      BY <1>6, <3>2 DEF Count, Chooses
  <2>3. PICK d \in Seq(Byte) : d = Stream(p, got[p], n) /\ Len(d) = n
    BY <2>2, StreamType
  <2>4. PICK z \in IoItem : z = IoData(h, "read", TRUE, d) /\ z.h = h /\ z.do = "read" /\ z.data = d
    <3>1. /\ IoData(h, "read", TRUE, d) \in IoItem
          /\ IoData(h, "read", TRUE, d).h = h /\ IoData(h, "read", TRUE, d).do = "read"
          /\ IoData(h, "read", TRUE, d).data = d
      BY DEF IoData, IoItem, Ops
    <3>2. QED
      BY <3>1
  <2>5. ioq' = Append(ioq, z) /\ got' = [got EXCEPT ![p] = got[p] + Count(n)]
    BY <1>10, <2>1, <2>3, <2>4
  <2>6. got' \in [Peers -> Nat] /\ got'[p] = got[p] + Count(n) /\ \A q \in Peers \ {p} : got'[q] = got[q]
    BY <1>6, <2>2, <2>5
  <2>7. reads' \in 0..setting.reads
    BY <1>5, <1>6, <1>10
  <2>8. Holds(h, d)'
    <3>1. B(Room(h))!Space(buf[h]) = Room(h) - Len(buf[h].bytes)
      BY DEF B!Space
    <3>2. Room(h) \in Nat /\ Len(buf[h].bytes) \in Nat
      BY <1>1, RoomNat, SizesOfRest DEF Fits
    <3>3. n <= Room(h) - Len(buf[h].bytes)
      BY <2>2, <3>1, <3>2
    <3>4. \A m, l, r \in Nat : m <= r - l => m + l <= r
      OBVIOUS
    <3>5. n + Len(buf[h].bytes) <= Room(h)
      BY <2>2, <3>2, <3>3, <3>4
    <3>6. QED
      BY <1>2, <2>3, <3>5 DEF Holds, Room
  <2>9. ~Chooses => Owed(Lane(h), d)' /\ Rest(buf[h]) = <<>> /\ Lane(h)' = Lane(h)
    <3> SUFFICES ASSUME ~Chooses PROVE Owed(Lane(h), d)' /\ Rest(buf[h]) = <<>> /\ Lane(h)' = Lane(h)
      OBVIOUS
    <3>1. Even /\ Rest(buf[h]) = <<>>
      BY <1>4, <1>10 DEF FineOp
    <3>2. Lanes' = Lanes /\ \A v : From(v)' = From(v)
      BY <1>2 DEF Lanes, From
    <3>3. /\ Lane(h) \in Lanes /\ From(Lane(h)) = p /\ Lane(h)' = Lane(h)
          /\ \A v \in Lanes \ {Lane(h)} : From(v) # p /\ From(v) \in Peers
      <4>1. setting.biz = "echo" => h = Parent
        BY <1>1, <1>4, HandlerSets DEF Unused, Active
      <4>2. CASE setting.biz = "echo"
        BY <1>2, <2>1, <4>1, <4>2 DEF Lanes, Lane, From, PeerOf, Peers
      <4>3. CASE setting.biz = "proxy"
        BY <1>2, <2>1, <4>3 DEF Lanes, Lane, From, PeerOf, Peers
      <4>4. QED
        BY <1>5, <4>2, <4>3 DEF Chooses
    <3>4. sent[Lane(h)] = got[p] /\ \A v \in Lanes \ {Lane(h)} : sent[v] = got[From(v)]
      BY <3>1, <3>3 DEF Even
    <3>5. d = Stream(p, sent[Lane(h)], Len(d)) /\ got'[p] = sent[Lane(h)] + Len(d)
      BY <2>2, <2>3, <2>6, <3>4
    <3>6. \A v \in Lanes \ {Lane(h)} : sent[v] = got'[From(v)]
      BY <2>6, <3>3, <3>4
    <3>7. \A m, l : Stream(p, m, l)' = Stream(p, m, l)
      BY <1>2 DEF Stream
    <3>8. PICK w : w = Lane(h)
      OBVIOUS
    <3>9. Owed(w, d)'
      BY <1>10, <3>2, <3>3, <3>5, <3>6, <3>7, <3>8 DEF Owed
    <3>10. QED
      BY <3>1, <3>3, <3>8, <3>9
  <2>10. FineIo(z)'
    BY <1>2, <1>5, <2>4, <2>8, <2>9 DEF FineIo
  <2>11. z.do \in Ops
    BY <2>4 DEF Ops
  <2>12. sent' \in [{"parent", "child"} -> Nat]
    BY <1>6, <1>10
  <2>13. QED
    BY <1>2, <1>3, <2>4, <2>5, <2>6, <2>7, <2>10, <2>11, <2>12, OperationDone
<1>11. CASE /\ op = "write"
            /\ ioq' = Append(ioq, IoData(h, op, TRUE, x.data))
            /\ sent' = [sent EXCEPT ![WriterOf(h)] = @ + Count(Len(x.data))]
            /\ UNCHANGED <<reads, got>>
  <2>1. PICK w \in {"parent", "child"} : w = WriterOf(h)
    BY <1>6
  <2>2. PICK m \in Nat : m = Count(Len(x.data)) /\ (~Chooses => m = Len(x.data))
    BY <1>4 DEF Count, Chooses
  <2>3. PICK z \in IoItem : z = IoData(h, "write", TRUE, x.data) /\ z.h = h /\ z.do = "write" /\ z.data = x.data
    <3>1. /\ IoData(h, "write", TRUE, x.data) \in IoItem
          /\ IoData(h, "write", TRUE, x.data).h = h /\ IoData(h, "write", TRUE, x.data).do = "write"
          /\ IoData(h, "write", TRUE, x.data).data = x.data
      BY <1>4 DEF IoData, IoItem, Ops
    <3>2. QED
      BY <3>1
  <2>4. ioq' = Append(ioq, z) /\ sent' = [sent EXCEPT ![w] = sent[w] + m]
    BY <1>11, <2>1, <2>2, <2>3
  <2>5. /\ sent' \in [{"parent", "child"} -> Nat] /\ sent'[w] = sent[w] + m
        /\ \A v \in {"parent", "child"} \ {w} : sent'[v] = sent[v]
    BY <1>6, <2>4
  <2>6. x.data = Rest(buf[h]) /\ (~Chooses => Owed(w, x.data))
    BY <1>4, <1>11, <2>1 DEF FineOp
  <2>7. ~Chooses => Even'
    <3> SUFFICES ASSUME ~Chooses PROVE Even'
      OBVIOUS
    <3>1. Lanes' = Lanes /\ (\A v : From(v)' = From(v)) /\ Lanes \subseteq {"parent", "child"} /\ got' = got
      BY <1>2, <1>11 DEF Lanes, From
    <3>2. got[From(w)] = sent'[w] /\ \A v \in Lanes \ {w} : sent[v] = got[From(v)]
      BY <2>2, <2>5, <2>6 DEF Owed
    <3>3. \A v \in Lanes : sent'[v] = got[From(v)]
      BY <2>5, <3>1, <3>2
    <3>4. QED
      BY <3>1, <3>3 DEF Even
  <2>8. FineIo(z)'
    BY <1>2, <1>5, <2>3, <2>6, <2>7 DEF FineIo
  <2>9. z.do \in Ops
    BY <2>3 DEF Ops
  <2>10. reads' \in 0..setting.reads /\ got' \in [Peers -> Nat]
    BY <1>6, <1>11
  <2>11. QED
    BY <1>2, <1>3, <2>3, <2>4, <2>5, <2>8, <2>9, <2>10, OperationDone
<1>12. QED
  BY <1>3, <1>8, <1>9, <1>10, <1>11

\* Where the business handler may answer anything the children have no timer.
LEMMA TimeoutKeeps ==
  ASSUME Inv, NEW h \in Handlers, Timeout(h), Chooses => setting.timed \subseteq {Parent}
  PROVE  Inv'
<1>1. /\ Typed /\ Fits /\ OneToken /\ FineTokens /\ Unused /\ Shut /\ Linked /\ Broken
      /\ Stopped /\ Faithful /\ Alive
  BY DEF Inv
<1>2. PICK z \in IoItem : z = Io(h, "close_i", FALSE) /\ z.h = h /\ z.do = "close_i"
  <2>1. /\ Io(h, "close_i", FALSE) \in IoItem
        /\ Io(h, "close_i", FALSE).h = h /\ Io(h, "close_i", FALSE).do = "close_i"
    BY IoItems
  <2>2. QED
    BY <2>1
<1>3. /\ h \in setting.timed /\ Active(h) /\ ioq' = Append(ioq, z)
      /\ UNCHANGED <<setting, state, pend, workq, opening, child, parent, passive, reading, reads,
                     buf, got, sent>>
  BY <1>2 DEF Timeout
<1>4. workq \in Seq(WorkItem) /\ ioq \in Seq(IoItem)
  BY <1>1 DEF Typed
<1>5. ioq' \in Seq(IoItem) /\ Items(ioq') = Items(ioq) \cup {z}
  <2>1. Append(ioq, z) \in Seq(IoItem) /\ Items(Append(ioq, z)) = Items(ioq) \cup {z}
    BY <1>4, ItemsOf
  <2>2. QED
    BY <1>3, <2>1
<1>6. /\ (WorkToken' = WorkToken) /\ (IoToken' = IoToken)
      /\ (Active(Parent)' <=> Active(Parent)) /\ Chooses' = Chooses
  BY <1>3 DEF WorkToken, IoToken, Chooses, Active
<1>7. Typed' /\ Fits' /\ Shut' /\ Linked' /\ Broken' /\ Stopped' /\ Faithful'
  <2>1. Typed' /\ Fits'
    BY <1>1, <1>3, <1>5 DEF Typed, Fits, Fit, Room
  <2>2. Shut' /\ Linked' /\ Broken' /\ Stopped' /\ Faithful'
    BY <1>1, <1>3, <1>6 DEF Shut, Linked, Broken, Stopped, Faithful, Active
  <2>3. QED
    BY <2>1, <2>2
<1>8. z \notin IoToken
  BY <1>2, <1>3 DEF IoToken
<1>9. OneToken' /\ FineTokens'
  <2>1. Number(ioq', IoToken') <= Number(ioq, IoToken)
    <3>1. Number(Append(ioq, z), IoToken) = Number(ioq, IoToken) + (IF z \in IoToken THEN 1 ELSE 0)
      BY <1>4, NumberAppend
    <3>2. Number(ioq, IoToken) \in Nat
      BY <1>4, NumberType
    <3>3. Number(Append(ioq, z), IoToken) <= Number(ioq, IoToken)
      BY <1>8, <3>1, <3>2
    <3>4. QED
      BY <1>3, <1>6, <3>3
  <2>2. Number(workq', WorkToken') <= Number(workq, WorkToken)
    <3>1. Number(workq, WorkToken) <= Number(workq, WorkToken)
      BY <1>4, FewerKinds
    <3>2. QED
      BY <1>3, <1>6, <3>1
  <2>3. (\A x \in Items(workq') : x \in WorkToken' => x \in Items(workq))
         /\ \A x \in Items(ioq') : x \in IoToken' => x \in Items(ioq)
    BY <1>3, <1>5, <1>6, <1>8
  <2>4. /\ UNCHANGED <<setting, buf, got, sent>> /\ (Active(Parent)' => Active(Parent) /\ child' = child)
        /\ (opening' => opening) /\ \A g \in Handlers : pend'[g] \subseteq pend[g]
    BY <1>3, <1>6
  <2>5. QED
    BY <1>1, <1>6, <1>7, <2>1, <2>2, <2>3, <2>4, TokenStays
<1>10. Unused'
  <2>1. \A x \in Items(ioq') : x \in Items(ioq) \/ state[x.h] # "unused"
    BY <1>2, <1>3, <1>5 DEF Active
  <2>2. QED
    BY <1>1, <1>3, <2>1, UnusedKept DEF Unused
<1>11. Alive'
  <2>1. (ParentCloses => ParentCloses') /\ (Somewhere => Somewhere')
    BY <1>3, <1>5, <1>6 DEF ParentCloses, Somewhere
  <2>2. QED
    BY <1>1, <1>3, <1>6, <2>1 DEF Alive
<1>12. QED
  BY <1>7, <1>9, <1>10, <1>11 DEF Inv
-----------------------------------------------------------------------------
(* The invariant holds *)

\* A connection that was just accepted.
LEMMA InitInv ==
  ASSUME Init
  PROVE  Inv
<1> DEFINE z == Callback(Parent, "open", <<>>)
<1>1. z \in WorkItem /\ z.h = Parent /\ z.cb = "open" /\ z.ev = "none" /\ z.data = <<>>
  <2>1. <<>> \in Seq(Byte)
    BY EmptySeq
  <2>2. QED
    BY <2>1, HandlerSets DEF Callback, WorkItem
<1>2. /\ setting \in Settings /\ pend = [h \in Handlers |-> {}] /\ ioq = <<>> /\ workq = <<z>>
      /\ opening = FALSE /\ child = 0 /\ parent = {} /\ passive = {} /\ reading = {} /\ reads = 0
      /\ state = [h \in Handlers |-> IF h = Parent THEN "active" ELSE "unused"]
      /\ buf = [h \in Handlers |-> B(Room(h))!Cleared]
      /\ got = [p \in Peers |-> 0] /\ sent = [w \in {"parent", "child"} |-> 0]
  BY DEF Init
<1> HIDE DEF z
<1>3. workq = Append(<<>>, z) /\ <<>> \in Seq(WorkItem) /\ <<>> \in Seq(IoItem)
  BY <1>2, EmptySeq
<1>4. workq \in Seq(WorkItem) /\ Items(workq) = {z} /\ Items(ioq) = {}
  <2>1. Items(<<>>) = {}
    BY <1>3, ItemsOf
  <2>2. Append(<<>>, z) \in Seq(WorkItem) /\ Items(Append(<<>>, z)) = Items(<<>>) \cup {z}
    BY <1>1, <1>3, ItemsOf
  <2>3. QED
    BY <1>2, <1>3, <2>1, <2>2
<1>5. Typed
  <2>1. setting.reads \in Nat
    BY <1>2, RelayAssumption
  <2>2. QED
    BY <1>2, <1>3, <1>4, <2>1, HandlerSets DEF Typed
<1>6. \A h \in Handlers : Fit(Room(h), buf[h]) /\ Rest(buf[h]) = <<>>
  <2>1. \A h \in Handlers : Room(h) \in Nat
    BY <1>5, RoomNat
  <2>2. \A h \in Handlers : buf[h] = B(Room(h))!Cleared
    BY <1>2
  <2>3. QED
    BY <2>1, <2>2, ClearedFits
<1>7. Fits
  <2>1. buf = [h \in Handlers |-> buf[h]]
    BY <1>2
  <2>2. \A h \in Handlers : buf[h] \in [bytes : Seq(Byte), begin : Nat]
    BY <1>6 DEF Fit
  <2>3. QED
    BY <1>6, <2>1, <2>2 DEF Fits
<1>8. Even
  BY <1>2 DEF Even, Lanes, From, Peers
<1>9. OneToken /\ FineTokens
  <2>1. Number(workq, WorkToken) <= 1
    <3>1. Number(<<>>, WorkToken) = 0
      <4>1. Items(<<>>) = {}
        BY <1>3, ItemsOf
      <4>2. QED
        BY <1>3, <4>1, NumberZero
    <3>2. Number(workq, WorkToken) = 0 + (IF z \in WorkToken THEN 1 ELSE 0)
      <4>1. z \in WorkItem /\ <<>> \in Seq(WorkItem)
        BY <1>1, <1>3
      <4>2. Number(Append(<<>>, z), WorkToken)
              = Number(<<>>, WorkToken) + (IF z \in WorkToken THEN 1 ELSE 0)
        BY ONLY <4>1, NumberAppend, Zenon
      <4>3. QED
        BY <1>3, <3>1, <4>2
    <3>3. QED
      BY <3>2
  <2>2. Number(ioq, IoToken) = 0
    <3>1. ioq \in Seq(IoItem)
      BY <1>2, <1>3
    <3>2. QED
      BY <1>4, <3>1, NumberZero
  <2>3. Number(workq, WorkToken) \in Nat
    BY <1>4, NumberType
  <2>4. OneToken
    BY <1>2, <2>1, <2>2, <2>3 DEF OneToken, Queued
  <2>5. FineWork(z)
    <3>1. z.h = Parent /\ z.cb = "open" /\ z.ev = "none"
      BY <1>1
    <3>2. QED
      BY <1>8, <3>1, HandlerSets DEF FineWork
  <2>6. FineTokens
    BY <1>2, <1>4, <2>5 DEF FineTokens
  <2>7. QED
    BY <2>4, <2>6
<1>10. Unused /\ Shut /\ Linked /\ Broken
  <2>1. \A k \in Children : k # Parent /\ k # 0 /\ k \in Handlers /\ state[k] = "unused"
    BY <1>2, HandlerSets
  <2>2. state[Parent] = "active"
    BY <1>2, HandlerSets
  <2>3. QED
    BY <1>1, <1>2, <1>4, <2>1, <2>2 DEF Unused, Shut, Linked, Broken
<1>11. Stopped /\ Faithful
  <2>1. \A h \in Handlers : state[h] # "stopped"
    BY <1>2
  <2>2. QED
    BY <1>1, <1>2, <1>4, <2>1 DEF Stopped, Faithful
<1>12. Alive
  <2>1. z \in WorkToken
    BY <1>1 DEF WorkToken
  <2>2. Somewhere
    BY <1>4, <2>1 DEF Somewhere
  <2>3. \A k \in Children : state[k] # "closed"
    BY <1>2, HandlerSets
  <2>4. QED
    BY <2>2, <2>3 DEF Alive
<1>13. QED
  BY <1>5, <1>7, <1>9, <1>10, <1>11, <1>12 DEF Inv

\* Nothing changes.
LEMMA StutterInv ==
  ASSUME Inv, UNCHANGED vars
  PROVE  Inv'
<1>1. UNCHANGED <<setting, state, pend, ioq, workq, opening, child, parent, passive, reading,
                  reads, buf, got, sent>>
  BY DEF vars
<1>2. /\ WorkToken' = WorkToken /\ IoToken' = IoToken /\ Chooses' = Chooses
      /\ (Active(Parent)' <=> Active(Parent))
  BY <1>1 DEF WorkToken, IoToken, Chooses, Active
<1>3. Typed' /\ Fits'
  BY <1>1 DEF Inv, Typed, Fits, Fit, Room
<1>4. Number(workq', WorkToken') <= Number(workq, WorkToken)
      /\ Number(ioq', IoToken') <= Number(ioq, IoToken)
  <2>1. workq \in Seq(WorkItem) /\ ioq \in Seq(IoItem)
    BY DEF Inv, Typed
  <2>2. /\ Number(workq, WorkToken) <= Number(workq, WorkToken)
        /\ Number(ioq, IoToken) <= Number(ioq, IoToken)
    BY <2>1, FewerKinds
  <2>3. QED
    BY <1>1, <1>2, <2>2
<1>5. OneToken' /\ FineTokens'
  BY <1>1, <1>2, <1>3, <1>4, TokenStays DEF Inv
<1>6. Unused' /\ Shut' /\ Linked' /\ Broken' /\ Stopped' /\ Faithful' /\ Alive'
  BY <1>1, <1>2 DEF Inv, Unused, Shut, Linked, Broken, Stopped, Faithful, Alive, ParentCloses,
                    Somewhere, Active
<1>7. QED
  BY <1>3, <1>5, <1>6 DEF Inv

\* The configurations of a behaviour that the invariant is about: see ChildrenUntimed.
Timely == Chooses => setting.timed \subseteq {Parent}

LEMMA TimelyRelay ==
  ASSUME ChildrenUntimed, setting \in Settings
  PROVE  Timely
BY HandlerSets DEF ChildrenUntimed, Timely, Chooses

\* Every step.
LEMMA NextInv ==
  ASSUME Timely, Inv, [Next]_vars
  PROVE  Inv'
<1>1. CASE WorkThread
  BY <1>1, WorkThreadKeeps
<1>2. CASE IoThread
  BY <1>2, IoThreadKeeps
<1>3. ASSUME NEW h \in Handlers, NEW op \in Ops, Complete(h, op) PROVE Inv'
  BY <1>3, CompleteKeeps
<1>4. ASSUME NEW h \in Handlers, Timeout(h) PROVE Inv'
  BY <1>4, TimeoutKeeps DEF Timely
<1>5. CASE UNCHANGED vars
  BY <1>5, StutterInv
<1>6. QED
  BY <1>1, <1>2, <1>3, <1>4, <1>5 DEF Next

\* The configuration is that of the whole behaviour.
LEMMA SettingStays ==
  ASSUME [Next]_vars
  PROVE  UNCHANGED setting
BY DEF Next, vars, WorkThread, IoThread, Complete, Timeout

RelayInv == setting \in Settings /\ (Timely => Inv)

\* In every state of every behaviour the relay has one token, if the configuration is
\* one without a child that may time out beside a business handler that answers anything.
THEOREM RelayInvariant == Spec => []RelayInv
<1>1. Init => RelayInv
  BY InitInv DEF Init, RelayInv
<1>2. RelayInv /\ [Next]_vars => RelayInv'
  <2>1. [Next]_vars => (Timely' <=> Timely) /\ setting' = setting
    BY SettingStays DEF Timely, Chooses
  <2>2. QED
    BY <2>1, NextInv DEF RelayInv
<1>3. QED
  BY <1>1, <1>2, PTL DEF Spec
-----------------------------------------------------------------------------
(* What it means *)

\* NeverNull: no callback finds a null client_handler_ or server_handler_ where it
\* needs one.  The head of the queue is the token; what goes for the token goes for it.
THEOREM NeverNullHolds ==
  ASSUME ChildrenUntimed
  PROVE  Spec => []NeverNull
<1>1. Inv => NeverNull
  <2> SUFFICES ASSUME Inv, workq # <<>>, NEW x, x = Head(workq), Active(x.h)
               PROVE  /\ x.h = Parent /\ x.ev \in {"open", "read"} => child # 0
                      /\ x.h \in Children /\ x.cb # "close" => x.h \in parent
    BY DEF NeverNull
  <2>1. x \in WorkItem /\ x \in Items(workq)
    BY ItemsOf DEF Inv, Typed
  <2>2. ASSUME x.h = Parent, x.ev \in {"open", "read"} PROVE child # 0
    <3>1. x.cb = "event"
      BY <2>1, <2>2 DEF WorkItem
    <3>2. FineWork(x)
      BY <2>1, <2>2, <3>1 DEF WorkToken, Inv, FineTokens
    <3>3. QED
      BY <2>2, <3>2 DEF FineWork
  <2>3. x.h \in Children => x.h \in parent
    BY DEF Inv, Linked, Active
  <2>4. QED
    BY <2>2, <2>3
<1>2. RelayInv => Inv
  BY TimelyRelay DEF RelayInv
<1>3. QED
  BY <1>1, <1>2, RelayInvariant, PTL

\* OneOperation: at most one operation of a handler is started, under way, completed
\* or handed to its callback.
THEOREM OneOperationHolds ==
  ASSUME ChildrenUntimed
  PROVE  Spec => []OneOperation
<1>1. Inv => OneOperation
  <2> SUFFICES ASSUME Inv, NEW h \in Handlers
               PROVE  Cardinality(pend[h])
                        + Cardinality({i \in 1..Len(ioq) : ioq[i].h = h /\ ioq[i].do \in Ops \cup {"read_i", "write_i"}})
                        + Cardinality({i \in 1..Len(workq) : workq[i].h = h /\ workq[i].cb \in {"open", "read", "write"}})
                        <= 1
    BY DEF OneOperation
  <2> DEFINE I == {i \in 1..Len(ioq) : ioq[i].h = h /\ ioq[i].do \in Ops \cup {"read_i", "write_i"}}
             W == {i \in 1..Len(workq) : workq[i].h = h /\ workq[i].cb \in {"open", "read", "write"}}
             IT == {i \in 1..Len(ioq) : ioq[i] \in IoToken}
             WT == {i \in 1..Len(workq) : workq[i] \in WorkToken}
  <2>1. ioq \in Seq(IoItem) /\ workq \in Seq(WorkItem) /\ OneToken
    BY DEF Inv, Typed
  <2>2. \A i \in I : i \in IT
    <3>1. \A i \in 1..Len(ioq) : ioq[i] \in IoItem
      BY <2>1
    <3>2. QED
      BY <3>1 DEF IoToken, Ops
  <2>3. \A i \in W : i \in WT
    <3>1. \A i \in 1..Len(workq) : workq[i] \in WorkItem
      BY <2>1
    <3>2. QED
      BY <3>1 DEF WorkToken
  <2>4. /\ IsFiniteSet(IT) /\ Number(ioq, IoToken) = Cardinality(IT)
        /\ IsFiniteSet(WT) /\ Number(workq, WorkToken) = Cardinality(WT)
    BY <2>1, NumberType DEF Number
  <2> HIDE DEF I, W, IT, WT
  <2>5. I \in SUBSET IT /\ W \in SUBSET WT
    BY <2>2, <2>3
  <2>6. /\ IsFiniteSet(I) /\ Cardinality(I) \in Nat /\ Cardinality(I) <= Cardinality(IT)
        /\ IsFiniteSet(W) /\ Cardinality(W) \in Nat /\ Cardinality(W) <= Cardinality(WT)
        /\ Cardinality(IT) \in Nat /\ Cardinality(WT) \in Nat
    BY <2>4, <2>5, FS_Subset, FS_CardinalityType
  <2>7. Cardinality(IT) + Cardinality(WT) <= 1
    BY <2>1, <2>4, <2>6 DEF OneToken, Queued
  <2>8. CASE pend[h] = {}
    <3>1. Cardinality(pend[h]) = 0
      BY <2>8, FS_EmptySet
    <3>2. QED
      BY <2>6, <2>7, <3>1 DEF I, W
  <2>9. ASSUME NEW x \in pend[h]
        PROVE  Cardinality(pend[h]) + Cardinality(I) + Cardinality(W) <= 1
    <3>1. Queued = 0 /\ pend[h] = {x}
      BY <2>1 DEF OneToken
    <3>2. Cardinality(pend[h]) = 1
      BY <3>1, FS_Singleton
    <3>3. Cardinality(IT) + Cardinality(WT) = 0
      BY <2>4, <2>6, <3>1 DEF Queued
    <3>4. QED
      BY <2>6, <3>2, <3>3
  <2>10. QED
    BY <2>8, <2>9 DEF I, W
<1>2. RelayInv => Inv
  BY TimelyRelay DEF RelayInv
<1>3. QED
  BY <1>1, <1>2, RelayInvariant, PTL

\* CycleBroken: a closed parent has given up its child, a closed child its parent.  This
\* needs no token: each handler lets go of the other in its own on_close.
CycleInv ==
  /\ state \in [Handlers -> {"unused", "active", "stopped", "closed"}]
  /\ parent \subseteq Children /\ Linked /\ Broken

LEMMA CycleSame ==
  ASSUME CycleInv, UNCHANGED <<state, parent, child>>
  PROVE  CycleInv'
BY DEF CycleInv, Linked, Broken

LEMMA CycleCloseI ==
  ASSUME CycleInv, NEW h, CloseI(h), UNCHANGED <<parent, child>>
  PROVE  CycleInv'
<1>1. CASE ~Active(h)
  BY <1>1, CycleSame DEF CloseI
<1>2. CASE Active(h)
  <2>1. /\ state[h] = "active" /\ state' = [state EXCEPT ![h] = "stopped"]
        /\ state \in [Handlers -> {"unused", "active", "stopped", "closed"}]
        /\ Linked /\ Broken /\ parent \subseteq Children
    BY <1>2 DEF CloseI, Active, CycleInv
  <2>2. state' \in [Handlers -> {"unused", "active", "stopped", "closed"}]
    BY <2>1
  <2>3. \A k \in Handlers : state'[k] = (IF k = h THEN "stopped" ELSE state[k])
    BY <2>1
  <2>4. Linked'
    BY <2>1, <2>3, HandlerSets DEF Linked
  <2>5. Broken'
    BY <2>1, <2>3, HandlerSets DEF Broken
  <2>6. QED
    BY <2>1, <2>2, <2>4, <2>5 DEF CycleInv
<1>3. QED
  BY <1>1, <1>2

LEMMA CycleNext ==
  ASSUME CycleInv, [Next]_vars
  PROVE  CycleInv'
<1>1. /\ state \in [Handlers -> {"unused", "active", "stopped", "closed"}]
      /\ parent \subseteq Children /\ Linked /\ Broken
  BY DEF CycleInv
<1>2. CASE IoThread
  <2>1. UNCHANGED <<parent, child>> /\ (UNCHANGED state \/ \E h : CloseI(h))
    BY <1>2 DEF IoThread, Start, Handle
  <2>2. QED
    BY <2>1, CycleSame, CycleCloseI
<1>3. CASE UNCHANGED vars \/ (\E h \in Handlers, op \in Ops : Complete(h, op))
             \/ \E h \in Handlers : Timeout(h)
  BY <1>3, CycleSame DEF vars, Complete, Timeout
<1>4. CASE ConnectChild
  <2>1. CASE UNCHANGED <<state, child, parent>>
    BY <2>1, CycleSame
  <2>2. ASSUME NEW k \in Children, state[k] = "unused", state' = [state EXCEPT ![k] = "active"],
               child' = (IF Active(Parent) THEN k ELSE child), parent' = parent \cup {k}
        PROVE  CycleInv'
    <3>1. \A h \in Handlers : state'[h] = (IF h = k THEN "active" ELSE state[h])
      BY <1>1, <2>2
    <3>2. state' \in [Handlers -> {"unused", "active", "stopped", "closed"}]
      BY <1>1, <2>2
    <3>3. Linked'
      BY <1>1, <2>2, <3>1, HandlerSets DEF Linked
    <3>4. Broken'
      BY <1>1, <2>2, <3>1, HandlerSets DEF Broken, Active
    <3>5. parent' \subseteq Children
      BY <1>1, <2>2
    <3>6. QED
      BY <3>2, <3>3, <3>4, <3>5 DEF CycleInv
  <2>3. QED
    BY <1>4, <2>1, <2>2 DEF ConnectChild
<1>5. ASSUME NEW x, ParentCallback(x)
      PROVE  CycleInv'
  <2>1. UNCHANGED parent
    BY <1>5 DEF ParentCallback
  <2>2. CASE child' = 0 /\ state' = [state EXCEPT ![Parent] = "closed"]
    <3>1. \A h \in Handlers : state'[h] = (IF h = Parent THEN "closed" ELSE state[h])
      BY <1>1, <2>2
    <3>2. state' \in [Handlers -> {"unused", "active", "stopped", "closed"}]
      BY <1>1, <2>2
    <3>3. Linked' /\ Broken'
      BY <1>1, <2>1, <2>2, <3>1, HandlerSets DEF Linked, Broken
    <3>4. QED
      BY <1>1, <2>1, <3>2, <3>3 DEF CycleInv
  <2>3. CASE UNCHANGED <<state, child>>
    BY <2>1, <2>3, CycleSame
  <2>4. CASE Active(Parent) /\ UNCHANGED state
    BY <1>1, <2>1, <2>4 DEF CycleInv, Linked, Broken, Active
  <2>5. QED
    BY <1>5, <2>2, <2>3, <2>4 DEF ParentCallback, ParentClose
<1>6. ASSUME NEW x, ChildCallback(x)
      PROVE  CycleInv'
  <2>1. UNCHANGED child /\ x.h \in Children
    BY <1>6 DEF ChildCallback
  <2>2. CASE state' = [state EXCEPT ![x.h] = "closed"] /\ parent' = parent \ {x.h}
    <3>1. \A h \in Handlers : state'[h] = (IF h = x.h THEN "closed" ELSE state[h])
      BY <1>1, <2>2
    <3>2. state' \in [Handlers -> {"unused", "active", "stopped", "closed"}]
      BY <1>1, <2>2
    <3>3. Linked' /\ Broken' /\ parent' \subseteq Children
      BY <1>1, <2>1, <2>2, <3>1, HandlerSets DEF Linked, Broken
    <3>4. QED
      BY <3>2, <3>3 DEF CycleInv
  <2>3. CASE UNCHANGED <<state, parent>>
    BY <2>1, <2>3, CycleSame
  <2>4. QED
    BY <1>6, <2>2, <2>3 DEF ChildCallback, ChildClose, ChildEvent, ChildData
<1>7. QED
  BY <1>2, <1>3, <1>4, <1>5, <1>6 DEF Next, WorkThread

THEOREM CycleBrokenHolds == Spec => []CycleBroken
<1>1. Init => CycleInv
  <2>1. SUFFICES ASSUME Init
                 PROVE  CycleInv
    OBVIOUS
  <2>2. /\ state = [h \in Handlers |-> IF h = Parent THEN "active" ELSE "unused"]
        /\ child = 0 /\ parent = {}
    BY <2>1 DEF Init
  <2>3. QED
    BY <2>2, HandlerSets DEF CycleInv, Linked, Broken
<1>2. CycleInv /\ [Next]_vars => CycleInv'
  BY CycleNext
<1>3. CycleInv => CycleBroken
  BY DEF CycleInv, Linked, Broken, CycleBroken
<1>4. QED
  BY <1>1, <1>2, <1>3, PTL DEF Spec

\* BuffersFit: the assertions of io_buffer hold of every buffer, whatever the
\* capacities of the two sides are.
THEOREM BuffersFitHolds ==
  ASSUME ChildrenUntimed
  PROVE  Spec => []BuffersFit
<1>1. Inv => BuffersFit
  <2> SUFFICES ASSUME Inv PROVE BuffersFit
    OBVIOUS
  <2>1. Typed /\ Fits
    BY DEF Inv
  <2>2. \A i \in 1..Len(workq) :
          workq[i] \in [h : Handlers, cb : {"open", "read", "write", "close", "event"},
                        ev : Events \cup {"none"}, data : Seq(Byte)]
    BY <2>1 DEF Typed, WorkItem
  <2>3. workq \in Seq([h : Handlers, cb : {"open", "read", "write", "close", "event"},
                       ev : Events \cup {"none"}, data : Seq(Byte)])
    <3>1. \A S, T : \A s \in Seq(S) : (\A i \in 1..Len(s) : s[i] \in T) => s \in Seq(T)
      OBVIOUS
    <3>2. workq \in Seq(WorkItem)
      BY <2>1 DEF Typed
    <3>3. QED
      BY <2>2, <3>1, <3>2
  <2>4. TypeOK
    BY <2>1, <2>3 DEF Typed, TypeOK, IoItem, PendItem
  <2>5. ASSUME NEW i \in 1..Len(workq)
        PROVE  /\ workq[i].cb = "read" => Len(workq[i].data) <= B(Room(workq[i].h))!Space(buf[workq[i].h])
               /\ workq[i].cb = "write" => Len(workq[i].data) <= B(Room(workq[i].h))!Size(buf[workq[i].h])
    <3> DEFINE x == workq[i]
    <3>1. x \in WorkItem /\ x \in Items(workq)
      BY <2>1 DEF Typed, Items
    <3>2. x.cb \in {"read", "write"} => x \in WorkToken
      BY <3>1 DEF WorkToken
    <3>3. x.cb \in {"read", "write"} => FineWork(x)
      BY <3>1, <3>2 DEF Inv, FineTokens
    <3>4. x.h \in Handlers /\ x.data \in Seq(Byte)
      BY <3>1 DEF WorkItem
    <3>5. Room(x.h) \in Nat /\ Fit(Room(x.h), buf[x.h])
      BY <2>1, <3>4, RoomNat DEF Fits
    <3>6. ASSUME x.cb = "write"
          PROVE  Len(x.data) <= B(Room(x.h))!Size(buf[x.h])
      <4>1. x.data = Rest(buf[x.h])
        BY <3>3, <3>6 DEF FineWork
      <4>2. Len(Rest(buf[x.h])) = B(Room(x.h))!Size(buf[x.h]) /\ Len(Rest(buf[x.h])) \in Nat
        BY <3>5, SizesOfRest
      <4>3. QED
        BY <4>1, <4>2
    <3>7. ASSUME x.cb = "read"
          PROVE  Len(x.data) <= B(Room(x.h))!Space(buf[x.h])
      <4>1. Len(x.data) + Len(buf[x.h].bytes) <= Room(x.h)
        BY <3>3, <3>7 DEF FineWork, Holds
      <4>2. Len(buf[x.h].bytes) \in Nat /\ Len(x.data) \in Nat
        BY <3>4, <3>5, SizesOfRest
      <4>3. B(Room(x.h))!Space(buf[x.h]) = Room(x.h) - Len(buf[x.h].bytes)
        BY <3>5, SpaceOf
      <4> HIDE DEF x
      <4>4. \A r, l, d \in Nat : d + l <= r => d <= r - l
        OBVIOUS
      <4>5. Len(x.data) <= Room(x.h) - Len(buf[x.h].bytes)
        BY <3>5, <4>1, <4>2, <4>4, Zenon
      <4>6. QED
        BY <4>3, <4>5, Zenon
    <3>8. QED
      BY <3>6, <3>7
  <2>6. QED
    BY <2>1, <2>4, <2>5 DEF BuffersFit, Fits, Fit
<1>2. RelayInv => Inv
  BY TimelyRelay DEF RelayInv
<1>3. QED
  BY <1>1, <1>2, RelayInvariant, PTL

\* DataInOrder: what is written is what was read and not yet passed on, and the parent
\* reads on when all is.
THEOREM DataInOrderHolds == Spec => []DataInOrder
<1>1. Inv => DataInOrder
  <2> SUFFICES ASSUME Inv, setting.biz # "any" PROVE DataInOrder
    BY DEF DataInOrder
  <2>1. \A h \in Handlers : \A x \in pend[h] : FineOp(h, x.op, x.data)
    BY DEF Inv, FineTokens
  <2>2. ~Chooses
    BY DEF Chooses
  <2>3. \A h \in Handlers : \A x \in pend[h] : x.op = "write" => Owed(WriterOf(h), x.data)
    BY <2>1, <2>2 DEF FineOp
  <2>4. \A x \in pend[Parent] : x.op = "read" => Even
    BY <2>1, <2>2, HandlerSets DEF FineOp
  <2>5. QED
    BY <2>3, <2>4 DEF DataInOrder, Owed, Even, From, WriterOf, Lanes
<1>2. Chooses => DataInOrder
  BY DEF Chooses, DataInOrder
<1>3. RelayInv => DataInOrder
  BY <1>1, <1>2 DEF RelayInv, Timely
<1>4. QED
  BY <1>3, RelayInvariant, PTL

\* SomethingUnderWay: while the parent is open there is a token, or a close is under way.
THEOREM SomethingUnderWayHolds == Spec => []SomethingUnderWay
<1>1. Inv => SomethingUnderWay
  <2> SUFFICES ASSUME Inv, Active(Parent), setting.biz # "any"
               PROVE  opening \/ ioq # <<>> \/ workq # <<>> \/ \E h \in Handlers : pend[h] # {}
    BY DEF SomethingUnderWay
  <2>1. /\ ioq = <<>> => Items(ioq) = {}
        /\ workq = <<>> => Items(workq) = {}
    BY ItemsOf DEF Inv, Typed
  <2>2. ParentCloses \/ Somewhere \/ \E k \in Children : state[k] = "stopped"
    BY DEF Inv, Alive, Chooses
  <2>3. (\E k \in Children : state[k] = "stopped") => Items(workq) # {}
    BY HandlerSets DEF Inv, Stopped
  <2>4. QED
    BY <2>1, <2>2, <2>3 DEF ParentCloses, Somewhere
<1>2. Chooses => SomethingUnderWay
  BY DEF Chooses, SomethingUnderWay
<1>3. RelayInv => SomethingUnderWay
  BY <1>1, <1>2 DEF RelayInv, Timely
<1>4. QED
  BY <1>3, RelayInvariant, PTL
=============================================================================
