------------------------------ MODULE MCRelay ------------------------------
(* Instances of Relay for TLC. *)
EXTENDS Relay

\* The proxy under session timers and without them, between buffers of the same size
\* and of different ones, the echo server, and any business handler at all.
Rooms(p, c) == [parent |-> p, child |-> c]
RelaySettings ==
  {[biz |-> "proxy", timed |-> {0, 1}, reads |-> 3, room |-> Rooms(2, 2)],
   [biz |-> "proxy", timed |-> {}, reads |-> 4, room |-> Rooms(2, 3)],
   [biz |-> "proxy", timed |-> {}, reads |-> 3, room |-> Rooms(3, 2)],
   [biz |-> "echo", timed |-> {0}, reads |-> 3, room |-> Rooms(2, 1)],
   [biz |-> "any", timed |-> {0}, reads |-> 2, room |-> Rooms(1, 1)],
   [biz |-> "any", timed |-> {}, reads |-> 2, room |-> Rooms(2, 1)]}

\* The proxy with a timeout of the parent.
TimedProxy == {[biz |-> "proxy", timed |-> {0}, reads |-> 1, room |-> Rooms(1, 1)]}

ASSUME ChildrenUntimed

\* The operations of the buffers that the work handlers fill and empty, on every small
\* buffer: ContainerProofs proves the first three of all of them.
Buffer == INSTANCE IoBuffer WITH Byte <- {0, 1}, Capacity <- 3
Texts == UNION {[1..n -> {0, 1}] : n \in 0..3}
SmallBuffers == {b \in [bytes : Texts, begin : 0..3] : b.begin <= Len(b.bytes)}

ASSUME BufferConsumes ==
  \A b \in SmallBuffers, n \in 0..3 :
  n <= Buffer!Size(b) =>
    Buffer!Unread(b) = SubSeq(Buffer!Unread(b), 1, n) \o Buffer!Unread(Buffer!Consume(b, n))
ASSUME BufferProduces ==
  \A b \in SmallBuffers, t \in Texts :
  Len(t) <= Buffer!Space(b) => Buffer!Unread(Buffer!Produce(b, t)) = Buffer!Unread(b) \o t
ASSUME BufferCrunches ==
  \A b \in SmallBuffers :
  /\ Buffer!Unread(Buffer!Crunch(b)) = Buffer!Unread(b)
  /\ Buffer!Space(Buffer!Crunch(b)) = 3 - Buffer!Size(b)
ASSUME BufferResizes ==
  \A b \in SmallBuffers, n \in 0..3 :
  LET r == Buffer!Resize(b, n, <<0, 0, 0>>) IN
  /\ Len(r.bytes) <= 3 /\ Buffer!Size(r) = n
  /\ n <= Buffer!Size(b) => Buffer!Unread(r) = SubSeq(Buffer!Unread(b), 1, n)
=============================================================================
