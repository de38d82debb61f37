------------------------------- MODULE Relay -------------------------------
(***************************************************************************)
(* A server connection and the client connections it opens: server_work,   *)
(* client_work, client::connect, and the business handler that drives      *)
(* them.  Handler 0 is the parent, the others are its children, used one   *)
(* after the other.  client::connect gives a child the io_service and the  *)
(* work_service of its parent, so that one io thread and one work thread   *)
(* serve them all.  What ServiceHandler says of one handler is kept here   *)
(* only as far as the events between handlers need it.  The bytes that are *)
(* relayed are numbered by the peer they come from; the buffers they pass  *)
(* are those of IoBuffer.                                                  *)
(***************************************************************************)
EXTENDS Integers, Sequences, FiniteSets

CONSTANTS
  MaxChildren,  \* bound: children opened
  Settings      \* the configurations of a relay, one of which a behaviour has:
                \* biz, "proxy" (biz_proxy), "echo" (biz_echo), or "any", a business
                \* handler that answers whatever it likes; timed, the handlers a timer
                \* of which may expire, of the session or of an operation; room, the
                \* capacity of the read buffers of the parent and of the children; and
                \* the bound reads, the reads of the parent before its peer closes

ASSUME RelayAssumption ==
  /\ MaxChildren \in Nat
  /\ Settings \subseteq [biz : {"proxy", "echo", "any"}, timed : SUBSET (0..MaxChildren),
                          reads : Nat, room : [parent : Nat \ {0}, child : Nat \ {0}]]

VARIABLES
  setting, \* the configuration
  state,   \* of each handler: unused, active, stopped (stopped_), closed (on_close)
  pend,    \* operations asio has not completed
  ioq,     \* handlers queued on the io_service
  workq,   \* handlers queued on the work_service
  opening, \* the work thread is about to call client_->connect
  child,   \* client_handler_ of the parent, 0 for none
  parent,  \* the children whose server_handler_ is set
  passive, \* the handlers whose passive_close_ is set
  reading, \* the children whose last event_ is write_read
  reads,   \* reads of the parent
  buf,     \* read_buffer of each handler
  got,     \* bytes read from a peer so far, the client's or the server's
  sent     \* bytes written by the parent and by the children so far

vars == <<setting, state, pend, ioq, workq, opening, child, parent, passive, reading, reads,
          buf, got, sent>>

Parent == 0
Children == 1..MaxChildren
Handlers == {Parent} \cup Children
Peers == {"client", "server"}
Byte == [from : Peers, i : Nat]
Ops == {"connect", "read", "write"}
Events == {"notify", "open", "read", "write", "write_read", "close"}

TypeOK ==
  /\ setting \in Settings
  /\ state \in [Handlers -> {"unused", "active", "stopped", "closed"}]
  /\ \A h \in Handlers : pend[h] \subseteq [op : Ops, data : Seq(Byte)]
  /\ ioq \in Seq([h : Handlers, do : Ops \cup {"close_i", "connect_i", "read_i", "write_i"},
                  ok : BOOLEAN, data : Seq(Byte)])
  /\ workq \in Seq([h : Handlers, cb : {"open", "read", "write", "close", "event"},
                    ev : Events \cup {"none"}, data : Seq(Byte)])
  /\ opening \in BOOLEAN /\ child \in 0..MaxChildren
  /\ parent \subseteq Children /\ passive \subseteq Handlers /\ reading \subseteq Children
  /\ reads \in 0..setting.reads
  /\ got \in [Peers -> Nat] /\ sent \in [{"parent", "child"} -> Nat]

Active(h) == state[h] = "active"

\* A handler on the io_service, and a callback on the work_service, with the bytes that
\* its operation shall write or has moved.
IoData(h, do, ok, data) == [h |-> h, do |-> do, ok |-> ok, data |-> data]
Io(h, do, ok) == IoData(h, do, ok, <<>>)
Callback(h, cb, data) == [h |-> h, cb |-> cb, ev |-> "none", data |-> data]

\* parent_post and child_post to handler h.
Event(h, ev) == [h |-> h, cb |-> "event", ev |-> ev, data |-> <<>>]

\* The buffers: io_buffer() of both work handlers is read_buffer.
Room(h) == IF h = Parent THEN setting.room.parent ELSE setting.room.child
B(capacity) == INSTANCE IoBuffer WITH Byte <- Byte, Capacity <- capacity
Unread(h, b) == B(Room(h))!Unread(b[h])
Clear(h, b) == [b EXCEPT ![h] = B(Room(h))!Cleared]

\* on_read produces what came, on_write consumes and crunches what is written.
AfterRead(h, data) == [buf EXCEPT ![h] = B(Room(h))!Produce(@, data)]
AfterWrite(h, data) == [buf EXCEPT ![h] = B(Room(h))!Crunch(B(Room(h))!Consume(@, Len(data)))]

\* async_read_some closes the handler if its buffer is full.
AsyncReadSome(h, b) == Io(h, IF B(Room(h))!Space(b[h]) = 0 THEN "close_i" ELSE "read_i", TRUE)
AsyncWrite(h, b) == IoData(h, "write_i", TRUE, Unread(h, b))

\* The next k bytes of a peer after the first n; under a business handler that answers
\* anything the bytes are not told apart.
Stream(from, n, k) ==
  [i \in 1..k |-> IF setting.biz = "any" THEN [from |-> from, i |-> 0]
                  ELSE [from |-> from, i |-> n + i]]

\* The parent was accepted and started.
Init ==
  /\ setting \in Settings
  /\ state = [h \in Handlers |-> IF h = Parent THEN "active" ELSE "unused"]
  /\ pend = [h \in Handlers |-> {}]
  /\ ioq = <<>> /\ workq = <<Callback(Parent, "open", <<>>)>>
  /\ opening = FALSE /\ child = 0 /\ parent = {} /\ passive = {} /\ reading = {}
  /\ reads = 0
  /\ buf = [h \in Handlers |-> B(Room(h))!Cleared]
  /\ got = [p \in Peers |-> 0] /\ sent = [w \in {"parent", "child"} |-> 0]
-----------------------------------------------------------------------------
(* The business handler: what it answers to an event, in status_.state and in output *)

\* The values process may leave in status_.state.
Dos == {"read", "write", "close", "client_open", "client_close", "client_read",
        "client_write", "client_write_read"}

Answer(do, out) == {[do |-> do, out |-> out]}

\* biz_echo::process
EchoProcess(on, in, out) ==
  Answer(CASE on = "open" -> "read" [] on = "read" -> "write" [] on = "write" -> "read"
           [] OTHER -> "close", out)

\* The input in the place of the output.
Copied(in, out) == [out EXCEPT !.bytes = SubSeq(in.bytes, in.begin + 1, Len(in.bytes)), !.begin = 0]

ProxyTable ==
  [open |-> "client_open", client_open |-> "read", read |-> "client_write_read", write |-> "read"]

\* Mutant: the answer of the child is copied whatever its size.
UncheckedProxyProcess(on, in, out) ==
  IF on = "client_read" THEN Answer("write", Copied(in, out))
  ELSE Answer(IF on \in DOMAIN ProxyTable THEN ProxyTable[on] ELSE "close", out)

\* biz_proxy::process
ProxyProcess(on, in, out) ==
  IF on = "client_read" /\ B(Room(Parent))!Size(in) <= Room(Parent)
  THEN Answer("write", Copied(in, out))
  ELSE Answer(IF on \in DOMAIN ProxyTable THEN ProxyTable[on] ELSE "close", out)

Process(on, in, out) ==
  CASE setting.biz = "echo"  -> EchoProcess(on, in, out)
    [] setting.biz = "proxy" -> ProxyProcess(on, in, out)
    [] OTHER ->
         [do : Dos, out : {out, B(Room(Parent))!Cleared}
                            \cup (IF Len(in.bytes) <= Room(Parent) THEN {Copied(in, out)} ELSE {})]
-----------------------------------------------------------------------------
(* The work thread, in a callback of the parent *)

\* Mutant of do_io: a child that is replaced is not told to close.
ForgottenClose(p) == <<>>

\* The event for the child that do_io gives up.
GiveUpChild(p) == IF child # 0 /\ ~p THEN <<Event(child, "close")>> ELSE <<>>

\* Mutant of do_io: the buffer of the child is not cleared first.
AppendedRequest(b) == [b EXCEPT ![child] = B(Room(child))!Produce(@, Unread(Parent, b))]

\* do_io copies the parent's buffer into the child's.
Request(b) == [b EXCEPT ![child] = B(Room(child))!Produce(B(Room(child))!Cleared, Unread(Parent, b))]

\* server_work::do_io, after the head of workq: p is passive_close_, b the buffers.  A
\* child whose buffer has no room is not asked; the parent is told that its operation
\* failed.
DoIo(do, p, b) ==
  LET rest == Tail(workq) IN
  \/ /\ do \in {"read", "write"}
     /\ ioq' = Append(ioq, IF do = "read" THEN AsyncReadSome(Parent, b) ELSE AsyncWrite(Parent, b))
     /\ workq' = rest /\ buf' = b /\ UNCHANGED <<opening, child>>
  \/ /\ do \in {"client_open", "client_close"} /\ setting.biz # "echo"
     /\ child' = 0
     /\ opening' = (do = "client_open")
     /\ workq' = rest \o GiveUpChild(p)
                      \o (IF do = "client_close" THEN <<Event(Parent, "notify")>> ELSE <<>>)
     /\ buf' = b /\ UNCHANGED ioq
  \/ /\ do = "client_read" /\ child # 0
     /\ workq' = Append(rest, Event(IF B(Room(child))!Space(b[child]) = 0 THEN Parent ELSE child, "read"))
     /\ buf' = b /\ UNCHANGED <<ioq, opening, child>>
  \/ /\ do \in {"client_write", "client_write_read"} /\ child # 0
     /\ IF Room(child) < Len(Unread(Parent, b))
        THEN buf' = Clear(child, b) /\ workq' = Append(rest, Event(Parent, "write"))
        ELSE /\ buf' = Request(b)
             /\ workq' = Append(rest, Event(child, IF do = "client_write" THEN "write" ELSE "write_read"))
     /\ UNCHANGED <<ioq, opening, child>>
  \/ /\ \/ do = "close"
        \/ do \in {"client_open", "client_close"} /\ setting.biz = "echo"
        \/ do \in {"client_read", "client_write", "client_write_read"} /\ child = 0
     /\ ioq' = Append(ioq, Io(Parent, "close_i", TRUE))
     /\ workq' = rest /\ buf' = b /\ UNCHANGED <<opening, child>>

\* on_open, on_read, on_write
ParentData(cb, data) ==
  LET b == CASE cb = "open" -> Clear(Parent, buf)
             [] cb = "read" -> AfterRead(Parent, data)
             [] OTHER -> AfterWrite(Parent, data)
  IN  \E a \in Process(cb, b[Parent], b[Parent]) :
        DoIo(a.do, Parent \in passive, [b EXCEPT ![Parent] = a.out])

\* on_child.  To an answer of the child its buffer is the input.
ParentEvent(ev) ==
  LET on == CASE ev = "open" -> "client_open" [] ev = "read" -> "client_read"
              [] ev = "write" -> "client_write" [] ev = "close" -> "client_close"
              [] OTHER -> "notify"
  IN  \E a \in Process(on, buf[IF ev = "read" THEN child ELSE Parent], buf[Parent]) :
        DoIo(a.do, ev = "close" \/ Parent \in passive, [buf EXCEPT ![Parent] = a.out])

\* Mutant of on_close: client_handler_ is reset only if the child is told.
LeakyParentClose ==
  /\ workq' = Tail(workq) \o GiveUpChild(Parent \in passive)
  /\ child' = IF Parent \in passive THEN child ELSE 0
  /\ UNCHANGED <<ioq, opening, buf>>

\* on_close
ParentClose ==
  /\ workq' = Tail(workq) \o GiveUpChild(Parent \in passive)
  /\ child' = 0
  /\ UNCHANGED <<ioq, opening, buf>>

\* An event whose handling dereferences client_handler_ while that is null is not
\* taken: the program ends there, and NeverNull says that it does not come to this.
ParentCallback(x) ==
  /\ x.h = Parent
  /\ \/ /\ x.cb = "close"
        /\ ParentClose
        /\ state' = [state EXCEPT ![Parent] = "closed"]
        /\ UNCHANGED passive
     \/ /\ x.cb # "close" /\ ~Active(Parent)
        /\ workq' = Tail(workq)
        /\ UNCHANGED <<state, ioq, opening, child, passive, buf>>
     \/ /\ x.cb # "close" /\ Active(Parent)
        /\ x.cb # "event" \/ x.ev \notin {"open", "read"} \/ child # 0
        /\ IF x.cb = "event" THEN ParentEvent(x.ev) ELSE ParentData(x.cb, x.data)
        /\ passive' = IF x.ev = "close" THEN passive \cup {Parent} ELSE passive
        /\ UNCHANGED state
  /\ UNCHANGED <<parent, reading>>

\* Mutant of client::connect: set_child is not called.
UnsetConnect ==
  /\ opening /\ opening' = FALSE
  /\ \E k \in Children :
       /\ state[k] = "unused" /\ \A i \in 1..(k - 1) : state[i] # "unused"
       /\ state' = [state EXCEPT ![k] = "active"]
       /\ passive' = passive \ {k}
       /\ parent' = parent \cup {k}
       /\ ioq' = Append(ioq, Io(k, "connect_i", TRUE))
  /\ UNCHANGED <<pend, workq, child, reading, reads, buf>>

\* client::connect of a parent handler.  on_set_child is skipped if the parent has
\* been stopped meanwhile; the child gets its parent and connects all the same.
ConnectChild ==
  /\ opening /\ opening' = FALSE
  /\ \/ /\ ioq' = Append(ioq, Io(Parent, "close_i", TRUE))
        /\ UNCHANGED <<state, child, passive, parent>>
     \/ \E k \in Children :
          /\ state[k] = "unused" /\ \A i \in 1..(k - 1) : state[i] # "unused"
          /\ state' = [state EXCEPT ![k] = "active"]
          /\ child' = IF Active(Parent) THEN k ELSE child
          /\ passive' = IF Active(Parent) THEN passive \ {k, Parent} ELSE passive \ {k}
          /\ parent' = parent \cup {k}
          /\ ioq' = Append(ioq, Io(k, "connect_i", TRUE))
  /\ UNCHANGED <<pend, workq, reading, reads, buf>>
-----------------------------------------------------------------------------
(* The work thread, in a callback of a child *)

\* Mutant of on_write: the parent is told before the answer has been read.
EagerChildData(k, cb, data) ==
  /\ buf' = CASE cb = "open" -> Clear(k, buf) [] cb = "read" -> AfterRead(k, data)
              [] OTHER -> AfterWrite(k, data)
  /\ ioq' = IF cb = "write" /\ k \in reading THEN Append(ioq, AsyncReadSome(k, buf')) ELSE ioq
  /\ workq' = Append(Tail(workq), Event(Parent, cb))
  /\ UNCHANGED <<passive, reading, parent>>

\* on_open, on_read, on_write
ChildData(k, cb, data) ==
  LET rest == Tail(workq) IN
  /\ buf' = CASE cb = "open" -> Clear(k, buf) [] cb = "read" -> AfterRead(k, data)
              [] OTHER -> AfterWrite(k, data)
  /\ IF cb = "write" /\ k \in reading
     THEN ioq' = Append(ioq, AsyncReadSome(k, buf')) /\ workq' = rest
     ELSE workq' = Append(rest, Event(Parent, cb)) /\ UNCHANGED ioq
  /\ UNCHANGED <<passive, reading, parent>>

\* Mutant of on_parent: the buffer is cleared when its write has been started.
ClearingChildEvent(k, ev) ==
  /\ reading' = IF ev = "write_read" THEN reading \cup {k} ELSE reading \ {k}
  /\ passive' = IF ev = "close" THEN passive \cup {k} ELSE passive
  /\ ioq' = Append(ioq, CASE ev = "close" -> Io(k, "close_i", TRUE)
                           [] ev = "read" -> AsyncReadSome(k, buf)
                           [] OTHER -> AsyncWrite(k, buf))
  /\ workq' = Tail(workq) /\ UNCHANGED parent
  /\ buf' = IF ev \in {"read", "close"} THEN buf ELSE Clear(k, buf)

\* on_parent
ChildEvent(k, ev) ==
  /\ reading' = IF ev = "write_read" THEN reading \cup {k} ELSE reading \ {k}
  /\ passive' = IF ev = "close" THEN passive \cup {k} ELSE passive
  /\ ioq' = Append(ioq, CASE ev = "close" -> Io(k, "close_i", TRUE)
                           [] ev = "read" -> AsyncReadSome(k, buf)
                           [] OTHER -> AsyncWrite(k, buf))
  /\ workq' = Tail(workq) /\ UNCHANGED <<parent, buf>>

\* Mutant of on_close: the parent is not told.
SilentChildClose(k) ==
  /\ workq' = Tail(workq)
  /\ parent' = parent \ {k}
  /\ UNCHANGED <<ioq, passive, reading, buf>>

\* on_close
ChildClose(k) ==
  /\ workq' = Tail(workq) \o (IF k \in parent /\ k \notin passive
                              THEN <<Event(Parent, "close")>> ELSE <<>>)
  /\ parent' = parent \ {k}
  /\ UNCHANGED <<ioq, passive, reading, buf>>

ChildCallback(x) ==
  /\ x.h \in Children
  /\ \/ /\ x.cb = "close"
        /\ ChildClose(x.h)
        /\ state' = [state EXCEPT ![x.h] = "closed"]
     \/ /\ x.cb # "close" /\ ~Active(x.h)
        /\ workq' = Tail(workq)
        /\ UNCHANGED <<state, ioq, parent, passive, reading, buf>>
     \/ /\ x.cb # "close" /\ Active(x.h)
        /\ IF x.cb = "event" THEN ChildEvent(x.h, x.ev) ELSE ChildData(x.h, x.cb, x.data)
        /\ UNCHANGED state
  /\ UNCHANGED <<opening, child>>

WorkThread ==
  /\ \/ ConnectChild
     \/ /\ ~opening /\ workq # <<>>
        /\ ParentCallback(Head(workq)) \/ ChildCallback(Head(workq))
        /\ UNCHANGED <<pend, reads>>
  /\ UNCHANGED <<setting, got, sent>>
-----------------------------------------------------------------------------
(* The io thread *)

\* close_i: see ServiceHandler.
CloseI(h) ==
  IF Active(h)
  THEN /\ state' = [state EXCEPT ![h] = "stopped"]
       /\ pend' = [pend EXCEPT ![h] = {}]
       /\ workq' = Append(workq, Callback(h, "close", <<>>))
  ELSE UNCHANGED <<state, pend, workq>>

\* connect_i, async_read_some_i, async_write_i; the local bind of connect_i may fail.
Start(h, op, data) ==
  \/ /\ Active(h)
     /\ pend' = [pend EXCEPT ![h] = @ \cup {[op |-> op, data |-> data]}]
     /\ UNCHANGED <<state, workq>>
  \/ /\ op = "connect" /\ CloseI(h)
  \/ /\ ~Active(h) /\ UNCHANGED <<state, pend, workq>>

\* handle_connect, handle_read, handle_write
Handle(h, op, ok, data) ==
  IF ok /\ Active(h)
  THEN /\ workq' = Append(workq, Callback(h, IF op = "connect" THEN "open" ELSE op, data))
       /\ UNCHANGED <<state, pend>>
  ELSE CloseI(h)

IoThread ==
  /\ ioq # <<>>
  /\ ioq' = Tail(ioq)
  /\ LET x == Head(ioq) IN
     \/ x.do = "close_i" /\ CloseI(x.h)
     \/ x.do = "connect_i" /\ Start(x.h, "connect", x.data)
     \/ x.do = "read_i" /\ Start(x.h, "read", x.data)
     \/ x.do = "write_i" /\ Start(x.h, "write", x.data)
     \/ x.do \in Ops /\ Handle(x.h, x.do, x.ok, x.data)
  /\ UNCHANGED <<setting, opening, child, parent, passive, reading, reads, buf, got, sent>>

\* The bytes of a peer that have been passed on are counted only where they are told apart.
Count(n) == IF setting.biz = "any" THEN 0 ELSE n
PeerOf(h) == IF h = Parent THEN "client" ELSE "server"
WriterOf(h) == IF h = Parent THEN "parent" ELSE "child"

\* A peer or the network completes an operation: a read with some of the bytes there is
\* room for, a write with all of them.
Complete(h, op) ==
  /\ \E x \in pend[h] :
       /\ x.op = op
       /\ pend' = [pend EXCEPT ![h] = @ \ {x}]
       /\ \/ /\ ioq' = Append(ioq, Io(h, op, FALSE))
             /\ UNCHANGED <<reads, got, sent>>
          \/ /\ op = "connect"
             /\ ioq' = Append(ioq, Io(h, op, TRUE))
             /\ UNCHANGED <<reads, got, sent>>
          \/ /\ op = "read" /\ (h = Parent => reads < setting.reads)
             /\ \E n \in 1..B(Room(h))!Space(buf[h]) :
                  /\ ioq' = Append(ioq, IoData(h, op, TRUE, Stream(PeerOf(h), got[PeerOf(h)], n)))
                  /\ got' = [got EXCEPT ![PeerOf(h)] = @ + Count(n)]
             /\ reads' = IF h = Parent THEN reads + 1 ELSE reads
             /\ UNCHANGED sent
          \/ /\ op = "write"
             /\ ioq' = Append(ioq, IoData(h, op, TRUE, x.data))
             /\ sent' = [sent EXCEPT ![WriterOf(h)] = @ + Count(Len(x.data))]
             /\ UNCHANGED <<reads, got>>
  /\ UNCHANGED <<setting, state, workq, opening, child, parent, passive, reading, buf>>

\* handle_timeout of either timer, which aborts nothing but the handler; while one has
\* not been handled a second one changes nothing.
Timeout(h) ==
  /\ h \in setting.timed /\ Active(h)
  /\ \A i \in 1..Len(ioq) : ioq[i] # Io(h, "close_i", FALSE)
  /\ ioq' = Append(ioq, Io(h, "close_i", FALSE))
  /\ UNCHANGED <<setting, state, pend, workq, opening, child, parent, passive, reading, reads,
                 buf, got, sent>>
-----------------------------------------------------------------------------
Next ==
  \/ WorkThread \/ IoThread
  \/ \E h \in Handlers, op \in Ops : Complete(h, op)
  \/ \E h \in Handlers : Timeout(h)

\* Both threads run; the peers and the clock owe nothing.
Fairness == WF_vars(WorkThread) /\ WF_vars(IoThread)

Spec == Init /\ [][Next]_vars /\ Fairness
-----------------------------------------------------------------------------
(* Properties *)

\* A business handler that answers anything has no child with a timer: what it asks of
\* a child while that closes by itself may come beside what it did instead.
ChildrenUntimed == \A s \in Settings : s.biz = "any" => s.timed \subseteq {0}

\* The work handlers never dereference a pointer they have given up: on_child finds
\* client_handler_, and the callbacks of a child find server_handler_ (the
\* assertions of client_work).
NeverNull ==
  ~opening /\ workq # <<>> /\ Active(Head(workq).h) =>
    LET x == Head(workq) IN
    /\ x.h = Parent /\ x.ev \in {"open", "read"} => child # 0
    /\ x.h \in Children /\ x.cb # "close" => x.h \in parent

\* The relay keeps one operation of a handler under way, which is what its one i/o
\* timer and its one buffer need.
OneOperation ==
  \A h \in Handlers :
    Cardinality(pend[h])
      + Cardinality({i \in 1..Len(ioq) : ioq[i].h = h /\ ioq[i].do \in Ops \cup {"read_i", "write_i"}})
      + Cardinality({i \in 1..Len(workq) : workq[i].h = h /\ workq[i].cb \in {"open", "read", "write"}})
    <= 1

\* Parent and child point at each other; the cycle of their shared_ptrs is broken
\* on both sides when they are closed, or neither goes back to its pool.
CycleBroken ==
  /\ state[Parent] = "closed" => child = 0
  /\ \A k \in parent : state[k] # "closed"

\* What the peers send comes through the relay whole and in order: a write begins with
\* the byte behind the last one that was written, and when the parent reads again all
\* that was read before has been passed on.
DataInOrder ==
  LET From(h) == IF setting.biz = "proxy" /\ h = Parent THEN "server" ELSE "client" IN
  setting.biz # "any" =>
    /\ \A h \in Handlers : \A x \in pend[h] :
         x.op = "write" => x.data = Stream(From(h), sent[WriterOf(h)], Len(x.data))
    /\ \A x \in pend[Parent] :
         x.op = "read" =>
           IF setting.biz = "proxy"
           THEN sent.child = got.client /\ sent.parent = got.server
           ELSE sent.parent = got.client

\* The assertions of io_buffer hold: nothing is copied to a smaller buffer, and as long
\* as its on_read or on_write has not run what a handler has read is not beyond the
\* space of its buffer, where produce() will put it, nor what it has written beyond the
\* data, from which consume() will take it.
BuffersFit ==
  /\ TypeOK
  /\ \A h \in Handlers :
       Len(buf[h].bytes) <= Room(h) /\ buf[h].begin <= Len(buf[h].bytes)
  /\ \A i \in 1..Len(workq) :
       LET x == workq[i] IN
       /\ x.cb = "read" => Len(x.data) <= B(Room(x.h))!Space(buf[x.h])
       /\ x.cb = "write" => Len(x.data) <= B(Room(x.h))!Size(buf[x.h])

\* The relay never loses its thread: while the parent lives somebody has something
\* to do for it, unless the business handler chose otherwise.
SomethingUnderWay ==
  Active(Parent) /\ setting.biz # "any" =>
    opening \/ ioq # <<>> \/ workq # <<>> \/ \E h \in Handlers : pend[h] # {}

\* "Notify child to close": a closed parent takes its children with it.
ParentClosesChild ==
  \A k \in Children : state[Parent] = "closed" /\ state[k] = "active" ~> state[k] = "closed"

\* "Notify parent to close": a child of the proxy that closes takes the parent with
\* it; and, as long as no timer interferes, the parent its child.
CloseTogether ==
  \A k \in Children :
    /\ setting.biz = "proxy" /\ state[k] = "closed" ~> state[Parent] = "closed"
    /\ setting.timed = {} /\ state[Parent] = "closed" /\ state[k] = "active"
         ~> state[k] = "closed"
=============================================================================
