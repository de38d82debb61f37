--------------------------- MODULE ServiceHandler ---------------------------
(***************************************************************************)
(* One service_handler object over its sessions: the io thread that runs   *)
(* its asio completions, the work thread that runs the callbacks of its    *)
(* work handler, and the thread that accepts or connects it.               *)
(* Each thread owns one io_service, a FIFO of bound handlers.  A handler   *)
(* that is queued or pending holds a reference (shared_from_this).         *)
(* asio is external: an operation whose completion is already queued has   *)
(* its result fixed, so cancelling it afterwards changes nothing.          *)
(***************************************************************************)
EXTENDS Naturals, Sequences, FiniteSets

CONSTANTS
  SessionTimeout,  \* session_timeout_ # 0
  IoTimeout,       \* io_timeout_ # 0
  Outstanding,     \* reads and writes the work handler keeps in flight at once
  Linked,          \* another handler may hold a reference to this one
  MaxSessions,     \* bound: sessions of the object
  MaxOps,          \* bound: operations the work handler starts per session
  MaxEvents        \* bound: calls another handler makes per session

ASSUME ServiceHandlerAssumption ==
  /\ SessionTimeout \in BOOLEAN /\ IoTimeout \in BOOLEAN /\ Linked \in BOOLEAN
  /\ Outstanding \in 1..2
  /\ MaxSessions \in Nat /\ MaxOps \in Nat /\ MaxEvents \in Nat

VARIABLES
  session,  \* number of sessions begun
  phase,    \* free (in the pool), bound, starting (inside start()), run
  stopped,  \* stopped_
  pend,     \* operations asio has not completed
  armed,    \* timers with a wait that has neither expired nor been cancelled
  ioq,      \* handlers queued on io_service_
  workq,    \* handlers queued on work_service_
  callback, \* the callback the work thread is in, or "idle"
  busy,     \* operations the work handler has started and not seen completed
  opened,   \* on_open was called
  closed,   \* how often on_close was called
  held,     \* a linked handler holds a reference
  ops,      \* operations started in this session
  events    \* calls of the linked handler in this session

vars == <<session, phase, stopped, pend, armed, ioq, workq, callback, busy,
          opened, closed, held, ops, events>>

Ops == {"connect", "read", "write"}
Timers == {"session", "io"}
\* pause: the timer of a work handler that waits on the same io_service, as EchoClient's.
IoHandlers == {"connect_i", "read_i", "write_i", "close_i", "pause"} \cup Ops \cup Timers
Results == {"ok", "err", "aborted", "timed_out"}
IoItems == [h : IoHandlers, ec : Results]
WorkHandlers == {"open", "read", "write", "event", "close"}

TypeOK ==
  /\ session \in Nat
  /\ phase \in {"free", "bound", "starting", "run"}
  /\ stopped \in BOOLEAN
  /\ pend \subseteq Ops
  /\ armed \subseteq Timers
  /\ ioq \in Seq(IoItems)
  /\ workq \in Seq(WorkHandlers)
  /\ callback \in WorkHandlers \cup {"idle"}
  /\ busy \subseteq {"read", "write"}
  /\ opened \in BOOLEAN
  /\ closed \in Nat
  /\ held \in BOOLEAN
  /\ ops \in Nat /\ events \in Nat

Init ==
  /\ session = 0 /\ phase = "free" /\ stopped = TRUE
  /\ pend = {} /\ armed = {} /\ ioq = <<>> /\ workq = <<>>
  /\ callback = "idle" /\ busy = {} /\ opened = FALSE /\ closed = 0
  /\ held = FALSE /\ ops = 0 /\ events = 0
-----------------------------------------------------------------------------
(* asio *)

Item(h, ec) == [h |-> h, ec |-> ec]

\* The aborted completion of x, if x is in S.
AbortOne(S, x) == IF x \in S THEN <<Item(x, "aborted")>> ELSE <<>>

\* deadline_timer::cancel: a wait that is still pending completes as aborted.
AbortWaits(S) == AbortOne(S, "session") \o AbortOne(S, "io")

\* socket::close: every pending operation completes as aborted.
AbortOps(S) == AbortOne(S, "read") \o AbortOne(S, "write") \o AbortOne(S, "connect")

\* A read of stopped_ by a thread other than the io thread.  The flag is a plain
\* bool that the io thread may have just set; the queued do_close orders it.
StoppedReads == IF stopped /\ closed = 0 THEN BOOLEAN ELSE {stopped}
-----------------------------------------------------------------------------
(* The pool and the thread that starts the session *)

\* get_service_handler, bind
Bind ==
  /\ phase = "free" /\ session < MaxSessions
  /\ session' = session + 1
  /\ phase' = "bound"
  /\ stopped' = FALSE
  /\ busy' = {} /\ opened' = FALSE /\ closed' = 0 /\ ops' = 0 /\ events' = 0
  /\ UNCHANGED <<pend, armed, ioq, workq, callback, held>>

\* Mutant: start() without set_session_expiry.
UntimedStart ==
  /\ phase = "bound"
  /\ phase' = "starting"
  /\ UNCHANGED <<session, stopped, pend, armed, ioq, workq, callback, busy,
                 opened, closed, held, ops, events>>

\* server::handle_accept without error, first half of start(): set_session_expiry.
StartAccepted ==
  /\ phase = "bound"
  /\ phase' = "starting"
  /\ armed' = IF SessionTimeout THEN armed \cup {"session"} ELSE armed
  /\ UNCHANGED <<session, stopped, pend, ioq, workq, callback, busy, opened,
                 closed, held, ops, events>>

\* Second half of start(), still on the acceptor's thread: post do_open.
PostOpen ==
  /\ phase = "starting"
  /\ phase' = "run"
  /\ workq' = Append(workq, "open")
  /\ UNCHANGED <<session, stopped, pend, armed, ioq, callback, busy, opened,
                 closed, held, ops, events>>

\* server::handle_accept with an error: close(ec).
AcceptFails ==
  /\ phase = "bound"
  /\ phase' = "run"
  /\ ioq' = Append(ioq, Item("close_i", "err"))
  /\ UNCHANGED <<session, stopped, pend, armed, workq, callback, busy, opened,
                 closed, held, ops, events>>

\* client::connect: dispatch connect_i.  With a parent handler, the parent has
\* been given a pointer to this one (set_child).
Connect ==
  /\ phase = "bound"
  /\ phase' = "run"
  /\ ioq' = Append(ioq, Item("connect_i", "ok"))
  /\ held' \in {FALSE, Linked}
  /\ UNCHANGED <<session, stopped, pend, armed, workq, callback, busy, opened,
                 closed, ops, events>>

\* Nothing refers to the handler any more.
NoReference ==
  /\ phase = "run" /\ ~held
  /\ ioq = <<>> /\ workq = <<>> /\ callback = "idle"
  /\ pend = {} /\ armed = {}

\* The deleter of the last shared_ptr: put_handler, clear.
Recycle ==
  /\ NoReference
  /\ phase' = "free"
  /\ UNCHANGED <<session, stopped, pend, armed, ioq, workq, callback, busy,
                 opened, closed, held, ops, events>>
-----------------------------------------------------------------------------
(* The io thread: the handler at the head of ioq *)

IoHead(h) == ioq # <<>> /\ Head(ioq).h = h

\* The handler at the head is done; the completions in r were queued meanwhile.
Done(r) == ioq' = Tail(ioq) \o r
Drop == Done(<<>>) /\ UNCHANGED <<stopped, pend, armed, workq>>

\* Mutants: close_i without the test of stopped_, and without closing the socket.
RepeatedCloseI ==
  /\ stopped' = TRUE
  /\ Done(AbortOps(pend) \o AbortWaits(armed))
  /\ pend' = {} /\ armed' = {}
  /\ workq' = Append(workq, "close")
OpenSocketCloseI ==
  IF stopped THEN Drop
  ELSE /\ stopped' = TRUE
       /\ Done(AbortWaits(armed))
       /\ armed' = {}
       /\ workq' = Append(workq, "close")
       /\ UNCHANGED pend

\* close_i(ec) run inside the handler at the head of ioq.
CloseI ==
  IF stopped THEN Drop
  ELSE /\ stopped' = TRUE
       /\ Done(AbortOps(pend) \o AbortWaits(armed))
       /\ pend' = {} /\ armed' = {}
       /\ workq' = Append(workq, "close")

ioUnchanged == UNCHANGED <<session, phase, callback, busy, opened, closed, held, ops, events>>

Enabled(t) == IF t = "session" THEN SessionTimeout ELSE IoTimeout

\* expires_from_now and async_wait on the timers of S that exist.
SetExpiry(S) ==
  LET T == {t \in S : Enabled(t)}
  IN  /\ armed' = armed \cup T
      /\ Done(AbortWaits(armed \cap T))

\* connect_i, whose local bind may fail.
ConnectI ==
  /\ IoHead("connect_i")
  /\ \/ CloseI
     \/ SetExpiry(Timers) /\ pend' = pend \cup {"connect"} /\ UNCHANGED <<stopped, workq>>
  /\ ioUnchanged

\* Mutant: an operation started without the test of stopped_.
UncheckedStartOp(op) ==
  /\ IoHead(IF op = "read" THEN "read_i" ELSE "write_i")
  /\ SetExpiry({"io"}) /\ pend' = pend \cup {op} /\ UNCHANGED <<stopped, workq>>
  /\ ioUnchanged

\* async_read_some_i, async_read_i, async_write_i
StartOp(op) ==
  /\ IoHead(IF op = "read" THEN "read_i" ELSE "write_i")
  /\ IF stopped THEN Drop
     ELSE SetExpiry({"io"}) /\ pend' = pend \cup {op} /\ UNCHANGED <<stopped, workq>>
  /\ ioUnchanged

CloseRequest == IoHead("close_i") /\ CloseI /\ ioUnchanged

\* handle_connect: on success start() sets the session timer again and posts do_open.
HandleConnect ==
  /\ IoHead("connect")
  /\ IF stopped THEN Drop
     ELSE IF Head(ioq).ec = "ok"
          THEN LET renewed == {t \in {"session"} : Enabled(t)} IN
               /\ Done(AbortWaits(armed \cap {"io"}) \o AbortWaits(armed \cap renewed))
               /\ armed' = (armed \ {"io"}) \cup renewed
               /\ workq' = Append(workq, "open")
               /\ UNCHANGED <<stopped, pend>>
          ELSE CloseI
  /\ ioUnchanged

\* handle_read, handle_write.  On error close_i cancels the i/o timer as well.
HandleOp(op) ==
  /\ IoHead(op)
  /\ IF stopped THEN Drop
     ELSE IF Head(ioq).ec = "ok"
          THEN /\ Done(AbortWaits(armed \cap {"io"}))
               /\ armed' = armed \ {"io"}
               /\ workq' = Append(workq, op)
               /\ UNCHANGED <<stopped, pend>>
          ELSE CloseI
  /\ ioUnchanged

\* Mutant: handle_timeout takes every result for a cancelled timer.
IgnoredTimeout(t) == IoHead(t) /\ Drop /\ ioUnchanged

HandleTimeout(t) ==
  /\ IoHead(t)
  /\ IF stopped \/ Head(ioq).ec = "aborted" THEN Drop ELSE CloseI
  /\ ioUnchanged

IoThread ==
  \/ ConnectI \/ CloseRequest \/ HandleConnect
  \/ \E op \in {"read", "write"} : StartOp(op) \/ HandleOp(op)
  \/ \E t \in Timers : HandleTimeout(t)

\* The peer or the network completes an operation.
Complete(op) ==
  /\ op \in pend
  /\ pend' = pend \ {op}
  /\ \E ec \in {"ok", "err"} : ioq' = Append(ioq, Item(op, ec))
  /\ UNCHANGED <<session, phase, stopped, armed, workq, callback, busy, opened,
                 closed, held, ops, events>>

\* The deadline of a timer passes.
Expire(t) ==
  /\ t \in armed
  /\ armed' = armed \ {t}
  /\ ioq' = Append(ioq, Item(t, "ok"))
  /\ UNCHANGED <<session, phase, stopped, pend, workq, callback, busy, opened,
                 closed, held, ops, events>>
-----------------------------------------------------------------------------
(* The work thread *)

\* do_open, do_read, do_write, do_parent and do_child: skipped if stopped.
DoWork ==
  /\ callback = "idle" /\ workq # <<>> /\ Head(workq) # "close"
  /\ workq' = Tail(workq)
  /\ \E seen \in StoppedReads :
       IF seen THEN UNCHANGED <<callback, busy, opened>>
       ELSE /\ callback' = Head(workq)
            /\ busy' = busy \ {Head(workq)}
            /\ opened' = (opened \/ Head(workq) = "open")
  /\ UNCHANGED <<session, phase, stopped, pend, armed, ioq, closed, held, ops, events>>

DoClose ==
  /\ callback = "idle" /\ workq # <<>> /\ Head(workq) = "close"
  /\ workq' = Tail(workq)
  /\ callback' = "close"
  /\ closed' = closed + 1
  /\ UNCHANGED <<session, phase, stopped, pend, armed, ioq, busy, opened, held, ops, events>>

\* The callback calls async_read*, async_write*: dispatch to the io thread.
CallOp(op) ==
  /\ callback \notin {"idle", "close"} /\ opened
  /\ op \notin busy /\ Cardinality(busy) < Outstanding /\ ops < MaxOps
  /\ busy' = busy \cup {op} /\ ops' = ops + 1
  /\ ioq' = Append(ioq, Item(IF op = "read" THEN "read_i" ELSE "write_i", "ok"))
  /\ UNCHANGED <<session, phase, stopped, pend, armed, workq, callback, opened,
                 closed, held, events>>

\* close(ec), from a callback or for a buffer that is empty or full.
Close(ec) ==
  \E seen \in StoppedReads :
    ioq' = IF seen THEN ioq ELSE Append(ioq, Item("close_i", ec))

\* The callback connects a child, which gets a pointer to this handler (set_parent).
CallConnectChild ==
  /\ callback \notin {"idle", "close"} /\ opened
  /\ Linked /\ ~held /\ events < MaxEvents
  /\ held' = TRUE /\ events' = events + 1
  /\ UNCHANGED <<session, phase, stopped, pend, armed, ioq, workq, callback, busy,
                 opened, closed, ops>>

\* The callback closes the handler and returns.
CallClose ==
  /\ callback \notin {"idle", "close"}
  /\ Close("ok")
  /\ callback' = "idle"
  /\ UNCHANGED <<session, phase, stopped, pend, armed, workq, busy, opened,
                 closed, held, ops, events>>

\* The callback returns; after on_close, do_close destroys the timers.
Return ==
  /\ callback # "idle"
  /\ callback' = "idle"
  /\ IF callback = "close"
     THEN armed' = {} /\ ioq' = ioq \o AbortWaits(armed)
     ELSE UNCHANGED <<armed, ioq>>
  /\ UNCHANGED <<session, phase, stopped, pend, workq, busy, opened, closed,
                 held, ops, events>>

WorkThread ==
  \/ DoWork \/ DoClose
  \/ \E op \in {"read", "write"} : CallOp(op)
  \/ CallConnectChild \/ CallClose \/ Return
-----------------------------------------------------------------------------
(* A linked handler: parent_post, child_post, close, and dropping its pointer *)

PostEvent ==
  /\ held /\ events < MaxEvents
  /\ events' = events + 1
  /\ workq' = Append(workq, "event")
  /\ UNCHANGED <<session, phase, stopped, pend, armed, ioq, callback, busy,
                 opened, closed, held, ops>>

LinkedClose ==
  /\ held /\ events < MaxEvents
  /\ events' = events + 1
  /\ Close("ok")
  /\ UNCHANGED <<session, phase, stopped, pend, armed, workq, callback, busy,
                 opened, closed, held, ops>>

Unlink ==
  /\ held
  /\ held' = FALSE
  /\ UNCHANGED <<session, phase, stopped, pend, armed, ioq, workq, callback,
                 busy, opened, closed, ops, events>>
-----------------------------------------------------------------------------
Starter == StartAccepted \/ PostOpen \/ AcceptFails \/ Connect
LinkedHandler == PostEvent \/ LinkedClose \/ Unlink

Next ==
  \/ Bind \/ Recycle \/ Starter \/ IoThread \/ WorkThread \/ LinkedHandler
  \/ \E op \in Ops : Complete(op)
  \/ \E t \in Timers : Expire(t)

\* Both threads keep running their io_service, a start() that began ends, time
\* passes, and a linked handler lets go in the end.  The peer owes nothing.
Fairness ==
  /\ WF_vars(IoThread) /\ WF_vars(WorkThread)
  /\ WF_vars(PostOpen) /\ WF_vars(Recycle) /\ WF_vars(Unlink)
  /\ \A t \in Timers : WF_vars(Expire(t))

Spec == Init /\ [][Next]_vars /\ Fairness
-----------------------------------------------------------------------------
(* Properties *)

\* A closed handler has nothing left at asio: async_*_i and the completions
\* check stopped_, and close_i closes the socket and cancels both timers, so
\* the object never waits for the peer before it returns to the pool.
StoppedIsQuiet == stopped => pend = {} /\ armed = {}

\* From close_i on exactly one do_close is queued or on_close has been called.
CloseIndices == {i \in 1..Len(workq) : workq[i] = "close"}
ClosedOnce == phase # "free" => Cardinality(CloseIndices) + closed = IF stopped THEN 1 ELSE 0

\* With a session timeout, a started session that is not stopped always has
\* something on the way that closes it: the session timer, or a queued handler.
SessionIsGuarded ==
  SessionTimeout /\ phase \in {"starting", "run"} /\ ~stopped =>
    \/ "session" \in armed
    \/ \E i \in 1..Len(ioq) :
         \/ ioq[i].h \in {"connect_i", "close_i"}
         \/ ioq[i].h = "session" /\ ioq[i].ec = "ok"

\* A pending operation is watched by the i/o timer (set_io_expiry before each
\* operation): the timer runs, or its expiry is already queued.
PendingIsTimed ==
  IoTimeout /\ pend # {} =>
    "io" \in armed \/ \E i \in 1..Len(ioq) : ioq[i].h = "io" /\ ioq[i].ec = "ok"

\* An i/o timeout closes the handler only while an operation is unfinished, that
\* is pending or completed and not yet handled: its completion handler cancels the
\* timer "even if expired" and handle_timeout ignores a cancelled timer.
TimeoutMeansUnfinished ==
  [][IoHead("io") /\ stopped' # stopped =>
       pend # {} \/ \E i \in 1..Len(ioq) : ioq[i].h \in Ops]_vars

\* The callbacks of a session come in the order of Session, and the object is
\* recycled only after on_close unless no session timeout keeps it alive.
Promise == INSTANCE Session WITH
  MayDrop <- ~SessionTimeout,
  running <- callback,
  life <- IF phase = "free" THEN "free"
          ELSE IF closed > 0 THEN "closed"
          ELSE IF opened THEN "opened" ELSE "bound"
CallbackOrder == Promise!SSpec

\* With a session timeout a started session is closed, whatever the peer and
\* the work handler do.
SessionEnds == phase = "run" ~> closed > 0

\* After close_i the object returns to the pool without waiting for the peer.
StoppedIsRecycled == (stopped /\ phase # "free") ~> phase = "free"
=============================================================================
