---------------------------- MODULE SyncHandler ----------------------------
(***************************************************************************)
(* One sync_handler: a thread that calls connect, read, write or           *)
(* write_read and waits on the condition, the io thread that runs the      *)
(* operation, its timeout and close_i, and the thread that calls close().  *)
(* Calls are numbered, so that a wake-up can be told from the wake-up of   *)
(* another call.  asio is external; its aborted waits of the timer, which  *)
(* handle_timeout ignores whatever the state, are left out.  The object is *)
(* deleted, by the pool, only when no handler of it is queued or pending.  *)
(***************************************************************************)
EXTENDS Naturals, Sequences, FiniteSets

CONSTANTS
  Closing,   \* who may call close(): "nobody", the "caller" between its calls,
             \* or "anybody" at any time
  Duplex,    \* write_read is used
  MaxCalls,  \* bound: calls made
  MaxCloses  \* bound: calls of close()

ASSUME SyncHandlerAssumption ==
  /\ Closing \in {"nobody", "caller", "anybody"} /\ Duplex \in BOOLEAN
  /\ MaxCalls \in Nat /\ MaxCloses \in Nat

VARIABLES
  call,      \* number of the latest call
  waiting,   \* waiting_: a thread waits on condition_
  notified,  \* the waiting thread has been notified
  opened,    \* opened_
  duplex,    \* duplex_
  pending,   \* pending_
  ec,        \* ec_
  pend,      \* operations asio has not completed, with the number of their call
  timer,     \* the operation whose deadline the timer watches, or none
  ioq,       \* handlers queued on the io_service
  succeeded, \* calls whose operation completed without error
  closes     \* calls of close() so far

vars == <<call, waiting, notified, opened, duplex, pending, ec, pend, timer, ioq,
          succeeded, closes>>

Calls == {"connect", "reconnect", "read", "write"} \cup (IF Duplex THEN {"write_read"} ELSE {})
Operations == [op : {"connect", "read", "write"}, n : 1..MaxCalls]
NoTimer == [op |-> "none", n |-> 0]
Errors == {"ok", "err", "aborted"}
Items == [h : {"start"}, op : Calls, n : 1..MaxCalls, ec : {"ok"}]
           \cup [h : {"done", "timeout"}, op : {"connect", "read", "write"},
                 n : 1..MaxCalls, ec : Errors]
           \cup [h : {"close"}, op : {"none"}, n : {0}, ec : {"ok"}]

TypeOK ==
  /\ call \in 0..MaxCalls /\ closes \in 0..MaxCloses
  /\ {waiting, notified, opened, duplex, pending} \subseteq BOOLEAN
  /\ ec \in Errors \cup {"timed_out", "shut_down"}
  /\ pend \in Seq(Operations)
  /\ timer \in Operations \cup {NoTimer}
  /\ ioq \in Seq(Items)
  /\ succeeded \subseteq 1..MaxCalls

Init ==
  /\ call = 0 /\ waiting = FALSE /\ notified = FALSE
  /\ opened = FALSE /\ duplex = FALSE /\ pending = FALSE /\ ec = "shut_down"
  /\ pend = <<>> /\ timer = NoTimer /\ ioq = <<>> /\ succeeded = {} /\ closes = 0

Item(h, op, n, e) == [h |-> h, op |-> op, n |-> n, ec |-> e]
-----------------------------------------------------------------------------
(* The threads that use the handler *)

\* connect returns at once if the handler is open and need not reconnect, and every
\* call does if another one is waiting; else it posts its operation and waits.
Call(c) ==
  /\ ~waiting /\ call < MaxCalls
  /\ ~(c = "connect" /\ ec = "ok" /\ opened)
  /\ call' = call + 1
  /\ waiting' = TRUE /\ notified' = FALSE
  /\ ioq' = Append(ioq, Item("start", c, call', "ok"))
  /\ UNCHANGED <<opened, duplex, pending, ec, pend, timer, succeeded, closes>>

\* Mutant: the wait ends without a notification.
SpuriousReturn ==
  /\ waiting
  /\ waiting' = FALSE
  /\ UNCHANGED <<call, notified, opened, duplex, pending, ec, pend, timer, ioq,
                 succeeded, closes>>

\* condition_.wait returns and the call returns ec_.
Return ==
  /\ waiting /\ notified
  /\ waiting' = FALSE
  /\ UNCHANGED <<call, notified, opened, duplex, pending, ec, pend, timer, ioq,
                 succeeded, closes>>

Close ==
  /\ Closing = "anybody" \/ (Closing = "caller" /\ ~waiting)
  /\ closes < MaxCloses
  /\ closes' = closes + 1
  /\ ioq' = Append(ioq, Item("close", "none", 0, "ok"))
  /\ UNCHANGED <<call, waiting, notified, opened, duplex, pending, ec, pend, timer,
                 succeeded>>

-----------------------------------------------------------------------------
(* The io thread *)

\* notify_i: only a thread that waits now is woken.
Notify == notified' = waiting
NotNotify == UNCHANGED notified

Rest == Tail(ioq)
Aborted == [i \in 1..Len(pend) |-> Item("done", pend[i].op, pend[i].n, "aborted")]

\* close_socket: what is pending completes as aborted.
CloseSocket == opened' = FALSE /\ pend' = <<>> /\ ioq' = Rest \o Aborted
KeepSocket == ioq' = Rest /\ UNCHANGED <<opened, pend>>
Ignore == KeepSocket /\ UNCHANGED <<notified, duplex, pending, ec, timer, succeeded>>

\* set_timer.
SetTimer(op, n) == ec' = "ok" /\ pending' = TRUE /\ timer' = [op |-> op, n |-> n]
ClearTimer == pending' = FALSE /\ timer' = NoTimer

\* async_connect, async_read and async_write on the socket as it is.
StartOperation(op, n) ==
  /\ SetTimer(op, n)
  /\ pend' = Append(pend, [op |-> op, n |-> n])
  /\ ioq' = Rest
  /\ UNCHANGED <<opened, notified, succeeded>>

\* connect_i, which may fail to bind the socket to the local endpoint.
ConnectI(c, n) ==
  /\ c \in {"connect", "reconnect"}
  /\ \/ /\ opened /\ c = "connect"
        /\ Notify /\ succeeded' = succeeded \cup {n}
        /\ KeepSocket /\ UNCHANGED <<duplex, pending, ec, timer>>
     \/ /\ ~opened
        /\ StartOperation("connect", n) /\ UNCHANGED duplex
     \/ /\ opened /\ c = "reconnect"
        /\ SetTimer("connect", n)
        /\ opened' = FALSE /\ ioq' = Rest \o Aborted
        /\ pend' = <<[op |-> "connect", n |-> n]>>
        /\ UNCHANGED <<notified, duplex, succeeded>>
     \/ /\ ~opened \/ c = "reconnect"
        /\ CloseSocket /\ ec' = "err" /\ Notify
        /\ UNCHANGED <<duplex, pending, timer, succeeded>>

\* read_some_i, read_i, write_i, write_read_i
DataI(c, n) ==
  /\ c \in {"read", "write", "write_read"}
  /\ IF opened
     THEN duplex' = (c = "write_read") /\ StartOperation(IF c = "read" THEN c ELSE "write", n)
     ELSE Notify /\ KeepSocket /\ UNCHANGED <<duplex, pending, ec, timer, succeeded>>

HandleConnect(n, e) ==
  IF ec # "ok" THEN Ignore
  ELSE /\ ClearTimer /\ Notify /\ ec' = e /\ UNCHANGED duplex
       /\ IF e = "ok"
          THEN opened' = TRUE /\ ioq' = Rest /\ succeeded' = succeeded \cup {n} /\ UNCHANGED pend
          ELSE CloseSocket /\ UNCHANGED succeeded

\* Mutant of handle_read_write: an error does not close the socket.
OpenSocketReadWrite(op, n, e) ==
  IF ~opened \/ ec # "ok" THEN Ignore
  ELSE IF e = "ok" /\ duplex THEN duplex' = FALSE /\ StartOperation("read", n)
  ELSE /\ ClearTimer /\ Notify /\ KeepSocket /\ ec' = e /\ UNCHANGED duplex
       /\ succeeded' = IF e = "ok" THEN succeeded \cup {n} ELSE succeeded

\* handle_read_write.  A duplex call goes on to read after its write; the buffer can
\* differ in length only if its call has returned.
HandleReadWrite(op, n, e) ==
  IF ~opened \/ ec # "ok" THEN Ignore
  ELSE \/ /\ e # "ok"
          /\ ClearTimer /\ Notify /\ CloseSocket
          /\ ec' = e /\ UNCHANGED <<duplex, succeeded>>
       \/ /\ e = "ok" /\ duplex
          /\ duplex' = FALSE /\ StartOperation("read", n)
       \/ /\ e = "ok" /\ duplex /\ ~(waiting /\ call = n /\ op = "write")
          /\ ClearTimer /\ Notify /\ KeepSocket
          /\ ec' = "aborted" /\ UNCHANGED <<duplex, succeeded>>
       \/ /\ e = "ok" /\ ~duplex
          /\ ClearTimer /\ Notify /\ KeepSocket
          /\ ec' = "ok" /\ succeeded' = succeeded \cup {n} /\ UNCHANGED duplex

\* Mutant of handle_timeout: its error is not recorded.
SilentTimeout ==
  IF ec # "ok" \/ ~pending THEN Ignore
  ELSE CloseSocket /\ Notify /\ UNCHANGED <<ec, duplex, pending, timer, succeeded>>

HandleTimeout ==
  IF ec # "ok" \/ ~pending THEN Ignore
  ELSE CloseSocket /\ ec' = "timed_out" /\ Notify /\ UNCHANGED <<duplex, pending, timer, succeeded>>

\* Mutant: close_i does not notify.
QuietCloseI ==
  /\ ec' = "shut_down" /\ UNCHANGED <<duplex, succeeded, notified>>
  /\ IF pending \/ opened
     THEN ClearTimer /\ CloseSocket
     ELSE KeepSocket /\ UNCHANGED <<pending, timer>>

CloseI ==
  /\ ec' = "shut_down" /\ UNCHANGED <<duplex, succeeded>>
  /\ IF pending \/ opened
     THEN ClearTimer /\ CloseSocket /\ Notify
     ELSE KeepSocket /\ UNCHANGED <<notified, pending, timer>>

IoThread ==
  /\ ioq # <<>>
  /\ LET x == Head(ioq) IN
     \/ x.h = "start" /\ (ConnectI(x.op, x.n) \/ DataI(x.op, x.n))
     \/ x.h = "done" /\ x.op = "connect" /\ HandleConnect(x.n, x.ec)
     \/ x.h = "done" /\ x.op # "connect" /\ HandleReadWrite(x.op, x.n, x.ec)
     \/ x.h = "timeout" /\ HandleTimeout
     \/ x.h = "close" /\ CloseI
  /\ UNCHANGED <<call, waiting, closes>>

\* The peer or the network completes the i-th pending operation.
Complete ==
  /\ \E i \in 1..Len(pend), e \in {"ok", "err"} :
       /\ pend' = SubSeq(pend, 1, i - 1) \o SubSeq(pend, i + 1, Len(pend))
       /\ ioq' = Append(ioq, Item("done", pend[i].op, pend[i].n, e))
  /\ UNCHANGED <<call, waiting, notified, opened, duplex, pending, ec, timer,
                 succeeded, closes>>

Expire ==
  /\ timer # NoTimer
  /\ timer' = NoTimer
  /\ ioq' = Append(ioq, Item("timeout", timer.op, timer.n, "ok"))
  /\ UNCHANGED <<call, waiting, notified, opened, duplex, pending, ec, pend,
                 succeeded, closes>>
-----------------------------------------------------------------------------
Next ==
  \/ \E c \in Calls : Call(c)
  \/ Return \/ Close \/ IoThread \/ Complete \/ Expire

\* The io thread runs, a notified thread wakes up, and time passes.
Fairness == WF_vars(IoThread) /\ WF_vars(Return) /\ WF_vars(Expire)

Spec == Init /\ [][Next]_vars /\ Fairness
-----------------------------------------------------------------------------
(* Properties *)

\* "Notify for operation completed or aborted": when a call has returned and nobody
\* has called close(), its operation is over, neither queued nor pending, so the
\* next call and the caller's buffer are not shared with it.
NothingLeftBehind ==
  /\ TypeOK
  /\ ~waiting /\ closes = 0 => pend = <<>> /\ \A i \in 1..Len(ioq) : ioq[i].h # "start"

\* A call that returns no error has done what it was called for.
OkMeansDone == [][waiting /\ ~waiting' /\ ec = "ok" => call \in succeeded]_vars

\* The same as long as nobody has called close(): timeouts, errors and the second
\* half of write_read never hand a call the result of another one.
OwnResult == [][waiting /\ ~waiting' /\ ec = "ok" /\ closes = 0 => call \in succeeded]_vars

\* A handler with an error recorded is closed, so that a call that finds it open
\* finds it healthy (connect returns at once then).  Only a write_read that returned
\* early because of a close() may be aborted later with its socket open.
ErrorMeansClosed == ec # "ok" /\ (closes = 0 \/ ~Duplex) => ~opened

\* "If the asynchronous operation to be completed or closed, already notified, do
\* nothing": a timeout never ends another operation than the one it watched.
TimeoutIsOwn ==
  [][ec # "timed_out" /\ ec' = "timed_out" =>
       \A i \in 1..Len(pend) : pend[i].op = Head(ioq).op /\ pend[i].n = Head(ioq).n]_vars

\* Every call returns: whatever the peer does, the timeout ends its operation.
CallsReturn == waiting ~> ~waiting
=============================================================================
