----------------------------- MODULE EchoClient -----------------------------
(***************************************************************************)
(* The echo example's client: client_work, the work handler of a           *)
(* service_handler that connects, pauses, writes one message, reads the    *)
(* answer and closes, again and again in the rounds of connections.        *)
(* The steps of the handler are those of ServiceHandler; its callbacks are *)
(* the ones below.  The pause timer is waited for on the io thread, while  *)
(* the callbacks that set and reset timer_ run on the work thread.         *)
(***************************************************************************)
EXTENDS ServiceHandler

CONSTANT Pauses  \* the values pause_time_ # 0 may have

ASSUME EchoClientAssumption == Pauses # {} /\ Pauses \subseteq BOOLEAN

VARIABLES
  pause,    \* pause_time_ # 0
  timer,    \* timer_ is not null
  pausing,  \* the wait on it is pending at asio, and holds a reference
  buffer,   \* the read buffer: empty, the whole message, or anything else
  reason,   \* the error_code for on_close, and whether on_close has dealt with it
  timeouts, \* error_count: timeout_count_
  errors,   \* error_count: error_count_
  served    \* sessions whose message came back as a whole

counters == <<timeouts, errors, served>>
clientVars == <<pause, timer, pausing, buffer, reason, counters>>
echoVars == <<vars, clientVars>>

EchoInit ==
  /\ Init
  /\ pause \in Pauses /\ timer = FALSE /\ pausing = FALSE
  /\ buffer = "empty" /\ reason = "none"
  /\ timeouts = 0 /\ errors = 0 /\ served = 0
-----------------------------------------------------------------------------
(* run_once: the handlers are taken from the pool and connected *)

\* Mutant: bind leaves the buffers as they are.
StaleBind ==
  /\ Bind
  /\ reason' = "none"
  /\ UNCHANGED <<pause, timer, pausing, buffer, counters>>

\* bind clears the buffers.
EchoBind ==
  /\ Bind
  /\ buffer' = "empty" /\ reason' = "none"
  /\ UNCHANGED <<pause, timer, pausing, counters>>

EchoConnect == Connect /\ UNCHANGED clientVars

\* The pending wait holds a reference as well.
EchoRecycle == ~pausing /\ Recycle /\ UNCHANGED clientVars
-----------------------------------------------------------------------------
(* The io thread *)

\* The first close_i gives its error_code to do_close.
Reason ==
  IF stopped' = stopped THEN reason
  ELSE IF Head(ioq).h \in Timers THEN "timed_out" ELSE "other"

EchoIo == IoThread /\ reason' = Reason /\ UNCHANGED <<pause, timer, pausing, buffer, counters>>

\* A read of timer_ by the io thread while on_close may reset it.
TimerReads == IF callback = "close" THEN BOOLEAN ELSE {timer}

\* Mutant: the write is started without the test of stopped_.
UncheckedPauseOver ==
  /\ IoHead("pause")
  /\ IF Head(ioq).ec = "aborted" THEN Drop
     ELSE SetExpiry({"io"}) /\ pend' = pend \cup {"write"} /\ UNCHANGED <<stopped, workq>>
  /\ ioUnchanged /\ UNCHANGED clientVars

\* handle_timeout of client_work: async_write, whose dispatch runs async_write_i at
\* once in this thread.
PauseOver ==
  /\ IoHead("pause")
  /\ \E seen \in TimerReads :
       IF Head(ioq).ec = "aborted" \/ ~seen \/ stopped THEN Drop
       ELSE SetExpiry({"io"}) /\ pend' = pend \cup {"write"} /\ UNCHANGED <<stopped, workq>>
  /\ ioUnchanged /\ UNCHANGED clientVars

EchoComplete(op) == Complete(op) /\ UNCHANGED clientVars
EchoExpire(t) == Expire(t) /\ UNCHANGED clientVars

PauseExpires ==
  /\ pausing
  /\ pausing' = FALSE
  /\ ioq' = Append(ioq, Item("pause", "ok"))
  /\ UNCHANGED <<session, phase, stopped, pend, armed, workq, callback, busy, opened, closed,
                 held, ops, events, pause, timer, buffer, reason, counters>>
-----------------------------------------------------------------------------
(* The work thread *)

workUnchanged ==
  UNCHANGED <<session, phase, stopped, pend, armed, workq, busy, opened, closed, held, ops, events>>

\* deadline_timer::cancel, or the destruction of the timer.
CancelPause == IF pausing THEN Append(ioq, Item("pause", "aborted")) ELSE ioq

NextCallback == (DoWork \/ DoClose) /\ UNCHANGED clientVars

\* on_open clears the read buffer, as bind has, and arms a new timer, or writes at once.
OnOpenPause ==
  /\ callback = "open" /\ pause
  /\ buffer' = "empty"
  /\ timer' = TRUE /\ pausing' = TRUE
  /\ ioq' = CancelPause
  /\ callback' = "idle"
  /\ workUnchanged /\ UNCHANGED <<pause, reason, counters>>
OnOpen ==
  /\ callback = "open" /\ ~pause
  /\ buffer' = "empty"
  /\ CallOp("write")
  /\ UNCHANGED <<pause, timer, pausing, reason, counters>>

\* on_write resets timer_, whose wait is over, and reads.
OnWrite ==
  /\ callback = "write"
  /\ CallOp("read")
  /\ timer' = FALSE
  /\ UNCHANGED <<pause, pausing, buffer, reason, counters>>

\* on_read takes what came, be it a part of the message, and closes.
OnRead ==
  /\ callback = "read"
  /\ CallClose
  /\ buffer' \in {"whole", "other"}
  /\ served' = served + (IF buffer' = "whole" THEN 1 ELSE 0)
  /\ UNCHANGED <<pause, timer, pausing, reason, timeouts, errors>>

\* Mutant: on_close leaves the timer alone.
UncancelledOnClose ==
  /\ callback = "close" /\ reason # "told"
  /\ timeouts' = timeouts + (IF reason = "timed_out" THEN 1 ELSE 0)
  /\ errors' = errors + (IF buffer # "whole" THEN 1 ELSE 0)
  /\ reason' = "told"
  /\ UNCHANGED callback /\ UNCHANGED ioq
  /\ workUnchanged /\ UNCHANGED <<pause, timer, pausing, buffer, served>>

\* on_close cancels the pause and counts; a timeout is counted as an error, too,
\* unless the whole message has come.
OnClose ==
  /\ callback = "close" /\ reason # "told"
  /\ timer' = FALSE /\ pausing' = FALSE
  /\ ioq' = CancelPause
  /\ timeouts' = timeouts + (IF reason = "timed_out" THEN 1 ELSE 0)
  /\ errors' = errors + (IF buffer # "whole" THEN 1 ELSE 0)
  /\ reason' = "told"
  /\ UNCHANGED callback
  /\ workUnchanged /\ UNCHANGED <<pause, buffer, served>>

CallbackReturns ==
  /\ \/ callback = "open" /\ ~pause /\ "write" \in busy
     \/ callback = "write" /\ "read" \in busy
     \/ callback = "close" /\ reason = "told"
  /\ Return
  /\ UNCHANGED clientVars

EchoWork ==
  NextCallback \/ OnOpenPause \/ OnOpen \/ OnWrite \/ OnRead \/ OnClose \/ CallbackReturns
-----------------------------------------------------------------------------
EchoNext ==
  \/ EchoBind \/ EchoConnect \/ EchoRecycle
  \/ EchoIo \/ PauseOver \/ PauseExpires \/ EchoWork
  \/ \E op \in Ops : EchoComplete(op)
  \/ \E t \in Timers : EchoExpire(t)

\* Both threads run, time passes, and a handler without references returns to its
\* pool.  The server need not answer.
EchoFairness ==
  /\ WF_echoVars(EchoConnect) /\ WF_echoVars(EchoIo) /\ WF_echoVars(PauseOver)
  /\ WF_echoVars(EchoWork) /\ WF_echoVars(EchoRecycle) /\ WF_echoVars(PauseExpires)
  /\ \A t \in Timers : WF_echoVars(EchoExpire(t))

EchoSpec == EchoInit /\ [][EchoNext]_echoVars /\ EchoFairness
-----------------------------------------------------------------------------
(* Properties *)

\* The end of the pause, seen by a thread that does not own the session, starts a
\* write only in an open session and beside no other operation.
PauseIsHarmless ==
  [][\A op \in {"read", "write"} \cap (pend' \ pend) :
       opened /\ ~stopped /\ pend = {} /\ closed = 0]_echoVars

\* A pause never outlives its session, whose handler it would keep from the pool.
PauseEndsWithSession == pausing => phase = "run" /\ opened /\ reason # "told"

\* "connections failed": when a session is over, it is counted as failed unless the
\* whole message came back in it, whatever the earlier session of the same handler
\* has left in the buffer.
FailuresCounted == phase = "free" => errors = session - served

\* run_once comes to its end although the server never answers and the pause may be
\* longer than the session timeout.
SessionOver == phase = "run" ~> phase = "free"
=============================================================================
