------------------------------- MODULE Server -------------------------------
(***************************************************************************)
(* The server: its accept chains on the acceptor's io_service, the delay   *)
(* timer they share when the handler pool is exhausted, and start(), run() *)
(* and stop() called from two threads.  An accept chain is one of the      *)
(* accept_queue_length_ calls of accept_one: at any moment it is a queued  *)
(* accept_one_i, a pending accept, or a wait on the delay timer.           *)
(* asio is external: closing the acceptor aborts the pending accepts, and  *)
(* an accept on a closed acceptor fails at once.  The chains get their     *)
(* handlers from HandlerPool, whose actions are steps of this module's:    *)
(* the constructor fills the pool, a session's end returns its handler,    *)
(* the destructor closes the pool while sessions may go on.  Sessions run  *)
(* on the io_service_group: the server's own, which it starts and stops    *)
(* itself, or one of the program's, which the program starts and stops     *)
(* whenever it likes, and without which start() and stop() do nothing.     *)
(***************************************************************************)
EXTENDS HandlerPool, Sequences, FiniteSets

CONSTANTS
  QueueLength,   \* accept_queue_length_
  AcceptErrors,  \* an accept may fail although the acceptor is open
  MaxStarts      \* bound: calls of start() or run()

ASSUME ServerAssumption ==
  /\ QueueLength \in Nat \ {0} /\ MaxStarts \in Nat
  /\ AcceptErrors \in BOOLEAN

VARIABLES
  block,    \* block_: run() or start()
  main,     \* where the thread in start() or run() is
  stopper,  \* where the thread in stop() is
  started,  \* started_
  open,     \* the acceptor is open
  work,     \* acceptor_service_pool_ has its work object
  thread,   \* the thread of acceptor_service_pool_ is in io_service::run
  q,        \* handlers queued on the acceptor's io_service
  pending,  \* accepts pending at asio
  armed,    \* a wait on timer_ is pending
  failed,   \* an accept failed while the acceptor was open
  asked,    \* stop() was called since the last start: not, only before the acceptor's
            \* pool was started, or since
  starts,   \* calls of start() or run() so far
  unbound,  \* a bind has failed: the acceptor is left open, not bound and not listening
  group,    \* the io_service_group: the server's own, or one of the program's, which is
            \* started or not
  life      \* the server object: not constructed, alive, in its destructor, or gone

serverVars == <<block, main, stopper, started, open, work, thread, q, pending, armed,
                failed, asked, starts, unbound, group, life>>
vars == <<serverVars, poolVars>>

Steps == {"off", "prepared", "marked", "threaded"}
Queueable == {"accept_one", "accept_ok", "accept_err", "accept_abort",
              "timer_ok", "timer_abort", "close"}

TypeOK ==
  /\ main \in Steps /\ stopper \in {"off", "stopping", "joining"}
  /\ {block, started, open, work, thread, armed, failed} \subseteq BOOLEAN
  /\ q \in Seq(Queueable) /\ asked \in {"no", "early", "yes"}
  /\ group \in {"none", "own", "up", "down"}
  /\ pending \in 0..QueueLength /\ starts \in 0..MaxStarts
  /\ unbound \in BOOLEAN /\ life \in {"none", "alive", "dying", "dead"}
  /\ PoolTypeOK

Init ==
  /\ main = "off" /\ stopper = "off" /\ block = FALSE
  /\ started = FALSE /\ open = FALSE /\ work = FALSE /\ thread = FALSE
  /\ q = <<>> /\ pending = 0 /\ armed = FALSE
  /\ failed = FALSE /\ asked = "no" /\ starts = 0
  /\ unbound = FALSE /\ life = "none" /\ group = "none"
  /\ PoolEmpty

Repeat(x, n) == [i \in 1..n |-> x]

\* Handlers taken for an accept that is not over, and those in a session, or closing
\* after a failed accept.
Accepting == pending + Cardinality({i \in 1..Len(q) : q[i] \in {"accept_ok", "accept_err", "accept_abort"}})
Sessions == inUse - Accepting
-----------------------------------------------------------------------------
(* The constructor and the destructor *)

\* Both constructors fill the pool; one makes a group of the server's own.
Construct ==
  /\ life = "none"
  /\ life' = "alive"
  /\ group' \in {"own", "up", "down"}
  /\ InitPool
  /\ UNCHANGED <<block, main, stopper, started, open, work, thread, q, pending, armed,
                 failed, asked, starts, unbound>>

\* ~server calls stop() first, which does nothing without a started group: a program
\* that destroys a started server has its group started.
DestroyBegin ==
  /\ life = "alive" /\ main = "off" /\ stopper = "off"
  /\ started => group # "down"
  /\ life' = "dying"
  /\ IF started THEN asked' = "yes" /\ stopper' = "stopping" /\ q' = Append(q, "close")
                ELSE UNCHANGED <<asked, stopper, q>>
  /\ UNCHANGED <<block, main, started, open, work, thread, pending, armed, failed,
                 starts, unbound, group, poolVars>>

\* Then it closes the pool; sessions that still run keep the pool object alive.
DestroyPool ==
  /\ life = "dying" /\ stopper = "off"
  /\ life' = "dead"
  /\ ClearBegin
  /\ UNCHANGED <<block, main, stopper, started, open, work, thread, q, pending, armed,
                 failed, asked, starts, unbound, group>>
-----------------------------------------------------------------------------
(* start() and run() *)

\* start() returns at once unless the server is stopped and its group runs, or is its
\* own; the open() of an acceptor that is open throws.
MayStart ==
  /\ life = "alive" /\ main = "off" /\ stopper = "off" /\ starts < MaxStarts
  /\ ~started /\ group # "down"
  /\ ~open

\* Open, bind and listen, then accept_one for each chain: the io_service does not
\* run yet, so dispatch queues.
Prepare(blocking) ==
  /\ MayStart
  /\ starts' = starts + 1
  /\ main' = "prepared"
  /\ open' = TRUE /\ failed' = FALSE /\ asked' = "no"
  /\ q' = q \o Repeat("accept_one", QueueLength)
  /\ block' = blocking
  /\ UNCHANGED <<stopper, started, work, thread, pending, armed, unbound, group, life,
                 poolVars>>

\* bind fails: start() returns, and the acceptor stays open.
BindFails ==
  /\ MayStart
  /\ starts' = starts + 1
  /\ open' = TRUE /\ unbound' = TRUE
  /\ UNCHANGED <<block, main, stopper, started, work, thread, q, pending, armed,
                 failed, asked, group, life, poolVars>>

\* run() sets started_ before the pool is started.
MarkStarted ==
  /\ block /\ main = "prepared"
  /\ started' = TRUE
  /\ main' = "marked"
  /\ UNCHANGED <<block, stopper, open, work, thread, q, pending, armed, failed,
                 asked, starts, unbound, group, life, poolVars>>

\* io_service_pool::start with the one io_service of the acceptor.
StartPool ==
  /\ main = IF block THEN "marked" ELSE "prepared"
  /\ work' = TRUE /\ thread' = TRUE
  /\ main' = "threaded"
  /\ UNCHANGED <<block, stopper, started, open, q, pending, armed, failed,
                 asked, starts, unbound, group, life, poolVars>>

\* start() sets started_ after the pool is started, and returns.
Started ==
  /\ ~block /\ main = "threaded"
  /\ started' = TRUE
  /\ main' = "off"
  /\ UNCHANGED <<block, stopper, open, work, thread, q, pending, armed, failed,
                 asked, starts, unbound, group, life, poolVars>>

\* run() has joined the acceptor's thread.
RunReturns ==
  /\ block /\ main = "threaded" /\ ~thread
  /\ started' = FALSE
  /\ main' = "off"
  /\ UNCHANGED <<block, stopper, open, work, thread, q, pending, armed, failed,
                 asked, starts, unbound, group, life, poolVars>>

Starting == MarkStarted \/ StartPool \/ Started \/ RunReturns
-----------------------------------------------------------------------------
(* stop() *)

\* stop() returns at once unless the server is started and its group runs, or is its
\* own; then it dispatches the acceptor's close to its thread.  It is called once, and
\* again if the acceptor's pool was not yet started then.
StopCalled ==
  /\ life = "alive" /\ stopper = "off" /\ started /\ group # "down"
  /\ asked = "no" \/ (asked = "early" /\ main # "marked")
  /\ asked' = IF main = "marked" THEN "early" ELSE "yes"
  /\ stopper' = "stopping"
  /\ q' = Append(q, "close")
  /\ UNCHANGED <<block, main, started, open, work, thread, pending, armed, failed,
                 starts, unbound, group, life, poolVars>>

\* acceptor_service_pool_.stop() does nothing while the pool has no work object: a
\* stop() that comes between run()'s `started_ = true` and its pool is lost.  Only
\* start() leaves the waiting to stop().
StopPool ==
  /\ stopper = "stopping"
  /\ work' = FALSE
  /\ asked' = IF work THEN "yes" ELSE asked
  /\ stopper' = IF block THEN "off" ELSE "joining"
  /\ UNCHANGED <<block, main, started, open, thread, q, pending, armed, failed,
                 starts, unbound, group, life, poolVars>>

\* Mutant: stop() does not wait for the acceptor's thread.
UnjoinedStop ==
  /\ stopper = "joining"
  /\ started' = FALSE
  /\ stopper' = "off"
  /\ UNCHANGED <<block, main, open, work, thread, q, pending, armed, failed,
                 asked, starts, unbound, group, life, poolVars>>

\* stop() has joined the acceptor's thread.
StopReturns ==
  /\ stopper = "joining" /\ ~thread
  /\ started' = FALSE
  /\ stopper' = "off"
  /\ UNCHANGED <<block, main, open, work, thread, q, pending, armed, failed,
                 asked, starts, unbound, group, life, poolVars>>

Stopping == StopPool \/ StopReturns
-----------------------------------------------------------------------------
(* The acceptor's thread: the handler at the head of q *)

mainUnchanged ==
  UNCHANGED <<block, main, stopper, started, work, thread, asked, starts, unbound, group, life>>

\* async_accept: it fails at once on an acceptor that is not open.
AsyncAccept ==
  /\ IF open THEN pending' = pending + 1 /\ q' = Tail(q)
             ELSE q' = Append(Tail(q), "accept_err") /\ UNCHANGED pending
  /\ UNCHANGED armed

\* Mutant of accept_one_i: an exhausted pool ends the chain.
UndelayedAcceptOne ==
  /\ Get
  /\ IF answer' = "null" THEN q' = Tail(q) /\ UNCHANGED <<armed, pending>> ELSE AsyncAccept

\* accept_one_i: take a handler and accept with it.  Without one wait on the timer,
\* whose pending wait, if there is one, is cancelled.
AcceptOne ==
  /\ Get
  /\ IF answer' = "null"
     THEN /\ armed' = TRUE
          /\ q' = IF armed THEN Append(Tail(q), "timer_abort") ELSE Tail(q)
          /\ UNCHANGED pending
     ELSE AsyncAccept

ChainEnds == q' = Tail(q) /\ UNCHANGED <<armed, pending, poolVars>>

FirstAccept ==
  /\ q # <<>> /\ Head(q) = "accept_one"
  /\ AcceptOne
  /\ UNCHANGED <<open, failed>>

\* Mutant of handle_accept: the chain goes on after an error, too.
AcceptAfterError ==
  /\ q # <<>> /\ Head(q) \in {"accept_ok", "accept_err", "accept_abort"}
  /\ AcceptOne
  /\ UNCHANGED <<open, failed>>

\* handle_accept: the handler starts its session, or is closed and the chain ends.
HandleAccept ==
  /\ q # <<>> /\ Head(q) \in {"accept_ok", "accept_err", "accept_abort"}
  /\ IF Head(q) = "accept_ok" THEN AcceptOne ELSE ChainEnds
  /\ UNCHANGED <<open, failed>>

\* Mutant of handle_timeout: the delay ends the chain.
IgnoredTimeout ==
  /\ q # <<>> /\ Head(q) \in {"timer_ok", "timer_abort"}
  /\ ChainEnds
  /\ UNCHANGED <<open, failed>>

\* handle_timeout: a cancelled wait ends its chain.
HandleTimeout ==
  /\ q # <<>> /\ Head(q) \in {"timer_ok", "timer_abort"}
  /\ IF Head(q) = "timer_ok" THEN AcceptOne ELSE ChainEnds
  /\ UNCHANGED <<open, failed>>

CloseAcceptor ==
  /\ q # <<>> /\ Head(q) = "close"
  /\ open' = FALSE
  /\ q' = Tail(q) \o Repeat("accept_abort", pending)
  /\ pending' = 0
  /\ UNCHANGED <<armed, failed, poolVars>>

AcceptorRuns == thread /\ (FirstAccept \/ HandleAccept \/ HandleTimeout \/ CloseAcceptor) /\ mainUnchanged

\* io_service::run returns when nothing is left to wait for.
ThreadExit ==
  /\ thread /\ ~work /\ q = <<>> /\ pending = 0 /\ ~armed
  /\ thread' = FALSE
  /\ UNCHANGED <<block, main, stopper, started, open, work, q, pending, armed, failed,
                 asked, starts, unbound, group, life, poolVars>>
-----------------------------------------------------------------------------
(* The network, the clock and the sessions *)

Accepted ==
  /\ open /\ pending > 0
  /\ pending' = pending - 1
  /\ \E r \in {"accept_ok"} \cup (IF AcceptErrors THEN {"accept_err"} ELSE {}) :
       q' = Append(q, r) /\ failed' = (failed \/ r = "accept_err")
  /\ UNCHANGED <<block, main, stopper, started, open, work, thread, armed, asked, starts,
                 unbound, group, life, poolVars>>

TimerExpires ==
  /\ armed
  /\ armed' = FALSE
  /\ q' = Append(q, "timer_ok")
  /\ UNCHANGED <<block, main, stopper, started, open, work, thread, pending, failed, asked,
                 starts, unbound, group, life, poolVars>>

\* A session ends: the last reference to its handler goes away, in a thread of the
\* group.
SessionEnds == Sessions > 0 /\ group # "down" /\ DropLast /\ UNCHANGED serverVars

\* Its deleter puts it back, in the thread of the session.
Return == Put /\ UNCHANGED serverVars

\* The destructor's thread clears the pool, and destroys the members of the server: an
\* acceptor that a failed bind left open is closed by that.
ClearPool ==
  /\ life = "dead"
  /\ \/ ClearReset /\ UNCHANGED serverVars
     \/ /\ ClearEnd
        /\ open' = FALSE
        /\ UNCHANGED <<block, main, stopper, started, work, thread, q, pending, armed,
                       failed, asked, starts, unbound, group, life>>

\* The program starts and stops its group; the stop joins the group's threads.
GroupStarts ==
  /\ group = "down" /\ group' = "up"
  /\ UNCHANGED <<block, main, stopper, started, open, work, thread, q, pending, armed,
                 failed, asked, starts, unbound, life, poolVars>>
GroupStops ==
  /\ group = "up" /\ returning = 0
  /\ group' = "down"
  /\ UNCHANGED <<block, main, stopper, started, open, work, thread, q, pending, armed,
                 failed, asked, starts, unbound, life, poolVars>>

\* server::set gives a stopped server a group of the program's; its own one is
\* destroyed, and what was left of its sessions with it.
SetGroup ==
  /\ life = "alive" /\ main = "off" /\ stopper = "off" /\ ~started
  /\ group = "own" /\ inUse = 0 /\ returning = 0
  /\ group' \in {"up", "down"}
  /\ UNCHANGED <<block, main, stopper, started, open, work, thread, q, pending, armed,
                 failed, asked, starts, unbound, life, poolVars>>
-----------------------------------------------------------------------------
\* What a program calls, and what runs on its own.
Calls ==
  \/ Construct \/ DestroyBegin \/ BindFails \/ StopCalled
  \/ GroupStarts \/ GroupStops \/ SetGroup
  \/ \E blocking \in BOOLEAN : Prepare(blocking)
Threads ==
  \/ Starting \/ Stopping \/ AcceptorRuns \/ ThreadExit \/ DestroyPool \/ ClearPool
  \/ Accepted \/ TimerExpires \/ SessionEnds \/ Return

Next == Calls \/ Threads

\* The threads run, the timer expires, and sessions end (session timeout).  Nobody
\* has to connect, to start, stop or destroy the server, or to start its group.
Fairness ==
  /\ WF_vars(Starting) /\ WF_vars(Stopping) /\ WF_vars(AcceptorRuns)
  /\ WF_vars(ThreadExit) /\ WF_vars(TimerExpires) /\ WF_vars(SessionEnds)
  /\ WF_vars(Return) /\ WF_vars(DestroyPool) /\ WF_vars(ClearPool)

Spec == Init /\ [][Next]_vars /\ Fairness
-----------------------------------------------------------------------------
(* Properties *)

\* The chains that go on: queued, pending, waiting, or about to be woken.
Going == {i \in 1..Len(q) : q[i] \in {"accept_one", "accept_ok", "timer_ok"}}
Chains == Cardinality(Going) + pending + (IF armed THEN 1 ELSE 0)

\* No chain is doubled, although every chain may arm and cancel the one timer, and
\* while the acceptor listens only failed accepts can leave the server without a
\* chain: an exhausted pool never does, however the waits cancel each other.
Listening == open /\ ~unbound
ChainsBounded == Chains <= QueueLength
NeverDeaf == Listening /\ ~failed => Chains > 0
ChainsKeptInBounds == ChainsBounded /\ NeverDeaf

\* After stop() or run() has returned nothing of the old chains is left for the
\* next start to meet, and no acceptor but one that a failed bind left open.
StoppedIsClean ==
  main = "off" /\ ~started => q = <<>> /\ Chains = 0 /\ (open => unbound)

\* "Wait for some seconds to accept next connection": after the wait the server
\* accepts again, once sessions have ended, as they do while their group runs.
AcceptsAgain == armed ~> pending > 0 \/ ~open \/ group = "down"

\* A stop() that finds the acceptor's pool started stops the server, be it the first
\* or one after a lost one: the thread of the acceptor ends and started_ is cleared,
\* wherever start() or run() is.  The stop of a server without handlers waits for a
\* session to end, which needs the group.  A stop() that comes to the pool between
\* run()'s `started_ = true` and the pool's start is lost.
StopHeeded == asked = "yes" ~> (~started /\ ~thread /\ main = "off") \/ group = "down"

\* After ~server every handler is deleted once the sessions that outlive it are over,
\* as they are while their group runs: the pool and its idle handlers, which refer to
\* each other, are not left behind, and a handler that comes back late does not bring
\* the pool back to life.
NothingLeaks == life = "dead" ~> (count = 0 /\ ~clearing) \/ group = "down"

\* accept_queue_length_ accepts are kept under way ("post several async_accept").
ChainsKept == Listening /\ ~failed => Chains = QueueLength
=============================================================================
