--------------------------- MODULE IoServiceGroup ---------------------------
(***************************************************************************)
(* io_service_group with its io pool and its work pool (io_service_pool):  *)
(* start, the graceful and the forced stop, and the growth of the work     *)
(* pool under load.  A session is bound to one io_service of each pool;    *)
(* its handlers run alternately on the two, each queueing the next one, as *)
(* service_handler does until do_close.  A pending operation counts as a   *)
(* queued handler: both keep run() from returning.                         *)
(***************************************************************************)
EXTENDS Naturals, FiniteSets

CONSTANTS
  Sessions,       \* the sessions that may be accepted
  MaxHandlers,    \* bound: handlers a session runs in all
  InitSize,       \* pool_init_size_ of both pools
  High,           \* pool_high_watermark_ of the work pool
  ThreadLoad,     \* pool_thread_load_ of the work pool
  RecursiveMutex, \* see HandlerPool
  MaxStarts       \* bound: calls of start()

ASSUME IoServiceGroupAssumption ==
  /\ MaxHandlers \in Nat \ {0} /\ MaxStarts \in Nat
  /\ InitSize \in Nat \ {0} /\ High \in Nat /\ High >= InitSize
  /\ ThreadLoad \in Nat \ {0}
  /\ RecursiveMutex \in BOOLEAN

VARIABLES
  force,    \* force_stop_
  pc,       \* where the thread in start() or stop() is
  size,     \* io_services_.size() of each pool
  work,     \* whether work_ of a pool is non-empty
  idle,     \* idle_
  running,  \* the io_services of each pool whose thread is in run()
  ran,      \* those whose run() has executed a handler since it was called
  halted,   \* pools stopped by force_stop()
  token,    \* where the next handler of a session is queued
  home,     \* the io_services of a session
  togo,     \* handlers a session has still to run
  accepting,\* a session for which the acceptor is in get_io_service(load), if any
  starts    \* calls of start()

vars == <<force, pc, size, work, idle, running, ran, halted, token, home, togo,
          accepting, starts>>

Pools == {"io", "work"}
Services == 1..High
Other(p) == IF p = "io" THEN "work" ELSE "io"

\* start() and stop() go through the pools from the last to the first.
Steps == {"stopped", "start_work", "start_io", "running", "clear_work", "join_work",
          "clear_io", "join_io", "check"}

TypeOK ==
  /\ force \in BOOLEAN
  /\ pc \in [step : Steps, stopping : BOOLEAN]
  /\ size \in [Pools -> Services]
  /\ work \in [Pools -> BOOLEAN] /\ idle \in [Pools -> BOOLEAN]
  /\ running \in [Pools -> SUBSET Services] /\ ran \in [Pools -> SUBSET Services]
  /\ halted \subseteq Pools
  /\ token \in [Sessions -> Pools \cup {"new", "done", "lost"}]
  /\ home \in [Sessions -> [Pools -> Services]]
  /\ togo \in [Sessions -> 0..MaxHandlers]
  /\ accepting \subseteq Sessions
  /\ starts \in Nat

Init ==
  /\ force = FALSE
  /\ pc = [step |-> "stopped", stopping |-> FALSE]
  /\ size = [p \in Pools |-> InitSize]
  /\ work = [p \in Pools |-> FALSE]
  /\ idle = [p \in Pools |-> TRUE]
  /\ running = [p \in Pools |-> {}] /\ ran = [p \in Pools |-> {}]
  /\ halted = {}
  /\ token = [s \in Sessions |-> "new"]
  /\ home = [s \in Sessions |-> [p \in Pools |-> 1]]
  /\ togo = [s \in Sessions |-> 0]
  /\ accepting = {}
  /\ starts = 0

sessionsUnchanged == UNCHANGED <<token, home, togo, accepting>>
Queued(p) == {s \in Sessions : token[s] = p}
QueuedAt(p, i) == {s \in Queued(p) : home[s][p] = i}
-----------------------------------------------------------------------------
(* start() *)

\* set(): only a group that is not started takes another stop mode.
SetForce ==
  /\ pc.step = "stopped"
  /\ force' = ~force
  /\ UNCHANGED <<pc, size, work, idle, running, ran, halted, starts>> /\ sessionsUnchanged

GroupStart ==
  /\ pc.step = "stopped" /\ starts < MaxStarts
  /\ starts' = starts + 1
  /\ pc' = [step |-> "start_work", stopping |-> FALSE]
  /\ UNCHANGED <<force, size, work, idle, running, ran, halted>> /\ sessionsUnchanged

\* Mutants of io_service_pool::start: one io_service released too many, and idle_
\* not set.
ShrinkingPoolStart(p, next) ==
  /\ running[p] = {}
  /\ token' = [s \in Sessions |->
                 IF token[s] = p /\ home[s][p] >= InitSize THEN "lost" ELSE token[s]]
  /\ idle' = [idle EXCEPT ![p] = TRUE]
  /\ work' = [work EXCEPT ![p] = TRUE]
  /\ running' = [running EXCEPT ![p] = 1..InitSize]
  /\ ran' = [ran EXCEPT ![p] = {}]
  /\ halted' = halted \ {p}
  /\ pc' = [pc EXCEPT !.step = next]
  /\ UNCHANGED <<force, size, home, togo, accepting, starts>>
NeverIdleStart(p, next) ==
  /\ running[p] = {}
  /\ size' = [size EXCEPT ![p] = InitSize]
  /\ token' = [s \in Sessions |->
                 IF token[s] = p /\ home[s][p] > InitSize THEN "lost" ELSE token[s]]
  /\ work' = [work EXCEPT ![p] = TRUE]
  /\ running' = [running EXCEPT ![p] = 1..InitSize]
  /\ ran' = [ran EXCEPT ![p] = {}]
  /\ halted' = halted \ {p}
  /\ pc' = [pc EXCEPT !.step = next]
  /\ UNCHANGED <<force, idle, home, togo, accepting, starts>>

\* io_service_pool::start: io_services beyond the initial size are released, and
\* with them the handlers queued on them; then one thread for each that is left.
PoolStart(p, next) ==
  /\ running[p] = {}
  /\ size' = [size EXCEPT ![p] = InitSize]
  /\ token' = [s \in Sessions |->
                 IF token[s] = p /\ home[s][p] > InitSize THEN "lost" ELSE token[s]]
  /\ idle' = [idle EXCEPT ![p] = TRUE]
  /\ work' = [work EXCEPT ![p] = TRUE]
  /\ running' = [running EXCEPT ![p] = 1..InitSize]
  /\ ran' = [ran EXCEPT ![p] = {}]
  /\ halted' = halted \ {p}
  /\ pc' = [pc EXCEPT !.step = next]
  /\ UNCHANGED <<force, home, togo, accepting, starts>>

StartWork == pc.step = "start_work" /\ PoolStart("work", "start_io")
StartIo == pc.step = "start_io" /\ PoolStart("io", IF pc.stopping THEN "clear_work" ELSE "running")
-----------------------------------------------------------------------------
(* Sessions *)

Load == Cardinality({s \in Sessions : token[s] \in Pools})

\* accept_one_i enters get_io_service(load) of the work pool and locks its mutex.
AcceptBegin(s) ==
  /\ pc.step = "running" /\ accepting = {} /\ token[s] = "new"
  /\ accepting' = {s}
  /\ UNCHANGED <<force, pc, size, work, idle, running, ran, halted, token, home, togo, starts>>

\* get_io_service(load) grows the pool and calls get_io_service(), which locks the
\* mutex a second time; the new session's do_open is then posted.
AcceptEnd(s) ==
  /\ s \in accepting /\ RecursiveMutex
  /\ LET grow == /\ work["work"] /\ running["work"] # {}
                 /\ Load \div ThreadLoad > size["work"] /\ size["work"] < High
         new  == size["work"] + 1
     IN /\ IF grow
           THEN /\ size' = [size EXCEPT !["work"] = new]
                /\ running' = [running EXCEPT !["work"] = @ \cup {new}]
           ELSE UNCHANGED <<size, running>>
        /\ \E i \in 1..size["io"], j \in (IF grow THEN {new} ELSE 1..size["work"]) :
             home' = [home EXCEPT ![s] = [p \in Pools |-> IF p = "io" THEN i ELSE j]]
  /\ token' = [token EXCEPT ![s] = "work"]
  /\ \E n \in 1..MaxHandlers : togo' = [togo EXCEPT ![s] = n]
  /\ accepting' = {}
  /\ UNCHANGED <<force, pc, work, idle, ran, halted, starts>>

\* A thread runs one handler, which queues the session's next one on the other
\* pool.  An io_service that was released takes no handler any more.
RunHandler(p, i) ==
  /\ i \in running[p] /\ p \notin halted
  /\ \E s \in QueuedAt(p, i) :
       /\ togo' = [togo EXCEPT ![s] = @ - 1]
       /\ token' = [token EXCEPT ![s] =
            IF togo[s] = 1 THEN "done"
            ELSE IF home[s][Other(p)] <= size[Other(p)] THEN Other(p) ELSE "lost"]
  /\ ran' = [ran EXCEPT ![p] = @ \cup {i}]
  /\ UNCHANGED <<force, pc, size, work, idle, running, halted, home, accepting, starts>>

\* Mutant: run_service does not report that handlers were executed.
SilentThreadExit(p, i) ==
  /\ i \in running[p]
  /\ p \in halted \/ (~work[p] /\ QueuedAt(p, i) = {})
  /\ running' = [running EXCEPT ![p] = @ \ {i}]
  /\ UNCHANGED <<force, pc, size, work, idle, ran, halted, starts>> /\ sessionsUnchanged

\* run() returns without work or after stop(); run_service then clears idle_ under
\* the mutex if handlers were executed.
ThreadExit(p, i) ==
  /\ i \in running[p]
  /\ p \in halted \/ (~work[p] /\ QueuedAt(p, i) = {})
  /\ i \in ran[p] /\ p = "work" => accepting = {}
  /\ idle' = [idle EXCEPT ![p] = @ /\ i \notin ran[p]]
  /\ running' = [running EXCEPT ![p] = @ \ {i}]
  /\ UNCHANGED <<force, pc, size, work, ran, halted, starts>> /\ sessionsUnchanged
-----------------------------------------------------------------------------
(* stop() *)

\* The server has stopped its acceptor before it stops the group.
GroupStop ==
  /\ pc.step = "running" /\ accepting = {}
  /\ pc' = [step |-> "clear_work", stopping |-> TRUE]
  /\ UNCHANGED <<force, size, work, idle, running, ran, halted, starts>> /\ sessionsUnchanged

\* io_service_pool::stop: destroy the work objects; only the first round forces.
ClearPool(p, next) ==
  /\ work' = [work EXCEPT ![p] = FALSE]
  /\ halted' = IF force THEN halted \cup {p} ELSE halted
  /\ pc' = [pc EXCEPT !.step = next]
  /\ UNCHANGED <<force, size, idle, running, ran, starts>> /\ sessionsUnchanged

\* wait() joins the threads of the pool.
JoinPool(p, next) ==
  /\ running[p] = {}
  /\ pc' = [pc EXCEPT !.step = next]
  /\ UNCHANGED <<force, size, work, idle, running, ran, halted, starts>> /\ sessionsUnchanged

ClearWork == pc.step = "clear_work" /\ ClearPool("work", "join_work")
JoinWork == pc.step = "join_work" /\ JoinPool("work", "clear_io")
ClearIo == pc.step = "clear_io" /\ ClearPool("io", "join_io")
JoinIo == pc.step = "join_io" /\ JoinPool("io", "check")

\* The loop of a graceful stop: once more unless every pool was idle.
Check ==
  /\ pc.step = "check"
  /\ pc' = IF force \/ (\A p \in Pools : idle[p])
           THEN [step |-> "stopped", stopping |-> FALSE]
           ELSE [step |-> "start_work", stopping |-> TRUE]
  /\ UNCHANGED <<force, size, work, idle, running, ran, halted, starts>> /\ sessionsUnchanged

Starting == StartWork \/ StartIo
Stopping == ClearWork \/ JoinWork \/ ClearIo \/ JoinIo \/ Check
Thread(p, i) == RunHandler(p, i) \/ ThreadExit(p, i)

Next ==
  \/ SetForce \/ GroupStart \/ GroupStop \/ Starting \/ Stopping
  \/ \E s \in Sessions : AcceptBegin(s) \/ AcceptEnd(s)
  \/ \E p \in Pools, i \in Services : Thread(p, i)

\* Every thread runs; nobody has to start or stop the group or to connect.
Fairness ==
  /\ WF_vars(Starting) /\ WF_vars(Stopping)
  /\ \A s \in Sessions : WF_vars(AcceptEnd(s))
  /\ \A p \in Pools, i \in Services : WF_vars(Thread(p, i))

Spec == Init /\ [][Next]_vars /\ Fairness
-----------------------------------------------------------------------------
(* Properties *)

\* When a graceful stop returns, every session has run its last handler, those a
\* forced stop left queued before included: the loop ends only after a round in
\* which no pool had anything to run.
Drained ==
  [][pc.step = "check" /\ pc'.step = "stopped" /\ ~force =>
       \A s \in Sessions : token[s] \in {"new", "done", "lost"}]_vars

\* "Allow all operations and handlers to be finished normally": no handler is
\* destroyed before it ran, but for the sessions placed on an io_service that
\* get_io_service(load) added: a later start() releases those io_services.
OnlyGrownLoses ==
  /\ TypeOK
  /\ \A s \in Sessions : token[s] = "lost" => home[s]["work"] > InitSize

\* stop() returns; the forced one even if sessions would never end.
StopReturns == pc.stopping ~> ~pc.stopping

\* The acceptor gets its io_service.
AcceptReturns == accepting # {} ~> accepting = {}
=============================================================================
