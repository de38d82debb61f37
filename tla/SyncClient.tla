------------------------------ MODULE SyncClient ------------------------------
(***************************************************************************)
(* sync_client: a sync_handler_pool, the io_service_pool whose threads run *)
(* the handlers' operations, and the group of endpoints they connect to.   *)
(* One thread starts, stops and destroys the client, the callers do what   *)
(* the echo example's connections do: take a handler, connect, write_read, *)
(* and let it go.  A blocking call posts its operation to the io_service   *)
(* of its handler and waits without a limit of its own: SyncHandler says   *)
(* what becomes of it while that io_service runs.                          *)
(***************************************************************************)
EXTENDS SyncHandlerPool

CONSTANTS
  Services,  \* the io_services of the client's io_service_pool
  MaxStarts  \* bound: calls of start(), the constructor's included

ASSUME SyncClientAssumption == Services # {} /\ MaxStarts \in Nat

VARIABLES
  client,  \* where the thread in start(), stop() or the destructor is
  work,    \* the io_services have their work objects
  live,    \* io_services whose thread is in run()
  home,    \* the io_service of the handler a caller holds, chosen when it was created
  doing,   \* the call a caller is in, or has made last
  starts   \* calls of start() so far

clientVars == <<client, work, live, home, doing, starts>>
vars == <<clientVars, poolVars>>

ClientSteps == {"off", "threaded", "on", "closed", "joining", "dead"}

TypeOK ==
  /\ client \in ClientSteps /\ work \in BOOLEAN /\ live \subseteq Services
  /\ home \in [Callers -> Services]
  /\ doing \in [Callers -> {"nothing", "connect", "connected", "write_read"}]
  /\ starts \in 0..MaxStarts
  /\ PoolTypeOK

Init ==
  /\ client = "off" /\ work = FALSE /\ live = {} /\ starts = 0
  /\ home = [t \in Callers |-> CHOOSE s \in Services : TRUE]
  /\ doing = [t \in Callers |-> "nothing"]
  /\ PoolEmpty
-----------------------------------------------------------------------------
(* endpoint_group *)

\* get_endpoints of a group of n pairs: the pair it returns, 0 being the empty one,
\* and next_endpoint_ after it.
GetEndpoints(n, next) ==
  IF n <= 1 THEN [pair |-> n, next |-> next]
  ELSE LET i == IF next >= n THEN 0 ELSE next IN [pair |-> i + 1, next |-> i + 1]

\* get_endpoints(index) of sync_client.hpp, whose index begins with 0.
GetEndpointsAt(n, index) == IF index >= n THEN 0 ELSE index + 1
-----------------------------------------------------------------------------
(* start(), stop() and the destructor *)

\* io_service_pool::start does nothing while there are threads.
StartThreads ==
  /\ client \in {"off", "on"} /\ starts < MaxStarts
  /\ starts' = starts + 1
  /\ client' = "threaded"
  /\ work' = TRUE /\ live' = Services
  /\ UNCHANGED <<home, doing, poolVars>>

StartPool ==
  /\ client = "threaded"
  /\ client' = "on"
  /\ InitPool
  /\ UNCHANGED <<work, live, home, doing, starts>>

StopPool ==
  /\ client = "on"
  /\ client' = "closed"
  /\ Close
  /\ UNCHANGED <<work, live, home, doing, starts>>

\* Mutants: io_service_pool::stop keeps the work objects, and forces its io_services
\* to stop.
UnreleasedStopThreads ==
  /\ client = "closed"
  /\ client' = "joining"
  /\ UNCHANGED <<work, live, home, doing, starts, poolVars>>
ForcedStopThreads ==
  /\ client = "closed"
  /\ client' = "joining"
  /\ work' = FALSE /\ live' = {}
  /\ UNCHANGED <<home, doing, starts, poolVars>>

\* io_service_pool::stop destroys the work objects.
StopThreads ==
  /\ client = "closed"
  /\ client' = "joining"
  /\ work' = FALSE
  /\ UNCHANGED <<live, home, doing, starts, poolVars>>

\* It has joined the threads.
StopReturns ==
  /\ client = "joining" /\ live = {}
  /\ client' = "off"
  /\ UNCHANGED <<work, live, home, doing, starts, poolVars>>

\* The destructor goes on after stop(); handlers that are still held keep the pool
\* and, with it, the io_services.
Destroy ==
  /\ client = "off" /\ starts > 0
  /\ client' = "dead"
  /\ UNCHANGED <<work, live, home, doing, starts, poolVars>>

Stopping == StopThreads \/ StopReturns
-----------------------------------------------------------------------------
(* The callers *)

InCall(t) == doing[t] \in {"connect", "write_read"}

\* get_sync_handler, which returns a handler of any io_service.
GetHandler(t) ==
  /\ client # "dead"
  /\ Get(t)
  /\ \E s \in Services : home' = [home EXCEPT ![t] = s]
  /\ doing' = [doing EXCEPT ![t] = "nothing"]
  /\ UNCHANGED <<client, work, live, starts>>

KeepTrying(t) == (Retry(t) \/ GiveUp(t)) /\ UNCHANGED clientVars

\* connect, then write_read.
CallHandler(t) ==
  /\ at[t] = "holding" /\ ~InCall(t)
  /\ \/ doing[t] = "nothing" /\ doing' = [doing EXCEPT ![t] = "connect"]
     \/ doing[t] = "connected" /\ doing' = [doing EXCEPT ![t] = "write_read"]
  /\ UNCHANGED <<client, work, live, home, starts, poolVars>>

\* A call ends, in an io_service that runs.  After a connect without error the
\* handler goes on; otherwise its caller lets it go.
CallReturns(t) ==
  /\ InCall(t) /\ home[t] \in live
  /\ \/ /\ doing[t] = "connect"
        /\ doing' = [doing EXCEPT ![t] = "connected"]
        /\ UNCHANGED poolVars
     \/ /\ Faults \/ doing[t] = "write_read"
        /\ doing' = [doing EXCEPT ![t] = "nothing"]
        /\ Drop(t)
  /\ UNCHANGED <<client, work, live, home, starts>>

\* connect() of a handler that is still open returns at once.
StillOpen(t) ==
  /\ at[t] = "holding" /\ doing[t] = "nothing"
  /\ doing' = [doing EXCEPT ![t] = "connected"]
  /\ UNCHANGED <<client, work, live, home, starts, poolVars>>

\* The last reference to a handler goes away, in its io thread or the caller's.
PutBack == Put /\ UNCHANGED clientVars

\* io_service::run returns when it has nothing to wait for.
ThreadExit(s) ==
  /\ s \in live /\ ~work
  /\ \A t \in Callers : InCall(t) => home[t] # s
  /\ live' = live \ {s}
  /\ UNCHANGED <<client, work, home, doing, starts, poolVars>>
-----------------------------------------------------------------------------
Caller(t) == GetHandler(t) \/ KeepTrying(t) \/ CallHandler(t) \/ StillOpen(t)

Next ==
  \/ StartThreads \/ StartPool \/ StopPool \/ Stopping \/ Destroy \/ PutBack
  \/ \E t \in Callers : Caller(t) \/ CallReturns(t)
  \/ \E s \in Services : ThreadExit(s)

\* A woken thread runs, deadlines pass, an io thread that runs ends every call by its
\* timeout, and stop() goes on.  Nobody has to start, to stop or to get a handler.
Fairness ==
  /\ WF_vars(StartPool) /\ WF_vars(Stopping) /\ WF_vars(PutBack)
  /\ \A t \in Callers : WF_vars(KeepTrying(t)) /\ WF_vars(CallReturns(t))
  /\ \A s \in Services : WF_vars(ThreadExit(s))

Spec == Init /\ [][Next]_vars /\ Fairness
-----------------------------------------------------------------------------
(* Properties *)

\* stop() returns although handlers are in use: it waits for no caller, only for the
\* calls that are under way.
StopCompletes == client \in {"closed", "joining"} ~> client = "off"

\* A call that found its io thread running returns, be the client stopped meanwhile;
\* one that is made on a handler kept over stop() may wait until the next start().
CallsReturn ==
  \A t \in Callers : InCall(t) /\ home[t] \in live ~> ~InCall(t)

\* Once stop() has returned the only handlers are those that callers still hold or have
\* just let go: none is left for a caller to take, whatever comes back late, and no
\* thread of the client runs.
StoppedIsEmpty ==
  /\ TypeOK
  /\ client \in {"off", "dead"} =>
       /\ closed /\ idle = 0 /\ live = {}
       /\ count = dropped + Cardinality({t \in Callers : at[t] = "holding"})
=============================================================================
