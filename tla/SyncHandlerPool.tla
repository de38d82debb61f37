-------------------------- MODULE SyncHandlerPool --------------------------
(***************************************************************************)
(* sync_handler_pool: like HandlerPool, but a thread that finds no handler *)
(* waits on a condition for a while, the mutex is recursive on every       *)
(* platform, and a handler that comes back with an error is deleted.       *)
(* Each step is one critical section; handlers are counted.  SyncClient    *)
(* says who calls init() and close(), and what the callers do with a       *)
(* handler.                                                                *)
(***************************************************************************)
EXTENDS Naturals, FiniteSets

CONSTANTS
  Callers,    \* threads that call get_sync_handler
  PoolInit, Low, High, Increment, Maximum,  \* the parameters of the pool
  Faults,     \* a handler may come back with an error other than shut_down
  MaxGets     \* bound: calls of get_sync_handler

\* The assertions of the constructor.
ASSUME SyncHandlerPoolAssumption ==
  /\ PoolInit \in Nat /\ Low \in Nat /\ High \in Nat
  /\ Increment \in Nat /\ Maximum \in Nat /\ MaxGets \in Nat
  /\ Faults \in BOOLEAN /\ IsFiniteSet(Callers)
  /\ PoolInit # 0 /\ Low <= PoolInit /\ High > Low /\ Maximum > High /\ Increment # 0

VARIABLES
  at,      \* where a caller is: out, asleep (in timed_wait), woken, holding
  dropped, \* handlers the callers let go whose last reference has still to go, held by
           \* an operation of theirs in its io thread
  idle,    \* sync_handlers_.size()
  count,   \* handler_count_
  closed,  \* closed_
  gets,    \* calls of get_sync_handler so far
  missed   \* history: wake-ups that met the deadline of their thread, whose handlers
           \* nobody has taken since

poolVars == <<at, dropped, idle, count, closed, gets, missed>>

PoolTypeOK ==
  /\ at \in [Callers -> {"out", "asleep", "woken", "holding"}]
  /\ idle \in 0..High /\ count \in Nat /\ dropped \in Nat
  /\ closed \in BOOLEAN /\ gets \in 0..MaxGets /\ missed \in Nat

Grown(s, n) == IF s + n <= High THEN s + n ELSE IF s <= High THEN High ELSE s

\* The constructor.
PoolEmpty ==
  /\ at = [t \in Callers |-> "out"]
  /\ dropped = 0 /\ idle = 0 /\ count = 0
  /\ closed = TRUE /\ gets = 0 /\ missed = 0

Asleep == {t \in Callers : at[t] = "asleep"}

\* n calls of notify_one on condition_.
Woken(S, n) == {W \in SUBSET S : Cardinality(W) = IF n <= Cardinality(S) THEN n ELSE Cardinality(S)}
-----------------------------------------------------------------------------
\* init(): one more lot of handlers, each of which may wake a thread.
InitPool ==
  /\ closed' = FALSE
  /\ idle' = Grown(idle, PoolInit)
  /\ count' = count + (idle' - idle)
  /\ \E W \in Woken(Asleep, idle' - idle) :
       at' = [u \in Callers |-> IF u \in W THEN "woken" ELSE at[u]]
  /\ UNCHANGED <<dropped, gets, missed>>

\* A thread that comes without having been woken makes up for a wake-up that missed
\* its thread, and an empty pool for all of them.
MissedAfter(t) ==
  IF idle' = 0 THEN 0 ELSE IF at[t] = "out" /\ missed > 0 THEN missed - 1 ELSE missed

\* One round of the loop of get_sync_handler.  The handlers it creates wake others.
Try(t) ==
  LET create == idle <= Low /\ count < Maximum
      size   == IF create THEN Grown(idle, Increment) ELSE idle
  IN IF closed
     THEN at' = [at EXCEPT ![t] = "out"] /\ UNCHANGED <<idle, count, missed>>
     ELSE /\ count' = count + (size - idle)
          /\ idle' = IF size # 0 THEN size - 1 ELSE size
          /\ missed' = MissedAfter(t)
          /\ \E W \in Woken(Asleep, size - idle) :
               at' = [u \in Callers |->
                        IF u = t THEN IF size # 0 THEN "holding" ELSE "asleep"
                        ELSE IF u \in W THEN "woken" ELSE at[u]]

Get(t) ==
  /\ at[t] = "out" /\ gets < MaxGets
  /\ gets' = gets + 1
  /\ Try(t)
  /\ UNCHANGED <<dropped, closed>>

\* A woken thread tries again while its time is not over.
Retry(t) ==
  /\ at[t] = "woken"
  /\ Try(t)
  /\ UNCHANGED <<dropped, closed, gets>>

\* Mutant: the wait has no deadline.
EndlessWait(t) ==
  /\ at[t] = "woken"
  /\ at' = [at EXCEPT ![t] = "out"]
  /\ missed' = IF idle = 0 THEN 0 ELSE missed + 1
  /\ UNCHANGED <<dropped, idle, count, closed, gets>>

\* The deadline has passed when the thread wakes up, or when it looks at the time
\* before the next try: it gets no handler, and a wake-up it had does nothing.
GiveUp(t) ==
  /\ at[t] \in {"asleep", "woken"}
  /\ at' = [at EXCEPT ![t] = "out"]
  /\ missed' = IF at[t] = "asleep" THEN missed ELSE IF idle = 0 THEN 0 ELSE missed + 1
  /\ UNCHANGED <<dropped, idle, count, closed, gets>>

\* A caller lets its handler go.
Drop(t) ==
  /\ at[t] = "holding"
  /\ at' = [at EXCEPT ![t] = "out"]
  /\ dropped' = dropped + 1
  /\ UNCHANGED <<idle, count, closed, gets, missed>>

\* Whether a handler comes back with an error.
Results == {FALSE, Faults}

\* Mutants of put_handler: a deletion not counted, nobody notified, and a broken
\* handler put back after the close.
UncountedPut ==
  /\ dropped > 0
  /\ dropped' = dropped - 1
  /\ \E fault \in Results : idle' = IF closed \/ fault \/ idle >= High THEN idle ELSE idle + 1
  /\ UNCHANGED <<at, count, closed, gets, missed>>
SilentPut ==
  /\ dropped > 0
  /\ dropped' = dropped - 1
  /\ \E fault \in Results :
       IF closed \/ fault \/ idle >= High
       THEN count' = count - 1 /\ UNCHANGED idle
       ELSE idle' = idle + 1 /\ UNCHANGED count
  /\ UNCHANGED <<at, closed, gets, missed>>
UnclosedPut ==
  /\ dropped > 0
  /\ dropped' = dropped - 1
  /\ \E fault \in Results :
       IF fault \/ idle >= High
       THEN count' = count - 1 /\ UNCHANGED <<at, idle>>
       ELSE idle' = idle + 1 /\ UNCHANGED <<at, count>>
  /\ UNCHANGED <<closed, gets, missed>>

\* put_handler of the last reference: push_handler and notify_one, or delete.
Put ==
  /\ dropped > 0
  /\ dropped' = dropped - 1
  /\ \E fault \in Results :
       IF closed \/ fault \/ idle >= High
       THEN count' = count - 1 /\ UNCHANGED <<at, idle>>
       ELSE /\ idle' = idle + 1
            /\ \E W \in Woken(Asleep, 1) :
                 at' = [u \in Callers |-> IF u \in W THEN "woken" ELSE at[u]]
            /\ UNCHANGED count
  /\ UNCHANGED <<closed, gets, missed>>

\* close(): every idle handler is reset, and its deleter deletes it.
Close ==
  /\ closed' = TRUE
  /\ IF closed THEN UNCHANGED <<idle, count, missed>>
     ELSE idle' = 0 /\ count' = count - idle /\ missed' = 0
  /\ UNCHANGED <<at, dropped, gets>>
-----------------------------------------------------------------------------
(* Properties *)

\* handler_count_ counts the handlers that exist, over every start and stop.
CountExact == count = idle + dropped + Cardinality({t \in Callers : at[t] = "holding"})

\* While a thread sleeps every idle handler has woken a thread: one that still comes
\* for it, or one whose deadline passed between the wake-up and its next try and that
\* takes the wake-up with it.  No wake-up is lost in another way, whatever others
\* take, bring back, break or close meanwhile.
Awake == {t \in Callers : at[t] = "woken"}
NoIdleWhileAsleep == Asleep # {} => idle <= Cardinality(Awake) + missed

\* "Add new handler if the pool is in low water mark and handler count not exceed
\* maximum": no thread sleeps while the pool could create a handler.
NoneStranded == Asleep # {} /\ ~closed => count >= Maximum \/ \E t \in Callers : at[t] = "woken"

\* get_sync_handler returns.
GetReturns == \A t \in Callers : at[t] \in {"asleep", "woken"} ~> at[t] \in {"out", "holding"}
=============================================================================
