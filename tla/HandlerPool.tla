---------------------------- MODULE HandlerPool ----------------------------
(***************************************************************************)
(* service_handler_pool: the vector of idle service_handlers, the count of *)
(* the handlers that exist, and the threads that get them, drop their last *)
(* reference to them, and close the pool.  Which handler is meant never    *)
(* matters, so handlers are counted.  A critical section that never waits  *)
(* is one action; clear(), whose deleters lock again, is modelled handler  *)
(* by handler with the mutex held.                                         *)
(***************************************************************************)
EXTENDS Integers

CONSTANTS
  PoolInit, Low, High, Increment, Maximum,  \* the parameters of the pool
  RecursiveMutex,  \* boost::asio::detail::mutex: a CRITICAL_SECTION on Windows,
                   \* a default pthread mutex elsewhere
  MaxInits         \* bound: calls of init()

\* The assertions of the constructor.
ASSUME HandlerPoolAssumption ==
  /\ PoolInit \in Nat /\ Low \in Nat /\ High \in Nat
  /\ Increment \in Nat /\ Maximum \in Nat /\ MaxInits \in Nat
  /\ RecursiveMutex \in BOOLEAN
  /\ PoolInit # 0 /\ Low <= PoolInit /\ High > Low /\ Maximum > High /\ Increment # 0

VARIABLES
  idle,      \* service_handlers_.size()
  inUse,     \* handlers somebody has a reference to
  returning, \* handlers in put_handler, cleared and waiting for mutex_
  count,     \* handler_count_
  closed,    \* closed_
  clearing,  \* a thread is in clear() and holds mutex_
  left,      \* handlers clear() has not reset yet
  answer,    \* what the last get_handler returned
  inits      \* calls of init() so far

poolVars == <<idle, inUse, returning, count, closed, clearing, left, answer, inits>>

PoolTypeOK ==
  /\ idle \in Nat /\ inUse \in Nat /\ returning \in Nat
  /\ count \in Nat /\ left \in Nat /\ inits \in Nat
  /\ closed \in BOOLEAN /\ clearing \in BOOLEAN
  /\ answer \in {"none", "handler", "null"}

PoolEmpty ==
  /\ idle = 0 /\ inUse = 0 /\ returning = 0 /\ count = 0
  /\ closed = TRUE /\ clearing = FALSE /\ left = 0
  /\ answer = "none" /\ inits = 0
-----------------------------------------------------------------------------
Unlocked == ~clearing

\* create_handler(n) for a pool of size s: push_handler deletes what would
\* exceed the high watermark, and only what was pushed is counted.
Grown(s, n) == IF s + n <= High THEN s + n ELSE IF s <= High THEN High ELSE s

InitPool ==
  /\ Unlocked /\ inits < MaxInits
  /\ inits' = inits + 1
  /\ closed' = FALSE
  /\ idle' = Grown(idle, PoolInit)
  /\ count' = count + (Grown(idle, PoolInit) - idle)
  /\ UNCHANGED <<inUse, returning, clearing, left, answer>>

\* Mutant of get_handler: without the test of the maximum.
UnboundedGet ==
  /\ Unlocked
  /\ LET create == ~closed /\ idle <= Low
         size   == IF create THEN Grown(idle, Increment) ELSE idle
         found  == ~closed /\ size # 0
     IN /\ count' = count + (size - idle)
        /\ idle' = IF found THEN size - 1 ELSE size
        /\ inUse' = IF found THEN inUse + 1 ELSE inUse
        /\ answer' = IF found THEN "handler" ELSE "null"
  /\ UNCHANGED <<returning, closed, clearing, left, inits>>

\* get_handler
Get ==
  /\ Unlocked
  /\ LET create == ~closed /\ idle <= Low /\ count < Maximum
         size   == IF create THEN Grown(idle, Increment) ELSE idle
         found  == ~closed /\ size # 0
     IN /\ count' = count + (size - idle)
        /\ idle' = IF found THEN size - 1 ELSE size
        /\ inUse' = IF found THEN inUse + 1 ELSE inUse
        /\ answer' = IF found THEN "handler" ELSE "null"
  /\ UNCHANGED <<returning, closed, clearing, left, inits>>

\* The last reference to a handler in use goes away: the deleter calls
\* put_handler, which clears the handler before it locks.
DropLast ==
  /\ inUse > 0
  /\ inUse' = inUse - 1
  /\ returning' = returning + 1
  /\ UNCHANGED <<idle, count, closed, clearing, left, answer, inits>>

\* Mutants of put_handler: the deletion not counted, and no test of closed_.
UncountedPut ==
  /\ Unlocked /\ returning > 0
  /\ returning' = returning - 1
  /\ idle' = IF closed \/ idle >= High THEN idle ELSE idle + 1
  /\ UNCHANGED <<inUse, count, closed, clearing, left, answer, inits>>
PutIntoClosed ==
  /\ Unlocked /\ returning > 0
  /\ returning' = returning - 1
  /\ IF idle >= High
     THEN count' = count - 1 /\ UNCHANGED idle
     ELSE idle' = idle + 1 /\ UNCHANGED count
  /\ UNCHANGED <<inUse, closed, clearing, left, answer, inits>>

\* push_handler, or delete and --handler_count_.
Put ==
  /\ Unlocked /\ returning > 0
  /\ returning' = returning - 1
  /\ IF closed \/ idle >= High
     THEN count' = count - 1 /\ UNCHANGED idle
     ELSE idle' = idle + 1 /\ UNCHANGED count
  /\ UNCHANGED <<inUse, closed, clearing, left, answer, inits>>

\* close(): lock, and return at once if the pool is closed.
ClearBegin ==
  /\ Unlocked /\ ~closed
  /\ closed' = TRUE
  /\ clearing' = TRUE
  /\ left' = idle
  /\ UNCHANGED <<idle, inUse, returning, count, answer, inits>>

\* reset() of one element: the deleter calls put_handler, which locks mutex_
\* again in the thread that holds it, and deletes the handler.
ClearReset ==
  /\ clearing /\ left > 0
  /\ RecursiveMutex
  /\ left' = left - 1
  /\ count' = count - 1
  /\ UNCHANGED <<idle, inUse, returning, closed, clearing, answer, inits>>

ClearEnd ==
  /\ clearing /\ left = 0
  /\ idle' = 0
  /\ clearing' = FALSE
  /\ UNCHANGED <<inUse, returning, count, closed, left, answer, inits>>

Clear == ClearBegin \/ ClearReset \/ ClearEnd

PoolNext == InitPool \/ Get \/ DropLast \/ Put \/ Clear

\* A thread inside the pool keeps running.
PoolFairness == WF_poolVars(ClearReset) /\ WF_poolVars(ClearEnd) /\ WF_poolVars(Put)

PoolSpec == PoolEmpty /\ [][PoolNext]_poolVars /\ PoolFairness
-----------------------------------------------------------------------------
(* Properties *)

\* handler_count_ counts the handlers that exist, so get_load, the difference
\* with the pool's size, is the number of handlers outside it and never wraps.
\* While the vector is being cleared, left of its elements are not yet reset.
CountExact ==
  count = (IF clearing THEN left ELSE idle) + inUse + returning

\* The pool never keeps more handlers than the high watermark.
WithinHighWatermark == idle <= High

\* What the code guarantees of pool_maximum_: the test before create_handler
\* bounds the count before an increment, and every init() adds up to a full pool.
CountBounded == inits <= 1 => count < Maximum + Increment

\* A closed pool holds no handler: one that comes back later is deleted, so no
\* handler outlives the pool through the pool's own references.
ClosedIsEmpty == closed /\ Unlocked => idle = 0

\* An open pool refuses a handler only when handler_count_ has reached the
\* maximum and no handler is idle.
RefusedOnlyAtMaximum ==
  [][(~closed /\ answer' = "null" /\ answer # "null") => count >= Maximum /\ idle = 0]_poolVars

\* The comment on get_service_handler: "handlers count exceeded maximum" is
\* refused, so the count never does exceed pool_maximum_.
WithinMaximum == count <= Maximum
=============================================================================
