---------------------------- MODULE ServerProofs ----------------------------
(***************************************************************************)
(* Proofs about Server and WinService for every length of the accept       *)
(* queue, every size of the handler pool and every way to run the program: *)
(* the accept chains stay in bounds, a server that has stopped is clean,   *)
(* and the count of the handlers is exact although accept chains, sessions *)
(* and the destructor share the pool.                                      *)
(***************************************************************************)
EXTENDS WinService, FiniteSetTheorems, SequenceTheorems, TLAPS

-----------------------------------------------------------------------------
(* The handler pool *)

\* clear() runs in a pool it has closed, over the elements of the vector.
ClearingInv == clearing => closed /\ left <= idle

\* Nothing exists before the first init().
BeforeInit ==
  inits = 0 => closed /\ ~clearing /\ idle = 0 /\ inUse = 0 /\ returning = 0

PoolInv == /\ PoolTypeOK /\ CountExact /\ WithinHighWatermark /\ CountBounded
        /\ ClosedIsEmpty /\ ClearingInv /\ BeforeInit

\* The pool grows by at most n, and to the high watermark at most.
LEMMA GrownFacts ==
  ASSUME NEW s \in Nat, NEW n \in Nat, s <= High
  PROVE  /\ Grown(s, n) \in Nat /\ s <= Grown(s, n)
         /\ Grown(s, n) <= High /\ Grown(s, n) <= s + n
  BY HandlerPoolAssumption DEF Grown

LEMMA PoolInitHolds == PoolEmpty => PoolInv
<1> SUFFICES ASSUME PoolEmpty PROVE PoolInv
  OBVIOUS
<1>1. closed \in BOOLEAN /\ clearing \in BOOLEAN
  BY DEF PoolEmpty
<1>2. PoolTypeOK
  BY <1>1 DEF PoolEmpty, PoolTypeOK
<1>3. CountExact /\ WithinHighWatermark /\ CountBounded /\ ClosedIsEmpty /\ ClearingInv /\ BeforeInit
  BY HandlerPoolAssumption
  DEF PoolEmpty, CountExact, WithinHighWatermark, CountBounded, ClosedIsEmpty, ClearingInv, BeforeInit
<1> QED  BY <1>2, <1>3 DEF PoolInv

LEMMA InitPoolKeeps ==
  ASSUME PoolInv, InitPool
  PROVE  PoolInv'
<1> DEFINE g == Grown(idle, PoolInit)
<1>1. g \in Nat /\ idle <= g /\ g <= High /\ g <= idle + PoolInit
  BY HandlerPoolAssumption, GrownFacts DEF PoolInv, PoolTypeOK, WithinHighWatermark
<1>2. /\ ~clearing /\ inits' = inits + 1 /\ closed' = FALSE /\ idle' = g
      /\ count' = count + (g - idle)
      /\ UNCHANGED <<inUse, returning, clearing, left, answer>>
  BY DEF InitPool, Unlocked
<1> HIDE DEF g
<1>3. PoolTypeOK'
  <2>1. closed' \in BOOLEAN /\ clearing' \in BOOLEAN
    BY <1>2 DEF PoolInv, PoolTypeOK
  <2> QED  BY <1>1, <1>2, <2>1 DEF PoolInv, PoolTypeOK
<1>4. CountExact' /\ WithinHighWatermark' /\ ClosedIsEmpty' /\ ClearingInv' /\ BeforeInit'
  BY <1>1, <1>2 DEF PoolInv, PoolTypeOK, CountExact, WithinHighWatermark, ClosedIsEmpty, ClearingInv,
                    BeforeInit, Unlocked
<1>5. CountBounded'
  BY <1>1, <1>2, HandlerPoolAssumption DEF PoolInv, PoolTypeOK, CountExact, CountBounded, BeforeInit
<1> QED  BY <1>3, <1>4, <1>5 DEF PoolInv

LEMMA GetKeeps ==
  ASSUME PoolInv, Get
  PROVE  PoolInv'
<1> DEFINE create == ~closed /\ idle <= Low /\ count < Maximum
           size   == IF create THEN Grown(idle, Increment) ELSE idle
           found  == ~closed /\ size # 0
<1>1. /\ size \in Nat /\ idle <= size /\ size <= High
      /\ size = idle \/ (~closed /\ count < Maximum /\ size <= idle + Increment)
  BY HandlerPoolAssumption, GrownFacts DEF PoolInv, PoolTypeOK, WithinHighWatermark
<1>2. /\ ~clearing
      /\ count' = count + (size - idle)
      /\ idle' = (IF found THEN size - 1 ELSE size)
      /\ inUse' = (IF found THEN inUse + 1 ELSE inUse)
      /\ answer' = (IF found THEN "handler" ELSE "null")
      /\ UNCHANGED <<returning, closed, clearing, left, inits>>
  BY DEF Get, Unlocked
<1>3. found => size > 0 /\ ~closed
  BY <1>1
<1> HIDE DEF create, size, found
<1>4. PoolTypeOK'
  BY <1>1, <1>2, <1>3 DEF PoolInv, PoolTypeOK
<1>5. CountExact' /\ WithinHighWatermark' /\ ClearingInv' /\ BeforeInit'
  <2>1. CountExact'
    BY <1>1, <1>2 DEF PoolInv, PoolTypeOK, CountExact
  <2>2. WithinHighWatermark' /\ ClearingInv'
    BY <1>1, <1>2, HandlerPoolAssumption DEF PoolInv, PoolTypeOK, WithinHighWatermark, ClearingInv
  <2>3. BeforeInit'
    BY <1>1, <1>2, <1>3 DEF PoolInv, PoolTypeOK, BeforeInit
  <2> QED  BY <2>1, <2>2, <2>3
<1>6. ClosedIsEmpty'
  BY <1>1, <1>2, <1>3 DEF PoolInv, PoolTypeOK, ClosedIsEmpty, Unlocked
<1>7. CountBounded'
  BY <1>1, <1>2, HandlerPoolAssumption DEF PoolInv, PoolTypeOK, CountBounded
<1> QED  BY <1>4, <1>5, <1>6, <1>7 DEF PoolInv

LEMMA DropLastKeeps ==
  ASSUME PoolInv, DropLast
  PROVE  PoolInv'
  BY DEF DropLast, PoolInv, PoolTypeOK, CountExact, WithinHighWatermark, CountBounded, ClosedIsEmpty,
         ClearingInv, BeforeInit, Unlocked

LEMMA PutKeeps ==
  ASSUME PoolInv, Put
  PROVE  PoolInv'
<1>1. count >= 1 /\ count' \in Nat /\ count' <= count
  BY DEF Put, PoolInv, PoolTypeOK, CountExact, Unlocked
<1>2. PoolTypeOK'
  BY <1>1 DEF Put, PoolInv, PoolTypeOK
<1>3. CountExact' /\ CountBounded'
  BY <1>1, HandlerPoolAssumption DEF Put, PoolInv, PoolTypeOK, CountExact, CountBounded, Unlocked
<1>4. WithinHighWatermark' /\ ClosedIsEmpty' /\ ClearingInv' /\ BeforeInit'
  BY HandlerPoolAssumption
  DEF Put, PoolInv, PoolTypeOK, WithinHighWatermark, ClosedIsEmpty, ClearingInv, BeforeInit, Unlocked
<1> QED  BY <1>2, <1>3, <1>4 DEF PoolInv

LEMMA ClearKeeps ==
  ASSUME PoolInv, Clear
  PROVE  PoolInv'
<1>1. CASE ClearBegin
  BY <1>1 DEF ClearBegin, PoolInv, PoolTypeOK, CountExact, WithinHighWatermark, CountBounded,
              ClosedIsEmpty, ClearingInv, BeforeInit, Unlocked
<1>2. CASE ClearReset
  <2>1. count >= 1 /\ count' \in Nat /\ count' < count
    BY <1>2 DEF ClearReset, PoolInv, PoolTypeOK, CountExact
  <2> QED
    BY <1>2, <2>1, HandlerPoolAssumption
    DEF ClearReset, PoolInv, PoolTypeOK, CountExact, WithinHighWatermark, CountBounded, ClosedIsEmpty,
        ClearingInv, BeforeInit, Unlocked
<1>3. CASE ClearEnd
  <2>1. closed' \in BOOLEAN /\ clearing' \in BOOLEAN
    BY <1>3 DEF ClearEnd, PoolInv, PoolTypeOK
  <2>2. PoolTypeOK'
    BY <1>3, <2>1 DEF ClearEnd, PoolInv, PoolTypeOK
  <2>3. CountExact' /\ WithinHighWatermark' /\ CountBounded'
    BY <1>3, HandlerPoolAssumption
    DEF ClearEnd, PoolInv, PoolTypeOK, CountExact, WithinHighWatermark, CountBounded
  <2>4. ClosedIsEmpty' /\ ClearingInv' /\ BeforeInit'
    BY <1>3 DEF ClearEnd, PoolInv, ClosedIsEmpty, ClearingInv, BeforeInit
  <2> QED  BY <2>2, <2>3, <2>4 DEF PoolInv
<1> QED  BY <1>1, <1>2, <1>3 DEF Clear

LEMMA PoolNextKeeps == PoolInv /\ [PoolNext]_poolVars => PoolInv'
<1> SUFFICES ASSUME PoolInv, [PoolNext]_poolVars PROVE PoolInv'
  OBVIOUS
<1>1. CASE UNCHANGED poolVars
  BY <1>1 DEF poolVars, PoolInv, PoolTypeOK, CountExact, WithinHighWatermark, CountBounded, ClosedIsEmpty,
              ClearingInv, BeforeInit, Unlocked
<1> QED
  BY <1>1, InitPoolKeeps, GetKeeps, DropLastKeeps, PutKeeps, ClearKeeps DEF PoolNext

THEOREM PoolInvariant == PoolSpec => []PoolInv
<1> QED  BY PoolInitHolds, PoolNextKeeps, PTL DEF PoolSpec

\* The variables keep their types.
THEOREM PoolTyped == PoolSpec => []PoolTypeOK
<1>1. PoolInv => PoolTypeOK
  BY DEF PoolInv
<1> QED  BY <1>1, PoolInvariant, PTL

\* handler_count_ is exact at every step, for every size and watermark.
THEOREM PoolCountExact == PoolSpec => []CountExact
<1>1. PoolInv => CountExact
  BY DEF PoolInv
<1> QED  BY <1>1, PoolInvariant, PTL

\* The pool never holds more handlers than its high watermark, and none once closed.
THEOREM PoolWithinBounds == PoolSpec => [](WithinHighWatermark /\ ClosedIsEmpty)
<1>1. PoolInv => WithinHighWatermark /\ ClosedIsEmpty
  BY DEF PoolInv
<1> QED  BY <1>1, PoolInvariant, PTL

\* With one init() the count stays below maximum + increment.
THEOREM PoolCountBounded == PoolSpec => []CountBounded
<1>1. PoolInv => CountBounded
  BY DEF PoolInv
<1> QED  BY <1>1, PoolInvariant, PTL

\* A refusal by an open pool means the maximum is reached and nothing is idle.
THEOREM PoolRefusal == PoolSpec => RefusedOnlyAtMaximum
<1> DEFINE A == (~closed /\ answer' = "null" /\ answer # "null") => count >= Maximum /\ idle = 0
<1>1. ASSUME PoolInv, [PoolNext]_poolVars PROVE [A]_poolVars
  <2> SUFFICES ASSUME ~closed, answer' = "null", answer # "null"
               PROVE  count >= Maximum /\ idle = 0
    OBVIOUS
  <2>1. Get
    BY <1>1 DEF PoolNext, poolVars, InitPool, DropLast, Put, Clear, ClearBegin, ClearReset, ClearEnd
  <2> DEFINE create == ~closed /\ idle <= Low /\ count < Maximum
             size   == IF create THEN Grown(idle, Increment) ELSE idle
  <2>2. size = 0
    BY <2>1 DEF Get
  <2>3. ~create
    BY <1>1, <2>2, HandlerPoolAssumption DEF PoolInv, PoolTypeOK, Grown
  <2> QED
    BY <1>1, <2>2, <2>3, HandlerPoolAssumption DEF PoolInv, PoolTypeOK
<1> QED  BY <1>1, PoolInvariant, PTL DEF PoolSpec, RefusedOnlyAtMaximum

-----------------------------------------------------------------------------
(* How many elements of a queue are of a kind *)

Count(s, kinds) == Cardinality({i \in 1..Len(s) : s[i] \in kinds})

LEMMA CountType ==
  ASSUME NEW S, NEW s \in Seq(S), NEW kinds
  PROVE  /\ IsFiniteSet({i \in 1..Len(s) : s[i] \in kinds})
         /\ Count(s, kinds) \in Nat
<1>1. IsFiniteSet(1..Len(s))
  BY FS_Interval
<1>2. IsFiniteSet({i \in 1..Len(s) : s[i] \in kinds})
  BY <1>1, FS_Subset
<1>3. QED
  BY <1>2, FS_CardinalityType DEF Count

LEMMA CountAppend ==
  ASSUME NEW S, NEW s \in Seq(S), NEW x \in S, NEW kinds
  PROVE  Count(Append(s, x), kinds) = Count(s, kinds) + (IF x \in kinds THEN 1 ELSE 0)
<1> DEFINE A == {i \in 1..Len(s) : s[i] \in kinds}
           n == Len(s) + 1
<1>1. IsFiniteSet(A) /\ Count(s, kinds) = Cardinality(A) /\ Cardinality(A) \in Nat
  BY CountType DEF Count
<1>2. /\ Len(Append(s, x)) = n /\ n \in Nat /\ Append(s, x)[n] = x
      /\ \A i \in 1..Len(s) : Append(s, x)[i] = s[i]
  OBVIOUS
<1>3. {i \in 1..Len(Append(s, x)) : Append(s, x)[i] \in kinds} =
        IF x \in kinds THEN A \cup {n} ELSE A
  BY <1>2
<1>4. n \notin A
  OBVIOUS
<1>5. Cardinality(A \cup {n}) = Cardinality(A) + 1
  BY <1>1, <1>4, FS_AddElement
<1>6. Count(Append(s, x), kinds) = Cardinality(IF x \in kinds THEN A \cup {n} ELSE A)
  BY <1>3 DEF Count
<1> HIDE DEF A, n
<1>7. QED
  BY <1>1, <1>5, <1>6

LEMMA CountTail ==
  ASSUME NEW S, NEW s \in Seq(S), s # <<>>, NEW kinds
  PROVE  Count(s, kinds) = Count(Tail(s), kinds) + (IF Head(s) \in kinds THEN 1 ELSE 0)
<1> DEFINE A == {i \in 1..Len(s) : s[i] \in kinds}
           B == {i \in 1..Len(Tail(s)) : Tail(s)[i] \in kinds}
           C == A \ {1}
<1>1. IsFiniteSet(A) /\ Count(s, kinds) = Cardinality(A) /\ Cardinality(A) \in Nat
  BY CountType DEF Count
<1>2. /\ Tail(s) \in Seq(S) /\ Len(Tail(s)) = Len(s) - 1 /\ Len(s) \in Nat /\ Len(s) >= 1
      /\ Head(s) = s[1]
      /\ \A i \in 1..(Len(s) - 1) : Tail(s)[i] = s[i + 1]
  OBVIOUS
<1>3. IsFiniteSet(B) /\ Count(Tail(s), kinds) = Cardinality(B) /\ Cardinality(B) \in Nat
  BY <1>2, CountType DEF Count
<1>4. Cardinality(B) = Cardinality(C)
  <2> DEFINE f == [i \in B |-> i + 1]
  <2>1. f \in [B -> C]
    BY <1>2
  <2>2. \A a, b \in B : f[a] = f[b] => a = b
    BY <1>2
  <2>3. \A c \in C : \E b \in B : f[b] = c
    <3> SUFFICES ASSUME NEW c \in C PROVE c - 1 \in B /\ f[c - 1] = c
      OBVIOUS
    <3> QED
      BY <1>2
  <2>4. f \in Bijection(B, C)
    BY <2>1, <2>2, <2>3 DEF Bijection, Injection, Surjection, IsInjective
  <2>5. ExistsBijection(B, C)
    BY <2>4 DEF ExistsBijection
  <2>6. QED
    BY <1>3, <2>5, FS_Bijection
<1> HIDE DEF B
<1>5. CASE Head(s) \in kinds
  <2>1. 1 \in A
    BY <1>2, <1>5
  <2>2. Cardinality(C) = Cardinality(A) - 1
    BY <1>1, <2>1, FS_RemoveElement
  <2> HIDE DEF A
  <2>3. QED
    BY <1>1, <1>3, <1>4, <1>5, <2>2
<1>6. CASE Head(s) \notin kinds
  <2>1. A = C
    BY <1>2, <1>6
  <2>2. Cardinality(C) = Cardinality(A)
    BY <2>1
  <2> HIDE DEF A, C
  <2>3. QED
    BY <1>1, <1>3, <1>4, <1>6, <2>2
<1>7. QED
  BY <1>5, <1>6

LEMMA RepeatType ==
  ASSUME NEW S, NEW x \in S, NEW n \in Nat
  PROVE  Repeat(x, n) \in Seq(S) /\ Len(Repeat(x, n)) = n
  BY DEF Repeat

\* Elements of another kind added at the end do not count.
LEMMA CountOthers ==
  ASSUME NEW S, NEW s \in Seq(S), NEW x \in S, NEW n \in Nat, NEW kinds, x \notin kinds
  PROVE  Count(s \o Repeat(x, n), kinds) = Count(s, kinds)
<1>1. Repeat(x, n) \in Seq(S) /\ Len(Repeat(x, n)) = n /\ \A i \in 1..n : Repeat(x, n)[i] = x
  BY RepeatType DEF Repeat
<1>2. /\ Len(s) \in Nat /\ Len(s \o Repeat(x, n)) = Len(s) + n
      /\ \A i \in 1..Len(s) : (s \o Repeat(x, n))[i] = s[i]
      /\ \A i \in (Len(s) + 1)..(Len(s) + n) : (s \o Repeat(x, n))[i] = x
  <2> HIDE DEF Repeat
  <2>1. \A i \in (Len(s) + 1)..(Len(s) + n) :
          (s \o Repeat(x, n))[i] = Repeat(x, n)[i - Len(s)] /\ i - Len(s) \in 1..n
    BY <1>1
  <2>2. QED
    BY <1>1, <2>1
<1>3. {i \in 1..Len(s \o Repeat(x, n)) : (s \o Repeat(x, n))[i] \in kinds} =
        {i \in 1..Len(s) : s[i] \in kinds}
  BY <1>2
<1>4. QED
  BY <1>3 DEF Count

LEMMA CountRepeat ==
  ASSUME NEW x, NEW n \in Nat, NEW kinds, x \in kinds
  PROVE  Count(Repeat(x, n), kinds) = n
<1>1. Len(Repeat(x, n)) = n /\ \A i \in 1..n : Repeat(x, n)[i] = x
  BY RepeatType DEF Repeat
<1>2. {i \in 1..Len(Repeat(x, n)) : Repeat(x, n)[i] \in kinds} = 1..n
  BY <1>1
<1>3. Cardinality(1..n) = n
  BY FS_Interval
<1>4. QED
  BY <1>2, <1>3 DEF Count

LEMMA CountEmpty ==
  ASSUME NEW kinds
  PROVE  Count(<<>>, kinds) = 0
<1>1. {i \in 1..Len(<<>>) : <<>>[i] \in kinds} = {}
  OBVIOUS
<1>2. QED
  BY <1>1, FS_EmptySet DEF Count
-----------------------------------------------------------------------------
(* The invariant *)

Alive == {"accept_one", "accept_ok", "timer_ok"}

Typed ==
  /\ main \in Steps /\ stopper \in {"off", "stopping", "joining"}
  /\ q \in Seq(Queueable) /\ pending \in Nat

\* Which steps start() and run() go through with started_ set.
Position ==
  /\ main = "prepared" => ~started
  /\ main = "marked" => started /\ block
  /\ main = "threaded" => (started <=> block)
  /\ main = "off" /\ started => ~block

\* Before the pool is started its thread does not run, and start() cannot be stopped
\* before it returns.
NotThreaded == main \in {"prepared", "marked"} => ~thread /\ ~work
Unasked ==
  /\ main = "prepared" \/ (main = "threaded" /\ ~block) => asked = "no"
  /\ main = "off" /\ started /\ stopper = "off" => asked = "no"
  /\ asked = "early" => started /\ block /\ main \in {"marked", "threaded"}

\* Until stop() is called the acceptor is open, and until a stop() has found the
\* acceptor's pool started its thread has work.
Running ==
  /\ asked = "no" /\ (started \/ main # "off") => open /\ stopper = "off"
  /\ asked # "yes" /\ (started \/ main = "threaded") /\ main \in {"off", "threaded"} =>
       work /\ thread

\* A stop() that has come to the pool, or waits for its thread.
StopStages ==
  /\ stopper = "stopping" =>
       /\ asked # "no" /\ started
       /\ IF block THEN main \in {"marked", "threaded"} ELSE main = "off"
       /\ main # "marked" => work /\ thread
  /\ stopper = "joining" => asked = "yes" /\ started /\ ~block /\ main = "off"

\* The close is only queued by stop(), and cannot be lost.
CloseQueued ==
  /\ asked # "no" /\ Listening => Count(q, {"close"}) > 0
  /\ asked = "no" => Count(q, {"close"}) = 0

\* After a failed bind nothing is started any more, as the acceptor stays open.
Unbound == unbound => main = "off" /\ ~started /\ (life # "dead" => open)

\* The destructor has stopped the server before it goes on.
Destroyed ==
  /\ life \in {"dying", "dead"} => main = "off"
  /\ life = "dying" /\ started => stopper # "off"
  /\ life = "dead" => ~started

\* When the thread has ended there is nothing left it could have waited for.
Ended ==
  ~thread /\ main \in {"off", "threaded"} =>
    ~Listening /\ q = <<>> /\ pending = 0 /\ ~armed /\ ~work

Cleared == main = "off" /\ ~started => ~thread /\ stopper = "off"

Control == /\ Typed /\ Position /\ NotThreaded /\ Unasked /\ Running /\ StopStages
           /\ CloseQueued /\ Unbound /\ Destroyed /\ Ended /\ Cleared

\* The bounds of the chains, by the count of those in the queue.
Going1 == Count(q, Alive) + pending + (IF armed THEN 1 ELSE 0)
Bounds == Going1 <= QueueLength /\ (Listening /\ ~failed => Going1 > 0)

ServerInv == Control /\ Bounds

LEMMA ServerInitHolds == Init => ServerInv
<1> SUFFICES ASSUME Init PROVE ServerInv
  OBVIOUS
<1>1. Typed
  BY DEF Init, Typed, Steps
<1>2. Position /\ NotThreaded /\ Unasked /\ Running /\ StopStages /\ CloseQueued /\ Unbound /\ Destroyed /\ Ended /\ Cleared
  BY CountEmpty DEF Init, Position, NotThreaded, Unasked, Running, StopStages, CloseQueued, Unbound, Destroyed, Ended,
                    Cleared, Listening
<1>3. Bounds
  BY CountEmpty, ServerAssumption DEF Init, Bounds, Going1, Listening
<1>4. QED
  BY <1>1, <1>2, <1>3 DEF ServerInv, Control

\* Steps of the sessions and the pool.
LEMMA ServerQuiet ==
  ASSUME ServerInv,
         UNCHANGED <<block, main, stopper, started, open, work, thread, q, pending, armed,
                     failed, asked, unbound>>,
         Destroyed', life' # "dead" => life # "dead"
  PROVE  ServerInv'
  BY DEF ServerInv, Control, Typed, Position, NotThreaded, Unasked, Running, StopStages,
         CloseQueued, Unbound, Destroyed, Ended, Cleared, Bounds, Going1, Listening

\* A stopped server has an acceptor only if a bind failed; nothing else of it is left.
LEMMA StoppedFacts ==
  ASSUME ServerInv, main = "off", ~started
  PROVE  /\ ~thread /\ ~work /\ stopper = "off" /\ q = <<>> /\ pending = 0 /\ ~armed
         /\ open => unbound
  BY DEF ServerInv, Control, Cleared, Ended, Listening

\* An acceptor that is opened or closed while the server is stopped, and listens no more
\* than before, is not the server's business.
LEMMA OpenQuiet ==
  ASSUME ServerInv, main = "off", ~started, open' => unbound', unbound' /\ life # "dead" => open',
         UNCHANGED <<block, main, stopper, started, work, thread, q, pending, armed,
                     failed, asked, life>>
  PROVE  ServerInv'
<1>1. /\ ~thread /\ ~work /\ stopper = "off" /\ q = <<>> /\ pending = 0 /\ ~armed
      /\ asked # "early"
  BY StoppedFacts DEF ServerInv, Control, Unasked
<1>2. Typed' /\ Position' /\ NotThreaded' /\ Unasked' /\ Running' /\ StopStages'
      /\ CloseQueued' /\ Unbound' /\ Destroyed' /\ Ended' /\ Cleared'
  BY <1>1 DEF ServerInv, Control, Typed, Position, NotThreaded, Unasked, Running, StopStages,
              CloseQueued, Unbound, Destroyed, Ended, Cleared, Listening
<1>3. Bounds'
  BY <1>1 DEF ServerInv, Bounds, Going1, Listening
<1>4. QED
  BY <1>2, <1>3 DEF ServerInv, Control

\* Steps that leave the acceptor and its queue alone keep the chains.
LEMMA ChainsQuiet ==
  ASSUME ServerInv, UNCHANGED <<open, q, pending, armed, failed, unbound>>,
         asked' = asked \/ (asked # "no" /\ asked' # "no")
  PROVE  CloseQueued' /\ Bounds'
  BY DEF ServerInv, Control, CloseQueued, Bounds, Going1, Listening

LEMMA StartingKeeps ==
  ASSUME ServerInv, Starting
  PROVE  ServerInv'
<1>1. CloseQueued' /\ Bounds'
  BY ChainsQuiet DEF Starting, MarkStarted, StartPool, Started, RunReturns
<1>2. CASE MarkStarted
  <2>1. Typed' /\ Position' /\ NotThreaded' /\ Unasked' /\ Running' /\ StopStages' /\ Unbound' /\ Destroyed' /\ Ended' /\ Cleared'
    BY <1>2 DEF MarkStarted, ServerInv, Control, Typed, Steps, Position, NotThreaded, Unasked, Running,
                StopStages, Unbound, Destroyed, Ended, Cleared, Listening
  <2>2. QED
    BY <1>1, <2>1 DEF ServerInv, Control
<1>3. CASE StartPool
  <2>1. Typed' /\ Position' /\ NotThreaded' /\ Unasked' /\ Running' /\ StopStages' /\ Unbound' /\ Destroyed' /\ Ended' /\ Cleared'
    BY <1>3 DEF StartPool, ServerInv, Control, Typed, Steps, Position, NotThreaded, Unasked, Running,
                StopStages, Unbound, Destroyed, Ended, Cleared, Listening
  <2>2. QED
    BY <1>1, <2>1 DEF ServerInv, Control
<1>4. CASE Started
  <2>1. Typed' /\ Position' /\ NotThreaded' /\ Unasked' /\ Running' /\ StopStages' /\ Unbound' /\ Destroyed' /\ Ended' /\ Cleared'
    BY <1>4 DEF Started, ServerInv, Control, Typed, Steps, Position, NotThreaded, Unasked, Running,
                StopStages, Unbound, Destroyed, Ended, Cleared, Listening
  <2>2. QED
    BY <1>1, <2>1 DEF ServerInv, Control
<1>5. CASE RunReturns
  <2>1. Typed' /\ Position' /\ NotThreaded' /\ Unasked' /\ Running' /\ StopStages' /\ Unbound' /\ Destroyed' /\ Ended' /\ Cleared'
    BY <1>5 DEF RunReturns, ServerInv, Control, Typed, Steps, Position, NotThreaded, Unasked, Running,
                StopStages, Unbound, Destroyed, Ended, Cleared, Listening
  <2>2. QED
    BY <1>1, <2>1 DEF ServerInv, Control
<1>6. QED
  BY <1>2, <1>3, <1>4, <1>5 DEF Starting

LEMMA StoppingKeeps ==
  ASSUME ServerInv, Stopping
  PROVE  ServerInv'
<1>1. CloseQueued' /\ Bounds'
  BY ChainsQuiet DEF Stopping, StopPool, StopReturns, ServerInv, Control, StopStages
<1>2. CASE StopPool
  <2>1. Typed' /\ Position' /\ NotThreaded' /\ Unasked' /\ Running' /\ StopStages' /\ Unbound' /\ Destroyed' /\ Ended' /\ Cleared'
    BY <1>2 DEF StopPool, ServerInv, Control, Typed, Steps, Position, NotThreaded, Unasked, Running,
                StopStages, Unbound, Destroyed, Ended, Cleared, Listening
  <2>2. QED
    BY <1>1, <2>1 DEF ServerInv, Control
<1>3. CASE StopReturns
  <2>1. Typed' /\ Position' /\ NotThreaded' /\ Unasked' /\ Running' /\ StopStages' /\ Unbound' /\ Destroyed' /\ Ended' /\ Cleared'
    BY <1>3 DEF StopReturns, ServerInv, Control, Typed, Steps, Position, NotThreaded, Unasked, Running,
                StopStages, Unbound, Destroyed, Ended, Cleared, Listening
  <2>2. QED
    BY <1>1, <2>1 DEF ServerInv, Control
<1>4. QED
  BY <1>2, <1>3 DEF Stopping

\* The thread only ends after stop(), whose close it has executed.
LEMMA ThreadExitKeeps ==
  ASSUME ServerInv, ThreadExit
  PROVE  ServerInv'
<1>1. CloseQueued' /\ Bounds'
  BY ChainsQuiet DEF ThreadExit
<1>2. Count(q, {"close"}) = 0
  BY CountEmpty DEF ThreadExit
<1>3. main \in {"off", "threaded"} => ~Listening
  BY <1>2 DEF ThreadExit, ServerInv, Control, CloseQueued, Running, NotThreaded, Cleared
<1>4. Typed' /\ Position' /\ NotThreaded' /\ Unasked' /\ Running' /\ StopStages' /\ Unbound' /\ Destroyed' /\ Ended' /\ Cleared'
  BY <1>3 DEF ThreadExit, ServerInv, Control, Typed, Steps, Position, NotThreaded, Unasked, Running,
              StopStages, Unbound, Destroyed, Ended, Cleared, Listening
<1>5. QED
  BY <1>1, <1>4 DEF ServerInv, Control

\* A start meets nothing of the chains before it.
LEMMA PrepareKeeps ==
  ASSUME ServerInv, NEW blocking, Prepare(blocking)
  PROVE  ServerInv'
<1>1. ~thread /\ stopper = "off" /\ q = <<>> /\ pending = 0 /\ ~armed /\ ~work
  BY StoppedFacts DEF Prepare, MayStart
<1>2. QueueLength \in Nat /\ QueueLength > 0
  BY ServerAssumption
<1>3. Repeat("accept_one", QueueLength) \in Seq(Queueable)
  BY <1>2, RepeatType DEF Queueable
<1>4. q' = Repeat("accept_one", QueueLength)
  BY <1>1, <1>3 DEF Prepare
<1>5. Count(q', Alive) = QueueLength
  BY <1>2, <1>4, CountRepeat DEF Alive
<1>10. Count(q', {"close"}) = 0
  <2>1. <<>> \in Seq(Queueable) /\ "accept_one" \in Queueable /\ "accept_one" \notin {"close"}
    BY DEF Queueable
  <2>2. Count(<<>> \o Repeat("accept_one", QueueLength), {"close"}) = Count(<<>>, {"close"})
    <3>1. QueueLength \in Nat
      BY <1>2
    <3>2. QED
      BY ONLY <2>1, <3>1, CountOthers, Zenon
  <2>3. q' = <<>> \o Repeat("accept_one", QueueLength)
    BY <1>1 DEF Prepare
  <2>4. QED
    BY <2>2, <2>3, CountEmpty
<1>6. Bounds'
  BY <1>1, <1>2, <1>5 DEF Prepare, Bounds, Going1, Listening
<1>7. Typed'
  BY <1>3, <1>4 DEF Prepare, ServerInv, Control, Typed, Steps
<1>11. ~unbound
  BY DEF Prepare, MayStart, ServerInv, Control, Unbound
<1>8. Position' /\ NotThreaded' /\ Unasked' /\ Running' /\ StopStages' /\ CloseQueued' /\ Unbound' /\ Destroyed'
      /\ Ended' /\ Cleared'
  BY <1>1, <1>10, <1>11
  DEF Prepare, MayStart, ServerInv, Control, Position, NotThreaded, Unasked, Running, StopStages,
      CloseQueued, Unbound, Destroyed, Ended, Cleared, Listening
<1>9. QED
  BY <1>6, <1>7, <1>8 DEF ServerInv, Control

\* stop(), the destructor's included, queues the close behind everything else.
LEMMA StopKeeps ==
  ASSUME ServerInv, started, stopper = "off", stopper' = "stopping",
         asked = "no" \/ (asked = "early" /\ main # "marked"),
         asked' = (IF main = "marked" THEN "early" ELSE "yes"),
         q' = Append(q, "close"), Destroyed', life # "dead",
         UNCHANGED <<block, main, started, open, work, thread, pending, armed, failed, unbound>>
  PROVE  ServerInv'
<1>1. q \in Seq(Queueable) /\ "close" \in Queueable /\ q' \in Seq(Queueable)
  BY DEF ServerInv, Control, Typed, Queueable
<1>2. Count(q', Alive) = Count(q, Alive)
  <2>1. Count(q', Alive) = Count(q, Alive) + (IF "close" \in Alive THEN 1 ELSE 0) /\ Count(q, Alive) \in Nat
    BY <1>1, CountAppend, CountType
  <2>2. QED
    BY <2>1 DEF Alive
<1>3. Count(q', {"close"}) > 0
  <2>1. Count(q', {"close"}) = Count(q, {"close"}) + (IF "close" \in {"close"} THEN 1 ELSE 0)
        /\ Count(q, {"close"}) \in Nat
    <3>1. Count(Append(q, "close"), {"close"}) = Count(q, {"close"}) + (IF "close" \in {"close"} THEN 1 ELSE 0)
      BY <1>1, CountAppend
    <3>2. Count(q, {"close"}) \in Nat
      BY <1>1, CountType
    <3>3. QED
      BY <3>1, <3>2
  <2>2. QED
    BY <2>1
<1>4. Bounds'
  BY <1>2 DEF ServerInv, Bounds, Going1, Listening
<1>5. Typed'
  BY <1>1 DEF ServerInv, Control, Typed
<1>6. Position' /\ NotThreaded' /\ Unasked' /\ Running' /\ StopStages' /\ CloseQueued'
      /\ Unbound' /\ Destroyed' /\ Cleared'
  BY <1>3 DEF ServerInv, Control, Typed, Steps, Position, NotThreaded, Unasked, Running, StopStages,
              CloseQueued, Unbound, Destroyed, Cleared, Listening
<1>7. Ended'
  BY DEF ServerInv, Control, Typed, Ended, Running, Listening
<1>8. QED
  BY <1>4, <1>5, <1>6, <1>7 DEF ServerInv, Control

\* Steps of the acceptor's thread, the network and the clock.
LEMMA QueueKeeps ==
  ASSUME ServerInv,
         UNCHANGED <<block, main, stopper, started, work, thread, asked, unbound, life>>,
         open' = open \/ (~open' /\ asked # "no"),
         thread \/ main \notin {"off", "threaded"},
         q' \in Seq(Queueable), pending' \in Nat, CloseQueued', Bounds'
  PROVE  ServerInv'
<1>1. Typed'
  BY DEF ServerInv, Control, Typed
<1>2. Position' /\ NotThreaded' /\ Unasked' /\ Running' /\ StopStages' /\ Unbound' /\ Destroyed' /\ Ended' /\ Cleared'
  BY DEF ServerInv, Control, Position, NotThreaded, Unasked, Running, StopStages,
              Unbound, Destroyed, Ended, Cleared, Listening
<1>3. QED
  BY <1>1, <1>2 DEF ServerInv, Control

\* The handler at the head of the queue leaves it.
LEMMA HeadLeaves ==
  ASSUME Typed, q # <<>>
  PROVE  /\ Tail(q) \in Seq(Queueable) /\ Head(q) \in Queueable
         /\ Count(q, Alive) \in Nat /\ Count(Tail(q), Alive) \in Nat
         /\ Count(Tail(q), {"close"}) \in Nat
         /\ Count(q, Alive) = Count(Tail(q), Alive) + (IF Head(q) \in Alive THEN 1 ELSE 0)
         /\ Count(q, {"close"}) = Count(Tail(q), {"close"}) + (IF Head(q) = "close" THEN 1 ELSE 0)
<1>1. q \in Seq(Queueable) /\ Tail(q) \in Seq(Queueable) /\ Head(q) \in Queueable
  BY DEF Typed
<1>2. Count(q, Alive) = Count(Tail(q), Alive) + (IF Head(q) \in Alive THEN 1 ELSE 0)
  BY <1>1, CountTail
<1>3. Count(q, {"close"}) = Count(Tail(q), {"close"}) + (IF Head(q) \in {"close"} THEN 1 ELSE 0)
  BY <1>1, CountTail
<1>4. Count(q, Alive) \in Nat /\ Count(Tail(q), Alive) \in Nat /\ Count(Tail(q), {"close"}) \in Nat
  BY <1>1, CountType
<1>5. QED
  BY <1>1, <1>2, <1>3, <1>4

\* A handler that ends its chain, or is queued to end one, is none that goes on.
LEMMA EndedAppended ==
  ASSUME NEW s \in Seq(Queueable), NEW x \in Queueable, x \notin Alive, x # "close"
  PROVE  /\ Append(s, x) \in Seq(Queueable)
         /\ Count(Append(s, x), Alive) = Count(s, Alive)
         /\ Count(Append(s, x), {"close"}) = Count(s, {"close"})
<1>1. /\ Count(Append(s, x), Alive) = Count(s, Alive) + (IF x \in Alive THEN 1 ELSE 0)
      /\ Count(Append(s, x), {"close"}) = Count(s, {"close"}) + (IF x \in {"close"} THEN 1 ELSE 0)
  BY CountAppend
<1>2. Count(s, Alive) \in Nat /\ Count(s, {"close"}) \in Nat
  BY CountType
<1>3. QED
  BY <1>1, <1>2

\* A chain that goes on takes a handler and accepts, or waits.
LEMMA AcceptOneKeeps ==
  ASSUME ServerInv, thread, q # <<>>, Head(q) \in Alive, AcceptOne,
         UNCHANGED <<open, failed, block, main, stopper, started, work, thread, asked, unbound, life>>
  PROVE  ServerInv'
<1>1. Typed /\ pending \in Nat /\ QueueLength \in Nat
  BY ServerAssumption DEF ServerInv, Control, Typed
<1>2. /\ Tail(q) \in Seq(Queueable)
      /\ Count(q, Alive) = Count(Tail(q), Alive) + 1
      /\ Count(Tail(q), Alive) \in Nat
      /\ Count(q, {"close"}) = Count(Tail(q), {"close"})
      /\ Count(Tail(q), {"close"}) \in Nat
  BY <1>1, HeadLeaves DEF Alive
<1>3. /\ "timer_abort" \in Queueable /\ "timer_abort" \notin Alive
      /\ "accept_err" \in Queueable /\ "accept_err" \notin Alive
  BY DEF Queueable, Alive
<1>4. CASE answer' = "null"
  <2>1. pending' = pending /\ armed' = TRUE
        /\ q' = (IF armed THEN Append(Tail(q), "timer_abort") ELSE Tail(q))
    BY <1>4 DEF AcceptOne
  <2>2. /\ q' \in Seq(Queueable) /\ Count(q', Alive) = Count(Tail(q), Alive)
        /\ Count(q', {"close"}) = Count(Tail(q), {"close"})
    BY <1>2, <1>3, <2>1, EndedAppended
  <2>3. Bounds'
    BY <1>1, <1>2, <2>1, <2>2 DEF ServerInv, Bounds, Going1, Listening
  <2>4. CloseQueued'
    BY <1>2, <2>2 DEF ServerInv, Control, CloseQueued, Listening
  <2>5. QED
    BY <1>1, <2>1, <2>2, <2>3, <2>4, QueueKeeps
<1>5. CASE answer' # "null"
  <2>1. armed' = armed
        /\ IF open THEN pending' = pending + 1 /\ q' = Tail(q)
                   ELSE q' = Append(Tail(q), "accept_err") /\ pending' = pending
    BY <1>5 DEF AcceptOne, AsyncAccept
  <2>2. /\ q' \in Seq(Queueable) /\ Count(q', Alive) = Count(Tail(q), Alive)
        /\ Count(q', {"close"}) = Count(Tail(q), {"close"})
    BY <1>2, <1>3, <2>1, EndedAppended
  <2>3. Bounds' /\ pending' \in Nat
    BY <1>1, <1>2, <2>1, <2>2, SMTT(30) DEF ServerInv, Bounds, Going1, Listening
  <2>4. CloseQueued'
    BY <1>2, <2>2 DEF ServerInv, Control, CloseQueued, Listening
  <2>5. QED
    BY <1>1, <2>1, <2>2, <2>3, <2>4, QueueKeeps
<1>6. QED
  BY <1>4, <1>5

\* The end of a chain that was over when its handler was queued.
LEMMA ChainEndsKeeps ==
  ASSUME ServerInv, thread, q # <<>>, Head(q) \in {"accept_err", "accept_abort", "timer_abort"}, ChainEnds,
         UNCHANGED <<open, failed, block, main, stopper, started, work, thread, asked, unbound, life>>
  PROVE  ServerInv'
<1>1. Typed /\ pending \in Nat
  BY DEF ServerInv, Control, Typed
<1>2. q' = Tail(q) /\ pending' = pending /\ armed' = armed
  BY DEF ChainEnds
<1>3. /\ q' \in Seq(Queueable)
      /\ Count(q', Alive) = Count(q, Alive)
      /\ Count(q', {"close"}) = Count(q, {"close"})
  BY <1>1, <1>2, HeadLeaves DEF Alive
<1>4. Bounds' /\ CloseQueued'
  BY <1>2, <1>3 DEF ServerInv, Control, Bounds, Going1, CloseQueued, Listening
<1>5. QED
  BY <1>1, <1>2, <1>3, <1>4, QueueKeeps

\* The close is executed once stop() has asked for it; the pending accepts are over.
LEMMA CloseKeeps ==
  ASSUME ServerInv, thread, CloseAcceptor,
         UNCHANGED <<block, main, stopper, started, work, thread, asked, unbound, life>>
  PROVE  ServerInv'
<1>1. Typed /\ pending \in Nat /\ QueueLength \in Nat /\ q # <<>> /\ Head(q) = "close"
  BY ServerAssumption DEF ServerInv, Control, Typed, CloseAcceptor
<1>2. /\ Tail(q) \in Seq(Queueable)
      /\ Count(q, Alive) = Count(Tail(q), Alive) /\ Count(q, Alive) \in Nat
      /\ Count(q, {"close"}) = Count(Tail(q), {"close"}) + 1
      /\ Count(Tail(q), {"close"}) \in Nat
  BY <1>1, HeadLeaves DEF Alive
<1>3. asked # "no"
  BY <1>2 DEF ServerInv, Control, CloseQueued, Listening
<1>4. q' = Tail(q) \o Repeat("accept_abort", pending) /\ pending' = 0 /\ armed' = armed /\ ~open'
  BY DEF CloseAcceptor
<1>5. "accept_abort" \in Queueable /\ "accept_abort" \notin Alive
  BY DEF Queueable, Alive
<1>6. Count(q', Alive) = Count(q, Alive)
  <2> DEFINE rest == Tail(q)
  <2>1. rest \in Seq(Queueable) /\ pending \in Nat
    BY <1>1, <1>2
  <2> HIDE DEF rest
  <2>2. Count(rest \o Repeat("accept_abort", pending), Alive) = Count(rest, Alive)
    BY <1>5, <2>1, CountOthers
  <2>3. QED
    BY <1>2, <1>4, <2>2 DEF rest
<1>7. q' \in Seq(Queueable)
  <2>1. Repeat("accept_abort", pending) \in Seq(Queueable)
    BY <1>1, <1>5, RepeatType
  <2>2. QED
    BY <1>2, <1>4, <2>1, ConcatProperties
<1>8. Bounds' /\ CloseQueued'
  BY <1>1, <1>2, <1>3, <1>4, <1>6 DEF ServerInv, Bounds, Going1, CloseQueued, Listening
<1>9. QED
  BY <1>1, <1>3, <1>4, <1>7, <1>8, QueueKeeps

LEMMA AcceptorKeeps ==
  ASSUME ServerInv, AcceptorRuns
  PROVE  ServerInv'
<1>1. thread /\ UNCHANGED <<block, main, stopper, started, work, thread, asked, unbound, life>>
  BY DEF AcceptorRuns, mainUnchanged
<1>2. CASE FirstAccept
  BY <1>1, <1>2, AcceptOneKeeps DEF FirstAccept, Alive
<1>3. CASE HandleAccept
  BY <1>1, <1>3, AcceptOneKeeps, ChainEndsKeeps DEF HandleAccept, Alive
<1>4. CASE HandleTimeout
  BY <1>1, <1>4, AcceptOneKeeps, ChainEndsKeeps DEF HandleTimeout, Alive
<1>5. CASE CloseAcceptor
  BY <1>1, <1>5, CloseKeeps
<1>6. QED
  BY <1>2, <1>3, <1>4, <1>5 DEF AcceptorRuns

\* The network ends an accept, well or not.
LEMMA AcceptedKeeps ==
  ASSUME ServerInv, Accepted
  PROVE  ServerInv'
<1>1. Typed /\ q \in Seq(Queueable) /\ pending \in Nat /\ pending > 0 /\ open /\ QueueLength \in Nat
  BY ServerAssumption DEF ServerInv, Control, Typed, Accepted
<1>2. /\ pending' = pending - 1 /\ armed' = armed
      /\ UNCHANGED <<open, block, main, stopper, started, work, thread, asked, unbound, life>>
  BY DEF Accepted
<1>3. thread \/ main \notin {"off", "threaded"}
  BY <1>1 DEF ServerInv, Control, Ended
<1>4. PICK r \in {"accept_ok", "accept_err"} :
        q' = Append(q, r) /\ failed' = (failed \/ r = "accept_err")
  BY DEF Accepted
<1>5. /\ Count(q, Alive) \in Nat /\ Count(q, {"close"}) \in Nat
      /\ r \in Queueable /\ q' \in Seq(Queueable)
  <2>1. r \in Queueable
    BY DEF Queueable
  <2>2. q' \in Seq(Queueable)
    BY <1>1, <1>4, <2>1
  <2>3. QED
    BY <1>1, <2>1, <2>2, CountType
<1>6. /\ Count(q', Alive) = Count(q, Alive) + (IF r \in Alive THEN 1 ELSE 0)
      /\ Count(q', {"close"}) = Count(q, {"close"}) + (IF r \in {"close"} THEN 1 ELSE 0)
  BY <1>1, <1>4, <1>5, CountAppend
<1>7. Count(q', {"close"}) = Count(q, {"close"})
  BY <1>4, <1>5, <1>6
<1>8. CloseQueued'
  BY <1>2, <1>7 DEF ServerInv, Control, CloseQueued, Listening
<1>9. Bounds'
  <2>1. CASE r = "accept_ok"
    <3>1. Count(q', Alive) = Count(q, Alive) + 1
      BY <1>6, <2>1 DEF Alive
    <3>2. QED
      BY <1>1, <1>2, <1>4, <1>5, <2>1, <3>1 DEF ServerInv, Bounds, Going1, Listening
  <2>2. CASE r = "accept_err"
    <3>1. Count(q', Alive) = Count(q, Alive)
      BY <1>5, <1>6, <2>2 DEF Alive
    <3>2. failed'
      BY <1>4, <2>2
    <3>3. QED
      BY <1>1, <1>2, <1>5, <3>1, <3>2 DEF ServerInv, Bounds, Going1, Listening
  <2>3. QED
    BY <1>4, <2>1, <2>2
<1>10. QED
  BY <1>1, <1>2, <1>3, <1>5, <1>8, <1>9, QueueKeeps

LEMMA TimerExpiresKeeps ==
  ASSUME ServerInv, TimerExpires
  PROVE  ServerInv'
<1>1. Typed /\ q \in Seq(Queueable) /\ pending \in Nat /\ armed /\ QueueLength \in Nat
  BY ServerAssumption DEF ServerInv, Control, Typed, TimerExpires
<1>2. /\ ~armed' /\ q' = Append(q, "timer_ok")
      /\ UNCHANGED <<open, block, main, stopper, started, work, thread, asked, pending, failed, unbound, life>>
  BY DEF TimerExpires
<1>3. thread \/ main \notin {"off", "threaded"}
  BY <1>1 DEF ServerInv, Control, Ended
<1>4. /\ "timer_ok" \in Queueable /\ q' \in Seq(Queueable)
      /\ Count(q, Alive) \in Nat /\ Count(q, {"close"}) \in Nat
  <2>1. "timer_ok" \in Queueable
    BY DEF Queueable
  <2>2. q' \in Seq(Queueable)
    BY <1>1, <1>2, <2>1
  <2>3. QED
    BY <1>1, <2>1, <2>2, CountType
<1>5. /\ Count(q', Alive) = Count(q, Alive) + (IF "timer_ok" \in Alive THEN 1 ELSE 0)
      /\ Count(q', {"close"}) = Count(q, {"close"}) + (IF "timer_ok" \in {"close"} THEN 1 ELSE 0)
  BY <1>1, <1>2, <1>4, CountAppend
<1>6. Count(q', Alive) = Count(q, Alive) + 1 /\ Count(q', {"close"}) = Count(q, {"close"})
  BY <1>4, <1>5 DEF Alive
<1>7. CloseQueued'
  BY <1>2, <1>6 DEF ServerInv, Control, CloseQueued, Listening
<1>8. Bounds'
  BY <1>1, <1>2, <1>4, <1>6 DEF ServerInv, Bounds, Going1, Listening
<1>9. QED
  BY <1>1, <1>2, <1>3, <1>4, <1>7, <1>8, QueueKeeps

LEMMA ServerNextKeeps == ServerInv /\ [Next]_vars => ServerInv'
<1> SUFFICES ASSUME ServerInv, [Next]_vars PROVE ServerInv'
  OBVIOUS
<1>8. Destroyed
  BY DEF ServerInv, Control
<1>1. CASE UNCHANGED vars
  BY <1>1, <1>8, ServerQuiet DEF vars, serverVars, Destroyed
<1>2. CASE Construct \/ DestroyPool \/ SessionEnds \/ Return \/ GroupStarts \/ GroupStops \/ SetGroup
  BY <1>2, <1>8, ServerQuiet
  DEF Construct, DestroyPool, SessionEnds, Return, GroupStarts, GroupStops, SetGroup, serverVars, Destroyed
<1>9. CASE BindFails
  BY <1>9, OpenQuiet DEF BindFails, MayStart
<1>10. CASE ClearPool
  <2>1. CASE UNCHANGED serverVars
    BY <1>8, <2>1, ServerQuiet DEF serverVars, Destroyed
  <2>2. CASE life = "dead" /\ ~open' /\ ~UNCHANGED serverVars
    <3>1. UNCHANGED <<block, main, stopper, started, work, thread, q, pending, armed, failed, asked, life>>
      BY <1>10, <2>2 DEF ClearPool
    <3>2. QED
      BY <1>8, <2>2, <3>1, OpenQuiet DEF Destroyed
  <2>3. QED
    BY <1>10, <2>1, <2>2 DEF ClearPool
<1>3. CASE DestroyBegin
  <2>1. CASE started
    <3>1. asked = "no" /\ stopper = "off"
      BY <1>3, <2>1 DEF DestroyBegin, ServerInv, Control, Unasked
    <3>2. QED
      BY <1>3, <2>1, <3>1, StopKeeps DEF DestroyBegin, Destroyed
  <2>2. CASE ~started
    BY <1>3, <2>2, ServerQuiet DEF DestroyBegin, Destroyed
  <2>3. QED
    BY <2>1, <2>2
<1>4. CASE StopCalled
  BY <1>4, StopKeeps DEF StopCalled, Destroyed
<1>5. CASE \E blocking \in BOOLEAN : Prepare(blocking)
  BY <1>5, PrepareKeeps
<1>6. CASE Starting \/ Stopping \/ AcceptorRuns \/ ThreadExit \/ Accepted \/ TimerExpires
  BY <1>6, StartingKeeps, StoppingKeeps, AcceptorKeeps, ThreadExitKeeps, AcceptedKeeps, TimerExpiresKeeps
<1>7. QED
  BY <1>1, <1>2, <1>3, <1>4, <1>5, <1>6, <1>9, <1>10 DEF Next, Calls, Threads
-----------------------------------------------------------------------------
(* The server in its program or service, and the pool in the server *)

\* However the program is run, its steps are steps of the server.
LEMMA HostStep == [HostNext]_allVars => [Next]_vars
<1> SUFFICES ASSUME [HostNext]_allVars PROVE Next \/ UNCHANGED vars
  OBVIOUS
<1>1. CASE UNCHANGED allVars
  BY <1>1 DEF allVars
<1>2. CASE Program \/ Tool
  BY <1>2 DEF Program, Tool
<1>3. CASE Service
  <2>1. CASE ServiceMain \/ Deliver \/ HandlerReports \/ DispatcherReturns
    <3>1. CallStart => Calls
      BY DEF CallStart, Calls
    <3>2. QED
      BY <2>1, <3>1 DEF ServiceMain, Register, InitFails, InitServer, StartGroup, StartServer, ReportRunning,
                        Deliver, HandlerReports, DispatcherReturns, Next, Calls
  <2>2. CASE HandlerStops \/ HandlerStarts
    BY <2>2 DEF HandlerStops, HandlerStarts, CallStart, Next, Calls
  <2>3. CASE Threads
    BY <2>3 DEF Next
  <2>4. QED
    BY <1>3, <2>1, <2>2, <2>3 DEF Service
<1>4. QED
  BY <1>1, <1>2, <1>3 DEF HostNext

\* What the server does to its pool are operations of the pool.
LEMMA PoolStep == [Next]_vars => [PoolNext]_poolVars
<1> SUFFICES ASSUME [Next]_vars PROVE PoolNext \/ UNCHANGED poolVars
  OBVIOUS
<1>1. CASE UNCHANGED vars
  BY <1>1 DEF vars
<1>2. CASE Calls
  BY <1>2 DEF Calls, Construct, DestroyBegin, BindFails, StopCalled, Prepare, GroupStarts, GroupStops,
              SetGroup, PoolNext
<1>3. CASE Threads
  <2>1. CASE Starting \/ Stopping \/ ThreadExit \/ Accepted \/ TimerExpires
    BY <2>1 DEF Starting, MarkStarted, StartPool, Started, RunReturns, Stopping, StopPool, StopReturns,
                ThreadExit, Accepted, TimerExpires
  <2>2. CASE AcceptorRuns
    BY <2>2 DEF AcceptorRuns, FirstAccept, HandleAccept, HandleTimeout, CloseAcceptor, AcceptOne,
                ChainEnds, PoolNext
  <2>3. CASE DestroyPool \/ ClearPool \/ SessionEnds \/ Return
    BY <2>3 DEF DestroyPool, ClearPool, SessionEnds, Return, PoolNext, Clear
  <2>4. QED
    BY <1>3, <2>1, <2>2, <2>3 DEF Threads
<1>4. QED
  BY <1>1, <1>2, <1>3 DEF Next

THEOREM ServerInvariant == HostSpec => [](ServerInv /\ PoolInv)
<1>1. HostInit => ServerInv /\ PoolInv
  BY ServerInitHolds, PoolInitHolds DEF HostInit, Init
<1>2. ServerInv /\ PoolInv /\ [HostNext]_allVars => ServerInv' /\ PoolInv'
  BY HostStep, PoolStep, ServerNextKeeps, PoolNextKeeps
<1>3. QED
  BY <1>1, <1>2, PTL DEF HostSpec

\* The chains, counted in the queue.
LEMMA ChainsCounted == Chains = Going1
  BY DEF Chains, Going, Going1, Count, Alive

\* No accept chain is ever doubled, however often the waits on the one timer cancel
\* each other, and the server is never without one while its acceptor listens and no
\* accept has failed.
THEOREM ServerChainsKept == HostSpec => []ChainsKeptInBounds
<1>1. ServerInv => ChainsKeptInBounds
  BY ChainsCounted DEF ServerInv, Bounds, ChainsKeptInBounds, ChainsBounded, NeverDeaf
<1>2. QED
  BY <1>1, ServerInvariant, PTL

\* A server that has stopped has no queued handler, accept or wait left, and no open
\* acceptor unless a bind has failed.
THEOREM ServerStopsClean == HostSpec => []StoppedIsClean
<1>1. ServerInv => StoppedIsClean
  <2> SUFFICES ASSUME ServerInv, main = "off", ~started
               PROVE  q = <<>> /\ Chains = 0 /\ (open => unbound)
    BY DEF StoppedIsClean
  <2>1. q = <<>> /\ pending = 0 /\ ~armed /\ (open => unbound)
    BY StoppedFacts
  <2>2. Going1 = 0
    BY <2>1, CountEmpty DEF Going1
  <2>3. QED
    BY <2>1, <2>2, ChainsCounted
<1>2. QED
  BY <1>1, ServerInvariant, PTL

\* The handler_count_ of the server's pool is exact whoever uses the pool.
THEOREM ServerCountExact == HostSpec => []CountExact
<1>1. PoolInv => CountExact
  BY DEF PoolInv
<1>2. QED
  BY <1>1, ServerInvariant, PTL

\* The server initialises its pool once, so that its handlers are fewer than the
\* maximum and an increment.
THEOREM ServerCountBounded == HostSpec => []CountBounded
<1>1. PoolInv => CountBounded
  BY DEF PoolInv
<1>2. QED
  BY <1>1, ServerInvariant, PTL
-----------------------------------------------------------------------------
(* What the service reports *)

\* Where service_main is when it has reported no more than START_PENDING.
EntryStages ==
  /\ entry = "off" => state = "none"
  /\ entry \in {"registered", "initialised", "starting"} => state = "START_PENDING"
  /\ entry \in {"off", "registered", "initialised"} => main = "off" /\ ~started
  /\ entry = "starting" => started \/ unbound \/ main # "off"
  /\ entry # "done" => control = "none"

\* What the control handler has called, and when the call is over.
ControlStages ==
  /\ control # "none" => state = Pending(control)
  /\ control = "none" /\ entry = "done" => main = "off"
  /\ control \in {"stop", "pause"} => main = "off" /\ (calling /\ started => stopper # "off")
  /\ control = "continue" /\ ~calling => main = "off"
  /\ control = "continue" /\ calling => started \/ unbound \/ main # "off"
  /\ calling => control # "none"
  /\ stopper # "off" => control \in {"stop", "pause"} /\ calling

\* The last final state that was reported is still true.
Reported ==
  /\ state \in {"STOPPED", "PAUSED"} => main = "off" /\ ~started
  /\ state = "RUNNING" => started \/ unbound
  /\ host = "crashed" => unbound

Hosted == host \in {"service", "crashed"}
ServiceInv == IF Hosted THEN ~block /\ EntryStages /\ ControlStages /\ Reported ELSE state = "none"

ToolInv ==
  /\ task = "none" => handles = {}
  /\ ret # "none" => handles = {} /\ (ret = "ok" => effect)

\* The types that the other invariants do not give.
ServerTypes ==
  /\ block \in BOOLEAN /\ started \in BOOLEAN /\ open \in BOOLEAN /\ work \in BOOLEAN
  /\ thread \in BOOLEAN /\ armed \in BOOLEAN /\ failed \in BOOLEAN
  /\ asked \in {"no", "early", "yes"} /\ group \in {"none", "own", "up", "down"}
  /\ starts \in 0..MaxStarts
  /\ unbound \in BOOLEAN /\ life \in {"none", "alive", "dying", "dead"}

ServiceTypes ==
  /\ host \in {"program", "service", "tool", "crashed"}
  /\ state \in States /\ accepts \subseteq Controls
  /\ entry \in {"off", "registered", "initialised", "starting", "done"}
  /\ control \in Controls \cup {"none"} /\ calling \in BOOLEAN
  /\ task \in {"none", "install", "remove", "command"}
  /\ handles \subseteq {"manager", "service"}
  /\ ret \in {"none", "ok", "error"} /\ effect \in BOOLEAN

HostInv == ServerTypes /\ ServiceTypes /\ ServiceInv /\ ToolInv

LEMMA HostInitHolds == HostInit => HostInv
<1> SUFFICES ASSUME HostInit PROVE HostInv
  OBVIOUS
<1>1. ServerTypes
  <2>1. starts = 0 /\ life = "none"
    BY DEF HostInit, Init
  <2>2. starts \in 0..MaxStarts /\ life \in {"none", "alive", "dying", "dead"}
    BY <2>1, ServerAssumption
  <2>3. QED
    BY <2>2, Zenon DEF HostInit, Init, ServerTypes
<1>2. ServiceTypes
  BY WinServiceAssumption DEF HostInit, ServiceTypes, States, Controls
<1>3. ServiceInv /\ ToolInv
  BY WinServiceAssumption DEF HostInit, Init, ServiceInv, Hosted, EntryStages, ControlStages, Reported, ToolInv
<1>4. QED
  BY <1>1, <1>2, <1>3 DEF HostInv

\* What the server's own threads do to a server that start() has started.
LEMMA ThreadsShape ==
  ASSUME Threads, ~block
  PROVE  /\ UNCHANGED <<block, unbound>>
         /\ \/ UNCHANGED <<main, started, stopper>>
            \/ main # "off" /\ main' = "threaded" /\ UNCHANGED <<started, stopper>>
            \/ main # "off" /\ main' = "off" /\ started' /\ UNCHANGED stopper
            \/ stopper = "stopping" /\ stopper' = "joining" /\ UNCHANGED <<main, started>>
            \/ stopper # "off" /\ stopper' = "off" /\ ~started' /\ UNCHANGED main
<1>1. CASE Starting
  BY <1>1 DEF Starting, MarkStarted, StartPool, Started, RunReturns
<1>2. CASE Stopping
  BY <1>2 DEF Stopping, StopPool, StopReturns
<1>3. CASE AcceptorRuns \/ ThreadExit \/ DestroyPool \/ ClearPool
  BY <1>3 DEF AcceptorRuns, mainUnchanged, ThreadExit, DestroyPool, ClearPool, serverVars
<1>4. CASE Accepted \/ TimerExpires \/ SessionEnds \/ Return
  BY <1>4 DEF Accepted, TimerExpires, SessionEnds, Return, serverVars
<1>5. QED
  BY <1>1, <1>2, <1>3, <1>4 DEF Threads

LEMMA ThreadsReport ==
  ASSUME ServiceInv, Hosted, Threads, UNCHANGED <<host, serviceVars>>
  PROVE  ServiceInv'
<1>1. ~block /\ EntryStages /\ ControlStages /\ Reported
  BY DEF ServiceInv
<1>2. UNCHANGED <<host, state, accepts, entry, control, calling>>
  BY DEF serviceVars
<1>3. /\ UNCHANGED <<block, unbound>>
      /\ \/ UNCHANGED <<main, started, stopper>>
         \/ main # "off" /\ main' = "threaded" /\ UNCHANGED <<started, stopper>>
         \/ main # "off" /\ main' = "off" /\ started' /\ UNCHANGED stopper
         \/ stopper = "stopping" /\ stopper' = "joining" /\ UNCHANGED <<main, started>>
         \/ stopper # "off" /\ stopper' = "off" /\ ~started' /\ UNCHANGED main
  BY <1>1, ThreadsShape
<1>4. ~block' /\ Hosted'
  BY <1>1, <1>2, <1>3 DEF Hosted
<1>5. EntryStages'
  BY <1>1, <1>2, <1>3 DEF EntryStages, ControlStages
<1>6. ControlStages'
  BY <1>1, <1>2, <1>3 DEF EntryStages, ControlStages
<1>7. Reported'
  BY <1>1, <1>2, <1>3 DEF Reported, ControlStages, Pending
<1>8. QED
  BY <1>4, <1>5, <1>6, <1>7 DEF ServiceInv

LEMMA ServiceMainReports ==
  ASSUME ServiceInv, Hosted, ServiceMain, UNCHANGED host
  PROVE  ServiceInv'
<1>1. ~block /\ EntryStages /\ ControlStages /\ Reported /\ Hosted'
  BY DEF ServiceInv, Hosted
<1>2. CASE Register
  BY <1>1, <1>2 DEF Register, vars, serverVars, ServiceInv, EntryStages, ControlStages, Reported, Pending
<1>3. CASE InitFails
  BY <1>1, <1>3 DEF InitFails, vars, serverVars, ServiceInv, EntryStages, ControlStages, Reported, Pending
<1>4. CASE InitServer
  BY <1>1, <1>4 DEF InitServer, Construct, ServiceInv, EntryStages, ControlStages, Reported, Pending
<1>8. CASE StartGroup
  BY <1>1, <1>8 DEF StartGroup, GroupStarts, serviceVars, ServiceInv, EntryStages, ControlStages, Reported, Pending
<1>5. CASE StartServer
  <2>1. CASE Prepare(FALSE)
    BY <1>1, <1>5, <2>1 DEF StartServer, Prepare, MayStart, ServiceInv, EntryStages, ControlStages, Reported, Pending
  <2>2. CASE BindFails
    BY <1>1, <1>5, <2>2 DEF StartServer, BindFails, MayStart, ServiceInv, EntryStages, ControlStages, Reported, Pending
  <2>3. QED
    BY <1>5, <2>1, <2>2 DEF StartServer, CallStart
<1>6. CASE ReportRunning
  BY <1>1, <1>6 DEF ReportRunning, vars, serverVars, ServiceInv, EntryStages, ControlStages, Reported, Pending
<1>7. QED
  BY <1>2, <1>3, <1>4, <1>5, <1>6, <1>8 DEF ServiceMain

LEMMA HandlerReportsTrue ==
  ASSUME ServiceInv, ServiceTypes, Hosted, Deliver \/ HandlerReports, UNCHANGED host
  PROVE  ServiceInv'
<1>1. ~block /\ EntryStages /\ ControlStages /\ Reported /\ Hosted'
  BY DEF ServiceInv, Hosted
<1>2. UNCHANGED <<block, main, stopper, started, unbound, entry>>
  BY DEF Deliver, HandlerReports, GroupStops, vars, serverVars
<1>3. control \in Controls \cup {"none"} /\ accepts \subseteq Controls
      /\ entry \in {"off", "registered", "initialised", "starting", "done"}
  BY DEF ServiceTypes
<1>4. CASE Deliver
  <2>1. entry = "done" /\ control = "none"
    BY <1>1, <1>3, <1>4 DEF Deliver, EntryStages
  <2>2. PICK c \in Controls : control' = c /\ state' = Pending(c) /\ calling' = FALSE
    BY <1>3, <1>4 DEF Deliver
  <2>3. QED
    BY <1>1, <1>2, <2>1, <2>2 DEF ServiceInv, EntryStages, ControlStages, Reported, Pending, Controls
<1>5. CASE HandlerReports
  <2>1. /\ calling /\ main = "off" /\ stopper = "off"
        /\ state' = Done(control) /\ control' = "none" /\ calling' = FALSE
    BY <1>5 DEF HandlerReports
  <2>2. control \in Controls /\ entry = "done"
    BY <1>1, <1>3, <2>1 DEF ControlStages, EntryStages
  <2>3. CASE control \in {"stop", "pause"}
    BY <1>1, <1>2, <2>1, <2>2, <2>3 DEF ServiceInv, EntryStages, ControlStages, Reported, Done, Pending
  <2>4. CASE control = "continue"
    BY <1>1, <1>2, <2>1, <2>2, <2>4 DEF ServiceInv, EntryStages, ControlStages, Reported, Done, Pending
  <2>5. QED
    BY <2>2, <2>3, <2>4 DEF Controls
<1>6. QED
  BY <1>4, <1>5

LEMMA HandlerCallsReport ==
  ASSUME ServerInv, ServiceInv, Hosted, HandlerStops \/ HandlerStarts
  PROVE  ServiceInv'
<1>1. ~block /\ EntryStages /\ ControlStages /\ Reported
  BY DEF ServiceInv
<1>2. CASE HandlerStops
  <2>1. /\ control \in {"stop", "pause"} /\ ~calling /\ calling'
        /\ UNCHANGED <<host, state, entry, control>>
    BY <1>2 DEF HandlerStops
  <2>2. CASE started
    BY <1>1, <1>2, <2>1, <2>2
    DEF HandlerStops, StopCalled, Hosted, ServiceInv, EntryStages, ControlStages, Reported, Pending
  <2>3. CASE ~started
    BY <1>1, <1>2, <2>1, <2>3
    DEF HandlerStops, vars, serverVars, Hosted, ServiceInv, EntryStages, ControlStages, Reported, Pending
  <2>4. QED
    BY <2>2, <2>3
<1>3. CASE HandlerStarts
  <2>1. /\ control = "continue" /\ ~calling /\ calling'
        /\ UNCHANGED <<state, entry, control>> /\ Hosted'
    BY <1>3 DEF HandlerStarts, Hosted
  <2>2. CASE started \/ open
    <3>1. started \/ unbound
      BY <1>1, <2>1, <2>2, StoppedFacts DEF ControlStages
    <3>2. UNCHANGED vars /\ (host' = "crashed" => unbound)
      BY <1>1, <1>3, <2>2, <3>1 DEF HandlerStarts, Reported
    <3>3. QED
      BY <1>1, <2>1, <3>1, <3>2
      DEF vars, serverVars, ServiceInv, EntryStages, ControlStages, Reported, Pending
  <2>5. CallStart => UNCHANGED host
    BY <1>3 DEF HandlerStarts, CallStart, Prepare, BindFails, MayStart
  <2>3. CASE Prepare(FALSE)
    BY <1>1, <2>1, <2>3, <2>5
    DEF CallStart, Prepare, MayStart, ServiceInv, EntryStages, ControlStages, Reported, Pending
  <2>4. CASE BindFails
    BY <1>1, <2>1, <2>4, <2>5
    DEF CallStart, BindFails, MayStart, ServiceInv, EntryStages, ControlStages, Reported, Pending
  <2>6. QED
    BY <1>3, <2>2, <2>3, <2>4 DEF HandlerStarts, CallStart
<1>4. QED
  BY <1>2, <1>3

\* The dispatcher returns from a service that has stopped: there is nothing to stop.
LEMMA DispatcherReports ==
  ASSUME ServiceInv, Hosted, DispatcherReturns, UNCHANGED host
  PROVE  ServiceInv'
<1>1. ~block /\ EntryStages /\ ControlStages /\ Reported /\ Hosted'
  BY DEF ServiceInv, Hosted
<1>2. ~started
  BY <1>1 DEF DispatcherReturns, Reported
<1>3. UNCHANGED <<block, main, stopper, started, unbound, state, accepts, entry, control, calling>>
  BY <1>2 DEF DispatcherReturns, DestroyBegin, serviceVars
<1>4. QED
  BY <1>1, <1>3 DEF ServiceInv, EntryStages, ControlStages, Reported

LEMMA ReportsKeep == ServerInv /\ ServiceInv /\ ServiceTypes /\ [HostNext]_allVars => ServiceInv'
<1> SUFFICES ASSUME ServerInv, ServiceInv, ServiceTypes, [HostNext]_allVars PROVE ServiceInv'
  OBVIOUS
<1>1. CASE UNCHANGED allVars
  BY <1>1 DEF allVars, vars, serverVars, serviceVars, ServiceInv, Hosted, EntryStages, ControlStages, Reported
<1>2. CASE Program
  BY <1>2 DEF Program, ServiceInv, Hosted, serviceVars
<1>3. CASE Tool
  BY <1>3 DEF Tool, ServiceInv, Hosted, serviceVars
<1>4. CASE Service
  <2>1. CASE host = "service" /\ (ServiceMain \/ Deliver \/ HandlerReports \/ DispatcherReturns) /\ UNCHANGED host
    BY <2>1, ServiceMainReports, HandlerReportsTrue, DispatcherReports DEF Hosted
  <2>2. CASE host = "service" /\ (HandlerStops \/ HandlerStarts)
    BY <2>2, HandlerCallsReport DEF Hosted
  <2>3. CASE host \in {"service", "crashed"} /\ Threads /\ UNCHANGED <<host, serviceVars>>
    BY <2>3, ThreadsReport DEF Hosted
  <2>4. QED
    BY <1>4, <2>1, <2>2, <2>3 DEF Service
<1>5. QED
  BY <1>1, <1>2, <1>3, <1>4 DEF HostNext

LEMMA ToolKeeps == ToolInv /\ [HostNext]_allVars => ToolInv'
<1> SUFFICES ASSUME ToolInv, [HostNext]_allVars PROVE ToolInv'
  OBVIOUS
<1>1. CASE UNCHANGED toolVars
  BY <1>1 DEF toolVars, ToolInv
<1>2. CASE Tool
  BY <1>2 DEF Tool, OpenManager, OpenService, Act, ToolInv
<1>3. QED
  BY <1>1, <1>2 DEF HostNext, Program, Service, allVars

LEMMA TypesStarting ==
  ASSUME ServerTypes, Starting \/ Stopping
  PROVE  ServerTypes'
<1>1. CASE MarkStarted \/ StartPool \/ Started \/ RunReturns
  BY <1>1, ZenonT(60) DEF MarkStarted, StartPool, Started, RunReturns, ServerTypes
<1>2. CASE StopPool \/ StopReturns
  BY <1>2, ZenonT(60) DEF StopPool, StopReturns, ServerTypes
<1>3. QED
  BY <1>1, <1>2 DEF Starting, Stopping

LEMMA TypesAcceptor ==
  ASSUME ServerTypes, AcceptorRuns \/ ThreadExit \/ Accepted \/ TimerExpires
  PROVE  ServerTypes'
<1>1. CASE AcceptorRuns
  <2>1. UNCHANGED <<block, main, stopper, started, work, thread, asked, starts, unbound, group, life>>
    BY <1>1 DEF AcceptorRuns, mainUnchanged
  <2>2. AcceptOne \/ ChainEnds => armed' \in BOOLEAN
    BY ZenonT(60) DEF AcceptOne, AsyncAccept, ChainEnds, ServerTypes
  <2>3. open' \in BOOLEAN /\ failed' \in BOOLEAN /\ armed' \in BOOLEAN
    BY <1>1, <2>2, ZenonT(60)
    DEF AcceptorRuns, FirstAccept, HandleAccept, HandleTimeout, CloseAcceptor, ServerTypes
  <2>4. QED
    BY <2>1, <2>3, ZenonT(60) DEF ServerTypes
<1>2. CASE ThreadExit \/ TimerExpires
  BY <1>2, ZenonT(60) DEF ThreadExit, TimerExpires, ServerTypes
<1>3. CASE Accepted
  <2>1. failed' \in BOOLEAN
    BY <1>3, ZenonT(60) DEF Accepted
  <2>2. QED
    BY <1>3, <2>1, ZenonT(60) DEF Accepted, ServerTypes
<1>4. QED
  BY <1>1, <1>2, <1>3

LEMMA TypesKeep == ServerTypes /\ [Next]_vars => ServerTypes'
<1> SUFFICES ASSUME ServerTypes, [Next]_vars PROVE ServerTypes'
  OBVIOUS
<1>1. CASE UNCHANGED serverVars
  BY <1>1, ZenonT(60) DEF serverVars, ServerTypes
<1>2. CASE Construct \/ DestroyPool \/ DestroyBegin \/ StopCalled
  <2>1. group' \in {"none", "own", "up", "down"} /\ asked' \in {"no", "early", "yes"}
    BY <1>2 DEF Construct, DestroyPool, DestroyBegin, StopCalled, ServerTypes
  <2>2. QED
    BY <1>2, <2>1, ZenonT(60) DEF Construct, DestroyPool, DestroyBegin, StopCalled, ServerTypes
<1>7. CASE GroupStarts \/ GroupStops \/ SetGroup
  <2>1. group' \in {"none", "own", "up", "down"}
    BY <1>7 DEF GroupStarts, GroupStops, SetGroup
  <2>2. QED
    BY <1>7, <2>1, ZenonT(60) DEF GroupStarts, GroupStops, SetGroup, ServerTypes
<1>3. CASE BindFails \/ \E blocking \in BOOLEAN : Prepare(blocking)
  <2>1. starts' = starts + 1 /\ starts < MaxStarts
    BY <1>3 DEF BindFails, Prepare, MayStart
  <2>2. starts' \in 0..MaxStarts
    BY <2>1, ServerAssumption DEF ServerTypes
  <2>3. QED
    BY <1>3, <2>2, ZenonT(60) DEF BindFails, Prepare, ServerTypes
<1>4. CASE Starting \/ Stopping \/ AcceptorRuns \/ ThreadExit \/ Accepted \/ TimerExpires
  BY <1>4, TypesStarting, TypesAcceptor
<1>5. CASE SessionEnds \/ Return \/ ClearPool
  <2>1. CASE ~UNCHANGED serverVars
    BY <1>5, <2>1, ZenonT(60) DEF SessionEnds, Return, ClearPool, ServerTypes
  <2>2. QED
    BY <1>1, <2>1
<1>6. QED
  BY <1>1, <1>2, <1>3, <1>4, <1>5, <1>7 DEF Next, Calls, Threads, vars

LEMMA ServiceTypesKeep == ServiceTypes /\ [HostNext]_allVars => ServiceTypes'
<1> SUFFICES ASSUME ServiceTypes, [HostNext]_allVars PROVE ServiceTypes'
  OBVIOUS
<1>1. CASE UNCHANGED <<host, serviceVars, toolVars>>
  BY <1>1, ZenonT(60) DEF serviceVars, toolVars, ServiceTypes
<1>2. CASE Tool
  <2>1. UNCHANGED <<host, state, accepts, entry, control, calling>>
    BY <1>2 DEF Tool, serviceVars
  <2>2. /\ task' \in {"none", "install", "remove", "command"}
        /\ handles' \subseteq {"manager", "service"}
        /\ ret' \in {"none", "ok", "error"}
    BY <1>2 DEF Tool, OpenManager, OpenService, Act, ServiceTypes
  <2>3. effect' \in BOOLEAN
    BY <1>2, Zenon DEF Tool, OpenManager, OpenService, Act, ServiceTypes
  <2>4. QED
    BY <2>1, <2>2, <2>3, Zenon DEF ServiceTypes
<1>3. CASE Service /\ ~UNCHANGED serviceVars
  <2>1. UNCHANGED <<task, handles, ret, effect>>
    BY <1>3 DEF Service, toolVars
  <2>2. host' \in {"service", "crashed"}
    BY <1>3 DEF Service, HandlerStops, HandlerStarts
  <2>3. ServiceMain \/ Deliver \/ HandlerReports \/ HandlerStops \/ HandlerStarts
    BY <1>3 DEF Service, DispatcherReturns
  <2>4. /\ state' \in States /\ accepts' \subseteq Controls
        /\ entry' \in {"off", "registered", "initialised", "starting", "done"}
        /\ control' \in Controls \cup {"none"}
    <3>1. CASE ServiceMain
      BY <3>1 DEF ServiceMain, Register, InitFails, InitServer, StartGroup, StartServer, ReportRunning,
                  serviceVars, ServiceTypes, States, Controls
    <3>2. CASE Deliver \/ HandlerReports
      BY <3>2 DEF Deliver, HandlerReports, Pending, Done, ServiceTypes, States, Controls
    <3>3. CASE HandlerStops \/ HandlerStarts
      BY <3>3 DEF HandlerStops, HandlerStarts, ServiceTypes
    <3>4. QED
      BY <2>3, <3>1, <3>2, <3>3
  <2>5. calling' \in BOOLEAN
    BY <2>3, Zenon DEF ServiceMain, Register, InitFails, InitServer, StartGroup, StartServer, ReportRunning,
                       Deliver, HandlerReports, HandlerStops, HandlerStarts, serviceVars, ServiceTypes
  <2>6. QED
    BY <2>1, <2>2, <2>4, <2>5, Zenon DEF ServiceTypes
<1>4. CASE Service /\ UNCHANGED serviceVars
  <2>1. UNCHANGED <<task, handles, ret, effect>>
    BY <1>4 DEF Service, toolVars
  <2>2. host' \in {"program", "service", "tool", "crashed"}
    BY <1>4 DEF Service, HandlerStops, HandlerStarts, ServiceTypes
  <2>3. QED
    BY <1>4, <2>1, <2>2, Zenon DEF serviceVars, ServiceTypes
<1>5. QED
  BY <1>1, <1>2, <1>3, <1>4 DEF HostNext, Program, allVars

THEOREM HostInvariant == HostSpec => []HostInv
<1>1. ServerInv /\ HostInv /\ [HostNext]_allVars => HostInv'
  BY HostStep, TypesKeep, ServiceTypesKeep, ReportsKeep, ToolKeeps DEF HostInv
<1>2. QED
  BY <1>1, HostInitHolds, ServerInvariant, PTL DEF HostSpec

LEMMA HostTyped ==
  ASSUME ServerInv, PoolInv, ServerTypes, ServiceTypes
  PROVE  HostTypeOK
<1>1. q \in Seq(Queueable) /\ pending \in 0..QueueLength
  <2>1. q \in Seq(Queueable) /\ pending \in Nat /\ Count(q, Alive) \in Nat
    BY CountType DEF ServerInv, Control, Typed
  <2>2. QED
    BY <2>1, ServerAssumption DEF ServerInv, Bounds, Going1
<1>2. {block, started, open, work, thread, armed, failed} \subseteq BOOLEAN
  BY Zenon DEF ServerTypes
<1>3. TypeOK
  BY <1>1, <1>2, Zenon DEF TypeOK, ServerInv, Control, Typed, ServerTypes, PoolInv
<1>4. QED
  BY <1>3, Zenon DEF HostTypeOK, ServiceTypes

\* What the service manager is told is true, however its controls meet the threads of
\* the server.
THEOREM ServiceReportsTrue == HostSpec => []ReportedIsTrue
<1>1. ServerInv /\ PoolInv /\ HostInv => ReportedIsTrue
  <2> SUFFICES ASSUME ServerInv, PoolInv, HostInv PROVE ReportedIsTrue
    OBVIOUS
  <2>1. HostTypeOK
    BY HostTyped DEF HostInv
  <2>2. state \in {"STOPPED", "PAUSED"} =>
          main = "off" /\ ~started /\ ~thread /\ Chains = 0 /\ (open => unbound)
    <3> SUFFICES ASSUME state \in {"STOPPED", "PAUSED"}
                 PROVE  main = "off" /\ ~started /\ ~thread /\ Chains = 0 /\ (open => unbound)
      OBVIOUS
    <3>1. main = "off" /\ ~started
      BY DEF HostInv, ServiceInv, Reported
    <3>2. ~thread /\ q = <<>> /\ pending = 0 /\ ~armed /\ (open => unbound)
      BY <3>1, StoppedFacts
    <3>3. Going1 = 0
      BY <3>2, CountEmpty DEF Going1
    <3>4. QED
      BY <3>1, <3>2, <3>3, ChainsCounted
  <2>3. (state = "RUNNING" => started \/ unbound) /\ (host = "crashed" => unbound)
    BY DEF HostInv, ServiceInv, Hosted, Reported
  <2>4. ret # "none" => handles = {} /\ (ret = "ok" => effect)
    BY DEF HostInv, ToolInv
  <2>5. QED
    BY <2>1, <2>2, <2>3, <2>4 DEF ReportedIsTrue
<1>2. QED
  BY <1>1, ServerInvariant, HostInvariant, PTL
=============================================================================
