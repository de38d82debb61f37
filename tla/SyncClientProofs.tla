-------------------------- MODULE SyncClientProofs --------------------------
(***************************************************************************)
(* Proofs about SyncClient and its pool, for any finite number of callers, *)
(* any parameters that the constructor's assertions allow, and any number  *)
(* of starts: the count of handlers is exact, no wake-up is lost but at a  *)
(* deadline, and a client that has stopped keeps no handler.               *)
(***************************************************************************)
EXTENDS SyncClient, FiniteSetTheorems, TLAPS

Holding == {t \in Callers : at[t] = "holding"}

LEMMA CallersFinite ==
  /\ IsFiniteSet(Asleep) /\ IsFiniteSet(Holding) /\ IsFiniteSet(Awake)
  /\ Cardinality(Asleep) \in Nat /\ Cardinality(Holding) \in Nat /\ Cardinality(Awake) \in Nat
<1>1. Asleep \subseteq Callers /\ Holding \subseteq Callers /\ Awake \subseteq Callers
  BY DEF Asleep, Holding, Awake
<1>2. IsFiniteSet(Asleep) /\ IsFiniteSet(Holding) /\ IsFiniteSet(Awake)
  BY <1>1, FS_Subset, SyncHandlerPoolAssumption
<1>3. QED
  BY <1>2, FS_CardinalityType

\* The calls of notify_one wake sleepers, as many as there are calls while one sleeps on.
LEMMA WokenFacts ==
  ASSUME NEW n \in Nat, NEW W \in Woken(Asleep, n)
  PROVE  /\ W \subseteq Asleep /\ IsFiniteSet(W) /\ Cardinality(W) \in Nat
         /\ Asleep \ W # {} => Cardinality(W) = n
<1>1. W \subseteq Asleep /\ Cardinality(W) = (IF n <= Cardinality(Asleep) THEN n ELSE Cardinality(Asleep))
  BY DEF Woken
<1>2. IsFiniteSet(W) /\ (Cardinality(Asleep) = Cardinality(W) => Asleep = W)
  BY <1>1, CallersFinite, FS_Subset
<1>3. QED
  BY <1>1, <1>2, CallersFinite, FS_CardinalityType

-----------------------------------------------------------------------------
(* The invariant *)

ClosedIsEmpty == closed => idle = 0

\* The threads of the client run between start() and stop(), and the pool is closed
\* outside it.
ClientStages ==
  /\ client \in {"closed", "joining", "off", "dead"} => closed
  /\ client \in {"off", "dead"} => live = {}

PoolInv == PoolTypeOK /\ CountExact /\ ClosedIsEmpty /\ NoIdleWhileAsleep
ClientTypes ==
  /\ client \in ClientSteps /\ work \in BOOLEAN /\ live \subseteq Services
  /\ home \in [Callers -> Services]
  /\ doing \in [Callers -> {"nothing", "connect", "connected", "write_read"}]
  /\ starts \in 0..MaxStarts
SyncInv == PoolInv /\ ClientTypes /\ ClientStages

LEMMA GrownFacts ==
  ASSUME NEW s \in Nat, NEW n \in Nat, s <= High
  PROVE  /\ Grown(s, n) \in Nat /\ s <= Grown(s, n)
         /\ Grown(s, n) <= High /\ Grown(s, n) <= s + n
  BY SyncHandlerPoolAssumption DEF Grown

LEMMA SyncInitHolds == Init => SyncInv
<1> SUFFICES ASSUME Init PROVE SyncInv
  OBVIOUS
<1>1. PoolTypeOK
  BY SyncHandlerPoolAssumption DEF Init, PoolEmpty, PoolTypeOK
<1>2. CountExact /\ ClosedIsEmpty /\ NoIdleWhileAsleep
  <2>1. {t \in Callers : at[t] = "holding"} = {} /\ Asleep = {}
    BY DEF Init, PoolEmpty, Asleep
  <2>2. QED
    BY <2>1, FS_EmptySet DEF Init, PoolEmpty, CountExact, ClosedIsEmpty, NoIdleWhileAsleep
<1>3. ClientTypes
  <2>1. (CHOOSE s \in Services : TRUE) \in Services
    BY SyncClientAssumption
  <2>2. work \in BOOLEAN
    BY DEF Init
  <2>3. QED
    BY <2>1, <2>2, SyncClientAssumption DEF Init, ClientTypes, ClientSteps
<1>4. ClientStages
  BY DEF Init, PoolEmpty, ClientStages
<1>5. QED
  BY <1>1, <1>2, <1>3, <1>4 DEF SyncInv, PoolInv
-----------------------------------------------------------------------------
(* The steps of the pool *)

\* Nobody comes to hold a handler, or lets one go, and the woken ones are woken.
LEMMA WakeKeeps ==
  ASSUME PoolTypeOK, NEW n \in Nat, NEW W \in Woken(Asleep, n),
         at' = [u \in Callers |-> IF u \in W THEN "woken" ELSE at[u]]
  PROVE  /\ at' \in [Callers -> {"out", "asleep", "woken", "holding"}]
         /\ Holding' = Holding /\ Asleep' = Asleep \ W /\ Awake' = Awake \cup W
         /\ Asleep' # {} => Cardinality(Awake') = Cardinality(Awake) + n
<1>1. W \subseteq Asleep /\ IsFiniteSet(W) /\ (Asleep \ W # {} => Cardinality(W) = n)
  BY WokenFacts
<1>2. at' \in [Callers -> {"out", "asleep", "woken", "holding"}]
  BY <1>1 DEF PoolTypeOK
<1>3. Holding' = Holding /\ Asleep' = Asleep \ W /\ Awake' = Awake \cup W
  BY <1>1 DEF Holding, Asleep, Awake
<1>4. Awake \cap W = {}
  BY <1>1 DEF Awake, Asleep
<1>5. Cardinality(Awake \cup W) = Cardinality(Awake) + Cardinality(W) - Cardinality(Awake \cap W)
  BY <1>1, CallersFinite, FS_Union
<1>6. Cardinality(Awake') = Cardinality(Awake) + Cardinality(W)
  <2>1. Cardinality(Awake \cap W) = 0
    BY <1>4, FS_EmptySet
  <2>2. Cardinality(Awake') = Cardinality(Awake \cup W)
    BY <1>3
  <2>3. Cardinality(Awake) \in Nat /\ Cardinality(W) \in Nat
    BY CallersFinite, WokenFacts
  <2>4. QED
    BY <1>5, <2>1, <2>2, <2>3
<1>7. QED
  BY <1>1, <1>2, <1>3, <1>6

LEMMA InitPoolKeeps ==
  ASSUME PoolInv, InitPool
  PROVE  PoolInv'
<1>1. /\ PoolTypeOK /\ idle \in Nat /\ idle <= High /\ count \in Nat /\ dropped \in Nat
      /\ CountExact /\ NoIdleWhileAsleep
  BY SyncHandlerPoolAssumption DEF PoolInv, PoolTypeOK
<1> DEFINE g == Grown(idle, PoolInit)
           n == g - idle
<1>2. g \in Nat /\ g <= High /\ n \in Nat
  BY <1>1, GrownFacts, SyncHandlerPoolAssumption
<1>3. /\ closed' = FALSE /\ idle' = g /\ count' = count + n
      /\ UNCHANGED <<dropped, gets, missed>>
  BY DEF InitPool
<1>4. PICK W \in Woken(Asleep, n) : at' = [u \in Callers |-> IF u \in W THEN "woken" ELSE at[u]]
  BY DEF InitPool
<1> HIDE DEF g, n
<1>5. /\ at' \in [Callers -> {"out", "asleep", "woken", "holding"}]
      /\ Holding' = Holding /\ Asleep' = Asleep \ W
      /\ Asleep' # {} => Cardinality(Awake') = Cardinality(Awake) + n
  BY <1>1, <1>2, <1>4, WakeKeeps
<1>6. idle' = idle + n
  BY <1>1, <1>2, <1>3 DEF n
<1>7. PoolTypeOK'
  <2>1. closed' \in BOOLEAN
    BY <1>3
  <2>2. QED
    BY <1>1, <1>2, <1>3, <1>5, <2>1 DEF PoolTypeOK
<1>8. CountExact'
  <2>1. Cardinality(Holding') = Cardinality(Holding) /\ Cardinality(Holding) \in Nat
    BY <1>5, CallersFinite
  <2>2. count = idle + dropped + Cardinality(Holding)
    BY <1>1 DEF CountExact, Holding
  <2>3. count' = idle' + dropped' + Cardinality(Holding')
    BY <1>1, <1>2, <1>3, <1>6, <2>1, <2>2
  <2>4. QED
    BY <2>3 DEF CountExact, Holding
<1>9. NoIdleWhileAsleep'
  <2> SUFFICES ASSUME Asleep' # {} PROVE idle' <= Cardinality(Awake') + missed'
    BY DEF NoIdleWhileAsleep
  <2>1. idle <= Cardinality(Awake) + missed /\ missed \in Nat /\ missed' = missed
    BY <1>1, <1>3, <1>5 DEF NoIdleWhileAsleep, PoolTypeOK
  <2>2. QED
    BY <1>1, <1>2, <1>5, <1>6, <2>1, CallersFinite
<1>10. QED
  BY <1>3, <1>7, <1>8, <1>9 DEF PoolInv, ClosedIsEmpty

\* A round of get_sync_handler: what it creates wakes others, and what it takes it
\* has been woken for, or has not slept for.
LEMMA TryKeeps ==
  ASSUME PoolInv, NEW t \in Callers, at[t] \in {"out", "woken"}, Try(t), UNCHANGED <<dropped, closed>>,
         gets' \in 0..MaxGets
  PROVE  PoolInv'
<1>1. /\ PoolTypeOK /\ idle \in Nat /\ idle <= High /\ count \in Nat /\ dropped \in Nat
      /\ CountExact /\ ClosedIsEmpty /\ NoIdleWhileAsleep
      /\ at \in [Callers -> {"out", "asleep", "woken", "holding"}]
  BY SyncHandlerPoolAssumption DEF PoolInv, PoolTypeOK
<1>2. closed' \in BOOLEAN
  BY DEF PoolInv, PoolTypeOK
<1>3. count = idle + dropped + Cardinality(Holding)
  BY <1>1 DEF CountExact, Holding
<1>4. CASE closed
  <2>1. at' = [at EXCEPT ![t] = "out"] /\ UNCHANGED <<idle, count, missed>>
    BY <1>4 DEF Try
  <2>2. Holding' = Holding /\ idle' = 0
    BY <1>1, <1>4, <2>1 DEF Holding, ClosedIsEmpty
  <2>3. Cardinality(Holding') = Cardinality(Holding)
    BY <2>2
  <2>4. CountExact'
    BY <1>3, <2>1, <2>3 DEF CountExact, Holding
  <2>5. PoolTypeOK'
    BY <1>1, <1>2, <2>1 DEF PoolTypeOK
  <2>6. Cardinality(Awake') \in Nat
    <3>1. Awake' \subseteq Callers
      BY DEF Awake
    <3>2. QED
      BY <3>1, FS_Subset, FS_CardinalityType, SyncHandlerPoolAssumption
  <2>7. NoIdleWhileAsleep'
    <3>1. missed' \in Nat
      BY <2>5 DEF PoolTypeOK
    <3>2. QED
      BY <2>2, <2>6, <3>1 DEF NoIdleWhileAsleep
  <2>8. QED
    BY <2>2, <2>4, <2>5, <2>7 DEF PoolInv, ClosedIsEmpty
<1>5. CASE ~closed
  <2> DEFINE create == idle <= Low /\ count < Maximum
             size == IF create THEN Grown(idle, Increment) ELSE idle
             n == size - idle
  <2>1. size \in Nat /\ size <= High /\ n \in Nat /\ size = idle + n
    <3>1. /\ Grown(idle, Increment) \in Nat /\ idle <= Grown(idle, Increment)
          /\ Grown(idle, Increment) <= High
      BY <1>1, GrownFacts, SyncHandlerPoolAssumption
    <3>2. size \in Nat /\ size <= High /\ idle <= size
      BY <1>1, <3>1
    <3> HIDE DEF size
    <3>3. QED
      BY <1>1, <3>2
  <2>2. count' = count + n /\ idle' = (IF size # 0 THEN size - 1 ELSE size) /\ missed' = MissedAfter(t)
    BY <1>5 DEF Try
  <2>3. PICK W \in Woken(Asleep, n) :
          at' = [u \in Callers |-> IF u = t THEN IF size # 0 THEN "holding" ELSE "asleep"
                                   ELSE IF u \in W THEN "woken" ELSE at[u]]
    BY <1>5 DEF Try
  <2> HIDE DEF create, size, n
  <2>4. /\ W \subseteq Asleep /\ IsFiniteSet(W) /\ Cardinality(W) \in Nat
        /\ Asleep \ W # {} => Cardinality(W) = n
    BY <2>1, WokenFacts
  <2>5. t \notin W /\ t \notin Holding /\ t \notin Asleep
    BY <2>4 DEF Asleep, Holding
  <2>6. at' \in [Callers -> {"out", "asleep", "woken", "holding"}]
    BY <1>1, <2>3
  <2>7. PoolTypeOK'
    <3>1. idle' \in 0..High /\ count' \in Nat /\ dropped' \in Nat
      BY <1>1, <2>1, <2>2, SyncHandlerPoolAssumption
    <3>2. missed' \in Nat
      BY <1>1, <2>2 DEF MissedAfter, PoolTypeOK
    <3>3. QED
      BY <1>2, <2>6, <3>1, <3>2 DEF PoolTypeOK
  <2>8. CountExact'
    <3>1. CASE size # 0
      <4>1. Holding' = Holding \cup {t}
        BY <2>3, <2>4, <3>1 DEF Holding, Asleep
      <4>2. Cardinality(Holding') = Cardinality(Holding) + 1
        BY <2>5, <4>1, CallersFinite, FS_AddElement
      <4>3. count' = idle' + dropped' + Cardinality(Holding')
        BY <1>1, <1>3, <2>1, <2>2, <3>1, <4>2, CallersFinite
      <4>4. QED
        BY <4>3 DEF CountExact, Holding
    <3>2. CASE size = 0
      <4>1. Holding' = Holding
        BY <2>3, <2>4, <2>5, <3>2 DEF Holding, Asleep
      <4>2. Cardinality(Holding') = Cardinality(Holding)
        BY <4>1
      <4>3. count' = idle' + dropped' + Cardinality(Holding')
        BY <1>1, <1>3, <2>1, <2>2, <3>2, <4>2, CallersFinite
      <4>4. QED
        BY <4>3 DEF CountExact, Holding
    <3>3. QED
      BY <3>1, <3>2
  <2>9. NoIdleWhileAsleep'
    <3>0. Cardinality(Awake') \in Nat
      <4>1. Awake' \subseteq Callers
        BY DEF Awake
      <4>2. QED
        BY <4>1, FS_Subset, FS_CardinalityType, SyncHandlerPoolAssumption
    <3>4. missed \in Nat /\ missed' \in Nat /\ idle' \in Nat
      BY <1>1, <2>7, SyncHandlerPoolAssumption DEF PoolTypeOK
    <3>1. CASE size = 0 \/ idle' = 0
      BY <2>2, <3>0, <3>1, <3>4 DEF NoIdleWhileAsleep
    <3>2. CASE size # 0 /\ idle' # 0
      <4> SUFFICES ASSUME Asleep' # {} PROVE idle' <= Cardinality(Awake') + missed'
        BY DEF NoIdleWhileAsleep
      <4>1. Asleep' = Asleep \ W /\ Awake' = (Awake \ {t}) \cup W
        BY <2>3, <2>4, <2>5, <3>2 DEF Asleep, Awake
      <4>2. Cardinality(W) = n /\ idle <= Cardinality(Awake) + missed
        BY <1>1, <2>4, <4>1 DEF NoIdleWhileAsleep
      <4>3. IsFiniteSet(Awake \ {t}) /\ Cardinality(Awake \ {t}) \in Nat
            /\ Cardinality(Awake \ {t}) + missed' >= Cardinality(Awake) + missed - 1
        <5>1. /\ IsFiniteSet(Awake \ {t})
              /\ Cardinality(Awake \ {t}) =
                   IF t \in Awake THEN Cardinality(Awake) - 1 ELSE Cardinality(Awake)
          BY CallersFinite, FS_RemoveElement
        <5>2. Cardinality(Awake \ {t}) \in Nat /\ Cardinality(Awake) \in Nat
          BY <5>1, CallersFinite, FS_CardinalityType
        <5>3. CASE at[t] = "woken"
          <6>1. missed' = missed /\ Cardinality(Awake \ {t}) >= Cardinality(Awake) - 1
            BY <2>2, <3>2, <5>1, <5>2, <5>3 DEF MissedAfter
          <6>2. QED
            BY <3>4, <5>1, <5>2, <6>1
        <5>4. CASE at[t] = "out"
          <6>1. missed' >= missed - 1
            BY <2>2, <3>2, <3>4, <5>4 DEF MissedAfter
          <6>2. t \notin Awake
            BY <5>4 DEF Awake
          <6>3. QED
            BY <3>4, <5>1, <5>2, <6>1, <6>2
        <5>5. QED
          BY <5>3, <5>4
      <4>4. (Awake \ {t}) \cap W = {}
        BY <2>4 DEF Awake, Asleep
      <4>5. Cardinality((Awake \ {t}) \cup W) =
              Cardinality(Awake \ {t}) + Cardinality(W) - Cardinality((Awake \ {t}) \cap W)
        BY <2>4, <4>3, FS_Union
      <4>6. Cardinality((Awake \ {t}) \cap W) = 0
        BY <4>4, FS_EmptySet
      <4>7. Cardinality(Awake') = Cardinality((Awake \ {t}) \cup W)
        BY <4>1
      <4>8. Cardinality(Awake') = Cardinality(Awake \ {t}) + n
        BY <2>1, <4>2, <4>3, <4>5, <4>6, <4>7
      <4>9. Cardinality(Awake) \in Nat
        BY CallersFinite
      <4>10. QED
        BY <1>1, <2>1, <2>2, <3>2, <3>4, <4>2, <4>3, <4>8, <4>9
    <3>3. QED
      BY <3>1, <3>2
  <2>10. QED
    BY <1>5, <2>7, <2>8, <2>9 DEF PoolInv, ClosedIsEmpty
<1>6. QED
  BY <1>4, <1>5

LEMMA GiveUpKeeps ==
  ASSUME PoolInv, NEW t \in Callers, GiveUp(t)
  PROVE  PoolInv'
<1>1. /\ PoolTypeOK /\ CountExact /\ ClosedIsEmpty /\ NoIdleWhileAsleep
      /\ at \in [Callers -> {"out", "asleep", "woken", "holding"}]
      /\ missed \in Nat /\ idle \in Nat
  BY SyncHandlerPoolAssumption DEF PoolInv, PoolTypeOK
<1>2. /\ at' = [at EXCEPT ![t] = "out"] /\ UNCHANGED <<dropped, idle, count, closed, gets>>
      /\ at[t] \in {"asleep", "woken"}
      /\ missed' = (IF at[t] = "asleep" THEN missed ELSE IF idle = 0 THEN 0 ELSE missed + 1)
  BY DEF GiveUp
<1>3. Holding' = Holding /\ Asleep' \subseteq Asleep /\ Awake' = Awake \ {t}
  BY <1>1, <1>2 DEF Holding, Asleep, Awake
<1>4. PoolTypeOK'
  BY <1>1, <1>2 DEF PoolTypeOK
<1>5. CountExact'
  <2>1. Cardinality(Holding') = Cardinality(Holding)
    BY <1>3
  <2>2. QED
    BY <1>1, <1>2, <2>1 DEF CountExact, Holding
<1>6. NoIdleWhileAsleep'
  <2> SUFFICES ASSUME Asleep' # {} PROVE idle <= Cardinality(Awake') + missed'
    BY <1>2 DEF NoIdleWhileAsleep
  <2>1. idle <= Cardinality(Awake) + missed
    BY <1>1, <1>3 DEF NoIdleWhileAsleep
  <2>2. /\ Cardinality(Awake') = (IF t \in Awake THEN Cardinality(Awake) - 1 ELSE Cardinality(Awake))
        /\ Cardinality(Awake') \in Nat /\ Cardinality(Awake) \in Nat
    <3>1. Cardinality(Awake \ {t}) =
            (IF t \in Awake THEN Cardinality(Awake) - 1 ELSE Cardinality(Awake))
      BY CallersFinite, FS_RemoveElement
    <3>2. Cardinality(Awake \ {t}) \in Nat
      <4>1. IsFiniteSet(Awake \ {t})
        BY CallersFinite, FS_RemoveElement
      <4>2. QED
        BY <4>1, FS_CardinalityType
    <3>3. QED
      BY <1>3, <3>1, <3>2, CallersFinite
  <2>3. CASE at[t] = "asleep"
    <3>1. t \notin Awake
      BY <2>3 DEF Awake
    <3>2. QED
      BY <1>1, <1>2, <2>1, <2>2, <2>3, <3>1
  <2>4. CASE at[t] = "woken"
    BY <1>1, <1>2, <2>1, <2>2, <2>4
  <2>5. QED
    BY <1>2, <2>3, <2>4
<1>7. QED
  BY <1>1, <1>2, <1>4, <1>5, <1>6 DEF PoolInv, ClosedIsEmpty

LEMMA DropKeeps ==
  ASSUME PoolInv, NEW t \in Callers, Drop(t)
  PROVE  PoolInv'
<1>1. /\ PoolTypeOK /\ CountExact /\ ClosedIsEmpty /\ NoIdleWhileAsleep
      /\ at \in [Callers -> {"out", "asleep", "woken", "holding"}]
      /\ idle \in Nat /\ dropped \in Nat
  BY SyncHandlerPoolAssumption DEF PoolInv, PoolTypeOK
<1>2. /\ at[t] = "holding" /\ at' = [at EXCEPT ![t] = "out"] /\ dropped' = dropped + 1
      /\ UNCHANGED <<idle, count, closed, gets, missed>>
  BY DEF Drop
<1>3. Holding' = Holding \ {t} /\ t \in Holding /\ Asleep' = Asleep /\ Awake' = Awake
  BY <1>1, <1>2 DEF Holding, Asleep, Awake
<1>4. PoolTypeOK'
  BY <1>1, <1>2 DEF PoolTypeOK
<1>5. CountExact'
  <2>1. Cardinality(Holding \ {t}) = Cardinality(Holding) - 1
    BY <1>3, CallersFinite, FS_RemoveElement
  <2>2. Cardinality(Holding') = Cardinality(Holding) - 1 /\ Cardinality(Holding) \in Nat
    BY <1>3, <2>1, CallersFinite
  <2>3. count = idle + dropped + Cardinality(Holding)
    BY <1>1 DEF CountExact, Holding
  <2>4. count' = idle' + dropped' + Cardinality(Holding')
    BY <1>1, <1>2, <2>2, <2>3
  <2>5. QED
    BY <2>4 DEF CountExact, Holding
<1>6. NoIdleWhileAsleep'
  BY <1>1, <1>2, <1>3 DEF NoIdleWhileAsleep
<1>7. QED
  BY <1>1, <1>2, <1>4, <1>5, <1>6 DEF PoolInv, ClosedIsEmpty

LEMMA PutKeeps ==
  ASSUME PoolInv, Put
  PROVE  PoolInv'
<1>1. /\ PoolTypeOK /\ CountExact /\ ClosedIsEmpty /\ NoIdleWhileAsleep
      /\ at \in [Callers -> {"out", "asleep", "woken", "holding"}]
      /\ idle \in 0..High /\ idle \in Nat /\ dropped \in Nat /\ count \in Nat /\ High \in Nat
  BY SyncHandlerPoolAssumption DEF PoolInv, PoolTypeOK
<1>2. dropped > 0 /\ dropped' = dropped - 1 /\ UNCHANGED <<closed, gets, missed>>
  BY DEF Put
<1>3. count = idle + dropped + Cardinality(Holding) /\ Cardinality(Holding) \in Nat
  BY <1>1, CallersFinite DEF CountExact, Holding
<1>4. CASE count' = count - 1 /\ UNCHANGED <<at, idle>>
  <2>1. Holding' = Holding /\ Asleep' = Asleep /\ Awake' = Awake
    BY <1>4 DEF Holding, Asleep, Awake
  <2>2. count' = idle' + dropped' + Cardinality(Holding') /\ count' \in Nat
    BY <1>1, <1>2, <1>3, <1>4, <2>1
  <2>3. PoolTypeOK'
    BY <1>1, <1>2, <1>4, <2>2 DEF PoolTypeOK
  <2>4. QED
    BY <1>1, <1>2, <1>4, <2>1, <2>2, <2>3
    DEF PoolInv, ClosedIsEmpty, CountExact, Holding, NoIdleWhileAsleep
<1>5. CASE ~closed /\ idle < High /\ idle' = idle + 1 /\ UNCHANGED count
           /\ \E W \in Woken(Asleep, 1) : at' = [u \in Callers |-> IF u \in W THEN "woken" ELSE at[u]]
  <2>1. PICK W \in Woken(Asleep, 1) : at' = [u \in Callers |-> IF u \in W THEN "woken" ELSE at[u]]
    BY <1>5
  <2>2. /\ at' \in [Callers -> {"out", "asleep", "woken", "holding"}]
        /\ Holding' = Holding /\ Asleep' = Asleep \ W
        /\ Asleep' # {} => Cardinality(Awake') = Cardinality(Awake) + 1
    BY <1>1, <2>1, WakeKeeps
  <2>3. Cardinality(Holding') = Cardinality(Holding)
    BY <2>2
  <2>4. count' = idle' + dropped' + Cardinality(Holding')
    BY <1>1, <1>2, <1>3, <1>5, <2>3
  <2>5. PoolTypeOK'
    BY <1>1, <1>2, <1>5, <2>2 DEF PoolTypeOK
  <2>6. NoIdleWhileAsleep'
    <3>1. missed \in Nat /\ missed' = missed
      BY <1>1, <1>2 DEF PoolTypeOK
    <3>2. QED
      BY <1>1, <1>5, <2>2, <3>1, CallersFinite DEF NoIdleWhileAsleep
  <2>7. QED
    BY <1>2, <1>5, <2>4, <2>5, <2>6 DEF PoolInv, ClosedIsEmpty, CountExact, Holding
<1>6. QED
  BY <1>1, <1>4, <1>5 DEF Put

LEMMA CloseKeeps ==
  ASSUME PoolInv, Close
  PROVE  PoolInv' /\ closed'
<1>1. /\ PoolTypeOK /\ CountExact /\ ClosedIsEmpty /\ NoIdleWhileAsleep
      /\ idle \in Nat /\ dropped \in Nat /\ count \in Nat /\ High \in Nat
  BY SyncHandlerPoolAssumption DEF PoolInv, PoolTypeOK
<1>2. /\ closed' = TRUE /\ UNCHANGED <<at, dropped, gets>>
      /\ idle' = 0 /\ count' = count - idle /\ missed' \in Nat
  BY <1>1 DEF Close, ClosedIsEmpty, PoolTypeOK
<1>3. Holding' = Holding /\ Asleep' = Asleep /\ Awake' = Awake
  BY <1>2 DEF Holding, Asleep, Awake
<1>4. count = idle + dropped + Cardinality(Holding) /\ Cardinality(Holding) \in Nat
  BY <1>1, CallersFinite DEF CountExact, Holding
<1>5. count' = idle' + dropped' + Cardinality(Holding') /\ count' \in Nat
  BY <1>1, <1>2, <1>3, <1>4
<1>6. PoolTypeOK'
  <2>1. closed' \in BOOLEAN
    BY <1>2
  <2>2. QED
    BY <1>1, <1>2, <1>5, <2>1 DEF PoolTypeOK
<1>7. NoIdleWhileAsleep'
  BY <1>2, <1>3, CallersFinite DEF NoIdleWhileAsleep
<1>8. QED
  BY <1>2, <1>5, <1>6, <1>7 DEF PoolInv, ClosedIsEmpty, CountExact, Holding

LEMMA PoolQuiet ==
  ASSUME PoolInv, UNCHANGED poolVars
  PROVE  PoolInv'
  BY DEF PoolInv, poolVars, PoolTypeOK, CountExact, ClosedIsEmpty, NoIdleWhileAsleep, Asleep, Awake
-----------------------------------------------------------------------------
(* The steps of the client and its callers *)

\* Only the step of start() that initialises the pool opens it.
LEMMA NextKeepsPool == SyncInv /\ [Next]_vars => PoolInv' /\ (closed' \/ client' \notin {"closed", "joining", "off", "dead"})
<1> SUFFICES ASSUME SyncInv, [Next]_vars
             PROVE  PoolInv' /\ (closed' \/ client' \notin {"closed", "joining", "off", "dead"})
  OBVIOUS
<1>1. PoolInv /\ (client \in {"closed", "joining", "off", "dead"} => closed)
  BY DEF SyncInv, ClientStages
<1>2. PoolTypeOK
  BY <1>1 DEF PoolInv
<1>3. CASE UNCHANGED vars \/ StartThreads \/ Stopping \/ Destroy \/ \E s \in Services : ThreadExit(s)
  <2>1. UNCHANGED poolVars
    BY <1>3 DEF vars, StartThreads, Stopping, StopThreads, StopReturns, Destroy, ThreadExit
  <2>2. closed' = closed
    BY <2>1 DEF poolVars
  <2>3. closed' \/ client' \notin {"closed", "joining", "off", "dead"}
    BY <1>1, <1>3, <2>2
    DEF vars, clientVars, StartThreads, Stopping, StopThreads, StopReturns, Destroy, ThreadExit
  <2>4. QED
    BY <1>1, <2>1, <2>3, PoolQuiet
<1>4. CASE StartPool
  BY <1>1, <1>4, InitPoolKeeps DEF StartPool
<1>5. CASE StopPool
  BY <1>1, <1>5, CloseKeeps DEF StopPool
<1>6. CASE PutBack
  BY <1>1, <1>6, PutKeeps DEF PutBack, Put, clientVars
<1>7. CASE \E t \in Callers : Caller(t) \/ CallReturns(t)
  <2>1. PICK t \in Callers : Caller(t) \/ CallReturns(t)
    BY <1>7
  <2>2. CASE GetHandler(t)
    <3>1. Get(t) /\ UNCHANGED client
      BY <2>2 DEF GetHandler
    <3>2. gets' \in 0..MaxGets
      BY <1>2, <3>1, SyncHandlerPoolAssumption DEF Get, PoolTypeOK
    <3>3. QED
      BY <1>1, <3>1, <3>2, TryKeeps DEF Get
  <2>3. CASE KeepTrying(t)
    <3>1. gets \in 0..MaxGets /\ UNCHANGED client
      BY <1>2, <2>3 DEF PoolTypeOK, KeepTrying, clientVars
    <3>2. CASE Retry(t)
      BY <1>1, <3>1, <3>2, TryKeeps DEF Retry
    <3>3. CASE GiveUp(t)
      BY <1>1, <3>1, <3>3, GiveUpKeeps DEF GiveUp
    <3>4. QED
      BY <2>3, <3>2, <3>3 DEF KeepTrying
  <2>4. CASE CallHandler(t) \/ StillOpen(t)
    <3>1. UNCHANGED <<client, poolVars>>
      BY <2>4 DEF CallHandler, StillOpen
    <3>2. QED
      BY <1>1, <3>1, PoolQuiet DEF poolVars
  <2>5. CASE CallReturns(t)
    <3>1. UNCHANGED client /\ UNCHANGED closed /\ (UNCHANGED poolVars \/ Drop(t))
      BY <2>5 DEF CallReturns, Drop, poolVars
    <3>2. QED
      BY <1>1, <3>1, PoolQuiet, DropKeeps
  <2>6. QED
    BY <2>1, <2>2, <2>3, <2>4, <2>5 DEF Caller
<1>8. QED
  BY <1>3, <1>4, <1>5, <1>6, <1>7 DEF Next

LEMMA ClientTypesKeep == SyncInv /\ [Next]_vars => ClientTypes'
<1> SUFFICES ASSUME SyncInv, [Next]_vars PROVE ClientTypes'
  OBVIOUS
<1>1. ClientTypes
  BY DEF SyncInv
<1>2. /\ client' \in ClientSteps /\ live' \subseteq Services
      /\ home' \in [Callers -> Services]
      /\ doing' \in [Callers -> {"nothing", "connect", "connected", "write_read"}]
  <2>1. CASE UNCHANGED vars \/ StartThreads \/ StartPool \/ StopPool \/ Stopping \/ Destroy \/ PutBack
    BY <1>1, <2>1 DEF vars, clientVars, StartThreads, StartPool, StopPool, Stopping, StopThreads, StopReturns,
                      Destroy, PutBack, ClientTypes, ClientSteps
  <2>2. CASE \E t \in Callers : Caller(t) \/ CallReturns(t)
    BY <1>1, <2>2 DEF Caller, GetHandler, KeepTrying, CallHandler, StillOpen, CallReturns, clientVars,
                      ClientTypes
  <2>3. CASE \E s \in Services : ThreadExit(s)
    BY <1>1, <2>3 DEF ThreadExit, ClientTypes
  <2>4. QED
    BY <2>1, <2>2, <2>3 DEF Next
<1>3. starts' \in 0..MaxStarts
  BY <1>1, SyncClientAssumption
  DEF Next, vars, clientVars, StartThreads, StartPool, StopPool, Stopping, StopThreads, StopReturns,
      Destroy, PutBack, Caller, GetHandler, KeepTrying, CallHandler, StillOpen, CallReturns, ThreadExit,
      ClientTypes
<1>4. work' \in BOOLEAN
  <2>1. UNCHANGED work \/ work' = TRUE \/ work' = FALSE
    BY DEF Next, vars, clientVars, StartThreads, StartPool, StopPool, Stopping, StopThreads, StopReturns,
           Destroy, PutBack, Caller, GetHandler, KeepTrying, CallHandler, StillOpen, CallReturns, ThreadExit
  <2>2. QED
    BY <1>1, <2>1, Zenon DEF ClientTypes
<1>5. QED
  BY <1>2, <1>3, <1>4 DEF ClientTypes

\* The threads of the client have ended when stop() returns, and none starts before
\* the next start().
LEMMA LiveOnlyStarted == SyncInv /\ [Next]_vars => (client' \in {"off", "dead"} => live' = {})
<1> SUFFICES ASSUME SyncInv, [Next]_vars, client' \in {"off", "dead"} PROVE live' = {}
  OBVIOUS
<1>1. client \in {"off", "dead"} => live = {}
  BY DEF SyncInv, ClientStages
<1>2. CASE UNCHANGED vars \/ StartThreads \/ StartPool \/ StopPool \/ Stopping \/ Destroy \/ PutBack
  BY <1>1, <1>2 DEF vars, clientVars, StartThreads, StartPool, StopPool, Stopping, StopThreads, StopReturns,
                    Destroy, PutBack
<1>3. CASE \E t \in Callers : Caller(t) \/ CallReturns(t)
  BY <1>1, <1>3 DEF Caller, GetHandler, KeepTrying, CallHandler, StillOpen, CallReturns, clientVars
<1>4. CASE \E s \in Services : ThreadExit(s)
  BY <1>1, <1>4 DEF ThreadExit
<1>5. QED
  BY <1>2, <1>3, <1>4 DEF Next

THEOREM SyncInvariant == Spec => []SyncInv
<1>1. SyncInv /\ [Next]_vars => SyncInv'
  <2> SUFFICES ASSUME SyncInv, [Next]_vars PROVE SyncInv'
    OBVIOUS
  <2>1. PoolInv' /\ ClientTypes'
    BY NextKeepsPool, ClientTypesKeep
  <2>2. ClientStages'
    BY NextKeepsPool, LiveOnlyStarted DEF ClientStages
  <2>3. QED
    BY <2>1, <2>2 DEF SyncInv
<1>2. QED
  BY <1>1, SyncInitHolds, PTL DEF Spec

\* handler_count_ is exact over every start and stop, whatever handlers come back
\* broken or late.
THEOREM SyncCountExact == Spec => []CountExact
<1>1. SyncInv => CountExact
  BY DEF SyncInv, PoolInv
<1>2. QED
  BY <1>1, SyncInvariant, PTL

\* While a caller sleeps, every idle handler has a woken caller still to come for it, or
\* one whose deadline took its wake-up: no other wake-up is ever lost.
THEOREM SyncNoIdleWhileAsleep == Spec => []NoIdleWhileAsleep
<1>1. SyncInv => NoIdleWhileAsleep
  BY DEF SyncInv, PoolInv
<1>2. QED
  BY <1>1, SyncInvariant, PTL

\* A client that has stopped has no idle handler and no thread, counts only handlers
\* that callers hold or have just let go, and never gets one before the next start().
THEOREM SyncStoppedIsEmpty == Spec => []StoppedIsEmpty
<1>1. SyncInv => StoppedIsEmpty
  <2> SUFFICES ASSUME SyncInv PROVE StoppedIsEmpty
    OBVIOUS
  <2>1. TypeOK
    BY Zenon DEF SyncInv, PoolInv, ClientTypes, TypeOK
  <2>2. client \in {"off", "dead"} =>
          /\ closed /\ idle = 0 /\ live = {}
          /\ count = dropped + Cardinality({t \in Callers : at[t] = "holding"})
    <3> SUFFICES ASSUME client \in {"off", "dead"}
                 PROVE  /\ closed /\ idle = 0 /\ live = {}
                        /\ count = dropped + Cardinality(Holding)
      BY DEF Holding
    <3>1. closed /\ idle = 0 /\ live = {}
      BY DEF SyncInv, PoolInv, ClientStages, ClosedIsEmpty
    <3>2. dropped \in Nat /\ count = idle + dropped + Cardinality(Holding)
      BY DEF SyncInv, PoolInv, PoolTypeOK, CountExact, Holding
    <3>3. QED
      BY <3>1, <3>2, CallersFinite
  <2>3. QED
    BY <2>1, <2>2 DEF StoppedIsEmpty
<1>2. QED
  BY <1>1, SyncInvariant, PTL
=============================================================================
