------------------------------ MODULE HashMap ------------------------------
(***************************************************************************)
(* bastool/hash_map.hpp: buckets of entries, and fewer or more mutexes     *)
(* than buckets, of which a bucket's is the one at its number modulo       *)
(* theirs.  A thread takes it, shared for find and exclusive otherwise,    *)
(* and works on the bucket as long as it was when it was taken; reset and  *)
(* clean do so bucket by bucket.  The constructor's sizes are part of the  *)
(* model; the destructor, which no thread may survive, is not.             *)
(***************************************************************************)
EXTENDS Integers, Sequences, FiniteSets

CONSTANTS
  Threads, Keys, Values, NoValue,
  HashValue,   \* calculate_hash_value of each key
  NumElements, \* num_elements given to the constructor
  NumLocks     \* num_mutexs given to the constructor

ASSUME HashMapAssumption ==
  /\ Keys # {} /\ IsFiniteSet(Keys) /\ HashValue \in [Keys -> Nat]
  /\ Values # {} /\ NoValue \notin Values
  /\ NumElements \in Nat /\ NumLocks \in Nat

VARIABLES
  buckets,  \* buckets_, numbered from 0
  holders,  \* of each mutex, the threads that hold it
  calls     \* of each thread, where it is in which operation

vars == <<buckets, holders, calls>>

Sizes == <<3, 13, 23, 53, 97, 193, 389, 769, 1543, 3079, 6151, 12289, 24593, 49157, 98317,
           196613, 393241, 786433, 1572869, 3145739, 6291469, 12582917, 25165843>>

\* The first size that is enough, or the last one.
HashSize(n) ==
  LET enough == {i \in DOMAIN Sizes : n <= Sizes[i]} IN
  IF enough = {} THEN Sizes[Len(Sizes)]
  ELSE Sizes[CHOOSE i \in enough : \A j \in enough : i <= j]

NumBuckets == HashSize(NumElements)
NumMutexes == HashSize(NumLocks)
Seat(k) == HashValue[k] % NumBuckets

Keyed == {"find", "insert", "update", "insert_update", "erase"}
Sweeping == {"reset", "clean"}
Entry == [key : Keys, value : Values]
Idle == [at |-> "idle"]

\* Of an operation without a key, or without a value.
AnyKey == CHOOSE k \in Keys : TRUE
AnyValue == CHOOSE v \in Values : TRUE

TypeOK ==
  /\ DOMAIN buckets = 0..(NumBuckets - 1)
  /\ \A b \in DOMAIN buckets :
       /\ \A i \in DOMAIN buckets[b] :
            buckets[b][i] \in Entry /\ Seat(buckets[b][i].key) = b
       /\ \A i, j \in DOMAIN buckets[b] : buckets[b][i].key = buckets[b][j].key => i = j
  /\ holders \in [0..(NumMutexes - 1) -> SUBSET Threads]
  /\ \A t \in Threads :
       \/ calls[t] = Idle
       \/ calls[t] \in [at : {"lock", "body", "return"}, op : Keyed \cup Sweeping, key : Keys,
            value : Values, seat : 0..NumBuckets, size : 0..Cardinality(Keys),
            ok : {"none", "true", "false"}, seen : Values \cup {NoValue},
            count : 0..Cardinality(Keys)]

\* init()
Init ==
  /\ buckets = [b \in 0..(NumBuckets - 1) |-> <<>>]
  /\ holders = [m \in 0..(NumMutexes - 1) |-> {}]
  /\ calls = [t \in Threads |-> Idle]
-----------------------------------------------------------------------------
Call(t, op, k, v) ==
  /\ calls[t] = Idle
  /\ calls' = [calls EXCEPT ![t] =
       [at |-> "lock", op |-> op, key |-> k, value |-> v,
        seat |-> IF op \in Keyed THEN Seat(k) ELSE 0, size |-> 0,
        ok |-> "none", seen |-> NoValue, count |-> 0]]
  /\ UNCHANGED <<buckets, holders>>

\* read_lock_t or write_lock_t
Exclusive(op) == op # "find"

Mutex(t) == calls[t].seat % NumMutexes

\* The lock, and then bucket.size().
Lock(t) ==
  LET m == Mutex(t) IN
  /\ calls[t].at = "lock"
  /\ \A u \in holders[m] : ~Exclusive(calls[u].op) /\ ~Exclusive(calls[t].op)
  /\ holders' = [holders EXCEPT ![m] = @ \cup {t}]
  /\ calls' = [calls EXCEPT ![t].at = "body", ![t].size = Len(buckets[calls[t].seat])]
  /\ UNCHANGED buckets

Unlocked(t) == [holders EXCEPT ![Mutex(t)] = @ \ {t}]

\* Mutant: the last entry is dropped, and not moved to the place of the i-th.
UnmovedWithout(b, i) == SubSeq(b, 1, Len(b) - 1)

\* b without its i-th entry: the last one takes its place.
Without(b, i) ==
  [j \in 1..(Len(b) - 1) |-> IF j = i THEN b[Len(b)] ELSE b[j]]

\* find, insert, update, insert_update, erase: the loop over the bucket, and what
\* follows it; the lock goes at the end.
Do(t) ==
  LET c == calls[t]
      b == buckets[c.seat]
      at == {i \in DOMAIN b : i <= c.size /\ b[i].key = c.key}
      Result(new, ok, seen) ==
        /\ buckets' = [buckets EXCEPT ![c.seat] = new]
        /\ calls' = [calls EXCEPT ![t].at = "return", ![t].ok = ok, ![t].seen = seen]
  IN /\ c.at = "body" /\ c.op \in Keyed
     /\ holders' = Unlocked(t)
     /\ \/ c.op = "find" /\ \E i \in at : Result(b, "true", b[i].value)
        \/ c.op \in {"update", "insert_update"}
             /\ \E i \in at : Result([b EXCEPT ![i].value = c.value], "true", NoValue)
        \/ c.op = "erase" /\ \E i \in at : Result(Without(b, i), "true", NoValue)
        \/ c.op = "insert" /\ at # {} /\ Result(b, "false", NoValue)
        \/ c.op \in {"insert", "insert_update"} /\ at = {}
             /\ Result(Append(b, [key |-> c.key, value |-> c.value]), "true", NoValue)
        \/ c.op \in {"find", "update", "erase"} /\ at = {} /\ Result(b, "false", NoValue)

\* The j-th step of the loop of clean() over a bucket.
CleanStep(b, j, invalid) ==
  IF j <= Len(b) /\ b[j].value = invalid THEN Without(b, j) ELSE b

\* Of clean(), a bucket: the entry that takes the place of an invalid one is not
\* looked at again.
Cleaned(bucket, invalid) ==
  LET after[j \in Nat] == IF j = 0 THEN bucket ELSE CleanStep(after[j - 1], j, invalid)
  IN  after[Len(bucket)]

\* reset and clean: one bucket, then the next.
SweepBucket(t) ==
  LET c == calls[t]
      b == buckets[c.seat]
      new == IF c.op = "reset" THEN <<>> ELSE Cleaned(b, c.value)
  IN /\ c.at = "body" /\ c.op \in Sweeping
     /\ holders' = Unlocked(t)
     /\ buckets' = [buckets EXCEPT ![c.seat] = new]
     /\ calls' = [calls EXCEPT
          ![t].at = IF c.seat = NumBuckets - 1 THEN "return" ELSE "lock",
          ![t].seat = c.seat + 1, ![t].size = 0,
          ![t].count = IF c.op = "clean" THEN @ + Len(b) - Len(new) ELSE @]

Return(t) ==
  /\ calls[t].at = "return"
  /\ calls' = [calls EXCEPT ![t] = Idle]
  /\ UNCHANGED <<buckets, holders>>

Next ==
  \E t \in Threads :
    \/ \E op \in {"insert", "update", "insert_update"}, k \in Keys, v \in Values :
         Call(t, op, k, v)
    \/ \E op \in {"find", "erase"}, k \in Keys : Call(t, op, k, AnyValue)
    \/ Call(t, "reset", AnyKey, AnyValue)
    \/ \E v \in Values : Call(t, "clean", AnyKey, v)
    \/ Lock(t) \/ Do(t) \/ SweepBucket(t) \/ Return(t)

Spec == Init /\ [][Next]_vars
-----------------------------------------------------------------------------
(* Properties *)

\* The map that the buckets stand for, and the calls as their callers see them.
TheMap ==
  [k \in Keys |->
     LET b == buckets[Seat(k)]
         at == {i \in DOMAIN b : b[i].key = k}
     IN  IF at = {} THEN NoValue ELSE b[CHOOSE i \in at : \A j \in at : i <= j].value]

TheCalls ==
  [t \in Threads |->
     LET c == calls[t] IN
     IF c = Idle THEN [op |-> "none"]
     ELSE [op |-> c.op, key |-> c.key, value |-> c.value,
           todo |-> IF c.op \in Sweeping THEN {k \in Keys : Seat(k) >= c.seat} ELSE {},
           ok |-> c.ok, seen |-> c.seen, count |-> c.count]]

Abstract == INSTANCE AbstractMap WITH map <- TheMap, pending <- TheCalls

\* The striped locks make every operation on a key atomic between its call and its
\* return, whatever other threads do to the same bucket; reset leaves nothing that it
\* found, and clean removes nothing that is valid.  Every entry is in the bucket of its
\* key, and the only one of it.
IsAtomic == []TypeOK /\ Abstract!Spec
=============================================================================
