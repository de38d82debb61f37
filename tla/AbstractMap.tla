---------------------------- MODULE AbstractMap ----------------------------
(***************************************************************************)
(* What hash_map promises to the threads that share it: find, insert,      *)
(* update, insert_update and erase take effect at one moment between the   *)
(* call and its return.  reset and clean are no such operations: each      *)
(* sweeps over the keys, some at a time; reset removes them, clean removes *)
(* only entries that are invalid.                                          *)
(***************************************************************************)
EXTENDS FiniteSets, Integers

CONSTANTS Threads, Keys, Values,
  NoValue  \* of a key that has no entry

VARIABLES
  map,     \* the value of each key
  pending  \* of each thread, its call

Keyed == {"find", "insert", "update", "insert_update", "erase"}
Sweeping == {"reset", "clean"}
Idle == [op |-> "none"]

Init == map = [k \in Keys |-> NoValue] /\ pending = [t \in Threads |-> Idle]

\* v is the value to store, or the one that clean takes for invalid.
Call(t) ==
  /\ pending[t] = Idle
  /\ UNCHANGED map
  /\ \E op \in Keyed \cup Sweeping, k \in Keys, v \in Values :
       pending' = [pending EXCEPT ![t] = [op |-> op, key |-> k, value |-> v,
         todo |-> IF op \in Sweeping THEN Keys ELSE {},
         ok |-> "none", seen |-> NoValue, count |-> 0]]

Stores(op, present) ==
  \/ op = "insert_update"
  \/ op = "insert" /\ ~present
  \/ op = "update" /\ present

Do(t) ==
  LET p == pending[t]
      present == map[p.key] # NoValue
  IN /\ p.op \in Keyed /\ p.ok = "none"
     /\ map' = IF Stores(p.op, present) THEN [map EXCEPT ![p.key] = p.value]
               ELSE IF p.op = "erase" THEN [map EXCEPT ![p.key] = NoValue]
               ELSE map
     /\ pending' = [pending EXCEPT
          ![t].ok = IF (p.op = "insert_update") \/ ((p.op = "insert") # present)
                    THEN "true" ELSE "false",
          ![t].seen = IF p.op = "find" THEN map[p.key] ELSE NoValue]

Sweep(t) ==
  LET p == pending[t] IN
  /\ p.op \in Sweeping
  /\ \E swept \in SUBSET p.todo :
       \E gone \in SUBSET swept :
         /\ p.op = "reset" => gone = swept
         /\ p.op = "clean" => \A k \in gone : map[k] = p.value
         /\ map' = [k \in Keys |-> IF k \in gone THEN NoValue ELSE map[k]]
         /\ pending' = [pending EXCEPT
              ![t].todo = @ \ swept,
              ![t].count = IF p.op = "clean" THEN @ + Cardinality(gone) ELSE @]

Return(t) ==
  /\ pending[t] # Idle
  /\ pending[t].todo = {}
  /\ pending[t].op \in Keyed => pending[t].ok # "none"
  /\ pending' = [pending EXCEPT ![t] = Idle]
  /\ UNCHANGED map

Next ==
  \E t \in Threads : Call(t) \/ Do(t) \/ Sweep(t) \/ Return(t)

Spec == Init /\ [][Next]_<<map, pending>>
=============================================================================
