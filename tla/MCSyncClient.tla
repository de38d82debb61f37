----------------------------- MODULE MCSyncClient -----------------------------
(* Instances of SyncClient for TLC. *)
EXTENDS SyncClient

\* The pairs that k calls of get_endpoints return for a group of n pairs.
Picked(n, k) ==
  LET g[i \in 0..k] ==
        IF i = 0 THEN [pair |-> 0, next |-> 0] ELSE GetEndpoints(n, g[i - 1].next)
  IN [i \in 1..k |-> g[i].pair]

\* get_endpoints takes the pairs in turn, the only one always, and none from an empty
\* group; a pair that is added in between has its turn before any comes again.
ASSUME RoundRobin ==
  /\ \A i \in 1..9 : Picked(0, 9)[i] = 0 /\ Picked(1, 9)[i] = 1
  /\ \A n \in 2..4, i \in 1..9 : Picked(n, 9)[i] = ((i - 1) % n) + 1
  /\ \A n \in 2..4 : GetEndpoints(n + 1, n).pair = n + 1
  /\ \A n \in 0..3, i \in 0..4 : GetEndpointsAt(n, i) = IF i < n THEN i + 1 ELSE 0
=============================================================================
