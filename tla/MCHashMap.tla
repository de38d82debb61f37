----------------------------- MODULE MCHashMap -----------------------------
(***************************************************************************)
(* hash_map as a machine, and byte_string as functions of bounded inputs.  *)
(***************************************************************************)
EXTENDS HashMap, ByteString, SequencesExt
CONSTANTS k1, k2, k3, t1, t2

\* Two keys in one bucket, and a third in another bucket of the same mutex.
Hashes == k1 :> 0 @@ k2 :> 13 @@ k3 :> 3
Symmetry == Permutations(Threads)

\* Every string that a size_t up to NPos can number twice, and every section.
Short == BoundedSeq(Byte, NPos \div 2)
Zero == CHOOSE byte \in Byte : TRUE
IsSection(s, p, n) == p < Len(s) /\ n > 0 /\ (n = NPos \/ p + n <= Len(s))
Before(s, p) == SubSeq(s, 1, p)
Behind(s, p, n) == IF n = NPos THEN <<>> ELSE SubSeq(s, p + n + 1, Len(s))

\* substr gives the section, and the empty string if there is no such section.
ASSUME SubstrIsSection ==
  \A s \in Short, p, n \in SizeT :
    IF IsSection(s, p, n) THEN Before(s, p) \o Substr(s, p, n) \o Behind(s, p, n) = s
    ELSE Substr(s, p, n) = <<>>

\* replace, erase: the other string is in the place of the section, or nothing has changed.
ASSUME ReplaceIsConcatenation ==
  \A s, t \in Short, p, n \in SizeT :
    Replace(s, p, n, t, Zero) =
      IF IsSection(s, p, n) THEN Before(s, p) \o t \o Behind(s, p, n) ELSE s
ASSUME EraseIsConcatenation ==
  \A s \in Short, p, n \in SizeT :
    Erase(s, p, n, Zero) = IF IsSection(s, p, n) THEN Before(s, p) \o Behind(s, p, n) ELSE s

\* assign forgets what was there, append keeps it.
ASSUME AssignAndAppend ==
  \A s, t \in Short : Assign(s, t, Zero) = t /\ Append0(s, t, Zero) = s \o t
=============================================================================
