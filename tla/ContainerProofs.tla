-------------------------- MODULE ContainerProofs --------------------------
(***************************************************************************)
(* Theorems about the containers.  hash_map of bastool, for any number of  *)
(* threads, any finite set of keys with any hash values and any sizes      *)
(* given to the constructor: what its threads do to the buckets under      *)
(* their striped locks are the steps of AbstractMap.  byte_string, for     *)
(* every string: the tests of substr and replace refuse exactly the        *)
(* sections that do not exist, although their sum may wrap around, and     *)
(* replace puts the other string in the place of the section.  io_buffer,  *)
(* for every buffer: what produce, consume and crunch do to the unread     *)
(* data, on which service_handler and the work handlers rely.              *)
(*                                                                         *)
(* The size of a bucket is read once, under the lock, and the loop over    *)
(* the bucket relies on it.  That it stays true (SizeTrue) needs the locks *)
(* (Locked): two threads are in buckets of the same mutex only to read.    *)
(***************************************************************************)
EXTENDS HashMap, ByteString, FiniteSetTheorems, SequenceTheorems, WellFoundedInduction, TLAPS

-----------------------------------------------------------------------------
(* The least element of a set of numbers, for the sizes and for induction *)

\* The theorem of well-founded induction for a set and not for an operator.
LEMMA LeastElement ==
  ASSUME NEW T \in SUBSET Nat, T # {}
  PROVE  \E i \in T : \A j \in T : i <= j
<1>1. PICK R : IsWellFoundedOn(R, Nat) /\ R = {ss \in Nat \X Nat : ss[1] < ss[2]}
  BY NatLessThanWellFounded DEF OpToRel
<1>2. PICK i \in T : \A j \in T : ~(<<j, i>> \in R)
  BY <1>1, WFMin
<1>3. \A j \in T : i <= j
  <2> SUFFICES ASSUME NEW j \in T, j < i PROVE FALSE
    OBVIOUS
  <2>1. <<j, i>> \in Nat \X Nat /\ <<j, i>>[1] < <<j, i>>[2]
    OBVIOUS
  <2>2. QED
    BY <1>1, <1>2, <2>1
<1>4. QED
  BY <1>3

\* Every size of the table is a positive number.
LEMMA HashSizePositive ==
  ASSUME NEW n \in Nat
  PROVE  HashSize(n) \in Nat \ {0}
<1>1. DOMAIN Sizes = 1..23 /\ Len(Sizes) = 23 /\ \A i \in 1..23 : Sizes[i] \in Nat \ {0}
  BY DEF Sizes
<1> HIDE DEF Sizes
<1> DEFINE enough == {i \in DOMAIN Sizes : n <= Sizes[i]}
<1>2. CASE enough = {}
  <2>1. HashSize(n) = Sizes[23]
    BY <1>1, <1>2 DEF HashSize
  <2>2. QED
    BY <1>1, <2>1
<1>3. CASE enough # {}
  <2>1. enough \in SUBSET Nat
    BY <1>1
  <2>2. \E i \in enough : \A j \in enough : i <= j
    BY <1>3, <2>1, LeastElement
  <2>3. PICK i \in enough : i = CHOOSE least \in enough : \A j \in enough : least <= j
    BY <2>2
  <2>4. HashSize(n) = Sizes[i]
    BY <1>3, <2>3 DEF HashSize
  <2>5. QED
    BY <1>1, <2>4
<1>4. QED
  BY <1>2, <1>3

\* There are buckets and mutexes, and every key has a bucket.
LEMMA Numbers ==
  /\ NumBuckets \in Nat \ {0} /\ NumMutexes \in Nat \ {0}
  /\ \A k \in Keys : Seat(k) \in 0..(NumBuckets - 1)
<1>1. NumBuckets \in Nat \ {0} /\ NumMutexes \in Nat \ {0}
  BY HashMapAssumption, HashSizePositive DEF NumBuckets, NumMutexes
<1>2. \A k \in Keys : HashValue[k] \in Nat
  BY HashMapAssumption
<1>3. QED
  BY <1>1, <1>2 DEF Seat
-----------------------------------------------------------------------------
(* A bucket *)

\* The entries of a bucket, and its keys.
Entries(b) == {b[i] : i \in 1..Len(b)}
KeysOf(b) == {b[i].key : i \in 1..Len(b)}

\* Every entry is in the bucket of its key, and the only one of it.
Sound(n, b) ==
  /\ b \in Seq(Entry)
  /\ \A i \in 1..Len(b) : Seat(b[i].key) = n
  /\ \A i, j \in 1..Len(b) : b[i].key = b[j].key => i = j

\* erase takes out one entry and keeps the others.
LEMMA WithoutEntry ==
  ASSUME NEW n, NEW b, Sound(n, b), NEW i \in 1..Len(b)
  PROVE  /\ Sound(n, Without(b, i)) /\ Entries(Without(b, i)) = Entries(b) \ {b[i]}
         /\ Len(Without(b, i)) = Len(b) - 1
<1> DEFINE w == Without(b, i)
           m == Len(b) - 1
           p == [j \in 1..m |-> IF j = i THEN Len(b) ELSE j]
<1>1. b \in Seq(Entry) /\ Len(b) \in Nat /\ m \in Nat
  BY DEF Sound
<1>2. w = [j \in 1..m |-> b[p[j]]]
  BY <1>1 DEF Without
<1>3. \A j \in 1..m : p[j] \in 1..Len(b) /\ p[j] # i
  BY <1>1
<1>4. \A j, k \in 1..m : p[j] = p[k] => j = k
  BY <1>1
<1>5. \A k \in 1..Len(b) : k # i => \E j \in 1..m : p[j] = k
  <2> SUFFICES ASSUME NEW k \in 1..Len(b), k # i PROVE \E j \in 1..m : p[j] = k
    OBVIOUS
  <2>1. CASE k = Len(b)
    <3>1. i \in 1..m /\ p[i] = k
      BY <1>1, <2>1
    <3>2. QED
      BY <3>1
  <2>2. CASE k # Len(b)
    <3>1. k \in 1..m /\ p[k] = k
      BY <1>1, <2>2
    <3>2. QED
      BY <3>1
  <2>3. QED
    BY <2>1, <2>2
<1> HIDE DEF p, w
<1>6. w \in Seq(Entry) /\ Len(w) = m /\ \A j \in 1..m : w[j] = b[p[j]]
  <2>1. \A j \in 1..m : b[p[j]] \in Entry
    BY <1>1, <1>3
  <2>2. QED
    BY <1>1, <1>2, <2>1
<1> HIDE DEF m
<1>7. Sound(n, w)
  <2>1. \A j \in 1..m : Seat(w[j].key) = n
    BY <1>3, <1>6 DEF Sound
  <2>2. \A j, k \in 1..m : w[j].key = w[k].key => j = k
    <3> SUFFICES ASSUME NEW j \in 1..m, NEW k \in 1..m, w[j].key = w[k].key PROVE j = k
      OBVIOUS
    <3>1. b[p[j]].key = b[p[k]].key /\ p[j] \in 1..Len(b) /\ p[k] \in 1..Len(b)
      BY <1>3, <1>6
    <3>2. p[j] = p[k]
      BY <3>1 DEF Sound
    <3>3. QED
      BY <1>4, <3>2
  <2>3. QED
    BY <1>6, <2>1, <2>2 DEF Sound
<1>8. Entries(w) = Entries(b) \ {b[i]}
  <2>1. \A j \in 1..m : w[j] \in Entries(b) \ {b[i]}
    BY <1>3, <1>6, SMTT(30) DEF Entries, Sound
  <2>2. \A k \in 1..Len(b) : b[k] # b[i] => b[k] \in Entries(w)
    <3> SUFFICES ASSUME NEW k \in 1..Len(b), k # i PROVE b[k] \in Entries(w)
      OBVIOUS
    <3>1. PICK j \in 1..m : p[j] = k
      BY <1>5
    <3>2. w[j] = b[k] /\ j \in 1..Len(w)
      BY <1>6, <3>1
    <3>3. QED
      BY <3>2 DEF Entries
  <2>3. QED
    BY <1>6, <2>1, <2>2 DEF Entries
<1>9. QED
  BY <1>6, <1>7, <1>8 DEF w, m
-----------------------------------------------------------------------------
(* clean() *)

\* What is left of bucket b when invalid entries are taken out.
Weeded(n, b, invalid, c) ==
  /\ Sound(n, c) /\ Entries(c) \subseteq Entries(b)
  /\ \A e \in Entries(b) : e \in Entries(c) \/ e.value = invalid

\* A step of the loop takes out one invalid entry or none.
LEMMA StepWeeds ==
  ASSUME NEW n, NEW b, NEW invalid, NEW c, Weeded(n, b, invalid, c), NEW j \in Nat \ {0}
  PROVE  Weeded(n, b, invalid, CleanStep(c, j, invalid))
<1>1. CASE j <= Len(c) /\ c[j].value = invalid
  <2>1. j \in 1..Len(c)
    BY <1>1 DEF Weeded, Sound
  <2>2. CleanStep(c, j, invalid) = Without(c, j)
    BY <1>1 DEF CleanStep
  <2>3. Sound(n, Without(c, j)) /\ Entries(Without(c, j)) = Entries(c) \ {c[j]}
    BY <2>1, WithoutEntry DEF Weeded
  <2>4. QED
    BY <1>1, <2>2, <2>3 DEF Weeded
<1>2. CASE ~(j <= Len(c) /\ c[j].value = invalid)
  BY <1>2 DEF CleanStep
<1>3. QED
  BY <1>1, <1>2

\* The first m steps of the loop as a function, and that there is one for every m.
Run(g, m, b, invalid) ==
  /\ g = [i \in 0..m |-> g[i]] /\ g[0] = b
  /\ \A i \in 1..m : g[i] = CleanStep(g[i - 1], i, invalid)

\* Two runs of the loop agree as far as the shorter one goes.
LEMMA RunsAgree ==
  ASSUME NEW b, NEW invalid, NEW m \in Nat, NEW k \in Nat, NEW g, NEW h,
         Run(g, m, b, invalid), Run(h, k, b, invalid), m <= k
  PROVE  \A i \in 0..m : g[i] = h[i]
<1> DEFINE T == {i \in 0..m : g[i] # h[i]}
<1> SUFFICES ASSUME T # {} PROVE FALSE
  OBVIOUS
<1>1. T \in SUBSET Nat
  OBVIOUS
<1>2. PICK i \in T : \A j \in T : i <= j
  BY <1>1, LeastElement
<1>3. i # 0
  BY <1>2 DEF Run
<1>4. i \in 1..m /\ i \in 1..k /\ i - 1 \in 0..m /\ i - 1 \notin T
  BY <1>2, <1>3
<1>5. g[i - 1] = h[i - 1]
  BY <1>4
<1>6. g[i] = h[i]
  BY <1>4, <1>5 DEF Run
<1>7. QED
  BY <1>2, <1>6

\* The loop runs for any number of steps.
LEMMA RunExists ==
  ASSUME NEW b, NEW invalid, NEW m \in Nat
  PROVE  \E g : Run(g, m, b, invalid)
<1> DEFINE T == {k \in Nat : ~ \E g : Run(g, k, b, invalid)}
<1> SUFFICES ASSUME T # {} PROVE FALSE
  OBVIOUS
<1>1. T \in SUBSET Nat
  OBVIOUS
<1> HIDE DEF T
<1>2. PICK k \in T : \A j \in T : k <= j
  BY <1>1, LeastElement
<1>3. k \in Nat /\ ~ \E g : Run(g, k, b, invalid)
  BY <1>2 DEF T
<1>4. CASE k = 0
  <2> DEFINE g == [i \in 0..0 |-> b]
  <2>1. Run(g, 0, b, invalid)
    BY DEF Run
  <2>2. QED
    BY <1>3, <1>4, <2>1
<1>5. CASE k # 0
  <2>1. k - 1 \in Nat /\ k - 1 \notin T
    BY <1>1, <1>2, <1>3, <1>5
  <2>2. PICK g : Run(g, k - 1, b, invalid)
    BY <2>1 DEF T
  <2> DEFINE h == [i \in 0..k |-> IF i = k THEN CleanStep(g[k - 1], k, invalid) ELSE g[i]]
  <2>3. h = [i \in 0..k |-> h[i]] /\ h[0] = b
    BY <1>3, <1>5, <2>2 DEF Run
  <2>4. ASSUME NEW i \in 1..k PROVE h[i] = CleanStep(h[i - 1], i, invalid)
    <3>1. h[i - 1] = g[i - 1]
      BY <1>3
    <3>2. CASE i = k
      BY <1>3, <3>1, <3>2
    <3>3. CASE i # k
      <4>1. i \in 1..(k - 1) /\ h[i] = g[i]
        BY <1>3, <3>3
      <4>2. QED
        BY <2>2, <3>1, <4>1 DEF Run
    <3>4. QED
      BY <3>2, <3>3
  <2> HIDE DEF h
  <2>5. Run(h, k, b, invalid)
    BY <2>3, <2>4 DEF Run
  <2>6. QED
    BY <1>3, <2>5
<1>6. QED
  BY <1>4, <1>5

\* The recursion of Cleaned has a solution, and what it says of every step.
LEMMA CleanedIsRun ==
  ASSUME NEW b, NEW invalid, Len(b) \in Nat
  PROVE  \E f : /\ f = [i \in Nat |-> f[i]] /\ f[0] = b /\ Cleaned(b, invalid) = f[Len(b)]
                /\ \A i \in Nat \ {0} : f[i] = CleanStep(f[i - 1], i, invalid)
<1> DEFINE run(m) == CHOOSE g : Run(g, m, b, invalid)
           F == [m \in Nat |-> run(m)[m]]
           Solves(f) == f = [j \in Nat |-> IF j = 0 THEN b ELSE CleanStep(f[j - 1], j, invalid)]
           after == CHOOSE f : Solves(f)
<1>1. \A m \in Nat : Run(run(m), m, b, invalid)
  BY RunExists
<1> HIDE DEF run
<1>2. F[0] = b
  BY <1>1 DEF Run
<1>3. ASSUME NEW m \in Nat \ {0} PROVE F[m] = CleanStep(F[m - 1], m, invalid)
  <2>1. Run(run(m), m, b, invalid) /\ Run(run(m - 1), m - 1, b, invalid) /\ m - 1 \in Nat
    BY <1>1
  <2>2. run(m - 1)[m - 1] = run(m)[m - 1]
    <3>1. \A i \in 0..(m - 1) : run(m - 1)[i] = run(m)[i]
      BY <2>1, RunsAgree
    <3>2. QED
      BY <3>1
  <2>3. run(m)[m] = CleanStep(run(m)[m - 1], m, invalid)
    <3>1. m \in 1..m
      OBVIOUS
    <3>2. QED
      BY <2>1, <3>1 DEF Run
  <2>4. QED
    BY <2>1, <2>2, <2>3
<1>4. F = [m \in Nat |-> F[m]]
  OBVIOUS
<1> HIDE DEF F
<1>5. Solves(F)
  <2>1. \A j \in Nat : F[j] = IF j = 0 THEN b ELSE CleanStep(F[j - 1], j, invalid)
    BY <1>2, <1>3
  <2>2. QED
    BY <1>4, <2>1
<1>6. Solves(after)
  BY <1>5
<1>7. Cleaned(b, invalid) = after[Len(b)]
  BY DEF Cleaned
<1> HIDE DEF after
<1>8. QED
  BY <1>6, <1>7

\* clean() takes out only what is invalid, and keeps the bucket sound.
LEMMA CleanedWeeds ==
  ASSUME NEW n, NEW b, Sound(n, b), NEW invalid
  PROVE  Weeded(n, b, invalid, Cleaned(b, invalid))
<1>1. Len(b) \in Nat
  BY DEF Sound
<1>2. PICK f : /\ f[0] = b /\ Cleaned(b, invalid) = f[Len(b)]
               /\ \A i \in Nat \ {0} : f[i] = CleanStep(f[i - 1], i, invalid)
  BY <1>1, CleanedIsRun
<1> DEFINE T == {i \in Nat : ~Weeded(n, b, invalid, f[i])}
<1>3. T = {}
  <2> SUFFICES ASSUME T # {} PROVE FALSE
    OBVIOUS
  <2>1. T \in SUBSET Nat
    OBVIOUS
  <2>2. PICK i \in T : \A j \in T : i <= j
    BY <2>1, LeastElement
  <2>3. i # 0
    BY <1>2, <2>2 DEF Weeded
  <2>4. i - 1 \in Nat /\ i - 1 \notin T /\ i \in Nat \ {0}
    BY <2>2, <2>3
  <2>5. Weeded(n, b, invalid, f[i - 1])
    BY <2>4
  <2>6. Weeded(n, b, invalid, f[i])
    BY <1>2, <2>4, <2>5, StepWeeds
  <2>7. QED
    BY <2>2, <2>6
<1>4. QED
  BY <1>1, <1>2, <1>3
-----------------------------------------------------------------------------
(* What a bucket says of a key *)

ValueIn(b, k) ==
  LET at == {i \in DOMAIN b : b[i].key = k}
  IN  IF at = {} THEN NoValue ELSE b[CHOOSE i \in at : \A j \in at : i <= j].value

\* The map in terms of the buckets.
LEMMA TheMapIs == TheMap = [k \in Keys |-> ValueIn(buckets[Seat(k)], k)]
BY DEF TheMap, ValueIn

\* In a sound bucket, a key has the value of its entry.
LEMMA ValueOf ==
  ASSUME NEW n, NEW b, Sound(n, b), NEW k
  PROVE  /\ \A e \in Entries(b) : e.key = k => ValueIn(b, k) = e.value
         /\ (\A e \in Entries(b) : e.key # k) => ValueIn(b, k) = NoValue
<1> DEFINE at == {i \in DOMAIN b : b[i].key = k}
<1>1. DOMAIN b = 1..Len(b) /\ Len(b) \in Nat
  BY DEF Sound
<1>2. ASSUME NEW e \in Entries(b), e.key = k PROVE ValueIn(b, k) = e.value
  <2>1. PICK i \in 1..Len(b) : e = b[i]
    BY DEF Entries
  <2>2. at = {i}
    BY <1>1, <1>2, <2>1 DEF Sound
  <2> HIDE DEF at
  <2>3. (CHOOSE j \in at : \A l \in at : j <= l) = i
    BY <1>1, <2>2
  <2>4. QED
    BY <2>1, <2>2, <2>3 DEF ValueIn, at
<1>3. ASSUME \A e \in Entries(b) : e.key # k PROVE ValueIn(b, k) = NoValue
  <2>1. at = {}
    BY <1>1, <1>3 DEF Entries
  <2>2. QED
    BY <2>1 DEF ValueIn
<1>4. QED
  BY <1>2, <1>3

\* A key has a value or none.
LEMMA ValueType ==
  ASSUME NEW n, NEW b, Sound(n, b), NEW k
  PROVE  /\ ValueIn(b, k) \in Values \cup {NoValue}
         /\ ValueIn(b, k) # NoValue <=> \E e \in Entries(b) : e.key = k
<1>1. \A e \in Entries(b) : e \in Entry
  BY DEF Entries, Sound
<1>2. \A e \in Entries(b) : e.value \in Values /\ e.value # NoValue
  BY <1>1, HashMapAssumption DEF Entry
<1>3. CASE \E e \in Entries(b) : e.key = k
  BY <1>2, <1>3, ValueOf
<1>4. CASE \A e \in Entries(b) : e.key # k
  BY <1>4, ValueOf
<1>5. QED
  BY <1>3, <1>4

\* Two buckets with the same entries of a key say the same of it.
LEMMA SameValue ==
  ASSUME NEW n, NEW b, Sound(n, b), NEW c, Sound(n, c), NEW k,
         \A e \in Entries(b) : e.key = k => e \in Entries(c),
         \A e \in Entries(c) : e.key = k => e \in Entries(b)
  PROVE  ValueIn(b, k) = ValueIn(c, k)
<1>1. CASE \E e \in Entries(b) : e.key = k
  BY <1>1, ValueOf
<1>2. CASE \A e \in Entries(b) : e.key # k
  BY <1>2, ValueOf
<1>3. QED
  BY <1>1, <1>2

\* What init and reset leave.
LEMMA EmptyBucket ==
  ASSUME NEW n
  PROVE  Sound(n, <<>>) /\ Entries(<<>>) = {}
<1>1. <<>> \in Seq(Entry) /\ Len(<<>>) = 0
  OBVIOUS
<1>2. QED
  BY <1>1 DEF Sound, Entries

\* insert appends an entry of a key that has none.
LEMMA InsertEntry ==
  ASSUME NEW n, NEW b, Sound(n, b), NEW x \in Entry, Seat(x.key) = n,
         \A e \in Entries(b) : e.key # x.key
  PROVE  Sound(n, Append(b, x)) /\ Entries(Append(b, x)) = Entries(b) \cup {x}
<1> DEFINE a == Append(b, x)
           m == Len(b) + 1
<1>1. b \in Seq(Entry) /\ Len(b) \in Nat
  BY DEF Sound
<1>2. /\ a \in Seq(Entry) /\ Len(a) = m /\ a[m] = x /\ m \in 1..m
      /\ \A i \in 1..Len(b) : a[i] = b[i] /\ i \in 1..m
      /\ \A i \in 1..m : i = m \/ i \in 1..Len(b)
  BY <1>1
<1>3. \A i \in 1..Len(b) : b[i].key # x.key
  BY DEF Entries
<1> HIDE DEF a, m
<1>4. Sound(n, a)
  BY <1>2, <1>3 DEF Sound
<1>5. Entries(a) = Entries(b) \cup {x}
  <2>1. \A e : e \in Entries(a) <=> \E i \in 1..m : e = a[i]
    BY <1>2 DEF Entries
  <2>2. \A e : e \in Entries(b) <=> \E i \in 1..Len(b) : e = b[i]
    BY DEF Entries
  <2>3. QED
    BY <1>2, <2>1, <2>2
<1>6. QED
  BY <1>4, <1>5 DEF a

\* update puts a value in the place of another.
LEMMA UpdateEntry ==
  ASSUME NEW n, NEW b, Sound(n, b), NEW i \in 1..Len(b), NEW x, x.key = b[i].key,
         NEW u \in Seq(Entry), Len(u) = Len(b), u[i] = x, \A j \in 1..Len(b) : j # i => u[j] = b[j]
  PROVE  Sound(n, u) /\ Entries(u) = (Entries(b) \ {b[i]}) \cup {x}
<1>5. u \in Seq(Entry) /\ Len(u) = Len(b) /\ u[i] = x /\ \A j \in 1..Len(b) : j # i => u[j] = b[j]
  OBVIOUS
<1>6. \A j \in 1..Len(b) : u[j].key = b[j].key
  BY <1>5
<1>7. Sound(n, u)
  BY <1>5, <1>6 DEF Sound
<1>8. Entries(u) = (Entries(b) \ {b[i]}) \cup {x}
  <2>1. \A e : e \in Entries(u) <=> \E j \in 1..Len(b) : e = u[j]
    BY <1>5 DEF Entries
  <2>2. \A e : e \in Entries(b) <=> \E j \in 1..Len(b) : e = b[j]
    BY DEF Entries
  <2>3. \A j \in 1..Len(b) : b[j] = b[i] => j = i
    BY DEF Sound
  <2>4. ASSUME NEW e, NEW j \in 1..Len(b), e = u[j] PROVE e \in (Entries(b) \ {b[i]}) \cup {x}
    BY <1>5, <2>2, <2>3, <2>4
  <2>5. ASSUME NEW e, e \in (Entries(b) \ {b[i]}) \cup {x} PROVE \E j \in 1..Len(b) : e = u[j]
    <3>1. CASE e = x
      BY <1>5, <3>1
    <3>2. CASE e # x
      <4>1. PICK j \in 1..Len(b) : e = b[j]
        BY <2>2, <2>5, <3>2
      <4>2. j # i
        BY <2>5, <3>2, <4>1
      <4>3. QED
        BY <1>5, <4>1, <4>2
    <3>3. QED
      BY <3>1, <3>2
  <2>6. QED
    BY <2>1, <2>4, <2>5
<1>9. QED
  BY <1>7, <1>8

\* A bucket has as many entries as keys, all of them its own.
LEMMA KeysCount ==
  ASSUME NEW n, NEW b, Sound(n, b)
  PROVE  /\ IsFiniteSet(KeysOf(b)) /\ Cardinality(KeysOf(b)) = Len(b) /\ Len(b) \in Nat
         /\ KeysOf(b) \subseteq {k \in Keys : Seat(k) = n}
         /\ \A k : k \in KeysOf(b) <=> \E e \in Entries(b) : e.key = k
         /\ Len(b) <= Cardinality(Keys)
<1>1. b \in Seq(Entry) /\ Len(b) \in Nat
  BY DEF Sound
<1> DEFINE f == [i \in 1..Len(b) |-> b[i].key]
<1>2. f \in Bijection(1..Len(b), KeysOf(b))
  <2>1. f \in [1..Len(b) -> KeysOf(b)]
    BY DEF KeysOf
  <2>2. \A i, j \in 1..Len(b) : f[i] = f[j] => i = j
    BY DEF Sound
  <2>3. \A k \in KeysOf(b) : \E i \in 1..Len(b) : f[i] = k
    BY DEF KeysOf
  <2> HIDE DEF f
  <2>4. QED
    BY <2>1, <2>2, <2>3 DEF Bijection, Injection, Surjection, IsInjective
<1>3. IsFiniteSet(1..Len(b)) /\ Cardinality(1..Len(b)) = Len(b)
  BY <1>1, FS_Interval
<1>4. IsFiniteSet(KeysOf(b)) /\ Cardinality(KeysOf(b)) = Len(b)
  BY <1>2, <1>3, FS_Bijection DEF ExistsBijection
<1>5. KeysOf(b) \subseteq {k \in Keys : Seat(k) = n}
  <2>1. \A i \in 1..Len(b) : b[i] \in Entry /\ Seat(b[i].key) = n
    BY <1>1 DEF Sound
  <2>2. \A i \in 1..Len(b) : b[i].key \in Keys
    BY <2>1 DEF Entry
  <2>3. QED
    BY <2>1, <2>2 DEF KeysOf
<1>6. \A k : k \in KeysOf(b) <=> \E e \in Entries(b) : e.key = k
  BY DEF KeysOf, Entries
<1>7. Len(b) <= Cardinality(Keys)
  <2>1. KeysOf(b) \in SUBSET Keys
    BY <1>5
  <2>2. QED
    BY <1>4, <2>1, HashMapAssumption, FS_Subset
<1>8. QED
  BY <1>1, <1>4, <1>5, <1>6, <1>7

\* The entries that a sweep removes are counted.
LEMMA WeededCount ==
  ASSUME NEW n, NEW b, Sound(n, b), NEW invalid, NEW c, Weeded(n, b, invalid, c)
  PROVE  /\ KeysOf(c) \subseteq KeysOf(b)
         /\ Cardinality(KeysOf(b) \ KeysOf(c)) = Len(b) - Len(c) /\ Len(b) - Len(c) \in Nat
<1>1. Sound(n, c) /\ Entries(c) \subseteq Entries(b)
  BY DEF Weeded
<1>2. KeysOf(c) \subseteq KeysOf(b)
  BY <1>1, KeysCount
<1>3. /\ IsFiniteSet(KeysOf(b)) /\ Cardinality(KeysOf(b)) = Len(b) /\ Len(b) \in Nat
      /\ Cardinality(KeysOf(c)) = Len(c) /\ Len(c) \in Nat
  BY <1>1, KeysCount
<1>4. KeysOf(b) \cap KeysOf(c) = KeysOf(c)
  BY <1>2
<1>5. /\ Cardinality(KeysOf(b) \ KeysOf(c)) = Cardinality(KeysOf(b)) - Cardinality(KeysOf(b) \cap KeysOf(c))
      /\ IsFiniteSet(KeysOf(b) \ KeysOf(c))
  BY <1>3, FS_Difference
<1>6. Cardinality(KeysOf(b) \ KeysOf(c)) \in Nat
  BY <1>5, FS_CardinalityType
<1>7. QED
  BY <1>2, <1>3, <1>4, <1>5, <1>6
-----------------------------------------------------------------------------
(* The operations on a key *)

CallRec ==
  [at : {"lock", "body", "return"}, op : Keyed \cup Sweeping, key : Keys, value : Values,
   seat : 0..NumBuckets, size : 0..Cardinality(Keys), ok : {"none", "true", "false"},
   seen : Values \cup {NoValue}, count : 0..Cardinality(Keys)]

\* What an operation may do to bucket b, and return.
Outcome(c, b, new, ok, seen) ==
  \/ /\ c.op = "find"
     /\ \E i \in 1..Len(b) : b[i].key = c.key /\ new = b /\ ok = "true" /\ seen = b[i].value
  \/ /\ c.op \in {"update", "insert_update"}
     /\ \E i \in 1..Len(b) :
          b[i].key = c.key /\ new = [b EXCEPT ![i].value = c.value] /\ ok = "true" /\ seen = NoValue
  \/ /\ c.op = "erase"
     /\ \E i \in 1..Len(b) : b[i].key = c.key /\ new = Without(b, i) /\ ok = "true" /\ seen = NoValue
  \/ /\ c.op = "insert" /\ \E i \in 1..Len(b) : b[i].key = c.key
     /\ new = b /\ ok = "false" /\ seen = NoValue
  \/ /\ c.op \in {"insert", "insert_update"} /\ \A i \in 1..Len(b) : b[i].key # c.key
     /\ new = Append(b, [key |-> c.key, value |-> c.value]) /\ ok = "true" /\ seen = NoValue
  \/ /\ c.op \in {"find", "update", "erase"} /\ \A i \in 1..Len(b) : b[i].key # c.key
     /\ new = b /\ ok = "false" /\ seen = NoValue

\* The same in terms of the values of the keys.
Effect(n, c, b, new, ok, seen) ==
  LET old == ValueIn(b, c.key)
      stores == \/ c.op = "insert_update"
                \/ c.op = "insert" /\ old = NoValue
                \/ c.op = "update" /\ old # NoValue
  IN /\ Sound(n, new)
     /\ c.op = "find" => new = b
     /\ \A k : k # c.key => ValueIn(new, k) = ValueIn(b, k)
     /\ ValueIn(new, c.key) = IF stores THEN c.value ELSE IF c.op = "erase" THEN NoValue ELSE old
     /\ ok = IF c.op = "insert_update" \/ ((c.op = "insert") # (old # NoValue)) THEN "true" ELSE "false"
     /\ seen = IF c.op = "find" THEN old ELSE NoValue

\* What an operation does to a sound bucket, said of the keys.
LEMMA OutcomeHasEffect ==
  ASSUME NEW c \in CallRec, c.op \in Keyed, NEW n, n = Seat(c.key), NEW b, Sound(n, b),
         NEW new, NEW ok, NEW seen, Outcome(c, b, new, ok, seen)
  PROVE  Effect(n, c, b, new, ok, seen)
<1> DEFINE old == ValueIn(b, c.key)
<1>1. c.key \in Keys /\ c.value \in Values /\ c.value # NoValue
  BY HashMapAssumption DEF CallRec
<1>2. \A i \in 1..Len(b) : b[i] \in Entries(b) /\ b[i] \in Entry
  BY DEF Entries, Sound
<1>3. ASSUME NEW i \in 1..Len(b), b[i].key = c.key
      PROVE  /\ old = b[i].value /\ old # NoValue /\ old \in Values
             /\ \A e \in Entries(b) : e.key = c.key => e = b[i]
  <2>1. old = b[i].value
    BY <1>2, <1>3, ValueOf
  <2>2. b[i].value \in Values /\ NoValue \notin Values
    BY <1>2, HashMapAssumption DEF Entry
  <2>3. \A e \in Entries(b) : e.key = c.key => e = b[i]
    BY <1>3 DEF Entries, Sound
  <2>4. QED
    BY <2>1, <2>2, <2>3
<1>4. ASSUME \A i \in 1..Len(b) : b[i].key # c.key
      PROVE  old = NoValue /\ \A e \in Entries(b) : e.key # c.key
  <2>1. \A e \in Entries(b) : e.key # c.key
    BY <1>4 DEF Entries
  <2>2. QED
    BY <2>1, ValueOf
<1> HIDE DEF old
<1>5. ASSUME Sound(n, new), NEW x, x.key = c.key, x.value = c.value, x \in Entries(new),
             \A e : e.key # c.key => (e \in Entries(new) <=> e \in Entries(b))
      PROVE  ValueIn(new, c.key) = c.value /\ \A k : k # c.key => ValueIn(new, k) = ValueIn(b, k)
  <2>1. ValueIn(new, c.key) = c.value
    BY <1>5, ValueOf
  <2>2. ASSUME NEW k, k # c.key PROVE ValueIn(new, k) = ValueIn(b, k)
    BY <1>5, <2>2, SameValue
  <2>3. QED
    BY <2>1, <2>2
<1>6. ASSUME c.op = "find", NEW i \in 1..Len(b), b[i].key = c.key, new = b, ok = "true", seen = b[i].value
      PROVE  Effect(n, c, b, new, ok, seen)
  BY <1>3, <1>6 DEF Effect, old
<1>7. ASSUME c.op \in {"update", "insert_update"}, NEW i \in 1..Len(b), b[i].key = c.key,
             new = [b EXCEPT ![i].value = c.value], ok = "true", seen = NoValue
      PROVE  Effect(n, c, b, new, ok, seen)
  <2>1. PICK x \in Entry : x = [b[i] EXCEPT !.value = c.value] /\ x.key = c.key /\ x.value = c.value
    <3>1. /\ [b[i] EXCEPT !.value = c.value] \in Entry
          /\ [b[i] EXCEPT !.value = c.value].key = b[i].key
          /\ [b[i] EXCEPT !.value = c.value].value = c.value
      BY <1>1, <1>2 DEF Entry
    <3>2. QED
      BY <1>7, <3>1
  <2>2. Sound(n, new) /\ Entries(new) = (Entries(b) \ {b[i]}) \cup {x}
    <3>1. new = [b EXCEPT ![i] = x]
      BY <1>7, <2>1
    <3>2. x.key = b[i].key
      BY <1>7, <2>1
    <3>3. new \in Seq(Entry) /\ Len(new) = Len(b) /\ new[i] = x /\ \A j \in 1..Len(b) : j # i => new[j] = b[j]
      BY <3>1 DEF Sound
    <3>4. QED
      BY <3>2, <3>3, UpdateEntry
  <2>3. x.key = c.key /\ x.value = c.value /\ x \in Entries(new)
    BY <2>1, <2>2
  <2>4. \A e : e.key # c.key => (e \in Entries(new) <=> e \in Entries(b))
    BY <1>7, <2>2, <2>3
  <2>5. ValueIn(new, c.key) = c.value /\ \A k : k # c.key => ValueIn(new, k) = ValueIn(b, k)
    BY <1>5, <2>2, <2>3, <2>4
  <2>6. old # NoValue
    BY <1>3, <1>7
  <2>7. CASE c.op = "update"
    BY <1>7, <2>2, <2>5, <2>6, <2>7 DEF Effect, old
  <2>8. CASE c.op = "insert_update"
    <3>1. c.op # "find" /\ c.op # "erase" /\ c.op # "insert"
      BY <2>8
    <3>2. ok = "true" /\ seen = NoValue
      BY <1>7
    <3>3. QED
      BY <2>2, <2>5, <2>6, <2>8, <3>1, <3>2 DEF Effect, old
  <2>9. QED
    BY <1>7, <2>7, <2>8
<1>8. ASSUME c.op = "erase", NEW i \in 1..Len(b), b[i].key = c.key, new = Without(b, i),
             ok = "true", seen = NoValue
      PROVE  Effect(n, c, b, new, ok, seen)
  <2>1. Sound(n, new) /\ Entries(new) = Entries(b) \ {b[i]}
    BY <1>8, WithoutEntry
  <2>2. \A e \in Entries(new) : e.key # c.key
    BY <1>3, <1>8, <2>1
  <2>3. ValueIn(new, c.key) = NoValue
    BY <2>1, <2>2, ValueOf
  <2>4. ASSUME NEW k, k # c.key PROVE ValueIn(new, k) = ValueIn(b, k)
    <3>1. \A e \in Entries(b) : e.key = k => e \in Entries(new)
      BY <1>8, <2>1, <2>4
    <3>2. \A e \in Entries(new) : e.key = k => e \in Entries(b)
      BY <2>1
    <3>3. QED
      BY <2>1, <3>1, <3>2, SameValue
  <2>5. QED
    BY <1>3, <1>8, <2>1, <2>3, <2>4 DEF Effect, old
<1>9. ASSUME c.op = "insert", NEW i \in 1..Len(b), b[i].key = c.key, new = b, ok = "false", seen = NoValue
      PROVE  Effect(n, c, b, new, ok, seen)
  BY <1>3, <1>9 DEF Effect, old
<1>10. ASSUME c.op \in {"insert", "insert_update"}, \A i \in 1..Len(b) : b[i].key # c.key,
              new = Append(b, [key |-> c.key, value |-> c.value]), ok = "true", seen = NoValue
       PROVE  Effect(n, c, b, new, ok, seen)
  <2>1. PICK x \in Entry : x = [key |-> c.key, value |-> c.value] /\ x.key = c.key /\ x.value = c.value
    <3>1. /\ [key |-> c.key, value |-> c.value] \in Entry
          /\ [key |-> c.key, value |-> c.value].key = c.key
          /\ [key |-> c.key, value |-> c.value].value = c.value
      BY <1>1 DEF Entry
    <3>2. QED
      BY <3>1
  <2>2. \A e \in Entries(b) : e.key # x.key
    BY <1>4, <1>10, <2>1
  <2>3. Sound(n, new) /\ Entries(new) = Entries(b) \cup {x}
    BY <1>10, <2>1, <2>2, InsertEntry
  <2>4. x \in Entries(new) /\ \A e : e.key # c.key => (e \in Entries(new) <=> e \in Entries(b))
    BY <2>1, <2>3
  <2>5. ValueIn(new, c.key) = c.value /\ \A k : k # c.key => ValueIn(new, k) = ValueIn(b, k)
    BY <1>5, <2>1, <2>3, <2>4
  <2>6. QED
    BY <1>4, <1>10, <2>3, <2>5 DEF Effect, old
<1>11. ASSUME c.op \in {"find", "update", "erase"}, \A i \in 1..Len(b) : b[i].key # c.key,
              new = b, ok = "false", seen = NoValue
       PROVE  Effect(n, c, b, new, ok, seen)
  BY <1>4, <1>11 DEF Effect, old
<1>12. QED
  BY <1>6, <1>7, <1>8, <1>9, <1>10, <1>11 DEF Outcome
-----------------------------------------------------------------------------
(* The invariant *)

\* The keys of the buckets that a sweep has been to.
Swept(n) == {k \in Keys : Seat(k) < n}

\* What a call has come to.
Fine(c) ==
  /\ c.op \in Keyed =>
       /\ c.seat = Seat(c.key) /\ c.count = 0
       /\ c.ok = "none" <=> c.at # "return"
       /\ c.at # "return" => c.seen = NoValue
  /\ c.op \in Sweeping =>
       /\ c.ok = "none" /\ c.seen = NoValue /\ c.count <= Cardinality(Swept(c.seat))
       /\ c.seat = NumBuckets <=> c.at = "return"

BucketsSound ==
  /\ buckets \in [0..(NumBuckets - 1) -> Seq(Entry)]
  /\ \A n \in 0..(NumBuckets - 1) : Sound(n, buckets[n])

CallsFine ==
  /\ calls \in [Threads -> {Idle} \cup CallRec]
  /\ \A t \in Threads : calls[t] # Idle => Fine(calls[t])

\* The mutex of a bucket is with those who work on it, and a writer has it alone.
InBody(t) == calls[t].at = "body"
Locked ==
  /\ holders \in [0..(NumMutexes - 1) -> SUBSET Threads]
  /\ \A m \in 0..(NumMutexes - 1) : \A t \in Threads :
       t \in holders[m] <=> InBody(t) /\ Mutex(t) = m
  /\ \A t, u \in Threads :
       InBody(t) /\ InBody(u) /\ t # u /\ Mutex(t) = Mutex(u) =>
         calls[t].op = "find" /\ calls[u].op = "find"

\* The size that was read after the lock is still true.
SizeTrue == \A t \in Threads : InBody(t) => calls[t].size = Len(buckets[calls[t].seat])

HashInv == BucketsSound /\ CallsFine /\ Locked /\ SizeTrue
-----------------------------------------------------------------------------
(* The steps keep the invariant *)

\* One call changes, the others stay.
LEMMA OneCall ==
  ASSUME CallsFine, NEW t \in Threads, NEW d \in {Idle} \cup CallRec, d # Idle => Fine(d),
         calls' = [calls EXCEPT ![t] = d]
  PROVE  CallsFine' /\ calls'[t] = d /\ \A u \in Threads \ {t} : calls'[u] = calls[u]
<1>1. calls'[t] = d /\ \A u \in Threads \ {t} : calls'[u] = calls[u]
  BY DEF CallsFine
<1>2. calls' \in [Threads -> {Idle} \cup CallRec]
  BY DEF CallsFine
<1>3. \A u \in Threads : calls'[u] # Idle => Fine(calls'[u])
  BY <1>1 DEF CallsFine
<1>4. QED
  BY <1>1, <1>2, <1>3 DEF CallsFine, Fine

\* A thread that is idle is at none of the places where another may be.
LEMMA CallOf ==
  ASSUME CallsFine, NEW t \in Threads
  PROVE  /\ Idle.at = "idle" /\ calls[t].at = "idle" <=> calls[t] = Idle
         /\ calls[t] # Idle => calls[t] \in CallRec /\ Fine(calls[t]) /\ calls[t].seat \in 0..NumBuckets
         /\ calls[t].at # "return" /\ calls[t] # Idle => calls[t].seat \in 0..(NumBuckets - 1)
<1>1. Idle.at = "idle"
  BY DEF Idle
<1>2. calls[t] = Idle \/ (calls[t] \in CallRec /\ Fine(calls[t]))
  BY DEF CallsFine
<1>3. calls[t] \in CallRec => calls[t].at # "idle" /\ calls[t].seat \in 0..NumBuckets
  BY DEF CallRec
<1>4. ASSUME calls[t].at # "return", calls[t] \in CallRec, Fine(calls[t])
      PROVE  calls[t].seat \in 0..(NumBuckets - 1)
  <2>1. CASE calls[t].op \in Keyed
    BY <1>4, <2>1, Numbers DEF Fine, CallRec
  <2>2. CASE calls[t].op \in Sweeping
    <3>1. calls[t].seat # NumBuckets /\ calls[t].seat \in 0..NumBuckets
      BY <1>3, <1>4, <2>2 DEF Fine
    <3>2. QED
      BY <3>1, Numbers
  <2>3. QED
    BY <1>4, <2>1, <2>2 DEF CallRec
<1>5. QED
  BY <1>1, <1>2, <1>3, <1>4

\* Idle is told from a call by where it is.
LEMMA NotIdle ==
  ASSUME NEW d \in CallRec
  PROVE  d # Idle /\ d.at # "idle"
<1>1. d.at # "idle"
  BY DEF CallRec
<1>2. Idle.at = "idle"
  BY DEF Idle
<1>3. QED
  BY <1>1, <1>2

\* The mutex of a call is one of those there are.
LEMMA MutexOf ==
  ASSUME CallsFine, NEW t \in Threads, calls[t] # Idle
  PROVE  Mutex(t) \in 0..(NumMutexes - 1)
<1>1. calls[t].seat \in Nat
  BY CallOf
<1>2. QED
  BY <1>1, Numbers DEF Mutex

\* The unlock.
LEMMA Released ==
  ASSUME CallsFine, Locked, NEW t \in Threads, InBody(t), holders' = Unlocked(t),
         NEW d, calls'[t] = d, d.at # "body", \A u \in Threads \ {t} : calls'[u] = calls[u]
  PROVE  Locked'
<1>1. ~InBody(t)' /\ \A u \in Threads \ {t} :
        (InBody(u)' <=> InBody(u)) /\ Mutex(u)' = Mutex(u) /\ calls'[u].op = calls[u].op
  BY DEF InBody, Mutex
<1>2. /\ holders' \in [0..(NumMutexes - 1) -> SUBSET Threads]
      /\ \A m \in 0..(NumMutexes - 1) : holders'[m] = IF m = Mutex(t) THEN holders[m] \ {t} ELSE holders[m]
  BY DEF Unlocked, Locked
<1>3. ASSUME NEW m \in 0..(NumMutexes - 1), NEW u \in Threads
      PROVE  u \in holders'[m] <=> InBody(u)' /\ Mutex(u)' = m
  <2>1. u \in holders[m] <=> InBody(u) /\ Mutex(u) = m
    BY DEF Locked
  <2>2. CASE u = t
    BY <1>1, <1>2, <2>1, <2>2
  <2>3. CASE u # t
    <3>1. (InBody(u)' <=> InBody(u)) /\ Mutex(u)' = Mutex(u)
      BY <1>1, <2>3
    <3>2. u \in holders'[m] <=> u \in holders[m]
      BY <1>2, <2>3
    <3>3. QED
      BY <2>1, <3>1, <3>2
  <2>4. QED
    BY <2>2, <2>3
<1>4. ASSUME NEW u \in Threads, NEW v \in Threads, InBody(u)', InBody(v)', u # v, Mutex(u)' = Mutex(v)'
      PROVE  calls'[u].op = "find" /\ calls'[v].op = "find"
  <2>1. u # t /\ v # t
    BY <1>1, <1>4
  <2>2. InBody(u) /\ InBody(v) /\ Mutex(u) = Mutex(v) /\ calls'[u].op = calls[u].op /\ calls'[v].op = calls[v].op
    BY <1>1, <1>4, <2>1
  <2>3. QED
    BY <1>4, <2>2 DEF Locked
<1>5. QED
  BY <1>2, <1>3, <1>4 DEF Locked

\* Who changes a bucket has it alone.
LEMMA SizeKept ==
  ASSUME CallsFine, Locked, SizeTrue, NEW t \in Threads, InBody(t), NEW new,
         buckets \in [0..(NumBuckets - 1) -> Seq(Entry)],
         buckets' = [buckets EXCEPT ![calls[t].seat] = new],
         calls[t].op = "find" => new = buckets[calls[t].seat],
         calls'[t].at # "body", \A u \in Threads \ {t} : calls'[u] = calls[u]
  PROVE  SizeTrue'
<1> SUFFICES ASSUME NEW u \in Threads, InBody(u)'
             PROVE  calls'[u].size = Len(buckets'[calls'[u].seat])
  BY DEF SizeTrue
<1>1. u # t /\ calls'[u] = calls[u] /\ InBody(u)
  BY DEF InBody
<1>2. calls[u].size = Len(buckets[calls[u].seat])
  BY <1>1 DEF SizeTrue
<1>3. calls[u].seat \in 0..(NumBuckets - 1)
  BY <1>1, CallOf DEF InBody
<1>4. CASE calls[u].seat = calls[t].seat
  <2>1. Mutex(u) = Mutex(t)
    BY <1>4 DEF Mutex
  <2>2. calls[t].op = "find"
    BY <1>1, <2>1 DEF Locked
  <2>3. buckets'[calls[u].seat] = buckets[calls[u].seat]
    BY <1>3, <1>4, <2>2
  <2>4. QED
    BY <1>1, <1>2, <2>3
<1>5. CASE calls[u].seat # calls[t].seat
  BY <1>1, <1>2, <1>3, <1>5
<1>6. QED
  BY <1>4, <1>5

\* One bucket is replaced by a sound one.
LEMMA BucketsKept ==
  ASSUME BucketsSound, NEW n \in 0..(NumBuckets - 1), NEW new, Sound(n, new),
         buckets' = [buckets EXCEPT ![n] = new]
  PROVE  /\ BucketsSound' /\ buckets'[n] = new
         /\ \A m \in (0..(NumBuckets - 1)) \ {n} : buckets'[m] = buckets[m]
<1>1. new \in Seq(Entry)
  BY DEF Sound
<1>2. /\ buckets' \in [0..(NumBuckets - 1) -> Seq(Entry)] /\ buckets'[n] = new
      /\ \A m \in (0..(NumBuckets - 1)) \ {n} : buckets'[m] = buckets[m]
  BY <1>1 DEF BucketsSound
<1>3. \A m \in 0..(NumBuckets - 1) : Sound(m, buckets'[m])
  BY <1>2 DEF BucketsSound
<1>4. QED
  BY <1>2, <1>3 DEF BucketsSound, Sound
-----------------------------------------------------------------------------
\* A map that was just constructed.
LEMMA HashInit ==
  ASSUME Init
  PROVE  HashInv
<1>1. /\ \A n \in 0..(NumBuckets - 1) : buckets[n] = <<>>
      /\ buckets \in [0..(NumBuckets - 1) -> Seq(Entry)]
  BY DEF Init
<1>2. BucketsSound
  BY <1>1, EmptyBucket DEF BucketsSound
<1>3. \A t \in Threads : calls[t] = Idle /\ calls[t].at = "idle"
  BY DEF Init, Idle
<1>4. CallsFine
  BY <1>3 DEF Init, CallsFine
<1>5. \A t \in Threads : ~InBody(t)
  BY <1>3 DEF InBody
<1>6. Locked /\ SizeTrue
  BY <1>5 DEF Init, Locked, SizeTrue
<1>7. QED
  BY <1>2, <1>4, <1>6 DEF HashInv

\* The record of a call that was made.
NewCall(op, k, v) ==
  [at |-> "lock", op |-> op, key |-> k, value |-> v,
   seat |-> IF op \in Keyed THEN Seat(k) ELSE 0, size |-> 0,
   ok |-> "none", seen |-> NoValue, count |-> 0]

\* A call that has just begun.
LEMMA NewCallFine ==
  ASSUME NEW op \in Keyed \cup Sweeping, NEW k \in Keys, NEW v \in Values
  PROVE  NewCall(op, k, v) \in CallRec /\ Fine(NewCall(op, k, v)) /\ NewCall(op, k, v).at = "lock"
<1>1. Cardinality(Keys) \in Nat /\ \A n : IsFiniteSet(Swept(n)) /\ Cardinality(Swept(n)) \in Nat
  BY HashMapAssumption, FS_CardinalityType, FS_Subset DEF Swept
<1>2. /\ NumBuckets \in Nat \ {0} /\ Seat(k) \in 0..(NumBuckets - 1)
      /\ (IF op \in Keyed THEN Seat(k) ELSE 0) \in 0..(NumBuckets - 1)
  BY Numbers
<1>3. NewCall(op, k, v) \in CallRec
  BY <1>1, <1>2 DEF NewCall, CallRec
<1>4. Fine(NewCall(op, k, v))
  BY <1>1, <1>2 DEF NewCall, Fine, Keyed, Sweeping
<1>5. QED
  BY <1>3, <1>4 DEF NewCall

\* A thread calls an operation.
LEMMA CallKeeps ==
  ASSUME HashInv, NEW t \in Threads, NEW op \in Keyed \cup Sweeping, NEW k \in Keys, NEW v \in Values,
         Call(t, op, k, v)
  PROVE  HashInv'
<1>1. PICK d \in CallRec : d = NewCall(op, k, v) /\ Fine(d) /\ d.at = "lock" /\ d # Idle
  BY NewCallFine, NotIdle
<1>2. calls[t] = Idle /\ calls' = [calls EXCEPT ![t] = d] /\ UNCHANGED <<buckets, holders>>
  BY <1>1 DEF Call, NewCall
<1>3. CallsFine' /\ calls'[t] = d /\ \A u \in Threads \ {t} : calls'[u] = calls[u]
  BY <1>1, <1>2, OneCall DEF HashInv
<1>4. ~InBody(t) /\ ~InBody(t)'
  BY <1>1, <1>2, <1>3 DEF InBody, Idle
<1>5. \A u \in Threads : /\ InBody(u)' <=> InBody(u)
                         /\ u # t => calls'[u] = calls[u] /\ Mutex(u)' = Mutex(u)
  BY <1>3, <1>4 DEF InBody, Mutex
<1>6. Locked'
  BY <1>2, <1>4, <1>5 DEF HashInv, Locked
<1>7. SizeTrue'
  BY <1>2, <1>4, <1>5 DEF HashInv, SizeTrue
<1>8. BucketsSound'
  BY <1>2 DEF HashInv, BucketsSound, Sound
<1>9. QED
  BY <1>3, <1>6, <1>7, <1>8 DEF HashInv

\* A thread gets the mutex: no other thread is at the buckets of it, or both only read.
LEMMA LockKeeps ==
  ASSUME HashInv, NEW t \in Threads, Lock(t)
  PROVE  HashInv'
<1>1. PICK c : c = calls[t]
  OBVIOUS
<1>2. c.at = "lock" /\ c \in CallRec /\ c # Idle /\ Fine(c) /\ c.seat \in 0..(NumBuckets - 1)
  BY <1>1, CallOf DEF Lock, HashInv
<1>3. PICK n \in 0..(NumBuckets - 1) : n = c.seat /\ Sound(n, buckets[n])
  BY <1>2 DEF HashInv, BucketsSound
<1>4. PICK size \in 0..Cardinality(Keys) : size = Len(buckets[n])
  <2>1. Cardinality(Keys) \in Nat /\ Len(buckets[n]) \in Nat /\ Len(buckets[n]) <= Cardinality(Keys)
    BY <1>3, KeysCount, HashMapAssumption, FS_CardinalityType
  <2>2. QED
    BY <2>1
<1>5. PICK d \in CallRec : /\ d = [c EXCEPT !.at = "body", !.size = size] /\ Fine(d)
                           /\ d.at = "body" /\ d.size = size /\ d.seat = n /\ d.op = c.op
  <2> DEFINE e == [c EXCEPT !.at = "body", !.size = size]
  <2>1. /\ e \in CallRec /\ e.at = "body" /\ e.size = size /\ e.seat = c.seat /\ e.op = c.op
        /\ e.key = c.key /\ e.ok = c.ok /\ e.seen = c.seen /\ e.count = c.count
    BY <1>2 DEF CallRec
  <2> HIDE DEF e
  <2>2. Fine(e)
    BY <1>2, <2>1, Numbers DEF Fine
  <2>3. QED
    BY <1>3, <2>1, <2>2 DEF e
<1>6. /\ calls' = [calls EXCEPT ![t] = d] /\ UNCHANGED buckets
      /\ \A u \in holders[Mutex(t)] : calls[u].op = "find" /\ c.op = "find"
      /\ holders' = [holders EXCEPT ![Mutex(t)] = @ \cup {t}]
  BY <1>1, <1>3, <1>4, <1>5 DEF Lock, Exclusive
<1>7. CallsFine' /\ calls'[t] = d /\ \A u \in Threads \ {t} : calls'[u] = calls[u]
  BY <1>5, <1>6, OneCall DEF HashInv
<1>8. /\ ~InBody(t) /\ InBody(t)' /\ Mutex(t)' = Mutex(t)
      /\ \A u \in Threads \ {t} : (InBody(u)' <=> InBody(u)) /\ Mutex(u)' = Mutex(u) /\ calls'[u] = calls[u]
  BY <1>1, <1>2, <1>3, <1>5, <1>7 DEF InBody, Mutex
<1>9. Mutex(t) \in 0..(NumMutexes - 1)
  BY <1>1, <1>2, MutexOf DEF HashInv
<1>10. Locked'
  <2>1. Locked
    BY DEF HashInv
  <2>2. /\ holders' \in [0..(NumMutexes - 1) -> SUBSET Threads]
        /\ \A m \in 0..(NumMutexes - 1) :
             holders'[m] = IF m = Mutex(t) THEN holders[m] \cup {t} ELSE holders[m]
    BY <1>6, <1>9, <2>1 DEF Locked
  <2>3. ASSUME NEW m \in 0..(NumMutexes - 1), NEW u \in Threads
        PROVE  u \in holders'[m] <=> InBody(u)' /\ Mutex(u)' = m
    <3>1. u \in holders[m] <=> InBody(u) /\ Mutex(u) = m
      BY <2>1 DEF Locked
    <3>2. CASE u = t
      <4>1. u \in holders'[m] <=> m = Mutex(t)
        BY <1>8, <2>2, <3>1, <3>2
      <4>2. QED
        BY <1>8, <3>2, <4>1
    <3>3. CASE u # t
      <4>1. (InBody(u)' <=> InBody(u)) /\ Mutex(u)' = Mutex(u)
        BY <1>8, <3>3
      <4>2. u \in holders'[m] <=> u \in holders[m]
        BY <2>2, <3>3
      <4>3. QED
        BY <3>1, <4>1, <4>2
    <3>4. QED
      BY <3>2, <3>3
  <2>4. ASSUME NEW u \in Threads \ {t}, InBody(u)', Mutex(u)' = Mutex(t)
        PROVE  calls'[u].op = "find" /\ calls'[t].op = "find"
    <3>1. InBody(u) /\ Mutex(u) = Mutex(t) /\ calls'[u] = calls[u]
      BY <1>8, <2>4
    <3>2. u \in holders[Mutex(t)]
      BY <1>9, <2>1, <3>1 DEF Locked
    <3>3. QED
      BY <1>5, <1>6, <1>7, <3>1, <3>2
  <2>5. ASSUME NEW u \in Threads \ {t}, NEW v \in Threads \ {t}, InBody(u)', InBody(v)', u # v,
               Mutex(u)' = Mutex(v)'
        PROVE  calls'[u].op = "find" /\ calls'[v].op = "find"
    <3>1. InBody(u) /\ InBody(v) /\ Mutex(u) = Mutex(v) /\ calls'[u] = calls[u] /\ calls'[v] = calls[v]
      BY <1>8, <2>5
    <3>2. QED
      BY <2>1, <2>5, <3>1 DEF Locked
  <2>6. ASSUME NEW u \in Threads, NEW v \in Threads, InBody(u)', InBody(v)', u # v, Mutex(u)' = Mutex(v)'
        PROVE  calls'[u].op = "find" /\ calls'[v].op = "find"
    <3>1. CASE u = t
      BY <1>8, <2>4, <2>6, <3>1
    <3>2. CASE v = t
      BY <1>8, <2>4, <2>6, <3>2
    <3>3. CASE u # t /\ v # t
      BY <2>5, <2>6, <3>3
    <3>4. QED
      BY <3>1, <3>2, <3>3
  <2>7. QED
    BY <2>2, <2>3, <2>6 DEF Locked
<1>11. SizeTrue'
  <2> SUFFICES ASSUME NEW u \in Threads, InBody(u)'
               PROVE  calls'[u].size = Len(buckets'[calls'[u].seat])
    BY DEF SizeTrue
  <2>1. CASE u = t
    BY <1>4, <1>5, <1>6, <1>7, <2>1
  <2>2. CASE u # t
    <3>1. InBody(u) /\ calls'[u] = calls[u]
      BY <1>8, <2>2
    <3>2. QED
      BY <1>6, <3>1 DEF HashInv, SizeTrue
  <2>3. QED
    BY <2>1, <2>2
<1>12. BucketsSound'
  BY <1>6 DEF HashInv, BucketsSound, Sound
<1>13. QED
  BY <1>7, <1>10, <1>11, <1>12 DEF HashInv

\* The end of an operation on a key.
Done(t, c, n, new, d) ==
  /\ c = calls[t] /\ c \in CallRec /\ c.op \in Keyed /\ c.at = "body" /\ c.ok = "none"
  /\ n \in 0..(NumBuckets - 1) /\ n = c.seat /\ n = Seat(c.key)
  /\ Effect(n, c, buckets[n], new, d.ok, d.seen)
  /\ d \in CallRec /\ Fine(d) /\ d.at = "return" /\ d.op = c.op /\ d.key = c.key
  /\ d.value = c.value /\ d.seat = c.seat /\ d.count = c.count
  /\ buckets' = [buckets EXCEPT ![n] = new] /\ holders' = Unlocked(t)
  /\ calls' = [calls EXCEPT ![t] = d]

\* The code of an operation on a key comes to its effect on the bucket.
LEMMA DoIsDone ==
  ASSUME HashInv, NEW t \in Threads, Do(t)
  PROVE  \E c, n, new, d : Done(t, c, n, new, d)
<1>1. PICK c : c = calls[t]
  OBVIOUS
<1>2. /\ c.at = "body" /\ c.op \in Keyed /\ c \in CallRec /\ Fine(c) /\ c.seat \in 0..(NumBuckets - 1)
      /\ c.seat = Seat(c.key) /\ c.ok = "none" /\ holders' = Unlocked(t)
  <2>1. c.at = "body" /\ c.op \in Keyed /\ holders' = Unlocked(t)
    BY <1>1 DEF Do
  <2>2. c \in CallRec /\ Fine(c) /\ c.seat \in 0..(NumBuckets - 1)
    BY <1>1, <2>1, CallOf DEF HashInv
  <2>3. QED
    BY <2>1, <2>2 DEF Fine
<1>3. PICK n \in 0..(NumBuckets - 1) : n = c.seat /\ Sound(n, buckets[n])
  BY <1>2 DEF HashInv, BucketsSound
<1>4. PICK b : b = buckets[n]
  OBVIOUS
<1>5. c.size = Len(b) /\ DOMAIN b = 1..Len(b) /\ Len(b) \in Nat
  <2>1. c.size = Len(b)
    BY <1>1, <1>2, <1>3, <1>4 DEF HashInv, SizeTrue, InBody
  <2>2. b \in Seq(Entry)
    BY <1>3, <1>4 DEF Sound
  <2>3. QED
    BY <2>1, <2>2
<1>6. \E new, ok, seen :
        /\ Outcome(c, b, new, ok, seen) /\ buckets' = [buckets EXCEPT ![n] = new]
        /\ calls' = [calls EXCEPT ![t].at = "return", ![t].ok = ok, ![t].seen = seen]
  <2> DEFINE bucket == buckets[calls[t].seat]
             at == {i \in DOMAIN bucket : i <= calls[t].size /\ bucket[i].key = calls[t].key}
             Result(new, ok, seen) ==
               /\ buckets' = [buckets EXCEPT ![calls[t].seat] = new]
               /\ calls' = [calls EXCEPT ![t].at = "return", ![t].ok = ok, ![t].seen = seen]
  <2>0. \/ calls[t].op = "find" /\ \E i \in at : Result(bucket, "true", bucket[i].value)
        \/ calls[t].op \in {"update", "insert_update"}
             /\ \E i \in at : Result([bucket EXCEPT ![i].value = calls[t].value], "true", NoValue)
        \/ calls[t].op = "erase" /\ \E i \in at : Result(Without(bucket, i), "true", NoValue)
        \/ calls[t].op = "insert" /\ at # {} /\ Result(bucket, "false", NoValue)
        \/ calls[t].op \in {"insert", "insert_update"} /\ at = {}
             /\ Result(Append(bucket, [key |-> calls[t].key, value |-> calls[t].value]), "true", NoValue)
        \/ calls[t].op \in {"find", "update", "erase"} /\ at = {} /\ Result(bucket, "false", NoValue)
    BY Zenon DEF Do
  <2>2. \A i : i \in at <=> i \in 1..Len(b) /\ b[i].key = c.key
    BY <1>1, <1>3, <1>4, <1>5
  <2> HIDE DEF at, Result
  <2>1. \/ c.op = "find" /\ \E i \in at : Result(b, "true", b[i].value)
        \/ c.op \in {"update", "insert_update"}
             /\ \E i \in at : Result([b EXCEPT ![i].value = c.value], "true", NoValue)
        \/ c.op = "erase" /\ \E i \in at : Result(Without(b, i), "true", NoValue)
        \/ c.op = "insert" /\ at # {} /\ Result(b, "false", NoValue)
        \/ c.op \in {"insert", "insert_update"} /\ at = {}
             /\ Result(Append(b, [key |-> c.key, value |-> c.value]), "true", NoValue)
        \/ c.op \in {"find", "update", "erase"} /\ at = {} /\ Result(b, "false", NoValue)
    BY <1>1, <1>3, <1>4, <2>0
  <2>3. PICK new, ok, seen : Outcome(c, b, new, ok, seen) /\ Result(new, ok, seen)
    <3>1. CASE c.op = "find" /\ \E i \in at : Result(b, "true", b[i].value)
      BY <2>2, <3>1 DEF Outcome
    <3>2. CASE /\ c.op \in {"update", "insert_update"}
               /\ \E i \in at : Result([b EXCEPT ![i].value = c.value], "true", NoValue)
      BY <2>2, <3>2 DEF Outcome
    <3>3. CASE c.op = "erase" /\ \E i \in at : Result(Without(b, i), "true", NoValue)
      BY <2>2, <3>3 DEF Outcome
    <3>4. CASE c.op = "insert" /\ at # {} /\ Result(b, "false", NoValue)
      BY <2>2, <3>4 DEF Outcome
    <3>5. CASE /\ c.op \in {"insert", "insert_update"} /\ at = {}
               /\ Result(Append(b, [key |-> c.key, value |-> c.value]), "true", NoValue)
      BY <2>2, <3>5 DEF Outcome
    <3>6. CASE c.op \in {"find", "update", "erase"} /\ at = {} /\ Result(b, "false", NoValue)
      BY <2>2, <3>6 DEF Outcome
    <3>7. QED
      BY <2>1, <3>1, <3>2, <3>3, <3>4, <3>5, <3>6
  <2>4. QED
    BY <1>1, <1>3, <2>3 DEF Result
<1>7. PICK new, ok, seen :
        /\ Outcome(c, b, new, ok, seen) /\ buckets' = [buckets EXCEPT ![n] = new]
        /\ calls' = [calls EXCEPT ![t].at = "return", ![t].ok = ok, ![t].seen = seen]
  BY <1>6
<1>8. Effect(n, c, b, new, ok, seen)
  BY <1>2, <1>3, <1>4, <1>7, OutcomeHasEffect
<1>9. ok \in {"true", "false"} /\ seen \in Values \cup {NoValue}
  <2>1. ValueIn(b, c.key) \in Values \cup {NoValue}
    BY <1>3, <1>4, ValueType
  <2>2. QED
    BY <1>8, <2>1 DEF Effect
<1> DEFINE d == [c EXCEPT !.at = "return", !.ok = ok, !.seen = seen]
<1>10. /\ d \in CallRec /\ d.at = "return" /\ d.ok = ok /\ d.seen = seen /\ d.op = c.op /\ d.key = c.key
       /\ d.value = c.value /\ d.seat = c.seat /\ d.count = c.count
  BY <1>2, <1>9 DEF CallRec
<1>11. calls' = [calls EXCEPT ![t] = d]
  BY <1>1, <1>7
<1> HIDE DEF d
<1>12. Fine(d)
  <2>1. d.op \notin Sweeping
    BY <1>2, <1>10 DEF Keyed, Sweeping
  <2>2. QED
    BY <1>2, <1>9, <1>10, <2>1 DEF Fine
<1>13. Done(t, c, n, new, d)
  BY <1>1, <1>2, <1>3, <1>4, <1>7, <1>8, <1>10, <1>11, <1>12 DEF Done
<1>14. QED
  BY <1>13

\* No other thread has read the size of the bucket that is changed.
LEMMA DoneKeeps ==
  ASSUME HashInv, NEW t \in Threads, NEW c, NEW n, NEW new, NEW d, Done(t, c, n, new, d)
  PROVE  HashInv'
<1>1. /\ BucketsSound' /\ buckets'[n] = new
  BY BucketsKept DEF Done, Effect, HashInv
<1>2. CallsFine' /\ calls'[t] = d /\ \A u \in Threads \ {t} : calls'[u] = calls[u]
  BY OneCall DEF Done, HashInv
<1>3. InBody(t) /\ d.at # "body"
  BY DEF Done, InBody
<1>4. Locked'
  BY <1>2, <1>3, Released DEF Done, HashInv
<1>5. SizeTrue'
  <2>1. c.op = "find" => new = buckets[n]
    BY DEF Done, Effect
  <2>2. /\ calls[t].op = "find" => new = buckets[calls[t].seat]
        /\ buckets' = [buckets EXCEPT ![calls[t].seat] = new]
        /\ buckets \in [0..(NumBuckets - 1) -> Seq(Entry)]
    BY <2>1 DEF Done, HashInv, BucketsSound
  <2>3. QED
    BY <1>2, <1>3, <2>2, SizeKept DEF HashInv
<1>6. QED
  BY <1>1, <1>2, <1>4, <1>5 DEF HashInv

\* A call returns.
LEMMA ReturnKeeps ==
  ASSUME HashInv, NEW t \in Threads, Return(t)
  PROVE  HashInv'
<1>1. calls[t].at = "return" /\ calls' = [calls EXCEPT ![t] = Idle] /\ UNCHANGED <<buckets, holders>>
  BY DEF Return
<1>2. CallsFine' /\ calls'[t] = Idle /\ \A u \in Threads \ {t} : calls'[u] = calls[u]
  BY <1>1, OneCall DEF HashInv
<1>3. ~InBody(t) /\ ~InBody(t)'
  BY <1>1, <1>2 DEF InBody, Idle
<1>4. \A u \in Threads : /\ InBody(u)' <=> InBody(u)
                         /\ u # t => calls'[u] = calls[u] /\ Mutex(u)' = Mutex(u)
  BY <1>2, <1>3 DEF InBody, Mutex
<1>5. Locked'
  BY <1>1, <1>3, <1>4 DEF HashInv, Locked
<1>6. SizeTrue'
  BY <1>1, <1>3, <1>4 DEF HashInv, SizeTrue
<1>7. BucketsSound'
  BY <1>1 DEF HashInv, BucketsSound, Sound
<1>8. QED
  BY <1>2, <1>5, <1>6, <1>7 DEF HashInv

\* The keys of a bucket.
SeatedAt(n) == {k \in Keys : Seat(k) = n}

\* What a sweep does to bucket b, and the keys that it removes.
Sweep(n, op, invalid, b, new, gone) ==
  /\ Sound(n, new) /\ gone \subseteq SeatedAt(n)
  /\ \A k \in Keys : Seat(k) = n => ValueIn(new, k) = IF k \in gone THEN NoValue ELSE ValueIn(b, k)
  /\ op = "reset" => gone = SeatedAt(n)
  /\ op = "clean" => \A k \in gone : ValueIn(b, k) = invalid
  /\ op = "clean" => Cardinality(gone) = Len(b) - Len(new) /\ Cardinality(gone) \in Nat

\* reset takes everything out of a bucket.
LEMMA ResetSweeps ==
  ASSUME NEW n, NEW b, Sound(n, b), NEW invalid
  PROVE  Sweep(n, "reset", invalid, b, <<>>, SeatedAt(n))
<1>1. Sound(n, <<>>) /\ Entries(<<>>) = {}
  BY EmptyBucket
<1>2. \A k \in Keys : ValueIn(<<>>, k) = NoValue
  BY <1>1, ValueOf
<1>3. QED
  BY <1>1, <1>2 DEF Sweep, SeatedAt

\* clean takes only invalid entries out of a bucket, and counts them.
LEMMA CleanSweeps ==
  ASSUME NEW n, NEW b, Sound(n, b), NEW invalid, NEW new, new = Cleaned(b, invalid)
  PROVE  Sweep(n, "clean", invalid, b, new, KeysOf(b) \ KeysOf(new))
<1> DEFINE gone == KeysOf(b) \ KeysOf(new)
<1>1. Weeded(n, b, invalid, new)
  BY CleanedWeeds
<1>2. Sound(n, new) /\ Entries(new) \subseteq Entries(b)
  BY <1>1 DEF Weeded
<1>3. /\ gone \subseteq SeatedAt(n)
      /\ \A k : k \in KeysOf(b) <=> \E e \in Entries(b) : e.key = k
      /\ \A k : k \in KeysOf(new) <=> \E e \in Entries(new) : e.key = k
  BY <1>2, KeysCount DEF SeatedAt
<1>4. Cardinality(gone) = Len(b) - Len(new) /\ Cardinality(gone) \in Nat
  BY <1>1, WeededCount
<1> HIDE DEF gone
<1>5. ASSUME NEW k \in gone PROVE ValueIn(new, k) = NoValue /\ ValueIn(b, k) = invalid
  <2>1. PICK e \in Entries(b) : e.key = k
    BY <1>3 DEF gone
  <2>2. \A f \in Entries(new) : f.key # k
    BY <1>3 DEF gone
  <2>3. e \notin Entries(new)
    BY <2>1, <2>2
  <2>4. e.value = invalid
    BY <1>1, <2>3 DEF Weeded
  <2>5. ValueIn(b, k) = e.value
    BY <2>1, ValueOf
  <2>6. ValueIn(new, k) = NoValue
    BY <1>2, <2>2, ValueOf
  <2>7. QED
    BY <2>4, <2>5, <2>6
<1>6. ASSUME NEW k, k \notin gone PROVE ValueIn(new, k) = ValueIn(b, k)
  <2>1. ASSUME NEW e \in Entries(b), e.key = k PROVE e \in Entries(new)
    <3>1. PICK f \in Entries(new) : f.key = k
      BY <1>3, <1>6, <2>1 DEF gone
    <3>2. f \in Entries(b)
      BY <1>2
    <3>3. e = f
      BY <2>1, <3>1, <3>2 DEF Entries, Sound
    <3>4. QED
      BY <3>3
  <2>2. QED
    BY <1>2, <2>1, SameValue
<1>7. QED
  BY <1>2, <1>3, <1>4, <1>5, <1>6 DEF Sweep, gone

\* One bucket more has been swept.
LEMMA SweptGrows ==
  ASSUME NEW n \in 0..(NumBuckets - 1)
  PROVE  /\ Cardinality(Swept(n)) \in Nat /\ Cardinality(Swept(n + 1)) \in Nat
         /\ Cardinality(Swept(n + 1)) = Cardinality(Swept(n)) + Cardinality(SeatedAt(n))
         /\ Cardinality(Swept(n + 1)) <= Cardinality(Keys)
         /\ IsFiniteSet(SeatedAt(n)) /\ Cardinality(SeatedAt(n)) \in Nat /\ Cardinality(Keys) \in Nat
<1>1. \A k \in Keys : Seat(k) \in Nat
  BY Numbers
<1>2. /\ Swept(n + 1) = Swept(n) \cup SeatedAt(n) /\ Swept(n) \cap SeatedAt(n) = {}
      /\ Swept(n) \in SUBSET Keys /\ SeatedAt(n) \in SUBSET Keys /\ Swept(n + 1) \in SUBSET Keys
  BY <1>1 DEF Swept, SeatedAt
<1>3. IsFiniteSet(Keys)
  BY HashMapAssumption
<1>4. /\ IsFiniteSet(Swept(n)) /\ IsFiniteSet(SeatedAt(n)) /\ IsFiniteSet(Swept(n + 1))
      /\ Cardinality(Swept(n + 1)) <= Cardinality(Keys)
  BY <1>2, <1>3, FS_Subset
<1>5. /\ Cardinality(Swept(n)) \in Nat /\ Cardinality(SeatedAt(n)) \in Nat
      /\ Cardinality(Swept(n + 1)) \in Nat /\ Cardinality(Keys) \in Nat
  BY <1>3, <1>4, FS_CardinalityType
<1>6. Cardinality(Swept(n) \cup SeatedAt(n)) =
        Cardinality(Swept(n)) + Cardinality(SeatedAt(n)) - Cardinality(Swept(n) \cap SeatedAt(n))
  BY <1>4, FS_Union
<1>7. Cardinality(Swept(n) \cap SeatedAt(n)) = 0
  BY <1>2, FS_EmptySet
<1>8. Cardinality(Swept(n + 1)) = Cardinality(Swept(n)) + Cardinality(SeatedAt(n)) - 0
  BY <1>2, <1>6, <1>7
<1>9. Cardinality(Swept(n + 1)) = Cardinality(Swept(n)) + Cardinality(SeatedAt(n))
  BY <1>5, <1>8
<1>10. QED
  BY <1>4, <1>5, <1>9

\* A bucket has been swept.
SweepDone(t, c, n, new, gone, d) ==
  /\ c = calls[t] /\ c \in CallRec /\ c.op \in Sweeping /\ c.at = "body" /\ c.ok = "none"
  /\ n \in 0..(NumBuckets - 1) /\ n = c.seat
  /\ Sweep(n, c.op, c.value, buckets[n], new, gone)
  /\ d \in CallRec /\ Fine(d) /\ d.at # "body" /\ d.op = c.op /\ d.key = c.key /\ d.value = c.value
  /\ d.ok = c.ok /\ d.seen = c.seen /\ d.seat = n + 1
  /\ d.count = IF c.op = "clean" THEN c.count + Cardinality(gone) ELSE c.count
  /\ buckets' = [buckets EXCEPT ![n] = new] /\ holders' = Unlocked(t)
  /\ calls' = [calls EXCEPT ![t] = d]

\* The code of reset and clean comes to their effect on a bucket.
LEMMA SweepIsDone ==
  ASSUME HashInv, NEW t \in Threads, SweepBucket(t)
  PROVE  \E c, n, new, gone, d : SweepDone(t, c, n, new, gone, d)
<1>1. PICK c : c = calls[t]
  OBVIOUS
<1>2. /\ c.at = "body" /\ c.op \in Sweeping /\ c \in CallRec /\ Fine(c) /\ c.seat \in 0..(NumBuckets - 1)
      /\ c.ok = "none" /\ c.seen = NoValue /\ c.count \in Nat /\ c.count <= Cardinality(Swept(c.seat))
      /\ holders' = Unlocked(t)
  <2>1. c.at = "body" /\ c.op \in Sweeping /\ holders' = Unlocked(t)
    BY <1>1 DEF SweepBucket
  <2>2. c \in CallRec /\ Fine(c) /\ c.seat \in 0..(NumBuckets - 1)
    BY <1>1, <2>1, CallOf DEF HashInv
  <2>3. c.count \in Nat
    BY <2>2 DEF CallRec
  <2>4. QED
    BY <2>1, <2>2, <2>3 DEF Fine
<1>3. PICK n \in 0..(NumBuckets - 1) : n = c.seat /\ Sound(n, buckets[n])
  BY <1>2 DEF HashInv, BucketsSound
<1>4. PICK b : b = buckets[n]
  OBVIOUS
<1>5. PICK new : new = IF c.op = "reset" THEN <<>> ELSE Cleaned(b, c.value)
  OBVIOUS
<1>6. PICK at, count : /\ at = IF n = NumBuckets - 1 THEN "return" ELSE "lock"
                       /\ count = IF c.op = "clean" THEN c.count + Len(b) - Len(new) ELSE c.count
  OBVIOUS
<1>7. /\ buckets' = [buckets EXCEPT ![n] = new]
      /\ calls' = [calls EXCEPT ![t].at = at, ![t].seat = n + 1, ![t].size = 0, ![t].count = count]
  BY <1>1, <1>3, <1>4, <1>5, <1>6 DEF SweepBucket
<1>8. c.op \in {"reset", "clean"}
  BY <1>2 DEF Sweeping
<1>9. PICK gone : Sweep(n, c.op, c.value, b, new, gone)
  <2>1. CASE c.op = "reset"
    <3>1. Sweep(n, "reset", c.value, b, <<>>, SeatedAt(n))
      BY <1>3, <1>4, ResetSweeps
    <3>2. new = <<>>
      BY <1>5, <2>1
    <3>3. QED
      BY <2>1, <3>1, <3>2
  <2>2. CASE c.op = "clean"
    <3>1. new = Cleaned(b, c.value)
      BY <1>5, <2>2
    <3>2. Sweep(n, "clean", c.value, b, new, KeysOf(b) \ KeysOf(new))
      BY <1>3, <1>4, <3>1, CleanSweeps
    <3>3. QED
      BY <2>2, <3>2
  <2>3. QED
    BY <1>8, <2>1, <2>2
<1>10. /\ count \in 0..Cardinality(Keys) /\ count <= Cardinality(Swept(n + 1))
       /\ count = IF c.op = "clean" THEN c.count + Cardinality(gone) ELSE c.count
  <2>1. /\ Cardinality(Swept(n)) \in Nat /\ Cardinality(Swept(n + 1)) \in Nat
        /\ Cardinality(Swept(n + 1)) = Cardinality(Swept(n)) + Cardinality(SeatedAt(n))
        /\ Cardinality(Swept(n + 1)) <= Cardinality(Keys)
        /\ IsFiniteSet(SeatedAt(n)) /\ Cardinality(SeatedAt(n)) \in Nat /\ Cardinality(Keys) \in Nat
    BY SweptGrows
  <2>2. Cardinality(gone) <= Cardinality(SeatedAt(n))
    <3>1. gone \in SUBSET SeatedAt(n)
      BY <1>9 DEF Sweep
    <3>2. QED
      BY <2>1, <3>1, FS_Subset
  <2>3. CASE c.op = "clean"
    <3>1. Cardinality(gone) = Len(b) - Len(new) /\ Cardinality(gone) \in Nat
      BY <1>9, <2>3 DEF Sweep
    <3>2. Len(b) \in Nat /\ Len(new) \in Nat
      BY <1>3, <1>4, <1>9 DEF Sweep, Sound
    <3>3. count = c.count + Cardinality(gone)
      BY <1>2, <1>6, <2>3, <3>1, <3>2
    <3>4. QED
      BY <1>2, <1>3, <2>1, <2>2, <2>3, <3>1, <3>3, SMTT(30)
  <2>4. CASE c.op = "reset"
    BY <1>2, <1>3, <1>6, <2>1, <2>4
  <2>5. QED
    BY <1>8, <2>3, <2>4
<1> DEFINE d == [c EXCEPT !.at = at, !.seat = n + 1, !.size = 0, !.count = count]
<1>11. /\ d \in CallRec /\ d.at = at /\ d.seat = n + 1 /\ d.count = count /\ d.op = c.op
       /\ d.key = c.key /\ d.value = c.value /\ d.ok = c.ok /\ d.seen = c.seen
  <2>1. n + 1 \in 0..NumBuckets /\ at \in {"lock", "return"}
    BY <1>6, Numbers
  <2>2. 0 \in 0..Cardinality(Keys)
    BY SweptGrows
  <2>3. QED
    BY <1>2, <1>10, <2>1, <2>2 DEF CallRec
<1>12. calls' = [calls EXCEPT ![t] = d]
  BY <1>1, <1>7
<1> HIDE DEF d
<1>13. Fine(d) /\ d.at # "body"
  <2>1. d.op \notin Keyed
    BY <1>8, <1>11 DEF Keyed
  <2>2. d.seat = NumBuckets <=> d.at = "return"
    BY <1>6, <1>11, Numbers
  <2>3. QED
    BY <1>2, <1>6, <1>10, <1>11, <2>1, <2>2 DEF Fine
<1>14. SweepDone(t, c, n, new, gone, d)
  BY <1>1, <1>2, <1>3, <1>4, <1>7, <1>9, <1>10, <1>11, <1>12, <1>13 DEF SweepDone
<1>15. QED
  BY <1>14

\* A bucket is swept by a thread that has its mutex alone.
LEMMA SweepKeeps ==
  ASSUME HashInv, NEW t \in Threads, NEW c, NEW n, NEW new, NEW gone, NEW d,
         SweepDone(t, c, n, new, gone, d)
  PROVE  HashInv'
<1>1. /\ BucketsSound' /\ buckets'[n] = new
  <2>1. BucketsSound
    BY DEF HashInv
  <2>2. n \in 0..(NumBuckets - 1) /\ Sound(n, new) /\ buckets' = [buckets EXCEPT ![n] = new]
    BY DEF SweepDone, Sweep
  <2>3. QED
    BY <2>1, <2>2, BucketsKept
<1>2. CallsFine' /\ calls'[t] = d /\ \A u \in Threads \ {t} : calls'[u] = calls[u]
  BY OneCall DEF SweepDone, HashInv
<1>3. InBody(t) /\ d.at # "body"
  BY DEF SweepDone, InBody
<1>4. Locked'
  BY <1>2, <1>3, Released DEF SweepDone, HashInv
<1>5. SizeTrue'
  <2>1. c.op # "find"
    BY DEF SweepDone, Sweeping
  <2>2. /\ calls[t].op = "find" => new = buckets[calls[t].seat]
        /\ buckets' = [buckets EXCEPT ![calls[t].seat] = new]
        /\ buckets \in [0..(NumBuckets - 1) -> Seq(Entry)]
    BY <2>1 DEF SweepDone, HashInv, BucketsSound
  <2>3. QED
    BY <1>2, <1>3, <2>2, SizeKept DEF HashInv
<1>6. QED
  BY <1>1, <1>2, <1>4, <1>5 DEF HashInv

\* Nothing changes.
LEMMA HashStutter ==
  ASSUME HashInv, UNCHANGED vars
  PROVE  HashInv'
<1>1. UNCHANGED <<buckets, holders, calls>>
  BY DEF vars
<1>2. QED
  BY <1>1 DEF HashInv, BucketsSound, Sound, CallsFine, Fine, Locked, InBody, Mutex, SizeTrue

\* What a thread does.
LEMMA Steps ==
  ASSUME HashInv, Next
  PROVE  \E t \in Threads :
           \/ \E op \in Keyed \cup Sweeping, k \in Keys, v \in Values : Call(t, op, k, v)
           \/ Lock(t)
           \/ \E c, n, new, d : Done(t, c, n, new, d)
           \/ \E c, n, new, gone, d : SweepDone(t, c, n, new, gone, d)
           \/ Return(t)
<1>1. AnyKey \in Keys /\ AnyValue \in Values
  BY HashMapAssumption DEF AnyKey, AnyValue
<1>2. PICK t \in Threads :
        \/ \E op \in {"insert", "update", "insert_update"}, k \in Keys, v \in Values : Call(t, op, k, v)
        \/ \E op \in {"find", "erase"}, k \in Keys : Call(t, op, k, AnyValue)
        \/ Call(t, "reset", AnyKey, AnyValue)
        \/ \E v \in Values : Call(t, "clean", AnyKey, v)
        \/ Lock(t) \/ Do(t) \/ SweepBucket(t) \/ Return(t)
  BY DEF Next
<1>3. {"insert", "update", "insert_update", "find", "erase", "reset", "clean"} \subseteq Keyed \cup Sweeping
  BY DEF Keyed, Sweeping
<1>4. Do(t) => \E c, n, new, d : Done(t, c, n, new, d)
  BY DoIsDone
<1>5. SweepBucket(t) => \E c, n, new, gone, d : SweepDone(t, c, n, new, gone, d)
  BY SweepIsDone
<1>6. QED
  BY <1>1, <1>2, <1>3, <1>4, <1>5

\* Every step keeps the invariant.
LEMMA HashNext ==
  ASSUME HashInv, [Next]_vars
  PROVE  HashInv'
<1>1. CASE Next
  BY <1>1, Steps, CallKeeps, LockKeeps, DoneKeeps, SweepKeeps, ReturnKeeps
<1>2. CASE UNCHANGED vars
  BY <1>2, HashStutter
<1>3. QED
  BY <1>1, <1>2
-----------------------------------------------------------------------------
(* Every step is one of AbstractMap *)

\* A call as its caller sees it.
View(c) ==
  IF c = Idle THEN [op |-> "none"]
  ELSE [op |-> c.op, key |-> c.key, value |-> c.value,
        todo |-> IF c.op \in Sweeping THEN {k \in Keys : Seat(k) >= c.seat} ELSE {},
        ok |-> c.ok, seen |-> c.seen, count |-> c.count]

\* The calls of all threads as their callers see them.
LEMMA TheCallsAre == TheCalls = [t \in Threads |-> View(calls[t])]
BY DEF TheCalls, View

\* The fields of a call's view.
LEMMA ViewOf ==
  ASSUME NEW c, c # Idle
  PROVE  View(c) = [op |-> c.op, key |-> c.key, value |-> c.value,
                    todo |-> IF c.op \in Sweeping THEN {k \in Keys : Seat(k) >= c.seat} ELSE {},
                    ok |-> c.ok, seen |-> c.seen, count |-> c.count]
BY DEF View

\* A view with another answer.
LEMMA Answered ==
  ASSUME NEW c, NEW d, NEW p, NEW r,
         p = [op |-> c.op, key |-> c.key, value |-> c.value, todo |-> {},
              ok |-> c.ok, seen |-> c.seen, count |-> c.count],
         r = [op |-> c.op, key |-> c.key, value |-> c.value, todo |-> {},
              ok |-> d.ok, seen |-> d.seen, count |-> c.count]
  PROVE  r = [p EXCEPT !.ok = d.ok, !.seen = d.seen]
<1> DEFINE q == [p EXCEPT !.ok = d.ok]
<1>1. q = [op |-> c.op, key |-> c.key, value |-> c.value, todo |-> {},
           ok |-> d.ok, seen |-> c.seen, count |-> c.count]
  OBVIOUS
<1> HIDE DEF q
<1>2. [q EXCEPT !.seen = d.seen] =
        [op |-> c.op, key |-> c.key, value |-> c.value, todo |-> {},
         ok |-> d.ok, seen |-> d.seen, count |-> c.count]
  BY <1>1
<1>3. QED
  BY <1>2 DEF q

\* One thread's call changes, and so does its view only.
LEMMA ViewChanges ==
  ASSUME CallsFine, NEW t \in Threads, NEW d, calls' = [calls EXCEPT ![t] = d]
  PROVE  TheCalls' = [TheCalls EXCEPT ![t] = View(d)] /\ TheCalls[t] = View(calls[t])
<1>1. TheCalls = [u \in Threads |-> View(calls[u])]
  BY TheCallsAre
<1>2. TheCalls' = [u \in Threads |-> View(calls'[u])]
  BY DEF TheCalls, View
<1>3. \A u \in Threads : calls'[u] = IF u = t THEN d ELSE calls[u]
  BY DEF CallsFine
<1> HIDE DEF View
<1>4. TheCalls' = [u \in Threads |-> IF u = t THEN View(d) ELSE View(calls[u])]
  BY <1>2, <1>3
<1>5. QED
  BY <1>1, <1>4

\* One bucket changes, and so do the values of its keys only.
LEMMA MapChanges ==
  ASSUME BucketsSound, NEW n \in 0..(NumBuckets - 1), NEW new, buckets' = [buckets EXCEPT ![n] = new]
  PROVE  /\ TheMap' = [k \in Keys |-> IF Seat(k) = n THEN ValueIn(new, k) ELSE TheMap[k]]
         /\ \A k \in Keys : Seat(k) = n => TheMap[k] = ValueIn(buckets[n], k)
<1>1. TheMap = [k \in Keys |-> ValueIn(buckets[Seat(k)], k)]
  BY TheMapIs
<1>2. TheMap' = [k \in Keys |-> ValueIn(buckets'[Seat(k)], k)]
  BY DEF TheMap, ValueIn
<1>3. \A m \in 0..(NumBuckets - 1) : buckets'[m] = IF m = n THEN new ELSE buckets[m]
  BY DEF BucketsSound
<1>4. \A k \in Keys : Seat(k) \in 0..(NumBuckets - 1)
  BY Numbers
<1>5. QED
  BY <1>1, <1>2, <1>3, <1>4

\* No bucket changes.
LEMMA MapKept ==
  ASSUME UNCHANGED buckets
  PROVE  TheMap' = TheMap
BY DEF TheMap

\* The map is empty at the beginning, and no call has begun.
LEMMA AbstractInit ==
  ASSUME Init
  PROVE  Abstract!Init
<1>1. \A n \in 0..(NumBuckets - 1) : buckets[n] = <<>>
  BY DEF Init
<1>2. \A k \in Keys : ValueIn(buckets[Seat(k)], k) = NoValue
  BY <1>1, Numbers, EmptyBucket, ValueOf
<1>3. TheMap = [k \in Keys |-> NoValue]
  BY <1>2, TheMapIs
<1>4. \A t \in Threads : View(calls[t]) = [op |-> "none"]
  BY DEF Init, View
<1>5. TheCalls = [t \in Threads |-> [op |-> "none"]]
  BY <1>4, TheCallsAre
<1>6. QED
  BY <1>3, <1>5 DEF Abstract!Init, Abstract!Idle

\* A call begins.
LEMMA CallIsCall ==
  ASSUME HashInv, NEW t \in Threads, NEW op \in Keyed \cup Sweeping, NEW k \in Keys, NEW v \in Values,
         Call(t, op, k, v)
  PROVE  Abstract!Call(t)
<1>1. PICK d \in CallRec : d = NewCall(op, k, v) /\ d # Idle
  BY NewCallFine, NotIdle
<1>2. calls[t] = Idle /\ calls' = [calls EXCEPT ![t] = d] /\ UNCHANGED buckets
  BY <1>1 DEF Call, NewCall
<1>3. View(calls[t]) = [op |-> "none"]
  BY <1>2 DEF View
<1>4. View(d) = [op |-> op, key |-> k, value |-> v, todo |-> IF op \in Sweeping THEN Keys ELSE {},
                 ok |-> "none", seen |-> NoValue, count |-> 0]
  <2>1. op \in Sweeping => {q \in Keys : Seat(q) >= (IF op \in Keyed THEN Seat(k) ELSE 0)} = Keys
    BY Numbers DEF Sweeping, Keyed
  <2>2. /\ d.op = op /\ d.key = k /\ d.value = v /\ d.ok = "none" /\ d.seen = NoValue /\ d.count = 0
        /\ d.seat = IF op \in Keyed THEN Seat(k) ELSE 0
    BY <1>1 DEF NewCall
  <2>3. QED
    BY <1>1, <2>1, <2>2 DEF View
<1>5. TheCalls' = [TheCalls EXCEPT ![t] = View(d)] /\ TheCalls[t] = View(calls[t])
  BY <1>2, ViewChanges DEF HashInv
<1>6. TheMap' = TheMap
  BY <1>2, MapKept
<1>7. op \in Abstract!Keyed \cup Abstract!Sweeping
  BY DEF Abstract!Keyed, Abstract!Sweeping, Keyed, Sweeping
<1>8. TheCalls' = [TheCalls EXCEPT ![t] =
        [op |-> op, key |-> k, value |-> v, todo |-> IF op \in Abstract!Sweeping THEN Keys ELSE {},
         ok |-> "none", seen |-> NoValue, count |-> 0]]
  BY <1>4, <1>5 DEF Abstract!Sweeping, Sweeping
<1>9. QED
  BY <1>3, <1>5, <1>6, <1>7, <1>8 DEF Abstract!Call, Abstract!Idle

\* The callers do not see the locks.
LEMMA LockIsNothing ==
  ASSUME HashInv, NEW t \in Threads, Lock(t)
  PROVE  TheMap' = TheMap /\ TheCalls' = TheCalls
<1>1. UNCHANGED buckets /\ calls[t].at = "lock"
  BY DEF Lock
<1>2. PICK c \in CallRec : c = calls[t] /\ c # Idle
  BY <1>1, CallOf DEF HashInv
<1>3. PICK d : d = [c EXCEPT !.at = "body", !.size = Len(buckets[c.seat])]
  OBVIOUS
<1>4. calls' = [calls EXCEPT ![t] = d]
  BY <1>2, <1>3 DEF Lock
<1>5. d.at = "body" /\ Idle.at = "idle" /\ d.op = c.op /\ d.key = c.key /\ d.value = c.value /\ d.ok = c.ok
      /\ d.seen = c.seen /\ d.count = c.count /\ d.seat = c.seat
  BY <1>2, <1>3 DEF CallRec, Idle
<1>6. View(d) = View(c)
  BY <1>2, <1>5 DEF View
<1>7. TheCalls' = [TheCalls EXCEPT ![t] = View(d)] /\ TheCalls[t] = View(c)
  BY <1>2, <1>4, ViewChanges DEF HashInv
<1>8. TheCalls' = TheCalls
  BY <1>6, <1>7, TheCallsAre
<1>9. QED
  BY <1>1, <1>8, MapKept

\* An operation on a key is done at once.
LEMMA DoneIsDo ==
  ASSUME HashInv, NEW t \in Threads, NEW c, NEW n, NEW new, NEW d, Done(t, c, n, new, d)
  PROVE  Abstract!Do(t)
<1>1. /\ c = calls[t] /\ c \in CallRec /\ c.op \in Keyed /\ c.ok = "none" /\ n = Seat(c.key)
      /\ n \in 0..(NumBuckets - 1) /\ d \in CallRec /\ d.op = c.op /\ d.key = c.key /\ d.value = c.value
      /\ d.count = c.count /\ buckets' = [buckets EXCEPT ![n] = new]
      /\ calls' = [calls EXCEPT ![t] = d] /\ Effect(n, c, buckets[n], new, d.ok, d.seen)
  BY DEF Done
<1>2. c # Idle /\ d # Idle /\ c.key \in Keys /\ c.op \notin Sweeping
  BY <1>1, NotIdle DEF CallRec, Keyed, Sweeping
<1> HIDE DEF View
<1>0. PICK p : p = [op |-> c.op, key |-> c.key, value |-> c.value, todo |-> {},
                    ok |-> c.ok, seen |-> c.seen, count |-> c.count]
  OBVIOUS
<1>3. /\ p = View(c) /\ p.op = c.op /\ p.key = c.key /\ p.value = c.value /\ p.todo = {}
      /\ p.ok = c.ok /\ p.seen = c.seen /\ p.count = c.count
  BY <1>0, <1>2, ViewOf
<1>4. View(d) = [p EXCEPT !.ok = d.ok, !.seen = d.seen]
  <2>1. View(d) = [op |-> c.op, key |-> c.key, value |-> c.value, todo |-> {},
                   ok |-> d.ok, seen |-> d.seen, count |-> c.count]
    BY <1>1, <1>2, ViewOf
  <2>2. QED
    BY <1>0, <2>1, Answered
<1>5. TheCalls' = [TheCalls EXCEPT ![t] = View(d)] /\ TheCalls[t] = p
  <2>1. TheCalls' = [TheCalls EXCEPT ![t] = View(d)] /\ TheCalls[t] = View(calls[t])
    BY <1>1, ViewChanges DEF HashInv
  <2>2. QED
    BY <1>1, <1>3, <2>1
<1>6. TheCalls' = [TheCalls EXCEPT ![t].ok = d.ok, ![t].seen = d.seen]
  BY <1>4, <1>5
<1>7. PICK old : old = ValueIn(buckets[n], c.key) /\ old = TheMap[c.key]
  BY <1>1, <1>2, MapChanges DEF HashInv
<1>8. PICK w : w = IF Abstract!Stores(c.op, old # NoValue) THEN c.value
                   ELSE IF c.op = "erase" THEN NoValue ELSE old
  OBVIOUS
<1>9. /\ ValueIn(new, c.key) = w
      /\ d.ok = IF (c.op = "insert_update") \/ ((c.op = "insert") # (old # NoValue)) THEN "true" ELSE "false"
      /\ d.seen = IF c.op = "find" THEN old ELSE NoValue
      /\ \A k : k # c.key => ValueIn(new, k) = ValueIn(buckets[n], k)
  BY <1>1, <1>7, <1>8 DEF Effect, Abstract!Stores
<1>10. TheMap' = [TheMap EXCEPT ![c.key] = w]
  <2>1. /\ TheMap' = [k \in Keys |-> IF Seat(k) = n THEN ValueIn(new, k) ELSE TheMap[k]]
        /\ \A k \in Keys : Seat(k) = n => TheMap[k] = ValueIn(buckets[n], k)
    BY <1>1, MapChanges DEF HashInv
  <2>2. TheMap = [k \in Keys |-> TheMap[k]]
    BY TheMapIs
  <2>3. \A k \in Keys : TheMap'[k] = IF k = c.key THEN w ELSE TheMap[k]
    BY <1>1, <1>9, <2>1
  <2>4. TheMap' = [k \in Keys |-> IF k = c.key THEN w ELSE TheMap[k]]
    BY <2>1, <2>3
  <2>5. QED
    BY <2>2, <2>4
<1>11. TheMap' = IF Abstract!Stores(p.op, TheMap[p.key] # NoValue) THEN [TheMap EXCEPT ![p.key] = p.value]
                 ELSE IF p.op = "erase" THEN [TheMap EXCEPT ![p.key] = NoValue]
                 ELSE TheMap
  <2>1. [TheMap EXCEPT ![c.key] = TheMap[c.key]] = TheMap
    BY TheMapIs
  <2>2. QED
    BY <1>3, <1>7, <1>8, <1>10, <2>1
<1>12. p.op \in Abstract!Keyed /\ p.ok = "none"
  BY <1>1, <1>3 DEF Abstract!Keyed, Keyed
<1>13. /\ d.ok = IF (p.op = "insert_update") \/ ((p.op = "insert") # (TheMap[p.key] # NoValue))
                 THEN "true" ELSE "false"
       /\ d.seen = IF p.op = "find" THEN TheMap[p.key] ELSE NoValue
  BY <1>3, <1>7, <1>9
<1>14. QED
  BY <1>5, <1>6, <1>11, <1>12, <1>13 DEF Abstract!Do

\* A bucket is swept: its keys are done at once, and no others.
LEMMA SweepIsSweep ==
  ASSUME HashInv, NEW t \in Threads, NEW c, NEW n, NEW new, NEW gone, NEW d,
         SweepDone(t, c, n, new, gone, d)
  PROVE  Abstract!Sweep(t)
<1>1. /\ c = calls[t] /\ c \in CallRec /\ c.op \in Sweeping /\ c.seat = n /\ c.ok = "none"
      /\ n \in 0..(NumBuckets - 1) /\ d \in CallRec /\ d.op = c.op /\ d.key = c.key /\ d.value = c.value
      /\ d.ok = c.ok /\ d.seen = c.seen /\ d.seat = n + 1
      /\ d.count = IF c.op = "clean" THEN c.count + Cardinality(gone) ELSE c.count
      /\ buckets' = [buckets EXCEPT ![n] = new]
      /\ calls' = [calls EXCEPT ![t] = d] /\ Sweep(n, c.op, c.value, buckets[n], new, gone)
  BY DEF SweepDone
<1>2. c # Idle /\ d # Idle
  BY <1>1, NotIdle
<1> HIDE DEF View
<1>0. PICK p : p = [op |-> c.op, key |-> c.key, value |-> c.value, todo |-> {k \in Keys : Seat(k) >= n},
                    ok |-> c.ok, seen |-> c.seen, count |-> c.count]
  OBVIOUS
<1>3. /\ p = View(c) /\ p.op = c.op /\ p.key = c.key /\ p.value = c.value
      /\ p.todo = {k \in Keys : Seat(k) >= n}
      /\ p.ok = c.ok /\ p.seen = c.seen /\ p.count = c.count
  BY <1>0, <1>1, <1>2, ViewOf
<1>4. {k \in Keys : Seat(k) >= n + 1} = p.todo \ SeatedAt(n)
  <2>1. \A k \in Keys : Seat(k) \in Int
    BY Numbers
  <2>2. n \in Int
    BY <1>1
  <2>3. \A s \in Int : s >= n + 1 <=> (s >= n /\ s # n)
    BY <2>2
  <2>4. \A k \in Keys : Seat(k) >= n + 1 <=> (Seat(k) >= n /\ Seat(k) # n)
    BY <2>1, <2>3
  <2>5. QED
    BY <1>3, <2>4 DEF SeatedAt
<1>5. View(d) = [p EXCEPT !.todo = p.todo \ SeatedAt(n), !.count = d.count]
  <2>1. View(d) = [op |-> c.op, key |-> c.key, value |-> c.value, todo |-> {k \in Keys : Seat(k) >= n + 1},
                   ok |-> c.ok, seen |-> c.seen, count |-> d.count]
    BY <1>1, <1>2, ViewOf
  <2>2. View(d) = [op |-> c.op, key |-> c.key, value |-> c.value, todo |-> p.todo \ SeatedAt(n),
                   ok |-> c.ok, seen |-> c.seen, count |-> d.count]
    BY <1>4, <2>1, Zenon
  <2>3. PICK x, y, old, r :
           x = p.todo \ SeatedAt(n) /\ y = d.count /\ old = {k \in Keys : Seat(k) >= n} /\ r = View(d)
    OBVIOUS
  <2>4. p = [op |-> c.op, key |-> c.key, value |-> c.value, todo |-> old,
             ok |-> c.ok, seen |-> c.seen, count |-> c.count]
    BY <1>0, <2>3
  <2>5. r = [op |-> c.op, key |-> c.key, value |-> c.value, todo |-> x,
             ok |-> c.ok, seen |-> c.seen, count |-> y]
    BY <2>2, <2>3
  <2>6. r = [p EXCEPT !.todo = x, !.count = y]
    <3> DEFINE q == [p EXCEPT !.count = y]
    <3>1. q = [op |-> c.op, key |-> c.key, value |-> c.value, todo |-> old,
               ok |-> c.ok, seen |-> c.seen, count |-> y]
      BY ONLY <2>4
    <3> HIDE DEF q
    <3>2. [q EXCEPT !.todo = x] = [op |-> c.op, key |-> c.key, value |-> c.value, todo |-> x,
                                   ok |-> c.ok, seen |-> c.seen, count |-> y]
      BY ONLY <3>1
    <3>3. r = [q EXCEPT !.todo = x]
      BY ONLY <3>2, <2>5
    <3>4. [q EXCEPT !.todo = x] = [p EXCEPT !.todo = x, !.count = y]
      BY ONLY DEF q
    <3>5. QED
      BY <3>3, <3>4, Zenon
  <2>7. QED
    BY <2>3, <2>6
<1>6. TheCalls' = [TheCalls EXCEPT ![t] = View(d)] /\ TheCalls[t] = p
  BY <1>1, <1>3, ViewChanges DEF HashInv
<1>7. TheCalls' = [TheCalls EXCEPT ![t].todo = @ \ SeatedAt(n),
                                   ![t].count = IF p.op = "clean" THEN @ + Cardinality(gone) ELSE @]
  <2>1. [p EXCEPT !.todo = @ \ SeatedAt(n), !.count = IF p.op = "clean" THEN @ + Cardinality(gone) ELSE @]
          = View(d)
    BY <1>1, <1>3, <1>5
  <2>2. QED
    BY <1>6, <2>1
<1>8. /\ TheMap' = [k \in Keys |-> IF Seat(k) = n THEN ValueIn(new, k) ELSE TheMap[k]]
      /\ \A k \in Keys : Seat(k) = n => TheMap[k] = ValueIn(buckets[n], k)
  BY <1>1, MapChanges DEF HashInv
<1>9. TheMap' = [k \in Keys |-> IF k \in gone THEN NoValue ELSE TheMap[k]]
  <2>1. \A k \in Keys : (IF Seat(k) = n THEN ValueIn(new, k) ELSE TheMap[k]) =
                          (IF k \in gone THEN NoValue ELSE TheMap[k])
    BY <1>1, <1>8 DEF Sweep, SeatedAt
  <2>2. QED
    BY <1>8, <2>1
<1>10. /\ SeatedAt(n) \in SUBSET p.todo /\ gone \in SUBSET SeatedAt(n)
       /\ p.op = "reset" => gone = SeatedAt(n)
       /\ p.op = "clean" => \A k \in gone : TheMap[k] = p.value
  BY <1>1, <1>3, <1>8 DEF Sweep, SeatedAt
<1>11. p.op \in Abstract!Sweeping
  BY <1>1, <1>3 DEF Abstract!Sweeping, Sweeping
<1>12. PICK q : q = TheCalls[t] /\ q = p
  BY <1>6
<1>13. /\ TheCalls' = [TheCalls EXCEPT ![t].todo = @ \ SeatedAt(n),
                        ![t].count = IF TheCalls[t].op = "clean" THEN @ + Cardinality(gone) ELSE @]
       /\ SeatedAt(n) \in SUBSET TheCalls[t].todo /\ gone \in SUBSET SeatedAt(n)
       /\ TheCalls[t].op = "reset" => gone = SeatedAt(n)
       /\ TheCalls[t].op = "clean" => \A k \in gone : TheMap[k] = TheCalls[t].value
       /\ TheCalls[t].op \in Abstract!Sweeping
  BY <1>7, <1>10, <1>11, <1>12
<1>14. QED
  <2>1. Cardinality(gone) = Abstract!Cardinality(gone)
    BY DEF Cardinality, Abstract!Cardinality
  <2>2. QED
    BY <1>9, <1>13, <2>1 DEF Abstract!Sweep

\* A call returns when it has nothing left to do.
LEMMA ReturnIsReturn ==
  ASSUME HashInv, NEW t \in Threads, Return(t)
  PROVE  Abstract!Return(t)
<1>1. calls[t].at = "return" /\ calls' = [calls EXCEPT ![t] = Idle] /\ UNCHANGED buckets
  BY DEF Return
<1>2. PICK c \in CallRec : c = calls[t] /\ c # Idle /\ Fine(c)
  BY <1>1, CallOf DEF HashInv, Idle
<1>0. PICK p : p = View(c)
  OBVIOUS
<1>3. /\ p = View(c) /\ p.op = c.op /\ p.ok = c.ok
      /\ p.todo = IF c.op \in Sweeping THEN {k \in Keys : Seat(k) >= c.seat} ELSE {}
  <2>1. p = [op |-> c.op, key |-> c.key, value |-> c.value,
             todo |-> IF c.op \in Sweeping THEN {k \in Keys : Seat(k) >= c.seat} ELSE {},
             ok |-> c.ok, seen |-> c.seen, count |-> c.count]
    BY <1>0, <1>2, ViewOf
  <2>2. QED
    BY <1>0, <2>1
<1>4. TheCalls' = [TheCalls EXCEPT ![t] = View(Idle)] /\ TheCalls[t] = p
  BY <1>1, <1>2, <1>3, ViewChanges DEF HashInv
<1>5. View(Idle) = [op |-> "none"]
  BY DEF View
<1>6. p.todo = {}
  <2>1. CASE c.op \in Sweeping
    <3>1. c.seat = NumBuckets
      BY <1>1, <1>2, <2>1 DEF Fine
    <3>2. \A k \in Keys : ~(Seat(k) >= NumBuckets)
      BY Numbers
    <3>3. QED
      BY <1>3, <2>1, <3>1, <3>2
  <2>2. QED
    BY <1>3, <2>1
<1>7. p.op \in Abstract!Keyed => p.ok # "none"
  BY <1>1, <1>2, <1>3 DEF Fine, Abstract!Keyed, Keyed
<1>8. p # [op |-> "none"]
  <2>1. p.op # "none"
    BY <1>2, <1>3 DEF CallRec, Keyed, Sweeping
  <2>2. QED
    BY <2>1
<1>9. TheMap' = TheMap
  BY <1>1, MapKept
<1>10. QED
  BY <1>4, <1>5, <1>6, <1>7, <1>8, <1>9 DEF Abstract!Return, Abstract!Idle

\* Every step is a step of AbstractMap, or none that it sees.
LEMMA NextIsNext ==
  ASSUME HashInv, [Next]_vars
  PROVE  [Abstract!Next]_<<TheMap, TheCalls>>
<1>1. CASE Next
  <2>1. PICK t \in Threads :
           \/ \E op \in Keyed \cup Sweeping, k \in Keys, v \in Values : Call(t, op, k, v)
           \/ Lock(t)
           \/ \E c, n, new, d : Done(t, c, n, new, d)
           \/ \E c, n, new, gone, d : SweepDone(t, c, n, new, gone, d)
           \/ Return(t)
    BY <1>1, Steps
  <2>2. \/ Abstract!Call(t) \/ Abstract!Do(t) \/ Abstract!Sweep(t) \/ Abstract!Return(t)
        \/ (TheMap' = TheMap /\ TheCalls' = TheCalls)
    BY <2>1, CallIsCall, LockIsNothing, DoneIsDo, SweepIsSweep, ReturnIsReturn
  <2>3. QED
    BY <2>2 DEF Abstract!Next
<1>2. CASE UNCHANGED vars
  BY <1>2 DEF vars, TheMap, TheCalls
<1>3. QED
  BY <1>1, <1>2

\* The invariant says more than the type.
LEMMA HashTyped ==
  ASSUME HashInv
  PROVE  TypeOK
<1>1. \A n \in 0..(NumBuckets - 1) :
        DOMAIN buckets[n] = 1..Len(buckets[n]) /\ \A i \in 1..Len(buckets[n]) : buckets[n][i] \in Entry
  BY DEF HashInv, BucketsSound
<1>2. DOMAIN buckets = 0..(NumBuckets - 1)
  BY DEF HashInv, BucketsSound
<1>3. \A n \in 0..(NumBuckets - 1) :
        /\ \A i \in 1..Len(buckets[n]) : Seat(buckets[n][i].key) = n
        /\ \A i, j \in 1..Len(buckets[n]) : buckets[n][i].key = buckets[n][j].key => i = j
  BY DEF HashInv, BucketsSound, Sound
<1>4. \A t \in Threads : calls[t] = Idle \/ calls[t] \in CallRec
  BY DEF HashInv, CallsFine
<1>5. holders \in [0..(NumMutexes - 1) -> SUBSET Threads]
  BY DEF HashInv, Locked
<1>6. QED
  BY <1>1, <1>2, <1>3, <1>4, <1>5 DEF TypeOK, CallRec

\* IsAtomic: every entry stays in the bucket of its key and the only one of it, and every
\* step of the buckets and their locks is a step of AbstractMap or none: an operation on a
\* key takes effect at one moment, whatever other threads do.
THEOREM HashMapIsAtomic == Spec => IsAtomic
<1>1. Init => HashInv /\ Abstract!Init
  BY HashInit, AbstractInit
<1>2. HashInv /\ [Next]_vars => HashInv' /\ [Abstract!Next]_<<TheMap, TheCalls>>
  BY HashNext, NextIsNext
<1>3. HashInv => TypeOK
  BY HashTyped
<1>4. QED
  BY <1>1, <1>2, <1>3, PTL DEF Spec, IsAtomic, Abstract!Spec
-----------------------------------------------------------------------------
(* byte_string *)

\* A section is refused exactly if it is empty or not part of the string: the sum in
\* the test does not wrap around where it could make a difference.
THEOREM SectionIsExact ==
  ASSUME NEW size \in Nat, 2 * size <= NPos, NEW position \in SizeT, NEW length \in SizeT
  PROVE  SectionLength(size, position, length) =
           IF position < size /\ length = NPos THEN size - position
           ELSE IF position + length <= size THEN length ELSE 0
BY ByteStringAssumption DEF SectionLength, Sum, SizeT

\* The length of the buffers that the steps of replace make by a function.
LEMMA BufferLength ==
  ASSUME NEW k \in Nat, NEW b, b = [i \in 1..k |-> b[i]]
  PROVE  Len(b) = k
<1>1. b \in Seq({b[i] : i \in 1..k})
  OBVIOUS
<1>2. DOMAIN b = 1..Len(b) /\ Len(b) \in Nat /\ DOMAIN b = 1..k
  BY <1>1
<1>3. QED
  BY <1>2

\* The section is replaced by the other string, with what lies before and behind it as
\* it was, whether the string shrinks, grows or keeps its size.
THEOREM ReplaceIsSplice ==
  ASSUME NEW s \in Seq(Byte), NEW other \in Seq(Byte), NEW zero,
         NEW position \in Nat, NEW n \in Nat \ {0}, position + n <= Len(s)
  PROVE  ReplaceSection(s, position, n, other, zero) =
           [i \in 1..((Len(s) - n) + Len(other)) |->
              IF i <= position THEN s[i]
              ELSE IF i <= position + Len(other) THEN other[i - position]
              ELSE s[(i - Len(other)) + n]]
<1> DEFINE size == (Len(s) - n) + Len(other)
           rest == (Len(s) - position) - n
           Spliced == [i \in 1..size |->
              IF i <= position THEN s[i]
              ELSE IF i <= position + Len(other) THEN other[i - position]
              ELSE s[(i - Len(other)) + n]]
<1>1. Len(s) \in Nat /\ Len(other) \in Nat /\ size \in Nat /\ rest \in Nat
  OBVIOUS
<1>2. CASE n > Len(other)
  <2> DEFINE moved == Move(s, position + Len(other), position + n, rest)
  <2>1. moved = [i \in 1..Len(s) |->
                   IF position + Len(other) < i /\ i <= position + Len(other) + rest
                   THEN s[position + n + (i - (position + Len(other)))] ELSE s[i]]
    BY DEF Move
  <2> HIDE DEF moved
  <2>2. Len(moved) = Len(s)
    BY <1>1, <2>1, BufferLength
  <2>3. size <= Len(s)
    BY <1>1, <1>2
  <2>4. Resize(moved, size, zero) = [i \in 1..size |-> moved[i]]
    BY <1>1, <2>2, <2>3 DEF Resize
  <2>5. Len(Resize(moved, size, zero)) = size
    BY <1>1, <2>4, BufferLength
  <2>6. ReplaceSection(s, position, n, other, zero) = Overwrite(Resize(moved, size, zero), position, other)
    BY <1>2 DEF ReplaceSection, moved
  <2>7. Overwrite(Resize(moved, size, zero), position, other) =
          [i \in 1..size |-> IF position < i /\ i <= position + Len(other)
                             THEN other[i - position] ELSE moved[i]]
    BY <1>1, <2>4, <2>5 DEF Overwrite
  <2>8. ASSUME NEW i \in 1..size
        PROVE  (IF position < i /\ i <= position + Len(other)
                THEN other[i - position] ELSE moved[i]) = Spliced[i]
    <3>1. i \in 1..Len(s)
      BY <1>1, <2>3
    <3>2. CASE i <= position
      BY <1>1, <2>1, <3>1, <3>2
    <3>3. CASE position < i /\ i <= position + Len(other)
      BY <1>1, <3>3
    <3>4. CASE position + Len(other) < i
      <4>1. position + n + (i - (position + Len(other))) = (i - Len(other)) + n
        BY <1>1
      <4>2. moved[i] = s[position + n + (i - (position + Len(other)))]
        BY <1>1, <2>1, <3>1, <3>4
      <4>3. QED
        BY <1>1, <3>4, <4>1, <4>2
    <3>5. QED
      BY <1>1, <3>2, <3>3, <3>4
  <2>9. QED
    BY <2>6, <2>7, <2>8
<1>3. CASE n < Len(other)
  <2> DEFINE grown == Resize(s, size, zero)
             moved == Move(grown, position + Len(other), position + n, rest)
  <2>1. grown = [i \in 1..size |-> IF i <= Len(s) THEN s[i] ELSE zero]
    BY DEF Resize
  <2> HIDE DEF grown
  <2>a. Len(grown) = size
    BY <1>1, <2>1, BufferLength
  <2>2. moved = [i \in 1..size |->
                   IF position + Len(other) < i /\ i <= position + Len(other) + rest
                   THEN grown[position + n + (i - (position + Len(other)))] ELSE grown[i]]
    BY <2>a DEF Move
  <2> HIDE DEF moved
  <2>3. Len(moved) = size
    BY <1>1, <2>2, BufferLength
  <2>4. ReplaceSection(s, position, n, other, zero) = Overwrite(moved, position, other)
    BY <1>1, <1>3 DEF ReplaceSection, grown, moved
  <2>5. Overwrite(moved, position, other) =
          [i \in 1..size |-> IF position < i /\ i <= position + Len(other)
                             THEN other[i - position] ELSE moved[i]]
    BY <2>3 DEF Overwrite
  <2>6. ASSUME NEW i \in 1..size
        PROVE  (IF position < i /\ i <= position + Len(other)
                THEN other[i - position] ELSE moved[i]) = Spliced[i]
    <3>2. CASE i <= position
      <4>1. ~(position + Len(other) < i) /\ i <= Len(s)
        BY <1>1, <3>2
      <4>2. moved[i] = grown[i]
        BY <2>2, <4>1
      <4>3. moved[i] = s[i]
        BY <2>1, <4>1, <4>2
      <4>4. QED
        BY <1>1, <3>2, <4>3
    <3>3. CASE position < i /\ i <= position + Len(other)
      BY <1>1, <3>3
    <3>4. CASE position + Len(other) < i
      <4>1. position + n + (i - (position + Len(other))) = (i - Len(other)) + n
        BY <1>1
      <4>2. moved[i] = grown[(i - Len(other)) + n]
        BY <1>1, <2>2, <3>4, <4>1
      <4>3. (i - Len(other)) + n \in 1..size /\ (i - Len(other)) + n <= Len(s)
        BY <1>1, <1>3, <3>4
      <4>4. moved[i] = s[(i - Len(other)) + n]
        BY <2>1, <4>2, <4>3
      <4>5. QED
        BY <1>1, <3>4, <4>4
    <3>5. QED
      BY <1>1, <3>2, <3>3, <3>4
  <2>7. QED
    BY <2>4, <2>5, <2>6
<1>4. CASE n = Len(other)
  <2>1. size = Len(s)
    BY <1>1, <1>4
  <2>2. ReplaceSection(s, position, n, other, zero) = Overwrite(s, position, other)
    BY <1>1, <1>4 DEF ReplaceSection
  <2>3. Overwrite(s, position, other) =
          [i \in 1..size |-> IF position < i /\ i <= position + Len(other)
                             THEN other[i - position] ELSE s[i]]
    BY <2>1 DEF Overwrite
  <2>4. ASSUME NEW i \in 1..size
        PROVE  (IF position < i /\ i <= position + Len(other)
                THEN other[i - position] ELSE s[i]) = Spliced[i]
    <3>1. (i - Len(other)) + n = i
      BY <1>1, <1>4
    <3>2. QED
      BY <1>1, <3>1
  <2>5. QED
    BY <2>2, <2>3, <2>4
<1>5. QED
  BY <1>1, <1>2, <1>3, <1>4
-----------------------------------------------------------------------------
(* io_buffer *)

CONSTANT Capacity  \* the size of buffer_
Buffer == INSTANCE IoBuffer

\* A buffer by its parts.
LEMMA BufferOf ==
  ASSUME Capacity \in Nat, NEW s \in Seq(Byte), NEW n \in Nat, n <= Len(s), Len(s) <= Capacity
  PROVE  /\ [bytes |-> s, begin |-> n] \in Buffer!Buffers
         /\ Buffer!Size([bytes |-> s, begin |-> n]) = Len(s) - n
         /\ Buffer!Space([bytes |-> s, begin |-> n]) = Capacity - Len(s)
         /\ Buffer!Unread([bytes |-> s, begin |-> n]) = SubSeq(s, n + 1, Len(s))
BY DEF Buffer!Buffers, Buffer!Size, Buffer!Space, Buffer!Unread

\* The parts of a buffer.
LEMMA BufferParts ==
  ASSUME Capacity \in Nat, NEW b \in Buffer!Buffers
  PROVE  /\ b.bytes \in Seq(Byte) /\ b.begin \in Nat /\ Len(b.bytes) \in Nat
         /\ b.begin <= Len(b.bytes) /\ Len(b.bytes) <= Capacity
         /\ b = [bytes |-> b.bytes, begin |-> b.begin]
BY DEF Buffer!Buffers

LEMMA ClearedBuffer ==
  ASSUME Capacity \in Nat
  PROVE  /\ Buffer!Cleared \in Buffer!Buffers /\ Buffer!Size(Buffer!Cleared) = 0
         /\ Buffer!Space(Buffer!Cleared) = Capacity /\ Buffer!Unread(Buffer!Cleared) = <<>>
<1>1. <<>> \in Seq(Byte) /\ Len(<<>>) = 0
  BY EmptySeq
<1>2. SubSeq(<<>>, 0 + 1, 0) = <<>>
  BY SubSeqEmpty
<1>3. QED
  BY <1>1, <1>2 DEF Buffer!Cleared, Buffer!Buffers, Buffer!Size, Buffer!Space, Buffer!Unread

\* Consuming count bytes leaves the others, in order; the asserted count keeps the
\* offsets within the buffer.
THEOREM ConsumeDropsFirst ==
  ASSUME Capacity \in Nat, NEW b \in Buffer!Buffers, NEW count \in 0..Buffer!Size(b)
  PROVE  /\ Buffer!Consume(b, count) \in Buffer!Buffers
         /\ Buffer!Size(Buffer!Consume(b, count)) = Buffer!Size(b) - count
         /\ Buffer!Unread(Buffer!Consume(b, count)) = SubSeq(b.bytes, b.begin + count + 1, Len(b.bytes))
<1>1. b.bytes \in Seq(Byte) /\ b.begin \in Nat /\ Len(b.bytes) \in Nat
      /\ b.begin <= Len(b.bytes) /\ Len(b.bytes) <= Capacity
      /\ b = [bytes |-> b.bytes, begin |-> b.begin]
  BY BufferParts
<1>2. count \in Nat /\ b.begin + count <= Len(b.bytes)
  BY <1>1 DEF Buffer!Size
<1>3. CASE b.begin + count = Len(b.bytes)
  <2>1. Buffer!Consume(b, count) = Buffer!Cleared
    BY <1>3 DEF Buffer!Consume
  <2>2. SubSeq(b.bytes, b.begin + count + 1, Len(b.bytes)) = <<>>
    BY <1>1, <1>2, <1>3, SubSeqEmpty
  <2>3. Buffer!Size(b) - count = 0
    BY <1>1, <1>2, <1>3 DEF Buffer!Size
  <2>4. QED
    BY <2>1, <2>2, <2>3, ClearedBuffer
<1>4. CASE b.begin + count # Len(b.bytes)
  <2>1. Buffer!Consume(b, count) = [bytes |-> b.bytes, begin |-> b.begin + count]
    BY <1>4 DEF Buffer!Consume
  <2>2. b.begin + count \in Nat /\ Len(b.bytes) - (b.begin + count) = Buffer!Size(b) - count
    BY <1>1, <1>2 DEF Buffer!Size
  <2>3. QED
    BY <1>1, <1>2, <2>1, <2>2, BufferOf
<1>5. QED
  BY <1>3, <1>4

\* Producing appends to the unread data, whatever was consumed before.
THEOREM ProduceAppends ==
  ASSUME Capacity \in Nat, NEW b \in Buffer!Buffers, NEW data \in Seq(Byte), Len(data) <= Buffer!Space(b)
  PROVE  /\ Buffer!Produce(b, data) \in Buffer!Buffers
         /\ Buffer!Space(Buffer!Produce(b, data)) = Buffer!Space(b) - Len(data)
         /\ Buffer!Unread(Buffer!Produce(b, data)) = Buffer!Unread(b) \o data
<1>1. b.bytes \in Seq(Byte) /\ b.begin \in Nat /\ Len(b.bytes) \in Nat
      /\ b.begin <= Len(b.bytes) /\ Len(b.bytes) <= Capacity /\ Len(data) \in Nat
      /\ b = [bytes |-> b.bytes, begin |-> b.begin]
  BY BufferParts, LenProperties
<1> DEFINE all == b.bytes \o data
<1>2. Buffer!Produce(b, data) = [bytes |-> all, begin |-> b.begin]
  BY DEF Buffer!Produce
<1>3. /\ all \in Seq(Byte) /\ Len(all) = Len(b.bytes) + Len(data)
      /\ \A i \in 1..(Len(b.bytes) + Len(data)) :
           all[i] = IF i <= Len(b.bytes) THEN b.bytes[i] ELSE data[i - Len(b.bytes)]
  BY <1>1, ConcatProperties
<1> HIDE DEF all
<1>4. SubSeq(all, b.begin + 1, Len(all)) = SubSeq(b.bytes, b.begin + 1, Len(b.bytes)) \o data
  <2> DEFINE left == SubSeq(all, b.begin + 1, Len(all))
             kept == SubSeq(b.bytes, b.begin + 1, Len(b.bytes))
  <2>1. /\ left \in Seq(Byte) /\ Len(left) = Len(all) - b.begin
        /\ \A i \in 1..(Len(all) - b.begin) : left[i] = all[b.begin + i]
    BY <1>1, <1>3, SubSeqProperties, Z3T(30)
  <2>2. /\ kept \in Seq(Byte) /\ Len(kept) = Len(b.bytes) - b.begin
        /\ \A i \in 1..(Len(b.bytes) - b.begin) : kept[i] = b.bytes[b.begin + i]
    BY <1>1, SubSeqProperties, Z3T(30)
  <2> HIDE DEF left, kept
  <2>3. /\ kept \o data \in Seq(Byte) /\ Len(kept \o data) = Len(kept) + Len(data)
        /\ \A i \in 1..(Len(kept) + Len(data)) :
             (kept \o data)[i] = IF i <= Len(kept) THEN kept[i] ELSE data[i - Len(kept)]
    BY <2>2, ConcatProperties
  <2>4. Len(left) = Len(kept \o data)
    BY <1>1, <1>3, <2>1, <2>2, <2>3
  <2>5. ASSUME NEW i \in 1..Len(left) PROVE left[i] = (kept \o data)[i]
    <3>1. i \in Int /\ 1 <= i /\ i <= Len(b.bytes) + Len(data) - b.begin
          /\ left[i] = all[b.begin + i]
      BY <1>1, <1>3, <2>1
    <3>2. b.begin + i \in 1..(Len(b.bytes) + Len(data)) /\ i \in 1..(Len(kept) + Len(data))
      BY <1>1, <2>2, <3>1
    <3>3. CASE i <= Len(kept)
      <4>1. (kept \o data)[i] = kept[i] /\ kept[i] = b.bytes[b.begin + i]
        BY <1>1, <2>2, <2>3, <3>1, <3>2, <3>3
      <4>2. all[b.begin + i] = b.bytes[b.begin + i]
        BY <1>1, <1>3, <2>2, <3>1, <3>2, <3>3
      <4>3. QED
        BY <3>1, <4>1, <4>2
    <3>4. CASE ~(i <= Len(kept))
      <4>1. (kept \o data)[i] = data[i - Len(kept)]
        BY <2>3, <3>2, <3>4
      <4>2. all[b.begin + i] = data[b.begin + i - Len(b.bytes)]
        BY <1>1, <1>3, <2>2, <3>1, <3>2, <3>4, SMTT(30)
      <4>3. b.begin + i - Len(b.bytes) = i - Len(kept)
        BY <1>1, <2>2, <3>1
      <4>4. QED
        BY <3>1, <4>1, <4>2, <4>3
    <3>5. QED
      BY <3>3, <3>4
  <2>6. left = kept \o data
    BY <2>1, <2>3, <2>4, <2>5, SeqEqual
  <2>7. QED
    BY <2>6 DEF left, kept
<1>5. b.begin <= Len(all) /\ Len(all) <= Capacity
      /\ Capacity - Len(all) = Buffer!Space(b) - Len(data)
  BY <1>1, <1>3 DEF Buffer!Space
<1>6. QED
  <2>1. /\ Buffer!Produce(b, data) \in Buffer!Buffers
        /\ Buffer!Space(Buffer!Produce(b, data)) = Capacity - Len(all)
        /\ Buffer!Unread(Buffer!Produce(b, data)) = SubSeq(all, b.begin + 1, Len(all))
    BY <1>1, <1>2, <1>3, <1>5, BufferOf
  <2>2. Buffer!Unread(b) = SubSeq(b.bytes, b.begin + 1, Len(b.bytes))
    BY DEF Buffer!Unread
  <2>3. QED
    BY <1>4, <1>5, <2>1, <2>2

\* crunch() loses nothing unread, and makes the consumed bytes free again.
THEOREM CrunchKeepsUnread ==
  ASSUME Capacity \in Nat, NEW b \in Buffer!Buffers
  PROVE  /\ Buffer!Crunch(b) \in Buffer!Buffers
         /\ Buffer!Unread(Buffer!Crunch(b)) = Buffer!Unread(b)
         /\ Buffer!Space(Buffer!Crunch(b)) = Capacity - Buffer!Size(b)
<1>1. b.bytes \in Seq(Byte) /\ b.begin \in Nat /\ Len(b.bytes) \in Nat
      /\ b.begin <= Len(b.bytes) /\ Len(b.bytes) <= Capacity
  BY DEF Buffer!Buffers
<1>2. CASE b.begin = 0
  BY <1>1, <1>2 DEF Buffer!Crunch, Buffer!Space, Buffer!Size
<1>3. CASE b.begin # 0 /\ Buffer!IsEmpty(b)
  <2>1. Buffer!Crunch(b) = Buffer!Cleared
    BY <1>3 DEF Buffer!Crunch
  <2>2. Buffer!Unread(b) = <<>> /\ Buffer!Size(b) = 0
    BY <1>1, <1>3, SubSeqEmpty DEF Buffer!Unread, Buffer!IsEmpty, Buffer!Size
  <2>3. QED
    BY <2>1, <2>2, ClearedBuffer
<1>4. CASE b.begin # 0 /\ ~Buffer!IsEmpty(b)
  <2> DEFINE u == Buffer!Unread(b)
  <2>1. Buffer!Crunch(b) = [bytes |-> u, begin |-> 0]
    BY <1>4 DEF Buffer!Crunch
  <2>2. u \in Seq(Byte) /\ Len(u) = Len(b.bytes) - b.begin
    <3>1. \A i \in (b.begin + 1)..Len(b.bytes) : b.bytes[i] \in Byte
      BY <1>1
    <3>2. /\ u \in Seq(Byte)
          /\ Len(u) = IF b.begin + 1 <= Len(b.bytes)
                       THEN Len(b.bytes) - (b.begin + 1) + 1 ELSE 0
      BY <1>1, <3>1, SubSeqProperties DEF Buffer!Unread
    <3>3. QED
      BY <1>1, <3>2
  <2> HIDE DEF u
  <2>3. SubSeq(u, 0 + 1, Len(u)) = u
    BY <2>2, SubSeqFull
  <2>4. /\ Buffer!Crunch(b) \in Buffer!Buffers /\ Buffer!Unread(Buffer!Crunch(b)) = u
        /\ Buffer!Space(Buffer!Crunch(b)) = Capacity - Buffer!Size(b)
    <3>1. 0 <= Len(u) /\ Len(u) <= Capacity /\ Len(u) - 0 = Buffer!Size(b)
      BY <1>1, <2>2 DEF Buffer!Size
    <3>2. /\ [bytes |-> u, begin |-> 0] \in Buffer!Buffers
          /\ Buffer!Space([bytes |-> u, begin |-> 0]) = Capacity - Len(u)
          /\ Buffer!Unread([bytes |-> u, begin |-> 0]) = SubSeq(u, 0 + 1, Len(u))
      BY <2>2, <3>1, BufferOf, Zenon
    <3>3. Capacity - Len(u) = Capacity - Buffer!Size(b)
      BY <2>2, <3>1 DEF Buffer!Size
    <3>4. QED
      BY <2>1, <2>3, <3>2, <3>3, Zenon
  <2>5. QED
    BY <2>4 DEF u
<1>5. QED
  BY <1>2, <1>3, <1>4
=============================================================================
