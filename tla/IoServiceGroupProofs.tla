------------------------- MODULE IoServiceGroupProofs -------------------------
(***************************************************************************)
(* Theorems about io_service_group, for any number of sessions and any     *)
(* sizes of the pools: a graceful stop loses no handler but those of an    *)
(* io_service that the work pool added, and returns only when every        *)
(* session has run its last handler.                                       *)
(***************************************************************************)
EXTENDS IoServiceGroup, TLAPS

\* start() has reached the pool in this round: the threads that run are this
\* round's, and so is what idle_ says.
Started(p) ==
  pc.step \notin IF p = "work" THEN {"stopped", "start_work"}
                 ELSE {"stopped", "start_work", "start_io"}

\* The pool has its work objects, so that no thread of it can leave run().
Open(p) ==
  pc.step \in IF p = "work" THEN {"start_io", "running", "clear_work"}
              ELSE {"running", "clear_work", "join_work", "clear_io"}

\* wait() has joined the threads of the pool.
Joined(p) ==
  pc.step \in IF p = "work" THEN {"clear_io", "join_io", "check", "stopped", "start_work"}
              ELSE {"check", "stopped", "start_work", "start_io"}

\* Where the threads are while start() and stop() go through the pools.
Threads ==
  /\ \A p \in Pools : running[p] \subseteq 1..size[p]
  /\ \A p \in Pools : Open(p) => work[p] /\ p \notin halted /\ running[p] = 1..size[p]
  /\ \A p \in Pools : Joined(p) => running[p] = {}
  /\ \A p \in Pools : p \in halted /\ Started(p) => force
  /\ accepting # {} => pc.step = "running"

\* Only the work pool grows, and a queued handler stands on an io_service its pool has.
Places ==
  /\ size["io"] = InitSize /\ InitSize <= size["work"]
  /\ \A s \in Sessions : token[s] \in Pools =>
       /\ togo[s] > 0 /\ home[s]["io"] <= InitSize /\ home[s][token[s]] <= size[token[s]]

\* A thread that ran something is still running, or has cleared idle_.
Reported == \A p \in Pools : idle[p] => ran[p] \subseteq running[p]

\* As long as no pool has run anything in a round, no queue is left without a thread:
\* a thread leaves only an empty queue, and nobody fills it behind its back.
Undisturbed == \A p \in Pools : Started(p) /\ idle[p] /\ ran[p] = {}
NothingMissed ==
  ~force /\ Undisturbed =>
    \A s \in Sessions : token[s] \in Pools => home[s][token[s]] \in running[token[s]]

GroupInv == OnlyGrownLoses /\ Threads /\ Places /\ Reported /\ NothingMissed

LEMMA ServicesRange == Services = 1..High /\ 1..InitSize \subseteq Services /\ 1 \in Services /\ InitSize \in Services
<1>1. \A i \in 1..InitSize : i \in 1..High BY IoServiceGroupAssumption, SMT
<1>2. 1 \in 1..High /\ InitSize \in 1..High BY IoServiceGroupAssumption, SMT
<1>3. QED BY <1>1, <1>2 DEF Services

\* A step of pc within start() or stop().
LEMMA PcMoves ==
  ASSUME TypeOK, NEW next \in Steps, pc' = [pc EXCEPT !.step = next]
  PROVE pc' \in [step : Steps, stopping : BOOLEAN]
<1>1. pc \in [step : Steps, stopping : BOOLEAN] BY DEF TypeOK
<1>2. pc' = [step |-> next, stopping |-> pc.stopping] BY <1>1, SMT
<1>3. pc.stopping \in BOOLEAN BY <1>1, SMT
<1>4. QED BY <1>2, <1>3, Zenon

LEMMA GroupInit == Init => GroupInv
<1> SUFFICES ASSUME Init PROVE GroupInv OBVIOUS
<1>1. OnlyGrownLoses
  <2>1. pc \in [step : Steps, stopping : BOOLEAN] BY SMT DEF Init, Steps
  <2>2. size \in [Pools -> Services] /\ home \in [Sessions -> [Pools -> Services]]
    BY ServicesRange, SMT DEF Init
  <2>3. togo \in [Sessions -> 0..MaxHandlers] /\ starts \in Nat
    BY IoServiceGroupAssumption, SMT DEF Init
  <2>4. running \in [Pools -> SUBSET Services] /\ ran \in [Pools -> SUBSET Services]
        /\ token \in [Sessions -> Pools \cup {"new", "done", "lost"}]
        /\ work \in [Pools -> BOOLEAN] /\ idle \in [Pools -> BOOLEAN]
    BY SMT DEF Init
  <2>5. TypeOK BY <2>1, <2>2, <2>3, <2>4 DEF Init, TypeOK
  <2>6. QED BY <2>5, SMT DEF Init, OnlyGrownLoses
<1>2. Threads BY SMT DEF Init, Threads, Open, Joined, Started, Pools
<1>3. Places BY IoServiceGroupAssumption, SMT DEF Init, Places, Pools
<1>4. Reported BY SMT DEF Init, Reported, Pools
<1>5. NothingMissed BY SMT DEF Init, NothingMissed, Pools
<1>6. QED BY <1>1, <1>2, <1>3, <1>4, <1>5 DEF GroupInv

\* set, and the calls of start and stop, which move pc alone.
LEMMA CallKeeps == ASSUME GroupInv, SetForce \/ GroupStart \/ GroupStop PROVE GroupInv'
<1> USE DEF sessionsUnchanged
<1>1. OnlyGrownLoses'
  <2>1. CASE SetForce BY <2>1, SMT DEF SetForce, GroupInv, OnlyGrownLoses, TypeOK
  <2>2. CASE GroupStart BY <2>2, SMT DEF GroupStart, GroupInv, OnlyGrownLoses, TypeOK, Steps
  <2>3. CASE GroupStop BY <2>3, SMT DEF GroupStop, GroupInv, OnlyGrownLoses, TypeOK, Steps
  <2>4. QED BY <2>1, <2>2, <2>3
<1>2. Threads'
  BY SMT DEF SetForce, GroupStart, GroupStop, GroupInv, OnlyGrownLoses, TypeOK, Threads,
             Started, Open, Joined, Pools
<1>3. Places'
  BY SMT DEF SetForce, GroupStart, GroupStop, GroupInv, Places
<1>4. Reported'
  BY SMT DEF SetForce, GroupStart, GroupStop, GroupInv, Reported
<1>5. NothingMissed'
  BY SMT DEF SetForce, GroupStart, GroupStop, GroupInv, OnlyGrownLoses, TypeOK, Threads, Places,
             NothingMissed, Undisturbed, Started, Open, Pools
<1>6. QED BY <1>1, <1>2, <1>3, <1>4, <1>5 DEF GroupInv

\* start() of a pool.  What it destroys is a handler on an io_service beyond the
\* initial size, which only the work pool has.
LEMMA StartKeeps == ASSUME GroupInv, Starting PROVE GroupInv'
<1> USE DEF Starting, StartWork, StartIo, PoolStart
<1>1. OnlyGrownLoses'
  <2>1. ASSUME NEW p \in Pools, NEW next \in Steps, PoolStart(p, next) PROVE TypeOK'
    <3> USE <2>1 DEF GroupInv, OnlyGrownLoses
    <3>1. pc' \in [step : Steps, stopping : BOOLEAN] BY PcMoves
    <3>2. size' \in [Pools -> Services] BY ServicesRange, SMT DEF TypeOK
    <3>3. running' \in [Pools -> SUBSET Services] /\ ran' \in [Pools -> SUBSET Services]
      BY ServicesRange, SMT DEF TypeOK
    <3>4. token' \in [Sessions -> Pools \cup {"new", "done", "lost"}] BY SMT DEF TypeOK
    <3>5. idle' \in [Pools -> BOOLEAN] /\ work' \in [Pools -> BOOLEAN] /\ halted' \subseteq Pools
      BY SMT DEF TypeOK
    <3>6. QED BY <3>1, <3>2, <3>3, <3>4, <3>5, SMT DEF TypeOK
  <2>2. TypeOK' BY <2>1, SMT DEF Pools, Steps
  <2>3. ASSUME NEW s \in Sessions, token[s]' = "lost" PROVE home[s]["work"]' > InitSize
    <3>1. home' = home BY SMT
    <3>2. CASE token[s] = "lost" BY <3>1, <3>2, SMT DEF GroupInv, OnlyGrownLoses
    <3>3. CASE token[s] # "lost"
      <4>1. PICK p \in Pools : token[s] = p /\ home[s][p] > InitSize
        BY <2>3, <3>3, SMT DEF Pools, GroupInv, OnlyGrownLoses, TypeOK
      <4>2. home[s]["io"] <= InitSize /\ home[s]["io"] \in Nat /\ InitSize \in Nat
        BY <4>1, IoServiceGroupAssumption, SMT
        DEF GroupInv, Places, OnlyGrownLoses, TypeOK, Services, Pools
      <4>3. p = "work" BY <4>1, <4>2, SMT DEF Pools
      <4>4. QED BY <3>1, <4>1, <4>3
    <3>4. QED BY <3>2, <3>3
  <2>4. QED BY <2>2, <2>3 DEF OnlyGrownLoses
<1>2. Threads'
  BY IoServiceGroupAssumption, SMTT(30) DEF GroupInv, OnlyGrownLoses, TypeOK, Threads,
     Started, Open, Joined, Pools, Steps
<1>3. Places'
  BY IoServiceGroupAssumption, SMT DEF GroupInv, OnlyGrownLoses, TypeOK, Places, Pools, Services
<1>4. Reported'
  BY SMT DEF GroupInv, OnlyGrownLoses, TypeOK, Reported, Pools
<1>5. NothingMissed'
  <2>1. CASE StartWork
    BY <2>1, SMT DEF NothingMissed, Undisturbed, Started, Pools, GroupInv, OnlyGrownLoses, TypeOK
  <2>2. CASE StartIo
    <3>1. ASSUME NEW s \in Sessions, token[s]' \in Pools
          PROVE home[s][token[s]]' \in running[token[s]]'
      <4>1. home' = home /\ token[s]' = token[s]
        BY <2>2, <3>1, SMT DEF Pools, GroupInv, OnlyGrownLoses, TypeOK
      <4>2. home[s][token[s]] \in Services /\ home[s][token[s]] <= size[token[s]]
        BY <3>1, <4>1, SMT DEF GroupInv, Places, OnlyGrownLoses, TypeOK
      <4>3. CASE token[s] = "io"
        <5>1. home[s]["io"] \in 1..InitSize /\ running'["io"] = 1..InitSize
          BY <2>2, <4>2, <4>3, IoServiceGroupAssumption, SMT
          DEF GroupInv, Places, OnlyGrownLoses, TypeOK, Pools, Services
        <5>2. QED BY <4>1, <4>3, <5>1
      <4>4. CASE token[s] = "work"
        <5>1. running'["work"] = 1..size["work"]
          BY <2>2, SMT DEF GroupInv, Threads, Open, OnlyGrownLoses, TypeOK, Pools
        <5>2. home[s]["work"] \in 1..size["work"]
          BY <4>2, <4>4, IoServiceGroupAssumption, SMT DEF Services, GroupInv, OnlyGrownLoses, TypeOK, Pools
        <5>3. QED BY <4>1, <4>4, <5>1, <5>2
      <4>5. QED BY <3>1, <4>1, <4>3, <4>4 DEF Pools
    <3>2. QED BY <3>1 DEF NothingMissed
  <2>3. QED BY <2>1, <2>2
<1>6. QED BY <1>1, <1>2, <1>3, <1>4, <1>5 DEF GroupInv

LEMMA AcceptBeginKeeps == ASSUME GroupInv, NEW s \in Sessions, AcceptBegin(s) PROVE GroupInv'
<1> USE DEF AcceptBegin
<1>1. OnlyGrownLoses' BY SMT DEF GroupInv, OnlyGrownLoses, TypeOK
<1>2. Threads' BY SMT DEF GroupInv, Threads, Started, Open, Joined
<1>3. Places' BY SMT DEF GroupInv, Places
<1>4. Reported' BY SMT DEF GroupInv, Reported
<1>5. NothingMissed' BY SMT DEF GroupInv, NothingMissed, Undisturbed, Started
<1>6. QED BY <1>1, <1>2, <1>3, <1>4, <1>5 DEF GroupInv

\* get_io_service(load): the pool may grow by one io_service, whose thread starts.
LEMMA AcceptEndKeeps == ASSUME GroupInv, NEW s \in Sessions, AcceptEnd(s) PROVE GroupInv'
<1> USE DEF AcceptEnd
<1>1. OnlyGrownLoses'
  BY IoServiceGroupAssumption, SMTT(30) DEF GroupInv, OnlyGrownLoses, TypeOK, Pools, Services
<1>2. Threads'
  <2>1. pc.step = "running" /\ pc' = pc /\ halted' = halted /\ work' = work /\ accepting' = {} /\ force' = force
    BY SMT DEF GroupInv, Threads
  <2>2. \A p \in Pools : Open(p) /\ ~Joined(p)
    BY <2>1, SMT DEF Open, Joined, Pools
  <2>3. \A p \in Pools : running'[p] = 1..size'[p]
    <3>1. running["io"] = 1..size["io"] /\ running["work"] = 1..size["work"] /\ size["work"] \in Nat
      BY <2>2, IoServiceGroupAssumption, SMT
      DEF GroupInv, Threads, Pools, OnlyGrownLoses, TypeOK, Services
    <3>2. 1..size["work"] \cup {size["work"] + 1} = 1..(size["work"] + 1)
      BY <3>1, SMT
    <3>3. CASE size' = [size EXCEPT !["work"] = size["work"] + 1]
               /\ running' = [running EXCEPT !["work"] = @ \cup {size["work"] + 1}]
      <4>1. size'["io"] = size["io"] /\ running'["io"] = running["io"]
            /\ size'["work"] = size["work"] + 1
            /\ running'["work"] = running["work"] \cup {size["work"] + 1}
        BY <3>3, SMT DEF GroupInv, OnlyGrownLoses, TypeOK, Pools
      <4>2. QED BY <3>1, <3>2, <4>1 DEF Pools
    <3>4. CASE UNCHANGED <<size, running>> BY <3>1, <3>4 DEF Pools
    <3>5. QED BY <3>3, <3>4, SMT
  <2>4. \A p \in Pools : Open(p)' /\ ~Joined(p)'
    BY <2>1, SMT DEF Open, Joined, Pools
  <2>5. \A p \in Pools : work[p] /\ p \notin halted
    BY <2>2 DEF GroupInv, Threads
  <2>6. QED BY <2>1, <2>3, <2>4, <2>5 DEF Threads
<1>3. Places'
  BY IoServiceGroupAssumption, SMTT(30)
  DEF GroupInv, OnlyGrownLoses, TypeOK, Threads, Places, Pools, Services
<1>4. Reported'
  BY IoServiceGroupAssumption, SMTT(30) DEF GroupInv, OnlyGrownLoses, TypeOK, Reported, Pools
<1>5. NothingMissed'
  BY <1>1, <1>2, <1>3, IoServiceGroupAssumption, SMTT(30)
  DEF GroupInv, OnlyGrownLoses, TypeOK, Threads, Places, NothingMissed, Open, Pools, Services
<1>6. QED BY <1>1, <1>2, <1>3, <1>4, <1>5 DEF GroupInv

\* A thread runs a handler: the round is no longer undisturbed.
LEMMA RunKeeps ==
  ASSUME GroupInv, NEW p \in Pools, NEW i \in Services, RunHandler(p, i) PROVE GroupInv'
<1> USE DEF RunHandler, Queued, QueuedAt, Other
<1>1. OnlyGrownLoses'
  BY IoServiceGroupAssumption, SMTT(30) DEF GroupInv, OnlyGrownLoses, TypeOK, Places, Pools, Services
<1>2. Threads' BY SMT DEF GroupInv, Threads, Started, Open, Joined
<1>3. Places'
  BY IoServiceGroupAssumption, SMTT(30) DEF GroupInv, OnlyGrownLoses, TypeOK, Places, Pools, Services
<1>4. Reported' BY SMT DEF GroupInv, OnlyGrownLoses, TypeOK, Reported
<1>5. NothingMissed'
  <2>1. ran'[p] # {} BY SMT DEF GroupInv, OnlyGrownLoses, TypeOK
  <2>2. QED BY <2>1 DEF NothingMissed, Undisturbed
<1>6. QED BY <1>1, <1>2, <1>3, <1>4, <1>5 DEF GroupInv

\* A thread leaves run(): its queue is empty, unless the group was stopped by force.
LEMMA ExitKeeps ==
  ASSUME GroupInv, NEW p \in Pools, NEW i \in Services, ThreadExit(p, i) PROVE GroupInv'
<1> USE DEF ThreadExit, sessionsUnchanged
<1>1. OnlyGrownLoses' BY SMTT(30) DEF GroupInv, OnlyGrownLoses, TypeOK
<1>2. Threads'
  BY SMTT(30) DEF GroupInv, OnlyGrownLoses, TypeOK, Threads, Started, Open, Joined
<1>3. Places' BY SMT DEF GroupInv, Places
<1>4. Reported'
  <2> SUFFICES ASSUME NEW q \in Pools, idle'[q] PROVE ran'[q] \subseteq running'[q] BY DEF Reported
  <2>1. CASE q = p
    <3>1. idle'[p] = (idle[p] /\ i \notin ran[p]) /\ running'[p] = running[p] \ {i} /\ ran' = ran
      BY SMT DEF GroupInv, OnlyGrownLoses, TypeOK
    <3>2. idle[p] /\ i \notin ran[p] BY <2>1, <3>1, Zenon
    <3>3. ran[p] \subseteq running[p] BY <3>2 DEF GroupInv, Reported
    <3>4. QED BY <2>1, <3>1, <3>2, <3>3
  <2>2. CASE q # p
    <3>1. idle'[q] = idle[q] /\ running'[q] = running[q] /\ ran' = ran
      BY <2>2, SMT DEF GroupInv, OnlyGrownLoses, TypeOK
    <3>2. QED BY <3>1 DEF GroupInv, Reported
  <2>3. QED BY <2>1, <2>2
<1>5. NothingMissed'
  <2> SUFFICES ASSUME ~force', Undisturbed', NEW s \in Sessions, token'[s] \in Pools
               PROVE home'[s][token'[s]] \in running'[token'[s]]
    BY Zenon DEF NothingMissed
  <2>1. \A q \in Pools : Started(q) /\ ran[q] = {} BY SMT DEF Undisturbed, Started
  <2>2. \A q \in Pools : idle[q] /\ (q # p => running'[q] = running[q])
    BY SMT DEF Undisturbed, GroupInv, OnlyGrownLoses, TypeOK
  <2>3. home[s][token[s]] \in running[token[s]]
    BY <2>1, <2>2, SMT DEF GroupInv, NothingMissed, Undisturbed
  <2>4. QueuedAt(p, i) = {}
    BY <2>1, SMT DEF GroupInv, Threads
  <2>5. token[s] = p => home[s][token[s]] # i BY <2>4, SMT DEF QueuedAt, Queued
  <2>6. running'[p] = running[p] \ {i} BY SMT DEF GroupInv, OnlyGrownLoses, TypeOK
  <2>7. QED BY <2>2, <2>3, <2>5, <2>6, SMT
<1>6. QED BY <1>1, <1>2, <1>3, <1>4, <1>5 DEF GroupInv

\* The steps of stop().
LEMMA StopKeeps == ASSUME GroupInv, Stopping PROVE GroupInv'
<1> USE DEF Stopping, ClearWork, JoinWork, ClearIo, JoinIo, ClearPool, JoinPool, sessionsUnchanged
<1>1. OnlyGrownLoses'
  <2>1. ASSUME NEW p \in Pools, NEW next \in Steps, ClearPool(p, next) \/ JoinPool(p, next)
        PROVE TypeOK'
    <3>1. pc' \in [step : Steps, stopping : BOOLEAN]
      BY <2>1, PcMoves DEF GroupInv, OnlyGrownLoses
    <3>2. work' \in [Pools -> BOOLEAN]
      <4>1. work \in [Pools -> BOOLEAN] BY DEF GroupInv, OnlyGrownLoses, TypeOK
      <4>2. work' = [work EXCEPT ![p] = FALSE] \/ work' = work BY <2>1
      <4>3. [work EXCEPT ![p] = FALSE] \in [Pools -> BOOLEAN] BY <4>1
      <4>4. QED BY <4>1, <4>2, <4>3
    <3>3. halted' \subseteq Pools BY <2>1 DEF GroupInv, OnlyGrownLoses, TypeOK
    <3>4. QED BY <2>1, <3>1, <3>2, <3>3, SMT DEF GroupInv, OnlyGrownLoses, TypeOK
  <2>2. ASSUME Check PROVE TypeOK'
    BY <2>2, SMT DEF Check, GroupInv, OnlyGrownLoses, TypeOK, Steps
  <2>3. TypeOK' BY <2>1, <2>2, SMT DEF Pools, Steps
  <2>4. token' = token /\ home' = home BY SMT DEF Check
  <2>5. QED BY <2>3, <2>4, SMT DEF GroupInv, OnlyGrownLoses
<1>2. Threads'
  BY SMTT(30) DEF Check, GroupInv, OnlyGrownLoses, TypeOK, Threads, Started, Open, Joined, Pools, Steps
<1>3. Places' BY SMT DEF Check, GroupInv, Places
<1>4. Reported' BY SMT DEF Check, GroupInv, Reported
<1>5. NothingMissed'
  BY SMTT(30) DEF Check, GroupInv, OnlyGrownLoses, TypeOK, NothingMissed, Undisturbed, Started, Pools
<1>6. QED BY <1>1, <1>2, <1>3, <1>4, <1>5 DEF GroupInv

LEMMA GroupStep == GroupInv /\ [Next]_vars => GroupInv'
<1> SUFFICES ASSUME GroupInv, [Next]_vars PROVE GroupInv' OBVIOUS
<1>1. CASE UNCHANGED vars
  BY <1>1, SMT DEF vars, GroupInv, OnlyGrownLoses, TypeOK, Threads, Places, Reported, NothingMissed,
                   Undisturbed, Started, Open, Joined
<1>2. CASE SetForce \/ GroupStart \/ GroupStop BY <1>2, CallKeeps
<1>3. CASE Starting BY <1>3, StartKeeps
<1>4. CASE Stopping BY <1>4, StopKeeps
<1>5. CASE \E s \in Sessions : AcceptBegin(s) \/ AcceptEnd(s)
  BY <1>5, AcceptBeginKeeps, AcceptEndKeeps
<1>6. CASE \E p \in Pools, i \in Services : Thread(p, i)
  BY <1>6, RunKeeps, ExitKeeps DEF Thread
<1>7. QED BY <1>1, <1>2, <1>3, <1>4, <1>5, <1>6 DEF Next

LEMMA GroupInvariant == Spec => []GroupInv
BY GroupInit, GroupStep, PTL DEF Spec

\* For every number of sessions, size of the pools and thread load, whichever the
\* mode of each stop: no handler is destroyed before it ran but those of a session
\* that stands on an io_service get_io_service(load) added.
THEOREM GroupLosesOnlyGrown == Spec => []OnlyGrownLoses
<1>1. GroupInv => OnlyGrownLoses BY DEF GroupInv
<1>2. QED BY <1>1, GroupInvariant, PTL

\* When the loop of a graceful stop finds every pool idle, no thread of the last
\* round has run anything, so that none of them left a queue behind it: nothing is
\* queued anywhere.
LEMMA IdleMeansDrained ==
  ASSUME GroupInv, [Next]_vars, pc.step = "check", pc'.step = "stopped", ~force
  PROVE \A s \in Sessions : token[s] \in {"new", "done", "lost"}
<1>1. Check
  <2>1. pc' # pc OBVIOUS
  <2>2. ~SetForce /\ ~GroupStart /\ ~GroupStop /\ ~Starting
        /\ ~ClearWork /\ ~JoinWork /\ ~ClearIo /\ ~JoinIo
    BY DEF SetForce, GroupStart, GroupStop, Starting, StartWork, StartIo,
           ClearWork, JoinWork, ClearIo, JoinIo
  <2>3. ~\E s \in Sessions : AcceptBegin(s) \/ AcceptEnd(s)
    BY <2>1 DEF AcceptBegin, AcceptEnd
  <2>4. ~\E p \in Pools, i \in Services : Thread(p, i)
    BY <2>1 DEF Thread, RunHandler, ThreadExit
  <2>5. ~UNCHANGED vars BY <2>1 DEF vars
  <2>6. QED BY <2>2, <2>3, <2>4, <2>5 DEF Next, Stopping
<1>2. \A p \in Pools : idle[p] BY <1>1, SMT DEF Check
<1>3. \A p \in Pools : running[p] = {} /\ Started(p)
  BY SMT DEF GroupInv, Threads, Joined, Started, Pools
<1>4. Undisturbed BY <1>2, <1>3 DEF GroupInv, Reported, Undisturbed
<1>5. \A s \in Sessions : token[s] \notin Pools BY <1>3, <1>4 DEF GroupInv, NothingMissed
<1>6. QED BY <1>5 DEF GroupInv, OnlyGrownLoses, TypeOK

\* A graceful stop returns only when every session has run its last handler, however
\* many there are and however many threads each pool has.
THEOREM GroupDrains == Spec => Drained
<1>1. GroupInv /\ [Next]_vars =>
        (pc.step = "check" /\ pc'.step = "stopped" /\ ~force =>
           \A s \in Sessions : token[s] \in {"new", "done", "lost"})
  BY IdleMeansDrained
<1>2. QED BY <1>1, GroupInvariant, PTL DEF Spec, Drained
===============================================================================
