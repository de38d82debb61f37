------------------------ MODULE ServiceHandlerProofs ------------------------
(***************************************************************************)
(* Proofs about ServiceHandler: type correctness, StoppedIsQuiet,          *)
(* SessionIsGuarded, ClosedOnce and the refinement of Session.  The second *)
(* half is about EchoClient, the work handler of the echo example's client *)
(* over it.                                                                *)
(***************************************************************************)
EXTENDS EchoClient, TLAPS, FiniteSetTheorems

DataOps == {"read", "write"}
ConnectItems == {"connect_i", "connect"}
DataItems == {"read_i", "write_i", "read", "write"}

\* Before the session starts nothing is queued, pending or armed.
NotStarted ==
  /\ phase \in {"free", "bound"} =>
       ioq = <<>> /\ workq = <<>> /\ pend = {} /\ armed = {} /\ callback = "idle" /\ ~held
  /\ phase \in {"bound", "starting"} => ~opened
  /\ phase = "bound" => ~stopped /\ closed = 0

\* do_close is posted when stopped_ is set, once, and runs once.
CloseStages ==
  /\ \A i, j \in 1..Len(workq) : workq[i] = "close" /\ workq[j] = "close" => i = j
  /\ \A i \in 1..Len(workq) : workq[i] = "close" => stopped /\ closed = 0
  /\ closed > 0 => stopped
  /\ callback = "close" => closed > 0
  /\ stopped /\ closed = 0 /\ phase # "free" => \E i \in 1..Len(workq) : workq[i] = "close"
  /\ closed <= 1

\* A session passes once through connect_i, the pending connect, its completion,
\* the queued do_open and on_open.
OpenStages ==
  /\ \A i, j \in 1..Len(workq) : workq[i] = "open" /\ workq[j] = "open" => i = j
  /\ \A i, j \in 1..Len(ioq) :
       ioq[i].h \in ConnectItems /\ ioq[j].h \in ConnectItems => i = j
  /\ \A i \in 1..Len(workq) : workq[i] = "open" =>
       /\ phase = "run" /\ ~opened /\ "connect" \notin pend
       /\ \A j \in 1..Len(ioq) : ioq[j].h \notin ConnectItems
  /\ \A i \in 1..Len(ioq) : ioq[i].h \in ConnectItems =>
       phase = "run" /\ ~opened /\ "connect" \notin pend
  /\ "connect" \in pend => phase = "run" /\ ~opened

\* connect_i is the first handler of its session on the io thread.
ConnectIsFirst ==
  \A i \in 1..Len(ioq) : ioq[i].h = "connect_i" => i = 1 /\ ~stopped

\* Reads and writes are started by callbacks, after on_open was entered.
DataAfterOpen ==
  /\ pend \cap DataOps # {} => opened
  /\ \A i \in 1..Len(ioq) : ioq[i].h \in DataItems => opened
  /\ \A i \in 1..Len(workq) : workq[i] \in DataOps => opened

IInv == /\ TypeOK /\ NotStarted /\ StoppedIsQuiet /\ CloseStages /\ OpenStages
        /\ ConnectIsFirst /\ DataAfterOpen /\ SessionIsGuarded
-----------------------------------------------------------------------------
(* Lemmas about the queues *)

\* What AbortWaits and AbortOps append: aborted completions of members of S.
LEMMA AbortOneFacts ==
  ASSUME NEW S, NEW x \in IoHandlers
  PROVE  /\ AbortOne(S, x) \in Seq(IoItems)
         /\ Len(AbortOne(S, x)) = IF x \in S THEN 1 ELSE 0
         /\ x \in S => AbortOne(S, x)[1] = Item(x, "aborted")
<1>1. Item(x, "aborted") \in IoItems
  BY DEF Item, IoItems, Results
<1> DEFINE e == Item(x, "aborted")
<1> HIDE DEF e
<1>2. CASE x \in S
  <2>1. AbortOne(S, x) = <<e>>
    BY <1>2 DEF AbortOne, e
  <2> QED  BY <1>2, <2>1, <1>1 DEF e
<1>3. CASE x \notin S
  BY <1>3 DEF AbortOne
<1> QED  BY <1>3, <1>2

LEMMA AbortWaitsFacts ==
  ASSUME NEW S
  PROVE  /\ AbortWaits(S) \in Seq(IoItems)
         /\ \A i \in 1..Len(AbortWaits(S)) :
              AbortWaits(S)[i].h \in S \cap Timers /\ AbortWaits(S)[i].ec = "aborted"
<1>1. "session" \in IoHandlers /\ "io" \in IoHandlers
  BY DEF IoHandlers, Timers
<1> DEFINE a == AbortOne(S, "session")
           b == AbortOne(S, "io")
<1>2. a \in Seq(IoItems) /\ b \in Seq(IoItems)
  BY AbortOneFacts, <1>1
<1>3. Len(a) = (IF "session" \in S THEN 1 ELSE 0) /\ Len(b) = (IF "io" \in S THEN 1 ELSE 0)
  BY AbortOneFacts, <1>1
<1>4. /\ "session" \in S => a[1] = Item("session", "aborted")
      /\ "io" \in S => b[1] = Item("io", "aborted")
  BY AbortOneFacts, <1>1
<1> HIDE DEF a, b
<1> QED
  BY <1>2, <1>3, <1>4 DEF AbortWaits, a, b, Item, Timers

LEMMA AbortOpsFacts ==
  ASSUME NEW S
  PROVE  /\ AbortOps(S) \in Seq(IoItems)
         /\ \A i \in 1..Len(AbortOps(S)) :
              AbortOps(S)[i].h \in S \cap Ops /\ AbortOps(S)[i].ec = "aborted"
         /\ \A i, j \in 1..Len(AbortOps(S)) :
              AbortOps(S)[i].h = AbortOps(S)[j].h => i = j
<1>1. "read" \in IoHandlers /\ "write" \in IoHandlers /\ "connect" \in IoHandlers
  BY DEF IoHandlers, Ops
<1> DEFINE a == AbortOne(S, "read")
           b == AbortOne(S, "write")
           c == AbortOne(S, "connect")
<1>2. a \in Seq(IoItems) /\ b \in Seq(IoItems) /\ c \in Seq(IoItems)
  BY AbortOneFacts, <1>1
<1>3. /\ Len(a) = (IF "read" \in S THEN 1 ELSE 0)
      /\ Len(b) = (IF "write" \in S THEN 1 ELSE 0)
      /\ Len(c) = (IF "connect" \in S THEN 1 ELSE 0)
  BY AbortOneFacts, <1>1
<1>4. /\ "read" \in S => a[1] = Item("read", "aborted")
      /\ "write" \in S => b[1] = Item("write", "aborted")
      /\ "connect" \in S => c[1] = Item("connect", "aborted")
  BY AbortOneFacts, <1>1
<1> HIDE DEF a, b, c
<1>5. AbortOps(S) = (a \o b) \o c
  BY DEF AbortOps, a, b, c
<1>6. AbortOps(S) \in Seq(IoItems) /\ Len(AbortOps(S)) = Len(a) + Len(b) + Len(c)
  BY <1>5, <1>2
<1>7. \A i \in 1..Len(AbortOps(S)) :
        \/ i <= Len(a) /\ AbortOps(S)[i] = a[i]
        \/ i > Len(a) /\ i <= Len(a) + Len(b) /\ AbortOps(S)[i] = b[i - Len(a)]
        \/ i > Len(a) + Len(b) /\ AbortOps(S)[i] = c[i - Len(a) - Len(b)]
  BY <1>5, <1>6
<1>8. \A i \in 1..Len(AbortOps(S)) :
        \/ i <= Len(a) /\ "read" \in S /\ AbortOps(S)[i] = Item("read", "aborted")
        \/ i > Len(a) /\ i <= Len(a) + Len(b) /\ "write" \in S
            /\ AbortOps(S)[i] = Item("write", "aborted")
        \/ i = Len(a) + Len(b) + 1 /\ "connect" \in S
            /\ AbortOps(S)[i] = Item("connect", "aborted")
  BY <1>4, <1>6, <1>7, <1>3
<1>9. \A i \in 1..Len(AbortOps(S)) :
        AbortOps(S)[i].h \in S \cap Ops /\ AbortOps(S)[i].ec = "aborted"
  BY <1>8 DEF Item, Ops
<1>10. Len(a) \in {0, 1} /\ Len(b) \in {0, 1}
  BY <1>3
<1>11. \A i \in 1..Len(AbortOps(S)) :
        \/ i = 1 /\ Len(a) = 1 /\ AbortOps(S)[i].h = "read"
        \/ i = Len(a) + 1 /\ AbortOps(S)[i].h = "write"
        \/ i = Len(a) + Len(b) + 1 /\ AbortOps(S)[i].h = "connect"
  <2>1. Item("read", "aborted").h = "read" /\ Item("write", "aborted").h = "write"
        /\ Item("connect", "aborted").h = "connect"
    BY DEF Item
  <2>2. \A i \in 1..Len(AbortOps(S)) : i \in Int /\ i >= 1
    BY <1>6
  <2>3. PICK m, n : m = Len(a) /\ n = Len(b) /\ m \in {0, 1} /\ n \in {0, 1}
    BY <1>10
  <2> SUFFICES ASSUME NEW i \in 1..Len(AbortOps(S))
               PROVE  \/ i = 1 /\ m = 1 /\ AbortOps(S)[i].h = "read"
                      \/ i = m + 1 /\ AbortOps(S)[i].h = "write"
                      \/ i = m + n + 1 /\ AbortOps(S)[i].h = "connect"
    BY <2>3
  <2>4. \/ i <= m /\ AbortOps(S)[i] = Item("read", "aborted")
        \/ i > m /\ i <= m + n /\ AbortOps(S)[i] = Item("write", "aborted")
        \/ i = m + n + 1 /\ AbortOps(S)[i] = Item("connect", "aborted")
    BY <1>8, <2>3
  <2>5. \A l \in Int : (1 <= l /\ l <= m => l = 1 /\ m = 1) /\ (l > m /\ l <= m + n => l = m + 1)
    BY <2>3
  <2> QED  BY <2>1, <2>2, <2>4, <2>5
<1>12. \A i, j \in 1..Len(AbortOps(S)) : AbortOps(S)[i].h = AbortOps(S)[j].h => i = j
  BY <1>10, <1>11
<1> QED
  BY <1>6, <1>9, <1>12

\* The handler at the head of a queue is replaced by what it appends.
LEMMA TailConcat ==
  ASSUME NEW T, NEW q \in Seq(T), q # <<>>, NEW r \in Seq(T)
  PROVE  /\ Tail(q) \o r \in Seq(T)
         /\ Len(Tail(q) \o r) = Len(q) - 1 + Len(r)
         /\ \A i \in 1..Len(Tail(q) \o r) :
              \/ i \in 1..(Len(q) - 1) /\ i + 1 \in 2..Len(q) /\ (Tail(q) \o r)[i] = q[i + 1]
              \/ i - (Len(q) - 1) \in 1..Len(r) /\ (Tail(q) \o r)[i] = r[i - (Len(q) - 1)]
         /\ \A i \in 2..Len(q) :
              i - 1 \in 1..Len(Tail(q) \o r) /\ (Tail(q) \o r)[i - 1] = q[i]
  OBVIOUS

\* What a step of the io thread may queue behind the remaining handlers.
Aborts(r, P) ==
  /\ r \in Seq(IoItems)
  /\ \A i \in 1..Len(r) : r[i].h \in P \cup Timers /\ r[i].ec = "aborted"
  /\ \A i, j \in 1..Len(r) : r[i].h \in Ops /\ r[i].h = r[j].h => i = j

LEMMA AbortsNone == ASSUME NEW P PROVE Aborts(<<>>, P)
  BY DEF Aborts

LEMMA AbortsWaits ==
  ASSUME NEW S, NEW P
  PROVE  Aborts(AbortWaits(S), P)
<1>1. \A i \in 1..Len(AbortWaits(S)) : AbortWaits(S)[i].h \notin Ops
  BY AbortWaitsFacts DEF Timers, Ops
<1> QED  BY <1>1, AbortWaitsFacts DEF Aborts

LEMMA AbortsThenWaits ==
  ASSUME NEW P \in SUBSET Ops, NEW r, Aborts(r, P), NEW S
  PROVE  Aborts(r \o AbortWaits(S), P)
<1> DEFINE w == AbortWaits(S)
<1>1. w \in Seq(IoItems) /\ r \in Seq(IoItems)
  BY AbortWaitsFacts DEF Aborts
<1>2. \A i \in 1..Len(w) : w[i].h \in Timers /\ w[i].ec = "aborted"
  BY AbortWaitsFacts
<1> HIDE DEF w
<1>3. /\ r \o w \in Seq(IoItems)
      /\ \A i \in 1..Len(r \o w) :
           \/ i \in 1..Len(r) /\ (r \o w)[i] = r[i]
           \/ i > Len(r) /\ i - Len(r) \in 1..Len(w) /\ (r \o w)[i] = w[i - Len(r)]
  BY <1>1
<1>4. \A i \in 1..Len(r \o w) :
        (r \o w)[i].h \in P \cup Timers /\ (r \o w)[i].ec = "aborted"
  BY <1>2, <1>3 DEF Aborts
<1>5. \A i \in 1..Len(r \o w) :
        (r \o w)[i].h \in Ops => i \in 1..Len(r) /\ (r \o w)[i] = r[i]
  BY <1>2, <1>3 DEF Timers, Ops
<1>6. \A i, j \in 1..Len(r \o w) :
        (r \o w)[i].h \in Ops /\ (r \o w)[i].h = (r \o w)[j].h => i = j
  BY <1>5 DEF Aborts
<1> QED  BY <1>3, <1>4, <1>6 DEF Aborts, w

LEMMA AbortsAll ==
  ASSUME NEW P \in SUBSET Ops, NEW S
  PROVE  Aborts(AbortOps(P) \o AbortWaits(S), P)
<1>1. Aborts(AbortOps(P), P)
  BY AbortOpsFacts DEF Aborts
<1> QED  BY AbortsThenWaits, <1>1
-----------------------------------------------------------------------------
(* The shapes of a step of the io thread *)

IoDrop(r) ==
  /\ Aborts(r, {}) /\ Done(r)
  /\ stopped \/ (Head(ioq).h \in Timers \cup {"pause"} /\ Head(ioq).ec = "aborted")
  /\ UNCHANGED <<stopped, pend, armed, workq>>

IoClose(r) ==
  /\ Aborts(r, pend) /\ Done(r)
  /\ ~stopped /\ stopped' = TRUE
  /\ pend' = {} /\ armed' = {}
  /\ workq' = Append(workq, "close")

IoConnect(r) ==
  /\ Aborts(r, {}) /\ Done(r)
  /\ Head(ioq).h = "connect_i"
  /\ pend' = pend \cup {"connect"}
  /\ armed \subseteq armed' /\ armed' \subseteq armed \cup Timers
  /\ SessionTimeout => "session" \in armed'
  /\ UNCHANGED <<stopped, workq>>

IoStart(r, op) ==
  /\ Aborts(r, {}) /\ Done(r)
  /\ ~stopped
  /\ Head(ioq).h = (IF op = "read" THEN "read_i" ELSE "write_i") \/ (Head(ioq).h = "pause" /\ opened)
  /\ pend' = pend \cup {op}
  /\ armed \subseteq armed' /\ armed' \subseteq armed \cup Timers
  /\ UNCHANGED <<stopped, workq>>

IoOpen(r) ==
  /\ Aborts(r, {}) /\ Done(r)
  /\ ~stopped
  /\ Head(ioq).h = "connect"
  /\ armed' \subseteq armed \cup Timers
  /\ SessionTimeout => "session" \in armed'
  /\ workq' = Append(workq, "open")
  /\ UNCHANGED <<stopped, pend>>

IoReport(r, op) ==
  /\ Aborts(r, {}) /\ Done(r)
  /\ ~stopped
  /\ Head(ioq).h = op
  /\ armed' = armed \ {"io"}
  /\ workq' = Append(workq, op)
  /\ UNCHANGED <<stopped, pend>>

IoShape(r) ==
  \/ IoDrop(r) \/ IoClose(r) \/ IoConnect(r) \/ IoOpen(r)
  \/ \E op \in DataOps : IoStart(r, op) \/ IoReport(r, op)

LEMMA CloseIShape ==
  ASSUME TypeOK, CloseI
  PROVE  \E r : IoDrop(r) \/ IoClose(r)
<1>1. CASE stopped
  BY <1>1, AbortsNone DEF CloseI, Drop, IoDrop
<1>2. CASE ~stopped
  BY <1>2, AbortsAll DEF CloseI, IoClose, TypeOK
<1> QED  BY <1>2, <1>1

LEMMA IoStepShape ==
  ASSUME TypeOK, IoThread
  PROVE  ioq # <<>> /\ ioUnchanged /\ \E r : IoShape(r)
<1>1. ASSUME ConnectI
      PROVE  ioq # <<>> /\ ioUnchanged /\ \E r : IoShape(r)
  <2>1. ioq # <<>> /\ ioUnchanged /\ Head(ioq).h = "connect_i"
    BY <1>1 DEF ConnectI, IoHead
  <2>2. CASE CloseI
    BY <2>1, <2>2, CloseIShape DEF IoShape
  <2>3. ASSUME SetExpiry(Timers), pend' = pend \cup {"connect"}, UNCHANGED <<stopped, workq>>
        PROVE  \E r : IoConnect(r)
    BY <2>1, <2>3, AbortsWaits DEF SetExpiry, IoConnect, Enabled, Timers
  <2> QED  BY <1>1, <2>1, <2>2, <2>3 DEF ConnectI, IoShape
<1>2. ASSUME CloseRequest
      PROVE  ioq # <<>> /\ ioUnchanged /\ \E r : IoShape(r)
  BY <1>2, CloseIShape DEF CloseRequest, IoHead, IoShape
<1>3. ASSUME HandleConnect
      PROVE  ioq # <<>> /\ ioUnchanged /\ \E r : IoShape(r)
  <2>1. ioq # <<>> /\ ioUnchanged /\ Head(ioq).h = "connect"
    BY <1>3 DEF HandleConnect, IoHead
  <2>2. CASE stopped
    BY <1>3, <2>1, <2>2, AbortsNone DEF HandleConnect, Drop, IoDrop, IoShape
  <2>3. CASE ~stopped /\ Head(ioq).ec = "ok"
    <3>1. \A S, R : Aborts(AbortWaits(S) \o AbortWaits(R), {})
      BY AbortsThenWaits, AbortsWaits
    <3>2. \E r : IoOpen(r)
      BY <1>3, <2>1, <2>3, <3>1 DEF HandleConnect, IoOpen, Enabled, Timers
    <3> QED  BY <2>1, <3>2 DEF IoShape
  <2>4. CASE ~stopped /\ Head(ioq).ec # "ok"
    BY <1>3, <2>1, <2>4, CloseIShape DEF HandleConnect, IoShape
  <2> QED  BY <2>3, <2>4, <2>2
<1>4. ASSUME NEW op \in DataOps, StartOp(op)
      PROVE  ioq # <<>> /\ ioUnchanged /\ \E r : IoShape(r)
  <2>1. ioq # <<>> /\ ioUnchanged /\ Head(ioq).h = (IF op = "read" THEN "read_i" ELSE "write_i")
    BY <1>4 DEF StartOp, IoHead
  <2>2. CASE stopped
    BY <1>4, <2>1, <2>2, AbortsNone DEF StartOp, Drop, IoDrop, IoShape
  <2>3. CASE ~stopped
    <3>1. \E r : IoStart(r, op)
      BY <1>4, <2>1, <2>3, AbortsWaits DEF StartOp, SetExpiry, IoStart, Timers
    <3> QED  BY <2>1, <3>1 DEF IoShape
  <2> QED  BY <2>3, <2>2
<1>5. ASSUME NEW op \in DataOps, HandleOp(op)
      PROVE  ioq # <<>> /\ ioUnchanged /\ \E r : IoShape(r)
  <2>1. ioq # <<>> /\ ioUnchanged /\ Head(ioq).h = op
    BY <1>5 DEF HandleOp, IoHead
  <2>2. CASE stopped
    BY <1>5, <2>1, <2>2, AbortsNone DEF HandleOp, Drop, IoDrop, IoShape
  <2>3. CASE ~stopped /\ Head(ioq).ec = "ok"
    <3>1. \E r : IoReport(r, op)
      BY <1>5, <2>1, <2>3, AbortsWaits DEF HandleOp, IoReport
    <3> QED  BY <2>1, <3>1 DEF IoShape
  <2>4. CASE ~stopped /\ Head(ioq).ec # "ok"
    BY <1>5, <2>1, <2>4, CloseIShape DEF HandleOp, IoShape
  <2> QED  BY <2>3, <2>4, <2>2
<1>6. ASSUME NEW t \in Timers, HandleTimeout(t)
      PROVE  ioq # <<>> /\ ioUnchanged /\ \E r : IoShape(r)
  <2>1. ioq # <<>> /\ ioUnchanged /\ Head(ioq).h \in Timers
    BY <1>6 DEF HandleTimeout, IoHead
  <2>2. CASE stopped \/ Head(ioq).ec = "aborted"
    BY <1>6, <2>1, <2>2, AbortsNone DEF HandleTimeout, Drop, IoDrop, IoShape
  <2>3. CASE ~(stopped \/ Head(ioq).ec = "aborted")
    BY <1>6, <2>1, <2>3, CloseIShape DEF HandleTimeout, IoShape
  <2> QED  BY <2>3, <2>2
<1> QED
  BY <1>1, <1>2, <1>3, <1>4, <1>5, <1>6 DEF IoThread, DataOps
-----------------------------------------------------------------------------
(* Every step keeps the invariant *)

LEMMA BindKeeps ==
  ASSUME IInv, Bind
  PROVE  IInv'
<1>1. stopped' \in BOOLEAN /\ opened' \in BOOLEAN /\ held' \in BOOLEAN
  BY DEF IInv, TypeOK, Bind
<1>2. ioq' \in Seq(IoItems) /\ workq' \in Seq(WorkHandlers)
  BY DEF IInv, TypeOK, Bind
<1>3. TypeOK'
  BY <1>1 DEF IInv, TypeOK, Bind
<1>4. NotStarted'
  BY DEF IInv, NotStarted, Bind
<1>5. StoppedIsQuiet'
  BY DEF StoppedIsQuiet, Bind
<1>6. CloseStages'
  BY DEF IInv, NotStarted, CloseStages, Bind
<1>7. OpenStages'
  BY DEF IInv, OpenStages, Bind
<1>8. ConnectIsFirst'
  BY DEF IInv, ConnectIsFirst, Bind
<1>9. DataAfterOpen'
  BY DEF IInv, NotStarted, DataAfterOpen, Bind
<1>10. SessionIsGuarded'
  BY DEF SessionIsGuarded, Bind
<1> QED  BY <1>3, <1>4, <1>5, <1>6, <1>7, <1>8, <1>9, <1>10 DEF IInv

LEMMA StartAcceptedKeeps ==
  ASSUME IInv, StartAccepted
  PROVE  IInv'
<1>1. stopped' \in BOOLEAN /\ opened' \in BOOLEAN /\ held' \in BOOLEAN
  BY DEF IInv, TypeOK, StartAccepted
<1>2. ioq' \in Seq(IoItems) /\ workq' \in Seq(WorkHandlers)
  BY DEF IInv, TypeOK, StartAccepted
<1>3. TypeOK'
  BY DEF IInv, TypeOK, StartAccepted, Timers
<1>4. NotStarted'
  BY DEF IInv, NotStarted, StartAccepted
<1>5. StoppedIsQuiet'
  BY DEF IInv, NotStarted, StoppedIsQuiet, StartAccepted
<1>6. CloseStages'
  BY DEF IInv, CloseStages, StartAccepted
<1>7. OpenStages'
  BY DEF IInv, OpenStages, StartAccepted
<1>8. ConnectIsFirst'
  BY DEF IInv, ConnectIsFirst, StartAccepted
<1>9. DataAfterOpen'
  BY DEF IInv, DataAfterOpen, StartAccepted
<1>10. SessionIsGuarded'
  BY DEF SessionIsGuarded, StartAccepted
<1> QED  BY <1>3, <1>4, <1>5, <1>6, <1>7, <1>8, <1>9, <1>10 DEF IInv

LEMMA PostOpenKeeps ==
  ASSUME IInv, PostOpen
  PROVE  IInv'
<1>1. stopped' \in BOOLEAN /\ opened' \in BOOLEAN /\ held' \in BOOLEAN
  BY DEF IInv, TypeOK, PostOpen
<1>2. ioq' \in Seq(IoItems) /\ workq' \in Seq(WorkHandlers)
  BY DEF IInv, TypeOK, PostOpen, WorkHandlers
<1>3. TypeOK'
  BY <1>2 DEF IInv, TypeOK, PostOpen
<1>4. NotStarted'
  BY DEF NotStarted, PostOpen
<1>5. StoppedIsQuiet'
  BY DEF IInv, StoppedIsQuiet, PostOpen
<1>6. CloseStages'
  BY DEF IInv, CloseStages, PostOpen
<1>7. OpenStages'
  BY DEF IInv, NotStarted, OpenStages, PostOpen
<1>8. ConnectIsFirst'
  BY DEF IInv, ConnectIsFirst, PostOpen
<1>9. DataAfterOpen'
  BY DEF IInv, DataAfterOpen, PostOpen, DataOps
<1>10. SessionIsGuarded'
  BY DEF IInv, SessionIsGuarded, PostOpen
<1> QED  BY <1>3, <1>4, <1>5, <1>6, <1>7, <1>8, <1>9, <1>10 DEF IInv

LEMMA AcceptFailsKeeps ==
  ASSUME IInv, AcceptFails
  PROVE  IInv'
<1>1. stopped' \in BOOLEAN /\ opened' \in BOOLEAN /\ held' \in BOOLEAN
  BY DEF IInv, TypeOK, AcceptFails
<1>2. ioq' \in Seq(IoItems) /\ workq' \in Seq(WorkHandlers)
  BY DEF IInv, TypeOK, AcceptFails, Item, IoItems, IoHandlers, Results
<1>3. TypeOK'
  BY <1>2 DEF IInv, TypeOK, AcceptFails
<1>4. NotStarted'
  BY DEF NotStarted, AcceptFails
<1>5. StoppedIsQuiet'
  BY DEF IInv, StoppedIsQuiet, AcceptFails
<1>6. CloseStages'
  BY DEF IInv, CloseStages, AcceptFails
<1>7. OpenStages'
  BY DEF IInv, NotStarted, OpenStages, AcceptFails
<1>8. ConnectIsFirst'
  BY DEF IInv, NotStarted, ConnectIsFirst, AcceptFails
<1>9. DataAfterOpen'
  BY DEF IInv, DataAfterOpen, AcceptFails, Item, DataItems
<1>10. SessionIsGuarded'
  BY DEF SessionIsGuarded, AcceptFails, Item
<1> QED  BY <1>3, <1>4, <1>5, <1>6, <1>7, <1>8, <1>9, <1>10 DEF IInv

LEMMA ConnectKeeps ==
  ASSUME IInv, Connect
  PROVE  IInv'
<1>1. stopped' \in BOOLEAN /\ opened' \in BOOLEAN /\ held' \in BOOLEAN
  BY ServiceHandlerAssumption DEF IInv, TypeOK, Connect
<1>2. ioq' \in Seq(IoItems) /\ workq' \in Seq(WorkHandlers)
  BY DEF IInv, TypeOK, Connect, Item, IoItems, IoHandlers, Results
<1>3. TypeOK'
  BY <1>1, <1>2 DEF IInv, TypeOK, Connect
<1>4. NotStarted'
  BY DEF NotStarted, Connect
<1>5. StoppedIsQuiet'
  BY DEF IInv, StoppedIsQuiet, Connect
<1>6. CloseStages'
  BY DEF IInv, CloseStages, Connect
<1>7. OpenStages'
  BY DEF IInv, NotStarted, OpenStages, Connect
<1>8. ConnectIsFirst'
  BY DEF IInv, NotStarted, ConnectIsFirst, Connect
<1>9. DataAfterOpen'
  BY DEF IInv, DataAfterOpen, Connect, Item, DataItems
<1>10. SessionIsGuarded'
  BY DEF SessionIsGuarded, Connect, Item
<1> QED  BY <1>3, <1>4, <1>5, <1>6, <1>7, <1>8, <1>9, <1>10 DEF IInv

LEMMA RecycleKeeps ==
  ASSUME IInv, Recycle
  PROVE  IInv'
<1>1. stopped' \in BOOLEAN /\ opened' \in BOOLEAN /\ held' \in BOOLEAN
  BY DEF IInv, TypeOK, Recycle
<1>2. ioq' \in Seq(IoItems) /\ workq' \in Seq(WorkHandlers)
  BY DEF IInv, TypeOK, Recycle
<1>3. TypeOK'
  BY DEF IInv, TypeOK, Recycle
<1>4. NotStarted'
  BY DEF NotStarted, Recycle, NoReference
<1>5. StoppedIsQuiet'
  BY DEF IInv, StoppedIsQuiet, Recycle
<1>6. CloseStages'
  BY DEF IInv, CloseStages, Recycle
<1>7. OpenStages'
  BY DEF OpenStages, Recycle, NoReference
<1>8. ConnectIsFirst'
  BY DEF IInv, ConnectIsFirst, Recycle
<1>9. DataAfterOpen'
  BY DEF IInv, DataAfterOpen, Recycle
<1>10. SessionIsGuarded'
  BY DEF SessionIsGuarded, Recycle
<1> QED  BY <1>3, <1>4, <1>5, <1>6, <1>7, <1>8, <1>9, <1>10 DEF IInv

LEMMA DoWorkKeeps ==
  ASSUME IInv, DoWork
  PROVE  IInv'
<1>a. Head(workq) \in WorkHandlers /\ Tail(workq) \in Seq(WorkHandlers)
  BY DEF IInv, TypeOK, DoWork
<1>b. /\ Len(workq') = Len(workq) - 1
      /\ \A i \in 1..Len(workq') : i + 1 \in 2..Len(workq) /\ workq'[i] = workq[i + 1]
      /\ \A i \in 2..Len(workq) : i - 1 \in 1..Len(workq') /\ workq'[i - 1] = workq[i]
      /\ workq[1] # "close"
  BY DEF IInv, TypeOK, DoWork
<1>1. stopped' \in BOOLEAN /\ opened' \in BOOLEAN /\ held' \in BOOLEAN
  BY DEF IInv, TypeOK, DoWork
<1>2. ioq' \in Seq(IoItems) /\ workq' \in Seq(WorkHandlers)
  BY DEF IInv, TypeOK, DoWork
<1>3. TypeOK'
  BY <1>a DEF IInv, TypeOK, DoWork
<1>4. NotStarted'
  BY DEF IInv, TypeOK, NotStarted, OpenStages, DoWork
<1>5. StoppedIsQuiet'
  BY DEF IInv, StoppedIsQuiet, DoWork
<1>6. CloseStages'
  <2>1. \A i, j \in 1..Len(workq') : workq'[i] = "close" /\ workq'[j] = "close" => i = j
    BY <1>b DEF IInv, CloseStages
  <2>2. \A i \in 1..Len(workq') : workq'[i] = "close" => stopped' /\ closed' = 0
    BY DEF IInv, CloseStages, DoWork
  <2>3. stopped' /\ closed' = 0 /\ phase' # "free" => \E i \in 1..Len(workq') : workq'[i] = "close"
    <3>1. ASSUME stopped', closed' = 0, phase' # "free"
          PROVE  \E i \in 1..Len(workq') : workq'[i] = "close"
      <4>1. PICK i \in 1..Len(workq) : workq[i] = "close"
        BY <3>1 DEF IInv, CloseStages, DoWork
      <4>2. i \in 2..Len(workq)
        BY <1>b, <4>1 DEF IInv
      <4> QED  BY <4>1, <4>2, <1>b
    <3> QED  BY <3>1
  <2>4. closed' <= 1 /\ (closed' > 0 => stopped') /\ (callback' = "close" => closed' > 0)
    BY DEF IInv, CloseStages, DoWork
  <2> QED  BY <2>1, <2>2, <2>3, <2>4 DEF CloseStages
<1>7. OpenStages'
  BY DEF IInv, TypeOK, OpenStages, DoWork
<1>8. ConnectIsFirst'
  BY DEF IInv, ConnectIsFirst, DoWork
<1>9. DataAfterOpen'
  BY DEF IInv, TypeOK, DataAfterOpen, DoWork
<1>10. SessionIsGuarded'
  BY DEF IInv, SessionIsGuarded, DoWork
<1> QED  BY <1>3, <1>4, <1>5, <1>6, <1>7, <1>8, <1>9, <1>10 DEF IInv

LEMMA DoCloseKeeps ==
  ASSUME IInv, DoClose
  PROVE  IInv'
<1>1. stopped' \in BOOLEAN /\ opened' \in BOOLEAN /\ held' \in BOOLEAN
  BY DEF IInv, TypeOK, DoClose
<1>2. ioq' \in Seq(IoItems) /\ workq' \in Seq(WorkHandlers)
  BY DEF IInv, TypeOK, DoClose
<1>3. TypeOK'
  BY DEF IInv, TypeOK, DoClose
<1>4. NotStarted'
  BY DEF IInv, NotStarted, DoClose
<1>5. StoppedIsQuiet'
  BY DEF IInv, StoppedIsQuiet, DoClose
<1>6. CloseStages'
  BY DEF IInv, CloseStages, DoClose
<1>7. OpenStages'
  BY DEF IInv, OpenStages, DoClose
<1>8. ConnectIsFirst'
  BY DEF IInv, ConnectIsFirst, DoClose
<1>9. DataAfterOpen'
  BY DEF IInv, DataAfterOpen, DoClose
<1>10. SessionIsGuarded'
  BY DEF IInv, SessionIsGuarded, DoClose
<1> QED  BY <1>3, <1>4, <1>5, <1>6, <1>7, <1>8, <1>9, <1>10 DEF IInv

LEMMA CallConnectChildKeeps ==
  ASSUME IInv, CallConnectChild
  PROVE  IInv'
<1>1. stopped' \in BOOLEAN /\ opened' \in BOOLEAN /\ held' \in BOOLEAN
  BY DEF IInv, TypeOK, CallConnectChild
<1>2. ioq' \in Seq(IoItems) /\ workq' \in Seq(WorkHandlers)
  BY DEF IInv, TypeOK, CallConnectChild
<1>3. TypeOK'
  BY DEF IInv, TypeOK, CallConnectChild
<1>4. NotStarted'
  BY DEF IInv, NotStarted, CallConnectChild
<1>5. StoppedIsQuiet'
  BY DEF IInv, StoppedIsQuiet, CallConnectChild
<1>6. CloseStages'
  BY DEF IInv, CloseStages, CallConnectChild
<1>7. OpenStages'
  BY DEF IInv, OpenStages, CallConnectChild
<1>8. ConnectIsFirst'
  BY DEF IInv, ConnectIsFirst, CallConnectChild
<1>9. DataAfterOpen'
  BY DEF DataAfterOpen, CallConnectChild
<1>10. SessionIsGuarded'
  BY DEF IInv, SessionIsGuarded, CallConnectChild
<1> QED  BY <1>3, <1>4, <1>5, <1>6, <1>7, <1>8, <1>9, <1>10 DEF IInv

LEMMA CallCloseKeeps ==
  ASSUME IInv, CallClose
  PROVE  IInv'
<1>a. Item("close_i", "ok") \in IoItems
  BY DEF Item, IoItems, IoHandlers, Results
<1>b. Append(ioq, Item("close_i", "ok")) \in Seq(IoItems)
  BY <1>a DEF IInv, TypeOK
<1>1. stopped' \in BOOLEAN /\ opened' \in BOOLEAN /\ held' \in BOOLEAN
  BY DEF IInv, TypeOK, CallClose
<1>2. ioq' \in Seq(IoItems) /\ workq' \in Seq(WorkHandlers)
  BY <1>b DEF IInv, TypeOK, CallClose, Close
<1>3. TypeOK'
  BY <1>2 DEF IInv, TypeOK, CallClose
<1>4. NotStarted'
  BY DEF IInv, NotStarted, CallClose
<1>5. StoppedIsQuiet'
  BY DEF IInv, StoppedIsQuiet, CallClose
<1>6. CloseStages'
  BY DEF IInv, CloseStages, CallClose
<1>7. OpenStages'
  BY DEF IInv, NotStarted, OpenStages, CallClose, Item, Close, ConnectItems
<1>8. ConnectIsFirst'
  BY DEF IInv, ConnectIsFirst, CallClose, Item, Close
<1>9. DataAfterOpen'
  BY DEF IInv, DataAfterOpen, CallClose, Item, Close, DataItems
<1>10. SessionIsGuarded'
  BY DEF IInv, SessionIsGuarded, CallClose, Close
<1> QED  BY <1>3, <1>4, <1>5, <1>6, <1>7, <1>8, <1>9, <1>10 DEF IInv

LEMMA ReturnKeeps ==
  ASSUME IInv, Return
  PROVE  IInv'
<1>a. callback = "close" => armed = {}
  BY DEF IInv, CloseStages, StoppedIsQuiet
<1>b. AbortWaits({}) = <<>>
  BY DEF AbortWaits, AbortOne
<1>d. ioq \o <<>> = ioq
  BY DEF IInv
<1>c. UNCHANGED <<ioq, armed>>
  BY <1>a, <1>b, <1>d DEF Return
<1>1. stopped' \in BOOLEAN /\ opened' \in BOOLEAN /\ held' \in BOOLEAN
  BY DEF IInv, TypeOK, Return
<1>2. ioq' \in Seq(IoItems) /\ workq' \in Seq(WorkHandlers)
  BY <1>c DEF IInv, TypeOK, Return
<1>3. TypeOK'
  BY <1>2 DEF IInv, TypeOK, Return
<1>4. NotStarted'
  BY DEF IInv, NotStarted, Return
<1>5. StoppedIsQuiet'
  BY DEF IInv, StoppedIsQuiet, Return
<1>6. CloseStages'
  BY DEF IInv, CloseStages, Return
<1>7. OpenStages'
  BY <1>c DEF IInv, OpenStages, Return
<1>8. ConnectIsFirst'
  BY <1>c DEF IInv, ConnectIsFirst, Return
<1>9. DataAfterOpen'
  BY <1>c DEF IInv, DataAfterOpen, Return
<1>10. SessionIsGuarded'
  BY <1>c DEF IInv, SessionIsGuarded, Return
<1> QED  BY <1>3, <1>4, <1>5, <1>6, <1>7, <1>8, <1>9, <1>10 DEF IInv

LEMMA PostEventKeeps ==
  ASSUME IInv, PostEvent
  PROVE  IInv'
<1>1. stopped' \in BOOLEAN /\ opened' \in BOOLEAN /\ held' \in BOOLEAN
  BY DEF IInv, TypeOK, PostEvent
<1>2. ioq' \in Seq(IoItems) /\ workq' \in Seq(WorkHandlers)
  BY DEF IInv, TypeOK, PostEvent, WorkHandlers
<1>3. TypeOK'
  BY <1>2 DEF IInv, TypeOK, PostEvent
<1>4. NotStarted'
  BY DEF IInv, NotStarted, PostEvent
<1>5. StoppedIsQuiet'
  BY DEF IInv, StoppedIsQuiet, PostEvent
<1>6. CloseStages'
  BY DEF IInv, CloseStages, PostEvent
<1>7. OpenStages'
  BY DEF IInv, OpenStages, PostEvent
<1>8. ConnectIsFirst'
  BY DEF IInv, ConnectIsFirst, PostEvent
<1>9. DataAfterOpen'
  BY DEF IInv, DataAfterOpen, PostEvent, DataOps
<1>10. SessionIsGuarded'
  BY DEF IInv, SessionIsGuarded, PostEvent
<1> QED  BY <1>3, <1>4, <1>5, <1>6, <1>7, <1>8, <1>9, <1>10 DEF IInv

LEMMA LinkedCloseKeeps ==
  ASSUME IInv, LinkedClose
  PROVE  IInv'
<1>a. Item("close_i", "ok") \in IoItems
  BY DEF Item, IoItems, IoHandlers, Results
<1>b. Append(ioq, Item("close_i", "ok")) \in Seq(IoItems)
  BY <1>a DEF IInv, TypeOK
<1>1. stopped' \in BOOLEAN /\ opened' \in BOOLEAN /\ held' \in BOOLEAN
  BY DEF IInv, TypeOK, LinkedClose
<1>2. ioq' \in Seq(IoItems) /\ workq' \in Seq(WorkHandlers)
  BY <1>b DEF IInv, TypeOK, LinkedClose, Close
<1>3. TypeOK'
  BY <1>2 DEF IInv, TypeOK, LinkedClose
<1>4. NotStarted'
  BY DEF IInv, NotStarted, LinkedClose
<1>5. StoppedIsQuiet'
  BY DEF IInv, StoppedIsQuiet, LinkedClose
<1>6. CloseStages'
  BY DEF IInv, CloseStages, LinkedClose
<1>7. OpenStages'
  BY <1>b DEF IInv, OpenStages, LinkedClose, Item, Close, ConnectItems
<1>8. ConnectIsFirst'
  BY DEF IInv, ConnectIsFirst, LinkedClose, Item, Close
<1>9. DataAfterOpen'
  BY DEF IInv, DataAfterOpen, LinkedClose, Item, Close, DataItems
<1>10. SessionIsGuarded'
  BY DEF IInv, SessionIsGuarded, LinkedClose, Close
<1> QED  BY <1>3, <1>4, <1>5, <1>6, <1>7, <1>8, <1>9, <1>10 DEF IInv

LEMMA UnlinkKeeps ==
  ASSUME IInv, Unlink
  PROVE  IInv'
<1>1. stopped' \in BOOLEAN /\ opened' \in BOOLEAN /\ held' \in BOOLEAN
  BY DEF IInv, TypeOK, Unlink
<1>2. ioq' \in Seq(IoItems) /\ workq' \in Seq(WorkHandlers)
  BY DEF IInv, TypeOK, Unlink
<1>3. TypeOK'
  BY DEF IInv, TypeOK, Unlink
<1>4. NotStarted'
  BY DEF IInv, NotStarted, Unlink
<1>5. StoppedIsQuiet'
  BY DEF IInv, StoppedIsQuiet, Unlink
<1>6. CloseStages'
  BY DEF IInv, CloseStages, Unlink
<1>7. OpenStages'
  BY DEF IInv, OpenStages, Unlink
<1>8. ConnectIsFirst'
  BY DEF IInv, ConnectIsFirst, Unlink
<1>9. DataAfterOpen'
  BY DEF IInv, DataAfterOpen, Unlink
<1>10. SessionIsGuarded'
  BY DEF IInv, SessionIsGuarded, Unlink
<1> QED  BY <1>3, <1>4, <1>5, <1>6, <1>7, <1>8, <1>9, <1>10 DEF IInv

LEMMA CompleteKeeps ==
  ASSUME IInv, NEW op \in Ops, Complete(op)
  PROVE  IInv'
<1>1. stopped' \in BOOLEAN /\ opened' \in BOOLEAN /\ held' \in BOOLEAN
  BY DEF IInv, TypeOK, Complete
<1>2. ioq' \in Seq(IoItems) /\ workq' \in Seq(WorkHandlers)
  BY DEF IInv, TypeOK, Complete, Item, IoItems, IoHandlers, Results
<1>3. TypeOK'
  BY <1>2 DEF IInv, TypeOK, Complete
<1>4. NotStarted'
  BY DEF IInv, NotStarted, Complete
<1>5. StoppedIsQuiet'
  BY DEF IInv, StoppedIsQuiet, Complete
<1>6. CloseStages'
  BY DEF IInv, CloseStages, Complete
<1>7. OpenStages'
  BY DEF IInv, OpenStages, Complete, Item, Ops, ConnectItems
<1>8. ConnectIsFirst'
  BY DEF IInv, ConnectIsFirst, Complete, Item, Ops
<1>9. DataAfterOpen'
  BY DEF IInv, DataAfterOpen, Complete, Item, Ops, DataItems, DataOps
<1>10. SessionIsGuarded'
  BY DEF IInv, ConnectIsFirst, SessionIsGuarded, Complete
<1> QED  BY <1>3, <1>4, <1>5, <1>6, <1>7, <1>8, <1>9, <1>10 DEF IInv

LEMMA ExpireKeeps ==
  ASSUME IInv, NEW t \in Timers, Expire(t)
  PROVE  IInv'
<1>1. stopped' \in BOOLEAN /\ opened' \in BOOLEAN /\ held' \in BOOLEAN
  BY DEF IInv, TypeOK, Expire
<1>2. ioq' \in Seq(IoItems) /\ workq' \in Seq(WorkHandlers)
  BY DEF IInv, TypeOK, Expire, Item, IoItems, IoHandlers, Results
<1>3. TypeOK'
  BY <1>2 DEF IInv, TypeOK, Expire
<1>4. NotStarted'
  BY DEF IInv, NotStarted, Expire
<1>5. StoppedIsQuiet'
  BY DEF IInv, StoppedIsQuiet, Expire
<1>6. CloseStages'
  BY DEF IInv, CloseStages, Expire
<1>7. OpenStages'
  BY DEF IInv, OpenStages, Expire, Item, Timers, ConnectItems
<1>8. ConnectIsFirst'
  BY DEF IInv, ConnectIsFirst, Expire, Item, Timers
<1>9. DataAfterOpen'
  BY DEF IInv, DataAfterOpen, Expire, Item, Timers, DataItems
<1>10. SessionIsGuarded'
  BY DEF IInv, SessionIsGuarded, Expire, Item, Timers
<1> QED  BY <1>3, <1>4, <1>5, <1>6, <1>7, <1>8, <1>9, <1>10 DEF IInv

LEMMA CallOpKeeps ==
  ASSUME IInv, NEW op \in DataOps, CallOp(op)
  PROVE  IInv'
<1>a. busy' \subseteq {"read", "write"} /\ ops' \in Nat
  BY DEF IInv, TypeOK, CallOp, DataOps
<1>1. stopped' \in BOOLEAN /\ opened' \in BOOLEAN /\ held' \in BOOLEAN
  BY DEF IInv, TypeOK, CallOp
<1>2. ioq' \in Seq(IoItems) /\ workq' \in Seq(WorkHandlers)
  BY DEF IInv, TypeOK, CallOp, Item, IoItems, IoHandlers, Results
<1>3. TypeOK'
  BY <1>a, <1>2 DEF IInv, TypeOK, CallOp
<1>4. NotStarted'
  BY DEF IInv, NotStarted, CallOp
<1>5. StoppedIsQuiet'
  BY DEF IInv, StoppedIsQuiet, CallOp
<1>6. CloseStages'
  BY DEF IInv, CloseStages, CallOp
<1>7. OpenStages'
  BY DEF IInv, OpenStages, CallOp, Item, ConnectItems
<1>8. ConnectIsFirst'
  BY DEF IInv, ConnectIsFirst, CallOp, Item
<1>9. DataAfterOpen'
  BY DEF DataAfterOpen, CallOp
<1>10. SessionIsGuarded'
  BY DEF IInv, SessionIsGuarded, CallOp
<1> QED  BY <1>3, <1>4, <1>5, <1>6, <1>7, <1>8, <1>9, <1>10 DEF IInv


\* The handlers left in the queue of the io thread after one that queued r: they
\* moved up by one, and behind them are aborted completions of members of P.
Moved(i) == i \in 1..(Len(ioq) - 1) /\ i + 1 \in 2..Len(ioq) /\ ioq'[i] = ioq[i + 1]

QueueAfter(P) ==
  /\ ioq' \in Seq(IoItems)
  /\ \A i \in 1..Len(ioq') :
       Moved(i) \/ (i >= Len(ioq) /\ ioq'[i].h \in P \cup Timers /\ ioq'[i].ec = "aborted")
  /\ \A i, j \in 1..Len(ioq') :
       ~Moved(i) /\ ~Moved(j) /\ ioq'[i].h \in Ops /\ ioq'[i].h = ioq'[j].h => i = j
  /\ \A i \in 2..Len(ioq) : i - 1 \in 1..Len(ioq') /\ ioq'[i - 1] = ioq[i]
  /\ \A i \in 1..Len(ioq') : ioq'[i].h = "connect_i" => Moved(i)
  /\ \A i \in 1..Len(ioq') : ioq'[i].h \in ConnectItems => Moved(i) \/ "connect" \in P
  /\ \A i, j \in 1..Len(ioq') :
       ioq'[i].h \in ConnectItems /\ ioq'[j].h \in ConnectItems /\ ~Moved(i) /\ ~Moved(j) => i = j
  /\ \A i \in 1..Len(ioq') : ioq'[i].h \in DataItems => Moved(i) \/ P \cap DataOps # {}

LEMMA DoneFacts ==
  ASSUME TypeOK, ioq # <<>>, NEW P \in SUBSET Ops, NEW r, Aborts(r, P), Done(r)
  PROVE  QueueAfter(P)
<1>1. ioq \in Seq(IoItems) /\ r \in Seq(IoItems)
  BY DEF TypeOK, Aborts
<1>2. /\ ioq' \in Seq(IoItems)
      /\ \A i \in 1..Len(ioq') :
           \/ Moved(i)
           \/ i >= Len(ioq) /\ i - (Len(ioq) - 1) \in 1..Len(r) /\ ioq'[i] = r[i - (Len(ioq) - 1)]
      /\ \A i \in 2..Len(ioq) : i - 1 \in 1..Len(ioq') /\ ioq'[i - 1] = ioq[i]
  BY <1>1 DEF Done, Moved
<1>3. \A i \in 1..Len(ioq') :
        Moved(i) \/ (i >= Len(ioq) /\ ioq'[i].h \in P \cup Timers /\ ioq'[i].ec = "aborted")
  BY <1>2 DEF Aborts
<1>4. \A i, j \in 1..Len(ioq') :
        ~Moved(i) /\ ~Moved(j) /\ ioq'[i].h \in Ops /\ ioq'[i].h = ioq'[j].h => i = j
  <2> SUFFICES ASSUME NEW i \in 1..Len(ioq'), NEW j \in 1..Len(ioq'), ~Moved(i), ~Moved(j),
                      ioq'[i].h \in Ops, ioq'[i].h = ioq'[j].h
               PROVE  i = j
    OBVIOUS
  <2> DEFINE k == i - (Len(ioq) - 1)
             l == j - (Len(ioq) - 1)
  <2>1. k \in 1..Len(r) /\ l \in 1..Len(r) /\ r[k].h \in Ops /\ r[k].h = r[l].h
    BY <1>2
  <2>2. k = l
    BY <2>1 DEF Aborts
  <2> QED  BY <2>2
<1>5. \A i \in 1..Len(ioq') : ioq'[i].h = "connect_i" => Moved(i)
  BY <1>3 DEF Ops, Timers
<1>6. \A i \in 1..Len(ioq') :
        ioq'[i].h \in ConnectItems => Moved(i) \/ ("connect" \in P /\ ioq'[i].h = "connect")
  BY <1>3 DEF Ops, Timers, ConnectItems
<1>7. \A i \in 1..Len(ioq') : ioq'[i].h \in DataItems => Moved(i) \/ P \cap DataOps # {}
  BY <1>3 DEF Ops, Timers, DataItems, DataOps
<1>8. \A i, j \in 1..Len(ioq') :
        ioq'[i].h \in ConnectItems /\ ioq'[j].h \in ConnectItems /\ ~Moved(i) /\ ~Moved(j) => i = j
  BY <1>4, <1>6 DEF Ops
<1> QED  BY <1>2, <1>3, <1>4, <1>5, <1>6, <1>7, <1>8 DEF QueueAfter

LEMMA IoDropKeeps ==
  ASSUME IInv, ioq # <<>>, ioUnchanged, NEW r, IoDrop(r)
  PROVE  IInv'
<1>1. QueueAfter({})
  BY DoneFacts DEF IInv, IoDrop
<1>2. Head(ioq) = ioq[1] /\ Len(ioq) \in Nat /\ Len(ioq) >= 1 /\ 1 \in 1..Len(ioq)
  BY DEF IInv
<1>3. TypeOK'
  BY <1>1 DEF IInv, TypeOK, QueueAfter, ioUnchanged, IoDrop
<1>4. NotStarted' /\ StoppedIsQuiet'
  BY DEF IInv, NotStarted, StoppedIsQuiet, IoDrop, ioUnchanged
<1>5. CloseStages'
  BY DEF IInv, CloseStages, IoDrop, ioUnchanged
<1> DEFINE Shifted == \A i \in 1..Len(ioq') : ioq'[i].h \in ConnectItems =>
                         i + 1 \in 2..Len(ioq) /\ ioq[i + 1].h \in ConnectItems
<1>a. Shifted
  BY <1>1 DEF QueueAfter, Moved
<1>b. workq \in Seq(WorkHandlers) /\ Len(workq) \in Nat
  BY DEF IInv, TypeOK
<1>6. OpenStages'
  <2>1. \A i, j \in 1..Len(workq') : workq'[i] = "open" /\ workq'[j] = "open" => i = j
    BY DEF IInv, OpenStages, IoDrop
  <2>2. \A i, j \in 1..Len(ioq') :
          ioq'[i].h \in ConnectItems /\ ioq'[j].h \in ConnectItems => i = j
    BY <1>a DEF IInv, OpenStages
  <2>3. (\A i \in 1..Len(workq') : workq'[i] = "open" =>
       /\ phase' = "run" /\ ~opened' /\ "connect" \notin pend'
       /\ \A j \in 1..Len(ioq') : ioq'[j].h \notin ConnectItems)
    BY <1>1, <1>a DEF IInv, OpenStages, IoDrop, ioUnchanged
  <2>4. \A i \in 1..Len(ioq') : ioq'[i].h \in ConnectItems =>
          phase' = "run" /\ ~opened' /\ "connect" \notin pend'
    BY <1>a DEF IInv, OpenStages, IoDrop, ioUnchanged
  <2>5. "connect" \in pend' => phase' = "run" /\ ~opened'
    BY DEF IInv, OpenStages, IoDrop, ioUnchanged
  <2> QED  BY <2>1, <2>2, <2>3, <2>4, <2>5 DEF OpenStages
<1>7. ConnectIsFirst'
  BY <1>1 DEF IInv, ConnectIsFirst, QueueAfter, Moved
<1>8. DataAfterOpen'
  <2>1. pend' \cap DataOps # {} => opened'
    BY DEF IInv, DataAfterOpen, IoDrop, ioUnchanged
  <2>2. \A i \in 1..Len(ioq') : ioq'[i].h \in DataItems => opened'
    BY <1>1 DEF IInv, DataAfterOpen, QueueAfter, Moved, ioUnchanged
  <2>3. \A i \in 1..Len(workq') : workq'[i] \in DataOps => opened'
    BY DEF IInv, DataAfterOpen, IoDrop, ioUnchanged
  <2> QED  BY <2>1, <2>2, <2>3 DEF DataAfterOpen
<1>9. SessionIsGuarded'
  BY <1>1 DEF IInv, SessionIsGuarded, QueueAfter, IoDrop, ioUnchanged, Timers
<1> QED  BY <1>3, <1>4, <1>5, <1>6, <1>7, <1>8, <1>9 DEF IInv

LEMMA IoCloseKeeps ==
  ASSUME IInv, ioq # <<>>, ioUnchanged, NEW r, IoClose(r)
  PROVE  IInv'
<1>1. QueueAfter(pend)
  BY DoneFacts DEF IInv, TypeOK, IoClose
<1>2. Head(ioq) = ioq[1] /\ Len(ioq) \in Nat /\ Len(ioq) >= 1 /\ 1 \in 1..Len(ioq)
  BY DEF IInv
<1>3. TypeOK'
  BY <1>1 DEF IInv, TypeOK, QueueAfter, ioUnchanged, IoClose, WorkHandlers
<1>4. NotStarted' /\ StoppedIsQuiet'
  BY DEF IInv, NotStarted, StoppedIsQuiet, IoClose, ioUnchanged
<1>5. CloseStages'
  BY DEF IInv, TypeOK, CloseStages, IoClose, ioUnchanged
<1> DEFINE Shifted == \A i \in 1..Len(ioq') : ioq'[i].h \in ConnectItems =>
                         i + 1 \in 2..Len(ioq) /\ ioq[i + 1].h \in ConnectItems
<1>a. Shifted \/ "connect" \in pend
  BY <1>1 DEF QueueAfter, Moved
<1>b. workq \in Seq(WorkHandlers) /\ Len(workq) \in Nat
  BY DEF IInv, TypeOK
<1>6. OpenStages'
  <2>1. \A i, j \in 1..Len(workq') : workq'[i] = "open" /\ workq'[j] = "open" => i = j
    BY DEF IInv, OpenStages, IoClose
  <2>2. \A i, j \in 1..Len(ioq') :
          ioq'[i].h \in ConnectItems /\ ioq'[j].h \in ConnectItems => i = j
    BY <1>1, <1>a DEF IInv, OpenStages, QueueAfter, Moved
  <2>3. (\A i \in 1..Len(workq') : workq'[i] = "open" =>
       /\ phase' = "run" /\ ~opened' /\ "connect" \notin pend'
       /\ \A j \in 1..Len(ioq') : ioq'[j].h \notin ConnectItems)
    BY <1>1, <1>a, <1>b DEF IInv, OpenStages, IoClose, ioUnchanged
  <2>4. \A i \in 1..Len(ioq') : ioq'[i].h \in ConnectItems =>
          phase' = "run" /\ ~opened' /\ "connect" \notin pend'
    BY <1>a DEF IInv, OpenStages, IoClose, ioUnchanged
  <2>5. "connect" \in pend' => phase' = "run" /\ ~opened'
    BY DEF IoClose
  <2> QED  BY <2>1, <2>2, <2>3, <2>4, <2>5 DEF OpenStages
<1>7. ConnectIsFirst'
  BY <1>1 DEF IInv, OpenStages, ConnectIsFirst, QueueAfter, Moved
<1>8. DataAfterOpen'
  <2>1. pend' \cap DataOps # {} => opened'
    BY DEF IoClose
  <2>2. \A i \in 1..Len(ioq') : ioq'[i].h \in DataItems => opened'
    BY <1>1, SMTT(30) DEF IInv, DataAfterOpen, QueueAfter, Moved, ioUnchanged
  <2>3. \A i \in 1..Len(workq') : workq'[i] \in DataOps => opened'
    BY DEF IInv, DataAfterOpen, IoClose, ioUnchanged, DataOps
  <2> QED  BY <2>1, <2>2, <2>3 DEF DataAfterOpen
<1>9. SessionIsGuarded'
  BY DEF SessionIsGuarded, IoClose
<1> QED  BY <1>3, <1>4, <1>5, <1>6, <1>7, <1>8, <1>9 DEF IInv

LEMMA IoConnectKeeps ==
  ASSUME IInv, ioq # <<>>, ioUnchanged, NEW r, IoConnect(r)
  PROVE  IInv'
<1>1. QueueAfter({})
  BY DoneFacts DEF IInv, IoConnect
<1>2. Head(ioq) = ioq[1] /\ Len(ioq) \in Nat /\ Len(ioq) >= 1 /\ 1 \in 1..Len(ioq)
  BY DEF IInv
<1>3. TypeOK'
  BY <1>1 DEF IInv, TypeOK, QueueAfter, ioUnchanged, IoConnect, Ops
<1>4. NotStarted' /\ StoppedIsQuiet'
  BY DEF IInv, NotStarted, StoppedIsQuiet, ConnectIsFirst, IoConnect, ioUnchanged
<1>5. CloseStages'
  BY DEF IInv, CloseStages, IoConnect, ioUnchanged
<1> DEFINE Shifted == \A i \in 1..Len(ioq') : ioq'[i].h \in ConnectItems =>
                         i + 1 \in 2..Len(ioq) /\ ioq[i + 1].h \in ConnectItems
<1>a. Shifted
  BY <1>1 DEF QueueAfter, Moved
<1>b. workq \in Seq(WorkHandlers) /\ Len(workq) \in Nat
  BY DEF IInv, TypeOK
<1>6. OpenStages'
  <2>1. \A i, j \in 1..Len(workq') : workq'[i] = "open" /\ workq'[j] = "open" => i = j
    BY DEF IInv, OpenStages, IoConnect
  <2>2. \A i, j \in 1..Len(ioq') :
          ioq'[i].h \in ConnectItems /\ ioq'[j].h \in ConnectItems => i = j
    BY <1>a DEF IInv, OpenStages
  <2>3. (\A i \in 1..Len(workq') : workq'[i] = "open" =>
       /\ phase' = "run" /\ ~opened' /\ "connect" \notin pend'
       /\ \A j \in 1..Len(ioq') : ioq'[j].h \notin ConnectItems)
    BY DEF IInv, OpenStages, IoConnect, DataOps, ConnectItems
  <2>4. \A i \in 1..Len(ioq') : ioq'[i].h \in ConnectItems =>
          phase' = "run" /\ ~opened' /\ "connect" \notin pend'
    BY <1>a DEF IInv, OpenStages, IoConnect, DataOps, ConnectItems
  <2>5. "connect" \in pend' => phase' = "run" /\ ~opened'
    BY DEF IInv, OpenStages, IoConnect, ioUnchanged, DataOps, ConnectItems
  <2> QED  BY <2>1, <2>2, <2>3, <2>4, <2>5 DEF OpenStages
<1>7. ConnectIsFirst'
  BY <1>1 DEF IInv, ConnectIsFirst, QueueAfter, Moved
<1>8. DataAfterOpen'
  <2>1. pend' \cap DataOps # {} => opened'
    BY DEF IInv, DataAfterOpen, IoConnect, ioUnchanged, DataOps
  <2>2. \A i \in 1..Len(ioq') : ioq'[i].h \in DataItems => opened'
    BY <1>1 DEF IInv, DataAfterOpen, QueueAfter, Moved, ioUnchanged
  <2>3. \A i \in 1..Len(workq') : workq'[i] \in DataOps => opened'
    BY DEF IInv, DataAfterOpen, IoConnect, ioUnchanged
  <2> QED  BY <2>1, <2>2, <2>3 DEF DataAfterOpen
<1>9. SessionIsGuarded'
  BY DEF SessionIsGuarded, IoConnect
<1> QED  BY <1>3, <1>4, <1>5, <1>6, <1>7, <1>8, <1>9 DEF IInv

LEMMA IoOpenKeeps ==
  ASSUME IInv, ioq # <<>>, ioUnchanged, NEW r, IoOpen(r)
  PROVE  IInv'
<1>1. QueueAfter({})
  BY DoneFacts DEF IInv, IoOpen
<1>2. Head(ioq) = ioq[1] /\ Len(ioq) \in Nat /\ Len(ioq) >= 1 /\ 1 \in 1..Len(ioq)
  BY DEF IInv
<1>3. TypeOK'
  BY <1>1 DEF IInv, TypeOK, QueueAfter, ioUnchanged, IoOpen, WorkHandlers
<1>4. NotStarted' /\ StoppedIsQuiet'
  BY DEF IInv, NotStarted, StoppedIsQuiet, IoOpen, ioUnchanged
<1>5. CloseStages'
  BY DEF IInv, CloseStages, IoOpen, ioUnchanged
<1> DEFINE Shifted == \A i \in 1..Len(ioq') : ioq'[i].h \in ConnectItems =>
                         i + 1 \in 2..Len(ioq) /\ ioq[i + 1].h \in ConnectItems
<1>a. Shifted
  BY <1>1 DEF QueueAfter, Moved
<1>b. workq \in Seq(WorkHandlers) /\ Len(workq) \in Nat
  BY DEF IInv, TypeOK
<1>6. OpenStages'
  <2>1. \A i, j \in 1..Len(workq') : workq'[i] = "open" /\ workq'[j] = "open" => i = j
    BY DEF IInv, OpenStages, IoOpen, ConnectItems
  <2>2. \A i, j \in 1..Len(ioq') :
          ioq'[i].h \in ConnectItems /\ ioq'[j].h \in ConnectItems => i = j
    BY <1>a DEF IInv, OpenStages
  <2>3. (\A i \in 1..Len(workq') : workq'[i] = "open" =>
       /\ phase' = "run" /\ ~opened' /\ "connect" \notin pend'
       /\ \A j \in 1..Len(ioq') : ioq'[j].h \notin ConnectItems)
    BY <1>a DEF IInv, OpenStages, IoOpen, ioUnchanged, DataOps, ConnectItems
  <2>4. \A i \in 1..Len(ioq') : ioq'[i].h \in ConnectItems =>
          phase' = "run" /\ ~opened' /\ "connect" \notin pend'
    BY <1>a DEF IInv, OpenStages, IoOpen, ioUnchanged
  <2>5. "connect" \in pend' => phase' = "run" /\ ~opened'
    BY DEF IInv, OpenStages, IoOpen, ioUnchanged
  <2> QED  BY <2>1, <2>2, <2>3, <2>4, <2>5 DEF OpenStages
<1>7. ConnectIsFirst'
  BY <1>1 DEF IInv, OpenStages, ConnectIsFirst, QueueAfter, Moved, ConnectItems
<1>8. DataAfterOpen'
  <2>1. pend' \cap DataOps # {} => opened'
    BY DEF IInv, DataAfterOpen, IoOpen, ioUnchanged
  <2>2. \A i \in 1..Len(ioq') : ioq'[i].h \in DataItems => opened'
    BY <1>1 DEF IInv, DataAfterOpen, QueueAfter, Moved, ioUnchanged
  <2>3. \A i \in 1..Len(workq') : workq'[i] \in DataOps => opened'
    BY DEF IInv, DataAfterOpen, IoOpen, ioUnchanged, DataOps
  <2> QED  BY <2>1, <2>2, <2>3 DEF DataAfterOpen
<1>9. SessionIsGuarded'
  BY DEF SessionIsGuarded, IoOpen
<1> QED  BY <1>3, <1>4, <1>5, <1>6, <1>7, <1>8, <1>9 DEF IInv

LEMMA IoStartKeeps ==
  ASSUME IInv, ioq # <<>>, ioUnchanged, NEW r, NEW op \in DataOps, IoStart(r, op)
  PROVE  IInv'
<1>1. QueueAfter({})
  BY DoneFacts DEF IInv, IoStart
<1>2. Head(ioq) = ioq[1] /\ Len(ioq) \in Nat /\ Len(ioq) >= 1 /\ 1 \in 1..Len(ioq)
  BY DEF IInv
<1>3. TypeOK'
  BY <1>1 DEF IInv, TypeOK, QueueAfter, ioUnchanged, IoStart, Ops, DataOps
<1>4. NotStarted' /\ StoppedIsQuiet'
  BY DEF IInv, NotStarted, StoppedIsQuiet, IoStart, ioUnchanged
<1>5. CloseStages'
  BY DEF IInv, CloseStages, IoStart, ioUnchanged
<1> DEFINE Shifted == \A i \in 1..Len(ioq') : ioq'[i].h \in ConnectItems =>
                         i + 1 \in 2..Len(ioq) /\ ioq[i + 1].h \in ConnectItems
<1>a. Shifted
  BY <1>1 DEF QueueAfter, Moved
<1>b. workq \in Seq(WorkHandlers) /\ Len(workq) \in Nat
  BY DEF IInv, TypeOK
<1>6. OpenStages'
  <2>1. \A i, j \in 1..Len(workq') : workq'[i] = "open" /\ workq'[j] = "open" => i = j
    BY DEF IInv, OpenStages, IoStart
  <2>2. \A i, j \in 1..Len(ioq') :
          ioq'[i].h \in ConnectItems /\ ioq'[j].h \in ConnectItems => i = j
    BY <1>a DEF IInv, OpenStages
  <2>3. (\A i \in 1..Len(workq') : workq'[i] = "open" =>
       /\ phase' = "run" /\ ~opened' /\ "connect" \notin pend'
       /\ \A j \in 1..Len(ioq') : ioq'[j].h \notin ConnectItems)
    BY <1>a DEF IInv, OpenStages, IoStart, ioUnchanged, DataOps
  <2>4. \A i \in 1..Len(ioq') : ioq'[i].h \in ConnectItems =>
          phase' = "run" /\ ~opened' /\ "connect" \notin pend'
    BY <1>a DEF IInv, OpenStages, IoStart, ioUnchanged, DataOps
  <2>5. "connect" \in pend' => phase' = "run" /\ ~opened'
    BY DEF IInv, OpenStages, IoStart, ioUnchanged, DataOps
  <2> QED  BY <2>1, <2>2, <2>3, <2>4, <2>5 DEF OpenStages
<1>7. ConnectIsFirst'
  BY <1>1 DEF IInv, ConnectIsFirst, QueueAfter, Moved, IoStart
<1>8. DataAfterOpen'
  <2>1. pend' \cap DataOps # {} => opened'
    BY DEF IInv, DataAfterOpen, IoStart, ioUnchanged, DataItems
  <2>2. \A i \in 1..Len(ioq') : ioq'[i].h \in DataItems => opened'
    BY <1>1 DEF IInv, DataAfterOpen, QueueAfter, Moved, ioUnchanged
  <2>3. \A i \in 1..Len(workq') : workq'[i] \in DataOps => opened'
    BY DEF IInv, DataAfterOpen, IoStart, ioUnchanged
  <2> QED  BY <2>1, <2>2, <2>3 DEF DataAfterOpen
<1>9. SessionIsGuarded'
  BY <1>1 DEF IInv, SessionIsGuarded, QueueAfter, IoStart, ioUnchanged
<1> QED  BY <1>3, <1>4, <1>5, <1>6, <1>7, <1>8, <1>9 DEF IInv

LEMMA IoReportKeeps ==
  ASSUME IInv, ioq # <<>>, ioUnchanged, NEW r, NEW op \in DataOps, IoReport(r, op)
  PROVE  IInv'
<1>1. QueueAfter({})
  BY DoneFacts DEF IInv, IoReport
<1>2. Head(ioq) = ioq[1] /\ Len(ioq) \in Nat /\ Len(ioq) >= 1 /\ 1 \in 1..Len(ioq)
  BY DEF IInv
<1>3. TypeOK'
  BY <1>1 DEF IInv, TypeOK, QueueAfter, ioUnchanged, IoReport, DataOps, WorkHandlers
<1>4. NotStarted' /\ StoppedIsQuiet'
  BY DEF IInv, NotStarted, StoppedIsQuiet, IoReport, ioUnchanged
<1>5. CloseStages'
  BY DEF IInv, CloseStages, IoReport, ioUnchanged, DataOps
<1> DEFINE Shifted == \A i \in 1..Len(ioq') : ioq'[i].h \in ConnectItems =>
                         i + 1 \in 2..Len(ioq) /\ ioq[i + 1].h \in ConnectItems
<1>a. Shifted
  BY <1>1 DEF QueueAfter, Moved
<1>b. workq \in Seq(WorkHandlers) /\ Len(workq) \in Nat
  BY DEF IInv, TypeOK
<1>6. OpenStages'
  <2>1. \A i, j \in 1..Len(workq') : workq'[i] = "open" /\ workq'[j] = "open" => i = j
    BY DEF IInv, OpenStages, IoReport, DataOps
  <2>2. \A i, j \in 1..Len(ioq') :
          ioq'[i].h \in ConnectItems /\ ioq'[j].h \in ConnectItems => i = j
    BY <1>a DEF IInv, OpenStages
  <2>3. (\A i \in 1..Len(workq') : workq'[i] = "open" =>
       /\ phase' = "run" /\ ~opened' /\ "connect" \notin pend'
       /\ \A j \in 1..Len(ioq') : ioq'[j].h \notin ConnectItems)
    <3>1. \A i \in 1..Len(workq') : workq'[i] = "open" => i \in 1..Len(workq) /\ workq[i] = "open"
      BY <1>b DEF IoReport, DataOps
    <3> QED
      BY <3>1, <1>a DEF IInv, OpenStages, IoReport, ioUnchanged, DataOps
  <2>4. \A i \in 1..Len(ioq') : ioq'[i].h \in ConnectItems =>
          phase' = "run" /\ ~opened' /\ "connect" \notin pend'
    BY <1>a DEF IInv, OpenStages, IoReport, ioUnchanged
  <2>5. "connect" \in pend' => phase' = "run" /\ ~opened'
    BY DEF IInv, OpenStages, IoReport, ioUnchanged
  <2> QED  BY <2>1, <2>2, <2>3, <2>4, <2>5 DEF OpenStages
<1>7. ConnectIsFirst'
  BY <1>1 DEF IInv, ConnectIsFirst, QueueAfter, Moved, IoReport
<1>8. DataAfterOpen'
  <2>1. pend' \cap DataOps # {} => opened'
    BY DEF IInv, DataAfterOpen, IoReport, ioUnchanged
  <2>2. \A i \in 1..Len(ioq') : ioq'[i].h \in DataItems => opened'
    BY <1>1 DEF IInv, DataAfterOpen, QueueAfter, Moved, ioUnchanged
  <2>3. \A i \in 1..Len(workq') : workq'[i] \in DataOps => opened'
    BY DEF IInv, DataAfterOpen, IoReport, ioUnchanged, DataOps, DataItems
  <2> QED  BY <2>1, <2>2, <2>3 DEF DataAfterOpen
<1>9. SessionIsGuarded'
  <2> SUFFICES ASSUME SessionTimeout, phase' \in {"starting", "run"}, ~stopped'
               PROVE  \/ "session" \in armed'
                      \/ \E i \in 1..Len(ioq') :
                           \/ ioq'[i].h \in {"connect_i", "close_i"}
                           \/ ioq'[i].h = "session" /\ ioq'[i].ec = "ok"
    BY DEF SessionIsGuarded
  <2>1. \/ "session" \in armed
        \/ \E i \in 1..Len(ioq) :
             \/ ioq[i].h \in {"connect_i", "close_i"}
             \/ ioq[i].h = "session" /\ ioq[i].ec = "ok"
    BY DEF IInv, SessionIsGuarded, IoReport, ioUnchanged
  <2>2. CASE "session" \in armed
    BY <2>2 DEF IoReport
  <2>3. ASSUME NEW i \in 1..Len(ioq),
               \/ ioq[i].h \in {"connect_i", "close_i"}
               \/ ioq[i].h = "session" /\ ioq[i].ec = "ok"
        PROVE  \E j \in 1..Len(ioq') :
                 \/ ioq'[j].h \in {"connect_i", "close_i"}
                 \/ ioq'[j].h = "session" /\ ioq'[j].ec = "ok"
    <3>1. ioq[1].h \in DataOps
      BY DEF IInv, TypeOK, IoReport
    <3>2. i \in 2..Len(ioq)
      BY <2>3, <3>1 DEF DataOps
    <3> QED
      BY <1>1, <2>3, <3>2 DEF QueueAfter
  <2> QED  BY <2>1, <2>2, <2>3
<1> QED  BY <1>3, <1>4, <1>5, <1>6, <1>7, <1>8, <1>9 DEF IInv


LEMMA IoThreadKeeps ==
  ASSUME IInv, IoThread
  PROVE  IInv'
<1>1. TypeOK
  BY DEF IInv
<1>2. PICK r : ioq # <<>> /\ ioUnchanged /\ IoShape(r)
  BY IoStepShape, <1>1
<1> QED
  BY <1>2, IoDropKeeps, IoCloseKeeps, IoConnectKeeps, IoOpenKeeps, IoStartKeeps, IoReportKeeps
     DEF IoShape

\* Stuttering.
LEMMA StutterKeeps ==
  ASSUME IInv, UNCHANGED vars
  PROVE  IInv'
<1>1. TypeOK'
  BY DEF IInv, TypeOK, vars
<1>2. NotStarted' /\ StoppedIsQuiet' /\ CloseStages'
  BY DEF IInv, NotStarted, StoppedIsQuiet, CloseStages, vars
<1>3. OpenStages' /\ ConnectIsFirst' /\ DataAfterOpen' /\ SessionIsGuarded'
  BY DEF IInv, OpenStages, ConnectIsFirst, DataAfterOpen, SessionIsGuarded, vars
<1> QED  BY <1>1, <1>2, <1>3 DEF IInv

LEMMA InitHolds == Init => IInv
<1> SUFFICES ASSUME Init PROVE IInv
  OBVIOUS
<1>1. TypeOK
  <2>1. stopped \in BOOLEAN /\ opened \in BOOLEAN /\ held \in BOOLEAN
    BY DEF Init
  <2> QED  BY <2>1 DEF Init, TypeOK
<1>2. NotStarted /\ StoppedIsQuiet /\ SessionIsGuarded
  BY DEF Init, NotStarted, StoppedIsQuiet, SessionIsGuarded
<1>3. CloseStages /\ OpenStages /\ ConnectIsFirst /\ DataAfterOpen
  BY DEF Init, CloseStages, OpenStages, ConnectIsFirst, DataAfterOpen
<1> QED  BY <1>1, <1>2, <1>3 DEF IInv

\* Every step of the handler keeps the invariant.
LEMMA NextKeeps == IInv /\ [Next]_vars => IInv'
<1> SUFFICES ASSUME IInv, [Next]_vars PROVE IInv'
  OBVIOUS
<1>1. CASE Bind \/ Recycle
  BY BindKeeps, RecycleKeeps, <1>1
<1>2. CASE Starter
  BY <1>2, StartAcceptedKeeps, PostOpenKeeps, AcceptFailsKeeps, ConnectKeeps DEF Starter
<1>3. CASE IoThread
  BY IoThreadKeeps, <1>3
<1>4. CASE WorkThread
  BY <1>4, DoWorkKeeps, DoCloseKeeps, CallOpKeeps, CallConnectChildKeeps, CallCloseKeeps,
     ReturnKeeps
     DEF WorkThread, DataOps
<1>5. CASE LinkedHandler
  BY <1>5, PostEventKeeps, LinkedCloseKeeps, UnlinkKeeps DEF LinkedHandler
<1>6. CASE (\E op \in Ops : Complete(op)) \/ (\E t \in Timers : Expire(t))
  BY CompleteKeeps, ExpireKeeps, <1>6
<1>7. CASE UNCHANGED vars
  BY StutterKeeps, <1>7
<1> QED
  BY <1>1, <1>2, <1>3, <1>4, <1>5, <1>6, <1>7 DEF Next

THEOREM HandlerInvariant == Spec => []IInv
<1> QED  BY InitHolds, NextKeeps, PTL DEF Spec

\* The variables keep their types.
THEOREM HandlerTyped == Spec => []TypeOK
<1>1. IInv => TypeOK
  BY DEF IInv
<1> QED  BY <1>1, HandlerInvariant, PTL

\* A closed handler has no pending operation and no armed timer.
THEOREM HandlerQuiet == Spec => []StoppedIsQuiet
<1>1. IInv => StoppedIsQuiet
  BY DEF IInv
<1> QED  BY <1>1, HandlerInvariant, PTL

\* With a session timeout every open session has its end on the way.
THEOREM HandlerGuarded == Spec => []SessionIsGuarded
<1>1. IInv => SessionIsGuarded
  BY DEF IInv
<1> QED  BY <1>1, HandlerInvariant, PTL

\* do_close is queued or has run, exactly once, from close_i on.
LEMMA CloseCount == IInv => ClosedOnce
<1> SUFFICES ASSUME IInv, phase # "free"
             PROVE  Cardinality(CloseIndices) + closed = IF stopped THEN 1 ELSE 0
  BY DEF ClosedOnce
<1>1. closed \in Nat /\ closed <= 1 /\ stopped \in BOOLEAN
  BY DEF IInv, TypeOK, CloseStages
<1>2. CASE stopped /\ closed = 0
  <2>1. PICK i \in 1..Len(workq) : workq[i] = "close"
    BY <1>2 DEF IInv, CloseStages
  <2>2. i \in CloseIndices /\ \A j \in CloseIndices : j = i
    BY <2>1 DEF IInv, CloseStages, CloseIndices
  <2>3. CloseIndices = {i}
    BY <2>2
  <2>4. Cardinality(CloseIndices) = 1
    BY FS_Singleton, <2>3
  <2> QED  BY <2>4, <1>2
<1>3. CASE ~stopped \/ closed > 0
  <2>1. CloseIndices = {}
    BY <1>3 DEF IInv, CloseStages, CloseIndices
  <2>2. closed = IF stopped THEN 1 ELSE 0
    BY <1>1, <1>3 DEF IInv, CloseStages
  <2> QED  BY <2>2, FS_EmptySet, <2>1
<1> QED  BY <1>2, <1>3, <1>1

THEOREM HandlerClosesOnce == Spec => []ClosedOnce
  BY HandlerInvariant, CloseCount, PTL
-----------------------------------------------------------------------------
(* ServiceHandler implements Session *)

Life == IF phase = "free" THEN "free"
        ELSE IF closed > 0 THEN "closed"
        ELSE IF opened THEN "opened" ELSE "bound"

\* A step that neither enters nor leaves a callback nor moves the session on.
Quiet == UNCHANGED <<callback, Life>>

LEMMA QuietSteps ==
  ASSUME IInv, \/ StartAccepted \/ PostOpen \/ AcceptFails \/ Connect \/ IoThread
               \/ CallConnectChild \/ (\E op \in DataOps : CallOp(op))
               \/ PostEvent \/ LinkedClose \/ Unlink \/ UNCHANGED vars
               \/ (\E op \in Ops : Complete(op)) \/ (\E t \in Timers : Expire(t))
  PROVE  Quiet
<1>1. ASSUME IoThread PROVE Quiet
  <2>1. ioUnchanged
    BY <1>1, IoStepShape DEF IInv
  <2> QED  BY <2>1 DEF ioUnchanged, Quiet, Life
<1>2. ASSUME StartAccepted \/ PostOpen \/ AcceptFails \/ Connect PROVE Quiet
  <2>1. UNCHANGED <<callback, closed, opened>> /\ phase # "free" /\ phase' # "free"
    BY <1>2 DEF StartAccepted, PostOpen, AcceptFails, Connect
  <2> QED  BY <2>1 DEF Quiet, Life
<1>3. ASSUME CallConnectChild \/ (\E op \in DataOps : CallOp(op)) PROVE Quiet
  BY <1>3 DEF CallConnectChild, CallOp, Quiet, Life
<1>4. ASSUME PostEvent \/ LinkedClose \/ Unlink \/ UNCHANGED vars PROVE Quiet
  BY <1>4 DEF PostEvent, LinkedClose, Unlink, vars, Quiet, Life
<1>5. ASSUME (\E op \in Ops : Complete(op)) \/ (\E t \in Timers : Expire(t)) PROVE Quiet
  BY <1>5 DEF Complete, Expire, Quiet, Life
<1> QED  BY <1>2, <1>3, <1>4, <1>5, <1>1

LEMMA StepRefines ==
  ASSUME IInv, [Next]_vars
  PROVE  [Promise!SNext]_(Promise!avars)
<1>1. ASSUME Quiet PROVE UNCHANGED Promise!avars
  BY <1>1 DEF Quiet, Life, Promise!avars
<1>2. ASSUME Bind PROVE Promise!Acquire
  BY <1>2 DEF IInv, NotStarted, Bind, Promise!Acquire
<1>3. ASSUME Recycle PROVE Promise!Release
  <2>1. SessionTimeout => closed > 0
    BY <1>3 DEF IInv, TypeOK, Recycle, NoReference, SessionIsGuarded, CloseStages
  <2> QED  BY <1>3, <2>1 DEF Recycle, NoReference, Promise!Release
<1>4. ASSUME DoWork PROVE UNCHANGED Promise!avars \/ \E c \in Promise!Callbacks : Promise!Enter(c)
  <2>1. phase \in {"starting", "run"}
    BY <1>4 DEF IInv, TypeOK, NotStarted, DoWork
  <2>2. CASE UNCHANGED <<callback, busy, opened>>
    BY <1>4, <2>2 DEF DoWork, Promise!avars
  <2>3. CASE ~UNCHANGED <<callback, busy, opened>>
    <3> DEFINE c == Head(workq)
    <3>1. /\ c \in {"open", "read", "write", "event"} /\ 1 \in 1..Len(workq) /\ c = workq[1]
          /\ Len(workq) \in Nat
      BY <1>4 DEF IInv, TypeOK, DoWork, WorkHandlers
    <3>2. PICK seen \in StoppedReads :
            ~seen /\ callback' = c /\ opened' = (opened \/ c = "open")
      BY <1>4, <2>3 DEF DoWork
    <3>a. callback = "idle" /\ UNCHANGED <<phase, closed>>
      BY <1>4 DEF DoWork
    <3>3. closed = 0
      <4>1. CASE stopped /\ closed # 0
        BY <3>2, <4>1 DEF StoppedReads
      <4>2. CASE ~stopped
        BY <4>2 DEF IInv, TypeOK, CloseStages
      <4> QED  BY <4>2, <4>1
    <3>4. c = "open" => ~opened
      BY <3>1 DEF IInv, OpenStages
    <3>5. c \in DataOps => opened
      BY <3>1 DEF IInv, DataAfterOpen
    <3> HIDE DEF c
    <3>6. Promise!Enter(c)
      <4>a. phase # "free" /\ phase' # "free" /\ ~(closed > 0) /\ ~(closed' > 0)
        BY <3>a, <3>3, <2>1
      <4>1. CASE c = "open"
        <5>1. ~opened /\ opened'
          BY <3>4, <4>1, <3>2
        <5> QED  BY <3>2, <3>a, <4>a, <5>1 DEF Promise!Enter
      <4>2. CASE c \in DataOps
        <5>1. opened /\ opened'
          BY <3>5, <4>2, <3>2
        <5> QED  BY <3>2, <3>a, <4>a, <4>2, <5>1 DEF Promise!Enter, Promise!DataCallbacks, DataOps
      <4>3. CASE c = "event"
        <5>1. opened' <=> opened
          BY <4>3, <3>2
        <5> QED  BY <3>2, <3>a, <4>a, <4>3 DEF Promise!Enter
      <4> QED  BY <3>1, <4>1, <4>2, <4>3 DEF DataOps
    <3> QED  BY <3>1, <3>6 DEF Promise!Callbacks, Promise!DataCallbacks
  <2> QED  BY <2>3, <2>2
<1>5. ASSUME DoClose PROVE Promise!Enter("close")
  <2>1. phase \in {"starting", "run"} /\ closed = 0
    BY <1>5 DEF IInv, TypeOK, NotStarted, CloseStages, DoClose
  <2> QED  BY <1>5, <2>1 DEF DoClose, Promise!Enter
<1>6. ASSUME CallClose \/ Return PROVE Promise!Leave
  BY <1>6 DEF CallClose, Return, Promise!Leave
<1> QED
  BY <1>1, <1>2, <1>3, <1>4, <1>5, <1>6, QuietSteps
     DEF Next, Starter, WorkThread, LinkedHandler, DataOps, Promise!SNext, Promise!Callbacks

\* The handler keeps the promise of Session: the order of the callbacks, on_close
\* last and once, and no recycling before on_close under a session timeout.
THEOREM HandlerCallbackOrder == Spec => CallbackOrder
<1>1. Init => Promise!SInit
  BY DEF Init, Promise!SInit
<1>2. IInv /\ [Next]_vars => [Promise!SNext]_(Promise!avars)
  BY StepRefines
<1> QED  BY <1>1, <1>2, HandlerInvariant, PTL DEF Spec, CallbackOrder, Promise!SSpec

-----------------------------------------------------------------------------
(***************************************************************************)
(* Theorems about the client of the echo example, for every choice of      *)
(* timeouts, pauses and bounds.  The steps of its service_handler keep the *)
(* invariant above, and so does the end of the pause, which does not own   *)
(* the session.                                                            *)
(*                                                                         *)
(* The argument is that a session is carried on by one token, which is in  *)
(* one place at a time: in the queue of the io thread, at asio, in the     *)
(* queue of the work thread, in a callback, or with the pause timer.  It   *)
(* is lost only when the session is closed, and then a message that came   *)
(* back as a whole has been counted.                                       *)
(***************************************************************************)

-----------------------------------------------------------------------------
(* The token *)

IsToken(x) ==
  \/ x.h \in {"connect_i", "read_i", "write_i"} \cup Ops
  \/ x.h = "pause" /\ x.ec # "aborted"
Reports == {"open", "read", "write"}

InIo == \E i \in 1..Len(ioq) : IsToken(ioq[i])
InWork == \E i \in 1..Len(workq) : workq[i] \in Reports
AtAsio == pend # {}
InCallback ==
  \/ callback = "open" /\ "write" \notin busy
  \/ callback = "write" /\ "read" \notin busy
  \/ callback = "read"

HasToken == InIo \/ InWork \/ AtAsio \/ InCallback \/ pausing

OneInIo == \A i, j \in 1..Len(ioq) : IsToken(ioq[i]) /\ IsToken(ioq[j]) => i = j
OneInWork == \A i, j \in 1..Len(workq) : workq[i] \in Reports /\ workq[j] \in Reports => i = j
OneAtAsio == \A op, other \in pend : op = other
InOnePlace ==
  /\ InIo => ~InWork /\ ~AtAsio /\ ~InCallback /\ ~pausing
  /\ InWork => ~AtAsio /\ ~InCallback /\ ~pausing
  /\ AtAsio => ~InCallback /\ ~pausing
  /\ InCallback => ~pausing
OneToken == OneInIo /\ OneInWork /\ OneAtAsio /\ InOnePlace

\* An open session goes on, or is being closed.
Closing == \E i \in 1..Len(ioq) : ioq[i].h = "close_i"
GoesOn == phase = "run" /\ ~stopped => HasToken \/ Closing
-----------------------------------------------------------------------------
(* The invariant *)

EchoTypes ==
  /\ pause \in BOOLEAN /\ timer \in BOOLEAN /\ pausing \in BOOLEAN
  /\ buffer \in {"empty", "whole", "other"} /\ reason \in {"none", "timed_out", "other", "told"}
  /\ timeouts \in Int /\ errors \in Int /\ served \in Int

\* on_close tells its reason once, and the session is over.
Told ==
  /\ reason = "told" => closed > 0 /\ callback \in {"idle", "close"}
  /\ closed > 0 /\ callback # "close" => reason = "told"
  /\ callback \notin {"idle", "close"} => closed = 0

PauseQueued == \E i \in 1..Len(ioq) : ioq[i].h = "pause"
PauseAborted == \E i \in 1..Len(ioq) : ioq[i].h = "pause" /\ ioq[i].ec = "aborted"
PauseEnded == \E i \in 1..Len(ioq) : ioq[i].h = "pause" /\ ioq[i].ec # "aborted"

\* The pause belongs to an open session, and its timer is there until the session is closed.
PauseOwned ==
  /\ pausing => phase = "run" /\ opened /\ timer /\ reason # "told"
  /\ PauseQueued => opened
  /\ PauseAborted => closed > 0
  /\ PauseEnded => timer \/ closed > 0

IoReads == \A i \in 1..Len(ioq) : IsToken(ioq[i]) => ioq[i].h \in {"read_i", "read"}
WorkReads == \A i \in 1..Len(workq) : workq[i] \in Reports => workq[i] = "read"

\* A session is connected, never accepted; busy says what it has come to.
Stages ==
  /\ phase # "starting"
  /\ callback = "open" => opened
  /\ ~opened \/ (callback = "open" /\ pause) => busy = {}
  /\ "read" \in busy =>
       /\ IoReads /\ WorkReads /\ pend \subseteq {"read"}
       /\ callback # "open" /\ ~pausing

\* Nothing has been read while the token is on its way.
Unread == phase = "bound" \/ HasToken => buffer = "empty"

\* The sessions that are over have been counted, and the message of another one if it is back.
Score ==
  errors + served =
    IF phase = "free" \/ reason = "told" THEN session
    ELSE (session - 1) + (IF buffer = "whole" THEN 1 ELSE 0)

ClientInv ==
  EchoTypes /\ OneToken /\ GoesOn /\ Told /\ PauseOwned /\ Stages /\ Unread /\ Score
EchoInv == IInv /\ ClientInv
-----------------------------------------------------------------------------
(* What the invariant says of the queues, when they change *)

\* All of them, for a queue that does not change.
LEMMA IoKept ==
  ASSUME UNCHANGED ioq
  PROVE  /\ InIo' <=> InIo
         /\ Closing' <=> Closing
         /\ OneInIo' <=> OneInIo
         /\ IoReads' <=> IoReads
         /\ PauseQueued' <=> PauseQueued
         /\ PauseAborted' <=> PauseAborted
         /\ PauseEnded' <=> PauseEnded
BY DEF InIo, Closing, OneInIo, IoReads, PauseQueued, PauseAborted, PauseEnded, IsToken

LEMMA WorkKept ==
  ASSUME UNCHANGED workq
  PROVE  /\ InWork' <=> InWork
         /\ OneInWork' <=> OneInWork
         /\ WorkReads' <=> WorkReads
BY DEF InWork, OneInWork, WorkReads

\* An item is appended to the queue of the io thread.
LEMMA IoAppended ==
  ASSUME ioq \in Seq(IoItems), NEW x \in IoItems, ioq' = Append(ioq, x)
  PROVE  /\ InIo' <=> InIo \/ IsToken(x)
         /\ Closing' <=> Closing \/ x.h = "close_i"
         /\ OneInIo /\ ~(InIo /\ IsToken(x)) => OneInIo'
         /\ IoReads' <=> IoReads /\ (IsToken(x) => x.h \in {"read_i", "read"})
         /\ PauseQueued' <=> PauseQueued \/ x.h = "pause"
         /\ PauseAborted' <=> PauseAborted \/ (x.h = "pause" /\ x.ec = "aborted")
         /\ PauseEnded' <=> PauseEnded \/ (x.h = "pause" /\ x.ec # "aborted")
<1>1. /\ Len(ioq) \in Nat /\ Len(ioq') = Len(ioq) + 1 /\ ioq'[Len(ioq) + 1] = x
      /\ \A i \in 1..Len(ioq) : ioq'[i] = ioq[i]
  OBVIOUS
<1>2. \A i : i \in 1..Len(ioq') <=> i \in 1..Len(ioq) \/ i = Len(ioq) + 1
  BY <1>1
<1>3. PICK n : n = Len(ioq) + 1 /\ n \notin 1..Len(ioq)
  BY <1>1
<1>4. /\ \A i : i \in 1..Len(ioq') <=> i \in 1..Len(ioq) \/ i = n
      /\ ioq'[n] = x /\ \A i \in 1..Len(ioq) : ioq'[i] = ioq[i]
  BY <1>1, <1>2, <1>3
<1>5. InIo' <=> \E i \in 1..Len(ioq') : IsToken(ioq'[i])
  BY DEF InIo, IsToken
<1>6. Closing' <=> Closing \/ x.h = "close_i"
  BY <1>4 DEF Closing
<1>7. OneInIo' <=> \A i, j \in 1..Len(ioq') : IsToken(ioq'[i]) /\ IsToken(ioq'[j]) => i = j
  BY DEF OneInIo, IsToken
<1>8. IoReads' <=> \A i \in 1..Len(ioq') : IsToken(ioq'[i]) => ioq'[i].h \in {"read_i", "read"}
  BY DEF IoReads, IsToken
<1>9. InIo' <=> InIo \/ IsToken(x)
  BY <1>4, <1>5 DEF InIo
<1>10. OneInIo /\ ~(InIo /\ IsToken(x)) => OneInIo'
  BY <1>4, <1>7 DEF OneInIo, InIo
<1>11. IoReads' <=> IoReads /\ (IsToken(x) => x.h \in {"read_i", "read"})
  BY <1>4, <1>8 DEF IoReads
<1>12. /\ PauseQueued' <=> PauseQueued \/ x.h = "pause"
       /\ PauseAborted' <=> PauseAborted \/ (x.h = "pause" /\ x.ec = "aborted")
       /\ PauseEnded' <=> PauseEnded \/ (x.h = "pause" /\ x.ec # "aborted")
  BY <1>4 DEF PauseQueued, PauseAborted, PauseEnded
<1>13. QED
  BY <1>6, <1>9, <1>10, <1>11, <1>12

\* The io thread is done with the handler at the head of its queue.
LEMMA IoTaken ==
  ASSUME ioq \in Seq(IoItems), ioq # <<>>, NEW P \in SUBSET Ops, QueueAfter(P), OneInIo,
         \A op, other \in P : op = other, P # {} => ~InIo
  PROVE  /\ OneInIo'
         /\ InIo' => P # {} \/ (InIo /\ ~IsToken(Head(ioq)))
         /\ InIo /\ ~IsToken(Head(ioq)) => InIo'
         /\ Closing /\ Head(ioq).h # "close_i" => Closing'
         /\ IoReads /\ P \subseteq {"read"} => IoReads'
         /\ PauseQueued' => PauseQueued
         /\ PauseAborted' => PauseAborted
         /\ PauseEnded' => PauseEnded
<1>1. Head(ioq) = ioq[1] /\ Len(ioq) \in Nat /\ Len(ioq) >= 1 /\ 1 \in 1..Len(ioq)
  OBVIOUS
<1>2. \A i \in 1..Len(ioq) : i = 1 \/ (i \in 2..Len(ioq) /\ i - 1 \in 1..Len(ioq') /\ ioq'[i - 1] = ioq[i])
  BY <1>1 DEF QueueAfter
<1>3. \A i \in 1..Len(ioq') :
        \/ i + 1 \in 1..Len(ioq) /\ i + 1 # 1 /\ ioq'[i] = ioq[i + 1]
        \/ ~Moved(i) /\ ioq'[i].h \in P \cup Timers /\ ioq'[i].ec = "aborted"
  BY <1>1 DEF QueueAfter, Moved
<1>4. P \subseteq Ops /\ \A h : h \in Timers => h \notin {"connect_i", "read_i", "write_i", "pause"} \cup Ops
  BY DEF Timers, Ops
<1>5. \A i \in 1..Len(ioq') : IsToken(ioq'[i]) =>
        \/ i + 1 \in 1..Len(ioq) /\ i + 1 # 1 /\ ioq'[i] = ioq[i + 1] /\ IsToken(ioq[i + 1])
        \/ ~Moved(i) /\ ioq'[i].h \in P
  BY <1>3, <1>4 DEF IsToken
<1>6. InIo' <=> \E i \in 1..Len(ioq') : IsToken(ioq'[i])
  BY DEF InIo, IsToken
<1>7. OneInIo' <=> \A i, j \in 1..Len(ioq') : IsToken(ioq'[i]) /\ IsToken(ioq'[j]) => i = j
  BY DEF OneInIo, IsToken
<1>8. IoReads' <=> \A i \in 1..Len(ioq') : IsToken(ioq'[i]) => ioq'[i].h \in {"read_i", "read"}
  BY DEF IoReads, IsToken
<1>9. OneInIo'
  <2> SUFFICES ASSUME NEW i \in 1..Len(ioq'), NEW j \in 1..Len(ioq'), IsToken(ioq'[i]), IsToken(ioq'[j])
               PROVE  i = j
    BY <1>7
  <2>1. CASE P = {}
    <3>1. /\ i + 1 \in 1..Len(ioq) /\ IsToken(ioq[i + 1])
          /\ j + 1 \in 1..Len(ioq) /\ IsToken(ioq[j + 1])
      BY <1>5, <2>1
    <3>2. i + 1 = j + 1
      BY <3>1 DEF OneInIo
    <3>3. QED
      BY <3>2
  <2>2. CASE P # {}
    <3>1. ~Moved(i) /\ ~Moved(j) /\ ioq'[i].h \in P /\ ioq'[j].h \in P
      BY <1>5, <2>2 DEF InIo
    <3>2. ioq'[i].h = ioq'[j].h /\ ioq'[i].h \in Ops
      BY <1>4, <3>1
    <3>3. QED
      BY <3>1, <3>2 DEF QueueAfter
  <2>3. QED
    BY <2>1, <2>2
<1>10. InIo' => P # {} \/ (InIo /\ ~IsToken(Head(ioq)))
  <2> SUFFICES ASSUME NEW i \in 1..Len(ioq'), IsToken(ioq'[i]), P = {}
               PROVE  InIo /\ ~IsToken(Head(ioq))
    BY <1>6
  <2>1. i + 1 \in 1..Len(ioq) /\ i + 1 # 1 /\ IsToken(ioq[i + 1])
    BY <1>5
  <2>2. QED
    BY <1>1, <2>1 DEF InIo, OneInIo
<1>11. InIo /\ ~IsToken(Head(ioq)) => InIo'
  BY <1>1, <1>2, <1>6 DEF InIo
<1>12. Closing /\ Head(ioq).h # "close_i" => Closing'
  BY <1>1, <1>2 DEF Closing
<1>13. IoReads /\ P \subseteq {"read"} => IoReads'
  BY <1>5, <1>8 DEF IoReads
<1>14. \A i \in 1..Len(ioq') : ioq'[i].h = "pause" => i + 1 \in 1..Len(ioq) /\ ioq'[i] = ioq[i + 1]
  BY <1>3, <1>4 DEF Ops
<1>15. (PauseQueued' => PauseQueued) /\ (PauseAborted' => PauseAborted) /\ (PauseEnded' => PauseEnded)
  BY <1>14 DEF PauseQueued, PauseAborted, PauseEnded
<1>16. QED
  BY <1>9, <1>10, <1>11, <1>12, <1>13, <1>15

\* A callback is queued for the work thread.
LEMMA WorkAppended ==
  ASSUME workq \in Seq(WorkHandlers), NEW x \in WorkHandlers, workq' = Append(workq, x)
  PROVE  /\ InWork' <=> InWork \/ x \in Reports
         /\ OneInWork /\ ~(InWork /\ x \in Reports) => OneInWork'
         /\ WorkReads' <=> WorkReads /\ (x \in Reports => x = "read")
<1>1. /\ Len(workq) \in Nat /\ Len(workq') = Len(workq) + 1 /\ workq'[Len(workq) + 1] = x
      /\ \A i \in 1..Len(workq) : workq'[i] = workq[i]
  OBVIOUS
<1>2. \A i : i \in 1..Len(workq') <=> i \in 1..Len(workq) \/ i = Len(workq) + 1
  BY <1>1
<1>3. PICK n : n = Len(workq) + 1 /\ n \notin 1..Len(workq)
  BY <1>1
<1>4. /\ \A i : i \in 1..Len(workq') <=> i \in 1..Len(workq) \/ i = n
      /\ workq'[n] = x /\ \A i \in 1..Len(workq) : workq'[i] = workq[i]
  BY <1>1, <1>2, <1>3
<1>5. QED
  BY <1>4 DEF InWork, OneInWork, WorkReads

\* The work thread takes the first callback.
LEMMA WorkTaken ==
  ASSUME workq \in Seq(WorkHandlers), workq # <<>>, workq' = Tail(workq), OneInWork
  PROVE  /\ OneInWork'
         /\ InWork' <=> InWork /\ Head(workq) \notin Reports
         /\ WorkReads => WorkReads'
         /\ Head(workq) \in Reports => InWork
         /\ Head(workq) \in Reports /\ WorkReads => Head(workq) = "read"
<1>1. /\ Head(workq) = workq[1] /\ Len(workq) \in Nat /\ 1 \in 1..Len(workq)
      /\ \A i \in 1..Len(workq') : i + 1 \in 1..Len(workq) /\ workq'[i] = workq[i + 1] /\ i + 1 # 1
      /\ \A i \in 1..Len(workq) : i = 1 \/ (i - 1 \in 1..Len(workq') /\ workq'[i - 1] = workq[i])
  OBVIOUS
<1>2. OneInWork'
  <2> SUFFICES ASSUME NEW i \in 1..Len(workq'), NEW j \in 1..Len(workq'),
                      workq'[i] \in Reports, workq'[j] \in Reports
               PROVE  i = j
    BY DEF OneInWork
  <2>1. i + 1 = j + 1
    BY <1>1 DEF OneInWork
  <2>2. QED
    BY <2>1
<1>3. InWork' <=> InWork /\ Head(workq) \notin Reports
  BY <1>1 DEF InWork, OneInWork
<1>4. WorkReads => WorkReads'
  BY <1>1 DEF WorkReads
<1>5. QED
  BY <1>1, <1>2, <1>3, <1>4 DEF InWork, WorkReads
-----------------------------------------------------------------------------
(* The pause is no step of the handler, and keeps the handler's invariant *)

\* The wait for the pause ends or is cancelled in a running session.
LEMMA PauseItemKeeps ==
  ASSUME IInv, phase \notin {"free", "bound"}, NEW x \in IoItems, x.h = "pause",
         ioq' \in {ioq, Append(ioq, x)}, callback' \in {callback, "idle"},
         UNCHANGED <<session, phase, stopped, pend, armed, workq, busy, opened, closed,
                     held, ops, events>>
  PROVE  IInv'
<1>1. ioq \in Seq(IoItems) /\ ioq' \in Seq(IoItems)
  BY DEF IInv, TypeOK
<1>2. \A i \in 1..Len(ioq') : (i \in 1..Len(ioq) /\ ioq'[i] = ioq[i]) \/ ioq'[i].h = "pause"
  BY <1>1
<1>3. \A i \in 1..Len(ioq) : i \in 1..Len(ioq') /\ ioq'[i] = ioq[i]
  BY <1>1
<1>4. TypeOK'
  BY <1>1 DEF IInv, TypeOK
<1>5. NotStarted' /\ StoppedIsQuiet'
  BY DEF IInv, NotStarted, StoppedIsQuiet
<1>6. CloseStages'
  BY DEF IInv, CloseStages
<1>7. OpenStages'
  BY <1>2 DEF IInv, OpenStages, ConnectItems
<1>8. ConnectIsFirst'
  BY <1>2 DEF IInv, ConnectIsFirst
<1>9. DataAfterOpen'
  BY <1>2 DEF IInv, DataAfterOpen, DataItems
<1>10. SessionIsGuarded'
  BY <1>3 DEF IInv, SessionIsGuarded
<1>11. QED
  BY <1>4, <1>5, <1>6, <1>7, <1>8, <1>9, <1>10 DEF IInv

LEMMA PauseItem ==
  /\ Item("pause", "ok") \in IoItems /\ Item("pause", "aborted") \in IoItems
  /\ Item("pause", "ok").h = "pause" /\ Item("pause", "ok").ec = "ok"
  /\ Item("pause", "aborted").h = "pause" /\ Item("pause", "aborted").ec = "aborted"
BY DEF Item, IoItems, IoHandlers, Results

\* The end of the pause is dropped, or starts a write of an open session.
LEMMA PauseOverShape ==
  ASSUME EchoInv, PauseOver
  PROVE  /\ ioq # <<>> /\ ioUnchanged /\ UNCHANGED clientVars /\ Head(ioq).h = "pause"
         /\ \/ IoDrop(<<>>)
            \/ Head(ioq).ec # "aborted" /\ \E r : IoStart(r, "write")
<1>1. ioq # <<>> /\ ioUnchanged /\ UNCHANGED clientVars /\ Head(ioq).h = "pause"
  BY DEF PauseOver, IoHead
<1>2. /\ ioq \in Seq(IoItems) /\ 1 \in 1..Len(ioq) /\ Head(ioq) = ioq[1]
  BY <1>1 DEF EchoInv, IInv, TypeOK
<1>3. PICK seen \in TimerReads :
        IF Head(ioq).ec = "aborted" \/ ~seen \/ stopped THEN Drop
        ELSE SetExpiry({"io"}) /\ pend' = pend \cup {"write"} /\ UNCHANGED <<stopped, workq>>
  BY DEF PauseOver
<1>4. CASE Head(ioq).ec = "aborted" \/ ~seen \/ stopped
  <2>1. Drop
    BY <1>3, <1>4
  <2>2. stopped \/ Head(ioq).ec = "aborted"
    <3>1. SUFFICES ASSUME Head(ioq).ec # "aborted", ~seen
                   PROVE  closed > 0
      BY <1>4 DEF EchoInv, IInv, CloseStages
    <3>2. PauseEnded
      BY <1>1, <1>2, <3>1 DEF PauseEnded
    <3>3. callback = "close" \/ timer = FALSE
      BY <3>1 DEF TimerReads
    <3>4. QED
      BY <3>2, <3>3 DEF EchoInv, IInv, CloseStages, ClientInv, PauseOwned
  <2>3. IoDrop(<<>>)
    BY <1>1, <2>1, <2>2, AbortsNone DEF Drop, IoDrop
  <2>4. QED
    BY <1>1, <2>3
<1>5. CASE ~(Head(ioq).ec = "aborted" \/ ~seen \/ stopped)
  <2>1. SetExpiry({"io"}) /\ pend' = pend \cup {"write"} /\ UNCHANGED <<stopped, workq>>
    BY <1>3, <1>5
  <2>2. opened
    BY <1>1, <1>2 DEF EchoInv, ClientInv, PauseOwned, PauseQueued
  <2>3. \E r : IoStart(r, "write")
    BY <1>1, <1>5, <2>1, <2>2, AbortsWaits DEF SetExpiry, IoStart, Timers
  <2>4. QED
    BY <1>1, <1>5, <2>3
<1>6. QED
  BY <1>4, <1>5

LEMMA HandlerKept ==
  ASSUME EchoInv, [EchoNext]_echoVars
  PROVE  IInv'
<1>1. IInv /\ ClientInv
  BY DEF EchoInv
<1>2. ASSUME [Next]_vars PROVE IInv'
  BY <1>1, <1>2, NextKeeps
<1>3. CASE EchoBind \/ EchoConnect \/ EchoRecycle \/ EchoIo
  BY <1>2, <1>3 DEF EchoBind, EchoConnect, EchoRecycle, EchoIo, Next, Starter
<1>4. CASE (\E op \in Ops : EchoComplete(op)) \/ (\E t \in Timers : EchoExpire(t))
  BY <1>2, <1>4 DEF EchoComplete, EchoExpire, Next
<1>5. CASE NextCallback \/ OnOpen \/ OnWrite \/ OnRead \/ CallbackReturns
  BY <1>2, <1>5 DEF NextCallback, OnOpen, OnWrite, OnRead, CallbackReturns, Next, WorkThread
<1>6. CASE PauseOver
  BY <1>1, <1>6, PauseOverShape, IoDropKeeps, IoStartKeeps DEF DataOps
<1>7. CASE PauseExpires
  <2>1. phase = "run"
    BY <1>1, <1>7 DEF PauseExpires, ClientInv, PauseOwned
  <2>2. QED
    BY <1>1, <1>7, <2>1, PauseItem, PauseItemKeeps DEF PauseExpires
<1>8. CASE OnOpenPause \/ OnClose
  <2>1. phase \notin {"free", "bound"}
    BY <1>1, <1>8 DEF OnOpenPause, OnClose, IInv, NotStarted
  <2>2. /\ ioq' \in {ioq, Append(ioq, Item("pause", "aborted"))}
        /\ callback' \in {callback, "idle"}
        /\ UNCHANGED <<session, phase, stopped, pend, armed, workq, busy, opened, closed,
                       held, ops, events>>
    BY <1>8 DEF OnOpenPause, OnClose, CancelPause, workUnchanged
  <2>3. QED
    BY <1>1, <2>1, <2>2, PauseItem, PauseItemKeeps
<1>9. CASE UNCHANGED echoVars
  BY <1>2, <1>9 DEF echoVars
<1>10. QED
  BY <1>3, <1>4, <1>5, <1>6, <1>7, <1>8, <1>9 DEF EchoNext, EchoWork
-----------------------------------------------------------------------------
(* Every step keeps ClientInv: the steps of the io thread *)

\* What these proofs use of IInv.
LEMMA HandlerFacts ==
  ASSUME IInv
  PROVE  /\ ioq \in Seq(IoItems) /\ workq \in Seq(WorkHandlers)
         /\ closed \in Nat /\ stopped \in BOOLEAN /\ session \in Nat
         /\ pend \subseteq Ops
         /\ closed > 0 => stopped
         /\ callback = "close" => closed > 0
         /\ stopped => pend = {}
         /\ phase \in {"free", "bound"} =>
              ioq = <<>> /\ workq = <<>> /\ pend = {} /\ callback = "idle"
         /\ phase \in {"bound", "starting"} => ~opened
         /\ phase = "bound" => ~stopped /\ closed = 0
BY DEF IInv, TypeOK, CloseStages, StoppedIsQuiet, NotStarted

LEMMA TokenAtHead ==
  ASSUME ioq \in Seq(IoItems), ioq # <<>>
  PROVE  /\ Head(ioq) \in IoItems
         /\ IsToken(Head(ioq)) => InIo
         /\ IoReads /\ IsToken(Head(ioq)) => Head(ioq).h \in {"read_i", "read"}
<1>1. Head(ioq) = ioq[1] /\ 1 \in 1..Len(ioq) /\ Head(ioq) \in IoItems
  OBVIOUS
<1>2. QED
  BY <1>1 DEF InIo, IoReads

\* A handler is dropped: the session is closed, or it is an aborted timer.
LEMMA DropKeeps ==
  ASSUME EchoInv, ioq # <<>>, ioUnchanged, NEW r, IoDrop(r), UNCHANGED clientVars
  PROVE  ClientInv'
<1>1. IInv /\ ClientInv
  BY DEF EchoInv
<1>2. QueueAfter({})
  BY <1>1, DoneFacts DEF IInv, IoDrop
<1>3. /\ OneInIo' /\ (InIo' => InIo)
      /\ InIo /\ ~IsToken(Head(ioq)) => InIo'
      /\ Closing /\ Head(ioq).h # "close_i" => Closing'
      /\ IoReads => IoReads'
      /\ PauseQueued' => PauseQueued
      /\ PauseAborted' => PauseAborted
      /\ PauseEnded' => PauseEnded
  BY <1>1, <1>2, HandlerFacts, IoTaken DEF ClientInv, OneToken
<1>4. (InWork' <=> InWork) /\ (OneInWork' <=> OneInWork) /\ (WorkReads' <=> WorkReads)
  BY WorkKept DEF IoDrop
<1>5. UNCHANGED <<session, phase, stopped, pend, callback, busy, opened, closed>>
  BY DEF ioUnchanged, IoDrop
<1>6. UNCHANGED <<pause, timer, pausing, buffer, reason, timeouts, errors, served>>
  BY DEF clientVars, counters
<1>7. (AtAsio' <=> AtAsio) /\ (InCallback' <=> InCallback) /\ (HasToken' => HasToken)
  BY <1>3, <1>4, <1>5, <1>6 DEF AtAsio, InCallback, HasToken
<1>8. EchoTypes' /\ Told' /\ Score'
  BY <1>1, <1>5, <1>6 DEF ClientInv, EchoTypes, Told, Score
<1>9. OneToken'
  BY <1>1, <1>3, <1>4, <1>5, <1>6, <1>7 DEF ClientInv, OneToken, OneAtAsio, InOnePlace
<1>10. GoesOn'
  <2>1. SUFFICES ASSUME phase = "run", ~stopped
                 PROVE  HasToken' \/ Closing'
    BY <1>5 DEF GoesOn
  <2>2. ~IsToken(Head(ioq)) /\ Head(ioq).h # "close_i"
    BY <2>1 DEF IoDrop, IsToken, Timers, Ops
  <2>3. HasToken \/ Closing
    BY <1>1, <2>1 DEF ClientInv, GoesOn
  <2>4. QED
    BY <1>3, <1>4, <1>5, <1>6, <1>7, <2>2, <2>3 DEF HasToken
<1>11. PauseOwned'
  BY <1>1, <1>3, <1>5, <1>6 DEF ClientInv, PauseOwned
<1>12. Stages'
  BY <1>1, <1>3, <1>4, <1>5, <1>6 DEF ClientInv, Stages
<1>13. Unread'
  BY <1>1, <1>5, <1>6, <1>7 DEF ClientInv, Unread
<1>14. QED
  BY <1>8, <1>9, <1>10, <1>11, <1>12, <1>13 DEF ClientInv

\* close_i closes the socket: what was pending there comes back as aborted.
LEMMA CloseKeeps ==
  ASSUME EchoInv, ioq # <<>>, ioUnchanged, NEW r, IoClose(r),
         reason' \in {"timed_out", "other"}, UNCHANGED <<pause, timer, pausing, buffer, counters>>
  PROVE  ClientInv'
<1>1. IInv /\ ClientInv
  BY DEF EchoInv
<1>2. pend \in SUBSET Ops /\ QueueAfter(pend)
  BY <1>1, HandlerFacts, DoneFacts DEF IInv, IoClose
<1>3. /\ \A op, other \in pend : op = other
      /\ pend # {} => ~InIo
  BY <1>1 DEF ClientInv, OneToken, OneAtAsio, InOnePlace, AtAsio
<1>4. /\ OneInIo' /\ (InIo' => pend # {} \/ InIo)
      /\ IoReads /\ pend \subseteq {"read"} => IoReads'
      /\ PauseQueued' => PauseQueued
      /\ PauseAborted' => PauseAborted
      /\ PauseEnded' => PauseEnded
  BY <1>1, <1>2, <1>3, HandlerFacts, IoTaken DEF ClientInv, OneToken
<1>5. /\ InWork' <=> InWork
      /\ OneInWork => OneInWork'
      /\ WorkReads' <=> WorkReads
  BY <1>1, HandlerFacts, WorkAppended DEF IoClose, WorkHandlers, Reports
<1>6. /\ UNCHANGED <<session, phase, callback, busy, opened, closed>>
      /\ ~stopped /\ stopped' /\ pend' = {} /\ closed = 0 /\ reason # "told"
  <2>1. closed = 0
    BY <1>1, HandlerFacts DEF IoClose
  <2>2. QED
    BY <1>1, <2>1 DEF ioUnchanged, IoClose, ClientInv, Told
<1>7. UNCHANGED <<pause, timer, pausing, buffer, timeouts, errors, served>>
  BY DEF counters
<1>8. ~AtAsio' /\ (InCallback' <=> InCallback) /\ (HasToken' => HasToken)
  BY <1>4, <1>5, <1>6, <1>7 DEF AtAsio, InCallback, HasToken
<1>9. EchoTypes' /\ Told' /\ Score'
  <2>1. EchoTypes' /\ Told'
    BY <1>1, <1>6, <1>7 DEF ClientInv, EchoTypes, Told
  <2>2. Score'
    BY <1>1, <1>6, <1>7 DEF ClientInv, Score
  <2>3. QED
    BY <2>1, <2>2
<1>10. OneToken'
  BY <1>1, <1>4, <1>5, <1>6, <1>7, <1>8 DEF ClientInv, OneToken, OneAtAsio, InOnePlace, AtAsio
<1>11. GoesOn'
  BY <1>6 DEF GoesOn
<1>12. PauseOwned'
  BY <1>1, <1>4, <1>6, <1>7 DEF ClientInv, PauseOwned
<1>13. Stages'
  BY <1>1, <1>4, <1>5, <1>6, <1>7 DEF ClientInv, Stages
<1>14. Unread'
  BY <1>1, <1>6, <1>7, <1>8 DEF ClientInv, Unread
<1>15. QED
  BY <1>9, <1>10, <1>11, <1>12, <1>13, <1>14 DEF ClientInv

\* The token passes from the head of the queue to asio or to the work thread.
PassOn(x) ==
  \/ pend' = pend \cup {x} /\ UNCHANGED workq
  \/ x \in Reports /\ workq' = Append(workq, x) /\ UNCHANGED pend

LEMMA PassOnKeeps ==
  ASSUME EchoInv, ioq # <<>>, ioUnchanged, IsToken(Head(ioq)), QueueAfter({}),
         NEW x \in Ops \cup Reports, PassOn(x), UNCHANGED stopped, UNCHANGED clientVars,
         Head(ioq).h \in {"read_i", "read"} => x = "read"
  PROVE  ClientInv'
<1>1. IInv /\ ClientInv
  BY DEF EchoInv
<1>2. ioq \in Seq(IoItems) /\ workq \in Seq(WorkHandlers)
  BY <1>1, HandlerFacts
<1>3. InIo /\ ~InWork /\ pend = {} /\ ~InCallback /\ ~pausing /\ ~AtAsio
  BY <1>1, <1>2, TokenAtHead DEF ClientInv, OneToken, InOnePlace, AtAsio
<1>4. "read" \in busy => x = "read"
  BY <1>1, <1>2, TokenAtHead DEF ClientInv, Stages
<1>5. /\ OneInIo' /\ ~InIo'
      /\ IoReads => IoReads'
      /\ PauseQueued' => PauseQueued
      /\ PauseAborted' => PauseAborted
      /\ PauseEnded' => PauseEnded
  BY <1>1, <1>2, IoTaken DEF ClientInv, OneToken
<1>6. /\ OneInWork' /\ (WorkReads /\ x = "read" => WorkReads')
      /\ \A op, other \in pend' : op = other
      /\ pend' \subseteq {x}
      /\ \/ ~InWork' /\ pend' # {}
         \/ InWork' /\ pend' = {}
  <2>1. CASE pend' = pend \cup {x} /\ UNCHANGED workq
    BY <1>1, <1>3, <2>1, WorkKept DEF ClientInv, OneToken
  <2>2. CASE x \in Reports /\ workq' = Append(workq, x) /\ UNCHANGED pend
    <3>1. x \in WorkHandlers
      BY <2>2 DEF Reports, WorkHandlers
    <3>2. QED
      BY <1>1, <1>2, <1>3, <2>2, <3>1, WorkAppended DEF ClientInv, OneToken
  <2>3. QED
    BY <2>1, <2>2 DEF PassOn
<1>7. UNCHANGED <<session, phase, stopped, callback, busy, opened, closed>>
  BY DEF ioUnchanged
<1>8. UNCHANGED <<pause, timer, pausing, buffer, reason, timeouts, errors, served>>
  BY DEF clientVars, counters
<1>9. (InCallback' <=> InCallback) /\ HasToken' /\ HasToken
  BY <1>3, <1>6, <1>7 DEF AtAsio, InCallback, HasToken
<1>10. EchoTypes' /\ Told' /\ Score'
  BY <1>1, <1>7, <1>8 DEF ClientInv, EchoTypes, Told, Score
<1>11. OneToken'
  BY <1>3, <1>5, <1>6, <1>8, <1>9 DEF OneToken, OneAtAsio, InOnePlace, AtAsio
<1>12. GoesOn'
  BY <1>9 DEF GoesOn
<1>13. PauseOwned'
  BY <1>1, <1>5, <1>7, <1>8 DEF ClientInv, PauseOwned
<1>14. Stages'
  BY <1>1, <1>4, <1>5, <1>6, <1>7, <1>8 DEF ClientInv, Stages
<1>15. Unread'
  BY <1>1, <1>7, <1>8, <1>9 DEF ClientInv, Unread
<1>16. QED
  BY <1>10, <1>11, <1>12, <1>13, <1>14, <1>15 DEF ClientInv

LEMMA StartKeeps ==
  ASSUME EchoInv, ioq # <<>>, ioUnchanged, IsToken(Head(ioq)), UNCHANGED clientVars,
         NEW r, NEW op \in DataOps, IoStart(r, op)
  PROVE  ClientInv'
<1>1. QueueAfter({})
  BY DoneFacts DEF EchoInv, IInv, IoStart
<1>2. PassOn(op) /\ UNCHANGED stopped /\ op \in Ops
  BY DEF IoStart, PassOn, DataOps, Ops
<1>3. Head(ioq).h \in {"read_i", "read"} => op = "read"
  BY DEF IoStart
<1>4. QED
  BY <1>1, <1>2, <1>3, PassOnKeeps

LEMMA EchoIoKeeps ==
  ASSUME EchoInv, EchoIo
  PROVE  ClientInv'
<1>1. TypeOK
  BY DEF EchoInv, IInv
<1>2. PICK r : ioq # <<>> /\ ioUnchanged /\ IoShape(r)
  BY <1>1, IoStepShape DEF EchoIo
<1>3. Head(ioq).h # "pause"
  BY DEF EchoIo, IoThread, IoHead, ConnectI, CloseRequest, HandleConnect, StartOp, HandleOp,
         HandleTimeout, Timers
<1>4. reason' = Reason /\ UNCHANGED <<pause, timer, pausing, buffer, counters>>
  BY DEF EchoIo
<1>5. ASSUME UNCHANGED stopped
      PROVE  UNCHANGED clientVars
  BY <1>4, <1>5 DEF Reason, clientVars
<1>6. CASE IoDrop(r)
  BY <1>2, <1>5, <1>6, DropKeeps DEF IoDrop
<1>7. CASE IoClose(r)
  BY <1>2, <1>4, <1>7, CloseKeeps DEF IoClose, Reason
<1>8. ASSUME NEW op \in DataOps, IoStart(r, op)
      PROVE  ClientInv'
  <2>1. IsToken(Head(ioq))
    BY <1>3, <1>8 DEF IoStart, IsToken, DataOps
  <2>2. QED
    BY <1>2, <1>5, <1>8, <2>1, StartKeeps DEF IoStart
<1>9. ASSUME NEW x \in Ops \cup Reports, PassOn(x), UNCHANGED stopped, IsToken(Head(ioq)),
             Aborts(r, {}), Done(r), Head(ioq).h \in {"read_i", "read"} => x = "read"
      PROVE  ClientInv'
  <2>1. QueueAfter({})
    BY <1>1, <1>2, <1>9, DoneFacts
  <2>2. QED
    BY <1>2, <1>5, <1>9, <2>1, PassOnKeeps
<1>10. CASE IoConnect(r)
  <2>1. PassOn("connect") /\ UNCHANGED stopped /\ Head(ioq).h = "connect_i"
    BY <1>10 DEF IoConnect, PassOn
  <2>2. QED
    BY <1>9, <1>10, <2>1 DEF IoConnect, IsToken, Ops
<1>11. CASE IoOpen(r)
  <2>1. PassOn("open") /\ UNCHANGED stopped /\ Head(ioq).h = "connect"
    BY <1>11 DEF IoOpen, PassOn, Reports
  <2>2. QED
    BY <1>9, <1>11, <2>1 DEF IoOpen, IsToken, Ops, Reports
<1>12. ASSUME NEW op \in DataOps, IoReport(r, op)
       PROVE  ClientInv'
  <2>1. PassOn(op) /\ UNCHANGED stopped /\ Head(ioq).h = op /\ op \in Ops
    BY <1>12 DEF IoReport, PassOn, Reports, DataOps, Ops
  <2>2. QED
    BY <1>9, <1>12, <2>1 DEF IoReport, IsToken, DataOps
<1>13. QED
  BY <1>2, <1>6, <1>7, <1>8, <1>10, <1>11, <1>12 DEF IoShape

LEMMA PauseOverKeeps ==
  ASSUME EchoInv, PauseOver
  PROVE  ClientInv'
<1>1. Head(ioq).h = "pause" /\ Head(ioq).ec # "aborted" => IsToken(Head(ioq))
  BY DEF IsToken
<1>2. QED
  BY <1>1, PauseOverShape, DropKeeps, StartKeeps DEF DataOps
-----------------------------------------------------------------------------
(* The steps of asio, the pool and the thread that connects *)

LEMMA EchoBindKeeps ==
  ASSUME EchoInv, EchoBind
  PROVE  ClientInv'
<1>1. IInv /\ ClientInv
  BY DEF EchoInv
<1>2. /\ phase = "free" /\ phase' = "bound" /\ session' = session + 1
      /\ ~stopped' /\ busy' = {} /\ ~opened' /\ closed' = 0
      /\ UNCHANGED <<pend, ioq, workq, callback>>
      /\ buffer' = "empty" /\ reason' = "none"
      /\ UNCHANGED <<pause, timer, pausing, timeouts, errors, served>>
  BY DEF EchoBind, Bind, counters
<1>3. ioq = <<>> /\ workq = <<>> /\ pend = {} /\ callback = "idle" /\ session \in Nat
  BY <1>1, <1>2, HandlerFacts
<1>4. /\ ~InIo' /\ ~Closing' /\ OneInIo' /\ IoReads'
      /\ ~PauseQueued' /\ ~PauseAborted' /\ ~PauseEnded'
  BY <1>2, <1>3 DEF InIo, Closing, OneInIo, IoReads, PauseQueued, PauseAborted, PauseEnded
<1>5. ~InWork' /\ OneInWork' /\ WorkReads' /\ ~AtAsio' /\ ~InCallback'
  BY <1>2, <1>3 DEF InWork, OneInWork, WorkReads, AtAsio, InCallback
<1>6. ~pausing
  BY <1>1, <1>2 DEF ClientInv, PauseOwned
<1>7. EchoTypes' /\ Told' /\ GoesOn' /\ Unread'
  BY <1>1, <1>2, <1>3 DEF ClientInv, EchoTypes, Told, GoesOn, Unread
<1>8. OneToken'
  BY <1>2, <1>3, <1>4, <1>5, <1>6 DEF OneToken, OneAtAsio, InOnePlace
<1>9. PauseOwned' /\ Stages'
  BY <1>2, <1>3, <1>4, <1>6 DEF PauseOwned, Stages
<1>10. Score'
  BY <1>1, <1>2, <1>3 DEF ClientInv, Score
<1>11. QED
  BY <1>7, <1>8, <1>9, <1>10 DEF ClientInv

LEMMA EchoConnectKeeps ==
  ASSUME EchoInv, EchoConnect
  PROVE  ClientInv'
<1> DEFINE x == Item("connect_i", "ok")
<1>1. IInv /\ ClientInv
  BY DEF EchoInv
<1>2. /\ phase = "bound" /\ phase' = "run" /\ ioq' = Append(ioq, x)
      /\ UNCHANGED <<session, stopped, pend, workq, callback, busy, opened, closed>>
      /\ UNCHANGED <<pause, timer, pausing, buffer, reason, timeouts, errors, served>>
  BY DEF EchoConnect, Connect, clientVars, counters
<1>3. /\ ioq \in Seq(IoItems) /\ ioq = <<>> /\ workq = <<>> /\ pend = {} /\ callback = "idle"
      /\ ~opened /\ closed = 0
  BY <1>1, <1>2, HandlerFacts
<1>4. x \in IoItems /\ IsToken(x) /\ x.h = "connect_i"
  BY DEF Item, IoItems, IoHandlers, Results, IsToken
<1> HIDE DEF x
<1>5. ~InIo /\ OneInIo /\ ~Closing /\ ~PauseQueued /\ ~PauseAborted /\ ~PauseEnded
  BY <1>3 DEF InIo, OneInIo, Closing, PauseQueued, PauseAborted, PauseEnded
<1>6. InIo' /\ OneInIo' /\ ~PauseQueued' /\ ~PauseAborted' /\ ~PauseEnded'
  BY <1>2, <1>3, <1>4, <1>5, IoAppended
<1>7. ~InWork' /\ OneInWork' /\ ~AtAsio' /\ ~InCallback' /\ ~pausing'
  BY <1>1, <1>2, <1>3 DEF InWork, OneInWork, AtAsio, InCallback, ClientInv, PauseOwned
<1>8. EchoTypes' /\ Told' /\ GoesOn'
  BY <1>1, <1>2, <1>6 DEF ClientInv, EchoTypes, Told, GoesOn, HasToken
<1>9. OneToken'
  BY <1>2, <1>3, <1>6, <1>7 DEF OneToken, OneAtAsio, InOnePlace
<1>10. PauseOwned' /\ Stages' /\ Unread'
  BY <1>1, <1>2, <1>3, <1>6, <1>7 DEF ClientInv, PauseOwned, Stages, Unread
<1>11. Score'
  BY <1>1, <1>2 DEF ClientInv, Score
<1>12. QED
  BY <1>8, <1>9, <1>10, <1>11 DEF ClientInv

\* A session that nothing carries on any more was closed, and on_close has told so.
LEMMA EchoRecycleKeeps ==
  ASSUME EchoInv, EchoRecycle
  PROVE  ClientInv'
<1>1. IInv /\ ClientInv
  BY DEF EchoInv
<1>2. /\ phase = "run" /\ phase' = "free" /\ ~pausing
      /\ ioq = <<>> /\ workq = <<>> /\ callback = "idle" /\ pend = {}
      /\ UNCHANGED <<session, stopped, pend, ioq, workq, callback, busy, opened, closed>>
      /\ UNCHANGED <<pause, timer, pausing, buffer, reason, timeouts, errors, served>>
  BY DEF EchoRecycle, Recycle, NoReference, clientVars, counters
<1>3. ~HasToken /\ ~Closing
  BY <1>2 DEF HasToken, Closing, InIo, InWork, AtAsio, InCallback
<1>4. closed > 0
  <2>1. stopped
    BY <1>1, <1>2, <1>3 DEF ClientInv, GoesOn
  <2>2. QED
    BY <1>1, <1>2, <2>1 DEF IInv, TypeOK, CloseStages
<1>5. reason = "told"
  BY <1>1, <1>2, <1>4 DEF ClientInv, Told
<1>6. /\ (InIo' <=> InIo) /\ (OneInIo' <=> OneInIo) /\ (IoReads' <=> IoReads)
      /\ (PauseQueued' <=> PauseQueued) /\ (PauseAborted' <=> PauseAborted)
      /\ (PauseEnded' <=> PauseEnded)
      /\ (InWork' <=> InWork) /\ (OneInWork' <=> OneInWork) /\ (WorkReads' <=> WorkReads)
      /\ (AtAsio' <=> AtAsio) /\ (InCallback' <=> InCallback) /\ (HasToken' <=> HasToken)
  <2>1. (AtAsio' <=> AtAsio) /\ (InCallback' <=> InCallback)
    BY <1>2 DEF AtAsio, InCallback
  <2>2. QED
    BY <1>2, <2>1, IoKept, WorkKept DEF HasToken
<1>7. EchoTypes' /\ Told' /\ GoesOn' /\ Unread'
  BY <1>1, <1>2, <1>3, <1>6 DEF ClientInv, EchoTypes, Told, GoesOn, Unread
<1>8. OneToken'
  BY <1>1, <1>2, <1>6 DEF ClientInv, OneToken, OneAtAsio, InOnePlace
<1>9. PauseOwned' /\ Stages'
  BY <1>1, <1>2, <1>6 DEF ClientInv, PauseOwned, Stages
<1>10. Score'
  BY <1>1, <1>2, <1>5 DEF ClientInv, Score
<1>11. QED
  BY <1>7, <1>8, <1>9, <1>10 DEF ClientInv

\* The token comes back from asio.
LEMMA EchoCompleteKeeps ==
  ASSUME EchoInv, NEW op \in Ops, EchoComplete(op)
  PROVE  ClientInv'
<1>1. IInv /\ ClientInv
  BY DEF EchoInv
<1>2. PICK ec \in {"ok", "err"} : ioq' = Append(ioq, Item(op, ec))
  BY DEF EchoComplete, Complete
<1> DEFINE x == Item(op, ec)
<1>3. /\ op \in pend /\ pend' = pend \ {op} /\ ioq' = Append(ioq, x)
      /\ UNCHANGED <<session, phase, stopped, workq, callback, busy, opened, closed>>
      /\ UNCHANGED <<pause, timer, pausing, buffer, reason, timeouts, errors, served>>
  BY <1>2 DEF EchoComplete, Complete, clientVars, counters
<1>4. x \in IoItems /\ IsToken(x) /\ x.h = op /\ op \notin {"pause", "close_i"}
  BY DEF Item, IoItems, IoHandlers, Results, IsToken, Ops
<1> HIDE DEF x
<1>5. ~InIo /\ ~InWork /\ AtAsio /\ ~InCallback /\ ~pausing /\ pend = {op}
  BY <1>1, <1>3 DEF ClientInv, OneToken, OneAtAsio, InOnePlace, AtAsio
<1>6. /\ InIo' /\ OneInIo'
      /\ IoReads /\ op = "read" => IoReads'
      /\ (PauseQueued' <=> PauseQueued) /\ (PauseAborted' <=> PauseAborted)
      /\ (PauseEnded' <=> PauseEnded)
  BY <1>1, <1>3, <1>4, <1>5, HandlerFacts, IoAppended DEF ClientInv, OneToken
<1>7. (InWork' <=> InWork) /\ (OneInWork' <=> OneInWork) /\ (WorkReads' <=> WorkReads)
  BY <1>3, WorkKept
<1>8. pend' = {} /\ ~AtAsio' /\ ~InCallback' /\ HasToken' /\ HasToken
  BY <1>3, <1>5, <1>6 DEF AtAsio, InCallback, HasToken
<1>9. EchoTypes' /\ Told' /\ Score'
  <2>1. EchoTypes' /\ Told'
    BY <1>1, <1>3 DEF ClientInv, EchoTypes, Told
  <2>2. Score'
    BY <1>1, <1>3 DEF ClientInv, Score
  <2>3. QED
    BY <2>1, <2>2
<1>10. OneToken'
  BY <1>1, <1>3, <1>5, <1>6, <1>7, <1>8 DEF ClientInv, OneToken, OneAtAsio, InOnePlace
<1>11. GoesOn' /\ Unread'
  BY <1>1, <1>3, <1>8 DEF ClientInv, GoesOn, Unread
<1>12. PauseOwned'
  BY <1>1, <1>3, <1>6 DEF ClientInv, PauseOwned
<1>13. Stages'
  BY <1>1, <1>3, <1>6, <1>7, <1>8 DEF ClientInv, Stages
<1>14. QED
  BY <1>9, <1>10, <1>11, <1>12, <1>13 DEF ClientInv

\* The expiry of a timer of the handler is no token.
LEMMA EchoExpireKeeps ==
  ASSUME EchoInv, NEW t \in Timers, EchoExpire(t)
  PROVE  ClientInv'
<1> DEFINE x == Item(t, "ok")
<1>1. IInv /\ ClientInv
  BY DEF EchoInv
<1>2. /\ ioq' = Append(ioq, x)
      /\ UNCHANGED <<session, phase, stopped, pend, workq, callback, busy, opened, closed>>
      /\ UNCHANGED <<pause, timer, pausing, buffer, reason, timeouts, errors, served>>
  BY DEF EchoExpire, Expire, clientVars, counters
<1>3. x \in IoItems /\ ~IsToken(x) /\ x.h \notin {"pause", "close_i"}
  BY DEF Item, IoItems, IoHandlers, Results, IsToken, Timers, Ops
<1> HIDE DEF x
<1>4. /\ (InIo' <=> InIo) /\ OneInIo' /\ (IoReads' <=> IoReads) /\ (Closing' <=> Closing)
      /\ (PauseQueued' <=> PauseQueued) /\ (PauseAborted' <=> PauseAborted)
      /\ (PauseEnded' <=> PauseEnded)
  BY <1>1, <1>2, <1>3, HandlerFacts, IoAppended DEF ClientInv, OneToken
<1>5. (InWork' <=> InWork) /\ (OneInWork' <=> OneInWork) /\ (WorkReads' <=> WorkReads)
  BY <1>2, WorkKept
<1>6. (AtAsio' <=> AtAsio) /\ (InCallback' <=> InCallback) /\ (HasToken' <=> HasToken)
  BY <1>2, <1>4, <1>5 DEF AtAsio, InCallback, HasToken
<1>7. EchoTypes' /\ Told'
  BY <1>1, <1>2 DEF ClientInv, EchoTypes, Told
<1>8. OneToken'
  BY <1>1, <1>2, <1>4, <1>5, <1>6 DEF ClientInv, OneToken, OneAtAsio, InOnePlace
<1>9. GoesOn' /\ Unread'
  BY <1>1, <1>2, <1>4, <1>6 DEF ClientInv, GoesOn, Unread
<1>10. PauseOwned' /\ Stages'
  BY <1>1, <1>2, <1>4, <1>5 DEF ClientInv, PauseOwned, Stages
<1>11. Score'
  BY <1>1, <1>2 DEF ClientInv, Score
<1>12. QED
  BY <1>7, <1>8, <1>9, <1>10, <1>11 DEF ClientInv

\* The token leaves the timer of the pause.
LEMMA PauseExpiresKeeps ==
  ASSUME EchoInv, PauseExpires
  PROVE  ClientInv'
<1> DEFINE x == Item("pause", "ok")
<1>1. IInv /\ ClientInv
  BY DEF EchoInv
<1>2. /\ pausing /\ pausing' = FALSE /\ ioq' = Append(ioq, x)
      /\ UNCHANGED <<session, phase, stopped, pend, workq, callback, busy, opened, closed>>
      /\ UNCHANGED <<pause, timer, buffer, reason, timeouts, errors, served>>
  BY DEF PauseExpires, counters
<1>3. x \in IoItems /\ IsToken(x) /\ x.h = "pause" /\ x.ec # "aborted"
  BY DEF Item, IoItems, IoHandlers, Results, IsToken
<1> HIDE DEF x
<1>4. ~InIo /\ ~InWork /\ pend = {} /\ ~AtAsio /\ ~InCallback /\ "read" \notin busy
  BY <1>1, <1>2 DEF ClientInv, OneToken, InOnePlace, AtAsio, Stages
<1>5. InIo' /\ OneInIo' /\ (PauseAborted' <=> PauseAborted)
  BY <1>1, <1>2, <1>3, <1>4, HandlerFacts, IoAppended DEF ClientInv, OneToken
<1>6. (InWork' <=> InWork) /\ (OneInWork' <=> OneInWork) /\ (WorkReads' <=> WorkReads)
  BY <1>2, WorkKept
<1>7. ~AtAsio' /\ ~InCallback' /\ HasToken' /\ HasToken
  BY <1>2, <1>4, <1>5 DEF AtAsio, InCallback, HasToken
<1>8. EchoTypes' /\ Told' /\ Score'
  <2>1. EchoTypes' /\ Told'
    BY <1>1, <1>2 DEF ClientInv, EchoTypes, Told
  <2>2. Score'
    BY <1>1, <1>2 DEF ClientInv, Score
  <2>3. QED
    BY <2>1, <2>2
<1>9. OneToken'
  BY <1>1, <1>2, <1>4, <1>5, <1>6, <1>7 DEF ClientInv, OneToken, OneAtAsio, InOnePlace
<1>10. GoesOn' /\ Unread'
  BY <1>1, <1>2, <1>7 DEF ClientInv, GoesOn, Unread
<1>11. PauseOwned' /\ Stages'
  <2>1. opened /\ timer
    BY <1>1, <1>2 DEF ClientInv, PauseOwned
  <2>2. QED
    BY <1>1, <1>2, <1>4, <1>5, <2>1 DEF ClientInv, PauseOwned, Stages
<1>12. QED
  BY <1>8, <1>9, <1>10, <1>11 DEF ClientInv
-----------------------------------------------------------------------------
(* The steps of the work thread *)

LEMMA DoWorkKeepsClient ==
  ASSUME EchoInv, DoWork, UNCHANGED clientVars
  PROVE  ClientInv'
<1> DEFINE x == Head(workq)
<1>1. IInv /\ ClientInv
  BY DEF EchoInv
<1>2. /\ callback = "idle" /\ workq # <<>> /\ x # "close" /\ workq' = Tail(workq)
      /\ UNCHANGED <<session, phase, stopped, pend, ioq, closed>>
      /\ UNCHANGED <<pause, timer, pausing, buffer, reason, timeouts, errors, served>>
  BY DEF DoWork, clientVars, counters
<1>3. PICK seen \in StoppedReads :
        IF seen THEN UNCHANGED <<callback, busy, opened>>
        ELSE /\ callback' = x /\ busy' = busy \ {x} /\ opened' = (opened \/ x = "open")
  BY DEF DoWork
<1>4. /\ workq \in Seq(WorkHandlers) /\ 1 \in 1..Len(workq) /\ x = workq[1]
      /\ x \in WorkHandlers /\ phase \in {"starting", "run"}
  BY <1>1, <1>2, HandlerFacts DEF IInv, TypeOK
<1>5. x \in {"open", "read", "write", "event"}
  BY <1>2, <1>4 DEF WorkHandlers
<1>6. seen => stopped
  BY <1>3 DEF StoppedReads
<1>7. ~seen => closed = 0
  <2>1. SUFFICES ASSUME ~seen, closed # 0
                 PROVE  FALSE
    OBVIOUS
  <2>2. stopped
    BY <1>1, <2>1, HandlerFacts
  <2>3. QED
    BY <1>3, <2>1, <2>2 DEF StoppedReads
<1>8. x = "open" => ~opened
  BY <1>1, <1>4 DEF IInv, OpenStages
<1> HIDE DEF x
<1>9. /\ OneInWork' /\ (InWork' <=> InWork /\ x \notin Reports)
      /\ WorkReads => WorkReads'
      /\ x \in Reports => InWork
      /\ x \in Reports /\ WorkReads => x = "read"
  BY <1>1, <1>2, <1>4, WorkTaken DEF ClientInv, OneToken, x
<1>10. /\ (InIo' <=> InIo) /\ (OneInIo' <=> OneInIo) /\ (IoReads' <=> IoReads)
       /\ (Closing' <=> Closing)
       /\ (PauseQueued' <=> PauseQueued) /\ (PauseAborted' <=> PauseAborted)
       /\ (PauseEnded' <=> PauseEnded)
  BY <1>2, IoKept
<1>11. ~InCallback /\ (AtAsio' <=> AtAsio)
  BY <1>2 DEF AtAsio, InCallback
<1>12. InCallback' => x \in Reports /\ ~seen
  BY <1>2, <1>3, <1>5 DEF InCallback, Reports
<1>13. ~seen /\ x \in Reports => InCallback'
  <2>1. SUFFICES ASSUME ~seen, x \in Reports
                 PROVE  InCallback'
    OBVIOUS
  <2>2. "read" \in busy => x = "read"
    BY <1>1, <1>9, <2>1 DEF ClientInv, Stages
  <2>3. x = "open" => busy = {}
    BY <1>1, <1>8 DEF ClientInv, Stages
  <2>4. QED
    BY <1>3, <2>1, <2>2, <2>3 DEF InCallback, Reports
<1>14. HasToken' => HasToken
  BY <1>2, <1>9, <1>10, <1>11, <1>12 DEF HasToken
<1>15. EchoTypes' /\ Score'
  BY <1>1, <1>2 DEF ClientInv, EchoTypes, Score
<1>16. Told'
  <2>1. closed \in Nat
    BY <1>1, HandlerFacts
  <2>2. QED
    BY <1>1, <1>2, <1>3, <1>5, <1>7, <2>1 DEF ClientInv, Told
<1>17. OneToken'
  BY <1>1, <1>2, <1>9, <1>10, <1>11, <1>12 DEF ClientInv, OneToken, OneAtAsio, InOnePlace
<1>18. GoesOn'
  <2>1. SUFFICES ASSUME phase = "run", ~stopped
                 PROVE  HasToken' \/ Closing'
    BY <1>2 DEF GoesOn
  <2>2. HasToken \/ Closing
    BY <1>1, <2>1 DEF ClientInv, GoesOn
  <2>3. ~seen
    BY <1>6, <2>1
  <2>4. QED
    BY <1>2, <1>9, <1>10, <1>11, <1>13, <2>2, <2>3 DEF HasToken
<1>19. PauseOwned'
  BY <1>1, <1>2, <1>3, <1>10 DEF ClientInv, PauseOwned
<1>20. Stages'
  <2>1. CASE seen
    BY <1>1, <1>2, <1>3, <1>9, <1>10, <2>1 DEF ClientInv, Stages
  <2>2. CASE ~seen
    <3>1. "read" \in busy' => "read" \in busy /\ x # "read"
      BY <1>3, <2>2
    <3>2. "read" \in busy' => x \notin Reports
      BY <1>1, <1>9, <3>1 DEF ClientInv, Stages
    <3>3. x = "open" => busy' = {}
      BY <1>1, <1>3, <1>8, <2>2 DEF ClientInv, Stages
    <3>4. ~opened' => busy' = {}
      BY <1>1, <1>3, <2>2 DEF ClientInv, Stages
    <3>5. "read" \in busy' => /\ IoReads' /\ WorkReads' /\ pend' \subseteq {"read"}
                              /\ callback' # "open" /\ ~pausing'
      BY <1>1, <1>2, <1>3, <1>9, <1>10, <2>2, <3>1, <3>2 DEF ClientInv, Stages, Reports
    <3>6. callback' = "open" => busy' = {}
      BY <1>3, <2>2, <3>3
    <3>7. phase' # "starting" /\ (callback' = "open" => opened')
      BY <1>1, <1>2, <1>3, <2>2 DEF ClientInv, Stages
    <3>8. QED
      BY <3>4, <3>5, <3>6, <3>7 DEF Stages
  <2>3. QED
    BY <2>1, <2>2
<1>21. Unread'
  BY <1>1, <1>2, <1>14 DEF ClientInv, Unread
<1>22. QED
  BY <1>15, <1>16, <1>17, <1>18, <1>19, <1>20, <1>21 DEF ClientInv

LEMMA DoCloseKeepsClient ==
  ASSUME EchoInv, DoClose, UNCHANGED clientVars
  PROVE  ClientInv'
<1>1. IInv /\ ClientInv
  BY DEF EchoInv
<1>2. /\ callback = "idle" /\ workq # <<>> /\ Head(workq) = "close" /\ workq' = Tail(workq)
      /\ callback' = "close" /\ closed' = closed + 1
      /\ UNCHANGED <<session, phase, stopped, pend, ioq, busy, opened>>
      /\ UNCHANGED <<pause, timer, pausing, buffer, reason, timeouts, errors, served>>
  BY DEF DoClose, clientVars, counters
<1>3. /\ workq \in Seq(WorkHandlers) /\ 1 \in 1..Len(workq) /\ Head(workq) = workq[1]
      /\ closed \in Nat
  BY <1>1, <1>2, HandlerFacts
<1>4. stopped /\ closed = 0 /\ phase \notin {"free", "bound"}
  BY <1>1, <1>2, <1>3, HandlerFacts DEF IInv, CloseStages
<1>5. OneInWork' /\ (InWork' <=> InWork) /\ (WorkReads => WorkReads')
  BY <1>1, <1>2, <1>3, WorkTaken DEF ClientInv, OneToken, Reports
<1>6. /\ (InIo' <=> InIo) /\ (OneInIo' <=> OneInIo) /\ (IoReads' <=> IoReads)
      /\ (PauseQueued' <=> PauseQueued) /\ (PauseAborted' <=> PauseAborted)
      /\ (PauseEnded' <=> PauseEnded)
  BY <1>2, IoKept
<1>7. ~InCallback /\ ~InCallback' /\ (AtAsio' <=> AtAsio) /\ (HasToken' <=> HasToken)
  BY <1>2, <1>5, <1>6 DEF AtAsio, InCallback, HasToken
<1>8. reason # "told"
  BY <1>1, <1>4 DEF ClientInv, Told
<1>9. EchoTypes' /\ Told' /\ Score'
  <2>1. EchoTypes' /\ Told'
    BY <1>1, <1>2, <1>3, <1>8 DEF ClientInv, EchoTypes, Told
  <2>2. Score'
    BY <1>1, <1>2 DEF ClientInv, Score
  <2>3. QED
    BY <2>1, <2>2
<1>10. OneToken'
  BY <1>1, <1>2, <1>5, <1>6, <1>7 DEF ClientInv, OneToken, OneAtAsio, InOnePlace
<1>11. GoesOn' /\ Unread'
  BY <1>1, <1>2, <1>4, <1>7 DEF ClientInv, GoesOn, Unread
<1>12. PauseOwned'
  BY <1>1, <1>2, <1>3, <1>6 DEF ClientInv, PauseOwned
<1>13. Stages'
  BY <1>1, <1>2, <1>5, <1>6 DEF ClientInv, Stages
<1>14. QED
  BY <1>9, <1>10, <1>11, <1>12, <1>13 DEF ClientInv

\* on_open gives the token to the timer of the pause.
LEMMA OnOpenPauseKeeps ==
  ASSUME EchoInv, OnOpenPause
  PROVE  ClientInv'
<1>1. IInv /\ ClientInv
  BY DEF EchoInv
<1>2. callback = "open" /\ pause /\ busy = {}
  BY <1>1 DEF OnOpenPause, ClientInv, Stages
<1>3. InCallback /\ ~InIo /\ ~InWork /\ pend = {} /\ ~pausing
  BY <1>1, <1>2 DEF ClientInv, OneToken, InOnePlace, InCallback, AtAsio
<1>4. /\ timer' = TRUE /\ pausing' = TRUE /\ callback' = "idle" /\ ioq' = ioq
      /\ UNCHANGED <<session, phase, stopped, pend, workq, busy, opened, closed>>
      /\ UNCHANGED <<pause, buffer, reason, timeouts, errors, served>>
  <2>1. buffer = "empty"
    BY <1>1, <1>3 DEF ClientInv, Unread, HasToken
  <2>2. QED
    BY <1>3, <2>1 DEF OnOpenPause, CancelPause, workUnchanged, counters
<1>5. closed = 0 /\ phase = "run" /\ opened /\ reason # "told"
  <2>1. closed = 0
    BY <1>1, <1>2 DEF ClientInv, Told
  <2>2. reason # "told"
    BY <1>1, <1>2 DEF ClientInv, Told
  <2>3. opened /\ phase = "run"
    BY <1>1, <1>2, HandlerFacts DEF IInv, TypeOK, ClientInv, Stages
  <2>4. QED
    BY <2>1, <2>2, <2>3
<1>6. /\ ~InIo' /\ (OneInIo' <=> OneInIo) /\ (IoReads' <=> IoReads)
      /\ (PauseQueued' <=> PauseQueued) /\ (PauseAborted' <=> PauseAborted)
      /\ ~InWork' /\ (OneInWork' <=> OneInWork)
  BY <1>3, <1>4, IoKept, WorkKept
<1>7. ~InCallback' /\ ~AtAsio' /\ HasToken' /\ HasToken
  BY <1>3, <1>4 DEF InCallback, AtAsio, HasToken
<1>8. EchoTypes' /\ Told' /\ Score'
  BY <1>1, <1>2, <1>4, <1>5 DEF ClientInv, EchoTypes, Told, Score
<1>9. OneToken'
  BY <1>1, <1>3, <1>4, <1>6, <1>7 DEF ClientInv, OneToken, OneAtAsio, InOnePlace
<1>10. GoesOn' /\ Unread'
  BY <1>1, <1>4, <1>7 DEF ClientInv, GoesOn, Unread
<1>11. PauseOwned' /\ Stages'
  BY <1>1, <1>2, <1>4, <1>5, <1>6 DEF ClientInv, PauseOwned, Stages
<1>12. QED
  BY <1>8, <1>9, <1>10, <1>11 DEF ClientInv

\* A callback starts an operation.
LEMMA OnOpenOrWriteKeeps ==
  ASSUME EchoInv, OnOpen \/ OnWrite
  PROVE  ClientInv'
<1>1. IInv /\ ClientInv
  BY DEF EchoInv
<1>2. PICK op \in {"read", "write"} :
        /\ CallOp(op)
        /\ \/ callback = "open" /\ ~pause /\ op = "write" /\ UNCHANGED timer
           \/ callback = "write" /\ op = "read" /\ timer' = FALSE
        /\ UNCHANGED <<pause, pausing, buffer, reason, timeouts, errors, served>>
  <2>1. CASE OnOpen
    <3>1. callback = "open" /\ ~pause /\ CallOp("write") /\ buffer' = "empty"
          /\ UNCHANGED <<pause, timer, pausing, reason, timeouts, errors, served>>
      BY <2>1 DEF OnOpen, counters
    <3>2. "write" \notin busy
      BY <3>1 DEF CallOp
    <3>3. buffer = "empty"
      BY <1>1, <3>1, <3>2 DEF ClientInv, Unread, HasToken, InCallback
    <3>4. QED
      BY <3>1, <3>3
  <2>2. CASE OnWrite
    BY <2>2 DEF OnWrite, counters
  <2>3. QED
    BY <2>1, <2>2
<1> DEFINE x == Item(IF op = "read" THEN "read_i" ELSE "write_i", "ok")
<1>3. /\ opened /\ op \notin busy /\ busy' = busy \cup {op} /\ ioq' = Append(ioq, x)
      /\ UNCHANGED <<session, phase, stopped, pend, workq, callback, opened, closed>>
  BY <1>2 DEF CallOp
<1>4. /\ x \in IoItems /\ IsToken(x) /\ x.h \notin {"pause", "close_i"}
      /\ op = "read" => x.h = "read_i"
  BY DEF Item, IoItems, IoHandlers, Results, IsToken
<1> HIDE DEF x
<1>5. InCallback /\ ~InIo /\ ~InWork /\ pend = {} /\ ~AtAsio /\ ~pausing
  BY <1>1, <1>2, <1>3 DEF ClientInv, OneToken, InOnePlace, InCallback, AtAsio
<1>6. IoReads /\ WorkReads /\ ~PauseEnded
  BY <1>5 DEF IoReads, WorkReads, PauseEnded, InIo, InWork, IsToken
<1>7. /\ InIo' /\ OneInIo' /\ (op = "read" => IoReads')
      /\ (PauseQueued' <=> PauseQueued) /\ (PauseAborted' <=> PauseAborted) /\ ~PauseEnded'
  BY <1>1, <1>3, <1>4, <1>5, <1>6, HandlerFacts, IoAppended DEF ClientInv, OneToken
<1>8. ~InWork' /\ OneInWork' /\ WorkReads'
  BY <1>1, <1>3, <1>5, <1>6, WorkKept DEF ClientInv, OneToken
<1>9. ~InCallback' /\ ~AtAsio' /\ HasToken' /\ HasToken
  BY <1>2, <1>3, <1>5, <1>7 DEF InCallback, AtAsio, HasToken
<1>10. EchoTypes' /\ Told'
  BY <1>1, <1>2, <1>3 DEF ClientInv, EchoTypes, Told
<1>11. Score'
  BY <1>1, <1>2, <1>3 DEF ClientInv, Score
<1>12. OneToken'
  BY <1>1, <1>2, <1>3, <1>5, <1>7, <1>8, <1>9 DEF ClientInv, OneToken, OneAtAsio, InOnePlace
<1>13. GoesOn' /\ Unread'
  BY <1>1, <1>2, <1>3, <1>9 DEF ClientInv, GoesOn, Unread
<1>14. PauseOwned'
  BY <1>1, <1>2, <1>3, <1>5, <1>7 DEF ClientInv, PauseOwned
<1>15. Stages'
  <2>1. "read" \in busy' => op = "read"
    BY <1>1, <1>2, <1>3, <1>5 DEF ClientInv, Stages
  <2>2. phase' # "starting" /\ (callback' = "open" => opened')
    BY <1>1, <1>3 DEF ClientInv, Stages
  <2>3. opened' /\ ~(callback' = "open" /\ pause')
    BY <1>2, <1>3
  <2>4. op = "read" => IoReads' /\ WorkReads' /\ pend' = {} /\ callback' # "open" /\ ~pausing'
    BY <1>2, <1>3, <1>5, <1>7, <1>8
  <2>5. QED
    BY <2>1, <2>2, <2>3, <2>4 DEF Stages
<1>16. QED
  BY <1>10, <1>11, <1>12, <1>13, <1>14, <1>15 DEF ClientInv

\* on_read closes the session, or finds it closed.
LEMMA OnReadKeeps ==
  ASSUME EchoInv, OnRead
  PROVE  ClientInv'
<1> DEFINE x == Item("close_i", "ok")
<1>1. IInv /\ ClientInv
  BY DEF EchoInv
<1>2. /\ callback = "read" /\ callback' = "idle"
      /\ UNCHANGED <<session, phase, stopped, pend, workq, busy, opened, closed>>
      /\ buffer' \in {"whole", "other"} /\ served' = served + (IF buffer' = "whole" THEN 1 ELSE 0)
      /\ UNCHANGED <<pause, timer, pausing, reason, timeouts, errors>>
  BY DEF OnRead, CallClose
<1>3. PICK seen \in StoppedReads : ioq' = IF seen THEN ioq ELSE Append(ioq, x)
  BY DEF OnRead, CallClose, Close
<1>4. seen => stopped
  BY <1>3 DEF StoppedReads
<1>5. x \in IoItems /\ ~IsToken(x) /\ x.h = "close_i"
  BY DEF Item, IoItems, IoHandlers, Results, IsToken, Ops
<1> HIDE DEF x
<1>6. InCallback /\ ~InIo /\ ~InWork /\ pend = {} /\ ~AtAsio /\ ~pausing
  BY <1>1, <1>2 DEF ClientInv, OneToken, InOnePlace, InCallback, AtAsio
<1>7. /\ ~InIo' /\ OneInIo' /\ (IoReads => IoReads') /\ (~seen => Closing')
      /\ (PauseQueued' <=> PauseQueued) /\ (PauseAborted' <=> PauseAborted)
      /\ (PauseEnded' <=> PauseEnded)
  <2>1. CASE seen
    BY <1>1, <1>3, <1>6, <2>1, IoKept DEF ClientInv, OneToken
  <2>2. CASE ~seen
    BY <1>1, <1>3, <1>5, <1>6, <2>2, HandlerFacts, IoAppended DEF ClientInv, OneToken
  <2>3. QED
    BY <2>1, <2>2
<1>8. ~InWork' /\ (OneInWork' <=> OneInWork) /\ (WorkReads' <=> WorkReads)
  BY <1>2, <1>6, WorkKept
<1>9. ~InCallback' /\ ~AtAsio' /\ ~HasToken'
  BY <1>2, <1>6, <1>7, <1>8 DEF InCallback, AtAsio, HasToken
<1>10. HasToken /\ closed = 0 /\ reason # "told" /\ phase \notin {"free", "bound"}
  BY <1>1, <1>2, <1>6, HandlerFacts DEF HasToken, ClientInv, Told
<1>11. EchoTypes'
  BY <1>1, <1>2 DEF ClientInv, EchoTypes
<1>12. Told' /\ Unread' /\ GoesOn'
  BY <1>2, <1>4, <1>7, <1>9, <1>10 DEF Told, Unread, GoesOn
<1>13. Score'
  <2>1. errors + served = session - 1 /\ errors \in Int /\ served \in Int /\ session \in Nat
    BY <1>1, <1>10, HandlerFacts DEF ClientInv, Score, Unread, EchoTypes
  <2>2. QED
    BY <1>2, <1>10, <2>1 DEF Score
<1>14. OneToken'
  BY <1>1, <1>2, <1>6, <1>7, <1>8, <1>9 DEF ClientInv, OneToken, OneAtAsio, InOnePlace
<1>15. PauseOwned'
  BY <1>1, <1>2, <1>7 DEF ClientInv, PauseOwned
<1>16. Stages'
  BY <1>1, <1>2, <1>7, <1>8 DEF ClientInv, Stages
<1>17. QED
  BY <1>11, <1>12, <1>13, <1>14, <1>15, <1>16 DEF ClientInv

\* on_close takes the token from the timer, if it is there, and counts.
LEMMA OnCloseKeeps ==
  ASSUME EchoInv, OnClose
  PROVE  ClientInv'
<1> DEFINE x == Item("pause", "aborted")
<1>1. IInv /\ ClientInv
  BY DEF EchoInv
<1>2. /\ callback = "close" /\ reason # "told" /\ reason' = "told"
      /\ timer' = FALSE /\ pausing' = FALSE
      /\ UNCHANGED <<session, phase, stopped, pend, workq, callback, busy, opened, closed>>
      /\ timeouts' = timeouts + (IF reason = "timed_out" THEN 1 ELSE 0)
      /\ errors' = errors + (IF buffer # "whole" THEN 1 ELSE 0)
      /\ UNCHANGED <<pause, buffer, served>>
  BY DEF OnClose, workUnchanged
<1>3. ioq' = IF pausing THEN Append(ioq, x) ELSE ioq
  BY DEF OnClose, CancelPause
<1>4. x \in IoItems /\ ~IsToken(x) /\ x.h = "pause" /\ x.ec = "aborted"
  BY DEF Item, IoItems, IoHandlers, Results, IsToken, Ops
<1> HIDE DEF x
<1>5. closed > 0 /\ stopped /\ phase \notin {"free", "bound"}
  BY <1>1, <1>2, HandlerFacts
<1>6. /\ (InIo' <=> InIo) /\ OneInIo' /\ (IoReads' <=> IoReads)
      /\ (PauseQueued' => PauseQueued \/ pausing) /\ (PauseEnded' <=> PauseEnded)
  <2>1. CASE pausing
    BY <1>1, <1>3, <1>4, <2>1, HandlerFacts, IoAppended DEF ClientInv, OneToken
  <2>2. CASE ~pausing
    BY <1>1, <1>3, <2>2, IoKept DEF ClientInv, OneToken
  <2>3. QED
    BY <2>1, <2>2
<1>7. (InWork' <=> InWork) /\ (OneInWork' <=> OneInWork) /\ (WorkReads' <=> WorkReads)
  BY <1>2, WorkKept
<1>8. (AtAsio' <=> AtAsio) /\ (InCallback' <=> InCallback) /\ (HasToken' => HasToken)
  BY <1>2, <1>6, <1>7 DEF AtAsio, InCallback, HasToken
<1>9. EchoTypes'
  <2>1. pause' \in BOOLEAN /\ timer' \in BOOLEAN /\ pausing' \in BOOLEAN
    BY <1>1, <1>2 DEF ClientInv, EchoTypes
  <2>2. timeouts' \in Int /\ errors' \in Int
    BY <1>1, <1>2 DEF ClientInv, EchoTypes
  <2>3. QED
    BY <1>1, <1>2, <2>1, <2>2 DEF ClientInv, EchoTypes
<1>10. Told' /\ GoesOn' /\ Unread'
  BY <1>1, <1>2, <1>5, <1>8 DEF ClientInv, Told, GoesOn, Unread
<1>11. OneToken'
  BY <1>1, <1>2, <1>6, <1>7, <1>8 DEF ClientInv, OneToken, OneAtAsio, InOnePlace
<1>12. PauseOwned'
  BY <1>1, <1>2, <1>5, <1>6 DEF ClientInv, PauseOwned
<1>13. Stages'
  BY <1>1, <1>2, <1>6, <1>7 DEF ClientInv, Stages
<1>14. Score'
  <2>1. /\ errors + served = (session - 1) + (IF buffer = "whole" THEN 1 ELSE 0)
        /\ errors \in Int /\ served \in Int /\ session \in Nat
    BY <1>1, <1>2, <1>5, HandlerFacts DEF ClientInv, Score, EchoTypes
  <2>2. QED
    BY <1>2, <2>1 DEF Score
<1>15. QED
  BY <1>9, <1>10, <1>11, <1>12, <1>13, <1>14 DEF ClientInv

\* A callback returns that has passed the token on, or on_close.
LEMMA CallbackReturnsKeeps ==
  ASSUME EchoInv, CallbackReturns
  PROVE  ClientInv'
<1>1. IInv /\ ClientInv
  BY DEF EchoInv
<1>2. /\ callback' = "idle"
      /\ UNCHANGED <<session, phase, stopped, pend, workq, busy, opened, closed>>
      /\ UNCHANGED <<pause, timer, pausing, buffer, reason, timeouts, errors, served>>
      /\ IF callback = "close" THEN ioq' = ioq \o AbortWaits(armed) ELSE ioq' = ioq
  BY DEF CallbackReturns, Return, clientVars, counters
<1>3. ioq' = ioq
  <2>1. callback = "close" => armed = {}
    BY <1>1, HandlerFacts DEF IInv, StoppedIsQuiet
  <2>2. AbortWaits({}) = <<>> /\ ioq \in Seq(IoItems)
    BY <1>1, HandlerFacts DEF AbortWaits, AbortOne
  <2>3. QED
    <3>1. CASE callback = "close"
      <4>1. ioq' = ioq \o <<>>
        BY <1>2, <2>1, <2>2, <3>1
      <4>2. QED
        BY <2>2, <4>1
    <3>2. CASE callback # "close"
      BY <1>2, <3>2
    <3>3. QED
      BY <3>1, <3>2
<1>4. ~InCallback /\ (callback = "close" => reason = "told")
  BY DEF CallbackReturns, InCallback
<1>5. /\ (InIo' <=> InIo) /\ (OneInIo' <=> OneInIo) /\ (IoReads' <=> IoReads)
      /\ (Closing' <=> Closing)
      /\ (PauseQueued' <=> PauseQueued) /\ (PauseAborted' <=> PauseAborted)
      /\ (PauseEnded' <=> PauseEnded)
      /\ (InWork' <=> InWork) /\ (OneInWork' <=> OneInWork) /\ (WorkReads' <=> WorkReads)
  BY <1>2, <1>3, IoKept, WorkKept
<1>6. ~InCallback' /\ (AtAsio' <=> AtAsio) /\ (HasToken' <=> HasToken)
  BY <1>2, <1>4, <1>5 DEF AtAsio, InCallback, HasToken
<1>7. EchoTypes' /\ Score'
  BY <1>1, <1>2 DEF ClientInv, EchoTypes, Score
<1>8. Told'
  BY <1>1, <1>2, <1>4 DEF ClientInv, Told
<1>9. OneToken'
  BY <1>1, <1>2, <1>4, <1>5, <1>6 DEF ClientInv, OneToken, OneAtAsio, InOnePlace
<1>10. GoesOn' /\ Unread'
  BY <1>1, <1>2, <1>5, <1>6 DEF ClientInv, GoesOn, Unread
<1>11. PauseOwned' /\ Stages'
  BY <1>1, <1>2, <1>5 DEF ClientInv, PauseOwned, Stages
<1>12. QED
  BY <1>7, <1>8, <1>9, <1>10, <1>11 DEF ClientInv

LEMMA EchoStutterKeeps ==
  ASSUME EchoInv, UNCHANGED echoVars
  PROVE  ClientInv'
<1>1. ClientInv
  BY DEF EchoInv
<1>2. /\ UNCHANGED <<session, phase, stopped, pend, ioq, workq, callback, busy, opened, closed>>
      /\ UNCHANGED <<pause, timer, pausing, buffer, reason, timeouts, errors, served>>
  BY DEF echoVars, vars, clientVars, counters
<1>3. /\ (InIo' <=> InIo) /\ (OneInIo' <=> OneInIo) /\ (IoReads' <=> IoReads)
      /\ (Closing' <=> Closing)
      /\ (PauseQueued' <=> PauseQueued) /\ (PauseAborted' <=> PauseAborted)
      /\ (PauseEnded' <=> PauseEnded)
      /\ (InWork' <=> InWork) /\ (OneInWork' <=> OneInWork) /\ (WorkReads' <=> WorkReads)
  BY <1>2, IoKept, WorkKept
<1>4. (AtAsio' <=> AtAsio) /\ (InCallback' <=> InCallback) /\ (HasToken' <=> HasToken)
  BY <1>2, <1>3 DEF AtAsio, InCallback, HasToken
<1>5. EchoTypes' /\ Told' /\ Score'
  BY <1>1, <1>2 DEF ClientInv, EchoTypes, Told, Score
<1>6. OneToken' /\ GoesOn' /\ Unread'
  BY <1>1, <1>2, <1>3, <1>4 DEF ClientInv, OneToken, OneAtAsio, InOnePlace, GoesOn, Unread
<1>7. PauseOwned' /\ Stages'
  BY <1>1, <1>2, <1>3 DEF ClientInv, PauseOwned, Stages
<1>8. QED
  BY <1>5, <1>6, <1>7 DEF ClientInv

\* Every step of the client keeps the invariant.
LEMMA EchoNextKeeps == EchoInv /\ [EchoNext]_echoVars => EchoInv'
<1>1. SUFFICES ASSUME EchoInv, [EchoNext]_echoVars
               PROVE  ClientInv'
  BY HandlerKept DEF EchoInv
<1>2. CASE EchoBind \/ EchoConnect \/ EchoRecycle
  BY <1>1, <1>2, EchoBindKeeps, EchoConnectKeeps, EchoRecycleKeeps
<1>3. CASE EchoIo \/ PauseOver \/ PauseExpires
  BY <1>1, <1>3, EchoIoKeeps, PauseOverKeeps, PauseExpiresKeeps
<1>4. CASE (\E op \in Ops : EchoComplete(op)) \/ (\E t \in Timers : EchoExpire(t))
  BY <1>1, <1>4, EchoCompleteKeeps, EchoExpireKeeps
<1>5. CASE NextCallback
  BY <1>1, <1>5, DoWorkKeepsClient, DoCloseKeepsClient DEF NextCallback
<1>6. CASE OnOpenPause \/ OnOpen \/ OnWrite \/ OnRead \/ OnClose \/ CallbackReturns
  BY <1>1, <1>6, OnOpenPauseKeeps, OnOpenOrWriteKeeps, OnReadKeeps, OnCloseKeeps,
     CallbackReturnsKeeps
<1>7. CASE UNCHANGED echoVars
  BY <1>1, <1>7, EchoStutterKeeps
<1>8. QED
  BY <1>1, <1>2, <1>3, <1>4, <1>5, <1>6, <1>7 DEF EchoNext, EchoWork

LEMMA EchoInitHolds == EchoInit => EchoInv
<1>1. SUFFICES ASSUME EchoInit
               PROVE  IInv /\ ClientInv
  BY DEF EchoInv
<1>2. /\ session = 0 /\ phase = "free" /\ pend = {} /\ ioq = <<>> /\ workq = <<>>
      /\ callback = "idle" /\ busy = {} /\ opened = FALSE /\ closed = 0
      /\ pause \in Pauses /\ timer = FALSE /\ pausing = FALSE
      /\ buffer = "empty" /\ reason = "none" /\ timeouts = 0 /\ errors = 0 /\ served = 0
  BY <1>1 DEF EchoInit, Init
<1>3. IInv
  BY <1>1, InitHolds DEF EchoInit
<1>4. /\ ~InIo /\ OneInIo /\ ~PauseQueued /\ ~PauseAborted /\ ~PauseEnded
      /\ ~InWork /\ OneInWork /\ ~AtAsio /\ ~InCallback
  BY <1>2 DEF InIo, OneInIo, PauseQueued, PauseAborted, PauseEnded, InWork, OneInWork, AtAsio,
              InCallback
<1>5. EchoTypes
  <2>1. pause \in BOOLEAN /\ timer \in BOOLEAN /\ pausing \in BOOLEAN
    BY <1>2, EchoClientAssumption
  <2>2. /\ buffer \in {"empty", "whole", "other"}
        /\ reason \in {"none", "timed_out", "other", "told"}
        /\ timeouts \in Int /\ errors \in Int /\ served \in Int
    BY <1>2
  <2>3. QED
    BY <2>1, <2>2 DEF EchoTypes
<1>6. OneToken /\ GoesOn /\ Told
  BY <1>2, <1>4 DEF OneToken, OneAtAsio, InOnePlace, GoesOn, Told
<1>7. PauseOwned /\ Stages /\ Unread /\ Score
  BY <1>2, <1>4 DEF PauseOwned, Stages, Unread, Score
<1>8. QED
  BY <1>3, <1>5, <1>6, <1>7 DEF ClientInv
-----------------------------------------------------------------------------
(* What follows for the client *)

\* One token carries a session on, an open session has it or is being closed, and every
\* session that is over has been counted once.
THEOREM EchoInvariant == EchoSpec => []EchoInv
<1>1. QED
  BY EchoInitHolds, EchoNextKeeps, PTL DEF EchoSpec

\* on_close cancels the pause, and nothing arms it after: the wait never outlives the
\* session whose handler it keeps from the pool.
THEOREM PauseOverWithSession == EchoSpec => []PauseEndsWithSession
<1>1. EchoInv => PauseEndsWithSession
  BY DEF EchoInv, ClientInv, PauseOwned, PauseEndsWithSession
<1>2. QED
  BY <1>1, EchoInvariant, PTL

\* A handler comes back to its pool only when on_close has counted its session: what the
\* client reports as failed are the sessions whose message did not come back.
THEOREM FailuresAreCounted == EchoSpec => []FailuresCounted
<1>1. EchoInv => FailuresCounted
  <2>1. SUFFICES ASSUME EchoInv, phase = "free"
                 PROVE  errors = session - served
    BY DEF FailuresCounted
  <2>2. errors + served = session /\ errors \in Int /\ served \in Int
    BY <2>1 DEF EchoInv, ClientInv, Score, EchoTypes
  <2>3. session \in Nat
    BY <2>1, HandlerFacts DEF EchoInv
  <2>4. QED
    BY <2>2, <2>3
<1>2. QED
  BY <1>1, EchoInvariant, PTL

\* async_write from handle_timeout runs at once in the io thread, which tests stopped_:
\* it never starts a write beside another operation or in a session that is closed.
Harmless ==
  \A op \in {"read", "write"} \cap (pend' \ pend) :
    opened /\ ~stopped /\ pend = {} /\ closed = 0

LEMMA StartIsHarmless ==
  ASSUME EchoInv, ioq # <<>>, IsToken(Head(ioq)), NEW r, NEW op \in DataOps, IoStart(r, op)
  PROVE  Harmless
<1>1. IInv /\ ClientInv
  BY DEF EchoInv
<1>2. ioq \in Seq(IoItems) /\ 1 \in 1..Len(ioq) /\ Head(ioq) = ioq[1]
  BY <1>1, HandlerFacts
<1>3. pend = {}
  BY <1>1, <1>2, TokenAtHead DEF ClientInv, OneToken, InOnePlace, AtAsio
<1>4. ~stopped /\ closed = 0
  BY <1>1, HandlerFacts DEF IoStart
<1>5. opened
  BY <1>1, <1>2 DEF IInv, DataAfterOpen, IoStart, DataItems
<1>6. QED
  BY <1>3, <1>4, <1>5 DEF Harmless

LEMMA EchoStepIsHarmless == EchoInv /\ [EchoNext]_echoVars => Harmless
<1>1. SUFFICES ASSUME EchoInv, [EchoNext]_echoVars
               PROVE  Harmless
  OBVIOUS
<1>2. ASSUME pend' \ pend \subseteq {"connect"}
      PROVE  Harmless
  BY <1>2 DEF Harmless
<1>3. CASE EchoIo
  <2>1. PICK r : ioq # <<>> /\ IoShape(r)
    BY <1>1, <1>3, IoStepShape DEF EchoIo, EchoInv, IInv
  <2>2. ASSUME NEW op \in DataOps, IoStart(r, op)
        PROVE  Harmless
    <3>1. Head(ioq).h # "pause"
      BY <1>3 DEF EchoIo, IoThread, IoHead, ConnectI, CloseRequest, HandleConnect, StartOp,
                  HandleOp, HandleTimeout, Timers
    <3>2. IsToken(Head(ioq))
      BY <2>2, <3>1 DEF IoStart, IsToken, DataOps
    <3>3. QED
      BY <1>1, <2>1, <2>2, <3>2, StartIsHarmless
  <2>3. CASE IoDrop(r) \/ IoClose(r) \/ IoConnect(r) \/ IoOpen(r)
    BY <1>2, <2>3 DEF IoDrop, IoClose, IoConnect, IoOpen
  <2>4. CASE \E op \in DataOps : IoReport(r, op)
    BY <1>2, <2>4 DEF IoReport
  <2>5. QED
    BY <2>1, <2>2, <2>3, <2>4 DEF IoShape
<1>4. CASE PauseOver
  <2>1. CASE IoDrop(<<>>)
    BY <1>2, <2>1 DEF IoDrop
  <2>2. ASSUME Head(ioq).ec # "aborted", NEW r, IoStart(r, "write")
        PROVE  Harmless
    <3>1. ioq # <<>> /\ IsToken(Head(ioq))
      BY <1>1, <1>4, <2>2, PauseOverShape DEF IsToken
    <3>2. QED
      BY <1>1, <2>2, <3>1, StartIsHarmless DEF DataOps
  <2>3. QED
    BY <1>1, <1>4, <2>1, <2>2, PauseOverShape
<1>5. CASE EchoBind \/ EchoConnect \/ EchoRecycle \/ PauseExpires
  BY <1>2, <1>5 DEF EchoBind, Bind, EchoConnect, Connect, EchoRecycle, Recycle, PauseExpires
<1>6. CASE (\E op \in Ops : EchoComplete(op)) \/ (\E t \in Timers : EchoExpire(t))
  BY <1>2, <1>6 DEF EchoComplete, Complete, EchoExpire, Expire
<1>7. CASE EchoWork
  BY <1>2, <1>7 DEF EchoWork, NextCallback, DoWork, DoClose, OnOpenPause, OnOpen, OnWrite, OnRead,
                    OnClose, CallbackReturns, CallOp, CallClose, Return, workUnchanged
<1>8. CASE UNCHANGED echoVars
  BY <1>2, <1>8 DEF echoVars, vars
<1>9. QED
  BY <1>1, <1>3, <1>4, <1>5, <1>6, <1>7, <1>8 DEF EchoNext

\* The end of the pause starts a write only in an open session, and alone.
THEOREM PauseStartsAlone == EchoSpec => PauseIsHarmless
<1>1. EchoInv /\ [EchoNext]_echoVars => Harmless
  BY EchoStepIsHarmless
<1>2. QED
  BY <1>1, EchoInvariant, PTL DEF EchoSpec, PauseIsHarmless, Harmless
=============================================================================
