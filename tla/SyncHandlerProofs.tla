--------------------------- MODULE SyncHandlerProofs ---------------------------
(***************************************************************************)
(* Theorems about sync_handler, for any number of calls and closes, with   *)
(* write_read and without: without a close() every call returns with the   *)
(* result of its own operation and leaves nothing behind, and a handler    *)
(* with an error is closed.                                                *)
(***************************************************************************)
EXTENDS SyncHandler, TLAPS

\* The items of the io_service from the first to the last.
Queue == 1..Len(ioq)

\* Only write_read sets duplex_.
NoDuplex == ~Duplex => ~duplex

\* A call that has not started yet waits for itself alone: it was queued behind all
\* that older calls left, and only a timer may have expired since.
StartIsLast ==
  \A k \in Queue : ioq[k].h = "start" =>
    /\ waiting /\ ~notified /\ ioq[k].n = call
    /\ pend = <<>> /\ ~(ec = "ok" /\ pending)
    /\ \A j \in Queue : j > k => ioq[j].h = "timeout"
    /\ ec = "ok" => \A j \in Queue : ioq[j].h # "done"

\* What asio watches belongs to the call that waits.
PendingIsOwn ==
  pend # <<>> =>
    /\ Len(pend) = 1 /\ pend[1].n = call /\ (duplex => pend[1].op # "read")
    /\ waiting /\ ~notified /\ ec = "ok"
    /\ \A j \in Queue : ioq[j].h # "done"

\* A completion that is not ignored belongs to it too, and is the only one.
DoneIsOwn ==
  \A k \in Queue : ec = "ok" /\ ioq[k].h = "done" =>
    /\ waiting /\ ~notified /\ pend = <<>>
    /\ ioq[k].n = call /\ (duplex => ioq[k].op # "read")
    /\ \A j \in Queue : ioq[j].h = "done" => j = k

\* A timer is only heeded while its call waits.
PendingIsWaited == ec = "ok" /\ pending => waiting /\ ~notified

\* Without an error and an operation the handler is open.
HealthyIsOpen == ec = "ok" /\ ~pending => opened

\* A call that was notified without an error has done its work.
NotifiedIsDone == waiting /\ notified /\ ec = "ok" => call \in succeeded

Own ==
  /\ \A k \in Queue : ioq[k].h # "close"
  /\ StartIsLast /\ PendingIsOwn /\ DoneIsOwn
  /\ PendingIsWaited /\ HealthyIsOpen /\ NotifiedIsDone

SyncInv == TypeOK /\ NoDuplex /\ ErrorMeansClosed /\ (closes = 0 => Own)

LEMMA SyncInit == Init => SyncInv
<1> SUFFICES ASSUME Init PROVE SyncInv OBVIOUS
<1>1. TypeOK
  <2>1. 0 \in 0..MaxCalls /\ 0 \in 0..MaxCloses BY SyncHandlerAssumption, SMT
  <2>2. <<>> \in Seq(Operations) /\ <<>> \in Seq(Items) BY SMT
  <2>3. QED BY <2>1, <2>2 DEF Init, TypeOK
<1>2. NoDuplex /\ ErrorMeansClosed BY DEF Init, NoDuplex, ErrorMeansClosed
<1>3. Own
  BY SMT DEF Init, Own, StartIsLast, PendingIsOwn, DoneIsOwn, PendingIsWaited, HealthyIsOpen,
             NotifiedIsDone, Queue
<1>4. QED BY <1>1, <1>2, <1>3 DEF SyncInv

LEMMA ItemTypes ==
  /\ \A c \in Calls, n \in 1..MaxCalls : Item("start", c, n, "ok") \in Items
  /\ \A x \in Operations, e \in Errors : Item("done", x.op, x.n, e) \in Items
  /\ \A x \in Operations : Item("timeout", x.op, x.n, "ok") \in Items
  /\ Item("close", "none", 0, "ok") \in Items
BY SMT DEF Item, Items, Operations, Errors

LEMMA RestIsQueue ==
  ASSUME TypeOK, ioq # <<>>
  PROVE /\ Rest \in Seq(Items) /\ Len(Rest) = Len(ioq) - 1
        /\ \A k \in 1..Len(Rest) : k + 1 \in Queue /\ Rest[k] = ioq[k + 1]
        /\ 1 \in Queue /\ Head(ioq) = ioq[1] /\ Head(ioq) \in Items
BY SMT DEF TypeOK, Rest, Queue

LEMMA AbortedIsQueue ==
  ASSUME TypeOK
  PROVE /\ Aborted \in Seq(Items) /\ Len(Aborted) = Len(pend)
        /\ \A k \in 1..Len(pend) : Aborted[k].h = "done"
        /\ pend = <<>> => Aborted = <<>>
<1>1. pend \in Seq(Operations) BY DEF TypeOK
<1>2. \A i \in 1..Len(pend) : pend[i] \in Operations BY <1>1, SMT
<1>3. \A i \in 1..Len(pend) : Item("done", pend[i].op, pend[i].n, "aborted") \in Items
  BY <1>2, ItemTypes DEF Errors
<1>4. Aborted \in [1..Len(pend) -> Items] BY <1>3 DEF Aborted
<1>5. Len(pend) \in Nat BY <1>1, SMT
<1>6. Aborted \in Seq(Items) BY <1>4, <1>5, SMT
<1>7. Len(Aborted) = Len(pend) BY <1>4, <1>5, <1>6, SMT
<1>8. \A k \in 1..Len(pend) : Aborted[k].h = "done" BY SMT DEF Aborted, Item
<1>9. QED BY <1>6, <1>7, <1>8, SMT
LEMMA ShiftedQueue ==
  ASSUME TypeOK, ioq # <<>>, ioq' = Rest
  PROVE /\ ioq' \in Seq(Items)
        /\ \A k \in Queue' : k + 1 \in Queue /\ k + 1 > 1 /\ ioq'[k] = ioq[k + 1]
BY RestIsQueue, SMT DEF Queue

\* close_socket: behind the rest come the aborted operations.
LEMMA ClosedQueue ==
  ASSUME TypeOK, ioq # <<>>, ioq' = Rest \o Aborted
  PROVE /\ ioq' \in Seq(Items)
        /\ \A k \in Queue' :
             (k + 1 \in Queue /\ k + 1 > 1 /\ ioq'[k] = ioq[k + 1]) \/ ioq'[k].h = "done"
        /\ pend = <<>> => ioq' = Rest
<1>1. Rest \in Seq(Items) /\ Aborted \in Seq(Items) BY RestIsQueue, AbortedIsQueue
<1>2. ioq' \in Seq(Items) BY <1>1, SMT
<1>3. Len(ioq') = Len(Rest) + Len(Aborted) BY <1>1, SMT
<1>4. \A k \in 1..Len(ioq') :
        ioq'[k] = IF k <= Len(Rest) THEN Rest[k] ELSE Aborted[k - Len(Rest)]
  BY <1>1, SMT
<1>5. ASSUME NEW k \in 1..Len(ioq')
      PROVE (k + 1 \in Queue /\ k + 1 > 1 /\ ioq'[k] = ioq[k + 1]) \/ ioq'[k].h = "done"
  <2>1. CASE k <= Len(Rest)
    <3>1. k \in 1..Len(Rest) BY <2>1, <1>1, SMT
    <3>2. ioq'[k] = Rest[k] BY <2>1, <1>4
    <3>3. QED BY <3>1, <3>2, RestIsQueue, SMT
  <2>2. CASE ~(k <= Len(Rest))
    <3>1. k - Len(Rest) \in 1..Len(pend) BY <2>2, <1>1, <1>3, AbortedIsQueue, SMT
    <3>2. ioq'[k] = Aborted[k - Len(Rest)] BY <2>2, <1>4
    <3>3. QED BY <3>1, <3>2, AbortedIsQueue
  <2>3. QED BY <2>1, <2>2
<1>6. ASSUME pend = <<>> PROVE ioq' = Rest
  <2>1. Aborted = <<>> BY <1>6, AbortedIsQueue
  <2>2. QED BY <2>1, <1>1, SMT
<1>7. QED BY <1>2, <1>5, <1>6 DEF Queue

LEMMA AppendedQueue ==
  ASSUME TypeOK, NEW x \in Items, ioq' = Append(ioq, x)
  PROVE /\ ioq' \in Seq(Items)
        /\ Len(ioq) + 1 \in Queue' /\ ioq'[Len(ioq) + 1] = x
        /\ \A k \in Queue : k \in Queue' /\ ioq'[k] = ioq[k] /\ k < Len(ioq) + 1
        /\ \A k \in Queue' : k \in Queue \/ k = Len(ioq) + 1
BY SMT DEF TypeOK, Queue

\* The first item of the queue, and what Own says of it and of those behind it.
LEMMA HeadIsFirst ==
  ASSUME TypeOK, ioq # <<>>
  PROVE /\ 1 \in Queue /\ Head(ioq) = ioq[1] /\ Head(ioq) \in Items
        /\ \A k \in Queue : k # 1 => k > 1
BY RestIsQueue, SMT DEF Queue, TypeOK

\* The shape of a step that ends a call: nothing is queued or pending for any call,
\* and without an error the handler is open and the call has done its work.
LEMMA EndedIsOwn ==
  ASSUME TypeOK, Own, ioq # <<>>, ioq' = Rest \/ ioq' = Rest \o Aborted, pend' = <<>>,
         call' = call, waiting' = waiting, notified' = waiting,
         \A k \in Queue : k > 1 => ioq[k].h # "start",
         ec' = "ok" => /\ pend = <<>> /\ ~pending' /\ opened'
                       /\ \A k \in Queue : k > 1 => ioq[k].h # "done"
                       /\ waiting => call \in succeeded'
  PROVE Own'
<1>1. \A k \in Queue' :
        (k + 1 \in Queue /\ k + 1 > 1 /\ ioq'[k] = ioq[k + 1]) \/ ioq'[k].h = "done"
  BY ShiftedQueue, ClosedQueue
<1>2. \A k \in Queue' : ioq'[k].h # "close" /\ ioq'[k].h # "start"
  <2> TAKE k \in Queue'
  <2>1. CASE k + 1 \in Queue /\ k + 1 > 1 /\ ioq'[k] = ioq[k + 1] BY <2>1 DEF Own
  <2>2. CASE ioq'[k].h = "done" BY <2>2
  <2>3. QED BY <1>1, <2>1, <2>2
<1>3. ec' = "ok" => \A k \in Queue' : ioq'[k].h # "done"
  <2> SUFFICES ASSUME ec' = "ok", NEW k \in Queue' PROVE ioq'[k].h # "done" OBVIOUS
  <2>1. ioq' = Rest BY ClosedQueue
  <2>2. k + 1 \in Queue /\ k + 1 > 1 /\ ioq'[k] = ioq[k + 1] BY <2>1, ShiftedQueue
  <2>3. QED BY <2>2
<1>4. StartIsLast' BY <1>2 DEF StartIsLast
<1>5. PendingIsOwn' BY DEF PendingIsOwn
<1>6. DoneIsOwn' BY <1>3 DEF DoneIsOwn
<1>7. PendingIsWaited' /\ HealthyIsOpen' BY DEF PendingIsWaited, HealthyIsOpen
<1>8. NotifiedIsDone' BY DEF NotifiedIsDone
<1>9. QED BY <1>2, <1>4, <1>5, <1>6, <1>7, <1>8 DEF Own

\* The shape of a step that starts an operation for the call that waits.
LEMMA StartedIsOwn ==
  ASSUME TypeOK, Own, ioq # <<>>, ioq' = Rest, NEW op, pend' = <<[op |-> op, n |-> call]>>,
         duplex' => op # "read", ec' = "ok", pending', waiting, ~notified,
         call' = call, waiting' = waiting, notified' = notified,
         \A k \in Queue : k > 1 => ioq[k].h # "start" /\ ioq[k].h # "done"
  PROVE Own'
<1>1. \A k \in Queue' : k + 1 \in Queue /\ k + 1 > 1 /\ ioq'[k] = ioq[k + 1] BY ShiftedQueue
<1>2. \A k \in Queue' : ioq'[k].h # "close" /\ ioq'[k].h # "start" /\ ioq'[k].h # "done"
  BY <1>1 DEF Own
<1>3. StartIsLast' /\ DoneIsOwn' BY <1>2 DEF StartIsLast, DoneIsOwn
<1>4. Len(pend') = 1 /\ pend'[1] = [op |-> op, n |-> call] BY SMT
<1>5. PendingIsOwn' BY <1>2, <1>4 DEF PendingIsOwn
<1>6. PendingIsWaited' /\ HealthyIsOpen' /\ NotifiedIsDone'
  BY DEF PendingIsWaited, HealthyIsOpen, NotifiedIsDone
<1>7. QED BY <1>2, <1>3, <1>5, <1>6 DEF Own

LEMMA ItemShapes ==
  \A x \in Items :
    /\ x.h = "start" => x.op \in Calls /\ x.n \in 1..MaxCalls
    /\ x.h = "done" => x.op \in {"connect", "read", "write"} /\ x.n \in 1..MaxCalls /\ x.ec \in Errors
BY SMT DEF Items

LEMMA PendTypes ==
  ASSUME TypeOK
  PROVE /\ <<>> \in Seq(Operations)
        /\ \A op \in {"connect", "read", "write"}, n \in 1..MaxCalls :
             [op |-> op, n |-> n] \in Operations
        /\ \A x \in Operations :
             /\ <<x>> \in Seq(Operations) /\ Append(pend, x) \in Seq(Operations)
             /\ pend = <<>> => Append(pend, x) = <<x>>
<1>1. \A op \in {"connect", "read", "write"}, n \in 1..MaxCalls : [op |-> op, n |-> n] \in Operations
  BY SMT DEF Operations
<1>2. \A x \in Operations : <<x>> \in Seq(Operations) /\ Append(pend, x) \in Seq(Operations)
  BY SMT DEF TypeOK
<1>3. \A x : pend = <<>> => Append(pend, x) = <<x>> BY SMT
<1>4. QED BY <1>1, <1>2, <1>3, SMT

-----------------------------------------------------------------------------
(* The threads that use the handler, and asio *)

LEMMA CallKeeps == ASSUME SyncInv, NEW c \in Calls, Call(c) PROVE SyncInv'
<1> USE DEF Call
<1>a. TypeOK BY DEF SyncInv
<1>b. call + 1 \in 1..MaxCalls /\ call + 1 \in 0..MaxCalls
  BY <1>a, SyncHandlerAssumption, SMT DEF TypeOK
<1>c. Item("start", c, call', "ok") \in Items BY <1>b, ItemTypes
<1>1. TypeOK' BY <1>a, <1>b, <1>c, AppendedQueue DEF TypeOK
<1>2. NoDuplex' /\ ErrorMeansClosed' BY DEF SyncInv, NoDuplex, ErrorMeansClosed
<1>3. ASSUME closes' = 0 PROVE Own'
  <2>a. Own /\ ~waiting BY <1>3 DEF SyncInv
  <2>b. \A k \in Queue : ioq[k].h # "start" BY <2>a DEF Own, StartIsLast
  <2>c. pend = <<>> /\ ~(ec = "ok" /\ pending) BY <2>a DEF Own, PendingIsOwn, PendingIsWaited
  <2>d. ec = "ok" => \A k \in Queue : ioq[k].h # "done" BY <2>a DEF Own, DoneIsOwn
  <2> DEFINE last == Len(ioq) + 1
  <2>e. ioq'[last] = Item("start", c, call', "ok") /\ last \in Queue'
        /\ (\A k \in Queue : k \in Queue' /\ ioq'[k] = ioq[k] /\ k < last)
        /\ (\A k \in Queue' : k \in Queue \/ k = last)
    BY <1>a, <1>c, AppendedQueue
  <2>f. ioq'[last].h = "start" /\ ioq'[last].n = call' BY <2>e DEF Item
  <2>g. last \in Nat BY <1>a, SMT DEF TypeOK
  <2> HIDE DEF last
  <2>1. \A k \in Queue' : ioq'[k].h # "close" BY <2>a, <2>e, <2>f DEF Own
  <2>2. StartIsLast'
    <3> SUFFICES ASSUME NEW k \in Queue', ioq'[k].h = "start"
                 PROVE /\ waiting' /\ ~notified' /\ ioq'[k].n = call'
                       /\ pend' = <<>> /\ ~(ec' = "ok" /\ pending')
                       /\ \A j \in Queue' : j > k => ioq'[j].h = "timeout"
                       /\ ec' = "ok" => \A j \in Queue' : ioq'[j].h # "done"
      BY DEF StartIsLast
    <3>1. k = last BY <2>b, <2>e
    <3>2. \A j \in Queue' : ~(j > last)
      <4> TAKE j \in Queue'
      <4>1. CASE j = last BY <4>1, <2>g, SMT
      <4>2. CASE j \in Queue BY <4>2, <2>e, <2>g, SMT DEF Queue
      <4>3. QED BY <4>1, <4>2, <2>e
    <3>3. QED BY <3>1, <3>2, <2>c, <2>d, <2>e, <2>f
  <2>3. PendingIsOwn' BY <2>c DEF PendingIsOwn
  <2>4. DoneIsOwn' BY <2>d, <2>e, <2>f DEF DoneIsOwn
  <2>5. PendingIsWaited' /\ HealthyIsOpen' /\ NotifiedIsDone'
    BY <2>a, <2>c DEF Own, PendingIsWaited, HealthyIsOpen, NotifiedIsDone
  <2>6. QED BY <2>1, <2>2, <2>3, <2>4, <2>5 DEF Own
<1>4. QED BY <1>1, <1>2, <1>3 DEF SyncInv

LEMMA ReturnKeeps == ASSUME SyncInv, Return PROVE SyncInv'
<1> USE DEF Return
<1>1. TypeOK' BY DEF SyncInv, TypeOK
<1>2. NoDuplex' /\ ErrorMeansClosed' BY DEF SyncInv, NoDuplex, ErrorMeansClosed
<1>3. ASSUME closes' = 0 PROVE Own'
  BY <1>3 DEF SyncInv, Own, StartIsLast, PendingIsOwn, DoneIsOwn, PendingIsWaited, HealthyIsOpen,
              NotifiedIsDone, Queue
<1>4. QED BY <1>1, <1>2, <1>3 DEF SyncInv

LEMMA CloseKeeps == ASSUME SyncInv, Close PROVE SyncInv'
<1> USE DEF Close
<1>a. TypeOK BY DEF SyncInv
<1>1. TypeOK'
  <2>1. closes' \in 0..MaxCloses /\ closes' # 0 BY <1>a, SyncHandlerAssumption, SMT DEF TypeOK
  <2>2. ioq' \in Seq(Items) BY <1>a, ItemTypes, AppendedQueue
  <2>3. QED BY <1>a, <2>1, <2>2 DEF TypeOK
<1>2. closes' # 0 BY <1>a, SMT DEF TypeOK
<1>3. NoDuplex' /\ ErrorMeansClosed' BY <1>2 DEF SyncInv, NoDuplex, ErrorMeansClosed
<1>4. QED BY <1>1, <1>2, <1>3 DEF SyncInv

LEMMA CompleteKeeps == ASSUME SyncInv, Complete PROVE SyncInv'
<1>a. TypeOK BY DEF SyncInv
<1>b. PICK i \in 1..Len(pend), e \in {"ok", "err"} :
        /\ pend' = SubSeq(pend, 1, i - 1) \o SubSeq(pend, i + 1, Len(pend))
        /\ ioq' = Append(ioq, Item("done", pend[i].op, pend[i].n, e))
  BY DEF Complete
<1>c. UNCHANGED <<call, waiting, notified, opened, duplex, pending, ec, timer, succeeded, closes>>
  BY DEF Complete
<1>d. pend \in Seq(Operations) /\ pend[i] \in Operations BY <1>a, SMT DEF TypeOK
<1> DEFINE x == Item("done", pend[i].op, pend[i].n, e)
<1>e. x \in Items BY <1>d, ItemTypes DEF Errors
<1>1. TypeOK'
  <2>1. pend' \in Seq(Operations)
    <3>1. SubSeq(pend, 1, i - 1) \in Seq(Operations) BY <1>d, SMT
    <3>2. SubSeq(pend, i + 1, Len(pend)) \in Seq(Operations) BY <1>d, SMT
    <3>3. QED BY <1>b, <3>1, <3>2, SMT
  <2>2. ioq' \in Seq(Items) BY <1>a, <1>b, <1>e, AppendedQueue
  <2>3. QED BY <1>a, <1>c, <2>1, <2>2 DEF TypeOK
<1>2. NoDuplex' /\ ErrorMeansClosed' BY <1>c DEF SyncInv, NoDuplex, ErrorMeansClosed
<1>3. ASSUME closes' = 0 PROVE Own'
  <2>a. Own BY <1>c, <1>3 DEF SyncInv
  <2>b. pend # <<>> BY <1>d, SMT
  <2>c. Len(pend) = 1 /\ pend[1].n = call /\ (duplex => pend[1].op # "read")
        /\ waiting /\ ~notified /\ ec = "ok" /\ (\A j \in Queue : ioq[j].h # "done")
    BY <2>a, <2>b DEF Own, PendingIsOwn
  <2>d. i = 1 BY <2>c, SMT
  <2>e. pend' = <<>>
    <3>1. SubSeq(pend, 1, i - 1) = <<>> /\ SubSeq(pend, i + 1, Len(pend)) = <<>>
      BY <1>d, <2>c, <2>d, SMT
    <3>2. QED BY <1>b, <3>1, SMT
  <2> DEFINE last == Len(ioq) + 1
  <2>f. ioq'[last] = x /\ last \in Queue'
        /\ (\A k \in Queue : k \in Queue' /\ ioq'[k] = ioq[k] /\ k < last)
        /\ (\A k \in Queue' : k \in Queue \/ k = last)
    BY <1>a, <1>b, <1>e, AppendedQueue
  <2>g. x.h = "done" /\ x.n = call /\ (duplex => x.op # "read") BY <2>c, <2>d DEF Item
  <2> HIDE DEF last, x
  <2>h. \A k \in Queue : ioq[k].h # "start" /\ ioq[k].h # "close"
    BY <2>a, <2>b DEF Own, StartIsLast
  <2>1. \A k \in Queue' : ioq'[k].h # "close" /\ ioq'[k].h # "start" BY <2>f, <2>g, <2>h
  <2>2. StartIsLast' /\ PendingIsOwn' BY <2>1, <2>e DEF StartIsLast, PendingIsOwn
  <2>3. DoneIsOwn'
    <3>1. \A k \in Queue' : ioq'[k].h = "done" => k = last BY <2>c, <2>f
    <3>2. QED BY <3>1, <1>c, <2>c, <2>e, <2>f, <2>g DEF DoneIsOwn
  <2>4. PendingIsWaited' /\ HealthyIsOpen' /\ NotifiedIsDone'
    BY <1>c, <2>a DEF Own, PendingIsWaited, HealthyIsOpen, NotifiedIsDone
  <2>5. QED BY <2>1, <2>2, <2>3, <2>4 DEF Own
<1>4. QED BY <1>1, <1>2, <1>3, <1>c DEF SyncInv

LEMMA ExpireKeeps == ASSUME SyncInv, Expire PROVE SyncInv'
<1> USE DEF Expire
<1>a. TypeOK BY DEF SyncInv
<1> DEFINE x == Item("timeout", timer.op, timer.n, "ok")
<1>b. timer \in Operations BY <1>a DEF TypeOK
<1>c. x \in Items BY <1>b, ItemTypes
<1>1. TypeOK' BY <1>a, <1>c, AppendedQueue DEF TypeOK
<1>2. NoDuplex' /\ ErrorMeansClosed' BY DEF SyncInv, NoDuplex, ErrorMeansClosed
<1>3. ASSUME closes' = 0 PROVE Own'
  <2>a. Own BY <1>3 DEF SyncInv
  <2> DEFINE last == Len(ioq) + 1
  <2>b. ioq'[last] = x /\ last \in Queue'
        /\ (\A k \in Queue : k \in Queue' /\ ioq'[k] = ioq[k] /\ k < last)
        /\ (\A k \in Queue' : k \in Queue \/ k = last)
    BY <1>a, <1>c, AppendedQueue
  <2>c. x.h = "timeout" BY DEF Item
  <2> HIDE DEF last, x
  <2>d. \A k \in Queue' : ioq'[k].h # "timeout" => k \in Queue /\ ioq'[k] = ioq[k]
    BY <2>b, <2>c
  <2>1. \A k \in Queue' : ioq'[k].h # "close" BY <2>a, <2>d DEF Own
  <2>2. StartIsLast'
    <3>1. StartIsLast BY <2>a DEF Own
    <3>2. SUFFICES ASSUME NEW k \in Queue', ioq'[k].h = "start"
                   PROVE  /\ waiting /\ ~notified /\ ioq[k].n = call
                          /\ pend = <<>> /\ ~(ec = "ok" /\ pending)
                          /\ \A j \in Queue' : j > k => ioq'[j].h = "timeout"
                          /\ ec = "ok" => \A j \in Queue' : ioq'[j].h # "done"
      BY <2>d DEF StartIsLast
    <3>3. k \in Queue /\ ioq[k].h = "start" BY <2>d, <3>2
    <3>4. \A j \in Queue : /\ j > k => ioq[j].h = "timeout"
                           /\ ec = "ok" => ioq[j].h # "done"
      BY <3>1, <3>3 DEF StartIsLast
    <3>5. \A j \in Queue' : /\ j > k => ioq'[j].h = "timeout"
                            /\ ec = "ok" => ioq'[j].h # "done"
      BY <2>d, <3>4
    <3>6. waiting /\ ~notified /\ ioq[k].n = call /\ pend = <<>> /\ ~(ec = "ok" /\ pending)
      BY <3>1, <3>3 DEF StartIsLast
    <3>7. QED BY <3>5, <3>6
  <2>3. PendingIsOwn' BY <2>a, <2>d DEF Own, PendingIsOwn
  <2>4. DoneIsOwn' BY <2>a, <2>d DEF Own, DoneIsOwn
  <2>5. PendingIsWaited' /\ HealthyIsOpen' /\ NotifiedIsDone'
    BY <2>a DEF Own, PendingIsWaited, HealthyIsOpen, NotifiedIsDone
  <2>6. QED BY <2>1, <2>2, <2>3, <2>4, <2>5 DEF Own
<1>4. QED BY <1>1, <1>2, <1>3 DEF SyncInv

-----------------------------------------------------------------------------
(* The io thread *)

\* What does not depend on which handler runs.
IoStep == ioq # <<>> /\ UNCHANGED <<call, waiting, closes>>

\* What Own says when the first item is a start: it is this call's, and only timers
\* stand behind it.
LEMMA StartAtHead ==
  ASSUME TypeOK, Own, ioq # <<>>, Head(ioq).h = "start"
  PROVE /\ waiting /\ ~notified /\ Head(ioq).n = call /\ pend = <<>> /\ ~(ec = "ok" /\ pending)
        /\ \A k \in Queue : k > 1 => ioq[k].h # "start" /\ ioq[k].h # "done"
<1>1. 1 \in Queue /\ Head(ioq) = ioq[1] BY HeadIsFirst
<1>2. \A k \in Queue : k > 1 => ioq[k].h = "timeout" BY <1>1 DEF Own, StartIsLast
<1>3. QED BY <1>1, <1>2 DEF Own, StartIsLast

\* And when it is a completion that is heeded.
LEMMA DoneAtHead ==
  ASSUME TypeOK, Own, ioq # <<>>, Head(ioq).h = "done", ec = "ok"
  PROVE /\ waiting /\ ~notified /\ pend = <<>>
        /\ Head(ioq).n = call /\ (duplex => Head(ioq).op # "read")
        /\ \A k \in Queue : k > 1 => ioq[k].h # "start" /\ ioq[k].h # "done"
<1>1. 1 \in Queue /\ Head(ioq) = ioq[1] BY HeadIsFirst
<1>2. \A k \in Queue : ioq[k].h # "start" BY <1>1 DEF Own, StartIsLast
<1>3. \A k \in Queue : k > 1 => k # 1 BY SMT DEF Queue
<1>4. QED BY <1>1, <1>2, <1>3 DEF Own, DoneIsOwn

LEMMA IgnoreKeeps ==
  ASSUME SyncInv, IoStep, Ignore, Head(ioq).h # "start" PROVE SyncInv'
<1> USE DEF Ignore, KeepSocket, IoStep
<1>a. TypeOK BY DEF SyncInv
<1>b. /\ ioq' \in Seq(Items)
      /\ \A k \in Queue' : k + 1 \in Queue /\ k + 1 > 1 /\ ioq'[k] = ioq[k + 1]
  BY <1>a, ShiftedQueue
<1>1. TypeOK' BY <1>a, <1>b DEF TypeOK
<1>2. NoDuplex' /\ ErrorMeansClosed' BY DEF SyncInv, NoDuplex, ErrorMeansClosed
<1>3. ASSUME closes' = 0 PROVE Own'
  <2>a. Own BY <1>3 DEF SyncInv
  <2>1. \A k \in Queue' : ioq'[k].h # "close" BY <1>b, <2>a DEF Own
  <2>2. StartIsLast'
    <3> SUFFICES ASSUME NEW k \in Queue', ioq'[k].h = "start"
                 PROVE /\ waiting' /\ ~notified' /\ ioq'[k].n = call'
                       /\ pend' = <<>> /\ ~(ec' = "ok" /\ pending')
                       /\ \A j \in Queue' : j > k => ioq'[j].h = "timeout"
                       /\ ec' = "ok" => \A j \in Queue' : ioq'[j].h # "done"
      BY DEF StartIsLast
    <3>1. k + 1 \in Queue /\ ioq[k + 1].h = "start" BY <1>b
    <3>2. \A j \in Queue' : j > k => j + 1 > k + 1 BY <1>b, SMT DEF Queue
    <3>3. QED BY <1>b, <2>a, <3>1, <3>2 DEF Own, StartIsLast
  <2>3. PendingIsOwn' BY <1>b, <2>a DEF Own, PendingIsOwn
  <2>4. DoneIsOwn'
    <3>1. \A j, k \in Queue' : j + 1 = k + 1 => j = k BY <1>b, SMT DEF Queue
    <3>2. ASSUME NEW k \in Queue', ec = "ok", ioq'[k].h = "done"
          PROVE /\ waiting /\ ~notified /\ pend = <<>>
                /\ ioq'[k].n = call /\ (duplex => ioq'[k].op # "read")
                /\ \A j \in Queue' : ioq'[j].h = "done" => j = k
      <4>1. k + 1 \in Queue /\ ioq[k + 1].h = "done" BY <1>b, <3>2
      <4>2. \A j \in Queue : ioq[j].h = "done" => j = k + 1
        BY <2>a, <3>2, <4>1 DEF Own, DoneIsOwn
      <4>3. \A j \in Queue' : ioq'[j].h = "done" => j = k BY <1>b, <3>1, <4>2
      <4>4. QED BY <1>b, <2>a, <3>2, <4>1, <4>3 DEF Own, DoneIsOwn
    <3>3. QED BY <3>2 DEF DoneIsOwn
  <2>5. PendingIsWaited' /\ HealthyIsOpen' /\ NotifiedIsDone'
    BY <2>a DEF Own, PendingIsWaited, HealthyIsOpen, NotifiedIsDone
  <2>6. QED BY <2>1, <2>2, <2>3, <2>4, <2>5 DEF Own
<1>4. QED BY <1>1, <1>2, <1>3 DEF SyncInv

\* An operation starts: connect_i, the data operations, and the second half of
\* write_read.
LEMMA StartTypes ==
  ASSUME TypeOK, ioq # <<>>, UNCHANGED <<call, waiting, notified, closes, succeeded>>,
         NEW op \in {"connect", "read", "write"}, NEW n \in 1..MaxCalls,
         SetTimer(op, n), opened' \in BOOLEAN, duplex' \in BOOLEAN,
         pend' = Append(pend, [op |-> op, n |-> n]) \/ pend' = <<[op |-> op, n |-> n]>>,
         ioq' = Rest \/ ioq' = Rest \o Aborted
  PROVE TypeOK'
<1>1. [op |-> op, n |-> n] \in Operations /\ pend' \in Seq(Operations)
      /\ timer' \in Operations
  BY PendTypes DEF SetTimer
<1>2. ioq' \in Seq(Items) BY ShiftedQueue, ClosedQueue
<1>3. ec' \in Errors \cup {"timed_out", "shut_down"} BY DEF SetTimer, Errors
<1>4. QED BY <1>1, <1>2, <1>3 DEF TypeOK, SetTimer

\* A call ends: its result is recorded and the waiting thread notified.
LEMMA EndTypes ==
  ASSUME TypeOK, ioq # <<>>, UNCHANGED <<call, waiting, closes>>, notified' \in BOOLEAN,
         ec' \in Errors \cup {"timed_out", "shut_down"}, opened' \in BOOLEAN, duplex' \in BOOLEAN,
         pending' \in BOOLEAN, timer' \in {timer, NoTimer}, pend' \in {pend, <<>>},
         NEW n \in 1..MaxCalls, succeeded' \in {succeeded, succeeded \cup {n}},
         ioq' = Rest \/ ioq' = Rest \o Aborted
  PROVE TypeOK'
<1>1. ioq' \in Seq(Items) BY ShiftedQueue, ClosedQueue
<1>2. pend' \in Seq(Operations) BY PendTypes DEF TypeOK
<1>3. QED BY <1>1, <1>2 DEF TypeOK

LEMMA ConnectKeeps ==
  ASSUME SyncInv, IoStep, Head(ioq).h = "start", ConnectI(Head(ioq).op, Head(ioq).n)
  PROVE SyncInv'
<1> USE DEF IoStep
<1> DEFINE c == Head(ioq).op  n == Head(ioq).n
<1>a. TypeOK BY DEF SyncInv
<1>b. n \in 1..MaxCalls /\ Head(ioq) \in Items BY <1>a, HeadIsFirst, ItemShapes
<1>1. CASE /\ opened /\ c = "connect"
           /\ Notify /\ succeeded' = succeeded \cup {n}
           /\ KeepSocket /\ UNCHANGED <<duplex, pending, ec, timer>>
  <2> USE <1>1 DEF Notify, KeepSocket
  <2>1. TypeOK' BY <1>a, <1>b, EndTypes DEF TypeOK
  <2>2. NoDuplex' /\ ErrorMeansClosed' BY DEF SyncInv, NoDuplex, ErrorMeansClosed
  <2>3. ASSUME closes' = 0 PROVE Own'
    <3>1. Own BY <2>3 DEF SyncInv
    <3>2. /\ n = call /\ pend = <<>> /\ ~(ec = "ok" /\ pending)
          /\ \A k \in Queue : k > 1 => ioq[k].h # "start" /\ ioq[k].h # "done"
      BY <1>a, <3>1, StartAtHead
    <3>3. QED BY <1>a, <3>1, <3>2, EndedIsOwn
  <2>4. QED BY <2>1, <2>2, <2>3 DEF SyncInv
<1>2. CASE ~opened /\ StartOperation("connect", n) /\ UNCHANGED duplex
  <2> USE <1>2 DEF StartOperation
  <2>1. TypeOK' BY <1>a, <1>b, StartTypes DEF TypeOK
  <2>2. NoDuplex' /\ ErrorMeansClosed' BY DEF SyncInv, NoDuplex, ErrorMeansClosed
  <2>3. ASSUME closes' = 0 PROVE Own'
    <3>1. Own BY <2>3 DEF SyncInv
    <3>2. /\ n = call /\ pend = <<>> /\ waiting /\ ~notified
          /\ \A k \in Queue : k > 1 => ioq[k].h # "start" /\ ioq[k].h # "done"
      BY <1>a, <3>1, StartAtHead
    <3>3. pend' = <<[op |-> "connect", n |-> call]>> BY <1>a, <1>b, <3>2, PendTypes
    <3>4. QED BY <1>a, <3>1, <3>2, <3>3, StartedIsOwn DEF SetTimer
  <2>4. QED BY <2>1, <2>2, <2>3 DEF SyncInv
<1>3. CASE /\ opened /\ c = "reconnect"
           /\ SetTimer("connect", n)
           /\ opened' = FALSE /\ ioq' = Rest \o Aborted
           /\ pend' = <<[op |-> "connect", n |-> n]>>
           /\ UNCHANGED <<notified, duplex, succeeded>>
  <2> USE <1>3
  <2>1. TypeOK' BY <1>a, <1>b, StartTypes DEF TypeOK
  <2>2. NoDuplex' /\ ErrorMeansClosed' BY DEF SyncInv, NoDuplex, ErrorMeansClosed
  <2>3. ASSUME closes' = 0 PROVE Own'
    <3>1. Own BY <2>3 DEF SyncInv
    <3>2. /\ n = call /\ pend = <<>> /\ waiting /\ ~notified
          /\ \A k \in Queue : k > 1 => ioq[k].h # "start" /\ ioq[k].h # "done"
      BY <1>a, <3>1, StartAtHead
    <3>3. ioq' = Rest BY <1>a, <3>2, ClosedQueue
    <3>4. QED BY <1>a, <3>1, <3>2, <3>3, StartedIsOwn DEF SetTimer
  <2>4. QED BY <2>1, <2>2, <2>3 DEF SyncInv
<1>4. CASE CloseSocket /\ ec' = "err" /\ Notify /\ UNCHANGED <<duplex, pending, timer, succeeded>>
  <2> USE <1>4 DEF CloseSocket, Notify
  <2>1. TypeOK' BY <1>a, <1>b, EndTypes DEF TypeOK, Errors
  <2>2. NoDuplex' /\ ErrorMeansClosed' BY DEF SyncInv, NoDuplex, ErrorMeansClosed
  <2>3. ASSUME closes' = 0 PROVE Own'
    <3>1. Own BY <2>3 DEF SyncInv
    <3>2. \A k \in Queue : k > 1 => ioq[k].h # "start" BY <1>a, <3>1, StartAtHead
    <3>3. QED BY <1>a, <3>1, <3>2, EndedIsOwn
  <2>4. QED BY <2>1, <2>2, <2>3 DEF SyncInv
<1>5. QED BY <1>1, <1>2, <1>3, <1>4 DEF ConnectI

LEMMA DataKeeps ==
  ASSUME SyncInv, IoStep, Head(ioq).h = "start", DataI(Head(ioq).op, Head(ioq).n)
  PROVE SyncInv'
<1> USE DEF IoStep
<1> DEFINE c == Head(ioq).op  n == Head(ioq).n  op == IF c = "read" THEN c ELSE "write"
<1>a. TypeOK BY DEF SyncInv
<1>b. n \in 1..MaxCalls /\ c \in Calls BY <1>a, HeadIsFirst, ItemShapes
<1>c. op \in {"connect", "read", "write"} OBVIOUS
<1>1. CASE opened /\ duplex' = (c = "write_read") /\ StartOperation(op, n)
  <2> USE <1>1 DEF StartOperation
  <2>1. TypeOK' BY <1>a, <1>b, <1>c, StartTypes DEF TypeOK
  <2>2. NoDuplex' BY <1>b DEF NoDuplex, Calls
  <2>3. ErrorMeansClosed' BY DEF ErrorMeansClosed, SetTimer
  <2>4. ASSUME closes' = 0 PROVE Own'
    <3>1. Own BY <2>4 DEF SyncInv
    <3>2. /\ n = call /\ pend = <<>> /\ waiting /\ ~notified
          /\ \A k \in Queue : k > 1 => ioq[k].h # "start" /\ ioq[k].h # "done"
      BY <1>a, <3>1, StartAtHead
    <3>3. pend' = <<[op |-> op, n |-> call]>> BY <1>a, <1>b, <1>c, <3>2, PendTypes
    <3>4. duplex' => op # "read" OBVIOUS
    <3> HIDE DEF op
    <3>5. QED BY <1>a, <3>1, <3>2, <3>3, <3>4, StartedIsOwn DEF SetTimer
  <2>5. QED BY <2>1, <2>2, <2>3, <2>4 DEF SyncInv
<1>2. CASE ~opened /\ Notify /\ KeepSocket /\ UNCHANGED <<duplex, pending, ec, timer, succeeded>>
  <2> USE <1>2 DEF Notify, KeepSocket
  <2>1. TypeOK' BY <1>a, <1>b, EndTypes DEF TypeOK
  <2>2. NoDuplex' /\ ErrorMeansClosed' BY DEF SyncInv, NoDuplex, ErrorMeansClosed
  <2>3. ASSUME closes' = 0 PROVE Own'
    <3>1. Own BY <2>3 DEF SyncInv
    <3>2. /\ pend = <<>> /\ ~(ec = "ok" /\ pending)
          /\ \A k \in Queue : k > 1 => ioq[k].h # "start" /\ ioq[k].h # "done"
      BY <1>a, <3>1, StartAtHead
    <3>3. ec # "ok" BY <3>1, <3>2 DEF Own, HealthyIsOpen
    <3>4. QED BY <1>a, <3>1, <3>2, <3>3, EndedIsOwn
  <2>4. QED BY <2>1, <2>2, <2>3 DEF SyncInv
<1>3. QED BY <1>1, <1>2 DEF DataI

LEMMA HandleConnectKeeps ==
  ASSUME SyncInv, IoStep, Head(ioq).h = "done", ec = "ok", HandleConnect(Head(ioq).n, Head(ioq).ec)
  PROVE SyncInv'
<1> USE DEF IoStep
<1> DEFINE n == Head(ioq).n  e == Head(ioq).ec
<1>a. TypeOK BY DEF SyncInv
<1>b. n \in 1..MaxCalls /\ e \in Errors BY <1>a, HeadIsFirst, ItemShapes
<1>c. ClearTimer /\ Notify /\ ec' = e /\ UNCHANGED duplex BY DEF HandleConnect
<1>d. IF e = "ok"
      THEN opened' = TRUE /\ ioq' = Rest /\ succeeded' = succeeded \cup {n} /\ UNCHANGED pend
      ELSE CloseSocket /\ UNCHANGED succeeded
  BY DEF HandleConnect
<1> HIDE DEF n, e
<1>1. TypeOK' BY <1>a, <1>b, <1>c, <1>d, EndTypes DEF TypeOK, ClearTimer, Notify, CloseSocket
<1>2. NoDuplex' /\ ErrorMeansClosed'
  BY <1>c, <1>d DEF SyncInv, NoDuplex, ErrorMeansClosed, CloseSocket
<1>3. ASSUME closes' = 0 PROVE Own'
  <2>1. Own BY <1>3 DEF SyncInv
  <2>2. /\ n = call /\ pend = <<>>
        /\ \A k \in Queue : k > 1 => ioq[k].h # "start" /\ ioq[k].h # "done"
    BY <1>a, <2>1, DoneAtHead DEF n
  <2>3. QED BY <1>a, <1>c, <1>d, <2>1, <2>2, EndedIsOwn DEF ClearTimer, Notify, CloseSocket
<1>4. QED BY <1>1, <1>2, <1>3 DEF SyncInv

LEMMA HandleReadWriteKeeps ==
  ASSUME SyncInv, IoStep, Head(ioq).h = "done", Head(ioq).op # "connect", opened, ec = "ok",
         HandleReadWrite(Head(ioq).op, Head(ioq).n, Head(ioq).ec)
  PROVE SyncInv'
<1> USE DEF IoStep
<1> DEFINE op == Head(ioq).op  n == Head(ioq).n  e == Head(ioq).ec
<1>a. TypeOK BY DEF SyncInv
<1>b. n \in 1..MaxCalls /\ e \in Errors /\ op \in {"connect", "read", "write"}
  BY <1>a, HeadIsFirst, ItemShapes
<1>c. ASSUME Own
      PROVE /\ n = call /\ pend = <<>> /\ waiting /\ ~notified /\ (duplex => op # "read")
            /\ \A k \in Queue : k > 1 => ioq[k].h # "start" /\ ioq[k].h # "done"
  BY <1>a, <1>c, DoneAtHead
<1>1. CASE e # "ok" /\ ClearTimer /\ Notify /\ CloseSocket /\ ec' = e /\ UNCHANGED <<duplex, succeeded>>
  <2> USE <1>1 DEF ClearTimer, Notify, CloseSocket
  <2>1. TypeOK' BY <1>a, <1>b, EndTypes DEF TypeOK
  <2>2. NoDuplex' /\ ErrorMeansClosed' BY DEF SyncInv, NoDuplex, ErrorMeansClosed
  <2>3. ASSUME closes' = 0 PROVE Own'
    <3>1. Own BY <2>3 DEF SyncInv
    <3>2. QED BY <1>a, <1>c, <3>1, EndedIsOwn
  <2>4. QED BY <2>1, <2>2, <2>3 DEF SyncInv
<1>2. CASE e = "ok" /\ duplex /\ duplex' = FALSE /\ StartOperation("read", n)
  <2> USE <1>2 DEF StartOperation
  <2>1. TypeOK' BY <1>a, <1>b, StartTypes DEF TypeOK
  <2>2. NoDuplex' /\ ErrorMeansClosed' BY DEF NoDuplex, ErrorMeansClosed, SetTimer
  <2>3. ASSUME closes' = 0 PROVE Own'
    <3>1. Own BY <2>3 DEF SyncInv
    <3>2. pend' = <<[op |-> "read", n |-> call]>> BY <1>a, <1>b, <1>c, <3>1, PendTypes
    <3>3. QED BY <1>a, <1>c, <3>1, <3>2, StartedIsOwn DEF SetTimer
  <2>4. QED BY <2>1, <2>2, <2>3 DEF SyncInv
<1>3. CASE /\ e = "ok" /\ duplex /\ ~(waiting /\ call = n /\ op = "write")
           /\ ClearTimer /\ Notify /\ KeepSocket
           /\ ec' = "aborted" /\ UNCHANGED <<duplex, succeeded>>
  <2> USE <1>3 DEF ClearTimer, Notify, KeepSocket
  <2>1. TypeOK' BY <1>a, <1>b, EndTypes DEF TypeOK, Errors
  <2>2. ~Own BY <1>b, <1>c
  <2>3. closes # 0 /\ Duplex BY <2>2 DEF SyncInv, NoDuplex
  <2>4. QED BY <2>1, <2>3 DEF SyncInv, NoDuplex, ErrorMeansClosed
<1>4. CASE /\ e = "ok" /\ ~duplex
           /\ ClearTimer /\ Notify /\ KeepSocket
           /\ ec' = "ok" /\ succeeded' = succeeded \cup {n} /\ UNCHANGED duplex
  <2> USE <1>4 DEF ClearTimer, Notify, KeepSocket
  <2>1. TypeOK' BY <1>a, <1>b, EndTypes DEF TypeOK, Errors
  <2>2. NoDuplex' /\ ErrorMeansClosed' BY DEF SyncInv, NoDuplex, ErrorMeansClosed
  <2>3. ASSUME closes' = 0 PROVE Own'
    <3>1. Own BY <2>3 DEF SyncInv
    <3>2. QED BY <1>a, <1>c, <3>1, EndedIsOwn
  <2>4. QED BY <2>1, <2>2, <2>3 DEF SyncInv
<1>5. QED BY <1>1, <1>2, <1>3, <1>4 DEF HandleReadWrite

\* The timeout is heeded only while its call waits, and then nothing has been started.
LEMMA HandleTimeoutKeeps ==
  ASSUME SyncInv, IoStep, ec = "ok", pending, HandleTimeout PROVE SyncInv'
<1> USE DEF IoStep
<1>a. TypeOK BY DEF SyncInv
<1>b. CloseSocket /\ ec' = "timed_out" /\ Notify /\ UNCHANGED <<duplex, pending, timer, succeeded>>
  BY DEF HandleTimeout
<1> USE <1>b DEF CloseSocket, Notify
<1>1. TypeOK'
  <2>1. ioq' \in Seq(Items) /\ pend' \in Seq(Operations) BY <1>a, ClosedQueue, PendTypes
  <2>2. QED BY <1>a, <2>1 DEF TypeOK
<1>2. NoDuplex' /\ ErrorMeansClosed' BY DEF SyncInv, NoDuplex, ErrorMeansClosed
<1>3. ASSUME closes' = 0 PROVE Own'
  <2>1. Own BY <1>3 DEF SyncInv
  <2>2. \A k \in Queue : ioq[k].h # "start" BY <2>1 DEF Own, StartIsLast
  <2>3. QED BY <1>a, <2>1, <2>2, EndedIsOwn
<1>4. QED BY <1>1, <1>2, <1>3 DEF SyncInv

\* close_i is queued by close() alone.
LEMMA CloseIKeeps ==
  ASSUME SyncInv, IoStep, Head(ioq).h = "close", CloseI PROVE SyncInv'
<1> USE DEF IoStep
<1>a. TypeOK BY DEF SyncInv
<1>b. ec' = "shut_down" /\ UNCHANGED <<duplex, succeeded>> /\ opened' = FALSE
      /\ notified' \in BOOLEAN /\ pending' \in BOOLEAN /\ timer' \in {timer, NoTimer}
      /\ pend' \in {pend, <<>>} /\ (ioq' = Rest \/ ioq' = Rest \o Aborted)
  BY <1>a DEF CloseI, ClearTimer, CloseSocket, Notify, KeepSocket, TypeOK
<1>1. TypeOK'
  <2>1. ioq' \in Seq(Items) BY <1>a, <1>b, ShiftedQueue, ClosedQueue
  <2>2. pend' \in Seq(Operations) BY <1>a, <1>b, PendTypes DEF TypeOK
  <2>3. QED BY <1>a, <1>b, <2>1, <2>2 DEF TypeOK
<1>2. NoDuplex' /\ ErrorMeansClosed' BY <1>b DEF SyncInv, NoDuplex, ErrorMeansClosed
<1>3. closes' # 0
  <2>1. ~Own BY <1>a, HeadIsFirst DEF Own
  <2>2. QED BY <2>1 DEF SyncInv
<1>4. QED BY <1>1, <1>2, <1>3 DEF SyncInv

LEMMA SyncStep == SyncInv /\ [Next]_vars => SyncInv'
<1> SUFFICES ASSUME SyncInv, [Next]_vars PROVE SyncInv' OBVIOUS
<1>1. CASE UNCHANGED vars
  BY <1>1 DEF vars, SyncInv, TypeOK, NoDuplex, ErrorMeansClosed, Own, StartIsLast, PendingIsOwn,
              DoneIsOwn, PendingIsWaited, HealthyIsOpen, NotifiedIsDone, Queue
<1>2. CASE (\E c \in Calls : Call(c)) \/ Return \/ Close \/ Complete \/ Expire
  BY <1>2, CallKeeps, ReturnKeeps, CloseKeeps, CompleteKeeps, ExpireKeeps
<1>3. CASE IoThread
  <2>a. IoStep BY <1>3 DEF IoThread, IoStep
  <2> DEFINE x == Head(ioq)
  <2>1. CASE x.h = "start" /\ (ConnectI(x.op, x.n) \/ DataI(x.op, x.n))
    BY <2>a, <2>1, ConnectKeeps, DataKeeps
  <2>2. CASE x.h = "done" /\ x.op = "connect" /\ HandleConnect(x.n, x.ec)
    <3>1. CASE ec = "ok" BY <2>a, <2>2, <3>1, HandleConnectKeeps
    <3>2. CASE ec # "ok" BY <2>a, <2>2, <3>2, IgnoreKeeps DEF HandleConnect
    <3>3. QED BY <3>1, <3>2
  <2>3. CASE x.h = "done" /\ x.op # "connect" /\ HandleReadWrite(x.op, x.n, x.ec)
    <3>1. CASE opened /\ ec = "ok" BY <2>a, <2>3, <3>1, HandleReadWriteKeeps
    <3>2. CASE ~opened \/ ec # "ok" BY <2>a, <2>3, <3>2, IgnoreKeeps DEF HandleReadWrite
    <3>3. QED BY <3>1, <3>2
  <2>4. CASE x.h = "timeout" /\ HandleTimeout
    <3>1. CASE ec = "ok" /\ pending BY <2>a, <2>4, <3>1, HandleTimeoutKeeps
    <3>2. CASE ec # "ok" \/ ~pending BY <2>a, <2>4, <3>2, IgnoreKeeps DEF HandleTimeout
    <3>3. QED BY <3>1, <3>2
  <2>5. CASE x.h = "close" /\ CloseI BY <2>a, <2>5, CloseIKeeps
  <2>6. QED BY <1>3, <2>1, <2>2, <2>3, <2>4, <2>5 DEF IoThread
<1>4. QED BY <1>1, <1>2, <1>3 DEF Next

LEMMA SyncInvariant == Spec => []SyncInv
BY SyncInit, SyncStep, PTL DEF Spec
-----------------------------------------------------------------------------
(* Theorems *)

\* Whatever calls, errors and timeouts came before: a call that has returned without
\* a close() has left no operation queued or pending.
THEOREM SyncNothingLeft == Spec => []NothingLeftBehind
<1>1. SyncInv => NothingLeftBehind
  BY DEF SyncInv, Own, StartIsLast, PendingIsOwn, NothingLeftBehind, Queue
<1>2. QED BY <1>1, SyncInvariant, PTL

\* A handler with an error is closed, with any number of calls, and of closes where
\* write_read is not used.
THEOREM SyncErrorCloses == Spec => []ErrorMeansClosed
<1>1. SyncInv => ErrorMeansClosed BY DEF SyncInv
<1>2. QED BY <1>1, SyncInvariant, PTL

\* As long as nobody has called close(), a call that returns without an error has done
\* its own work: no completion, timeout or second half of write_read of another call
\* wakes it.
THEOREM SyncOwnResult == Spec => OwnResult
<1>1. SyncInv /\ [Next]_vars =>
        (waiting /\ ~waiting' /\ ec = "ok" /\ closes = 0 => call \in succeeded)
  <2> SUFFICES ASSUME SyncInv, [Next]_vars, waiting, ~waiting', ec = "ok", closes = 0
               PROVE call \in succeeded
    OBVIOUS
  <2>1. Return
    BY DEF Next, vars, Call, Close, IoThread, Complete, Expire
  <2>2. QED BY <2>1 DEF Return, SyncInv, Own, NotifiedIsDone
<1>2. QED BY <1>1, SyncInvariant, PTL DEF Spec, OwnResult
================================================================================
