------------------------------ MODULE Session ------------------------------
(***************************************************************************)
(* What service_handler promises to a work handler: the order in which its *)
(* callbacks are entered during one session, and when the object may go    *)
(* back to the pool.  on_open comes first and at most once, the callbacks  *)
(* that report data come between on_open and on_close, events of a linked  *)
(* handler come any time before on_close, on_close comes at most once and  *)
(* is the last callback of the session.                                    *)
(***************************************************************************)

CONSTANT MayDrop \* the last reference may go away before on_close was called

VARIABLES
  life,    \* where the session is in its life
  running  \* the callback the work thread is in, or "idle"

avars == <<life, running>>

Lives == {"free", "bound", "opened", "closed"}
DataCallbacks == {"read", "write"}
Callbacks == {"open", "close", "event"} \cup DataCallbacks

SessionTypeOK == life \in Lives /\ running \in Callbacks \cup {"idle"}

SInit == life = "free" /\ running = "idle"

\* A handler is taken from the pool and bound to a socket.
Acquire == life = "free" /\ running = "idle" /\ life' = "bound" /\ UNCHANGED running

\* The work thread enters callback c.
Enter(c) ==
  /\ running = "idle"
  /\ running' = c
  /\ \/ c = "open"          /\ life = "bound"               /\ life' = "opened"
     \/ c \in DataCallbacks /\ life = "opened"              /\ life' = life
     \/ c = "event"         /\ life \in {"bound", "opened"} /\ life' = life
     \/ c = "close"         /\ life \in {"bound", "opened"} /\ life' = "closed"

Leave == running # "idle" /\ running' = "idle" /\ UNCHANGED life

\* The last reference to the handler goes away and the pool takes it back.
Release ==
  /\ running = "idle"
  /\ life = "closed" \/ (MayDrop /\ life # "free")
  /\ life' = "free"
  /\ UNCHANGED running

SNext == Acquire \/ (\E c \in Callbacks : Enter(c)) \/ Leave \/ Release

SSpec == SInit /\ [][SNext]_avars
=============================================================================
