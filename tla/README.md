# A TLA+ model of baserver

baserver ("bas") is a small C++ server framework on boost::asio: a server accepts
connections into pooled `service_handler` objects, each bound to one io thread and one
work thread; a client connects the same objects outwards, alone or as children of a
server's handler; a blocking client (`sync_client`) wraps asynchronous calls into
waiting ones. This directory holds TLA+ modules translated from that code, the TLC
configurations that check them, and proofs that TLAPS checks. `PROJECT.json` lists
for every definition the source lines it stands for.

All line numbers are those of the sources under `src/`. boost and asio are not part of
the repository; they are modelled from how the code uses them, and every definition
that does so is marked external in `PROJECT.json`.

## 1. Inventory

| component | source | state it keeps | operations |
|---|---|---|---|
| service_handler | `bas/service_handler.hpp` | `stopped_`, socket, session and i/o timer, read and write buffer, work handler | bind, start, connect, async reads and writes, close, parent_post, child_post, clear |
| service_handler_pool | `bas/service_handler_pool.hpp` | vector of idle handlers, `handler_count_`, `closed_`, mutex | init, close, get_service_handler, put_handler (the deleter), get_load |
| io_service_pool | `bas/io_service_pool.hpp` | io_services, threads, work objects, `idle_`, `next_io_service_`, mutex | start, stop, get_io_service, run_service |
| io_service_group | `bas/io_service_group.hpp` | an io pool and a work pool, `started_`, `force_stop_` | start, stop, set, get |
| server | `bas/server.hpp` | acceptor, its own one-thread pool, one delay timer, `started_`, `block_` | start, run, stop, the accept chains |
| client | `bas/client.hpp` | handler pool, endpoint | connect (plain, or as the child of a handler) |
| server_work, client_work | `bastool/` | `client_handler_` / `server_handler_`, `passive_close_`, `event_` | on_open, on_read, on_write, on_close, on_child, on_parent, do_io |
| biz_proxy, biz_echo | `examples/proxy`, `bastool/server_work.hpp` | `status_` | process |
| sync_handler | `bas/sync_handler.hpp` | `ec_`, `opened_`, `pending_`, `waiting_`, `duplex_`, socket, timer | connect, read, read_some, write, write_some, write_read, close |
| sync_handler_pool, sync_client | `bas/sync_client.hpp` | vector of idle handlers, `handler_count_`, `closed_`, condition; an io_service_pool; endpoint_group | get_sync_handler, put_handler, close; start, stop, connect |
| hash_map | `bastool/hash_map.hpp` | buckets, mutexes | find, insert, update, insert_update, erase, reset, clean |
| io_buffer | `bas/io_buffer.hpp` | capacity, begin and end offset | produce, consume, crunch, resize, clear |
| byte_string | `bastool/byte_string.hpp` | a vector of bytes | assign, fill, append, substr, replace, erase, resize |
| win_service | `bastool/win_service.hpp`, `examples/echo/server/server_main.hpp` | the status reported to the service manager, the stop and start functions | service_main, the control handler, install, remove, command |
| http example | `examples/http/server/` | `request_parser_`, `request_`, `reply_` of a work handler that is used for session after session | parse, url_decode, handle_request, on_open, on_read, on_write, on_clear |
| echo example | `examples/echo/` | the pause timer, the error counters, the rounds of connections | run_once, on_open, on_write, on_read, on_close, handle_timeout |
| ssl example, main programs, ini parameters, work allocators | `examples/`, `bastool/` | process start-up, factories | |

How they interact. The server's accept chains take a handler from the pool, choose an
io_service and a work io_service for it, accept, and start it. From then on two
threads share the handler: completions run on the io thread, callbacks of the work
handler on the work thread, each `post`ing or `dispatch`ing to the other; whoever holds
a bound handler of it holds a `shared_ptr`, and when the last one goes, the deleter
puts the object back into the pool. A proxied session links a parent and a child
handler, which point at each other and post events to each other's work queue. A
graceful stop of the group restarts its pools again and again until a round in which
nothing ran. A Windows service adds two threads of the service manager, one of which
starts the server and one of which stops, pauses and continues it, and a status both
report. The blocking client has io threads of its own: whoever stops it must neither
wait for its callers nor take those threads away from the calls they are in.

What is hard here, and what makes each part correct:

- *service_handler*: completions, two timers, close and callbacks of two threads meet
  on one object. Correct: one do_close per session whatever coincides; callbacks in
  the order on_open, data, on_close; nothing left at asio once stopped; every session
  with a timeout ends; the object is recycled exactly when nothing refers to it.
- *service_handler_pool*: the count is changed in four places, and deleters run inside
  clear(). Correct: the count is the number of handlers; bounds hold; a closed pool
  keeps nothing.
- *io_service_pool / group*: sessions wander between two pools while these stop and
  restart. Correct: stop() returns, and only when every session has run to its end.
- *server*: several accept chains share one timer and one pool; start, run and stop come
  from different threads; the destructor closes the pool while sessions go on. Correct:
  no chain doubled, none lost for want of a handler, stop heeded, nothing left for the
  next start, no handler left behind.
- *win_service*: the status is reported before and after calls that block. Correct: what
  is reported is true; a service told to stop reports STOPPED and gives everything back.
- *work handlers*: parent and child close each other in any order. Correct: no null
  pointer, one operation at a time, no cycle of references left, and the bytes that come
  out are those that went in, in order.
- *echo client*: a pause timer is waited for on one thread and reset on the other, in a
  handler that is used again. Correct: a pause ends with its session; failures are
  counted once.
- *hash_map*: a thread holds one of fewer mutexes than buckets and works on the size it
  read under it. Correct: an operation on a key takes effect at one moment; reset and
  clean remove nothing that they should not.
- *http*: a parser is reused while requests come in pieces. Correct: a request is
  answered if it is one, with the status its uri deserves, whatever was read before.
- *sync_handler*: a completion, a timeout and a close may each notify one waiting
  call. Correct: every call returns, with its own result, leaving nothing behind.
- *sync_client*: threads wait for a handler with a deadline, handlers come back broken, the
  client is stopped meanwhile. Correct: the count; no thread sleeps beside an idle
  handler; stop() and every call return; a stopped client keeps nothing.
- *byte_string*: positions and lengths are unsigned and their sums wrap. Correct: a section
  is accepted exactly if it lies in the string.

`hazards` in `PROJECT.json` lists these at the lines where they bite.

## 2. Modules

| module | models | composed with |
|---|---|---|
| `Session` | the promise of service_handler to a work handler: an abstract specification of the order of callbacks | |
| `ServiceHandler` | one service_handler through its sessions | implements `Session` (`INSTANCE ... WITH`) |
| `HandlerPool` | service_handler_pool | |
| `IoServiceGroup` | the two io_service_pools of a group, with sessions that run on both | |
| `Server` | construction, accept chains, start, run, stop, destruction | extends `HandlerPool`: its actions are steps of the server's |
| `WinService` | the server as a program, as a Windows service, and the service's tool | extends `Server` |
| `Relay` | a parent handler, its children, both work handlers, client::connect, biz, the bytes in their buffers | the part of `ServiceHandler` events depend on; instances of `IoBuffer` |
| `EchoClient` | the echo client's work handler and its pause timer | extends `ServiceHandler` |
| `SyncHandler` | one sync_handler | |
| `SyncHandlerPool` | the pool of sync_handlers and the threads that wait for one | |
| `SyncClient` | sync_client with its io threads and its callers; endpoint_group | extends `SyncHandlerPool` |
| `AbstractMap` | the promise of hash_map to the threads that share it: an abstract specification | |
| `HashMap` | hash_map: buckets under striped locks | implements `AbstractMap` (`INSTANCE ... WITH`) |
| `RequestParser` | the http request parser as a transition table, and a grammar to compare it with | |
| `RequestHandler` | url_decode, handle_request, the replies and mime types | extends `RequestParser` |
| `HttpSession` | the http example's work handler over reads and sessions | extends `RequestHandler` |
| `IoBuffer`, `ByteString` | the operations of io_buffer and byte_string as operators | `MCRelay` and `MCHashMap` evaluate them on small inputs |
| `*Proofs` | theorems about the module of that name; `ServerProofs` also about `HandlerPool` and `WinService`, `ServiceHandlerProofs` also about `EchoClient`, `SyncClientProofs` about `SyncClient` with its pool, `HttpSessionProofs` about `HttpSession` with the parser and the request handler, `ContainerProofs` about `HashMap`, `ByteString` and `IoBuffer` | |
| `MC*` | the instances TLC runs, with symmetry where there is any | |

Conventions. An io_service is a FIFO of the handlers queued on it; one thread takes
its head. `dispatch` from the thread that runs the io_service would run at once, but in
this code it always comes from another thread or at the end of a handler, so that it
is an append. An asio operation is *pending* until it completes or is cancelled; its
completion is then queued with its result fixed, and cancelling it later changes
nothing (asio's documented behaviour, and the origin of several findings). Definitions
commented "Mutant" are deliberately wrong variants of the definition they stand
before; each shows that a property would notice that mistake. They are used nowhere
in the specifications.

### ServiceHandler

State: `stopped` is `stopped_`; `pend` and `armed` are what asio still watches for this
object; `ioq` and `workq` are the parts of the two queues that belong to it; `callback`
is the work handler's callback in progress; `held` stands for a `shared_ptr` of a
linked handler; `opened` and `closed` record that on_open and on_close were entered.
Actions: `Bind` (pool and bind), `StartAccepted` and `PostOpen` (the two steps of
start() on the acceptor's thread, which the session timer may overtake), `AcceptFails`,
`Connect`; on the io thread `ConnectI`, `StartOp`, `CloseRequest`, `HandleConnect`,
`HandleOp`, `HandleTimeout`, each with the close_i it may contain; on the work thread
`DoWork`, `DoClose` and what a callback may do (`CallOp`, `CallClose`,
`CallConnectChild`, `Return`); of a linked handler `PostEvent`, `LinkedClose`, `Unlink`;
and `Recycle`, the deleter, enabled when no reference is left. `stopped_` is a plain
bool written by one thread and read by another: a read by the work thread may return
the old value until the queued do_close orders it (`StoppedReads`).

Buffers are not modelled here but in `Relay`: a call with an empty or full buffer is a
call of close(). The work handler is any that follows the framework's rules: it starts operations from
callbacks after on_open, at most `Outstanding` at once and one of each kind.

### HandlerPool

Handlers are counted, since which one is meant never matters. Each critical section is
one action, except clear(): its deleters lock the same mutex again, so it is modelled
element by element with the mutex held. `RecursiveMutex` says whether
`boost::asio::detail::mutex` may be locked twice by one thread: yes for the
CRITICAL_SECTION on Windows, no for the default pthread mutex elsewhere. The module has
operations but no behaviour of its own that a run checks: `Server` uses it.

### IoServiceGroup

A session is a token that alternates between its io_service and its work io_service
until it has run `togo` handlers. `pc` is the one thread that starts and stops.
`PoolStart`, `ClearPool`, `JoinPool` and `Check` are the steps of start() and of the loop
of stop(); `RunHandler` and `ThreadExit` belong to the pools' threads. `AcceptBegin` and
`AcceptEnd` are get_io_service(load), in two steps because it locks twice. `SetForce` is
set(), which changes `force_stop_` of a group that is not started, so that one
behaviour may stop once gracefully and once by force.

### Server

An accept chain is at each moment a queued handler, a pending accept, or the wait on
the shared timer. `main` is the thread in start() or run(), `stopper` the one in stop().
`block` is `block_`, chosen by whether the server is started with start() or run().
`Construct` fills the pool; accept_one takes a handler from it (`Get`), `SessionEnds` and
`Return` bring it back, and `DestroyBegin`, `DestroyPool` and `ClearPool` are the
destructor, which does not wait for sessions. A bind that fails leaves the acceptor open, neither
bound nor listening (`BindFails`, `unbound`; `server.hpp:189`, `194`): start() returns
without a word, and the open() of the next one throws, so that `MayStart` asks for an
acceptor that is closed and `WinService` says what becomes of a service.

`group` is the io_service_group: the server's own, which start() and stop() start and
stop with the server, or one of the program's, which is up or down as the program likes
(`GroupStarts`, `GroupStops`, and `SetGroup`, which gives it to a stopped server). While
it is down start() and stop() return at once (`server.hpp:157`, `183`) and no session
moves. What happens inside a group is `IoServiceGroup`'s; here the sessions of either
kind of group may end at any time it runs.

`asked` says which stop() there was since the start: none; one that came between
`started_ = true` and the start of the acceptor's pool (`server.hpp:211`, `214`), which is
lost ("early"), so that the program may have to call stop() again; or one that found the
pool's work object ("yes"). Calls that do nothing are no steps. A second stop() after one
that was heeded is not modelled, neither beside it nor while run() has still to clear
`started_`, where its close would stay queued until the next start. Nor is the
destruction of a server that is started while its group is down, which destroys an
acceptor that is in use.

### WinService

`host` is how the program is run. A "program" takes the steps of `Server`. A "service" has
two threads: `entry` is service_main (register, init, start, report RUNNING), `control`
and `calling` the control handler, which reports a pending state, calls stop() or
start(), and reports the final one when the call has returned. The service is the echo
example's `server_main`: its server has a group of the program's, which start() starts
before the server (`StartGroup`) and stop() stops gracefully after it, waiting until the
sessions are over (`HandlerReports`; that it loses none on the way but those of
`OnlyGrownLoses` is the matter of `IoServiceGroup`). The service manager is
external: it sends only controls that the last status accepts, one at a time. `host`
becomes "crashed" when CONTINUE meets an acceptor left open by a failed bind, whose
open() throws through the handler. A "tool" is install, remove or command, as far as the
manager's handles and the return value go. `MaxStarts` bounds CONTINUE, too, so that the
last one may remain unanswered; no property speaks of it.

### Relay

Handler 0 is the parent, the others are children used one after the other.
client::connect hands a child the io_service and work_service of its parent, so the
model has one io queue and one work queue for all. `setting` is chosen at the start from
the constant `Settings`: what drives the parent (`biz`: the tables of biz_proxy or
biz_echo, or "any" answer at all), which handlers have a timer that may expire (`timed`), and
how often the parent reads (`reads`), and the capacity of the read buffers (`room`).
`opening` is the moment in do_io before client::connect, when the io thread may stop the
parent. The bytes of each peer are numbered in the order it sent them; `buf` is the read
buffer of each handler with the offsets of `IoBuffer`, and a read brings any number of
bytes that fits. biz_proxy copies an answer into the parent's buffer only if it fits.

### EchoClient

The steps of the handler are those of `ServiceHandler`; what the callbacks do is no longer
any choice but that of `client_work`. `timer` is whether `timer_` is set, `pausing` the
wait asio has of it, which holds a reference to the handler. The io thread that comes
from the wait reads `timer_` and `stopped_` while the work thread may be writing them
(`TimerReads`). Connections that are refused take the same path as established ones, as
in the code; `run_once` does not look at a forced stop.

### SyncHandler

The mutex and the condition are modelled by `waiting` and `notified`; calls are
numbered so that the result of one can be told from the result of another. Spurious
wake-ups of the condition are not modelled (the code waits without a predicate, see
the hazards).

### SyncHandlerPool and SyncClient

The threads that wait are modelled one by one; a wake-up picks any sleeper, and a
deadline may pass while a thread sleeps or between its wake-up and its next try
(`GiveUp`, `sync_client.hpp:226`). `missed` is no part of the code: it counts the wake-ups
that were lost that way, until another thread takes the handler or there is none.
`client` is the thread in
start(), stop() or the destructor, `live` the io threads that run. `doing` is the call a
caller is in: take a handler, connect, write_read, let it go, as the echo example's
connections do. A call returns only on a running io thread (`CallReturns`); that it does
so then is what `SyncHandler` shows. A call that is made on a handler kept over stop()
may wait until the next start(). `GetEndpoints` is endpoint_group's round robin.

### AbstractMap and HashMap

In `HashMap` an operation takes a lock (`Lock`, which also reads the size of the bucket),
does its work and unlocks (`Do`), and returns; reset and clean lock, sweep and unlock
one bucket after the other (`SweepBucket`). The numbers of buckets and mutexes come
from the table of sizes (`HashSize`), as in the constructor. The key's hash is a
constant function, since the code lets the user supply it. In `AbstractMap` each
operation on a key takes effect in one step between call and return; reset and clean
sweep over the keys, some at a time, since neither is atomic: an insert may slip in
behind a sweep. clean() is promised to remove only invalid entries and not to find
all of them, because the code does not look again at the entry it moves into a gap
(`hash_map.hpp:276`). The destructor is not modelled.

### RequestParser, RequestHandler and HttpSession

A character is its class, as far as consume() tells classes apart. `Moves` is the switch
of consume() as a table; the body of a header is left out, but the number of headers
is kept, because a continuation line uses `headers.back()`. `IsRequest` is written from
what a request is, line by line, and not from the table. `UrlDecode` works on the same
classes; the digits of an escape are told apart as far as the decoded character matters
(a dot, a slash, a control, the rest). The zero byte, and a minus sign or `0x` as digits, are
not in the alphabet (section 5). reply::reset keeps the status, which the next answer always sets. In
`HttpSession` the network
delivers the client's text in pieces of any size up to the buffer's (`Read`); on_read
parses the piece and, unless it completes the request or spoils it, calls on_clear
(`OnClear`) before it reads on. `Close` leaves the work handler as it is and the next
`Open` finds it so.

### IoBuffer and ByteString

A buffer is the bytes before `end_offset_` and the offset of the first unread one; each
operation is an operator, its assertions are the lemmas' assumptions. `ByteString`'s
positions and lengths are numbers of `size_t`, whose width is the constant `NPos`: `Sum`
wraps around. `replace` is modelled with the order of its memmove and its resize. In
`Relay` nothing hides an assertion of io_buffer: `BuffersFit` compares what was read with
the space, and what was written with the data, before on_read and on_write hand it to
produce() and consume().

## 3. Runs

Each cfg fixes the constants of one instance. `CHECK_DEADLOCK FALSE` is set everywhere
but in `Hash`, because the other instances really may stop: the bounds on sessions, calls and starts are reached, nobody has to connect, and
an idle server waits. What must not stop is checked by the liveness properties and by
`SomethingUnderWay`.

The type invariants are part of the runs' invariants (`OnlyGrownLoses`,
`NothingLeftBehind`, `ReportedIsTrue`, `StoppedIsEmpty`, `BuffersFit`,
`WholeReadIsAnswered`, `IsAtomic`) or, for `ServiceHandler` and `HandlerPool`, proved
(`HandlerTyped`, `PoolTyped`).

| run | instance | what it shows |
|---|---|---|
| Handler | two sessions, both timers, 2 operations each, one at a time, a linked handler with one event | a stopped handler has nothing left at asio; the session is always guarded by something that ends it; callbacks in the order of `Session`; sessions end although the peer is silent; closed handlers are recycled |
| Echo | three sessions of one handler of the echo client, with a pause and without | a pause never outlives its session nor starts an operation in the next; every session that did not get its message back is counted; sessions end |
| Group | 3 sessions of up to 3 handlers, a work pool that grows from one thread to two, two starts, each stop graceful or forced | a graceful stop drains and loses nothing but what was on a grown io_service; every stop returns |
| Server | 2 chains; a pool of 1 handler at first, at most 2 kept, increment 2, maximum 3; failing accepts and binds, three starts by start() or run(), stop() at any moment, lost or not; the server's own group, or one that is started and stopped meanwhile; as a program, a service that accepts pause and continue, or a tool | no chain doubled; an exhausted pool never ends the last chain; the count is exact and bounded; nothing left for the next start but the acceptor of a failed bind, and no handler for the destructor; a stop() that finds the acceptor's pool started is heeded while the group runs; accepting resumes; the service's status is true and reaches STOPPED |
| Sync | 4 calls, write_read among them, 2 close() by anybody at any time | calls return, with their own result; an error means a closed handler; without a close nothing is left behind |
| SyncPool | 3 callers, 2 io threads, a pool of 1 handler at first, at most 2 kept and 3 in all, 5 gets, broken handlers, two starts | the count; no thread sleeps beside a handler it could have, unless a wake-up was lost at its thread's deadline; a stopped client is empty; every get, every call and stop() return |
| Relay | proxy with timers (of the session or of an operation) on both sides, proxy with buffers of the same and of different sizes, echo, any business handler with and without a timer; two children | bytes in order; no produce() beyond the space and no consume() beyond the data; no null pointer, one operation per handler, no cycle left, never a silent standstill where the business handler does not choose one; whichever side closes, the other follows |
| Http | two good requests (one with a header and a continuation), all that differ from them by one character changed, left out or doubled, and requests for 13 uris; a buffer of 27; two sessions | a read is answered exactly if it holds a request by the grammar, with the file, not_found or bad_request that its uri deserves; `headers.back()` is used only if there is a header |
| Hash | 13 buckets under 3 mutexes; 3 keys, two in one bucket and the third in another one under the same mutex; 2 values, 2 threads; byte strings over two bytes with a size_t of ten values | the map implements `AbstractMap`; no operation waits for ever on a lock; substr, replace, erase, assign and append agree with concatenation |

### Where the code does not do what it says

Three runs check one property each that a comment of the repository states, and TLC
finds it violated. The quoted lines are in `findings`.

| run | what happens |
|---|---|
| SyncReopen | nothing fails and nothing times out: a connect() succeeds, close() is posted, and the next connect(), asked to reconnect, waits already when close_i runs; close_i finds `opened_` set and notifies it, connect_i clears `ec_`, and the call returns ok while its operation is under way (`sync_handler.hpp:638`) |
| RelayTimeout | a parent stopped while its work thread connects a child leaves the child open (`client.hpp:121`) |
| RequestPieces | a good request that arrives in two reads is answered bad_request, because on_clear resets the parser between them (`server_work.hpp:72` of the http example) |

Other instances of the same modules show more of the kind. No cfg is kept for them; the
properties are defined in the modules, and changing the constants of the cfg named
shows each one:

| property | instance | what happens |
|---|---|---|
| `TimeoutMeansUnfinished` | Handler | an i/o timer that expired while the completion of its operation was queued still closes the session: handle_read cancels the timer too late (`service_handler.hpp:543`) |
| `PendingIsTimed` | Handler with `Outstanding = 2` | with a read and a write in flight, the completion of one stops the one i/o timer for both (`service_handler.hpp:505`); it holds with one at a time |
| `WithinMaximum` | Server | a pool below its maximum grows by a whole increment, beyond it (`service_handler_pool.hpp:253`) |
| `NothingLeaks` | Server with `RecursiveMutex = FALSE` | the destructor never ends: the pool's close() holds the mutex that the deleters of its handlers lock (`service_handler_pool.hpp:194`) |
| `AcceptReturns` | Group with `RecursiveMutex = FALSE` | likewise get_io_service(load) (`io_service_pool.hpp:225`) |
| no session is ever "lost" (`OnlyGrownLoses` without its exception) | Group | the rounds of a graceful stop shrink a pool that grew, and destroy handlers queued there (`io_service_pool.hpp:146`) |
| `StopHeeded` for `asked = "early"` | Server with one chain, one start, as a program | stop() between two steps of run() is lost, and run() does not return unless stop() is called again (`server.hpp:211`) |
| `StopHeeded` without `group = "down"` | the same | a stop() that meets an exhausted pool waits for a session to end, and none does while the program keeps its group stopped (`server.hpp:248`) |
| `ChainsKept` | Server | chains that wait on the one delay timer cancel each other: fewer accepts than configured afterwards (`server.hpp:248`) |
| `TimeoutIsOwn` | Sync with `Closing = "nobody"` | a timeout of write_read's write ends its read (`sync_handler.hpp:609`) |
| `NoneStranded` | SyncPool | a handler deleted for its error makes room but wakes nobody (`sync_client.hpp:262`) |
| `NoIdleWhileAsleep` without `missed` | SyncPool | a thread woken at its deadline takes the wake-up with it: a handler is idle and another thread sleeps (`sync_client.hpp:226`) |

The two about `RecursiveMutex` rest on `boost::asio::detail::mutex` being a default,
non-recursive pthread mutex outside Windows.

### Bounds, and why they are enough

- *Sessions, starts, connections.* A session of `ServiceHandler` leaves no state
  behind but the empty queues and timers that `StoppedIsQuiet` and `Recycle` demand;
  two sessions show that nothing crosses from one to the next. Three sessions of
  `EchoClient` let a pause of the first one meet the third. Starts of the
  group and the client: two, for the same reason; of the server three, since a failed
  bind is one, of a service its own start and two CONTINUEs.
- *Operations.* At most a read, a write, two timers, a close request and a linked
  close are in flight for a handler at once. Two operations per session let a stale
  completion or timer meet a newer operation; more only repeat that.
- *Calls of SyncHandler.* A stale item can outlive its call by one call; connect, the
  operation, its successor and a reconnect are four.
- *Threads and handlers of the pools.* Watermark, increment and maximum are crossed in
  both directions: the server's two chains take the one handler there is at first, grow
  the pool past its maximum and, with sessions that last, meet an empty one; of three callers of the blocking
  client two sleep while one holds all there can be, or one while a broken handler makes
  room.
- *Relay.* A child, and one after it, cover every replacement; reads of the parent only
  repeat the cycle of the proxy. Buffers of one to three bytes, the parent's the larger
  one, the smaller one or as large, let a read fill a buffer, leave room in it and need a
  second copy.
- *Http.* Every state of the parser is met with every class of character, after a right
  beginning and after a left-over state; a request of 27 characters fits one read and
  is also cut at every place.
- *Hash.* A bucket with two entries is the least in which an entry moves into a gap; the third
  key shows that two buckets share a mutex; two
  threads are enough for every pair of operations to meet. The threads are symmetric.
- *ByteString.* With `NPos = 9` strings have up to four bytes, and a position and a
  length wrap around in every way they can.

### Fairness

Weak fairness, for what the code's own threads do: a thread inside `io_service::run`
takes the next handler, a started callback or start() goes on, a notified thread
wakes, a deleter runs. Timers expire (time passes). Nothing is assumed of a peer: no
connection, no completion of a read or a write is ever owed, and a work handler never
has to start an operation or close. Beyond that:

- `ServiceHandler`, `EchoClient`: a linked handler lets go of its pointer some day; a
  pause is over some day.
- `Server`: sessions end while their group runs, which a session timeout gives
  (`SessionEnds` of `ServiceHandler`), and their references go away. The group need not be
  started again: `StopHeeded`, `AcceptsAgain` and `NothingLeaks` are promised as far as it runs. Nobody has to call start(), stop() or
  the destructor.
- `WinService`: service_main and the control handler run on while the process lives, the
  dispatcher returns after STOPPED. The manager never has to send a control.
- `SyncClient`: a deadline passes, a running io thread ends every call (`CallsReturn` of
  `SyncHandler`), a caller lets go of a handler whose call is over. That the callers could go on
  for ever while stop() waits is excluded by `MaxGets`, not by fairness.
- `HttpSession` is specified without fairness and checked for safety only. `HashMap`
  needs none: `Hash` checks for deadlock.

## 4. Proofs

TLAPS checks the theorems for every value of the constants: any choice of timeouts, any
number of sessions, operations, calls and events, any finite set of callers, any
parameters of the pools that the constructors' assertions allow. The assumptions are the modules'
named ASSUMEs; a theorem that needs more than these says so in its statement, which are
three theorems about `Relay` (`ChildrenUntimed`).

`ServiceHandlerProofs`:

- `HandlerTyped`, `HandlerQuiet`, `HandlerGuarded`, `HandlerClosesOnce`: `TypeOK`,
  `StoppedIsQuiet`, `SessionIsGuarded` and `ClosedOnce` are invariants.
- `HandlerCallbackOrder`: `Spec => CallbackOrder`, that is, the handler with its threads
  implements `Session`. Every step maps to one step of `Session` or to a stutter
  (`StepRefines`).

The invariants are not inductive by themselves. `IInv` adds what the code relies on
without saying so. `NotStarted`: before the start nothing is queued or pending, or a
timer of an earlier session could close this one. `CloseStages`: the do_close of a
session is nowhere, or queued once, or has run, in step with `stopped_`. `OpenStages`:
the single opportunity to open a session passes through connect_i, the pending
connect, its completion, do_open and on_open, and is never in two of these places;
this makes on_open unique. `ConnectIsFirst`: connect_i meets no stopped handler, which
is why the code can do without the test of `stopped_` there. `DataAfterOpen`: reads and
writes, at whichever stage, only exist after on_open. Each action has a lemma
`...Keeps`; the handlers of the io thread are first brought into six shapes
(`IoStepShape`), since all of them end in dropping, closing, opening, starting or
reporting something.

The refinement needs one more fact: `StoppedReads` allows a late callback after
close_i, but never after on_close, because do_close stands behind it in the FIFO of
the work thread (`CloseStages`); and an object is recycled before on_close only
without a session timeout (`QuietSteps`, from `SessionIsGuarded`).

The second half of `ServiceHandlerProofs` is about `EchoClient`: `PauseOverWithSession`,
`FailuresAreCounted`, `PauseStartsAlone`, from `EchoInvariant`. The invariant of the first
half is kept by every step of the client, the end of the pause included, although that is
no operation of service_handler (`IInv` is the first half of `EchoInv`). The other half is that a session is carried on by
one token: an operation on its way to asio, at asio or back, a callback that will start
the next one, or the pause. There is never more than one (`OneToken`), and an open session
has it or a close is queued (`GoesOn`). Hence the pause can start a write
only alone (`PauseIsHarmless`), its timer is cancelled by on_close before the handler can
be recycled (`PauseOwned`, `PauseEndsWithSession`), and a session that is over either got
its message back as a whole or was counted as failed, once (`Score`). None of this
needs a session timeout.

`ServerProofs`, first about the pool alone: `PoolTyped`, `PoolCountExact`, `PoolWithinBounds`,
`PoolCountBounded`, `PoolRefusal`, for any use of the pool (`PoolSpec`). Here the
strengthening is that clear() runs in a pool it has closed and has at most the vector's
elements to reset (`ClearingInv`), and that nothing exists before the first init()
(`BeforeInit`), so that an init() starts from an empty pool.

Then `ServerProofs` about `HostSpec`, the server under whatever runs it, with stop() at
any moment, binds that fail, and a group that the program starts and stops:

- `ServerChainsKept`, `ServerStopsClean`: `ChainsKeptInBounds` and `StoppedIsClean`.
  The chains are counted in the queue (`Count`, with lemmas on what Append, Tail and a
  queue of equal items do to it). `Control` relates the place of start() and of stop() to
  what they have done to the acceptor, the thread and its work: the thread cannot end
  before everything it could have waited for is gone (`Ended`), since while the acceptor
  is open after stop() a close is queued (`CloseQueued`). An acceptor left open by a failed
  bind belongs to a server that is not started, and stays open until the server is
  destroyed (`Unbound`). `Bounds` counts the chains.
- `ServerCountExact`, `ServerCountBounded`: every step of the server is a step of the
  pool or leaves it alone (`PoolStep`), so that the pool's invariant carries over.
- `ServiceReportsTrue`: `ReportedIsTrue`, typing included. `EntryStages` and
  `ControlStages` say for each place of service_main and of the control handler what the
  server can be doing: a control handler that has called start() reports RUNNING only
  when no step of start() is left, and one that has called stop() finds the server
  stopped. The theorem is true of a service whose bind failed, too: it names the acceptor
  left open as the one thing that may be left. Every step of a hosted server is one of a server (`HostStep`).

`SyncClientProofs`: `SyncCountExact`, `SyncNoIdleWhileAsleep`, `SyncStoppedIsEmpty`. That, while
somebody sleeps, every idle handler has woken a caller that still comes for it, or whose
deadline has passed meanwhile, is inductive once `missed` counts the latter: whoever takes a
handler is a woken caller, or one that has just come and takes the place of a missed one.
No assumption is made about deadlines. `ClientStages` says in which stages of stop()
the pool is closed and the threads are gone, and `CountExact` what a stopped client's count
still counts.

`IoServiceGroupProofs`: `GroupLosesOnlyGrown` and `GroupDrains`, for any number of
sessions, handlers and threads. The argument for the drained stop: a thread leaves only
an empty queue, and a pool in whose threads nothing ran in a round put nothing into the
other pool's queues; if all pools report idle (`Reported`: `idle_` is cleared by every
thread that ran something and has ended), no session can be queued without a thread
that still runs (`NothingMissed`), and none runs after the join (`Threads`).

`SyncHandlerProofs`: `SyncNothingLeft`, `SyncErrorCloses`, `SyncOwnResult`. Without a
close() the call that waits is the owner of everything that counts: of the start that is
queued (`StartIsLast`), of what asio watches (`PendingIsOwn`), of the one completion that
is not ignored (`DoneIsOwn`) and of the timer (`PendingIsWaited`). The conjuncts hold as
long as `closes = 0`; with a close() they do not, which `SyncReopen` shows.

`RelayProofs`: `DataInOrderHolds`, `CycleBrokenHolds`, `SomethingUnderWayHolds` for every
configuration, `NeverNullHolds`, `OneOperationHolds`, `BuffersFitHolds` under
`ChildrenUntimed`, for any number of children and any sizes of the buffers. The parent and its
current child also move by one token: a callback or an event in the work queue, a handler in
the io queue, an operation under way, or the call of client::connect. The invariant counts
the tokens (`OneToken`) and says what belongs to each place of the one there is: whose bytes are
in which buffer, and which were read and not yet written (`FineWork`, `FineIo`, `FineOp`;
with no data under way, `Even`). `Stopped`, `Linked` and `Unused` tie the two handlers'
pointers to the on_close that will reset them; `Alive` says that an open parent has the
token or is about to be closed. `BuffersFit` is read off the token's place: what a queued
on_write consumes is exactly what is unread in the buffer, and what a queued on_read
produces has room in it. Each callback and each io handler has a lemma that it moves
the token from one place to one other.

`ChildrenUntimed` excludes a business handler that answers anything, beside children
a timer of which may expire. There such a handler may replace a child that closes by itself at the
same time, and then a second token appears: TLC finds `NeverNull`, `OneOperation` and
`BuffersFit` violated in that configuration, so that the three theorems need the assumption;
the others need none: `CycleBroken` follows from each handler's own on_close (`CycleInv`),
and `DataInOrder` and `SomethingUnderWay` speak of biz_proxy and biz_echo only, which pass on
what they read. All six theorems cover biz_proxy and biz_echo under every configuration of timers.

`ContainerProofs`:

- `HashMapIsAtomic`: `Spec => IsAtomic`, that is, the buckets with their striped locks
  implement `AbstractMap`, for any number of threads, any finite set of keys, any hash
  function and any sizes given to the constructor. `HashInv` has what the code relies on:
  who is at a bucket holds its mutex, a writer alone (`Locked`); therefore the size that was
  read under the lock is still the size of the bucket (`SizeTrue`); every entry is in
  the bucket of its key and the only one of it (`BucketsSound`); and what a sweep has
  counted is what it has removed (`CallsFine`). Each locked body is one step of the abstract
  map, taking a lock is none (`NextIsNext`).
- `ConsumeDropsFirst`, `ProduceAppends`, `CrunchKeepsUnread`: for every buffer and capacity,
  consume takes the first bytes and no others, produce adds behind what is unread,
  crunch keeps the unread bytes and makes all other room usable, and all three
  keep the offsets within the buffer. The assumptions are the assertions of the code.
  `MCRelay` evaluates the same facts, and one about resize, for all buffers of three bytes.
- `SectionIsExact`, for every width of `size_t`: substr, replace and erase
  refuse exactly the sections that are empty or not part of the string; the sum in their
  test wraps around only where the test refuses anyway. `ReplaceIsSplice`: replace leaves
  what was before and behind the section, with the other string between them.

`HttpSessionProofs`, for texts of any length and reads of any size:

- `ParseDecides`: parse() of a fresh parser is true of exactly the texts that are a
  request by the grammar `IsRequest`, and what it has recorded is then their uri. The
  argument is what the state says of the text consumed so far (`Described`): where the
  current line begins (behind the line end before it), that every line before is a request
  line or a header line that may stand there (`Begun`), and what there is of this one, for
  each of the parser's states. A header exists wherever the code uses
  `headers.back()`. One lemma per state takes a character to the next description, or
  shows that no request goes on like this (`Accepts`); at the end of a line, the
  description is that of a whole good line.
- `NoBeginningRefused`: parse() never refuses the beginning of a request, and a text behind
  the request changes neither the answer nor the uri. So the parser keeps its promise (false
  of invalid data, indeterminate when more is required); that `RequestPieces` finds a request
  refused is due to on_clear between two reads alone.
- `ReadsAreAnswered`: `WholeReadIsAnswered`, which needs that the parser is
  fresh and the reply without content whenever a session reads, whatever the
  sessions before have left (`Inv`).
- `DecodesExactly`: url_decode gives a path if and only if the text spells it, character by
  character (`Spells`), and never two different ones, so that the `CHOOSE` in
  `HandleRequest` is no choice. `ExtensionOfLastName`: the type goes by what follows the
  last dot of the last name. `MCHttpSession` evaluates both facts on short texts.

The loops of clean() in hash_map, of parse() and of url_decode are recursive functions.
That each recursion has a solution, and what it keeps, is proved by hand from the least
or the greatest element of a set of numbers: the library's induction theorems take an
operator, which the provers here cannot instantiate.

`ClosedOnce`, `WithinHighWatermark`, `ClosedIsEmpty`, `RefusedOnlyAtMaximum` and the type
invariants of `ServiceHandler` and `HandlerPool` are proved, and no run checks them.

Only model-checked: all liveness (`SessionEnds`, `StoppedIsRecycled`, `SessionOver`,
`StopReturns`, `StopHeeded`, `AcceptsAgain`, `NothingLeaks`, `ServiceEnds`, `CallsReturn`,
`GetReturns`, `StopCompletes`, `CloseTogether`), because it needs ENABLED and fairness,
which this prover does not handle. Every other property of the passing runs is stated by
a theorem.

## 5. Not modelled

- Exceptions: `remote_endpoint()` in on_open and on_child is the throwing overload, and
  the io thread may have closed the socket by then. (The one exception that is modelled
  is that of open() on an acceptor left open by a failed bind.)
- Two threads in stop() of one group at once, as `echo/server/server_main.hpp` has
  them: both join and clear the same `boost::thread_group` and vector of work objects,
  which is undefined. A second stop() of a server after one that is heeded (see `Server`).
- Spurious wake-ups of `condition_` in sync_handler.
- A business handler that replaces a child a timer of which expires: with such a
  handler `NeverNull`, `OneOperation` and `BuffersFit` do not hold; biz_proxy is not one, and
  the settings that TLC runs with "any" business handler have no timers on children
  (`ChildrenUntimed`).
- The thread pools that a client may have of its own, and the round-robin counter of
  io_service_pool: which io_service a session gets does not matter to what is checked.
  The first constructor of sync_client passes on an `io_pool_size` that is not among its
  parameters (`sync_client.hpp:434`); it cannot be compiled, and nothing uses it.
- A session that is accepted after the group's stop() waits until the next start, and so
  does a call of a sync_handler that was kept over stop(); no property asks for more.
- `pause_seconds_` of the blocking echo client, which is only printed. What
  a partial answer leaves in the buffer of a handler of the blocking client that stays open:
  the data of sync_handler is not modelled.
- In hash_map the destructor; in byte_string an argument of assign or replace that is
  the string itself or lies in it, and a string that is appended to itself, whose bytes resize
  may have moved (`byte_string.hpp:175`); nothing in the repository does either.
- In the http example the wording of the stock replies, a zero byte in a request, and what
  `is >> std::hex` (`request_handler.cpp:93`) makes of an escape that has a minus sign or
  `0x` in it. `%00` in a uri ends the name of the file that is opened
  (`full_path.c_str()`, line 63), but not the path whose type is looked up; the digit 0 is not
  in the alphabet. `http_version_major` and `_minor` are counted without a bound
  in the code, and not at all in the model: nothing reads them.
- The ssl example (the handshake is asio's and openssl's), main programs, ini files,
  server_base and the allocators, which have no state.

## 6. Plan

Done: `Session` and `ServiceHandler`; `HandlerPool`, `IoServiceGroup`, `Server` with its
pool, `WinService`; `Relay` with the data in its buffers; `EchoClient`; `SyncHandler`,
`SyncHandlerPool`, `SyncClient`; `RequestParser`, `RequestHandler`, `HttpSession`;
`AbstractMap`, `HashMap`; `IoBuffer`, `ByteString`; the proofs of section 4.

Next, in this order:

1. An abstract pool (a bag of handlers) that `HandlerPool` and `SyncHandlerPool` implement.
2. `Server` with `IoServiceGroup` in the place of `group`, and a second stop().
