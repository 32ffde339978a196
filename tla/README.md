# VeloxServe: a verification project in TLA+

VeloxServe is an HTTP server and reverse proxy in C++17: one event-loop thread over epoll, a pool of
worker threads that parse and answer requests, a load balancer with a health-check thread, a rate
limiter, a file cache, a router and an NGINX-style configuration. This directory holds TLA+ models of
its concurrent and stateful parts and of the way from a configuration file to the bytes of a response,
TLC configurations that check them on small instances, and TLAPS proofs of the most important results
for every value of the constants.

File and line references are to the repository, whose sources are under `src/` and `include/`.

## 1. Inventory

| Component | State | Operations | Interacts with | What makes it correct |
|---|---|---|---|---|
| Thread pool (`core/thread_pool`) | `tasks_`, `shutdown_`, mutex, condition variable | `enqueue`, `worker_loop`, `shutdown` | event loop enqueues closures, `Server::stop` shuts it down | each task once and in order; no lost wakeup; shutdown drains and returns |
| Connection core (`core/server`, `core/connection`) | `connections_`, a `Connection` per client (buffers, flags), epoll registrations | `event_loop`, `handle_accept`, `handle_read`, `process_request`, `handle_write`, `close_connection`, `cleanup_inactive_connections` | shares `Connection` objects with the workers without a lock; descriptors are reused by the kernel | no data race; answers complete, in order, to the right client and charged to it; table, descriptors and epoll agree; connections are reclaimed |
| Epoll wrapper (`core/epoll_wrapper`) | kernel interest list | `add`, `modify`, `remove`, `wait` | event loop and workers | see above |
| Load balancer (`modules/load_balancer`) | `is_alive`, `failed_checks`, `active_connections`, `current_index_` | `get_next`, `release`, `mark_down`, health thread, `stop_health_checks` | workers through the proxy route, backends | counts exact; round robin; a backend in rotation is sound; dead ones leave, well ones return |
| Proxy handler (`modules/proxy_handler`) | none | `handle` | backends; its status drives `mark_down` | failures get the status the route looks for; a relayed answer ends where it says |
| Rate limiter (`middleware/rate_limiter`) | buckets per address, clean-up time | `is_allowed`, `cleanup_expired` | workers ask, event loop cleans | behaves as an ideal token bucket |
| LRU cache (`middleware/cache`) | map, recency list, byte count | `get`, `put`, `remove`, `clear` | workers, through the static handler | map, list and count agree; evicts what it must |
| Static handler (`modules/static_handler`) | none | `handle`, `sanitize_path` | cache, file system | answers for the file a path denotes, refuses what leaves the root, serves no old version for ever |
| HTTP parser (`http/http_parser`) | buffer, stage, content length | `parse` | a fresh one per request in `process_request` | independent of how bytes arrive |
| HTTP response (`http/http_response`) | headers, body | setters, `build` | every handler; `process_request` drops bodies and puts in error pages | a client can find where a response ends |
| Router (`http/router`) | sorted routes | `add_route`, `route` | filled before the loop starts | longest prefix wins, method check |
| Configuration (`config/*`) | tokens, parsed blocks | `parse_file` and its rules | `main` takes the first server block and all upstreams | an accepted file means what it says |
| Shutdown (`main.cpp`, `Server::start`, `Server::stop`) | `running_` | signal handler, `stop` | runs on the event loop's thread, at any instruction | no deadlock; finishes what is under way |
| Command line (`main.cpp`) | | `-h`, `-v`, `-t`, `-p`, a file | configuration, server | exit codes |
| Logger, MIME types | none that is read | formatting, lookup | | |

What is hard to test here: hand-over of a `Connection` between the loop and a worker with no lock; a
descriptor number that changes hands while a worker still holds it; wakeups of the pool; a stop in a
signal handler at any point of the loop; probe results that are old when applied; an index that wraps;
lazily refilled buckets that are forgotten and recreated; files that change between a cache miss and the
put; bookkeeping spread over three containers; bodies dropped, replaced and cut short after their length
was announced. `PROJECT.json` lists these hazards at their lines.

## 2. Modules

| Module | Models | Remarks |
|---|---|---|
| `ThreadPool` | `thread_pool.cpp` | one action per critical section; predicate test and going to sleep are two actions, so that the mutex is what prevents lost wakeups |
| `TaskPool` | what the pool promises | abstract specification, no threads; `Shutdown` builds on it |
| `ThreadPoolProofs` | | proofs about `ThreadPool` |
| `Server` | `server.cpp`, `connection.h`, `epoll_wrapper.cpp` | event loop and workers; clients, sockets, the descriptor table and epoll are the environment |
| `ServerProofs` | | proofs about `Server` under no condition on clients, network and clock; then for clients that send one request at a time |
| `ServerOrderlyProofs` | | extends it: clients that also stay for their answers |
| `Shutdown` | `signal_handler`, `Server::start`, `Server::stop` | the main thread as a stack of frames, over `TaskPool` |
| `ShutdownProofs` | | proofs about `Shutdown` |
| `LoadBalancer` | `load_balancer.cpp`, the proxy route of `server.cpp`, the outcomes of `proxy_handler.cpp` | `int` and `size_t` with their widths as constants |
| `LoadBalancerProofs` | | proofs about `LoadBalancer` |
| `RateLimiter` | `rate_limiter.cpp` | whole amounts in a unit that makes rate, burst and cost whole |
| `TokenBucket` | what rate limiting promises | abstract specification |
| `RateLimiterProofs` | | proofs about `RateLimiter` |
| `LRUCache` | `cache.cpp` | an entry is its data and its age |
| `StaticFiles` | `static_handler.cpp` over `LRUCache` | workers, a disk that changes, time |
| `StaticFilesProofs` | | proofs about `StaticFiles` and the `LRUCache` below it |
| `ConfigParser` | `config_parser.cpp`, the configuration structs | reads a file token by token while it is written |
| `Maps` | | assignment to a map, for the two modules that need it |
| `HttpParser`, `Router`, `HttpResponse` | `http_parser.cpp`, `router.cpp`, `http_response.cpp` | operators without state |
| `Site` | `main.cpp`, `setup_routes`, `process_request`, `proxy_handler.cpp` | composes the four modules before it: from a file to a response |
| `SiteProofs` | | proofs about `Site` and the modules it composes |
| `MC*` | | the instances TLC checks |

Variables keep the names of the fields they stand for (`tasks_`, `connections_`, `is_alive`,
`buckets_`, `lru_list_` ...). Variables marked *history* in a module record what happened for the
properties and influence nothing.

### ThreadPool

Threads are the workers, the callers of `enqueue` and the owner that calls `shutdown`. `Enqueue` is
the unlocked test of `shutdown_` (throw, or go on), `Push` the locked push, `NotifyOne` the notify
after the unlock. A worker goes `acquire` - `predicate` - (`blocking` - `sleeping` | `running` |
`exited`). `SpuriousWakeup` is what the C++ standard permits. The owner stores the flag under the
mutex, notifies all and joins. A task that throws is swallowed by the loop, so `Run` covers both ends.

### Server

The event loop's control point is `at`; each value is a place between two system calls or lock
sections. `Wait` takes the set of ready events, `Dispatch` handles them in any order, with the
branches of the loop body in the code's order of tests (error or hang-up, then input, then output).
`handle_accept` is `Accept4`, then `AcceptReject` or `AcceptRegister` and `AcceptInsert`;
`handle_read` is a sequence of `RecvData` ended by `RecvEnd` (close) or `RecvAgain` (dispatch if the
buffer holds a blank line); `handle_write` is a sequence of `SendChunk` ended by `SendAgain`,
`SendError` or `WriteDone`; `close_connection` is `Erase`, `EpollRemove`, `Close`; the reaper is
`Scan`, `Reap`, `ReapEnd`. A worker goes through `TakeTask`, `Process` (address, rate limit, parse,
route), `Publish` (fill `write_buffer`, clear `read_buffer`) and `Rearm` (`epoll_->modify`).

The queue between them is the FIFO that `ThreadPool` is proved to be. A closure holds a
`shared_ptr<Connection>`, so the object outlives the connection; a client makes one connection in the
model and names the object. Requests are cut into pieces (`Cut`), the unit of a `recv`; a response has
`Chunks` pieces, the unit of a `send`. The environment is chosen by `Env`: clients that pipeline, shut
down their side, are reset, ask for `Connection: close`; time that passes the idle limit; the limiter's
refusals. epoll is level-triggered, as the flags in the code make it (its comments speak of
edge-triggered loops, which are harmless here).

Environment steps that are not fair happen only where they can be told apart from happening later: the
idle limit passes (`Elapse`) just before the scan that looks at it, and a client connects, begins a request
or hangs up where the loop is about to look at sockets - in `epoll_wait`, `accept4`, `recv` or `send`.
Workers look at none of these.

### Shutdown

`stack` holds the frames of the main thread, the running one first. `Signal` puts a frame of
`Server::stop` on top of whatever runs, also of another `stop`; `Returned` takes it off again. A mutex is
held while some frame of the stack stands in its section, so a `stop` that locks what an interrupted frame
holds waits for ever, as the code does. The event loop is reduced to the points at which an interruption
makes a difference: between `accept4` and the insertion, at enqueue's test, before its lock and inside it,
inside the sections of `connections_mutex_` and of the limiter's mutex, while idle connections are closed,
between the test of `running_` and the end of a batch. The pool is `TaskPool`: `Accept`, `Start`, `Finish`,
`Close` and `Stop` are its actions, which the code's pool is proved to implement. `exit` is the code `main`
returns, 1 when it catches the exception of `enqueue` (`CaughtInMain`).

### LoadBalancer

`GetNext`/`GetNone` are `get_next`; the scan is one step because it holds `mutex_` and the only
concurrent write is a store of `false`. A worker then forwards, marks down after a 502, and releases.
The health thread holds `mutex_` for a whole sweep; reaching the backend (`Probe`) and applying the
result (`Apply`) are two steps, so results can be old. `Advance` wraps as `std::atomic<int>` does, `Slot`
converts to `size_t` before it reduces. `failed_checks` saturates at three, beyond which the code
tells no values apart.

### RateLimiter

Every operation holds the object's mutex throughout and is one action; `duration_cast<seconds>` is an
integer division of ticks.

### LRUCache and StaticFiles

The cache's operations hold its mutex and are one action each; `Put` evicts from the end of the list until
the new data fits (`Survivors`; `Bytes` adds up the sizes of a set of keys). An entry's age runs up to the first tick at which it has expired, beyond which the code
tells no ages apart.

A worker of `StaticFiles` goes `Resolve` (sanitize, directory, redirect) - `Hit`, or `Miss` -
`FileExists` - `ReadFile` - `Fill` (put and answer) - `Return`, and anything may happen between two of
these: `Deploy` replaces, creates or removes a file, `Tick` lets time pass, another worker answers or fills
the same key, `Maintain` removes or clears. A path is the sequence of its segments. The cache key is the
path as the code builds it, so that the root's index has two keys (`./www/index.html`, and
`./www//index.html` by way of `/`) and `NameOf` maps both to one file. A segment may contain a NUL, because `%00` is decoded: `CString`
cuts a name at its first NUL where the code passes `c_str()` to the file system, `before_nul` says what is
left of such a segment, and the cache key and the test for a final `/` keep the whole. `Denotes` and `Escapes` say what a
path means by counting, without the stack that `sanitize_path` keeps while it goes through the segments. The
history `since` has, for every cached key, the keys answered from since it was; it is what `EvictsWhatItMust`
compares the recency list with.

### ConfigParser, HttpParser, Router, HttpResponse and Site

The environment writes a configuration file token by token and the parser consumes each at once, so that
TLC tries every file within the bounds. `open` is the stack of the recursive descent (the blocks under
construction), `expect` what the directive in hand still consumes. `MeansWhatItSays` compares the result
with what the file says when read by brace depth, without a stack: the statements directly `Inside` a
block are those one deeper than it before its depth is left again, and `Rank` counts which of them a place
is. It covers the order of servers, locations, methods and backend addresses, and which of several
statements of one name stays.

In `Site`, `main` takes the file or the defaults, `setup_routes` gives every order in which `std::sort`
may leave the routes, and one request at a time goes through `process_request`: the limiter's refusal
(`Refuse`), a parse that fails or is incomplete (`BadRequest`), or a route and any answer its handler may
give (`Respond`), then HEAD's dropped body, the error page, the keep-alive header and `build`, in the
code's order. A response is its status, the size of its body and the headers about length, coding and
connection; header names are case-sensitive as the code's map makes them. A backend's `Transfer-Encoding`
and `Connection` are relayed as the code relays every header: a coding decides where the response ends,
whatever length `build` adds beside it, and `KeepAlive` may replace the `Connection`. A request's buffer is a sequence of line,
header, CRLF and body-byte items; a path in it is a sequence of characters, where a name such as `health`
and an escape such as `%61` count as one character each.

## 3. Runs

| Run | Instance | Shows | States |
|---|---|---|---|
| `pool` | 2 workers, 2 callers, 3 tasks | `FifoExactlyOnce`, `NoLostWakeup`, `GracefulDrain`, refinement of `TaskPool`; under fairness `AcceptedTasksRun` and `ShutdownReturns` | 41 thousand |
| `server_orderly` | 2 clients with 2 requests each, 2 workers, requests whole, malformed or cut before the blank line, keep-alive or close, admitted or refused by the limiter | the hand-over is race-free, every request is answered and charged to its sender, closes are announced and kept | 0.3 million |
| `server_hostile` | 2 clients, 2 descriptors, limit of 1 connection, size limit of 1 piece; fin, reset, idle timeout, malformed and oversized requests | table, descriptors and epoll stay consistent, no stale events, no answer to the wrong client, and under fairness the connections of clients that went away are closed | 0.4 million |
| `shutdown` | 2 clients, SIGINT and SIGTERM, a rate limit | `DrainedBeforeClose`, `EndsWell`; under fairness `StopCompletes` | 0.1 million |
| `balancer` | 2 backends, a worker, a 2-bit index in a 4-bit `size_t` | counts, strikes, fairness of the round robin, `nullptr` only if all are down, excision, recovery, stop | 193 thousand |
| `limiter` | 2 addresses, 12 ticks, 7 requests; a bucket expires exactly when it is full again | refinement of `TokenBucket` | 0.5 million |
| `files` | 2 workers, 2 files in up to 2 versions each, 4 keys, a cache of 2 bytes, 7 paths, three with an encoded NUL | containers agree, `AnswersTheRequest`, `EvictsWhatItMust`; under fairness `StaleNeverForever` | 0.2 million |
| `site` | files of up to 4 statements over all 14 directive and block names, 11 requests | `MeansWhatItSays`, `RoutedByLongestPrefix`, `PiecesDoNotMatter` (three pieces), `FramedExactly` | 0.2 million |

Some properties say exactly where the code falls short, so that a change in either direction is noticed:
`EndsWell` names the points at which a stop loses a task, leaks a socket, blocks or changes the exit code;
`FramedExactly` names the responses whose end a client cannot find; `AnnouncedCloseIsKept` names the two
answers, a 429 and a 400, after which an announced close does not happen.

Four runs show disagreements between the code and what the repository says of it. Each is an ordinary
execution:

| Run | Shows | Against |
|---|---|---|
| `server_pipelining` | `handle_read` appends to `read_buffer` while a worker parses or clears it, because EPOLLIN stays armed | README.md:32 "captures asynchronous socket data safely using `std::mutex` locks" |
| `server_split_body` | a body in a later segment than its headers is answered 400 | server.cpp:314 "Check if we have a complete HTTP request" |
| `server_fd_reuse` | a worker re-arms a descriptor that meanwhile belongs to another client, which is then closed unanswered | connection.h:22 "Connections are unique to a socket — no copying" |
| `shutdown_drain` | `stop` waits for the workers and then closes every socket, so the answers they prepared are never sent | main.cpp:45 "Graceful shutdown — drains active connections" |

Smaller disagreements that the models contain but no run of their own is spent on:

* Shutdown: a signal inside a section of `connections_mutex_` or `queue_mutex_`, or of
  the limiter's mutex while a worker needs it, leaves the process hanging. A signal before `running_` is
  stored is lost (server.cpp:145). A stop just before enqueue's test makes the exit code 1; a failed
  `start` makes it 0. A task pushed by an `enqueue` that a stop overtook is never run (thread_pool.cpp:43).
* Responses: HEAD with an error page carries a body (server.cpp:354 and 367), against the comment "keep
  headers, drop the body". A backend's answer that is cut short, or replaced by an error page, keeps the
  length the backend announced (proxy_handler.cpp:154, server.cpp:367). After a 429 or a 400 that
  announces `Connection: close` the connection stays open if the request before was keep-alive
  (server.cpp:553, http_response.cpp:52). A client that asked for the close is told `keep-alive` if a backend
  said so (proxy_handler.cpp:223).
* Charging: a client that leaves before its request is processed has it charged to whoever has its
  descriptor next, or to the address "unknown" (server.cpp:335).
* Files: `%00` in a path is decoded (http_parser.cpp:186), and the file system reads the name up to it
  (static_handler.cpp:132, 151, 157): `/index.html%00` is answered with `index.html`, under a cache key of its
  own. A hit does not prolong an entry's life, and a new version larger than the cache leaves the old one
  in place until it expires (cache.cpp:48).
* Balancer: where the number of backends divides the largest `size_t`, as three does, a scan across the index's
  passage from -1 to 0 tries the first backend twice and the last not at all (theorem `WrapMissesOne`), and
  returns `nullptr` with a backend alive (load_balancer.cpp:24; load_balancer.h:43 says "Returns nullptr if all
  down"). A failed connect is given status 500, so the route that looks for 502 never marks the backend
  down (server.cpp:469, load_balancer.h:50); a probe answered 502 passes (load_balancer.cpp:159 and 169).
* Connections: a request that takes longer than the idle timeout loses its connection (server.cpp:588).
* Configuration: `-t` without a file starts the server; only the first server block is used;
  `client_max_body_size` is parsed and never looked at; a location whose path ends in `/` matches only that
  path and paths that go on with another `/` (router.cpp:36).

**Bounds.** Two of everything that can interfere (clients, workers, callers, backends, addresses, signals)
and one more task or key than the containers can hold at rest; two response chunks so that a response can
be interrupted; two descriptors for two clients, so that a number is reused as soon as one is closed; a
size limit of one piece so that the second piece of a request exceeds it. The balancer has one worker:
what a second one adds is another `mark_down` or `release`, atomic and commuting with the first. Four
statements make a server block with a location that has two directives, or two locations with one, or a
server beside an upstream with a server line; three words are the longest directive. `MaxTime`,
`MaxRequests` and the widths bound what is unbounded in the program; time in `limiter` and `files` runs
past every expiry.

**Fairness.** Threads of a running process are scheduled, so the loop, the workers and the health
thread are weakly fair; a join returns when its threads have ended. Calls of `enqueue`, `shutdown`,
`stop_health_checks`, new requests, hang-ups, time-outs, signals, deployments and failures are never fair:
nothing obliges them. In `Server`, a client that has begun a request sends the rest of it, and `SendChunk`
is strongly fair: a client that reads frees space in the socket buffer again and again. In `StaticFiles`
time passes; the fairness of a worker is stated over its control point (`Proceed`), which every step of
`handle` changes. In `Shutdown` the main thread is fair whichever frame is on top. Proxied requests and
probes end because their sockets have timeouts (proxy_handler.cpp:78, load_balancer.cpp:128).

`CHECK_DEADLOCK FALSE` stands where the system may stop: a pool that has shut down, a process that has
exited or hangs in `stop`, the limiter at its bounds.

## 4. Proofs

TLAPS checks, for every choice of the constants that satisfies the module's ASSUME:

`ThreadPoolProofs` (from `PoolAssumption`: workers, callers, tasks and `Nobody` are different things and
there is a worker):
* `TypeCorrect`, `Fifo`, `WakeupsAreNotLost`, `ShutdownDrains`: `Spec => []P` for `TypeOK`,
  `FifoExactlyOnce`, `NoLostWakeup`, `GracefulDrain`, all from one inductive invariant `Inv`;
* `PoolImplementsTaskPool`: `Spec => Abstract!Spec`.

The properties are not inductive alone. `Inv` adds who may hold the mutex (a worker at `predicate` or
`blocking`, and nobody else), that a worker at `blocking` has seen an empty queue and an unset flag which
cannot have changed since, that a worker has exited only with the flag set and nothing due in the queue,
and what is in the hands of which thread. For the refinement, `HeadIsNew` and the `Unique*` lemmas show
in addition that no task is pushed twice, so that the task a worker takes is not one that already runs.

`RateLimiterProofs` (from `LimiterAssumption`: whole amounts, a burst of at least one request, and a bucket
that is full again by the time it may expire, which holds for the server's settings of burst = 2 * rate
and an age of 3600 s):
* `TypeCorrect`: buckets hold between nothing and the burst and are never from the future;
* `LimiterImplementsTokenBucket`: no request is decided otherwise than by buckets that are refilled at
  every tick and never forgotten. The argument: `Level` is what a bucket would hold if refilled now; a
  tick raises it by the rate up to the cap, a request changes it by its cost, and `ExpiredIsFull` shows
  that a bucket `cleanup_expired` erases is at the cap, where a missing bucket counts as full.

`LoadBalancerProofs` (from `BalancerAssumption`: at least one backend, finitely many workers, and a
`size_t` whose number of values is a multiple of an `int`'s):
* `TypeCorrect`, `Accounting`, `RotationSound`: `Spec => []P` for `TypeOK`, `AccountingExact`,
  `InRotationMeansSound`. `Inv` adds that a worker holds a backend exactly from `get_next` to `release`
  (`HoldInv`), that only a backend that has misbehaved is about to be marked down (`MarkInv`), and that one
  which never has is well, also in a probe result that waits to be applied (`WellInv`). `HoldersChange`
  counts: whoever takes or gives back a backend changes the number of its holders by one.
* `RoundRobin`, `NullMeansAllDown`: `RoundRobinFair` and `NullOnlyIfAllDown`, assuming that the number of
  backends divides the number of values of an `int`. That hypothesis is not a convenience: with three
  backends the slot jumps where the index passes from -1, which converts to the largest `size_t`, to 0, and
  `WrapMissesOne` proves that a scan which begins there finds nothing although the last backend is alive.
  Under it the remainder lemmas show that neither the wrap of the `int` nor the conversion to `size_t`
  changes the index modulo the number of backends, so that a scan visits every slot, and `LapInv` that the
  backends below the slot are the ones a request ahead.

`ShutdownProofs` (from `ShutdownAssumption`: finitely many signals, and `None` is not a client, a frame or
an exit code):
* `TypeCorrect`, `Drained`, `Ends`: `TypeOK`, `DrainedBeforeClose` and `EndsWell`, for signals that
  interrupt one another at any point. `EndsWell` lists all
  the ways in which the process can end, so its proof needs the whole history of a stop: which frames can
  lie above which (`StackInv`), what each has done by the point it stands at (`FrameInv`, `BegunInv`,
  `WaitInv`), that a closed pool holds only what was due and at most the task of the `enqueue` that the
  stop interrupted (`PoolInv`), that every open socket is in the table, on its way in or on its way out
  (`SockInv`), that after `CloseAll` only the socket interrupted between `accept4` and its insertion, or
  one already being closed, is still open (`CutInv`), and where the loop can be left (`ExitInv`).

`ServerProofs` (from `ServerAssumption`; every environment: pipelining, resets, hang-ups, idle clients):
* `TypeCorrect`, `TableAgrees`, `NoStaleEvent`: `TypeOK`, `TableConsistent` and the action property
  `EventsStayFresh`. `Inv` adds whether the descriptor in hand is mapped at each point of the loop
  (`CurInv`), that no socket has two descriptors (`OwnerInv`), what a worker's closure holds (`TaskInv`),
  and that the events left in a batch are about mapped descriptors other than the one being closed
  (`BatchInv`), which is what keeps a number that is reused within a batch from getting an old event.

The second half of `ServerProofs` (assuming `OneAtATime`: no pipelining and no body that trails its header):
* `AnsweredInOrder`: `ResponsesInOrder`, for any number of clients, workers and requests, with hang-ups,
  resets, time-outs and reuse of descriptors. The invariant `Answers` follows a request through its stages:
  its pieces (`PiecesInv`), its dispatch, at which all of it is in the read buffer (`DispatchInv`,
  `OnceInv`, `ReadInv`), its answer (`ComputedInv`, `AnswerInv`), and how many chunks the client has by then
  (`CountInv`, `SentInv`). Without the assumption a worker's buffer is written under its hands (runs
  `server_pipelining`, `server_split_body`).

`ServerOrderlyProofs` (assuming `Orderly`: `OneAtATime`, and nobody hangs up, is reset or idles past the
limit, because the Connection of one who does may be closed and its descriptor given away while a worker
still uses it, as in run `server_fd_reuse`; and from `NoneAssumption`, that the null value is no response):
* `NoRace`, `ChargedRight`: `NoDataRace` and `ChargedToSender`. `Turns` says whose turn it is: a Connection
  that is queued or held by a worker is used by that one worker only, is still mapped by its own descriptor
  (`ExclusiveInv`, `HeldInv`), and epoll, the batch and the loop's hand do not have it for input or output
  (`TurnInv`).
* `ClosedWithReason`: `ClosedForAReason`, if requests also fit the read buffer (`Fits`; a larger one is
  closed without an answer). `Reasons` carries what an answer announced to the close that follows from it
  (`KeepInv`, `LastInv`, `ReasonInv`).
* `CloseIsKept`: `AnnouncedCloseIsKept`, under the same two assumptions, and `NeverSpuriouslyBad`:
  `NoSpuriousBadRequest`, if requests are also well formed (`WellFormed`). `Manners` adds that the pieces on
  their way always join to one whole request (`WholeInv`), that a request is refused as bad only if it is
  malformed and that `keep_alive` comes from a 200 (`SoundInv`, `FirstInv`), that the answer before the current request announced keep-alive (`PreviousInv`), and that
  epoll watches for input only where no close was announced (`OutputInv`, `InputInv`).

The instance of run `server_orderly` satisfies these hypotheses except `WellFormed`: some of its requests are
malformed.

`StaticFilesProofs` (from `CacheAssumption`, `FilesAssumption` and `KeysAssumption`: sizes and limits are
natural numbers, a content is of one file, the root is a directory, no directory is a file, a file's name
ends in a name and not in `.` or `..`, paths begin with '/', and every file name a path leads to is a possible
cache key):
* `CacheConsistent`, `EvictionIsExact`: `Consistent` and the action property `EvictsWhatItMust`. `Inv` has
  `Consistent` with the types of the cache (`CacheInv`) and `SinceInv`: what was answered from since a key
  was is what stands in front of it in `lru_list_`. With that, `PutFacts` shows that the keys `put` leaves
  are the longest front part of the list that fits beside the new data, and since sizes only add up towards
  the end of the list, an entry goes exactly if what stands in front of it leaves no room.
* `SanitizeDenotes`: for a path of any length the loop of `sanitize_path` ends blocked exactly if the path
  `Escapes`, and otherwise with the names it `Denotes`. The invariant of the loop (`Tracks`) is that the
  stack holds, in order, the names at the places of `Stay`, and that its height is the balance of downs and
  ups (`CountStep`, `BalanceStep`); `InOrder` shows that the i-th smallest place is the i-th on the stack.
* `AnswersAreRight`: `AnswersTheRequest`. `HandleInv` says of a worker at each step of `handle` why it is
  there (`WorkerOk`): the key is the one its path leads to, the content it holds is of the file that the key
  names up to its first NUL, and so is whatever the cache or the disk holds, however old.

`SiteProofs` (from `RawsAssumption`, `NumbersAssumption` and `CharsAssumption`: a buffer is a sequence, a uri
and a location's path are sequences of characters, and a content length is a natural number):
* `PiecesNeverMatter`, `PiecesAreJoined`: `PiecesDoNotMatter`, the first for any number of pieces. `ParseIs`
  says what `parse` makes of a fresh parser whose buffer has been joined with new bytes, in terms of those
  bytes alone (`HeadOf`, `Needs`, `Rest`); `BlankLineStays` shows that more bytes neither move the first
  blank line nor change what stands before it, so one more piece (`NextPiece`) leads from the result for
  the bytes so far to the result for all. `DoneWhenWhole` compares that with `Whole`.
* `FramedButForTwo`: `FramedExactly`. `FinishIs` follows a response through HEAD's dropped body, the error
  page, the connection header and `build` to the size of its body and the lengths it announces;
  `AnswersAnnounce` says which lengths and codings each handler's answers can announce, and that only a
  backend's can say `keep-alive` of their own.
* `MatchIsCovers`: a location matches exactly the paths it covers segment by segment. `Rank` and `Nth` count
  the places where segments end; a prefix whose segments begin the path's has its ends at the same places.
* `LongestPrefixDecides`: `RoutedByLongestPrefix`. `ParserInv` follows the recursive descent: which blocks can
  be open (`OpenInv`) and what may still follow in the statement in hand (`Stage`), so that what ends up in
  `configs` is a server block with well-formed locations. `SetupIs` shows that `add_route`, repeated, leaves
  a sorted table with the routes said and no others, and `RouteDecides` that the first one that matches is
  then a longest that covers the path.

* `AcceptedAsWritten`: `MeansWhatItSays`. The invariant `TextInv` says of the text read so far that it is a
  text `g` of whole statements and the words of one more, and that the open blocks, `configs` and
  `upstreams_` hold what `g` says (`Held`: `AtTop`, `InServer`, `InLocation` or `InUpstream`, by the block
  the parser is in). `Grows` relates such a text to the one with one more statement. A first group of lemmas
  says what that changes: depths and the places where statements begin (`DepthGrown`, `StartsGrown`), which
  statements are inside which block (`InsideGrown`), which blocks are open (`OpenGrown`), and the last
  argument, the words and the ranks that follow (`SaidGrown`, `WordsGrown`, `RankRun`). A second group shows
  that what a block says changes only with a statement directly inside it (`LocationStays`, `ServerStays`,
  `ServersStay`, `UpstreamsStay`). A third has one lemma for each way the parser moves between blocks
  (`TopToServer`, `ServerToLocation`, `LocationToLocation`, `LocationToServer`, ...). `Exact` counts the
  words of the statement in hand, so that a directive that ends has all its arguments. The words themselves
  are arbitrary, and so are the number of statements and the order of blocks.

`FramedButForTwo` and `LongestPrefixDecides` follow from two inductive invariants: `RoutesInv` (a serving
process has the routes of its configuration) and `LastInv` (what is remembered of a request is what
`process_request` makes of it with those routes).

These two modules rest on induction over sums, paths, pieces and routes, for which the prover's library has
only theorems with an operator parameter, which cannot be used. Each begins with what replaces them: a set of
natural numbers that holds 0 and is closed under successor holds them all (`Induction`, from the existence of
least elements), and from it the equations of the recursive functions used (`LoopExists`, `SumExists`,
`FeedExists`, `SetupExists`).

Only model-checked:
* the liveness properties `AcceptedTasksRun`, `ShutdownReturns`, `RequestsAnswered`, `AbandonedReclaimed`,
  `StopCompletes`, `Excised`, `Recovered`, `StopReturns` and `StaleNeverForever`: temporal proofs under
  fairness are out of the prover's reach.

## 5. Not modelled

* The tokenizer of the configuration parser (characters, comments, line numbers): text in, tokens out.
* Logging, MIME types, statistics, the text of responses and of forwarded requests: output or constant
  data. Of a backend's headers only those about
  length, coding and connection are kept, the last two in one spelling.
* Socket setup in `start` beyond its success or failure; `-p`, which changes only the port number.
* Exhaustion of memory; failures of `epoll_ctl` on an open descriptor.
* Data races are stated as a property (`NoDataRace`) for the buffers of a Connection, and their effects are not
  followed further. `is_writing`, which a worker sets (server.cpp:387) while the reaper may read it
  (server.cpp:588), is one value in the model. A signal
  handler that calls functions which are not async-signal-safe is undefined in C++; `Shutdown` follows what
  the mutexes and flags do. Signals that the kernel delivers to another thread than the main one, and a
  second signal between the test and the store of `running_` on such a thread, are left out.
* Files are replaced as a whole (no partial writes) and directories do not change. Buffers are cut between
  items, not inside a CRLF or a header line.
* Doubles are whole numbers in a small unit.

## 6. Plan

The system's own logic is modelled, and the invariants and action properties that the passing runs check are
all proved. What is left is the tokenizer of the configuration parser, which is not modelled.
