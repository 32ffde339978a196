------------------------------ MODULE Shutdown ------------------------------
(***************************************************************************)
(* Shutdown by signal (src/main.cpp, Server::start and Server::stop).      *)
(* signal_handler calls Server::stop on the main thread, which is the      *)
(* event loop's, between any two of its instructions: the thread's stack   *)
(* is a sequence of frames, only the first runs, and a mutex locked in an  *)
(* interrupted frame stays locked.  The event loop is reduced to the       *)
(* points at which being interrupted makes a difference; what it does to   *)
(* connections in detail is in module Server, one request per client here. *)
(* The workers are the pool of module TaskPool, which ThreadPool           *)
(* implements.                                                             *)
(***************************************************************************)
EXTENDS Sequences, Integers, FiniteSets

CONSTANTS Clients,
          Signals,      \* SIGINT and SIGTERM; each is sent at most once
          enabled_,     \* is there a rate limit in the configuration?
          None

\* Where a frame of the main thread may be.
Points == {"boot", "test", "wait", "batch", "accept", "limit", "register", "insert",
           "find_read", "find_write", "recv", "enqueue", "locking", "push", "send",
           "erase", "closing", "scan", "sweep",
           "stop", "store", "shutdown", "join", "close", "health"}

\* The client a frame is about, or None.
Frames == [pc : Points, c : Clients \cup {None}]

ASSUME ShutdownAssumption ==
    /\ enabled_ \in BOOLEAN
    /\ IsFiniteSet(Signals)
    /\ None \notin Clients /\ None \notin Frames /\ None \notin {0, 1}

VARIABLES
    \* the pool; a task is the request of a client
    queue, running, finished, open, due, stopped,
    admitted,       \* requests that have passed is_allowed
    running_, connections_, listening,
    stack,          \* the main thread's frames, the running one first
    batch,          \* events of the last epoll_wait not yet dispatched
    sock,           \* client -> none | pending | open | closed | cut (by stop)
    data,           \* client -> its request: none | sent | read
    answered,       \* clients whose response has been sent
    sent,           \* signals sent
    exit,           \* the exit code, or None
    interrupted     \* history: the frame a stop that did its work interrupted

poolVars == <<queue, running, finished, open, due, stopped>>
pool     == <<poolVars, admitted>>
server   == <<running_, connections_, listening>>
netVars  == <<sock, data, answered>>
signals  == <<sent, interrupted>>
vars == <<queue, running, finished, open, due, stopped, admitted, running_, connections_,
          listening, stack, batch, sock, data, answered, sent, exit, interrupted>>

Pool == INSTANCE TaskPool WITH Tasks <- Clients

Frame(pc, c) == [pc |-> pc, c |-> c]

Init ==
    /\ Pool!Init
    /\ admitted = {}
    /\ running_ = FALSE /\ connections_ = {} /\ listening = FALSE
    /\ stack = <<Frame("boot", None)>>
    /\ batch = {}
    /\ sock = [c \in Clients |-> "none"]
    /\ data = [c \in Clients |-> "none"]
    /\ answered = {} /\ sent = {} /\ exit = None /\ interrupted = None

-----------------------------------------------------------------------------
(* The main thread                                                          *)

top == Head(stack)

\* The running frame is at pc.
At(pc) == exit = None /\ top.pc = pc

Goto(pc, c) == stack' = <<Frame(pc, c)>> \o Tail(stack)

\* A step that only moves the running frame.
Move(pc, c) ==
    /\ Goto(pc, c)
    /\ UNCHANGED <<pool, server, batch, netVars, signals, exit>>

\* The mutex that is locked while a frame is at a point.
connections_mutex_ == {"find_read", "find_write", "limit", "insert", "erase", "scan"}
queue_mutex_ == {"push"}
limiter_mutex_ == {"sweep"}

\* A frame of the main thread is inside the mutex's section.
Locked(mutex) == \E i \in DOMAIN stack : stack[i].pc \in mutex

\* The mutex is locked in a frame that the running one has interrupted.
HeldBelow(mutex) == \E i \in 2..Len(stack) : stack[i].pc \in mutex

\* start: the socket is bound and registered and running_ stored, or it fails;
\* main does not look at the result.
Start ==
    /\ At("boot")
    /\ \/ /\ running_' = TRUE /\ listening' = TRUE
          /\ Goto("test", None)
          /\ UNCHANGED exit
       \/ /\ exit' = 0
          /\ UNCHANGED <<running_, listening, stack>>
    /\ UNCHANGED <<pool, signals, connections_, batch, netVars>>

\* Mutant of LoopTest: the flag is not looked at.
LoopForever ==
    /\ At("test")
    /\ Move("wait", None)

\* event_loop's test; when it ends main returns 0.
LoopTest ==
    /\ At("test")
    /\ IF running_ THEN Goto("wait", None) /\ UNCHANGED exit
                   ELSE exit' = 0 /\ UNCHANGED stack
    /\ UNCHANGED <<pool, server, signals, batch, netVars>>

\* The events epoll would report.
Ready ==
    {Frame("accept", None) : c \in {c \in Clients : sock[c] = "pending"}}
    \cup {Frame("find_read", c) : c \in {c \in connections_ : data[c] = "sent"}}
    \cup {Frame("find_write", c) : c \in (connections_ \cap finished) \ answered}

\* epoll_wait returns some events, or none when its time is up.
Wait ==
    /\ At("wait")
    /\ batch' \in SUBSET Ready
    /\ Goto("batch", None)
    /\ UNCHANGED <<pool, server, signals, netVars, exit>>

\* The loop over the batch does not look at running_.  Once the listening
\* socket is closed its event is taken for that of an unknown client.
Dispatch ==
    /\ At("batch")
    /\ \/ \E e \in batch :
             /\ batch' = batch \ {e}
             /\ IF e.pc = "accept" /\ ~listening THEN UNCHANGED stack ELSE Goto(e.pc, e.c)
       \/ batch = {} /\ Goto("scan", None) /\ UNCHANGED batch
    /\ UNCHANGED <<pool, server, signals, netVars, exit>>

\* handle_accept: take a connection, or leave when there is none or the
\* listening socket is gone.
Accept4 ==
    /\ At("accept")
    /\ \/ \E c \in Clients :
             /\ listening /\ sock[c] = "pending"
             /\ sock' = [sock EXCEPT ![c] = "open"]
             /\ Goto("limit", c)
       \/ /\ ~listening \/ \A c \in Clients : sock[c] # "pending"
          /\ Goto("batch", None)
          /\ UNCHANGED sock
    /\ UNCHANGED <<pool, server, signals, batch, data, answered, exit>>

\* The limit is tested, then the descriptor registered, then inserted.
Register ==
    /\ At("limit") \/ At("register")
    /\ Move(IF top.pc = "limit" THEN "register" ELSE "insert", top.c)

Insert ==
    /\ At("insert")
    /\ connections_' = connections_ \cup {top.c}
    /\ Goto("accept", None)
    /\ UNCHANGED <<pool, signals, running_, listening, batch, netVars, exit>>

\* handle_read and handle_write look the connection up.
Find ==
    /\ At("find_read") \/ At("find_write")
    /\ IF top.c \notin connections_ THEN Move("batch", None)
       ELSE Move(IF top.pc = "find_read" THEN "recv" ELSE "send", top.c)

\* recv until there is no more, or an error: the descriptor has been closed.
Recv ==
    /\ At("recv")
    /\ IF sock[top.c] = "open"
       THEN /\ data' = [data EXCEPT ![top.c] = "read"]
            /\ Goto("enqueue", top.c)
       ELSE Goto("erase", top.c) /\ UNCHANGED data
    /\ UNCHANGED <<pool, server, signals, batch, sock, answered, exit>>

\* Mutant of EnqueueTest: no test.
EnqueueUntested ==
    /\ At("enqueue")
    /\ Move("locking", top.c)

\* Mutant of CaughtInMain: nothing catches it and std::terminate aborts.
Aborted == 134

\* The exit code after an exception that leaves the event loop.
CaughtInMain == 1

\* enqueue's test of shutdown_; its exception ends the loop and, caught in
\* main, the process.
EnqueueTest ==
    /\ At("enqueue")
    /\ IF open THEN Goto("locking", top.c) /\ UNCHANGED exit
               ELSE exit' = CaughtInMain /\ UNCHANGED stack
    /\ UNCHANGED <<pool, server, signals, batch, netVars>>

LockQueue ==
    /\ At("locking")
    /\ Move("push", top.c)

Push ==
    /\ At("push")
    /\ Pool!Accept(top.c)
    /\ Goto("batch", None)
    /\ UNCHANGED <<server, signals, admitted, batch, netVars, exit>>

\* send the response, or find the descriptor closed.
Send ==
    /\ At("send")
    /\ IF sock[top.c] = "open"
       THEN /\ answered' = answered \cup {top.c}
            /\ \E next \in {"batch", "erase"} : Goto(next, top.c)  \* keep-alive or not
       ELSE Goto("erase", top.c) /\ UNCHANGED answered
    /\ UNCHANGED <<pool, server, signals, batch, sock, data, exit>>

\* close_connection: out of the table, then epoll and the descriptor.
Erase ==
    /\ At("erase")
    /\ IF top.c \in connections_ THEN Goto("closing", top.c) ELSE Goto("batch", None)
    /\ connections_' = connections_ \ {top.c}
    /\ UNCHANGED <<pool, signals, running_, listening, batch, netVars, exit>>

CloseFd ==
    /\ At("closing")
    /\ sock' = [sock EXCEPT ![top.c] = "closed"]
    /\ Goto("batch", None)
    /\ UNCHANGED <<pool, server, signals, batch, data, answered, exit>>

\* cleanup_inactive_connections: the scan of the table, whose idle connections
\* without an answer to send are closed one after the other, then the limiter's
\* clean-up, which locks only if there is a limit.
Cleanup ==
    \/ /\ At("scan")
       /\ \E c \in connections_ \ (finished \ answered) : Move("erase", c)
    \/ /\ At("scan") \/ At("sweep")
       /\ Move(IF top.pc = "scan" /\ enabled_ THEN "sweep" ELSE "test", None)

EventLoop ==
    \/ Start \/ LoopTest \/ Wait \/ Dispatch \/ Accept4 \/ Register \/ Insert \/ Find
    \/ Recv \/ EnqueueTest \/ LockQueue \/ Push \/ Send \/ Erase \/ CloseFd \/ Cleanup

-----------------------------------------------------------------------------
(* signal_handler and Server::stop                                          *)

\* A signal is delivered to the main thread, also inside the handler of the
\* other one.
Signal(s) ==
    /\ exit = None /\ s \notin sent
    /\ sent' = sent \cup {s}
    /\ stack' = <<Frame("stop", None)>> \o stack
    /\ UNCHANGED <<pool, server, batch, netVars, exit, interrupted>>

\* The frames after a return.  An interrupted epoll_wait reports no events.
Returned ==
    LET below == stack[2] IN
    IF below.pc = "wait" THEN <<Frame("batch", None)>> \o Tail(Tail(stack)) ELSE Tail(stack)

\* Without running_ stop returns at once.
StopTest ==
    /\ At("stop")
    /\ IF running_ THEN Goto("store", None) ELSE stack' = Returned
    /\ UNCHANGED <<pool, server, signals, batch, netVars, exit>>

StopStore ==
    /\ At("store")
    /\ running_' = FALSE
    /\ interrupted' = stack[Len(stack)]
    /\ Goto("shutdown", None)
    /\ UNCHANGED <<pool, connections_, listening, batch, netVars, sent, exit>>

\* Mutant of AfterFlag: the threads are detached instead of joined.
Detached == "close"

AfterFlag == "join"

\* ThreadPool::shutdown: store the flag under queue_mutex_ and join; nothing if
\* it has been done before.
PoolShutdown ==
    /\ At("shutdown")
    /\ \/ ~open /\ Goto("close", None) /\ UNCHANGED poolVars
       \/ /\ ~HeldBelow(queue_mutex_)
          /\ Pool!Close
          /\ Goto(AfterFlag, None)
    /\ UNCHANGED <<server, signals, admitted, batch, netVars, exit>>

PoolJoin ==
    /\ At("join")
    /\ Pool!Stop
    /\ Goto("close", None)
    /\ UNCHANGED <<server, signals, admitted, batch, netVars, exit>>

\* Mutant of Cut: the table is cleared and the descriptors stay open.
CutNothing == sock

Cut == [c \in Clients |-> IF c \in connections_ THEN "cut" ELSE sock[c]]

\* Every connection in the table is closed.
CloseAll ==
    /\ At("close")
    /\ ~HeldBelow(connections_mutex_)
    /\ sock' = Cut
    /\ connections_' = {}
    /\ Goto("health", None)
    /\ UNCHANGED <<pool, signals, running_, listening, batch, data, answered, exit>>

\* stop_health_checks returns (module LoadBalancer), the listening socket is
\* closed and the interrupted code goes on.
StopEnd ==
    /\ At("health")
    /\ listening' = FALSE
    /\ stack' = Returned
    /\ UNCHANGED <<pool, signals, running_, connections_, batch, netVars, exit>>

Stop == StopTest \/ StopStore \/ PoolShutdown \/ PoolJoin \/ CloseAll \/ StopEnd

-----------------------------------------------------------------------------
(* Workers and clients                                                      *)

\* A worker takes the next task under queue_mutex_.
Take ==
    /\ exit = None /\ ~Locked(queue_mutex_)
    /\ Pool!Start
    /\ UNCHANGED <<server, signals, admitted, stack, batch, netVars, exit>>

\* is_allowed locks the limiter's mutex_ if there is a limit.
Admit(c) ==
    /\ exit = None /\ c \in running \ admitted
    /\ enabled_ => ~Locked(limiter_mutex_)
    /\ admitted' = admitted \cup {c}
    /\ UNCHANGED <<server, signals, poolVars, stack, batch, netVars, exit>>

\* The rest of process_request: the response is in write_buffer.
Finish(c) ==
    /\ exit = None /\ c \in admitted
    /\ Pool!Finish(c)
    /\ UNCHANGED <<server, signals, admitted, stack, batch, netVars, exit>>

Worker == Take \/ \E c \in Clients : Admit(c) \/ Finish(c)

Connect(c) ==
    /\ exit = None /\ listening /\ sock[c] = "none"
    /\ sock' = [sock EXCEPT ![c] = "pending"]
    /\ UNCHANGED <<pool, server, signals, stack, batch, data, answered, exit>>

SendRequest(c) ==
    /\ exit = None /\ sock[c] \in {"pending", "open"} /\ data[c] = "none"
    /\ data' = [data EXCEPT ![c] = "sent"]
    /\ UNCHANGED <<pool, server, signals, stack, batch, sock, answered, exit>>

Next ==
    \/ EventLoop
    \/ Stop
    \/ Worker
    \/ \E s \in Signals : Signal(s)
    \/ \E c \in Clients : Connect(c) \/ SendRequest(c)

\* The main thread and the workers are scheduled; nothing obliges clients or
\* whoever sends signals.
Spec ==
    /\ Init
    /\ [][Next]_vars
    /\ WF_vars(EventLoop \/ Stop)
    /\ WF_vars(Take)
    /\ \A c \in Clients : WF_vars(Admit(c)) /\ WF_vars(Finish(c))

-----------------------------------------------------------------------------
(* Properties                                                               *)

\* Every variable keeps its type; the process ends in no other way than by a
\* return of main.
TypeOK ==
    /\ queue \in Seq(Clients)
    /\ {running, finished, due, admitted, answered, connections_} \subseteq SUBSET Clients
    /\ {open, stopped, running_, listening} \subseteq BOOLEAN
    /\ stack \in Seq(Frames) /\ stack # <<>> /\ Len(stack) <= 1 + Cardinality(Signals)
    /\ sock \in [Clients -> {"none", "pending", "open", "closed", "cut"}]
    /\ data \in [Clients -> {"none", "sent", "read"}]
    /\ batch \subseteq Frames /\ sent \subseteq Signals
    /\ exit \in {None, 0, 1} /\ interrupted \in Frames \cup {None}

\* stop waits for the workers before it takes their connections away: no
\* worker is inside process_request for a client whose socket stop has closed,
\* and every request that was queued when the pool was told to stop has been
\* processed by then.
DrainedBeforeClose ==
    \A c \in Clients : sock[c] = "cut" => c \notin running /\ due \subseteq finished

\* How a stopped process ends, depending on where the event loop was:
\* - a request that was queued has been processed, unless the stop came
\*   between enqueue's test and its push, which nobody runs;
\* - every accepted connection is closed, unless the stop came between its
\*   accept4 and its insertion;
\* - the stop did not come inside a section of connections_mutex_ or
\*   queue_mutex_, where it waits for itself and the process never ends;
\* - the exit code is 0, unless the stop came before enqueue's test, whose
\*   exception makes it 1.
EndsWell ==
    exit # None /\ interrupted # None =>
       /\ \A c \in Clients \ finished :
             c \in running \cup {queue[i] : i \in DOMAIN queue}
                => interrupted = Frame("locking", c)
       /\ \A c \in Clients : sock[c] = "open" => interrupted = Frame("register", c)
       /\ interrupted.pc \notin connections_mutex_ \cup queue_mutex_
       /\ exit = 1 <=> interrupted.pc = "enqueue"

\* What the program's help text promises of a signal, "Graceful shutdown -
\* drains active connections": a connection whose request was queued when the
\* pool was told to stop is closed with its answer sent.
ActiveConnectionsDrained ==
    \A c \in due : sock[c] = "cut" => c \in answered

\* A stop that has begun ends the process, whatever the loop and the workers
\* were doing and however many signals follow, if the event loop was
\* interrupted outside the sections of the three mutexes that stop or a worker
\* would wait for.
StopCompletes ==
    (At("store") /\ ~HeldBelow(connections_mutex_ \cup queue_mutex_ \cup limiter_mutex_))
        ~> exit # None
=============================================================================
