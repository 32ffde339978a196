------------------------------- MODULE Server -------------------------------
(***************************************************************************)
(* The connection core of src/core/server.cpp: one event-loop thread that  *)
(* accepts, reads, writes, closes and reaps connections, and the pool      *)
(* workers that run process_request on Connection objects they share with  *)
(* it.  The pool is the FIFO that ThreadPool.tla establishes; the kernel   *)
(* (descriptor table, level-triggered epoll, sockets) and the clients are  *)
(* modelled from how the server uses them.                                 *)
(*                                                                         *)
(* A client makes one TCP connection, so it also names the Connection      *)
(* object.  Descriptors are numbers that the kernel hands out again after  *)
(* a close.  A request is one or more pieces (the unit of a recv), a       *)
(* response is Chunks pieces (the unit of a send).                         *)
(***************************************************************************)
EXTENDS Naturals, Sequences, FiniteSets, FiniteSetsExt, SequencesExt

CONSTANTS Clients, Workers, None,
          Fds,              \* descriptor numbers left for client sockets
          MAX_CONNECTIONS,
          MAX_REQUEST_SIZE, \* in pieces
          MaxRequests,      \* bound: requests a client sends
          Chunks,           \* pieces of a response
          Shapes,           \* how requests are cut: subset of DOMAIN Cut
          Env               \* what clients, network and clock may do

EnvChoices == {"pipeline", "fin", "reset", "idle", "limit", "close"}

ASSUME ServerAssumption ==
    /\ None \notin Clients \cup Fds
    /\ Fds \subseteq Nat \ {0} /\ IsFiniteSet(Fds)
    /\ {MAX_CONNECTIONS, MAX_REQUEST_SIZE, MaxRequests} \subseteq Nat
    /\ Chunks \in Nat \ {0}
    /\ Shapes \subseteq {"whole", "splitHead", "splitBody", "huge", "malformed"}
    /\ Env \subseteq EnvChoices

VARIABLES
    sock,        \* client -> none | backlog | open | closed (by the server)
    peer,        \* client -> alive | fin | rst
    outgoing,    \* client -> pieces of its current request not sent yet
    nreq,        \* client -> requests begun
    inbox,       \* client -> pieces in the server's receive buffer
    received,    \* client -> response chunks it was sent
    fdOwner,     \* descriptor -> client whose socket is open on it
    epoll,       \* descriptor -> none | in | out
    connections_,\* descriptor -> client, the map of live connections
    conn,        \* client -> its Connection object
    at,          \* control point of the event loop
    batch,       \* events of the current epoll_wait not handled yet
    cur,         \* the descriptor being handled
    back,        \* where close_connection returns to
    stale_fds,   \* the reaper's list
    pool,        \* task queue: Connection objects to process
    wat,         \* worker -> control point in process_request
    job,         \* worker -> its Connection object
    resp         \* worker -> the response it has computed

clientVars == <<sock, peer, outgoing, nreq, inbox, received>>
kernelVars == <<fdOwner, epoll>>
loopVars   == <<at, batch, cur, back, stale_fds>>
workVars   == <<pool, wat, job, resp>>
vars == <<clientVars, kernelVars, connections_, conn, loopVars, workVars>>

-----------------------------------------------------------------------------
(* Requests and responses                                                   *)

\* The ways a request may be cut into pieces; all but "start" and "body"
\* contain the blank line.
Cut == [ whole     |-> <<"whole">>,
         splitHead |-> <<"start", "rest">>,
         splitBody |-> <<"headers", "body">>,
         huge      |-> <<"start", "start", "rest">>,
         malformed |-> <<"garbage">> ]

PiecesOf(n, shape, keep) ==
    [i \in 1..Len(Cut[shape]) |-> [req |-> n, kind |-> Cut[shape][i], keep |-> keep]]

\* read_buffer.find("\r\n\r\n") succeeds.
HeadersComplete(buf) == \E i \in 1..Len(buf) : buf[i].kind \notin {"start", "body"}

\* parse_request_line accepts the first line.
ValidRequestLine(piece) == piece.kind # "garbage"

\* A fresh HttpParser finds one complete request at the front of the buffer.
\* Bytes that follow it are not looked at.
Parses(buf) ==
    \E n \in 1..Len(buf) :
       /\ ValidRequestLine(buf[1])
       /\ \E shape \in DOMAIN Cut : [i \in 1..n |-> buf[i].kind] = Cut[shape]
       /\ \A i \in 1..n : buf[i].req = buf[1].req

\* wants_keep_alive of the request that was parsed.
WantsKeepAlive(buf) == buf[1].keep

Statuses == {"ok", "bad", "limited"}

\* Mutant of get_client_ip: the peer of the descriptor the loop is handling.
PeerOfCurrent(c) == IF cur = None THEN None ELSE fdOwner[cur]

\* getpeername(conn->fd): whoever owns the descriptor when the worker asks,
\* None ("unknown") if it is closed or its connection has been reset.
get_client_ip(c) ==
    LET owner == fdOwner[conn[c].fd] IN
    IF owner # None /\ peer[owner] = "rst" THEN None ELSE owner

\* The answer to request n on Connection c, charged to and reported as ip.
Response(c, n, status, keep) ==
    [conn |-> c, req |-> n, ip |-> get_client_ip(c), status |-> status,
     announce |-> IF keep THEN "keep" ELSE "close"]

NewConnection(f) ==
    [fd |-> f, read_buffer |-> <<>>, write_buffer |-> None, bytes_sent |-> 0,
     keep_alive |-> FALSE, is_writing |-> FALSE, overdue |-> FALSE]

Init ==
    /\ sock = [c \in Clients |-> "none"]
    /\ peer = [c \in Clients |-> "alive"]
    /\ outgoing = [c \in Clients |-> <<>>]
    /\ nreq = [c \in Clients |-> 0]
    /\ inbox = [c \in Clients |-> <<>>]
    /\ received = [c \in Clients |-> <<>>]
    /\ fdOwner = [f \in Fds |-> None]
    /\ epoll = [f \in Fds |-> "none"]
    /\ connections_ = [f \in Fds |-> None]
    /\ conn = [c \in Clients |-> NewConnection(None)]
    /\ at = "wait" /\ batch = {} /\ cur = None /\ back = "dispatch" /\ stale_fds = {}
    /\ pool = <<>>
    /\ wat = [w \in Workers |-> "idle"]
    /\ job = [w \in Workers |-> None]
    /\ resp = [w \in Workers |-> None]

-----------------------------------------------------------------------------
(* Clients, network and clock.  The server learns what clients do in        *)
(* epoll_wait, accept4, recv and send only, so their steps, but for the     *)
(* pieces of a request under way, are let happen where the loop is about to *)
(* call one of these.                                                       *)

Connect(c) ==
    /\ sock[c] = "none" /\ at \in {"wait", "accept"}
    /\ sock' = [sock EXCEPT ![c] = "backlog"]
    /\ UNCHANGED <<peer, outgoing, nreq, inbox, received, kernelVars, connections_, conn,
                   loopVars, workVars>>

\* Every request begun has been answered completely.
Answered(c) == Len(received[c]) = Chunks * nreq[c]

\* The client begins its next request: only after the previous answer, unless
\* it pipelines, and not on a connection the server has announced to close.
BeginRequest(c, shape, keep) ==
    /\ sock[c] \in {"backlog", "open"} /\ peer[c] = "alive"
    /\ at \in {"wait", "recv"}
    /\ outgoing[c] = <<>> /\ nreq[c] < MaxRequests
    /\ "pipeline" \in Env \/ Answered(c)
    /\ received[c] # <<>> => Last(received[c]).resp.announce = "keep"
    /\ keep \/ "close" \in Env
    /\ nreq' = [nreq EXCEPT ![c] = @ + 1]
    /\ outgoing' = [outgoing EXCEPT ![c] = PiecesOf(nreq[c] + 1, shape, keep)]
    /\ UNCHANGED <<sock, peer, inbox, received, kernelVars, connections_, conn,
                   loopVars, workVars>>

SendPiece(c) ==
    /\ sock[c] \in {"backlog", "open"} /\ peer[c] = "alive"
    /\ outgoing[c] # <<>>
    /\ inbox' = [inbox EXCEPT ![c] = Append(@, Head(outgoing[c]))]
    /\ outgoing' = [outgoing EXCEPT ![c] = Tail(@)]
    /\ UNCHANGED <<sock, peer, nreq, received, kernelVars, connections_, conn,
                   loopVars, workVars>>

\* The client shuts down its sending side, or the connection is reset.
HangUp(c) ==
    /\ sock[c] \in {"backlog", "open"} /\ at \in {"wait", "recv", "write"}
    /\ \/ "fin" \in Env /\ peer[c] = "alive"
          /\ peer' = [peer EXCEPT ![c] = "fin"]
          /\ UNCHANGED inbox
       \/ "reset" \in Env /\ peer[c] # "rst"
          /\ peer' = [peer EXCEPT ![c] = "rst"]
          /\ inbox' = [inbox EXCEPT ![c] = <<>>]
    /\ UNCHANGED <<sock, outgoing, nreq, received, kernelVars, connections_, conn,
                   loopVars, workVars>>

\* Mutant of BatchHandled: idle connections are reaped between two events.
BatchUnderWay == at = "dispatch"

\* The loop is about to call cleanup_inactive_connections.
BatchHandled == at = "dispatch" /\ batch = {}

\* More than TIMEOUT_SECONDS have passed since last_activity.  Only the scan
\* compares the two, so the time is let pass just before it.
Elapse(c) ==
    /\ "idle" \in Env /\ sock[c] = "open" /\ ~conn[c].overdue
    /\ BatchHandled
    /\ conn' = [conn EXCEPT ![c].overdue = TRUE]
    /\ UNCHANGED <<clientVars, kernelVars, connections_, loopVars, workVars>>

-----------------------------------------------------------------------------
(* epoll and the descriptor table                                           *)

Listener == 0

\* What epoll_wait reports for a descriptor.  Errors and hangups are reported
\* whatever the interest; a socket is taken to be writable.
EventsOf(f) ==
    LET c == fdOwner[f] IN
    IF epoll[f] = "none" THEN {}
    ELSE IF peer[c] = "rst" THEN {"hup"}
    ELSE IF epoll[f] = "out" THEN {"out"}
    ELSE IF inbox[c] # <<>> \/ peer[c] = "fin" THEN {"in"}
    ELSE {}

Backlog == {c \in Clients : sock[c] = "backlog"}

ReadyEvents ==
    {e \in Fds \X {"in", "out", "hup"} : e[2] \in EventsOf(e[1])}
        \cup (IF Backlog = {} THEN {} ELSE {<<Listener, "in">>})

\* EpollWrapper::add and ::modify each fall back on the other, so on an open
\* descriptor both set the interest and on a closed one both fail.
EpollSet(f, mode) ==
    epoll' = [epoll EXCEPT ![f] = IF fdOwner[f] = None THEN @ ELSE mode]

FreeFds == {f \in Fds : fdOwner[f] = None}

-----------------------------------------------------------------------------
(* event_loop                                                               *)

Wait ==
    /\ at = "wait"
    /\ batch' = ReadyEvents
    /\ at' = "dispatch"
    /\ UNCHANGED <<clientVars, kernelVars, connections_, conn, cur, back, stale_fds, workVars>>

Goto(point, f) ==
    /\ at' = point
    /\ cur' = f
    /\ UNCHANGED <<back, stale_fds>>

\* close_connection(f), returning to `ret`.
GotoClose(f, ret) ==
    /\ at' = "erase"
    /\ cur' = f
    /\ back' = ret

\* The branches of the loop body, in the order in which it tests the mask.
\* The handlers begin by looking the descriptor up and return if it is gone.
Dispatch ==
    /\ at = "dispatch"
    /\ \E e \in batch :
          /\ batch' = batch \ {e}
          /\ CASE e[1] = Listener -> Goto("accept", None)
               [] e[1] # Listener /\ e[2] = "hup" ->
                     GotoClose(e[1], "dispatch") /\ UNCHANGED stale_fds
               [] e[1] # Listener /\ e[2] = "in" ->
                     Goto(IF connections_[e[1]] = None THEN "dispatch" ELSE "recv", e[1])
               [] e[1] # Listener /\ e[2] = "out" ->
                     Goto(IF connections_[e[1]] = None THEN "dispatch" ELSE "write", e[1])
    /\ UNCHANGED <<clientVars, kernelVars, connections_, conn, workVars>>

\* handle_accept: the loop ends on EAGAIN or when no descriptor is left.
AcceptNone ==
    /\ at = "accept"
    /\ Backlog = {} \/ FreeFds = {}
    /\ Goto("dispatch", None)
    /\ UNCHANGED <<clientVars, kernelVars, connections_, conn, batch, workVars>>

\* accept4 takes a waiting client and the lowest free descriptor.
Accept4(c) ==
    /\ at = "accept"
    /\ c \in Backlog /\ FreeFds # {}
    /\ sock' = [sock EXCEPT ![c] = "open"]
    /\ fdOwner' = [fdOwner EXCEPT ![Min(FreeFds)] = c]
    /\ Goto("limit", Min(FreeFds))
    /\ UNCHANGED <<peer, outgoing, nreq, inbox, received, epoll, connections_, conn,
                   batch, workVars>>

Mapped == {f \in Fds : connections_[f] # None}

AtLimit == Cardinality(Mapped) >= MAX_CONNECTIONS

\* close(f): the socket goes away, and with it its epoll registration.
CloseFd(f) ==
    /\ sock' = [sock EXCEPT ![fdOwner[f]] = "closed"]
    /\ fdOwner' = [fdOwner EXCEPT ![f] = None]
    /\ epoll' = [epoll EXCEPT ![f] = "none"]

\* Mutant of AcceptReject: the rejected socket is not closed.
AcceptRejectLeak ==
    /\ at = "limit" /\ AtLimit
    /\ Goto("accept", None)
    /\ UNCHANGED <<clientVars, kernelVars, connections_, conn, batch, workVars>>

AcceptReject ==
    /\ at = "limit" /\ AtLimit
    /\ CloseFd(cur)
    /\ Goto("accept", None)
    /\ UNCHANGED <<peer, outgoing, nreq, inbox, received, connections_, conn, batch, workVars>>

AcceptRegister ==
    /\ at = "limit" /\ ~AtLimit
    /\ EpollSet(cur, "in")
    /\ Goto("insert", cur)
    /\ UNCHANGED <<clientVars, fdOwner, connections_, conn, batch, workVars>>

AcceptInsert ==
    /\ at = "insert"
    /\ connections_' = [connections_ EXCEPT ![cur] = fdOwner[cur]]
    /\ conn' = [conn EXCEPT ![fdOwner[cur]] = NewConnection(cur)]
    /\ Goto("accept", None)
    /\ UNCHANGED <<clientVars, kernelVars, batch, workVars>>

-----------------------------------------------------------------------------
(* handle_read: cur is mapped to the same connection throughout, since only *)
(* this thread changes the map.                                             *)

Reading == connections_[cur]

\* Mutant of TooLarge: the limit is tested on the buffer alone.
TooLargeAlready(c) == Len(conn[c].read_buffer) > MAX_REQUEST_SIZE

TooLarge(c) == Len(conn[c].read_buffer) + 1 > MAX_REQUEST_SIZE

RecvData ==
    /\ at = "recv"
    /\ inbox[Reading] # <<>>
    /\ inbox' = [inbox EXCEPT ![Reading] = Tail(@)]
    /\ IF TooLarge(Reading)
       THEN GotoClose(cur, "dispatch") /\ UNCHANGED conn
       ELSE /\ conn' = [conn EXCEPT
                  ![Reading].read_buffer = Append(@, Head(inbox[Reading])),
                  ![Reading].overdue = FALSE]
            /\ UNCHANGED <<at, cur, back>>
    /\ UNCHANGED <<sock, peer, outgoing, nreq, received, kernelVars, connections_,
                   batch, stale_fds, workVars>>

\* Mutant of RecvEnd: end of file is taken for "no more data".
RecvEndIgnored ==
    /\ at = "recv"
    /\ inbox[Reading] = <<>> /\ peer[Reading] # "alive"
    /\ Goto("dispatch", None)
    /\ UNCHANGED <<clientVars, kernelVars, connections_, conn, batch, workVars>>

\* recv returns 0 or an error.
RecvEnd ==
    /\ at = "recv"
    /\ inbox[Reading] = <<>> /\ peer[Reading] # "alive"
    /\ GotoClose(cur, "dispatch")
    /\ UNCHANGED <<clientVars, kernelVars, connections_, conn, batch, stale_fds, workVars>>

\* Mutant of ReadyToProcess: any data is dispatched.
AnyData(buf) == buf # <<>>

\* The request is dispatched when the buffer holds a blank line.
ReadyToProcess(buf) == HeadersComplete(buf)

\* recv has nothing more: dispatch the request if its headers are complete.
\* The interest in EPOLLIN stays on while the request is processed.
RecvAgain ==
    /\ at = "recv"
    /\ inbox[Reading] = <<>> /\ peer[Reading] = "alive"
    /\ pool' = IF ReadyToProcess(conn[Reading].read_buffer) THEN Append(pool, Reading) ELSE pool
    /\ Goto("dispatch", None)
    /\ UNCHANGED <<clientVars, kernelVars, connections_, conn, batch, wat, job, resp>>

-----------------------------------------------------------------------------
(* process_request, in a worker                                             *)

TakeTask(w) ==
    /\ wat[w] = "idle" /\ pool # <<>>
    /\ job' = [job EXCEPT ![w] = Head(pool)]
    /\ pool' = Tail(pool)
    /\ wat' = [wat EXCEPT ![w] = "process"]
    /\ UNCHANGED <<clientVars, kernelVars, connections_, conn, loopVars, resp>>

\* Client address, rate limit, parse and route.  keep_alive changes only when the parse
\* succeeds; the other two answers carry no Connection header, which
\* HttpResponse::build turns into "Connection: close".
Process(w) ==
    LET c   == job[w]
        buf == conn[c].read_buffer
        n   == IF buf = <<>> THEN 0 ELSE buf[1].req
    IN
    /\ wat[w] = "process"
    /\ \/ /\ "limit" \in Env
          /\ resp' = [resp EXCEPT ![w] = Response(c, n, "limited", FALSE)]
          /\ UNCHANGED conn
       \/ /\ ~Parses(buf)
          /\ resp' = [resp EXCEPT ![w] = Response(c, n, "bad", FALSE)]
          /\ UNCHANGED conn
       \/ /\ Parses(buf)
          /\ resp' = [resp EXCEPT ![w] = Response(c, n, "ok", WantsKeepAlive(buf))]
          /\ conn' = [conn EXCEPT ![c].keep_alive = WantsKeepAlive(buf)]
    /\ wat' = [wat EXCEPT ![w] = "publish"]
    /\ UNCHANGED <<clientVars, kernelVars, connections_, loopVars, pool, job>>

\* The Connection object once the response is queued and the input cleared.
AfterPublish(k, r) ==
    [k EXCEPT !.write_buffer = r, !.bytes_sent = 0, !.is_writing = TRUE, !.read_buffer = <<>>]

\* Mutant of Target: the worker looks its connection up by descriptor.
TargetByFd(w) ==
    LET c == connections_[conn[job[w]].fd] IN IF c = None THEN job[w] ELSE c

\* The Connection object a worker answers on: the one its closure captured.
Target(w) == job[w]

Publish(w) ==
    /\ wat[w] = "publish"
    /\ conn' = [conn EXCEPT ![Target(w)] = AfterPublish(@, resp[w])]
    /\ resp' = [resp EXCEPT ![w] = None]
    /\ wat' = [wat EXCEPT ![w] = "rearm"]
    /\ UNCHANGED <<clientVars, kernelVars, connections_, loopVars, pool, job>>

\* Mutant of RearmMode: the descriptor is left in read mode.
RearmRead == "in"

RearmMode == "out"

\* epoll_->modify(conn->fd, ...): by descriptor number, whoever owns it now.
Rearm(w) ==
    /\ wat[w] = "rearm"
    /\ EpollSet(conn[job[w]].fd, RearmMode)
    /\ job' = [job EXCEPT ![w] = None]
    /\ wat' = [wat EXCEPT ![w] = "idle"]
    /\ UNCHANGED <<clientVars, fdOwner, connections_, conn, loopVars, pool, resp>>

-----------------------------------------------------------------------------
(* handle_write                                                             *)

WriteNothing ==
    /\ at = "write"
    /\ conn[Reading].write_buffer = None
    /\ GotoClose(cur, "dispatch")
    /\ UNCHANGED <<clientVars, kernelVars, connections_, conn, batch, stale_fds, workVars>>

Unsent(c) == conn[c].write_buffer # None /\ conn[c].bytes_sent < Chunks

NextOffset(k) == k.bytes_sent + 1

SendChunk ==
    /\ at = "write"
    /\ Unsent(Reading) /\ peer[Reading] # "rst"
    /\ received' = [received EXCEPT ![Reading] =
          Append(@, [resp |-> conn[Reading].write_buffer, k |-> conn[Reading].bytes_sent + 1])]
    /\ conn' = [conn EXCEPT ![Reading].bytes_sent = NextOffset(conn[Reading])]
    /\ UNCHANGED <<sock, peer, outgoing, nreq, inbox, kernelVars, connections_,
                   loopVars, workVars>>

\* The socket buffer is full: wait for the next EPOLLOUT.
SendAgain ==
    /\ at = "write"
    /\ Unsent(Reading) /\ peer[Reading] # "rst"
    /\ Goto("dispatch", None)
    /\ UNCHANGED <<clientVars, kernelVars, connections_, conn, batch, workVars>>

SendError ==
    /\ at = "write"
    /\ Unsent(Reading) /\ peer[Reading] = "rst"
    /\ GotoClose(cur, "dispatch")
    /\ UNCHANGED <<clientVars, kernelVars, connections_, conn, batch, stale_fds, workVars>>

\* Mutants of KeepsOpen: the connection is kept, or closed, whatever the
\* client asked for.
KeepsAlways(c) == TRUE
KeepsNever(c) == FALSE

\* handle_write goes back to reading rather than close the connection.
KeepsOpen(c) == conn[c].keep_alive

WriteDone ==
    /\ at = "write"
    /\ conn[Reading].write_buffer # None /\ ~Unsent(Reading)
    /\ conn' = [conn EXCEPT ![Reading].write_buffer = None, ![Reading].bytes_sent = 0,
                            ![Reading].is_writing = FALSE]
    /\ IF KeepsOpen(Reading)
       THEN EpollSet(cur, "in") /\ Goto("dispatch", None)
       ELSE GotoClose(cur, "dispatch") /\ UNCHANGED <<epoll, stale_fds>>
    /\ UNCHANGED <<clientVars, fdOwner, connections_, batch, workVars>>

-----------------------------------------------------------------------------
(* close_connection: three steps, between which workers run                 *)

WithoutEntry(f) == [connections_ EXCEPT ![f] = None]

\* The lookup returns early if the descriptor is not in the map.
Erase ==
    /\ at = "erase"
    /\ connections_' = WithoutEntry(cur)
    /\ at' = IF connections_[cur] = None THEN back ELSE "remove"
    /\ UNCHANGED <<clientVars, kernelVars, conn, batch, cur, back, stale_fds, workVars>>

EpollRemove ==
    /\ at = "remove"
    /\ epoll' = [epoll EXCEPT ![cur] = "none"]
    /\ at' = "close"
    /\ UNCHANGED <<clientVars, fdOwner, connections_, conn, batch, cur, back, stale_fds,
                   workVars>>

Close ==
    /\ at = "close"
    /\ CloseFd(cur)
    /\ Goto(back, None)
    /\ UNCHANGED <<peer, outgoing, nreq, inbox, received, connections_, conn, batch, workVars>>

-----------------------------------------------------------------------------
(* cleanup_inactive_connections                                             *)

Reapable(c) == conn[c].overdue /\ ~conn[c].is_writing

\* The scan, after the last event of the batch.
Scan ==
    /\ BatchHandled
    /\ stale_fds' = {f \in Mapped : Reapable(connections_[f])}
    /\ at' = "reap"
    /\ UNCHANGED <<clientVars, kernelVars, connections_, conn, batch, cur, back, workVars>>

Reap ==
    /\ at = "reap" /\ stale_fds # {}
    /\ \E f \in stale_fds :
          /\ stale_fds' = stale_fds \ {f}
          /\ GotoClose(f, "reap")
    /\ UNCHANGED <<clientVars, kernelVars, connections_, conn, batch, workVars>>

ReapEnd ==
    /\ at = "reap" /\ stale_fds = {}
    /\ Goto("wait", None)
    /\ UNCHANGED <<clientVars, kernelVars, connections_, conn, batch, workVars>>

-----------------------------------------------------------------------------

ClientStep(c) ==
    \/ Connect(c)
    \/ \E shape \in Shapes, keep \in BOOLEAN : BeginRequest(c, shape, keep)
    \/ SendPiece(c)
    \/ HangUp(c)
    \/ Elapse(c)

LoopStep ==
    \/ Wait \/ Dispatch
    \/ AcceptNone \/ AcceptReject \/ AcceptRegister \/ AcceptInsert
    \/ \E c \in Clients : Accept4(c)
    \/ RecvData \/ RecvEnd \/ RecvAgain
    \/ WriteNothing \/ SendChunk \/ SendAgain \/ SendError \/ WriteDone
    \/ Erase \/ EpollRemove \/ Close
    \/ Scan \/ Reap \/ ReapEnd

WorkerStep(w) == TakeTask(w) \/ Process(w) \/ Publish(w) \/ Rearm(w)

Next ==
    \/ \E c \in Clients : ClientStep(c)
    \/ LoopStep
    \/ \E w \in Workers : WorkerStep(w)

Spec == Init /\ [][Next]_vars

\* The event loop and the workers are scheduled, a client sends the rest of a
\* request it has begun, and a client that reads makes room in a full socket
\* buffer again and again.  Nothing obliges a client to connect, to begin a
\* request or to hang up.
Fairness ==
    /\ WF_vars(LoopStep)
    /\ SF_vars(SendChunk)
    /\ \A w \in Workers : WF_vars(WorkerStep(w))
    /\ \A c \in Clients : WF_vars(SendPiece(c))

FairSpec == Spec /\ Fairness

-----------------------------------------------------------------------------
(* Properties                                                               *)

LoopPoints == {"wait", "dispatch", "accept", "limit", "insert", "recv", "write",
               "erase", "remove", "close", "reap"}
Responses == [conn : Clients, req : 0..MaxRequests, ip : Clients \cup {None},
              status : Statuses, announce : {"keep", "close"}]
Pieces == [req : 1..MaxRequests, keep : BOOLEAN,
           kind : {"whole", "start", "rest", "headers", "body", "garbage"}]
Connections == [fd : Fds \cup {None}, read_buffer : Seq(Pieces),
                write_buffer : Responses \cup {None}, bytes_sent : 0..Chunks,
                keep_alive : BOOLEAN, is_writing : BOOLEAN, overdue : BOOLEAN]

\* The null value is not a response.
ASSUME NoneAssumption == None \notin Responses

\* Every variable keeps its type, a descriptor out of use has no epoll
\* registration, and no read buffer exceeds MAX_REQUEST_SIZE.
TypeOK ==
    /\ sock \in [Clients -> {"none", "backlog", "open", "closed"}]
    /\ peer \in [Clients -> {"alive", "fin", "rst"}]
    /\ nreq \in [Clients -> 0..MaxRequests]
    /\ outgoing \in [Clients -> Seq(Pieces)]
    /\ inbox \in [Clients -> Seq(Pieces)]
    /\ received \in [Clients -> Seq([resp : Responses, k : 1..Chunks])]
    /\ conn \in [Clients -> Connections]
    /\ \A c \in Clients : Len(conn[c].read_buffer) <= MAX_REQUEST_SIZE
    /\ fdOwner \in [Fds -> Clients \cup {None}]
    /\ epoll \in [Fds -> {"none", "in", "out"}]
    /\ \A f \in FreeFds : epoll[f] = "none"
    /\ connections_ \in [Fds -> Clients \cup {None}]
    /\ at \in LoopPoints /\ back \in {"dispatch", "reap"}
    /\ batch \subseteq (Fds \cup {Listener}) \X {"in", "out", "hup"}
    /\ cur \in Fds \cup {None} /\ stale_fds \subseteq Fds
    /\ pool \in Seq(Clients)
    /\ wat \in [Workers -> {"idle", "process", "publish", "rearm"}]
    /\ job \in [Workers -> Clients \cup {None}]
    /\ resp \in [Workers -> Responses \cup {None}]

\* The event loop and a worker never use the buffers of one Connection at the
\* same time: they carry no lock, so handle_read's append and handle_write's
\* sends must not meet process_request's parse, assignment or clear.  The flag
\* is_writing, which the worker sets and the reaper reads, is not a buffer.
NoDataRace ==
    \A w \in Workers :
       ~ /\ wat[w] \in {"process", "publish"}
         /\ \/ at = "write"
            \/ at = "recv" /\ (inbox[Reading] # <<>> \/ peer[Reading] = "alive")
         /\ Reading = job[w]

\* A client receives the chunks of the answers to its own requests, each once,
\* in the order of the requests, whatever sockets are closed and whatever
\* descriptors are reused while workers hold its Connection object.
ResponsesInOrder ==
    \A c \in Clients : \A i \in 1..Len(received[c]) :
       /\ received[c][i].resp.conn = c
       /\ received[c][i].resp.req = ((i - 1) \div Chunks) + 1
       /\ received[c][i].k = ((i - 1) % Chunks) + 1

\* Every answer was charged to the client that sent the request: the address
\* process_request takes for the limiter, the log and X-Forwarded-For is asked
\* of a descriptor number, long after the request was read from it.
ChargedToSender ==
    /\ \A w \in Workers : resp[w] # None => resp[w].ip = job[w]
    /\ \A c \in Clients : \A i \in 1..Len(received[c]) : received[c][i].resp.ip = c

\* Where clients send well-formed requests only (no shape "malformed"), none
\* is answered 400.
NoSpuriousBadRequest ==
    \A c \in Clients : \A i \in 1..Len(received[c]) : received[c][i].resp.status # "bad"

\* The connection table is consistent whenever a worker or the reaper could
\* look: what is mapped is open, registered, the client's own socket, and no
\* more than MAX_CONNECTIONS; what is open but not mapped is in the hands of
\* handle_accept or close_connection, so no descriptor leaks.
TableConsistent ==
    /\ Cardinality(Mapped) <= MAX_CONNECTIONS
    /\ \A f \in Mapped : /\ fdOwner[f] = connections_[f]
                         /\ conn[connections_[f]].fd = f
                         /\ epoll[f] # "none"
    /\ \A f \in Fds \ Mapped :
          fdOwner[f] # None => cur = f /\ at \in {"limit", "insert", "remove", "close"}

\* The server hangs up on a client that is still there only after an answer
\* that announced it, or by refusing the connection at the limit.
ClosedForAReason ==
    \A c \in Clients : sock[c] = "closed" /\ peer[c] = "alive" =>
       \/ conn[c].fd = None
       \/ received[c] # <<>> /\ Answered(c) /\ Last(received[c]).resp.announce = "close"

\* A connection on which the server has answered "Connection: close" does not
\* go back to reading requests, except after a 429 or a 400 that follows a
\* keep-alive answer: process_request comes to either before it has set
\* keep_alive for the request, so that of the request before stays in place.
AnnouncedCloseIsKept ==
    \A f \in Mapped :
       LET answers == received[connections_[f]] IN
       epoll[f] = "in" /\ answers # <<>> /\ at = "wait"
          => \/ Last(answers).resp.announce = "keep"
             \/ /\ Last(answers).resp.status # "ok" /\ Len(answers) > Chunks
                /\ answers[Len(answers) - Chunks].resp.announce = "keep"

\* While an event waits in the batch its descriptor is neither closed nor
\* given to another client, so the loop never handles a stale event.
EventsStayFresh ==
    [][\A e \in batch \cap batch' :
          e[1] # Listener => connections_'[e[1]] = connections_[e[1]]]_vars

\* A request that its client has sent completely is answered completely.
RequestsAnswered ==
    \A c \in Clients :
       nreq[c] > 0 /\ outgoing[c] = <<>> /\ sock[c] = "open" ~> Answered(c)

\* A connection whose client went away is closed.
AbandonedReclaimed ==
    \A c \in Clients : (sock[c] = "open" /\ peer[c] # "alive") ~> sock[c] = "closed"
=============================================================================
