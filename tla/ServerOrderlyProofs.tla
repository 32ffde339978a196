------------------------- MODULE ServerOrderlyProofs -------------------------
(***************************************************************************)
(* Server, where clients also stay until they have their answers and none  *)
(* is idle for too long.  Then a connection is only closed when no worker  *)
(* has its request, so a worker's descriptor is still its client's: loop   *)
(* and workers never use the buffers of a Connection together, each answer *)
(* is charged to its own client, and no client is hung up on without an    *)
(* answer that said so, and a close that is announced is kept unless the   *)
(* answer is a 429 or a 400 after one that announced keep-alive.  If their *)
(* requests are well formed too, none is answered 400.                     *)
(***************************************************************************)
EXTENDS ServerProofs, SequenceTheorems

\* What the clients are asked to do.  The connection of one that hangs up, or
\* that is idle, may be closed while a worker holds it, and its descriptor
\* given away before the worker uses it.
Orderly == OneAtATime /\ Env \cap {"fin", "reset", "idle"} = {}

\* Every request fits the read buffer.
Fits == \A shape \in Shapes : Len(Cut[shape]) <= MAX_REQUEST_SIZE

-----------------------------------------------------------------------------
(* The inductive invariant                                                  *)

\* The Connection of c is queued or a worker still has a use for it, if only
\* for its descriptor.
Busy(c) ==
    \/ \E i \in 1..Len(pool) : pool[i] = c
    \/ \E w \in Workers : wat[w] # "idle" /\ job[w] = c

\* The Connection of c is handle_read's, or handle_write's.
Receiving(c) == ~Busy(c) /\ conn[c].write_buffer = None
Sending(c) == ~Busy(c) /\ conn[c].write_buffer # None

\* Nobody is gone or overdue, so handle_read and handle_write find no end and
\* no error, and the reaper nothing to do.
CalmInv ==
    /\ \A c \in Clients : peer[c] = "alive" /\ ~conn[c].overdue
    /\ \A e \in batch : e[2] # "hup"
    /\ stale_fds = {}

\* No Connection is in use twice.
ExclusiveInv ==
    /\ \A i \in 1..Len(pool), w \in Workers : wat[w] # "idle" => job[w] # pool[i]
    /\ \A v, w \in Workers : wat[v] # "idle" /\ wat[w] # "idle" /\ job[v] = job[w] => v = w
    /\ \A w \in Workers : wat[w] = "rearm" => conn[job[w]].write_buffer # None

\* A Connection in use is mapped, by its own descriptor.
HeldInv == \A c \in Clients : Busy(c) => connections_[conn[c].fd] = c

\* Whose turn it is.
TurnInv ==
    /\ at = "recv" => Receiving(Reading)
    /\ at = "write" => Sending(Reading)
    /\ at = "erase" => cur \in Mapped /\ Receiving(Reading)
    /\ at = "insert" => epoll[cur] # "out"
    /\ \A e \in batch : e[1] # Listener =>
          /\ e[2] = "in" => Receiving(connections_[e[1]])
          /\ e[2] = "out" => Sending(connections_[e[1]])
    /\ \A f \in Mapped : epoll[f] = "out" =>
          Sending(connections_[f]) \/ (at = "erase" /\ cur = f)

\* Answers carry the address of the client they are for.
ChargedInv ==
    /\ \A w \in Workers : resp[w] # None => wat[w] = "publish" /\ resp[w].ip = job[w]
    /\ \A c \in Clients : conn[c].write_buffer # None => conn[c].write_buffer.ip = c
    /\ \A c \in Clients : \A i \in 1..Len(received[c]) : received[c][i].resp.ip = c

Turns == CalmInv /\ ExclusiveInv /\ HeldInv /\ TurnInv /\ ChargedInv

-----------------------------------------------------------------------------
(* Closing                                                                  *)

\* What is left of a request fits the read buffer.
RoomInv ==
    \A c \in Clients :
       Len(conn[c].read_buffer) + Len(inbox[c]) + Len(outgoing[c]) <= MAX_REQUEST_SIZE

\* An answer that announces keep-alive is kept.
KeepInv ==
    /\ \A w \in Workers : resp[w] # None /\ resp[w].announce = "keep" => conn[job[w]].keep_alive
    /\ \A c \in Clients : conn[c].write_buffer # None /\ conn[c].write_buffer.announce = "keep"
          => conn[c].keep_alive

\* The last chunk sent is of the answer being sent.
LastInv ==
    \A c \in Clients : conn[c].bytes_sent > 0 =>
       received[c] # <<>> /\ Last(received[c]).resp = conn[c].write_buffer

\* The client has its answers, the last of which announced the close.
ToldToClose(c) ==
    received[c] # <<>> /\ Answered(c) /\ Last(received[c]).resp.announce = "close"

ReasonInv ==
    /\ at = "erase" => ToldToClose(Reading)
    /\ at \in {"remove", "close"} => ToldToClose(fdOwner[cur])
    /\ \A c \in Clients : sock[c] = "closed" => conn[c].fd = None \/ ToldToClose(c)

Reasons == RoomInv /\ KeepInv /\ LastInv /\ ReasonInv

-----------------------------------------------------------------------------
(* What a step leaves alone                                                 *)

LEMMA BusyKept ==
    ASSUME UNCHANGED workVars PROVE \A c \in Clients : Busy(c)' <=> Busy(c)
  BY DEF workVars, Busy

LEMMA InitTurns == Init => Turns
<1> SUFFICES ASSUME Init PROVE Turns
  OBVIOUS
<1> USE DEF Init
<1>1. \A c \in Clients : conn[c].write_buffer = None /\ ~conn[c].overdue /\ ~Busy(c)
  BY DEF NewConnection, Busy
<1>2. CalmInv /\ ExclusiveInv /\ HeldInv
  BY <1>1 DEF CalmInv, ExclusiveInv, HeldInv
<1>3. TurnInv /\ ChargedInv
  BY <1>1 DEF TurnInv, ChargedInv, Mapped
<1> QED
  BY <1>2, <1>3 DEF Turns

\* Who is busy has a mapped descriptor of his own, which epoll_wait does not
\* report as writable.
LEMMA BusyHolds ==
    ASSUME Inv, Turns, NEW c \in Clients, Busy(c)
    PROVE  /\ conn[c].fd \in Mapped /\ conn[c].fd \in Fds
           /\ connections_[conn[c].fd] = c /\ fdOwner[conn[c].fd] = c
<1> USE DEF Inv
<1>1. conn[c].fd \in Fds
  BY DEF Busy, TaskInv
<1>2. connections_[conn[c].fd] = c
  BY DEF Turns, HeldInv
<1> QED
  BY <1>1, <1>2, ServerAssumption DEF Mapped, TableConsistent

\* Mapped descriptors are those of clients, each of its own.
LEMMA MappedClients ==
    ASSUME Inv
    PROVE  /\ \A f \in Mapped : f \in Fds /\ connections_[f] \in Clients
                                /\ conn[connections_[f]].fd = f /\ fdOwner[f] = connections_[f]
           /\ \A e \in batch : e[1] # Listener => e[1] \in Mapped
  BY TypeParts DEF Inv, ConnType, Mapped, TableConsistent, BatchInv

\* A step of the loop that touches no Connection and no mapped registration,
\* and enters a handler only in its turn.
LEMMA QuietFrame ==
    ASSUME Inv, Turns, UNCHANGED <<peer, received, conn, connections_, workVars>>,
           batch' \subseteq batch, stale_fds' = {}, at # "erase", at' # "erase",
           at' = "recv" => Receiving(connections_[cur']) /\ cur' \in Mapped,
           at' = "write" => Sending(connections_[cur']) /\ cur' \in Mapped,
           at' = "insert" => epoll'[cur'] # "out",
           \A f \in Mapped : epoll'[f] = "out" => epoll[f] = "out"
    PROVE  Turns'
<1> USE DEF Turns
<1>1. \A c \in Clients : /\ Busy(c)' <=> Busy(c)
                         /\ Receiving(c)' <=> Receiving(c)
                         /\ Sending(c)' <=> Sending(c)
  BY BusyKept DEF Receiving, Sending
<1>2. CalmInv' /\ ExclusiveInv' /\ HeldInv' /\ ChargedInv'
  BY <1>1 DEF CalmInv, ExclusiveInv, HeldInv, ChargedInv, workVars
<1>3. TurnInv'
  BY <1>1, MappedClients DEF TurnInv, Reading, Mapped
<1> QED
  BY <1>2, <1>3

-----------------------------------------------------------------------------
(* Steps of the clients                                                     *)

LEMMA ClientTurns ==
    ASSUME Orderly, Inv, Turns, NEW c \in Clients, ClientStep(c) PROVE Turns'
<1>1. UNCHANGED <<peer, conn, received, kernelVars, connections_, loopVars, workVars>>
  BY DEF ClientStep, Connect, BeginRequest, SendPiece, HangUp, Elapse, Orderly
<1>2. \A d \in Clients : Busy(d)' <=> Busy(d)
  BY <1>1, BusyKept
<1>3. \A d \in Clients : (Receiving(d)' <=> Receiving(d)) /\ (Sending(d)' <=> Sending(d))
  BY <1>1, <1>2 DEF Receiving, Sending
<1>4. CalmInv' /\ ExclusiveInv' /\ HeldInv' /\ ChargedInv'
  BY <1>1, <1>2 DEF Turns, CalmInv, ExclusiveInv, HeldInv, ChargedInv, workVars, loopVars
<1>5. TurnInv'
  <2>1. at \in {"recv", "write"} => Reading \in Clients
    BY ReadingType
  <2>2. at = "erase" => Reading \in Clients
    BY MappedClients DEF Turns, TurnInv, Reading
  <2> QED
    BY <1>1, <1>3, <2>1, <2>2, MappedClients
       DEF Turns, TurnInv, Reading, Mapped, loopVars, kernelVars
<1> QED
  BY <1>4, <1>5 DEF Turns

-----------------------------------------------------------------------------
(* Steps of the workers                                                     *)

\* They do not move the loop, and only make a Connection free.
LEMMA WorkerTurn ==
    ASSUME Inv, Turns, UNCHANGED <<clientVars, fdOwner, connections_, loopVars>>, SameFds,
           \A d \in Clients : Busy(d)' => Busy(d),
           \A d \in Clients : conn'[d].overdue = conn[d].overdue,
           \A d \in Clients : ~Busy(d) => conn'[d].write_buffer = conn[d].write_buffer,
           \A f \in Fds \ Mapped : epoll'[f] = epoll[f],
           \A f \in Mapped : epoll'[f] = epoll[f] \/ Sending(connections_[f])'
    PROVE  CalmInv' /\ HeldInv' /\ TurnInv'
<1> USE DEF Turns
<1>1. CalmInv' /\ HeldInv'
  BY DEF CalmInv, HeldInv, SameFds, clientVars, loopVars
<1>2. \A d \in Clients : (Receiving(d) => Receiving(d)') /\ (Sending(d) => Sending(d)')
  BY DEF Receiving, Sending
<1>3. TurnInv'
  <2>1. at \in {"recv", "write"} => Reading \in Clients
    BY ReadingType
  <2>2. at = "erase" => Reading \in Clients
    BY MappedClients DEF TurnInv, Reading
  <2>3. at = "insert" => cur \in Fds \ Mapped
    BY DEF Inv, CurInv, Mapped
  <2>4. UNCHANGED <<at, cur, batch>> /\ Reading' = Reading /\ Mapped' = Mapped
    BY DEF loopVars, Reading, Mapped
  <2>5. \A f \in Mapped : connections_[f] \in Clients
    BY MappedClients
  <2> QED
    BY <1>2, <2>1, <2>2, <2>3, <2>4, <2>5, MappedClients DEF TurnInv
<1> QED
  BY <1>1, <1>3

\* The first queued Connection goes to a worker.
LEMMA TakeTurns ==
    ASSUME Inv, Answers, Turns, NEW w \in Workers, TakeTask(w) PROVE Turns'
<1> USE DEF TakeTask
<1>1. /\ pool \in Seq(Clients) /\ pool # <<>> /\ job \in [Workers -> Clients \cup {None}]
      /\ wat \in [Workers -> {"idle", "process", "publish", "rearm"}]
  BY TypeParts DEF Inv, WorkType
<1> DEFINE h == Head(pool)
           rest == Tail(pool)
<1>2. /\ h \in Clients /\ h = pool[1]
      /\ rest \in Seq(Clients) /\ Len(pool) = Len(rest) + 1
      /\ \A i \in 1..Len(rest) : rest[i] = pool[i + 1]
  <2> HIDE DEF TakeTask
  <2> QED
    BY <1>1, FirstAndRest
<1>3. /\ job' = [job EXCEPT ![w] = h] /\ pool' = rest /\ wat' = [wat EXCEPT ![w] = "process"]
      /\ wat[w] = "idle"
      /\ UNCHANGED <<clientVars, kernelVars, connections_, conn, loopVars, resp>>
  OBVIOUS
<1> HIDE DEF h, rest, TakeTask
<1>4. Len(rest) \in Nat
  BY <1>2
<1>5. 1 \in 1..Len(pool) /\ \A i \in 1..Len(rest) : i + 1 \in 1..Len(pool) /\ i + 1 # 1
  BY <1>2, <1>4
<1>6. \A i \in 1..Len(rest) : rest[i] # h
  BY <1>2, <1>5 DEF Answers, OnceInv
<1>7. \A v \in Workers : wat[v] # "idle" => job[v] # h /\ \A i \in 1..Len(rest) : job[v] # rest[i]
  BY <1>2, <1>5 DEF Turns, ExclusiveInv
<1>8. /\ wat'[w] = "process" /\ job'[w] = h
      /\ \A v \in Workers : v # w => job'[v] = job[v] /\ wat'[v] = wat[v]
  BY <1>1, <1>3
<1>9. ExclusiveInv'
  <2>1. \A i \in 1..Len(pool'), v \in Workers : wat'[v] # "idle" => job'[v] # pool'[i]
    BY <1>3, <1>6, <1>7, <1>8
  <2>2. \A u, v \in Workers : wat'[u] # "idle" /\ wat'[v] # "idle" /\ job'[u] = job'[v] => u = v
    BY <1>7, <1>8 DEF Turns, ExclusiveInv
  <2>3. \A v \in Workers : wat'[v] = "rearm" => conn'[job'[v]].write_buffer # None
    BY <1>3, <1>8 DEF Turns, ExclusiveInv
  <2> QED
    BY <2>1, <2>2, <2>3 DEF ExclusiveInv
<1>10. ASSUME NEW d \in Clients, Busy(d)' PROVE Busy(d)
  <2>1. ASSUME NEW i \in 1..Len(rest), rest[i] = d PROVE Busy(d)
    BY <1>2, <1>5, <2>1 DEF Busy
  <2>2. ASSUME NEW v \in Workers, wat'[v] # "idle", job'[v] = d PROVE Busy(d)
    BY <1>2, <1>5, <1>8, <2>2 DEF Busy
  <2> QED
    BY <1>3, <1>10, <2>1, <2>2 DEF Busy
<1>11. CalmInv' /\ HeldInv' /\ TurnInv'
  BY <1>3, <1>10, WorkerTurn DEF SameFds, kernelVars
<1>12. ChargedInv'
  BY <1>3, <1>8 DEF Turns, ChargedInv, clientVars
<1> QED
  BY <1>9, <1>11, <1>12 DEF Turns

\* process_request asks a descriptor that is still its client's.
LEMMA ProcessTurns ==
    ASSUME Inv, Turns, NEW w \in Workers, Process(w) PROVE Turns'
<1> USE TypeParts DEF Inv
<1>0. PICK c \in Clients : c = job[w]
  BY DEF Process, TaskInv
<1> DEFINE buf == conn[c].read_buffer
           n == IF buf = <<>> THEN 0 ELSE buf[1].req
<1>1. wat[w] = "process" /\ Busy(c)
  BY <1>0 DEF Process, Busy
<1>2. /\ wat' = [wat EXCEPT ![w] = "publish"]
      /\ UNCHANGED <<clientVars, kernelVars, connections_, loopVars, pool, job>>
      /\ \E status \in Statuses, keep \in {TRUE, FALSE, WantsKeepAlive(buf)} :
            resp' = [resp EXCEPT ![w] = Response(c, n, status, keep)]
      /\ UNCHANGED conn \/ conn' = [conn EXCEPT ![c].keep_alive = WantsKeepAlive(buf)]
  BY <1>0 DEF Process, Statuses
<1>3. get_client_ip(c) = c
  BY <1>1, BusyHolds DEF get_client_ip, Turns, CalmInv
<1>4. \A d \in Clients : /\ conn'[d].fd = conn[d].fd /\ conn'[d].overdue = conn[d].overdue
                         /\ conn'[d].write_buffer = conn[d].write_buffer
  <2>1. \A d \in Clients : conn[d] \in Connections
    BY DEF ConnType
  <2>2. \A d \in Clients : conn'[d] = conn[d] 
                                \/ conn'[d] = [conn[d] EXCEPT !.keep_alive = WantsKeepAlive(buf)]
    BY <1>2 DEF ConnType
  <2> QED
    BY <2>1, <2>2 DEF Connections
<1>5. /\ \A v \in Workers : wat'[v] # "idle" <=> wat[v] # "idle"
      /\ \A v \in Workers : v # w => wat'[v] = wat[v] /\ resp'[v] = resp[v]
      /\ wat'[w] = "publish" /\ resp'[w].ip = c
  BY <1>1, <1>2, <1>3 DEF WorkType, Response
<1>6. \A d \in Clients : Busy(d)' => Busy(d)
  BY <1>2, <1>5 DEF Busy
<1>7. CalmInv' /\ HeldInv' /\ TurnInv'
  BY <1>2, <1>4, <1>6, WorkerTurn DEF SameFds, kernelVars
<1>8. ExclusiveInv'
  <2>1. \A v \in Workers : wat[v] = "rearm" => job[v] \in Clients
    BY DEF TaskInv
  <2> QED
    BY <1>2, <1>4, <1>5, <2>1 DEF Turns, ExclusiveInv
<1>9. ChargedInv'
  BY <1>0, <1>2, <1>4, <1>5 DEF Turns, ChargedInv, clientVars
<1> QED
  BY <1>7, <1>8, <1>9 DEF Turns

LEMMA PublishTurns ==
    ASSUME Inv, Turns, NEW w \in Workers, Publish(w) PROVE Turns'
<1> USE TypeParts DEF Inv
<1>0. PICK c \in Clients : c = job[w]
  BY DEF Publish, TaskInv
<1>1. /\ wat[w] = "publish" /\ Busy(c) /\ resp[w] \in Responses /\ conn[c] \in Connections
  BY <1>0 DEF Publish, Busy, TaskInv, ConnType
<1>2. /\ conn' = [conn EXCEPT ![c] = AfterPublish(@, resp[w])]
      /\ resp' = [resp EXCEPT ![w] = None] /\ wat' = [wat EXCEPT ![w] = "rearm"]
      /\ UNCHANGED <<clientVars, kernelVars, connections_, loopVars, pool, job>>
  BY <1>0 DEF Publish, Target
<1>3. /\ conn'[c].write_buffer = resp[w] /\ conn'[c].fd = conn[c].fd
      /\ conn'[c].overdue = conn[c].overdue
      /\ \A d \in Clients : d # c => conn'[d] = conn[d]
  BY <1>1, <1>2 DEF AfterPublish, Connections, ConnType
<1>4. /\ \A v \in Workers : wat'[v] # "idle" <=> wat[v] # "idle"
      /\ \A v \in Workers : v # w => wat'[v] = wat[v] /\ resp'[v] = resp[v]
      /\ wat'[w] = "rearm" /\ resp'[w] = None
  BY <1>1, <1>2 DEF WorkType
<1>5. \A d \in Clients : Busy(d)' => Busy(d)
  BY <1>2, <1>4 DEF Busy
<1>6. CalmInv' /\ HeldInv' /\ TurnInv'
  BY <1>1, <1>2, <1>3, <1>5, WorkerTurn DEF SameFds, kernelVars
<1>7. resp[w] # None
  BY <1>1, NoneAssumption
<1>8. ExclusiveInv'
  <2>1. \A v \in Workers : wat[v] = "rearm" => job[v] \in Clients
    BY DEF TaskInv
  <2> QED
    BY <1>0, <1>2, <1>3, <1>4, <1>7, <2>1 DEF Turns, ExclusiveInv
<1>9. ChargedInv'
  BY <1>0, <1>2, <1>3, <1>4, <1>7 DEF Turns, ChargedInv, clientVars
<1> QED
  BY <1>6, <1>8, <1>9 DEF Turns

\* The worker waits for its own client's descriptor to become writable.
LEMMA RearmTurns ==
    ASSUME Inv, Turns, NEW w \in Workers, Rearm(w) PROVE Turns'
<1> USE TypeParts DEF Inv
<1>0. PICK c \in Clients : c = job[w]
  BY DEF Rearm, TaskInv
<1>1. wat[w] = "rearm" /\ Busy(c) /\ conn[c].write_buffer # None
  BY <1>0 DEF Rearm, Busy, Turns, ExclusiveInv
<1>2. PICK f \in Fds : f = conn[c].fd /\ f \in Mapped /\ connections_[f] = c /\ fdOwner[f] = c
  BY <1>1, BusyHolds
<1>3. /\ epoll' = [epoll EXCEPT ![f] = "out"]
      /\ job' = [job EXCEPT ![w] = None] /\ wat' = [wat EXCEPT ![w] = "idle"]
      /\ UNCHANGED <<clientVars, fdOwner, connections_, conn, loopVars, pool, resp>>
  BY <1>0, <1>2, ServerAssumption DEF Rearm, EpollSet, RearmMode
<1>4. /\ wat'[w] = "idle"
      /\ \A v \in Workers : v # w => wat'[v] = wat[v] /\ job'[v] = job[v]
  BY <1>3 DEF WorkType
<1>5. \A d \in Clients : Busy(d)' => Busy(d)
  BY <1>3, <1>4 DEF Busy
<1>6. Sending(c)'
  <2>1. \A i \in 1..Len(pool) : pool[i] # c
    BY <1>0, <1>1 DEF Turns, ExclusiveInv
  <2>2. \A v \in Workers : v # w /\ wat[v] # "idle" => job[v] # c
    BY <1>0, <1>1 DEF Turns, ExclusiveInv
  <2> QED
    BY <1>1, <1>3, <1>4, <2>1, <2>2 DEF Sending, Busy
<1>7. CalmInv' /\ HeldInv' /\ TurnInv'
  <2>1. \A g \in Fds : g # f => epoll'[g] = epoll[g]
    BY <1>3 DEF KernelType
  <2>2. \A g \in Mapped : epoll'[g] = epoll[g] \/ Sending(connections_[g])'
    <3>1. ASSUME NEW g \in Mapped PROVE epoll'[g] = epoll[g] \/ Sending(connections_[g])'
      <4>1. CASE g = f
        <5>1. connections_[g]' = c
          BY <1>2, <1>3, <4>1
        <5> QED
          BY <1>3, <1>6, <5>1 DEF Sending, Busy
      <4> QED
        BY <2>1, <4>1 DEF Mapped
    <3> QED
      BY <3>1
  <2> QED
    BY <1>2, <1>3, <1>5, <2>1, <2>2, WorkerTurn DEF SameFds
<1>8. ExclusiveInv' /\ ChargedInv'
  BY <1>1, <1>3, <1>4 DEF Turns, ExclusiveInv, ChargedInv, clientVars
<1> QED
  BY <1>7, <1>8 DEF Turns

LEMMA WorkerTurns ==
    ASSUME Inv, Answers, Turns, NEW w \in Workers, WorkerStep(w) PROVE Turns'
  BY TakeTurns, ProcessTurns, PublishTurns, RearmTurns DEF WorkerStep

-----------------------------------------------------------------------------
(* Steps of the event loop                                                  *)

\* epoll_wait reports input of a connection only while it has some to read,
\* and room for output only where a worker has asked for it.
LEMMA WaitTurns ==
    ASSUME Inv, Answers, Turns, Wait PROVE Turns'
<1> USE TypeParts DEF Inv, Wait
<1>1. ASSUME NEW e \in batch', e[1] # Listener
      PROVE  /\ e[1] \in Mapped /\ e[2] # "hup"
             /\ e[2] = "in" => Receiving(connections_[e[1]])
             /\ e[2] = "out" => Sending(connections_[e[1]])
  <2> DEFINE f == e[1]
             c == fdOwner[f]
  <2>1. f \in Fds /\ epoll[f] # "none" /\ e[2] \in EventsOf(f)
    BY <1>1 DEF ReadyEvents, EventsOf
  <2>2. c \in Clients /\ connections_[f] = c /\ f \in Mapped /\ peer[c] = "alive"
    BY <2>1 DEF KernelType, TableConsistent, Turns, CalmInv
  <2>3. e[2] = "in" => inbox[c] # <<>>
    BY <2>1, <2>2 DEF EventsOf
  <2>4. e[2] = "in" => Receiving(c)
    <3>1. inbox[c] # <<>> => ~Dispatched(c) /\ conn[c].write_buffer = None
      BY <2>2 DEF Answers, Stage, DispatchInv, AnswerInv
    <3>2. \A w \in Workers : wat[w] = "rearm" /\ job[w] = c => conn[c].write_buffer # None
      BY DEF Turns, ExclusiveInv
    <3>3. Busy(c) => Dispatched(c) \/ \E w \in Workers : wat[w] = "rearm" /\ job[w] = c
      BY DEF Busy, Dispatched, AtWork, WorkType
    <3> QED
      BY <2>3, <3>1, <3>2, <3>3 DEF Receiving
  <2>5. e[2] # "hup" /\ (e[2] = "out" => epoll[f] = "out")
    BY <2>1, <2>2 DEF EventsOf
  <2> QED
    BY <2>2, <2>4, <2>5 DEF Turns, TurnInv
<1>2. \A e \in batch' : e[2] # "hup"
  <2>1. Listener \notin Fds
    BY ServerAssumption DEF Listener
  <2>2. \A e \in batch' : e[1] = Listener => e[2] = "in"
    BY <2>1 DEF ReadyEvents
  <2> QED
    BY <1>1, <2>2
<1>3. \A c \in Clients : /\ Busy(c)' <=> Busy(c)
                         /\ Receiving(c)' <=> Receiving(c)
                         /\ Sending(c)' <=> Sending(c)
  BY BusyKept DEF Receiving, Sending
<1>4. CalmInv' /\ ExclusiveInv' /\ HeldInv' /\ ChargedInv'
  BY <1>2, <1>3 DEF Turns, CalmInv, ExclusiveInv, HeldInv, ChargedInv, workVars, clientVars
<1>5. TurnInv'
  <2>1. \A f \in Mapped : connections_[f] \in Clients
    BY MappedClients
  <2> QED
    BY <1>1, <1>3, <2>1 DEF Turns, TurnInv, Mapped, kernelVars
<1> QED
  BY <1>4, <1>5 DEF Turns

\* The loop takes the event of a connection whose turn it is.
LEMMA DispatchTurns ==
    ASSUME Inv, Turns, Dispatch PROVE Turns'
<1> USE TypeParts DEF Inv
<1>1. PICK e \in batch :
        /\ batch' = batch \ {e}
        /\ CASE e[1] = Listener -> Goto("accept", None)
             [] e[1] # Listener /\ e[2] = "hup" ->
                   GotoClose(e[1], "dispatch") /\ UNCHANGED stale_fds
             [] e[1] # Listener /\ e[2] = "in" ->
                   Goto(IF connections_[e[1]] = None THEN "dispatch" ELSE "recv", e[1])
             [] e[1] # Listener /\ e[2] = "out" ->
                   Goto(IF connections_[e[1]] = None THEN "dispatch" ELSE "write", e[1])
  BY DEF Dispatch
<1>2. e[2] \in {"in", "out"}
  BY DEF LoopType, Turns, CalmInv
<1>3. /\ at' \in {"accept", "dispatch", "recv", "write"} /\ UNCHANGED stale_fds
      /\ at' = "recv" => e[1] # Listener /\ cur' = e[1] /\ e[2] = "in"
      /\ at' = "write" => e[1] # Listener /\ cur' = e[1] /\ e[2] = "out"
  BY <1>1, <1>2 DEF Goto
<1>4. at = "dispatch" /\ UNCHANGED <<clientVars, kernelVars, connections_, conn, workVars>>
  BY DEF Dispatch
<1>5. e[1] # Listener => /\ e[1] \in Mapped
                         /\ e[2] = "in" => Receiving(connections_[e[1]])
                         /\ e[2] = "out" => Sending(connections_[e[1]])
  BY MappedClients DEF Turns, TurnInv
<1>6. stale_fds' = {} /\ batch' \subseteq batch
  BY <1>1, <1>3 DEF Turns, CalmInv
<1> QED
  BY <1>3, <1>4, <1>5, <1>6, QuietFrame DEF clientVars, kernelVars

\* The loop finds no error and nobody to reap.
LEMMA NoErrors ==
    ASSUME Inv, Turns
    PROVE  /\ ~RecvEnd /\ ~WriteNothing /\ ~SendError /\ ~Reap
           /\ Dispatch => at' # "erase"
           /\ \A c \in Clients : ~Reapable(c)
<1> USE TypeParts DEF Inv
<1>1. at \in {"recv", "write"} => Reading \in Clients /\ peer[Reading] = "alive"
  BY ReadingType DEF Turns, CalmInv
<1>2. at = "write" => conn[Reading].write_buffer # None
  BY DEF Turns, TurnInv, Sending
<1>3. stale_fds = {} /\ \A c \in Clients : ~Reapable(c)
  BY DEF Turns, CalmInv, Reapable
<1>4. \A e \in batch : e[2] # "hup"
  BY DEF Turns, CalmInv
<1>5. Dispatch => at' # "erase"
  BY <1>4 DEF Dispatch, Goto, LoopType
<1> QED
  BY <1>1, <1>2, <1>3, <1>5 DEF RecvEnd, WriteNothing, SendError, Reap

\* handle_accept before the insertion, the end of the handlers and of
\* close_connection, and the reaper, who finds nobody.
LEMMA QuietTurns ==
    ASSUME Inv, Turns,
           \/ AcceptNone \/ AcceptReject \/ AcceptRegister \/ \E c \in Clients : Accept4(c)
           \/ RecvEnd \/ WriteNothing \/ SendAgain \/ SendError
           \/ EpollRemove \/ Close \/ Scan \/ Reap \/ ReapEnd
    PROVE  Turns'
<1> USE TypeParts DEF Inv
<1>3. stale_fds = {} /\ \A c \in Clients : ~Reapable(c)
  BY NoErrors DEF Turns, CalmInv
<1>4. ~RecvEnd /\ ~WriteNothing /\ ~SendError /\ ~Reap
  BY NoErrors
<1>5. at \in {"limit", "remove", "close"} => cur \in Fds \ Mapped
  BY DEF CurInv, Mapped
<1>6. ASSUME UNCHANGED <<peer, received, conn, connections_, batch, workVars>>, stale_fds' = {},
             at # "erase", at' \notin {"erase", "recv", "write"},
             at' = "insert" => epoll'[cur'] # "out",
             \A f \in Mapped : epoll'[f] = epoll[f]
      PROVE  Turns'
  BY <1>6, QuietFrame
<1>7. CASE AcceptNone \/ SendAgain \/ ReapEnd
  BY <1>3, <1>6, <1>7 DEF AcceptNone, SendAgain, ReapEnd, Goto, clientVars, kernelVars
<1>8. CASE Scan
  <2>1. stale_fds' = {}
    BY <1>3, <1>8, MappedClients DEF Scan
  <2> QED
    BY <1>6, <1>8, <2>1 DEF Scan, BatchHandled, clientVars, kernelVars
<1>9. CASE AcceptReject \/ Close
  BY <1>3, <1>5, <1>6, <1>9 DEF AcceptReject, Close, CloseFd, Goto, KernelType, Mapped, LoopType
<1>10. CASE AcceptRegister
  <2>1. epoll' = [epoll EXCEPT ![cur] = "in"] \/ UNCHANGED epoll
    BY <1>10 DEF AcceptRegister, EpollSet, KernelType
  <2>2. epoll'[cur] # "out" /\ \A f \in Mapped : epoll'[f] = epoll[f]
    <3>1. cur \in Fds \ Mapped /\ fdOwner[cur] # None
      BY <1>5, <1>10 DEF AcceptRegister, CurInv
    <3>2. epoll' = [epoll EXCEPT ![cur] = "in"]
      BY <1>10, <3>1 DEF AcceptRegister, EpollSet, KernelType
    <3> QED
      BY <3>1, <3>2 DEF KernelType, Mapped
  <2> QED
    BY <1>3, <1>6, <1>10, <2>2 DEF AcceptRegister, Goto, clientVars
<1>11. CASE \E c \in Clients : Accept4(c)
  <2>1. /\ UNCHANGED <<peer, received, conn, connections_, batch, workVars, epoll, stale_fds>>
        /\ at = "accept" /\ at' = "limit"
    BY <1>11 DEF Accept4, Goto
  <2> QED
    BY <1>3, <1>6, <2>1
<1>12. CASE EpollRemove
  BY <1>3, <1>5, <1>6, <1>12 DEF EpollRemove, KernelType, Mapped, clientVars
<1> QED
  BY <1>4, <1>7, <1>8, <1>9, <1>10, <1>11, <1>12

\* handle_read takes a piece, or refuses the request: no worker has it.
LEMMA RecvTurns ==
    ASSUME Inv, Turns, RecvData PROVE Turns'
<1> USE TypeParts DEF Inv
<1>1. PICK c \in Clients : c = Reading
  BY ReadingType DEF RecvData
<1>2. /\ at = "recv" /\ Receiving(c) /\ cur \in Mapped /\ conn[c] \in Connections
      /\ UNCHANGED <<sock, peer, outgoing, nreq, received, kernelVars, connections_,
                     batch, stale_fds, workVars>>
      /\ UNCHANGED cur
  BY <1>1, ReadingType DEF RecvData, GotoClose, Turns, TurnInv
<1> DEFINE k == [conn[c] EXCEPT !.read_buffer = Append(@, Head(inbox[c])), !.overdue = FALSE]
<1>3. \/ UNCHANGED conn /\ at' = "erase"
      \/ conn' = [conn EXCEPT ![c] = k] /\ UNCHANGED at
  <2>1. CASE TooLarge(c)
    BY <1>1, <2>1 DEF RecvData, GotoClose
  <2>2. CASE ~TooLarge(c)
    BY <1>1, <2>2 DEF RecvData
  <2> QED
    BY <2>1, <2>2
<1>4. k.write_buffer = conn[c].write_buffer /\ ~k.overdue /\ k.fd = conn[c].fd
  BY <1>2 DEF Connections
<1> HIDE DEF k
<1>5. \A d \in Clients : /\ conn'[d].write_buffer = conn[d].write_buffer
                         /\ ~conn'[d].overdue /\ conn'[d].fd = conn[d].fd
  BY <1>3, <1>4 DEF ConnType, Turns, CalmInv
<1>6. \A d \in Clients : /\ Busy(d)' <=> Busy(d)
                         /\ Receiving(d)' <=> Receiving(d)
                         /\ Sending(d)' <=> Sending(d)
  BY <1>2, <1>5, BusyKept DEF Receiving, Sending
<1>7. CalmInv' /\ HeldInv' /\ ChargedInv'
  BY <1>2, <1>5, <1>6 DEF Turns, CalmInv, HeldInv, ChargedInv, workVars
<1>8. ExclusiveInv'
  <2>1. \A v \in Workers : wat[v] = "rearm" => job[v] \in Clients
    BY DEF TaskInv
  <2> QED
    BY <1>2, <1>5, <2>1 DEF Turns, ExclusiveInv, workVars
<1>9. TurnInv'
  <2>1. Reading' = c /\ Mapped' = Mapped
    BY <1>1, <1>2 DEF Reading, Mapped
  <2>2. \A f \in Mapped : connections_[f] \in Clients
    BY MappedClients
  <2>3. at' \in {"recv", "erase"}
    BY <1>2, <1>3
  <2> QED
    BY <1>2, <1>6, <2>1, <2>2, <2>3, MappedClients DEF Turns, TurnInv, kernelVars
<1> QED
  BY <1>7, <1>8, <1>9 DEF Turns

\* handle_read hands the Connection over, and turns away from it.
LEMMA RecvAgainTurns ==
    ASSUME Inv, Turns, RecvAgain PROVE Turns'
<1> USE TypeParts DEF Inv
<1>1. PICK c \in Clients : c = Reading
  BY ReadingType DEF RecvAgain
<1>2. /\ at = "recv" /\ at' = "dispatch" /\ Receiving(c) /\ conn[c].fd = cur
      /\ connections_[cur] = c
      /\ \A e \in batch : e[1] # cur
      /\ UNCHANGED <<clientVars, kernelVars, connections_, conn, batch, wat, job, resp, stale_fds>>
      /\ pool' = pool \/ pool' = Append(pool, c)
  BY <1>1, ReadingType DEF RecvAgain, Goto, Turns, TurnInv, Reading
<1>3. CASE pool' = pool
  BY <1>2, <1>3, QuietFrame DEF Turns, CalmInv, clientVars, kernelVars, workVars
<1>4. CASE pool' = Append(pool, c)
  <2>1. /\ pool \in Seq(Clients) /\ Len(pool) \in Nat
        /\ Len(pool') = Len(pool) + 1 /\ pool'[Len(pool) + 1] = c
        /\ \A i \in 1..Len(pool) : pool'[i] = pool[i]
    BY <1>4 DEF WorkType
  <2>2. \A i \in 1..Len(pool') : i \in 1..Len(pool) \/ i = Len(pool) + 1
    BY <2>1
  <2>3. \A d \in Clients : d # c => (Busy(d)' <=> Busy(d))
    <3>1. ASSUME NEW d \in Clients, d # c PROVE Busy(d)' <=> Busy(d)
      <4>1. (\E i \in 1..Len(pool') : pool'[i] = d) <=> (\E i \in 1..Len(pool) : pool[i] = d)
        BY <2>1, <3>1
      <4> QED
        BY <1>2, <4>1 DEF Busy
    <3> QED
      BY <3>1
  <2>4. \A d \in Clients : d # c => (Receiving(d)' <=> Receiving(d)) /\ (Sending(d)' <=> Sending(d))
    BY <1>2, <2>3 DEF Receiving, Sending
  <2>5. \A v \in Workers : wat[v] # "idle" => job[v] # c
    BY <1>2 DEF Receiving, Busy
  <2>6. CalmInv' /\ ChargedInv'
    BY <1>2 DEF Turns, CalmInv, ChargedInv, clientVars
  <2>7. HeldInv'
    BY <1>2, <2>3 DEF Turns, HeldInv
  <2>8. ExclusiveInv'
    BY <1>2, <2>1, <2>2, <2>5 DEF Turns, ExclusiveInv
  <2>9. TurnInv'
    <3>1. \A f \in Mapped : /\ connections_[f] \in Clients
                            /\ connections_[f] = c => f = cur /\ ~Sending(c)
      BY <1>2, MappedClients DEF Receiving, Sending
    <3>2. \A e \in batch : e[1] # Listener => e[1] \in Mapped /\ connections_[e[1]] # c
      BY <1>2, <3>1, MappedClients
    <3> QED
      BY <1>2, <2>4, <3>1, <3>2 DEF Turns, TurnInv, Mapped, kernelVars
  <2> QED
    BY <2>6, <2>7, <2>8, <2>9 DEF Turns
<1> QED
  BY <1>2, <1>3, <1>4

\* handle_write sends a chunk with its own client's address, or is done and
\* goes back to reading or closes: no worker has the Connection.
LEMMA WriteTurns ==
    ASSUME Inv, Turns, SendChunk \/ WriteDone PROVE Turns'
<1> USE TypeParts DEF Inv
<1>1. PICK c \in Clients : c = Reading
  BY ReadingType DEF SendChunk, WriteDone
<1>2. /\ at = "write" /\ Sending(c) /\ cur \in Mapped /\ conn[c] \in Connections
      /\ conn[c].fd = cur /\ connections_[cur] = c /\ fdOwner[cur] = c
      /\ \A e \in batch : e[1] # cur
      /\ UNCHANGED <<peer, fdOwner, connections_, batch, stale_fds, workVars>>
      /\ \A d \in Clients : Busy(d)' <=> Busy(d)
  BY <1>1, ReadingType, BusyKept
     DEF SendChunk, WriteDone, Goto, GotoClose, Turns, TurnInv, Reading, kernelVars, loopVars,
         clientVars
<1>3. CASE SendChunk
  <2> DEFINE k == [conn[c] EXCEPT !.bytes_sent = NextOffset(conn[c])]
             m == [resp |-> conn[c].write_buffer, k |-> conn[c].bytes_sent + 1]
  <2>1. /\ conn' = [conn EXCEPT ![c] = k] /\ received' = [received EXCEPT ![c] = Append(@, m)]
        /\ UNCHANGED <<epoll, loopVars>>
    BY <1>1, <1>3 DEF SendChunk, kernelVars
  <2>2. /\ k.write_buffer = conn[c].write_buffer /\ k.overdue = conn[c].overdue
        /\ k.fd = conn[c].fd /\ m.resp.ip = c
    BY <1>2 DEF Connections, Sending, Turns, ChargedInv
  <2> HIDE DEF k, m
  <2>3. \A d \in Clients : /\ conn'[d].write_buffer = conn[d].write_buffer
                           /\ conn'[d].overdue = conn[d].overdue /\ conn'[d].fd = conn[d].fd
    BY <2>1, <2>2 DEF ConnType
  <2>4. \A d \in Clients : (Receiving(d)' <=> Receiving(d)) /\ (Sending(d)' <=> Sending(d))
    BY <1>2, <2>3 DEF Receiving, Sending
  <2>5. CalmInv' /\ HeldInv'
    BY <1>2, <2>3 DEF Turns, CalmInv, HeldInv
  <2>6. ExclusiveInv'
    <3>1. \A v \in Workers : wat[v] = "rearm" => job[v] \in Clients
      BY DEF TaskInv
    <3> QED
      BY <1>2, <2>3, <3>1 DEF Turns, ExclusiveInv, workVars
  <2>7. TurnInv'
    <3>1. Reading' = c /\ Mapped' = Mapped /\ at' = at /\ cur' = cur
      BY <1>1, <1>2, <2>1 DEF Reading, Mapped, loopVars
    <3> QED
      BY <1>2, <2>1, <2>4, <3>1, MappedClients DEF Turns, TurnInv
  <2>8. ChargedInv'
    <3>1. \A d \in Clients : d # c => received'[d] = received[d]
      BY <2>1 DEF ClientType
    <3>2. \A i \in 1..Len(received'[c]) : received'[c][i].resp.ip = c
      <4>1. PICK r \in Seq([resp : Responses, k : 1..Chunks]) : r = received[c]
        BY DEF ClientType
      <4>2. received'[c] = Append(r, m)
        BY <2>1, <4>1 DEF ClientType
      <4>3. \A i \in 1..Len(r) : r[i].resp.ip = c
        BY <4>1 DEF Turns, ChargedInv
      <4>4. PICK n \in Nat : n = Len(r)
        BY <4>1
      <4>5. Len(Append(r, m)) = n + 1 /\ Append(r, m)[n + 1] = m
            /\ \A i \in 1..n : Append(r, m)[i] = r[i]
        BY <4>1, <4>4
      <4>6. \A i \in 1..(n + 1) : i \in 1..n \/ i = n + 1
        OBVIOUS
      <4> QED
        BY <2>2, <4>2, <4>3, <4>4, <4>5, <4>6
    <3> QED
      BY <1>2, <2>3, <3>1, <3>2 DEF Turns, ChargedInv, workVars
  <2> QED
    BY <2>5, <2>6, <2>7, <2>8 DEF Turns
<1>4. CASE WriteDone
  <2> DEFINE k == [conn[c] EXCEPT !.write_buffer = None, !.bytes_sent = 0, !.is_writing = FALSE]
  <2>1. /\ conn' = [conn EXCEPT ![c] = k] /\ UNCHANGED clientVars
        /\ \/ at' = "dispatch" /\ epoll' = [epoll EXCEPT ![cur] = "in"]
           \/ at' = "erase" /\ UNCHANGED <<cur, epoll>>
    BY <1>1, <1>2, <1>4, ServerAssumption DEF WriteDone, EpollSet, Goto, GotoClose
  <2>2. k.write_buffer = None /\ k.overdue = conn[c].overdue /\ k.fd = conn[c].fd
    BY <1>2 DEF Connections
  <2> HIDE DEF k
  <2>3. /\ conn'[c].write_buffer = None /\ \A d \in Clients : d # c => conn'[d] = conn[d]
        /\ \A d \in Clients : conn'[d].overdue = conn[d].overdue /\ conn'[d].fd = conn[d].fd
    BY <2>1, <2>2 DEF ConnType
  <2>4. /\ Receiving(c)'
        /\ \A d \in Clients : d # c =>
              (Receiving(d)' <=> Receiving(d)) /\ (Sending(d)' <=> Sending(d))
    BY <1>2, <2>3 DEF Receiving, Sending
  <2>5. CalmInv' /\ HeldInv'
    BY <1>2, <2>1, <2>3 DEF Turns, CalmInv, HeldInv, clientVars
  <2>6. ExclusiveInv'
    <3>1. \A v \in Workers : wat[v] = "rearm" => job[v] \in Clients /\ job[v] # c
      BY <1>2 DEF TaskInv, Sending, Busy
    <3> QED
      BY <1>2, <2>3, <3>1 DEF Turns, ExclusiveInv, workVars
  <2>7. TurnInv'
    <3>1. \A f \in Mapped : connections_[f] \in Clients /\ (f # cur => connections_[f] # c)
      BY <1>2, MappedClients
    <3>2. \A e \in batch : e[1] # Listener => e[1] \in Mapped /\ connections_[e[1]] # c
      BY <1>2, <3>1, MappedClients
    <3>3. \A f \in Mapped : f # cur => epoll'[f] = epoll[f]
      BY <2>1 DEF KernelType, Mapped
    <3>4. epoll'[cur] = "out" => at' = "erase" /\ cur' = cur
      BY <1>2, <2>1 DEF KernelType, Mapped
    <3>5. Mapped' = Mapped /\ at' \in {"dispatch", "erase"}
          /\ (at' = "erase" => cur' = cur /\ Reading' = c)
      BY <1>1, <1>2, <2>1 DEF Mapped, Reading
    <3> QED
      BY <1>2, <2>4, <3>1, <3>2, <3>3, <3>4, <3>5 DEF Turns, TurnInv
  <2>8. ChargedInv'
    BY <1>2, <2>1, <2>3 DEF Turns, ChargedInv, clientVars, workVars
  <2> QED
    BY <2>5, <2>6, <2>7, <2>8 DEF Turns
<1> QED
  BY <1>3, <1>4

\* A new Connection is nobody's yet.
LEMMA InsertTurns ==
    ASSUME Inv, Answers, Turns, AcceptInsert PROVE Turns'
<1> USE TypeParts DEF Inv
<1>1. PICK c \in Clients : c = fdOwner[cur]
  BY DEF AcceptInsert, CurInv, KernelType
<1>2. /\ connections_' = [connections_ EXCEPT ![cur] = c]
      /\ conn' = [conn EXCEPT ![c] = NewConnection(cur)]
      /\ at = "insert" /\ at' = "accept" /\ cur \in Fds /\ cur \notin Mapped
      /\ epoll[cur] # "out" /\ conn[c].fd = None
      /\ UNCHANGED <<clientVars, kernelVars, batch, workVars, stale_fds>>
  BY <1>1 DEF AcceptInsert, Goto, CurInv, Mapped, Turns, TurnInv, Answers, FreshInv
<1>3. ~Busy(c)
  BY <1>2, ServerAssumption DEF Busy, TaskInv
<1>4. /\ conn'[c].write_buffer = None /\ ~conn'[c].overdue
      /\ \A d \in Clients : d # c => conn'[d] = conn[d]
  BY <1>2 DEF ConnType, NewConnection
<1>5. \A d \in Clients : Busy(d)' <=> Busy(d)
  BY <1>2, BusyKept
<1>6. \A d \in Clients : d # c => (Receiving(d)' <=> Receiving(d)) /\ (Sending(d)' <=> Sending(d))
  BY <1>4, <1>5 DEF Receiving, Sending
<1>7. CalmInv'
  BY <1>2, <1>4 DEF Turns, CalmInv, clientVars
<1>8. HeldInv'
  <2>1. \A d \in Clients : Busy(d) => d # c /\ connections_[conn[d].fd] = d /\ conn[d].fd # cur
    BY <1>2, <1>3, BusyHolds
  <2>2. \A f \in Fds : f # cur => connections_'[f] = connections_[f]
    BY <1>2 DEF ConnType
  <2> QED
    BY <1>4, <1>5, <2>1, <2>2, BusyHolds DEF HeldInv
<1>9. ExclusiveInv'
  <2>1. \A v \in Workers : wat[v] = "rearm" => job[v] \in Clients /\ job[v] # c
    BY <1>3 DEF TaskInv, Busy
  <2> QED
    BY <1>2, <1>4, <2>1 DEF Turns, ExclusiveInv, workVars
<1>10. TurnInv'
  <2>1. \A f \in Mapped : f # cur /\ connections_'[f] = connections_[f] /\ connections_[f] # c
    BY <1>2, ServerAssumption, MappedClients DEF ConnType
  <2>2. Mapped' = Mapped \cup {cur}
    BY <1>2, ServerAssumption DEF Mapped, ConnType
  <2> QED
    BY <1>2, <1>6, <2>1, <2>2, MappedClients DEF Turns, TurnInv, kernelVars
<1>11. ChargedInv'
  BY <1>2, <1>4 DEF Turns, ChargedInv, clientVars, workVars
<1> QED
  BY <1>7, <1>8, <1>9, <1>10, <1>11 DEF Turns

\* close_connection takes a Connection out of the map that no worker has.
LEMMA EraseTurns ==
    ASSUME Inv, Turns, Erase PROVE Turns'
<1> USE TypeParts DEF Inv
<1>1. PICK c \in Clients : c = connections_[cur]
  BY MappedClients DEF Erase, Turns, TurnInv
<1>2. /\ connections_' = [connections_ EXCEPT ![cur] = None] /\ Receiving(c)
      /\ at = "erase" /\ at' = "remove" /\ cur \in Mapped /\ \A e \in batch : e[1] # cur
      /\ UNCHANGED <<clientVars, kernelVars, conn, batch, stale_fds, workVars>>
  BY <1>1, ServerAssumption DEF Erase, WithoutEntry, BatchInv, Turns, TurnInv, Reading
<1>3. \A d \in Clients : /\ Busy(d)' <=> Busy(d)
                         /\ Receiving(d)' <=> Receiving(d)
                         /\ Sending(d)' <=> Sending(d)
  BY <1>2, BusyKept DEF Receiving, Sending
<1>4. CalmInv' /\ ExclusiveInv' /\ ChargedInv'
  BY <1>2 DEF Turns, CalmInv, ExclusiveInv, ChargedInv, clientVars, workVars
<1>5. HeldInv'
  <2>1. \A d \in Clients : Busy(d) => conn[d].fd \in Fds /\ conn[d].fd # cur
    BY <1>1, <1>2, BusyHolds DEF Receiving
  <2> QED
    BY <1>2, <1>3, <2>1 DEF Turns, HeldInv, ConnType
<1>6. TurnInv'
  <2>1. Mapped' = Mapped \ {cur} /\ \A f \in Mapped' : connections_'[f] = connections_[f]
    BY <1>2 DEF Mapped, ConnType
  <2>2. \A e \in batch : e[1] # Listener => e[1] \in Mapped'
    BY <1>2, <2>1, MappedClients
  <2>3. \A f \in Mapped : connections_[f] \in Clients
    BY MappedClients
  <2> QED
    BY <1>2, <1>3, <2>1, <2>2, <2>3 DEF Turns, TurnInv, kernelVars
<1> QED
  BY <1>4, <1>5, <1>6 DEF Turns

LEMMA NextTurns ==
    ASSUME Orderly, Inv, Answers, Turns, [Next]_vars PROVE Turns'
<1>1. CASE UNCHANGED vars
  <2>1. /\ UNCHANGED <<peer, received, conn, connections_, batch, workVars, at, cur, epoll, stale_fds>>
    BY <1>1 DEF vars, clientVars, loopVars, kernelVars
  <2>2. \A c \in Clients : /\ Busy(c)' <=> Busy(c)
                           /\ Receiving(c)' <=> Receiving(c)
                           /\ Sending(c)' <=> Sending(c)
    BY <2>1, BusyKept DEF Receiving, Sending
  <2>3. CalmInv' /\ ExclusiveInv' /\ HeldInv' /\ ChargedInv'
    BY <2>1, <2>2 DEF Turns, CalmInv, ExclusiveInv, HeldInv, ChargedInv, workVars
  <2>4. TurnInv'
    <3>1. at \in {"recv", "write"} => Reading \in Clients
      BY ReadingType
    <3>2. at = "erase" => Reading \in Clients
      BY MappedClients DEF Turns, TurnInv, Reading
    <3>3. Mapped' = Mapped /\ Reading' = Reading
      BY <2>1 DEF Mapped, Reading
    <3> QED
      BY <2>1, <2>2, <3>1, <3>2, <3>3, MappedClients DEF Turns, TurnInv
  <2> QED
    BY <2>3, <2>4 DEF Turns
<1>2. CASE LoopStep
  BY <1>2, WaitTurns, DispatchTurns, QuietTurns, RecvTurns, RecvAgainTurns, WriteTurns,
     InsertTurns, EraseTurns DEF LoopStep
<1> QED
  BY <1>1, <1>2, ClientTurns, WorkerTurns DEF Next

LEMMA AnswersInvariance == ASSUME OneAtATime PROVE Spec => []Answers
  BY InitAnswers, NextAnswers, Invariance, PTL DEF Spec

LEMMA TurnsInvariance == ASSUME Orderly PROVE Spec => []Turns
<1>1. Spec => []Answers
  BY AnswersInvariance DEF Orderly
<1> QED
  BY <1>1, InitTurns, NextTurns, Invariance, PTL DEF Spec

\* The event loop never touches the buffers of a Connection that a worker is
\* about to parse, answer or clear, although no lock guards them: handle_read
\* and handle_write come to a Connection only when its descriptor is reported,
\* and it is not reported readable while its request is in the making, nor
\* writable before the worker has let go of it.
THEOREM NoRace ==
    ASSUME Orderly PROVE Spec => []NoDataRace
<1>1. Inv /\ Turns => NoDataRace
  <2> SUFFICES ASSUME Inv, Turns, NEW w \in Workers, wat[w] \in {"process", "publish"},
                      at \in {"recv", "write"}, Reading = job[w]
               PROVE  FALSE
    BY DEF NoDataRace
  <2>1. Reading \in Clients /\ ~Busy(Reading)
    BY ReadingType DEF Turns, TurnInv, Receiving, Sending
  <2> QED
    BY <2>1 DEF Busy
<1> QED
  BY <1>1, Invariance, TurnsInvariance, PTL

\* process_request asks getpeername for its client's address while the
\* descriptor is still that client's, so every answer is charged to, and
\* logged for, the client it goes to.
THEOREM ChargedRight ==
    ASSUME Orderly PROVE Spec => []ChargedToSender
<1>1. Turns => ChargedToSender
  BY DEF Turns, ChargedInv, ChargedToSender
<1> QED
  BY <1>1, TurnsInvariance, PTL

LEMMA CutLength == \A shape \in Shapes : Len(Cut[shape]) \in 1..3
<1> SUFFICES ASSUME NEW shape \in Shapes PROVE Len(Cut[shape]) \in 1..3
  OBVIOUS
<1>1. \/ Cut[shape] = <<"whole">> \/ Cut[shape] = <<"start", "rest">>
      \/ Cut[shape] = <<"headers", "body">> \/ Cut[shape] = <<"start", "start", "rest">>
      \/ Cut[shape] = <<"garbage">>
  BY ServerAssumption DEF Cut
<1> QED
  BY <1>1

-----------------------------------------------------------------------------
(* Closing for a reason                                                     *)

\* The steps that change some Connection object.
ConnStep ==
    \/ \E c \in Clients : Elapse(c)
    \/ \E w \in Workers : Process(w) \/ Publish(w)
    \/ RecvData \/ SendChunk \/ WriteDone \/ AcceptInsert

\* What they change.
LEMMA ConnSteps ==
    ASSUME Inv, [Next]_vars
    PROVE  /\ ~ConnStep => UNCHANGED conn
           /\ ~(\E w \in Workers : Publish(w)) /\ ~WriteDone /\ ~AcceptInsert =>
                 \A d \in Clients : conn'[d].write_buffer = conn[d].write_buffer
           /\ ~(\E w \in Workers : Publish(w)) /\ ~WriteDone /\ ~AcceptInsert /\ ~SendChunk =>
                 \A d \in Clients : conn'[d].bytes_sent = conn[d].bytes_sent
           /\ ~(\E w \in Workers : Process(w)) /\ ~AcceptInsert =>
                 \A d \in Clients : conn'[d].keep_alive = conn[d].keep_alive
           /\ ~(\E w \in Workers : Publish(w)) /\ ~RecvData /\ ~AcceptInsert =>
                 \A d \in Clients : conn'[d].read_buffer = conn[d].read_buffer
           /\ ~AcceptInsert => \A d \in Clients : conn'[d].fd = conn[d].fd
<1> USE TypeParts DEF Inv
<1> DEFINE W == \A d \in Clients : conn'[d].write_buffer = conn[d].write_buffer
           B == \A d \in Clients : conn'[d].bytes_sent = conn[d].bytes_sent
           K == \A d \in Clients : conn'[d].keep_alive = conn[d].keep_alive
           R == \A d \in Clients : conn'[d].read_buffer = conn[d].read_buffer
           F == \A d \in Clients : conn'[d].fd = conn[d].fd
<1>0. \A d \in Clients : conn[d] \in Connections
  BY DEF ConnType
<1>1. CASE ~ConnStep
  <2>1. UNCHANGED conn
    BY <1>1 DEF ConnStep, vars, Next, ClientStep, WorkerStep, LoopStep, Connect, BeginRequest,
       SendPiece, HangUp, TakeTask, Rearm, Wait, Dispatch, AcceptNone, AcceptReject,
       AcceptRegister, Accept4, RecvEnd, RecvAgain, WriteNothing, SendAgain, SendError,
       Erase, EpollRemove, Close, Scan, Reap, ReapEnd
  <2> QED
    BY <2>1
<1>2. ASSUME NEW c \in Clients, Elapse(c) PROVE W /\ B /\ K /\ R /\ F
  <2>1. \A d \in Clients : conn'[d] = conn[d] \/ conn'[d] = [conn[d] EXCEPT !.overdue = TRUE]
    BY <1>2 DEF Elapse, ConnType
  <2> QED
    BY <1>0, <2>1 DEF Connections
<1>3. ASSUME NEW w \in Workers, Process(w) PROVE W /\ B /\ R /\ F
  <2> DEFINE b == WantsKeepAlive(conn[job[w]].read_buffer)
  <2>1. UNCHANGED conn \/ conn' = [conn EXCEPT ![job[w]].keep_alive = b]
    BY <1>3 DEF Process
  <2> HIDE DEF b
  <2>2. \A d \in Clients : conn'[d] = conn[d] \/ conn'[d] = [conn[d] EXCEPT !.keep_alive = b]
    BY <2>1 DEF ConnType
  <2> QED
    BY <1>0, <2>2 DEF Connections
<1>4. ASSUME NEW w \in Workers, Publish(w) PROVE K /\ F
  <2>1. \A d \in Clients : conn'[d] = conn[d] \/ conn'[d] = AfterPublish(conn[d], resp[w])
    BY <1>4 DEF Publish, Target, ConnType
  <2> QED
    BY <1>0, <2>1 DEF Connections, AfterPublish
<1>5. CASE RecvData
  <2> DEFINE p == Head(inbox[Reading])
  <2>1. UNCHANGED conn \/ conn' = [conn EXCEPT ![Reading].read_buffer = Append(@, p),
                                              ![Reading].overdue = FALSE]
    <3>1. CASE TooLarge(Reading)
      BY <1>5, <3>1 DEF RecvData
    <3>2. CASE ~TooLarge(Reading)
      BY <1>5, <3>2 DEF RecvData
    <3> QED
      BY <3>1, <3>2
  <2> HIDE DEF p
  <2>2. \A d \in Clients : \/ conn'[d] = conn[d]
                           \/ conn'[d] = [conn[d] EXCEPT !.read_buffer = Append(@, p),
                                                         !.overdue = FALSE]
    BY <2>1 DEF ConnType
  <2>3. W /\ B /\ K /\ F
    BY <1>0, <2>2 DEF Connections
  <2> QED
    BY <1>5, <2>3 DEF ConnStep
<1>6. CASE SendChunk
  <2>1. \A d \in Clients : \/ conn'[d] = conn[d]
                           \/ conn'[d] = [conn[d] EXCEPT !.bytes_sent = NextOffset(conn[Reading])]
    BY <1>6 DEF SendChunk, ConnType
  <2>2. W /\ K /\ R /\ F
    BY <1>0, <2>1 DEF Connections
  <2> QED
    BY <1>6, <2>2 DEF ConnStep
<1>7. CASE WriteDone
  <2>1. \A d \in Clients : \/ conn'[d] = conn[d]
                           \/ conn'[d] = [conn[d] EXCEPT !.write_buffer = None, !.bytes_sent = 0,
                                                         !.is_writing = FALSE]
    BY <1>7 DEF WriteDone, ConnType
  <2>2. K /\ R /\ F
    BY <1>0, <2>1 DEF Connections
  <2> QED
    BY <1>7, <2>2 DEF ConnStep
<1> QED
  BY <1>1, <1>2, <1>3, <1>4, <1>5, <1>6, <1>7 DEF ConnStep

LEMMA InitReasons == Init => Reasons
<1> SUFFICES ASSUME Init PROVE Reasons
  OBVIOUS
<1> USE DEF Init
<1>1. \A c \in Clients : /\ conn[c].write_buffer = None /\ conn[c].bytes_sent = 0
                         /\ Len(conn[c].read_buffer) = 0
                         /\ Len(inbox[c]) = 0 /\ Len(outgoing[c]) = 0
  BY DEF NewConnection
<1>2. RoomInv
  BY <1>1, ServerAssumption DEF RoomInv
<1>3. KeepInv /\ LastInv /\ ReasonInv
  BY <1>1 DEF KeepInv, LastInv, ReasonInv
<1> QED
  BY <1>2, <1>3 DEF Reasons

LEMMA RoomArithmetic ==
    \A a, b, e, m \in Nat :
       /\ a + b + e <= m /\ b > 0 => ~(a + 1 > m)
       /\ a + b + (e + 1) <= m => a + (b + 1) + e <= m
  OBVIOUS

\* No request outgrows the read buffer.
LEMMA NextRoom ==
    ASSUME Orderly, Fits, Inv, Answers, Turns, RoomInv, [Next]_vars PROVE RoomInv'
<1> USE TypeParts DEF Inv
<1>0. /\ inbox \in [Clients -> Seq(Pieces)] /\ outgoing \in [Clients -> Seq(Pieces)]
      /\ \A d \in Clients : conn[d].read_buffer \in Seq(Pieces)
      /\ MAX_REQUEST_SIZE \in Nat
  BY ServerAssumption DEF ClientType, ConnType, Connections
<1>1. ASSUME NEW c \in Clients, NEW shape \in Shapes, NEW keep \in BOOLEAN,
             BeginRequest(c, shape, keep)
      PROVE  RoomInv'
  <2>1. ~UnderWay(c) /\ UNCHANGED <<inbox, conn>>
        /\ outgoing' = [outgoing EXCEPT ![c] = PiecesOf(nreq[c] + 1, shape, keep)]
    BY <1>1, NothingUnderWay DEF BeginRequest, Orderly, OneAtATime
  <2>2. Len(PiecesOf(nreq[c] + 1, shape, keep)) <= MAX_REQUEST_SIZE
    <3>1. Len(Cut[shape]) \in Nat /\ Len(Cut[shape]) <= MAX_REQUEST_SIZE
      BY CutLength DEF Fits
    <3> QED
      BY <3>1 DEF PiecesOf
  <2>3. Len(conn[c].read_buffer) = 0 /\ Len(inbox[c]) = 0
    BY <2>1 DEF UnderWay
  <2>4. Len(PiecesOf(nreq[c] + 1, shape, keep)) \in Nat
    <3>1. Len(Cut[shape]) \in Nat
      BY CutLength
    <3> QED
      BY <3>1 DEF PiecesOf
  <2>5. /\ outgoing'[c] = PiecesOf(nreq[c] + 1, shape, keep)
        /\ \A d \in Clients : d # c => outgoing'[d] = outgoing[d]
    BY <1>0, <2>1
  <2>6. Len(conn[c].read_buffer) + Len(inbox[c]) + Len(outgoing'[c]) <= MAX_REQUEST_SIZE
    BY <1>0, <2>2, <2>3, <2>4, <2>5
  <2> QED
    BY <2>1, <2>5, <2>6 DEF RoomInv
<1>2. ASSUME NEW c \in Clients, SendPiece(c) PROVE RoomInv'
  <2> DEFINE p == Head(outgoing[c])
             rest == Tail(outgoing[c])
  <2>1. outgoing[c] \in Seq(Pieces) /\ outgoing[c] # <<>>
    BY <1>0, <1>2 DEF SendPiece
  <2>2. p \in Pieces /\ rest \in Seq(Pieces) /\ Len(outgoing[c]) = Len(rest) + 1
    BY <2>1, FirstAndRest
  <2>3. /\ inbox' = [inbox EXCEPT ![c] = Append(@, p)] /\ outgoing' = [outgoing EXCEPT ![c] = rest]
        /\ UNCHANGED conn
    BY <1>2 DEF SendPiece
  <2> HIDE DEF p, rest
  <2>4. Len(Append(inbox[c], p)) = Len(inbox[c]) + 1
    BY <1>0, <2>2
  <2>5. Len(inbox'[c]) = Len(inbox[c]) + 1 /\ Len(outgoing[c]) = Len(outgoing'[c]) + 1
    BY <1>0, <2>2, <2>3, <2>4
  <2>6. Len(inbox[c]) \in Nat /\ Len(rest) \in Nat /\ Len(conn[c].read_buffer) \in Nat
    BY <1>0, <2>2
  <2>7. \A d \in Clients : d # c => inbox'[d] = inbox[d] /\ outgoing'[d] = outgoing[d]
    BY <1>0, <2>3
  <2>8. outgoing'[c] = rest
    BY <1>0, <2>3
  <2>9. Len(conn[c].read_buffer) + Len(inbox'[c]) + Len(outgoing'[c]) <= MAX_REQUEST_SIZE
    <3>1. Len(conn[c].read_buffer) + Len(inbox[c]) + Len(outgoing[c]) <= MAX_REQUEST_SIZE
      BY DEF RoomInv
    <3>2. PICK a, b, e \in Nat : a = Len(conn[c].read_buffer) /\ b = Len(inbox[c]) /\ e = Len(rest)
      BY <2>6
    <3>3. Len(inbox'[c]) = b + 1 /\ Len(outgoing'[c]) = e /\ Len(outgoing[c]) = e + 1
      BY <2>5, <2>8, <3>2
    <3>4. a + b + (e + 1) <= MAX_REQUEST_SIZE
      BY <3>1, <3>2, <3>3
    <3>5. Len(inbox'[c]) = b + 1 /\ Len(outgoing'[c]) = e /\ Len(conn[c].read_buffer) = a
      BY <3>2, <3>3
    <3>6. a + (b + 1) + e <= MAX_REQUEST_SIZE
      BY <3>4, RoomArithmetic, ServerAssumption
    <3> QED
      BY <3>5, <3>6
  <2> QED
    BY <2>3, <2>7, <2>9 DEF RoomInv
<1>3. CASE RecvData
  <2>1. PICK c \in Clients : c = Reading
    BY <1>3, ReadingType DEF RecvData
  <2> DEFINE p == Head(inbox[c])
             rest == Tail(inbox[c])
             buf == conn[c].read_buffer
  <2>2. inbox[c] \in Seq(Pieces) /\ inbox[c] # <<>> /\ buf \in Seq(Pieces)
    BY <1>0, <1>3, <2>1 DEF RecvData
  <2>3. p \in Pieces /\ rest \in Seq(Pieces) /\ Len(inbox[c]) = Len(rest) + 1
    BY <2>2, FirstAndRest
  <2>4. inbox' = [inbox EXCEPT ![c] = rest] /\ UNCHANGED outgoing
    BY <1>3, <2>1 DEF RecvData
  <2>5. /\ conn'[c].read_buffer = Append(buf, p) \/ conn'[c].read_buffer = buf
        /\ \A d \in Clients : d # c => conn'[d] = conn[d]
    <3>1. CASE TooLarge(c)
      BY <1>3, <2>1, <3>1 DEF RecvData
    <3>2. CASE ~TooLarge(c)
      BY <1>3, <2>1, <3>2 DEF RecvData, ConnType, Connections
    <3> QED
      BY <3>1, <3>2
  <2> HIDE DEF p, rest, buf
  <2>6. Len(Append(buf, p)) = Len(buf) + 1 /\ Len(buf) \in Nat /\ Len(rest) \in Nat
        /\ Len(outgoing[c]) \in Nat
    BY <1>0, <2>2, <2>3
  <2>7. Len(conn'[c].read_buffer) \in {Len(buf), Len(buf) + 1}
    BY <2>5, <2>6
  <2>8. \A d \in Clients : d # c => inbox'[d] = inbox[d]
    BY <1>0, <2>4
  <2>9. inbox'[c] = rest
    BY <1>0, <2>4
  <2>10. Len(conn'[c].read_buffer) + Len(inbox'[c]) + Len(outgoing'[c]) <= MAX_REQUEST_SIZE
    <3>1. Len(buf) + Len(inbox[c]) + Len(outgoing[c]) <= MAX_REQUEST_SIZE
      BY DEF RoomInv, buf
    <3> QED
      BY <1>0, <2>3, <2>4, <2>6, <2>7, <2>9, <3>1
  <2> QED
    BY <2>4, <2>5, <2>8, <2>10 DEF RoomInv
<1>4. ASSUME UNCHANGED <<inbox, outgoing>>,
             \A d \in Clients : \/ conn'[d].read_buffer = conn[d].read_buffer
                                \/ conn'[d].read_buffer = <<>>
      PROVE  RoomInv'
  <2>1. \A d \in Clients : /\ Len(conn[d].read_buffer) \in Nat
                           /\ Len(inbox[d]) \in Nat /\ Len(outgoing[d]) \in Nat
                           /\ Len(conn'[d].read_buffer) \in {Len(conn[d].read_buffer), 0}
    BY <1>0, <1>4
  <2> QED
    BY <1>0, <1>4, <2>1 DEF RoomInv
<1>5. CASE AcceptInsert \/ \E w \in Workers : Publish(w)
  <2>1. UNCHANGED <<inbox, outgoing>>
    BY <1>5 DEF AcceptInsert, Publish, clientVars
  <2>2. ASSUME NEW w \in Workers, Publish(w), NEW d \in Clients
        PROVE  conn'[d].read_buffer = conn[d].read_buffer \/ conn'[d].read_buffer = <<>>
    BY <2>2 DEF Publish, Target, AfterPublish, ConnType, Connections
  <2>3. ASSUME AcceptInsert, NEW d \in Clients
        PROVE  conn'[d].read_buffer = conn[d].read_buffer \/ conn'[d].read_buffer = <<>>
    BY <2>3 DEF AcceptInsert, NewConnection, ConnType
  <2> QED
    BY <1>4, <1>5, <2>1, <2>2, <2>3
<1>6. CASE /\ ~AcceptInsert /\ ~RecvData /\ ~(\E w \in Workers : Publish(w))
           /\ ~(\E c \in Clients : SendPiece(c))
           /\ ~(\E c \in Clients, shape \in Shapes, keep \in BOOLEAN : BeginRequest(c, shape, keep))
  <2>1. UNCHANGED <<inbox, outgoing>>
    BY <1>6 DEF vars, clientVars, Next, ClientStep, WorkerStep, LoopStep, Connect, HangUp, Elapse,
       TakeTask, Process, Rearm, Wait, Dispatch, AcceptNone, AcceptReject, AcceptRegister, Accept4,
       RecvEnd, RecvAgain, WriteNothing, SendChunk, SendAgain, SendError, WriteDone, Erase,
       EpollRemove, Close, Scan, Reap, ReapEnd, Orderly
  <2> QED
    BY <1>4, <1>6, <2>1, ConnSteps
<1> QED
  BY <1>1, <1>2, <1>3, <1>5, <1>6

\* A worker's answer and its Connection agree on keep-alive.
LEMMA NextKeep ==
    ASSUME Inv, Answers, Turns, KeepInv, [Next]_vars PROVE KeepInv'
<1> USE TypeParts DEF Inv
<1>1. \A w \in Workers : resp[w] # None =>
         wat[w] = "publish" /\ job[w] \in Clients /\ Busy(job[w]) /\ conn[job[w]].fd \in Fds
  BY DEF Turns, ChargedInv, TaskInv, Busy
<1>2. ASSUME NEW w \in Workers, Process(w) PROVE KeepInv'
  <2>0. PICK c \in Clients : c = job[w]
    BY <1>2 DEF Process, TaskInv
  <2> DEFINE buf == conn[c].read_buffer
             n == IF buf = <<>> THEN 0 ELSE buf[1].req
  <2>1. wat[w] = "process" /\ Dispatched(c) /\ conn[c].write_buffer = None
    BY <1>2, <2>0 DEF Process, Dispatched, AtWork, Answers, Stage, DispatchInv
  <2>2. /\ wat' = [wat EXCEPT ![w] = "publish"] /\ UNCHANGED job
        /\ \/ \E status \in Statuses :
                 resp' = [resp EXCEPT ![w] = Response(c, n, status, FALSE)] /\ UNCHANGED conn
           \/ /\ resp' = [resp EXCEPT ![w] = Response(c, n, "ok", WantsKeepAlive(buf))]
              /\ conn' = [conn EXCEPT ![c].keep_alive = WantsKeepAlive(buf)]
    BY <1>2, <2>0 DEF Process, Statuses
  <2>3. \A v \in Workers : v # w => resp'[v] = resp[v] /\ (resp[v] # None => job[v] # c)
    BY <2>0, <2>1, <2>2, <1>1 DEF WorkType, Turns, ExclusiveInv
  <2>4. \A d \in Clients : conn'[d].write_buffer = conn[d].write_buffer
                           /\ (d # c => conn'[d].keep_alive = conn[d].keep_alive)
    <3>1. \/ UNCHANGED conn
          \/ conn' = [conn EXCEPT ![c].keep_alive = WantsKeepAlive(buf)]
      BY <2>2
    <3>2. \A d \in Clients :
             \/ conn'[d] = conn[d]
             \/ d = c /\ conn'[d] = [conn[d] EXCEPT !.keep_alive = WantsKeepAlive(buf)]
      BY <3>1 DEF ConnType
    <3>3. \A d \in Clients : conn[d] \in Connections
      BY DEF ConnType
    <3> QED
      BY <3>2, <3>3 DEF Connections
  <2>5. resp'[w].announce = "keep" => conn'[c].keep_alive
    <3>1. CASE \E status \in Statuses :
                 resp' = [resp EXCEPT ![w] = Response(c, n, status, FALSE)] /\ UNCHANGED conn
      BY <3>1 DEF WorkType, Response
    <3>2. CASE /\ resp' = [resp EXCEPT ![w] = Response(c, n, "ok", WantsKeepAlive(buf))]
               /\ conn' = [conn EXCEPT ![c].keep_alive = WantsKeepAlive(buf)]
      <4>1. resp'[w].announce = "keep" => WantsKeepAlive(buf)
        BY <3>2 DEF WorkType, Response
      <4>2. conn'[c].keep_alive = WantsKeepAlive(buf)
        BY <3>2 DEF ConnType, Connections
      <4> QED
        BY <4>1, <4>2
    <3> QED
      BY <2>2, <3>1, <3>2
  <2>6. \A v \in Workers : resp'[v] # None /\ resp'[v].announce = "keep" =>
           conn'[job'[v]].keep_alive
    BY <1>1, <2>0, <2>2, <2>3, <2>4, <2>5 DEF KeepInv
  <2>7. \A d \in Clients : conn'[d].write_buffer # None /\ conn'[d].write_buffer.announce = "keep" =>
           conn'[d].keep_alive
    BY <2>1, <2>4 DEF KeepInv
  <2> QED
    BY <2>6, <2>7 DEF KeepInv
<1>3. ASSUME NEW w \in Workers, Publish(w) PROVE KeepInv'
  <2>0. PICK c \in Clients : c = job[w]
    BY <1>3 DEF Publish, TaskInv
  <2>1. /\ conn' = [conn EXCEPT ![c] = AfterPublish(@, resp[w])]
        /\ resp' = [resp EXCEPT ![w] = None] /\ UNCHANGED job /\ resp[w] \in Responses
        /\ conn[c] \in Connections
    BY <1>3, <2>0 DEF Publish, Target, TaskInv, ConnType
  <2>2. /\ conn'[c].write_buffer = resp[w] /\ resp[w] # None
        /\ \A d \in Clients : conn'[d].keep_alive = conn[d].keep_alive
                              /\ (d # c => conn'[d].write_buffer = conn[d].write_buffer)
    BY <2>1, NoneAssumption DEF AfterPublish, Connections, ConnType
  <2>3. \A v \in Workers : resp'[v] # None => resp'[v] = resp[v] /\ job[v] \in Clients
    BY <1>1, <2>1 DEF WorkType
  <2> QED
    BY <2>0, <2>1, <2>2, <2>3 DEF KeepInv
<1>4. ASSUME UNCHANGED resp, \A v \in Workers : resp[v] # None => job'[v] = job[v],
             \A d \in Clients : /\ conn'[d].keep_alive = conn[d].keep_alive
                                   \/ conn[d].fd = None
                                /\ conn'[d].write_buffer \in {conn[d].write_buffer, None}
                                /\ conn'[d].keep_alive # conn[d].keep_alive =>
                                      conn'[d].write_buffer = None
      PROVE  KeepInv'
  BY <1>1, <1>4, ServerAssumption DEF KeepInv
<1>5. CASE AcceptInsert
  <2>1. PICK c \in Clients : c = fdOwner[cur]
    BY <1>5 DEF AcceptInsert, CurInv, KernelType
  <2>2. /\ conn' = [conn EXCEPT ![c] = NewConnection(cur)] /\ UNCHANGED workVars
        /\ conn[c].fd = None
    BY <1>5, <2>1 DEF AcceptInsert, Answers, FreshInv
  <2>3. /\ conn'[c].write_buffer = None /\ \A d \in Clients : d # c => conn'[d] = conn[d]
    BY <2>2 DEF ConnType, NewConnection
  <2> QED
    BY <1>4, <2>2, <2>3 DEF workVars
<1>6. CASE WriteDone
  <2>1. \A d \in Clients : conn'[d].write_buffer \in {conn[d].write_buffer, None}
    BY <1>6 DEF WriteDone, ConnType, Connections
  <2>2. \A d \in Clients : conn'[d].keep_alive = conn[d].keep_alive
    BY <1>6 DEF WriteDone, ConnType, Connections
  <2> QED
    BY <1>4, <1>6, <2>1, <2>2 DEF WriteDone, workVars
<1>7. CASE /\ ~AcceptInsert /\ ~WriteDone
           /\ ~(\E w \in Workers : Process(w)) /\ ~(\E w \in Workers : Publish(w))
  <2>1. \A d \in Clients : conn'[d].write_buffer = conn[d].write_buffer
                           /\ conn'[d].keep_alive = conn[d].keep_alive
    BY <1>7, ConnSteps
  <2>2. UNCHANGED resp /\ (UNCHANGED job \/ \E w \in Workers : TakeTask(w) \/ Rearm(w))
    BY <1>7 DEF vars, workVars, Next, ClientStep, WorkerStep, LoopStep, Connect, BeginRequest,
       SendPiece, HangUp, Elapse, TakeTask, Rearm, Wait, Dispatch, AcceptNone, AcceptReject,
       AcceptRegister, Accept4, RecvData, RecvEnd, RecvAgain, WriteNothing, SendChunk, SendAgain,
       SendError, Erase, EpollRemove, Close, Scan, Reap, ReapEnd
  <2>3. \A v \in Workers : resp[v] # None => job'[v] = job[v]
    BY <1>1, <2>2 DEF TakeTask, Rearm, WorkType
  <2> QED
    BY <1>4, <2>1, <2>2, <2>3
<1> QED
  BY <1>2, <1>3, <1>5, <1>6, <1>7

\* What the client got last is of the answer being sent.
LEMMA NextLast ==
    ASSUME Inv, Answers, LastInv, [Next]_vars PROVE LastInv'
<1> USE TypeParts DEF Inv
<1>1. ASSUME NEW w \in Workers, Publish(w) PROVE LastInv'
  <2>1. \A d \in Clients : \/ conn'[d].bytes_sent = 0
                           \/ conn'[d] = conn[d]
    BY <1>1 DEF Publish, Target, AfterPublish, ConnType, Connections
  <2> QED
    BY <1>1, <2>1 DEF Publish, clientVars, LastInv
<1>2. CASE WriteDone
  <2>1. \A d \in Clients : conn'[d].bytes_sent = 0 \/ conn'[d] = conn[d]
    BY <1>2 DEF WriteDone, ConnType, Connections
  <2>2. UNCHANGED received
    BY <1>2 DEF WriteDone, clientVars
  <2> QED
    BY <2>1, <2>2 DEF LastInv
<1>3. CASE AcceptInsert
  <2>1. \A d \in Clients : conn'[d].bytes_sent = 0 \/ conn'[d] = conn[d]
    BY <1>3 DEF AcceptInsert, NewConnection, ConnType
  <2> QED
    BY <1>3, <2>1 DEF AcceptInsert, clientVars, LastInv
<1>4. CASE SendChunk
  <2>1. PICK c \in Clients : c = Reading
    BY <1>4, ReadingType DEF SendChunk
  <2> DEFINE m == [resp |-> conn[c].write_buffer, k |-> conn[c].bytes_sent + 1]
  <2>2. PICK r \in Seq([resp : Responses, k : 1..Chunks]) : r = received[c]
    BY DEF ClientType
  <2>3. /\ received'[c] = Append(r, m)
        /\ \A d \in Clients : d # c => received'[d] = received[d] /\ conn'[d] = conn[d]
    BY <1>4, <2>1, <2>2 DEF SendChunk, ClientType, ConnType
  <2>4. conn'[c].write_buffer = conn[c].write_buffer
    BY <1>4, ConnSteps DEF SendChunk, Publish, WriteDone, AcceptInsert
  <2>5. m.resp = conn[c].write_buffer
    OBVIOUS
  <2> HIDE DEF m
  <2>6. Append(r, m) # <<>> /\ Last(Append(r, m)) = m
    BY <2>2 DEF Last
  <2> QED
    BY <2>3, <2>4, <2>5, <2>6 DEF LastInv
<1>5. CASE /\ ~AcceptInsert /\ ~WriteDone /\ ~SendChunk /\ ~(\E w \in Workers : Publish(w))
  <2>1. UNCHANGED received
    BY <1>5 DEF vars, clientVars, Next, ClientStep, WorkerStep, LoopStep, Connect, BeginRequest,
       SendPiece, HangUp, Elapse, TakeTask, Process, Rearm, Wait, Dispatch, AcceptNone, AcceptReject,
       AcceptRegister, Accept4, RecvData, RecvEnd, RecvAgain, WriteNothing, SendAgain,
       SendError, Erase, EpollRemove, Close, Scan, Reap, ReapEnd
  <2> QED
    BY <1>5, <2>1, ConnSteps DEF LastInv
<1> QED
  BY <1>1, <1>2, <1>3, <1>4, <1>5

\* Done is done: who has been told of the close begins no further request.
LEMMA ToldForGood ==
    ASSUME NEW c \in Clients, ToldToClose(c), UNCHANGED <<nreq, received>>
    PROVE  ToldToClose(c)'
  BY DEF ToldToClose, Answered

\* The answer sent last is complete when handle_write is through with it.
LEMMA SentMeansAnswered ==
    ASSUME Inv, Answers, LastInv, KeepInv, NEW c \in Clients,
           conn[c].write_buffer # None, ~Unsent(c), ~conn[c].keep_alive
    PROVE  ToldToClose(c)
<1> USE TypeParts DEF Inv
<1>1. /\ nreq[c] \in Nat /\ conn[c].bytes_sent \in 0..Chunks /\ Chunks \in Nat \ {0}
      /\ conn[c].write_buffer \in Responses
  BY ServerAssumption DEF ClientType, ConnType, Connections
<1>2. conn[c].bytes_sent = Chunks
  BY <1>1 DEF Unsent
<1>3. nreq[c] > 0 /\ Len(received[c]) = Chunks * (nreq[c] - 1) + Chunks
  BY <1>2 DEF Answers, Stage, CountInv, UnderWay
<1>4. Answered(c)
  BY <1>1, <1>3 DEF Answered
<1>5. received[c] # <<>> /\ Last(received[c]).resp = conn[c].write_buffer
  BY <1>1, <1>2 DEF LastInv
<1>6. conn[c].write_buffer.announce = "close"
  BY <1>1 DEF KeepInv, Responses
<1> QED
  BY <1>4, <1>5, <1>6 DEF ToldToClose

\* The server closes only whom it has told.
LEMMA NextReason ==
    ASSUME Orderly, Inv, Answers, Turns, Reasons, [Next]_vars PROVE ReasonInv'
<1> USE TypeParts DEF Inv, Reasons
<1>1. ASSUME NEW c \in Clients, NEW shape \in Shapes, NEW keep \in BOOLEAN,
             BeginRequest(c, shape, keep)
      PROVE  ReasonInv'
  <2>1. /\ ~ToldToClose(c) /\ UNCHANGED <<sock, received, kernelVars, connections_, conn, loopVars>>
        /\ \A d \in Clients : d # c => nreq'[d] = nreq[d]
    BY <1>1 DEF BeginRequest, ToldToClose, ClientType
  <2>2. \A d \in Clients : ToldToClose(d) => ToldToClose(d)'
    BY <2>1 DEF ToldToClose, Answered
  <2> QED
    BY <2>1, <2>2, MappedClients
       DEF ReasonInv, loopVars, kernelVars, Reading, Turns, TurnInv, CurInv, KernelType
<1>2. CASE SendChunk
  <2>1. /\ UNCHANGED <<sock, nreq, kernelVars, connections_, loopVars>> /\ at = "write"
        /\ SameFds
    BY <1>2, ConnSteps DEF SendChunk, SameFds, AcceptInsert
  <2>2. \A d \in Clients : d # Reading => received'[d] = received[d]
    BY <1>2 DEF SendChunk, ClientType
  <2>3. sock[Reading] = "open"
    BY <2>1, ReadingType, ServerAssumption DEF OwnerInv
  <2>4. \A d \in Clients : d # Reading /\ ToldToClose(d) => ToldToClose(d)'
    BY <2>1, <2>2 DEF ToldToClose, Answered
  <2> QED
    BY <2>1, <2>3, <2>4 DEF ReasonInv, loopVars, SameFds
<1>3. ASSUME UNCHANGED <<nreq, received>>, SameFds,
             at' = "erase" => ToldToClose(Reading') /\ Reading' \in Clients,
             at' \in {"remove", "close"} => ToldToClose(fdOwner'[cur']) /\ fdOwner'[cur'] \in Clients,
             \A d \in Clients : sock'[d] = "closed" =>
                sock[d] = "closed" \/ conn[d].fd = None \/ ToldToClose(d)
      PROVE  ReasonInv'
  <2>1. \A d \in Clients : ToldToClose(d) => ToldToClose(d)'
    BY <1>3, ToldForGood
  <2> QED
    BY <1>3, <2>1 DEF ReasonInv, SameFds
<1>4. CASE WriteDone
  <2>1. /\ UNCHANGED <<clientVars, connections_>> /\ at = "write" /\ at' \in {"dispatch", "erase"}
        /\ SameFds /\ Reading \in Clients
        /\ at' = "erase" => cur' = cur /\ ToldToClose(Reading)
    <3>1. Reading \in Clients
      BY <1>4, ReadingType DEF WriteDone
    <3>2. SameFds
      BY <1>4, ConnSteps DEF WriteDone, AcceptInsert, SameFds
    <3>3. ~conn[Reading].keep_alive => ToldToClose(Reading)
      BY <1>4, <3>1, SentMeansAnswered DEF WriteDone
    <3> QED
      BY <1>4, <3>1, <3>2, <3>3 DEF WriteDone, KeepsOpen, Goto, GotoClose
  <2> QED
    BY <1>3, <2>1 DEF clientVars, Reading
<1>5. CASE Erase
  <2>1. /\ UNCHANGED <<clientVars, kernelVars, conn, cur>> /\ at = "erase" /\ at' = "remove"
        /\ ToldToClose(Reading) /\ fdOwner[cur] = Reading /\ Reading \in Clients
    BY <1>5, MappedClients, ServerAssumption
       DEF Erase, Turns, TurnInv, ReasonInv, Reading
  <2> QED
    BY <1>3, <2>1 DEF clientVars, kernelVars, SameFds
<1>6. CASE EpollRemove
  <2>1. /\ UNCHANGED <<clientVars, fdOwner, conn, cur>> /\ at = "remove" /\ at' = "close"
        /\ ToldToClose(fdOwner[cur]) /\ fdOwner[cur] \in Clients
    BY <1>6 DEF EpollRemove, ReasonInv, CurInv, KernelType
  <2> QED
    BY <1>3, <2>1 DEF clientVars, SameFds
<1>7. CASE Close \/ AcceptReject
  <2>1. /\ UNCHANGED <<nreq, received, conn>> /\ at \in {"close", "limit"}
        /\ at' \in {"accept", "dispatch", "reap"}
        /\ sock' = [sock EXCEPT ![fdOwner[cur]] = "closed"]
    BY <1>7 DEF Close, AcceptReject, CloseFd, Goto, LoopType
  <2>2. at = "close" => ToldToClose(fdOwner[cur])
    BY DEF ReasonInv
  <2>3. at = "limit" => conn[fdOwner[cur]].fd = None
    BY DEF Answers, FreshInv
  <2> QED
    BY <1>3, <2>1, <2>2, <2>3 DEF SameFds, ClientType
<1>8. CASE AcceptInsert
  <2>0. cur \in Fds /\ fdOwner[cur] # None
    BY <1>8 DEF AcceptInsert, CurInv
  <2>1. PICK c \in Clients : c = fdOwner[cur] /\ sock[c] = "open"
    BY <2>0 DEF KernelType, OwnerInv
  <2>2. /\ UNCHANGED clientVars /\ at' = "accept" /\ \A d \in Clients : d # c => conn'[d] = conn[d]
    BY <1>8, <2>1 DEF AcceptInsert, Goto, ConnType
  <2>3. \A d \in Clients : ToldToClose(d) => ToldToClose(d)'
    BY <2>2, ToldForGood DEF clientVars
  <2> QED
    BY <2>1, <2>2, <2>3 DEF ReasonInv, clientVars
<1>9. CASE RecvData
  <2>1. PICK c \in Clients : c = Reading
    BY <1>9, ReadingType DEF RecvData
  <2>2. ~TooLarge(c)
    <3>1. inbox[c] \in Seq(Pieces) /\ inbox[c] # <<>> /\ outgoing[c] \in Seq(Pieces)
          /\ conn[c].read_buffer \in Seq(Pieces)
      BY <1>9, <2>1 DEF RecvData, ClientType, ConnType, Connections
    <3>2. PICK a, b, e \in Nat :
             a = Len(conn[c].read_buffer) /\ b = Len(inbox[c]) /\ e = Len(outgoing[c]) /\ b > 0
      BY <3>1
    <3>3. a + b + e <= MAX_REQUEST_SIZE
      BY <3>2 DEF RoomInv
    <3>4. MAX_REQUEST_SIZE \in Nat
      BY ServerAssumption
    <3>5. ~(a + 1 > MAX_REQUEST_SIZE)
      BY <3>2, <3>3, <3>4, RoomArithmetic
    <3> QED
      BY <3>2, <3>5 DEF TooLarge
  <2>3. /\ UNCHANGED <<sock, nreq, received, at>> /\ SameFds /\ at = "recv"
    BY <1>9, <2>1, <2>2, ConnSteps DEF RecvData, SameFds, AcceptInsert
  <2> QED
    BY <1>3, <2>3
<1>10. CASE /\ ~SendChunk /\ ~WriteDone /\ ~Erase /\ ~EpollRemove /\ ~Close /\ ~AcceptReject
            /\ ~AcceptInsert /\ ~RecvData
            /\ ~(\E c \in Clients, shape \in Shapes, keep \in BOOLEAN : BeginRequest(c, shape, keep))
  <2>1. ~RecvEnd /\ ~WriteNothing /\ ~SendError /\ ~Reap
    BY NoErrors
  <2>2. /\ UNCHANGED <<nreq, received, connections_>> /\ SameFds
        /\ \A d \in Clients : sock'[d] = "closed" => sock[d] = "closed"
    <3>1. SameFds
      BY <1>10, ConnSteps DEF SameFds
    <3>2. UNCHANGED <<nreq, received, connections_>>
      BY <1>10 DEF vars, clientVars, Next, ClientStep, WorkerStep, LoopStep, Connect, SendPiece,
         HangUp, Elapse, TakeTask, Process, Publish, Rearm, Wait, Dispatch, AcceptNone,
         AcceptRegister, Accept4, RecvEnd, RecvAgain, WriteNothing, SendAgain, SendError, Scan,
         Reap, ReapEnd
    <3>3. \/ UNCHANGED sock
          \/ \E c \in Clients : sock' = [sock EXCEPT ![c] = "backlog"]
          \/ \E c \in Clients : sock' = [sock EXCEPT ![c] = "open"]
      BY <1>10 DEF vars, clientVars, Next, ClientStep, WorkerStep, LoopStep, Connect, SendPiece,
         HangUp, Elapse, TakeTask, Process, Publish, Rearm, Wait, Dispatch, AcceptNone,
         AcceptRegister, Accept4, RecvEnd, RecvAgain, WriteNothing, SendAgain, SendError, Scan,
         Reap, ReapEnd
    <3> QED
      BY <3>1, <3>2, <3>3 DEF ClientType
  <2>3. \/ UNCHANGED <<at, cur, fdOwner>>
        \/ at' \notin {"erase", "remove", "close"}
    <3>1. CASE Dispatch
      BY <3>1, NoErrors DEF Dispatch, Goto, GotoClose, LoopType
    <3>2. CASE ~Dispatch
      BY <1>10, <2>1, <3>2 DEF vars, kernelVars, loopVars, Next, ClientStep, WorkerStep, LoopStep,
         Connect, SendPiece, HangUp, Elapse, TakeTask, Process, Publish, Rearm, Wait, AcceptNone,
         AcceptRegister, Accept4, RecvAgain, SendAgain, Scan, ReapEnd, Goto
    <3> QED
      BY <3>1, <3>2
  <2>4. at \in {"remove", "close"} => fdOwner[cur] \in Clients
    BY DEF CurInv, KernelType
  <2>5. at = "erase" => Reading \in Clients
    BY MappedClients DEF Turns, TurnInv, Reading
  <2> QED
    BY <1>3, <2>2, <2>3, <2>4, <2>5 DEF ReasonInv, Reading
<1> QED
  BY <1>1, <1>2, <1>4, <1>5, <1>6, <1>7, <1>8, <1>9, <1>10

LEMMA NextReasons ==
    ASSUME Orderly, Fits, Inv, Answers, Turns, Reasons, [Next]_vars PROVE Reasons'
  BY NextRoom, NextKeep, NextLast, NextReason DEF Reasons

LEMMA ReasonsInvariance == ASSUME Orderly, Fits PROVE Spec => []Reasons
<1>1. Spec => []Answers
  BY AnswersInvariance DEF Orderly
<1> QED
  BY <1>1, InitReasons, NextReasons, Invariance, TurnsInvariance, PTL DEF Spec

\* The server hangs up only on clients it has refused at the limit, or to whom
\* the last of their answers, sent completely, said "Connection: close".
THEOREM ClosedWithReason ==
    ASSUME Orderly, Fits PROVE Spec => []ClosedForAReason
<1>1. Reasons => ClosedForAReason
  BY DEF Reasons, ReasonInv, ToldToClose, ClosedForAReason
<1> QED
  BY <1>1, ReasonsInvariance, PTL

-----------------------------------------------------------------------------
(* Answers that are due, and the close that is announced                   *)

\* No client sends what is not a request.
WellFormed == "malformed" \notin Shapes

\* The pieces of c's current request, from the client to the read buffer.
OnTheWay(c) == conn[c].read_buffer \o inbox[c] \o outgoing[c]

Kinds(s) == [i \in 1..Len(s) |-> s[i].kind]

\* They are the whole request, wherever it is.
WholeInv ==
    \A c \in Clients : OnTheWay(c) # <<>> =>
       \E shape \in Shapes : Kinds(OnTheWay(c)) = Cut[shape]

\* Only requests that are none are answered 400.
Due(r) == WellFormed => r.status # "bad"

\* A 200 announces what the Connection will do.
Sound(r, keep_alive) ==
    Due(r) /\ (r.status = "ok" => (r.announce = "keep" <=> keep_alive))

SoundInv ==
    /\ \A w \in Workers : resp[w] # None => Sound(resp[w], conn[job[w]].keep_alive)
    /\ \A c \in Clients : conn[c].write_buffer # None =>
          Sound(conn[c].write_buffer, conn[c].keep_alive)
    /\ \A c \in Clients : \A i \in 1..Len(received[c]) : Due(received[c][i].resp)

\* A client has been given a 200, or is about to be.
Welcome(c) ==
    \/ \E w \in Workers : resp[w] # None /\ job[w] = c /\ resp[w].status = "ok"
    \/ conn[c].write_buffer # None /\ conn[c].write_buffer.status = "ok"
    \/ received[c] # <<>> /\ Last(received[c]).resp.status = "ok"

\* keep_alive comes from a 200, of this request or of one before.
FirstInv ==
    \A c \in Clients : conn[c].keep_alive => nreq[c] > 0 /\ (nreq[c] = 1 => Welcome(c))

\* The answer before the last request announced keep-alive.
PreviousInv ==
    \A c \in Clients : nreq[c] > 1 =>
       /\ Chunks * (nreq[c] - 1) \in 1..Len(received[c])
       /\ received[c][Chunks * (nreq[c] - 1)].resp.announce = "keep"

\* A client may send again that has been announced no close, or got a 429 or a
\* 400 for a request that was not its first.
ToldToKeep(c) ==
    \/ Last(received[c]).resp.announce = "keep"
    \/ Last(received[c]).resp.status # "ok" /\ nreq[c] > 1 /\ Answered(c)

\* epoll watches for output where handle_write is or will be.
OutputInv ==
    /\ at = "write" => epoll[cur] = "out"
    /\ \A e \in batch : e[1] # Listener /\ e[2] = "out" => epoll[e[1]] = "out"

\* It watches for input only where no close has been announced.
InputInv ==
    /\ \A f \in Mapped : epoll[f] = "in" /\ received[connections_[f]] # <<>> =>
          ToldToKeep(connections_[f])
    /\ \A c \in Clients : conn[c].fd = None => received[c] = <<>>

Manners == WholeInv /\ SoundInv /\ FirstInv /\ PreviousInv /\ OutputInv /\ InputInv

-----------------------------------------------------------------------------
(* Whole requests                                                           *)

\* A piece that moves up is still on its way.
LEMMA PieceMovesUp ==
    ASSUME NEW s \in Seq(Pieces), NEW a \in Seq(Pieces), NEW b \in Seq(Pieces), b # <<>>
    PROVE  /\ Append(a, Head(b)) \o Tail(b) = a \o b
           /\ s \o Append(a, Head(b)) \o Tail(b) = s \o a \o b
<1>1. /\ Head(b) \in Pieces /\ Tail(b) \in Seq(Pieces) /\ Append(a, Head(b)) \in Seq(Pieces)
      /\ a \o b \in Seq(Pieces)
  BY ConcatProperties
<1>2. b = <<Head(b)>> \o Tail(b)
  BY <1>1
<1>3. Append(a, Head(b)) = a \o <<Head(b)>>
  BY <1>1, AppendIsConcat
<1>4. <<Head(b)>> \in Seq(Pieces)
  BY <1>1
<1>5. Append(a, Head(b)) \o Tail(b) = a \o b
  BY <1>1, <1>2, <1>3, <1>4, ConcatAssociative
<1>6. s \o Append(a, Head(b)) \o Tail(b) = s \o (Append(a, Head(b)) \o Tail(b))
  <2> DEFINE x == Append(a, Head(b))
             t == Tail(b)
  <2>1. x \in Seq(Pieces) /\ t \in Seq(Pieces)
    BY <1>1
  <2> HIDE DEF x, t
  <2>2. (s \o x) \o t = s \o (x \o t)
    BY <2>1, ConcatAssociative
  <2> QED
    BY <2>2 DEF x, t
<1>7. s \o a \o b = s \o (a \o b)
  BY ConcatAssociative
<1> QED
  BY <1>5, <1>6, <1>7

\* What a worker is given parses.
LEMMA DispatchedParses ==
    ASSUME Orderly, WellFormed, Inv, Answers, WholeInv, NEW c \in Clients, Dispatched(c)
    PROVE  Parses(conn[c].read_buffer)
<1> USE TypeParts DEF Inv, Answers, Stage
<1> DEFINE buf == conn[c].read_buffer
<1>1. buf \in Seq(Pieces) /\ buf # <<>> /\ inbox[c] = <<>> /\ outgoing[c] = <<>>
  BY DEF DispatchInv, ConnType, Connections
<1>2. OnTheWay(c) = buf
  BY <1>1, ConcatEmptySeq DEF OnTheWay
<1>3. PICK shape \in Shapes : Kinds(buf) = Cut[shape]
  BY <1>1, <1>2 DEF WholeInv
<1>4. \A i \in 1..Len(buf) : buf[i].req = nreq[c]
  BY DEF PiecesInv
<1> SUFFICES Parses(buf)
  OBVIOUS
<1> HIDE DEF buf
<1>5. /\ \/ Cut[shape] = <<"whole">> \/ Cut[shape] = <<"start", "rest">>
         \/ Cut[shape] = <<"start", "start", "rest">>
      /\ shape \in DOMAIN Cut
  BY ServerAssumption DEF Cut, Orderly, OneAtATime, WellFormed
<1>6. PICK n \in Nat : n = Len(buf) /\ n > 0
  BY <1>1
<1>7. Kinds(buf)[1] = buf[1].kind
  BY <1>6 DEF Kinds
<1>8. ValidRequestLine(buf[1])
  BY <1>3, <1>5, <1>7 DEF ValidRequestLine
<1>9. [i \in 1..n |-> buf[i].kind] = Cut[shape]
  BY <1>3, <1>6 DEF Kinds
<1>10. n \in 1..Len(buf) /\ \A i \in 1..n : buf[i].req = buf[1].req
  BY <1>4, <1>6
<1> QED
  BY <1>5, <1>8, <1>9, <1>10, <1>6 DEF Parses

LEMMA InitManners == Init => Manners
<1> SUFFICES ASSUME Init PROVE Manners
  OBVIOUS
<1> USE DEF Init
<1>1. \A c \in Clients : /\ conn[c].read_buffer = <<>> /\ conn[c].write_buffer = None
                         /\ ~conn[c].keep_alive
                         /\ inbox[c] = <<>> /\ outgoing[c] = <<>> /\ received[c] = <<>>
  BY DEF NewConnection
<1>2. WholeInv
  <2>1. \A c \in Clients : OnTheWay(c) = <<>>
    BY <1>1 DEF OnTheWay
  <2> QED
    BY <2>1 DEF WholeInv
<1>3. SoundInv /\ FirstInv /\ PreviousInv /\ OutputInv /\ InputInv
  BY <1>1 DEF SoundInv, FirstInv, PreviousInv, OutputInv, InputInv, Mapped
<1> QED
  BY <1>2, <1>3 DEF Manners

LEMMA PiecesKinds ==
    ASSUME NEW n, NEW shape \in Shapes, NEW keep PROVE Kinds(PiecesOf(n, shape, keep)) = Cut[shape]
<1>1. \/ Cut[shape] = <<"whole">> \/ Cut[shape] = <<"start", "rest">>
      \/ Cut[shape] = <<"headers", "body">> \/ Cut[shape] = <<"start", "start", "rest">>
      \/ Cut[shape] = <<"garbage">>
  BY ServerAssumption DEF Cut
<1>2. PICK m \in Nat : m = Len(Cut[shape])
  BY <1>1
<1>3. Cut[shape] = [i \in 1..m |-> Cut[shape][i]]
  BY <1>1, <1>2
<1>4. Len(PiecesOf(n, shape, keep)) = m
  BY <1>2 DEF PiecesOf
<1>5. Kinds(PiecesOf(n, shape, keep)) = [i \in 1..m |-> Cut[shape][i]]
  BY <1>2, <1>4 DEF Kinds, PiecesOf
<1> QED
  BY <1>3, <1>5

\* Requests stay whole until a worker has done with them.
LEMMA NextWhole ==
    ASSUME Orderly, Fits, Inv, Answers, Turns, RoomInv, WholeInv, [Next]_vars PROVE WholeInv'
<1> USE TypeParts DEF Inv
<1>0. /\ inbox \in [Clients -> Seq(Pieces)] /\ outgoing \in [Clients -> Seq(Pieces)]
      /\ \A d \in Clients : conn[d].read_buffer \in Seq(Pieces)
  BY DEF ClientType, ConnType, Connections
<1>1. ASSUME NEW c \in Clients, NEW shape \in Shapes, NEW keep \in BOOLEAN,
             BeginRequest(c, shape, keep)
      PROVE  WholeInv'
  <2> DEFINE ps == PiecesOf(nreq[c] + 1, shape, keep)
  <2>1. ~UnderWay(c) /\ UNCHANGED <<inbox, conn>> /\ outgoing' = [outgoing EXCEPT ![c] = ps]
    BY <1>1, NothingUnderWay DEF BeginRequest, Orderly, OneAtATime
  <2>2. conn[c].read_buffer = <<>> /\ inbox[c] = <<>>
    BY <2>1 DEF UnderWay
  <2>3. ps \in Seq(Pieces)
    <3>1. nreq[c] + 1 \in 1..MaxRequests
      BY <1>1, ServerAssumption DEF BeginRequest, ClientType
    <3> QED
      BY <3>1, PiecesType
  <2>4. Kinds(ps) = Cut[shape]
    BY PiecesKinds
  <2> HIDE DEF ps
  <2>5. outgoing'[c] = ps /\ \A d \in Clients : d # c => outgoing'[d] = outgoing[d]
    BY <1>0, <2>1
  <2>6. OnTheWay(c)' = ps
    <3>1. <<>> \o <<>> \o ps = ps
      BY <2>3, ConcatEmptySeq
    <3> QED
      BY <2>1, <2>2, <2>5, <3>1 DEF OnTheWay
  <2>7. \A d \in Clients : d # c => OnTheWay(d)' = OnTheWay(d)
    BY <2>1, <2>5 DEF OnTheWay
  <2> QED
    BY <2>4, <2>6, <2>7 DEF WholeInv
<1>2. ASSUME \A d \in Clients : OnTheWay(d)' \in {OnTheWay(d), <<>>} PROVE WholeInv'
  BY <1>2 DEF WholeInv
<1>3. ASSUME NEW c \in Clients, SendPiece(c) PROVE WholeInv'
  <2>1. /\ outgoing[c] # <<>> /\ UNCHANGED conn
        /\ inbox' = [inbox EXCEPT ![c] = Append(inbox[c], Head(outgoing[c]))]
        /\ outgoing' = [outgoing EXCEPT ![c] = Tail(outgoing[c])]
    BY <1>3 DEF SendPiece
  <2>2. /\ inbox'[c] = Append(inbox[c], Head(outgoing[c])) /\ outgoing'[c] = Tail(outgoing[c])
        /\ \A d \in Clients : d # c => inbox'[d] = inbox[d] /\ outgoing'[d] = outgoing[d]
    BY <1>0, <2>1
  <2>3. OnTheWay(c)' = OnTheWay(c)
    <3>1. PICK buf \in Seq(Pieces), x \in Seq(Pieces), o \in Seq(Pieces) :
             buf = conn[c].read_buffer /\ x = inbox[c] /\ o = outgoing[c]
      BY <1>0
    <3>2. o # <<>>
      BY <2>1, <3>1
    <3>3. buf \o Append(x, Head(o)) \o Tail(o) = buf \o x \o o
      BY ONLY <3>2, PieceMovesUp, buf \in Seq(Pieces), x \in Seq(Pieces), o \in Seq(Pieces)
    <3> QED
      BY <2>1, <2>2, <3>1, <3>3 DEF OnTheWay
  <2> QED
    BY <1>2, <2>1, <2>2, <2>3 DEF OnTheWay
<1>4. CASE RecvData
  <2>1. PICK c \in Clients : c = Reading
    BY <1>4, ReadingType DEF RecvData
  <2>2. inbox[c] \in Seq(Pieces) /\ inbox[c] # <<>> /\ conn[c].read_buffer \in Seq(Pieces)
        /\ outgoing[c] \in Seq(Pieces)
    BY <1>0, <1>4, <2>1 DEF RecvData
  <2>3. inbox' = [inbox EXCEPT ![c] = Tail(inbox[c])] /\ UNCHANGED outgoing
    BY <1>4, <2>1 DEF RecvData
  <2>4. ~TooLarge(c)
    <3>1. PICK a, b, e \in Nat :
             a = Len(conn[c].read_buffer) /\ b = Len(inbox[c]) /\ e = Len(outgoing[c])
      BY <2>2
    <3>2. b > 0
      BY <2>2, <3>1
    <3>3. a + b + e <= MAX_REQUEST_SIZE
      BY <3>1 DEF RoomInv
    <3> QED
      BY <3>1, <3>2, <3>3, RoomArithmetic, ServerAssumption DEF TooLarge
  <2>5. /\ conn'[c].read_buffer = Append(conn[c].read_buffer, Head(inbox[c]))
        /\ \A d \in Clients : d # c => conn'[d] = conn[d]
    BY <1>4, <2>1, <2>4 DEF RecvData, ConnType, Connections
  <2>6. inbox'[c] = Tail(inbox[c]) /\ \A d \in Clients : d # c => inbox'[d] = inbox[d]
    BY <1>0, <2>3
  <2>7. OnTheWay(c)' = OnTheWay(c)
    <3>1. PICK buf \in Seq(Pieces), x \in Seq(Pieces) : buf = conn[c].read_buffer /\ x = inbox[c]
      BY <2>2
    <3>2. Append(buf, Head(x)) \o Tail(x) = buf \o x
      BY <2>2, <3>1, PieceMovesUp
    <3> QED
      BY <2>3, <2>5, <2>6, <3>1, <3>2 DEF OnTheWay
  <2> QED
    BY <1>2, <2>3, <2>5, <2>6, <2>7 DEF OnTheWay
<1>5. ASSUME NEW w \in Workers, Publish(w) PROVE WholeInv'
  <2>0. PICK c \in Clients : c = job[w]
    BY <1>5 DEF Publish, TaskInv
  <2>1. inbox[c] = <<>> /\ outgoing[c] = <<>>
    BY <1>5, <2>0 DEF Publish, Answers, Stage, DispatchInv, Dispatched, AtWork
  <2>2. /\ conn' = [conn EXCEPT ![c] = AfterPublish(@, resp[w])] /\ UNCHANGED <<inbox, outgoing>>
        /\ conn[c] \in Connections
    BY <1>5, <2>0 DEF Publish, Target, ConnType, clientVars
  <2>3. conn'[c].read_buffer = <<>> /\ \A d \in Clients : d # c => conn'[d] = conn[d]
    BY <2>2 DEF AfterPublish, Connections, ConnType
  <2>4. OnTheWay(c)' = <<>>
    BY <2>1, <2>2, <2>3 DEF OnTheWay
  <2> QED
    BY <1>2, <2>2, <2>3, <2>4 DEF OnTheWay
<1>6. CASE AcceptInsert
  <2>1. PICK c \in Clients : c = fdOwner[cur]
    BY <1>6 DEF AcceptInsert, CurInv, KernelType
  <2>2. /\ conn' = [conn EXCEPT ![c] = NewConnection(cur)] /\ UNCHANGED <<inbox, outgoing>>
        /\ conn[c].read_buffer = <<>>
    BY <1>6, <2>1 DEF AcceptInsert, Answers, FreshInv, clientVars
  <2>3. conn'[c].read_buffer = <<>> /\ \A d \in Clients : d # c => conn'[d] = conn[d]
    BY <2>2 DEF ConnType, NewConnection
  <2> QED
    BY <1>2, <2>2, <2>3 DEF OnTheWay
<1>7. CASE /\ ~AcceptInsert /\ ~RecvData /\ ~(\E w \in Workers : Publish(w))
           /\ ~(\E c \in Clients : SendPiece(c))
           /\ ~(\E c \in Clients, shape \in Shapes, keep \in BOOLEAN : BeginRequest(c, shape, keep))
  <2>1. UNCHANGED <<inbox, outgoing>>
    BY <1>7 DEF vars, clientVars, Next, ClientStep, WorkerStep, LoopStep, Connect, HangUp, Elapse,
       TakeTask, Process, Rearm, Wait, Dispatch, AcceptNone, AcceptReject, AcceptRegister, Accept4,
       RecvEnd, RecvAgain, WriteNothing, SendChunk, SendAgain, SendError, WriteDone, Erase,
       EpollRemove, Close, Scan, Reap, ReapEnd, Orderly
  <2> QED
    BY <1>2, <1>7, <2>1, ConnSteps DEF OnTheWay
<1> QED
  BY <1>1, <1>3, <1>4, <1>5, <1>6, <1>7

-----------------------------------------------------------------------------
(* Answers, and what keeps a connection open                                *)

\* process_request: the 429 and the 400 leave keep_alive as it was.
LEMMA ProcessEffect ==
    ASSUME Orderly, Inv, Answers, Turns, WholeInv, NEW w \in Workers, Process(w)
    PROVE  \E c \in Clients :
              /\ c = job[w] /\ Dispatched(c) /\ conn[c].write_buffer = None
              /\ UNCHANGED <<nreq, received, job>> /\ resp'[w] # None /\ resp[w] = None
              /\ \A v \in Workers : v # w =>
                    resp'[v] = resp[v] /\ (resp[v] # None => job[v] # c)
              /\ \A d \in Clients : /\ conn'[d].write_buffer = conn[d].write_buffer
                                    /\ d # c => conn'[d].keep_alive = conn[d].keep_alive
              /\ Due(resp'[w])
              /\ \/ /\ resp'[w].status \in {"limited", "bad"}
                    /\ conn'[c].keep_alive = conn[c].keep_alive
                 \/ /\ resp'[w].status = "ok"
                    /\ resp'[w].announce = "keep" <=> conn'[c].keep_alive
<1> USE TypeParts DEF Inv
<1>0. PICK c \in Clients : c = job[w]
  BY DEF Process, TaskInv
<1> DEFINE buf == conn[c].read_buffer
           n == IF buf = <<>> THEN 0 ELSE buf[1].req
           keep == WantsKeepAlive(buf)
<1>1. wat[w] = "process" /\ Dispatched(c) /\ conn[c].write_buffer = None /\ buf # <<>>
      /\ buf \in Seq(Pieces) /\ conn[c].fd \in Fds
  BY <1>0 DEF Process, Dispatched, AtWork, Answers, Stage, DispatchInv, TaskInv, ConnType, Connections
<1>2. WellFormed => Parses(buf)
  BY <1>1, DispatchedParses
<1>3. /\ wat' = [wat EXCEPT ![w] = "publish"] /\ UNCHANGED <<clientVars, job>>
      /\ \/ resp' = [resp EXCEPT ![w] = Response(c, n, "limited", FALSE)] /\ UNCHANGED conn
         \/ /\ resp' = [resp EXCEPT ![w] = Response(c, n, "bad", FALSE)] /\ UNCHANGED conn
            /\ ~WellFormed
         \/ /\ resp' = [resp EXCEPT ![w] = Response(c, n, "ok", keep)]
            /\ conn' = [conn EXCEPT ![c].keep_alive = keep]
  BY <1>0, <1>2 DEF Process
<1>4. n \in 0..MaxRequests /\ keep \in BOOLEAN
  <2>1. buf[1] \in Pieces
    BY <1>1
  <2>2. buf[1].req \in 1..MaxRequests /\ buf[1].keep \in BOOLEAN
    BY <2>1 DEF Pieces
  <2> QED
    BY <1>1, <2>2, ServerAssumption DEF WantsKeepAlive
<1> HIDE DEF n, keep
<1>5. /\ Response(c, n, "limited", FALSE) \in Responses
      /\ Response(c, n, "bad", FALSE) \in Responses
      /\ Response(c, n, "ok", keep) \in Responses
  BY <1>1, <1>4, ResponseType DEF Statuses
<1>6. resp'[w] # None
  BY <1>3, <1>5, NoneAssumption DEF WorkType
<1>7. \A v \in Workers : v # w => resp'[v] = resp[v] /\ (resp[v] # None => job[v] # c)
  BY <1>0, <1>1, <1>3 DEF WorkType, Turns, ExclusiveInv, ChargedInv
<1>8. \A d \in Clients : conn'[d].write_buffer = conn[d].write_buffer
                         /\ (d # c => conn'[d].keep_alive = conn[d].keep_alive)
  <2>1. \A d \in Clients : \/ conn'[d] = conn[d]
                           \/ d = c /\ conn'[d] = [conn[d] EXCEPT !.keep_alive = keep]
    BY <1>3 DEF ConnType
  <2>2. \A d \in Clients : conn[d] \in Connections
    BY DEF ConnType
  <2> QED
    BY <2>1, <2>2 DEF Connections
<1>9. /\ Due(resp'[w])
      /\ \/ /\ resp'[w].status \in {"limited", "bad"}
            /\ conn'[c].keep_alive = conn[c].keep_alive
         \/ resp'[w].status = "ok" /\ (resp'[w].announce = "keep" <=> conn'[c].keep_alive)
  <2>1. CASE resp' = [resp EXCEPT ![w] = Response(c, n, "limited", FALSE)] /\ UNCHANGED conn
    BY <2>1 DEF WorkType, Response, Due
  <2>3. CASE /\ resp' = [resp EXCEPT ![w] = Response(c, n, "bad", FALSE)] /\ UNCHANGED conn
             /\ ~WellFormed
    BY <2>3 DEF WorkType, Response, Due
  <2>2. CASE /\ resp' = [resp EXCEPT ![w] = Response(c, n, "ok", keep)]
             /\ conn' = [conn EXCEPT ![c].keep_alive = keep]
    <3>1. resp'[w].status = "ok" /\ (resp'[w].announce = "keep" <=> keep)
      BY <1>4, <2>2 DEF WorkType, Response
    <3>2. conn'[c].keep_alive = keep
      BY <2>2 DEF ConnType, Connections
    <3> QED
      BY <3>1, <3>2 DEF Due
  <2> QED
    BY <1>3, <2>1, <2>2, <2>3
<1>10. resp[w] = None
  BY <1>1 DEF Turns, ChargedInv
<1> QED
  BY <1>0, <1>1, <1>3, <1>6, <1>7, <1>8, <1>9, <1>10 DEF clientVars

\* A worker that publishes hands its answer over.
LEMMA PublishEffect ==
    ASSUME Inv, Answers, Turns, NEW w \in Workers, Publish(w)
    PROVE  \E c \in Clients :
              /\ c = job[w] /\ conn[c].write_buffer = None
              /\ UNCHANGED <<nreq, received, job>>
              /\ conn'[c].write_buffer = resp[w] /\ resp[w] # None /\ resp'[w] = None
              /\ \A v \in Workers : v # w => resp'[v] = resp[v]
              /\ \A d \in Clients : /\ conn'[d].keep_alive = conn[d].keep_alive
                                    /\ d # c => conn'[d].write_buffer = conn[d].write_buffer
<1> USE TypeParts DEF Inv
<1>0. PICK c \in Clients : c = job[w]
  BY DEF Publish, TaskInv
<1>1. /\ conn' = [conn EXCEPT ![c] = AfterPublish(@, resp[w])]
      /\ resp' = [resp EXCEPT ![w] = None] /\ UNCHANGED <<clientVars, job>> /\ resp[w] \in Responses
      /\ conn[c] \in Connections /\ conn[c].write_buffer = None
  BY <1>0 DEF Publish, Target, TaskInv, ConnType, Answers, Stage, DispatchInv, Dispatched, AtWork
<1>2. /\ conn'[c].write_buffer = resp[w] /\ resp[w] # None
      /\ \A d \in Clients : conn'[d].keep_alive = conn[d].keep_alive
                            /\ (d # c => conn'[d].write_buffer = conn[d].write_buffer)
  BY <1>1, NoneAssumption DEF AfterPublish, Connections, ConnType
<1>3. resp'[w] = None /\ \A v \in Workers : v # w => resp'[v] = resp[v]
  BY <1>1 DEF WorkType
<1> QED
  BY <1>0, <1>1, <1>2, <1>3 DEF clientVars

\* handle_write sends one more chunk of the answer.
LEMMA SendEffect ==
    ASSUME Inv, SendChunk
    PROVE  \E c \in Clients :
              /\ c = Reading /\ conn[c].fd \in Fds /\ conn[c].write_buffer # None
              /\ UNCHANGED <<nreq, workVars, connections_, epoll, loopVars>>
              /\ Len(received'[c]) = Len(received[c]) + 1 /\ received'[c] # <<>>
              /\ Last(received'[c]).resp = conn[c].write_buffer
              /\ received'[c][Len(received[c]) + 1].resp = conn[c].write_buffer
              /\ \A i \in 1..Len(received[c]) : received'[c][i] = received[c][i]
              /\ \A d \in Clients : d # c => received'[d] = received[d]
              /\ \A d \in Clients : /\ conn'[d].keep_alive = conn[d].keep_alive
                                    /\ conn'[d].write_buffer = conn[d].write_buffer
                                    /\ conn'[d].fd = conn[d].fd
<1> USE TypeParts DEF Inv
<1>1. PICK c \in Clients : c = Reading /\ conn[c].fd \in Fds
  BY ReadingType DEF SendChunk
<1> DEFINE m == [resp |-> conn[c].write_buffer, k |-> conn[c].bytes_sent + 1]
<1>2. PICK r \in Seq([resp : Responses, k : 1..Chunks]) : r = received[c]
  BY DEF ClientType
<1>3. /\ received'[c] = Append(r, m) /\ conn[c].write_buffer # None
      /\ \A d \in Clients : d # c => received'[d] = received[d]
      /\ UNCHANGED <<nreq, workVars, connections_, epoll, loopVars>>
  BY <1>1, <1>2 DEF SendChunk, ClientType, Unsent, kernelVars
<1>4. m.resp = conn[c].write_buffer
  OBVIOUS
<1> HIDE DEF m
<1>5. PICK n \in Nat : n = Len(r)
  BY <1>2
<1>6. Append(r, m) # <<>> /\ Len(Append(r, m)) = n + 1 /\ Append(r, m)[n + 1] = m
      /\ \A i \in 1..n : Append(r, m)[i] = r[i]
  BY <1>2, <1>5
<1>7. Last(Append(r, m)) = m
  BY <1>6 DEF Last
<1>8. \A d \in Clients : /\ conn'[d].keep_alive = conn[d].keep_alive
                         /\ conn'[d].write_buffer = conn[d].write_buffer
                         /\ conn'[d].fd = conn[d].fd
  <2>1. \A d \in Clients : \/ conn'[d] = conn[d]
                           \/ conn'[d] = [conn[d] EXCEPT !.bytes_sent = NextOffset(conn[Reading])]
    BY DEF SendChunk, ConnType
  <2>2. \A d \in Clients : conn[d] \in Connections
    BY DEF ConnType
  <2> QED
    BY <2>1, <2>2 DEF Connections
<1>9. /\ Len(received'[c]) = Len(received[c]) + 1 /\ received'[c] # <<>>
      /\ received'[c][Len(received[c]) + 1] = m
      /\ \A i \in 1..Len(received[c]) : received'[c][i] = received[c][i]
  BY <1>2, <1>3, <1>5, <1>6
<1>10. Last(received'[c]).resp = conn[c].write_buffer
  BY <1>3, <1>4, <1>7
<1>11. received'[c][Len(received[c]) + 1].resp = conn[c].write_buffer
  BY <1>4, <1>9
<1> QED
  BY <1>1, <1>3, <1>8, <1>9, <1>10, <1>11

\* handle_write is through with an answer.
LEMMA WriteDoneEffect ==
    ASSUME Inv, Answers, Turns, LastInv, WriteDone
    PROVE  \E c \in Clients :
              /\ c = Reading /\ ~Busy(c) /\ conn[c].write_buffer # None
              /\ UNCHANGED <<nreq, received, workVars, connections_>>
              /\ Answered(c) /\ nreq[c] > 0
              /\ received[c] # <<>> /\ Last(received[c]).resp = conn[c].write_buffer
              /\ \A d \in Clients : /\ conn'[d].keep_alive = conn[d].keep_alive
                                    /\ conn'[d].fd = conn[d].fd
              /\ conn'[c].write_buffer = None
              /\ \A d \in Clients : d # c => conn'[d].write_buffer = conn[d].write_buffer
<1> USE TypeParts DEF Inv
<1>1. PICK c \in Clients : c = Reading
  BY ReadingType DEF WriteDone
<1>2. conn[c].write_buffer # None /\ ~Busy(c)
  BY <1>1 DEF WriteDone, Turns, TurnInv, Sending
<1>3. /\ nreq[c] \in Nat /\ conn[c].bytes_sent \in 0..Chunks /\ Chunks \in Nat \ {0}
  BY ServerAssumption DEF ClientType, ConnType, Connections
<1>4. conn[c].bytes_sent = Chunks
  BY <1>1, <1>3 DEF WriteDone, Unsent
<1>5. nreq[c] > 0 /\ Len(received[c]) = Chunks * (nreq[c] - 1) + Chunks
  BY <1>2, <1>4 DEF Answers, Stage, CountInv, UnderWay
<1>6. Answered(c)
  BY <1>3, <1>5 DEF Answered
<1>7. received[c] # <<>> /\ Last(received[c]).resp = conn[c].write_buffer
  BY <1>3, <1>4 DEF LastInv
<1>8. /\ conn'[c].write_buffer = None
      /\ \A d \in Clients : d # c => conn'[d].write_buffer = conn[d].write_buffer
      /\ \A d \in Clients : /\ conn'[d].keep_alive = conn[d].keep_alive
                            /\ conn'[d].fd = conn[d].fd
  <2>1. \A d \in Clients : \/ d # c /\ conn'[d] = conn[d]
                           \/ d = c /\ conn'[d] = [conn[d] EXCEPT !.write_buffer = None,
                                                     !.bytes_sent = 0, !.is_writing = FALSE]
    BY <1>1 DEF WriteDone, ConnType
  <2>2. \A d \in Clients : conn[d] \in Connections
    BY DEF ConnType
  <2> QED
    BY <2>1, <2>2 DEF Connections
<1> QED
  BY <1>1, <1>2, <1>5, <1>6, <1>7, <1>8 DEF WriteDone, clientVars

\* handle_accept puts a new client into the table.
LEMMA InsertEffect ==
    ASSUME Inv, Answers, Turns, AcceptInsert
    PROVE  \E c \in Clients :
              /\ cur \in Fds /\ connections_' = [connections_ EXCEPT ![cur] = c]
              /\ UNCHANGED <<nreq, received, workVars>> /\ conn[c].fd = None
              /\ conn[c].write_buffer = None
              /\ ~conn'[c].keep_alive /\ conn'[c].write_buffer = None /\ conn'[c].fd = cur
              /\ \A v \in Workers : resp[v] # None => job[v] # c
              /\ \A d \in Clients : d # c => conn'[d] = conn[d]
<1> USE TypeParts DEF Inv
<1>1. PICK c \in Clients : c = fdOwner[cur] /\ cur \in Fds
  BY DEF AcceptInsert, CurInv, KernelType
<1>2. /\ conn' = [conn EXCEPT ![c] = NewConnection(cur)] /\ UNCHANGED <<clientVars, workVars>>
      /\ conn[c].fd = None /\ conn[c].write_buffer = None
      /\ connections_' = [connections_ EXCEPT ![cur] = c]
  BY <1>1 DEF AcceptInsert, Answers, FreshInv
<1>3. conn'[c] = NewConnection(cur) /\ \A d \in Clients : d # c => conn'[d] = conn[d]
  BY <1>2 DEF ConnType
<1>4. \A v \in Workers : resp[v] # None => job[v] # c
  BY <1>2, ServerAssumption DEF Turns, ChargedInv, TaskInv
<1>5. ~conn'[c].keep_alive /\ conn'[c].write_buffer = None /\ conn'[c].fd = cur
  BY <1>3 DEF NewConnection
<1>6. UNCHANGED <<nreq, received>>
  BY <1>2 DEF clientVars
<1> QED
  BY <1>1, <1>2, <1>3, <1>4, <1>5, <1>6

\* The steps that change an answer, what was sent, or who has a table entry.
Telling ==
    \/ \E w \in Workers : Process(w) \/ Publish(w)
    \/ SendChunk \/ WriteDone \/ AcceptInsert

LEMMA OtherSteps ==
    ASSUME Inv, Turns, [Next]_vars, ~Telling
    PROVE  /\ UNCHANGED <<received, resp>>
           /\ \A v \in Workers : resp[v] # None => job'[v] = job[v]
           /\ \A d \in Clients : /\ conn'[d].keep_alive = conn[d].keep_alive
                                 /\ conn'[d].write_buffer = conn[d].write_buffer
                                 /\ conn'[d].fd = conn[d].fd
<1> USE TypeParts DEF Inv
<1>1. UNCHANGED <<received, resp>> /\ (UNCHANGED job \/ \E w \in Workers : TakeTask(w) \/ Rearm(w))
  BY DEF Telling, vars, clientVars, workVars, Next, ClientStep, WorkerStep, LoopStep, Connect,
     BeginRequest, SendPiece, HangUp, Elapse, TakeTask, Rearm, Wait, Dispatch, AcceptNone,
     AcceptReject, AcceptRegister, Accept4, RecvData, RecvEnd, RecvAgain, WriteNothing, SendAgain,
     SendError, Erase, EpollRemove, Close, Scan, Reap, ReapEnd
<1>2. \A v \in Workers : resp[v] # None => job'[v] = job[v]
  BY <1>1 DEF TakeTask, Rearm, WorkType, Turns, ChargedInv
<1> QED
  BY <1>1, <1>2, ConnSteps DEF Telling

\* Every answer is sound.
LEMMA NextSound ==
    ASSUME Orderly, Inv, Answers, Turns, LastInv, WholeInv, SoundInv, [Next]_vars
    PROVE  SoundInv'
<1> USE TypeParts DEF Inv
<1>0. \A v \in Workers : resp[v] # None => job[v] \in Clients
  BY DEF Turns, ChargedInv, TaskInv
<1>1. ASSUME NEW w \in Workers, Process(w) PROVE SoundInv'
  <2>1. PICK c \in Clients :
           /\ c = job[w] /\ conn[c].write_buffer = None
           /\ UNCHANGED <<received, job>>
           /\ \A v \in Workers : v # w => resp'[v] = resp[v] /\ (resp[v] # None => job[v] # c)
           /\ \A d \in Clients : /\ conn'[d].write_buffer = conn[d].write_buffer
                                 /\ d # c => conn'[d].keep_alive = conn[d].keep_alive
           /\ Due(resp'[w])
           /\ \/ resp'[w].status \in {"limited", "bad"}
              \/ resp'[w].status = "ok" /\ (resp'[w].announce = "keep" <=> conn'[c].keep_alive)
    BY <1>1, ProcessEffect
  <2> QED
    BY <1>0, <2>1 DEF SoundInv, Sound
<1>2. ASSUME NEW w \in Workers, Publish(w) PROVE SoundInv'
  <2>1. PICK c \in Clients :
           /\ c = job[w] /\ UNCHANGED <<received, job>>
           /\ conn'[c].write_buffer = resp[w] /\ resp[w] # None /\ resp'[w] = None
           /\ \A v \in Workers : v # w => resp'[v] = resp[v]
           /\ \A d \in Clients : /\ conn'[d].keep_alive = conn[d].keep_alive
                                 /\ d # c => conn'[d].write_buffer = conn[d].write_buffer
    BY <1>2, PublishEffect
  <2> QED
    BY <1>0, <2>1 DEF SoundInv, Sound
<1>3. CASE SendChunk
  <2>1. PICK c \in Clients :
           /\ conn[c].write_buffer # None /\ UNCHANGED workVars
           /\ Len(received'[c]) = Len(received[c]) + 1
           /\ received'[c][Len(received[c]) + 1].resp = conn[c].write_buffer
           /\ \A i \in 1..Len(received[c]) : received'[c][i] = received[c][i]
           /\ \A d \in Clients : d # c => received'[d] = received[d]
           /\ \A d \in Clients : /\ conn'[d].keep_alive = conn[d].keep_alive
                                 /\ conn'[d].write_buffer = conn[d].write_buffer
    BY <1>3, SendEffect
  <2>2. PICK n \in Nat : n = Len(received[c])
    BY DEF ClientType
  <2>3. \A i \in 1..(n + 1) : i \in 1..n \/ i = n + 1
    OBVIOUS
  <2>4. \A i \in 1..Len(received'[c]) : Due(received'[c][i].resp)
    BY <2>1, <2>2, <2>3 DEF SoundInv, Sound
  <2>5. \A d \in Clients : \A i \in 1..Len(received'[d]) : Due(received'[d][i].resp)
    BY <2>1, <2>4 DEF SoundInv
  <2>6. \A v \in Workers : resp'[v] # None => Sound(resp'[v], conn'[job'[v]].keep_alive)
    BY <1>0, <2>1 DEF SoundInv, Sound, workVars
  <2>7. \A d \in Clients : conn'[d].write_buffer # None =>
           Sound(conn'[d].write_buffer, conn'[d].keep_alive)
    BY <2>1 DEF SoundInv, Sound
  <2> QED
    BY <2>5, <2>6, <2>7 DEF SoundInv, Sound
<1>4. ASSUME UNCHANGED <<received, resp>>,
             \A v \in Workers : resp[v] # None =>
                job'[v] = job[v] /\ conn'[job[v]].keep_alive = conn[job[v]].keep_alive,
             \A d \in Clients : conn'[d].write_buffer # None =>
                /\ conn'[d].write_buffer = conn[d].write_buffer
                /\ conn'[d].keep_alive = conn[d].keep_alive
      PROVE  SoundInv'
  BY <1>0, <1>4 DEF SoundInv, Sound
<1>5. CASE WriteDone
  BY <1>0, <1>4, <1>5, WriteDoneEffect DEF workVars
<1>6. CASE AcceptInsert
  <2>1. PICK c \in Clients :
           /\ UNCHANGED <<received, workVars>> /\ conn'[c].write_buffer = None
           /\ \A v \in Workers : resp[v] # None => job[v] # c
           /\ \A d \in Clients : d # c => conn'[d] = conn[d]
    BY <1>6, InsertEffect
  <2> QED
    BY <1>0, <1>4, <2>1 DEF workVars
<1>7. CASE ~Telling
  BY <1>0, <1>4, <1>7, OtherSteps
<1> QED
  BY <1>1, <1>2, <1>3, <1>5, <1>6, <1>7 DEF Telling

LEMMA Numbers ==
    ASSUME Inv
    PROVE  /\ Chunks \in Nat /\ Chunks > 0
           /\ nreq \in [Clients -> Nat]
           /\ received \in [Clients -> Seq([resp : Responses, k : 1..Chunks])]
           /\ \A c \in Clients : conn[c].bytes_sent \in Nat
<1> USE TypeParts DEF Inv
<1>1. Chunks \in Nat /\ Chunks > 0 /\ MaxRequests \in Nat
  BY ServerAssumption
<1>2. nreq \in [Clients -> 0..MaxRequests]
  BY DEF ClientType
<1>3. nreq \in [Clients -> Nat]
  BY <1>1, <1>2
<1>4. received \in [Clients -> Seq([resp : Responses, k : 1..Chunks])]
  BY DEF ClientType
<1>5. \A c \in Clients : conn[c].bytes_sent \in Nat
  BY <1>1 DEF ConnType, Connections
<1> QED
  BY <1>1, <1>3, <1>4, <1>5

\* Who would be kept without having been given a 200 has been sent nothing.
LEMMA NextFirst ==
    ASSUME Orderly, Inv, Answers, Turns, LastInv, WholeInv, FirstInv, [Next]_vars
    PROVE  FirstInv'
<1> USE TypeParts DEF Inv
<1>0. nreq \in [Clients -> Nat]
  BY Numbers
<1>1. ASSUME NEW w \in Workers, Process(w) PROVE FirstInv'
  <2>1. PICK c \in Clients :
           /\ c = job[w] /\ Dispatched(c) /\ conn[c].write_buffer = None
           /\ UNCHANGED <<nreq, received, job>> /\ resp'[w] # None /\ resp[w] = None
           /\ \A v \in Workers : v # w => resp'[v] = resp[v] /\ (resp[v] # None => job[v] # c)
           /\ \A d \in Clients : /\ conn'[d].write_buffer = conn[d].write_buffer
                                 /\ d # c => conn'[d].keep_alive = conn[d].keep_alive
           /\ \/ /\ resp'[w].status \in {"limited", "bad"}
                 /\ conn'[c].keep_alive = conn[c].keep_alive
              \/ resp'[w].status = "ok"
    BY <1>1, ProcessEffect
  <2>2. nreq[c] > 0 /\ (nreq[c] = 1 => received[c] = <<>>)
    <3>1. /\ nreq[c] > 0 /\ conn[c].bytes_sent = 0
          /\ Len(received[c]) = Chunks * (nreq[c] - 1) + conn[c].bytes_sent
      BY <2>1 DEF Answers, Stage, CountInv, AnswerInv, UnderWay
    <3>2. nreq[c] = 1 => Len(received[c]) = 0
      BY <3>1, Numbers
    <3>3. PICK r \in Seq([resp : Responses, k : 1..Chunks]) : r = received[c]
      BY Numbers
    <3>4. Len(r) = 0 => r = <<>>
      OBVIOUS
    <3> QED
      BY <3>1, <3>2, <3>3, <3>4
  <2>3. nreq[c] = 1 => ~Welcome(c)
    BY <2>1, <2>2 DEF Welcome
  <2>4. \A d \in Clients : d # c /\ Welcome(d) => Welcome(d)'
    BY <2>1 DEF Welcome
  <2>5. resp'[w].status = "ok" => Welcome(c)'
    BY <2>1 DEF Welcome
  <2> QED
    BY <2>1, <2>2, <2>3, <2>4, <2>5 DEF FirstInv
<1>2. ASSUME \A d \in Clients : /\ nreq'[d] = nreq[d]
                                /\ conn'[d].keep_alive => conn[d].keep_alive
                                /\ conn'[d].keep_alive /\ nreq[d] = 1 /\ Welcome(d) => Welcome(d)'
      PROVE  FirstInv'
  BY <1>2 DEF FirstInv
<1>3. ASSUME NEW w \in Workers, Publish(w) PROVE FirstInv'
  <2>1. PICK c \in Clients :
           /\ c = job[w] /\ conn[c].write_buffer = None
           /\ UNCHANGED <<nreq, received, job>>
           /\ conn'[c].write_buffer = resp[w] /\ resp[w] # None /\ resp'[w] = None
           /\ \A v \in Workers : v # w => resp'[v] = resp[v]
           /\ \A d \in Clients : /\ conn'[d].keep_alive = conn[d].keep_alive
                                 /\ d # c => conn'[d].write_buffer = conn[d].write_buffer
    BY <1>3, PublishEffect
  <2>2. \A d \in Clients : Welcome(d) => Welcome(d)'
    BY <2>1 DEF Welcome
  <2> QED
    BY <1>2, <2>1, <2>2
<1>4. CASE SendChunk
  <2>1. PICK c \in Clients :
           /\ c = Reading /\ conn[c].write_buffer # None
           /\ UNCHANGED <<nreq, workVars>>
           /\ received'[c] # <<>>
           /\ Last(received'[c]).resp = conn[c].write_buffer
           /\ \A d \in Clients : d # c => received'[d] = received[d]
           /\ \A d \in Clients : /\ conn'[d].keep_alive = conn[d].keep_alive
                                 /\ conn'[d].write_buffer = conn[d].write_buffer
    BY <1>4, SendEffect
  <2>2. \A d \in Clients : d # c /\ Welcome(d) => Welcome(d)'
    BY <2>1 DEF Welcome, workVars
  <2>3. nreq[c] = 1 /\ Welcome(c) => Welcome(c)'
    <3> SUFFICES ASSUME nreq[c] = 1, Welcome(c) PROVE Welcome(c)'
      OBVIOUS
    <3>1. CASE received[c] # <<>> /\ Last(received[c]).resp.status = "ok"
      <4>1. Len(received[c]) = Chunks * (1 - 1) + conn[c].bytes_sent
        BY <2>1 DEF Answers, Stage, CountInv, UnderWay
      <4>2. Chunks \in Nat /\ conn[c].bytes_sent \in Nat
            /\ received[c] \in Seq([resp : Responses, k : 1..Chunks])
        BY Numbers
      <4>3. Len(received[c]) = conn[c].bytes_sent
        BY <4>1, <4>2
      <4>4. conn[c].bytes_sent > 0
        BY <3>1, <4>2, <4>3
      <4>5. Last(received[c]).resp = conn[c].write_buffer
        BY <4>4 DEF LastInv
      <4> QED
        BY <2>1, <3>1, <4>5 DEF Welcome
    <3>2. CASE ~(received[c] # <<>> /\ Last(received[c]).resp.status = "ok")
      BY <2>1, <3>2 DEF Welcome, workVars
    <3> QED
      BY <3>1, <3>2
  <2> QED
    BY <1>2, <2>1, <2>2, <2>3
<1>5. CASE WriteDone
  <2>1. PICK c \in Clients :
           /\ ~Busy(c) /\ conn[c].write_buffer # None /\ UNCHANGED <<nreq, received, workVars>>
           /\ received[c] # <<>> /\ Last(received[c]).resp = conn[c].write_buffer
           /\ \A d \in Clients : conn'[d].keep_alive = conn[d].keep_alive
           /\ \A d \in Clients : d # c => conn'[d].write_buffer = conn[d].write_buffer
    BY <1>5, WriteDoneEffect
  <2>2. \A d \in Clients : Welcome(d) => Welcome(d)'
    BY <2>1 DEF Welcome, workVars
  <2> QED
    BY <1>2, <2>1, <2>2
<1>6. CASE AcceptInsert
  <2>1. PICK c \in Clients :
           /\ UNCHANGED <<nreq, received, workVars>> /\ ~conn'[c].keep_alive
           /\ \A d \in Clients : d # c => conn'[d] = conn[d]
    BY <1>6, InsertEffect
  <2>2. \A d \in Clients : d # c /\ Welcome(d) => Welcome(d)'
    BY <2>1 DEF Welcome, workVars
  <2> QED
    BY <1>2, <2>1, <2>2
<1>7. CASE ~Telling
  <2>1. /\ UNCHANGED <<received, resp>>
        /\ \A v \in Workers : resp[v] # None => job'[v] = job[v]
        /\ \A d \in Clients : /\ conn'[d].keep_alive = conn[d].keep_alive
                              /\ conn'[d].write_buffer = conn[d].write_buffer
    BY <1>7, OtherSteps
  <2>2. \A d \in Clients : Welcome(d) => Welcome(d)'
    BY <2>1 DEF Welcome
  <2>3. \A d \in Clients : nreq'[d] \in {nreq[d], nreq[d] + 1}
    BY <1>0, <1>7 DEF Telling, vars, clientVars, Next, ClientStep, WorkerStep, LoopStep, Connect,
       BeginRequest, SendPiece, HangUp, Elapse, TakeTask, Rearm, Wait, Dispatch, AcceptNone,
       AcceptReject, AcceptRegister, Accept4, RecvData, RecvEnd, RecvAgain, WriteNothing, SendAgain,
       SendError, Erase, EpollRemove, Close, Scan, Reap, ReapEnd
  <2>4. ASSUME NEW d \in Clients, conn'[d].keep_alive
        PROVE  nreq'[d] > 0 /\ (nreq'[d] = 1 => Welcome(d)')
    <3>1. conn[d].keep_alive /\ nreq[d] \in Nat /\ nreq[d] > 0 /\ (nreq[d] = 1 => Welcome(d))
      BY <1>0, <2>1, <2>4 DEF FirstInv
    <3> QED
      BY <2>2, <2>3, <3>1
  <2> QED
    BY <2>4 DEF FirstInv
<1> QED
  BY <1>1, <1>3, <1>4, <1>5, <1>6, <1>7 DEF Telling

\* The answer before the last request stays what it was.
LEMMA NextPrevious ==
    ASSUME Orderly, Inv, Answers, Turns, PreviousInv, [Next]_vars PROVE PreviousInv'
<1> USE TypeParts DEF Inv
<1>0. /\ nreq \in [Clients -> Nat] /\ Chunks \in Nat /\ Chunks > 0
      /\ received \in [Clients -> Seq([resp : Responses, k : 1..Chunks])]
  BY Numbers
<1>1. ASSUME NEW c \in Clients, NEW shape \in Shapes, NEW keep \in BOOLEAN,
             BeginRequest(c, shape, keep)
      PROVE  PreviousInv'
  <2>1. /\ UNCHANGED received /\ nreq' = [nreq EXCEPT ![c] = @ + 1]
        /\ Len(received[c]) = Chunks * nreq[c]
        /\ received[c] # <<>> => Last(received[c]).resp.announce = "keep"
    BY <1>1 DEF BeginRequest, Orderly, OneAtATime, Answered
  <2>2. PICK n \in Nat : n = nreq[c]
    BY <1>0
  <2>3. nreq'[c] = n + 1 /\ \A d \in Clients : d # c => nreq'[d] = nreq[d]
    BY <1>0, <2>1, <2>2
  <2>4. ASSUME nreq'[c] > 1
        PROVE  /\ Chunks * (nreq'[c] - 1) \in 1..Len(received[c])
               /\ received[c][Chunks * (nreq'[c] - 1)].resp.announce = "keep"
    <3>1. PICK m \in Nat : m = Len(received[c])
      BY <1>0
    <3>2. n > 0 /\ m = Chunks * n
      BY <2>1, <2>2, <2>3, <2>4, <3>1
    <3>3. m > 0
      BY <1>0, <3>2
    <3>4. nreq'[c] - 1 = n
      BY <2>3
    <3>5. received[c] # <<>> /\ Last(received[c]) = received[c][m]
      BY <1>0, <3>1, <3>3 DEF Last
    <3> QED
      BY <2>1, <3>1, <3>2, <3>3, <3>4, <3>5
  <2> QED
    BY <2>1, <2>3, <2>4 DEF PreviousInv
<1>2. CASE SendChunk
  <2>1. PICK c \in Clients :
           /\ UNCHANGED nreq
           /\ Len(received'[c]) = Len(received[c]) + 1
           /\ \A i \in 1..Len(received[c]) : received'[c][i] = received[c][i]
           /\ \A d \in Clients : d # c => received'[d] = received[d]
    BY <1>2, SendEffect
  <2>2. PICK n \in Nat : n = Len(received[c])
    BY <1>0
  <2>3. \A i \in 1..n : i \in 1..(n + 1)
    OBVIOUS
  <2> QED
    BY <2>1, <2>2, <2>3 DEF PreviousInv
<1>3. CASE UNCHANGED <<nreq, received>>
  BY <1>3 DEF PreviousInv
<1>4. CASE ~SendChunk
           /\ ~(\E c \in Clients, shape \in Shapes, keep \in BOOLEAN : BeginRequest(c, shape, keep))
  <2>1. UNCHANGED <<nreq, received>>
    BY <1>4 DEF vars, clientVars, Next, ClientStep, WorkerStep, LoopStep, Connect,
       SendPiece, HangUp, Elapse, TakeTask, Process, Publish, Rearm, Wait, Dispatch, AcceptNone,
       AcceptReject, AcceptRegister, AcceptInsert, Accept4, RecvData, RecvEnd, RecvAgain,
       WriteNothing, SendAgain, SendError, WriteDone, Erase, EpollRemove, Close, Scan, Reap, ReapEnd
  <2> QED
    BY <1>3, <2>1
<1> QED
  BY <1>1, <1>2, <1>4

-----------------------------------------------------------------------------
(* What epoll watches                                                       *)

\* Who sets which interest.
LEMMA InterestSteps ==
    ASSUME Inv, [Next]_vars, NEW f \in Fds
    PROVE  \/ epoll'[f] = epoll[f]
           \/ epoll'[f] = "out"
           \/ f = cur /\ WriteDone
           \/ f = cur /\ AcceptRegister
           \/ f = cur /\ at \in {"limit", "remove", "close"} /\ epoll'[f] = "none"
<1> USE TypeParts DEF Inv, KernelType
<1>1. ASSUME NEW w \in Workers, Rearm(w) PROVE epoll'[f] \in {epoll[f], "out"}
  BY <1>1 DEF Rearm, EpollSet, RearmMode
<1>2. CASE WriteDone \/ AcceptRegister
  BY <1>2 DEF WriteDone, AcceptRegister, EpollSet
<1>3. CASE EpollRemove
  BY <1>3 DEF EpollRemove
<1>4. CASE AcceptReject \/ Close
  BY <1>4 DEF AcceptReject, Close, CloseFd
<1>5. CASE /\ ~(\E w \in Workers : Rearm(w)) /\ ~WriteDone /\ ~AcceptRegister /\ ~EpollRemove
           /\ ~AcceptReject /\ ~Close
  BY <1>5 DEF vars, kernelVars, Next, ClientStep, WorkerStep, LoopStep, Connect,
     BeginRequest, SendPiece, HangUp, Elapse, TakeTask, Process, Publish, Wait, Dispatch, AcceptNone,
     AcceptInsert, Accept4, RecvData, RecvEnd, RecvAgain, WriteNothing, SendChunk, SendAgain,
     SendError, Erase, Scan, Reap, ReapEnd
<1> QED
  BY <1>1, <1>2, <1>3, <1>4, <1>5

\* handle_write runs, and will run, on what is watched for output.
LEMMA NextOutput ==
    ASSUME Inv, OutputInv, [Next]_vars PROVE OutputInv'
<1> USE TypeParts DEF Inv
<1>1. ASSUME NEW e \in batch, e[1] # Listener PROVE e[1] \in Fds /\ epoll'[e[1]] \in {epoll[e[1]], "out"}
  <2>1. e[1] \in Mapped /\ e[1] \in Fds
    BY <1>1, MappedClients
  <2>2. at \in {"write", "remove", "close"} => e[1] # cur
    BY DEF BatchInv
  <2>3. at = "limit" => e[1] # cur
    BY <2>1 DEF CurInv, Mapped
  <2> QED
    BY <2>1, <2>2, <2>3, InterestSteps DEF WriteDone, AcceptRegister
<1>2. ASSUME NEW e \in batch', e[1] # Listener, e[2] = "out" PROVE epoll'[e[1]] = "out"
  <2>1. CASE Wait
    <3>1. e[1] \in Fds /\ e[2] \in EventsOf(e[1]) /\ UNCHANGED epoll
      BY <1>2, <2>1 DEF Wait, ReadyEvents, kernelVars
    <3> QED
      BY <1>2, <3>1 DEF EventsOf
  <2>2. CASE ~Wait
    <3>1. e \in batch
      BY <2>2 DEF vars, loopVars, Next, ClientStep, WorkerStep, LoopStep, Connect,
         BeginRequest, SendPiece, HangUp, Elapse, TakeTask, Process, Publish, Rearm, Dispatch,
         AcceptNone, AcceptReject, AcceptRegister, AcceptInsert, Accept4, RecvData, RecvEnd,
         RecvAgain, WriteNothing, SendChunk, SendAgain, SendError, WriteDone, Erase, EpollRemove,
         Close, Scan, Reap, ReapEnd
    <3> QED
      BY <1>1, <1>2, <3>1 DEF OutputInv
  <2> QED
    BY <2>1, <2>2
<1>3. at' = "write" => epoll'[cur'] = "out"
  <2>1. ASSUME Dispatch, at' = "write" PROVE epoll'[cur'] = "out"
    <3>1. PICK e \in batch : e[1] # Listener /\ e[2] = "out" /\ cur' = e[1]
      BY <2>1 DEF Dispatch, Goto, GotoClose, LoopType
    <3> QED
      BY <2>1, <3>1 DEF Dispatch, kernelVars, OutputInv
  <2>2. ASSUME ~Dispatch, at' = "write" PROVE epoll'[cur'] = "out"
    <3>1. at = "write" /\ cur' = cur /\ ~WriteDone
      BY <2>2 DEF vars, loopVars, Next, ClientStep, WorkerStep, LoopStep, Connect,
         BeginRequest, SendPiece, HangUp, Elapse, TakeTask, Process, Publish, Rearm, Wait,
         AcceptNone, AcceptReject, AcceptRegister, AcceptInsert, Accept4, RecvData, RecvEnd,
         RecvAgain, WriteNothing, SendChunk, SendAgain, SendError, WriteDone, Erase, EpollRemove,
         Close, Scan, Reap, ReapEnd, Goto, GotoClose, LoopType
    <3>2. cur \in Fds
      BY <3>1, ReadingType
    <3> QED
      BY <3>1, <3>2, InterestSteps DEF OutputInv, AcceptRegister
  <2> QED
    BY <2>1, <2>2
<1> QED
  BY <1>2, <1>3 DEF OutputInv

\* A connection is watched for input again only if its client may use it.
LEMMA NextInput ==
    ASSUME Orderly, Inv, Answers, Turns, LastInv, SoundInv, FirstInv, OutputInv, InputInv,
           [Next]_vars
    PROVE  InputInv'
<1> USE TypeParts DEF Inv
<1>0. received \in [Clients -> Seq([resp : Responses, k : 1..Chunks])]
  BY Numbers
<1>1. ASSUME NEW c \in Clients, NEW shape \in Shapes, NEW keep \in BOOLEAN,
             BeginRequest(c, shape, keep)
      PROVE  InputInv'
  <2>1. /\ UNCHANGED <<received, epoll, connections_, conn>>
        /\ \A d \in Clients : d # c => nreq'[d] = nreq[d]
        /\ received[c] # <<>> => Last(received[c]).resp.announce = "keep"
    BY <1>1 DEF BeginRequest, kernelVars, ClientType
  <2>2. \A d \in Clients : received[d] # <<>> /\ ToldToKeep(d) => ToldToKeep(d)'
    BY <2>1 DEF ToldToKeep, Answered
  <2> QED
    BY <2>1, <2>2, MappedClients DEF InputInv, Mapped
<1>2. CASE SendChunk
  <2>1. PICK c \in Clients :
           /\ c = Reading /\ conn[c].fd \in Fds
           /\ UNCHANGED <<nreq, connections_, epoll>>
           /\ \A d \in Clients : d # c => received'[d] = received[d]
           /\ \A d \in Clients : conn'[d].fd = conn[d].fd
    BY <1>2, SendEffect
  <2>2. epoll[cur] = "out" /\ conn[c].fd = cur
    BY <1>2, <2>1, ReadingType DEF SendChunk, OutputInv
  <2>3. \A f \in Mapped : epoll[f] = "in" => connections_[f] \in Clients /\ connections_[f] # c
    BY <2>2, MappedClients
  <2>4. \A d \in Clients : d # c /\ ToldToKeep(d) => ToldToKeep(d)'
    BY <2>1 DEF ToldToKeep, Answered
  <2>5. \A d \in Clients : conn'[d].fd = None => received'[d] = <<>>
    BY <2>1, ServerAssumption DEF InputInv
  <2> QED
    BY <2>1, <2>3, <2>4, <2>5 DEF InputInv, Mapped
<1>3. CASE WriteDone
  <2>1. PICK c \in Clients :
           /\ c = Reading /\ ~Busy(c) /\ conn[c].write_buffer # None
           /\ UNCHANGED <<nreq, received, connections_>>
           /\ Answered(c) /\ nreq[c] > 0
           /\ received[c] # <<>> /\ Last(received[c]).resp = conn[c].write_buffer
           /\ \A d \in Clients : conn'[d].fd = conn[d].fd
    BY <1>3, WriteDoneEffect
  <2>2. conn[c].keep_alive => ToldToKeep(c)
    <3> SUFFICES ASSUME conn[c].keep_alive PROVE ToldToKeep(c)
      OBVIOUS
    <3>1. Sound(conn[c].write_buffer, TRUE) /\ conn[c].write_buffer.status \in Statuses
      <4>1. conn[c].write_buffer \in Responses
        BY <2>1 DEF ConnType, Connections
      <4>2. conn[c].write_buffer.status \in Statuses
        BY <4>1 DEF Responses
      <4> QED
        BY <2>1, <4>2 DEF SoundInv, Sound
    <3>2. CASE conn[c].write_buffer.status = "ok"
      BY <2>1, <3>1, <3>2 DEF Sound, ToldToKeep
    <3>3. CASE conn[c].write_buffer.status # "ok"
      <4>1. \A v \in Workers : resp[v] # None => job[v] # c
        BY <2>1 DEF Turns, ChargedInv, Busy
      <4>2. ~Welcome(c)
        BY <2>1, <3>3, <4>1 DEF Welcome
      <4>3. nreq[c] # 1
        BY <4>2 DEF FirstInv
      <4>4. nreq[c] > 1
        BY <2>1, <4>3, Numbers
      <4> QED
        BY <2>1, <3>3, <4>4 DEF ToldToKeep
    <3> QED
      BY <3>2, <3>3
  <2>3. /\ epoll' = epoll \/ (conn[c].keep_alive /\ \A f \in Fds : f # cur => epoll'[f] = epoll[f])
    BY <1>3, <2>1 DEF WriteDone, KeepsOpen, EpollSet, KernelType
  <2>4. \A d \in Clients : ToldToKeep(d) => ToldToKeep(d)'
    BY <2>1 DEF ToldToKeep, Answered
  <2> QED
    BY <2>1, <2>2, <2>3, <2>4, MappedClients DEF InputInv, Mapped, Reading
<1>4. CASE AcceptInsert
  <2>1. PICK c \in Clients :
           /\ cur \in Fds /\ connections_' = [connections_ EXCEPT ![cur] = c]
           /\ UNCHANGED <<nreq, received>> /\ conn[c].fd = None /\ conn'[c].fd = cur
           /\ \A d \in Clients : d # c => conn'[d] = conn[d]
    BY <1>4, InsertEffect
  <2>2. received[c] = <<>> /\ UNCHANGED epoll
    BY <1>4, <2>1 DEF InputInv, AcceptInsert, kernelVars
  <2>3. \A f \in Fds : connections_'[f] = IF f = cur THEN c ELSE connections_[f]
    BY <2>1 DEF ConnType
  <2>4. \A d \in Clients : ToldToKeep(d) => ToldToKeep(d)'
    BY <2>1 DEF ToldToKeep, Answered
  <2>5. \A d \in Clients : conn'[d].fd = None => received'[d] = <<>>
    BY <2>1, <2>2 DEF InputInv
  <2>6. ASSUME NEW f \in Mapped', epoll'[f] = "in", received'[connections_'[f]] # <<>>
        PROVE  ToldToKeep(connections_[f])' /\ connections_'[f] = connections_[f]
    <3>1. f \in Fds /\ f # cur /\ f \in Mapped /\ connections_'[f] = connections_[f]
      BY <2>1, <2>2, <2>3, <2>6 DEF Mapped
    <3> QED
      BY <2>1, <2>2, <2>4, <2>6, <3>1, MappedClients DEF InputInv
  <2> QED
    BY <2>5, <2>6 DEF InputInv
<1>5. ASSUME UNCHANGED <<nreq, received>>, SameFds,
             \A f \in Mapped' : f \in Mapped /\ connections_'[f] = connections_[f],
             \A f \in Mapped' : epoll'[f] = "in" => epoll[f] = "in"
      PROVE  InputInv'
  <2>1. \A d \in Clients : ToldToKeep(d) => ToldToKeep(d)'
    BY <1>5 DEF ToldToKeep, Answered
  <2> QED
    BY <1>5, <2>1, MappedClients DEF InputInv, SameFds
<1>6. CASE /\ ~SendChunk /\ ~WriteDone /\ ~AcceptInsert
           /\ ~(\E c \in Clients, shape \in Shapes, keep \in BOOLEAN : BeginRequest(c, shape, keep))
  <2>1. UNCHANGED <<nreq, received>>
    BY <1>6 DEF vars, clientVars, Next, ClientStep, WorkerStep, LoopStep, Connect,
       SendPiece, HangUp, Elapse, TakeTask, Process, Publish, Rearm, Wait, Dispatch, AcceptNone,
       AcceptReject, AcceptRegister, Accept4, RecvData, RecvEnd, RecvAgain,
       WriteNothing, SendAgain, SendError, Erase, EpollRemove, Close, Scan, Reap, ReapEnd
  <2>2. SameFds
    BY <1>6, ConnSteps DEF SameFds
  <2>3. UNCHANGED connections_ \/ Erase
    BY <1>6 DEF vars, Next, ClientStep, WorkerStep, LoopStep, Connect,
       SendPiece, HangUp, Elapse, TakeTask, Process, Publish, Rearm, Wait, Dispatch, AcceptNone,
       AcceptReject, AcceptRegister, Accept4, RecvData, RecvEnd, RecvAgain,
       WriteNothing, SendAgain, SendError, EpollRemove, Close, Scan, Reap, ReapEnd
  <2>4. \A f \in Mapped' : f \in Mapped /\ connections_'[f] = connections_[f]
    BY <2>3 DEF Erase, WithoutEntry, Mapped, ConnType
  <2>5. \A f \in Mapped' : epoll'[f] = "in" => epoll[f] = "in"
    <3> SUFFICES ASSUME NEW f \in Mapped', epoll'[f] = "in" PROVE epoll[f] = "in"
      OBVIOUS
    <3>1. f \in Fds /\ f \in Mapped
      BY <2>4 DEF Mapped
    <3>2. AcceptRegister => f # cur
      BY <3>1 DEF AcceptRegister, CurInv, Mapped
    <3> QED
      BY <1>6, <3>1, <3>2, InterestSteps
  <2> QED
    BY <1>5, <2>1, <2>2, <2>4, <2>5
<1> QED
  BY <1>1, <1>2, <1>3, <1>4, <1>6

LEMMA NextManners ==
    ASSUME Orderly, Fits, Inv, Answers, Turns, Reasons, Manners, [Next]_vars
    PROVE  Manners'
  BY NextWhole, NextSound, NextFirst, NextPrevious, NextOutput, NextInput DEF Manners, Reasons

LEMMA MannersInvariance == ASSUME Orderly, Fits PROVE Spec => []Manners
<1>1. Spec => []Answers
  BY AnswersInvariance DEF Orderly
<1> QED
  BY <1>1, InitManners, NextManners, Invariance, TurnsInvariance, ReasonsInvariance, PTL DEF Spec

\* Where clients send requests whose head comes with the body, the server
\* answers no request with 400: each is parsed when all of it has come.
THEOREM NeverSpuriouslyBad ==
    ASSUME Orderly, Fits, WellFormed PROVE Spec => []NoSpuriousBadRequest
<1>1. Manners => NoSpuriousBadRequest
  BY DEF Manners, SoundInv, Due, NoSpuriousBadRequest
<1> QED
  BY <1>1, MannersInvariance, PTL

\* A connection goes back to reading requests only if the last answer
\* announced keep-alive, or it is a 429 or a 400 that follows one that did.
THEOREM CloseIsKept ==
    ASSUME Orderly, Fits PROVE Spec => []AnnouncedCloseIsKept
<1>1. ASSUME Inv, Manners PROVE AnnouncedCloseIsKept
  <2> SUFFICES ASSUME NEW f \in Mapped, epoll[f] = "in", received[connections_[f]] # <<>>
               PROVE  LET answers == received[connections_[f]] IN
                      \/ Last(answers).resp.announce = "keep"
                      \/ /\ Last(answers).resp.status # "ok" /\ Len(answers) > Chunks
                         /\ answers[Len(answers) - Chunks].resp.announce = "keep"
    BY DEF AnnouncedCloseIsKept
  <2>1. PICK c \in Clients : c = connections_[f]
    BY <1>1, MappedClients
  <2>2. ToldToKeep(c)
    BY <1>1, <2>1 DEF Manners, InputInv
  <2>3. ASSUME Last(received[c]).resp.announce # "keep"
        PROVE  /\ Last(received[c]).resp.status # "ok" /\ Len(received[c]) > Chunks
               /\ received[c][Len(received[c]) - Chunks].resp.announce = "keep"
    <3>1. Last(received[c]).resp.status # "ok" /\ nreq[c] > 1 /\ Answered(c)
      BY <2>2, <2>3 DEF ToldToKeep
    <3>2. PICK n \in Nat : n = nreq[c]
      BY <1>1, Numbers
    <3>3. /\ Chunks * (n - 1) \in 1..Len(received[c])
          /\ received[c][Chunks * (n - 1)].resp.announce = "keep"
      BY <1>1, <3>1, <3>2 DEF Manners, PreviousInv
    <3>4. PICK m \in Nat : m = Len(received[c]) /\ m = Chunks * n
      BY <1>1, <3>1, <3>2, Numbers DEF Answered
    <3>5. Chunks * n = Chunks * (n - 1) + Chunks
      BY <1>1, <3>2, Numbers
    <3>6. PICK k \in Nat : k = Chunks * (n - 1) /\ k >= 1
      BY <3>3, <3>4
    <3>7. m = k + Chunks /\ m > Chunks /\ m - Chunks = k
      BY <1>1, <3>4, <3>5, <3>6, Numbers
    <3> QED
      BY <3>1, <3>3, <3>4, <3>6, <3>7
  <2> QED
    BY <2>1, <2>3
<1> QED
  BY <1>1, Invariance, MannersInvariance, PTL
=============================================================================
