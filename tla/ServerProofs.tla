---------------------------- MODULE ServerProofs ----------------------------
(***************************************************************************)
(* Theorems about Server, for any clients, workers, descriptors, limits,   *)
(* request shapes and environment: the types, the consistency of the       *)
(* connection table, and that the loop handles no stale event.  The second *)
(* half adds the answers of clients that send one request at a time.       *)
(***************************************************************************)
EXTENDS Server, FiniteSetTheorems, WellFoundedInduction, TLAPS

\* The descriptor in hand.  handle_accept has a socket that is not mapped
\* yet, handle_read and handle_write one that is, close_connection one that
\* it has taken out of the map after its first step.
CurInv ==
    /\ at \in {"limit", "insert", "remove", "close"} =>
          cur \in Fds /\ fdOwner[cur] # None /\ connections_[cur] = None
    /\ at \in {"recv", "write"} => cur \in Mapped
    /\ at = "erase" => cur \in Fds
    /\ at = "insert" => epoll[cur] # "none" /\ Cardinality(Mapped) < MAX_CONNECTIONS

\* A descriptor belongs to an open socket, and no socket has two.
OwnerInv ==
    /\ \A f \in Fds : fdOwner[f] # None => sock[fdOwner[f]] = "open"
    /\ \A f, g \in Fds : fdOwner[f] # None /\ fdOwner[f] = fdOwner[g] => f = g

\* A Connection object that is queued or held by a worker was given a
\* descriptor, though perhaps one that is closed or reused by now.
TaskInv ==
    /\ \A i \in 1..Len(pool) : conn[pool[i]].fd \in Fds
    /\ \A w \in Workers : wat[w] # "idle" => job[w] \in Clients /\ conn[job[w]].fd \in Fds
    /\ \A w \in Workers : wat[w] = "publish" => resp[w] \in Responses

\* The events of a batch are about mapped descriptors, one for each and none
\* for the one in hand, and the reaper runs when none is left.
BatchInv ==
    /\ \A e \in batch : e[1] # Listener => e[1] \in Mapped
    /\ \A d, e \in batch : d[1] = e[1] => d = e
    /\ at \in {"recv", "write", "erase", "remove", "close"} => \A e \in batch : e[1] # cur
    /\ at = "reap" \/ (at \in {"erase", "remove", "close"} /\ back = "reap") => batch = {}

Inv == TypeOK /\ CurInv /\ OwnerInv /\ TaskInv /\ BatchInv /\ TableConsistent

\* TypeOK by the parts of the state.
ClientType ==
    /\ sock \in [Clients -> {"none", "backlog", "open", "closed"}]
    /\ peer \in [Clients -> {"alive", "fin", "rst"}]
    /\ nreq \in [Clients -> 0..MaxRequests]
    /\ outgoing \in [Clients -> Seq(Pieces)]
    /\ inbox \in [Clients -> Seq(Pieces)]
    /\ received \in [Clients -> Seq([resp : Responses, k : 1..Chunks])]
KernelType ==
    /\ fdOwner \in [Fds -> Clients \cup {None}]
    /\ epoll \in [Fds -> {"none", "in", "out"}]
    /\ \A f \in Fds : fdOwner[f] = None => epoll[f] = "none"
ConnType ==
    /\ connections_ \in [Fds -> Clients \cup {None}]
    /\ conn \in [Clients -> Connections]
    /\ \A c \in Clients : Len(conn[c].read_buffer) <= MAX_REQUEST_SIZE
LoopType ==
    /\ at \in LoopPoints /\ back \in {"dispatch", "reap"}
    /\ batch \subseteq (Fds \cup {Listener}) \X {"in", "out", "hup"}
    /\ cur \in Fds \cup {None} /\ stale_fds \subseteq Fds
WorkType ==
    /\ pool \in Seq(Clients)
    /\ wat \in [Workers -> {"idle", "process", "publish", "rearm"}]
    /\ job \in [Workers -> Clients \cup {None}]
    /\ resp \in [Workers -> Responses \cup {None}]

LEMMA TypeParts ==
    /\ TypeOK => ClientType /\ KernelType /\ ConnType /\ LoopType /\ WorkType
    /\ ClientType' /\ KernelType' /\ ConnType' /\ LoopType' /\ WorkType' => TypeOK'
  BY DEF TypeOK, ClientType, KernelType, ConnType, LoopType, WorkType, FreeFds

-----------------------------------------------------------------------------
(* Types                                                                    *)

\* The pieces of a request.
LEMMA PiecesType ==
    ASSUME NEW n \in 1..MaxRequests, NEW shape \in Shapes, NEW keep \in BOOLEAN
    PROVE  PiecesOf(n, shape, keep) \in Seq(Pieces)
<1>1. \/ Cut[shape] = <<"whole">> \/ Cut[shape] = <<"start", "rest">>
      \/ Cut[shape] = <<"headers", "body">> \/ Cut[shape] = <<"start", "start", "rest">>
      \/ Cut[shape] = <<"garbage">>
  BY ServerAssumption DEF Cut
<1>2. /\ Len(Cut[shape]) \in Nat
      /\ \A i \in 1..Len(Cut[shape]) :
            Cut[shape][i] \in {"whole", "start", "rest", "headers", "body", "garbage"}
  BY <1>1
<1> QED
  BY <1>2 DEF PiecesOf, Pieces

\* What the worker sends back, if its Connection has a descriptor.
LEMMA ResponseType ==
    ASSUME TypeOK, NEW c \in Clients, conn[c].fd \in Fds,
           NEW n \in 0..MaxRequests, NEW status \in Statuses, NEW keep \in BOOLEAN
    PROVE  Response(c, n, status, keep) \in Responses
  BY DEF TypeOK, Response, Responses, get_client_ip

LEMMA ConnectionTypes ==
    ASSUME NEW k \in Connections
    PROVE  /\ [k EXCEPT !.overdue = TRUE] \in Connections
           /\ \A p \in Pieces : [k EXCEPT !.read_buffer = Append(@, p), !.overdue = FALSE]
                                   \in Connections
           /\ \A b \in BOOLEAN : [k EXCEPT !.keep_alive = b] \in Connections
           /\ \A r \in Responses : AfterPublish(k, r) \in Connections
           /\ k.bytes_sent < Chunks => [k EXCEPT !.bytes_sent = NextOffset(k)] \in Connections
           /\ [k EXCEPT !.write_buffer = None, !.bytes_sent = 0, !.is_writing = FALSE]
                  \in Connections
           /\ \A f \in Fds \cup {None} : NewConnection(f) \in Connections
<1> USE DEF Connections
<1>0. 0 \in 0..Chunks /\ k.bytes_sent \in 0..Chunks /\ Chunks \in Nat
  BY ServerAssumption
<1>1. \A p \in Pieces : Append(k.read_buffer, p) \in Seq(Pieces)
  OBVIOUS
<1>2. <<>> \in Seq(Pieces)
  OBVIOUS
<1>3. [k EXCEPT !.overdue = TRUE] \in Connections
  OBVIOUS
<1>4. ASSUME NEW p \in Pieces
      PROVE  [k EXCEPT !.read_buffer = Append(@, p), !.overdue = FALSE] \in Connections
  BY <1>1
<1>5. ASSUME NEW b \in BOOLEAN PROVE [k EXCEPT !.keep_alive = b] \in Connections
  OBVIOUS
<1>6. ASSUME NEW r \in Responses PROVE AfterPublish(k, r) \in Connections
  <2> DEFINE a == [k EXCEPT !.write_buffer = r, !.bytes_sent = 0]
             b == [a EXCEPT !.is_writing = TRUE, !.read_buffer = <<>>]
  <2>1. a \in Connections
    BY <1>0
  <2>2. b \in Connections
    BY <2>1, <1>2
  <2> QED
    BY <2>2 DEF AfterPublish
<1>7. k.bytes_sent < Chunks => [k EXCEPT !.bytes_sent = NextOffset(k)] \in Connections
  BY <1>0 DEF NextOffset
<1>8. [k EXCEPT !.write_buffer = None, !.bytes_sent = 0, !.is_writing = FALSE] \in Connections
  <2> DEFINE a == [k EXCEPT !.write_buffer = None, !.bytes_sent = 0]
  <2>1. a \in Connections
    BY <1>0
  <2>2. [a EXCEPT !.is_writing = FALSE] \in Connections
    BY <2>1
  <2> QED
    BY <2>2
<1>9. ASSUME NEW f \in Fds \cup {None} PROVE NewConnection(f) \in Connections
  BY <1>0, <1>2 DEF NewConnection
<1> HIDE DEF Connections
<1> QED
  BY <1>3, <1>4, <1>5, <1>6, <1>7, <1>8, <1>9

LEMMA InitInv == Init => Inv
<1> SUFFICES ASSUME Init PROVE Inv
  OBVIOUS
<1> USE ServerAssumption DEF Init
<1>1. TypeOK
  <2>1. \A c \in Clients : conn[c] \in Connections /\ Len(conn[c].read_buffer) = 0
    <3>1. NewConnection(None) \in Connections
      BY DEF Connections, NewConnection
    <3> QED
      BY <3>1 DEF NewConnection
  <2> QED
    BY <2>1 DEF TypeOK, LoopPoints, FreeFds, Connections
<1>2. Mapped = {} /\ Cardinality(Mapped) = 0
  BY FS_EmptySet DEF Mapped
<1>3. TableConsistent
  BY <1>2 DEF TableConsistent
<1> QED
  BY <1>1, <1>3 DEF Inv, CurInv, OwnerInv, TaskInv, BatchInv, Mapped

-----------------------------------------------------------------------------
(* What a step leaves alone                                                 *)

\* No step but AcceptInsert gives a Connection another descriptor.
SameFds == \A c \in Clients : conn'[c].fd = conn[c].fd

\* No descriptor in use loses its registration.
StillRegistered == \A f \in Fds : epoll[f] # "none" => epoll'[f] # "none"

\* The parts of the invariant a step cannot disturb because it does not touch
\* what they speak of.
LEMMA Untouched ==
    ASSUME Inv
    PROVE  /\ UNCHANGED clientVars => ClientType'
           /\ UNCHANGED kernelVars => KernelType'
           /\ UNCHANGED <<connections_, conn>> => ConnType'
           /\ UNCHANGED loopVars => LoopType'
           /\ UNCHANGED workVars => WorkType'
           /\ UNCHANGED workVars /\ SameFds => TaskInv'
           /\ UNCHANGED <<sock, fdOwner>> => OwnerInv'
           /\ UNCHANGED conn => SameFds
           /\ UNCHANGED epoll => StillRegistered
<1> USE TypeParts DEF Inv
<1>1. UNCHANGED clientVars => ClientType'
  BY DEF clientVars, ClientType
<1>2. UNCHANGED kernelVars => KernelType'
  BY DEF kernelVars, KernelType
<1>3. UNCHANGED <<connections_, conn>> => ConnType'
  BY DEF ConnType
<1>4. UNCHANGED loopVars => LoopType'
  BY DEF loopVars, LoopType
<1>5. UNCHANGED workVars => WorkType'
  BY DEF workVars, WorkType
<1>6. UNCHANGED workVars /\ SameFds => TaskInv'
  BY DEF workVars, SameFds, TaskInv, WorkType
<1>7. UNCHANGED <<sock, fdOwner>> => OwnerInv'
  BY DEF OwnerInv
<1>8. (UNCHANGED conn => SameFds) /\ (UNCHANGED epoll => StillRegistered)
  BY DEF SameFds, StillRegistered
<1> QED
  BY <1>1, <1>2, <1>3, <1>4, <1>5, <1>6, <1>7, <1>8

\* A step of a client or of a worker moves neither the loop nor the table.
LEMMA OutsideStep ==
    ASSUME Inv, UNCHANGED <<loopVars, connections_, fdOwner>>, SameFds, StillRegistered
    PROVE  LoopType' /\ CurInv' /\ BatchInv' /\ TableConsistent'
<1> USE TypeParts DEF Inv, SameFds, StillRegistered, loopVars, Mapped
<1>1. LoopType' /\ CurInv' /\ BatchInv'
  BY DEF LoopType, CurInv, BatchInv
<1>2. TableConsistent'
  BY DEF TableConsistent, ConnType
<1> QED
  BY <1>1, <1>2

-----------------------------------------------------------------------------
(* Steps of the clients                                                     *)

LEMMA ClientInv ==
    ASSUME Inv, NEW c \in Clients, ClientStep(c) PROVE Inv'
<1> USE TypeParts DEF Inv
<1>1. ASSUME UNCHANGED <<kernelVars, connections_, loopVars, workVars>>,
             ClientType', ConnType', OwnerInv', SameFds
      PROVE  Inv'
  <2>1. StillRegistered /\ KernelType' /\ WorkType' /\ TaskInv'
    BY <1>1, Untouched DEF kernelVars
  <2>2. LoopType' /\ CurInv' /\ BatchInv' /\ TableConsistent'
    BY <1>1, <2>1, OutsideStep DEF kernelVars
  <2> QED
    BY <1>1, <2>1, <2>2
<1>2. CASE Connect(c)
  <2>1. ClientType'
    BY <1>2 DEF Connect, ClientType
  <2>2. OwnerInv'
    BY <1>2 DEF Connect, ClientType, OwnerInv, kernelVars, KernelType
  <2> QED
    BY <1>1, <1>2, <2>1, <2>2, Untouched DEF Connect
<1>3. ASSUME NEW shape \in Shapes, NEW keep \in BOOLEAN, BeginRequest(c, shape, keep)
      PROVE  Inv'
  <2>1. nreq[c] + 1 \in 1..MaxRequests
    BY <1>3, ServerAssumption DEF BeginRequest, ClientType
  <2>2. PiecesOf(nreq[c] + 1, shape, keep) \in Seq(Pieces)
    BY <2>1, PiecesType
  <2>3. nreq' \in [Clients -> 0..MaxRequests] /\ outgoing' \in [Clients -> Seq(Pieces)]
    BY <1>3, <2>1, <2>2, ServerAssumption DEF BeginRequest, ClientType
  <2>4. ClientType'
    BY <1>3, <2>3 DEF BeginRequest, ClientType
  <2> QED
    BY <1>1, <1>3, <2>4, Untouched DEF BeginRequest, kernelVars
<1>4. CASE SendPiece(c)
  <2>1. Head(outgoing[c]) \in Pieces /\ Tail(outgoing[c]) \in Seq(Pieces)
    BY <1>4 DEF SendPiece, ClientType
  <2>2. inbox' \in [Clients -> Seq(Pieces)] /\ outgoing' \in [Clients -> Seq(Pieces)]
    BY <1>4, <2>1 DEF SendPiece, ClientType
  <2>3. ClientType'
    BY <1>4, <2>2 DEF SendPiece, ClientType
  <2> QED
    BY <1>1, <1>4, <2>3, Untouched DEF SendPiece, kernelVars
<1>5. CASE HangUp(c)
  <2>0. <<>> \in Seq(Pieces)
    OBVIOUS
  <2>1. inbox' \in [Clients -> Seq(Pieces)] /\ peer' \in [Clients -> {"alive", "fin", "rst"}]
    BY <1>5, <2>0 DEF HangUp, ClientType
  <2>2. ClientType'
    BY <1>5, <2>1 DEF HangUp, ClientType
  <2> QED
    BY <1>1, <1>5, <2>2, Untouched DEF HangUp, kernelVars
<1>6. CASE Elapse(c)
  <2> DEFINE k == [conn[c] EXCEPT !.overdue = TRUE]
  <2>1. conn[c] \in Connections
    BY DEF ConnType
  <2>2. k \in Connections /\ k.fd = conn[c].fd /\ k.read_buffer = conn[c].read_buffer
    BY <2>1, ConnectionTypes DEF Connections
  <2>3. conn' = [conn EXCEPT ![c] = k] /\ UNCHANGED connections_
    BY <1>6 DEF Elapse
  <2> HIDE DEF k
  <2>4. ConnType' /\ SameFds
    BY <2>2, <2>3 DEF ConnType, SameFds
  <2> QED
    BY <1>1, <1>6, <2>4, Untouched DEF Elapse, clientVars, kernelVars
<1> QED
  BY <1>2, <1>3, <1>4, <1>5, <1>6 DEF ClientStep

-----------------------------------------------------------------------------
(* Steps of the workers                                                     *)

LEMMA WorkerInv ==
    ASSUME Inv, NEW w \in Workers, WorkerStep(w) PROVE Inv'
<1> USE TypeParts DEF Inv
<1>1. ASSUME UNCHANGED <<clientVars, fdOwner, connections_, loopVars>>,
             KernelType', ConnType', WorkType', TaskInv', SameFds, StillRegistered
      PROVE  Inv'
  <2>1. ClientType' /\ OwnerInv'
    BY <1>1, Untouched DEF clientVars
  <2>2. LoopType' /\ CurInv' /\ BatchInv' /\ TableConsistent'
    BY <1>1, <2>1, OutsideStep
  <2> QED
    BY <1>1, <2>1, <2>2
<1>2. CASE TakeTask(w)
  <2>1. pool[1] \in Clients /\ Head(pool) = pool[1] /\ Tail(pool) \in Seq(Clients)
    BY <1>2 DEF TakeTask, WorkType
  <2>2. WorkType'
    BY <1>2, <2>1 DEF TakeTask, WorkType
  <2>3. conn[pool[1]].fd \in Fds /\ \A i \in 1..Len(Tail(pool)) : conn[Tail(pool)[i]].fd \in Fds
    BY <1>2, <2>1 DEF TakeTask, WorkType, TaskInv
  <2>4. TaskInv'
    BY <1>2, <2>1, <2>3 DEF TakeTask, WorkType, TaskInv
  <2> QED
    BY <1>1, <1>2, <2>2, <2>4, Untouched DEF TakeTask, kernelVars
<1>3. CASE Process(w)
  <2> DEFINE c == job[w]
             buf == conn[c].read_buffer
             n == IF buf = <<>> THEN 0 ELSE buf[1].req
             k(b) == [conn[c] EXCEPT !.keep_alive = b]
  <2>1. c \in Clients /\ conn[c].fd \in Fds /\ conn[c] \in Connections
    BY <1>3 DEF Process, TaskInv, ConnType
  <2>2. buf \in Seq(Pieces)
    BY <2>1 DEF Connections
  <2>3. n \in 0..MaxRequests
    <3>1. buf # <<>> => buf[1] \in Pieces
      BY <2>2
    <3> QED
      BY <3>1, ServerAssumption DEF Pieces
  <2>4. Parses(buf) => WantsKeepAlive(buf) \in BOOLEAN
    <3>1. Parses(buf) => buf[1] \in Pieces
      BY <2>2 DEF Parses
    <3> QED
      BY <3>1 DEF WantsKeepAlive, Pieces
  <2>5. \A status \in Statuses, keep \in BOOLEAN : Response(c, n, status, keep) \in Responses
    BY <2>1, <2>3, ResponseType
  <2>6. \A b \in BOOLEAN : /\ k(b) \in Connections /\ k(b).fd = conn[c].fd
                           /\ k(b).read_buffer = conn[c].read_buffer
    BY <2>1, ConnectionTypes DEF Connections
  <2>7. \E r \in Responses : resp' = [resp EXCEPT ![w] = r]
    BY <1>3, <2>4, <2>5 DEF Process, Statuses
  <2>8. UNCHANGED conn \/ \E b \in BOOLEAN : conn' = [conn EXCEPT ![c] = k(b)]
    BY <1>3, <2>4 DEF Process
  <2> HIDE DEF k
  <2>9. ConnType' /\ SameFds
    BY <1>3, <2>1, <2>6, <2>8 DEF ConnType, SameFds, Process
  <2>10. WorkType'
    BY <1>3, <2>7 DEF Process, WorkType
  <2>11. TaskInv'
    BY <1>3, <2>1, <2>7, <2>9 DEF Process, TaskInv, SameFds, WorkType
  <2> QED
    BY <1>1, <1>3, <2>9, <2>10, <2>11, Untouched DEF Process, kernelVars
<1>4. CASE Publish(w)
  <2> DEFINE c == job[w]
             k == AfterPublish(conn[c], resp[w])
  <2>1. c \in Clients /\ resp[w] \in Responses /\ conn[c] \in Connections
    BY <1>4 DEF Publish, TaskInv, ConnType
  <2>2. k \in Connections /\ k.fd = conn[c].fd /\ k.read_buffer = <<>>
    BY <2>1, ConnectionTypes DEF AfterPublish, Connections
  <2>3. conn' = [conn EXCEPT ![c] = k] /\ UNCHANGED connections_
    BY <1>4 DEF Publish, Target
  <2> HIDE DEF k
  <2>4. ConnType' /\ SameFds
    BY <2>1, <2>2, <2>3, ServerAssumption DEF ConnType, SameFds
  <2>5. WorkType'
    BY <1>4 DEF Publish, WorkType
  <2>6. TaskInv'
    BY <1>4, <2>1, <2>4 DEF Publish, TaskInv, SameFds, WorkType
  <2> QED
    BY <1>1, <1>4, <2>4, <2>5, <2>6, Untouched DEF Publish, kernelVars
<1>5. CASE Rearm(w)
  <2>1. KernelType' /\ StillRegistered
    BY <1>5 DEF Rearm, EpollSet, RearmMode, KernelType, StillRegistered
  <2>2. WorkType' /\ TaskInv'
    BY <1>5 DEF Rearm, WorkType, TaskInv
  <2> QED
    BY <1>1, <1>5, <2>1, <2>2, Untouched DEF Rearm
<1> QED
  BY <1>2, <1>3, <1>4, <1>5 DEF WorkerStep

-----------------------------------------------------------------------------
(* Steps of the event loop                                                  *)

\* Where the loop holds a socket that is not in the table.
InHand == {"limit", "insert", "remove", "close"}

\* A jump from outside such a point to outside such a point.
LEMMA LoopJump ==
    ASSUME Inv, UNCHANGED <<fdOwner, connections_>>, SameFds, StillRegistered,
           batch' \subseteq batch, at \notin InHand, at' \notin InHand,
           at' \in {"recv", "write"} => cur' \in Mapped,
           at' = "erase" => cur' \in Fds,
           at' \in {"recv", "write", "erase"} => \A e \in batch' : e[1] # cur',
           at' = "reap" \/ (at' = "erase" /\ back' = "reap") => batch' = {}
    PROVE  CurInv' /\ BatchInv' /\ TableConsistent'
<1> USE DEF Inv, SameFds, StillRegistered, Mapped, InHand
<1>1. CurInv' /\ BatchInv'
  BY DEF CurInv, BatchInv
<1>2. TableConsistent'
  BY TypeParts DEF TableConsistent, ConnType
<1> QED
  BY <1>1, <1>2

\* The jumps that change nothing but the loop's own variables.
LEMMA JumpInv ==
    ASSUME Inv, \/ Dispatch \/ AcceptNone \/ RecvEnd \/ WriteNothing \/ SendAgain
                \/ SendError \/ Scan \/ Reap \/ ReapEnd
    PROVE  Inv'
<1> USE TypeParts DEF Inv
<1>1. ASSUME UNCHANGED <<clientVars, kernelVars, connections_, conn, workVars>>, LoopType',
             CurInv' /\ BatchInv' /\ TableConsistent'
      PROVE  Inv'
  BY <1>1, Untouched DEF clientVars, kernelVars
<1>2. UNCHANGED <<clientVars, kernelVars, connections_, conn, workVars>>
  BY DEF Dispatch, AcceptNone, RecvEnd, WriteNothing, SendAgain, SendError, Scan, Reap, ReapEnd
<1>3. SameFds /\ StillRegistered /\ UNCHANGED <<fdOwner, connections_>>
  BY <1>2, Untouched DEF kernelVars
<1> USE DEF LoopType, LoopPoints, InHand, Goto, GotoClose
<1>4. CASE Dispatch
  <2>1. PICK e \in batch :
          /\ batch' = batch \ {e}
          /\ CASE e[1] = Listener -> Goto("accept", None)
               [] e[1] # Listener /\ e[2] = "hup" ->
                     GotoClose(e[1], "dispatch") /\ UNCHANGED stale_fds
               [] e[1] # Listener /\ e[2] = "in" ->
                     Goto(IF connections_[e[1]] = None THEN "dispatch" ELSE "recv", e[1])
               [] e[1] # Listener /\ e[2] = "out" ->
                     Goto(IF connections_[e[1]] = None THEN "dispatch" ELSE "write", e[1])
    BY <1>4 DEF Dispatch
  <2>2. at = "dispatch" /\ e[2] \in {"in", "out", "hup"}
    BY <1>4 DEF Dispatch
  <2>3. \A d \in batch' : d[1] # e[1]
    BY <2>1 DEF BatchInv
  <2>4. e[1] # Listener => e[1] \in Mapped /\ e[1] \in Fds
    BY DEF BatchInv, Mapped
  <2>5. /\ at' \in {"accept", "erase", "recv", "write", "dispatch"}
        /\ at' = "erase" => back' = "dispatch"
        /\ at' \in {"erase", "recv", "write"} => e[1] # Listener /\ cur' = e[1]
        /\ cur' \in {e[1], None} /\ (e[1] = Listener => cur' = None)
        /\ UNCHANGED stale_fds /\ back' \in {back, "dispatch"}
    BY <2>1, <2>2
  <2>6. LoopType'
    BY <2>1, <2>4, <2>5
  <2>7. CurInv' /\ BatchInv' /\ TableConsistent'
    BY <1>3, <2>1, <2>2, <2>3, <2>4, <2>5, LoopJump
  <2> QED
    BY <1>1, <1>2, <2>6, <2>7
<1>5. CASE AcceptNone
  <2>1. LoopType' /\ CurInv' /\ BatchInv' /\ TableConsistent'
    BY <1>3, <1>5, LoopJump DEF AcceptNone
  <2> QED
    BY <1>1, <1>2, <2>1
<1>6. CASE RecvEnd \/ WriteNothing \/ SendError
  <2>1. /\ at \in {"recv", "write"} /\ at' = "erase" /\ back' = "dispatch"
        /\ UNCHANGED <<batch, cur, stale_fds>>
    BY <1>6 DEF RecvEnd, WriteNothing, SendError
  <2>2. cur \in Mapped /\ cur \in Fds /\ \A e \in batch : e[1] # cur
    BY <2>1 DEF CurInv, BatchInv, Mapped
  <2>3. LoopType'
    BY <2>1, <2>2
  <2>4. CurInv' /\ BatchInv' /\ TableConsistent'
    BY <1>3, <2>1, <2>2, LoopJump
  <2> QED
    BY <1>1, <1>2, <2>3, <2>4
<1>7. CASE SendAgain
  <2>1. LoopType' /\ CurInv' /\ BatchInv' /\ TableConsistent'
    BY <1>3, <1>7, LoopJump DEF SendAgain
  <2> QED
    BY <1>1, <1>2, <2>1
<1>8. CASE Scan
  <2>1. LoopType'
    BY <1>8 DEF Scan, Mapped
  <2>2. CurInv' /\ BatchInv' /\ TableConsistent'
    BY <1>3, <1>8, LoopJump DEF Scan, BatchHandled
  <2> QED
    BY <1>1, <1>2, <2>1, <2>2
<1>9. CASE Reap
  <2>1. LoopType'
    BY <1>9 DEF Reap
  <2>2. batch = {} /\ batch' = batch /\ at = "reap" /\ at' = "erase" /\ cur' \in Fds
    BY <1>9 DEF Reap, BatchInv
  <2>3. CurInv' /\ BatchInv' /\ TableConsistent'
    BY <1>3, <2>2, LoopJump
  <2> QED
    BY <1>1, <1>2, <2>1, <2>3
<1>10. CASE ReapEnd
  <2>1. LoopType' /\ CurInv' /\ BatchInv' /\ TableConsistent'
    BY <1>3, <1>10, LoopJump DEF ReapEnd
  <2> QED
    BY <1>1, <1>2, <2>1
<1> QED
  BY <1>4, <1>5, <1>6, <1>7, <1>8, <1>9, <1>10

\* The Connection that handle_read and handle_write work on.
LEMMA ReadingType ==
    ASSUME Inv, at \in {"recv", "write"}
    PROVE  /\ cur \in Fds /\ cur \in Mapped /\ Reading \in Clients
           /\ conn[Reading] \in Connections /\ conn[Reading].fd = cur
           /\ fdOwner[cur] = Reading /\ \A e \in batch : e[1] # cur
  BY TypeParts DEF Inv, CurInv, BatchInv, TableConsistent, Reading, Mapped, ConnType

\* epoll_wait reports what is registered, and that is what is mapped.
LEMMA WaitInv ==
    ASSUME Inv, Wait PROVE Inv'
<1> USE TypeParts DEF Inv
<1>1. \A e \in batch' : e[1] # Listener => e[1] \in Fds /\ epoll[e[1]] # "none"
  BY DEF Wait, ReadyEvents, EventsOf
<1>2. \A e \in batch' : e[1] # Listener => e[1] \in Mapped
  BY <1>1 DEF KernelType, TableConsistent, Wait
<1>3. \A d, e \in batch' : d[1] = e[1] => d[2] = e[2]
  <2> SUFFICES ASSUME NEW d \in batch', NEW e \in batch', d[1] = e[1] PROVE d[2] = e[2]
    OBVIOUS
  <2>1. CASE d[1] = Listener
    <3>1. Listener \notin Fds
      BY ServerAssumption DEF Listener
    <3> QED
      BY <2>1, <3>1 DEF Wait, ReadyEvents
  <2>2. CASE d[1] # Listener
    <3>1. d[2] \in EventsOf(d[1]) /\ e[2] \in EventsOf(d[1])
      BY <2>2 DEF Wait, ReadyEvents
    <3> QED
      BY <3>1 DEF EventsOf
  <2> QED
    BY <2>1, <2>2
<1>4. batch' \subseteq (Fds \cup {Listener}) \X {"in", "out", "hup"}
  BY DEF Wait, ReadyEvents
<1>5. \A d, e \in batch' : d[1] = e[1] => d = e
  BY <1>3, <1>4
<1>6. LoopType'
  BY <1>4 DEF Wait, LoopType, LoopPoints
<1>7. BatchInv' /\ CurInv'
  BY <1>2, <1>5 DEF Wait, BatchInv, CurInv, Mapped
<1>8. TableConsistent'
  BY DEF Wait, TableConsistent, Mapped, kernelVars
<1> QED
  BY <1>6, <1>7, <1>8, Untouched DEF Wait, clientVars, kernelVars

\* handle_read and handle_write, the steps that change more than the loop.
LEMMA HandlerInv ==
    ASSUME Inv, RecvData \/ RecvAgain \/ SendChunk \/ WriteDone PROVE Inv'
<1> USE TypeParts DEF Inv
<1> DEFINE c == Reading
<1>0. /\ cur \in Fds /\ cur \in Mapped /\ c \in Clients
      /\ conn[c] \in Connections /\ conn[c].fd = cur
      /\ fdOwner[cur] = c /\ \A e \in batch : e[1] # cur
  BY ReadingType DEF RecvData, RecvAgain, SendChunk, WriteDone
<1> HIDE DEF c
<1>1. CASE RecvData
  <2>1. Head(inbox[c]) \in Pieces /\ Tail(inbox[c]) \in Seq(Pieces)
    BY <1>0, <1>1 DEF RecvData, ClientType, c
  <2>2. inbox' \in [Clients -> Seq(Pieces)]
    BY <1>0, <1>1, <2>1 DEF RecvData, ClientType, c
  <2>3. ClientType'
    BY <1>1, <2>2 DEF RecvData, ClientType
  <2>4. UNCHANGED <<sock, kernelVars, connections_, workVars, batch, stale_fds>>
    BY <1>1 DEF RecvData
  <2>5. CASE TooLarge(c)
    <3>1. /\ at = "recv" /\ at' = "erase" /\ back' = "dispatch"
          /\ UNCHANGED <<conn, cur>>
      BY <1>1, <2>5 DEF RecvData, GotoClose, c
    <3>2. SameFds /\ StillRegistered
      BY <2>4, <3>1, Untouched DEF kernelVars
    <3>3. LoopType'
      BY <1>0, <2>4, <3>1 DEF LoopType, LoopPoints
    <3>4. CurInv' /\ BatchInv' /\ TableConsistent'
      BY <1>0, <2>4, <3>1, <3>2, LoopJump DEF InHand, kernelVars
    <3> QED
      BY <2>3, <2>4, <3>1, <3>2, <3>3, <3>4, Untouched DEF kernelVars
  <2>6. CASE ~TooLarge(c)
    <3> DEFINE k == [conn[c] EXCEPT !.read_buffer = Append(@, Head(inbox[c])), !.overdue = FALSE]
    <3>1. k \in Connections
      BY <1>0, <2>1, ConnectionTypes
    <3>2. k.fd = conn[c].fd /\ k.read_buffer = Append(conn[c].read_buffer, Head(inbox[c]))
      BY <1>0, <2>1 DEF Connections
    <3>3. Len(k.read_buffer) <= MAX_REQUEST_SIZE
      <4>1. conn[c].read_buffer \in Seq(Pieces)
        BY <1>0 DEF Connections
      <4>2. Len(k.read_buffer) = Len(conn[c].read_buffer) + 1
        BY <3>2, <4>1, <2>1
      <4> QED
        BY <2>6, <4>1, <4>2, ServerAssumption DEF TooLarge
    <3>4. conn' = [conn EXCEPT ![c] = k] /\ UNCHANGED <<at, cur, back>>
      BY <1>1, <2>6 DEF RecvData, c
    <3> HIDE DEF k
    <3>5. ConnType' /\ SameFds
      BY <1>0, <2>4, <3>1, <3>2, <3>3, <3>4 DEF ConnType, SameFds
    <3>6. LoopType' /\ CurInv' /\ BatchInv' /\ TableConsistent'
      BY <2>4, <3>4, <3>5, OutsideStep, Untouched DEF kernelVars, loopVars
    <3> QED
      BY <2>3, <2>4, <3>5, <3>6, Untouched DEF kernelVars
  <2> QED
    BY <2>5, <2>6
<1>2. CASE RecvAgain
  <2>1. /\ UNCHANGED <<clientVars, kernelVars, connections_, conn, batch, wat, job, resp,
                       stale_fds, back>>
        /\ at = "recv" /\ at' = "dispatch" /\ cur' = None
        /\ pool' = pool \/ pool' = Append(pool, c)
    BY <1>2 DEF RecvAgain, Goto, c
  <2>2. pool \in Seq(Clients) /\ pool' \in Seq(Clients)
    BY <1>0, <2>1 DEF WorkType
  <2>3. \A i \in 1..Len(pool') : conn[pool'[i]].fd \in Fds
    BY <1>0, <2>1, <2>2 DEF TaskInv
  <2>4. WorkType' /\ TaskInv'
    BY <2>1, <2>2, <2>3 DEF WorkType, TaskInv
  <2>5. LoopType'
    BY <2>1 DEF LoopType, LoopPoints
  <2>6. CurInv' /\ BatchInv' /\ TableConsistent'
    BY <2>1, Untouched, LoopJump DEF InHand, kernelVars
  <2> QED
    BY <2>1, <2>4, <2>5, <2>6, Untouched DEF clientVars, kernelVars
<1>3. CASE SendChunk
  <2>1. conn[c].write_buffer \in Responses /\ conn[c].bytes_sent \in 0..(Chunks - 1)
    BY <1>0, <1>3, ServerAssumption DEF SendChunk, Unsent, Connections, c
  <2> DEFINE k == [conn[c] EXCEPT !.bytes_sent = NextOffset(conn[c])]
             m == [resp |-> conn[c].write_buffer, k |-> conn[c].bytes_sent + 1]
             Sent == [resp : Responses, k : 1..Chunks]
  <2>2. /\ k \in Connections /\ k.fd = conn[c].fd
        /\ k.read_buffer = conn[c].read_buffer
    <3>1. conn[c].bytes_sent < Chunks
      BY <2>1, ServerAssumption
    <3>2. k \in Connections
      BY <1>0, <3>1, ConnectionTypes
    <3> QED
      BY <1>0, <3>2 DEF Connections
  <2>3. m \in Sent
    BY <2>1, ServerAssumption
  <2>4. /\ conn' = [conn EXCEPT ![c] = k]
        /\ received' = [received EXCEPT ![c] = Append(@, m)]
        /\ UNCHANGED <<sock, peer, outgoing, nreq, inbox, kernelVars, connections_,
                       loopVars, workVars>>
    BY <1>3 DEF SendChunk, c
  <2>5. received \in [Clients -> Seq(Sent)]
    BY DEF ClientType
  <2> HIDE DEF k, m, Sent
  <2>6. received' \in [Clients -> Seq(Sent)]
    BY <1>0, <2>3, <2>4, <2>5
  <2>7. ClientType'
    BY <2>4, <2>6 DEF ClientType, Sent
  <2>8. ConnType' /\ SameFds
    BY <1>0, <2>2, <2>4 DEF ConnType, SameFds
  <2>9. LoopType' /\ CurInv' /\ BatchInv' /\ TableConsistent'
    BY <2>4, <2>8, OutsideStep, Untouched DEF kernelVars
  <2> QED
    BY <2>4, <2>7, <2>8, <2>9, Untouched DEF kernelVars
<1>4. CASE WriteDone
  <2> DEFINE k == [conn[c] EXCEPT !.write_buffer = None, !.bytes_sent = 0, !.is_writing = FALSE]
  <2>1. /\ k \in Connections /\ k.fd = conn[c].fd
        /\ k.read_buffer = conn[c].read_buffer
    BY <1>0, ConnectionTypes DEF Connections
  <2>2. /\ conn' = [conn EXCEPT ![c] = k] /\ at = "write"
        /\ UNCHANGED <<clientVars, fdOwner, connections_, batch, workVars, stale_fds>>
        /\ \/ at' = "dispatch" /\ cur' = None /\ UNCHANGED back /\ EpollSet(cur, "in")
           \/ at' = "erase" /\ cur' = cur /\ back' = "dispatch" /\ UNCHANGED epoll
    BY <1>4 DEF WriteDone, Goto, GotoClose, c
  <2> HIDE DEF k
  <2>3. ConnType' /\ SameFds
    BY <1>0, <2>1, <2>2 DEF ConnType, SameFds
  <2>4. KernelType' /\ StillRegistered
    BY <1>0, <2>2 DEF EpollSet, KernelType, StillRegistered
  <2>5. LoopType'
    BY <1>0, <2>2 DEF LoopType, LoopPoints
  <2>6. CurInv' /\ BatchInv' /\ TableConsistent'
    BY <1>0, <2>2, <2>3, <2>4, LoopJump DEF InHand
  <2> QED
    BY <2>2, <2>3, <2>4, <2>5, <2>6, Untouched DEF clientVars
<1> QED
  BY <1>1, <1>2, <1>3, <1>4

\* The number of mapped descriptors is a number.
LEMMA MappedFinite == IsFiniteSet(Mapped) /\ Cardinality(Mapped) \in Nat
  BY ServerAssumption, FS_Subset, FS_CardinalityType DEF Mapped

LEMMA NatMinimum ==
    ASSUME NEW S, S \subseteq Nat, S # {}
    PROVE  \E n \in S : \A m \in S : n <= m
<1> DEFINE R == OpToRel(<, Nat)
<1>1. PICK n \in S : \A m \in S : ~ (<<m, n>> \in R)
  BY NatLessThanWellFounded, WFMin
<1>2. \A m \in S : ~ (m < n)
  BY <1>1 DEF OpToRel
<1> QED
  BY <1>2

\* The lowest free descriptor is one, if there is any.
LEMMA FreeMinimum == FreeFds # {} => Min(FreeFds) \in FreeFds
<1> SUFFICES ASSUME FreeFds # {} PROVE Min(FreeFds) \in FreeFds
  OBVIOUS
<1>1. FreeFds \subseteq Nat
  BY ServerAssumption DEF FreeFds
<1>2. \E n \in FreeFds : \A m \in FreeFds : n <= m
  BY <1>1, NatMinimum
<1> QED
  BY <1>2 DEF Min

\* accept4 hands out a descriptor that is not in use.
LEMMA Accept4Inv ==
    ASSUME Inv, NEW c \in Clients, Accept4(c) PROVE Inv'
<1> USE TypeParts DEF Inv
<1> DEFINE f == Min(FreeFds)
<1>1. f \in Fds /\ fdOwner[f] = None
  BY FreeMinimum DEF Accept4, FreeFds
<1>2. /\ sock' = [sock EXCEPT ![c] = "open"] /\ fdOwner' = [fdOwner EXCEPT ![f] = c]
      /\ at = "accept" /\ at' = "limit" /\ cur' = f /\ UNCHANGED <<back, stale_fds>>
      /\ UNCHANGED <<peer, outgoing, nreq, inbox, received, epoll, connections_, conn,
                     batch, workVars>>
      /\ sock[c] = "backlog"
  BY DEF Accept4, Goto, Backlog
<1> HIDE DEF f
<1>3. ClientType'
  BY <1>2 DEF ClientType
<1>4. KernelType' /\ OwnerInv'
  BY <1>1, <1>2 DEF KernelType, OwnerInv, ClientType
<1>5. LoopType'
  BY <1>1, <1>2 DEF LoopType, LoopPoints
<1>6. connections_[f] = None
  BY <1>1 DEF TableConsistent, Mapped
<1>7. CurInv' /\ BatchInv'
  BY <1>1, <1>2, <1>6, ServerAssumption DEF CurInv, BatchInv, Mapped, KernelType
<1>8. TableConsistent'
  BY <1>1, <1>2, <1>6 DEF TableConsistent, Mapped, KernelType
<1> QED
  BY <1>2, <1>3, <1>4, <1>5, <1>7, <1>8, Untouched

\* The descriptor is closed, by handle_accept at the limit or at the end of
\* close_connection.
LEMMA CloseInv ==
    ASSUME Inv, AcceptReject \/ Close PROVE Inv'
<1> USE TypeParts DEF Inv
<1> DEFINE c == fdOwner[cur]
<1>1. /\ cur \in Fds /\ c \in Clients /\ connections_[cur] = None /\ sock[c] = "open"
      /\ at \in {"limit", "close"}
  BY DEF AcceptReject, Close, CurInv, OwnerInv, KernelType
<1>2. /\ sock' = [sock EXCEPT ![c] = "closed"]
      /\ fdOwner' = [fdOwner EXCEPT ![cur] = None]
      /\ epoll' = [epoll EXCEPT ![cur] = "none"]
      /\ at' \in {"accept", "dispatch", "reap"} /\ cur' = None /\ UNCHANGED <<back, stale_fds>>
      /\ at' = "reap" => at = "close" /\ back = "reap"
      /\ UNCHANGED <<peer, outgoing, nreq, inbox, received, connections_, conn,
                     batch, workVars>>
  BY DEF AcceptReject, Close, CloseFd, Goto, LoopType
<1> HIDE DEF c
<1>3. ClientType'
  BY <1>2 DEF ClientType
<1>4. KernelType'
  BY <1>1, <1>2 DEF KernelType
<1>5. OwnerInv'
  BY <1>1, <1>2, ServerAssumption DEF OwnerInv, ClientType, KernelType, c
<1>6. LoopType'
  BY <1>2 DEF LoopType, LoopPoints
<1>7. CurInv' /\ BatchInv'
  BY <1>1, <1>2 DEF CurInv, BatchInv, Mapped
<1>8. TableConsistent'
  BY <1>1, <1>2 DEF TableConsistent, Mapped, KernelType
<1> QED
  BY <1>2, <1>3, <1>4, <1>5, <1>6, <1>7, <1>8, Untouched

\* The socket is registered, then mapped.
LEMMA RegisterInv ==
    ASSUME Inv, AcceptRegister PROVE Inv'
<1> USE TypeParts DEF Inv
<1>1. cur \in Fds /\ fdOwner[cur] # None /\ connections_[cur] = None /\ at = "limit"
  BY DEF AcceptRegister, CurInv
<1>2. /\ epoll' = [epoll EXCEPT ![cur] = "in"] /\ at' = "insert" /\ cur' = cur
      /\ UNCHANGED <<clientVars, fdOwner, connections_, conn, batch, workVars, back, stale_fds>>
      /\ ~AtLimit
  BY <1>1 DEF AcceptRegister, EpollSet, Goto
<1>3. KernelType'
  BY <1>1, <1>2 DEF KernelType
<1>4. LoopType'
  BY <1>2 DEF LoopType, LoopPoints
<1>5. CurInv' /\ BatchInv'
  BY <1>1, <1>2, MappedFinite, ServerAssumption DEF CurInv, BatchInv, Mapped, AtLimit, KernelType
<1>6. TableConsistent'
  BY <1>1, <1>2 DEF TableConsistent, Mapped, KernelType
<1> QED
  BY <1>2, <1>3, <1>4, <1>5, <1>6, Untouched DEF clientVars

LEMMA InsertInv ==
    ASSUME Inv, AcceptInsert PROVE Inv'
<1> USE TypeParts DEF Inv
<1> DEFINE c == fdOwner[cur]
           k == NewConnection(cur)
<1>1. /\ cur \in Fds /\ c \in Clients /\ connections_[cur] = None /\ at = "insert"
      /\ epoll[cur] # "none" /\ Cardinality(Mapped) < MAX_CONNECTIONS
  BY DEF AcceptInsert, CurInv, KernelType
<1>2. k \in Connections /\ k.fd = cur /\ Len(k.read_buffer) = 0
  BY <1>1, ServerAssumption DEF Connections, NewConnection
<1>3. /\ connections_' = [connections_ EXCEPT ![cur] = c]
      /\ conn' = [conn EXCEPT ![c] = k] /\ at' = "accept" /\ cur' = None
      /\ UNCHANGED <<clientVars, kernelVars, batch, workVars, back, stale_fds>>
  BY DEF AcceptInsert, Goto
<1> HIDE DEF k
<1>4. ConnType'
  BY <1>1, <1>2, <1>3, ServerAssumption DEF ConnType
<1>5. TaskInv'
  BY <1>1, <1>2, <1>3 DEF TaskInv, WorkType, ConnType, workVars
<1>6. LoopType'
  BY <1>3 DEF LoopType, LoopPoints
<1>7. Mapped' = Mapped \cup {cur} /\ cur \notin Mapped
  BY <1>1, <1>3, ServerAssumption DEF Mapped, ConnType
<1>8. Cardinality(Mapped') <= MAX_CONNECTIONS
  <2>1. Cardinality(Mapped') = Cardinality(Mapped) + 1
    BY <1>7, MappedFinite, FS_AddElement
  <2> QED
    BY <1>1, <2>1, MappedFinite, ServerAssumption
<1>9. CurInv' /\ BatchInv'
  BY <1>1, <1>3, <1>7 DEF CurInv, BatchInv
<1>10. ASSUME NEW f \in Mapped'
       PROVE  /\ fdOwner'[f] = connections_'[f]
              /\ conn'[connections_'[f]].fd = f
              /\ epoll'[f] # "none"
  <2>1. CASE f = cur
    BY <1>1, <1>2, <1>3, <2>1 DEF ConnType, kernelVars
  <2>2. CASE f # cur
    <3>1. f \in Mapped /\ f \in Fds /\ fdOwner[f] = connections_[f] /\ epoll[f] # "none"
          /\ conn[connections_[f]].fd = f /\ connections_[f] \in Clients
      BY <1>7, <2>2 DEF TableConsistent, Mapped, ConnType
    <3>2. connections_[f] # c
      BY <1>1, <2>2, <3>1, ServerAssumption DEF OwnerInv
    <3> QED
      BY <1>3, <2>2, <3>1, <3>2 DEF kernelVars, ConnType
  <2> QED
    BY <2>1, <2>2
<1>11. \A f \in Fds \ Mapped' : fdOwner'[f] = None
  BY <1>1, <1>3, <1>7 DEF TableConsistent, kernelVars
<1>12. TableConsistent'
  BY <1>8, <1>10, <1>11 DEF TableConsistent
<1> QED
  BY <1>3, <1>4, <1>5, <1>6, <1>9, <1>12, Untouched DEF clientVars, kernelVars

\* close_connection, its first and second step.
LEMMA EraseInv ==
    ASSUME Inv, Erase PROVE Inv'
<1> USE TypeParts DEF Inv
<1>1. cur \in Fds /\ at = "erase" /\ \A e \in batch : e[1] # cur
  BY DEF Erase, CurInv, BatchInv
<1>2. /\ connections_' = [connections_ EXCEPT ![cur] = None]
      /\ at' = IF connections_[cur] = None THEN back ELSE "remove"
      /\ UNCHANGED <<clientVars, kernelVars, conn, batch, cur, back, stale_fds, workVars>>
  BY DEF Erase, WithoutEntry
<1>3. ConnType'
  BY <1>2 DEF ConnType
<1>4. LoopType'
  BY <1>2 DEF LoopType, LoopPoints
<1>5. Mapped' = Mapped \ {cur}
  BY <1>1, <1>2 DEF Mapped, ConnType
<1>6. connections_[cur] # None => fdOwner[cur] # None
  BY <1>1 DEF TableConsistent, Mapped
<1>7. CurInv'
  BY <1>1, <1>2, <1>6 DEF CurInv, LoopType, kernelVars, ConnType
<1>8. BatchInv'
  BY <1>1, <1>2, <1>5 DEF BatchInv, LoopType
<1>9. Cardinality(Mapped') <= Cardinality(Mapped) /\ Cardinality(Mapped') \in Nat
  BY <1>5, MappedFinite, FS_Subset, FS_CardinalityType
<1>10. TableConsistent'
  <2>1. Cardinality(Mapped') <= MAX_CONNECTIONS
    BY <1>9, MappedFinite, ServerAssumption DEF TableConsistent
  <2>2. \A f \in Mapped' : /\ fdOwner'[f] = connections_'[f]
                           /\ conn'[connections_'[f]].fd = f
                           /\ epoll'[f] # "none"
    BY <1>2, <1>5 DEF TableConsistent, kernelVars, Mapped, ConnType
  <2>3. \A f \in Fds \ Mapped' :
          fdOwner'[f] # None => cur' = f /\ at' \in {"limit", "insert", "remove", "close"}
    BY <1>1, <1>2, <1>5 DEF TableConsistent, kernelVars, Mapped
  <2> QED
    BY <2>1, <2>2, <2>3 DEF TableConsistent
<1> QED
  BY <1>2, <1>3, <1>4, <1>7, <1>8, <1>10, Untouched DEF clientVars, kernelVars

LEMMA RemoveInv ==
    ASSUME Inv, EpollRemove PROVE Inv'
<1> USE TypeParts DEF Inv
<1>1. cur \in Fds /\ fdOwner[cur] # None /\ connections_[cur] = None /\ at = "remove"
  BY DEF EpollRemove, CurInv
<1>2. /\ epoll' = [epoll EXCEPT ![cur] = "none"] /\ at' = "close"
      /\ UNCHANGED <<clientVars, fdOwner, connections_, conn, batch, cur, back, stale_fds,
                     workVars>>
  BY DEF EpollRemove
<1>3. KernelType'
  BY <1>1, <1>2 DEF KernelType
<1>4. LoopType'
  BY <1>2 DEF LoopType, LoopPoints
<1>5. CurInv' /\ BatchInv'
  BY <1>1, <1>2 DEF CurInv, BatchInv, Mapped
<1>6. TableConsistent'
  BY <1>1, <1>2 DEF TableConsistent, Mapped, KernelType
<1> QED
  BY <1>2, <1>3, <1>4, <1>5, <1>6, Untouched DEF clientVars

-----------------------------------------------------------------------------
(* The theorems                                                             *)

LEMMA LoopInv ==
    ASSUME Inv, LoopStep PROVE Inv'
  BY JumpInv, WaitInv, HandlerInv, Accept4Inv, CloseInv, RegisterInv, InsertInv, EraseInv,
     RemoveInv DEF LoopStep

LEMMA NextInv == Inv /\ [Next]_vars => Inv'
<1> SUFFICES ASSUME Inv, [Next]_vars PROVE Inv'
  OBVIOUS
<1>1. CASE UNCHANGED vars
  BY <1>1, TypeParts, Untouched, OutsideStep DEF vars, Inv, clientVars, kernelVars
<1>2. CASE Next
  BY <1>2, ClientInv, LoopInv, WorkerInv DEF Next
<1> QED
  BY <1>1, <1>2

LEMMA Invariance == Spec => []Inv
  BY InitInv, NextInv, PTL DEF Spec

\* Every variable keeps its type: a read buffer never exceeds
\* MAX_REQUEST_SIZE, a write offset never the response, and a descriptor out
\* of use has no registration.
THEOREM TypeCorrect == Spec => []TypeOK
  BY Invariance, PTL DEF Inv

\* The map of connections agrees with the descriptor table, the Connection
\* objects and epoll, never exceeds MAX_CONNECTIONS, and no socket leaks, for
\* any number of clients and workers and whatever clients and network do.
THEOREM TableAgrees == Spec => []TableConsistent
  BY Invariance, PTL DEF Inv

\* An event that waits in the batch is about the connection it was reported
\* for: handle_accept and close_connection never change what its descriptor
\* maps to.
THEOREM NoStaleEvent == Spec => EventsStayFresh
<1> DEFINE Fresh == \A e \in batch \cap batch' :
                       e[1] # Listener => connections_'[e[1]] = connections_[e[1]]
<1>1. ASSUME Inv, Next PROVE Fresh
  <2>1. CASE UNCHANGED connections_
    BY <2>1
  <2>2. CASE AcceptInsert
    BY <1>1, <2>2, TypeParts DEF AcceptInsert, Inv, CurInv, BatchInv, ConnType, Mapped
  <2>3. CASE Erase
    BY <1>1, <2>3, TypeParts DEF Erase, WithoutEntry, Inv, BatchInv, ConnType
  <2>4. UNCHANGED connections_ \/ AcceptInsert \/ Erase
    BY <1>1 DEF Next, ClientStep, WorkerStep, LoopStep, Connect, BeginRequest, SendPiece, HangUp,
       Elapse, TakeTask, Process, Publish, Rearm, Wait, Dispatch, AcceptNone, AcceptReject,
       AcceptRegister, Accept4, RecvData, RecvEnd, RecvAgain, WriteNothing, SendChunk,
       SendAgain, SendError, WriteDone, EpollRemove, Close, Scan, Reap, ReapEnd
  <2> QED
    BY <2>1, <2>2, <2>3, <2>4
<1>2. Inv /\ [Next]_vars => [Fresh]_vars
  BY <1>1
<1> HIDE DEF Fresh
<1>3. Spec => [][Fresh]_vars
  BY <1>2, Invariance, PTL DEF Spec
<1> QED
  BY <1>3 DEF EventsStayFresh, Fresh

-----------------------------------------------------------------------------
(* One request at a time                                                    *)
(*                                                                          *)
(* Where no client pipelines and every request arrives with its blank line  *)
(* in its last piece, each client gets the answers to its own requests, in  *)
(* order and each once, whatever connections are closed, reset, reaped or   *)
(* refused and whatever descriptors are reused meanwhile.                   *)

\* What the clients are asked to do.  A pipelined request, or a body behind
\* the blank line, would reach the buffer that a worker has in hand.
OneAtATime == "pipeline" \notin Env /\ "splitBody" \notin Shapes

\* A worker uses the buffers of the Connection it was given.
AtWork(w) == wat[w] \in {"process", "publish"}

\* The request of c is queued, or in the hands of a worker that has not
\* published its answer.
Dispatched(c) ==
    \/ \E i \in 1..Len(pool) : pool[i] = c
    \/ \E w \in Workers : AtWork(w) /\ job[w] = c

\* Some part of a request of c, or of its answer, is on its way.
UnderWay(c) ==
    \/ conn[c].read_buffer # <<>> \/ inbox[c] # <<>> \/ outgoing[c] # <<>>
    \/ Dispatched(c) \/ conn[c].write_buffer # None

\* All pieces on their way belong to the request begun last, and nothing comes
\* after the piece with the blank line.
PiecesInv(c) ==
    /\ \A i \in 1..Len(conn[c].read_buffer) :
          /\ conn[c].read_buffer[i].req = nreq[c]
          /\ conn[c].read_buffer[i].kind # "start" => inbox[c] = <<>> /\ outgoing[c] = <<>>
    /\ \A i \in 1..Len(inbox[c]) :
          /\ inbox[c][i].req = nreq[c]
          /\ inbox[c][i].kind # "start" => i = Len(inbox[c]) /\ outgoing[c] = <<>>
    /\ \A i \in 1..Len(outgoing[c]) :
          /\ outgoing[c][i].req = nreq[c]
          /\ outgoing[c][i].kind # "start" => i = Len(outgoing[c])

\* A request is dispatched when all of it is in the read buffer.
DispatchInv(c) ==
    Dispatched(c) => /\ conn[c].read_buffer # <<>> /\ conn[c].write_buffer = None
                     /\ inbox[c] = <<>> /\ outgoing[c] = <<>>

\* The answer in the write buffer is to the request begun last, of which
\* nothing is left.
AnswerInv(c) ==
    /\ conn[c].write_buffer = None => conn[c].bytes_sent = 0
    /\ conn[c].write_buffer # None =>
          /\ conn[c].read_buffer = <<>> /\ inbox[c] = <<>> /\ outgoing[c] = <<>>
          /\ conn[c].write_buffer.conn = c /\ conn[c].write_buffer.req = nreq[c]

\* Before the answer under way the client has got all the earlier ones.
CountInv(c) ==
    UnderWay(c) => /\ nreq[c] > 0
                   /\ Len(received[c]) = Chunks * (nreq[c] - 1) + conn[c].bytes_sent

\* ResponsesInOrder, for one client.
InOrder(c) ==
    \A i \in 1..Len(received[c]) :
       /\ received[c][i].resp.conn = c
       /\ received[c][i].resp.req = ((i - 1) \div Chunks) + 1
       /\ received[c][i].k = ((i - 1) % Chunks) + 1

Stage(c) == PiecesInv(c) /\ DispatchInv(c) /\ AnswerInv(c) /\ CountInv(c) /\ InOrder(c)

\* No request is dispatched twice.
OnceInv ==
    /\ \A i, j \in 1..Len(pool) : pool[i] = pool[j] => i = j
    /\ \A i \in 1..Len(pool), w \in Workers : AtWork(w) => job[w] # pool[i]
    /\ \A v, w \in Workers : AtWork(v) /\ AtWork(w) /\ job[v] = job[w] => v = w

\* The answer a worker is about to publish is to the request begun last.
ComputedInv ==
    \A w \in Workers : wat[w] = "publish" =>
       resp[w].conn = job[w] /\ resp[w].req = nreq[job[w]]

\* handle_read has, or will have, work to do on a dispatched request only to
\* find that its client is gone.
ReadInv ==
    /\ at = "recv" => ~Dispatched(Reading) \/ peer[Reading] # "alive"
    /\ \A e \in batch : e[1] # Listener /\ e[2] = "in" =>
          ~Dispatched(connections_[e[1]]) \/ peer[connections_[e[1]]] # "alive"

\* handle_write does not leave an answer that is sent completely.
SentInv ==
    \A c \in Clients : conn[c].write_buffer # None /\ conn[c].bytes_sent = Chunks =>
       at = "write" /\ Reading = c

\* A client that handle_accept has not dealt with has an untouched Connection.
FreshInv ==
    /\ \A c \in Clients : sock[c] \in {"none", "backlog"} => conn[c].fd = None
    /\ at \in {"limit", "insert"} => conn[fdOwner[cur]].fd = None
    /\ \A c \in Clients : conn[c].fd = None =>
          conn[c].write_buffer = None /\ conn[c].read_buffer = <<>>

Answers ==
    /\ \A c \in Clients : Stage(c)
    /\ OnceInv /\ ComputedInv /\ ReadInv /\ SentInv /\ FreshInv

-----------------------------------------------------------------------------
(* What a step leaves alone                                                 *)

SameData(c) ==
    /\ conn'[c].read_buffer = conn[c].read_buffer
    /\ conn'[c].write_buffer = conn[c].write_buffer
    /\ conn'[c].bytes_sent = conn[c].bytes_sent

SameBuffers(c) == SameData(c) /\ conn'[c].fd = conn[c].fd

\* Nothing of what Stage speaks of changes for this client.
Same(c) ==
    /\ outgoing'[c] = outgoing[c] /\ inbox'[c] = inbox[c]
    /\ nreq'[c] = nreq[c] /\ received'[c] = received[c]
    /\ SameData(c)
    /\ Dispatched(c)' <=> Dispatched(c)

LEMMA StageKept ==
    ASSUME NEW c \in Clients, Stage(c), Same(c) PROVE Stage(c)'
<1> USE DEF Stage, Same, SameData
<1>1. PiecesInv(c)'
  BY DEF PiecesInv
<1>2. DispatchInv(c)' /\ AnswerInv(c)'
  BY DEF DispatchInv, AnswerInv
<1>3. CountInv(c)'
  BY DEF CountInv, UnderWay
<1>4. InOrder(c)'
  BY DEF InOrder
<1> QED
  BY <1>1, <1>2, <1>3, <1>4

\* The queue and the workers, if they stand still.
LEMMA WorkKept ==
    ASSUME UNCHANGED workVars
    PROVE  /\ \A c \in Clients : Dispatched(c)' <=> Dispatched(c)
           /\ OnceInv => OnceInv'
  BY DEF workVars, Dispatched, AtWork, OnceInv

LEMMA InitAnswers == Init => Answers
<1> SUFFICES ASSUME Init PROVE Answers
  OBVIOUS
<1> USE DEF Init
<1>1. ASSUME NEW c \in Clients
      PROVE  /\ conn[c].read_buffer = <<>> /\ conn[c].write_buffer = None
             /\ conn[c].bytes_sent = 0 /\ conn[c].fd = None
             /\ inbox[c] = <<>> /\ outgoing[c] = <<>> /\ received[c] = <<>>
             /\ ~Dispatched(c)
  BY DEF NewConnection, Dispatched, AtWork
<1>2. ASSUME NEW c \in Clients PROVE Stage(c)
  BY <1>1 DEF Stage, PiecesInv, DispatchInv, AnswerInv, CountInv, UnderWay, InOrder
<1>3. OnceInv /\ ComputedInv
  BY DEF OnceInv, ComputedInv, AtWork
<1>4. ReadInv /\ SentInv /\ FreshInv
  BY <1>1 DEF ReadInv, SentInv, FreshInv
<1> QED
  BY <1>2, <1>3, <1>4 DEF Answers

-----------------------------------------------------------------------------
(* Steps of the clients                                                     *)

\* They move neither the loop nor the workers.
LEMMA ClientFrame ==
    ASSUME Inv, Answers, UNCHANGED <<kernelVars, connections_, loopVars, workVars>>,
           \A d \in Clients : SameBuffers(d),
           \A d \in Clients : Dispatched(d) => nreq'[d] = nreq[d],
           \A d \in Clients : peer[d] # "alive" => peer'[d] # "alive",
           \A d \in Clients : sock'[d] \in {"none", "backlog"} => sock[d] \in {"none", "backlog"}
    PROVE  OnceInv' /\ ComputedInv' /\ ReadInv' /\ SentInv' /\ FreshInv'
<1> USE TypeParts DEF Answers, Inv
<1>1. OnceInv' /\ \A c \in Clients : Dispatched(c)' <=> Dispatched(c)
  BY WorkKept
<1>2. ComputedInv'
  <2>1. \A w \in Workers : wat[w] = "publish" => job[w] \in Clients /\ Dispatched(job[w])
    BY DEF TaskInv, Dispatched, AtWork
  <2> QED
    BY <2>1 DEF ComputedInv, workVars
<1>3. ReadInv'
  <2>1. at = "recv" => Reading \in Clients
    BY DEF CurInv, Reading, Mapped, ConnType
  <2>2. \A e \in batch : e[1] # Listener => connections_[e[1]] \in Clients
    BY DEF BatchInv, Mapped, ConnType
  <2> QED
    BY <1>1, <2>1, <2>2 DEF ReadInv, loopVars, Reading
<1>4. SentInv'
  BY DEF SentInv, SameBuffers, SameData, loopVars, Reading
<1>5. FreshInv'
  BY DEF FreshInv, SameBuffers, SameData, loopVars, kernelVars, CurInv, KernelType
<1> QED
  BY <1>1, <1>2, <1>3, <1>4, <1>5

\* A client that has all its answers has nothing under way, once handle_write
\* is over.
LEMMA NothingUnderWay ==
    ASSUME Inv, Answers, NEW c \in Clients, Answered(c), at # "write"
    PROVE  ~UnderWay(c)
<1> SUFFICES ASSUME UnderWay(c) PROVE FALSE
  OBVIOUS
<1> USE DEF Inv, Answers
<1>1. nreq[c] \in Nat /\ conn[c].bytes_sent \in Nat /\ Chunks \in Nat \ {0}
  BY TypeParts, ServerAssumption DEF ClientType, ConnType, Connections
<1>2. nreq[c] > 0 /\ Chunks * nreq[c] = Chunks * (nreq[c] - 1) + conn[c].bytes_sent
  BY DEF Stage, CountInv, Answered
<1>3. conn[c].bytes_sent = Chunks
  <2>1. PICK n \in Nat : n = nreq[c]
    BY <1>1
  <2>2. PICK b \in Nat : b = conn[c].bytes_sent
    BY <1>1
  <2>3. Chunks * n = Chunks * (n - 1) + b
    BY <1>2, <2>1, <2>2
  <2>4. Chunks * n = Chunks * (n - 1) + Chunks
    BY <1>1
  <2>5. PICK m \in Int : m = Chunks * (n - 1)
    BY <1>1
  <2>6. m + b = m + Chunks
    BY <2>3, <2>4, <2>5
  <2> QED
    BY <1>1, <2>2, <2>6
<1>4. conn[c].write_buffer # None
  BY <1>1, <1>3 DEF Stage, AnswerInv
<1> QED
  BY <1>3, <1>4 DEF SentInv

\* The pieces of a request, cut before or at the blank line.
LEMMA PiecesEnd ==
    ASSUME OneAtATime, NEW n \in Nat, NEW shape \in Shapes, NEW keep \in BOOLEAN
    PROVE  LET ps == PiecesOf(n, shape, keep) IN
           \A i \in 1..Len(ps) : /\ ps[i].req = n
                                 /\ ps[i].kind # "start" => i = Len(ps)
<1>1. \/ Cut[shape] = <<"whole">> \/ Cut[shape] = <<"start", "rest">>
      \/ Cut[shape] = <<"start", "start", "rest">> \/ Cut[shape] = <<"garbage">>
  BY ServerAssumption DEF Cut, OneAtATime
<1>2. /\ Len(Cut[shape]) \in Nat
      /\ \A i \in 1..Len(Cut[shape]) : Cut[shape][i] # "start" => i = Len(Cut[shape])
  <2>0. CASE Cut[shape] = <<"whole">>
    BY <2>0
  <2>1. CASE Cut[shape] = <<"garbage">>
    BY <2>1
  <2>2. CASE Cut[shape] = <<"start", "rest">>
    BY <2>2
  <2>3. CASE Cut[shape] = <<"start", "start", "rest">>
    BY <2>3
  <2> QED
    BY <1>1, <2>0, <2>1, <2>2, <2>3
<1>3. Len(PiecesOf(n, shape, keep)) = Len(Cut[shape])
  BY <1>2 DEF PiecesOf
<1> QED
  BY <1>2, <1>3 DEF PiecesOf

LEMMA BeginAnswers ==
    ASSUME OneAtATime, Inv, Answers, NEW c \in Clients, NEW shape \in Shapes,
           NEW keep \in BOOLEAN, BeginRequest(c, shape, keep)
    PROVE  Answers'
<1> USE DEF BeginRequest
<1>1. ~UnderWay(c) /\ Len(received[c]) = Chunks * nreq[c]
  BY NothingUnderWay DEF OneAtATime, Answered
<1>2. nreq \in [Clients -> Nat] /\ outgoing \in [Clients -> Seq(Pieces)]
  BY TypeParts, ServerAssumption DEF Inv, ClientType
<1>3. \A d \in Clients : SameBuffers(d) /\ (Dispatched(d)' <=> Dispatched(d))
  BY WorkKept DEF SameBuffers, SameData
<1>4. \A d \in Clients : Dispatched(d) => nreq'[d] = nreq[d]
  BY <1>1, <1>2 DEF UnderWay
<1>5. OnceInv' /\ ComputedInv' /\ ReadInv' /\ SentInv' /\ FreshInv'
  BY <1>3, <1>4, ClientFrame
<1>6. ASSUME NEW d \in Clients PROVE Stage(d)'
  <2>1. CASE d # c
    BY <1>2, <1>3, <2>1, StageKept DEF Answers, Same, SameBuffers, SameData
  <2>2. CASE d = c
    <3> USE <2>2 DEF Answers, Stage
    <3>1. /\ nreq'[c] = nreq[c] + 1 /\ nreq[c] \in Nat
          /\ outgoing'[c] = PiecesOf(nreq[c] + 1, shape, keep)
          /\ inbox'[c] = <<>> /\ conn'[c].read_buffer = <<>> /\ conn'[c].write_buffer = None
          /\ conn'[c].bytes_sent = 0 /\ ~Dispatched(c)' /\ received'[c] = received[c]
      BY <1>1, <1>2, <1>3 DEF UnderWay, SameBuffers, SameData, AnswerInv
    <3>2. PiecesInv(c)'
      BY <3>1, PiecesEnd DEF PiecesInv
    <3>3. DispatchInv(c)' /\ AnswerInv(c)'
      BY <3>1 DEF DispatchInv, AnswerInv
    <3>4. CountInv(c)'
      <4>1. Chunks * nreq[c] = Chunks * (nreq'[c] - 1) /\ Chunks * nreq[c] \in Nat
        BY <3>1, ServerAssumption
      <4> QED
        BY <1>1, <3>1, <4>1 DEF CountInv
    <3>5. InOrder(c)'
      BY <3>1 DEF InOrder
    <3> QED
      BY <3>2, <3>3, <3>4, <3>5
  <2> QED
    BY <2>1, <2>2
<1> QED
  BY <1>5, <1>6 DEF Answers

\* What Head and Tail take apart.
LEMMA FirstAndRest ==
    ASSUME NEW S, NEW s \in Seq(S), s # <<>>
    PROVE  /\ Head(s) \in S /\ Head(s) = s[1]
           /\ Tail(s) \in Seq(S) /\ Len(s) = Len(Tail(s)) + 1
           /\ \A i \in 1..Len(Tail(s)) : Tail(s)[i] = s[i + 1]
<1>1. Head(s) \in S /\ Head(s) = s[1]
  OBVIOUS
<1>2. Tail(s) \in Seq(S) /\ Len(s) = Len(Tail(s)) + 1
  OBVIOUS
<1>3. \A i \in 1..Len(Tail(s)) : Tail(s)[i] = s[i + 1]
  OBVIOUS
<1> QED
  BY <1>1, <1>2, <1>3

LEMMA SendAnswers ==
    ASSUME Inv, Answers, NEW c \in Clients, SendPiece(c) PROVE Answers'
<1> USE DEF SendPiece
<1>1. /\ outgoing \in [Clients -> Seq(Pieces)] /\ inbox \in [Clients -> Seq(Pieces)]
      /\ outgoing[c] # <<>>
  BY TypeParts DEF Inv, ClientType
<1>2. \A d \in Clients : SameBuffers(d) /\ (Dispatched(d)' <=> Dispatched(d))
  BY WorkKept DEF SameBuffers, SameData
<1>3. OnceInv' /\ ComputedInv' /\ ReadInv' /\ SentInv' /\ FreshInv'
  BY <1>2, ClientFrame
<1>4. ASSUME NEW d \in Clients PROVE Stage(d)'
  <2>1. CASE d # c
    BY <1>1, <1>2, <2>1, StageKept DEF Answers, Same, SameBuffers, SameData
  <2>2. CASE d = c
    <3> USE DEF Answers, Stage
    <3>1. /\ ~Dispatched(c) /\ conn[c].write_buffer = None /\ UnderWay(c)
          /\ \A i \in 1..Len(conn[c].read_buffer) : conn[c].read_buffer[i].kind = "start"
      BY <1>1 DEF DispatchInv, AnswerInv, PiecesInv, UnderWay
    <3> DEFINE p == Head(outgoing[c])
               rest == Tail(outgoing[c])
    <3>2. /\ p \in Pieces /\ p = outgoing[c][1]
          /\ rest \in Seq(Pieces) /\ Len(outgoing[c]) = Len(rest) + 1
          /\ \A i \in 1..Len(rest) : rest[i] = outgoing[c][i + 1]
      <4>1. outgoing[c] \in Seq(Pieces) /\ outgoing[c] # <<>>
        BY <1>1
      <4> HIDE DEF SendPiece
      <4> QED
        BY <4>1, FirstAndRest
    <3>3. inbox'[c] = Append(inbox[c], p) /\ outgoing'[c] = rest
      BY <1>1
    <3> HIDE DEF p, rest
    <3>4. p.req = nreq[c] /\ (p.kind # "start" => rest = <<>>)
      <4>1. 1 \in 1..Len(outgoing[c]) /\ Len(rest) \in Nat
        BY <3>2
      <4>2. p.req = nreq[c] /\ (p.kind # "start" => 1 = Len(outgoing[c]))
        BY <3>2, <4>1 DEF PiecesInv
      <4> QED
        BY <3>2, <4>2
    <3>5. \A i \in 1..Len(rest) :
              rest[i].req = nreq[c] /\ (rest[i].kind # "start" => i = Len(rest))
      <4> SUFFICES ASSUME NEW i \in 1..Len(rest)
                   PROVE  rest[i].req = nreq[c] /\ (rest[i].kind # "start" => i = Len(rest))
        OBVIOUS
      <4>1. i + 1 \in 1..Len(outgoing[c]) /\ Len(rest) \in Nat /\ i \in Nat
        BY <3>2
      <4>2. /\ outgoing[c][i + 1].req = nreq[c]
            /\ outgoing[c][i + 1].kind # "start" => i + 1 = Len(outgoing[c])
        BY <4>1 DEF PiecesInv
      <4> QED
        BY <3>2, <4>1, <4>2
    <3>6. \A i \in 1..Len(inbox[c]) : inbox[c][i].req = nreq[c] /\ inbox[c][i].kind = "start"
      BY <1>1 DEF PiecesInv
    <3>7. \A i \in 1..Len(inbox'[c]) :
              /\ inbox'[c][i].req = nreq[c]
              /\ inbox'[c][i].kind # "start" => i = Len(inbox'[c]) /\ rest = <<>>
      BY <1>1, <3>2, <3>3, <3>4, <3>6
    <3>8. PiecesInv(c)'
      BY <1>2, <3>1, <3>3, <3>5, <3>7 DEF PiecesInv, SameBuffers, SameData
    <3>9. DispatchInv(c)' /\ AnswerInv(c)'
      BY <1>2, <3>1 DEF DispatchInv, AnswerInv, SameBuffers, SameData
    <3>10. CountInv(c)' /\ InOrder(c)'
      BY <1>2, <3>1 DEF CountInv, InOrder, SameBuffers, SameData
    <3> QED
      BY <2>2, <3>8, <3>9, <3>10
  <2> QED
    BY <2>1, <2>2
<1> QED
  BY <1>3, <1>4 DEF Answers

LEMMA HangUpAnswers ==
    ASSUME Inv, Answers, NEW c \in Clients, HangUp(c) PROVE Answers'
<1> USE DEF HangUp
<1>1. /\ inbox \in [Clients -> Seq(Pieces)] /\ peer \in [Clients -> {"alive", "fin", "rst"}]
      /\ UNCHANGED <<sock, outgoing, nreq, received, conn, workVars>>
      /\ \A d \in Clients : inbox'[d] = inbox[d] \/ (d = c /\ inbox'[d] = <<>>)
      /\ \A d \in Clients : peer[d] # "alive" => peer'[d] # "alive"
  BY TypeParts DEF Inv, ClientType
<1>2. \A d \in Clients : SameBuffers(d) /\ (Dispatched(d)' <=> Dispatched(d))
  BY WorkKept DEF SameBuffers, SameData
<1>3. OnceInv' /\ ComputedInv' /\ ReadInv' /\ SentInv' /\ FreshInv'
  BY <1>1, <1>2, ClientFrame
<1>4. ASSUME NEW d \in Clients PROVE Stage(d)'
  <2>1. CASE inbox'[d] = inbox[d]
    BY <1>1, <1>2, <2>1, StageKept DEF Answers, Same, SameBuffers, SameData
  <2>2. CASE d = c /\ inbox'[d] = <<>>
    <3> USE DEF Answers, Stage
    <3>0. DispatchInv(d)' /\ AnswerInv(d)'
      BY <1>1, <1>2, <2>2 DEF DispatchInv, AnswerInv, SameBuffers, SameData
    <3>1. PiecesInv(d)'
      <4>1. \A i \in 1..Len(inbox'[d]) : FALSE
        BY <2>2
      <4>2. /\ conn'[d].read_buffer = conn[d].read_buffer
            /\ outgoing'[d] = outgoing[d] /\ nreq'[d] = nreq[d]
        BY <1>1, <1>2 DEF SameBuffers, SameData
      <4> HIDE DEF HangUp
      <4> QED
        BY <2>2, <4>1, <4>2 DEF PiecesInv
    <3>2. CountInv(d)' /\ InOrder(d)'
      BY <1>1, <1>2, <2>2 DEF CountInv, InOrder, UnderWay, SameBuffers, SameData
    <3> QED
      BY <3>0, <3>1, <3>2
  <2> QED
    BY <1>1, <2>1, <2>2
<1> QED
  BY <1>3, <1>4 DEF Answers

LEMMA ClientAnswers ==
    ASSUME OneAtATime, Inv, Answers, NEW c \in Clients, ClientStep(c) PROVE Answers'
<1>1. CASE Connect(c) \/ Elapse(c)
  <2>1. /\ UNCHANGED <<kernelVars, connections_, loopVars, workVars>>
        /\ UNCHANGED <<peer, outgoing, nreq, inbox, received>>
        /\ \A d \in Clients : sock'[d] \in {"none", "backlog"} => sock[d] \in {"none", "backlog"}
    BY <1>1, TypeParts DEF Connect, Elapse, clientVars, Inv, ClientType
  <2>2. \A d \in Clients : conn[d] \in Connections
    BY TypeParts DEF Inv, ConnType
  <2>3. \A d \in Clients : conn'[d] = conn[d] \/ conn'[d] = [conn[d] EXCEPT !.overdue = TRUE]
    BY <1>1, TypeParts DEF Connect, Elapse, Inv, ConnType
  <2>4. \A d \in Clients : SameBuffers(d)
    BY <2>2, <2>3 DEF SameBuffers, SameData, Connections
  <2>5. \A d \in Clients : Same(d)
    BY <2>1, <2>4, WorkKept DEF Same, SameBuffers, SameData
  <2>6. OnceInv' /\ ComputedInv' /\ ReadInv' /\ SentInv' /\ FreshInv'
    BY <2>1, <2>4, ClientFrame
  <2> QED
    BY <2>5, <2>6, StageKept DEF Answers
<1> QED
  BY <1>1, BeginAnswers, SendAnswers, HangUpAnswers DEF ClientStep

-----------------------------------------------------------------------------
(* Steps of the workers                                                     *)

\* They do not move the loop.
LEMMA WorkerFrame ==
    ASSUME Inv, Answers, UNCHANGED <<clientVars, fdOwner, connections_, loopVars>>,
           \A d \in Clients : Dispatched(d)' => Dispatched(d),
           \A d \in Clients : SameBuffers(d) \/ (conn'[d].bytes_sent = 0 /\ conn[d].fd \in Fds
                                                 /\ conn'[d].fd = conn[d].fd)
    PROVE  ReadInv' /\ SentInv' /\ FreshInv'
<1> USE TypeParts DEF Answers, Inv
<1>1. ReadInv'
  <2>1. at = "recv" => Reading \in Clients
    BY DEF CurInv, Reading, Mapped, ConnType
  <2>2. \A e \in batch : e[1] # Listener => connections_[e[1]] \in Clients
    BY DEF BatchInv, Mapped, ConnType
  <2> QED
    BY <2>1, <2>2 DEF ReadInv, loopVars, clientVars, Reading
<1>2. SentInv'
  BY ServerAssumption DEF SentInv, SameBuffers, SameData, loopVars, Reading
<1>3. FreshInv'
  <2>1. at \in {"limit", "insert"} => fdOwner[cur] \in Clients
    BY DEF CurInv, KernelType
  <2>2. \A d \in Clients : conn'[d].fd = conn[d].fd
    BY DEF SameBuffers, SameData
  <2>3. \A d \in Clients : conn[d].fd = None => SameBuffers(d)
    BY ServerAssumption
  <2> QED
    BY <2>1, <2>2, <2>3 DEF FreshInv, SameBuffers, SameData, loopVars, clientVars
<1> QED
  BY <1>1, <1>2, <1>3

\* The worker takes over what was queued first.
LEMMA TakeAnswers ==
    ASSUME Inv, Answers, NEW w \in Workers, TakeTask(w) PROVE Answers'
<1> USE DEF TakeTask
<1>1. /\ pool \in Seq(Clients) /\ pool # <<>> /\ job \in [Workers -> Clients \cup {None}]
      /\ wat \in [Workers -> {"idle", "process", "publish", "rearm"}]
  BY TypeParts DEF Inv, WorkType
<1> DEFINE h == Head(pool)
           rest == Tail(pool)
<1>2. /\ h \in Clients /\ h = pool[1]
      /\ rest \in Seq(Clients) /\ Len(pool) = Len(rest) + 1
      /\ \A i \in 1..Len(rest) : rest[i] = pool[i + 1]
  <2> HIDE DEF TakeTask
  <2> QED
    BY <1>1, FirstAndRest
<1>3. /\ job' = [job EXCEPT ![w] = h] /\ pool' = rest /\ wat' = [wat EXCEPT ![w] = "process"]
      /\ ~AtWork(w) /\ AtWork(w)'
      /\ \A v \in Workers : v # w => job'[v] = job[v] /\ (AtWork(v)' <=> AtWork(v))
  BY <1>1 DEF AtWork
<1> HIDE DEF h, rest
<1>4. Len(rest) \in Nat
  BY <1>2
<1>5. \A i \in 1..Len(rest) : rest[i] # h /\ \A j \in 1..Len(rest) : rest[i] = rest[j] => i = j
  <2> SUFFICES ASSUME NEW i \in 1..Len(rest)
               PROVE  rest[i] # h /\ \A j \in 1..Len(rest) : rest[i] = rest[j] => i = j
    OBVIOUS
  <2>1. /\ 1 \in 1..Len(pool) /\ i + 1 \in 1..Len(pool)
        /\ \A j \in 1..Len(rest) : j + 1 \in 1..Len(pool)
    BY <1>2, <1>4
  <2>2. \A k, j \in 1..Len(pool) : pool[k] = pool[j] => k = j
    BY DEF Answers, OnceInv
  <2>3. rest[i] = pool[i + 1] /\ \A j \in 1..Len(rest) : rest[j] = pool[j + 1]
    BY <1>2
  <2>4. rest[i] # h
    BY <1>2, <2>1, <2>2, <2>3
  <2>5. ASSUME NEW j \in 1..Len(rest), rest[i] = rest[j] PROVE i = j
    <3>1. i + 1 = j + 1
      BY <2>1, <2>2, <2>3, <2>5
    <3> QED
      BY <1>4, <3>1
  <2> QED
    BY <2>4, <2>5
<1>6. \A v \in Workers : AtWork(v) => job[v] # h /\ \A i \in 1..Len(rest) : job[v] # rest[i]
  <2>1. 1 \in 1..Len(pool) /\ \A i \in 1..Len(rest) : i + 1 \in 1..Len(pool)
    BY <1>2, <1>4
  <2>2. \A i \in 1..Len(pool), v \in Workers : AtWork(v) => job[v] # pool[i]
    BY DEF Answers, OnceInv
  <2> HIDE DEF TakeTask
  <2> QED
    BY <1>2, <2>1, <2>2
<1>7. OnceInv'
  <2>1. \A i, j \in 1..Len(pool') : pool'[i] = pool'[j] => i = j
    BY <1>3, <1>5
  <2>2. \A i \in 1..Len(pool'), v \in Workers : AtWork(v)' => job'[v] # pool'[i]
    BY <1>1, <1>3, <1>5, <1>6
  <2>3. \A u, v \in Workers : AtWork(u)' /\ AtWork(v)' /\ job'[u] = job'[v] => u = v
    BY <1>1, <1>3, <1>6 DEF Answers, OnceInv
  <2> QED
    BY <2>1, <2>2, <2>3 DEF OnceInv
<1>8. ASSUME NEW d \in Clients PROVE Dispatched(d)' <=> Dispatched(d)
  <2>1. ASSUME Dispatched(d) PROVE Dispatched(d)'
    <3>1. CASE d = h
      BY <1>1, <1>3, <3>1 DEF Dispatched
    <3>2. ASSUME NEW i \in 1..Len(pool), pool[i] = d, d # h PROVE Dispatched(d)'
      <4>1. i # 1 /\ i - 1 \in 1..Len(rest) /\ (i - 1) + 1 = i
        BY <1>2, <1>4, <3>2
      <4>2. rest[i - 1] = d
        BY <1>2, <3>2, <4>1
      <4> QED
        BY <1>3, <4>1, <4>2 DEF Dispatched
    <3>3. ASSUME NEW v \in Workers, AtWork(v), job[v] = d PROVE Dispatched(d)'
      BY <1>3, <3>3 DEF Dispatched
    <3> QED
      BY <2>1, <3>1, <3>2, <3>3 DEF Dispatched
  <2>2. ASSUME Dispatched(d)' PROVE Dispatched(d)
    <3>1. ASSUME NEW i \in 1..Len(rest), rest[i] = d PROVE Dispatched(d)
      <4>1. i + 1 \in 1..Len(pool) /\ pool[i + 1] = d
        BY <1>2, <1>4, <3>1
      <4> QED
        BY <4>1 DEF Dispatched
    <3>2. ASSUME NEW v \in Workers, AtWork(v)', job'[v] = d PROVE Dispatched(d)
      <4>1. CASE v = w
        <5>1. d = pool[1] /\ 1 \in 1..Len(pool)
          BY <1>1, <1>2, <1>3, <1>4, <3>2, <4>1
        <5> QED
          BY <5>1 DEF Dispatched
      <4>2. CASE v # w
        BY <1>3, <3>2, <4>2 DEF Dispatched
      <4> QED
        BY <4>1, <4>2
    <3> QED
      BY <1>3, <2>2, <3>1, <3>2 DEF Dispatched
  <2> QED
    BY <2>1, <2>2
<1>9. \A d \in Clients : SameBuffers(d)
  BY DEF SameBuffers, SameData
<1>10. ReadInv' /\ SentInv' /\ FreshInv'
  BY <1>8, <1>9, WorkerFrame DEF clientVars, kernelVars
<1>11. ComputedInv'
  BY <1>1, <1>3 DEF Answers, ComputedInv, clientVars
<1>12. \A d \in Clients : Stage(d)'
  BY <1>8, <1>9, StageKept DEF Answers, Same, SameBuffers, SameData, clientVars
<1> QED
  BY <1>7, <1>10, <1>11, <1>12 DEF Answers

\* The answer is computed from the request in the read buffer.
LEMMA ProcessAnswers ==
    ASSUME Inv, Answers, NEW w \in Workers, Process(w) PROVE Answers'
<1> USE TypeParts DEF Inv, Answers
<1> DEFINE c == job[w]
           buf == conn[c].read_buffer
           n == IF buf = <<>> THEN 0 ELSE buf[1].req
<1>1. /\ c \in Clients /\ conn[c] \in Connections /\ buf \in Seq(Pieces)
      /\ wat[w] = "process" /\ Dispatched(c)
  <2>1. wat[w] = "process" /\ c \in Clients
    BY DEF Process, TaskInv
  <2>2. conn[c] \in Connections
    BY <2>1 DEF ConnType
  <2> QED
    BY <2>1, <2>2 DEF Connections, Dispatched, AtWork
<1>2. n = nreq[c]
  <2>1. buf # <<>> /\ 1 \in 1..Len(buf)
    BY <1>1 DEF Stage, DispatchInv
  <2> QED
    BY <1>1, <2>1 DEF Stage, PiecesInv
<1>3. /\ wat' = [wat EXCEPT ![w] = "publish"]
      /\ UNCHANGED <<clientVars, kernelVars, connections_, loopVars, pool, job>>
      /\ \E status \in Statuses, keep \in {TRUE, FALSE, WantsKeepAlive(buf)} :
            resp' = [resp EXCEPT ![w] = Response(c, n, status, keep)]
      /\ UNCHANGED conn \/ conn' = [conn EXCEPT ![c].keep_alive = WantsKeepAlive(buf)]
  BY DEF Process, Statuses
<1>4. \A d \in Clients : SameBuffers(d)
  <2>1. \A d \in Clients :
          conn'[d] = conn[d] \/ conn'[d] = [conn[d] EXCEPT !.keep_alive = WantsKeepAlive(buf)]
    BY <1>1, <1>3 DEF ConnType
  <2>2. \A d \in Clients : conn[d] \in Connections
    BY DEF ConnType
  <2> QED
    BY <2>1, <2>2 DEF Connections, SameBuffers, SameData
<1>5. \A v \in Workers : AtWork(v)' <=> AtWork(v)
  BY <1>1, <1>3 DEF WorkType, AtWork
<1>6. OnceInv' /\ \A d \in Clients : Dispatched(d)' <=> Dispatched(d)
  BY <1>3, <1>5 DEF OnceInv, Dispatched
<1>7. ComputedInv'
  <2>1. resp'[w].conn = c /\ resp'[w].req = nreq[c]
    BY <1>2, <1>3 DEF WorkType, Response
  <2>2. \A v \in Workers : v # w => resp'[v] = resp[v] /\ wat'[v] = wat[v]
    BY <1>3 DEF WorkType
  <2> QED
    BY <1>3, <2>1, <2>2 DEF ComputedInv, clientVars
<1>8. ReadInv' /\ SentInv' /\ FreshInv'
  BY <1>3, <1>4, <1>6, WorkerFrame DEF kernelVars
<1>9. \A d \in Clients : Stage(d)'
  BY <1>3, <1>4, <1>6, StageKept DEF Same, SameBuffers, SameData, clientVars
<1> QED
  BY <1>6, <1>7, <1>8, <1>9

\* The answer is in the write buffer, and the request gone from the read
\* buffer.
LEMMA PublishAnswers ==
    ASSUME Inv, Answers, NEW w \in Workers, Publish(w) PROVE Answers'
<1> USE TypeParts DEF Inv, Answers
<1>0. PICK c \in Clients : c = job[w]
  BY DEF Publish, TaskInv
<1>1. /\ conn[c] \in Connections /\ conn[c].fd \in Fds
      /\ wat[w] = "publish" /\ Dispatched(c) /\ AtWork(w)
      /\ resp[w].conn = c /\ resp[w].req = nreq[c]
  BY <1>0 DEF Publish, TaskInv, ConnType, Dispatched, AtWork, ComputedInv
<1>2. /\ conn' = [conn EXCEPT ![c] = AfterPublish(@, resp[w])]
      /\ resp' = [resp EXCEPT ![w] = None] /\ wat' = [wat EXCEPT ![w] = "rearm"]
      /\ UNCHANGED <<clientVars, kernelVars, connections_, loopVars, pool, job>>
  BY <1>0 DEF Publish, Target
<1>3. /\ conn'[c].write_buffer = resp[w] /\ conn'[c].bytes_sent = 0
      /\ conn'[c].read_buffer = <<>> /\ conn'[c].fd = conn[c].fd
  BY <1>1, <1>2 DEF AfterPublish, Connections, ConnType
<1>4. \A d \in Clients : d # c => SameBuffers(d)
  BY <1>2 DEF SameBuffers, SameData, ConnType
<1>5. ~AtWork(w)' /\ \A v \in Workers : v # w => (AtWork(v)' <=> AtWork(v))
  BY <1>2 DEF AtWork, WorkType
<1>6. OnceInv'
  BY <1>2, <1>5 DEF OnceInv
<1>7. ~Dispatched(c)' /\ \A d \in Clients : d # c => (Dispatched(d)' <=> Dispatched(d))
  BY <1>0, <1>1, <1>2, <1>5 DEF OnceInv, Dispatched
<1>8. ComputedInv'
  BY <1>2 DEF ComputedInv, clientVars, WorkType
<1>9. ReadInv' /\ SentInv' /\ FreshInv'
  BY <1>1, <1>2, <1>3, <1>4, <1>7, WorkerFrame DEF kernelVars
<1>10. ASSUME NEW d \in Clients PROVE Stage(d)'
  <2>1. CASE d # c
    BY <1>2, <1>4, <1>7, <2>1, StageKept DEF Same, SameBuffers, SameData, clientVars
  <2>2. CASE d = c
    <3> USE DEF Stage
    <3>1. /\ UnderWay(c) /\ conn[c].write_buffer = None /\ conn[c].bytes_sent = 0
          /\ inbox[c] = <<>> /\ outgoing[c] = <<>>
      BY <1>1 DEF UnderWay, DispatchInv, AnswerInv
    <3>2. PiecesInv(c)'
      BY <1>2, <1>3, <3>1 DEF PiecesInv, clientVars
    <3>3. DispatchInv(c)' /\ AnswerInv(c)'
      BY <1>1, <1>2, <1>3, <1>7, <3>1 DEF DispatchInv, AnswerInv, clientVars
    <3>4. CountInv(c)' /\ InOrder(c)'
      BY <1>2, <1>3, <3>1 DEF CountInv, InOrder, clientVars
    <3> QED
      BY <2>2, <3>2, <3>3, <3>4
  <2> QED
    BY <2>1, <2>2
<1> QED
  BY <1>6, <1>8, <1>9, <1>10

LEMMA WorkerAnswers ==
    ASSUME Inv, Answers, NEW w \in Workers, WorkerStep(w) PROVE Answers'
<1>1. CASE Rearm(w)
  <2> USE <1>1, TypeParts DEF Rearm, Inv, Answers
  <2>1. \A v \in Workers : AtWork(v)' <=> AtWork(v)
    BY DEF AtWork, WorkType
  <2>2. \A v \in Workers : AtWork(v) => job'[v] = job[v]
    BY DEF AtWork, WorkType
  <2>3. OnceInv' /\ \A d \in Clients : Dispatched(d)' <=> Dispatched(d)
    BY <2>1, <2>2 DEF OnceInv, Dispatched
  <2>4. \A d \in Clients : SameBuffers(d)
    BY DEF SameBuffers, SameData
  <2>5. ComputedInv'
    BY DEF ComputedInv, clientVars, WorkType
  <2>6. ReadInv' /\ SentInv' /\ FreshInv'
    BY <2>3, <2>4, WorkerFrame
  <2>7. \A d \in Clients : Stage(d)'
    BY <2>3, <2>4, StageKept DEF Same, SameBuffers, SameData, clientVars
  <2> QED
    BY <2>3, <2>5, <2>6, <2>7
<1> QED
  BY <1>1, TakeAnswers, ProcessAnswers, PublishAnswers DEF WorkerStep

-----------------------------------------------------------------------------
(* Steps of the event loop                                                  *)

\* They take no event over to the next batch, nor change its connection, and
\* do not come from a handler to handle_read.
LEMMA ReadKept ==
    ASSUME Inv, Answers, UNCHANGED <<peer, workVars>>, batch' \subseteq batch, at' # "recv",
           \A e \in batch' : e[1] # Listener => connections_'[e[1]] = connections_[e[1]]
    PROVE  ReadInv'
<1>1. \A e \in batch : e[1] # Listener => connections_[e[1]] \in Clients
  BY TypeParts DEF Inv, BatchInv, Mapped, ConnType
<1> QED
  BY <1>1, WorkKept DEF Answers, ReadInv

\* A step that leaves the buffers, the queue and the workers alone, and comes
\* from handle_write only if the answer there is not complete.
LEMMA LoopFrame ==
    ASSUME Inv, Answers, ReadInv',
           UNCHANGED <<peer, outgoing, nreq, inbox, received, conn, workVars>>,
           at = "write" =>
              conn[Reading].write_buffer = None \/ conn[Reading].bytes_sent # Chunks,
           at' \in {"limit", "insert"} => conn[fdOwner'[cur']].fd = None,
           \A d \in Clients : sock'[d] \in {"none", "backlog"} => sock[d] \in {"none", "backlog"}
    PROVE  Answers'
<1> USE DEF Answers
<1>1. \A d \in Clients : Same(d)
  BY WorkKept DEF Same, SameData
<1>2. \A d \in Clients : Stage(d)'
  BY <1>1, StageKept
<1>3. OnceInv' /\ ComputedInv'
  BY WorkKept DEF ComputedInv, workVars
<1>4. SentInv'
  BY DEF SentInv
<1>5. FreshInv'
  BY DEF FreshInv
<1> QED
  BY <1>2, <1>3, <1>4, <1>5

\* The steps that move the loop without touching the table.
LEMMA JumpAnswers ==
    ASSUME Inv, Answers, \/ AcceptNone \/ RecvEnd \/ WriteNothing \/ SendAgain \/ SendError
                         \/ Scan \/ Reap \/ ReapEnd \/ EpollRemove
    PROVE  Answers'
<1>1. /\ UNCHANGED <<clientVars, conn, connections_, workVars, batch>>
      /\ at' \in {"dispatch", "erase", "reap", "wait", "close"}
      /\ at = "write" => conn[Reading].write_buffer = None \/ conn[Reading].bytes_sent < Chunks
  BY DEF AcceptNone, RecvEnd, WriteNothing, SendAgain, SendError, Scan, Reap, ReapEnd,
         EpollRemove, Goto, GotoClose, Unsent, BatchHandled
<1>2. at = "write" => conn[Reading].write_buffer = None \/ conn[Reading].bytes_sent # Chunks
  BY <1>1, ServerAssumption, ReadingType DEF Connections
<1>3. ReadInv'
  BY <1>1, ReadKept DEF clientVars
<1> QED
  BY <1>1, <1>2, <1>3, LoopFrame DEF clientVars

\* epoll_wait reports input only of a connection that has some, or that is at
\* its end.
LEMMA WaitAnswers ==
    ASSUME Inv, Answers, Wait PROVE Answers'
<1> USE TypeParts DEF Inv, Wait
<1>1. ASSUME NEW e \in batch', e[1] # Listener, e[2] = "in"
      PROVE  ~Dispatched(connections_[e[1]]) \/ peer[connections_[e[1]]] # "alive"
  <2> DEFINE c == fdOwner[e[1]]
  <2>1. e[1] \in Fds /\ epoll[e[1]] # "none" /\ (inbox[c] # <<>> \/ peer[c] # "alive")
    BY <1>1 DEF ReadyEvents, EventsOf
  <2>2. c \in Clients /\ connections_[e[1]] = c
    BY <2>1 DEF KernelType, TableConsistent
  <2> QED
    BY <2>1, <2>2 DEF Answers, Stage, DispatchInv
<1>2. \A c \in Clients : Dispatched(c)' <=> Dispatched(c)
  BY WorkKept
<1>3. \A e \in batch' : e[1] # Listener => e[1] \in Fds /\ connections_[e[1]] \in Clients
  <2>1. \A e \in batch' : e[1] # Listener => e[1] \in Fds /\ epoll[e[1]] # "none"
    BY DEF ReadyEvents, EventsOf
  <2> QED
    BY <2>1 DEF KernelType, TableConsistent, ConnType, Mapped
<1>4. ReadInv'
  BY <1>1, <1>2, <1>3 DEF ReadInv, clientVars
<1> QED
  BY <1>4, LoopFrame DEF clientVars

LEMMA DispatchAnswers ==
    ASSUME Inv, Answers, Dispatch PROVE Answers'
<1> USE TypeParts DEF Inv, Answers
<1>1. PICK e \in batch :
        /\ batch' = batch \ {e}
        /\ at' \in {"accept", "erase", "dispatch", "recv", "write"}
        /\ at' = "recv" => cur' = e[1] /\ e[1] # Listener /\ e[2] = "in"
  BY DEF Dispatch, Goto, GotoClose, LoopType
<1>2. /\ UNCHANGED <<clientVars, kernelVars, connections_, conn, workVars>> /\ at = "dispatch"
  BY DEF Dispatch
<1>3. \A c \in Clients : Dispatched(c)' <=> Dispatched(c)
  BY <1>2, WorkKept
<1>4. \A d \in batch : d[1] # Listener => connections_[d[1]] \in Clients
  BY DEF BatchInv, Mapped, ConnType
<1>5. ReadInv'
  BY <1>1, <1>2, <1>3, <1>4 DEF ReadInv, Reading, clientVars
<1> QED
  BY <1>1, <1>2, <1>5, LoopFrame DEF clientVars

\* handle_accept up to the insertion, and both ways to close a socket.
LEMMA SocketAnswers ==
    ASSUME Inv, Answers, \/ \E c \in Clients : Accept4(c)
                         \/ AcceptReject \/ AcceptRegister \/ Erase \/ Close
    PROVE  Answers'
<1> USE TypeParts DEF Inv
<1>1. CASE \E c \in Clients : Accept4(c)
  <2>1. PICK c \in Clients : Accept4(c)
    BY <1>1
  <2> DEFINE f == Min(FreeFds)
  <2>2. /\ UNCHANGED <<peer, outgoing, nreq, inbox, received, connections_, conn, batch, workVars>>
        /\ at = "accept" /\ at' = "limit" /\ cur' = f
        /\ sock' = [sock EXCEPT ![c] = "open"] /\ fdOwner' = [fdOwner EXCEPT ![f] = c]
        /\ sock[c] = "backlog"
    BY <2>1 DEF Accept4, Goto, Backlog
  <2>3. f \in Fds
    BY <2>1, FreeMinimum DEF Accept4, FreeFds
  <2>4. fdOwner'[cur'] = c /\ conn[c].fd = None
    BY <2>2, <2>3 DEF Answers, FreshInv, KernelType
  <2>5. ReadInv'
    BY <2>2, ReadKept
  <2> QED
    BY <2>2, <2>4, <2>5, LoopFrame DEF ClientType
<1>2. CASE AcceptReject \/ Close
  <2>1. /\ UNCHANGED <<peer, outgoing, nreq, inbox, received, connections_, conn, batch, workVars>>
        /\ at # "write" /\ at' \in {"accept", "dispatch", "reap"}
        /\ sock' = [sock EXCEPT ![fdOwner[cur]] = "closed"]
    BY <1>2 DEF AcceptReject, Close, CloseFd, Goto, LoopType
  <2>2. ReadInv'
    BY <2>1, ReadKept
  <2> QED
    BY <2>1, <2>2, LoopFrame DEF ClientType
<1>3. CASE AcceptRegister
  <2>1. /\ UNCHANGED <<clientVars, fdOwner, connections_, conn, batch, workVars, cur>>
        /\ at = "limit" /\ at' = "insert"
    BY <1>3 DEF AcceptRegister, Goto
  <2>2. ReadInv'
    BY <2>1, ReadKept DEF clientVars
  <2> QED
    BY <2>1, <2>2, LoopFrame DEF clientVars, Answers, FreshInv
<1>4. CASE Erase
  <2>1. /\ UNCHANGED <<clientVars, conn, batch, workVars>>
        /\ at = "erase" /\ at' \in {"dispatch", "reap", "remove"}
        /\ connections_' = [connections_ EXCEPT ![cur] = None]
    BY <1>4 DEF Erase, WithoutEntry, LoopType
  <2>2. \A e \in batch : e[1] # cur
    BY <2>1 DEF BatchInv
  <2>3. ReadInv'
    BY <2>1, <2>2, ReadKept DEF clientVars, ConnType
  <2> QED
    BY <2>1, <2>3, LoopFrame DEF clientVars
<1> QED
  BY <1>1, <1>2, <1>3, <1>4

\* The new Connection object is as the untouched one was, but for its
\* descriptor.
LEMMA InsertAnswers ==
    ASSUME Inv, Answers, AcceptInsert PROVE Answers'
<1> USE TypeParts DEF Inv, Answers
<1>1. PICK c \in Clients : c = fdOwner[cur]
  BY DEF AcceptInsert, CurInv, KernelType
<1>2. /\ connections_' = [connections_ EXCEPT ![cur] = c]
      /\ conn' = [conn EXCEPT ![c] = NewConnection(cur)]
      /\ at = "insert" /\ at' = "accept" /\ cur \in Fds /\ connections_[cur] = None
      /\ UNCHANGED <<clientVars, kernelVars, batch, workVars>>
  BY <1>1 DEF AcceptInsert, Goto, CurInv
<1>3. /\ conn[c].fd = None /\ conn[c].write_buffer = None /\ conn[c].read_buffer = <<>>
      /\ conn[c].bytes_sent = 0 /\ sock[c] = "open"
  BY <1>1, <1>2, ServerAssumption DEF FreshInv, Stage, AnswerInv, OwnerInv
<1>4. conn'[c] = NewConnection(cur) /\ \A d \in Clients : d # c => conn'[d] = conn[d]
  BY <1>2 DEF ConnType
<1>5. \A d \in Clients : Same(d)
  BY <1>2, <1>3, <1>4, WorkKept DEF Same, SameData, NewConnection, clientVars
<1>6. \A d \in Clients : Stage(d)'
  BY <1>5, StageKept
<1>7. OnceInv' /\ ComputedInv'
  BY <1>2, WorkKept DEF ComputedInv, workVars, clientVars
<1>8. \A e \in batch : e[1] # Listener => connections_'[e[1]] = connections_[e[1]]
  BY <1>2 DEF BatchInv, Mapped, ConnType
<1>9. ReadInv'
  BY <1>2, <1>8, ReadKept DEF clientVars
<1>10. SentInv'
  BY <1>2, <1>5 DEF SentInv, Same, SameData
<1>11. FreshInv'
  BY <1>2, <1>3, <1>4 DEF FreshInv, NewConnection, clientVars
<1> QED
  BY <1>6, <1>7, <1>9, <1>10, <1>11

\* handle_read takes a piece: it is dropped with the connection, or becomes
\* the last of the read buffer.
LEMMA RecvAnswers ==
    ASSUME Inv, Answers, RecvData PROVE Answers'
<1> USE TypeParts DEF Inv, Answers
<1>1. PICK c \in Clients : c = Reading
  BY ReadingType DEF RecvData
<1>2. /\ inbox[c] # <<>> /\ inbox \in [Clients -> Seq(Pieces)] /\ at = "recv"
      /\ conn[c] \in Connections /\ conn[c].read_buffer \in Seq(Pieces)
  BY <1>1, ReadingType DEF RecvData, ClientType, Connections
<1> DEFINE p == Head(inbox[c])
           rest == Tail(inbox[c])
<1>3. /\ p \in Pieces /\ p = inbox[c][1]
      /\ rest \in Seq(Pieces) /\ Len(inbox[c]) = Len(rest) + 1
      /\ \A i \in 1..Len(rest) : rest[i] = inbox[c][i + 1]
  <2>1. inbox[c] \in Seq(Pieces) /\ inbox[c] # <<>>
    BY <1>2
  <2> QED
    BY <2>1, FirstAndRest
<1> DEFINE k == [conn[c] EXCEPT !.read_buffer = Append(@, p), !.overdue = FALSE]
<1>4. /\ inbox' = [inbox EXCEPT ![c] = rest]
      /\ UNCHANGED <<sock, peer, outgoing, nreq, received, kernelVars, connections_,
                     batch, stale_fds, workVars>>
  BY <1>1 DEF RecvData
<1>5. /\ \A d \in Clients : d # c => conn'[d] = conn[d] /\ inbox'[d] = inbox[d]
      /\ inbox'[c] = rest
      /\ conn'[c].write_buffer = conn[c].write_buffer /\ conn'[c].fd = conn[c].fd
      /\ conn'[c].bytes_sent = conn[c].bytes_sent
      /\ \/ UNCHANGED conn /\ at' = "erase"
         \/ /\ conn'[c].read_buffer = Append(conn[c].read_buffer, p)
            /\ UNCHANGED <<at, cur, back>>
  <2>1. \A d \in Clients : d # c => inbox'[d] = inbox[d]
    BY <1>2, <1>4
  <2>2. inbox'[c] = rest
    BY <1>2, <1>4
  <2>3. CASE TooLarge(c)
    <3>1. UNCHANGED conn /\ at' = "erase"
      BY <1>1, <2>3 DEF RecvData, GotoClose
    <3> QED
      BY <2>1, <2>2, <3>1
  <2>4. CASE ~TooLarge(c)
    <3>1. conn' = [conn EXCEPT ![c] = k] /\ UNCHANGED <<at, cur, back>>
      BY <1>1, <2>4 DEF RecvData
    <3>2. /\ k.read_buffer = Append(conn[c].read_buffer, p)
          /\ k.write_buffer = conn[c].write_buffer /\ k.fd = conn[c].fd
          /\ k.bytes_sent = conn[c].bytes_sent
      BY <1>2 DEF Connections
    <3> HIDE DEF k
    <3>3. conn'[c] = k /\ \A d \in Clients : d # c => conn'[d] = conn[d]
      BY <3>1 DEF ConnType
    <3> QED
      BY <2>1, <2>2, <3>1, <3>2, <3>3
  <2> QED
    BY <2>3, <2>4
<1> HIDE DEF p, rest, k
<1>6. \A d \in Clients : Dispatched(d)' <=> Dispatched(d)
  BY <1>4, WorkKept
<1>7. /\ ~Dispatched(c) /\ conn[c].write_buffer = None /\ UnderWay(c)
      /\ \A i \in 1..Len(conn[c].read_buffer) :
            conn[c].read_buffer[i].kind = "start" /\ conn[c].read_buffer[i].req = nreq[c]
  BY <1>2 DEF Stage, DispatchInv, AnswerInv, PiecesInv, UnderWay
<1>8. p.req = nreq[c] /\ (p.kind # "start" => rest = <<>> /\ outgoing[c] = <<>>)
  <2>1. 1 \in 1..Len(inbox[c]) /\ Len(rest) \in Nat
    BY <1>3
  <2>2. p.req = nreq[c] /\ (p.kind # "start" => 1 = Len(inbox[c]) /\ outgoing[c] = <<>>)
    BY <1>3, <2>1 DEF Stage, PiecesInv
  <2> QED
    BY <1>3, <2>2
<1>9. \A i \in 1..Len(rest) :
        /\ rest[i].req = nreq[c]
        /\ rest[i].kind # "start" => i = Len(rest) /\ outgoing[c] = <<>>
  <2> SUFFICES ASSUME NEW i \in 1..Len(rest)
               PROVE  /\ rest[i].req = nreq[c]
                      /\ rest[i].kind # "start" => i = Len(rest) /\ outgoing[c] = <<>>
    OBVIOUS
  <2>1. i + 1 \in 1..Len(inbox[c]) /\ Len(rest) \in Nat /\ i \in Nat
    BY <1>3
  <2>2. /\ inbox[c][i + 1].req = nreq[c]
        /\ inbox[c][i + 1].kind # "start" => i + 1 = Len(inbox[c]) /\ outgoing[c] = <<>>
    BY <2>1 DEF Stage, PiecesInv
  <2> QED
    BY <1>3, <2>1, <2>2
<1>10. \A i \in 1..Len(conn'[c].read_buffer) :
        /\ conn'[c].read_buffer[i].req = nreq[c]
        /\ conn'[c].read_buffer[i].kind # "start" => rest = <<>> /\ outgoing[c] = <<>>
  <2>1. CASE UNCHANGED conn
    BY <1>7, <2>1
  <2>2. CASE conn'[c].read_buffer = Append(conn[c].read_buffer, p)
    <3> DEFINE buf == conn[c].read_buffer
    <3>1. PICK m \in Nat : m = Len(buf)
      BY <1>2
    <3>2. Len(Append(buf, p)) = m + 1 /\ Append(buf, p)[m + 1] = p
      BY <1>2, <1>3, <3>1
    <3>3. \A i \in 1..m : Append(buf, p)[i] = buf[i]
      BY <1>2, <1>3, <3>1
    <3>4. \A i \in 1..(m + 1) : i \in 1..m \/ i = m + 1
      OBVIOUS
    <3> QED
      BY <1>7, <1>8, <2>2, <3>1, <3>2, <3>3, <3>4
  <2> QED
    BY <1>5, <2>1, <2>2
<1>11. ASSUME NEW d \in Clients PROVE Stage(d)'
  <2>1. CASE d # c
    BY <1>4, <1>5, <1>6, <2>1, StageKept DEF Same, SameData
  <2>2. CASE d = c
    <3> USE DEF Stage
    <3>1. PiecesInv(c)'
      BY <1>4, <1>5, <1>9, <1>10 DEF PiecesInv
    <3>2. DispatchInv(c)'
      BY <1>6, <1>7 DEF DispatchInv
    <3>3. AnswerInv(c)'
      BY <1>5, <1>7 DEF AnswerInv
    <3>4. CountInv(c)'
      BY <1>4, <1>5, <1>7 DEF CountInv
    <3>5. InOrder(c)'
      BY <1>4 DEF InOrder
    <3> QED
      BY <2>2, <3>1, <3>2, <3>3, <3>4, <3>5
  <2> QED
    BY <2>1, <2>2
<1>12. OnceInv' /\ ComputedInv'
  BY <1>4, WorkKept DEF ComputedInv, workVars
<1>13. ReadInv'
  <2>1. CASE at' = "erase"
    BY <1>4, <2>1, ReadKept
  <2>2. CASE UNCHANGED <<at, cur, back>>
    <3>1. \A e \in batch : e[1] # Listener => connections_[e[1]] \in Clients
      BY DEF BatchInv, Mapped, ConnType
    <3>2. Reading \in Clients /\ Reading' = Reading
      BY <1>1, <1>4, <2>2 DEF Reading
    <3> QED
      BY <1>4, <1>6, <2>2, <3>1, <3>2 DEF ReadInv
  <2> QED
    BY <1>5, <2>1, <2>2
<1>14. SentInv'
  BY <1>2, <1>5, <1>7 DEF SentInv
<1>15. FreshInv'
  <2>1. conn[c].fd # None
    BY <1>1, <1>2, ReadingType, ServerAssumption
  <2>2. at' \notin {"limit", "insert"}
    BY <1>2, <1>5
  <2> QED
    BY <1>4, <1>5, <2>1, <2>2 DEF FreshInv
<1> QED
  BY <1>11, <1>12, <1>13, <1>14, <1>15

\* handle_read dispatches a request that is there completely and that no
\* worker has been given yet.
LEMMA RecvAgainAnswers ==
    ASSUME Inv, Answers, RecvAgain PROVE Answers'
<1> USE TypeParts DEF Inv, Answers
<1>1. PICK c \in Clients : c = Reading
  BY ReadingType DEF RecvAgain
<1>2. /\ inbox[c] = <<>> /\ peer[c] = "alive" /\ at = "recv" /\ at' = "dispatch"
      /\ UNCHANGED <<clientVars, kernelVars, connections_, conn, batch, wat, job, resp>>
      /\ pool' = IF ReadyToProcess(conn[c].read_buffer) THEN Append(pool, c) ELSE pool
  BY <1>1 DEF RecvAgain, Goto
<1>3. CASE ~ReadyToProcess(conn[c].read_buffer)
  <2>1. UNCHANGED workVars
    BY <1>2, <1>3 DEF workVars
  <2>2. ReadInv'
    BY <1>2, <2>1, ReadKept DEF clientVars
  <2> QED
    BY <1>2, <2>1, <2>2, LoopFrame DEF clientVars
<1>4. CASE ReadyToProcess(conn[c].read_buffer)
  <2>1. /\ conn[c].read_buffer # <<>> /\ outgoing[c] = <<>> /\ conn[c].write_buffer = None
    <3>1. PICK i \in 1..Len(conn[c].read_buffer) :
              conn[c].read_buffer[i].kind \notin {"start", "body"}
      BY <1>4 DEF ReadyToProcess, HeadersComplete
    <3>2. conn[c].read_buffer # <<>>
      BY <3>1
    <3> QED
      BY <3>1, <3>2 DEF Stage, PiecesInv, AnswerInv
  <2>2. ~Dispatched(c)
    BY <1>1, <1>2 DEF ReadInv
  <2>3. /\ pool' = Append(pool, c) /\ pool \in Seq(Clients) /\ Len(pool) \in Nat
        /\ Len(pool') = Len(pool) + 1 /\ pool'[Len(pool) + 1] = c
        /\ \A i \in 1..Len(pool) : pool'[i] = pool[i]
    BY <1>2, <1>4 DEF WorkType
  <2>4. \A v \in Workers : AtWork(v)' <=> AtWork(v)
    BY <1>2 DEF AtWork
  <2>5. OnceInv'
    <3>1. \A i \in 1..Len(pool') : i \in 1..Len(pool) \/ i = Len(pool) + 1
      BY <2>3
    <3>2. \A i \in 1..Len(pool) : pool[i] # c
      BY <2>2 DEF Dispatched
    <3>3. \A v \in Workers : AtWork(v) => job[v] # c
      BY <2>2 DEF Dispatched
    <3>4. \A i, j \in 1..Len(pool') : pool'[i] = pool'[j] => i = j
      BY <2>3, <3>1, <3>2 DEF OnceInv
    <3>5. \A i \in 1..Len(pool'), v \in Workers : AtWork(v)' => job'[v] # pool'[i]
      BY <1>2, <2>3, <2>4, <3>1, <3>3 DEF OnceInv
    <3> QED
      BY <1>2, <2>4, <3>4, <3>5 DEF OnceInv
  <2>6. Dispatched(c)' /\ \A d \in Clients : d # c => (Dispatched(d)' <=> Dispatched(d))
    <3>1. Dispatched(c)'
      BY <2>3 DEF Dispatched
    <3>2. ASSUME NEW d \in Clients, d # c PROVE Dispatched(d)' <=> Dispatched(d)
      <4>1. (\E i \in 1..Len(pool') : pool'[i] = d) <=> (\E i \in 1..Len(pool) : pool[i] = d)
        BY <2>3, <3>2
      <4> QED
        BY <1>2, <2>4, <4>1 DEF Dispatched
    <3> QED
      BY <3>1, <3>2
  <2>7. ASSUME NEW d \in Clients PROVE Stage(d)'
    <3>1. CASE d # c
      BY <1>2, <2>6, <3>1, StageKept DEF Same, SameData, clientVars
    <3>2. CASE d = c
      <4> USE DEF Stage
      <4>1. PiecesInv(c)' /\ AnswerInv(c)' /\ InOrder(c)'
        BY <1>2 DEF PiecesInv, AnswerInv, InOrder, clientVars
      <4>2. DispatchInv(c)'
        BY <1>2, <2>1 DEF DispatchInv, clientVars
      <4>3. CountInv(c)'
        BY <1>2, <2>1 DEF CountInv, UnderWay, clientVars
      <4> QED
        BY <3>2, <4>1, <4>2, <4>3
    <3> QED
      BY <3>1, <3>2
  <2>8. ReadInv'
    <3>1. \A e \in batch : e[1] # Listener =>
              connections_[e[1]] \in Clients /\ connections_[e[1]] # c
      <4>1. conn[c].fd = cur /\ \A e \in batch : e[1] # cur
        BY <1>1, <1>2, ReadingType
      <4>2. \A e \in batch : e[1] # Listener =>
                connections_[e[1]] \in Clients /\ conn[connections_[e[1]]].fd = e[1]
        BY DEF BatchInv, Mapped, ConnType, TableConsistent
      <4> QED
        BY <4>1, <4>2
    <3> QED
      BY <1>2, <2>6, <3>1 DEF ReadInv, clientVars
  <2>9. ComputedInv' /\ SentInv' /\ FreshInv'
    BY <1>2 DEF ComputedInv, SentInv, FreshInv, clientVars
  <2> QED
    BY <2>5, <2>7, <2>8, <2>9
<1> QED
  BY <1>3, <1>4

\* n * q + r, with r below n, is q times n and leaves r.
LEMMA QuotientAndRemainder ==
    ASSUME NEW n \in Nat \ {0}, NEW q \in Int, NEW r \in 0..(n - 1)
    PROVE  (n * q + r) \div n = q /\ (n * q + r) % n = r
<1> DEFINE x == n * q + r
<1>1. x \in Int
  OBVIOUS
<1>2. x \div n \in Int /\ x % n \in 0..(n - 1) /\ x = n * (x \div n) + (x % n)
  BY <1>1
<1>3. PICK e \in Int, s \in 0..(n - 1) : e = x \div n /\ s = x % n /\ x = n * e + s
  BY <1>2
<1>4. n * (q - e) = s - r
  BY <1>3
<1>5. PICK z \in Int : z = q - e
  BY <1>3
<1>6. -n < n * z /\ n * z < n
  BY <1>3, <1>4, <1>5
<1>7. z = 0
  BY <1>6
<1>8. q = e /\ s = r
  BY <1>3, <1>4, <1>5, <1>7
<1> QED
  BY <1>3, <1>8

\* handle_write sends the next chunk of the answer in the write buffer.
LEMMA SendChunkAnswers ==
    ASSUME Inv, Answers, SendChunk PROVE Answers'
<1> USE TypeParts DEF Inv, Answers
<1>1. PICK c \in Clients : c = Reading
  BY ReadingType DEF SendChunk
<1> DEFINE m == [resp |-> conn[c].write_buffer, k |-> conn[c].bytes_sent + 1]
           k == [conn[c] EXCEPT !.bytes_sent = NextOffset(conn[c])]
<1>2. /\ received' = [received EXCEPT ![c] = Append(@, m)]
      /\ conn' = [conn EXCEPT ![c] = k]
      /\ UNCHANGED <<sock, peer, outgoing, nreq, inbox, kernelVars, connections_,
                     loopVars, workVars>>
      /\ at = "write" /\ conn[c].write_buffer # None /\ conn[c].bytes_sent < Chunks
  BY <1>1 DEF SendChunk, Unsent
<1>3. PICK n \in Nat \ {0}, b \in 0..(Chunks - 1) : n = nreq[c] /\ b = conn[c].bytes_sent
  <2>1. nreq[c] \in Nat /\ conn[c].bytes_sent \in 0..Chunks
    BY ServerAssumption DEF ClientType, ConnType, Connections
  <2>2. UnderWay(c) /\ nreq[c] > 0
    BY <1>2 DEF UnderWay, Stage, CountInv
  <2> QED
    BY <1>2, <2>1, <2>2, ServerAssumption
<1>4. PICK r \in Seq([resp : Responses, k : 1..Chunks]) : r = received[c]
  BY DEF ClientType
<1>5. PICK q \in Nat : q = Chunks * (n - 1)
  <2>1. PICK z \in Nat : z = n - 1
    BY <1>3
  <2>2. \A x, y \in Nat : x * y \in Nat
    OBVIOUS
  <2>3. Chunks * z \in Nat
    BY <2>2, ServerAssumption
  <2> QED
    BY <2>1, <2>3
<1>6. Len(r) = q + b
  BY <1>2, <1>3, <1>4, <1>5 DEF UnderWay, Stage, CountInv
<1>7. m.resp.conn = c /\ m.resp.req = n /\ m.k = b + 1
  BY <1>2, <1>3 DEF Stage, AnswerInv
<1>8. /\ k.read_buffer = conn[c].read_buffer /\ k.write_buffer = conn[c].write_buffer
      /\ k.bytes_sent = b + 1 /\ k.fd = conn[c].fd
  BY <1>3 DEF NextOffset, ConnType, Connections
<1> HIDE DEF m, k
<1>9. /\ conn'[c] = k /\ received'[c] = Append(r, m)
      /\ \A d \in Clients : d # c => conn'[d] = conn[d] /\ received'[d] = received[d]
  BY <1>2, <1>4 DEF ConnType, ClientType
<1>10. Len(received'[c]) = q + (b + 1)
  BY <1>6, <1>9
<1>11. InOrder(c)'
  <2>1. ((q + b) \div Chunks) + 1 = n /\ ((q + b) % Chunks) + 1 = b + 1
    <3>1. PICK z \in Int : z = n - 1
      BY <1>3
    <3>2. q + b = Chunks * z + b
      BY <1>5, <3>1
    <3>3. (Chunks * z + b) \div Chunks = z /\ (Chunks * z + b) % Chunks = b
      BY QuotientAndRemainder, ServerAssumption
    <3> QED
      BY <1>3, <3>1, <3>2, <3>3
  <2>2. ASSUME NEW i \in 1..Len(received'[c])
        PROVE  /\ received'[c][i].resp.conn = c
               /\ received'[c][i].resp.req = ((i - 1) \div Chunks) + 1
               /\ received'[c][i].k = ((i - 1) % Chunks) + 1
    <3>1. CASE i = q + b + 1
      <4>1. received'[c][i] = m /\ i - 1 = q + b
        BY <1>6, <1>9, <3>1
      <4> QED
        BY <1>7, <2>1, <4>1
    <3>2. CASE i # q + b + 1
      <4>0. i \in 1..Len(r)
        <5>1. i \in 1..(q + (b + 1)) /\ b \in Int /\ q \in Int
          BY <1>3, <1>5, <1>10
        <5>2. i \in 1..(q + b)
          BY <3>2, <5>1
        <5> QED
          BY <1>6, <5>2
      <4>1. i \in 1..Len(r) /\ received'[c][i] = r[i]
        BY <1>9, <4>0
      <4> QED
        BY <1>4, <4>1 DEF Stage, InOrder
    <3> QED
      BY <3>1, <3>2
  <2> QED
    BY <2>2 DEF InOrder
<1>12. \A d \in Clients : Dispatched(d)' <=> Dispatched(d)
  BY <1>2, WorkKept
<1>13. ASSUME NEW d \in Clients PROVE Stage(d)'
  <2>1. CASE d # c
    BY <1>2, <1>9, <1>12, <2>1, StageKept DEF Same, SameData
  <2>2. CASE d = c
    <3> USE DEF Stage
    <3>1. PiecesInv(c)'
      BY <1>2, <1>8, <1>9 DEF PiecesInv
    <3>2. DispatchInv(c)' /\ AnswerInv(c)'
      BY <1>2, <1>8, <1>9, <1>12 DEF DispatchInv, AnswerInv
    <3>3. CountInv(c)'
      BY <1>2, <1>3, <1>5, <1>8, <1>9, <1>10 DEF CountInv
    <3> QED
      BY <1>11, <2>2, <3>1, <3>2, <3>3
  <2> QED
    BY <2>1, <2>2
<1>14. OnceInv' /\ ComputedInv'
  BY <1>2, WorkKept DEF ComputedInv, workVars
<1>15. ReadInv'
  BY <1>2, ReadKept DEF loopVars
<1>16. SentInv'
  BY <1>1, <1>2, <1>9 DEF SentInv, Reading, loopVars
<1>17. FreshInv'
  BY <1>2, <1>8, <1>9 DEF FreshInv, loopVars, kernelVars
<1> QED
  BY <1>13, <1>14, <1>15, <1>16, <1>17

\* handle_write is done with the answer: nothing of the request is left.
LEMMA WriteDoneAnswers ==
    ASSUME Inv, Answers, WriteDone PROVE Answers'
<1> USE TypeParts DEF Inv, Answers
<1>1. PICK c \in Clients : c = Reading
  BY ReadingType DEF WriteDone
<1> DEFINE k == [conn[c] EXCEPT !.write_buffer = None, !.bytes_sent = 0, !.is_writing = FALSE]
<1>2. /\ conn' = [conn EXCEPT ![c] = k]
      /\ UNCHANGED <<clientVars, fdOwner, connections_, batch, workVars>>
      /\ at = "write" /\ at' \in {"dispatch", "erase"} /\ conn[c].write_buffer # None
  BY <1>1 DEF WriteDone, Goto, GotoClose
<1>3. /\ k.read_buffer = conn[c].read_buffer /\ k.write_buffer = None
      /\ k.bytes_sent = 0 /\ k.fd = conn[c].fd
  BY DEF ConnType, Connections
<1> HIDE DEF k
<1>4. conn'[c] = k /\ \A d \in Clients : d # c => conn'[d] = conn[d]
  BY <1>2 DEF ConnType
<1>5. \A d \in Clients : Dispatched(d)' <=> Dispatched(d)
  BY <1>2, WorkKept
<1>6. /\ conn[c].read_buffer = <<>> /\ inbox[c] = <<>> /\ outgoing[c] = <<>> /\ ~Dispatched(c)
  BY <1>2 DEF Stage, AnswerInv, DispatchInv
<1>7. ASSUME NEW d \in Clients PROVE Stage(d)'
  <2>1. CASE d # c
    BY <1>2, <1>4, <1>5, <2>1, StageKept DEF Same, SameData, clientVars
  <2>2. CASE d = c
    <3> USE DEF Stage
    <3>0. InOrder(c)'
      BY <1>2 DEF InOrder, clientVars
    <3>1. PiecesInv(c)'
      BY <1>2, <1>3, <1>4 DEF PiecesInv, clientVars
    <3>2. DispatchInv(c)' /\ AnswerInv(c)' /\ CountInv(c)'
      BY <1>2, <1>3, <1>4, <1>5, <1>6 DEF DispatchInv, AnswerInv, CountInv, UnderWay, clientVars
    <3> QED
      BY <2>2, <3>0, <3>1, <3>2
  <2> QED
    BY <2>1, <2>2
<1>8. OnceInv' /\ ComputedInv'
  BY <1>2, WorkKept DEF ComputedInv, workVars, clientVars
<1>9. ReadInv'
  BY <1>2, ReadKept DEF clientVars
<1>10. SentInv'
  BY <1>1, <1>2, <1>3, <1>4 DEF SentInv
<1>11. FreshInv'
  BY <1>2, <1>3, <1>4 DEF FreshInv, clientVars
<1> QED
  BY <1>7, <1>8, <1>9, <1>10, <1>11

-----------------------------------------------------------------------------
(* The theorem                                                              *)

LEMMA NextAnswers ==
    ASSUME OneAtATime, Inv, Answers, [Next]_vars PROVE Answers'
<1>1. CASE UNCHANGED vars
  <2>1. ReadInv'
    BY <1>1, WorkKept DEF vars, clientVars, loopVars, Answers, ReadInv, Dispatched, AtWork,
       workVars, Reading
  <2>2. \A c \in Clients : Same(c)
    BY <1>1, WorkKept DEF vars, clientVars, Same, SameData
  <2> QED
    BY <1>1, <2>1, <2>2, StageKept, WorkKept DEF vars, clientVars, kernelVars, loopVars,
       workVars, Answers, ComputedInv, SentInv, FreshInv, Reading
<1>2. CASE LoopStep
  BY <1>2, WaitAnswers, DispatchAnswers, JumpAnswers, SocketAnswers, InsertAnswers, RecvAnswers,
     RecvAgainAnswers, SendChunkAnswers, WriteDoneAnswers DEF LoopStep
<1> QED
  BY <1>1, <1>2, ClientAnswers, WorkerAnswers DEF Next

\* Where clients do not pipeline and no body trails its header, every client
\* is sent the chunks of the answers to its own requests, each once and in the
\* order of its requests, for any number of clients, workers, descriptors,
\* requests and chunks, and whatever hangs up, is reset, reaped or refused: a
\* worker may publish on a Connection whose descriptor was closed, or given to
\* another client, and its answer reaches nobody else.
THEOREM AnsweredInOrder ==
    ASSUME OneAtATime PROVE Spec => []ResponsesInOrder
<1>1. Spec => []Answers
  BY InitAnswers, NextAnswers, Invariance, PTL DEF Spec
<1>2. Answers => ResponsesInOrder
  BY DEF Answers, Stage, InOrder, ResponsesInOrder
<1> QED
  BY <1>1, <1>2, PTL
=============================================================================
