--------------------------- MODULE ShutdownProofs ---------------------------
(***************************************************************************)
(* Proofs about Shutdown, for any number of clients and of signals.        *)
(***************************************************************************)
EXTENDS Shutdown, FiniteSetTheorems, SequenceTheorems, TLAPS

-----------------------------------------------------------------------------
(* The inductive invariant                                                  *)

\* The frames of signal handlers, and those that have stored running_.
StopPoints == {"stop", "store", "shutdown", "join", "close", "health"}
Working == {"shutdown", "join", "close", "health"}

\* The event loop's frame.
bottom == stack[Len(stack)]

\* One frame of the loop lies under the handlers', which the signals account
\* for; a handler that interrupts one at work has not tested running_ yet.
StackInv ==
    /\ Len(stack) <= 1 + Cardinality(sent)
    /\ \A i \in 1..Len(stack) : stack[i].pc \in StopPoints <=> i # Len(stack)
    /\ \A i \in 1..Len(stack), j \in 1..Len(stack) :
          stack[i].pc \in Working /\ j < i => stack[j].pc = "stop"

\* What the frames of stop have done, and where the loop was when they came.
FrameInv ==
    /\ \A i \in 1..Len(stack) :
          /\ stack[i].pc \in Working => ~running_
          /\ stack[i].pc \in Working \cup {"store"} /\ ~running_ => interrupted = bottom
          /\ stack[i].pc = "join" => ~open
          /\ stack[i].pc \in {"close", "health"} => stopped
          /\ bottom.pc = "boot" => i = Len(stack) \/ stack[i].pc = "stop"
    /\ bottom.pc = "boot" => ~running_ /\ interrupted = None

\* Once running_ is false a stop has begun, and it is over when no frame of it
\* is left.
BegunInv ==
    /\ running_ => listening /\ interrupted = None
    /\ ~running_ /\ bottom.pc # "boot" =>
          /\ interrupted # None
          /\ \/ \E i \in 1..Len(stack) : stack[i].pc \in Working
             \/ stopped /\ ~listening

\* What is in the pool once it is closed was there at the close, except for a
\* task that was about to be pushed.
PoolInv ==
    /\ stopped => ~open /\ running = {} /\ due \subseteq finished
    /\ ~open =>
          /\ ~running_ /\ interrupted # None /\ interrupted.pc # "push"
          /\ stopped \/ \E i \in 1..Len(stack) : stack[i].pc = "join"
          /\ \A c \in running \cup {queue[i] : i \in DOMAIN queue} :
                c \in due \/ interrupted = Frame("locking", c)
          /\ bottom.pc \in {"locking", "push"} => interrupted = Frame("locking", bottom.c)
          /\ bottom.pc = "enqueue" => interrupted.pc = "enqueue"
    /\ interrupted # None /\ interrupted.pc = "enqueue" => bottom.pc = "enqueue"

\* Where the loop has a client at hand.
Accepting == {"limit", "register", "insert"}
ClientPoints == Accepting \cup {"find_read", "find_write", "recv", "enqueue", "locking", "push",
                                "send", "erase", "closing"}

\* Every open socket is in the table, on its way into it, or out of it; events
\* are about accepted sockets, and not about the one that is being accepted.
SockInv ==
    /\ bottom.pc \in ClientPoints => bottom.c \in Clients
    /\ bottom.pc \in Accepting => sock[bottom.c] \notin {"none", "pending"}
    /\ \A c \in Clients :
          /\ sock[c] = "cut" => stopped
          /\ sock[c] = "open" => \/ c \in connections_
                                 \/ bottom.c = c /\ bottom.pc \in Accepting \cup {"closing"}
          /\ c \in connections_ => sock[c] \notin {"none", "pending"}
    /\ \A e \in batch :
          /\ e.pc \in {"accept", "find_read", "find_write"}
          /\ e.pc # "accept" => e.c \in Clients
          /\ e.c \in Clients => /\ sock[e.c] \notin {"none", "pending"}
                                /\ ~(bottom.pc \in Accepting /\ bottom.c = e.c)

\* stop has closed the connections of the table.
CutOff ==
    interrupted # None /\ (~listening \/ \E i \in 1..Len(stack) : stack[i].pc = "health")

\* After that a socket is open only if it is being closed, or was between its
\* accept4 and its insertion; nothing will happen to such a one any more.
CutInv ==
    CutOff =>
       /\ interrupted.pc \notin connections_mutex_
       /\ \A c \in Clients : sock[c] = "open" =>
             \/ bottom = Frame("closing", c)
             \/ /\ interrupted = Frame("register", c)
                /\ bottom.c = c => bottom.pc \in {"register", "insert", "erase"}
                /\ \A e \in batch : e.c # c

\* The process ends when the loop does.
ExitInv ==
    exit # None =>
       /\ Len(stack) = 1
       /\ exit = 1 => bottom.pc = "enqueue" /\ ~open
       /\ exit = 0 => bottom.pc \in {"boot", "test"} /\ ~running_

\* epoll_wait is only called while running_ is true, and does not go on when it
\* has been interrupted.
WaitInv == bottom.pc = "wait" /\ Len(stack) = 1 => running_

Inv ==
    /\ TypeOK
    /\ StackInv
    /\ FrameInv
    /\ WaitInv
    /\ BegunInv
    /\ PoolInv
    /\ SockInv
    /\ CutInv
    /\ ExitInv

-----------------------------------------------------------------------------
(* The stack of the main thread                                             *)

\* A jump replaces the frame that runs.
LEMMA GotoStack ==
    ASSUME stack \in Seq(Frames), stack # <<>>,
           NEW p \in Points, NEW d \in Clients \cup {None}, Goto(p, d)
    PROVE  /\ stack' \in Seq(Frames) /\ stack' # <<>> /\ Len(stack') = Len(stack)
           /\ Len(stack) \in Nat \ {0} /\ top = stack[1]
           /\ stack'[1] = Frame(p, d) /\ Frame(p, d) \in Frames
           /\ \A i \in 2..Len(stack) : stack'[i] = stack[i]
<1>1. Frame(p, d) \in Frames
  BY DEF Frame, Frames
<1>2. Tail(stack) \in Seq(Frames) /\ Len(stack) \in Nat \ {0} /\ top = stack[1]
  BY DEF top
<1>3. /\ stack' \in Seq(Frames) /\ Len(stack') = Len(stack) /\ stack'[1] = Frame(p, d)
      /\ \A i \in 2..Len(stack) : stack'[i] = stack[i]
  BY <1>1, <1>2 DEF Goto
<1> QED
  BY <1>1, <1>2, <1>3

\* A signal puts a frame on top.
LEMMA PushFrame ==
    ASSUME stack \in Seq(Frames), NEW f \in Frames, stack' = <<f>> \o stack
    PROVE  /\ stack' \in Seq(Frames) /\ stack' # <<>> /\ Len(stack') = Len(stack) + 1
           /\ stack'[1] = f
           /\ \A i \in 1..Len(stack) : stack'[i + 1] = stack[i]
           /\ \A i \in 2..(Len(stack) + 1) : stack'[i] = stack[i - 1]
  OBVIOUS

\* A return takes it off again.
LEMMA ReturnStack ==
    ASSUME stack \in Seq(Frames), Len(stack) >= 2, stack' = Returned
    PROVE  /\ stack' \in Seq(Frames) /\ stack' # <<>> /\ Len(stack') = Len(stack) - 1
           /\ stack'[1] = IF stack[2].pc = "wait" THEN Frame("batch", None) ELSE stack[2]
           /\ \A i \in 2..(Len(stack) - 1) : stack'[i] = stack[i + 1]
<1>1. Frame("batch", None) \in Frames
  BY DEF Frame, Frames, Points
<1>2. /\ Tail(stack) \in Seq(Frames) /\ Len(Tail(stack)) = Len(stack) - 1
      /\ \A i \in 1..(Len(stack) - 1) : Tail(stack)[i] = stack[i + 1]
  OBVIOUS
<1>3. CASE stack[2].pc # "wait"
  <2>1. stack' = Tail(stack) /\ 1 + 1 = 2
    BY <1>3 DEF Returned
  <2>2. Len(stack) - 1 \in Nat \ {0} /\ stack'[1] = stack[2]
    BY <1>2, <2>1
  <2>3. stack' \in Seq(Frames) /\ stack' # <<>> /\ Len(stack') = Len(stack) - 1
    <3>1. stack' \in Seq(Frames) /\ Len(stack') = Len(stack) - 1
      BY <1>2, <2>1
    <3> QED
      BY <2>2, <3>1, EmptySeq
  <2>4. \A i \in 2..(Len(stack) - 1) : stack'[i] = stack[i + 1]
    BY <1>2, <2>1, <2>2
  <2> QED
    BY <1>3, <2>2, <2>3, <2>4
<1>4. CASE stack[2].pc = "wait"
  <2> DEFINE rest == Tail(Tail(stack))
  <2>1. /\ rest \in Seq(Frames) /\ Len(rest) = Len(stack) - 2
        /\ \A i \in 1..(Len(stack) - 2) : rest[i] = stack[i + 2]
    BY <1>2
  <2>2. stack' = <<Frame("batch", None)>> \o rest
    BY <1>4 DEF Returned
  <2> HIDE DEF rest
  <2> QED
    BY <1>1, <1>4, <2>1, <2>2
<1> QED
  BY <1>3, <1>4

\* While the loop runs there is no other frame; if running_ is false, stop is over.
LEMMA LoopFacts ==
    ASSUME Inv, NEW p \in Points \ StopPoints, At(p)
    PROVE  /\ exit = None /\ stack \in Seq(Frames) /\ Len(stack) = 1
           /\ top = bottom /\ stack[1] = bottom /\ bottom \in Frames /\ bottom.pc = p
           /\ ~open => ~running_
           /\ p # "boot" /\ ~running_ => /\ interrupted # None /\ stopped /\ ~open
                                         /\ ~listening /\ CutOff
           /\ interrupted # None => ~running_ /\ (interrupted.pc = "enqueue" => p = "enqueue")
<1>1. stack \in Seq(Frames) /\ stack # <<>> /\ Len(stack) \in Nat \ {0} /\ top = stack[1]
  BY DEF Inv, TypeOK, top
<1>2. exit = None /\ stack[1].pc = p
  BY <1>1 DEF At
<1>3. Len(stack) = 1
  <2>1. 1 \in 1..Len(stack)
    BY <1>1
  <2> QED
    BY <1>1, <1>2, <2>1 DEF Inv, StackInv
<1>4. top = bottom /\ stack[1] = bottom /\ bottom \in Frames /\ bottom.pc = p
  BY <1>1, <1>2, <1>3 DEF bottom
<1>5. ~ \E i \in 1..Len(stack) : stack[i].pc \in Working
  BY <1>2, <1>3 DEF Working, StopPoints
<1>6. ~open => ~running_
  BY DEF Inv, PoolInv
<1>7. p # "boot" /\ ~running_ => interrupted # None /\ stopped /\ ~open /\ ~listening
  BY <1>4, <1>5 DEF Inv, BegunInv, PoolInv
<1>8. interrupted # None => ~running_ /\ (interrupted.pc = "enqueue" => p = "enqueue")
  BY <1>4 DEF Inv, BegunInv, PoolInv
<1> QED
  BY <1>1, <1>2, <1>3, <1>4, <1>6, <1>7, <1>8 DEF CutOff

\* A jump of the loop that leaves the flags alone.
LEMMA LoopJump ==
    ASSUME Inv, NEW p \in Points \ StopPoints, At(p), p # "boot",
           NEW q \in Points \ StopPoints, q # "boot", NEW d \in Clients \cup {None}, Goto(q, d),
           UNCHANGED <<running_, listening, interrupted, sent, open, stopped, exit>>
    PROVE  /\ stack' \in Seq(Frames) /\ stack' # <<>> /\ Len(stack') = 1
           /\ bottom' = Frame(q, d) /\ bottom'.pc = q /\ bottom'.c = d
           /\ StackInv' /\ FrameInv' /\ BegunInv' /\ ExitInv'
           /\ CutOff' => CutOff /\ ~running_
<1>1. /\ stack \in Seq(Frames) /\ stack # <<>> /\ Len(stack) = 1 /\ exit = None
      /\ bottom.pc = p /\ stack[1] = bottom
      /\ ~running_ => interrupted # None /\ stopped /\ ~listening /\ CutOff
      /\ running_ => listening /\ interrupted = None
  BY LoopFacts DEF Inv, TypeOK, BegunInv
<1>2. /\ stack' \in Seq(Frames) /\ stack' # <<>> /\ Len(stack') = 1 /\ stack'[1] = Frame(q, d)
  BY <1>1, GotoStack
<1>3. bottom' = Frame(q, d) /\ bottom'.pc = q /\ bottom'.c = d
  BY <1>2 DEF bottom, Frame
<1>4. \A i \in 1..Len(stack') : i = 1 /\ i = Len(stack') /\ stack'[i].pc = q
  BY <1>2 DEF Frame
<1>5. StackInv'
  BY <1>1, <1>2, <1>4 DEF Inv, StackInv, Working, StopPoints
<1>6. FrameInv'
  BY <1>3, <1>4 DEF FrameInv, Working, StopPoints
<1>7. BegunInv'
  BY <1>1 DEF BegunInv
<1>8. ExitInv'
  BY <1>1 DEF ExitInv
<1>9. CutOff' => CutOff /\ ~running_
  BY <1>1, <1>4 DEF CutOff, StopPoints
<1> QED
  BY <1>2, <1>3, <1>5, <1>6, <1>7, <1>8, <1>9

-----------------------------------------------------------------------------
(* Steps of the event loop                                                  *)

\* A jump that changes neither the pool nor the tasks in it: what is known of
\* the pool stays true if the loop does not enter enqueue behind a stop.
LEMMA LoopPool ==
    ASSUME Inv, NEW p \in Points \ StopPoints, At(p), p \notin {"boot", "enqueue"},
           NEW q \in Points \ StopPoints, q # "boot", NEW d \in Clients \cup {None}, Goto(q, d),
           UNCHANGED <<running_, listening, interrupted, sent, exit, pool>>,
           q \in {"locking", "push"} => p = "locking" /\ d = bottom.c,
           q = "enqueue" => open
    PROVE  PoolInv'
<1>1. UNCHANGED <<queue, running, finished, open, due, stopped>>
  BY DEF pool, poolVars
<1>2. /\ bottom'.pc = q /\ bottom'.c = d
  BY <1>1, LoopJump
<1>3. /\ Len(stack) = 1 /\ bottom.pc = p
      /\ ~open => stopped
      /\ interrupted # None => interrupted.pc # "enqueue"
  BY LoopFacts
<1> QED
  BY <1>1, <1>2, <1>3 DEF Inv, PoolInv

\* A jump that leaves sockets, table and events alone, and does not lose a
\* client that is not in the table.
LEMMA LoopSock ==
    ASSUME Inv, NEW p \in Points \ StopPoints, At(p), p # "boot",
           NEW q \in Points \ StopPoints, q # "boot", NEW d \in Clients \cup {None}, Goto(q, d),
           UNCHANGED <<running_, listening, interrupted, sent, open, stopped, exit>>,
           UNCHANGED <<sock, connections_, batch>>,
           d = None \/ d = bottom.c,
           q \in ClientPoints => d = bottom.c /\ p \in ClientPoints,
           q \in Accepting <=> p \in Accepting,
           p \in {"register", "insert"} => q \in {"register", "insert"},
           p # "erase", p # "closing", q # "closing"
    PROVE  SockInv' /\ CutInv'
<1>1. /\ bottom' = Frame(q, d) /\ bottom'.pc = q /\ bottom'.c = d
      /\ CutOff' => CutOff
  BY LoopJump
<1>2. bottom.pc = p /\ bottom \in Frames
  BY LoopFacts
<1>3. SockInv'
  BY <1>1, <1>2 DEF Inv, SockInv, Accepting, ClientPoints
<1>4. CutInv'
  <2> SUFFICES ASSUME CutOff'
               PROVE  /\ interrupted.pc \notin connections_mutex_
                      /\ \A c \in Clients : sock[c] = "open" =>
                            /\ interrupted = Frame("register", c)
                            /\ d = c => q \in {"register", "insert", "erase"}
                            /\ \A e \in batch : e.c # c
    BY <1>1 DEF CutInv
  <2>1. /\ interrupted.pc \notin connections_mutex_
        /\ \A c \in Clients : sock[c] = "open" =>
              /\ interrupted = Frame("register", c)
              /\ bottom.c = c => p \in {"register", "insert", "erase"}
              /\ \A e \in batch : e.c # c
    BY <1>1, <1>2 DEF Inv, CutInv, Frame
  <2> QED
    BY <2>1, <1>2, ShutdownAssumption DEF ClientPoints
<1> QED
  BY <1>3, <1>4

\* Both at once, for the steps that only move the loop's frame.
LEMMA LoopMove ==
    ASSUME Inv, NEW p \in Points \ StopPoints, At(p), p \notin {"boot", "enqueue", "closing", "erase"},
           NEW q \in Points \ StopPoints, q \notin {"boot", "closing"},
           NEW d \in Clients \cup {None}, Goto(q, d), d = None \/ d = bottom.c,
           UNCHANGED <<pool, running_, listening, interrupted, sent, exit>>,
           UNCHANGED <<sock, connections_, batch>>,
           data' \in [Clients -> {"none", "sent", "read"}], answered' \subseteq Clients,
           q \in {"locking", "push"} => p = "locking" /\ d = bottom.c,
           q = "enqueue" => open,
           q \in ClientPoints => d = bottom.c /\ p \in ClientPoints,
           q \in Accepting <=> p \in Accepting,
           p \in {"register", "insert"} => q \in {"register", "insert"},
           q = "wait" => running_
    PROVE  Inv'
<1>1. UNCHANGED <<queue, running, finished, open, due, stopped, admitted>>
  BY DEF pool, poolVars
<1>2. /\ stack' \in Seq(Frames) /\ stack' # <<>> /\ Len(stack') = 1 /\ bottom'.pc = q
      /\ StackInv' /\ FrameInv' /\ BegunInv' /\ ExitInv'
  BY <1>1, LoopJump
<1>3. PoolInv'
  BY LoopPool
<1>4. SockInv' /\ CutInv'
  BY <1>1, LoopSock
<1>5. TypeOK'
  <2>1. Len(stack) = 1 /\ TypeOK
    BY LoopFacts DEF Inv
  <2> QED
    BY <1>1, <1>2, <2>1 DEF TypeOK
<1>6. WaitInv'
  BY <1>2 DEF WaitInv
<1> QED
  BY <1>2, <1>3, <1>4, <1>5, <1>6 DEF Inv

\* The reaper goes from its scan to closing a connection of the table.
LEMMA Reap ==
    ASSUME Inv, At("scan"), NEW c \in connections_, Move("erase", c)
    PROVE  Inv'
<1> USE DEF Points, StopPoints
<1>1. /\ c \in Clients /\ "scan" \in Points \ StopPoints /\ "erase" \in Points \ StopPoints
      /\ Goto("erase", c)
      /\ UNCHANGED <<queue, running, finished, open, due, stopped, admitted, running_,
                     connections_, listening, batch, sock, data, answered, sent, exit,
                     interrupted>>
      /\ UNCHANGED pool
  BY DEF Inv, TypeOK, Move, pool, poolVars, server, netVars, signals
<1>2. /\ stack' \in Seq(Frames) /\ stack' # <<>> /\ Len(stack') = 1
      /\ bottom' = Frame("erase", c) /\ bottom'.pc = "erase" /\ bottom'.c = c
      /\ StackInv' /\ FrameInv' /\ BegunInv' /\ ExitInv'
      /\ CutOff' => CutOff
  BY <1>1, LoopJump
<1>3. bottom.pc = "scan"
  BY <1>1, LoopFacts
<1>4. PoolInv'
  BY <1>1, LoopPool
<1>5. SockInv'
  BY <1>1, <1>2, <1>3 DEF Inv, SockInv, Accepting, ClientPoints
<1>6. CutInv'
  BY <1>1, <1>2, <1>3 DEF Inv, CutInv, Frame
<1>7. TypeOK'
  BY <1>1, <1>2, LoopFacts DEF Inv, TypeOK
<1> QED
  BY <1>2, <1>4, <1>5, <1>6, <1>7 DEF Inv, WaitInv

\* The steps that only move the loop's frame, whatever they note about a client.
LEMMA PlainMoves ==
    Inv /\ (Register \/ Find \/ Recv \/ LockQueue \/ Send \/ Cleanup) => Inv'
<1> SUFFICES ASSUME Inv, Register \/ Find \/ Recv \/ LockQueue \/ Send \/ Cleanup PROVE Inv'
  OBVIOUS
<1> USE DEF server, netVars, signals
<1>1. /\ data \in [Clients -> {"none", "sent", "read"}] /\ answered \subseteq Clients
      /\ bottom.pc \in ClientPoints => bottom.c \in Clients
  BY DEF Inv, TypeOK, SockInv
<1> USE <1>1 DEF Points, StopPoints, ClientPoints, Accepting, Move
<1>2. CASE Register
  <2>1. PICK p \in {"limit", "register"} :
          At(p) /\ Move(IF p = "limit" THEN "register" ELSE "insert", top.c)
    BY <1>2 DEF Register, At
  <2>2. top = bottom /\ bottom.pc = p
    BY <2>1, LoopFacts
  <2> QED
    BY <2>1, <2>2, LoopMove
<1>3. CASE Find
  <2>1. PICK p \in {"find_read", "find_write"} :
          /\ At(p)
          /\ \/ Move("batch", None)
             \/ Move(IF p = "find_read" THEN "recv" ELSE "send", top.c)
    BY <1>3 DEF Find, At
  <2>2. top = bottom /\ bottom.pc = p
    BY <2>1, LoopFacts
  <2> QED
    BY <2>1, <2>2, LoopMove
<1>4. CASE Recv
  <2>1. /\ At("recv")
        /\ UNCHANGED <<pool, server, signals, batch, sock, answered, exit>>
        /\ \/ sock[top.c] = "open" /\ Goto("enqueue", top.c)
           \/ Goto("erase", top.c)
        /\ data' \in [Clients -> {"none", "sent", "read"}]
    BY <1>4 DEF Recv
  <2>2. /\ top = bottom /\ bottom.pc = "recv"
        /\ ~open => CutOff
    BY <2>1, LoopFacts
  <2>3. sock[top.c] = "open" => open
    BY <2>2 DEF Inv, CutInv, Frame
  <2> QED
    BY <2>1, <2>2, <2>3, LoopMove
<1>5. CASE LockQueue
  <2>1. At("locking") /\ Move("push", top.c)
    BY <1>5 DEF LockQueue
  <2>2. top = bottom /\ bottom.pc = "locking"
    BY <2>1, LoopFacts
  <2> QED
    BY <2>1, <2>2, LoopMove
<1>6. CASE Send
  <2>1. /\ At("send")
        /\ UNCHANGED <<pool, server, signals, batch, sock, data, exit>>
        /\ Goto("batch", top.c) \/ Goto("erase", top.c)
        /\ answered' = answered \/ answered' = answered \cup {top.c}
    BY <1>6 DEF Send
  <2>2. top = bottom /\ bottom.pc = "send"
    BY <2>1, LoopFacts
  <2> QED
    BY <2>1, <2>2, LoopMove
<1>7. CASE Cleanup
  <2>1. ASSUME NEW c \in connections_ \ (finished \ answered), At("scan"), Move("erase", c)
        PROVE  Inv'
    BY <2>1, Reap
  <2>2. ASSUME NEW p \in {"scan", "sweep"}, At(p), Move("sweep", None) \/ Move("test", None)
        PROVE  Inv'
    <3>1. bottom.pc = p
      BY <2>2, LoopFacts
    <3> QED
      BY <2>2, <3>1, LoopMove
  <2> QED
    BY <1>7, <2>1, <2>2 DEF Cleanup, At
<1> QED
  BY <1>2, <1>3, <1>4, <1>5, <1>6, <1>7

\* enqueue's test and the loop's, which may end the process.
LEMMA Tests == Inv /\ (EnqueueTest \/ LoopTest) => Inv'
<1> SUFFICES ASSUME Inv, EnqueueTest \/ LoopTest PROVE Inv'
  OBVIOUS
<1> USE DEF Points, StopPoints, ClientPoints, Accepting, server, netVars, signals
<1>1. ASSUME UNCHANGED <<stack, pool, server, signals, batch, netVars>>,
             \/ bottom.pc = "enqueue" /\ ~open /\ exit' = 1
             \/ bottom.pc \in {"boot", "test"} /\ ~running_ /\ exit' = 0,
             Len(stack) = 1
      PROVE  Inv'
  <2>1. UNCHANGED <<queue, running, finished, open, due, stopped, admitted, running_,
                    connections_, listening, stack, batch, sock, data, answered, sent,
                    interrupted>>
    BY <1>1 DEF pool, poolVars
  <2>2. UNCHANGED <<bottom, CutOff>>
    BY <2>1 DEF bottom, CutOff
  <2>3. TypeOK' /\ ExitInv'
    BY <1>1, <2>1, <2>2, ShutdownAssumption DEF Inv, TypeOK, ExitInv
  <2>4. StackInv' /\ FrameInv' /\ BegunInv' /\ WaitInv'
    BY <2>1, <2>2 DEF Inv, StackInv, FrameInv, BegunInv, WaitInv
  <2>5. PoolInv' /\ SockInv' /\ CutInv'
    BY <2>1, <2>2 DEF Inv, PoolInv, SockInv, CutInv
  <2> QED
    BY <2>3, <2>4, <2>5 DEF Inv
<1>2. CASE LoopTest
  <2>1. At("test") /\ UNCHANGED <<pool, server, signals, batch, netVars>>
    BY <1>2 DEF LoopTest
  <2>2. bottom.pc = "test" /\ Len(stack) = 1
    BY <2>1, LoopFacts
  <2>3. CASE running_
    <3>1. Goto("wait", None) /\ UNCHANGED exit
      BY <1>2, <2>3 DEF LoopTest
    <3>2. data' \in [Clients -> {"none", "sent", "read"}] /\ answered' \subseteq Clients
      BY <2>1 DEF Inv, TypeOK
    <3> QED
      BY <2>1, <2>2, <2>3, <3>1, <3>2, LoopMove
  <2>4. CASE ~running_
    BY <1>1, <1>2, <2>1, <2>2, <2>4 DEF LoopTest
  <2> QED
    BY <2>3, <2>4
<1>3. CASE EnqueueTest
  <2>1. At("enqueue") /\ UNCHANGED <<pool, server, signals, batch, netVars>>
    BY <1>3 DEF EnqueueTest, CaughtInMain
  <2>2. /\ bottom.pc = "enqueue" /\ Len(stack) = 1 /\ top = bottom
        /\ interrupted # None => ~open
    BY <2>1, LoopFacts
  <2>3. CASE open
    <3>1. Goto("locking", top.c) /\ UNCHANGED exit /\ interrupted = None
      BY <1>3, <2>2, <2>3 DEF EnqueueTest, CaughtInMain
    <3>2. bottom.c \in Clients
      BY <2>2 DEF Inv, SockInv
    <3>3. UNCHANGED <<queue, running, finished, open, due, stopped, admitted>>
      BY <2>1 DEF pool, poolVars
    <3>4. /\ stack' \in Seq(Frames) /\ stack' # <<>> /\ Len(stack') = 1
          /\ bottom'.pc = "locking"
          /\ StackInv' /\ FrameInv' /\ BegunInv' /\ ExitInv'
      BY <2>1, <2>2, <3>1, <3>2, <3>3, LoopJump
    <3>5. PoolInv'
      BY <2>1, <2>3, <3>1, <3>3 DEF Inv, PoolInv
    <3>6. SockInv' /\ CutInv'
      BY <2>1, <2>2, <3>1, <3>2, <3>3, LoopSock
    <3>7. TypeOK'
      BY <2>1, <2>2, <3>1, <3>3, <3>4 DEF Inv, TypeOK
    <3> QED
      BY <3>4, <3>5, <3>6, <3>7 DEF Inv, WaitInv
  <2>4. CASE ~open
    BY <1>1, <1>3, <2>1, <2>2, <2>4 DEF EnqueueTest, CaughtInMain
  <2> QED
    BY <2>3, <2>4
<1> QED
  BY <1>2, <1>3

\* start, before which there is nothing to stop.
LEMMA StartStep == Inv /\ Start => Inv'
<1> SUFFICES ASSUME Inv, Start PROVE Inv'
  OBVIOUS
<1> USE DEF Points, StopPoints, ClientPoints, Accepting, netVars, signals
<1>1. /\ At("boot")
      /\ UNCHANGED <<queue, running, finished, open, due, stopped, admitted, connections_,
                     batch, sock, data, answered, sent, interrupted>>
  BY DEF Start, pool, poolVars
<1>2. /\ bottom.pc = "boot" /\ Len(stack) = 1 /\ exit = None /\ stack[1] = bottom
      /\ ~running_ /\ interrupted = None /\ open /\ ~stopped
  <2>1. bottom.pc = "boot" /\ Len(stack) = 1 /\ exit = None /\ stack[1] = bottom
    BY <1>1, LoopFacts
  <2> QED
    BY <2>1 DEF Inv, FrameInv, PoolInv
<1>3. CASE running_' = TRUE /\ listening' = TRUE /\ Goto("test", None) /\ UNCHANGED exit
  <2>1. /\ stack' \in Seq(Frames) /\ stack' # <<>> /\ Len(stack') = 1
        /\ stack'[1] = Frame("test", None)
    BY <1>2, <1>3, GotoStack DEF Inv, TypeOK
  <2>2. bottom'.pc = "test" /\ bottom'.c = None
    BY <2>1 DEF bottom, Frame
  <2>3. \A i \in 1..Len(stack') : i = 1 /\ i = Len(stack') /\ stack'[i].pc = "test"
    BY <2>1 DEF Frame
  <2>4. TypeOK' /\ ExitInv'
    BY <1>1, <1>2, <1>3, <2>1 DEF Inv, TypeOK, ExitInv
  <2>5. StackInv'
    BY <1>1, <1>2, <2>1, <2>3 DEF Inv, StackInv, Working
  <2>6. FrameInv' /\ BegunInv'
    BY <1>1, <1>2, <1>3, <2>2, <2>3 DEF FrameInv, BegunInv, Working
  <2>7. PoolInv' /\ SockInv'
    BY <1>1, <1>2, <2>2, ShutdownAssumption DEF Inv, PoolInv, SockInv
  <2>8. CutInv'
    BY <1>1, <1>2 DEF CutInv, CutOff
  <2> QED
    BY <2>2, <2>4, <2>5, <2>6, <2>7, <2>8 DEF Inv, WaitInv
<1>4. CASE exit' = 0 /\ UNCHANGED <<running_, listening, stack>>
  <2>1. UNCHANGED <<bottom, CutOff>>
    BY <1>1, <1>4 DEF bottom, CutOff
  <2>2. TypeOK' /\ ExitInv'
    <3>1. TypeOK'
      BY <1>1, <1>4 DEF Inv, TypeOK
    <3>2. ExitInv'
      BY <1>2, <1>4, <2>1 DEF ExitInv
    <3> QED
      BY <3>1, <3>2
  <2>3. StackInv' /\ FrameInv' /\ BegunInv' /\ WaitInv'
    BY <1>1, <1>4, <2>1 DEF Inv, StackInv, FrameInv, BegunInv, WaitInv
  <2>4. PoolInv' /\ SockInv' /\ CutInv'
    BY <1>1, <1>4, <2>1 DEF Inv, PoolInv, SockInv, CutInv
  <2> QED
    BY <2>2, <2>3, <2>4 DEF Inv
<1> QED
  BY <1>3, <1>4 DEF Start

\* epoll_wait, which is only called while running_ is true.
LEMMA WaitStep == Inv /\ Wait => Inv'
<1> SUFFICES ASSUME Inv, Wait PROVE Inv'
  OBVIOUS
<1> USE DEF Points, StopPoints, ClientPoints, Accepting, server, netVars, signals
<1>1. /\ At("wait") /\ Goto("batch", None) /\ batch' \in SUBSET Ready
      /\ UNCHANGED <<pool, server, signals, netVars, exit>>
      /\ UNCHANGED <<queue, running, finished, open, due, stopped, admitted>>
  BY DEF Wait, pool, poolVars
<1>2. bottom.pc = "wait" /\ Len(stack) = 1 /\ running_
  <2>1. bottom.pc = "wait" /\ Len(stack) = 1
    BY <1>1, LoopFacts
  <2> QED
    BY <2>1 DEF Inv, WaitInv
<1>3. /\ stack' \in Seq(Frames) /\ stack' # <<>> /\ Len(stack') = 1
      /\ bottom'.pc = "batch" /\ bottom'.c = None
      /\ StackInv' /\ FrameInv' /\ BegunInv' /\ ExitInv'
      /\ CutOff' => CutOff /\ ~running_
  BY <1>1, LoopJump
<1>4. PoolInv'
  BY <1>1, LoopPool
<1>5. \A e \in Ready :
         /\ e \in Frames /\ e.pc \in {"accept", "find_read", "find_write"}
         /\ e.pc = "accept" => e.c = None
         /\ e.pc # "accept" => e.c \in connections_
  BY DEF Ready, Frame, Frames, Inv, TypeOK
<1>6. TypeOK'
  BY <1>1, <1>2, <1>3, <1>5 DEF Inv, TypeOK
<1>7. SockInv'
  BY <1>1, <1>2, <1>3, <1>5, ShutdownAssumption DEF Inv, TypeOK, SockInv
<1>8. CutInv'
  BY <1>2, <1>3 DEF CutInv
<1> QED
  BY <1>3, <1>4, <1>6, <1>7, <1>8 DEF Inv, WaitInv

\* The steps of the loop that change sockets, table or events: what is left to
\* show is what they do to those.
LEMMA LoopChange ==
    ASSUME Inv, NEW p \in Points \ StopPoints, At(p), p \notin {"boot", "enqueue"},
           NEW q \in Points \ StopPoints,
           q \notin {"boot", "wait", "enqueue", "locking", "push"},
           NEW d \in Clients \cup {None}, Goto(q, d),
           UNCHANGED <<pool, running_, listening, interrupted, sent, exit, data, answered>>,
           sock' \in [Clients -> {"none", "pending", "open", "closed", "cut"}],
           connections_' \subseteq Clients, batch' \subseteq Frames
    PROVE  /\ TypeOK' /\ StackInv' /\ FrameInv' /\ WaitInv' /\ BegunInv' /\ PoolInv' /\ ExitInv'
           /\ bottom' = Frame(q, d) /\ bottom'.pc = q /\ bottom'.c = d
           /\ CutOff' => CutOff /\ ~listening
<1>1. UNCHANGED <<queue, running, finished, open, due, stopped, admitted>>
  BY DEF pool, poolVars
<1>2. /\ stack' \in Seq(Frames) /\ stack' # <<>> /\ Len(stack') = 1
      /\ bottom' = Frame(q, d) /\ bottom'.pc = q /\ bottom'.c = d
      /\ StackInv' /\ FrameInv' /\ BegunInv' /\ ExitInv'
      /\ CutOff' => CutOff /\ ~running_
  BY <1>1, LoopJump
<1>3. PoolInv'
  BY LoopPool
<1>4. Len(stack) = 1 /\ TypeOK /\ (~running_ => ~listening)
  BY LoopFacts DEF Inv
<1>5. TypeOK'
  BY <1>1, <1>2, <1>4 DEF TypeOK
<1> QED
  BY <1>2, <1>3, <1>4, <1>5 DEF WaitInv

LEMMA DispatchStep == Inv /\ Dispatch => Inv'
<1> SUFFICES ASSUME Inv, Dispatch PROVE Inv'
  OBVIOUS
<1> USE DEF Points, StopPoints, ClientPoints, Accepting, server, netVars, signals
<1>1. At("batch") /\ UNCHANGED <<pool, server, signals, netVars, exit>>
  BY DEF Dispatch
<1>2. bottom.pc = "batch" /\ Len(stack) = 1 /\ exit = None
  BY <1>1, LoopFacts
<1>3. /\ sock \in [Clients -> {"none", "pending", "open", "closed", "cut"}]
      /\ data \in [Clients -> {"none", "sent", "read"}] /\ answered \subseteq Clients
      /\ connections_ \subseteq Clients /\ batch \subseteq Frames
  BY DEF Inv, TypeOK
<1>4. ASSUME NEW e \in batch, batch' = batch \ {e}, Goto(e.pc, e.c) PROVE Inv'
  <2>1. /\ e.pc \in {"accept", "find_read", "find_write"} /\ e.c \in Clients \cup {None}
        /\ e.pc # "accept" => e.c \in Clients
    BY <1>3 DEF Inv, SockInv, Frames
  <2>2. /\ TypeOK' /\ StackInv' /\ FrameInv' /\ WaitInv' /\ BegunInv' /\ PoolInv' /\ ExitInv'
        /\ bottom'.pc = e.pc /\ bottom'.c = e.c
        /\ CutOff' => CutOff /\ ~listening
    BY <1>1, <1>3, <1>4, <2>1, LoopChange
  <2>3. SockInv'
    BY <1>1, <1>2, <1>4, <2>1, <2>2 DEF Inv, SockInv, pool, poolVars
  <2>4. CutInv'
    BY <1>1, <1>2, <1>4, <2>2 DEF Inv, CutInv, Frame
  <2> QED
    BY <2>2, <2>3, <2>4 DEF Inv
<1>5. ASSUME NEW e \in batch, batch' = batch \ {e}, UNCHANGED stack PROVE Inv'
  <2>1. UNCHANGED <<queue, running, finished, open, due, stopped, admitted, running_,
                    connections_, listening, stack, sock, data, answered, sent, exit,
                    interrupted>>
    BY <1>1, <1>5 DEF pool, poolVars
  <2>2. UNCHANGED <<bottom, CutOff>>
    BY <2>1 DEF bottom, CutOff
  <2>3. TypeOK' /\ ExitInv' /\ StackInv' /\ FrameInv' /\ WaitInv' /\ BegunInv'
    BY <1>5, <2>1, <2>2 DEF Inv, TypeOK, ExitInv, StackInv, FrameInv, WaitInv, BegunInv
  <2>4. PoolInv' /\ SockInv' /\ CutInv'
    BY <1>5, <2>1, <2>2 DEF Inv, PoolInv, SockInv, CutInv
  <2> QED
    BY <2>3, <2>4 DEF Inv
<1>6. ASSUME Goto("scan", None), UNCHANGED batch PROVE Inv'
  BY <1>1, <1>2, <1>3, <1>6, LoopMove
<1> QED
  BY <1>4, <1>5, <1>6 DEF Dispatch

\* handle_accept: no event is about a client that was not accepted before.
LEMMA AcceptSteps == Inv /\ (Accept4 \/ Insert) => Inv'
<1> SUFFICES ASSUME Inv, Accept4 \/ Insert PROVE Inv'
  OBVIOUS
<1> USE DEF Points, StopPoints, ClientPoints, Accepting, server, netVars, signals
<1>1. /\ sock \in [Clients -> {"none", "pending", "open", "closed", "cut"}]
      /\ data \in [Clients -> {"none", "sent", "read"}] /\ answered \subseteq Clients
      /\ connections_ \subseteq Clients /\ batch \subseteq Frames
  BY DEF Inv, TypeOK
<1>2. CASE Accept4
  <2>1. At("accept") /\ UNCHANGED <<pool, server, signals, batch, data, answered, exit>>
    BY <1>2 DEF Accept4
  <2>2. bottom.pc = "accept"
    BY <2>1, LoopFacts
  <2>3. ASSUME NEW c \in Clients, listening, sock[c] = "pending",
               sock' = [sock EXCEPT ![c] = "open"], Goto("limit", c)
        PROVE  Inv'
    <3>1. sock' \in [Clients -> {"none", "pending", "open", "closed", "cut"}]
      BY <1>1, <2>3
    <3>2. /\ TypeOK' /\ StackInv' /\ FrameInv' /\ WaitInv' /\ BegunInv' /\ PoolInv' /\ ExitInv'
          /\ bottom'.pc = "limit" /\ bottom'.c = c
          /\ CutOff' => CutOff /\ ~listening
      BY <1>1, <2>1, <2>3, <3>1, LoopChange
    <3>3. SockInv'
      <4>1. UNCHANGED <<connections_, batch, stopped>>
        BY <2>1 DEF pool, poolVars
      <4>2. \A a \in Clients : sock'[a] = IF a = c THEN "open" ELSE sock[a]
        BY <1>1, <2>3
      <4> QED
        BY <2>2, <2>3, <3>2, <4>1, <4>2 DEF Inv, SockInv
    <3>4. CutInv'
      BY <2>3, <3>2 DEF CutInv
    <3> QED
      BY <3>2, <3>3, <3>4 DEF Inv
  <2>4. ASSUME Goto("batch", None), UNCHANGED sock PROVE Inv'
    BY <1>1, <2>1, <2>2, <2>4, LoopMove
  <2> QED
    BY <1>2, <2>3, <2>4 DEF Accept4
<1>3. CASE Insert
  <2>1. /\ At("insert") /\ Goto("accept", None) /\ connections_' = connections_ \cup {top.c}
        /\ UNCHANGED <<pool, running_, listening, signals, batch, sock, data, answered, exit>>
    BY <1>3 DEF Insert
  <2>2. bottom.pc = "insert" /\ top = bottom
    BY <2>1, LoopFacts
  <2>3. bottom.c \in Clients
    BY <2>2 DEF Inv, SockInv
  <2>4. /\ TypeOK' /\ StackInv' /\ FrameInv' /\ WaitInv' /\ BegunInv' /\ PoolInv' /\ ExitInv'
        /\ bottom'.pc = "accept" /\ bottom'.c = None
        /\ CutOff' => CutOff /\ ~listening
    BY <1>1, <2>1, <2>2, <2>3, LoopChange
  <2>5. UNCHANGED stopped
    BY <2>1 DEF pool, poolVars
  <2>6. SockInv'
    BY <2>1, <2>2, <2>3, <2>4, <2>5, ShutdownAssumption DEF Inv, SockInv
  <2>7. CutInv'
    BY <2>1, <2>2, <2>4, ShutdownAssumption DEF Inv, CutInv, Frame
  <2> QED
    BY <2>4, <2>6, <2>7 DEF Inv
<1> QED
  BY <1>2, <1>3

\* close_connection.
LEMMA CloseSteps == Inv /\ (Erase \/ CloseFd) => Inv'
<1> SUFFICES ASSUME Inv, Erase \/ CloseFd PROVE Inv'
  OBVIOUS
<1> USE DEF Points, StopPoints, ClientPoints, Accepting, server, netVars, signals
<1>1. /\ sock \in [Clients -> {"none", "pending", "open", "closed", "cut"}]
      /\ connections_ \subseteq Clients /\ batch \subseteq Frames
  BY DEF Inv, TypeOK
<1>2. CASE Erase
  <2>1. /\ At("erase") /\ connections_' = connections_ \ {top.c}
        /\ UNCHANGED <<pool, running_, listening, signals, batch, sock, data, answered, exit>>
        /\ UNCHANGED stopped
    BY <1>2 DEF Erase, pool, poolVars
  <2>2. bottom.pc = "erase" /\ top = bottom
    BY <2>1, LoopFacts
  <2>3. bottom.c \in Clients
    BY <2>2 DEF Inv, SockInv
  <2>4. CASE top.c \in connections_
    <3>1. Goto("closing", top.c)
      BY <1>2, <2>4 DEF Erase
    <3>2. /\ TypeOK' /\ StackInv' /\ FrameInv' /\ WaitInv' /\ BegunInv' /\ PoolInv' /\ ExitInv'
          /\ bottom' = Frame("closing", top.c) /\ bottom'.pc = "closing" /\ bottom'.c = top.c
          /\ CutOff' => CutOff /\ ~listening
      BY <1>1, <2>1, <2>2, <2>3, <3>1, LoopChange
    <3>3. SockInv'
      BY <2>1, <2>2, <2>3, <3>2 DEF Inv, SockInv
    <3>4. CutInv'
      BY <2>1, <2>2, <3>2 DEF Inv, CutInv, Frame
    <3> QED
      BY <3>2, <3>3, <3>4 DEF Inv
  <2>5. CASE top.c \notin connections_
    <3>1. Goto("batch", None)
      BY <1>2, <2>5 DEF Erase
    <3>2. /\ TypeOK' /\ StackInv' /\ FrameInv' /\ WaitInv' /\ BegunInv' /\ PoolInv' /\ ExitInv'
          /\ bottom'.pc = "batch" /\ bottom'.c = None
          /\ CutOff' => CutOff /\ ~listening
      BY <1>1, <2>1, <2>2, <2>3, <3>1, LoopChange
    <3>3. SockInv'
      BY <2>1, <2>2, <2>5, <3>2, ShutdownAssumption DEF Inv, SockInv
    <3>4. CutInv'
      BY <2>1, <2>2, <3>2, ShutdownAssumption DEF Inv, CutInv, Frame
    <3> QED
      BY <3>2, <3>3, <3>4 DEF Inv
  <2> QED
    BY <2>4, <2>5
<1>3. CASE CloseFd
  <2>1. /\ At("closing") /\ sock' = [sock EXCEPT ![top.c] = "closed"] /\ Goto("batch", None)
        /\ UNCHANGED <<pool, running_, listening, connections_, signals, batch, data, answered,
                       exit>>
        /\ UNCHANGED stopped
    BY <1>3 DEF CloseFd, pool, poolVars
  <2>2. bottom.pc = "closing" /\ top = bottom
    BY <2>1, LoopFacts
  <2>3. /\ bottom.c \in Clients
        /\ sock' \in [Clients -> {"none", "pending", "open", "closed", "cut"}]
        /\ \A a \in Clients : sock'[a] = IF a = bottom.c THEN "closed" ELSE sock[a]
    BY <1>1, <2>1, <2>2 DEF Inv, SockInv
  <2>4. /\ TypeOK' /\ StackInv' /\ FrameInv' /\ WaitInv' /\ BegunInv' /\ PoolInv' /\ ExitInv'
        /\ bottom'.pc = "batch" /\ bottom'.c = None
        /\ CutOff' => CutOff /\ ~listening
    BY <1>1, <2>1, <2>3, LoopChange
  <2>5. SockInv'
    BY <2>1, <2>2, <2>3, <2>4, ShutdownAssumption DEF Inv, SockInv
  <2>6. CutInv'
    BY <2>1, <2>2, <2>3, <2>4, ShutdownAssumption DEF Inv, CutInv, Frame
  <2> QED
    BY <2>4, <2>5, <2>6 DEF Inv
<1> QED
  BY <1>2, <1>3

\* The push: behind a stop it is only reached by the request the stop came upon
\* between enqueue's test and its lock.
LEMMA PushStep == Inv /\ Push => Inv'
<1> SUFFICES ASSUME Inv, Push PROVE Inv'
  OBVIOUS
<1> USE DEF Points, StopPoints, ClientPoints, Accepting, server, netVars, signals
<1>1. /\ At("push") /\ queue' = Append(queue, top.c) /\ Goto("batch", None)
      /\ UNCHANGED <<running, finished, open, due, stopped, admitted, running_, connections_,
                     listening, batch, sock, data, answered, sent, exit, interrupted>>
  BY DEF Push, Pool!Accept
<1>2. /\ bottom.pc = "push" /\ top = bottom /\ Len(stack) = 1
      /\ ~open => stopped
      /\ interrupted # None => interrupted.pc # "enqueue"
  BY <1>1, LoopFacts
<1>3. bottom.c \in Clients
  BY <1>2 DEF Inv, SockInv
<1>4. queue' \in Seq(Clients)
      /\ {queue'[i] : i \in DOMAIN queue'} = {queue[i] : i \in DOMAIN queue} \cup {top.c}
  <2>1. queue \in Seq(Clients) /\ Len(queue) \in Nat /\ DOMAIN queue = 1..Len(queue)
    BY DEF Inv, TypeOK
  <2>2. /\ queue' \in Seq(Clients) /\ DOMAIN queue' = 1..(Len(queue) + 1)
        /\ queue'[Len(queue) + 1] = top.c
        /\ \A i \in 1..Len(queue) : queue'[i] = queue[i]
    BY <1>1, <1>2, <1>3, <2>1
  <2> QED
    BY <2>1, <2>2
<1>5. /\ stack' \in Seq(Frames) /\ stack' # <<>> /\ Len(stack') = 1
      /\ bottom'.pc = "batch"
      /\ StackInv' /\ FrameInv' /\ BegunInv' /\ ExitInv'
  BY <1>1, LoopJump
<1>6. TypeOK'
  BY <1>1, <1>2, <1>4, <1>5 DEF Inv, TypeOK
<1>7. PoolInv'
  BY <1>1, <1>2, <1>4, <1>5 DEF Inv, PoolInv
<1>8. SockInv' /\ CutInv'
  BY <1>1, <1>2, LoopSock
<1> QED
  BY <1>5, <1>6, <1>7, <1>8 DEF Inv, WaitInv

LEMMA LoopSteps == Inv /\ EventLoop => Inv'
  BY PlainMoves, Tests, StartStep, WaitStep, DispatchStep, AcceptSteps, CloseSteps, PushStep
     DEF EventLoop

-----------------------------------------------------------------------------
(* Steps of stop                                                            *)

\* While a handler runs the loop's frame lies below it; no other frame is at
\* work when one goes past its test.
LEMMA StopFacts ==
    ASSUME Inv, NEW p \in StopPoints, At(p)
    PROVE  /\ exit = None /\ stack \in Seq(Frames) /\ stack # <<>> /\ Len(stack) \in Nat
           /\ Len(stack) >= 2 /\ stack[1].pc = p /\ top = stack[1]
           /\ bottom \in Frames /\ bottom # None /\ bottom = Frame(bottom.pc, bottom.c)
           /\ bottom.pc \in Points \ StopPoints
           /\ p # "stop" \/ running_ =>
                 /\ \A i \in 2..Len(stack) : stack[i].pc \notin Working
                 /\ bottom.pc # "boot"
           /\ p \in Working => ~running_ /\ interrupted = bottom
<1>1. stack \in Seq(Frames) /\ stack # <<>> /\ Len(stack) \in Nat \ {0} /\ top = stack[1]
  BY DEF Inv, TypeOK, top
<1>2. exit = None /\ stack[1].pc = p
  BY <1>1 DEF At
<1>3. 1 \in 1..Len(stack) /\ Len(stack) \in 1..Len(stack)
  BY <1>1
<1>4. Len(stack) >= 2
  BY <1>1, <1>2, <1>3 DEF Inv, StackInv
<1>5. bottom \in Frames /\ bottom.pc \in Points \ StopPoints
  <2>1. bottom \in Frames
    BY <1>1, <1>3 DEF bottom
  <2>2. bottom.pc \notin StopPoints
    BY <1>3 DEF Inv, StackInv, bottom
  <2> QED
    BY <2>1, <2>2 DEF Frames
<1>6. bottom # None /\ bottom = Frame(bottom.pc, bottom.c)
  BY <1>5, ShutdownAssumption DEF Frame, Frames
<1>7. ASSUME p # "stop" \/ running_, NEW i \in 2..Len(stack), stack[i].pc \in Working PROVE FALSE
  <2>1. i \in 1..Len(stack) /\ 1 < i
    BY <1>1, <1>7
  <2> QED
    BY <1>2, <1>3, <1>7, <2>1 DEF Inv, StackInv, FrameInv
<1>8. p # "stop" \/ running_ => bottom.pc # "boot"
  BY <1>1, <1>2, <1>3, <1>4 DEF Inv, FrameInv
<1>9. p \in Working => ~running_ /\ interrupted = bottom
  BY <1>2, <1>3 DEF Inv, FrameInv
<1> QED
  BY <1>1, <1>2, <1>4, <1>5, <1>6, <1>7, <1>8, <1>9

\* A jump of a handler leaves the frames below it alone.
LEMMA StopJump ==
    ASSUME Inv, NEW p \in StopPoints, At(p), p # "stop" \/ running_,
           NEW q \in StopPoints, Goto(q, None), UNCHANGED <<sent, exit>>
    PROVE  /\ stack' \in Seq(Frames) /\ stack' # <<>> /\ Len(stack') = Len(stack)
           /\ bottom' = bottom
           /\ \A i \in 1..Len(stack') : stack'[i].pc = IF i = 1 THEN q ELSE stack[i].pc
           /\ StackInv' /\ WaitInv' /\ ExitInv'
<1>1. /\ stack \in Seq(Frames) /\ stack # <<>> /\ Len(stack) \in Nat /\ Len(stack) >= 2
      /\ stack[1].pc = p /\ exit = None
      /\ \A i \in 2..Len(stack) : stack[i].pc \notin Working
  BY StopFacts
<1>2. q \in Points
  BY DEF Points, StopPoints
<1>3. /\ stack' \in Seq(Frames) /\ stack' # <<>> /\ Len(stack') = Len(stack)
      /\ stack'[1] = Frame(q, None) /\ \A i \in 2..Len(stack) : stack'[i] = stack[i]
  BY <1>1, <1>2, GotoStack
<1>4. bottom' = bottom
  BY <1>1, <1>3 DEF bottom
<1>5. \A i \in 1..Len(stack') : stack'[i].pc = IF i = 1 THEN q ELSE stack[i].pc
  BY <1>1, <1>3 DEF Frame
<1>6. StackInv'
  <2>1. Len(stack') <= 1 + Cardinality(sent')
    BY <1>3 DEF Inv, StackInv
  <2>2. \A i \in 1..Len(stack') : stack'[i].pc \in StopPoints <=> i # Len(stack')
    BY <1>1, <1>3, <1>5 DEF Inv, StackInv
  <2>3. \A i \in 1..Len(stack'), j \in 1..Len(stack') :
           stack'[i].pc \in Working /\ j < i => stack'[j].pc = "stop"
    BY <1>1, <1>3, <1>5
  <2> QED
    BY <2>1, <2>2, <2>3 DEF StackInv
<1>7. WaitInv' /\ ExitInv'
  BY <1>1, <1>3 DEF WaitInv, ExitInv
<1> QED
  BY <1>3, <1>4, <1>5, <1>6, <1>7

\* stop's test finds running_ true.
LEMMA StopTestStep == Inv /\ StopTest /\ running_ => Inv'
<1> SUFFICES ASSUME Inv, StopTest, running_ PROVE Inv'
  OBVIOUS
<1> USE DEF StopPoints, Working, server, netVars, signals, pool, poolVars
<1>1. At("stop") /\ Goto("store", None)
      /\ UNCHANGED <<queue, running, finished, open, due, stopped, admitted, running_,
                     connections_, listening, batch, sock, data, answered, sent, exit,
                     interrupted>>
  BY DEF StopTest
<1>2. /\ stack \in Seq(Frames) /\ Len(stack) \in Nat /\ Len(stack) >= 2 /\ bottom.pc # "boot"
      /\ stack[1].pc = "stop"
      /\ interrupted = None /\ open
  BY <1>1, StopFacts DEF Inv, BegunInv, PoolInv
<1>3. /\ stack' \in Seq(Frames) /\ stack' # <<>> /\ Len(stack') = Len(stack)
      /\ bottom' = bottom
      /\ \A i \in 1..Len(stack') : stack'[i].pc = IF i = 1 THEN "store" ELSE stack[i].pc
      /\ StackInv' /\ WaitInv' /\ ExitInv'
  BY <1>1, StopJump
<1>4. TypeOK'
  BY <1>1, <1>3 DEF Inv, TypeOK
<1>5. FrameInv' /\ BegunInv'
  BY <1>1, <1>2, <1>3 DEF Inv, FrameInv, BegunInv
<1>6. PoolInv' /\ SockInv' /\ CutInv'
  BY <1>1, <1>2, <1>3 DEF Inv, PoolInv, SockInv, CutInv, CutOff
<1> QED
  BY <1>3, <1>4, <1>5, <1>6 DEF Inv

\* running_ is stored; if that is done a second time, the loop is where it was.
LEMMA StoreStep == Inv /\ StopStore => Inv'
<1> SUFFICES ASSUME Inv, StopStore PROVE Inv'
  OBVIOUS
<1> USE DEF StopPoints, Working, server, netVars, signals, pool, poolVars
<1>1. At("store") /\ Goto("shutdown", None) /\ running_' = FALSE /\ interrupted' = bottom
      /\ UNCHANGED <<queue, running, finished, open, due, stopped, admitted,
                     connections_, listening, batch, sock, data, answered, sent, exit>>
  BY DEF StopStore, bottom
<1>2. /\ stack \in Seq(Frames) /\ Len(stack) \in Nat /\ Len(stack) >= 2
      /\ stack[1].pc = "store" /\ bottom \in Frames /\ bottom # None /\ bottom.pc # "boot"
      /\ \A i \in 2..Len(stack) : stack[i].pc \notin Working
  BY <1>1, StopFacts
<1>3. /\ stack' \in Seq(Frames) /\ stack' # <<>> /\ Len(stack') = Len(stack)
      /\ bottom' = bottom
      /\ \A i \in 1..Len(stack') : stack'[i].pc = IF i = 1 THEN "shutdown" ELSE stack[i].pc
      /\ StackInv' /\ WaitInv' /\ ExitInv'
  BY <1>1, StopJump
<1>4. TypeOK'
  BY <1>1, <1>2, <1>3 DEF Inv, TypeOK
<1>5. 1 \in 1..Len(stack) /\ (~running_ => interrupted = bottom)
  BY <1>2 DEF Inv, FrameInv
<1>6. FrameInv'
  BY <1>1, <1>2, <1>3 DEF Inv, FrameInv
<1>7. BegunInv'
  BY <1>1, <1>2, <1>3, <1>5 DEF BegunInv
<1>8. PoolInv'
  BY <1>1, <1>2, <1>3, <1>5 DEF Inv, PoolInv
<1>9. SockInv'
  BY <1>1, <1>3 DEF Inv, SockInv
<1>10. CutInv'
  <2>1. CutOff' => ~running_ /\ CutOff
    BY <1>1, <1>2, <1>3, <1>5 DEF Inv, BegunInv, CutOff
  <2> QED
    BY <1>1, <1>3, <1>5, <2>1 DEF Inv, CutInv
<1> QED
  BY <1>3, <1>4, <1>6, <1>7, <1>8, <1>9, <1>10 DEF Inv

\* ThreadPool::shutdown closes the pool, or finds it closed and drained.
LEMMA PoolShutdownStep == Inv /\ PoolShutdown => Inv'
<1> SUFFICES ASSUME Inv, PoolShutdown PROVE Inv'
  OBVIOUS
<1> USE DEF StopPoints, Working, server, netVars, signals, pool, poolVars
<1>1. At("shutdown")
      /\ UNCHANGED <<admitted, running_, connections_, listening, batch, sock, data, answered,
                     sent, exit, interrupted>>
  BY DEF PoolShutdown
<1>2. /\ stack \in Seq(Frames) /\ Len(stack) \in Nat /\ Len(stack) >= 2
      /\ stack[1].pc = "shutdown" /\ bottom # None /\ bottom.pc # "boot"
      /\ bottom = Frame(bottom.pc, bottom.c)
      /\ \A i \in 2..Len(stack) : stack[i].pc \notin Working
      /\ ~running_ /\ interrupted = bottom
  BY <1>1, StopFacts
<1>3. CASE ~open /\ Goto("close", None) /\ UNCHANGED poolVars
  <2>1. stopped
    BY <1>2, <1>3 DEF Inv, PoolInv
  <2>2. /\ stack' \in Seq(Frames) /\ stack' # <<>> /\ Len(stack') = Len(stack)
        /\ bottom' = bottom
        /\ \A i \in 1..Len(stack') : stack'[i].pc = IF i = 1 THEN "close" ELSE stack[i].pc
        /\ StackInv' /\ WaitInv' /\ ExitInv'
    BY <1>1, <1>3, StopJump
  <2>3. TypeOK'
    BY <1>1, <1>3, <2>2 DEF Inv, TypeOK
  <2>4. FrameInv' /\ BegunInv'
    BY <1>1, <1>2, <1>3, <2>1, <2>2 DEF Inv, FrameInv, BegunInv
  <2>5. PoolInv' /\ SockInv'
    BY <1>1, <1>2, <1>3, <2>1, <2>2 DEF Inv, PoolInv, SockInv
  <2>6. CutInv'
    BY <1>1, <1>2, <2>2 DEF Inv, CutInv, CutOff
  <2> QED
    BY <2>2, <2>3, <2>4, <2>5, <2>6 DEF Inv
<1>4. CASE ~HeldBelow(queue_mutex_) /\ Pool!Close /\ Goto(AfterFlag, None)
  <2>1. /\ open /\ open' = FALSE
        /\ due' = {queue[i] : i \in DOMAIN queue} \cup running \cup finished
        /\ UNCHANGED <<queue, running, finished, stopped>>
    BY <1>4 DEF Pool!Close, Pool!Range
  <2>2. /\ stack' \in Seq(Frames) /\ stack' # <<>> /\ Len(stack') = Len(stack)
        /\ bottom' = bottom
        /\ \A i \in 1..Len(stack') : stack'[i].pc = IF i = 1 THEN "join" ELSE stack[i].pc
        /\ StackInv' /\ WaitInv' /\ ExitInv'
    BY <1>1, <1>4, StopJump DEF AfterFlag
  <2>3. TypeOK'
    <3>1. due' \subseteq Clients
      BY <2>1 DEF Inv, TypeOK
    <3>2. {running, finished, due, admitted, answered, connections_}' \subseteq SUBSET Clients
      BY <1>1, <2>1, <3>1 DEF Inv, TypeOK
    <3>3. {open, stopped, running_, listening}' \subseteq BOOLEAN
      BY <1>1, <2>1 DEF Inv, TypeOK
    <3> QED
      BY <1>1, <2>1, <2>2, <3>2, <3>3 DEF Inv, TypeOK
  <2>4. FrameInv' /\ BegunInv'
    BY <1>1, <1>2, <2>1, <2>2 DEF Inv, FrameInv, BegunInv
  <2>5. PoolInv'
    <3>1. bottom.pc # "push"
      BY <1>2, <1>4 DEF HeldBelow, queue_mutex_, bottom
    <3>2. ~stopped
      BY <2>1 DEF Inv, PoolInv
    <3> QED
      BY <1>1, <1>2, <2>1, <2>2, <3>1, <3>2 DEF Inv, PoolInv
  <2>6. SockInv'
    BY <1>1, <2>1, <2>2 DEF Inv, SockInv
  <2>7. CutInv'
    BY <1>1, <1>2, <2>2 DEF Inv, CutInv, CutOff
  <2> QED
    BY <2>2, <2>3, <2>4, <2>5, <2>6, <2>7 DEF Inv
<1> QED
  BY <1>3, <1>4 DEF PoolShutdown

\* The join returns when the pool is drained.
LEMMA JoinStep == Inv /\ PoolJoin => Inv'
<1> SUFFICES ASSUME Inv, PoolJoin PROVE Inv'
  OBVIOUS
<1> USE DEF StopPoints, Working, server, netVars, signals, pool, poolVars
<1>1. /\ At("join") /\ Goto("close", None)
      /\ UNCHANGED <<admitted, running_, connections_, listening, batch, sock, data, answered,
                     sent, exit, interrupted, queue, running, finished, open, due>>
      /\ ~open /\ running = {} /\ due \subseteq finished /\ stopped' = TRUE
  BY DEF PoolJoin, Pool!Stop
<1>2. /\ stack \in Seq(Frames) /\ Len(stack) \in Nat /\ Len(stack) >= 2
      /\ stack[1].pc = "join" /\ bottom # None /\ bottom.pc # "boot"
      /\ \A i \in 2..Len(stack) : stack[i].pc \notin Working
      /\ ~running_ /\ interrupted = bottom
  BY <1>1, StopFacts
<1>3. /\ stack' \in Seq(Frames) /\ stack' # <<>> /\ Len(stack') = Len(stack)
      /\ bottom' = bottom
      /\ \A i \in 1..Len(stack') : stack'[i].pc = IF i = 1 THEN "close" ELSE stack[i].pc
      /\ StackInv' /\ WaitInv' /\ ExitInv'
  BY <1>1, StopJump
<1>4. TypeOK'
  BY <1>1, <1>3 DEF Inv, TypeOK
<1>5. FrameInv' /\ BegunInv'
  BY <1>1, <1>2, <1>3 DEF Inv, FrameInv, BegunInv
<1>6. PoolInv' /\ SockInv'
  BY <1>1, <1>2, <1>3 DEF Inv, PoolInv, SockInv
<1>7. CutInv'
  BY <1>1, <1>2, <1>3 DEF Inv, CutInv, CutOff
<1> QED
  BY <1>3, <1>4, <1>5, <1>6, <1>7 DEF Inv

\* The connections are closed: what stays open was outside the table, and so
\* at one of two points of the loop.
LEMMA CloseAllStep == Inv /\ CloseAll => Inv'
<1> SUFFICES ASSUME Inv, CloseAll PROVE Inv'
  OBVIOUS
<1> USE DEF StopPoints, Working, server, netVars, signals, pool, poolVars
<1>1. /\ At("close") /\ Goto("health", None) /\ ~HeldBelow(connections_mutex_)
      /\ sock' = Cut /\ connections_' = {}
      /\ UNCHANGED <<admitted, running_, listening, batch, data, answered,
                     sent, exit, interrupted, queue, running, finished, open, due, stopped>>
  BY DEF CloseAll
<1>2. /\ stack \in Seq(Frames) /\ Len(stack) \in Nat /\ Len(stack) >= 2
      /\ stack[1].pc = "close" /\ bottom # None /\ bottom.pc # "boot"
      /\ bottom = Frame(bottom.pc, bottom.c)
      /\ \A i \in 2..Len(stack) : stack[i].pc \notin Working
      /\ ~running_ /\ interrupted = bottom
  BY <1>1, StopFacts
<1>3. stopped
  <2>1. 1 \in 1..Len(stack)
    BY <1>2
  <2> QED
    BY <1>2, <2>1 DEF Inv, FrameInv
<1>4. /\ stack' \in Seq(Frames) /\ stack' # <<>> /\ Len(stack') = Len(stack)
      /\ bottom' = bottom
      /\ \A i \in 1..Len(stack') : stack'[i].pc = IF i = 1 THEN "health" ELSE stack[i].pc
      /\ StackInv' /\ WaitInv' /\ ExitInv'
  BY <1>1, StopJump
<1>5. \A c \in Clients : sock'[c] = IF c \in connections_ THEN "cut" ELSE sock[c]
  BY <1>1 DEF Cut
<1>6. TypeOK'
  <2>1. sock' \in [Clients -> {"none", "pending", "open", "closed", "cut"}]
    BY <1>1 DEF Cut, Inv, TypeOK
  <2> QED
    BY <1>1, <1>4, <2>1 DEF Inv, TypeOK
<1>7. FrameInv' /\ BegunInv'
  BY <1>1, <1>2, <1>3, <1>4 DEF Inv, FrameInv, BegunInv
<1>8. PoolInv'
  BY <1>1, <1>2, <1>3, <1>4 DEF Inv, PoolInv
<1>9. SockInv'
  BY <1>1, <1>3, <1>4, <1>5 DEF Inv, SockInv, Accepting, ClientPoints
<1>10. CutInv'
  <2>1. bottom.pc \notin connections_mutex_
    BY <1>1, <1>2 DEF HeldBelow, bottom
  <2>2. ASSUME NEW c \in Clients, sock'[c] = "open"
        PROVE  \/ bottom = Frame("closing", c)
               \/ bottom = Frame("register", c) /\ \A e \in batch : e.c # c
    <3>1. sock[c] = "open" /\ c \notin connections_
      BY <1>5, <2>2
    <3>2. bottom.c = c /\ bottom.pc \in {"register", "closing"}
      BY <2>1, <3>1 DEF Inv, SockInv, Accepting, connections_mutex_
    <3>3. bottom.pc = "register" => \A e \in batch : e.c # c
      BY <3>2 DEF Inv, SockInv, Accepting
    <3> QED
      BY <1>2, <3>2, <3>3
  <2> QED
    BY <1>1, <1>2, <1>4, <2>1, <2>2 DEF CutInv, Frame
<1> QED
  BY <1>4, <1>6, <1>7, <1>8, <1>9, <1>10 DEF Inv

\* A handler returns: the frame below goes on, with no events if it was in
\* epoll_wait.
LEMMA ReturnStep ==
    ASSUME Inv, NEW p \in {"stop", "health"}, At(p), stack' = Returned,
           p = "stop" => ~running_ /\ listening' = listening, p = "health" => listening' = FALSE,
           UNCHANGED <<admitted, running_, connections_, batch, sock, data, answered,
                       sent, exit, interrupted, queue, running, finished, open, due, stopped>>
    PROVE  Inv'
<1> USE DEF StopPoints, Working
<1>1. /\ stack \in Seq(Frames) /\ Len(stack) \in Nat /\ Len(stack) >= 2 /\ exit = None
      /\ stack[1].pc = p
      /\ p = "health" => ~running_ /\ interrupted = bottom /\ bottom # None
  BY StopFacts
<1>2. ~running_
  BY <1>1
<1>0. PICK n \in Nat, m \in Nat : n = Len(stack) /\ n >= 2 /\ m = n - 1
  BY <1>1
<1>3. /\ stack' \in Seq(Frames) /\ stack' # <<>> /\ Len(stack') = m
      /\ stack'[1] = IF stack[2].pc = "wait" THEN Frame("batch", None) ELSE stack[2]
      /\ \A i \in 2..(n - 1) : stack'[i] = stack[i + 1]
  BY <1>0, <1>1, ReturnStack
<1>4. ASSUME NEW i \in 2..n
      PROVE  /\ i \in 1..n
             /\ stack[i].pc \in StopPoints <=> i # n
             /\ i # n => stack[i].pc # "wait"
  BY <1>0 DEF Inv, StackInv
<1>5. /\ n > 2 => bottom' = bottom
      /\ bottom.pc # "wait" => bottom' = bottom
      /\ bottom.pc = "wait" /\ n = 2 => bottom' = Frame("batch", None)
      /\ bottom' = bottom \/ (bottom' = Frame("batch", None) /\ bottom.pc = "wait")
  <2>4. bottom = stack[n] /\ bottom' = stack'[m]
    BY <1>0, <1>3 DEF bottom
  <2>1. CASE n = 2
    <3>1. m = 1
      BY <1>0, <2>1
    <3>2. bottom = stack[2] /\ bottom' = stack'[1]
      BY <2>1, <2>4, <3>1
    <3>3. ~(n > 2)
      BY <2>1
    <3> QED
      BY <1>3, <3>2, <3>3
  <2>2. CASE n > 2
    <3>1. n - 1 \in 2..(n - 1) /\ (n - 1) + 1 = n
      BY <1>0, <2>2
    <3> QED
      <4>1. bottom' = bottom
        BY <1>0, <1>3, <2>4, <3>1
      <4>2. n # 2
        BY <2>2
      <4> QED
        BY <4>1, <4>2
  <2>3. n = 2 \/ n > 2
    BY <1>0
  <2> QED
    BY <2>1, <2>2, <2>3
<1>6. \A i \in 1..m :
         /\ i + 1 \in 2..n
         /\ stack'[i] = stack[i + 1] \/ (i = m /\ stack'[i].pc = "batch")
         /\ i # m => stack'[i] = stack[i + 1]
  <2> SUFFICES ASSUME NEW i \in 1..m
               PROVE  /\ i + 1 \in 2..n
                      /\ stack'[i] = stack[i + 1] \/ (i = m /\ stack'[i].pc = "batch")
                      /\ i # m => stack'[i] = stack[i + 1]
    OBVIOUS
  <2>1. i + 1 \in 2..n
    BY <1>0, <1>1, <1>3
  <2>2. CASE i = 1
    <3>1. stack[2].pc = "wait" => n = 2 /\ stack'[1].pc = "batch"
      BY <1>0, <1>1, <1>3, <1>4 DEF Frame
    <3> QED
      BY <1>0, <1>1, <1>3, <2>1, <2>2, <3>1
  <2>3. CASE i # 1
    BY <1>0, <1>1, <1>3, <2>1, <2>3
  <2> QED
    BY <2>1, <2>2, <2>3
<1>7. \A i \in 1..m :
         /\ stack'[i].pc \in StopPoints => stack'[i] = stack[i + 1] /\ i # m
         /\ i # m => stack'[i].pc \in StopPoints
         /\ i # m => bottom' = bottom
  <2> SUFFICES ASSUME NEW i \in 1..m
               PROVE  /\ stack'[i].pc \in StopPoints => stack'[i] = stack[i + 1] /\ i # m
                      /\ i # m => stack'[i].pc \in StopPoints
                      /\ i # m => bottom' = bottom
    OBVIOUS
  <2>1. i + 1 \in 2..n /\ (i # m <=> i + 1 # n)
    BY <1>0, <1>1, <1>3, <1>6
  <2>2. stack[i + 1].pc \in StopPoints <=> i + 1 # n
    BY <1>4, <2>1
  <2>3. i # m => n > 2
    BY <1>0, <1>1, <1>3
  <2> QED
    BY <1>5, <1>6, <2>1, <2>2, <2>3
<1>8. StackInv'
  <2>1. Len(stack') <= 1 + Cardinality(sent')
    <3>1. sent \subseteq Signals /\ Cardinality(sent) \in Nat
      BY ShutdownAssumption, FS_Subset, FS_CardinalityType DEF Inv, TypeOK
    <3> QED
      BY <1>0, <1>1, <1>3, <3>1 DEF Inv, StackInv
  <2>2. ASSUME NEW i \in 1..m, NEW j \in 1..m,
               stack'[i].pc \in Working, j < i
        PROVE  stack'[j].pc = "stop"
    <3>1. /\ stack'[i] = stack[i + 1] /\ stack'[j] = stack[j + 1]
          /\ i + 1 \in 1..n /\ j + 1 \in 1..n /\ j + 1 < i + 1
      BY <1>0, <1>1, <1>3, <1>6, <1>7, <2>2
    <3> QED
      BY <1>0, <2>2, <3>1 DEF Inv, StackInv
  <2> QED
    BY <1>3, <1>7, <2>1, <2>2 DEF StackInv
<1>9. bottom'.pc = IF bottom.pc = "wait" /\ n = 2 THEN "batch" ELSE bottom.pc
  BY <1>0, <1>5 DEF Frame
<1>10. FrameInv'
  <2>1. ASSUME NEW i \in 1..m
        PROVE  /\ stack'[i].pc \in Working => ~running_'
               /\ stack'[i].pc \in Working \cup {"store"} /\ ~running_' => interrupted' = bottom'
               /\ stack'[i].pc = "join" => ~open'
               /\ stack'[i].pc \in {"close", "health"} => stopped'
               /\ bottom'.pc = "boot" => i = m \/ stack'[i].pc = "stop"
    <3>1. CASE i = m
      BY <1>7, <3>1
    <3>2. CASE i # m
      <4>1. i + 1 \in 1..n /\ stack'[i] = stack[i + 1] /\ bottom' = bottom
            /\ i + 1 # n
        BY <1>0, <1>1, <1>3, <1>6, <1>7, <3>2
      <4> QED
        BY <1>0, <4>1 DEF Inv, FrameInv
    <3> QED
      BY <3>1, <3>2
  <2>2. bottom'.pc = "boot" => ~running_' /\ interrupted' = None
    BY <1>9 DEF Inv, FrameInv
  <2> QED
    BY <1>3, <2>1, <2>2 DEF FrameInv
<1>11. WaitInv' /\ ExitInv'
  BY <1>0, <1>1, <1>3, <1>9 DEF WaitInv, ExitInv
<1>12. ASSUME p = "stop", NEW P \in SUBSET Working,
              \E i \in 1..n : stack[i].pc \in P
       PROVE  \E i \in 1..m : stack'[i].pc \in P
  <2>1. PICK i \in 1..n : stack[i].pc \in P
    BY <1>12
  <2>2. i \in 2..n /\ i # n
    <3>1. i # 1 /\ stack[i].pc \in StopPoints
      BY <1>1, <1>12, <2>1
    <3>2. i \in 2..n
      BY <1>0, <2>1, <3>1
    <3> QED
      BY <1>4, <3>1, <3>2
  <2>3. i - 1 \in 1..m /\ i - 1 # m /\ (i - 1) + 1 = i
    BY <1>0, <1>1, <1>3, <2>2
  <2>4. stack'[i - 1] = stack[i]
    BY <1>6, <2>3
  <2> QED
    BY <2>1, <2>3, <2>4
<1>13. p = "health" => stopped
  <2>1. 1 \in 1..n
    BY <1>0
  <2> QED
    BY <1>0, <1>1, <2>1 DEF Inv, FrameInv
<1>14. BegunInv'
  <2>1. p = "stop" /\ (\E i \in 1..n : stack[i].pc \in Working)
                        => \E i \in 1..m : stack'[i].pc \in Working
    BY <1>12
  <2>2. bottom'.pc # "boot" => bottom.pc # "boot"
    BY <1>9
  <2> QED
    BY <1>0, <1>2, <1>3, <1>13, <2>1, <2>2 DEF Inv, BegunInv
<1>15. PoolInv'
  <2>1. ~open => stopped \/ \E i \in 1..m : stack'[i].pc \in {"join"}
    <3>1. p = "stop" /\ (\E i \in 1..n : stack[i].pc \in {"join"})
                          => \E i \in 1..m : stack'[i].pc \in {"join"}
      BY <1>12
    <3> QED
      BY <1>0, <1>13, <3>1 DEF Inv, PoolInv
  <2>2. bottom'.pc \in {"locking", "push", "enqueue"} \/ bottom.pc = "enqueue" => bottom' = bottom
    BY <1>5, <1>9
  <2> QED
    BY <1>3, <2>1, <2>2 DEF Inv, PoolInv
<1>16. SockInv'
  <2>1. bottom' = bottom \/ (bottom' = Frame("batch", None) /\ bottom.pc = "wait")
    BY <1>5
  <2> QED
    BY <2>1, ShutdownAssumption DEF Inv, SockInv, ClientPoints, Accepting, Frame
<1>17. CutInv'
  <2>1. CutOff' => CutOff
    <3>1. p = "health" => CutOff
      BY <1>0, <1>1 DEF CutOff
    <3>2. p = "stop" /\ CutOff' => CutOff
      <4>1. ASSUME NEW i \in 1..m, stack'[i].pc = "health"
            PROVE  \E k \in 1..n : stack[k].pc = "health"
        BY <1>0, <1>1, <1>3, <1>6, <1>7, <4>1
      <4> QED
        BY <1>0, <1>3, <4>1 DEF CutOff
    <3> QED
      BY <3>1, <3>2
  <2>2. bottom' = bottom \/ (bottom' = Frame("batch", None) /\ bottom.pc = "wait")
    BY <1>5
  <2> QED
    BY <2>1, <2>2, ShutdownAssumption DEF Inv, CutInv, Frame
<1>18. TypeOK'
  <2>1. listening' \in BOOLEAN /\ Len(stack') <= 1 + Cardinality(Signals)
    <3>1. Cardinality(Signals) \in Nat
      BY FS_CardinalityType, ShutdownAssumption
    <3>2. n <= 1 + Cardinality(Signals)
      BY <1>0 DEF Inv, TypeOK
    <3>3. m <= 1 + Cardinality(Signals)
      BY <1>0, <3>1, <3>2
    <3>4. listening' \in BOOLEAN
      BY DEF Inv, TypeOK
    <3> QED
      BY <1>3, <3>3, <3>4
  <2> QED
    BY <1>3, <2>1 DEF Inv, TypeOK
<1> QED
  BY <1>8, <1>10, <1>11, <1>14, <1>15, <1>16, <1>17, <1>18 DEF Inv

LEMMA StopSteps == Inv /\ Stop => Inv'
<1> SUFFICES ASSUME Inv, Stop PROVE Inv'
  OBVIOUS
<1>1. CASE StopTest
  <2>1. CASE running_
    BY <1>1, <2>1, StopTestStep
  <2>2. CASE ~running_
    BY <1>1, <2>2, ReturnStep DEF StopTest, server, netVars, signals, pool, poolVars
  <2> QED
    BY <2>1, <2>2
<1>2. CASE StopEnd
  BY <1>2, ReturnStep DEF StopEnd, netVars, signals, pool, poolVars
<1> QED
  BY <1>1, <1>2, StoreStep, PoolShutdownStep, JoinStep, CloseAllStep DEF Stop

-----------------------------------------------------------------------------
(* Signals, workers and clients                                             *)

\* A signal: every frame is one place further down.
LEMMA SignalStep ==
    ASSUME Inv, NEW s \in Signals, Signal(s)
    PROVE  Inv'
<1> USE DEF StopPoints, Working
<1>1. /\ exit = None /\ s \notin sent /\ sent' = sent \cup {s}
      /\ stack' = <<Frame("stop", None)>> \o stack
      /\ UNCHANGED <<admitted, running_, connections_, listening, batch, sock, data, answered,
                     exit, interrupted, queue, running, finished, open, due, stopped>>
  BY DEF Signal, server, netVars, pool, poolVars
<1>2. stack \in Seq(Frames) /\ stack # <<>>
  BY DEF Inv, TypeOK
<1>3. PICK n \in Nat \ {0} : n = Len(stack)
  BY <1>2
<1>4. Frame("stop", None) \in Frames
  BY DEF Frame, Frames, Points
<1>5. /\ stack' \in Seq(Frames) /\ stack' # <<>> /\ Len(stack') = n + 1
      /\ stack'[1] = Frame("stop", None)
      /\ \A i \in 1..n : stack'[i + 1] = stack[i]
      /\ \A i \in 2..(n + 1) : stack'[i] = stack[i - 1]
  BY <1>1, <1>2, <1>3, <1>4, PushFrame
<1>6. bottom' = bottom
  <2>1. bottom' = stack'[n + 1] /\ bottom = stack[n] /\ n \in 1..n
    BY <1>3, <1>5 DEF bottom
  <2> QED
    BY <1>5, <2>1
<1>7. Len(stack') <= 1 + Cardinality(sent') /\ Len(stack') <= 1 + Cardinality(Signals)
  <2>1. IsFiniteSet(sent) /\ sent' \subseteq Signals
    BY <1>1, ShutdownAssumption, FS_Subset DEF Inv, TypeOK
  <2>2. Cardinality(sent') = Cardinality(sent) + 1 /\ Cardinality(sent) \in Nat
    BY <1>1, <2>1, FS_AddElement, FS_CardinalityType
  <2>3. Cardinality(sent') <= Cardinality(Signals) /\ Cardinality(Signals) \in Nat
    BY <2>1, ShutdownAssumption, FS_Subset, FS_CardinalityType
  <2>4. n <= 1 + Cardinality(sent)
    BY <1>3 DEF Inv, StackInv
  <2>5. n + 1 <= 1 + Cardinality(sent') /\ n + 1 <= 1 + Cardinality(Signals)
    BY <2>2, <2>3, <2>4
  <2> QED
    BY <1>5, <2>5
<1>8. \A i \in 1..(n + 1) :
         \/ i = 1 /\ stack'[i].pc = "stop" /\ i # n + 1
         \/ i # 1 /\ i - 1 \in 1..n /\ stack'[i] = stack[i - 1] /\ (i = n + 1 <=> i - 1 = n)
  BY <1>5 DEF Frame
<1>9. StackInv'
  <2>1. \A i \in 1..n : stack[i].pc \in StopPoints <=> i # n
    BY <1>3 DEF Inv, StackInv
  <2>2. ASSUME NEW i \in 1..(n + 1) PROVE stack'[i].pc \in StopPoints <=> i # n + 1
    BY <1>8, <2>1
  <2>3. ASSUME NEW i \in 1..(n + 1), NEW j \in 1..(n + 1), stack'[i].pc \in Working, j < i
        PROVE  stack'[j].pc = "stop"
    <3>1. CASE j = 1
      BY <1>8, <3>1
    <3>2. CASE j # 1
      <4>1. /\ i - 1 \in 1..n /\ j - 1 \in 1..n /\ j - 1 < i - 1
            /\ stack'[i] = stack[i - 1] /\ stack'[j] = stack[j - 1]
        BY <1>8, <2>3, <3>2
      <4> QED
        BY <1>3, <2>3, <4>1 DEF Inv, StackInv
    <3> QED
      BY <3>1, <3>2
  <2> QED
    BY <1>5, <1>7, <2>2, <2>3 DEF StackInv
<1>10. FrameInv'
  <2>1. ASSUME NEW i \in 1..(n + 1)
        PROVE  /\ stack'[i].pc \in Working => ~running_
               /\ stack'[i].pc \in Working \cup {"store"} /\ ~running_ => interrupted = bottom
               /\ stack'[i].pc = "join" => ~open
               /\ stack'[i].pc \in {"close", "health"} => stopped
               /\ bottom.pc = "boot" => i = n + 1 \/ stack'[i].pc = "stop"
    <3>1. CASE i = 1
      BY <1>8, <3>1
    <3>2. CASE i # 1
      <4>1. i - 1 \in 1..n /\ stack'[i] = stack[i - 1] /\ (i = n + 1 <=> i - 1 = n)
        BY <1>8, <3>2
      <4> QED
        BY <1>3, <4>1 DEF Inv, FrameInv
    <3> QED
      BY <3>1, <3>2
  <2> QED
    BY <1>1, <1>5, <1>6, <2>1 DEF Inv, FrameInv
<1>11. ASSUME NEW P \in SUBSET Working
       PROVE  (\E i \in 1..n : stack[i].pc \in P) <=> (\E i \in 1..(n + 1) : stack'[i].pc \in P)
  <2>1. ASSUME NEW i \in 1..n PROVE i + 1 \in 1..(n + 1) /\ stack'[i + 1] = stack[i]
    BY <1>5
  <2> QED
    BY <1>8, <2>1
<1>12. BegunInv'
  <2>1. (\E i \in 1..n : stack[i].pc \in Working) <=> \E i \in 1..(n + 1) : stack'[i].pc \in Working
    BY <1>11
  <2> QED
    BY <1>1, <1>3, <1>5, <1>6, <2>1 DEF Inv, BegunInv
<1>13. PoolInv'
  <2>1. (\E i \in 1..n : stack[i].pc \in {"join"})
           <=> \E i \in 1..(n + 1) : stack'[i].pc \in {"join"}
    BY <1>11
  <2> QED
    BY <1>1, <1>3, <1>5, <1>6, <2>1 DEF Inv, PoolInv
<1>14. SockInv'
  BY <1>1, <1>6 DEF Inv, SockInv
<1>15. CutInv'
  <2>1. (\E i \in 1..n : stack[i].pc \in {"health"})
           <=> \E i \in 1..(n + 1) : stack'[i].pc \in {"health"}
    BY <1>11
  <2>2. CutOff' <=> CutOff
    BY <1>1, <1>3, <1>5, <2>1 DEF CutOff
  <2> QED
    BY <1>1, <1>6, <2>2 DEF Inv, CutInv
<1>16. WaitInv' /\ ExitInv'
  <2>1. Len(stack') # 1
    BY <1>5
  <2> QED
    BY <1>1, <2>1 DEF WaitInv, ExitInv
<1>17. TypeOK'
  BY <1>1, <1>5, <1>7 DEF Inv, TypeOK
<1> QED
  BY <1>9, <1>10, <1>12, <1>13, <1>14, <1>15, <1>16, <1>17 DEF Inv

\* Steps outside the main thread leave its frames, the table and the flags alone.
LEMMA OutsideStep ==
    ASSUME Inv, TypeOK', PoolInv', SockInv', CutInv',
           UNCHANGED <<running_, connections_, listening, stack, sent, exit, interrupted, open,
                       stopped>>
    PROVE  Inv'
<1>1. UNCHANGED bottom
  BY DEF bottom
<1>2. StackInv' /\ FrameInv' /\ WaitInv' /\ BegunInv' /\ ExitInv'
  BY <1>1 DEF Inv, StackInv, FrameInv, WaitInv, BegunInv, ExitInv
<1> QED
  BY <1>2 DEF Inv

LEMMA WorkerSteps == Inv /\ Worker => Inv'
<1> SUFFICES ASSUME Inv, Worker PROVE Inv'
  OBVIOUS
<1> USE DEF server, signals, netVars, pool, poolVars
<1>1. UNCHANGED <<running_, connections_, listening, stack, batch, sock, data, answered, sent,
                  exit, interrupted, open, due, stopped>>
  BY DEF Worker, Take, Admit, Finish, Pool!Start, Pool!Finish
<1>2. UNCHANGED <<bottom, CutOff>>
  BY <1>1 DEF bottom, CutOff
<1>3. SockInv' /\ CutInv'
  BY <1>1, <1>2 DEF Inv, SockInv, CutInv
<1>4. CASE Take
  <2>1. /\ queue # <<>> /\ ~stopped /\ queue' = Tail(queue)
        /\ running' = running \cup {Head(queue)} /\ UNCHANGED <<finished, admitted>>
    BY <1>4 DEF Take, Pool!Start
  <2>2. queue \in Seq(Clients)
    BY DEF Inv, TypeOK
  <2>3. /\ queue' \in Seq(Clients) /\ Head(queue) = queue[1] /\ 1 \in DOMAIN queue
        /\ \A i \in DOMAIN queue' : i + 1 \in DOMAIN queue /\ queue'[i] = queue[i + 1]
    BY <2>1, <2>2
  <2>4. Head(queue) \in Clients
    BY <2>2, <2>3
  <2>5. TypeOK'
    BY <1>1, <2>1, <2>3, <2>4 DEF Inv, TypeOK
  <2>6. PoolInv'
    <3>1. running' \cup {queue'[i] : i \in DOMAIN queue'}
             \subseteq running \cup {queue[i] : i \in DOMAIN queue}
      BY <2>1, <2>3
    <3> QED
      BY <1>1, <1>2, <2>1, <3>1 DEF Inv, PoolInv
  <2> QED
    BY <1>1, <1>3, <2>5, <2>6, OutsideStep
<1>5. ASSUME NEW c \in Clients, Admit(c) \/ Finish(c) PROVE Inv'
  <2>1. /\ UNCHANGED queue /\ running' \subseteq running
        /\ finished \subseteq finished' /\ finished' \subseteq Clients
        /\ admitted' \subseteq Clients
    BY <1>5 DEF Admit, Finish, Pool!Finish, Inv, TypeOK
  <2>2. TypeOK'
    BY <1>1, <2>1 DEF Inv, TypeOK
  <2>3. PoolInv'
    BY <1>1, <1>2, <2>1 DEF Inv, PoolInv
  <2> QED
    BY <1>1, <1>3, <2>2, <2>3, OutsideStep
<1> QED
  BY <1>4, <1>5 DEF Worker

LEMMA ClientSteps ==
    ASSUME Inv, NEW c \in Clients, Connect(c) \/ SendRequest(c)
    PROVE  Inv'
<1> USE DEF server, signals, pool, poolVars
<1>1. /\ UNCHANGED <<running_, connections_, listening, stack, batch, answered, sent,
                     exit, interrupted, open, due, stopped, queue, running, finished, admitted>>
      /\ \/ UNCHANGED sock
         \/ sock[c] = "none" /\ sock' = [sock EXCEPT ![c] = "pending"]
      /\ data' \in [Clients -> {"none", "sent", "read"}]
  BY DEF Connect, SendRequest, Inv, TypeOK
<1>2. UNCHANGED <<bottom, CutOff>>
  BY <1>1 DEF bottom, CutOff
<1>3. /\ sock' \in [Clients -> {"none", "pending", "open", "closed", "cut"}]
      /\ \A a \in Clients : \/ sock'[a] = sock[a]
                            \/ sock[a] = "none" /\ sock'[a] = "pending"
  BY <1>1 DEF Inv, TypeOK
<1>4. TypeOK' /\ PoolInv'
  BY <1>1, <1>2, <1>3 DEF Inv, TypeOK, PoolInv
<1>5. SockInv'
  BY <1>1, <1>2, <1>3 DEF Inv, SockInv, ClientPoints
<1>6. CutInv'
  BY <1>1, <1>2, <1>3 DEF Inv, CutInv
<1> QED
  BY <1>1, <1>4, <1>5, <1>6, OutsideStep

LEMMA InitInv == Init => Inv
<1> SUFFICES ASSUME Init PROVE Inv
  OBVIOUS
<1> USE DEF Init, Pool!Init
<1>1. /\ stack = <<Frame("boot", None)>> /\ Frame("boot", None) \in Frames
  BY DEF Frame, Frames, Points
<1>2. stack \in Seq(Frames) /\ stack # <<>> /\ Len(stack) = 1 /\ stack[1].pc = "boot"
  BY <1>1 DEF Frame
<1>3. bottom.pc = "boot"
  BY <1>2 DEF bottom
<1>4. Cardinality(Signals) \in Nat /\ Cardinality(sent) = 0
  BY ShutdownAssumption, FS_CardinalityType, FS_EmptySet
<1>5. TypeOK
  <2>1. queue \in Seq(Clients)
    OBVIOUS
  <2>2. {running, finished, due, admitted, answered, connections_} \subseteq SUBSET Clients
    OBVIOUS
  <2>3. {open, stopped, running_, listening} \subseteq BOOLEAN
    OBVIOUS
  <2>4. Len(stack) <= 1 + Cardinality(Signals)
    BY <1>2, <1>4
  <2>5. /\ sock \in [Clients -> {"none", "pending", "open", "closed", "cut"}]
        /\ data \in [Clients -> {"none", "sent", "read"}]
    OBVIOUS
  <2> QED
    BY <1>2, <2>1, <2>2, <2>3, <2>4, <2>5 DEF TypeOK
<1>6. StackInv
  BY <1>2, <1>4 DEF StackInv, StopPoints, Working
<1>7. FrameInv /\ WaitInv /\ BegunInv /\ ExitInv
  BY <1>2, <1>3 DEF FrameInv, WaitInv, BegunInv, ExitInv, Working
<1>8. PoolInv /\ SockInv /\ CutInv
  BY <1>3 DEF PoolInv, SockInv, CutInv, CutOff, ClientPoints, Accepting
<1> QED
  BY <1>5, <1>6, <1>7, <1>8 DEF Inv

LEMMA NextInv == Inv /\ [Next]_vars => Inv'
<1> SUFFICES ASSUME Inv, [Next]_vars PROVE Inv'
  OBVIOUS
<1>1. CASE UNCHANGED vars
  <2>1. UNCHANGED <<bottom, CutOff>>
    BY <1>1 DEF vars, bottom, CutOff
  <2>2. TypeOK' /\ PoolInv' /\ SockInv' /\ CutInv'
    BY <1>1, <2>1 DEF vars, Inv, TypeOK, PoolInv, SockInv, CutInv
  <2> QED
    BY <1>1, <2>2, OutsideStep DEF vars
<1> QED
  BY <1>1, LoopSteps, StopSteps, WorkerSteps, SignalStep, ClientSteps DEF Next

LEMMA Invariance == Spec => []Inv
  BY InitInv, NextInv, PTL DEF Spec

-----------------------------------------------------------------------------
(* What a stop guarantees                                                   *)

\* Every variable keeps its type, however many signals interrupt each other; the
\* stack never holds more than the loop's frame and one per signal.
THEOREM TypeCorrect == Spec => []TypeOK
<1>1. Inv => TypeOK
  BY DEF Inv
<1> QED
  BY <1>1, Invariance, PTL

\* stop closes the connections only after the workers have processed every
\* request that was queued, at whatever point it interrupts the loop.
THEOREM Drained == Spec => []DrainedBeforeClose
<1>1. Inv => DrainedBeforeClose
  BY DEF Inv, SockInv, PoolInv, DrainedBeforeClose
<1> QED
  BY <1>1, Invariance, PTL

\* How a stopped process ends follows from where the stop found the loop.
THEOREM Ends == Spec => []EndsWell
<1>1. ASSUME Inv PROVE EndsWell
  <2> SUFFICES ASSUME exit # None, interrupted # None
               PROVE  /\ \A c \in Clients \ finished :
                            c \in running \cup {queue[i] : i \in DOMAIN queue}
                               => interrupted = Frame("locking", c)
                      /\ \A c \in Clients : sock[c] = "open" => interrupted = Frame("register", c)
                      /\ interrupted.pc \notin connections_mutex_ \cup queue_mutex_
                      /\ exit = 1 <=> interrupted.pc = "enqueue"
    BY DEF EndsWell
  <2>1. Len(stack) = 1 /\ stack[1] = bottom /\ bottom.pc \in {"boot", "test", "enqueue"}
    BY <1>1, ShutdownAssumption DEF Inv, TypeOK, ExitInv, bottom
  <2>2. ~running_ /\ bottom.pc # "boot"
    BY <1>1 DEF Inv, BegunInv, FrameInv
  <2>3. stopped /\ ~listening /\ CutOff
    BY <1>1, <2>1, <2>2 DEF Inv, BegunInv, CutOff, Working
  <2>4. ~open /\ due \subseteq finished
    BY <1>1, <2>3 DEF Inv, PoolInv
  <2>5. \A c \in Clients \ finished :
           c \in running \cup {queue[i] : i \in DOMAIN queue} => interrupted = Frame("locking", c)
    BY <1>1, <2>4 DEF Inv, PoolInv
  <2>6. \A c \in Clients : sock[c] = "open" => interrupted = Frame("register", c)
    BY <1>1, <2>1, <2>3 DEF Inv, CutInv, Frame
  <2>7. interrupted.pc \notin connections_mutex_ \cup queue_mutex_
    BY <1>1, <2>3, <2>4 DEF Inv, CutInv, PoolInv, queue_mutex_
  <2>8. exit = 1 <=> interrupted.pc = "enqueue"
    BY <1>1, <2>4, ShutdownAssumption DEF Inv, TypeOK, PoolInv, ExitInv
  <2> QED
    BY <2>5, <2>6, <2>7, <2>8
<1> QED
  BY <1>1, Invariance, PTL
=============================================================================
