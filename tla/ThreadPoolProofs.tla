-------------------------- MODULE ThreadPoolProofs --------------------------
(***************************************************************************)
(* Proofs about ThreadPool, for any number of workers, callers and tasks.  *)
(***************************************************************************)
EXTENDS ThreadPool, SequenceTheorems, TLAPS

-----------------------------------------------------------------------------
(* The inductive invariant                                                  *)

\* The worker that holds queue_mutex_ is the one inside the critical section.
MutexInv == \A w \in Workers : pc[w] \in {"predicate", "blocking"} <=> mutex = w

\* Between its test and its sleep a worker keeps the mutex, so what it found
\* still holds: no work, no shutdown.
BlockInv == \A w \in Workers : pc[w] = "blocking" => tasks_ = <<>> /\ ~shutdown_

\* A thread that runs or pushes a task has one.
HandInv ==
    /\ \A w \in Workers : pc[w] = "running" => task[w] \in Tasks
    /\ \A c \in Callers : pc[c] = "push" => task[c] \in Tasks

\* The flag is the owner's progress; what was accepted at the close stays accepted.
CloseInv ==
    /\ owner = "open" <=> ~shutdown_
    /\ atClose \subseteq Range(pushed)

\* A worker leaves only after everything accepted at the close was taken.
ExitInv ==
    /\ \A w \in Workers : pc[w] = "exited" => shutdown_ /\ atClose \subseteq Range(started)
    /\ owner = "joined" => \A w \in Workers : pc[w] = "exited"

Inv ==
    /\ TypeOK
    /\ MutexInv
    /\ BlockInv
    /\ HandInv
    /\ FifoExactlyOnce
    /\ CloseInv
    /\ ExitInv
    /\ NoLostWakeup

-----------------------------------------------------------------------------
(* Lemmas about sequences                                                   *)

\* Moving the head of q to the end of s leaves s \o q as it was.
LEMMA TakeHead ==
    ASSUME NEW S, NEW s \in Seq(S), NEW q \in Seq(S), q # <<>>
    PROVE  /\ Append(s, Head(q)) \o Tail(q) = s \o q
           /\ Head(q) \in S /\ Tail(q) \in Seq(S) /\ Append(s, Head(q)) \in Seq(S)
<1>1. Head(q) \in S /\ Tail(q) \in Seq(S)
  BY HeadTailProperties
<1>2. Append(s, Head(q)) = s \o <<Head(q)>>
  BY <1>1, AppendIsConcat
<1>3. <<Head(q)>> \o Tail(q) = q
  BY <1>1, HeadTailProperties
<1>4. (s \o <<Head(q)>>) \o Tail(q) = s \o (<<Head(q)>> \o Tail(q))
  BY <1>1, ConcatAssociative
<1>5. Append(s, Head(q)) \in Seq(S)
  BY <1>1, AppendProperties
<1> QED
  BY <1>1, <1>2, <1>3, <1>4, <1>5

\* Appending to q appends to s \o q.
LEMMA PushLast ==
    ASSUME NEW S, NEW s \in Seq(S), NEW q \in Seq(S), NEW e \in S
    PROVE  s \o Append(q, e) = Append(s \o q, e) /\ Append(q, e) \in Seq(S)
<1>1. Append(q, e) = q \o <<e>> /\ Append(s \o q, e) = (s \o q) \o <<e>>
  BY AppendIsConcat, ConcatProperties
<1>2. s \o (q \o <<e>>) = (s \o q) \o <<e>>
  BY ConcatAssociative
<1> QED
  BY <1>1, <1>2, AppendProperties

\* Append adds its element to the range and nothing else.
LEMMA RangeAppend ==
    ASSUME NEW S, NEW s \in Seq(S), NEW e \in S
    PROVE  Range(Append(s, e)) = Range(s) \cup {e}
<1>1. /\ DOMAIN s = 1..Len(s) /\ DOMAIN Append(s, e) = 1..(Len(s) + 1)
      /\ \A i \in 1..Len(s) : Append(s, e)[i] = s[i]
      /\ Append(s, e)[Len(s) + 1] = e
      /\ Len(s) \in Nat
  BY AppendProperties, LenProperties
<1> QED
  BY <1>1 DEF Range

-----------------------------------------------------------------------------
(* The invariant holds initially                                            *)

LEMMA InitInv == Init => Inv
<1> SUFFICES ASSUME Init PROVE Inv
  OBVIOUS
<1> USE PoolAssumption DEF Init
<1>1. <<>> \in Seq(Tasks) /\ Range(<<>>) = {} /\ <<>> \o <<>> = <<>>
  BY EmptySeq, ConcatEmptySeq DEF Range
<1>2. TypeOK
  BY <1>1 DEF TypeOK, Threads, WorkerPoints, CallerPoints, OwnerPoints
<1>3. Running = {} /\ Sleeping = {}
  BY DEF Running, Sleeping
<1>4. FifoExactlyOnce /\ NoLostWakeup
  BY <1>1, <1>3 DEF FifoExactlyOnce, NoLostWakeup
<1>5. MutexInv /\ BlockInv /\ HandInv /\ CloseInv /\ ExitInv
  BY DEF MutexInv, BlockInv, HandInv, CloseInv, ExitInv
<1> QED
  BY <1>2, <1>4, <1>5 DEF Inv

-----------------------------------------------------------------------------
(* Every step preserves it                                                  *)

LEMMA NextInv == Inv /\ [Next]_vars => Inv'
<1> SUFFICES ASSUME Inv, [Next]_vars PROVE Inv'
  OBVIOUS
<1> USE PoolAssumption DEF Inv, TypeOK, Threads, WorkerPoints, CallerPoints, OwnerPoints, history
<1>1. ASSUME NEW c \in Callers, NEW t \in Tasks, Enqueue(c, t) PROVE Inv'
  <2> USE <1>1 DEF Enqueue
  <2>1. TypeOK'
    <3>1. rejected' \subseteq Tasks
      OBVIOUS
    <3>2. /\ pc' \in [Threads -> WorkerPoints \cup CallerPoints]
          /\ task' \in [Threads -> Tasks \cup {Nobody}]
      <4>1. pc' = pc \/ pc' = [pc EXCEPT ![c] = "push"]
        OBVIOUS
      <4>2. task' = task \/ task' = [task EXCEPT ![c] = t]
        OBVIOUS
      <4> QED
        BY <4>1, <4>2
    <3>3. /\ \A w \in Workers : pc'[w] \in WorkerPoints
          /\ \A d \in Callers : pc'[d] \in CallerPoints
      OBVIOUS
    <3> QED
      BY <3>1, <3>2, <3>3
  <2>2. Running' = Running /\ Sleeping' = Sleeping
    <3>1. \A w \in Workers : pc'[w] = pc[w] /\ task'[w] = task[w]
      OBVIOUS
    <3> QED
      BY <3>1 DEF Running, Sleeping
  <2>3. FifoExactlyOnce'
    BY <2>2 DEF FifoExactlyOnce
  <2>4. NoLostWakeup'
    BY <2>2 DEF NoLostWakeup
  <2>5. MutexInv' /\ BlockInv' /\ HandInv' /\ CloseInv' /\ ExitInv'
    BY DEF MutexInv, BlockInv, HandInv, CloseInv, ExitInv
  <2> QED
    BY <2>1, <2>3, <2>4, <2>5
<1>2. ASSUME NEW c \in Callers, Push(c) PROVE Inv'
  <2> USE <1>2 DEF Push
  <2>1. task[c] \in Tasks
    BY DEF HandInv
  <2>2. /\ Append(tasks_, task[c]) \in Seq(Tasks) /\ Append(pushed, task[c]) \in Seq(Tasks)
        /\ started \o Append(tasks_, task[c]) = Append(started \o tasks_, task[c])
        /\ Range(Append(pushed, task[c])) = Range(pushed) \cup {task[c]}
    BY <2>1, PushLast, RangeAppend, AppendProperties
  <2>3. TypeOK'
    BY <2>2
  <2>4. Running' = Running /\ Sleeping' = Sleeping
    BY DEF Running, Sleeping
  <2>5. FifoExactlyOnce'
    BY <2>2, <2>4 DEF FifoExactlyOnce
  <2>6. NoLostWakeup'
    BY <2>4 DEF NoLostWakeup
  <2>7. BlockInv'
    BY DEF MutexInv, BlockInv
  <2>8. MutexInv' /\ HandInv' /\ CloseInv' /\ ExitInv'
    BY <2>2 DEF MutexInv, HandInv, CloseInv, ExitInv
  <2> QED
    BY <2>3, <2>5, <2>6, <2>7, <2>8
<1>3. ASSUME NEW c \in Callers, NotifyOne(c) PROVE Inv'
  <2> USE <1>3 DEF NotifyOne, NotifyTargets
  <2>1. TypeOK'
    BY DEF Sleeping
  <2>2. Running' = Running
    <3>1. \A w \in Workers : task'[w] = task[w] /\ (pc'[w] = "running" <=> pc[w] = "running")
      BY DEF Sleeping
    <3> QED
      BY <3>1 DEF Running
  <2>3. FifoExactlyOnce'
    BY <2>2 DEF FifoExactlyOnce
  <2>4. NoLostWakeup'
    BY DEF NoLostWakeup, Sleeping
  <2>5. MutexInv' /\ BlockInv' /\ HandInv' /\ CloseInv' /\ ExitInv'
    BY DEF MutexInv, BlockInv, HandInv, CloseInv, ExitInv, Sleeping
  <2> QED
    BY <2>1, <2>3, <2>4, <2>5
<1>4. ASSUME NEW w \in Workers, Acquire(w) \/ Unready(w) \/ SpuriousWakeup(w) PROVE Inv'
  <2> USE <1>4 DEF Acquire, Unready, Available, SpuriousWakeup
  <2>1. TypeOK'
    OBVIOUS
  <2>2. Running' = Running
    BY DEF Running
  <2>3. FifoExactlyOnce'
    BY <2>2 DEF FifoExactlyOnce
  <2>4. NoLostWakeup'
    BY DEF NoLostWakeup, Sleeping
  <2>5. MutexInv' /\ BlockInv' /\ HandInv' /\ CloseInv' /\ ExitInv'
    BY DEF MutexInv, BlockInv, HandInv, CloseInv, ExitInv
  <2> QED
    BY <2>1, <2>3, <2>4, <2>5
<1>5. ASSUME NEW w \in Workers, Block(w) PROVE Inv'
  <2> USE <1>5 DEF Block
  <2>1. TypeOK'
    OBVIOUS
  <2>2. Running' = Running
    BY DEF Running
  <2>3. FifoExactlyOnce'
    BY <2>2 DEF FifoExactlyOnce
  <2>4. NoLostWakeup'
    BY DEF NoLostWakeup, BlockInv
  <2>5. MutexInv' /\ BlockInv' /\ HandInv' /\ CloseInv' /\ ExitInv'
    BY DEF MutexInv, BlockInv, HandInv, CloseInv, ExitInv
  <2> QED
    BY <2>1, <2>3, <2>4, <2>5
<1>6. ASSUME NEW w \in Workers, Exit(w) PROVE Inv'
  <2> USE <1>6 DEF Exit, MayExit
  <2>1. TypeOK'
    OBVIOUS
  <2>2. Running' = Running
    BY DEF Running
  <2>3. FifoExactlyOnce'
    BY <2>2 DEF FifoExactlyOnce
  <2>4. NoLostWakeup'
    BY DEF NoLostWakeup, Sleeping
  <2>5. started = pushed
    BY ConcatEmptySeq DEF FifoExactlyOnce
  <2>6. ExitInv'
    BY <2>5 DEF ExitInv, CloseInv
  <2>7. MutexInv' /\ BlockInv' /\ HandInv' /\ CloseInv'
    BY DEF MutexInv, BlockInv, HandInv, CloseInv
  <2> QED
    BY <2>1, <2>3, <2>4, <2>6, <2>7
<1>7. ASSUME NEW w \in Workers, Take(w) PROVE Inv'
  <2> USE <1>7 DEF Take, Available, Oldest, Popped
  <2>1. /\ Head(tasks_) \in Tasks /\ Tail(tasks_) \in Seq(Tasks)
        /\ Append(started, Head(tasks_)) \in Seq(Tasks)
        /\ Append(started, Head(tasks_)) \o Tail(tasks_) = started \o tasks_
        /\ Range(Append(started, Head(tasks_))) = Range(started) \cup {Head(tasks_)}
    BY TakeHead, RangeAppend
  <2>2. TypeOK'
    BY <2>1
  <2>3. Running' = Running \cup {Head(tasks_)}
    BY DEF Running
  <2>4. FifoExactlyOnce'
    BY <2>1, <2>3 DEF FifoExactlyOnce
  <2>5. NoLostWakeup'
    BY DEF NoLostWakeup, Sleeping
  <2>6. BlockInv'
    BY DEF MutexInv, BlockInv
  <2>7. MutexInv' /\ HandInv' /\ CloseInv' /\ ExitInv'
    BY <2>1 DEF MutexInv, HandInv, CloseInv, ExitInv
  <2> QED
    BY <2>2, <2>4, <2>5, <2>6, <2>7
<1>8. ASSUME NEW w \in Workers, Run(w) PROVE Inv'
  <2> USE <1>8 DEF Run
  <2>1. TypeOK'
    BY DEF HandInv
  <2>2. done' \cup Running' = done \cup Running
    BY DEF Running
  <2>3. FifoExactlyOnce'
    BY <2>2 DEF FifoExactlyOnce
  <2>4. NoLostWakeup'
    BY DEF NoLostWakeup, Sleeping
  <2>5. MutexInv' /\ BlockInv' /\ HandInv' /\ CloseInv' /\ ExitInv'
    BY DEF MutexInv, BlockInv, HandInv, CloseInv, ExitInv
  <2> QED
    BY <2>1, <2>3, <2>4, <2>5
<1>9. ASSUME SetShutdown PROVE Inv'
  <2> USE <1>9 DEF SetShutdown, ShutdownLock
  <2>1. TypeOK'
    BY RangeOfSeq
  <2>2. Running' = Running /\ Sleeping' = Sleeping
    BY DEF Running, Sleeping
  <2>3. FifoExactlyOnce'
    BY <2>2 DEF FifoExactlyOnce
  <2>4. NoLostWakeup'
    BY DEF NoLostWakeup
  <2>5. BlockInv'
    BY DEF MutexInv, BlockInv
  <2>6. MutexInv' /\ HandInv' /\ CloseInv' /\ ExitInv'
    BY DEF MutexInv, HandInv, CloseInv, ExitInv
  <2> QED
    BY <2>1, <2>3, <2>4, <2>5, <2>6
<1>10. ASSUME NotifyAll PROVE Inv'
  <2> USE <1>10 DEF NotifyAll, NotifyAllTargets, Sleeping
  <2>1. TypeOK'
    OBVIOUS
  <2>2. Running' = Running
    BY DEF Running
  <2>3. FifoExactlyOnce'
    BY <2>2 DEF FifoExactlyOnce
  <2>4. Sleeping' = {}
    OBVIOUS
  <2>5. NoLostWakeup'
    BY <2>4 DEF NoLostWakeup
  <2>6. MutexInv' /\ BlockInv' /\ HandInv' /\ CloseInv' /\ ExitInv'
    BY DEF MutexInv, BlockInv, HandInv, CloseInv, ExitInv
  <2> QED
    BY <2>1, <2>3, <2>5, <2>6
<1>11. ASSUME Join PROVE Inv'
  <2> USE <1>11 DEF Join
  <2>1. TypeOK'
    OBVIOUS
  <2>2. Running' = Running /\ Sleeping' = Sleeping
    BY DEF Running, Sleeping
  <2>3. FifoExactlyOnce' /\ NoLostWakeup'
    BY <2>2 DEF FifoExactlyOnce, NoLostWakeup
  <2>4. MutexInv' /\ BlockInv' /\ HandInv' /\ CloseInv' /\ ExitInv'
    BY DEF MutexInv, BlockInv, HandInv, CloseInv, ExitInv
  <2> QED
    BY <2>1, <2>3, <2>4
<1>12. CASE UNCHANGED vars
  <2> USE <1>12 DEF vars
  <2>1. Running' = Running /\ Sleeping' = Sleeping
    BY DEF Running, Sleeping
  <2> QED
    BY <2>1 DEF FifoExactlyOnce, NoLostWakeup, MutexInv, BlockInv, HandInv, CloseInv, ExitInv
<1> QED
  BY <1>1, <1>2, <1>3, <1>4, <1>5, <1>6, <1>7, <1>8, <1>9, <1>10, <1>11, <1>12
     DEF Next, CallerStep, WorkerStep, OwnerStep

\* The invariant holds in every reachable state of the pool.
LEMMA Invariance == Spec => []Inv
  BY InitInv, NextInv, PTL DEF Spec

-----------------------------------------------------------------------------
(* Theorems                                                                 *)

\* Type correctness of the pool.
THEOREM TypeCorrect == Spec => []TypeOK
<1>1. Inv => TypeOK
  BY DEF Inv
<1> QED
  BY <1>1, Invariance, PTL

\* enqueue and worker_loop: whatever is pushed is taken exactly once, in
\* order, and is then either running or done.
THEOREM Fifo == Spec => []FifoExactlyOnce
<1>1. Inv => FifoExactlyOnce
  BY DEF Inv
<1> QED
  BY <1>1, Invariance, PTL

\* No interleaving of enqueue, shutdown and condition_.wait leaves a worker
\* asleep that has work to do or should leave.
THEOREM WakeupsAreNotLost == Spec => []NoLostWakeup
<1>1. Inv => NoLostWakeup
  BY DEF Inv
<1> QED
  BY <1>1, Invariance, PTL

\* When shutdown returns, every task accepted before it has been executed.
THEOREM ShutdownDrains == Spec => []GracefulDrain
<1>1. Inv => GracefulDrain
  <2> SUFFICES ASSUME Inv, owner = "joined" PROVE atClose \subseteq done
    BY DEF GracefulDrain
  <2>1. \A w \in Workers : pc[w] = "exited"
    BY DEF Inv, ExitInv
  <2>2. atClose \subseteq Range(started)
    BY <2>1, PoolAssumption DEF Inv, ExitInv
  <2>3. Running = {}
    BY <2>1 DEF Running
  <2> QED
    BY <2>2, <2>3 DEF Inv, FifoExactlyOnce
<1> QED
  BY <1>1, Invariance, PTL
-----------------------------------------------------------------------------
(* Refinement.  The mapping forgets which worker runs a task, so a step     *)
(* that ends a task removes it from the abstract set only if no other       *)
(* worker runs the same one: tasks must be shown to be unique.              *)

UniqueInv ==
    /\ \A i, j \in 1..Len(pushed) : pushed[i] = pushed[j] => i = j
    /\ \A c \in Callers : pc[c] = "push" => task[c] \notin Range(pushed)
    /\ \A c, d \in Callers :
          pc[c] = "push" /\ pc[d] = "push" /\ task[c] = task[d] => c = d
    /\ \A w \in Workers : pc[w] = "running" => task[w] \notin done
    /\ \A v, w \in Workers :
          pc[v] = "running" /\ pc[w] = "running" /\ task[v] = task[w] => v = w

\* The head of the queue has not been taken before.
LEMMA HeadIsNew ==
    ASSUME Inv, UniqueInv, tasks_ # <<>>
    PROVE  Head(tasks_) \notin Range(started)
<1> USE DEF Inv, TypeOK
<1>1. /\ Len(pushed) = Len(started) + Len(tasks_)
      /\ \A i \in 1..Len(pushed) :
            pushed[i] = IF i <= Len(started) THEN started[i] ELSE tasks_[i - Len(started)]
  BY ConcatProperties DEF FifoExactlyOnce
<1>2. Len(started) \in Nat /\ Len(tasks_) \in Nat /\ Len(tasks_) > 0 /\ Head(tasks_) = tasks_[1]
  BY LenProperties, EmptySeq
<1>3. pushed[Len(started) + 1] = Head(tasks_)
  BY <1>1, <1>2
<1>4. \A i \in 1..Len(started) : started[i] # Head(tasks_)
  BY <1>1, <1>2, <1>3 DEF UniqueInv
<1> QED
  BY <1>4, RangeEquality

LEMMA UniqueInit == Init => UniqueInv
  BY PoolAssumption DEF Init, UniqueInv

LEMMA UniqueNext == Inv /\ UniqueInv /\ [Next]_vars => UniqueInv'
<1> SUFFICES ASSUME Inv, UniqueInv, [Next]_vars PROVE UniqueInv'
  OBVIOUS
<1> USE PoolAssumption DEF Inv, TypeOK, Threads, WorkerPoints, CallerPoints, history
<1>1. ASSUME NEW c \in Callers, NEW t \in Tasks, Enqueue(c, t) PROVE UniqueInv'
  <2> USE <1>1 DEF Enqueue
  <2>1. t \notin Range(pushed) /\ \A d \in Callers : task[d] # t
    BY DEF Fresh
  <2>2. \A w \in Workers : pc'[w] = pc[w] /\ task'[w] = task[w]
    OBVIOUS
  <2>3. \A d \in Callers :
           \/ pc'[d] = pc[d] /\ task'[d] = task[d]
           \/ d = c /\ task'[d] = t
    OBVIOUS
  <2>4. \A d \in Callers : pc'[d] = "push" => task'[d] \notin Range(pushed')
    BY <2>1, <2>3 DEF UniqueInv
  <2>5. \A d, e \in Callers :
          pc'[d] = "push" /\ pc'[e] = "push" /\ task'[d] = task'[e] => d = e
    BY <2>1, <2>3 DEF UniqueInv
  <2> QED
    BY <2>2, <2>4, <2>5 DEF UniqueInv
<1>2. ASSUME NEW c \in Callers, Push(c) PROVE UniqueInv'
  <2> USE <1>2 DEF Push
  <2>1. task[c] \in Tasks /\ task[c] \notin Range(pushed)
    BY DEF HandInv, UniqueInv
  <2>2. /\ Len(pushed') = Len(pushed) + 1 /\ Len(pushed) \in Nat
        /\ \A i \in 1..Len(pushed) : pushed'[i] = pushed[i]
        /\ pushed'[Len(pushed) + 1] = task[c]
    BY <2>1, AppendProperties, LenProperties
  <2>3. \A i \in 1..Len(pushed) : pushed[i] # task[c]
    BY <2>1, RangeEquality
  <2>4. \A i, j \in 1..Len(pushed') : pushed'[i] = pushed'[j] => i = j
    BY <2>2, <2>3 DEF UniqueInv
  <2>5. Range(pushed') = Range(pushed) \cup {task[c]}
    BY <2>1, RangeAppend
  <2>6. \A d \in Callers : pc'[d] = "push" => task'[d] \notin Range(pushed')
    BY <2>5 DEF UniqueInv
  <2> QED
    BY <2>4, <2>6 DEF UniqueInv
<1>3. ASSUME NEW c \in Callers, NotifyOne(c) PROVE UniqueInv'
  BY <1>3 DEF NotifyOne, NotifyTargets, Sleeping, UniqueInv
<1>4. ASSUME NEW w \in Workers,
             Acquire(w) \/ Unready(w) \/ SpuriousWakeup(w) \/ Block(w) \/ Exit(w)
      PROVE  UniqueInv'
  BY <1>4 DEF Acquire, Unready, Available, SpuriousWakeup, Block, Exit, UniqueInv
<1>5. ASSUME NEW w \in Workers, Take(w) PROVE UniqueInv'
  <2> USE <1>5 DEF Take, Available, Oldest
  <2>1. Head(tasks_) \notin Range(started)
    BY HeadIsNew
  <2>2. /\ Head(tasks_) \notin done
        /\ \A v \in Workers : pc[v] = "running" => task[v] # Head(tasks_)
    BY <2>1 DEF FifoExactlyOnce, Running
  <2> QED
    BY <2>2 DEF UniqueInv
<1>6. ASSUME NEW w \in Workers, Run(w) PROVE UniqueInv'
  BY <1>6 DEF Run, UniqueInv
<1>7. CASE SetShutdown \/ Join \/ UNCHANGED vars
  BY <1>7 DEF SetShutdown, Join, vars, UniqueInv
<1>8. CASE NotifyAll
  BY <1>8 DEF NotifyAll, NotifyAllTargets, Sleeping, UniqueInv
<1> QED
  BY <1>1, <1>2, <1>3, <1>4, <1>5, <1>6, <1>7, <1>8
     DEF Next, CallerStep, WorkerStep, OwnerStep

\* Each step of the pool is a step of TaskPool or leaves its state alone.
LEMMA StepRefines ==
    Inv /\ UniqueInv /\ [Next]_vars => [Abstract!Next]_(Abstract!poolVars)
<1> SUFFICES ASSUME Inv, UniqueInv, [Next]_vars PROVE [Abstract!Next]_(Abstract!poolVars)
  OBVIOUS
<1> USE PoolAssumption DEF Inv, TypeOK, Threads, WorkerPoints, CallerPoints, history
<1>1. ASSUME NEW c \in Callers, NEW t \in Tasks, Enqueue(c, t)
      PROVE  UNCHANGED Abstract!poolVars
  <2>1. \A w \in Workers : pc'[w] = pc[w] /\ task'[w] = task[w]
    BY <1>1 DEF Enqueue
  <2>2. Running' = Running
    BY <2>1 DEF Running
  <2> QED
    BY <1>1, <2>2 DEF Enqueue, Abstract!poolVars
<1>2. ASSUME NEW c \in Callers, Push(c) PROVE Abstract!Next
  <2>1. Running' = Running
    BY <1>2 DEF Push, Running
  <2>2. task[c] \in Tasks
    BY <1>2 DEF Push, HandInv
  <2>3. Abstract!Accept(task[c])
    BY <1>2, <2>1 DEF Push, Abstract!Accept
  <2> QED
    BY <2>2, <2>3 DEF Abstract!Next
<1>3. ASSUME NEW c \in Callers, NotifyOne(c) PROVE UNCHANGED Abstract!poolVars
  <2>1. \A w \in Workers : task'[w] = task[w] /\ (pc'[w] = "running" <=> pc[w] = "running")
    BY <1>3 DEF NotifyOne, NotifyTargets, Sleeping
  <2>2. Running' = Running
    BY <2>1 DEF Running
  <2> QED
    BY <1>3, <2>2 DEF NotifyOne, Abstract!poolVars
<1>4. ASSUME NEW w \in Workers,
             Acquire(w) \/ Unready(w) \/ SpuriousWakeup(w) \/ Block(w) \/ Exit(w)
      PROVE  UNCHANGED Abstract!poolVars
  <2> USE <1>4 DEF Acquire, Unready, Available, SpuriousWakeup, Block, Exit
  <2>1. Running' = Running
    BY DEF Running
  <2> QED
    BY <2>1 DEF Abstract!poolVars
<1>5. ASSUME NEW w \in Workers, Take(w) PROVE Abstract!Next
  <2>1. Running' = Running \cup {Head(tasks_)}
    BY <1>5 DEF Take, Available, Oldest, Running
  <2>2. owner # "joined"
    BY <1>5 DEF Take, ExitInv
  <2>3. Abstract!Start
    BY <1>5, <2>1, <2>2 DEF Take, Available, Oldest, Popped, Abstract!Start
  <2> QED
    BY <2>3 DEF Abstract!Next
<1>6. ASSUME NEW w \in Workers, Run(w) PROVE Abstract!Next
  <2>1. task[w] \in Tasks /\ task[w] \in Running
    BY <1>6 DEF Run, HandInv, Running
  <2>2. Running' = Running \ {task[w]}
    BY <1>6 DEF Run, Running, UniqueInv
  <2>3. Abstract!Finish(task[w])
    BY <1>6, <2>1, <2>2 DEF Run, Abstract!Finish
  <2> QED
    BY <2>1, <2>3 DEF Abstract!Next
<1>7. ASSUME SetShutdown PROVE Abstract!Next
  <2>1. Running' = Running
    BY <1>7 DEF SetShutdown, Running
  <2>2. Range(pushed) = Abstract!Range(tasks_) \cup Running \cup done
    <3>1. Range(started \o tasks_) = Range(started) \cup Range(tasks_)
      BY RangeConcatenation
    <3>2. Range(tasks_) = Abstract!Range(tasks_)
      BY DEF Range, Abstract!Range
    <3> QED
      BY <3>1, <3>2 DEF FifoExactlyOnce
  <2>3. ~shutdown_
    BY <1>7 DEF SetShutdown, CloseInv
  <2>4. Abstract!Close
    BY <1>7, <2>1, <2>2, <2>3 DEF SetShutdown, Abstract!Close
  <2> QED
    BY <2>4 DEF Abstract!Next
<1>8. ASSUME NotifyAll PROVE UNCHANGED Abstract!poolVars
  <2> USE <1>8 DEF NotifyAll, NotifyAllTargets, Sleeping
  <2>1. Running' = Running
    <3>1. \A w \in Workers : task'[w] = task[w] /\ (pc'[w] = "running" <=> pc[w] = "running")
      OBVIOUS
    <3> QED
      BY <3>1 DEF Running
  <2> QED
    BY <2>1 DEF Abstract!poolVars
<1>9. ASSUME Join PROVE Abstract!Next
  <2>1. Running = {} /\ Running' = {}
    BY <1>9 DEF Join, Running
  <2>2. atClose \subseteq done
    BY <1>9, <2>1 DEF Join, ExitInv, FifoExactlyOnce
  <2>3. shutdown_
    BY <1>9 DEF Join, CloseInv
  <2>4. Abstract!Stop
    BY <1>9, <2>1, <2>2, <2>3 DEF Join, Abstract!Stop
  <2> QED
    BY <2>4 DEF Abstract!Next
<1>10. CASE UNCHANGED vars
  <2>1. Running' = Running
    BY <1>10 DEF vars, Running
  <2> QED
    BY <1>10, <2>1 DEF vars, Abstract!poolVars
<1> QED
  BY <1>1, <1>2, <1>3, <1>4, <1>5, <1>6, <1>7, <1>8, <1>9, <1>10
     DEF Next, CallerStep, WorkerStep, OwnerStep

\* thread_pool.cpp implements TaskPool, the promise its callers rely on.
THEOREM PoolImplementsTaskPool == Spec => ImplementsTaskPool
<1>1. Init => Abstract!Init
  <2>1. ASSUME Init PROVE Running = {}
    BY <2>1, PoolAssumption DEF Init, Running
  <2> QED
    BY <2>1 DEF Init, Abstract!Init
<1>2. Spec => []UniqueInv
  BY UniqueInit, UniqueNext, Invariance, PTL DEF Spec
<1>3. Spec => Abstract!Spec
  BY <1>1, <1>2, StepRefines, Invariance, PTL DEF Spec, Abstract!Spec
<1> QED
  BY <1>3 DEF ImplementsTaskPool
=============================================================================
