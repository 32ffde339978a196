----------------------------- MODULE ThreadPool -----------------------------
(***************************************************************************)
(* The worker pool of src/core/thread_pool.cpp: a FIFO of tasks protected  *)
(* by queue_mutex_, a condition variable on which idle workers sleep, and  *)
(* an atomic shutdown_ flag that enqueue() reads without the mutex.        *)
(*                                                                         *)
(* The threads are the Workers (worker_loop), the Callers of enqueue and   *)
(* one Owner, which calls shutdown.  A critical section whose body is a    *)
(* single assignment (push, store) is one action guarded by the mutex      *)
(* being free; a worker's predicate test and its going to sleep are two    *)
(* actions, because the mutex held between them is what keeps a wakeup     *)
(* from being lost.  The second shutdown() of the destructor finds         *)
(* shutdown_ set, does nothing, and has no action.                         *)
(***************************************************************************)
EXTENDS Naturals, Sequences, Functions

CONSTANTS Workers,   \* threads that run worker_loop
          Callers,   \* threads that call enqueue
          Tasks,     \* the closures submitted; each is submitted once
          Nobody     \* a free mutex, an absent task

ASSUME PoolAssumption ==
    /\ Nobody \notin Workers
    /\ Nobody \notin Tasks
    /\ Workers # {}   \* the constructor starts at least one thread
    /\ Workers \cap Callers = {}

VARIABLES
    tasks_,      \* the queue
    shutdown_,   \* the atomic flag
    mutex,       \* the worker that holds queue_mutex_ between two actions
    pc,          \* control point of every worker and caller
    task,        \* local variable `task` of a worker or argument of a caller
    owner,       \* control point of the thread that calls shutdown
    pushed,      \* history: tasks accepted, in order of their push
    started,     \* history: tasks taken from the queue, in order
    done,        \* history: tasks whose execution ended
    rejected,    \* history: tasks for which enqueue threw
    atClose      \* history: tasks accepted when shutdown_ was stored

vars == <<tasks_, shutdown_, mutex, pc, task, owner,
          pushed, started, done, rejected, atClose>>
history == <<pushed, started, done, rejected, atClose>>

WorkerPoints == {"acquire", "predicate", "blocking", "sleeping", "running", "exited"}
CallerPoints == {"idle", "push", "notify"}
OwnerPoints  == {"open", "notify_all", "joining", "joined"}

Init ==
    /\ tasks_ = <<>>
    /\ shutdown_ = FALSE
    /\ mutex = Nobody
    /\ pc = [p \in Workers \cup Callers |-> IF p \in Workers THEN "acquire" ELSE "idle"]
    /\ task = [p \in Workers \cup Callers |-> Nobody]
    /\ owner = "open"
    /\ pushed = <<>>
    /\ started = <<>>
    /\ done = {}
    /\ rejected = {}
    /\ atClose = {}

-----------------------------------------------------------------------------
(* enqueue                                                                  *)

\* A task no caller has submitted yet.
Fresh(t) ==
    /\ t \notin Range(pushed) \cup rejected
    /\ \A c \in Callers : task[c] # t

\* The unlocked test of shutdown_ that opens enqueue: throw, or go on to push.
Enqueue(c, t) ==
    /\ pc[c] = "idle"
    /\ Fresh(t)
    /\ \/ /\ shutdown_
          /\ rejected' = rejected \cup {t}
          /\ UNCHANGED <<pc, task>>
       \/ /\ ~shutdown_
          /\ pc' = [pc EXCEPT ![c] = "push"]
          /\ task' = [task EXCEPT ![c] = t]
          /\ UNCHANGED rejected
    /\ UNCHANGED <<tasks_, shutdown_, mutex, owner, pushed, started, done, atClose>>

Push(c) ==
    /\ pc[c] = "push"
    /\ mutex = Nobody
    /\ tasks_' = Append(tasks_, task[c])
    /\ pushed' = Append(pushed, task[c])
    /\ pc' = [pc EXCEPT ![c] = "notify"]
    /\ task' = [task EXCEPT ![c] = Nobody]
    /\ UNCHANGED <<shutdown_, mutex, owner, started, done, rejected, atClose>>

Sleeping == {w \in Workers : pc[w] = "sleeping"}

\* Mutant of NotifyTargets: enqueue does not notify.
NoTargets == {}

\* The sleepers a notify_one may pick from.
NotifyTargets == Sleeping

\* notify_one: some sleeper, if there is one, goes back to compete for the
\* mutex and test its predicate again.
NotifyOne(c) ==
    /\ pc[c] = "notify"
    /\ \/ /\ NotifyTargets = {}
          /\ pc' = [pc EXCEPT ![c] = "idle"]
       \/ \E w \in NotifyTargets : pc' = [pc EXCEPT ![c] = "idle", ![w] = "acquire"]
    /\ UNCHANGED <<tasks_, shutdown_, mutex, task, owner, history>>

-----------------------------------------------------------------------------
(* worker_loop                                                              *)

Acquire(w) ==
    /\ pc[w] = "acquire"
    /\ mutex = Nobody
    /\ mutex' = w
    /\ pc' = [pc EXCEPT ![w] = "predicate"]
    /\ UNCHANGED <<tasks_, shutdown_, task, owner, history>>

\* Mutant of Available: tasks_.size() >= 0 is tested instead of !tasks_.empty().
AvailableOffByOne == Len(tasks_) >= 0

\* !tasks_.empty(), in the predicate of condition_.wait and before front().
Available == tasks_ # <<>>

\* The predicate of condition_.wait is false.
Unready(w) ==
    /\ pc[w] = "predicate"
    /\ ~shutdown_ /\ ~Available
    /\ pc' = [pc EXCEPT ![w] = "blocking"]
    /\ UNCHANGED <<tasks_, shutdown_, mutex, task, owner, history>>

\* condition_.wait releases the mutex and sleeps in one atomic step.
Block(w) ==
    /\ pc[w] = "blocking"
    /\ mutex' = Nobody
    /\ pc' = [pc EXCEPT ![w] = "sleeping"]
    /\ UNCHANGED <<tasks_, shutdown_, task, owner, history>>

\* The library may wake a sleeper that nobody notified.
SpuriousWakeup(w) ==
    /\ pc[w] = "sleeping"
    /\ pc' = [pc EXCEPT ![w] = "acquire"]
    /\ UNCHANGED <<tasks_, shutdown_, mutex, task, owner, history>>

\* Mutant of MayExit: leave on the flag alone, whatever is still queued.
MayExitOnFlag == shutdown_

\* The condition under which a worker leaves its loop.
MayExit == shutdown_ /\ tasks_ = <<>>

Exit(w) ==
    /\ pc[w] = "predicate"
    /\ MayExit
    /\ mutex' = Nobody
    /\ pc' = [pc EXCEPT ![w] = "exited"]
    /\ UNCHANGED <<tasks_, shutdown_, task, owner, history>>

\* Mutant of Popped: the front is moved out but not popped.
NotPopped == tasks_

\* front() and pop(); an empty queue has no task to give.
Oldest == IF tasks_ = <<>> THEN Nobody ELSE Head(tasks_)
Popped == IF tasks_ = <<>> THEN <<>> ELSE Tail(tasks_)

Take(w) ==
    /\ pc[w] = "predicate"
    /\ Available
    /\ task' = [task EXCEPT ![w] = Oldest]
    /\ started' = Append(started, Oldest)
    /\ tasks_' = Popped
    /\ mutex' = Nobody
    /\ pc' = [pc EXCEPT ![w] = "running"]
    /\ UNCHANGED <<shutdown_, owner, pushed, done, rejected, atClose>>

\* The task returns, or throws and the loop swallows the exception: either way
\* the worker goes on.
Run(w) ==
    /\ pc[w] = "running"
    /\ done' = done \cup {task[w]}
    /\ task' = [task EXCEPT ![w] = Nobody]
    /\ pc' = [pc EXCEPT ![w] = "acquire"]
    /\ UNCHANGED <<tasks_, shutdown_, mutex, owner, pushed, started, rejected, atClose>>

-----------------------------------------------------------------------------
(* shutdown                                                                 *)

\* Mutant of ShutdownLock: the flag is stored without the mutex.
NoLock == TRUE

\* The lock_guard under which the flag is stored.
ShutdownLock == mutex = Nobody

SetShutdown ==
    /\ owner = "open"
    /\ ShutdownLock
    /\ shutdown_' = TRUE
    /\ owner' = "notify_all"
    /\ atClose' = Range(pushed)
    /\ UNCHANGED <<tasks_, mutex, pc, task, pushed, started, done, rejected>>

\* Mutant of NotifyAllTargets: shutdown wakes one sleeper only.
NotifyOneTarget == IF Sleeping = {} THEN {} ELSE {CHOOSE w \in Sleeping : TRUE}

\* The sleepers a notify_all wakes.
NotifyAllTargets == Sleeping

NotifyAll ==
    /\ owner = "notify_all"
    /\ pc' = [p \in DOMAIN pc |-> IF p \in NotifyAllTargets THEN "acquire" ELSE pc[p]]
    /\ owner' = "joining"
    /\ UNCHANGED <<tasks_, shutdown_, mutex, task, history>>

\* The loop of joins returns once every worker has left worker_loop.
Join ==
    /\ owner = "joining"
    /\ \A w \in Workers : pc[w] = "exited"
    /\ owner' = "joined"
    /\ UNCHANGED <<tasks_, shutdown_, mutex, pc, task, history>>

-----------------------------------------------------------------------------

CallerStep(c) == Push(c) \/ NotifyOne(c) \/ \E t \in Tasks : Enqueue(c, t)

WorkerStep(w) == Acquire(w) \/ Unready(w) \/ Block(w) \/ Exit(w) \/ Take(w) \/ Run(w)

OwnerStep == SetShutdown \/ NotifyAll \/ Join

Next ==
    \/ \E c \in Callers : CallerStep(c)
    \/ \E w \in Workers : WorkerStep(w) \/ SpuriousWakeup(w)
    \/ OwnerStep

Spec == Init /\ [][Next]_vars

\* Every thread that can take a step is eventually scheduled, an enqueue or a
\* shutdown once begun goes on to its end, and a task that runs ends.  No call
\* of enqueue or shutdown and no spurious wakeup has to happen.
Fairness ==
    /\ \A w \in Workers : WF_vars(WorkerStep(w))
    /\ \A c \in Callers : WF_vars(Push(c) \/ NotifyOne(c))
    /\ WF_vars(NotifyAll) /\ WF_vars(Join)

FairSpec == Spec /\ Fairness

-----------------------------------------------------------------------------
(* Properties                                                               *)

Threads == Workers \cup Callers
Running == {task[w] : w \in {v \in Workers : pc[v] = "running"}}

\* Every variable of the pool stays within its type; in particular what a
\* worker takes is a task, never the front of an empty queue, and callers and
\* workers only visit control points of their own function.
TypeOK ==
    /\ tasks_ \in Seq(Tasks)
    /\ shutdown_ \in BOOLEAN
    /\ mutex \in Workers \cup {Nobody}
    /\ pc \in [Threads -> WorkerPoints \cup CallerPoints]
    /\ \A w \in Workers : pc[w] \in WorkerPoints
    /\ \A c \in Callers : pc[c] \in CallerPoints
    /\ task \in [Threads -> Tasks \cup {Nobody}]
    /\ owner \in OwnerPoints
    /\ pushed \in Seq(Tasks)
    /\ started \in Seq(Tasks)
    /\ done \subseteq Tasks
    /\ rejected \subseteq Tasks
    /\ atClose \subseteq Tasks

\* Whatever enqueue accepted is taken by the workers exactly once and in the
\* order of acceptance: the tasks taken followed by the queue are the tasks
\* pushed, and a task taken is either finished or in the hands of a worker.
FifoExactlyOnce ==
    /\ started \o tasks_ = pushed
    /\ Range(started) = done \cup Running

\* No wakeup is lost.  While work waits, or shutdown has been requested, there
\* is never a sleeping worker that nobody is going to wake: a sleeper is left
\* alone only if another worker is awake and will test the queue again, or a
\* notify is still to come.
NoLostWakeup ==
    /\ tasks_ # <<>> /\ Sleeping # {} =>
          \/ \E w \in Workers : pc[w] \in {"acquire", "predicate", "running"}
          \/ \E c \in Callers : pc[c] = "notify"
          \/ owner = "notify_all"
    /\ shutdown_ /\ Sleeping # {} => owner = "notify_all"

\* shutdown is graceful for everything accepted before the flag was stored:
\* when the joins have returned, each of those tasks has been executed.
GracefulDrain == owner = "joined" => atClose \subseteq done

\* The pool as its callers see it; the mutex, the condition variable and the
\* control points disappear in the mapping.
Abstract == INSTANCE TaskPool WITH
                queue <- tasks_, running <- Running, finished <- done,
                open <- ~shutdown_, due <- atClose, stopped <- (owner = "joined")

\* Every behaviour of the pool is one that TaskPool allows: a FIFO that runs
\* each task once and stops only when what was accepted before is finished.
ImplementsTaskPool == Abstract!Spec

\* A task accepted while the pool is open is eventually executed.
AcceptedTasksRun ==
    \A t \in Tasks : (t \in Range(pushed) /\ ~shutdown_) ~> t \in done

\* A shutdown, once requested, returns: no worker sleeps through it.
ShutdownReturns == shutdown_ ~> owner = "joined"
=============================================================================
