---------------------------- MODULE LoadBalancer ----------------------------
(***************************************************************************)
(* An upstream of src/modules/load_balancer.cpp as the proxy routes of     *)
(* server.cpp use it: pool workers take a backend with get_next, forward   *)
(* a request to it (proxy_handler.cpp), mark it down after a 502 and       *)
(* release it, while the health thread probes all backends under mutex_.   *)
(*                                                                         *)
(* get_next is one step: it holds mutex_, and the only concurrent write,   *)
(* mark_down's store of FALSE, makes the same difference before the step.  *)
(* For the same reason the health thread's test and store of is_alive are  *)
(* one step, but the probe that precedes them is a step of its own: its    *)
(* result may be old by the time it is applied.                            *)
(***************************************************************************)
EXTENDS Integers, FiniteSets

CONSTANTS N,         \* number of backends
          Workers,   \* threads that proxy requests
          INT_MAX,   \* the largest int; current_index_ is one
          SIZE_MAX,  \* the largest size_t
          None,
          Env        \* conditions a backend may change to

Conditions == {"ok", "bad", "silent", "down"}

\* How many values an int has, a power of two; size_t is no narrower.
Ints == 2 * (INT_MAX + 1)

ASSUME BalancerAssumption ==
    /\ N \in Nat \ {0}
    /\ INT_MAX \in Nat /\ SIZE_MAX \in Nat
    /\ \E d \in 1..(SIZE_MAX + 1) : SIZE_MAX + 1 = Ints * d
    /\ IsFiniteSet(Workers)
    /\ Env \subseteq Conditions
    /\ None \notin 0..(N - 1)

Backends == 0..(N - 1)
Strikes == 3

VARIABLES
    is_alive,       \* backend -> atomic flag
    failed_checks,  \* backend -> consecutive failed probes, up to Strikes
    active_connections,
    current_index_, \* the shared int
    running_,       \* the health thread is to go on
    health,         \* control point of the health thread
    hidx,           \* the backend it is at
    probe,          \* what that backend did when it was probed
    pc,             \* worker -> control point
    held,           \* worker -> its backend
    condition,      \* what a backend does: answers, answers badly, is silent, is down
    blemished,      \* history: backends that were ever anything but ok
    served          \* history: total_requests, less the smallest of them

vars == <<is_alive, failed_checks, active_connections, current_index_, running_, health,
          hidx, probe, pc, held, condition, blemished, served>>
healthVars == <<running_, health, hidx, probe>>

Init ==
    /\ is_alive = [b \in Backends |-> TRUE]
    /\ failed_checks = [b \in Backends |-> 0]
    /\ active_connections = [b \in Backends |-> 0]
    /\ current_index_ = 0
    /\ running_ = TRUE
    /\ health = "check" /\ hidx = 0 /\ probe = None
    /\ pc = [w \in Workers |-> "idle"]
    /\ held = [w \in Workers |-> None]
    /\ condition = [b \in Backends |-> "ok"]
    /\ blemished = {}
    /\ served = [b \in Backends |-> 0]

-----------------------------------------------------------------------------
(* get_next                                                                 *)

\* mutex_ is held by the health thread for the whole of a sweep.
MutexFree == health \notin {"probe", "apply"}

\* Mutants of Advance: the index is never advanced, or grows without bound.
IndexStuck(v, k) == v
NoWrap(v, k) == v + k

\* The int k increments on: std::atomic<int> wraps in two's complement.
Advance(v, k) == ((v + k + (INT_MAX + 1)) % Ints) - (INT_MAX + 1)

\* int -> size_t -> % backends_.size()
Slot(v) == (v % (SIZE_MAX + 1)) % N

\* Mutant of Probes: the loop stops one backend early.
ProbesButLast == 0..(N - 2)

\* The values `tried` takes.
Probes == 0..(N - 1)

\* total_requests after one more for b, less the smallest entry.  It is only
\* followed while every backend has been alive all the time.
Served(b) ==
    LET s == [served EXCEPT ![b] = @ + 1] IN
    IF blemished # {} THEN [i \in Backends |-> 0]
    ELSE IF \A i \in Backends : s[i] > 0 THEN [i \in Backends |-> s[i] - 1] ELSE s

\* The attempts that find a live backend.
Hits == {k \in Probes : is_alive[Slot(Advance(current_index_, k))]}

GetNext(w) ==
    /\ pc[w] = "idle" /\ MutexFree
    /\ \E k \in Hits :
          LET b == Slot(Advance(current_index_, k)) IN
          /\ \A j \in Hits : k <= j
          /\ current_index_' = Advance(current_index_, k + 1)
          /\ active_connections' = [active_connections EXCEPT ![b] = @ + 1]
          /\ served' = Served(b)
          /\ held' = [held EXCEPT ![w] = b]
    /\ pc' = [pc EXCEPT ![w] = "forward"]
    /\ UNCHANGED <<is_alive, failed_checks, healthVars, condition, blemished>>

\* nullptr: the route answers "503 Service Unavailable".
GetNone(w) ==
    /\ pc[w] = "idle" /\ MutexFree
    /\ Hits = {}
    /\ current_index_' = Advance(current_index_, N)
    /\ pc' = [pc EXCEPT ![w] = "refused"]
    /\ UNCHANGED <<is_alive, failed_checks, active_connections, healthVars, held, condition,
                   blemished, served>>

Refuse(w) ==
    /\ pc[w] = "refused"
    /\ pc' = [pc EXCEPT ![w] = "idle"]
    /\ UNCHANGED <<is_alive, failed_checks, active_connections, current_index_, healthVars,
                   held, condition, blemished, served>>

-----------------------------------------------------------------------------
(* The rest of the proxy route                                              *)

\* connect_to_backend returns -1; send_and_receive returns an empty string.
ConnectFails(b) == condition[b] = "down"
EmptyAnswer(b) == condition[b] = "silent"

\* parse_backend_response: the backend's own 502 is passed on, and an answer
\* that cannot be parsed becomes one.
ParsedStatus(b) == IF condition[b] = "bad" THEN 502 ELSE 200

\* The status ProxyHandler::handle returns: a failed connect and an empty
\* answer both become an internal_error, whose status is 500.
Status(b) == IF ConnectFails(b) \/ EmptyAnswer(b) THEN 500 ELSE ParsedStatus(b)

Forward(w) ==
    /\ pc[w] = "forward"
    /\ pc' = [pc EXCEPT ![w] = IF Status(held[w]) = 502 THEN "mark" ELSE "release"]
    /\ UNCHANGED <<is_alive, failed_checks, active_connections, current_index_, healthVars,
                   held, condition, blemished, served>>

\* The backend mark_down is given.
Marked(w) == held[w]

\* Mutant of AfterMark: the route returns without releasing.
AfterMarkReturn == "idle"

AfterMark == "release"

\* mark_down, without mutex_.
MarkDown(w) ==
    /\ pc[w] = "mark"
    /\ is_alive' = [is_alive EXCEPT ![Marked(w)] = FALSE]
    /\ pc' = [pc EXCEPT ![w] = AfterMark]
    /\ UNCHANGED <<failed_checks, active_connections, current_index_, healthVars, held,
                   condition, blemished, served>>

Release(w) ==
    /\ pc[w] = "release"
    /\ active_connections' = [active_connections EXCEPT ![held[w]] = @ - 1]
    /\ held' = [held EXCEPT ![w] = None]
    /\ pc' = [pc EXCEPT ![w] = "idle"]
    /\ UNCHANGED <<is_alive, failed_checks, current_index_, healthVars, condition,
                   blemished, served>>

-----------------------------------------------------------------------------
(* The health thread                                                        *)

\* Mutant of HealthCheck: the loop does not look at running_.
HealthCheckForever ==
    /\ health = "check"
    /\ health' = "probe" /\ hidx' = 0
    /\ UNCHANGED <<is_alive, failed_checks, active_connections, current_index_, running_,
                   probe, pc, held, condition, blemished, served>>

\* The test of running_ at the head of health_check_loop.
HealthCheck ==
    /\ health = "check"
    /\ \/ running_ /\ health' = "probe" /\ hidx' = 0
       \/ ~running_ /\ health' = "exited" /\ UNCHANGED hidx
    /\ UNCHANGED <<is_alive, failed_checks, active_connections, current_index_, running_,
                   probe, pc, held, condition, blemished, served>>

\* check_health reaches the backend, or does not.
Probe ==
    /\ health = "probe"
    /\ probe' = condition[hidx]
    /\ health' = "apply"
    /\ UNCHANGED <<is_alive, failed_checks, active_connections, current_index_, running_,
                   hidx, pc, held, condition, blemished, served>>

\* check_health returns received > 0 in the end, whatever was received.
ProbeAlive == probe \in {"ok", "bad"}

\* Mutant of FailuresWhenRevived: the strikes survive the recovery.
FailuresKept(b) == failed_checks[b]

\* failed_checks of a backend found alive.
FailuresWhenRevived(b) == 0

\* Mutant of StruckOut: the threshold is never reached.
NeverOut(n) == n > Strikes

\* The third strike.
StruckOut(n) == n >= Strikes

\* Mutant of Revived: a probe does not bring a backend back.
NotRevived == FALSE

\* A probe that succeeds marks the backend up.
Revived == ProbeAlive

\* The three branches of the loop body, then the next backend or the end of
\* the sweep, where mutex_ is released.
Apply ==
    LET b == hidx
        failures == IF ProbeAlive THEN FailuresWhenRevived(b)
                    ELSE IF failed_checks[b] < Strikes THEN failed_checks[b] + 1 ELSE Strikes
    IN
    /\ health = "apply"
    /\ failed_checks' = [failed_checks EXCEPT ![b] = failures]
    /\ is_alive' = [is_alive EXCEPT ![b] = Revived \/ (@ /\ ~StruckOut(failures))]
    /\ probe' = None
    /\ IF b = N - 1 THEN health' = "sleep" /\ UNCHANGED hidx
       ELSE health' = "probe" /\ hidx' = b + 1
    /\ UNCHANGED <<active_connections, current_index_, running_, pc, held, condition,
                   blemished, served>>

\* The sleep ends with the interval, or early once running_ is false.
Wake ==
    /\ health = "sleep"
    /\ health' = "check"
    /\ UNCHANGED <<is_alive, failed_checks, active_connections, current_index_, running_, hidx,
                   probe, pc, held, condition, blemished, served>>

\* stop_health_checks stores the flag; its join waits for "exited".
StopHealthChecks ==
    /\ running_
    /\ running_' = FALSE
    /\ UNCHANGED <<is_alive, failed_checks, active_connections, current_index_, health, hidx,
                   probe, pc, held, condition, blemished, served>>

-----------------------------------------------------------------------------

\* A backend starts, stops, or begins to misbehave.
Change(b, c) ==
    /\ condition[b] # c
    /\ condition' = [condition EXCEPT ![b] = c]
    /\ blemished' = IF c = "ok" THEN blemished ELSE blemished \cup {b}
    /\ UNCHANGED <<is_alive, failed_checks, active_connections, current_index_, healthVars,
                   pc, held, served>>

WorkerStep(w) ==
    GetNext(w) \/ GetNone(w) \/ Refuse(w) \/ Forward(w) \/ MarkDown(w) \/ Release(w)

HealthStep == HealthCheck \/ Probe \/ Apply \/ Wake

Next ==
    \/ \E w \in Workers : WorkerStep(w)
    \/ HealthStep
    \/ StopHealthChecks
    \/ \E b \in Backends, c \in Env : Change(b, c)

Spec == Init /\ [][Next]_vars

\* The health thread is scheduled and its probes time out after two seconds;
\* a worker that holds a backend gets on with it, for its socket has timeouts
\* too.  No request has to arrive.
Fairness ==
    /\ WF_vars(HealthStep)
    /\ \A w \in Workers : WF_vars(Refuse(w) \/ Forward(w) \/ MarkDown(w) \/ Release(w))

FairSpec == Spec /\ Fairness

-----------------------------------------------------------------------------
(* Properties                                                               *)

Holders(b) == {w \in Workers : held[w] = b}

\* Every variable keeps its type; the index never leaves the range of an int.
TypeOK ==
    /\ is_alive \in [Backends -> BOOLEAN]
    /\ failed_checks \in [Backends -> 0..Strikes]
    /\ active_connections \in [Backends -> Nat]
    /\ current_index_ \in (-(INT_MAX + 1))..INT_MAX
    /\ running_ \in BOOLEAN
    /\ health \in {"check", "probe", "apply", "sleep", "exited"}
    /\ hidx \in Backends
    /\ probe \in Conditions \cup {None}
    /\ pc \in [Workers -> {"idle", "forward", "mark", "release", "refused"}]
    /\ held \in [Workers -> Backends \cup {None}]
    /\ condition \in [Backends -> Conditions]
    /\ blemished \subseteq Backends
    /\ served \in [Backends -> Nat]

\* active_connections counts exactly the requests that are under way: every
\* get_next is matched by one release, on each path through the route.
AccountingExact == \A b \in Backends : active_connections[b] = Cardinality(Holders(b))

\* A backend in rotation has fewer than three strikes, however mark_down,
\* failed and successful probes have alternated, and a backend that has always
\* answered is in rotation, whatever happens to the others: neither mark_down
\* nor the health thread hits the wrong one.
InRotationMeansSound ==
    \A b \in Backends : /\ is_alive[b] => failed_checks[b] < Strikes
                        /\ b \notin blemished => is_alive[b]

\* Round robin: as long as all backends are sound, no two of them have been
\* given numbers of requests that differ by more than one.
RoundRobinFair ==
    blemished = {} => \A b1, b2 \in Backends : served[b1] - served[b2] <= 1

\* get_next returns nullptr only if no backend is alive.
NullOnlyIfAllDown ==
    [][\A w \in Workers : pc[w] = "idle" /\ pc'[w] = "refused"
          => \A b \in Backends : ~is_alive[b]]_vars

\* A backend that stays unreachable leaves the rotation for good: three failed
\* probes take it out and no stale result brings it back.
Excised ==
    \A b \in Backends :
       <>[](running_ /\ condition[b] \in {"silent", "down"}) => <>[](~is_alive[b])

\* A backend that stays well is in the rotation for good, also after it was
\* marked down by a request that is still under way.
Recovered ==
    \A b \in Backends : <>[](running_ /\ condition[b] = "ok") => <>[](is_alive[b])

\* stop_health_checks returns: the thread leaves its loop.
StopReturns == ~running_ ~> health = "exited"
=============================================================================
