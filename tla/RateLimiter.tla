---------------------------- MODULE RateLimiter -----------------------------
(***************************************************************************)
(* The token bucket of src/middleware/rate_limiter.cpp.  Buckets exist     *)
(* only for addresses seen lately, are refilled lazily, on the next        *)
(* request, and are erased by cleanup_expired, which the event loop calls  *)
(* after every batch.  Both operations run under mutex_ and are one step.  *)
(*                                                                         *)
(* Amounts are in a unit small enough to make them whole: a tick of the    *)
(* clock refills Rate, a request costs One.  A disabled limiter returns    *)
(* before it touches anything and has no states.                           *)
(***************************************************************************)
EXTENDS Integers, FiniteSets

CONSTANTS IPs,
          Rate, One, Burst,
          TicksPerSecond,
          MAX_AGE,         \* seconds, argument of cleanup_expired
          CLEANUP_PERIOD,  \* seconds between two sweeps
          Absent,          \* no bucket, no verdict
          MaxTime,         \* bound: ticks
          MaxRequests      \* bound: requests

\* The server sets burst to twice the rate and keeps the default age of an
\* hour, so a bucket is full again long before it expires.
ASSUME LimiterAssumption ==
    /\ {Rate, MAX_AGE, CLEANUP_PERIOD, MaxTime, MaxRequests} \subseteq Nat
    /\ One \in Nat \ {0} /\ TicksPerSecond \in Nat \ {0}
    /\ Burst \in Nat /\ Burst >= One
    /\ Rate * (TicksPerSecond * (MAX_AGE + 1)) >= Burst
    /\ Absent \notin [tokens : Nat, last_refill : Nat]

VARIABLES
    now,
    buckets_,          \* address -> [tokens, last_refill], or Absent
    last_cleanup_,
    total_requests_,
    blocked_requests_,
    verdict            \* the latest return value of is_allowed

vars == <<now, buckets_, last_cleanup_, total_requests_, blocked_requests_, verdict>>

Init ==
    /\ now = 0
    /\ buckets_ = [ip \in IPs |-> Absent]
    /\ last_cleanup_ = 0
    /\ total_requests_ = 0
    /\ blocked_requests_ = 0
    /\ verdict = Absent

Tick ==
    /\ now < MaxTime
    /\ now' = now + 1
    /\ UNCHANGED <<buckets_, last_cleanup_, total_requests_, blocked_requests_, verdict>>

-----------------------------------------------------------------------------

Bucket(tokens) == [tokens |-> tokens, last_refill |-> now]

Least(a, b) == IF a <= b THEN a ELSE b

\* Mutant of Refilled: the cap is forgotten.
RefilledUncapped(b) == b.tokens + (now - b.last_refill) * Rate

\* The tokens of a bucket brought up to date.
Refilled(b) == Least(Burst, b.tokens + (now - b.last_refill) * Rate)

Spent(tokens) == tokens - One

Verdict(ip, allowed) ==
    /\ verdict' = [ip |-> ip, allowed |-> allowed]
    /\ total_requests_' = total_requests_ + 1
    /\ blocked_requests_' = IF allowed THEN blocked_requests_ ELSE blocked_requests_ + 1

\* is_allowed on the first request of an address: a full bucket less one.
FirstRequest(ip) ==
    /\ total_requests_ < MaxRequests
    /\ buckets_[ip] = Absent
    /\ buckets_' = [buckets_ EXCEPT ![ip] = Bucket(Burst - One)]
    /\ Verdict(ip, TRUE)
    /\ UNCHANGED <<now, last_cleanup_>>

\* is_allowed on a later one: refill, then consume or block.
LaterRequest(ip) ==
    /\ total_requests_ < MaxRequests
    /\ buckets_[ip] # Absent
    /\ LET tokens == Refilled(buckets_[ip]) IN
       \/ /\ tokens >= One
          /\ buckets_' = [buckets_ EXCEPT ![ip] = Bucket(Spent(tokens))]
          /\ Verdict(ip, TRUE)
       \/ /\ tokens < One
          /\ buckets_' = [buckets_ EXCEPT ![ip] = Bucket(tokens)]
          /\ Verdict(ip, FALSE)
    /\ UNCHANGED <<now, last_cleanup_>>

\* duration_cast<seconds> of a difference: truncated.
Seconds(d) == d \div TicksPerSecond

\* Mutant of Expired: a bucket expires at its age, not beyond it.
ExpiredTooSoon(b) == Seconds(now - b.last_refill) >= MAX_AGE

Expired(b) == Seconds(now - b.last_refill) > MAX_AGE

CleanupExpired ==
    /\ Seconds(now - last_cleanup_) >= CLEANUP_PERIOD
    /\ buckets_' = [ip \in IPs |->
          IF buckets_[ip] # Absent /\ Expired(buckets_[ip]) THEN Absent ELSE buckets_[ip]]
    /\ last_cleanup_' = now
    /\ UNCHANGED <<now, total_requests_, blocked_requests_, verdict>>

Next ==
    \/ Tick
    \/ \E ip \in IPs : FirstRequest(ip) \/ LaterRequest(ip)
    \/ CleanupExpired

Spec == Init /\ [][Next]_vars

-----------------------------------------------------------------------------
(* Properties                                                               *)

\* Buckets hold between nothing and Burst and are never from the future; as
\* many requests are blocked as have been counted, or fewer.
TypeOK ==
    /\ now \in Nat
    /\ last_cleanup_ \in 0..now
    /\ \A ip \in IPs : buckets_[ip] \in [tokens : 0..Burst, last_refill : 0..now] \cup {Absent}
    /\ DOMAIN buckets_ = IPs
    /\ total_requests_ \in Nat
    /\ blocked_requests_ \in 0..total_requests_
    /\ verdict \in [ip : IPs, allowed : BOOLEAN] \cup {Absent}

\* What an address could spend now; one without a bucket has a full one.
Level == [ip \in IPs |-> IF buckets_[ip] = Absent THEN Burst ELSE Refilled(buckets_[ip])]

Abstract == INSTANCE TokenBucket WITH level <- Level, NoVerdict <- Absent

\* Lazy refill and the erasure of old buckets cannot be noticed: the limiter
\* decides every request as buckets that are refilled at every tick and never
\* erased would.
ImplementsTokenBucket == Abstract!Spec
=============================================================================
