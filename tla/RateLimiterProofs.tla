-------------------------- MODULE RateLimiterProofs --------------------------
(***************************************************************************)
(* Proofs about RateLimiter, for any rate, burst, age and set of           *)
(* addresses that satisfy LimiterAssumption.                               *)
(***************************************************************************)
EXTENDS RateLimiter, TLAPS

-----------------------------------------------------------------------------
(* Arithmetic                                                               *)

\* The products that the provers have to be told about.
LEMMA Products ==
    /\ \A a, r \in Int : a * r \in Int
    /\ \A a, r \in Int : (a + 1) * r = a * r + r
    /\ \A r \in Int : 0 * r = 0
    /\ \A a, r \in Nat : a * r >= 0
  OBVIOUS

\* A product with a larger factor is no smaller.
LEMMA ProductMonotone ==
    ASSUME NEW a \in Nat, NEW b \in Nat, NEW r \in Nat, a >= b
    PROVE  a * r >= r * b
<1>1. PICK e \in Nat : a = b + e
  <2>1. a - b \in Nat /\ a = b + (a - b)
    OBVIOUS
  <2> QED
    BY <2>1
<1>2. (b + e) * r = r * b + e * r /\ e * r >= 0
  OBVIOUS
<1> QED
  BY <1>1, <1>2

\* More than m whole seconds are at least m + 1 seconds' worth of ticks.
LEMMA WholeSeconds ==
    ASSUME NEW d \in Nat, NEW t \in Nat \ {0}, NEW m \in Nat, d \div t > m
    PROVE  d >= t * (m + 1)
<1>1. d = t * (d \div t) + (d % t) /\ d % t >= 0 /\ d \div t \in Nat
  OBVIOUS
<1>2. (d \div t) * t >= t * (m + 1)
  BY <1>1, ProductMonotone
<1> QED
  BY <1>1, <1>2

-----------------------------------------------------------------------------
(* Types                                                                    *)

\* A bucket of either kind, in words the provers handle well.
LEMMA BucketFacts ==
    ASSUME TypeOK, NEW ip \in IPs, buckets_[ip] # Absent
    PROVE  /\ buckets_[ip].tokens \in 0..Burst
           /\ buckets_[ip].last_refill \in 0..now
           /\ now - buckets_[ip].last_refill \in Nat
           /\ (now - buckets_[ip].last_refill) * Rate \in Nat
           /\ Refilled(buckets_[ip]) \in 0..Burst
<1> USE LimiterAssumption
<1>1. /\ buckets_[ip].tokens \in 0..Burst
      /\ buckets_[ip].last_refill \in 0..now
      /\ now \in Nat /\ Burst \in Nat /\ Rate \in Nat
  BY DEF TypeOK
<1>2. now - buckets_[ip].last_refill \in Nat
  BY <1>1
<1>3. (now - buckets_[ip].last_refill) * Rate \in Nat
  BY <1>1, <1>2, Products
<1>4. Refilled(buckets_[ip]) \in 0..Burst
  BY <1>1, <1>3 DEF Refilled, Least
<1> QED
  BY <1>1, <1>2, <1>3, <1>4

\* The two ways a later request ends, with what is left in the bucket.
LEMMA LaterOutcome ==
    ASSUME TypeOK, NEW ip \in IPs, LaterRequest(ip)
    PROVE  \E n \in 0..Burst, allowed \in BOOLEAN :
              /\ allowed <=> Refilled(buckets_[ip]) >= One
              /\ n = IF allowed THEN Refilled(buckets_[ip]) - One ELSE Refilled(buckets_[ip])
              /\ buckets_' = [buckets_ EXCEPT ![ip] = Bucket(n)]
              /\ Verdict(ip, allowed)
              /\ UNCHANGED <<now, last_cleanup_>>
<1> USE LimiterAssumption
<1> DEFINE left == Refilled(buckets_[ip])
<1>1. left \in 0..Burst /\ One \in Nat
  BY BucketFacts DEF LaterRequest
<1>2. CASE /\ left >= One
           /\ buckets_' = [buckets_ EXCEPT ![ip] = Bucket(Spent(left))]
           /\ Verdict(ip, TRUE)
  <2>1. left - One \in 0..Burst /\ buckets_' = [buckets_ EXCEPT ![ip] = Bucket(left - One)]
    BY <1>1, <1>2 DEF Spent
  <2>2. UNCHANGED <<now, last_cleanup_>>
    BY DEF LaterRequest
  <2> USE <2>1
  <2> WITNESS left - One \in 0..Burst, TRUE \in BOOLEAN
  <2> QED
    BY <1>2, <2>1, <2>2
<1>3. CASE /\ left < One
           /\ buckets_' = [buckets_ EXCEPT ![ip] = Bucket(left)]
           /\ Verdict(ip, FALSE)
  <2>1. ~(left >= One)
    BY <1>1, <1>3
  <2>2. UNCHANGED <<now, last_cleanup_>>
    BY DEF LaterRequest
  <2> USE <1>1
  <2> WITNESS left \in 0..Burst, FALSE \in BOOLEAN
  <2> QED
    BY <1>3, <2>1, <2>2
<1> QED
  BY <1>2, <1>3 DEF LaterRequest

LEMMA InitType == Init => TypeOK
  BY LimiterAssumption DEF Init, TypeOK

LEMMA NextType == TypeOK /\ [Next]_vars => TypeOK'
<1> SUFFICES ASSUME TypeOK, [Next]_vars PROVE TypeOK'
  OBVIOUS
<1> USE LimiterAssumption
<1>1. CASE Tick
  BY <1>1 DEF Tick, TypeOK
<1>2. ASSUME NEW ip \in IPs, FirstRequest(ip) PROVE TypeOK'
  <2>1. Bucket(Burst - One) \in [tokens : 0..Burst, last_refill : 0..now]
    BY DEF Bucket, TypeOK
  <2> QED
    BY <1>2, <2>1 DEF FirstRequest, Verdict, TypeOK
<1>3. ASSUME NEW ip \in IPs, LaterRequest(ip) PROVE TypeOK'
  <2> DEFINE tokens == Refilled(buckets_[ip])
  <2>1. tokens \in 0..Burst
    BY <1>3, BucketFacts DEF LaterRequest
  <2>2. PICK n \in 0..Burst, allowed \in BOOLEAN :
            /\ buckets_' = [buckets_ EXCEPT ![ip] = Bucket(n)]
            /\ Verdict(ip, allowed)
            /\ UNCHANGED <<now, last_cleanup_>>
    BY <1>3, <2>1, LaterOutcome
  <2>3. Bucket(n) \in [tokens : 0..Burst, last_refill : 0..now]
    BY DEF Bucket, TypeOK
  <2> QED
    BY <2>2, <2>3 DEF Verdict, TypeOK
<1>4. CASE CleanupExpired
  BY <1>4 DEF CleanupExpired, TypeOK
<1>5. CASE UNCHANGED vars
  BY <1>5 DEF vars, TypeOK
<1> QED
  BY <1>1, <1>2, <1>3, <1>4, <1>5 DEF Next

\* Type correctness of the limiter: no bucket is ever overdrawn or overfull.
THEOREM TypeCorrect == Spec => []TypeOK
  BY InitType, NextType, PTL DEF Spec

-----------------------------------------------------------------------------
(* Refinement                                                               *)

\* A bucket that cleanup_expired erases is full, so nobody can tell.
LEMMA ExpiredIsFull ==
    ASSUME TypeOK, NEW ip \in IPs, buckets_[ip] # Absent, Expired(buckets_[ip])
    PROVE  Refilled(buckets_[ip]) = Burst
<1> USE LimiterAssumption
<1> DEFINE age == now - buckets_[ip].last_refill
<1>1. age \in Nat /\ buckets_[ip].tokens \in 0..Burst /\ age * Rate \in Nat
  BY BucketFacts
<1>2. age >= TicksPerSecond * (MAX_AGE + 1)
  BY <1>1, WholeSeconds DEF Expired, Seconds
<1>3. TicksPerSecond * (MAX_AGE + 1) \in Nat
  BY Products
<1>4. age * Rate >= Rate * (TicksPerSecond * (MAX_AGE + 1))
  BY <1>1, <1>2, <1>3, ProductMonotone
<1>5. age * Rate >= Burst
  BY <1>1, <1>3, <1>4, Products
<1> QED
  BY <1>1, <1>5 DEF Refilled, Least

LEMMA StepRefines ==
    TypeOK /\ [Next]_vars => [Abstract!Next]_<<Level, verdict>>
<1> SUFFICES ASSUME TypeOK, [Next]_vars PROVE [Abstract!Next]_<<Level, verdict>>
  OBVIOUS
<1> USE LimiterAssumption
<1>1. ASSUME Tick PROVE Abstract!Next
  <2>1. ASSUME NEW ip \in IPs PROVE Level'[ip] = Least(Burst, Level[ip] + Rate)
    <3>1. CASE buckets_[ip] = Absent
      BY <1>1, <3>1 DEF Tick, Level, Least
    <3>2. CASE buckets_[ip] # Absent
      <4> DEFINE b == buckets_[ip]
      <4>1. /\ b.tokens \in 0..Burst /\ b.last_refill \in 0..now
            /\ now - b.last_refill \in Nat /\ (now - b.last_refill) * Rate \in Nat
        BY <3>2, BucketFacts
      <4>2. now' - b.last_refill = (now - b.last_refill) + 1
        BY <1>1, <4>1 DEF Tick, TypeOK
      <4>3. (now' - b.last_refill) * Rate = (now - b.last_refill) * Rate + Rate
        BY <4>1, <4>2, Products
      <4>4. Level'[ip] = Least(Burst, b.tokens + (now' - b.last_refill) * Rate)
        BY <1>1, <3>2 DEF Tick, Level, Refilled
      <4>5. Level[ip] = Least(Burst, b.tokens + (now - b.last_refill) * Rate)
        BY <3>2 DEF Level, Refilled
      <4> QED
        BY <4>1, <4>3, <4>4, <4>5 DEF Least
    <3> QED
      BY <3>1, <3>2
  <2>2. Level' = [ip \in IPs |-> Abstract!Least(Burst, Level[ip] + Rate)]
    BY <2>1 DEF Level, Least, Abstract!Least
  <2>3. Abstract!Elapse
    BY <1>1, <2>2 DEF Tick, Abstract!Elapse
  <2> QED
    BY <2>3 DEF Abstract!Next
<1>2. ASSUME NEW ip \in IPs, FirstRequest(ip) PROVE Abstract!Next
  <2>1. Level[ip] = Burst
    BY <1>2 DEF FirstRequest, Level
  <2>2. buckets_'[ip] = Bucket(Burst - One) /\ Bucket(Burst - One) # Absent /\ now' = now
    BY <1>2 DEF FirstRequest, Bucket, TypeOK
  <2>3. Level'[ip] = Burst - One
    <3>1. (now - now) * Rate = 0
      BY Products DEF TypeOK
    <3>2. Least(Burst, (Burst - One) + (now - now) * Rate) = Burst - One
      BY <3>1 DEF Least
    <3> QED
      BY <2>2, <3>2 DEF Level, Refilled, Bucket
  <2>4. \A j \in IPs : j # ip => Level'[j] = Level[j]
    BY <1>2 DEF FirstRequest, Level, Refilled, TypeOK
  <2>5. Level' = [Level EXCEPT ![ip] = @ - One]
    BY <2>1, <2>3, <2>4 DEF Level
  <2>6. Abstract!Grant(ip)
    BY <1>2, <2>1, <2>5 DEF FirstRequest, Verdict, Abstract!Grant
  <2> QED
    BY <2>6 DEF Abstract!Next
<1>3. ASSUME NEW ip \in IPs, LaterRequest(ip) PROVE Abstract!Next
  <2> DEFINE tokens == Refilled(buckets_[ip])
  <2>1. Level[ip] = tokens /\ tokens \in 0..Burst /\ now' = now
    BY <1>3, BucketFacts DEF LaterRequest, Level
  <2>2. \A j \in IPs : j # ip => Level'[j] = Level[j]
    BY <1>3 DEF LaterRequest, Level, Refilled, TypeOK
  <2>3. ASSUME NEW n \in 0..Burst, buckets_' = [buckets_ EXCEPT ![ip] = Bucket(n)]
        PROVE  Level'[ip] = n
    <3>1. buckets_'[ip] = Bucket(n) /\ Bucket(n) # Absent
      BY <2>3 DEF Bucket, TypeOK
    <3>2. (now - now) * Rate = 0
      BY Products DEF TypeOK
    <3>3. Least(Burst, n + (now - now) * Rate) = n
      BY <3>2 DEF Least
    <3> QED
      BY <2>1, <3>1, <3>3 DEF Level, Refilled, Bucket
  <2>4. PICK n \in 0..Burst, allowed \in BOOLEAN :
            /\ allowed <=> tokens >= One
            /\ n = IF allowed THEN tokens - One ELSE tokens
            /\ buckets_' = [buckets_ EXCEPT ![ip] = Bucket(n)]
            /\ verdict' = [ip |-> ip, allowed |-> allowed]
    BY <1>3, LaterOutcome DEF Verdict
  <2>5. Level'[ip] = n
    BY <2>3, <2>4
  <2>6. CASE allowed
    <3>1. Level[ip] >= One /\ n = Level[ip] - One /\ allowed = TRUE
      BY <2>1, <2>4, <2>6
    <3>2. Level' = [Level EXCEPT ![ip] = @ - One]
      BY <2>2, <2>5, <3>1 DEF Level
    <3>3. Abstract!Grant(ip)
      BY <2>4, <3>1, <3>2 DEF Abstract!Grant
    <3> QED
      BY <3>3 DEF Abstract!Next
  <2>7. CASE ~allowed
    <3>1. Level[ip] < One /\ n = Level[ip] /\ allowed = FALSE
      BY <2>1, <2>4, <2>7
    <3>2. Level' = Level
      BY <2>2, <2>5, <3>1 DEF Level
    <3>3. Abstract!Deny(ip)
      BY <2>4, <3>1, <3>2 DEF Abstract!Deny
    <3> QED
      BY <3>3 DEF Abstract!Next
  <2> QED
    BY <2>6, <2>7
<1>4. ASSUME CleanupExpired PROVE UNCHANGED <<Level, verdict>>
  <2>1. ASSUME NEW ip \in IPs PROVE Level'[ip] = Level[ip]
    <3>1. CASE buckets_[ip] # Absent /\ Expired(buckets_[ip])
      BY <1>4, <3>1, ExpiredIsFull DEF CleanupExpired, Level
    <3>2. CASE ~(buckets_[ip] # Absent /\ Expired(buckets_[ip]))
      BY <1>4, <3>2 DEF CleanupExpired, Level, Refilled
    <3> QED
      BY <3>1, <3>2
  <2> QED
    BY <1>4, <2>1 DEF CleanupExpired, Level
<1>5. CASE UNCHANGED vars
  BY <1>5 DEF vars, Level, Refilled
<1> QED
  BY <1>1, <1>2, <1>3, <1>4, <1>5 DEF Next

\* rate_limiter.cpp implements TokenBucket: lazy refill and cleanup_expired
\* change no decision, for any rate and burst for which a bucket is full again
\* by the time it expires.
THEOREM LimiterImplementsTokenBucket == Spec => ImplementsTokenBucket
<1>1. Init => Abstract!Init
  BY DEF Init, Level, Abstract!Init
<1>2. Spec => Abstract!Spec
  BY <1>1, StepRefines, TypeCorrect, PTL DEF Spec, Abstract!Spec
<1> QED
  BY <1>2 DEF ImplementsTokenBucket
=============================================================================
