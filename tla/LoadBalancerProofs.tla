------------------------- MODULE LoadBalancerProofs -------------------------
(***************************************************************************)
(* Proofs about LoadBalancer, for any number of backends and workers and   *)
(* any widths of int and size_t.                                           *)
(***************************************************************************)
EXTENDS LoadBalancer, FiniteSetTheorems, TLAPS

-----------------------------------------------------------------------------
(* The inductive invariant                                                  *)

\* A worker holds a backend from get_next to release.
HoldInv == \A w \in Workers : held[w] # None <=> pc[w] \in {"forward", "mark", "release"}

\* Only a backend that has misbehaved is about to be marked down.
MarkInv == \A w \in Workers : pc[w] = "mark" => held[w] \in blemished

\* A backend without a blemish is well, and so is what was last seen of it.
WellInv ==
    /\ \A b \in Backends \ blemished : condition[b] = "ok"
    /\ health = "apply" /\ hidx \notin blemished => probe = "ok"

Inv ==
    /\ TypeOK
    /\ HoldInv
    /\ MarkInv
    /\ WellInv
    /\ AccountingExact
    /\ InRotationMeansSound

-----------------------------------------------------------------------------
(* Arithmetic                                                               *)

\* The index stays an int, and what it selects is a backend.
LEMMA IndexTypes ==
    ASSUME NEW v \in Int, NEW k \in Int
    PROVE  /\ Advance(v, k) \in (-(INT_MAX + 1))..INT_MAX
           /\ Advance(v, k) \in Int
           /\ Slot(v) \in Backends
<1> USE BalancerAssumption
<1>1. Ints \in Nat \ {0}
  BY DEF Ints
<1>2. (v + k + (INT_MAX + 1)) % Ints \in 0..(Ints - 1)
  BY <1>1
<1>3. Advance(v, k) \in (-(INT_MAX + 1))..INT_MAX
  BY <1>2 DEF Advance, Ints
<1>4. v % (SIZE_MAX + 1) \in Nat
  OBVIOUS
<1>5. Slot(v) \in Backends
  BY <1>4 DEF Slot, Backends
<1> QED
  BY <1>3, <1>5

-----------------------------------------------------------------------------
(* Counting holders                                                         *)

\* Whoever takes a backend adds itself to its holders, and whoever gives one
\* back leaves them; the others' holders stay.
LEMMA HoldersChange ==
    ASSUME NEW w \in Workers, NEW b \in Backends, held \in [Workers -> Backends \cup {None}]
    PROVE  /\ IsFiniteSet(Holders(b)) /\ Cardinality(Holders(b)) \in Nat
           /\ w \notin Holders(b) =>
                Cardinality(Holders(b) \cup {w}) = Cardinality(Holders(b)) + 1
           /\ w \in Holders(b) =>
                /\ Cardinality(Holders(b) \ {w}) = Cardinality(Holders(b)) - 1
                /\ Cardinality(Holders(b)) > 0
<1>1. IsFiniteSet(Holders(b))
  BY BalancerAssumption, FS_Subset DEF Holders
<1>2. Cardinality(Holders(b)) \in Nat
  BY <1>1, FS_CardinalityType
<1>3. w \notin Holders(b) => Cardinality(Holders(b) \cup {w}) = Cardinality(Holders(b)) + 1
  BY <1>1, FS_AddElement
<1>4. w \in Holders(b) => Cardinality(Holders(b) \ {w}) = Cardinality(Holders(b)) - 1
  BY <1>1, FS_RemoveElement
<1>5. w \in Holders(b) => Cardinality(Holders(b)) > 0
  BY <1>1, <1>2, FS_EmptySet
<1> QED
  BY <1>1, <1>2, <1>3, <1>4, <1>5

-----------------------------------------------------------------------------
(* The invariant holds initially                                            *)

LEMMA InitInv == Init => Inv
<1> SUFFICES ASSUME Init PROVE Inv
  OBVIOUS
<1> USE BalancerAssumption DEF Init
<1>1. 0 \in Backends /\ Backends \subseteq Int
  BY DEF Backends
<1>2. TypeOK
  BY <1>1 DEF TypeOK, Strikes, Conditions
<1>3. AccountingExact
  <2>1. \A b \in Backends : Holders(b) = {}
    BY DEF Holders, Backends
  <2> QED
    BY <2>1, FS_EmptySet DEF AccountingExact
<1>4. HoldInv /\ MarkInv /\ WellInv /\ InRotationMeansSound
  BY DEF HoldInv, MarkInv, WellInv, InRotationMeansSound, Strikes
<1> QED
  BY <1>2, <1>3, <1>4 DEF Inv

-----------------------------------------------------------------------------
(* Every step preserves it                                                  *)

\* The counters change with the holders, one for one.
LEMMA CountsKept ==
    ASSUME Inv, held' = held, active_connections' = active_connections
    PROVE  AccountingExact'
  BY DEF Inv, AccountingExact, Holders

LEMMA NextInv == Inv /\ [Next]_vars => Inv'
<1> SUFFICES ASSUME Inv, [Next]_vars PROVE Inv'
  OBVIOUS
<1> USE DEF Inv, TypeOK, healthVars
<1>0. /\ N \in Nat \ {0} /\ INT_MAX \in Nat /\ Env \subseteq Conditions
      /\ None \notin Backends /\ Backends \subseteq Int
  BY BalancerAssumption DEF Backends
<1>1. ASSUME NEW w \in Workers, GetNext(w) PROVE Inv'
  <2> USE <1>0, <1>1 DEF GetNext
  <2>1. PICK k \in Hits :
          /\ current_index_' = Advance(current_index_, k + 1)
          /\ LET b == Slot(Advance(current_index_, k)) IN
             /\ active_connections' = [active_connections EXCEPT ![b] = @ + 1]
             /\ served' = Served(b)
             /\ held' = [held EXCEPT ![w] = b]
    OBVIOUS
  <2>2. k \in Int /\ current_index_ \in Int
    BY DEF Hits, Probes
  <2> DEFINE b == Slot(Advance(current_index_, k))
  <2>3. b \in Backends /\ current_index_' \in (-(INT_MAX + 1))..INT_MAX
    BY <2>1, <2>2, IndexTypes
  <2> HIDE DEF b
  <2>4. /\ active_connections' = [active_connections EXCEPT ![b] = @ + 1]
        /\ held' = [held EXCEPT ![w] = b]
        /\ served' = Served(b)
    BY <2>1 DEF b
  <2>5. served' \in [Backends -> Nat]
    BY <2>3, <2>4 DEF Served
  <2>6. TypeOK'
    <3>1. /\ pc' \in [Workers -> {"idle", "forward", "mark", "release", "refused"}]
          /\ held' \in [Workers -> Backends \cup {None}]
          /\ active_connections' \in [Backends -> Nat]
      BY <2>3, <2>4
    <3> QED
      BY <2>3, <2>5, <3>1
  <2>7. HoldInv' /\ MarkInv' /\ WellInv' /\ InRotationMeansSound'
    BY <2>3, <2>4 DEF HoldInv, MarkInv, WellInv, InRotationMeansSound
  <2>8. AccountingExact'
    <3> SUFFICES ASSUME NEW a \in Backends
                 PROVE  active_connections'[a] = Cardinality(Holders(a)')
      BY DEF AccountingExact
    <3>1. held[w] = None
      BY DEF HoldInv
    <3>2. Holders(a)' = IF a = b THEN Holders(a) \cup {w} ELSE Holders(a)
      BY <2>3, <2>4, <3>1 DEF Holders
    <3>3. w \notin Holders(a) /\ active_connections[a] = Cardinality(Holders(a))
      BY <3>1 DEF Holders, AccountingExact
    <3>4. CASE a = b
      BY <2>3, <2>4, <3>2, <3>3, <3>4, HoldersChange
    <3>5. CASE a # b
      BY <2>3, <2>4, <3>2, <3>3, <3>5
    <3> QED
      BY <3>4, <3>5
  <2> QED
    BY <2>6, <2>7, <2>8
<1>2. ASSUME NEW w \in Workers, GetNone(w) PROVE Inv'
  <2> USE <1>0, <1>2 DEF GetNone
  <2>1. current_index_' \in (-(INT_MAX + 1))..INT_MAX
    BY IndexTypes
  <2>2. TypeOK'
    BY <2>1
  <2>3. HoldInv' /\ MarkInv' /\ WellInv' /\ InRotationMeansSound'
    BY DEF HoldInv, MarkInv, WellInv, InRotationMeansSound
  <2> QED
    BY <2>2, <2>3, CountsKept
<1>3. ASSUME NEW w \in Workers, Refuse(w) \/ Forward(w) PROVE Inv'
  <2>0. PICK p \in {"idle", "mark", "release"} : pc' = [pc EXCEPT ![w] = p]
    BY <1>3 DEF Refuse, Forward
  <2> USE <1>0, <1>3 DEF Refuse, Forward
  <2>1. TypeOK'
    <3>1. pc' \in [Workers -> {"idle", "forward", "mark", "release", "refused"}]
      BY <2>0
    <3>2. UNCHANGED <<is_alive, failed_checks, active_connections, current_index_, running_,
                      health, hidx, probe, held, condition, blemished, served>>
      OBVIOUS
    <3> HIDE <1>3 DEF Refuse, Forward
    <3> QED
      BY <3>1, <3>2
  <2>2. HoldInv'
    BY DEF HoldInv
  <2>3. MarkInv'
    <3>1. ASSUME NEW v \in Workers, pc'[v] = "mark", pc[v] # "mark" PROVE held[v] \in blemished
      <4>1. v = w /\ pc[w] = "forward" /\ Status(held[w]) = 502
        BY <3>1
      <4>2. held[w] \in Backends /\ condition[held[w]] = "bad"
        BY <4>1 DEF HoldInv, Status, ParsedStatus
      <4> QED
        BY <4>1, <4>2 DEF WellInv
    <3> QED
      BY <3>1 DEF MarkInv
  <2>4. WellInv' /\ InRotationMeansSound'
    BY DEF WellInv, InRotationMeansSound
  <2> QED
    BY <2>1, <2>2, <2>3, <2>4, CountsKept
<1>4. ASSUME NEW w \in Workers, MarkDown(w) PROVE Inv'
  <2> USE <1>0, <1>4 DEF MarkDown, Marked, AfterMark
  <2>1. held[w] \in blemished /\ held[w] \in Backends
    BY DEF MarkInv
  <2>2. TypeOK'
    BY <2>1
  <2>3. HoldInv' /\ MarkInv' /\ WellInv' /\ InRotationMeansSound'
    BY <2>1 DEF HoldInv, MarkInv, WellInv, InRotationMeansSound
  <2> QED
    BY <2>2, <2>3, CountsKept
<1>5. ASSUME NEW w \in Workers, Release(w) PROVE Inv'
  <2>1. held[w] \in Backends /\ w \in Holders(held[w])
    BY <1>0, <1>5 DEF Release, HoldInv, Holders
  <2>2. active_connections[held[w]] > 0
    BY <2>1, HoldersChange DEF AccountingExact
  <2>3. active_connections[held[w]] - 1 \in Nat
    BY <2>1, <2>2
  <2> USE <1>0, <1>5 DEF Release
  <2>4. TypeOK'
    <3>1. /\ pc' \in [Workers -> {"idle", "forward", "mark", "release", "refused"}]
          /\ held' \in [Workers -> Backends \cup {None}]
          /\ active_connections' \in [Backends -> Nat]
      BY <2>1, <2>3
    <3> QED
      BY <3>1
  <2>5. HoldInv' /\ MarkInv' /\ WellInv' /\ InRotationMeansSound'
    BY DEF HoldInv, MarkInv, WellInv, InRotationMeansSound
  <2>6. AccountingExact'
    <3> SUFFICES ASSUME NEW a \in Backends
                 PROVE  active_connections'[a] = Cardinality(Holders(a)')
      BY DEF AccountingExact
    <3>1. Holders(a)' = IF a = held[w] THEN Holders(a) \ {w} ELSE Holders(a)
      BY <2>1 DEF Holders
    <3>2. active_connections[a] = Cardinality(Holders(a))
      BY DEF AccountingExact
    <3>3. CASE a = held[w]
      BY <2>1, <3>1, <3>2, <3>3, HoldersChange
    <3>4. CASE a # held[w]
      BY <3>1, <3>2, <3>4
    <3> QED
      BY <3>3, <3>4
  <2> QED
    BY <2>4, <2>5, <2>6
<1>6. ASSUME HealthCheck \/ Wake \/ StopHealthChecks PROVE Inv'
  <2> USE <1>0, <1>6 DEF HealthCheck, Wake, StopHealthChecks
  <2>1. TypeOK'
    <3>1. /\ health' \in {"check", "probe", "apply", "sleep", "exited"}
          /\ running_' \in BOOLEAN /\ probe' \in Conditions \cup {None}
      OBVIOUS
    <3>2. hidx' \in Backends
      BY DEF Backends
    <3>3. UNCHANGED <<is_alive, failed_checks, active_connections, current_index_, pc, held,
                      condition, blemished, served>>
      OBVIOUS
    <3> HIDE <1>6 DEF HealthCheck, Wake, StopHealthChecks
    <3> QED
      BY <3>1, <3>2, <3>3
  <2>2. HoldInv' /\ MarkInv' /\ WellInv' /\ InRotationMeansSound'
    BY DEF HoldInv, MarkInv, WellInv, InRotationMeansSound
  <2> QED
    BY <2>1, <2>2, CountsKept
<1>7. ASSUME Probe PROVE Inv'
  <2> USE <1>0, <1>7 DEF Probe
  <2>1. TypeOK'
    OBVIOUS
  <2>2. HoldInv' /\ MarkInv' /\ WellInv' /\ InRotationMeansSound'
    BY DEF HoldInv, MarkInv, WellInv, InRotationMeansSound
  <2> QED
    BY <2>1, <2>2, CountsKept
<1>8. ASSUME Apply PROVE Inv'
  <2> USE <1>0, <1>8 DEF Apply, ProbeAlive, Revived, StruckOut, FailuresWhenRevived
  <2> DEFINE failures == IF ProbeAlive THEN 0
                         ELSE IF failed_checks[hidx] < Strikes THEN failed_checks[hidx] + 1
                         ELSE Strikes
  <2>1. failures \in 0..Strikes /\ (ProbeAlive => failures = 0)
    BY DEF Strikes
  <2>2. /\ failed_checks' = [failed_checks EXCEPT ![hidx] = failures]
        /\ is_alive' = [is_alive EXCEPT ![hidx] = ProbeAlive \/ (@ /\ ~(failures >= Strikes))]
    OBVIOUS
  <2> HIDE DEF failures
  <2>3. hidx' \in Backends /\ health' \in {"sleep", "probe"}
    BY DEF Backends
  <2>4. is_alive' \in [Backends -> BOOLEAN] /\ failed_checks' \in [Backends -> 0..Strikes]
    BY <2>1, <2>2
  <2>5. TypeOK'
    BY <2>3, <2>4
  <2>6. InRotationMeansSound'
    <3>1. hidx \notin blemished => ProbeAlive
      BY DEF WellInv
    <3>0. /\ is_alive \in [Backends -> BOOLEAN] /\ failed_checks \in [Backends -> 0..Strikes]
          /\ blemished' = blemished
      OBVIOUS
    <3> HIDE <1>8 DEF Apply, ProbeAlive, Revived, StruckOut, FailuresWhenRevived, TypeOK, Inv
    <3>2. ASSUME NEW b \in Backends
          PROVE  /\ is_alive'[b] => failed_checks'[b] < Strikes
                 /\ b \notin blemished' => is_alive'[b]
      <4>1. /\ is_alive[b] => failed_checks[b] < Strikes
            /\ b \notin blemished => is_alive[b]
        BY DEF Inv, InRotationMeansSound
      <4>2. CASE b = hidx
        <5>1. /\ failed_checks'[b] = failures
              /\ is_alive'[b] <=> ProbeAlive \/ (is_alive[b] /\ ~(failures >= Strikes))
          BY <2>2, <3>0, <4>2
        <5> QED
          BY <2>1, <3>0, <3>1, <4>2, <5>1 DEF Strikes
      <4>3. CASE b # hidx
        BY <2>2, <3>0, <4>1, <4>3
      <4> QED
        BY <4>2, <4>3
    <3> QED
      BY <3>2 DEF InRotationMeansSound
  <2>7. HoldInv' /\ MarkInv' /\ WellInv'
    BY <2>3 DEF HoldInv, MarkInv, WellInv
  <2> QED
    BY <2>5, <2>6, <2>7, CountsKept
<1>9. ASSUME NEW b \in Backends, NEW c \in Env, Change(b, c) PROVE Inv'
  <2> USE <1>0, <1>9 DEF Change
  <2>1. TypeOK'
    OBVIOUS
  <2>2. HoldInv' /\ MarkInv' /\ WellInv' /\ InRotationMeansSound'
    BY DEF HoldInv, MarkInv, WellInv, InRotationMeansSound
  <2> QED
    BY <2>1, <2>2, CountsKept
<1>10. CASE UNCHANGED vars
  BY <1>10, CountsKept DEF vars, HoldInv, MarkInv, WellInv, InRotationMeansSound
<1> QED
  BY <1>1, <1>2, <1>3, <1>4, <1>5, <1>6, <1>7, <1>8, <1>9, <1>10
     DEF Next, WorkerStep, HealthStep

-----------------------------------------------------------------------------
(* What the balancer keeps                                                  *)

LEMMA Invariance == Spec => []Inv
  BY InitInv, NextInv, PTL DEF Spec

\* Every variable keeps its type; in particular the shared index stays an int
\* however often get_next increments it.
THEOREM TypeCorrect == Spec => []TypeOK
<1>1. Inv => TypeOK
  BY DEF Inv
<1> QED
  BY <1>1, Invariance, PTL

\* active_connections is the number of requests under way, for any number of
\* workers and backends: get_next and release match on each path.
THEOREM Accounting == Spec => []AccountingExact
<1>1. Inv => AccountingExact
  BY DEF Inv
<1> QED
  BY <1>1, Invariance, PTL

\* No backend with three strikes is in rotation, and one that has always
\* answered is never taken out, whatever mark_down and the health thread do.
THEOREM RotationSound == Spec => []InRotationMeansSound
<1>1. Inv => InRotationMeansSound
  BY DEF Inv
<1> QED
  BY <1>1, Invariance, PTL

-----------------------------------------------------------------------------
(* Round robin, when the number of backends divides the number of ints     *)

\* Quotient and remainder.
LEMMA Division ==
    ASSUME NEW n \in Nat \ {0}, NEW x \in Int
    PROVE  x \div n \in Int /\ x % n \in 0..(n - 1) /\ x = n * (x \div n) + (x % n)
  OBVIOUS

\* A product that is closer to zero than one of its factors is zero.
LEMMA SmallProduct ==
    ASSUME NEW n \in Nat \ {0}, NEW z \in Int, -n < n * z, n * z < n
    PROVE  z = 0
  OBVIOUS

\* A number has one remainder: whoever is n * q + r with r below n leaves r.
LEMMA Remainder ==
    ASSUME NEW n \in Nat \ {0}, NEW q \in Int, NEW r \in 0..(n - 1)
    PROVE  (n * q + r) % n = r
<1> DEFINE x == n * q + r
<1>1. x \in Int
  OBVIOUS
<1>2. PICK e \in Int, s \in 0..(n - 1) : s = x % n /\ x = n * e + s
  BY <1>1, Division
<1>3. n * (q - e) = s - r
  BY <1>2
<1>4. q - e \in Int /\ -n < n * (q - e) /\ n * (q - e) < n
  BY <1>2, <1>3
<1>5. q - e = 0
  BY <1>4, SmallProduct
<1>6. s = r
  BY <1>3, <1>5
<1> QED
  BY <1>2, <1>6

\* Remainders by n do not notice multiples of n.
LEMMA RemainderShift ==
    ASSUME NEW n \in Nat \ {0}, NEW q \in Int, NEW x \in Int
    PROVE  (x + n * q) % n = x % n
<1>1. PICK e \in Int, s \in 0..(n - 1) : s = x % n /\ x = n * e + s
  BY Division
<1>2. PICK z \in Int : z = e + q
  OBVIOUS
<1>3. (n * z + s) % n = s
  BY Remainder
<1>4. x + n * q = n * z + s
  BY <1>1, <1>2
<1> QED
  BY <1>1, <1>3, <1>4

\* Neither the conversion to size_t nor the wrap of the int is to be seen in a
\* remainder by a number n that divides both ranges.
LEMMA RemainderOfRemainder ==
    ASSUME NEW n \in Nat \ {0}, NEW m \in Nat \ {0}, NEW d \in Nat, m = n * d, NEW x \in Int
    PROVE  (x % m) % n = x % n
<1>1. PICK e \in Int, s \in 0..(m - 1) : s = x % m /\ x = m * e + s
  BY Division
<1>2. PICK z \in Int : z = d * e
  OBVIOUS
<1>3. (s + n * z) % n = s % n
  <2>1. s \in Int
    OBVIOUS
  <2> QED
    BY <2>1, RemainderShift, Zenon
<1>4. x = s + n * z
  BY <1>1, <1>2
<1> QED
  BY <1>1, <1>3, <1>4

LEMMA RemainderOfWrap ==
    ASSUME NEW n \in Nat \ {0}, NEW m \in Nat \ {0}, NEW d \in Nat, m = n * d,
           NEW h \in Int, NEW x \in Int
    PROVE  (((x + h) % m) - h) % n = x % n
<1>1. PICK y \in Int : y = x + h
  OBVIOUS
<1>2. PICK e \in Int, s \in 0..(m - 1) : s = y % m /\ y = m * e + s
  BY Division
<1>3. PICK z \in Int, u \in Int : z = d * e /\ u = s - h
  OBVIOUS
<1>4. (u + n * z) % n = u % n
  BY RemainderShift
<1>5. x = u + n * z
  <2>1. m * e = n * z
    BY <1>3
  <2>2. y = m * e + s /\ m * e \in Int
    BY <1>2
  <2> QED
    BY <1>1, <1>3, <2>1, <2>2
<1>6. ((x + h) % m) - h = u
  BY <1>1, <1>2, <1>3
<1> QED
  BY <1>4, <1>5, <1>6

\* Whoever is at v and increments k times looks at backend (v + k) % N.
LEMMA SlotIsRemainder ==
    ASSUME NEW d \in Nat, Ints = N * d, NEW v \in Int, NEW k \in Int
    PROVE  Slot(v) = v % N /\ Slot(Advance(v, k)) = (v + k) % N
<1>1. N \in Nat \ {0} /\ Ints \in Nat \ {0} /\ INT_MAX + 1 \in Int /\ SIZE_MAX + 1 \in Nat \ {0}
  BY BalancerAssumption DEF Ints
<1>2. PICK f \in 1..(SIZE_MAX + 1) : SIZE_MAX + 1 = Ints * f
  BY BalancerAssumption
<1>3. PICK g \in Nat : g = d * f
  BY <1>1
<1>4. SIZE_MAX + 1 = N * g
  BY <1>1, <1>2, <1>3
<1>5. ASSUME NEW u \in Int PROVE Slot(u) = u % N
  BY <1>1, <1>4, RemainderOfRemainder DEF Slot
<1>6. PICK x \in Int : x = v + k
  OBVIOUS
<1>7. (((x + (INT_MAX + 1)) % Ints) - (INT_MAX + 1)) % N = x % N
  BY <1>1, RemainderOfWrap
<1>8. Advance(v, k) % N = (v + k) % N
  BY <1>6, <1>7 DEF Advance
<1> QED
  BY <1>5, <1>8, IndexTypes

\* The next slot is the next backend, and the first after the last.
LEMMA NextSlot ==
    ASSUME NEW d \in Nat, Ints = N * d, NEW v \in Int
    PROVE  Slot(Advance(v, 1)) = IF Slot(v) = N - 1 THEN 0 ELSE Slot(v) + 1
<1>1. N \in Nat \ {0}
  BY BalancerAssumption
<1>2. PICK e \in Int, r \in 0..(N - 1) : r = v % N /\ v = N * e + r
  BY <1>1, Division
<1>3. Slot(v) = r /\ Slot(Advance(v, 1)) = (v + 1) % N
  <2>1. 1 \in Int
    OBVIOUS
  <2>2. Slot(v) = v % N /\ Slot(Advance(v, 1)) = (v + 1) % N
    BY <2>1, SlotIsRemainder, Zenon
  <2> QED
    BY <1>2, <2>2, Zenon
<1>4. CASE r = N - 1
  <2>1. PICK z \in Int : z = e + 1
    OBVIOUS
  <2>2. (N * z + 0) % N = 0
    BY <1>1, Remainder
  <2>3. v + 1 = N * z + 0
    BY <1>1, <1>2, <1>4, <2>1
  <2> QED
    BY <1>3, <1>4, <2>2, <2>3
<1>5. CASE r # N - 1
  <2>1. PICK t \in 0..(N - 1) : t = r + 1
    BY <1>1, <1>5
  <2>2. (N * e + t) % N = t
    BY <1>1, Remainder
  <2>3. v + 1 = N * e + t
    <3>1. v = N * e + r /\ N * e \in Int
      BY <1>1, <1>2
    <3> QED
      BY <1>1, <2>1, <3>1
  <2> QED
    BY <1>3, <1>5, <2>1, <2>2, <2>3
<1> QED
  BY <1>4, <1>5

\* The first look is at the index itself.
LEMMA FirstLook ==
    ASSUME NEW d \in Nat, Ints = N * d, NEW v \in Int
    PROVE  Slot(Advance(v, 0)) = Slot(v)
<1>1. 0 \in Int /\ v + 0 = v
  OBVIOUS
<1>2. Slot(v) = v % N /\ Slot(Advance(v, 0)) = (v + 0) % N
  BY <1>1, SlotIsRemainder, Zenon
<1> QED
  BY <1>1, <1>2, Zenon

\* Every backend is within N increments of the index.
LEMMA EverySlotInReach ==
    ASSUME NEW d \in Nat, Ints = N * d, NEW v \in Int, NEW b \in Backends
    PROVE  \E k \in Probes : Slot(Advance(v, k)) = b
<1>1. N \in Nat \ {0} /\ b \in 0..(N - 1)
  BY BalancerAssumption DEF Backends
<1>2. PICK x \in Int : x = b - v
  BY <1>1
<1>3. PICK e \in Int, k \in 0..(N - 1) : k = x % N /\ x = N * e + k
  BY <1>1, Division
<1>4. PICK z \in Int : z = -e
  OBVIOUS
<1>5. (N * z + b) % N = b
  BY <1>1, Remainder
<1>6. v + k = N * z + b
  <2>1. x = N * e + k /\ N * e \in Int /\ N * z = -(N * e)
    BY <1>1, <1>3, <1>4
  <2> QED
    BY <1>1, <1>2, <2>1
<1>7. Slot(Advance(v, k)) = (v + k) % N
  BY SlotIsRemainder
<1> QED
  BY <1>5, <1>6, <1>7 DEF Probes

\* As long as nobody has a blemish, the backends below the index's slot are the
\* ones that are one request ahead.
LapInv ==
    blemished = {} =>
       \A b \in Backends : served[b] = IF b < Slot(current_index_) THEN 1 ELSE 0

\* The proof of the next two theorems: as long as nobody has a blemish all are
\* alive, and get_next returns the backend its first look finds.
LEMMA NextLap ==
    ASSUME NEW d \in Nat, Ints = N * d
    PROVE  Inv /\ LapInv /\ [Next]_vars => LapInv'
<1> SUFFICES ASSUME Inv, LapInv, [Next]_vars, blemished' = {}
             PROVE  \A b \in Backends :
                       served'[b] = IF b < Slot(current_index_)' THEN 1 ELSE 0
  BY DEF LapInv
<1>1. blemished = {}
  BY DEF Next, vars, WorkerStep, GetNext, GetNone, Refuse, Forward, MarkDown, Release,
         HealthStep, HealthCheck, Probe, Apply, Wake, StopHealthChecks, Change
<1>2. /\ N \in Nat \ {0} /\ Backends = 0..(N - 1) /\ current_index_ \in Int
      /\ served \in [Backends -> Nat]
  BY BalancerAssumption DEF Inv, TypeOK, Backends
<1>3. \A b \in Backends : is_alive[b] /\ served[b] = IF b < Slot(current_index_) THEN 1 ELSE 0
  BY <1>1 DEF Inv, InRotationMeansSound, LapInv
<1>4. Slot(current_index_) \in Backends /\ 0 \in Hits
  <2>1. Slot(current_index_) \in Backends
    BY <1>2, IndexTypes
  <2>2. Slot(Advance(current_index_, 0)) = Slot(current_index_)
    BY <1>2, FirstLook, Zenon
  <2>3. 0 \in Probes
    BY <1>2 DEF Probes
  <2> QED
    BY <1>3, <2>1, <2>2, <2>3, Zenon DEF Hits
<1>5. ASSUME NEW w \in Workers, GetNext(w)
      PROVE  \A b \in Backends : served'[b] = IF b < Slot(current_index_)' THEN 1 ELSE 0
  <2> DEFINE s == Slot(current_index_)
  <2>1. s \in 0..(N - 1) /\ 0 \in Hits
    BY <1>2, <1>4
  <2>2. /\ current_index_' = Advance(current_index_, 1)
        /\ served' = Served(s)
    <3>1. PICK k \in Hits :
            /\ \A j \in Hits : k <= j
            /\ current_index_' = Advance(current_index_, k + 1)
            /\ served' = Served(Slot(Advance(current_index_, k)))
      BY <1>5 DEF GetNext
    <3>2. k = 0 /\ k + 1 = 1
      BY <1>2, <2>1, <3>1 DEF Hits, Probes
    <3> QED
      BY <1>2, <3>1, <3>2, FirstLook
  <2>3. Slot(current_index_)' = IF s = N - 1 THEN 0 ELSE s + 1
    BY <1>2, <2>2, NextSlot
  <2> HIDE DEF s
  <2> DEFINE t == [served EXCEPT ![s] = @ + 1]
  <2>4. \A i \in Backends : t[i] = IF i <= s THEN 1 ELSE 0
    BY <1>2, <1>3, <2>1 DEF s
  <2>5. served' = IF \A i \in Backends : t[i] > 0 THEN [i \in Backends |-> t[i] - 1] ELSE t
    BY <1>1, <2>2 DEF Served
  <2> HIDE DEF t
  <2>6. CASE s = N - 1
    BY <1>2, <2>3, <2>4, <2>5, <2>6
  <2>7. CASE s # N - 1
    <3>1. N - 1 \in Backends /\ t[N - 1] = 0
      BY <1>2, <2>1, <2>4, <2>7
    <3>2. served' = t
      BY <2>5, <3>1
    <3> QED
      BY <1>2, <2>1, <2>3, <2>4, <2>7, <3>2
  <2> QED
    BY <2>6, <2>7
<1>6. ASSUME NEW w \in Workers, GetNone(w) PROVE FALSE
  BY <1>6, <1>4 DEF GetNone
<1>7. CASE UNCHANGED <<served, current_index_>>
  BY <1>3, <1>7
<1> QED
  BY <1>5, <1>6, <1>7
     DEF Next, vars, WorkerStep, Refuse, Forward, MarkDown, Release,
         HealthStep, HealthCheck, Probe, Apply, Wake, StopHealthChecks, Change

\* Round robin is fair while all backends are sound, if the number of backends
\* divides the number of ints, that is, if it is a power of two.  For another
\* number the wrap of the index breaks the order.
THEOREM RoundRobin ==
    ASSUME NEW d \in Nat, Ints = N * d
    PROVE  Spec => []RoundRobinFair
<1>1. Init => LapInv
  <2> SUFFICES ASSUME Init PROVE LapInv
    OBVIOUS
  <2>1. Slot(0) \in Backends
    BY IndexTypes
  <2>2. Slot(0) = 0
    <3>1. 0 % N = 0
      BY BalancerAssumption
    <3>2. 0 \in Int
      OBVIOUS
    <3> QED
      BY <3>1, <3>2, SlotIsRemainder, Zenon
  <2> QED
    BY <2>2, BalancerAssumption DEF Init, LapInv, Backends
<1>2. Inv /\ LapInv => RoundRobinFair
  <2> SUFFICES ASSUME Inv, LapInv, blemished = {}, NEW b1 \in Backends, NEW b2 \in Backends
               PROVE  served[b1] - served[b2] <= 1
    BY DEF RoundRobinFair
  <2>1. served[b1] \in {0, 1} /\ served[b2] \in {0, 1}
    BY DEF LapInv
  <2> QED
    BY <2>1
<1> QED
  BY <1>1, <1>2, InitInv, NextInv, NextLap, PTL DEF Spec

\* get_next answers nullptr only if it has looked at every backend and none is
\* alive, under the same condition.
THEOREM NullMeansAllDown ==
    ASSUME NEW d \in Nat, Ints = N * d
    PROVE  Spec => NullOnlyIfAllDown
<1>1. ASSUME Inv, [Next]_vars
      PROVE  [\A w \in Workers : pc[w] = "idle" /\ pc'[w] = "refused"
                => \A b \in Backends : ~is_alive[b]]_vars
  <2> SUFFICES ASSUME NEW w \in Workers, pc[w] = "idle", pc'[w] = "refused",
                      NEW b \in Backends
               PROVE  ~is_alive[b]
    OBVIOUS
  <2>1. pc \in [Workers -> {"idle", "forward", "mark", "release", "refused"}]
        /\ current_index_ \in Int
    BY <1>1, BalancerAssumption DEF Inv, TypeOK
  <2>2. Hits = {}
    BY <1>1, <2>1 DEF Next, vars, WorkerStep, GetNext, GetNone, Refuse, Forward, MarkDown, Release,
           AfterMark, HealthStep, HealthCheck, Probe, Apply, Wake, StopHealthChecks, Change
  <2>3. PICK k \in Probes : Slot(Advance(current_index_, k)) = b
    BY <2>1, EverySlotInReach
  <2> QED
    BY <2>2, <2>3 DEF Hits
<1> QED
  BY <1>1, Invariance, PTL DEF Spec, NullOnlyIfAllDown

\* The numbers below an int's or a size_t's number of values are unchanged.
LEMMA SmallRemainder ==
    ASSUME NEW n \in Nat \ {0}, NEW r \in 0..(n - 1)
    PROVE  r % n = r
<1>1. (n * 0 + r) % n = r
  BY Remainder
<1> QED
  BY <1>1

\* Without the condition get_next may answer nullptr although a backend is
\* alive: the index -1 becomes the largest size_t, and where the number of
\* backends divides that (3 divides 2^64 - 1) it selects the same backend as the
\* index 0 that follows.  A scan that begins there looks at the first backend
\* twice and never at the last.
THEOREM WrapMissesOne ==
    ASSUME N > 1, N <= INT_MAX, SIZE_MAX % N = 0, current_index_ = -1,
           \A b \in Backends : is_alive[b] <=> b = N - 1
    PROVE  Hits = {}
<1>1. /\ N \in Nat \ {0} /\ INT_MAX \in Nat /\ SIZE_MAX \in Nat
      /\ Ints \in Nat \ {0} /\ Ints = 2 * (INT_MAX + 1)
  BY BalancerAssumption DEF Ints
<1>2. SIZE_MAX + 1 >= Ints
  <2>1. PICK f \in 1..(SIZE_MAX + 1) : SIZE_MAX + 1 = Ints * f
    BY BalancerAssumption
  <2>2. Ints * f >= Ints
    BY <1>1, <2>1
  <2> QED
    BY <2>1, <2>2
<1>3. ASSUME NEW k \in Probes PROVE Advance(-1, k) = k - 1
  <2>1. PICK x \in 0..(Ints - 1) : x = k + INT_MAX
    BY <1>1 DEF Probes
  <2>2. x % Ints = x
    BY <1>1, SmallRemainder
  <2>3. (-1) + k + (INT_MAX + 1) = x
    BY <1>1, <2>1 DEF Probes
  <2> QED
    BY <1>1, <2>1, <2>2, <2>3 DEF Advance, Probes
<1>4. Slot(-1) = 0
  <2>1. PICK m \in Nat \ {0} : m = SIZE_MAX + 1
    BY <1>1
  <2>2. SIZE_MAX \in 0..(m - 1) /\ -1 = m * (-1) + SIZE_MAX
    BY <1>1, <2>1
  <2>3. (m * (-1) + SIZE_MAX) % m = SIZE_MAX
    BY <2>2, Remainder
  <2>4. (-1) % m = SIZE_MAX
    BY <2>2, <2>3
  <2> QED
    BY <2>1, <2>4 DEF Slot
<1>5. ASSUME NEW v \in 0..(N - 2) PROVE Slot(v) = v
  <2>1. PICK m \in Nat \ {0} : m = SIZE_MAX + 1
    BY <1>1
  <2>2. v % m = v
    <3>1. v \in 0..(m - 1)
      BY <1>1, <1>2, <2>1
    <3> QED
      BY <3>1, SmallRemainder
  <2>3. v % N = v
    <3>1. v \in 0..(N - 1)
      BY <1>1
    <3> QED
      BY <1>1, <3>1, SmallRemainder
  <2> QED
    BY <2>1, <2>2, <2>3 DEF Slot
<1>6. ASSUME NEW k \in Probes
      PROVE  Slot(Advance(-1, k)) \in Backends /\ Slot(Advance(-1, k)) # N - 1
  <2>1. CASE k = 0
    BY <1>1, <1>3, <1>4, <2>1 DEF Backends
  <2>2. CASE k # 0
    <3>1. k - 1 \in 0..(N - 2)
      BY <1>1, <2>2 DEF Probes
    <3>2. Slot(k - 1) = k - 1
      BY <1>5, <3>1
    <3> QED
      BY <1>1, <1>3, <3>1, <3>2 DEF Backends
  <2> QED
    BY <2>1, <2>2
<1> QED
  BY <1>6 DEF Hits
=============================================================================
