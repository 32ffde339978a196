------------------------------ MODULE LRUCache ------------------------------
(***************************************************************************)
(* The file cache of src/middleware/cache.cpp: a map, a recency list and a *)
(* running total of bytes, changed together under mutex_.  Each operation  *)
(* is one step.  An entry keeps what the operations look at: its data and  *)
(* its age, counted in ticks up to the age at which it has expired.  The   *)
(* fields hits_, misses_, access_count and last_accessed are written and   *)
(* never decide anything; they are left out.  Module StaticFiles is the    *)
(* caller.                                                                 *)
(***************************************************************************)
EXTENDS Integers, Sequences, FiniteSetsExt, SequencesExt

CONSTANTS Keys,
          Contents,         \* what can be cached: records with a field size
          max_size_bytes_,
          ttl_seconds_,
          TicksPerSecond,
          Absent            \* a key that is not in the map

ASSUME CacheAssumption ==
    /\ \A data \in Contents : data.size \in Nat
    /\ {max_size_bytes_, ttl_seconds_} \subseteq Nat
    /\ TicksPerSecond \in Nat \ {0}
    /\ Absent \notin Contents \cup [data : Contents, age : Nat]

VARIABLES
    cache_,        \* key -> [data, age], or Absent
    lru_list_,     \* keys, most recently used first
    current_size_

cacheVars == <<cache_, lru_list_, current_size_>>

CacheInit ==
    /\ cache_ = [k \in Keys |-> Absent]
    /\ lru_list_ = <<>>
    /\ current_size_ = 0

Cached == {k \in Keys : cache_[k] # Absent}

-----------------------------------------------------------------------------

\* The first age, in ticks, whose whole seconds exceed the time to live; no
\* operation tells older entries apart.
ExpiredAge == (ttl_seconds_ + 1) * TicksPerSecond

\* Mutant of Older: a hit keeps the entry young.
OlderUnlessUsed(k) == IF lru_list_ # <<>> /\ k = Head(lru_list_)
                      THEN cache_[k].age ELSE Min({cache_[k].age + 1, ExpiredAge})

\* The age of an entry one tick later.
Older(k) == Min({cache_[k].age + 1, ExpiredAge})

\* Time passes.
Age ==
    /\ cache_' = [k \in Keys |->
          IF k \in Cached THEN [cache_[k] EXCEPT !.age = Older(k)] ELSE Absent]
    /\ UNCHANGED <<lru_list_, current_size_>>

\* The age, in whole seconds, exceeds the time to live.
Expired(e) == e.age \div TicksPerSecond > ttl_seconds_

\* The list without a key: the one place the map's iterator points to.
Without(list, k) == RemoveFirst(list, k)

\* The running total once a key's entry is erased.
SizeWithout(k) == current_size_ - cache_[k].data.size

\* Mutant of Erase: the key stays in the recency list.
EraseFromMap(k) ==
    /\ cache_' = [cache_ EXCEPT ![k] = Absent]
    /\ current_size_' = SizeWithout(k)
    /\ UNCHANGED lru_list_

Erase(k) ==
    /\ cache_' = [cache_ EXCEPT ![k] = Absent]
    /\ lru_list_' = Without(lru_list_, k)
    /\ current_size_' = SizeWithout(k)

\* get: a key that is not there.
GetMiss(k) ==
    /\ k \notin Cached
    /\ UNCHANGED cacheVars

\* An expired entry is evicted and reported as a miss.
GetExpired(k) ==
    /\ k \in Cached /\ Expired(cache_[k])
    /\ Erase(k)

\* Mutant of Touched: a hit leaves the recency list as it is.
Untouched(k) == lru_list_

\* The list after a hit.
Touched(k) == <<k>> \o Without(lru_list_, k)

GetHit(k) ==
    /\ k \in Cached /\ ~Expired(cache_[k])
    /\ lru_list_' = Touched(k)
    /\ UNCHANGED <<cache_, current_size_>>

-----------------------------------------------------------------------------

\* The bytes that the map has for some keys.
Bytes(keys) == SumFunction([k \in keys \cap Cached |-> cache_[k].data.size])

\* What is left of the list when the loop has popped keys off its end until
\* the new data fits or nothing is left.
Survivors(list, total, size) ==
    LET fits == {n \in 0..Len(list) :
                   total - Bytes(Range(SubSeq(list, n + 1, Len(list)))) + size <= max_size_bytes_}
    IN  SubSeq(list, 1, IF fits = {} THEN 0 ELSE Max(fits))

\* put: an item larger than the cache is ignored.
PutTooLarge(k, data) ==
    /\ data.size > max_size_bytes_
    /\ UNCHANGED cacheVars

\* An entry of the same key is erased, entries are evicted from the back, and
\* the new one goes in front.
Put(k, data) ==
    LET list  == Without(lru_list_, k)
        total == IF k \in Cached THEN SizeWithout(k) ELSE current_size_
        kept  == Survivors(list, total, data.size)
        gone  == Range(SubSeq(list, Len(kept) + 1, Len(list)))
    IN
    /\ data.size <= max_size_bytes_
    /\ lru_list_' = <<k>> \o kept
    /\ cache_' = [j \in Keys |->
          IF j = k THEN [data |-> data, age |-> 0]
          ELSE IF j \in gone THEN Absent
          ELSE cache_[j]]
    /\ current_size_' = total - Bytes(gone) + data.size

RemoveKey(k) ==
    /\ k \in Cached
    /\ Erase(k)

Clear ==
    /\ lru_list_' = <<>>
    /\ cache_' = [k \in Keys |-> Absent]
    /\ current_size_' = 0

-----------------------------------------------------------------------------
(* Properties                                                               *)

\* Map, list and total agree after any sequence of operations: the list holds
\* every cached key once, and the total is the sum of the sizes and within the
\* limit.
Consistent ==
    /\ IsInjective(lru_list_)
    /\ Range(lru_list_) = Cached
    /\ current_size_ <= max_size_bytes_
    /\ current_size_ = Bytes(Cached)
=============================================================================
