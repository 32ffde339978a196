---------------------------- MODULE TokenBucket -----------------------------
(***************************************************************************)
(* What rate limiting promises to each client address: a bucket of at most *)
(* Burst that fills by Rate with every tick of the clock, from which every *)
(* request that is let through takes One.  Levels are kept for all         *)
(* addresses at all times; nothing is ever forgotten.                      *)
(***************************************************************************)
EXTENDS Integers

CONSTANTS IPs, Rate, One, Burst, NoVerdict

VARIABLES level,    \* address -> what its bucket holds
          verdict   \* the latest decision

Least(a, b) == IF a <= b THEN a ELSE b

Init ==
    /\ level = [ip \in IPs |-> Burst]
    /\ verdict = NoVerdict

Elapse ==
    /\ level' = [ip \in IPs |-> Least(Burst, level[ip] + Rate)]
    /\ UNCHANGED verdict

Grant(ip) ==
    /\ level[ip] >= One
    /\ level' = [level EXCEPT ![ip] = @ - One]
    /\ verdict' = [ip |-> ip, allowed |-> TRUE]

Deny(ip) ==
    /\ level[ip] < One
    /\ verdict' = [ip |-> ip, allowed |-> FALSE]
    /\ UNCHANGED level

Next == Elapse \/ \E ip \in IPs : Grant(ip) \/ Deny(ip)

Spec == Init /\ [][Next]_<<level, verdict>>
=============================================================================
