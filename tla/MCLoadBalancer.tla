--------------------------- MODULE MCLoadBalancer ---------------------------
(***************************************************************************)
(* LoadBalancer for TLC, with an index of few bits in a wider size_t, so   *)
(* that it wraps within a few requests.                                    *)
(***************************************************************************)
EXTENDS LoadBalancer
=============================================================================
