---------------------------- MODULE MCThreadPool ----------------------------
(***************************************************************************)
(* ThreadPool for TLC.  Three tasks are enough for a queue of two while    *)
(* one runs, two callers for a push between another's push and its notify, *)
(* two workers for one to sleep while the other is busy.  There is no      *)
(* symmetry, since the run also checks liveness.                           *)
(***************************************************************************)
EXTENDS ThreadPool
=============================================================================
