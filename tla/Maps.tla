-------------------------------- MODULE Maps --------------------------------
(***************************************************************************)
(* The operation of std::unordered_map that several parts of the code use. *)
(***************************************************************************)

\* map[key] = value.
Assigned(map, key, value) ==
    [k \in {key} \cup DOMAIN map |-> IF k = key THEN value ELSE map[k]]
=============================================================================
