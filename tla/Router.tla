------------------------------- MODULE Router -------------------------------
(***************************************************************************)
(* The router of src/http/router.cpp: routes_ is a sequence of records     *)
(* [prefix, methods, target], kept sorted by the length of the prefix,     *)
(* longest first.  Prefixes and paths are sequences of characters; a       *)
(* target is the handler with what it is bound to.                         *)
(***************************************************************************)
EXTENDS Integers, Sequences, SequencesExt

Sorted(routes) ==
    \A i, j \in DOMAIN routes : i < j => Len(routes[i].prefix) >= Len(routes[j].prefix)

\* Mutant of add_route: the new route goes to the end.
AddLast(routes, r) == {Append(routes, r)}

\* push_back and std::sort, which leaves the order of routes with prefixes of
\* equal length open: the routes that may result.
add_route(routes, r) ==
    {s \in {InsertAt(routes, i, r) : i \in 1..(Len(routes) + 1)} : Sorted(s)}

\* "/" matches everything; else the path is the prefix or goes on with '/'.
Match(prefix, path) ==
    \/ prefix = <<"/">>
    \/ path = prefix
    \/ /\ Len(path) > Len(prefix)
       /\ SubSeq(path, 1, Len(prefix)) = prefix
       /\ path[Len(prefix) + 1] = "/"

Target(handler, argument) == [handler |-> handler, argument |-> argument]

\* route: the first route that matches decides; if its methods do not allow
\* the request's the answer is 405.  No default handler is ever set.
route(routes, request) ==
    LET n == SelectInSeq(routes, LAMBDA r : Match(r.prefix, request.path)) IN
    IF n = 0 THEN Target("404", "")
    ELSE IF routes[n].methods # <<>> /\ ~Contains(routes[n].methods, request.method)
    THEN Target("405", "")
    ELSE routes[n].target
=============================================================================
