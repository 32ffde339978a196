--------------------------- MODULE MCStaticFiles ----------------------------
(***************************************************************************)
(* StaticFiles for TLC: the root's index under two keys, a file beside it  *)
(* that is asked for with something behind a NUL, a directory without an   *)
(* index, and paths that wander.                                           *)
(***************************************************************************)
EXTENDS StaticFiles

MCFiles == {<<"a">>, <<"i">>}
MCDirs == {<<>>, <<"d">>}
MCKeys == {<<"i">>, <<"", "i">>, <<"d", "i">>, <<"a%00">>}

MCBeforeNul == [n \in {"a%00", "..%00"} |-> IF n = "a%00" THEN "a" ELSE ".."]

MCContents == {[file |-> <<"a">>, size |-> 1], [file |-> <<"a">>, size |-> 3],
               [file |-> <<"i">>, size |-> 1], [file |-> <<"i">>, size |-> 2]}

MCRequests == {<<"", "">>, <<"", "i">>, <<"", "d">>, <<"", "d", "">>,
               <<"", "d", ".", "..", "a%00">>, <<"", "..", "a%00">>, <<"", "..%00">>}
=============================================================================
