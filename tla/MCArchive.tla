----------------------------- MODULE MCArchive -----------------------------
(***************************************************************************)
(* Instances of Archive for TLC.                                           *)
(***************************************************************************)
EXTENDS Lookup, TLC

\* j0 dumped the root of the cell before, j1 the volume; j2 and j3 are at
\* work for it, j4 for a dump of another volume that an operator brings.
CONSTANTS root, v, w, j0, j1, j2, j3, j4, s1, s2

Volumes == [j \in Job |-> IF j = j0 THEN root ELSE IF j = j4 THEN w ELSE v]
Estimates == [j \in Job |-> IF j = j3 THEN 2 ELSE 1]
Sizes == [j \in Job |-> IF j = j2 THEN {4} ELSE {1}]
Earlier == <<j0, j1>>
Capacities == s1 :> 7 @@ s2 :> 5

Abs(to) == [kind |-> "abs", to |-> <<"afs", ".cell">> \o to]
Rel(to) == [kind |-> "rel", to |-> to]
Mount(vol) == [kind |-> "mount", to |-> vol]
RWMount(vol) == [kind |-> "rw", to |-> vol]

RootLinks ==
  <<"m">> :> Mount(v) @@ <<"d", "n">> :> Mount(v) @@ <<"l">> :> Rel(<<"d", "k">>)
  @@ <<"w">> :> Mount(w) @@ <<"d", "k">> :> Rel(<<"..", "m">>) @@ <<"loop">> :> Rel(<<"d", "pool">>)
  @@ <<"d", "pool">> :> Abs(<<"loop">>) @@ <<"alien">> :> [kind |-> "abs", to |-> <<"tmp">>]
  @@ <<"rw">> :> RWMount(v)
VolLinks ==
  <<"up">> :> Abs(<<"d">>) @@ <<"x", "y">> :> Rel(<<"..", "z">>)
  @@ <<"back">> :> Rel(<<"..", "d", "n">>) @@ <<"top">> :> [kind |-> "abs", to |-> <<>>]
Links == [j \in Job |-> IF j = j0 THEN RootLinks ELSE VolLinks]

Paths ==
  {<<"afs", "cell">> \o p :
     p \in {<<>>, <<"d">>, <<"m">>, <<"m", "up">>, <<"m", "up", "n", "x", "y", "f">>,
            <<"l", "x", ".", "y">>, <<"d", "n", "..", "k", "up">>, <<"loop">>, <<"alien">>, <<"w", "up">>,
            <<"..", "..", "..">>, <<"..", ".cell", "m", "x", "..", "..", "d">>, <<"m", "back">>,
            <<"m", "top">>, <<"m", "top", "afs", "cell", "d", "n">>, <<"m", "up", "..", "f">>,
            <<"rw", "f">>}}

Scenes ==
  {{j2, j3, "clean"}, {j2, j3, "trim", "delete"}, {j2, j4}, {j2, "delete", "search"},
   {j2, "walk"}, {j2, j3, "users"}}
=============================================================================
