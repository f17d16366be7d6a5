---------------------------- MODULE MCParameters ----------------------------
(***************************************************************************)
(* An instance of Parameters for TLC: a stepped parameter of three values, *)
(* whose identifier is below NumLowIDs, and a continuous one, which the    *)
(* plugin may drop.  They share a unit, and one repeats its name below it. *)
(***************************************************************************)
EXTENDS Parameters, TLC

TheIds == {0, 2}

TheInfo ==
  (0 :> [min |-> -1, max |-> 1, stepped |-> TRUE, module |-> <<"osc", "osc">>]) @@
  (2 :> [min |-> 2, max |-> 4, stepped |-> FALSE, module |-> <<"osc", "wt">>])

TheLists == {<<2, 0>>, <<0>>}

ThePositions == {2, 6}
=============================================================================
