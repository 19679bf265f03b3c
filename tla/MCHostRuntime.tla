--------------------------- MODULE MCHostRuntime ---------------------------
(***************************************************************************)
(* Rank a, two ids, three rank lists; ab is the rank list of p2p calls   *)
(* and its hash is the id "p", so "p" is what register_group(ab) uses too. *)
(***************************************************************************)
EXTENDS HostRuntime, TLC

Lists == {<<"a", "b">>, <<"b", "a">>, <<"b", "c">>}
ForeignLists == {<<"b", "c">>}
P2PLists == {<<"a", "b">>}
Ids == {"p", "g"}
Hash == [rt \in Lists |-> IF rt \in P2PLists THEN "p" ELSE "g"]

\* Blocks are interchangeable.
BlockSymmetry == Permutations(Block)
=============================================================================
