----------------------- MODULE MCEdgeBarrierShutdown -----------------------
(***************************************************************************)
(* Small worlds for EdgeBarrierShutdown; groups are named as in            *)
(* MCEdgeBarrier.                                                          *)
(***************************************************************************)
EXTENDS EdgeBarrierShutdown, TLC

ThreeRanks == {0, 1, 2}

\* Overlapping groups of different sizes.  All calls complete, an edge used
\* twice and a barrier left that rank 0 has no part in; rank 1 never joins rank
\* 2's barrier; ranks 0 and 1 deadlock, rank 2 waiting in the barrier of all.
MixedGroups == {"ABC", "AB", "BC"}
MixedMembers == [ABC |-> ThreeRanks, AB |-> {0, 1}, BC |-> {1, 2}]
MixedSchedules ==
    {(0 :> <<"AB", "AB">> @@ 1 :> <<"AB", "AB", "BC">> @@ 2 :> <<"BC">>),
     (0 :> <<"AB">> @@ 1 :> <<"AB">> @@ 2 :> <<"BC">>),
     (0 :> <<"AB", "ABC">> @@ 1 :> <<"ABC", "AB">> @@ 2 :> <<"ABC">>)}
=============================================================================
