------------------------- MODULE MCFusedCollectives -------------------------
(***************************************************************************)
(* Small worlds for FusedCollectives: groups named as in MCCollectives.    *)
(***************************************************************************)
EXTENDS FusedCollectives, TLC

ThreeRanks == {0, 1, 2}
Ordered == [AB |-> <<0, 1>>, BC |-> <<1, 2>>]
Groups == DOMAIN Ordered

\* Windows of MaxChunks = 5 steps; the one of the second call on AB wraps.
AllBases == [AB |-> <<20, 26>>, BC |-> <<5, 13>>]
Bases == [g \in Group |-> AllBases[g]]

Fused(op, g, size) == [op |-> op, group |-> g, size |-> size, pipelined |-> FALSE]
Restricted(s) ==
    [r \in Rank |-> SelectSeq(s, LAMBDA c : r \in Members[c.group])]

OverlapWorkloads ==
    {Restricted(<<Fused("all_gather", "AB", 2), Fused("all_gather", "BC", 1)>>),
     Restricted(<<Fused("all2all", "AB", 1), Fused("all_gather", "AB", 2)>>)}

\* With the watchdog armed: two calls after each other on one pair.
WatchedWorkloads ==
    {Restricted(<<Fused("all2all", "AB", 1), Fused("all_gather", "AB", 1)>>)}
OverlapAndWatched == OverlapWorkloads \cup WatchedWorkloads

\* One call whose slice is a chunk on each of two channels.
TwoRanks == {0, 1}
PairGroup == {"AB"}
PairOrdered == [AB |-> <<0, 1>>]
ChannelWorkloads == {[r \in TwoRanks |-> <<Fused("all_gather", "AB", 2)>>]}
=============================================================================
