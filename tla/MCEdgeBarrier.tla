--------------------------- MODULE MCEdgeBarrier ---------------------------
(***************************************************************************)
(* Small worlds for EdgeBarrier.  Ranks are 0, 1, ...; a group is named by *)
(* the letters of its members (A is rank 0, B rank 1, C rank 2); G and H   *)
(* are two groups of the same two ranks.                                   *)
(***************************************************************************)
EXTENDS EdgeBarrier, TLC

SequencesUpTo(S, n) == UNION {[1 .. m -> S] : m \in 0 .. n}

\* Every schedule of at most n calls per rank, and of n calls on each.
SchedulesUpTo(n) == {sch \in [Rank -> SequencesUpTo(Group, n)] : WellFormed(sch)}
SchedulesOf(n) == {sch \in [Rank -> [1 .. n -> Group]] : WellFormed(sch)}

\* All of them, the inconsistent ones included, up to exchanging G and H.
TwoRanks == {0, 1}
TwoGroups == {"G", "H"}
TwoRankMembers == [g \in TwoGroups |-> TwoRanks]
TwoRankSchedules ==
    {sch \in SchedulesUpTo(3) : sch[0] # << >> => sch[0][1] = "G"}

ThreeRanks == {0, 1, 2}

\* Each pair once, rank 0 calling AB, then CA, the others in either order: three
\* of the four have no cycle and complete, one cannot.
PairGroups == {"AB", "BC", "CA"}
PairMembers == [AB |-> {0, 1}, BC |-> {1, 2}, CA |-> {2, 0}]
PairSchedules ==
    {sch \in SchedulesOf(2) : sch[0] = <<"AB", "CA">> /\ \A r \in Rank : sch[r][1] # sch[r][2]}

\* What each rank issues when all follow one global sequence of barriers, here
\* one in which an edge comes back to its second use with another between.
Restricted(s, r) == SelectSeq(s, LAMBDA g : r \in Members[g])
GlobalSchedules == {[r \in Rank |-> Restricted(<<"AB", "BC", "AB">>, r)]}
PairAndGlobalSchedules == PairSchedules \cup GlobalSchedules

\* Every pair agrees on its order, the three ranks do not.
CyclicSchedules ==
    {(0 :> <<"AB", "CA">> @@ 1 :> <<"BC", "AB">> @@ 2 :> <<"CA", "BC">>)}
=============================================================================
