------------------------------ MODULE Schedule ------------------------------
(***************************************************************************)
(* Call schedules of the barrier protocol (src/gfc/runtime.py, group.py).  *)
(*                                                                         *)
(* A rank's schedule is the sequence of groups in the order its calls take *)
(* the runtime's submit lock; that is also the order in which the barrier  *)
(* kernels run, because the rank has one submission stream.  A call is     *)
(* identified across ranks by its barrier instance: the group and the      *)
(* epoch that the group's counter has reached, which is what the token     *)
(* hashes.  Nothing here is recursive, so proofs may use all of it.        *)
(***************************************************************************)
EXTENDS Counting, Sequences

CONSTANTS
    Rank,      \* the world's ranks
    Group,     \* the registered group ids
    Members    \* Members[g] is the rank set of group g

ASSUME MembersAssumption == Members \in [Group -> SUBSET Rank]

\* The positions of s that call a barrier on group g.
Calls(s, g) == {i \in DOMAIN s : s[i] = g}

\* The positions of s whose barrier involves rank q.
Shared(s, q) == {i \in DOMAIN s : q \in Members[s[i]]}

\* The instance that the i-th call of s takes part in: _EpochManager hands
\* out one epoch per call of the group, counted from 0.
BarrierAt(s, i) ==
    [group |-> s[i], epoch |-> CountUpTo(Calls(s, s[i]), i - 1)]

\* The i-th call of s is the Round-th one that involves q: on the edge to q
\* it runs with edge_seq = Round - 1.
Round(s, q, i) == CountUpTo(Shared(s, q), i)

\* Every rank calls only groups it is a member of.
WellFormed(sch) ==
    \A r \in Rank : \A i \in DOMAIN sch[r] : r \in Members[sch[r][i]]

-----------------------------------------------------------------------------
(* Orders between the schedules of different ranks.                        *)

\* The instances that some rank of sch takes part in.
Instances(sch) ==
    UNION {{BarrierAt(sch[r], i) : i \in DOMAIN sch[r]} : r \in Rank}

\* The ordering constraint of barrier(): the two ranks of every pair issue the
\* same sequence of barriers that involve them both.
PairwiseConsistent(sch) ==
    \A p, q \in Rank :
        /\ Cardinality(Shared(sch[p], q)) = Cardinality(Shared(sch[q], p))
        /\ \A i \in Shared(sch[p], q), j \in Shared(sch[q], p) :
              Round(sch[p], q, i) = Round(sch[q], p, j) => sch[p][i] = sch[q][j]

\* Some rank issues instance a before instance b.
Precedes(sch, a, b) ==
    \E r \in Rank : \E i, j \in DOMAIN sch[r] :
        i < j /\ BarrierAt(sch[r], i) = a /\ BarrierAt(sch[r], j) = b

\* Every member takes part in every instance, and the ranks' orders have no
\* cycle: each non-empty set of instances has one that none of them precedes.
Completable(sch) ==
    /\ \A b \in Instances(sch) : \A q \in Members[b.group] :
          \E j \in DOMAIN sch[q] : BarrierAt(sch[q], j) = b
    /\ \A B \in (SUBSET Instances(sch)) \ {{}} :
          \E b \in B : \A a \in B : ~ Precedes(sch, a, b)
=============================================================================
