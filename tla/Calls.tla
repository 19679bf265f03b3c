------------------------------- MODULE Calls -------------------------------
(***************************************************************************)
(* Data-moving calls (src/gfc/runtime.py: all_gather, all2all, p2p) and    *)
(* what they mean: the input unit that each output unit must hold.         *)
(*                                                                         *)
(* Bytes are grouped into units, the pieces that a copy moves separately:  *)
(* a call's slice is units 0 .. size-1, and the pipelined path takes one   *)
(* unit per chunk.  The value of an input unit is the unit's own name.     *)
(***************************************************************************)
EXTENDS Integers, Sequences, FiniteSets

CONSTANTS
    Rank,        \* the world's ranks
    Group,       \* the registered group ids
    GroupRanks,  \* GroupRanks[g]: the ordered rank list of group g
    Workloads    \* the workloads that the callers may follow

\* A p2p call is on the group <<source, destination>>; its role is that of the
\* rank in this pair.
Op == {"all_gather", "all2all", "put", "get"}
\* A call is pipelined when the rank's chunk count for it is above 1; p2p never is.
Call == [op : Op, group : Group, size : Nat \ {0}, pipelined : BOOLEAN]

Peers(g) == 0 .. Len(GroupRanks[g]) - 1
PeerAt(g, i) == GroupRanks[g][i + 1]
Members == [g \in Group |-> {PeerAt(g, i) : i \in Peers(g)}]

\* group.local_index of a member.
LocalIndex(g, r) == CHOOSE i \in Peers(g) : PeerAt(g, i) = r

\* The n-th call of s is the k-th on its group.
Ordinal(s, n) == Cardinality({m \in 1 .. n : s[m].group = s[n].group})

\* Two calls are the same collective seen by two ranks.
SameCall(w, r, n, q, m) ==
    w[q][m].group = w[r][n].group /\ Ordinal(w[q], m) = Ordinal(w[r], n)

\* The callers' contract: a rank calls only groups it is in, every member takes
\* part in every call, and with the same arguments.
Matched(w) ==
    \A r \in Rank : \A n \in DOMAIN w[r] :
        /\ r \in Members[w[r][n].group]
        /\ \A q \in Members[w[r][n].group] :
              \E m \in DOMAIN w[q] : SameCall(w, r, n, q, m) /\ w[q][m] = w[r][n]

\* register_group refuses a rank list with duplicates.
ASSUME GroupsAssumption ==
    \A g \in Group : \A i, j \in Peers(g) : PeerAt(g, i) = PeerAt(g, j) => i = j

ASSUME WorkloadsAssumption ==
    /\ GroupRanks \in [Group -> Seq(Rank)]
    /\ \A w \in Workloads : w \in [Rank -> Seq(Call)] /\ Matched(w)

\* _p2p runs on the group of the source and the destination.
ASSUME PairsAssumption ==
    \A w \in Workloads : \A r \in Rank : \A n \in DOMAIN w[r] :
        w[r][n].op \in {"put", "get"} => Len(GroupRanks[w[r][n].group]) = 2

-----------------------------------------------------------------------------
Input(r, n, u) == <<"input", r, n, u>>
Output(r, n, u) == <<"output", r, n, u>>

Slice(c) == 0 .. c.size - 1

IsSource(c, r) == LocalIndex(c.group, r) = 0

\* The units of r's output tensor in call c.
OutputUnits(c, r) ==
    CASE c.op \in {"all_gather", "all2all"} -> 0 .. Len(GroupRanks[c.group]) * c.size - 1
      [] OTHER -> IF IsSource(c, r) THEN {} ELSE Slice(c)

\* The peer index and the unit of its input that output unit u of r must hold:
\* slice i of the output is peer i's input (all_gather), or the slice of peer
\* i's input that is destined for r (all2all); p2p delivers the source's.
Wanted(c, r, u) ==
    CASE c.op = "all_gather" -> [peer |-> u \div c.size, unit |-> u % c.size]
      [] c.op = "all2all" ->
            [peer |-> u \div c.size,
             unit |-> LocalIndex(c.group, r) * c.size + (u % c.size)]
      [] OTHER -> [peer |-> 0, unit |-> u]

\* The input cell that output unit u of r's n-th call must hold.
Expected(w, r, n, u) ==
    LET c == w[r][n]
        want == Wanted(c, r, u)
        q == PeerAt(c.group, want.peer)
        m == CHOOSE m \in DOMAIN w[q] : SameCall(w, r, n, q, m)
    IN  Input(q, m, want.unit)

OutputCells(w) ==
    UNION {UNION {{Output(r, n, u) : u \in OutputUnits(w[r][n], r)} : n \in DOMAIN w[r]} :
              r \in Rank}
=============================================================================
