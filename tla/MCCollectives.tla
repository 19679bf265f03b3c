--------------------------- MODULE MCCollectives ---------------------------
(***************************************************************************)
(* Small worlds for Collectives.  A group is named by the letters of its   *)
(* ranks in order (A is rank 0, B rank 1, C rank 2).                       *)
(***************************************************************************)
EXTENDS Collectives, TLC

ThreeRanks == {0, 1, 2}
Ordered == [AB |-> <<0, 1>>, BC |-> <<1, 2>>, CB |-> <<2, 1>>, CA |-> <<2, 0>>, ABC |-> <<0, 1, 2>>]
AllGroups == DOMAIN Ordered

\* What each rank calls when all follow one global sequence.
Restricted(s) ==
    [r \in Rank |-> SelectSeq(s, LAMBDA c : r \in Members[c.group])]

Collective(op, g, size, pipelined) ==
    [op |-> op, group |-> g, size |-> size, pipelined |-> pipelined]
OneShotCall(op, g) == Collective(op, g, 1, FALSE)
ChunkedCall(op, g) == Collective(op, g, 2, TRUE)

\* A put, a get and a call of any kind, one on each pair of ranks; each rank
\* makes its two calls in either order, also orders that then deadlock.
Either(a, b) == {<<a, b>>, <<b, a>>}
MixedWorkloads ==
    UNION {LET ab == OneShotCall("put", "AB")
               bc == OneShotCall(op, "BC")
               ca == OneShotCall("get", "CA")
           IN  {(0 :> s[1] @@ 1 :> s[2] @@ 2 :> s[3]) :
                  s \in {<<ab, ca>>} \X Either(ab, bc) \X Either(bc, ca)} :
           op \in Op}

\* A pipelined call, then one on an overlapping or the same group: again
\* pipelined, of one shot over both units, or a put.
PipelinedWorkloads ==
    {Restricted(<<a, b>>) :
        a \in {ChunkedCall("all_gather", "AB"), ChunkedCall("all2all", "AB")},
        b \in {ChunkedCall("all_gather", "BC"), ChunkedCall("all2all", "AB"),
               OneShotCall("put", "BC"), Collective("all_gather", "CB", 2, FALSE)}}

\* All that share the comm_bufs.
SharingWorkloads == MixedWorkloads \cup PipelinedWorkloads

\* Global sequences with a call of the whole world.
GlobalWorkloads ==
    {Restricted(<<a, b>>) :
        a \in {OneShotCall("all_gather", "ABC")},
        b \in {ChunkedCall("all2all", "AB"), OneShotCall("all2all", "CB"), OneShotCall("get", "CA")}}
=============================================================================
