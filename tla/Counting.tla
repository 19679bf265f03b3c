------------------------------ MODULE Counting ------------------------------
(***************************************************************************)
(* The counters of the barrier protocol as functions of a position: an     *)
(* epoch and an edge's sequence number count the calls before it, of a     *)
(* group or with a peer (src/gfc/group.py, src/gfc/kernels/barrier.py).    *)
(***************************************************************************)
EXTENDS Integers, FiniteSets

\* The number of elements of S, a set of positions, that are at most n.
CountUpTo(S, n) == Cardinality(S \cap (1 .. n))
=============================================================================
