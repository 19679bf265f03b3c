------------------------------ MODULE Exchange ------------------------------
(***************************************************************************)
(* What the collectives promise, with no buffers, barriers or streams: a   *)
(* call delivers to every output unit the input that its definition names, *)
(* once that input has been produced, writes each output unit once, and    *)
(* returns when its outputs are complete and every member has joined it.   *)
(***************************************************************************)
EXTENDS Calls

VARIABLES
    workload,   \* workload[r]: the calls of rank r, in order
    produced,   \* how many of its calls' inputs each rank has produced
    delivered,  \* the output cells written, each with what it must hold
    returned    \* how many of its calls have returned on each rank

vars == <<workload, produced, delivered, returned>>

Init ==
    /\ workload \in Workloads
    /\ produced = [r \in Rank |-> 0]
    /\ delivered = {}
    /\ returned = [r \in Rank |-> 0]

Produce(r) ==
    /\ produced[r] < Len(workload[r])
    /\ produced' = [produced EXCEPT ![r] = @ + 1]
    /\ UNCHANGED <<workload, delivered, returned>>

\* A call of r runs from when the call before it has returned; one unit of its
\* output arrives.
Deliver(r) ==
    LET n == returned[r] + 1
    IN  /\ n <= Len(workload[r])
        /\ \E u \in OutputUnits(workload[r][n], r) :
              LET cell == Output(r, n, u)
                  input == Expected(workload, r, n, u)
              IN  /\ cell \notin {d[1] : d \in delivered}
                  /\ input[3] <= produced[input[2]]
                  /\ delivered' = delivered \cup {<<cell, input>>}
        /\ UNCHANGED <<workload, produced, returned>>

\* Every member has started the call, so has returned from those before it.
Joined(r, n) ==
    \A q \in Members[workload[r][n].group] :
        \E m \in DOMAIN workload[q] :
            SameCall(workload, r, n, q, m) /\ m <= returned[q] + 1 /\ m <= produced[q]

Return(r) ==
    LET n == returned[r] + 1
    IN  /\ n <= Len(workload[r])
        /\ \A u \in OutputUnits(workload[r][n], r) :
              <<Output(r, n, u), Expected(workload, r, n, u)>> \in delivered
        /\ Joined(r, n)
        /\ returned' = [returned EXCEPT ![r] = n]
        /\ UNCHANGED <<workload, produced, delivered>>

Next == \E r \in Rank : Produce(r) \/ Deliver(r) \/ Return(r)

Spec == Init /\ [][Next]_vars
=============================================================================
