---------------------------- MODULE GroupBarrier ----------------------------
(***************************************************************************)
(* What the runtime's barrier promises, with no memory, slots or tokens:   *)
(* a rank arrives at its calls one after the other, and leaves one only    *)
(* when every member of the group has arrived at the same instance.        *)
(***************************************************************************)
EXTENDS Schedule

CONSTANT Schedules   \* the schedules the callers may follow

VARIABLES
    schedule,   \* schedule[r]: the groups of rank r's calls, in order
    arrived,    \* how many of its calls each rank has entered
    departed    \* how many of them it has left

vars == <<schedule, arrived, departed>>

Init ==
    /\ schedule \in Schedules
    /\ arrived = [r \in Rank |-> 0]
    /\ departed = [r \in Rank |-> 0]

\* Rank r enters its next call; it is inside at most one.
Arrive(r) ==
    /\ arrived[r] = departed[r]
    /\ arrived[r] < Len(schedule[r])
    /\ arrived' = [arrived EXCEPT ![r] = @ + 1]
    /\ UNCHANGED <<schedule, departed>>

\* Rank q has arrived at instance b.
At(q, b) == \E j \in 1 .. arrived[q] : BarrierAt(schedule[q], j) = b

\* Rank r leaves the call it is in: the whole group is there.
Depart(r) ==
    /\ departed[r] < arrived[r]
    /\ \A q \in Members[schedule[r][arrived[r]]] :
          At(q, BarrierAt(schedule[r], arrived[r]))
    /\ departed' = [departed EXCEPT ![r] = @ + 1]
    /\ UNCHANGED <<schedule, arrived>>

Next == \E r \in Rank : Arrive(r) \/ Depart(r)

Spec == Init /\ [][Next]_vars

FairSpec == Spec /\ \A r \in Rank : WF_vars(Arrive(r)) /\ WF_vars(Depart(r))
=============================================================================
