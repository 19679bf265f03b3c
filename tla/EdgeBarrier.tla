---------------------------- MODULE EdgeBarrier ----------------------------
(***************************************************************************)
(* The barrier over a subgroup, per-edge double-buffered                   *)
(* (src/gfc/kernels/barrier.py), and the host path that submits it         *)
(* (SymmetricCollectiveRuntime.barrier, _EpochManager, compute_token).     *)
(*                                                                         *)
(* Host and device of a rank are separate processes: the host appends      *)
(* kernels to the stream under the submit lock and never waits for them;   *)
(* the device runs the stream's head, one program per (self, peer) edge,   *)
(* all edges concurrently, and starts the next kernel when every program   *)
(* of the head has exited.  Release stores and acquire loads of one cell   *)
(* are atomic steps.  The token hash is taken to be injective and non-zero *)
(* (64 bits of splitmix64, with 0 remapped).                               *)
(***************************************************************************)
EXTENDS Schedule

CONSTANTS
    Schedules,   \* the schedules the callers may follow
    Timeout      \* config.timeout_ms > 0: the in-kernel watchdog is armed

ASSUME SchedulesAssumption ==
    /\ Schedules \subseteq [Rank -> Seq(Group)]
    /\ \A sch \in Schedules : WellFormed(sch)
ASSUME TimeoutAssumption == Timeout \in BOOLEAN

VARIABLES
    schedule,     \* the callers' schedules, fixed by the initial state
    epochs,       \* epochs[r][g]: _EpochManager of rank r
    stream,       \* stream[r]: every kernel r has launched, in order
    retired,      \* how many kernels of stream[r] have completed
    pc,           \* pc[r][q]: where the head kernel's program for q is
    edge_seq,     \* edge_seq[r][q]: device-resident, local to r
    signal_buf,   \* signal_buf[q][slot][r]: q's grid, cell written by r
    trapped       \* r's watchdog fired: its context is lost

vars == <<schedule, epochs, stream, retired, pc, edge_seq, signal_buf, trapped>>
deviceVars == <<retired, pc, edge_seq, signal_buf, trapped>>

Slot == 0 .. 1

\* A cell holds the token of an instance, or the zero it was allocated with.
Token == [group : Group, epoch : Nat]
NoToken == [group |-> "none", epoch |-> -1]

\* Faults for the mutants: an input that hashes to 0 is not remapped; the epoch
\* or the group is left out of the hash.
TokenMayBeZero(g, e) == IF e = 0 THEN NoToken ELSE [group |-> g, epoch |-> e]
TokenWithoutEpoch(g, e) == [group |-> g, epoch |-> 0]
TokenWithoutGroup(g, e) == [group |-> CHOOSE h \in Group : TRUE, epoch |-> e]

\* compute_token(session_nonce, group_id, epoch); the nonce is fixed.
ComputeToken(g, e) == [group |-> g, epoch |-> e]

\* A launched barrier kernel: its group and its token argument.
Launch == [group : Group, token : Token]

Pc == {"idle", "published", "spin", "done"}

TypeOK ==
    /\ schedule \in Schedules
    /\ epochs \in [Rank -> [Group -> Nat]]
    /\ stream \in [Rank -> Seq(Launch)]
    /\ retired \in [Rank -> Nat]
    /\ pc \in [Rank -> [Rank -> Pc]]
    /\ edge_seq \in [Rank -> [Rank -> Nat]]
    /\ signal_buf \in [Rank -> [Slot -> [Rank -> Token \cup {NoToken}]]]
    /\ trapped \in [Rank -> BOOLEAN]

Init ==
    /\ schedule \in Schedules
    /\ epochs = [r \in Rank |-> [g \in Group |-> 0]]
    /\ stream = [r \in Rank |-> << >>]
    /\ retired = [r \in Rank |-> 0]
    /\ pc = [r \in Rank |-> [q \in Rank |-> "idle"]]
    /\ edge_seq = [r \in Rank |-> [q \in Rank |-> 0]]
    /\ signal_buf = [q \in Rank |-> [s \in Slot |-> [r \in Rank |-> NoToken]]]
    /\ trapped = [r \in Rank |-> FALSE]

-----------------------------------------------------------------------------
(* Host.                                                                   *)

\* barrier(group), the part under the submit lock: take the group's epoch,
\* hash the token, launch the kernel on the stream.  The launch of a rank
\* whose context is lost raises.
HostBarrier(r) ==
    LET g == schedule[r][Len(stream[r]) + 1]
    IN  /\ ~ trapped[r]
        /\ Len(stream[r]) < Len(schedule[r])
        /\ epochs' = [epochs EXCEPT ![r][g] = @ + 1]
        /\ stream' = [stream EXCEPT ![r] =
              Append(@, [group |-> g, token |-> ComputeToken(g, epochs[r][g])])]
        /\ UNCHANGED <<schedule, deviceVars>>

-----------------------------------------------------------------------------
(* Device.  The kernel at the head of the stream and its programs.         *)

Kernel(r) == stream[r][retired[r] + 1]

Running(r) == ~ trapped[r] /\ retired[r] < Len(stream[r])

\* Fault: one slot per edge.
SingleSlot(seq) == 0 * seq

SlotOf(seq) == seq % 2

\* Fault: the slot is that of the counter that has been bumped.
ObservedNextSlot(r, q) == signal_buf[r][SlotOf(edge_seq[r][q])][q]

\* The cell that r's program for q spins on; the bump has been done.
Observed(r, q) == signal_buf[r][SlotOf(edge_seq[r][q] - 1)][q]

\* Read and bump edge_seq, release the token into the peer's cell.
Publish(r, q) ==
    /\ Running(r)
    /\ q \in Members[Kernel(r).group]
    /\ pc[r][q] = "idle"
    /\ edge_seq' = [edge_seq EXCEPT ![r][q] = @ + 1]
    /\ signal_buf' = [signal_buf EXCEPT ![q][SlotOf(edge_seq[r][q])][r] = Kernel(r).token]
    /\ pc' = [pc EXCEPT ![r][q] = "published"]
    /\ UNCHANGED <<schedule, epochs, stream, retired, trapped>>

\* Fault: the program exits without comparing what it loaded.
NoWait(r, q) ==
    /\ Running(r)
    /\ pc[r][q] = "published"
    /\ pc' = [pc EXCEPT ![r][q] = "done"]
    /\ UNCHANGED <<schedule, epochs, stream, retired, edge_seq, signal_buf, trapped>>

\* The load before the loop: no deadline is checked after it.
FirstLoad(r, q) ==
    /\ Running(r)
    /\ pc[r][q] = "published"
    /\ pc' = [pc EXCEPT ![r][q] =
          IF Observed(r, q) = Kernel(r).token THEN "done" ELSE "spin"]
    /\ UNCHANGED <<schedule, epochs, stream, retired, edge_seq, signal_buf, trapped>>

\* A load in the loop that sees the token; one that does not changes nothing.
SpinLoad(r, q) ==
    /\ Running(r)
    /\ pc[r][q] = "spin"
    /\ Observed(r, q) = Kernel(r).token
    /\ pc' = [pc EXCEPT ![r][q] = "done"]
    /\ UNCHANGED <<schedule, epochs, stream, retired, edge_seq, signal_buf, trapped>>

\* Fault: the deadline is checked only when the token has been seen.
TrapWhenSeen(r, q) ==
    /\ Timeout
    /\ Running(r)
    /\ pc[r][q] = "spin"
    /\ Observed(r, q) = Kernel(r).token
    /\ trapped' = [trapped EXCEPT ![r] = TRUE]
    /\ UNCHANGED <<schedule, epochs, stream, retired, pc, edge_seq, signal_buf>>

\* The deadline is checked after the load, whatever that load has seen.
Trap(r, q) ==
    /\ Timeout
    /\ Running(r)
    /\ pc[r][q] = "spin"
    /\ trapped' = [trapped EXCEPT ![r] = TRUE]
    /\ UNCHANGED <<schedule, epochs, stream, retired, pc, edge_seq, signal_buf>>

\* Fault: the stream moves on when every program has published.
RetireEarly(r) ==
    /\ Running(r)
    /\ \A q \in Members[Kernel(r).group] : pc[r][q] # "idle"
    /\ retired' = [retired EXCEPT ![r] = @ + 1]
    /\ pc' = [pc EXCEPT ![r] = [q \in Rank |-> "idle"]]
    /\ UNCHANGED <<schedule, epochs, stream, edge_seq, signal_buf, trapped>>

\* Every program of the head kernel has exited: the stream moves on.
Retire(r) ==
    /\ Running(r)
    /\ \A q \in Members[Kernel(r).group] : pc[r][q] = "done"
    /\ retired' = [retired EXCEPT ![r] = @ + 1]
    /\ pc' = [pc EXCEPT ![r] = [q \in Rank |-> "idle"]]
    /\ UNCHANGED <<schedule, epochs, stream, edge_seq, signal_buf, trapped>>

Finished(r) == retired[r] = Len(schedule[r])
AllRetired == \A r \in Rank : Finished(r)

\* Every call has returned; the callers make no more.
Quiescent == AllRetired /\ UNCHANGED vars

Edge(r, q) == Publish(r, q) \/ FirstLoad(r, q) \/ SpinLoad(r, q) \/ Trap(r, q)

Next ==
    \/ \E r \in Rank : HostBarrier(r) \/ Retire(r) \/ (\E q \in Rank : Edge(r, q))
    \/ Quiescent

Spec == Init /\ [][Next]_vars

\* The callers issue all their calls, a resident program makes progress (in the
\* loop it sees the token or, with the watchdog armed, the deadline passes) and
\* the stream starts the next kernel.
Fairness ==
    \A r \in Rank :
        /\ WF_vars(HostBarrier(r))
        /\ WF_vars(Retire(r))
        /\ \A q \in Rank : WF_vars(Edge(r, q))

FairSpec == Spec /\ Fairness

-----------------------------------------------------------------------------
(* Properties.                                                             *)

\* On the edge to q, rank r has published / got past its i-th call.
Published(r, q, i) ==
    /\ i \in Shared(schedule[r], q)
    /\ i <= retired[r] \/ (i = retired[r] + 1 /\ pc[r][q] # "idle")
Passed(r, q, i) ==
    /\ i \in Shared(schedule[r], q)
    /\ i <= retired[r] \/ (i = retired[r] + 1 /\ pc[r][q] = "done")

\* A barrier that has let rank r past peer q was entered by q, and q published
\* that very instance to r, whatever orders the ranks issue their barriers in
\* and whichever ranks have trapped: no token of another group, of an earlier
\* epoch or of a slot's previous use is taken for it (barrier.py, wait).
BarrierSync ==
    \A r, q \in Rank : \A i \in DOMAIN schedule[r] :
        Passed(r, q, i) =>
            \E j \in DOMAIN schedule[q] :
                /\ Published(q, r, j)
                /\ BarrierAt(schedule[q], j) = BarrierAt(schedule[r], i)

\* The two ends of an edge run the same instance with the same edge_seq, hence
\* in the same slot, without exchanging slot state (barrier.py, lines 5-10).
RoundsAgree ==
    \A r, q \in Rank : \A i \in DOMAIN schedule[r] :
        Passed(r, q, i) =>
            \A j \in DOMAIN schedule[q] :
                /\ Published(q, r, j)
                /\ BarrierAt(schedule[q], j) = BarrierAt(schedule[r], i)
                => Round(schedule[r], q, i) = Round(schedule[q], r, j)

\* Once q has published the instance that r waits for, r's cell holds its
\* token until r has seen it: no later barrier of the pair, of any group,
\* overwrites a signal that is still awaited (barrier.py, lines 12-18).
NoLostSignal ==
    \A r, q \in Rank : \A j \in DOMAIN schedule[q] :
        LET i == retired[r] + 1
        IN  /\ pc[r][q] \in {"published", "spin"}
            /\ Published(q, r, j)
            /\ BarrierAt(schedule[q], j) = BarrierAt(schedule[r], i)
            => Observed(r, q) = Kernel(r).token

\* The ends of an edge are never more than one barrier apart, the distance
\* that two slots can absorb.
PairSkew ==
    \A r, q \in Rank : edge_seq[r][q] - edge_seq[q][r] \in -1 .. 1

\* A rank stores into a cell that holds a token only when the cell's owner has
\* got past the barrier of that token: there is no ack, so this is what makes
\* the reuse of a slot safe.
ReuseAfterConsume ==
    [][\A r, q \in Rank, s \in Slot :
          \/ signal_buf'[q][s][r] = signal_buf[q][s][r]
          \/ signal_buf[q][s][r] = NoToken
          \/ \E i \in DOMAIN schedule[q] :
                /\ Passed(q, r, i)
                /\ BarrierAt(schedule[q], i) = signal_buf[q][s][r]]_vars

\* The barrier implements the ideal one: a rank has arrived when one of its
\* programs has published, and departed when its kernel has retired.
Abs == INSTANCE GroupBarrier WITH
    arrived <- [r \in Rank |->
        retired[r] + (IF \E q \in Rank : pc[r][q] # "idle" THEN 1 ELSE 0)],
    departed <- retired

\* Safety, whatever the watchdog does: a rank leaves a barrier only when every
\* member has entered that instance of it.
ImplementsGroupBarrier == Abs!Spec

\* With the watchdog off, the signal grid adds no hang to the ideal barrier:
\* a rank whose whole group has arrived does leave, for every schedule.
ImplementsFairGroupBarrier == Abs!FairSpec

\* Every call of a schedule returns when all members issue every barrier and
\* their orders have no cycle, for instance when all ranks follow one global
\* sequence as tests/test_barrier_stress.py does.
Completes == Completable(schedule) => <>AllRetired

\* No other schedule runs to its end.
OnlyCompletable == AllRetired => Completable(schedule)

\* What tests/test_overlap_order.py:8 says makes interleaved groups correct,
\* the submit lock and the stream order, read with barrier()'s constraint that
\* each pair of ranks agrees on the order of its barriers: no deadlock.
PairOrderSuffices == PairwiseConsistent(schedule) => <>AllRetired

\* With the watchdog armed no rank hangs silently: it ends with all its calls
\* returned or its context lost (barrier.py, lines 91-94).
NoSilentHang == \A r \in Rank : <>(Finished(r) \/ trapped[r])
=============================================================================
