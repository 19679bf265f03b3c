------------------------- MODULE EdgeBarrierShutdown -------------------------
(***************************************************************************)
(* The end of the barrier protocol: SymmetricCollectiveRuntime.shutdown    *)
(* drains the rank's streams, zeroes its own signal grid and its edge      *)
(* counters, and meets the other ranks in a barrier of the world's process *)
(* group.  A rank shuts down when its callers have made all their calls;   *)
(* its peers may then still be in theirs.                                  *)
(***************************************************************************)
EXTENDS EdgeBarrier

VARIABLE phase   \* phase[r]: how far rank r's shutdown has got

allVars == <<vars, phase>>

Phase == {"open", "drained", "zeroed", "waiting", "closed", "raised"}

SInit == Init /\ phase = [r \in Rank |-> "open"]

\* Fault: the streams are not synchronized.
DrainAtOnce(r) ==
    /\ phase[r] = "open"
    /\ Len(stream[r]) = Len(schedule[r])
    /\ phase' = [phase EXCEPT ![r] = "drained"]
    /\ UNCHANGED vars

\* The streams' synchronize returns: every kernel of the rank has completed.
Drain(r) ==
    /\ phase[r] = "open"
    /\ Finished(r)
    /\ phase' = [phase EXCEPT ![r] = "drained"]
    /\ UNCHANGED vars

\* It raises instead when a kernel of the rank has trapped.
DrainRaises(r) ==
    /\ phase[r] = "open"
    /\ Len(stream[r]) = Len(schedule[r])
    /\ trapped[r]
    /\ phase' = [phase EXCEPT ![r] = "raised"]
    /\ UNCHANGED vars

\* zero_signal_grids: the cells that the peers write, on this rank.
ZeroSignalGrid(r) ==
    /\ phase[r] = "drained"
    /\ signal_buf' = [signal_buf EXCEPT ![r] = [s \in Slot |-> [q \in Rank |-> NoToken]]]
    /\ phase' = [phase EXCEPT ![r] = "zeroed"]
    /\ UNCHANGED <<schedule, epochs, stream, retired, pc, edge_seq, trapped>>

\* Fault: the counters keep their values.
KeepEdgeSeq(r) ==
    /\ phase[r] = "zeroed"
    /\ phase' = [phase EXCEPT ![r] = "waiting"]
    /\ UNCHANGED vars

\* edge_seq.zero_(); the rank joins dist.barrier, which its stream precedes.
ZeroEdgeSeq(r) ==
    /\ phase[r] = "zeroed"
    /\ edge_seq' = [edge_seq EXCEPT ![r] = [q \in Rank |-> 0]]
    /\ phase' = [phase EXCEPT ![r] = "waiting"]
    /\ UNCHANGED <<schedule, epochs, stream, retired, pc, signal_buf, trapped>>

\* Fault: the rank does not wait for the world.
LeaveAlone(r) ==
    /\ phase[r] = "waiting"
    /\ phase' = [phase EXCEPT ![r] = "closed"]
    /\ UNCHANGED vars

\* dist.barrier returns: the whole world has joined it.
LeaveWorldBarrier(r) ==
    /\ phase[r] = "waiting"
    /\ \A q \in Rank : phase[q] \in {"waiting", "closed"}
    /\ phase' = [phase EXCEPT ![r] = "closed"]
    /\ UNCHANGED vars

\* A call, a kernel's step, or a step of shutdown.
Protocol(r) ==
    /\ HostBarrier(r) \/ Retire(r) \/ \E q \in Rank : Edge(r, q)
    /\ UNCHANGED phase
Shutdown(r) ==
    Drain(r) \/ DrainRaises(r) \/ ZeroSignalGrid(r) \/ ZeroEdgeSeq(r) \/ LeaveWorldBarrier(r)

AllClosed == \A r \in Rank : phase[r] = "closed"

SNext ==
    \/ \E r \in Rank : Protocol(r) \/ Shutdown(r)
    \/ AllClosed /\ UNCHANGED allVars

SSpec == SInit /\ [][SNext]_allVars

-----------------------------------------------------------------------------
(* Properties; those of EdgeBarrier that do not read the counters still hold. *)

\* Rank r takes part in every barrier that some member of its groups calls.
JoinsItsBarriers(r) ==
    \A b \in Instances(schedule) :
        r \in Members[b.group] => \E i \in DOMAIN schedule[r] : BarrierAt(schedule[r], i) = b

\* Zeroing races with nothing: once a rank has drained, no peer stores into its
\* grid, although the peers may still be running barriers of their own; only a
\* barrier that the rank was to join, and did not, can.
QuietAfterDrain ==
    [][\A r \in Rank :
          phase[r] \notin {"open", "raised"} /\ JoinsItsBarriers(r) =>
              \A s \in Slot, q \in Rank :
                  signal_buf'[r][s][q] \in {signal_buf[r][s][q], NoToken}]_allVars

\* When shutdown has returned everywhere, every grid and every counter is as it
\* was allocated, so that nothing is left for a later session to mistake.
CleanAfterShutdown ==
    AllClosed =>
        \A r, q \in Rank :
            /\ edge_seq[r][q] = 0
            /\ \A s \in Slot : signal_buf[r][s][q] = NoToken

\* No rank's shutdown returns while a kernel of any rank may still touch the
\* symmetric buffers, which the caller is then free to release.
BuffersUnusedWhenClosed ==
    (\E r \in Rank : phase[r] = "closed") => \A q \in Rank : Finished(q)
=============================================================================
