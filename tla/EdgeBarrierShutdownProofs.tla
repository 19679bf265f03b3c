---------------------- MODULE EdgeBarrierShutdownProofs ----------------------
(***************************************************************************)
(* For every world, every set of groups and schedules, with or without the *)
(* watchdog: what the barrier protocol promises survives the shutdown of   *)
(* its ranks, and shutdown leaves everything clean.                        *)
(*                                                                         *)
(* A stream never gets ahead of its schedule (StreamInv), so a rank that   *)
(* has finished stays so (FinishedStays); a rank past its drain has        *)
(* finished (DrainedInv); and one that has left the world's barrier leaves *)
(* nobody in front of it (ClosedInv).                                      *)
(*                                                                         *)
(* What the counters and the cells would hold without zeroing is a         *)
(* function of the ranks' progress (EdgeSeqs, Cells).  A rank that runs    *)
(* has not drained, so it reads just that (FaithfulInv); hence every       *)
(* behaviour with shutdowns is, with those functions in place of the real  *)
(* variables, one of EdgeBarrier (ZeroingInvisible), whose theorems apply. *)
(***************************************************************************)
EXTENDS EdgeBarrierShutdown, EdgeBarrierProofs

Drained == {"drained", "zeroed", "waiting", "closed"}

DrainedInv == \A r \in Rank : phase[r] \in Drained => Finished(r)
ClosedInv == (\E r \in Rank : phase[r] = "closed") => \A q \in Rank : phase[q] \in {"waiting", "closed"}
ShutdownInv == TypeOK /\ StreamInv /\ phase \in [Rank -> Phase] /\ DrainedInv /\ ClosedInv

\* No rank has begun to shut down.
LEMMA ShutdownInit == SInit => ShutdownInv
<1> SUFFICES ASSUME SInit PROVE ShutdownInv
  OBVIOUS
<1>1. TypeOK /\ StreamInv
  BY InitType, InitCount DEF SInit, CountInv
<1>2. phase \in [Rank -> Phase] /\ \A r \in Rank : phase[r] = "open"
  BY DEF SInit, Phase
<1>3. QED
  BY <1>1, <1>2 DEF ShutdownInv, DrainedInv, ClosedInv, Drained

\* What runs or is called is a step of the barrier protocol.
LEMMA ProtocolIsNext ==
    ASSUME NEW r \in Rank, Protocol(r)
    PROVE  [Next]_vars /\ phase' = phase
  BY DEF Protocol, Next

\* Once every kernel of a rank has completed, there is no other.
LEMMA FinishedStays ==
    ASSUME TypeOK, StreamInv, [Next]_vars, NEW r \in Rank, Finished(r)
    PROVE  Finished(r)'
<1>1. ~ (retired[r] < Len(stream[r])) /\ retired[r] = Len(schedule[r])
  <2>1. Len(stream[r]) \in Nat /\ Len(schedule[r]) \in Nat
    BY ScheduleFacts DEF TypeOK
  <2>2. QED
    BY <2>1 DEF StreamInv, Finished
<1>2. schedule' = schedule
  BY DEF Next, vars, deviceVars, HostBarrier, Retire, Edge, Publish, FirstLoad, SpinLoad, Trap, Quiescent
<1>3. retired'[r] = retired[r]
  <2>1. ASSUME NEW p \in Rank, Retire(p) PROVE retired'[r] = retired[r]
    <3>1. p # r
      BY <1>1, <2>1 DEF Retire, Running
    <3>2. QED
      BY <2>1, <3>1 DEF Retire, TypeOK
  <2>2. QED
    BY <2>1 DEF Next, vars, deviceVars, HostBarrier, Edge, Publish, FirstLoad, SpinLoad, Trap, Quiescent
<1>4. QED
  BY <1>1, <1>2, <1>3 DEF Finished

\* Zeroing keeps the types, and what StreamInv and Finished read.
LEMMA ShutdownKeeps ==
    ASSUME TypeOK, StreamInv, NEW r \in Rank, Shutdown(r)
    PROVE  TypeOK' /\ StreamInv' /\ \A q \in Rank : Finished(q)' <=> Finished(q)
<1>1. UNCHANGED <<schedule, epochs, stream, retired, pc, trapped>>
  BY DEF Shutdown, Drain, DrainRaises, ZeroSignalGrid, ZeroEdgeSeq, LeaveWorldBarrier, vars
<1>2. signal_buf' \in [Rank -> [Slot -> [Rank -> Token \cup {NoToken}]]]
  <2>1. [s \in Slot |-> [q \in Rank |-> NoToken]] \in [Slot -> [Rank -> Token \cup {NoToken}]]
    OBVIOUS
  <2>2. \/ signal_buf' = signal_buf
        \/ signal_buf' = [signal_buf EXCEPT ![r] = [s \in Slot |-> [q \in Rank |-> NoToken]]]
    BY DEF Shutdown, Drain, DrainRaises, ZeroSignalGrid, ZeroEdgeSeq, LeaveWorldBarrier, vars
  <2>3. QED
    BY <2>1, <2>2 DEF TypeOK
<1>3. edge_seq' \in [Rank -> [Rank -> Nat]]
  <2>1. [q \in Rank |-> 0] \in [Rank -> Nat]
    OBVIOUS
  <2>2. edge_seq' = edge_seq \/ edge_seq' = [edge_seq EXCEPT ![r] = [q \in Rank |-> 0]]
    BY DEF Shutdown, Drain, DrainRaises, ZeroSignalGrid, ZeroEdgeSeq, LeaveWorldBarrier, vars
  <2>3. QED
    BY <2>1, <2>2 DEF TypeOK
<1>4. TypeOK'
  BY <1>1, <1>2, <1>3 DEF TypeOK
<1>5. StreamInv'
  BY <1>1 DEF StreamInv
<1>6. QED
  BY <1>1, <1>4, <1>5 DEF Finished

\* A rank drains when it has finished, and leaves when all are waiting.
LEMMA ShutdownNext == ShutdownInv /\ [SNext]_allVars => ShutdownInv'
<1> SUFFICES ASSUME ShutdownInv, [SNext]_allVars PROVE ShutdownInv'
  OBVIOUS
<1>1. TypeOK /\ StreamInv /\ phase \in [Rank -> Phase] /\ DrainedInv /\ ClosedInv
  BY DEF ShutdownInv
<1>2. ASSUME [Next]_vars, phase' = phase PROVE ShutdownInv'
  <2>1. TypeOK' /\ StreamInv'
    BY <1>1, <1>2, NextType, NextStream
  <2>2. DrainedInv'
    BY <1>1, <1>2, FinishedStays DEF DrainedInv
  <2>3. ClosedInv'
    BY <1>1, <1>2 DEF ClosedInv
  <2>4. QED
    BY <1>1, <1>2, <2>1, <2>2, <2>3 DEF ShutdownInv
<1>3. ASSUME NEW r \in Rank, Shutdown(r) PROVE ShutdownInv'
  <2>1. TypeOK' /\ StreamInv' /\ \A q \in Rank : Finished(q)' <=> Finished(q)
    BY <1>1, <1>3, ShutdownKeeps
  <2>2. ASSUME NEW new \in Phase \ {"open"}, phase' = [phase EXCEPT ![r] = new],
               new \in Drained => Finished(r),
               new \in {"drained", "zeroed", "raised"} => phase[r] \in {"open", "drained"},
               new = "waiting" => phase[r] = "zeroed",
               new = "closed" => \A q \in Rank : phase[q] \in {"waiting", "closed"}
        PROVE  ShutdownInv'
    <3>1. /\ phase' \in [Rank -> Phase] /\ phase'[r] = new
          /\ \A q \in Rank \ {r} : phase'[q] = phase[q]
      BY <1>1, <2>2
    <3>2. DrainedInv'
      BY <1>1, <2>1, <2>2, <3>1 DEF DrainedInv
    <3>3. ClosedInv'
      <4>1. CASE new = "closed"
        BY <2>2, <3>1, <4>1 DEF ClosedInv
      <4>2. CASE new # "closed" /\ phase[r] \notin {"waiting", "closed"}
        BY <1>1, <3>1, <4>2 DEF ClosedInv
      <4>3. QED
        BY <2>2, <4>1, <4>2 DEF Phase
    <3>4. QED
      BY <2>1, <3>1, <3>2, <3>3 DEF ShutdownInv
  <2>3. CASE Drain(r)
    BY <2>2, <2>3 DEF Drain, Phase, Drained
  <2>4. CASE DrainRaises(r)
    BY <2>2, <2>4 DEF DrainRaises, Phase, Drained
  <2>5. CASE ZeroSignalGrid(r)
    BY <1>1, <2>2, <2>5 DEF ZeroSignalGrid, Phase, Drained, DrainedInv
  <2>6. CASE ZeroEdgeSeq(r)
    BY <1>1, <2>2, <2>6 DEF ZeroEdgeSeq, Phase, Drained, DrainedInv
  <2>7. CASE LeaveWorldBarrier(r)
    BY <1>1, <2>2, <2>7 DEF LeaveWorldBarrier, Phase, Drained, DrainedInv
  <2>8. QED
    BY <1>3, <2>3, <2>4, <2>5, <2>6, <2>7 DEF Shutdown
<1>4. CASE UNCHANGED allVars
  BY <1>2, <1>4 DEF allVars
<1>5. QED
  BY <1>2, <1>3, <1>4, ProtocolIsNext DEF SNext

\* When shutdown returns anywhere, no kernel anywhere has still to run: the
\* caller may release the symmetric buffers (runtime.py:1725, buffer.py:122).
THEOREM BuffersUnusedWhenClosedHolds == SSpec => []BuffersUnusedWhenClosed
<1>1. ShutdownInv => BuffersUnusedWhenClosed
  BY DEF ShutdownInv, ClosedInv, DrainedInv, Drained, BuffersUnusedWhenClosed
<1>2. QED
  BY <1>1, ShutdownInit, ShutdownNext, PTL DEF SSpec
-----------------------------------------------------------------------------
(* Zeroing is invisible to the protocol.                                   *)

\* What an edge counter and a cell would hold if nothing were ever zeroed: the
\* number of calls published on the edge, and the latest token published to the
\* cell.  Both are functions of how far the ranks have got.
PublishedIn(r, q, s) ==
    {i \in DOMAIN schedule[r] : Published(r, q, i) /\ SlotOf(Round(schedule[r], q, i) - 1) = s}
LatestOf(S) == CHOOSE i \in S : \A j \in S : j <= i
EdgeSeqs == [r \in Rank |-> [q \in Rank |-> CountUpTo(Shared(schedule[r], q), Reached(r, q))]]
Cells ==
    [q \in Rank |-> [s \in Slot |-> [r \in Rank |->
        IF PublishedIn(r, q, s) = {} THEN NoToken
        ELSE BarrierAt(schedule[r], LatestOf(PublishedIn(r, q, s)))]]]

\* The protocol without an end.
Endless == INSTANCE EdgeBarrierProofs WITH edge_seq <- EdgeSeqs, signal_buf <- Cells

\* A rank that has not drained has its counters and its cells as they would be.
FaithfulInv ==
    \A r \in Rank : phase[r] \notin Drained =>
        /\ edge_seq[r] = EdgeSeqs[r]
        /\ signal_buf[r] = Cells[r]

\* The operators that both versions of the protocol have mean the same.
LEMMA SameOperators ==
    /\ \A r, q : Endless!Reached(r, q) = Reached(r, q)
    /\ \A r, q, i : Endless!Published(r, q, i) <=> Published(r, q, i)
    /\ \A r, q, i : Endless!Passed(r, q, i) <=> Passed(r, q, i)
    /\ \A t, i : Endless!BarrierAt(t, i) = BarrierAt(t, i)
    /\ \A t, q, i : Endless!Round(t, q, i) = Round(t, q, i)
<1>1. \A S, n : Endless!CountUpTo(S, n) = CountUpTo(S, n)
  <2>1. \A S : Endless!Cardinality(S) = Cardinality(S)
    BY DEF Endless!Cardinality, Cardinality
  <2>2. QED
    BY <2>1 DEF Endless!CountUpTo, CountUpTo
<1>2. \A t, q : Endless!Shared(t, q) = Shared(t, q)
  BY DEF Endless!Shared, Shared
<1>3. \A t, g : Endless!Calls(t, g) = Calls(t, g)
  BY DEF Endless!Calls, Calls
<1>4. \A r, q : Endless!Reached(r, q) = Reached(r, q)
  BY DEF Endless!Reached, Reached
<1>5. \A r, q, i : /\ Endless!Published(r, q, i) <=> Published(r, q, i)
                   /\ Endless!Passed(r, q, i) <=> Passed(r, q, i)
  BY <1>2 DEF Endless!Published, Published, Endless!Passed, Passed
<1>6. \A t, i : Endless!BarrierAt(t, i) = BarrierAt(t, i)
  BY <1>1, <1>3 DEF Endless!BarrierAt, BarrierAt
<1>7. \A t, q, i : Endless!Round(t, q, i) = Round(t, q, i)
  BY <1>1, <1>2 DEF Endless!Round, Round
<1>8. QED
  BY <1>4, <1>5, <1>6, <1>7

\* Nothing more is published: the shadows stay.
LEMMA ShadowsStay ==
    ASSUME schedule' = schedule,
           \A p, o \in Rank : EdgeSeqs'[p][o] = EdgeSeqs[p][o],
           \A p, o \in Rank : \A i : Published(p, o, i)' <=> Published(p, o, i)
    PROVE  EdgeSeqs' = EdgeSeqs /\ Cells' = Cells
<1>1. EdgeSeqs' = EdgeSeqs
  BY DEF EdgeSeqs
<1>2. ASSUME NEW p \in Rank, NEW o \in Rank, NEW s \in Slot
      PROVE  PublishedIn(p, o, s)' = PublishedIn(p, o, s)
  BY DEF PublishedIn
<1>3. Cells' = Cells
  BY <1>2 DEF Cells
<1>4. QED
  BY <1>1, <1>3

\* So it is where no program starts and no kernel retires,
LEMMA SameReach ==
    ASSUME schedule' = schedule, retired' = retired,
           \A p, o \in Rank : pc'[p][o] = "idle" <=> pc[p][o] = "idle"
    PROVE  EdgeSeqs' = EdgeSeqs /\ Cells' = Cells
<1>1. ASSUME NEW p \in Rank, NEW o \in Rank PROVE Reached(p, o)' = Reached(p, o)
  BY DEF Reached
<1>2. \A p, o \in Rank : EdgeSeqs'[p][o] = EdgeSeqs[p][o]
  BY <1>1 DEF EdgeSeqs
<1>3. \A p, o \in Rank : \A i : Published(p, o, i)' <=> Published(p, o, i)
  BY DEF Published
<1>4. QED
  BY <1>2, <1>3, ShadowsStay

\* and where one retires: its programs have published, or it had none.
LEMMA RetireReach ==
    ASSUME TypeOK, StreamInv, PcInv, NEW r \in Rank, Retire(r)
    PROVE  EdgeSeqs' = EdgeSeqs /\ Cells' = Cells
<1>1. /\ schedule' = schedule /\ retired[r] \in Nat
      /\ retired'[r] = retired[r] + 1 /\ \A o \in Rank : pc'[r][o] = "idle"
      /\ \A p \in Rank \ {r} : retired'[p] = retired[p] /\ pc'[p] = pc[p]
  BY DEF Retire, TypeOK
<1>2. ASSUME NEW o \in Rank
      PROVE  /\ CountUpTo(Shared(schedule[r], o), Reached(r, o)')
                  = CountUpTo(Shared(schedule[r], o), Reached(r, o))
             /\ \A i : Published(r, o, i)' <=> Published(r, o, i)
  <2>1. Reached(r, o)' = retired[r] + 1
    BY <1>1 DEF Reached
  <2>2. \A i \in Shared(schedule[r], o) : i \in Nat
    BY ScheduleFacts, RoundType
  <2>3. CASE retired[r] + 1 \in Shared(schedule[r], o)
    <3>1. pc[r][o] = "done"
      BY <2>3, RetireFacts
    <3>2. QED
      BY <1>1, <2>1, <2>2, <3>1 DEF Reached, Published
  <2>4. CASE retired[r] + 1 \notin Shared(schedule[r], o)
    <3>1. pc[r][o] = "idle"
      BY <2>4, RetireFacts
    <3>2. CountUpTo(Shared(schedule[r], o), retired[r] + 1) = CountUpTo(Shared(schedule[r], o), retired[r])
      <4>1. CountUpTo(Shared(schedule[r], o), retired[r]) \in Nat
        BY <1>1, CountType
      <4>2. QED
        BY <1>1, <2>4, <4>1, CountStep
    <3>3. \A i : Published(r, o, i)' <=> Published(r, o, i)
      BY <1>1, <2>2, <2>4, <3>1 DEF Published
    <3>4. QED
      BY <1>1, <2>1, <3>1, <3>2, <3>3 DEF Reached
  <2>5. QED
    BY <2>3, <2>4
<1>3. ASSUME NEW p \in Rank, NEW o \in Rank
      PROVE  /\ EdgeSeqs'[p][o] = EdgeSeqs[p][o]
             /\ \A i : Published(p, o, i)' <=> Published(p, o, i)
  <2>1. CASE p = r
    BY <1>1, <1>2, <2>1 DEF EdgeSeqs
  <2>2. CASE p # r
    <3>1. Reached(p, o)' = Reached(p, o)
      BY <1>1, <2>2 DEF Reached
    <3>2. QED
      BY <1>1, <2>2, <3>1 DEF EdgeSeqs, Published
  <2>3. QED
    BY <2>1, <2>2
<1>4. QED
  BY <1>1, <1>3, ShadowsStay

\* Functions of three arguments, and two of them that differ at one place.
IsGrid(f, A, B, C) == f = [x \in A |-> [y \in B |-> [z \in C |-> f[x][y][z]]]]
\* If g is f but for v at one place then g is f with v put there.
LEMMA OneCell ==
    ASSUME NEW A, NEW B, NEW C, NEW f, NEW g, IsGrid(f, A, B, C), IsGrid(g, A, B, C),
           NEW a \in A, NEW b \in B, NEW c \in C, NEW v, g[a][b][c] = v,
           \A x \in A, y \in B, z \in C : ~ (x = a /\ y = b /\ z = c) => g[x][y][z] = f[x][y][z]
    PROVE  g = [f EXCEPT ![a][b][c] = v]
<1> DEFINE h == [f EXCEPT ![a][b][c] = v]
<1>1. ASSUME NEW x \in A PROVE h[x] = g[x]
  <2>1. CASE x # a
    <3>1. h[x] = f[x]
      BY <2>1 DEF IsGrid
    <3>2. \A y \in B, z \in C : g[x][y][z] = f[x][y][z]
      BY <2>1
    <3>3. f[x] = [y \in B |-> [z \in C |-> f[x][y][z]]] /\ g[x] = [y \in B |-> [z \in C |-> g[x][y][z]]]
      BY Zenon DEF IsGrid
    <3>4. [y \in B |-> [z \in C |-> f[x][y][z]]] = [y \in B |-> [z \in C |-> g[x][y][z]]]
      BY <3>2
    <3>5. QED
      BY <3>1, <3>3, <3>4, Zenon
  <2>2. CASE x = a
    <3>1. h[a] = [f[a] EXCEPT ![b][c] = v]
      BY DEF IsGrid
    <3>2. f[a] = [y \in B |-> [z \in C |-> f[a][y][z]]] /\ g[a] = [y \in B |-> [z \in C |-> g[a][y][z]]]
      BY Zenon DEF IsGrid
    <3>h. h[a] = [y \in B |-> IF y = b THEN [f[a][b] EXCEPT ![c] = v] ELSE f[a][y]]
      <4>1. PICK u : u = f[a]
        OBVIOUS
      <4>2. h[a] = [u EXCEPT ![b] = [u[b] EXCEPT ![c] = v]]
        BY <3>1, <4>1
      <4>3. u = [y \in B |-> u[y]]
        <5>1. PICK w : w = [y \in B |-> [z \in C |-> f[a][y][z]]]
          OBVIOUS
        <5>2. w = [y \in B |-> w[y]]
          BY <5>1
        <5>3. QED
          BY <3>2, <4>1, <5>1, <5>2
      <4>4. QED
        BY <4>1, <4>2, <4>3
    <3>3. ASSUME NEW y \in B PROVE h[a][y] = g[a][y]
      <4>1. f[a][y] = [z \in C |-> f[a][y][z]] /\ g[a][y] = [z \in C |-> g[a][y][z]]
        BY <3>2, Zenon
      <4>2. CASE y # b
        BY <3>1, <3>2, <4>1, <4>2
      <4>3. CASE y = b
        <5>1. h[a][b] = [f[a][b] EXCEPT ![c] = v]
          BY <3>h
        <5>2. h[a][b] = [z \in C |-> IF z = c THEN v ELSE f[a][b][z]]
          BY <4>1, <4>3, <5>1
        <5>3. \A z \in C : g[a][b][z] = IF z = c THEN v ELSE f[a][b][z]
          OBVIOUS
        <5>4. QED
          BY <4>1, <4>3, <5>2, <5>3
      <4>4. QED
        BY <4>2, <4>3
    <3>4. h[a] = [y \in B |-> h[a][y]]
      BY <3>h
    <3>5. QED
      BY <2>2, <3>2, <3>3, <3>4
  <2>3. QED
    BY <2>1, <2>2
<1>2. h = [x \in A |-> h[x]] /\ g = [x \in A |-> g[x]]
  <2>1. f = [x \in A |-> f[x]] /\ g = [x \in A |-> g[x]]
    BY Zenon DEF IsGrid
  <2>2. QED
    BY <2>1
<1>3. QED
  BY <1>1, <1>2

\* A publication counts on its edge and is the latest of its cell.
LEMMA PublishShadows ==
    ASSUME TypeOK, StreamInv, NEW r \in Rank, NEW q \in Rank, Publish(r, q)
    PROVE  /\ EdgeSeqs' = [EdgeSeqs EXCEPT ![r][q] = @ + 1]
           /\ Cells' = [Cells EXCEPT ![q][SlotOf(EdgeSeqs[r][q])][r] = Kernel(r).token]
           /\ EdgeSeqs[r][q] \in Nat
<1>i. PICK i \in Nat : i = retired[r] + 1
  BY DEF TypeOK
<1>1. /\ i \in DOMAIN schedule[r] /\ i \in Shared(schedule[r], q)
      /\ Kernel(r).token = BarrierAt(schedule[r], i)
  BY <1>i, KernelFacts DEF Publish, Running, Shared
<1>2. /\ schedule' = schedule /\ retired' = retired /\ retired[r] \in Nat
      /\ pc[r][q] = "idle" /\ pc'[r][q] = "published"
      /\ \A p, o \in Rank : ~ (p = r /\ o = q) => pc'[p][o] = pc[p][o]
  BY DEF Publish, TypeOK
<1>n. PICK n \in Nat : n = EdgeSeqs[r][q]
  <2>1. CountUpTo(Shared(schedule[r], q), Reached(r, q)) \in Nat
    <3>1. Reached(r, q) \in Nat
      BY <1>2 DEF Reached
    <3>2. QED
      BY <3>1, CountType
  <2>2. QED
    BY <2>1 DEF EdgeSeqs
<1>3. n = CountUpTo(Shared(schedule[r], q), retired[r])
  BY <1>2, <1>n DEF EdgeSeqs, Reached
<1>4. Round(schedule[r], q, i) = n + 1
  BY <1>i, <1>1, <1>2, <1>3, CountStep DEF Round
<1>5. EdgeSeqs' = [EdgeSeqs EXCEPT ![r][q] = @ + 1]
  <2>1. EdgeSeqs'[r][q] = n + 1
    BY <1>i, <1>2, <1>4 DEF EdgeSeqs, Reached, Round
  <2>2. ASSUME NEW p \in Rank, NEW o \in Rank, ~ (p = r /\ o = q)
        PROVE  EdgeSeqs'[p][o] = EdgeSeqs[p][o]
    <3>1. Reached(p, o)' = Reached(p, o)
      BY <1>2, <2>2 DEF Reached
    <3>2. QED
      BY <1>2, <3>1 DEF EdgeSeqs
  <2>3. /\ EdgeSeqs = [p \in Rank |-> [o \in Rank |-> EdgeSeqs[p][o]]]
        /\ EdgeSeqs' = [p \in Rank |-> [o \in Rank |-> EdgeSeqs'[p][o]]]
    BY DEF EdgeSeqs
  <2>4. QED
    BY <1>n, <2>1, <2>2, <2>3
<1>6. ASSUME NEW x
      PROVE  Published(r, q, x)' <=> Published(r, q, x) \/ x = i
  BY <1>i, <1>1, <1>2 DEF Published
<1>7. ASSUME NEW x, Published(r, q, x) PROVE x \in Nat /\ x < i
  <2>1. x \in Nat
    BY <1>7, ScheduleFacts, RoundType DEF Published
  <2>2. QED
    BY <1>i, <1>2, <1>7, <2>1 DEF Published
<1>8. SlotOf((n + 1) - 1) = SlotOf(n) /\ SlotOf(n) \in Slot
  BY SlotParity
<1>9. ASSUME NEW s \in Slot, s # SlotOf(n) PROVE PublishedIn(r, q, s)' = PublishedIn(r, q, s)
  BY <1>2, <1>4, <1>6, <1>8, <1>9 DEF PublishedIn
<1>10. PublishedIn(r, q, SlotOf(n))' = PublishedIn(r, q, SlotOf(n)) \cup {i}
  BY <1>1, <1>2, <1>4, <1>6, <1>8 DEF PublishedIn
<1>11. LatestOf(PublishedIn(r, q, SlotOf(n)) \cup {i}) = i
  <2>1. \A x \in PublishedIn(r, q, SlotOf(n)) : x \in Nat /\ x < i
    BY <1>7 DEF PublishedIn
  <2>2. \A x \in PublishedIn(r, q, SlotOf(n)) \cup {i} :
          (\A y \in PublishedIn(r, q, SlotOf(n)) \cup {i} : y <= x) <=> x = i
    BY <2>1
  <2>3. QED
    BY <2>2 DEF LatestOf
<1>12. Cells'[q][SlotOf(n)][r] = Kernel(r).token
  BY <1>1, <1>2, <1>8, <1>10, <1>11 DEF Cells
<1>13. ASSUME NEW o \in Rank, NEW s \in Slot, NEW p \in Rank, ~ (o = q /\ s = SlotOf(n) /\ p = r)
       PROVE  Cells'[o][s][p] = Cells[o][s][p]
  <2>1. PublishedIn(p, o, s)' = PublishedIn(p, o, s)
    <3>1. CASE p = r /\ o = q
      BY <1>9, <1>13, <3>1
    <3>2. CASE ~ (p = r /\ o = q)
      BY <1>2, <3>2 DEF PublishedIn, Published
    <3>3. QED
      BY <3>1, <3>2
  <2>2. QED
    BY <1>2, <2>1 DEF Cells
<1>14. Cells' = [Cells EXCEPT ![q][SlotOf(n)][r] = Kernel(r).token]
  <2>1. PICK f, g : f = Cells /\ g = Cells'
    OBVIOUS
  <2>2. IsGrid(f, Rank, Slot, Rank) /\ IsGrid(g, Rank, Slot, Rank)
    BY <2>1 DEF Cells, IsGrid
  <2>3. /\ g[q][SlotOf(n)][r] = Kernel(r).token
        /\ \A o \in Rank, s \in Slot, p \in Rank :
              ~ (o = q /\ s = SlotOf(n) /\ p = r) => g[o][s][p] = f[o][s][p]
    BY <1>12, <1>13, <2>1
  <2>4. g = [f EXCEPT ![q][SlotOf(n)][r] = Kernel(r).token]
    BY <1>8, <2>2, <2>3, OneCell
  <2>5. QED
    BY <2>1, <2>4
<1>15. QED
  BY <1>5, <1>14, <1>n

\* A rank with a kernel in its stream has not drained.
LEMMA BusyIsOpen ==
    ASSUME ShutdownInv, NEW r \in Rank, retired[r] < Len(stream[r])
    PROVE  phase[r] \notin Drained
<1>1. Len(stream[r]) \in Nat /\ Len(schedule[r]) \in Nat /\ retired[r] \in Nat
  BY ScheduleFacts DEF ShutdownInv, TypeOK
<1>2. ~ Finished(r)
  BY <1>1 DEF Finished, ShutdownInv, StreamInv
<1>3. QED
  BY <1>2 DEF ShutdownInv, DrainedInv

\* In particular one that runs has not.
LEMMA RunningIsOpen ==
    ASSUME ShutdownInv, NEW r \in Rank, Running(r)
    PROVE  phase[r] \notin Drained
  BY BusyIsOpen DEF Running

\* Zeroing and waiting are not steps of the protocol.
LEMMA ShutdownUnseen ==
    ASSUME NEW r \in Rank, Shutdown(r)
    PROVE  /\ UNCHANGED <<schedule, epochs, stream, retired, pc, trapped>>
           /\ UNCHANGED Endless!vars
<1>1. UNCHANGED <<schedule, epochs, stream, retired, pc, trapped>>
  BY DEF Shutdown, Drain, DrainRaises, ZeroSignalGrid, ZeroEdgeSeq, LeaveWorldBarrier, vars
<1>2. EdgeSeqs' = EdgeSeqs /\ Cells' = Cells
  BY <1>1, SameReach
<1>3. QED
  BY <1>1, <1>2 DEF Endless!vars

\* Publishing is publishing,
LEMMA PublishSeen ==
    ASSUME ShutdownInv, FaithfulInv, NEW r \in Rank, NEW q \in Rank, Publish(r, q)
    PROVE  Endless!Publish(r, q)
<1>1. TypeOK /\ StreamInv
  BY DEF ShutdownInv
<1>2. /\ EdgeSeqs' = [EdgeSeqs EXCEPT ![r][q] = @ + 1]
      /\ Cells' = [Cells EXCEPT ![q][SlotOf(EdgeSeqs[r][q])][r] = Kernel(r).token]
  BY <1>1, PublishShadows
<1>3. Endless!Running(r) /\ Endless!Kernel(r) = Kernel(r)
  BY DEF Publish, Running, Endless!Running, Kernel, Endless!Kernel
<1>4. Endless!SlotOf(EdgeSeqs[r][q]) = SlotOf(EdgeSeqs[r][q])
  BY DEF SlotOf, Endless!SlotOf
<1>5. /\ q \in Members[Kernel(r).group] /\ pc[r][q] = "idle"
      /\ pc' = [pc EXCEPT ![r][q] = "published"]
      /\ UNCHANGED <<schedule, epochs, stream, retired, trapped>>
  BY DEF Publish
<1>6. QED
  BY <1>2, <1>3, <1>4, <1>5 DEF Endless!Publish

\* and a load loads what it would have.
LEMMA LoadSeen ==
    ASSUME ShutdownInv, FaithfulInv, NEW r \in Rank, NEW q \in Rank,
           FirstLoad(r, q) \/ SpinLoad(r, q) \/ Trap(r, q)
    PROVE  Endless!FirstLoad(r, q) \/ Endless!SpinLoad(r, q) \/ Endless!Trap(r, q)
<1>1. Running(r) /\ UNCHANGED <<schedule, epochs, stream, retired>>
  BY DEF FirstLoad, SpinLoad, Trap
<1>2. edge_seq[r] = EdgeSeqs[r] /\ signal_buf[r] = Cells[r]
  BY <1>1, RunningIsOpen DEF FaithfulInv
<1>3. Endless!Observed(r, q) = Observed(r, q)
  BY <1>2 DEF Observed, Endless!Observed, SlotOf, Endless!SlotOf
<1>4. Endless!Running(r) /\ Endless!Kernel(r) = Kernel(r)
  BY <1>1 DEF Running, Endless!Running, Kernel, Endless!Kernel
<1>5. \A p, o \in Rank : pc'[p][o] = "idle" <=> pc[p][o] = "idle"
  <2>1. Load(r, q) \/ pc' = pc
    BY DEF Load, Trap
  <2>2. QED
    BY <2>1, LoadFacts DEF ShutdownInv
<1>6. EdgeSeqs' = EdgeSeqs /\ Cells' = Cells
  BY <1>1, <1>5, SameReach
<1>7. CASE FirstLoad(r, q)
  BY <1>3, <1>4, <1>6, <1>7 DEF FirstLoad, Endless!FirstLoad
<1>8. CASE SpinLoad(r, q)
  BY <1>3, <1>4, <1>6, <1>8 DEF SpinLoad, Endless!SpinLoad
<1>9. CASE Trap(r, q)
  BY <1>4, <1>6, <1>9 DEF Trap, Endless!Trap
<1>10. QED
  BY <1>7, <1>8, <1>9

\* The invariant of the simulation.
SimInv == ShutdownInv /\ PcInv /\ FaithfulInv

\* Every step is one of the protocol that never ends, or none.
LEMMA Simulated == SimInv /\ [SNext]_allVars => [Endless!Next]_(Endless!vars)
<1> SUFFICES ASSUME SimInv, [SNext]_allVars PROVE [Endless!Next]_(Endless!vars)
  OBVIOUS
<1>1. ShutdownInv /\ PcInv /\ FaithfulInv /\ TypeOK /\ StreamInv
  BY DEF SimInv, ShutdownInv
<1>2. ASSUME NEW r \in Rank, HostBarrier(r) PROVE Endless!Next
  <2>1. EdgeSeqs' = EdgeSeqs /\ Cells' = Cells
    BY <1>2, SameReach DEF HostBarrier, deviceVars
  <2>2. Endless!HostBarrier(r)
    BY <1>2, <2>1 DEF HostBarrier, deviceVars, ComputeToken,
                      Endless!HostBarrier, Endless!deviceVars, Endless!ComputeToken
  <2>3. QED
    BY <2>2 DEF Endless!Next
<1>3. ASSUME NEW r \in Rank, Retire(r) PROVE Endless!Next
  <2>1. EdgeSeqs' = EdgeSeqs /\ Cells' = Cells
    BY <1>1, <1>3, RetireReach
  <2>2. Endless!Retire(r)
    BY <1>3, <2>1 DEF Retire, Running, Kernel, Endless!Retire, Endless!Running, Endless!Kernel
  <2>3. QED
    BY <2>2 DEF Endless!Next
<1>4. ASSUME NEW r \in Rank, NEW q \in Rank, Edge(r, q) PROVE Endless!Next
  <2>1. Endless!Edge(r, q)
    BY <1>1, <1>4, PublishSeen, LoadSeen DEF Edge, Endless!Edge
  <2>2. QED
    BY <2>1 DEF Endless!Next
<1>5. ASSUME NEW r \in Rank, Shutdown(r) PROVE UNCHANGED Endless!vars
  BY <1>5, ShutdownUnseen
<1>6. CASE UNCHANGED allVars
  <2>1. EdgeSeqs' = EdgeSeqs /\ Cells' = Cells
    BY <1>6, SameReach DEF allVars, vars
  <2>2. QED
    BY <1>6, <2>1 DEF allVars, vars, Endless!vars
<1>7. QED
  BY <1>2, <1>3, <1>4, <1>5, <1>6 DEF SNext, Protocol

\* Initially nothing has been published.
LEMMA SimInit == SInit => SimInv /\ Endless!Init
<1> SUFFICES ASSUME SInit PROVE SimInv /\ Endless!Init
  OBVIOUS
<1>1. ShutdownInv /\ Init /\ TypeOK /\ PcInv
  BY ShutdownInit, InitCount DEF SInit, ShutdownInv, CountInv
<1>2. ASSUME NEW r \in Rank, NEW q \in Rank
      PROVE  EdgeSeqs[r][q] = 0 /\ \A i : ~ Published(r, q, i)
  <2>1. retired[r] = 0 /\ pc[r][q] = "idle"
    BY <1>1 DEF Init
  <2>2. \A i \in Shared(schedule[r], q) : i \in Nat \ {0}
    BY <1>1, ScheduleFacts, RoundType
  <2>3. CountUpTo(Shared(schedule[r], q), 0) = 0
    BY <2>2, CountZero
  <2>4. \A i : ~ Published(r, q, i)
    BY <2>1, <2>2 DEF Published
  <2>5. QED
    BY <2>1, <2>3, <2>4 DEF EdgeSeqs, Reached
<1>3. EdgeSeqs = [r \in Rank |-> [q \in Rank |-> 0]]
  BY <1>2 DEF EdgeSeqs
<1>4. Cells = [q \in Rank |-> [s \in Slot |-> [r \in Rank |-> NoToken]]]
  BY <1>2 DEF Cells, PublishedIn
<1>5. Endless!Init
  BY <1>1, <1>3, <1>4 DEF Init, Endless!Init, Slot, Endless!Slot, NoToken, Endless!NoToken
<1>6. FaithfulInv
  BY <1>1, <1>3, <1>4 DEF Init, FaithfulInv
<1>7. QED
  BY <1>1, <1>5, <1>6 DEF SimInv

\* A store reaches a rank's cells only as it reaches their shadows, and only
\* the rank itself zeroes them.
LEMMA SimNext == SimInv /\ [SNext]_allVars => SimInv'
<1> SUFFICES ASSUME SimInv, [SNext]_allVars PROVE SimInv'
  OBVIOUS
<1>1. ShutdownInv /\ PcInv /\ FaithfulInv /\ TypeOK /\ StreamInv /\ phase \in [Rank -> Phase]
  BY DEF SimInv, ShutdownInv
<1>2. ShutdownInv'
  BY <1>1, ShutdownNext
<1>3. PcInv'
  <2>1. CASE [Next]_vars
    BY <1>1, <2>1, NextPc
  <2>2. ASSUME NEW r \in Rank, Shutdown(r) PROVE PcInv'
    BY <1>1, <2>2, ShutdownUnseen DEF PcInv
  <2>3. CASE UNCHANGED allVars
    BY <2>1, <2>3 DEF allVars
  <2>4. QED
    BY <2>1, <2>2, <2>3, ProtocolIsNext DEF SNext
<1>4. FaithfulInv'
  <2>1. ASSUME edge_seq' = edge_seq, signal_buf' = signal_buf, EdgeSeqs' = EdgeSeqs, Cells' = Cells,
               \A r \in Rank : phase'[r] \notin Drained => phase[r] \notin Drained
        PROVE  FaithfulInv'
    BY <1>1, <2>1 DEF FaithfulInv
  <2>2. ASSUME NEW r \in Rank, HostBarrier(r), phase' = phase PROVE FaithfulInv'
    BY <2>1, <2>2, SameReach DEF HostBarrier, deviceVars
  <2>3. ASSUME NEW r \in Rank, Retire(r), phase' = phase PROVE FaithfulInv'
    BY <1>1, <2>1, <2>3, RetireReach DEF Retire
  <2>4. ASSUME NEW r \in Rank, NEW q \in Rank, Publish(r, q), phase' = phase PROVE FaithfulInv'
    <3>1. /\ EdgeSeqs' = [EdgeSeqs EXCEPT ![r][q] = @ + 1]
          /\ Cells' = [Cells EXCEPT ![q][SlotOf(EdgeSeqs[r][q])][r] = Kernel(r).token]
      BY <1>1, <2>4, PublishShadows
    <3>2. /\ edge_seq' = [edge_seq EXCEPT ![r][q] = @ + 1]
          /\ signal_buf' = [signal_buf EXCEPT ![q][SlotOf(edge_seq[r][q])][r] = Kernel(r).token]
          /\ phase[r] \notin Drained
      BY <1>1, <2>4, RunningIsOpen DEF Publish
    <3>3. edge_seq[r] = EdgeSeqs[r]
      BY <1>1, <3>2 DEF FaithfulInv
    <3>4. PICK s, t : s = SlotOf(EdgeSeqs[r][q]) /\ t = Kernel(r).token
      OBVIOUS
    <3>5. ASSUME NEW p \in Rank, phase[p] \notin Drained PROVE edge_seq'[p] = EdgeSeqs'[p]
      <4>1. edge_seq[p] = EdgeSeqs[p]
        BY <1>1, <3>5 DEF FaithfulInv
      <4>2. p \in DOMAIN edge_seq /\ p \in DOMAIN EdgeSeqs
        BY <1>1 DEF TypeOK, EdgeSeqs
      <4>3. QED
        BY <3>1, <3>2, <3>3, <4>1, <4>2
    <3>6. ASSUME NEW p \in Rank, phase[p] \notin Drained PROVE signal_buf'[p] = Cells'[p]
      <4>1. signal_buf[p] = Cells[p]
        BY <1>1, <3>6 DEF FaithfulInv
      <4>2. p \in DOMAIN signal_buf /\ p \in DOMAIN Cells
        BY <1>1 DEF TypeOK, Cells
      <4>3. /\ signal_buf' = [signal_buf EXCEPT ![q][s][r] = t]
            /\ Cells' = [Cells EXCEPT ![q][s][r] = t]
        BY <3>1, <3>2, <3>3, <3>4
      <4>4. QED
        BY <4>1, <4>2, <4>3
    <3>7. QED
      BY <2>4, <3>5, <3>6 DEF FaithfulInv
  <2>5. ASSUME NEW r \in Rank, NEW q \in Rank, FirstLoad(r, q) \/ SpinLoad(r, q) \/ Trap(r, q),
               phase' = phase
        PROVE  FaithfulInv'
    <3>1. /\ UNCHANGED <<schedule, retired, edge_seq, signal_buf>>
          /\ \A p, o \in Rank : pc'[p][o] = "idle" <=> pc[p][o] = "idle"
      <4>1. Load(r, q) \/ (Trap(r, q) /\ pc' = pc)
        BY <2>5 DEF Load, Trap
      <4>2. QED
        BY <1>1, <4>1, LoadFacts DEF Trap
    <3>2. QED
      BY <2>1, <2>5, <3>1, SameReach
  <2>6. ASSUME NEW r \in Rank, Shutdown(r) PROVE FaithfulInv'
    <3>1. EdgeSeqs' = EdgeSeqs /\ Cells' = Cells
      BY <2>6, ShutdownUnseen DEF Endless!vars
    <3>2. \A p \in Rank \ {r} : edge_seq'[p] = edge_seq[p] /\ signal_buf'[p] = signal_buf[p] /\ phase'[p] = phase[p]
      BY <1>1, <2>6 DEF Shutdown, Drain, DrainRaises, ZeroSignalGrid, ZeroEdgeSeq, LeaveWorldBarrier, vars, TypeOK
    <3>3. \/ phase'[r] \in Drained
          \/ edge_seq'[r] = edge_seq[r] /\ signal_buf'[r] = signal_buf[r] /\ phase[r] \notin Drained
      BY <1>1, <2>6 DEF Shutdown, Drain, DrainRaises, ZeroSignalGrid, ZeroEdgeSeq, LeaveWorldBarrier, vars, Drained
    <3>4. QED
      BY <1>1, <3>1, <3>2, <3>3 DEF FaithfulInv
  <2>7. CASE UNCHANGED allVars
    BY <2>1, <2>7, SameReach DEF allVars, vars
  <2>8. QED
    BY <2>2, <2>3, <2>4, <2>5, <2>6, <2>7 DEF SNext, Protocol, Edge
<1>5. QED
  BY <1>2, <1>3, <1>4 DEF SimInv

\* Zeroing is invisible: with the shadows in place of the counters and the
\* cells, ranks that shut down while their peers still run barriers take part in
\* a behaviour of the protocol that nobody shuts down (runtime.py:1752).
THEOREM ZeroingInvisible == SSpec => Endless!Spec
<1>1. SInit => SimInv /\ Endless!Init
  BY SimInit
<1>2. SimInv /\ [SNext]_allVars => SimInv' /\ [Endless!Next]_(Endless!vars)
  BY SimNext, Simulated
<1>3. QED
  BY <1>1, <1>2, PTL DEF SSpec, Endless!Spec

\* A barrier lets a rank past a peer that entered it, shutdowns or not.
THEOREM BarrierSyncSurvivesShutdown == SSpec => []BarrierSync
<1>1. Endless!Spec => []Endless!BarrierSync
  BY Endless!BarrierSyncHolds, MembersAssumption, SchedulesAssumption, TimeoutAssumption
     DEF WellFormed, Endless!WellFormed
<1>2. Endless!BarrierSync => BarrierSync
  BY SameOperators DEF Endless!BarrierSync, BarrierSync
<1>3. QED
  BY <1>1, <1>2, ZeroingInvisible, PTL

\* A published signal is still in its cell: that of a rank that waits for it has
\* not been zeroed.
THEOREM NoLostSignalSurvivesShutdown == SSpec => []NoLostSignal
<1>1. Endless!Spec => []Endless!NoLostSignal
  BY Endless!NoLostSignalHolds, MembersAssumption, SchedulesAssumption, TimeoutAssumption
     DEF WellFormed, Endless!WellFormed
<1>2. SimInv /\ Endless!NoLostSignal => NoLostSignal
  <2> SUFFICES ASSUME SimInv, Endless!NoLostSignal,
                      NEW r \in Rank, NEW q \in Rank, NEW j \in DOMAIN schedule[q],
                      pc[r][q] \in {"published", "spin"}, Published(q, r, j),
                      BarrierAt(schedule[q], j) = BarrierAt(schedule[r], retired[r] + 1)
               PROVE  Observed(r, q) = Kernel(r).token
    BY DEF NoLostSignal
  <2>1. Endless!Observed(r, q) = Endless!Kernel(r).token
    BY SameOperators DEF Endless!NoLostSignal
  <2>2. edge_seq[r] = EdgeSeqs[r] /\ signal_buf[r] = Cells[r]
    BY BusyIsOpen DEF SimInv, PcInv, FaithfulInv
  <2>3. QED
    BY <2>1, <2>2 DEF Observed, Endless!Observed, SlotOf, Endless!SlotOf, Kernel, Endless!Kernel
<1>3. SSpec => []SimInv
  BY SimInit, SimNext, PTL DEF SSpec
<1>4. QED
  BY <1>1, <1>2, <1>3, ZeroingInvisible, PTL

\* Shutdowns add nothing to what the ideal barrier does.
THEOREM RefinementSurvivesShutdown == SSpec => ImplementsGroupBarrier
<1>1. Endless!Spec => Endless!ImplementsGroupBarrier
  BY Endless!Refinement, MembersAssumption, SchedulesAssumption, TimeoutAssumption
     DEF WellFormed, Endless!WellFormed
<1>2. Endless!Abs!Init => Abs!Init
  BY DEF Endless!Abs!Init, Abs!Init
<1>3. [Endless!Abs!Next]_(Endless!Abs!vars) => [Abs!Next]_(Abs!vars)
  <2>1. \A t, i : Endless!Abs!BarrierAt(t, i) = Abs!BarrierAt(t, i)
    <3>1. \A S : Endless!Abs!Cardinality(S) = Abs!Cardinality(S)
      BY DEF Endless!Abs!Cardinality, Abs!Cardinality
    <3>2. \A t, g : Endless!Abs!Calls(t, g) = Abs!Calls(t, g)
      BY DEF Endless!Abs!Calls, Abs!Calls
    <3>3. QED
      BY <3>1, <3>2 DEF Endless!Abs!BarrierAt, Abs!BarrierAt, Endless!Abs!CountUpTo, Abs!CountUpTo
  <2>2. ASSUME NEW r \in Rank, Endless!Abs!Arrive(r) PROVE Abs!Next
    BY <2>2 DEF Endless!Abs!Arrive, Abs!Arrive, Abs!Next
  <2>3. ASSUME NEW r \in Rank, Endless!Abs!Depart(r) PROVE Abs!Next
    BY <2>1, <2>3 DEF Endless!Abs!Depart, Endless!Abs!At, Abs!Depart, Abs!At, Abs!Next
  <2>4. UNCHANGED Endless!Abs!vars => UNCHANGED Abs!vars
    BY DEF Endless!Abs!vars, Abs!vars
  <2>5. QED
    BY <2>2, <2>3, <2>4 DEF Endless!Abs!Next
<1>4. QED
  BY <1>1, <1>2, <1>3, ZeroingInvisible, PTL DEF Endless!ImplementsGroupBarrier, ImplementsGroupBarrier,
     Endless!Abs!Spec, Abs!Spec
-----------------------------------------------------------------------------
(* What is stored after a drain, and what is left when all have closed.    *)

\* What has been published stays so.
LEMMA PublishedStays ==
    ASSUME SimInv, [SNext]_allVars, NEW p \in Rank, NEW o \in Rank, NEW i, Published(p, o, i)
    PROVE  Published(p, o, i)' /\ schedule' = schedule
<1>1. TypeOK /\ StreamInv
  BY DEF SimInv, ShutdownInv
<1>2. i \in Nat /\ retired[p] \in Nat
  BY <1>1, ScheduleFacts, RoundType DEF Published, TypeOK
<1>3. ASSUME schedule' = schedule, retired' = retired,
             pc[p][o] # "idle" => pc'[p][o] # "idle"
      PROVE  Published(p, o, i)' /\ schedule' = schedule
  BY <1>3 DEF Published
<1>4. ASSUME NEW r \in Rank, Retire(r) PROVE Published(p, o, i)' /\ schedule' = schedule
  <2>1. schedule' = schedule /\ (p # r => pc'[p] = pc[p] /\ retired'[p] = retired[p])
                             /\ (p = r => retired'[p] = retired[p] + 1)
    BY <1>1, <1>4 DEF Retire, TypeOK
  <2>2. QED
    BY <1>2, <2>1 DEF Published
<1>5. ASSUME NEW r \in Rank, NEW q \in Rank, Publish(r, q)
      PROVE  Published(p, o, i)' /\ schedule' = schedule
  BY <1>1, <1>3, <1>5 DEF Publish, TypeOK
<1>6. ASSUME NEW r \in Rank, NEW q \in Rank, FirstLoad(r, q) \/ SpinLoad(r, q)
      PROVE  Published(p, o, i)' /\ schedule' = schedule
  BY <1>1, <1>3, <1>6, LoadFacts DEF Load
<1>7. ASSUME UNCHANGED <<schedule, retired, pc>> PROVE Published(p, o, i)' /\ schedule' = schedule
  BY <1>3, <1>7
<1>8. ASSUME NEW r \in Rank, Shutdown(r) \/ HostBarrier(r) \/ (\E q \in Rank : Trap(r, q))
      PROVE  Published(p, o, i)' /\ schedule' = schedule
  BY <1>7, <1>8, ShutdownUnseen DEF HostBarrier, deviceVars, Trap
<1>9. CASE UNCHANGED allVars
  BY <1>7, <1>9 DEF allVars, vars
<1>10. QED
  BY <1>4, <1>5, <1>6, <1>8, <1>9 DEF SNext, Protocol, Edge

\* A store to a rank that has finished is of a barrier it does not join.
NotJoined(r, b) == \A j \in DOMAIN schedule[r] : BarrierAt(schedule[r], j) # b

\* For if it joined it, it would have passed the peer before the peer published.
LEMMA LateStore ==
    ASSUME SimInv, BarrierSync, NEW q \in Rank, NEW r \in Rank, Publish(q, r), Finished(r)
    PROVE  /\ retired[q] + 1 \in DOMAIN schedule[q]
           /\ r \in Members[schedule[q][retired[q] + 1]]
           /\ NotJoined(r, BarrierAt(schedule[q], retired[q] + 1))
<1>1. TypeOK /\ StreamInv
  BY DEF SimInv, ShutdownInv
<1>i. PICK i \in Nat : i = retired[q] + 1
  BY <1>1 DEF TypeOK
<1>2. /\ i \in DOMAIN schedule[q] /\ r \in Members[schedule[q][i]]
      /\ pc[q][r] = "idle" /\ ~ (i <= retired[q])
  <2>1. retired[q] \in Nat
    BY <1>1 DEF TypeOK
  <2>2. QED
    BY <1>1, <1>i, <2>1, KernelFacts DEF Publish, Running
<1>3. ASSUME NEW j \in DOMAIN schedule[r], BarrierAt(schedule[r], j) = BarrierAt(schedule[q], i)
      PROVE  FALSE
  <2>1. j \in Shared(schedule[r], q)
    <3>1. schedule[r][j] = schedule[q][i]
      BY <1>3 DEF BarrierAt
    <3>2. q \in Members[schedule[q][i]]
      BY <1>1, <1>2, ScheduleFacts
    <3>3. QED
      BY <3>1, <3>2 DEF Shared
  <2>2. j <= retired[r]
    BY <1>1, ScheduleFacts DEF Finished
  <2>3. Passed(r, q, j)
    BY <2>1, <2>2 DEF Passed
  <2>4. PICK k \in DOMAIN schedule[q] :
           Published(q, r, k) /\ BarrierAt(schedule[q], k) = BarrierAt(schedule[r], j)
    BY <2>3 DEF BarrierSync
  <2>5. k = i
    <3>1. schedule[q] \in Seq(Group)
      BY <1>1, ScheduleFacts
    <3>2. QED
      BY <1>2, <1>3, <2>4, <3>1, BarrierAtInjective
  <2>6. QED
    BY <1>2, <2>4, <2>5 DEF Published
<1>4. QED
  BY <1>i, <1>2, <1>3 DEF NotJoined

\* A cell changes because a peer publishes to it, or its owner zeroes it.
LEMMA CellChanges ==
    ASSUME SimInv, [SNext]_allVars, NEW r \in Rank, NEW s \in Slot, NEW q \in Rank
    PROVE  \/ signal_buf'[r][s][q] = signal_buf[r][s][q]
           \/ Publish(q, r) /\ signal_buf'[r][s][q] = Kernel(q).token /\ phase' = phase
           \/ ZeroSignalGrid(r) /\ signal_buf'[r][s][q] = NoToken
<1>1. TypeOK
  BY DEF SimInv, ShutdownInv
<1>2. ASSUME NEW p \in Rank, NEW o \in Rank, Publish(p, o), phase' = phase
      PROVE  \/ signal_buf'[r][s][q] = signal_buf[r][s][q]
             \/ Publish(q, r) /\ signal_buf'[r][s][q] = Kernel(q).token /\ phase' = phase
  <2>1. CASE p = q /\ o = r /\ s = SlotOf(edge_seq[p][o])
    <3>1. signal_buf' = [signal_buf EXCEPT ![r][s][q] = Kernel(q).token]
      BY <1>2, <2>1 DEF Publish
    <3>2. signal_buf'[r][s][q] = Kernel(q).token
      BY <1>1, <3>1 DEF TypeOK
    <3>3. QED
      BY <1>2, <2>1, <3>2
  <2>2. CASE ~ (p = q /\ o = r /\ s = SlotOf(edge_seq[p][o]))
    BY <1>1, <1>2, <2>2, OtherCells
  <2>3. QED
    BY <2>1, <2>2
<1>3. ASSUME NEW p \in Rank, ZeroSignalGrid(p)
      PROVE  \/ signal_buf'[r][s][q] = signal_buf[r][s][q]
             \/ ZeroSignalGrid(r) /\ signal_buf'[r][s][q] = NoToken
  <2>1. signal_buf' = [signal_buf EXCEPT ![p] = [t \in Slot |-> [o \in Rank |-> NoToken]]]
    BY <1>3 DEF ZeroSignalGrid
  <2>2. CASE p = r
    BY <1>1, <1>3, <2>1, <2>2 DEF TypeOK
  <2>3. CASE p # r
    BY <1>1, <2>1, <2>3 DEF TypeOK
  <2>4. QED
    BY <2>2, <2>3
<1>4. ASSUME NEW p \in Rank, Drain(p) \/ DrainRaises(p) \/ ZeroEdgeSeq(p) \/ LeaveWorldBarrier(p)
      PROVE  signal_buf' = signal_buf
  BY <1>4 DEF Drain, DrainRaises, ZeroEdgeSeq, LeaveWorldBarrier, vars
<1>5. ASSUME NEW p \in Rank, NEW o \in Rank,
             HostBarrier(p) \/ Retire(p) \/ FirstLoad(p, o) \/ SpinLoad(p, o) \/ Trap(p, o)
      PROVE  signal_buf' = signal_buf
  BY <1>5 DEF HostBarrier, deviceVars, Retire, FirstLoad, SpinLoad, Trap
<1>6. CASE UNCHANGED allVars
  BY <1>6 DEF allVars, vars
<1>7. QED
  BY <1>2, <1>3, <1>4, <1>5, <1>6 DEF SNext, Protocol, Shutdown, Edge

\* Once a rank has drained, its grid is stored into only by peers whose barrier
\* the rank was to join and did not (runtime.py:1762, zero_signal_grids).
THEOREM QuietAfterDrainHolds == SSpec => QuietAfterDrain
<1> DEFINE Quiet == \A r \in Rank :
          phase[r] \notin {"open", "raised"} /\ JoinsItsBarriers(r) =>
              \A s \in Slot, q \in Rank :
                  signal_buf'[r][s][q] \in {signal_buf[r][s][q], NoToken}
<1>1. ASSUME SimInv, BarrierSync, [SNext]_allVars PROVE Quiet
  <2> SUFFICES ASSUME NEW r \in Rank, phase[r] \notin {"open", "raised"}, JoinsItsBarriers(r),
                      NEW s \in Slot, NEW q \in Rank
               PROVE  signal_buf'[r][s][q] \in {signal_buf[r][s][q], NoToken}
    OBVIOUS
  <2>1. Finished(r)
    BY <1>1 DEF SimInv, ShutdownInv, DrainedInv, Drained, Phase
  <2>2. ~ Publish(q, r)
    <3> SUFFICES ASSUME Publish(q, r) PROVE FALSE
      OBVIOUS
    <3>i. PICK i : i = retired[q] + 1
      OBVIOUS
    <3>1. i \in DOMAIN schedule[q] /\ r \in Members[schedule[q][i]] /\ NotJoined(r, BarrierAt(schedule[q], i))
      BY <1>1, <2>1, <3>i, LateStore
    <3>2. BarrierAt(schedule[q], i) \in Instances(schedule) /\ BarrierAt(schedule[q], i).group = schedule[q][i]
      BY <3>1 DEF Instances, BarrierAt
    <3>3. QED
      BY <3>1, <3>2 DEF JoinsItsBarriers, NotJoined
  <2>3. QED
    BY <1>1, <2>2, CellChanges
<1>2. SimInv /\ BarrierSync /\ [SNext]_allVars =>
        [\A r \in Rank :
          phase[r] \notin {"open", "raised"} /\ JoinsItsBarriers(r) =>
              \A s \in Slot, q \in Rank :
                  signal_buf'[r][s][q] \in {signal_buf[r][s][q], NoToken}]_allVars
  BY <1>1
<1>3. SSpec => []SimInv
  BY SimInit, SimNext, PTL DEF SSpec
<1>4. QED
  BY <1>2, <1>3, BarrierSyncSurvivesShutdown, PTL DEF SSpec, QuietAfterDrain

\* A rank that has zeroed its counters publishes no more; what its zeroed cells
\* hold has been published for barriers it does not join.
ZeroedInv ==
    \A r, q \in Rank :
        /\ phase[r] \in {"waiting", "closed"} => edge_seq[r][q] = 0
        /\ phase[r] \in {"zeroed", "waiting", "closed"} => \A s \in Slot :
              \/ signal_buf[r][s][q] = NoToken
              \/ \E i \in DOMAIN schedule[q] :
                    Published(q, r, i) /\ NotJoined(r, BarrierAt(schedule[q], i))

\* Every step keeps it.
LEMMA ZeroedNext ==
    SimInv /\ BarrierSync /\ ZeroedInv /\ [SNext]_allVars => ZeroedInv'
<1> SUFFICES ASSUME SimInv, BarrierSync, ZeroedInv, [SNext]_allVars,
                    NEW r \in Rank, NEW q \in Rank
             PROVE  /\ phase'[r] \in {"waiting", "closed"} => edge_seq'[r][q] = 0
                    /\ phase'[r] \in {"zeroed", "waiting", "closed"} => \A s \in Slot :
                          \/ signal_buf'[r][s][q] = NoToken
                          \/ \E i \in DOMAIN schedule'[q] :
                                /\ Published(q, r, i)'
                                /\ NotJoined(r, BarrierAt(schedule[q], i))'
  BY DEF ZeroedInv
<1>1. TypeOK /\ StreamInv /\ phase \in [Rank -> Phase] /\ ShutdownInv /\ DrainedInv
  BY DEF SimInv, ShutdownInv
<1>2. schedule' = schedule
  <2>1. CASE [Next]_vars
    BY <2>1 DEF Next, vars, deviceVars, HostBarrier, Retire, Edge, Publish, FirstLoad, SpinLoad, Trap, Quiescent
  <2>2. QED
    BY <2>1, ProtocolIsNext, ShutdownUnseen DEF SNext, allVars, vars
<1>3. \/ phase'[r] = phase[r] /\ ~ ZeroEdgeSeq(r) /\ ~ ZeroSignalGrid(r)
      \/ Drain(r) \/ DrainRaises(r) \/ ZeroSignalGrid(r) \/ ZeroEdgeSeq(r) \/ LeaveWorldBarrier(r)
  <2>1. \A p \in Rank \ {r} : Shutdown(p) => phase'[r] = phase[r]
    BY <1>1 DEF Shutdown, Drain, DrainRaises, ZeroSignalGrid, ZeroEdgeSeq, LeaveWorldBarrier
  <2>2. QED
    BY <2>1 DEF SNext, Protocol, Shutdown, allVars
<1>4. phase'[r] \in {"waiting", "closed"} => edge_seq'[r][q] = 0
  <2>1. CASE ZeroEdgeSeq(r)
    BY <1>1, <2>1 DEF ZeroEdgeSeq, TypeOK
  <2>2. CASE ~ ZeroEdgeSeq(r)
    <3>1. phase'[r] \in {"waiting", "closed"} => phase[r] \in {"waiting", "closed"}
      BY <1>1, <1>3, <2>2 DEF Drain, DrainRaises, ZeroSignalGrid, LeaveWorldBarrier, Phase
    <3>2. phase[r] \in {"waiting", "closed"} => ~ Running(r)
      BY <1>1, RunningIsOpen DEF Drained
    <3>3. ~ Running(r) => edge_seq'[r] = edge_seq[r]
      <4>1. \A p, o \in Rank : Publish(p, o) /\ p # r => edge_seq'[r] = edge_seq[r]
        BY <1>1 DEF Publish, TypeOK
      <4>2. \A p \in Rank : ZeroEdgeSeq(p) => edge_seq'[r] = edge_seq[r]
        BY <1>1, <2>2 DEF ZeroEdgeSeq, TypeOK
      <4>3. \A p \in Rank : Drain(p) \/ DrainRaises(p) \/ ZeroSignalGrid(p) \/ LeaveWorldBarrier(p)
                            => edge_seq' = edge_seq
        BY DEF Drain, DrainRaises, ZeroSignalGrid, LeaveWorldBarrier, vars
      <4>4. \A p, o \in Rank : HostBarrier(p) \/ Retire(p) \/ FirstLoad(p, o) \/ SpinLoad(p, o) \/ Trap(p, o)
                            => edge_seq' = edge_seq
        BY DEF HostBarrier, deviceVars, Retire, FirstLoad, SpinLoad, Trap
      <4>5. \A o : Publish(r, o) => Running(r)
        BY DEF Publish
      <4>6. QED
        BY <4>1, <4>2, <4>3, <4>4, <4>5 DEF SNext, Protocol, Shutdown, Edge, allVars, vars
    <3>4. QED
      BY <3>1, <3>2, <3>3 DEF ZeroedInv
  <2>3. QED
    BY <2>1, <2>2
<1>5. ASSUME NEW s \in Slot, phase'[r] \in {"zeroed", "waiting", "closed"}
      PROVE  \/ signal_buf'[r][s][q] = NoToken
             \/ \E i \in DOMAIN schedule'[q] :
                   Published(q, r, i)' /\ NotJoined(r, BarrierAt(schedule[q], i))'
  <2>1. CASE ZeroSignalGrid(r)
    BY <1>1, <2>1 DEF ZeroSignalGrid, TypeOK
  <2>2. CASE ~ ZeroSignalGrid(r)
    <3>1. phase[r] \in {"zeroed", "waiting", "closed"}
      BY <1>1, <1>3, <1>5, <2>2 DEF Drain, DrainRaises, ZeroEdgeSeq, LeaveWorldBarrier, Phase
    <3>2. Finished(r)
      BY <1>1, <3>1 DEF DrainedInv, Drained
    <3>3. CASE signal_buf'[r][s][q] = signal_buf[r][s][q]
      <4>1. \/ signal_buf[r][s][q] = NoToken
            \/ \E i \in DOMAIN schedule[q] :
                   Published(q, r, i) /\ NotJoined(r, BarrierAt(schedule[q], i))
        BY <3>1 DEF ZeroedInv
      <4>2. QED
        BY <1>2, <3>3, <4>1, PublishedStays DEF NotJoined
    <3>4. CASE Publish(q, r)
      <4>i. PICK i : i = retired[q] + 1
        OBVIOUS
      <4>1. i \in DOMAIN schedule[q] /\ r \in Members[schedule[q][i]] /\ NotJoined(r, BarrierAt(schedule[q], i))
        BY <3>2, <3>4, <4>i, LateStore
      <4>2. Published(q, r, i)'
        <5>1. i \in Shared(schedule[q], r)
          BY <4>1 DEF Shared
        <5>2. pc'[q][r] = "published" /\ retired' = retired
          BY <1>1, <3>4 DEF Publish, TypeOK
        <5>3. QED
          BY <1>2, <4>i, <5>1, <5>2 DEF Published
      <4>3. QED
        BY <1>2, <4>1, <4>2 DEF NotJoined
    <3>5. QED
      BY <2>2, <3>3, <3>4, CellChanges
  <2>3. QED
    BY <2>1, <2>2
<1>6. QED
  BY <1>4, <1>5

\* When shutdown has returned everywhere, every grid and counter is as it was
\* allocated (runtime.py:1762): nobody is left to publish a barrier that another
\* does not join, for it would still wait there.
THEOREM CleanAfterShutdownHolds == SSpec => []CleanAfterShutdown
<1>1. SInit => ZeroedInv
  BY DEF SInit, ZeroedInv
<1>2. SSpec => []SimInv
  BY SimInit, SimNext, PTL DEF SSpec
<1>3. SSpec => []ZeroedInv
  BY <1>1, <1>2, BarrierSyncSurvivesShutdown, ZeroedNext, PTL DEF SSpec
<1>4. SimInv /\ BarrierSync /\ ZeroedInv => CleanAfterShutdown
  <2> SUFFICES ASSUME SimInv, BarrierSync, ZeroedInv, AllClosed, NEW r \in Rank, NEW q \in Rank
               PROVE  edge_seq[r][q] = 0 /\ \A s \in Slot : signal_buf[r][s][q] = NoToken
    BY DEF CleanAfterShutdown
  <2>1. phase[r] = "closed" /\ Finished(q)
    BY DEF AllClosed, SimInv, ShutdownInv, DrainedInv, Drained
  <2>2. ASSUME NEW i \in DOMAIN schedule[q], Published(q, r, i), NotJoined(r, BarrierAt(schedule[q], i))
        PROVE  FALSE
    <3>1. Passed(q, r, i)
      <4>1. i \in Nat /\ i <= retired[q] /\ i \in Shared(schedule[q], r)
        BY <2>1, <2>2, ScheduleFacts DEF Finished, Published, SimInv, ShutdownInv
      <4>2. QED
        BY <4>1 DEF Passed
    <3>2. \E j \in DOMAIN schedule[r] : BarrierAt(schedule[r], j) = BarrierAt(schedule[q], i)
      BY <3>1 DEF BarrierSync
    <3>3. QED
      BY <2>2, <3>2 DEF NotJoined
  <2>3. QED
    BY <2>1, <2>2 DEF ZeroedInv
<1>5. QED
  BY <1>2, <1>3, <1>4, BarrierSyncSurvivesShutdown, PTL
=============================================================================
