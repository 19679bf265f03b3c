------------------------- MODULE EdgeBarrierProofs -------------------------
(***************************************************************************)
(* Proofs about EdgeBarrier, for every world, every set of groups, every   *)
(* set of schedules and both settings of the watchdog.                     *)
(*                                                                         *)
(* The inductive invariant IInv says, besides the types: the stream is a   *)
(* prefix of the schedule and its tokens are the schedule's instances      *)
(* (StreamInv); only the programs of the head kernel are running (PcInv);  *)
(* an edge's counter counts the calls published on it (SeqInv); a cell     *)
(* holds the latest token published with its parity (CellInv); and a call  *)
(* that got past a peer was published by that peer in the same round       *)
(* (AgreeInv).  AgreeInv is what makes the rest work: it bounds the skew   *)
(* of an edge by one barrier, and with the skew and the parity of a cell   *)
(* the token in it determines its round.                                   *)
(***************************************************************************)
EXTENDS EdgeBarrier, Arithmetic, SequenceTheorems

StreamInv ==
    \A r \in Rank :
        /\ retired[r] <= Len(stream[r])
        /\ Len(stream[r]) <= Len(schedule[r])
        /\ \A i \in 1 .. Len(stream[r]) :
              stream[r][i] = [group |-> schedule[r][i],
                              token |-> BarrierAt(schedule[r], i)]
        /\ \A g \in Group :
              epochs[r][g] = CountUpTo(Calls(schedule[r], g), Len(stream[r]))

PcInv ==
    \A r, q \in Rank :
        pc[r][q] # "idle" =>
            /\ retired[r] < Len(stream[r])
            /\ q \in Members[schedule[r][retired[r] + 1]]

\* How many calls r has published to q: those before this position.
Reached(r, q) == retired[r] + (IF pc[r][q] = "idle" THEN 0 ELSE 1)

SeqInv ==
    \A r, q \in Rank :
        edge_seq[r][q] = CountUpTo(Shared(schedule[r], q), Reached(r, q))

\* The i-th call of r is the last one published to q with the parity of s.
Holds(r, q, s, i) ==
    /\ Published(r, q, i)
    /\ signal_buf[q][s][r] = BarrierAt(schedule[r], i)
    /\ SlotOf(Round(schedule[r], q, i) - 1) = s
    /\ edge_seq[r][q] <= Round(schedule[r], q, i) + 1

CellInv ==
    \A r, q \in Rank, s \in Slot :
        \/ signal_buf[q][s][r] = NoToken /\ edge_seq[r][q] <= s
        \/ \E i \in DOMAIN schedule[r] : Holds(r, q, s, i)

\* The j-th call of q is r's i-th: the same instance, in the same round.
Matches(r, q, i, j) ==
    /\ BarrierAt(schedule[q], j) = BarrierAt(schedule[r], i)
    /\ Round(schedule[q], r, j) = Round(schedule[r], q, i)

AgreeInv ==
    \A r, q \in Rank : \A i \in DOMAIN schedule[r] :
        Passed(r, q, i) =>
            \E j \in DOMAIN schedule[q] : Published(q, r, j) /\ Matches(r, q, i, j)

IInv == TypeOK /\ StreamInv /\ PcInv /\ SeqInv /\ CellInv /\ AgreeInv

-----------------------------------------------------------------------------
(* Schedules.                                                              *)

\* A schedule takes part in an instance once: epochs are not handed out twice.
LEMMA BarrierAtInjective ==
    ASSUME NEW s \in Seq(Group), NEW i \in DOMAIN s, NEW j \in DOMAIN s,
           BarrierAt(s, i) = BarrierAt(s, j)
    PROVE  i = j
<1>0. i \in Nat \ {0} /\ j \in Nat \ {0} OBVIOUS
<1>1. s[i] = s[j] BY DEF BarrierAt
<1> DEFINE C == Calls(s, s[i])
<1>2. i \in C /\ j \in C BY <1>1 DEF Calls
<1> HIDE DEF C
<1>3. CountUpTo(C, i - 1) = CountUpTo(C, j - 1) BY <1>1 DEF BarrierAt, C
<1>4. i - 1 \in Nat /\ (i - 1) + 1 = i /\ j - 1 \in Nat /\ (j - 1) + 1 = j BY <1>0
<1>5. CountUpTo(C, (i - 1) + 1) = CountUpTo(C, (j - 1) + 1)
  <2>1. CountUpTo(C, (i - 1) + 1) = CountUpTo(C, i - 1) + 1 BY <1>2, <1>4, CountStep
  <2>2. CountUpTo(C, (j - 1) + 1) = CountUpTo(C, j - 1) + 1 BY <1>2, <1>4, CountStep
  <2> QED BY <2>1, <2>2, <1>3
<1> QED BY <1>0, <1>2, <1>4, <1>5, CountInjective

\* A round is a positive number and belongs to one call.
LEMMA RoundType ==
    ASSUME NEW s \in Seq(Group), NEW q, NEW i \in Shared(s, q)
    PROVE  /\ i \in Nat \ {0}
           /\ i \in DOMAIN s
           /\ Round(s, q, i) \in Nat \ {0}
<1>1. i \in DOMAIN s /\ i \in Nat \ {0} BY DEF Shared
<1>2. CountUpTo(Shared(s, q), 0) < CountUpTo(Shared(s, q), i) BY <1>1, CountMonotonic
<1>3. /\ CountUpTo(Shared(s, q), 0) = 0
      /\ CountUpTo(Shared(s, q), i) \in Nat
  BY <1>1, CountType, CountZero
<1> QED BY <1>1, <1>2, <1>3 DEF Round

\* Different calls on an edge have different rounds.
LEMMA RoundInjective ==
    ASSUME NEW s \in Seq(Group), NEW q,
           NEW i \in Shared(s, q), NEW j \in Shared(s, q),
           Round(s, q, i) = Round(s, q, j)
    PROVE  i = j
BY RoundType, CountInjective DEF Round

-----------------------------------------------------------------------------
(* Types.                                                                  *)

LEMMA ScheduleFacts ==
    ASSUME TypeOK, NEW r \in Rank
    PROVE  /\ schedule[r] \in Seq(Group)
           /\ \A i \in DOMAIN schedule[r] :
                 /\ schedule[r][i] \in Group
                 /\ r \in Members[schedule[r][i]]
<1>1. schedule \in [Rank -> Seq(Group)] /\ WellFormed(schedule)
  BY SchedulesAssumption DEF TypeOK
<1> QED BY <1>1 DEF WellFormed

\* The head of a running stream is a kernel.
LEMMA KernelType ==
    ASSUME TypeOK, NEW r \in Rank, retired[r] < Len(stream[r])
    PROVE  /\ Kernel(r) \in Launch
           /\ Kernel(r).group \in Group
           /\ Kernel(r).token \in Token
<1>1. /\ stream[r] \in Seq(Launch)
      /\ retired[r] \in Nat
  BY DEF TypeOK
<1>2. retired[r] + 1 \in 1 .. Len(stream[r]) BY <1>1
<1>3. Kernel(r) \in Launch BY <1>1, <1>2, ElementOfSeq DEF Kernel
<1> QED BY <1>3 DEF Launch

\* The initial values have their types.
LEMMA InitType == Init => TypeOK
BY SchedulesAssumption DEF Init, TypeOK, Pc, Slot

\* Every step keeps every variable's type.
LEMMA NextType == TypeOK /\ [Next]_vars => TypeOK'
<1> SUFFICES ASSUME TypeOK, [Next]_vars PROVE TypeOK'
  OBVIOUS
<1>1. ASSUME NEW r \in Rank, HostBarrier(r) PROVE TypeOK'
  <2> DEFINE g == schedule[r][Len(stream[r]) + 1]
             k == [group |-> g, token |-> ComputeToken(g, epochs[r][g])]
  <2>1. Len(stream[r]) + 1 \in DOMAIN schedule[r]
    BY <1>1, ScheduleFacts DEF HostBarrier, TypeOK
  <2>2. g \in Group BY <2>1, ScheduleFacts
  <2>3. epochs[r][g] \in Nat BY <2>2 DEF TypeOK
  <2>4. k \in Launch BY <2>2, <2>3 DEF ComputeToken, Token, Launch
  <2>5. Append(stream[r], k) \in Seq(Launch)
    BY <2>4, AppendProperties DEF TypeOK
  <2>6. stream' \in [Rank -> Seq(Launch)]
    BY <1>1, <2>5 DEF HostBarrier, TypeOK
  <2>7. epochs' \in [Rank -> [Group -> Nat]]
    BY <1>1, <2>2, <2>3 DEF HostBarrier, TypeOK
  <2> QED BY <1>1, <2>6, <2>7 DEF HostBarrier, deviceVars, TypeOK
<1>2. ASSUME NEW r \in Rank, Retire(r) PROVE TypeOK'
  BY <1>2 DEF Retire, TypeOK, Pc
<1>3. ASSUME NEW r \in Rank, NEW q \in Rank, Publish(r, q) PROVE TypeOK'
  <2>1. Kernel(r).token \in Token BY <1>3, KernelType DEF Publish, Running
  <2>2. SlotOf(edge_seq[r][q]) \in Slot BY DEF TypeOK, Slot, SlotOf
  <2>3. edge_seq' \in [Rank -> [Rank -> Nat]] BY <1>3 DEF Publish, TypeOK
  <2>4. signal_buf' \in [Rank -> [Slot -> [Rank -> Token \cup {NoToken}]]]
    BY <1>3, <2>1, <2>2 DEF Publish, TypeOK
  <2>5. pc' \in [Rank -> [Rank -> Pc]] BY <1>3 DEF Publish, TypeOK, Pc
  <2> QED BY <1>3, <2>3, <2>4, <2>5 DEF Publish, TypeOK
<1>4. ASSUME NEW r \in Rank, NEW q \in Rank, FirstLoad(r, q) PROVE TypeOK'
  BY <1>4 DEF FirstLoad, TypeOK, Pc
<1>5. ASSUME NEW r \in Rank, NEW q \in Rank, SpinLoad(r, q) PROVE TypeOK'
  BY <1>5 DEF SpinLoad, TypeOK, Pc
<1>6. ASSUME NEW r \in Rank, NEW q \in Rank, Trap(r, q) PROVE TypeOK'
  BY <1>6 DEF Trap, TypeOK
<1>7. CASE UNCHANGED vars BY <1>7 DEF vars, TypeOK
<1> QED BY <1>1, <1>2, <1>3, <1>4, <1>5, <1>6, <1>7 DEF Next, Edge, Quiescent

\* The state of every reachable configuration has its declared type: epochs
\* and edge counters are naturals and a cell holds a token or the zero fill.
THEOREM TypeCorrect == Spec => []TypeOK
BY InitType, NextType, PTL DEF Spec
-----------------------------------------------------------------------------
(* The stream, the running programs and the edge counters.                 *)

CountInv == TypeOK /\ StreamInv /\ PcInv /\ SeqInv

\* Nothing is in the streams yet, and nothing has been counted.
LEMMA InitCount == Init => CountInv
<1> SUFFICES ASSUME Init PROVE CountInv
  OBVIOUS
<1>1. TypeOK BY InitType
<1>2. StreamInv
  <2> SUFFICES ASSUME NEW r \in Rank
               PROVE  /\ retired[r] <= Len(stream[r])
                      /\ Len(stream[r]) <= Len(schedule[r])
                      /\ Len(stream[r]) = 0
                      /\ \A g \in Group : epochs[r][g] = 0
    BY CountZero DEF StreamInv
  <2>1. Len(stream[r]) = 0 BY DEF Init
  <2>2. Len(schedule[r]) \in Nat BY <1>1, ScheduleFacts
  <2> QED BY <2>1, <2>2 DEF Init
<1>3. PcInv BY DEF Init, PcInv
<1>4. SeqInv
  <2> SUFFICES ASSUME NEW r \in Rank, NEW q \in Rank
               PROVE  edge_seq[r][q] = 0 /\ Reached(r, q) = 0
    BY CountZero DEF SeqInv
  <2> QED BY DEF Init, Reached
<1> QED BY <1>1, <1>2, <1>3, <1>4 DEF CountInv

\* What the host launches is the next call of its schedule.
LEMMA NextStream == TypeOK /\ StreamInv /\ [Next]_vars => StreamInv'
<1> SUFFICES ASSUME TypeOK, StreamInv, [Next]_vars PROVE StreamInv'
  OBVIOUS
<1>1. ASSUME NEW r \in Rank, HostBarrier(r) PROVE StreamInv'
  <2> DEFINE n == Len(stream[r])
             g == schedule[r][n + 1]
             k == [group |-> g, token |-> ComputeToken(g, epochs[r][g])]
  <2>1. stream[r] \in Seq(Launch) /\ n \in Nat BY DEF TypeOK
  <2>2. n + 1 \in DOMAIN schedule[r] /\ n + 1 <= Len(schedule[r])
    BY <1>1, <2>1, ScheduleFacts DEF HostBarrier
  <2>3. g \in Group BY <2>2, ScheduleFacts
  <2>4. k = [group |-> g, token |-> BarrierAt(schedule[r], n + 1)]
    <3>1. (n + 1) - 1 = n BY <2>1
    <3>2. epochs[r][g] = CountUpTo(Calls(schedule[r], g), n) BY <2>3 DEF StreamInv
    <3> QED BY <3>1, <3>2 DEF ComputeToken, BarrierAt
  <2>5. k \in Launch
    <3>1. epochs[r][g] \in Nat BY <2>3 DEF TypeOK
    <3> QED BY <2>3, <3>1 DEF ComputeToken, Token, Launch
  <2>6. stream'[r] = Append(stream[r], k) BY <1>1 DEF HostBarrier, TypeOK
  <2>7. /\ Len(stream'[r]) = n + 1
        /\ \A i \in 1 .. n : stream'[r][i] = stream[r][i]
        /\ stream'[r][n + 1] = k
    BY <2>1, <2>5, <2>6, AppendProperties
  <2>8. ASSUME NEW h \in Group
        PROVE  epochs'[r][h] = CountUpTo(Calls(schedule[r], h), n + 1)
    <3>1. epochs[r][h] = CountUpTo(Calls(schedule[r], h), n) BY DEF StreamInv
    <3>2. epochs'[r][h] = epochs[r][h] + (IF h = g THEN 1 ELSE 0)
      BY <1>1, <2>3 DEF HostBarrier, TypeOK
    <3>3. n + 1 \in Calls(schedule[r], h) <=> h = g BY <2>2 DEF Calls
    <3> QED BY <3>1, <3>2, <3>3, <2>1, CountStep
  <2>9. /\ schedule' = schedule
        /\ retired' = retired
        /\ \A p \in Rank \ {r} : stream'[p] = stream[p] /\ epochs'[p] = epochs[p]
    BY <1>1 DEF HostBarrier, deviceVars, TypeOK
  <2>10. ASSUME NEW i \in 1 .. n + 1
         PROVE  stream'[r][i] = [group |-> schedule[r][i],
                                 token |-> BarrierAt(schedule[r], i)]
    BY <2>1, <2>4, <2>7 DEF StreamInv
  <2>11. retired[r] <= n + 1 BY <2>1 DEF StreamInv, TypeOK
  <2>12. ASSUME NEW p \in Rank
         PROVE  /\ retired'[p] <= Len(stream'[p])
                /\ Len(stream'[p]) <= Len(schedule'[p])
                /\ \A i \in 1 .. Len(stream'[p]) :
                      stream'[p][i] = [group |-> schedule'[p][i],
                                       token |-> BarrierAt(schedule'[p], i)]
                /\ \A h \in Group :
                      epochs'[p][h] = CountUpTo(Calls(schedule'[p], h), Len(stream'[p]))
    <3>1. CASE p = r BY <3>1, <2>2, <2>7, <2>8, <2>9, <2>10, <2>11
    <3>2. CASE p # r BY <3>2, <2>9 DEF StreamInv
    <3> QED BY <3>1, <3>2
  <2> QED BY <2>12 DEF StreamInv
<1>2. ASSUME NEW r \in Rank, Retire(r) PROVE StreamInv'
  <2>1. retired'[r] <= Len(stream[r]) /\ \A p \in Rank \ {r} : retired'[p] = retired[p]
    BY <1>2 DEF Retire, Running, TypeOK
  <2> QED BY <1>2, <2>1 DEF Retire, StreamInv
<1>3. ASSUME UNCHANGED <<schedule, epochs, stream, retired>> PROVE StreamInv'
  BY <1>3 DEF StreamInv
<1> QED BY <1>1, <1>2, <1>3
     DEF Next, Edge, Quiescent, vars, Publish, FirstLoad, SpinLoad, Trap

\* The head kernel is the schedule's next call.
LEMMA KernelFacts ==
    ASSUME TypeOK, StreamInv, NEW r \in Rank, retired[r] < Len(stream[r])
    PROVE  /\ retired[r] + 1 \in DOMAIN schedule[r]
           /\ Kernel(r).group = schedule[r][retired[r] + 1]
           /\ Kernel(r).token = BarrierAt(schedule[r], retired[r] + 1)
<1>1. /\ retired[r] \in Nat
      /\ Len(stream[r]) \in Nat
      /\ Len(stream[r]) <= Len(schedule[r])
  BY DEF TypeOK, StreamInv
<1>2. retired[r] + 1 \in 1 .. Len(stream[r]) BY <1>1
<1>3. retired[r] + 1 \in DOMAIN schedule[r] BY <1>1, <1>2, ScheduleFacts
<1>4. stream[r][retired[r] + 1] =
         [group |-> schedule[r][retired[r] + 1],
          token |-> BarrierAt(schedule[r], retired[r] + 1)]
  BY <1>2 DEF StreamInv
<1> QED BY <1>3, <1>4 DEF Kernel

\* What a load that is not a failing one in the loop changes: at most, its
\* program is done, and then it has seen its token.
Load(r, q) == FirstLoad(r, q) \/ SpinLoad(r, q)

\* What a load leaves alone, and what it has seen when it succeeds.
LEMMA LoadFacts ==
    ASSUME TypeOK, NEW r \in Rank, NEW q \in Rank, Load(r, q)
    PROVE  /\ UNCHANGED <<schedule, epochs, stream, retired, edge_seq, signal_buf, trapped>>
           /\ retired[r] < Len(stream[r])
           /\ pc[r][q] \in {"published", "spin"}
           /\ \A p, o \in Rank : pc'[p][o] = "idle" <=> pc[p][o] = "idle"
           /\ \A p, o \in Rank : pc'[p][o] = "done" =>
                 \/ pc[p][o] = "done"
                 \/ p = r /\ o = q /\ Observed(r, q) = Kernel(r).token
<1>1. CASE FirstLoad(r, q)
  BY <1>1 DEF FirstLoad, Running, TypeOK
<1>2. CASE SpinLoad(r, q)
  BY <1>2 DEF SpinLoad, Running, TypeOK
<1> QED BY <1>1, <1>2 DEF Load

\* Only programs of the head kernel run.
LEMMA NextPc == TypeOK /\ StreamInv /\ PcInv /\ [Next]_vars => PcInv'
<1> SUFFICES ASSUME TypeOK, StreamInv, PcInv, [Next]_vars PROVE PcInv'
  OBVIOUS
<1>1. ASSUME NEW r \in Rank, HostBarrier(r) PROVE PcInv'
  <2>1. Len(stream'[r]) = Len(stream[r]) + 1 /\ Len(stream[r]) \in Nat
    BY <1>1 DEF HostBarrier, TypeOK
  <2>2. \A p \in Rank \ {r} : stream'[p] = stream[p]
    BY <1>1 DEF HostBarrier, TypeOK
  <2> QED BY <1>1, <2>1, <2>2 DEF HostBarrier, deviceVars, PcInv, TypeOK
<1>2. ASSUME NEW r \in Rank, Retire(r) PROVE PcInv'
  BY <1>2 DEF Retire, PcInv, TypeOK
<1>3. ASSUME NEW r \in Rank, NEW q \in Rank, Publish(r, q) PROVE PcInv'
  <2>1. /\ retired[r] < Len(stream[r])
        /\ q \in Members[schedule[r][retired[r] + 1]]
    BY <1>3, KernelFacts DEF Publish, Running
  <2> QED BY <1>3, <2>1 DEF Publish, PcInv, TypeOK
<1>4. ASSUME NEW r \in Rank, NEW q \in Rank, Load(r, q) PROVE PcInv'
  BY <1>4, LoadFacts DEF PcInv
<1>5. ASSUME NEW r \in Rank, NEW q \in Rank, Trap(r, q) PROVE PcInv'
  BY <1>5 DEF Trap, PcInv
<1>6. CASE UNCHANGED vars BY <1>6 DEF vars, PcInv
<1> QED BY <1>1, <1>2, <1>3, <1>4, <1>5, <1>6
     DEF Next, Edge, Load, Quiescent

\* When a kernel retires, its programs are exactly those past their peer.
LEMMA RetireFacts ==
    ASSUME TypeOK, StreamInv, PcInv, NEW r \in Rank, Retire(r), NEW q \in Rank
    PROVE  IF retired[r] + 1 \in Shared(schedule[r], q)
           THEN pc[r][q] = "done"
           ELSE pc[r][q] = "idle"
<1>1. /\ retired[r] + 1 \in DOMAIN schedule[r]
      /\ Kernel(r).group = schedule[r][retired[r] + 1]
  BY KernelFacts DEF Retire, Running
<1>2. retired[r] + 1 \in Shared(schedule[r], q)
         <=> q \in Members[schedule[r][retired[r] + 1]]
  BY <1>1 DEF Shared
<1> QED BY <1>1, <1>2 DEF Retire, PcInv

\* Each edge counter counts the calls published on that edge.
LEMMA NextSeq == CountInv /\ [Next]_vars => SeqInv'
<1> SUFFICES ASSUME CountInv, [Next]_vars PROVE SeqInv'
  OBVIOUS
<1> USE DEF CountInv
<1>1. ASSUME NEW r \in Rank, Retire(r) PROVE SeqInv'
  <2> SUFFICES ASSUME NEW p \in Rank, NEW q \in Rank
               PROVE  edge_seq'[p][q] =
                         CountUpTo(Shared(schedule'[p], q), Reached(p, q)')
    BY DEF SeqInv
  <2>1. schedule' = schedule /\ edge_seq' = edge_seq BY <1>1 DEF Retire
  <2>2. CASE p # r
    <3>1. Reached(p, q)' = Reached(p, q)
      BY <1>1, <2>2 DEF Retire, Reached, TypeOK
    <3> QED BY <2>1, <3>1 DEF SeqInv
  <2>3. CASE p = r
    <3>1. Reached(r, q)' = retired[r] + 1 /\ retired[r] \in Nat
      BY <1>1 DEF Retire, Reached, TypeOK
    <3>2. CASE retired[r] + 1 \in Shared(schedule[r], q)
      <4>1. Reached(r, q) = retired[r] + 1
        BY <1>1, <3>2, RetireFacts DEF Reached
      <4> QED BY <2>1, <2>3, <3>1, <4>1 DEF SeqInv
    <3>3. CASE retired[r] + 1 \notin Shared(schedule[r], q)
      <4>1. Reached(r, q) = retired[r]
        BY <1>1, <3>1, <3>3, RetireFacts DEF Reached
      <4>2. CountUpTo(Shared(schedule[r], q), retired[r] + 1)
               = CountUpTo(Shared(schedule[r], q), retired[r])
        <5>1. retired[r] \in Nat BY <3>1
        <5>2. CountUpTo(Shared(schedule[r], q), retired[r]) \in Nat
          BY <5>1, CountType
        <5> QED BY <5>1, <5>2, <3>3, CountStep
      <4> QED BY <2>1, <2>3, <3>1, <4>1, <4>2 DEF SeqInv
    <3> QED BY <3>2, <3>3
  <2> QED BY <2>2, <2>3
<1>2. ASSUME NEW r \in Rank, NEW q \in Rank, Publish(r, q) PROVE SeqInv'
  <2>1. /\ retired[r] \in Nat
        /\ retired[r] + 1 \in Shared(schedule[r], q)
    BY <1>2, KernelFacts DEF Publish, Running, Shared, TypeOK
  <2>2. Reached(r, q) = retired[r] /\ Reached(r, q)' = retired[r] + 1
    BY <1>2, <2>1 DEF Publish, Reached, TypeOK
  <2>3. edge_seq[r][q] = CountUpTo(Shared(schedule[r], q), retired[r])
    BY <2>2 DEF SeqInv
  <2>4. CountUpTo(Shared(schedule[r], q), retired[r] + 1) = edge_seq[r][q] + 1
    BY <2>1, <2>3, CountStep
  <2>5. /\ schedule' = schedule
        /\ edge_seq'[r][q] = edge_seq[r][q] + 1
    BY <1>2 DEF Publish, TypeOK
  <2> SUFFICES ASSUME NEW p \in Rank, NEW o \in Rank, ~ (p = r /\ o = q)
               PROVE  edge_seq'[p][o] =
                         CountUpTo(Shared(schedule'[p], o), Reached(p, o)')
    BY <2>2, <2>4, <2>5 DEF SeqInv
  <2>6. edge_seq'[p][o] = edge_seq[p][o] /\ Reached(p, o)' = Reached(p, o)
    BY <1>2 DEF Publish, Reached, TypeOK
  <2> QED BY <2>5, <2>6 DEF SeqInv
<1>3. ASSUME NEW r \in Rank, NEW q \in Rank, Load(r, q) PROVE SeqInv'
  BY <1>3, LoadFacts DEF SeqInv, Reached
<1>4. ASSUME UNCHANGED <<schedule, retired, pc, edge_seq>> PROVE SeqInv'
  BY <1>4 DEF SeqInv, Reached
<1> QED BY <1>1, <1>2, <1>3, <1>4
     DEF Next, Edge, Load, Quiescent, vars, deviceVars, HostBarrier, Trap

\* The stream, the programs and the counters stay in step.
LEMMA NextCount == CountInv /\ [Next]_vars => CountInv'
BY NextType, NextStream, NextPc, NextSeq DEF CountInv

-----------------------------------------------------------------------------
(* Rounds of an edge, as long as the counters are right.                   *)

\* The calls published on an edge are those before the program's position.
LEMMA PublishedShared ==
    ASSUME CountInv, NEW r \in Rank, NEW q \in Rank, NEW i
    PROVE  /\ Reached(r, q) \in Nat
           /\ Published(r, q, i) <=>
                 i \in Shared(schedule[r], q) /\ i <= Reached(r, q)
           /\ Published(r, q, i) => i \in DOMAIN schedule[r] /\ i \in Nat \ {0}
           /\ Passed(r, q, i) => Published(r, q, i)
<1>1. retired[r] \in Nat /\ Reached(r, q) \in Nat
  BY DEF CountInv, TypeOK, Reached
<1>2. ASSUME i \in Shared(schedule[r], q)
      PROVE  i \in DOMAIN schedule[r] /\ i \in Nat \ {0}
  BY <1>2, ScheduleFacts, RoundType DEF CountInv
<1> QED BY <1>1, <1>2 DEF Published, Passed, Reached

\* A published call's round is within the edge's counter.
LEMMA PublishedRound ==
    ASSUME CountInv, NEW r \in Rank, NEW q \in Rank, NEW i, Published(r, q, i)
    PROVE  Round(schedule[r], q, i) \in 1 .. edge_seq[r][q]
<1>1. /\ i \in Shared(schedule[r], q)
      /\ i \in Nat
      /\ i <= Reached(r, q)
      /\ Reached(r, q) \in Nat
  BY PublishedShared
<1>2. Round(schedule[r], q, i) \in Nat \ {0}
  BY <1>1, ScheduleFacts, RoundType DEF CountInv
<1>3. Round(schedule[r], q, i) <= edge_seq[r][q]
  BY <1>1, CountMonotonic DEF Round, CountInv, SeqInv
<1>4. edge_seq[r][q] \in Nat BY DEF CountInv, TypeOK
<1> QED BY <1>2, <1>3, <1>4

\* The call whose program is running is in the round of the edge's counter.
LEMMA RunningRound ==
    ASSUME CountInv, NEW r \in Rank, NEW q \in Rank, pc[r][q] # "idle"
    PROVE  /\ Published(r, q, retired[r] + 1)
           /\ retired[r] + 1 \in DOMAIN schedule[r]
           /\ Round(schedule[r], q, retired[r] + 1) = edge_seq[r][q]
           /\ Kernel(r).token = BarrierAt(schedule[r], retired[r] + 1)
<1>1. /\ retired[r] < Len(stream[r])
      /\ q \in Members[schedule[r][retired[r] + 1]]
  BY DEF CountInv, PcInv
<1>2. /\ retired[r] + 1 \in DOMAIN schedule[r]
      /\ Kernel(r).token = BarrierAt(schedule[r], retired[r] + 1)
  BY <1>1, KernelFacts DEF CountInv
<1>3. Published(r, q, retired[r] + 1)
  BY <1>1, <1>2 DEF Published, Shared, CountInv, TypeOK
<1>4. Round(schedule[r], q, retired[r] + 1) = edge_seq[r][q]
  BY DEF Round, CountInv, SeqInv, Reached
<1> QED BY <1>2, <1>3, <1>4

\* Rank r has got past a call of every round before the edge's counter, and
\* of that round too unless it is still waiting in it.
LEMMA PassedRounds ==
    ASSUME CountInv, NEW r \in Rank, NEW q \in Rank,
           NEW k \in 1 .. edge_seq[r][q],
           k < edge_seq[r][q] \/ pc[r][q] \in {"idle", "done"}
    PROVE  \E i \in DOMAIN schedule[r] :
              Passed(r, q, i) /\ Round(schedule[r], q, i) = k
<1>1. Reached(r, q) \in Nat BY PublishedShared
<1>2. k \in 1 .. CountUpTo(Shared(schedule[r], q), Reached(r, q))
  BY DEF CountInv, SeqInv
<1>3. PICK i \in Shared(schedule[r], q) \cap (1 .. Reached(r, q)) :
         Round(schedule[r], q, i) = k
  BY <1>1, <1>2, CountAttained DEF Round
<1>4. Published(r, q, i) BY <1>1, <1>3, PublishedShared
<1>5. CASE i <= retired[r] BY <1>3, <1>4, <1>5, PublishedShared DEF Passed
<1>6. CASE i = retired[r] + 1 /\ pc[r][q] # "idle"
  <2>1. k = edge_seq[r][q] BY <1>3, <1>6, RunningRound
  <2>2. pc[r][q] = "done" BY <2>1, <1>6 DEF CountInv, TypeOK
  <2> QED BY <1>3, <1>4, <1>6, <2>2, PublishedShared DEF Passed
<1> QED BY <1>4, <1>5, <1>6 DEF Published

-----------------------------------------------------------------------------
(* What agreement gives: the skew and the round of a token.                *)

\* Neither end of an edge is more than one barrier ahead of the other.
LEMMA Skew ==
    ASSUME CountInv, AgreeInv, NEW r \in Rank, NEW q \in Rank
    PROVE  edge_seq[r][q] <= edge_seq[q][r] + 1
<1> DEFINE n == edge_seq[r][q]
<1>1. n \in Nat /\ edge_seq[q][r] \in Nat BY DEF CountInv, TypeOK
<1>2. CASE n <= 1 BY <1>1, <1>2
<1>3. CASE n > 1
  <2>1. n - 1 \in 1 .. n /\ n - 1 < n BY <1>1, <1>3
  <2>2. PICK i \in DOMAIN schedule[r] :
           Passed(r, q, i) /\ Round(schedule[r], q, i) = n - 1
    BY <2>1, PassedRounds
  <2>3. PICK j \in DOMAIN schedule[q] : Published(q, r, j) /\ Matches(r, q, i, j)
    BY <2>2 DEF AgreeInv
  <2>4. n - 1 \in 1 .. edge_seq[q][r]
    BY <2>2, <2>3, PublishedRound DEF Matches
  <2> QED BY <1>1, <2>4
<1> QED BY <1>1, <1>2, <1>3

\* Published calls of an edge are told apart by their round and by their
\* instance.
LEMMA SameCall ==
    ASSUME CountInv, NEW r \in Rank, NEW q \in Rank, NEW i, NEW j,
           Published(r, q, i), Published(r, q, j),
           \/ Round(schedule[r], q, i) = Round(schedule[r], q, j)
           \/ BarrierAt(schedule[r], i) = BarrierAt(schedule[r], j)
    PROVE  i = j
<1>1. /\ schedule[r] \in Seq(Group)
      /\ i \in Shared(schedule[r], q) /\ j \in Shared(schedule[r], q)
      /\ i \in DOMAIN schedule[r] /\ j \in DOMAIN schedule[r]
  BY PublishedShared, ScheduleFacts DEF CountInv
<1> QED BY <1>1, RoundInjective, BarrierAtInjective

\* A cell's two parities: the rounds a slot can hold are two apart.
LEMMA SlotParity ==
    /\ \A n \in Nat : SlotOf(n) \in Slot /\ SlotOf(n) <= n
    /\ \A n \in Nat : SlotOf(n + 1) # SlotOf(n) /\ SlotOf(n + 2) = SlotOf(n)
BY DEF SlotOf, Slot

\* The token that r sees on the edge to q is the one q published in r's round.
LEMMA SeenToken ==
    ASSUME CountInv, CellInv, AgreeInv, NEW r \in Rank, NEW q \in Rank,
           pc[r][q] \in {"published", "spin"},
           Observed(r, q) = Kernel(r).token
    PROVE  \E j \in DOMAIN schedule[q] :
              Published(q, r, j) /\ Matches(r, q, retired[r] + 1, j)
<1> DEFINE i == retired[r] + 1
           n == edge_seq[r][q]
           m == edge_seq[q][r]
           s == SlotOf(n - 1)
<1>1. /\ Published(r, q, i)
      /\ i \in DOMAIN schedule[r]
      /\ Round(schedule[r], q, i) = n
      /\ Kernel(r).token = BarrierAt(schedule[r], i)
  BY RunningRound
<1>2. n \in Nat \ {0} /\ m \in Nat /\ n \in 1 .. n
  <2>1. n \in Nat /\ m \in Nat BY DEF CountInv, TypeOK
  <2> QED BY <1>1, <2>1, PublishedRound
<1>3. s \in Slot BY <1>2, SlotParity
<1>4. signal_buf[r][s][q] = BarrierAt(schedule[r], i) BY <1>1 DEF Observed
<1>5. signal_buf[r][s][q] # NoToken
  <2>1. Kernel(r).token \in Token
    BY KernelType DEF CountInv, PcInv
  <2> QED BY <1>1, <1>4, <2>1 DEF Token, NoToken
<1>6. PICK j \in DOMAIN schedule[q] : Holds(q, r, s, j)
  BY <1>3, <1>5 DEF CellInv
<1> DEFINE k == Round(schedule[q], r, j)
<1>7. /\ Published(q, r, j)
      /\ BarrierAt(schedule[q], j) = BarrierAt(schedule[r], i)
      /\ SlotOf(k - 1) = SlotOf(n - 1)
      /\ m <= k + 1
  BY <1>4, <1>6 DEF Holds
<1>8. k \in 1 .. m BY <1>7, PublishedRound
<1>9. n <= m + 1 /\ m <= n + 1 BY Skew
<1> HIDE DEF n, m, k, s, i
<1>10. k \in {n - 2, n}
  <2>1. k \in {n - 2, n - 1, n, n + 1} BY <1>2, <1>7, <1>8, <1>9
  <2>2. k # n - 1
    <3> SUFFICES ASSUME k = n - 1 PROVE FALSE OBVIOUS
    <3>1. k - 1 \in Nat /\ n - 1 = (k - 1) + 1 BY <1>8, <1>2
    <3> QED BY <3>1, <1>7, SlotParity
  <2>3. k # n + 1
    <3> SUFFICES ASSUME k = n + 1 PROVE FALSE OBVIOUS
    <3>1. n - 1 \in Nat /\ k - 1 = (n - 1) + 1 BY <1>2
    <3> QED BY <3>1, <1>7, SlotParity
  <2> QED BY <2>1, <2>2, <2>3
<1>11. k # n - 2
  <2> SUFFICES ASSUME k = n - 2 PROVE FALSE OBVIOUS
  <2>1. k \in 1 .. n /\ k < n BY <1>2, <1>8
  <2>2. PICK ii \in DOMAIN schedule[r] :
           Passed(r, q, ii) /\ Round(schedule[r], q, ii) = k
    BY <2>1, PassedRounds DEF n
  <2>3. PICK jj \in DOMAIN schedule[q] : Published(q, r, jj) /\ Matches(r, q, ii, jj)
    BY <2>2 DEF AgreeInv
  <2>4. jj = j BY <1>7, <2>2, <2>3, SameCall DEF Matches, k
  <2>5. BarrierAt(schedule[r], ii) = BarrierAt(schedule[r], i)
    BY <1>7, <2>3, <2>4 DEF Matches
  <2>6. ii = i BY <1>1, <2>2, <2>5, PublishedShared, SameCall
  <2> QED BY <1>1, <1>2, <2>1, <2>2, <2>6
<1>12. k = n BY <1>10, <1>11
<1> QED BY <1>1, <1>7, <1>12 DEF Matches, k, i

-----------------------------------------------------------------------------
(* The cells and the agreement are kept by every step.                     *)

\* Publications are never undone, and only a load gets past a peer.
LEMMA Grows ==
    ASSUME CountInv, [Next]_vars, NEW p \in Rank, NEW o \in Rank, NEW i
    PROVE  /\ schedule' = schedule
           /\ Published(p, o, i) => Published(p, o, i)'
           /\ Passed(p, o, i)' =>
                 \/ Passed(p, o, i)
                 \/ /\ Load(p, o)
                    /\ Observed(p, o) = Kernel(p).token
                    /\ i = retired[p] + 1
<1> USE DEF CountInv
<1>1. ASSUME NEW r \in Rank, Retire(r)
      PROVE  /\ schedule' = schedule
             /\ Published(p, o, i) => Published(p, o, i)'
             /\ Passed(p, o, i)' => Passed(p, o, i)
  <2>1. /\ schedule' = schedule
        /\ retired'[p] = IF p = r THEN retired[p] + 1 ELSE retired[p]
        /\ pc'[p][o] = IF p = r THEN "idle" ELSE pc[p][o]
        /\ retired[p] \in Nat
    BY <1>1 DEF Retire, TypeOK
  <2>2. CASE p # r BY <2>1, <2>2 DEF Published, Passed
  <2>3. CASE p = r
    <3>1. i \in Shared(schedule[r], o) => i \in Nat
      BY ScheduleFacts, RoundType
    <3>2. i \in Shared(schedule[r], o) /\ i = retired[r] + 1 => pc[r][o] = "done"
      BY <1>1, RetireFacts
    <3> QED BY <2>1, <2>3, <3>1, <3>2 DEF Published, Passed
  <2> QED BY <2>2, <2>3
<1>2. ASSUME NEW r \in Rank, NEW q \in Rank, Publish(r, q)
      PROVE  /\ schedule' = schedule
             /\ Published(p, o, i) => Published(p, o, i)'
             /\ Passed(p, o, i)' => Passed(p, o, i)
  <2>1. /\ schedule' = schedule
        /\ retired' = retired
        /\ pc'[p][o] # "idle" \/ pc[p][o] = "idle"
        /\ pc'[p][o] = "done" => pc[p][o] = "done"
    BY <1>2 DEF Publish, TypeOK
  <2> QED BY <2>1 DEF Published, Passed
<1>3. ASSUME NEW r \in Rank, NEW q \in Rank, Load(r, q)
      PROVE  /\ schedule' = schedule
             /\ Published(p, o, i) => Published(p, o, i)'
             /\ Passed(p, o, i)' =>
                   \/ Passed(p, o, i)
                   \/ /\ Load(p, o)
                      /\ Observed(p, o) = Kernel(p).token
                      /\ i = retired[p] + 1
  BY <1>3, LoadFacts DEF Published, Passed
<1>4. ASSUME UNCHANGED <<schedule, retired, pc>>
      PROVE  /\ schedule' = schedule
             /\ Published(p, o, i) => Published(p, o, i)'
             /\ Passed(p, o, i)' => Passed(p, o, i)
  BY <1>4 DEF Published, Passed
<1> QED BY <1>1, <1>2, <1>3, <1>4
     DEF Next, Edge, Load, Quiescent, vars, deviceVars, HostBarrier, Trap

\* A program gets past a peer that has published the same instance in the same
\* round, for that is whose token it has seen.
LEMMA NextAgree ==
    CountInv /\ CellInv /\ AgreeInv /\ [Next]_vars => AgreeInv'
<1> SUFFICES ASSUME CountInv, CellInv, AgreeInv, [Next]_vars,
                    NEW r \in Rank, NEW q \in Rank,
                    NEW i \in DOMAIN schedule'[r], Passed(r, q, i)'
             PROVE  \E j \in DOMAIN schedule'[q] :
                       Published(q, r, j)' /\ Matches(r, q, i, j)'
  BY DEF AgreeInv
<1>1. schedule' = schedule BY Grows
<1>2. PICK j \in DOMAIN schedule[q] : Published(q, r, j) /\ Matches(r, q, i, j)
  <2>1. CASE Passed(r, q, i) BY <1>1, <2>1 DEF AgreeInv
  <2>2. CASE /\ Load(r, q)
             /\ Observed(r, q) = Kernel(r).token
             /\ i = retired[r] + 1
    BY <2>2, LoadFacts, SeenToken DEF CountInv
  <2> QED BY <2>1, <2>2, Grows
<1>3. Published(q, r, j)' BY <1>2, Grows
<1> QED BY <1>1, <1>2, <1>3 DEF Matches

\* A function of three arguments that is changed at one place.
LEMMA ElsewhereUnchanged ==
    ASSUME NEW A, NEW B, NEW C, NEW D, NEW f \in [A -> [B -> [C -> D]]],
           NEW a \in A, NEW b \in B, NEW c \in C, NEW v,
           NEW x \in A, NEW y \in B, NEW z \in C, ~ (x = a /\ y = b /\ z = c)
    PROVE  [f EXCEPT ![a][b][c] = v][x][y][z] = f[x][y][z]
<1>1. CASE x # a BY <1>1
<1>2. CASE y # b BY <1>2
<1>3. CASE z # c BY <1>3
<1> QED BY <1>1, <1>2, <1>3

\* A store changes one cell.
LEMMA OtherCells ==
    ASSUME TypeOK, NEW r \in Rank, NEW q \in Rank, Publish(r, q),
           NEW p \in Rank, NEW o \in Rank, NEW s \in Slot,
           ~ (p = r /\ o = q /\ s = SlotOf(edge_seq[r][q]))
    PROVE  signal_buf'[o][s][p] = signal_buf[o][s][p]
<1>1. signal_buf \in [Rank -> [Slot -> [Rank -> Token \cup {NoToken}]]]
  BY DEF TypeOK
<1>2. edge_seq[r][q] \in Nat
  BY DEF TypeOK
<1>3. SlotOf(edge_seq[r][q]) \in Slot
  BY <1>2, SlotParity
<1>4. signal_buf' = [signal_buf EXCEPT ![q][SlotOf(edge_seq[r][q])][r] = Kernel(r).token]
  BY DEF Publish
<1> QED BY <1>1, <1>3, <1>4, ElsewhereUnchanged

\* A store replaces the token of the slot's last use by that of this one.
LEMMA NextCell ==
    CountInv /\ CellInv /\ [Next]_vars => CellInv'
<1> SUFFICES ASSUME CountInv, CellInv, [Next]_vars PROVE CellInv'
  OBVIOUS
<1>1. ASSUME NEW r \in Rank, NEW q \in Rank, Publish(r, q) PROVE CellInv'
  <2>a. PICK i \in Nat : i = retired[r] + 1 BY DEF CountInv, TypeOK
  <2>b. PICK n \in Nat : n = edge_seq[r][q] BY DEF CountInv, TypeOK
  <2>1. /\ schedule' = schedule
        /\ edge_seq'[r][q] = n + 1
        /\ signal_buf'[q][SlotOf(n)][r] = Kernel(r).token
        /\ pc'[r][q] = "published"
    BY <1>1, <2>b, SlotParity DEF Publish, CountInv, TypeOK, Pc
  <2>2. ASSUME NEW p \in Rank, NEW o \in Rank, NEW s \in Slot, ~ (p = r /\ o = q)
        PROVE  /\ edge_seq'[p][o] = edge_seq[p][o]
               /\ signal_buf'[o][s][p] = signal_buf[o][s][p]
    <3>1. edge_seq'[p][o] = edge_seq[p][o]
      BY <1>1, <2>2 DEF Publish, CountInv, TypeOK
    <3>2. signal_buf'[o][s][p] = signal_buf[o][s][p]
      BY <1>1, <2>2, OtherCells DEF CountInv
    <3> QED BY <3>1, <3>2
  <2>3. \A s \in Slot : s # SlotOf(n) => signal_buf'[q][s][r] = signal_buf[q][s][r]
    BY <1>1, <2>b, OtherCells DEF CountInv
  <2>4. ASSUME NEW p \in Rank, NEW o \in Rank, NEW s \in Slot, ~ (p = r /\ o = q)
        PROVE  \/ signal_buf'[o][s][p] = NoToken /\ edge_seq'[p][o] <= s
               \/ \E j \in DOMAIN schedule'[p] : Holds(p, o, s, j)'
    BY <2>1, <2>2, <2>4, Grows DEF CellInv, Holds
  <2>5. Holds(r, q, SlotOf(n), i)'
    <3>1. /\ retired[r] < Len(stream[r])
          /\ q \in Members[Kernel(r).group]
          /\ pc[r][q] = "idle"
          /\ retired' = retired
      BY <1>1 DEF Publish, Running
    <3>2. /\ i \in DOMAIN schedule[r]
          /\ q \in Members[schedule[r][i]]
          /\ Kernel(r).token = BarrierAt(schedule[r], i)
      BY <3>1, <2>a, KernelFacts DEF CountInv
    <3>3. i \in Shared(schedule[r], q) BY <3>2 DEF Shared
    <3>4. Published(r, q, i)' BY <2>1, <2>a, <3>1, <3>3 DEF Published, CountInv, TypeOK
    <3>5. Round(schedule[r], q, i) = n + 1
      <4>1. n = CountUpTo(Shared(schedule[r], q), retired[r]) /\ retired[r] \in Nat
        BY <3>1, <2>b DEF CountInv, TypeOK, SeqInv, Reached
      <4> QED BY <3>3, <4>1, <2>a, CountStep DEF Round
    <3>6. SlotOf((n + 1) - 1) = SlotOf(n) BY <2>1
    <3> QED BY <2>1, <3>2, <3>4, <3>5, <3>6 DEF Holds
  <2>6. ASSUME NEW s \in Slot, s # SlotOf(n)
        PROVE  \/ signal_buf'[q][s][r] = NoToken /\ edge_seq'[r][q] <= s
               \/ \E j \in DOMAIN schedule'[r] : Holds(r, q, s, j)'
    <3>1. CASE signal_buf[q][s][r] = NoToken /\ n <= s
      <4>1. n < s BY <2>1, <2>6, <3>1 DEF Slot, SlotOf
      <4> QED BY <2>1, <2>3, <2>6, <3>1, <4>1 DEF Slot
    <3>2. ASSUME NEW j \in DOMAIN schedule[r], Holds(r, q, s, j)
          PROVE  Holds(r, q, s, j)'
      <4> DEFINE k == Round(schedule[r], q, j)
      <4>1. k \in 1 .. n BY <2>b, <3>2, PublishedRound DEF Holds
      <4>2. SlotOf(k - 1) = s /\ n <= k + 1 BY <2>b, <3>2 DEF Holds
      <4>3. n # k + 1
        <5>1. k - 1 \in Nat /\ (k - 1) + 2 = k + 1 BY <2>1, <4>1
        <5>2. SlotOf(k + 1) = s BY <4>2, <5>1, SlotParity
        <5> QED BY <2>6, <5>2
      <4> HIDE DEF k
      <4>4. n + 1 <= k + 1 BY <2>1, <4>1, <4>2, <4>3
      <4> QED BY <2>1, <2>3, <2>6, <3>2, <4>4, Grows DEF Holds, k
    <3> QED BY <2>1, <2>b, <3>1, <3>2 DEF CellInv
  <2>7. i \in DOMAIN schedule[r]
    BY <1>1, <2>a, KernelFacts DEF Publish, Running, CountInv
  <2> SUFFICES ASSUME NEW p \in Rank, NEW o \in Rank, NEW s \in Slot
               PROVE  \/ signal_buf'[o][s][p] = NoToken /\ edge_seq'[p][o] <= s
                      \/ \E j \in DOMAIN schedule'[p] : Holds(p, o, s, j)'
    BY DEF CellInv
  <2>8. CASE p = r /\ o = q /\ s = SlotOf(n) BY <2>1, <2>5, <2>7, <2>8
  <2>9. CASE p = r /\ o = q /\ s # SlotOf(n) BY <2>6, <2>9
  <2> QED BY <2>4, <2>8, <2>9
<1>2. ASSUME UNCHANGED <<schedule, edge_seq, signal_buf>> PROVE CellInv'
  BY <1>2, Grows DEF CellInv, Holds
<1> QED BY <1>1, <1>2, LoadFacts
     DEF Next, Edge, Load, Quiescent, vars, deviceVars, HostBarrier, Retire, Trap, CountInv

\* The invariant holds initially: no cell has been written, nothing passed.
LEMMA InitInv == Init => IInv
<1> SUFFICES ASSUME Init PROVE IInv
  OBVIOUS
<1>1. CountInv BY InitCount
<1>2. CellInv
  <2> SUFFICES ASSUME NEW r \in Rank, NEW q \in Rank, NEW s \in Slot
               PROVE  signal_buf[q][s][r] = NoToken /\ edge_seq[r][q] <= s
    BY DEF CellInv
  <2> QED BY DEF Init, Slot
<1>3. AgreeInv
  <2> SUFFICES ASSUME NEW r \in Rank, NEW q \in Rank,
                      NEW i \in DOMAIN schedule[r], Passed(r, q, i)
               PROVE  FALSE
    BY DEF AgreeInv
  <2>1. i \in Nat \ {0} BY <1>1, PublishedShared
  <2>2. retired[r] = 0 /\ pc[r][q] = "idle" BY DEF Init
  <2> QED BY <2>1, <2>2 DEF Passed
<1> QED BY <1>1, <1>2, <1>3 DEF IInv, CountInv

\* Every step keeps it.
LEMMA NextInv == IInv /\ [Next]_vars => IInv'
BY NextCount, NextCell, NextAgree DEF IInv, CountInv

\* So it holds throughout, for every schedule and whoever traps.
THEOREM Invariance == Spec => []IInv
BY InitInv, NextInv, PTL DEF Spec

-----------------------------------------------------------------------------
(* The properties.                                                         *)

\* No token of another barrier lets a rank past a peer, for any schedules and
\* with ranks trapping at any time.
THEOREM BarrierSyncHolds == Spec => []BarrierSync
<1>1. IInv => BarrierSync BY DEF IInv, AgreeInv, BarrierSync, Matches
<1> QED BY <1>1, Invariance, PTL

\* The two ends of an edge run an instance in the same round, so in one slot.
THEOREM RoundsAgreeHolds == Spec => []RoundsAgree
<1>1. IInv => RoundsAgree
  <2> SUFFICES ASSUME IInv, NEW r \in Rank, NEW q \in Rank,
                      NEW i \in DOMAIN schedule[r], Passed(r, q, i),
                      NEW j \in DOMAIN schedule[q], Published(q, r, j),
                      BarrierAt(schedule[q], j) = BarrierAt(schedule[r], i)
               PROVE  Round(schedule[r], q, i) = Round(schedule[q], r, j)
    BY DEF RoundsAgree
  <2>1. PICK jj \in DOMAIN schedule[q] : Published(q, r, jj) /\ Matches(r, q, i, jj)
    BY DEF IInv, AgreeInv
  <2>2. jj = j BY <2>1, SameCall DEF IInv, CountInv, Matches
  <2> QED BY <2>1, <2>2 DEF Matches
<1> QED BY <1>1, Invariance, PTL

\* The edge counters of a pair differ by one at most.
THEOREM PairSkewHolds == Spec => []PairSkew
<1>1. IInv => PairSkew
  <2> SUFFICES ASSUME IInv, NEW r \in Rank, NEW q \in Rank
               PROVE  edge_seq[r][q] - edge_seq[q][r] \in -1 .. 1
    BY DEF PairSkew
  <2>1. edge_seq[r][q] \in Nat /\ edge_seq[q][r] \in Nat BY DEF IInv, TypeOK
  <2>2. edge_seq[r][q] <= edge_seq[q][r] + 1 /\ edge_seq[q][r] <= edge_seq[r][q] + 1
    BY Skew DEF IInv, CountInv
  <2> QED BY <2>1, <2>2
<1> QED BY <1>1, Invariance, PTL

\* An instance that q has published and r waits for is in r's current round.
LEMMA AwaitedRound ==
    ASSUME IInv, NEW r \in Rank, NEW q \in Rank,
           pc[r][q] \in {"published", "spin"}, NEW j, Published(q, r, j),
           BarrierAt(schedule[q], j) = BarrierAt(schedule[r], retired[r] + 1)
    PROVE  Round(schedule[q], r, j) = edge_seq[r][q]
<1> USE DEF IInv, CountInv
<1> DEFINE i == retired[r] + 1
           n == edge_seq[r][q]
           m == edge_seq[q][r]
           k == Round(schedule[q], r, j)
<1>1. Published(r, q, i) /\ i \in DOMAIN schedule[r] /\ Round(schedule[r], q, i) = n
  BY RunningRound
<1>2. k \in 1 .. m /\ n \in 1 .. n /\ n \in Nat /\ m \in Nat
  BY <1>1, PublishedRound DEF TypeOK
<1>3. m <= n + 1 BY Skew
<1>4. ~ k < n
  <2> SUFFICES ASSUME k < n PROVE FALSE OBVIOUS
  <2>1. k \in 1 .. n BY <1>2
  <2>2. PICK ii \in DOMAIN schedule[r] :
           Passed(r, q, ii) /\ Round(schedule[r], q, ii) = k
    BY <2>1, PassedRounds
  <2>3. PICK jj \in DOMAIN schedule[q] : Published(q, r, jj) /\ Matches(r, q, ii, jj)
    BY <2>2 DEF AgreeInv
  <2>4. jj = j BY <2>2, <2>3, SameCall DEF Matches
  <2>5. ii = i BY <1>1, <2>2, <2>3, <2>4, PublishedShared, SameCall DEF Matches
  <2> QED BY <1>1, <1>2, <2>2, <2>5
<1>5. k # n + 1
  <2> SUFFICES ASSUME k = n + 1 PROVE FALSE OBVIOUS
  <2>1. n \in 1 .. m /\ n < m BY <1>2
  <2>2. PICK jj \in DOMAIN schedule[q] :
           Passed(q, r, jj) /\ Round(schedule[q], r, jj) = n
    BY <2>1, PassedRounds
  <2>3. PICK ii \in DOMAIN schedule[r] : Published(r, q, ii) /\ Matches(q, r, jj, ii)
    BY <2>2 DEF AgreeInv
  <2>4. ii = i BY <1>1, <2>2, <2>3, SameCall DEF Matches
  <2>5. jj = j BY <2>2, <2>3, <2>4, PublishedShared, SameCall DEF Matches
  <2> QED BY <1>2, <2>2, <2>5
<1> QED BY <1>2, <1>3, <1>4, <1>5

\* A published signal stays in its cell until the peer it is for has seen it.
THEOREM NoLostSignalHolds == Spec => []NoLostSignal
<1>1. IInv => NoLostSignal
  <2> SUFFICES ASSUME IInv, NEW r \in Rank, NEW q \in Rank,
                      pc[r][q] \in {"published", "spin"},
                      NEW j \in DOMAIN schedule[q], Published(q, r, j),
                      BarrierAt(schedule[q], j) = BarrierAt(schedule[r], retired[r] + 1)
               PROVE  Observed(r, q) = Kernel(r).token
    BY DEF NoLostSignal
  <2> USE DEF IInv, CountInv
  <2> DEFINE n == edge_seq[r][q]
             m == edge_seq[q][r]
             s == SlotOf(n - 1)
  <2>1. Round(schedule[q], r, j) = n BY AwaitedRound
  <2>2. n \in 1 .. m /\ n \in Nat /\ m \in Nat BY <2>1, PublishedRound DEF TypeOK
  <2>3. m <= n + 1 BY Skew
  <2>4. s \in Slot /\ s <= n - 1 BY <2>2, SlotParity
  <2>5. PICK jj \in DOMAIN schedule[q] : Holds(q, r, s, jj)
    BY <2>2, <2>4 DEF CellInv, Slot
  <2> DEFINE k == Round(schedule[q], r, jj)
  <2>6. /\ Published(q, r, jj)
        /\ signal_buf[r][s][q] = BarrierAt(schedule[q], jj)
        /\ SlotOf(k - 1) = SlotOf(n - 1)
        /\ m <= k + 1
    BY <2>5 DEF Holds
  <2>7. k \in 1 .. m BY <2>6, PublishedRound
  <2>8. k = n
    <3> HIDE DEF k, n, m, s
    <3>1. k \in {n - 1, n, n + 1} BY <2>2, <2>3, <2>6, <2>7
    <3>2. k # n - 1
      <4> SUFFICES ASSUME k = n - 1 PROVE FALSE OBVIOUS
      <4>1. k - 1 \in Nat /\ n - 1 = (k - 1) + 1 BY <2>2, <2>7
      <4> QED BY <4>1, <2>6, SlotParity
    <3>3. k # n + 1
      <4> SUFFICES ASSUME k = n + 1 PROVE FALSE OBVIOUS
      <4>1. n - 1 \in Nat /\ k - 1 = (n - 1) + 1 BY <2>2
      <4> QED BY <4>1, <2>6, SlotParity
    <3> QED BY <3>1, <3>2, <3>3
  <2>9. jj = j BY <2>1, <2>6, <2>8, SameCall
  <2> QED BY <2>6, <2>9, RunningRound DEF Observed
<1> QED BY <1>1, Invariance, PTL

\* A slot is reused only when the reader is past the barrier it was used for.
THEOREM ReuseAfterConsumeHolds == Spec => ReuseAfterConsume
<1> DEFINE Reuse(r, q, s) ==
              \/ signal_buf'[q][s][r] = signal_buf[q][s][r]
              \/ signal_buf[q][s][r] = NoToken
              \/ \E i \in DOMAIN schedule[q] :
                    /\ Passed(q, r, i)
                    /\ BarrierAt(schedule[q], i) = signal_buf[q][s][r]
<1>1. ASSUME IInv, [Next]_vars, NEW p \in Rank, NEW o \in Rank, NEW s \in Slot
      PROVE  Reuse(p, o, s)
  <2> USE <1>1 DEF IInv, CountInv
  <2>1. ASSUME NEW r \in Rank, NEW q \in Rank, Publish(r, q) PROVE Reuse(p, o, s)
    <3> DEFINE n == edge_seq[r][q]
    <3>1. n \in Nat BY DEF TypeOK
    <3>2. (p = r /\ o = q /\ s = SlotOf(n)) \/ signal_buf'[o][s][p] = signal_buf[o][s][p]
      BY <2>1, OtherCells
    <3> SUFFICES ASSUME s = SlotOf(n), signal_buf[q][s][r] # NoToken
                 PROVE  \E i \in DOMAIN schedule[q] :
                           /\ Passed(q, r, i)
                           /\ BarrierAt(schedule[q], i) = signal_buf[q][s][r]
      BY <3>2
    <3>3. PICK j \in DOMAIN schedule[r] : Holds(r, q, s, j) BY DEF CellInv
    <3> DEFINE k == Round(schedule[r], q, j)
    <3>4. /\ Published(r, q, j)
          /\ signal_buf[q][s][r] = BarrierAt(schedule[r], j)
          /\ SlotOf(k - 1) = SlotOf(n)
          /\ n <= k + 1
      BY <3>3 DEF Holds
    <3>5. k \in 1 .. n BY <3>4, PublishedRound
    <3>6. k # n
      <4> HIDE DEF n, k
      <4> SUFFICES ASSUME k = n PROVE FALSE OBVIOUS
      <4>1. k - 1 \in Nat /\ n = (k - 1) + 1 BY <3>1, <3>5
      <4> QED BY <4>1, <3>4, SlotParity
    <3>7. n \in 1 .. n /\ n = k + 1 BY <3>1, <3>4, <3>5, <3>6
    <3>8. PICK i \in DOMAIN schedule[r] :
             Passed(r, q, i) /\ Round(schedule[r], q, i) = n
      BY <2>1, <3>7, PassedRounds DEF Publish
    <3>9. PICK jj \in DOMAIN schedule[q] : Published(q, r, jj) /\ Matches(r, q, i, jj)
      BY <3>8 DEF AgreeInv
    <3>10. n \in 1 .. edge_seq[q][r] BY <3>8, <3>9, PublishedRound DEF Matches
    <3>11. edge_seq[q][r] \in Nat BY DEF TypeOK
    <3>12. k \in 1 .. edge_seq[q][r] /\ k < edge_seq[q][r]
      BY <3>5, <3>7, <3>10, <3>11
    <3>13. PICK ii \in DOMAIN schedule[q] :
              Passed(q, r, ii) /\ Round(schedule[q], r, ii) = k
      BY <3>12, PassedRounds
    <3>14. PICK l \in DOMAIN schedule[r] : Published(r, q, l) /\ Matches(q, r, ii, l)
      BY <3>13 DEF AgreeInv
    <3>15. l = j BY <3>4, <3>13, <3>14, SameCall DEF Matches
    <3> QED BY <3>4, <3>13, <3>14, <3>15 DEF Matches
  <2>2. CASE UNCHANGED signal_buf BY <2>2
  <2> QED BY <2>1, <2>2, LoadFacts
       DEF Next, Edge, Load, Quiescent, vars, deviceVars, HostBarrier, Retire, Trap
<1>2. IInv /\ [Next]_vars =>
         [\A r, q \in Rank, s \in Slot :
             \/ signal_buf'[q][s][r] = signal_buf[q][s][r]
             \/ signal_buf[q][s][r] = NoToken
             \/ \E i \in DOMAIN schedule[q] :
                   /\ Passed(q, r, i)
                   /\ BarrierAt(schedule[q], i) = signal_buf[q][s][r]]_vars
  BY <1>1
<1> QED BY <1>2, Invariance, PTL DEF Spec, ReuseAfterConsume

-----------------------------------------------------------------------------
(* Refinement of GroupBarrier.                                             *)

\* The calls a rank has entered, as the refinement mapping counts them.
Entered(r) == retired[r] + (IF \E q \in Rank : pc[r][q] # "idle" THEN 1 ELSE 0)
Arrived == [r \in Rank |-> Entered(r)]

\* What was published to anybody was entered.
LEMMA PublishedEntered ==
    ASSUME CountInv, NEW r \in Rank, NEW q \in Rank, NEW i, Published(r, q, i)
    PROVE  i \in 1 .. Entered(r)
<1>1. i \in Nat \ {0} /\ retired[r] \in Nat
  BY PublishedShared DEF CountInv, TypeOK
<1> QED BY <1>1 DEF Published, Entered

\* Instances, and having arrived at one, mean the same in GroupBarrier.
LEMMA SameInstance ==
    ASSUME NEW t, NEW i
    PROVE  Abs!BarrierAt(t, i) = BarrierAt(t, i)
<1>1. Abs!Cardinality(Calls(t, t[i]) \cap (1 .. i - 1))
         = Cardinality(Calls(t, t[i]) \cap (1 .. i - 1))
  BY DEF Abs!Cardinality, Cardinality
<1>2. Abs!Calls(t, t[i]) = Calls(t, t[i]) BY DEF Abs!Calls, Calls
<1> QED BY <1>1, <1>2 DEF Abs!BarrierAt, BarrierAt, Abs!CountUpTo, CountUpTo

\* So who has arrived somewhere has arrived there in GroupBarrier.
LEMMA SameAt ==
    ASSUME NEW q \in Rank, NEW b,
           \E j \in 1 .. Entered(q) : BarrierAt(schedule[q], j) = b
    PROVE  Abs!At(q, b)
<1>1. PICK j \in 1 .. Entered(q) : BarrierAt(schedule[q], j) = b OBVIOUS
<1>2. Abs!BarrierAt(schedule[q], j) = b BY <1>1, SameInstance
<1>3. j \in 1 .. Arrived[q] BY DEF Arrived
<1> QED BY <1>2, <1>3 DEF Abs!At, Arrived, Entered

\* A program's first publication in a kernel is the rank's arrival, and the
\* kernel's retirement its departure; every other step changes neither.
LEMMA StepRefines ==
    ASSUME IInv, [Next]_vars PROVE [Abs!Next]_(Abs!vars)
<1> USE DEF IInv, CountInv
<1>1. ASSUME NEW r \in Rank, NEW q \in Rank, Publish(r, q)
      PROVE  [Abs!Next]_(Abs!vars)
  <2>1. /\ UNCHANGED <<schedule, retired>>
        /\ pc'[r][q] # "idle"
        /\ \A p \in Rank \ {r} : pc'[p] = pc[p]
        /\ retired[r] \in Nat
    BY <1>1 DEF Publish, TypeOK
  <2>2. /\ Entered(r)' = retired[r] + 1
        /\ \A p \in Rank \ {r} : Entered(p)' = Entered(p)
    BY <2>1 DEF Entered
  <2>3. CASE Entered(r) = retired[r] + 1
    <3>1. Arrived' = Arrived BY <2>2, <2>3 DEF Arrived
    <3> QED BY <2>1, <3>1 DEF Abs!vars, Arrived, Entered
  <2>4. CASE Entered(r) = retired[r]
    <3>1. Arrived' = [Arrived EXCEPT ![r] = @ + 1]
      BY <2>1, <2>2, <2>4 DEF Arrived
    <3>2. Arrived[r] < Len(schedule[r])
      <4>1. /\ retired[r] < Len(stream[r])
            /\ Len(stream[r]) <= Len(schedule[r])
            /\ Len(stream[r]) \in Nat
            /\ Len(schedule[r]) \in Nat
        BY <1>1, ScheduleFacts DEF Publish, Running, StreamInv, TypeOK
      <4> QED BY <2>1, <2>4, <4>1 DEF Arrived
    <3>3. Abs!Arrive(r)
      BY <2>1, <2>4, <3>1, <3>2 DEF Abs!Arrive, Arrived, Entered
    <3> QED BY <3>3 DEF Abs!Next
  <2> QED BY <2>1, <2>3, <2>4 DEF Entered
<1>2. ASSUME NEW r \in Rank, Retire(r) PROVE [Abs!Next]_(Abs!vars)
  <2>1. /\ retired[r] + 1 \in DOMAIN schedule[r]
        /\ Kernel(r).group = schedule[r][retired[r] + 1]
        /\ retired[r] \in Nat
    BY <1>2, KernelFacts DEF Retire, Running, TypeOK
  <2>2. /\ r \in Members[schedule[r][retired[r] + 1]]
        /\ Members[schedule[r][retired[r] + 1]] \subseteq Rank
    BY <2>1, ScheduleFacts, MembersAssumption
  <2>3. pc[r][r] = "done" BY <1>2, <2>1, <2>2 DEF Retire
  <2>4. Entered(r) = retired[r] + 1 BY <2>3 DEF Entered
  <2>5. ASSUME NEW q \in Members[schedule[r][retired[r] + 1]]
        PROVE  \E j \in 1 .. Entered(q) :
                  BarrierAt(schedule[q], j) = BarrierAt(schedule[r], retired[r] + 1)
    <3>1. q \in Rank BY <2>2
    <3>2. Passed(r, q, retired[r] + 1)
      BY <1>2, <2>1 DEF Passed, Shared, Retire
    <3>3. PICK j \in DOMAIN schedule[q] :
             /\ Published(q, r, j)
             /\ Matches(r, q, retired[r] + 1, j)
      BY <2>1, <3>1, <3>2 DEF AgreeInv
    <3> QED BY <3>1, <3>3, PublishedEntered DEF Matches
  <2>6. /\ schedule' = schedule
        /\ retired' = [retired EXCEPT ![r] = @ + 1]
        /\ pc'[r] = [o \in Rank |-> "idle"]
        /\ \A p \in Rank \ {r} : pc'[p] = pc[p] /\ retired'[p] = retired[p]
        /\ retired'[r] = retired[r] + 1
    BY <1>2 DEF Retire, TypeOK
  <2>7. Arrived' = Arrived BY <2>1, <2>4, <2>6 DEF Arrived, Entered
  <2>8. Arrived[r] = retired[r] + 1 /\ retired[r] < Arrived[r]
    BY <2>1, <2>4 DEF Arrived
  <2>9. \A q \in Members[schedule[r][Arrived[r]]] :
           Abs!At(q, Abs!BarrierAt(schedule[r], Arrived[r]))
    <3> SUFFICES ASSUME NEW q \in Members[schedule[r][retired[r] + 1]]
                 PROVE  Abs!At(q, BarrierAt(schedule[r], retired[r] + 1))
      BY <2>8, SameInstance
    <3> QED BY <2>2, <2>5, SameAt
  <2>10. Abs!Depart(r)
    BY <2>6, <2>7, <2>8, <2>9 DEF Abs!Depart, Arrived, Entered
  <2> QED BY <2>10 DEF Abs!Next
<1>3. ASSUME NEW r \in Rank, NEW q \in Rank, Load(r, q) PROVE [Abs!Next]_(Abs!vars)
  BY <1>3, LoadFacts DEF Abs!vars
<1>4. ASSUME UNCHANGED <<schedule, retired, pc>> PROVE [Abs!Next]_(Abs!vars)
  BY <1>4 DEF Abs!vars
<1> QED BY <1>1, <1>2, <1>3, <1>4
     DEF Next, Edge, Load, Quiescent, vars, deviceVars, HostBarrier, Trap

\* The signal grid implements the ideal group barrier: a rank leaves only when
\* every member has entered that instance.
THEOREM Refinement == Spec => ImplementsGroupBarrier
<1>1. Init => Abs!Init
  BY DEF Init, Abs!Init
<1>2. IInv /\ [Next]_vars => [Abs!Next]_(Abs!vars) BY StepRefines
<1> QED BY <1>1, <1>2, Invariance, PTL DEF Spec, ImplementsGroupBarrier, Abs!Spec
-----------------------------------------------------------------------------
(* Only completable schedules run to their end.                            *)

\* Some rank has left instance b.  No order of calls ever closes a cycle of
\* instances that have been left: each non-empty set of them has a first one.
Left(b) ==
    \E r \in Rank : \E i \in DOMAIN schedule[r] : i <= retired[r] /\ BarrierAt(schedule[r], i) = b
FirstOf(b, B) == b \in B /\ \A a \in B : ~ Precedes(schedule, a, b)
OrderInv ==
    \A B \in (SUBSET Instances(schedule)) \ {{}} :
        (\A b \in B : Left(b)) => \E b \in B : FirstOf(b, B)

\* An instance that some rank has left has been entered by its members: each is
\* at the call, or past it.
LEMMA LeftIsEntered ==
    ASSUME IInv, NEW q \in Rank, NEW j \in DOMAIN schedule[q], Left(BarrierAt(schedule[q], j))
    PROVE  j \in Nat /\ j <= retired[q] + 1
<1>1. /\ schedule[q] \in Seq(Group) /\ schedule[q][j] \in Group
      /\ q \in Members[schedule[q][j]] /\ retired[q] \in Nat
  BY ScheduleFacts DEF IInv, TypeOK
<1>2. PICK r \in Rank : \E i \in DOMAIN schedule[r] :
         i <= retired[r] /\ BarrierAt(schedule[r], i) = BarrierAt(schedule[q], j)
  BY DEF Left
<1>i. PICK i \in DOMAIN schedule[r] :
         i <= retired[r] /\ BarrierAt(schedule[r], i) = BarrierAt(schedule[q], j)
  BY <1>2
<1>3. schedule[r][i] = schedule[q][j]
  BY <1>i DEF BarrierAt
<1>4. Passed(r, q, i)
  BY <1>1, <1>i, <1>3 DEF Passed, Shared
<1>5. PICK k \in DOMAIN schedule[q] :
         Published(q, r, k) /\ BarrierAt(schedule[q], k) = BarrierAt(schedule[r], i)
  BY <1>4 DEF IInv, AgreeInv, Matches
<1>6. k = j
  BY <1>1, <1>i, <1>5, BarrierAtInjective
<1>7. j \in Nat
  BY <1>1
<1>8. QED
  BY <1>1, <1>5, <1>6, <1>7 DEF Published

\* Nothing that has been left comes after the call that a rank is still in, on
\* that rank;
LEMMA NothingAhead ==
    ASSUME IInv, NEW b, ~ Left(b), NEW a, Left(a)
    PROVE  ~ Precedes(schedule, b, a)
<1> SUFFICES ASSUME NEW q \in Rank, NEW i \in DOMAIN schedule[q], NEW j \in DOMAIN schedule[q],
                    i < j, BarrierAt(schedule[q], i) = b, BarrierAt(schedule[q], j) = a
             PROVE  FALSE
  BY DEF Precedes
<1>1. j \in Nat /\ j <= retired[q] + 1
  BY LeftIsEntered
<1>2. i \in Nat /\ retired[q] \in Nat
  BY ScheduleFacts DEF IInv, TypeOK
<1>3. i <= retired[q]
  BY <1>1, <1>2
<1>4. QED
  BY <1>3 DEF Left

\* no instance precedes itself.
LEMMA NotBeforeItself ==
    ASSUME TypeOK, NEW b
    PROVE  ~ Precedes(schedule, b, b)
<1> SUFFICES ASSUME NEW q \in Rank, NEW i \in DOMAIN schedule[q], NEW j \in DOMAIN schedule[q],
                    i < j, BarrierAt(schedule[q], i) = b, BarrierAt(schedule[q], j) = b
             PROVE  FALSE
  BY DEF Precedes
<1>1. schedule[q] \in Seq(Group)
  BY ScheduleFacts
<1>2. i = j
  BY <1>1, BarrierAtInjective
<1>3. i \in Nat
  BY <1>1
<1>4. QED
  BY <1>2, <1>3

\* A rank that leaves an instance that nobody had left leaves one that precedes
\* none of those, so the new set is ordered too.
LEMMA NextOrder == IInv /\ OrderInv /\ [Next]_vars => OrderInv'
<1> SUFFICES ASSUME IInv, OrderInv, [Next]_vars PROVE OrderInv'
  OBVIOUS
<1>1. TypeOK
  BY DEF IInv
<1>2. schedule' = schedule
  BY DEF Next, vars, deviceVars, HostBarrier, Retire, Edge, Publish, FirstLoad, SpinLoad, Trap, Quiescent
<1>3. CASE retired' = retired
  <2>1. \A b : Left(b)' <=> Left(b)
    BY <1>2, <1>3 DEF Left
  <2>2. QED
    BY <1>2, <2>1 DEF OrderInv, FirstOf
<1>4. ASSUME NEW r \in Rank, Retire(r) PROVE OrderInv'
  <2> DEFINE b == BarrierAt(schedule[r], retired[r] + 1)
  <2>1. ASSUME NEW a, Left(a)' PROVE Left(a) \/ a = b
    <3>q. PICK q \in Rank : \E i \in DOMAIN schedule[q] :
             i <= retired'[q] /\ BarrierAt(schedule[q], i) = a
      BY <1>2, <2>1 DEF Left
    <3>1. PICK i \in DOMAIN schedule[q] : i <= retired'[q] /\ BarrierAt(schedule[q], i) = a
      BY <3>q
    <3>2. CASE i <= retired[q]
      BY <3>1, <3>2 DEF Left
    <3>3. CASE ~ (i <= retired[q])
      <4>1. q = r /\ retired'[r] = retired[r] + 1 /\ retired[r] \in Nat
        BY <1>1, <1>4, <3>1, <3>3 DEF Retire, TypeOK
      <4>2. i \in Nat
        BY <1>1, ScheduleFacts
      <4>3. i = retired[r] + 1
        BY <3>1, <3>3, <4>1, <4>2
      <4>4. QED
        BY <3>1, <4>1, <4>3
    <3>4. QED
      BY <3>2, <3>3
  <2> HIDE DEF b
  <2>2. ASSUME NEW B \in (SUBSET Instances(schedule)) \ {{}}, \A a \in B : Left(a)'
        PROVE  \E first \in B : FirstOf(first, B)
    <3>1. CASE \A a \in B : Left(a)
      BY <3>1 DEF OrderInv
    <3>2. CASE ~ \A a \in B : Left(a)
      <4>1. ~ Left(b) /\ b \in B /\ \A a \in B \ {b} : Left(a)
        BY <2>1, <2>2, <3>2
      <4>2. CASE B \ {b} = {}
        <5>1. FirstOf(b, B)
          BY <1>1, <4>1, <4>2, NotBeforeItself DEF FirstOf
        <5>2. QED
          BY <4>1, <5>1
      <4>3. CASE B \ {b} # {}
        <5>1. B \ {b} \in (SUBSET Instances(schedule)) \ {{}}
          BY <4>3
        <5>2. PICK first \in B \ {b} : FirstOf(first, B \ {b})
          BY <4>1, <5>1 DEF OrderInv
        <5>3. ~ Precedes(schedule, b, first)
          BY <4>1, <5>2, NothingAhead
        <5>4. FirstOf(first, B)
          BY <5>2, <5>3 DEF FirstOf
        <5>5. QED
          BY <5>2, <5>4
      <4>4. QED
        BY <4>2, <4>3
    <3>3. QED
      BY <3>1, <3>2
  <2>3. QED
    BY <1>2, <2>2 DEF OrderInv, FirstOf
<1>5. retired' = retired \/ \E r \in Rank : Retire(r)
  BY DEF Next, vars, deviceVars, HostBarrier, Edge, Publish, FirstLoad, SpinLoad, Trap, Quiescent
<1>6. QED
  BY <1>3, <1>4, <1>5

\* Calls that have all returned had joined every instance of their groups, and
\* had no cycle in their orders: no other schedule runs to its end, however the
\* ranks are timed (runtime.py:472, the ordering constraint of barrier()).
THEOREM OnlyCompletableHolds == Spec => []OnlyCompletable
<1>1. Init => OrderInv
  <2> SUFFICES ASSUME Init, NEW b PROVE ~ Left(b)
    <3> SUFFICES ASSUME \A b : ~ Left(b), NEW B \in (SUBSET Instances(schedule)) \ {{}},
                        \A b \in B : Left(b)
                 PROVE  FALSE
      BY DEF OrderInv
    <3>1. PICK b : b \in B
      OBVIOUS
    <3>2. QED
      BY <3>1
  <2>1. \A r \in Rank : \A i \in DOMAIN schedule[r] : i \in Nat \ {0} /\ retired[r] = 0
    BY InitType, ScheduleFacts DEF Init
  <2>2. QED
    BY <2>1 DEF Left
<1>2. IInv /\ OrderInv => OnlyCompletable
  <2> SUFFICES ASSUME IInv, OrderInv, AllRetired PROVE Completable(schedule)
    BY DEF OnlyCompletable
  <2>1. \A r \in Rank : \A i \in DOMAIN schedule[r] : i <= retired[r]
    BY ScheduleFacts DEF IInv, AllRetired, Finished
  <2>2. ASSUME NEW r \in Rank, NEW i \in DOMAIN schedule[r], NEW q \in Members[schedule[r][i]]
        PROVE  \E j \in DOMAIN schedule[q] : BarrierAt(schedule[q], j) = BarrierAt(schedule[r], i)
    <3>1. q \in Rank
      BY ScheduleFacts, MembersAssumption DEF IInv
    <3>2. Passed(r, q, i)
      BY <2>1, <2>2 DEF Passed, Shared
    <3>3. QED
      BY <3>1, <3>2 DEF IInv, AgreeInv, Matches
  <2>3. ASSUME NEW b \in Instances(schedule)
        PROVE  Left(b) /\ \A q \in Members[b.group] :
                             \E j \in DOMAIN schedule[q] : BarrierAt(schedule[q], j) = b
    <3>r. PICK r \in Rank : \E i \in DOMAIN schedule[r] : b = BarrierAt(schedule[r], i)
      BY <2>3 DEF Instances
    <3>1. PICK i \in DOMAIN schedule[r] : b = BarrierAt(schedule[r], i)
      BY <3>r
    <3>2. Left(b)
      BY <2>1, <3>1 DEF Left
    <3>3. b.group = schedule[r][i]
      BY <3>1 DEF BarrierAt
    <3>4. QED
      BY <2>2, <3>1, <3>2, <3>3
  <2>4. ASSUME NEW B \in (SUBSET Instances(schedule)) \ {{}}
        PROVE  \E b \in B : \A a \in B : ~ Precedes(schedule, a, b)
    <3>1. \A b \in B : Left(b)
      BY <2>3
    <3>2. QED
      BY <3>1 DEF OrderInv, FirstOf
  <2>5. QED
    BY <2>3, <2>4 DEF Completable
<1>3. QED
  BY <1>1, <1>2, NextOrder, Invariance, PTL DEF Spec
=============================================================================
