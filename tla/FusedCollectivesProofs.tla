----------------------- MODULE FusedCollectivesProofs -----------------------
(***************************************************************************)
(* For every world, workload and number of channels: the type invariant of *)
(* FusedCollectives, StagedBeforePull, and that the fused calls implement  *)
(* the ideal exchange.  The first two are not inductive:                   *)
(*   StreamOK    the barriers of a stream follow its operations;           *)
(*   EpochsOK    the barriers of the n-th call on a group are the group's  *)
(*               instances 2n-2 and 2n-1;                                  *)
(*   JoinedOK    a rank that has left a barrier of a call has seen every   *)
(*               member arrive at the same barrier of the same call;       *)
(*   CellsOK     what a step cell holds was published by its rank, in some *)
(*               call, for that chunk of that channel;                     *)
(*   SeenOK      a receiver past its spin has seen this call's chunks.     *)
(* The exchange needs where the data is, on top of them (DataInv):         *)
(*   MovedOK     a CTA moves units of its chunk, and tells no peer of a    *)
(*               chunk it has not staged whole;                            *)
(*   StagedOK    a staged unit of a comm_buf is this call's input;         *)
(*   OutputOK    an output unit holds what its definition names from when  *)
(*               its CTA has copied it, and nothing before.                *)
(***************************************************************************)
EXTENDS FusedCollectives, Arithmetic

Calendar == INSTANCE Schedule

\* The positions of a rank's calls on a group.
On(s, g) == {m \in DOMAIN s : s[m].group = g}

-----------------------------------------------------------------------------
FunctionsOK ==
    /\ submitted \in [Rank -> Nat] /\ done \in [Rank -> Nat]
    /\ arrived \in [Rank -> Nat] /\ departed \in [Rank -> Nat]
    /\ schedule \in [Rank -> Seq(Group)]
    /\ running \in [Rank -> SUBSET Cta]
    /\ chunk \in [Rank -> [Cta -> Nat]]
    /\ lanes \in [Rank -> [Cta -> SUBSET Rank]]
    /\ spinning \in [Rank -> SUBSET Channel]
    /\ trapped \in [Rank -> BOOLEAN]
    /\ step_pad \in [Rank -> [Channel -> [0 .. MaxChunks - 1 -> [Rank -> Step]]]]

\* The barriers that r has left when its stream is at operation d.
Barred(d) == 2 * (d \div 3) + (IF d % 3 = 0 THEN 0 ELSE 1)

StreamOK ==
    \A r \in Rank :
        /\ submitted[r] <= Len(workload[r])
        /\ done[r] <= 3 * submitted[r]
        /\ Len(schedule[r]) = 2 * submitted[r]
        /\ departed[r] = Barred(done[r])
        /\ arrived[r] \in {departed[r], departed[r] + 1}
        /\ arrived[r] <= Len(schedule[r])
        /\ done[r] % 3 = 1 => arrived[r] = departed[r]

KernelOK ==
    \A r \in Rank :
        /\ running[r] # {} => InKernel(r)
        /\ \A cta \in Cta :
              /\ chunk[r][cta] # 0 => InKernel(r) /\ chunk[r][cta] <= Chunks(Current(r), cta[2])
              /\ lanes[r][cta] # {} =>
                    /\ InKernel(r) /\ chunk[r][cta] < Chunks(Current(r), cta[2])
                    /\ lanes[r][cta] \subseteq Others(r)

EpochsOK ==
    \A r \in Rank :
        /\ \A g \in Group :
              Calendar!CountUpTo(Calendar!Calls(schedule[r], g), 2 * submitted[r])
                  = 2 * Calendar!CountUpTo(On(workload[r], g), submitted[r])
        /\ \A n \in 1 .. submitted[r] :
              LET g == workload[r][n].group
                  k == Ordinal(workload[r], n)
              IN  /\ Calendar!BarrierAt(schedule[r], 2 * n - 1) = [group |-> g, epoch |-> 2 * k - 2]
                  /\ Calendar!BarrierAt(schedule[r], 2 * n) = [group |-> g, epoch |-> 2 * k - 1]

\* Rank q takes part in r's n-th call, and has arrived at its barrier b, 1 or 2.
Joins(r, n, q, b) ==
    \E m \in 1 .. submitted[q] :
        SameCall(workload, r, n, q, m) /\ 2 * m - 2 + b <= arrived[q]

JoinedOK ==
    \A r \in Rank : \A n \in 1 .. submitted[r] : \A b \in {1, 2} :
        2 * n - 2 + b <= departed[r] =>
            \A q \in Members[workload[r][n].group] : Joins(r, n, q, b)

\* Rank q has told r that it has staged chunk k of its m-th call.
Published(q, m, ch, k, r) ==
    \/ done[q] >= 3 * m - 1
    \/ /\ done[q] = 3 * m - 2
       /\ \/ chunk[q][Sender(ch)] > k
          \/ chunk[q][Sender(ch)] = k /\ r \in lanes[q][Sender(ch)]

\* The value that a chunk of q's m-th call is published with.
Value(q, m, k) ==
    (StepBase[workload[q][m].group][Ordinal(workload[q], m)] + k + 1) % 2 ^ Width

CellsOK ==
    \A r, q \in Rank : \A ch \in Channel : \A k \in 0 .. MaxChunks - 1 :
        step_pad[r][ch][k][q] # 0 =>
            \E m \in 1 .. submitted[q] :
                step_pad[r][ch][k][q] = Value(q, m, k) /\ Published(q, m, ch, k, r)

SeenOK ==
    \A r \in Rank : \A ch \in Channel :
        InKernel(r) /\ lanes[r][Receiver(ch)] = Others(r) =>
            \A q \in Others(r) : \E m \in 1 .. submitted[q] :
                /\ SameCall(workload, r, CallAt(r), q, m)
                /\ Published(q, m, ch, chunk[r][Receiver(ch)], r)

IInv ==
    /\ workload \in Workloads /\ num_sms \in Sms
    /\ FunctionsOK /\ StreamOK /\ KernelOK /\ EpochsOK /\ JoinedOK /\ CellsOK /\ SeenOK

-----------------------------------------------------------------------------
(* What the constants say.                                                 *)

\* An instance of a module of the library is that module.
LEMMA SameCardinality ==
    /\ \A S : Calendar!Cardinality(S) = Cardinality(S)
    /\ \A S : Barriers!Cardinality(S) = Cardinality(S)
  BY DEF Calendar!Cardinality, Barriers!Cardinality, Cardinality

\* So is an instance of Schedule, in what it counts.
LEMMA SameCount == \A S, n : Calendar!CountUpTo(S, n) = CountUpTo(S, n)
  BY SameCardinality DEF Calendar!CountUpTo, CountUpTo

\* A call is three operations of its rank's stream.
LEMMA Ops == OpsPerCall = 3
  BY DEF OpsPerCall, CallBarriers

\* The groups' members are ranks.
LEMMA MembersType == Members \in [Group -> SUBSET Rank]
<1>1. ASSUME NEW g \in Group, NEW i \in Peers(g) PROVE PeerAt(g, i) \in Rank
  <2>1. GroupRanks[g] \in Seq(Rank)
    BY WorkloadsAssumption
  <2>2. Len(GroupRanks[g]) \in Nat /\ i + 1 \in 1 .. Len(GroupRanks[g])
    BY <2>1 DEF Peers
  <2> QED BY <2>1, <2>2 DEF PeerAt
<1> QED BY <1>1 DEF Members

\* What the assumptions say of a call of a workload.
LEMMA CallFacts ==
    ASSUME workload \in Workloads, NEW r \in Rank
    PROVE  /\ workload[r] \in Seq(Call) /\ Len(workload[r]) \in Nat
           /\ \A n \in 1 .. Len(workload[r]) :
                 /\ workload[r][n] \in Call
                 /\ workload[r][n].group \in Group /\ workload[r][n].size \in Nat \ {0}
                 /\ r \in Members[workload[r][n].group]
                 /\ Members[workload[r][n].group] \in SUBSET Rank
                 /\ Ordinal(workload[r], n) \in DOMAIN StepBase[workload[r][n].group]
<1>1. workload \in [Rank -> Seq(Call)] /\ Matched(workload)
  BY WorkloadsAssumption
<1>2. workload[r] \in Seq(Call) /\ Len(workload[r]) \in Nat
  BY <1>1
<1>3. ASSUME NEW n \in 1 .. Len(workload[r])
      PROVE  /\ workload[r][n] \in Call
             /\ workload[r][n].group \in Group /\ workload[r][n].size \in Nat \ {0}
             /\ r \in Members[workload[r][n].group]
             /\ Members[workload[r][n].group] \in SUBSET Rank
             /\ Ordinal(workload[r], n) \in DOMAIN StepBase[workload[r][n].group]
  <2>1. n \in DOMAIN workload[r] /\ workload[r][n] \in Call
    BY <1>2
  <2>2. workload[r][n].group \in Group /\ workload[r][n].size \in Nat \ {0}
    BY <2>1 DEF Call
  <2>3. r \in Members[workload[r][n].group]
    BY <1>1, <2>1 DEF Matched
  <2>4. Ordinal(workload[r], n) \in DOMAIN StepBase[workload[r][n].group]
    BY <2>1, CallsAssumption
  <2> QED BY <2>1, <2>2, <2>3, <2>4, MembersType
<1> QED BY <1>2, <1>3

\* A channel's chunks are part of the slice.
LEMMA ChunksBound ==
    ASSUME NEW c, c.size \in Nat \ {0}, NEW ch
    PROVE  Chunks(c, ch) \in Nat /\ Chunks(c, ch) <= c.size
<1>0. 0 \in Int /\ c.size - 1 \in Int /\ ~ 0 > c.size - 1
  OBVIOUS
<1>1. IsFiniteSet(Slice(c)) /\ Cardinality(Slice(c)) = c.size
  <2>1. /\ IsFiniteSet(0 .. c.size - 1)
        /\ Cardinality(0 .. c.size - 1) = IF 0 > c.size - 1 THEN 0 ELSE (c.size - 1) - 0 + 1
    BY <1>0, FS_Interval, Zenon
  <2>2. (c.size - 1) - 0 + 1 = c.size
    OBVIOUS
  <2> QED BY <1>0, <2>1, <2>2 DEF Slice
<1>2. Partition(c, ch) \in SUBSET Slice(c)
  BY DEF Partition
<1>3. IsFiniteSet(Partition(c, ch)) /\ Cardinality(Partition(c, ch)) <= c.size
  BY <1>1, <1>2, FS_Subset
<1> QED BY <1>3, FS_CardinalityType DEF Chunks

-----------------------------------------------------------------------------
(* Barriers and their instances.                                           *)

LEMMA SameInstance ==
    \A s, i : Barriers!BarrierAt(s, i) = Calendar!BarrierAt(s, i)
  BY SameCardinality DEF Barriers!BarrierAt, Calendar!BarrierAt, Barriers!CountUpTo, Calendar!CountUpTo,
         Barriers!Calls, Calendar!Calls

\* A call's place among the calls on its group is a count.
LEMMA OrdinalCount ==
    ASSUME NEW s, NEW n \in DOMAIN s, DOMAIN s = 1 .. Len(s), Len(s) \in Nat
    PROVE  /\ Ordinal(s, n) = Calendar!CountUpTo(On(s, s[n].group), n)
           /\ Ordinal(s, n) \in Nat
<1>1. {m \in 1 .. n : s[m].group = s[n].group} = On(s, s[n].group) \cap (1 .. n)
  BY DEF On
<1>2. Ordinal(s, n) = Calendar!CountUpTo(On(s, s[n].group), n)
  BY <1>1, SameCardinality DEF Ordinal, Calendar!CountUpTo
<1>3. n \in Nat
  OBVIOUS
<1>4. Calendar!CountUpTo(On(s, s[n].group), n) \in Nat
  BY <1>3, SameCount, CountType
<1> QED BY <1>2, <1>4

\* Two calls of a rank on one group have different places.
LEMMA OrdinalInjective ==
    ASSUME NEW s, DOMAIN s = 1 .. Len(s), Len(s) \in Nat,
           NEW m \in DOMAIN s, NEW n \in DOMAIN s,
           s[m].group = s[n].group, Ordinal(s, m) = Ordinal(s, n)
    PROVE  m = n
<1>1. m \in On(s, s[n].group) /\ n \in On(s, s[n].group)
  BY DEF On
<1> QED BY <1>1, OrdinalCount, SameCount, CountInjective

\* A sequence behind another.
LEMMA Appended ==
    ASSUME NEW S, NEW s \in Seq(S), NEW t \in Seq(S)
    PROVE  /\ s \o t \in Seq(S)
           /\ Len(s \o t) = Len(s) + Len(t)
           /\ \A i \in 1 .. Len(s) : (s \o t)[i] = s[i]
           /\ \A i \in 1 .. Len(t) : (s \o t)[Len(s) + i] = t[i]
  OBVIOUS

\* The schedule with one more call's barriers.
LEMMA Doubled ==
    ASSUME NEW s \in Seq(Group), NEW g \in Group
    PROVE  LET t == s \o CallBarriers(g) IN
           /\ t \in Seq(Group) /\ Len(s) \in Nat /\ Len(t) = Len(s) + 2
           /\ \A i \in 1 .. Len(s) : t[i] = s[i]
           /\ t[Len(s) + 1] = g /\ t[Len(s) + 2] = g
<1> DEFINE u == CallBarriers(g)
           t == s \o u
<1>1. u \in Seq(Group) /\ Len(u) = 2 /\ u[1] = g /\ u[2] = g
  BY DEF CallBarriers
<1> HIDE DEF u
<1>2. /\ t \in Seq(Group) /\ Len(t) = Len(s) + Len(u)
      /\ \A i \in 1 .. Len(s) : t[i] = s[i]
      /\ \A i \in 1 .. Len(u) : t[Len(s) + i] = u[i]
  BY <1>1, Appended
<1>3. Len(s) \in Nat
  OBVIOUS
<1>4. t[Len(s) + 1] = u[1] /\ t[Len(s) + 2] = u[2]
  BY <1>1, <1>2
<1> QED BY <1>1, <1>2, <1>3, <1>4 DEF u

\* Its barriers are the next two instances of their group; the others keep theirs.
LEMMA DoubledInstances ==
    ASSUME NEW s \in Seq(Group), NEW g \in Group
    PROVE  LET t == s \o CallBarriers(g) IN
           /\ \A h \in Group :
                 Calendar!CountUpTo(Calendar!Calls(t, h), Len(s) + 2) =
                    Calendar!CountUpTo(Calendar!Calls(s, h), Len(s)) + (IF h = g THEN 2 ELSE 0)
           /\ \A i \in 1 .. Len(s) : Calendar!BarrierAt(t, i) = Calendar!BarrierAt(s, i)
           /\ Calendar!BarrierAt(t, Len(s) + 1) =
                 [group |-> g, epoch |-> Calendar!CountUpTo(Calendar!Calls(s, g), Len(s))]
           /\ Calendar!BarrierAt(t, Len(s) + 2) =
                 [group |-> g, epoch |-> Calendar!CountUpTo(Calendar!Calls(s, g), Len(s)) + 1]
<1> DEFINE t == s \o CallBarriers(g)
<1>0. /\ t \in Seq(Group) /\ Len(s) \in Nat /\ Len(t) = Len(s) + 2
      /\ \A i \in 1 .. Len(s) : t[i] = s[i]
      /\ t[Len(s) + 1] = g /\ t[Len(s) + 2] = g
  BY Doubled
<1> HIDE DEF t
<1>d. DOMAIN s = 1 .. Len(s) /\ DOMAIN t = 1 .. Len(s) + 2
  BY <1>0
<1>1. ASSUME NEW h, NEW i \in 0 .. Len(s)
      PROVE  Calendar!CountUpTo(Calendar!Calls(t, h), i) = Calendar!CountUpTo(Calendar!Calls(s, h), i)
  <2>1. Calendar!Calls(t, h) \cap (1 .. i) = Calendar!Calls(s, h) \cap (1 .. i)
    BY <1>0, <1>d DEF Calendar!Calls
  <2> QED BY <2>1 DEF Calendar!CountUpTo
<1>2. ASSUME NEW h
      PROVE  /\ Calendar!CountUpTo(Calendar!Calls(t, h), Len(s)) \in Nat
             /\ Calendar!CountUpTo(Calendar!Calls(t, h), Len(s) + 1) =
                   Calendar!CountUpTo(Calendar!Calls(t, h), Len(s)) + (IF h = g THEN 1 ELSE 0)
             /\ Calendar!CountUpTo(Calendar!Calls(t, h), Len(s) + 2) =
                   Calendar!CountUpTo(Calendar!Calls(t, h), Len(s) + 1) + (IF h = g THEN 1 ELSE 0)
  <2> DEFINE C == Calendar!Calls(t, h)
  <2>1. (Len(s) + 1 \in C <=> h = g) /\ (Len(s) + 2 \in C <=> h = g)
    BY <1>0, <1>d DEF Calendar!Calls
  <2> HIDE DEF C
  <2>2. Calendar!CountUpTo(C, Len(s)) \in Nat
    BY <1>0, SameCount, CountType
  <2>3. Calendar!CountUpTo(C, Len(s) + 1) =
           Calendar!CountUpTo(C, Len(s)) + (IF Len(s) + 1 \in C THEN 1 ELSE 0)
    BY <1>0, SameCount, CountStep
  <2>4. Len(s) + 1 \in Nat /\ (Len(s) + 1) + 1 = Len(s) + 2
    BY <1>0
  <2>5. Calendar!CountUpTo(C, (Len(s) + 1) + 1) =
           Calendar!CountUpTo(C, Len(s) + 1) + (IF (Len(s) + 1) + 1 \in C THEN 1 ELSE 0)
    BY <2>4, SameCount, CountStep
  <2> QED BY <2>1, <2>2, <2>3, <2>4, <2>5 DEF C
<1>3. ASSUME NEW i \in 1 .. Len(s) PROVE Calendar!BarrierAt(t, i) = Calendar!BarrierAt(s, i)
  <2>1. i - 1 \in 0 .. Len(s) /\ t[i] = s[i]
    BY <1>0
  <2> QED BY <1>1, <2>1 DEF Calendar!BarrierAt
<1>4. (Len(s) + 1) - 1 = Len(s) /\ (Len(s) + 2) - 1 = Len(s) + 1 /\ Len(s) \in 0 .. Len(s)
  BY <1>0
<1>5. ASSUME NEW h \in Group
      PROVE  Calendar!CountUpTo(Calendar!Calls(t, h), Len(s) + 2) =
                Calendar!CountUpTo(Calendar!Calls(s, h), Len(s)) + (IF h = g THEN 2 ELSE 0)
  BY <1>1, <1>2, <1>4
<1>6. Calendar!BarrierAt(t, Len(s) + 1) =
         [group |-> g, epoch |-> Calendar!CountUpTo(Calendar!Calls(s, g), Len(s))]
  BY <1>0, <1>1, <1>4 DEF Calendar!BarrierAt
<1>7. Calendar!BarrierAt(t, Len(s) + 2) =
         [group |-> g, epoch |-> Calendar!CountUpTo(Calendar!Calls(s, g), Len(s)) + 1]
  BY <1>0, <1>1, <1>2, <1>4 DEF Calendar!BarrierAt
<1> QED BY <1>3, <1>5, <1>6, <1>7 DEF t

-----------------------------------------------------------------------------
(* Where a stream is.                                                      *)

\* Operations come in threes.
LEMMA Threes ==
    ASSUME NEW d \in Nat
    PROVE  /\ d \div 3 \in Nat /\ d % 3 \in 0 .. 2 /\ d = 3 * (d \div 3) + (d % 3)
           /\ d % 3 = 2 => (d + 1) \div 3 = d \div 3 + 1 /\ (d + 1) % 3 = 0
           /\ d % 3 # 2 => (d + 1) \div 3 = d \div 3 /\ (d + 1) % 3 = (d % 3) + 1
<1>1. d \div 3 \in Nat /\ d % 3 \in 0 .. 2 /\ d = 3 * (d \div 3) + (d % 3)
  OBVIOUS
<1>2. ASSUME d % 3 = 2 PROVE (d + 1) \div 3 = d \div 3 + 1 /\ (d + 1) % 3 = 0
  BY <1>1, <1>2
<1>3. ASSUME d % 3 # 2 PROVE (d + 1) \div 3 = d \div 3 /\ (d + 1) % 3 = (d % 3) + 1
  BY <1>1, <1>3
<1> QED BY <1>1, <1>2, <1>3

\* Where a stream is: its call, its operation in it, the barriers it has left.
LEMMA StreamFacts ==
    ASSUME workload \in Workloads, FunctionsOK, StreamOK, NEW r \in Rank
    PROVE  /\ submitted[r] \in Nat /\ done[r] \in Nat
           /\ CallAt(r) \in Nat \ {0} /\ CallAt(r) = done[r] \div 3 + 1
           /\ done[r] = 3 * (CallAt(r) - 1) + (done[r] % 3) /\ done[r] % 3 \in 0 .. 2
           /\ InKernel(r) <=> CallAt(r) <= submitted[r] /\ done[r] % 3 = 1
           /\ InOp(r, {0, 2}) <=> CallAt(r) <= submitted[r] /\ done[r] % 3 # 1
           /\ CallAt(r) <= submitted[r] => CallAt(r) \in 1 .. Len(workload[r])
           /\ CallAt(r) > submitted[r] => done[r] = 3 * submitted[r]
           /\ departed[r] = 2 * (CallAt(r) - 1) + (IF done[r] % 3 = 0 THEN 0 ELSE 1)
<1>1. submitted[r] \in Nat /\ done[r] \in Nat /\ Len(workload[r]) \in Nat
  BY CallFacts DEF FunctionsOK
<1>2. /\ done[r] \div 3 \in Nat /\ done[r] % 3 \in 0 .. 2
      /\ done[r] = 3 * (done[r] \div 3) + (done[r] % 3)
  BY <1>1, Threes
<1>3. CallAt(r) = done[r] \div 3 + 1 /\ CallAt(r) \in Nat \ {0}
  BY <1>2, Ops DEF CallAt
<1>4. \A ops : InOp(r, ops) <=> CallAt(r) <= submitted[r] /\ done[r] % 3 \in ops
  BY Ops DEF InOp
<1>5. /\ submitted[r] <= Len(workload[r]) /\ done[r] <= 3 * submitted[r]
      /\ departed[r] = Barred(done[r])
  BY DEF StreamOK
<1>6. InKernel(r) <=> CallAt(r) <= submitted[r] /\ done[r] % 3 = 1
  BY <1>4 DEF InKernel
<1>7. InOp(r, {0, 2}) <=> CallAt(r) <= submitted[r] /\ done[r] % 3 # 1
  BY <1>2, <1>4
<1>8. /\ done[r] = 3 * (CallAt(r) - 1) + (done[r] % 3)
      /\ CallAt(r) <= submitted[r] => CallAt(r) \in 1 .. Len(workload[r])
      /\ CallAt(r) > submitted[r] => done[r] = 3 * submitted[r]
  <2> DEFINE x == done[r] \div 3
             y == done[r] % 3
  <2>1. /\ x \in Nat /\ y \in 0 .. 2 /\ done[r] = 3 * x + y /\ CallAt(r) = x + 1
        /\ submitted[r] \in Nat /\ Len(workload[r]) \in Nat
        /\ submitted[r] <= Len(workload[r]) /\ done[r] <= 3 * submitted[r]
    BY <1>1, <1>2, <1>3, <1>5
  <2> HIDE DEF x, y
  <2>2. /\ done[r] = 3 * (CallAt(r) - 1) + y
        /\ CallAt(r) <= submitted[r] => CallAt(r) \in 1 .. Len(workload[r])
        /\ CallAt(r) > submitted[r] => done[r] = 3 * submitted[r]
    BY <2>1
  <2> QED BY <2>2 DEF y
<1>9. departed[r] = 2 * (CallAt(r) - 1) + (IF done[r] % 3 = 0 THEN 0 ELSE 1)
  BY <1>2, <1>3, <1>5 DEF Barred
<1> QED BY <1>1, <1>2, <1>3, <1>6, <1>7, <1>8, <1>9

-----------------------------------------------------------------------------
(* What every step leaves true.                                            *)

LEMMA InitOK == Init => IInv
<1> SUFFICES ASSUME Init PROVE IInv
  OBVIOUS
<1> USE DEF Init
<1>1. 0 \in Step
  BY WidthAssumption DEF Step
<1>2. FunctionsOK
  BY <1>1 DEF FunctionsOK
<1>3. StreamOK
  <2>1. ASSUME NEW r \in Rank PROVE Len(workload[r]) \in Nat /\ Len(schedule[r]) = 0
    BY CallFacts
  <2>2. Barred(0) = 0 /\ 0 % 3 = 0
    BY DEF Barred
  <2> QED BY <2>1, <2>2 DEF StreamOK
<1>4. KernelOK
  BY DEF KernelOK
<1>5. EpochsOK
  <2>1. ASSUME NEW r \in Rank, NEW g \in Group
        PROVE  /\ Calendar!CountUpTo(Calendar!Calls(schedule[r], g), 0) = 0
               /\ Calendar!CountUpTo(On(workload[r], g), 0) = 0
    BY SameCount, CountZero
  <2> QED BY <2>1 DEF EpochsOK
<1>6. JoinedOK /\ SeenOK
  BY <1>3, <1>2, StreamFacts DEF JoinedOK, SeenOK
<1>7. CellsOK
  BY DEF CellsOK
<1> QED BY <1>2, <1>3, <1>4, <1>5, <1>6, <1>7 DEF IInv

\* A step takes rank q's stream on by an operation, or leaves it where it is and
\* its senders at their chunk or beyond.
Advances(q) ==
    \/ done'[q] = done[q] + 1
    \/ /\ done'[q] = done[q]
       /\ \A ch \in Channel :
             \/ chunk'[q][Sender(ch)] > chunk[q][Sender(ch)]
             \/ /\ chunk'[q][Sender(ch)] = chunk[q][Sender(ch)]
                /\ lanes[q][Sender(ch)] \subseteq lanes'[q][Sender(ch)]

\* The two CTAs of every channel.
LEMMA CtaType == \A ch \in Channel : Sender(ch) \in Cta /\ Receiver(ch) \in Cta
  BY DEF Sender, Receiver, Cta

\* What has been published stays so, as kernels and streams only advance.
LEMMA PublishedStays ==
    ASSUME NEW q \in Rank, FunctionsOK, FunctionsOK', Advances(q),
           NEW m \in Nat, NEW ch \in Channel, NEW k \in Nat, NEW r, Published(q, m, ch, k, r)
    PROVE  Published(q, m, ch, k, r)'
<1>1. /\ done[q] \in Nat /\ done'[q] \in Nat
      /\ chunk[q][Sender(ch)] \in Nat /\ chunk'[q][Sender(ch)] \in Nat
  BY CtaType DEF FunctionsOK
<1>2. CASE done[q] >= 3 * m - 1 \/ done'[q] = done[q] + 1
  BY <1>1, <1>2 DEF Published, Advances
<1>3. CASE done[q] = 3 * m - 2 /\ done'[q] = done[q]
  BY <1>1, <1>3 DEF Published, Advances
<1> QED BY <1>2, <1>3 DEF Published, Advances

\* What the steps of this section have in common.
Steady ==
    /\ workload \in Workloads /\ workload' = workload
    /\ FunctionsOK /\ FunctionsOK' /\ \A q \in Rank : submitted[q] <= submitted'[q] /\ Advances(q)

\* So a cell that nobody stores to keeps its meaning,
LEMMA CellsStay ==
    ASSUME CellsOK, Steady, step_pad' = step_pad
    PROVE  CellsOK'
<1> SUFFICES ASSUME NEW r \in Rank, NEW q \in Rank, NEW ch \in Channel,
                    NEW k \in 0 .. MaxChunks - 1, step_pad[r][ch][k][q] # 0
             PROVE  \E m \in 1 .. submitted'[q] :
                       step_pad[r][ch][k][q] = Value(q, m, k)' /\ Published(q, m, ch, k, r)'
  BY DEF CellsOK, Steady
<1>1. PICK m \in 1 .. submitted[q] :
         step_pad[r][ch][k][q] = Value(q, m, k) /\ Published(q, m, ch, k, r)
  BY DEF CellsOK
<1>2. k \in Nat /\ m \in Nat /\ m \in 1 .. submitted'[q]
  <2>1. submitted[q] \in Nat /\ submitted'[q] \in Nat /\ submitted[q] <= submitted'[q]
    BY DEF Steady, FunctionsOK
  <2> QED BY <2>1
<1>3. Published(q, m, ch, k, r)'
  BY <1>1, <1>2, PublishedStays DEF Steady
<1>4. Value(q, m, k)' = Value(q, m, k)
  BY DEF Value, Steady
<1> QED BY <1>1, <1>2, <1>3, <1>4

\* What r has seen of the chunk it is at, as SeenOK says it.
Sees(r, ch) ==
    \A q \in Others(r) : \E m \in 1 .. submitted[q] :
        /\ SameCall(workload, r, CallAt(r), q, m)
        /\ Published(q, m, ch, chunk[r][Receiver(ch)], r)

\* and so does what a receiver has seen.
LEMMA SeenStays ==
    ASSUME Steady, NEW r \in Rank, NEW ch \in Channel, Sees(r, ch), Others(r) \subseteq Rank,
           done'[r] = done[r], chunk'[r][Receiver(ch)] = chunk[r][Receiver(ch)]
    PROVE  Sees(r, ch)'
<1>1. CallAt(r)' = CallAt(r) /\ Others(r)' = Others(r)
  BY DEF CallAt, Others, Current, Steady
<1>2. ASSUME NEW q \in Others(r)
      PROVE  \E m \in 1 .. submitted'[q] :
                /\ SameCall(workload, r, CallAt(r), q, m)
                /\ Published(q, m, ch, chunk[r][Receiver(ch)], r)'
  <2>1. PICK m \in 1 .. submitted[q] :
           /\ SameCall(workload, r, CallAt(r), q, m)
           /\ Published(q, m, ch, chunk[r][Receiver(ch)], r)
    BY DEF Sees
  <2>2. q \in Rank /\ m \in Nat /\ m \in 1 .. submitted'[q] /\ chunk[r][Receiver(ch)] \in Nat
    <3>1. q \in Rank
      OBVIOUS
    <3>2. submitted[q] \in Nat /\ submitted'[q] \in Nat /\ submitted[q] <= submitted'[q]
      BY <3>1 DEF Steady, FunctionsOK
    <3>3. chunk[r][Receiver(ch)] \in Nat
      BY CtaType DEF Steady, FunctionsOK
    <3> QED BY <3>1, <3>2, <3>3
  <2>3. Published(q, m, ch, chunk[r][Receiver(ch)], r)'
    BY <2>1, <2>2, PublishedStays DEF Steady
  <2> QED BY <2>1, <2>2, <2>3
<1>3. workload' = workload
  BY DEF Steady
<1> QED BY <1>1, <1>2, <1>3 DEF Sees

-----------------------------------------------------------------------------
(* The steps of a kernel.                                                  *)

\* The call that a kernel works on.
LEMMA KernelFacts ==
    ASSUME workload \in Workloads, FunctionsOK, StreamOK, NEW r \in Rank, InKernel(r)
    PROVE  /\ CallAt(r) \in 1 .. submitted[r] /\ CallAt(r) \in 1 .. Len(workload[r])
           /\ done[r] = 3 * CallAt(r) - 2 /\ departed[r] = 2 * CallAt(r) - 1
           /\ Current(r).size \in Nat \ {0} /\ Current(r).group \in Group
           /\ Others(r) \subseteq Rank /\ r \in Members[Current(r).group]
           /\ \A ch \in Channel :
                 Chunks(Current(r), ch) \in Nat /\ Chunks(Current(r), ch) < MaxChunks
<1>1. /\ CallAt(r) \in 1 .. submitted[r] /\ CallAt(r) \in 1 .. Len(workload[r])
      /\ done[r] = 3 * CallAt(r) - 2 /\ departed[r] = 2 * CallAt(r) - 1
  BY StreamFacts, SMTT(20)
<1> DEFINE c == workload[r][CallAt(r)]
<1>2. c.size \in Nat \ {0} /\ c.group \in Group /\ Members[c.group] \in SUBSET Rank /\ r \in Members[c.group]
  BY <1>1, CallFacts
<1>3. CommSize \in Nat /\ c.size <= CommSize
  <2>1. CallAt(r) \in DOMAIN workload[r]
    BY <1>1, CallFacts
  <2>2. /\ CommSize \in Nat
        /\ (IF c.op = "all2all" THEN Len(GroupRanks[c.group]) ELSE 1) * c.size <= CommSize
    BY <2>1, CallsAssumption
  <2>3. Len(GroupRanks[c.group]) \in Nat /\ Len(GroupRanks[c.group]) # 0
    <3>1. GroupRanks[c.group] \in Seq(Rank)
      BY <1>2, WorkloadsAssumption
    <3>2. \E i \in Peers(c.group) : TRUE
      BY <1>2 DEF Members
    <3> QED BY <3>1, <3>2 DEF Peers
  <2> HIDE DEF c
  <2>4. c.size <= Len(GroupRanks[c.group]) * c.size
    BY <1>2, <2>3
  <2> QED BY <1>2, <2>2, <2>4
<1>4. ASSUME NEW ch \in Channel
      PROVE  Chunks(c, ch) \in Nat /\ Chunks(c, ch) < MaxChunks
  <2>1. Chunks(c, ch) \in Nat /\ Chunks(c, ch) <= c.size
    BY <1>2, ChunksBound
  <2> HIDE DEF c
  <2> QED BY <1>2, <1>3, <2>1 DEF MaxChunks
<1>5. Current(r) = c
  BY DEF Current
<1> QED BY <1>1, <1>2, <1>4, <1>5 DEF Others

\* While no stream moves.
LEMMA Unmoved ==
    ASSUME IInv, UNCHANGED <<workload, num_sms, submitted, done, barriers>>
    PROVE  /\ workload' \in Workloads /\ num_sms' \in Sms
           /\ StreamOK' /\ EpochsOK' /\ JoinedOK'
           /\ \A r \in Rank :
                 /\ InKernel(r)' <=> InKernel(r)
                 /\ CallAt(r)' = CallAt(r) /\ Current(r)' = Current(r) /\ Others(r)' = Others(r)
<1> USE DEF IInv, barriers
<1>1. workload' \in Workloads /\ num_sms' \in Sms
  OBVIOUS
<1>2. StreamOK'
  BY DEF StreamOK
<1>3. EpochsOK'
  BY DEF EpochsOK
<1>4. JoinedOK'
  BY DEF JoinedOK, Joins
<1>5. \A r \in Rank :
         /\ InKernel(r)' <=> InKernel(r)
         /\ CallAt(r)' = CallAt(r) /\ Current(r)' = Current(r) /\ Others(r)' = Others(r)
  BY DEF InKernel, InOp, CallAt, Current, Others
<1> QED BY <1>1, <1>2, <1>3, <1>4, <1>5

\* A step that leaves chunks, lanes and cells alone.
LEMMA QuietStep ==
    ASSUME IInv, FunctionsOK', UNCHANGED <<workload, num_sms, submitted, done, barriers>>,
           UNCHANGED <<chunk, lanes, step_pad>>, \A r \in Rank : running'[r] # {} => InKernel(r)
    PROVE  IInv'
<1>1. /\ workload' \in Workloads /\ num_sms' \in Sms
      /\ StreamOK' /\ EpochsOK' /\ JoinedOK'
      /\ \A r \in Rank :
            /\ InKernel(r)' <=> InKernel(r)
            /\ CallAt(r)' = CallAt(r) /\ Current(r)' = Current(r) /\ Others(r)' = Others(r)
  BY Unmoved
<1>2. Steady
  <2>1. \A q \in Rank : submitted[q] <= submitted'[q]
    BY DEF IInv, FunctionsOK
  <2>2. \A q \in Rank : Advances(q)
    BY DEF Advances
  <2> QED BY <2>1, <2>2 DEF Steady, IInv
<1>3. CellsOK'
  BY <1>2, CellsStay DEF IInv
<1>4. KernelOK'
  BY <1>1 DEF KernelOK, IInv
<1>5. SeenOK'
  <2> SUFFICES ASSUME NEW r \in Rank, NEW ch \in Channel,
                      InKernel(r)', lanes'[r][Receiver(ch)] = Others(r)'
               PROVE  Sees(r, ch)'
    BY DEF SeenOK, Sees
  <2>1. InKernel(r) /\ Sees(r, ch)
    BY <1>1 DEF SeenOK, Sees, IInv
  <2>2. Others(r) \subseteq Rank
    BY <2>1, KernelFacts DEF IInv
  <2> QED BY <1>2, <2>1, <2>2, SeenStays
<1> QED BY <1>1, <1>3, <1>4, <1>5 DEF IInv

\* A CTA of the kernel at the head gets an SM.
LEMMA StartOK == ASSUME IInv, NEW r \in Rank, NEW cta \in Cta, Start(r, cta) PROVE IInv'
<1> USE DEF Start, barriers, watchdog
<1>1. FunctionsOK'
  BY DEF IInv, FunctionsOK
<1>2. \A q \in Rank : running'[q] # {} => InKernel(q)
  BY DEF IInv, FunctionsOK, KernelOK
<1> QED BY <1>1, <1>2, QuietStep

\* A move touches nothing that the invariant reads.
LEMMA MoveOK == ASSUME IInv, NEW r \in Rank, NEW cta \in Cta, Move(r, cta) PROVE IInv'
<1> USE DEF Move, barriers, watchdog
<1>1. FunctionsOK'
  BY DEF IInv, FunctionsOK
<1>2. \A q \in Rank : running'[q] # {} => InKernel(q)
  BY DEF IInv, KernelOK
<1> QED BY <1>1, <1>2, QuietStep

\* Nor do spinning and trapping.
LEMMA WatchdogOK ==
    ASSUME IInv, NEW r \in Rank, NEW ch \in Channel, Spin(r, ch) \/ Trap(r, ch)
    PROVE  IInv'
<1> USE DEF kernels, barriers
<1>1. FunctionsOK'
  <2>1. CASE Spin(r, ch)
    BY <2>1 DEF Spin, IInv, FunctionsOK
  <2>2. CASE Trap(r, ch)
    BY <2>2 DEF Trap, IInv, FunctionsOK
  <2> QED BY <2>1, <2>2
<1> USE DEF Spin, Trap
<1>2. \A q \in Rank : running'[q] # {} => InKernel(q)
  BY DEF IInv, KernelOK
<1> QED BY <1>1, <1>2, QuietStep

\* Nor does standing still.
LEMMA StutterOK == ASSUME IInv, UNCHANGED vars PROVE IInv'
<1> USE DEF vars, kernels, barriers, watchdog
<1>1. FunctionsOK'
  BY DEF IInv, FunctionsOK
<1>2. \A q \in Rank : running'[q] # {} => InKernel(q)
  BY DEF IInv, KernelOK
<1> QED BY <1>1, <1>2, QuietStep

\* A CTA that runs has a chunk to do, and the chunk has a cell.
LEMMA RunsFacts ==
    ASSUME IInv, NEW r \in Rank, NEW cta \in Cta, Runs(r, cta)
    PROVE  /\ InKernel(r) /\ chunk[r][cta] \in Nat
           /\ chunk[r][cta] < Chunks(Current(r), cta[2])
           /\ chunk[r][cta] \in 0 .. MaxChunks - 1
<1>1. InKernel(r) /\ chunk[r][cta] # Chunks(Current(r), cta[2])
  BY DEF Runs, Finished
<1>2. cta[2] \in Channel
  BY DEF Cta
<1>3. /\ Chunks(Current(r), cta[2]) \in Nat /\ Chunks(Current(r), cta[2]) < MaxChunks
  BY <1>1, <1>2, KernelFacts DEF IInv
<1>4. chunk[r][cta] \in Nat
  BY DEF IInv, FunctionsOK
<1>5. chunk[r][cta] # 0 => chunk[r][cta] <= Chunks(Current(r), cta[2])
  BY DEF IInv, KernelOK
<1>6. MaxChunks \in Int
  BY CallsAssumption DEF MaxChunks
<1> QED BY <1>1, <1>3, <1>4, <1>5, <1>6

\* The value of a chunk is not that of an unwritten cell, and is its call's own.
LEMMA ValueFacts ==
    ASSUME workload \in Workloads, NEW k \in 0 .. MaxChunks - 1,
           NEW q \in Rank, NEW m \in 1 .. Len(workload[q])
    PROVE  /\ Value(q, m, k) # 0 /\ Value(q, m, k) \in Step
           /\ \A r \in Rank : \A n \in 1 .. Len(workload[r]) :
                 Value(r, n, k) = Value(q, m, k) => SameCall(workload, r, n, q, m)
<1> DEFINE Group0(r, n) == workload[r][n].group
           Base(r, n) == StepBase[Group0(r, n)][Ordinal(workload[r], n)]
<1>1. ASSUME NEW r \in Rank, NEW n \in 1 .. Len(workload[r])
      PROVE  /\ Group0(r, n) \in Group
             /\ Ordinal(workload[r], n) \in DOMAIN StepBase[Group0(r, n)]
             /\ Value(r, n, k) \in Window(Base(r, n))
  <2>1. Value(r, n, k) \in Window(Base(r, n))
    BY DEF Value, Window
  <2> QED BY <2>1, CallFacts
<1>2. 0 \notin Window(Base(q, m))
  BY <1>1, StepBaseAssumption
<1>3. Value(q, m, k) \in Step
  <2>1. Base(q, m) \in Step
    <3>1. StepBase[Group0(q, m)] \in Seq(Step)
      BY <1>1, CallsAssumption
    <3> QED BY <3>1, <1>1
  <2> DEFINE b == Base(q, m)
             w == 2 ^ Width
  <2>2. b \in Nat /\ k \in Nat /\ w \in Nat \ {0}
    BY <2>1, WidthAssumption, CallsAssumption DEF Step, MaxChunks
  <2>3. Value(q, m, k) = (b + k + 1) % w
    BY DEF Value
  <2> HIDE DEF b, w
  <2>4. (b + k + 1) % w \in 0 .. w - 1
    BY <2>2
  <2> QED BY <2>3, <2>4 DEF Step, w
<1>4. ASSUME NEW r \in Rank, NEW n \in 1 .. Len(workload[r]), Value(r, n, k) = Value(q, m, k)
      PROVE  SameCall(workload, r, n, q, m)
  <2>1. Value(r, n, k) \in Window(Base(r, n)) \cap Window(Base(q, m))
    BY <1>1, <1>4
  <2>2. <<Group0(r, n), Ordinal(workload[r], n)>> = <<Group0(q, m), Ordinal(workload[q], m)>>
    <3> DEFINE g == Group0(r, n)
               h == Group0(q, m)
               i == Ordinal(workload[r], n)
               j == Ordinal(workload[q], m)
    <3>1. g \in Group /\ h \in Group /\ i \in DOMAIN StepBase[g] /\ j \in DOMAIN StepBase[h]
      BY <1>1
    <3>2. Value(r, n, k) \in Window(StepBase[g][i]) \cap Window(StepBase[h][j])
      BY <2>1
    <3> HIDE DEF g, h, i, j
    <3>3. <<g, i>> # <<h, j>> => Window(StepBase[g][i]) \cap Window(StepBase[h][j]) = {}
      BY <3>1, StepBaseAssumption, Zenon
    <3>4. <<g, i>> = <<h, j>>
      BY <3>2, <3>3, Zenon
    <3> QED BY <3>4 DEF g, h, i, j
  <2> QED BY <2>2 DEF SameCall
<1> QED BY <1>1, <1>2, <1>3, <1>4

\* A satisfied spin has seen every peer publish this chunk of this call.
LEMMA SeenPublished ==
    ASSUME IInv, NEW r \in Rank, NEW ch \in Channel,
           Runs(r, Receiver(ch)), SeenByAllLanes(r, ch)
    PROVE  Sees(r, ch)
<1> DEFINE k == chunk[r][Receiver(ch)]
<1>1. InKernel(r) /\ k \in 0 .. MaxChunks - 1
  BY CtaType, RunsFacts
<1>2. /\ CallAt(r) \in 1 .. Len(workload[r]) /\ Others(r) \subseteq Rank
  BY <1>1, KernelFacts DEF IInv
<1>3. ASSUME NEW q \in Others(r)
      PROVE  \E m \in 1 .. submitted[q] :
                SameCall(workload, r, CallAt(r), q, m) /\ Published(q, m, ch, k, r)
  <2>1. step_pad[r][ch][k][q] = Value(r, CallAt(r), k)
    BY <1>3 DEF SeenByAllLanes, Seen, StepOf, Value, Current
  <2>2. q \in Rank /\ Value(r, CallAt(r), k) # 0
    BY <1>1, <1>2, ValueFacts DEF IInv
  <2>3. PICK m \in 1 .. submitted[q] :
           step_pad[r][ch][k][q] = Value(q, m, k) /\ Published(q, m, ch, k, r)
    BY <1>1, <2>1, <2>2 DEF IInv, CellsOK
  <2>4. m \in 1 .. Len(workload[q])
    <3>1. /\ submitted[q] \in Nat /\ Len(workload[q]) \in Nat /\ submitted[q] <= Len(workload[q])
      BY <2>2, CallFacts DEF IInv, FunctionsOK, StreamOK
    <3> QED BY <3>1
  <2>5. SameCall(workload, r, CallAt(r), q, m)
    BY <1>1, <1>2, <2>1, <2>2, <2>3, <2>4, ValueFacts DEF IInv
  <2> QED BY <2>3, <2>5
<1> QED BY <1>3 DEF Sees

\* A receiver sees a cell's value: by StepBaseAssumption, that of this call and
\* chunk, so its peer has published it.
LEMMA SeeOK == ASSUME IInv, NEW r \in Rank, NEW ch \in Channel, See(r, ch) PROVE IInv'
<1> USE DEF See
<1>0. Receiver(ch) \in Cta /\ Receiver(ch)[2] = ch /\ \A h \in Channel : Sender(h) # Receiver(ch)
  BY DEF Sender, Receiver, Cta
<1>1. InKernel(r) /\ chunk[r][Receiver(ch)] < Chunks(Current(r), ch)
  BY <1>0, RunsFacts
<1>2. Others(r) \subseteq Rank
  BY <1>1, KernelFacts DEF IInv
<1>3. FunctionsOK'
  <2>1. lanes' \in [Rank -> [Cta -> SUBSET Rank]]
    BY <1>0, <1>2 DEF IInv, FunctionsOK
  <2>2. spinning' \in [Rank -> SUBSET Channel]
    BY DEF IInv, FunctionsOK
  <2> QED BY <2>1, <2>2 DEF IInv, FunctionsOK, barriers
<1>4. /\ workload' \in Workloads /\ num_sms' \in Sms
      /\ StreamOK' /\ EpochsOK' /\ JoinedOK'
      /\ \A q \in Rank :
            /\ InKernel(q)' <=> InKernel(q)
            /\ CallAt(q)' = CallAt(q) /\ Current(q)' = Current(q) /\ Others(q)' = Others(q)
  BY Unmoved
<1>5. /\ \A q \in Rank, cta \in Cta :
            lanes'[q][cta] = IF q = r /\ cta = Receiver(ch) THEN Others(r) ELSE lanes[q][cta]
      /\ chunk' = chunk /\ running' = running /\ step_pad' = step_pad /\ done' = done
  BY DEF IInv, FunctionsOK
<1>6. Steady
  <2>1. \A q \in Rank : submitted[q] <= submitted'[q]
    BY DEF IInv, FunctionsOK
  <2>2. ASSUME NEW q \in Rank PROVE Advances(q)
    BY <1>0, <1>5, CtaType DEF Advances
  <2> QED BY <1>3, <2>1, <2>2 DEF Steady, IInv
<1>7. CellsOK'
  BY <1>5, <1>6, CellsStay DEF IInv
<1>8. KernelOK'
  BY <1>0, <1>1, <1>4, <1>5 DEF KernelOK, IInv
<1>9. SeenOK'
  <2> SUFFICES ASSUME NEW q \in Rank, NEW h \in Channel,
                      InKernel(q)', lanes'[q][Receiver(h)] = Others(q)'
               PROVE  Sees(q, h)'
    BY DEF SeenOK, Sees
  <2>1. InKernel(q) /\ Others(q) \subseteq Rank
    BY <1>4, KernelFacts DEF IInv
  <2>2. Sees(q, h)
    <3>1. CASE q = r /\ h = ch
      BY <3>1, SeenPublished
    <3>2. CASE ~ (q = r /\ h = ch)
      <4>1. lanes[q][Receiver(h)] = Others(q)
        BY <1>4, <1>5, <3>2, CtaType DEF Receiver
      <4> QED BY <2>1, <4>1 DEF SeenOK, Sees, IInv
    <3> QED BY <3>1, <3>2
  <2> QED BY <1>5, <1>6, <2>1, <2>2, SeenStays
<1> QED BY <1>3, <1>4, <1>7, <1>8, <1>9 DEF IInv

Cell == 0 .. MaxChunks - 1

\* A sender publishes the chunk it is at, in a cell that held an older call's.
LEMMA PublishOK ==
    ASSUME IInv, NEW r \in Rank, NEW ch \in Channel, NEW p \in Rank, Publish(r, ch, p)
    PROVE  IInv'
<1> USE DEF Publish
<1> DEFINE k == chunk[r][Sender(ch)]
           v == Value(r, CallAt(r), k)
<1>0. /\ Sender(ch) \in Cta /\ Sender(ch)[2] = ch
      /\ \A h \in Channel : Receiver(h) # Sender(ch) /\ (Sender(h) = Sender(ch) => h = ch)
  BY DEF Sender, Receiver, Cta
<1>1. InKernel(r) /\ k \in Nat /\ k < Chunks(Current(r), ch) /\ k \in 0 .. MaxChunks - 1
  BY <1>0, RunsFacts
<1>2. /\ Others(r) \subseteq Rank /\ done[r] = 3 * CallAt(r) - 2
      /\ CallAt(r) \in 1 .. submitted[r] /\ CallAt(r) \in 1 .. Len(workload[r])
  BY <1>1, KernelFacts DEF IInv
<1>3. v \in Step
  BY <1>1, <1>2, ValueFacts DEF IInv
<1>4. StepOf(r, k) = v
  BY DEF StepOf, Value, Current
<1>p. /\ step_pad' \in [Rank -> [Channel -> [0 .. MaxChunks - 1 -> [Rank -> Step]]]]
      /\ \A q \in Rank, h \in Channel, j \in 0 .. MaxChunks - 1, o \in Rank :
            step_pad'[q][h][j][o] =
               IF q = p /\ h = ch /\ j = k /\ o = r THEN v ELSE step_pad[q][h][j][o]
  <2>1. step_pad' = [step_pad EXCEPT ![p][ch][k][r] = v]
    BY <1>4
  <2>3. k \in 0 .. MaxChunks - 1
    BY <1>1
  <2>4. FunctionsOK /\ k \in Cell /\ v \in Step
    BY <1>3, <2>3 DEF Cell, IInv
  <2> HIDE DEF k, v
  <2>5. /\ step_pad' \in [Rank -> [Channel -> [Cell -> [Rank -> Step]]]]
        /\ \A x \in Rank, y \in Channel, z \in Cell, w \in Rank :
              step_pad'[x][y][z][w] =
                 IF x = p /\ y = ch /\ z = k /\ w = r THEN v ELSE step_pad[x][y][z][w]
    <3>1. PICK i \in Cell, u \in Step : i = k /\ u = v
      BY <2>4
    <3>2. step_pad' = [step_pad EXCEPT ![p][ch][i][r] = u]
      BY <2>1, <3>1
    <3>3. /\ step_pad' \in [Rank -> [Channel -> [Cell -> [Rank -> Step]]]]
          /\ \A x \in Rank, y \in Channel, z \in Cell, w \in Rank :
                step_pad'[x][y][z][w] =
                   IF x = p /\ y = ch /\ z = i /\ w = r THEN u ELSE step_pad[x][y][z][w]
      <4> HIDE DEF Publish
      <4> DEFINE f3 == [step_pad[p][ch][i] EXCEPT ![r] = u]
                 f2 == [step_pad[p][ch] EXCEPT ![i] = f3]
                 f1 == [step_pad[p] EXCEPT ![ch] = f2]
      <4>0. step_pad \in [Rank -> [Channel -> [Cell -> [Rank -> Step]]]]
        BY <2>4 DEF FunctionsOK, Cell
      <4>1. /\ step_pad[p] \in [Channel -> [Cell -> [Rank -> Step]]]
            /\ step_pad[p][ch] \in [Cell -> [Rank -> Step]]
            /\ step_pad[p][ch][i] \in [Rank -> Step]
        BY <4>0
      <4>2. f3 \in [Rank -> Step] /\ \A w \in Rank : f3[w] = IF w = r THEN u ELSE step_pad[p][ch][i][w]
        BY <4>1
      <4>3. step_pad' = [step_pad EXCEPT ![p] = f1]
        BY <3>2
      <4> HIDE DEF f3
      <4>4. f2 \in [Cell -> [Rank -> Step]] /\ \A z \in Cell : f2[z] = IF z = i THEN f3 ELSE step_pad[p][ch][z]
        BY <4>1, <4>2
      <4> HIDE DEF f2
      <4>5. /\ f1 \in [Channel -> [Cell -> [Rank -> Step]]]
            /\ \A y \in Channel : f1[y] = IF y = ch THEN f2 ELSE step_pad[p][y]
        BY <4>1, <4>4
      <4> HIDE DEF f1
      <4>6. /\ step_pad' \in [Rank -> [Channel -> [Cell -> [Rank -> Step]]]]
            /\ \A x \in Rank : step_pad'[x] = IF x = p THEN f1 ELSE step_pad[x]
        BY <4>0, <4>3, <4>5
      <4> QED BY <4>2, <4>4, <4>5, <4>6
    <3> QED BY <3>1, <3>3
  <2> QED BY <2>5 DEF Cell
<1>5. FunctionsOK'
  <2>1. lanes' \in [Rank -> [Cta -> SUBSET Rank]]
    <3>1. lanes \in [Rank -> [Cta -> SUBSET Rank]] /\ Sender(ch) \in Cta
      BY DEF IInv, FunctionsOK, Sender, Cta
    <3>2. lanes[r][Sender(ch)] \cup {p} \in SUBSET Rank
      BY <3>1
    <3> QED BY <1>0, <3>1, <3>2
  <2>2. step_pad' \in [Rank -> [Channel -> [0 .. MaxChunks - 1 -> [Rank -> Step]]]]
    BY <1>p
  <2> QED BY <2>1, <2>2 DEF IInv, FunctionsOK, barriers, watchdog
<1>6. /\ workload' \in Workloads /\ num_sms' \in Sms
      /\ StreamOK' /\ EpochsOK' /\ JoinedOK'
      /\ \A q \in Rank :
            /\ InKernel(q)' <=> InKernel(q)
            /\ CallAt(q)' = CallAt(q) /\ Current(q)' = Current(q) /\ Others(q)' = Others(q)
  BY Unmoved
<1>7. /\ \A q \in Rank, cta \in Cta :
            lanes'[q][cta] =
               IF q = r /\ cta = Sender(ch) THEN lanes[r][Sender(ch)] \cup {p} ELSE lanes[q][cta]
      /\ chunk' = chunk /\ running' = running /\ done' = done /\ submitted' = submitted
      /\ workload' = workload
  BY <1>0 DEF IInv, FunctionsOK
<1>8. \A q \in Rank, h \in Channel, j \in 0 .. MaxChunks - 1, o \in Rank :
         step_pad'[q][h][j][o] =
            IF q = p /\ h = ch /\ j = k /\ o = r THEN v ELSE step_pad[q][h][j][o]
  BY <1>p
<1>9. Steady
  <2>1. \A q \in Rank : submitted[q] <= submitted'[q]
    BY <1>7 DEF IInv, FunctionsOK
  <2>2. ASSUME NEW q \in Rank PROVE Advances(q)
    BY <1>0, <1>7, CtaType DEF Advances
  <2> QED BY <1>5, <2>1, <2>2, <1>7 DEF Steady, IInv
<1>10. CellsOK'
  <2> SUFFICES ASSUME NEW q \in Rank, NEW o \in Rank, NEW h \in Channel,
                      NEW j \in 0 .. MaxChunks - 1, step_pad'[q][h][j][o] # 0
               PROVE  \E m \in 1 .. submitted'[o] :
                         step_pad'[q][h][j][o] = Value(o, m, j)' /\ Published(o, m, h, j, q)'
    BY DEF CellsOK
  <2>1. \A n, i : Value(o, n, i)' = Value(o, n, i)
    BY <1>7 DEF Value
  <2>2. CASE q = p /\ h = ch /\ j = k /\ o = r
    <3>1. Published(r, CallAt(r), ch, k, p)'
      <4>1. CallAt(r)' = CallAt(r) /\ done'[r] = 3 * CallAt(r) - 2
        BY <1>2, <1>6, <1>7
      <4>2. chunk'[r][Sender(ch)] = k /\ p \in lanes'[r][Sender(ch)]
        BY <1>0, <1>7
      <4> QED BY <1>7, <4>1, <4>2 DEF Published
    <3>2. step_pad'[q][h][j][o] = Value(r, CallAt(r), k)
      BY <1>8, <2>2, SMTT(20)
    <3>3. CallAt(r) \in 1 .. submitted'[r]
      BY <1>2, <1>7
    <3>4. CallAt(r)' = CallAt(r) /\ chunk' = chunk
      BY <1>6, <1>7
    <3> QED BY <2>1, <2>2, <3>1, <3>2, <3>3, <3>4
  <2>3. CASE ~ (q = p /\ h = ch /\ j = k /\ o = r)
    <3>1. step_pad'[q][h][j][o] = step_pad[q][h][j][o]
      <4>1. step_pad'[q][h][j][o] =
               IF q = p /\ h = ch /\ j = k /\ o = r THEN v ELSE step_pad[q][h][j][o]
        BY <1>8, ZenonT(40)
      <4> QED BY <2>3, <4>1, Zenon
    <3>2. PICK m \in 1 .. submitted[o] :
             step_pad[q][h][j][o] = Value(o, m, j) /\ Published(o, m, h, j, q)
      BY <3>1 DEF IInv, CellsOK
    <3>3. m \in Nat /\ j \in Nat
      BY DEF MaxChunks
    <3>4. Published(o, m, h, j, q)'
      BY <1>9, <3>2, <3>3, PublishedStays DEF Steady
    <3> QED BY <1>7, <2>1, <3>1, <3>2, <3>4
  <2> QED BY <2>2, <2>3
<1>11. KernelOK'
  BY <1>0, <1>1, <1>6, <1>7 DEF KernelOK, IInv
<1>12. SeenOK'
  <2> SUFFICES ASSUME NEW q \in Rank, NEW h \in Channel,
                      InKernel(q)', lanes'[q][Receiver(h)] = Others(q)'
               PROVE  Sees(q, h)'
    BY DEF SeenOK, Sees
  <2>1. InKernel(q) /\ Others(q) \subseteq Rank
    BY <1>6, KernelFacts DEF IInv
  <2>2. lanes[q][Receiver(h)] = Others(q)
    BY <1>0, <1>6, <1>7, CtaType
  <2>3. Sees(q, h)
    BY <2>1, <2>2 DEF SeenOK, Sees, IInv
  <2> QED BY <1>7, <1>9, <2>1, <2>3, SeenStays
<1> QED BY <1>5, <1>6, <1>10, <1>11, <1>12 DEF IInv

\* A CTA with all its lanes served goes on to the next chunk.
LEMMA EndChunkOK ==
    ASSUME IInv, NEW r \in Rank, NEW cta \in Cta, EndChunk(r, cta)
    PROVE  IInv'
<1> USE DEF EndChunk
<1>1. InKernel(r) /\ chunk[r][cta] \in Nat /\ chunk[r][cta] < Chunks(Current(r), cta[2])
  BY RunsFacts
<1>2. Chunks(Current(r), cta[2]) \in Nat
  BY <1>1, KernelFacts DEF IInv, Cta
<1>3. FunctionsOK'
  <2>1. lanes' \in [Rank -> [Cta -> SUBSET Rank]]
    BY DEF IInv, FunctionsOK
  <2>2. chunk' \in [Rank -> [Cta -> Nat]]
    BY <1>1 DEF IInv, FunctionsOK
  <2> QED BY <2>1, <2>2 DEF IInv, FunctionsOK, barriers, watchdog
<1>4. /\ workload' \in Workloads /\ num_sms' \in Sms
      /\ StreamOK' /\ EpochsOK' /\ JoinedOK'
      /\ \A q \in Rank :
            /\ InKernel(q)' <=> InKernel(q)
            /\ CallAt(q)' = CallAt(q) /\ Current(q)' = Current(q) /\ Others(q)' = Others(q)
  BY Unmoved
<1>5. /\ \A q \in Rank, c \in Cta :
            /\ lanes'[q][c] = IF q = r /\ c = cta THEN {} ELSE lanes[q][c]
            /\ chunk'[q][c] = IF q = r /\ c = cta THEN chunk[r][cta] + 1 ELSE chunk[q][c]
      /\ running' = running /\ done' = done /\ submitted' = submitted
      /\ workload' = workload /\ step_pad' = step_pad
  BY DEF IInv, FunctionsOK
<1>6. Steady
  <2>1. \A q \in Rank : submitted[q] <= submitted'[q]
    BY <1>5 DEF IInv, FunctionsOK
  <2>2. ASSUME NEW q \in Rank PROVE Advances(q)
    BY <1>1, <1>5, CtaType DEF Advances
  <2> QED BY <1>3, <2>1, <2>2, <1>5 DEF Steady, IInv
<1>7. CellsOK'
  BY <1>5, <1>6, CellsStay DEF IInv
<1>8. KernelOK'
  BY <1>1, <1>2, <1>4, <1>5 DEF KernelOK, IInv
<1>9. SeenOK'
  <2> SUFFICES ASSUME NEW q \in Rank, NEW h \in Channel,
                      InKernel(q)', lanes'[q][Receiver(h)] = Others(q)'
               PROVE  Sees(q, h)'
    BY DEF SeenOK, Sees
  <2>1. InKernel(q) /\ Others(q) \subseteq Rank
    BY <1>4, KernelFacts DEF IInv
  <2>2. CASE q = r /\ cta = Receiver(h)
    BY <1>4, <1>5, <2>2 DEF Sees
  <2>3. CASE ~ (q = r /\ cta = Receiver(h))
    <3>1. lanes[q][Receiver(h)] = Others(q) /\ chunk'[q][Receiver(h)] = chunk[q][Receiver(h)]
      BY <1>4, <1>5, <2>3, CtaType
    <3>2. Sees(q, h)
      BY <2>1, <3>1 DEF SeenOK, Sees, IInv
    <3> QED BY <1>5, <1>6, <2>1, <3>1, <3>2, SeenStays
  <2> QED BY <2>2, <2>3
<1> QED BY <1>3, <1>4, <1>7, <1>8, <1>9 DEF IInv

\* All CTAs have finished, so every chunk has been published to everybody.
LEMMA RetireOK == ASSUME IInv, NEW r \in Rank, Retire(r) PROVE IInv'
<1> USE DEF Retire
<1>1. InKernel(r) /\ done[r] = 3 * CallAt(r) - 2 /\ CallAt(r) \in 1 .. submitted[r]
  BY KernelFacts DEF IInv
<1>2. FunctionsOK'
  <2>1. done' \in [Rank -> Nat] /\ running' \in [Rank -> SUBSET Cta] /\ chunk' \in [Rank -> [Cta -> Nat]]
    BY DEF IInv, FunctionsOK
  <2> QED BY <2>1 DEF IInv, FunctionsOK, barriers, watchdog
<1>3. /\ workload' = workload /\ num_sms' = num_sms /\ submitted' = submitted /\ lanes' = lanes
      /\ step_pad' = step_pad /\ schedule' = schedule /\ arrived' = arrived /\ departed' = departed
      /\ done'[r] = done[r] + 1 /\ \A q \in Rank \ {r} : done'[q] = done[q]
      /\ running'[r] = {} /\ \A q \in Rank \ {r} : running'[q] = running[q]
      /\ \A cta \in Cta : chunk'[r][cta] = 0
      /\ \A q \in Rank \ {r} : chunk'[q] = chunk[q]
  BY DEF IInv, FunctionsOK, barriers
<1>4. EpochsOK' /\ JoinedOK'
  BY <1>3 DEF IInv, EpochsOK, JoinedOK, Joins
<1>5. StreamOK'
  <2>1. done[r] \in Nat /\ submitted[r] \in Nat /\ done'[r] <= 3 * submitted[r]
    BY <1>1, <1>3 DEF IInv, FunctionsOK
  <2>2. done[r] % 3 = 1
    BY <1>1, StreamFacts DEF IInv
  <2>3. Barred(done'[r]) = Barred(done[r]) /\ done'[r] % 3 = 2
    BY <1>3, <2>1, <2>2, Threes DEF Barred
  <2> QED BY <1>3, <2>1, <2>3 DEF IInv, StreamOK
<1>6. Steady
  <2>1. \A q \in Rank : submitted[q] <= submitted'[q]
    BY <1>3 DEF IInv, FunctionsOK
  <2>2. \A q \in Rank : Advances(q)
    BY <1>3 DEF Advances
  <2> QED BY <1>2, <1>3, <2>1, <2>2 DEF Steady, IInv
<1>7. CellsOK'
  BY <1>3, <1>6, CellsStay DEF IInv
<1>8. \A q \in Rank \ {r} :
         /\ InKernel(q)' <=> InKernel(q)
         /\ CallAt(q)' = CallAt(q) /\ Current(q)' = Current(q) /\ Others(q)' = Others(q)
  BY <1>3 DEF InKernel, InOp, CallAt, Current, Others
<1>9. ASSUME NEW cta \in Cta PROVE lanes[r][cta] = {}
  <2>1. chunk[r][cta] \in Nat /\ chunk[r][cta] = Chunks(Current(r), cta[2])
    BY DEF IInv, FunctionsOK, Finished
  <2>2. ~ chunk[r][cta] < Chunks(Current(r), cta[2])
    BY <2>1
  <2> QED BY <2>2 DEF IInv, KernelOK
<1>10. ~ InKernel(r)'
  <2>1. done[r] \in Nat /\ done[r] % 3 = 1
    BY <1>1, StreamFacts DEF IInv
  <2>2. done'[r] % 3 = 2
    BY <1>3, <2>1, Threes
  <2> QED BY <2>2, Ops DEF InKernel, InOp
<1>11. KernelOK'
  <2>1. ASSUME NEW q \in Rank \ {r}
        PROVE  /\ running'[q] # {} => InKernel(q)'
               /\ \A cta \in Cta :
                     /\ chunk'[q][cta] # 0 => InKernel(q)' /\ chunk'[q][cta] <= Chunks(Current(q), cta[2])'
                     /\ lanes'[q][cta] # {} =>
                           /\ InKernel(q)' /\ chunk'[q][cta] < Chunks(Current(q), cta[2])'
                           /\ lanes'[q][cta] \subseteq Others(q)'
    BY <1>3, <1>8 DEF IInv, KernelOK
  <2> QED BY <1>3, <1>9, <2>1 DEF KernelOK
<1>12. SeenOK'
  <2> SUFFICES ASSUME NEW q \in Rank, NEW h \in Channel,
                      InKernel(q)', lanes'[q][Receiver(h)] = Others(q)'
               PROVE  Sees(q, h)'
    BY DEF SeenOK, Sees
  <2>1. q # r
    BY <1>10
  <2>2. InKernel(q) /\ Others(q) \subseteq Rank /\ Sees(q, h)
    BY <1>3, <1>8, <2>1, KernelFacts DEF IInv, SeenOK, Sees
  <2> QED BY <1>3, <1>6, <2>1, <2>2, SeenStays
<1> QED BY <1>2, <1>3, <1>4, <1>5, <1>7, <1>11, <1>12 DEF IInv

-----------------------------------------------------------------------------
(* The steps of a stream outside its kernels.                              *)

\* They leave the kernels as they are; only a stream in front of a barrier goes
\* on, and its CTAs have nothing in hand then.
LEMMA StreamStep ==
    ASSUME IInv, FunctionsOK', UNCHANGED <<workload, num_sms, kernels, step_pad>>,
           \A q \in Rank : submitted[q] <= submitted'[q],
           \A q \in Rank : done'[q] = done[q] \/ (InOp(q, {0, 2}) /\ done'[q] = done[q] + 1)
    PROVE  KernelOK' /\ CellsOK' /\ SeenOK'
<1>1. Steady
  BY DEF Steady, IInv, Advances, kernels
<1>2. CellsOK'
  BY <1>1, CellsStay DEF IInv
<1>3. ASSUME NEW q \in Rank, done'[q] = done[q], InKernel(q) \/ InKernel(q)'
      PROVE  /\ InKernel(q) /\ InKernel(q)'
             /\ CallAt(q)' = CallAt(q) /\ Current(q)' = Current(q) /\ Others(q)' = Others(q)
  <2>1. CallAt(q)' = CallAt(q) /\ Current(q)' = Current(q) /\ Others(q)' = Others(q)
    BY <1>3 DEF CallAt, Current, Others
  <2>2. /\ InKernel(q) <=> CallAt(q) <= submitted[q] /\ done[q] % 3 = 1
        /\ CallAt(q) > submitted[q] => done[q] = 3 * submitted[q]
        /\ CallAt(q) \in Nat /\ submitted[q] \in Nat
    BY StreamFacts DEF IInv
  <2>3. InKernel(q)' <=> CallAt(q) <= submitted'[q] /\ done[q] % 3 = 1
    BY <1>3, <2>1, Ops DEF InKernel, InOp
  <2>4. (3 * submitted[q]) % 3 = 0
    BY <2>2
  <2>5. submitted'[q] \in Nat /\ submitted[q] <= submitted'[q]
    BY DEF FunctionsOK
  <2> QED BY <1>3, <2>1, <2>2, <2>3, <2>4, <2>5
<1>4. ASSUME NEW q \in Rank, done'[q] # done[q]
      PROVE  running[q] = {} /\ \A cta \in Cta : chunk[q][cta] = 0 /\ lanes[q][cta] = {}
  <2>1. ~ InKernel(q)
    BY <1>4, StreamFacts DEF IInv
  <2> QED BY <2>1 DEF IInv, KernelOK
<1>5. KernelOK'
  <2> SUFFICES ASSUME NEW q \in Rank
               PROVE  /\ running[q] # {} => InKernel(q)'
                      /\ \A cta \in Cta :
                            /\ chunk[q][cta] # 0 =>
                                  InKernel(q)' /\ chunk[q][cta] <= Chunks(Current(q), cta[2])'
                            /\ lanes[q][cta] # {} =>
                                  /\ InKernel(q)' /\ chunk[q][cta] < Chunks(Current(q), cta[2])'
                                  /\ lanes[q][cta] \subseteq Others(q)'
    BY DEF KernelOK, kernels
  <2>1. CASE done'[q] = done[q]
    BY <1>3, <2>1 DEF IInv, KernelOK
  <2>2. CASE done'[q] # done[q]
    BY <1>4, <2>2
  <2> QED BY <2>1, <2>2
<1>6. SeenOK'
  <2> SUFFICES ASSUME NEW q \in Rank, NEW h \in Channel,
                      InKernel(q)', lanes'[q][Receiver(h)] = Others(q)'
               PROVE  Sees(q, h)'
    BY DEF SeenOK, Sees
  <2>1. CASE done'[q] = done[q]
    <3>1. /\ InKernel(q) /\ Others(q)' = Others(q)
          /\ lanes' = lanes /\ chunk' = chunk
      BY <1>3, <2>1 DEF kernels
    <3>2. Others(q) \subseteq Rank /\ Sees(q, h)
      BY <3>1, KernelFacts DEF IInv, SeenOK, Sees
    <3> QED BY <1>1, <2>1, <3>1, <3>2, SeenStays
  <2>2. CASE done'[q] # done[q]
    <3>1. Others(q)' = {}
      BY <1>4, <2>2, CtaType DEF kernels
    <3> QED BY <3>1 DEF Sees
  <2> QED BY <2>1, <2>2
<1> QED BY <1>2, <1>5, <1>6

\* A barrier is entered once it is at the head of the stream.
LEMMA ArriveOK == ASSUME IInv, NEW r \in Rank, Arrive(r) PROVE IInv'
<1> USE DEF Arrive, Barriers!Arrive
<1>1. arrived' \in [Rank -> Nat]
  BY DEF IInv, FunctionsOK
<1>2. FunctionsOK'
  BY <1>1 DEF IInv, FunctionsOK, kernels, watchdog
<1>3. KernelOK' /\ CellsOK' /\ SeenOK'
  <2>1. \A q \in Rank : submitted'[q] = submitted[q] /\ submitted[q] \in Nat
    BY DEF IInv, FunctionsOK
  <2>2. \A q \in Rank : submitted[q] <= submitted'[q]
    BY <2>1
  <2> QED BY <1>2, <2>2, StreamStep
<1>4. /\ \A q \in Rank : arrived'[q] = IF q = r THEN arrived[r] + 1 ELSE arrived[q]
      /\ \A q \in Rank : arrived[q] \in Nat
  BY DEF IInv, FunctionsOK
<1>5. StreamOK'
  <2>1. done[r] % 3 # 1
    BY StreamFacts DEF IInv
  <2>2. departed[r] \in Nat /\ Len(schedule[r]) \in Nat
    BY DEF IInv, FunctionsOK
  <2>3. /\ arrived'[r] = departed[r] + 1 /\ arrived'[r] <= Len(schedule[r])
    BY <1>4, <2>2
  <2> QED BY <1>4, <2>1, <2>3 DEF IInv, StreamOK
<1>6. EpochsOK'
  BY DEF IInv, EpochsOK
<1>7. JoinedOK'
  <2>1. ASSUME NEW q \in Rank, NEW n, NEW p \in Rank, NEW b \in {1, 2}, Joins(q, n, p, b)
        PROVE  Joins(q, n, p, b)'
    <3>1. PICK m \in 1 .. submitted[p] : SameCall(workload, q, n, p, m) /\ 2 * m - 2 + b <= arrived[p]
      BY <2>1 DEF Joins
    <3>2. m \in Int /\ 2 * m - 2 + b \in Int /\ arrived[p] <= arrived'[p] /\ arrived[p] \in Nat /\ arrived'[p] \in Nat
      BY <1>4
    <3>3. 2 * m - 2 + b <= arrived'[p]
      BY <3>1, <3>2
    <3> QED BY <3>1, <3>3 DEF Joins
  <2>2. ASSUME NEW q \in Rank, NEW n \in 1 .. submitted[q], NEW p \in Members[workload[q][n].group]
        PROVE  p \in Rank
    <3>1. n \in 1 .. Len(workload[q])
      <4>1. /\ submitted[q] \in Nat /\ Len(workload[q]) \in Nat /\ submitted[q] <= Len(workload[q])
        BY CallFacts DEF IInv, FunctionsOK, StreamOK
      <4> QED BY <4>1
    <3> QED BY <3>1, CallFacts DEF IInv
  <2> QED BY <2>1, <2>2 DEF IInv, JoinedOK
<1> QED BY <1>2, <1>3, <1>5, <1>6, <1>7 DEF IInv

\* The instance of a call's b-th barrier.
LEMMA InstanceAt ==
    ASSUME IInv, NEW r \in Rank, NEW n \in 1 .. submitted[r], NEW b \in {1, 2}
    PROVE  /\ n \in DOMAIN workload[r] /\ Ordinal(workload[r], n) \in Nat
           /\ Members[workload[r][n].group] \in SUBSET Rank
           /\ r \in Members[workload[r][n].group]
           /\ Calendar!BarrierAt(schedule[r], 2 * n - 2 + b) =
                 [group |-> workload[r][n].group, epoch |-> 2 * Ordinal(workload[r], n) - 3 + b]
<1>1. n \in 1 .. Len(workload[r]) /\ DOMAIN workload[r] = 1 .. Len(workload[r]) /\ Len(workload[r]) \in Nat
  <2>1. /\ submitted[r] \in Nat /\ Len(workload[r]) \in Nat /\ submitted[r] <= Len(workload[r])
        /\ workload[r] \in Seq(Call)
    BY CallFacts DEF IInv, FunctionsOK, StreamOK
  <2> QED BY <2>1
<1>2. Ordinal(workload[r], n) \in Nat
  BY <1>1, OrdinalCount
<1> DEFINE g == workload[r][n].group
           k == Ordinal(workload[r], n)
<1>3. /\ Calendar!BarrierAt(schedule[r], 2 * n - 1) = [group |-> g, epoch |-> 2 * k - 2]
      /\ Calendar!BarrierAt(schedule[r], 2 * n) = [group |-> g, epoch |-> 2 * k - 1]
  BY DEF IInv, EpochsOK
<1>4. k \in Nat /\ n \in Nat
  BY <1>2
<1> HIDE DEF g, k
<1>5. CASE b = 1
  <2>1. 2 * n - 2 + b = 2 * n - 1 /\ 2 * k - 3 + b = 2 * k - 2
    BY <1>4, <1>5
  <2> QED BY <1>1, <1>2, <1>3, <2>1, CallFacts DEF g, k, IInv
<1>6. CASE b = 2
  <2>1. 2 * n - 2 + b = 2 * n /\ 2 * k - 3 + b = 2 * k - 1
    BY <1>4, <1>6
  <2> QED BY <1>1, <1>2, <1>3, <2>1, CallFacts DEF g, k, IInv
<1> QED BY <1>5, <1>6

\* A member that is at the instance is in the same barrier of the same call.
LEMMA JoinsAt ==
    ASSUME IInv, NEW r \in Rank, NEW n \in 1 .. submitted[r], NEW b \in {1, 2}, NEW p \in Rank,
           Barriers!At(p, Barriers!BarrierAt(schedule[r], 2 * n - 2 + b))
    PROVE  Joins(r, n, p, b)
<1>1. PICK j \in 1 .. arrived[p] :
         Calendar!BarrierAt(schedule[p], j) = Calendar!BarrierAt(schedule[r], 2 * n - 2 + b)
  BY SameInstance DEF Barriers!At
<1>2. PICK m \in 1 .. submitted[p], c \in {1, 2} : j = 2 * m - 2 + c
  <2>1. /\ submitted[p] \in Nat /\ j <= 2 * submitted[p] /\ j \in Nat \ {0}
    <3>1. submitted[p] \in Nat /\ arrived[p] \in Nat
      BY DEF IInv, FunctionsOK
    <3>2. arrived[p] <= 2 * submitted[p]
      BY DEF IInv, StreamOK
    <3> QED BY <3>1, <3>2
  <2>2. \E m \in 1 .. submitted[p] : j = 2 * m - 1 \/ j = 2 * m
    <3>1. (j + 1) \div 2 \in 1 .. submitted[p]
      BY <2>1
    <3>2. j = 2 * ((j + 1) \div 2) - 1 \/ j = 2 * ((j + 1) \div 2)
      BY <2>1
    <3> QED BY <3>1, <3>2
  <2>3. PICK m \in 1 .. submitted[p] : j = 2 * m - 1 \/ j = 2 * m
    BY <2>2
  <2>4. j = 2 * m - 2 + 1 \/ j = 2 * m - 2 + 2
    BY <2>3
  <2> QED BY <2>4
<1>3. /\ workload[p][m].group = workload[r][n].group
      /\ 2 * Ordinal(workload[p], m) - 3 + c = 2 * Ordinal(workload[r], n) - 3 + b
  <2>1. /\ Calendar!BarrierAt(schedule[p], j) =
              [group |-> workload[p][m].group, epoch |-> 2 * Ordinal(workload[p], m) - 3 + c]
        /\ Calendar!BarrierAt(schedule[r], 2 * n - 2 + b) =
              [group |-> workload[r][n].group, epoch |-> 2 * Ordinal(workload[r], n) - 3 + b]
    BY <1>2, InstanceAt
  <2> QED BY <1>1, <2>1
<1>4. Ordinal(workload[p], m) = Ordinal(workload[r], n) /\ c = b
  <2> DEFINE x == Ordinal(workload[p], m)
             y == Ordinal(workload[r], n)
  <2>1. x \in Nat /\ y \in Nat
    BY InstanceAt
  <2>2. 2 * x - 3 + c = 2 * y - 3 + b
    BY <1>3
  <2> HIDE DEF x, y
  <2>3. c = b
    <3>1. ~ (c = 1 /\ b = 2)
      BY <2>1, <2>2
    <3>2. ~ (c = 2 /\ b = 1)
      BY <2>1, <2>2
    <3> QED BY <3>1, <3>2
  <2>4. x = y
    <3>1. b \in Int
      OBVIOUS
    <3> QED BY <2>1, <2>2, <2>3, <3>1
  <2> QED BY <2>3, <2>4 DEF x, y
<1>5. 2 * m - 2 + b <= arrived[p]
  <2>1. arrived[p] \in Nat
    BY DEF IInv, FunctionsOK
  <2> QED BY <1>2, <1>4, <2>1
<1> QED BY <1>3, <1>4, <1>5 DEF Joins, SameCall

\* A barrier is left once every member has arrived at the same one of the call.
LEMMA DepartOK == ASSUME IInv, NEW r \in Rank, Depart(r) PROVE IInv'
<1> USE DEF Depart, Barriers!Depart
<1> DEFINE n == CallAt(r)
<1>1. /\ submitted[r] \in Nat /\ done[r] \in Nat /\ departed[r] \in Nat /\ arrived[r] \in Nat
      /\ \A q \in Rank : done'[q] = IF q = r THEN done[r] + 1 ELSE done[q]
      /\ \A q \in Rank : departed'[q] = IF q = r THEN departed[r] + 1 ELSE departed[q]
  BY DEF IInv, FunctionsOK
<1>2. FunctionsOK'
  <2>1. done' \in [Rank -> Nat] /\ departed' \in [Rank -> Nat]
    BY DEF IInv, FunctionsOK
  <2> QED BY <2>1 DEF IInv, FunctionsOK, kernels, watchdog
<1>3. KernelOK' /\ CellsOK' /\ SeenOK'
  <2>1. \A q \in Rank : done'[q] = done[q] \/ (InOp(q, {0, 2}) /\ done'[q] = done[q] + 1)
    BY <1>1
  <2>2. \A q \in Rank : submitted[q] <= submitted'[q]
    BY DEF IInv, FunctionsOK
  <2> QED BY <1>2, <2>1, <2>2, StreamStep
<1>4. /\ n \in 1 .. submitted[r] /\ done[r] % 3 \in {0, 2}
      /\ done[r] = 3 * (n - 1) + (done[r] % 3)
      /\ departed[r] = 2 * (n - 1) + (IF done[r] % 3 = 0 THEN 0 ELSE 1)
      /\ arrived[r] = departed[r] + 1
  <2>1. /\ n \in Nat \ {0} /\ n <= submitted[r] /\ done[r] % 3 \in {0, 2}
        /\ done[r] = 3 * (n - 1) + (done[r] % 3)
        /\ departed[r] = 2 * (n - 1) + (IF done[r] % 3 = 0 THEN 0 ELSE 1)
    <3>1. InOp(r, {0, 2})
      OBVIOUS
    <3> HIDE DEF Depart
    <3>2. /\ CallAt(r) \in Nat \ {0} /\ CallAt(r) <= submitted[r]
          /\ done[r] % 3 # 1 /\ done[r] % 3 \in 0 .. 2
          /\ done[r] = 3 * (CallAt(r) - 1) + (done[r] % 3)
          /\ departed[r] = 2 * (CallAt(r) - 1) + (IF done[r] % 3 = 0 THEN 0 ELSE 1)
      BY <3>1, StreamFacts DEF IInv
    <3> QED BY <3>2
  <2>2. arrived[r] = departed[r] + 1
    BY <1>1 DEF IInv, StreamOK
  <2> QED BY <1>1, <2>1, <2>2
<1>5. StreamOK'
  <2>1. done[r] + 1 <= 3 * submitted[r]
    <3>1. done[r] <= 3 * (n - 1) + 2
      BY <1>4
    <3>2. n \in Nat /\ n <= submitted[r]
      BY <1>4
    <3> HIDE DEF n
    <3> QED BY <1>1, <3>1, <3>2
  <2>2. Barred(done[r] + 1) = departed[r] + 1 /\ (done[r] + 1) % 3 # 2
    <3>1. CASE done[r] % 3 = 0
      <4>1. (done[r] + 1) \div 3 = done[r] \div 3 /\ (done[r] + 1) % 3 = 1
        BY <1>1, <3>1, Threes
      <4>2. departed[r] = 2 * (done[r] \div 3)
        BY <1>1, <3>1 DEF IInv, StreamOK, Barred
      <4> QED BY <4>1, <4>2 DEF Barred
    <3>2. CASE done[r] % 3 = 2
      <4>1. (done[r] + 1) \div 3 = (done[r] \div 3) + 1 /\ (done[r] + 1) % 3 = 0
        BY <1>1, <3>2, Threes
      <4>2. departed[r] = 2 * (done[r] \div 3) + 1 /\ done[r] \div 3 \in Nat
        <5>1. done[r] \in Nat /\ departed[r] = Barred(done[r])
          BY <1>1 DEF IInv, StreamOK
        <5>2. done[r] \div 3 \in Nat
          BY <5>1, Threes
        <5> QED BY <3>2, <5>1, <5>2 DEF Barred
      <4> QED BY <4>1, <4>2 DEF Barred
    <3> QED BY <1>4, <3>1, <3>2
  <2>3. ASSUME NEW q \in Rank
        PROVE  /\ submitted[q] <= Len(workload[q])
               /\ done'[q] <= 3 * submitted[q]
               /\ Len(schedule[q]) = 2 * submitted[q]
               /\ departed'[q] = Barred(done'[q])
               /\ arrived[q] \in {departed'[q], departed'[q] + 1}
               /\ arrived[q] <= Len(schedule[q])
               /\ done'[q] % 3 = 1 => arrived[q] = departed'[q]
    <3>1. CASE q = r
      BY <1>1, <1>4, <2>1, <2>2, <3>1 DEF IInv, StreamOK
    <3>2. CASE q # r
      BY <1>1, <3>2 DEF IInv, StreamOK
    <3> QED BY <3>1, <3>2
  <2> QED BY <2>3 DEF StreamOK
<1>6. EpochsOK'
  BY DEF IInv, EpochsOK
<1>7. PICK b \in {1, 2} : arrived[r] = 2 * n - 2 + b
  <2>1. n \in Nat
    BY <1>4
  <2> HIDE DEF n
  <2>2. arrived[r] = 2 * n - 2 + 1 \/ arrived[r] = 2 * n - 2 + 2
    BY <1>1, <1>4, <2>1
  <2> QED BY <2>2
<1>8. ASSUME NEW p \in Members[workload[r][n].group] PROVE Joins(r, n, p, b)
  <2>1. /\ Members[workload[r][n].group] \in SUBSET Rank
        /\ Calendar!BarrierAt(schedule[r], 2 * n - 2 + b) =
              [group |-> workload[r][n].group, epoch |-> 2 * Ordinal(workload[r], n) - 3 + b]
    BY <1>4, InstanceAt
  <2>2. schedule[r][arrived[r]] = workload[r][n].group
    BY <1>7, <2>1 DEF Calendar!BarrierAt
  <2>3. Barriers!At(p, Barriers!BarrierAt(schedule[r], 2 * n - 2 + b))
    BY <1>7, <2>2
  <2> QED BY <1>4, <2>1, <2>3, JoinsAt
<1>9. JoinedOK'
  <2> SUFFICES ASSUME NEW q \in Rank, NEW m \in 1 .. submitted[q], NEW c \in {1, 2},
                      2 * m - 2 + c <= departed'[q],
                      NEW p \in Members[workload[q][m].group]
               PROVE  Joins(q, m, p, c)
    BY DEF JoinedOK, Joins
  <2>1. CASE 2 * m - 2 + c <= departed[q]
    BY <2>1 DEF IInv, JoinedOK
  <2>2. CASE ~ 2 * m - 2 + c <= departed[q]
    <3>1. q = r /\ departed'[q] = arrived[r]
      BY <1>1, <1>4, <2>2
    <3>2. m \in Nat /\ n \in Nat /\ departed[r] \in Nat /\ arrived[r] = departed[r] + 1
      BY <1>1, <1>4
    <3> HIDE DEF n
    <3>3. m = n /\ c = b
      BY <1>7, <2>2, <3>1, <3>2
    <3> QED BY <1>8, <3>1, <3>3 DEF n
  <2> QED BY <2>1, <2>2
<1> QED BY <1>2, <1>3, <1>5, <1>6, <1>9 DEF IInv

\* A call is appended with the epochs that its group's counter has reached.
LEMMA SubmitOK == ASSUME IInv, NEW r \in Rank, Submit(r) PROVE IInv'
<1> USE DEF Submit
<1> DEFINE n == submitted[r] + 1
           s == workload[r]
           g == s[n].group
           d == schedule[r]
           e == d \o CallBarriers(g)
<1>1. /\ submitted[r] \in Nat /\ n \in Nat \ {0} /\ n \in 1 .. Len(s)
      /\ s \in Seq(Call) /\ Len(s) \in Nat /\ DOMAIN s = 1 .. Len(s) /\ g \in Group
      /\ d \in Seq(Group) /\ Len(d) = 2 * submitted[r]
  <2>1. submitted[r] \in Nat /\ s \in Seq(Call) /\ Len(s) \in Nat /\ d \in Seq(Group)
    BY CallFacts DEF IInv, FunctionsOK
  <2>2. n \in 1 .. Len(s)
    BY <2>1
  <2>3. g \in Group
    BY <2>2, CallFacts DEF IInv
  <2> QED BY <2>1, <2>2, <2>3 DEF IInv, StreamOK
<1>2. e \in Seq(Group) /\ Len(e) = Len(d) + 2
  BY <1>1, Doubled
<1>3. /\ \A q \in Rank : submitted'[q] = IF q = r THEN n ELSE submitted[q]
      /\ \A q \in Rank : schedule'[q] = IF q = r THEN e ELSE schedule[q]
      /\ workload' = workload /\ arrived' = arrived /\ departed' = departed
  BY DEF IInv, FunctionsOK
<1>4. FunctionsOK'
  <2>1. submitted' \in [Rank -> Nat]
    BY <1>1 DEF IInv, FunctionsOK
  <2>2. schedule' \in [Rank -> Seq(Group)]
    BY <1>2 DEF IInv, FunctionsOK
  <2> QED BY <2>1, <2>2 DEF IInv, FunctionsOK, kernels, watchdog
<1>5. \A q \in Rank : submitted[q] \in Nat /\ submitted'[q] \in Nat /\ submitted[q] <= submitted'[q]
  BY <1>1, <1>3, SMTT(20) DEF IInv, FunctionsOK
<1>6. KernelOK' /\ CellsOK' /\ SeenOK'
  BY <1>4, <1>5, StreamStep DEF IInv, FunctionsOK
<1>7. StreamOK'
  <2>1. /\ n <= Len(s) /\ Len(e) = 2 * n /\ done[r] <= 3 * n /\ arrived[r] <= Len(e)
    <3>1. /\ done[r] \in Nat /\ arrived[r] \in Nat /\ done[r] <= 3 * submitted[r] /\ arrived[r] <= Len(d)
      BY DEF IInv, FunctionsOK, StreamOK
    <3>2. submitted[r] \in Nat /\ n = submitted[r] + 1 /\ n <= Len(s)
          /\ Len(d) = 2 * submitted[r] /\ Len(e) = Len(d) + 2
      BY <1>1, <1>2
    <3> DEFINE i == submitted[r]
               j == Len(d)
               k == Len(e)
    <3>3. /\ i \in Nat /\ n = i + 1 /\ n <= Len(s) /\ j = 2 * i /\ k = j + 2
          /\ done[r] \in Nat /\ arrived[r] \in Nat /\ done[r] <= 3 * i /\ arrived[r] <= j
      BY <3>1, <3>2
    <3> HIDE DEF n, s, i, j, k, Submit
    <3>4. n <= Len(s) /\ k = 2 * n /\ done[r] <= 3 * n /\ arrived[r] <= k
      BY <3>3
    <3> QED BY <3>4 DEF k
  <2>2. done' = done
    OBVIOUS
  <2>3. ASSUME NEW q \in Rank, q # r
        PROVE  submitted'[q] = submitted[q] /\ schedule'[q] = schedule[q]
    BY <1>3, <2>3
  <2>4. submitted'[r] = n /\ schedule'[r] = e
    BY <1>3
  <2>5. StreamOK
    BY DEF IInv
  <2> HIDE DEF n, e, s, d, Submit
  <2>6. /\ workload' = workload /\ arrived' = arrived /\ departed' = departed
    BY <1>3
  <2> SUFFICES ASSUME NEW q \in Rank
               PROVE  /\ submitted'[q] <= Len(workload[q]) /\ done[q] <= 3 * submitted'[q]
                      /\ Len(schedule'[q]) = 2 * submitted'[q] /\ departed[q] = Barred(done[q])
                      /\ arrived[q] \in {departed[q], departed[q] + 1}
                      /\ arrived[q] <= Len(schedule'[q])
                      /\ done[q] % 3 = 1 => arrived[q] = departed[q]
    BY <2>2, <2>6 DEF StreamOK
  <2>7. CASE q = r
    BY <2>1, <2>4, <2>5, <2>7 DEF StreamOK, s
  <2>8. CASE q # r
    BY <2>3, <2>5, <2>8 DEF StreamOK
  <2> QED BY <2>7, <2>8
<1>8. /\ \A h \in Group :
            Calendar!CountUpTo(Calendar!Calls(e, h), 2 * n) =
               Calendar!CountUpTo(Calendar!Calls(d, h), 2 * submitted[r]) + (IF h = g THEN 2 ELSE 0)
      /\ \A i \in 1 .. 2 * submitted[r] : Calendar!BarrierAt(e, i) = Calendar!BarrierAt(d, i)
      /\ Calendar!BarrierAt(e, 2 * n - 1) =
            [group |-> g, epoch |-> Calendar!CountUpTo(Calendar!Calls(d, g), 2 * submitted[r])]
      /\ Calendar!BarrierAt(e, 2 * n) =
            [group |-> g, epoch |-> Calendar!CountUpTo(Calendar!Calls(d, g), 2 * submitted[r]) + 1]
  <2>1. Len(d) + 2 = 2 * n /\ Len(d) + 1 = 2 * n - 1 /\ Len(d) = 2 * submitted[r]
    BY <1>1
  <2>2. d \in Seq(Group) /\ g \in Group /\ e = d \o CallBarriers(g)
    BY <1>1
  <2> HIDE DEF d, g, e, n
  <2>3. /\ \A h \in Group :
              Calendar!CountUpTo(Calendar!Calls(e, h), Len(d) + 2) =
                 Calendar!CountUpTo(Calendar!Calls(d, h), Len(d)) + (IF h = g THEN 2 ELSE 0)
        /\ \A i \in 1 .. Len(d) : Calendar!BarrierAt(e, i) = Calendar!BarrierAt(d, i)
        /\ Calendar!BarrierAt(e, Len(d) + 1) =
              [group |-> g, epoch |-> Calendar!CountUpTo(Calendar!Calls(d, g), Len(d))]
        /\ Calendar!BarrierAt(e, Len(d) + 2) =
              [group |-> g, epoch |-> Calendar!CountUpTo(Calendar!Calls(d, g), Len(d)) + 1]
    BY <2>2, DoubledInstances
  <2> QED BY <2>1, <2>3
<1>9. /\ n \in On(s, g)
      /\ Calendar!CountUpTo(On(s, g), submitted[r]) \in Nat
      /\ \A h : Calendar!CountUpTo(On(s, h), n) =
                   Calendar!CountUpTo(On(s, h), submitted[r]) + (IF h = g THEN 1 ELSE 0)
      /\ Ordinal(s, n) = Calendar!CountUpTo(On(s, g), submitted[r]) + 1
  <2>1. n \in On(s, g)
    BY <1>1 DEF On
  <2>2. Calendar!CountUpTo(On(s, g), submitted[r]) \in Nat
    BY <1>1, SameCount, CountType
  <2>3. ASSUME NEW h
        PROVE  Calendar!CountUpTo(On(s, h), n) =
                  Calendar!CountUpTo(On(s, h), submitted[r]) + (IF h = g THEN 1 ELSE 0)
    <3>1. n \in On(s, h) <=> h = g
      BY <1>1 DEF On
    <3>2. Calendar!CountUpTo(On(s, h), submitted[r] + 1) =
             Calendar!CountUpTo(On(s, h), submitted[r]) + (IF submitted[r] + 1 \in On(s, h) THEN 1 ELSE 0)
      BY <1>1, SameCount, CountStep
    <3> QED BY <3>1, <3>2
  <2>4. Ordinal(s, n) = Calendar!CountUpTo(On(s, g), n)
    BY <1>1, OrdinalCount
  <2> HIDE DEF n, s, g
  <2> QED BY <2>1, <2>2, <2>3, <2>4
<1>10. EpochsOK'
  <2>1. ASSUME NEW q \in Rank, q # r
        PROVE  /\ \A h \in Group :
                     Calendar!CountUpTo(Calendar!Calls(schedule'[q], h), 2 * submitted'[q])
                        = 2 * Calendar!CountUpTo(On(workload[q], h), submitted'[q])
               /\ \A m \in 1 .. submitted'[q] :
                     LET h == workload[q][m].group
                         k == Ordinal(workload[q], m)
                     IN  /\ Calendar!BarrierAt(schedule'[q], 2 * m - 1) = [group |-> h, epoch |-> 2 * k - 2]
                         /\ Calendar!BarrierAt(schedule'[q], 2 * m) = [group |-> h, epoch |-> 2 * k - 1]
    BY <1>3, <2>1 DEF IInv, EpochsOK
  <2>2. ASSUME NEW h \in Group
        PROVE  Calendar!CountUpTo(Calendar!Calls(e, h), 2 * n) = 2 * Calendar!CountUpTo(On(s, h), n)
    <3>1. /\ Calendar!CountUpTo(Calendar!Calls(d, h), 2 * submitted[r])
                = 2 * Calendar!CountUpTo(On(s, h), submitted[r])
      BY DEF IInv, EpochsOK
    <3>2. Calendar!CountUpTo(On(s, h), submitted[r]) \in Nat
      BY <1>1, SameCount, CountType
    <3> HIDE DEF n, d, e, s, g
    <3> QED BY <1>8, <1>9, <3>1, <3>2
  <2>3. ASSUME NEW m \in 1 .. n
        PROVE  LET h == workload[r][m].group
                   k == Ordinal(workload[r], m)
               IN  /\ Calendar!BarrierAt(e, 2 * m - 1) = [group |-> h, epoch |-> 2 * k - 2]
                   /\ Calendar!BarrierAt(e, 2 * m) = [group |-> h, epoch |-> 2 * k - 1]
    <3>1. CASE m \in 1 .. submitted[r]
      <4>1. 2 * m - 1 \in 1 .. 2 * submitted[r] /\ 2 * m \in 1 .. 2 * submitted[r]
        BY <1>1, <3>1
      <4>2. LET h == workload[r][m].group
                k == Ordinal(workload[r], m)
            IN  /\ Calendar!BarrierAt(d, 2 * m - 1) = [group |-> h, epoch |-> 2 * k - 2]
                /\ Calendar!BarrierAt(d, 2 * m) = [group |-> h, epoch |-> 2 * k - 1]
        BY <3>1 DEF IInv, EpochsOK
      <4> HIDE DEF e, d, n, g
      <4> QED BY <1>8, <4>1, <4>2
    <3>2. CASE m = n
      <4>1. Calendar!CountUpTo(Calendar!Calls(d, g), 2 * submitted[r])
               = 2 * Calendar!CountUpTo(On(s, g), submitted[r])
        BY <1>1 DEF IInv, EpochsOK
      <4> DEFINE k == Ordinal(s, n)
                 c == Calendar!CountUpTo(On(s, g), submitted[r])
      <4>2. c \in Nat /\ k = c + 1
        BY <1>9
      <4>3. workload[r][m].group = g /\ Ordinal(workload[r], m) = k
        BY <3>2
      <4>4. /\ Calendar!BarrierAt(e, 2 * n - 1) = [group |-> g, epoch |-> 2 * c]
            /\ Calendar!BarrierAt(e, 2 * n) = [group |-> g, epoch |-> 2 * c + 1]
        <5> HIDE DEF e, d, n, g, c, k
        <5> QED BY <1>8, <4>1 DEF c
      <4> HIDE DEF e, d, n, g, c, k
      <4>5. 2 * k - 2 = 2 * c /\ 2 * k - 1 = 2 * c + 1
        BY <4>2
      <4> QED BY <3>2, <4>3, <4>4, <4>5
    <3> QED BY <1>1, <3>1, <3>2
  <2> HIDE DEF e, d, n, g, s
  <2>4. schedule'[r] = e /\ submitted'[r] = n
    BY <1>3
  <2> QED BY <1>3, <2>1, <2>2, <2>3, <2>4 DEF EpochsOK, s
<1>11. JoinedOK'
  <2> SUFFICES ASSUME NEW q \in Rank, NEW m \in 1 .. submitted'[q], NEW b \in {1, 2},
                      2 * m - 2 + b <= departed[q], NEW p \in Members[workload[q][m].group]
               PROVE  \E o \in 1 .. submitted'[p] :
                         SameCall(workload, q, m, p, o) /\ 2 * o - 2 + b <= arrived[p]
    <3> HIDE DEF Submit
    <3> QED BY <1>3 DEF JoinedOK, Joins
  <2>1. m \in 1 .. submitted[q]
    <3>1. departed[q] \in Nat /\ arrived[q] \in Nat /\ submitted[q] \in Nat /\ submitted'[q] \in Nat
      BY <1>5 DEF IInv, FunctionsOK
    <3>2. arrived[q] <= 2 * submitted[q] /\ arrived[q] \in {departed[q], departed[q] + 1}
      BY DEF IInv, StreamOK
    <3>3. 2 * m - 1 <= 2 * submitted[q] /\ m \in Nat \ {0}
      BY <3>1, <3>2
    <3> QED BY <3>1, <3>3
  <2>2. PICK o \in 1 .. submitted[p] :
           SameCall(workload, q, m, p, o) /\ 2 * o - 2 + b <= arrived[p]
    BY <2>1 DEF IInv, JoinedOK, Joins
  <2>3. p \in Rank
    BY <2>1, InstanceAt
  <2>4. o \in 1 .. submitted'[p]
    BY <1>5, <2>3
  <2> QED BY <2>2, <2>4
<1> QED BY <1>3, <1>4, <1>6, <1>7, <1>10, <1>11 DEF IInv

-----------------------------------------------------------------------------
(* The theorems.                                                           *)

LEMMA NextOK == IInv /\ [Next]_vars => IInv'
<1> SUFFICES ASSUME IInv, [Next]_vars PROVE IInv'
  OBVIOUS
<1>1. ASSUME NEW r \in Rank, Submit(r) PROVE IInv'
  BY <1>1, SubmitOK
<1>2. ASSUME NEW r \in Rank, Arrive(r) PROVE IInv'
  BY <1>2, ArriveOK
<1>3. ASSUME NEW r \in Rank, Depart(r) PROVE IInv'
  BY <1>3, DepartOK
<1>4. ASSUME NEW r \in Rank, Retire(r) PROVE IInv'
  BY <1>4, RetireOK
<1>5. ASSUME NEW r \in Rank, NEW cta \in Cta, CtaStep(r, cta) PROVE IInv'
  <2>1. \E ch \in Channel : cta = Sender(ch) \/ cta = Receiver(ch)
    BY DEF Cta, Sender, Receiver
  <2>2. cta[2] \in Channel /\ cta = <<cta[1], cta[2]>>
    BY DEF Cta
  <2>3. CASE Start(r, cta)
    BY <2>3, StartOK
  <2>4. CASE Move(r, cta)
    BY <2>4, MoveOK
  <2>5. CASE EndChunk(r, cta)
    BY <2>5, EndChunkOK
  <2>6. CASE See(r, cta[2])
    BY <2>2, <2>6, SeeOK
  <2>7. ASSUME NEW q \in Rank, Publish(r, cta[2], q) PROVE IInv'
    BY <2>2, <2>7, PublishOK
  <2> QED BY <1>5, <2>3, <2>4, <2>5, <2>6, <2>7 DEF CtaStep
<1>6. ASSUME NEW r \in Rank, NEW ch \in Channel, Spin(r, ch) \/ Trap(r, ch) PROVE IInv'
  BY <1>6, WatchdogOK
<1>7. ASSUME UNCHANGED vars PROVE IInv'
  BY <1>7, StutterOK
<1> QED BY <1>1, <1>2, <1>3, <1>4, <1>5, <1>6, <1>7 DEF Next, Quiescent

\* So the invariant holds throughout.
LEMMA Invariant == Spec => []IInv
  BY InitOK, NextOK, PTL DEF Spec

\* It contains the types,
LEMMA IInvTypes == IInv => TypeOK
<1> SUFFICES ASSUME IInv PROVE TypeOK
  OBVIOUS
<1>1. ASSUME NEW r \in Rank
      PROVE  /\ submitted[r] \in 0 .. Len(workload[r])
             /\ done[r] \in 0 .. OpsPerCall * submitted[r]
  <2>1. /\ submitted[r] \in Nat /\ Len(workload[r]) \in Nat /\ done[r] \in Nat
    BY CallFacts DEF IInv, FunctionsOK
  <2>2. submitted[r] <= Len(workload[r]) /\ done[r] <= 3 * submitted[r]
    BY DEF IInv, StreamOK
  <2> QED BY <2>1, <2>2, Ops
<1>2. ASSUME NEW r \in Rank
      PROVE  /\ running[r] \subseteq Cta
             /\ running[r] # {} => InKernel(r)
             /\ \A cta \in Cta :
                   /\ chunk[r][cta] # 0 => InKernel(r) /\ chunk[r][cta] <= Chunks(Current(r), cta[2])
                   /\ lanes[r][cta] # {} => InKernel(r) /\ lanes[r][cta] \subseteq Others(r)
  BY DEF IInv, FunctionsOK, KernelOK
<1>3. /\ spinning \in [Rank -> SUBSET Channel] /\ trapped \in [Rank -> BOOLEAN]
      /\ step_pad \in [Rank -> [Channel -> [0 .. MaxChunks - 1 -> [Rank -> Step]]]]
      /\ workload \in Workloads /\ num_sms \in Sms
  BY DEF IInv, FunctionsOK
<1> QED BY <1>1, <1>2, <1>3 DEF TypeOK

\* The types, and that a CTA has chunks and lanes only in a kernel.
THEOREM TypesOK == Spec => []TypeOK
  BY Invariant, IInvTypes, PTL

\* While r is in the kernel of a call, no member has got past its post-barrier:
\* r has not arrived there.
LEMMA PostBarrierHolds ==
    ASSUME IInv, NEW r \in Rank, InKernel(r), NEW q \in Rank, NEW m \in 1 .. submitted[q],
           SameCall(workload, r, CallAt(r), q, m)
    PROVE  done[q] < 3 * m
<1> DEFINE n == CallAt(r)
<1>1. /\ n \in 1 .. submitted[r] /\ departed[r] = 2 * n - 1 /\ arrived[r] = departed[r]
      /\ r \in Members[workload[r][n].group] /\ n \in DOMAIN workload[r]
  <2>1. n \in 1 .. submitted[r] /\ departed[r] = 2 * n - 1
    BY KernelFacts DEF IInv
  <2>2. arrived[r] = departed[r]
    BY StreamFacts DEF IInv, StreamOK
  <2> QED BY <2>1, <2>2, InstanceAt
<1> SUFFICES ASSUME ~ done[q] < 3 * m PROVE FALSE
  OBVIOUS
<1>2. 2 * m - 2 + 2 <= departed[q]
  <2>1. done[q] \in Nat /\ m \in Nat \ {0} /\ done[q] >= 3 * m
    BY DEF IInv, FunctionsOK
  <2>2. done[q] \div 3 \in Nat /\ done[q] % 3 \in 0 .. 2 /\ done[q] = 3 * (done[q] \div 3) + (done[q] % 3)
    BY <2>1, Threes
  <2>3. done[q] \div 3 >= m
    BY <2>1, <2>2
  <2>4. departed[q] = Barred(done[q])
    BY DEF IInv, StreamOK
  <2> QED BY <2>1, <2>2, <2>3, <2>4 DEF Barred
<1>3. Joins(q, m, r, 2)
  BY <1>1, <1>2 DEF IInv, JoinedOK, SameCall
<1>4. PICK i \in 1 .. submitted[r] : SameCall(workload, q, m, r, i) /\ 2 * i - 2 + 2 <= arrived[r]
  BY <1>3 DEF Joins
<1>5. i = n
  <2>1. workload[r][i].group = workload[r][n].group /\ Ordinal(workload[r], i) = Ordinal(workload[r], n)
    BY <1>4 DEF SameCall
  <2>2. i \in DOMAIN workload[r] /\ DOMAIN workload[r] = 1 .. Len(workload[r]) /\ Len(workload[r]) \in Nat
    <3>1. i \in DOMAIN workload[r]
      BY <1>4, InstanceAt
    <3>2. workload[r] \in Seq(Call)
      BY CallFacts DEF IInv
    <3> QED BY <3>1, <3>2
  <2> HIDE DEF n
  <2> QED BY <1>1, <2>1, <2>2, OrdinalInjective
<1>6. n \in Nat
  BY <1>1
<1> HIDE DEF n
<1> QED BY <1>1, <1>4, <1>5, <1>6

\* and implies that what is pulled has been staged: the peer cannot have gone on to
\* another call, whose pre-barrier this rank has yet to arrive at.
LEMMA IInvStaged == IInv => StagedBeforePull
<1> SUFFICES ASSUME IInv, NEW r \in Rank, NEW ch \in Channel,
                    Runs(r, Receiver(ch)), lanes[r][Receiver(ch)] = Others(r), NEW q \in Others(r)
             PROVE  /\ InOp(q, {1, 2})
                    /\ SameCall(workload, r, CallAt(r), q, CallAt(q))
                    /\ \/ InOp(q, {2})
                       \/ chunk[q][Sender(ch)] > chunk[r][Receiver(ch)]
                       \/ chunk[q][Sender(ch)] = chunk[r][Receiver(ch)] /\ r \in lanes[q][Sender(ch)]
  BY DEF StagedBeforePull
<1>1. InKernel(r) /\ q \in Rank
  BY KernelFacts DEF Runs, IInv
<1>2. PICK m \in 1 .. submitted[q] :
         /\ SameCall(workload, r, CallAt(r), q, m)
         /\ Published(q, m, ch, chunk[r][Receiver(ch)], r)
  BY <1>1 DEF IInv, SeenOK
<1>3. done[q] < 3 * m
  BY <1>1, <1>2, PostBarrierHolds
<1>4. done[q] \in Nat /\ m \in Nat /\ (done[q] >= 3 * m - 1 \/ done[q] = 3 * m - 2)
  BY <1>1, <1>2 DEF IInv, FunctionsOK, Published
<1>5. /\ done[q] = 3 * (CallAt(q) - 1) + (done[q] % 3)
      /\ CallAt(q) \in Nat /\ done[q] % 3 \in 0 .. 2
  BY <1>1, StreamFacts DEF IInv
<1>6. CallAt(q) = m /\ done[q] % 3 \in {1, 2}
  BY <1>3, <1>4, <1>5
<1>7. CASE done[q] % 3 = 1
  <2>1. done[q] = 3 * m - 2
    BY <1>4, <1>5, <1>6, <1>7
  <2> QED BY <1>2, <1>4, <1>6, <1>7, <2>1, Ops DEF Published, InOp
<1>8. CASE done[q] % 3 = 2
  BY <1>2, <1>6, <1>8, Ops DEF InOp
<1> QED BY <1>6, <1>7, <1>8

\* No receiver pulls a chunk that its peer has not staged in that very call.
THEOREM PullsAreStaged == Spec => []StagedBeforePull
  BY Invariant, IInvStaged, PTL

-----------------------------------------------------------------------------
(* The data.                                                               *)

\* The units of a rank's input in call c, and the channel and chunk of a unit.
InputUnits(c) == IF c.op = "all2all" THEN 0 .. Len(GroupRanks[c.group]) * c.size - 1 ELSE Slice(c)
ChannelOf(c, u) == (u % c.size) \div PerChannel(c)
ChunkOf(c, u) == (u % c.size) % PerChannel(c)

\* What r copies to unit u of its output, and with which CTA; and how a unit of its
\* input gets into its comm_buf.
SourceUnit(c, r, u) ==
    IF c.op = "all2all" THEN LocalIndex(c.group, r) * c.size + (u % c.size) ELSE u % c.size
Own(c, r, u) == u \div c.size = LocalIndex(c.group, r)
Origin(c, r, n, u) ==
    IF Own(c, r, u) THEN Input(r, n, SourceUnit(c, r, u))
    ELSE Comm(PeerAt(c.group, u \div c.size), SourceUnit(c, r, u))
CtaOf(c, r, u) == IF Own(c, r, u) THEN Sender(ChannelOf(c, u)) ELSE Receiver(ChannelOf(c, u))
Arrival(c, r, n, u) == [from |-> Origin(c, r, n, u), to |-> Output(r, n, u)]
Staging(r, n, x) == [from |-> Input(r, n, x), to |-> Comm(r, x)]

\* A CTA has made move m, of its k-th chunk.
Made(r, cta, k, m) == k < chunk[r][cta] \/ (k = chunk[r][cta] /\ m \in moved[r][cta])

\* The moves of r's CTAs are moves of their chunks, and a chunk is staged before
\* any peer is told of it.
MovedOK(r) ==
    /\ DOMAIN moved[r] = Cta
    /\ \A cta \in Cta :
          moved[r][cta] # {} =>
              /\ InKernel(r) /\ chunk[r][cta] < Chunks(Current(r), cta[2])
              /\ moved[r][cta] \subseteq Moves(r, cta)
    /\ \A ch \in Channel :
          lanes[r][Sender(ch)] # {} => moved[r][Sender(ch)] = Moves(r, Sender(ch))

\* r has staged unit x of its input, in the call that its stream is in.
HasStaged(r, x) ==
    \/ done[r] % 3 = 2
    \/ /\ done[r] % 3 = 1
       /\ Made(r, Sender(ChannelOf(Current(r), x)), ChunkOf(Current(r), x), Staging(r, CallAt(r), x))

\* What r has staged for its peers is its input.
StagedOK(r) ==
    CallAt(r) <= submitted[r] =>
        \A x \in InputUnits(Current(r)) :
            HasStaged(r, x) => mem[Comm(r, x)] = Input(r, CallAt(r), x)

\* r has copied unit u of its n-th call's output.
Copied(r, n, u) ==
    \/ n < CallAt(r)
    \/ /\ n = CallAt(r) /\ n <= submitted[r]
       /\ \/ done[r] % 3 = 2
          \/ /\ done[r] % 3 = 1
             /\ LET c == workload[r][n]
                IN  Made(r, CtaOf(c, r, u), ChunkOf(c, u), Arrival(c, r, n, u))

\* Such a unit holds what it must, any other nothing yet.
OutputOK(r) ==
    \A n \in 1 .. Len(workload[r]) : \A u \in OutputUnits(workload[r][n], r) :
        mem[Output(r, n, u)] =
            IF Copied(r, n, u) THEN Expected(workload, r, n, u) ELSE Unwritten

\* Where the data is, in every reachable state.
DataInv ==
    /\ DOMAIN mem = CommCells \cup OutputCells(workload)
    /\ DOMAIN moved = Rank
    /\ \A r \in Rank : MovedOK(r) /\ StagedOK(r) /\ OutputOK(r)

-----------------------------------------------------------------------------
(* Units.                                                                  *)

\* Unit x of part i of a list of parts, as a unit of the list.
LEMMA UnitAt ==
    ASSUME NEW s \in Nat \ {0}, NEW N \in Nat, NEW i \in 0 .. N - 1, NEW x \in 0 .. s - 1
    PROVE  /\ i * s + x \in 0 .. N * s - 1
           /\ (i * s + x) \div s = i /\ (i * s + x) % s = x
<1>1. i * s + x \in Nat /\ (i + 1) * s <= N * s /\ N * s \in Nat
  <2>1. i + 1 <= N /\ i + 1 \in Nat
    OBVIOUS
  <2>2. (i + 1) * s <= N * s
    BY <2>1, MulMonotone
  <2>3. i * s \in Nat /\ N * s \in Nat
    OBVIOUS
  <2> QED BY <2>2, <2>3
<1>2. (i + 1) * s = i * s + s
  OBVIOUS
<1>3. i * s \in Nat
  OBVIOUS
<1> DEFINE a == i * s
           b == N * s
           e == a + x
<1>4. a \in Nat /\ b \in Nat /\ a + s <= b
  BY <1>1, <1>2
<1>5. (e) \div s = i /\ e % s = x
  BY <1>1, DivUnique
<1> HIDE DEF a, b
<1>6. e \in 0 .. b - 1
  BY <1>4
<1> QED BY <1>5, <1>6 DEF a, b

\* The part and the place in it of a unit of the list.
LEMMA UnitParts ==
    ASSUME NEW s \in Nat \ {0}, NEW N \in Nat, NEW u \in 0 .. N * s - 1
    PROVE  /\ u \div s \in 0 .. N - 1 /\ u % s \in 0 .. s - 1
           /\ u = (u \div s) * s + (u % s)
<1> DEFINE i == u \div s
<1>1. N * s \in Nat /\ u \in Nat
  OBVIOUS
<1>2. i \in Nat /\ i * s <= u /\ u = i * s + (u % s) /\ u % s \in 0 .. s - 1
  BY <1>1, DivBounds, DivMod
<1>3. i * s < N * s
  <2> DEFINE a == i * s
             b == N * s
  <2>1. a \in Int /\ b \in Int /\ a <= u /\ u < b
    BY <1>1, <1>2
  <2> HIDE DEF a, b, i
  <2>2. a < b
    BY <2>1, <1>1
  <2> QED BY <2>2 DEF a, b
<1>4. i < N
  BY <1>2, <1>3, MulReflects
<1> QED BY <1>2, <1>4

\* A channel's chunks are the units of its partition, in order.
LEMMA ChunkUnits ==
    ASSUME NEW c, c.size \in Nat \ {0}
    PROVE  /\ PerChannel(c) \in Nat \ {0}
           /\ \A x \in Slice(c) :
                 /\ x \div PerChannel(c) \in Channel /\ x % PerChannel(c) \in Nat
                 /\ x % PerChannel(c) < Chunks(c, x \div PerChannel(c))
                 /\ UnitOf(c, x \div PerChannel(c), x % PerChannel(c)) = x
           /\ \A ch \in Channel : \A k \in Nat : k < Chunks(c, ch) =>
                 /\ UnitOf(c, ch, k) \in Slice(c)
                 /\ UnitOf(c, ch, k) \div PerChannel(c) = ch
                 /\ UnitOf(c, ch, k) % PerChannel(c) = k
<1> DEFINE s == c.size
           P == PerChannel(c)
<1>1. s \in Nat \ {0} /\ Channels \in Nat \ {0} /\ P = CeilDiv(s, Channels)
  BY ChannelsAssumption DEF PerChannel, CeilDiv
<1>2. P \in Nat \ {0} /\ s <= P * Channels
  <2>1. P \in Nat /\ P >= 1 /\ s <= P * Channels
    <3> HIDE DEF s, P
    <3> QED BY <1>1, CeilBounds, CeilPositive
  <2> QED BY <2>1
<1> HIDE DEF P, s
<1>3. Channel = 0 .. Channels - 1 /\ Slice(c) = 0 .. s - 1
  BY DEF Channel, Slice, s
<1>4. ASSUME NEW ch \in Channel
      PROVE  /\ Partition(c, ch) = {u \in 0 .. s - 1 : ch * P <= u /\ u < ch * P + P}
             /\ ch * P \in Nat
  <2>1. ch \in Nat
    BY <1>1, <1>3
  <2>2. ch * P \in Nat
    BY <1>2, <2>1
  <2>3. ASSUME NEW u \in 0 .. s - 1 PROVE u \div P = ch <=> ch * P <= u /\ u < ch * P + P
    <3>1. u \in Nat
      BY <1>1
    <3>2. ASSUME u \div P = ch PROVE ch * P <= u /\ u < ch * P + P
      BY <1>2, <3>1, <3>2, DivBounds
    <3>3. ASSUME ch * P <= u, u < ch * P + P PROVE u \div P = ch
      <4> DEFINE a == ch * P
                 x == u - a
      <4>1. a \in Nat
        BY <2>2
      <4>2. a <= u /\ u < a + P
        BY <3>3
      <4> HIDE DEF a
      <4>3. x \in 0 .. P - 1 /\ u = a + x
        BY <1>2, <3>1, <4>1, <4>2
      <4>4. u = ch * P + x
        BY <4>3 DEF a
      <4> HIDE DEF x
      <4> QED BY <1>2, <2>1, <3>1, <4>3, <4>4, DivUnique
    <3> QED BY <3>2, <3>3
  <2> QED BY <1>3, <2>2, <2>3 DEF Partition, P
<1>5. ASSUME NEW ch \in Channel, NEW k \in Nat
      PROVE  k < Chunks(c, ch) <=> k < P /\ ch * P + k < s
  <2> DEFINE a == ch * P
             b == IF a + P <= s THEN a + P - 1 ELSE s - 1
  <2>1. a \in Nat
    BY <1>4
  <2>2. Partition(c, ch) = {u \in 0 .. s - 1 : a <= u /\ u < a + P}
    BY <1>4
  <2> HIDE DEF a
  <2>3. b \in Int
    BY <1>1, <1>2, <2>1
  <2>4. {u \in 0 .. s - 1 : a <= u /\ u < a + P} = a .. b
    BY <1>1, <1>2, <2>1
  <2> HIDE DEF b
  <2>5. Cardinality(a .. b) = IF a > b THEN 0 ELSE b - a + 1
    BY <2>1, <2>3, FS_Interval
  <2>6. Chunks(c, ch) = IF a > b THEN 0 ELSE b - a + 1
    BY <2>2, <2>4, <2>5 DEF Chunks
  <2>7. k < Chunks(c, ch) <=> k < P /\ a + k < s
    BY <1>1, <1>2, <2>1, <2>3, <2>6 DEF b
  <2> QED BY <2>7 DEF a
<1>6. ASSUME NEW x \in 0 .. s - 1
      PROVE  /\ x \div P \in Channel /\ x % P \in Nat
             /\ x % P < Chunks(c, x \div P) /\ UnitOf(c, x \div P, x % P) = x
  <2> DEFINE ch == x \div P
             k == x % P
  <2>1. x \in Nat /\ x < s
    BY <1>1
  <2>2. ch \in Nat /\ ch * P <= x /\ x = ch * P + k /\ k \in 0 .. P - 1
    BY <1>2, <2>1, DivBounds, DivMod
  <2>3. ch * P < Channels * P
    <3> HIDE DEF ch
    <3> DEFINE a == ch * P
               b == P * Channels
    <3>1. a \in Int /\ b \in Int
      BY <1>1, <1>2, <2>2
    <3>2. a <= x /\ s <= b
      BY <1>2, <2>2
    <3> HIDE DEF a, b
    <3>3. a < b
      BY <1>1, <2>1, <3>1, <3>2
    <3>4. b = Channels * P
      BY <1>1, <1>2 DEF b
    <3> QED BY <3>3, <3>4 DEF a
  <2> HIDE DEF ch, k
  <2>4. ch < Channels
    BY <1>1, <1>2, <2>2, <2>3, MulReflects
  <2>5. ch \in Channel
    BY <1>1, <1>3, <2>2, <2>4
  <2>6. k \in Nat /\ k < P /\ ch * P + k < s
    BY <1>2, <2>1, <2>2
  <2>7. k < Chunks(c, ch)
    BY <1>5, <2>5, <2>6
  <2>8. UnitOf(c, ch, k) = x
    BY <2>2 DEF UnitOf, P
  <2> QED BY <2>5, <2>6, <2>7, <2>8 DEF ch, k
<1>7. ASSUME NEW ch \in Channel, NEW k \in Nat, k < Chunks(c, ch)
      PROVE  /\ UnitOf(c, ch, k) \in 0 .. s - 1
             /\ UnitOf(c, ch, k) \div P = ch /\ UnitOf(c, ch, k) % P = k
  <2>1. k < P /\ ch * P + k < s
    BY <1>5, <1>7
  <2>2. ch * P \in Nat /\ ch \in Nat
    BY <1>1, <1>3, <1>4
  <2>3. UnitOf(c, ch, k) = ch * P + k
    BY DEF UnitOf, P
  <2> DEFINE a == ch * P
             u == a + k
  <2>4. a \in Nat /\ a + k < s
    BY <2>1, <2>2
  <2>5. u \div P = ch /\ u % P = k
    <3>1. k \in 0 .. P - 1 /\ u = ch * P + k /\ u \in Nat
      BY <1>2, <2>1, <2>2
    <3> HIDE DEF u
    <3> QED BY <1>2, <2>2, <3>1, DivUnique
  <2> HIDE DEF a
  <2>6. u \in 0 .. s - 1
    BY <1>1, <2>4
  <2> QED BY <2>3, <2>5, <2>6 DEF a
<1> QED BY <1>2, <1>3, <1>6, <1>7 DEF P

-----------------------------------------------------------------------------
(* Cells and places.                                                       *)

\* Cells with different names are different.
LEMMA Cells ==
    ASSUME NEW p, NEW q, NEW n, NEW m, NEW u, NEW v
    PROVE  /\ Comm(p, u) = Comm(q, v) => p = q /\ u = v
           /\ Output(p, n, u) = Output(q, m, v) => p = q /\ n = m /\ u = v
           /\ Input(p, n, u)[1] = "input" /\ Input(p, n, u)[2] = p /\ Input(p, n, u)[3] = n
           /\ Comm(p, u)[1] # "input"
           /\ Comm(p, u) # Output(q, m, v)
           /\ Input(p, n, u) # Unwritten /\ Stale # Unwritten
<1>1. ASSUME Comm(p, u) = Comm(q, v) PROVE p = q /\ u = v
  BY <1>1 DEF Comm
<1>2. ASSUME Output(p, n, u) = Output(q, m, v) PROVE p = q /\ n = m /\ u = v
  BY <1>2 DEF Output
<1>3. Comm(p, u)[1] = "comm" /\ Output(q, m, v)[1] = "output" /\ Input(p, n, u)[1] = "input"
  BY DEF Comm, Output, Input
<1>4. "comm" # "output" /\ "comm" # "input" /\ "output" # "input"
  OBVIOUS
<1>5. Comm(p, u) # Output(q, m, v) /\ Comm(p, u)[1] # "input"
  BY <1>3, <1>4, Zenon
<1>6. Input(p, n, u)[2] = p /\ Input(p, n, u)[3] = n
  BY DEF Input
<1>7. Input(p, n, u) # Unwritten /\ Stale # Unwritten
  BY DEF Input, Unwritten, Stale
<1> QED BY <1>1, <1>2, <1>3, <1>5, <1>6, <1>7

\* The places of a group's members.
LEMMA Places ==
    ASSUME NEW g \in Group
    PROVE  /\ Len(GroupRanks[g]) \in Nat /\ Peers(g) = 0 .. Len(GroupRanks[g]) - 1
           /\ \A r \in Members[g] :
                 LocalIndex(g, r) \in Peers(g) /\ PeerAt(g, LocalIndex(g, r)) = r
           /\ \A i \in Peers(g) :
                 PeerAt(g, i) \in Members[g] /\ LocalIndex(g, PeerAt(g, i)) = i
<1>1. Len(GroupRanks[g]) \in Nat /\ Peers(g) = 0 .. Len(GroupRanks[g]) - 1
  BY WorkloadsAssumption DEF Peers
<1>2. Members[g] = {PeerAt(g, i) : i \in Peers(g)}
  BY DEF Members
<1>3. ASSUME NEW r \in Members[g]
      PROVE  LocalIndex(g, r) \in Peers(g) /\ PeerAt(g, LocalIndex(g, r)) = r
  <2>1. \E i \in Peers(g) : PeerAt(g, i) = r
    BY <1>2
  <2> QED BY <2>1, Zenon DEF LocalIndex
<1>4. ASSUME NEW i \in Peers(g)
      PROVE  PeerAt(g, i) \in Members[g] /\ LocalIndex(g, PeerAt(g, i)) = i
  <2>1. PeerAt(g, i) \in Members[g]
    BY <1>2
  <2> QED BY <1>3, <2>1, GroupsAssumption
<1> QED BY <1>1, <1>3, <1>4

\* What a call of a workload reads and writes.
LEMMA CallUnits ==
    ASSUME workload \in Workloads, NEW r \in Rank, NEW n \in 1 .. Len(workload[r])
    PROVE  LET c == workload[r][n]
               N == Len(GroupRanks[c.group])
           IN  /\ c.size \in Nat \ {0} /\ c.group \in Group /\ r \in Members[c.group] /\ N \in Nat
               /\ OutputUnits(c, r) = 0 .. N * c.size - 1
               /\ Peers(c.group) = 0 .. N - 1 /\ Slice(c) = 0 .. c.size - 1
               /\ InputUnits(c) \subseteq 0 .. CommSize - 1
<1> DEFINE c == workload[r][n]
           N == Len(GroupRanks[c.group])
<1>1. c.size \in Nat \ {0} /\ c.group \in Group /\ r \in Members[c.group]
  BY CallFacts
<1>2. N \in Nat /\ Peers(c.group) = 0 .. N - 1
  BY <1>1, Places
<1>3. n \in DOMAIN workload[r]
  BY CallFacts
<1>4. /\ c.op \in {"all_gather", "all2all"} /\ CommSize \in Nat
      /\ (IF c.op = "all2all" THEN N ELSE 1) * c.size <= CommSize
  BY <1>3, CallsAssumption
<1> HIDE DEF c, N
<1>5. OutputUnits(c, r) = 0 .. N * c.size - 1
  BY <1>4 DEF OutputUnits, N
<1>6. InputUnits(c) \subseteq 0 .. CommSize - 1
  <2> DEFINE e == N * c.size
             f == c.size
  <2>1. e \in Nat /\ f \in Nat
    BY <1>1, <1>2
  <2>2. InputUnits(c) = IF c.op = "all2all" THEN 0 .. e - 1 ELSE 0 .. f - 1
    BY DEF InputUnits, Slice, N
  <2>3. CASE c.op = "all2all"
    <3>1. e <= CommSize
      BY <1>4, <2>3
    <3> HIDE DEF e, f
    <3> QED BY <1>4, <2>1, <2>2, <2>3, <3>1
  <2>4. CASE c.op # "all2all"
    <3>1. f <= CommSize
      BY <1>1, <1>4, <2>4
    <3> HIDE DEF e, f
    <3> QED BY <1>4, <2>1, <2>2, <2>4, <3>1
  <2> QED BY <2>3, <2>4
<1>7. Slice(c) = 0 .. c.size - 1
  BY DEF Slice
<1> QED BY <1>1, <1>2, <1>5, <1>6, <1>7 DEF c, N

\* The part and the place in it of a unit of an output, and of the input that it
\* comes from.
LEMMA OutputParts ==
    ASSUME workload \in Workloads, NEW r \in Rank, NEW n \in 1 .. Len(workload[r]),
           NEW u \in OutputUnits(workload[r][n], r)
    PROVE  LET c == workload[r][n]
               x == SourceUnit(c, r, u)
           IN  /\ u \div c.size \in Peers(c.group) /\ u % c.size \in Slice(c)
               /\ u = (u \div c.size) * c.size + (u % c.size)
               /\ ChannelOf(c, u) \in Channel /\ ChunkOf(c, u) \in Nat
               /\ ChunkOf(c, u) < Chunks(c, ChannelOf(c, u))
               /\ UnitOf(c, ChannelOf(c, u), ChunkOf(c, u)) = u % c.size
               /\ CtaOf(c, r, u) \in Cta /\ CtaOf(c, r, u)[2] = ChannelOf(c, u)
               /\ x \in InputUnits(c)
               /\ ChannelOf(c, x) = ChannelOf(c, u) /\ ChunkOf(c, x) = ChunkOf(c, u)
<1> DEFINE c == workload[r][n]
           N == Len(GroupRanks[c.group])
           x == SourceUnit(c, r, u)
           s == c.size
<1>1. /\ s \in Nat \ {0} /\ c.group \in Group /\ r \in Members[c.group] /\ N \in Nat
      /\ OutputUnits(c, r) = 0 .. N * s - 1
      /\ Peers(c.group) = 0 .. N - 1 /\ Slice(c) = 0 .. s - 1
  BY CallUnits
<1>2. u \in 0 .. N * s - 1
  BY <1>1
<1> HIDE DEF c, N, s
<1>3. u \div s \in 0 .. N - 1 /\ u % s \in 0 .. s - 1 /\ u = (u \div s) * s + (u % s)
  BY <1>1, <1>2, UnitParts
<1>4. /\ ChannelOf(c, u) \in Channel /\ ChunkOf(c, u) \in Nat
      /\ ChunkOf(c, u) < Chunks(c, ChannelOf(c, u))
      /\ UnitOf(c, ChannelOf(c, u), ChunkOf(c, u)) = u % s
  <2>1. u % s \in Slice(c) /\ c.size \in Nat \ {0}
    BY <1>1, <1>3 DEF s
  <2> DEFINE y == u % s
  <2>2. /\ y \div PerChannel(c) \in Channel /\ y % PerChannel(c) \in Nat
        /\ y % PerChannel(c) < Chunks(c, y \div PerChannel(c))
        /\ UnitOf(c, y \div PerChannel(c), y % PerChannel(c)) = y
    <3> HIDE DEF y
    <3>1. y \in Slice(c)
      BY <2>1 DEF y
    <3> QED BY <2>1, <3>1, ChunkUnits
  <2> QED BY <2>2 DEF ChannelOf, ChunkOf, s
<1>5. CtaOf(c, r, u) \in Cta /\ CtaOf(c, r, u)[2] = ChannelOf(c, u)
  BY <1>4 DEF CtaOf, Cta, Sender, Receiver
<1>6. x \in InputUnits(c) /\ x % s = u % s
  <2>1. LocalIndex(c.group, r) \in 0 .. N - 1
    BY <1>1, Places
  <2> DEFINE l == LocalIndex(c.group, r)
             y == u % s
  <2>2. l * s + y \in 0 .. N * s - 1 /\ (l * s + y) % s = y
    <3>1. l \in 0 .. N - 1 /\ y \in 0 .. s - 1
      BY <1>3, <2>1
    <3> HIDE DEF l, y
    <3> QED BY <1>1, <3>1, UnitAt
  <2>3. y % s = y /\ y \in Slice(c)
    <3>1. y \in 0 .. s - 1 /\ y \in Nat /\ y = 0 * s + y
      BY <1>1, <1>3
    <3> HIDE DEF y
    <3>2. y % s = y
      BY <1>1, <3>1, DivUnique
    <3> QED BY <1>1, <3>1, <3>2
  <2>4. x = IF c.op = "all2all" THEN l * s + y ELSE y
    BY DEF SourceUnit, s
  <2>5. InputUnits(c) = IF c.op = "all2all" THEN 0 .. N * s - 1 ELSE Slice(c)
    BY DEF InputUnits, N, s
  <2> HIDE DEF l, y, x
  <2>6. CASE c.op = "all2all"
    BY <2>2, <2>4, <2>5, <2>6 DEF y
  <2>7. CASE c.op # "all2all"
    BY <2>3, <2>4, <2>5, <2>7 DEF y
  <2> QED BY <2>6, <2>7
<1>7. ChannelOf(c, x) = ChannelOf(c, u) /\ ChunkOf(c, x) = ChunkOf(c, u)
  <2> HIDE DEF x
  <2> QED BY <1>6 DEF ChannelOf, ChunkOf, s
<1> QED BY <1>1, <1>3, <1>4, <1>5, <1>6, <1>7 DEF c, s

\* The same of a unit of an input.
LEMMA InputParts ==
    ASSUME workload \in Workloads, NEW r \in Rank, NEW n \in 1 .. Len(workload[r]),
           NEW x \in InputUnits(workload[r][n])
    PROVE  LET c == workload[r][n]
           IN  /\ ChannelOf(c, x) \in Channel /\ ChunkOf(c, x) \in Nat
               /\ ChunkOf(c, x) < Chunks(c, ChannelOf(c, x))
               /\ UnitOf(c, ChannelOf(c, x), ChunkOf(c, x)) = x % c.size
               /\ c.op = "all2all" =>
                     x \div c.size \in Peers(c.group) /\ x = (x \div c.size) * c.size + (x % c.size)
               /\ c.op # "all2all" => x % c.size = x
<1> DEFINE c == workload[r][n]
           N == Len(GroupRanks[c.group])
           s == c.size
<1>1. /\ s \in Nat \ {0} /\ N \in Nat /\ Peers(c.group) = 0 .. N - 1 /\ Slice(c) = 0 .. s - 1
  BY CallUnits
<1>2. x \in (IF c.op = "all2all" THEN 0 .. N * s - 1 ELSE 0 .. s - 1)
  BY <1>1 DEF InputUnits
<1> HIDE DEF c, N, s
<1>3. c.op = "all2all" =>
         x \div s \in 0 .. N - 1 /\ x % s \in 0 .. s - 1 /\ x = (x \div s) * s + (x % s)
  BY <1>1, <1>2, UnitParts
<1>4. c.op # "all2all" => x % s = x /\ x % s \in 0 .. s - 1
  <2> SUFFICES ASSUME c.op # "all2all" PROVE x % s = x /\ x % s \in 0 .. s - 1
    OBVIOUS
  <2>1. x \in 0 .. s - 1 /\ x \in Nat /\ x = 0 * s + x
    BY <1>1, <1>2
  <2> QED BY <1>1, <2>1, DivUnique
<1> DEFINE y == x % s
<1>5. y \in Slice(c) /\ c.size \in Nat \ {0}
  BY <1>1, <1>3, <1>4 DEF s
<1>6. /\ y \div PerChannel(c) \in Channel /\ y % PerChannel(c) \in Nat
      /\ y % PerChannel(c) < Chunks(c, y \div PerChannel(c))
      /\ UnitOf(c, y \div PerChannel(c), y % PerChannel(c)) = y
  <2> HIDE DEF y
  <2> QED BY <1>5, ChunkUnits
<1> QED BY <1>1, <1>3, <1>4, <1>6 DEF ChannelOf, ChunkOf, c, s

\* The moves of a chunk are those of the units in it.
LEMMA MovesAre ==
    ASSUME IInv, NEW r \in Rank, NEW cta \in Cta, InKernel(r),
           chunk[r][cta] < Chunks(Current(r), cta[2])
    PROVE  LET c == Current(r)
               n == CallAt(r)
               k == chunk[r][cta]
           IN  /\ \A m \in Moves(r, cta) :
                     \/ \E u \in OutputUnits(c, r) :
                           CtaOf(c, r, u) = cta /\ ChunkOf(c, u) = k /\ m = Arrival(c, r, n, u)
                     \/ \E x \in InputUnits(c) :
                           /\ cta = Sender(ChannelOf(c, x)) /\ ChunkOf(c, x) = k
                           /\ m = Staging(r, n, x)
               /\ \A u \in OutputUnits(c, r) :
                     CtaOf(c, r, u) = cta /\ ChunkOf(c, u) = k => Arrival(c, r, n, u) \in Moves(r, cta)
               /\ \A x \in InputUnits(c) :
                     cta = Sender(ChannelOf(c, x)) /\ ChunkOf(c, x) = k => Staging(r, n, x) \in Moves(r, cta)
<1> DEFINE c == Current(r)
           n == CallAt(r)
           k == chunk[r][cta]
           g == c.group
           s == c.size
           N == Len(GroupRanks[g])
           ch == cta[2]
           me == LocalIndex(g, r)
           u0 == UnitOf(c, ch, k)
           at == IF c.op = "all2all" THEN me * s + u0 ELSE u0
           staged == IF c.op = "all2all" THEN {t * s + u0 : t \in Peers(g)} ELSE {u0}
<1>1. /\ workload \in Workloads /\ n \in 1 .. Len(workload[r]) /\ c = workload[r][n] /\ k \in Nat
  BY KernelFacts DEF IInv, FunctionsOK, Current
<1>2. /\ s \in Nat \ {0} /\ g \in Group /\ r \in Members[g] /\ N \in Nat
      /\ OutputUnits(c, r) = 0 .. N * s - 1
      /\ Peers(g) = 0 .. N - 1 /\ Slice(c) = 0 .. s - 1
      /\ InputUnits(c) = IF c.op = "all2all" THEN 0 .. N * s - 1 ELSE Slice(c)
  BY <1>1, CallUnits DEF InputUnits
<1>3. me \in Peers(g)
  BY <1>2, Places
<1>4. ch \in Channel /\ cta \in {Sender(ch), Receiver(ch)} /\ Sender(ch) # Receiver(ch)
      /\ (cta[1] = "sender" <=> cta = Sender(ch))
      /\ \A d : (Sender(d) = cta => d = ch /\ cta = Sender(ch)) /\ (Receiver(d) = cta => d = ch /\ cta = Receiver(ch))
  BY DEF Cta, Sender, Receiver
<1>5. Moves(r, cta) =
         IF cta[1] = "sender"
         THEN {[from |-> Input(r, n, x), to |-> Comm(r, x)] : x \in staged}
                 \cup {[from |-> Input(r, n, at), to |-> Output(r, n, me * s + u0)]}
         ELSE {[from |-> Comm(PeerAt(g, i), at), to |-> Output(r, n, i * s + u0)] : i \in Peers(g) \ {me}}
  BY DEF Moves
<1>6. u0 \in 0 .. s - 1 /\ u0 \div PerChannel(c) = ch /\ u0 % PerChannel(c) = k
  BY <1>1, <1>2, <1>4, ChunkUnits
<1> HIDE DEF c, n, k, g, s, N, ch, me, u0
<1>7. ASSUME NEW i \in Peers(g)
      PROVE  LET u == i * s + u0
             IN  /\ u \in 0 .. N * s - 1 /\ u \div s = i /\ u % s = u0
                 /\ ChannelOf(c, u) = ch /\ ChunkOf(c, u) = k
  <2> DEFINE u == i * s + u0
  <2>1. u \in 0 .. N * s - 1 /\ u \div s = i /\ u % s = u0
    <3>1. /\ s \in Nat \ {0} /\ N \in Nat /\ i \in 0 .. N - 1
          /\ u0 \in 0 .. s - 1
      BY <1>2, <1>6, <1>7
    <3> QED BY <3>1, UnitAt
  <2> HIDE DEF u
  <2>2. ChannelOf(c, u) = ch /\ ChunkOf(c, u) = k
    BY <1>6, <2>1 DEF ChannelOf, ChunkOf, s
  <2> QED BY <2>1, <2>2 DEF u
<1>8. u0 % s = u0
  <2>1. u0 \in Nat /\ u0 = 0 * s + u0
    BY <1>2, <1>6
  <2> QED BY <1>2, <1>6, <2>1, DivUnique
<1>9. ASSUME NEW i \in Peers(g)
      PROVE  LET u == i * s + u0
             IN  /\ SourceUnit(c, r, u) = at
                 /\ i = me => CtaOf(c, r, u) = Sender(ch) /\ Origin(c, r, n, u) = Input(r, n, at)
                 /\ i # me => CtaOf(c, r, u) = Receiver(ch) /\ Origin(c, r, n, u) = Comm(PeerAt(g, i), at)
  <2> DEFINE u == i * s + u0
  <2>1. u \div s = i /\ u % s = u0 /\ ChannelOf(c, u) = ch
    BY <1>7
  <2> HIDE DEF u
  <2>2. SourceUnit(c, r, u) = at
    BY <2>1 DEF SourceUnit, s, me, g
  <2>3. Own(c, r, u) <=> i = me
    BY <2>1 DEF Own, s, me, g
  <2> HIDE DEF at
  <2> QED BY <2>1, <2>2, <2>3 DEF CtaOf, Origin, u, s, g
<1>10. ASSUME NEW x \in staged
       PROVE  x \in InputUnits(c) /\ ChannelOf(c, x) = ch /\ ChunkOf(c, x) = k
  <2>1. CASE c.op = "all2all"
    <3>1. PICK t \in Peers(g) : x = t * s + u0
      BY <2>1
    <3> QED BY <1>2, <1>7, <2>1, <3>1
  <2>2. CASE c.op # "all2all"
    <3>1. x = u0
      BY <2>2
    <3> QED BY <1>2, <1>6, <1>8, <2>2, <3>1 DEF ChannelOf, ChunkOf, s
  <2> QED BY <2>1, <2>2
<1>11. ASSUME NEW m \in Moves(r, cta)
       PROVE  \/ \E u \in OutputUnits(c, r) :
                    CtaOf(c, r, u) = cta /\ ChunkOf(c, u) = k /\ m = Arrival(c, r, n, u)
              \/ \E x \in InputUnits(c) :
                    /\ cta = Sender(ChannelOf(c, x)) /\ ChunkOf(c, x) = k
                    /\ m = Staging(r, n, x)
  <2>1. CASE \E x \in staged : m = [from |-> Input(r, n, x), to |-> Comm(r, x)] /\ cta = Sender(ch)
    BY <1>10, <2>1 DEF Staging
  <2>2. CASE cta = Sender(ch) /\ m = [from |-> Input(r, n, at), to |-> Output(r, n, me * s + u0)]
    <3> DEFINE u == me * s + u0
    <3>1. /\ u \in OutputUnits(c, r) /\ ChunkOf(c, u) = k
          /\ CtaOf(c, r, u) = Sender(ch) /\ Origin(c, r, n, u) = Input(r, n, at)
      BY <1>2, <1>3, <1>7, <1>9
    <3> HIDE DEF u, at
    <3>2. m = Arrival(c, r, n, u)
      BY <2>2, <3>1 DEF Arrival, u
    <3> QED BY <2>2, <3>1, <3>2
  <2>3. CASE \E i \in Peers(g) \ {me} :
                m = [from |-> Comm(PeerAt(g, i), at), to |-> Output(r, n, i * s + u0)] /\ cta = Receiver(ch)
    <3>1. PICK i \in Peers(g) \ {me} :
             m = [from |-> Comm(PeerAt(g, i), at), to |-> Output(r, n, i * s + u0)]
      BY <2>3
    <3> DEFINE u == i * s + u0
    <3>2. /\ u \in OutputUnits(c, r) /\ ChunkOf(c, u) = k
          /\ CtaOf(c, r, u) = Receiver(ch) /\ Origin(c, r, n, u) = Comm(PeerAt(g, i), at)
      BY <1>2, <1>7, <1>9
    <3> HIDE DEF u, at
    <3>3. m = Arrival(c, r, n, u)
      BY <3>1, <3>2 DEF Arrival, u
    <3> QED BY <2>3, <3>2, <3>3
  <2> HIDE DEF staged, at
  <2>4. CASE cta[1] = "sender"
    BY <1>4, <1>5, <2>1, <2>2, <2>4
  <2>5. CASE cta[1] # "sender"
    <3>1. cta = Receiver(ch)
      BY <1>4, <2>5
    <3>2. m \in {[from |-> Comm(PeerAt(g, i), at), to |-> Output(r, n, i * s + u0)] : i \in Peers(g) \ {me}}
      BY <1>5, <2>5
    <3> QED BY <2>3, <3>1, <3>2
  <2> QED BY <2>4, <2>5
<1>12. ASSUME NEW u \in OutputUnits(c, r), CtaOf(c, r, u) = cta, ChunkOf(c, u) = k
       PROVE  Arrival(c, r, n, u) \in Moves(r, cta)
  <2> DEFINE i == u \div s
  <2>1. /\ i \in Peers(g) /\ u = i * s + (u % s)
        /\ UnitOf(c, ChannelOf(c, u), ChunkOf(c, u)) = u % s /\ cta[2] = ChannelOf(c, u)
    BY <1>1, <1>12, OutputParts DEF s, g
  <2>2. u % s = u0
    BY <1>12, <2>1 DEF u0, ch
  <2> HIDE DEF i
  <2>3. u = i * s + u0
    BY <2>1, <2>2
  <2>4. CASE i = me
    <3>1. CtaOf(c, r, u) = Sender(ch) /\ Origin(c, r, n, u) = Input(r, n, at)
      BY <1>9, <2>1, <2>3, <2>4
    <3>2. cta[1] = "sender"
      BY <1>4, <1>12, <3>1
    <3> HIDE DEF at, staged
    <3>3. Arrival(c, r, n, u) = [from |-> Input(r, n, at), to |-> Output(r, n, me * s + u0)]
      BY <2>3, <2>4, <3>1 DEF Arrival
    <3> QED BY <1>5, <3>2, <3>3
  <2>5. CASE i # me
    <3>1. CtaOf(c, r, u) = Receiver(ch) /\ Origin(c, r, n, u) = Comm(PeerAt(g, i), at)
      BY <1>9, <2>1, <2>3, <2>5
    <3>2. cta[1] # "sender"
      BY <1>4, <1>12, <3>1
    <3> HIDE DEF at, staged
    <3>3. Arrival(c, r, n, u) = [from |-> Comm(PeerAt(g, i), at), to |-> Output(r, n, i * s + u0)]
      BY <2>3, <3>1 DEF Arrival
    <3>4. i \in Peers(g) \ {me}
      BY <2>1, <2>5
    <3> QED BY <1>5, <3>2, <3>3, <3>4
  <2> QED BY <2>4, <2>5
<1>13. ASSUME NEW x \in InputUnits(c), cta = Sender(ChannelOf(c, x)), ChunkOf(c, x) = k
       PROVE  Staging(r, n, x) \in Moves(r, cta)
  <2>1. /\ UnitOf(c, ChannelOf(c, x), ChunkOf(c, x)) = x % s
        /\ c.op = "all2all" => x \div s \in Peers(g) /\ x = (x \div s) * s + (x % s)
        /\ c.op # "all2all" => x % s = x
    BY <1>1, InputParts DEF s, g
  <2>2. cta[1] = "sender" /\ ChannelOf(c, x) = ch
    BY <1>4, <1>13
  <2>3. x % s = u0
    BY <1>13, <2>1, <2>2 DEF u0
  <2>4. x \in staged
    <3>1. CASE c.op = "all2all"
      <4>1. x \div s \in Peers(g) /\ x = (x \div s) * s + u0
        BY <2>1, <2>3, <3>1
      <4> DEFINE i == x \div s
      <4>2. i \in Peers(g) /\ x = i * s + u0
        BY <4>1
      <4> HIDE DEF i
      <4> QED BY <3>1, <4>2
    <3>2. CASE c.op # "all2all"
      BY <2>1, <2>3, <3>2
    <3> QED BY <3>1, <3>2
  <2> HIDE DEF staged, at
  <2>5. Staging(r, n, x) = [from |-> Input(r, n, x), to |-> Comm(r, x)]
    BY DEF Staging
  <2> QED BY <1>5, <2>2, <2>4, <2>5
<1> QED BY <1>11, <1>12, <1>13 DEF c, n, k

\* The cells that a call's output has.
LEMMA OutputCell ==
    ASSUME workload \in Workloads
    PROVE  /\ \A r \in Rank : \A n \in 1 .. Len(workload[r]) : \A u \in OutputUnits(workload[r][n], r) :
                 Output(r, n, u) \in OutputCells(workload) /\ Output(r, n, u) \notin CommCells
           /\ \A x \in OutputCells(workload) :
                 \E r \in Rank : \E n \in 1 .. Len(workload[r]) : \E u \in OutputUnits(workload[r][n], r) :
                    x = Output(r, n, u)
<1>1. \A r \in Rank : DOMAIN workload[r] = 1 .. Len(workload[r])
  BY CallFacts
<1>2. \A r \in Rank : \A n \in 1 .. Len(workload[r]) : \A u \in OutputUnits(workload[r][n], r) :
         Output(r, n, u) \in OutputCells(workload)
  <2> SUFFICES ASSUME NEW r \in Rank, NEW n \in 1 .. Len(workload[r]),
                      NEW u \in OutputUnits(workload[r][n], r)
               PROVE  Output(r, n, u) \in OutputCells(workload)
    OBVIOUS
  <2> DEFINE own(m) == {Output(r, m, v) : v \in OutputUnits(workload[r][m], r)}
             all(q) == UNION {{Output(q, m, v) : v \in OutputUnits(workload[q][m], q)} : m \in DOMAIN workload[q]}
  <2>1. Output(r, n, u) \in own(n) /\ n \in DOMAIN workload[r]
    BY <1>1
  <2>2. Output(r, n, u) \in all(r)
    BY <2>1
  <2>3. OutputCells(workload) = UNION {all(q) : q \in Rank}
    BY DEF OutputCells
  <2> HIDE DEF own, all
  <2> QED BY <2>2, <2>3
<1>3. \A r, n, u : Output(r, n, u) \notin CommCells
  BY Cells DEF CommCells
<1>4. \A x \in OutputCells(workload) :
         \E r \in Rank : \E n \in 1 .. Len(workload[r]) : \E u \in OutputUnits(workload[r][n], r) :
            x = Output(r, n, u)
  BY <1>1 DEF OutputCells
<1> QED BY <1>2, <1>3, <1>4

-----------------------------------------------------------------------------
(* Steps that move no data.                                                *)

\* At first nothing is moved: every cell is unwritten.
LEMMA DataInit == Init => DataInv
<1> SUFFICES ASSUME Init PROVE DataInv
  OBVIOUS
<1> USE DEF Init
<1>0. workload \in Workloads
  OBVIOUS
<1>1. DOMAIN mem = CommCells \cup OutputCells(workload) /\ DOMAIN moved = Rank
  OBVIOUS
<1>2. ASSUME NEW r \in Rank PROVE done[r] % 3 = 0 /\ CallAt(r) = 1
  BY Ops DEF CallAt
<1>3. ASSUME NEW r \in Rank PROVE MovedOK(r)
  BY CtaType DEF MovedOK
<1>4. ASSUME NEW r \in Rank PROVE StagedOK(r)
  BY <1>2 DEF StagedOK
<1>5. ASSUME NEW r \in Rank PROVE OutputOK(r)
  <2> SUFFICES ASSUME NEW n \in 1 .. Len(workload[r]), NEW u \in OutputUnits(workload[r][n], r)
               PROVE  mem[Output(r, n, u)] =
                         IF Copied(r, n, u) THEN Expected(workload, r, n, u) ELSE Unwritten
    BY DEF OutputOK
  <2>1. Output(r, n, u) \in OutputCells(workload) /\ Output(r, n, u) \notin CommCells
    <3> HIDE DEF Init
    <3> QED BY <1>0, OutputCell
  <2>2. mem[Output(r, n, u)] = Unwritten
    <3> DEFINE x == Output(r, n, u)
    <3> HIDE DEF x
    <3> QED BY <2>1 DEF x
  <2>3. ~ Copied(r, n, u)
    <3> HIDE DEF Init
    <3> QED BY <1>2 DEF Copied
  <2> QED BY <2>2, <2>3
<1> QED BY <1>1, <1>3, <1>4, <1>5 DEF DataInv

\* A rank whose stream stands still is in the same kernel of the same call.
LEMMA Stands ==
    ASSUME NEW r \in Rank, workload' = workload, submitted'[r] = submitted[r], done'[r] = done[r]
    PROVE  /\ CallAt(r)' = CallAt(r) /\ Current(r)' = Current(r)
           /\ InKernel(r)' <=> InKernel(r)
           /\ Others(r)' = Others(r)
           /\ \A cta : chunk'[r][cta] = chunk[r][cta] => Moves(r, cta)' = Moves(r, cta)
<1>1. CallAt(r)' = CallAt(r)
  BY DEF CallAt
<1>2. Current(r)' = Current(r)
  BY <1>1 DEF Current
<1>3. InKernel(r)' <=> InKernel(r)
  BY <1>1 DEF InKernel, InOp
<1>4. Others(r)' = Others(r)
  BY <1>2 DEF Others
<1>5. ASSUME NEW cta, chunk'[r][cta] = chunk[r][cta] PROVE Moves(r, cta)' = Moves(r, cta)
  BY <1>1, <1>2, <1>5 DEF Moves
<1> QED BY <1>1, <1>2, <1>3, <1>4, <1>5

\* A rank whose kernel and cells are left alone keeps its part of the invariant.
LEMMA RankStays ==
    ASSUME NEW r \in Rank, MovedOK(r), StagedOK(r), OutputOK(r),
           workload' = workload, submitted'[r] = submitted[r], done'[r] = done[r],
           chunk'[r] = chunk[r], moved'[r] = moved[r],
           \A ch \in Channel :
              lanes'[r][Sender(ch)] # {} =>
                 lanes[r][Sender(ch)] # {} \/ moved[r][Sender(ch)] = Moves(r, Sender(ch)),
           CallAt(r) <= submitted[r] =>
              \A x \in InputUnits(Current(r)) : mem'[Comm(r, x)] = mem[Comm(r, x)],
           \A n \in 1 .. Len(workload[r]) : \A u \in OutputUnits(workload[r][n], r) :
              mem'[Output(r, n, u)] = mem[Output(r, n, u)]
    PROVE  MovedOK(r)' /\ StagedOK(r)' /\ OutputOK(r)'
<1>1. /\ CallAt(r)' = CallAt(r) /\ Current(r)' = Current(r)
      /\ InKernel(r)' <=> InKernel(r)
      /\ \A cta : Moves(r, cta)' = Moves(r, cta)
  BY Stands
<1>2. MovedOK(r)'
  BY <1>1 DEF MovedOK
<1>3. \A x : HasStaged(r, x)' <=> HasStaged(r, x)
  BY <1>1 DEF HasStaged, Made
<1>4. StagedOK(r)'
  BY <1>1, <1>3 DEF StagedOK
<1>5. \A n, u : Copied(r, n, u)' <=> Copied(r, n, u)
  BY <1>1 DEF Copied, Made
<1>6. OutputOK(r)'
  BY <1>5 DEF OutputOK
<1> QED BY <1>2, <1>4, <1>6

\* Nor does a step that leaves the calls, the chunks and the cells alone.
LEMMA DataStays ==
    ASSUME DataInv, UNCHANGED <<workload, submitted, done, chunk, moved, mem>>,
           \A r \in Rank : \A ch \in Channel :
              lanes'[r][Sender(ch)] # {} =>
                 lanes[r][Sender(ch)] # {} \/ moved[r][Sender(ch)] = Moves(r, Sender(ch))
    PROVE  DataInv'
<1>1. ASSUME NEW r \in Rank PROVE MovedOK(r)' /\ StagedOK(r)' /\ OutputOK(r)'
  <2>1. MovedOK(r) /\ StagedOK(r) /\ OutputOK(r)
    BY DEF DataInv
  <2> QED BY <2>1, RankStays
<1> QED BY <1>1 DEF DataInv

\* Outside its kernels a rank has nothing in hand.
LEMMA Idle ==
    ASSUME IInv, DataInv, NEW r \in Rank, ~ InKernel(r), NEW cta \in Cta
    PROVE  chunk[r][cta] = 0 /\ moved[r][cta] = {} /\ lanes[r][cta] = {}
  BY DEF IInv, KernelOK, DataInv, MovedOK

\* A submitted call has copied nothing, and the rank is in no kernel of it.
LEMMA SubmitData == ASSUME IInv, DataInv, NEW r \in Rank, Submit(r) PROVE DataInv'
<1>1. /\ workload' = workload /\ done' = done /\ mem' = mem
      /\ chunk' = chunk /\ moved' = moved /\ lanes' = lanes
      /\ submitted[r] \in Nat /\ submitted'[r] = submitted[r] + 1
      /\ \A q \in Rank \ {r} : submitted'[q] = submitted[q]
  BY DEF Submit, kernels, IInv, FunctionsOK
<1>2. ASSUME NEW q \in Rank \ {r} PROVE MovedOK(q)' /\ StagedOK(q)' /\ OutputOK(q)'
  <2>1. MovedOK(q) /\ StagedOK(q) /\ OutputOK(q) /\ submitted'[q] = submitted[q]
    BY <1>1 DEF DataInv
  <2> QED BY <1>1, <2>1, RankStays
<1>3. MovedOK(r) /\ StagedOK(r) /\ OutputOK(r)
  BY DEF DataInv
<1>4. /\ CallAt(r)' = CallAt(r) /\ CallAt(r) \in Nat
      /\ CallAt(r) > submitted[r] => done[r] % 3 = 0
      /\ InKernel(r) => InKernel(r)'
  <2>1. CallAt(r)' = CallAt(r)
    BY <1>1 DEF CallAt
  <2>2. CallAt(r) \in Nat /\ (CallAt(r) > submitted[r] => done[r] = 3 * submitted[r])
    BY StreamFacts DEF IInv
  <2>3. CallAt(r) > submitted[r] => done[r] % 3 = 0
    BY <1>1, <2>2
  <2>4. InKernel(r) => InKernel(r)'
    BY <1>1, <2>1, <2>2 DEF InKernel, InOp
  <2> QED BY <2>1, <2>2, <2>3, <2>4
<1>5. Current(r)' = Current(r) /\ \A cta : Moves(r, cta)' = Moves(r, cta)
  <2>1. Current(r)' = Current(r)
    BY <1>1, <1>4 DEF Current
  <2>2. ASSUME NEW cta PROVE Moves(r, cta)' = Moves(r, cta)
    BY <1>1, <1>4, <2>1 DEF Moves
  <2> QED BY <2>1, <2>2
<1>6. MovedOK(r)'
  BY <1>1, <1>3, <1>4, <1>5 DEF MovedOK
<1>7. StagedOK(r)'
  <2>1. \A x : HasStaged(r, x)' <=> HasStaged(r, x)
    BY <1>1, <1>4, <1>5 DEF HasStaged, Made
  <2>2. \A x : HasStaged(r, x) => CallAt(r) <= submitted[r]
    BY <1>1, <1>4 DEF HasStaged
  <2> QED BY <1>1, <1>3, <1>4, <1>5, <2>1, <2>2 DEF StagedOK
<1>8. OutputOK(r)'
  <2>1. ASSUME NEW n, NEW u PROVE Copied(r, n, u)' <=> Copied(r, n, u)
    <3>1. CASE CallAt(r) <= submitted[r]
      BY <1>1, <1>4, <3>1 DEF Copied, Made
    <3>2. CASE ~ CallAt(r) <= submitted[r]
      <4>1. done[r] % 3 = 0
        BY <1>1, <1>4, <3>2
      <4> QED BY <1>1, <1>4, <4>1 DEF Copied
    <3> QED BY <3>1, <3>2
  <2> QED BY <1>1, <1>3, <2>1 DEF OutputOK
<1> QED BY <1>1, <1>2, <1>6, <1>7, <1>8 DEF DataInv

\* The pre-barrier starts a call whose CTAs have moved nothing; the post-barrier ends
\* one all of whose units are copied.
LEMMA DepartData == ASSUME IInv, DataInv, NEW r \in Rank, Depart(r) PROVE DataInv'
<1>1. /\ workload' = workload /\ submitted' = submitted /\ mem' = mem
      /\ chunk' = chunk /\ moved' = moved /\ lanes' = lanes
      /\ done[r] \in Nat /\ done'[r] = done[r] + 1
      /\ \A q \in Rank \ {r} : done'[q] = done[q]
      /\ InOp(r, {0, 2})
  BY DEF Depart, kernels, IInv, FunctionsOK
<1>2. ASSUME NEW q \in Rank \ {r} PROVE MovedOK(q)' /\ StagedOK(q)' /\ OutputOK(q)'
  <2>1. MovedOK(q) /\ StagedOK(q) /\ OutputOK(q) /\ done'[q] = done[q]
    BY <1>1 DEF DataInv
  <2> QED BY <1>1, <2>1, RankStays
<1>3. MovedOK(r) /\ StagedOK(r) /\ OutputOK(r)
  BY DEF DataInv
<1>4. /\ CallAt(r) \in 1 .. Len(workload[r]) /\ CallAt(r) <= submitted[r]
      /\ \/ done[r] % 3 = 0 /\ CallAt(r)' = CallAt(r) /\ done'[r] % 3 = 1
         \/ done[r] % 3 = 2 /\ CallAt(r)' = CallAt(r) + 1 /\ done'[r] % 3 = 0
      /\ ~ InKernel(r)
  <2>1. /\ CallAt(r) \in 1 .. Len(workload[r]) /\ CallAt(r) <= submitted[r] /\ ~ InKernel(r)
        /\ done[r] % 3 # 1 /\ CallAt(r) = done[r] \div 3 + 1
    BY <1>1, StreamFacts DEF IInv
  <2>2. CallAt(r)' = done'[r] \div 3 + 1
    BY Ops DEF CallAt, OpsPerCall
  <2>3. /\ done[r] \div 3 \in Nat /\ done[r] % 3 \in {0, 2}
        /\ done[r] % 3 = 2 => (done[r] + 1) \div 3 = done[r] \div 3 + 1 /\ (done[r] + 1) % 3 = 0
        /\ done[r] % 3 # 2 => (done[r] + 1) \div 3 = done[r] \div 3 /\ (done[r] + 1) % 3 = (done[r] % 3) + 1
    <3>1. done[r] \in Nat /\ done[r] % 3 # 1
      BY <1>1, <2>1
    <3> DEFINE d == done[r]
    <3>2. d \in Nat /\ d % 3 # 1
      BY <3>1
    <3> HIDE DEF d
    <3>3. /\ d \div 3 \in Nat /\ d % 3 \in {0, 2}
          /\ d % 3 = 2 => (d + 1) \div 3 = d \div 3 + 1 /\ (d + 1) % 3 = 0
          /\ d % 3 # 2 => (d + 1) \div 3 = d \div 3 /\ (d + 1) % 3 = (d % 3) + 1
      BY <3>2, Threes
    <3> QED BY <3>3 DEF d
  <2> QED BY <1>1, <2>1, <2>2, <2>3
<1>5. \A cta \in Cta : chunk[r][cta] = 0 /\ moved[r][cta] = {} /\ lanes[r][cta] = {}
  BY <1>4, Idle
<1>6. MovedOK(r)'
  BY <1>1, <1>3, <1>5, CtaType DEF MovedOK
<1>7. \A cta \in Cta : \A k \in Nat : \A m : ~ Made(r, cta, k, m) /\ ~ Made(r, cta, k, m)'
  BY <1>1, <1>5 DEF Made
<1>8. StagedOK(r)'
  <2> SUFFICES ASSUME NEW x \in InputUnits(Current(r)'), HasStaged(r, x)' PROVE FALSE
    BY DEF StagedOK
  <2>1. done'[r] % 3 = 1 /\ CallAt(r)' = CallAt(r)
    BY <1>4 DEF HasStaged
  <2>2. Current(r)' = workload[r][CallAt(r)]
    BY <1>1, <2>1 DEF Current
  <2>3. Sender(ChannelOf(Current(r)', x)) \in Cta /\ ChunkOf(Current(r)', x) \in Nat
    BY <1>4, <2>2, InputParts, CtaType DEF IInv
  <2>4. Made(r, Sender(ChannelOf(Current(r), x)), ChunkOf(Current(r), x), Staging(r, CallAt(r), x))'
    BY <2>1 DEF HasStaged
  <2> QED BY <1>7, <2>3, <2>4
<1>9. OutputOK(r)'
  <2>1. ASSUME NEW n \in 1 .. Len(workload[r]), NEW u \in OutputUnits(workload[r][n], r)
        PROVE  Copied(r, n, u)' <=> Copied(r, n, u)
    <3> DEFINE c == workload[r][n]
    <3>1. CtaOf(c, r, u) \in Cta /\ ChunkOf(c, u) \in Nat
      BY OutputParts DEF IInv
    <3>2. ~ Made(r, CtaOf(c, r, u), ChunkOf(c, u), Arrival(c, r, n, u))
          /\ ~ Made(r, CtaOf(c, r, u), ChunkOf(c, u), Arrival(c, r, n, u))'
      <4> DEFINE d == CtaOf(c, r, u)
                 k == ChunkOf(c, u)
                 m == Arrival(c, r, n, u)
      <4>1. d' = d /\ k' = k /\ m' = m
        BY <1>1
      <4>2. d \in Cta /\ k \in Nat
        BY <3>1
      <4> HIDE DEF c, d, k, m
      <4>3. ~ Made(r, d, k, m) /\ ~ Made(r, d, k, m)'
        BY <1>7, <4>1, <4>2
      <4> QED BY <4>3 DEF d, k, m
    <3>3. Copied(r, n, u) <=> n < CallAt(r) \/ (n = CallAt(r) /\ n <= submitted[r] /\ done[r] % 3 = 2)
      BY <3>2 DEF Copied
    <3>4. Copied(r, n, u)' <=> n < CallAt(r)' \/ (n = CallAt(r)' /\ n <= submitted[r] /\ done'[r] % 3 = 2)
      BY <1>1, <3>2 DEF Copied
    <3> HIDE DEF c
    <3> QED BY <1>4, <3>3, <3>4
  <2> QED BY <1>1, <1>3, <2>1 DEF OutputOK
<1> QED BY <1>1, <1>2, <1>6, <1>8, <1>9 DEF DataInv

\* A CTA leaves a chunk when it has made all its moves.
LEMMA EndChunkData ==
    ASSUME IInv, DataInv, NEW r \in Rank, NEW cta \in Cta, EndChunk(r, cta)
    PROVE  DataInv'
<1> DEFINE k == chunk[r][cta]
<1>1. /\ workload' = workload /\ submitted' = submitted /\ done' = done /\ mem' = mem
      /\ DOMAIN moved' = Rank /\ DOMAIN moved'[r] = Cta
      /\ chunk'[r][cta] = k + 1 /\ moved'[r][cta] = {} /\ lanes'[r][cta] = {}
      /\ \A d \in Cta \ {cta} : chunk'[r][d] = chunk[r][d] /\ moved'[r][d] = moved[r][d] /\ lanes'[r][d] = lanes[r][d]
      /\ \A q \in Rank \ {r} : chunk'[q] = chunk[q] /\ moved'[q] = moved[q] /\ lanes'[q] = lanes[q]
      /\ moved[r][cta] = Moves(r, cta)
  <2>1. chunk \in [Rank -> [Cta -> Nat]] /\ lanes \in [Rank -> [Cta -> SUBSET Rank]]
        /\ DOMAIN moved = Rank /\ DOMAIN moved[r] = Cta
    BY DEF IInv, FunctionsOK, DataInv, MovedOK
  <2> QED BY <2>1 DEF EndChunk
<1>2. InKernel(r) /\ k \in Nat /\ k < Chunks(Current(r), cta[2])
  BY RunsFacts DEF EndChunk
<1>3. ASSUME NEW q \in Rank \ {r} PROVE MovedOK(q)' /\ StagedOK(q)' /\ OutputOK(q)'
  <2>1. MovedOK(q) /\ StagedOK(q) /\ OutputOK(q) /\ chunk'[q] = chunk[q] /\ moved'[q] = moved[q] /\ lanes'[q] = lanes[q]
    BY <1>1 DEF DataInv
  <2> QED BY <1>1, <2>1, RankStays
<1>4. MovedOK(r) /\ StagedOK(r) /\ OutputOK(r)
  BY DEF DataInv
<1>5. /\ CallAt(r)' = CallAt(r) /\ Current(r)' = Current(r) /\ (InKernel(r)' <=> InKernel(r))
      /\ \A d : chunk'[r][d] = chunk[r][d] => Moves(r, d)' = Moves(r, d)
  BY <1>1, Stands
<1>6. MovedOK(r)'
  <2>1. ASSUME NEW d \in Cta, moved'[r][d] # {}
        PROVE  /\ InKernel(r)' /\ chunk'[r][d] < Chunks(Current(r), d[2])'
               /\ moved'[r][d] \subseteq Moves(r, d)'
    BY <1>1, <1>4, <1>5, <2>1 DEF MovedOK
  <2>2. ASSUME NEW ch \in Channel, lanes'[r][Sender(ch)] # {}
        PROVE  moved'[r][Sender(ch)] = Moves(r, Sender(ch))'
    <3>1. Sender(ch) \in Cta \ {cta}
      BY <1>1, <2>2, CtaType
    <3> QED BY <1>1, <1>4, <1>5, <2>2, <3>1 DEF MovedOK
  <2> QED BY <1>1, <2>1, <2>2 DEF MovedOK
<1>7. ASSUME NEW d \in Cta, NEW j \in Nat, NEW m, d = cta /\ j = k => m \in Moves(r, cta)
      PROVE  Made(r, d, j, m)' <=> Made(r, d, j, m)
  <2>1. CASE d = cta
    BY <1>1, <1>2, <1>7, <2>1 DEF Made
  <2>2. CASE d # cta
    BY <1>1, <2>2 DEF Made
  <2> QED BY <2>1, <2>2
<1>8. StagedOK(r)'
  <2>1. ASSUME NEW x \in InputUnits(Current(r)) PROVE HasStaged(r, x)' <=> HasStaged(r, x)
    <3> DEFINE d == Sender(ChannelOf(Current(r), x))
               j == ChunkOf(Current(r), x)
               m == Staging(r, CallAt(r), x)
    <3>1. CallAt(r) \in 1 .. Len(workload[r]) /\ Current(r) = workload[r][CallAt(r)]
      BY <1>2, KernelFacts DEF IInv, Current
    <3>2. d \in Cta /\ j \in Nat
      BY <3>1, InputParts, CtaType DEF IInv
    <3>3. d = cta /\ j = k => m \in Moves(r, cta)
      BY <1>2, MovesAre
    <3>4. Made(r, d, j, m)' <=> Made(r, d, j, m)
      <4>1. \A e \in Cta, i \in Nat : \A o : (e = cta /\ i = k => o \in Moves(r, cta)) =>
               (Made(r, e, i, o)' <=> Made(r, e, i, o))
        BY <1>7
      <4>2. d' = d /\ j' = j /\ m' = m
        BY <1>5
      <4> HIDE DEF d, j, m
      <4> QED BY <3>2, <3>3, <4>1, <4>2
    <3> QED BY <1>1, <1>5, <3>4 DEF HasStaged
  <2> QED BY <1>1, <1>4, <1>5, <2>1 DEF StagedOK
<1>9. OutputOK(r)'
  <2>1. ASSUME NEW n \in 1 .. Len(workload[r]), NEW u \in OutputUnits(workload[r][n], r), n = CallAt(r)
        PROVE  LET c == workload[r][n]
               IN  Made(r, CtaOf(c, r, u), ChunkOf(c, u), Arrival(c, r, n, u))'
                      <=> Made(r, CtaOf(c, r, u), ChunkOf(c, u), Arrival(c, r, n, u))
    <3> DEFINE c == workload[r][n]
               d == CtaOf(c, r, u)
               j == ChunkOf(c, u)
               m == Arrival(c, r, n, u)
    <3>1. d \in Cta /\ j \in Nat
      BY OutputParts DEF IInv
    <3>2. d = cta /\ j = k => m \in Moves(r, cta)
      BY <1>2, <2>1, MovesAre DEF Current
    <3>3. \A e \in Cta, i \in Nat : \A o : (e = cta /\ i = k => o \in Moves(r, cta)) =>
             (Made(r, e, i, o)' <=> Made(r, e, i, o))
      BY <1>7
    <3>4. d' = d /\ j' = j /\ m' = m
      BY <1>1
    <3> HIDE DEF c, d, j, m
    <3>5. Made(r, d, j, m)' <=> Made(r, d, j, m)
      BY <3>1, <3>2, <3>3, <3>4
    <3> QED BY <3>5 DEF c, d, j, m
  <2>2. ASSUME NEW n \in 1 .. Len(workload[r]), NEW u \in OutputUnits(workload[r][n], r)
        PROVE  Copied(r, n, u)' <=> Copied(r, n, u)
    BY <1>1, <1>5, <2>1 DEF Copied
  <2> QED BY <1>1, <1>4, <2>2 DEF OutputOK
<1> QED BY <1>1, <1>3, <1>6, <1>8, <1>9 DEF DataInv

\* A kernel retires when every CTA has made the moves of all its chunks, so every
\* unit is staged or copied.
LEMMA RetireData == ASSUME IInv, DataInv, NEW r \in Rank, Retire(r) PROVE DataInv'
<1>1. /\ workload' = workload /\ submitted' = submitted /\ mem' = mem
      /\ moved' = moved /\ lanes' = lanes
      /\ done[r] \in Nat /\ done'[r] = done[r] + 1
      /\ \A q \in Rank \ {r} : done'[q] = done[q] /\ chunk'[q] = chunk[q]
      /\ \A cta \in Cta : chunk[r][cta] = Chunks(Current(r), cta[2]) /\ chunk[r][cta] \in Nat
      /\ InKernel(r)
  BY DEF Retire, Finished, IInv, FunctionsOK
<1>2. ASSUME NEW q \in Rank \ {r} PROVE MovedOK(q)' /\ StagedOK(q)' /\ OutputOK(q)'
  <2>1. MovedOK(q) /\ StagedOK(q) /\ OutputOK(q) /\ done'[q] = done[q] /\ chunk'[q] = chunk[q]
    BY <1>1 DEF DataInv
  <2> QED BY <1>1, <2>1, RankStays
<1>3. MovedOK(r) /\ StagedOK(r) /\ OutputOK(r)
  BY DEF DataInv
<1>4. /\ CallAt(r) \in 1 .. Len(workload[r]) /\ CallAt(r) <= submitted[r]
      /\ done[r] % 3 = 1 /\ CallAt(r)' = CallAt(r) /\ done'[r] % 3 = 2
      /\ Current(r) = workload[r][CallAt(r)] /\ Current(r)' = Current(r)
  <2>1. /\ CallAt(r) \in 1 .. Len(workload[r]) /\ CallAt(r) <= submitted[r]
        /\ done[r] % 3 = 1 /\ CallAt(r) = done[r] \div 3 + 1
    BY <1>1, StreamFacts DEF IInv
  <2>2. CallAt(r)' = done'[r] \div 3 + 1
    BY Ops DEF CallAt, OpsPerCall
  <2>3. (done[r] + 1) \div 3 = done[r] \div 3 /\ (done[r] + 1) % 3 = 2
    <3> DEFINE d == done[r]
    <3>1. d \in Nat /\ d % 3 = 1
      BY <1>1, <2>1
    <3> HIDE DEF d
    <3>2. (d + 1) \div 3 = d \div 3 /\ (d + 1) % 3 = 2
      BY <3>1, Threes
    <3> QED BY <3>2 DEF d
  <2>4. CallAt(r)' = CallAt(r)
    BY <1>1, <2>1, <2>2, <2>3
  <2> QED BY <1>1, <2>1, <2>3, <2>4 DEF Current
<1>5. \A cta \in Cta : moved[r][cta] = {} /\ lanes[r][cta] = {}
  <2> SUFFICES ASSUME NEW cta \in Cta PROVE moved[r][cta] = {} /\ lanes[r][cta] = {}
    OBVIOUS
  <2>1. ~ chunk[r][cta] < Chunks(Current(r), cta[2])
    BY <1>1
  <2> QED BY <1>3, <2>1 DEF MovedOK, IInv, KernelOK
<1>6. MovedOK(r)'
  BY <1>1, <1>3, <1>5, CtaType DEF MovedOK
<1>7. StagedOK(r)'
  <2>1. ASSUME NEW x \in InputUnits(Current(r)) PROVE HasStaged(r, x)
    <3> DEFINE ch == ChannelOf(Current(r), x)
    <3>1. ch \in Channel /\ ChunkOf(Current(r), x) \in Nat /\ ChunkOf(Current(r), x) < Chunks(Current(r), ch)
      BY <1>4, InputParts DEF IInv
    <3>2. chunk[r][Sender(ch)] = Chunks(Current(r), ch)
      BY <1>1, <3>1, CtaType DEF Sender
    <3> QED BY <1>4, <3>1, <3>2 DEF HasStaged, Made
  <2> QED BY <1>1, <1>3, <1>4, <2>1 DEF StagedOK
<1>8. OutputOK(r)'
  <2>1. ASSUME NEW n \in 1 .. Len(workload[r]), NEW u \in OutputUnits(workload[r][n], r), n = CallAt(r)
        PROVE  LET c == workload[r][n]
               IN  Made(r, CtaOf(c, r, u), ChunkOf(c, u), Arrival(c, r, n, u))
    <3> DEFINE c == workload[r][n]
               d == CtaOf(c, r, u)
    <3>1. /\ d \in Cta /\ d[2] = ChannelOf(c, u) /\ ChunkOf(c, u) \in Nat
          /\ ChunkOf(c, u) < Chunks(c, ChannelOf(c, u))
      BY OutputParts DEF IInv
    <3>2. c = Current(r)
      BY <1>4, <2>1
    <3> HIDE DEF c, d
    <3>3. chunk[r][d] = Chunks(c, ChannelOf(c, u))
      BY <1>1, <3>1, <3>2
    <3>4. ChunkOf(c, u) < chunk[r][d]
      BY <3>1, <3>3
    <3> QED BY <3>4 DEF Made, c, d
  <2>2. ASSUME NEW n \in 1 .. Len(workload[r]), NEW u \in OutputUnits(workload[r][n], r)
        PROVE  Copied(r, n, u)' <=> Copied(r, n, u)
    BY <1>1, <1>4, <2>1 DEF Copied
  <2> QED BY <1>1, <1>3, <2>2 DEF OutputOK
<1> QED BY <1>1, <1>2, <1>6, <1>7, <1>8 DEF DataInv

-----------------------------------------------------------------------------
(* Moves.                                                                  *)

\* What a unit of an output must hold: a unit of the input of the rank at its
\* place, in that rank's own call of the same name.
LEMMA ExpectedIs ==
    ASSUME workload \in Workloads, NEW r \in Rank, NEW n \in 1 .. Len(workload[r]),
           NEW u \in OutputUnits(workload[r][n], r)
    PROVE  LET c == workload[r][n]
               q == PeerAt(c.group, u \div c.size)
           IN  /\ q \in Rank /\ q \in Members[c.group]
               /\ \A m \in 1 .. Len(workload[q]) : SameCall(workload, r, n, q, m) =>
                     /\ workload[q][m] = c
                     /\ Expected(workload, r, n, u) = Input(q, m, SourceUnit(c, r, u))
               /\ Expected(workload, r, n, u) # Unwritten
<1> DEFINE c == workload[r][n]
           i == u \div c.size
           q == PeerAt(c.group, i)
           o == CHOOSE m \in DOMAIN workload[q] : SameCall(workload, r, n, q, m)
<1>1. /\ c.size \in Nat \ {0} /\ c.group \in Group /\ r \in Members[c.group]
      /\ i \in Peers(c.group) /\ n \in DOMAIN workload[r] /\ c.op \in {"all_gather", "all2all"}
  <2>1. n \in DOMAIN workload[r]
    BY CallFacts
  <2> QED BY <2>1, CallUnits, OutputParts, CallsAssumption
<1>2. q \in Members[c.group] /\ q \in Rank
  BY <1>1, Places, MembersType
<1>3. /\ DOMAIN workload[q] = 1 .. Len(workload[q]) /\ Len(workload[q]) \in Nat
  BY <1>2, CallFacts
<1>4. PICK m0 \in DOMAIN workload[q] : SameCall(workload, r, n, q, m0) /\ workload[q][m0] = c
  <2>1. Matched(workload)
    BY WorkloadsAssumption
  <2> QED BY <1>1, <1>2, <2>1 DEF Matched
<1>5. ASSUME NEW m \in DOMAIN workload[q], SameCall(workload, r, n, q, m) PROVE m = m0
  <2>1. workload[q][m].group = workload[q][m0].group /\ Ordinal(workload[q], m) = Ordinal(workload[q], m0)
    BY <1>4, <1>5 DEF SameCall
  <2> HIDE DEF q, c
  <2> QED BY <1>3, <1>4, <2>1, OrdinalInjective
<1>6. o = m0
  <2>1. o \in DOMAIN workload[q] /\ SameCall(workload, r, n, q, o)
    <3> HIDE DEF q, c
    <3> QED BY <1>4, Zenon
  <2> HIDE DEF o
  <2> QED BY <1>5, <2>1
<1>7. Expected(workload, r, n, u) = Input(q, o, SourceUnit(c, r, u))
  <2> DEFINE want == Wanted(c, r, u)
  <2>1. want.peer = i /\ want.unit = SourceUnit(c, r, u)
    BY <1>1 DEF Wanted, SourceUnit
  <2>2. Expected(workload, r, n, u) =
           LET p == PeerAt(c.group, want.peer)
               m == CHOOSE m \in DOMAIN workload[p] : SameCall(workload, r, n, p, m)
           IN  Input(p, m, want.unit)
    BY DEF Expected
  <2> HIDE DEF want, c
  <2> QED BY <2>1, <2>2
<1>8. Expected(workload, r, n, u) # Unwritten
  BY <1>7, Cells
<1>9. ASSUME NEW m \in 1 .. Len(workload[q]), SameCall(workload, r, n, q, m)
      PROVE  workload[q][m] = c /\ Expected(workload, r, n, u) = Input(q, m, SourceUnit(c, r, u))
  <2>1. m = m0
    <3> HIDE DEF q, c
    <3> QED BY <1>3, <1>5, <1>9
  <2> HIDE DEF q, c, o
  <2> QED BY <1>4, <1>6, <1>7, <2>1
<1> QED BY <1>2, <1>8, <1>9

\* A unit that a CTA may copy is what its place in the output must hold: the
\* rank's own input, or what a peer has staged of its input to that very call.
LEMMA Arrives ==
    ASSUME IInv, DataInv, NEW r \in Rank, NEW cta \in Cta, Runs(r, cta),
           cta[1] = "receiver" => lanes[r][cta] = Others(r),
           NEW u \in OutputUnits(Current(r), r),
           CtaOf(Current(r), r, u) = cta, ChunkOf(Current(r), u) = chunk[r][cta]
    PROVE  /\ Read(Origin(Current(r), r, CallAt(r), u)) = Expected(workload, r, CallAt(r), u)
           /\ Expected(workload, r, CallAt(r), u)[3] <= submitted[Expected(workload, r, CallAt(r), u)[2]]
<1> DEFINE c == Current(r)
           n == CallAt(r)
           i == u \div c.size
           q == PeerAt(c.group, i)
           x == SourceUnit(c, r, u)
           ch == ChannelOf(c, u)
           k == ChunkOf(c, u)
<1>1. /\ workload \in Workloads /\ InKernel(r) /\ n \in 1 .. Len(workload[r])
      /\ n <= submitted[r] /\ c = workload[r][n]
  BY RunsFacts, KernelFacts DEF IInv, Current
<1>2. /\ c.group \in Group /\ r \in Members[c.group]
      /\ i \in Peers(c.group) /\ x \in InputUnits(c) /\ ch \in Channel /\ k \in Nat
      /\ k < Chunks(c, ch) /\ ChannelOf(c, x) = ch /\ ChunkOf(c, x) = k
  <2> DEFINE d == workload[r][n]
  <2>1. d = c /\ n \in 1 .. Len(workload[r]) /\ u \in OutputUnits(workload[r][n], r)
    BY <1>1
  <2> HIDE DEF c, n
  <2>2. /\ d.group \in Group /\ r \in Members[d.group]
        /\ u \div d.size \in Peers(d.group) /\ SourceUnit(d, r, u) \in InputUnits(d)
        /\ ChannelOf(d, u) \in Channel /\ ChunkOf(d, u) \in Nat
        /\ ChunkOf(d, u) < Chunks(d, ChannelOf(d, u))
        /\ ChannelOf(d, SourceUnit(d, r, u)) = ChannelOf(d, u)
        /\ ChunkOf(d, SourceUnit(d, r, u)) = ChunkOf(d, u)
    BY <1>1, <2>1, CallUnits, OutputParts
  <2> HIDE DEF d
  <2> QED BY <2>1, <2>2
<1>3. /\ q \in Rank /\ q \in Members[c.group]
      /\ \A m \in 1 .. Len(workload[q]) : SameCall(workload, r, n, q, m) =>
            /\ workload[q][m] = c
            /\ Expected(workload, r, n, u) = Input(q, m, x)
  <2> DEFINE d == workload[r][n]
             p == PeerAt(d.group, u \div d.size)
  <2>1. d = c /\ n \in 1 .. Len(workload[r]) /\ u \in OutputUnits(workload[r][n], r)
    BY <1>1
  <2> HIDE DEF c, n
  <2>2. /\ p \in Rank /\ p \in Members[d.group]
        /\ \A m \in 1 .. Len(workload[p]) : SameCall(workload, r, n, p, m) =>
              /\ workload[p][m] = d
              /\ Expected(workload, r, n, u) = Input(p, m, SourceUnit(d, r, u))
    BY <1>1, <2>1, ExpectedIs
  <2> HIDE DEF d
  <2> QED BY <2>1, <2>2
<1>4. q = r <=> i = LocalIndex(c.group, r)
  BY <1>2, Places
<1>5. CASE i = LocalIndex(c.group, r)
  <2>1. Origin(c, r, n, u) = Input(r, n, x)
    BY <1>5 DEF Origin, Own
  <2>2. Expected(workload, r, n, u) = Input(r, n, x)
    <3>1. SameCall(workload, r, n, q, n) /\ q = r
      BY <1>4, <1>5 DEF SameCall
    <3> HIDE DEF q, c, n
    <3> QED BY <1>1, <1>3, <3>1
  <2>3. Read(Input(r, n, x)) = Input(r, n, x)
    BY Cells DEF Read
  <2>4. Input(r, n, x)[2] = r /\ Input(r, n, x)[3] = n
    BY Cells
  <2> HIDE DEF c, n, x
  <2> QED BY <1>1, <2>1, <2>2, <2>3, <2>4 DEF c, n
<1>6. CASE i # LocalIndex(c.group, r)
  <2>1. Origin(c, r, n, u) = Comm(q, x) /\ cta = Receiver(ch)
    BY <1>6 DEF Origin, Own, CtaOf
  <2>2. q \in Others(r)
    BY <1>3, <1>4, <1>6 DEF Others
  <2>3. lanes[r][Receiver(ch)] = Others(r) /\ Runs(r, Receiver(ch)) /\ chunk[r][Receiver(ch)] = k
    BY <2>1 DEF Receiver
  <2>4. /\ InOp(q, {1, 2})
        /\ SameCall(workload, r, n, q, CallAt(q))
        /\ \/ InOp(q, {2})
           \/ chunk[q][Sender(ch)] > k
           \/ chunk[q][Sender(ch)] = k /\ r \in lanes[q][Sender(ch)]
    <3>1. StagedBeforePull
      BY IInvStaged
    <3> QED BY <1>2, <2>2, <2>3, <3>1 DEF StagedBeforePull
  <2>5. /\ CallAt(q) \in 1 .. Len(workload[q]) /\ CallAt(q) <= submitted[q]
        /\ done[q] % 3 = 1 \/ done[q] % 3 = 2
        /\ InOp(q, {2}) => done[q] % 3 = 2
        /\ done[q] % 3 = 1 => InKernel(q)
    <3>1. CallAt(q) <= submitted[q] /\ done[q] % 3 \in {1, 2} /\ (InOp(q, {2}) => done[q] % 3 = 2)
      BY <2>4, Ops DEF InOp
    <3> QED BY <1>1, <1>3, <3>1, StreamFacts DEF IInv
  <2>6. Current(q) = c /\ Expected(workload, r, n, u) = Input(q, CallAt(q), x)
    <3> HIDE DEF q, c, n, x
    <3> QED BY <1>3, <2>4, <2>5 DEF Current
  <2>7. HasStaged(q, x)
    <3>1. CASE done[q] % 3 = 2
      BY <3>1 DEF HasStaged
    <3>2. CASE done[q] % 3 = 1
      <4>1. chunk[q][Sender(ch)] > k \/ (chunk[q][Sender(ch)] = k /\ r \in lanes[q][Sender(ch)])
        BY <2>4, <2>5, <3>2
      <4>2. Sender(ch) \in Cta /\ chunk[q][Sender(ch)] \in Nat
        BY <1>2, <1>3, CtaType DEF IInv, FunctionsOK
      <4>3. CASE chunk[q][Sender(ch)] > k
        <5>1. Made(q, Sender(ch), k, Staging(q, CallAt(q), x))
          BY <1>2, <4>2, <4>3 DEF Made
        <5> HIDE DEF c, ch, k, x, q
        <5> QED BY <1>2, <2>6, <3>2, <5>1 DEF HasStaged
      <4>4. CASE chunk[q][Sender(ch)] = k /\ r \in lanes[q][Sender(ch)]
        <5>1. moved[q][Sender(ch)] = Moves(q, Sender(ch))
          BY <1>2, <1>3, <4>4 DEF DataInv, MovedOK
        <5>2. Sender(ch)[2] = ch
          BY DEF Sender
        <5>3. chunk[q][Sender(ch)] < Chunks(Current(q), Sender(ch)[2]) /\ InKernel(q)
          BY <1>2, <2>5, <2>6, <3>2, <4>4, <5>2
        <5>4. Staging(q, CallAt(q), x) \in Moves(q, Sender(ch))
          <6> HIDE DEF c, ch, k, x, q
          <6>1. \A y \in InputUnits(Current(q)) :
                   Sender(ch) = Sender(ChannelOf(Current(q), y)) /\ ChunkOf(Current(q), y) = chunk[q][Sender(ch)]
                      => Staging(q, CallAt(q), y) \in Moves(q, Sender(ch))
            BY <1>3, <4>2, <5>3, MovesAre
          <6> QED BY <1>2, <2>6, <4>4, <6>1
        <5>5. Made(q, Sender(ch), k, Staging(q, CallAt(q), x))
          BY <4>4, <5>1, <5>4 DEF Made
        <5> HIDE DEF c, ch, k, x, q
        <5> QED BY <1>2, <2>6, <3>2, <5>5 DEF HasStaged
      <4> QED BY <4>1, <4>3, <4>4
    <3> QED BY <2>5, <3>1, <3>2
  <2>8. mem[Comm(q, x)] = Input(q, CallAt(q), x)
    <3> HIDE DEF c, x, q
    <3> QED BY <1>2, <1>3, <2>5, <2>6, <2>7 DEF DataInv, StagedOK
  <2>9. Read(Comm(q, x)) = mem[Comm(q, x)]
    BY Cells DEF Read
  <2>10. Input(q, CallAt(q), x)[2] = q /\ Input(q, CallAt(q), x)[3] = CallAt(q)
    BY Cells
  <2> HIDE DEF c, n, x, q
  <2> QED BY <2>1, <2>5, <2>6, <2>8, <2>9, <2>10 DEF c, n
<1> QED BY <1>5, <1>6

\* A move is made of the CTA's chunk, and copies one cell.
LEMMA MoveFacts ==
    ASSUME IInv, DataInv, NEW r \in Rank, NEW cta \in Cta, Move(r, cta)
    PROVE  /\ UNCHANGED <<workload, submitted, done, chunk, lanes>>
           /\ workload \in Workloads /\ InKernel(r) /\ CallAt(r) \in 1 .. Len(workload[r])
           /\ CallAt(r) <= submitted[r] /\ Current(r) = workload[r][CallAt(r)] /\ done[r] % 3 = 1
           /\ chunk[r][cta] < Chunks(Current(r), cta[2])
           /\ Runs(r, cta) /\ (cta[1] = "receiver" => lanes[r][cta] = Others(r))
           /\ DOMAIN mem' = DOMAIN mem /\ DOMAIN moved' = Rank /\ DOMAIN moved'[r] = Cta
           /\ \E m \in Moves(r, cta) \ moved[r][cta] :
                 /\ \A d \in Cta : moved'[r][d] = IF d = cta THEN moved[r][cta] \cup {m} ELSE moved[r][d]
                 /\ \A q \in Rank \ {r} : moved'[q] = moved[q]
                 /\ \A y \in DOMAIN mem : mem'[y] = IF y = m.to THEN Read(m.from) ELSE mem[y]
                 /\ \/ \E u \in OutputUnits(Current(r), r) :
                          /\ CtaOf(Current(r), r, u) = cta /\ ChunkOf(Current(r), u) = chunk[r][cta]
                          /\ m = Arrival(Current(r), r, CallAt(r), u)
                    \/ \E x \in InputUnits(Current(r)) :
                          /\ cta = Sender(ChannelOf(Current(r), x)) /\ ChunkOf(Current(r), x) = chunk[r][cta]
                          /\ m = Staging(r, CallAt(r), x)
<1>1. /\ InKernel(r) /\ chunk[r][cta] < Chunks(Current(r), cta[2])
      /\ Runs(r, cta) /\ (cta[1] = "receiver" => lanes[r][cta] = Others(r))
      /\ UNCHANGED <<workload, submitted, done, chunk, lanes>> /\ workload \in Workloads
  BY RunsFacts DEF Move, IInv
<1>2. /\ CallAt(r) \in 1 .. Len(workload[r]) /\ CallAt(r) <= submitted[r]
      /\ Current(r) = workload[r][CallAt(r)] /\ done[r] % 3 = 1
  BY <1>1, KernelFacts, StreamFacts DEF IInv, Current
<1>3. PICK m \in Moves(r, cta) \ moved[r][cta] :
         /\ mem' = [mem EXCEPT ![m.to] = Read(m.from)]
         /\ moved' = [moved EXCEPT ![r][cta] = @ \cup {m}]
  BY DEF Move
<1>4. DOMAIN moved = Rank /\ DOMAIN moved[r] = Cta
  BY DEF DataInv, MovedOK
<1>5. /\ DOMAIN mem' = DOMAIN mem
      /\ \A y \in DOMAIN mem : mem'[y] = IF y = m.to THEN Read(m.from) ELSE mem[y]
  BY <1>3
<1>6. /\ DOMAIN moved' = Rank /\ DOMAIN moved'[r] = Cta
      /\ \A d \in Cta : moved'[r][d] = IF d = cta THEN moved[r][cta] \cup {m} ELSE moved[r][d]
      /\ \A q \in Rank \ {r} : moved'[q] = moved[q]
  BY <1>3, <1>4
<1>7. \/ \E u \in OutputUnits(Current(r), r) :
            /\ CtaOf(Current(r), r, u) = cta /\ ChunkOf(Current(r), u) = chunk[r][cta]
            /\ m = Arrival(Current(r), r, CallAt(r), u)
      \/ \E x \in InputUnits(Current(r)) :
            /\ cta = Sender(ChannelOf(Current(r), x)) /\ ChunkOf(Current(r), x) = chunk[r][cta]
            /\ m = Staging(r, CallAt(r), x)
  BY <1>1, <1>3, MovesAre
<1> QED BY <1>1, <1>2, <1>3, <1>5, <1>6, <1>7

\* A unit of an output that a CTA copies: the cell gets what it must hold, and had
\* nothing before.
LEMMA ArrivalStep ==
    ASSUME IInv, DataInv, NEW r \in Rank, NEW cta \in Cta, Move(r, cta),
           NEW u \in OutputUnits(Current(r), r),
           CtaOf(Current(r), r, u) = cta, ChunkOf(Current(r), u) = chunk[r][cta],
           Arrival(Current(r), r, CallAt(r), u) \notin moved[r][cta],
           \A d \in Cta : moved'[r][d] =
              IF d = cta THEN moved[r][cta] \cup {Arrival(Current(r), r, CallAt(r), u)} ELSE moved[r][d],
           \A q \in Rank \ {r} : moved'[q] = moved[q],
           \A y \in DOMAIN mem : mem'[y] =
              IF y = Output(r, CallAt(r), u) THEN Read(Origin(Current(r), r, CallAt(r), u)) ELSE mem[y]
    PROVE  /\ mem[Output(r, CallAt(r), u)] = Unwritten
           /\ mem'[Output(r, CallAt(r), u)] = Expected(workload, r, CallAt(r), u)
           /\ StagedOK(r)' /\ OutputOK(r)'
<1> DEFINE c == Current(r)
           n == CallAt(r)
           k == chunk[r][cta]
           a == Arrival(c, r, n, u)
<1>1. /\ UNCHANGED <<workload, submitted, done, chunk, lanes>>
      /\ workload \in Workloads /\ InKernel(r) /\ n \in 1 .. Len(workload[r])
      /\ n <= submitted[r] /\ c = workload[r][n] /\ done[r] % 3 = 1
      /\ Runs(r, cta) /\ (cta[1] = "receiver" => lanes[r][cta] = Others(r))
  BY MoveFacts
<1>2. k \in Nat /\ n \in Nat
  BY <1>1 DEF IInv, FunctionsOK
<1>3. /\ CallAt(r)' = n /\ Current(r)' = c
  BY <1>1, Stands
<1>4. ~ Copied(r, n, u)
  <2>1. ~ Made(r, CtaOf(c, r, u), ChunkOf(c, u), a)
    BY <1>2 DEF Made
  <2> HIDE DEF n, c, a
  <2>2. ~ Made(r, CtaOf(workload[r][n], r, u), ChunkOf(workload[r][n], u), Arrival(workload[r][n], r, n, u))
    BY <1>1, <2>1 DEF a
  <2>3. n = CallAt(r)
    BY DEF n
  <2> QED BY <1>1, <1>2, <2>2, <2>3 DEF Copied
<1>5. u \in OutputUnits(workload[r][n], r)
  BY <1>1
<1>6. Output(r, n, u) \in DOMAIN mem
  <2> HIDE DEF n
  <2>1. Output(r, n, u) \in OutputCells(workload)
    BY <1>1, <1>5, OutputCell
  <2> QED BY <2>1 DEF DataInv
<1>7. mem[Output(r, n, u)] = Unwritten
  <2> HIDE DEF n
  <2> QED BY <1>1, <1>4, <1>5 DEF DataInv, OutputOK
<1>8. mem'[Output(r, n, u)] = Expected(workload, r, n, u)
  <2>1. Read(Origin(c, r, n, u)) = Expected(workload, r, n, u)
    BY <1>1, Arrives
  <2> QED BY <1>6, <2>1
<1>9. ASSUME NEW d \in Cta, NEW m, m # a PROVE m \in moved'[r][d] <=> m \in moved[r][d]
  <2>1. moved'[r][d] = IF d = cta THEN moved[r][cta] \cup {a} ELSE moved[r][d]
    OBVIOUS
  <2> HIDE DEF a
  <2> QED BY <1>9, <2>1
<1>10. StagedOK(r)'
  <2> SUFFICES ASSUME NEW x \in InputUnits(c), HasStaged(r, x)'
               PROVE  mem'[Comm(r, x)] = Input(r, n, x)
    BY <1>1, <1>3 DEF StagedOK
  <2> DEFINE d == Sender(ChannelOf(c, x))
             j == ChunkOf(c, x)
             m == Staging(r, n, x)
  <2>1. j < chunk[r][d] \/ (j = chunk[r][d] /\ m \in moved'[r][d])
    BY <1>1, <1>3 DEF HasStaged, Made
  <2>2. m # a
    <3>1. m.to = Comm(r, x) /\ a.to = Output(r, n, u)
      BY DEF Staging, Arrival
    <3> HIDE DEF m, a
    <3> QED BY <3>1, Cells
  <2>3. d \in Cta
    <3> HIDE DEF n
    <3> QED BY <1>1, InputParts, CtaType
  <2>4. HasStaged(r, x)
    <3>1. m \in moved'[r][d] <=> m \in moved[r][d]
      <4> HIDE DEF a, m, d
      <4> QED BY <1>9, <2>2, <2>3
    <3> QED BY <1>1, <2>1, <3>1 DEF HasStaged, Made
  <2>5. mem[Comm(r, x)] = Input(r, n, x)
    BY <1>1, <2>4 DEF DataInv, StagedOK
  <2>6. Comm(r, x) \in DOMAIN mem /\ Comm(r, x) # Output(r, n, u)
    <3>1. x \in 0 .. CommSize - 1
      <4> HIDE DEF n
      <4> QED BY <1>1, CallUnits
    <3>2. Comm(r, x) \in DOMAIN mem
      BY <3>1 DEF DataInv, CommCells
    <3>3. Comm(r, x) # Output(r, n, u)
      BY Cells
    <3> QED BY <3>2, <3>3
  <2> QED BY <2>5, <2>6
<1>11. OutputOK(r)'
  <2> SUFFICES ASSUME NEW i \in 1 .. Len(workload[r]), NEW v \in OutputUnits(workload[r][i], r)
               PROVE  mem'[Output(r, i, v)] =
                         IF Copied(r, i, v)' THEN Expected(workload, r, i, v) ELSE Unwritten
    BY <1>1 DEF OutputOK
  <2>1. Output(r, i, v) \in DOMAIN mem
    <3>1. Output(r, i, v) \in OutputCells(workload)
      BY <1>1, OutputCell
    <3> QED BY <3>1 DEF DataInv
  <2>2. mem[Output(r, i, v)] = IF Copied(r, i, v) THEN Expected(workload, r, i, v) ELSE Unwritten
    BY DEF DataInv, OutputOK
  <2>3. CASE i = n /\ v = u
    <3>1. Copied(r, i, v)'
      <4>1. a \in moved'[r][cta]
        OBVIOUS
      <4>2. CtaOf(c, r, u) = cta /\ ChunkOf(c, u) = k
        OBVIOUS
      <4> HIDE DEF a, c, k, n
      <4>3. /\ i = CallAt(r)' /\ i <= submitted'[r] /\ done'[r] % 3 = 1
            /\ workload'[r][i] = c /\ Arrival(c, r, i, v) = a
            /\ CtaOf(c, r, v) = cta /\ ChunkOf(c, v) = k /\ k = chunk'[r][cta]
        BY <1>1, <1>3, <2>3, <4>2 DEF a, k
      <4> QED BY <4>1, <4>3 DEF Copied, Made
    <3> HIDE DEF n
    <3> QED BY <1>8, <2>3, <3>1
  <2>4. CASE ~ (i = n /\ v = u)
    <3>1. Copied(r, i, v)' <=> Copied(r, i, v)
      <4>1. CASE i # n
        BY <1>1, <1>3, <4>1 DEF Copied
      <4>2. CASE i = n
        <5> DEFINE d == CtaOf(c, r, v)
                   m == Arrival(c, r, n, v)
        <5>1. m # a
          <6>1. m.to = Output(r, n, v) /\ a.to = Output(r, n, u)
            BY DEF Arrival
          <6> HIDE DEF m, a, n
          <6> QED BY <2>4, <4>2, <6>1, Cells
        <5>2. d \in Cta
          <6>1. v \in OutputUnits(workload[r][n], r)
            BY <4>2
          <6> HIDE DEF n, c
          <6> QED BY <1>1, <6>1, OutputParts DEF d
        <5>3. m \in moved'[r][d] <=> m \in moved[r][d]
          <6> HIDE DEF a, m, d
          <6> QED BY <1>9, <5>1, <5>2
        <5>4. Copied(r, i, v) <=>
                 ChunkOf(c, v) < chunk[r][d] \/ (ChunkOf(c, v) = chunk[r][d] /\ m \in moved[r][d])
          <6> HIDE DEF c, n
          <6> QED BY <1>1, <1>2, <4>2 DEF Copied, Made, n
        <5>5. Copied(r, i, v)' <=>
                 ChunkOf(c, v) < chunk[r][d] \/ (ChunkOf(c, v) = chunk[r][d] /\ m \in moved'[r][d])
          <6> HIDE DEF c, n
          <6> QED BY <1>1, <1>2, <1>3, <4>2 DEF Copied, Made
        <5> HIDE DEF m, d, c, n
        <5> QED BY <5>3, <5>4, <5>5
      <4> QED BY <4>1, <4>2
    <3>2. Output(r, i, v) # Output(r, n, u)
      <4> HIDE DEF n
      <4> QED BY <2>4, Cells
    <3>3. mem'[Output(r, i, v)] = mem[Output(r, i, v)]
      <4> DEFINE y == Output(r, i, v)
      <4> HIDE DEF y
      <4> QED BY <2>1, <3>2 DEF y
    <3> QED BY <2>2, <3>1, <3>3
  <2> QED BY <2>3, <2>4
<1> QED BY <1>7, <1>8, <1>10, <1>11

\* A unit of the input that a sender stages.
LEMMA StagingStep ==
    ASSUME IInv, DataInv, NEW r \in Rank, NEW cta \in Cta, Move(r, cta),
           NEW z \in InputUnits(Current(r)),
           \A d \in Cta : moved'[r][d] =
              IF d = cta THEN moved[r][cta] \cup {Staging(r, CallAt(r), z)} ELSE moved[r][d],
           \A y \in DOMAIN mem : mem'[y] =
              IF y = Comm(r, z) THEN Read(Input(r, CallAt(r), z)) ELSE mem[y]
    PROVE  StagedOK(r)' /\ OutputOK(r)'
<1> DEFINE c == Current(r)
           n == CallAt(r)
           a == Staging(r, n, z)
<1>1. /\ UNCHANGED <<workload, submitted, done, chunk, lanes>>
      /\ workload \in Workloads /\ n \in 1 .. Len(workload[r])
      /\ n <= submitted[r] /\ c = workload[r][n] /\ done[r] % 3 = 1
  BY MoveFacts
<1>2. CallAt(r)' = n /\ Current(r)' = c
  BY <1>1, Stands
<1>3. ASSUME NEW d \in Cta, NEW m, m # a PROVE m \in moved'[r][d] <=> m \in moved[r][d]
  <2>1. moved'[r][d] = IF d = cta THEN moved[r][cta] \cup {a} ELSE moved[r][d]
    OBVIOUS
  <2> HIDE DEF a
  <2> QED BY <1>3, <2>1
<1>4. StagedOK(r)'
  <2> SUFFICES ASSUME NEW x \in InputUnits(c), HasStaged(r, x)'
               PROVE  mem'[Comm(r, x)] = Input(r, n, x)
    BY <1>1, <1>2 DEF StagedOK
  <2>1. Comm(r, x) \in DOMAIN mem
    <3>1. x \in 0 .. CommSize - 1
      <4> HIDE DEF n
      <4> QED BY <1>1, CallUnits
    <3> QED BY <3>1 DEF DataInv, CommCells
  <2>2. CASE x = z
    <3>1. Read(Input(r, n, x)) = Input(r, n, x)
      BY Cells DEF Read
    <3> QED BY <2>1, <2>2, <3>1
  <2>3. CASE x # z
    <3> DEFINE d == Sender(ChannelOf(c, x))
               j == ChunkOf(c, x)
               m == Staging(r, n, x)
    <3>1. j < chunk[r][d] \/ (j = chunk[r][d] /\ m \in moved'[r][d])
      BY <1>1, <1>2 DEF HasStaged, Made
    <3>2. m # a
      <4>1. m.to = Comm(r, x) /\ a.to = Comm(r, z)
        BY DEF Staging
      <4> HIDE DEF m, a
      <4> QED BY <2>3, <4>1, Cells
    <3>3. d \in Cta
      <4> HIDE DEF n
      <4> QED BY <1>1, InputParts, CtaType
    <3>4. HasStaged(r, x)
      <4>1. m \in moved'[r][d] <=> m \in moved[r][d]
        <5> HIDE DEF a, m, d
        <5> QED BY <1>3, <3>2, <3>3
      <4> QED BY <1>1, <3>1, <4>1 DEF HasStaged, Made
    <3>5. mem[Comm(r, x)] = Input(r, n, x)
      BY <1>1, <3>4 DEF DataInv, StagedOK
    <3>6. Comm(r, x) # Comm(r, z)
      BY <2>3, Cells
    <3> QED BY <2>1, <3>5, <3>6
  <2> QED BY <2>2, <2>3
<1>5. OutputOK(r)'
  <2> SUFFICES ASSUME NEW i \in 1 .. Len(workload[r]), NEW v \in OutputUnits(workload[r][i], r)
               PROVE  mem'[Output(r, i, v)] =
                         IF Copied(r, i, v)' THEN Expected(workload, r, i, v) ELSE Unwritten
    BY <1>1 DEF OutputOK
  <2>1. Output(r, i, v) \in DOMAIN mem /\ Output(r, i, v) # Comm(r, z)
    <3>1. Output(r, i, v) \in OutputCells(workload)
      BY <1>1, OutputCell
    <3> QED BY <3>1, Cells DEF DataInv
  <2>2. mem[Output(r, i, v)] = IF Copied(r, i, v) THEN Expected(workload, r, i, v) ELSE Unwritten
    BY DEF DataInv, OutputOK
  <2>3. Copied(r, i, v)' <=> Copied(r, i, v)
    <3> DEFINE e == workload[r][i]
               d == CtaOf(e, r, v)
               m == Arrival(e, r, i, v)
    <3>1. m # a
      <4>1. m.to = Output(r, i, v) /\ a.to = Comm(r, z)
        BY DEF Arrival, Staging
      <4> HIDE DEF m, a, n
      <4> QED BY <4>1, Cells
    <3>2. d \in Cta
      BY <1>1, OutputParts
    <3>3. m \in moved'[r][d] <=> m \in moved[r][d]
      <4> HIDE DEF a, m, d
      <4> QED BY <1>3, <3>1, <3>2
    <3> QED BY <1>1, <1>2, <3>3 DEF Copied, Made
  <2> QED BY <2>1, <2>2, <2>3
<1> QED BY <1>4, <1>5

\* A move copies one unit that is staged to its output, or stages one unit of the
\* input in the comm_buf.
LEMMA MoveData ==
    ASSUME IInv, DataInv, NEW r \in Rank, NEW cta \in Cta, Move(r, cta)
    PROVE  /\ DataInv'
           /\ \/ \A x \in OutputCells(workload) : mem'[x] = mem[x]
              \/ \E u \in OutputUnits(workload[r][CallAt(r)], r) :
                    /\ mem[Output(r, CallAt(r), u)] = Unwritten
                    /\ Expected(workload, r, CallAt(r), u)[3]
                          <= submitted[Expected(workload, r, CallAt(r), u)[2]]
                    /\ mem'[Output(r, CallAt(r), u)] = Expected(workload, r, CallAt(r), u)
                    /\ \A x \in OutputCells(workload) :
                          x # Output(r, CallAt(r), u) => mem'[x] = mem[x]
<1> DEFINE c == Current(r)
           n == CallAt(r)
           k == chunk[r][cta]
<1>1. /\ UNCHANGED <<workload, submitted, done, chunk, lanes>>
      /\ workload \in Workloads /\ InKernel(r) /\ n \in 1 .. Len(workload[r])
      /\ n <= submitted[r] /\ c = workload[r][n]
      /\ k < Chunks(c, cta[2])
      /\ Runs(r, cta) /\ (cta[1] = "receiver" => lanes[r][cta] = Others(r))
      /\ DOMAIN mem' = DOMAIN mem /\ DOMAIN moved' = Rank /\ DOMAIN moved'[r] = Cta
  BY MoveFacts
<1>2. PICK m \in Moves(r, cta) \ moved[r][cta] :
         /\ \A d \in Cta : moved'[r][d] = IF d = cta THEN moved[r][cta] \cup {m} ELSE moved[r][d]
         /\ \A q \in Rank \ {r} : moved'[q] = moved[q]
         /\ \A y \in DOMAIN mem : mem'[y] = IF y = m.to THEN Read(m.from) ELSE mem[y]
         /\ \/ \E u \in OutputUnits(c, r) :
                  CtaOf(c, r, u) = cta /\ ChunkOf(c, u) = k /\ m = Arrival(c, r, n, u)
            \/ \E x \in InputUnits(c) :
                  cta = Sender(ChannelOf(c, x)) /\ ChunkOf(c, x) = k /\ m = Staging(r, n, x)
  BY MoveFacts
<1>3. DOMAIN mem = CommCells \cup OutputCells(workload)
  BY DEF DataInv
<1>4. /\ (InKernel(r)' <=> InKernel(r)) /\ Current(r)' = c
      /\ \A d : Moves(r, d)' = Moves(r, d)
  BY <1>1, Stands
<1>5. MovedOK(r)'
  <2>0. MovedOK(r)
    BY DEF DataInv
  <2>1. ASSUME NEW d \in Cta, moved'[r][d] # {}
        PROVE  /\ InKernel(r)' /\ chunk'[r][d] < Chunks(Current(r), d[2])'
               /\ moved'[r][d] \subseteq Moves(r, d)'
    <3>1. CASE d = cta
      <4>1. moved[r][cta] \subseteq Moves(r, cta)
        BY <2>0 DEF MovedOK
      <4> QED BY <1>1, <1>2, <1>4, <3>1, <4>1
    <3>2. CASE d # cta
      BY <1>1, <1>2, <1>4, <2>0, <2>1, <3>2 DEF MovedOK
    <3> QED BY <3>1, <3>2
  <2>2. ASSUME NEW ch \in Channel, lanes'[r][Sender(ch)] # {}
        PROVE  moved'[r][Sender(ch)] = Moves(r, Sender(ch))'
    <3>1. moved[r][Sender(ch)] = Moves(r, Sender(ch)) /\ Sender(ch) \in Cta
      BY <1>1, <2>0, <2>2, CtaType DEF MovedOK
    <3> QED BY <1>2, <1>4, <3>1
  <2> QED BY <1>1, <2>1, <2>2 DEF MovedOK
<1>6. ASSUME NEW q \in Rank \ {r}, CallAt(q) <= submitted[q], NEW x \in InputUnits(Current(q))
      PROVE  Comm(q, x) \in DOMAIN mem
  <2>1. CallAt(q) \in 1 .. Len(workload[q])
    BY <1>6, StreamFacts DEF IInv
  <2>2. x \in 0 .. CommSize - 1
    BY <1>1, <1>6, <2>1, CallUnits DEF Current
  <2> QED BY <1>3, <2>2 DEF CommCells
<1>7. ASSUME \A q \in Rank \ {r} : \A x, i : m.to # Comm(q, x) /\ m.to # Output(q, i, x)
      PROVE  \A q \in Rank \ {r} : MovedOK(q)' /\ StagedOK(q)' /\ OutputOK(q)'
  <2> SUFFICES ASSUME NEW q \in Rank \ {r} PROVE MovedOK(q)' /\ StagedOK(q)' /\ OutputOK(q)'
    OBVIOUS
  <2>1. MovedOK(q) /\ StagedOK(q) /\ OutputOK(q) /\ moved'[q] = moved[q]
    BY <1>2 DEF DataInv
  <2>2. CallAt(q) <= submitted[q] =>
           \A x \in InputUnits(Current(q)) : mem'[Comm(q, x)] = mem[Comm(q, x)]
    BY <1>2, <1>6, <1>7
  <2>3. \A i \in 1 .. Len(workload[q]) : \A u \in OutputUnits(workload[q][i], q) :
           mem'[Output(q, i, u)] = mem[Output(q, i, u)]
    BY <1>1, <1>2, <1>3, <1>7, OutputCell
  <2> QED BY <1>1, <2>1, <2>2, <2>3, RankStays
<1>8. CASE \E u \in OutputUnits(c, r) :
              CtaOf(c, r, u) = cta /\ ChunkOf(c, u) = k /\ m = Arrival(c, r, n, u)
  <2>1. PICK u \in OutputUnits(c, r) :
           CtaOf(c, r, u) = cta /\ ChunkOf(c, u) = k /\ m = Arrival(c, r, n, u)
    BY <1>8
  <2>2. m.to = Output(r, n, u) /\ m.from = Origin(c, r, n, u)
    BY <2>1 DEF Arrival
  <2>3. /\ mem[Output(r, n, u)] = Unwritten
        /\ mem'[Output(r, n, u)] = Expected(workload, r, n, u)
        /\ StagedOK(r)' /\ OutputOK(r)'
    <3>1. Arrival(c, r, n, u) \notin moved[r][cta]
      BY <2>1
    <3>2. /\ \A d \in Cta : moved'[r][d] =
                IF d = cta THEN moved[r][cta] \cup {Arrival(c, r, n, u)} ELSE moved[r][d]
          /\ \A q \in Rank \ {r} : moved'[q] = moved[q]
      BY <1>2, <2>1
    <3>3. \A y \in DOMAIN mem : mem'[y] =
             IF y = Output(r, n, u) THEN Read(Origin(c, r, n, u)) ELSE mem[y]
      BY <1>2, <2>2
    <3> QED BY <2>1, <3>1, <3>2, <3>3, ArrivalStep
  <2>4. Expected(workload, r, n, u)[3] <= submitted[Expected(workload, r, n, u)[2]]
    BY <1>1, <2>1, Arrives
  <2>5. \A q \in Rank \ {r} : MovedOK(q)' /\ StagedOK(q)' /\ OutputOK(q)'
    <3> HIDE DEF n, c
    <3> QED BY <1>7, <2>2, Cells
  <2>6. \A x \in OutputCells(workload) : x # Output(r, n, u) => mem'[x] = mem[x]
    BY <1>2, <1>3, <2>2
  <2>7. u \in OutputUnits(workload[r][n], r)
    BY <1>1
  <2>8. DataInv'
    BY <1>1, <1>3, <1>5, <2>3, <2>5 DEF DataInv
  <2> QED BY <2>3, <2>4, <2>6, <2>7, <2>8
<1>9. CASE \E x \in InputUnits(c) :
              cta = Sender(ChannelOf(c, x)) /\ ChunkOf(c, x) = k /\ m = Staging(r, n, x)
  <2>1. PICK x \in InputUnits(c) : m = Staging(r, n, x)
    BY <1>9
  <2>2. m.to = Comm(r, x) /\ m.from = Input(r, n, x)
    BY <2>1 DEF Staging
  <2>3. StagedOK(r)' /\ OutputOK(r)'
    <3>1. \A d \in Cta : moved'[r][d] =
             IF d = cta THEN moved[r][cta] \cup {Staging(r, n, x)} ELSE moved[r][d]
      BY <1>2, <2>1
    <3>2. \A y \in DOMAIN mem : mem'[y] =
             IF y = Comm(r, x) THEN Read(Input(r, n, x)) ELSE mem[y]
      BY <1>2, <2>2
    <3> QED BY <2>1, <3>1, <3>2, StagingStep
  <2>4. \A q \in Rank \ {r} : MovedOK(q)' /\ StagedOK(q)' /\ OutputOK(q)'
    <3> HIDE DEF n, c
    <3> QED BY <1>7, <2>2, Cells
  <2>5. \A y \in OutputCells(workload) : mem'[y] = mem[y]
    <3>1. ASSUME NEW y \in OutputCells(workload) PROVE y # Comm(r, x)
      <4>1. \E q, i, u : y = Output(q, i, u)
        BY <1>1, OutputCell
      <4>2. PICK q, i, u : y = Output(q, i, u)
        BY <4>1
      <4>3. Comm(r, x) # Output(q, i, u)
        BY Cells
      <4> QED BY <4>2, <4>3
    <3> QED BY <1>2, <1>3, <2>2, <3>1
  <2>6. DataInv'
    BY <1>1, <1>3, <1>5, <2>3, <2>4 DEF DataInv
  <2> QED BY <2>5, <2>6
<1> QED BY <1>2, <1>8, <1>9

-----------------------------------------------------------------------------
(* The invariant of the data.                                              *)

\* Every step preserves it.
LEMMA DataNext == IInv /\ DataInv /\ [Next]_vars => DataInv'
<1> SUFFICES ASSUME IInv, DataInv, [Next]_vars PROVE DataInv'
  OBVIOUS
<1>1. ASSUME NEW r \in Rank, Submit(r) PROVE DataInv'
  BY <1>1, SubmitData
<1>2. ASSUME NEW r \in Rank, Arrive(r) PROVE DataInv'
  BY <1>2, DataStays DEF Arrive, kernels
<1>3. ASSUME NEW r \in Rank, Depart(r) PROVE DataInv'
  BY <1>3, DepartData
<1>4. ASSUME NEW r \in Rank, Retire(r) PROVE DataInv'
  BY <1>4, RetireData
<1>5. ASSUME NEW r \in Rank, NEW cta \in Cta, CtaStep(r, cta) PROVE DataInv'
  <2>1. CASE Start(r, cta)
    BY <2>1, DataStays DEF Start
  <2>2. CASE Move(r, cta)
    BY <2>2, MoveData
  <2>3. CASE EndChunk(r, cta)
    BY <2>3, EndChunkData
  <2>4. CASE See(r, cta[2])
    <3> DEFINE h == cta[2]
    <3>1. \A ch \in Channel : Sender(ch) # Receiver(h)
      BY DEF Sender, Receiver
    <3> HIDE DEF h
    <3>2. See(r, h)
      BY <2>4 DEF h
    <3>3. lanes \in [Rank -> [Cta -> SUBSET Rank]]
      BY DEF IInv, FunctionsOK
    <3>4. \A q \in Rank : \A ch \in Channel : lanes'[q][Sender(ch)] = lanes[q][Sender(ch)]
      BY <3>1, <3>2, <3>3, CtaType DEF See
    <3> QED BY <3>2, <3>4, DataStays DEF See
  <2>5. ASSUME NEW p \in Rank, Publish(r, cta[2], p) PROVE DataInv'
    <3> DEFINE h == cta[2]
    <3>1. h \in Channel
      BY DEF Cta
    <3> HIDE DEF h
    <3>2. Publish(r, h, p)
      BY <2>5 DEF h
    <3>3. lanes \in [Rank -> [Cta -> SUBSET Rank]]
      BY DEF IInv, FunctionsOK
    <3>4. ASSUME NEW q \in Rank, NEW ch \in Channel
          PROVE  lanes'[q][Sender(ch)] = lanes[q][Sender(ch)] \/ moved[q][Sender(ch)] = Moves(q, Sender(ch))
      <4>1. CASE q = r /\ Sender(ch) = Sender(h)
        BY <3>2, <4>1 DEF Publish, Staged
      <4>2. CASE ~ (q = r /\ Sender(ch) = Sender(h))
        BY <3>2, <3>3, <4>2, CtaType DEF Publish
      <4> QED BY <4>1, <4>2
    <3> QED BY <3>2, <3>4, DataStays DEF Publish
  <2> QED BY <1>5, <2>1, <2>2, <2>3, <2>4, <2>5 DEF CtaStep
<1>6. ASSUME NEW r \in Rank, NEW ch \in Channel, Spin(r, ch) \/ Trap(r, ch) PROVE DataInv'
  BY <1>6, DataStays DEF Spin, Trap, kernels
<1>7. ASSUME UNCHANGED vars PROVE DataInv'
  BY <1>7, DataStays DEF vars, kernels
<1> QED BY <1>1, <1>2, <1>3, <1>4, <1>5, <1>6, <1>7 DEF Next, Quiescent

\* In every behaviour, each unit is where its CTA has put it.
LEMMA DataInvariant == Spec => [](IInv /\ DataInv)
<1>1. Init => IInv /\ DataInv
  BY InitOK, DataInit
<1>2. IInv /\ DataInv /\ [Next]_vars => IInv' /\ DataInv'
  BY NextOK, DataNext
<1> QED BY <1>1, <1>2, PTL DEF Spec

-----------------------------------------------------------------------------
(* The ideal exchange.                                                     *)

\* An instance's calls and cells are these.
LEMMA SameMeaning ==
    /\ \A S : Abs!Cardinality(S) = Cardinality(S)
    /\ Abs!Members = Members
    /\ \A r, n, u : Abs!Output(r, n, u) = Output(r, n, u)
    /\ \A c, r : Abs!OutputUnits(c, r) = OutputUnits(c, r)
    /\ \A w, r, n, q, m : Abs!SameCall(w, r, n, q, m) <=> SameCall(w, r, n, q, m)
    /\ \A w, r, n, u : Abs!Expected(w, r, n, u) = Expected(w, r, n, u)
<1>1. \A S : Abs!Cardinality(S) = Cardinality(S)
  BY DEF Abs!Cardinality, Cardinality
<1>2. \A g : Abs!Peers(g) = Peers(g)
  BY DEF Abs!Peers, Peers
<1>3. \A g, i : Abs!PeerAt(g, i) = PeerAt(g, i)
  BY DEF Abs!PeerAt, PeerAt
<1>4. Abs!Members = Members
  BY <1>2, <1>3 DEF Abs!Members, Members
<1>5. \A g, r : Abs!LocalIndex(g, r) = LocalIndex(g, r)
  BY <1>2, <1>3 DEF Abs!LocalIndex, LocalIndex
<1>6. \A r, n, u : Abs!Output(r, n, u) = Output(r, n, u) /\ Abs!Input(r, n, u) = Input(r, n, u)
  BY DEF Abs!Output, Output, Abs!Input, Input
<1>7. \A c, r : Abs!OutputUnits(c, r) = OutputUnits(c, r)
  BY <1>5 DEF Abs!OutputUnits, OutputUnits, Abs!IsSource, IsSource, Abs!Slice, Slice
<1>8. \A w, r, n, q, m : Abs!SameCall(w, r, n, q, m) <=> SameCall(w, r, n, q, m)
  BY <1>1 DEF Abs!SameCall, SameCall, Abs!Ordinal, Ordinal
<1>9. \A c, r, u : Abs!Wanted(c, r, u) = Wanted(c, r, u)
  BY <1>5 DEF Abs!Wanted, Wanted
<1>10. \A w, r, n, u : Abs!Expected(w, r, n, u) = Expected(w, r, n, u)
  <2> SUFFICES ASSUME NEW w, NEW r, NEW n, NEW u
               PROVE  Abs!Expected(w, r, n, u) = Expected(w, r, n, u)
    OBVIOUS
  <2> DEFINE c == w[r][n]
             q == PeerAt(c.group, Wanted(c, r, u).peer)
             m == CHOOSE i \in DOMAIN w[q] : SameCall(w, r, n, q, i)
             o == CHOOSE i \in DOMAIN w[q] : Abs!SameCall(w, r, n, q, i)
  <2>1. o = m
    BY <1>8
  <2>2. Expected(w, r, n, u) = Input(q, m, Wanted(c, r, u).unit)
    BY DEF Expected
  <2>3. Abs!Expected(w, r, n, u) =
           LET a == Abs!Wanted(c, r, u)
               p == Abs!PeerAt(c.group, a.peer)
               k == CHOOSE k \in DOMAIN w[p] : Abs!SameCall(w, r, n, p, k)
           IN  Abs!Input(p, k, a.unit)
    BY DEF Abs!Expected
  <2>4. Abs!Wanted(c, r, u) = Wanted(c, r, u) /\ Abs!PeerAt(c.group, Wanted(c, r, u).peer) = q
    BY <1>3, <1>9
  <2> DEFINE a == Wanted(c, r, u)
  <2>5. Abs!Expected(w, r, n, u) = Abs!Input(q, o, a.unit)
    <3> HIDE DEF c
    <3> QED BY <2>3, <2>4
  <2> HIDE DEF c, q, m, o
  <2> QED BY <1>6, <2>1, <2>2, <2>5
<1> QED BY <1>1, <1>4, <1>6, <1>7, <1>8, <1>10

\* What a world has delivered, and what has returned in it.
Delivered == {<<c, mem[c]>> : c \in {c \in OutputCells(workload) : mem[c] # Unwritten}}
Returns == [r \in Rank |-> Returned(r)]

\* The calls behind the one that its stream is in have returned.
LEMMA ReturnedIs == IInv => \A r \in Rank : Returned(r) = CallAt(r) - 1
<1> SUFFICES ASSUME IInv, NEW r \in Rank PROVE Returned(r) = CallAt(r) - 1
  OBVIOUS
<1>1. /\ submitted[r] \in Nat /\ done[r] \in Nat /\ CallAt(r) = done[r] \div 3 + 1
  BY StreamFacts DEF IInv
<1>2. ASSUME done[r] = 3 * submitted[r] PROVE done[r] \div 3 = submitted[r]
  BY <1>1, <1>2
<1>3. done[r] \div 3 \in Nat
  BY <1>1
<1> QED BY <1>1, <1>2, <1>3, Ops DEF Returned

\* The same after a step.
LEMMA ReturnedNext == IInv' => \A r \in Rank : Returned(r)' = CallAt(r)' - 1
<1>1. (IInv => \A r \in Rank : Returned(r) = CallAt(r) - 1)'
  BY ReturnedIs, PTL
<1> QED BY <1>1

\* A step that changes no output and no call's place is a stutter of the exchange.
LEMMA AbsStays ==
    ASSUME IInv, IInv', workload' = workload, submitted' = submitted,
           \A r \in Rank : CallAt(r)' = CallAt(r),
           \A x \in OutputCells(workload) : mem'[x] = mem[x]
    PROVE  UNCHANGED Abs!vars
<1>1. Delivered' = Delivered
  BY DEF Delivered
<1>2. \A r \in Rank : Returned(r)' = Returned(r)
  BY ReturnedIs, ReturnedNext
<1>3. Returns' = Returns
  BY <1>2 DEF Returns
<1> QED BY <1>1, <1>3 DEF Abs!vars, Delivered, Returns

\* Submitting a call produces its input.
LEMMA SubmitSim ==
    ASSUME IInv, IInv', NEW r \in Rank, Submit(r)
    PROVE  Abs!Produce(r)
<1>1. /\ workload' = workload /\ done' = done /\ mem' = mem
      /\ submitted[r] + 1 <= Len(workload[r])
      /\ submitted' = [submitted EXCEPT ![r] = submitted[r] + 1]
      /\ submitted[r] \in Nat /\ Len(workload[r]) \in Nat
  BY CallFacts DEF Submit, IInv, FunctionsOK
<1>2. Delivered' = Delivered
  BY <1>1 DEF Delivered
<1>3. \A q \in Rank : Returned(q)' = Returned(q)
  <2>1. \A q \in Rank : CallAt(q)' = CallAt(q)
    BY <1>1 DEF CallAt
  <2> QED BY <2>1, ReturnedIs, ReturnedNext
<1>4. Returns' = Returns
  BY <1>3 DEF Returns
<1>5. submitted[r] < Len(workload[r])
  BY <1>1
<1> QED BY <1>1, <1>2, <1>4, <1>5 DEF Abs!Produce, Delivered, Returns

\* A copied unit is delivered; a staged one is nothing that the caller sees.
LEMMA MoveSim ==
    ASSUME IInv, DataInv, IInv', NEW r \in Rank, NEW cta \in Cta, Move(r, cta)
    PROVE  Abs!Deliver(r) \/ UNCHANGED Abs!vars
<1> DEFINE n == CallAt(r)
<1>1. /\ workload' = workload /\ submitted' = submitted /\ done' = done
      /\ workload \in Workloads /\ n \in 1 .. Len(workload[r]) /\ DOMAIN mem' = DOMAIN mem
  BY MoveFacts
<1>2. \A q \in Rank : CallAt(q)' = CallAt(q)
  BY <1>1 DEF CallAt
<1>3. CASE \A x \in OutputCells(workload) : mem'[x] = mem[x]
  BY <1>1, <1>2, <1>3, AbsStays
<1>4. CASE \E u \in OutputUnits(workload[r][n], r) :
              /\ mem[Output(r, n, u)] = Unwritten
              /\ Expected(workload, r, n, u)[3] <= submitted[Expected(workload, r, n, u)[2]]
              /\ mem'[Output(r, n, u)] = Expected(workload, r, n, u)
              /\ \A x \in OutputCells(workload) : x # Output(r, n, u) => mem'[x] = mem[x]
  <2>1. PICK u \in OutputUnits(workload[r][n], r) :
              /\ mem[Output(r, n, u)] = Unwritten
              /\ Expected(workload, r, n, u)[3] <= submitted[Expected(workload, r, n, u)[2]]
              /\ mem'[Output(r, n, u)] = Expected(workload, r, n, u)
              /\ \A x \in OutputCells(workload) : x # Output(r, n, u) => mem'[x] = mem[x]
    BY <1>4
  <2> DEFINE cell == Output(r, n, u)
             input == Expected(workload, r, n, u)
  <2>2. cell \in OutputCells(workload) /\ input # Unwritten
    <3> HIDE DEF n
    <3> QED BY <1>1, OutputCell, ExpectedIs
  <2>3. cell \notin {d[1] : d \in Delivered}
    <3> SUFFICES ASSUME NEW d \in Delivered, d[1] = cell PROVE FALSE
      OBVIOUS
    <3>1. PICK x \in OutputCells(workload) : mem[x] # Unwritten /\ d = <<x, mem[x]>>
      BY DEF Delivered
    <3> HIDE DEF cell
    <3>2. x = cell
      BY <3>1
    <3> QED BY <2>1, <3>1, <3>2 DEF cell
  <2>4. Delivered' = Delivered \cup {<<cell, input>>}
    <3>1. Delivered' = {<<x, mem'[x]>> : x \in {x \in OutputCells(workload) : mem'[x] # Unwritten}}
      BY <1>1 DEF Delivered
    <3>2. /\ mem[cell] = Unwritten /\ mem'[cell] = input
          /\ \A x \in OutputCells(workload) : x # cell => mem'[x] = mem[x]
      BY <2>1
    <3> HIDE DEF cell, input
    <3>3. {x \in OutputCells(workload) : mem'[x] # Unwritten} =
             {x \in OutputCells(workload) : mem[x] # Unwritten} \cup {cell}
      BY <2>2, <3>2
    <3>4. \A x \in {x \in OutputCells(workload) : mem[x] # Unwritten} : mem'[x] = mem[x]
      BY <3>2
    <3> QED BY <3>1, <3>2, <3>3, <3>4 DEF Delivered
  <2>5. Returns' = Returns /\ Returns[r] + 1 = n
    <3>1. \A q \in Rank : Returned(q)' = Returned(q)
      BY <1>2, ReturnedIs, ReturnedNext
    <3>2. Returned(r) + 1 = n
      <4>1. Returned(r) = CallAt(r) - 1 /\ CallAt(r) \in Nat
        BY ReturnedIs, StreamFacts DEF IInv
      <4> QED BY <4>1
    <3> QED BY <3>1, <3>2 DEF Returns
  <2>6. Abs!Deliver(r)
    <3>1. /\ Abs!Output(r, n, u) = cell /\ Abs!Expected(workload, r, n, u) = input
          /\ Abs!OutputUnits(workload[r][n], r) = OutputUnits(workload[r][n], r)
      BY SameMeaning
    <3>2. input[3] <= submitted[input[2]]
      BY <2>1
    <3>3. n <= Len(workload[r])
      BY <1>1
    <3>4. Abs!Deliver(r) <=>
             LET k == Returns[r] + 1
             IN  /\ k <= Len(workload[r])
                 /\ \E v \in Abs!OutputUnits(workload[r][k], r) :
                       LET x == Abs!Output(r, k, v)
                           e == Abs!Expected(workload, r, k, v)
                       IN  /\ x \notin {d[1] : d \in Delivered}
                           /\ e[3] <= submitted[e[2]]
                           /\ Delivered' = Delivered \cup {<<x, e>>}
                 /\ UNCHANGED <<workload, submitted, Returns>>
      BY DEF Abs!Deliver, Delivered, Returns
    <3> HIDE DEF n, cell, input
    <3> QED BY <1>1, <2>3, <2>4, <2>5, <3>1, <3>2, <3>3, <3>4
  <2> QED BY <2>6
<1> QED BY <1>3, <1>4, MoveData

\* A rank that leaves the post-barrier of its n-th call has seen every member arrive
\* there, so return from the calls before.
LEMMA AllJoin ==
    ASSUME IInv, IInv', workload' = workload, submitted' = submitted, arrived' = arrived,
           NEW r \in Rank, NEW n \in 1 .. submitted[r], n \in 1 .. Len(workload[r]), departed'[r] = 2 * n,
           NEW q \in Members[workload[r][n].group]
    PROVE  \E m \in 1 .. submitted[q] : SameCall(workload, r, n, q, m) /\ m <= CallAt(q)
<1>1. q \in Rank
  <2>1. workload[r][n].group \in Group
    BY CallFacts DEF IInv
  <2> QED BY <2>1, MembersType
<1>2. 2 * n - 2 + 2 <= departed'[r]
  <2>1. submitted[r] \in Nat
    BY DEF IInv, FunctionsOK
  <2>2. n \in Nat
    BY <2>1
  <2> QED BY <2>2
<1>3. PICK m \in 1 .. submitted[q] : SameCall(workload, r, n, q, m) /\ 2 * m - 2 + 2 <= arrived[q]
  BY <1>2 DEF IInv, JoinedOK, Joins
<1>4. /\ m \in Nat /\ arrived[q] \in Nat /\ CallAt(q) \in Nat /\ done[q] % 3 \in 0 .. 2
      /\ departed[q] = 2 * (CallAt(q) - 1) + (IF done[q] % 3 = 0 THEN 0 ELSE 1)
      /\ arrived[q] \in {departed[q], departed[q] + 1}
  <2>1. submitted[q] \in Nat /\ arrived[q] \in Nat /\ arrived[q] \in {departed[q], departed[q] + 1}
    BY <1>1 DEF IInv, FunctionsOK, StreamOK
  <2> QED BY <1>1, <2>1, StreamFacts DEF IInv
<1>5. m <= CallAt(q)
  BY <1>3, <1>4
<1> QED BY <1>3, <1>5

\* Leaving the post-barrier returns the call: its outputs are complete, and every
\* member has come as far as its own post-barrier of it.
LEMMA DepartSim ==
    ASSUME IInv, DataInv, IInv', NEW r \in Rank, Depart(r)
    PROVE  Abs!Return(r) \/ UNCHANGED Abs!vars
<1> DEFINE n == CallAt(r)
<1>1. /\ workload' = workload /\ submitted' = submitted /\ mem' = mem /\ arrived' = arrived
      /\ done[r] \in Nat /\ done'[r] = done[r] + 1
      /\ departed[r] \in Nat /\ departed'[r] = departed[r] + 1
      /\ \A q \in Rank \ {r} : done'[q] = done[q]
      /\ InOp(r, {0, 2}) /\ workload \in Workloads
  BY DEF Depart, Barriers!Depart, IInv, FunctionsOK
<1>2. /\ n \in 1 .. Len(workload[r]) /\ n \in 1 .. submitted[r]
      /\ \/ done[r] % 3 = 0 /\ CallAt(r)' = n
         \/ done[r] % 3 = 2 /\ CallAt(r)' = n + 1 /\ departed'[r] = 2 * n
  <2>1. /\ n \in 1 .. Len(workload[r]) /\ n <= submitted[r] /\ submitted[r] \in Nat
        /\ done[r] % 3 # 1 /\ done[r] % 3 \in 0 .. 2 /\ n = done[r] \div 3 + 1
        /\ departed[r] = 2 * (n - 1) + (IF done[r] % 3 = 0 THEN 0 ELSE 1)
    BY <1>1, StreamFacts DEF IInv
  <2>2. CallAt(r)' = done'[r] \div 3 + 1
    BY Ops DEF CallAt, OpsPerCall
  <2>3. /\ done[r] % 3 = 2 => (done[r] + 1) \div 3 = done[r] \div 3 + 1
        /\ done[r] % 3 # 2 => (done[r] + 1) \div 3 = done[r] \div 3
    <3> DEFINE d == done[r]
    <3>1. d \in Nat
      BY <1>1
    <3> HIDE DEF d
    <3>2. /\ d % 3 = 2 => (d + 1) \div 3 = d \div 3 + 1
          /\ d % 3 # 2 => (d + 1) \div 3 = d \div 3
      BY <3>1, Threes
    <3> QED BY <3>2 DEF d
  <2>4. ASSUME NEW a \in Int, NEW b \in 0 .. 2, NEW c, NEW k, NEW e, b # 1, k = a + 1,
               b = 2 => c = a + 1 + 1, b # 2 => c = a + 1,
               e = 2 * (k - 1) + (IF b = 0 THEN 0 ELSE 1) + 1
        PROVE  (b = 0 /\ c = k) \/ (b = 2 /\ c = k + 1 /\ e = 2 * k)
    BY <2>4
  <2> DEFINE a == done[r] \div 3
             b == done[r] % 3
             c == CallAt(r)'
             e == departed'[r]
  <2>5. a \in Int /\ b \in 0 .. 2 /\ b # 1 /\ n = a + 1
    <3>1. a \in Int
      BY <1>1
    <3> QED BY <2>1, <3>1
  <2>6. (b = 2 => c = a + 1 + 1) /\ (b # 2 => c = a + 1)
    <3>1. c = (done[r] + 1) \div 3 + 1
      BY <1>1, <2>2
    <3> QED BY <2>3, <3>1
  <2>7. e = 2 * (n - 1) + (IF b = 0 THEN 0 ELSE 1) + 1
    BY <1>1, <2>1
  <2>8. (b = 0 /\ c = n) \/ (b = 2 /\ c = n + 1 /\ e = 2 * n)
    <3> HIDE DEF a, b, c, e, n
    <3> QED BY <2>4, <2>5, <2>6, <2>7
  <2>9. n \in 1 .. submitted[r]
    <3> HIDE DEF n
    <3> QED BY <2>1
  <2> QED BY <2>1, <2>8, <2>9
<1>3. \A q \in Rank \ {r} : CallAt(q)' = CallAt(q)
  BY <1>1 DEF CallAt
<1>4. CASE done[r] % 3 = 0
  <2>1. \A q \in Rank : CallAt(q)' = CallAt(q)
    BY <1>2, <1>3, <1>4
  <2> QED BY <1>1, <2>1, AbsStays
<1>5. CASE done[r] % 3 = 2
  <2>1. CallAt(r)' = n + 1 /\ departed'[r] = 2 * n
    BY <1>2, <1>5
  <2>2. ASSUME NEW u \in OutputUnits(workload[r][n], r)
        PROVE  <<Output(r, n, u), Expected(workload, r, n, u)>> \in Delivered
    <3>1. Copied(r, n, u)
      BY <1>2, <1>5 DEF Copied
    <3> HIDE DEF n
    <3>2. mem[Output(r, n, u)] = Expected(workload, r, n, u)
      BY <1>2, <3>1 DEF DataInv, OutputOK
    <3>3. Output(r, n, u) \in OutputCells(workload) /\ Expected(workload, r, n, u) # Unwritten
      BY <1>1, <1>2, OutputCell, ExpectedIs
    <3> QED BY <3>2, <3>3 DEF Delivered
  <2>3. ASSUME NEW q \in Members[workload[r][n].group]
        PROVE  \E m \in DOMAIN workload[q] :
                  SameCall(workload, r, n, q, m) /\ m <= Returns[q] + 1 /\ m <= submitted[q]
    <3>1. \E m \in 1 .. submitted[q] : SameCall(workload, r, n, q, m) /\ m <= CallAt(q)
      <4> HIDE DEF n
      <4> QED BY <1>1, <1>2, <2>1, AllJoin
    <3>2. q \in Rank
      <4>1. workload[r][n].group \in Group
        BY <1>1, <1>2, CallFacts
      <4> QED BY <4>1, MembersType
    <3>3. PICK m \in 1 .. submitted[q] : SameCall(workload, r, n, q, m) /\ m <= CallAt(q)
      BY <3>1
    <3>4. Returns[q] + 1 = CallAt(q)
      <4>1. Returned(q) = CallAt(q) - 1 /\ CallAt(q) \in Nat
        BY <3>2, ReturnedIs, StreamFacts DEF IInv
      <4> QED BY <3>2, <4>1 DEF Returns
    <3>5. m \in DOMAIN workload[q] /\ m <= submitted[q]
      <4>1. submitted[q] \in Nat /\ submitted[q] <= Len(workload[q]) /\ Len(workload[q]) \in Nat
            /\ DOMAIN workload[q] = 1 .. Len(workload[q])
        <5>1. workload[q] \in Seq(Call) /\ Len(workload[q]) \in Nat
          BY <1>1, <3>2, CallFacts
        <5>2. submitted[q] \in Nat /\ submitted[q] <= Len(workload[q])
          BY <3>2 DEF IInv, FunctionsOK, StreamOK
        <5>3. DOMAIN workload[q] = 1 .. Len(workload[q])
          BY <5>1
        <5> QED BY <5>1, <5>2, <5>3
      <4> HIDE DEF n
      <4> QED BY <3>3, <4>1
    <3> QED BY <3>3, <3>4, <3>5
  <2>4. Delivered' = Delivered
    BY <1>1 DEF Delivered
  <2>5. Returns[r] + 1 = n /\ Returns' = [Returns EXCEPT ![r] = n]
    <3>1. Returned(r) = n - 1 /\ Returned(r)' = n /\ n \in Nat
      <4>1. Returned(r) = n - 1 /\ Returned(r)' = CallAt(r)' - 1
        BY ReturnedIs, ReturnedNext
      <4> HIDE DEF n
      <4> QED BY <1>2, <2>1, <4>1
    <3>2. \A q \in Rank \ {r} : Returned(q)' = Returned(q)
      BY <1>3, ReturnedIs, ReturnedNext
    <3>3. Returns[r] = Returned(r)
      BY DEF Returns
    <3>4. Returns' = [q \in Rank |-> Returned(q)'] /\ Returns = [q \in Rank |-> Returned(q)]
      BY DEF Returns
    <3> HIDE DEF n
    <3>5. Returns[r] + 1 = n
      BY <3>1, <3>3
    <3>6. Returns' = [Returns EXCEPT ![r] = n]
      BY <3>1, <3>2, <3>4, Zenon
    <3> QED BY <3>5, <3>6
  <2>6. Abs!Return(r) <=>
           LET k == Returns[r] + 1
           IN  /\ k <= Len(workload[r])
               /\ \A u \in Abs!OutputUnits(workload[r][k], r) :
                     <<Abs!Output(r, k, u), Abs!Expected(workload, r, k, u)>> \in Delivered
               /\ \A q \in Abs!Members[workload[r][k].group] :
                     \E m \in DOMAIN workload[q] :
                        Abs!SameCall(workload, r, k, q, m) /\ m <= Returns[q] + 1 /\ m <= submitted[q]
               /\ Returns' = [Returns EXCEPT ![r] = k]
               /\ UNCHANGED <<workload, submitted, Delivered>>
    BY DEF Abs!Return, Abs!Joined, Delivered, Returns
  <2>7. /\ Abs!Members = Members
        /\ \A u : Abs!Output(r, n, u) = Output(r, n, u) /\ Abs!Expected(workload, r, n, u) = Expected(workload, r, n, u)
        /\ Abs!OutputUnits(workload[r][n], r) = OutputUnits(workload[r][n], r)
        /\ \A q, m : Abs!SameCall(workload, r, n, q, m) <=> SameCall(workload, r, n, q, m)
    BY SameMeaning
  <2>8. n <= Len(workload[r])
    BY <1>2
  <2> HIDE DEF n
  <2>9. Abs!Return(r)
    BY <1>1, <2>2, <2>3, <2>4, <2>5, <2>6, <2>7, <2>8
  <2> QED BY <2>9
<1> QED BY <1>2, <1>4, <1>5

\* Every step is a step of the exchange or a stutter.
LEMMA NextSim ==
    ASSUME IInv, DataInv, IInv', [Next]_vars
    PROVE  [Abs!Next]_(Abs!vars)
<1>1. ASSUME workload' = workload, submitted' = submitted, done' = done, mem' = mem
      PROVE  UNCHANGED Abs!vars
  <2>1. \A q \in Rank : CallAt(q)' = CallAt(q)
    BY <1>1 DEF CallAt
  <2> QED BY <1>1, <2>1, AbsStays
<1>2. ASSUME NEW r \in Rank, Submit(r) PROVE Abs!Next
  BY <1>2, SubmitSim DEF Abs!Next
<1>3. ASSUME NEW r \in Rank, Arrive(r) PROVE UNCHANGED Abs!vars
  BY <1>1, <1>3 DEF Arrive
<1>4. ASSUME NEW r \in Rank, Depart(r) PROVE Abs!Next \/ UNCHANGED Abs!vars
  BY <1>4, DepartSim DEF Abs!Next
<1>5. ASSUME NEW r \in Rank, Retire(r) PROVE UNCHANGED Abs!vars
  <2>1. /\ workload' = workload /\ submitted' = submitted /\ mem' = mem
        /\ done[r] \in Nat /\ done'[r] = done[r] + 1 /\ done[r] % 3 = 1
        /\ \A q \in Rank \ {r} : done'[q] = done[q]
    BY <1>5, StreamFacts DEF Retire, IInv, FunctionsOK
  <2>2. (done[r] + 1) \div 3 = done[r] \div 3
    <3> DEFINE d == done[r]
    <3>1. d \in Nat /\ d % 3 = 1
      BY <2>1
    <3> HIDE DEF d
    <3>2. (d + 1) \div 3 = d \div 3
      BY <3>1, Threes
    <3> QED BY <3>2 DEF d
  <2>3. CallAt(r)' = done'[r] \div 3 + 1 /\ CallAt(r) = done[r] \div 3 + 1
    BY Ops DEF CallAt, OpsPerCall
  <2>4. \A q \in Rank : CallAt(q)' = CallAt(q)
    BY <2>1, <2>2, <2>3 DEF CallAt
  <2> QED BY <2>1, <2>4, AbsStays
<1>6. ASSUME NEW r \in Rank, NEW cta \in Cta, CtaStep(r, cta) PROVE Abs!Next \/ UNCHANGED Abs!vars
  <2>1. CASE Start(r, cta)
    BY <1>1, <2>1 DEF Start
  <2>2. CASE Move(r, cta)
    BY <2>2, MoveSim DEF Abs!Next
  <2>3. CASE EndChunk(r, cta)
    BY <1>1, <2>3 DEF EndChunk
  <2>4. CASE See(r, cta[2])
    BY <1>1, <2>4 DEF See
  <2>5. ASSUME NEW p \in Rank, Publish(r, cta[2], p) PROVE UNCHANGED Abs!vars
    BY <1>1, <2>5 DEF Publish
  <2> QED BY <1>6, <2>1, <2>2, <2>3, <2>4, <2>5 DEF CtaStep
<1>7. ASSUME NEW r \in Rank, NEW ch \in Channel, Spin(r, ch) \/ Trap(r, ch) PROVE UNCHANGED Abs!vars
  BY <1>1, <1>7 DEF Spin, Trap
<1>8. ASSUME UNCHANGED vars PROVE UNCHANGED Abs!vars
  BY <1>1, <1>8 DEF vars
<1> QED BY <1>2, <1>3, <1>4, <1>5, <1>6, <1>7, <1>8 DEF Next, Quiescent

\* The initial states are initial states of the exchange.
LEMMA InitSim == ASSUME Init PROVE Abs!Init
<1>1. IInv
  BY InitOK
<1>2. \A r \in Rank : Returned(r) = 0
  <2>1. \A r \in Rank : CallAt(r) = 1
    BY Ops DEF Init, CallAt
  <2> QED BY <1>1, <2>1, ReturnedIs
<1>3. Returns = [r \in Rank |-> 0]
  BY <1>2 DEF Returns
<1>4. Delivered = {}
  <2>1. ASSUME NEW x \in OutputCells(workload) PROVE mem[x] = Unwritten
    <3>1. x \notin CommCells
      <4>1. workload \in Workloads
        BY DEF Init
      <4> QED BY <4>1, OutputCell
    <3> QED BY <3>1 DEF Init
  <2> QED BY <2>1 DEF Delivered
<1> QED BY <1>3, <1>4 DEF Abs!Init, Init, Delivered, Returns

\* The fused calls deliver to every output unit the input that its definition names,
\* once that input has been produced and the cell is free, and return when their
\* outputs are complete and every member has joined them: for every world, every
\* workload and every number of channels.
THEOREM ImplementsIdealExchange == Spec => ImplementsExchange
<1>1. Init => Abs!Init
  BY InitSim
<1>2. IInv /\ DataInv /\ IInv' /\ [Next]_vars => [Abs!Next]_(Abs!vars)
  BY NextSim
<1> QED BY <1>1, <1>2, DataInvariant, PTL DEF Spec, ImplementsExchange, Abs!Spec
=============================================================================
