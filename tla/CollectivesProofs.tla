------------------------- MODULE CollectivesProofs -------------------------
(***************************************************************************)
(* The collectives of Collectives are well typed and free of races, for    *)
(* every set of ranks and groups and every matched workload                *)
(* (src/gfc/runtime.py: all_gather, all2all, p2p over one comm_buf).       *)
(*                                                                         *)
(* The invariant says where each rank stands: its streams hold the calls   *)
(* submitted so far, call by call; the main stream is at one place in one  *)
(* of them and has left exactly the barriers before it; the copy stream is *)
(* at most as far ahead as the events let it be; and whoever has left the  *)
(* b-th barrier of a call knows that every member has entered the b-th     *)
(* barrier of that same call.  So while a rank reads or writes a peer's    *)
(* comm_buf between two barriers, the peer is between the same two, or     *)
(* still in the first: it is in no other call, and its own copies touch    *)
(* other cells.                                                            *)
(***************************************************************************)
EXTENDS Collectives, Arithmetic

Calendar == INSTANCE Schedule

-----------------------------------------------------------------------------
(* Sums.                                                                   *)

\* f[1] + ... + f[n], as the number of the units of the first n positions.
Units(f, n) == {p \in (1 .. n) \X (Nat \ {0}) : p[2] <= f[p[1]]}
Sum(f, n) == Cardinality(Units(f, n))

\* The units of one more position are as many as its value.
LEMMA UnitsStep ==
    ASSUME NEW N \in Nat, NEW f \in [1 .. N -> Nat], NEW n \in 0 .. N - 1,
           IsFiniteSet(Units(f, n))
    PROVE  /\ IsFiniteSet(Units(f, n + 1))
           /\ Sum(f, n + 1) = Sum(f, n) + f[n + 1]
<1> DEFINE k == f[n + 1]
           T == {n + 1} \X (1 .. k)
<1>1. n + 1 \in 1 .. N /\ k \in Nat
  OBVIOUS
<1>2. IsFiniteSet(T) /\ Cardinality(T) = k
  <2> DEFINE S == {n + 1}
             R == 1 .. k
  <2>1. IsFiniteSet(R) /\ Cardinality(R) = k
    <3>1. 1 \in Int /\ k \in Int
      BY <1>1
    <3> HIDE DEF k
    <3>2. IsFiniteSet(1 .. k) /\ Cardinality(1 .. k) = IF 1 > k THEN 0 ELSE k - 1 + 1
      BY <3>1, FS_Interval, Zenon
    <3>3. k \in Nat
      BY <1>1 DEF k
    <3> QED BY <3>2, <3>3
  <2>2. IsFiniteSet(S) /\ Cardinality(S) = 1
    BY FS_Singleton, Zenon
  <2> HIDE DEF R, S
  <2>3. IsFiniteSet(S \X R) /\ Cardinality(S \X R) = Cardinality(S) * Cardinality(R)
    BY <2>1, <2>2, FS_Product, Zenon
  <2>4. T = S \X R
    BY DEF S, R
  <2> HIDE DEF k, T
  <2>5. k \in Nat
    BY <1>1 DEF k
  <2> QED BY <2>1, <2>2, <2>3, <2>4, <2>5
<1>3. Units(f, n + 1) = Units(f, n) \cup T
  BY <1>1 DEF Units
<1>4. Units(f, n) \cap T = {}
  BY DEF Units
<1> HIDE DEF T, k
<1>5. /\ IsFiniteSet(Units(f, n) \cup T)
      /\ Cardinality(Units(f, n) \cup T) =
            Cardinality(Units(f, n)) + Cardinality(T) - Cardinality(Units(f, n) \cap T)
  BY <1>2, FS_Union
<1>6. Cardinality(Units(f, n)) \in Nat /\ Cardinality(Units(f, n) \cap T) = 0
  BY <1>4, FS_CardinalityType, FS_EmptySet
<1>7. f[n + 1] = k
  BY DEF k
<1>8. k \in Nat
  BY <1>1
<1>9. Cardinality(Units(f, n + 1)) = Cardinality(Units(f, n)) + k
  <2>1. Cardinality(Units(f, n + 1)) =
           Cardinality(Units(f, n)) + Cardinality(T) - Cardinality(Units(f, n) \cap T)
    BY <1>3, <1>5, Zenon
  <2> QED BY <1>2, <1>6, <1>8, <2>1
<1> QED BY <1>3, <1>5, <1>7, <1>9, Zenon DEF Sum

\* They are finitely many.
LEMMA UnitsFinite ==
    ASSUME NEW N \in Nat, NEW f \in [1 .. N -> Nat], NEW n \in 0 .. N
    PROVE  IsFiniteSet(Units(f, n))
<1> DEFINE Row(i) == {i} \X (1 .. f[i])
           Rows == {Row(i) : i \in 1 .. n}
           h == [i \in 1 .. n |-> Row(i)]
<1>1. ASSUME NEW i \in 1 .. n PROVE IsFiniteSet(Row(i))
  <2>1. i \in 1 .. N /\ f[i] \in Nat
    OBVIOUS
  <2>2. IsFiniteSet(1 .. f[i])
    BY <2>1, FS_Interval
  <2>3. IsFiniteSet({i})
    BY FS_Singleton
  <2> QED BY <2>2, <2>3, FS_Product, Zenon
<1>2. h \in Surjection(1 .. n, Rows)
  BY DEF Surjection
<1>3. IsFiniteSet(Rows)
  BY <1>2, FS_Surjection, FS_Interval
<1>4. \A T \in Rows : IsFiniteSet(T)
  BY <1>1
<1> HIDE DEF Rows
<1>5. IsFiniteSet(UNION Rows)
  BY <1>3, <1>4, FS_UNION
<1>6. Units(f, n) \in SUBSET UNION Rows
  <2> SUFFICES ASSUME NEW p \in Units(f, n) PROVE p \in UNION Rows
    OBVIOUS
  <2>1. p \in Row(p[1]) /\ p[1] \in 1 .. n
    BY DEF Units
  <2> QED BY <2>1 DEF Rows
<1> QED BY <1>5, <1>6, FS_Subset

\* What the proofs use of sums.
LEMMA SumFacts ==
    ASSUME NEW N \in Nat, NEW f \in [1 .. N -> Nat]
    PROVE  /\ Sum(f, 0) = 0
           /\ \A n \in 0 .. N : Sum(f, n) \in Nat
           /\ \A n \in 0 .. N - 1 : Sum(f, n + 1) = Sum(f, n) + f[n + 1]
           /\ \A m, n \in 0 .. N : m <= n => Sum(f, m) <= Sum(f, n)
<1>1. Sum(f, 0) = 0
  <2>1. Units(f, 0) = {}
    BY DEF Units
  <2> QED BY <2>1, FS_EmptySet DEF Sum
<1>2. ASSUME NEW n \in 0 .. N PROVE Sum(f, n) \in Nat
  BY UnitsFinite, FS_CardinalityType DEF Sum
<1>3. ASSUME NEW n \in 0 .. N - 1 PROVE Sum(f, n + 1) = Sum(f, n) + f[n + 1]
  <2>1. IsFiniteSet(Units(f, n))
    BY UnitsFinite
  <2> QED BY <2>1, UnitsStep
<1>4. ASSUME NEW m \in 0 .. N, NEW n \in 0 .. N, m <= n PROVE Sum(f, m) <= Sum(f, n)
  <2>1. Units(f, m) \in SUBSET Units(f, n)
    BY <1>4 DEF Units
  <2> QED BY <2>1, UnitsFinite, FS_Subset DEF Sum
<1> QED BY <1>1, <1>2, <1>3, <1>4

-----------------------------------------------------------------------------
(* The operations of a call, by their place in its program.                *)

IsP2P(c) == c.op \in {"put", "get"}
Piped(c) == ~ IsP2P(c) /\ c.pipelined

\* How many operations a call has on each stream, and how many barriers.
MainLen(c, r) ==
    IF Piped(c) THEN 2 * c.size + 1
    ELSE IF IsP2P(c) /\ ~ (c.op = "put" /\ IsSource(c, r)) THEN 3 ELSE 4
CopyLen(c) == IF Piped(c) THEN c.size ELSE 0
Bars(c) == IF Piped(c) THEN c.size + 1 ELSE 2

\* The operations of the main stream that are barriers.
BarAt(c, r, j) ==
    IF Piped(c) THEN j % 2 = 1
    ELSE IF ~ IsP2P(c) THEN j \in {2, 4}
    ELSE IF IsSource(c, r) THEN (IF c.op = "put" THEN j \in {2, 4} ELSE j \in {2, 3})
    ELSE (IF c.op = "put" THEN j \in {1, 2} ELSE j \in {1, 3})

\* How many of the first d operations are barriers.
Passed(c, r, d) ==
    IF Piped(c) THEN (d + 1) \div 2
    ELSE IF ~ IsP2P(c) \/ (c.op = "put" /\ IsSource(c, r))
         THEN (IF d < 2 THEN 0 ELSE IF d < 4 THEN 1 ELSE 2)
    ELSE IF IsSource(c, r) THEN (IF d = 0 THEN 0 ELSE d - 1)
    ELSE IF c.op = "put" THEN (IF d < 2 THEN d ELSE 2)
    ELSE (IF d = 0 THEN 0 ELSE IF d < 3 THEN 1 ELSE 2)

\* The moves of r's n-th call c: staging, pulling, and those of p2p.
StageMoves(c, r, n, X) ==
    {[from |-> Input(r, n, u), to |-> Comm(r, u)] :
        u \in IF c.op = "all2all" THEN {i * c.size + x : i \in Peers(c.group), x \in X} ELSE X}
PullMoves(c, r, n, X) ==
    {[from |-> Comm(PeerAt(c.group, i),
                    (IF c.op = "all2all" THEN LocalIndex(c.group, r) * c.size ELSE 0) + x),
      to |-> Output(r, n, i * c.size + x)] : i \in Peers(c.group), x \in X}
PutMoves(c, r) ==
    {[from |-> Comm(r, x), to |-> Comm(PeerAt(c.group, 1), x)] : x \in Slice(c)}
GetMoves(c, r, n) ==
    {[from |-> Comm(PeerAt(c.group, 0), x), to |-> Output(r, n, x)] : x \in Slice(c)}
OutMoves(c, r, n) ==
    {[from |-> Comm(r, x), to |-> Output(r, n, x)] : x \in Slice(c)}

\* The moves of the copy at place j.
MovesAt(c, r, n, j) ==
    IF BarAt(c, r, j) THEN {}
    ELSE IF Piped(c) THEN PullMoves(c, r, n, {j \div 2 - 1})
    ELSE IF j = 1 THEN StageMoves(c, r, n, Slice(c))
    ELSE IF ~ IsP2P(c) THEN PullMoves(c, r, n, Slice(c))
    ELSE IF IsSource(c, r) THEN PutMoves(c, r)
    ELSE IF c.op = "get" THEN GetMoves(c, r, n) ELSE OutMoves(c, r, n)

\* An operation is a record of these fields.
IsOp(op) ==
    op = [kind |-> op.kind, call |-> op.call, group |-> op.group, moves |-> op.moves,
          waits |-> op.waits]

\* An event: so many operations of a stream, the caller's included.
Event == {"main", "copy", "user"} \X Nat

\* op is the operation at place j of the main stream's part of r's n-th call c,
\* which starts behind cb operations of the copy stream.
IsMainOp(op, c, r, n, j, cb) ==
    /\ IsOp(op) /\ op.waits \subseteq Event
    /\ op.call = n
    /\ op.kind = IF BarAt(c, r, j) THEN "barrier" ELSE "copy"
    /\ op.moves = MovesAt(c, r, n, j)
    /\ Piped(c) /\ BarAt(c, r, j) /\ j <= 2 * c.size => <<"copy", cb + j \div 2 + 1>> \in op.waits

\* The same for the copy stream, the main stream being at mb.
IsCopyOp(op, c, r, n, k, mb) ==
    /\ IsOp(op) /\ op.waits \subseteq Event
    /\ op.call = n
    /\ op.kind = "copy"
    /\ op.moves = StageMoves(c, r, n, {k - 1})
    /\ k = 1 => <<"main", mb>> \in op.waits

\* The lengths are positive, and the barriers add up.
LEMMA ShapeFacts ==
    ASSUME NEW c \in Call, NEW r
    PROVE  /\ MainLen(c, r) \in Nat \ {0} /\ CopyLen(c) \in Nat /\ Bars(c) \in Nat \ {0, 1}
           /\ Passed(c, r, 0) = 0 /\ Passed(c, r, MainLen(c, r)) = Bars(c)
           /\ \A d \in 0 .. MainLen(c, r) :
                 Passed(c, r, d) \in Nat /\ Passed(c, r, d) <= Bars(c)
           /\ \A d \in 0 .. MainLen(c, r) - 1 :
                 Passed(c, r, d + 1) = Passed(c, r, d) + (IF BarAt(c, r, d + 1) THEN 1 ELSE 0)
<1>1. c.size \in Nat \ {0} /\ c.op \in Op
  BY DEF Call
<1>2. CASE Piped(c)
  <2>1. MainLen(c, r) = 2 * c.size + 1 /\ CopyLen(c) = c.size /\ Bars(c) = c.size + 1
    BY <1>2 DEF MainLen, CopyLen, Bars
  <2>2. \A d : Passed(c, r, d) = (d + 1) \div 2 /\ (BarAt(c, r, d) <=> d % 2 = 1)
    BY <1>2 DEF Passed, BarAt
  <2>3. ASSUME NEW d \in 0 .. 2 * c.size
        PROVE  (d + 1 + 1) \div 2 = (d + 1) \div 2 + (IF (d + 1) % 2 = 1 THEN 1 ELSE 0)
    BY <1>1
  <2>4. ASSUME NEW d \in 0 .. 2 * c.size + 1
        PROVE  (d + 1) \div 2 \in Nat /\ (d + 1) \div 2 <= c.size + 1
    BY <1>1
  <2>5. (0 + 1) \div 2 = 0 /\ (2 * c.size + 1 + 1) \div 2 = c.size + 1
    BY <1>1
  <2>6. ASSUME NEW d \in 0 .. MainLen(c, r) - 1
        PROVE  Passed(c, r, d + 1) = Passed(c, r, d) + (IF BarAt(c, r, d + 1) THEN 1 ELSE 0)
    <3>1. d \in 0 .. 2 * c.size
      BY <1>1, <2>1
    <3> QED BY <2>2, <2>3, <3>1
  <2>7. ASSUME NEW d \in 0 .. MainLen(c, r) PROVE Passed(c, r, d) \in Nat /\ Passed(c, r, d) <= Bars(c)
    BY <2>1, <2>2, <2>4
  <2>8. Passed(c, r, 0) = 0 /\ Passed(c, r, MainLen(c, r)) = Bars(c)
    BY <2>1, <2>2, <2>5
  <2> QED BY <1>1, <2>1, <2>6, <2>7, <2>8
<1>3. CASE ~ Piped(c)
  <2>2. MainLen(c, r) \in {3, 4} /\ CopyLen(c) = 0 /\ Bars(c) = 2
    BY <1>3 DEF MainLen, CopyLen, Bars
  <2>3. ASSUME NEW d \in 0 .. MainLen(c, r)
        PROVE  Passed(c, r, d) \in 0 .. 2
    BY <1>1, <1>3, <2>2, <2>3 DEF Passed, MainLen, IsP2P, Op
  <2>4. ASSUME NEW d \in 0 .. MainLen(c, r) - 1
        PROVE  Passed(c, r, d + 1) = Passed(c, r, d) + (IF BarAt(c, r, d + 1) THEN 1 ELSE 0)
    BY <1>1, <1>3, <2>2, <2>4 DEF Passed, MainLen, IsP2P, Op, BarAt
  <2>5. Passed(c, r, 0) = 0 /\ Passed(c, r, MainLen(c, r)) = 2
    BY <1>1, <1>3 DEF Passed, MainLen, IsP2P, Op
  <2> QED BY <2>2, <2>3, <2>4, <2>5
<1> QED BY <1>2, <1>3

-----------------------------------------------------------------------------
(* Sequences of operations.                                                *)

IsSeq(s) == s \in Seq({s[i] : i \in DOMAIN s})

\* What makes a function a sequence.
LEMMA SeqIntro ==
    ASSUME NEW S, NEW s \in Seq(S)
    PROVE  /\ IsSeq(s) /\ Len(s) \in Nat /\ DOMAIN s = 1 .. Len(s)
<1>1. Len(s) \in Nat /\ DOMAIN s = 1 .. Len(s)
  OBVIOUS
<1> DEFINE T == {s[i] : i \in DOMAIN s}
<1>2. s \in [1 .. Len(s) -> T]
  BY <1>1
<1> HIDE DEF T
<1>3. s \in Seq(T)
  BY <1>1, <1>2
<1> QED BY <1>1, <1>3 DEF IsSeq, T

\* u is t behind s.
Joined(u, s, t) ==
    /\ IsSeq(u) /\ Len(s) \in Nat /\ Len(t) \in Nat
    /\ Len(u) = Len(s) + Len(t) /\ DOMAIN u = 1 .. Len(s) + Len(t)
    /\ \A i \in 1 .. Len(s) : u[i] = s[i]
    /\ \A i \in 1 .. Len(t) : u[Len(s) + i] = t[i]

\* A sequence behind another.
LEMMA Join == ASSUME NEW s, NEW t, IsSeq(s), IsSeq(t) PROVE Joined(s \o t, s, t)
<1> DEFINE A == {s[i] : i \in DOMAIN s}
           B == {t[i] : i \in DOMAIN t}
           C == A \cup B
<1>1. s \in Seq(A) /\ t \in Seq(B)
  BY DEF IsSeq
<1> HIDE DEF A, B
<1>2. s \in Seq(C) /\ t \in Seq(C)
  <2>1. Len(s) \in Nat /\ s \in [1 .. Len(s) -> C] /\ Len(t) \in Nat /\ t \in [1 .. Len(t) -> C]
    BY <1>1
  <2> HIDE DEF C
  <2> QED BY <2>1
<1> HIDE DEF C
<1>3. /\ s \o t \in Seq(C)
      /\ Len(s \o t) = Len(s) + Len(t)
      /\ \A i \in 1 .. Len(s) : (s \o t)[i] = s[i]
      /\ \A i \in 1 .. Len(t) : (s \o t)[Len(s) + i] = t[i]
  BY <1>2
<1>4. Len(s) \in Nat /\ Len(t) \in Nat
  BY <1>2
<1> QED BY <1>3, <1>4, SeqIntro DEF Joined

\* The first sequence is its prefix.
LEMMA JoinedPrefix ==
    ASSUME NEW u, NEW s, NEW t, Joined(u, s, t)
    PROVE  Len(s) <= Len(u) /\ \A i \in 1 .. Len(s) : u[i] = s[i]
  BY DEF Joined

\* Short sequences.
LEMMA Tuples ==
    /\ IsSeq(<< >>) /\ Len(<< >>) = 0
    /\ \A a : IsSeq(<<a>>) /\ Len(<<a>>) = 1 /\ <<a>>[1] = a
    /\ \A a, b, c : IsSeq(<<a, b, c>>) /\ Len(<<a, b, c>>) = 3
<1>1. ASSUME NEW a PROVE IsSeq(<<a>>)
  <2>1. <<a>> \in Seq({a})
    OBVIOUS
  <2> QED BY <2>1, SeqIntro
<1>2. ASSUME NEW a, NEW b, NEW c PROVE IsSeq(<<a, b, c>>)
  <2>1. <<a, b, c>> \in Seq({a, b, c})
    OBVIOUS
  <2> QED BY <2>1, SeqIntro
<1>3. IsSeq(<< >>)
  <2>1. << >> \in Seq({})
    OBVIOUS
  <2> QED BY <2>1, SeqIntro
<1> QED BY <1>1, <1>2, <1>3

-----------------------------------------------------------------------------
(* The programs have the shapes above.                                     *)

ProgramIs(p, r, n, mb, cb) ==
    LET c == workload[r][n] IN
    /\ IsSeq(p.main) /\ Len(p.main) = MainLen(c, r)
    /\ \A j \in 1 .. MainLen(c, r) : IsMainOp(p.main[j], c, r, n, j, cb)
    /\ IsSeq(p.copy) /\ Len(p.copy) = CopyLen(c)
    /\ \A k \in 1 .. CopyLen(c) : IsCopyOp(p.copy[k], c, r, n, k, mb)

\* One shot: stage, barrier, pull, barrier.
LEMMA OneShotShape ==
    ASSUME NEW r, NEW n, workload[r][n] \in Call, NEW mb, NEW cb,
           ~ IsP2P(workload[r][n]), ~ Piped(workload[r][n])
    PROVE  ProgramIs(OneShot(r, n), r, n, mb, cb)
<1> DEFINE c == workload[r][n]
           p == OneShot(r, n)
           s == <<Stage(r, n, Slice(c)), Barrier(n, c.group), Pull(r, n, Slice(c))>>
           t == PostBarrier(n, c.group)
<1>1. p.main = s \o t /\ p.copy = << >>
  BY DEF OneShot
<1>2. IsSeq(s) /\ Len(s) = 3 /\ IsSeq(t) /\ Len(t) = 1 /\ t[1] = Barrier(n, c.group)
  BY Tuples DEF PostBarrier
<1>3. s[1] = Stage(r, n, Slice(c)) /\ s[2] = Barrier(n, c.group) /\ s[3] = Pull(r, n, Slice(c))
  OBVIOUS
<1>4. MainLen(c, r) = 4 /\ CopyLen(c) = 0
  BY DEF MainLen, CopyLen
<1>5. /\ \A j : BarAt(c, r, j) <=> j \in {2, 4}
      /\ ~ Piped(c)
      /\ \A j : MovesAt(c, r, n, j) =
            IF BarAt(c, r, j) THEN {}
            ELSE IF j = 1 THEN StageMoves(c, r, n, Slice(c)) ELSE PullMoves(c, r, n, Slice(c))
  BY DEF BarAt, MovesAt
<1>6. /\ \A X : IsOp(Stage(r, n, X)) /\ Stage(r, n, X).kind = "copy" /\ Stage(r, n, X).call = n
      /\ IsOp(Barrier(n, c.group)) /\ \A X : IsOp(Pull(r, n, X))
      /\ \A X : Pull(r, n, X).kind = "copy" /\ Pull(r, n, X).call = n
      /\ Barrier(n, c.group).kind = "barrier" /\ Barrier(n, c.group).call = n
      /\ Barrier(n, c.group).moves = {} /\ Barrier(n, c.group).waits = {}
      /\ \A X : Stage(r, n, X).waits = {} /\ Pull(r, n, X).waits = {}
  BY DEF Stage, Pull, Barrier, Copy, IsOp
<1>9. Stage(r, n, Slice(c)).moves = StageMoves(c, r, n, Slice(c))
  BY DEF Stage, StageMoves, Copy
<1>10. Pull(r, n, Slice(c)).moves = PullMoves(c, r, n, Slice(c))
  BY DEF Pull, PullMoves, Copy
<1> HIDE DEF c, p, s, t
<1>7. /\ IsSeq(p.main) /\ Len(p.main) = 4
      /\ p.main[1] = s[1] /\ p.main[2] = s[2] /\ p.main[3] = s[3] /\ p.main[4] = t[1]
  <2>1. Joined(p.main, s, t)
    BY <1>1, <1>2, Join, Zenon
  <2> QED BY <1>2, <2>1 DEF Joined
<1>8. ASSUME NEW j \in 1 .. 4 PROVE IsMainOp(p.main[j], c, r, n, j, cb)
  <2>1. CASE j = 1 \/ j = 3
    BY <1>3, <1>5, <1>6, <1>7, <1>9, <1>10, <2>1 DEF IsMainOp
  <2>2. CASE j = 2 \/ j = 4
    BY <1>2, <1>3, <1>5, <1>6, <1>7, <2>2 DEF IsMainOp
  <2> QED BY <2>1, <2>2
<1> QED BY <1>1, <1>4, <1>7, <1>8, Tuples DEF ProgramIs, p, c

\* What a put or a get does between its barriers and behind them.
LEMMA P2PShape ==
    ASSUME NEW r, NEW n, workload[r][n] \in Call, NEW mb, NEW cb, IsP2P(workload[r][n])
    PROVE  ProgramIs(P2P(r, n), r, n, mb, cb)
<1> DEFINE c == workload[r][n]
           p == P2P(r, n)
           source == IsSource(c, r)
           stage == IF source THEN <<Stage(r, n, Slice(c))>> ELSE << >>
           bar == <<Barrier(n, c.group)>>
           remote == IF c.op = "put" /\ source THEN <<Copy(n, PutMoves(c, r))>>
                     ELSE IF c.op = "get" /\ ~ source THEN <<Copy(n, GetMoves(c, r, n))>>
                     ELSE << >>
           out == IF c.op = "put" /\ ~ source THEN <<Copy(n, OutMoves(c, r, n))>> ELSE << >>
<1>1. p.main = (((stage \o bar) \o remote) \o bar) \o out /\ p.copy = << >>
  BY DEF P2P, PutMoves, GetMoves, OutMoves, PostBarrier
<1>0. c.op \in {"put", "get"} /\ ~ Piped(c) /\ CopyLen(c) = 0
  BY DEF IsP2P, Piped, CopyLen
<1>2. /\ IsSeq(bar) /\ Len(bar) = 1 /\ bar[1] = Barrier(n, c.group)
      /\ IsSeq(stage) /\ Len(stage) = (IF source THEN 1 ELSE 0)
      /\ source => stage[1] = Stage(r, n, Slice(c))
      /\ IsSeq(remote)
      /\ Len(remote) = (IF (c.op = "put" /\ source) \/ (c.op = "get" /\ ~ source) THEN 1 ELSE 0)
      /\ c.op = "put" /\ source => remote[1] = Copy(n, PutMoves(c, r))
      /\ c.op = "get" /\ ~ source => remote[1] = Copy(n, GetMoves(c, r, n))
      /\ IsSeq(out) /\ Len(out) = (IF c.op = "put" /\ ~ source THEN 1 ELSE 0)
      /\ c.op = "put" /\ ~ source => out[1] = Copy(n, OutMoves(c, r, n))
  BY Tuples
<1>6. /\ \A X : IsOp(Stage(r, n, X)) /\ Stage(r, n, X).kind = "copy" /\ Stage(r, n, X).call = n
      /\ IsOp(Barrier(n, c.group)) /\ \A M : IsOp(Copy(n, M))
      /\ \A M : Copy(n, M).kind = "copy" /\ Copy(n, M).call = n /\ Copy(n, M).moves = M
      /\ Barrier(n, c.group).kind = "barrier" /\ Barrier(n, c.group).call = n
      /\ Barrier(n, c.group).moves = {} /\ Barrier(n, c.group).waits = {}
      /\ \A X : Stage(r, n, X).waits = {}
      /\ \A M : Copy(n, M).waits = {}
  BY DEF Stage, Barrier, Copy, IsOp
<1>b. Stage(r, n, Slice(c)).moves = StageMoves(c, r, n, Slice(c))
  BY DEF Stage, StageMoves, Copy
<1> HIDE DEF stage, bar, remote, out, p
<1> DEFINE s1 == stage \o bar
           s2 == s1 \o remote
           s3 == s2 \o bar
           s4 == s3 \o out
<1>3. /\ IsSeq(s1) /\ Len(s1) = Len(stage) + 1
      /\ \A i \in 1 .. Len(stage) : s1[i] = stage[i]
      /\ s1[Len(stage) + 1] = bar[1] /\ Len(stage) \in Nat
  <2>1. Joined(s1, stage, bar)
    BY <1>2, Join, Zenon
  <2> HIDE DEF s1
  <2> QED BY <1>2, <2>1 DEF Joined
<1> HIDE DEF s1
<1>4. /\ IsSeq(s2) /\ Len(s2) = Len(s1) + Len(remote)
      /\ \A i \in 1 .. Len(s1) : s2[i] = s1[i]
      /\ \A i \in 1 .. Len(remote) : s2[Len(s1) + i] = remote[i]
      /\ Len(s1) \in Nat /\ Len(remote) \in Nat
  <2>1. Joined(s2, s1, remote)
    BY <1>2, <1>3, Join, Zenon
  <2> HIDE DEF s2
  <2> QED BY <1>2, <2>1 DEF Joined
<1> HIDE DEF s2
<1>5. /\ IsSeq(s3) /\ Len(s3) = Len(s2) + 1
      /\ \A i \in 1 .. Len(s2) : s3[i] = s2[i]
      /\ s3[Len(s2) + 1] = bar[1] /\ Len(s2) \in Nat
  <2>1. Joined(s3, s2, bar)
    BY <1>2, <1>4, Join, Zenon
  <2> HIDE DEF s3
  <2> QED BY <1>2, <2>1 DEF Joined
<1> HIDE DEF s3
<1>7. /\ IsSeq(s4) /\ Len(s4) = Len(s3) + Len(out)
      /\ \A i \in 1 .. Len(s3) : s4[i] = s3[i]
      /\ \A i \in 1 .. Len(out) : s4[Len(s3) + i] = out[i]
      /\ Len(s3) \in Nat /\ Len(out) \in Nat
  <2>1. Joined(s4, s3, out)
    BY <1>2, <1>5, Join, Zenon
  <2> HIDE DEF s4
  <2> QED BY <1>2, <2>1 DEF Joined
<1> HIDE DEF s4
<1>8. p.main = s4
  BY <1>1 DEF s1, s2, s3, s4
<1> HIDE DEF c, source
<1>a. IsSeq(s4) /\ IsSeq(p.copy) /\ Len(p.copy) = 0
  BY <1>1, <1>7, Tuples
<1>9. CASE c.op = "put" /\ source
  <2>1. /\ Len(s4) = 4 /\ s4[1] = Stage(r, n, Slice(c)) /\ s4[2] = Barrier(n, c.group)
        /\ s4[3] = Copy(n, PutMoves(c, r)) /\ s4[4] = Barrier(n, c.group)
    BY <1>2, <1>3, <1>4, <1>5, <1>7, <1>9
  <2>2. /\ MainLen(c, r) = 4 /\ \A j : BarAt(c, r, j) <=> j \in {2, 4}
        /\ \A j : MovesAt(c, r, n, j) =
              IF BarAt(c, r, j) THEN {}
              ELSE IF j = 1 THEN StageMoves(c, r, n, Slice(c)) ELSE PutMoves(c, r)
    BY <1>0, <1>9 DEF MainLen, BarAt, MovesAt, c, source, IsP2P
  <2>3. ASSUME NEW j \in 1 .. 4 PROVE IsMainOp(s4[j], c, r, n, j, cb)
    <3>1. j \in {1, 2, 3, 4}
      OBVIOUS
    <3>2. BarAt(c, r, j) => s4[j] = Barrier(n, c.group)
      BY <2>1, <2>2, <3>1
    <3>3. ~ BarAt(c, r, j) => IsOp(s4[j]) /\ s4[j].kind = "copy" /\ s4[j].call = n /\ s4[j].moves = MovesAt(c, r, n, j) /\ s4[j].waits = {}
      BY <1>6, <1>b, <2>1, <2>2, <3>1
    <3>4. BarAt(c, r, j) => MovesAt(c, r, n, j) = {}
      BY <2>2
    <3> QED BY <1>0, <1>6, <3>2, <3>3, <3>4 DEF IsMainOp
  <2> QED BY <1>0, <1>8, <1>a, <2>1, <2>2, <2>3 DEF ProgramIs, c, p
<1>10. CASE c.op = "put" /\ ~ source
  <2>1. /\ Len(s4) = 3 /\ s4[1] = Barrier(n, c.group) /\ s4[2] = Barrier(n, c.group)
        /\ s4[3] = Copy(n, OutMoves(c, r, n))
    BY <1>2, <1>3, <1>4, <1>5, <1>7, <1>10
  <2>2. /\ MainLen(c, r) = 3 /\ \A j : BarAt(c, r, j) <=> j \in {1, 2}
        /\ \A j : MovesAt(c, r, n, j) =
              IF BarAt(c, r, j) THEN {}
              ELSE IF j = 1 THEN StageMoves(c, r, n, Slice(c)) ELSE OutMoves(c, r, n)
    BY <1>0, <1>10 DEF MainLen, BarAt, MovesAt, c, source, IsP2P
  <2>3. ASSUME NEW j \in 1 .. 3 PROVE IsMainOp(s4[j], c, r, n, j, cb)
    <3>1. j \in {1, 2, 3}
      OBVIOUS
    <3>2. BarAt(c, r, j) => s4[j] = Barrier(n, c.group)
      BY <2>1, <2>2, <3>1
    <3>3. ~ BarAt(c, r, j) => IsOp(s4[j]) /\ s4[j].kind = "copy" /\ s4[j].call = n /\ s4[j].moves = MovesAt(c, r, n, j) /\ s4[j].waits = {}
      BY <1>6, <1>b, <2>1, <2>2, <3>1
    <3>4. BarAt(c, r, j) => MovesAt(c, r, n, j) = {}
      BY <2>2
    <3> QED BY <1>0, <1>6, <3>2, <3>3, <3>4 DEF IsMainOp
  <2> QED BY <1>0, <1>8, <1>a, <2>1, <2>2, <2>3 DEF ProgramIs, c, p
<1>11. CASE c.op = "get" /\ source
  <2>1. /\ Len(s4) = 3 /\ s4[1] = Stage(r, n, Slice(c)) /\ s4[2] = Barrier(n, c.group)
        /\ s4[3] = Barrier(n, c.group)
    BY <1>2, <1>3, <1>4, <1>5, <1>7, <1>11
  <2>2. /\ MainLen(c, r) = 3 /\ \A j : BarAt(c, r, j) <=> j \in {2, 3}
        /\ \A j : MovesAt(c, r, n, j) =
              IF BarAt(c, r, j) THEN {}
              ELSE IF j = 1 THEN StageMoves(c, r, n, Slice(c)) ELSE PutMoves(c, r)
    BY <1>0, <1>11 DEF MainLen, BarAt, MovesAt, c, source, IsP2P
  <2>3. ASSUME NEW j \in 1 .. 3 PROVE IsMainOp(s4[j], c, r, n, j, cb)
    <3>1. j \in {1, 2, 3}
      OBVIOUS
    <3>2. BarAt(c, r, j) => s4[j] = Barrier(n, c.group)
      BY <2>1, <2>2, <3>1
    <3>3. ~ BarAt(c, r, j) => IsOp(s4[j]) /\ s4[j].kind = "copy" /\ s4[j].call = n /\ s4[j].moves = MovesAt(c, r, n, j) /\ s4[j].waits = {}
      BY <1>6, <1>b, <2>1, <2>2, <3>1
    <3>4. BarAt(c, r, j) => MovesAt(c, r, n, j) = {}
      BY <2>2
    <3> QED BY <1>0, <1>6, <3>2, <3>3, <3>4 DEF IsMainOp
  <2> QED BY <1>0, <1>8, <1>a, <2>1, <2>2, <2>3 DEF ProgramIs, c, p
<1>12. CASE c.op = "get" /\ ~ source
  <2>1. /\ Len(s4) = 3 /\ s4[1] = Barrier(n, c.group) /\ s4[2] = Copy(n, GetMoves(c, r, n))
        /\ s4[3] = Barrier(n, c.group)
    BY <1>2, <1>3, <1>4, <1>5, <1>7, <1>12
  <2>2. /\ MainLen(c, r) = 3 /\ \A j : BarAt(c, r, j) <=> j \in {1, 3}
        /\ \A j : MovesAt(c, r, n, j) =
              IF BarAt(c, r, j) THEN {}
              ELSE IF j = 1 THEN StageMoves(c, r, n, Slice(c)) ELSE GetMoves(c, r, n)
    BY <1>0, <1>12 DEF MainLen, BarAt, MovesAt, c, source, IsP2P
  <2>3. ASSUME NEW j \in 1 .. 3 PROVE IsMainOp(s4[j], c, r, n, j, cb)
    <3>1. j \in {1, 2, 3}
      OBVIOUS
    <3>2. BarAt(c, r, j) => s4[j] = Barrier(n, c.group)
      BY <2>1, <2>2, <3>1
    <3>3. ~ BarAt(c, r, j) => IsOp(s4[j]) /\ s4[j].kind = "copy" /\ s4[j].call = n /\ s4[j].moves = MovesAt(c, r, n, j) /\ s4[j].waits = {}
      BY <1>6, <1>b, <2>1, <2>2, <3>1
    <3>4. BarAt(c, r, j) => MovesAt(c, r, n, j) = {}
      BY <2>2
    <3> QED BY <1>0, <1>6, <3>2, <3>3, <3>4 DEF IsMainOp
  <2> QED BY <1>0, <1>8, <1>a, <2>1, <2>2, <2>3 DEF ProgramIs, c, p
<1> QED BY <1>0, <1>9, <1>10, <1>11, <1>12

\* A function on 1 .. n is a sequence.
LEMMA SeqOf ==
    ASSUME NEW n \in Nat, NEW f, DOMAIN f = 1 .. n, f = [i \in 1 .. n |-> f[i]]
    PROVE  IsSeq(f) /\ Len(f) = n
<1> DEFINE T == {f[i] : i \in DOMAIN f}
<1>1. \A i \in 1 .. n : f[i] \in T
  OBVIOUS
<1> HIDE DEF T
<1>2. f \in [1 .. n -> T]
  BY <1>1
<1>3. f \in Seq(T) /\ Len(f) = n
  BY <1>2
<1> QED BY <1>3 DEF IsSeq, T

\* Waiting for events changes nothing else of an operation.
LEMMA AfterFacts ==
    ASSUME NEW op, IsOp(op), NEW E
    PROVE  LET b == After(E, op) IN
           /\ IsOp(b) /\ b.kind = op.kind /\ b.call = op.call /\ b.moves = op.moves
           /\ b.waits = op.waits \cup E
<1> DEFINE b == After(E, op)
<1>1. b = [op EXCEPT !.waits = op.waits \cup E]
  BY DEF After
<1> HIDE DEF b
<1>2. /\ IsOp(b) /\ b.kind = op.kind /\ b.call = op.call /\ b.moves = op.moves
      /\ b.waits = op.waits \cup E
  BY <1>1 DEF IsOp
<1> QED BY <1>2 DEF b

\* Pipelined: each chunk is staged on the copy stream; on the main stream a
\* barrier waits for it and a pull follows.
LEMMA PipelinedShape ==
    ASSUME NEW r, NEW n, workload[r][n] \in Call, Piped(workload[r][n]),
           Len(queue[r].main) \in Nat, Len(queue[r].copy) \in Nat
    PROVE  ProgramIs(Pipelined(r, n), r, n, Len(queue[r].main), Len(queue[r].copy))
<1> DEFINE c == workload[r][n]
           cb == Len(queue[r].copy)
           p == Pipelined(r, n)
           chunk(k) == <<After(Staged(r, k), Barrier(n, c.group)), Pull(r, n, {k})>>
           s == [j \in 1 .. 2 * c.size |-> chunk((j - 1) \div 2)[((j - 1) % 2) + 1]]
           t == PostBarrier(n, c.group)
           u == [j \in 1 .. c.size |-> After(IF j = 1 THEN Fork(r) ELSE {}, Stage(r, n, {j - 1}))]
<1>0. c.size \in Nat \ {0} /\ 2 * c.size \in Nat
  <2>1. c.size \in Nat \ {0}
    BY DEF Call
  <2> QED BY <2>1
<1>1. p.main = s \o t /\ p.copy = u
  BY DEF Pipelined
<1>2. IsSeq(t) /\ Len(t) = 1 /\ t[1] = Barrier(n, c.group)
  BY Tuples DEF PostBarrier
<1>3. IsSeq(s) /\ Len(s) = 2 * c.size
  BY <1>0, SeqOf
<1>4. IsSeq(u) /\ Len(u) = c.size
  BY <1>0, SeqOf
<1>5. MainLen(c, r) = 2 * c.size + 1 /\ CopyLen(c) = c.size /\ Piped(c)
  BY DEF MainLen, CopyLen
<1>6. \A j : /\ BarAt(c, r, j) <=> j % 2 = 1
             /\ MovesAt(c, r, n, j) = IF BarAt(c, r, j) THEN {} ELSE PullMoves(c, r, n, {j \div 2 - 1})
  BY DEF BarAt, MovesAt
<1>7. /\ IsOp(Barrier(n, c.group))
      /\ \A X : IsOp(Pull(r, n, X)) /\ Pull(r, n, X).kind = "copy" /\ Pull(r, n, X).call = n
      /\ Barrier(n, c.group).kind = "barrier" /\ Barrier(n, c.group).call = n
      /\ Barrier(n, c.group).moves = {} /\ Barrier(n, c.group).waits = {}
      /\ \A X : Pull(r, n, X).waits = {}
  BY DEF Pull, Barrier, Copy, IsOp
<1>16. \A X : Pull(r, n, X).moves = PullMoves(c, r, n, X)
  BY DEF Pull, PullMoves, Copy
<1>14. ASSUME NEW k \in Nat
       PROVE  LET op == After(Staged(r, k), Barrier(n, c.group)) IN
              /\ IsOp(op) /\ op.kind = "barrier" /\ op.call = n /\ op.moves = {}
              /\ <<"copy", cb + k + 1>> \in op.waits /\ op.waits \subseteq Event
  <2>1. cb + k + 1 \in Nat
    OBVIOUS
  <2>2. Staged(r, k) = {<<"copy", cb + k + 1>>}
    BY DEF Staged
  <2> QED BY <1>7, <2>1, <2>2, AfterFacts DEF Event
<1>15. ASSUME NEW X, NEW E
       PROVE  LET op == After(E, Stage(r, n, X)) IN
              /\ IsOp(op) /\ op.kind = "copy" /\ op.call = n /\ op.moves = StageMoves(c, r, n, X)
              /\ op.waits = E
  <2>1. /\ IsOp(Stage(r, n, X)) /\ Stage(r, n, X).kind = "copy" /\ Stage(r, n, X).call = n
        /\ Stage(r, n, X).waits = {} /\ Stage(r, n, X).moves = StageMoves(c, r, n, X)
    BY DEF Stage, StageMoves, Copy, IsOp
  <2>2. {} \cup E = E
    OBVIOUS
  <2> QED BY <2>1, <2>2, AfterFacts
<1>8. ASSUME NEW j \in 1 .. 2 * c.size
      PROVE  /\ j % 2 = 1 => s[j] = After(Staged(r, j \div 2), Barrier(n, c.group))
             /\ j % 2 # 1 => s[j] = Pull(r, n, {j \div 2 - 1})
  <2>1. s[j] = chunk((j - 1) \div 2)[((j - 1) % 2) + 1]
    OBVIOUS
  <2>2. CASE j % 2 = 1
    <3>1. ((j - 1) % 2) + 1 = 1 /\ (j - 1) \div 2 = j \div 2
      BY <2>2
    <3>2. s[j] = chunk(j \div 2)[1]
      BY <2>1, <3>1, Zenon
    <3>3. chunk(j \div 2)[1] = After(Staged(r, j \div 2), Barrier(n, c.group))
      OBVIOUS
    <3> QED BY <2>2, <3>2, <3>3, Zenon
  <2>3. CASE j % 2 # 1
    <3>1. ((j - 1) % 2) + 1 = 2 /\ (j - 1) \div 2 = j \div 2 - 1
      BY <2>3
    <3>2. s[j] = chunk(j \div 2 - 1)[2]
      BY <2>1, <3>1, Zenon
    <3>3. chunk(j \div 2 - 1)[2] = Pull(r, n, {j \div 2 - 1})
      OBVIOUS
    <3> QED BY <2>3, <3>2, <3>3, Zenon
  <2> QED BY <2>2, <2>3
<1>9. \A k \in 1 .. c.size : u[k] = After(IF k = 1 THEN Fork(r) ELSE {}, Stage(r, n, {k - 1}))
  OBVIOUS
<1> HIDE DEF c, cb, p, s, t, u, chunk
<1>10. Joined(p.main, s, t)
  BY <1>1, <1>2, <1>3, Join, Zenon
<1>11. ASSUME NEW j \in 1 .. 2 * c.size + 1 PROVE IsMainOp(p.main[j], c, r, n, j, cb)
  <2>1. CASE j = 2 * c.size + 1
    <3>1. p.main[j] = Barrier(n, c.group)
      BY <1>0, <1>2, <1>3, <1>10, <2>1 DEF Joined
    <3>2. BarAt(c, r, j) /\ ~ j <= 2 * c.size
      BY <1>0, <1>6, <2>1
    <3> QED BY <1>6, <1>7, <3>1, <3>2 DEF IsMainOp
  <2>2. CASE j \in 1 .. 2 * c.size /\ j % 2 = 1
    <3>1. p.main[j] = After(Staged(r, j \div 2), Barrier(n, c.group))
      BY <1>3, <1>8, <1>10, <2>2 DEF Joined
    <3>2. j \div 2 \in Nat
      BY <1>0, <2>2
    <3> QED BY <1>6, <1>14, <2>2, <3>1, <3>2 DEF IsMainOp
  <2>3. CASE j \in 1 .. 2 * c.size /\ j % 2 # 1
    <3>1. p.main[j] = Pull(r, n, {j \div 2 - 1})
      BY <1>3, <1>8, <1>10, <2>3 DEF Joined
    <3> QED BY <1>6, <1>7, <1>16, <2>3, <3>1 DEF IsMainOp
  <2> QED BY <1>0, <2>1, <2>2, <2>3
<1>12. ASSUME NEW k \in 1 .. c.size PROVE IsCopyOp(p.copy[k], c, r, n, k, Len(queue[r].main))
  <2> DEFINE E == IF k = 1 THEN Fork(r) ELSE {}
  <2>1. (k = 1 => <<"main", Len(queue[r].main)>> \in E) /\ E \subseteq Event
    BY DEF Fork, Event
  <2>2. p.copy[k] = After(E, Stage(r, n, {k - 1}))
    BY <1>1, <1>9
  <2> HIDE DEF E
  <2>3. /\ IsOp(p.copy[k]) /\ p.copy[k].kind = "copy" /\ p.copy[k].call = n
        /\ p.copy[k].moves = StageMoves(c, r, n, {k - 1}) /\ p.copy[k].waits = E
    BY <1>15, <2>2
  <2> QED BY <2>1, <2>3 DEF IsCopyOp
<1>13. IsSeq(p.main) /\ Len(p.main) = 2 * c.size + 1
  BY <1>2, <1>3, <1>10 DEF Joined
<1> QED BY <1>1, <1>4, <1>5, <1>11, <1>12, <1>13 DEF ProgramIs, c, p, cb

\* Waiting for the caller's stream changes nothing else of a program.
LEMMA IngestShape ==
    ASSUME NEW p, NEW r, NEW n, NEW mb, NEW cb, ProgramIs(p, r, n, mb, cb), workload[r][n] \in Call,
           n \in Nat
    PROVE  LET q == [main |-> Ingest(p.main, n), copy |-> Ingest(p.copy, n)] IN
           ProgramIs(q, r, n, mb, cb)
<1> DEFINE c == workload[r][n]
           q == [main |-> Ingest(p.main, n), copy |-> Ingest(p.copy, n)]
<1>1. MainLen(c, r) \in Nat /\ CopyLen(c) \in Nat
  BY ShapeFacts
<1>2. ASSUME NEW s, IsSeq(s)
      PROVE  /\ IsSeq(Ingest(s, n)) /\ Len(Ingest(s, n)) = Len(s)
             /\ \A i \in 1 .. Len(s) :
                   \/ Ingest(s, n)[i] = s[i]
                   \/ Ingest(s, n)[i] = [s[i] EXCEPT !.waits = {<<"user", n>>} \cup @]
                   \/ Ingest(s, n)[i] = [s[i] EXCEPT !.waits = @ \cup {<<"user", n>>}]
  <2>1. Len(s) \in Nat /\ DOMAIN s = 1 .. Len(s)
    BY <1>2, SeqIntro DEF IsSeq
  <2>2. CASE s = << >>
    BY <1>2, <2>2 DEF Ingest
  <2>3. CASE s # << >>
    <3>1. Ingest(s, n) = [s EXCEPT ![1] = After({<<"user", n>>}, @)]
      BY <2>3 DEF Ingest
    <3>2. DOMAIN Ingest(s, n) = 1 .. Len(s) /\ Ingest(s, n) = [i \in 1 .. Len(s) |-> Ingest(s, n)[i]]
      BY <2>1, <3>1
    <3>3. IsSeq(Ingest(s, n)) /\ Len(Ingest(s, n)) = Len(s)
      BY <2>1, <3>2, SeqOf
    <3> QED BY <2>1, <3>1, <3>3 DEF After
  <2> QED BY <2>2, <2>3
<1>3. q.main = Ingest(p.main, n) /\ q.copy = Ingest(p.copy, n)
  OBVIOUS
<1> HIDE DEF q, c
<1>4. ASSUME NEW j \in 1 .. MainLen(c, r) PROVE IsMainOp(q.main[j], c, r, n, j, cb)
  <2>1. IsMainOp(p.main[j], c, r, n, j, cb)
    BY DEF ProgramIs, c
  <2>2. \/ q.main[j] = p.main[j]
        \/ q.main[j] = [p.main[j] EXCEPT !.waits = {<<"user", n>>} \cup @]
        \/ q.main[j] = [p.main[j] EXCEPT !.waits = @ \cup {<<"user", n>>}]
    BY <1>2, <1>3 DEF ProgramIs, c
  <2> DEFINE a == p.main[j]
             b == q.main[j]
  <2> HIDE DEF a, b
  <2>3. IsOp(a) => /\ IsOp(b) /\ b.kind = a.kind /\ b.call = a.call /\ b.moves = a.moves
                   /\ \A e \in a.waits : e \in b.waits
                   /\ a.waits \subseteq Event => b.waits \subseteq Event
    <3>1. <<"user", n>> \in Event
      BY DEF Event
    <3> QED BY <2>2, <3>1 DEF IsOp, a, b
  <2> QED BY <2>1, <2>3 DEF IsMainOp, a, b
<1>5. ASSUME NEW k \in 1 .. CopyLen(c) PROVE IsCopyOp(q.copy[k], c, r, n, k, mb)
  <2>1. IsCopyOp(p.copy[k], c, r, n, k, mb)
    BY DEF ProgramIs, c
  <2>2. \/ q.copy[k] = p.copy[k]
        \/ q.copy[k] = [p.copy[k] EXCEPT !.waits = {<<"user", n>>} \cup @]
        \/ q.copy[k] = [p.copy[k] EXCEPT !.waits = @ \cup {<<"user", n>>}]
    BY <1>2, <1>3 DEF ProgramIs, c
  <2> DEFINE a == p.copy[k]
             b == q.copy[k]
  <2> HIDE DEF a, b
  <2>3. IsOp(a) => /\ IsOp(b) /\ b.kind = a.kind /\ b.call = a.call /\ b.moves = a.moves
                   /\ \A e \in a.waits : e \in b.waits
                   /\ a.waits \subseteq Event => b.waits \subseteq Event
    <3>1. <<"user", n>> \in Event
      BY DEF Event
    <3> QED BY <2>2, <3>1 DEF IsOp, a, b
  <2> QED BY <2>1, <2>3 DEF IsCopyOp, a, b
<1> QED BY <1>2, <1>3, <1>4, <1>5 DEF ProgramIs, c, q

-----------------------------------------------------------------------------
(* What the constants say.                                                 *)

\* The positions of a rank's calls on a group.
On(s, g) == {m \in DOMAIN s : s[m].group = g}

\* An instance of a module of the library is that module.
LEMMA SameCardinality ==
    /\ \A S : Calendar!Cardinality(S) = Cardinality(S)
    /\ \A S : Barriers!Cardinality(S) = Cardinality(S)
  BY DEF Calendar!Cardinality, Barriers!Cardinality, Cardinality

\* So is an instance of Schedule, in what it counts.
LEMMA SameCount == \A S, n : Calendar!CountUpTo(S, n) = CountUpTo(S, n)
  BY SameCardinality DEF Calendar!CountUpTo, CountUpTo

\* The groups' members are ranks.
LEMMA MembersType == Members \in [Group -> SUBSET Rank]
<1>1. ASSUME NEW g \in Group, NEW i \in Peers(g) PROVE PeerAt(g, i) \in Rank
  <2>1. GroupRanks[g] \in Seq(Rank)
    BY WorkloadsAssumption
  <2>2. Len(GroupRanks[g]) \in Nat /\ i + 1 \in 1 .. Len(GroupRanks[g])
    BY <2>1 DEF Peers
  <2> QED BY <2>1, <2>2 DEF PeerAt
<1> QED BY <1>1 DEF Members

\* What the assumptions say of a call of a workload.
LEMMA CallFacts ==
    ASSUME workload \in Workloads, NEW r \in Rank
    PROVE  /\ Len(workload[r]) \in Nat /\ DOMAIN workload[r] = 1 .. Len(workload[r])
           /\ \A n \in 1 .. Len(workload[r]) :
                 /\ workload[r][n] \in Call /\ workload[r][n].group \in Group
                 /\ r \in Members[workload[r][n].group]
                 /\ Members[workload[r][n].group] \in SUBSET Rank
                 /\ \A q \in Members[workload[r][n].group] :
                       \E m \in 1 .. Len(workload[q]) :
                          SameCall(workload, r, n, q, m) /\ workload[q][m] = workload[r][n]
<1>1. workload \in [Rank -> Seq(Call)] /\ Matched(workload)
  BY WorkloadsAssumption
<1>2. \A q \in Rank : Len(workload[q]) \in Nat /\ DOMAIN workload[q] = 1 .. Len(workload[q])
  BY <1>1
<1>3. ASSUME NEW n \in 1 .. Len(workload[r])
      PROVE  /\ workload[r][n] \in Call /\ workload[r][n].group \in Group
             /\ r \in Members[workload[r][n].group]
             /\ Members[workload[r][n].group] \in SUBSET Rank
             /\ \A q \in Members[workload[r][n].group] :
                   \E m \in 1 .. Len(workload[q]) :
                      SameCall(workload, r, n, q, m) /\ workload[q][m] = workload[r][n]
  <2>1. n \in DOMAIN workload[r] /\ workload[r][n] \in Call
    BY <1>1, <1>2
  <2>2. workload[r][n].group \in Group
    BY <2>1 DEF Call
  <2>3. /\ r \in Members[workload[r][n].group]
        /\ \A q \in Members[workload[r][n].group] :
              \E m \in DOMAIN workload[q] :
                 SameCall(workload, r, n, q, m) /\ workload[q][m] = workload[r][n]
    BY <1>1, <2>1 DEF Matched
  <2>4. Members[workload[r][n].group] \in SUBSET Rank
    BY <2>2, MembersType
  <2>5. ASSUME NEW q \in Members[workload[r][n].group]
        PROVE  \E m \in 1 .. Len(workload[q]) :
                  SameCall(workload, r, n, q, m) /\ workload[q][m] = workload[r][n]
    <3>1. DOMAIN workload[q] = 1 .. Len(workload[q])
      BY <1>2, <2>4
    <3> QED BY <2>3, <3>1
  <2> QED BY <2>1, <2>2, <2>3, <2>4, <2>5
<1> QED BY <1>2, <1>3

-----------------------------------------------------------------------------
(* Barriers and their instances.                                           *)

\* The barriers of GroupBarrier are those of Schedule.
LEMMA SameInstance ==
    \A s, i : Barriers!BarrierAt(s, i) = Calendar!BarrierAt(s, i)
  BY SameCardinality DEF Barriers!BarrierAt, Calendar!BarrierAt, Barriers!CountUpTo, Calendar!CountUpTo,
         Barriers!Calls, Calendar!Calls

\* A call's place among the calls on its group is a count.
LEMMA OrdinalCount ==
    ASSUME NEW s, NEW n \in DOMAIN s, DOMAIN s = 1 .. Len(s), Len(s) \in Nat
    PROVE  /\ Ordinal(s, n) = Calendar!CountUpTo(On(s, s[n].group), n)
           /\ Ordinal(s, n) \in Nat
<1>1. {m \in 1 .. n : s[m].group = s[n].group} = On(s, s[n].group) \cap (1 .. n)
  BY DEF On
<1>2. Ordinal(s, n) = Calendar!CountUpTo(On(s, s[n].group), n)
  BY <1>1, SameCardinality DEF Ordinal, Calendar!CountUpTo
<1>3. n \in Nat
  OBVIOUS
<1>4. Calendar!CountUpTo(On(s, s[n].group), n) \in Nat
  BY <1>3, SameCount, CountType
<1> QED BY <1>2, <1>4

\* Among a rank's calls on one group, a call's place tells where it is.
LEMMA OrdinalOrder ==
    ASSUME NEW s, DOMAIN s = 1 .. Len(s), Len(s) \in Nat,
           NEW m \in DOMAIN s, NEW n \in DOMAIN s, s[m].group = s[n].group
    PROVE  /\ Ordinal(s, m) = Ordinal(s, n) => m = n
           /\ m < n <=> Ordinal(s, m) < Ordinal(s, n)
<1> DEFINE S == On(s, s[n].group)
<1>1. m \in S /\ n \in S /\ m \in Nat /\ n \in Nat
  BY DEF On
<1>2. /\ Ordinal(s, m) = Calendar!CountUpTo(S, m) /\ Ordinal(s, m) \in Nat
      /\ Ordinal(s, n) = Calendar!CountUpTo(S, n) /\ Ordinal(s, n) \in Nat
  BY OrdinalCount
<1> HIDE DEF S
<1>3. m < n => Calendar!CountUpTo(S, m) < Calendar!CountUpTo(S, n)
  BY <1>1, SameCount, CountMonotonic
<1>4. n < m => Calendar!CountUpTo(S, n) < Calendar!CountUpTo(S, m)
  BY <1>1, SameCount, CountMonotonic
<1> QED BY <1>1, <1>2, <1>3, <1>4

-----------------------------------------------------------------------------
(* Where a call starts: on its streams, in the schedule, on its group.     *)

MainLens(s, r) == [i \in 1 .. Len(s) |-> MainLen(s[i], r)]
CopyLens(s) == [i \in 1 .. Len(s) |-> CopyLen(s[i])]
BarLens(s) == [i \in 1 .. Len(s) |-> Bars(s[i])]
GroupLens(s, g) == [i \in 1 .. Len(s) |-> IF s[i].group = g THEN Bars(s[i]) ELSE 0]

\* Behind the calls 1 .. n - 1 of s, which rank r makes.
MainBase(s, r, n) == Sum(MainLens(s, r), n - 1)
CopyBase(s, n) == Sum(CopyLens(s), n - 1)
BarBase(s, n) == Sum(BarLens(s), n - 1)
GroupBase(s, g, n) == Sum(GroupLens(s, g), n - 1)

\* A sum of lengths, by the call it leads to.
LEMMA SumBase ==
    ASSUME NEW N \in Nat, NEW f \in [1 .. N -> Nat]
    PROVE  /\ Sum(f, 1 - 1) = 0
           /\ \A n \in 1 .. N + 1 : Sum(f, n - 1) \in Nat
           /\ \A n \in 1 .. N : Sum(f, (n + 1) - 1) = Sum(f, n - 1) + f[n]
           /\ \A m, n \in 1 .. N + 1 : m <= n => Sum(f, m - 1) <= Sum(f, n - 1)
           /\ \A m, n \in 1 .. N + 1 : m < n => Sum(f, m - 1) + f[m] <= Sum(f, n - 1)
<1>0. /\ Sum(f, 0) = 0
      /\ \A n \in 0 .. N : Sum(f, n) \in Nat
      /\ \A n \in 0 .. N - 1 : Sum(f, n + 1) = Sum(f, n) + f[n + 1]
      /\ \A m, n \in 0 .. N : m <= n => Sum(f, m) <= Sum(f, n)
  BY SumFacts
<1>1. Sum(f, 1 - 1) = 0
  BY <1>0
<1>2. ASSUME NEW n \in 1 .. N + 1 PROVE Sum(f, n - 1) \in Nat
  <2>1. n - 1 \in 0 .. N
    OBVIOUS
  <2> QED BY <1>0, <2>1
<1>3. ASSUME NEW n \in 1 .. N PROVE Sum(f, (n + 1) - 1) = Sum(f, n - 1) + f[n]
  <2>1. n - 1 \in 0 .. N - 1 /\ (n - 1) + 1 = n /\ (n + 1) - 1 = n
    OBVIOUS
  <2>2. Sum(f, (n - 1) + 1) = Sum(f, n - 1) + f[(n - 1) + 1]
    BY <1>0, <2>1
  <2> QED BY <2>1, <2>2
<1>4. ASSUME NEW m \in 1 .. N + 1, NEW n \in 1 .. N + 1, m <= n
      PROVE  Sum(f, m - 1) <= Sum(f, n - 1)
  <2>1. m - 1 \in 0 .. N /\ n - 1 \in 0 .. N /\ m - 1 <= n - 1
    BY <1>4
  <2> QED BY <1>0, <2>1
<1>5. ASSUME NEW m \in 1 .. N + 1, NEW n \in 1 .. N + 1, m < n
      PROVE  Sum(f, m - 1) + f[m] <= Sum(f, n - 1)
  <2>1. m \in 1 .. N /\ m + 1 \in 1 .. N + 1 /\ m + 1 <= n
    BY <1>5
  <2>2. Sum(f, (m + 1) - 1) <= Sum(f, n - 1)
    BY <1>4, <2>1
  <2>3. Sum(f, (m + 1) - 1) = Sum(f, m - 1) + f[m]
    BY <1>3, <2>1
  <2> QED BY <2>2, <2>3
<1> QED BY <1>1, <1>2, <1>3, <1>4, <1>5

\* What the proofs use of these starts.
LEMMA BaseFacts ==
    ASSUME workload \in Workloads, NEW r \in Rank
    PROVE  LET N == Len(workload[r]) IN
           /\ N \in Nat
           /\ MainBase(workload[r], r, 1) = 0 /\ CopyBase(workload[r], 1) = 0 /\ BarBase(workload[r], 1) = 0
           /\ \A n \in 1 .. N + 1 :
                 MainBase(workload[r], r, n) \in Nat /\ CopyBase(workload[r], n) \in Nat /\ BarBase(workload[r], n) \in Nat
           /\ \A n \in 1 .. N :
                 LET c == workload[r][n] IN
                 /\ MainBase(workload[r], r, n + 1) = MainBase(workload[r], r, n) + MainLen(c, r)
                 /\ CopyBase(workload[r], n + 1) = CopyBase(workload[r], n) + CopyLen(c)
                 /\ BarBase(workload[r], n + 1) = BarBase(workload[r], n) + Bars(c)
           /\ \A m, n \in 1 .. N + 1 : m < n =>
                 LET c == workload[r][m] IN
                 /\ MainBase(workload[r], r, m) + MainLen(c, r) <= MainBase(workload[r], r, n)
                 /\ CopyBase(workload[r], m) + CopyLen(c) <= CopyBase(workload[r], n)
                 /\ BarBase(workload[r], m) + Bars(c) <= BarBase(workload[r], n)
<1> DEFINE N == Len(workload[r])
<1>1. /\ N \in Nat /\ MainLens(workload[r], r) \in [1 .. N -> Nat] /\ CopyLens(workload[r]) \in [1 .. N -> Nat]
      /\ BarLens(workload[r]) \in [1 .. N -> Nat]
  BY CallFacts, ShapeFacts DEF MainLens, CopyLens, BarLens
<1>2. \A n \in 1 .. N :
         /\ MainLens(workload[r], r)[n] = MainLen(workload[r][n], r)
         /\ CopyLens(workload[r])[n] = CopyLen(workload[r][n])
         /\ BarLens(workload[r])[n] = Bars(workload[r][n])
  BY DEF MainLens, CopyLens, BarLens
<1> HIDE DEF N
<1>3. \A m, n \in 1 .. N + 1 : m < n => m \in 1 .. N
  BY <1>1
<1>4. /\ MainBase(workload[r], r, 1) = 0
      /\ \A n \in 1 .. N + 1 : MainBase(workload[r], r, n) \in Nat
      /\ \A n \in 1 .. N : MainBase(workload[r], r, n + 1) = MainBase(workload[r], r, n) + MainLens(workload[r], r)[n]
      /\ \A m, n \in 1 .. N + 1 : m < n => MainBase(workload[r], r, m) + MainLens(workload[r], r)[m] <= MainBase(workload[r], r, n)
  BY <1>1, SumBase, Zenon DEF MainBase
<1>5. /\ CopyBase(workload[r], 1) = 0
      /\ \A n \in 1 .. N + 1 : CopyBase(workload[r], n) \in Nat
      /\ \A n \in 1 .. N : CopyBase(workload[r], n + 1) = CopyBase(workload[r], n) + CopyLens(workload[r])[n]
      /\ \A m, n \in 1 .. N + 1 : m < n => CopyBase(workload[r], m) + CopyLens(workload[r])[m] <= CopyBase(workload[r], n)
  BY <1>1, SumBase, Zenon DEF CopyBase
<1>6. /\ BarBase(workload[r], 1) = 0
      /\ \A n \in 1 .. N + 1 : BarBase(workload[r], n) \in Nat
      /\ \A n \in 1 .. N : BarBase(workload[r], n + 1) = BarBase(workload[r], n) + BarLens(workload[r])[n]
      /\ \A m, n \in 1 .. N + 1 : m < n => BarBase(workload[r], m) + BarLens(workload[r])[m] <= BarBase(workload[r], n)
  BY <1>1, SumBase, Zenon DEF BarBase
<1>7. \A n \in 1 .. N :
         /\ MainBase(workload[r], r, n + 1) = MainBase(workload[r], r, n) + MainLen(workload[r][n], r)
         /\ CopyBase(workload[r], n + 1) = CopyBase(workload[r], n) + CopyLen(workload[r][n])
         /\ BarBase(workload[r], n + 1) = BarBase(workload[r], n) + Bars(workload[r][n])
  BY <1>2, <1>4, <1>5, <1>6
<1>8. \A m, n \in 1 .. N + 1 : m < n =>
         /\ MainBase(workload[r], r, m) + MainLen(workload[r][m], r) <= MainBase(workload[r], r, n)
         /\ CopyBase(workload[r], m) + CopyLen(workload[r][m]) <= CopyBase(workload[r], n)
         /\ BarBase(workload[r], m) + Bars(workload[r][m]) <= BarBase(workload[r], n)
  BY <1>2, <1>3, <1>4, <1>5, <1>6
<1> QED BY <1>1, <1>4, <1>5, <1>6, <1>7, <1>8 DEF N

\* The same for the barriers of one group.
LEMMA GroupBaseFacts ==
    ASSUME workload \in Workloads, NEW r \in Rank, NEW g
    PROVE  LET N == Len(workload[r])
               own(n) == IF workload[r][n].group = g THEN Bars(workload[r][n]) ELSE 0
           IN
           /\ GroupBase(workload[r], g, 1) = 0
           /\ \A n \in 1 .. N + 1 : GroupBase(workload[r], g, n) \in Nat
           /\ \A n \in 1 .. N : GroupBase(workload[r], g, n + 1) = GroupBase(workload[r], g, n) + own(n)
           /\ \A m, n \in 1 .. N + 1 : m < n => GroupBase(workload[r], g, m) + own(m) <= GroupBase(workload[r], g, n)
<1> DEFINE N == Len(workload[r])
           own(n) == IF workload[r][n].group = g THEN Bars(workload[r][n]) ELSE 0
<1>1. N \in Nat /\ GroupLens(workload[r], g) \in [1 .. N -> Nat]
  BY CallFacts, ShapeFacts DEF GroupLens
<1>2. \A n \in 1 .. N : GroupLens(workload[r], g)[n] = own(n)
  BY DEF GroupLens
<1> HIDE DEF N, own
<1>3. \A m, n \in 1 .. N + 1 : m < n => m \in 1 .. N
  BY <1>1
<1>4. /\ GroupBase(workload[r], g, 1) = 0
      /\ \A n \in 1 .. N + 1 : GroupBase(workload[r], g, n) \in Nat
      /\ \A n \in 1 .. N : GroupBase(workload[r], g, n + 1) = GroupBase(workload[r], g, n) + GroupLens(workload[r], g)[n]
      /\ \A m, n \in 1 .. N + 1 : m < n =>
            GroupBase(workload[r], g, m) + GroupLens(workload[r], g)[m] <= GroupBase(workload[r], g, n)
  BY <1>1, SumBase, Zenon DEF GroupBase
<1>5. \A n \in 1 .. N : GroupBase(workload[r], g, n + 1) = GroupBase(workload[r], g, n) + own(n)
  BY <1>2, <1>4
<1>6. \A m, n \in 1 .. N + 1 : m < n => GroupBase(workload[r], g, m) + own(m) <= GroupBase(workload[r], g, n)
  BY <1>2, <1>3, <1>4
<1> QED BY <1>4, <1>5, <1>6 DEF N, own

\* The same collective is the same call for both ranks.
LEMMA MateFacts ==
    ASSUME workload \in Workloads, NEW r \in Rank, NEW n \in 1 .. Len(workload[r]),
           NEW q \in Rank, NEW m \in 1 .. Len(workload[q]), SameCall(workload, r, n, q, m)
    PROVE  /\ workload[q][m] = workload[r][n]
           /\ SameCall(workload, q, m, r, n)
           /\ q \in Members[workload[r][n].group]
<1>1. q \in Members[workload[r][n].group]
  BY CallFacts DEF SameCall
<1>2. PICK k \in 1 .. Len(workload[q]) :
         SameCall(workload, r, n, q, k) /\ workload[q][k] = workload[r][n]
  BY <1>1, CallFacts
<1>3. /\ workload[q][m].group = workload[q][k].group
      /\ Ordinal(workload[q], m) = Ordinal(workload[q], k)
  BY <1>2 DEF SameCall
<1>4. m = k
  <2>1. Len(workload[q]) \in Nat /\ DOMAIN workload[q] = 1 .. Len(workload[q])
    BY CallFacts
  <2> QED BY <1>3, <2>1, OrdinalOrder
<1> QED BY <1>1, <1>2, <1>4 DEF SameCall

\* A rank's earlier calls on a group have mates among the other's earlier ones,
LEMMA EpochsBelow ==
    ASSUME workload \in Workloads, NEW r \in Rank, NEW n \in 1 .. Len(workload[r]),
           NEW q \in Rank, NEW m \in 1 .. Len(workload[q]), SameCall(workload, r, n, q, m)
    PROVE  GroupBase(workload[r], workload[r][n].group, n) <= GroupBase(workload[q], workload[r][n].group, m)
<1> DEFINE g == workload[r][n].group
           A == Units(GroupLens(workload[r], g), n - 1)
           B == Units(GroupLens(workload[q], g), m - 1)
           mate(i) == CHOOSE k \in 1 .. Len(workload[q]) : SameCall(workload, r, i, q, k)
           f == [p \in A |-> <<mate(p[1]), p[2]>>]
<1>0. /\ Len(workload[r]) \in Nat /\ DOMAIN workload[r] = 1 .. Len(workload[r])
      /\ Len(workload[q]) \in Nat /\ DOMAIN workload[q] = 1 .. Len(workload[q])
  BY CallFacts
<1>1. q \in Members[g]
  BY MateFacts
<1>2. GroupLens(workload[q], g) \in [1 .. Len(workload[q]) -> Nat]
  BY <1>0, CallFacts, ShapeFacts DEF GroupLens
<1>3. IsFiniteSet(B)
  <2>1. m - 1 \in 0 .. Len(workload[q])
    BY <1>0
  <2> QED BY <1>0, <1>2, <2>1, UnitsFinite
<1>4. workload[q][m].group = g /\ Ordinal(workload[q], m) = Ordinal(workload[r], n)
  BY DEF SameCall
<1> HIDE DEF g
<1>5. ASSUME NEW p \in A
      PROVE  /\ p[1] \in 1 .. n - 1 /\ p[1] \in 1 .. Len(workload[r]) /\ p[2] \in Nat \ {0}
             /\ workload[r][p[1]].group = g /\ p[2] <= Bars(workload[r][p[1]])
             /\ p = <<p[1], p[2]>>
  <2>1. p[1] \in 1 .. n - 1 /\ p[2] \in Nat \ {0} /\ p[2] <= GroupLens(workload[r], g)[p[1]] /\ p = <<p[1], p[2]>>
    BY DEF Units
  <2>2. p[1] \in 1 .. Len(workload[r])
    BY <1>0, <2>1
  <2>3. GroupLens(workload[r], g)[p[1]] =
           IF workload[r][p[1]].group = g THEN Bars(workload[r][p[1]]) ELSE 0
    BY <2>2 DEF GroupLens
  <2> QED BY <2>1, <2>2, <2>3
<1>6. ASSUME NEW i \in 1 .. Len(workload[r]), workload[r][i].group = g, i < n
      PROVE  /\ mate(i) \in 1 .. m - 1 /\ mate(i) \in 1 .. Len(workload[q])
             /\ SameCall(workload, r, i, q, mate(i))
             /\ workload[q][mate(i)] = workload[r][i]
  <2>1. \E k \in 1 .. Len(workload[q]) : SameCall(workload, r, i, q, k)
    BY <1>1, <1>6, CallFacts
  <2>2. mate(i) \in 1 .. Len(workload[q]) /\ SameCall(workload, r, i, q, mate(i))
    BY <2>1
  <2> HIDE DEF mate
  <2>3. workload[q][mate(i)] = workload[r][i]
    BY <2>2, MateFacts
  <2>4. Ordinal(workload[r], i) < Ordinal(workload[r], n)
    BY <1>0, <1>6, OrdinalOrder DEF g
  <2>5. Ordinal(workload[q], mate(i)) < Ordinal(workload[q], m)
    BY <1>4, <2>2, <2>4 DEF SameCall
  <2>6. mate(i) < m
    BY <1>0, <1>4, <1>6, <2>2, <2>3, <2>5, OrdinalOrder
  <2> QED BY <2>2, <2>3, <2>6
<1> HIDE DEF mate
<1>7. ASSUME NEW p \in A PROVE f[p] \in B
  <2>1. p[1] < n
    BY <1>5
  <2>2. /\ mate(p[1]) \in 1 .. m - 1 /\ mate(p[1]) \in 1 .. Len(workload[q])
        /\ workload[q][mate(p[1])] = workload[r][p[1]]
    BY <1>5, <1>6, <2>1
  <2>3. GroupLens(workload[q], g)[mate(p[1])] = Bars(workload[r][p[1]])
    BY <1>5, <2>2 DEF GroupLens
  <2> QED BY <1>5, <2>2, <2>3 DEF Units
<1>8. ASSUME NEW p \in A, NEW s \in A, f[p] = f[s] PROVE p = s
  <2>1. mate(p[1]) = mate(s[1]) /\ p[2] = s[2]
    BY <1>8
  <2>2. /\ p[1] \in 1 .. Len(workload[r]) /\ s[1] \in 1 .. Len(workload[r])
        /\ workload[r][p[1]].group = g /\ workload[r][s[1]].group = g
        /\ p[1] < n /\ s[1] < n
    BY <1>5
  <2>3. Ordinal(workload[r], p[1]) = Ordinal(workload[r], s[1])
    <3>1. SameCall(workload, r, p[1], q, mate(p[1])) /\ SameCall(workload, r, s[1], q, mate(s[1]))
      BY <1>6, <2>2
    <3> QED BY <2>1, <3>1 DEF SameCall
  <2>4. p[1] = s[1]
    BY <1>0, <2>2, <2>3, OrdinalOrder
  <2> QED BY <1>5, <2>1, <2>4
<1> HIDE DEF A, B
<1>9. f \in Injection(A, B)
  BY <1>7, <1>8 DEF Injection, IsInjective
<1>10. Cardinality(A) <= Cardinality(B)
  BY <1>3, <1>9, FS_Injection
<1> QED BY <1>10 DEF GroupBase, Sum, A, B, g

\* so the same collective starts at the same epoch for both.
LEMMA SameEpoch ==
    ASSUME workload \in Workloads, NEW r \in Rank, NEW n \in 1 .. Len(workload[r]),
           NEW q \in Rank, NEW m \in 1 .. Len(workload[q]), SameCall(workload, r, n, q, m)
    PROVE  GroupBase(workload[q], workload[r][n].group, m) = GroupBase(workload[r], workload[r][n].group, n)
<1> DEFINE g == workload[r][n].group
<1>1. workload[q][m].group = g /\ SameCall(workload, q, m, r, n)
  BY MateFacts
<1>2. GroupBase(workload[r], g, n) <= GroupBase(workload[q], g, m)
  BY EpochsBelow
<1>3. GroupBase(workload[q], g, m) <= GroupBase(workload[r], g, n)
  BY <1>1, EpochsBelow
<1>4. GroupBase(workload[r], g, n) \in Nat /\ GroupBase(workload[q], g, m) \in Nat
  <2>1. Len(workload[r]) \in Nat /\ Len(workload[q]) \in Nat
    BY CallFacts
  <2>2. n \in 1 .. Len(workload[r]) + 1 /\ m \in 1 .. Len(workload[q]) + 1
    BY <2>1
  <2> QED BY <2>2, GroupBaseFacts
<1> QED BY <1>2, <1>3, <1>4

-----------------------------------------------------------------------------
(* The inductive invariant.                                                *)

\* The state functions have their domains, the queues are sequences.
FunctionsOK ==
    /\ submitted \in [Rank -> Nat] /\ produced \in [Rank -> Nat]
    /\ DOMAIN queue = Rank /\ DOMAIN done = Rank /\ DOMAIN moved = Rank
    /\ queue = [r \in Rank |-> queue[r]] /\ done = [r \in Rank |-> done[r]]
    /\ moved = [r \in Rank |-> moved[r]]
    /\ \A r \in Rank :
          /\ queue[r] = [s \in Stream |-> queue[r][s]]
          /\ \A s \in Stream : IsSeq(queue[r][s])
          /\ done[r] \in [Stream -> Nat]
          /\ moved[r] = [s \in Stream |-> moved[r][s]]
    /\ schedule \in [Rank -> Seq(Group)]
    /\ arrived \in [Rank -> Nat] /\ departed \in [Rank -> Nat]

\* The queues q and the schedule sch of rank r hold the first k calls of w.
Holds(w, r, k, q, sch) ==
    /\ k <= Len(w)
    /\ Len(q["main"]) = MainBase(w, r, k + 1)
    /\ Len(q["copy"]) = CopyBase(w, k + 1)
    /\ Len(sch) = BarBase(w, k + 1)
    /\ \A n \in 1 .. k :
          /\ \A j \in 1 .. MainLen(w[n], r) :
                IsMainOp(q["main"][MainBase(w, r, n) + j], w[n], r, n, j, CopyBase(w, n))
          /\ \A i \in 1 .. CopyLen(w[n]) :
                IsCopyOp(q["copy"][CopyBase(w, n) + i], w[n], r, n, i, MainBase(w, r, n))
    /\ \A s \in Stream : \A i \in 1 .. Len(q[s]) : q[s][i].waits \subseteq Event
    /\ \A i \in 1 .. Len(q["copy"]) :
          \E n \in 1 .. k : \E m \in 1 .. CopyLen(w[n]) : i = CopyBase(w, n) + m
    /\ \A i \in 1 .. Len(sch) : \E n \in 1 .. k : \E b \in 1 .. Bars(w[n]) : i = BarBase(w, n) + b

\* Every rank has enqueued the calls that it has submitted.
QueueOK == \A r \in Rank : Holds(workload[r], r, submitted[r], queue[r], schedule[r])

\* The barriers of a call are consecutive instances of its group.
EpochsOK ==
    \A r \in Rank :
        /\ \A g \in Group :
              Calendar!CountUpTo(Calendar!Calls(schedule[r], g), Len(schedule[r]))
                  = GroupBase(workload[r], g, submitted[r] + 1)
        /\ \A n \in 1 .. submitted[r] : \A b \in 1 .. Bars(workload[r][n]) :
              LET g == workload[r][n].group IN
              Calendar!BarrierAt(schedule[r], BarBase(workload[r], n) + b)
                  = [group |-> g, epoch |-> GroupBase(workload[r], g, n) + b - 1]

\* The main stream of r has run d operations of its n-th call, and has left
\* the barriers among them.
Pos(r, n, d) ==
    /\ n \in 1 .. submitted[r] + 1
    /\ d \in Nat
    /\ n <= submitted[r] => d < MainLen(workload[r][n], r)
    /\ n = submitted[r] + 1 => d = 0
    /\ done[r]["main"] = MainBase(workload[r], r, n) + d
    /\ departed[r] = BarBase(workload[r], n) + (IF d = 0 THEN 0 ELSE Passed(workload[r][n], r, d))

\* Rank r is somewhere in its calls; inside a barrier, that barrier is next.
At(r) ==
    /\ \E n, d \in Nat : Pos(r, n, d)
    /\ done[r]["copy"] <= Len(queue[r]["copy"])
    /\ produced[r] <= submitted[r]
    /\ arrived[r] \in {departed[r], departed[r] + 1}
    /\ arrived[r] # departed[r] => Ready(r, "main") /\ Running(r, "main").kind = "barrier"

\* Every rank is.
StreamOK == \A r \in Rank : At(r)

\* The two streams of a rank wait for each other.
ForkOK ==
    \A r \in Rank : \A n \in 1 .. submitted[r] :
        LET c == workload[r][n] IN
        Piped(c) =>
            /\ \A k \in 0 .. c.size - 1 :
                  done[r]["main"] >= MainBase(workload[r], r, n) + 2 * k + 1 =>
                     done[r]["copy"] >= CopyBase(workload[r], n) + k + 1
            /\ done[r]["copy"] > CopyBase(workload[r], n) => done[r]["main"] >= MainBase(workload[r], r, n)

\* Rank q takes part in r's n-th call, and has arrived at its barrier b.
Joins(r, n, q, b) ==
    \E m \in 1 .. submitted[q] :
        SameCall(workload, r, n, q, m) /\ BarBase(workload[q], m) + b <= arrived[q]

\* Who has left a barrier of a call has seen every member arrive at that one.
JoinedOK ==
    \A r \in Rank : \A n \in 1 .. submitted[r] : \A b \in 1 .. Bars(workload[r][n]) :
        BarBase(workload[r], n) + b <= departed[r] =>
            \A q \in Members[workload[r][n].group] : Joins(r, n, q, b)

\* What is left of TypeOK.
Moving(r) ==
    /\ \A s \in Stream :
          moved[r][s] # {} => Ready(r, s) /\ moved[r][s] \subseteq Running(r, s).moves
    /\ departed[r] =
          Cardinality({i \in 1 .. done[r]["main"] : queue[r]["main"][i].kind = "barrier"})

\* For every rank.
MovedOK == \A r \in Rank : Moving(r)

\* The inductive invariant.
IInv ==
    /\ workload \in Workloads
    /\ FunctionsOK /\ QueueOK /\ EpochsOK /\ StreamOK /\ ForkOK /\ JoinedOK /\ MovedOK

\* It holds before any call.
LEMMA InitOK == Init => IInv
<1> SUFFICES ASSUME Init PROVE IInv
  OBVIOUS
<1> USE DEF Init
<1>0. ASSUME NEW r \in Rank
      PROVE  /\ Len(workload[r]) \in Nat
             /\ MainBase(workload[r], r, 0 + 1) = 0 /\ CopyBase(workload[r], 0 + 1) = 0 /\ BarBase(workload[r], 0 + 1) = 0
             /\ submitted[r] = 0 /\ produced[r] = 0 /\ arrived[r] = 0 /\ departed[r] = 0
             /\ queue[r]["main"] = << >> /\ queue[r]["copy"] = << >> /\ schedule[r] = << >>
             /\ done[r]["main"] = 0 /\ done[r]["copy"] = 0
             /\ \A s \in Stream : queue[r][s] = << >> /\ moved[r][s] = {}
  BY BaseFacts DEF Stream
<1>1. FunctionsOK
  BY Tuples DEF FunctionsOK
<1>2. QueueOK
  <2>1. \A r \in Rank :
           /\ 0 <= Len(workload[r])
           /\ Len(queue[r]["main"]) = 0 /\ Len(queue[r]["copy"]) = 0 /\ Len(schedule[r]) = 0
    BY <1>0
  <2>2. \A r \in Rank :
           MainBase(workload[r], r, 0 + 1) = 0 /\ CopyBase(workload[r], 0 + 1) = 0 /\ BarBase(workload[r], 0 + 1) = 0
    BY <1>0
  <2>3. \A r \in Rank : submitted[r] = 0
    BY <1>0
  <2>4. \A i : i \notin 1 .. 0
    OBVIOUS
  <2> HIDE DEF Init
  <2>5. ASSUME NEW r \in Rank
        PROVE  /\ submitted[r] <= Len(workload[r])
               /\ Len(queue[r]["main"]) = MainBase(workload[r], r, submitted[r] + 1)
               /\ Len(queue[r]["copy"]) = CopyBase(workload[r], submitted[r] + 1)
               /\ Len(schedule[r]) = BarBase(workload[r], submitted[r] + 1)
               /\ 1 .. submitted[r] = {}
               /\ 1 .. Len(queue[r]["copy"]) = {} /\ 1 .. Len(schedule[r]) = {}
               /\ \A s \in Stream : 1 .. Len(queue[r][s]) = {}
    BY <2>1, <2>2, <2>3, <2>4 DEF Stream
  <2> QED BY <2>5 DEF QueueOK, Holds
<1>3. EpochsOK
  <2>1. ASSUME NEW r \in Rank, NEW g \in Group
        PROVE  /\ Calendar!CountUpTo(Calendar!Calls(schedule[r], g), 0) = 0
               /\ GroupBase(workload[r], g, 0 + 1) = 0
    <3>1. GroupBase(workload[r], g, 1) = 0
      BY GroupBaseFacts
    <3> QED BY <3>1, SameCount, CountZero
  <2>2. \A r \in Rank : Len(schedule[r]) = 0
    BY <1>0
  <2> QED BY <1>0, <2>1, <2>2 DEF EpochsOK
<1>4. StreamOK
  <2>1. ASSUME NEW r \in Rank PROVE Pos(r, 1, 0)
    BY <1>0 DEF Pos
  <2> QED BY <1>0, <2>1 DEF StreamOK, At
<1>5. ForkOK /\ JoinedOK
  BY <1>0 DEF ForkOK, JoinedOK
<1>6. MovedOK
  <2>1. \A r \in Rank : {i \in 1 .. 0 : queue[r]["main"][i].kind = "barrier"} = {}
    OBVIOUS
  <2> QED BY <1>0, <2>1, FS_EmptySet DEF MovedOK, Moving
<1> QED BY <1>1, <1>2, <1>3, <1>4, <1>5, <1>6 DEF IInv

-----------------------------------------------------------------------------
(* What every step leaves true.                                            *)

\* A step takes the streams of r on, and its queues keep what they hold.
Forward(r) ==
    /\ produced[r] <= produced'[r]
    /\ \A s \in Stream :
          /\ done[r][s] <= done'[r][s]
          /\ Len(queue[r][s]) <= Len(queue'[r][s])
          /\ \A i \in 1 .. Len(queue[r][s]) : queue'[r][s][i] = queue[r][s][i]

\* So an operation that could run still can, as long as its stream stays there.
LEMMA ReadyStays ==
    ASSUME NEW r \in Rank, FunctionsOK, FunctionsOK', QueueOK, Forward(r),
           NEW s \in Stream, Ready(r, s), done'[r][s] = done[r][s]
    PROVE  Ready(r, s)' /\ Running(r, s)' = Running(r, s)
<1>1. /\ done[r][s] \in Nat /\ Len(queue[r][s]) \in Nat /\ Len(queue'[r][s]) \in Nat
      /\ \A t \in Stream : done[r][t] \in Nat /\ done'[r][t] \in Nat
      /\ produced[r] \in Nat /\ produced'[r] \in Nat
  BY SeqIntro DEF FunctionsOK, IsSeq
<1>2. done[r][s] + 1 \in 1 .. Len(queue[r][s])
  BY <1>1 DEF Ready
<1>3. Running(r, s)' = Running(r, s)
  BY <1>2 DEF Running, Forward
<1>4. Running(r, s).waits \subseteq Event
  BY <1>2 DEF QueueOK, Holds, Running
<1>5. ASSUME NEW w \in Running(r, s).waits PROVE Completed(r, w[1])' >= w[2]
  <2>1. w \in Event /\ w[1] \in {"main", "copy", "user"} /\ w[2] \in Nat
    BY <1>4 DEF Event
  <2>2. Completed(r, w[1]) >= w[2]
    BY DEF Ready
  <2>3. CASE w[1] = "user"
    BY <1>1, <2>1, <2>2, <2>3 DEF Completed, Forward
  <2>4. CASE w[1] \in Stream
    <3>1. Completed(r, w[1]) = done[r][w[1]] /\ Completed(r, w[1])' = done'[r][w[1]]
      BY <2>4 DEF Completed, Stream
    <3> QED BY <1>1, <2>1, <2>2, <2>4, <3>1 DEF Forward
  <2> QED BY <2>1, <2>3, <2>4 DEF Stream
<1>6. done'[r][s] < Len(queue'[r][s])
  BY <1>1 DEF Ready, Forward
<1> QED BY <1>3, <1>5, <1>6 DEF Ready

-----------------------------------------------------------------------------
(* A call is submitted.                                                    *)

\* A program has as many barriers as its shape says.
LEMMA BarCount ==
    ASSUME NEW c \in Call, NEW r
    PROVE  /\ IsFiniteSet({j \in 1 .. MainLen(c, r) : BarAt(c, r, j)})
           /\ Cardinality({j \in 1 .. MainLen(c, r) : BarAt(c, r, j)}) = Bars(c)
<1> DEFINE S == {j \in 1 .. MainLen(c, r) : BarAt(c, r, j)}
<1>1. c.size \in Nat \ {0} /\ c.op \in Op
  BY DEF Call
<1>2. CASE Piped(c)
  <2> DEFINE T == 1 .. c.size + 1
             f == [b \in T |-> 2 * b - 1]
  <2>1. MainLen(c, r) = 2 * c.size + 1 /\ Bars(c) = c.size + 1
    BY <1>2 DEF MainLen, Bars
  <2>2. \A j : BarAt(c, r, j) <=> j % 2 = 1
    BY <1>2 DEF BarAt
  <2>3. S = {j \in 1 .. 2 * c.size + 1 : j % 2 = 1}
    BY <2>1, <2>2
  <2>4. IsFiniteSet(T) /\ Cardinality(T) = c.size + 1
    <3>1. 1 \in Int /\ c.size + 1 \in Int /\ ~ 1 > c.size + 1 /\ (c.size + 1) - 1 + 1 = c.size + 1
      BY <1>1
    <3>2. IsFiniteSet(T) /\ Cardinality(T) = IF 1 > c.size + 1 THEN 0 ELSE (c.size + 1) - 1 + 1
      BY <3>1, FS_Interval, Zenon
    <3> QED BY <3>1, <3>2
  <2>5. ASSUME NEW b \in T PROVE f[b] \in S
    <3>1. f[b] = 2 * b - 1 /\ b \in Nat /\ b >= 1 /\ b <= c.size + 1
      BY <1>1
    <3>2. 2 * b - 1 \in 1 .. 2 * c.size + 1 /\ (2 * b - 1) % 2 = 1
      BY <1>1, <3>1
    <3> QED BY <2>3, <3>1, <3>2
  <2>6. ASSUME NEW j \in S PROVE \E b \in T : f[b] = j
    <3>1. j \in 1 .. 2 * c.size + 1 /\ j % 2 = 1
      BY <2>3
    <3>2. (j + 1) \div 2 \in T /\ 2 * ((j + 1) \div 2) - 1 = j
      BY <1>1, <3>1
    <3> QED BY <3>2
  <2>7. \A a, b \in T : f[a] = f[b] => a = b
    BY <1>1
  <2> HIDE DEF S, T, f
  <2>8. f \in [T -> S]
    BY <2>5 DEF f
  <2>9. f \in Bijection(T, S)
    BY <2>6, <2>7, <2>8 DEF Bijection, Injection, Surjection, IsInjective
  <2>10. IsFiniteSet(S) /\ Cardinality(S) = Cardinality(T)
    BY <2>4, <2>9, FS_Bijection DEF ExistsBijection
  <2> QED BY <2>1, <2>4, <2>10 DEF S
<1>3. CASE ~ Piped(c)
  <2>1. Bars(c) = 2
    BY <1>3 DEF Bars
  <2>2. \E a, b \in Nat : a # b /\ S = {a, b}
    <3>1. CASE ~ IsP2P(c) \/ (c.op = "put" /\ IsSource(c, r))
      <4>1. MainLen(c, r) = 4 /\ \A j : BarAt(c, r, j) <=> j \in {2, 4}
        BY <1>3, <3>1 DEF MainLen, BarAt, IsP2P
      <4>2. S = {2, 4}
        BY <4>1
      <4> QED BY <4>2
    <3>2. CASE IsP2P(c) /\ ~ (c.op = "put" /\ IsSource(c, r))
      <4>1. MainLen(c, r) = 3 /\ \/ \A j : BarAt(c, r, j) <=> j \in {1, 2}
                                 \/ \A j : BarAt(c, r, j) <=> j \in {2, 3}
                                 \/ \A j : BarAt(c, r, j) <=> j \in {1, 3}
        BY <1>3, <3>2 DEF MainLen, BarAt, IsP2P
      <4>2. S = {1, 2} \/ S = {2, 3} \/ S = {1, 3}
        BY <4>1
      <4> QED BY <4>2
    <3> QED BY <3>1, <3>2
  <2> HIDE DEF S
  <2>3. PICK a, b \in Nat : a # b /\ S = {a, b}
    BY <2>2
  <2>4. IsFiniteSet({a}) /\ Cardinality({a}) = 1
    BY FS_Singleton
  <2>5. IsFiniteSet({a} \cup {b}) /\ Cardinality({a} \cup {b}) = 1 + 1
    BY <2>3, <2>4, FS_AddElement
  <2>6. S = {a} \cup {b}
    BY <2>3
  <2> QED BY <2>1, <2>5, <2>6 DEF S
<1> QED BY <1>2, <1>3

\* What submitting a call does to the queues and to the schedule.
LEMMA SubmitFacts ==
    ASSUME IInv, NEW r \in Rank, Submit(r)
    PROVE  LET n == submitted[r] + 1
               c == workload[r][n]
           IN
           /\ n \in 1 .. Len(workload[r]) /\ c \in Call /\ c.group \in Group
           /\ \A q \in Rank : submitted'[q] = IF q = r THEN n ELSE submitted[q]
           /\ \A q \in Rank : q # r => queue'[q] = queue[q] /\ schedule'[q] = schedule[q]
           /\ \E p : /\ ProgramIs(p, r, n, MainBase(workload[r], r, n), CopyBase(workload[r], n))
                     /\ queue'[r] = [s \in Stream |-> queue'[r][s]]
                     /\ queue'[r]["main"] = queue[r]["main"] \o p.main
                     /\ queue'[r]["copy"] = queue[r]["copy"] \o p.copy
           /\ \E t \in Seq(Group) :
                 /\ schedule'[r] = schedule[r] \o t /\ Len(t) = Bars(c)
                 /\ \A b \in 1 .. Bars(c) : t[b] = c.group
<1> DEFINE n == submitted[r] + 1
           c == workload[r][n]
           p == Program(r, n)
           e == [main |-> Ingest(p.main, n), copy |-> Ingest(p.copy, n)]
           t == BarrierGroups(p.main, c.group)
<1>1. n \in 1 .. Len(workload[r]) /\ c \in Call /\ c.group \in Group /\ n \in Nat
  <2>1. submitted[r] \in Nat /\ Len(workload[r]) \in Nat
    BY CallFacts DEF IInv, FunctionsOK
  <2>2. n \in 1 .. Len(workload[r])
    BY <2>1 DEF Submit
  <2> QED BY <2>2, CallFacts DEF IInv
<1>2. /\ \A q \in Rank : submitted'[q] = IF q = r THEN n ELSE submitted[q]
      /\ \A q \in Rank : q # r => queue'[q] = queue[q] /\ schedule'[q] = schedule[q]
      /\ schedule'[r] = schedule[r] \o t
      /\ queue'[r] = [s \in Stream |-> queue[r][s] \o Ingest(p[s], n)]
  BY DEF Submit, IInv, FunctionsOK
<1>3. /\ Len(queue[r]["main"]) = MainBase(workload[r], r, n) /\ Len(queue[r]["copy"]) = CopyBase(workload[r], n)
      /\ MainBase(workload[r], r, n) \in Nat /\ CopyBase(workload[r], n) \in Nat
      /\ queue[r].main = queue[r]["main"] /\ queue[r].copy = queue[r]["copy"]
  <2>1. n \in 1 .. Len(workload[r]) + 1
    BY <1>1
  <2> QED BY <2>1, BaseFacts DEF IInv, QueueOK, Holds
<1>4. ProgramIs(p, r, n, MainBase(workload[r], r, n), CopyBase(workload[r], n))
  <2>1. CASE IsP2P(c)
    <3>1. p = P2P(r, n)
      BY <2>1 DEF Program, IsP2P
    <3> HIDE DEF n, p
    <3> QED BY <1>1, <2>1, <3>1, P2PShape DEF c
  <2>2. CASE Piped(c)
    <3>1. p = Pipelined(r, n)
      BY <2>2 DEF Program, Piped, IsP2P
    <3> HIDE DEF n, p
    <3> QED BY <1>1, <1>3, <2>2, <3>1, PipelinedShape DEF c
  <2>3. CASE ~ IsP2P(c) /\ ~ Piped(c)
    <3>1. p = OneShot(r, n)
      BY <2>3 DEF Program, Piped, IsP2P
    <3> HIDE DEF n, p
    <3> QED BY <1>1, <2>3, <3>1, OneShotShape DEF c
  <2> QED BY <2>1, <2>2, <2>3
<1>5. Len(t) = Bars(c) /\ t \in Seq(Group) /\ \A b \in 1 .. Bars(c) : t[b] = c.group
  <2> DEFINE S == {j \in DOMAIN p.main : p.main[j].kind = "barrier"}
  <2>1. DOMAIN p.main = 1 .. MainLen(c, r)
    BY <1>4, SeqIntro DEF ProgramIs, IsSeq
  <2>2. \A j \in 1 .. MainLen(c, r) : p.main[j].kind = "barrier" <=> BarAt(c, r, j)
    BY <1>4 DEF ProgramIs, IsMainOp
  <2>3. S = {j \in 1 .. MainLen(c, r) : BarAt(c, r, j)}
    BY <2>1, <2>2
  <2> HIDE DEF S, p
  <2>4. Cardinality(S) = Bars(c) /\ Bars(c) \in Nat
    BY <1>1, <2>3, BarCount, ShapeFacts
  <2>5. t = [i \in 1 .. Cardinality(S) |-> c.group]
    BY DEF BarrierGroups, S
  <2> HIDE DEF c, t
  <2> QED BY <1>1, <2>4, <2>5
<1>6. ProgramIs(e, r, n, MainBase(workload[r], r, n), CopyBase(workload[r], n))
  <2> HIDE DEF n, p
  <2> QED BY <1>1, <1>4, IngestShape DEF c
<1>7. /\ queue'[r] = [s \in Stream |-> queue'[r][s]]
      /\ queue'[r]["main"] = queue[r]["main"] \o e.main
      /\ queue'[r]["copy"] = queue[r]["copy"] \o e.copy
  <2>1. p["main"] = p.main /\ p["copy"] = p.copy
    OBVIOUS
  <2> HIDE DEF p, n
  <2> QED BY <1>2, <2>1 DEF Stream
<1> HIDE DEF e, p, t
<1> QED BY <1>1, <1>2, <1>5, <1>6, <1>7

\* Where the main stream stands is within what the rank has submitted.
LEMMA PosBounds ==
    ASSUME workload \in Workloads, FunctionsOK, QueueOK, NEW r \in Rank,
           NEW n \in Nat, NEW d \in Nat, Pos(r, n, d)
    PROVE  /\ submitted[r] \in Nat /\ submitted[r] <= Len(workload[r]) /\ Len(workload[r]) \in Nat
           /\ n \in 1 .. Len(workload[r]) + 1 /\ submitted[r] + 1 \in 1 .. Len(workload[r]) + 1
           /\ done[r]["main"] <= Len(queue[r]["main"])
           /\ departed[r] <= Len(schedule[r])
           /\ n <= submitted[r] =>
                 /\ n \in 1 .. Len(workload[r])
                 /\ done[r]["main"] < Len(queue[r]["main"])
                 /\ done[r]["main"] < MainBase(workload[r], r, n + 1)
                 /\ departed[r] <= BarBase(workload[r], n + 1)
           /\ done[r]["main"] < Len(queue[r]["main"]) => n <= submitted[r]
<1> DEFINE N == submitted[r]
           w == workload[r]
           len == MainLen(w[n], r)
           bars == Bars(w[n])
           pass == Passed(w[n], r, d)
<1>1. N \in Nat /\ N <= Len(w) /\ Len(w) \in Nat /\ n \in 1 .. N + 1
  BY CallFacts DEF FunctionsOK, QueueOK, Holds, Pos
<1>2. n \in 1 .. Len(w) + 1 /\ N + 1 \in 1 .. Len(w) + 1
  BY <1>1
<1>3. /\ Len(queue[r]["main"]) = MainBase(w, r, N + 1) /\ Len(schedule[r]) = BarBase(w, N + 1)
      /\ MainBase(w, r, N + 1) \in Nat /\ BarBase(w, N + 1) \in Nat
      /\ MainBase(w, r, n) \in Nat /\ BarBase(w, n) \in Nat
  BY <1>2, BaseFacts DEF QueueOK, Holds
<1>4. done[r]["main"] = MainBase(w, r, n) + d
      /\ departed[r] = BarBase(w, n) + (IF d = 0 THEN 0 ELSE pass)
  BY DEF Pos
<1>5. CASE n = N + 1
  <2>1. d = 0
    BY <1>5 DEF Pos
  <2> HIDE DEF pass, N, w
  <2>2. ~ n <= N
    BY <1>1, <1>5
  <2>3. done[r]["main"] = Len(queue[r]["main"]) /\ departed[r] = Len(schedule[r])
    BY <1>3, <1>4, <1>5, <2>1
  <2>4. done[r]["main"] <= Len(queue[r]["main"]) /\ departed[r] <= Len(schedule[r]) /\ ~ done[r]["main"] < Len(queue[r]["main"])
    BY <1>3, <2>3
  <2> QED BY <1>1, <1>2, <2>2, <2>4 DEF N, w
<1>6. CASE n <= N
  <2>1. n \in 1 .. Len(w) /\ n < N + 1 /\ d < len
    BY <1>1, <1>6 DEF Pos
  <2>2. w[n] \in Call
    BY <2>1, CallFacts
  <2>3. len \in Nat /\ bars \in Nat /\ pass \in Nat /\ pass <= bars
    <3>1. len \in Nat
      BY <2>2, ShapeFacts
    <3>2. d \in 0 .. len
      BY <2>1, <3>1
    <3> QED BY <2>2, <3>1, <3>2, ShapeFacts
  <2>4. /\ MainBase(w, r, n + 1) = MainBase(w, r, n) + len
        /\ BarBase(w, n + 1) = BarBase(w, n) + bars
        /\ MainBase(w, r, n) + len <= MainBase(w, r, N + 1)
        /\ BarBase(w, n) + bars <= BarBase(w, N + 1)
    BY <1>2, <2>1, BaseFacts
  <2> HIDE DEF len, bars, pass, N, w
  <2>5. /\ done[r]["main"] < Len(queue[r]["main"])
        /\ done[r]["main"] < MainBase(w, r, n + 1)
        /\ done[r]["main"] <= Len(queue[r]["main"])
    BY <1>3, <1>4, <2>1, <2>3, <2>4
  <2>6. departed[r] <= BarBase(w, n + 1) /\ departed[r] <= Len(schedule[r])
    BY <1>3, <1>4, <2>3, <2>4
  <2> QED BY <1>1, <1>2, <1>6, <2>1, <2>5, <2>6 DEF N, w
<1> QED BY <1>1, <1>5, <1>6

\* Appending calls on g to a schedule s.
LEMMA CallsBehind ==
    ASSUME NEW s \in Seq(Group), NEW t \in Seq(Group), NEW g \in Group,
           \A b \in 1 .. Len(t) : t[b] = g
    PROVE  /\ \A h \in Group : \A i \in 0 .. Len(s) :
                 Calendar!CountUpTo(Calendar!Calls(s \o t, h), i) = Calendar!CountUpTo(Calendar!Calls(s, h), i)
           /\ \A h \in Group : \A i \in 0 .. Len(t) :
                 Calendar!CountUpTo(Calendar!Calls(s \o t, h), Len(s) + i) =
                    Calendar!CountUpTo(Calendar!Calls(s, h), Len(s)) + (IF h = g THEN i ELSE 0)
           /\ \A i \in 1 .. Len(s) : Calendar!BarrierAt(s \o t, i) = Calendar!BarrierAt(s, i)
           /\ \A b \in 1 .. Len(t) :
                 Calendar!BarrierAt(s \o t, Len(s) + b) =
                    [group |-> g, epoch |-> Calendar!CountUpTo(Calendar!Calls(s, g), Len(s)) + b - 1]
<1> DEFINE u == s \o t
<1>1. /\ u \in Seq(Group) /\ Len(s) \in Nat /\ Len(t) \in Nat
      /\ Len(u) = Len(s) + Len(t) /\ DOMAIN u = 1 .. Len(s) + Len(t)
      /\ DOMAIN s = 1 .. Len(s)
      /\ \A i \in 1 .. Len(s) : u[i] = s[i]
      /\ \A i \in 1 .. Len(t) : u[Len(s) + i] = g
  OBVIOUS
<1> HIDE DEF u
<1>2. \A i \in Len(s) + 1 .. Len(s) + Len(t) : u[i] = g
  <2> SUFFICES ASSUME NEW i \in Len(s) + 1 .. Len(s) + Len(t) PROVE u[i] = g
    OBVIOUS
  <2>1. i - Len(s) \in 1 .. Len(t) /\ Len(s) + (i - Len(s)) = i
    BY <1>1
  <2> QED BY <1>1, <2>1
<1>3. ASSUME NEW h \in Group, NEW i \in 0 .. Len(s)
      PROVE  Calendar!CountUpTo(Calendar!Calls(u, h), i) = Calendar!CountUpTo(Calendar!Calls(s, h), i)
  <2>1. Calendar!Calls(u, h) \cap (1 .. i) = Calendar!Calls(s, h) \cap (1 .. i)
    BY <1>1 DEF Calendar!Calls
  <2> QED BY <2>1 DEF Calendar!CountUpTo
<1>4. ASSUME NEW h \in Group, NEW i \in 0 .. Len(t)
      PROVE  Calendar!CountUpTo(Calendar!Calls(u, h), Len(s) + i) =
                Calendar!CountUpTo(Calendar!Calls(s, h), Len(s)) + (IF h = g THEN i ELSE 0)
  <2> DEFINE A == Calendar!Calls(s, h) \cap (1 .. Len(s))
             B == Len(s) + 1 .. Len(s) + i
  <2>1. IsFiniteSet(A)
    <3>1. IsFiniteSet(1 .. Len(s))
      BY <1>1, FS_Interval
    <3> QED BY <3>1, FS_Intersection
  <2>2. Cardinality(A) = Calendar!CountUpTo(Calendar!Calls(s, h), Len(s)) /\ Cardinality(A) \in Nat
    BY <2>1, SameCardinality, FS_CardinalityType DEF Calendar!CountUpTo
  <2>3. CASE h = g
    <3>1. Calendar!Calls(u, h) \cap (1 .. Len(s) + i) = A \cup B
      BY <1>1, <1>2, <2>3 DEF Calendar!Calls
    <3>2. A \cap B = {}
      BY <1>1
    <3>3. IsFiniteSet(B) /\ Cardinality(B) = i
      <4>1. Len(s) + 1 \in Int /\ Len(s) + i \in Int
        BY <1>1
      <4>2. IsFiniteSet(B) /\ Cardinality(B) = IF Len(s) + 1 > Len(s) + i THEN 0 ELSE (Len(s) + i) - (Len(s) + 1) + 1
        BY <4>1, FS_Interval, Zenon
      <4> QED BY <1>1, <4>2
    <3> HIDE DEF A, B
    <3>4. Cardinality(A \cup B) = Cardinality(A) + Cardinality(B) - Cardinality(A \cap B)
      BY <2>1, <3>3, FS_Union
    <3>5. Cardinality(A \cap B) = 0
      BY <3>2, FS_EmptySet
    <3>6. Cardinality(A \cup B) = Cardinality(A) + i
      BY <2>2, <3>3, <3>4, <3>5
    <3> QED BY <2>2, <2>3, <3>1, <3>6, SameCardinality DEF Calendar!CountUpTo
  <2>4. CASE h # g
    <3>1. Calendar!Calls(u, h) \cap (1 .. Len(s) + i) = A
      BY <1>1, <1>2, <2>4 DEF Calendar!Calls
    <3>2. Calendar!CountUpTo(Calendar!Calls(u, h), Len(s) + i) = Cardinality(A)
      BY <3>1, SameCardinality DEF Calendar!CountUpTo
    <3> HIDE DEF A
    <3> QED BY <2>2, <2>4, <3>2
  <2> QED BY <2>3, <2>4
<1>5. ASSUME NEW i \in 1 .. Len(s) PROVE Calendar!BarrierAt(u, i) = Calendar!BarrierAt(s, i)
  <2>1. u[i] = s[i] /\ s[i] \in Group /\ i - 1 \in 0 .. Len(s)
    BY <1>1
  <2> QED BY <1>3, <2>1 DEF Calendar!BarrierAt
<1>6. ASSUME NEW b \in 1 .. Len(t)
      PROVE  Calendar!BarrierAt(u, Len(s) + b) =
                [group |-> g, epoch |-> Calendar!CountUpTo(Calendar!Calls(s, g), Len(s)) + b - 1]
  <2>1. u[Len(s) + b] = g /\ b - 1 \in 0 .. Len(t) /\ (Len(s) + b) - 1 = Len(s) + (b - 1)
    BY <1>1
  <2>2. Calendar!CountUpTo(Calendar!Calls(u, g), Len(s) + (b - 1)) = Calendar!CountUpTo(Calendar!Calls(s, g), Len(s)) + (b - 1)
    BY <1>4, <2>1
  <2>3. Calendar!CountUpTo(Calendar!Calls(s, g), Len(s)) \in Nat
    BY <1>1, SameCount, CountType
  <2>4. Calendar!CountUpTo(Calendar!Calls(s, g), Len(s)) + (b - 1) = Calendar!CountUpTo(Calendar!Calls(s, g), Len(s)) + b - 1
    BY <2>3
  <2> QED BY <2>1, <2>2, <2>4 DEF Calendar!BarrierAt
<1> QED BY <1>3, <1>4, <1>5, <1>6 DEF u

\* Every step leaves the order of the streams and what they waited for.
LEMMA SubmitForward ==
    ASSUME IInv, NEW r \in Rank, Submit(r)
    PROVE  /\ FunctionsOK'
           /\ \A q \in Rank : Forward(q) /\ submitted[q] <= submitted'[q]
<1> DEFINE n == submitted[r] + 1
<1>1. PICK p : /\ ProgramIs(p, r, n, MainBase(workload[r], r, n), CopyBase(workload[r], n))
               /\ queue'[r] = [s \in Stream |-> queue'[r][s]]
               /\ queue'[r]["main"] = queue[r]["main"] \o p.main
               /\ queue'[r]["copy"] = queue[r]["copy"] \o p.copy
  BY SubmitFacts
<1>2. PICK t \in Seq(Group) : schedule'[r] = schedule[r] \o t
  BY SubmitFacts
<1>3. /\ \A q \in Rank : submitted'[q] = IF q = r THEN n ELSE submitted[q]
      /\ \A q \in Rank : q # r => queue'[q] = queue[q] /\ schedule'[q] = schedule[q]
  BY SubmitFacts
<1>4. /\ Joined(queue'[r]["main"], queue[r]["main"], p.main)
      /\ Joined(queue'[r]["copy"], queue[r]["copy"], p.copy)
  <2>1. IsSeq(queue[r]["main"]) /\ IsSeq(queue[r]["copy"]) /\ IsSeq(p.main) /\ IsSeq(p.copy)
    BY <1>1 DEF IInv, FunctionsOK, ProgramIs, Stream
  <2> QED BY <1>1, <2>1, Join, Zenon
<1>5. submitted[r] \in Nat /\ n \in Nat
  BY DEF IInv, FunctionsOK
<1>6. /\ done' = done /\ moved' = moved /\ produced' = produced /\ arrived' = arrived
      /\ departed' = departed
      /\ DOMAIN queue' = Rank /\ queue' = [q \in Rank |-> queue'[q]]
      /\ submitted' \in [Rank -> Nat]
      /\ schedule' = [q \in Rank |-> schedule'[q]]
  BY <1>5 DEF Submit, IInv, FunctionsOK
<1>7. FunctionsOK'
  <2>1. \A q \in Rank :
           /\ queue'[q] = [s \in Stream |-> queue'[q][s]]
           /\ \A s \in Stream : IsSeq(queue'[q][s])
    <3>1. \A s \in Stream : IsSeq(queue'[r][s])
      BY <1>4 DEF Joined, Stream
    <3>2. \A q \in Rank : queue[q] = [s \in Stream |-> queue[q][s]] /\ \A s \in Stream : IsSeq(queue[q][s])
      BY DEF IInv, FunctionsOK
    <3> QED BY <1>1, <1>3, <3>1, <3>2
  <2>2. schedule' \in [Rank -> Seq(Group)]
    <3>1. \A q \in Rank : schedule[q] \in Seq(Group)
      BY DEF IInv, FunctionsOK
    <3>2. schedule[r] \o t \in Seq(Group)
      BY <3>1
    <3>3. \A q \in Rank : schedule'[q] \in Seq(Group)
      BY <1>2, <1>3, <3>1, <3>2
    <3> QED BY <1>6, <3>3
  <2> QED BY <1>6, <2>1, <2>2 DEF IInv, FunctionsOK
<1>8. ASSUME NEW q \in Rank PROVE Forward(q) /\ submitted[q] <= submitted'[q]
  <2>1. \A s \in Stream : done[q][s] \in Nat /\ Len(queue[q][s]) \in Nat
    BY SeqIntro DEF IInv, FunctionsOK, IsSeq
  <2>2. produced[q] \in Nat /\ submitted[q] \in Nat
    BY DEF IInv, FunctionsOK
  <2>3. CASE q = r
    <3>1. Len(p.main) \in Nat /\ Len(p.copy) \in Nat
      BY <1>4 DEF Joined
    <3>2. ASSUME NEW s \in Stream
          PROVE  /\ Len(queue[q][s]) <= Len(queue'[q][s])
                 /\ \A i \in 1 .. Len(queue[q][s]) : queue'[q][s][i] = queue[q][s][i]
      <4>1. /\ Len(queue[r]["main"]) <= Len(queue'[r]["main"])
            /\ \A i \in 1 .. Len(queue[r]["main"]) : queue'[r]["main"][i] = queue[r]["main"][i]
        BY <1>4, JoinedPrefix
      <4>2. /\ Len(queue[r]["copy"]) <= Len(queue'[r]["copy"])
            /\ \A i \in 1 .. Len(queue[r]["copy"]) : queue'[r]["copy"][i] = queue[r]["copy"][i]
        BY <1>4, JoinedPrefix
      <4> QED BY <2>3, <4>1, <4>2 DEF Stream
    <3> QED BY <1>3, <1>6, <2>1, <2>2, <2>3, <3>2 DEF Forward
  <2>4. CASE q # r
    BY <1>3, <1>6, <2>1, <2>2, <2>4 DEF Forward
  <2> QED BY <2>3, <2>4
<1> QED BY <1>7, <1>8

\* A submitted call stands behind those before it in the queues and the schedule.
LEMMA SubmitQueue == ASSUME IInv, NEW r \in Rank, Submit(r) PROVE QueueOK'
<1> DEFINE n == submitted[r] + 1
           w == workload[r]
           c == w[n]
           mb == MainBase(w, r, n)
           cb == CopyBase(w, n)
<1>1. /\ n \in 1 .. Len(workload[r]) /\ c \in Call
      /\ \A q \in Rank : submitted'[q] = IF q = r THEN n ELSE submitted[q]
      /\ \A q \in Rank : q # r => queue'[q] = queue[q] /\ schedule'[q] = schedule[q]
  BY SubmitFacts
<1>2. PICK p : /\ ProgramIs(p, r, n, mb, cb)
               /\ queue'[r]["main"] = queue[r]["main"] \o p.main
               /\ queue'[r]["copy"] = queue[r]["copy"] \o p.copy
  BY SubmitFacts
<1>3. PICK t \in Seq(Group) : schedule'[r] = schedule[r] \o t /\ Len(t) = Bars(c)
  BY SubmitFacts
<1>4. /\ Joined(queue'[r]["main"], queue[r]["main"], p.main)
      /\ Joined(queue'[r]["copy"], queue[r]["copy"], p.copy)
  <2>1. IsSeq(queue[r]["main"]) /\ IsSeq(queue[r]["copy"]) /\ IsSeq(p.main) /\ IsSeq(p.copy)
    BY <1>2 DEF IInv, FunctionsOK, ProgramIs, Stream
  <2> QED BY <1>2, <2>1, Join, Zenon
<1>5. submitted[r] \in Nat /\ n \in Nat /\ workload' = workload
  BY DEF IInv, FunctionsOK, Submit
<1>6. /\ Len(queue[r]["main"]) = mb /\ Len(queue[r]["copy"]) = cb /\ Len(schedule[r]) = BarBase(w, n)
      /\ mb \in Nat /\ cb \in Nat /\ BarBase(w, n) \in Nat
      /\ MainBase(w, r, n + 1) = mb + MainLen(c, r)
      /\ CopyBase(w, n + 1) = cb + CopyLen(c)
      /\ BarBase(w, n + 1) = BarBase(w, n) + Bars(c)
      /\ MainLen(c, r) \in Nat /\ CopyLen(c) \in Nat /\ Bars(c) \in Nat
  <2>1. Len(w) \in Nat /\ n \in 1 .. Len(w) + 1
    BY <1>1
  <2> QED BY <1>1, <2>1, BaseFacts, ShapeFacts DEF IInv, QueueOK, Holds
<1>7. Len(schedule'[r]) = BarBase(w, n + 1)
  <2>1. schedule[r] \in Seq(Group)
    BY DEF IInv, FunctionsOK
  <2>2. Len(schedule[r] \o t) = Len(schedule[r]) + Len(t)
    BY <2>1
  <2> QED BY <1>3, <1>6, <2>2
<1>8. /\ Len(p.main) = MainLen(c, r) /\ Len(p.copy) = CopyLen(c)
      /\ \A j \in 1 .. MainLen(c, r) : IsMainOp(p.main[j], c, r, n, j, cb)
      /\ \A k \in 1 .. CopyLen(c) : IsCopyOp(p.copy[k], c, r, n, k, mb)
  BY <1>2 DEF ProgramIs
<1>9. /\ Len(queue'[r]["main"]) = MainBase(w, r, n + 1)
      /\ Len(queue'[r]["copy"]) = CopyBase(w, n + 1)
  BY <1>4, <1>6, <1>8 DEF Joined
<1>0. w = workload[r] /\ c = w[n] /\ mb = MainBase(w, r, n) /\ cb = CopyBase(w, n)
  OBVIOUS
<1>a. /\ n = submitted[r] + 1
      /\ \A m \in 1 .. submitted[r] : m \in 1 .. n
  BY <1>5
<1> HIDE DEF n, w, c, mb, cb
<1>10. ASSUME NEW m \in 1 .. n
       PROVE  /\ \A j \in 1 .. MainLen(w[m], r) :
                    IsMainOp(queue'[r]["main"][MainBase(w, r, m) + j], w[m], r, m, j, CopyBase(w, m))
              /\ \A k \in 1 .. CopyLen(w[m]) :
                    IsCopyOp(queue'[r]["copy"][CopyBase(w, m) + k], w[m], r, m, k, MainBase(w, r, m))
  <2>1. CASE m = n
    <3>1. /\ \A j \in 1 .. MainLen(c, r) : queue'[r]["main"][mb + j] = p.main[j]
          /\ \A k \in 1 .. CopyLen(c) : queue'[r]["copy"][cb + k] = p.copy[k]
      BY <1>4, <1>6, <1>8 DEF Joined
    <3> QED BY <1>0, <1>8, <2>1, <3>1, Zenon
  <2>2. CASE m # n
    <3>1. m \in 1 .. submitted[r] /\ m < n /\ m \in 1 .. Len(w) /\ m \in 1 .. Len(w) + 1 /\ n \in 1 .. Len(w) + 1
      BY <1>0, <1>1, <1>5, <1>a, <2>2
    <3>2. /\ MainBase(w, r, m) + MainLen(w[m], r) <= mb /\ CopyBase(w, m) + CopyLen(w[m]) <= cb
          /\ MainBase(w, r, m) \in Nat /\ CopyBase(w, m) \in Nat
      BY <1>0, <3>1, BaseFacts DEF IInv
    <3>3. w[m] \in Call
      BY <1>0, <3>1, CallFacts DEF IInv
    <3>4. MainLen(w[m], r) \in Nat /\ CopyLen(w[m]) \in Nat
      BY <3>3, ShapeFacts
    <3>5. /\ \A j \in 1 .. MainLen(w[m], r) :
                IsMainOp(queue[r]["main"][MainBase(w, r, m) + j], w[m], r, m, j, CopyBase(w, m))
          /\ \A k \in 1 .. CopyLen(w[m]) :
                IsCopyOp(queue[r]["copy"][CopyBase(w, m) + k], w[m], r, m, k, MainBase(w, r, m))
      BY <1>0, <3>1 DEF IInv, QueueOK, Holds
    <3>6. /\ \A j \in 1 .. MainLen(w[m], r) : MainBase(w, r, m) + j \in 1 .. Len(queue[r]["main"])
          /\ \A k \in 1 .. CopyLen(w[m]) : CopyBase(w, m) + k \in 1 .. Len(queue[r]["copy"])
      <4>1. /\ \A j \in 1 .. MainLen(w[m], r) : MainBase(w, r, m) + j \in 1 .. mb
            /\ \A k \in 1 .. CopyLen(w[m]) : CopyBase(w, m) + k \in 1 .. cb
        <5>1. mb \in Nat /\ cb \in Nat
          BY <1>6
        <5>2. ASSUME NEW j \in 1 .. MainLen(w[m], r) PROVE MainBase(w, r, m) + j \in 1 .. mb
          BY <3>2, <3>4, <5>1
        <5>3. ASSUME NEW k \in 1 .. CopyLen(w[m]) PROVE CopyBase(w, m) + k \in 1 .. cb
          BY <3>2, <3>4, <5>1
        <5> QED BY <5>2, <5>3
      <4> QED BY <1>6, <4>1, Zenon
    <3>7. /\ \A j \in 1 .. MainLen(w[m], r) :
                queue'[r]["main"][MainBase(w, r, m) + j] = queue[r]["main"][MainBase(w, r, m) + j]
          /\ \A k \in 1 .. CopyLen(w[m]) :
                queue'[r]["copy"][CopyBase(w, m) + k] = queue[r]["copy"][CopyBase(w, m) + k]
      BY <1>4, <3>6 DEF Joined
    <3> QED BY <3>5, <3>7
  <2> QED BY <2>1, <2>2
<1>11. ASSUME NEW i \in 1 .. Len(queue'[r]["main"]) PROVE queue'[r]["main"][i].waits \subseteq Event
  <2>1. CASE i <= mb
    <3>1. i \in 1 .. Len(queue[r]["main"])
      BY <1>6, <2>1
    <3>2. queue[r]["main"][i].waits \subseteq Event
      BY <3>1 DEF IInv, QueueOK, Holds, Stream
    <3> QED BY <1>4, <3>1, <3>2 DEF Joined
  <2>2. CASE ~ i <= mb
    <3>1. i - mb \in 1 .. MainLen(c, r) /\ mb + (i - mb) = i
      BY <1>6, <1>9, <2>2
    <3>2. queue'[r]["main"][mb + (i - mb)] = p.main[i - mb]
      BY <1>4, <1>6, <1>8, <3>1 DEF Joined
    <3> QED BY <1>8, <3>1, <3>2 DEF IsMainOp
  <2> QED BY <2>1, <2>2
<1>12. ASSUME NEW i \in 1 .. Len(queue'[r]["copy"])
       PROVE  /\ queue'[r]["copy"][i].waits \subseteq Event
              /\ \E m \in 1 .. n : \E k \in 1 .. CopyLen(w[m]) : i = CopyBase(w, m) + k
  <2>1. CASE i <= cb
    <3>1. i \in 1 .. Len(queue[r]["copy"])
      BY <1>6, <2>1
    <3>2. queue[r]["copy"][i].waits \subseteq Event
      BY <3>1 DEF IInv, QueueOK, Holds, Stream
    <3>3. \E m \in 1 .. submitted[r] : \E k \in 1 .. CopyLen(w[m]) : i = CopyBase(w, m) + k
      BY <1>0, <3>1 DEF IInv, QueueOK, Holds
    <3> QED BY <1>4, <1>a, <3>1, <3>2, <3>3 DEF Joined
  <2>2. CASE ~ i <= cb
    <3>1. i - cb \in 1 .. CopyLen(c) /\ cb + (i - cb) = i
      BY <1>6, <1>9, <2>2
    <3>2. queue'[r]["copy"][cb + (i - cb)] = p.copy[i - cb]
      BY <1>4, <1>6, <1>8, <3>1 DEF Joined
    <3>3. n \in 1 .. n
      BY <1>1
    <3> QED BY <1>0, <1>8, <3>1, <3>2, <3>3 DEF IsCopyOp
  <2> QED BY <2>1, <2>2
<1>13. ASSUME NEW i \in 1 .. Len(schedule'[r])
       PROVE  \E m \in 1 .. n : \E b \in 1 .. Bars(w[m]) : i = BarBase(w, m) + b
  <2>1. CASE i <= BarBase(w, n)
    <3>1. i \in 1 .. Len(schedule[r])
      BY <1>6, <2>1
    <3>3. \E m \in 1 .. submitted[r] : \E b \in 1 .. Bars(w[m]) : i = BarBase(w, m) + b
      BY <1>0, <3>1 DEF IInv, QueueOK, Holds
    <3> QED BY <1>a, <3>3
  <2>2. CASE ~ i <= BarBase(w, n)
    <3>1. i - BarBase(w, n) \in 1 .. Bars(c) /\ BarBase(w, n) + (i - BarBase(w, n)) = i
      BY <1>6, <1>7, <2>2
    <3>3. n \in 1 .. n
      BY <1>1
    <3> QED BY <1>0, <3>1, <3>3
  <2> QED BY <2>1, <2>2
<1>14. submitted'[r] = n
  BY <1>1
<1>15. \A s \in Stream : \A i \in 1 .. Len(queue'[r][s]) : queue'[r][s][i].waits \subseteq Event
  BY <1>11, <1>12 DEF Stream
<1>16. n <= Len(w)
  BY <1>0, <1>1, <1>5
<1>17. Holds(w, r, n, queue'[r], schedule'[r])
  BY <1>7, <1>9, <1>10, <1>12, <1>13, <1>15, <1>16 DEF Holds
<1>18. ASSUME NEW q \in Rank
       PROVE  Holds(workload'[q], q, submitted'[q], queue'[q], schedule'[q])
  <2>1. CASE q = r
    <3>1. workload'[q] = w /\ submitted'[q] = n
      BY <1>0, <1>5, <1>14, <2>1
    <3> QED BY <1>17, <2>1, <3>1
  <2>2. CASE q # r
    <3>1. /\ submitted'[q] = submitted[q] /\ queue'[q] = queue[q] /\ schedule'[q] = schedule[q]
          /\ workload'[q] = workload[q]
      BY <1>1, <1>5, <2>2
    <3>2. Holds(workload[q], q, submitted[q], queue[q], schedule[q])
      BY DEF IInv, QueueOK
    <3> QED BY <3>1, <3>2
  <2> QED BY <2>1, <2>2
<1> QED BY <1>18 DEF QueueOK

\* Its barriers are the next instances of its group.
LEMMA SubmitEpochs == ASSUME IInv, NEW r \in Rank, Submit(r) PROVE EpochsOK'
<1> DEFINE n == submitted[r] + 1
           w == workload[r]
           c == w[n]
           s == schedule[r]
<1>1. /\ n \in 1 .. Len(w) /\ c \in Call /\ c.group \in Group
      /\ \A q \in Rank : submitted'[q] = IF q = r THEN n ELSE submitted[q]
      /\ \A q \in Rank : q # r => queue'[q] = queue[q] /\ schedule'[q] = schedule[q]
  BY SubmitFacts
<1>2. PICK t \in Seq(Group) :
         schedule'[r] = s \o t /\ Len(t) = Bars(c) /\ \A b \in 1 .. Bars(c) : t[b] = c.group
  BY SubmitFacts
<1>3. workload' = workload /\ s \in Seq(Group) /\ submitted[r] \in Nat
  BY DEF Submit, IInv, FunctionsOK
<1>4. /\ Len(s) = BarBase(w, n) /\ BarBase(w, n) \in Nat /\ Bars(c) \in Nat
      /\ \A m \in 1 .. n : m \in 1 .. Len(w) + 1
  <2>1. Len(w) \in Nat /\ n \in 1 .. Len(w) + 1
    BY <1>1
  <2>2. Bars(c) \in Nat
    BY <1>1, ShapeFacts
  <2> QED BY <1>1, <2>1, <2>2, BaseFacts DEF IInv, QueueOK, Holds
<1>5. /\ \A h \in Group : \A i \in 0 .. Bars(c) :
            Calendar!CountUpTo(Calendar!Calls(s \o t, h), Len(s) + i) =
               Calendar!CountUpTo(Calendar!Calls(s, h), Len(s)) + (IF h = c.group THEN i ELSE 0)
      /\ \A i \in 1 .. Len(s) : Calendar!BarrierAt(s \o t, i) = Calendar!BarrierAt(s, i)
      /\ \A b \in 1 .. Bars(c) :
            Calendar!BarrierAt(s \o t, Len(s) + b) =
               [group |-> c.group, epoch |-> Calendar!CountUpTo(Calendar!Calls(s, c.group), Len(s)) + b - 1]
  <2>1. \A b \in 1 .. Len(t) : t[b] = c.group
    BY <1>2
  <2> HIDE DEF n, w, c, s
  <2>2. c.group \in Group
    BY <1>1
  <2>3. /\ \A h \in Group : \A i \in 0 .. Len(t) :
              Calendar!CountUpTo(Calendar!Calls(s \o t, h), Len(s) + i) =
                 Calendar!CountUpTo(Calendar!Calls(s, h), Len(s)) + (IF h = c.group THEN i ELSE 0)
        /\ \A i \in 1 .. Len(s) : Calendar!BarrierAt(s \o t, i) = Calendar!BarrierAt(s, i)
        /\ \A b \in 1 .. Len(t) :
              Calendar!BarrierAt(s \o t, Len(s) + b) =
                 [group |-> c.group, epoch |-> Calendar!CountUpTo(Calendar!Calls(s, c.group), Len(s)) + b - 1]
    BY <1>3, <2>1, <2>2, CallsBehind, Zenon
  <2>4. Len(t) = Bars(c)
    BY <1>2
  <2> QED BY <2>3, <2>4
<1>6. \A h \in Group : Calendar!CountUpTo(Calendar!Calls(s, h), Len(s)) = GroupBase(w, h, n)
  BY DEF IInv, EpochsOK
<1>7. Len(schedule'[r]) = Len(s) + Bars(c)
  <2>1. s \in Seq(Group)
    BY <1>3
  <2> HIDE DEF s, c
  <2>2. Len(s \o t) = Len(s) + Len(t)
    BY <2>1
  <2> QED BY <1>2, <2>2
<1>0. w = workload[r] /\ c = w[n] /\ n = submitted[r] + 1 /\ s = schedule[r]
  OBVIOUS
<1>8. \A h \in Group : GroupBase(w, h, n + 1) = GroupBase(w, h, n) + (IF c.group = h THEN Bars(c) ELSE 0)
  <2>1. workload \in Workloads /\ n \in 1 .. Len(w)
    BY <1>1 DEF IInv
  <2> HIDE DEF n, w, c
  <2> QED BY <1>0, <2>1, GroupBaseFacts
<1>9. ASSUME NEW h \in Group
      PROVE  Calendar!CountUpTo(Calendar!Calls(schedule'[r], h), Len(schedule'[r])) = GroupBase(w, h, n + 1)
  <2>1. Bars(c) \in 0 .. Bars(c)
    BY <1>4
  <2>2. Calendar!CountUpTo(Calendar!Calls(s \o t, h), Len(s) + Bars(c)) =
           Calendar!CountUpTo(Calendar!Calls(s, h), Len(s)) + (IF h = c.group THEN Bars(c) ELSE 0)
    BY <1>5, <2>1
  <2> HIDE DEF n, w, c, s
  <2> QED BY <1>2, <1>6, <1>7, <1>8, <2>2
<1>10. ASSUME NEW m \in 1 .. submitted[r], NEW b \in 1 .. Bars(w[m])
       PROVE  /\ Calendar!BarrierAt(s, BarBase(w, m) + b)
                    = [group |-> w[m].group, epoch |-> GroupBase(w, w[m].group, m) + b - 1]
              /\ BarBase(w, m) + b \in 1 .. Len(s)
  <2>1. m < n /\ m \in 1 .. Len(w) + 1 /\ n \in 1 .. Len(w) + 1
    BY <1>1, <1>3
  <2>2. BarBase(w, m) + Bars(w[m]) <= BarBase(w, n) /\ BarBase(w, m) \in Nat
    BY <2>1, BaseFacts DEF IInv
  <2>3. Bars(w[m]) \in Nat
    <3>1. m \in 1 .. Len(w)
      BY <1>1, <1>3
    <3>2. w[m] \in Call
      BY <3>1, CallFacts DEF IInv
    <3> QED BY <3>2, ShapeFacts
  <2>4. Calendar!BarrierAt(s, BarBase(w, m) + b) = [group |-> w[m].group, epoch |-> GroupBase(w, w[m].group, m) + b - 1]
    BY DEF IInv, EpochsOK
  <2> HIDE DEF n, w, c, s
  <2>5. BarBase(w, m) + b \in 1 .. BarBase(w, n)
    BY <1>4, <2>2, <2>3
  <2> QED BY <1>4, <2>4, <2>5
<1> HIDE DEF n, w, c, s
<1>11. ASSUME NEW m \in 1 .. n, NEW b \in 1 .. Bars(w[m])
       PROVE  Calendar!BarrierAt(schedule'[r], BarBase(w, m) + b)
                 = [group |-> w[m].group, epoch |-> GroupBase(w, w[m].group, m) + b - 1]
  <2>1. CASE m = n
    <3>1. b \in 1 .. Bars(c)
      BY <1>0, <2>1
    <3>2. Calendar!BarrierAt(s \o t, Len(s) + b) =
             [group |-> c.group, epoch |-> Calendar!CountUpTo(Calendar!Calls(s, c.group), Len(s)) + b - 1]
      BY <1>5, <3>1
    <3>3. Calendar!CountUpTo(Calendar!Calls(s, c.group), Len(s)) = GroupBase(w, c.group, n)
      BY <1>1, <1>6
    <3> QED BY <1>0, <1>2, <1>4, <2>1, <3>2, <3>3
  <2>2. CASE m # n
    <3>1. m \in 1 .. submitted[r]
      BY <1>0, <1>3, <2>2
    <3>2. BarBase(w, m) + b \in 1 .. Len(s)
      BY <1>10, <3>1
    <3>3. Calendar!BarrierAt(s \o t, BarBase(w, m) + b) = Calendar!BarrierAt(s, BarBase(w, m) + b)
      BY <1>5, <3>2
    <3> QED BY <1>2, <1>10, <3>1, <3>3
  <2> QED BY <2>1, <2>2
<1>12. ASSUME NEW q \in Rank
       PROVE  /\ \A h \in Group :
                    Calendar!CountUpTo(Calendar!Calls(schedule'[q], h), Len(schedule'[q]))
                        = GroupBase(workload[q], h, submitted'[q] + 1)
              /\ \A m \in 1 .. submitted'[q] : \A b \in 1 .. Bars(workload[q][m]) :
                    Calendar!BarrierAt(schedule'[q], BarBase(workload[q], m) + b)
                       = [group |-> workload[q][m].group,
                          epoch |-> GroupBase(workload[q], workload[q][m].group, m) + b - 1]
  <2>1. CASE q = r
    <3>1. submitted'[q] = n
      BY <1>1, <2>1
    <3> QED BY <1>0, <1>9, <1>11, <2>1, <3>1
  <2>2. CASE q # r
    <3>1. submitted'[q] = submitted[q] /\ schedule'[q] = schedule[q]
      BY <1>1, <2>2
    <3> QED BY <3>1 DEF IInv, EpochsOK
  <2> QED BY <2>1, <2>2
<1> QED BY <1>3, <1>12 DEF EpochsOK

\* Who had joined a call still has.
LEMMA JoinsStay ==
    ASSUME FunctionsOK, FunctionsOK', NEW q \in Rank, NEW r, NEW n, NEW b, Joins(r, n, q, b),
           b \in Nat, workload \in Workloads, submitted[q] <= Len(workload[q]),
           workload' = workload, submitted[q] <= submitted'[q], arrived[q] <= arrived'[q]
    PROVE  Joins(r, n, q, b)'
<1>1. /\ submitted[q] \in Nat /\ submitted'[q] \in Nat /\ arrived[q] \in Nat /\ arrived'[q] \in Nat
      /\ Len(workload[q]) \in Nat
  BY CallFacts DEF FunctionsOK
<1>2. PICK m \in 1 .. submitted[q] :
         SameCall(workload, r, n, q, m) /\ BarBase(workload[q], m) + b <= arrived[q]
  BY DEF Joins
<1>3. m \in 1 .. submitted'[q] /\ m \in 1 .. Len(workload[q]) + 1
  BY <1>1
<1>4. BarBase(workload[q], m) \in Nat
  BY <1>3, BaseFacts
<1>5. BarBase(workload[q], m) + b <= arrived'[q]
  BY <1>1, <1>2, <1>4
<1> QED BY <1>2, <1>3, <1>5 DEF Joins

\* A step that moves none of r's streams leaves r where it is.
LEMMA StreamStays ==
    ASSUME NEW r \in Rank, FunctionsOK, FunctionsOK', QueueOK, QueueOK', StreamOK, Forward(r),
           workload' = workload, workload \in Workloads, submitted[r] <= submitted'[r],
           done'[r] = done[r], departed'[r] = departed[r], arrived'[r] = arrived[r],
           produced'[r] <= submitted'[r]
    PROVE  /\ \E n, d \in Nat : Pos(r, n, d)'
           /\ done'[r]["copy"] <= Len(queue'[r]["copy"])
           /\ produced'[r] <= submitted'[r]
           /\ arrived'[r] \in {departed'[r], departed'[r] + 1}
           /\ arrived'[r] # departed'[r] => Ready(r, "main")' /\ Running(r, "main")'.kind = "barrier"
<1>1. PICK n \in Nat, d \in Nat : Pos(r, n, d)
  BY DEF StreamOK, At
<1>2. /\ submitted[r] \in Nat /\ submitted'[r] \in Nat /\ Len(queue[r]["copy"]) \in Nat
      /\ Len(queue'[r]["copy"]) \in Nat /\ done[r]["copy"] \in Nat
      /\ submitted'[r] <= Len(workload[r]) /\ Len(workload[r]) \in Nat
  <2>1. submitted'[r] <= Len(workload[r])
    BY DEF QueueOK, Holds
  <2> QED BY <2>1, SeqIntro, CallFacts DEF FunctionsOK, IsSeq, Stream
<1>3. Pos(r, n, d)'
  <2>1. n \in 1 .. submitted'[r] + 1
    BY <1>1, <1>2 DEF Pos
  <2>2. n <= submitted'[r] => d < MainLen(workload[r][n], r)
    <3>1. CASE n <= submitted[r]
      BY <1>1, <3>1 DEF Pos
    <3>2. CASE n = submitted[r] + 1 /\ n <= submitted'[r]
      <4>1. n \in 1 .. Len(workload[r])
        BY <1>2, <2>1, <3>2
      <4>2. MainLen(workload[r][n], r) \in Nat \ {0}
        BY <4>1, CallFacts, ShapeFacts
      <4> QED BY <1>1, <3>2, <4>2 DEF Pos
    <3> QED BY <1>1, <1>2, <3>1, <3>2 DEF Pos
  <2>3. n = submitted'[r] + 1 => d = 0
    BY <1>1, <1>2 DEF Pos
  <2> QED BY <1>1, <2>1, <2>2, <2>3 DEF Pos
<1>4. done'[r]["copy"] <= Len(queue'[r]["copy"])
  <2>1. done[r]["copy"] <= Len(queue[r]["copy"]) /\ Len(queue[r]["copy"]) <= Len(queue'[r]["copy"])
    BY DEF StreamOK, At, Forward, Stream
  <2> QED BY <1>2, <2>1
<1>5. arrived'[r] \in {departed'[r], departed'[r] + 1}
  BY DEF StreamOK, At
<1>6. ASSUME arrived'[r] # departed'[r]
      PROVE  Ready(r, "main")' /\ Running(r, "main")'.kind = "barrier"
  <2>1. Ready(r, "main") /\ Running(r, "main").kind = "barrier"
    BY <1>6 DEF StreamOK, At
  <2>2. "main" \in Stream
    BY DEF Stream
  <2>3. Ready(r, "main")' /\ Running(r, "main")' = Running(r, "main")
    BY <2>1, <2>2, ReadyStays
  <2> QED BY <2>1, <2>3
<1> QED BY <1>3, <1>4, <1>5, <1>6

\* It leaves true what MovedOK says of r.
LEMMA MovedStays ==
    ASSUME NEW r \in Rank, FunctionsOK, FunctionsOK', QueueOK, StreamOK, MovedOK, Forward(r),
           workload \in Workloads, done'[r] = done[r], departed'[r] = departed[r],
           moved'[r] = moved[r]
    PROVE  /\ \A s \in Stream :
                 moved'[r][s] # {} => Ready(r, s)' /\ moved'[r][s] \subseteq Running(r, s)'.moves
           /\ departed'[r] =
                 Cardinality({i \in 1 .. done'[r]["main"] : queue'[r]["main"][i].kind = "barrier"})
<1>1. ASSUME NEW s \in Stream, moved'[r][s] # {}
      PROVE  Ready(r, s)' /\ moved'[r][s] \subseteq Running(r, s)'.moves
  <2>1. Ready(r, s) /\ moved[r][s] \subseteq Running(r, s).moves
    BY <1>1 DEF MovedOK, Moving
  <2>2. Ready(r, s)' /\ Running(r, s)' = Running(r, s)
    BY <2>1, ReadyStays
  <2> QED BY <2>1, <2>2
<1>2. {i \in 1 .. done'[r]["main"] : queue'[r]["main"][i].kind = "barrier"} =
         {i \in 1 .. done[r]["main"] : queue[r]["main"][i].kind = "barrier"}
  <2>1. PICK n \in Nat, d \in Nat : Pos(r, n, d)
    BY DEF StreamOK, At
  <2>2. done[r]["main"] <= Len(queue[r]["main"])
    BY <2>1, PosBounds
  <2>3. done[r]["main"] \in Nat /\ Len(queue[r]["main"]) \in Nat
    BY SeqIntro DEF FunctionsOK, IsSeq, Stream
  <2>4. \A i \in 1 .. done[r]["main"] : i \in 1 .. Len(queue[r]["main"])
    BY <2>2, <2>3
  <2>5. \A i \in 1 .. done[r]["main"] : queue'[r]["main"][i] = queue[r]["main"][i]
    BY <2>4 DEF Forward, Stream
  <2> QED BY <2>5
<1> QED BY <1>1, <1>2 DEF MovedOK, Moving

\* Submit keeps the invariant: one critical section of the submit lock.
LEMMA SubmitOK == ASSUME IInv, NEW r \in Rank, Submit(r) PROVE IInv'
<1> DEFINE n == submitted[r] + 1
           w == workload[r]
<1>1. /\ FunctionsOK' /\ QueueOK' /\ EpochsOK'
      /\ \A q \in Rank : Forward(q) /\ submitted[q] <= submitted'[q]
  BY SubmitForward, SubmitQueue, SubmitEpochs
<1>2. /\ workload' = workload /\ produced' = produced /\ done' = done /\ moved' = moved
      /\ arrived' = arrived /\ departed' = departed /\ workload \in Workloads
  BY DEF Submit, IInv
<1>3. /\ n \in 1 .. Len(w) /\ w[n] \in Call
      /\ \A q \in Rank : submitted'[q] = IF q = r THEN n ELSE submitted[q]
  BY SubmitFacts
<1>4. StreamOK'
  <2>1. ASSUME NEW q \in Rank PROVE produced'[q] <= submitted'[q]
    <3>1. produced[q] \in Nat /\ submitted[q] \in Nat /\ submitted'[q] \in Nat
      BY <1>1 DEF IInv, FunctionsOK
    <3>2. produced[q] <= submitted[q] /\ submitted[q] <= submitted'[q]
      BY <1>1 DEF IInv, StreamOK, At
    <3> QED BY <1>2, <3>1, <3>2
  <2>2. ASSUME NEW q \in Rank
        PROVE  /\ \E m, d \in Nat : Pos(q, m, d)'
               /\ done'[q]["copy"] <= Len(queue'[q]["copy"])
               /\ produced'[q] <= submitted'[q]
               /\ arrived'[q] \in {departed'[q], departed'[q] + 1}
               /\ arrived'[q] # departed'[q] => Ready(q, "main")' /\ Running(q, "main")'.kind = "barrier"
    BY <1>1, <1>2, <2>1, StreamStays DEF IInv
  <2> QED BY <2>2 DEF StreamOK, At
<1>5. \A q \in Rank : \A m \in 1 .. submitted'[q] :
         m \in 1 .. submitted[q] \/ (q = r /\ m = n)
  <2>1. submitted[r] \in Nat
    BY DEF IInv, FunctionsOK
  <2> QED BY <1>3, <2>1
<1>6. /\ done[r]["main"] <= MainBase(w, r, n) /\ done[r]["copy"] <= CopyBase(w, n)
      /\ departed[r] <= BarBase(w, n)
      /\ MainBase(w, r, n) \in Nat /\ CopyBase(w, n) \in Nat /\ BarBase(w, n) \in Nat
      /\ done[r]["main"] \in Nat /\ done[r]["copy"] \in Nat /\ departed[r] \in Nat
  <2>1. PICK m \in Nat, d \in Nat : Pos(r, m, d)
    BY DEF IInv, StreamOK, At
  <2>2. n \in 1 .. Len(w) + 1
    BY <1>3
  <2>3. /\ Len(queue[r]["main"]) = MainBase(w, r, n) /\ Len(queue[r]["copy"]) = CopyBase(w, n)
        /\ Len(schedule[r]) = BarBase(w, n)
    BY DEF IInv, QueueOK, Holds
  <2>4. done[r]["main"] <= Len(queue[r]["main"]) /\ departed[r] <= Len(schedule[r])
    BY <2>1, PosBounds DEF IInv
  <2>5. done[r]["copy"] <= Len(queue[r]["copy"])
    BY DEF IInv, StreamOK, At
  <2>6. done[r]["main"] \in Nat /\ done[r]["copy"] \in Nat /\ departed[r] \in Nat
    BY DEF IInv, FunctionsOK, Stream
  <2> QED BY <1>2, <2>2, <2>3, <2>4, <2>5, <2>6, BaseFacts
<1>7. ForkOK'
  <2> SUFFICES ASSUME NEW q \in Rank, NEW m \in 1 .. submitted'[q], Piped(workload[q][m])
               PROVE  /\ \A k \in 0 .. workload[q][m].size - 1 :
                            done[q]["main"] >= MainBase(workload[q], q, m) + 2 * k + 1 =>
                               done[q]["copy"] >= CopyBase(workload[q], m) + k + 1
                      /\ done[q]["copy"] > CopyBase(workload[q], m) =>
                            done[q]["main"] >= MainBase(workload[q], q, m)
    BY <1>2 DEF ForkOK
  <2>1. CASE m \in 1 .. submitted[q]
    BY <2>1 DEF IInv, ForkOK
  <2>2. CASE q = r /\ m = n
    <3> HIDE DEF n, w
    <3>1. workload[q] = w /\ workload[q][m] = w[n] /\ w[n].size \in Nat
      BY <1>3, <2>2 DEF w, Call
    <3> QED BY <1>6, <2>2, <3>1
  <2> QED BY <1>5, <2>1, <2>2
<1>8. JoinedOK'
  <2> SUFFICES ASSUME NEW q \in Rank, NEW m \in 1 .. submitted'[q],
                      NEW b \in 1 .. Bars(workload[q][m]),
                      BarBase(workload[q], m) + b <= departed[q],
                      NEW p \in Members[workload[q][m].group]
               PROVE  Joins(q, m, p, b)'
    BY <1>2 DEF JoinedOK
  <2>1. CASE m \in 1 .. submitted[q]
    <3>1. Joins(q, m, p, b)
      BY <2>1 DEF IInv, JoinedOK
    <3>2. m \in 1 .. Len(workload[q])
      BY <2>1, CallFacts DEF IInv, QueueOK, Holds, FunctionsOK
    <3>3. p \in Rank /\ Bars(workload[q][m]) \in Nat
      BY <3>2, CallFacts, ShapeFacts DEF IInv
    <3>4. b \in Nat /\ submitted[p] <= Len(workload[p]) /\ arrived[p] <= arrived'[p]
      <4>1. submitted[p] <= Len(workload[p])
        BY <3>3 DEF IInv, QueueOK, Holds
      <4>2. arrived[p] \in Nat
        BY <3>3 DEF IInv, FunctionsOK
      <4> QED BY <1>2, <3>3, <4>1, <4>2
    <3> QED BY <1>1, <1>2, <3>1, <3>3, <3>4, JoinsStay DEF IInv
  <2>2. CASE q = r /\ m = n
    <3> HIDE DEF n, w
    <3>1. workload[q] = w /\ workload[q][m] = w[n] /\ Bars(w[n]) \in Nat
      BY <1>3, <2>2, ShapeFacts DEF w
    <3> QED BY <1>6, <2>2, <3>1
  <2> QED BY <1>5, <2>1, <2>2
<1>9. MovedOK'
  <2>1. ASSUME NEW q \in Rank
        PROVE  /\ \A s \in Stream :
                     moved'[q][s] # {} => Ready(q, s)' /\ moved'[q][s] \subseteq Running(q, s)'.moves
               /\ departed'[q] =
                     Cardinality({i \in 1 .. done'[q]["main"] : queue'[q]["main"][i].kind = "barrier"})
    BY <1>1, <1>2, MovedStays DEF IInv
  <2> QED BY <2>1 DEF MovedOK, Moving
<1> QED BY <1>1, <1>2, <1>4, <1>7, <1>8, <1>9 DEF IInv

-----------------------------------------------------------------------------
(* The streams run.                                                        *)

Same == UNCHANGED <<workload, submitted, queue, schedule>>

\* Running what is enqueued leaves the queues and the schedules alone.
LEMMA QueuesStay == ASSUME IInv, Same PROVE QueueOK' /\ EpochsOK' /\ workload' \in Workloads
  BY DEF IInv, Same, QueueOK, EpochsOK

\* A rank that a step does not touch.
Still(r) ==
    /\ done'[r] = done[r] /\ moved'[r] = moved[r] /\ arrived'[r] = arrived[r]
    /\ departed'[r] = departed[r] /\ produced'[r] = produced[r]

\* A step that completes nothing leaves every stream where it is.
LEMMA ForwardSame ==
    ASSUME FunctionsOK, Same, NEW r \in Rank, produced[r] <= produced'[r],
           \A s \in Stream : done[r][s] <= done'[r][s]
    PROVE  Forward(r)
<1>1. \A s \in Stream : Len(queue[r][s]) \in Nat
  BY SeqIntro DEF FunctionsOK, IsSeq
<1>2. \A s \in Stream : Len(queue[r][s]) <= Len(queue'[r][s])
  BY <1>1 DEF Same
<1> QED BY <1>2 DEF Forward, Same

\* Such a rank stays where it is.
LEMMA StillOK ==
    ASSUME IInv, FunctionsOK', Same, NEW r \in Rank, Still(r)
    PROVE  At(r)' /\ Moving(r)'
<1>1. QueueOK' /\ workload' = workload
  BY QueuesStay DEF Same
<1>2. /\ submitted[r] \in Nat /\ produced[r] \in Nat /\ submitted'[r] = submitted[r]
      /\ \A s \in Stream : done[r][s] \in Nat
  BY DEF IInv, FunctionsOK, Same
<1>3. Forward(r)
  BY <1>2, ForwardSame DEF IInv, Still
<1>4. submitted[r] <= submitted'[r] /\ produced'[r] <= submitted'[r]
  BY <1>2 DEF IInv, StreamOK, At, Still
<1>5. At(r)'
  BY <1>1, <1>3, <1>4, StreamStays DEF IInv, Still, At
<1>6. Moving(r)'
  BY <1>3, MovedStays DEF IInv, Still, Moving
<1> QED BY <1>5, <1>6

\* Calls stay joined when no rank leaves a barrier.
LEMMA JoinedStays ==
    ASSUME IInv, FunctionsOK', Same, \A q \in Rank : arrived[q] <= arrived'[q],
           NEW r \in Rank, NEW n \in 1 .. submitted[r], NEW b \in 1 .. Bars(workload[r][n]),
           BarBase(workload[r], n) + b <= departed[r], NEW q \in Members[workload[r][n].group]
    PROVE  Joins(r, n, q, b)'
<1>1. n \in 1 .. Len(workload[r])
  BY CallFacts DEF IInv, QueueOK, Holds, FunctionsOK
<1>2. q \in Rank /\ Bars(workload[r][n]) \in Nat
  BY <1>1, CallFacts, ShapeFacts DEF IInv
<1>3. b \in Nat
  BY <1>2
<1>4. submitted[q] <= Len(workload[q])
  BY <1>2 DEF IInv, QueueOK, Holds
<1>5. submitted[q] <= submitted'[q]
  BY <1>2 DEF IInv, FunctionsOK, Same
<1>6. Joins(r, n, q, b)
  BY DEF IInv, JoinedOK
<1> QED BY <1>2, <1>3, <1>4, <1>5, <1>6, JoinsStay DEF IInv, Same

\* The caller's stream goes on.
LEMMA ProduceOK == ASSUME IInv, NEW r \in Rank, Produce(r) PROVE IInv'
<1>1. /\ Same /\ done' = done /\ moved' = moved /\ arrived' = arrived /\ departed' = departed
      /\ produced' = [produced EXCEPT ![r] = @ + 1] /\ produced[r] < submitted[r]
  BY DEF Produce, Same, barriers
<1>2. FunctionsOK'
  BY <1>1 DEF IInv, FunctionsOK, Same
<1>3. ASSUME NEW q \in Rank PROVE At(q)' /\ Moving(q)'
  <2>1. QueueOK' /\ workload' = workload
    BY <1>1, QueuesStay DEF Same
  <2>2. /\ submitted[q] \in Nat /\ produced[q] \in Nat /\ submitted'[q] = submitted[q]
        /\ \A s \in Stream : done[q][s] \in Nat
    BY <1>1 DEF IInv, FunctionsOK, Same
  <2>3. produced[q] <= submitted[q]
    BY DEF IInv, StreamOK, At
  <2>4. produced[q] <= produced'[q] /\ produced'[q] <= submitted'[q] /\ submitted[q] <= submitted'[q]
    BY <1>1, <2>2, <2>3 DEF IInv, FunctionsOK
  <2>5. Forward(q)
    BY <1>1, <2>2, <2>4, ForwardSame DEF IInv
  <2>6. At(q)'
    BY <1>1, <1>2, <2>1, <2>4, <2>5, StreamStays DEF IInv, At
  <2>7. Moving(q)'
    BY <1>1, <1>2, <2>5, MovedStays DEF IInv, Moving
  <2> QED BY <2>6, <2>7
<1>4. StreamOK' /\ MovedOK'
  BY <1>3 DEF StreamOK, At, MovedOK, Moving
<1>5. ForkOK'
  BY <1>1 DEF IInv, ForkOK, Same
<1>6. JoinedOK'
  <2>1. \A q \in Rank : arrived[q] <= arrived'[q]
    BY <1>1 DEF IInv, FunctionsOK
  <2> QED BY <1>1, <1>2, <2>1, JoinedStays DEF JoinedOK, Same
<1> QED BY <1>1, <1>2, <1>4, <1>5, <1>6, QueuesStay DEF IInv

\* A copy makes a move.
LEMMA MoveOK == ASSUME IInv, NEW r \in Rank, NEW s \in Stream, Move(r, s) PROVE IInv'
<1>1. PICK m \in Pending(r, s) : moved' = [moved EXCEPT ![r][s] = @ \cup {m}]
  BY DEF Move
<1>2. /\ Same /\ done' = done /\ produced' = produced /\ arrived' = arrived /\ departed' = departed
      /\ Ready(r, s)
  BY DEF Move, Same, barriers
<1>3. FunctionsOK'
  <2>1. /\ DOMAIN moved' = Rank /\ moved' = [q \in Rank |-> moved'[q]]
        /\ \A q \in Rank : moved'[q] = [t \in Stream |-> moved'[q][t]]
    BY <1>1 DEF IInv, FunctionsOK
  <2> QED BY <1>2, <2>1 DEF IInv, FunctionsOK, Same
<1>4. ASSUME NEW q \in Rank PROVE At(q)' /\ Moving(q)'
  <2>1. QueueOK' /\ workload' = workload
    BY <1>2, QueuesStay DEF Same
  <2>2. /\ submitted[q] \in Nat /\ produced[q] \in Nat /\ submitted'[q] = submitted[q]
        /\ \A t \in Stream : done[q][t] \in Nat
    BY <1>2 DEF IInv, FunctionsOK, Same
  <2>3. produced[q] <= produced'[q] /\ produced'[q] <= submitted'[q] /\ submitted[q] <= submitted'[q]
    BY <1>2, <2>2 DEF IInv, StreamOK, At
  <2>4. Forward(q)
    BY <1>2, <2>2, <2>3, ForwardSame DEF IInv
  <2>5. At(q)'
    BY <1>2, <1>3, <2>1, <2>3, <2>4, StreamStays DEF IInv, At
  <2>6. departed'[q] =
           Cardinality({i \in 1 .. done'[q]["main"] : queue'[q]["main"][i].kind = "barrier"})
    BY <1>2 DEF IInv, MovedOK, Moving, Same
  <2>7. ASSUME NEW t \in Stream, moved'[q][t] # {}
        PROVE  Ready(q, t)' /\ moved'[q][t] \subseteq Running(q, t)'.moves
    <3>1. CASE q = r /\ t = s
      <4>1. moved'[q][t] = moved[r][s] \cup {m}
        BY <1>1, <3>1 DEF IInv, FunctionsOK
      <4>2. Ready(q, t)' /\ Running(q, t)' = Running(q, t)
        BY <1>2, <1>3, <2>4, <3>1, ReadyStays DEF IInv
      <4>3. moved[r][s] \subseteq Running(r, s).moves /\ m \in Running(r, s).moves
        BY DEF IInv, MovedOK, Moving, Pending
      <4> QED BY <3>1, <4>1, <4>2, <4>3
    <3>2. CASE ~ (q = r /\ t = s)
      <4>1. moved'[q][t] = moved[q][t]
        BY <1>1, <3>2 DEF IInv, FunctionsOK
      <4>2. Ready(q, t) /\ moved[q][t] \subseteq Running(q, t).moves
        BY <2>7, <4>1 DEF IInv, MovedOK, Moving
      <4>3. Ready(q, t)' /\ Running(q, t)' = Running(q, t)
        BY <1>2, <1>3, <2>4, <4>2, ReadyStays DEF IInv
      <4> QED BY <4>1, <4>2, <4>3
    <3> QED BY <3>1, <3>2
  <2> QED BY <2>5, <2>6, <2>7 DEF Moving
<1>5. StreamOK' /\ MovedOK'
  BY <1>4 DEF StreamOK, At, MovedOK, Moving
<1>6. ForkOK'
  BY <1>2 DEF IInv, ForkOK, Same
<1>7. JoinedOK'
  <2>1. \A q \in Rank : arrived[q] <= arrived'[q]
    BY <1>2 DEF IInv, FunctionsOK
  <2> QED BY <1>2, <1>3, <2>1, JoinedStays DEF JoinedOK, Same
<1> QED BY <1>2, <1>3, <1>5, <1>6, <1>7, QueuesStay DEF IInv

\* Arrive keeps the invariant: only the caller's own barrier is entered.
LEMMA ArriveOK == ASSUME IInv, NEW r \in Rank, Arrive(r) PROVE IInv'
<1>1. /\ Same /\ done' = done /\ moved' = moved /\ produced' = produced /\ departed' = departed
      /\ arrived' = [arrived EXCEPT ![r] = @ + 1] /\ arrived[r] = departed[r]
      /\ Ready(r, "main") /\ Running(r, "main").kind = "barrier"
  BY DEF Arrive, Barriers!Arrive, Same
<1>2. FunctionsOK'
  BY <1>1 DEF IInv, FunctionsOK, Same
<1>3. ASSUME NEW q \in Rank PROVE At(q)' /\ Moving(q)'
  <2>1. CASE q = r
    <3>1. /\ QueueOK' /\ workload' = workload /\ produced[r] \in Nat /\ arrived[r] \in Nat
          /\ \A s \in Stream : done[r][s] \in Nat
      BY <1>1, QueuesStay DEF IInv, FunctionsOK, Same
    <3>2. Forward(r)
      BY <1>1, <3>1, ForwardSame DEF IInv
    <3>3. Moving(r)'
      BY <1>1, <1>2, <3>2, MovedStays DEF IInv, Moving
    <3>4. "main" \in Stream
      BY DEF Stream
    <3>5. Ready(r, "main")' /\ Running(r, "main")' = Running(r, "main")
      BY <1>1, <1>2, <3>2, <3>4, ReadyStays DEF IInv
    <3>6. PICK n \in Nat, d \in Nat : Pos(r, n, d)
      BY DEF IInv, StreamOK, At
    <3>7. Pos(r, n, d)'
      BY <1>1, <3>6 DEF Pos, Same
    <3>8. arrived'[r] = departed'[r] + 1
      BY <1>1 DEF IInv, FunctionsOK
    <3>9. done'[r]["copy"] <= Len(queue'[r]["copy"]) /\ produced'[r] <= submitted'[r]
      BY <1>1 DEF IInv, StreamOK, At, Same
    <3> QED BY <1>1, <2>1, <3>3, <3>5, <3>7, <3>8, <3>9 DEF At
  <2>2. CASE q # r
    <3>1. Still(q)
      BY <1>1, <2>2 DEF IInv, FunctionsOK, Still
    <3> QED BY <1>1, <1>2, <3>1, StillOK
  <2> QED BY <2>1, <2>2
<1>4. StreamOK' /\ MovedOK'
  BY <1>3 DEF StreamOK, MovedOK
<1>5. ForkOK'
  BY <1>1 DEF IInv, ForkOK, Same
<1>6. JoinedOK'
  <2>1. \A q \in Rank : arrived[q] <= arrived'[q]
    BY <1>1 DEF IInv, FunctionsOK
  <2> QED BY <1>1, <1>2, <2>1, JoinedStays DEF JoinedOK, Same
<1> QED BY <1>1, <1>2, <1>4, <1>5, <1>6, QueuesStay DEF IInv

\* The operation at the head of the main stream, by its place in its call.
LEMMA MainHead ==
    ASSUME IInv, NEW r \in Rank, NEW n \in Nat, NEW d \in Nat, Pos(r, n, d),
           done[r]["main"] < Len(queue[r]["main"])
    PROVE  /\ n \in 1 .. submitted[r] /\ n \in 1 .. Len(workload[r])
           /\ workload[r][n] \in Call
           /\ d \in 0 .. MainLen(workload[r][n], r) - 1
           /\ d + 1 \in 1 .. MainLen(workload[r][n], r)
           /\ IsMainOp(Running(r, "main"), workload[r][n], r, n, d + 1, CopyBase(workload[r], n))
<1>0. workload \in Workloads /\ FunctionsOK /\ QueueOK
  BY DEF IInv
<1>1. n <= submitted[r] /\ n \in 1 .. Len(workload[r]) /\ submitted[r] \in Nat
  BY <1>0, PosBounds
<1>2. n \in 1 .. submitted[r]
  BY <1>1
<1>3. workload[r][n] \in Call
  BY <1>1, CallFacts DEF IInv
<1>4. MainLen(workload[r][n], r) \in Nat
  BY <1>3, ShapeFacts
<1>5. d \in 0 .. MainLen(workload[r][n], r) - 1 /\ d + 1 \in 1 .. MainLen(workload[r][n], r)
  BY <1>1, <1>4 DEF Pos
<1>6. MainBase(workload[r], r, n) \in Nat
  <2>1. n \in 1 .. Len(workload[r]) + 1
    BY PosBounds DEF IInv
  <2> QED BY <2>1, BaseFacts DEF IInv
<1>7. done[r]["main"] + 1 = MainBase(workload[r], r, n) + (d + 1)
  BY <1>6 DEF Pos
<1>8. IsMainOp(queue[r]["main"][MainBase(workload[r], r, n) + (d + 1)],
               workload[r][n], r, n, d + 1, CopyBase(workload[r], n))
  BY <1>2, <1>5 DEF IInv, QueueOK, Holds
<1>9. Running(r, "main") = queue[r]["main"][MainBase(workload[r], r, n) + (d + 1)]
  BY <1>7 DEF Running
<1> QED BY <1>1, <1>2, <1>3, <1>5, <1>8, <1>9

\* The main stream completes an operation and leaves a barrier if it was one.
LEMMA Advance ==
    ASSUME IInv, Same, NEW r \in Rank, NEW n \in Nat, NEW d \in Nat, Pos(r, n, d),
           done[r]["main"] < Len(queue[r]["main"]),
           done'[r]["main"] = done[r]["main"] + 1,
           departed'[r] = departed[r] + (IF BarAt(workload[r][n], r, d + 1) THEN 1 ELSE 0)
    PROVE  /\ \E m, e \in Nat : Pos(r, m, e)'
           /\ departed'[r] =
                 Cardinality({i \in 1 .. done'[r]["main"] : queue'[r]["main"][i].kind = "barrier"})
<1> DEFINE w == workload[r]
           c == w[n]
           len == MainLen(c, r)
           here == MainBase(w, r, n)
           bars == BarBase(w, n)
           k == Passed(c, r, d)
           k1 == Passed(c, r, d + 1)
           bit == IF BarAt(c, r, d + 1) THEN 1 ELSE 0
<1>1. /\ n \in 1 .. submitted[r] /\ n \in 1 .. Len(w) /\ c \in Call
      /\ d \in 0 .. len - 1 /\ d + 1 \in 1 .. len
      /\ IsMainOp(Running(r, "main"), c, r, n, d + 1, CopyBase(w, n))
  BY MainHead, Zenon
<1>2. /\ len \in Nat \ {0} /\ Bars(c) \in Nat
      /\ k \in Nat /\ k1 = k + bit /\ Passed(c, r, 0) = 0 /\ Passed(c, r, len) = Bars(c)
  <2>0. len \in Nat
    BY <1>1, ShapeFacts
  <2>1. d \in 0 .. len
    BY <1>1, <2>0
  <2> QED BY <1>1, <2>1, ShapeFacts
<1>3. /\ here \in Nat /\ bars \in Nat
      /\ MainBase(w, r, n + 1) = here + len /\ BarBase(w, n + 1) = bars + Bars(c)
  <2>1. Len(w) \in Nat /\ n \in 1 .. Len(w) + 1
    BY <1>1
  <2> QED BY <1>1, <2>1, BaseFacts DEF IInv
<1>4. done[r]["main"] = here + d /\ departed[r] = bars + k
  BY <1>2, <1>3 DEF Pos
<1>5. submitted[r] \in Nat /\ workload' = workload /\ submitted'[r] = submitted[r] /\ queue' = queue
  BY DEF IInv, FunctionsOK, Same
<1>0. departed'[r] = departed[r] + bit
  OBVIOUS
<1>b. w = workload[r] /\ c = w[n] /\ len = MainLen(c, r) /\ here = MainBase(w, r, n) /\ bars = BarBase(w, n)
      /\ k1 = Passed(c, r, d + 1) /\ (bit = IF BarAt(c, r, d + 1) THEN 1 ELSE 0)
  OBVIOUS
<1> HIDE DEF w, c, len, here, bars, k, k1, bit
<1>a. bit \in Nat
  BY <1>b
<1>6. done'[r]["main"] = here + (d + 1) /\ departed'[r] = bars + k1
  <2>1. done'[r]["main"] = here + (d + 1)
    BY <1>3, <1>4
  <2>2. departed'[r] = (bars + k) + bit
    BY <1>0, <1>4
  <2> QED BY <1>2, <1>3, <1>a, <2>1, <2>2
<1>7. \E m, e \in Nat : Pos(r, m, e)'
  <2>1. CASE d + 1 < len
    <3>1. Pos(r, n, d + 1)'
      BY <1>1, <1>5, <1>6, <1>b, <2>1 DEF Pos
    <3> QED BY <1>1, <3>1
  <2>2. CASE ~ d + 1 < len
    <3>1. d + 1 = len /\ k1 = Bars(c)
      <4>1. d + 1 = len
        BY <1>1, <1>2, <2>2
      <4> QED BY <1>2, <1>b, <4>1
    <3>2. done'[r]["main"] = MainBase(w, r, n + 1) /\ departed'[r] = BarBase(w, n + 1)
      BY <1>3, <1>6, <3>1
    <3>3. done'[r]["main"] = MainBase(w, r, n + 1) + 0 /\ departed'[r] = BarBase(w, n + 1) + 0
      <4>1. done'[r]["main"] \in Nat /\ departed'[r] \in Nat
        BY <1>2, <1>3, <1>6, <3>1
      <4> QED BY <3>2, <4>1
    <3>4. n + 1 \in 1 .. submitted'[r] + 1 /\ n + 1 \in Nat
      BY <1>1, <1>5
    <3>5. CASE n + 1 = submitted[r] + 1
      <4>1. ~ n + 1 <= submitted'[r]
        BY <1>5, <3>5
      <4>2. Pos(r, n + 1, 0)'
        BY <1>5, <1>b, <3>3, <3>4, <4>1 DEF Pos
      <4> QED BY <3>4, <4>2
    <3>6. CASE n + 1 # submitted[r] + 1
      <4>1. n + 1 \in 1 .. submitted[r] /\ n + 1 \in 1 .. Len(w) /\ n + 1 # submitted'[r] + 1
        <5>1. submitted[r] <= Len(w) /\ Len(w) \in Nat
          BY <1>b, PosBounds DEF IInv
        <5> QED BY <1>1, <1>5, <3>6, <5>1
      <4>2. 0 < MainLen(w[n + 1], r)
        <5>1. w[n + 1] \in Call
          BY <1>b, <4>1, CallFacts DEF IInv
        <5> QED BY <5>1, ShapeFacts
      <4>3. Pos(r, n + 1, 0)'
        BY <1>5, <1>b, <3>3, <3>4, <4>1, <4>2 DEF Pos
      <4> QED BY <3>4, <4>3
    <3> QED BY <3>5, <3>6
  <2> QED BY <2>1, <2>2
<1>8. departed'[r] =
         Cardinality({i \in 1 .. done'[r]["main"] : queue'[r]["main"][i].kind = "barrier"})
  <2> DEFINE D == done[r]["main"]
             S == {i \in 1 .. D : queue[r]["main"][i].kind = "barrier"}
             T == {i \in 1 .. D + 1 : queue[r]["main"][i].kind = "barrier"}
  <2>1. D \in Nat
    BY DEF IInv, FunctionsOK, Stream
  <2>2. queue[r]["main"][D + 1].kind = "barrier" <=> BarAt(c, r, d + 1)
    BY <1>1 DEF IsMainOp, Running
  <2>3. departed[r] = Cardinality(S)
    BY DEF IInv, MovedOK, Moving
  <2>4. IsFiniteSet(S)
    <3>0. IsFiniteSet(1 .. D)
      <4>1. 1 \in Int /\ D \in Int
        BY <2>1
      <4> QED BY <4>1, FS_Interval, Zenon
    <3>1. IsFiniteSet(1 .. D) /\ S \in SUBSET (1 .. D)
      BY <3>0
    <3> QED BY <3>1, FS_Subset
  <2>5. D + 1 \notin S
    BY <2>1
  <2>6. CASE BarAt(c, r, d + 1)
    <3>1. T = S \cup {D + 1}
      BY <2>1, <2>2, <2>6
    <3> HIDE DEF S, T, D
    <3>2. Cardinality(T) = Cardinality(S) + 1
      BY <2>4, <2>5, <3>1, FS_AddElement
    <3>3. departed'[r] = Cardinality(T)
      BY <1>0, <1>b, <2>3, <2>6, <3>2
    <3> QED BY <1>5, <3>3 DEF T, D
  <2>7. CASE ~ BarAt(c, r, d + 1)
    <3>1. T = S
      BY <2>1, <2>2, <2>7
    <3>2. Cardinality(S) \in Nat
      BY <2>4, FS_CardinalityType
    <3> HIDE DEF S, T, D
    <3>3. departed'[r] = Cardinality(T)
      BY <1>0, <1>b, <2>3, <2>7, <3>1, <3>2
    <3> QED BY <1>5, <3>3 DEF T, D
  <2> QED BY <2>6, <2>7
<1> QED BY <1>7, <1>8

\* The operation at the head of the copy stream, by its place in its call.
LEMMA CopyHead ==
    ASSUME IInv, NEW r \in Rank, done[r]["copy"] < Len(queue[r]["copy"])
    PROVE  \E n \in 1 .. submitted[r] : \E k \in 1 .. CopyLen(workload[r][n]) :
              /\ n \in 1 .. Len(workload[r]) /\ workload[r][n] \in Call /\ Piped(workload[r][n])
              /\ CopyLen(workload[r][n]) = workload[r][n].size
              /\ done[r]["copy"] + 1 = CopyBase(workload[r], n) + k
              /\ IsCopyOp(Running(r, "copy"), workload[r][n], r, n, k, MainBase(workload[r], r, n))
<1>1. done[r]["copy"] \in Nat /\ Len(queue[r]["copy"]) \in Nat
  BY SeqIntro DEF IInv, FunctionsOK, IsSeq, Stream
<1>2. done[r]["copy"] + 1 \in 1 .. Len(queue[r]["copy"])
  BY <1>1
<1>a. PICK n \in 1 .. submitted[r] :
         \E k \in 1 .. CopyLen(workload[r][n]) : done[r]["copy"] + 1 = CopyBase(workload[r], n) + k
  BY <1>2 DEF IInv, QueueOK, Holds
<1>3. PICK k \in 1 .. CopyLen(workload[r][n]) : done[r]["copy"] + 1 = CopyBase(workload[r], n) + k
  BY <1>a
<1>4. IsCopyOp(queue[r]["copy"][CopyBase(workload[r], n) + k], workload[r][n], r, n, k,
               MainBase(workload[r], r, n))
  BY DEF IInv, QueueOK, Holds
<1>5. n \in 1 .. Len(workload[r]) /\ workload[r][n] \in Call
  <2>1. submitted[r] \in Nat /\ submitted[r] <= Len(workload[r]) /\ Len(workload[r]) \in Nat
    BY CallFacts DEF IInv, QueueOK, Holds, FunctionsOK
  <2>2. n \in 1 .. Len(workload[r])
    BY <2>1
  <2> QED BY <2>2, CallFacts DEF IInv
<1>6. Piped(workload[r][n]) /\ CopyLen(workload[r][n]) = workload[r][n].size
  <2>1. CASE ~ Piped(workload[r][n])
    <3>1. CopyLen(workload[r][n]) = 0
      BY <2>1 DEF CopyLen
    <3> QED BY <3>1
  <2> QED BY <2>1 DEF CopyLen
<1>7. Running(r, "copy") = queue[r]["copy"][CopyBase(workload[r], n) + k]
  BY <1>3 DEF Running
<1> QED BY <1>3, <1>4, <1>5, <1>6, <1>7

\* The barrier of chunk k of a pipelined call is at an odd place.
LEMMA ChunkPlace ==
    ASSUME NEW size \in Nat \ {0}, NEW k \in 0 .. size - 1
    PROVE  /\ 2 * k + 1 \in 1 .. 2 * size + 1 /\ 2 * k + 1 <= 2 * size
           /\ (2 * k + 1) % 2 = 1 /\ (2 * k + 1) \div 2 = k
<1>1. k \in Nat /\ k + 1 <= size
  OBVIOUS
<1>2. (2 * k + 1) % 2 = 1 /\ (2 * k + 1) \div 2 = k
  BY <1>1
<1>3. 2 * k + 1 \in 1 .. 2 * size + 1 /\ 2 * k + 1 <= 2 * size
  BY <1>1
<1> QED BY <1>2, <1>3

\* A completed operation leaves the waits between the streams as they were.
LEMMA ForkStays ==
    ASSUME IInv, Same, NEW r \in Rank, NEW s \in Stream, Ready(r, s),
           done' = [done EXCEPT ![r][s] = @ + 1]
    PROVE  ForkOK'
<1>1. workload' = workload /\ submitted' = submitted
  BY DEF Same
<1>2. ASSUME NEW q \in Rank
      PROVE  /\ done[q]["main"] \in Nat /\ done[q]["copy"] \in Nat
             /\ done'[q]["main"] = done[q]["main"] + (IF q = r /\ s = "main" THEN 1 ELSE 0)
             /\ done'[q]["copy"] = done[q]["copy"] + (IF q = r /\ s = "copy" THEN 1 ELSE 0)
  BY DEF IInv, FunctionsOK, Stream
<1>3. done[r][s] < Len(queue[r][s])
  BY DEF Ready
<1> SUFFICES ASSUME NEW q \in Rank, NEW n \in 1 .. submitted[q], Piped(workload[q][n])
             PROVE  /\ \A k \in 0 .. workload[q][n].size - 1 :
                          done'[q]["main"] >= MainBase(workload[q], q, n) + 2 * k + 1 =>
                             done'[q]["copy"] >= CopyBase(workload[q], n) + k + 1
                    /\ done'[q]["copy"] > CopyBase(workload[q], n) =>
                          done'[q]["main"] >= MainBase(workload[q], q, n)
  BY <1>1 DEF ForkOK
<1> DEFINE c == workload[q][n]
           mb == MainBase(workload[q], q, n)
           cb == CopyBase(workload[q], n)
<1>4. /\ n \in 1 .. Len(workload[q]) /\ c \in Call /\ mb \in Nat /\ cb \in Nat
      /\ c.size \in Nat \ {0}
  <2>1. submitted[q] \in Nat /\ submitted[q] <= Len(workload[q]) /\ Len(workload[q]) \in Nat
    BY CallFacts DEF IInv, QueueOK, Holds, FunctionsOK
  <2>2. n \in 1 .. Len(workload[q]) /\ n \in 1 .. Len(workload[q]) + 1
    BY <2>1
  <2>3. c \in Call
    BY <2>2, CallFacts DEF IInv
  <2> QED BY <2>2, <2>3, BaseFacts DEF IInv, Call
<1>5. /\ \A k \in 0 .. c.size - 1 :
            done[q]["main"] >= mb + 2 * k + 1 => done[q]["copy"] >= cb + k + 1
      /\ done[q]["copy"] > cb => done[q]["main"] >= mb
  BY DEF IInv, ForkOK
<1>6. /\ \A j \in 1 .. MainLen(c, q) : IsMainOp(queue[q]["main"][mb + j], c, q, n, j, cb)
      /\ \A k \in 1 .. CopyLen(c) : IsCopyOp(queue[q]["copy"][cb + k], c, q, n, k, mb)
      /\ MainLen(c, q) = 2 * c.size + 1 /\ CopyLen(c) = c.size
  BY DEF IInv, QueueOK, Holds, MainLen, CopyLen
<1>p. Piped(c)
  OBVIOUS
<1> HIDE DEF c, mb, cb
<1>7. ASSUME NEW k \in 0 .. c.size - 1, done'[q]["main"] >= mb + 2 * k + 1
      PROVE  done'[q]["copy"] >= cb + k + 1
  <2>1. CASE done[q]["main"] >= mb + 2 * k + 1
    BY <1>2, <1>4, <1>5, <2>1
  <2>2. CASE ~ done[q]["main"] >= mb + 2 * k + 1
    <3>1. q = r /\ s = "main" /\ done[q]["main"] = mb + 2 * k
      BY <1>2, <1>4, <1>7, <2>2
    <3>2. /\ 2 * k + 1 \in 1 .. 2 * c.size + 1 /\ 2 * k + 1 <= 2 * c.size
          /\ (2 * k + 1) % 2 = 1 /\ (2 * k + 1) \div 2 = k
          /\ done[q]["main"] + 1 = mb + (2 * k + 1)
          /\ cb + k + 1 \in Nat
      <4>1. /\ 2 * k + 1 \in 1 .. 2 * c.size + 1 /\ 2 * k + 1 <= 2 * c.size
            /\ (2 * k + 1) % 2 = 1 /\ (2 * k + 1) \div 2 = k
        BY <1>4, ChunkPlace
      <4>2. k \in Nat /\ done[q]["main"] + 1 = mb + (2 * k + 1) /\ cb + k + 1 \in Nat
        BY <1>4, <3>1
      <4> QED BY <4>1, <4>2
    <3>3. IsMainOp(Running(r, "main"), c, q, n, 2 * k + 1, cb)
      BY <1>6, <3>1, <3>2 DEF Running
    <3>4. <<"copy", cb + k + 1>> \in Running(r, "main").waits
      BY <1>p, <3>2, <3>3 DEF IsMainOp, BarAt
    <3>5. Completed(r, "copy") >= cb + k + 1
      BY <3>1, <3>4 DEF Ready
    <3>6. done[q]["copy"] >= cb + k + 1
      BY <3>1, <3>5 DEF Completed
    <3> QED BY <1>2, <3>2, <3>6
  <2> QED BY <2>1, <2>2
<1>8. ASSUME done'[q]["copy"] > cb PROVE done'[q]["main"] >= mb
  <2>1. CASE done[q]["copy"] > cb
    BY <1>2, <1>4, <1>5, <2>1
  <2>2. CASE ~ done[q]["copy"] > cb
    <3>1. q = r /\ s = "copy" /\ done[q]["copy"] = cb
      BY <1>2, <1>4, <1>8, <2>2
    <3>2. 1 \in 1 .. CopyLen(c)
      BY <1>4, <1>6
    <3>3. IsCopyOp(Running(r, "copy"), c, q, n, 1, mb)
      BY <1>6, <3>1, <3>2 DEF Running
    <3>4. <<"main", mb>> \in Running(r, "copy").waits
      BY <3>3 DEF IsCopyOp
    <3>5. Completed(r, "main") >= mb
      BY <3>1, <3>4 DEF Ready
    <3>6. done[q]["main"] >= mb
      BY <3>1, <3>5 DEF Completed
    <3> QED BY <1>2, <1>4, <3>6
  <2> QED BY <2>1, <2>2
<1> QED BY <1>7, <1>8 DEF c, mb, cb

\* A copy completes.
LEMMA RetireOK == ASSUME IInv, NEW r \in Rank, NEW s \in Stream, Retire(r, s) PROVE IInv'
<1>1. /\ Same /\ produced' = produced /\ arrived' = arrived /\ departed' = departed
      /\ Ready(r, s) /\ Running(r, s).kind = "copy"
      /\ done' = [done EXCEPT ![r][s] = @ + 1] /\ moved' = [moved EXCEPT ![r][s] = {}]
  BY DEF Retire, Same, barriers
<1>2. /\ \A q \in Rank : \A t \in Stream :
            /\ done[q][t] \in Nat
            /\ done'[q][t] = done[q][t] + (IF q = r /\ t = s THEN 1 ELSE 0)
            /\ moved'[q][t] = IF q = r /\ t = s THEN {} ELSE moved[q][t]
      /\ DOMAIN done' = Rank /\ done' = [q \in Rank |-> done'[q]]
      /\ DOMAIN moved' = Rank /\ moved' = [q \in Rank |-> moved'[q]]
      /\ \A q \in Rank :
            /\ done'[q] \in [Stream -> Nat]
            /\ moved'[q] = [t \in Stream |-> moved'[q][t]]
  <2>1. /\ DOMAIN done = Rank /\ \A q \in Rank : done[q] \in [Stream -> Nat]
        /\ DOMAIN moved = Rank /\ \A q \in Rank : moved[q] = [t \in Stream |-> moved[q][t]]
        /\ done = [q \in Rank |-> done[q]] /\ moved = [q \in Rank |-> moved[q]]
    BY DEF IInv, FunctionsOK
  <2>2. /\ DOMAIN done' = Rank /\ done' = [q \in Rank |-> done'[q]]
        /\ \A q \in Rank : done'[q] = IF q = r THEN [done[r] EXCEPT ![s] = @ + 1] ELSE done[q]
    BY <1>1, <2>1
  <2>3. /\ DOMAIN moved' = Rank /\ moved' = [q \in Rank |-> moved'[q]]
        /\ \A q \in Rank : moved'[q] = IF q = r THEN [moved[r] EXCEPT ![s] = {}] ELSE moved[q]
    BY <1>1, <2>1
  <2>4. ASSUME NEW q \in Rank
        PROVE  /\ done'[q] \in [Stream -> Nat]
               /\ \A t \in Stream :
                     /\ done[q][t] \in Nat
                     /\ done'[q][t] = done[q][t] + (IF q = r /\ t = s THEN 1 ELSE 0)
    BY <2>1, <2>2
  <2>5. ASSUME NEW q \in Rank
        PROVE  /\ moved'[q] = [t \in Stream |-> moved'[q][t]]
               /\ \A t \in Stream : moved'[q][t] = IF q = r /\ t = s THEN {} ELSE moved[q][t]
    <3>1. CASE q = r
      <4>1. moved'[q] = [moved[r] EXCEPT ![s] = {}]
        BY <2>3, <3>1
      <4>2. moved[r] = [t \in Stream |-> moved[r][t]]
        BY <2>1
      <4> QED BY <3>1, <4>1, <4>2
    <3>2. CASE q # r
      <4>1. moved'[q] = moved[q]
        BY <2>3, <3>2
      <4>2. moved[q] = [t \in Stream |-> moved[q][t]]
        BY <2>1
      <4> QED BY <3>2, <4>1, <4>2
    <3> QED BY <3>1, <3>2
  <2> QED BY <2>2, <2>3, <2>4, <2>5
<1>3. FunctionsOK'
  BY <1>1, <1>2 DEF IInv, FunctionsOK, Same
<1>4. ASSUME NEW q \in Rank PROVE Forward(q)
  <2>1. \A t \in Stream : done[q][t] <= done'[q][t]
    BY <1>2
  <2>2. produced[q] <= produced'[q]
    BY <1>1 DEF IInv, FunctionsOK
  <2> QED BY <1>1, <2>1, <2>2, ForwardSame DEF IInv
<1>5. PICK n \in Nat, d \in Nat : Pos(r, n, d)
  BY DEF IInv, StreamOK, At
<1>6. /\ \E m, e \in Nat : Pos(r, m, e)'
      /\ departed'[r] =
            Cardinality({i \in 1 .. done'[r]["main"] : queue'[r]["main"][i].kind = "barrier"})
  <2>1. CASE s = "main"
    <3>1. done[r]["main"] < Len(queue[r]["main"])
      BY <1>1, <2>1 DEF Ready
    <3>2. IsMainOp(Running(r, "main"), workload[r][n], r, n, d + 1, CopyBase(workload[r], n))
      BY <1>5, <3>1, MainHead
    <3>3. ~ BarAt(workload[r][n], r, d + 1)
      BY <1>1, <2>1, <3>2 DEF IsMainOp
    <3>4. departed'[r] = departed[r] + 0
      BY <1>1 DEF IInv, FunctionsOK
    <3>5. departed'[r] = departed[r] + (IF BarAt(workload[r][n], r, d + 1) THEN 1 ELSE 0)
      BY <3>3, <3>4
    <3>6. done'[r]["main"] = done[r]["main"] + 1
      BY <1>2, <2>1 DEF Stream
    <3> QED BY <1>1, <1>5, <3>1, <3>5, <3>6, Advance
  <2>2. CASE s # "main"
    <3>1. done'[r]["main"] = done[r]["main"]
      BY <1>2, <2>2 DEF Stream
    <3>2. Pos(r, n, d)'
      BY <1>1, <1>5, <3>1 DEF Pos, Same
    <3> QED BY <1>1, <3>1, <3>2 DEF IInv, MovedOK, Moving, Same
  <2> QED BY <2>1, <2>2
<1>7. arrived[r] # departed[r] => s # "main"
  BY <1>1 DEF IInv, StreamOK, At
<1>8. ASSUME NEW t \in Stream, t # s, Ready(r, t)
      PROVE  Ready(r, t)' /\ Running(r, t)' = Running(r, t)
  <2>1. done'[r][t] = done[r][t]
    BY <1>2, <1>8
  <2> QED BY <1>3, <1>4, <1>8, <2>1, ReadyStays DEF IInv
<1>9. At(r)'
  <2>1. done'[r]["copy"] <= Len(queue'[r]["copy"])
    <3>1. Len(queue[r]["copy"]) \in Nat /\ queue' = queue
      BY <1>1, SeqIntro DEF IInv, FunctionsOK, IsSeq, Stream, Same
    <3>2. done[r]["copy"] \in Nat /\ done[r]["copy"] <= Len(queue[r]["copy"])
      BY <1>2 DEF IInv, StreamOK, At, Stream
    <3>3. s = "copy" => done[r]["copy"] < Len(queue[r]["copy"])
      BY <1>1 DEF Ready
    <3>4. done'[r]["copy"] = done[r]["copy"] + (IF s = "copy" THEN 1 ELSE 0)
      BY <1>2 DEF Stream
    <3> QED BY <3>1, <3>2, <3>3, <3>4
  <2>2. produced'[r] <= submitted'[r] /\ arrived'[r] \in {departed'[r], departed'[r] + 1}
    BY <1>1 DEF IInv, StreamOK, At, Same
  <2>3. arrived'[r] # departed'[r] => Ready(r, "main")' /\ Running(r, "main")'.kind = "barrier"
    <3>1. arrived[r] # departed[r] => Ready(r, "main") /\ Running(r, "main").kind = "barrier"
      BY DEF IInv, StreamOK, At
    <3> QED BY <1>1, <1>7, <1>8, <3>1 DEF Stream
  <2> QED BY <1>6, <2>1, <2>2, <2>3 DEF At
<1>10. Moving(r)'
  <2>1. ASSUME NEW t \in Stream, moved'[r][t] # {}
        PROVE  Ready(r, t)' /\ moved'[r][t] \subseteq Running(r, t)'.moves
    <3>1. t # s /\ moved'[r][t] = moved[r][t]
      BY <1>2, <2>1
    <3>2. Ready(r, t) /\ moved[r][t] \subseteq Running(r, t).moves
      BY <2>1, <3>1 DEF IInv, MovedOK, Moving
    <3> QED BY <1>8, <3>1, <3>2
  <2> QED BY <1>6, <2>1 DEF Moving
<1>11. ASSUME NEW q \in Rank, q # r PROVE At(q)' /\ Moving(q)'
  <2>1. Still(q)
    BY <1>1, <1>11 DEF IInv, FunctionsOK, Still
  <2> QED BY <1>1, <1>3, <2>1, StillOK
<1>12. StreamOK' /\ MovedOK'
  BY <1>9, <1>10, <1>11 DEF StreamOK, MovedOK
<1>13. ForkOK'
  BY <1>1, ForkStays
<1>14. JoinedOK'
  <2>1. \A q \in Rank : arrived[q] <= arrived'[q]
    BY <1>1 DEF IInv, FunctionsOK
  <2> QED BY <1>1, <1>3, <2>1, JoinedStays DEF JoinedOK, Same
<1> QED BY <1>1, <1>3, <1>12, <1>13, <1>14, QueuesStay DEF IInv

\* Where a rank is that is ready to run a barrier.
LEMMA InBarrier ==
    ASSUME IInv, NEW r \in Rank, NEW n \in Nat, NEW d \in Nat, Pos(r, n, d),
           Ready(r, "main"), Running(r, "main").kind = "barrier"
    PROVE  /\ n \in 1 .. submitted[r] /\ n \in 1 .. Len(workload[r]) /\ workload[r][n] \in Call
           /\ d + 1 \in 1 .. MainLen(workload[r][n], r) /\ BarAt(workload[r][n], r, d + 1)
           /\ Passed(workload[r][n], r, d) + 1 \in 1 .. Bars(workload[r][n])
           /\ departed[r] + 1 = BarBase(workload[r], n) + (Passed(workload[r][n], r, d) + 1)
           /\ departed[r] + 1 <= Len(schedule[r])
<1> DEFINE c == workload[r][n]
           k == Passed(c, r, d)
<1>1. done[r]["main"] < Len(queue[r]["main"])
  BY DEF Ready
<1>2. /\ n \in 1 .. submitted[r] /\ n \in 1 .. Len(workload[r]) /\ c \in Call
      /\ d \in 0 .. MainLen(c, r) - 1 /\ d + 1 \in 1 .. MainLen(c, r)
      /\ IsMainOp(Running(r, "main"), c, r, n, d + 1, CopyBase(workload[r], n))
  BY <1>1, MainHead, Zenon
<1>3. BarAt(c, r, d + 1)
  BY <1>2 DEF IsMainOp
<1>4. /\ Bars(c) \in Nat /\ k \in Nat /\ k + 1 <= Bars(c)
      /\ d = 0 => k = 0
  <2>0. MainLen(c, r) \in Nat
    BY <1>2, ShapeFacts
  <2>1. d \in 0 .. MainLen(c, r) /\ d + 1 \in 0 .. MainLen(c, r)
    BY <1>2, <2>0
  <2>2. Passed(c, r, d + 1) = k + (IF BarAt(c, r, d + 1) THEN 1 ELSE 0)
    BY <1>2, ShapeFacts
  <2>3. Passed(c, r, d + 1) \in Nat /\ Passed(c, r, d + 1) <= Bars(c) /\ Bars(c) \in Nat /\ k \in Nat
    BY <1>2, <2>1, ShapeFacts
  <2>4. Passed(c, r, 0) = 0
    BY <1>2, ShapeFacts
  <2> QED BY <1>3, <2>2, <2>3, <2>4
<1>5. departed[r] = BarBase(workload[r], n) + (IF d = 0 THEN 0 ELSE k)
  BY DEF Pos
<1>6. /\ BarBase(workload[r], n) \in Nat /\ BarBase(workload[r], n) + Bars(c) <= Len(schedule[r])
      /\ Len(schedule[r]) \in Nat
  <2>1. /\ n \in 1 .. Len(workload[r]) + 1 /\ submitted[r] + 1 \in 1 .. Len(workload[r]) + 1
        /\ submitted[r] \in Nat
    <3>1. workload \in Workloads /\ FunctionsOK /\ QueueOK
      BY DEF IInv
    <3> QED BY <3>1, PosBounds
  <2>2. n < submitted[r] + 1
    BY <1>2, <2>1
  <2>3. Len(schedule[r]) = BarBase(workload[r], submitted[r] + 1)
    BY DEF IInv, QueueOK, Holds
  <2>4. BarBase(workload[r], n) + Bars(c) <= BarBase(workload[r], submitted[r] + 1)
    BY <2>1, <2>2, BaseFacts DEF IInv
  <2>5. BarBase(workload[r], n) \in Nat /\ BarBase(workload[r], submitted[r] + 1) \in Nat
    BY <2>1, BaseFacts DEF IInv
  <2> QED BY <2>3, <2>4, <2>5
<1>b. c = workload[r][n] /\ k = Passed(c, r, d)
  OBVIOUS
<1> HIDE DEF c, k
<1>7. k + 1 \in 1 .. Bars(c)
  BY <1>4
<1>8. departed[r] + 1 = BarBase(workload[r], n) + (k + 1)
  BY <1>4, <1>5, <1>6
<1>9. departed[r] + 1 <= Len(schedule[r])
  BY <1>4, <1>6, <1>8
<1> QED BY <1>2, <1>3, <1>7, <1>8, <1>9, <1>b

\* A rank arrives at nothing that it has not submitted.
LEMMA ArrivedBound ==
    ASSUME IInv, NEW r \in Rank
    PROVE  arrived[r] \in Nat /\ departed[r] \in Nat /\ arrived[r] <= Len(schedule[r])
<1>1. PICK n \in Nat, d \in Nat : Pos(r, n, d)
  BY DEF IInv, StreamOK, At
<1>2. arrived[r] \in Nat /\ departed[r] \in Nat
  BY DEF IInv, FunctionsOK
<1>3. CASE arrived[r] = departed[r]
  <2>1. workload \in Workloads /\ FunctionsOK /\ QueueOK
    BY DEF IInv
  <2>2. departed[r] <= Len(schedule[r])
    BY <1>1, <2>1, PosBounds
  <2> QED BY <1>2, <1>3, <2>2
<1>4. CASE arrived[r] # departed[r]
  <2>1. /\ arrived[r] = departed[r] + 1
        /\ Ready(r, "main") /\ Running(r, "main").kind = "barrier"
    BY <1>4 DEF IInv, StreamOK, At
  <2>2. departed[r] + 1 <= Len(schedule[r])
    BY <1>1, <2>1, InBarrier
  <2> QED BY <1>2, <2>1, <2>2
<1> QED BY <1>3, <1>4

\* A rank that has arrived at the instance of barrier b of r's n-th call has
\* arrived at barrier b of the same call.
LEMMA JoinsAt ==
    ASSUME IInv, NEW r \in Rank, NEW n \in 1 .. submitted[r], NEW b \in 1 .. Bars(workload[r][n]),
           NEW q \in Members[workload[r][n].group],
           Barriers!At(q, Barriers!BarrierAt(schedule[r], BarBase(workload[r], n) + b))
    PROVE  Joins(r, n, q, b)
<1> DEFINE g == workload[r][n].group
           B(m) == GroupBase(workload[q], g, m)
<1>0. workload \in Workloads
  BY DEF IInv
<1>1. /\ n \in 1 .. Len(workload[r]) /\ workload[r][n] \in Call /\ g \in Group
  <2>1. submitted[r] \in Nat /\ submitted[r] <= Len(workload[r]) /\ Len(workload[r]) \in Nat
    BY CallFacts DEF IInv, QueueOK, Holds, FunctionsOK
  <2>2. n \in 1 .. Len(workload[r])
    BY <2>1
  <2> QED BY <1>0, <2>2, CallFacts
<1>2. q \in Rank
  BY <1>0, <1>1, CallFacts
<1>3. Bars(workload[r][n]) \in Nat
  BY <1>1, ShapeFacts
<1>4. PICK j \in 1 .. arrived[q] :
         Calendar!BarrierAt(schedule[q], j) = Calendar!BarrierAt(schedule[r], BarBase(workload[r], n) + b)
  BY SameInstance DEF Barriers!At
<1>5. j \in 1 .. Len(schedule[q])
  <2>1. arrived[q] \in Nat /\ arrived[q] <= Len(schedule[q])
    BY <1>2, ArrivedBound
  <2>2. Len(schedule[q]) \in Nat
    BY <1>2 DEF IInv, FunctionsOK
  <2> QED BY <2>1, <2>2
<1>6. PICK m \in 1 .. submitted[q] :
         \E e \in 1 .. Bars(workload[q][m]) : j = BarBase(workload[q], m) + e
  BY <1>2, <1>5 DEF IInv, QueueOK, Holds
<1>7. PICK e \in 1 .. Bars(workload[q][m]) : j = BarBase(workload[q], m) + e
  BY <1>6
<1>8. /\ Calendar!BarrierAt(schedule[r], BarBase(workload[r], n) + b)
            = [group |-> g, epoch |-> GroupBase(workload[r], g, n) + b - 1]
      /\ Calendar!BarrierAt(schedule[q], j)
            = [group |-> workload[q][m].group,
               epoch |-> GroupBase(workload[q], workload[q][m].group, m) + e - 1]
  BY <1>2, <1>7 DEF IInv, EpochsOK
<1>9. workload[q][m].group = g /\ B(m) + e - 1 = GroupBase(workload[r], g, n) + b - 1
  BY <1>4, <1>8
<1>10. PICK i \in 1 .. Len(workload[q]) :
          SameCall(workload, r, n, q, i) /\ workload[q][i] = workload[r][n]
  BY <1>0, <1>1, CallFacts
<1>11. B(i) = GroupBase(workload[r], g, n)
  BY <1>0, <1>1, <1>2, <1>10, SameEpoch
<1>12. /\ m \in 1 .. Len(workload[q]) /\ workload[q][m] \in Call
       /\ m \in 1 .. Len(workload[q]) + 1 /\ i \in 1 .. Len(workload[q]) + 1
  <2>1. submitted[q] \in Nat /\ submitted[q] <= Len(workload[q]) /\ Len(workload[q]) \in Nat
    BY <1>2, CallFacts DEF IInv, QueueOK, Holds, FunctionsOK
  <2>2. /\ m \in 1 .. Len(workload[q])
        /\ m \in 1 .. Len(workload[q]) + 1 /\ i \in 1 .. Len(workload[q]) + 1
    BY <2>1
  <2> QED BY <1>0, <1>2, <2>2, CallFacts
<1>13. /\ Bars(workload[q][m]) \in Nat
       /\ B(m) \in Nat /\ B(i) \in Nat
       /\ m < i => B(m) + Bars(workload[q][m]) <= B(i)
       /\ i < m => B(i) + Bars(workload[r][n]) <= B(m)
  <2>1. Bars(workload[q][m]) \in Nat
    BY <1>12, ShapeFacts
  <2> QED BY <1>0, <1>2, <1>9, <1>10, <1>12, <2>1, GroupBaseFacts
<1>14. B(m) + e = B(i) + b
  <2>1. e \in Nat /\ b \in Nat
    BY <1>3, <1>13
  <2>2. B(m) \in Nat /\ B(i) \in Nat
    BY <1>13
  <2>3. B(m) + e - 1 = B(i) + b - 1
    BY <1>9, <1>11
  <2>4. PICK x \in Nat : x = B(m)
    BY <2>2
  <2>5. PICK y \in Nat : y = B(i)
    BY <2>2
  <2>6. x + e - 1 = y + b - 1
    BY <2>3, <2>4, <2>5
  <2>7. x + e = y + b
    BY <2>1, <2>6
  <2> QED BY <2>4, <2>5, <2>7
<1> HIDE DEF B, g
<1>15. ~ m < i
  BY <1>3, <1>13, <1>14
<1>16. ~ i < m
  BY <1>3, <1>13, <1>14
<1>17. m = i
  BY <1>15, <1>16
<1>18. e = b
  BY <1>3, <1>13, <1>14, <1>17
<1>19. BarBase(workload[q], m) + b <= arrived[q]
  <2>1. arrived[q] \in Nat
    BY <1>2, ArrivedBound
  <2> QED BY <1>7, <1>18, <2>1
<1> QED BY <1>10, <1>17, <1>19 DEF Joins

\* A rank leaves a barrier.
LEMMA DepartOK == ASSUME IInv, NEW r \in Rank, Depart(r) PROVE IInv'
<1>1. /\ Same /\ produced' = produced /\ arrived' = arrived /\ moved' = moved
      /\ Ready(r, "main") /\ Running(r, "main").kind = "barrier"
      /\ done' = [done EXCEPT ![r].main = @ + 1]
      /\ departed' = [departed EXCEPT ![r] = @ + 1]
      /\ departed[r] < arrived[r]
      /\ \A q \in Members[schedule[r][arrived[r]]] :
            Barriers!At(q, Barriers!BarrierAt(schedule[r], arrived[r]))
  BY DEF Depart, Barriers!Depart, Same
<1>0. done' = [done EXCEPT ![r]["main"] = @ + 1] /\ "main" \in Stream
  BY <1>1 DEF Stream
<1>2. /\ \A q \in Rank : \A t \in Stream :
            /\ done[q][t] \in Nat
            /\ done'[q][t] = done[q][t] + (IF q = r /\ t = "main" THEN 1 ELSE 0)
      /\ DOMAIN done' = Rank /\ done' = [q \in Rank |-> done'[q]]
      /\ \A q \in Rank : done'[q] \in [Stream -> Nat]
  <2>1. /\ DOMAIN done = Rank /\ \A q \in Rank : done[q] \in [Stream -> Nat]
        /\ done = [q \in Rank |-> done[q]]
    BY DEF IInv, FunctionsOK
  <2>2. /\ DOMAIN done' = Rank /\ done' = [q \in Rank |-> done'[q]]
        /\ \A q \in Rank : done'[q] = IF q = r THEN [done[r] EXCEPT !["main"] = @ + 1] ELSE done[q]
    BY <1>0, <2>1
  <2>4. ASSUME NEW q \in Rank
        PROVE  /\ done'[q] \in [Stream -> Nat]
               /\ \A t \in Stream :
                     /\ done[q][t] \in Nat
                     /\ done'[q][t] = done[q][t] + (IF q = r /\ t = "main" THEN 1 ELSE 0)
    BY <1>0, <2>1, <2>2
  <2> QED BY <2>2, <2>4
<1>3. FunctionsOK'
  <2>1. departed' \in [Rank -> Nat]
    BY <1>1 DEF IInv, FunctionsOK
  <2> QED BY <1>1, <1>2, <2>1 DEF IInv, FunctionsOK, Same
<1>4. ASSUME NEW q \in Rank PROVE Forward(q)
  <2>1. \A t \in Stream : done[q][t] <= done'[q][t]
    BY <1>2
  <2>2. produced[q] <= produced'[q]
    BY <1>1 DEF IInv, FunctionsOK
  <2> QED BY <1>1, <2>1, <2>2, ForwardSame DEF IInv
<1>5. PICK n \in Nat, d \in Nat : Pos(r, n, d)
  BY DEF IInv, StreamOK, At
<1> DEFINE c == workload[r][n]
           k == Passed(c, r, d) + 1
<1>6. /\ n \in 1 .. submitted[r] /\ n \in 1 .. Len(workload[r]) /\ c \in Call
      /\ BarAt(c, r, d + 1)
      /\ k \in 1 .. Bars(c) /\ departed[r] + 1 = BarBase(workload[r], n) + k
      /\ departed[r] + 1 <= Len(schedule[r])
  BY <1>1, <1>5, InBarrier
<1>b. c = workload[r][n]
  OBVIOUS
<1> HIDE DEF c, k
<1>7. /\ \A q \in Rank : arrived[q] \in Nat /\ departed[q] \in Nat
      /\ \A q \in Rank : departed'[q] = departed[q] + (IF q = r THEN 1 ELSE 0)
      /\ arrived[r] = departed[r] + 1
  BY <1>1 DEF IInv, FunctionsOK, StreamOK, At
<1>8. /\ \E m, e \in Nat : Pos(r, m, e)'
      /\ departed'[r] =
            Cardinality({i \in 1 .. done'[r]["main"] : queue'[r]["main"][i].kind = "barrier"})
  <2>1. done[r]["main"] < Len(queue[r]["main"])
    BY <1>1 DEF Ready
  <2>2. departed'[r] = departed[r] + (IF BarAt(workload[r][n], r, d + 1) THEN 1 ELSE 0)
    BY <1>6, <1>7, <1>b
  <2>3. done'[r]["main"] = done[r]["main"] + 1
    BY <1>0, <1>2
  <2> QED BY <1>1, <1>5, <2>1, <2>2, <2>3, Advance
<1>9. At(r)'
  <2>1. done'[r]["copy"] <= Len(queue'[r]["copy"])
    <3>1. done'[r]["copy"] = done[r]["copy"] + 0 /\ done[r]["copy"] \in Nat
      BY <1>2 DEF Stream
    <3> QED BY <1>1, <3>1 DEF IInv, StreamOK, At, Same
  <2>2. produced'[r] <= submitted'[r]
    BY <1>1 DEF IInv, StreamOK, At, Same
  <2>3. arrived'[r] = departed'[r]
    BY <1>1, <1>7
  <2> QED BY <1>8, <2>1, <2>2, <2>3 DEF At
<1>10. Moving(r)'
  <2>1. ASSUME NEW t \in Stream, moved'[r][t] # {}
        PROVE  Ready(r, t)' /\ moved'[r][t] \subseteq Running(r, t)'.moves
    <3>1. Ready(r, t) /\ moved[r][t] \subseteq Running(r, t).moves /\ moved[r][t] # {}
      BY <1>1, <2>1 DEF IInv, MovedOK, Moving
    <3>2. t = "copy"
      <4>1. IsMainOp(Running(r, "main"), c, r, n, d + 1, CopyBase(workload[r], n))
        <5>1. done[r]["main"] < Len(queue[r]["main"])
          BY <1>1 DEF Ready
        <5> QED BY <1>5, <5>1, MainHead DEF c
      <4>2. Running(r, "main").moves = {}
        BY <1>6, <4>1 DEF IsMainOp, MovesAt
      <4> QED BY <3>1, <4>2 DEF Stream
    <3>3. done'[r][t] = done[r][t]
      BY <1>2, <3>2
    <3>4. Ready(r, t)' /\ Running(r, t)' = Running(r, t)
      BY <1>3, <1>4, <3>1, <3>3, ReadyStays DEF IInv
    <3> QED BY <1>1, <3>1, <3>4
  <2> QED BY <1>8, <2>1 DEF Moving
<1>11. ASSUME NEW q \in Rank, q # r PROVE At(q)' /\ Moving(q)'
  <2>1. done'[q] = done[q] /\ departed'[q] = departed[q]
    BY <1>0, <1>1, <1>11 DEF IInv, FunctionsOK
  <2>2. Still(q)
    BY <1>1, <2>1 DEF Still
  <2> QED BY <1>1, <1>3, <2>2, StillOK
<1>12. StreamOK' /\ MovedOK'
  BY <1>9, <1>10, <1>11 DEF StreamOK, MovedOK
<1>13. ForkOK'
  BY <1>0, <1>1, ForkStays
<1>14. JoinedOK'
  <2> SUFFICES ASSUME NEW q \in Rank, NEW m \in 1 .. submitted[q], NEW b \in 1 .. Bars(workload[q][m]),
                      BarBase(workload[q], m) + b <= departed'[q],
                      NEW p \in Members[workload[q][m].group]
               PROVE  Joins(q, m, p, b)'
    BY <1>1 DEF JoinedOK, Same
  <2>0. \A x \in Rank : arrived[x] <= arrived'[x]
    BY <1>1, <1>7
  <2>1. CASE BarBase(workload[q], m) + b <= departed[q]
    BY <1>1, <1>3, <2>0, <2>1, JoinedStays
  <2>2. CASE ~ BarBase(workload[q], m) + b <= departed[q]
    <3>1. m \in 1 .. Len(workload[q]) /\ m \in 1 .. Len(workload[q]) + 1
      <4>1. submitted[q] \in Nat /\ submitted[q] <= Len(workload[q]) /\ Len(workload[q]) \in Nat
        BY CallFacts DEF IInv, QueueOK, Holds, FunctionsOK
      <4> QED BY <4>1
    <3>2. BarBase(workload[q], m) \in Nat /\ Bars(workload[q][m]) \in Nat /\ p \in Rank
      BY <3>1, BaseFacts, CallFacts, ShapeFacts DEF IInv
    <3>3. q = r /\ BarBase(workload[q], m) + b = arrived[r]
      BY <1>7, <2>2, <3>2
    <3>4. schedule[r][arrived[r]] = workload[q][m].group
      <4>1. Calendar!BarrierAt(schedule[q], BarBase(workload[q], m) + b)
               = [group |-> workload[q][m].group,
                  epoch |-> GroupBase(workload[q], workload[q][m].group, m) + b - 1]
        BY DEF IInv, EpochsOK
      <4> QED BY <3>3, <4>1 DEF Calendar!BarrierAt
    <3>5. Barriers!At(p, Barriers!BarrierAt(schedule[q], BarBase(workload[q], m) + b))
      BY <1>1, <3>3, <3>4
    <3>6. Joins(q, m, p, b)
      BY <3>5, JoinsAt
    <3> QED BY <1>1, <3>6 DEF Joins, Same
  <2> QED BY <2>1, <2>2
<1> QED BY <1>1, <1>3, <1>12, <1>13, <1>14, QueuesStay DEF IInv

\* Nothing changes.
LEMMA StutterOK == ASSUME IInv, UNCHANGED vars PROVE IInv'
<1>1. Same /\ \A r \in Rank : Still(r)
  BY DEF vars, barriers, Same, Still
<1>2. FunctionsOK'
  BY DEF vars, barriers, IInv, FunctionsOK
<1>3. StreamOK' /\ MovedOK'
  BY <1>1, <1>2, StillOK DEF StreamOK, MovedOK
<1>4. ForkOK' /\ JoinedOK'
  BY DEF vars, barriers, IInv, ForkOK, JoinedOK, Joins
<1> QED BY <1>1, <1>2, <1>3, <1>4, QueuesStay DEF IInv

\* Every step keeps the invariant.
LEMMA NextOK == ASSUME IInv, [Next]_vars PROVE IInv'
<1>1. ASSUME NEW r \in Rank, Step(r) PROVE IInv'
  BY <1>1, SubmitOK, ProduceOK, MoveOK, ArriveOK, DepartOK, RetireOK DEF Step
<1>2. CASE Quiescent
  BY <1>2, StutterOK DEF Quiescent
<1>3. CASE UNCHANGED vars
  BY <1>3, StutterOK
<1> QED BY <1>1, <1>2, <1>3 DEF Next

\* The invariant holds in every reachable state.
LEMMA Invariance == Spec => []IInv
  BY InitOK, NextOK, PTL DEF Spec

\* The invariant says of the types what the runs check.
LEMMA TypeFacts == IInv => TypeOK
<1> SUFFICES ASSUME IInv PROVE TypeOK
  OBVIOUS
<1>1. ASSUME NEW r \in Rank
      PROVE  /\ submitted[r] \in 0 .. Len(workload[r])
             /\ produced[r] \in 0 .. submitted[r]
             /\ \A s \in Stream :
                   /\ done[r][s] \in 0 .. Len(queue[r][s])
                   /\ moved[r][s] # {} => Ready(r, s) /\ moved[r][s] \subseteq Running(r, s).moves
             /\ departed[r] =
                   Cardinality({i \in 1 .. done[r].main : queue[r].main[i].kind = "barrier"})
  <2>1. PICK n \in Nat, d \in Nat : Pos(r, n, d)
    BY DEF IInv, StreamOK, At
  <2>2. workload \in Workloads /\ FunctionsOK /\ QueueOK
    BY DEF IInv
  <2>3. /\ submitted[r] \in Nat /\ submitted[r] <= Len(workload[r]) /\ Len(workload[r]) \in Nat
        /\ done[r]["main"] <= Len(queue[r]["main"])
    BY <2>1, <2>2, PosBounds
  <2>4. produced[r] \in Nat /\ produced[r] <= submitted[r] /\ done[r]["copy"] <= Len(queue[r]["copy"])
    BY DEF IInv, FunctionsOK, StreamOK, At
  <2>5. \A s \in Stream : done[r][s] \in Nat /\ Len(queue[r][s]) \in Nat
    BY SeqIntro DEF IInv, FunctionsOK, IsSeq
  <2>6. \A s \in Stream : done[r][s] <= Len(queue[r][s])
    BY <2>3, <2>4 DEF Stream
  <2>7. done[r].main = done[r]["main"] /\ queue[r].main = queue[r]["main"]
    OBVIOUS
  <2>8. Moving(r)
    BY DEF IInv, MovedOK
  <2>9. \A s \in Stream : done[r][s] \in 0 .. Len(queue[r][s])
    BY <2>5, <2>6
  <2>10. submitted[r] \in 0 .. Len(workload[r]) /\ produced[r] \in 0 .. submitted[r]
    BY <2>3, <2>4
  <2> QED BY <2>7, <2>8, <2>9, <2>10 DEF Moving
<1> QED BY <1>1 DEF TypeOK, IInv

\* Every reachable state is well typed (Runtime.all_gather, all2all and p2p):
\* in particular a rank has left exactly the barriers that its main stream has run.
THEOREM TypesOK == Spec => []TypeOK
  BY Invariance, TypeFacts, PTL

-----------------------------------------------------------------------------
(* No two running copies race.                                             *)

\* Where the copy stream runs, the main stream is in the same call, and has
\* pulled none but the chunks before.
LEMMA CopyPos ==
    ASSUME IInv, NEW p \in Rank, Ready(p, "copy"), NEW n \in Nat, NEW e \in Nat, Pos(p, n, e)
    PROVE  /\ n \in 1 .. Len(workload[p]) /\ workload[p][n] \in Call /\ Piped(workload[p][n])
           /\ \E k \in 0 .. workload[p][n].size - 1 :
                 /\ e <= 2 * k
                 /\ done[p]["copy"] = CopyBase(workload[p], n) + k
                 /\ Running(p, "copy").moves = StageMoves(workload[p][n], p, n, {k})
<1> DEFINE w == workload[p]
<1>0. done[p]["copy"] < Len(queue[p]["copy"])
  BY DEF Ready
<1>1. PICK i \in 1 .. submitted[p] :
         \E j \in 1 .. CopyLen(w[i]) :
              /\ i \in 1 .. Len(w) /\ w[i] \in Call /\ Piped(w[i])
              /\ CopyLen(w[i]) = w[i].size
              /\ done[p]["copy"] + 1 = CopyBase(w, i) + j
              /\ IsCopyOp(Running(p, "copy"), w[i], p, i, j, MainBase(w, p, i))
  BY <1>0, CopyHead
<1>2. PICK j \in 1 .. CopyLen(w[i]) :
              /\ i \in 1 .. Len(w) /\ w[i] \in Call /\ Piped(w[i])
              /\ CopyLen(w[i]) = w[i].size
              /\ done[p]["copy"] + 1 = CopyBase(w, i) + j
              /\ IsCopyOp(Running(p, "copy"), w[i], p, i, j, MainBase(w, p, i))
  BY <1>1
<1> DEFINE mb == MainBase(w, p, i)
           cb == CopyBase(w, i)
           size == w[i].size
           k == j - 1
<1>3. /\ size \in Nat \ {0} /\ k \in 0 .. size - 1
      /\ n \in 1 .. Len(w) + 1 /\ i \in 1 .. Len(w) + 1 /\ submitted[p] \in Nat
      /\ submitted[p] <= Len(w) /\ Len(w) \in Nat
  <2>1. size \in Nat \ {0}
    BY <1>2 DEF Call
  <2>2. workload \in Workloads /\ FunctionsOK /\ QueueOK
    BY DEF IInv
  <2>3. n \in 1 .. Len(w) + 1 /\ submitted[p] \in Nat /\ submitted[p] <= Len(w) /\ Len(w) \in Nat
    BY <2>2, PosBounds
  <2> QED BY <1>2, <2>1, <2>3
<1>4. /\ mb \in Nat /\ cb \in Nat /\ MainBase(w, p, n) \in Nat
      /\ n < i => MainBase(w, p, n) + MainLen(w[n], p) <= mb
      /\ i < n => mb + MainLen(w[i], p) <= MainBase(w, p, n)
  BY <1>3, BaseFacts DEF IInv
<1>5. MainLen(w[i], p) = 2 * size + 1
  BY <1>2 DEF MainLen
<1>6. /\ done[p]["copy"] \in Nat /\ done[p]["main"] \in Nat /\ done[p]["main"] = MainBase(w, p, n) + e
      /\ n <= submitted[p] => e < MainLen(w[n], p)
  BY DEF IInv, FunctionsOK, Stream, Pos
<1>7. /\ \A x \in 0 .. size - 1 :
            done[p]["main"] >= mb + 2 * x + 1 => done[p]["copy"] >= cb + x + 1
      /\ done[p]["copy"] > cb => done[p]["main"] >= mb
  BY <1>2 DEF IInv, ForkOK
<1>8. j = 1 => done[p]["main"] >= mb
  <2> HAVE j = 1
  <2>1. <<"main", mb>> \in Running(p, "copy").waits
    BY <1>2 DEF IsCopyOp
  <2>2. Completed(p, "main") >= mb
    BY <2>1 DEF Ready
  <2> QED BY <2>2 DEF Completed
<1>9. Running(p, "copy").moves = StageMoves(w[i], p, i, {k})
  BY <1>2 DEF IsCopyOp
<1>a. done[p]["copy"] + 1 = cb + j /\ j \in Nat
  BY <1>2, <1>3
<1>b. w = workload[p] /\ cb = CopyBase(w, i) /\ size = w[i].size /\ k = j - 1
  OBVIOUS
<1>c. n < i => n <= submitted[p]
  BY <1>3
<1> HIDE DEF w, mb, cb, size
<1>10. done[p]["copy"] = cb + k
  BY <1>4, <1>6, <1>a
<1>11. done[p]["main"] >= mb
  BY <1>3, <1>4, <1>6, <1>7, <1>8, <1>10
<1>12. done[p]["main"] <= mb + 2 * k
  BY <1>3, <1>4, <1>6, <1>7, <1>10
<1>13. ~ n < i
  <2> SUFFICES ASSUME n < i PROVE FALSE
    OBVIOUS
  <2>1. e < MainLen(w[n], p) /\ MainBase(w, p, n) + MainLen(w[n], p) <= mb
    BY <1>4, <1>6, <1>c
  <2>2. MainLen(w[n], p) \in Nat
    BY <1>b, <1>3, CallFacts, ShapeFacts DEF IInv
  <2> QED BY <1>4, <1>6, <1>11, <2>1, <2>2
<1>14. ~ i < n
  <2> SUFFICES ASSUME i < n PROVE FALSE
    OBVIOUS
  <2>1. mb + (2 * size + 1) <= MainBase(w, p, n)
    BY <1>4, <1>5
  <2>2. MainBase(w, p, n) <= mb + 2 * k
    BY <1>4, <1>6, <1>12
  <2>3. k \in Nat /\ k <= size - 1
    BY <1>3
  <2> HIDE DEF k
  <2> QED BY <1>3, <1>4, <2>1, <2>2, <2>3
<1>15. n = i
  BY <1>3, <1>13, <1>14
<1>16. MainBase(w, p, n) = mb
  BY <1>15 DEF mb
<1>17. e <= 2 * k
  BY <1>3, <1>4, <1>6, <1>12, <1>16
<1> HIDE DEF k
<1> QED BY <1>2, <1>3, <1>9, <1>10, <1>15, <1>17, <1>b

\* While q copies between two barriers of a call, every member is in that call:
\* it waits in the first of the two barriers, or is between them as well.
LEMMA Window ==
    ASSUME IInv, NEW q \in Rank, NEW m \in Nat, NEW d \in Nat, Pos(q, m, d),
           Ready(q, "main"), Running(q, "main").kind = "copy",
           Passed(workload[q][m], q, d) \in 1 .. Bars(workload[q][m]) - 1,
           NEW p \in Members[workload[q][m].group], NEW n \in Nat, NEW e \in Nat, Pos(p, n, e)
    PROVE  /\ p \in Rank /\ n \in 1 .. Len(workload[p])
           /\ SameCall(workload, q, m, p, n) /\ workload[p][n] = workload[q][m]
           /\ \/ Passed(workload[p][n], p, e) = Passed(workload[q][m], q, d)
              \/ /\ Passed(workload[p][n], p, e) = Passed(workload[q][m], q, d) - 1
                 /\ Ready(p, "main") /\ Running(p, "main").kind = "barrier"
<1> DEFINE c == workload[q][m]
           b == Passed(c, q, d)
           v == workload[p]
           BB(x) == BarBase(v, x)
<1>0. workload \in Workloads /\ FunctionsOK /\ QueueOK
  BY DEF IInv
<1>1. /\ m \in 1 .. submitted[q] /\ m \in 1 .. Len(workload[q]) /\ c \in Call
  <2>1. done[q]["main"] < Len(queue[q]["main"])
    BY DEF Ready
  <2> QED BY <2>1, MainHead, Zenon
<1>2. p \in Rank
  BY <1>0, <1>1, CallFacts
<1>3. Bars(c) \in Nat /\ b \in Nat /\ 1 <= b /\ b < Bars(c) /\ b \in 1 .. Bars(c) /\ b + 1 \in 1 .. Bars(c)
  <2>1. Bars(c) \in Nat
    BY <1>1, ShapeFacts
  <2> QED BY <2>1
<1>4. BarBase(workload[q], m) \in Nat /\ departed[q] = BarBase(workload[q], m) + b
  <2>1. m \in 1 .. Len(workload[q]) + 1
    BY <1>1
  <2>2. BarBase(workload[q], m) \in Nat
    BY <1>0, <2>1, BaseFacts
  <2>3. Passed(c, q, 0) = 0
    BY <1>1, ShapeFacts
  <2> QED BY <1>3, <2>2, <2>3 DEF Pos
<1>5. arrived[q] = departed[q]
  BY DEF IInv, StreamOK, At
<1>6. Joins(q, m, p, b)
  <2>1. BarBase(workload[q], m) + b <= departed[q]
    BY <1>3, <1>4
  <2> QED BY <1>1, <1>3, <2>1 DEF IInv, JoinedOK
<1>7. PICK i \in 1 .. submitted[p] : SameCall(workload, q, m, p, i) /\ BB(i) + b <= arrived[p]
  BY <1>6 DEF Joins
<1>8. /\ submitted[p] \in Nat /\ submitted[p] <= Len(v) /\ Len(v) \in Nat
      /\ n \in 1 .. Len(v) + 1
  BY <1>0, <1>2, PosBounds
<1>9. i \in 1 .. Len(v) /\ i \in 1 .. Len(v) + 1
  BY <1>8
<1>10. v[i] = c /\ SameCall(workload, p, i, q, m) /\ q \in Members[c.group]
  <2>1. v[i] = c /\ SameCall(workload, p, i, q, m)
    BY <1>0, <1>1, <1>2, <1>7, <1>9, MateFacts
  <2>2. q \in Members[c.group]
    BY <1>0, <1>1, CallFacts
  <2> QED BY <2>1, <2>2
<1>11. arrived[p] \in Nat /\ departed[p] \in Nat /\ arrived[p] \in {departed[p], departed[p] + 1} /\ BB(i) \in Nat
  <2>1. BB(i) \in Nat
    BY <1>0, <1>2, <1>9, BaseFacts
  <2>2. arrived[p] \in Nat /\ departed[p] \in Nat /\ arrived[p] \in {departed[p], departed[p] + 1}
    BY <1>2 DEF IInv, FunctionsOK, StreamOK, At
  <2> QED BY <2>1, <2>2
<1>12. ~ BB(i) + (b + 1) <= departed[p]
  <2> SUFFICES ASSUME BB(i) + (b + 1) <= departed[p] PROVE FALSE
    OBVIOUS
  <2>1. Joins(p, i, q, b + 1)
    BY <1>2, <1>3, <1>10 DEF IInv, JoinedOK
  <2>2. PICK x \in 1 .. submitted[q] :
           SameCall(workload, p, i, q, x) /\ BarBase(workload[q], x) + (b + 1) <= arrived[q]
    BY <2>1 DEF Joins
  <2>3. x = m
    <3>1. /\ DOMAIN workload[q] = 1 .. Len(workload[q]) /\ Len(workload[q]) \in Nat
          /\ submitted[q] \in Nat /\ submitted[q] <= Len(workload[q])
      BY <1>0, CallFacts DEF FunctionsOK, QueueOK, Holds
    <3>2. x \in DOMAIN workload[q] /\ m \in DOMAIN workload[q]
      BY <1>1, <3>1
    <3>3. /\ workload[q][x].group = workload[q][m].group
          /\ Ordinal(workload[q], x) = Ordinal(workload[q], m)
      BY <1>10, <2>2 DEF SameCall
    <3> QED BY <3>1, <3>2, <3>3, OrdinalOrder
  <2> QED BY <1>3, <1>4, <1>5, <2>2, <2>3
<1>13. \/ departed[p] = BB(i) + b
       \/ departed[p] + 1 = BB(i) + b /\ arrived[p] # departed[p]
  BY <1>3, <1>7, <1>11, <1>12
<1>14. /\ i < n => BB(i) + Bars(v[i]) <= BB(n)
       /\ n < i => BB(n) + Bars(v[n]) <= BB(i)
       /\ BB(n) \in Nat
  BY <1>0, <1>2, <1>8, <1>9, BaseFacts
<1>15. CASE departed[p] = BB(i) + b
  <2>1. departed[p] = BB(n) + (IF e = 0 THEN 0 ELSE Passed(v[n], p, e))
    BY DEF Pos
  <2>2. n <= submitted[p] =>
           Passed(v[n], p, e) \in Nat /\ Passed(v[n], p, e) <= Bars(v[n]) /\ Passed(v[n], p, 0) = 0 /\ Bars(v[n]) \in Nat
    <3> HAVE n <= submitted[p]
    <3>1. n \in 1 .. Len(v)
      BY <1>8
    <3>2. v[n] \in Call
      BY <1>0, <1>2, <3>1, CallFacts
    <3>3. MainLen(v[n], p) \in Nat
      BY <3>2, ShapeFacts
    <3>4. e \in 0 .. MainLen(v[n], p)
      BY <3>3 DEF Pos
    <3> QED BY <3>2, <3>4, ShapeFacts
  <2>3. n > submitted[p] => e = 0
    BY <1>8 DEF Pos
  <2>4. departed[p] = BB(n) \/ (n <= submitted[p] /\ departed[p] = BB(n) + Passed(v[n], p, e))
    BY <1>8, <1>14, <2>1, <2>3
  <2>5. departed[p] >= BB(n)
    BY <1>14, <2>2, <2>4
  <2> HIDE DEF c, b, v, BB
  <2>6. ~ i < n
    BY <1>3, <1>10, <1>11, <1>14, <1>15, <2>5
  <2>7. ~ n < i
    <3> SUFFICES ASSUME n < i PROVE FALSE
      OBVIOUS
    <3>1. n <= submitted[p]
      BY <1>8
    <3>2. departed[p] <= BB(n) + Bars(v[n])
      BY <1>14, <2>2, <2>4, <3>1
    <3> QED BY <1>3, <1>11, <1>14, <1>15, <2>2, <3>1, <3>2
  <2>8. n = i
    BY <1>8, <1>9, <2>6, <2>7
  <2>9. n <= submitted[p]
    BY <1>8, <2>8
  <2>10. Passed(v[n], p, e) = b
    <3>1. e = 0 => Passed(v[n], p, e) = 0
      BY <2>2, <2>9
    <3>2. departed[p] = BB(n) + Passed(v[n], p, e)
      BY <1>14, <2>1, <2>2, <2>9, <3>1 DEF v, BB
    <3> QED BY <1>3, <1>11, <1>15, <2>2, <2>8, <2>9, <3>2
  <2> QED BY <1>2, <1>7, <1>9, <1>10, <2>8, <2>10 DEF c, b, v
<1>16. CASE departed[p] + 1 = BB(i) + b /\ arrived[p] # departed[p]
  <2>1. Ready(p, "main") /\ Running(p, "main").kind = "barrier"
    BY <1>2, <1>16 DEF IInv, StreamOK, At
  <2>2. /\ n \in 1 .. submitted[p]
        /\ Passed(v[n], p, e) + 1 \in 1 .. Bars(v[n])
        /\ departed[p] + 1 = BB(n) + (Passed(v[n], p, e) + 1)
        /\ v[n] \in Call /\ e + 1 \in 1 .. MainLen(v[n], p)
    BY <1>2, <2>1, InBarrier
  <2>3. Passed(v[n], p, e) \in Nat /\ Bars(v[n]) \in Nat
    <3>1. MainLen(v[n], p) \in Nat
      BY <2>2, ShapeFacts
    <3>2. e \in 0 .. MainLen(v[n], p)
      BY <2>2, <3>1
    <3> QED BY <2>2, <3>2, ShapeFacts
  <2> HIDE DEF c, b, v, BB
  <2>4. ~ i < n
    BY <1>3, <1>10, <1>11, <1>14, <1>16, <2>2, <2>3
  <2>5. ~ n < i
    BY <1>3, <1>11, <1>14, <1>16, <2>2, <2>3
  <2>6. n = i
    BY <1>8, <1>9, <2>4, <2>5
  <2>7. Passed(v[n], p, e) = b - 1
    BY <1>3, <1>11, <1>16, <2>2, <2>3, <2>6
  <2> QED BY <1>2, <1>7, <1>9, <1>10, <2>1, <2>6, <2>7 DEF c, b, v
<1> QED BY <1>13, <1>15, <1>16
\* The cells of distinct kinds, ranks and units are distinct.
LEMMA Cells ==
    ASSUME NEW p, NEW q, NEW n, NEW m, NEW u, NEW v
    PROVE  /\ Comm(p, u) = Comm(q, v) => p = q /\ u = v
           /\ Output(p, n, u) = Output(q, m, v) => p = q
           /\ Comm(p, u) # Output(q, m, v) /\ Comm(p, u) # Input(q, m, v)
           /\ Output(p, n, u) # Input(q, m, v)
<1>1. ASSUME Comm(p, u) = Comm(q, v) PROVE p = q /\ u = v
  BY <1>1 DEF Comm
<1>2. ASSUME Output(p, n, u) = Output(q, m, v) PROVE p = q
  BY <1>2 DEF Output
<1>3. Comm(p, u)[1] = "comm" /\ Output(q, m, v)[1] = "output" /\ Input(q, m, v)[1] = "input"
  BY DEF Comm, Output, Input
<1>4. Output(p, n, u)[1] = "output"
  BY DEF Output
<1>5. "comm" # "output" /\ "comm" # "input" /\ "output" # "input"
  OBVIOUS
<1>6. Comm(p, u) # Output(q, m, v) /\ Comm(p, u) # Input(q, m, v)
  BY <1>3, <1>5, Zenon
<1>7. Output(p, n, u) # Input(q, m, v)
  BY <1>3, <1>4, <1>5, Zenon
<1> QED BY <1>1, <1>2, <1>6, <1>7, Zenon

\* The places of two members' ranks in a group.
LEMMA Places ==
    ASSUME NEW g \in Group, NEW r \in Members[g]
    PROVE  /\ LocalIndex(g, r) \in Nat /\ LocalIndex(g, r) \in Peers(g)
           /\ PeerAt(g, LocalIndex(g, r)) = r
           /\ 0 \in Peers(g) /\ PeerAt(g, 0) \in Members[g]
<1>1. Len(GroupRanks[g]) \in Nat
  BY WorkloadsAssumption
<1>2. Members[g] = {PeerAt(g, i) : i \in Peers(g)}
  BY DEF Members
<1>3. \E i \in Peers(g) : PeerAt(g, i) = r
  BY <1>2
<1>4. LocalIndex(g, r) \in Peers(g) /\ PeerAt(g, LocalIndex(g, r)) = r
  BY <1>3, Zenon DEF LocalIndex
<1>5. LocalIndex(g, r) \in Nat /\ 0 \in Peers(g)
  <2> DEFINE l == LocalIndex(g, r)
  <2>1. l \in Peers(g)
    BY <1>4
  <2> HIDE DEF l
  <2>2. l \in Nat /\ 0 \in Peers(g)
    BY <1>1, <2>1 DEF Peers
  <2> QED BY <2>2 DEF l
<1> QED BY <1>2, <1>4, <1>5

\* Two chunks of the slices that a rank stages are made of different units.
LEMMA ChunksApart ==
    ASSUME NEW size \in Nat, NEW i \in Nat, NEW l \in Nat,
           NEW k \in 0 .. size - 1, NEW x \in 0 .. size - 1, k # x
    PROVE  i * size + k # l * size + x
<1>1. i * size \in Nat /\ l * size \in Nat
  OBVIOUS
<1>2. CASE i = l
  BY <1>1, <1>2
<1>3. ASSUME NEW a \in Nat, NEW b \in Nat, a < b PROVE a * size + size <= b * size
  <2>1. PICK e \in Nat : b = a + 1 + e
    <3> DEFINE e == b - a - 1
    <3>1. e \in Nat /\ b = a + 1 + e
      BY <1>3
    <3> QED BY <3>1
  <2>2. b * size = a * size + size + e * size
    BY <2>1
  <2>3. e * size \in Nat /\ a * size \in Nat
    OBVIOUS
  <2> QED BY <2>2, <2>3
<1>4. CASE i < l
  <2>1. i * size + size <= l * size
    BY <1>3, <1>4
  <2> QED BY <1>1, <2>1
<1>5. CASE l < i
  <2>1. l * size + size <= i * size
    BY <1>3, <1>5
  <2> QED BY <1>1, <2>1
<1> QED BY <1>2, <1>4, <1>5

\* What a move of the copy behind the first d operations of r's n-th call c
\* does: it stages a unit of the input, fetches one of a member's comm_buf,
\* puts one into the peer's, or takes one out of the rank's own.
Staging(c, r, n, d, mv) ==
    /\ d = 0 /\ ~ Piped(c)
    /\ \E u : mv.from = Input(r, n, u) /\ mv.to = Comm(r, u)
Fetching(c, r, n, d, mv) ==
    /\ Passed(c, r, d) \in 1 .. Bars(c) - 1
    /\ \E p \in Members[c.group] : \E v : \E y :
          /\ mv.from = Comm(p, v) /\ mv.to = Output(r, n, y)
          /\ Piped(c) =>
                \E x \in 0 .. c.size - 1 :
                   /\ d = 2 * x + 1 /\ Passed(c, r, d) = x + 1
                   /\ v = (IF c.op = "all2all" THEN LocalIndex(c.group, r) * c.size ELSE 0) + x
Putting(c, r, d, mv) ==
    /\ c.op = "put" /\ IsSource(c, r) /\ Passed(c, r, d) \in 1 .. Bars(c) - 1
    /\ \E x : mv.from = Comm(r, x) /\ mv.to = Comm(PeerAt(c.group, 1), x)
Taking(c, r, n, mv) ==
    /\ c.op = "put" /\ ~ IsSource(c, r)
    /\ \E x : mv.from = Comm(r, x) /\ mv.to = Output(r, n, x)

\* The moves of the main stream's copies.
LEMMA MovesKind ==
    ASSUME NEW c \in Call, NEW r \in Members[c.group], NEW n, NEW d \in 0 .. MainLen(c, r) - 1,
           NEW mv \in MovesAt(c, r, n, d + 1)
    PROVE  /\ ~ BarAt(c, r, d + 1)
           /\ \/ Staging(c, r, n, d, mv) \/ Fetching(c, r, n, d, mv)
              \/ Putting(c, r, d, mv) \/ Taking(c, r, n, mv)
<1>0. /\ c.size \in Nat \ {0} /\ c.op \in Op /\ c.group \in Group
      /\ MainLen(c, r) \in Nat
  BY ShapeFacts DEF Call
<1>1. ~ BarAt(c, r, d + 1)
  BY DEF MovesAt
<1>m. ASSUME NEW i \in Peers(c.group) PROVE PeerAt(c.group, i) \in Members[c.group]
  BY <1>0 DEF Members
<1>f. ASSUME ~ Piped(c), Passed(c, r, d) = 1, mv \in PullMoves(c, r, n, Slice(c)) \/ mv \in GetMoves(c, r, n)
      PROVE  Fetching(c, r, n, d, mv)
  <2>1. Passed(c, r, d) \in 1 .. Bars(c) - 1
    BY <1>f DEF Bars
  <2>2. \E p \in Members[c.group] : \E v : \E y : mv.from = Comm(p, v) /\ mv.to = Output(r, n, y)
    <3>1. CASE mv \in PullMoves(c, r, n, Slice(c))
      <4> DEFINE at == IF c.op = "all2all" THEN LocalIndex(c.group, r) * c.size ELSE 0
      <4>1. PICK i \in Peers(c.group) : \E x \in Slice(c) :
               mv = [from |-> Comm(PeerAt(c.group, i), at + x), to |-> Output(r, n, i * c.size + x)]
        BY <3>1 DEF PullMoves
      <4>2. PICK x \in Slice(c) :
               mv = [from |-> Comm(PeerAt(c.group, i), at + x), to |-> Output(r, n, i * c.size + x)]
        BY <4>1
      <4>3. mv.from = Comm(PeerAt(c.group, i), at + x) /\ mv.to = Output(r, n, i * c.size + x)
        BY <4>2
      <4> HIDE DEF at
      <4> QED BY <1>m, <4>3
    <3>2. CASE mv \in GetMoves(c, r, n)
      <4>1. PICK x \in Slice(c) : mv = [from |-> Comm(PeerAt(c.group, 0), x), to |-> Output(r, n, x)]
        BY <3>2 DEF GetMoves
      <4>2. PeerAt(c.group, 0) \in Members[c.group]
        BY <1>0, Places
      <4> QED BY <4>1, <4>2
    <3> QED BY <1>f, <3>1, <3>2
  <2> QED BY <1>f, <2>1, <2>2 DEF Fetching
<1>s. ASSUME d = 0, ~ Piped(c), mv \in StageMoves(c, r, n, Slice(c)) PROVE Staging(c, r, n, d, mv)
  <2>1. \E u : mv = [from |-> Input(r, n, u), to |-> Comm(r, u)]
    BY <1>s DEF StageMoves
  <2> QED BY <1>s, <2>1 DEF Staging
<1>2. CASE Piped(c)
  <2>1. /\ MainLen(c, r) = 2 * c.size + 1 /\ Bars(c) = c.size + 1
        /\ Passed(c, r, d) = (d + 1) \div 2 /\ (d + 1) % 2 # 1
        /\ mv \in PullMoves(c, r, n, {(d + 1) \div 2 - 1})
    BY <1>1, <1>2 DEF MainLen, Bars, Passed, BarAt, MovesAt
  <2> DEFINE x == (d + 1) \div 2 - 1
             at == IF c.op = "all2all" THEN LocalIndex(c.group, r) * c.size ELSE 0
             size == c.size
  <2>2. x \in 0 .. size - 1 /\ d = 2 * x + 1 /\ (d + 1) \div 2 = x + 1 /\ d \in Nat
    <3>1. size \in Nat /\ d \in 0 .. 2 * size /\ (d + 1) % 2 # 1
      BY <1>0, <2>1
    <3> HIDE DEF size
    <3> QED BY <3>1
  <2>3. PICK i \in Peers(c.group) :
           mv = [from |-> Comm(PeerAt(c.group, i), at + x), to |-> Output(r, n, i * c.size + x)]
    BY <2>1 DEF PullMoves
  <2>4. Passed(c, r, d) = x + 1
    BY <2>1, <2>2
  <2>5. mv.from = Comm(PeerAt(c.group, i), at + x) /\ mv.to = Output(r, n, i * c.size + x)
    BY <2>3
  <2>6. PeerAt(c.group, i) \in Members[c.group]
    BY <1>m
  <2> HIDE DEF x
  <2>7. Passed(c, r, d) \in 1 .. Bars(c) - 1
    BY <1>0, <2>1, <2>2, <2>4
  <2>8. \E z \in 0 .. c.size - 1 :
           /\ d = 2 * z + 1 /\ Passed(c, r, d) = z + 1
           /\ at + x = at + z
    BY <2>2, <2>4
  <2>9. Fetching(c, r, n, d, mv)
    BY <2>5, <2>6, <2>7, <2>8 DEF Fetching
  <2> QED BY <1>1, <2>9
<1>3. CASE ~ Piped(c) /\ ~ IsP2P(c)
  <2>1. d \in {0, 2}
    BY <1>0, <1>1, <1>3 DEF MainLen, BarAt
  <2>2. CASE d = 0
    <3>1. mv \in StageMoves(c, r, n, Slice(c))
      BY <1>1, <1>3, <2>2 DEF MovesAt
    <3> QED BY <1>1, <1>3, <1>s, <2>2, <3>1
  <2>3. CASE d = 2
    <3>1. mv \in PullMoves(c, r, n, Slice(c)) /\ Passed(c, r, d) = 1
      BY <1>1, <1>3, <2>3 DEF MovesAt, Passed
    <3> QED BY <1>1, <1>3, <1>f, <3>1
  <2> QED BY <2>1, <2>2, <2>3
<1>4. CASE IsP2P(c) /\ IsSource(c, r)
  <2>0. ~ Piped(c)
    BY <1>4 DEF Piped
  <2>1. d = 0 \/ (d = 2 /\ c.op = "put")
    BY <1>0, <1>1, <1>4, <2>0 DEF MainLen, BarAt, IsP2P
  <2>2. CASE d = 0
    <3>1. mv \in StageMoves(c, r, n, Slice(c))
      BY <1>1, <1>4, <2>0, <2>2 DEF MovesAt
    <3> QED BY <1>1, <1>s, <2>0, <2>2, <3>1
  <2>3. CASE d = 2 /\ c.op = "put"
    <3>1. mv \in PutMoves(c, r) /\ Passed(c, r, d) = 1 /\ Bars(c) = 2
      BY <1>1, <1>4, <2>0, <2>3 DEF MovesAt, Passed, Bars
    <3>2. \E x : mv.from = Comm(r, x) /\ mv.to = Comm(PeerAt(c.group, 1), x)
      BY <3>1 DEF PutMoves
    <3>3. Putting(c, r, d, mv)
      BY <1>4, <2>3, <3>1, <3>2 DEF Putting
    <3> QED BY <1>1, <3>3
  <2> QED BY <2>1, <2>2, <2>3
<1>5. CASE IsP2P(c) /\ ~ IsSource(c, r)
  <2>0. ~ Piped(c) /\ c.op \in {"put", "get"}
    BY <1>5 DEF Piped, IsP2P
  <2>1. (d = 2 /\ c.op = "put") \/ (d = 1 /\ c.op = "get")
    BY <1>0, <1>1, <1>5, <2>0 DEF MainLen, BarAt
  <2>2. CASE d = 1 /\ c.op = "get"
    <3>1. mv \in GetMoves(c, r, n) /\ Passed(c, r, d) = 1
      BY <1>1, <1>5, <2>0, <2>2 DEF MovesAt, Passed
    <3> QED BY <1>1, <1>f, <2>0, <3>1
  <2>3. CASE d = 2 /\ c.op = "put"
    <3>1. mv \in OutMoves(c, r, n)
      BY <1>1, <1>5, <2>0, <2>3 DEF MovesAt
    <3>2. \E x : mv.from = Comm(r, x) /\ mv.to = Output(r, n, x)
      BY <3>1 DEF OutMoves
    <3>3. Taking(c, r, n, mv)
      BY <1>5, <2>3, <3>2 DEF Taking
    <3> QED BY <1>1, <3>3
  <2> QED BY <2>1, <2>2, <2>3
<1>6. ~ Piped(c) \/ Piped(c)
  OBVIOUS
<1> QED BY <1>2, <1>3, <1>4, <1>5

\* The rank whose main stream can run a copy, at its place in its call.
LEMMA MainMoves ==
    ASSUME IInv, NEW r \in Rank, Ready(r, "main"), NEW n \in Nat, NEW d \in Nat, Pos(r, n, d),
           NEW mv \in Running(r, "main").moves
    PROVE  /\ n \in 1 .. Len(workload[r]) /\ workload[r][n] \in Call
           /\ Running(r, "main").kind = "copy" /\ ~ BarAt(workload[r][n], r, d + 1)
           /\ \/ Staging(workload[r][n], r, n, d, mv) \/ Fetching(workload[r][n], r, n, d, mv)
              \/ Putting(workload[r][n], r, d, mv) \/ Taking(workload[r][n], r, n, mv)
<1> DEFINE c == workload[r][n]
<1>1. done[r]["main"] < Len(queue[r]["main"])
  BY DEF Ready
<1>2. /\ n \in 1 .. Len(workload[r]) /\ c \in Call /\ d \in 0 .. MainLen(c, r) - 1
      /\ IsMainOp(Running(r, "main"), c, r, n, d + 1, CopyBase(workload[r], n))
  BY <1>1, MainHead
<1>3. r \in Members[c.group]
  BY <1>2, CallFacts DEF IInv
<1>4. Running(r, "main").moves = MovesAt(c, r, n, d + 1)
  BY <1>2 DEF IsMainOp
<1>5. Running(r, "main").kind = IF BarAt(c, r, d + 1) THEN "barrier" ELSE "copy"
  BY <1>2 DEF IsMainOp
<1> HIDE DEF c
<1>6. mv \in MovesAt(c, r, n, d + 1)
  BY <1>4
<1>7. /\ ~ BarAt(c, r, d + 1)
      /\ Staging(c, r, n, d, mv) \/ Fetching(c, r, n, d, mv) \/ Putting(c, r, d, mv) \/ Taking(c, r, n, mv)
  BY <1>2, <1>3, <1>6, MovesKind
<1> QED BY <1>2, <1>5, <1>7 DEF c

\* A copy stages its chunk, behind what the main stream has pulled.
LEMMA CopyMoves ==
    ASSUME IInv, NEW p \in Rank, Ready(p, "copy"), NEW n \in Nat, NEW e \in Nat, Pos(p, n, e),
           NEW mv \in Running(p, "copy").moves
    PROVE  LET c == workload[p][n] IN
           /\ n \in 1 .. Len(workload[p]) /\ c \in Call /\ Piped(c)
           /\ \E k \in 0 .. c.size - 1 : \E i \in Nat :
                 /\ e <= 2 * k
                 /\ done[p]["copy"] = CopyBase(workload[p], n) + k
                 /\ \E u : /\ mv.from = Input(p, n, u) /\ mv.to = Comm(p, u)
                           /\ u = IF c.op = "all2all" THEN i * c.size + k ELSE k
<1> DEFINE c == workload[p][n]
<1>1. n \in 1 .. Len(workload[p]) /\ c \in Call /\ Piped(c)
  BY CopyPos
<1>2. PICK k \in 0 .. c.size - 1 :
         /\ e <= 2 * k
         /\ done[p]["copy"] = CopyBase(workload[p], n) + k
         /\ Running(p, "copy").moves = StageMoves(c, p, n, {k})
  BY CopyPos
<1> HIDE DEF c
<1>3. PICK u \in IF c.op = "all2all" THEN {i * c.size + x : i \in Peers(c.group), x \in {k}} ELSE {k} :
         mv = [from |-> Input(p, n, u), to |-> Comm(p, u)]
  BY <1>2 DEF StageMoves
<1>4. mv.from = Input(p, n, u) /\ mv.to = Comm(p, u)
  BY <1>3
<1>5. \E i \in Nat : u = IF c.op = "all2all" THEN i * c.size + k ELSE k
  <2>1. CASE c.op = "all2all"
    <3>1. PICK i \in Peers(c.group) : u = i * c.size + k
      BY <1>3, <2>1
    <3>2. Len(GroupRanks[c.group]) \in Nat
      BY <1>1, WorkloadsAssumption DEF Call
    <3>3. i \in Nat
      BY <3>2 DEF Peers
    <3> QED BY <2>1, <3>1, <3>3
  <2>2. CASE c.op # "all2all"
    <3>1. u = k /\ 0 \in Nat
      BY <1>3, <2>2
    <3> QED BY <2>2, <3>1
  <2> QED BY <2>1, <2>2
<1>6. PICK i \in Nat : u = IF c.op = "all2all" THEN i * c.size + k ELSE k
  BY <1>5
<1> QED BY <1>1, <1>2, <1>4, <1>6 DEF c

\* mv reads or writes the cell.
Touches(mv, cell) == mv.to = cell \/ mv.from = cell

\* A main stream that reaches into another rank's comm_buf is between two
\* barriers of a call that this rank takes part in.
LEMMA Reach ==
    ASSUME IInv, NEW q \in Rank, Ready(q, "main"), NEW m \in Nat, NEW d \in Nat, Pos(q, m, d),
           NEW mv \in Running(q, "main").moves, NEW p, p # q, NEW u, Touches(mv, Comm(p, u))
    PROVE  LET c == workload[q][m] IN
           /\ m \in 1 .. Len(workload[q]) /\ c \in Call
           /\ Running(q, "main").kind = "copy" /\ Passed(c, q, d) \in 1 .. Bars(c) - 1
           /\ p \in Members[c.group]
           /\ \/ Fetching(c, q, m, d, mv) /\ mv.from = Comm(p, u)
              \/ Putting(c, q, d, mv) /\ p = PeerAt(c.group, 1) /\ mv.to = Comm(p, u)
<1> DEFINE c == workload[q][m]
<1>1. /\ m \in 1 .. Len(workload[q]) /\ c \in Call /\ Running(q, "main").kind = "copy"
      /\ Staging(c, q, m, d, mv) \/ Fetching(c, q, m, d, mv) \/ Putting(c, q, d, mv) \/ Taking(c, q, m, mv)
  BY MainMoves
<1>p. c.op = "put" => PeerAt(c.group, 1) \in Members[c.group]
  <2> HAVE c.op = "put"
  <2>1. Len(GroupRanks[c.group]) = 2
    <3>1. m \in DOMAIN workload[q] /\ workload \in Workloads
      BY <1>1, CallFacts DEF IInv
    <3> QED BY <3>1, PairsAssumption
  <2>2. 1 \in Peers(c.group) /\ c.group \in Group
    BY <1>1, <2>1 DEF Peers, Call
  <2> QED BY <2>2 DEF Members
<1> HIDE DEF c
<1>2. ASSUME Staging(c, q, m, d, mv) PROVE FALSE
  <2>1. PICK x : mv.from = Input(q, m, x) /\ mv.to = Comm(q, x)
    BY <1>2 DEF Staging
  <2> QED BY <2>1, Cells DEF Touches
<1>3. ASSUME Taking(c, q, m, mv) PROVE FALSE
  <2>1. PICK x : mv.from = Comm(q, x) /\ mv.to = Output(q, m, x)
    BY <1>3 DEF Taking
  <2> QED BY <2>1, Cells DEF Touches
<1>4. CASE Fetching(c, q, m, d, mv)
  <2>1. PICK z \in Members[c.group] : \E v : \E y : mv.from = Comm(z, v) /\ mv.to = Output(q, m, y)
    BY <1>4 DEF Fetching
  <2>2. PICK v : \E y : mv.from = Comm(z, v) /\ mv.to = Output(q, m, y)
    BY <2>1
  <2>3. mv.from = Comm(p, u)
    BY <2>2, Cells DEF Touches
  <2>4. p \in Members[c.group]
    <3>1. Comm(z, v) = Comm(p, u)
      BY <2>2, <2>3
    <3>2. z = p
      BY <3>1, Cells
    <3> QED BY <3>2
  <2>5. Passed(c, q, d) \in 1 .. Bars(c) - 1
    BY <1>4 DEF Fetching
  <2> QED BY <1>1, <1>4, <2>3, <2>4, <2>5 DEF c
<1>5. CASE Putting(c, q, d, mv)
  <2>1. PICK x : mv.from = Comm(q, x) /\ mv.to = Comm(PeerAt(c.group, 1), x)
    BY <1>5 DEF Putting
  <2>2. p = PeerAt(c.group, 1) /\ mv.to = Comm(p, u)
    BY <2>1, Cells DEF Touches
  <2>3. c.op = "put" /\ Passed(c, q, d) \in 1 .. Bars(c) - 1
    BY <1>5 DEF Putting
  <2>4. p \in Members[c.group]
    BY <1>p, <2>2, <2>3
  <2> QED BY <1>1, <1>5, <2>2, <2>3, <2>4 DEF c
<1> QED BY <1>1, <1>2, <1>3, <1>4, <1>5

\* Every main stream stands somewhere.
LEMMA Standing == ASSUME IInv, NEW r \in Rank PROVE \E n \in Nat : \E d \in Nat : Pos(r, n, d)
  BY DEF IInv, StreamOK, At

\* A copy stream moves its own input to its own comm_buf.
LEMMA CopyWrites ==
    ASSUME IInv, NEW q \in Rank, Ready(q, "copy"), NEW m \in Nat, NEW d \in Nat, Pos(q, m, d),
           NEW k \in Running(q, "copy").moves
    PROVE  \E y : k.from = Input(q, m, y) /\ k.to = Comm(q, y)
<1>1. PICK x \in 0 .. workload[q][m].size - 1 : \E i \in Nat :
         \E y : k.from = Input(q, m, y) /\ k.to = Comm(q, y)
  BY CopyMoves
<1> QED BY <1>1

\* A copy stream touches its own rank's comm_buf only, in a pipelined call.
LEMMA CopyTouches ==
    ASSUME IInv, NEW q \in Rank, Ready(q, "copy"), NEW m \in Nat, NEW d \in Nat, Pos(q, m, d),
           NEW k \in Running(q, "copy").moves, NEW p, NEW u, Touches(k, Comm(p, u))
    PROVE  p = q /\ Piped(workload[q][m])
<1> DEFINE c == workload[q][m]
<1>1. Piped(c)
  BY CopyMoves
<1>2. PICK y : k.from = Input(q, m, y) /\ k.to = Comm(q, y)
  BY CopyWrites
<1>3. Comm(q, y) = Comm(p, u)
  BY <1>2, Cells DEF Touches
<1>4. q = p
  BY <1>3, Cells
<1> QED BY <1>1, <1>4

\* While a main stream stages a whole call, no other copy touches the comm_buf.
LEMMA StageAlone ==
    ASSUME IInv, NEW p \in Rank, Ready(p, "main"), NEW n \in Nat, NEW e \in Nat, Pos(p, n, e),
           NEW mv \in Running(p, "main").moves, Staging(workload[p][n], p, n, e, mv),
           NEW q \in Rank, NEW t \in Stream, Ready(q, t), <<p, "main">> # <<q, t>>,
           NEW k \in Running(q, t).moves
    PROVE  ~ Touches(k, mv.to)
<1> DEFINE c == workload[p][n]
<1>1. PICK u : mv.to = Comm(p, u)
  BY DEF Staging
<1>2. e = 0 /\ ~ Piped(c)
  BY DEF Staging
<1>3. n \in 1 .. Len(workload[p]) /\ c \in Call /\ Running(p, "main").kind = "copy"
  BY MainMoves
<1>4. Passed(c, p, e) = 0
  BY <1>2, <1>3, ShapeFacts
<1>5. PICK m \in Nat : \E d \in Nat : Pos(q, m, d)
  BY Standing
<1>6. PICK d \in Nat : Pos(q, m, d)
  BY <1>5
<1> SUFFICES ASSUME Touches(k, Comm(p, u)) PROVE FALSE
  BY <1>1
<1>7. CASE t = "copy"
  <2>1. p = q /\ Piped(workload[q][m])
    BY <1>6, <1>7, CopyTouches
  <2>2. Piped(workload[p][n])
    <3>1. Ready(p, "copy")
      BY <1>7, <2>1
    <3> QED BY <3>1, CopyPos
  <2> QED BY <1>2, <2>2
<1>8. CASE t = "main"
  <2>1. p # q
    BY <1>8
  <2> DEFINE a == workload[q][m]
             b == Passed(a, q, d)
  <2>2. /\ a \in Call /\ Running(q, "main").kind = "copy" /\ b \in 1 .. Bars(a) - 1
        /\ p \in Members[a.group]
    BY <1>6, <1>8, <2>1, Reach
  <2>3. Passed(c, p, e) = b \/ (Passed(c, p, e) = b - 1 /\ Running(p, "main").kind = "barrier")
    BY <1>6, <1>8, <2>2, Window
  <2> HIDE DEF b
  <2>4. Passed(c, p, e) = b
    BY <1>3, <2>3
  <2> QED BY <1>4, <2>2, <2>4
<1> QED BY <1>7, <1>8 DEF Stream

\* Unit u of a staged slice is in chunk x of it.
InChunk(c, x, u) ==
    /\ x \in 0 .. c.size - 1
    /\ \E i \in Nat : u = IF c.op = "all2all" THEN i * c.size + x ELSE x

\* A pull of the same call that touches a unit of chunk x is that of chunk x.
LEMMA FetchUnit ==
    ASSUME NEW c, NEW r, NEW m, NEW d, NEW k, NEW x, NEW u, NEW p,
           c \in Call, Piped(c), r \in Members[c.group],
           Fetching(c, r, m, d, k), InChunk(c, x, u), Touches(k, Comm(p, u))
    PROVE  d = 2 * x + 1 /\ Passed(c, r, d) = x + 1
<1> DEFINE l == LocalIndex(c.group, r)
           at == IF c.op = "all2all" THEN l * c.size ELSE 0
<1>a. x \in 0 .. c.size - 1
  BY DEF InChunk
<1>0. PICK i \in Nat : u = IF c.op = "all2all" THEN i * c.size + x ELSE x
  BY DEF InChunk
<1>1. PICK q \in Members[c.group] : \E v : \E y :
         /\ k.from = Comm(q, v) /\ k.to = Output(r, m, y)
         /\ \E z \in 0 .. c.size - 1 : d = 2 * z + 1 /\ Passed(c, r, d) = z + 1 /\ v = at + z
  BY DEF Fetching
<1>2. PICK v : \E y :
         /\ k.from = Comm(q, v) /\ k.to = Output(r, m, y)
         /\ \E z \in 0 .. c.size - 1 : d = 2 * z + 1 /\ Passed(c, r, d) = z + 1 /\ v = at + z
  BY <1>1
<1>3. PICK z \in 0 .. c.size - 1 : d = 2 * z + 1 /\ Passed(c, r, d) = z + 1 /\ v = at + z
  BY <1>2
<1>4. c.size \in Nat /\ l \in Nat
  <2>1. c.size \in Nat /\ c.group \in Group
    BY DEF Call
  <2> QED BY <2>1, Places
<1>5. v = u
  <2>1. Comm(p, u) = Comm(q, v)
    BY <1>2, Cells DEF Touches
  <2> QED BY <2>1, Cells
<1> HIDE DEF l
<1>6. z = x
  <2>1. CASE c.op = "all2all"
    <3>1. i * c.size + x = l * c.size + z
      BY <1>0, <1>3, <1>5, <2>1
    <3> DEFINE size == c.size
    <3>2. size \in Nat /\ x \in 0 .. size - 1 /\ z \in 0 .. size - 1 /\ i * size + x = l * size + z
      BY <1>a, <1>3, <1>4, <3>1
    <3> HIDE DEF size
    <3> QED BY <1>4, <3>2, ChunksApart
  <2>2. CASE c.op # "all2all"
    BY <1>a, <1>0, <1>3, <1>4, <1>5, <2>2
  <2> QED BY <2>1, <2>2
<1> QED BY <1>3, <1>6

\* While the copy stream stages a chunk, no other copy touches its cells.
LEMMA ChunkAlone ==
    ASSUME IInv, NEW p \in Rank, Ready(p, "copy"), NEW mv \in Running(p, "copy").moves,
           NEW q \in Rank, NEW t \in Stream, Ready(q, t), <<p, "copy">> # <<q, t>>,
           NEW k \in Running(q, t).moves
    PROVE  ~ Touches(k, mv.to)
<1>1. PICK n \in Nat : \E e \in Nat : Pos(p, n, e)
  BY Standing
<1>2. PICK e \in Nat : Pos(p, n, e)
  BY <1>1
<1> DEFINE c == workload[p][n]
<1>3. n \in 1 .. Len(workload[p]) /\ c \in Call /\ Piped(c)
  BY <1>2, CopyMoves
<1>4. PICK x \in 0 .. c.size - 1 : \E i \in Nat :
         /\ e <= 2 * x
         /\ done[p]["copy"] = CopyBase(workload[p], n) + x
         /\ \E u : /\ mv.from = Input(p, n, u) /\ mv.to = Comm(p, u)
                   /\ u = IF c.op = "all2all" THEN i * c.size + x ELSE x
  BY <1>2, CopyMoves
<1>5. PICK i \in Nat :
         /\ e <= 2 * x
         /\ done[p]["copy"] = CopyBase(workload[p], n) + x
         /\ \E u : /\ mv.from = Input(p, n, u) /\ mv.to = Comm(p, u)
                   /\ u = IF c.op = "all2all" THEN i * c.size + x ELSE x
  BY <1>4
<1>6. PICK u : mv.to = Comm(p, u) /\ u = IF c.op = "all2all" THEN i * c.size + x ELSE x
  BY <1>5
<1>7. c.size \in Nat /\ c.op \in Op /\ c.group \in Group
  BY <1>3 DEF Call
<1>8. PICK m \in Nat : \E d \in Nat : Pos(q, m, d)
  BY Standing
<1>9. PICK d \in Nat : Pos(q, m, d)
  BY <1>8
<1> SUFFICES ASSUME Touches(k, Comm(p, u)) PROVE FALSE
  BY <1>6
<1>10. CASE t = "copy"
  <2>1. p = q
    BY <1>9, <1>10, CopyTouches
  <2> QED BY <1>10, <2>1
<1>11. ASSUME t = "main", c.op = "put" PROVE FALSE
  BY <1>3, <1>11 DEF Piped, IsP2P
<1>12. ASSUME NEW r \in Members[c.group], NEW y, NEW z, Fetching(c, r, y, z, k)
       PROVE  z = 2 * x + 1 /\ Passed(c, r, z) = x + 1
  <2>1. c \in Call /\ Piped(c)
    BY <1>3
  <2>2. InChunk(c, x, u)
    BY <1>4, <1>6 DEF InChunk
  <2>3. Touches(k, Comm(p, u))
    OBVIOUS
  <2> HIDE DEF c
  <2> QED BY <1>12, <2>1, <2>2, <2>3, FetchUnit
<1>13. CASE t = "main" /\ q = p
  <2>1. Ready(p, "main") /\ k \in Running(p, "main").moves
    BY <1>13
  <2>2. Staging(c, p, n, e, k) \/ Fetching(c, p, n, e, k) \/ Putting(c, p, e, k) \/ Taking(c, p, n, k)
    BY <1>2, <2>1, MainMoves
  <2>3. Fetching(c, p, n, e, k)
    BY <1>3, <1>11, <1>13, <2>2 DEF Staging, Putting, Taking
  <2>4. p \in Members[c.group]
    BY <1>3, CallFacts DEF IInv
  <2> HIDE DEF c
  <2>5. e = 2 * x + 1
    BY <1>12, <2>3, <2>4, Zenon
  <2> QED BY <1>5, <1>7, <2>5
<1>14. CASE t = "main" /\ q # p
  <2> DEFINE a == workload[q][m]
             b == Passed(a, q, d)
  <2>1. Ready(q, "main") /\ k \in Running(q, "main").moves
    BY <1>14
  <2>2. /\ a \in Call /\ Running(q, "main").kind = "copy" /\ b \in 1 .. Bars(a) - 1
        /\ p \in Members[a.group] /\ m \in 1 .. Len(workload[q])
        /\ Fetching(a, q, m, d, k) \/ Putting(a, q, d, k)
    BY <1>9, <1>14, <2>1, Reach
  <2>3. /\ c = a
        /\ \/ Passed(c, p, e) = b
           \/ Passed(c, p, e) = b - 1 /\ Ready(p, "main") /\ Running(p, "main").kind = "barrier"
    BY <1>2, <1>9, <2>1, <2>2, Window
  <2>4. Fetching(c, q, m, d, k)
    BY <1>11, <1>14, <2>2, <2>3 DEF Putting
  <2>5. q \in Members[c.group]
    BY <2>2, <2>3, CallFacts DEF IInv
  <2> HIDE DEF a
  <2>6. b = Passed(c, q, d)
    BY <2>3
  <2> HIDE DEF b
  <2>7. Passed(c, p, e) = (e + 1) \div 2
    BY <1>3 DEF Passed
  <2>8. Ready(p, "main") /\ Running(p, "main").kind = "barrier" => (e + 1) \div 2 # x
    <3> SUFFICES ASSUME Ready(p, "main"), Running(p, "main").kind = "barrier", (e + 1) \div 2 = x
                 PROVE  FALSE
      OBVIOUS
    <3>1. done[p]["main"] < Len(queue[p]["main"])
      BY DEF Ready
    <3>2. IsMainOp(Running(p, "main"), c, p, n, e + 1, CopyBase(workload[p], n))
      BY <1>2, <3>1, MainHead
    <3>3. BarAt(c, p, e + 1)
      BY <3>2 DEF IsMainOp
    <3>4. e + 1 <= 2 * c.size
      BY <1>5, <1>7
    <3>5. <<"copy", CopyBase(workload[p], n) + (e + 1) \div 2 + 1>> \in Running(p, "main").waits
      BY <1>3, <3>2, <3>3, <3>4 DEF IsMainOp
    <3>6. Completed(p, "copy") >= CopyBase(workload[p], n) + x + 1
      BY <3>4, <3>5 DEF Ready
    <3>7. done[p]["copy"] >= CopyBase(workload[p], n) + x + 1
      BY <3>6 DEF Completed
    <3>8. CopyBase(workload[p], n) \in Nat
      <4>1. n \in 1 .. Len(workload[p]) + 1
        BY <1>3, CallFacts DEF IInv
      <4> QED BY <4>1, BaseFacts DEF IInv
    <3> QED BY <1>5, <1>7, <3>7, <3>8
  <2> HIDE DEF c
  <2>9. b = x + 1
    BY <1>12, <2>4, <2>5, <2>6, Zenon
  <2>10. (e + 1) \div 2 # x + 1
    BY <1>5, <1>7
  <2>11. b - 1 = x
    BY <1>7, <2>9
  <2> QED BY <2>3, <2>7, <2>8, <2>9, <2>10, <2>11
<1> QED BY <1>10, <1>13, <1>14 DEF Stream

\* While a source puts into its peer's comm_buf, no other copy touches this one:
\* the peer takes its own out behind the second barrier.
LEMMA PutAlone ==
    ASSUME IInv, NEW q \in Rank, Ready(q, "main"), NEW m \in Nat, NEW d \in Nat, Pos(q, m, d),
           NEW mv \in Running(q, "main").moves, Putting(workload[q][m], q, d, mv),
           NEW s \in Rank, NEW t \in Stream, Ready(s, t), <<q, "main">> # <<s, t>>,
           NEW k \in Running(s, t).moves
    PROVE  ~ Touches(k, mv.to)
<1> DEFINE c == workload[q][m]
           g == c.group
           p == PeerAt(g, 1)
<1>1. PICK u : mv.to = Comm(p, u)
  BY DEF Putting
<1>2. /\ c.op = "put" /\ IsSource(c, q) /\ Passed(c, q, d) \in 1 .. Bars(c) - 1
  BY DEF Putting
<1>3. m \in 1 .. Len(workload[q]) /\ c \in Call /\ Running(q, "main").kind = "copy"
  BY MainMoves
<1>4. Len(GroupRanks[g]) = 2 /\ g \in Group
  <2>1. m \in DOMAIN workload[q] /\ workload \in Workloads
    BY <1>3, CallFacts DEF IInv
  <2>2. Len(GroupRanks[g]) = 2
    BY <1>2, <2>1, PairsAssumption
  <2> QED BY <1>3, <2>2 DEF Call
<1>5. Peers(g) = {0, 1} /\ Members[g] = {PeerAt(g, 0), p}
  <2>1. Peers(g) = {0, 1}
    BY <1>4 DEF Peers
  <2> QED BY <1>4, <2>1 DEF Members
<1>6. p \in Members[g] /\ q \in Members[g] /\ p \in Rank
  BY <1>3, <1>5, CallFacts DEF IInv
<1>7. q = PeerAt(g, 0) /\ p # q
  <2>1. PeerAt(g, 0) = q
    BY <1>2, <1>4, <1>6, Places DEF IsSource
  <2> QED BY <1>4, <1>5, <2>1, GroupsAssumption
<1>8. ~ IsSource(c, p)
  <2> SUFFICES ASSUME IsSource(c, p) PROVE FALSE
    OBVIOUS
  <2>1. PeerAt(g, 0) = p
    BY <1>4, <1>6, Places DEF IsSource
  <2> QED BY <1>7, <2>1
<1>9. PICK n \in Nat : \E e \in Nat : Pos(p, n, e)
  BY <1>6, Standing
<1>10. PICK e \in Nat : Pos(p, n, e)
  BY <1>9
<1>11. /\ n \in 1 .. Len(workload[p]) /\ workload[p][n] = c
       /\ \/ Passed(c, p, e) = Passed(c, q, d)
          \/ Passed(c, p, e) = Passed(c, q, d) - 1 /\ Running(p, "main").kind = "barrier"
  <2>1. p \in Members[workload[q][m].group] /\ Passed(workload[q][m], q, d) \in 1 .. Bars(workload[q][m]) - 1
    BY <1>2, <1>6
  <2> HIDE DEF p
  <2>2. /\ n \in 1 .. Len(workload[p]) /\ workload[p][n] = workload[q][m]
        /\ \/ Passed(workload[p][n], p, e) = Passed(workload[q][m], q, d)
           \/ Passed(workload[p][n], p, e) = Passed(workload[q][m], q, d) - 1
              /\ Running(p, "main").kind = "barrier"
    BY <1>3, <1>10, <2>1, Window
  <2> QED BY <2>2
<1>12. ~ Piped(c) /\ Bars(c) = 2 /\ Passed(c, q, d) = 1
  BY <1>2 DEF Piped, IsP2P, Bars
<1>13. PICK x \in Nat : \E y \in Nat : Pos(s, x, y)
  BY Standing
<1>14. PICK y \in Nat : Pos(s, x, y)
  BY <1>13
<1> SUFFICES ASSUME Touches(k, Comm(p, u)) PROVE FALSE
  BY <1>1
<1> HIDE DEF p, g, c
<1>15. CASE t = "copy"
  <2>1. p = s
    BY <1>14, <1>15, CopyTouches
  <2>2. Piped(workload[p][n])
    BY <1>10, <1>15, <2>1, CopyPos
  <2> QED BY <1>11, <1>12, <2>2
<1>16. CASE t = "main" /\ s = p
  <2>1. Ready(p, "main") /\ k \in Running(p, "main").moves
    BY <1>16
  <2>2. ~ BarAt(workload[p][n], p, e + 1) /\ Running(p, "main").kind = "copy"
    BY <1>6, <1>10, <2>1, MainMoves
  <2>3. ~ BarAt(c, p, e + 1) /\ Passed(c, p, e) = 1
    BY <1>11, <1>12, <2>2
  <2>4. e = 1
    BY <1>2, <1>8, <1>12, <2>3 DEF Passed, IsP2P
  <2>5. BarAt(c, p, 2)
    BY <1>2, <1>8, <1>12 DEF BarAt, IsP2P
  <2> QED BY <2>3, <2>4, <2>5
<1>17. CASE t = "main" /\ s # p
  <2>1. Ready(s, "main") /\ k \in Running(s, "main").moves
    BY <1>17
  <2>2. /\ x \in 1 .. Len(workload[s]) /\ workload[s][x] \in Call
        /\ Running(s, "main").kind = "copy"
        /\ Passed(workload[s][x], s, y) \in 1 .. Bars(workload[s][x]) - 1
        /\ p \in Members[workload[s][x].group]
    BY <1>14, <1>17, <2>1, Reach
  <2>3. workload[p][n] = workload[s][x]
    BY <1>10, <1>14, <2>1, <2>2, Window
  <2>4. workload[s][x].group = g
    BY <1>11, <2>3 DEF g
  <2>5. s \in Members[g]
    BY <2>2, <2>4, CallFacts DEF IInv
  <2>6. s = q
    BY <1>5, <1>7, <1>17, <2>5
  <2> QED BY <1>17, <2>6
<1> QED BY <1>15, <1>16, <1>17 DEF Stream

\* No other copy touches the cell that a copy writes.
LEMMA WritesAlone ==
    ASSUME IInv, NEW p \in Rank, NEW s \in Stream, Ready(p, s), NEW mv \in Running(p, s).moves,
           NEW q \in Rank, NEW t \in Stream, Ready(q, t), <<p, s>> # <<q, t>>,
           NEW k \in Running(q, t).moves
    PROVE  ~ Touches(k, mv.to)
<1>1. CASE s = "copy"
  BY <1>1, ChunkAlone
<1>2. ASSUME s = "main", NEW n \in Nat, NEW e \in Nat, Pos(p, n, e),
             NEW y, mv.to = Output(p, n, y), Touches(k, mv.to)
      PROVE  FALSE
  <2>1. PICK m \in Nat : \E d \in Nat : Pos(q, m, d)
    BY Standing
  <2>2. PICK d \in Nat : Pos(q, m, d)
    BY <2>1
  <2> DEFINE c == workload[q][m]
  <2>3. CASE t = "copy"
    <3>0. Ready(q, "copy") /\ k \in Running(q, "copy").moves
      BY <2>3
    <3>1. \E u : k.from = Input(q, m, u) /\ k.to = Comm(q, u)
      BY <2>2, <3>0, CopyWrites
    <3>2. PICK u : k.from = Input(q, m, u) /\ k.to = Comm(q, u)
      BY <3>1
    <3> QED BY <1>2, <3>2, Cells DEF Touches
  <2>4. CASE t = "main"
    <3>1. p # q
      BY <1>2, <2>4
    <3>2. Staging(c, q, m, d, k) \/ Fetching(c, q, m, d, k) \/ Putting(c, q, d, k) \/ Taking(c, q, m, k)
      BY <2>2, <2>4, MainMoves
    <3> HIDE DEF c
    <3>3. /\ (\E u : k.from = Input(q, m, u)) \/ (\E z : \E u : k.from = Comm(z, u))
          /\ (\E z : \E u : k.to = Comm(z, u)) \/ (\E u : k.to = Output(q, m, u))
      BY <3>2 DEF Staging, Fetching, Putting, Taking
    <3>4. k.from # Output(p, n, y)
      BY <3>3, Cells
    <3>5. k.to # Output(p, n, y)
      BY <3>1, <3>3, Cells
    <3> QED BY <1>2, <3>4, <3>5 DEF Touches
  <2> QED BY <2>3, <2>4 DEF Stream
<1>3. CASE s = "main"
  <2>1. PICK n \in Nat : \E e \in Nat : Pos(p, n, e)
    BY Standing
  <2>2. PICK e \in Nat : Pos(p, n, e)
    BY <2>1
  <2> DEFINE c == workload[p][n]
  <2>3. Staging(c, p, n, e, mv) \/ Fetching(c, p, n, e, mv) \/ Putting(c, p, e, mv) \/ Taking(c, p, n, mv)
    BY <1>3, <2>2, MainMoves
  <2>4. CASE Staging(c, p, n, e, mv)
    BY <1>3, <2>2, <2>4, StageAlone
  <2>5. CASE Putting(c, p, e, mv)
    BY <1>3, <2>2, <2>5, PutAlone
  <2>6. CASE Fetching(c, p, n, e, mv) \/ Taking(c, p, n, mv)
    <3>1. \E y : mv.to = Output(p, n, y)
      BY <2>6 DEF Fetching, Taking
    <3> QED BY <1>2, <1>3, <2>2, <3>1
  <2> QED BY <2>3, <2>4, <2>5, <2>6
<1> QED BY <1>1, <1>3 DEF Stream

\* The invariant leaves no two running copies in a race.
LEMMA InvariantRaceFree == IInv => NoRace
<1> SUFFICES ASSUME IInv,
                    NEW a \in {e \in Rank \X Stream : Ready(e[1], e[2])},
                    NEW b \in {e \in Rank \X Stream : Ready(e[1], e[2])}, a # b,
                    NEW m \in Pending(a[1], a[2]), NEW k \in Pending(b[1], b[2])
             PROVE  m.to # k.to /\ m.to # k.from
  BY DEF NoRace
<1>1. /\ a[1] \in Rank /\ a[2] \in Stream /\ Ready(a[1], a[2]) /\ a = <<a[1], a[2]>>
      /\ b[1] \in Rank /\ b[2] \in Stream /\ Ready(b[1], b[2]) /\ b = <<b[1], b[2]>>
  OBVIOUS
<1>2. m \in Running(a[1], a[2]).moves /\ k \in Running(b[1], b[2]).moves
  BY DEF Pending
<1>3. <<a[1], a[2]>> # <<b[1], b[2]>>
  BY <1>1
<1>4. ~ Touches(k, m.to)
  BY <1>1, <1>2, <1>3, WritesAlone
<1> QED BY <1>4 DEF Touches

\* Two copies that run at the same time, on one rank or on two, never touch one
\* cell when either of them writes it (the plain loads and stores of the copy
\* kernels in Runtime.all_gather, all2all and p2p, over one shared comm_buf).
THEOREM RaceFree == Spec => []NoRace
  BY Invariance, InvariantRaceFree, PTL
=============================================================================
