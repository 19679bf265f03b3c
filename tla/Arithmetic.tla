----------------------------- MODULE Arithmetic -----------------------------
(***************************************************************************)
(* What the arithmetic of modules Counting and Layout gives.  A count up   *)
(* to a position grows with it and takes every value; the chunks of a      *)
(* pipelined call tile its axis, the partitions of a fused one tile its    *)
(* slice, and its chunks have a step cell: for every byte count, alignment *)
(* and number of chunks or channels.                                       *)
(***************************************************************************)
EXTENDS Layout, Counting, FiniteSetTheorems, TLAPS

-----------------------------------------------------------------------------
(* Counts.                                                                 *)

\* Nothing is counted up to 0.
LEMMA CountZero == ASSUME NEW S PROVE CountUpTo(S, 0) = 0
<1>1. S \cap (1 .. 0) = {} OBVIOUS
<1> QED BY <1>1, FS_EmptySet DEF CountUpTo

\* The count is a natural number.
LEMMA CountType ==
    ASSUME NEW S, NEW n \in Nat
    PROVE  /\ IsFiniteSet(S \cap (1 .. n))
           /\ CountUpTo(S, n) \in Nat
<1>1. IsFiniteSet(1 .. n) BY FS_Interval
<1>2. IsFiniteSet(S \cap (1 .. n)) BY <1>1, FS_Intersection
<1>3. CountUpTo(S, n) \in Nat BY <1>2, FS_CardinalityType DEF CountUpTo
<1> QED BY <1>2, <1>3

\* Raising the bound by one counts that position, if it belongs to the set.
LEMMA CountStep ==
    ASSUME NEW S, NEW n \in Nat
    PROVE  CountUpTo(S, n + 1) =
              CountUpTo(S, n) + (IF n + 1 \in S THEN 1 ELSE 0)
<1>1. IsFiniteSet(S \cap (1 .. n)) BY CountType
<1>2. n + 1 \notin S \cap (1 .. n) OBVIOUS
<1>a. CountUpTo(S, n) \in Nat BY CountType
<1>3. CASE n + 1 \in S
  <2>1. S \cap (1 .. n + 1) = (S \cap (1 .. n)) \cup {n + 1} BY <1>3
  <2> QED BY <2>1, <1>1, <1>2, <1>3, FS_AddElement DEF CountUpTo
<1>4. CASE n + 1 \notin S
  <2>1. S \cap (1 .. n + 1) = S \cap (1 .. n) BY <1>4
  <2> QED BY <2>1, <1>4, <1>a DEF CountUpTo
<1> QED BY <1>3, <1>4

\* The count grows with the bound, strictly so at a member of the set.
LEMMA CountMonotonic ==
    ASSUME NEW S, NEW m \in Nat, NEW n \in Nat, m <= n
    PROVE  /\ CountUpTo(S, m) <= CountUpTo(S, n)
           /\ m < n /\ n \in S => CountUpTo(S, m) < CountUpTo(S, n)
<1>1. /\ IsFiniteSet(S \cap (1 .. n))
      /\ S \cap (1 .. m) \in SUBSET (S \cap (1 .. n))
  BY CountType
<1>2. /\ CountUpTo(S, m) <= CountUpTo(S, n)
      /\ CountUpTo(S, n) = CountUpTo(S, m) => S \cap (1 .. n) = S \cap (1 .. m)
  BY <1>1, FS_Subset DEF CountUpTo
<1>3. ASSUME m < n, n \in S
      PROVE  S \cap (1 .. n) # S \cap (1 .. m)
  <2>1. n \in S \cap (1 .. n) BY <1>3
  <2>2. n \notin S \cap (1 .. m) BY <1>3
  <2> QED BY <2>1, <2>2
<1>4. CountUpTo(S, m) \in Nat /\ CountUpTo(S, n) \in Nat BY CountType
<1> QED BY <1>2, <1>3, <1>4

\* Different members of the set have different counts.
LEMMA CountInjective ==
    ASSUME NEW S, NEW i \in S, NEW j \in S, i \in Nat, j \in Nat,
           CountUpTo(S, i) = CountUpTo(S, j)
    PROVE  i = j
<1>1. CountUpTo(S, i) \in Nat /\ CountUpTo(S, j) \in Nat BY CountType
<1>2. ~ i < j BY <1>1, CountMonotonic
<1>3. ~ j < i BY <1>1, CountMonotonic
<1> QED BY <1>2, <1>3

\* Every number up to the count is the count at some member of the set.
LEMMA CountAttained ==
    ASSUME NEW S, NEW n \in Nat, NEW k \in 1 .. CountUpTo(S, n)
    PROVE  \E i \in S \cap (1 .. n) : CountUpTo(S, i) = k
<1> DEFINE A == S \cap (1 .. n)
           B == 1 .. CountUpTo(S, n)
           f == [i \in A |-> CountUpTo(S, i)]
<1>1. CountUpTo(S, n) \in Nat BY CountType
<1>2. /\ IsFiniteSet(B)
      /\ Cardinality(B) = CountUpTo(S, n)
  BY <1>1, FS_Interval
<1>3. Cardinality(A) = Cardinality(B) BY <1>2 DEF CountUpTo
<1>4. ASSUME NEW i \in A PROVE CountUpTo(S, i) \in B
  <2>1. /\ i \in Nat
        /\ i > 0
        /\ i <= n
        /\ i \in S
    OBVIOUS
  <2>2. CountUpTo(S, 0) < CountUpTo(S, i) BY <2>1, CountMonotonic
  <2>3. CountUpTo(S, i) <= CountUpTo(S, n) BY <2>1, CountMonotonic
  <2>4. CountUpTo(S, 0) = 0 /\ CountUpTo(S, i) \in Nat BY <2>1, CountType, CountZero
  <2> QED BY <2>2, <2>3, <2>4, <1>1
<1>5. f \in [A -> B] BY <1>4
<1>6. \A i, j \in A : f[i] = f[j] => i = j
  <2> SUFFICES ASSUME NEW i \in A, NEW j \in A, f[i] = f[j] PROVE i = j
    OBVIOUS
  <2>1. i \in S /\ j \in S /\ i \in Nat /\ j \in Nat OBVIOUS
  <2>2. CountUpTo(S, i) = CountUpTo(S, j) OBVIOUS
  <2> QED BY <2>1, <2>2, CountInjective
<1> HIDE DEF f, A, B
<1>7. f \in Injection(A, B) BY <1>5, <1>6 DEF Injection, IsInjective
<1>8. f \in Surjection(A, B) BY <1>2, <1>3, <1>7, FS_Injection
<1>9. PICK i \in A : f[i] = k BY <1>8 DEF Surjection, B
<1> QED BY <1>9 DEF A, f

-----------------------------------------------------------------------------
(* Quotients.                                                              *)

\* The quotient is the one whose multiple is next below.
LEMMA DivBounds ==
    ASSUME NEW n \in Nat, NEW d \in Nat \ {0}
    PROVE  n \div d \in Nat /\ (n \div d) * d <= n /\ n < (n \div d) * d + d
  OBVIOUS

\* A number is its quotient's multiple and its remainder.
LEMMA DivMod ==
    ASSUME NEW n \in Nat, NEW d \in Nat \ {0}
    PROVE  n = (n \div d) * d + (n % d)
  OBVIOUS

\* Multiplying keeps the order of two numbers,
LEMMA MulMonotone ==
    ASSUME NEW a \in Nat, NEW b \in Nat, NEW d \in Nat, a <= b
    PROVE  a * d <= b * d
  OBVIOUS

\* and the order of two multiples is that of the numbers.
LEMMA MulReflects ==
    ASSUME NEW a \in Nat, NEW b \in Nat, NEW d \in Nat \ {0}, a * d < b * d
    PROVE  a < b
  OBVIOUS

\* (n + d - 1) // d, as launchers and guards compute it, rounds up.
LEMMA CeilBounds ==
    ASSUME NEW n \in Nat, NEW d \in Nat \ {0}
    PROVE  CeilDiv(n, d) \in Nat /\ n <= CeilDiv(n, d) * d /\ CeilDiv(n, d) * d < n + d
<1>1. n + d - 1 \in Nat
  OBVIOUS
<1>2. QED
  BY <1>1, DivBounds DEF CeilDiv

\* Something to divide makes at least one share.
LEMMA CeilPositive ==
    ASSUME NEW n \in Nat \ {0}, NEW d \in Nat \ {0}
    PROVE  CeilDiv(n, d) >= 1
<1>1. CeilDiv(n, d) \in Nat /\ n <= CeilDiv(n, d) * d
  BY CeilBounds
<1>2. QED
  BY <1>1

\* More to divide makes no fewer shares.
LEMMA CeilMonotone ==
    ASSUME NEW m \in Nat, NEW n \in Nat, NEW d \in Nat \ {0}, m <= n
    PROVE  CeilDiv(m, d) <= CeilDiv(n, d)
<1>1. CeilDiv(m, d) \in Nat /\ CeilDiv(m, d) * d < m + d
  BY CeilBounds
<1>2. CeilDiv(n, d) \in Nat /\ n <= CeilDiv(n, d) * d
  BY CeilBounds
<1>3. CeilDiv(m, d) * d < (CeilDiv(n, d) + 1) * d
  BY <1>1, <1>2
<1>4. CeilDiv(m, d) < CeilDiv(n, d) + 1
  BY <1>1, <1>2, <1>3, MulReflects
<1>5. QED
  BY <1>1, <1>2, <1>4

\* A multiple has no remainder.
LEMMA MultipleMod ==
    ASSUME NEW k \in Nat, NEW a \in Nat \ {0}
    PROVE  (k * a) % a = 0
<1> DEFINE n == k * a
           q == n \div a
<1>1. n \in Nat
  OBVIOUS
<1>2. q \in Nat /\ q * a <= n /\ n < q * a + a
  BY <1>1, DivBounds
<1>3. n = q * a + (n % a)
  BY <1>1, DivMod
<1>4. q * a < (k + 1) * a /\ k * a < (q + 1) * a
  BY <1>2
<1>5. q < k + 1 /\ k < q + 1
  BY <1>2, <1>4, MulReflects
<1>6. q = k
  BY <1>2, <1>5
<1> HIDE DEF q
<1>7. n % a \in Int
  BY <1>1
<1>8. QED
  BY <1>1, <1>3, <1>6, <1>7

\* Aligning up gives a multiple of the alignment that is no smaller.
LEMMA AlignUpBounds ==
    ASSUME NEW n \in Nat, NEW a \in Nat \ {0}
    PROVE  AlignUp(n, a) \in Nat /\ n <= AlignUp(n, a) /\ AlignUp(n, a) % a = 0
<1>1. CeilDiv(n, a) \in Nat /\ n <= CeilDiv(n, a) * a
  BY CeilBounds
<1>2. (CeilDiv(n, a) * a) % a = 0
  BY <1>1, MultipleMod
<1>3. QED
  BY <1>1, <1>2 DEF AlignUp

-----------------------------------------------------------------------------
(* Remainders.                                                             *)

\* A number is a multiple of d just when d leaves no remainder.
LEMMA Multiple ==
    ASSUME NEW n \in Nat, NEW d \in Nat \ {0}
    PROVE  n % d = 0 <=> \E k \in Nat : n = k * d
<1>1. ASSUME n % d = 0 PROVE \E k \in Nat : n = k * d
  <2>1. n \div d \in Nat /\ n = (n \div d) * d + (n % d)
    BY DivBounds, DivMod
  <2>2. QED
    BY <1>1, <2>1
<1>2. ASSUME NEW k \in Nat, n = k * d PROVE n % d = 0
  BY <1>2, MultipleMod
<1>3. QED
  BY <1>1, <1>2

\* Multiples of d are closed under sums, and under differences.
LEMMA SumOfMultiples ==
    ASSUME NEW m \in Nat, NEW n \in Nat, NEW d \in Nat \ {0}, m % d = 0
    PROVE  (m + n) % d = 0 <=> n % d = 0
<1>1. PICK j \in Nat : m = j * d
  BY Multiple
<1>2. ASSUME n % d = 0 PROVE (m + n) % d = 0
  <2>1. PICK k \in Nat : n = k * d
    BY <1>2, Multiple
  <2>2. m + n = (j + k) * d /\ j + k \in Nat /\ m + n \in Nat
    BY <1>1, <2>1
  <2>3. QED
    BY <2>2, Multiple
<1>3. ASSUME (m + n) % d = 0 PROVE n % d = 0
  <2>1. PICK k \in Nat : m + n = k * d
    BY <1>3, Multiple
  <2>2. j <= k
    <3>1. j * d < (k + 1) * d
      BY <1>1, <2>1
    <3>2. j < k + 1
      BY <3>1, MulReflects
    <3>3. QED
      BY <3>2
  <2>3. n = (k - j) * d /\ k - j \in Nat
    BY <1>1, <2>1, <2>2
  <2>4. QED
    BY <2>3, Multiple
<1>4. QED
  BY <1>2, <1>3

\* A product is a multiple of what divides one of its factors.
LEMMA ProductOfMultiple ==
    ASSUME NEW m \in Nat, NEW n \in Nat, NEW d \in Nat \ {0}, m % d = 0
    PROVE  (n * m) % d = 0
<1>1. PICK j \in Nat : m = j * d
  BY Multiple
<1>2. n * m = (n * j) * d /\ n * j \in Nat /\ n * m \in Nat
  BY <1>1
<1>3. QED
  BY <1>2, Multiple

\* Divisibility is transitive.
LEMMA DividesThrough ==
    ASSUME NEW n \in Nat, NEW m \in Nat \ {0}, NEW d \in Nat \ {0},
           n % m = 0, m % d = 0
    PROVE  n % d = 0
<1>1. PICK k \in Nat : n = k * m
  BY Multiple
<1>2. QED
  BY <1>1, ProductOfMultiple

\* Division by d splits a number in one way only.
LEMMA DivUnique ==
    ASSUME NEW n \in Nat, NEW d \in Nat \ {0}, NEW q \in Nat, NEW r \in 0 .. d - 1,
           n = q * d + r
    PROVE  n \div d = q /\ n % d = r
<1> DEFINE k == n \div d
<1>1. k \in Nat /\ k * d <= n /\ n < k * d + d
  BY DivBounds
<1>2. n = k * d + (n % d)
  BY DivMod
<1>3. n % d \in Int
  OBVIOUS
<1> HIDE DEF k
<1>4. q * d < (k + 1) * d /\ k * d < (q + 1) * d
  BY <1>1
<1>5. q < k + 1 /\ k < q + 1
  BY <1>1, <1>4, MulReflects
<1>6. k = q
  BY <1>1, <1>5
<1>7. QED
  BY <1>2, <1>3, <1>6 DEF k

-----------------------------------------------------------------------------
(* Chunks of a pipelined call.                                             *)

\* The chunks that _chunk_layout makes cover the axis, and all but the last of
\* them do not.
LEMMA ChunkCountFits ==
    ASSUME NEW axis \in Nat \ {0}, NEW chunks \in Nat \ {0}, NEW align \in Nat \ {0}
    PROVE  LET nominal == Nominal(axis, chunks, align)
               count == ChunkCount(axis, chunks, align)
           IN  /\ nominal \in Nat \ {0} /\ nominal % align = 0
               /\ count \in 1 .. chunks
               /\ (count - 1) * nominal < axis /\ axis <= count * nominal
<1> DEFINE nominal == Nominal(axis, chunks, align)
           share == CeilDiv(axis, chunks)
           k == CeilDiv(axis, nominal)
<1>1. share \in Nat /\ share >= 1 /\ axis <= share * chunks
  BY CeilBounds, CeilPositive
<1>2. nominal \in Nat \ {0} /\ share <= nominal /\ nominal % align = 0
  <2>1. nominal = AlignUp(share, align)
    BY DEF Nominal
  <2>2. nominal \in Nat /\ share <= nominal /\ nominal % align = 0
    BY <1>1, <2>1, AlignUpBounds
  <2>3. QED
    BY <1>1, <2>2
<1>3. k \in Nat /\ k >= 1 /\ axis <= k * nominal /\ k * nominal < axis + nominal
  BY <1>2, CeilBounds, CeilPositive
<1> HIDE DEF nominal, share, k
<1>4. (k - 1) * nominal < axis
  BY <1>2, <1>3
<1>5. CASE chunks < k
  <2>1. ChunkCount(axis, chunks, align) = chunks
    BY <1>5 DEF ChunkCount, Lesser, k, nominal
  <2>2. (chunks - 1) * nominal <= (k - 1) * nominal
    BY <1>2, <1>3, <1>5, MulMonotone
  <2>3. share * chunks <= nominal * chunks
    BY <1>1, <1>2, MulMonotone
  <2>4. (chunks - 1) * nominal < axis /\ axis <= chunks * nominal
    BY <1>1, <1>2, <1>3, <1>4, <2>2, <2>3
  <2>5. QED
    BY <1>2, <2>1, <2>4 DEF nominal
<1>6. CASE ~ (chunks < k)
  <2>1. ChunkCount(axis, chunks, align) = k
    BY <1>3, <1>6 DEF ChunkCount, Lesser, k, nominal
  <2>2. QED
    BY <1>2, <1>3, <1>4, <1>6, <2>1 DEF nominal
<1>7. QED
  BY <1>5, <1>6

\* _chunk_layout splits the axis into at most the chunks asked for: they follow
\* each other from 0 to the end, none is empty, and each starts at a multiple of
\* the alignment.  The remainder that the code would add to the last chunk
\* (runtime.py:1502-1506) is always nothing.
THEOREM ChunkLayoutTiles ==
    ASSUME NEW axis \in Nat \ {0}, NEW chunks \in Nat \ {0}, NEW align \in Nat \ {0}
    PROVE  LET layout == ChunkLayout(axis, chunks, align)
               n == Len(layout)
           IN  /\ n \in 1 .. chunks
               /\ layout[1].offset = 0
               /\ layout[n].offset + layout[n].size = axis
               /\ \A i \in 1 .. n - 1 : layout[i + 1].offset = layout[i].offset + layout[i].size
               /\ \A i \in 1 .. n : layout[i].size > 0 /\ layout[i].offset % align = 0
<1> DEFINE nominal == Nominal(axis, chunks, align)
           count == ChunkCount(axis, chunks, align)
           layout == ChunkLayout(axis, chunks, align)
<1>1. /\ nominal \in Nat \ {0} /\ nominal % align = 0
      /\ count \in 1 .. chunks
      /\ (count - 1) * nominal < axis /\ axis <= count * nominal
  BY ChunkCountFits
<1>2. CASE chunks = 1
  <2>1. layout = <<[offset |-> 0, size |-> axis]>>
    BY <1>2 DEF ChunkLayout
  <2>2. Len(layout) = 1 /\ layout[1].offset = 0 /\ layout[1].size = axis
    BY <2>1
  <2>3. 0 % align = 0
    OBVIOUS
  <2>4. QED
    BY <1>2, <2>2, <2>3
<1>3. CASE chunks # 1
  <2>1. layout = [i \in 1 .. count |->
                    [offset |-> (i - 1) * nominal,
                     size |-> IF i < count THEN nominal ELSE axis - (i - 1) * nominal]]
    BY <1>3 DEF ChunkLayout
  <2> HIDE DEF layout, nominal, count
  <2>2. Len(layout) = count
    BY <1>1, <2>1
  <2>3. \A i \in 1 .. count : layout[i].offset = (i - 1) * nominal
    BY <2>1
  <2>4. \A i \in 1 .. count - 1 : layout[i].size = nominal
    BY <1>1, <2>1
  <2>5. layout[count].size = axis - (count - 1) * nominal
    BY <1>1, <2>1
  <2>6. layout[1].offset = 0
    BY <1>1, <2>3
  <2>7. layout[count].offset + layout[count].size = axis
    BY <1>1, <2>3, <2>5
  <2>8. \A i \in 1 .. count - 1 : layout[i + 1].offset = layout[i].offset + layout[i].size
    BY <1>1, <2>3, <2>4
  <2>9. \A i \in 1 .. count : layout[i].size > 0
    BY <1>1, <2>4, <2>5
  <2>10. ASSUME NEW i \in 1 .. count PROVE layout[i].offset % align = 0
    <3>1. PICK q \in Nat : nominal = q * align
      BY <1>1
    <3>2. layout[i].offset = ((i - 1) * q) * align
      BY <1>1, <2>3, <3>1
    <3>3. QED
      BY <1>1, <3>1, <3>2
  <2>11. QED
    BY <1>1, <2>2, <2>6, <2>7, <2>8, <2>9, <2>10 DEF layout
<1>4. QED
  BY <1>2, <1>3

-----------------------------------------------------------------------------
(* Partitions and chunks of a fused call.                                  *)

\* The bound that step_pad is allocated with is never exceeded: whatever the
\* channels and the alignment, a slice that fits comm_buf has at most that many
\* chunks for each channel (config.py:58-65).  The launchers' own rejection is
\* unreachable when a call's chunk size is the configured one.
THEOREM FusedChunksFit ==
    ASSUME NEW slice \in Nat, NEW maxBytes \in Nat, slice <= maxBytes,
           NEW align \in Nat \ {0}, maxBytes % align = 0,
           NEW channels \in Nat \ {0}, NEW chunkBytes \in Nat \ {0}
    PROVE  /\ FusedChunks(slice, channels, chunkBytes, align) \in Nat
           /\ FusedChunks(slice, channels, chunkBytes, align) <= FusedMaxChunks(maxBytes, chunkBytes)
<1> DEFINE share == CeilDiv(slice, channels)
           part == PartitionBytes(slice, channels, align)
<1>1. share \in Nat /\ share <= maxBytes
  <2>1. share \in Nat /\ share * channels < slice + channels
    BY CeilBounds
  <2>2. share * channels < (slice + 1) * channels
    BY <2>1
  <2>3. share < slice + 1
    BY <2>1, <2>2, MulReflects
  <2>4. QED
    BY <2>1, <2>3
<1>2. part \in Nat
  BY <1>1, AlignUpBounds DEF PartitionBytes
<1>3. part <= maxBytes
  <2>1. PICK q \in Nat : maxBytes = q * align
    OBVIOUS
  <2>2. CeilDiv(share, align) <= CeilDiv(maxBytes, align)
    BY <1>1, CeilMonotone
  <2>3. CeilDiv(maxBytes, align) \in Nat /\ CeilDiv(maxBytes, align) * align < maxBytes + align
    BY CeilBounds
  <2>4. CeilDiv(maxBytes, align) * align < (q + 1) * align
    BY <2>1, <2>3
  <2>5. CeilDiv(maxBytes, align) < q + 1
    BY <2>3, <2>4, MulReflects
  <2>6. CeilDiv(share, align) \in Nat
    BY <1>1, CeilBounds
  <2>7. CeilDiv(share, align) <= q
    BY <2>2, <2>3, <2>5, <2>6
  <2>8. QED
    BY <2>1, <2>6, <2>7, MulMonotone DEF PartitionBytes, AlignUp
<1>4. CeilDiv(part, chunkBytes) <= CeilDiv(maxBytes, chunkBytes)
  BY <1>2, <1>3, CeilMonotone
<1>5. CeilDiv(part, chunkBytes) \in Nat /\ CeilDiv(maxBytes, chunkBytes) \in Nat
  BY <1>2, CeilBounds
<1>6. QED
  BY <1>4, <1>5 DEF FusedChunks, FusedMaxChunks

\* Every byte of the slice is in the partition of one channel, and of no other
\* (fused.py:204-212).
THEOREM PartitionsTile ==
    ASSUME NEW slice \in Nat, NEW channels \in Nat \ {0}, NEW align \in Nat \ {0},
           NEW b \in 0 .. slice - 1
    PROVE  LET In(c) ==
                 /\ PartitionOffset(slice, channels, align, c) <= b
                 /\ b < PartitionOffset(slice, channels, align, c)
                          + PartitionSize(slice, channels, align, c)
           IN  \E c \in 0 .. channels - 1 : In(c) /\ \A d \in 0 .. channels - 1 : In(d) => d = c
<1> DEFINE part == PartitionBytes(slice, channels, align)
           In(c) == /\ PartitionOffset(slice, channels, align, c) <= b
                    /\ b < PartitionOffset(slice, channels, align, c)
                             + PartitionSize(slice, channels, align, c)
           home == b \div part
<1>1. part \in Nat \ {0} /\ slice <= part * channels
  <2>1. /\ CeilDiv(slice, channels) \in Nat /\ CeilDiv(slice, channels) >= 1
        /\ slice <= CeilDiv(slice, channels) * channels
    BY CeilBounds, CeilPositive
  <2>2. part \in Nat /\ CeilDiv(slice, channels) <= part
    BY <2>1, AlignUpBounds DEF PartitionBytes
  <2>3. CeilDiv(slice, channels) * channels <= part * channels
    BY <2>1, <2>2, MulMonotone
  <2>4. QED
    BY <2>1, <2>2, <2>3
<1>2. home \in Nat /\ home * part <= b /\ b < home * part + part
  BY <1>1, DivBounds
<1> HIDE DEF part, home
<1>3. \A c \in Nat : In(c) <=> c * part <= b /\ b < c * part + part
  BY <1>1 DEF PartitionOffset, PartitionSize, Lesser, part
<1>4. home \in 0 .. channels - 1
  <2>1. home * part < channels * part
    BY <1>1, <1>2
  <2>2. home < channels
    BY <1>1, <1>2, <2>1, MulReflects
  <2>3. QED
    BY <1>2, <2>2
<1>5. ASSUME NEW d \in 0 .. channels - 1, In(d) PROVE d = home
  <2>1. d * part <= b /\ b < d * part + part
    BY <1>3, <1>5
  <2>2. d * part < (home + 1) * part /\ home * part < (d + 1) * part
    BY <1>1, <1>2, <2>1
  <2>3. d < home + 1 /\ home < d + 1
    BY <1>1, <1>2, <2>2, MulReflects
  <2>4. QED
    BY <1>2, <2>3
<1>6. QED
  BY <1>2, <1>3, <1>4, <1>5
=============================================================================
