-------------------------- MODULE CopyKernelsProofs --------------------------
(***************************************************************************)
(* For every call and configuration that the assumptions of CopyKernels    *)
(* admit: its copies stay inside the slices and do not split a vector, no  *)
(* byte is stored twice and none is forgotten, and no chunk of a pipelined *)
(* call is copied in narrower vectors than the whole would be.             *)
(*                                                                         *)
(* The argument is about the plan, not the order in which tasks run.  Each *)
(* kind of launch stays inside its part of a slice (LaunchOK) and holds    *)
(* each byte of it in one task (Once): LoopLaunch for the kernels, whose   *)
(* tiles, blocks and lanes are digits of a byte's offset, the pieces of a  *)
(* memcpy likewise.  Chunks and partitions tile the slice, so on every     *)
(* path a plan holds each byte once (PlanOK).  What has been stored is     *)
(* then a function of the tasks that have run, which is what IInv says.    *)
(***************************************************************************)
EXTENDS CopyKernels, Arithmetic

-----------------------------------------------------------------------------
(* Vector widths.                                                          *)

Width == {1, 4, 8, 16}

\* A set of numbers up to 16 with 1 among them has a greatest element.
LEMMA GreatestUpTo16 ==
    ASSUME NEW D, D \subseteq 1 .. 16, 1 \in D
    PROVE  \E d \in D : \A e \in D : e <= d
  OBVIOUS

\* base_alignment is a power of two that divides the address, and a multiple of
\* every width that divides it.
LEMMA BaseAlignmentFacts ==
    ASSUME NEW x \in Nat
    PROVE  /\ BaseAlignment(x) \in {1, 2, 4, 8, 16}
           /\ x % BaseAlignment(x) = 0
           /\ \A w \in Width : x % w = 0 => BaseAlignment(x) % w = 0
<1> DEFINE Is(a) == x % a = 0 /\ (a = 16 \/ x % (2 * a) # 0)
<1>1. x % 1 = 0
  OBVIOUS
<1>2. \E a \in {1, 2, 4, 8, 16} : Is(a)
  <2>1. CASE x % 2 # 0
    <3>1. Is(1) BY <1>1, <2>1
    <3>2. QED BY <3>1
  <2>2. CASE x % 2 = 0 /\ x % 4 # 0
    <3>1. Is(2) BY <2>2
    <3>2. QED BY <3>1
  <2>3. CASE x % 4 = 0 /\ x % 8 # 0
    <3>1. Is(4) BY <2>3
    <3>2. QED BY <3>1
  <2>4. CASE x % 8 = 0 /\ x % 16 # 0
    <3>1. Is(8) BY <2>4
    <3>2. QED BY <3>1
  <2>5. CASE x % 16 = 0
    <3>1. Is(16) BY <2>5
    <3>2. QED BY <3>1
  <2>6. x % 4 = 0 \/ x % 4 # 0
    OBVIOUS
  <2>7. x % 4 = 0 => x % 2 = 0
    OBVIOUS
  <2>8. x % 8 = 0 => x % 4 = 0
    OBVIOUS
  <2>9. QED
    BY <2>1, <2>2, <2>3, <2>4, <2>5, <2>7, <2>8
<1>3. BaseAlignment(x) = CHOOSE a \in {1, 2, 4, 8, 16} : Is(a)
  BY DEF BaseAlignment
<1>4. BaseAlignment(x) \in {1, 2, 4, 8, 16} /\ Is(BaseAlignment(x))
  BY <1>2, <1>3
<1> DEFINE a == BaseAlignment(x)
<1> HIDE DEF a
<1>5. a \in {1, 2, 4, 8, 16} /\ x % a = 0 /\ (a = 16 \/ x % (2 * a) # 0)
  BY <1>4 DEF a
<1>6. ASSUME NEW w \in Width, x % w = 0 PROVE a % w = 0
  <2>1. x % 16 = 0 => x % 8 = 0
    OBVIOUS
  <2>2. x % 8 = 0 => x % 4 = 0
    OBVIOUS
  <2>3. x % 4 = 0 => x % 2 = 0
    OBVIOUS
  <2>4. CASE a = 1
    <3>1. x % 2 # 0 BY <1>5, <2>4
    <3>2. w = 1 BY <1>6, <2>1, <2>2, <2>3, <3>1 DEF Width
    <3>3. QED BY <2>4, <3>2
  <2>5. CASE a = 2
    <3>1. x % 4 # 0 BY <1>5, <2>5
    <3>2. w = 1 BY <1>6, <2>1, <2>2, <2>3, <3>1 DEF Width
    <3>3. QED BY <2>5, <3>2
  <2>6. CASE a = 4
    <3>1. x % 8 # 0 BY <1>5, <2>6
    <3>2. w \in {1, 4} BY <1>6, <2>1, <2>2, <2>3, <3>1 DEF Width
    <3>3. QED BY <2>6, <3>2
  <2>7. CASE a = 8
    <3>1. x % 16 # 0 BY <1>5, <2>7
    <3>2. w \in {1, 4, 8} BY <1>6, <3>1 DEF Width
    <3>3. QED BY <2>7, <3>2
  <2>8. CASE a = 16
    BY <2>8 DEF Width
  <2>9. QED
    BY <1>5, <2>4, <2>5, <2>6, <2>7, <2>8
<1>7. QED
  BY <1>4, <1>6 DEF a

\* The greatest common divisor divides every element, and no common divisor is
\* greater.
LEMMA GcdFacts ==
    ASSUME NEW S, S \subseteq Nat
    PROVE  /\ Gcd(S) \in 1 .. 16
           /\ \A x \in S : x % Gcd(S) = 0
           /\ \A e \in 1 .. 16 : (\A x \in S : x % e = 0) => e <= Gcd(S)
<1> DEFINE D == {d \in 1 .. 16 : \A x \in S : x % d = 0}
           Is(d) == /\ \A x \in S : x % d = 0
                    /\ \A e \in d + 1 .. 16 : \E x \in S : x % e # 0
<1>1. 1 \in D
  OBVIOUS
<1>2. PICK d \in D : \A e \in D : e <= d
  <2> HIDE DEF D
  <2>1. D \subseteq 1 .. 16
    BY DEF D
  <2>2. QED
    BY <1>1, <2>1, GreatestUpTo16
<1>3. d \in 1 .. 16 /\ Is(d)
  <2>1. d \in 1 .. 16 /\ \A x \in S : x % d = 0
    BY <1>2
  <2>2. ASSUME NEW e \in d + 1 .. 16 PROVE \E x \in S : x % e # 0
    <3>1. e \in 1 .. 16 /\ ~ (e <= d)
      BY <2>1
    <3>2. e \notin D
      BY <1>2, <3>1
    <3>3. QED
      BY <3>1, <3>2
  <2>3. QED
    BY <2>1, <2>2
<1>4. Gcd(S) = CHOOSE e \in 1 .. 16 : Is(e)
  BY DEF Gcd
<1>5. Gcd(S) \in 1 .. 16 /\ Is(Gcd(S))
  BY <1>3, <1>4
<1>6. ASSUME NEW e \in 1 .. 16, \A x \in S : x % e = 0 PROVE e <= Gcd(S)
  <2>1. CASE e > Gcd(S)
    <3>1. e \in Gcd(S) + 1 .. 16
      BY <1>5, <2>1
    <3>2. QED
      BY <1>5, <1>6, <3>1
  <2>2. QED
    BY <1>5, <2>1
<1>7. QED
  BY <1>5, <1>6

\* vec_width_bytes is the largest of the four widths that divides the addresses
\* and the byte count.
LEMMA VecWidthFacts ==
    ASSUME NEW addrs, addrs \subseteq Nat, addrs # {}, NEW nbytes \in Nat
    PROVE  LET w == VecWidth(addrs, nbytes)
           IN  /\ w \in Width
               /\ nbytes % w = 0 /\ \A x \in addrs : x % w = 0
               /\ \A v \in Width :
                     nbytes % v = 0 /\ (\A x \in addrs : x % v = 0) => v <= w
<1> DEFINE S == {BaseAlignment(x) : x \in addrs} \cup {nbytes}
           align == Gcd(S)
           Is(w) == w <= align /\ \A v \in {16, 8, 4, 1} : v <= align => v <= w
           w == VecWidth(addrs, nbytes)
<1>1. S \subseteq Nat
  BY BaseAlignmentFacts
<1>2. /\ align \in 1 .. 16
      /\ \A x \in S : x % align = 0
      /\ \A e \in 1 .. 16 : (\A x \in S : x % e = 0) => e <= align
  <2> HIDE DEF S
  <2>1. QED
    BY <1>1, GcdFacts
<1> HIDE DEF align
<1>3. \E v \in {16, 8, 4, 1} : Is(v)
  <2>1. CASE align = 16 BY <2>1
  <2>2. CASE align < 16 /\ align >= 8 BY <2>2
  <2>3. CASE align < 8 /\ align >= 4 BY <2>3
  <2>4. CASE align < 4 BY <1>2, <2>4
  <2>5. QED BY <1>2, <2>1, <2>2, <2>3, <2>4
<1>4. w = CHOOSE v \in {16, 8, 4, 1} : Is(v)
  BY DEF VecWidth, align
<1>5. w \in {16, 8, 4, 1} /\ Is(w)
  BY <1>3, <1>4
<1> HIDE DEF w
<1>6. align \in {1, 2, 4, 8, 16}
  <2>1. PICK x \in addrs : TRUE
    OBVIOUS
  <2>2. BaseAlignment(x) \in {1, 2, 4, 8, 16} /\ BaseAlignment(x) \in S
    BY <2>1, BaseAlignmentFacts
  <2>3. BaseAlignment(x) % align = 0
    BY <1>2, <2>2
  <2> DEFINE a == BaseAlignment(x)
  <2> HIDE DEF a, S
  <2>4. a \in {1, 2, 4, 8, 16} /\ a % align = 0
    BY <2>2, <2>3 DEF a
  <2>5. QED
    BY <1>2, <2>4
<1>7. align % w = 0
  BY <1>5, <1>6
<1>8. ASSUME NEW n \in Nat, n % align = 0 PROVE n % w = 0
  <2>1. w \in Nat \ {0} /\ align \in Nat \ {0}
    BY <1>5, <1>6
  <2>2. QED
    BY <1>7, <1>8, <2>1, DividesThrough
<1>9. nbytes % w = 0
  <2>1. nbytes \in S
    OBVIOUS
  <2>2. QED
    BY <1>2, <1>8, <2>1
<1>10. ASSUME NEW x \in addrs PROVE x % w = 0
  <2>1. BaseAlignment(x) \in S /\ x \in Nat
    OBVIOUS
  <2>2. BaseAlignment(x) % w = 0
    BY <1>1, <1>2, <1>8, <2>1
  <2>3. BaseAlignment(x) \in Nat \ {0} /\ x % BaseAlignment(x) = 0 /\ w \in Nat \ {0}
    BY <1>5, <2>1, BaseAlignmentFacts
  <2>4. QED
    BY <2>1, <2>2, <2>3, DividesThrough
<1>11. ASSUME NEW v \in Width, nbytes % v = 0, \A x \in addrs : x % v = 0 PROVE v <= w
  <2>1. \A x \in addrs : BaseAlignment(x) % v = 0
    BY <1>11, BaseAlignmentFacts
  <2>2. \A s \in S : s % v = 0
    BY <1>11, <2>1
  <2>3. v \in 1 .. 16 /\ v \in {16, 8, 4, 1}
    BY DEF Width
  <2>4. v <= align
    BY <1>2, <2>2, <2>3
  <2>5. QED
    BY <1>5, <2>3, <2>4
<1>12. w \in Width
  BY <1>5 DEF Width
<1>13. QED
  BY <1>9, <1>10, <1>11, <1>12 DEF w

\* What a width must divide.
Aligned(addrs, nbytes, w) == nbytes % w = 0 /\ \A x \in addrs : x % w = 0

\* If the same widths divide the one and the other, the chosen ones are the same.
LEMMA SameWidth ==
    ASSUME NEW a \in (SUBSET Nat) \ {{}}, NEW m \in Nat,
           NEW b \in (SUBSET Nat) \ {{}}, NEW n \in Nat,
           \A v \in Width : Aligned(a, m, v) <=> Aligned(b, n, v)
    PROVE  VecWidth(a, m) = VecWidth(b, n)
<1> DEFINE v == VecWidth(a, m)
           w == VecWidth(b, n)
<1>1. /\ v \in Width
      /\ m % v = 0 /\ \A x \in a : x % v = 0
      /\ \A u \in Width : m % u = 0 /\ (\A x \in a : x % u = 0) => u <= v
  BY VecWidthFacts
<1>2. /\ w \in Width
      /\ n % w = 0 /\ \A x \in b : x % w = 0
      /\ \A u \in Width : n % u = 0 /\ (\A x \in b : x % u = 0) => u <= w
  BY VecWidthFacts
<1> HIDE DEF v, w
<1>3. v <= w /\ w <= v
  BY <1>1, <1>2 DEF Aligned
<1>4. QED
  BY <1>1, <1>2, <1>3 DEF Width, v, w

-----------------------------------------------------------------------------
(* Peers, loops and tiles.                                                 *)

\* A rank's place in its group.
PlaceOK(c) == c.size \in Nat \ {0} /\ c.self \in Nat /\ c.self < c.size

\* The peers are visited once each, the rank itself last.
LEMMA SwizzleFacts ==
    ASSUME NEW c, PlaceOK(c)
    PROVE  LET Deltas == 0 .. c.size - 1
           IN  /\ \A d \in Deltas : Swizzle(c, d) \in Deltas
               /\ \A peer \in Deltas : \E d \in Deltas : Swizzle(c, d) = peer
               /\ \A d, e \in Deltas : Swizzle(c, d) = Swizzle(c, e) => d = e
               /\ \A d \in Deltas : Swizzle(c, d) = c.self <=> d = c.size - 1
<1> DEFINE size == c.size
           self == c.self
           sw(d) == Swizzle(c, d)
           Deltas == 0 .. size - 1
<1>1. size \in Nat \ {0} /\ self \in Nat /\ self < size
  BY DEF PlaceOK
<1>2. \A d \in Deltas : sw(d) = (d + self + 1) % size
  BY DEF Swizzle
<1> HIDE DEF size, self, sw
<1>3. ASSUME NEW d \in Deltas
      PROVE  sw(d) = IF d + self + 1 < size THEN d + self + 1 ELSE d + self + 1 - size
  <2>1. CASE d + self + 1 < size
    <3>1. d + self + 1 = 0 * size + (d + self + 1) /\ d + self + 1 \in 0 .. size - 1
      BY <1>1, <2>1
    <3>2. (d + self + 1) % size = d + self + 1
      BY <1>1, <3>1, DivUnique
    <3>3. QED
      BY <1>2, <2>1, <3>2
  <2>2. CASE ~ (d + self + 1 < size)
    <3> DEFINE r == d + self + 1 - size
    <3>1. d + self + 1 = 1 * size + r /\ r \in 0 .. size - 1 /\ d + self + 1 \in Nat
      BY <1>1, <2>2
    <3>2. (d + self + 1) % size = r
      BY <1>1, <3>1, DivUnique
    <3>3. QED
      BY <1>2, <2>2, <3>2
  <2>3. QED
    BY <2>1, <2>2
<1>4. \A d \in Deltas : sw(d) \in Deltas
  BY <1>1, <1>3
<1>5. ASSUME NEW peer \in Deltas PROVE \E d \in Deltas : sw(d) = peer
  <2>1. CASE peer > self
    <3>1. peer - self - 1 \in Deltas /\ sw(peer - self - 1) = peer
      BY <1>1, <1>3, <2>1
    <3>2. QED
      BY <3>1
  <2>2. CASE ~ (peer > self)
    <3>1. peer - self - 1 + size \in Deltas /\ sw(peer - self - 1 + size) = peer
      BY <1>1, <1>3, <2>2
    <3>2. QED
      BY <3>1
  <2>3. QED
    BY <2>1, <2>2
<1>6. \A d, e \in Deltas : sw(d) = sw(e) => d = e
  BY <1>1, <1>3
<1>7. \A d \in Deltas : sw(d) = self <=> d = size - 1
  BY <1>1, <1>3
<1>8. QED
  BY <1>4, <1>5, <1>6, <1>7 DEF size, self, sw

\* The numbers that a program's loop visits, and that it visits them all.
LEMMA LoopFacts ==
    ASSUME NEW pid \in Nat, NEW total \in Nat, NEW stride \in Nat \ {0}
    PROVE  LET loop == LoopTasks(pid, total, stride)
           IN  /\ Len(loop) \in Nat /\ DOMAIN loop = 1 .. Len(loop)
               /\ \A i \in 1 .. Len(loop) :
                     loop[i] = pid + (i - 1) * stride /\ loop[i] \in 0 .. total - 1
               /\ \A i \in Nat \ {0} : pid + (i - 1) * stride < total => i <= Len(loop)
<1> DEFINE n == IF pid < total THEN CeilDiv(total - pid, stride) ELSE 0
           loop == LoopTasks(pid, total, stride)
<1>1. /\ n \in Nat
      /\ pid < total => total - pid <= n * stride /\ n * stride < total - pid + stride
      /\ ~ (pid < total) => n = 0
  <2>1. CASE pid < total
    <3>1. total - pid \in Nat
      BY <2>1
    <3>2. QED
      BY <2>1, <3>1, CeilBounds
  <2>2. CASE ~ (pid < total)
    BY <2>2
  <2>3. QED
    BY <2>1, <2>2
<1>2. loop = [i \in 1 .. n |-> pid + (i - 1) * stride]
  BY DEF LoopTasks
<1> HIDE DEF n, loop
<1>3. Len(loop) = n /\ DOMAIN loop = 1 .. n /\ \A i \in 1 .. n : loop[i] = pid + (i - 1) * stride
  BY <1>1, <1>2
<1>4. ASSUME NEW i \in 1 .. n PROVE pid + (i - 1) * stride \in 0 .. total - 1
  <2>1. pid < total
    BY <1>1, <1>4
  <2>2. (i - 1) * stride <= (n - 1) * stride /\ (i - 1) * stride \in Nat
    BY <1>1, MulMonotone
  <2>3. (n - 1) * stride = n * stride - stride
    BY <1>1
  <2>4. QED
    BY <1>1, <2>1, <2>2, <2>3
<1>5. ASSUME NEW i \in Nat \ {0}, pid + (i - 1) * stride < total PROVE i <= n
  <2>1. (i - 1) * stride \in Nat
    OBVIOUS
  <2>2. pid < total
    BY <1>5, <2>1
  <2>3. (i - 1) * stride < n * stride
    BY <1>1, <1>5, <2>1, <2>2
  <2>4. i - 1 < n
    BY <1>1, <2>3, MulReflects
  <2>5. QED
    BY <1>1, <2>4
<1>6. QED
  BY <1>1, <1>3, <1>4, <1>5 DEF loop

\* Every number below total is visited once, by the programs of a grid that has
\* stride programs or one for every number.
LEMMA LoopOnce ==
    ASSUME NEW total \in Nat, NEW stride \in Nat \ {0}, NEW t \in 0 .. total - 1
    PROVE  LET p == t % stride
               n == t \div stride + 1
           IN  /\ p \in 0 .. stride - 1 /\ p <= t
               /\ n \in 1 .. Len(LoopTasks(p, total, stride))
               /\ LoopTasks(p, total, stride)[n] = t
               /\ \A pid \in 0 .. stride - 1 :
                     \A i \in 1 .. Len(LoopTasks(pid, total, stride)) :
                        LoopTasks(pid, total, stride)[i] = t => pid = p /\ i = n
<1> DEFINE loop(pid) == LoopTasks(pid, total, stride)
           p == t % stride
           k == t \div stride
<1>1. p \in 0 .. stride - 1 /\ k \in Nat /\ t = k * stride + p
  BY DivBounds, DivMod
<1>2. ASSUME NEW pid \in 0 .. stride - 1
      PROVE  /\ Len(loop(pid)) \in Nat
             /\ \A i \in 1 .. Len(loop(pid)) : loop(pid)[i] = pid + (i - 1) * stride
             /\ \A i \in Nat \ {0} : pid + (i - 1) * stride < total => i <= Len(loop(pid))
  <2>1. pid \in Nat /\ total \in Nat /\ stride \in Nat \ {0}
    OBVIOUS
  <2> DEFINE tasks == LoopTasks(pid, total, stride)
  <2>2. /\ Len(tasks) \in Nat /\ DOMAIN tasks = 1 .. Len(tasks)
        /\ \A i \in 1 .. Len(tasks) :
              tasks[i] = pid + (i - 1) * stride /\ tasks[i] \in 0 .. total - 1
        /\ \A i \in Nat \ {0} : pid + (i - 1) * stride < total => i <= Len(tasks)
    BY <2>1, LoopFacts, Zenon
  <2> HIDE DEF tasks
  <2>3. loop(pid) = tasks
    BY DEF tasks
  <2> HIDE DEF loop
  <2>4. QED
    BY <2>2, <2>3
<1>3. ASSUME NEW pid \in 0 .. stride - 1, NEW i \in 1 .. Len(loop(pid)), loop(pid)[i] = t
      PROVE  pid = p /\ i = k + 1
  <2>1. i - 1 \in Nat /\ t = (i - 1) * stride + pid
    <3>1. Len(loop(pid)) \in Nat /\ loop(pid)[i] = pid + (i - 1) * stride
      BY <1>2
    <3> HIDE DEF loop
    <3>2. i - 1 \in Nat /\ (i - 1) * stride \in Nat
      BY <3>1
    <3>3. QED
      BY <1>3, <3>1, <3>2
  <2>2. t \in Nat
    OBVIOUS
  <2> HIDE DEF loop
  <2>3. t \div stride = i - 1 /\ t % stride = pid
    BY <2>1, <2>2, DivUnique
  <2>4. k = i - 1 /\ p = pid
    BY <2>3
  <2>5. QED
    BY <2>1, <2>4
<1> HIDE DEF p, k, loop
<1>4. k * stride \in Nat /\ p <= t
  BY <1>1
<1>5. k + 1 \in Nat \ {0} /\ p + ((k + 1) - 1) * stride = t
  BY <1>1, <1>4
<1>6. k + 1 \in 1 .. Len(loop(p))
  BY <1>1, <1>2, <1>5
<1>7. loop(p)[k + 1] = t
  BY <1>1, <1>2, <1>5, <1>6
<1>8. QED
  BY <1>1, <1>3, <1>4, <1>6, <1>7 DEF p, k, loop

\* Every byte of a run of len bytes is in one of its tiles, the last one clipped.
LEMMA TileOnce ==
    ASSUME NEW len \in Nat, NEW tile \in Nat \ {0}, NEW b \in 0 .. len - 1
    PROVE  LET j == b \div tile
           IN  /\ j \in 0 .. CeilDiv(len, tile) - 1
               /\ j * tile <= b /\ b < Lesser((j + 1) * tile, len)
               /\ \A k \in Nat : k * tile <= b /\ b < (k + 1) * tile => k = j
<1> DEFINE j == b \div tile
           m == CeilDiv(len, tile)
<1>1. j \in Nat /\ j * tile <= b /\ b < j * tile + tile
  BY DivBounds
<1>2. m \in Nat /\ len <= m * tile
  BY CeilBounds
<1> HIDE DEF j, m
<1>3. j * tile < m * tile /\ b < (j + 1) * tile
  BY <1>1, <1>2
<1>4. j < m
  BY <1>1, <1>2, <1>3, MulReflects
<1>5. ASSUME NEW k \in Nat, k * tile <= b, b < (k + 1) * tile PROVE k = j
  <2>1. k * tile < (j + 1) * tile /\ j * tile < (k + 1) * tile
    BY <1>1, <1>3, <1>5
  <2>2. k < j + 1 /\ j < k + 1
    BY <1>1, <2>1, MulReflects
  <2>3. QED
    BY <1>1, <2>2
<1>6. b < Lesser((j + 1) * tile, len)
  BY <1>3 DEF Lesser
<1>7. QED
  BY <1>1, <1>2, <1>4, <1>5, <1>6 DEF j, m

\* A tile that there is starts inside the run, is not empty and ends inside it.
LEMMA TileInside ==
    ASSUME NEW len \in Nat, NEW tile \in Nat \ {0}, NEW j \in 0 .. CeilDiv(len, tile) - 1
    PROVE  /\ j * tile \in Nat /\ (j + 1) * tile \in Nat
           /\ Lesser((j + 1) * tile, len) \in Nat
           /\ j * tile < Lesser((j + 1) * tile, len)
           /\ Lesser((j + 1) * tile, len) <= len
           /\ Lesser((j + 1) * tile, len) <= (j + 1) * tile
<1> DEFINE m == CeilDiv(len, tile)
<1>1. m \in Nat /\ m * tile < len + tile
  BY CeilBounds
<1> HIDE DEF m
<1>2. j \in Nat /\ j + 1 <= m
  BY <1>1 DEF m
<1>3. (j + 1) * tile <= m * tile
  BY <1>1, <1>2, MulMonotone
<1>4. j * tile \in Nat /\ (j + 1) * tile = j * tile + tile
  BY <1>2
<1>5. j * tile < len
  BY <1>1, <1>3, <1>4
<1>6. QED
  BY <1>4, <1>5 DEF Lesser

-----------------------------------------------------------------------------
(* Launches: what they copy, and that they copy it once.                   *)

\* The i-th task of program pid in launch l.
InLaunch(l, pid, i) == pid \in DOMAIN l.programs /\ i \in 1 .. Len(l.programs[pid])

\* It copies byte b of the peer's slice,
Holds(l, pid, i, peer, b) ==
    /\ InLaunch(l, pid, i)
    /\ l.programs[pid][i].peer = peer
    /\ l.programs[pid][i].from <= b /\ b < l.programs[pid][i].to

\* and no other task of the launch does.
Once(l, peer, b) ==
    \E pid, i :
        /\ Holds(l, pid, i, peer, b)
        /\ \A other, k : Holds(l, other, k, peer, b) => other = pid /\ k = i

\* A task stays inside the slice and its accesses are aligned.
LegalTask(c, task) ==
    /\ task.peer \in 0 .. c.size - 1
    /\ task.from \in Nat /\ task.to \in Nat
    /\ task.from < task.to /\ task.to <= c.slice
    /\ \A a \in Accesses(task) :
          /\ (c.out + task.peer * c.slice + a.from) % a.width = 0
          /\ (a.src + a.from) % a.width = 0

\* A launch that copies only the bytes a .. e-1 of each slice.
LaunchOK(c, l, a, e) ==
    /\ l.stride = c.slice
    /\ \A pid \in DOMAIN l.programs :
          /\ Len(l.programs[pid]) \in Nat
          /\ \A i \in 1 .. Len(l.programs[pid]) :
                /\ LegalTask(c, l.programs[pid][i])
                /\ a <= l.programs[pid][i].from /\ l.programs[pid][i].to <= e

CallOK(c) == c \in Call /\ PlaceOK(c)

\* The rank's offset in a peer's comm_buf is a number of slices.
LEMMA SourceBaseFacts ==
    ASSUME NEW c, CallOK(c)
    PROVE  /\ SourceBase(c) \in Nat
           /\ \A w \in Width : c.slice % w = 0 => SourceBase(c) % w = 0
<1>1. c.self \in Nat /\ c.slice \in Nat
  BY DEF CallOK, Call
<1>2. CASE c.op = "all2all"
  <2>1. SourceBase(c) = c.self * c.slice
    BY <1>2 DEF SourceBase
  <2>2. SourceBase(c) \in Nat
    BY <1>1, <2>1
  <2>3. ASSUME NEW w \in Width, c.slice % w = 0 PROVE SourceBase(c) % w = 0
    <3>1. w \in Nat \ {0}
      BY DEF Width
    <3>2. (c.self * c.slice) % w = 0
      BY <1>1, <2>3, <3>1, ProductOfMultiple
    <3>3. QED
      BY <2>1, <3>2
  <2>4. QED
    BY <2>2, <2>3
<1>3. CASE c.op # "all2all"
  <2>1. SourceBase(c) = 0
    BY <1>3 DEF SourceBase
  <2>2. QED
    BY <2>1 DEF Width
<1>4. QED
  BY <1>2, <1>3

\* A task whose width divides the addresses and the slice is legal.
LEMMA AlignedTask ==
    ASSUME NEW c, CallOK(c), NEW peer \in 0 .. c.size - 1,
           NEW from \in Nat, NEW to \in Nat, from < to, to <= c.slice,
           NEW w \in Width, NEW src \in Nat,
           c.out % w = 0, c.slice % w = 0, from % w = 0, src % w = 0
    PROVE  LegalTask(c, [peer |-> peer, from |-> from, to |-> to, width |-> w, src |-> src])
<1> DEFINE task == [peer |-> peer, from |-> from, to |-> to, width |-> w, src |-> src]
           bulk == from + ((to - from) \div w) * w
           at == c.out + peer * c.slice
<1>1. w \in Nat \ {0} /\ c.out \in Nat /\ c.slice \in Nat /\ peer \in Nat
  BY DEF Width, CallOK, Call
<1>2. bulk \in Nat
  <2>1. to - from \in Nat
    OBVIOUS
  <2>2. (to - from) \div w \in Nat
    BY <1>1, <2>1, DivBounds
  <2>3. QED
    BY <1>1, <2>2
<1>3. at \in Nat /\ peer * c.slice \in Nat
  BY <1>1
<1>4. (peer * c.slice) % w = 0
  BY <1>1, ProductOfMultiple
<1>5. at % w = 0
  BY <1>1, <1>3, <1>4, SumOfMultiples
<1>6. (at + from) % w = 0
  BY <1>1, <1>3, <1>5, SumOfMultiples
<1>7. (src + from) % w = 0
  BY <1>1, SumOfMultiples
<1>8. ASSUME NEW a \in Accesses(task)
      PROVE  (at + a.from) % a.width = 0 /\ (a.src + a.from) % a.width = 0
  <2>1. \/ a = [peer |-> peer, from |-> from, to |-> bulk, width |-> w, src |-> src]
        \/ a = [peer |-> peer, from |-> bulk, to |-> to, width |-> 1, src |-> src]
    <3> HIDE DEF bulk
    <3>1. a = [task EXCEPT !.to = bulk] \/ a = [task EXCEPT !.from = bulk, !.width = 1]
      BY DEF Accesses, bulk
    <3>2. QED
      BY <3>1
  <2> HIDE DEF bulk, at
  <2>2. (at + bulk) % 1 = 0 /\ (src + bulk) % 1 = 0
    BY <1>2, <1>3
  <2>3. QED
    BY <1>6, <1>7, <2>1, <2>2
<1>9. QED
  <2>1. \A a \in Accesses(task) :
          /\ (c.out + task.peer * c.slice + a.from) % a.width = 0
          /\ (a.src + a.from) % a.width = 0
    BY <1>8
  <2> HIDE DEF bulk
  <2>2. /\ task.peer = peer /\ task.from = from /\ task.to = to
    OBVIOUS
  <2> HIDE DEF task
  <2>3. QED
    BY <2>1, <2>2 DEF LegalTask, task

\* The programs of a launch loop over the tiles of all peers, m for each: tile
\* t \div size, from lo to hi, of the peer at place t % size.
Loops(c, l, m, stride, grid, lo, hi) ==
    /\ grid \in Nat /\ grid <= stride
    /\ grid = stride \/ c.size * m <= grid
    /\ DOMAIN l.programs = 0 .. grid - 1
    /\ \A pid \in 0 .. grid - 1 :
          LET loop == LoopTasks(pid, c.size * m, stride)
          IN  /\ Len(l.programs[pid]) = Len(loop)
              /\ \A i \in 1 .. Len(loop) :
                    /\ l.programs[pid][i].peer = Swizzle(c, loop[i] % c.size)
                    /\ l.programs[pid][i].from = lo[loop[i] \div c.size]
                    /\ l.programs[pid][i].to = hi[loop[i] \div c.size]

\* Tile j has the byte, and no other tile has it.
InTile(m, lo, hi, j, b) ==
    /\ j \in 0 .. m - 1
    /\ lo[j] <= b /\ b < hi[j]
    /\ \A k \in 0 .. m - 1 : lo[k] <= b /\ b < hi[k] => k = j

\* Such a launch copies a byte once if one tile has it.
LEMMA LoopLaunch ==
    ASSUME NEW c, PlaceOK(c), NEW l, NEW m \in Nat, NEW stride \in Nat \ {0},
           NEW grid, NEW lo, NEW hi, Loops(c, l, m, stride, grid, lo, hi),
           NEW peer \in 0 .. c.size - 1, NEW b, NEW j, InTile(m, lo, hi, j, b)
    PROVE  Once(l, peer, b)
<1> DEFINE size == c.size
           total == size * m
           loop(pid) == LoopTasks(pid, total, stride)
<1>1. size \in Nat \ {0} /\ total \in Nat
  BY DEF PlaceOK
<1>2. /\ j \in 0 .. m - 1 /\ lo[j] <= b /\ b < hi[j]
      /\ \A k \in 0 .. m - 1 : lo[k] <= b /\ b < hi[k] => k = j
      /\ grid \in Nat /\ grid <= stride /\ (grid = stride \/ total <= grid)
      /\ DOMAIN l.programs = 0 .. grid - 1
  BY DEF InTile, Loops
<1>3. ASSUME NEW pid \in 0 .. grid - 1
      PROVE  /\ pid \in 0 .. stride - 1
             /\ Len(loop(pid)) \in Nat
             /\ Len(l.programs[pid]) = Len(loop(pid))
             /\ \A i \in 1 .. Len(loop(pid)) :
                   /\ loop(pid)[i] \in 0 .. total - 1
                   /\ l.programs[pid][i].peer = Swizzle(c, loop(pid)[i] % size)
                   /\ l.programs[pid][i].from = lo[loop(pid)[i] \div size]
                   /\ l.programs[pid][i].to = hi[loop(pid)[i] \div size]
  <2>1. pid \in Nat /\ pid \in 0 .. stride - 1
    BY <1>2
  <2> DEFINE tasks == LoopTasks(pid, total, stride)
  <2> HIDE DEF total
  <2>2. /\ Len(tasks) \in Nat /\ DOMAIN tasks = 1 .. Len(tasks)
        /\ \A i \in 1 .. Len(tasks) :
              tasks[i] = pid + (i - 1) * stride /\ tasks[i] \in 0 .. total - 1
        /\ \A i \in Nat \ {0} : pid + (i - 1) * stride < total => i <= Len(tasks)
    BY <1>1, <2>1, LoopFacts, Zenon
  <2> USE DEF total
  <2>3. /\ Len(l.programs[pid]) = Len(tasks)
        /\ \A i \in 1 .. Len(tasks) :
                        /\ l.programs[pid][i].peer = Swizzle(c, tasks[i] % c.size)
                        /\ l.programs[pid][i].from = lo[tasks[i] \div c.size]
                        /\ l.programs[pid][i].to = hi[tasks[i] \div c.size]
    BY DEF Loops
  <2> HIDE DEF tasks, total
  <2>4. loop(pid) = tasks
    BY DEF tasks
  <2> HIDE DEF loop
  <2>5. QED
    BY <2>1, <2>2, <2>3, <2>4
<1>4. PICK d \in 0 .. size - 1 : Swizzle(c, d) = peer
  BY SwizzleFacts
<1>5. \A e \in 0 .. size - 1 : Swizzle(c, e) = peer => e = d
  BY <1>4, SwizzleFacts
<1> DEFINE t == j * size + d
<1> HIDE DEF size
<1>6. t \in 0 .. total - 1
  <2>1. (j + 1) * size <= m * size /\ j * size \in Nat
    BY <1>2, <1>1, MulMonotone
  <2>2. t < (j + 1) * size
    BY <1>2, <1>1, <1>4
  <2>3. QED
    BY <1>2, <1>1, <1>4, <2>1, <2>2
<1> HIDE DEF total
<1>7. t % size = d /\ t \div size = j
  <2>1. t \in Nat /\ d \in 0 .. size - 1 /\ j \in Nat
    BY <1>2, <1>1, <1>4, <1>6
  <2>2. QED
    BY <1>1, <2>1, DivUnique
<1>8. ASSUME NEW u \in 0 .. total - 1, u % size = d, u \div size = j PROVE u = t
  <2>1. u \in Nat
    BY <1>1
  <2>2. u = (u \div size) * size + (u % size)
    BY <1>1, <2>1, DivMod
  <2>3. QED
    BY <1>8, <2>2
<1> HIDE DEF t
<1> DEFINE p == t % stride
           n == t \div stride + 1
<1>9. /\ p \in 0 .. stride - 1 /\ p <= t
      /\ n \in 1 .. Len(loop(p))
      /\ loop(p)[n] = t
      /\ \A pid \in 0 .. stride - 1 : \A i \in 1 .. Len(loop(pid)) :
            loop(pid)[i] = t => pid = p /\ i = n
  <2>1. total \in Nat /\ stride \in Nat \ {0} /\ t \in 0 .. total - 1
    BY <1>1, <1>6
  <2> HIDE DEF p, n, loop
  <2>2. \A s \in 0 .. total - 1 :
           LET q == s % stride
               i == s \div stride + 1
           IN  /\ q \in 0 .. stride - 1 /\ q <= s
               /\ i \in 1 .. Len(LoopTasks(q, total, stride))
               /\ LoopTasks(q, total, stride)[i] = s
               /\ \A pid \in 0 .. stride - 1 :
                     \A k \in 1 .. Len(LoopTasks(pid, total, stride)) :
                        LoopTasks(pid, total, stride)[k] = s => pid = q /\ k = i
    BY <2>1, LoopOnce, Zenon
  <2>3. QED
    BY <2>1, <2>2, Zenon DEF p, n, loop
<1> HIDE DEF p, n, loop
<1>10. p \in 0 .. grid - 1
  <2>1. p \in 0 .. stride - 1 /\ p < total
    BY <1>1, <1>6, <1>9
  <2>2. CASE grid = stride
    BY <2>1, <2>2
  <2>3. CASE total <= grid
    BY <1>2, <1>1, <2>1, <2>3
  <2>4. QED
    BY <1>2, <2>2, <2>3
<1>11. Holds(l, p, n, peer, b)
  <2>1. l.programs[p][n].peer = peer /\ l.programs[p][n].from = lo[j] /\ l.programs[p][n].to = hi[j]
    BY <1>3, <1>4, <1>7, <1>9, <1>10
  <2>2. InLaunch(l, p, n)
    BY <1>2, <1>3, <1>9, <1>10 DEF InLaunch
  <2>3. QED
    BY <1>2, <2>1, <2>2 DEF Holds
<1>12. ASSUME NEW pid, NEW i, Holds(l, pid, i, peer, b) PROVE pid = p /\ i = n
  <2> DEFINE u == loop(pid)[i]
  <2>1. pid \in 0 .. grid - 1 /\ i \in 1 .. Len(l.programs[pid])
    BY <1>2, <1>12 DEF Holds, InLaunch
  <2>2. i \in 1 .. Len(loop(pid)) /\ pid \in 0 .. stride - 1
    BY <1>3, <2>1
  <2>3. /\ u \in 0 .. total - 1
        /\ l.programs[pid][i].peer = Swizzle(c, u % size)
        /\ l.programs[pid][i].from = lo[u \div size]
        /\ l.programs[pid][i].to = hi[u \div size]
    BY <1>3, <2>1, <2>2
  <2> HIDE DEF u
  <2>4. Swizzle(c, u % size) = peer /\ lo[u \div size] <= b /\ b < hi[u \div size]
    BY <1>12, <2>3 DEF Holds
  <2>5. u \in Nat /\ u % size \in 0 .. size - 1 /\ u \div size \in Nat
    <3>1. u \in Nat
      BY <1>1, <2>3
    <3>2. u \div size \in Nat
      BY <1>1, <3>1, DivBounds
    <3>3. u % size \in 0 .. size - 1
      BY <1>1, <3>1
    <3>4. QED
      BY <3>1, <3>2, <3>3
  <2>6. u % size = d
    BY <1>5, <2>4, <2>5
  <2>7. u \div size < m
    <3> DEFINE q == u \div size
    <3>1. q * size <= u /\ u < total
      <4>1. u \in Nat /\ u < total
        BY <1>1, <2>3
      <4>2. QED
        BY <1>1, <4>1, DivBounds
    <3> HIDE DEF q
    <3>2. q * size < m * size
      BY <1>1, <2>5, <3>1 DEF total, q
    <3>3. q < m
      BY <1>1, <2>5, <3>2, MulReflects DEF q
    <3>4. QED
      BY <3>3 DEF q
  <2>8. u \div size = j
    BY <1>2, <2>4, <2>5, <2>7
  <2>9. u = t
    BY <1>8, <2>3, <2>6, <2>8
  <2>10. QED
    BY <1>9, <2>2, <2>9 DEF u
<1>13. QED
  BY <1>11, <1>12 DEF Once

\* A vector launch over the bytes base .. base + bytes - 1 of every slice copies
\* each of them once, at a width that divides them and their addresses.
LEMMA VecLaunchCopies ==
    ASSUME NEW c, CallOK(c), NEW base \in Nat, NEW bytes \in Nat \ {0},
           base + bytes <= c.slice,
           LET w == LaunchWidth(c, base, bytes)
           IN  /\ w \in Width /\ bytes % w = 0 /\ base % w = 0
               /\ c.slice % w = 0 /\ c.out % w = 0
    PROVE  LET l == VecLaunch(c, base, bytes)
           IN  /\ LaunchOK(c, l, base, base + bytes)
               /\ \A peer \in 0 .. c.size - 1, b \in base .. base + bytes - 1 : Once(l, peer, b)
<1> DEFINE l == VecLaunch(c, base, bytes)
           width == LaunchWidth(c, base, bytes)
           nFull == bytes \div width
           tile == (IF BlockBytes \div width > 1 THEN BlockBytes \div width ELSE 1)
           m == CeilDiv(nFull, tile)
           total == c.size * m
           hasTail == bytes % width # 0
           least == IF hasTail THEN c.size ELSE 1
           grid == Lesser(c.sms, IF total > least THEN total ELSE least)
           loop(pid) == LoopTasks(pid, total, grid)
           lo == [k \in 0 .. m - 1 |-> base + k * tile * width]
           hi == [k \in 0 .. m - 1 |-> base + Lesser((k + 1) * tile, nFull) * width]
           Tile(t) ==
              Copy(c, Swizzle(c, t % c.size),
                   base + (t \div c.size) * tile * width,
                   base + Lesser((t \div c.size + 1) * tile, nFull) * width, width)
           Program(pid) == [i \in DOMAIN loop(pid) |-> Tile(loop(pid)[i])]
<1>1. /\ c.size \in Nat \ {0} /\ c.slice \in Nat /\ c.out \in Nat /\ c.sms \in Nat \ {0}
      /\ PlaceOK(c)
  BY DEF CallOK, Call, PlaceOK
<1>2. /\ width \in Width /\ width \in Nat \ {0} /\ bytes % width = 0 /\ base % width = 0
      /\ c.slice % width = 0 /\ c.out % width = 0
  BY DEF Width
<1>3. nFull \in Nat /\ bytes = nFull * width
  <2> HIDE DEF width
  <2>1. nFull \in Nat /\ bytes = nFull * width + (bytes % width)
    BY <1>2, DivBounds, DivMod
  <2>2. QED
    BY <1>2, <2>1
<1>4. tile \in Nat \ {0}
  <2> HIDE DEF width
  <2>1. BlockBytes \div width \in Nat
    BY <1>2, BytesAssumption, DivBounds
  <2>2. QED
    BY <2>1
<1>5. ~ hasTail
  <2> HIDE DEF width
  <2>1. QED
    BY <1>2
<1>6. l = [stride |-> c.slice, width |-> width, programs |-> [pid \in 0 .. grid - 1 |-> Program(pid)]]
  <2> DEFINE Rest(pid) ==
                Copy(c, Swizzle(c, pid), base + nFull * width, base + bytes, 1)
             More(pid) == IF hasTail /\ pid < c.size THEN <<Rest(pid)>> ELSE << >>
  <2>1. l = [stride |-> PeerStride(c, bytes), width |-> width,
             programs |-> [pid \in 0 .. grid - 1 |-> Program(pid) \o More(pid)]]
    BY Zenon DEF VecLaunch
  <2> HIDE DEF hasTail, l, width, grid, Program, Rest
  <2>2. \A pid : More(pid) = << >>
    BY <1>5
  <2> HIDE DEF More
  <2>3. l = [stride |-> PeerStride(c, bytes), width |-> width,
             programs |-> [pid \in 0 .. grid - 1 |-> Program(pid) \o << >>]]
    BY <2>1, <2>2
  <2> USE DEF l, width, grid, Program, hasTail
  <2>4. ASSUME NEW pid \in 0 .. grid - 1 PROVE Program(pid) \o << >> = Program(pid)
    OBVIOUS
  <2> HIDE DEF l, width, grid, Program
  <2>5. [pid \in 0 .. grid - 1 |-> Program(pid) \o << >>] = [pid \in 0 .. grid - 1 |-> Program(pid)]
    BY <2>4
  <2>6. QED
    BY <2>3, <2>5 DEF PeerStride
<1> HIDE DEF l, width, nFull, tile
<1>7. m \in Nat /\ m >= 1
  <2>1. nFull # 0
    BY <1>2, <1>3
  <2>2. QED
    BY <1>3, <1>4, <2>1, CeilBounds, CeilPositive
<1>8. total \in Nat /\ grid \in Nat \ {0} /\ (grid = grid \/ total <= grid)
  <2> HIDE DEF m
  <2>1. total \in Nat
    BY <1>1, <1>7
  <2> HIDE DEF hasTail, total
  <2>2. QED
    BY <1>1, <1>5, <2>1 DEF Lesser
<1> HIDE DEF m, total, grid
<1>9. ASSUME NEW pid \in 0 .. grid - 1
      PROVE  /\ Len(loop(pid)) \in Nat
             /\ Len(Program(pid)) = Len(loop(pid))
             /\ \A i \in 1 .. Len(loop(pid)) :
                   /\ loop(pid)[i] \in 0 .. total - 1
                   /\ Program(pid)[i] = Tile(loop(pid)[i])
  <2>1. pid \in Nat
    BY <1>8
  <2> DEFINE tasks == LoopTasks(pid, total, grid)
  <2>2. /\ Len(tasks) \in Nat /\ DOMAIN tasks = 1 .. Len(tasks)
        /\ \A i \in 1 .. Len(tasks) :
              tasks[i] = pid + (i - 1) * grid /\ tasks[i] \in 0 .. total - 1
        /\ \A i \in Nat \ {0} : pid + (i - 1) * grid < total => i <= Len(tasks)
    BY <1>8, <2>1, LoopFacts, Zenon
  <2> HIDE DEF tasks, Tile
  <2>3. Program(pid) = [i \in 1 .. Len(tasks) |-> Tile(tasks[i])]
    BY <2>2 DEF tasks
  <2>4. loop(pid) = tasks
    BY DEF tasks
  <2> HIDE DEF Program, loop
  <2>5. QED
    BY <2>2, <2>3, <2>4
<1>10. ASSUME NEW t \in 0 .. total - 1
      PROVE  /\ t % c.size \in 0 .. c.size - 1 /\ t \div c.size \in 0 .. m - 1
             /\ Tile(t) = [peer |-> Swizzle(c, t % c.size), from |-> lo[t \div c.size],
                           to |-> hi[t \div c.size], width |-> width, src |-> SourceBase(c)]
  <2> DEFINE q == t \div c.size
  <2>1. t \in Nat /\ t < c.size * m
    BY <1>8 DEF total
  <2>2. t % c.size \in 0 .. c.size - 1
    BY <1>1, <2>1
  <2>3. q \in Nat /\ q * c.size <= t
    BY <1>1, <2>1, DivBounds
  <2> HIDE DEF q
  <2>4. q * c.size < m * c.size
    BY <1>1, <1>7, <2>1, <2>3
  <2>5. q < m
    BY <1>1, <1>7, <2>3, <2>4, MulReflects
  <2>6. q \in 0 .. m - 1
    BY <1>7, <2>3, <2>5
  <2>7. lo[q] = base + q * tile * width /\ hi[q] = base + Lesser((q + 1) * tile, nFull) * width
    BY <2>6
  <2> HIDE DEF lo, hi
  <2>8. Tile(t) = [peer |-> Swizzle(c, t % c.size), from |-> lo[q],
                   to |-> hi[q], width |-> width, src |-> SourceBase(c)]
    BY <2>7, Zenon DEF Copy, q
  <2>9. QED
    BY <2>2, <2>6, <2>8, Zenon DEF q
<1>11. ASSUME NEW k \in 0 .. m - 1
       PROVE  /\ lo[k] \in Nat /\ hi[k] \in Nat
              /\ base <= lo[k] /\ lo[k] < hi[k] /\ hi[k] <= base + bytes
              /\ lo[k] = base + (k * tile) * width
              /\ hi[k] = base + Lesser((k + 1) * tile, nFull) * width
  <2> DEFINE e == Lesser((k + 1) * tile, nFull)
  <2>1. k * tile \in Nat /\ e \in Nat /\ k * tile < e /\ e <= nFull
    BY <1>3, <1>4, TileInside DEF m
  <2>2. lo[k] = base + (k * tile) * width /\ hi[k] = base + e * width
    OBVIOUS
  <2> HIDE DEF e, lo, hi
  <2>3. (k * tile) * width < e * width
    BY <1>2, <2>1
  <2>4. e * width <= nFull * width
    BY <1>2, <1>3, <2>1, MulMonotone
  <2>5. (k * tile) * width \in Nat /\ e * width \in Nat
    BY <1>2, <2>1
  <2>6. QED
    BY <1>3, <2>2, <2>3, <2>4, <2>5 DEF e
<1>12. LaunchOK(c, l, base, base + bytes)
  <2>1. l.stride = c.slice /\ DOMAIN l.programs = 0 .. grid - 1
    BY <1>6
  <2>2. ASSUME NEW pid \in 0 .. grid - 1
        PROVE  /\ Len(l.programs[pid]) \in Nat
               /\ \A i \in 1 .. Len(l.programs[pid]) :
                     /\ LegalTask(c, l.programs[pid][i])
                     /\ base <= l.programs[pid][i].from /\ l.programs[pid][i].to <= base + bytes
    <3>1. l.programs[pid] = Program(pid)
      BY <1>6
    <3> HIDE DEF Program, Tile, loop
    <3>2. ASSUME NEW i \in 1 .. Len(Program(pid))
          PROVE  /\ LegalTask(c, Program(pid)[i])
                 /\ base <= Program(pid)[i].from /\ Program(pid)[i].to <= base + bytes
      <4> DEFINE t == loop(pid)[i]
                 k == t \div c.size
                 peer == Swizzle(c, t % c.size)
      <4>1. t \in 0 .. total - 1 /\ Program(pid)[i] = Tile(t)
        BY <1>9, <3>2
      <4> HIDE DEF t
      <4>2. /\ t % c.size \in 0 .. c.size - 1 /\ k \in 0 .. m - 1
            /\ Tile(t) = [peer |-> peer, from |-> lo[k], to |-> hi[k],
                          width |-> width, src |-> SourceBase(c)]
        BY <1>10, <4>1
      <4>3. peer \in 0 .. c.size - 1
        BY <1>1, <4>2, SwizzleFacts
      <4> HIDE DEF k, peer, lo, hi
      <4>4. /\ lo[k] \in Nat /\ hi[k] \in Nat
            /\ base <= lo[k] /\ lo[k] < hi[k] /\ hi[k] <= base + bytes
            /\ lo[k] = base + (k * tile) * width
        BY <1>11, <4>2
      <4>5. hi[k] <= c.slice
        BY <1>1, <4>4
      <4>6. lo[k] % width = 0
        <5>1. k * tile \in Nat /\ (k * tile) * width \in Nat
          BY <1>2, <1>4, <4>2
        <5>2. ((k * tile) * width) % width = 0
          BY <1>2, <5>1, MultipleMod
        <5>3. QED
          BY <1>2, <4>4, <5>1, <5>2, SumOfMultiples
      <4>7. SourceBase(c) \in Nat /\ SourceBase(c) % width = 0
        BY <1>2, SourceBaseFacts
      <4>8. LegalTask(c, [peer |-> peer, from |-> lo[k], to |-> hi[k],
                          width |-> width, src |-> SourceBase(c)])
        BY <1>2, <4>3, <4>4, <4>5, <4>6, <4>7, AlignedTask
      <4>9. QED
        BY <4>1, <4>2, <4>4, <4>8
    <3>3. Len(Program(pid)) \in Nat
      BY <1>9
    <3>4. QED
      BY <3>1, <3>2, <3>3
  <2>3. QED
    BY <2>1, <2>2 DEF LaunchOK
<1>13. ASSUME NEW peer \in 0 .. c.size - 1, NEW b \in base .. base + bytes - 1
       PROVE  Once(l, peer, b)
  <2> DEFINE x == b - base
             y == x \div width
             j == y \div tile
  <2>1. x \in Nat /\ x < bytes /\ b = base + x
    BY <1>1
  <2> HIDE DEF x
  <2>2. y \in Nat /\ y * width <= x /\ x < (y + 1) * width
    <3>1. y \in Nat /\ y * width <= x /\ x < y * width + width
      BY <1>2, <2>1, DivBounds
    <3> HIDE DEF y
    <3>2. QED
      BY <1>2, <3>1
  <2> HIDE DEF y
  <2>3. y \in 0 .. nFull - 1
    <3>1. y * width < nFull * width
      BY <1>2, <1>3, <2>1, <2>2
    <3>2. QED
      BY <1>2, <1>3, <2>2, <3>1, MulReflects
  <2>4. /\ j \in 0 .. m - 1
        /\ j * tile <= y /\ y < Lesser((j + 1) * tile, nFull)
        /\ \A k \in Nat : k * tile <= y /\ y < (k + 1) * tile => k = j
    BY <1>3, <1>4, <2>3, TileOnce DEF m
  <2> HIDE DEF j, lo, hi
  <2>5. ASSUME NEW k \in 0 .. m - 1
        PROVE  lo[k] <= b /\ b < hi[k]
                  <=> k * tile <= y /\ y < Lesser((k + 1) * tile, nFull)
    <3> DEFINE e == Lesser((k + 1) * tile, nFull)
               f == k * tile
    <3>1. f \in Nat /\ e \in Nat
      BY <1>3, <1>4, TileInside DEF m
    <3>2. lo[k] = base + f * width /\ hi[k] = base + e * width
      BY <1>11
    <3> HIDE DEF e, f
    <3>3. lo[k] <= b /\ b < hi[k] <=> f * width <= x /\ x < e * width
      <4>1. f * width \in Nat /\ e * width \in Nat
        BY <1>2, <3>1
      <4>2. QED
        BY <2>1, <3>2, <4>1
    <3>4. ASSUME f * width <= x, x < e * width PROVE f <= y /\ y < e
      <4>1. f * width < (y + 1) * width /\ y * width < e * width
        BY <1>2, <2>1, <2>2, <3>1, <3>4
      <4>2. f < y + 1 /\ y < e
        BY <1>2, <2>2, <3>1, <4>1, MulReflects
      <4>3. QED
        BY <2>2, <3>1, <4>2
    <3>5. ASSUME f <= y, y < e PROVE f * width <= x /\ x < e * width
      <4>1. f * width <= y * width /\ (y + 1) * width <= e * width
        BY <1>2, <2>2, <3>1, <3>5, MulMonotone
      <4>2. QED
        BY <1>2, <2>1, <2>2, <3>1, <4>1
    <3>6. QED
      BY <3>3, <3>4, <3>5 DEF e, f
  <2>6. lo[j] <= b /\ b < hi[j]
    BY <2>4, <2>5
  <2>7. ASSUME NEW k \in 0 .. m - 1, lo[k] <= b, b < hi[k] PROVE k = j
    <3>1. k * tile <= y /\ y < Lesser((k + 1) * tile, nFull)
      BY <2>5, <2>7
    <3>2. Lesser((k + 1) * tile, nFull) <= (k + 1) * tile
      BY <1>3, <1>4, TileInside DEF m
    <3>3. k \in Nat /\ (k + 1) * tile \in Nat /\ Lesser((k + 1) * tile, nFull) \in Nat
      BY <1>3, <1>4, TileInside DEF m
    <3>4. QED
      BY <2>2, <2>4, <3>1, <3>2, <3>3
  <2>8. ASSUME NEW pid \in 0 .. grid - 1
        PROVE  LET tasks == LoopTasks(pid, c.size * m, grid)
               IN  /\ Len(l.programs[pid]) = Len(tasks)
                   /\ \A i \in 1 .. Len(tasks) :
                         /\ l.programs[pid][i].peer = Swizzle(c, tasks[i] % c.size)
                         /\ l.programs[pid][i].from = lo[tasks[i] \div c.size]
                         /\ l.programs[pid][i].to = hi[tasks[i] \div c.size]
    <3>1. l.programs[pid] = Program(pid)
      BY <1>6
    <3>2. loop(pid) = LoopTasks(pid, c.size * m, grid)
      BY DEF total
    <3> HIDE DEF Program, loop, Tile
    <3>3. ASSUME NEW i \in 1 .. Len(loop(pid))
          PROVE  /\ Program(pid)[i].peer = Swizzle(c, loop(pid)[i] % c.size)
                 /\ Program(pid)[i].from = lo[loop(pid)[i] \div c.size]
                 /\ Program(pid)[i].to = hi[loop(pid)[i] \div c.size]
      BY <1>9, <1>10
    <3>4. QED
      BY <1>9, <3>1, <3>2, <3>3
  <2>9. DOMAIN l.programs = 0 .. grid - 1
    BY <1>6
  <2>10. InTile(m, lo, hi, j, b)
    BY <2>4, <2>6, <2>7 DEF InTile
  <2>11. Loops(c, l, m, grid, grid, lo, hi)
    BY <1>8, <2>8, <2>9 DEF Loops
  <2>12. QED
    BY <1>1, <1>7, <1>8, <2>10, <2>11, LoopLaunch
<1>14. QED
  BY <1>12, <1>13 DEF l

\* The TMA launch copies every byte of every slice once; its gates make the boxes
\* aligned.
LEMMA TmaLaunchCopies ==
    ASSUME NEW c, CallOK(c), TmaAllowed(c)
    PROVE  LET l == TmaLaunch(c)
           IN  /\ LaunchOK(c, l, 0, c.slice)
               /\ \A peer \in 0 .. c.size - 1, b \in 0 .. c.slice - 1 : Once(l, peer, b)
<1> DEFINE l == TmaLaunch(c)
           m == CeilDiv(c.slice, BlockBytes)
           total == c.size * m
           grid == Lesser(c.sms, total)
           loop(pid) == LoopTasks(pid, total, c.sms)
           lo == [k \in 0 .. m - 1 |-> k * BlockBytes]
           hi == [k \in 0 .. m - 1 |-> Lesser((k + 1) * BlockBytes, c.slice)]
           Box(t) ==
              Copy(c, Swizzle(c, t % c.size), (t \div c.size) * BlockBytes,
                   Lesser((t \div c.size + 1) * BlockBytes, c.slice), 16)
           Program(pid) == [i \in DOMAIN loop(pid) |-> Box(loop(pid)[i])]
<1>1. /\ c.size \in Nat \ {0} /\ c.slice \in Nat /\ c.out \in Nat /\ c.sms \in Nat \ {0}
      /\ PlaceOK(c)
  BY DEF CallOK, Call, PlaceOK
<1>2. c.slice % 16 = 0 /\ c.out % 16 = 0
  BY DEF TmaAllowed
<1>3. BlockBytes \in Nat \ {0} /\ BlockBytes % 16 = 0
  BY BytesAssumption
<1>4. l = [stride |-> c.slice, width |-> 16, programs |-> [pid \in 0 .. grid - 1 |-> Program(pid)]]
  BY DEF TmaLaunch
<1> HIDE DEF l
<1>5. m \in Nat
  BY <1>1, <1>3, CeilBounds
<1> HIDE DEF m
<1>6. total \in Nat
  BY <1>1, <1>5
<1> HIDE DEF total
<1>7. grid \in Nat /\ grid <= c.sms /\ (grid = c.sms \/ total <= grid)
  BY <1>1, <1>6 DEF Lesser
<1> HIDE DEF grid
<1>8. ASSUME NEW pid \in 0 .. grid - 1
      PROVE  /\ Len(loop(pid)) \in Nat
             /\ Len(Program(pid)) = Len(loop(pid))
             /\ \A i \in 1 .. Len(loop(pid)) :
                   /\ loop(pid)[i] \in 0 .. total - 1
                   /\ Program(pid)[i] = Box(loop(pid)[i])
  <2>1. pid \in Nat
    BY <1>7
  <2> DEFINE tasks == LoopTasks(pid, total, c.sms)
  <2>2. /\ Len(tasks) \in Nat /\ DOMAIN tasks = 1 .. Len(tasks)
        /\ \A i \in 1 .. Len(tasks) :
              tasks[i] = pid + (i - 1) * c.sms /\ tasks[i] \in 0 .. total - 1
        /\ \A i \in Nat \ {0} : pid + (i - 1) * c.sms < total => i <= Len(tasks)
    BY <1>1, <1>6, <2>1, LoopFacts, Zenon
  <2> HIDE DEF tasks, Box
  <2>3. Program(pid) = [i \in 1 .. Len(tasks) |-> Box(tasks[i])]
    BY <2>2 DEF tasks
  <2>4. loop(pid) = tasks
    BY DEF tasks
  <2> HIDE DEF Program, loop
  <2>5. QED
    BY <2>2, <2>3, <2>4
<1>9. ASSUME NEW t \in 0 .. total - 1
      PROVE  /\ t % c.size \in 0 .. c.size - 1 /\ t \div c.size \in 0 .. m - 1
             /\ Box(t) = [peer |-> Swizzle(c, t % c.size), from |-> lo[t \div c.size],
                          to |-> hi[t \div c.size], width |-> 16, src |-> SourceBase(c)]
  <2> DEFINE q == t \div c.size
  <2>1. t \in Nat /\ t < c.size * m
    BY <1>6 DEF total
  <2>2. t % c.size \in 0 .. c.size - 1
    BY <1>1, <2>1
  <2>3. q \in Nat /\ q * c.size <= t
    BY <1>1, <2>1, DivBounds
  <2> HIDE DEF q
  <2>4. q * c.size < m * c.size
    BY <1>1, <1>5, <2>1, <2>3
  <2>5. q < m
    BY <1>1, <1>5, <2>3, <2>4, MulReflects
  <2>6. q \in 0 .. m - 1
    BY <1>5, <2>3, <2>5
  <2>7. lo[q] = q * BlockBytes /\ hi[q] = Lesser((q + 1) * BlockBytes, c.slice)
    BY <2>6
  <2> HIDE DEF lo, hi
  <2>8. Box(t) = [peer |-> Swizzle(c, t % c.size), from |-> lo[q],
                  to |-> hi[q], width |-> 16, src |-> SourceBase(c)]
    BY <2>7, Zenon DEF Copy, q
  <2>9. QED
    BY <2>2, <2>6, <2>8, Zenon DEF q
<1>10. ASSUME NEW k \in 0 .. m - 1
       PROVE  /\ lo[k] \in Nat /\ hi[k] \in Nat
              /\ lo[k] < hi[k] /\ hi[k] <= c.slice
              /\ lo[k] = k * BlockBytes /\ hi[k] = Lesser((k + 1) * BlockBytes, c.slice)
              /\ hi[k] <= (k + 1) * BlockBytes /\ (k + 1) * BlockBytes \in Nat
  <2>1. lo[k] = k * BlockBytes /\ hi[k] = Lesser((k + 1) * BlockBytes, c.slice)
    OBVIOUS
  <2> HIDE DEF lo, hi
  <2>2. QED
    BY <1>1, <1>3, <2>1, TileInside DEF m
<1>11. LaunchOK(c, l, 0, c.slice)
  <2>1. l.stride = c.slice /\ DOMAIN l.programs = 0 .. grid - 1
    BY <1>4
  <2>2. ASSUME NEW pid \in 0 .. grid - 1
        PROVE  /\ Len(l.programs[pid]) \in Nat
               /\ \A i \in 1 .. Len(l.programs[pid]) :
                     /\ LegalTask(c, l.programs[pid][i])
                     /\ 0 <= l.programs[pid][i].from /\ l.programs[pid][i].to <= c.slice
    <3>1. l.programs[pid] = Program(pid)
      BY <1>4
    <3> HIDE DEF Program, Box, loop
    <3>2. ASSUME NEW i \in 1 .. Len(Program(pid))
          PROVE  /\ LegalTask(c, Program(pid)[i])
                 /\ 0 <= Program(pid)[i].from /\ Program(pid)[i].to <= c.slice
      <4> DEFINE t == loop(pid)[i]
                 k == t \div c.size
                 peer == Swizzle(c, t % c.size)
      <4>1. t \in 0 .. total - 1 /\ Program(pid)[i] = Box(t)
        BY <1>8, <3>2
      <4> HIDE DEF t
      <4>2. /\ t % c.size \in 0 .. c.size - 1 /\ k \in 0 .. m - 1
            /\ Box(t) = [peer |-> peer, from |-> lo[k], to |-> hi[k],
                         width |-> 16, src |-> SourceBase(c)]
        BY <1>9, <4>1
      <4>3. peer \in 0 .. c.size - 1
        BY <1>1, <4>2, SwizzleFacts
      <4> HIDE DEF k, peer, lo, hi
      <4>4. /\ lo[k] \in Nat /\ hi[k] \in Nat /\ lo[k] < hi[k] /\ hi[k] <= c.slice
            /\ lo[k] = k * BlockBytes
        BY <1>10, <4>2
      <4>5. lo[k] % 16 = 0
        <5>1. k \in Nat /\ 16 \in Nat \ {0}
          BY <4>2
        <5>2. (k * BlockBytes) % 16 = 0
          BY <1>3, <5>1, ProductOfMultiple
        <5>3. QED
          BY <4>4, <5>2
      <4>6. 16 \in Width
        BY DEF Width
      <4>7. SourceBase(c) \in Nat /\ SourceBase(c) % 16 = 0
        BY <1>2, <4>6, SourceBaseFacts
      <4>8. LegalTask(c, [peer |-> peer, from |-> lo[k], to |-> hi[k],
                          width |-> 16, src |-> SourceBase(c)])
        BY <1>2, <4>3, <4>4, <4>5, <4>6, <4>7, AlignedTask
      <4>9. QED
        BY <4>1, <4>2, <4>4, <4>8
    <3>3. Len(Program(pid)) \in Nat
      BY <1>8
    <3>4. QED
      BY <3>1, <3>2, <3>3
  <2>3. QED
    BY <2>1, <2>2 DEF LaunchOK
<1>12. ASSUME NEW peer \in 0 .. c.size - 1, NEW b \in 0 .. c.slice - 1
       PROVE  Once(l, peer, b)
  <2> DEFINE j == b \div BlockBytes
  <2>1. /\ j \in 0 .. m - 1
        /\ j * BlockBytes <= b /\ b < Lesser((j + 1) * BlockBytes, c.slice)
        /\ \A k \in Nat : k * BlockBytes <= b /\ b < (k + 1) * BlockBytes => k = j
    BY <1>1, <1>3, TileOnce DEF m
  <2> HIDE DEF j, lo, hi
  <2>2. lo[j] <= b /\ b < hi[j]
    BY <1>10, <2>1
  <2>3. ASSUME NEW k \in 0 .. m - 1, lo[k] <= b, b < hi[k] PROVE k = j
    BY <1>10, <2>1, <2>3
  <2>4. InTile(m, lo, hi, j, b)
    BY <2>1, <2>2, <2>3 DEF InTile
  <2>5. ASSUME NEW pid \in 0 .. grid - 1
        PROVE  LET tasks == LoopTasks(pid, c.size * m, c.sms)
               IN  /\ Len(l.programs[pid]) = Len(tasks)
                   /\ \A i \in 1 .. Len(tasks) :
                         /\ l.programs[pid][i].peer = Swizzle(c, tasks[i] % c.size)
                         /\ l.programs[pid][i].from = lo[tasks[i] \div c.size]
                         /\ l.programs[pid][i].to = hi[tasks[i] \div c.size]
    <3>1. l.programs[pid] = Program(pid)
      BY <1>4
    <3>2. loop(pid) = LoopTasks(pid, c.size * m, c.sms)
      BY DEF total
    <3> HIDE DEF Program, loop, Box
    <3>3. ASSUME NEW i \in 1 .. Len(loop(pid))
          PROVE  /\ Program(pid)[i].peer = Swizzle(c, loop(pid)[i] % c.size)
                 /\ Program(pid)[i].from = lo[loop(pid)[i] \div c.size]
                 /\ Program(pid)[i].to = hi[loop(pid)[i] \div c.size]
      BY <1>8, <1>9
    <3>4. QED
      BY <1>8, <3>1, <3>2, <3>3
  <2>6. DOMAIN l.programs = 0 .. grid - 1
    BY <1>4
  <2>7. Loops(c, l, m, c.sms, grid, lo, hi)
    BY <1>7, <2>5, <2>6 DEF Loops, total
  <2>8. QED
    BY <1>1, <1>5, <1>7, <2>4, <2>7, LoopLaunch
<1>13. QED
  BY <1>11, <1>12 DEF l

\* A copy of the copy engine takes the whole slice of one peer.
LEMMA MemcpyLaunchCopies ==
    ASSUME NEW c, CallOK(c), NEW d \in 0 .. c.size - 1
    PROVE  LET l == MemcpyLaunch(c, d)
           IN  /\ LaunchOK(c, l, 0, c.slice)
               /\ \A peer, b \in Nat :
                     (\E pid, i : Holds(l, pid, i, peer, b)) => peer = Swizzle(c, d)
               /\ \A b \in 0 .. c.slice - 1 : Once(l, Swizzle(c, d), b)
<1> DEFINE l == MemcpyLaunch(c, d)
           peer0 == Swizzle(c, d)
           task == [peer |-> peer0, from |-> 0, to |-> c.slice, width |-> 1,
                    src |-> SourceBase(c)]
<1>1. c.size \in Nat \ {0} /\ c.slice \in Nat \ {0} /\ c.out \in Nat /\ PlaceOK(c)
  BY DEF CallOK, Call, PlaceOK
<1>2. l = [stride |-> c.slice, width |-> 1, programs |-> [pid \in {0} |-> <<task>>]]
  BY DEF MemcpyLaunch, Copy
<1>3. peer0 \in 0 .. c.size - 1
  BY <1>1, SwizzleFacts
<1>4. LegalTask(c, task)
  <2>1. 1 \in Width
    BY DEF Width
  <2>2. SourceBase(c) \in Nat
    BY SourceBaseFacts
  <2>3. 0 % 1 = 0 /\ c.slice % 1 = 0 /\ c.out % 1 = 0 /\ SourceBase(c) % 1 = 0
    BY <1>1, <2>2
  <2> HIDE DEF peer0
  <2>4. QED
    BY <1>1, <1>3, <2>1, <2>2, <2>3, AlignedTask
<1>5. task.peer = peer0 /\ task.from = 0 /\ task.to = c.slice
  OBVIOUS
<1> HIDE DEF l, task, peer0
<1>6. \A pid, i : InLaunch(l, pid, i) <=> pid = 0 /\ i = 1
  BY <1>2 DEF InLaunch
<1>7. l.programs[0][1] = task /\ DOMAIN l.programs = {0} /\ Len(l.programs[0]) = 1
  BY <1>2
<1>8. LaunchOK(c, l, 0, c.slice)
  BY <1>1, <1>2, <1>4, <1>5, <1>7 DEF LaunchOK
<1>9. \A peer, b, pid, i : Holds(l, pid, i, peer, b) =>
                              pid = 0 /\ i = 1 /\ peer = peer0
  BY <1>5, <1>6, <1>7 DEF Holds
<1>10. ASSUME NEW b \in 0 .. c.slice - 1 PROVE Once(l, peer0, b)
  <2>1. Holds(l, 0, 1, peer0, b)
    BY <1>1, <1>5, <1>6, <1>7 DEF Holds
  <2>2. QED
    BY <1>9, <2>1 DEF Once
<1>11. QED
  BY <1>8, <1>9, <1>10 DEF l, peer0

\* Channel ch's part has byte b.
InPart(slice, channels, align, ch, b) ==
    /\ PartitionOffset(slice, channels, align, ch) <= b
    /\ b < PartitionOffset(slice, channels, align, ch)
             + PartitionSize(slice, channels, align, ch)

\* One channel has it (PartitionsTile).
LEMMA PartitionOf ==
    ASSUME NEW slice \in Nat, NEW channels \in Nat \ {0}, NEW align \in Nat \ {0},
           NEW b \in 0 .. slice - 1
    PROVE  \E ch \in 0 .. channels - 1 :
              /\ InPart(slice, channels, align, ch, b)
              /\ \A e \in 0 .. channels - 1 : InPart(slice, channels, align, e, b) => e = ch
  BY PartitionsTile DEF InPart

\* The fused launch copies every byte of every slice once: its channel is the one
\* whose part has it, its chunk the one of the part.
LEMMA FusedLaunchCopies ==
    ASSUME NEW c, CallOK(c)
    PROVE  LET l == FusedLaunch(c)
           IN  /\ LaunchOK(c, l, 0, c.slice)
               /\ \A peer \in 0 .. c.size - 1, b \in 0 .. c.slice - 1 : Once(l, peer, b)
<1> DEFINE l == FusedLaunch(c)
           width == VecWidth({c.in, c.out}, c.slice)
           part(ch) == PartitionSize(c.slice, c.parts, Align, ch)
           off(ch) == PartitionOffset(c.slice, c.parts, Align, ch)
           lo(ch, k) == off(ch) + k * FusedChunk
           Chunk(channel, k, peer) ==
              LET from == PartitionOffset(c.slice, c.parts, Align, channel) + k * FusedChunk
                  left == PartitionSize(c.slice, c.parts, Align, channel) - k * FusedChunk
              IN  [Copy(c, peer, from, from + Lesser(FusedChunk, left), width)
                      EXCEPT !.src = IF peer = c.self THEN c.in + @ ELSE @]
           chunks(ch) == CeilDiv(part(ch), FusedChunk)
           others == c.size - 1
           Sender(ch) == [i \in 1 .. chunks(ch) |-> Chunk(ch, i - 1, c.self)]
           Receiver(ch) ==
              [i \in 1 .. chunks(ch) * others |->
                 Chunk(ch, (i - 1) \div others, Swizzle(c, (i - 1) % others))]
<1>1. /\ c.size \in Nat \ {0} /\ c.slice \in Nat \ {0} /\ c.out \in Nat /\ c.in \in Nat
      /\ c.parts \in Nat \ {0} /\ c.self \in 0 .. c.size - 1 /\ others \in Nat /\ PlaceOK(c)
  BY DEF CallOK, Call, PlaceOK
<1>2. /\ Align \in Nat \ {0} /\ Align % 16 = 0
      /\ FusedChunk \in Nat \ {0} /\ FusedChunk % Align = 0
  BY AlignAssumption, BytesAssumption
<1>3. /\ width \in Width /\ width \in Nat \ {0}
      /\ c.slice % width = 0 /\ c.in % width = 0 /\ c.out % width = 0
  <2>1. {c.in, c.out} \subseteq Nat /\ {c.in, c.out} # {} /\ c.slice \in Nat
    BY <1>1
  <2>2. width \in Width /\ c.slice % width = 0 /\ \A x \in {c.in, c.out} : x % width = 0
    BY <2>1, VecWidthFacts
  <2> HIDE DEF width
  <2>3. QED
    BY <2>2 DEF Width
<1>4. \A x \in Nat : x % Align = 0 => x % width = 0
  <2> HIDE DEF width
  <2>1. 16 % width = 0
    BY <1>3 DEF Width
  <2>2. Align % width = 0
    BY <1>2, <1>3, <2>1, DividesThrough
  <2>3. QED
    BY <1>2, <1>3, <2>2, DividesThrough
<1>5. /\ DOMAIN l.programs = 0 .. 2 * c.parts - 1 /\ l.stride = c.slice
      /\ \A pid \in 0 .. 2 * c.parts - 1 :
            l.programs[pid] = IF pid % 2 = 0 THEN Sender(pid \div 2) ELSE Receiver(pid \div 2)
  BY DEF FusedLaunch
<1> HIDE DEF l, width
<1>6. ASSUME NEW ch \in 0 .. c.parts - 1
      PROVE  /\ off(ch) \in Nat /\ part(ch) \in Nat /\ off(ch) % Align = 0
             /\ part(ch) # 0 => off(ch) + part(ch) <= c.slice
             /\ chunks(ch) \in Nat /\ (chunks(ch) > 0 => part(ch) # 0)
  <2> DEFINE pb == PartitionBytes(c.slice, c.parts, Align)
  <2>1. pb \in Nat /\ pb % Align = 0
    <3>1. CeilDiv(c.slice, c.parts) \in Nat
      BY <1>1, CeilBounds
    <3>2. QED
      BY <1>2, <3>1, AlignUpBounds DEF PartitionBytes
  <2> HIDE DEF pb
  <2>2. off(ch) = ch * pb
    BY DEF PartitionOffset, pb
  <2>3. off(ch) \in Nat /\ off(ch) % Align = 0
    <3>1. ch * pb \in Nat /\ ch \in Nat
      BY <1>1, <2>1
    <3>2. (ch * pb) % Align = 0
      BY <1>2, <2>1, <3>1, ProductOfMultiple
    <3> HIDE DEF off
    <3>3. QED
      BY <2>2, <3>1, <3>2
  <2>4. part(ch) = IF off(ch) >= c.slice THEN 0 ELSE Lesser(pb, c.slice - off(ch))
    BY DEF PartitionSize, pb
  <2> HIDE DEF off, part
  <2>5. part(ch) \in Nat /\ (part(ch) # 0 => off(ch) + part(ch) <= c.slice)
    BY <1>1, <2>1, <2>3, <2>4 DEF Lesser
  <2>6. chunks(ch) \in Nat /\ chunks(ch) * FusedChunk < part(ch) + FusedChunk
    BY <1>2, <2>5, CeilBounds
  <2> HIDE DEF chunks
  <2>7. chunks(ch) > 0 => part(ch) # 0
    BY <1>2, <2>5, <2>6
  <2>8. QED
    BY <2>3, <2>5, <2>6, <2>7
<1>7. ASSUME NEW ch \in 0 .. c.parts - 1, NEW k \in 0 .. chunks(ch) - 1,
             NEW peer \in 0 .. c.size - 1
      PROVE  /\ LegalTask(c, Chunk(ch, k, peer))
             /\ Chunk(ch, k, peer).peer = peer
             /\ Chunk(ch, k, peer).from = lo(ch, k)
             /\ Chunk(ch, k, peer).to = off(ch) + Lesser((k + 1) * FusedChunk, part(ch))
             /\ lo(ch, k) \in Nat /\ k * FusedChunk \in Nat
             /\ Chunk(ch, k, peer).to \in Nat /\ Chunk(ch, k, peer).to <= c.slice
  <2> DEFINE from == off(ch) + k * FusedChunk
             left == part(ch) - k * FusedChunk
             to == from + Lesser(FusedChunk, left)
             src == IF peer = c.self THEN c.in + SourceBase(c) ELSE SourceBase(c)
  <2>1. Chunk(ch, k, peer) = [peer |-> peer, from |-> from, to |-> to,
                              width |-> width, src |-> src]
    BY DEF Copy
  <2>2. /\ k * FusedChunk \in Nat
        /\ k * FusedChunk < Lesser((k + 1) * FusedChunk, part(ch))
        /\ Lesser((k + 1) * FusedChunk, part(ch)) <= part(ch)
        /\ Lesser((k + 1) * FusedChunk, part(ch)) \in Nat
    BY <1>2, <1>6, TileInside
  <2> HIDE DEF part, off, Chunk
  <2>3. Lesser(FusedChunk, left) = Lesser((k + 1) * FusedChunk, part(ch)) - k * FusedChunk
    <3>1. (k + 1) * FusedChunk = k * FusedChunk + FusedChunk
      BY <1>2, <1>6
    <3> DEFINE kf == k * FusedChunk
    <3> HIDE DEF kf
    <3>2. QED
      BY <1>2, <1>6, <2>2, <3>1 DEF Lesser, kf
  <2>4. part(ch) # 0 /\ off(ch) + part(ch) <= c.slice
    <3>1. chunks(ch) > 0
      BY <1>6
    <3>2. QED
      BY <1>6, <3>1
  <2>5. /\ from \in Nat /\ to \in Nat /\ from < to /\ to <= c.slice
        /\ to = off(ch) + Lesser((k + 1) * FusedChunk, part(ch))
    BY <1>1, <1>6, <2>2, <2>3, <2>4
  <2>6. from % width = 0
    <3>1. (k * FusedChunk) % Align = 0 /\ k * FusedChunk \in Nat
      <4>1. k \in Nat /\ k * FusedChunk \in Nat
        BY <1>2, <1>6
      <4>2. (k * FusedChunk) % Align = 0
        BY <1>2, <4>1, ProductOfMultiple
      <4>3. QED
        BY <4>1, <4>2
    <3>2. off(ch) \in Nat /\ off(ch) % Align = 0
      BY <1>6
    <3>3. from % Align = 0
      BY <1>2, <3>1, <3>2, SumOfMultiples
    <3>4. QED
      BY <1>4, <2>5, <3>3
  <2>7. src \in Nat /\ src % width = 0
    <3>1. SourceBase(c) \in Nat /\ SourceBase(c) % width = 0
      BY <1>3, SourceBaseFacts
    <3>2. (c.in + SourceBase(c)) % width = 0
      BY <1>1, <1>3, <3>1, SumOfMultiples
    <3>3. QED
      BY <1>1, <3>1, <3>2
  <2> HIDE DEF from, to, src
  <2>8. LegalTask(c, [peer |-> peer, from |-> from, to |-> to, width |-> width, src |-> src])
    BY <1>3, <2>5, <2>6, <2>7, AlignedTask
  <2>9. from = lo(ch, k)
    BY DEF from
  <2>10. /\ Chunk(ch, k, peer).peer = peer /\ Chunk(ch, k, peer).from = from
         /\ Chunk(ch, k, peer).to = to
    BY <2>1
  <2> HIDE DEF lo
  <2>11. LegalTask(c, Chunk(ch, k, peer))
    BY <2>1, <2>8
  <2> HIDE DEF Chunk
  <2>12. /\ Chunk(ch, k, peer).from = lo(ch, k)
         /\ Chunk(ch, k, peer).to = off(ch) + Lesser((k + 1) * FusedChunk, part(ch))
    BY <2>5, <2>9, <2>10
  <2>13. lo(ch, k) \in Nat
    BY <2>5, <2>9
  <2>14. Chunk(ch, k, peer).to \in Nat /\ Chunk(ch, k, peer).to <= c.slice
    BY <2>5, <2>10
  <2>15. QED
    BY <2>2, <2>10, <2>11, <2>12, <2>13, <2>14
<1> HIDE DEF Chunk
<1>8. ASSUME NEW pid, NEW i, InLaunch(l, pid, i)
      PROVE  LET ch == pid \div 2
                 k == (i - 1) \div others
                 d == (i - 1) % others
             IN  /\ pid \in Nat /\ pid = 2 * ch + (pid % 2) /\ ch \in 0 .. c.parts - 1
                 /\ i \in Nat \ {0}
                 /\ pid % 2 \in {0, 1}
                 /\ pid % 2 = 0 => /\ i - 1 \in 0 .. chunks(ch) - 1
                                  /\ l.programs[pid][i] = Chunk(ch, i - 1, c.self)
                 /\ pid % 2 # 0 => /\ k \in 0 .. chunks(ch) - 1 /\ d \in 0 .. others - 1
                                  /\ i - 1 = k * others + d
                                  /\ l.programs[pid][i] = Chunk(ch, k, Swizzle(c, d))
  <2> DEFINE ch == pid \div 2
             k == (i - 1) \div others
             d == (i - 1) % others
  <2>1. pid \in 0 .. 2 * c.parts - 1 /\ i \in 1 .. Len(l.programs[pid])
    BY <1>5, <1>8 DEF InLaunch
  <2>2. pid \in Nat /\ pid = 2 * ch + (pid % 2) /\ ch \in 0 .. c.parts - 1 /\ pid % 2 \in {0, 1}
    BY <1>1, <2>1
  <2> HIDE DEF ch
  <2>3. chunks(ch) \in Nat
    BY <1>6, <2>2
  <2> HIDE DEF chunks
  <2>4. CASE pid % 2 = 0
    <3>1. l.programs[pid] = Sender(ch)
      BY <1>5, <2>1, <2>4 DEF ch
    <3>2. Len(Sender(ch)) = chunks(ch)
      BY <2>3
    <3>3. i \in 1 .. chunks(ch)
      BY <2>1, <3>1, <3>2
    <3>4. l.programs[pid][i] = Chunk(ch, i - 1, c.self)
      BY <3>1, <3>3
    <3>5. i \in Nat \ {0} /\ i - 1 \in 0 .. chunks(ch) - 1
      BY <2>3, <3>3
    <3>6. QED
      BY <2>2, <2>4, <3>4, <3>5 DEF ch
  <2>5. CASE pid % 2 # 0
    <3>1. l.programs[pid] = Receiver(ch)
      BY <1>5, <2>1, <2>5, Zenon DEF ch
    <3>2. chunks(ch) * others \in Nat
      BY <1>1, <2>3
    <3>3. Len(Receiver(ch)) = chunks(ch) * others
      BY <3>2
    <3>4. i \in 1 .. chunks(ch) * others
      BY <2>1, <3>1, <3>3
    <3>5. l.programs[pid][i] = Chunk(ch, k, Swizzle(c, d))
      BY <3>1, <3>4
    <3>6. i - 1 \in Nat /\ i - 1 < chunks(ch) * others /\ others \in Nat \ {0}
      BY <1>1, <2>3, <3>2, <3>4
    <3> HIDE DEF others
    <3>7. /\ k \in Nat /\ k * others <= i - 1 /\ i - 1 = k * others + d /\ d \in 0 .. others - 1
      BY <3>6, DivBounds, DivMod
    <3> HIDE DEF k, d
    <3>8. k * others < chunks(ch) * others
      BY <2>3, <3>6, <3>7
    <3>9. k < chunks(ch)
      BY <2>3, <3>6, <3>7, <3>8, MulReflects
    <3>10. k \in 0 .. chunks(ch) - 1 /\ i \in Nat \ {0}
      <4>1. i \in Nat \ {0}
        BY <3>2, <3>4
      <4>2. QED
        BY <2>3, <3>7, <3>9, <4>1
    <3>11. QED
      BY <2>2, <2>5, <3>5, <3>7, <3>10 DEF ch, k, d
  <2>6. QED
    BY <2>4, <2>5, Zenon
<1> HIDE DEF part, off, lo, chunks
<1>9. LaunchOK(c, l, 0, c.slice)
  <2>1. ASSUME NEW pid \in DOMAIN l.programs, NEW i \in 1 .. Len(l.programs[pid])
        PROVE  /\ LegalTask(c, l.programs[pid][i])
               /\ 0 <= l.programs[pid][i].from /\ l.programs[pid][i].to <= c.slice
    <3> DEFINE ch == pid \div 2
    <3>1. InLaunch(l, pid, i)
      BY DEF InLaunch
    <3>2. PICK k, peer : /\ ch \in 0 .. c.parts - 1 /\ k \in 0 .. chunks(ch) - 1
                         /\ peer \in 0 .. c.size - 1
                         /\ l.programs[pid][i] = Chunk(ch, k, peer)
      <4>1. CASE pid % 2 = 0
        <5>1. /\ ch \in 0 .. c.parts - 1 /\ i - 1 \in 0 .. chunks(ch) - 1
              /\ l.programs[pid][i] = Chunk(ch, i - 1, c.self)
          BY <1>8, <3>1, <4>1, Zenon
        <5>2. QED
          BY <1>1, <5>1, Zenon
      <4>2. CASE pid % 2 # 0
        <5> DEFINE d == (i - 1) % others
                   k == (i - 1) \div others
        <5>1. /\ ch \in 0 .. c.parts - 1 /\ k \in 0 .. chunks(ch) - 1 /\ d \in 0 .. others - 1
              /\ l.programs[pid][i] = Chunk(ch, k, Swizzle(c, d))
          BY <1>8, <3>1, <4>2, Zenon
        <5> HIDE DEF d, k, ch
        <5>2. d \in 0 .. c.size - 1
          BY <1>1, <5>1
        <5>3. Swizzle(c, d) \in 0 .. c.size - 1
          BY <1>1, <5>2, SwizzleFacts
        <5>4. QED
          BY <5>1, <5>3
      <4>3. QED
        BY <4>1, <4>2
    <3> HIDE DEF ch
    <3>3. QED
      BY <1>7, <3>2
  <2>2. ASSUME NEW pid \in DOMAIN l.programs PROVE Len(l.programs[pid]) \in Nat
    <3> DEFINE ch == pid \div 2
    <3>1. pid \in 0 .. 2 * c.parts - 1
      BY <1>5
    <3>2. ch \in 0 .. c.parts - 1
      BY <1>1, <3>1
    <3> HIDE DEF ch
    <3>3. chunks(ch) \in Nat /\ chunks(ch) * others \in Nat
      BY <1>1, <1>6, <3>2
    <3>4. Len(Sender(ch)) = chunks(ch) /\ Len(Receiver(ch)) = chunks(ch) * others
      BY <3>3
    <3> HIDE DEF Sender, Receiver
    <3>5. l.programs[pid] = Sender(ch) \/ l.programs[pid] = Receiver(ch)
      BY <1>5, <3>1 DEF ch
    <3>6. QED
      BY <3>3, <3>4, <3>5
  <2>3. QED
    BY <1>5, <2>1, <2>2 DEF LaunchOK
<1>10. ASSUME NEW peer \in 0 .. c.size - 1, NEW b \in 0 .. c.slice - 1
       PROVE  Once(l, peer, b)
  <2> DEFINE In(ch) == off(ch) <= b /\ b < off(ch) + part(ch)
  <2>1. PICK ch \in 0 .. c.parts - 1 : In(ch) /\ \A e \in 0 .. c.parts - 1 : In(e) => e = ch
    <3>1. c.slice \in Nat
      BY <1>1
    <3>2. \E ch \in 0 .. c.parts - 1 :
             /\ InPart(c.slice, c.parts, Align, ch, b)
             /\ \A e \in 0 .. c.parts - 1 : InPart(c.slice, c.parts, Align, e, b) => e = ch
      BY <1>1, <1>2, <3>1, PartitionOf
    <3>3. \A e : InPart(c.slice, c.parts, Align, e, b) = In(e)
      BY DEF InPart, off, part
    <3> HIDE DEF In
    <3>4. QED
      BY <3>2, <3>3
  <2>2. off(ch) \in Nat /\ part(ch) \in Nat /\ chunks(ch) \in Nat
    BY <1>6
  <2> DEFINE x == b - off(ch)
             n == x \div FusedChunk
  <2>3. x \in 0 .. part(ch) - 1
    BY <2>1, <2>2
  <2>4. /\ n \in 0 .. chunks(ch) - 1
        /\ n * FusedChunk <= x /\ x < Lesser((n + 1) * FusedChunk, part(ch))
        /\ \A k \in Nat : k * FusedChunk <= x /\ x < (k + 1) * FusedChunk => k = n
    BY <1>2, <2>2, <2>3, TileOnce DEF chunks
  <2> HIDE DEF n
  <2>5. ASSUME NEW e \in 0 .. c.parts - 1, NEW k \in 0 .. chunks(e) - 1,
               NEW q \in 0 .. c.size - 1
        PROVE  /\ Chunk(e, k, q).from <= b /\ b < Chunk(e, k, q).to
                     <=> e = ch /\ k = n
               /\ Chunk(e, k, q).peer = q
    <3>1. /\ Chunk(e, k, q).peer = q
          /\ Chunk(e, k, q).from = off(e) + k * FusedChunk
          /\ Chunk(e, k, q).to = off(e) + Lesser((k + 1) * FusedChunk, part(e))
      BY <1>7 DEF lo
    <3>2. /\ k * FusedChunk \in Nat /\ (k + 1) * FusedChunk \in Nat
          /\ Lesser((k + 1) * FusedChunk, part(e)) \in Nat
          /\ Lesser((k + 1) * FusedChunk, part(e)) <= part(e)
          /\ Lesser((k + 1) * FusedChunk, part(e)) <= (k + 1) * FusedChunk
          /\ off(e) \in Nat /\ part(e) \in Nat
      <4>1. off(e) \in Nat /\ part(e) \in Nat
        BY <1>6
      <4>2. k \in 0 .. CeilDiv(part(e), FusedChunk) - 1
        BY DEF chunks
      <4>3. QED
        BY <1>2, <4>1, <4>2, TileInside
    <3>3. ASSUME off(e) + k * FusedChunk <= b,
                 b < off(e) + Lesser((k + 1) * FusedChunk, part(e))
          PROVE  e = ch /\ k = n
      <4>1. In(e)
        BY <3>2, <3>3
      <4>2. e = ch
        BY <2>1, <4>1
      <4>3. k * FusedChunk <= x /\ x < (k + 1) * FusedChunk
        BY <2>2, <3>2, <3>3, <4>2
      <4>4. k \in Nat
        BY <1>6
      <4>5. QED
        BY <2>4, <4>2, <4>3, <4>4
    <3>4. ASSUME e = ch, k = n
          PROVE  off(e) + k * FusedChunk <= b /\ b < off(e) + Lesser((k + 1) * FusedChunk, part(e))
      BY <2>2, <2>4, <3>2, <3>4
    <3>5. QED
      BY <3>1, <3>3, <3>4
  <2> HIDE DEF In, x
  <2>6. CASE peer = c.self
    <3> DEFINE pid == 2 * ch
               i == n + 1
    <3>1. pid \in 0 .. 2 * c.parts - 1 /\ pid % 2 = 0 /\ pid \div 2 = ch
      BY <1>1
    <3>2. l.programs[pid] = Sender(ch)
      BY <1>5, <3>1
    <3>3. i \in 1 .. chunks(ch)
      BY <2>2, <2>4
    <3>4. Len(Sender(ch)) = chunks(ch) /\ Sender(ch)[i] = Chunk(ch, n, c.self)
      BY <2>2, <2>4, <3>3
    <3> HIDE DEF pid, i
    <3> HIDE DEF Sender
    <3>5. Holds(l, pid, i, peer, b)
      <4>1. InLaunch(l, pid, i) /\ l.programs[pid][i] = Chunk(ch, n, peer)
        BY <1>5, <2>6, <3>1, <3>2, <3>3, <3>4 DEF InLaunch
      <4>2. QED
        BY <2>4, <2>5, <4>1 DEF Holds
    <3>6. ASSUME NEW other, NEW j, Holds(l, other, j, peer, b) PROVE other = pid /\ j = i
      <4> DEFINE e == other \div 2
      <4>1. InLaunch(l, other, j) /\ l.programs[other][j].peer = peer
            /\ l.programs[other][j].from <= b /\ b < l.programs[other][j].to
        BY <3>6 DEF Holds
      <4>2. other \in Nat /\ other = 2 * e + (other % 2) /\ e \in 0 .. c.parts - 1 /\ j \in Nat \ {0}
        BY <1>8, <4>1
      <4>3. CASE other % 2 = 0
        <5>1. j - 1 \in 0 .. chunks(e) - 1 /\ l.programs[other][j] = Chunk(e, j - 1, c.self)
          BY <1>8, <4>1, <4>3, Zenon
        <5> HIDE DEF e
        <5>2. e = ch /\ j - 1 = n
          BY <1>1, <2>5, <4>1, <4>2, <5>1
        <5>3. QED
          BY <2>2, <2>4, <4>2, <4>3, <5>2 DEF pid, i
      <4>4. CASE other % 2 # 0
        <5> DEFINE k == (j - 1) \div others
                   d == (j - 1) % others
        <5>1. /\ k \in 0 .. chunks(e) - 1 /\ d \in 0 .. others - 1
              /\ l.programs[other][j] = Chunk(e, k, Swizzle(c, d))
          BY <1>8, <4>1, <4>4, Zenon
        <5> HIDE DEF e, k, d
        <5>2. d \in 0 .. c.size - 1 /\ d # c.size - 1
          BY <1>1, <5>1
        <5>3. Swizzle(c, d) \in 0 .. c.size - 1 /\ Swizzle(c, d) # c.self
          BY <1>1, <5>2, SwizzleFacts
        <5>4. QED
          BY <2>5, <2>6, <4>1, <4>2, <5>1, <5>3
      <4>5. QED
        BY <4>3, <4>4
    <3>7. QED
      BY <3>5, <3>6 DEF Once
  <2>7. CASE peer # c.self
    <3>1. PICK d \in 0 .. c.size - 1 : Swizzle(c, d) = peer
      BY <1>1, SwizzleFacts
    <3>2. d \in 0 .. others - 1 /\ others \in Nat \ {0}
      <4>1. d # c.size - 1
        BY <1>1, <2>7, <3>1, SwizzleFacts
      <4>2. QED
        BY <1>1, <3>1, <4>1
    <3> DEFINE pid == 2 * ch + 1
               i == n * others + d + 1
    <3>3. pid \in 0 .. 2 * c.parts - 1 /\ pid % 2 = 1 /\ pid \div 2 = ch
      BY <1>1
    <3>4. l.programs[pid] = Receiver(ch)
      <4>1. pid % 2 # 0
        BY <3>3
      <4> HIDE DEF pid
      <4>2. QED
        BY <1>5, <3>3, <4>1, Zenon
    <3> HIDE DEF pid, others
    <3>5. n \in Nat /\ n * others \in Nat /\ i - 1 = n * others + d
      BY <2>2, <2>4, <3>2
    <3>6. i - 1 \in Nat /\ i \in Nat \ {0}
      BY <3>2, <3>5
    <3> HIDE DEF i
    <3>7. (i - 1) \div others = n /\ (i - 1) % others = d
      BY <3>2, <3>5, <3>6, DivUnique
    <3>8. i \in 1 .. chunks(ch) * others /\ chunks(ch) * others \in Nat
      <4>1. (n + 1) * others <= chunks(ch) * others
        BY <2>2, <2>4, <3>2, <3>5, MulMonotone
      <4>2. (n + 1) * others = n * others + others
        BY <3>2, <3>5
      <4>3. chunks(ch) * others \in Nat
        BY <2>2, <3>2
      <4>4. i - 1 < chunks(ch) * others
        BY <3>2, <3>5, <4>1, <4>2, <4>3
      <4>5. QED
        BY <3>6, <4>3, <4>4
    <3>9. Len(Receiver(ch)) = chunks(ch) * others /\ Receiver(ch)[i] = Chunk(ch, n, peer)
      BY <3>1, <3>7, <3>8
    <3> HIDE DEF Receiver
    <3>10. Holds(l, pid, i, peer, b)
      BY <1>5, <2>4, <2>5, <3>3, <3>4, <3>8, <3>9 DEF Holds, InLaunch
    <3>11. ASSUME NEW other, NEW j, Holds(l, other, j, peer, b) PROVE other = pid /\ j = i
      <4> DEFINE e == other \div 2
      <4>1. InLaunch(l, other, j) /\ l.programs[other][j].peer = peer
            /\ l.programs[other][j].from <= b /\ b < l.programs[other][j].to
        BY <3>11 DEF Holds
      <4>2. other \in Nat /\ other = 2 * e + (other % 2) /\ e \in 0 .. c.parts - 1 /\ j \in Nat \ {0}
        BY <1>8, <4>1
      <4>3. CASE other % 2 = 0
        <5>1. j - 1 \in 0 .. chunks(e) - 1 /\ l.programs[other][j] = Chunk(e, j - 1, c.self)
          BY <1>8, <4>1, <4>3, Zenon
        <5> HIDE DEF e
        <5>2. Chunk(e, j - 1, c.self).peer = c.self
          BY <1>1, <2>5, <4>2, <5>1
        <5>3. QED
          BY <2>7, <4>1, <5>1, <5>2
      <4>4. CASE other % 2 # 0
        <5> DEFINE k == (j - 1) \div others
                   f == (j - 1) % others
        <5>1. /\ k \in 0 .. chunks(e) - 1 /\ f \in 0 .. others - 1 /\ j - 1 = k * others + f
              /\ l.programs[other][j] = Chunk(e, k, Swizzle(c, f))
          BY <1>8, <4>1, <4>4, Zenon DEF others
        <5> HIDE DEF e, k, f
        <5>2. f \in 0 .. c.size - 1
          BY <1>1, <5>1 DEF others
        <5>3. Swizzle(c, f) \in 0 .. c.size - 1
          BY <1>1, <5>2, SwizzleFacts
        <5>4. e = ch /\ k = n /\ Swizzle(c, f) = peer
          BY <2>5, <4>1, <4>2, <5>1, <5>3
        <5>5. f = d
          BY <1>1, <3>1, <5>2, <5>4, SwizzleFacts
        <5>6. j - 1 = i - 1
          BY <3>5, <5>1, <5>4, <5>5
        <5>7. QED
          BY <3>6, <4>2, <4>4, <5>4, <5>6 DEF pid
      <4>5. QED
        BY <4>3, <4>4
    <3>12. QED
      BY <3>10, <3>11 DEF Once
  <2>8. QED
    BY <2>6, <2>7
<1>11. QED
  BY <1>9, <1>10 DEF l

-----------------------------------------------------------------------------
(* Plans.                                                                  *)

\* The chunks of a pipelined call: each is inside the slice, starts at a multiple
\* of the alignment and, but for the one that ends the slice, has a multiple of
\* it; each byte is in one of them.
Splits(layout, axis, align) ==
    LET n == Len(layout)
        In(k, b) == layout[k].offset <= b /\ b < layout[k].offset + layout[k].size
    IN  /\ n \in Nat \ {0} /\ DOMAIN layout = 1 .. n
        /\ \A k \in 1 .. n :
              /\ layout[k].offset \in Nat /\ layout[k].size \in Nat \ {0}
              /\ layout[k].offset % align = 0
              /\ layout[k].offset + layout[k].size <= axis
              /\ \/ layout[k].size % align = 0
                 \/ layout[k].offset + layout[k].size = axis
        /\ \A b \in 0 .. axis - 1 :
              \E k \in 1 .. n : In(k, b) /\ \A j \in 1 .. n : In(j, b) => j = k

LEMMA ChunksSplit ==
    ASSUME NEW axis \in Nat \ {0}, NEW chunks \in Nat \ {0}, NEW align \in Nat \ {0}
    PROVE  Splits(ChunkLayout(axis, chunks, align), axis, align)
<1> DEFINE nominal == Nominal(axis, chunks, align)
           count == ChunkCount(axis, chunks, align)
           layout == ChunkLayout(axis, chunks, align)
<1>1. /\ nominal \in Nat \ {0} /\ nominal % align = 0
      /\ count \in 1 .. chunks
      /\ (count - 1) * nominal < axis /\ axis <= count * nominal
  BY ChunkCountFits
<1>2. CASE chunks = 1
  <2>1. layout = <<[offset |-> 0, size |-> axis]>>
    BY <1>2 DEF ChunkLayout
  <2> HIDE DEF layout
  <2>2. /\ Len(layout) = 1 /\ DOMAIN layout = 1 .. 1
        /\ layout[1].offset = 0 /\ layout[1].size = axis
    BY <2>1
  <2>3. 0 % align = 0
    OBVIOUS
  <2>4. QED
    BY <2>2, <2>3 DEF layout, Splits
<1>3. CASE chunks # 1
  <2>1. layout = [k \in 1 .. count |->
                    [offset |-> (k - 1) * nominal,
                     size |-> IF k < count THEN nominal ELSE axis - (k - 1) * nominal]]
    BY <1>3 DEF ChunkLayout
  <2> HIDE DEF layout, nominal, count
  <2>2. Len(layout) = count /\ DOMAIN layout = 1 .. count /\ count \in Nat \ {0}
    BY <1>1, <2>1
  <2>3. ASSUME NEW k \in 1 .. count
        PROVE  /\ layout[k].offset = (k - 1) * nominal /\ (k - 1) * nominal \in Nat
               /\ layout[k].size \in Nat \ {0}
               /\ layout[k].offset + layout[k].size = IF k < count THEN k * nominal ELSE axis
               /\ k * nominal \in Nat /\ (k < count => k * nominal < axis)
               /\ axis <= count * nominal
               /\ layout[k].size = nominal \/ layout[k].offset + layout[k].size = axis
    <3>1. /\ layout[k].offset = (k - 1) * nominal
          /\ layout[k].size = IF k < count THEN nominal ELSE axis - (k - 1) * nominal
      BY <2>1
    <3>2. k \in Nat \ {0} /\ k <= count /\ k - 1 \in Nat
      BY <1>1
    <3>3. /\ (k - 1) * nominal \in Nat /\ k * nominal \in Nat
          /\ (k - 1) * nominal + nominal = k * nominal
      BY <1>1, <3>2
    <3>4. CASE k < count
      <4>1. k * nominal <= (count - 1) * nominal
        BY <1>1, <3>2, <3>4, MulMonotone
      <4>2. (count - 1) * nominal \in Nat
        BY <1>1
      <4>3. k * nominal < axis
        BY <1>1, <3>3, <4>1, <4>2
      <4>4. QED
        BY <1>1, <3>1, <3>3, <3>4, <4>3
    <3>5. CASE k = count
      BY <1>1, <3>1, <3>3, <3>5
    <3>6. QED
      BY <1>1, <3>2, <3>4, <3>5
  <2>4. ASSUME NEW k \in 1 .. count PROVE layout[k].offset % align = 0
    <3>1. k - 1 \in Nat
      BY <1>1
    <3>2. ((k - 1) * nominal) % align = 0
      BY <1>1, <3>1, ProductOfMultiple
    <3>3. QED
      BY <2>3, <3>2
  <2>5. ASSUME NEW b \in 0 .. axis - 1
        PROVE  \E k \in 1 .. count :
                  /\ layout[k].offset <= b /\ b < layout[k].offset + layout[k].size
                  /\ \A j \in 1 .. count :
                        layout[j].offset <= b /\ b < layout[j].offset + layout[j].size => j = k
    <3> DEFINE q == b \div nominal
    <3>1. q \in Nat /\ q * nominal <= b /\ b < q * nominal + nominal
      BY <1>1, DivBounds
    <3> HIDE DEF q
    <3>2. q * nominal < count * nominal /\ b < (q + 1) * nominal /\ (q + 1) * nominal \in Nat
      BY <1>1, <3>1
    <3>3. q < count
      BY <1>1, <3>1, <3>2, MulReflects
    <3>4. q + 1 \in 1 .. count /\ (q + 1) - 1 = q
      BY <1>1, <3>1, <3>3
    <3>5. layout[q + 1].offset <= b /\ b < layout[q + 1].offset + layout[q + 1].size
      BY <2>3, <3>1, <3>2, <3>4
    <3>6. ASSUME NEW j \in 1 .. count,
                 layout[j].offset <= b, b < layout[j].offset + layout[j].size
          PROVE  j = q + 1
      <4>1. (j - 1) * nominal <= b /\ b < j * nominal
        <5>1. CASE j < count
          BY <2>3, <3>6, <5>1
        <5>2. CASE j = count
          BY <1>1, <2>3, <3>6, <5>2
        <5>3. QED
          BY <1>1, <5>1, <5>2
      <4>2. j \in Nat /\ j - 1 \in Nat
        BY <1>1
      <4>3. (j - 1) * nominal < (q + 1) * nominal /\ q * nominal < j * nominal
        BY <1>1, <2>3, <3>1, <3>2, <4>1
      <4>4. j - 1 < q + 1 /\ q < j
        BY <1>1, <3>1, <4>2, <4>3, MulReflects
      <4>5. QED
        BY <3>1, <4>2, <4>4
    <3>7. QED
      BY <3>4, <3>5, <3>6
  <2>6. ASSUME NEW k \in 1 .. count
        PROVE  /\ layout[k].offset \in Nat /\ layout[k].size \in Nat \ {0}
               /\ layout[k].offset + layout[k].size <= axis
               /\ layout[k].size % align = 0 \/ layout[k].offset + layout[k].size = axis
    <3>1. layout[k].offset \in Nat /\ layout[k].size \in Nat \ {0}
      BY <2>3
    <3>2. layout[k].offset + layout[k].size <= axis
      <4>1. CASE k < count
        BY <1>1, <2>3, <4>1
      <4>2. CASE ~ (k < count)
        BY <2>3, <4>2
      <4>3. QED
        BY <4>1, <4>2
    <3>3. layout[k].size % align = 0 \/ layout[k].offset + layout[k].size = axis
      BY <1>1, <2>3
    <3>4. QED
      BY <3>1, <3>2, <3>3
  <2>7. QED
    BY <2>2, <2>4, <2>5, <2>6 DEF layout, Splits
<1>4. QED
  BY <1>2, <1>3

LEMMA CallChunks ==
    ASSUME NEW c, CallOK(c)
    PROVE  Splits(Chunks(c), c.slice, Align)
<1> DEFINE chunks == EffectiveChunks(c.slice, c.parts, c.parts, MinChunk)
<1>1. /\ c.slice \in Nat \ {0} /\ c.parts \in Nat \ {0} /\ MinChunk \in Nat \ {0}
      /\ Align \in Nat \ {0}
  BY AlignAssumption, BytesAssumption DEF CallOK, Call
<1>2. chunks \in Nat \ {0}
  <2>1. CASE c.parts <= 1 \/ c.slice < 2 * MinChunk
    <3>1. chunks = 1
      BY <1>1, <2>1 DEF EffectiveChunks, Lesser
    <3>2. QED
      BY <3>1
  <2>2. CASE ~ (c.parts <= 1 \/ c.slice < 2 * MinChunk)
    <3> DEFINE q == c.slice \div MinChunk
    <3>1. q \in Nat /\ c.slice < q * MinChunk + MinChunk
      BY <1>1, DivBounds
    <3>2. chunks = Lesser(c.parts, q)
      BY <1>1, <2>2 DEF EffectiveChunks, Lesser
    <3> HIDE DEF q, chunks
    <3>3. q # 0
      BY <1>1, <2>2, <3>1
    <3>4. QED
      BY <1>1, <3>1, <3>2, <3>3 DEF Lesser
  <2>3. QED
    BY <2>1, <2>2
<1>3. Chunks(c) = ChunkLayout(c.slice, chunks, Align)
  BY DEF Chunks
<1> HIDE DEF chunks
<1>4. QED
  BY <1>1, <1>2, <1>3, ChunksSplit

\* A plan whose launches all stay inside the slices and together copy each byte of
\* each slice once.
PlanOK(c, p) ==
    /\ Len(p) \in Nat \ {0} /\ DOMAIN p = 1 .. Len(p)
    /\ \A n \in 1 .. Len(p) : LaunchOK(c, p[n], 0, c.slice)
    /\ \A peer \in 0 .. c.size - 1, b \in 0 .. c.slice - 1 :
          \E n \in 1 .. Len(p) :
             /\ Once(p[n], peer, b)
             /\ \A k \in 1 .. Len(p) : \A pid, i : Holds(p[k], pid, i, peer, b) => k = n

\* A launch that stays inside a part of the slice stays inside the slice.
LEMMA LaunchInside ==
    ASSUME NEW c, NEW l, NEW a, NEW e, LaunchOK(c, l, a, e)
    PROVE  LaunchOK(c, l, 0, c.slice)
  BY DEF LaunchOK, LegalTask

\* A plan of one launch.
LEMMA OneLaunch ==
    ASSUME NEW c, NEW l, LaunchOK(c, l, 0, c.slice),
           \A peer \in 0 .. c.size - 1, b \in 0 .. c.slice - 1 : Once(l, peer, b)
    PROVE  PlanOK(c, <<l>>)
<1> DEFINE p == <<l>>
<1>1. Len(p) = 1 /\ DOMAIN p = 1 .. 1 /\ p[1] = l
  OBVIOUS
<1> HIDE DEF p
<1>2. QED
  BY <1>1 DEF PlanOK, p

\* The width of a one-shot copy.
LEMMA OneShotFacts ==
    ASSUME NEW c, CallOK(c)
    PROVE  /\ OneShotWidth(c) \in Width
           /\ c.slice % OneShotWidth(c) = 0 /\ c.out % OneShotWidth(c) = 0
<1>1. {0, c.out} \subseteq Nat /\ {0, c.out} # {} /\ c.slice \in Nat
  BY DEF CallOK, Call
<1>2. LET w == VecWidth({0, c.out}, c.slice)
      IN  w \in Width /\ c.slice % w = 0 /\ \A x \in {0, c.out} : x % w = 0
  BY <1>1, VecWidthFacts
<1>3. QED
  BY <1>2 DEF OneShotWidth

\* The bytes that a chunk's width must divide are those that the one-shot width
\* must divide.
LEMMA ChunkWidth ==
    ASSUME NEW c, CallOK(c), c.path = "pipelined", NEW base \in Nat, NEW bytes \in Nat \ {0},
           base % Align = 0, base + bytes <= c.slice,
           bytes % Align = 0 \/ base + bytes = c.slice
    PROVE  LaunchWidth(c, base, bytes) = OneShotWidth(c)
<1> DEFINE src == SourceBase(c)
<1>1. c.slice \in Nat \ {0} /\ c.out \in Nat /\ Align \in Nat \ {0} /\ Align % 16 = 0 /\ src \in Nat
  BY AlignAssumption, SourceBaseFacts DEF CallOK, Call
<1>2. ASSUME NEW v \in Width
      PROVE  v \in Nat \ {0} /\ base % v = 0 /\ (bytes % Align = 0 => bytes % v = 0)
  <2>1. v \in Nat \ {0} /\ 16 % v = 0
    BY DEF Width
  <2>2. Align % v = 0
    <3>1. Align \in Nat /\ 16 \in Nat \ {0} /\ Align % 16 = 0
      BY <1>1
    <3>2. QED
      BY <2>1, <3>1, DividesThrough, Zenon
  <2>3. QED
    BY <1>1, <2>1, <2>2, DividesThrough
<1>3. ASSUME NEW v \in Width
      PROVE  (bytes % v = 0 /\ \A x \in {src + base, c.out + base, c.slice} : x % v = 0)
                <=> (c.slice % v = 0 /\ \A x \in {0, c.out} : x % v = 0)
  <2>1. (base + c.out) % v = 0 <=> c.out % v = 0
    BY <1>1, <1>2, SumOfMultiples
  <2>2. (base + src) % v = 0 <=> src % v = 0
    BY <1>1, <1>2, SumOfMultiples
  <2>3. (base + bytes) % v = 0 <=> bytes % v = 0
    BY <1>1, <1>2, SumOfMultiples
  <2>4. c.slice % v = 0 => src % v = 0
    BY SourceBaseFacts
  <2>5. c.slice % v = 0 => bytes % v = 0
    BY <1>2, <2>3
  <2>6. base + c.out = c.out + base /\ base + src = src + base
    BY <1>1
  <2>7. 0 % v = 0
    BY <1>2
  <2> HIDE DEF src
  <2>8. QED
    BY <2>1, <2>2, <2>4, <2>5, <2>6, <2>7
<1>4. LaunchWidth(c, base, bytes) = VecWidth({src + base, c.out + base, c.slice}, bytes)
  BY DEF LaunchWidth
<1>5. OneShotWidth(c) = VecWidth({0, c.out}, c.slice)
  BY DEF OneShotWidth
<1> HIDE DEF src
<1> DEFINE A == {src + base, c.out + base, c.slice}
           B == {0, c.out}
<1>6. A \in (SUBSET Nat) \ {{}} /\ B \in (SUBSET Nat) \ {{}}
  BY <1>1
<1>7. VecWidth(A, bytes) = VecWidth(B, c.slice)
  <2>1. \A v \in Width : Aligned(A, bytes, v) <=> Aligned(B, c.slice, v)
    BY <1>3 DEF Aligned
  <2>2. bytes \in Nat /\ c.slice \in Nat
    BY <1>1
  <2> HIDE DEF A, B
  <2>3. QED
    BY <1>6, <2>1, <2>2, SameWidth
<1>8. QED
  BY <1>4, <1>5, <1>7

\* The launches of a pipelined call, one for each chunk.
LEMMA PipelinedPlan ==
    ASSUME NEW c, CallOK(c), c.path = "pipelined"
    PROVE  PlanOK(c, Launches(c))
<1> DEFINE ch == Chunks(c)
           p == Launches(c)
           n == Len(ch)
           off(k) == ch[k].offset
           bytes(k) == ch[k].size
<1>1. /\ n \in Nat \ {0} /\ DOMAIN ch = 1 .. n
      /\ \A k \in 1 .. n :
            /\ off(k) \in Nat /\ bytes(k) \in Nat \ {0} /\ off(k) % Align = 0
            /\ off(k) + bytes(k) <= c.slice
            /\ bytes(k) % Align = 0 \/ off(k) + bytes(k) = c.slice
      /\ \A b \in 0 .. c.slice - 1 :
            \E k \in 1 .. n :
               /\ off(k) <= b /\ b < off(k) + bytes(k)
               /\ \A j \in 1 .. n : off(j) <= b /\ b < off(j) + bytes(j) => j = k
  BY CallChunks DEF Splits
<1>2. p = [k \in 1 .. n |-> VecLaunch(c, off(k), bytes(k))]
  BY <1>1 DEF Launches
<1> HIDE DEF p, ch, n
<1>3. Len(p) = n /\ DOMAIN p = 1 .. n /\ \A k \in 1 .. n : p[k] = VecLaunch(c, off(k), bytes(k))
  BY <1>1, <1>2
<1> HIDE DEF off, bytes
<1>4. ASSUME NEW k \in 1 .. n
      PROVE  /\ LaunchOK(c, p[k], off(k), off(k) + bytes(k))
             /\ \A peer \in 0 .. c.size - 1, b \in off(k) .. off(k) + bytes(k) - 1 :
                   Once(p[k], peer, b)
  <2> DEFINE o == off(k)
             s == bytes(k)
             w == LaunchWidth(c, o, s)
  <2>1. /\ o \in Nat /\ s \in Nat \ {0} /\ o % Align = 0 /\ o + s <= c.slice
        /\ s % Align = 0 \/ o + s = c.slice
    BY <1>1
  <2>2. p[k] = VecLaunch(c, o, s)
    BY <1>3
  <2> HIDE DEF o, s
  <2>3. w = OneShotWidth(c)
    BY <2>1, ChunkWidth
  <2> HIDE DEF w
  <2>4. w \in Width /\ c.slice % w = 0 /\ c.out % w = 0
    BY <2>3, OneShotFacts
  <2>5. w \in Nat \ {0} /\ 16 % w = 0 /\ 16 \in Nat \ {0} /\ c.slice \in Nat
    BY <2>4 DEF Width, CallOK, Call
  <2>6. Align \in Nat \ {0} /\ Align % 16 = 0
    BY AlignAssumption
  <2>7. Align % w = 0
    BY <2>5, <2>6, DividesThrough
  <2>8. o % w = 0
    BY <2>1, <2>5, <2>6, <2>7, DividesThrough
  <2>9. s % w = 0
    <3>1. CASE s % Align = 0
      BY <2>1, <2>5, <2>6, <2>7, <3>1, DividesThrough
    <3>2. CASE o + s = c.slice
      BY <2>1, <2>4, <2>5, <2>8, <3>2, SumOfMultiples
    <3>3. QED
      BY <2>1, <3>1, <3>2
  <2>10. /\ LaunchOK(c, VecLaunch(c, o, s), o, o + s)
         /\ \A peer \in 0 .. c.size - 1, b \in o .. o + s - 1 : Once(VecLaunch(c, o, s), peer, b)
    BY <2>1, <2>4, <2>8, <2>9, VecLaunchCopies DEF w
  <2>11. QED
    BY <2>2, <2>10 DEF o, s
<1>5. ASSUME NEW k \in 1 .. n PROVE LaunchOK(c, p[k], 0, c.slice)
  BY <1>4, LaunchInside
<1>6. ASSUME NEW peer \in 0 .. c.size - 1, NEW b \in 0 .. c.slice - 1
      PROVE  \E k \in 1 .. n :
                /\ Once(p[k], peer, b)
                /\ \A j \in 1 .. n : \A pid, i : Holds(p[j], pid, i, peer, b) => j = k
  <2>1. PICK k \in 1 .. n :
           /\ off(k) <= b /\ b < off(k) + bytes(k)
           /\ \A j \in 1 .. n : off(j) <= b /\ b < off(j) + bytes(j) => j = k
    BY <1>1
  <2>2. b \in off(k) .. off(k) + bytes(k) - 1
    BY <1>1, <2>1
  <2>3. Once(p[k], peer, b)
    BY <1>4, <2>2
  <2>4. ASSUME NEW j \in 1 .. n, NEW pid, NEW i, Holds(p[j], pid, i, peer, b) PROVE j = k
    <3> DEFINE task == p[j].programs[pid][i]
    <3>1. pid \in DOMAIN p[j].programs /\ i \in 1 .. Len(p[j].programs[pid])
          /\ task.from <= b /\ b < task.to
      BY <2>4 DEF Holds, InLaunch
    <3>2. /\ off(j) <= task.from /\ task.to <= off(j) + bytes(j)
          /\ task.from \in Nat /\ task.to \in Nat
      BY <1>4, <3>1 DEF LaunchOK, LegalTask
    <3> HIDE DEF task
    <3>3. off(j) <= b /\ b < off(j) + bytes(j)
      <4>1. c.slice \in Nat
        BY DEF CallOK, Call
      <4>2. b \in Nat /\ off(j) \in Nat /\ bytes(j) \in Nat
        BY <1>1, <4>1
      <4>3. QED
        BY <3>1, <3>2, <4>2
    <3>4. QED
      BY <2>1, <3>3
  <2>5. QED
    BY <2>3, <2>4
<1>7. QED
  BY <1>1, <1>3, <1>5, <1>6 DEF PlanOK, p

\* The copies of the copy engine, one for each peer.
LEMMA EnginePlan ==
    ASSUME NEW c, CallOK(c), c.path = "copy_engine"
    PROVE  PlanOK(c, Launches(c))
<1> DEFINE p == Launches(c)
<1>1. c.size \in Nat \ {0} /\ PlaceOK(c) /\ c.slice \in Nat
  BY DEF CallOK, Call, PlaceOK
<1>2. p = [i \in 1 .. c.size |-> MemcpyLaunch(c, i - 1)]
  BY DEF Launches
<1> HIDE DEF p
<1>3. Len(p) = c.size /\ DOMAIN p = 1 .. c.size /\ \A n \in 1 .. c.size : p[n] = MemcpyLaunch(c, n - 1)
  BY <1>1, <1>2
<1>4. ASSUME NEW n \in 1 .. c.size
      PROVE  /\ n - 1 \in 0 .. c.size - 1
             /\ LaunchOK(c, p[n], 0, c.slice)
             /\ \A peer, b \in Nat :
                   (\E pid, i : Holds(p[n], pid, i, peer, b)) => peer = Swizzle(c, n - 1)
             /\ \A b \in 0 .. c.slice - 1 : Once(p[n], Swizzle(c, n - 1), b)
  <2>1. n - 1 \in 0 .. c.size - 1 /\ p[n] = MemcpyLaunch(c, n - 1)
    BY <1>1, <1>3
  <2>2. QED
    BY <2>1, MemcpyLaunchCopies
<1>5. ASSUME NEW peer \in 0 .. c.size - 1, NEW b \in 0 .. c.slice - 1
      PROVE  \E n \in 1 .. c.size :
                /\ Once(p[n], peer, b)
                /\ \A k \in 1 .. c.size : \A pid, i : Holds(p[k], pid, i, peer, b) => k = n
  <2>1. PICK d \in 0 .. c.size - 1 : Swizzle(c, d) = peer
    BY <1>1, SwizzleFacts
  <2>2. d + 1 \in 1 .. c.size /\ (d + 1) - 1 = d
    BY <1>1, <2>1
  <2>3. Once(p[d + 1], peer, b)
    BY <1>4, <2>1, <2>2
  <2>4. ASSUME NEW k \in 1 .. c.size, NEW pid, NEW i, Holds(p[k], pid, i, peer, b)
        PROVE  k = d + 1
    <3>1. peer \in Nat /\ b \in Nat
      BY <1>1
    <3>2. Swizzle(c, k - 1) = peer /\ k - 1 \in 0 .. c.size - 1
      BY <1>4, <2>4, <3>1
    <3>3. k - 1 = d
      BY <1>1, <2>1, <3>2, SwizzleFacts
    <3>4. QED
      BY <1>1, <3>3
  <2>5. QED
    BY <2>2, <2>3, <2>4
<1>6. QED
  BY <1>1, <1>3, <1>4, <1>5 DEF PlanOK, p

\* The calls of the constants.
LEMMA CallsOK ==
    ASSUME NEW c \in CallSet
    PROVE  CallOK(c) /\ (c.path = "tma" => TmaAllowed(c))
  BY CallsAssumption DEF CallOK, PlaceOK, Call

\* On every path the launches of a call copy each byte of each slice once.
LEMMA LaunchesOK ==
    ASSUME NEW c \in CallSet
    PROVE  PlanOK(c, Launches(c))
<1>1. CallOK(c) /\ c.slice \in Nat \ {0} /\ (c.path = "tma" => TmaAllowed(c))
  BY CallsOK DEF CallOK, Call
<1>2. CASE c.path = "vec_pull"
  <2>1. Launches(c) = <<VecLaunch(c, 0, c.slice)>>
    BY <1>2 DEF Launches
  <2>2. LaunchWidth(c, 0, c.slice) = OneShotWidth(c)
    BY <1>2 DEF LaunchWidth
  <2> DEFINE w == LaunchWidth(c, 0, c.slice)
  <2>3. w \in Width /\ c.slice % w = 0 /\ c.out % w = 0
    BY <1>1, <2>2, OneShotFacts
  <2>4. 0 % w = 0
    <3> HIDE DEF w
    <3>1. QED
      BY <2>3 DEF Width
  <2>5. 0 + c.slice = c.slice
    BY <1>1
  <2> DEFINE l == VecLaunch(c, 0, c.slice)
  <2>6. /\ LaunchOK(c, l, 0, 0 + c.slice)
        /\ \A peer \in 0 .. c.size - 1, b \in 0 .. 0 + c.slice - 1 : Once(l, peer, b)
    BY <1>1, <2>3, <2>4, <2>5, VecLaunchCopies
  <2> HIDE DEF l
  <2>7. PlanOK(c, <<l>>)
    <3>1. 0 .. 0 + c.slice - 1 = 0 .. c.slice - 1
      BY <1>1
    <3>2. LaunchOK(c, l, 0, c.slice)
      BY <2>5, <2>6
    <3>3. \A peer \in 0 .. c.size - 1, b \in 0 .. c.slice - 1 : Once(l, peer, b)
      BY <2>6, <3>1, Zenon
    <3>4. QED
      BY <3>2, <3>3, OneLaunch
  <2>8. QED
    BY <2>1, <2>7 DEF l
<1>3. CASE c.path = "pipelined"
  BY <1>1, <1>3, PipelinedPlan
<1>4. CASE c.path = "tma"
  <2>1. Launches(c) = <<TmaLaunch(c)>>
    BY <1>4 DEF Launches
  <2>2. QED
    BY <1>1, <1>4, <2>1, TmaLaunchCopies, OneLaunch
<1>5. CASE c.path = "copy_engine"
  BY <1>1, <1>5, EnginePlan
<1>6. CASE c.path = "fused"
  <2>1. Launches(c) = <<FusedLaunch(c)>>
    BY <1>6 DEF Launches
  <2>2. QED
    BY <1>1, <2>1, FusedLaunchCopies, OneLaunch
<1>7. c.path \in {"vec_pull", "pipelined", "tma", "copy_engine", "fused"}
  BY <1>1 DEF CallOK, Call
<1>8. QED
  BY <1>2, <1>3, <1>4, <1>5, <1>6, <1>7

-----------------------------------------------------------------------------
(* The inductive invariant.                                                *)

\* The i-th task of program pid of launch n has run.
HasRun(n, pid, i) == n < launch \/ (n = launch /\ i <= ran[pid])

\* Where the call is.
PlaceInPlan ==
    /\ call \in CallSet /\ plan = Launches(call)
    /\ launch \in 1 .. Len(plan) + 1
    /\ launch <= Len(plan) =>
          /\ DOMAIN ran = DOMAIN plan[launch].programs
          /\ \A pid \in DOMAIN ran : ran[pid] \in 0 .. Len(plan[launch].programs[pid])

\* Each output byte holds what it must once the task that copies it has run, and
\* nothing before.
BytesStored ==
    /\ DOMAIN stored = 0 .. call.size * call.slice - 1
    /\ \A u \in DOMAIN stored : \A n \in 1 .. Len(plan) : \A pid, i :
          Holds(plan[n], pid, i, u \div call.slice, u % call.slice)
             => stored[u] = IF HasRun(n, pid, i) THEN <<Wanted(u)>> ELSE << >>

IInv == PlaceInPlan /\ BytesStored

\* What the calls and their plans are made of.
LEMMA PlanFacts ==
    ASSUME PlaceInPlan
    PROVE  /\ PlanOK(call, plan)
           /\ call.size \in Nat \ {0} /\ call.slice \in Nat \ {0} /\ call.out \in Nat
           /\ SourceBase(call) \in Nat
  BY CallsOK, LaunchesOK, SourceBaseFacts DEF PlaceInPlan, CallOK, Call

\* Output byte u is byte u % slice of peer u \div slice's part.
LEMMA OutputByte ==
    ASSUME NEW size \in Nat, NEW slice \in Nat \ {0}, NEW u \in 0 .. size * slice - 1
    PROVE  /\ u \in Nat
           /\ u \div slice \in 0 .. size - 1 /\ u % slice \in 0 .. slice - 1
           /\ u = (u \div slice) * slice + (u % slice)
<1> DEFINE q == u \div slice
<1>1. u \in Nat /\ u < size * slice
  OBVIOUS
<1>2. q \in Nat /\ q * slice <= u /\ u = q * slice + (u % slice) /\ u % slice \in 0 .. slice - 1
  BY <1>1, DivBounds, DivMod
<1> HIDE DEF q
<1>3. q * slice < size * slice
  BY <1>1, <1>2
<1>4. q < size
  BY <1>2, <1>3, MulReflects
<1>5. QED
  BY <1>1, <1>2, <1>4 DEF q

LEMMA InitOK == Init => IInv
<1> SUFFICES ASSUME Init PROVE IInv
  OBVIOUS
<1>1. call \in CallSet /\ plan = Launches(call) /\ launch = 1
  BY DEF Init
<1>2. Len(plan) \in Nat \ {0} /\ LaunchOK(call, plan[1], 0, call.slice)
  BY <1>1, LaunchesOK DEF PlanOK
<1>3. ran = [pid \in DOMAIN plan[1].programs |-> 0]
  BY DEF Init, Started
<1>4. PlaceInPlan
  BY <1>1, <1>2, <1>3 DEF PlaceInPlan, LaunchOK
<1>5. stored = [u \in 0 .. call.size * call.slice - 1 |-> << >>]
  BY DEF Init
<1>6. ASSUME NEW n \in 1 .. Len(plan), NEW pid, NEW i, InLaunch(plan[n], pid, i)
      PROVE  ~ HasRun(n, pid, i)
  BY <1>1, <1>2, <1>3, <1>6 DEF HasRun, InLaunch, LaunchOK
<1>7. BytesStored
  BY <1>5, <1>6 DEF BytesStored, Holds
<1>8. QED
  BY <1>4, <1>7 DEF IInv

\* A task stores to just the bytes that it holds.
LEMMA StoresHeld ==
    ASSUME PlaceInPlan, NEW n \in 1 .. Len(plan), NEW pid, NEW i, InLaunch(plan[n], pid, i),
           NEW u \in 0 .. call.size * call.slice - 1
    PROVE  LET task == plan[n].programs[pid][i]
               at == task.peer * plan[n].stride
           IN  /\ u \in at + task.from .. at + task.to - 1
                     <=> Holds(plan[n], pid, i, u \div call.slice, u % call.slice)
               /\ u \in at + task.from .. at + task.to - 1
                     => <<task.peer, SourceBase(call) + u - at>> = Wanted(u)
<1> DEFINE task == plan[n].programs[pid][i]
           slice == call.slice
           at == task.peer * slice
           q == u \div slice
           r == u % slice
<1>1. /\ PlanOK(call, plan) /\ call.size \in Nat /\ slice \in Nat \ {0} /\ SourceBase(call) \in Nat
  BY PlanFacts
<1>2. LaunchOK(call, plan[n], 0, slice)
  BY <1>1 DEF PlanOK
<1>3. /\ plan[n].stride = slice
      /\ task.peer \in 0 .. call.size - 1 /\ task.from \in Nat /\ task.to \in Nat
      /\ task.from < task.to /\ task.to <= slice
  BY <1>2 DEF LaunchOK, LegalTask, InLaunch
<1>4. u \in Nat /\ q \in 0 .. call.size - 1 /\ r \in 0 .. slice - 1 /\ u = q * slice + r
  BY <1>1, OutputByte
<1>5. Holds(plan[n], pid, i, q, r) <=> task.peer = q /\ task.from <= r /\ r < task.to
  BY DEF Holds
<1> HIDE DEF task, slice
<1>6. at \in Nat /\ task.peer \in Nat
  BY <1>1, <1>3
<1>7. ASSUME u \in at + task.from .. at + task.to - 1
      PROVE  task.peer = q /\ u - at = r /\ task.from <= r /\ r < task.to
  <2> DEFINE x == u - at
  <2>1. x \in 0 .. slice - 1 /\ u = at + x /\ task.from <= x /\ x < task.to
    <3> HIDE DEF at
    <3>1. u \in Nat
      BY <1>4
    <3> HIDE DEF q, r
    <3>2. x \in Nat /\ u = at + x /\ task.from <= x /\ x < task.to
      BY <1>3, <1>6, <1>7, <3>1
    <3> HIDE DEF x
    <3>3. QED
      BY <1>1, <1>3, <3>2
  <2> HIDE DEF x
  <2>2. q = task.peer /\ r = x
    BY <1>1, <1>4, <1>6, <2>1, DivUnique
  <2>3. QED
    BY <2>1, <2>2 DEF x
<1>8. ASSUME task.peer = q, task.from <= r, r < task.to
      PROVE  u \in at + task.from .. at + task.to - 1
  <2> HIDE DEF q, r
  <2>1. QED
    BY <1>3, <1>4, <1>6, <1>8
<1>9. ASSUME u \in at + task.from .. at + task.to - 1
      PROVE  <<task.peer, SourceBase(call) + u - at>> = Wanted(u)
  <2>1. task.peer = q /\ u - at = r
    BY <1>7, <1>9
  <2>2. SourceBase(call) + u - at = SourceBase(call) + (u - at)
    BY <1>1, <1>4, <1>6
  <2> HIDE DEF q, r, at
  <2>3. Wanted(u) = <<q, SourceBase(call) + r>>
    BY DEF Wanted, q, r, slice
  <2>4. QED
    BY <2>1, <2>2, <2>3
<1>10. task.peer * plan[n].stride = at
  BY <1>3
<1>11. QED
  BY <1>5, <1>7, <1>8, <1>9, <1>10 DEF task, slice

\* A byte is held by one task of the plan.
LEMMA HeldOnce ==
    ASSUME NEW c, NEW p, PlanOK(c, p),
           NEW peer \in 0 .. c.size - 1, NEW b \in 0 .. c.slice - 1,
           NEW n \in 1 .. Len(p), NEW pid, NEW i, Holds(p[n], pid, i, peer, b),
           NEW m \in 1 .. Len(p), NEW qid, NEW j, Holds(p[m], qid, j, peer, b)
    PROVE  m = n /\ qid = pid /\ j = i
<1>1. PICK k \in 1 .. Len(p) :
         /\ Once(p[k], peer, b)
         /\ \A x \in 1 .. Len(p) : \A y, z : Holds(p[x], y, z, peer, b) => x = k
  BY DEF PlanOK
<1>2. m = k /\ n = k
  BY <1>1
<1>3. QED
  BY <1>1, <1>2 DEF Once

\* Running a task.
LEMMA RunOK ==
    ASSUME IInv, NEW pid \in DOMAIN ran, ~ Done, Run(pid)
    PROVE  IInv'
<1> DEFINE n == launch
           i == ran[pid] + 1
           task == Programs[pid][i]
           at == task.peer * plan[n].stride
<1>1. /\ PlaceInPlan /\ BytesStored
      /\ PlanOK(call, plan)
      /\ call.size \in Nat \ {0} /\ call.slice \in Nat \ {0}
  BY PlanFacts DEF IInv
<1>2. /\ n \in 1 .. Len(plan) /\ Len(plan) \in Nat
      /\ DOMAIN ran = DOMAIN plan[n].programs
      /\ \A p \in DOMAIN ran : ran[p] \in 0 .. Len(plan[n].programs[p])
      /\ \A p \in DOMAIN ran : Len(plan[n].programs[p]) \in Nat
  BY <1>1 DEF PlaceInPlan, PlanOK, Done, LaunchOK
<1>3. /\ ran[pid] < Len(plan[n].programs[pid])
      /\ stored' = [u \in DOMAIN stored |->
              IF u \in at + task.from .. at + task.to - 1
              THEN Append(stored[u], <<task.peer, SourceBase(call) + u - at>>)
              ELSE stored[u]]
      /\ ran' = [ran EXCEPT ![pid] = @ + 1]
      /\ call' = call /\ plan' = plan /\ launch' = launch
  BY DEF Run, Programs
<1>4. InLaunch(plan[n], pid, i)
  BY <1>2, <1>3 DEF InLaunch
<1>5. ASSUME NEW p \in DOMAIN ran
      PROVE  /\ ran'[p] = IF p = pid THEN i ELSE ran[p]
             /\ ran'[p] \in 0 .. Len(plan[n].programs[p])
  BY <1>2, <1>3
<1>6. PlaceInPlan'
  <2>1. DOMAIN ran' = DOMAIN ran
    BY <1>3
  <2>2. QED
    BY <1>1, <1>3, <1>5, <2>1 DEF PlaceInPlan
<1>7. ASSUME NEW u \in DOMAIN stored, NEW m \in 1 .. Len(plan), NEW qid, NEW j,
             Holds(plan[m], qid, j, u \div call.slice, u % call.slice)
      PROVE  stored'[u] = IF HasRun(m, qid, j)' THEN <<Wanted(u)>> ELSE << >>
  <2> DEFINE q == u \div call.slice
             r == u % call.slice
             inside == u \in at + task.from .. at + task.to - 1
  <2>1. u \in 0 .. call.size * call.slice - 1
    BY <1>1 DEF BytesStored
  <2>2. q \in 0 .. call.size - 1 /\ r \in 0 .. call.slice - 1
    BY <1>1, <2>1, OutputByte
  <2>3. /\ inside <=> Holds(plan[n], pid, i, q, r)
        /\ inside => <<task.peer, SourceBase(call) + u - at>> = Wanted(u)
    BY <1>1, <1>2, <1>4, <2>1, StoresHeld DEF Programs
  <2>4. stored[u] = IF HasRun(m, qid, j) THEN <<Wanted(u)>> ELSE << >>
    BY <1>1, <1>7 DEF BytesStored
  <2>5. stored'[u] = IF inside THEN Append(stored[u], <<task.peer, SourceBase(call) + u - at>>)
                     ELSE stored[u]
    BY <1>3
  <2>6. InLaunch(plan[m], qid, j)
    BY <1>7 DEF Holds
  <2> HIDE DEF inside, q, r
  <2>7. CASE inside
    <3>1. m = n /\ qid = pid /\ j = i
      <4>1. Holds(plan[n], pid, i, q, r)
        BY <2>3, <2>7
      <4>2. Holds(plan[m], qid, j, q, r)
        BY <1>7 DEF q, r
      <4> HIDE DEF n, i
      <4>3. n \in 1 .. Len(plan)
        BY <1>2
      <4>4. QED
        BY <1>1, <2>2, <4>1, <4>2, <4>3, HeldOnce
    <3>2. ~ HasRun(m, qid, j) /\ HasRun(m, qid, j)'
      BY <1>2, <1>3, <1>5, <3>1 DEF HasRun
    <3>3. Append(stored[u], Wanted(u)) = <<Wanted(u)>>
      BY <2>4, <3>2
    <3>4. QED
      BY <2>3, <2>5, <2>7, <3>2, <3>3
  <2>8. CASE ~ inside
    <3>1. ~ (m = n /\ qid = pid /\ j = i)
      BY <1>7, <2>3, <2>8 DEF q, r
    <3>2. HasRun(m, qid, j)' <=> HasRun(m, qid, j)
      <4>1. CASE m = n
        <5>1. qid \in DOMAIN ran /\ j \in 1 .. Len(plan[n].programs[qid])
          BY <1>2, <2>6, <4>1 DEF InLaunch
        <5>2. ran[qid] \in Nat /\ j \in Nat
          BY <1>2, <5>1
        <5>3. ran'[qid] = IF qid = pid THEN i ELSE ran[qid]
          BY <1>5, <5>1
        <5>4. j <= ran'[qid] <=> j <= ran[qid]
          BY <3>1, <4>1, <5>2, <5>3
        <5>5. QED
          BY <1>3, <4>1, <5>4 DEF HasRun
      <4>2. CASE m # n
        BY <1>3, <4>2 DEF HasRun
      <4>3. QED
        BY <4>1, <4>2
    <3>3. QED
      BY <2>4, <2>5, <2>8, <3>2
  <2>9. QED
    BY <2>7, <2>8
<1>8. BytesStored'
  <2>1. DOMAIN stored' = DOMAIN stored
    BY <1>3
  <2>2. \A u : Wanted(u)' = Wanted(u)
    BY <1>3 DEF Wanted
  <2>3. QED
    BY <1>1, <1>3, <1>7, <2>1, <2>2 DEF BytesStored
<1>9. QED
  BY <1>6, <1>8 DEF IInv

\* The end of a launch.
LEMMA RetireOK ==
    ASSUME IInv, ~ Done, Retire
    PROVE  IInv'
<1> DEFINE n == launch
<1>1. /\ PlaceInPlan /\ BytesStored
      /\ PlanOK(call, plan)
  BY PlanFacts DEF IInv
<1>2. /\ n \in 1 .. Len(plan) /\ Len(plan) \in Nat
      /\ DOMAIN ran = DOMAIN plan[n].programs
  BY <1>1 DEF PlaceInPlan, PlanOK, Done
<1>3. /\ \A pid \in DOMAIN plan[n].programs : ran[pid] = Len(plan[n].programs[pid])
      /\ launch' = n + 1
      /\ ran' = IF n < Len(plan) THEN Started(plan[n + 1]) ELSE << >>
      /\ call' = call /\ plan' = plan /\ stored' = stored
  BY DEF Retire, Programs
<1>4. ASSUME n < Len(plan)
      PROVE  /\ ran' = [pid \in DOMAIN plan[n + 1].programs |-> 0]
             /\ \A pid \in DOMAIN plan[n + 1].programs : Len(plan[n + 1].programs[pid]) \in Nat
  BY <1>1, <1>2, <1>3, <1>4 DEF Started, PlanOK, LaunchOK
<1>5. PlaceInPlan'
  <2>1. launch' \in 1 .. Len(plan) + 1
    BY <1>2, <1>3
  <2>2. ASSUME n + 1 <= Len(plan)
        PROVE  /\ DOMAIN ran' = DOMAIN plan[n + 1].programs
               /\ \A pid \in DOMAIN ran' : ran'[pid] \in 0 .. Len(plan[n + 1].programs[pid])
    BY <1>2, <1>4, <2>2
  <2>3. QED
    BY <1>1, <1>3, <2>1, <2>2 DEF PlaceInPlan
<1>6. ASSUME NEW m \in 1 .. Len(plan), NEW pid, NEW i, InLaunch(plan[m], pid, i)
      PROVE  HasRun(m, pid, i)' <=> HasRun(m, pid, i)
  <2>1. pid \in DOMAIN plan[m].programs /\ i \in 1 .. Len(plan[m].programs[pid])
    BY <1>6 DEF InLaunch
  <2>2. CASE m = n
    <3>1. i <= ran[pid]
      <4>1. Len(plan[m].programs[pid]) \in Nat
        BY <1>1, <2>1 DEF PlanOK, LaunchOK
      <4>2. QED
        BY <1>3, <2>1, <2>2, <4>1
    <3>2. QED
      BY <1>2, <1>3, <2>2, <3>1 DEF HasRun
  <2>3. CASE m = n + 1
    <3>1. ran'[pid] = 0 /\ ~ (i <= 0)
      <4>1. Len(plan[m].programs[pid]) \in Nat
        BY <1>1, <2>1 DEF PlanOK, LaunchOK
      <4>2. n < Len(plan)
        BY <1>2, <2>3
      <4>3. QED
        BY <1>4, <2>1, <2>3, <4>1, <4>2
    <3>2. QED
      BY <1>2, <1>3, <2>3, <3>1 DEF HasRun
  <2>4. CASE m # n /\ m # n + 1
    BY <1>2, <1>3, <2>4 DEF HasRun
  <2>5. QED
    BY <2>2, <2>3, <2>4
<1>7. BytesStored'
  <2>1. \A u : Wanted(u)' = Wanted(u)
    BY <1>3 DEF Wanted
  <2>2. QED
    BY <1>1, <1>3, <1>6, <2>1 DEF BytesStored, Holds
<1>8. QED
  BY <1>5, <1>7 DEF IInv

LEMMA NextOK == IInv /\ [Next]_vars => IInv'
<1> SUFFICES ASSUME IInv, [Next]_vars PROVE IInv'
  OBVIOUS
<1>1. ASSUME NEW pid \in DOMAIN ran, ~ Done, Run(pid) PROVE IInv'
  BY <1>1, RunOK
<1>2. CASE ~ Done /\ Retire
  BY <1>2, RetireOK
<1>3. CASE UNCHANGED vars
  BY <1>3 DEF vars, IInv, PlaceInPlan, BytesStored, HasRun, Wanted
<1>4. QED
  BY <1>1, <1>2, <1>3 DEF Next, Quiescent

\* IInv holds in every reachable state.
LEMMA Invariant == Spec => []IInv
  BY InitOK, NextOK, PTL DEF Spec

-----------------------------------------------------------------------------
(* The properties.                                                         *)

\* No access of any kernel leaves its slice or is misaligned, for any sizes,
\* addresses, tile and chunk sizes and number of programs (the launchers'
\* _vec_for and vec_width_bytes, the TMA gates, _fused_block_copy).
THEOREM AccessesLegalHolds == Spec => []AccessesLegal
<1>1. IInv => AccessesLegal
  <2> SUFFICES ASSUME IInv, ~ Done, NEW pid \in DOMAIN ran, ran[pid] < Len(Programs[pid])
               PROVE  LET task == Programs[pid][ran[pid] + 1]
                          at == call.out + task.peer * plan[launch].stride
                      IN  /\ 0 <= task.from /\ task.from < task.to /\ task.to <= call.slice
                          /\ \A a \in Accesses(task) :
                                /\ (at + a.from) % a.width = 0
                                /\ (a.src + a.from) % a.width = 0
    BY DEF AccessesLegal
  <2> DEFINE task == plan[launch].programs[pid][ran[pid] + 1]
  <2>1. PlaceInPlan /\ PlanOK(call, plan)
    BY PlanFacts DEF IInv
  <2>2. /\ launch \in 1 .. Len(plan)
        /\ DOMAIN ran = DOMAIN plan[launch].programs
        /\ ran[pid] \in 0 .. Len(plan[launch].programs[pid])
    BY <2>1 DEF PlaceInPlan, PlanOK, Done
  <2>3. LaunchOK(call, plan[launch], 0, call.slice)
    BY <2>1, <2>2 DEF PlanOK
  <2>4. ran[pid] + 1 \in 1 .. Len(plan[launch].programs[pid])
    BY <2>2, <2>3 DEF Programs, LaunchOK
  <2>5. plan[launch].stride = call.slice /\ LegalTask(call, task)
    BY <2>2, <2>3, <2>4 DEF LaunchOK
  <2>6. Programs[pid][ran[pid] + 1] = task
    BY DEF Programs
  <2> HIDE DEF task
  <2>7. QED
    BY <2>5, <2>6 DEF LegalTask
<1>2. QED
  BY <1>1, Invariant, PTL

\* Every output byte has one task that stores it.
LEMMA EveryByteHeld ==
    ASSUME IInv, NEW u \in DOMAIN stored
    PROVE  \E n \in 1 .. Len(plan) : \E pid, i :
              /\ InLaunch(plan[n], pid, i)
              /\ stored[u] = IF HasRun(n, pid, i) THEN <<Wanted(u)>> ELSE << >>
<1> DEFINE q == u \div call.slice
           r == u % call.slice
<1>1. /\ PlaceInPlan /\ BytesStored
      /\ PlanOK(call, plan)
      /\ call.size \in Nat \ {0} /\ call.slice \in Nat \ {0}
  BY PlanFacts DEF IInv
<1>2. q \in 0 .. call.size - 1 /\ r \in 0 .. call.slice - 1
  <2>1. u \in 0 .. call.size * call.slice - 1
    BY <1>1 DEF BytesStored
  <2>2. QED
    BY <1>1, <2>1, OutputByte
<1>3. \E n \in 1 .. Len(plan) : \E pid, i : Holds(plan[n], pid, i, q, r)
  <2> HIDE DEF q, r
  <2>1. QED
    BY <1>1, <1>2 DEF PlanOK, Once
<1>4. QED
  BY <1>1, <1>3 DEF BytesStored, Holds

\* No output byte is stored twice or from the wrong place, in any order of the
\* programs: tiles, boxes, chunks and channels do not overlap.
THEOREM StoredOnceHolds == Spec => []StoredOnce
<1>1. IInv => StoredOnce
  BY EveryByteHeld DEF StoredOnce
<1>2. QED
  BY <1>1, Invariant, PTL

\* No output byte is left out once the launches have ended.
THEOREM AllStoredHolds == Spec => []AllStored
<1>1. IInv => AllStored
  <2> SUFFICES ASSUME IInv, Done, NEW u \in DOMAIN stored PROVE stored[u] # << >>
    BY DEF AllStored
  <2>1. Len(plan) \in Nat /\ launch \in 1 .. Len(plan) + 1
    BY PlanFacts DEF IInv, PlaceInPlan, PlanOK
  <2>2. ASSUME NEW n \in 1 .. Len(plan), NEW pid, NEW i PROVE HasRun(n, pid, i)
    BY <2>1 DEF Done, HasRun
  <2>3. stored[u] = <<Wanted(u)>>
    BY <2>2, EveryByteHeld
  <2>4. QED
    BY <2>3
<1>2. QED
  BY <1>1, Invariant, PTL

\* A chunk keeps the vector width of the one-shot call, for every alignment that
\* is a multiple of 16 (_chunk_layout).
THEOREM ChunksKeepWidthHolds == Spec => []ChunksKeepWidth
<1>1. IInv => ChunksKeepWidth
  <2> SUFFICES ASSUME IInv, call.path = "pipelined", NEW k \in DOMAIN plan
               PROVE  plan[k].width = OneShotWidth(call)
    BY DEF ChunksKeepWidth
  <2> DEFINE o == Chunks(call)[k].offset
             s == Chunks(call)[k].size
  <2>1. call \in CallSet /\ CallOK(call) /\ plan = Launches(call)
    BY CallsOK DEF IInv, PlaceInPlan
  <2>2. plan = [j \in DOMAIN Chunks(call) |->
                  VecLaunch(call, Chunks(call)[j].offset, Chunks(call)[j].size)]
    BY <2>1 DEF Launches
  <2> HIDE DEF o, s
  <2>3. k \in DOMAIN Chunks(call) /\ plan[k] = VecLaunch(call, o, s)
    BY <2>2 DEF o, s
  <2>4. /\ o \in Nat /\ s \in Nat \ {0} /\ o % Align = 0 /\ o + s <= call.slice
        /\ s % Align = 0 \/ o + s = call.slice
    BY <2>1, <2>3, CallChunks DEF Splits, o, s
  <2>5. VecLaunch(call, o, s).width = LaunchWidth(call, o, s)
    BY DEF VecLaunch
  <2>6. LaunchWidth(call, o, s) = OneShotWidth(call)
    BY <2>1, <2>4, ChunkWidth
  <2>7. QED
    BY <2>3, <2>5, <2>6
<1>2. QED
  BY <1>1, Invariant, PTL
=============================================================================
