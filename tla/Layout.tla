------------------------------- MODULE Layout -------------------------------
(***************************************************************************)
(* The byte arithmetic of the data path: chunks of a pipelined call,       *)
(* partitions of a fused one, and the vector width of a launch             *)
(* (src/gfc/runtime.py, kernels/_common.py, kernels/fused.py, config.py).  *)
(* Byte counts are far from the width of Python's and Triton's integers.   *)
(***************************************************************************)
EXTENDS Integers, Sequences

\* (n + d - 1) // d
CeilDiv(n, d) == (n + d - 1) \div d

Lesser(m, n) == IF m < n THEN m ELSE n

\* (n + a - 1) & ~(a - 1), for an alignment a that is a power of two.
AlignUp(n, a) == CeilDiv(n, a) * a

-----------------------------------------------------------------------------
(* Vector widths.                                                          *)

\* base_alignment: the largest power of two that divides an address; beyond 16
\* the launchers make no difference.
BaseAlignment(x) ==
    CHOOSE a \in {1, 2, 4, 8, 16} :
        /\ x % a = 0
        /\ a = 16 \/ x % (2 * a) # 0

\* The greatest common divisor of a set of alignments and a byte count; one of
\* them is a power of two of at most 16.
Gcd(S) ==
    CHOOSE d \in 1 .. 16 :
        /\ \A x \in S : x % d = 0
        /\ \A e \in d + 1 .. 16 : \E x \in S : x % e # 0

\* Fault: the width is what the addresses allow, whatever the size.
WidthOfAddresses(addrs, nbytes) ==
    LET align == Gcd({BaseAlignment(x) : x \in addrs})
    IN  CHOOSE w \in {16, 8, 4, 1} :
            w <= align /\ \A v \in {16, 8, 4, 1} : v <= align => v <= w

\* vec_width_bytes over the addresses and the byte count of a launch.
VecWidth(addrs, nbytes) ==
    LET align == Gcd({BaseAlignment(x) : x \in addrs} \cup {nbytes})
    IN  CHOOSE w \in {16, 8, 4, 1} :
            w <= align /\ \A v \in {16, 8, 4, 1} : v <= align => v <= w

-----------------------------------------------------------------------------
(* Chunks of a pipelined call.                                             *)

\* _effective_pipeline_chunks, on the vector data path.
EffectiveChunks(axis, asked, maxChunks, minChunk) ==
    LET target == Lesser(asked, maxChunks)
    IN  IF target <= 1 \/ axis < 2 * minChunk THEN 1
        ELSE Lesser(target, axis \div minChunk)

\* The size of every chunk but the last.
Nominal(axis, chunks, align) == AlignUp(CeilDiv(axis, chunks), align)

\* How many of them there are: rounding up can leave fewer than asked for.
ChunkCount(axis, chunks, align) ==
    Lesser(chunks, CeilDiv(axis, Nominal(axis, chunks, align)))

\* _chunk_layout: chunk k has the nominal size, the last one what is left.
ChunkLayout(axis, chunks, align) ==
    LET nominal == Nominal(axis, chunks, align)
        count == ChunkCount(axis, chunks, align)
    IN  IF chunks = 1 \/ axis <= 0 THEN <<[offset |-> 0, size |-> axis]>>
        ELSE [k \in 1 .. count |->
                [offset |-> (k - 1) * nominal,
                 size |-> IF k < count THEN nominal ELSE axis - (k - 1) * nominal]]

-----------------------------------------------------------------------------
(* Partitions and chunks of a fused call.                                  *)

\* Fault: partitions are not rounded to the alignment.
PartitionUnaligned(slice, channels, align) == CeilDiv(slice, channels)

\* partition_bytes: the part of a slice that one channel moves.
PartitionBytes(slice, channels, align) == AlignUp(CeilDiv(slice, channels), align)

\* The chunks of a channel, as the guard and the launcher count them.
FusedChunks(slice, channels, chunkBytes, align) ==
    CeilDiv(PartitionBytes(slice, channels, align), chunkBytes)

\* Channel c's part: empty for a channel past the end of the slice.
PartitionOffset(slice, channels, align, c) == c * PartitionBytes(slice, channels, align)
PartitionSize(slice, channels, align, c) ==
    LET offset == PartitionOffset(slice, channels, align, c)
    IN  IF offset >= slice THEN 0
        ELSE Lesser(PartitionBytes(slice, channels, align), slice - offset)

\* fused_max_chunks_per_channel: the chunk axis that step_pad is allocated with.
FusedMaxChunks(maxBytes, chunkBytes) == CeilDiv(maxBytes, chunkBytes) + 1
=============================================================================
