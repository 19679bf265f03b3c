---------------------------- MODULE CopyKernels ----------------------------
(***************************************************************************)
(* How the copy kernels of one call on one rank split its output bytes     *)
(* over launches, programs and vector accesses (src/gfc/kernels:           *)
(* all_gather.py, all2all.py, copy_pull.py, tma_paths.py, copy_engine.py,  *)
(* fused.py; the launches are those of src/gfc/runtime.py).  Launches run  *)
(* in stream order; the programs of a launch run concurrently, in any      *)
(* order, each over a list of tasks.  What keeps the peers' comm_bufs      *)
(* stable meanwhile is the subject of Collectives and FusedCollectives.    *)
(***************************************************************************)
EXTENDS Layout, FiniteSets

CONSTANTS
    CallSet,       \* the calls to run
    Align,         \* config.alignment
    BlockBytes,    \* the bytes of a program's tile (64 KiB in the launchers)
    MinChunk,      \* config.pipeline_min_chunk_bytes
    FusedChunk     \* config.fused_chunk_size

ASSUME AlignAssumption == Align \in Nat /\ Align > 0 /\ Align % 16 = 0
ASSUME BytesAssumption ==
    /\ BlockBytes \in Nat \ {0} /\ BlockBytes % 16 = 0
    /\ MinChunk \in Nat \ {0}
    /\ FusedChunk \in Nat \ {0} /\ FusedChunk % Align = 0

\* size and self: the group and the rank's place in it (p2p copies one
\* segment); in and out: the addresses of the tensors; sms: the programs that a
\* launch may have; parts: pipeline chunks asked for, or fused channels.
Call == [op : {"all_gather", "all2all", "p2p"},
         path : {"vec_pull", "pipelined", "tma", "copy_engine", "fused"},
         size : Nat \ {0}, self : Nat, slice : Nat \ {0},
         in : Nat, out : Nat, sms : Nat \ {0}, parts : Nat \ {0}]

\* The TMA gates; the other paths take any address.
TmaAllowed(c) == c.slice % 16 = 0 /\ c.out % 16 = 0

ASSUME CallsAssumption ==
    \A c \in CallSet :
        /\ c \in Call /\ c.self < c.size
        /\ c.op = "p2p" => c.size = 1 /\ c.path \notin {"pipelined", "fused"}
        /\ c.path = "tma" => TmaAllowed(c)

VARIABLES
    call,     \* the call and
    plan,     \* its launches, fixed by the initial state
    launch,   \* the launch that is running, or one past the last
    ran,      \* how many of its tasks each program has run
    stored    \* per output byte, the peer bytes stored to it, in order

vars == <<call, plan, launch, ran, stored>>

-----------------------------------------------------------------------------
(* Where the bytes of a slice are.                                         *)

\* Every kernel visits the peers from its right neighbour on, itself last.
Swizzle(c, delta) == (delta + c.self + 1) % c.size

\* Where the bytes that this rank reads start in a peer's comm_buf, or in its
\* own input.
SourceBase(c) == IF c.op = "all2all" THEN c.self * c.slice ELSE 0

\* Fault: the stride between peers in the output is left at the copy's size.
StrideOfCopy(c, bytes) == bytes

\* dst_stride_bytes of a launch that copies this many bytes of every slice.
PeerStride(c, bytes) == c.slice

-----------------------------------------------------------------------------
(* Launches.  A task copies bytes from .. to-1 of a peer's slice, width     *)
(* bytes at a time; its slice's source starts at address src.              *)

Copy(c, peer, from, to, width) ==
    [peer |-> peer, from |-> from, to |-> to, width |-> width, src |-> SourceBase(c)]

\* The tasks pid, pid + stride, ... below total of a persistent loop.
LoopTasks(pid, total, stride) ==
    [i \in 1 .. (IF pid < total THEN CeilDiv(total - pid, stride) ELSE 0) |->
        pid + (i - 1) * stride]

\* _vec_for: a one-shot copy is as wide as its bases and its size allow; a
\* chunk's width must also divide the stride between slices.
OneShotWidth(c) == VecWidth({0, c.out}, c.slice)
LaunchWidth(c, base, bytes) ==
    IF c.path # "pipelined" THEN OneShotWidth(c)
    ELSE VecWidth({SourceBase(c) + base, c.out + base, c.slice}, bytes)

\* all_gather_pull_kernel, all2all_pull_kernel and, for one peer,
\* pull_copy_kernel: tiles of whole elements, then the bytes left of each
\* slice by the first programs.
VecLaunch(c, base, bytes) ==
    LET width == LaunchWidth(c, base, bytes)
        nFull == bytes \div width
        tile == (IF BlockBytes \div width > 1 THEN BlockBytes \div width ELSE 1)
        total == c.size * CeilDiv(nFull, tile)
        hasTail == bytes % width # 0
        least == IF hasTail THEN c.size ELSE 1
        grid == Lesser(c.sms, IF total > least THEN total ELSE least)
        Tile(t) ==
            Copy(c, Swizzle(c, t % c.size),
                 base + (t \div c.size) * tile * width,
                 base + Lesser((t \div c.size + 1) * tile, nFull) * width, width)
        Rest(pid) ==
            Copy(c, Swizzle(c, pid), base + nFull * width, base + bytes, 1)
        Program(pid) ==
            LET loop == LoopTasks(pid, total, grid)
            IN  [i \in DOMAIN loop |-> Tile(loop[i])]
                  \o (IF hasTail /\ pid < c.size THEN <<Rest(pid)>> ELSE << >>)
    IN  [stride |-> PeerStride(c, bytes), width |-> width,
         programs |-> [pid \in 0 .. grid - 1 |-> Program(pid)]]

\* The TMA kernels: boxes of BlockBytes, clipped to the slice by the descriptor;
\* the loop's step is NUM_SMS, whatever the grid.
TmaLaunch(c) ==
    LET total == c.size * CeilDiv(c.slice, BlockBytes)
        Box(t) ==
            Copy(c, Swizzle(c, t % c.size), (t \div c.size) * BlockBytes,
                 Lesser((t \div c.size + 1) * BlockBytes, c.slice), 16)
        Program(pid) ==
            LET loop == LoopTasks(pid, total, c.sms)
            IN  [i \in DOMAIN loop |-> Box(loop[i])]
    IN  [stride |-> c.slice, width |-> 16,
         programs |-> [pid \in 0 .. Lesser(c.sms, total) - 1 |-> Program(pid)]]

\* The copy engine: one cudaMemcpyAsync per peer, in stream order.
MemcpyLaunch(c, delta) ==
    [stride |-> c.slice, width |-> 1,
     programs |-> [pid \in {0} |-> <<Copy(c, Swizzle(c, delta), 0, c.slice, 1)>>]]

\* The fused kernels, as far as they store to the output: chunk by chunk of its
\* channel's part, a sender stores the rank's own slice and a receiver those of
\* the other peers.
FusedLaunch(c) ==
    LET width == VecWidth({c.in, c.out}, c.slice)
        Chunk(channel, k, peer) ==
            LET from == PartitionOffset(c.slice, c.parts, Align, channel) + k * FusedChunk
                left == PartitionSize(c.slice, c.parts, Align, channel) - k * FusedChunk
            IN  [Copy(c, peer, from, from + Lesser(FusedChunk, left), width)
                    EXCEPT !.src = IF peer = c.self THEN c.in + @ ELSE @]
        Program(pid) ==
            LET channel == pid \div 2
                chunks == CeilDiv(PartitionSize(c.slice, c.parts, Align, channel), FusedChunk)
                others == c.size - 1
            IN  IF pid % 2 = 0 THEN [i \in 1 .. chunks |-> Chunk(channel, i - 1, c.self)]
                ELSE [i \in 1 .. chunks * others |->
                        Chunk(channel, (i - 1) \div others, Swizzle(c, (i - 1) % others))]
    IN  [stride |-> c.slice, width |-> width,
         programs |-> [pid \in 0 .. 2 * c.parts - 1 |-> Program(pid)]]

Chunks(c) == ChunkLayout(c.slice, EffectiveChunks(c.slice, c.parts, c.parts, MinChunk), Align)

Launches(c) ==
    CASE c.path = "vec_pull" -> <<VecLaunch(c, 0, c.slice)>>
      [] c.path = "pipelined" ->
            [k \in DOMAIN Chunks(c) |-> VecLaunch(c, Chunks(c)[k].offset, Chunks(c)[k].size)]
      [] c.path = "tma" -> <<TmaLaunch(c)>>
      [] c.path = "copy_engine" -> [i \in 1 .. c.size |-> MemcpyLaunch(c, i - 1)]
      [] c.path = "fused" -> <<FusedLaunch(c)>>

-----------------------------------------------------------------------------
Done == launch > Len(plan)
Programs == plan[launch].programs
Started(l) == [pid \in DOMAIN l.programs |-> 0]

Init ==
    /\ call \in CallSet
    /\ plan = Launches(call)
    /\ launch = 1
    /\ ran = Started(plan[1])
    /\ stored = [u \in 0 .. call.size * call.slice - 1 |-> << >>]

\* A program runs its next task; the bytes land at the peer's place in the output.
Run(pid) ==
    /\ pid \in DOMAIN Programs
    /\ ran[pid] < Len(Programs[pid])
    /\ LET task == Programs[pid][ran[pid] + 1]
           at == task.peer * plan[launch].stride
       IN  stored' = [u \in DOMAIN stored |->
              IF u \in at + task.from .. at + task.to - 1
              THEN Append(stored[u], <<task.peer, SourceBase(call) + u - at>>)
              ELSE stored[u]]
    /\ ran' = [ran EXCEPT ![pid] = @ + 1]
    /\ UNCHANGED <<call, plan, launch>>

\* Every program has exited: the next launch of the stream starts.
Retire ==
    /\ \A pid \in DOMAIN Programs : ran[pid] = Len(Programs[pid])
    /\ launch' = launch + 1
    /\ ran' = IF launch < Len(plan) THEN Started(plan[launch + 1]) ELSE << >>
    /\ UNCHANGED <<call, plan, stored>>

Quiescent == Done /\ UNCHANGED vars

Next == (~ Done /\ (Retire \/ \E pid \in DOMAIN ran : Run(pid))) \/ Quiescent

Spec == Init /\ [][Next]_vars

-----------------------------------------------------------------------------
(* Properties.                                                             *)

\* The vector accesses of a task: whole elements, then what is left by bytes
\* (_fused_block_copy; a tile of the other kernels has whole elements only).
Accesses(task) ==
    LET bulk == task.from + ((task.to - task.from) \div task.width) * task.width
    IN  {a \in {[task EXCEPT !.to = bulk], [task EXCEPT !.from = bulk, !.width = 1]} :
            a.from < a.to}

\* No access that a program is about to make leaves the slice or is misaligned,
\* at its source or at its destination, for any address of the tensors: a
\* misaligned vector access faults and loses the context.
AccessesLegal ==
    ~ Done =>
        \A pid \in DOMAIN ran : ran[pid] < Len(Programs[pid]) =>
            LET task == Programs[pid][ran[pid] + 1]
                at == call.out + task.peer * plan[launch].stride
            IN  /\ 0 <= task.from /\ task.from < task.to /\ task.to <= call.slice
                /\ \A a \in Accesses(task) :
                      (at + a.from) % a.width = 0 /\ (a.src + a.from) % a.width = 0

\* The input byte that output byte u must hold.
Wanted(u) == <<u \div call.slice, SourceBase(call) + (u % call.slice)>>

\* No output byte is stored twice or from the wrong place, in whatever order the
\* programs run.
StoredOnce == \A u \in DOMAIN stored : stored[u] \in {<< >>, <<Wanted(u)>>}

\* No output byte is left out: short last tiles, clipped boxes, empty channels and chunks
\* that rounding has dropped included.
AllStored == Done => \A u \in DOMAIN stored : stored[u] # << >>

\* Every chunk of a pipelined call keeps the vector width of the one-shot call
\* (_chunk_layout: "the vec kernel keeps its widest store").
ChunksKeepWidth ==
    call.path = "pipelined" =>
        \A k \in DOMAIN plan :
            plan[k].width = OneShotWidth(call)
=============================================================================
