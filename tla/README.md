# A verification model of group-free collectives

`gfc` runs barriers, all-gathers, all-to-alls and point-to-point transfers among
arbitrary subgroups of the ranks of one NVLink domain, without a communicator per
group. A rank submits everything to one stream; ranks meet only through three
regions of symmetric memory, written by peers with plain and release stores. This
project models the protocols of `gfc/`, checks them with TLC on small worlds, and
proves with TLAPS, for every world and size, the safety of the barrier, the
collectives, the copies, the registry and the path guards. Paths below are relative
to the repository (`gfc/...`); `runtime.py` is `gfc/runtime.py`.

## 1. The system: components

| Component | State | Operations | Correct when | Hard because |
|---|---|---|---|---|
| Barrier (`kernels/barrier.py`, `runtime.py: barrier`, `_barrier_on`) | `signal_buf` (two slots for each ordered pair), `edge_seq` (one counter for each peer, device-local) | one program for each peer: bump, publish token, spin, perhaps trap | nobody passes before its whole group has arrived; no awaited token is overwritten; no hang that the call orders do not force | slots are reused with no acknowledgement; groups overlap; stale tokens stay in the cells |
| Group registry and epochs (`runtime.py: register_group, unregister_group`, `group.py`) | `_registered`, `_epochs`, rank-list blocks on the device | register, unregister, take epochs | a token is used once in a session; a live group keeps its rank list until its last kernel has read it | stale handles, ids registered again, blocks recycled under queued kernels, a call with two critical sections |
| One-shot, pipelined and p2p calls (`runtime.py`, copy kernels) | `comm_buf`, the main and the copy stream, events | stage, pre-barrier, pull or put, post-barrier | outputs hold the peers' inputs; concurrent copies never conflict | all calls of a rank, of any group, share the first bytes of one `comm_buf`; two streams |
| Fused calls (`kernels/fused.py`) | `step_pad` cells by channel, chunk and publisher | sender and receiver CTAs of one persistent kernel | a receiver pulls only what is staged for this call; an accepted call ends | cells are never cleared; spinning CTAs occupy the SMs that others need |
| Path choice, autotune tables and guards (`runtime.py`, `autotune.py`, `config.py`) | rule table, flags | choose a path and its knobs, check, take epochs | a call that raises leaves no trace; the ranks' barriers pair up | checks in two places, before and behind the pre-barrier; each rank decides alone, and one input, the address of its output, is its own |
| Chunk layout (`_chunk_layout`, `_effective_pipeline_chunks`, fused partitions) | - | split a slice | chunks and partitions tile the slice, fit the allocated step cells and keep the vector width | rounding up to an alignment |
| Copy kernels (`kernels/all_gather.py`, `all2all.py`, `copy_pull.py`, `tma_paths.py`, `copy_engine.py`, `fused.py`) | - | persistent loops of tiles, tails, boxes | every output byte is stored once, from the right place, by legal accesses | widths, tails and strides differ by path and by alignment |
| Shutdown (`runtime.py: shutdown`, `buffer.py: zero_signal_grids`) | the whole runtime | drain, zero the grids and counters, meet the world, drop the rank lists, clear the registry | nothing of a peer's barrier is lost; nothing stale is left | peers may still be in their barriers; the registry is walked without the lock |
| Regions (`buffer.py`), configuration, external streams, environment, logging, TMA probe | sizes and pointers | once at start; single stream operations | - | little |

A call takes `_submit_lock`, orders the runtime's streams after the caller's
stream, takes the epochs it needs, enqueues its kernels and returns; devices then
run the streams on their own. Epochs and the group id make the tokens, so members
agree on tokens only because each makes the same calls on the group in the same
order. Ranks interact by stores into a peer's `signal_buf`, `step_pad` and, for
`put`, `comm_buf`, and by loads from a peer's `comm_buf`.

## 2. The modules

| Module | Models |
|---|---|
| `Counting` | `CountUpTo`, which epochs, rounds and ordinals are counts of |
| `Schedule` | call orders: instances (group, epoch), rounds of an edge, `PairwiseConsistent`, `Completable` |
| `GroupBarrier` | abstract: arrive, and leave when the whole group has arrived |
| `EdgeBarrier` | the signal grid barrier: host and device of each rank, a process for each edge, watchdog |
| `Calls` | calls, and the input unit that each output unit must hold |
| `Exchange` | abstract: deliver every unit once, return when complete and joined by all |
| `Collectives` | one-shot, pipelined and p2p calls as programs over two streams, on `GroupBarrier` |
| `FusedCollectives` | the persistent kernel of the fused path, on `GroupBarrier` |
| `HostRuntime` | registry, epochs, submission, shutdown, and rank lists in device memory |
| `EdgeBarrierShutdown` | `EdgeBarrier` with each rank's shutdown |
| `Layout` | chunk, partition and vector-width arithmetic: operators without state |
| `CopyKernels` | the launches, programs and accesses of one call's copies on one rank, on `Layout` |
| `Dispatch` | validation, path choice, guards, epochs and barriers of a sequence of calls, on `Layout` |
| `MCEdgeBarrier`, `MCEdgeBarrierShutdown`, `MCCollectives`, `MCFusedCollectives`, `MCHostRuntime`, `MCCopyKernels`, `MCDispatch` | the small worlds of the runs |
| `Arithmetic` | lemmas on counts and quotients; theorems on `Layout` |
| `EdgeBarrierProofs`, `EdgeBarrierShutdownProofs`, `CollectivesProofs`, `FusedCollectivesProofs`, `HostRuntimeProofs`, `CopyKernelsProofs`, `DispatchProofs` | the proofs about the modules they are named for |

`EdgeBarrier` implements `GroupBarrier` (proved and checked); `Collectives` and
`FusedCollectives` are built on `GroupBarrier` and implement `Exchange` (checked, and
proved of `FusedCollectives`).
That is the chain from the signal cells to what a caller reads. Beside it,
`Dispatch` says which of these programs a call becomes, `CopyKernels` that the
kernels under the unit moves of `Collectives` and `FusedCollectives` move every
byte of a slice once, and `HostRuntime` where the epochs and rank lists come from.

### How state and actions correspond to the code

**EdgeBarrier.** `HostBarrier` is the critical section of `barrier()`: take an
epoch, hash the token, launch. `stream` is FIFO; `retired` counts kernels that
have completed, so the head is `stream[r][retired[r] + 1]`. `Publish` is one
program's read and bump of `edge_seq` with its release store, which touch nothing
another program of the rank touches before the store; `FirstLoad` is the load
before the loop, `SpinLoad` a load in the loop, `Trap` the deadline check after a
load, whatever the load has seen. The token hash is injective and not zero
(64-bit splitmix64, 0 remapped): what remains is a collision of 64-bit hashes.
A trapped rank stops altogether, as its context is lost.

**Collectives.** A call appends operations to `queue[r]["main"]` and
`queue[r]["copy"]`; `waits` are the CUDA events each operation waits for. A copy is a
set of moves of single units made in any order, which covers every tiling of the
copy kernels, the copy engine and TMA: these differ only in who moves what when.
The units of a slice are what the pipelined path stages as chunks. `Submit` is the
one critical section of a call; `Ingest` is `wait_stream` on the caller's stream,
whose single operation for each call produces the input. Cells never written read
as `Stale`.

**FusedCollectives.** The stream of a rank has three operations for each call:
pre-barrier, kernel, post-barrier. Each CTA has a chunk counter; a sender stages
(`Move`), and when its moves are complete (`Staged`: the CTA barrier and the
fence) its lanes `Publish` in any order; a receiver leaves its spin (`See`) on a
round of loads that satisfied every lane, then pulls. Rounds of loads that do not
succeed change nothing, except that the first one leads into the loop (`Spin`), where
the deadline is checked after each round, whatever it has seen (`Trap`); a trapped
rank stops altogether. `Armed` are the workloads that run with the watchdog. `Start` gives CTAs SMs in any order, one for each SM, and
`Capacity` is the check of `_check_fused_launch_capacity`. The text of `fused.py`
(line 18) says a receiver waits for a value `>=` its target; the kernel tests `==`
(line 280), and the model follows the kernel: with `>=` a larger value left by an
earlier call would let it through. One wait can fail only by the base token's
window meeting another's or 0 (`StepBaseAssumption`); `compute_token` excludes 0
for the base but not for `step_base + k + 1`.

**HostRuntime.** One rank. Every critical section of the lock is one step. A rank
list's fill and the kernels that read it are stream operations; blocks return to
the allocator (external) when `unregister_group` drops the tensor, and since a
list is allocated on the stream that uses it, a later fill of the block runs
behind the kernels already queued. `record_stream` with the allocation stream
adds nothing to this order. `Foreign` are the rank lists this rank is not in: their
descriptors have no block. Registering an id that exists, and releasing a handle
the registry does not hold, change nothing and are not steps. `shutdown` takes no
lock, so each of its steps interleaves with other threads' calls, which nothing stops
even when it has returned: `Drain`; the loop over the live registry (`BeginWalk`,
`NextDescriptor` and its body `DropRankList`, `EndWalk`); `ClearRegistry`; `MeetWorld`.
The registry is a dict, and its iterator (external) is modelled as CPython's:
before each step it looks whether the dict has the size it had at first, and at the
end whether there are entries it did not count on; either raises (`WalkRaises`), with
lists dropped and nothing else done, and `shutdown` may be called again since
`_shutdown` is not set. When the sizes agree by chance, a release and a registration
between two of its steps, an insertion may have rebuilt the table, and the iterator
skips entries (`Rebuilt`). A descriptor that the registry has let go of dies, with its
rank list, when its last reference does (`Collect`). A critical section stays one step
beside `shutdown`: it reads a group's rank list once, and only sections hand out
blocks, so a list dropped within one might as well be dropped before or behind it.

**EdgeBarrierShutdown.** `phase[r]` is how far `shutdown` has got on rank `r`: it
drains the streams (or raises, when a kernel has trapped), zeroes the grid its peers
write to, zeroes `edge_seq` and joins the barrier of the world's process group. A
rank begins as soon as its callers have made all their calls; its peers may be in
theirs. Nobody then changes the registry under the loop, which does not raise: what it
does beside a rank's own callers is `HostRuntime`'s.

**Dispatch.** A configuration, a table, a sequence of calls and the address of each
rank's output are fixed by `Init`; ranks take the calls independently.
`Passes` holds every check that precedes the epochs and the pre-barrier
(arguments, `_autotune_path_guard`, `check_collective_tma_gates`,
`_check_fused_launch_capacity`), `LauncherTakes` those that follow it. A call is
`Reject`ed, leaving no trace, raises in its launcher with the pre-barrier enqueued
(`RaiseInLauncher`), or is issued (`Submit`). The checks that only a caller's mistake
fails (contiguity, device, size of the output, a group without rank list) are left
out: arguments are otherwise valid and the same on every rank. Operation names are the methods';
`policy_for` spells the first one `allgather`.

**CopyKernels.** `plan` is the list of launches of a call; the programs of a launch
run concurrently, each through its list of tasks, and a task copies a range of a
peer's slice with a width. `stored` records, for each output byte, what has been
stored to it. A tile is `BlockBytes`, 64 KiB in the launchers and 16 bytes here, which
changes how many tiles a slice has and nothing else; all addresses and sizes of a
run are bytes.

**Layout.** `AlignUp` is the mask expression of the code for alignments that are
powers of two. `ChunkLayout` has no case for a small remainder joined to the
chunk before it, since the loop of `_chunk_layout` never gets there (section 4).

## 3. Runs

| Run | World | Shows |
|---|---|---|
| `barrier_two` | 2 ranks, 2 groups, all schedules of up to 3 barriers, watchdog on | all safety properties, `NoSilentHang`, refinement |
| `barrier_pairs` | 3 ranks and their 3 pairs: two calls a rank, consistent and not, and a sequence in which an edge comes back | `Completes`; the grid hangs only where the ideal barrier does (`ImplementsFairGroupBarrier`) |
| `barrier_shutdown` | 3 ranks, groups ABC, AB, BC, watchdog on: one schedule completes, in one a rank never joins, one deadlocks | `BarrierSync`, `NoLostSignal` and refinement under overlapping groups and early shutdowns; `QuietAfterDrain`, `CleanAfterShutdown`, `BuffersUnusedWhenClosed` |
| `barrier_cyclic` | 3 ranks, pairwise agreed orders with a cycle | violation: `PairOrderSuffices` |
| `collectives_sharing` | put, get and a call of any kind on 3 pairs, any orders; a pipelined call, then any call on the same or an overlapping group | `NoRace`, `ImplementsExchange` |
| `collectives_global` | a call of the world, then one on a pair | `EveryCallReturns`, `ImplementsExchange` |
| `fused_overlap` | 2 fused calls, overlapping or same group, 1 channel, 1 or 2 SMs; 2 calls on one pair with the watchdog on | stale cells, `comm_buf` reuse, `AcceptedCallsReturn`, `NoKernelHangs` |
| `fused_channels` | 1 fused call on 2 channels, 4 SMs | channels do not mix |
| `host_registry` | 2 ids, lists of the rank and foreign ones, 2 blocks, 3 descriptors, 2 epochs an id, 4 stream operations, a shutdown at any time, again when it raised | `TokensUnique`, `LiveIffRegistered`, `ShutdownDropsLists`, `KernelsReadTheirRanks` |
| `host_p2p` | the same with 3 epochs | violation: `EpochsLaunched` |
| `copy_kernels` | every path, groups of 1 to 3, slices below, at and above a tile, aligned and misaligned tensors, 1 to 5 SMs | `AccessesLegal`, `StoredOnce`, `AllStored` |
| `dispatch` | 2 ranks, 6 configurations, tables of up to 2 rules, pairs of calls, aligned and misaligned outputs | `NothingHalfIssued`, `NoLateChannelError`, `BarriersPairUp` |

**Bounds.** Two slots mean that a cell is reused on the third barrier of an edge,
so three barriers reach every reuse, and the proofs remove the bound. Three ranks
in pairs give the smallest cycle and the smallest overlap where a rank's
`comm_buf` is still read by one peer while another group's call starts. Two calls
after each other on a buffer are enough to reuse it; two chunks are enough for
staging of one to overlap the pull of the other. `Width = 5` makes step values
wrap inside a run. Three descriptors let an id be registered, released and
registered again while a stale handle exists, also under shutdown's loop; two blocks
make reuse unavoidable; four stream operations (`MaxOps`) hold a fill and a kernel of
one group, then of the next in the same block. Blocks are only compared for equality, so `host_registry` takes them
up to a permutation. In `copy_kernels` the slices take every residue that a vector
width tells apart, and the tile and the chunk hold 16 bytes, so that slices of one
to three tiles, a short last tile, a short last chunk and an empty channel all occur. In
`dispatch` a call carries at most 64 bytes; the rules cover each path, each bad knob
and a rule without a path, and two rules are the fewest for which order matters.

**Deadlock.** `CHECK_DEADLOCK FALSE` stands where the system may really stop (call
orders with a cycle, calls a peer never makes, a trapped rank, ranks that issue
their calls in any order, the bounds of `HostRuntime`), and in `collectives_global`
and `fused_overlap`, where a deadlock violates the liveness property that the run
checks. `fused_channels`, `copy_kernels` and `dispatch` check it.

**Fairness.** Callers make all their calls; the head of a stream that can run does
run; a resident program or CTA makes progress; a spin that goes on passes its
deadline, when there is one. CUDA gives these: a stream's head is scheduled once its
dependencies are met, and resident thread blocks make forward progress. Nothing is
assumed of CTAs without an SM. Only weak fairness is used, on the step of each
stream, edge or CTA.

## 4. What the runs say about the code

Safety of the barrier does not depend on the order of calls: even ranks that
disagree never pass a barrier early, use different slots for one instance or lose
a signal. The warning of `runtime.py:477-482` that a violated order makes the
slots diverge is over-cautious; a wrong order can only hang.

Two disagreements are recorded:

1. `barrier_cyclic`: order agreed by each pair, with the lock and the stream FIFO
   (`tests/test_overlap_order.py:8`, `runtime.py:475`), does not exclude deadlock
   of three ranks; the orders must have no cycle, as `Completable` states. A
   single global sequence, which the tests follow, has none.
2. `host_p2p`: `_p2p_protocol` takes its epochs before the check that the group
   still has its rank list, so a group unregistered by another thread between
   the two critical sections leaves the endpoints' counters apart for good;
   elsewhere such checks come first, as `_autotune_path_guard` says they must.

Five observations contradict no text of the repository, or are exceptions that a
property names:

- Two calls are half issued: an `all_gather` of no bytes, and one that a table sends
  to `vec_pull` with `copy_sms` 0, pass every check in front of the pre-barrier and
  are refused by the launcher behind it, so peers wait for a post-barrier. They
  are the exceptions in `NothingHalfIssued`; there are no others.
- The constructor checks the channels of a table's fused rules against `step_pad`
  only. A rule that asks for more CTAs than the device has SMs is accepted, and the
  calls it matches are rejected, before their pre-barrier.
- The members of a group can be split, one rejecting a call that another issues,
  only on the TMA path with outputs of different alignment (`BarriersPairUp`), as long
  as their arguments are otherwise valid and identical.
- `shutdown` beside threads that still register or release groups is safe for the
  device (`KernelsReadTheirRanks`) but need not finish: its loop can raise with some
  lists dropped, the registry as it was, and the world barrier not joined, where the
  peers then wait until it is called again. Until then a registered group may be
  without its list: `register_group` returns it, collectives on it raise before they
  take epochs, a p2p call after it has taken two. And a group registered between the
  end of the loop and `clear()` keeps its list, which no `unregister_group` can free.
- Dead code: the branch of `_chunk_layout` that joins a remainder to the last chunk
  (by `ChunkLayoutTiles`' argument the loop ends at the axis); the byte tails of the
  vector kernels, whose width always divides the size; the launcher's chunk
  count check on the static fused path (`FusedChunksFit`).

## 5. Proofs

`EdgeBarrierProofs` proves, for every set of ranks, groups, membership and every
well-formed set of schedules, with the watchdog on or off (assumptions:
`MembersAssumption`, `SchedulesAssumption`, `TimeoutAssumption`):

- `TypeCorrect`, `BarrierSyncHolds`, `RoundsAgreeHolds`, `NoLostSignalHolds`,
  `PairSkewHolds`: the invariants of `barrier_two`;
- `ReuseAfterConsumeHolds`: a cell is overwritten only when its token has been used;
- `Refinement`: `Spec` implements `GroupBarrier!Spec`;
- `OnlyCompletableHolds`: what has run to its end was `Completable`.

No property is inductive as it stands. The invariant of the first seven is `IInv`, of
six parts:

- `TypeOK`;
- `StreamInv`: the stream is the schedule's prefix and each kernel's token is the
  instance `BarrierAt(schedule[r], i)`;
- `PcInv`: programs are active only for members of the head kernel's group;
- `SeqInv`: `edge_seq[r][q]` is the number of calls involving `q` that have been
  retired, plus one when the head's program has published;
- `CellInv`: a cell holds the token that its writer published in that slot's last
  use;
- `AgreeInv`: a passed instance was published by the peer in the same round.

`SeqInv` and `CellInv` turn the cells into arithmetic on rounds: a program that sees
its token sees a publication of that very instance, by injectivity of
`BarrierAt`. Each end can be in round n + 1 only after it has seen the other's
round n (`Skew`), so the peers are at most one round apart, the parity of the
slot identifies the round, and a store always goes to a cell whose token has been
seen. `Arithmetic` has the lemmas on counts (monotone, injective, every value
attained).

`OnlyCompletable` quantifies over sets of instances. Its invariant, `OrderInv`, says
that every non-empty set of instances that some rank has left has a first one in the
ranks' orders. A rank leaves an instance that nobody had left when all members are
in it, and none of them is past it; what comes later in a member's schedule
nobody can have left (`NothingAhead`), so the new instance precedes no old one.

`EdgeBarrierShutdownProofs` proves all properties of `barrier_shutdown`, for the same
worlds, in three steps.

- A rank past its drain has finished (`DrainedInv`), and all ranks have joined the
  world's barrier once one has left it (`ClosedInv`): `BuffersUnusedWhenClosedHolds`.
- `SeqInv` and `CellInv` break when a rank zeroes its grid and counters while its peers
  still run. What these would hold without zeroing is a function of the ranks'
  progress: `EdgeSeqs`, a count, and `Cells`, the last publication. A rank that runs has
  not drained and reads just that (`FaithfulInv`), so that every behaviour is, with
  those functions for the real variables, one of `EdgeBarrier`: `ZeroingInvisible`,
  `SSpec => EdgeBarrier!Spec` under that mapping. The theorems about `EdgeBarrier`
  then give `BarrierSyncSurvivesShutdown`, `NoLostSignalSurvivesShutdown` and
  `RefinementSurvivesShutdown`.
- A peer that stores to a rank that has finished does so for a barrier that this rank
  does not join: had it joined it, it would have passed the peer, which by
  `BarrierSync` had then published (`LateStore`). Hence `QuietAfterDrainHolds`; and, as
  the peer then waits there for ever, `CleanAfterShutdownHolds` (with `ZeroedInv`).

`CollectivesProofs` proves the types (`TypesOK`) and `NoRace` (`RaceFree`) of the one-shot,
pipelined and p2p calls, for every world and every workload that `Matched` admits
(assumptions: `WorkloadsAssumption`; `GroupsAssumption`, that a group names no rank
twice, which `register_group` checks; `PairsAssumption`, that p2p runs on two ranks).
Neither is inductive: whether a copy may run depends on what is queued before it and
on how far the peers are. Its `IInv` has seven parts:

- `FunctionsOK`: the shapes of the state;
- `QueueOK`: each stream and the schedule hold the submitted calls one after the other,
  each at the sum of the lengths before it, with the operations and waits of its program;
- `EpochsOK`: the barriers of a call are consecutive instances of its group, starting
  at the same number for all its members;
- `StreamOK`: the main stream stands at one place of one call and has left exactly the
  barriers before it;
- `ForkOK`: it is past the k-th barrier of a pipelined call only when the copy stream has
  staged chunk k, and the copy stream is in a call only when the main stream has
  reached it;
- `JoinedOK`: who has left the b-th barrier of a call has seen every member arrive at
  the b-th barrier of the same call;
- `MovedOK`: the rest of `TypeOK`.

`RaceFree` follows without another induction. A rank touches a peer's `comm_buf` only
between two barriers of a call. By `JoinedOK` on both sides, the peer is then in the same
call, between the same two barriers or still in the first (`Window`): it stages
nothing of another call, and no third rank of a p2p call exists. What is left is one call
against itself: its copy stream stages later chunks while its pulls read earlier ones
(`CopyPos`), and two chunks share no unit (`ChunksApart`); and the destination of
a put takes its bytes out behind the second barrier (`PutAlone`).

`FusedCollectivesProofs` proves the types, `StagedBeforePull` and the refinement of
`Exchange` for every world,
workload, number of channels and SMs, cell width and choice of tokens (assumptions:
`WorkloadsAssumption`, `ChannelsAssumption`, `WidthAssumption`, `CallsAssumption`,
`StepBaseAssumption`). A receiver tests a cell that calls of all groups share. `CellsOK`
says that what a cell holds was published by its rank, for that chunk of some
call; by `StepBaseAssumption` the value tells which call. That the peer is still in this
call when the chunk is pulled needs the barriers: `EpochsOK`, that the instances of a
call are twice its ordinal on the group and the one before; and `JoinedOK`, that a rank which
has left a barrier of a call has seen all members arrive at the same barrier of the
same call. A peer that had gone on would have left the post-barrier, at which the
receiver has yet to arrive.

`ImplementsIdealExchange` says what the data is worth: every behaviour is one of
`Exchange`. Its invariant, `DataInv`, adds where each unit is. `MovedOK`: a CTA moves units
of its chunk only, and tells a peer of a chunk once all of it is staged; `StagedOK`: a unit that
this call has staged holds this call's input; `OutputOK`: an output unit holds the input
that its definition names from when its CTA has copied it, and nothing before. Each
unit of a slice is in one chunk of one channel (`UnitParts`, `ChunkUnits`), so one CTA has it
(`OutputParts`, `InputParts`), and a CTA's moves are exactly those units' (`MovesAre`).
The step that counts is a pull (`Arrives`): `StagedBeforePull` puts the peer in the same call
with the chunk staged, `StagedOK` then says what the pull reads. Submitting a call is then
`Produce`, a move to an output `Deliver` (a cell not written before, by `OutputOK`), and
leaving the post-barrier `Return`: the kernel has retired, so all units are copied, and
every member has come as far (`AllJoin`, from `JoinedOK`). All other steps stutter.

`Arithmetic` proves for all sizes that the chunks of a pipelined call tile it in
order, none empty, each at an aligned offset (`ChunkLayoutTiles`); that every byte of
a slice belongs to exactly one channel (`PartitionsTile`); and that a slice that fits
`comm_buf` never has more chunks in a channel than `step_pad` has cells
(`FusedChunksFit`). They rest on a few bounds of rounded division.

`CopyKernelsProofs` proves the properties of `copy_kernels`, and `ChunksKeepWidth` (no
chunk of a pipelined call is copied in narrower vectors), for every call, group
size, address, tile, chunk, number of channels and of SMs (assumptions:
`AlignAssumption`, that the alignment is a multiple of 16; `BytesAssumption`, that a
tile is too, and a fused chunk a multiple of the alignment; `CallsAssumption`, the
operations that each path serves and the TMA gates). Since the order of tasks does not
matter, the substance is about the plan that a call is turned into:

- `VecWidthFacts`: the width chosen divides every address and the size it was chosen for.
  So a vector kernel has no tail, and each of its accesses is aligned (`AlignedTask`).
- `LaunchOK` and `Once`: the tasks of a launch stay inside its part of a slice, and each
  byte of each slice is in exactly one of them. For the persistent loops this is
  arithmetic on digits (`LoopLaunch`): a byte's offset has one tile, a tile and a peer
  have one task number (the swizzle is a permutation of the peers), a task number has one
  program and one turn of its loop. `VecLaunchCopies`, `TmaLaunchCopies`, `MemcpyLaunchCopies` and
  `FusedLaunchCopies` apply it, the last with channels (`PartitionsTile`) and chunks.
- `PlanOK`: so it is for the whole plan, whose launches are one per chunk (`PipelinedPlan`,
  by `ChunksSplit`), one per peer (`EnginePlan`), or one.

Then `IInv` is short: the launch and the counters are in the plan (`PlaceInPlan`), and a
byte holds what it must if the task that has it has run, and nothing before
(`BytesStored`). `StoredOnceHolds` and `AllStoredHolds` follow as each byte has one task, and
`AccessesLegalHolds` from `LaunchOK`. `ChunksKeepWidthHolds` needs that each chunk starts at
an aligned offset and that the last one ends where the slice does (`ChunkWidth`).

`HostRuntimeProofs` proves every property of `host_registry`, for any ids, lists,
threads, blocks and bounds, with a shutdown that interleaves with all of it (`PairAssumption`, `BlockAssumption`,
`BoundsAssumption`). `TokensUnique` becomes inductive with `Taken`: every launched
epoch is below its group's counter. `KernelsReadTheirRanks` needs `Findable`: for
every queued kernel, what its block will hold when the stream reaches it, that is
the last fill of the block before it or, without one, its present content, is the
kernel's rank list; and so it is for the block of every live descriptor, at the
stream's end. That is why a block may be handed out while kernels that read its
previous list are queued, and why it does not matter at which point of its loop
`shutdown` raises: lists that it drops are of no live descriptor any more, lists that it
leaves are as before. `ShutdownDropsLists` needs `Dropped`: unless a group has been
registered since the loop began, no descriptor up to the one it is at has a list. What
the loop passes over has been released, and by `LiveIffRegistered` has no list.

`DispatchProofs` proves the three properties of `dispatch` for every configuration,
table and sequence of calls that `DispatchAssumption` admits. For `NothingHalfIssued`
and `NoLateChannelError` the invariant only says that each outcome was decided by the
checks, the same on every later look as nothing they read ever changes; the
substance is `GuardsComplete`: what passes in front of the pre-barrier passes behind
it, on the static fused path by `FusedChunksFit`. `BarriersPairUp` compares two ranks.
Its invariant `HistoryOK` gives every rank a history of each group's epochs, a function
of the calls it has taken; two ranks that have taken the same calls and were split by no
output address have the same history (`SameProgress`), since every decision reads
only what the ranks share, but for the alignment that the TMA gate reads
(`SplitByAlignment`).

**Model-checked only.** Liveness (`Completes`, `ImplementsFairGroupBarrier`,
`NoSilentHang`, `EveryCallReturns`, `AcceptedCallsReturn`, `NoKernelHangs`): fairness and ENABLED are
out of the prover's reach. Not proved yet: that `Collectives` implements `Exchange`.
Every invariant that a run checks is proved.

## 6. Not modelled

- The TMA probe: a one-off test of the hardware; a runtime whose probe fails is not
  constructed, as `Dispatch` has it.
- Environment variables, JSON parsing and logging: text.
- `wait_for_external` and `record_event`: single stream operations, ordered by their
  caller.
- The debug cross-check of a world group: off by default, a comparison over the
  process group.
- A failing `cudaMemcpyAsync`: nothing handles it.
- The instructions: PTX, Triton and TMA semantics are taken as documented. Memory is
  sequentially consistent: the code orders data by release stores and acquire
  loads at system scope and by stream order, which the models take as the order
  they create.

## 7. Plan

What remains is proof: that `Collectives` implements `Exchange`, from its `IInv`, `NoRace`
and an invariant that says what a `comm_buf` and an output hold, in the manner of
`FusedCollectivesProofs`. It needs the assumption that a slice, and a pipelined
call's chunks, fit `comm_buf`, which `runtime.py` checks for each call.
