-------------------------- MODULE FusedCollectives --------------------------
(***************************************************************************)
(* The fused path of all_gather and all2all (src/gfc/kernels/fused.py and  *)
(* its launch in runtime.py): pre-barrier, one persistent kernel, post-    *)
(* barrier.                                                                *)
(*                                                                         *)
(* The kernel has a sender and a receiver CTA for each channel, and these  *)
(* run concurrently.  The sender stages its partition chunk by chunk and   *)
(* publishes every chunk in a cell of each peer's step_pad; the receiver   *)
(* spins until every peer has published the chunk and pulls it.  Cells are *)
(* indexed by channel, chunk and publishing rank: calls of all groups      *)
(* share them, and only the value tells one call's signal from another's.  *)
(* A unit of Calls is a chunk here.                                        *)
(***************************************************************************)
EXTENDS Calls

CONSTANTS
    CommSize,   \* the units of a comm_buf (config.max_collective_bytes)
    Channels,   \* config.fused_num_channels
    Sms,        \* the numbers of SMs that the devices may have
    Width,      \* bits of a step cell (64)
    Armed,      \* the workloads that run with config.timeout_ms > 0
    StepBase    \* StepBase[g][k]: the token of the k-th fused call on group g

ASSUME ChannelsAssumption == Channels \in Nat \ {0}

Channel == 0 .. Channels - 1

\* ceil(slice / num_channels) chunks for each channel, fewer for the last ones.
PerChannel(c) == (c.size + Channels - 1) \div Channels
Partition(c, ch) == {u \in Slice(c) : u \div PerChannel(c) = ch}
Chunks(c, ch) == Cardinality(Partition(c, ch))
UnitOf(c, ch, k) == ch * PerChannel(c) + k

\* fused_max_chunks_per_channel; max_collective_bytes bounds it.
MaxChunks == CommSize + 1
Step == 0 .. 2 ^ Width - 1

\* A step cell is an unsigned integer of Width bits.  (The provers have no theory
\* of exponentiation: what they need of it is stated here.)
ASSUME WidthAssumption == Width \in Nat /\ 2 ^ Width \in Nat \ {0}

\* The input fits in a comm_buf (_validate_collective_args, all2all), and the
\* calls that the workloads make on a group have tokens.
ASSUME CallsAssumption ==
    /\ CommSize \in Nat
    /\ StepBase \in [Group -> Seq(Step)]
    /\ \A w \in Workloads : \A r \in Rank : \A n \in DOMAIN w[r] :
          LET c == w[r][n]
          IN  /\ c.op \in {"all_gather", "all2all"}
              /\ (IF c.op = "all2all" THEN Len(GroupRanks[c.group]) ELSE 1) * c.size <= CommSize
              /\ Ordinal(w[r], n) \in DOMAIN StepBase[c.group]

\* The tokens of different calls are far apart and no step wraps to the 0 that
\* the cells are allocated with: of 64-bit hashes, all but a negligible part.
Window(b) == {(b + k + 1) % 2 ^ Width : k \in 0 .. MaxChunks - 1}
ASSUME StepBaseAssumption ==
    \A g, h \in Group : \A i \in DOMAIN StepBase[g], j \in DOMAIN StepBase[h] :
        /\ 0 \notin Window(StepBase[g][i])
        /\ <<g, i>> # <<h, j>> => Window(StepBase[g][i]) \cap Window(StepBase[h][j]) = {}

VARIABLES
    workload,    \* the callers' calls, fixed by the initial state
    num_sms,     \* SMs of the devices, fixed by the initial state
    submitted,   \* how many calls each rank has submitted
    done,        \* how many operations of its stream have completed
    running,     \* the CTAs of r's kernel that have an SM
    chunk,       \* chunk[r][cta]: the chunks that the CTA has finished
    moved,       \* moved[r][cta]: the moves made of the chunk it is at
    lanes,       \* lanes[r][cta]: the peers it has told of it, or has seen it from
    step_pad,    \* step_pad[r][ch][k][q]: r's cell for chunk k of channel ch of q
    mem,         \* the units of the comm_bufs and of the outputs
    spinning,    \* spinning[r]: the channels whose receiver is in its spin loop
    trapped,     \* r's watchdog fired: its context is lost
    schedule, arrived, departed   \* the barriers

barriers == <<schedule, arrived, departed>>
kernels == <<running, chunk, moved, lanes>>
watchdog == <<spinning, trapped>>
vars == <<workload, num_sms, submitted, done, kernels, step_pad, mem, watchdog, barriers>>

Barriers == INSTANCE GroupBarrier WITH Schedules <- Seq(Group)

Comm(r, u) == <<"comm", r, u>>
CommCells == {Comm(r, u) : r \in Rank, u \in 0 .. CommSize - 1}
Stale == <<"stale">>
Unwritten == << >>
Read(c) == IF c[1] = "input" THEN c ELSE mem[c]

Cta == {"sender", "receiver"} \X Channel
Sender(ch) == <<"sender", ch>>
Receiver(ch) == <<"receiver", ch>>

Init ==
    /\ workload \in Workloads
    /\ num_sms \in Sms
    /\ submitted = [r \in Rank |-> 0]
    /\ done = [r \in Rank |-> 0]
    /\ running = [r \in Rank |-> {}]
    /\ chunk = [r \in Rank |-> [cta \in Cta |-> 0]]
    /\ moved = [r \in Rank |-> [cta \in Cta |-> {}]]
    /\ lanes = [r \in Rank |-> [cta \in Cta |-> {}]]
    /\ step_pad = [r \in Rank |-> [ch \in Channel |-> [k \in 0 .. MaxChunks - 1 |->
                      [q \in Rank |-> 0]]]]
    /\ mem = [c \in CommCells \cup OutputCells(workload) |->
                IF c \in CommCells THEN Stale ELSE Unwritten]
    /\ spinning = [r \in Rank |-> {}]
    /\ trapped = [r \in Rank |-> FALSE]
    /\ schedule = [r \in Rank |-> << >>]
    /\ arrived = [r \in Rank |-> 0]
    /\ departed = [r \in Rank |-> 0]

-----------------------------------------------------------------------------
(* The stream: three operations for each call.                             *)

\* Fault: more CTAs than can be resident are launched.
NoCapacityCheck(channels) == channels > 0

\* _check_fused_launch_capacity: all CTAs of a kernel are resident together.
Capacity(channels) == 2 * channels <= num_sms

\* Fault: the call ends with its kernel.
NoPostBarrier(g) == <<g>>

\* The barriers of a call: one before its kernel and one after it.
CallBarriers(g) == <<g, g>>

\* The call is refused before it consumes an epoch, or submitted whole.
Submit(r) ==
    LET n == submitted[r] + 1
    IN  /\ n <= Len(workload[r])
        /\ ~ trapped[r]
        /\ Capacity(Channels)
        /\ submitted' = [submitted EXCEPT ![r] = n]
        /\ schedule' = [schedule EXCEPT ![r] = @ \o CallBarriers(workload[r][n].group)]
        /\ UNCHANGED <<workload, num_sms, watchdog, done, kernels, step_pad, mem, arrived, departed>>

\* The call that r's stream is in, and where: 0 pre-barrier, 1 kernel, 2 post.
OpsPerCall == Len(CallBarriers("any")) + 1
CallAt(r) == done[r] \div OpsPerCall + 1
Current(r) == workload[r][CallAt(r)]
InOp(r, ops) == CallAt(r) <= submitted[r] /\ done[r] % OpsPerCall \in ops
InKernel(r) == InOp(r, {1})

Arrive(r) ==
    /\ ~ trapped[r] /\ InOp(r, {0, 2})
    /\ UNCHANGED <<workload, num_sms, watchdog, submitted, done, kernels, step_pad, mem>>
    /\ Barriers!Arrive(r)

Depart(r) ==
    /\ ~ trapped[r] /\ InOp(r, {0, 2})
    /\ done' = [done EXCEPT ![r] = @ + 1]
    /\ UNCHANGED <<workload, num_sms, watchdog, submitted, kernels, step_pad, mem>>
    /\ Barriers!Depart(r)

-----------------------------------------------------------------------------
(* The kernel.                                                             *)

Finished(r, cta) == chunk[r][cta] = Chunks(Current(r), cta[2])

\* A CTA gets an SM, in any order; it keeps it until it has finished.
Start(r, cta) ==
    /\ ~ trapped[r] /\ InKernel(r)
    /\ cta \notin running[r]
    /\ Cardinality({c \in running[r] : ~ Finished(r, c)}) < num_sms
    /\ running' = [running EXCEPT ![r] = @ \cup {cta}]
    /\ UNCHANGED <<workload, num_sms, watchdog, submitted, done, chunk, moved, lanes, step_pad, mem, barriers>>

\* A resident CTA with a chunk left.
Runs(r, cta) == ~ trapped[r] /\ InKernel(r) /\ cta \in running[r] /\ ~ Finished(r, cta)

\* The chunk's moves: the sender stages it, and copies its own slice straight to
\* the output; the receiver pulls it from every peer but itself.
Moves(r, cta) ==
    LET c == Current(r)
        n == CallAt(r)
        me == LocalIndex(c.group, r)
        u == UnitOf(c, cta[2], chunk[r][cta])
        at == IF c.op = "all2all" THEN me * c.size + u ELSE u
        staged == IF c.op = "all2all" THEN {t * c.size + u : t \in Peers(c.group)} ELSE {u}
    IN  IF cta[1] = "sender"
        THEN {[from |-> Input(r, n, x), to |-> Comm(r, x)] : x \in staged}
                \cup {[from |-> Input(r, n, at), to |-> Output(r, n, me * c.size + u)]}
        ELSE {[from |-> Comm(PeerAt(c.group, i), at), to |-> Output(r, n, i * c.size + u)] :
                  i \in Peers(c.group) \ {me}}

\* The value that the chunk is published with; the counter wraps.
StepOf(r, k) ==
    (StepBase[Current(r).group][Ordinal(workload[r], CallAt(r))] + k + 1) % 2 ^ Width

Others(r) == Members[Current(r).group] \ {r}

\* Fault: any published value will do.
SeenAny(r, ch, k, q) == step_pad[r][ch][k][q] # 0

\* A lane of the receiver loads the value it waits for.
Seen(r, ch, k, q) == step_pad[r][ch][k][q] = StepOf(r, k)

SeenByAllLanes(r, ch) == \A q \in Others(r) : Seen(r, ch, chunk[r][Receiver(ch)], q)

\* The receiver leaves its spin: one round of loads has satisfied every lane.
See(r, ch) ==
    /\ Runs(r, Receiver(ch))
    /\ lanes[r][Receiver(ch)] # Others(r)
    /\ SeenByAllLanes(r, ch)
    /\ lanes' = [lanes EXCEPT ![r][Receiver(ch)] = Others(r)]
    /\ spinning' = [spinning EXCEPT ![r] = @ \ {ch}]
    /\ UNCHANGED <<workload, num_sms, trapped, submitted, done, running, chunk, moved, step_pad, mem, barriers>>

\* One unit of the chunk moves: at once for the sender, after the spin for the
\* receiver.
Move(r, cta) ==
    /\ Runs(r, cta)
    /\ cta[1] = "receiver" => lanes[r][cta] = Others(r)
    /\ \E m \in Moves(r, cta) \ moved[r][cta] :
          /\ mem' = [mem EXCEPT ![m.to] = Read(m.from)]
          /\ moved' = [moved EXCEPT ![r][cta] = @ \cup {m}]
    /\ UNCHANGED <<workload, num_sms, watchdog, submitted, done, running, chunk, lanes, step_pad, barriers>>

\* Fault: the sender publishes a chunk that it may still be staging.
Unstaged(r, ch) == Cardinality(moved[r][Sender(ch)]) >= 0

\* The CTA's own barrier and fence: the chunk is staged.
Staged(r, ch) == moved[r][Sender(ch)] = Moves(r, Sender(ch))

\* Fault: the cells are not separated by channel.
PublishChannelZero(r, ch, q) ==
    /\ Runs(r, Sender(ch))
    /\ Staged(r, ch)
    /\ q \in Others(r) \ lanes[r][Sender(ch)]
    /\ step_pad' = [step_pad EXCEPT ![q][0][chunk[r][Sender(ch)]][r] =
                      StepOf(r, chunk[r][Sender(ch)])]
    /\ lanes' = [lanes EXCEPT ![r][Sender(ch)] = @ \cup {q}]
    /\ UNCHANGED <<workload, num_sms, watchdog, submitted, done, running, chunk, moved, mem, barriers>>

\* A lane of the sender stores the chunk's step into a peer's cell.
Publish(r, ch, q) ==
    /\ Runs(r, Sender(ch))
    /\ Staged(r, ch)
    /\ q \in Others(r) \ lanes[r][Sender(ch)]
    /\ step_pad' = [step_pad EXCEPT ![q][ch][chunk[r][Sender(ch)]][r] =
                      StepOf(r, chunk[r][Sender(ch)])]
    /\ lanes' = [lanes EXCEPT ![r][Sender(ch)] = @ \cup {q}]
    /\ UNCHANGED <<workload, num_sms, watchdog, submitted, done, running, chunk, moved, mem, barriers>>

\* The CTA goes on to its next chunk.
EndChunk(r, cta) ==
    /\ Runs(r, cta)
    /\ lanes[r][cta] = Others(r)
    /\ moved[r][cta] = Moves(r, cta)
    /\ chunk' = [chunk EXCEPT ![r][cta] = @ + 1]
    /\ moved' = [moved EXCEPT ![r][cta] = {}]
    /\ lanes' = [lanes EXCEPT ![r][cta] = {}]
    /\ UNCHANGED <<workload, num_sms, watchdog, submitted, done, running, step_pad, mem, barriers>>

\* Fault: the CTAs of the next kernel start at the chunk where these ended.
RetireKeepsChunks(r) ==
    /\ ~ trapped[r] /\ InKernel(r)
    /\ \A cta \in Cta : cta \in running[r] /\ Finished(r, cta)
    /\ done' = [done EXCEPT ![r] = @ + 1]
    /\ running' = [running EXCEPT ![r] = {}]
    /\ UNCHANGED <<workload, num_sms, watchdog, submitted, chunk, moved, lanes, step_pad, mem, barriers>>

\* All CTAs have exited: the stream moves on.
Retire(r) ==
    /\ ~ trapped[r] /\ InKernel(r)
    /\ \A cta \in Cta : cta \in running[r] /\ Finished(r, cta)
    /\ done' = [done EXCEPT ![r] = @ + 1]
    /\ running' = [running EXCEPT ![r] = {}]
    /\ chunk' = [chunk EXCEPT ![r] = [cta \in Cta |-> 0]]
    /\ UNCHANGED <<workload, num_sms, watchdog, submitted, moved, lanes, step_pad, mem, barriers>>

-----------------------------------------------------------------------------
(* The receivers' watchdog; that of the barriers is EdgeBarrier's.         *)

Timeout == workload \in Armed

\* The loads in front of the loop leave a lane unsatisfied; without the watchdog
\* this makes no difference.
Spin(r, ch) ==
    /\ Timeout
    /\ Runs(r, Receiver(ch)) /\ ch \notin spinning[r]
    /\ lanes[r][Receiver(ch)] # Others(r)
    /\ ~ SeenByAllLanes(r, ch)
    /\ spinning' = [spinning EXCEPT ![r] = @ \cup {ch}]
    /\ UNCHANGED <<workload, num_sms, trapped, submitted, done, kernels, step_pad, mem, barriers>>

\* Fault: the deadline is checked only when the loads have satisfied every lane.
TrapWhenSeen(r, ch) ==
    /\ ~ trapped[r] /\ ch \in spinning[r]
    /\ SeenByAllLanes(r, ch)
    /\ trapped' = [trapped EXCEPT ![r] = TRUE]
    /\ UNCHANGED <<workload, num_sms, spinning, submitted, done, kernels, step_pad, mem, barriers>>

\* In the loop the deadline is checked after the loads, whatever they have seen;
\* the kernel's other CTAs stop where they are.
Trap(r, ch) ==
    /\ ~ trapped[r] /\ ch \in spinning[r]
    /\ trapped' = [trapped EXCEPT ![r] = TRUE]
    /\ UNCHANGED <<workload, num_sms, spinning, submitted, done, kernels, step_pad, mem, barriers>>

-----------------------------------------------------------------------------
Returned(r) == IF done[r] = OpsPerCall * submitted[r] THEN submitted[r] ELSE CallAt(r) - 1

Quiescent ==
    /\ \A r \in Rank :
          \/ trapped[r]
          \/ Returned(r) = submitted[r] /\ (Capacity(Channels) => submitted[r] = Len(workload[r]))
    /\ UNCHANGED vars

CtaStep(r, cta) ==
    \/ Start(r, cta) \/ Move(r, cta) \/ EndChunk(r, cta)
    \/ cta[1] = "receiver" /\ See(r, cta[2])
    \/ cta[1] = "sender" /\ \E q \in Rank : Publish(r, cta[2], q)

Next ==
    \/ \E r \in Rank :
          \/ Submit(r) \/ Arrive(r) \/ Depart(r) \/ Retire(r)
          \/ \E cta \in Cta : CtaStep(r, cta)
          \/ \E ch \in Channel : Spin(r, ch) \/ Trap(r, ch)
    \/ Quiescent

Spec == Init /\ [][Next]_vars

\* The callers make their calls, the stream goes on, and a CTA that has, or can
\* have, an SM makes progress; a spin that goes on passes its deadline.
Fairness ==
    \A r \in Rank :
        /\ WF_vars(Submit(r)) /\ WF_vars(Arrive(r)) /\ WF_vars(Depart(r)) /\ WF_vars(Retire(r))
        /\ \A cta \in Cta : WF_vars(CtaStep(r, cta))
        /\ \A ch \in Channel : WF_vars(Spin(r, ch)) /\ WF_vars(Trap(r, ch))

FairSpec == Spec /\ Fairness

-----------------------------------------------------------------------------
(* Properties.                                                             *)

TypeOK ==
    /\ workload \in Workloads
    /\ num_sms \in Sms
    /\ \A r \in Rank :
        /\ submitted[r] \in 0 .. Len(workload[r])
        /\ done[r] \in 0 .. OpsPerCall * submitted[r]
        /\ running[r] \subseteq Cta
        /\ running[r] # {} => InKernel(r)
        /\ \A cta \in Cta :
              /\ chunk[r][cta] # 0 => InKernel(r) /\ chunk[r][cta] <= Chunks(Current(r), cta[2])
              /\ lanes[r][cta] # {} => InKernel(r) /\ lanes[r][cta] \subseteq Others(r)
    /\ spinning \in [Rank -> SUBSET Channel]
    /\ trapped \in [Rank -> BOOLEAN]
    /\ step_pad \in [Rank -> [Channel -> [0 .. MaxChunks - 1 -> [Rank -> Step]]]]

\* A receiver pulls a chunk of a peer only when the peer has staged that very
\* chunk of that very call: no cell of an earlier call, of another group or of
\* another chunk lets it through (fused.py, receiver spin).
StagedBeforePull ==
    \A r \in Rank : \A ch \in Channel :
        LET cta == Receiver(ch)
            k == chunk[r][cta]
        IN  Runs(r, cta) /\ lanes[r][cta] = Others(r) =>
                \A q \in Others(r) :
                    /\ InOp(q, {1, 2})
                    /\ SameCall(workload, r, CallAt(r), q, CallAt(q))
                    /\ \/ InOp(q, {2})
                       \/ chunk[q][Sender(ch)] > k
                       \/ chunk[q][Sender(ch)] = k /\ r \in lanes[q][Sender(ch)]

\* The fused calls implement the ideal exchange, on groups that overlap too: the
\* post-barrier keeps a comm_buf until every peer has pulled from it.
Abs == INSTANCE Exchange WITH
    produced <- submitted,
    returned <- [r \in Rank |-> Returned(r)],
    delivered <- {<<c, mem[c]>> : c \in {c \in OutputCells(workload) : mem[c] # Unwritten}}
ImplementsExchange == Abs!Spec

\* A call that was accepted returns, with no watchdog to end it: the CTAs of its
\* kernels, which wait for each other across ranks, are all resident.
AcceptedCallsReturn == \A r \in Rank : <>[](Timeout \/ Returned(r) = submitted[r])

\* With the watchdog armed no kernel hangs either when a peer that it waits for
\* has trapped halfway through its own: every kernel ends, or its rank's context
\* is lost (fused.py, receiver spin).
NoKernelHangs == \A r \in Rank : <>[](trapped[r] \/ ~ InKernel(r))
=============================================================================
