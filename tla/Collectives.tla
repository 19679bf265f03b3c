---------------------------- MODULE Collectives ----------------------------
(***************************************************************************)
(* The collectives as programs over streams (src/gfc/runtime.py).          *)
(*                                                                         *)
(* A call appends, under the submit lock, copy and barrier kernels to the  *)
(* rank's main stream and, when pipelined, to its copy stream.  Streams of *)
(* a rank run concurrently, each in order; an operation also waits for the *)
(* events that its stream was told to wait for.  All calls of a rank share *)
(* one comm_buf, from its first byte, whatever their group: only barriers  *)
(* and events keep a call from overwriting what a peer still reads.        *)
(*                                                                         *)
(* Barriers are those of GroupBarrier, which EdgeBarrier implements.       *)
(***************************************************************************)
EXTENDS Calls

CONSTANT CommSize   \* the units of a comm_buf (config.max_collective_bytes)

VARIABLES
    workload,    \* the callers' calls, fixed by the initial state
    submitted,   \* how many of them each rank has submitted
    produced,    \* operations that r's own stream has run, one input per call
    queue,       \* queue[r][s]: the operations enqueued on stream s of r
    done,        \* done[r][s]: how many of them have completed
    moved,       \* moved[r][s]: the moves that the running copy has made
    mem,         \* the units of the comm_bufs and of the outputs
    schedule,    \* the groups of the barriers that each rank has launched
    arrived,     \* how many of them it has entered
    departed     \* how many of them it has left

barriers == <<schedule, arrived, departed>>
vars == <<workload, submitted, produced, queue, done, moved, mem, barriers>>

Barriers == INSTANCE GroupBarrier WITH Schedules <- Seq(Group)

Stream == {"main", "copy"}

Comm(r, u) == <<"comm", r, u>>
CommCells == {Comm(r, u) : r \in Rank, u \in 0 .. CommSize - 1}
Stale == <<"stale">>
Unwritten == << >>

\* What a read of cell c returns; an input not yet produced reads as garbage.
Read(c) ==
    IF c[1] # "input" THEN mem[c]
    ELSE IF c[3] <= produced[c[2]] THEN c ELSE Stale

-----------------------------------------------------------------------------
(* Operations.  waits: the events, <<stream, how many operations of it>>.  *)

NoGroup == "none"
Copy(n, moves) ==
    [kind |-> "copy", call |-> n, group |-> NoGroup, moves |-> moves, waits |-> {}]
Barrier(n, g) ==
    [kind |-> "barrier", call |-> n, group |-> g, moves |-> {}, waits |-> {}]

\* stream.wait_event(e) for the events e, then op.
After(events, op) == [op EXCEPT !.waits = @ \cup events]

\* Fault: the call ends without its post-barrier.
NoPostBarrier(n, g) == << >>

\* No member reuses its comm_buf before every member has read it.
PostBarrier(n, g) == <<Barrier(n, g)>>

\* Stage the slice units X of the input in the rank's own comm_buf, for
\* all2all those of every peer's slice.
Stage(r, n, X) ==
    LET c == workload[r][n]
        units == IF c.op = "all2all"
                 THEN {i * c.size + x : i \in Peers(c.group), x \in X} ELSE X
    IN  Copy(n, {[from |-> Input(r, n, u), to |-> Comm(r, u)] : u \in units})

\* Pull the slice units X of every peer, self included.
Pull(r, n, X) ==
    LET c == workload[r][n]
        at == IF c.op = "all2all" THEN LocalIndex(c.group, r) * c.size ELSE 0
    IN  Copy(n, {[from |-> Comm(PeerAt(c.group, i), at + x),
                  to |-> Output(r, n, i * c.size + x)] : i \in Peers(c.group), x \in X})

\* One shot: stage, pre-barrier, pull, post-barrier.
OneShot(r, n) ==
    LET c == workload[r][n]
    IN  [main |-> <<Stage(r, n, Slice(c)), Barrier(n, c.group), Pull(r, n, Slice(c))>>
                    \o PostBarrier(n, c.group),
         copy |-> << >>]

\* Fault: the copy stream does not wait for the main stream.
NoFork(r) == {}

\* fork_ev: what the main stream holds at the time of the call.
Fork(r) == {<<"main", Len(queue[r].main)>>}

\* Faults: the wait is for the chunk before, or for the chunk after.
StagedBefore(r, k) == {<<"copy", Len(queue[r].copy) + k>>}
StagedNext(r, k) == {<<"copy", Len(queue[r].copy) + k + 2>>}

\* stage_ev: chunk k of the call is staged.
Staged(r, k) == {<<"copy", Len(queue[r].copy) + k + 1>>}

\* Pipelined: chunks are staged on the copy stream, forked off the main stream;
\* the main stream waits for each stage, then runs its barrier and its pull.
Pipelined(r, n) ==
    LET c == workload[r][n]
        chunk(k) == <<After(Staged(r, k), Barrier(n, c.group)), Pull(r, n, {k})>>
    IN  [main |-> [j \in 1 .. 2 * c.size |-> chunk((j - 1) \div 2)[((j - 1) % 2) + 1]]
                    \o PostBarrier(n, c.group),
         copy |-> [j \in 1 .. c.size |->
                      After(IF j = 1 THEN Fork(r) ELSE {}, Stage(r, n, {j - 1}))]]

\* p2p: the source stages; after the pre-barrier it stores into the peer's
\* comm_buf (put) or the peer reads its comm_buf (get); after the post-barrier
\* the destination of a put copies its own comm_buf out.
P2P(r, n) ==
    LET c == workload[r][n]
        source == IsSource(c, r)
        dst == PeerAt(c.group, 1)
        remote ==
            CASE c.op = "put" /\ source ->
                    <<Copy(n, {[from |-> Comm(r, x), to |-> Comm(dst, x)] : x \in Slice(c)})>>
              [] c.op = "get" /\ ~ source ->
                    <<Copy(n, {[from |-> Comm(PeerAt(c.group, 0), x),
                                to |-> Output(r, n, x)] : x \in Slice(c)})>>
              [] OTHER -> << >>
        copyOut == Copy(n, {[from |-> Comm(r, x), to |-> Output(r, n, x)] : x \in Slice(c)})
    IN  [main |-> (IF source THEN <<Stage(r, n, Slice(c))>> ELSE << >>)
                    \o <<Barrier(n, c.group)>> \o remote \o PostBarrier(n, c.group)
                    \o (IF c.op = "put" /\ ~ source THEN <<copyOut>> ELSE << >>),
         copy |-> << >>]

Program(r, n) ==
    IF workload[r][n].op \in {"put", "get"} THEN P2P(r, n)
    ELSE IF workload[r][n].pipelined THEN Pipelined(r, n) ELSE OneShot(r, n)

\* Fault: the runtime's streams do not wait for the caller's.
NotIngested(ops, n) == ops

\* Both streams wait for the caller's stream, which produces the input.
Ingest(ops, n) ==
    IF ops = << >> THEN ops ELSE [ops EXCEPT ![1] = After({<<"user", n>>}, @)]

\* What a call on group g adds to the schedule: every barrier that its program
\* launches is on that group.
BarrierGroups(ops, g) ==
    [i \in 1 .. Cardinality({j \in DOMAIN ops : ops[j].kind = "barrier"}) |-> g]

-----------------------------------------------------------------------------
Init ==
    /\ workload \in Workloads
    /\ submitted = [r \in Rank |-> 0]
    /\ produced = [r \in Rank |-> 0]
    /\ queue = [r \in Rank |-> [s \in Stream |-> << >>]]
    /\ done = [r \in Rank |-> [s \in Stream |-> 0]]
    /\ moved = [r \in Rank |-> [s \in Stream |-> {}]]
    /\ mem = [c \in CommCells \cup OutputCells(workload) |->
                IF c \in CommCells THEN Stale ELSE Unwritten]
    /\ schedule = [r \in Rank |-> << >>]
    /\ arrived = [r \in Rank |-> 0]
    /\ departed = [r \in Rank |-> 0]

\* The caller enqueues the operation that produces its input and makes the call:
\* one critical section of the submit lock enqueues the whole program.
Submit(r) ==
    LET n == submitted[r] + 1
        program == Program(r, n)
    IN  /\ n <= Len(workload[r])
        /\ submitted' = [submitted EXCEPT ![r] = n]
        /\ queue' = [queue EXCEPT ![r] =
              [s \in Stream |-> @[s] \o Ingest(program[s], n)]]
        /\ schedule' = [schedule EXCEPT ![r] =
              @ \o BarrierGroups(program.main, workload[r][n].group)]
        /\ UNCHANGED <<workload, produced, done, moved, mem, arrived, departed>>

\* The caller's stream runs its next operation.
Produce(r) ==
    /\ produced[r] < submitted[r]
    /\ produced' = [produced EXCEPT ![r] = @ + 1]
    /\ UNCHANGED <<workload, submitted, queue, done, moved, mem, barriers>>

Completed(r, s) == IF s = "user" THEN produced[r] ELSE done[r][s]

\* The operation at the head of a stream; it runs when its events have occurred.
Running(r, s) == queue[r][s][done[r][s] + 1]
Ready(r, s) ==
    /\ done[r][s] < Len(queue[r][s])
    /\ \A w \in Running(r, s).waits : Completed(r, w[1]) >= w[2]

\* The moves that a copy still has to make.
Pending(r, s) == Running(r, s).moves \ moved[r][s]

\* One of the moves of a running copy: its units move in any order.
Move(r, s) ==
    /\ Ready(r, s)
    /\ \E m \in Pending(r, s) :
          /\ mem' = [mem EXCEPT ![m.to] = Read(m.from)]
          /\ moved' = [moved EXCEPT ![r][s] = @ \cup {m}]
    /\ UNCHANGED <<workload, submitted, produced, queue, done, barriers>>

\* Fault: the next copy of the stream starts with the moves of this one.
RetireKeepsMoves(r, s) ==
    /\ Ready(r, s)
    /\ Running(r, s).kind = "copy"
    /\ Pending(r, s) = {}
    /\ done' = [done EXCEPT ![r][s] = @ + 1]
    /\ UNCHANGED <<workload, submitted, produced, queue, moved, mem, barriers>>

\* The copy has made them all: the stream moves on.
Retire(r, s) ==
    /\ Ready(r, s)
    /\ Running(r, s).kind = "copy"
    /\ Pending(r, s) = {}
    /\ done' = [done EXCEPT ![r][s] = @ + 1]
    /\ moved' = [moved EXCEPT ![r][s] = {}]
    /\ UNCHANGED <<workload, submitted, produced, queue, mem, barriers>>

\* The barrier at the head of the main stream arrives, and leaves when the
\* whole group has arrived.
Arrive(r) ==
    /\ Ready(r, "main")
    /\ Running(r, "main").kind = "barrier"
    /\ UNCHANGED <<workload, submitted, produced, queue, done, moved, mem>>
    /\ Barriers!Arrive(r)

Depart(r) ==
    /\ Ready(r, "main")
    /\ Running(r, "main").kind = "barrier"
    /\ done' = [done EXCEPT ![r].main = @ + 1]
    /\ UNCHANGED <<workload, submitted, produced, queue, moved, mem>>
    /\ Barriers!Depart(r)

\* The calls whose whole program has run: those before the call that the head
\* of the main stream belongs to.
Returned(r) ==
    IF done[r].main = Len(queue[r].main) THEN submitted[r] ELSE Running(r, "main").call - 1
AllReturned == \A r \in Rank : Returned(r) = Len(workload[r])

Quiescent == AllReturned /\ UNCHANGED vars

Step(r) ==
    \/ Submit(r) \/ Produce(r) \/ Arrive(r) \/ Depart(r)
    \/ \E s \in Stream : Move(r, s) \/ Retire(r, s)

Next == (\E r \in Rank : Step(r)) \/ Quiescent

Spec == Init /\ [][Next]_vars

\* The callers make all their calls; a stream whose head can run does run it.
Fairness ==
    \A r \in Rank :
        /\ WF_vars(Submit(r)) /\ WF_vars(Produce(r))
        /\ WF_vars(Arrive(r)) /\ WF_vars(Depart(r))
        /\ \A s \in Stream : WF_vars(Move(r, s)) /\ WF_vars(Retire(r, s))

FairSpec == Spec /\ Fairness

-----------------------------------------------------------------------------
(* Properties.                                                             *)

\* Every reachable state is well typed: in particular a rank has departed
\* exactly the barriers that its main stream has retired.
TypeOK ==
    /\ workload \in Workloads
    /\ \A r \in Rank :
        /\ submitted[r] \in 0 .. Len(workload[r])
        /\ produced[r] \in 0 .. submitted[r]
        /\ \A s \in Stream :
              /\ done[r][s] \in 0 .. Len(queue[r][s])
              /\ moved[r][s] # {} => Ready(r, s) /\ moved[r][s] \subseteq Running(r, s).moves
        /\ departed[r] = Cardinality({i \in 1 .. done[r].main : queue[r].main[i].kind = "barrier"})

\* Two copies that run at the same time, on one rank or on two, never touch one
\* cell when either of them writes it: the copies are plain loads and stores.
NoRace ==
    \A a, b \in {e \in Rank \X Stream : Ready(e[1], e[2])} : a # b =>
        \A m \in Pending(a[1], a[2]), k \in Pending(b[1], b[2]) :
            m.to # k.to /\ m.to # k.from

\* The calls implement the ideal exchange: each output unit gets exactly the
\* input of the matching call of the right peer, whichever groups' calls
\* share the comm_bufs, before the call returns (tests/test_buffer_reuse.py).
Abs == INSTANCE Exchange WITH
    returned <- [r \in Rank |-> Returned(r)],
    delivered <- {<<c, mem[c]>> : c \in {c \in OutputCells(workload) : mem[c] # Unwritten}}
ImplementsExchange == Abs!Spec

\* Every call of every rank returns, when the ranks follow one global sequence.
EveryCallReturns == <>AllReturned
=============================================================================
