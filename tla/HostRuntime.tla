---------------------------- MODULE HostRuntime ----------------------------
(***************************************************************************)
(* The host side of one rank: group registry, epoch counters and           *)
(* submission (src/gfc/runtime.py: register_group, unregister_group, the   *)
(* submission of collectives, _p2p_protocol, shutdown; group.py).          *)
(*                                                                         *)
(* Every critical section of the submit lock is one step: nothing in it    *)
(* waits.  A p2p call takes the lock twice, to register its group and to   *)
(* submit, and other threads run between the two.                          *)
(*                                                                         *)
(* shutdown does not take the lock: other threads run between its steps,   *)
(* and change the registry, a dict, under the loop that walks it, which    *)
(* then raises.  A section is one step beside it too: it reads a group's   *)
(* rank list once, and blocks are handed out in sections only, so a list   *)
(* that is dropped during a section might as well be dropped in front of   *)
(* it (the list was gone when read) or behind it.                          *)
(*                                                                         *)
(* A rank list is a block of device memory that the caching allocator      *)
(* (external) may hand out again as soon as its tensor is dropped, because *)
(* it was allocated on the stream that uses it; filling it and reading it  *)
(* are stream work.                                                        *)
(***************************************************************************)
EXTENDS Integers, Sequences, FiniteSets

CONSTANTS
    Thread,     \* the caller's threads that make p2p calls
    Gid,        \* group ids
    RankList,   \* the ordered rank lists that groups are registered with
    Foreign,    \* those that this rank is not in
    Pair,       \* those of p2p calls
    HashOf,     \* HashOf[rt]: stable_hash64 of a rank list, the default id
    Block,      \* blocks of device memory for rank lists
    MaxHandles, \* bound: the descriptors created in a behaviour
    MaxEpoch,   \* bound: the epochs taken of one group
    MaxOps      \* bound: the operations enqueued on the stream

ASSUME PairAssumption ==
    /\ Pair \subseteq RankList \ Foreign
    /\ HashOf \in [RankList -> Gid]

NoHandle == 0
NoBlock == "no block"
NoRanks == << >>

ASSUME BlockAssumption == NoBlock \notin Block
ASSUME BoundsAssumption == MaxHandles \in Nat /\ MaxEpoch \in Nat /\ MaxOps \in Nat

VARIABLES
    handles,     \* the descriptors created, in order; a handle is an index
    registered,  \* registered[g]: the handle in self._registered, or NoHandle
    epochs,      \* _EpochManager
    p2p,         \* p2p[t]: the handle thread t has got from register_group
    stream,      \* what has been enqueued on self.stream
    executed,    \* how much of it has run
    content,     \* what each block of device memory holds
    closing,     \* how far shutdown has got: "no" before it begins
    walk         \* its loop over the registry, an iterator of a dict

shutdown == <<closing, walk>>
vars == <<handles, registered, epochs, p2p, stream, executed, content, shutdown>>

Handle == 1 .. MaxHandles
Phase == {"no", "drained", "walking", "dropping", "raised", "walked", "cleared", "closed"}
\* The size that the dict had when the loop began, how many entries the iterator
\* may still return, the last one it returned, and the newest descriptor then.
Walk == [size : Nat, left : Nat, last : Handle \cup {NoHandle}, newest : Nat]
Descriptor == [gid : Gid, ranks : RankList, ranks_dev : Block \cup {NoBlock}]

\* A fill writes a rank list into a block; a kernel (a barrier, or the fused
\* kernel with its step base) carries a token and reads a block.
Fill(b, rt) == [kind |-> "fill", block |-> b, ranks |-> rt]
Kernel(h, e) ==
    [kind |-> "kernel", block |-> handles[h].ranks_dev, ranks |-> handles[h].ranks,
     gid |-> handles[h].gid, epoch |-> e]

Init ==
    /\ handles = << >>
    /\ registered = [g \in Gid |-> NoHandle]
    /\ epochs = [g \in Gid |-> 0]
    /\ p2p = [t \in Thread |-> NoHandle]
    /\ stream = << >>
    /\ executed = 0
    /\ content = [b \in Block |-> NoRanks]
    /\ closing = "no"
    /\ walk = [size |-> 0, left |-> 0, last |-> NoHandle, newest |-> 0]

-----------------------------------------------------------------------------
InUse(b) == \E h \in DOMAIN handles : handles[h].ranks_dev = b

\* Fault: the list is written at once, not in stream order.
FillFromHost(b, rt) ==
    /\ content' = [content EXCEPT ![b] = rt]
    /\ UNCHANGED <<stream, executed>>

\* _alloc_group_ranks: a free block, filled in stream order.
AllocGroupRanks(b, rt) ==
    /\ stream' = Append(stream, Fill(b, rt))
    /\ UNCHANGED <<content, executed>>

\* A new descriptor for an id that is not registered; a rank that is not in the
\* group has no rank list for it.
Create(rt, g) ==
    /\ registered[g] = NoHandle
    /\ Len(handles) < MaxHandles
    /\ \/ /\ rt \in Foreign
          /\ handles' = Append(handles, [gid |-> g, ranks |-> rt, ranks_dev |-> NoBlock])
          /\ UNCHANGED <<stream, executed, content>>
       \/ \E b \in Block :
             /\ rt \notin Foreign
             /\ ~ InUse(b)
             /\ Len(stream) < MaxOps
             /\ handles' = Append(handles, [gid |-> g, ranks |-> rt, ranks_dev |-> b])
             /\ AllocGroupRanks(b, rt)
    /\ registered' = [registered EXCEPT ![g] = Len(handles) + 1]
    /\ UNCHANGED <<epochs, shutdown>>

\* register_group(ranks, group_id).  For an id that is registered it returns the
\* same descriptor, or raises when the ranks differ: nothing changes.
RegisterGroup(rt, g) == Create(rt, g) /\ UNCHANGED p2p

\* Fault: the registry's entry is popped by the handle's id.
UnregisterById(h) ==
    LET g == handles[h].gid
    IN  /\ registered[g] # NoHandle
        /\ registered' = [registered EXCEPT ![g] = NoHandle]
        /\ handles' = [handles EXCEPT ![h].ranks_dev = NoBlock]
        /\ UNCHANGED <<epochs, p2p, stream, executed, content, shutdown>>

\* Fault: the epoch counter goes with the group.
UnregisterDropsEpoch(h) ==
    LET g == handles[h].gid
    IN  /\ registered[g] = h
        /\ registered' = [registered EXCEPT ![g] = NoHandle]
        /\ handles' = [handles EXCEPT ![h].ranks_dev = NoBlock]
        /\ epochs' = [epochs EXCEPT ![g] = 0]
        /\ UNCHANGED <<p2p, stream, executed, content, shutdown>>

\* unregister_group(handle): evicts only the descriptor the registry holds.
UnregisterGroup(h) ==
    LET g == handles[h].gid
    IN  /\ registered[g] = h
        /\ registered' = [registered EXCEPT ![g] = NoHandle]
        /\ handles' = [handles EXCEPT ![h].ranks_dev = NoBlock]
        /\ UNCHANGED <<epochs, p2p, stream, executed, content, shutdown>>

\* Fault: the launch does not look at the rank list.
UncheckedCollective(h, k) ==
    LET g == handles[h].gid
    IN  /\ epochs[g] + k <= MaxEpoch /\ Len(stream) + k <= MaxOps
        /\ epochs' = [epochs EXCEPT ![g] = @ + k]
        /\ stream' = stream \o [i \in 1 .. k |-> Kernel(h, epochs[g] + i - 1)]
        /\ UNCHANGED <<handles, registered, p2p, executed, content, shutdown>>

\* A collective on a handle the caller holds: it takes k epochs and launches the
\* kernels that carry them.  It raises, before any epoch is taken, when the
\* handle's rank list is gone.
Collective(h, k) ==
    LET g == handles[h].gid
    IN  /\ handles[h].ranks_dev # NoBlock
        /\ epochs[g] + k <= MaxEpoch /\ Len(stream) + k <= MaxOps
        /\ epochs' = [epochs EXCEPT ![g] = @ + k]
        /\ stream' = stream \o [i \in 1 .. k |-> Kernel(h, epochs[g] + i - 1)]
        /\ UNCHANGED <<handles, registered, p2p, executed, content, shutdown>>

\* _p2p_protocol, first critical section: register_group((src, dst)).
P2PRegister(t, rt) ==
    LET g == HashOf[rt]
    IN  /\ p2p[t] = NoHandle
        /\ \/ /\ Create(rt, g)
              /\ p2p' = [p2p EXCEPT ![t] = Len(handles) + 1]
           \/ /\ registered[g] # NoHandle
              /\ handles[registered[g]].ranks = rt
              /\ p2p' = [p2p EXCEPT ![t] = registered[g]]
              /\ UNCHANGED <<handles, registered, epochs, stream, executed, content, shutdown>>

\* Second critical section: the pair of epochs is taken first; then the rank list
\* is looked up, which raises when another thread has unregistered the group.
P2PSubmit(t) ==
    LET h == p2p[t]
        g == handles[h].gid
    IN  /\ h # NoHandle
        /\ epochs[g] + 2 <= MaxEpoch /\ Len(stream) + 2 <= MaxOps
        /\ epochs' = [epochs EXCEPT ![g] = @ + 2]
        /\ p2p' = [p2p EXCEPT ![t] = NoHandle]
        /\ stream' = IF handles[h].ranks_dev = NoBlock THEN stream
                     ELSE stream \o [i \in 1 .. 2 |-> Kernel(h, epochs[g] + i - 1)]
        /\ UNCHANGED <<handles, registered, executed, content, shutdown>>

\* The stream runs its next operation.
Execute ==
    LET op == stream[executed + 1]
    IN  /\ executed < Len(stream)
        /\ executed' = executed + 1
        /\ content' = IF op.kind = "fill" THEN [content EXCEPT ![op.block] = op.ranks]
                      ELSE content
        /\ UNCHANGED <<handles, registered, epochs, p2p, stream, shutdown>>

-----------------------------------------------------------------------------
(* shutdown, by one of the threads.                                        *)

\* The streams' synchronize returns.  A shutdown that has raised may be called again.
Drain ==
    /\ closing \in {"no", "raised"}
    /\ executed = Len(stream)
    /\ closing' = "drained"
    /\ UNCHANGED <<handles, registered, epochs, p2p, stream, executed, content, walk>>

\* The entries of the registry.  A dict keeps them in the order of insertion, which
\* is the order in which the descriptors were created.
Held(h) == registered[handles[h].gid] = h
Entries == {h \in DOMAIN handles : Held(h)}

\* The entries that the iterator has not come to; what it is asked first; and an
\* insertion since the loop began, which may have rebuilt the table: the iterator's
\* position then skips entries.
Ahead == {h \in Entries : h > walk.last}
SizeChanged == Cardinality(Entries) # walk.size
Rebuilt == Len(handles) > walk.newest

\* The loop is left, with an exception or not: its iterator is gone.
Left == [walk EXCEPT !.size = 0, !.left = 0]

\* for desc in self._registered.values()
BeginWalk ==
    /\ closing = "drained"
    /\ closing' = "walking"
    /\ walk' = [size |-> Cardinality(Entries), left |-> Cardinality(Entries),
                last |-> NoHandle, newest |-> Len(handles)]
    /\ UNCHANGED <<handles, registered, epochs, p2p, stream, executed, content>>

NextDescriptor ==
    /\ closing = "walking"
    /\ ~ SizeChanged
    /\ walk.left > 0
    /\ \E h \in Ahead :
          /\ Rebuilt \/ \A k \in Ahead : h <= k
          /\ walk' = [walk EXCEPT !.last = h, !.left = @ - 1]
    /\ closing' = "dropping"
    /\ UNCHANGED <<handles, registered, epochs, p2p, stream, executed, content>>

\* The loop's body: the descriptor's rank list, if it has one, is dropped, by now
\* perhaps for the second time.
DropRankList ==
    /\ closing = "dropping"
    /\ handles' = [handles EXCEPT ![walk.last].ranks_dev = NoBlock]
    /\ closing' = "walking"
    /\ UNCHANGED <<registered, epochs, p2p, stream, executed, content, walk>>

\* RuntimeError: the dict has another size than when the loop began, or has entries
\* left after that many.  shutdown is left with lists dropped and the rest undone.
WalkRaises ==
    /\ closing = "walking"
    /\ SizeChanged \/ (walk.left = 0 /\ Ahead # {})
    /\ closing' = "raised"
    /\ walk' = Left
    /\ UNCHANGED <<handles, registered, epochs, p2p, stream, executed, content>>

\* Fault: the loop ends at the first descriptor without a rank list.
EndWalkAtForeign ==
    /\ closing = "walking"
    /\ ~ SizeChanged
    /\ Ahead = {} \/ \E h \in Entries : h = walk.last /\ handles[h].ranks \in Foreign
    /\ closing' = "walked"
    /\ walk' = Left
    /\ UNCHANGED <<handles, registered, epochs, p2p, stream, executed, content>>

EndWalk ==
    /\ closing = "walking"
    /\ ~ SizeChanged
    /\ Ahead = {} \/ Rebuilt
    /\ closing' = "walked"
    /\ walk' = Left
    /\ UNCHANGED <<handles, registered, epochs, p2p, stream, executed, content>>

\* The registry is cleared, with what another thread has registered meanwhile.
ClearRegistry ==
    /\ closing = "walked"
    /\ registered' = [g \in Gid |-> NoHandle]
    /\ closing' = "cleared"
    /\ UNCHANGED <<handles, epochs, p2p, stream, executed, content, walk>>

\* dist.barrier: the peers, too, have come here; shutdown returns.
MeetWorld ==
    /\ closing = "cleared"
    /\ closing' = "closed"
    /\ UNCHANGED <<handles, registered, epochs, p2p, stream, executed, content, walk>>

Shutdown ==
    \/ Drain \/ BeginWalk \/ NextDescriptor \/ DropRankList
    \/ WalkRaises \/ EndWalk \/ ClearRegistry \/ MeetWorld

\* The last reference to a descriptor that the registry has let go of is dropped,
\* and its rank list goes with it.
Collect(h) ==
    /\ handles[h].ranks_dev # NoBlock
    /\ ~ Held(h)
    /\ \A t \in Thread : p2p[t] # h
    /\ handles' = [handles EXCEPT ![h].ranks_dev = NoBlock]
    /\ UNCHANGED <<registered, epochs, p2p, stream, executed, content, shutdown>>

\* The other threads' calls.  Nothing stops one when shutdown has returned: it may
\* have begun before, and have waited for the lock.
Caller ==
    \/ \E rt \in RankList, g \in Gid : RegisterGroup(rt, g)
    \/ \E h \in DOMAIN handles : UnregisterGroup(h) \/ Collect(h)
    \/ \E h \in DOMAIN handles, k \in 1 .. 3 : Collective(h, k)
    \/ \E t \in Thread : P2PSubmit(t) \/ \E rt \in Pair : P2PRegister(t, rt)

Next == Caller \/ Execute \/ Shutdown

Spec == Init /\ [][Next]_vars

-----------------------------------------------------------------------------
(* Properties.                                                             *)

\* Every reachable state is well typed: in particular no kernel is launched
\* without a rank list to read.
TypeOK ==
    /\ handles \in Seq(Descriptor)
    /\ registered \in [Gid -> Handle \cup {NoHandle}]
    /\ epochs \in [Gid -> 0 .. MaxEpoch]
    /\ p2p \in [Thread -> Handle \cup {NoHandle}]
    /\ \A i \in DOMAIN stream : stream[i].block \in Block /\ stream[i].ranks \in RankList
    /\ executed \in 0 .. Len(stream)
    /\ content \in [Block -> RankList \cup {NoRanks}]
    /\ closing \in Phase
    /\ walk \in Walk

Kernels == {i \in DOMAIN stream : stream[i].kind = "kernel"}

\* A token is never launched twice, also when its group has been unregistered and
\* its id registered again, perhaps with other ranks (unregister_group: the epoch
\* counter is not dropped).
TokensUnique ==
    \A i, j \in Kernels :
        i # j => <<stream[i].gid, stream[i].epoch>> # <<stream[j].gid, stream[j].epoch>>

Live(h) == handles[h].ranks_dev # NoBlock

\* A registered group of this rank keeps its rank list unless the loop of a shutdown,
\* one that goes on or has raised, was to come to it; no other descriptor has a list
\* until the registry is cleared, and no two have the same block.  So a stale handle
\* neither evicts nor frees a live group (unregister_group's docstring), and a loop
\* that raises half way takes no list from a group registered behind it.
LiveIffRegistered ==
    /\ \A h \in DOMAIN handles :
          /\ Live(h) => handles[h].ranks \notin Foreign
          /\ Live(h) /\ ~ Held(h) => closing \in {"cleared", "closed"}
          /\ Held(h) /\ ~ Live(h) /\ handles[h].ranks \notin Foreign =>
                h <= walk.newest \/ h <= walk.last
    /\ \A h, k \in DOMAIN handles :
          h # k /\ Live(h) => handles[h].ranks_dev # handles[k].ranks_dev

\* A loop that comes to its end has dropped every rank list (shutdown: "drop them
\* directly"), whatever other threads released under it; unless one of them has
\* registered a group since it began, and the sizes happened to agree.
ShutdownDropsLists ==
    closing \in {"walked", "cleared", "closed"} =>
        \A h \in DOMAIN handles : Live(h) => Len(handles) > walk.newest

\* A kernel about to run finds in its block the ranks of the group it was launched
\* for, although the group may be unregistered and the block reused by then; or a
\* shutdown, at any point of its loop, have dropped the list of a group that another
\* thread had just launched on, have raised and left the others, or have returned.
KernelsReadTheirRanks ==
    executed + 1 \in Kernels =>
        LET op == stream[executed + 1] IN content[op.block] = op.ranks

\* An epoch of a group is taken only by a call that launches the kernels that
\* carry it: a call that fails leaves the counter untouched (what
\* _autotune_path_guard says its checks come first for).
EpochsLaunched ==
    \A g \in Gid : \A e \in 0 .. epochs[g] - 1 :
        \E i \in Kernels : stream[i].gid = g /\ stream[i].epoch = e
=============================================================================
