------------------------------ MODULE Dispatch ------------------------------
(***************************************************************************)
(* The submission of a call: validation, choice of the data path by the    *)
(* autotune table or the static flags, the checks that may raise, epochs,  *)
(* barriers, launchers (src/gfc/runtime.py, autotune.py, config.py).       *)
(*                                                                         *)
(* Two checks guard each path: one before the call takes epochs and        *)
(* enqueues its pre-barrier, and the launcher's own, after.  Every rank of *)
(* the group decides for itself, from the same configuration, table and    *)
(* arguments, and from the address of its own output.  Point-to-point      *)
(* calls, which no table routes and nothing rejects here, are left out.    *)
(***************************************************************************)
EXTENDS Layout, FiniteSets

CONSTANTS
    Rank,        \* the members of one group
    ConfigSet,   \* configurations of the runtime, device included
    TableSet,    \* autotune tables; the empty one stands for none too
    CallsSet,    \* sequences of calls that every rank makes
    Address      \* addresses that a rank's outputs may have

Unset == -1   \* a knob, a bound or a field that is not given
AnyOp == "*"

\* num_sms is the device's.  use_tma is tma_enabled too: a runtime whose probe
\* fails is never constructed.
Config == [alignment : Nat, max_collective_bytes : Nat, use_tma : BOOLEAN,
           use_copy_engine : BOOLEAN, copy_sms : Nat, pipeline_chunks : Nat,
           max_pipeline_chunks : Nat, pipeline_min_chunk_bytes : Nat,
           enable_fused_path : BOOLEAN, fused_chunk_size : Nat,
           fused_num_channels : Nat, num_sms : Nat \ {0}]

\* __post_init__, and the exclusion of TMA and the copy engine.
ConfigValid(cfg) ==
    /\ cfg.alignment >= 16 /\ \E k \in 4 .. cfg.alignment : cfg.alignment = 2 ^ k
    /\ cfg.max_collective_bytes > 0 /\ cfg.max_collective_bytes % cfg.alignment = 0
    /\ cfg.copy_sms > 0
    /\ 1 <= cfg.pipeline_chunks /\ cfg.pipeline_chunks <= cfg.max_pipeline_chunks
    /\ cfg.pipeline_min_chunk_bytes > 0
    /\ cfg.fused_chunk_size > 0 /\ cfg.fused_chunk_size % cfg.alignment = 0
    /\ cfg.fused_num_channels > 0
    /\ ~ (cfg.use_tma /\ cfg.use_copy_engine)

\* A rule may have no path.
Path == {"vec_pull", "fused", "tma", "copy_engine", "pipelined"}
Rule == [collective : {"all_gather", "all2all", AnyOp}, group_size : Nat \cup {Unset},
         min_bytes : Nat, max_bytes : Nat \cup {Unset}, path : Path \cup {"none"},
         copy_sms : Nat \cup {Unset}, pipeline_chunks : Nat \cup {Unset},
         fused_num_channels : Nat \cup {Unset}, fused_chunk_size : Nat \cup {Unset}]

\* slice_bytes, and the caller's override of config.pipeline_chunks.
Call == [op : {"all_gather", "all2all"}, slice : Nat, pipeline_chunks : Nat \cup {Unset}]

ASSUME DispatchAssumption ==
    /\ IsFiniteSet(Rank)
    /\ \A cfg \in ConfigSet : cfg \in Config /\ ConfigValid(cfg)
    /\ TableSet \subseteq Seq(Rule)
    /\ CallsSet \subseteq Seq(Call)
    /\ Address \subseteq Nat \ {0}

-----------------------------------------------------------------------------
(* Construction of the runtime.                                            *)

\* Fault: a table is taken without looking at its rules.
TakesAnyTable(cfg, table) == ~ cfg.enable_fused_path \/ 2 * cfg.fused_num_channels <= cfg.num_sms

\* __init__ raises when a fused rule of the table names more channels than
\* step_pad has, or when the static fused path does not fit the device.
Constructs(cfg, table) ==
    /\ \A i \in DOMAIN table :
          table[i].path = "fused" => table[i].fused_num_channels <= cfg.fused_num_channels
    /\ cfg.enable_fused_path => 2 * cfg.fused_num_channels <= cfg.num_sms

VARIABLES
    config, table, calls, output,   \* output[r]: the address of r's outputs
    made,       \* how many of the calls each rank has made
    epochs,     \* the group's epoch counter on each rank
    barriers,   \* the barriers each rank has enqueued: [call, epoch]
    outcome     \* outcome[r][i]: what became of r's i-th call

given == <<config, table, calls, output>>
vars == <<given, made, epochs, barriers, outcome>>

-----------------------------------------------------------------------------
(* The path of a call c.                                                   *)

Knob(value, default) == IF value = Unset THEN default ELSE value

Matches(rule, c) ==
    /\ rule.path # "none"
    /\ rule.collective \in {AnyOp, c.op}
    /\ rule.group_size \in {Unset, Cardinality(Rank)}
    /\ rule.min_bytes <= c.slice
    /\ rule.max_bytes = Unset \/ c.slice <= rule.max_bytes

\* policy_for: the first rule that matches.
HasPolicy(c) == \E i \in DOMAIN table : Matches(table[i], c)
PolicyFor(c) ==
    table[CHOOSE i \in DOMAIN table :
            Matches(table[i], c) /\ \A j \in 1 .. i - 1 : ~ Matches(table[j], c)]

\* _effective_pipeline_chunks: only the vector path is chunked.
PipelineChunks(c, asked) ==
    IF config.use_tma \/ config.use_copy_engine THEN 1
    ELSE EffectiveChunks(c.slice, asked, config.max_pipeline_chunks, config.pipeline_min_chunk_bytes)

\* A launch: its path and the knobs that the path reads.
Launch(path, chunks, channels, chunkBytes, sms) ==
    [path |-> path, chunks |-> chunks, channels |-> channels, chunkBytes |-> chunkBytes, sms |-> sms]

CopySms == Lesser(config.num_sms, config.copy_sms)

\* The static flags of all_gather and all2all.
StaticLaunch(c) ==
    LET chunks == PipelineChunks(c, Knob(c.pipeline_chunks, config.pipeline_chunks))
    IN  Launch(CASE config.enable_fused_path -> "fused"
                 [] ~ config.enable_fused_path /\ chunks > 1 -> "pipelined"
                 [] ~ config.enable_fused_path /\ chunks <= 1 ->
                      IF config.use_copy_engine THEN "copy_engine"
                      ELSE IF config.use_tma THEN "tma" ELSE "vec_pull",
               chunks, config.fused_num_channels, config.fused_chunk_size, CopySms)

\* _dispatch_all_gather and _dispatch_all2all: a pipelined policy whose chunks
\* collapse to one is a one-shot pull.
PolicyLaunch(c) ==
    LET rule == PolicyFor(c)
        chunks == PipelineChunks(c, Knob(rule.pipeline_chunks, 2))
    IN  Launch(IF rule.path = "pipelined" /\ chunks <= 1 THEN "vec_pull" ELSE rule.path,
               chunks, Knob(rule.fused_num_channels, config.fused_num_channels),
               Knob(rule.fused_chunk_size, config.fused_chunk_size),
               IF rule.path = "pipelined" /\ chunks > 1 THEN CopySms
               ELSE Knob(rule.copy_sms, CopySms))

LaunchFor(c) == IF HasPolicy(c) THEN PolicyLaunch(c) ELSE StaticLaunch(c)

-----------------------------------------------------------------------------
(* What may raise.                                                         *)

\* _validate_collective_args, and the checks of all2all's slice.
Valid(c) ==
    CASE c.op = "all_gather" -> c.slice <= config.max_collective_bytes
      [] c.op = "all2all" ->
            c.slice > 0 /\ c.slice * Cardinality(Rank) <= config.max_collective_bytes

\* check_collective_tma_gates
TmaGates(c, dst) == c.slice > 0 /\ c.slice % 16 = 0 /\ dst % 16 = 0

MaxChunks == FusedMaxChunks(config.max_collective_bytes, config.fused_chunk_size)
ChunksPerChannel(c, l) == FusedChunks(c.slice, l.channels, l.chunkBytes, config.alignment)

\* _check_fused_launch_capacity
FitsDevice(l) == l.channels > 0 /\ 2 * l.channels <= config.num_sms

\* Fault: the guard leaves the chunk count to the launcher.
GuardWithoutChunks(c, l, dst) ==
    /\ l.path = "tma" => config.use_tma /\ TmaGates(c, dst)
    /\ l.path = "fused" =>
          /\ l.channels > 0 /\ FitsDevice(l) /\ l.channels <= config.fused_num_channels
          /\ l.chunkBytes > 0 /\ l.chunkBytes % config.alignment = 0

\* _autotune_path_guard
PolicyGuard(c, l, dst) ==
    /\ l.path = "tma" => config.use_tma /\ TmaGates(c, dst)
    /\ l.path = "fused" =>
          /\ l.channels > 0 /\ FitsDevice(l) /\ l.channels <= config.fused_num_channels
          /\ l.chunkBytes > 0 /\ l.chunkBytes % config.alignment = 0
          /\ ChunksPerChannel(c, l) <= MaxChunks

\* Fault: the static TMA path is not preflighted.
StaticGuardWithoutTma(c, l, dst) == l.path = "fused" => FitsDevice(l)

\* The checks of the static paths, before any epoch is taken.
StaticGuard(c, l, dst) ==
    /\ l.path = "fused" => FitsDevice(l)
    /\ l.path = "tma" => TmaGates(c, dst)

Passes(c, dst) ==
    /\ Valid(c)
    /\ IF HasPolicy(c) THEN PolicyGuard(c, LaunchFor(c), dst) ELSE StaticGuard(c, LaunchFor(c), dst)

\* The launchers' own checks and assertions, behind the pre-barrier.
LauncherTakes(c, l, dst) ==
    CASE l.path \in {"vec_pull", "pipelined"} -> c.slice > 0 /\ l.sms > 0
      [] l.path = "tma" -> TmaGates(c, dst)
      [] l.path = "fused" ->
            /\ c.slice > 0 /\ l.channels > 0 /\ l.chunkBytes > 0
            /\ ChunksPerChannel(c, l) <= MaxChunks
      [] l.path = "copy_engine" -> TRUE

-----------------------------------------------------------------------------
(* The calls.                                                              *)

\* The epochs that a launch takes, and those of its barriers: the second epoch
\* of the fused path is the base of its step tokens.
EpochCount(c, l) ==
    CASE l.path = "fused" -> 3
      [] l.path = "pipelined" -> Len(ChunkLayout(c.slice, l.chunks, config.alignment)) + 1
      [] OTHER -> 2
BarrierEpochs(c, l, e) ==
    IF l.path = "fused" THEN <<e, e + 2>> ELSE [i \in 1 .. EpochCount(c, l) |-> e + i - 1]

Init ==
    /\ config \in ConfigSet /\ table \in TableSet /\ Constructs(config, table)
    /\ calls \in CallsSet
    /\ output \in [Rank -> Address]
    /\ made = [r \in Rank |-> 0]
    /\ epochs = [r \in Rank |-> 0]
    /\ barriers = [r \in Rank |-> << >>]
    /\ outcome = [r \in Rank |-> << >>]

NextCall(r) == calls[made[r] + 1]

\* The call that r makes next ends like this.
Ends(r, how) ==
    /\ made' = [made EXCEPT ![r] = @ + 1]
    /\ outcome' = [outcome EXCEPT ![r] = Append(@, how)]
    /\ UNCHANGED given

\* It enqueues barriers of the given epochs.
Enqueues(r, es) ==
    barriers' = [barriers EXCEPT ![r] =
        @ \o [i \in DOMAIN es |-> [call |-> made[r] + 1, epoch |-> es[i]]]]

\* It raises before the runtime has changed anything.
Reject(r) ==
    /\ made[r] < Len(calls)
    /\ ~ Passes(NextCall(r), output[r])
    /\ Ends(r, "rejected")
    /\ UNCHANGED <<epochs, barriers>>

\* It takes its epochs; the launcher raises behind the pre-barrier.
RaiseInLauncher(r) ==
    LET c == NextCall(r)
    IN  /\ made[r] < Len(calls)
        /\ Passes(c, output[r]) /\ ~ LauncherTakes(c, LaunchFor(c), output[r])
        /\ epochs' = [epochs EXCEPT ![r] = @ + EpochCount(c, LaunchFor(c))]
        /\ Enqueues(r, <<epochs[r]>>)
        /\ Ends(r, "half issued")

\* It takes its epochs and enqueues all its barriers and copies.
Submit(r) ==
    LET c == NextCall(r)
    IN  /\ made[r] < Len(calls)
        /\ Passes(c, output[r]) /\ LauncherTakes(c, LaunchFor(c), output[r])
        /\ epochs' = [epochs EXCEPT ![r] = @ + EpochCount(c, LaunchFor(c))]
        /\ Enqueues(r, BarrierEpochs(c, LaunchFor(c), epochs[r]))
        /\ Ends(r, "issued")

AllMade == (\A r \in Rank : made[r] = Len(calls)) /\ UNCHANGED vars

Next == (\E r \in Rank : Reject(r) \/ RaiseInLauncher(r) \/ Submit(r)) \/ AllMade

Spec == Init /\ [][Next]_vars

-----------------------------------------------------------------------------
(* Properties.                                                             *)

\* A call that raises has taken no epoch and enqueued no barrier: the guards in
\* front of the launchers leave them nothing to refuse (runtime.py:1093-1100),
\* except an all_gather of no bytes, and a vector policy for no SM.
NothingHalfIssued ==
    \A r \in Rank : \A i \in 1 .. made[r] :
        LET c == calls[i]
        IN  outcome[r][i] = "half issued" =>
                \/ c.op = "all_gather" /\ c.slice = 0
                \/ HasPolicy(c) /\ LaunchFor(c).path = "vec_pull" /\ LaunchFor(c).sms = 0

\* A table that the constructor has taken never makes a call fail because a
\* policy wants more channels than step_pad has (runtime.py:122-127).
NoLateChannelError ==
    \A r \in Rank : \A i \in 1 .. made[r] :
        LET c == calls[i]
        IN  HasPolicy(c) /\ LaunchFor(c).path = "fused" /\ outcome[r][i] = "rejected" =>
                LaunchFor(c).channels <= config.fused_num_channels

\* The ranks' barriers pair up call by call, epoch by epoch, as long as no call
\* has been rejected on one rank and issued on another; and the only call that
\* can split them so is a TMA pull into outputs of different alignment.
Split(r, q) == {i \in 1 .. Lesser(made[r], made[q]) : (outcome[r][i] = "rejected") # (outcome[q][i] = "rejected")}
BarriersPairUp ==
    \A r, q \in Rank :
        /\ \A i \in Split(r, q) : LaunchFor(calls[i]).path = "tma" /\ output[r] % 16 # output[q] % 16
        /\ Split(r, q) = {} =>
              \A i \in DOMAIN barriers[r] \cap DOMAIN barriers[q] : barriers[r][i] = barriers[q][i]
=============================================================================
