--------------------------- MODULE DispatchProofs ---------------------------
(***************************************************************************)
(* For every configuration, table and sequence of calls that DispatchAss-  *)
(* umption allows: the guards in front of the launchers are complete, no   *)
(* accepted table has a policy with too many channels, and the ranks'      *)
(* barriers pair up unless a TMA pull splits them.                         *)
(*                                                                         *)
(* An outcome records which of two checks a call has failed, and both are  *)
(* functions of what the initial state fixes (SameInputs): the guards are  *)
(* complete because one check implies the other (GuardsComplete).  That    *)
(* rests on FusedChunksFit: the static fused path has no check of its      *)
(* chunk count in front of the launcher's.                                 *)
(*                                                                         *)
(* The barriers are a sum over the calls: HistoryOK says that every rank   *)
(* has a history of partial sums.  Two ranks that have ended the same      *)
(* calls alike have the same history (SameProgress), and the call that a   *)
(* barrier belongs to is found in it (BarriersAgree).                      *)
(***************************************************************************)
EXTENDS Dispatch, Arithmetic, WellFoundedInduction

Outcome == {"rejected", "half issued", "issued"}

\* The inputs are what Init has chosen; an outcome says which check failed.
GivenOK ==
    /\ config \in ConfigSet /\ table \in TableSet /\ Constructs(config, table)
    /\ calls \in CallsSet
Recorded(r, i) ==
    /\ outcome[r][i] = "rejected" => ~ Passes(calls[i], output[r])
    /\ outcome[r][i] = "half issued" =>
          Passes(calls[i], output[r]) /\ ~ LauncherTakes(calls[i], LaunchFor(calls[i]), output[r])
    /\ outcome[r][i] = "issued" =>
          Passes(calls[i], output[r]) /\ LauncherTakes(calls[i], LaunchFor(calls[i]), output[r])
OutcomesOK ==
    \A r \in Rank :
        /\ made[r] \in 0 .. Len(calls)
        /\ outcome[r] \in Seq(Outcome)
        /\ Len(outcome[r]) = made[r]
        /\ \A i \in 1 .. made[r] : Recorded(r, i)
FunctionsOK == made \in [Rank -> Nat] /\ outcome \in [Rank -> Seq(Outcome)]
IInv == GivenOK /\ FunctionsOK /\ OutcomesOK

\* What the checks say of a call does not change: they read only the inputs.
LEMMA SameInputs ==
    ASSUME given' = given
    PROVE  /\ GivenOK' <=> GivenOK
           /\ calls' = calls /\ output' = output
           /\ \A c, dst : Passes(c, dst)' <=> Passes(c, dst)
           /\ \A c : LaunchFor(c)' = LaunchFor(c)
           /\ \A c, l, dst : LauncherTakes(c, l, dst)' <=> LauncherTakes(c, l, dst)
           /\ \A c, l : EpochCount(c, l)' = EpochCount(c, l)
           /\ \A c, l, e : BarrierEpochs(c, l, e)' = BarrierEpochs(c, l, e)
<1>1. config' = config /\ table' = table /\ calls' = calls /\ output' = output
  BY DEF given
<1>2. GivenOK' <=> GivenOK
  BY <1>1 DEF GivenOK
<1>3. \A c : HasPolicy(c)' <=> HasPolicy(c)
  BY <1>1 DEF HasPolicy, Matches
<1>4. \A c : PolicyFor(c)' = PolicyFor(c)
  BY <1>1 DEF PolicyFor, Matches
<1>5. \A c, n : PipelineChunks(c, n)' = PipelineChunks(c, n)
  BY <1>1 DEF PipelineChunks
<1>6. \A c : LaunchFor(c)' = LaunchFor(c)
  <2>1. CopySms' = CopySms
    BY <1>1 DEF CopySms
  <2>2. \A c : PolicyLaunch(c)' = PolicyLaunch(c)
    BY <1>1, <1>4, <1>5, <2>1, Zenon DEF PolicyLaunch
  <2>3. \A c : StaticLaunch(c)' = StaticLaunch(c)
    BY <1>1, <1>5, <2>1, Zenon DEF StaticLaunch
  <2>4. QED
    BY <1>3, <2>2, <2>3, Zenon DEF LaunchFor
<1>7. \A c, l : ChunksPerChannel(c, l)' = ChunksPerChannel(c, l)
  BY <1>1 DEF ChunksPerChannel
<1>8. \A c, l, dst : PolicyGuard(c, l, dst)' <=> PolicyGuard(c, l, dst)
  BY <1>1, <1>7 DEF PolicyGuard, FitsDevice, MaxChunks
<1>9. \A c, l, dst : StaticGuard(c, l, dst)' <=> StaticGuard(c, l, dst)
  BY <1>1 DEF StaticGuard, FitsDevice
<1>10. \A c, dst : Passes(c, dst)' <=> Passes(c, dst)
  BY <1>1, <1>3, <1>6, <1>8, <1>9 DEF Passes, Valid
<1>11. \A c, l, dst : LauncherTakes(c, l, dst)' <=> LauncherTakes(c, l, dst)
  BY <1>1, <1>7 DEF LauncherTakes, MaxChunks
<1>12. \A c, l : EpochCount(c, l)' = EpochCount(c, l)
  BY <1>1, Zenon DEF EpochCount
<1>13. \A c, l, e : BarrierEpochs(c, l, e)' = BarrierEpochs(c, l, e)
  BY <1>12, Zenon DEF BarrierEpochs
<1>14. QED
  BY <1>1, <1>2, <1>6, <1>10, <1>11, <1>12, <1>13

\* Nothing has been called yet.
LEMMA InitOK == Init => IInv
  BY DEF Init, IInv, GivenOK, FunctionsOK, OutcomesOK

\* Appending leaves what was there and puts the new element last.
LEMMA AppendFacts ==
    ASSUME NEW S, NEW s \in Seq(S), NEW e \in S
    PROVE  /\ Append(s, e) \in Seq(S) /\ Len(Append(s, e)) = Len(s) + 1
           /\ \A i \in 1 .. Len(s) : Append(s, e)[i] = s[i]
           /\ Append(s, e)[Len(s) + 1] = e
  OBVIOUS

\* The length of a sequence is a number.
LEMMA LenNat == ASSUME NEW S, NEW s \in Seq(S) PROVE Len(s) \in Nat
  OBVIOUS

\* An index that is not the new, last one is an old one.
LEMMA OldIndex ==
    ASSUME NEW m \in Nat, NEW n, n = m + 1, NEW i \in 1 .. n, i # n
    PROVE  i \in 1 .. m
  OBVIOUS

\* Nor does the number of calls made pass the number there are.
LEMMA OneMore ==
    ASSUME NEW m \in Nat, NEW l \in Nat, m < l, NEW n, n = m + 1
    PROVE  n \in 0 .. l
  OBVIOUS

\* What Ends does to the two functions it changes.
LEMMA UpdateFacts ==
    ASSUME FunctionsOK, NEW r \in Rank, NEW how \in Outcome, Len(outcome[r]) = made[r], Ends(r, how)
    PROVE  /\ FunctionsOK'
           /\ made'[r] = made[r] + 1 /\ Len(outcome'[r]) = made'[r] /\ outcome'[r][made'[r]] = how
           /\ \A i \in 1 .. made[r] : outcome'[r][i] = outcome[r][i]
           /\ \A q \in Rank \ {r} : made'[q] = made[q] /\ outcome'[q] = outcome[q]
<1>1. outcome[r] \in Seq(Outcome) /\ made[r] \in Nat
  BY DEF FunctionsOK
<1>2. /\ Append(outcome[r], how) \in Seq(Outcome)
      /\ Len(Append(outcome[r], how)) = made[r] + 1
      /\ \A i \in 1 .. made[r] : Append(outcome[r], how)[i] = outcome[r][i]
      /\ Append(outcome[r], how)[made[r] + 1] = how
  BY <1>1, AppendFacts
<1>3. /\ made' = [made EXCEPT ![r] = made[r] + 1]
      /\ outcome' = [outcome EXCEPT ![r] = Append(outcome[r], how)]
  BY DEF Ends
<1>4. made'[r] = made[r] + 1 /\ outcome'[r] = Append(outcome[r], how)
  BY <1>3 DEF FunctionsOK
<1>5. \A q \in Rank \ {r} : made'[q] = made[q] /\ outcome'[q] = outcome[q]
  BY <1>3 DEF FunctionsOK
<1>6. FunctionsOK'
  <2>1. made[r] + 1 \in Nat
    BY <1>1
  <2>2. made' \in [Rank -> Nat]
    BY <1>3, <2>1, Zenon DEF FunctionsOK
  <2>3. outcome' \in [Rank -> Seq(Outcome)]
    BY <1>2, <1>3, Zenon DEF FunctionsOK
  <2>4. QED
    BY <2>2, <2>3 DEF FunctionsOK
<1>7. QED
  BY <1>2, <1>4, <1>5, <1>6

\* A call that ends adds one outcome, that of the check it failed.
LEMMA EndsOK ==
    ASSUME IInv, NEW r \in Rank, NEW how \in Outcome, made[r] < Len(calls), Ends(r, how),
           how = "rejected" => ~ Passes(NextCall(r), output[r]),
           how = "half issued" =>
               /\ Passes(NextCall(r), output[r])
               /\ ~ LauncherTakes(NextCall(r), LaunchFor(NextCall(r)), output[r]),
           how = "issued" =>
               /\ Passes(NextCall(r), output[r])
               /\ LauncherTakes(NextCall(r), LaunchFor(NextCall(r)), output[r])
    PROVE  IInv'
<1>1. /\ GivenOK' /\ calls' = calls /\ output' = output
      /\ \A c, dst : Passes(c, dst)' <=> Passes(c, dst)
      /\ \A c : LaunchFor(c)' = LaunchFor(c)
      /\ \A c, l, dst : LauncherTakes(c, l, dst)' <=> LauncherTakes(c, l, dst)
  <2>1. given' = given
    BY DEF Ends
  <2>2. QED
    BY <2>1, SameInputs DEF IInv
<1>2. /\ FunctionsOK'
      /\ made'[r] = made[r] + 1 /\ Len(outcome'[r]) = made'[r] /\ outcome'[r][made'[r]] = how
      /\ \A i \in 1 .. made[r] : outcome'[r][i] = outcome[r][i]
      /\ \A q \in Rank \ {r} : made'[q] = made[q] /\ outcome'[q] = outcome[q]
  <2>1. FunctionsOK /\ Len(outcome[r]) = made[r]
    BY DEF IInv, OutcomesOK
  <2>2. QED
    BY <2>1, UpdateFacts
<1>3. Len(calls) \in Nat
  <2>1. calls \in Seq(Call)
    BY DispatchAssumption DEF IInv, GivenOK, DispatchAssumption
  <2>2. QED
    BY <2>1, LenNat
<1>4. made \in [Rank -> Nat] /\ OutcomesOK
  BY DEF IInv, FunctionsOK
<1>5. ASSUME NEW q \in Rank, NEW i \in 1 .. made'[q] PROVE Recorded(q, i)'
  <2>1. CASE q = r /\ i = made'[r]
    BY <1>1, <1>2, <2>1 DEF Recorded, NextCall
  <2>2. CASE ~ (q = r /\ i = made'[r])
    <3>1. i \in 1 .. made[q] /\ outcome'[q][i] = outcome[q][i]
      <4>1. CASE q = r
        <5>1. made[r] \in Nat /\ i # made'[r] /\ i \in 1 .. made[r] + 1 /\ made'[r] = made[r] + 1
          BY <1>2, <1>4, <2>2, <4>1
        <5>2. i \in 1 .. made[r]
          BY <5>1, OldIndex
        <5>3. QED
          BY <1>2, <4>1, <5>2
      <4>2. CASE q # r
        BY <1>2, <4>2
      <4>3. QED
        BY <4>1, <4>2
    <3>2. Recorded(q, i)
      BY <1>4, <3>1 DEF OutcomesOK
    <3>3. QED
      BY <1>1, <3>1, <3>2 DEF Recorded
  <2>3. QED
    BY <2>1, <2>2
<1>6. OutcomesOK'
  <2>1. SUFFICES ASSUME NEW q \in Rank
                 PROVE  /\ made'[q] \in 0 .. Len(calls')
                        /\ outcome'[q] \in Seq(Outcome)
                        /\ Len(outcome'[q]) = made'[q]
    BY <1>5 DEF OutcomesOK
  <2>2. CASE q = r
    <3>1. made[r] \in Nat /\ made[r] < Len(calls) /\ made'[r] = made[r] + 1
      BY <1>2, <1>4
    <3>2. made'[r] \in 0 .. Len(calls)
      BY <1>3, <3>1, OneMore
    <3>3. QED
      BY <1>1, <1>2, <2>2, <3>2 DEF FunctionsOK
  <2>3. CASE q # r
    BY <1>1, <1>2, <1>4, <2>3 DEF OutcomesOK
  <2>4. QED
    BY <2>2, <2>3
<1>7. QED
  BY <1>1, <1>2, <1>6 DEF IInv

\* Every action ends a call or changes nothing.
LEMMA NextOK == IInv /\ [Next]_vars => IInv'
<1> SUFFICES ASSUME IInv, [Next]_vars PROVE IInv'
  OBVIOUS
<1>1. ASSUME NEW r \in Rank, Reject(r) PROVE IInv'
  BY <1>1, EndsOK DEF Reject, Outcome
<1>2. ASSUME NEW r \in Rank, RaiseInLauncher(r) PROVE IInv'
  BY <1>2, EndsOK DEF RaiseInLauncher, Outcome
<1>3. ASSUME NEW r \in Rank, Submit(r) PROVE IInv'
  BY <1>3, EndsOK DEF Submit, Outcome
<1>4. CASE UNCHANGED vars
  <2>1. given' = given /\ made' = made /\ outcome' = outcome
    BY <1>4 DEF vars
  <2>2. GivenOK' /\ FunctionsOK'
    BY <2>1, SameInputs DEF IInv, FunctionsOK
  <2>3. \A r, i : Recorded(r, i)' <=> Recorded(r, i)
    BY <2>1, SameInputs DEF Recorded
  <2>4. OutcomesOK'
    BY <2>1, <2>3, SameInputs DEF IInv, OutcomesOK
  <2>5. QED
    BY <2>2, <2>4 DEF IInv
<1>5. QED
  BY <1>1, <1>2, <1>3, <1>4 DEF Next, AllMade

\* The inductive invariant holds throughout.
LEMMA Invariant == Spec => []IInv
  BY InitOK, NextOK, PTL DEF Spec

-----------------------------------------------------------------------------
(* The checks in front of the launchers imply the launchers'.              *)

\* A set of numbers has a least one.
LEMMA LeastNumber ==
    ASSUME NEW T, T \subseteq Nat, T # {}
    PROVE  \E m \in T : \A k \in T : ~ k < m
<1>1. PICK m \in T : \A k \in T : <<k, m>> \notin OpToRel(<, Nat)
  BY WFMin, NatLessThanWellFounded, Zenon
<1>2. QED
  BY <1>1, Zenon DEF OpToRel

\* policy_for returns a rule of the table, and one that matches.
LEMMA PolicyInTable ==
    ASSUME NEW c, table \in Seq(Rule), HasPolicy(c)
    PROVE  \E n \in DOMAIN table : PolicyFor(c) = table[n] /\ table[n] \in Rule /\ Matches(table[n], c)
<1> DEFINE T == {i \in DOMAIN table : Matches(table[i], c)}
<1>1. T \subseteq Nat /\ T # {} /\ DOMAIN table = 1 .. Len(table) /\ Len(table) \in Nat
  BY LenNat DEF HasPolicy
<1>2. PICK m \in T : \A k \in T : ~ k < m
  BY <1>1, LeastNumber
<1>3. \A j \in 1 .. m - 1 : ~ Matches(table[j], c)
  <2>1. ASSUME NEW j \in 1 .. m - 1 PROVE j \in DOMAIN table /\ j < m
    BY <1>1
  <2>2. QED
    BY <1>2, <2>1
<1>4. \E i \in DOMAIN table : Matches(table[i], c) /\ \A j \in 1 .. i - 1 : ~ Matches(table[j], c)
  BY <1>2, <1>3
<1> DEFINE i == CHOOSE i \in DOMAIN table :
                  Matches(table[i], c) /\ \A j \in 1 .. i - 1 : ~ Matches(table[j], c)
<1>5. i \in DOMAIN table /\ Matches(table[i], c)
  BY <1>4, Zenon
<1>6. table[i] \in Rule
  BY <1>1, <1>5
<1>7. QED
  BY <1>5, <1>6, Zenon DEF PolicyFor

\* A sequence's elements.
LEMMA CallInSequence ==
    ASSUME NEW n, n \in 0 .. Len(calls), calls \in Seq(Call), NEW i \in 1 .. n
    PROVE  calls[i] \in Call
<1>1. Len(calls) \in Nat
  BY LenNat
<1>2. QED
  BY <1>1

\* What the assumption says of the configuration and the table that are given.
LEMMA GivenFacts ==
    ASSUME GivenOK
    PROVE  /\ table \in Seq(Rule) /\ Constructs(config, table)
           /\ config \in Config /\ ConfigValid(config)
           /\ CopySms \in Nat \ {0}
<1>1. table \in Seq(Rule) /\ Constructs(config, table) /\ config \in Config /\ ConfigValid(config)
  BY DispatchAssumption DEF GivenOK, DispatchAssumption
<1>2. config.num_sms \in Nat \ {0} /\ config.copy_sms \in Nat /\ config.copy_sms > 0
  BY <1>1 DEF Config, ConfigValid
<1>3. QED
  BY <1>1, <1>2 DEF CopySms, Lesser

\* A valid call's slice fits comm_buf, and only an all_gather may be empty.
LEMMA ValidSlice ==
    ASSUME NEW c \in Call, Valid(c), Rank # {}, config \in Config
    PROVE  /\ c.slice \in Nat /\ c.slice <= config.max_collective_bytes
           /\ c.slice = 0 => c.op = "all_gather"
<1>1. c.slice \in Nat /\ c.op \in {"all_gather", "all2all"} /\ config.max_collective_bytes \in Nat
  BY DEF Call, Config
<1>2. Cardinality(Rank) \in Nat /\ Cardinality(Rank) # 0
  BY DispatchAssumption, FS_CardinalityType, FS_EmptySet DEF DispatchAssumption
<1>3. CASE c.op = "all_gather"
  BY <1>1, <1>3 DEF Valid
<1>4. CASE c.op = "all2all"
  <2>1. c.slice > 0 /\ c.slice * Cardinality(Rank) <= config.max_collective_bytes
    BY <1>4 DEF Valid
  <2>2. c.slice * 1 <= c.slice * Cardinality(Rank)
    BY <1>1, <1>2, MulMonotone
  <2>3. QED
    BY <1>1, <1>2, <1>4, <2>1, <2>2
<1>5. QED
  BY <1>1, <1>3, <1>4

\* The fields of a launch.
LEMMA LaunchFields ==
    ASSUME NEW p, NEW k, NEW n, NEW b, NEW s
    PROVE  /\ Launch(p, k, n, b, s).path = p /\ Launch(p, k, n, b, s).channels = n
           /\ Launch(p, k, n, b, s).chunkBytes = b /\ Launch(p, k, n, b, s).sms = s
  BY DEF Launch

\* The number of chunks is one.
LEMMA ChunksInt ==
    ASSUME GivenOK, NEW c, c.slice \in Nat, NEW asked \in Int
    PROVE  PipelineChunks(c, asked) \in Int
<1>1. config.max_pipeline_chunks \in Int /\ config.pipeline_min_chunk_bytes \in Nat \ {0}
  BY GivenFacts DEF Config, ConfigValid
<1>2. c.slice \div config.pipeline_min_chunk_bytes \in Int
  BY <1>1
<1>3. QED
  BY <1>1, <1>2 DEF PipelineChunks, EffectiveChunks, Lesser

\* A call that passes the guard of its path has nothing to fear from the
\* launcher, but for the two exceptions.
LEMMA PolicyGuardComplete ==
    ASSUME GivenOK, NEW c \in Call, NEW dst, c.slice \in Nat \ {0}, HasPolicy(c),
           PolicyGuard(c, LaunchFor(c), dst)
    PROVE  \/ LauncherTakes(c, LaunchFor(c), dst)
           \/ LaunchFor(c).path = "vec_pull" /\ LaunchFor(c).sms = 0
<1> DEFINE rule == PolicyFor(c)
           chunks == PipelineChunks(c, Knob(rule.pipeline_chunks, 2))
           path == IF rule.path = "pipelined" /\ chunks <= 1 THEN "vec_pull" ELSE rule.path
           sms == IF rule.path = "pipelined" /\ chunks > 1 THEN CopySms ELSE Knob(rule.copy_sms, CopySms)
           l == LaunchFor(c)
<1>1. rule \in Rule /\ rule.path # "none" /\ CopySms \in Nat \ {0}
  BY PolicyInTable, GivenFacts DEF Matches
<1>2. l.path = path /\ l.sms = sms
  BY LaunchFields DEF LaunchFor, PolicyLaunch
<1>3. rule.path \in Path /\ (rule.copy_sms = Unset \/ rule.copy_sms \in Nat)
  BY <1>1 DEF Rule
<1>4. chunks \in Int
  <2>1. Knob(rule.pipeline_chunks, 2) \in Int
    BY <1>1 DEF Knob, Rule, Unset
  <2>2. QED
    BY <2>1, ChunksInt
<1> HIDE DEF rule, chunks, l
<1>5. sms \in Nat
  BY <1>1, <1>3 DEF Knob
<1>6. l.path \in Path /\ (l.path = "pipelined" => l.sms > 0)
  <2>1. CASE rule.path = "pipelined" /\ chunks <= 1
    BY <1>2, <2>1 DEF Path
  <2>2. CASE rule.path = "pipelined" /\ ~ (chunks <= 1)
    <3>1. chunks > 1
      BY <1>4, <2>2
    <3>2. QED
      BY <1>1, <1>2, <2>2, <3>1 DEF Path
  <2>3. CASE rule.path # "pipelined"
    BY <1>2, <1>3, <2>3
  <2>4. QED
    BY <2>1, <2>2, <2>3
<1>7. CASE l.path = "vec_pull"
  <2>1. LauncherTakes(c, l, dst) <=> c.slice > 0 /\ l.sms > 0
    BY <1>7 DEF LauncherTakes
  <2>2. QED
    BY <1>2, <1>5, <1>7, <2>1 DEF l
<1>8. CASE l.path = "pipelined"
  BY <1>6, <1>8 DEF LauncherTakes, l
<1>9. CASE l.path = "tma"
  BY <1>9 DEF LauncherTakes, PolicyGuard, l
<1>10. CASE l.path = "fused"
  BY <1>10 DEF LauncherTakes, PolicyGuard, l
<1>11. CASE l.path = "copy_engine"
  BY <1>11 DEF LauncherTakes, l
<1>12. QED
  BY <1>6, <1>7, <1>8, <1>9, <1>10, <1>11 DEF Path

\* Without a policy there is no exception: the chunk count of the static fused
\* path, which nothing checks in front of the launcher, always fits.
LEMMA StaticGuardComplete ==
    ASSUME GivenOK, Rank # {}, NEW c \in Call, NEW dst, c.slice \in Nat \ {0},
           Valid(c), ~ HasPolicy(c), StaticGuard(c, LaunchFor(c), dst)
    PROVE  LauncherTakes(c, LaunchFor(c), dst)
<1> DEFINE l == LaunchFor(c)
           chunks == PipelineChunks(c, Knob(c.pipeline_chunks, config.pipeline_chunks))
<1>1. config \in Config /\ ConfigValid(config) /\ CopySms \in Nat \ {0}
  BY GivenFacts
<1>2. /\ l.channels = config.fused_num_channels /\ l.chunkBytes = config.fused_chunk_size
      /\ l.sms = CopySms
  BY LaunchFields DEF LaunchFor, StaticLaunch
<1>3. l.path \in {"fused", "pipelined", "copy_engine", "tma", "vec_pull"}
  <2>1. config.enable_fused_path \in BOOLEAN
    BY <1>1 DEF Config
  <2>2. chunks \in Int
    <3>1. Knob(c.pipeline_chunks, config.pipeline_chunks) \in Int
      BY <1>1 DEF Knob, Call, Config, Unset
    <3>2. QED
      BY <3>1, ChunksInt
  <2> HIDE DEF chunks
  <2>3. CASE config.enable_fused_path
    BY <2>3, LaunchFields DEF LaunchFor, StaticLaunch
  <2>4. CASE ~ config.enable_fused_path /\ chunks > 1
    BY <2>4, LaunchFields DEF LaunchFor, StaticLaunch, chunks
  <2>5. CASE ~ config.enable_fused_path /\ chunks <= 1
    BY <2>5, LaunchFields DEF LaunchFor, StaticLaunch, chunks
  <2>6. QED
    BY <2>1, <2>2, <2>3, <2>4, <2>5
<1>4. c.slice > 0
  OBVIOUS
<1> HIDE DEF l
<1>5. CASE l.path = "fused"
  <2>1. /\ config.max_collective_bytes \in Nat /\ config.alignment \in Nat \ {0}
        /\ config.max_collective_bytes % config.alignment = 0
        /\ config.fused_num_channels \in Nat \ {0} /\ config.fused_chunk_size \in Nat \ {0}
    BY <1>1 DEF Config, ConfigValid
  <2>2. c.slice <= config.max_collective_bytes
    BY <1>1, ValidSlice
  <2>3. ChunksPerChannel(c, l) <= MaxChunks
    BY <1>2, <2>1, <2>2, FusedChunksFit DEF ChunksPerChannel, MaxChunks
  <2>4. QED
    BY <1>2, <1>4, <1>5, <2>1, <2>3 DEF LauncherTakes, l
<1>6. CASE l.path \in {"vec_pull", "pipelined"}
  <2>1. l.sms > 0
    BY <1>1, <1>2
  <2>2. LauncherTakes(c, l, dst) <=> c.slice > 0 /\ l.sms > 0
    BY <1>6 DEF LauncherTakes
  <2>3. QED
    BY <1>4, <2>1, <2>2 DEF l
<1>7. CASE l.path = "tma"
  BY <1>7 DEF LauncherTakes, StaticGuard, l
<1>8. CASE l.path = "copy_engine"
  BY <1>8 DEF LauncherTakes, l
<1>9. QED
  BY <1>3, <1>5, <1>6, <1>7, <1>8

\* Together: what is left behind the pre-barrier.
LEMMA GuardsComplete ==
    ASSUME GivenOK, Rank # {}, NEW c \in Call, NEW dst, Passes(c, dst),
           ~ LauncherTakes(c, LaunchFor(c), dst)
    PROVE  \/ c.op = "all_gather" /\ c.slice = 0
           \/ HasPolicy(c) /\ LaunchFor(c).path = "vec_pull" /\ LaunchFor(c).sms = 0
<1>1. Valid(c)
  BY DEF Passes
<1>2. c.slice \in Nat /\ (c.slice = 0 => c.op = "all_gather")
  BY <1>1, GivenFacts, ValidSlice
<1>3. CASE HasPolicy(c) /\ c.slice # 0
  BY <1>2, <1>3, PolicyGuardComplete DEF Passes
<1>4. CASE ~ HasPolicy(c) /\ c.slice # 0
  BY <1>1, <1>2, <1>4, StaticGuardComplete DEF Passes
<1>5. QED
  BY <1>2, <1>3, <1>4

\* The channels of a fused policy are the rule's, which Constructs has bounded,
\* or the configuration's.
LEMMA PolicyChannels ==
    ASSUME GivenOK, NEW c, HasPolicy(c), LaunchFor(c).path = "fused"
    PROVE  LaunchFor(c).channels <= config.fused_num_channels
<1> DEFINE rule == PolicyFor(c)
<1>1. /\ table \in Seq(Rule) /\ Constructs(config, table)
      /\ config.fused_num_channels \in Nat
  BY GivenFacts DEF Config
<1>2. PICK i \in DOMAIN table : rule = table[i]
  BY <1>1, PolicyInTable
<1>3. LaunchFor(c).channels = Knob(rule.fused_num_channels, config.fused_num_channels)
  BY LaunchFields DEF LaunchFor, PolicyLaunch
<1>4. rule.path = "fused"
  <2>1. LaunchFor(c).path \in {"vec_pull", rule.path}
    BY LaunchFields DEF LaunchFor, PolicyLaunch
  <2>2. QED
    BY <2>1
<1> HIDE DEF rule
<1>5. table[i].fused_num_channels <= config.fused_num_channels
  BY <1>1, <1>2, <1>4 DEF Constructs
<1>6. QED
  BY <1>1, <1>2, <1>3, <1>5 DEF Knob

-----------------------------------------------------------------------------
(* How two ranks decide the same call.                                     *)

\* The path of a launch is one of the five, and a pipelined launch has more
\* than one chunk.
LEMMA LaunchPath ==
    ASSUME GivenOK, NEW c \in Call
    PROVE  /\ LaunchFor(c).path \in Path
           /\ LaunchFor(c).path = "pipelined" => LaunchFor(c).chunks \in Nat /\ LaunchFor(c).chunks > 1
<1>1. config \in Config /\ table \in Seq(Rule)
  BY GivenFacts
<1>2. CASE HasPolicy(c)
  <2> DEFINE rule == PolicyFor(c)
             chunks == PipelineChunks(c, Knob(rule.pipeline_chunks, 2))
  <2>1. rule \in Rule /\ rule.path # "none"
    BY <1>1, <1>2, PolicyInTable DEF Matches
  <2>2. rule.path \in Path /\ Knob(rule.pipeline_chunks, 2) \in Int
    BY <2>1 DEF Rule, Knob, Unset
  <2>3. chunks \in Int
    BY <2>2, ChunksInt DEF Call
  <2>4. /\ LaunchFor(c).path = IF rule.path = "pipelined" /\ chunks <= 1 THEN "vec_pull" ELSE rule.path
        /\ LaunchFor(c).chunks = chunks
    BY <1>2 DEF LaunchFor, PolicyLaunch, Launch
  <2> HIDE DEF rule, chunks
  <2>5. QED
    BY <2>2, <2>3, <2>4 DEF Path
<1>3. CASE ~ HasPolicy(c)
  <2> DEFINE chunks == PipelineChunks(c, Knob(c.pipeline_chunks, config.pipeline_chunks))
  <2>1. config.enable_fused_path \in BOOLEAN /\ Knob(c.pipeline_chunks, config.pipeline_chunks) \in Int
    BY <1>1 DEF Config, Call, Knob, Unset
  <2>2. chunks \in Int
    BY <2>1, ChunksInt DEF Call
  <2>3. LaunchFor(c).chunks = chunks
    BY <1>3 DEF LaunchFor, StaticLaunch, Launch
  <2>4. CASE config.enable_fused_path
    BY <1>3, <2>4, LaunchFields DEF LaunchFor, StaticLaunch, Path
  <2>5. CASE ~ config.enable_fused_path /\ chunks > 1
    BY <1>3, <2>2, <2>3, <2>5, LaunchFields DEF LaunchFor, StaticLaunch, Path
  <2>6. CASE ~ config.enable_fused_path /\ chunks <= 1
    BY <1>3, <2>6, LaunchFields DEF LaunchFor, StaticLaunch, Path
  <2> HIDE DEF chunks
  <2>7. QED
    BY <2>1, <2>2, <2>4, <2>5, <2>6
<1>4. QED
  BY <1>2, <1>3

\* The checks in front of the launchers read the output's address only on the
\* TMA path, and there only its alignment.
LEMMA PassesByAlignment ==
    ASSUME NEW c, NEW d1, NEW d2, Passes(c, d1), ~ Passes(c, d2)
    PROVE  LaunchFor(c).path = "tma" /\ d1 % 16 # d2 % 16
  BY DEF Passes, PolicyGuard, StaticGuard, TmaGates

\* The launchers' own checks read no more of it, and there they ask what has
\* been asked in front of them.
LEMMA TakesAlike ==
    ASSUME GivenOK, NEW c \in Call, NEW d1, NEW d2, Passes(c, d1), Passes(c, d2),
           LauncherTakes(c, LaunchFor(c), d1)
    PROVE  LauncherTakes(c, LaunchFor(c), d2)
<1> DEFINE l == LaunchFor(c)
<1>1. l.path \in Path
  BY LaunchPath
<1>2. l.path = "tma" => TmaGates(c, d2)
  BY DEF Passes, PolicyGuard, StaticGuard
<1> HIDE DEF l
<1>3. LauncherTakes(c, l, d2)
  <2>1. LauncherTakes(c, l, d1)
    BY DEF l
  <2>2. CASE l.path = "tma"
    BY <1>2, <2>2 DEF LauncherTakes
  <2>3. CASE l.path = "fused"
    BY <2>1, <2>3 DEF LauncherTakes
  <2>4. CASE l.path = "copy_engine"
    BY <2>4 DEF LauncherTakes
  <2>5. CASE l.path \in {"vec_pull", "pipelined"}
    BY <2>1, <2>5 DEF LauncherTakes
  <2>6. QED
    BY <1>1, <2>2, <2>3, <2>4, <2>5 DEF Path
<1>4. QED
  BY <1>3 DEF l

\* A call that both ranks have made.
LEMMA BothMade ==
    ASSUME IInv, NEW r \in Rank, NEW q \in Rank, NEW i \in 1 .. Lesser(made[r], made[q])
    PROVE  /\ i \in Nat \ {0} /\ i \in 1 .. made[r] /\ i \in 1 .. made[q]
           /\ calls[i] \in Call
           /\ Recorded(r, i) /\ Recorded(q, i)
           /\ outcome[r][i] \in Outcome /\ outcome[q][i] \in Outcome
<1>1. /\ made[r] \in Nat /\ made[q] \in Nat /\ made[r] \in 0 .. Len(calls)
      /\ outcome[r] \in Seq(Outcome) /\ Len(outcome[r]) = made[r]
      /\ outcome[q] \in Seq(Outcome) /\ Len(outcome[q]) = made[q]
  BY DEF IInv, FunctionsOK, OutcomesOK
<1>2. i \in Nat \ {0} /\ i \in 1 .. made[r] /\ i \in 1 .. made[q]
  BY <1>1 DEF Lesser
<1>3. calls \in Seq(Call)
  BY DispatchAssumption DEF IInv, GivenOK, DispatchAssumption
<1>4. calls[i] \in Call
  BY <1>1, <1>2, <1>3, CallInSequence
<1>5. outcome[r][i] \in Outcome /\ outcome[q][i] \in Outcome
  BY <1>1, <1>2
<1>6. QED
  BY <1>2, <1>4, <1>5 DEF IInv, OutcomesOK

\* Only a TMA pull into outputs of different alignment is rejected on one of two
\* ranks and goes on on the other.
LEMMA SplitByAlignment ==
    ASSUME IInv, NEW r \in Rank, NEW q \in Rank, NEW i \in Split(r, q)
    PROVE  LaunchFor(calls[i]).path = "tma" /\ output[r] % 16 # output[q] % 16
<1>1. i \in 1 .. Lesser(made[r], made[q]) /\ (outcome[r][i] = "rejected") # (outcome[q][i] = "rejected")
  BY DEF Split
<1>2. /\ Recorded(r, i) /\ Recorded(q, i)
      /\ outcome[r][i] \in Outcome /\ outcome[q][i] \in Outcome
  BY <1>1, BothMade
<1>3. \/ Passes(calls[i], output[r]) /\ ~ Passes(calls[i], output[q])
      \/ Passes(calls[i], output[q]) /\ ~ Passes(calls[i], output[r])
  <2>1. \A p \in {r, q} : Passes(calls[i], output[p]) <=> outcome[p][i] # "rejected"
    BY <1>2 DEF Recorded, Outcome
  <2>2. QED
    BY <1>1, <2>1
<1>4. QED
  BY <1>3, PassesByAlignment

\* Where no call has split them, both ranks have ended every call alike.
LEMMA EndedAlike ==
    ASSUME IInv, NEW r \in Rank, NEW q \in Rank, Split(r, q) = {},
           NEW i \in 1 .. Lesser(made[r], made[q])
    PROVE  outcome[r][i] = outcome[q][i]
<1>1. /\ Recorded(r, i) /\ Recorded(q, i) /\ calls[i] \in Call
      /\ outcome[r][i] \in Outcome /\ outcome[q][i] \in Outcome
  BY BothMade
<1>2. (outcome[r][i] = "rejected") = (outcome[q][i] = "rejected")
  BY DEF Split
<1>3. CASE outcome[r][i] # "rejected" /\ outcome[q][i] # "rejected"
  <2>1. \A p \in {r, q} : Passes(calls[i], output[p])
    BY <1>1, <1>3 DEF Recorded, Outcome
  <2>2. LauncherTakes(calls[i], LaunchFor(calls[i]), output[r])
          <=> LauncherTakes(calls[i], LaunchFor(calls[i]), output[q])
    BY <1>1, <2>1, TakesAlike DEF IInv
  <2>3. QED
    BY <1>1, <1>3, <2>2 DEF Recorded, Outcome
<1>4. QED
  BY <1>2, <1>3

-----------------------------------------------------------------------------
(* The barriers of a rank, call by call.                                   *)

\* What r's i-th call has taken, and the epochs of the barriers that it has
\* enqueued, if e is the first epoch it could take.
Taken(r, i) ==
    IF outcome[r][i] = "rejected" THEN 0 ELSE EpochCount(calls[i], LaunchFor(calls[i]))
Enqueued(r, i, e) ==
    CASE outcome[r][i] = "rejected" -> << >>
      [] outcome[r][i] = "half issued" -> <<e>>
      [] outcome[r][i] = "issued" -> BarrierEpochs(calls[i], LaunchFor(calls[i]), e)

\* Behind its i-th call r has enqueued n[i] barriers and counted to epoch e[i].
Epochs == Seq(Nat)
Link(r, n, e, i) ==
    LET es == Enqueued(r, i, e[i - 1])
    IN  /\ es \in Epochs
        /\ n[i] = n[i - 1] + Len(es)
        /\ e[i] = e[i - 1] + Taken(r, i)
        /\ \A j \in 1 .. Len(es) : barriers[r][n[i - 1] + j] = [call |-> i, epoch |-> es[j]]
History(r, n, e) ==
    /\ n \in [0 .. made[r] -> 0 .. Len(barriers[r])] /\ e \in [0 .. made[r] -> Nat]
    /\ n[0] = 0 /\ e[0] = 0
    /\ n[made[r]] = Len(barriers[r]) /\ e[made[r]] = epochs[r]
    /\ \A i \in 1 .. made[r] : Link(r, n, e, i)

Barrier == [call : Nat, epoch : Nat]
CountersOK == epochs \in [Rank -> Nat] /\ barriers \in [Rank -> Seq(Barrier)]
HistoryOK == CountersOK /\ \A r \in Rank : \E n, e : History(r, n, e)

\* A call takes some epochs, and its barriers have some of them.
LEMMA EpochsOfCall ==
    ASSUME GivenOK, NEW c \in Call, NEW e \in Nat
    PROVE  /\ EpochCount(c, LaunchFor(c)) \in Nat
           /\ BarrierEpochs(c, LaunchFor(c), e) \in Seq(Nat)
<1> DEFINE l == LaunchFor(c)
           layout == ChunkLayout(c.slice, l.chunks, config.alignment)
<1>1. l.path \in Path /\ (l.path = "pipelined" => l.chunks \in Nat /\ l.chunks > 1)
  BY LaunchPath
<1>2. config.alignment \in Nat \ {0} /\ c.slice \in Nat
  BY GivenFacts DEF Config, ConfigValid, Call
<1>3. l.path = "pipelined" => Len(layout) \in Nat
  <2>1. CASE c.slice = 0
    BY <2>1 DEF ChunkLayout
  <2>2. CASE c.slice # 0 /\ l.path = "pipelined"
    <3>1. l.chunks \in Nat \ {0} /\ c.slice \in Nat \ {0}
      BY <1>1, <1>2, <2>2
    <3>2. Len(layout) \in 1 .. l.chunks
      BY <1>2, <3>1, ChunkLayoutTiles
    <3>3. QED
      BY <3>1, <3>2
  <2>3. QED
    BY <2>1, <2>2
<1>4. EpochCount(c, l) \in Nat
  <2> HIDE DEF l
  <2>1. CASE l.path = "fused"
    BY <2>1 DEF EpochCount
  <2>2. CASE l.path = "pipelined"
    BY <1>3, <2>2 DEF EpochCount
  <2>3. CASE l.path \notin {"fused", "pipelined"}
    BY <2>3 DEF EpochCount
  <2>4. QED
    BY <2>1, <2>2, <2>3
<1>5. BarrierEpochs(c, l, e) \in Seq(Nat)
  <2> HIDE DEF l
  <2>1. CASE l.path = "fused"
    BY <2>1 DEF BarrierEpochs
  <2>2. CASE l.path # "fused"
    <3> DEFINE k == EpochCount(c, l)
               es == [i \in 1 .. k |-> e + i - 1]
    <3>1. k \in Nat
      BY <1>4
    <3> HIDE DEF k
    <3>2. es \in Seq(Nat)
      BY <3>1
    <3>3. QED
      BY <2>2, <3>2 DEF BarrierEpochs, k
  <2>3. QED
    BY <2>1, <2>2
<1>6. QED
  BY <1>4, <1>5

\* What the call that ends has to take and enqueue.
Owes(r, how, k, es) ==
    /\ how = "rejected" => k = 0 /\ es = << >>
    /\ how = "half issued" =>
          k = EpochCount(NextCall(r), LaunchFor(NextCall(r))) /\ es = <<epochs[r]>>
    /\ how = "issued" =>
          /\ k = EpochCount(NextCall(r), LaunchFor(NextCall(r)))
          /\ es = BarrierEpochs(NextCall(r), LaunchFor(NextCall(r)), epochs[r])

\* What a call does to the counters: it takes k epochs and enqueues barriers of
\* the epochs es.
Took(r, k) == epochs' = [epochs EXCEPT ![r] = @ + k]
Grown(r, k, es) ==
    /\ CountersOK'
    /\ epochs'[r] = epochs[r] + k
    /\ Len(barriers'[r]) = Len(barriers[r]) + Len(es)
    /\ \A j \in 1 .. Len(barriers[r]) : barriers'[r][j] = barriers[r][j]
    /\ \A j \in 1 .. Len(es) :
          barriers'[r][Len(barriers[r]) + j] = [call |-> made[r] + 1, epoch |-> es[j]]
    /\ \A q \in Rank \ {r} : epochs'[q] = epochs[q] /\ barriers'[q] = barriers[q]

\* The sequence that Enqueues appends has the epochs' length.
LEMMA BarrierSequence ==
    ASSUME NEW es \in Epochs, NEW i \in Nat
    PROVE  LET new == [j \in DOMAIN es |-> [call |-> i, epoch |-> es[j]]]
           IN  /\ new \in Seq(Barrier) /\ Len(new) = Len(es)
               /\ \A j \in 1 .. Len(es) : new[j] = [call |-> i, epoch |-> es[j]]
<1>1. DOMAIN es = 1 .. Len(es) /\ Len(es) \in Nat /\ \A j \in 1 .. Len(es) : es[j] \in Nat
  BY DEF Epochs
<1> DEFINE new == [j \in 1 .. Len(es) |-> [call |-> i, epoch |-> es[j]]]
<1>2. new \in Seq(Barrier) /\ Len(new) = Len(es)
  BY <1>1 DEF Barrier
<1>3. QED
  BY <1>1, <1>2

\* Concatenation.
LEMMA ConcatFacts ==
    ASSUME NEW S, NEW s \in Seq(S), NEW t \in Seq(S)
    PROVE  /\ s \o t \in Seq(S) /\ Len(s \o t) = Len(s) + Len(t)
           /\ \A j \in 1 .. Len(s) : (s \o t)[j] = s[j]
           /\ \A j \in 1 .. Len(t) : (s \o t)[Len(s) + j] = t[j]
  OBVIOUS

\* What a call that goes on does to them.
LEMMA EnqueueFacts ==
    ASSUME CountersOK, NEW r \in Rank, NEW k \in Nat, NEW es \in Epochs, made[r] \in Nat,
           Enqueues(r, es), Took(r, k)
    PROVE  Grown(r, k, es)
<1> DEFINE new == [j \in DOMAIN es |-> [call |-> made[r] + 1, epoch |-> es[j]]]
<1>1. /\ new \in Seq(Barrier) /\ Len(new) = Len(es)
      /\ \A j \in 1 .. Len(es) : new[j] = [call |-> made[r] + 1, epoch |-> es[j]]
  <2>1. made[r] + 1 \in Nat
    OBVIOUS
  <2>2. QED
    BY <2>1, BarrierSequence
<1>2. /\ barriers' = [barriers EXCEPT ![r] = barriers[r] \o new]
      /\ epochs' = [epochs EXCEPT ![r] = epochs[r] + k]
  BY DEF Enqueues, Took
<1> HIDE DEF new
<1>3. barriers[r] \in Seq(Barrier) /\ epochs[r] \in Nat
  BY DEF CountersOK
<1>4. /\ barriers[r] \o new \in Seq(Barrier)
      /\ Len(barriers[r] \o new) = Len(barriers[r]) + Len(es)
      /\ \A j \in 1 .. Len(barriers[r]) : (barriers[r] \o new)[j] = barriers[r][j]
      /\ \A j \in 1 .. Len(es) : (barriers[r] \o new)[Len(barriers[r]) + j] = new[j]
  <2>1. new \in Seq(Barrier) /\ Len(new) = Len(es)
    BY <1>1
  <2>2. /\ barriers[r] \o new \in Seq(Barrier)
        /\ Len(barriers[r] \o new) = Len(barriers[r]) + Len(new)
        /\ \A j \in 1 .. Len(barriers[r]) : (barriers[r] \o new)[j] = barriers[r][j]
        /\ \A j \in 1 .. Len(new) : (barriers[r] \o new)[Len(barriers[r]) + j] = new[j]
    <3>1. PICK s, t : s = barriers[r] /\ t = new
      OBVIOUS
    <3>2. s \in Seq(Barrier) /\ t \in Seq(Barrier)
      BY <1>3, <2>1, <3>1
    <3>3. /\ s \o t \in Seq(Barrier) /\ Len(s \o t) = Len(s) + Len(t)
          /\ \A j \in 1 .. Len(s) : (s \o t)[j] = s[j]
          /\ \A j \in 1 .. Len(t) : (s \o t)[Len(s) + j] = t[j]
      BY <3>2, ConcatFacts
    <3>4. QED
      BY <3>1, <3>3
  <2>3. QED
    BY <2>1, <2>2, Zenon
<1>5. barriers'[r] = barriers[r] \o new /\ epochs'[r] = epochs[r] + k
  BY <1>2 DEF CountersOK
<1>6. \A q \in Rank \ {r} : epochs'[q] = epochs[q] /\ barriers'[q] = barriers[q]
  BY <1>2 DEF CountersOK
<1>7. CountersOK'
  <2>1. epochs[r] + k \in Nat
    BY <1>3
  <2>2. QED
    BY <1>2, <1>4, <2>1, Zenon DEF CountersOK
<1>8. QED
  BY <1>1, <1>4, <1>5, <1>6, <1>7 DEF Grown

\* Nor does a rejected call change them.
LEMMA NothingEnqueued ==
    ASSUME CountersOK, NEW r \in Rank, UNCHANGED <<epochs, barriers>>
    PROVE  Grown(r, 0, << >>)
<1>1. epochs' = epochs /\ barriers' = barriers /\ epochs[r] \in Nat /\ Len(barriers[r]) \in Nat
  <2>1. barriers[r] \in Seq(Barrier)
    BY DEF CountersOK
  <2>2. QED
    BY <2>1, LenNat DEF CountersOK, Epochs
<1>2. CountersOK'
  BY <1>1 DEF CountersOK
<1>3. QED
  BY <1>1, <1>2 DEF Grown

\* A history grows by the call that ends.
LEMMA LongerHistory ==
    ASSUME IInv, CountersOK, NEW r \in Rank, NEW how \in Outcome, Ends(r, how), made[r] < Len(calls),
           NEW k \in Nat, NEW es \in Epochs, Grown(r, k, es),
           Owes(r, how, k, es),
           NEW n, NEW e, History(r, n, e)
    PROVE  \E n2, e2 : History(r, n2, e2)'
<1>m. PICK m : m = made[r]
  OBVIOUS
<1>0. m \in Nat
  BY <1>m DEF IInv, FunctionsOK
<1>1. /\ made'[r] = m + 1 /\ outcome'[r][m + 1] = how
      /\ \A i \in 1 .. m : outcome'[r][i] = outcome[r][i]
  <2>1. FunctionsOK /\ Len(outcome[r]) = made[r]
    BY DEF IInv, OutcomesOK
  <2>2. /\ made'[r] = made[r] + 1 /\ outcome'[r][made'[r]] = how
        /\ \A i \in 1 .. made[r] : outcome'[r][i] = outcome[r][i]
    BY <2>1, UpdateFacts
  <2>3. QED
    BY <1>m, <2>2
<1>2. /\ calls' = calls
      /\ \A c : LaunchFor(c)' = LaunchFor(c)
      /\ \A c, l : EpochCount(c, l)' = EpochCount(c, l)
      /\ \A c, l, x : BarrierEpochs(c, l, x)' = BarrierEpochs(c, l, x)
  <2>1. given' = given
    BY DEF Ends
  <2>2. QED
    BY <2>1, SameInputs
<1>3. /\ epochs[r] \in Nat /\ Len(barriers[r]) \in Nat /\ Len(es) \in Nat
  <2>1. barriers[r] \in Seq(Barrier)
    BY DEF CountersOK
  <2>2. QED
    BY <2>1, LenNat DEF CountersOK, Epochs
<1>4. /\ epochs'[r] = epochs[r] + k
      /\ Len(barriers'[r]) = Len(barriers[r]) + Len(es)
      /\ \A j \in 1 .. Len(barriers[r]) : barriers'[r][j] = barriers[r][j]
      /\ \A j \in 1 .. Len(es) :
            barriers'[r][Len(barriers[r]) + j] = [call |-> m + 1, epoch |-> es[j]]
  BY <1>m DEF Grown
<1>5. /\ n \in [0 .. m -> 0 .. Len(barriers[r])] /\ e \in [0 .. m -> Nat]
      /\ n[0] = 0 /\ e[0] = 0 /\ n[m] = Len(barriers[r]) /\ e[m] = epochs[r]
      /\ \A i \in 1 .. m : Link(r, n, e, i)
  BY <1>m DEF History
<1>n. PICK n2 : n2 = [i \in 0 .. m + 1 |->
                      IF i = m + 1 THEN Len(barriers[r]) + Len(es) ELSE n[i]]
  OBVIOUS
<1>e. PICK e2 : e2 = [i \in 0 .. m + 1 |-> IF i = m + 1 THEN epochs[r] + k ELSE e[i]]
  OBVIOUS
<1>6. /\ n2 \in [0 .. m + 1 -> 0 .. Len(barriers[r]) + Len(es)] /\ e2 \in [0 .. m + 1 -> Nat]
      /\ n2[m + 1] = Len(barriers[r]) + Len(es) /\ e2[m + 1] = epochs[r] + k
      /\ \A i \in 0 .. m : n2[i] = n[i] /\ e2[i] = e[i]
  <2>1. \A i \in 0 .. m + 1 : i = m + 1 \/ i \in 0 .. m
    BY <1>0
  <2>2. m + 1 \in 0 .. m + 1 /\ \A i \in 0 .. m : i \in 0 .. m + 1 /\ i # m + 1
    BY <1>0
  <2>3. n2[m + 1] = Len(barriers[r]) + Len(es) /\ \A i \in 0 .. m : n2[i] = n[i]
    BY <1>n, <2>2
  <2>4. e2[m + 1] = epochs[r] + k /\ \A i \in 0 .. m : e2[i] = e[i]
    BY <1>e, <2>2
  <2>5. n2 \in [0 .. m + 1 -> 0 .. Len(barriers[r]) + Len(es)]
    <3>1. /\ Len(barriers[r]) + Len(es) \in 0 .. Len(barriers[r]) + Len(es)
          /\ \A x \in 0 .. Len(barriers[r]) : x \in 0 .. Len(barriers[r]) + Len(es)
      BY <1>3
    <3>2. \A i \in 0 .. m : n[i] \in 0 .. Len(barriers[r])
      BY <1>5
    <3>3. \A i \in 0 .. m + 1 : n2[i] \in 0 .. Len(barriers[r]) + Len(es)
      BY <2>1, <2>3, <3>1, <3>2
    <3>4. QED
      BY <1>n, <3>3
  <2>6. e2 \in [0 .. m + 1 -> Nat]
    <3>1. epochs[r] + k \in Nat
      BY <1>3
    <3>2. \A i \in 0 .. m + 1 : e2[i] \in Nat
      BY <1>5, <2>1, <2>4, <3>1
    <3>3. QED
      BY <1>e, <3>2
  <2>7. QED
    BY <2>3, <2>4, <2>5, <2>6
<1>7. n2[0] = 0 /\ e2[0] = 0
  BY <1>0, <1>5, <1>6
<1>8. ASSUME NEW i \in 1 .. m PROVE Link(r, n2, e2, i)'
  <2>0. PICK fs : fs = Enqueued(r, i, e[i - 1])
    OBVIOUS
  <2>1. i \in 0 .. m /\ i - 1 \in 0 .. m
    BY <1>0
  <2>2. n2[i] = n[i] /\ n2[i - 1] = n[i - 1] /\ e2[i] = e[i] /\ e2[i - 1] = e[i - 1]
    BY <1>6, <2>1
  <2>3. Enqueued(r, i, e2[i - 1])' = fs /\ Taken(r, i)' = Taken(r, i)
    BY <1>1, <1>2, <2>0, <2>2 DEF Enqueued, Taken
  <2>4. /\ fs \in Epochs
        /\ n[i] = n[i - 1] + Len(fs) /\ e[i] = e[i - 1] + Taken(r, i)
        /\ \A j \in 1 .. Len(fs) : barriers[r][n[i - 1] + j] = [call |-> i, epoch |-> fs[j]]
    BY <1>5, <2>0 DEF Link
  <2>5. n[i] \in 0 .. Len(barriers[r]) /\ n[i - 1] \in 0 .. Len(barriers[r])
    BY <1>5, <2>1
  <2>6. \A j \in 1 .. Len(fs) : barriers'[r][n[i - 1] + j] = [call |-> i, epoch |-> fs[j]]
    <3>1. SUFFICES ASSUME NEW j \in 1 .. Len(fs)
                   PROVE  barriers'[r][n[i - 1] + j] = [call |-> i, epoch |-> fs[j]]
      OBVIOUS
    <3>2. n[i - 1] + j \in 1 .. Len(barriers[r])
      <4>1. Len(fs) \in Nat
        BY <2>4, LenNat DEF Epochs
      <4>2. PICK a, b, c, d : a = n[i - 1] /\ b = Len(fs) /\ c = Len(barriers[r]) /\ d = n[i]
        OBVIOUS
      <4>3. a \in 0 .. c /\ d \in 0 .. c /\ b \in Nat /\ c \in Nat /\ d = a + b /\ j \in 1 .. b
        BY <1>3, <2>4, <2>5, <4>1, <4>2
      <4>4. a + j \in 1 .. c
        BY <4>3
      <4>5. QED
        BY <4>2, <4>4
    <3>3. QED
      BY <1>4, <2>4, <3>2
  <2>7. QED
    BY <2>2, <2>3, <2>4, <2>6 DEF Link
<1>9. Link(r, n2, e2, m + 1)'
  <2>1. (m + 1) - 1 = m /\ m \in 0 .. m
    BY <1>0
  <2>2. n2[m] = Len(barriers[r]) /\ e2[m] = epochs[r]
    BY <1>5, <1>6, <2>1
  <2>3. NextCall(r) = calls[m + 1]
    BY <1>m DEF NextCall
  <2>4. Enqueued(r, m + 1, e2[m])' = es /\ Taken(r, m + 1)' = k
    <3>1. CASE how = "rejected"
      BY <1>1, <3>1 DEF Enqueued, Taken, Owes
    <3>2. CASE how = "half issued"
      BY <1>1, <1>2, <2>2, <2>3, <3>2 DEF Enqueued, Taken, Owes
    <3>3. CASE how = "issued"
      BY <1>1, <1>2, <2>2, <2>3, <3>3 DEF Enqueued, Taken, Owes
    <3>4. QED
      BY <3>1, <3>2, <3>3 DEF Outcome
  <2>5. /\ n2[m + 1] = n2[m] + Len(es) /\ e2[m + 1] = e2[m] + k
        /\ \A j \in 1 .. Len(es) : barriers'[r][n2[m] + j] = [call |-> m + 1, epoch |-> es[j]]
    BY <1>4, <1>6, <2>2
  <2>6. QED
    BY <2>1, <2>4, <2>5 DEF Link
<1>10. \A i \in 1 .. m + 1 : Link(r, n2, e2, i)'
  <2>1. \A i \in 1 .. m + 1 : i \in 1 .. m \/ i = m + 1
    BY <1>0
  <2>2. QED
    BY <1>8, <1>9, <2>1
<1>11. History(r, n2, e2)'
  BY <1>1, <1>4, <1>6, <1>7, <1>10 DEF History
<1>12. QED
  BY <1>11

\* The histories of the other ranks stay what they are.
LEMMA SameHistory ==
    ASSUME NEW r, NEW n, NEW e, History(r, n, e), given' = given, made'[r] = made[r],
           outcome'[r] = outcome[r], epochs'[r] = epochs[r], barriers'[r] = barriers[r]
    PROVE  History(r, n, e)'
<1>1. /\ calls' = calls
      /\ \A c : LaunchFor(c)' = LaunchFor(c)
      /\ \A c, l : EpochCount(c, l)' = EpochCount(c, l)
      /\ \A c, l, x : BarrierEpochs(c, l, x)' = BarrierEpochs(c, l, x)
  BY SameInputs
<1>2. \A i, x : Enqueued(r, i, x)' = Enqueued(r, i, x) /\ Taken(r, i)' = Taken(r, i)
  BY <1>1, Zenon DEF Enqueued, Taken
<1>3. \A i : Link(r, n, e, i)' <=> Link(r, n, e, i)
  <2>1. SUFFICES ASSUME NEW i PROVE Link(r, n, e, i)' <=> Link(r, n, e, i)
    OBVIOUS
  <2>2. PICK es : es = Enqueued(r, i, e[i - 1])
    OBVIOUS
  <2>3. Enqueued(r, i, e[i - 1])' = es /\ Taken(r, i)' = Taken(r, i)
    BY <1>2, <2>2
  <2>4. QED
    BY <2>2, <2>3 DEF Link
<1>4. QED
  BY <1>3 DEF History

\* The call that a rank makes next is one of the sequence's.
LEMMA NextInSequence ==
    ASSUME NEW m \in Nat, m < Len(calls), calls \in Seq(Call)
    PROVE  calls[m + 1] \in Call
  OBVIOUS

\* One call more keeps the histories.
LEMMA CallKeepsHistories ==
    ASSUME IInv, HistoryOK, NEW r \in Rank, NEW how \in Outcome, Ends(r, how), made[r] < Len(calls),
           NEW k \in Nat, NEW es \in Epochs, Grown(r, k, es),
           Owes(r, how, k, es)
    PROVE  HistoryOK'
<1>1. CountersOK /\ CountersOK'
  BY DEF HistoryOK, Grown
<1>2. ASSUME NEW q \in Rank PROVE \E n, e : History(q, n, e)'
  <2>1. PICK n, e : History(q, n, e)
    BY DEF HistoryOK
  <2>2. CASE q = r
    BY <1>1, <2>1, <2>2, LongerHistory
  <2>3. CASE q # r
    <3>1. FunctionsOK /\ Len(outcome[r]) = made[r] /\ given' = given
      BY DEF IInv, OutcomesOK, Ends
    <3>2. made'[q] = made[q] /\ outcome'[q] = outcome[q]
      BY <2>3, <3>1, UpdateFacts
    <3>3. epochs'[q] = epochs[q] /\ barriers'[q] = barriers[q]
      BY <2>3 DEF Grown
    <3>4. QED
      BY <2>1, <3>1, <3>2, <3>3, SameHistory
  <2>4. QED
    BY <2>2, <2>3
<1>3. QED
  BY <1>1, <1>2 DEF HistoryOK

\* At first no call has been made.
LEMMA HistoriesInit == Init => HistoryOK
<1> SUFFICES ASSUME Init PROVE HistoryOK
  OBVIOUS
<1>1. CountersOK
  BY DEF Init, CountersOK
<1>2. ASSUME NEW r \in Rank PROVE \E n, e : History(r, n, e)
  <2> DEFINE zero == [i \in {0} |-> 0]
  <2>1. made[r] = 0 /\ barriers[r] = << >> /\ epochs[r] = 0
    BY DEF Init
  <2>2. 0 .. 0 = {0} /\ Len(<< >>) = 0
    OBVIOUS
  <2>3. zero \in [0 .. 0 -> 0 .. 0] /\ zero \in [0 .. 0 -> Nat] /\ zero[0] = 0
    BY <2>2
  <2>4. \A i \in 1 .. 0 : FALSE
    OBVIOUS
  <2> HIDE DEF zero
  <2>5. History(r, zero, zero)
    BY <2>1, <2>2, <2>3, <2>4 DEF History
  <2>6. QED
    BY <2>5
<1>3. QED
  BY <1>1, <1>2 DEF HistoryOK

\* Every action keeps the histories.
LEMMA HistoriesNext == IInv /\ HistoryOK /\ [Next]_vars => HistoryOK'
<1> SUFFICES ASSUME IInv, HistoryOK, [Next]_vars PROVE HistoryOK'
  OBVIOUS
<1>1. ASSUME NEW r \in Rank, made[r] < Len(calls)
      PROVE  /\ made[r] \in Nat /\ epochs[r] \in Nat
             /\ EpochCount(NextCall(r), LaunchFor(NextCall(r))) \in Nat
             /\ BarrierEpochs(NextCall(r), LaunchFor(NextCall(r)), epochs[r]) \in Seq(Nat)
             /\ <<epochs[r]>> \in Seq(Nat)
  <2>1. made[r] \in Nat /\ epochs[r] \in Nat
    BY DEF IInv, FunctionsOK, HistoryOK, CountersOK
  <2>2. calls \in Seq(Call)
    BY DispatchAssumption DEF IInv, GivenOK, DispatchAssumption
  <2>3. NextCall(r) \in Call
    BY <1>1, <2>1, <2>2, NextInSequence DEF NextCall
  <2>4. QED
    BY <2>1, <2>3, EpochsOfCall DEF IInv
<1>2. CountersOK
  BY DEF HistoryOK
<1>3. ASSUME NEW r \in Rank, Reject(r) PROVE HistoryOK'
  <2>0. PICK k, es : k = 0 /\ es = << >>
    OBVIOUS
  <2>1. made[r] < Len(calls) /\ Ends(r, "rejected") /\ UNCHANGED <<epochs, barriers>>
    BY <1>3 DEF Reject
  <2>2. Grown(r, k, es)
    BY <1>2, <2>0, <2>1, NothingEnqueued
  <2>3. k \in Nat /\ es \in Epochs /\ "rejected" \in Outcome
    BY <2>0 DEF Outcome, Epochs
  <2>4. Owes(r, "rejected", k, es)
    BY <2>0 DEF Owes
  <2>5. QED
    BY <2>1, <2>2, <2>3, <2>4, CallKeepsHistories
<1>4. ASSUME NEW r \in Rank, RaiseInLauncher(r) PROVE HistoryOK'
  <2> DEFINE k == EpochCount(NextCall(r), LaunchFor(NextCall(r)))
             es == <<epochs[r]>>
  <2>1. made[r] < Len(calls) /\ Ends(r, "half issued") /\ Enqueues(r, es) /\ Took(r, k)
    BY <1>4 DEF RaiseInLauncher, Took
  <2>2. made[r] \in Nat /\ k \in Nat /\ es \in Epochs /\ "half issued" \in Outcome
    BY <1>1, <2>1 DEF Outcome, Epochs
  <2>3. Grown(r, k, es)
    <3> HIDE DEF k, es
    <3>1. QED
      BY <1>2, <2>1, <2>2, EnqueueFacts
  <2>4. Owes(r, "half issued", k, es)
    BY DEF Owes
  <2>5. QED
    <3> HIDE DEF k, es
    <3>1. QED
      BY <2>1, <2>2, <2>3, <2>4, CallKeepsHistories
<1>5. ASSUME NEW r \in Rank, Submit(r) PROVE HistoryOK'
  <2> DEFINE k == EpochCount(NextCall(r), LaunchFor(NextCall(r)))
             es == BarrierEpochs(NextCall(r), LaunchFor(NextCall(r)), epochs[r])
  <2>1. made[r] < Len(calls) /\ Ends(r, "issued") /\ Enqueues(r, es) /\ Took(r, k)
    BY <1>5 DEF Submit, Took
  <2>2. made[r] \in Nat /\ k \in Nat /\ es \in Epochs /\ "issued" \in Outcome
    BY <1>1, <2>1 DEF Outcome, Epochs
  <2>3. Grown(r, k, es)
    <3> HIDE DEF k, es
    <3>1. QED
      BY <1>2, <2>1, <2>2, EnqueueFacts
  <2>4. Owes(r, "issued", k, es)
    BY DEF Owes
  <2>5. QED
    <3> HIDE DEF k, es
    <3>1. QED
      BY <2>1, <2>2, <2>3, <2>4, CallKeepsHistories
<1>6. CASE UNCHANGED vars
  <2>1. /\ given' = given /\ made' = made /\ outcome' = outcome
        /\ epochs' = epochs /\ barriers' = barriers
    BY <1>6 DEF vars
  <2>2. CountersOK'
    BY <1>2, <2>1 DEF CountersOK
  <2>3. ASSUME NEW r \in Rank PROVE \E n, e : History(r, n, e)'
    <3>1. PICK n, e : History(r, n, e)
      BY DEF HistoryOK
    <3>2. QED
      BY <2>1, <3>1, SameHistory
  <2>4. QED
    BY <2>2, <2>3 DEF HistoryOK
<1>7. QED
  BY <1>3, <1>4, <1>5, <1>6 DEF Next, AllMade

\* There are histories throughout.
LEMMA Histories == Spec => [](IInv /\ HistoryOK)
<1>1. Init => IInv /\ HistoryOK
  BY InitOK, HistoriesInit
<1>2. (IInv /\ HistoryOK) /\ [Next]_vars => (IInv /\ HistoryOK)'
  BY NextOK, HistoriesNext
<1>3. QED
  BY <1>1, <1>2, PTL DEF Spec

\* Two ranks that have ended the same calls alike have enqueued the same
\* barriers, and counted to the same epochs, behind each of these calls.
LEMMA SameProgress ==
    ASSUME NEW r, NEW q, NEW m \in Nat, m <= made[r], m <= made[q],
           made[r] \in Nat, made[q] \in Nat,
           \A i \in 1 .. m : outcome[r][i] = outcome[q][i],
           NEW n1, NEW e1, History(r, n1, e1), NEW n2, NEW e2, History(q, n2, e2)
    PROVE  \A i \in 0 .. m : n1[i] = n2[i] /\ e1[i] = e2[i]
<1> DEFINE Differ == {i \in 0 .. m : ~ (n1[i] = n2[i] /\ e1[i] = e2[i])}
<1>1. SUFFICES ASSUME Differ # {} PROVE FALSE
  OBVIOUS
<1>2. PICK i \in Differ : \A k \in Differ : ~ k < i
  <2>1. Differ \subseteq Nat
    OBVIOUS
  <2>2. QED
    BY <1>1, <2>1, LeastNumber
<1>3. i \in 0 .. m /\ ~ (n1[i] = n2[i] /\ e1[i] = e2[i])
  OBVIOUS
<1>4. i # 0
  BY <1>3 DEF History
<1>5. /\ i \in 1 .. m /\ i - 1 \in 0 .. m /\ i - 1 < i
      /\ i \in 1 .. made[r] /\ i \in 1 .. made[q]
  BY <1>3, <1>4
<1>6. n1[i - 1] = n2[i - 1] /\ e1[i - 1] = e2[i - 1]
  BY <1>2, <1>5
<1>7. \A x : Enqueued(r, i, x) = Enqueued(q, i, x) /\ Taken(r, i) = Taken(q, i)
  BY <1>5 DEF Enqueued, Taken
<1>8. Link(r, n1, e1, i) /\ Link(q, n2, e2, i)
  BY <1>5 DEF History
<1>9. n1[i] = n2[i] /\ e1[i] = e2[i]
  BY <1>6, <1>7, <1>8 DEF Link
<1>10. QED
  BY <1>3, <1>9

\* The call that has enqueued a barrier is one that a rank with as many barriers
\* has made too.
LEMMA BarriersAgree ==
    ASSUME IInv, HistoryOK, NEW r \in Rank, NEW q \in Rank, Split(r, q) = {},
           NEW p \in DOMAIN barriers[r] \cap DOMAIN barriers[q]
    PROVE  barriers[r][p] = barriers[q][p]
<1>1. PICK n1, e1 : History(r, n1, e1)
  BY DEF HistoryOK
<1>2. PICK n2, e2 : History(q, n2, e2)
  BY DEF HistoryOK
<1>3. PICK m : m = Lesser(made[r], made[q])
  OBVIOUS
<1>4. made[r] \in Nat /\ made[q] \in Nat
  BY DEF IInv, FunctionsOK
<1>5. m \in Nat /\ m <= made[r] /\ m <= made[q] /\ (m = made[r] \/ m = made[q])
  BY <1>3, <1>4 DEF Lesser
<1>6. \A i \in 1 .. m : outcome[r][i] = outcome[q][i]
  BY <1>3, EndedAlike
<1>7. \A i \in 0 .. m : n1[i] = n2[i] /\ e1[i] = e2[i]
  BY <1>1, <1>2, <1>4, <1>5, <1>6, SameProgress
<1>8. /\ Len(barriers[r]) \in Nat /\ Len(barriers[q]) \in Nat /\ p \in Nat /\ p > 0
      /\ p <= Len(barriers[r]) /\ p <= Len(barriers[q])
  <2>1. barriers[r] \in Seq(Barrier) /\ barriers[q] \in Seq(Barrier)
    BY DEF HistoryOK, CountersOK
  <2>2. QED
    BY <2>1
\* The shorter of the histories ends with all the barriers of its rank.
<1>9. n1[m] \in Nat /\ p <= n1[m]
  <2>1. m \in 0 .. m
    BY <1>5
  <2>2. CASE m = made[r]
    BY <1>1, <1>8, <2>2 DEF History
  <2>3. CASE m = made[q]
    BY <1>2, <1>7, <1>8, <2>1, <2>3 DEF History
  <2>4. QED
    BY <1>5, <2>2, <2>3
<1> DEFINE Reached == {i \in 0 .. m : p <= n1[i]}
<1>10. PICK i \in Reached : \A k \in Reached : ~ k < i
  <2>1. Reached \subseteq Nat /\ m \in Reached
    BY <1>5, <1>9
  <2>2. QED
    BY <2>1, LeastNumber
<1>11. i \in 0 .. m /\ p <= n1[i]
  OBVIOUS
<1>12. i # 0
  BY <1>1, <1>8, <1>11 DEF History
<1>13. /\ i \in 1 .. m /\ i - 1 \in 0 .. m /\ i - 1 < i
       /\ i \in 1 .. made[r] /\ i \in 1 .. made[q] /\ i - 1 \in 0 .. made[r]
  BY <1>4, <1>5, <1>11, <1>12
<1>14. n1[i - 1] \in Nat /\ n1[i - 1] < p
  <2>1. n1[i - 1] \in 0 .. Len(barriers[r])
    BY <1>1, <1>13 DEF History
  <2>2. ~ (p <= n1[i - 1])
    BY <1>10, <1>13
  <2>3. QED
    BY <1>8, <2>1, <2>2
<1>15. PICK es : es = Enqueued(r, i, e1[i - 1])
  OBVIOUS
<1>16. /\ es \in Epochs
       /\ n1[i] = n1[i - 1] + Len(es)
       /\ \A j \in 1 .. Len(es) : barriers[r][n1[i - 1] + j] = [call |-> i, epoch |-> es[j]]
  BY <1>1, <1>13, <1>15 DEF History, Link
<1>17. \A j \in 1 .. Len(es) : barriers[q][n1[i - 1] + j] = [call |-> i, epoch |-> es[j]]
  <2>1. Enqueued(q, i, e2[i - 1]) = es /\ n2[i - 1] = n1[i - 1]
    BY <1>6, <1>7, <1>13, <1>15 DEF Enqueued
  <2>2. QED
    BY <1>2, <1>13, <2>1 DEF History, Link
<1>18. PICK j : j = p - n1[i - 1]
  OBVIOUS
<1>19. j \in 1 .. Len(es) /\ n1[i - 1] + j = p
  <2>1. Len(es) \in Nat
    BY <1>16, LenNat DEF Epochs
  <2>2. PICK a, b : a = n1[i - 1] /\ b = Len(es)
    OBVIOUS
  <2>3. a \in Nat /\ b \in Nat /\ p \in Nat /\ a < p /\ p <= a + b /\ j = p - a
    BY <1>8, <1>11, <1>14, <1>16, <1>18, <2>1, <2>2
  <2>4. j \in 1 .. b /\ a + j = p
    BY <2>3
  <2>5. QED
    BY <2>2, <2>4
<1>20. QED
  BY <1>16, <1>17, <1>19

-----------------------------------------------------------------------------
(* The theorems.                                                           *)

\* No accepted call raises behind its pre-barrier, with the exceptions that the
\* property names (runtime.py:1093-1100).
THEOREM NothingHalfIssuedHolds == Spec => []NothingHalfIssued
<1>1. IInv => NothingHalfIssued
  <2> SUFFICES ASSUME IInv, NEW r \in Rank, NEW i \in 1 .. made[r], outcome[r][i] = "half issued"
               PROVE  \/ calls[i].op = "all_gather" /\ calls[i].slice = 0
                      \/ /\ HasPolicy(calls[i])
                         /\ LaunchFor(calls[i]).path = "vec_pull" /\ LaunchFor(calls[i]).sms = 0
    BY DEF NothingHalfIssued
  <2>1. Recorded(r, i) /\ made[r] \in 0 .. Len(calls) /\ GivenOK
    BY DEF IInv, OutcomesOK
  <2>2. calls \in Seq(Call)
    BY DispatchAssumption, <2>1 DEF GivenOK, DispatchAssumption
  <2>3. calls[i] \in Call
    BY <2>1, <2>2, CallInSequence
  <2>4. /\ Passes(calls[i], output[r])
        /\ ~ LauncherTakes(calls[i], LaunchFor(calls[i]), output[r])
    BY <2>1 DEF Recorded
  <2>5. QED
    BY <2>1, <2>3, <2>4, GuardsComplete
<1>2. QED
  BY <1>1, Invariant, PTL

\* A table that the constructor accepts never asks for more channels than
\* step_pad has (runtime.py:122-127).
THEOREM NoLateChannelErrorHolds == Spec => []NoLateChannelError
<1>1. IInv => NoLateChannelError
  BY PolicyChannels DEF IInv, NoLateChannelError
<1>2. QED
  BY <1>1, Invariant, PTL

\* Ranks that no call has split wait for each other at the same barriers, epoch
\* by epoch; and only a TMA pull into outputs of different alignment can split
\* them (runtime.py:1093-1100, tma_paths.py:31-46).
THEOREM BarriersPairUpHolds == Spec => []BarriersPairUp
<1>1. IInv /\ HistoryOK => BarriersPairUp
  BY SplitByAlignment, BarriersAgree DEF BarriersPairUp
<1>2. QED
  BY <1>1, Histories, PTL
=============================================================================
