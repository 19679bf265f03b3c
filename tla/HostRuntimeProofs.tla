------------------------- MODULE HostRuntimeProofs -------------------------
(***************************************************************************)
(* For every set of ids, rank lists, blocks and threads: the invariants of *)
(* HostRuntime.  They are not inductive as they stand:                     *)
(*   Typed     the stream's operations, and that registry and threads hold *)
(*             handles which exist, under the handle's own id;             *)
(*   Taken     the epoch of a launched kernel has been taken (TokensUnique);*)
(*   Findable  of every kernel still to run, and of every live group: the  *)
(*             last fill of its block in front of it, or the block itself  *)
(*             when there is none, has its ranks (KernelsReadTheirRanks);  *)
(*   Dropped   what shutdown's loop has passed, unless the registry has    *)
(*             grown under it, has lost its list (ShutdownDropsLists).     *)
(***************************************************************************)
EXTENDS HostRuntime, FiniteSetTheorems, TLAPS

Op ==
    [kind : {"fill"}, block : Block, ranks : RankList]
      \cup [kind : {"kernel"}, block : Block, ranks : RankList, gid : Gid, epoch : Nat]

\* A thread's handle exists.
Pointing == \A t \in Thread : p2p[t] # NoHandle => p2p[t] \in DOMAIN handles

\* shutdown's loop is at a handle that exists, and knows no newer one.
Walking ==
    /\ walk.last \in 0 .. Len(handles)
    /\ walk.newest \in 0 .. Len(handles)
    /\ closing = "dropping" => walk.last # NoHandle

Typed ==
    /\ TypeOK
    /\ stream \in Seq(Op)
    /\ Len(handles) \in 0 .. MaxHandles
    /\ \A g \in Gid : registered[g] # NoHandle =>
          registered[g] \in DOMAIN handles /\ handles[registered[g]].gid = g
    /\ Pointing
    /\ Walking

Taken == \A i \in Kernels : stream[i].epoch < epochs[stream[i].gid]

\* In front of position n of the stream no later operation fills block b.
NoFill(from, n, b) ==
    \A k \in from .. n - 1 : ~ (stream[k].kind = "fill" /\ stream[k].block = b)

\* The operation at position n will find rank list rt in block b.
Finds(n, b, rt) ==
    \/ /\ NoFill(executed + 1, n, b)
       /\ content[b] = rt
    \/ \E f \in executed + 1 .. n - 1 :
          /\ stream[f].kind = "fill" /\ stream[f].block = b /\ stream[f].ranks = rt
          /\ NoFill(f + 1, n, b)

KernelsFind ==
    \A i \in Kernels : i > executed => Finds(i, stream[i].block, stream[i].ranks)
LiveFind ==
    \A h \in DOMAIN handles :
        Live(h) => Finds(Len(stream) + 1, handles[h].ranks_dev, handles[h].ranks)
Findable == KernelsFind /\ LiveFind

\* The loop has dropped the lists up to the handle it is at; in its body, that
\* handle's own list is still to be dropped.
Dropped ==
    closing \in {"walking", "dropping"} /\ ~ Rebuilt =>
        \A h \in DOMAIN handles :
            Live(h) => h > walk.last \/ (closing = "dropping" /\ h = walk.last)

Lists == LiveIffRegistered /\ Dropped /\ ShutdownDropsLists

IInv == Typed /\ Taken /\ TokensUnique /\ Lists /\ Findable

-----------------------------------------------------------------------------
\* The parts of Typed, as the steps below use them.
LEMMA TypeFacts ==
    ASSUME Typed
    PROVE  /\ Len(stream) \in Nat /\ DOMAIN stream = 1 .. Len(stream)
           /\ executed \in Nat /\ executed <= Len(stream)
           /\ Len(handles) \in Nat /\ DOMAIN handles = 1 .. Len(handles)
           /\ \A h \in DOMAIN handles : handles[h] \in Descriptor /\ h \in Handle
           /\ \A g \in Gid : epochs[g] \in Nat
           /\ \A i \in DOMAIN stream : stream[i] \in Op
           /\ walk \in Walk /\ walk.last \in Nat /\ walk.newest \in Nat
           /\ walk.last <= Len(handles) /\ walk.newest <= Len(handles)
  BY BoundsAssumption DEF Typed, TypeOK, Handle, Walking

\* The descriptors, the registry and shutdown's loop stay as they are.
LEMMA ListsKept ==
    ASSUME Lists, UNCHANGED <<handles, registered, closing, walk>>
    PROVE  Lists'
  BY DEF Lists, LiveIffRegistered, Dropped, ShutdownDropsLists, Live, Held, Rebuilt

\* Every operation has its fields.
LEMMA OpFields ==
    ASSUME NEW op \in Op
    PROVE  /\ op.kind \in {"fill", "kernel"} /\ op.block \in Block /\ op.ranks \in RankList
           /\ op.kind = "kernel" => op.gid \in Gid /\ op.epoch \in Nat
  BY DEF Op

\* A sequence behind another.
LEMMA Appended ==
    ASSUME NEW S, NEW s \in Seq(S), NEW t \in Seq(S)
    PROVE  /\ s \o t \in Seq(S)
           /\ Len(s \o t) = Len(s) + Len(t)
           /\ \A i \in 1 .. Len(s) : (s \o t)[i] = s[i]
           /\ \A i \in 1 .. Len(t) : (s \o t)[Len(s) + i] = t[i]
  OBVIOUS

\* The invariant holds before anything has been registered.
LEMMA InitInv == Init => IInv
<1> SUFFICES ASSUME Init PROVE IInv
  OBVIOUS
<1>1. handles \in Seq(Descriptor) /\ stream \in Seq(Op) /\ Len(handles) = 0 /\ Len(stream) = 0
  BY DEF Init
<1>2. TypeOK
  BY <1>1, BoundsAssumption DEF Init, TypeOK, Handle, Walk, NoHandle, Phase
<1>3. Typed
  BY <1>1, <1>2, BoundsAssumption DEF Init, Typed, Pointing, Walking, NoHandle
<1>4. Taken /\ TokensUnique /\ Lists /\ Findable
  BY DEF Init, Taken, TokensUnique, Lists, LiveIffRegistered, Dropped, ShutdownDropsLists,
         Findable, KernelsFind, LiveFind, Kernels
<1>5. QED
  BY <1>3, <1>4 DEF IInv

-----------------------------------------------------------------------------
\* What is appended to the stream leaves what is found in front of it, and what
\* is found behind it when none of it fills the block.
LEMMA FindsExtended ==
    ASSUME Typed, NEW t \in Seq(Op), stream' = stream \o t, UNCHANGED <<executed, content>>,
           NEW b, NEW rt, NEW n \in 1 .. Len(stream) + Len(t) + 1,
           \A k \in 1 .. n - 1 - Len(stream) : ~ (t[k].kind = "fill" /\ t[k].block = b),
           Finds(IF n <= Len(stream) THEN n ELSE Len(stream) + 1, b, rt)
    PROVE  Finds(n, b, rt)'
<1> DEFINE m == IF n <= Len(stream) THEN n ELSE Len(stream) + 1
<1>1. /\ Len(stream) \in Nat /\ Len(t) \in Nat /\ executed \in Nat
      /\ \A i \in 1 .. Len(stream) : stream'[i] = stream[i]
      /\ \A i \in 1 .. Len(t) : stream'[Len(stream) + i] = t[i]
  BY TypeFacts, Appended DEF Typed
<1>2. ASSUME NEW k \in m .. n - 1
      PROVE  ~ (stream'[k].kind = "fill" /\ stream'[k].block = b)
  <2>1. k - Len(stream) \in 1 .. n - 1 - Len(stream) /\ k - Len(stream) \in 1 .. Len(t)
    BY <1>1, <1>2
  <2>2. stream'[k] = t[k - Len(stream)]
    BY <1>1, <2>1
  <2>3. QED
    BY <2>1, <2>2
<1>3. ASSUME NEW from \in Nat \ {0}, NoFill(from, m, b) PROVE NoFill(from, n, b)'
  <2> SUFFICES ASSUME NEW k \in from .. n - 1
               PROVE  ~ (stream'[k].kind = "fill" /\ stream'[k].block = b)
    BY DEF NoFill
  <2>1. CASE k < m
    BY <1>1, <1>3, <2>1 DEF NoFill
  <2>2. CASE k >= m
    BY <1>1, <1>2, <2>2
  <2>3. QED
    BY <1>1, <2>1, <2>2
<1>4. CASE NoFill(executed + 1, m, b) /\ content[b] = rt
  BY <1>1, <1>3, <1>4 DEF Finds
<1>5. ASSUME NEW f \in executed + 1 .. m - 1,
             stream[f].kind = "fill" /\ stream[f].block = b /\ stream[f].ranks = rt,
             NoFill(f + 1, m, b)
      PROVE  Finds(n, b, rt)'
  <2>1. f \in executed' + 1 .. n - 1 /\ f \in 1 .. Len(stream) /\ f + 1 \in Nat \ {0}
    BY <1>1
  <2>2. NoFill(f + 1, n, b)'
    BY <1>3, <1>5, <2>1
  <2>3. stream'[f] = stream[f]
    BY <1>1, <2>1
  <2>4. QED
    BY <1>5, <2>1, <2>2, <2>3 DEF Finds
<1>6. QED
  BY <1>4, <1>5 DEF Finds

\* Running an operation leaves what is found behind it.
LEMMA FindsExecuted ==
    ASSUME Typed, Execute, NEW b \in Block, NEW rt, NEW n \in executed + 2 .. Len(stream) + 1,
           Finds(n, b, rt)
    PROVE  Finds(n, b, rt)'
<1> DEFINE op == stream[executed + 1]
<1>1. /\ executed \in Nat /\ Len(stream) \in Nat /\ executed + 1 \in 1 .. Len(stream)
      /\ executed' = executed + 1 /\ stream' = stream
      /\ content \in [Block -> RankList \cup {NoRanks}]
      /\ content' = IF op.kind = "fill" THEN [content EXCEPT ![op.block] = op.ranks] ELSE content
  BY TypeFacts DEF Execute, Typed, TypeOK
<1>2. CASE NoFill(executed + 1, n, b) /\ content[b] = rt
  <2>1. ~ (op.kind = "fill" /\ op.block = b)
    BY <1>1, <1>2 DEF NoFill
  <2>2. content'[b] = rt
    BY <1>1, <1>2, <2>1
  <2>3. QED
    BY <1>1, <1>2, <2>2 DEF Finds, NoFill
<1>3. ASSUME NEW f \in executed + 1 .. n - 1,
             stream[f].kind = "fill" /\ stream[f].block = b /\ stream[f].ranks = rt,
             NoFill(f + 1, n, b)
      PROVE  Finds(n, b, rt)'
  <2>1. CASE f = executed + 1
    <3>1. content'[b] = rt
      BY <1>1, <1>3, <2>1
    <3>2. QED
      BY <1>1, <1>3, <2>1, <3>1 DEF Finds, NoFill
  <2>2. CASE f # executed + 1
    BY <1>1, <1>3, <2>2 DEF Finds, NoFill
  <2>3. QED
    BY <2>1, <2>2
<1>4. QED
  BY <1>2, <1>3 DEF Finds

-----------------------------------------------------------------------------
\* A group that is made live, or one that the rank is not in.
LEMMA CreateKeeps ==
    ASSUME IInv, NEW rt \in RankList, NEW g \in Gid, Create(rt, g), Pointing',
           p2p' \in [Thread -> Handle \cup {NoHandle}]
    PROVE  IInv'
<1> DEFINE new == Len(handles) + 1
           d == handles'[new]
<1>1. /\ Typed /\ TypeOK /\ Taken /\ TokensUnique /\ Lists /\ Findable
      /\ stream \in Seq(Op) /\ handles \in Seq(Descriptor)
      /\ registered[g] = NoHandle /\ Len(handles) < MaxHandles
      /\ registered' = [registered EXCEPT ![g] = new]
      /\ UNCHANGED <<epochs, closing, walk, executed, content>>
  BY DEF IInv, Create, AllocGroupRanks, Typed, TypeOK, shutdown
<1>2. /\ handles' \in Seq(Descriptor) /\ Len(handles') = new
      /\ DOMAIN handles' = DOMAIN handles \cup {new} /\ new \in Handle /\ new \notin DOMAIN handles
      /\ \A h \in DOMAIN handles : handles'[h] = handles[h]
      /\ d.gid = g /\ d.ranks = rt
      /\ d.ranks_dev # NoBlock <=> rt \notin Foreign
      /\ d.ranks_dev # NoBlock => d.ranks_dev \in Block /\ ~ InUse(d.ranks_dev)
  <2>1. PICK b \in Block \cup {NoBlock} :
            /\ handles' = Append(handles, [gid |-> g, ranks |-> rt, ranks_dev |-> b])
            /\ b # NoBlock <=> rt \notin Foreign
            /\ b # NoBlock => ~ InUse(b)
    BY <1>1, BlockAssumption DEF Create
  <2>2. [gid |-> g, ranks |-> rt, ranks_dev |-> b] \in Descriptor
    BY DEF Descriptor
  <2>3. QED
    BY <1>1, <2>1, <2>2, TypeFacts, BoundsAssumption DEF Handle
<1>3. PICK t \in Seq(Op) :
          /\ stream' = stream \o t
          /\ \A k \in 1 .. Len(t) : t[k].kind = "fill"
          /\ d.ranks_dev = NoBlock => Len(t) = 0
          /\ d.ranks_dev # NoBlock => t = <<Fill(d.ranks_dev, rt)>>
  <2>1. CASE d.ranks_dev = NoBlock
    <3>1. stream' = stream
      BY <1>2, <2>1 DEF Create
    <3>2. << >> \in Seq(Op) /\ stream \o << >> = stream /\ Len(<< >>) = 0
      BY <1>1
    <3>3. \A k \in 1 .. Len(<< >>) : << >>[k].kind = "fill"
      BY <3>2
    <3>4. QED
      BY <2>1, <3>1, <3>2, <3>3
  <2>2. CASE d.ranks_dev # NoBlock
    <3>1. PICK b \in Block : /\ handles' = Append(handles, [gid |-> g, ranks |-> rt, ranks_dev |-> b])
                             /\ stream' = Append(stream, Fill(b, rt))
      BY <1>2, <2>2 DEF Create, AllocGroupRanks
    <3>2. b = d.ranks_dev
      BY <1>1, <3>1
    <3>3. Fill(b, rt) \in Op /\ Fill(b, rt).kind = "fill"
      BY DEF Fill, Op
    <3>4. stream' = stream \o <<Fill(b, rt)>> /\ <<Fill(b, rt)>> \in Seq(Op)
      BY <1>1, <3>1, <3>3
    <3>5. \A k \in 1 .. Len(<<Fill(b, rt)>>) : <<Fill(b, rt)>>[k].kind = "fill"
      BY <3>3
    <3>6. QED
      BY <2>2, <3>2, <3>4, <3>5
  <2>3. QED
    BY <2>1, <2>2
<1>4. /\ stream' \in Seq(Op) /\ Len(stream') = Len(stream) + Len(t)
      /\ \A i \in DOMAIN stream : i \in DOMAIN stream' /\ stream'[i] = stream[i]
      /\ Kernels' = Kernels
  <2>1. /\ stream' \in Seq(Op) /\ Len(stream') = Len(stream) + Len(t)
        /\ \A i \in 1 .. Len(stream) : stream'[i] = stream[i]
        /\ \A i \in 1 .. Len(t) : stream'[Len(stream) + i] = t[i]
    BY <1>1, <1>3, Appended
  <2>2. \A i \in DOMAIN stream' : i \in DOMAIN stream \/ i - Len(stream) \in 1 .. Len(t)
    BY <1>1, <2>1
  <2>3. \A i \in DOMAIN stream' : i \notin DOMAIN stream => stream'[i].kind = "fill"
    BY <1>1, <1>3, <2>1, <2>2
  <2>4. \A i \in DOMAIN stream : i \in DOMAIN stream' /\ stream'[i] = stream[i]
    BY <1>1, <2>1, TypeFacts
  <2>5. Kernels' = Kernels
    BY <2>3, <2>4 DEF Kernels
  <2>6. QED
    BY <2>1, <2>4, <2>5
<1>5. Typed'
  <2>1. /\ registered' \in [Gid -> Handle \cup {NoHandle}]
        /\ \A x \in Gid : registered'[x] # NoHandle =>
              registered'[x] \in DOMAIN handles' /\ handles'[registered'[x]].gid = x
    BY <1>1, <1>2 DEF Typed, TypeOK
  <2>2. \A i \in DOMAIN stream' : stream'[i].block \in Block /\ stream'[i].ranks \in RankList
    BY <1>4, OpFields
  <2>3. executed' \in 0 .. Len(stream')
    BY <1>1, <1>3, <1>4 DEF TypeOK
  <2>4. TypeOK'
    BY <1>1, <1>2, <2>1, <2>2, <2>3 DEF TypeOK
  <2>5. Len(handles') \in 0 .. MaxHandles
    BY <1>1, <1>2, TypeFacts, BoundsAssumption
  <2>6. Walking'
    BY <1>1, <1>2, TypeFacts DEF Typed, Walking
  <2>7. QED
    BY <1>4, <2>1, <2>4, <2>5, <2>6 DEF Typed
<1>6. Taken' /\ TokensUnique'
  BY <1>1, <1>4 DEF Taken, TokensUnique, Kernels
<1>7. Lists'
  <2>1. \A h \in DOMAIN handles : Held(h) => handles[h].gid # g
    BY <1>1, TypeFacts DEF Held, NoHandle
  <2>2. \A h \in DOMAIN handles : handles[h].gid = g => registered'[g] # h
    BY <1>1, <1>2, TypeFacts DEF Typed, TypeOK
  <2>3. \A h \in DOMAIN handles : (Held(h)' <=> Held(h)) /\ (Live(h)' <=> Live(h))
    BY <1>1, <1>2, <2>1, <2>2 DEF TypeOK, Held, Live
  <2>4. \A h \in DOMAIN handles' : h = new => Held(h)' /\ (Live(h)' <=> rt \notin Foreign)
    BY <1>1, <1>2 DEF TypeOK, Held, Live
  <2>5. ASSUME NEW h \in DOMAIN handles'
        PROVE  /\ Live(h)' => handles'[h].ranks \notin Foreign
               /\ Live(h)' /\ ~ Held(h)' => closing' \in {"cleared", "closed"}
               /\ Held(h)' /\ ~ Live(h)' /\ handles'[h].ranks \notin Foreign =>
                     h <= walk'.newest \/ h <= walk'.last
    <3>1. CASE h = new
      BY <1>2, <2>4, <3>1
    <3>2. CASE h \in DOMAIN handles
      BY <1>1, <1>2, <2>3, <3>2 DEF Lists, LiveIffRegistered
    <3>3. QED
      BY <1>2, <3>1, <3>2
  <2>6. ASSUME NEW h \in DOMAIN handles', NEW k \in DOMAIN handles', h # k, Live(h)'
        PROVE  handles'[h].ranks_dev # handles'[k].ranks_dev
    <3>1. CASE h # new /\ k # new
      BY <1>1, <1>2, <2>6, <3>1 DEF Lists, LiveIffRegistered, Live
    <3>2. CASE h = new
      BY <1>2, <2>6, <3>2 DEF InUse, Live
    <3>3. CASE k = new
      BY <1>2, <2>6, <3>3 DEF InUse, Live
    <3>4. QED
      BY <3>1, <3>2, <3>3
  <2>7. LiveIffRegistered'
    BY <2>5, <2>6 DEF LiveIffRegistered
  <2>8. Len(handles') > walk'.newest /\ Rebuilt'
    BY <1>1, <1>2, TypeFacts DEF Rebuilt
  <2>9. QED
    BY <2>7, <2>8 DEF Lists, Dropped, ShutdownDropsLists
<1>8. KernelsFind'
  <2> SUFFICES ASSUME NEW i \in Kernels, i > executed
               PROVE  Finds(i, stream[i].block, stream[i].ranks)'
    BY <1>1, <1>4 DEF KernelsFind, Kernels
  <2>1. i \in 1 .. Len(stream)
    BY <1>1, TypeFacts DEF Kernels
  <2>2. Finds(i, stream[i].block, stream[i].ranks)
    BY <1>1 DEF Findable, KernelsFind
  <2>3. /\ i \in 1 .. Len(stream) + Len(t) + 1 /\ i <= Len(stream)
        /\ \A m \in 1 .. i - 1 - Len(stream) : FALSE
    BY <1>1, <1>3, <2>1, TypeFacts
  <2>4. stream'[i] = stream[i]
    BY <1>4, <2>1, <1>1, TypeFacts
  <2>5. QED
    BY <1>1, <1>3, <2>2, <2>3, <2>4, FindsExtended
<1>9. LiveFind'
  <2> SUFFICES ASSUME NEW h \in DOMAIN handles', handles'[h].ranks_dev # NoBlock
               PROVE  Finds(Len(stream) + 1, handles[h].ranks_dev, handles[h].ranks)'
    BY DEF LiveFind, Live
  <2>1. CASE h = new
    <3>1. Len(t) = 1 /\ t[1] = Fill(d.ranks_dev, rt) /\ stream'[Len(stream) + 1] = t[1]
      <4>1. t = <<Fill(d.ranks_dev, rt)>>
        BY <1>3, <2>1
      <4>2. Len(t) = 1 /\ t[1] = Fill(d.ranks_dev, rt)
        BY <4>1
      <4>3. \A i \in 1 .. Len(t) : stream'[Len(stream) + i] = t[i]
        BY <1>1, <1>3, Appended
      <4>4. QED
        BY <4>2, <4>3
    <3>2. Len(stream) + 1 \in executed' + 1 .. Len(stream') /\ Len(stream') = Len(stream) + 1
      BY <1>1, <1>4, <3>1, TypeFacts
    <3>3. \A k \in Len(stream) + 2 .. Len(stream') : FALSE
      BY <1>1, <3>2, TypeFacts
    <3>4. /\ stream'[Len(stream) + 1].kind = "fill"
          /\ stream'[Len(stream) + 1].block = d.ranks_dev
          /\ stream'[Len(stream) + 1].ranks = rt
      BY <3>1 DEF Fill
    <3>5. /\ Len(stream) + 1 \in executed' + 1 .. Len(stream') + 1 - 1
          /\ (Len(stream) + 1) + 1 = Len(stream) + 2
          /\ \A k \in (Len(stream) + 1) + 1 .. Len(stream') + 1 - 1 : FALSE
      BY <1>1, <3>2, <3>3, TypeFacts
    <3>6. QED
      BY <1>2, <2>1, <3>4, <3>5 DEF Finds, NoFill
  <2>2. CASE h # new
    <3>1. h \in DOMAIN handles /\ handles'[h] = handles[h] /\ handles[h].ranks_dev # NoBlock
      BY <1>2, <2>2
    <3>2. Finds(Len(stream) + 1, handles[h].ranks_dev, handles[h].ranks)
      BY <1>1, <3>1 DEF Findable, LiveFind, Live
    <3>3. \A k \in 1 .. Len(t) : ~ (t[k].kind = "fill" /\ t[k].block = handles[h].ranks_dev)
      <4>1. CASE d.ranks_dev = NoBlock
        BY <1>3, <4>1
      <4>2. CASE d.ranks_dev # NoBlock
        BY <1>2, <1>3, <3>1, <4>2 DEF InUse, Fill
      <4>3. QED
        BY <4>1, <4>2
    <3>4. Len(stream') + 1 \in 1 .. Len(stream) + Len(t) + 1 /\ Len(t) \in Nat /\ Len(stream) \in Nat
      BY <1>1, <1>4, TypeFacts
    <3>5. PICK n : n = Len(stream') + 1
      OBVIOUS
    <3>6. /\ n \in 1 .. Len(stream) + Len(t) + 1 /\ ~ n <= Len(stream)
          /\ \A k \in 1 .. n - 1 - Len(stream) : k \in 1 .. Len(t)
      BY <1>4, <3>4, <3>5
    <3>7. ASSUME NEW b, NEW r, b = handles[h].ranks_dev, r = handles[h].ranks
          PROVE  Finds(n, b, r)'
      BY <1>1, <1>3, <3>2, <3>3, <3>6, <3>7, FindsExtended
    <3>8. QED
      BY <3>1, <3>5, <3>7
  <2>3. QED
    BY <2>1, <2>2
<1>10. QED
  BY <1>5, <1>6, <1>7, <1>8, <1>9 DEF IInv, Findable

\* A call takes k epochs and launches k kernels for a live group.
LEMMA LaunchKeeps ==
    ASSUME IInv, NEW h \in DOMAIN handles, handles[h].ranks_dev # NoBlock, NEW k \in 1 .. 3,
           epochs[handles[h].gid] + k <= MaxEpoch,
           epochs' = [epochs EXCEPT ![handles[h].gid] = @ + k],
           stream' = stream \o [i \in 1 .. k |-> Kernel(h, epochs[handles[h].gid] + i - 1)],
           UNCHANGED <<handles, registered, executed, content, closing, walk>>,
           Pointing', p2p' \in [Thread -> Handle \cup {NoHandle}]
    PROVE  IInv'
<1> DEFINE g == handles[h].gid
           t == [i \in 1 .. k |-> Kernel(h, epochs[g] + i - 1)]
<1>1. /\ Typed /\ TypeOK /\ Taken /\ TokensUnique /\ Lists /\ Findable
      /\ stream \in Seq(Op) /\ g \in Gid /\ epochs[g] \in Nat
      /\ handles[h].ranks_dev \in Block /\ handles[h].ranks \in RankList
  BY TypeFacts DEF IInv, Typed, TypeOK, Descriptor
<1>2. /\ t \in Seq(Op) /\ Len(t) = k
      /\ \A i \in 1 .. k : /\ t[i].kind = "kernel" /\ t[i].gid = g /\ t[i].epoch = epochs[g] + i - 1
                            /\ t[i].block = handles[h].ranks_dev /\ t[i].ranks = handles[h].ranks
  <2>1. \A i \in 1 .. k : epochs[g] + i - 1 \in Nat
    BY <1>1
  <2>2. \A i \in 1 .. k : Kernel(h, epochs[g] + i - 1) \in Op
    BY <1>1, <2>1 DEF Kernel, Op
  <2>3. t \in Seq(Op) /\ Len(t) = k
    BY <2>2
  <2>4. QED
    BY <2>3 DEF Kernel
<1> HIDE DEF t
<1>3. /\ stream' \in Seq(Op) /\ Len(stream') = Len(stream) + k /\ Len(stream) \in Nat
      /\ DOMAIN stream = 1 .. Len(stream) /\ DOMAIN stream' = 1 .. Len(stream) + k
      /\ \A i \in 1 .. Len(stream) : stream'[i] = stream[i]
      /\ \A i \in 1 .. k : stream'[Len(stream) + i] = t[i]
  <2>1. stream' = stream \o t
    BY DEF t
  <2>2. Len(stream) \in Nat /\ DOMAIN stream = 1 .. Len(stream)
    BY <1>1, TypeFacts
  <2>3. /\ stream \o t \in Seq(Op) /\ Len(stream \o t) = Len(stream) + Len(t)
        /\ \A i \in 1 .. Len(stream) : (stream \o t)[i] = stream[i]
        /\ \A i \in 1 .. Len(t) : (stream \o t)[Len(stream) + i] = t[i]
    <3>1. stream \in Seq(Op) /\ t \in Seq(Op)
      BY <1>1, <1>2
    <3>2. QED
      BY <3>1, Appended
  <2>4. /\ stream' \in Seq(Op) /\ Len(stream') = Len(stream) + k
        /\ \A i \in 1 .. Len(stream) : stream'[i] = stream[i]
        /\ \A i \in 1 .. k : stream'[Len(stream) + i] = t[i]
    BY <1>2, <2>1, <2>3, Zenon
  <2>5. DOMAIN stream' = 1 .. Len(stream) + k
    BY <2>4
  <2>6. QED
    BY <2>2, <2>4, <2>5
<1>4. \A i \in DOMAIN stream' : i \in DOMAIN stream \/ \E n \in 1 .. k : i = Len(stream) + n
  <2> SUFFICES ASSUME NEW i \in DOMAIN stream', i \notin DOMAIN stream
               PROVE  \E n \in 1 .. k : i = Len(stream) + n
    OBVIOUS
  <2>1. i - Len(stream) \in 1 .. k /\ i = Len(stream) + (i - Len(stream))
    BY <1>3
  <2>2. QED
    BY <2>1
<1>5. /\ \A i \in DOMAIN stream : i \in DOMAIN stream' /\ stream'[i] = stream[i]
      /\ \A n \in 1 .. k : Len(stream) + n \in DOMAIN stream' /\ stream'[Len(stream) + n] = t[n]
      /\ \A n \in 1 .. k : Len(stream) + n \notin DOMAIN stream
  <2>1. \A i \in DOMAIN stream : i \in DOMAIN stream' /\ stream'[i] = stream[i]
    BY <1>3
  <2>2. \A n \in 1 .. k : Len(stream) + n \in 1 .. Len(stream) + k /\ Len(stream) + n \notin 1 .. Len(stream)
    BY <1>3
  <2>3. QED
    BY <1>3, <2>1, <2>2
<1>6. /\ \A i \in Kernels : i \in DOMAIN stream /\ i \in Kernels' /\ stream'[i] = stream[i]
      /\ \A i \in Kernels' : i \in Kernels \/ \E n \in 1 .. k : i = Len(stream) + n
      /\ \A n \in 1 .. k : Len(stream) + n \notin Kernels
  BY <1>4, <1>5 DEF Kernels
<1>7. /\ epochs' \in [Gid -> 0 .. MaxEpoch] /\ epochs'[g] = epochs[g] + k
      /\ \A x \in Gid : epochs[x] \in Nat /\ epochs'[x] \in Nat /\ epochs'[x] >= epochs[x]
  <2>1. epochs \in [Gid -> 0 .. MaxEpoch] /\ MaxEpoch \in Nat
    BY <1>1, BoundsAssumption DEF TypeOK
  <2>2. epochs[g] + k \in 0 .. MaxEpoch
    BY <1>1, <2>1
  <2>3. /\ epochs' \in [Gid -> 0 .. MaxEpoch] /\ epochs'[g] = epochs[g] + k
        /\ \A x \in Gid : x # g => epochs'[x] = epochs[x]
    BY <1>1, <2>1, <2>2
  <2>4. \A x \in Gid : epochs[x] \in Nat /\ epochs'[x] \in Nat
    BY <2>1, <2>3
  <2>5. QED
    BY <2>3, <2>4
<1>8. Typed'
  <2>1. \A i \in DOMAIN stream' : stream'[i].block \in Block /\ stream'[i].ranks \in RankList
    BY <1>3, OpFields
  <2>2. executed' \in 0 .. Len(stream')
    BY <1>1, <1>3, TypeFacts
  <2>3. TypeOK'
    BY <1>1, <1>7, <2>1, <2>2 DEF TypeOK
  <2>4. QED
    BY <1>1, <1>3, <2>3 DEF Typed, Walking
<1>9. Taken'
  <2> SUFFICES ASSUME NEW i \in Kernels' PROVE stream'[i].epoch < epochs'[stream'[i].gid]
    BY DEF Taken
  <2>1. CASE i \in Kernels
    <3>1. stream[i].gid \in Gid /\ stream[i].epoch \in Nat /\ stream[i].epoch < epochs[stream[i].gid]
      BY <1>1, <2>1, TypeFacts, OpFields DEF Taken, Kernels
    <3>2. stream[i].epoch < epochs'[stream[i].gid]
      BY <1>7, <3>1
    <3>3. QED
      BY <1>6, <2>1, <3>2
  <2>2. CASE \E n \in 1 .. k : i = Len(stream) + n
    <3>1. PICK n \in 1 .. k : i = Len(stream) + n
      BY <2>2
    <3>2. stream'[i].gid = g /\ stream'[i].epoch = epochs[g] + n - 1
      BY <1>2, <1>5, <3>1
    <3>3. epochs[g] + n - 1 < epochs[g] + k
      BY <1>1
    <3>4. QED
      BY <1>7, <3>2, <3>3
  <2>3. QED
    BY <1>6, <2>1, <2>2
<1>10. TokensUnique'
  <2> SUFFICES ASSUME NEW i \in Kernels', NEW j \in Kernels', i # j,
                      stream'[i].gid = stream'[j].gid, stream'[i].epoch = stream'[j].epoch
               PROVE  FALSE
    BY DEF TokensUnique
  <2>1. \A x \in Kernels : stream[x].gid = g => stream[x].epoch < epochs[g] /\ stream[x].epoch \in Nat
    BY <1>1, TypeFacts, OpFields DEF Taken, Kernels
  <2>2. \A n \in 1 .. k : /\ stream'[Len(stream) + n].gid = g
                          /\ stream'[Len(stream) + n].epoch = epochs[g] + n - 1
    BY <1>2, <1>5
  <2>3. CASE i \in Kernels /\ j \in Kernels
    BY <1>1, <1>6, <2>3 DEF TokensUnique
  <2>4. ASSUME NEW x \in Kernels, NEW n \in 1 .. k, stream[x].gid = g, stream[x].epoch = epochs[g] + n - 1
        PROVE  FALSE
    BY <1>1, <2>1, <2>4
  <2>5. CASE i \in Kernels /\ j \notin Kernels
    <3>1. PICK n \in 1 .. k : j = Len(stream) + n
      BY <1>6, <2>5
    <3>2. stream'[j].gid = g /\ stream'[j].epoch = epochs[g] + n - 1
      BY <2>2, <3>1
    <3>3. stream[i].gid = g /\ stream[i].epoch = epochs[g] + n - 1
      BY <1>6, <2>5, <3>2
    <3>4. QED
      BY <2>4, <2>5, <3>3
  <2>6. CASE i \notin Kernels /\ j \in Kernels
    <3>1. PICK n \in 1 .. k : i = Len(stream) + n
      BY <1>6, <2>6
    <3>2. stream'[i].gid = g /\ stream'[i].epoch = epochs[g] + n - 1
      BY <2>2, <3>1
    <3>3. stream[j].gid = g /\ stream[j].epoch = epochs[g] + n - 1
      BY <1>6, <2>6, <3>2
    <3>4. QED
      BY <2>4, <2>6, <3>3
  <2>7. CASE i \notin Kernels /\ j \notin Kernels
    <3>1. PICK n \in 1 .. k, m \in 1 .. k : i = Len(stream) + n /\ j = Len(stream) + m
      BY <1>6, <2>7
    <3>2. stream'[i].epoch = epochs[g] + n - 1 /\ stream'[j].epoch = epochs[g] + m - 1
      BY <2>2, <3>1
    <3>3. epochs[g] + n - 1 = epochs[g] + m - 1
      BY <3>2
    <3>4. n = m
      BY <1>1, <3>3
    <3>5. QED
      BY <3>1, <3>4
  <2>8. QED
    BY <2>3, <2>5, <2>6, <2>7
<1>11. Lists'
  BY <1>1, ListsKept
<1>12. ASSUME NEW x \in DOMAIN handles, handles[x].ranks_dev # NoBlock,
              NEW n \in Len(stream) + 1 .. Len(stream) + k + 1
       PROVE  Finds(n, handles[x].ranks_dev, handles[x].ranks)'
  <2>1. Finds(Len(stream) + 1, handles[x].ranks_dev, handles[x].ranks)
    BY <1>1, <1>12 DEF Findable, LiveFind, Live
  <2>2. \A m \in 1 .. n - 1 - Len(stream) : ~ (t[m].kind = "fill" /\ t[m].block = handles[x].ranks_dev)
    BY <1>2, <1>3, <1>12
  <2>3. n \in 1 .. Len(stream) + Len(t) + 1 /\ ~ n <= Len(stream)
    BY <1>2, <1>3, <1>12
  <2>4. QED
    BY <1>1, <1>2, <2>1, <2>2, <2>3, FindsExtended DEF t
<1>13. LiveFind'
  <2> SUFFICES ASSUME NEW x \in DOMAIN handles, handles[x].ranks_dev # NoBlock
               PROVE  Finds(Len(stream) + 1, handles[x].ranks_dev, handles[x].ranks)'
    BY DEF LiveFind, Live
  <2>1. PICK n : n = Len(stream') + 1 /\ n \in Len(stream) + 1 .. Len(stream) + k + 1
    BY <1>3
  <2>2. Finds(n, handles[x].ranks_dev, handles[x].ranks)'
    BY <1>12, <2>1
  <2>3. QED
    BY <2>1, <2>2
<1>14. KernelsFind'
  <2> SUFFICES ASSUME NEW i \in Kernels', i > executed
               PROVE  Finds(i, stream[i].block, stream[i].ranks)'
    BY DEF KernelsFind
  <2>1. CASE i \in Kernels
    <3>1. i \in 1 .. Len(stream) /\ i \in 1 .. Len(stream) + Len(t) + 1 /\ i <= Len(stream)
      BY <1>2, <1>3, <2>1 DEF Kernels
    <3>2. Finds(i, stream[i].block, stream[i].ranks)
      BY <1>1, <2>1 DEF Findable, KernelsFind
    <3>3. \A m \in 1 .. i - 1 - Len(stream) : FALSE
      BY <1>3, <3>1
    <3>4. QED
      BY <1>1, <1>2, <1>3, <3>1, <3>2, <3>3, FindsExtended DEF t
  <2>2. CASE \E n \in 1 .. k : i = Len(stream) + n
    <3>1. PICK n \in 1 .. k : i = Len(stream) + n
      BY <2>2
    <3>2. stream'[i].block = handles[h].ranks_dev /\ stream'[i].ranks = handles[h].ranks
      BY <1>2, <1>3, <3>1
    <3>3. i \in Len(stream) + 1 .. Len(stream) + k + 1
      BY <1>3, <3>1
    <3>4. QED
      BY <1>12, <3>2, <3>3
  <2>3. QED
    BY <1>6, <2>1, <2>2
<1>15. QED
  BY <1>8, <1>9, <1>10, <1>11, <1>13, <1>14 DEF IInv, Findable

\* A rank list is dropped.
LEMMA ListDropped ==
    ASSUME Typed, NEW h \in DOMAIN handles, handles' = [handles EXCEPT ![h].ranks_dev = NoBlock]
    PROVE  /\ handles' \in Seq(Descriptor) /\ DOMAIN handles' = DOMAIN handles
           /\ Len(handles') = Len(handles)
           /\ \A x \in DOMAIN handles :
                 handles'[x].gid = handles[x].gid /\ handles'[x].ranks = handles[x].ranks
           /\ \A x \in DOMAIN handles : x # h => handles'[x] = handles[x]
           /\ handles'[h].ranks_dev = NoBlock /\ ~ Live(h)'
           /\ \A x \in DOMAIN handles : Live(x)' <=> x # h /\ Live(x)
<1>1. handles \in Seq(Descriptor) /\ handles[h] \in Descriptor
  BY TypeFacts DEF Typed, TypeOK
<1>2. [handles[h] EXCEPT !.ranks_dev = NoBlock] \in Descriptor
  BY <1>1 DEF Descriptor
<1>3. QED
  BY <1>1, <1>2 DEF Descriptor, Live

\* Steps of the host that enqueue nothing and create nothing: lists may be dropped,
\* entries taken out of the registry, shutdown may go on.
LEMMA HostKeeps ==
    ASSUME IInv, handles' \in Seq(Descriptor), DOMAIN handles' = DOMAIN handles,
           Len(handles') = Len(handles),
           \A x \in DOMAIN handles :
              /\ handles'[x].gid = handles[x].gid /\ handles'[x].ranks = handles[x].ranks
              /\ Live(x)' => handles'[x] = handles[x],
           registered' \in [Gid -> Handle \cup {NoHandle}],
           \A g \in Gid : registered'[g] # NoHandle => registered'[g] = registered[g],
           UNCHANGED <<epochs, p2p, stream, executed, content>>,
           closing' \in Phase, walk' \in Walk, Walking', Lists'
    PROVE  IInv'
<1>1. Typed /\ TypeOK /\ Taken /\ TokensUnique /\ Findable
  BY DEF IInv, Typed
<1>2. TypeOK'
  BY <1>1 DEF TypeOK
<1>3. \A x \in Gid : registered'[x] # NoHandle =>
          registered'[x] \in DOMAIN handles' /\ handles'[registered'[x]].gid = x
  BY <1>1 DEF Typed
<1>4. Typed'
  BY <1>1, <1>2, <1>3 DEF Typed, Pointing
<1>5. Taken' /\ TokensUnique'
  BY <1>1 DEF Taken, TokensUnique, Kernels
<1>6. \A n, b, rt : Finds(n, b, rt)' <=> Finds(n, b, rt)
  BY DEF Finds, NoFill
<1>7. KernelsFind'
  BY <1>1, <1>6 DEF Findable, KernelsFind, Kernels
<1>8. ASSUME NEW h \in DOMAIN handles', Live(h)'
      PROVE  Finds(Len(stream) + 1, handles[h].ranks_dev, handles[h].ranks)'
  <2>1. handles'[h] = handles[h] /\ Live(h)
    BY <1>8 DEF Live
  <2>2. Finds(Len(stream) + 1, handles[h].ranks_dev, handles[h].ranks)
    BY <1>1, <2>1 DEF Findable, LiveFind
  <2>3. Finds(Len(stream) + 1, handles[h].ranks_dev, handles[h].ranks)'
                <=> Finds(Len(stream) + 1, handles[h].ranks_dev, handles[h].ranks)
    BY <2>1 DEF Finds, NoFill
  <2>4. QED
    BY <2>2, <2>3
<1>9. LiveFind'
  BY <1>8 DEF LiveFind
<1>10. QED
  BY <1>4, <1>5, <1>7, <1>9 DEF IInv, Findable

\* A handle that the registry holds is released.
LEMMA UnregisterKeeps ==
    ASSUME IInv, NEW h \in DOMAIN handles, UnregisterGroup(h)
    PROVE  IInv'
<1> DEFINE g == handles[h].gid
<1>1. /\ Typed /\ TypeOK /\ Walking /\ Lists /\ g \in Gid
      /\ handles' = [handles EXCEPT ![h].ranks_dev = NoBlock]
      /\ registered[g] = h /\ registered' = [registered EXCEPT ![g] = NoHandle]
      /\ UNCHANGED <<epochs, p2p, stream, executed, content, closing, walk>>
  BY TypeFacts DEF IInv, Typed, UnregisterGroup, Descriptor, shutdown
<1>2. registered \in [Gid -> Handle \cup {NoHandle}] /\ h # NoHandle
  BY <1>1, TypeFacts DEF TypeOK, NoHandle
<1>3. /\ registered' \in [Gid -> Handle \cup {NoHandle}]
      /\ \A x \in Gid : registered'[x] # NoHandle => registered'[x] = registered[x]
  BY <1>1, <1>2
<1>4. \A x \in DOMAIN handles : Held(x)' <=> x # h /\ Held(x)
  BY <1>1, <1>2, ListDropped, TypeFacts DEF Held, NoHandle, Descriptor
<1>5. Lists'
  BY <1>1, <1>4, ListDropped DEF Lists, LiveIffRegistered, Dropped, ShutdownDropsLists, Rebuilt, Live
<1>6. QED
  BY <1>1, <1>3, <1>5, ListDropped, HostKeeps DEF TypeOK, Walking

\* A descriptor that the registry has let go of loses its last reference.
LEMMA CollectKeeps ==
    ASSUME IInv, NEW h \in DOMAIN handles, Collect(h)
    PROVE  IInv'
<1>1. /\ Typed /\ TypeOK /\ Walking /\ Lists /\ ~ Held(h)
      /\ handles' = [handles EXCEPT ![h].ranks_dev = NoBlock]
      /\ UNCHANGED <<registered, epochs, p2p, stream, executed, content, closing, walk>>
  BY DEF IInv, Typed, Collect, shutdown
<1>2. \A x \in DOMAIN handles : Held(x)' <=> Held(x)
  BY <1>1, ListDropped DEF Held
<1>3. Lists'
  BY <1>1, <1>2, ListDropped DEF Lists, LiveIffRegistered, Dropped, ShutdownDropsLists, Rebuilt, Live
<1>4. QED
  BY <1>1, <1>3, ListDropped, HostKeeps DEF TypeOK, Walking

\* A p2p call whose group has lost its rank list takes its epochs all the same.
LEMMA LostLaunchKeeps ==
    ASSUME IInv, NEW g \in Gid, epochs[g] + 2 <= MaxEpoch, epochs' = [epochs EXCEPT ![g] = @ + 2],
           UNCHANGED <<handles, registered, stream, executed, content, closing, walk>>,
           Pointing', p2p' \in [Thread -> Handle \cup {NoHandle}]
    PROVE  IInv'
<1>1. Typed /\ TypeOK /\ Taken /\ TokensUnique /\ Lists /\ Findable
  BY DEF IInv, Typed
<1>2. /\ epochs' \in [Gid -> 0 .. MaxEpoch]
      /\ \A x \in Gid : epochs[x] \in Nat /\ epochs'[x] \in Nat /\ epochs'[x] >= epochs[x]
  BY <1>1, BoundsAssumption DEF TypeOK
<1>3. Typed'
  <2>1. TypeOK'
    BY <1>1, <1>2 DEF TypeOK
  <2>2. QED
    BY <1>1, <2>1 DEF Typed, Walking
<1>4. Taken'
  <2> SUFFICES ASSUME NEW i \in Kernels PROVE stream[i].epoch < epochs'[stream[i].gid]
    BY DEF Taken, Kernels
  <2>1. stream[i].gid \in Gid /\ stream[i].epoch \in Nat /\ stream[i].epoch < epochs[stream[i].gid]
    BY <1>1, TypeFacts, OpFields DEF Taken, Kernels
  <2>2. QED
    BY <1>2, <2>1
<1>5. TokensUnique' /\ Lists'
  BY <1>1, ListsKept DEF TokensUnique, Kernels
<1>6. Findable'
  BY <1>1 DEF Findable, KernelsFind, LiveFind, Live, Finds, NoFill, Kernels
<1>7. QED
  BY <1>3, <1>4, <1>5, <1>6 DEF IInv

\* The stream's next operation.
LEMMA ExecuteKeeps ==
    ASSUME IInv, Execute
    PROVE  IInv'
<1> DEFINE op == stream[executed + 1]
<1>1. /\ Typed /\ TypeOK /\ Taken /\ TokensUnique /\ Lists /\ Findable
      /\ executed < Len(stream) /\ executed' = executed + 1
      /\ content' = IF op.kind = "fill" THEN [content EXCEPT ![op.block] = op.ranks] ELSE content
      /\ UNCHANGED <<handles, registered, epochs, p2p, stream, closing, walk>>
  BY DEF IInv, Typed, Execute, shutdown
<1>2. /\ Len(stream) \in Nat /\ executed \in Nat /\ executed' \in 0 .. Len(stream)
      /\ DOMAIN stream = 1 .. Len(stream)
  BY <1>1, TypeFacts
<1>3. Typed'
  <2>1. op.block \in Block /\ op.ranks \in RankList
    BY <1>1, <1>2, TypeFacts, OpFields
  <2>2. content' \in [Block -> RankList \cup {NoRanks}]
    BY <1>1, <2>1 DEF TypeOK
  <2>3. TypeOK'
    BY <1>1, <1>2, <2>2 DEF TypeOK
  <2>4. QED
    BY <1>1, <2>3 DEF Typed, Pointing, Walking
<1>4. Taken' /\ TokensUnique' /\ Lists'
  BY <1>1, ListsKept DEF Taken, TokensUnique, Kernels
<1>5. KernelsFind'
  <2> SUFFICES ASSUME NEW i \in Kernels, i > executed + 1
               PROVE  Finds(i, stream[i].block, stream[i].ranks)'
    BY <1>1 DEF KernelsFind, Kernels
  <2>1. i \in executed + 2 .. Len(stream) + 1 /\ i > executed /\ stream[i].block \in Block
    BY <1>2, <1>1, TypeFacts, OpFields DEF Kernels
  <2>2. Finds(i, stream[i].block, stream[i].ranks)
    BY <1>1, <2>1 DEF Findable, KernelsFind
  <2>3. QED
    BY <1>1, <2>1, <2>2, FindsExecuted
<1>6. LiveFind'
  <2> SUFFICES ASSUME NEW h \in DOMAIN handles, handles[h].ranks_dev # NoBlock
               PROVE  Finds(Len(stream) + 1, handles[h].ranks_dev, handles[h].ranks)'
    BY <1>1 DEF LiveFind, Live
  <2>1. Len(stream) + 1 \in executed + 2 .. Len(stream) + 1 /\ handles[h].ranks_dev \in Block
    BY <1>1, <1>2, TypeFacts DEF Descriptor
  <2>2. PICK n \in executed + 2 .. Len(stream) + 1 : n = Len(stream) + 1
    BY <2>1
  <2>3. Finds(n, handles[h].ranks_dev, handles[h].ranks)
    BY <1>1, <2>2 DEF Findable, LiveFind, Live
  <2>4. ASSUME NEW b \in Block, NEW rt, b = handles[h].ranks_dev, rt = handles[h].ranks
        PROVE  Finds(n, b, rt)'
    BY <1>1, <2>3, <2>4, FindsExecuted
  <2>5. QED
    BY <1>1, <2>1, <2>2, <2>4
<1>7. QED
  BY <1>3, <1>4, <1>5, <1>6 DEF IInv, Findable

\* The registry's entries are finitely many.
LEMMA EntriesCounted == Typed => Cardinality(Entries) \in Nat
<1> SUFFICES ASSUME Typed PROVE Cardinality(Entries) \in Nat
  OBVIOUS
<1>1. Entries \in SUBSET (1 .. Len(handles)) /\ Len(handles) \in Int
  BY TypeFacts DEF Entries
<1>2. IsFiniteSet(1 .. Len(handles))
  BY <1>1, FS_Interval
<1>3. QED
  BY <1>1, <1>2, FS_Subset, FS_CardinalityType

\* shutdown's steps that touch neither a descriptor nor the registry, up to the end
\* of the loop and behind it.
LEMMA ShutdownKeeps ==
    ASSUME IInv, Drain \/ BeginWalk \/ WalkRaises \/ EndWalk \/ MeetWorld
    PROVE  IInv'
<1>1. /\ Typed /\ TypeOK /\ Walking /\ Lists
      /\ UNCHANGED <<handles, registered, epochs, p2p, stream, executed, content>>
  BY DEF IInv, Typed, Drain, BeginWalk, WalkRaises, EndWalk, MeetWorld
<1>2. /\ walk \in Walk /\ Len(handles) \in Nat /\ DOMAIN handles = 1 .. Len(handles)
      /\ handles \in Seq(Descriptor) /\ registered \in [Gid -> Handle \cup {NoHandle}]
  BY <1>1, TypeFacts DEF TypeOK
<1>3. \A x \in DOMAIN handles : (Held(x)' <=> Held(x)) /\ (Live(x)' <=> Live(x))
  BY <1>1 DEF Held, Live
<1>4. ASSUME closing' \in Phase, walk' \in Walk, Walking', Lists'
      PROVE  IInv'
  BY <1>1, <1>2, <1>3, <1>4, HostKeeps
<1>5. CASE Drain
  <2>1. closing \in {"no", "raised"} /\ closing' = "drained" /\ walk' = walk
    BY <1>5 DEF Drain
  <2>2. Lists'
    BY <1>1, <1>3, <2>1 DEF Lists, LiveIffRegistered, Dropped, ShutdownDropsLists
  <2>3. QED
    BY <1>1, <1>2, <1>4, <2>1, <2>2 DEF Walking, Phase
<1>6. CASE BeginWalk
  <2>1. /\ closing = "drained" /\ closing' = "walking"
        /\ walk' = [size |-> Cardinality(Entries), left |-> Cardinality(Entries),
                    last |-> NoHandle, newest |-> Len(handles)]
    BY <1>6 DEF BeginWalk
  <2>2. walk' \in Walk /\ walk'.last = NoHandle /\ walk'.newest = Len(handles)
    BY <1>1, <1>2, <2>1, EntriesCounted DEF Walk
  <2>3. Walking'
    BY <1>1, <1>2, <2>1, <2>2 DEF Walking, NoHandle
  <2>4. \A x \in DOMAIN handles : x <= walk'.newest /\ x > walk'.last
    BY <1>2, <2>2 DEF NoHandle
  <2>5. Lists'
    BY <1>1, <1>3, <2>1, <2>4 DEF Lists, LiveIffRegistered, Dropped, ShutdownDropsLists
  <2>6. QED
    BY <1>4, <2>1, <2>2, <2>3, <2>5 DEF Phase
<1>7. CASE WalkRaises \/ EndWalk
  <2>1. /\ closing = "walking" /\ closing' \in {"raised", "walked"}
        /\ walk' = [walk EXCEPT !.size = 0, !.left = 0]
    BY <1>7 DEF WalkRaises, EndWalk, Left
  <2>2. walk' \in Walk /\ walk'.last = walk.last /\ walk'.newest = walk.newest
    BY <1>2, <2>1 DEF Walk
  <2>3. Walking'
    BY <1>1, <2>1, <2>2 DEF Walking
  <2>4. ASSUME NEW x \in DOMAIN handles, Live(x), closing' = "walked", ~ Rebuilt
        PROVE  FALSE
    <3>1. Ahead = {}
      BY <1>7, <2>1, <2>4 DEF WalkRaises, EndWalk
    <3>2. x > walk.last
      BY <1>1, <2>1, <2>4 DEF Lists, Dropped
    <3>3. Held(x)
      BY <1>1, <2>1, <2>4 DEF Lists, LiveIffRegistered
    <3>4. QED
      BY <3>1, <3>2, <3>3 DEF Ahead, Entries
  <2>5. LiveIffRegistered'
    BY <1>1, <1>3, <2>1, <2>2 DEF Lists, LiveIffRegistered
  <2>6. ShutdownDropsLists'
    BY <1>1, <1>3, <2>1, <2>2, <2>4 DEF ShutdownDropsLists, Rebuilt
  <2>7. Lists'
    BY <2>1, <2>5, <2>6 DEF Lists, Dropped
  <2>8. QED
    BY <1>4, <2>1, <2>2, <2>3, <2>7 DEF Phase
<1>8. CASE MeetWorld
  <2>1. closing = "cleared" /\ closing' = "closed" /\ walk' = walk
    BY <1>8 DEF MeetWorld
  <2>2. Lists'
    BY <1>1, <1>3, <2>1 DEF Lists, LiveIffRegistered, Dropped, ShutdownDropsLists
  <2>3. QED
    BY <1>1, <1>2, <1>4, <2>1, <2>2 DEF Walking, Phase
<1>9. QED
  BY <1>5, <1>6, <1>7, <1>8

\* The loop goes on: what it passes over has been released, and so has no list.
LEMMA NextDescriptorKeeps ==
    ASSUME IInv, NextDescriptor
    PROVE  IInv'
<1>1. /\ Typed /\ TypeOK /\ Walking /\ Lists /\ closing = "walking" /\ closing' = "dropping"
      /\ UNCHANGED <<handles, registered, epochs, p2p, stream, executed, content>>
  BY DEF IInv, Typed, NextDescriptor
<1>2. PICK h \in Ahead : /\ Rebuilt \/ \A k \in Ahead : h <= k
                         /\ walk' = [walk EXCEPT !.last = h, !.left = @ - 1]
  BY DEF NextDescriptor
<1>3. /\ walk \in Walk /\ walk.left \in Nat /\ walk.left > 0 /\ Len(handles) \in Nat
      /\ walk.last \in Nat /\ DOMAIN handles = 1 .. Len(handles)
      /\ h \in DOMAIN handles /\ h \in Handle /\ h > walk.last
      /\ handles \in Seq(Descriptor) /\ registered \in [Gid -> Handle \cup {NoHandle}]
  BY <1>1, <1>2, TypeFacts DEF TypeOK, Walk, Ahead, Entries, NextDescriptor
<1>4. /\ walk' \in Walk /\ walk'.last = h /\ walk'.newest = walk.newest
  <2> DEFINE n == walk.left - 1
  <2>1. n \in Nat /\ h \in Handle \cup {NoHandle}
    BY <1>3
  <2>2. [walk EXCEPT !.last = h, !.left = n] \in Walk
    <3> HIDE DEF n
    <3>1. QED
      BY <1>3, <2>1 DEF Walk
  <2>3. walk' = [walk EXCEPT !.last = h, !.left = n]
    BY <1>2
  <2>4. QED
    BY <1>3, <2>2, <2>3 DEF Walk
<1>5. Walking'
  BY <1>1, <1>3, <1>4 DEF Walking, NoHandle
<1>6. \A x \in DOMAIN handles : (Held(x)' <=> Held(x)) /\ (Live(x)' <=> Live(x))
  BY <1>1 DEF Held, Live
<1>7. LiveIffRegistered'
  <2>1. \A x \in DOMAIN handles : x <= walk.last => x <= h
    BY <1>3
  <2>2. QED
    BY <1>1, <1>4, <1>6, <2>1 DEF Lists, LiveIffRegistered
<1>8. ASSUME NEW x \in DOMAIN handles, Live(x), ~ Rebuilt PROVE x > h \/ x = h
  <2>1. x > walk.last /\ Held(x)
    BY <1>1, <1>8 DEF Lists, Dropped, LiveIffRegistered
  <2>2. x \in Ahead
    BY <2>1 DEF Ahead, Entries
  <2>3. h <= x
    BY <1>2, <1>8, <2>2
  <2>4. QED
    BY <1>3, <2>3
<1>9. Dropped'
  BY <1>1, <1>4, <1>6, <1>8 DEF Dropped, Rebuilt
<1>10. Lists'
  BY <1>1, <1>7, <1>9 DEF Lists, ShutdownDropsLists
<1>11. QED
  BY <1>1, <1>3, <1>4, <1>5, <1>6, <1>10, HostKeeps DEF Phase

\* The loop's body.
LEMMA DropRankListKeeps ==
    ASSUME IInv, DropRankList
    PROVE  IInv'
<1>1. /\ Typed /\ TypeOK /\ Walking /\ Lists /\ closing = "dropping" /\ closing' = "walking"
      /\ handles' = [handles EXCEPT ![walk.last].ranks_dev = NoBlock]
      /\ UNCHANGED <<registered, epochs, p2p, stream, executed, content, walk>>
  BY DEF IInv, Typed, DropRankList
<1>2. walk.last \in DOMAIN handles /\ registered \in [Gid -> Handle \cup {NoHandle}]
  BY <1>1, TypeFacts DEF Walking, NoHandle, TypeOK
<1>3. PICK h \in DOMAIN handles : h = walk.last
  BY <1>2
<1>4. /\ handles' \in Seq(Descriptor) /\ DOMAIN handles' = DOMAIN handles
      /\ Len(handles') = Len(handles)
      /\ \A x \in DOMAIN handles :
            handles'[x].gid = handles[x].gid /\ handles'[x].ranks = handles[x].ranks
      /\ \A x \in DOMAIN handles : x # h => handles'[x] = handles[x]
      /\ \A x \in DOMAIN handles : Live(x)' <=> x # h /\ Live(x)
  BY <1>1, <1>3, ListDropped
<1>5. \A x \in DOMAIN handles : Held(x)' <=> Held(x)
  BY <1>1, <1>4 DEF Held
<1>6. h <= walk.last
  BY <1>3, <1>1, TypeFacts
<1>7. LiveIffRegistered'
  BY <1>1, <1>4, <1>5, <1>6 DEF Lists, LiveIffRegistered, Live
<1>8. Dropped'
  BY <1>1, <1>3, <1>4 DEF Lists, Dropped, Rebuilt
<1>9. Lists'
  BY <1>1, <1>7, <1>8 DEF Lists, ShutdownDropsLists
<1>10. Walking'
  BY <1>1, <1>4 DEF Walking
<1>11. QED
  BY <1>1, <1>2, <1>4, <1>9, <1>10, TypeFacts, HostKeeps DEF Phase

\* The registry is cleared.
LEMMA ClearRegistryKeeps ==
    ASSUME IInv, ClearRegistry
    PROVE  IInv'
<1>1. /\ Typed /\ TypeOK /\ Walking /\ Lists /\ closing = "walked" /\ closing' = "cleared"
      /\ registered' = [g \in Gid |-> NoHandle]
      /\ UNCHANGED <<handles, epochs, p2p, stream, executed, content, walk>>
  BY DEF IInv, Typed, ClearRegistry
<1>2. /\ registered' \in [Gid -> Handle \cup {NoHandle}]
      /\ \A g \in Gid : registered'[g] # NoHandle => registered'[g] = registered[g]
  BY <1>1
<1>3. \A x \in DOMAIN handles : ~ Held(x)' /\ (Live(x)' <=> Live(x))
  BY <1>1, TypeFacts DEF Held, Live, Descriptor, NoHandle
<1>4. Lists'
  BY <1>1, <1>3 DEF Lists, LiveIffRegistered, Dropped, ShutdownDropsLists
<1>5. Walking'
  BY <1>1 DEF Walking
<1>6. QED
  BY <1>1, <1>2, <1>3, <1>4, <1>5, TypeFacts, HostKeeps DEF TypeOK, Phase

\* Every step keeps it.
LEMMA NextInv == IInv /\ [Next]_vars => IInv'
<1> SUFFICES ASSUME IInv, [Next]_vars PROVE IInv'
  OBVIOUS
<1>1. Typed /\ TypeOK /\ Pointing /\ p2p \in [Thread -> Handle \cup {NoHandle}]
  BY DEF IInv, Typed, TypeOK
<1>2. ASSUME NEW rt \in RankList, NEW g \in Gid, Create(rt, g)
      PROVE  /\ DOMAIN handles' = DOMAIN handles \cup {Len(handles) + 1}
             /\ Len(handles) + 1 \in Handle
  <2>1. PICK b : handles' = Append(handles, [gid |-> g, ranks |-> rt, ranks_dev |-> b])
    BY <1>2 DEF Create
  <2>2. handles \in Seq(Descriptor) /\ Len(handles) \in Nat /\ Len(handles) < MaxHandles
    BY <1>1, <1>2, TypeFacts DEF Create, TypeOK
  <2>3. DOMAIN handles' = 1 .. Len(handles) + 1
    BY <2>1, <2>2
  <2>4. QED
    BY <2>2, <2>3, TypeFacts, <1>1, BoundsAssumption DEF Handle
<1>3. ASSUME NEW rt \in RankList, NEW g \in Gid, RegisterGroup(rt, g) PROVE IInv'
  <2>1. Create(rt, g) /\ p2p' = p2p
    BY <1>3 DEF RegisterGroup
  <2>2. Pointing'
    BY <1>1, <1>2, <2>1 DEF Pointing
  <2>3. QED
    BY <1>1, <2>1, <2>2, CreateKeeps
<1>4. ASSUME NEW h \in DOMAIN handles, NEW k \in 1 .. 3, Collective(h, k) PROVE IInv'
  BY <1>1, <1>4, LaunchKeeps DEF Collective, Pointing, shutdown
<1>5. ASSUME NEW t \in Thread, NEW rt \in Pair, P2PRegister(t, rt) PROVE IInv'
  <2>1. rt \in RankList /\ HashOf[rt] \in Gid
    BY PairAssumption
  <2>2. CASE Create(rt, HashOf[rt]) /\ p2p' = [p2p EXCEPT ![t] = Len(handles) + 1]
    <3>1. p2p' \in [Thread -> Handle \cup {NoHandle}] /\ Pointing'
      BY <1>1, <1>2, <2>1, <2>2 DEF Pointing
    <3>2. QED
      BY <2>1, <2>2, <3>1, CreateKeeps
  <2>3. CASE /\ registered[HashOf[rt]] # NoHandle
             /\ p2p' = [p2p EXCEPT ![t] = registered[HashOf[rt]]]
             /\ UNCHANGED <<handles, registered, epochs, stream, executed, content, closing, walk>>
    <3>1. p2p' \in [Thread -> Handle \cup {NoHandle}] /\ Pointing'
      BY <1>1, <2>1, <2>3 DEF Pointing, Typed, TypeOK
    <3>2. Typed'
      BY <1>1, <2>3, <3>1 DEF Typed, TypeOK, Walking
    <3>3. Lists'
      BY <2>3, ListsKept DEF IInv
    <3>4. QED
      BY <2>3, <3>2, <3>3 DEF IInv, Taken, TokensUnique, Findable, KernelsFind,
                        LiveFind, Live, Finds, NoFill, Kernels
  <2>4. QED
    BY <1>5, <2>2, <2>3 DEF P2PRegister, shutdown
<1>6. ASSUME NEW t \in Thread, P2PSubmit(t) PROVE IInv'
  <2> DEFINE h == p2p[t]
             g == handles[h].gid
  <2>1. /\ h \in DOMAIN handles /\ g \in Gid
        /\ epochs[g] + 2 <= MaxEpoch /\ epochs' = [epochs EXCEPT ![g] = @ + 2]
        /\ UNCHANGED <<handles, registered, executed, content, closing, walk>>
    BY <1>1, <1>6, TypeFacts DEF P2PSubmit, Pointing, Descriptor, shutdown
  <2>2. p2p' \in [Thread -> Handle \cup {NoHandle}] /\ Pointing'
    BY <1>1, <1>6 DEF P2PSubmit, Pointing
  <2>3. CASE handles[h].ranks_dev = NoBlock
    BY <1>6, <2>1, <2>2, <2>3, LostLaunchKeeps DEF P2PSubmit
  <2>4. CASE handles[h].ranks_dev # NoBlock
    <3>1. stream' = stream \o [i \in 1 .. 2 |-> Kernel(h, epochs[g] + i - 1)]
      BY <1>6, <2>4 DEF P2PSubmit
    <3>2. 2 \in 1 .. 3
      OBVIOUS
    <3>3. QED
      BY <2>1, <2>2, <2>4, <3>1, <3>2, LaunchKeeps
  <2>5. QED
    BY <2>3, <2>4
<1>7. CASE UNCHANGED vars
  <2>1. Lists'
    BY <1>7, ListsKept DEF vars, IInv, shutdown
  <2>2. QED
    BY <1>7, <2>1 DEF vars, IInv, Typed, TypeOK, Pointing, Walking, Taken, TokensUnique, Findable,
                KernelsFind, LiveFind, Live, Finds, NoFill, Kernels, shutdown
<1>8. ASSUME NEW h \in DOMAIN handles, UnregisterGroup(h) \/ Collect(h) PROVE IInv'
  BY <1>8, UnregisterKeeps, CollectKeeps
<1>9. CASE Shutdown
  BY <1>9, ShutdownKeeps, NextDescriptorKeeps, DropRankListKeeps, ClearRegistryKeeps DEF Shutdown
<1>10. QED
  BY <1>3, <1>4, <1>5, <1>6, <1>7, <1>8, <1>9, ExecuteKeeps DEF Next, Caller

\* So it holds throughout, for any threads and any registrations.
LEMMA Inductive == Spec => []IInv
  BY InitInv, NextInv, PTL DEF Spec

-----------------------------------------------------------------------------
\* Every reachable state is well typed; no kernel is launched without a rank
\* list to read.
THEOREM TypeCorrect == Spec => []TypeOK
<1>1. IInv => TypeOK
  BY DEF IInv, Typed
<1>2. QED
  BY <1>1, Inductive, PTL

\* No token is launched twice in a session, however often ids are released and
\* registered again (runtime.py: unregister_group keeps the epoch counter).
THEOREM TokensUniqueHolds == Spec => []TokensUnique
<1>1. IInv => TokensUnique
  BY DEF IInv
<1>2. QED
  BY <1>1, Inductive, PTL

\* A registered group keeps its rank list unless shutdown's loop has come to it, no
\* other descriptor has one until the registry is cleared, and no two share a block:
\* under every interleaving of the callers with a loop that may raise half way.
THEOREM LiveIffRegisteredHolds == Spec => []LiveIffRegistered
<1>1. IInv => LiveIffRegistered
  BY DEF IInv, Lists
<1>2. QED
  BY <1>1, Inductive, PTL

\* A loop that comes to its end has left no rank list behind, whatever has been
\* released under it, unless a group was registered since it began.
THEOREM ShutdownDropsListsHolds == Spec => []ShutdownDropsLists
<1>1. IInv => ShutdownDropsLists
  BY DEF IInv, Lists
<1>2. QED
  BY <1>1, Inductive, PTL

\* Every kernel reads the ranks of the group it was launched for, whatever has
\* become of the group, and of its block, since: also when shutdown, which does not
\* take the lock, has dropped the list at any point of its loop, has raised there
\* and been called again, or has returned.
THEOREM KernelsReadTheirRanksHolds == Spec => []KernelsReadTheirRanks
<1>1. ASSUME IInv, executed + 1 \in Kernels
      PROVE  content[stream[executed + 1].block] = stream[executed + 1].ranks
  <2>1. executed \in Nat /\ executed + 1 > executed
    BY <1>1, TypeFacts DEF IInv
  <2>2. Finds(executed + 1, stream[executed + 1].block, stream[executed + 1].ranks)
    BY <1>1, <2>1 DEF IInv, Findable, KernelsFind
  <2>3. QED
    BY <2>1, <2>2 DEF Finds
<1>2. IInv => KernelsReadTheirRanks
  BY <1>1 DEF KernelsReadTheirRanks
<1>3. QED
  BY <1>2, Inductive, PTL
=============================================================================
