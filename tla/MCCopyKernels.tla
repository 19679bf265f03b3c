--------------------------- MODULE MCCopyKernels ---------------------------
(***************************************************************************)
(* Small calls for CopyKernels: slices below, at and above one tile, of    *)
(* every residue that a vector width tells apart.                          *)
(***************************************************************************)
EXTENDS CopyKernels

OneCall(op, path, size, self, slice, in, out, sms, parts) ==
    [op |-> op, path |-> path, size |-> size, self |-> self, slice |-> slice,
     in |-> in, out |-> out, sms |-> sms, parts |-> parts]

Slices == {1, 4, 8, 12, 20, 24, 36, 40, 48}

VecCalls ==
    {OneCall(op, "vec_pull", size, self, slice, 0, out, sms, 1) :
        op \in {"all_gather", "all2all"}, size \in {1, 3}, self \in {0, 1},
        slice \in Slices, out \in {0, 1, 4, 8}, sms \in {1, 2, 4}}
PipelinedCalls ==
    {OneCall(op, "pipelined", size, self, slice, 0, out, sms, parts) :
        op \in {"all_gather", "all2all"}, size \in {2, 3}, self \in {0, 1},
        slice \in {24, 36, 40, 48}, out \in {0, 4}, sms \in {1, 2}, parts \in {2, 3}}
TmaCalls ==
    {OneCall(op, "tma", size, self, slice, 0, 0, sms, 1) :
        op \in {"all_gather", "all2all"}, size \in {1, 3}, self \in {0, 1},
        slice \in {16, 48, 80}, sms \in {2, 5}}
EngineCalls ==
    {OneCall(op, "copy_engine", 3, self, 12, 0, 1, 1, 1) :
        op \in {"all_gather", "all2all"}, self \in {0, 1, 2}}
FusedCalls ==
    {OneCall(op, "fused", size, self, slice, in, out, 4, parts) :
        op \in {"all_gather", "all2all"}, size \in {1, 3}, self \in {0, 1},
        slice \in Slices, in \in {0, 4}, out \in {0, 8}, parts \in {1, 2}}
P2PCalls ==
    {OneCall("p2p", path, 1, 0, slice, 0, out, sms, 1) :
        path \in {"vec_pull", "tma", "copy_engine"},
        slice \in Slices, out \in {0, 2}, sms \in {1, 2}}

SmallCalls ==
    {c \in VecCalls \cup PipelinedCalls \cup TmaCalls \cup EngineCalls \cup FusedCalls \cup P2PCalls :
        c.self < c.size /\ (c.path = "tma" => TmaAllowed(c))}
=============================================================================
