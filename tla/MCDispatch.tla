----------------------------- MODULE MCDispatch -----------------------------
(***************************************************************************)
(* Small configurations, tables and calls for Dispatch.  Byte counts are   *)
(* scaled: a call carries at most 64 bytes, a chunk at least 16.           *)
(***************************************************************************)
EXTENDS Dispatch, TLC

TwoRanks == {0, 1}

\* An aligned output, and a view that starts 8 bytes into a tensor.
Addresses == {16, 24}

Plain ==
    [alignment |-> 16, max_collective_bytes |-> 64, use_tma |-> FALSE,
     use_copy_engine |-> FALSE, copy_sms |-> 8, pipeline_chunks |-> 1,
     max_pipeline_chunks |-> 3, pipeline_min_chunk_bytes |-> 12,
     enable_fused_path |-> FALSE, fused_chunk_size |-> 32,
     fused_num_channels |-> 3, num_sms |-> 4]
Configs ==
    {Plain,
     [Plain EXCEPT !.use_tma = TRUE],
     [Plain EXCEPT !.use_copy_engine = TRUE],
     [Plain EXCEPT !.pipeline_chunks = 3],
     [Plain EXCEPT !.enable_fused_path = TRUE, !.fused_num_channels = 2],
     [Plain EXCEPT !.enable_fused_path = TRUE]}

\* Rules for any call, with one knob; the last one leaves the path out.
AnyCall ==
    [collective |-> AnyOp, group_size |-> Unset, min_bytes |-> 0, max_bytes |-> Unset,
     path |-> "none", copy_sms |-> Unset, pipeline_chunks |-> Unset,
     fused_num_channels |-> Unset, fused_chunk_size |-> Unset]
Routes ==
    {[AnyCall EXCEPT !.path = p] : p \in Path}
    \cup {[AnyCall EXCEPT !.path = "vec_pull", !.copy_sms = 0],
          [AnyCall EXCEPT !.path = "pipelined", !.pipeline_chunks = 4],
          AnyCall}
    \cup {[AnyCall EXCEPT !.path = "fused", !.fused_num_channels = k[1], !.fused_chunk_size = k[2]] :
            k \in {<<1, Unset>>, <<4, Unset>>, <<1, 16>>, <<2, 16>>, <<1, 8>>, <<0, 16>>}}

\* A rule by itself; and a first rule that fits some calls only, before a rule
\* for the others.
Tables ==
    {<< >>}
    \cup {<<rule>> : rule \in Routes}
    \cup {<<first, [AnyCall EXCEPT !.path = "pipelined"]>> :
            first \in {[AnyCall EXCEPT !.path = "fused", !.min_bytes = 32],
                      [AnyCall EXCEPT !.path = "tma", !.max_bytes = 16],
                      [AnyCall EXCEPT !.path = "copy_engine", !.collective = "all2all"],
                      [AnyCall EXCEPT !.path = "fused", !.group_size = 3]}}

\* No bytes, one that no vector divides, one in two chunks though three are
\* asked for, one that is too long for all2all, and one too long for both.
OneCall ==
    {[op |-> op, slice |-> n, pipeline_chunks |-> Unset] :
        op \in {"all_gather", "all2all"}, n \in {0, 24, 32, 64, 80}}
    \cup {[op |-> "all_gather", slice |-> 64, pipeline_chunks |-> 2]}
CallPairs == [1 .. 2 -> OneCall]
=============================================================================
