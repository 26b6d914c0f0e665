---------------------------- MODULE MCTextDecode ----------------------------
(* Small instances of TextDecode for TLC. *)
EXTENDS TextDecode, TLC

AtMost(n, kinds) == [k \in FaultKinds |-> IF k \in kinds THEN n ELSE 0]

(* Two chunks of one layer each on the NPU, one of the other two layers on *)
(* a worker.  No dialog outgrows the first chunk, the second is too short  *)
(* for the end of some.                                                    *)
Partial ==
  [num_layers |-> 4, remote |-> {3}, mode |-> "npu-cpu",
   rknn_prefill |-> FALSE, has_prefill |-> FALSE,
   chunk_end |-> <<0, 1>>, bucket |-> <<4, 3>>, min_headroom |-> 1,
   shadow |-> FALSE, promote |-> FALSE,
   prompt_lens |-> {1, 2}, sample_len |-> 4,
   max_faults |-> AtMost(2, {"run", "load", "block"})]

(* Dialogs outgrow all buckets; a load or a copy may fail, the layers and  *)
(* the runner do not.                                                      *)
Buckets ==
  [Partial EXCEPT !.mode = "auto", !.bucket = <<3, 3>>, !.sample_len = 6,
                  !.max_faults = AtMost(1, {"load", "sync"})]

(* All layers on the NPU or none: decode leaves it with headroom to spare. *)
Full ==
  [Partial EXCEPT !.num_layers = 3, !.remote = {}, !.mode = "full-npu",
                  !.chunk_end = <<0, 2>>, !.bucket = <<5, 5>>, !.min_headroom = 2,
                  !.prompt_lens = {2, 3}, !.sample_len = 5,
                  !.max_faults = AtMost(1, {"load", "block"})]

(* The NPU prefills all layers and decodes the first two.                  *)
Prefill ==
  [Partial EXCEPT !.num_layers = 3, !.remote = {},
                  !.rknn_prefill = TRUE, !.has_prefill = TRUE, !.bucket = <<5, 5>>,
                  !.max_faults = AtMost(2, {"run", "load", "block", "sync"})]

(* No NPU: a shadow host computes the local layers of a prompt, and then   *)
(* of the dialog.                                                          *)
ShadowHost ==
  [Partial EXCEPT !.num_layers = 3, !.remote = {2}, !.mode = "cpu-only",
                  !.chunk_end = <<>>, !.bucket = <<>>,
                  !.shadow = TRUE, !.promote = TRUE]

Deployed == {Partial, Buckets, Full, Prefill, ShadowHost}

-----------------------------------------------------------------------------
(* Nothing fails but what the chunks compute.                              *)
Quiet ==
  [Partial EXCEPT !.num_layers = 3, !.remote = {}, !.bucket = <<5, 5>>,
                  !.prompt_lens = {2}, !.sample_len = 2, !.max_faults = AtMost(0, {})]

(* NPU prefill and NPU decode of all layers.                               *)
Lost ==
  {[Quiet EXCEPT !.mode = "auto", !.rknn_prefill = TRUE, !.has_prefill = TRUE,
                 !.chunk_end = <<0, 2>>]}

(* NPU prefill, and a worker has the last layer.                           *)
RemoteTail ==
  {[Quiet EXCEPT !.remote = {2}, !.rknn_prefill = TRUE, !.has_prefill = TRUE]}

(* A prompt between the buckets of two chunks.                             *)
Stale == {[Quiet EXCEPT !.bucket = <<4, 3>>, !.prompt_lens = {4}, !.sample_len = 3]}

(* The NPU decodes the first two layers.                                   *)
LocalTail == {Quiet}

(* A worker has a layer that the NPU decodes.                              *)
Retry == {[Quiet EXCEPT !.remote = {1}]}

(* Full NPU decode whose last chunk does not match the software layers.    *)
Refused == {[Quiet EXCEPT !.mode = "full-npu", !.chunk_end = <<0, 2>>]}
=============================================================================
