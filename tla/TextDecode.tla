----------------------------- MODULE TextDecode -----------------------------
(***************************************************************************)
(* The text passes of Qwen3-VL on a master with an NPU                     *)
(* (dial-core/src/models/qwen3_vl/qwen3_vl.rs and text_rknn.rs): a pass    *)
(* feeds the prompt, or the last token, through all layers.                *)
(*                                                                         *)
(* A prefix of the layers, in chunks, can run in an RKNN runner that keeps *)
(* key/value entries of its own; the other layers run on the master with   *)
(* ctx.cache, or on workers.  A dialog validates the runner once against   *)
(* the software layers, drops chunks that do not match, and hands over to  *)
(* the software path when the runner fails or its buckets are too small.   *)
(* What moves between the two are key/value entries, copied one way or the *)
(* other at a few points, and nothing else knows where a dialog's newest   *)
(* positions are.                                                          *)
(*                                                                         *)
(* A worker's entries are what Session shows them to be: they change with  *)
(* the passes sent to it only.  The output head of a GGUF worker is off.   *)
(***************************************************************************)
EXTENDS KvOps

CONSTANTS
  Deployments, \* masters as they may be built and started: see TextDecodeAssumption
  MaxDialogs,  \* bound: dialogs
  None         \* no runner

Modes == {"auto", "full-npu", "npu-cpu", "cpu-only"}
FaultKinds == {"run", "load", "sync", "block"}

ASSUME TextDecodeAssumption ==
  /\ MaxDialogs \in Nat
  /\ \A d \in Deployments :
       LET layers == 0..d.num_layers - 1 IN
       /\ d.num_layers \in Nat \ {0}        \* text_cfg.num_hidden_layers
       /\ d.remote \subseteq layers         \* the layers a node of the topology serves
       /\ d.mode \in Modes                  \* TextDecodeMode
       /\ d.rknn_prefill \in BOOLEAN        \* args.text_rknn_prefill
       /\ d.has_prefill \in BOOLEAN         \* there are prefill chunks, with deepstack
       /\ d.chunk_end \in Seq(layers)       \* last layer of each decode chunk, <<>> without
       /\ \A i, j \in DOMAIN d.chunk_end :  \* a text_rknn_dir
            i < j => d.chunk_end[i] < d.chunk_end[j]
       /\ d.bucket \in [DOMAIN d.chunk_end -> Nat \ {0}] \* the longest past of a chunk
       /\ d.min_headroom \in Nat \ {0}      \* TEXT_RKNN_MIN_HEADROOM
       /\ d.shadow \in BOOLEAN              \* QWEN3VL_SHADOW_PREFILL: a host computes the
                                            \* local layers of a prefill
       /\ d.promote \in BOOLEAN             \* ..._PROMOTE_DECODE: and of the decode steps
       /\ d.prompt_lens \subseteq Nat \ {0} \* prompt lengths, in tokens
       /\ d.sample_len \in Nat \ {0}        \* args.sample_len
       /\ d.max_faults \in [FaultKinds -> Nat] \* bound: failures of each kind

(* None is no runner of any master.                                        *)
ASSUME NoneAssumption ==
  \A d \in Deployments :
    None \notin [chunks : Nat, synced : BOOLEAN,
                kv : [0..d.num_layers - 1 -> Seq([dialog : Nat, pos : Nat] \union {Zero})]]

VARIABLES
  deployment,       \* the master, chosen at the start
  \* the dialog
  pc,               \* where the pass is: see TypeOK
  dialog,           \* its number
  prompt,           \* the length of its prompt
  index_pos,        \* positions in front of this pass
  generated,        \* tokens sampled
  ended,            \* how the last dialog ended: "none" (not yet), "ok" or "failed"
  \* the model
  cache,            \* ctx.cache: an entry per layer
  far,              \* the entries of the layers' workers and of the shadow host
  runner,           \* text_rknn: [chunks, kv, synced], or None
  disabled_dialog,  \* text_rknn_disabled_for_dialog
  disabled_runtime, \* text_rknn_disabled_for_runtime
  validated,        \* chunks of text_rknn_validated_last_layer, 0 for None
  force_shadow,     \* force_shadow_blocks_for_dialog
  \* history
  contexts,         \* contexts[l]: what attention of layer l read in this pass
  output,           \* what the pass returned: "none" (not yet), "logits" or "hidden"
  faults            \* faults[k]: failures of kind k so far

dialogVars == <<deployment, dialog, prompt, index_pos, generated, ended>>
flags == <<disabled_dialog, disabled_runtime, validated, force_shadow>>
modelVars == <<cache, far, runner, flags>>
vars == <<pc, dialogVars, modelVars, contexts, output, faults>>

NumLayers == deployment.num_layers
Remote == deployment.remote
Mode == deployment.mode
RknnPrefill == deployment.rknn_prefill
HasPrefill == deployment.has_prefill
ChunkEnd == deployment.chunk_end
Bucket == deployment.bucket
MinHeadroom == deployment.min_headroom
Shadow == deployment.shadow
Promote == deployment.promote
SampleLen == deployment.sample_len

Layers == 0..NumLayers - 1
Empty == [l \in Layers |-> <<>>]

Cell(d, i) == [dialog |-> d, pos |-> i]

(* The tokens of this pass: the prompt, or the last sampled token.         *)
Fed ==
  IF index_pos = 0
  THEN [i \in 1..prompt |-> Cell(dialog, i - 1)]
  ELSE <<Cell(dialog, index_pos)>>

-----------------------------------------------------------------------------
(* TextDecodeMode.                                                         *)
AllowsDecode == Mode # "cpu-only"
AllowsPartial == Mode \in {"auto", "npu-cpu"}
NeedsRuntime == ChunkEnd # <<>> /\ (RknnPrefill \/ AllowsDecode)

(* The layers of a chunk, and those of a runner, which lost the others.    *)
ChunkFirst(i) == IF i = 1 THEN 0 ELSE ChunkEnd[i - 1] + 1
ChunkLayers(i) == ChunkFirst(i)..ChunkEnd[i]
DecodeLast(r) == ChunkEnd[r.chunks]
Prefix(r) == 0..DecodeLast(r)
CoversAll(r) == DecodeLast(r) + 1 = NumLayers

Permitted(r) == CoversAll(r) \/ AllowsPartial \/ (~AllowsDecode /\ RknnPrefill)

(* TextRknnRunner::load, with the coverage of an earlier validation (the   *)
(* first of the two limits is a mutant that forgets it).                   *)
Fresh(chunks) == [chunks |-> chunks, kv |-> Empty, synced |-> FALSE]
LimitForgotten == Len(ChunkEnd)
Limit == IF validated = 0 THEN Len(ChunkEnd) ELSE validated

Init ==
  LET first == Fresh(Len(ChunkEnd)) IN
  /\ deployment \in Deployments
  /\ pc = "idle"
  /\ dialog = 0
  /\ prompt = 0
  /\ index_pos = 0
  /\ generated = 0
  /\ ended = "none"
  /\ cache = Empty
  /\ far = Empty
  /\ runner = IF NeedsRuntime /\ Permitted(first) THEN first ELSE None
  /\ disabled_dialog = FALSE
  /\ disabled_runtime = (NeedsRuntime /\ ~Permitted(first))
  /\ validated = 0
  /\ force_shadow = FALSE
  /\ contexts = Empty
  /\ output = "none"
  /\ faults = [k \in FaultKinds |-> 0]

Fault(k) ==
  /\ faults[k] < deployment.max_faults[k]
  /\ faults' = [faults EXCEPT ![k] = @ + 1]

(* reset and the prompt of the next dialog.  The workers are not told.     *)
Start(n) ==
  /\ pc = "idle"
  /\ dialog < MaxDialogs
  /\ pc' = "forward"
  /\ dialog' = dialog + 1
  /\ prompt' = n
  /\ index_pos' = 0
  /\ generated' = 0
  /\ ended' = "none"
  /\ cache' = Empty
  /\ runner' = IF runner = None THEN None ELSE Fresh(runner.chunks)
  /\ disabled_dialog' = FALSE
  /\ validated' = 0
  /\ force_shadow' = FALSE
  /\ contexts' = Empty
  /\ output' = "none"
  /\ UNCHANGED <<deployment, far, disabled_runtime, faults>>

(* forward_embeds returns an error.                                        *)
FailDialog ==
  /\ pc' = "idle"
  /\ ended' = "failed"
  /\ UNCHANGED <<deployment, dialog, prompt, index_pos, generated, contexts, output>>

-----------------------------------------------------------------------------
(* ensure_text_rknn_loaded.                                                *)
MustLoad ==
  /\ NeedsRuntime
  /\ runner = None
  /\ ~disabled_dialog
  /\ ~disabled_runtime

Loaded ==
  LET r == Fresh(Limit) IN
  IF Permitted(r)
  THEN runner' = r /\ UNCHANGED <<disabled_dialog, disabled_runtime>>
  ELSE /\ runner' = None
       /\ disabled_dialog' = TRUE
       /\ disabled_runtime' = TRUE

(* Who calls it at the start of a pass.                                    *)
LoadsFirst == MustLoad /\ (IF index_pos = 0 THEN RknnPrefill ELSE AllowsDecode)

Load ==
  /\ pc = "forward"
  /\ LoadsFirst
  /\ Loaded
  /\ UNCHANGED <<pc, dialogVars, cache, far, validated, force_shadow, contexts, output, faults>>

LoadFails ==
  /\ pc = "forward"
  /\ LoadsFirst
  /\ Fault("load")
  /\ FailDialog
  /\ UNCHANGED modelVars

(* set_kv of every entry of the runner; the first n layers of it.          *)
SyncedTo(kv, n) ==
  [l \in Layers |-> IF l < n /\ kv[l] # <<>> THEN SetKv(kv[l]) ELSE cache[l]]

(* sync_text_rknn_to_cache: an error is only logged.                       *)
SyncToCache(kv) ==
  \/ cache' = SyncedTo(kv, NumLayers)
     /\ UNCHANGED faults
  \/ \E n \in Layers : cache' = SyncedTo(kv, n) /\ Fault("sync")

(* The runner is kept in the bounds of its buckets: at decode the past has *)
(* to fit in the largest, with headroom when no other layers may help.     *)
OutOfBuckets(r) ==
  \A i \in 1..r.chunks :
    Bucket[i] < (IF AllowsPartial THEN index_pos ELSE index_pos + MinHeadroom)

Decodes == AllowsDecode /\ index_pos > 0 /\ runner # None
Prefills == RknnPrefill /\ HasPrefill /\ index_pos = 0 /\ runner # None

(* Which path the pass takes.                                              *)
Enter ==
  /\ pc = "forward"
  /\ ~LoadsFirst
  /\ Decodes => ~OutOfBuckets(runner)
  /\ pc' = CASE Decodes /\ validated = 0 -> "validate"
             [] Decodes /\ validated # 0 -> "run"
             [] Prefills -> "prefill"
             [] ~Decodes /\ ~Prefills -> "software"
  /\ UNCHANGED <<dialogVars, modelVars, contexts, output, faults>>

(* Mutant: the guard releases the runner without a copy.                   *)
BucketGuardForgets ==
  /\ pc = "forward"
  /\ ~LoadsFirst
  /\ Decodes
  /\ OutOfBuckets(runner)
  /\ pc' = "software"
  /\ disabled_dialog' = TRUE
  /\ runner' = None
  /\ UNCHANGED <<dialogVars, cache, far, disabled_runtime, validated, force_shadow>>
  /\ UNCHANGED <<contexts, output, faults>>

(* Mutant: the guard keeps the runner, and the pass meets it again.        *)
BucketGuardKeeps ==
  /\ pc = "forward"
  /\ ~LoadsFirst
  /\ Decodes
  /\ OutOfBuckets(runner)
  /\ disabled_dialog' = TRUE
  /\ SyncToCache(runner.kv)
  /\ UNCHANGED <<pc, dialogVars, runner, far, disabled_runtime, validated, force_shadow>>
  /\ UNCHANGED <<contexts, output>>

(* The copy, and the rest of the dialog in software.                       *)
BucketGuard ==
  /\ pc = "forward"
  /\ ~LoadsFirst
  /\ Decodes
  /\ OutOfBuckets(runner)
  /\ pc' = "software"
  /\ disabled_dialog' = TRUE
  /\ SyncToCache(runner.kv)
  /\ runner' = None
  /\ UNCHANGED <<dialogVars, far, disabled_runtime, validated, force_shadow, contexts, output>>

-----------------------------------------------------------------------------
(* Mutant: the entries go to the cache for a software decode only.         *)
RknnPrefillPassKeeps ==
  LET kv == [l \in Layers |-> Fed] IN
  /\ pc = "prefill"
  /\ runner' = [runner EXCEPT !.kv = kv, !.synced = TRUE]
  /\ cache' = IF AllowsDecode THEN cache ELSE SyncedTo(kv, NumLayers)
  /\ contexts' = kv
  /\ output' = "logits"
  /\ pc' = "sample"
  /\ UNCHANGED <<dialogVars, far, flags, faults>>

(* forward_prefill: all layers, into the runner's own entries.             *)
RknnPrefillPass ==
  LET kv == [l \in Layers |-> Fed]
      full == [runner EXCEPT !.kv = kv, !.synced = TRUE]
      tail == ~AllowsDecode \/ ~CoversAll(runner)
  IN
  /\ pc = "prefill"
  /\ runner' = full
  /\ cache' = IF tail THEN SyncedTo(kv, NumLayers) ELSE cache
  /\ contexts' = kv
  /\ output' = "logits"
  /\ pc' = "sample"
  /\ UNCHANGED <<dialogVars, far, flags, faults>>

(* The copy for the software tail fails, and with it the pass.             *)
PrefillSyncFails ==
  LET kv == [l \in Layers |-> Fed] IN
  /\ pc = "prefill"
  /\ ~AllowsDecode \/ ~CoversAll(runner)
  /\ Fault("sync")
  /\ \E n \in Layers : cache' = SyncedTo(kv, n)
  /\ runner' = [runner EXCEPT !.kv = kv, !.synced = TRUE]
  /\ FailDialog
  /\ UNCHANGED <<far, flags>>

RknnPrefillFails ==
  /\ pc = "prefill"
  /\ Fault("run")
  /\ pc' = "software"
  /\ disabled_dialog' = TRUE
  /\ disabled_runtime' = TRUE
  /\ runner' = None
  /\ UNCHANGED <<dialogVars, cache, far, validated, force_shadow, contexts, output>>

-----------------------------------------------------------------------------
(* forward_decode: the entries it starts from, sync_from_cache first when  *)
(* nothing else has filled them.                                           *)
CanSync == runner.synced \/ \A l \in Prefix(runner) : cache[l] # <<>>

Base ==
  [l \in Layers |->
     IF ~runner.synced /\ l \in Prefix(runner) THEN cache[l] ELSE runner.kv[l]]

(* sync_from_cache stops at the first layer with no entry.                 *)
PartBase ==
  [l \in Layers |->
     IF l \in Prefix(runner) /\ \A k \in 0..l : cache[k] # <<>>
     THEN cache[l] ELSE runner.kv[l]]

Fits(i) == Len(Base[ChunkFirst(i)]) \in 1..Bucket[i]

(* The runner after its first n chunks: each appends the token's entry.    *)
Ran(n) ==
  [runner EXCEPT
     !.synced = TRUE,
     !.kv = [l \in Layers |->
               IF \E i \in 1..n : l \in ChunkLayers(i)
               THEN Base[l] \o Fed ELSE Base[l]]]

CanRun == CanSync /\ \A i \in 1..runner.chunks : Fits(i)

(* The runner r is what an error leaves behind.                            *)
ForwardDecodeFails(r) ==
  \/ /\ ~CanSync
     /\ r = [runner EXCEPT !.kv = PartBase]
     /\ UNCHANGED faults
  \/ \E i \in 1..runner.chunks :
       /\ CanSync
       /\ \A j \in 1..i - 1 : Fits(j)
       /\ IF Fits(i) THEN Fault("run") ELSE UNCHANGED faults
       /\ r = Ran(i - 1)

Failures == {Ran(i - 1) : i \in 1..runner.chunks} \union {[runner EXCEPT !.kv = PartBase]}

-----------------------------------------------------------------------------
(* The software layers.  With a shadow host, the local layers of a prefill *)
(* run there, and later ones too when the dialog is promoted.              *)
ShadowPass == force_shadow \/ (Shadow /\ index_pos = 0 /\ Len(Fed) > 1)
IsFar(l) == l \in Remote \/ ShadowPass
Held(l) == IF IsFar(l) THEN far[l] ELSE cache[l]

(* What layers L do to the entries and what their attention reads.         *)
SoftwareCache(L) ==
  [l \in Layers |-> IF l \in L /\ ~IsFar(l) THEN DecodeEntry(cache[l], index_pos, Fed) ELSE cache[l]]
SoftwareFar(L) ==
  [l \in Layers |-> IF l \in L /\ IsFar(l) THEN DecodeEntry(far[l], index_pos, Fed) ELSE far[l]]
SoftwareContext(l) == DecodeView(Held(l), index_pos, Fed)

(* Mutant: the decode steps stay on the master.                            *)
PromotesNever(L) == Shadow /\ L = {}

Promotes(L) ==
  Shadow /\ Promote /\ index_pos = 0 /\ Len(Fed) > 1 /\ L \ Remote # {}

(* Where forward_blocks_from starts.                                       *)
FromLayer == IF pc = "tail" THEN DecodeLast(runner) + 1 ELSE 0
ToDo == FromLayer..NumLayers - 1
OnSoftware == pc \in {"software", "unvalidated", "tail"}

(* A pass after a failed validation returns from its own branch.           *)
Software ==
  /\ OnSoftware
  /\ ToDo # {} => RotaryInRange(index_pos, Len(Fed))
  /\ cache' = SoftwareCache(ToDo)
  /\ far' = SoftwareFar(ToDo)
  /\ force_shadow' = (force_shadow \/ Promotes(ToDo))
  /\ contexts' = [l \in Layers |-> IF l \in ToDo THEN SoftwareContext(l) ELSE contexts[l]]
  /\ output' = IF pc = "unvalidated" THEN "hidden" ELSE "logits"
  /\ pc' = "sample"
  /\ UNCHANGED <<dialogVars, runner, disabled_dialog, disabled_runtime, validated, faults>>

(* A layer fails: one that is not there any more, on a device, or the      *)
(* first of them at a position beyond the rotary tables.                   *)
SoftwareFails ==
  \E l \in ToDo :
    LET done == FromLayer..l - 1 IN
    /\ OnSoftware
    /\ IF RotaryInRange(index_pos, Len(Fed))
       THEN Fault("block")
       ELSE l = FromLayer /\ UNCHANGED faults
    /\ cache' = SoftwareCache(done)
    /\ far' = SoftwareFar(done)
    /\ force_shadow' = (force_shadow \/ Promotes(done))
    /\ FailDialog
    /\ UNCHANGED <<runner, disabled_dialog, disabled_runtime, validated>>

-----------------------------------------------------------------------------
(* validate_text_rknn_prefix_once: the runner, then the software layers on *)
(* a clone of the cache.  The clone shares the storage of an entry that is *)
(* preallocated, and a worker has no clone of its entries.                 *)
RefView(l) == DecodeView(IF l \in Remote THEN far[l] ELSE cache[l], index_pos, Fed)

RefCache(L) ==
  [l \in Layers |->
     IF l \in L \ Remote /\ Len(cache[l]) = MaxSeq /\ InPlace(index_pos, Fed)
     THEN DecodeEntry(cache[l], index_pos, Fed) ELSE cache[l]]
RefFar(L) ==
  [l \in Layers |->
     IF l \in L \intersect Remote THEN DecodeEntry(far[l], index_pos, Fed) ELSE far[l]]

Reference(L) == cache' = RefCache(L) /\ far' = RefFar(L)

(* The runner or a layer of the reference fails.  The error disables       *)
(* nothing: the next pass validates again.                                 *)
ValidateFails ==
  /\ pc = "validate"
  /\ pc' = "unvalidated"
  /\ \/ /\ \E r \in Failures : ForwardDecodeFails(r) /\ runner' = r
        /\ UNCHANGED <<cache, far>>
     \/ \E l \in Prefix(runner) :
          /\ CanRun
          /\ IF RotaryInRange(index_pos, Len(Fed))
             THEN Fault("block")
             ELSE l = 0 /\ UNCHANGED faults
          /\ runner' = Ran(runner.chunks)
          /\ Reference(0..l - 1)
  /\ UNCHANGED <<dialogVars, flags, contexts, output>>

Compared ==
  /\ pc = "validate"
  /\ CanRun
  /\ RotaryInRange(index_pos, Len(Fed))
  /\ Reference(Prefix(runner))

(* Hidden states agree only when attention has read the same.  The runner  *)
(* is loaded again, for the layers it was validated for.                   *)
ValidateAccepts ==
  /\ Compared
  /\ \A l \in Prefix(runner) : Base[l] \o Fed = RefView(l)
  /\ validated' = runner.chunks
  /\ runner' = None
  /\ pc' = "reload"
  /\ UNCHANGED <<dialogVars, disabled_dialog, disabled_runtime, force_shadow>>
  /\ UNCHANGED <<contexts, output, faults>>

(* Mutant: the last chunk goes too.                                        *)
ValidateShrinksAll ==
  /\ Compared
  /\ runner.chunks > 0
  /\ runner' = Fresh(runner.chunks - 1)
  /\ UNCHANGED <<pc, dialogVars, flags, contexts, output, faults>>

(* They may differ in any case.  shrink_last_chunk drops the last chunk    *)
(* with its entries, and the loop tries again from the cache.              *)
ValidateShrinks ==
  /\ Compared
  /\ runner.chunks > 1
  /\ runner' =
       [chunks |-> runner.chunks - 1,
        kv |-> [l \in Layers |->
                  IF l <= ChunkEnd[runner.chunks - 1] THEN Ran(runner.chunks).kv[l] ELSE <<>>],
        synced |-> FALSE]
  /\ UNCHANGED <<pc, dialogVars, flags, contexts, output, faults>>

ValidateRejects ==
  /\ Compared
  /\ runner.chunks = 1
  /\ disabled_dialog' = TRUE
  /\ disabled_runtime' = TRUE
  /\ runner' = None
  /\ pc' = "unvalidated"
  /\ UNCHANGED <<dialogVars, validated, force_shadow, contexts, output, faults>>

(* ensure_text_rknn_loaded at the end of the validation.                   *)
Reload ==
  /\ pc = "reload"
  /\ Loaded
  /\ pc' = "run"
  /\ UNCHANGED <<dialogVars, cache, far, validated, force_shadow, contexts, output, faults>>

ReloadFails ==
  /\ pc = "reload"
  /\ Fault("load")
  /\ pc' = "unvalidated"
  /\ UNCHANGED <<dialogVars, modelVars, contexts, output>>

-----------------------------------------------------------------------------
(* The decode step on the runner, and what is left for forward_blocks_from.*)
RknnDecode ==
  /\ pc = "run"
  /\ runner # None
  /\ CanRun
  /\ runner' = Ran(runner.chunks)
  /\ contexts' = [l \in Layers |-> IF l \in Prefix(runner) THEN Base[l] \o Fed ELSE contexts[l]]
  /\ pc' = "tail"
  /\ UNCHANGED <<dialogVars, cache, far, flags, output, faults>>

(* Mutant: the error of the runner is the error of the pass.               *)
RknnDecodeFailsOut ==
  /\ pc = "run"
  /\ runner # None
  /\ \E r \in Failures : ForwardDecodeFails(r)
  /\ runner' = None
  /\ disabled_dialog' = TRUE
  /\ disabled_runtime' = TRUE
  /\ FailDialog
  /\ UNCHANGED <<cache, far, validated, force_shadow>>

RknnDecodeFails ==
  /\ pc = "run"
  /\ runner # None
  /\ \E r \in Failures : ForwardDecodeFails(r) /\ runner' = r
  /\ disabled_dialog' = TRUE
  /\ disabled_runtime' = TRUE
  /\ pc' = "fallback"
  /\ UNCHANGED <<dialogVars, cache, far, validated, force_shadow, contexts, output>>

(* Mutant: the runner is released before its entries are copied.           *)
FallbackForgets ==
  /\ pc = "fallback"
  /\ runner' = None
  /\ pc' = "software"
  /\ UNCHANGED <<dialogVars, cache, far, flags, contexts, output, faults>>

(* The entries move to the cache: those of chunks that ran have this       *)
(* token's already, which the software layers write again.                 *)
Fallback ==
  /\ pc = "fallback"
  /\ SyncToCache(runner.kv)
  /\ runner' = None
  /\ pc' = "software"
  /\ UNCHANGED <<dialogVars, far, flags, contexts, output>>

(* "text rknn runner not initialized": the reload has refused it.          *)
RunnerMissing ==
  /\ pc = "run"
  /\ runner = None
  /\ FailDialog
  /\ UNCHANGED <<modelVars, faults>>

-----------------------------------------------------------------------------
(* The pass returns; next_token samples, and generate goes on or ends.     *)
Sample ==
  /\ pc = "sample"
  /\ index_pos' = index_pos + Len(Fed)
  /\ generated' = generated + 1
  /\ \/ pc' = "idle" /\ ended' = "ok"
     \/ generated + 1 < SampleLen /\ pc' = "forward" /\ UNCHANGED ended
  /\ contexts' = Empty
  /\ output' = "none"
  /\ UNCHANGED <<deployment, dialog, prompt, modelVars, faults>>

Pass ==
  \/ Load
  \/ LoadFails
  \/ Enter
  \/ BucketGuard
  \/ RknnPrefillPass
  \/ PrefillSyncFails
  \/ RknnPrefillFails
  \/ ValidateFails
  \/ ValidateAccepts
  \/ ValidateShrinks
  \/ ValidateRejects
  \/ Reload
  \/ ReloadFails
  \/ RknnDecode
  \/ RknnDecodeFails
  \/ Fallback
  \/ RunnerMissing
  \/ Software
  \/ SoftwareFails
  \/ Sample

Next == Pass \/ \E n \in deployment.prompt_lens : Start(n)

Spec == Init /\ [][Next]_vars

(* A pass is one task that awaits nothing but its own calls.               *)
FairSpec == Spec /\ WF_vars(Pass)

-----------------------------------------------------------------------------
(* Properties.                                                             *)

Places == {"idle", "forward", "prefill", "validate", "reload", "run", "fallback",
           "software", "unvalidated", "tail", "sample"}
Cells == [dialog : Nat, pos : Nat] \union {Zero}
Entries == [Layers -> Seq(Cells)]
Runners == [chunks : DOMAIN ChunkEnd, kv : Entries, synced : BOOLEAN]

(* Every variable has the type of the field it stands for.                 *)
TypeOK ==
  /\ deployment \in Deployments
  /\ pc \in Places
  /\ dialog \in Nat
  /\ prompt \in Nat
  /\ index_pos \in Nat
  /\ generated \in 0..SampleLen
  /\ ended \in {"none", "ok", "failed"}
  /\ cache \in Entries
  /\ far \in Entries
  /\ runner = None \/ runner \in Runners
  /\ disabled_dialog \in BOOLEAN
  /\ disabled_runtime \in BOOLEAN
  /\ validated \in 0..Len(ChunkEnd)
  /\ force_shadow \in BOOLEAN
  /\ contexts \in Entries
  /\ output \in {"none", "logits", "hidden"}
  /\ faults \in [FaultKinds -> Nat]

Positions == [i \in 1..index_pos + Len(Fed) |-> Cell(dialog, i - 1)]

(* Whatever path a pass took, and whatever failed on the way but a copy of *)
(* entries itself (which is logged, and not repaired), attention of every  *)
(* layer has read exactly the positions of this dialog so far, its   *)
(* own token included: no position is lost, doubled or left over when the  *)
(* entries move between the runner, ctx.cache and the workers              *)
(* (sync_from_cache, sync_to_cache, process_kv_decode_in_place).  It is     *)
(* what lib.rs:128-139 says of NPU prefill, which decode goes on from on   *)
(* the NPU prefix and the local or remote layers behind it, and            *)
(* qwen3_vl.rs:2173 of the bucket guard, which syncs the prefix and goes   *)
(* on in software.                                                         *)
ContextExact ==
  pc = "sample" /\ faults["sync"] = 0 => \A l \in Layers : contexts[l] = Positions

(* A runner is used for no more layers than were compared with software in *)
(* this dialog, across its release, reload and the shrinking in between    *)
(* (text_rknn_validated_last_layer).                                       *)
ValidatedUse ==
  pc \in {"run", "tail", "fallback"} /\ runner # None => runner.chunks <= validated

(* A dialog ends early only when a layer, a load or a copy has failed, or  *)
(* its positions are used up: an error of the runner never ends it.  Only  *)
(* full-npu mode has another end, that of RefusedGoesOn.                   *)
Survives ==
  ended = "failed" =>
    \/ \E k \in {"block", "load", "sync"} : faults[k] > 0
    \/ ~RotaryInRange(index_pos, Len(Fed))
    \/ Mode = "full-npu"

(* The loop of validation, the fallbacks and the reloads come to an end:   *)
(* every pass returns a token or an error.                                 *)
PassEnds == pc \notin {"idle", "sample"} ~> pc \in {"idle", "sample"}

(* qwen3_vl.rs:2209 of a failed validation: fallback to the software or    *)
(* remote decode path.  That path returns logits.                          *)
OutputIsLogits == pc = "sample" => output = "logits"

(* qwen3_vl.rs:2209 of a failed validation: disable text rknn.             *)
DisabledAfterFailure == pc = "unvalidated" => disabled_dialog \/ disabled_runtime

(* qwen3_vl.rs:1963 of a coverage that full-npu mode refuses: decode on    *)
(* the NPU is disabled for this dialog, which the step that asked for it   *)
(* takes notice of.                                                        *)
RefusedGoesOn == disabled_dialog => pc # "run"
=============================================================================
