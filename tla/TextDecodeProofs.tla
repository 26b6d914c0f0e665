-------------------------- MODULE TextDecodeProofs --------------------------
(* Types, validated use, survival and exactness of the text passes of      *)
(* TextDecode, for every set of masters: any number of layers and chunks,  *)
(* any buckets, any prompts, any bound on the failures of each kind.       *)
(*                                                                         *)
(* PassInv says what each place of a pass may rely on: that the runner is  *)
(* there, that it has been validated for the chunks it has, and that only  *)
(* full-npu mode can come back from a reload without one.                  *)
(*                                                                         *)
(* EntriesInv, in the second part, says where the newest entries of a      *)
(* dialog are, so that attention of every layer reads exactly the dialog   *)
(* on whatever path a pass was computed.  Between two passes they are in   *)
(* the runner for its layers, once it has decoded, and otherwise where the *)
(* software path reads them: in ctx.cache, or with the worker or shadow    *)
(* host that computes the layer.  In the middle of a pass it says what the *)
(* next copy or the next layer will find.  It holds for the masters that   *)
(* Sound describes; of one that is not, TLC finds dialogs that lose        *)
(* positions.                                                              *)
EXTENDS TextDecode, SequenceTheorems, WellFoundedInduction, TLAPS

-----------------------------------------------------------------------------
(* The operators of KvOps, for any kind of cell.                           *)

(* Truncating keeps the kind of the cells.                                 *)
LEMMA TruncatedType ==
  ASSUME NEW S, NEW s \in Seq(S)
  PROVE  Truncated(s) \in Seq(S)
<1>1. CASE Len(s) > MaxSeq
  <2>1. Len(s) \in Nat /\ MaxSeq \in Nat
    BY MaxSeqAssumption
  <2>2. LastCells(s, MaxSeq) \in Seq(S)
    BY <1>1, <2>1 DEF LastCells
  <2> QED
    BY <1>1, <2>2 DEF Truncated
<1> QED
  BY <1>1 DEF Truncated

(* process_kv and its decode path give an entry, and a view of one.        *)
LEMMA DecodeType ==
  ASSUME NEW S, Zero \in S, NEW old \in Seq(S), NEW p \in Nat, NEW new \in Seq(S)
  PROVE  DecodeEntry(old, p, new) \in Seq(S) /\ DecodeView(old, p, new) \in Seq(S)
<1>1. MaxSeq \in Nat
  BY MaxSeqAssumption
<1>2. ProcessKv(old, p, new) \in Seq(S)
  <2>1. old \o new \in Seq(S)
    OBVIOUS
  <2> QED
    BY <2>1, TruncatedType DEF ProcessKv
<1>3. CASE InPlace(p, new)
  <2>1. /\ Preallocated(old, p) \in Seq(S) /\ Len(Preallocated(old, p)) = MaxSeq
    BY <1>1 DEF Preallocated
  <2>2. new[1] \in S /\ p + 1 \in 1..MaxSeq
    <3>1. p < MaxSeq /\ Len(new) = 1
      BY <1>3 DEF InPlace
    <3>2. 1 \in 1..Len(new)
      BY <3>1
    <3>3. new[1] \in S
      BY <3>2, ElementOfSeq
    <3> QED
      BY <1>1, <3>1, <3>3
  <2> DEFINE pre == Preallocated(old, p)
             entry == [pre EXCEPT ![p + 1] = new[1]]
  <2>3. DecodeEntry(old, p, new) = entry
    BY <1>3 DEF DecodeEntry
  <2> HIDE DEF pre
  <2>4. entry \in Seq(S) /\ Len(entry) = MaxSeq
    BY <2>1, <2>2 DEF pre
  <2>5. DecodeView(old, p, new) = SubSeq(entry, 1, p + 1)
    BY <1>3, <2>3 DEF DecodeView
  <2> HIDE DEF entry
  <2>6. SubSeq(entry, 1, p + 1) \in Seq(S)
    BY <2>2, <2>4
  <2> QED
    BY <2>3, <2>4, <2>5, <2>6
<1>4. CASE ~InPlace(p, new)
  BY <1>2, <1>4 DEF DecodeEntry, DecodeView
<1> QED
  BY <1>3, <1>4

-----------------------------------------------------------------------------
(* The inductive invariant.                                                *)

NpuPlaces == {"validate", "reload", "run", "fallback", "tail"}

(* Where a pass is, a runner is there and validated for what it is used    *)
(* for; only full-npu mode can miss it after the reload.                   *)
PassInv ==
  /\ pc # "idle" => generated < SampleLen /\ ended = "none"
  /\ pc \in {"validate", "prefill", "tail", "fallback"} => runner # None
  /\ pc = "validate" => validated = 0
  /\ pc \in {"reload", "run", "tail", "fallback"} => validated # 0
  /\ validated # 0 /\ runner # None => runner.chunks <= validated
  /\ pc \in NpuPlaces => AllowsDecode
  /\ pc = "run" /\ runner = None => Mode = "full-npu"

SafeInv == TypeOK /\ PassInv /\ Survives

-----------------------------------------------------------------------------
(* The model's operators.                                                  *)

(* What the deployment fixes does not change with the state.               *)
LEMMA SameDeployment ==
  ASSUME deployment' = deployment
  PROVE  /\ Layers' = Layers /\ Entries' = Entries /\ Runners' = Runners
         /\ ChunkEnd' = ChunkEnd /\ SampleLen' = SampleLen /\ Mode' = Mode
         /\ AllowsDecode' = AllowsDecode
  BY DEF Layers, Entries, Runners, ChunkEnd, SampleLen, Mode, AllowsDecode, NumLayers

(* What the assumption says of the deployment in use.                      *)
LEMMA Deployed ==
  ASSUME TypeOK
  PROVE  /\ NumLayers \in Nat \ {0} /\ SampleLen \in Nat \ {0} /\ Mode \in Modes
         /\ ChunkEnd \in Seq(Layers)
         /\ \A i, j \in DOMAIN ChunkEnd : i < j => ChunkEnd[i] < ChunkEnd[j]
         /\ Bucket \in [DOMAIN ChunkEnd -> Nat \ {0}]
         /\ deployment.prompt_lens \subseteq Nat \ {0}
         /\ Remote \subseteq Layers
         /\ None \notin Runners
<1>1. deployment \in Deployments
  BY DEF TypeOK
<1>2. /\ NumLayers \in Nat \ {0} /\ SampleLen \in Nat \ {0} /\ Mode \in Modes
      /\ ChunkEnd \in Seq(Layers)
      /\ \A i, j \in DOMAIN ChunkEnd : i < j => ChunkEnd[i] < ChunkEnd[j]
      /\ Bucket \in [DOMAIN ChunkEnd -> Nat \ {0}]
      /\ deployment.prompt_lens \subseteq Nat \ {0}
      /\ Remote \subseteq Layers
  BY <1>1, TextDecodeAssumption
  DEF NumLayers, SampleLen, Mode, ChunkEnd, Layers, Bucket, Remote
<1>3. Runners \subseteq [chunks : Nat, kv : Entries, synced : BOOLEAN]
  BY <1>2 DEF Runners
<1>4. None \notin [chunks : Nat, kv : Entries, synced : BOOLEAN]
  BY <1>1, NoneAssumption DEF Entries, Layers, NumLayers, Cells
<1> QED
  BY <1>2, <1>3, <1>4

(* The tokens of a pass.                                                   *)
LEMMA FedType ==
  ASSUME TypeOK
  PROVE  Fed \in Seq(Cells) /\ (index_pos # 0 => Len(Fed) = 1)
<1>1. \A i \in Nat : Cell(dialog, i) \in Cells
  BY DEF TypeOK, Cell, Cells
<1>2. CASE index_pos = 0
  <2>1. \A i \in 1..prompt : Cell(dialog, i - 1) \in Cells
    BY <1>1 DEF TypeOK
  <2>2. prompt \in Nat
    BY DEF TypeOK
  <2> QED
    BY <1>2, <2>1, <2>2 DEF Fed
<1>3. CASE index_pos # 0
  <2>1. Cell(dialog, index_pos) \in Cells
    BY <1>1 DEF TypeOK
  <2> QED
    BY <1>3, <2>1 DEF Fed
<1> QED
  BY <1>2, <1>3

(* A new runner, for the chunks that may be used.                          *)
LEMMA FreshType ==
  ASSUME TypeOK, NEW n \in DOMAIN ChunkEnd
  PROVE  Fresh(n) \in Runners /\ Fresh(n) # None /\ Fresh(n).chunks = n /\ Fresh(n).synced = FALSE
<1>1. Empty \in Entries
  BY DEF Empty, Entries
<1>2. Fresh(n) \in Runners
  BY <1>1 DEF Fresh, Runners
<1> QED
  BY <1>2, Deployed DEF Fresh

(* The first Limit chunks are the ones a load takes.                       *)
LEMMA LimitType ==
  ASSUME TypeOK, ChunkEnd # <<>>
  PROVE  Limit \in DOMAIN ChunkEnd /\ (validated # 0 => Limit = validated)
<1>1. ChunkEnd \in Seq(Layers)
  BY Deployed
<1>2. Len(ChunkEnd) \in Nat \ {0} /\ DOMAIN ChunkEnd = 1..Len(ChunkEnd)
  BY <1>1
<1>3. validated \in 0..Len(ChunkEnd)
  BY DEF TypeOK
<1>4. validated \in Nat /\ validated <= Len(ChunkEnd)
  BY <1>2, <1>3
<1>5. CASE validated = 0
  <2>1. Limit = Len(ChunkEnd)
    BY <1>5 DEF Limit
  <2> QED
    BY <1>2, <1>5, <2>1
<1>6. CASE validated # 0
  <2>1. Limit = validated
    BY <1>6 DEF Limit
  <2> QED
    BY <1>2, <1>4, <1>6, <2>1
<1> QED
  BY <1>5, <1>6

(* A runner that is there has entries of the right kind.                   *)
LEMMA RunnerType ==
  ASSUME TypeOK, runner # None
  PROVE  /\ runner \in Runners
         /\ runner.chunks \in DOMAIN ChunkEnd /\ runner.kv \in Entries
         /\ runner.synced \in BOOLEAN
         /\ DecodeLast(runner) \in Layers /\ Prefix(runner) \subseteq Layers
         /\ ChunkEnd # <<>>
<1>1. runner \in Runners
  BY DEF TypeOK
<1>2. runner.chunks \in DOMAIN ChunkEnd /\ runner.kv \in Entries /\ runner.synced \in BOOLEAN
  BY <1>1 DEF Runners
<1>3. ChunkEnd \in Seq(Layers) /\ NumLayers \in Nat
  BY Deployed
<1>4. DecodeLast(runner) \in Layers
  BY <1>2, <1>3 DEF DecodeLast
<1> QED
  BY <1>1, <1>2, <1>3, <1>4 DEF Prefix, Layers

(* Copies of entries are entries.                                          *)
LEMMA SyncedType ==
  ASSUME TypeOK, NEW kv \in Entries, NEW n
  PROVE  SyncedTo(kv, n) \in Entries
<1>1. \A l \in Layers : SetKv(kv[l]) \in Seq(Cells)
  BY TruncatedType DEF SetKv, Entries
<1> QED
  BY <1>1 DEF SyncedTo, Entries, TypeOK

(* The software layers leave entries and read views.                       *)
LEMMA SoftwareType ==
  ASSUME TypeOK, NEW L
  PROVE  /\ SoftwareCache(L) \in Entries /\ SoftwareFar(L) \in Entries
         /\ RefCache(L) \in Entries /\ RefFar(L) \in Entries
         /\ \A l \in Layers : SoftwareContext(l) \in Seq(Cells)
<1>1. Fed \in Seq(Cells) /\ index_pos \in Nat /\ Zero \in Cells
  BY FedType DEF TypeOK, Cells
<1>2. \A l \in Layers : cache[l] \in Seq(Cells) /\ far[l] \in Seq(Cells)
  BY DEF TypeOK, Entries
<1>3. ASSUME NEW l \in Layers
      PROVE  /\ DecodeEntry(cache[l], index_pos, Fed) \in Seq(Cells)
             /\ DecodeEntry(far[l], index_pos, Fed) \in Seq(Cells)
             /\ DecodeView(cache[l], index_pos, Fed) \in Seq(Cells)
             /\ DecodeView(far[l], index_pos, Fed) \in Seq(Cells)
  BY <1>1, <1>2, DecodeType
<1>4. SoftwareCache(L) \in Entries /\ SoftwareFar(L) \in Entries
  BY <1>2, <1>3 DEF SoftwareCache, SoftwareFar, Entries
<1>5. RefCache(L) \in Entries /\ RefFar(L) \in Entries
  BY <1>2, <1>3 DEF RefCache, RefFar, Entries
<1>6. \A l \in Layers : SoftwareContext(l) \in Seq(Cells)
  BY <1>3 DEF SoftwareContext, Held
<1> QED
  BY <1>4, <1>5, <1>6

(* A run of the runner, whole or cut short, leaves entries.                *)
LEMMA RanType ==
  ASSUME TypeOK, runner # None
  PROVE  /\ Base \in Entries /\ PartBase \in Entries
         /\ [runner EXCEPT !.kv = PartBase] \in Runners
         /\ [runner EXCEPT !.kv = PartBase].chunks = runner.chunks
         /\ \A n : /\ Ran(n) \in Runners
                   /\ Ran(n).chunks = runner.chunks
         /\ \A l \in Layers : Base[l] \o Fed \in Seq(Cells)
<1>1. runner \in Runners /\ runner.kv \in Entries /\ cache \in Entries
  BY RunnerType DEF TypeOK
<1>2. Base \in Entries /\ PartBase \in Entries
  BY <1>1 DEF Base, PartBase, Entries
<1>3. ASSUME NEW l \in Layers
      PROVE  Base[l] \o Fed \in Seq(Cells)
  <2>1. Base[l] \in Seq(Cells) /\ Fed \in Seq(Cells)
    BY <1>2, FedType DEF Entries
  <2> QED
    BY <2>1
<1>4. [runner EXCEPT !.kv = PartBase] \in Runners /\ [runner EXCEPT !.kv = PartBase].chunks = runner.chunks
  BY <1>1, <1>2 DEF Runners
<1>5. ASSUME NEW n
      PROVE  Ran(n) \in Runners /\ Ran(n).chunks = runner.chunks
  <2> DEFINE kv == [l \in Layers |->
                      IF \E i \in 1..n : l \in ChunkLayers(i) THEN Base[l] \o Fed ELSE Base[l]]
  <2>1. kv \in Entries
    BY <1>2, <1>3 DEF Entries
  <2>2. Ran(n) = [runner EXCEPT !.synced = TRUE, !.kv = kv]
    BY DEF Ran
  <2> HIDE DEF kv
  <2> QED
    BY <1>1, <2>1, <2>2 DEF Runners
<1> QED
  BY <1>2, <1>3, <1>4, <1>5

(* A failure is counted.                                                   *)
LEMMA FaultCounted ==
  ASSUME TypeOK, NEW k \in FaultKinds, Fault(k)
  PROVE  /\ faults' \in [FaultKinds -> Nat] /\ faults'[k] > 0
         /\ \A i \in FaultKinds : faults'[i] >= faults[i]
<1>1. faults \in [FaultKinds -> Nat] /\ faults' = [faults EXCEPT ![k] = faults[k] + 1]
  BY DEF TypeOK, Fault
<1> QED
  BY <1>1

(* Failures are never forgotten, whatever an action counts.                *)
FaultsGrow == faults' \in [FaultKinds -> Nat] /\ \A i \in FaultKinds : faults'[i] >= faults[i]

(* The two ways a run of the runner may end.                               *)
LEMMA DecodeFailsType ==
  ASSUME TypeOK, runner # None, NEW r, ForwardDecodeFails(r)
  PROVE  r \in Runners /\ r # None /\ r.chunks = runner.chunks /\ FaultsGrow
<1>1. r \in Runners /\ r.chunks = runner.chunks
  BY RanType DEF ForwardDecodeFails
<1>2. FaultsGrow
  <2>1. "run" \in FaultKinds
    BY DEF FaultKinds
  <2>2. CASE UNCHANGED faults
    BY <2>2 DEF FaultsGrow, TypeOK
  <2>3. CASE Fault("run")
    BY <2>1, <2>3, FaultCounted DEF FaultsGrow
  <2> QED
    BY <2>2, <2>3 DEF ForwardDecodeFails
<1> QED
  BY <1>1, <1>2, Deployed

(* The copy to the cache, whole or cut short.                              *)
LEMMA SyncToCacheType ==
  ASSUME TypeOK, NEW kv \in Entries, SyncToCache(kv)
  PROVE  cache' \in Entries /\ FaultsGrow
<1>1. CASE UNCHANGED faults /\ cache' = SyncedTo(kv, NumLayers)
  BY <1>1, SyncedType DEF FaultsGrow, TypeOK
<1>2. CASE \E n \in Layers : cache' = SyncedTo(kv, n) /\ Fault("sync")
  <2>1. "sync" \in FaultKinds
    BY DEF FaultKinds
  <2> QED
    BY <1>2, <2>1, FaultCounted, SyncedType DEF FaultsGrow
<1> QED
  BY <1>1, <1>2 DEF SyncToCache

-----------------------------------------------------------------------------
(* Two ways in which Survives is kept.                                     *)

(* The dialog goes on as before.                                           *)
LEMMA SurvivesOn ==
  ASSUME TypeOK, Survives, deployment' = deployment, ended' = ended,
         index_pos' = index_pos, prompt' = prompt, dialog' = dialog, FaultsGrow
  PROVE  Survives'
<1>1. Fed' = Fed
  BY DEF Fed, Cell
<1>2. {"block", "load", "sync"} \subseteq FaultKinds /\ faults \in [FaultKinds -> Nat]
  BY DEF FaultKinds, TypeOK
<1>3. ASSUME NEW k \in {"block", "load", "sync"}, faults[k] > 0
      PROVE  faults'[k] > 0
  <2>1. /\ k \in FaultKinds /\ faults[k] \in Nat /\ faults'[k] \in Nat
        /\ faults'[k] >= faults[k]
    BY <1>2 DEF FaultsGrow
  <2> QED
    BY <1>3, <2>1
<1>4. Mode' = Mode
  BY DEF Mode
<1> QED
  BY <1>1, <1>3, <1>4 DEF Survives, RotaryInRange

(* It has not failed.                                                      *)
LEMMA SurvivesYet ==
  ASSUME ended' # "failed"
  PROVE  Survives'
  BY DEF Survives

(* It fails for a cause.                                                   *)
LEMMA SurvivesFailed ==
  ASSUME deployment' = deployment, index_pos' = index_pos, prompt' = prompt, dialog' = dialog,
         \/ \E k \in {"block", "load", "sync"} : faults'[k] > 0
         \/ ~RotaryInRange(index_pos, Len(Fed))
         \/ Mode = "full-npu"
  PROVE  Survives'
<1>1. Fed' = Fed /\ Mode' = Mode
  BY DEF Fed, Cell, Mode
<1> QED
  BY <1>1 DEF Survives, RotaryInRange

(* A step that leaves the dialog alone moves a pass and its model.         *)
LEMMA PassMoves ==
  ASSUME SafeInv, UNCHANGED dialogVars, FaultsGrow,
         pc' \in Places \ {"idle"}, pc # "idle",
         cache' \in Entries, far' \in Entries, contexts' \in Entries,
         runner' = None \/ runner' \in Runners,
         disabled_dialog' \in BOOLEAN, disabled_runtime' \in BOOLEAN, force_shadow' \in BOOLEAN,
         validated' \in 0..Len(ChunkEnd), output' \in {"none", "logits", "hidden"},
         pc' \in {"validate", "prefill", "tail", "fallback"} => runner' # None,
         pc' = "validate" => validated' = 0,
         pc' \in {"reload", "run", "tail", "fallback"} => validated' # 0,
         validated' # 0 /\ runner' # None => runner'.chunks <= validated',
         pc' \in NpuPlaces => AllowsDecode,
         pc' = "run" /\ runner' = None => Mode = "full-npu"
  PROVE  SafeInv'
<1>1. /\ deployment' = deployment /\ dialog' = dialog /\ prompt' = prompt
      /\ index_pos' = index_pos /\ generated' = generated /\ ended' = ended
  BY DEF dialogVars
<1>2. /\ Layers' = Layers /\ Entries' = Entries /\ Runners' = Runners
      /\ ChunkEnd' = ChunkEnd /\ SampleLen' = SampleLen /\ Mode' = Mode
      /\ AllowsDecode' = AllowsDecode
  BY <1>1, SameDeployment
<1>3. faults' \in [FaultKinds -> Nat]
  BY DEF FaultsGrow
<1>4. TypeOK'
  BY <1>1, <1>2, <1>3 DEF SafeInv, TypeOK
<1>5. PassInv'
  BY <1>1, <1>2 DEF SafeInv, PassInv
<1>6. Survives'
  BY <1>1, SurvivesOn DEF SafeInv
<1> QED
  BY <1>4, <1>5, <1>6 DEF SafeInv

(* A step that ends the dialog with an error.                              *)
LEMMA PassFails ==
  ASSUME SafeInv, FailDialog, FaultsGrow,
         cache' \in Entries, far' \in Entries,
         runner' = None \/ runner' \in Runners,
         disabled_dialog' \in BOOLEAN, disabled_runtime' \in BOOLEAN, force_shadow' \in BOOLEAN,
         validated' = validated,
         validated # 0 /\ runner' # None => runner'.chunks <= validated,
         \/ \E k \in {"block", "load", "sync"} : faults'[k] > 0
         \/ ~RotaryInRange(index_pos, Len(Fed))
         \/ Mode = "full-npu"
  PROVE  SafeInv'
<1>1. /\ deployment' = deployment /\ dialog' = dialog /\ prompt' = prompt
      /\ index_pos' = index_pos /\ generated' = generated /\ ended' = "failed"
      /\ contexts' = contexts /\ output' = output /\ pc' = "idle"
  BY DEF FailDialog
<1>2. /\ Layers' = Layers /\ Entries' = Entries /\ Runners' = Runners
      /\ ChunkEnd' = ChunkEnd /\ SampleLen' = SampleLen /\ Mode' = Mode
      /\ AllowsDecode' = AllowsDecode
  BY <1>1, SameDeployment
<1>3. faults' \in [FaultKinds -> Nat]
  BY DEF FaultsGrow
<1>4. TypeOK'
  BY <1>1, <1>2, <1>3 DEF SafeInv, TypeOK, Places
<1>5. PassInv'
  BY <1>1, <1>2 DEF SafeInv, PassInv, NpuPlaces
<1>6. Survives'
  BY <1>1, SurvivesFailed
<1> QED
  BY <1>4, <1>5, <1>6 DEF SafeInv

-----------------------------------------------------------------------------
(* One lemma per action.                                                   *)

(* Nothing fails.                                                          *)
LEMMA NoFault ==
  ASSUME TypeOK, faults' = faults
  PROVE  FaultsGrow
  BY DEF FaultsGrow, TypeOK

(* What every step may assume of its pass.                                 *)
LEMMA InPass ==
  ASSUME SafeInv
  PROVE  /\ TypeOK /\ PassInv
         /\ cache \in Entries /\ far \in Entries /\ contexts \in Entries
         /\ runner = None \/ runner \in Runners
         /\ disabled_dialog \in BOOLEAN /\ disabled_runtime \in BOOLEAN
         /\ force_shadow \in BOOLEAN /\ validated \in 0..Len(ChunkEnd)
         /\ output \in {"none", "logits", "hidden"} /\ pc \in Places
  BY DEF SafeInv, TypeOK

(* Loaded leaves a runner of as many chunks as were validated, or none.    *)
LEMMA LoadedType ==
  ASSUME TypeOK, ChunkEnd # <<>>, Loaded
  PROVE  /\ runner' = None \/ runner' \in Runners
         /\ disabled_dialog' \in BOOLEAN /\ disabled_runtime' \in BOOLEAN
         /\ validated # 0 /\ runner' # None => runner'.chunks <= validated
         /\ runner' = None /\ AllowsDecode => Mode = "full-npu"
<1>1. /\ Fresh(Limit) \in Runners /\ Fresh(Limit) # None /\ Fresh(Limit).chunks = Limit
      /\ validated # 0 => Limit = validated
  BY LimitType, FreshType
<1>2. CASE Permitted(Fresh(Limit))
  <2>1. /\ runner' = Fresh(Limit)
        /\ disabled_dialog' = disabled_dialog /\ disabled_runtime' = disabled_runtime
    BY <1>2 DEF Loaded
  <2>2. validated \in Nat
    BY DEF TypeOK
  <2> QED
    BY <1>1, <2>1, <2>2 DEF TypeOK
<1>3. CASE ~Permitted(Fresh(Limit))
  <2>1. runner' = None /\ disabled_dialog' = TRUE /\ disabled_runtime' = TRUE
    BY <1>3 DEF Loaded
  <2>2. ~AllowsPartial
    BY <1>3 DEF Permitted
  <2>3. Mode \in Modes
    BY Deployed
  <2> QED
    BY <2>1, <2>2, <2>3 DEF AllowsPartial, AllowsDecode, Modes
<1> QED
  BY <1>2, <1>3

(* Load.                                                                   *)
LEMMA LoadStep ==
  ASSUME SafeInv, Load
  PROVE  SafeInv'
<1>1. /\ pc = "forward" /\ pc' = pc /\ LoadsFirst /\ Loaded
      /\ UNCHANGED dialogVars /\ cache' = cache /\ far' = far /\ validated' = validated
      /\ force_shadow' = force_shadow /\ contexts' = contexts /\ output' = output
      /\ faults' = faults
  BY DEF Load
<1>2. ChunkEnd # <<>>
  BY <1>1 DEF LoadsFirst, MustLoad, NeedsRuntime
<1>3. FaultsGrow
  BY <1>1, InPass, NoFault
<1>4. /\ runner' = None \/ runner' \in Runners
      /\ disabled_dialog' \in BOOLEAN /\ disabled_runtime' \in BOOLEAN
      /\ validated # 0 /\ runner' # None => runner'.chunks <= validated
  BY <1>1, <1>2, InPass, LoadedType
<1> QED
  BY <1>1, <1>3, <1>4, InPass, PassMoves DEF Places, NpuPlaces

(* LoadFails.                                                              *)
LEMMA LoadFailsStep ==
  ASSUME SafeInv, LoadFails
  PROVE  SafeInv'
<1>1. /\ Fault("load") /\ FailDialog
      /\ cache' = cache /\ far' = far /\ runner' = runner /\ disabled_dialog' = disabled_dialog
      /\ disabled_runtime' = disabled_runtime /\ validated' = validated
      /\ force_shadow' = force_shadow
  BY DEF LoadFails, modelVars, flags
<1>2. FaultsGrow /\ faults'["load"] > 0
  BY <1>1, InPass, FaultCounted DEF FaultKinds, FaultsGrow
<1> QED
  BY <1>1, <1>2, InPass, PassFails DEF PassInv

(* Enter.                                                                  *)
LEMMA EnterStep ==
  ASSUME SafeInv, Enter
  PROVE  SafeInv'
<1>1. /\ pc = "forward" /\ UNCHANGED dialogVars
      /\ cache' = cache /\ far' = far /\ runner' = runner /\ disabled_dialog' = disabled_dialog
      /\ disabled_runtime' = disabled_runtime /\ validated' = validated
      /\ force_shadow' = force_shadow /\ contexts' = contexts /\ output' = output
      /\ faults' = faults
  BY DEF Enter, modelVars, flags
<1>2. \/ pc' = "validate" /\ Decodes /\ validated = 0
      \/ pc' = "run" /\ Decodes /\ validated # 0
      \/ pc' = "prefill" /\ Prefills
      \/ pc' = "software"
  BY DEF Enter
<1>3. (Decodes => runner # None /\ AllowsDecode) /\ (Prefills => runner # None)
  BY DEF Decodes, Prefills
<1>4. FaultsGrow
  BY <1>1, InPass, NoFault
<1>5. pc' \in Places \ {"idle"}
  BY <1>2 DEF Places
<1> QED
  BY <1>1, <1>2, <1>3, <1>4, <1>5, InPass, PassMoves DEF PassInv, NpuPlaces

(* BucketGuard.                                                            *)
LEMMA BucketGuardStep ==
  ASSUME SafeInv, BucketGuard
  PROVE  SafeInv'
<1>1. /\ pc = "forward" /\ Decodes /\ pc' = "software" /\ disabled_dialog' = TRUE
      /\ SyncToCache(runner.kv) /\ runner' = None
      /\ UNCHANGED dialogVars /\ far' = far /\ disabled_runtime' = disabled_runtime
      /\ validated' = validated /\ force_shadow' = force_shadow
      /\ contexts' = contexts /\ output' = output
  BY DEF BucketGuard
<1>2. runner # None
  BY <1>1 DEF Decodes
<1>3. cache' \in Entries /\ FaultsGrow
  BY <1>1, <1>2, InPass, RunnerType, SyncToCacheType
<1> QED
  BY <1>1, <1>3, InPass, PassMoves DEF Places, NpuPlaces

(* What a prefill leaves in the runner.                                    *)
LEMMA PrefilledType ==
  ASSUME SafeInv, pc = "prefill"
  PROVE  /\ [l \in Layers |-> Fed] \in Entries
         /\ [runner EXCEPT !.kv = [l \in Layers |-> Fed], !.synced = TRUE] \in Runners
         /\ [runner EXCEPT !.kv = [l \in Layers |-> Fed], !.synced = TRUE].chunks = runner.chunks
         /\ runner # None
<1>1. runner # None /\ runner \in Runners /\ Fed \in Seq(Cells)
  BY InPass, FedType DEF PassInv
<1> DEFINE kv == [l \in Layers |-> Fed]
<1>2. kv \in Entries
  BY <1>1 DEF Entries
<1> HIDE DEF kv
<1>3. /\ [runner EXCEPT !.kv = kv, !.synced = TRUE] \in Runners
      /\ [runner EXCEPT !.kv = kv, !.synced = TRUE].chunks = runner.chunks
  BY <1>1, <1>2 DEF Runners
<1> QED
  BY <1>1, <1>2, <1>3 DEF kv

(* RknnPrefillPass.                                                        *)
LEMMA RknnPrefillPassStep ==
  ASSUME SafeInv, RknnPrefillPass
  PROVE  SafeInv'
<1> DEFINE kv == [l \in Layers |-> Fed]
           full == [runner EXCEPT !.kv = kv, !.synced = TRUE]
<1>1. /\ pc = "prefill" /\ runner' = full
      /\ cache' = SyncedTo(kv, NumLayers) \/ cache' = cache
      /\ contexts' = kv /\ output' = "logits" /\ pc' = "sample"
      /\ UNCHANGED dialogVars /\ far' = far /\ disabled_dialog' = disabled_dialog
      /\ disabled_runtime' = disabled_runtime /\ validated' = validated
      /\ force_shadow' = force_shadow /\ faults' = faults
  BY DEF RknnPrefillPass, flags
<1>2. kv \in Entries /\ full \in Runners /\ full.chunks = runner.chunks /\ runner # None
  BY <1>1, PrefilledType
<1> HIDE DEF kv, full
<1>3. cache' \in Entries /\ FaultsGrow
  BY <1>1, <1>2, InPass, SyncedType, NoFault
<1>4. validated' # 0 /\ runner' # None => runner'.chunks <= validated'
  BY <1>1, <1>2, InPass DEF PassInv
<1> QED
  BY <1>1, <1>2, <1>3, <1>4, InPass, PassMoves DEF Places, NpuPlaces

(* PrefillSyncFails.                                                       *)
LEMMA PrefillSyncFailsStep ==
  ASSUME SafeInv, PrefillSyncFails
  PROVE  SafeInv'
<1> DEFINE kv == [l \in Layers |-> Fed]
           full == [runner EXCEPT !.kv = kv, !.synced = TRUE]
<1>1. /\ pc = "prefill" /\ Fault("sync") /\ runner' = full /\ FailDialog
      /\ \E n \in Layers : cache' = SyncedTo(kv, n)
      /\ far' = far /\ disabled_dialog' = disabled_dialog
      /\ disabled_runtime' = disabled_runtime /\ validated' = validated
      /\ force_shadow' = force_shadow
  BY DEF PrefillSyncFails, flags
<1>2. kv \in Entries /\ full \in Runners /\ full.chunks = runner.chunks /\ runner # None
  BY <1>1, PrefilledType
<1> HIDE DEF kv, full
<1>3. cache' \in Entries
  BY <1>1, <1>2, InPass, SyncedType
<1>4. FaultsGrow /\ faults'["sync"] > 0
  BY <1>1, InPass, FaultCounted DEF FaultKinds, FaultsGrow
<1>5. validated # 0 /\ runner' # None => runner'.chunks <= validated
  BY <1>1, <1>2, InPass DEF PassInv
<1> QED
  BY <1>1, <1>2, <1>3, <1>4, <1>5, InPass, PassFails

(* RknnPrefillFails.                                                       *)
LEMMA RknnPrefillFailsStep ==
  ASSUME SafeInv, RknnPrefillFails
  PROVE  SafeInv'
<1>1. /\ pc = "prefill" /\ Fault("run") /\ pc' = "software" /\ disabled_dialog' = TRUE
      /\ disabled_runtime' = TRUE /\ runner' = None
      /\ UNCHANGED dialogVars /\ cache' = cache /\ far' = far /\ validated' = validated
      /\ force_shadow' = force_shadow /\ contexts' = contexts /\ output' = output
  BY DEF RknnPrefillFails
<1>2. FaultsGrow
  BY <1>1, InPass, FaultCounted DEF FaultKinds, FaultsGrow
<1> QED
  BY <1>1, <1>2, InPass, PassMoves DEF Places, NpuPlaces

(* Software.                                                               *)
LEMMA SoftwareStep ==
  ASSUME SafeInv, Software
  PROVE  SafeInv'
<1>1. /\ OnSoftware /\ cache' = SoftwareCache(ToDo) /\ far' = SoftwareFar(ToDo)
      /\ force_shadow' = (force_shadow \/ Promotes(ToDo))
      /\ contexts' = [l \in Layers |-> IF l \in ToDo THEN SoftwareContext(l) ELSE contexts[l]]
      /\ output' = IF pc = "unvalidated" THEN "hidden" ELSE "logits"
      /\ pc' = "sample"
      /\ UNCHANGED dialogVars /\ runner' = runner /\ disabled_dialog' = disabled_dialog
      /\ disabled_runtime' = disabled_runtime /\ validated' = validated /\ faults' = faults
  BY DEF Software
<1>2. pc # "idle" /\ pc' \in Places \ {"idle"} /\ force_shadow' \in BOOLEAN
  BY <1>1, InPass DEF OnSoftware, Places
<1>3. cache' \in Entries /\ far' \in Entries
  BY <1>1, InPass, SoftwareType
<1>4. contexts' \in Entries
  <2>1. \A l \in Layers : SoftwareContext(l) \in Seq(Cells) /\ contexts[l] \in Seq(Cells)
    BY InPass, SoftwareType DEF Entries
  <2> QED
    BY <1>1, <2>1 DEF Entries
<1>5. FaultsGrow
  BY <1>1, InPass, NoFault
<1> QED
  BY <1>1, <1>2, <1>3, <1>4, <1>5, InPass, PassMoves DEF PassInv, NpuPlaces

(* SoftwareFails.                                                          *)
LEMMA SoftwareFailsStep ==
  ASSUME SafeInv, SoftwareFails
  PROVE  SafeInv'
<1>1. PICK l \in ToDo :
        /\ IF RotaryInRange(index_pos, Len(Fed))
           THEN Fault("block")
           ELSE l = FromLayer /\ UNCHANGED faults
        /\ cache' = SoftwareCache(FromLayer..l - 1)
        /\ far' = SoftwareFar(FromLayer..l - 1)
        /\ force_shadow' = (force_shadow \/ Promotes(FromLayer..l - 1))
        /\ FailDialog
        /\ UNCHANGED <<runner, disabled_dialog, disabled_runtime, validated>>
  BY DEF SoftwareFails
<1>2. cache' \in Entries /\ far' \in Entries /\ force_shadow' \in BOOLEAN
  BY <1>1, InPass, SoftwareType
<1>3. FaultsGrow /\ (faults'["block"] > 0 \/ ~RotaryInRange(index_pos, Len(Fed)))
  <2>1. CASE RotaryInRange(index_pos, Len(Fed))
    BY <1>1, <2>1, InPass, FaultCounted DEF FaultKinds, FaultsGrow
  <2>2. CASE ~RotaryInRange(index_pos, Len(Fed))
    BY <1>1, <2>2, InPass, NoFault
  <2> QED
    BY <2>1, <2>2
<1> QED
  BY <1>1, <1>2, <1>3, InPass, PassFails DEF PassInv

(* A step of the validation keeps the dialog's flags.                      *)
LEMMA ValidateFailsStep ==
  ASSUME SafeInv, ValidateFails
  PROVE  SafeInv'
<1>1. /\ pc = "validate" /\ pc' = "unvalidated"
      /\ UNCHANGED dialogVars /\ disabled_dialog' = disabled_dialog
      /\ disabled_runtime' = disabled_runtime /\ validated' = validated
      /\ force_shadow' = force_shadow /\ contexts' = contexts /\ output' = output
  BY DEF ValidateFails, flags
<1>2. runner # None /\ validated = 0
  BY <1>1, InPass DEF PassInv
<1>3. /\ runner' \in Runners /\ cache' \in Entries /\ far' \in Entries /\ FaultsGrow
  <2>1. CASE /\ \E r \in Failures : ForwardDecodeFails(r) /\ runner' = r
             /\ UNCHANGED <<cache, far>>
    BY <1>2, <2>1, InPass, DecodeFailsType
  <2>2. CASE \E l \in Prefix(runner) :
               /\ CanRun
               /\ IF RotaryInRange(index_pos, Len(Fed))
                  THEN Fault("block")
                  ELSE l = 0 /\ UNCHANGED faults
               /\ runner' = Ran(runner.chunks)
               /\ Reference(0..l - 1)
    <3>1. FaultsGrow
      <4>1. CASE Fault("block")
        BY <4>1, InPass, FaultCounted DEF FaultKinds, FaultsGrow
      <4>2. CASE UNCHANGED faults
        BY <4>2, InPass, NoFault
      <4> QED
        BY <2>2, <4>1, <4>2
    <3>2. runner' \in Runners
      BY <1>2, <2>2, InPass, RanType
    <3>3. cache' \in Entries /\ far' \in Entries
      BY <2>2, InPass, SoftwareType DEF Reference
    <3> QED
      BY <3>1, <3>2, <3>3
  <2> QED
    BY <2>1, <2>2 DEF ValidateFails
<1> QED
  BY <1>1, <1>2, <1>3, InPass, PassMoves DEF Places, NpuPlaces

(* What a comparison leaves, whatever came of it.                          *)
LEMMA ComparedType ==
  ASSUME SafeInv, Compared
  PROVE  /\ pc = "validate" /\ runner # None /\ validated = 0 /\ AllowsDecode
         /\ runner \in Runners /\ runner.chunks \in DOMAIN ChunkEnd
         /\ cache' \in Entries /\ far' \in Entries
<1>1. pc = "validate" /\ runner # None /\ validated = 0 /\ AllowsDecode
  BY InPass DEF Compared, PassInv, NpuPlaces
<1> QED
  BY <1>1, InPass, RunnerType, SoftwareType DEF Compared, Reference

(* The number of chunks of a runner is a coverage.                         *)
LEMMA ChunksAreCoverage ==
  ASSUME TypeOK, NEW n \in DOMAIN ChunkEnd
  PROVE  n \in 1..Len(ChunkEnd) /\ n \in 0..Len(ChunkEnd) /\ n # 0
<1>1. ChunkEnd \in Seq(Layers)
  BY Deployed
<1>2. Len(ChunkEnd) \in Nat /\ DOMAIN ChunkEnd = 1..Len(ChunkEnd)
  BY <1>1
<1> QED
  BY <1>2

(* ValidateAccepts.                                                        *)
LEMMA ValidateAcceptsStep ==
  ASSUME SafeInv, ValidateAccepts
  PROVE  SafeInv'
<1>1. /\ Compared /\ validated' = runner.chunks /\ runner' = None /\ pc' = "reload"
      /\ UNCHANGED dialogVars /\ disabled_dialog' = disabled_dialog
      /\ disabled_runtime' = disabled_runtime /\ force_shadow' = force_shadow
      /\ contexts' = contexts /\ output' = output /\ faults' = faults
  BY DEF ValidateAccepts
<1>2. /\ pc = "validate" /\ AllowsDecode /\ runner.chunks \in DOMAIN ChunkEnd
      /\ cache' \in Entries /\ far' \in Entries
  BY <1>1, ComparedType
<1>3. validated' \in 0..Len(ChunkEnd) /\ validated' # 0
  BY <1>1, <1>2, InPass, ChunksAreCoverage
<1>4. FaultsGrow
  BY <1>1, InPass, NoFault
<1> QED
  BY <1>1, <1>2, <1>3, <1>4, InPass, PassMoves DEF Places, NpuPlaces

(* ValidateShrinks.                                                        *)
LEMMA ValidateShrinksStep ==
  ASSUME SafeInv, ValidateShrinks
  PROVE  SafeInv'
<1> DEFINE kv == [l \in Layers |->
                    IF l <= ChunkEnd[runner.chunks - 1] THEN Ran(runner.chunks).kv[l] ELSE <<>>]
<1>1. /\ Compared /\ runner.chunks > 1
      /\ runner' = [chunks |-> runner.chunks - 1, kv |-> kv, synced |-> FALSE]
      /\ pc' = pc /\ UNCHANGED dialogVars /\ disabled_dialog' = disabled_dialog
      /\ disabled_runtime' = disabled_runtime /\ validated' = validated
      /\ force_shadow' = force_shadow /\ contexts' = contexts /\ output' = output
      /\ faults' = faults
  BY DEF ValidateShrinks, flags
<1>2. /\ pc = "validate" /\ runner # None /\ validated = 0 /\ AllowsDecode
      /\ runner.chunks \in DOMAIN ChunkEnd /\ cache' \in Entries /\ far' \in Entries
  BY <1>1, ComparedType
<1>3. kv \in Entries
  <2>1. Ran(runner.chunks) \in Runners
    BY <1>2, InPass, RanType
  <2>2. \A l \in Layers : Ran(runner.chunks).kv[l] \in Seq(Cells)
    BY <2>1 DEF Runners, Entries
  <2> QED
    BY <2>2 DEF Entries
<1> HIDE DEF kv
<1>4. runner.chunks - 1 \in DOMAIN ChunkEnd
  <2>1. ChunkEnd \in Seq(Layers)
    BY InPass, Deployed
  <2>2. Len(ChunkEnd) \in Nat /\ DOMAIN ChunkEnd = 1..Len(ChunkEnd)
    BY <2>1
  <2> QED
    BY <1>1, <1>2, <2>2
<1>5. runner' \in Runners /\ runner' # None
  <2>1. runner' \in Runners
    BY <1>1, <1>3, <1>4 DEF Runners
  <2> QED
    BY <2>1, InPass, Deployed
<1>6. FaultsGrow
  BY <1>1, InPass, NoFault
<1> QED
  BY <1>1, <1>2, <1>5, <1>6, InPass, PassMoves DEF Places, NpuPlaces

(* ValidateRejects.                                                        *)
LEMMA ValidateRejectsStep ==
  ASSUME SafeInv, ValidateRejects
  PROVE  SafeInv'
<1>1. /\ Compared /\ disabled_dialog' = TRUE /\ disabled_runtime' = TRUE /\ runner' = None
      /\ pc' = "unvalidated" /\ UNCHANGED dialogVars /\ validated' = validated
      /\ force_shadow' = force_shadow /\ contexts' = contexts /\ output' = output
      /\ faults' = faults
  BY DEF ValidateRejects
<1>2. pc = "validate" /\ cache' \in Entries /\ far' \in Entries
  BY <1>1, ComparedType
<1>3. FaultsGrow
  BY <1>1, InPass, NoFault
<1> QED
  BY <1>1, <1>2, <1>3, InPass, PassMoves DEF Places, NpuPlaces

(* Reload, which takes the chunks that were validated.                     *)
LEMMA ReloadStep ==
  ASSUME SafeInv, Reload
  PROVE  SafeInv'
<1>1. /\ pc = "reload" /\ pc' = "run" /\ Loaded
      /\ UNCHANGED dialogVars /\ cache' = cache /\ far' = far /\ validated' = validated
      /\ force_shadow' = force_shadow /\ contexts' = contexts /\ output' = output
      /\ faults' = faults
  BY DEF Reload
<1>2. validated # 0 /\ AllowsDecode
  BY <1>1, InPass DEF PassInv, NpuPlaces
<1>3. ChunkEnd # <<>>
  <2>1. validated \in 0..Len(ChunkEnd)
    BY InPass
  <2>2. Len(ChunkEnd) # 0
    BY <1>2, <2>1
  <2> QED
    BY <2>2
<1>4. /\ runner' = None \/ runner' \in Runners
      /\ disabled_dialog' \in BOOLEAN /\ disabled_runtime' \in BOOLEAN
      /\ validated # 0 /\ runner' # None => runner'.chunks <= validated
      /\ runner' = None /\ AllowsDecode => Mode = "full-npu"
  BY <1>1, <1>3, InPass, LoadedType
<1>5. FaultsGrow
  BY <1>1, InPass, NoFault
<1> QED
  BY <1>1, <1>2, <1>4, <1>5, InPass, PassMoves DEF Places, NpuPlaces

(* ReloadFails.                                                            *)
LEMMA ReloadFailsStep ==
  ASSUME SafeInv, ReloadFails
  PROVE  SafeInv'
<1>1. /\ pc = "reload" /\ Fault("load") /\ pc' = "unvalidated"
      /\ UNCHANGED dialogVars /\ cache' = cache /\ far' = far /\ runner' = runner
      /\ disabled_dialog' = disabled_dialog /\ disabled_runtime' = disabled_runtime
      /\ validated' = validated /\ force_shadow' = force_shadow
      /\ contexts' = contexts /\ output' = output
  BY DEF ReloadFails, modelVars, flags
<1>2. FaultsGrow
  BY <1>1, InPass, FaultCounted DEF FaultKinds, FaultsGrow
<1> QED
  BY <1>1, <1>2, InPass, PassMoves DEF Places, NpuPlaces, PassInv

(* RknnDecode.                                                             *)
LEMMA RknnDecodeStep ==
  ASSUME SafeInv, RknnDecode
  PROVE  SafeInv'
<1>1. /\ pc = "run" /\ runner # None /\ runner' = Ran(runner.chunks) /\ pc' = "tail"
      /\ contexts' = [l \in Layers |->
                        IF l \in Prefix(runner) THEN Base[l] \o Fed ELSE contexts[l]]
      /\ UNCHANGED dialogVars /\ cache' = cache /\ far' = far
      /\ disabled_dialog' = disabled_dialog /\ disabled_runtime' = disabled_runtime
      /\ validated' = validated /\ force_shadow' = force_shadow
      /\ output' = output /\ faults' = faults
  BY DEF RknnDecode, flags
<1>2. runner' \in Runners /\ runner'.chunks = runner.chunks /\ runner' # None
  <2>1. Ran(runner.chunks) \in Runners /\ Ran(runner.chunks).chunks = runner.chunks
    BY <1>1, InPass, RanType
  <2> QED
    BY <1>1, <2>1, InPass, Deployed
<1>3. contexts' \in Entries
  <2>1. \A l \in Layers : Base[l] \o Fed \in Seq(Cells) /\ contexts[l] \in Seq(Cells)
    BY <1>1, InPass, RanType DEF Entries
  <2> QED
    BY <1>1, <2>1 DEF Entries
<1>4. validated # 0 /\ AllowsDecode /\ runner.chunks <= validated
  BY <1>1, InPass DEF PassInv, NpuPlaces
<1>5. FaultsGrow
  BY <1>1, InPass, NoFault
<1> QED
  BY <1>1, <1>2, <1>3, <1>4, <1>5, InPass, PassMoves DEF Places, NpuPlaces

(* RknnDecodeFails.                                                        *)
LEMMA RknnDecodeFailsStep ==
  ASSUME SafeInv, RknnDecodeFails
  PROVE  SafeInv'
<1>1. PICK r \in Failures : ForwardDecodeFails(r) /\ runner' = r
  BY DEF RknnDecodeFails
<1>2. /\ pc = "run" /\ runner # None /\ disabled_dialog' = TRUE /\ disabled_runtime' = TRUE
      /\ pc' = "fallback" /\ UNCHANGED dialogVars /\ cache' = cache /\ far' = far
      /\ validated' = validated /\ force_shadow' = force_shadow
      /\ contexts' = contexts /\ output' = output
  BY DEF RknnDecodeFails
<1>3. r \in Runners /\ r # None /\ r.chunks = runner.chunks /\ FaultsGrow
  BY <1>1, <1>2, InPass, DecodeFailsType
<1>4. validated # 0 /\ AllowsDecode /\ runner.chunks <= validated
  BY <1>2, InPass DEF PassInv, NpuPlaces
<1> QED
  BY <1>1, <1>2, <1>3, <1>4, InPass, PassMoves DEF Places, NpuPlaces

(* Fallback.                                                               *)
LEMMA FallbackStep ==
  ASSUME SafeInv, Fallback
  PROVE  SafeInv'
<1>1. /\ pc = "fallback" /\ SyncToCache(runner.kv) /\ runner' = None /\ pc' = "software"
      /\ UNCHANGED dialogVars /\ far' = far
      /\ disabled_dialog' = disabled_dialog /\ disabled_runtime' = disabled_runtime
      /\ validated' = validated /\ force_shadow' = force_shadow
      /\ contexts' = contexts /\ output' = output
  BY DEF Fallback, flags
<1>2. runner # None
  BY <1>1, InPass DEF PassInv
<1>3. cache' \in Entries /\ FaultsGrow
  BY <1>1, <1>2, InPass, RunnerType, SyncToCacheType
<1> QED
  BY <1>1, <1>3, InPass, PassMoves DEF Places, NpuPlaces

(* RunnerMissing, which only full-npu mode can meet.                       *)
LEMMA RunnerMissingStep ==
  ASSUME SafeInv, RunnerMissing
  PROVE  SafeInv'
<1>1. /\ pc = "run" /\ runner = None /\ FailDialog
      /\ cache' = cache /\ far' = far /\ runner' = runner /\ disabled_dialog' = disabled_dialog
      /\ disabled_runtime' = disabled_runtime /\ validated' = validated
      /\ force_shadow' = force_shadow /\ faults' = faults
  BY DEF RunnerMissing, modelVars, flags
<1>2. Mode = "full-npu"
  BY <1>1, InPass DEF PassInv
<1>3. FaultsGrow
  BY <1>1, InPass, NoFault
<1> QED
  BY <1>1, <1>2, <1>3, InPass, PassFails DEF PassInv

(* Sample.                                                                 *)
LEMMA SampleStep ==
  ASSUME SafeInv, Sample
  PROVE  SafeInv'
<1>1. /\ pc = "sample" /\ index_pos' = index_pos + Len(Fed) /\ generated' = generated + 1
      /\ \/ pc' = "idle" /\ ended' = "ok"
         \/ generated + 1 < SampleLen /\ pc' = "forward" /\ ended' = ended
      /\ contexts' = Empty /\ output' = "none"
      /\ deployment' = deployment /\ dialog' = dialog /\ prompt' = prompt
      /\ cache' = cache /\ far' = far /\ runner' = runner
      /\ disabled_dialog' = disabled_dialog /\ disabled_runtime' = disabled_runtime
      /\ validated' = validated /\ force_shadow' = force_shadow /\ faults' = faults
  BY DEF Sample, modelVars, flags
<1>2. generated < SampleLen /\ ended = "none" /\ generated \in 0..SampleLen
  BY <1>1, InPass DEF PassInv, TypeOK
<1>3. SampleLen \in Nat /\ Fed \in Seq(Cells) /\ index_pos \in Nat
  BY InPass, Deployed, FedType DEF TypeOK
<1>4. generated' \in 0..SampleLen /\ (pc' # "idle" => generated' < SampleLen)
  BY <1>1, <1>2, <1>3
<1>5. index_pos' \in Nat
  BY <1>1, <1>3
<1>6. /\ Layers' = Layers /\ Entries' = Entries /\ Runners' = Runners
      /\ ChunkEnd' = ChunkEnd /\ SampleLen' = SampleLen /\ Mode' = Mode
      /\ AllowsDecode' = AllowsDecode
  BY <1>1, SameDeployment
<1>7. Empty \in Entries
  BY DEF Empty, Entries
<1>8. TypeOK'
  BY <1>1, <1>2, <1>4, <1>5, <1>6, <1>7, InPass DEF TypeOK, Places
<1>9. PassInv'
  BY <1>1, <1>2, <1>4, <1>6, InPass DEF PassInv, NpuPlaces
<1>10. Survives'
  BY <1>1, <1>2, SurvivesYet
<1> QED
  BY <1>8, <1>9, <1>10 DEF SafeInv

(* Start.                                                                  *)
LEMMA StartStep ==
  ASSUME SafeInv, NEW n \in deployment.prompt_lens, Start(n)
  PROVE  SafeInv'
<1>1. /\ pc' = "forward" /\ dialog' = dialog + 1 /\ prompt' = n /\ index_pos' = 0
      /\ generated' = 0 /\ ended' = "none" /\ cache' = Empty
      /\ runner' = IF runner = None THEN None ELSE Fresh(runner.chunks)
      /\ disabled_dialog' = FALSE /\ validated' = 0 /\ force_shadow' = FALSE
      /\ contexts' = Empty /\ output' = "none" /\ deployment' = deployment
      /\ far' = far /\ disabled_runtime' = disabled_runtime /\ faults' = faults
  BY DEF Start
<1>2. SampleLen \in Nat \ {0} /\ n \in Nat /\ dialog \in Nat
  BY InPass, Deployed DEF TypeOK
<1>3. runner' = None \/ runner' \in Runners
  BY <1>1, InPass, RunnerType, FreshType
<1>4. Len(ChunkEnd) \in Nat
  <2>1. ChunkEnd \in Seq(Layers)
    BY InPass, Deployed
  <2> QED
    BY <2>1
<1>5. /\ Layers' = Layers /\ Entries' = Entries /\ Runners' = Runners
      /\ ChunkEnd' = ChunkEnd /\ SampleLen' = SampleLen /\ Mode' = Mode
      /\ AllowsDecode' = AllowsDecode
  BY <1>1, SameDeployment
<1>6. Empty \in Entries
  BY DEF Empty, Entries
<1>7. validated' \in 0..Len(ChunkEnd') /\ generated' \in 0..SampleLen' /\ dialog' \in Nat
  BY <1>1, <1>2, <1>4, <1>5
<1>8. TypeOK'
  BY <1>1, <1>2, <1>3, <1>5, <1>6, <1>7, InPass DEF TypeOK, Places
<1>9. PassInv'
  BY <1>1, <1>2, <1>5 DEF PassInv, NpuPlaces
<1>10. Survives'
  BY <1>1, SurvivesYet
<1> QED
  BY <1>8, <1>9, <1>10 DEF SafeInv

-----------------------------------------------------------------------------
(* The invariant and what follows from it.                                 *)

(* The initial states.                                                     *)
LEMMA InitSafe == Init => SafeInv
<1> SUFFICES ASSUME Init
             PROVE  SafeInv
  OBVIOUS
<1>1. /\ deployment \in Deployments /\ pc = "idle" /\ dialog = 0 /\ prompt = 0
      /\ index_pos = 0 /\ generated = 0 /\ ended = "none" /\ cache = Empty /\ far = Empty
      /\ runner = IF NeedsRuntime /\ Permitted(Fresh(Len(ChunkEnd)))
                  THEN Fresh(Len(ChunkEnd)) ELSE None
      /\ disabled_dialog = FALSE
      /\ disabled_runtime = (NeedsRuntime /\ ~Permitted(Fresh(Len(ChunkEnd))))
      /\ validated = 0 /\ force_shadow = FALSE /\ contexts = Empty /\ output = "none"
      /\ faults = [k \in FaultKinds |-> 0]
  BY DEF Init
<1>2. ChunkEnd \in Seq(Layers) /\ SampleLen \in Nat
  BY <1>1, TextDecodeAssumption DEF ChunkEnd, Layers, NumLayers, SampleLen
<1>3. Empty \in Entries
  BY DEF Empty, Entries
<1>4. Len(ChunkEnd) \in Nat /\ DOMAIN ChunkEnd = 1..Len(ChunkEnd)
  BY <1>2
<1>5. NeedsRuntime => Fresh(Len(ChunkEnd)) \in Runners
  <2> SUFFICES ASSUME NeedsRuntime
               PROVE  Fresh(Len(ChunkEnd)) \in Runners
    OBVIOUS
  <2>1. ChunkEnd # <<>>
    BY DEF NeedsRuntime
  <2>2. Len(ChunkEnd) # 0
    BY <1>2, <2>1
  <2>3. Len(ChunkEnd) \in DOMAIN ChunkEnd
    BY <1>4, <2>2
  <2> QED
    BY <1>3, <2>3 DEF Fresh, Runners
<1>6. runner = None \/ runner \in Runners
  BY <1>1, <1>5
<1>7. generated \in 0..SampleLen /\ validated \in 0..Len(ChunkEnd)
  BY <1>1, <1>2, <1>4
<1>8. disabled_runtime \in BOOLEAN
  BY <1>1
<1>9. faults \in [FaultKinds -> Nat]
  BY <1>1
<1>10. TypeOK
  BY <1>1, <1>3, <1>6, <1>7, <1>8, <1>9 DEF TypeOK, Places
<1>11. PassInv /\ Survives
  BY <1>1 DEF PassInv, NpuPlaces, Survives
<1> QED
  BY <1>10, <1>11 DEF SafeInv

(* A step that changes nothing.                                            *)
LEMMA StutterSafe ==
  ASSUME SafeInv, UNCHANGED vars
  PROVE  SafeInv'
<1>1. /\ deployment' = deployment /\ pc' = pc /\ dialog' = dialog /\ prompt' = prompt
      /\ index_pos' = index_pos /\ generated' = generated /\ ended' = ended
      /\ cache' = cache /\ far' = far /\ runner' = runner
      /\ disabled_dialog' = disabled_dialog /\ disabled_runtime' = disabled_runtime
      /\ validated' = validated /\ force_shadow' = force_shadow
      /\ contexts' = contexts /\ output' = output /\ faults' = faults
  BY DEF vars, dialogVars, modelVars, flags
<1>2. /\ Layers' = Layers /\ Entries' = Entries /\ Runners' = Runners
      /\ ChunkEnd' = ChunkEnd /\ SampleLen' = SampleLen /\ Mode' = Mode
      /\ AllowsDecode' = AllowsDecode
  BY <1>1, SameDeployment
<1>3. TypeOK'
  BY <1>1, <1>2, InPass DEF TypeOK
<1>4. PassInv'
  BY <1>1, <1>2, InPass DEF PassInv
<1>5. Survives'
  BY <1>1, InPass, NoFault, SurvivesOn DEF SafeInv
<1> QED
  BY <1>3, <1>4, <1>5 DEF SafeInv

(* The invariant is inductive.                                             *)
LEMMA NextSafe == SafeInv /\ [Next]_vars => SafeInv'
<1> SUFFICES ASSUME SafeInv, [Next]_vars
             PROVE  SafeInv'
  OBVIOUS
<1>1. CASE Load \/ LoadFails \/ Enter \/ BucketGuard
  BY <1>1, LoadStep, LoadFailsStep, EnterStep, BucketGuardStep
<1>2. CASE RknnPrefillPass \/ PrefillSyncFails \/ RknnPrefillFails
  BY <1>2, RknnPrefillPassStep, PrefillSyncFailsStep, RknnPrefillFailsStep
<1>3. CASE ValidateFails \/ ValidateAccepts \/ ValidateShrinks \/ ValidateRejects
  BY <1>3, ValidateFailsStep, ValidateAcceptsStep, ValidateShrinksStep, ValidateRejectsStep
<1>4. CASE Reload \/ ReloadFails \/ RknnDecode \/ RknnDecodeFails \/ Fallback \/ RunnerMissing
  BY <1>4, ReloadStep, ReloadFailsStep, RknnDecodeStep, RknnDecodeFailsStep, FallbackStep,
     RunnerMissingStep
<1>5. CASE Software \/ SoftwareFails \/ Sample
  BY <1>5, SoftwareStep, SoftwareFailsStep, SampleStep
<1>6. ASSUME NEW n \in deployment.prompt_lens, Start(n)
      PROVE  SafeInv'
  BY <1>6, StartStep
<1>7. CASE UNCHANGED vars
  BY <1>7, StutterSafe
<1> QED
  BY <1>1, <1>2, <1>3, <1>4, <1>5, <1>6, <1>7 DEF Next, Pass

(* The invariant holds of every behaviour.                                 *)
THEOREM Invariance == Spec => []SafeInv
<1> QED
  BY InitSafe, NextSafe, PTL DEF Spec

(* TypeOK, for every master.                                               *)
THEOREM TypeCorrect == Spec => []TypeOK
<1>1. SafeInv => TypeOK
  BY DEF SafeInv
<1> QED
  BY <1>1, Invariance, PTL

(* ValidatedUse: a runner is used for no more chunks than were validated.  *)
THEOREM UseIsValidated == Spec => []ValidatedUse
<1>1. SafeInv => ValidatedUse
  BY DEF SafeInv, PassInv, ValidatedUse
<1> QED
  BY <1>1, Invariance, PTL

(* Survives: an error of the runner never ends a dialog, but in full-npu   *)
(* mode.                                                                   *)
THEOREM DialogSurvives == Spec => []Survives
<1>1. SafeInv => Survives
  BY DEF SafeInv
<1> QED
  BY <1>1, Invariance, PTL


-----------------------------------------------------------------------------
(* Where the entries of a dialog are.                                      *)

(* The first k positions of dialog d, and an entry that starts with them.  *)
Told(d, k) == [i \in 1..k |-> Cell(d, i - 1)]
Holds(e, d, k) == Len(e) >= k /\ \A i \in 1..k : e[i] = Cell(d, i - 1)

(* The positions that have been through all layers, and the entry the      *)
(* software path would go on from.                                         *)
Known == IF pc = "sample" THEN index_pos + Len(Fed) ELSE index_pos
HeldNow(l) == IF l \in Remote \/ force_shadow THEN far[l] ELSE cache[l]
Newest(l) == Known <= MaxSeq => Holds(HeldNow(l), dialog, Known)

(* A runner that has to be filled takes all its layers from ctx.cache:     *)
(* either each is as long as the dialog, or the first is a preallocated    *)
(* tensor, which no bucket takes.                                          *)
Even ==
  \/ \A l \in Layers : cache[l] \in {<<>>, Told(dialog, Known)}
  \/ \A l \in Layers : Len(cache[l]) \in {0, MaxSeq}

(* Once a runner has decoded, its layers are up to date nowhere else.      *)
OnNpu == runner # None /\ validated # 0 /\ runner.synced

Between ==
  IF OnNpu
  THEN \A l \in Layers :
         IF l \in Prefix(runner) THEN runner.kv[l] = Told(dialog, Known) ELSE Newest(l)
  ELSE /\ \A l \in Layers : Newest(l)
       /\ runner # None \/ ~disabled_dialog => Even

(* A dialog starts with no entry of its own.                               *)
Blank ==
  /\ cache = Empty
  /\ ~force_shadow
  /\ validated = 0
  /\ runner # None => runner.kv = Empty /\ ~runner.synced

(* The entries of a layer that is computed elsewhere are nowhere else.     *)
FarInv == \A l \in Layers : l \in Remote \/ force_shadow => cache[l] = <<>>

RunnerInv ==
  runner # None =>
    /\ \A l \in Layers : runner.kv[l] # <<>> => l \notin Remote /\ ~force_shadow
    /\ runner.synced => \A l \in Prefix(runner) : runner.kv[l] # <<>>
    /\ validated # 0 => \A l \in Layers \ Prefix(runner) : runner.kv[l] = <<>>
    /\ validated # 0 /\ pc # "fallback" /\ ~runner.synced => runner.kv = Empty

CountInv ==
  /\ prompt \in deployment.prompt_lens
  /\ index_pos = IF generated = 0 THEN 0 ELSE prompt + generated - 1
  /\ validated # 0 => AllowsDecode

StartInv ==
  /\ index_pos = 0 => pc \in {"forward", "prefill", "software", "sample"}
  /\ index_pos = 0 /\ pc # "sample" => Blank
  /\ pc = "prefill" => index_pos = 0 /\ RknnPrefill /\ HasPrefill

BetweenInv == pc \in {"forward", "validate", "reload", "run", "sample"} => Between

SoftwareInv ==
  pc \in {"software", "unvalidated"} =>
    /\ \A l \in Layers : Newest(l)
    /\ runner = None \/ validated = 0

ReloadInv == pc = "reload" => runner = None /\ Even

FallbackInv ==
  pc = "fallback" =>
    \A l \in Layers :
      IF runner.kv[l] = <<>>
      THEN Newest(l)
      ELSE index_pos <= MaxSeq =>
             Holds(runner.kv[l], dialog, index_pos) /\ Len(runner.kv[l]) <= MaxSeq

TailInv ==
  pc = "tail" =>
    /\ index_pos < MaxSeq /\ runner.synced
    /\ \A l \in Layers :
         IF l \in Prefix(runner)
         THEN /\ runner.kv[l] = Told(dialog, index_pos + 1)
              /\ contexts[l] = Told(dialog, index_pos + 1)
         ELSE Newest(l)

SampleInv == pc = "sample" => \A l \in Layers : contexts[l] = Positions

EntriesInv ==
  pc # "idle" =>
    /\ FarInv /\ RunnerInv /\ CountInv /\ StartInv /\ BetweenInv /\ SoftwareInv
    /\ ReloadInv /\ FallbackInv /\ TailInv /\ SampleInv

(* What a master must not be started with: a first bucket that takes a     *)
(* preallocated tensor for a past, a shadow host that leaves the decode    *)
(* steps to the master, or an NPU prefill whose entries decode will not    *)
(* find, on a worker or, with all layers on the NPU, in ctx.cache.         *)
Sound ==
  /\ ChunkEnd # <<>> => Bucket[1] < MaxSeq
  /\ Shadow => Promote
  /\ RknnPrefill /\ HasPrefill =>
       /\ Remote = {}
       /\ AllowsDecode /\ ChunkEnd # <<>> => ChunkEnd[Len(ChunkEnd)] # NumLayers - 1

(* What the guard of the buckets copies is what the dialog has come to;    *)
(* validations that failed can leave older entries in the runner.          *)
GuardCopiesAll ==
  pc = "forward" /\ Decodes /\ OutOfBuckets(runner) /\ validated = 0 /\ index_pos <= MaxSeq =>
    \A l \in Layers : runner.kv[l] = <<>> \/ Holds(SetKv(runner.kv[l]), dialog, index_pos)

(* Dialogs that never reach the guard.                                     *)
LongEnough ==
  ChunkEnd # <<>> =>
    \A n \in deployment.prompt_lens :
      n + SampleLen + (IF AllowsPartial THEN 0 ELSE MinHeadroom) <= Bucket[1] + 2

ExactInv == Sound /\ faults["sync"] = 0 => EntriesInv

-----------------------------------------------------------------------------
(* Numbers and chunks.                                                     *)

(* A set of numbers that is not empty has a least one.                     *)
LEMMA Least ==
  ASSUME NEW T \in SUBSET Nat, T # {}
  PROVE  \E n \in T : \A m \in T : n <= m
<1> DEFINE R == OpToRel(<, Nat)
<1>1. IsWellFoundedOn(R, Nat)
  BY NatLessThanWellFounded
<1>2. \A x, y \in Nat : x < y => <<x, y>> \in R
  BY DEF OpToRel
<1> HIDE DEF R
<1>3. \E n \in T : \A m \in T : ~ (<<m, n>> \in R)
  BY <1>1, WFMin
<1>4. PICK n \in T : \A m \in T : ~ (<<m, n>> \in R)
  BY <1>3
<1>5. \A m \in T : ~ (m < n)
  BY <1>2, <1>4
<1> QED
  BY <1>5

(* The chunks of a runner make up its prefix.                              *)
LEMMA ChunksCover ==
  ASSUME TypeOK, runner # None
  PROVE  /\ \A l \in Layers :
              l \in Prefix(runner) <=> \E i \in 1..runner.chunks : l \in ChunkLayers(i)
         /\ ChunkFirst(1) = 0 /\ 0 \in Prefix(runner) /\ 0 \in Layers
         /\ 1 \in 1..runner.chunks /\ runner.chunks \in Nat
<1>1. /\ ChunkEnd \in Seq(Layers) /\ NumLayers \in Nat \ {0}
      /\ \A i, j \in DOMAIN ChunkEnd : i < j => ChunkEnd[i] < ChunkEnd[j]
  BY Deployed
<1>2. /\ Len(ChunkEnd) \in Nat /\ DOMAIN ChunkEnd = 1..Len(ChunkEnd)
      /\ \A i \in DOMAIN ChunkEnd : ChunkEnd[i] \in Nat /\ ChunkEnd[i] < NumLayers
  BY <1>1 DEF Layers
<1>3. runner.chunks \in 1..Len(ChunkEnd)
  BY <1>2, RunnerType
<1>4. \A l : l \in Layers <=> l \in Nat /\ l < NumLayers
  BY <1>1 DEF Layers
<1>5. \A l \in Layers : l \in Prefix(runner) <=> l <= ChunkEnd[runner.chunks]
  BY <1>2, <1>3, <1>4 DEF Prefix, DecodeLast
<1>6. ASSUME NEW l \in Layers, NEW i \in 1..runner.chunks, l \in ChunkLayers(i)
      PROVE  l \in Prefix(runner)
  <2>1. l <= ChunkEnd[i] /\ i \in 1..Len(ChunkEnd) /\ i <= runner.chunks
    BY <1>2, <1>3, <1>4, <1>6 DEF ChunkLayers
  <2>2. ChunkEnd[i] <= ChunkEnd[runner.chunks]
    BY <1>1, <1>2, <1>3, <2>1, SMTT(30)
  <2> QED
    BY <1>2, <1>3, <1>4, <1>5, <2>1, <2>2
<1>7. ASSUME NEW l \in Layers, l \in Prefix(runner)
      PROVE  \E i \in 1..runner.chunks : l \in ChunkLayers(i)
  <2> DEFINE T == {i \in 1..Len(ChunkEnd) : l <= ChunkEnd[i]}
  <2>1. runner.chunks \in T /\ T \in SUBSET Nat
    BY <1>2, <1>3, <1>5, <1>7
  <2>2. PICK i \in T : \A m \in T : i <= m
    BY <2>1, Least
  <2>3. i \in 1..runner.chunks /\ l <= ChunkEnd[i] /\ i \in 1..Len(ChunkEnd)
    BY <1>2, <1>3, <2>1, <2>2
  <2>4. i # 1 => l > ChunkEnd[i - 1]
    <3>1. SUFFICES ASSUME i # 1, l <= ChunkEnd[i - 1]
                   PROVE  FALSE
      BY <1>2, <1>4, <2>3
    <3>2. i - 1 \in T
      BY <1>2, <2>3, <3>1
    <3> QED
      BY <2>2, <2>3, <3>2
  <2>5. l \in ChunkLayers(i)
    BY <1>2, <1>4, <2>3, <2>4 DEF ChunkLayers, ChunkFirst
  <2> QED
    BY <2>3, <2>5
<1>8. ChunkFirst(1) = 0
  BY DEF ChunkFirst
<1>9. 0 \in Layers /\ 0 \in Prefix(runner)
  BY <1>1, <1>2, <1>3, <1>4, <1>5
<1> QED
  BY <1>2, <1>3, <1>6, <1>7, <1>8, <1>9

-----------------------------------------------------------------------------
(* Entries.                                                                *)

(* What the first positions of a dialog look like.                         *)
LEMMA ToldShape ==
  ASSUME NEW d, NEW k \in Nat
  PROVE  /\ Told(d, k) \in Seq({Cell(d, i) : i \in Nat})
         /\ Len(Told(d, k)) = k /\ DOMAIN Told(d, k) = 1..k
         /\ \A i \in 1..k : Told(d, k)[i] = Cell(d, i - 1)
         /\ Holds(Told(d, k), d, k)
         /\ (k # 0 <=> Told(d, k) # <<>>)
<1>1. \A i \in 1..k : Cell(d, i - 1) \in {Cell(d, j) : j \in Nat}
  OBVIOUS
<1>2. Told(d, k) \in Seq({Cell(d, i) : i \in Nat}) /\ Len(Told(d, k)) = k /\ DOMAIN Told(d, k) = 1..k
  BY <1>1 DEF Told
<1>3. \A i \in 1..k : Told(d, k)[i] = Cell(d, i - 1)
  BY DEF Told
<1>4. k # 0 <=> Told(d, k) # <<>>
  BY <1>2
<1> QED
  BY <1>2, <1>3, <1>4 DEF Holds

(* An entry of the dialog's length holds it and nothing else.              *)
LEMMA HoldsAll ==
  ASSUME NEW S, NEW e \in Seq(S), NEW d, NEW k \in Nat, Holds(e, d, k), Len(e) = k
  PROVE  e = Told(d, k)
<1>1. DOMAIN e = 1..k
  BY Len(e) \in Nat, DOMAIN e = 1..Len(e)
<1>2. e = [i \in 1..k |-> e[i]]
  BY <1>1
<1> QED
  BY <1>2 DEF Holds, Told

(* The tokens of a pass come behind those in front of it.                  *)
LEMMA FedShape ==
  ASSUME TypeOK, CountInv
  PROVE  /\ Len(Fed) \in Nat \ {0} /\ index_pos + Len(Fed) \in Nat \ {0}
         /\ index_pos = 0 => Fed = Told(dialog, prompt) /\ Len(Fed) = prompt
         /\ index_pos # 0 => Len(Fed) = 1 /\ Fed = <<Cell(dialog, index_pos)>>
         /\ Positions = Told(dialog, index_pos + Len(Fed))
         /\ Told(dialog, index_pos) \o Fed = Told(dialog, index_pos + Len(Fed))
<1>1. prompt \in Nat \ {0} /\ index_pos \in Nat
  BY Deployed DEF CountInv, TypeOK
<1>2. CASE index_pos = 0
  <2>1. Fed = Told(dialog, prompt)
    BY <1>2 DEF Fed, Told
  <2>2. Len(Fed) = prompt /\ Fed \in Seq({Cell(dialog, i) : i \in Nat})
    BY <1>1, <2>1, ToldShape
  <2>3. Told(dialog, index_pos) = <<>>
    BY <1>2, ToldShape
  <2>4. Told(dialog, index_pos) \o Fed = Fed
    BY <2>2, <2>3
  <2> QED
    BY <1>1, <1>2, <2>1, <2>2, <2>4 DEF Positions, Told
<1>3. CASE index_pos # 0
  <2>1. Fed = <<Cell(dialog, index_pos)>> /\ Len(Fed) = 1
    BY <1>3 DEF Fed
  <2> DEFINE S == {Cell(dialog, i) : i \in Nat}
             all == Told(dialog, index_pos) \o Fed
  <2>2. /\ Told(dialog, index_pos) \in Seq(S) /\ Len(Told(dialog, index_pos)) = index_pos
        /\ \A i \in 1..index_pos : Told(dialog, index_pos)[i] = Cell(dialog, i - 1)
    BY <1>1, ToldShape
  <2>3. Fed \in Seq(S) /\ Fed[1] = Cell(dialog, index_pos)
    BY <1>1, <2>1
  <2>4. all \in Seq(S) /\ Len(all) = index_pos + 1
    BY <1>1, <2>1, <2>2, <2>3
  <2>5. \A i \in 1..index_pos + 1 : all[i] = Cell(dialog, i - 1)
    BY <1>1, <2>1, <2>2, <2>3
  <2> HIDE DEF all
  <2>6. index_pos + 1 \in Nat /\ Holds(all, dialog, index_pos + 1)
    BY <1>1, <2>4, <2>5 DEF Holds
  <2>7. all = Told(dialog, index_pos + 1)
    BY <2>4, <2>6, HoldsAll
  <2>8. Told(dialog, index_pos) \o Fed = all
    BY DEF all
  <2> QED
    BY <1>1, <1>3, <2>1, <2>7, <2>8 DEF Positions, Told
<1> QED
  BY <1>2, <1>3

(* What process_kv and its decode path make of an entry that holds the     *)
(* dialog so far: one that holds this pass too, and the view of just that. *)
LEMMA DecodeHolds ==
  ASSUME TypeOK, CountInv, NEW old \in Seq(Cells), Holds(old, dialog, index_pos),
         RotaryInRange(index_pos, Len(Fed))
  PROVE  /\ Holds(DecodeEntry(old, index_pos, Fed), dialog, index_pos + Len(Fed))
         /\ DecodeView(old, index_pos, Fed) = Positions
         /\ index_pos = 0 => DecodeEntry(old, index_pos, Fed) = Positions
         /\ index_pos # 0 => Len(DecodeEntry(old, index_pos, Fed)) = MaxSeq
<1>1. index_pos \in Nat /\ MaxSeq \in Nat /\ Len(Fed) \in Nat /\ index_pos + Len(Fed) <= MaxSeq
  BY FedShape, MaxSeqAssumption DEF TypeOK, RotaryInRange
<1>2. CASE index_pos = 0
  <2>1. /\ Fed = Told(dialog, prompt) /\ Len(Fed) = prompt
        /\ Positions = Told(dialog, index_pos + Len(Fed))
    BY <1>2, FedShape
  <2>2. Positions = Fed
    BY <1>1, <1>2, <2>1
  <2>3. DecodeEntry(old, index_pos, Fed) = Fed /\ DecodeView(old, index_pos, Fed) = Fed
    BY <1>2 DEF DecodeEntry, DecodeView, InPlace, ProcessKv
  <2>4. Holds(Fed, dialog, index_pos + Len(Fed))
    <3>1. prompt \in Nat /\ index_pos + Len(Fed) = prompt
      BY <1>1, <1>2, <2>1
    <3> QED
      BY <2>1, <3>1, ToldShape
  <2> QED
    BY <1>2, <2>2, <2>3, <2>4
<1>3. CASE index_pos # 0
  <2>1. /\ Len(Fed) = 1 /\ Fed = <<Cell(dialog, index_pos)>>
        /\ Positions = Told(dialog, index_pos + 1)
    BY <1>3, FedShape
  <2>2. InPlace(index_pos, Fed)
    BY <1>1, <1>3, <2>1 DEF InPlace
  <2> DEFINE pre == Preallocated(old, index_pos)
             entry == [pre EXCEPT ![index_pos + 1] = Fed[1]]
  <2>3. DecodeEntry(old, index_pos, Fed) = entry /\ DecodeView(old, index_pos, Fed) = SubSeq(entry, 1, index_pos + 1)
    BY <2>2 DEF DecodeEntry, DecodeView
  <2>4. /\ Len(old) \in Nat /\ Len(old) >= index_pos
        /\ \A i \in 1..index_pos : old[i] = Cell(dialog, i - 1)
    BY DEF Holds
  <2>5. Zero \in Cells
    BY DEF Cells
  <2>6. /\ pre \in Seq(Cells) /\ Len(pre) = MaxSeq
        /\ \A i \in 1..index_pos : pre[i] = Cell(dialog, i - 1)
    <3>1. CASE Len(old) = MaxSeq
      BY <2>4, <3>1 DEF Preallocated
    <3>2. CASE Len(old) # MaxSeq
      <4>1. pre = [i \in 1..MaxSeq |->
                     IF i <= Len(old) /\ i <= index_pos THEN old[i] ELSE Zero]
        BY <3>2 DEF Preallocated
      <4>2. \A i \in 1..MaxSeq : i <= Len(old) => old[i] \in Cells
        BY <2>4
      <4> HIDE DEF pre
      <4>3. pre \in [1..MaxSeq -> Cells]
        BY <2>5, <4>1, <4>2
      <4>4. pre \in Seq(Cells) /\ Len(pre) = MaxSeq
        BY <1>1, <4>3
      <4>5. \A i \in 1..index_pos : i \in 1..MaxSeq /\ i <= Len(old) /\ i <= index_pos
        BY <1>1, <2>1, <2>4
      <4> QED
        BY <2>4, <4>1, <4>4, <4>5
    <3> QED
      BY <3>1, <3>2
  <2> HIDE DEF pre
  <2>7. Fed[1] = Cell(dialog, index_pos) /\ Cell(dialog, index_pos) \in Cells
    BY <2>1 DEF Cells, Cell, TypeOK
  <2>8. index_pos + 1 \in 1..MaxSeq
    BY <1>1, <2>1
  <2>9. /\ entry \in Seq(Cells) /\ Len(entry) = MaxSeq
        /\ \A i \in 1..index_pos + 1 : entry[i] = Cell(dialog, i - 1)
    BY <1>1, <2>1, <2>6, <2>7, <2>8
  <2> HIDE DEF entry
  <2>10. Holds(entry, dialog, index_pos + 1)
    BY <1>1, <2>1, <2>9 DEF Holds
  <2> DEFINE view == SubSeq(entry, 1, index_pos + 1)
  <2>11. view \in Seq(Cells) /\ Len(view) = index_pos + 1 /\ Holds(view, dialog, index_pos + 1)
    BY <1>1, <2>1, <2>8, <2>9 DEF Holds
  <2> HIDE DEF view
  <2>12. index_pos + 1 \in Nat
    BY <1>1
  <2>13. view = Told(dialog, index_pos + 1)
    BY <2>11, <2>12, HoldsAll
  <2>14. DecodeView(old, index_pos, Fed) = view
    BY <2>3 DEF view
  <2> QED
    BY <1>3, <2>1, <2>3, <2>9, <2>10, <2>13, <2>14
<1> QED
  BY <1>2, <1>3

(* A copy of an entry that is not too long is that entry.                  *)
LEMMA SetKvShort ==
  ASSUME NEW S, NEW s \in Seq(S), Len(s) <= MaxSeq
  PROVE  SetKv(s) = s
<1>1. Len(s) \in Nat /\ MaxSeq \in Nat
  BY MaxSeqAssumption
<1> QED
  BY <1>1 DEF SetKv, Truncated

-----------------------------------------------------------------------------
(* What a step leaves alone.                                               *)

(* The dialog, and with it the positions that count.                       *)
LEMMA DialogSame ==
  ASSUME UNCHANGED dialogVars
  PROVE  /\ deployment' = deployment /\ dialog' = dialog /\ prompt' = prompt
         /\ index_pos' = index_pos /\ generated' = generated
         /\ Layers' = Layers /\ Remote' = Remote /\ ChunkEnd' = ChunkEnd /\ Empty' = Empty
         /\ AllowsDecode' = AllowsDecode /\ RknnPrefill' = RknnPrefill /\ HasPrefill' = HasPrefill
         /\ Fed' = Fed /\ Positions' = Positions
         /\ pc # "sample" => Known = index_pos
         /\ pc' # "sample" => Known' = index_pos
         /\ pc' = "sample" => Known' = index_pos + Len(Fed)
<1>1. /\ deployment' = deployment /\ dialog' = dialog /\ prompt' = prompt
      /\ index_pos' = index_pos /\ generated' = generated
  BY DEF dialogVars
<1>2. Fed' = Fed
  BY <1>1 DEF Fed, Cell
<1> QED
  BY <1>1, <1>2
  DEF Layers, Remote, ChunkEnd, Empty, AllowsDecode, RknnPrefill, HasPrefill, NumLayers, Mode,
      Positions, Cell, Known

(* The entries of the software path.                                       *)
LEMMA HeldSame ==
  ASSUME UNCHANGED dialogVars, Known' = Known,
         cache' = cache, far' = far, force_shadow' = force_shadow
  PROVE  /\ \A l : Newest(l)' <=> Newest(l)
         /\ Even' <=> Even
         /\ FarInv' <=> FarInv
  BY DialogSame DEF Newest, HeldNow, Even, FarInv, Holds, Told

(* The entries of the runner too.                                          *)
LEMMA BetweenSame ==
  ASSUME UNCHANGED dialogVars, Known' = Known,
         cache' = cache, far' = far, force_shadow' = force_shadow,
         runner' = runner, validated' = validated, disabled_dialog' = disabled_dialog
  PROVE  Between' <=> Between
<1>1. /\ \A l : Newest(l)' <=> Newest(l)
      /\ Even' <=> Even
  BY HeldSame
<1> QED
  BY <1>1, DialogSame DEF Between, OnNpu, Prefix, DecodeLast, Told

(* What the invariant says in the middle of a pass.                        *)
LEMMA InDialog ==
  ASSUME SafeInv, EntriesInv, pc # "idle"
  PROVE  /\ TypeOK /\ PassInv
         /\ FarInv /\ RunnerInv /\ CountInv /\ StartInv /\ BetweenInv /\ SoftwareInv
         /\ ReloadInv /\ FallbackInv /\ TailInv /\ SampleInv
         /\ index_pos \in Nat /\ validated \in Nat
         /\ (pc # "sample" /\ validated # 0 => index_pos # 0)
<1>1. TypeOK /\ PassInv /\ CountInv /\ StartInv
  BY DEF SafeInv, EntriesInv
<1>2. Len(ChunkEnd) \in Nat
  <2>1. ChunkEnd \in Seq(Layers)
    BY <1>1, Deployed
  <2> QED
    BY <2>1
<1>3. index_pos \in Nat /\ validated \in Nat
  BY <1>1, <1>2 DEF TypeOK
<1> QED
  BY <1>1, <1>3 DEF EntriesInv, StartInv, Blank

-----------------------------------------------------------------------------
(* One lemma per action, for the entries.                                  *)

(* A step that does not touch the model and does not end a pass.           *)
LEMMA NothingMoves ==
  ASSUME SafeInv, EntriesInv, pc # "idle", pc # "sample", pc' # "idle", pc' # "sample",
         UNCHANGED dialogVars, cache' = cache, far' = far, runner' = runner,
         disabled_dialog' = disabled_dialog, validated' = validated, force_shadow' = force_shadow
  PROVE  /\ Known' = Known
         /\ \A l : Newest(l)' <=> Newest(l)
         /\ (Between' <=> Between) /\ (Even' <=> Even) /\ FarInv' /\ CountInv' /\ SampleInv'
         /\ (Blank' <=> Blank)
         /\ pc # "fallback" /\ pc' # "fallback" => RunnerInv'
<1>1. FarInv /\ RunnerInv /\ CountInv
  BY InDialog
<1>2. Known' = Known
  BY DialogSame
<1>3. /\ \A l : Newest(l)' <=> Newest(l)
      /\ (Between' <=> Between) /\ (Even' <=> Even) /\ FarInv'
  BY <1>1, <1>2, HeldSame, BetweenSame
<1>4. CountInv' /\ SampleInv'
  BY <1>1, DialogSame DEF CountInv, SampleInv
<1>5. Blank' <=> Blank
  BY DialogSame DEF Blank
<1>6. pc # "fallback" /\ pc' # "fallback" => RunnerInv'
  BY <1>1, DialogSame DEF RunnerInv, Prefix, DecodeLast
<1> QED
  BY <1>2, <1>3, <1>4, <1>5, <1>6

(* Enter.                                                                  *)
LEMMA EnterEntries ==
  ASSUME SafeInv, EntriesInv, Enter
  PROVE  EntriesInv'
<1>1. /\ pc = "forward" /\ UNCHANGED dialogVars
      /\ cache' = cache /\ far' = far /\ runner' = runner /\ disabled_dialog' = disabled_dialog
      /\ validated' = validated /\ force_shadow' = force_shadow
  BY DEF Enter, modelVars, flags
<1>2. \/ pc' = "validate" /\ Decodes /\ validated = 0
      \/ pc' = "run" /\ Decodes /\ validated # 0
      \/ pc' = "prefill" /\ Prefills
      \/ pc' = "software" /\ ~Decodes /\ ~Prefills
  BY DEF Enter
<1>3. /\ TypeOK /\ CountInv /\ StartInv /\ Between /\ index_pos \in Nat
      /\ (validated # 0 => index_pos # 0)
  BY <1>1, InDialog DEF BetweenInv
<1>4. /\ \A l : Newest(l)' <=> Newest(l)
      /\ (Between' <=> Between) /\ FarInv' /\ CountInv' /\ SampleInv' /\ RunnerInv'
      /\ (Blank' <=> Blank)
  BY <1>1, <1>2, NothingMoves
<1>5. StartInv'
  <2>1. Decodes => index_pos # 0
    BY <1>3 DEF Decodes
  <2>2. Prefills => index_pos = 0 /\ RknnPrefill /\ HasPrefill
    BY DEF Prefills
  <2> QED
    BY <1>1, <1>2, <1>3, <1>4, <2>1, <2>2, DialogSame DEF StartInv
<1>6. SoftwareInv'
  <2>1. SUFFICES ASSUME ~Decodes, pc' = "software"
                 PROVE  SoftwareInv'
    BY <1>2 DEF SoftwareInv
  <2>2. runner = None \/ validated = 0
    <3>1. SUFFICES ASSUME runner # None, validated # 0
                   PROVE  FALSE
      OBVIOUS
    <3>2. index_pos > 0 /\ AllowsDecode
      BY <1>3, <3>1 DEF CountInv
    <3> QED
      BY <2>1, <3>1, <3>2 DEF Decodes
  <2>3. \A l \in Layers : Newest(l)
    BY <1>3, <2>2 DEF Between, OnNpu
  <2> QED
    BY <1>1, <1>4, <2>2, <2>3, DialogSame DEF SoftwareInv
<1>7. BetweenInv' /\ ReloadInv' /\ FallbackInv' /\ TailInv'
  BY <1>2, <1>3, <1>4 DEF BetweenInv, ReloadInv, FallbackInv, TailInv
<1> QED
  BY <1>4, <1>5, <1>6, <1>7 DEF EntriesInv

(* A runner that is loaded is empty.                                       *)
LEMMA LoadedEmpty ==
  ASSUME TypeOK, ChunkEnd # <<>>, Loaded
  PROVE  /\ runner' # None => runner'.kv = Empty /\ runner'.synced = FALSE
         /\ runner' = None => disabled_dialog' = TRUE
         /\ runner' # None => disabled_dialog' = disabled_dialog
<1>1. /\ Fresh(Limit) # None /\ Fresh(Limit).kv = Empty /\ Fresh(Limit).synced = FALSE
  BY LimitType, FreshType DEF Fresh
<1> QED
  BY <1>1 DEF Loaded

(* A step that loads a runner, with the even entries it will start from.   *)
LEMMA LoadedBetween ==
  ASSUME SafeInv, EntriesInv, pc # "sample", pc' \notin {"sample", "idle"}, ChunkEnd # <<>>, Loaded,
         UNCHANGED dialogVars, cache' = cache, far' = far, validated' = validated,
         force_shadow' = force_shadow, pc # "idle",
         Even, \A l \in Layers : Newest(l)
  PROVE  Between' /\ FarInv' /\ CountInv' /\ SampleInv' /\ RunnerInv' /\ (Blank => Blank')
<1>1. TypeOK /\ FarInv /\ RunnerInv /\ CountInv
  BY InDialog
<1>2. /\ runner' # None => runner'.kv = Empty /\ runner'.synced = FALSE
      /\ runner' = None => disabled_dialog' = TRUE
  BY <1>1, LoadedEmpty
<1>3. Known' = Known
  BY DialogSame
<1>4. (\A l : Newest(l)' <=> Newest(l)) /\ Even' /\ FarInv'
  BY <1>1, <1>3, HeldSame
<1>5. Between'
  BY <1>2, <1>4, DialogSame DEF Between, OnNpu
<1>6. CountInv' /\ SampleInv'
  BY <1>1, DialogSame DEF CountInv, SampleInv
<1>7. RunnerInv'
  BY <1>2, DialogSame DEF RunnerInv, Empty
<1>8. Blank => Blank'
  BY <1>2, DialogSame DEF Blank
<1> QED
  BY <1>4, <1>5, <1>6, <1>7, <1>8

(* Load.                                                                   *)
LEMMA LoadEntries ==
  ASSUME SafeInv, EntriesInv, Load
  PROVE  EntriesInv'
<1>1. /\ pc = "forward" /\ pc' = pc /\ LoadsFirst /\ Loaded
      /\ UNCHANGED dialogVars /\ cache' = cache /\ far' = far /\ validated' = validated
      /\ force_shadow' = force_shadow
  BY DEF Load
<1>2. ChunkEnd # <<>> /\ runner = None /\ ~disabled_dialog
  BY <1>1 DEF LoadsFirst, MustLoad, NeedsRuntime
<1>3. StartInv /\ Between
  BY <1>1, InDialog DEF BetweenInv
<1>4. Even /\ \A l \in Layers : Newest(l)
  BY <1>2, <1>3 DEF Between, OnNpu
<1>5. Between' /\ FarInv' /\ CountInv' /\ SampleInv' /\ RunnerInv' /\ (Blank => Blank')
  BY <1>1, <1>2, <1>4, LoadedBetween
<1>6. StartInv'
  BY <1>1, <1>3, <1>5, DialogSame DEF StartInv
<1>7. BetweenInv' /\ SoftwareInv' /\ ReloadInv' /\ FallbackInv' /\ TailInv'
  BY <1>1, <1>5 DEF BetweenInv, SoftwareInv, ReloadInv, FallbackInv, TailInv
<1> QED
  BY <1>5, <1>6, <1>7 DEF EntriesInv

(* Reload.                                                                 *)
LEMMA ReloadEntries ==
  ASSUME SafeInv, EntriesInv, Reload
  PROVE  EntriesInv'
<1>1. /\ pc = "reload" /\ pc' = "run" /\ Loaded
      /\ UNCHANGED dialogVars /\ cache' = cache /\ far' = far /\ validated' = validated
      /\ force_shadow' = force_shadow
  BY DEF Reload
<1>2. TypeOK /\ PassInv /\ StartInv /\ Between /\ runner = None /\ Even
  BY <1>1, InDialog DEF BetweenInv, ReloadInv
<1>3. ChunkEnd # <<>>
  <2>1. validated # 0 /\ validated \in 0..Len(ChunkEnd)
    BY <1>1, <1>2 DEF PassInv, TypeOK
  <2>2. CASE ChunkEnd = <<>>
    BY <2>1, <2>2
  <2> QED
    BY <2>2
<1>4. \A l \in Layers : Newest(l)
  BY <1>2 DEF Between, OnNpu
<1>5. Between' /\ FarInv' /\ CountInv' /\ SampleInv' /\ RunnerInv' /\ (Blank => Blank')
  BY <1>1, <1>2, <1>3, <1>4, LoadedBetween
<1>6. StartInv'
  BY <1>1, <1>2, <1>5, DialogSame DEF StartInv
<1>7. BetweenInv' /\ SoftwareInv' /\ ReloadInv' /\ FallbackInv' /\ TailInv'
  BY <1>1, <1>5 DEF BetweenInv, SoftwareInv, ReloadInv, FallbackInv, TailInv
<1> QED
  BY <1>5, <1>6, <1>7 DEF EntriesInv

(* ReloadFails.                                                            *)
LEMMA ReloadFailsEntries ==
  ASSUME SafeInv, EntriesInv, ReloadFails
  PROVE  EntriesInv'
<1>1. /\ pc = "reload" /\ pc' = "unvalidated" /\ UNCHANGED dialogVars
      /\ cache' = cache /\ far' = far /\ runner' = runner /\ disabled_dialog' = disabled_dialog
      /\ validated' = validated /\ force_shadow' = force_shadow
  BY DEF ReloadFails, modelVars, flags
<1>2. StartInv /\ Between /\ runner = None
  BY <1>1, InDialog DEF BetweenInv, ReloadInv
<1>3. \A l \in Layers : Newest(l)
  BY <1>2 DEF Between, OnNpu
<1>4. /\ \A l : Newest(l)' <=> Newest(l)
      /\ FarInv' /\ CountInv' /\ SampleInv' /\ RunnerInv' /\ (Blank' <=> Blank)
  BY <1>1, NothingMoves
<1>5. StartInv'
  BY <1>1, <1>2, <1>4, DialogSame DEF StartInv
<1>6. SoftwareInv'
  BY <1>1, <1>2, <1>3, <1>4, DialogSame DEF SoftwareInv
<1>7. BetweenInv' /\ ReloadInv' /\ FallbackInv' /\ TailInv'
  BY <1>1 DEF BetweenInv, ReloadInv, FallbackInv, TailInv
<1> QED
  BY <1>4, <1>5, <1>6, <1>7 DEF EntriesInv

(* A copy to the cache that does not fail takes all layers of the runner.  *)
LEMMA WholeCopy ==
  ASSUME TypeOK, NEW kv, SyncToCache(kv), faults'["sync"] = 0
  PROVE  cache' = [l \in Layers |-> IF kv[l] # <<>> THEN SetKv(kv[l]) ELSE cache[l]]
<1>1. ~Fault("sync")
  <2>1. SUFFICES ASSUME Fault("sync") PROVE FALSE
    OBVIOUS
  <2> QED
    BY <2>1, FaultCounted DEF FaultKinds
<1>2. cache' = SyncedTo(kv, NumLayers)
  BY <1>1 DEF SyncToCache
<1>3. \A l \in Layers : l < NumLayers
  BY Deployed DEF Layers
<1> QED
  BY <1>2, <1>3 DEF SyncedTo

(* A copy that hands over to the software path: what it copies has to hold *)
(* the dialog, and where it copies nothing the entries have to already.    *)
LEMMA CopyHandsOver ==
  ASSUME SafeInv, EntriesInv, pc \notin {"idle", "sample"}, pc' = "software", index_pos # 0,
         runner # None, SyncToCache(runner.kv), faults'["sync"] = 0, runner' = None,
         UNCHANGED dialogVars, far' = far, validated' = validated, force_shadow' = force_shadow,
         \A l \in Layers :
           IF runner.kv[l] = <<>> THEN Newest(l)
           ELSE index_pos <= MaxSeq => Holds(SetKv(runner.kv[l]), dialog, index_pos)
  PROVE  EntriesInv'
<1>1. /\ TypeOK /\ FarInv /\ RunnerInv /\ CountInv /\ index_pos \in Nat
      /\ cache \in Entries
  BY InDialog, InPass
<1>2. cache' = [l \in Layers |-> IF runner.kv[l] # <<>> THEN SetKv(runner.kv[l]) ELSE cache[l]]
  BY <1>1, WholeCopy
<1>3. Known = index_pos /\ Known' = index_pos
  BY DialogSame
<1>4. ASSUME NEW l \in Layers
      PROVE  Newest(l)'
  <2>1. CASE runner.kv[l] = <<>>
    <3>1. cache'[l] = cache[l] /\ Newest(l)
      BY <1>2, <2>1
    <3> QED
      BY <1>3, <3>1, DialogSame DEF Newest, HeldNow, Holds
  <2>2. CASE runner.kv[l] # <<>>
    <3>1. l \notin Remote /\ ~force_shadow
      BY <1>1, <2>2 DEF RunnerInv
    <3>2. cache'[l] = SetKv(runner.kv[l])
      BY <1>2, <2>2
    <3>3. HeldNow(l)' = SetKv(runner.kv[l])
      BY <3>1, <3>2, DialogSame DEF HeldNow
    <3>4. index_pos <= MaxSeq => Holds(SetKv(runner.kv[l]), dialog, index_pos)
      BY <2>2
    <3> QED
      BY <1>3, <3>3, <3>4, DialogSame DEF Newest
  <2> QED
    BY <2>1, <2>2
<1>5. FarInv'
  BY <1>1, <1>2, DialogSame DEF FarInv, RunnerInv
<1>6. RunnerInv' /\ CountInv' /\ StartInv' /\ SampleInv'
  BY <1>1, DialogSame DEF RunnerInv, CountInv, StartInv, SampleInv
<1>7. SoftwareInv'
  BY <1>4, DialogSame DEF SoftwareInv
<1>8. BetweenInv' /\ ReloadInv' /\ FallbackInv' /\ TailInv'
  BY DEF BetweenInv, ReloadInv, FallbackInv, TailInv
<1> QED
  BY <1>5, <1>6, <1>7, <1>8 DEF EntriesInv

(* BucketGuard.                                                            *)
LEMMA BucketGuardEntries ==
  ASSUME SafeInv, EntriesInv, BucketGuard, GuardCopiesAll, faults'["sync"] = 0
  PROVE  EntriesInv'
<1>1. /\ pc = "forward" /\ Decodes /\ OutOfBuckets(runner) /\ pc' = "software"
      /\ SyncToCache(runner.kv) /\ runner' = None
      /\ UNCHANGED dialogVars /\ far' = far
      /\ validated' = validated /\ force_shadow' = force_shadow
  BY DEF BucketGuard
<1>2. /\ TypeOK /\ RunnerInv /\ Between /\ index_pos \in Nat /\ Known = index_pos
  BY <1>1, InDialog, DialogSame DEF BetweenInv
<1>3. runner # None /\ index_pos # 0
  BY <1>1, <1>2 DEF Decodes
<1>4. ASSUME NEW l \in Layers
      PROVE  IF runner.kv[l] = <<>> THEN Newest(l)
             ELSE index_pos <= MaxSeq => Holds(SetKv(runner.kv[l]), dialog, index_pos)
  <2>1. CASE validated = 0
    BY <1>1, <1>2, <2>1 DEF GuardCopiesAll, Between, OnNpu
  <2>2. CASE validated # 0 /\ ~runner.synced
    BY <1>1, <1>2, <1>3, <2>2 DEF Between, OnNpu, RunnerInv, Empty
  <2>3. CASE validated # 0 /\ runner.synced
    <3>1. OnNpu
      BY <1>3, <2>3 DEF OnNpu
    <3>2. CASE l \in Prefix(runner)
      <4>1. runner.kv[l] = Told(dialog, index_pos)
        BY <1>2, <3>1, <3>2 DEF Between
      <4>2. /\ runner.kv[l] # <<>> /\ Len(runner.kv[l]) = index_pos
            /\ Holds(runner.kv[l], dialog, index_pos)
            /\ runner.kv[l] \in Seq({Cell(dialog, i) : i \in Nat})
        BY <1>2, <1>3, <4>1, ToldShape
      <4> QED
        BY <4>2, SetKvShort
    <3>3. CASE l \notin Prefix(runner)
      <4>1. runner.kv[l] = <<>>
        BY <1>2, <1>3, <2>3, <3>3 DEF RunnerInv
      <4>2. Newest(l)
        BY <1>2, <3>1, <3>3 DEF Between
      <4> QED
        BY <4>1, <4>2
    <3> QED
      BY <3>2, <3>3
  <2> QED
    BY <2>1, <2>2, <2>3
<1> QED
  BY <1>1, <1>3, <1>4, CopyHandsOver

(* Fallback.                                                               *)
LEMMA FallbackEntries ==
  ASSUME SafeInv, EntriesInv, Fallback, faults'["sync"] = 0
  PROVE  EntriesInv'
<1>1. /\ pc = "fallback" /\ pc' = "software"
      /\ SyncToCache(runner.kv) /\ runner' = None
      /\ UNCHANGED dialogVars /\ far' = far
      /\ validated' = validated /\ force_shadow' = force_shadow
  BY DEF Fallback, flags
<1>2. TypeOK /\ PassInv /\ StartInv /\ FallbackInv /\ index_pos \in Nat
  BY <1>1, InDialog
<1>3. runner # None /\ index_pos # 0
  BY <1>1, <1>2 DEF PassInv, StartInv
<1>4. ASSUME NEW l \in Layers
      PROVE  IF runner.kv[l] = <<>> THEN Newest(l)
             ELSE index_pos <= MaxSeq => Holds(SetKv(runner.kv[l]), dialog, index_pos)
  <2>1. runner.kv[l] \in Seq(Cells)
    BY <1>2, <1>3, RunnerType DEF Entries
  <2>2. IF runner.kv[l] = <<>> THEN Newest(l)
        ELSE index_pos <= MaxSeq =>
               Holds(runner.kv[l], dialog, index_pos) /\ Len(runner.kv[l]) <= MaxSeq
    BY <1>1, <1>2 DEF FallbackInv
  <2> QED
    BY <2>1, <2>2, SetKvShort
<1> QED
  BY <1>1, <1>3, <1>4, CopyHandsOver

(* RknnPrefillFails.                                                       *)
LEMMA RknnPrefillFailsEntries ==
  ASSUME SafeInv, EntriesInv, RknnPrefillFails
  PROVE  EntriesInv'
<1>1. /\ pc = "prefill" /\ pc' = "software" /\ runner' = None /\ UNCHANGED dialogVars
      /\ cache' = cache /\ far' = far /\ validated' = validated /\ force_shadow' = force_shadow
  BY DEF RknnPrefillFails
<1>2. /\ TypeOK /\ FarInv /\ CountInv /\ index_pos = 0 /\ Blank
      /\ cache \in Entries /\ far \in Entries
  BY <1>1, InDialog, InPass DEF StartInv
<1>3. Known = index_pos /\ Known' = index_pos /\ Known' = Known
  BY <1>1, DialogSame
<1>4. \A l \in Layers : Newest(l)'
  <2>1. \A l \in Layers : Len(cache[l]) >= 0 /\ Len(far[l]) >= 0
    BY <1>2 DEF Entries
  <2> QED
    BY <1>1, <1>2, <1>3, <2>1, DialogSame DEF Newest, HeldNow, Holds
<1>5. FarInv'
  BY <1>1, <1>2, <1>3, HeldSame
<1>6. StartInv'
  BY <1>1, <1>2, DialogSame DEF StartInv, Blank
<1>7. RunnerInv' /\ CountInv' /\ SampleInv'
  BY <1>1, <1>2, DialogSame DEF RunnerInv, CountInv, SampleInv
<1>8. SoftwareInv'
  BY <1>1, <1>4, DialogSame DEF SoftwareInv
<1>9. BetweenInv' /\ ReloadInv' /\ FallbackInv' /\ TailInv'
  BY <1>1 DEF BetweenInv, ReloadInv, FallbackInv, TailInv
<1> QED
  BY <1>5, <1>6, <1>7, <1>8, <1>9 DEF EntriesInv

(* RknnPrefillPass: where decode goes on from ctx.cache it is filled.      *)
LEMMA RknnPrefillPassEntries ==
  ASSUME SafeInv, EntriesInv, Sound, RknnPrefillPass
  PROVE  EntriesInv'
<1> DEFINE kv == [l \in Layers |-> Fed]
<1>1. /\ pc = "prefill" /\ pc' = "sample"
      /\ runner' = [runner EXCEPT !.kv = kv, !.synced = TRUE]
      /\ cache' = IF ~AllowsDecode \/ ~CoversAll(runner) THEN SyncedTo(kv, NumLayers) ELSE cache
      /\ contexts' = kv /\ UNCHANGED dialogVars /\ far' = far
      /\ validated' = validated /\ force_shadow' = force_shadow
      /\ disabled_dialog' = disabled_dialog
  BY DEF RknnPrefillPass, flags
<1>2. /\ TypeOK /\ PassInv /\ CountInv /\ RunnerInv /\ index_pos = 0 /\ Blank
      /\ RknnPrefill /\ HasPrefill
  BY <1>1, InDialog DEF StartInv
<1>3. runner # None /\ ~force_shadow /\ validated = 0
  BY <1>1, <1>2 DEF PassInv, Blank
<1>4. Remote = {}
  BY <1>2 DEF Sound
<1>5. ~AllowsDecode \/ ~CoversAll(runner)
  <2>1. SUFFICES ASSUME AllowsDecode, CoversAll(runner)
                 PROVE  FALSE
    OBVIOUS
  <2>2. /\ ChunkEnd \in Seq(Layers) /\ NumLayers \in Nat \ {0}
        /\ \A i, j \in DOMAIN ChunkEnd : i < j => ChunkEnd[i] < ChunkEnd[j]
    BY <1>2, Deployed
  <2>3. /\ Len(ChunkEnd) \in Nat /\ DOMAIN ChunkEnd = 1..Len(ChunkEnd)
        /\ \A i \in DOMAIN ChunkEnd : ChunkEnd[i] \in Nat /\ ChunkEnd[i] < NumLayers
    BY <2>2 DEF Layers
  <2>4. runner.chunks \in 1..Len(ChunkEnd) /\ ChunkEnd # <<>>
    BY <1>2, <1>3, <2>3, RunnerType
  <2>5. ChunkEnd[Len(ChunkEnd)] # NumLayers - 1
    BY <1>2, <2>1, <2>4 DEF Sound
  <2>6. ChunkEnd[runner.chunks] + 1 = NumLayers
    BY <2>1 DEF CoversAll, DecodeLast
  <2>7. runner.chunks # Len(ChunkEnd)
    BY <2>2, <2>3, <2>4, <2>5, <2>6
  <2>8. ChunkEnd[runner.chunks] < ChunkEnd[Len(ChunkEnd)]
    BY <2>2, <2>3, <2>4, <2>7
  <2> QED
    BY <2>2, <2>3, <2>4, <2>6, <2>8
<1>6. /\ Fed = Told(dialog, prompt) /\ Len(Fed) = prompt /\ prompt \in Nat \ {0}
      /\ Positions = Told(dialog, index_pos + Len(Fed))
  BY <1>2, FedShape
<1>7. Known' = prompt /\ Positions = Told(dialog, prompt)
  BY <1>1, <1>2, <1>6, DialogSame
<1>8. Fed # <<>> /\ Fed \in Seq(Cells) /\ Holds(Fed, dialog, prompt)
  BY <1>2, <1>6, FedType, ToldShape
<1>9. cache' = [l \in Layers |-> SetKv(Fed)]
  <2>1. \A l \in Layers : l < NumLayers
    BY <1>2, Deployed DEF Layers
  <2> QED
    BY <1>1, <1>5, <1>8, <2>1 DEF SyncedTo
<1>10. /\ prompt <= MaxSeq => SetKv(Fed) = Fed
       /\ prompt > MaxSeq => Len(SetKv(Fed)) = MaxSeq
  <2>1. MaxSeq \in Nat
    BY MaxSeqAssumption
  <2>2. CASE prompt <= MaxSeq
    BY <1>6, <1>8, <2>1, <2>2, SetKvShort
  <2>3. CASE prompt > MaxSeq
    BY <1>6, <1>8, <2>1, <2>3 DEF SetKv, Truncated, LastCells
  <2> QED
    BY <1>6, <2>1, <2>2, <2>3
<1>11. \A l \in Layers : Newest(l)'
  BY <1>1, <1>3, <1>4, <1>7, <1>8, <1>9, <1>10, DialogSame DEF Newest, HeldNow
<1>12. Even'
  <2>1. MaxSeq \in Nat
    BY MaxSeqAssumption
  <2>2. prompt <= MaxSeq \/ prompt > MaxSeq
    BY <1>6, <2>1
  <2>3. CASE prompt <= MaxSeq
    <3>1. \A l \in Layers : cache'[l] = Told(dialog', Known')
      BY <1>1, <1>6, <1>7, <1>9, <1>10, <2>3, DialogSame
    <3> QED
      BY <1>1, <3>1, DialogSame DEF Even
  <2>4. CASE prompt > MaxSeq
    <3>1. \A l \in Layers : Len(cache'[l]) = MaxSeq
      BY <1>9, <1>10, <2>4
    <3> QED
      BY <1>1, <3>1, DialogSame DEF Even
  <2> QED
    BY <2>2, <2>3, <2>4
<1>13. Between'
  BY <1>1, <1>3, <1>11, <1>12, DialogSame DEF Between, OnNpu
<1>14. SampleInv'
  BY <1>1, <1>6, <1>7, DialogSame DEF SampleInv
<1>15. runner' # None => runner'.kv = kv
  BY <1>1, <1>2, <1>3, RunnerType DEF Runners
<1>16. RunnerInv'
  <2>1. \A l \in Layers : kv[l] # <<>>
    BY <1>8
  <2>2. Prefix(runner)' \subseteq Layers
    <3>1. runner'.chunks = runner.chunks
      BY <1>1, <1>2, <1>3, RunnerType DEF Runners
    <3> QED
      BY <1>1, <1>2, <1>3, <3>1, RunnerType, DialogSame DEF Prefix, DecodeLast
  <2> HIDE DEF kv
  <2> QED
    BY <1>1, <1>3, <1>4, <1>15, <2>1, <2>2, DialogSame DEF RunnerInv
<1>17. FarInv' /\ CountInv'
  BY <1>1, <1>2, <1>3, <1>4, DialogSame DEF FarInv, CountInv
<1>18. StartInv' /\ BetweenInv' /\ SoftwareInv' /\ ReloadInv' /\ FallbackInv' /\ TailInv'
  BY <1>1, <1>13 DEF StartInv, BetweenInv, SoftwareInv, ReloadInv, FallbackInv, TailInv
<1> QED
  BY <1>14, <1>16, <1>17, <1>18 DEF EntriesInv

(* What a layer of the software path makes of its entry, wherever it is.   *)
LEMMA SoftwareLayer ==
  ASSUME TypeOK, CountInv, Known = index_pos, RotaryInRange(index_pos, Len(Fed)),
         NEW l \in Layers, Newest(l)
  PROVE  /\ Holds(DecodeEntry(Held(l), index_pos, Fed), dialog, index_pos + Len(Fed))
         /\ SoftwareContext(l) = Positions
         /\ index_pos = 0 => DecodeEntry(Held(l), index_pos, Fed) = Positions
         /\ index_pos # 0 => Len(DecodeEntry(Held(l), index_pos, Fed)) = MaxSeq
<1>1. /\ index_pos \in Nat /\ MaxSeq \in Nat /\ Len(Fed) \in Nat \ {0}
      /\ index_pos + Len(Fed) <= MaxSeq
  BY FedShape, MaxSeqAssumption DEF TypeOK, RotaryInRange
<1>2. Held(l) \in Seq(Cells)
  BY DEF Held, TypeOK, Entries
<1>3. Holds(Held(l), dialog, index_pos)
  <2>1. CASE index_pos = 0
    BY <1>2, <2>1 DEF Holds
  <2>2. CASE index_pos # 0
    <3>1. Held(l) = HeldNow(l)
      BY <2>2 DEF Held, HeldNow, IsFar, ShadowPass
    <3>2. index_pos <= MaxSeq
      BY <1>1
    <3> QED
      BY <3>1, <3>2 DEF Newest
  <2> QED
    BY <2>1, <2>2
<1> QED
  BY <1>2, <1>3, DecodeHolds DEF SoftwareContext

(* The layers that a pass computes elsewhere stay elsewhere.               *)
LEMMA FarStays ==
  ASSUME TypeOK, Sound, CountInv, NEW L, NEW l \in L, L \subseteq Layers,
         NEW later, later <=> force_shadow \/ Promotes(L)
  PROVE  IsFar(l) <=> l \in Remote \/ later
<1>1. CASE index_pos = 0
  <2>1. Promotes(L) => ShadowPass
    BY DEF Promotes, ShadowPass
  <2>2. ShadowPass /\ l \notin Remote => force_shadow \/ Promotes(L)
    BY DEF ShadowPass, Promotes, Sound
  <2> QED
    BY <2>1, <2>2 DEF IsFar, ShadowPass
<1>2. CASE index_pos # 0
  BY <1>2 DEF IsFar, ShadowPass, Promotes
<1> QED
  BY <1>1, <1>2

(* Software.                                                               *)
LEMMA SoftwareEntries ==
  ASSUME SafeInv, EntriesInv, Sound, Software
  PROVE  EntriesInv'
<1>1. /\ pc \in {"software", "unvalidated", "tail"} /\ pc' = "sample"
      /\ ToDo # {} => RotaryInRange(index_pos, Len(Fed))
      /\ cache' = SoftwareCache(ToDo) /\ far' = SoftwareFar(ToDo)
      /\ (force_shadow' <=> force_shadow \/ Promotes(ToDo))
      /\ contexts' = [l \in Layers |-> IF l \in ToDo THEN SoftwareContext(l) ELSE contexts[l]]
      /\ UNCHANGED dialogVars /\ runner' = runner /\ disabled_dialog' = disabled_dialog
      /\ validated' = validated
  BY DEF Software, OnSoftware
<1>2. /\ TypeOK /\ PassInv /\ FarInv /\ RunnerInv /\ CountInv /\ StartInv /\ SoftwareInv /\ TailInv
      /\ index_pos \in Nat /\ (index_pos = 0 => pc = "software" /\ Blank)
  BY <1>1, InDialog DEF StartInv
<1>3. /\ Len(Fed) \in Nat \ {0} /\ index_pos + Len(Fed) \in Nat \ {0}
      /\ (index_pos # 0 => Len(Fed) = 1)
      /\ Positions = Told(dialog, index_pos + Len(Fed))
  BY <1>2, FedShape
<1>4. Known = index_pos /\ Known' = index_pos + Len(Fed)
  BY <1>1, DialogSame
<1>5. /\ ToDo \subseteq Layers
      /\ pc # "tail" => ToDo = Layers
      /\ pc = "tail" => runner # None /\ ToDo = Layers \ Prefix(runner)
  <2>1. NumLayers \in Nat \ {0}
    BY <1>2, Deployed
  <2>2. CASE pc # "tail"
    BY <2>1, <2>2 DEF ToDo, FromLayer, Layers
  <2>3. CASE pc = "tail"
    <3>1. runner # None
      BY <1>2, <2>3 DEF PassInv
    <3>2. DecodeLast(runner) \in Layers
      BY <1>2, <3>1, RunnerType
    <3> QED
      BY <2>1, <2>3, <3>1, <3>2 DEF ToDo, FromLayer, Layers, Prefix
  <2> QED
    BY <2>2, <2>3
<1>6. \A l \in ToDo : Newest(l)
  BY <1>1, <1>2, <1>5 DEF SoftwareInv, TailInv
<1>7. \A l \in ToDo : IsFar(l) <=> l \in Remote \/ force_shadow'
  BY <1>1, <1>2, <1>5, FarStays
<1>8. ASSUME NEW l \in ToDo
      PROVE  /\ l \in Layers
             /\ Holds(DecodeEntry(Held(l), index_pos, Fed), dialog, index_pos + Len(Fed))
             /\ SoftwareContext(l) = Positions
             /\ index_pos = 0 => DecodeEntry(Held(l), index_pos, Fed) = Positions
             /\ index_pos # 0 => Len(DecodeEntry(Held(l), index_pos, Fed)) = MaxSeq
  BY <1>1, <1>2, <1>4, <1>5, <1>6, SoftwareLayer
<1>9. ASSUME NEW l \in ToDo
      PROVE  /\ HeldNow(l)' = DecodeEntry(Held(l), index_pos, Fed)
             /\ IsFar(l) => cache'[l] = cache[l]
             /\ ~IsFar(l) => cache'[l] = DecodeEntry(Held(l), index_pos, Fed)
  <2>1. l \in Layers
    BY <1>5
  <2>2. CASE IsFar(l)
    <3>1. far'[l] = DecodeEntry(Held(l), index_pos, Fed) /\ cache'[l] = cache[l]
      BY <1>1, <2>1, <2>2 DEF SoftwareFar, SoftwareCache, Held
    <3> QED
      BY <1>1, <1>7, <2>2, <3>1, DialogSame DEF HeldNow
  <2>3. CASE ~IsFar(l)
    <3>1. cache'[l] = DecodeEntry(Held(l), index_pos, Fed)
      BY <1>1, <2>1, <2>3 DEF SoftwareCache, Held
    <3> QED
      BY <1>1, <1>7, <2>3, <3>1, DialogSame DEF HeldNow
  <2> QED
    BY <2>2, <2>3
<1>10. \A l \in ToDo : Newest(l)'
  BY <1>1, <1>4, <1>8, <1>9, DialogSame DEF Newest
<1>11. \A l \in ToDo : contexts'[l] = Positions
  BY <1>1, <1>8
<1>12. \A l \in Layers : IsFar(l) => cache[l] = <<>>
  <2>1. CASE index_pos = 0
    BY <1>2, <2>1 DEF Blank, Empty
  <2>2. CASE index_pos # 0
    BY <1>2, <2>2 DEF FarInv, IsFar, ShadowPass
  <2> QED
    BY <2>1, <2>2
<1>13. FarInv'
  <2>1. index_pos # 0 => (force_shadow' <=> force_shadow)
    BY <1>1 DEF Promotes
  <2>2. ASSUME NEW l \in Layers, l \in Remote \/ force_shadow'
        PROVE  cache'[l] = <<>>
    <3>1. CASE l \in ToDo
      BY <1>7, <1>9, <1>12, <2>2, <3>1
    <3>2. CASE l \notin ToDo
      <4>1. cache'[l] = cache[l]
        BY <1>1, <2>2, <3>2 DEF SoftwareCache
      <4>2. index_pos # 0
        BY <1>2, <1>5, <2>2, <3>2
      <4> QED
        BY <1>2, <2>1, <2>2, <4>1, <4>2 DEF FarInv
    <3> QED
      BY <3>1, <3>2
  <2> QED
    BY <1>1, <2>2, DialogSame DEF FarInv
<1>14. RunnerInv'
  <2>1. CASE index_pos = 0
    <3>1. validated = 0 /\ (runner # None => runner.kv = Empty /\ ~runner.synced)
      BY <1>2, <2>1 DEF Blank
    <3> QED
      BY <1>1, <3>1, DialogSame DEF RunnerInv, Empty
  <2>2. CASE index_pos # 0
    <3>1. force_shadow' <=> force_shadow
      BY <1>1, <2>2 DEF Promotes
    <3> QED
      BY <1>1, <1>2, <3>1, DialogSame DEF RunnerInv, Prefix, DecodeLast
  <2> QED
    BY <2>1, <2>2
<1>15. CASE pc = "tail"
  <2>1. runner # None /\ validated # 0 /\ runner.synced /\ index_pos # 0 /\ Len(Fed) = 1
    BY <1>2, <1>3, <1>15 DEF PassInv, TailInv
  <2>2. \A l \in Prefix(runner) \cap Layers :
          /\ runner.kv[l] = Told(dialog, index_pos + 1)
          /\ contexts[l] = Told(dialog, index_pos + 1)
    BY <1>2, <1>15 DEF TailInv
  <2>3. Between'
    <3>1. Prefix(runner)' = Prefix(runner)
      BY <1>1, DialogSame DEF Prefix, DecodeLast
    <3>2. Told(dialog', Known') = Told(dialog, index_pos + 1)
      BY <1>1, <1>4, <2>1, DialogSame
    <3>3. \A l \in Layers :
            IF l \in Prefix(runner) THEN runner.kv[l] = Told(dialog', Known') ELSE Newest(l)'
      BY <1>5, <1>10, <1>15, <2>2, <3>2
    <3>4. OnNpu'
      BY <1>1, <2>1 DEF OnNpu
    <3> QED
      BY <1>1, <3>1, <3>3, <3>4, DialogSame DEF Between
  <2>4. SampleInv'
    <3>1. \A l \in Layers : contexts'[l] = Positions
      BY <1>1, <1>3, <1>5, <1>11, <1>15, <2>1, <2>2
    <3> QED
      BY <1>1, <3>1, DialogSame DEF SampleInv
  <2> QED
    BY <2>3, <2>4, <1>1, <1>2, <1>13, <1>14, DialogSame
    DEF EntriesInv, CountInv, StartInv, BetweenInv, SoftwareInv, ReloadInv, FallbackInv, TailInv
<1>16. CASE pc # "tail"
  <2>1. ToDo = Layers
    BY <1>5, <1>16
  <2>2. ~OnNpu'
    BY <1>1, <1>2, <1>16 DEF OnNpu, SoftwareInv
  <2>3. Even'
    <3>1. CASE index_pos = 0
      <4>1. \A l \in Layers : cache'[l] = <<>> \/ cache'[l] = Told(dialog', Known')
        BY <1>1, <1>3, <1>4, <1>8, <1>9, <1>12, <2>1, <3>1, DialogSame
      <4> QED
        BY <1>1, <4>1, DialogSame DEF Even
    <3>2. CASE index_pos # 0
      <4>1. \A l \in Layers : Len(cache'[l]) = 0 \/ Len(cache'[l]) = MaxSeq
        BY <1>8, <1>9, <1>12, <2>1, <3>2
      <4> QED
        BY <1>1, <4>1, DialogSame DEF Even
    <3> QED
      BY <3>1, <3>2
  <2>4. Between'
    BY <1>1, <1>10, <2>1, <2>2, <2>3, DialogSame DEF Between
  <2>5. SampleInv'
    BY <1>1, <1>11, <2>1, DialogSame DEF SampleInv
  <2> QED
    BY <2>4, <2>5, <1>1, <1>2, <1>13, <1>14, DialogSame
    DEF EntriesInv, CountInv, StartInv, BetweenInv, SoftwareInv, ReloadInv, FallbackInv, TailInv
<1> QED
  BY <1>15, <1>16

-----------------------------------------------------------------------------
(* The runner.                                                             *)

(* What a run of the first n chunks starts from and leaves.                *)
LEMMA RanEntries ==
  ASSUME TypeOK, RunnerInv, FarInv, runner # None, CanSync, NEW n \in 0..runner.chunks
  PROVE  /\ \A l \in Layers : l \in Prefix(runner) =>
              /\ Base[l] # <<>> /\ Base[l] \in Seq(Cells) /\ l \notin Remote /\ ~force_shadow
              /\ Ran(n).kv[l] # <<>>
              /\ Ran(n).kv[l] = Base[l] \/ (n # 0 /\ Ran(n).kv[l] = Base[l] \o Fed)
              /\ n = runner.chunks => Ran(n).kv[l] = Base[l] \o Fed
         /\ \A l \in Layers : l \notin Prefix(runner) =>
              Base[l] = runner.kv[l] /\ Ran(n).kv[l] = runner.kv[l]
         /\ Ran(n).synced = TRUE /\ Ran(n).chunks = runner.chunks
         /\ \A l \in Layers : Ran(n).kv[l] # <<>> => l \notin Remote /\ ~force_shadow
<1> DEFINE kv == [l \in Layers |->
                    IF \E i \in 1..n : l \in ChunkLayers(i) THEN Base[l] \o Fed ELSE Base[l]]
<1>1. runner \in Runners
  BY RunnerType
<1>2. Ran(n).synced = TRUE /\ Ran(n).kv = kv /\ Ran(n).chunks = runner.chunks
  <2>1. Ran(n) = [runner EXCEPT !.synced = TRUE, !.kv = kv]
    BY DEF Ran
  <2> HIDE DEF kv
  <2> QED
    BY <1>1, <2>1 DEF Runners
<1>3. /\ \A l \in Layers :
           l \in Prefix(runner) <=> \E i \in 1..runner.chunks : l \in ChunkLayers(i)
      /\ runner.chunks \in Nat
  BY ChunksCover
<1>4. /\ Base \in Entries /\ Fed \in Seq(Cells)
      /\ \A l \in Layers : Base[l] \in Seq(Cells)
  BY RanType, FedType DEF Entries
<1>5. ASSUME NEW l \in Layers, l \in Prefix(runner)
      PROVE  Base[l] # <<>> /\ l \notin Remote /\ ~force_shadow
  <2>1. CASE runner.synced
    BY <1>5, <2>1 DEF Base, RunnerInv
  <2>2. CASE ~runner.synced
    BY <1>5, <2>2 DEF Base, CanSync, FarInv
  <2> QED
    BY <2>1, <2>2
<1>6. ASSUME NEW l \in Layers, l \in Prefix(runner)
      PROVE  /\ kv[l] # <<>>
             /\ kv[l] = Base[l] \/ (n # 0 /\ kv[l] = Base[l] \o Fed)
             /\ n = runner.chunks => kv[l] = Base[l] \o Fed
  <2>1. Base[l] \o Fed # <<>>
    <3>1. Base[l] # <<>> /\ Base[l] \in Seq(Cells) /\ Fed \in Seq(Cells)
      BY <1>4, <1>5, <1>6
    <3> QED
      BY <3>1
  <2>2. n = runner.chunks => \E i \in 1..n : l \in ChunkLayers(i)
    BY <1>3, <1>6
  <2>3. (\E i \in 1..n : l \in ChunkLayers(i)) => n # 0
    BY <1>3
  <2> QED
    BY <1>5, <1>6, <2>1, <2>2, <2>3
<1>7. ASSUME NEW l \in Layers, l \notin Prefix(runner)
      PROVE  Base[l] = runner.kv[l] /\ kv[l] = runner.kv[l]
  <2>1. Base[l] = runner.kv[l]
    BY <1>7 DEF Base
  <2>2. ~ \E i \in 1..n : l \in ChunkLayers(i)
    BY <1>3, <1>7
  <2> QED
    BY <2>1, <2>2
<1>8. \A l \in Layers : kv[l] # <<>> => l \notin Remote /\ ~force_shadow
  BY <1>5, <1>7 DEF RunnerInv
<1> HIDE DEF kv
<1> QED
  BY <1>2, <1>4, <1>5, <1>6, <1>7, <1>8

(* What a copy from the cache that stops leaves.                           *)
LEMMA PartEntries ==
  ASSUME TypeOK, RunnerInv, FarInv, runner # None,
         NEW r, r = [runner EXCEPT !.kv = PartBase]
  PROVE  /\ r.kv = PartBase /\ r.synced = runner.synced /\ r.chunks = runner.chunks
         /\ \A l \in Layers :
              \/ PartBase[l] = runner.kv[l]
              \/ l \in Prefix(runner) /\ PartBase[l] = cache[l] /\ cache[l] # <<>>
         /\ \A l \in Layers : PartBase[l] # <<>> => l \notin Remote /\ ~force_shadow
<1>1. r.kv = PartBase /\ r.synced = runner.synced /\ r.chunks = runner.chunks
  BY RunnerType DEF Runners
<1>2. ASSUME NEW l \in Layers
      PROVE  \/ PartBase[l] = runner.kv[l]
             \/ l \in Prefix(runner) /\ PartBase[l] = cache[l] /\ cache[l] # <<>>
  <2>1. l \in 0..l
    <3>1. NumLayers \in Nat
      BY Deployed
    <3> QED
      BY <3>1 DEF Layers
  <2> QED
    BY <2>1 DEF PartBase
<1>3. \A l \in Layers : PartBase[l] # <<>> => l \notin Remote /\ ~force_shadow
  BY <1>2 DEF RunnerInv, FarInv
<1> QED
  BY <1>1, <1>2, <1>3

(* A token written into a preallocated tensor leaves those in front of it. *)
LEMMA InPlaceKeeps ==
  ASSUME TypeOK, NEW old \in Seq(Cells), Len(old) = MaxSeq, InPlace(index_pos, Fed)
  PROVE  /\ Len(DecodeEntry(old, index_pos, Fed)) = MaxSeq
         /\ \A i \in 1..index_pos : DecodeEntry(old, index_pos, Fed)[i] = old[i]
<1>1. DecodeEntry(old, index_pos, Fed) = [old EXCEPT ![index_pos + 1] = Fed[1]]
  BY DEF DecodeEntry, Preallocated
<1>2. index_pos \in Nat /\ index_pos < MaxSeq /\ MaxSeq \in Nat
  BY MaxSeqAssumption DEF InPlace, TypeOK
<1> QED
  BY <1>1, <1>2

(* The reference of a validation changes no entry that counts.             *)
LEMMA ReferenceKeeps ==
  ASSUME SafeInv, EntriesInv, pc = "validate", pc' # "sample", CanSync,
         NEW L, L \subseteq Prefix(runner), Reference(L),
         UNCHANGED dialogVars, force_shadow' = force_shadow
  PROVE  (\A l \in Layers : Newest(l)') /\ Even' /\ FarInv'
<1>1. /\ TypeOK /\ PassInv /\ FarInv /\ RunnerInv /\ Between
      /\ index_pos \in Nat /\ cache \in Entries /\ MaxSeq \in Nat \ {0}
  BY InDialog, InPass, MaxSeqAssumption DEF BetweenInv
<1>2. runner # None /\ validated = 0
  BY <1>1 DEF PassInv
<1>3. (\A l \in Layers : Newest(l)) /\ Even
  BY <1>1, <1>2 DEF Between, OnNpu
<1>4. Known = index_pos /\ Known' = index_pos
  BY DialogSame
<1>5. far' = far
  <2>1. \A l \in Layers : l \notin L \cap Remote
    <3>1. 0 \in 0..runner.chunks
      BY <1>1, <1>2, ChunksCover
    <3> QED
      BY <1>1, <1>2, <3>1, RanEntries
  <2>2. far' = [l \in Layers |-> far[l]]
    BY <2>1 DEF Reference, RefFar
  <2> QED
    BY <1>1, <2>2 DEF TypeOK, Entries
<1>6. ASSUME NEW l \in Layers
      PROVE  \/ cache'[l] = cache[l]
             \/ /\ Len(cache[l]) = MaxSeq /\ InPlace(index_pos, Fed)
                /\ Len(cache'[l]) = MaxSeq
                /\ \A i \in 1..index_pos : cache'[l][i] = cache[l][i]
  <2>1. CASE l \in L \ Remote /\ Len(cache[l]) = MaxSeq /\ InPlace(index_pos, Fed)
    <3>1. cache'[l] = DecodeEntry(cache[l], index_pos, Fed)
      BY <2>1 DEF Reference, RefCache
    <3>2. cache[l] \in Seq(Cells)
      BY <1>1 DEF Entries
    <3> QED
      BY <1>1, <2>1, <3>1, <3>2, InPlaceKeeps
  <2>2. CASE ~(l \in L \ Remote /\ Len(cache[l]) = MaxSeq /\ InPlace(index_pos, Fed))
    BY <2>2 DEF Reference, RefCache
  <2> QED
    BY <2>1, <2>2
<1>7. ASSUME NEW l \in Layers
      PROVE  Newest(l)'
  <2>1. index_pos <= MaxSeq => Holds(HeldNow(l), dialog, index_pos)
    BY <1>3, <1>4 DEF Newest
  <2>2. CASE l \in Remote \/ force_shadow
    <3>1. HeldNow(l)' = HeldNow(l)
      BY <1>5, <2>2, DialogSame DEF HeldNow
    <3> QED
      BY <1>4, <2>1, <3>1, DialogSame DEF Newest
  <2>3. CASE ~(l \in Remote \/ force_shadow)
    <3>1. HeldNow(l)' = cache'[l] /\ HeldNow(l) = cache[l]
      BY <2>3, DialogSame DEF HeldNow
    <3>2. index_pos <= MaxSeq => Holds(cache'[l], dialog, index_pos)
      BY <1>1, <1>6, <2>1, <3>1 DEF Holds
    <3> QED
      BY <1>4, <3>1, <3>2, DialogSame DEF Newest
  <2> QED
    BY <2>2, <2>3
<1>8. Even'
  <2>1. CASE \A l \in Layers : cache[l] \in {<<>>, Told(dialog, Known)}
    <3>1. ASSUME NEW l \in Layers
          PROVE  cache'[l] = cache[l]
      <4>1. Len(cache[l]) = 0 \/ Len(cache[l]) = index_pos
        BY <1>1, <1>4, <2>1, ToldShape
      <4>2. InPlace(index_pos, Fed) => Len(cache[l]) # MaxSeq
        BY <1>1, <4>1 DEF InPlace
      <4> QED
        BY <1>6, <4>2
    <3>2. \A l \in Layers : cache'[l] \in {<<>>, Told(dialog', Known')}
      BY <1>4, <2>1, <3>1, DialogSame
    <3> QED
      BY <3>2, DialogSame DEF Even
  <2>2. CASE \A l \in Layers : Len(cache[l]) \in {0, MaxSeq}
    <3>1. \A l \in Layers : Len(cache'[l]) \in {0, MaxSeq}
      BY <1>6, <2>2
    <3> QED
      BY <3>1, DialogSame DEF Even
  <2> QED
    BY <1>3, <2>1, <2>2 DEF Even
<1>9. FarInv'
  <2>1. ASSUME NEW l \in Layers, l \in Remote \/ force_shadow
        PROVE  cache'[l] = <<>>
    <3>1. cache[l] = <<>>
      BY <1>1, <2>1 DEF FarInv
    <3>2. Len(cache[l]) # MaxSeq
      BY <1>1, <3>1
    <3> QED
      BY <1>6, <3>1, <3>2
  <2> QED
    BY <2>1, DialogSame DEF FarInv
<1> QED
  BY <1>7, <1>8, <1>9

(* What an error of the runner leaves of it.                               *)
LEMMA FailedEntries ==
  ASSUME TypeOK, RunnerInv, FarInv, runner # None, NEW r, ForwardDecodeFails(r)
  PROVE  /\ r # None /\ r.chunks = runner.chunks
         /\ \A l \in Layers : r.kv[l] # <<>> => l \notin Remote /\ ~force_shadow
         /\ r.synced => \A l \in Layers : l \in Prefix(runner) => r.kv[l] # <<>>
         /\ \/ /\ ~CanSync /\ ~r.synced /\ ~runner.synced
               /\ r = [runner EXCEPT !.kv = PartBase]
            \/ /\ CanSync
               /\ \E i \in 1..runner.chunks :
                    /\ r = Ran(i - 1)
                    /\ \A j \in 1..i - 1 : Fits(j)
<1>1. r # None
  BY DecodeFailsType
<1>2. CASE ~CanSync /\ r = [runner EXCEPT !.kv = PartBase]
  <2>1. ~runner.synced
    BY <1>2 DEF CanSync
  <2> QED
    BY <1>1, <1>2, <2>1, PartEntries
<1>3. CASE CanSync /\ \E i \in 1..runner.chunks : r = Ran(i - 1) /\ \A j \in 1..i - 1 : Fits(j)
  <2>1. PICK i \in 1..runner.chunks : r = Ran(i - 1) /\ \A j \in 1..i - 1 : Fits(j)
    BY <1>3
  <2>2. i - 1 \in 0..runner.chunks
    BY ChunksCover
  <2>3. /\ r.chunks = runner.chunks
        /\ \A l \in Layers : r.kv[l] # <<>> => l \notin Remote /\ ~force_shadow
        /\ \A l \in Layers : l \in Prefix(runner) => r.kv[l] # <<>>
    BY <1>3, <2>1, <2>2, RanEntries
  <2> QED
    BY <1>1, <1>3, <2>1, <2>3
<1> QED
  BY <1>2, <1>3 DEF ForwardDecodeFails

(* A validation that does not end in a coverage leads to the software path.*)
LEMMA UnvalidatedEntries ==
  ASSUME SafeInv, EntriesInv, pc = "validate", pc' = "unvalidated",
         UNCHANGED dialogVars, validated' = validated, force_shadow' = force_shadow,
         \A l \in Layers : Newest(l)', FarInv',
         runner' # None =>
           /\ runner'.chunks = runner.chunks
           /\ \A l \in Layers : runner'.kv[l] # <<>> => l \notin Remote /\ ~force_shadow
           /\ runner'.synced => \A l \in Layers : l \in Prefix(runner) => runner'.kv[l] # <<>>
  PROVE  EntriesInv'
<1>1. /\ TypeOK /\ PassInv /\ CountInv /\ StartInv /\ validated = 0 /\ runner # None
      /\ index_pos # 0
  BY InDialog DEF PassInv, StartInv
<1>2. Prefix(runner) \subseteq Layers
  BY <1>1, RunnerType
<1>3. RunnerInv'
  <2>1. runner' # None => Prefix(runner)' = Prefix(runner)
    BY DialogSame DEF Prefix, DecodeLast
  <2> QED
    BY <1>1, <1>2, <2>1, DialogSame DEF RunnerInv
<1>4. SoftwareInv'
  BY <1>1, DialogSame DEF SoftwareInv
<1> QED
  BY <1>1, <1>3, <1>4, DialogSame
  DEF EntriesInv, CountInv, StartInv, BetweenInv, ReloadInv, FallbackInv, TailInv, SampleInv

(* ValidateFails.                                                          *)
LEMMA ValidateFailsEntries ==
  ASSUME SafeInv, EntriesInv, ValidateFails
  PROVE  EntriesInv'
<1>1. /\ pc = "validate" /\ pc' = "unvalidated" /\ UNCHANGED dialogVars
      /\ validated' = validated /\ force_shadow' = force_shadow
  BY DEF ValidateFails, flags
<1>2. /\ TypeOK /\ RunnerInv /\ FarInv /\ Between /\ runner # None /\ validated = 0
  BY <1>1, InDialog DEF BetweenInv, PassInv
<1>3. CASE (\E r \in Failures : ForwardDecodeFails(r) /\ runner' = r) /\ UNCHANGED <<cache, far>>
  <2>1. ForwardDecodeFails(runner') /\ cache' = cache /\ far' = far
    BY <1>3
  <2>2. Known' = Known
    BY <1>1, DialogSame
  <2>3. \A l \in Layers : Newest(l)
    BY <1>2 DEF Between, OnNpu
  <2>4. (\A l \in Layers : Newest(l)') /\ FarInv'
    BY <1>1, <1>2, <2>1, <2>2, <2>3, HeldSame
  <2>5. /\ runner'.chunks = runner.chunks
        /\ \A l \in Layers : runner'.kv[l] # <<>> => l \notin Remote /\ ~force_shadow
        /\ runner'.synced => \A l \in Layers : l \in Prefix(runner) => runner'.kv[l] # <<>>
    BY <1>2, <2>1, FailedEntries
  <2> QED
    BY <1>1, <2>4, <2>5, UnvalidatedEntries
<1>4. ASSUME NEW l \in Prefix(runner), CanRun, runner' = Ran(runner.chunks), Reference(0..l - 1)
      PROVE  EntriesInv'
  <2>1. CanSync
    BY <1>4 DEF CanRun
  <2>2. 0..l - 1 \subseteq Prefix(runner)
    <3>1. DecodeLast(runner) \in Nat
      <4>1. NumLayers \in Nat
        BY <1>2, Deployed
      <4> QED
        BY <1>2, <4>1, RunnerType DEF Layers
    <3> QED
      BY <1>4, <3>1 DEF Prefix
  <2>3. (\A k \in Layers : Newest(k)') /\ FarInv'
    <3> DEFINE L == 0..l - 1
    <3>1. L \subseteq Prefix(runner) /\ Reference(L)
      BY <1>4, <2>2
    <3> HIDE DEF L
    <3> QED
      BY <1>1, <2>1, <3>1, ReferenceKeeps
  <2>4. runner.chunks \in 0..runner.chunks
    BY <1>2, ChunksCover
  <2>5. /\ runner'.chunks = runner.chunks
        /\ \A k \in Layers : runner'.kv[k] # <<>> => k \notin Remote /\ ~force_shadow
        /\ \A k \in Layers : k \in Prefix(runner) => runner'.kv[k] # <<>>
    BY <1>2, <1>4, <2>1, <2>4, RanEntries
  <2> QED
    BY <1>1, <2>3, <2>5, UnvalidatedEntries
<1> QED
  BY <1>3, <1>4 DEF ValidateFails

(* ValidateRejects.                                                        *)
LEMMA ValidateRejectsEntries ==
  ASSUME SafeInv, EntriesInv, ValidateRejects
  PROVE  EntriesInv'
<1>1. /\ Compared /\ runner' = None /\ pc' = "unvalidated"
      /\ UNCHANGED dialogVars /\ validated' = validated /\ force_shadow' = force_shadow
  BY DEF ValidateRejects
<1>2. /\ pc = "validate" /\ CanSync /\ Reference(Prefix(runner))
  BY <1>1 DEF Compared, CanRun
<1>3. (\A l \in Layers : Newest(l)') /\ FarInv'
  BY <1>1, <1>2, ReferenceKeeps
<1> QED
  BY <1>1, <1>2, <1>3, UnvalidatedEntries

(* ValidateAccepts.                                                        *)
LEMMA ValidateAcceptsEntries ==
  ASSUME SafeInv, EntriesInv, ValidateAccepts
  PROVE  EntriesInv'
<1>1. /\ Compared /\ runner' = None /\ pc' = "reload"
      /\ UNCHANGED dialogVars /\ force_shadow' = force_shadow
  BY DEF ValidateAccepts
<1>2. /\ pc = "validate" /\ CanSync /\ Reference(Prefix(runner))
  BY <1>1 DEF Compared, CanRun
<1>3. (\A l \in Layers : Newest(l)') /\ Even' /\ FarInv'
  BY <1>1, <1>2, ReferenceKeeps
<1>4. CountInv /\ StartInv /\ AllowsDecode /\ index_pos # 0
  BY <1>1, <1>2, InDialog, ComparedType DEF StartInv
<1>5. Between'
  BY <1>1, <1>3, DialogSame DEF Between, OnNpu
<1> QED
  BY <1>1, <1>3, <1>4, <1>5, DialogSame
  DEF EntriesInv, RunnerInv, CountInv, StartInv, BetweenInv, SoftwareInv, ReloadInv, FallbackInv,
      TailInv, SampleInv

(* ValidateShrinks.                                                        *)
LEMMA ValidateShrinksEntries ==
  ASSUME SafeInv, EntriesInv, ValidateShrinks
  PROVE  EntriesInv'
<1> DEFINE kv == [l \in Layers |->
                    IF l <= ChunkEnd[runner.chunks - 1] THEN Ran(runner.chunks).kv[l] ELSE <<>>]
<1>1. /\ Compared /\ pc' = pc
      /\ runner' = [chunks |-> runner.chunks - 1, kv |-> kv, synced |-> FALSE]
      /\ UNCHANGED dialogVars /\ validated' = validated /\ force_shadow' = force_shadow
  BY DEF ValidateShrinks, flags
<1>2. /\ pc = "validate" /\ CanSync /\ Reference(Prefix(runner))
  BY <1>1 DEF Compared, CanRun
<1>3. (\A l \in Layers : Newest(l)') /\ Even' /\ FarInv'
  BY <1>1, <1>2, ReferenceKeeps
<1>4. /\ TypeOK /\ RunnerInv /\ FarInv /\ CountInv /\ StartInv /\ index_pos # 0
      /\ runner # None /\ validated = 0
  BY <1>1, <1>2, InDialog, ComparedType DEF StartInv
<1>5. \A l \in Layers : kv[l] # <<>> => l \notin Remote /\ ~force_shadow
  <2>1. runner.chunks \in 0..runner.chunks
    BY <1>4, ChunksCover
  <2>2. \A l \in Layers : Ran(runner.chunks).kv[l] # <<>> => l \notin Remote /\ ~force_shadow
    BY <1>2, <1>4, <2>1, RanEntries
  <2> QED
    BY <2>2
<1> HIDE DEF kv
<1>6. runner'.kv = kv /\ runner'.synced = FALSE
  BY <1>1
<1>7. Between'
  BY <1>3, <1>6, DialogSame, <1>1 DEF Between, OnNpu
<1>8. RunnerInv'
  BY <1>1, <1>4, <1>5, <1>6, DialogSame DEF RunnerInv
<1> QED
  BY <1>1, <1>2, <1>3, <1>4, <1>7, <1>8, DialogSame
  DEF EntriesInv, CountInv, StartInv, BetweenInv, SoftwareInv, ReloadInv, FallbackInv,
      TailInv, SampleInv

(* What the runner goes on from when it has been validated.                *)
LEMMA RunBase ==
  ASSUME SafeInv, EntriesInv, Sound, pc = "run", runner # None
  PROVE  /\ CanSync => \A l \in Layers : l \in Prefix(runner) =>
              (index_pos <= MaxSeq =>
                 Holds(Base[l], dialog, index_pos) /\ Len(Base[l]) <= MaxSeq)
         /\ CanSync /\ Fits(1) =>
              /\ index_pos < MaxSeq
              /\ \A l \in Layers : l \in Prefix(runner) => Base[l] = Told(dialog, index_pos)
         /\ \A l \in Layers : l \notin Prefix(runner) => runner.kv[l] = <<>> /\ Newest(l)
         /\ ~runner.synced => runner.kv = Empty /\ Even /\ \A l \in Layers : Newest(l)
<1>1. /\ TypeOK /\ PassInv /\ RunnerInv /\ FarInv /\ StartInv /\ Between
      /\ index_pos \in Nat /\ MaxSeq \in Nat /\ Known = index_pos
  BY InDialog, DialogSame, MaxSeqAssumption DEF BetweenInv, Known
<1>2. validated # 0 /\ index_pos # 0
  BY <1>1 DEF PassInv, StartInv
<1>3. /\ Bucket[1] \in Nat /\ Bucket[1] < MaxSeq
      /\ 0 \in Layers /\ 0 \in Prefix(runner) /\ ChunkFirst(1) = 0
  <2>1. /\ ChunkEnd \in Seq(Layers) /\ Bucket \in [DOMAIN ChunkEnd -> Nat \ {0}]
        /\ runner.chunks \in DOMAIN ChunkEnd
    BY <1>1, Deployed, RunnerType
  <2>2. ChunkEnd # <<>> /\ 1 \in DOMAIN ChunkEnd
    BY <2>1
  <2> QED
    BY <1>1, <2>1, <2>2, ChunksCover DEF Sound
<1>4. Fits(1) => Len(Base[0]) \in Nat /\ 0 < Len(Base[0]) /\ Len(Base[0]) < MaxSeq
  BY <1>1, <1>3 DEF Fits
<1>5. \A l \in Layers : l \notin Prefix(runner) => runner.kv[l] = <<>> /\ Newest(l)
  BY <1>1, <1>2 DEF RunnerInv, Between
<1>6. CASE runner.synced
  <2>1. \A l \in Layers : l \in Prefix(runner) => Base[l] = Told(dialog, index_pos)
    BY <1>1, <1>2, <1>6 DEF Between, OnNpu, Base
  <2>2. /\ Holds(Told(dialog, index_pos), dialog, index_pos)
        /\ Len(Told(dialog, index_pos)) = index_pos
    BY <1>1, ToldShape
  <2>3. Len(Base[0]) = index_pos
    BY <1>3, <2>1, <2>2
  <2> QED
    BY <1>1, <1>4, <1>5, <1>6, <2>1, <2>2, <2>3
<1>7. CASE ~runner.synced
  <2>1. runner.kv = Empty /\ Even /\ \A l \in Layers : Newest(l)
    BY <1>1, <1>2, <1>7 DEF RunnerInv, Between, OnNpu
  <2>2. \A l \in Layers : l \in Prefix(runner) => Base[l] = cache[l]
    BY <1>7 DEF Base
  <2>3. ASSUME CanSync, NEW l \in Layers, l \in Prefix(runner)
        PROVE  /\ cache[l] # <<>> /\ cache[l] \in Seq(Cells)
               /\ index_pos <= MaxSeq => Holds(cache[l], dialog, index_pos)
    <3>1. cache[l] # <<>>
      BY <1>7, <2>3 DEF CanSync
    <3>2. l \notin Remote /\ ~force_shadow
      BY <1>1, <3>1 DEF FarInv
    <3> QED
      BY <1>1, <2>1, <3>1, <3>2 DEF Newest, HeldNow, TypeOK, Entries
  <2>4. CASE \A l \in Layers : cache[l] \in {<<>>, Told(dialog, Known)}
    <3>1. CanSync => \A l \in Layers : l \in Prefix(runner) => cache[l] = Told(dialog, index_pos)
      BY <1>1, <2>3, <2>4
    <3>2. Len(Told(dialog, index_pos)) = index_pos
      BY <1>1, ToldShape
    <3>3. CanSync => Len(Base[0]) = index_pos
      BY <1>3, <2>2, <3>1, <3>2
    <3> QED
      BY <1>1, <1>4, <1>5, <2>1, <2>2, <2>3, <3>1, <3>2, <3>3
  <2>5. CASE \A l \in Layers : Len(cache[l]) \in {0, MaxSeq}
    <3>1. CanSync => \A l \in Layers : l \in Prefix(runner) => Len(cache[l]) <= MaxSeq
      BY <1>1, <2>5
    <3>2. CanSync => ~Fits(1)
      BY <1>1, <1>3, <1>4, <2>2, <2>5
    <3> QED
      BY <1>5, <2>1, <2>2, <2>3, <3>1, <3>2
  <2> QED
    BY <2>1, <2>4, <2>5 DEF Even
<1> QED
  BY <1>6, <1>7

(* RknnDecode.                                                             *)
LEMMA RknnDecodeEntries ==
  ASSUME SafeInv, EntriesInv, Sound, RknnDecode
  PROVE  EntriesInv'
<1>1. /\ pc = "run" /\ runner # None /\ CanRun /\ runner' = Ran(runner.chunks) /\ pc' = "tail"
      /\ contexts' = [l \in Layers |->
                        IF l \in Prefix(runner) THEN Base[l] \o Fed ELSE contexts[l]]
      /\ UNCHANGED dialogVars /\ cache' = cache /\ far' = far /\ validated' = validated
      /\ force_shadow' = force_shadow
  BY DEF RknnDecode, flags
<1>2. /\ TypeOK /\ PassInv /\ RunnerInv /\ FarInv /\ CountInv /\ StartInv
      /\ index_pos \in Nat /\ index_pos # 0 /\ validated # 0
  BY <1>1, InDialog DEF PassInv, StartInv
<1>3. runner.chunks \in 0..runner.chunks /\ 1 \in 1..runner.chunks
  BY <1>1, <1>2, ChunksCover
<1>4. CanSync /\ Fits(1)
  BY <1>1, <1>3 DEF CanRun
<1>5. /\ index_pos < MaxSeq
      /\ \A l \in Layers : l \in Prefix(runner) => Base[l] = Told(dialog, index_pos)
      /\ \A l \in Layers : l \notin Prefix(runner) => runner.kv[l] = <<>> /\ Newest(l)
  BY <1>1, <1>4, RunBase
<1>6. Told(dialog, index_pos) \o Fed = Told(dialog, index_pos + 1)
  BY <1>2, FedShape
<1>7. /\ \A l \in Layers : l \in Prefix(runner) =>
           /\ runner'.kv[l] = Told(dialog, index_pos + 1)
           /\ runner'.kv[l] # <<>>
           /\ contexts'[l] = Told(dialog, index_pos + 1)
      /\ \A l \in Layers : l \notin Prefix(runner) => runner'.kv[l] = <<>>
      /\ runner'.synced = TRUE /\ runner'.chunks = runner.chunks
      /\ \A l \in Layers : runner'.kv[l] # <<>> => l \notin Remote /\ ~force_shadow
  <2>1. ASSUME NEW l \in Layers, l \in Prefix(runner)
        PROVE  /\ runner'.kv[l] = Told(dialog, index_pos + 1)
               /\ runner'.kv[l] # <<>>
               /\ contexts'[l] = Told(dialog, index_pos + 1)
    <3>1. runner'.kv[l] = Base[l] \o Fed /\ runner'.kv[l] # <<>>
      BY <1>1, <1>2, <1>3, <1>4, <2>1, RanEntries
    <3>2. contexts'[l] = Base[l] \o Fed
      BY <1>1, <2>1
    <3> QED
      BY <1>5, <1>6, <2>1, <3>1, <3>2
  <2>2. /\ \A l \in Layers : l \notin Prefix(runner) => runner'.kv[l] = <<>>
        /\ runner'.synced = TRUE /\ runner'.chunks = runner.chunks
        /\ \A l \in Layers : runner'.kv[l] # <<>> => l \notin Remote /\ ~force_shadow
    BY <1>1, <1>2, <1>3, <1>4, <1>5, RanEntries
  <2> QED
    BY <2>1, <2>2
<1>8. Prefix(runner)' = Prefix(runner) /\ Prefix(runner) \subseteq Layers
  BY <1>1, <1>2, <1>7, RunnerType, DialogSame DEF Prefix, DecodeLast
<1>9. Known' = Known
  BY <1>1, DialogSame
<1>10. (\A l : Newest(l)' <=> Newest(l)) /\ FarInv'
  BY <1>1, <1>2, <1>9, HeldSame
<1>11. RunnerInv'
  BY <1>1, <1>7, <1>8, DialogSame DEF RunnerInv
<1>12. TailInv'
  <2>1. Told(dialog', index_pos' + 1) = Told(dialog, index_pos + 1)
    BY <1>1, DialogSame
  <2> QED
    BY <1>1, <1>5, <1>7, <1>8, <1>10, <2>1, DialogSame DEF TailInv
<1> QED
  BY <1>1, <1>2, <1>10, <1>11, <1>12, DialogSame
  DEF EntriesInv, CountInv, StartInv, BetweenInv, SoftwareInv, ReloadInv, FallbackInv, SampleInv

(* RknnDecodeFails.                                                        *)
LEMMA RknnDecodeFailsEntries ==
  ASSUME SafeInv, EntriesInv, Sound, RknnDecodeFails
  PROVE  EntriesInv'
<1>1. /\ pc = "run" /\ runner # None /\ ForwardDecodeFails(runner') /\ pc' = "fallback"
      /\ UNCHANGED dialogVars /\ cache' = cache /\ far' = far /\ validated' = validated
      /\ force_shadow' = force_shadow
  BY DEF RknnDecodeFails
<1>2. /\ TypeOK /\ PassInv /\ RunnerInv /\ FarInv /\ CountInv /\ StartInv
      /\ index_pos \in Nat /\ index_pos # 0 /\ Known = index_pos /\ MaxSeq \in Nat
  BY <1>1, InDialog, DialogSame, MaxSeqAssumption DEF StartInv
<1>3. /\ runner' # None /\ runner'.chunks = runner.chunks
      /\ \A l \in Layers : runner'.kv[l] # <<>> => l \notin Remote /\ ~force_shadow
      /\ runner'.synced => \A l \in Layers : l \in Prefix(runner) => runner'.kv[l] # <<>>
      /\ \/ /\ ~CanSync /\ ~runner'.synced /\ ~runner.synced
            /\ runner' = [runner EXCEPT !.kv = PartBase]
         \/ /\ CanSync
            /\ \E i \in 1..runner.chunks :
                 /\ runner' = Ran(i - 1)
                 /\ \A j \in 1..i - 1 : Fits(j)
  BY <1>1, <1>2, FailedEntries
<1>4. \A l \in Layers : l \notin Prefix(runner) => runner.kv[l] = <<>> /\ Newest(l)
  BY <1>1, RunBase
<1>5. ASSUME NEW l \in Layers
      PROVE  /\ l \notin Prefix(runner) => runner'.kv[l] = <<>>
             /\ runner'.kv[l] = <<>> => Newest(l)
             /\ runner'.kv[l] # <<>> /\ index_pos <= MaxSeq =>
                  Holds(runner'.kv[l], dialog, index_pos) /\ Len(runner'.kv[l]) <= MaxSeq
  <2>1. CASE /\ ~CanSync /\ ~runner'.synced /\ ~runner.synced
             /\ runner' = [runner EXCEPT !.kv = PartBase]
    <3>1. runner.kv = Empty /\ Even /\ \A k \in Layers : Newest(k)
      BY <1>1, <2>1, RunBase
    <3>2. /\ runner'.kv = PartBase
          /\ \/ PartBase[l] = runner.kv[l]
             \/ l \in Prefix(runner) /\ PartBase[l] = cache[l] /\ cache[l] # <<>>
      BY <1>1, <1>2, <2>1, PartEntries
    <3>3. CASE PartBase[l] = runner.kv[l]
      BY <3>1, <3>2, <3>3 DEF Empty
    <3>4. CASE l \in Prefix(runner) /\ PartBase[l] = cache[l] /\ cache[l] # <<>>
      <4>1. l \notin Remote /\ ~force_shadow
        BY <1>2, <3>4 DEF FarInv
      <4>2. index_pos <= MaxSeq => Holds(cache[l], dialog, index_pos)
        BY <1>2, <3>1, <4>1 DEF Newest, HeldNow
      <4>3. Len(Told(dialog, index_pos)) = index_pos
        BY <1>2, ToldShape
      <4>4. index_pos <= MaxSeq => Len(cache[l]) <= MaxSeq
        BY <1>2, <3>1, <3>4, <4>3 DEF Even
      <4> QED
        BY <3>1, <3>2, <3>4, <4>2, <4>4
    <3> QED
      BY <3>2, <3>3, <3>4
  <2>2. ASSUME CanSync, NEW i \in 1..runner.chunks, runner' = Ran(i - 1),
               \A j \in 1..i - 1 : Fits(j)
        PROVE  /\ l \notin Prefix(runner) => runner'.kv[l] = <<>>
               /\ runner'.kv[l] = <<>> => Newest(l)
               /\ runner'.kv[l] # <<>> /\ index_pos <= MaxSeq =>
                    Holds(runner'.kv[l], dialog, index_pos) /\ Len(runner'.kv[l]) <= MaxSeq
    <3>1. i - 1 \in 0..runner.chunks /\ runner.chunks \in Nat
      BY <1>1, <1>2, <2>2, ChunksCover
    <3>2. CASE l \notin Prefix(runner)
      <4>1. runner'.kv[l] = <<>>
        BY <1>1, <1>2, <1>4, <2>2, <3>1, <3>2, RanEntries
      <4> QED
        BY <1>4, <3>2, <4>1
    <3>3. CASE l \in Prefix(runner)
      <4>1. /\ runner'.kv[l] # <<>>
            /\ runner'.kv[l] = Base[l] \/ (i - 1 # 0 /\ runner'.kv[l] = Base[l] \o Fed)
        BY <1>1, <1>2, <2>2, <3>1, <3>3, RanEntries
      <4>2. CASE runner'.kv[l] = Base[l]
        <5>1. index_pos <= MaxSeq =>
                Holds(Base[l], dialog, index_pos) /\ Len(Base[l]) <= MaxSeq
          BY <1>1, <2>2, <3>3, RunBase
        <5> QED
          BY <3>3, <4>1, <4>2, <5>1
      <4>3. CASE i - 1 # 0 /\ runner'.kv[l] = Base[l] \o Fed
        <5>1. 1 \in 1..i - 1
          BY <2>2, <3>1, <4>3
        <5>2. index_pos < MaxSeq /\ Base[l] = Told(dialog, index_pos)
          BY <1>1, <2>2, <3>3, <5>1, RunBase
        <5>3. runner'.kv[l] = Told(dialog, index_pos + 1)
          BY <1>2, <4>3, <5>2, FedShape
        <5>4. /\ Len(Told(dialog, index_pos + 1)) = index_pos + 1
              /\ Holds(Told(dialog, index_pos + 1), dialog, index_pos + 1)
          <6>1. index_pos + 1 \in Nat
            BY <1>2
          <6> QED
            BY <6>1, ToldShape
        <5>5. Holds(runner'.kv[l], dialog, index_pos) /\ Len(runner'.kv[l]) <= MaxSeq
          BY <1>2, <5>2, <5>3, <5>4 DEF Holds
        <5> QED
          BY <3>3, <4>1, <5>5
      <4> QED
        BY <4>1, <4>2, <4>3
    <3> QED
      BY <3>2, <3>3
  <2> QED
    BY <1>3, <2>1, <2>2
<1>6. Prefix(runner)' = Prefix(runner) /\ Prefix(runner) \subseteq Layers
  BY <1>1, <1>2, <1>3, RunnerType, DialogSame DEF Prefix, DecodeLast
<1>7. Known' = Known
  BY <1>1, DialogSame
<1>8. (\A l : Newest(l)' <=> Newest(l)) /\ FarInv'
  BY <1>1, <1>2, <1>7, HeldSame
<1>9. RunnerInv'
  BY <1>1, <1>3, <1>5, <1>6, DialogSame DEF RunnerInv
<1>10. FallbackInv'
  BY <1>1, <1>5, <1>8, DialogSame DEF FallbackInv
<1> QED
  BY <1>1, <1>2, <1>8, <1>9, <1>10, DialogSame
  DEF EntriesInv, CountInv, StartInv, BetweenInv, SoftwareInv, ReloadInv, TailInv, SampleInv

-----------------------------------------------------------------------------
(* The ends of a pass.                                                     *)

(* Sample.                                                                 *)
LEMMA SampleEntries ==
  ASSUME SafeInv, EntriesInv, Sample
  PROVE  EntriesInv'
<1>1. /\ pc = "sample" /\ index_pos' = index_pos + Len(Fed) /\ generated' = generated + 1
      /\ pc' \in {"idle", "forward"}
      /\ deployment' = deployment /\ dialog' = dialog /\ prompt' = prompt
      /\ cache' = cache /\ far' = far /\ runner' = runner /\ disabled_dialog' = disabled_dialog
      /\ validated' = validated /\ force_shadow' = force_shadow
  BY DEF Sample, modelVars, flags
<1>2. /\ TypeOK /\ RunnerInv /\ FarInv /\ CountInv /\ Between /\ index_pos \in Nat
  BY <1>1, InDialog DEF BetweenInv
<1>3. /\ Len(Fed) \in Nat \ {0} /\ (index_pos = 0 => Len(Fed) = prompt)
      /\ (index_pos # 0 => Len(Fed) = 1) /\ prompt \in Nat \ {0}
  BY <1>2, FedShape, Deployed DEF CountInv
<1>4. Known' = Known
  BY <1>1 DEF Known
<1>5. /\ Layers' = Layers /\ Remote' = Remote /\ ChunkEnd' = ChunkEnd /\ AllowsDecode' = AllowsDecode
      /\ Empty' = Empty
  BY <1>1 DEF Layers, Remote, ChunkEnd, AllowsDecode, NumLayers, Mode, Empty
<1>6. (\A l : Newest(l)' <=> Newest(l)) /\ FarInv'
  BY <1>1, <1>2, <1>4, <1>5 DEF Newest, HeldNow, FarInv, Holds
<1>7. Between'
  <2>1. (OnNpu' <=> OnNpu) /\ (Even' <=> Even) /\ Prefix(runner)' = Prefix(runner)
    BY <1>1, <1>4, <1>5 DEF OnNpu, Even, Prefix, DecodeLast, Told
  <2>2. Told(dialog, Known)' = Told(dialog, Known)
    BY <1>1, <1>4
  <2> QED
    BY <1>1, <1>2, <1>5, <1>6, <2>1, <2>2 DEF Between
<1>8. index_pos' # 0
  BY <1>1, <1>2, <1>3
<1>9. CountInv'
  <2>1. generated \in Nat
    <3>1. SampleLen \in Nat
      BY <1>2, Deployed
    <3> QED
      BY <1>2, <3>1 DEF TypeOK
  <2>2. index_pos = IF generated = 0 THEN 0 ELSE prompt + generated - 1
    BY <1>2 DEF CountInv
  <2>3. index_pos' = prompt' + generated' - 1 /\ generated' # 0
    <3>1. CASE generated = 0
      BY <1>1, <1>3, <2>2, <3>1
    <3>2. CASE generated # 0
      <4>1. index_pos = prompt + generated - 1 /\ index_pos # 0
        BY <1>3, <2>1, <2>2, <3>2
      <4>2. Len(Fed) = 1 /\ prompt \in Nat
        BY <1>3, <4>1
      <4>3. index_pos' = index_pos + 1 /\ generated' = generated + 1 /\ prompt' = prompt
        BY <1>1, <4>2
      <4> QED
        BY <2>1, <4>1, <4>2, <4>3
    <3> QED
      BY <3>1, <3>2
  <2> QED
    BY <1>1, <1>2, <1>5, <2>3 DEF CountInv
<1>10. RunnerInv'
  BY <1>1, <1>2, <1>5 DEF RunnerInv, Prefix, DecodeLast
<1> QED
  BY <1>1, <1>6, <1>7, <1>8, <1>9, <1>10
  DEF EntriesInv, StartInv, BetweenInv, SoftwareInv, ReloadInv, FallbackInv, TailInv, SampleInv

(* Start.                                                                  *)
LEMMA StartEntries ==
  ASSUME SafeInv, NEW n \in deployment.prompt_lens, Start(n)
  PROVE  EntriesInv'
<1>1. /\ pc' = "forward" /\ prompt' = n /\ index_pos' = 0 /\ generated' = 0 /\ cache' = Empty
      /\ runner' = (IF runner = None THEN None ELSE Fresh(runner.chunks))
      /\ validated' = 0 /\ force_shadow' = FALSE /\ deployment' = deployment /\ far' = far
  BY DEF Start
<1>2. TypeOK /\ far \in Entries
  BY InPass
<1>3. Layers' = Layers /\ Remote' = Remote /\ ChunkEnd' = ChunkEnd /\ Empty' = Empty
  BY <1>1 DEF Layers, Remote, ChunkEnd, NumLayers, Empty
<1>4. runner' # None => runner'.kv = Empty /\ runner'.synced = FALSE
  BY <1>1 DEF Fresh
<1>5. Known' = 0
  BY <1>1 DEF Known
<1>6. Blank' /\ FarInv'
  BY <1>1, <1>3, <1>4 DEF Blank, FarInv, Empty
<1>7. \A l \in Layers : Newest(l)'
  <2>1. \A l \in Layers : Len(cache'[l]) >= 0 /\ Len(far'[l]) >= 0
    BY <1>1, <1>2 DEF Empty, Entries
  <2> QED
    BY <1>5, <2>1 DEF Newest, HeldNow, Holds
<1>8. Between'
  <2>1. Even'
    BY <1>1, <1>3 DEF Even, Empty
  <2> QED
    BY <1>1, <1>3, <1>7, <2>1 DEF Between, OnNpu
<1>9. RunnerInv' /\ CountInv'
  BY <1>1, <1>3, <1>4 DEF RunnerInv, CountInv, Empty
<1> QED
  BY <1>1, <1>6, <1>8, <1>9
  DEF EntriesInv, StartInv, BetweenInv, SoftwareInv, ReloadInv, FallbackInv, TailInv, SampleInv

(* A step that changes nothing.                                            *)
LEMMA StutterEntries ==
  ASSUME EntriesInv, UNCHANGED vars
  PROVE  EntriesInv'
<1>1. /\ UNCHANGED dialogVars /\ pc' = pc /\ cache' = cache /\ far' = far /\ runner' = runner
      /\ disabled_dialog' = disabled_dialog /\ validated' = validated
      /\ force_shadow' = force_shadow /\ contexts' = contexts
  BY DEF vars, modelVars, flags
<1>2. Known' = Known
  BY <1>1, DialogSame DEF Known
<1>3. /\ \A l : Newest(l)' <=> Newest(l)
      /\ (Even' <=> Even) /\ (FarInv' <=> FarInv) /\ (Between' <=> Between)
  BY <1>1, <1>2, HeldSame, BetweenSame
<1>4. Prefix(runner)' = Prefix(runner)
  BY <1>1, DialogSame DEF Prefix, DecodeLast
<1>5. (RunnerInv => RunnerInv') /\ (CountInv => CountInv') /\ (StartInv => StartInv')
  BY <1>1, <1>4, DialogSame DEF RunnerInv, CountInv, StartInv, Blank
<1>6. /\ BetweenInv => BetweenInv'
      /\ SoftwareInv => SoftwareInv'
      /\ ReloadInv => ReloadInv'
      /\ FallbackInv => FallbackInv'
      /\ TailInv => TailInv'
      /\ SampleInv => SampleInv'
  BY <1>1, <1>3, <1>4, DialogSame
  DEF BetweenInv, SoftwareInv, ReloadInv, FallbackInv, TailInv, SampleInv, Holds, Told
<1> QED
  BY <1>1, <1>3, <1>5, <1>6 DEF EntriesInv

-----------------------------------------------------------------------------
(* The induction.                                                          *)

(* What a step may rely on, and what it keeps.                             *)
ContextInv == Sound /\ faults["sync"] = 0 => EntriesInv

(* A step stays with the master it is of, and forgets no failure.          *)
LEMMA StepKeeps ==
  ASSUME SafeInv, [Next]_vars
  PROVE  deployment' = deployment /\ FaultsGrow
<1>1. deployment' = deployment
  BY DEF Next, Pass, vars, dialogVars, Load, LoadFails, FailDialog, Enter, BucketGuard,
         RknnPrefillPass, PrefillSyncFails, RknnPrefillFails, ValidateFails, ValidateAccepts,
         ValidateShrinks, ValidateRejects, Reload, ReloadFails, RknnDecode, RknnDecodeFails,
         Fallback, RunnerMissing, Software, SoftwareFails, Sample, Start
<1>2. TypeOK
  BY DEF SafeInv
<1>3. "run" \in FaultKinds /\ "load" \in FaultKinds /\ "sync" \in FaultKinds
      /\ "block" \in FaultKinds
  BY DEF FaultKinds
<1>4. ASSUME NEW k \in FaultKinds, Fault(k)
      PROVE  FaultsGrow
  BY <1>2, <1>4, FaultCounted DEF FaultsGrow
<1>5. ASSUME NEW kv, SyncToCache(kv)
      PROVE  FaultsGrow
  BY <1>2, <1>3, <1>4, <1>5, NoFault DEF SyncToCache
<1>6. ASSUME NEW r, ForwardDecodeFails(r)
      PROVE  FaultsGrow
  BY <1>2, <1>3, <1>4, <1>6, NoFault DEF ForwardDecodeFails
<1>7. faults' = faults => FaultsGrow
  BY <1>2, NoFault
<1>8. CASE UNCHANGED vars
  BY <1>1, <1>7, <1>8 DEF vars
<1>9. CASE \E n \in deployment.prompt_lens : Start(n)
  BY <1>1, <1>7, <1>9 DEF Start
<1>10. CASE Load \/ LoadFails \/ Enter \/ BucketGuard
  BY <1>1, <1>3, <1>4, <1>5, <1>7, <1>10 DEF Load, LoadFails, Enter, BucketGuard
<1>11. CASE RknnPrefillPass \/ PrefillSyncFails \/ RknnPrefillFails
  BY <1>1, <1>3, <1>4, <1>7, <1>11 DEF RknnPrefillPass, PrefillSyncFails, RknnPrefillFails
<1>12. CASE ValidateFails
  BY <1>1, <1>3, <1>4, <1>6, <1>7, <1>12 DEF ValidateFails
<1>13. CASE ValidateAccepts \/ ValidateShrinks \/ ValidateRejects \/ Reload \/ ReloadFails
  BY <1>1, <1>3, <1>4, <1>7, <1>13
  DEF ValidateAccepts, ValidateShrinks, ValidateRejects, Reload, ReloadFails
<1>14. CASE RknnDecode \/ RknnDecodeFails \/ Fallback \/ RunnerMissing
  BY <1>1, <1>5, <1>6, <1>7, <1>14 DEF RknnDecode, RknnDecodeFails, Fallback, RunnerMissing
<1>15. CASE Software \/ SoftwareFails \/ Sample
  BY <1>1, <1>3, <1>4, <1>7, <1>15 DEF Software, SoftwareFails, Sample
<1> QED
  BY <1>8, <1>9, <1>10, <1>11, <1>12, <1>13, <1>14, <1>15 DEF Next, Pass

(* A step of a sound master keeps the entries, as long as the guard copies *)
(* all and no copy fails.                                                  *)
LEMMA EntriesStep ==
  ASSUME SafeInv, ContextInv, Sound /\ faults["sync"] = 0 => GuardCopiesAll, [Next]_vars
  PROVE  ContextInv'
<1>1. SUFFICES ASSUME Sound', faults'["sync"] = 0
               PROVE  EntriesInv'
  BY DEF ContextInv
<1>2. deployment' = deployment /\ FaultsGrow
  BY StepKeeps
<1>3. Sound
  BY <1>1, <1>2
  DEF Sound, ChunkEnd, Bucket, Shadow, Promote, RknnPrefill, HasPrefill, Remote, AllowsDecode,
      NumLayers, Mode
<1>4. faults["sync"] = 0
  <2>1. faults["sync"] \in Nat /\ faults'["sync"] >= faults["sync"]
    BY <1>2 DEF FaultsGrow, FaultKinds, SafeInv, TypeOK
  <2> QED
    BY <1>1, <2>1
<1>5. EntriesInv /\ GuardCopiesAll
  BY <1>3, <1>4 DEF ContextInv
<1>6. pc' = "idle" => EntriesInv'
  BY DEF EntriesInv
<1>7. CASE UNCHANGED vars
  BY <1>5, <1>7, StutterEntries
<1>8. CASE \E n \in deployment.prompt_lens : Start(n)
  BY <1>8, StartEntries
<1>9. CASE LoadFails \/ PrefillSyncFails \/ RunnerMissing \/ SoftwareFails
  BY <1>6, <1>9 DEF LoadFails, PrefillSyncFails, RunnerMissing, SoftwareFails, FailDialog
<1>10. CASE Load
  BY <1>5, <1>10, LoadEntries
<1>11. CASE Enter
  BY <1>5, <1>11, EnterEntries
<1>12. CASE BucketGuard
  BY <1>1, <1>5, <1>12, BucketGuardEntries
<1>13. CASE RknnPrefillPass
  BY <1>3, <1>5, <1>13, RknnPrefillPassEntries
<1>14. CASE RknnPrefillFails
  BY <1>5, <1>14, RknnPrefillFailsEntries
<1>15. CASE ValidateFails
  BY <1>5, <1>15, ValidateFailsEntries
<1>16. CASE ValidateAccepts
  BY <1>5, <1>16, ValidateAcceptsEntries
<1>17. CASE ValidateShrinks
  BY <1>5, <1>17, ValidateShrinksEntries
<1>18. CASE ValidateRejects
  BY <1>5, <1>18, ValidateRejectsEntries
<1>19. CASE Reload
  BY <1>5, <1>19, ReloadEntries
<1>20. CASE ReloadFails
  BY <1>5, <1>20, ReloadFailsEntries
<1>21. CASE RknnDecode
  BY <1>3, <1>5, <1>21, RknnDecodeEntries
<1>22. CASE RknnDecodeFails
  BY <1>3, <1>5, <1>22, RknnDecodeFailsEntries
<1>23. CASE Fallback
  BY <1>1, <1>5, <1>23, FallbackEntries
<1>24. CASE Software
  BY <1>3, <1>5, <1>24, SoftwareEntries
<1>25. CASE Sample
  BY <1>5, <1>25, SampleEntries
<1> QED
  BY <1>7, <1>8, <1>9, <1>10, <1>11, <1>12, <1>13, <1>14, <1>15, <1>16, <1>17, <1>18, <1>19,
     <1>20, <1>21, <1>22, <1>23, <1>24, <1>25
  DEF Next, Pass

(* No dialog is under way at first.                                        *)
LEMMA InitEntries == Init => ContextInv
  BY DEF Init, ContextInv, EntriesInv

(* The invariant says it of the layers at the end of a pass.               *)
LEMMA ContextFollows ==
  ASSUME SafeInv, ContextInv, Sound
  PROVE  ContextExact
  BY DEF ContextInv, EntriesInv, SampleInv, ContextExact

(* In whatever way a pass of a sound master was computed, attention of     *)
(* every layer has read exactly the positions of the dialog, as long as    *)
(* the guard of the buckets (qwen3_vl.rs:2173) copies entries that are up  *)
(* to date.                                                                *)
THEOREM ContextWhereCopied ==
  Spec /\ [](Sound /\ faults["sync"] = 0 => GuardCopiesAll) => [](Sound => ContextExact)
<1>1. Init => ContextInv
  BY InitEntries
<1>2. /\ SafeInv /\ ContextInv
      /\ Sound /\ faults["sync"] = 0 => GuardCopiesAll
      /\ [Next]_vars
      => ContextInv'
  BY EntriesStep
<1>3. SafeInv /\ ContextInv => (Sound => ContextExact)
  BY ContextFollows
<1>4. Spec => []SafeInv
  BY Invariance
<1> QED
  BY <1>1, <1>2, <1>3, <1>4, PTL DEF Spec

(* A dialog that is never too long for the first bucket never reaches the  *)
(* guard.                                                                  *)
LEMMA GuardNotReached ==
  ASSUME SafeInv, EntriesInv, LongEnough
  PROVE  GuardCopiesAll
<1>1. SUFFICES ASSUME pc = "forward", Decodes, OutOfBuckets(runner)
               PROVE  FALSE
  BY DEF GuardCopiesAll
<1>2. TypeOK /\ PassInv /\ CountInv /\ runner # None /\ index_pos > 0 /\ index_pos \in Nat
  BY <1>1, InDialog DEF Decodes
<1>3. /\ SampleLen \in Nat \ {0} /\ prompt \in Nat \ {0} /\ ChunkEnd # <<>> /\ MinHeadroom \in Nat
      /\ Bucket[1] \in Nat
  <2>1. /\ ChunkEnd \in Seq(Layers) /\ Bucket \in [DOMAIN ChunkEnd -> Nat \ {0}]
        /\ runner.chunks \in DOMAIN ChunkEnd
    BY <1>2, Deployed, RunnerType
  <2>2. ChunkEnd # <<>> /\ 1 \in DOMAIN ChunkEnd
    BY <2>1
  <2>3. MinHeadroom \in Nat
    BY <1>2, TextDecodeAssumption DEF TypeOK, MinHeadroom
  <2> QED
    BY <1>2, <2>1, <2>2, <2>3, Deployed DEF CountInv
<1>4. generated \in Nat /\ generated < SampleLen /\ generated # 0
  <2>1. generated < SampleLen
    BY <1>1, <1>2 DEF PassInv
  <2> QED
    BY <1>2, <1>3, <2>1 DEF TypeOK, CountInv
<1>5. index_pos = prompt + generated - 1
  BY <1>2, <1>4 DEF CountInv
<1>6. Bucket[1] < (IF AllowsPartial THEN index_pos ELSE index_pos + MinHeadroom)
  <2>1. 1 \in 1..runner.chunks
    BY <1>2, ChunksCover
  <2> QED
    BY <1>1, <2>1 DEF OutOfBuckets
<1>7. prompt + SampleLen + (IF AllowsPartial THEN 0 ELSE MinHeadroom) <= Bucket[1] + 2
  BY <1>2, <1>3 DEF LongEnough, CountInv
<1> QED
  BY <1>2, <1>3, <1>4, <1>5, <1>6, <1>7

(* The same without a condition on the run, for a master whose first       *)
(* bucket is long enough for its dialogs.                                  *)
THEOREM ContextCorrect == Spec => [](Sound /\ LongEnough => ContextExact)
<1> DEFINE Inv == LongEnough => ContextInv
<1>1. Init => Inv
  BY InitEntries
<1>2. ASSUME SafeInv, Inv, [Next]_vars
      PROVE  Inv'
  <2>1. SUFFICES ASSUME LongEnough'
                 PROVE  ContextInv'
    OBVIOUS
  <2>2. LongEnough
    <3>1. deployment' = deployment
      BY <1>2, StepKeeps
    <3> QED
      BY <2>1, <3>1 DEF LongEnough, ChunkEnd, SampleLen, AllowsPartial, Mode, MinHeadroom, Bucket
  <2>3. ContextInv
    BY <1>2, <2>2
  <2>4. Sound /\ faults["sync"] = 0 => GuardCopiesAll
    BY <1>2, <2>2, <2>3, GuardNotReached DEF ContextInv
  <2> QED
    BY <1>2, <2>3, <2>4, EntriesStep
<1>3. SafeInv /\ Inv => (Sound /\ LongEnough => ContextExact)
  BY ContextFollows
<1>4. Spec => []SafeInv
  BY Invariance
<1> HIDE DEF Inv
<1> QED
  BY <1>1, <1>2, <1>3, <1>4, PTL DEF Spec
=============================================================================
