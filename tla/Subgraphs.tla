------------------------------ MODULE Subgraphs ------------------------------
(***************************************************************************)
(* The NPU networks of single projections of a Qwen3-VL decoder layer (the *)
(* whole MLP, its gate/up half, its down half, the fused QKV projection),  *)
(* the Q8 copies that replace them on the CPU, and the vision network that *)
(* wants the same NPU memory.                                              *)
(*                                                                         *)
(* A network is tried on the first decode step that reaches it: the CPU    *)
(* result is computed beside it and compared; from then on its output is   *)
(* used as it is, or never again.  Every network has a lock of its own, so *)
(* the connections of a worker interleave between the halves of one MLP.   *)
(* Prefill passes use none of this and are left out, and so are workers    *)
(* that serve a GGUF file, which load no network.                          *)
(***************************************************************************)
EXTENDS Integers, Sequences, FiniteSets, FiniteSetsExt

CONSTANTS
  Threads,      \* the connections of a worker; the master is one thread
  Master,       \* the thread that is the master in the setups of a master
  Layers,       \* the layers of this process, by number
  Setups,       \* the command lines, environments and directories considered
  Prompts,      \* sequences of images a prompt may carry
  Bytes,        \* the size of the Q8 copy of each projection
  Budget,       \* QWEN3VL_LOCAL_Q8_BUDGET_MB
  MaxFaults     \* bound: failures of the NPU runtime in one behaviour

MlpParts == {"full", "gateUp", "down"}
Parts == MlpParts \cup {"qkv"}
Projections == {"qkv", "o", "gateUp", "down"}

ASSUME SubgraphsAssumption ==
  /\ Master \in Threads /\ Layers \subseteq Nat /\ IsFiniteSet(Layers) /\ MaxFaults \in Nat
  /\ Bytes \in [Projections -> Nat] /\ Budget \in Nat

(* The whole-MLP and down networks are compared with the thresholds of the *)
(* whole MLP, so only a gate/up network, whose own are wider, can pass its *)
(* comparison and be too far off behind the down projection.               *)
ASSUME SetupsAssumption ==
  \A s \in Setups :
    /\ s.master \in BOOLEAN /\ s.lazy \in BOOLEAN /\ s.vision \in BOOLEAN /\ s.keep \in BOOLEAN
    /\ \A f \in s.dir : f.quality = "loose" => f.part = "gateUp"

VARIABLES
  setup,     \* what this process was started with
  index,     \* the quality of the network file of each layer and part
  todo,      \* what is still to be loaded, in order
  net,       \* MlpRknnState and QkvRknnState of each layer and part
  split,     \* split_rknn_validated_decode of each layer
  q8,        \* the projections of each layer that have a Q8 copy
  reserved,  \* LOCAL_Q8_RESERVED_BYTES
  holding,   \* bytes of the reservation that is not committed yet
  vision,    \* whether the vision network is loaded
  cache,     \* vision_cache: the images encoded before
  prompt,    \* the master's prompt: the images left, and how far it is
  thread,    \* where each connection is in a decode step
  faulted,   \* history: the networks the NPU runtime failed
  given_up   \* history: the networks that were disabled at some time

vars == <<setup, index, todo, net, split, q8, reserved, holding, vision, cache,
          prompt, thread, faulted, given_up>>
history == <<faulted, given_up>>
loadVars == <<todo, q8, reserved, holding>>
visionVars == <<vision, cache, prompt>>

-----------------------------------------------------------------------------
(* The directories of network files.                                       *)

(* A file of several layers is a network of another function than the one  *)
(* layer it is filed under.                                                *)
Quality(f) == IF f.first = f.last THEN f.quality ELSE "off"

(* The name's part and first layer number file a network; of the files for *)
(* one place the one the directory listing yields last stays, in any order.*)
SamePlace(f, g) == f.part = g.part /\ f.first = g.first
Listings(dir) ==
  {kept \in SUBSET dir : \A f \in dir : \E g \in kept : {h \in kept : SamePlace(f, h)} = {g}}
Index(kept) ==
  [l \in Layers |-> [p \in Parts |->
    LET found == {f \in kept : f.part = p /\ f.first = l}
    IN IF found = {} THEN "none" ELSE Quality(CHOOSE f \in found : TRUE)]]

-----------------------------------------------------------------------------
(* Loading, layer by layer: attention, then the MLP.                       *)

Stages == <<"qkv", "qkvQ8", "oQ8", "full", "gateUp", "down", "gateUpQ8", "downQ8">>

Absent == [present |-> FALSE, loaded |-> FALSE, validated |-> FALSE, disabled |-> FALSE]
Fresh(loaded) ==
  [present |-> TRUE, loaded |-> loaded, validated |-> FALSE, disabled |-> FALSE]

Wanted(l, p) ==
  /\ index[l][p] # "none"
  /\ p \in {"gateUp", "down"} => ~net[l]["full"].present
  /\ p = "gateUp" => l < setup.gateUpLayers

Idle == [pc |-> "idle", layer |-> 0, check |-> FALSE, used |-> {}, barred |-> {}]

Init ==
  /\ setup \in Setups
  /\ \E kept \in Listings(setup.dir) : index = Index(kept)
  /\ todo = [l \in Layers |-> Stages]
  /\ net = [l \in Layers |-> [p \in Parts |-> Absent]]
  /\ split = [l \in Layers |-> FALSE]
  /\ q8 = [l \in Layers |-> {}]
  /\ reserved = 0 /\ holding = 0
  /\ vision = (setup.vision /\ setup.keep)
  /\ cache = {}
  /\ prompt = [images |-> <<>>, state |-> "none"]
  /\ thread = [t \in Threads |-> Idle]
  /\ faulted = {} /\ given_up = {}

(* The layers are loaded in order, before anything else runs.              *)
Loading(l, stage) ==
  /\ todo[l] # <<>> /\ Head(todo[l]) = stage
  /\ \A k \in Layers : k < l => todo[k] = <<>>
Loaded(l) == todo' = [todo EXCEPT ![l] = Tail(@)]
Serving == \A l \in Layers : todo[l] = <<>>

CanFault == Cardinality(faulted) < MaxFaults

LoadNet(l, p) ==
  /\ Loading(l, p) /\ Loaded(l)
  /\ \/ /\ ~Wanted(l, p)
        /\ UNCHANGED <<net, faulted>>
     \/ /\ Wanted(l, p)
        /\ net' = [net EXCEPT ![l][p] = Fresh(~setup.lazy \/ p = "qkv")]
        /\ UNCHANGED faulted
     \/ /\ Wanted(l, p) /\ (~setup.lazy \/ p = "qkv") /\ CanFault   \* rknn_init fails
        /\ faulted' = faulted \cup {<<l, p>>}
        /\ UNCHANGED net
  /\ UNCHANGED <<setup, index, split, q8, reserved, holding, visionVars, thread, given_up>>

Q8Stage == [qkv |-> "qkvQ8", o |-> "oQ8", gateUp |-> "gateUpQ8", down |-> "downQ8"]

(* A projection gets a Q8 copy where no network of its own took its place. *)
Q8Wanted(l, j) ==
  /\ l < setup.q8Layers /\ j \in setup.q8Scope
  /\ j \in {"qkv", "gateUp", "down"} => ~net[l][j].present
  /\ j \in {"gateUp", "down"} => ~net[l]["full"].present

Reserve(l, j) ==
  /\ Loading(l, Q8Stage[j]) /\ holding = 0
  /\ Q8Wanted(l, j) /\ reserved + Bytes[j] <= Budget
  /\ reserved' = reserved + Bytes[j] /\ holding' = Bytes[j]
  /\ UNCHANGED <<setup, index, todo, net, split, q8, visionVars, thread, history>>

Commit(l, j) ==
  /\ Loading(l, Q8Stage[j]) /\ holding > 0
  /\ q8' = [q8 EXCEPT ![l] = @ \cup {j}] /\ holding' = 0
  /\ Loaded(l)
  /\ UNCHANGED <<setup, index, net, split, reserved, visionVars, thread, history>>

(* Mutant: the bytes are given back where the error is met and again where *)
(* the reservation goes out of scope.                                      *)
GiveBackTwice(l, j) ==
  /\ Loading(l, Q8Stage[j]) /\ holding > 0
  /\ reserved' = reserved - 2 * holding /\ holding' = 0
  /\ Loaded(l)
  /\ UNCHANGED <<setup, index, net, split, q8, visionVars, thread, history>>

(* Mutant: the reservation of a failed copy is committed.                  *)
GiveBackNothing(l, j) ==
  /\ Loading(l, Q8Stage[j]) /\ holding > 0
  /\ holding' = 0
  /\ Loaded(l)
  /\ UNCHANGED <<setup, index, net, split, q8, reserved, visionVars, thread, history>>

(* A row of the weight cannot be read: the reservation is dropped.         *)
GiveBack(l, j) ==
  /\ Loading(l, Q8Stage[j]) /\ holding > 0
  /\ reserved' = reserved - holding /\ holding' = 0
  /\ Loaded(l)
  /\ UNCHANGED <<setup, index, net, split, q8, visionVars, thread, history>>

SkipQ8(l, j) ==
  /\ Loading(l, Q8Stage[j]) /\ holding = 0
  /\ ~Q8Wanted(l, j) \/ reserved + Bytes[j] > Budget
  /\ Loaded(l)
  /\ UNCHANGED <<setup, index, net, split, q8, reserved, holding, visionVars, thread, history>>

-----------------------------------------------------------------------------
(* One decode step through one layer.                                      *)

Stopped(n) == [n EXCEPT !.disabled = TRUE]

(* What may come of trying a network under its lock: the network's output, *)
(* the CPU result computed beside it on the first step, or the fallback.   *)
Attempt(l, p) ==
  LET n == net[l][p]
      ready == [n EXCEPT !.loaded = TRUE]
      instead == IF n.validated THEN "fallback" ELSE "reference"
      failures == IF ~CanFault THEN {}
                  ELSE {[state |-> Stopped(ready), how |-> instead, fault |-> TRUE]}
                       \cup (IF n.loaded THEN {}
                             ELSE {[state |-> Stopped(n), how |-> instead, fault |-> TRUE]})
      runs == CASE index[l][p] = "long" ->
                     [state |-> Stopped(ready), how |-> instead, fault |-> FALSE]
                [] index[l][p] = "off" /\ ~n.validated ->
                     [state |-> Stopped(ready), how |-> "reference", fault |-> FALSE]
                [] OTHER ->
                     [state |-> [ready EXCEPT !.validated = TRUE], how |-> "npu", fault |-> FALSE]
  IN IF ~n.present \/ n.disabled
     THEN {[state |-> n, how |-> "fallback", fault |-> FALSE]}
     ELSE failures \cup {runs}

Take(l, p, o) ==
  /\ net' = [net EXCEPT ![l][p] = o.state]
  /\ faulted' = IF o.fault THEN faulted \cup {<<l, p>>} ELSE faulted
  /\ given_up' = IF o.state.disabled THEN given_up \cup {<<l, p>>} ELSE given_up

(* What a projection's result is made of, beside the exact CPU product.    *)
Made(l, p, o) ==
  CASE o.how = "npu" -> {p}
    [] o.how = "fallback" /\ p \in q8[l] -> {Q8Stage[p]}
    [] OTHER -> {}

Goto(t, pc, used) == thread' = [thread EXCEPT ![t].pc = pc, ![t].used = used]

Runs(t) == Serving /\ (setup.master => t = Master /\ prompt.state = "ready")

(* The attention half: QwenAttention::project_qkv, then the projection o.  *)
Attend(t, l) ==
  /\ Runs(t) /\ thread[t].pc = "idle"
  /\ \E o \in Attempt(l, "qkv") :
       /\ Take(l, "qkv", o)
       /\ thread' = [thread EXCEPT ![t] =
            [pc |-> "full", layer |-> l, check |-> FALSE,
             used |-> Made(l, "qkv", o) \cup (IF "o" \in q8[l] THEN {"oQ8"} ELSE {}),
             barred |-> {p \in Parts : <<l, p>> \in given_up}]]
  /\ UNCHANGED <<setup, index, split, loadVars, visionVars>>

AttentionParts == {"qkv", "qkvQ8", "oQ8"}

(* Mlp::forward.  Where a whole-MLP network is present there are no halves *)
(* and no Q8 copies, so it does not matter that its lock is held while the *)
(* rest of the step runs.                                                  *)
Full(t) ==
  LET l == thread[t].layer IN
  /\ thread[t].pc = "full"
  /\ \E o \in Attempt(l, "full") :
       /\ Take(l, "full", o)
       /\ IF o.how = "fallback" THEN Goto(t, "active", thread[t].used)
          ELSE Goto(t, "idle", thread[t].used \cup Made(l, "full", o))
  /\ UNCHANGED <<setup, index, split, loadVars, visionVars>>

(* split_rknn_validation_needed reads two locks, one after the other.      *)
Active(t) ==
  LET n == net[thread[t].layer]["gateUp"] IN
  /\ thread[t].pc = "active"
  /\ Goto(t, IF n.present /\ ~n.disabled THEN "flag" ELSE "gateUp", thread[t].used)
  /\ UNCHANGED <<setup, index, net, split, loadVars, visionVars, history>>

(* Mutant: the gate/up network's own comparison is taken for the MLP's.    *)
FlagOfNetwork(t) ==
  /\ thread[t].pc = "flag"
  /\ thread' = [thread EXCEPT ![t].pc = "gateUp",
                ![t].check = ~net[thread[t].layer]["gateUp"].validated]
  /\ UNCHANGED <<setup, index, net, split, loadVars, visionVars, history>>

Flag(t) ==
  /\ thread[t].pc = "flag"
  /\ thread' = [thread EXCEPT ![t].pc = "gateUp", ![t].check = ~split[thread[t].layer]]
  /\ UNCHANGED <<setup, index, net, split, loadVars, visionVars, history>>

GateUp(t) ==
  LET l == thread[t].layer IN
  /\ thread[t].pc = "gateUp"
  /\ \E o \in Attempt(l, "gateUp") :
       /\ Take(l, "gateUp", o)
       /\ Goto(t, "down", thread[t].used \cup Made(l, "gateUp", o))
  /\ UNCHANGED <<setup, index, split, loadVars, visionVars>>

Down(t) ==
  LET l == thread[t].layer IN
  /\ thread[t].pc = "down"
  /\ \E o \in Attempt(l, "down") :
       /\ Take(l, "down", o)
       /\ Goto(t, IF thread[t].check THEN "final" ELSE "idle",
               thread[t].used \cup Made(l, "down", o))
  /\ UNCHANGED <<setup, index, split, loadVars, visionVars>>

Wrong(l, used) == {p \in used \cap Parts : index[l][p] \in {"loose", "off", "long"}}

(* Whether the whole MLP's result is within the thresholds of the CPU's: a *)
(* Q8 half may fall on either side of them.                                *)
Within(l, used) ==
  IF Wrong(l, used \ AttentionParts) # {} THEN {FALSE}
  ELSE IF {"gateUpQ8", "downQ8"} \cap used # {} THEN BOOLEAN ELSE {TRUE}

Accept(t) ==
  LET l == thread[t].layer IN
  /\ thread[t].pc = "final" /\ TRUE \in Within(l, thread[t].used)
  /\ split' = [split EXCEPT ![l] = TRUE]
  /\ Goto(t, "idle", thread[t].used)
  /\ UNCHANGED <<setup, index, net, loadVars, visionVars, history>>

(* Mutant: both halves go.                                                 *)
RejectBoth(t) ==
  LET l == thread[t].layer IN
  /\ thread[t].pc = "final" /\ FALSE \in Within(l, thread[t].used)
  /\ net' = [net EXCEPT ![l]["gateUp"].disabled = TRUE, ![l]["down"].disabled = TRUE]
  /\ given_up' = given_up \cup {<<l, "gateUp">>, <<l, "down">>}
  /\ Goto(t, "idle", thread[t].used \cap AttentionParts)
  /\ UNCHANGED <<setup, index, split, loadVars, visionVars, faulted>>

(* The result handed on is the CPU's, and the gate/up network goes.        *)
Reject(t) ==
  LET l == thread[t].layer IN
  /\ thread[t].pc = "final" /\ FALSE \in Within(l, thread[t].used)
  /\ net' = [net EXCEPT ![l]["gateUp"].disabled = TRUE, ![l]["gateUp"].loaded = FALSE]
  /\ given_up' = given_up \cup {<<l, "gateUp">>}
  /\ Goto(t, "idle", thread[t].used \cap AttentionParts)
  /\ UNCHANGED <<setup, index, split, loadVars, visionVars, faulted>>

-----------------------------------------------------------------------------
(* The master's prompt: its images are encoded before a token is decoded.  *)

Between == Serving /\ setup.master /\ \A t \in Threads : thread[t].pc = "idle"

(* Generator::reset and the first next_token of a dialog.                  *)
StartPrompt(images) ==
  /\ Between /\ prompt.state # "encoding"
  /\ prompt' = [images |-> images, state |-> "encoding"]
  /\ UNCHANGED <<setup, index, net, split, loadVars, vision, cache, thread, history>>

(* Mutant: the state is made anew, as at a lazy load.                      *)
ReleasedState(n) == IF n.present THEN Fresh(FALSE) ELSE n

Released(n) == [n EXCEPT !.loaded = FALSE]

(* Mutant: the halves of an MLP are forgotten.                             *)
WithoutWhole == [l \in Layers |-> [net[l] EXCEPT !["full"] = Released(@)]]

WithoutMlp == [l \in Layers |-> [p \in Parts |->
                 IF p \in MlpParts THEN Released(net[l][p]) ELSE net[l][p]]]

Image == Head(prompt.images)
Encoded == prompt' = [prompt EXCEPT !.images = Tail(@)]
Refused == prompt' = [images |-> <<>>, state |-> "none"]

CachedImage ==
  /\ Between /\ prompt.images # <<>> /\ Image \in cache
  /\ Encoded
  /\ UNCHANGED <<setup, index, net, split, loadVars, vision, cache, thread, history>>

(* encode_vision_image: the MLP networks make room for the vision network  *)
(* when that has to be loaded, and come back when a layer wants them.      *)
EncodeImage ==
  /\ Between /\ prompt.images # <<>> /\ Image \notin cache
  /\ net' = IF setup.vision /\ ~vision THEN WithoutMlp ELSE net
  /\ \/ /\ vision' = setup.vision                         \* encoded
        /\ cache' = cache \cup {Image}
        /\ Encoded
     \/ /\ vision' \in {vision, setup.vision}             \* the load or the run fails
        /\ Refused
        /\ UNCHANGED cache
  /\ UNCHANGED <<setup, index, split, loadVars, thread, history>>

(* An image that cannot be read ends the prompt before it is encoded.      *)
UnreadableImage ==
  /\ Between /\ prompt.images # <<>>
  /\ Refused
  /\ UNCHANGED <<setup, index, net, split, loadVars, vision, cache, thread, history>>

(* Every image is encoded: release_vision_rknn, then the text, which may   *)
(* be longer than the context.                                             *)
CompletePrompt ==
  /\ Between /\ prompt.images = <<>> /\ prompt.state = "encoding"
  /\ \E state \in {"ready", "none"} : prompt' = [prompt EXCEPT !.state = state]
  /\ vision' = (vision /\ setup.keep)
  /\ UNCHANGED <<setup, index, net, split, loadVars, cache, thread, history>>

Next ==
  \/ \E l \in Layers : \/ \E p \in Parts : LoadNet(l, p)
                       \/ \E j \in Projections : Reserve(l, j) \/ Commit(l, j)
                                                 \/ GiveBack(l, j) \/ SkipQ8(l, j)
  \/ \E t \in Threads : \/ \E l \in Layers : Attend(t, l)
                        \/ Full(t) \/ Active(t) \/ Flag(t) \/ GateUp(t) \/ Down(t)
                        \/ Accept(t) \/ Reject(t)
  \/ \E images \in Prompts : StartPrompt(images)
  \/ CachedImage \/ EncodeImage \/ UnreadableImage \/ CompletePrompt

Spec == Init /\ [][Next]_vars

-----------------------------------------------------------------------------
Network == [present : BOOLEAN, loaded : BOOLEAN, validated : BOOLEAN, disabled : BOOLEAN]

TypeOK ==
  /\ net \in [Layers -> [Parts -> Network]]
  /\ split \in [Layers -> BOOLEAN] /\ vision \in BOOLEAN
  /\ q8 \in [Layers -> SUBSET Projections]
  /\ reserved \in Nat /\ holding \in Nat
  /\ prompt.state \in {"none", "encoding", "ready"}
  /\ \A t \in Threads :
       thread[t].pc \in {"idle", "full", "active", "flag", "gateUp", "down", "final"}

(* What a layer hands on is never made by a network that departs from the  *)
(* CPU's result: neither one that is off by itself nor a gate/up network   *)
(* whose error only shows behind the down projection, whichever            *)
(* connection compared it and in whatever order (text.rs, the comparison   *)
(* of the first decode step).                                              *)
HandedOnExact ==
  \A t \in Threads : thread[t].pc = "idle" => Wrong(thread[t].layer, thread[t].used) = {}

(* A network given up stays given up: no step that begins after that has   *)
(* its output in the result, though contexts are released for the vision   *)
(* network and loaded again in between (MlpRknnState::runner_or_reload).   *)
StaysGivenUp == \A t \in Threads : thread[t].used \cap thread[t].barred = {}

(* A network is given up only for its own result or for a failure of the   *)
(* runtime, never for what another part of the layer did; where a Q8 half  *)
(* shares the final comparison this is not so, and the gate/up network may *)
(* go for the other half's rounding (Mlp::forward_q8_or_cpu).              *)
GivenUpForCause ==
  \A l \in Layers, p \in Parts :
    net[l][p].disabled =>
      \/ index[l][p] # "good" \/ <<l, p>> \in faulted
      \/ p = "gateUp" /\ "down" \in q8[l]

(* With QWEN3VL_KEEP_VISION_RKNN=0 the vision network never shares the NPU *)
(* with an MLP network of any layer, nor stays for the decode steps, even  *)
(* after a prompt that failed half way (Qwen3Vl::encode_vision_image,      *)
(* start_dialog_prompt).                                                   *)
NpuRoom ==
  ~setup.keep /\ vision =>
    /\ \A l \in Layers, p \in MlpParts : ~net[l][p].loaded
    /\ \A t \in Threads : thread[t].pc = "idle"

Cost == [c \in Layers \X Projections |-> Bytes[c[2]]]
Copies == {c \in Layers \X Projections : c[2] \in q8[c[1]]}
BytesOf(copies) == MapThenSumSet(LAMBDA c : Cost[c], copies)

(* The counter of Q8 bytes is what the copies that exist take, with the    *)
(* one being made, and within the budget, although quantising may fail     *)
(* after its bytes were reserved (text.rs, LocalQ8Reservation).            *)
Q8Accounted ==
  /\ reserved = holding + BytesOf(Copies)
  /\ reserved <= Budget
=============================================================================
