# A TLA+ model of DIAL

DIAL runs a large language model, Llama 3 or Qwen3-VL, over several small
machines: a *master* walks the layers of the model, computes those it has itself
(on CPU, CUDA or, on Rockchip boards, on an NPU) and sends the others to
*workers*. This directory models the parts of DIAL in which order, failure and
shared state decide whether an answer is right, checks them with TLC and proves
the most important results for every number of machines, layers and chats with
TLAPS.

Paths below are relative to the repository; `qwen3_vl.rs` and `text_rknn.rs` are
in `dial-core/src/models/qwen3_vl/`, `llama.rs` and `cache.rs` in
`dial-core/src/models/llama3/`, `client.rs`, `worker.rs`, `master.rs`,
`topology.rs` and `planner.rs` in `dial-core/src/spm/`.

## 1. Inventory

| Component | State it keeps | Operations | Talks to | What makes it correct | Here |
|---|---|---|---|---|---|
| Session: `client.rs`, `worker.rs`, `proto/message.rs` | one pooled TCP connection per worker; per connection a context with a cache on the worker | handshake, request, response, error of an operation, end of a connection | master and worker over TCP | caches of all machines agree with the dialog; a response is read by the request it belongs to; nobody waits for what cannot come | `Session` |
| Llama generation: `models/llama3/` | tokens, `index_pos`, `generated`, one cache entry per layer | `reset`, `next_token`, `forward` with batches of layers, `process_kv` | session | every token is the one a single machine would sample | `Session`, `KvOps`, `Dialog`, `Generation` |
| Master and HTTP API: `master.rs`, `api/mod.rs` | the model's dialog under one `RwLock`; per request a handler or task | plain chat, stream, topology, disconnects | browser, model | one chat at a time owns the dialog; each client gets its own text; the lock is never lost | `ChatApi` |
| Qwen3-VL text path: `qwen3_vl.rs`, `text_rknn.rs`, `text.rs` | `ctx.cache`, the NPU runner with entries of its own, flags per dialog and per process | load, NPU prefill, validation, shrinking, reload, decode, fallback, bucket guard, shadow prefill | session, NPU driver | whatever path a pass takes, attention reads exactly the dialog | `TextDecode`, `KvOps` |
| Framing: `proto/message.rs` | `next_write_at` of the process's transfer limiter | `to_writer`, `from_reader`, `wait_for_slot`, encodings of a batch | session | what is read is what was written; all writers together keep the rate | `Wire`; encodings in `Placement` |
| Topology: `topology.rs`, `Context::from_args`, `Worker::new` | the file of each machine, the map each process has loaded | range parsing, lookup, choice of file or plan, choice of a worker's layers | master, worker, planner, API | a request meets a worker that has its layers, and a finished pass is the model | `Placement` |
| Planner: `planner.rs` | the labels of its search | a dynamic program over segments of layers, three scores | `Context::from_args` | the plan covers every layer, fits, and none is better | `Planner` |
| RKNN text chunks: `text_rknn.rs` | chunks, one NPU context each with a shape, entries per layer | load, prefill, decode, shrink, copy from and to the cache | text path, NPU driver | what a context is run on is the past of the dialog in its own shape and layout | `TextChunks` |
| RKNN MLP, QKV and vision graphs, Q8 copies: `text.rs`, `mlp_rknn.rs`, `qkv_rknn.rs`, `vision_rknn.rs` | a context and two switches per network, one flag per MLP, a byte counter, the vision context | load or load lazily, compare once, use, give up, release, reload | text path, workers' connections | no wrong network's result is handed on; the vision network has room | `Subgraphs` |
| Vision preprocessing, prompt history | none | patch grouping, video sampling, prompt text | text path | counts of patches and placeholders agree | not modelled yet |
| GGUF and W8A16 weights | weights | route prefill and decode to different weights | worker | - | not modelled: numerical kernels |
| Command line, web page, tools, vendored bindings | - | - | - | - | not modelled: I/O, third-party |

**What is hard in this code.** A generation is one long chain of calls over
several machines, and nothing in it is transactional. A pass that fails half way
leaves some caches one token ahead of others. The worker is never told that a
chat ended. Responses are matched to requests by order. A response is awaited
without a time limit. All HTTP requests share one dialog, and a client may leave
at every `await`. On a board with an NPU the newest key/value entries of a layer
may be in the runner, in `ctx.cache`, on a worker or on a shadow host, and
half a dozen paths copy them from one place to another. `PROJECT.json` lists
these hazards line by line, with the properties about each, or why none is.

## 2. Modules

```
 KvOps  Dialog                         ChatApi            KvOps
    \   /  \                           /     \              |
   Session  Generation         MCChatApi  ChatApiProofs TextDecode
    |   \____ G == INSTANCE ___/                         /      \
 MCSession                                     MCTextDecode  TextDecodeProofs
 SessionProofs

    Planner           Placement         Wire         TextChunks        Subgraphs
    /     \           /       \           |           /        \         /       \
 MCPlanner |    MCPlacement    |      WireProofs MCTextChunks  |   MCSubgraphs   |
     PlannerProofs      PlacementProofs              TextChunksProofs    SubgraphsProofs
```

* **`KvOps`** - the entry of one layer in `Cache` (`cache.rs`) as operators on
  sequences: `ProcessKv`, the in-place decode path with its preallocated tensor
  (`DecodeEntry`, `DecodeView`), `SetKv`, and the range of the rotary tables.
  A cell stands for the key and the value of one token, which always move
  together; zero-filled rows are the cell `Zero`.
* **`Dialog`** - the reference: which positions of which chat a layer attends to
  (`Context`), and the trace of computations that makes a token (`Trace`).
  A hidden state is its trace, so two hidden states are equal only if every
  layer read the same.
* **`Generation`** - the abstract specification of a chat: load, ask, sample the
  next reference token, finish or fail.
* **`Session`** - masters, workers and connections. One action per step of
  `LLama::forward` and of the worker's loop: `LocalBlock`, `SendBatch`,
  `Receive`, `Sample` on the master, `Serve` and `ServeFails` on the worker,
  with `Load`, `Stop`, `Crash`, `Restart` and `Cut` around them. `link[c]` is the state of the
  connection as TCP shows it: "closed" by the worker's task, "lost" with an
  error, "silent" when it died without a sign.
* **`ChatApi`** - handlers, the queue of tokio's fair `RwLock`, the dialog
  fields of the model. What a forward pass computes is left to `Session`; here
  `next_token` returns anything, fails or hangs.
* **`TextDecode`** - one Qwen3-VL master with or without an NPU; `deployment` is
  how it was built and started, fixed by the initial state. `pc` is the point in
  `forward_embeds`: the guards of the first lines (`Load`, `BucketGuard`,
  `Enter`), `prefill`, `validate`, `reload`, `run`, `fallback`, and the three
  ways into `forward_blocks_from` (`software`, `unvalidated` after a failed
  validation, `tail` behind the NPU prefix). `cache` is `ctx.cache`, `runner`
  the entries in `TextRknnRunner`, `far` the entries on workers or the shadow
  host. `contexts[l]` records what attention of layer `l` read in this pass.
* **`Planner`** - one run of `plan_with_algorithm`. `dp` is the table of labels
  as a function on the states reached; `Seed` and `Extend` fill it state by
  state in the order of the loops (by end layer, then device set as a number,
  then last device), and `Pick` takes the best complete label. The reference
  beside it is the set of all layouts of the first layers (`Layouts`).
* **`Placement`** - every process loads the topology file of its own machine, or
  plans one, while `Edit` changes files. `StartWorker` is `Worker::new`,
  `StartMaster` the loader of a master with its pool, `Request` a batch of
  `forward_blocks_from` or `LLama::forward` together with the worker's lookup of
  its layers in each of the three encodings, and `Report` the topology answer.
* **`Wire`** - the same connection as in `Session`, frame by frame. The streams
  `up` and `down` carry a header unit and one unit per part of a message, so a
  frame that is cut short or a length that wrapped shows. `DropRequest` is the
  handler's future being dropped at any `await`; probes share the limiter.
* **`TextChunks`** - `TextRknnRunner` from the inside: loading chunk files by name,
  tag and kind, the NPU context of each chunk with the shape it was last given
  (`npu`), the entries of each layer as flat buffers in the layouts of the cache
  and of the chunk (`kv`), and what a chunk was last run on (`input`). Where
  `TextDecode` says *that* entries move, this module says *how*.
* **`Subgraphs`** - the networks of single projections. `net` holds the state of
  each network, `split` the flag of each MLP, and `thread` a connection of a
  worker at the locks of a decode step. `vision`, `cache` and `prompt` belong
  to a master, whose images are encoded before its first decode step.
* **`SessionProofs`, `ChatApiProofs`, `WireProofs`, `SubgraphsProofs`,
  `TextDecodeProofs`, `TextChunksProofs`, `PlacementProofs`, `PlannerProofs`** - the
  proofs (section 5). Each is complete in itself: lemmas on sums over finite sets, on
  extremes and on first elements stand where they are needed, in more than one module.
  **`MCSession`, `MCChatApi`, `MCTextDecode`, `MCPlanner`, `MCPlacement`,
  `MCTextChunks`, `MCSubgraphs`** - instances for TLC.

Definitions the project calls mutants (each says so in its comment) are plausible bugs of the
action below them; replacing the action by its mutant must break a property.

## 3. Runs

One passing run, or two, per component; safety and liveness are checked on the same
instance. `CHECK_DEADLOCK FALSE` everywhere: each model ends when its bounded
number of chats is done, as the program rests when nobody asks.

| Run | Instance | Shows |
|---|---|---|
| `SessionShared` | 2 masters, 1 worker with two batches of 3 layers, 1 fault | `TypeOK`, `CacheExact`, `SingleFlight`, `TokensExact`: dialogs of two masters never mix |
| `SessionLimits` | 1 master, 2 workers, 4 layers, prompts of 1..3 with frames of 2 and tables of 3, restarts, 2 faults | `ForwardExact`, `NoLostWait`, refinement of `Generation`; `ChatTerminates` under fairness |
| `ChatApiShared` | 2 plain chats, a stream, a topology request | `TypeOK`, `DialogOwned`, `AnswerExact`, `QueueExact`; `Answered` under fairness |
| `TextPaths` | five masters, chosen by the initial state | `TypeOK`, `ContextExact`, `ValidatedUse`, `Survives`; `PassEnds` under fairness |
| `PlannerLayouts` | 66 profiles of two or three devices and four layers: three scores, memory that holds two or three layers or all, ties, 17 faulty profiles | `ExactBest`: each label is the best of its state; `PlanOptimal`; `GivesUpRightly` |
| `PlacementFiles` | four layers, a master and two workers; topologies that agree in three encodings, are edited while processes run and restart, or do not match; shadow hosts | `PassIsModel`, `AgreementServes`, `ReportTrue` |
| `WireFrames` | three requests and a probe; units of length 1 to 6 with a limit of 3 and lengths modulo 5; drops at every step; with and without a rate limit | `HandledWhole`, `Undisturbed`, `RateLimited` |
| `TextChunks` | twelve directories of chunk files, three layers, two heads of two dimensions, two dialogs of up to four positions | `CoveredOnce`, `InputExact`, `EntriesExact` |
| `SubgraphSteps` | two layers; two connections of a worker, or a master with prompts of up to two images; eager and lazy loading; one failure of the runtime | `HandedOnExact`, `StaysGivenUp`, `GivenUpForCause`, `NpuRoom`, `Q8Accounted` |

The five masters of `TextPaths` (`MCTextDecode!Deployed`):

| Master | What happens on it |
|---|---|
| `Partial` | `npu-cpu`, two chunks, a local and a remote layer behind them; runner, loads and layers fail up to twice each; the second chunk is too short for the end of some dialogs |
| `Buckets` | `auto`; dialogs are twice as long as the buckets: the bucket guard moves the entries to the cache, or fails to |
| `Full` | `full-npu`: the headroom guard, and coverage refused at a reload |
| `Prefill` | the NPU prefills all layers and decodes a prefix, the tail is local; everything fails up to twice |
| `ShadowHost` | no NPU; a shadow host computes a prompt's local layers and keeps the dialog |

`ChatApiShared` takes about a minute and a half, `WireFrames` and
`SubgraphSteps` half a minute, the others a few seconds.

What each of the newer properties rules out:

* `ExactBest` speaks of the middle of the search: when the labels up to some end
  layer have been extended, a label exists exactly for the states some layout
  reaches, with the least score of those layouts. A label of a state never
  needs a worse predecessor, although the score of a segment depends on the
  device alone and the throughput score is a maximum.
* `AgreementServes`: a worker that loaded the topology the master loaded, under
  its own name and at an address of its own, is never asked for a layer it does
  not have, though two nodes may claim a layer and each process iterates its
  hash map in an order of its own. `PassIsModel` needs no agreement at all: a
  pass that ends has computed each layer once and in order.
* `ReportTrue` reads the answer against the routes of the running master, while
  the file is edited.
* `Undisturbed` and `HandledWhole` split what a dropped handler can do: it can
  leave a response behind, or half a frame, after which a later request may
  wait for ever for a worker that waits for the rest; but it can never make the
  worker compute on a message nobody finished. `Undisturbed` excepts one more
  thing than drops: a response whose length does not fit the 32 bits of its
  header (`message.rs:395`) leaves its end on the stream, and a later request
  reads that (`cut` remembers it). It takes a fourth request to show, one more
  than the run has; the attempt to prove `Undisturbed` without the exception found it.
* `InputExact` and `EntriesExact` compare flat buffers, position by position,
  with the dialog, after any sequence of prefill, decode, failed chunk,
  shrinking, reload and copy from the cache.
* `HandedOnExact`, `StaysGivenUp`, `GivenUpForCause`: the comparison of a
  network with the CPU happens once, while other connections already run the
  same layer; the flags are read under locks that are released in between.
* `NpuRoom` holds through prompts that fail between two images, because a decode
  step needs a prompt that completed; the vision network itself does stay
  loaded after such a prompt, until the next one completes.

**Bounds.** Two chats per master (or dialogs) are what is needed for one to
leave something behind that another trips over; three layers give a local layer, a
batch and a second batch on the same worker; the two or three tokens of a prompt
separate prefill from decode and sit on both sides of the frame, table and
bucket limits; two faults allow a failure during the recovery from another.
`MaxChats`, `MaxLoads`, `MaxFaults`, `MaxDialogs`, `MaxRequests`, `MaxProbes`,
`MaxTime` and `MaxPast` are bounds of the models only;
`SampleLen`, `MaxSeq`, `MaxFrame` and `Bucket` are limits of the program, made small.
Three requests on a wire let one be dropped, the next be answered with what it
left, and a third show whether the shift remains. Three devices are the fewest
for which the order in which the planner visits device sets matters. Two layers
of subgraphs hold one network of each kind of error beside a good one; two
connections are enough, as the steps of a third would repeat those of one of
them at the same locks.
`MasterSymmetry` permutes masters, which no property of that run tells apart, and
that run has no liveness property. In `SessionLimits` the two faults may fall
on the same chat, on two chats, or on two machines.

**Fairness.** Only the executor is assumed fair: a task that can run does
(`WF` of a master's step, of a worker task's step, of a handler's step, of a
pass). Arrivals, failures and disconnects have none. A read on a connection that
died without a sign is *not* fair: `Client::request` has no timeout, so the
promise of `ChatTerminates` and `Answered` excludes exactly those chats and the
requests queued behind them.

### Disagreements between the code and what it says

Three are runs that TLC ends with the counterexample.

* `WireDropped` - `client.rs:280` says a request returns its response. A plain
  chat whose client disconnects is dropped between writing a request and reading
  the response; the response stays on the pooled connection and is returned to
  the next chat, and every later response is one late.
* `TextHead` - the branch after a failed validation returns the final hidden
  state instead of logits (`qwen3_vl.rs:2232`).
* `TextAdds` - `lib.rs:128-130` says a prefill runs on the RKNN chunks. Layers to
  which the images of the first pass add nothing get an empty addition, which a
  chunk refuses (`text_rknn.rs:2549`), although it keeps a buffer of zeros for a
  layer without one; the refusal disables the NPU text path for the process.
  Only additions to every layer of every chunk get through.

Others come out of the same models, as properties stated in the modules that do
not hold of them. No run checks them; the instances are in the MC modules.

* `Session!RetryAfterOpError` - `worker.rs:703` says the master can continue or retry after a
  failed operation. The task ends with it, the pool never reconnects, and later
  chats fail.
* `ChatApi!CountsTokens` - `generated_tokens` of a plain chat counts two calls of the
  closure that emit no token (`api/mod.rs:55`).
* `TextDecode!ContextExact` with `Deployments <- Lost` - after an NPU prefill with full decode coverage the prompt's
  entries exist in the runner only. The reference of the first validation sees an
  empty cache, the runner is rejected and released, and the prompt is gone.
* the same with `RemoteTail` - after an NPU prefill, a worker behind the NPU prefix never gets
  the prompt (`lib.rs:139` promises local or distributed layers there).
* the same with `Stale` and `MaxSeq = 7` - a validation that ends with an error keeps the runner, with the
  entries of that moment. When the dialog outgrows the buckets, the guard copies
  them over the newer ones in `ctx.cache`. No fault is needed: a prompt longer than the
  second chunk's bucket and shorter than the first's is enough.
* the same for two masters no instance has: with a first bucket as long as
  `MaxSeq`, a runner loaded anew takes the preallocated tensor of `ctx.cache`,
  rows of zeros included, for the past of a dialog (`text_rknn.rs:1911`); and
  with a shadow host that is not promoted (`qwen3_vl.rs:1308`), the host
  computes the prompt and the master's own layers decode without it
  (`qwen3_vl.rs:2004-2070`).
* `TextDecode!DisabledAfterFailure` with `Retry` - that branch logs "disable text rknn"; only a mismatch of the last
  chunk disables it.
* `TextDecode!RefusedGoesOn` with `Refused` - in `full-npu` mode, a validation that had to shrink succeeds,
  the reload refuses the partial coverage and disables decode, and the step fails with "text rknn
  runner not initialized" where it should go on in software.

Two more are no property of a run, since no document says what should happen.

* `TextChunks!DecodePanics` - decode chunks may end behind the last layer of the
  model, which the loader refuses for prefill chunks only. Without an NPU prefill the copy
  from the cache fails and the runner is given up. Behind one, the first decode step
  indexes behind the runner's entries (`text_rknn.rs:2125`), and the release
  build aborts on a panic (`Cargo.toml:20`).
* `Placement!Report` - `reload_required` looks at the workers of the file as it
  is now (`api/mod.rs:336`). A worker removed from the file, to which the
  loaded master still sends requests, asks for no reload. `ReportTrue` speaks of
  the workers of the file only.

`TextPaths` stays clear of the disagreements in `TextDecode` by its masters, which is a restriction and not a
proof that they are rare: no worker and no full coverage together with an NPU
prefill, no failing layer while a dialog outgrows every bucket. `Survives`
excepts `full-npu` mode, `ContextExact` a copy of entries that itself failed.

## 4. Assumptions of the models

* Key and value of a token move together; a hidden state is determined by what
  attention read. In `TextDecode` the runner and the software layers are
  compared as follows: if they read the same they may agree or not (numerics);
  if they read different positions they do not agree.
* A worker in `TextDecode` is what `Session` shows it to be: its entries change
  with the passes sent to it, and only with those. Its GGUF output head is off.
* With `HasPrefill`, `TextDecode` has prefill chunks that take the deepstack
  inputs of images, and images that add to every layer; in all other cases the
  first prefill fails (`TextAdds`) or there is none (`TextChunks!UsesPrefill`).
* `reset` and `start_dialog_prompt` of a chat are one step: both run under the
  write lock before the first pass (`ChatApi!DialogOwned`).
* A chunk fails before its entries are appended; an error half way through the
  appends of one chunk is not modelled.
* In `Session` a frame is delivered whole or not at all, and no handler is
  dropped; `Wire` has both, over one connection and without caches.
* `Planner` computes with naturals. The source's scores are `f64`, and two
  layouts whose scores differ by rounding only may come out the other way.
* A layer name in `Placement` stands for its index; a worker serves one
  architecture, so prefixes of names do not differ.
* In `TextChunks` keys and values go the same way, and element types are not
  distinguished; a conversion between two layouts moves cells and keeps them.
  In the directories of the run, chunks that return all positions have a bucket for
  every length (`Gapless`, section 5).
* In `Subgraphs` a network is good, off by more than its own threshold, off only
  behind the down projection (`loose`), or of a prefill length (`long`), and the
  same on every run and after every reload: the file does not change, and the
  comparison of one token stands for all. A network of several layers is off.
  Prefill passes use none of these networks.

## 5. Proofs

Every theorem holds for all values of its module's constants under the named
assumptions of that module, which TLC evaluates in the runs:

* `Session`: `SessionAssumption` and `MaxSeqAssumption`; all sets of masters and
  workers, all topologies and all bounds.
* `ChatApi`: `ChatApiAssumption`; all sets and kinds of requests.
* `Wire`: `SizeAssumption`, `BoundsAssumption`, `TimeAssumption` and
  `NoneAssumption`; all lengths, limits, header widths, times of a unit and
  numbers of requests.
* `Subgraphs`: `SubgraphsAssumption`, and `SetupsAssumption`: of the network
  files only gate/up networks can be `loose`. Whole-MLP and down networks are
  compared with the very threshold of the MLP's comparison
  (`MLP_RKNN_MAX_ABS_THRESHOLD`), gate/up networks with a wider one of their own
  (`text.rs:566-568`), so only they can pass the first and fail the second. The
  layers are finitely many, of any number.
* `TextDecode`: `TextDecodeAssumption`, `MaxSeqAssumption` and `NoneAssumption`;
  any number of layers and chunks, any buckets, prompts and numbers of failures.
* `Planner`: `ProfilesAssumption`, that the figures of a profile are natural
  numbers and its devices finitely many, and `RiskAssumption`; all profiles,
  valid or not, and all numbers of layers and devices.
* `TextChunks`: `SizeAssumption`, `BoundsAssumption`, `NoneAssumption` and
  `DirectoriesAssumption`: a directory is a finite set of files of different names;
  a file takes at least one length of past, and only a dynamic one more. All
  directories, and all numbers of layers, heads and dimensions.
* `Placement`: `DeploymentsAssumption`: a topology file is a finite map from
  names to nodes, and every machine has one.

The assumptions on `None` say that "no value" is not a value, which TLA+ does not.

| Theorem | Says |
|---|---|
| `SessionProofs!TypeCorrect` | `Spec => []TypeOK` |
| `SessionProofs!Invariance` | `Spec => []Inv` |
| `SessionProofs!TokensAreExact`, `ForwardsAreExact`, `CachesAreExact`, `FlightsAreSingle`, `WaitsEnd` | the safety properties of the session |
| `SessionProofs!SessionImplementsGeneration` | the session implements `Generation` |
| `ChatApiProofs!TypeCorrect` | `Spec => []TypeOK` |
| `ChatApiProofs!DialogIsOwned`, `QueueIsExact`, `AnswerIsExact` | one chat at a time owns the dialog; nobody is lost or left behind in the lock's queue; a client that stays gets the text of its own tokens |
| `WireProofs!TypeCorrect` | `Spec => []TypeOK` |
| `WireProofs!RateCorrect` | both connections of a client together keep to the limited rate |
| `WireProofs!HandledCorrect` | a worker handles only requests that were written to their end, once and in order |
| `WireProofs!ResponsesCorrect` | without a dropped request or a response cut off by its header, every request gets its own response, and nobody waits for half a frame |
| `SubgraphsProofs!Invariance`, `TypeCorrect` | the inductive invariant; `Spec => []TypeOK` |
| `SubgraphsProofs!ExactHandedOn`, `GivenUpStays`, `CauseToGiveUp`, `RoomForVision` | the safety properties of the networks' states |
| `SubgraphsProofs!BytesAccounted` | the Q8 budget is what the copies made and the copies being made take, no more and no less |
| `TextDecodeProofs!Invariance`, `TypeCorrect` | the inductive invariant; `Spec => []TypeOK` |
| `TextDecodeProofs!UseIsValidated`, `DialogSurvives` | no chunk is used that was not compared in this dialog; a failing runner ends no dialog |
| `TextDecodeProofs!ContextCorrect`, `ContextWhereCopied` | attention of every layer reads exactly the dialog, for the masters the two theorems describe |
| `TextChunksProofs!Invariance`, `TypeCorrect` | the inductive invariant; `Spec => []TypeOK` |
| `TextChunksProofs!LayersCoveredOnce` | chunks cover a prefix of the layers once, prefill chunks all of them once |
| `TextChunksProofs!InputsAreExact`, `EntriesAreExact` | a context is run on the dialog in its own shape and layout; the runner goes on from the dialog; both `Gapless` |
| `PlacementProofs!Invariance`, `TypeCorrect` | the inductive invariant; `Spec => []TypeOK` |
| `PlacementProofs!PassesAreTheModel` | a pass that ends has computed each layer once and in order |
| `PlacementProofs!AgreementIsEnough`, `ReportIsTrue` | the two action properties: agreeing machines serve each other; the topology answer is true of the routes in use |
| `PlannerProofs!Invariance`, `TypeCorrect` | the inductive invariant; `Spec => []TypeOK` |
| `PlannerProofs!TableIsBest` | the table of the dynamic program holds the best of every state, as far as it is final |
| `PlannerProofs!PlansAreOptimal`, `GivingUpIsRight` | no layout within the bounds beats the plan; without a plan there is no such layout |

The invariants were checked by TLC on the instances of the runs before they were
proved; `EntriesInv` of the text path on eleven more.

*The argument for the session.* `TokensExact` is not inductive: the next token depends on the hidden
state the master holds (`ForwardOf`), on the message in flight (`FlightOf`) and
on the cache entries of every machine, each of which must be at the pass's
position or one behind, depending on whether its layer is done (`CacheOf`).
`MasterInv(m)` is their conjunction. It speaks of one master, so a step of
another master, which touches neither its variables nor its connections,
preserves it (`Unaffected`); a step of this master or of a worker on its connection has a lemma
each (`LocalBlockExact`, `SendBatchExact`, `ReceiveExact`, `SampleExact`,
`ServeExact`, `DropExact`). The key lemma below them is `ProcessKvExact`: an
entry that holds the first `i` positions, given the next `n`, holds the first
`i + n`, and at position 0 holds the first `n` *whatever it held before*; this is
why a worker need not be told that a chat ended. The refinement follows from
`Inv`: a sample appends the reference token, all other steps of a chat stutter.

*The argument for the HTTP side.* `DialogOwned` needs, for the step that takes the
lock, that nobody else generates, which is its own first conjunct (a request in
`generate` is the holder, and the holder is `None` when the lock is granted), and
that nothing was sampled for a request before it has had the lock (`Unstarted`).
While it generates, `generated = Len(said[r])` decides between encoding the prompt
and continuing it; either way the model's tokens become the prompt and what was
sampled (`SampledOwned`). `QueueExact` needs no strengthening beyond the types, but
the last conjunct, that a holder generates, relies on every end of a handler to
release the lock it has. The waiter that leaves the middle of the queue is
`WithoutDef` and `Left`, of which the grant of the lock is the first place.
`AnswerExact` speaks of chats that have ended; while one generates, what its
client has been sent must already be the text so far (`Sent`). That text is
stated with increasing places in what was sampled (`IsTextOf`), so that a token
more, with text or without, extends the places (`TextOfAppend`) and no induction
over the tokens is needed.

*The argument for the rate.* Two writers share the limiter. A slot is given out
behind all others, but the writers wake in any order: one with a later slot may
write first, and a dropped one never writes. `Paced` therefore says of a held
slot that what was written before it begins leaves room for its unit, or that
the time that has passed does (`Slotted`), and of two held slots that the later
one also leaves room for the unit of the earlier one (`Apart`). `ReservePaced`,
`WritePaced` and `DropPaced` are the three things a step can do to a task, and
`PacedSymmetric` lets them serve the request and the probe alike.

*The argument for whole requests.* A dropped request leaves the beginning of a
frame on the stream, and the next frame follows it. `WholeInv` says that the
parts on the stream are still in order of their requests and within them
(`PartsOrdered`), lie behind all that was handled, and that the last part of a
request is only there when the request was written to its end (`Placed`). A
message that can be decoded contains such a part (`ReadWhole`), whichever header
it was read behind.

*The argument for responses.* `Undisturbed` alone does not say where a response
is. `StageInv` does: while nothing was dropped or cut off there is at most one
frame between client and worker, and it is, in turn, on the way to the worker
(`Sends`), at the worker (`Served`), on the way back (`Responds`) or partly in
the buffer of the request it answers (`Reads`). Without the premise on `cut` the
invariant is not preserved by a response of 4 GiB: `SizeOf` states less than was
written.

*The argument for the networks.* A decode step takes the locks of a layer one
after the other and releases each before the next, so what it read may have
changed when it uses it. The invariant therefore has one part for the networks
(`NetInv`: validated means right for one position; given up means disabled, for a
cause), one for the split flag of each MLP (`SplitInv`: it is up only where the
gate/up network is sound or out of use), and one for every place of a connection
(`ThreadInv`): what the step has used so far is right unless the comparison at
its end is still to come, and what was given up before the step began is not in
it. `NpuRoom` needs that no connection is in a step and no MLP network is loaded
while the vision network is (`VisionInv`). `Q8Accounted` needs to know who makes
which copy (`Q8Inv`): what a connection holds reserved is the size of the copy it
is making, and no two make the same one. That a sum over a set grows by the value
of the element that joins it, whichever element the fold picks first, is proved
in `SumAdd`: by induction on the size of the set, with the well-founded order of
the numbers in place of the library's induction rule.

*The argument for the text path.* `PassInv` says for every place of a pass
whether there is a runner, with how many chunks, and for how many it was
validated; only `full-npu` mode can come out of a reload without one. On top of
it `EntriesInv` says where the newest entries of the dialog are. Between two
passes, once the runner has decoded, they are in the runner for its layers; for
the others (and before that, for all) where the software path looks: in
`ctx.cache`, on a worker or on the shadow host. In the middle of a pass there is
one part per place, saying what the next copy or the next layer will find: before
a reload, that the cache fills all layers of a runner or none (`Even`); in a
fallback, which entries of the runner go back to the cache.

`ContextExact` does not hold of every master (section 3), and the theorems say
of which. `Sound` asks that the first bucket is shorter than `MaxSeq`, that a
shadow host is promoted, and, with NPU prefill, that there are no remote layers
and the NPU does not decode all of them. TLC finds a counterexample for each of
these conditions when it is left out. `ContextWhereCopied` then needs one thing
of the run, that the bucket guard copies entries that are up to date
(`GuardCopiesAll`), which a validation that ended with an error can break (`Stale`
above). `ContextCorrect` needs nothing of the run but asks for a first bucket
that the dialogs fit (`LongEnough`), so that the guard has nothing to do. Of the
masters of `TextPaths`, `Partial`, `Prefill` and `ShadowHost` are `LongEnough`;
`Buckets` and `Full` meet the guard, and only `ContextWhereCopied` is about them.

*The argument for the text chunks.* It has two halves. The first is about flat
buffers, in which a head, a position and a dimension are found by quotients and
remainders of products: each has one place and each place is one of theirs
(`PlaceIs`, `PlaceOnto`), so that buffers with equal cells are equal (`SameCells`).
With it, one lemma per conversion of the code says what it makes of the positions of
a dialog: padding to a bucket (`PaddedOfAt`), the layout of a context and back
(`NativeAt`, `CacheLayoutAt`), one more position in the cache's and in the context's
buffer (`DeltaUpdates`), all positions from a full output (`FullUpdates`), and a
prompt (`PrefilledIs`). An entry therefore only ever has one of two values, the
dialog's positions alone (`Bare`) or with the buffers of some shape (`WithNative`).

The second half is the runner. `LoadInv` says that the chunks are those that loading
takes one behind the other from the directory (`Chain`), which needs that the names
of the files order what is tried first (`FirstOfIn`, by induction on the number of
files); the chain is cut by validation, shrinking and reload, and stays one.
`CoveredOnce` follows from it and, for prefill, from the tiling that the code checks.
`ShapeInv` says that a shape the runner remembers is the one its context has: a
remembered shape is dropped whenever the context may have another. `DialogInv` says when
the runner may take its entries for current: while the cache is behind the dialog, it
has entries of its own, so that a copy from the cache is never of an older dialog.
`KvInv` is `EntriesExact` with the two values of an entry.

*The premise `Gapless`.* A chunk may return the new position alone or, on what the
source calls the legacy path, all positions (`text_rknn.rs:2418`, "model outputs full
present kv (past+1) every token"). Such an output is as long as the bucket and one,
the code accepts any that is long enough and takes the positions in front. If the
bucket is longer than the dialog, the last of them is padding and the new position is
lost. TLC finds this in a directory with a full file of buckets 2 and 4, so
`InputsAreExact` and `EntriesAreExact` ask that a full file has every length up to its
longest; with outputs of the new position alone, nothing is asked. `TypeCorrect` and
`LayersCoveredOnce` hold without it. The invariant was checked by TLC on the twelve
directories before it was proved.

*The argument for placement.* The files change after a process has read them. The
invariant ties what a worker has loaded to the topology it read when it started
and to a node it is in it (`LoadedInv`), and the master's routes to the topology
it read and some order of its hash map (`RoutesInv`). With equal topologies and a
name that is unique, the node of the worker and that of the route are the same
(`AgreementIsEnough`). `PassIsModel` rests on what a request is in each encoding,
the layers of one route from the one the pass has come to (`Operations`). For
`ReportTrue`, a node that is the only claimant of a layer is its owner in every
order.

*The argument for the planner.* It is that of the dynamic program, once per
inequality. A label's score is not too low, because every label stands for a layout
that its segments list (`LabelInv`; `GrownLayout` is the step: a layout of the
first `a` layers and one segment more is a layout, and costs what the segment
adds, by sum or by maximum). It is not too high (`Reached`): a layout of one device
is in the table from the start (`SeedInv`); any other is one that has grown
(`CutLayout`), the shorter one has a label by induction on the layers, and once
that label was extended, nothing that grows from it costs more than the table says
(`StepInv`). `StepInv` speaks of the score the label had when it was extended; that
it does not improve afterwards is the order of the loops (`OrderInv`), so the proof
needs that the order is total (`BeforeOrders`). `PlanOptimal` then follows for the
label that is picked, with `NodesAre`: the names of the nodes are those of distinct
workers and there is one master, so that the topology gives back the layout.

Checked by TLC only:

* liveness (`ChatTerminates`, `Answered`, `PassEnds`), which is out of the
  prover's reach;
* the counterexamples.

Every safety property and every action property of the passing runs is the statement
of a theorem, `InputExact`, `EntriesExact` and `ContextExact` under the premises named.

## 6. Plan

1. The four encodings of a tensor in a batch, and the GGUF output head with its
   sampling request, in `Session`.
2. Video sampling and patch grouping as operators against a reference.
3. A `MaxSeq` per machine in `Session`.

### Not modelled

* Numerics: kernels, GGUF and W8A16 weights, quantisation error. The models say
  which weights or network computes a projection, not how well.
* Buffers and element types of one call into the NPU runtime
  (`MlpRknnRunner::forward`, `QkvRknnRunner::forward_concat`, `VisionRknn::encode`):
  conversions without state.
* Prompt text, tokenisation, image and video decoding, patch grouping: pure
  functions of their input; no order of events changes them.
* Device metrics, logging, reports, the command line, the web page, scripts under
  `tools/`, and the vendored NPU bindings.
