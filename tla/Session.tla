------------------------------ MODULE Session ------------------------------
(***************************************************************************)
(* Distributed generation: masters that walk the layers of a model, run    *)
(* the local ones themselves and send every run of layers owned by one     *)
(* worker as one request over a pooled TCP connection                      *)
(* (dial-core/src/spm/client.rs, worker.rs, master.rs and                  *)
(* models/llama3/llama.rs).                                                *)
(*                                                                         *)
(* A worker serves each connection in a task of its own with a cache of    *)
(* its own.  An error of an operation ends the task: the master sees the   *)
(* end of the stream.  Nothing reconnects and no read has a timeout.       *)
(***************************************************************************)
EXTENDS Dialog, KvOps

CONSTANTS Masters,     \* master processes
          Workers,     \* worker processes
          Local,       \* the owner of a layer no node of the topology serves
          Owner,       \* Owner[l]: the topology's worker for layer l, or Local
          Loaded,      \* Loaded[w]: layers worker w really has
          PromptLens,  \* prompt lengths, in tokens
          SampleLen,   \* args.sample_len
          MaxFrame,    \* tokens whose hidden states fit in MESSAGE_MAX_SIZE
          MaxChats,    \* bound: chats a master is asked
          MaxLoads,    \* bound: starts of a master process
          MaxFaults    \* bound: crashes, cuts and failing operations

ASSUME SessionAssumption ==
  /\ Local \notin Workers
  /\ Owner \in [Layers -> Workers \union {Local}]
  /\ Loaded \in [Workers -> SUBSET Layers]
  /\ PromptLens \subseteq Nat \ {0}
  /\ SampleLen \in Nat \ {0}
  /\ MaxFrame \in Nat
  /\ MaxChats \in Nat
  /\ MaxLoads \in Nat
  /\ MaxFaults \in Nat

VARIABLES
  \* master m
  pc,        \* "down", "idle", "blocks" (in LLama::forward) or "await" (in Client::request)
  chat,      \* number of the current or last chat
  prompt,    \* number of tokens of its prompt
  index_pos, \* LLama.index_pos
  block,     \* block_idx of LLama::forward
  x,         \* the tensor: its tokens and the computation it is the result of
  sampled,   \* the tokens sampled in this chat
  outcome,   \* how the last chat ended: "none" (not yet), "ok" or "failed"
  lkv,       \* ctx.cache: an entry per layer
  loads,     \* starts of the process so far
  \* connection <<m, w>>
  link,      \* "none", "up", "closed" by the worker, "lost", or "silent": lost unnoticed
  toWorker,  \* requests written and not read
  toMaster,  \* responses written and not read
  wkv,       \* the cache of the worker's client context
  opErr,     \* history: the chat whose operation failed and closed it, or 0
  \* the rest
  wup,       \* wup[w]: worker process w runs
  faults     \* faults so far

masterVars == <<pc, chat, prompt, index_pos, block, x, sampled, outcome, lkv, loads>>
dialogVars == <<chat, prompt>>
linkVars == <<link, toWorker, toMaster, wkv, opErr>>
envVars == <<wup, faults>>
vars == <<masterVars, linkVars, envVars>>

Conns == Masters \X Workers
Used == {Owner[l] : l \in Layers} \ {Local}
Empty == [l \in Layers |-> <<>>]
Busy(m) == pc[m] \in {"blocks", "await"}

Init ==
  /\ pc = [m \in Masters |-> "down"]
  /\ chat = [m \in Masters |-> 0]
  /\ prompt = [m \in Masters |-> 0]
  /\ index_pos = [m \in Masters |-> 0]
  /\ block = [m \in Masters |-> 0]
  /\ x = [m \in Masters |-> [cells |-> <<>>, trace |-> <<>>]]
  /\ sampled = [m \in Masters |-> <<>>]
  /\ outcome = [m \in Masters |-> "none"]
  /\ lkv = [m \in Masters |-> Empty]
  /\ loads = [m \in Masters |-> 0]
  /\ link = [c \in Conns |-> "none"]
  /\ toWorker = [c \in Conns |-> <<>>]
  /\ toMaster = [c \in Conns |-> <<>>]
  /\ wkv = [c \in Conns |-> Empty]
  /\ opErr = [c \in Conns |-> 0]
  /\ wup = [w \in Workers |-> TRUE]
  /\ faults = 0

-----------------------------------------------------------------------------
(* The master process starts: LLama::load opens one connection per worker  *)
(* of the topology (ClientPool), with the Hello handshake.  It fails, and  *)
(* the process ends, when one of them is not there.                        *)
Load(m) ==
  /\ pc[m] = "down"
  /\ loads[m] < MaxLoads
  /\ \A w \in Used : wup[w]
  /\ pc' = [pc EXCEPT ![m] = "idle"]
  /\ lkv' = [lkv EXCEPT ![m] = Empty]
  /\ loads' = [loads EXCEPT ![m] = @ + 1]
  /\ link' = [c \in Conns |-> IF c[1] = m /\ c[2] \in Used THEN "up" ELSE link[c]]
  /\ opErr' = [c \in Conns |-> IF c[1] = m THEN 0 ELSE opErr[c]]
  /\ UNCHANGED <<dialogVars, index_pos, block, x, sampled, outcome>>
  /\ UNCHANGED <<toWorker, toMaster, wkv, envVars>>

(* The process ends, at any point; its connections go with it, and the     *)
(* worker tasks that served them end with their contexts.                  *)
Stop(m) ==
  /\ pc[m] # "down"
  /\ pc' = [pc EXCEPT ![m] = "down"]
  /\ link' = [c \in Conns |-> IF c[1] = m THEN "none" ELSE link[c]]
  /\ toWorker' = [c \in Conns |-> IF c[1] = m THEN <<>> ELSE toWorker[c]]
  /\ toMaster' = [c \in Conns |-> IF c[1] = m THEN <<>> ELSE toMaster[c]]
  /\ wkv' = [c \in Conns |-> IF c[1] = m THEN Empty ELSE wkv[c]]
  /\ UNCHANGED <<dialogVars, index_pos, block, x, sampled, outcome, lkv, loads>>
  /\ UNCHANGED <<opErr, envVars>>

(* One request of a client: Master::reset, add_message, the start of       *)
(* generate, and next_token(0) up to the layers (start_dialog_prompt).     *)
StartChat(m, n) ==
  /\ pc[m] = "idle"
  /\ chat[m] < MaxChats
  /\ pc' = [pc EXCEPT ![m] = "blocks"]
  /\ chat' = [chat EXCEPT ![m] = @ + 1]
  /\ prompt' = [prompt EXCEPT ![m] = n]
  /\ index_pos' = [index_pos EXCEPT ![m] = 0]
  /\ block' = [block EXCEPT ![m] = 0]
  /\ x' = [x EXCEPT ![m] = [cells |-> Span(m, chat[m] + 1, 0, n), trace |-> <<>>]]
  /\ sampled' = [sampled EXCEPT ![m] = <<>>]
  /\ outcome' = [outcome EXCEPT ![m] = "none"]
  /\ lkv' = [lkv EXCEPT ![m] = Empty]
  /\ UNCHANGED <<loads, linkVars, envVars>>

(* An error leaves next_token and generate; the master keeps serving.      *)
FailChat(m) ==
  /\ pc' = [pc EXCEPT ![m] = "idle"]
  /\ outcome' = [outcome EXCEPT ![m] = "failed"]
  /\ UNCHANGED <<dialogVars, index_pos, block, x, sampled, lkv, loads, linkVars>>

Fault == faults < MaxFaults /\ faults' = faults + 1

AtBlock(m) == pc[m] = "blocks" /\ block[m] < NumLayers

(* A local layer: rotate, update the cache entry, attend to it.            *)
LocalBlock(m) ==
  LET l == block[m]
      ctx == ProcessKv(lkv[m][l], index_pos[m], Rotated(x[m].cells, index_pos[m]))
  IN
  /\ AtBlock(m)
  /\ Owner[l] = Local
  /\ RotaryInRange(index_pos[m], Len(x[m].cells))
  /\ lkv' = [lkv EXCEPT ![m] = [@ EXCEPT ![l] = ctx]]
  /\ x' = [x EXCEPT ![m] = [cells |-> x[m].cells,
                            trace |-> Append(x[m].trace, Computed(l, ctx))]]
  /\ block' = [block EXCEPT ![m] = l + 1]
  /\ UNCHANGED <<pc, dialogVars, index_pos, sampled, outcome, loads, linkVars, envVars>>

LocalBlockFails(m) ==
  /\ AtBlock(m)
  /\ Owner[block[m]] = Local
  /\ \/ ~RotaryInRange(index_pos[m], Len(x[m].cells)) /\ UNCHANGED faults
     \/ Fault
  /\ FailChat(m)
  /\ UNCHANGED wup

(* The batch loop: the longest run of layers with the same owner.          *)
IsBatch(first, last) ==
  /\ \A l \in first..last : Owner[l] = Owner[first]
  /\ last + 1 < NumLayers => Owner[last + 1] # Owner[first]

(* forward_batch writes the request and waits.  The write to a connection  *)
(* the worker has left may still succeed.                                  *)
SendBatch(m) ==
  \E last \in block[m]..NumLayers - 1 :
    LET first == block[m]
        c == <<m, Owner[first]>>
        request == [index_pos |-> index_pos[m], first |-> first, last |-> last,
                    cells |-> x[m].cells, trace |-> x[m].trace]
    IN
    /\ AtBlock(m)
    /\ Owner[first] # Local
    /\ IsBatch(first, last)
    /\ Len(x[m].cells) <= MaxFrame
    /\ pc' = [pc EXCEPT ![m] = "await"]
    /\ block' = [block EXCEPT ![m] = last + 1]
    /\ IF link[c] = "up"
       THEN toWorker' = [toWorker EXCEPT ![c] = Append(@, request)]
       ELSE UNCHANGED toWorker
    /\ UNCHANGED <<dialogVars, index_pos, x, sampled, outcome, lkv, loads>>
    /\ UNCHANGED <<link, toMaster, wkv, opErr, envVars>>

(* to_writer refuses an oversized frame before it writes anything, and     *)
(* fails on a connection known to be dead.                                 *)
SendFails(m) ==
  /\ AtBlock(m)
  /\ Owner[block[m]] # Local
  /\ \/ Len(x[m].cells) > MaxFrame
     \/ link[<<m, Owner[block[m]]>>] # "up"
  /\ FailChat(m)
  /\ UNCHANGED envVars

(* The connection Client::request waits on.                                *)
Awaited(m) == <<m, Owner[block[m] - 1]>>

(* Mutant: the batch loop steps over the layer behind the batch.           *)
ReceiveSkips(m) ==
  /\ pc[m] = "await"
  /\ toMaster[Awaited(m)] # <<>>
  /\ x' = [x EXCEPT ![m] = Head(toMaster[Awaited(m)])]
  /\ toMaster' = [toMaster EXCEPT ![Awaited(m)] = Tail(@)]
  /\ pc' = [pc EXCEPT ![m] = "blocks"]
  /\ block' = [block EXCEPT ![m] = @ + 1]
  /\ UNCHANGED <<dialogVars, index_pos, sampled, outcome, lkv, loads>>
  /\ UNCHANGED <<link, toWorker, wkv, opErr, envVars>>

Receive(m) ==
  /\ pc[m] = "await"
  /\ toMaster[Awaited(m)] # <<>>
  /\ x' = [x EXCEPT ![m] = Head(toMaster[Awaited(m)])]
  /\ toMaster' = [toMaster EXCEPT ![Awaited(m)] = Tail(@)]
  /\ pc' = [pc EXCEPT ![m] = "blocks"]
  /\ UNCHANGED <<dialogVars, index_pos, block, sampled, outcome, lkv, loads>>
  /\ UNCHANGED <<link, toWorker, wkv, opErr, envVars>>

(* Mutant: the read times out and the connection stays in the pool.        *)
ReceiveTimesOut(m) ==
  /\ pc[m] = "await"
  /\ toMaster[Awaited(m)] = <<>>
  /\ FailChat(m)
  /\ UNCHANGED envVars

(* Mutant: the read of a closed connection is tried again.                 *)
ReceiveTriesAgain(m) ==
  /\ pc[m] = "await"
  /\ toMaster[Awaited(m)] = <<>>
  /\ link[Awaited(m)] # "up"
  /\ UNCHANGED vars

(* read_u32 or read_exact fails: no response will come.                    *)
ReceiveFails(m) ==
  /\ pc[m] = "await"
  /\ toMaster[Awaited(m)] = <<>>
  /\ link[Awaited(m)] # "up"
  /\ FailChat(m)
  /\ UNCHANGED envVars

(* The last of LLama.tokens, once the token sampled now is pushed.         *)
NewestToken(m) ==
  [cells |-> Span(m, chat[m], prompt[m] + Len(sampled[m]), 1), trace |-> <<>>]

(* Mutant: every forward pass counts as one token.                         *)
SampleCountsOne(m) ==
  /\ pc[m] = "blocks"
  /\ block[m] = NumLayers
  /\ sampled' = [sampled EXCEPT ![m] = Append(@, x[m].trace)]
  /\ index_pos' = [index_pos EXCEPT ![m] = @ + 1]
  /\ \/ /\ pc' = [pc EXCEPT ![m] = "idle"]
        /\ outcome' = [outcome EXCEPT ![m] = "ok"]
        /\ UNCHANGED <<block, x>>
     \/ /\ Len(sampled[m]) + 1 < SampleLen
        /\ block' = [block EXCEPT ![m] = 0]
        /\ x' = [x EXCEPT ![m] = NewestToken(m)]
        /\ UNCHANGED <<pc, outcome>>
  /\ UNCHANGED <<dialogVars, lkv, loads, linkVars, envVars>>

(* Mutant: the loop of generate runs once more than sample_len.            *)
SampleOnceMore(m) ==
  /\ pc[m] = "blocks"
  /\ block[m] = NumLayers
  /\ sampled' = [sampled EXCEPT ![m] = Append(@, x[m].trace)]
  /\ index_pos' = [index_pos EXCEPT ![m] = @ + Len(x[m].cells)]
  /\ \/ /\ pc' = [pc EXCEPT ![m] = "idle"]
        /\ outcome' = [outcome EXCEPT ![m] = "ok"]
        /\ UNCHANGED <<block, x>>
     \/ /\ Len(sampled[m]) + 1 <= SampleLen
        /\ block' = [block EXCEPT ![m] = 0]
        /\ x' = [x EXCEPT ![m] = NewestToken(m)]
        /\ UNCHANGED <<pc, outcome>>
  /\ UNCHANGED <<dialogVars, lkv, loads, linkVars, envVars>>

(* After the last layer: sample, advance, and leave the loop of generate   *)
(* at the end of the stream or at the limit, or go on with the new token.  *)
Sample(m) ==
  /\ pc[m] = "blocks"
  /\ block[m] = NumLayers
  /\ sampled' = [sampled EXCEPT ![m] = Append(@, x[m].trace)]
  /\ index_pos' = [index_pos EXCEPT ![m] = @ + Len(x[m].cells)]
  /\ \/ /\ pc' = [pc EXCEPT ![m] = "idle"]
        /\ outcome' = [outcome EXCEPT ![m] = "ok"]
        /\ UNCHANGED <<block, x>>
     \/ /\ Len(sampled[m]) + 1 < SampleLen
        /\ block' = [block EXCEPT ![m] = 0]
        /\ x' = [x EXCEPT ![m] = NewestToken(m)]
        /\ UNCHANGED <<pc, outcome>>
  /\ UNCHANGED <<dialogVars, lkv, loads, linkVars, envVars>>

-----------------------------------------------------------------------------
(* The task of connection c: handle_master_client.                         *)
Batch(request) == request.first..request.last

Serveable(c, request) ==
  /\ Batch(request) \subseteq Loaded[c[2]]
  /\ RotaryInRange(request.index_pos, Len(request.cells))

Serving(c) == link[c] = "up" /\ toWorker[c] # <<>>

(* The context's cache after the batch, and what its layers computed.      *)
ServedKv(kv, request) ==
  [l \in Layers |->
     IF l \in Batch(request)
     THEN ProcessKv(kv[l], request.index_pos, Rotated(request.cells, request.index_pos))
     ELSE kv[l]]

Outputs(kv, request) ==
  [j \in 1..request.last - request.first + 1 |->
     Computed(request.first + j - 1, kv[request.first + j - 1])]

(* Mutant: one cache for all connections of the worker.                    *)
ServeShared(c) ==
  LET request == Head(toWorker[c])
      kv == ServedKv(wkv[c], request)
  IN
  /\ Serving(c)
  /\ Serveable(c, request)
  /\ wkv' = [d \in Conns |-> IF d[2] = c[2] THEN kv ELSE wkv[d]]
  /\ toWorker' = [toWorker EXCEPT ![c] = Tail(@)]
  /\ toMaster' = [toMaster EXCEPT ![c] =
                    Append(@, [cells |-> request.cells,
                               trace |-> request.trace \o Outputs(kv, request)])]
  /\ UNCHANGED <<masterVars, link, opErr, envVars>>

(* Every layer of the batch, in order, on this connection's own cache.     *)
Serve(c) ==
  LET request == Head(toWorker[c])
      kv == ServedKv(wkv[c], request)
  IN
  /\ Serving(c)
  /\ Serveable(c, request)
  /\ wkv' = [wkv EXCEPT ![c] = kv]
  /\ toWorker' = [toWorker EXCEPT ![c] = Tail(@)]
  /\ toMaster' = [toMaster EXCEPT ![c] =
                    Append(@, [cells |-> request.cells,
                               trace |-> request.trace \o Outputs(kv, request)])]
  /\ UNCHANGED <<masterVars, link, opErr, envVars>>

(* The worker's end of c is gone: the context is dropped, requests are     *)
(* lost, a response already written arrives or is lost too.                *)
Drop(C, how) ==
  /\ link' = [c \in Conns |-> IF c \in C THEN how ELSE link[c]]
  /\ toWorker' = [c \in Conns |-> IF c \in C THEN <<>> ELSE toWorker[c]]
  /\ wkv' = [c \in Conns |-> IF c \in C THEN Empty ELSE wkv[c]]
  /\ \/ UNCHANGED toMaster
     \/ toMaster' = [c \in Conns |-> IF c \in C THEN <<>> ELSE toMaster[c]]

(* Mutant: the task logs the error and reads the next request.             *)
ServeFailsSilently(c) ==
  /\ Serving(c)
  /\ \/ ~Serveable(c, Head(toWorker[c])) /\ UNCHANGED faults
     \/ Fault
  /\ toWorker' = [toWorker EXCEPT ![c] = Tail(@)]
  /\ UNCHANGED <<masterVars, link, toMaster, wkv, opErr, wup>>

(* An operation fails: a layer that is not there, a position beyond the    *)
(* table, or any error of the device.  The task returns the error, to its  *)
(* own log, and the socket is closed.                                      *)
ServeFails(c) ==
  /\ Serving(c)
  /\ \/ ~Serveable(c, Head(toWorker[c])) /\ UNCHANGED faults
     \/ Fault
  /\ Drop({c}, "closed")
  /\ opErr' = [opErr EXCEPT ![c] = chat[c[1]]]
  /\ UNCHANGED <<masterVars, wup>>

-----------------------------------------------------------------------------
(* Failures of the environment.                                            *)
Crash(w) ==
  /\ wup[w]
  /\ Fault
  /\ wup' = [wup EXCEPT ![w] = FALSE]
  /\ Drop({c \in Conns : c[2] = w /\ link[c] = "up"}, "lost")
  /\ UNCHANGED <<masterVars, opErr>>

Restart(w) ==
  /\ ~wup[w]
  /\ wup' = [wup EXCEPT ![w] = TRUE]
  /\ UNCHANGED <<masterVars, linkVars, faults>>

Cut(c, how) ==
  /\ link[c] = "up"
  /\ Fault
  /\ Drop({c}, how)
  /\ UNCHANGED <<masterVars, opErr, wup>>

-----------------------------------------------------------------------------
MasterStep(m) ==
  \/ LocalBlock(m)
  \/ LocalBlockFails(m)
  \/ SendBatch(m)
  \/ SendFails(m)
  \/ Receive(m)
  \/ ReceiveFails(m)
  \/ Sample(m)

WorkerStep(c) == Serve(c) \/ ServeFails(c)

Next ==
  \/ \E m \in Masters :
       \/ Load(m)
       \/ Stop(m)
       \/ \E n \in PromptLens : StartChat(m, n)
       \/ MasterStep(m)
  \/ \E c \in Conns : WorkerStep(c)
  \/ \E w \in Workers : Crash(w) \/ Restart(w)
  \/ \E c \in Conns, how \in {"lost", "silent"} : Cut(c, how)

Spec == Init /\ [][Next]_vars

(* The executor runs the task that can run: a master whose socket is ready *)
(* or that computes, a worker with a request to read.  A connection lost   *)
(* unnoticed never becomes ready: a read on it waits for ever.             *)
FairMasterStep(m) ==
  \/ LocalBlock(m)
  \/ LocalBlockFails(m)
  \/ SendBatch(m)
  \/ SendFails(m)
  \/ Receive(m)
  \/ pc[m] = "await" /\ link[Awaited(m)] # "silent" /\ ReceiveFails(m)
  \/ Sample(m)

FairSpec ==
  /\ Spec
  /\ \A m \in Masters : WF_vars(FairMasterStep(m))
  /\ \A c \in Conns : WF_vars(WorkerStep(c))

-----------------------------------------------------------------------------
(* Properties.                                                             *)

Cells == [master : Masters, chat : Nat, pos : Nat]
Rows == [token : Cells, row : Nat]
Entries == Seq(Rows)
Traces == Seq([layer : Layers, ctx : Entries])
Requests == {r \in [index_pos : Nat, first : Layers, last : Layers,
                   cells : Seq(Cells), trace : Traces] : r.first <= r.last}
Responses == [cells : Seq(Cells), trace : Traces]

(* Every variable has the type of the field it stands for.                 *)
TypeOK ==
  /\ pc \in [Masters -> {"down", "idle", "blocks", "await"}]
  /\ chat \in [Masters -> Nat]
  /\ prompt \in [Masters -> Nat]
  /\ index_pos \in [Masters -> Nat]
  /\ block \in [Masters -> 0..NumLayers]
  /\ x \in [Masters -> Responses]
  /\ sampled \in [Masters -> Seq(Traces)]
  /\ outcome \in [Masters -> {"none", "ok", "failed"}]
  /\ lkv \in [Masters -> [Layers -> Entries]]
  /\ loads \in [Masters -> Nat]
  /\ link \in [Conns -> {"none", "up", "closed", "lost", "silent"}]
  /\ toWorker \in [Conns -> Seq(Requests)]
  /\ toMaster \in [Conns -> Seq(Responses)]
  /\ wkv \in [Conns -> [Layers -> Entries]]
  /\ opErr \in [Conns -> Nat]
  /\ wup \in [Workers -> BOOLEAN]
  /\ faults \in Nat

(* Positions of the dialog the running forward pass is for, and the number *)
(* of layers whose output the master holds.                                *)
Positions(m) == index_pos[m] + Len(x[m].cells)
Done(m) == Len(x[m].trace)

ForwardOf(m) ==
  Busy(m) =>
    /\ Len(x[m].cells) >= 1
    /\ Positions(m) = prompt[m] + Len(sampled[m])
    /\ x[m].cells = Span(m, chat[m], index_pos[m], Len(x[m].cells))
    /\ x[m].trace = Trace(m, chat[m], Positions(m), Done(m))
    /\ Len(sampled[m]) < SampleLen
    /\ IF pc[m] = "blocks"
       THEN Done(m) = block[m]
       ELSE /\ Done(m) < block[m]
            /\ \A l \in Done(m)..block[m] - 1 : Owner[l] = Owner[block[m] - 1]
            /\ Owner[block[m] - 1] # Local

(* What is computed is the dialog so far: the tokens the master feeds to   *)
(* the layers are the ones at index_pos, and the hidden state it holds is  *)
(* what one machine with all layers would hold (LLama::next_token and      *)
(* forward: the offset into tokens and index_pos are kept separately).     *)
ForwardExact == \A m \in Masters : ForwardOf(m)

(* The entry of a layer in the cache of master m: with the running pass's  *)
(* tokens when the layer is done with them, else as the last pass left it; *)
(* anything when the pass is a prefill, which overwrites it.               *)
EntryExact(m, entry, done) ==
  IF done
  THEN entry = Context(m, chat[m], Positions(m))
  ELSE index_pos[m] = 0 \/ entry = Context(m, chat[m], index_pos[m])

CacheOf(m) ==
  Busy(m) =>
    \A l \in Layers :
      IF Owner[l] = Local
      THEN EntryExact(m, lkv[m][l], l < Done(m))
      ELSE link[<<m, Owner[l]>>] = "up" =>
             EntryExact(m, wkv[<<m, Owner[l]>>][l],
                        l < Done(m) \/ (l < block[m] /\ toMaster[<<m, Owner[l]>>] # <<>>))

(* The caches of all machines agree with the dialog: an entry of a layer,  *)
(* on the master or in the context its worker keeps for this connection,   *)
(* holds exactly the positions of this chat of this master, whatever chats *)
(* failed before it, and half way through a pass exactly the layers that   *)
(* are done have the new ones (Cache::process_kv, WorkerContext).          *)
CacheExact == \A m \in Masters : CacheOf(m)

FlightOf(m, w) ==
  /\ toWorker[<<m, w>>] # <<>> =>
       /\ pc[m] = "await"
       /\ Owner[block[m] - 1] = w
       /\ link[<<m, w>>] = "up"
       /\ toMaster[<<m, w>>] = <<>>
       /\ toWorker[<<m, w>>] = << [index_pos |-> index_pos[m], first |-> Done(m),
                               last |-> block[m] - 1, cells |-> x[m].cells,
                               trace |-> x[m].trace] >>
  /\ toMaster[<<m, w>>] # <<>> =>
       /\ pc[m] = "await"
       /\ Owner[block[m] - 1] = w
       /\ toMaster[<<m, w>>] = << [cells |-> x[m].cells,
                               trace |-> Trace(m, chat[m], Positions(m), block[m])] >>

(* One request is outstanding at a time, on the connection the master      *)
(* waits on, and a response is that of the request it waits for: after     *)
(* failed chats and failed operations no response is left for a later      *)
(* request to read (Client::request matches responses by order alone).     *)
SingleFlight == \A m \in Masters, w \in Workers : FlightOf(m, w)

WaitOf(m) ==
  pc[m] = "await" /\ link[Awaited(m)] = "up" =>
    toWorker[Awaited(m)] # <<>> \/ toMaster[Awaited(m)] # <<>>

(* A master waits only for what can come: on a connection it believes to   *)
(* be up, its request or the response to it is under way.                  *)
NoLostWait == \A m \in Masters : WaitOf(m)

TokensOf(m) ==
  \A k \in 1..Len(sampled[m]) :
    sampled[m][k] = Reference(m, chat[m], prompt[m] + k - 1)

(* Every token a chat samples is the one a single machine would sample:    *)
(* the promise of the distributed run, across batches, failed chats, lost  *)
(* connections and masters that share a worker (client.rs:89-91).          *)
TokensExact == \A m \in Masters : TokensOf(m)

(* The chat as its client sees it.                                         *)
Status(m) == CASE pc[m] = "down" -> "down"
               [] pc[m] = "idle" -> "idle"
               [] OTHER -> "busy"

G == INSTANCE Generation WITH status <- [m \in Masters |-> Status(m)]

(* A session implements what a chat promises.                              *)
ImplementsGeneration == G!Spec

(* A master that waits for a connection which died unnoticed.              *)
Stuck(m) == pc[m] = "await" /\ link[Awaited(m)] = "silent"

(* A chat ends, in success or failure, whatever fails: except that nothing *)
(* bounds the wait on a connection that died without a sign (Client::      *)
(* request reads with no timeout).                                         *)
ChatTerminates == \A m \in Masters : Busy(m) ~> (~Busy(m) \/ Stuck(m))

(* worker.rs:703-705 of an operation's error: the master gets it and can   *)
(* continue or retry.  So no chat fails because an operation of an earlier *)
(* chat did.                                                               *)
RetryAfterOpError ==
  [][\A m \in Masters :
       pc[m] = "await" /\ outcome'[m] = "failed" =>
         opErr[Awaited(m)] \in {0, chat[m]}]_vars
=============================================================================
