----------------------------- MODULE TextChunks -----------------------------
(* The RKNN text runner from the inside (TextRknnRunner): which files of a *)
(* directory become its chunks, and in what shape and layout each chunk's  *)
(* NPU context gets the keys of the positions so far.  Values and keys go  *)
(* the same way, so one buffer per layer stands for both.  A buffer is a   *)
(* flat sequence of cells.  Whose pass this is, and what happens to the    *)
(* dialog behind a failure, is in TextDecode.                              *)
EXTENDS Integers, Sequences, FiniteSets, SequencesExt, FiniteSetsExt

CONSTANTS
  Directories,   \* the directories of .rknn files to choose from
  NumLayers,     \* num_hidden_layers
  Heads,         \* num_key_value_heads
  HeadDim,       \* head_dim
  MaxPast,       \* bound: positions of a dialog
  MaxDialogs,    \* bound: dialogs
  Zero,          \* a cell of padding
  None           \* nothing there

ASSUME SizeAssumption ==
  NumLayers \in Nat \ {0} /\ Heads \in Nat \ {0} /\ HeadDim \in Nat \ {0}
ASSUME BoundsAssumption == MaxPast \in Nat /\ MaxDialogs \in Nat \ {0}

(* The name of a file stands for its place among all names.                *)
Files ==
  [name : Nat, first : Nat, last : Nat, tag : {"decode", "prefill", "none"},
   class : {"static", "dynamic", "plain"}, buckets : SUBSET Nat, full : BOOLEAN,
   format : {"NHWC", "NCHW"}, layout : {"SeqDimHead", "HeadSeqDim"},
   loads : BOOLEAN, add : BOOLEAN]

(* A directory has finitely many files, no two of one name.  A file takes  *)
(* some lengths of past, and only a dynamic one more than one.             *)
ASSUME DirectoriesAssumption ==
  \A dir \in Directories :
    /\ dir.files \subseteq Files /\ IsFiniteSet(dir.files)
    /\ \A f, g \in dir.files : f.name = g.name => f = g
    /\ \A f \in dir.files :
         /\ f.buckets # {} /\ IsFiniteSet(f.buckets)
         /\ f.class # "dynamic" => \E b \in f.buckets : f.buckets = {b}

(* A cell of keys and values: dialog, head, position, dimension.           *)
Cells == (Nat \X Nat \X Nat \X Nat) \cup {Zero}

(* None is no length and no entry of a layer (Entry).                      *)
ASSUME NoneAssumption ==
  /\ None \notin Nat
  /\ None \notin [past : Nat, k : Seq(Cells),
                  native : {None} \cup [bucket : Nat, format : {"NHWC", "NCHW"},
                                       k : Seq(Cells)]]

VARIABLES
  directory,   \* the files, and the layers that images add features to
  phase,       \* "decode" and "prefill" while loading, then "ready" or
               \* "refused"; "released" and "aborted" without a runner
  expected,    \* the layer the next chunk has to start at
  runner,      \* chunks, prefill chunks, layer KV, selected shapes, synced_from_cache
  npu,         \* the shapes that the contexts of the chunks are set to
  dialog,      \* its number, positions, validation and current pass
  input        \* what a chunk was given last

vars == <<directory, phase, expected, runner, npu, dialog, input>>

Layers == 0 .. NumLayers - 1

-----------------------------------------------------------------------------
(* The files.  A static file takes one length of past, a dynamic one some. *)
Tagged(tag) == {f \in directory.files : f.tag = tag}

DecodeCandidates == IF Tagged("decode") # {} THEN Tagged("decode") ELSE Tagged("none")

Rank(f) == CASE f.class = "static" -> 0 [] f.class = "dynamic" -> 1 [] f.class = "plain" -> 2

Span(f) == f.last - f.first

(* The files of a range are tried, and the ranges at a layer chosen, by    *)
(* kind, then the longest static bucket, then the shortest range.          *)
Key(f) ==
  <<Rank(f), IF f.class = "static" THEN -Max(f.buckets) ELSE 0, Span(f), f.name>>

Precedes(f, g) ==
  \E i \in 1 .. 4 : Key(f)[i] < Key(g)[i] /\ \A j \in 1 .. i - 1 : Key(f)[j] = Key(g)[j]

FirstOf(files) == CHOOSE f \in files : \A g \in files \ {f} : Precedes(f, g)

(* Mutant: a range that only reaches over the layer.                       *)
StartingAnywhere == {f \in DecodeCandidates : f.first <= expected /\ f.last >= expected}

Starting == {f \in DecodeCandidates : f.first = expected /\ f.last >= f.first}

SameRange(f, files) == {g \in files : g.first = f.first /\ g.last = f.last}

Loadable(files) == {f \in files : f.loads}

(* The prefill chunks: ranges that tile all layers, each with a file that  *)
(* loads, or none at all.                                                  *)
PrefillRanges == {<<f.first, f.last>> : f \in Tagged("prefill")}

Tiles(ranges) ==
  \A l \in Layers : Cardinality({r \in ranges : l \in r[1] .. r[2]}) = 1

PrefillLoads ==
  /\ PrefillRanges # {}
  /\ Tiles(PrefillRanges)
  /\ \A r \in PrefillRanges : r[2] >= r[1] /\ r[2] \in Layers
  /\ \A f \in Tagged("prefill") : Loadable(SameRange(f, Tagged("prefill"))) # {}

PrefillChunks ==
  IF PrefillLoads
  THEN {FirstOf(Loadable(SameRange(f, Tagged("prefill")))) : f \in Tagged("prefill")}
  ELSE None

-----------------------------------------------------------------------------
ChunkLayers(chunk) == chunk.first .. chunk.last
LastLayer == Last(runner.chunks).last
SupportsDeepstack == \A f \in runner.prefill : f.add
MaxBucket == Max(UNION {runner.chunks[i].buckets : i \in DOMAIN runner.chunks})

NoKv == [l \in Layers |-> None]
Unselected(n) == [i \in 1 .. n |-> None]

(* What clear leaves, and a runner just loaded.                            *)
Cleared ==
  [runner EXCEPT !.kv = NoKv, !.synced = FALSE, !.selected = Unselected(Len(runner.chunks))]

(* Mutant: what was taken from the cache is not read again.                *)
ShrunkSynced(chunks) ==
  [runner EXCEPT !.chunks = chunks,
                 !.selected = SubSeq(@, 1, Len(chunks)),
                 !.kv = [l \in Layers |-> IF l <= Last(chunks).last THEN @[l] ELSE None]]

(* Mutant: the shape selected for the chunk that goes stays.               *)
ShrunkSelected(chunks) ==
  [runner EXCEPT !.chunks = chunks, !.synced = FALSE,
                 !.kv = [l \in Layers |-> IF l <= Last(chunks).last THEN @[l] ELSE None]]

Shrunk(chunks) ==
  [runner EXCEPT !.chunks = chunks, !.synced = FALSE,
                 !.selected = SubSeq(@, 1, Len(chunks)),
                 !.kv = [l \in Layers |-> IF l <= Last(chunks).last THEN @[l] ELSE None]]

Unloaded ==
  [chunks |-> <<>>, prefill |-> None, kv |-> NoKv, selected |-> <<>>, synced |-> FALSE]

-----------------------------------------------------------------------------
(* Buffers.  The cell of one head, position and dimension of a dialog.     *)
Cell(h, s, d) == <<dialog.number, h, s, d>>

(* A flat buffer over a space of three dimensions, the last one fastest.   *)
Flat(n1, n2, n3, cell(_, _, _)) ==
  [i \in 1 .. n1 * n2 * n3 |->
     cell((i - 1) \div (n2 * n3), ((i - 1) \div n3) % n2, (i - 1) % n3)]

(* The cache layout: head, position, dimension.                            *)
CacheCell(k, seq, h, s, d) == k[h * seq * HeadDim + s * HeadDim + d + 1]

Positions(n) == Flat(Heads, n, HeadDim, LAMBDA h, s, d : Cell(h, s, d))

(* pad_kv_to_bucket.                                                       *)
Padded(k, past, bucket) ==
  IF bucket <= past THEN k
  ELSE Flat(Heads, bucket, HeadDim,
            LAMBDA h, s, d : IF s < past THEN CacheCell(k, past, h, s, d) ELSE Zero)

(* kv_cache_to_rknn_layout, of seq positions of a buffer that may be longer. *)
RknnLayout(k, seq, format) ==
  IF format = "NHWC"
  THEN LET head == Flat(seq, HeadDim, Heads, LAMBDA s, d, h : CacheCell(k, seq, h, s, d))
       IN  head \o [i \in 1 .. Len(k) - Len(head) |-> Zero]
  ELSE k

(* kv_rknn_to_cache_layout.                                                *)
CacheLayout(out, seq, layout) ==
  IF layout = "SeqDimHead"
  THEN Flat(Heads, seq, HeadDim,
            LAMBDA h, s, d : out[s * HeadDim * Heads + d * Heads + h + 1])
  ELSE out

(* append_cache_layout_delta_vec: one more position of every head.         *)
Appended(k, delta, old) ==
  Flat(Heads, old + 1, HeadDim,
       LAMBDA h, s, d : IF s < old THEN CacheCell(k, old, h, s, d) ELSE delta[h * HeadDim + d + 1])

(* write_cache_layout_seq: the same in the NPU's layout, in place.         *)
Index(h, s, d, bucket, format) ==
  1 + IF format = "NHWC" THEN s * HeadDim * Heads + d * Heads + h
      ELSE h * bucket * HeadDim + s * HeadDim + d

WrittenAt(k, delta, s, bucket, format) ==
  [i \in DOMAIN k |->
     IF \E h \in 0 .. Heads - 1, d \in 0 .. HeadDim - 1 : Index(h, s, d, bucket, format) = i
     THEN LET p == CHOOSE p \in (0 .. Heads - 1) \X (0 .. HeadDim - 1) :
                     Index(p[1], s, p[2], bucket, format) = i
          IN  delta[p[1] * HeadDim + p[2] + 1]
     ELSE k[i]]

(* truncate_cache_layout_seq.                                              *)
Truncated(k, seq, present) ==
  Flat(Heads, present, HeadDim, LAMBDA h, s, d : CacheCell(k, seq, h, s, d))

-----------------------------------------------------------------------------
Entry(past, k) == [past |-> past, k |-> k, native |-> None]

Native(entry, bucket, format) ==
  [bucket |-> bucket, format |-> format,
   k |-> RknnLayout(Padded(entry.k, entry.past, bucket), bucket, format)]

(* ensure_native_buffers.                                                  *)
Ensured(entry, bucket, format) ==
  IF entry.native # None /\ entry.native.bucket = bucket /\ entry.native.format = format
  THEN entry
  ELSE [entry EXCEPT !.native = Native(entry, bucket, format)]

(* append_cache_layout_delta.                                              *)
AppendedDelta(entry, delta) ==
  LET native == entry.native
  IN  [past |-> entry.past + 1,
       k |-> Appended(entry.k, delta, entry.past),
       native |-> IF native # None /\ entry.past < native.bucket
                  THEN [native EXCEPT !.k = WrittenAt(@, delta, entry.past,
                                                      native.bucket, native.format)]
                  ELSE None]

(* replace_cache_layout_full: the first present positions of a buffer.     *)
ReplacedFull(entry, full, present) ==
  LET next == [entry EXCEPT !.past = present,
                            !.k = SubSeq(full, 1, Heads * present * HeadDim)]
  IN  IF entry.native = None THEN next
      ELSE [next EXCEPT !.native = Native(next, entry.native.bucket, entry.native.format)]

-----------------------------------------------------------------------------
(* select_decode_bucket, and the shape the chunk's inputs then have.       *)
SelectBucket(chunk, past) ==
  LET required == Max({past, 1})
      longer == {b \in chunk.buckets : b >= required}
  IN  IF longer # {} THEN Min(longer) ELSE Max(chunk.buckets)

(* Mutant: the shape is set once.                                          *)
MustSetOnce(i, bucket) ==
  runner.chunks[i].class = "dynamic" /\ runner.selected[i] = None

MustSet(i, bucket) ==
  runner.chunks[i].class = "dynamic" /\ runner.selected[i] # bucket

(* The NPU: the new position in the layout of the chunk's outputs, alone   *)
(* or behind all positions of the input.                                   *)
RknnOut(cell(_, _, _), seq, layout) ==
  IF layout = "SeqDimHead" THEN Flat(seq, HeadDim, Heads, LAMBDA s, d, h : cell(h, s, d))
  ELSE Flat(Heads, seq, HeadDim, cell)

Read(native, h, s, d) == native.k[Index(h, s, d, native.bucket, native.format)]

PresentSeq(chunk, entry) == IF chunk.full THEN entry.native.bucket + 1 ELSE 1

Present(chunk, entry) ==
  LET new(h, d) == Cell(h, dialog.past, d)
  IN  IF chunk.full
      THEN RknnOut(LAMBDA h, s, d : IF s < entry.native.bucket THEN Read(entry.native, h, s, d)
                                    ELSE new(h, d),
                   entry.native.bucket + 1, chunk.layout)
      ELSE RknnOut(LAMBDA h, s, d : new(h, d), 1, chunk.layout)

(* The layers' loop behind a run: a delta is appended, a full buffer of at *)
(* least the positions so far replaces what was there.                     *)
Updated(chunk, entry) ==
  LET seq == PresentSeq(chunk, entry)
      present == CacheLayout(Present(chunk, entry), seq, chunk.layout)
  IN  IF seq = 1 THEN AppendedDelta(entry, present)
      ELSE ReplacedFull(entry, present, entry.past + 1)

-----------------------------------------------------------------------------
NoInput == [at |-> 0, bucket |-> 0, shape |-> 0, past |-> 0, format |-> None, native |-> << >>]

NewDialog(n) ==
  [number |-> n, past |-> 0, cached |-> 0, validated |-> None, pass |-> "idle", next |-> 0,
   refused |-> FALSE]

Init ==
  /\ directory \in Directories
  /\ phase = "decode"
  /\ expected = 0
  /\ runner = Unloaded
  /\ npu = [decode |-> <<>>, prefill |-> <<>>]
  /\ dialog = NewDialog(1)
  /\ input = NoInput

(* One round of load's loop over the layers: the first range here, whose   *)
(* files are tried in order.  A range that does not load ends the loop.    *)
NextFiles ==
  IF expected >= NumLayers \/ Starting = {} THEN {}
  ELSE Loadable(SameRange(FirstOf(Starting), DecodeCandidates))

LoadChunk ==
  /\ phase = "decode"
  /\ NextFiles # {}
  /\ runner' = [runner EXCEPT !.chunks = Append(@, FirstOf(NextFiles)),
                              !.selected = Append(@, None)]
  /\ expected' = FirstOf(NextFiles).last + 1
  /\ UNCHANGED <<directory, phase, npu, dialog, input>>

StopLoading ==
  /\ phase = "decode"
  /\ NextFiles = {}
  /\ phase' = IF runner.chunks = <<>> THEN "refused" ELSE "prefill"
  /\ UNCHANGED <<directory, expected, runner, npu, dialog, input>>

(* What the runner can do, less the last chunks that validation did not    *)
(* accept.                                                                 *)
Accepts(f) == dialog.validated = None \/ f.last <= dialog.validated

Accepted ==
  SubSeq(runner.chunks, 1, Max({0} \cup {i \in DOMAIN runner.chunks : Accepts(runner.chunks[i])}))

LoadPrefill ==
  /\ phase = "prefill"
  /\ phase' = "ready"
  /\ runner' = [Shrunk(Accepted) EXCEPT !.prefill = PrefillChunks]
  /\ npu' = [decode |-> [i \in DOMAIN Accepted |-> Max(Accepted[i].buckets)],
             prefill |-> IF PrefillChunks = None THEN <<>>
                         ELSE [f \in PrefillChunks |-> Max(f.buckets)]]
  /\ UNCHANGED <<directory, expected, dialog, input>>

(* The runner is dropped and loaded again.                                 *)
Reload ==
  /\ phase' = "decode"
  /\ expected' = 0
  /\ runner' = Unloaded

Release ==
  /\ phase' = "released"
  /\ runner' = Unloaded
  /\ UNCHANGED expected

Reset ==
  /\ phase = "ready" /\ dialog.pass = "idle"
  /\ dialog.number < MaxDialogs
  /\ dialog' = NewDialog(dialog.number + 1)
  /\ runner' = Cleared
  /\ input' = NoInput
  /\ UNCHANGED <<directory, phase, expected, npu>>

-----------------------------------------------------------------------------
(* The prompt in software: the cache has its positions in every layer.     *)
SoftwarePrompt(n) ==
  /\ phase = "ready" /\ dialog.pass = "idle" /\ dialog.past = 0
  /\ dialog' = [dialog EXCEPT !.past = n, !.cached = n]
  /\ UNCHANGED <<directory, phase, expected, runner, npu, input>>

(* forward_embeds: the first pass injects images, so that only chunks with *)
(* an input for additions are used, also for a prompt of text.             *)
UsesPrefill == runner.prefill # None /\ SupportsDeepstack

(* run_prefill_chunk compares the lengths with those of the file, not with *)
(* those its context was set to last; a static context takes no other.     *)
PrefillShape(f, n) == IF n = Max(f.buckets) THEN npu.prefill[f] ELSE n

PrefillSet(f, n) == f.class = "dynamic" \/ n = Max(f.buckets)

(* What images add to some layers' outputs; text adds nothing anywhere.    *)
(* The addition of a layer without one is of no rows, which a chunk that   *)
(* takes additions refuses.                                                *)
Additions == {{}, directory.adds}

AddsTaken(f, adds) == \A l \in ChunkLayers(f) : l \in adds

(* The prefill chunk's outputs hold its positions and those behind them.   *)
PrefilledEntry(chunk, n) ==
  LET out == RknnOut(LAMBDA h, s, d : IF s < n THEN Cell(h, s, d) ELSE Zero, n, chunk.layout)
  IN  Entry(n, Truncated(CacheLayout(out, n, chunk.layout), n, n))

ChunkOf(l) == CHOOSE f \in runner.prefill : l \in ChunkLayers(f)

(* The entries go to the cache as well when software is to go on with some *)
(* of the layers.                                                          *)
PrefillPass(n, adds) ==
  /\ phase = "ready" /\ dialog.pass = "idle" /\ dialog.past = 0
  /\ UsesPrefill
  /\ \A f \in runner.prefill :
       PrefillSet(f, n) /\ PrefillShape(f, n) = n /\ AddsTaken(f, adds)
  /\ runner' = [runner EXCEPT !.kv = [l \in Layers |-> PrefilledEntry(ChunkOf(l), n)],
                              !.synced = TRUE,
                              !.selected = Unselected(Len(runner.chunks))]
  /\ npu' = [npu EXCEPT !.prefill = [f \in DOMAIN @ |-> n]]
  /\ dialog' = [dialog EXCEPT !.past = n,
                              !.cached = IF LastLayer + 1 = NumLayers THEN 0 ELSE n]
  /\ UNCHANGED <<directory, phase, expected, input>>

(* A failure disables the runner for good; the prompt then is software's.  *)
PrefillFails(n, adds) ==
  /\ phase = "ready" /\ dialog.pass = "idle" /\ dialog.past = 0
  /\ UsesPrefill
  /\ Release
  /\ dialog' = [dialog EXCEPT !.past = n, !.cached = n,
                  !.refused = \E f \in runner.prefill : ~AddsTaken(f, adds)]
  /\ UNCHANGED <<directory, npu, input>>

-----------------------------------------------------------------------------
(* forward_decode up to its chunks.                                        *)
FromCache ==
  [runner EXCEPT !.synced = TRUE,
                 !.kv = [l \in Layers |-> IF l <= LastLayer
                                          THEN Entry(dialog.cached, Positions(dialog.cached))
                                          ELSE @[l]]]

CanSync == LastLayer \in Layers /\ dialog.cached > 0

StartDecode ==
  /\ phase = "ready" /\ dialog.pass = "idle"
  /\ dialog.past \in 1 .. MaxPast - 1
  /\ runner.synced \/ CanSync
  /\ runner' = IF runner.synced THEN runner ELSE FromCache
  /\ SelectBucket(runner.chunks[1], dialog.past) <= MaxBucket
  /\ dialog' = [dialog EXCEPT !.pass = "decode", !.next = 1]
  /\ UNCHANGED <<directory, phase, expected, npu, input>>

EnsuredKv(chunk, bucket) ==
  [l \in Layers |-> IF l \in ChunkLayers(chunk) THEN Ensured(runner.kv[l], bucket, chunk.format)
                    ELSE runner.kv[l]]

(* The runner keeps entries for the layers of the model only.              *)
HasEntries(chunk) == ChunkLayers(chunk) \subseteq Layers

Decoding == phase = "ready" /\ dialog.pass = "decode" /\ dialog.next \in DOMAIN runner.chunks

RunChunk ==
  /\ Decoding
  /\ LET i == dialog.next
         chunk == runner.chunks[i]
         past == runner.kv[chunk.first].past
         bucket == SelectBucket(chunk, past)
         kv == EnsuredKv(chunk, bucket)
     IN  /\ HasEntries(chunk)
         /\ bucket >= past
         /\ npu' = IF MustSet(i, bucket) THEN [npu EXCEPT !.decode[i] = bucket] ELSE npu
         /\ input' = [at |-> dialog.past, bucket |-> bucket, shape |-> npu'.decode[i],
                      past |-> past, format |-> chunk.format,
                      native |-> [l \in ChunkLayers(chunk) |-> kv[l].native.k]]
         /\ runner' = [runner EXCEPT
              !.selected[i] = IF chunk.class = "dynamic" THEN bucket ELSE @,
              !.kv = [l \in Layers |-> IF l \in ChunkLayers(chunk) THEN Updated(chunk, kv[l])
                                       ELSE kv[l]]]
         /\ dialog' = [dialog EXCEPT !.next = @ + 1]
  /\ UNCHANGED <<directory, phase, expected>>

(* No entry to start from, no bucket that is long enough, or an error of   *)
(* the NPU, when the shape is set or later: the runner is disabled for     *)
(* good.                                                                   *)
DecodeFails ==
  /\ phase = "ready" /\ dialog.past > 0
  /\ \/ dialog.pass = "idle" /\ ~runner.synced /\ ~CanSync
     \/ Decoding
  /\ Release
  /\ dialog' = [dialog EXCEPT !.pass = "failed"]
  /\ UNCHANGED <<directory, npu, input>>

(* A chunk of layers that the model does not have indexes behind the       *)
(* entries, once its bucket has been found long enough: the build aborts   *)
(* on a panic, and the process is gone.                                    *)
DecodePanics ==
  /\ Decoding
  /\ LET chunk == runner.chunks[dialog.next]
         past == runner.kv[chunk.first].past
     IN  /\ ~HasEntries(chunk)
         /\ SelectBucket(chunk, past) >= past
  /\ phase' = "aborted"
  /\ runner' = Unloaded
  /\ dialog' = [dialog EXCEPT !.pass = "failed"]
  /\ UNCHANGED <<directory, expected, npu, input>>

Done == phase = "ready" /\ dialog.pass = "decode" /\ dialog.next > Len(runner.chunks)

EndDecode ==
  /\ Done /\ dialog.validated # None
  /\ dialog' = [dialog EXCEPT !.pass = "idle", !.next = 0, !.past = @ + 1]
  /\ UNCHANGED <<directory, phase, expected, runner, npu, input>>

(* The first step of a dialog is compared with software, and taken again:  *)
(* behind a mismatch with a chunk less, or else from a fresh runner.  What *)
(* software compares with has the positions of the cache only.             *)
Again == dialog' = [dialog EXCEPT !.pass = "idle", !.next = 0]

Validated ==
  /\ Done /\ dialog.validated = None
  /\ dialog.cached = dialog.past
  /\ dialog' = [dialog EXCEPT !.pass = "idle", !.next = 0, !.validated = LastLayer]
  /\ Reload
  /\ UNCHANGED <<directory, npu, input>>

ShrinkLastChunk ==
  /\ Done /\ dialog.validated = None
  /\ Len(runner.chunks) > 1
  /\ Again
  /\ runner' = Shrunk(Front(runner.chunks))
  /\ npu' = [npu EXCEPT !.decode = Front(@)]
  /\ UNCHANGED <<directory, phase, expected, input>>

Rejected ==
  /\ Done /\ dialog.validated = None
  /\ Len(runner.chunks) = 1
  /\ Again
  /\ Release
  /\ UNCHANGED <<directory, npu, input>>

Next ==
  \/ LoadChunk \/ StopLoading \/ LoadPrefill \/ Reset
  \/ \E n \in 1 .. MaxPast - 1 :
       \/ SoftwarePrompt(n)
       \/ \E adds \in Additions : PrefillPass(n, adds) \/ PrefillFails(n, adds)
  \/ StartDecode \/ RunChunk \/ DecodeFails \/ DecodePanics \/ EndDecode
  \/ Validated \/ ShrinkLastChunk \/ Rejected

Spec == Init /\ [][Next]_vars

-----------------------------------------------------------------------------
Phases == {"decode", "prefill", "ready", "refused", "released", "aborted"}

(* The chunks are files of the directory, with one selection and, when     *)
(* loaded, one context each.                                               *)
TypeOK ==
  /\ directory \in Directories
  /\ phase \in Phases
  /\ expected \in Nat
  /\ runner.chunks \in Seq(directory.files)
  /\ runner.prefill = None \/ runner.prefill \subseteq directory.files
  /\ runner.synced \in BOOLEAN
  /\ Len(runner.selected) = Len(runner.chunks)
  /\ phase = "ready" => Len(npu.decode) = Len(runner.chunks)
  /\ dialog.number \in 1 .. MaxDialogs
  /\ dialog.past \in 0 .. MaxPast
  /\ dialog.pass \in {"idle", "decode", "failed"}

(* Loading ends with chunks that cover a prefix of the layers, every layer *)
(* of it once, never more of it than the dialog's validation accepted, and *)
(* with prefill chunks that cover all layers once or with none.            *)
CoveredOnce ==
  phase = "ready" =>
    /\ \A l \in 0 .. LastLayer :
         Cardinality({i \in DOMAIN runner.chunks : l \in ChunkLayers(runner.chunks[i])}) = 1
    /\ dialog.validated # None => LastLayer <= dialog.validated
    /\ runner.prefill # None =>
         \A l \in Layers : Cardinality({f \in runner.prefill : l \in ChunkLayers(f)}) = 1

(* What a chunk is given, whatever buffers earlier steps, dialogs, loads   *)
(* and changes of its shape have left behind: its context has the shape of *)
(* the buffers, the shape holds all positions so far, the mask is open for *)
(* just these, and every layer has this dialog's positions in the order of *)
(* the layout the chunk reads, padded to the shape.                        *)
InputExact ==
  input # NoInput =>
    /\ input.shape = input.bucket
    /\ input.bucket >= input.past
    /\ input.past = input.at
    /\ \A l \in DOMAIN input.native :
         input.native[l] = RknnLayout(Padded(Positions(input.at), input.at, input.bucket),
                                      input.bucket, input.format)

(* Between chunks and between passes, the entries of a runner that takes   *)
(* its own for current are the positions of this dialog: all in front of   *)
(* this pass, and its own one where the layer's chunk has run.             *)
EntriesExact ==
  phase = "ready" /\ runner.synced =>
    \A i \in DOMAIN runner.chunks : \A l \in ChunkLayers(runner.chunks[i]) \cap Layers :
      LET past == dialog.past + (IF dialog.pass = "decode" /\ i < dialog.next THEN 1 ELSE 0)
      IN  /\ runner.kv[l] # None
          /\ runner.kv[l].past = past
          /\ runner.kv[l].k = Positions(past)

(* lib.rs:128-130 says that with NPU prefill a prompt goes through the     *)
(* RKNN text chunks: chunks that are there and complete do not refuse it.  *)
PrefillTaken == ~dialog.refused
=============================================================================
