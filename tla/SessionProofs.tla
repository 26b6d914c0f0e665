--------------------------- MODULE SessionProofs ---------------------------
(***************************************************************************)
(* Proofs about Session, for every number of masters, workers and layers,  *)
(* every assignment of the layers and every bound: first the types, then   *)
(* why a distributed chat samples the tokens a single machine would.       *)
(***************************************************************************)
EXTENDS Session, SequenceTheorems, TLAPS

-----------------------------------------------------------------------------
(* The operators of Dialog and KvOps.                                      *)

LEMMA SpanType ==
  ASSUME NEW m \in Masters, NEW c \in Nat, NEW i \in Nat, NEW n \in Nat
  PROVE  Span(m, c, i, n) \in Seq(Cells) /\ Len(Span(m, c, i, n)) = n
BY DEF Span, Cell, Cells

LEMMA ContextType ==
  ASSUME NEW m \in Masters, NEW c \in Nat, NEW n \in Nat
  PROVE  Context(m, c, n) \in Entries /\ Len(Context(m, c, n)) = n
BY DEF Context, Cell, Cells, Rows, Entries

LEMMA RotatedType ==
  ASSUME NEW cells \in Seq(Cells), NEW p \in Nat
  PROVE  Rotated(cells, p) \in Entries /\ Len(Rotated(cells, p)) = Len(cells)
<1>1. \A j \in 1..Len(cells) : cells[j] \in Cells /\ p + j - 1 \in Nat
  OBVIOUS
<1> QED BY <1>1 DEF Rotated, Rows, Entries

LEMMA ProcessKvType ==
  ASSUME NEW old \in Entries, NEW p \in Nat, NEW new \in Entries
  PROVE  ProcessKv(old, p, new) \in Entries
<1>1. old \o new \in Entries
  BY DEF Entries
<1>2. CASE Len(old \o new) > MaxSeq
  <2>1. /\ Len(old \o new) \in Nat
        /\ MaxSeq \in Nat
    BY <1>1, MaxSeqAssumption DEF Entries
  <2>2. LastCells(old \o new, MaxSeq) \in Entries
    BY <1>1, <1>2, <2>1 DEF LastCells, Entries
  <2> QED BY <1>2, <2>2 DEF ProcessKv, Truncated
<1>3. CASE ~(Len(old \o new) > MaxSeq)
  BY <1>1, <1>3 DEF ProcessKv, Truncated
<1> QED BY <1>2, <1>3

(* process_kv extends an entry that holds positions 0 .. i-1 to one that   *)
(* holds positions 0 .. i+n-1; at index_pos 0 it needs nothing of the old. *)
LEMMA ProcessKvExact ==
  ASSUME NEW m \in Masters, NEW c \in Nat, NEW i \in Nat, NEW n \in Nat,
         NEW old \in Entries,
         i = 0 \/ old = Context(m, c, i),
         i + n <= MaxSeq
  PROVE  ProcessKv(old, i, Rotated(Span(m, c, i, n), i)) = Context(m, c, i + n)
<1> DEFINE new == Rotated(Span(m, c, i, n), i)
<1>1. /\ new \in Entries
      /\ Len(new) = n
      /\ \A j \in 1..n : new[j] = [token |-> Cell(m, c, i + j - 1), row |-> i + j - 1]
  <2>1. /\ Span(m, c, i, n) \in Seq(Cells)
        /\ Len(Span(m, c, i, n)) = n
    BY SpanType
  <2> QED BY <2>1, RotatedType DEF Rotated, Span
<1>2. /\ Context(m, c, i) \in Entries
      /\ Len(Context(m, c, i)) = i
      /\ Context(m, c, i + n) \in Entries
      /\ Len(Context(m, c, i + n)) = i + n
  BY ContextType
<1>3. CASE i = 0
  <2>1. \A j \in 1..n : new[j] = Context(m, c, i + n)[j]
    BY <1>1, <1>3 DEF Context
  <2>2. new = Context(m, c, i + n)
    BY <1>1, <1>2, <1>3, <2>1 DEF Entries
  <2> QED BY <1>3, <2>2 DEF ProcessKv
<1>4. CASE i # 0
  <2> HIDE DEF new
  <2>1. /\ old \o new \in Entries
        /\ Len(old \o new) = i + n
        /\ \A j \in 1..i + n : (old \o new)[j] = IF j <= i THEN old[j] ELSE new[j - i]
    <3>1. old \in Seq(Rows) /\ new \in Seq(Rows) /\ Len(old) = i /\ Len(new) = n
      BY <1>1, <1>2, <1>4 DEF Entries
    <3>2. /\ old \o new \in Seq(Rows)
          /\ Len(old \o new) = Len(old) + Len(new)
          /\ \A j \in 1..Len(old) + Len(new) :
                (old \o new)[j] = IF j <= Len(old) THEN old[j] ELSE new[j - Len(old)]
      BY <3>1, ConcatProperties
    <3> QED BY <3>1, <3>2 DEF Entries
  <2>2. \A j \in 1..i + n : (old \o new)[j] = Context(m, c, i + n)[j]
    <3> SUFFICES ASSUME NEW j \in 1..i + n
                 PROVE  (old \o new)[j] = [token |-> Cell(m, c, j - 1), row |-> j - 1]
      BY DEF Context
    <3>1. CASE j <= i
      BY <1>4, <2>1, <3>1 DEF Context
    <3>2. CASE ~(j <= i)
      <4>1. j - i \in 1..n /\ i + (j - i) - 1 = j - 1
        BY <3>2
      <4>2. new[j - i] = [token |-> Cell(m, c, j - 1), row |-> j - 1]
        BY <1>1, <4>1
      <4> QED BY <2>1, <3>2, <4>2
    <3> QED BY <3>1, <3>2
  <2>3. old \o new = Context(m, c, i + n)
    BY <1>2, <2>1, <2>2, SeqEqual DEF Entries
  <2>4. ~(Len(old \o new) > MaxSeq)
    BY <2>1, MaxSeqAssumption
  <2> QED BY <1>4, <2>3, <2>4 DEF ProcessKv, Truncated, new
<1> QED BY <1>3, <1>4

LEMMA TraceType ==
  ASSUME NEW m \in Masters, NEW c \in Nat, NEW n \in Nat, NEW k \in 0..NumLayers
  PROVE  Trace(m, c, n, k) \in Traces /\ Len(Trace(m, c, n, k)) = k
<1>1. Context(m, c, n) \in Entries
  BY ContextType
<1>2. \A l \in 1..k : l - 1 \in Layers
  BY NumLayersAssumption DEF Layers
<1>3. k \in Nat
  BY NumLayersAssumption
<1> QED BY <1>1, <1>2, <1>3 DEF Trace, Computed, Traces

(* One more layer.                                                         *)
LEMMA TraceAppend ==
  ASSUME NEW m \in Masters, NEW c \in Nat, NEW n \in Nat, NEW k \in Layers
  PROVE  Append(Trace(m, c, n, k), Computed(k, Context(m, c, n))) = Trace(m, c, n, k + 1)
<1>1. k \in Nat
  BY NumLayersAssumption DEF Layers
<1> QED BY <1>1 DEF Trace

(* A batch of layers a .. b-1.                                             *)
TraceOf(m, c, n, a, b) == [j \in 1..b - a |-> Computed(a + j - 1, Context(m, c, n))]

LEMMA TraceConcat ==
  ASSUME NEW m \in Masters, NEW c \in Nat, NEW n \in Nat,
         NEW a \in 0..NumLayers, NEW b \in 0..NumLayers, a <= b
  PROVE  Trace(m, c, n, a) \o TraceOf(m, c, n, a, b) = Trace(m, c, n, b)
<1> DEFINE S == [layer : Layers, ctx : Entries]
           done == TraceOf(m, c, n, a, b)
<1>1. /\ Trace(m, c, n, a) \in Seq(S) /\ Len(Trace(m, c, n, a)) = a
      /\ Trace(m, c, n, b) \in Seq(S) /\ Len(Trace(m, c, n, b)) = b
  BY TraceType DEF Traces
<1>2. a \in Nat /\ b \in Nat /\ b - a \in Nat
  BY NumLayersAssumption
<1>3. done \in Seq(S) /\ Len(done) = b - a
  <2>1. Context(m, c, n) \in Entries
    BY ContextType
  <2>2. \A j \in 1..b - a : a + j - 1 \in Layers
    BY <1>2, NumLayersAssumption DEF Layers
  <2> QED BY <1>2, <2>1, <2>2 DEF Computed, TraceOf
<1> HIDE DEF S, done
<1>4. /\ Trace(m, c, n, a) \o done \in Seq(S)
      /\ Len(Trace(m, c, n, a) \o done) = b
      /\ \A j \in 1..b : (Trace(m, c, n, a) \o done)[j]
                         = IF j <= a THEN Trace(m, c, n, a)[j] ELSE done[j - a]
  <2> DEFINE t == Trace(m, c, n, a)
  <2>1. t \in Seq(S) /\ Len(t) = a
    BY <1>1
  <2> HIDE DEF t
  <2>2. /\ t \o done \in Seq(S)
        /\ Len(t \o done) = Len(t) + Len(done)
        /\ \A j \in 1..Len(t) + Len(done) :
              (t \o done)[j] = IF j <= Len(t) THEN t[j] ELSE done[j - Len(t)]
    BY <1>3, <2>1, ConcatProperties
  <2>3. Len(t) + Len(done) = b
    BY <1>2, <1>3, <2>1
  <2>4. \A j \in 1..b : (t \o done)[j] = IF j <= a THEN t[j] ELSE done[j - a]
    BY <2>1, <2>2, <2>3
  <2> QED BY <2>2, <2>3, <2>4 DEF t
<1>5. \A j \in 1..b : (Trace(m, c, n, a) \o done)[j] = Trace(m, c, n, b)[j]
  <2> SUFFICES ASSUME NEW j \in 1..b
               PROVE  (Trace(m, c, n, a) \o done)[j] = Computed(j - 1, Context(m, c, n))
    BY DEF Trace
  <2>1. CASE j <= a
    BY <1>2, <1>4, <2>1 DEF Trace
  <2>2. CASE ~(j <= a)
    <3>1. j - a \in 1..b - a /\ a + (j - a) - 1 = j - 1
      BY <1>2, <2>2
    <3>2. done[j - a] = Computed(j - 1, Context(m, c, n))
      BY <3>1 DEF done, TraceOf
    <3> QED BY <1>4, <2>2, <3>2
  <2> QED BY <2>1, <2>2
<1>6. Trace(m, c, n, a) \o done = Trace(m, c, n, b)
  BY <1>1, <1>4, <1>5, SeqEqual
<1> QED BY <1>6 DEF done

-----------------------------------------------------------------------------
(* Type correctness.                                                       *)

LEMMA EmptyType == Empty \in [Layers -> Entries]
BY DEF Empty, Entries

LEMMA OutputsType ==
  ASSUME NEW r \in Requests, NEW kv \in [Layers -> Entries]
  PROVE  /\ ServedKv(kv, r) \in [Layers -> Entries]
         /\ Outputs(ServedKv(kv, r), r) \in Traces
<1>1. Rotated(r.cells, r.index_pos) \in Entries
  BY RotatedType DEF Requests
<1>2. ServedKv(kv, r) \in [Layers -> Entries]
  <2>1. \A l \in Layers :
          ProcessKv(kv[l], r.index_pos, Rotated(r.cells, r.index_pos)) \in Entries
    BY <1>1, ProcessKvType DEF Requests
  <2> QED BY <2>1 DEF ServedKv
<1>3. ASSUME NEW served \in [Layers -> Entries]
      PROVE  Outputs(served, r) \in Traces
  <2> DEFINE n == r.last - r.first + 1
  <2>1. /\ r.first \in Nat
        /\ r.last \in Nat
        /\ r.last < NumLayers
        /\ r.first <= r.last
    BY NumLayersAssumption DEF Requests, Layers
  <2>2. n \in Nat
    BY <2>1
  <2>3. \A j \in 1..n : r.first + j - 1 \in Layers
    BY <2>1, NumLayersAssumption DEF Layers
  <2>4. \A j \in 1..n :
          Computed(r.first + j - 1, served[r.first + j - 1]) \in [layer : Layers, ctx : Entries]
    BY <2>3 DEF Computed
  <2> HIDE DEF n
  <2>5. [j \in 1..n |-> Computed(r.first + j - 1, served[r.first + j - 1])]
          \in Seq([layer : Layers, ctx : Entries])
    BY <2>2, <2>4
  <2> QED BY <2>5 DEF Outputs, Traces, n
<1> QED BY <1>2, <1>3

LEMMA TypeInit == Init => TypeOK
<1> SUFFICES ASSUME Init PROVE TypeOK
  OBVIOUS
<1>1. Empty \in [Layers -> Entries]
  BY EmptyType
<1>2. [cells |-> <<>>, trace |-> <<>>] \in Responses
  BY DEF Responses, Traces
<1> QED BY <1>1, <1>2, NumLayersAssumption DEF Init, TypeOK

(* A failing chat touches nothing but pc and outcome.                      *)
LEMMA FailChatType ==
  ASSUME TypeOK, NEW m \in Masters, FailChat(m), faults' \in Nat, wup' = wup
  PROVE  TypeOK'
BY DEF TypeOK, FailChat, dialogVars, linkVars

LEMMA DropType ==
  ASSUME TypeOK, NEW C, NEW how \in {"closed", "lost", "silent"}, Drop(C, how),
         UNCHANGED masterVars, opErr' \in [Conns -> Nat],
         wup' \in [Workers -> BOOLEAN], faults' \in Nat
  PROVE  TypeOK'
<1>1. link' \in [Conns -> {"none", "up", "closed", "lost", "silent"}]
  <2> DEFINE L == {"none", "up", "closed", "lost", "silent"}
  <2>1. how \in L /\ link \in [Conns -> L]
    BY DEF TypeOK
  <2> HIDE DEF L
  <2>2. [c \in Conns |-> IF c \in C THEN how ELSE link[c]] \in [Conns -> L]
    BY <2>1
  <2> QED BY <2>2 DEF Drop, L
<1>2. toWorker' \in [Conns -> Seq(Requests)]
  BY DEF TypeOK, Drop
<1>3. toMaster' \in [Conns -> Seq(Responses)]
  <2>1. toMaster \in [Conns -> Seq(Responses)]
    BY DEF TypeOK
  <2>2. [c \in Conns |-> IF c \in C THEN <<>> ELSE toMaster[c]] \in [Conns -> Seq(Responses)]
    BY <2>1
  <2> QED BY <2>1, <2>2 DEF Drop
<1>4. wkv' \in [Conns -> [Layers -> Entries]]
  BY EmptyType DEF TypeOK, Drop
<1> QED BY <1>1, <1>2, <1>3, <1>4 DEF TypeOK, masterVars, dialogVars

(* Needed with TypeOK: a master waits on a connection, not on Local.       *)
Waiting == \A m \in Masters : pc[m] = "await" => Awaited(m) \in Conns

LEMMA WaitingStep == TypeOK /\ Waiting /\ [Next]_vars => Waiting'
<1> SUFFICES ASSUME TypeOK, Waiting, [Next]_vars,
                    NEW k \in Masters, pc'[k] = "await"
             PROVE  Awaited(k)' \in Conns
  BY DEF Waiting
<1>1. ASSUME NEW m \in Masters, SendBatch(m) PROVE Awaited(k)' \in Conns
  <2>1. CASE k = m
    <3>1. PICK last \in block[m]..NumLayers - 1 :
            /\ pc[m] = "blocks" /\ block[m] < NumLayers
            /\ Owner[block[m]] # Local
            /\ \A l \in block[m]..last : Owner[l] = Owner[block[m]]
            /\ block' = [block EXCEPT ![m] = last + 1]
      BY <1>1 DEF SendBatch, AtBlock, IsBatch
    <3>2. block[m] \in Layers /\ last \in block[m]..last
      BY <3>1, NumLayersAssumption, SMTT(30) DEF TypeOK, Layers
    <3>3. block'[m] - 1 = last
      BY <3>1, <3>2, NumLayersAssumption DEF TypeOK, Layers
    <3>4. Owner[last] \in Workers
      BY <3>1, <3>2, SessionAssumption
    <3> QED BY <2>1, <3>3, <3>4 DEF Awaited, Conns
  <2>2. CASE k # m
    <3>1. pc'[k] = pc[k] /\ block'[k] = block[k]
      BY <1>1, <2>2 DEF SendBatch, TypeOK
    <3> QED BY <3>1 DEF Awaited, Waiting
  <2> QED BY <2>1, <2>2
<1>2. ASSUME pc'[k] = pc[k], block'[k] = block[k] PROVE Awaited(k)' \in Conns
  BY <1>2 DEF Awaited, Waiting
<1>3. ASSUME NEW m \in Masters,
             \/ Load(m) \/ Stop(m) \/ (\E n \in PromptLens : StartChat(m, n))
             \/ LocalBlock(m) \/ LocalBlockFails(m) \/ SendFails(m)
             \/ Receive(m) \/ ReceiveFails(m) \/ Sample(m)
      PROVE  Awaited(k)' \in Conns
  <2>1. pc'[k] = pc[k] /\ block'[k] = block[k]
    BY <1>3 DEF TypeOK, Load, Stop, StartChat, LocalBlock, LocalBlockFails, SendFails,
                Receive, ReceiveFails, Sample, FailChat, AtBlock, dialogVars
  <2> QED BY <1>2, <2>1
<1>4. ASSUME UNCHANGED masterVars PROVE Awaited(k)' \in Conns
  BY <1>2, <1>4 DEF masterVars
<1>5. CASE UNCHANGED vars
  BY <1>4, <1>5 DEF vars
<1> QED BY <1>1, <1>3, <1>4, <1>5
        DEF Next, MasterStep, WorkerStep, Serve, ServeFails, Crash, Restart, Cut

LEMMA TypeStep == TypeOK /\ Waiting /\ [Next]_vars => TypeOK'
<1> SUFFICES ASSUME TypeOK, Waiting, [Next]_vars
             PROVE  TypeOK'
  OBVIOUS
<1> USE DEF dialogVars, envVars
<1>1. ASSUME NEW m \in Masters, Load(m) PROVE TypeOK'
  BY <1>1, EmptyType DEF TypeOK, Load, Conns
<1>2. ASSUME NEW m \in Masters, Stop(m) PROVE TypeOK'
  <2>1. /\ pc' \in [Masters -> {"down", "idle", "blocks", "await"}]
        /\ link' \in [Conns -> {"none", "up", "closed", "lost", "silent"}]
        /\ toWorker' \in [Conns -> Seq(Requests)]
        /\ toMaster' \in [Conns -> Seq(Responses)]
    BY <1>2 DEF TypeOK, Stop
  <2>2. wkv' \in [Conns -> [Layers -> Entries]]
    BY <1>2, EmptyType DEF TypeOK, Stop
  <2> QED BY <1>2, <2>1, <2>2 DEF TypeOK, Stop
<1>3. ASSUME NEW m \in Masters, NEW n \in PromptLens, StartChat(m, n) PROVE TypeOK'
  <2>1. n \in Nat /\ chat[m] + 1 \in Nat
    BY SessionAssumption DEF TypeOK
  <2>2. [cells |-> Span(m, chat[m] + 1, 0, n), trace |-> <<>>] \in Responses
    <3>1. Span(m, chat[m] + 1, 0, n) \in Seq(Cells)
      BY <2>1, SpanType
    <3>2. <<>> \in Traces
      BY DEF Traces
    <3> QED BY <3>1, <3>2 DEF Responses
  <2>3. 0 \in 0..NumLayers
    BY NumLayersAssumption
  <2> QED BY <1>3, <2>1, <2>2, <2>3, EmptyType DEF TypeOK, StartChat, linkVars
<1>4. ASSUME NEW m \in Masters, LocalBlock(m) PROVE TypeOK'
  <2> DEFINE l == block[m]
             ctx == ProcessKv(lkv[m][l], index_pos[m], Rotated(x[m].cells, index_pos[m]))
  <2>1. l \in Layers /\ l + 1 \in 0..NumLayers
    BY <1>4, NumLayersAssumption DEF TypeOK, LocalBlock, AtBlock, Layers
  <2>2. x[m] \in Responses /\ x[m].cells \in Seq(Cells) /\ x[m].trace \in Traces
    BY DEF TypeOK, Responses
  <2>3. ctx \in Entries
    BY <2>1, <2>2, RotatedType, ProcessKvType DEF TypeOK
  <2> HIDE DEF ctx
  <2>4. Append(x[m].trace, Computed(l, ctx)) \in Traces
    BY <2>1, <2>2, <2>3 DEF Traces, Computed
  <2>5. /\ lkv' = [lkv EXCEPT ![m] = [@ EXCEPT ![l] = ctx]]
        /\ x' = [x EXCEPT ![m] = [cells |-> x[m].cells,
                                  trace |-> Append(x[m].trace, Computed(l, ctx))]]
        /\ block' = [block EXCEPT ![m] = l + 1]
        /\ UNCHANGED <<pc, dialogVars, index_pos, sampled, outcome, loads, linkVars, envVars>>
    BY <1>4 DEF LocalBlock, ctx
  <2>6. /\ lkv' \in [Masters -> [Layers -> Entries]]
        /\ x' \in [Masters -> Responses]
        /\ block' \in [Masters -> 0..NumLayers]
    BY <2>1, <2>2, <2>3, <2>4, <2>5 DEF TypeOK, Responses
  <2> QED BY <2>5, <2>6 DEF TypeOK, linkVars
<1>5. ASSUME NEW m \in Masters, LocalBlockFails(m) PROVE TypeOK'
  <2>1. faults' \in Nat
    BY <1>5 DEF TypeOK, LocalBlockFails, Fault
  <2> QED BY <1>5, <2>1, FailChatType DEF LocalBlockFails
<1>6. ASSUME NEW m \in Masters, SendBatch(m) PROVE TypeOK'
  <2>1. PICK last \in block[m]..NumLayers - 1 :
          LET c == <<m, Owner[block[m]]>>
              request == [index_pos |-> index_pos[m], first |-> block[m], last |-> last,
                          cells |-> x[m].cells, trace |-> x[m].trace]
          IN  /\ pc[m] = "blocks" /\ block[m] < NumLayers
              /\ pc' = [pc EXCEPT ![m] = "await"]
              /\ block' = [block EXCEPT ![m] = last + 1]
              /\ IF link[c] = "up"
                 THEN toWorker' = [toWorker EXCEPT ![c] = Append(@, request)]
                 ELSE UNCHANGED toWorker
              /\ UNCHANGED <<dialogVars, index_pos, x, sampled, outcome, lkv, loads>>
              /\ UNCHANGED <<link, toMaster, wkv, opErr, envVars>>
    BY <1>6 DEF SendBatch, AtBlock
  <2>2. block[m] \in Layers /\ last \in Layers /\ last + 1 \in 0..NumLayers
    <3>1. block[m] \in Nat /\ block[m] < NumLayers
      BY <2>1, NumLayersAssumption DEF TypeOK
    <3>2. last \in Nat /\ last < NumLayers
      BY <3>1, NumLayersAssumption
    <3> QED BY <3>1, <3>2, NumLayersAssumption DEF Layers
  <2>3. [index_pos |-> index_pos[m], first |-> block[m], last |-> last,
         cells |-> x[m].cells, trace |-> x[m].trace] \in Requests
    BY <2>2 DEF TypeOK, Requests, Responses
  <2>4. toWorker' \in [Conns -> Seq(Requests)]
    <3> DEFINE c == <<m, Owner[block[m]]>>
               request == [index_pos |-> index_pos[m], first |-> block[m], last |-> last,
                           cells |-> x[m].cells, trace |-> x[m].trace]
    <3>1. \/ toWorker' = [toWorker EXCEPT ![c] = Append(@, request)]
          \/ toWorker' = toWorker
      BY <2>1
    <3>2. toWorker \in [Conns -> Seq(Requests)] /\ request \in Requests
      BY <2>3 DEF TypeOK
    <3> HIDE DEF c, request
    <3> QED BY <3>1, <3>2
  <2> QED BY <2>1, <2>2, <2>4 DEF TypeOK
<1>7. ASSUME NEW m \in Masters, SendFails(m) PROVE TypeOK'
  BY <1>7, FailChatType DEF SendFails, TypeOK
<1>8. ASSUME NEW m \in Masters, Receive(m) PROVE TypeOK'
  <2>1. toMaster[Awaited(m)] \in Seq(Responses)
    BY <1>8 DEF Receive, TypeOK, Waiting
  <2>2. /\ Head(toMaster[Awaited(m)]) \in Responses
        /\ Tail(toMaster[Awaited(m)]) \in Seq(Responses)
    BY <1>8, <2>1 DEF Receive
  <2> QED BY <1>8, <2>2 DEF Receive, TypeOK
<1>9. ASSUME NEW m \in Masters, ReceiveFails(m) PROVE TypeOK'
  BY <1>9, FailChatType DEF ReceiveFails, TypeOK
<1>10. ASSUME NEW m \in Masters, Sample(m) PROVE TypeOK'
  <2>1. /\ x[m].cells \in Seq(Cells)
        /\ x[m].trace \in Traces
        /\ sampled[m] \in Seq(Traces)
    BY DEF TypeOK, Responses
  <2>2. /\ index_pos[m] + Len(x[m].cells) \in Nat
        /\ prompt[m] + Len(sampled[m]) \in Nat
    BY <2>1 DEF TypeOK
  <2>3. NewestToken(m) \in Responses
    <3>1. Span(m, chat[m], prompt[m] + Len(sampled[m]), 1) \in Seq(Cells)
      BY <2>2, SpanType DEF TypeOK
    <3>2. <<>> \in Traces
      BY DEF Traces
    <3> QED BY <3>1, <3>2 DEF Responses, NewestToken
  <2>4. Append(sampled[m], x[m].trace) \in Seq(Traces)
    BY <2>1
  <2>5. /\ sampled' \in [Masters -> Seq(Traces)]
        /\ index_pos' \in [Masters -> Nat]
        /\ pc' \in [Masters -> {"down", "idle", "blocks", "await"}]
        /\ outcome' \in [Masters -> {"none", "ok", "failed"}]
        /\ block' \in [Masters -> 0..NumLayers]
        /\ x' \in [Masters -> Responses]
    <3>1. /\ sampled' \in [Masters -> Seq(Traces)]
          /\ index_pos' \in [Masters -> Nat]
      BY <1>10, <2>2, <2>4 DEF Sample, TypeOK
    <3>2. /\ pc' \in [Masters -> {"down", "idle", "blocks", "await"}]
          /\ outcome' \in [Masters -> {"none", "ok", "failed"}]
      BY <1>10 DEF Sample, TypeOK
    <3>3. block' \in [Masters -> 0..NumLayers]
      <4>1. block' = block \/ block' = [block EXCEPT ![m] = 0]
        BY <1>10 DEF Sample
      <4>2. 0 \in 0..NumLayers /\ block \in [Masters -> 0..NumLayers]
        BY NumLayersAssumption DEF TypeOK
      <4> QED BY <4>1, <4>2
    <3>4. x' \in [Masters -> Responses]
      <4>1. x' = x \/ x' = [x EXCEPT ![m] = NewestToken(m)]
        BY <1>10 DEF Sample
      <4> QED BY <2>3, <4>1 DEF TypeOK
    <3> QED BY <3>1, <3>2, <3>3, <3>4
  <2> QED BY <1>10, <2>5 DEF Sample, TypeOK, linkVars
<1>11. ASSUME NEW c \in Conns, Serve(c) PROVE TypeOK'
  <2> DEFINE r == Head(toWorker[c])
             kv == ServedKv(wkv[c], r)
  <2>1. r \in Requests /\ Tail(toWorker[c]) \in Seq(Requests)
    BY <1>11 DEF Serve, Serving, TypeOK
  <2>2. kv \in [Layers -> Entries] /\ Outputs(kv, r) \in Traces
    BY <2>1, OutputsType DEF TypeOK
  <2>3. [cells |-> r.cells, trace |-> r.trace \o Outputs(kv, r)] \in Responses
    <3>1. r.cells \in Seq(Cells) /\ r.trace \in Traces
      BY <2>1 DEF Requests
    <3>2. r.trace \o Outputs(kv, r) \in Traces
      BY <2>2, <3>1 DEF Traces
    <3> QED BY <3>1, <3>2 DEF Responses
  <2>4. /\ wkv' = [wkv EXCEPT ![c] = kv]
        /\ toWorker' = [toWorker EXCEPT ![c] = Tail(@)]
        /\ toMaster' = [toMaster EXCEPT ![c] =
             Append(@, [cells |-> r.cells, trace |-> r.trace \o Outputs(kv, r)])]
        /\ UNCHANGED <<masterVars, link, opErr, envVars>>
    BY <1>11 DEF Serve
  <2> HIDE DEF r, kv
  <2>5. /\ wkv' \in [Conns -> [Layers -> Entries]]
        /\ toWorker' \in [Conns -> Seq(Requests)]
        /\ toMaster' \in [Conns -> Seq(Responses)]
    BY <2>1, <2>2, <2>3, <2>4 DEF TypeOK
  <2> QED BY <2>4, <2>5 DEF TypeOK, masterVars
<1>12. ASSUME NEW c \in Conns, ServeFails(c) PROVE TypeOK'
  <2>1. /\ opErr' \in [Conns -> Nat]
        /\ faults' \in Nat
        /\ wup' \in [Workers -> BOOLEAN]
    BY <1>12 DEF ServeFails, Fault, TypeOK, Conns
  <2> QED BY <1>12, <2>1, DropType DEF ServeFails
<1>13. ASSUME NEW w \in Workers, Crash(w) PROVE TypeOK'
  <2>1. /\ opErr' \in [Conns -> Nat]
        /\ faults' \in Nat
        /\ wup' \in [Workers -> BOOLEAN]
    BY <1>13 DEF Crash, Fault, TypeOK
  <2> QED BY <1>13, <2>1, DropType DEF Crash
<1>14. ASSUME NEW w \in Workers, Restart(w) PROVE TypeOK'
  BY <1>14 DEF Restart, TypeOK, masterVars, linkVars
<1>15. ASSUME NEW c \in Conns, NEW how \in {"lost", "silent"}, Cut(c, how) PROVE TypeOK'
  <2>1. /\ opErr' \in [Conns -> Nat]
        /\ faults' \in Nat
        /\ wup' \in [Workers -> BOOLEAN]
    BY <1>15 DEF Cut, Fault, TypeOK
  <2> QED BY <1>15, <2>1, DropType DEF Cut
<1>16. CASE UNCHANGED vars
  BY <1>16 DEF vars, masterVars, linkVars, TypeOK
<1> QED BY <1>1, <1>2, <1>3, <1>4, <1>5, <1>6, <1>7, <1>8, <1>9, <1>10, <1>11, <1>12,
           <1>13, <1>14, <1>15, <1>16 DEF Next, MasterStep, WorkerStep

(* Every variable keeps its type: for every assignment of layers and every *)
(* interleaving of masters, worker tasks and failures.                     *)
THEOREM TypeCorrect == Spec => []TypeOK
<1>1. Init => Waiting
  BY DEF Init, Waiting
<1> QED BY <1>1, TypeInit, TypeStep, WaitingStep, PTL DEF Spec

-----------------------------------------------------------------------------
(* TokensExact alone is not inductive: the next token depends on the       *)
(* hidden state the master holds or waits for, on the frame in flight and  *)
(* on the cache entries of every machine.  The inductive invariant says of *)
(* each master that all of these agree with its dialog, and is preserved   *)
(* by each action because the others are.                                  *)

MasterInv(m) ==
  /\ ForwardOf(m)
  /\ CacheOf(m)
  /\ \A w \in Workers : FlightOf(m, w)
  /\ WaitOf(m)
  /\ TokensOf(m)

Inv == TypeOK /\ Waiting /\ \A m \in Masters : MasterInv(m)

-----------------------------------------------------------------------------
(* A master nothing happens to.                                            *)
SameMaster(k) ==
  /\ pc'[k] = pc[k]
  /\ chat'[k] = chat[k]
  /\ prompt'[k] = prompt[k]
  /\ index_pos'[k] = index_pos[k]
  /\ block'[k] = block[k]
  /\ x'[k] = x[k]
  /\ sampled'[k] = sampled[k]
  /\ lkv'[k] = lkv[k]

SameConn(c) ==
  /\ link'[c] = link[c]
  /\ toWorker'[c] = toWorker[c]
  /\ toMaster'[c] = toMaster[c]
  /\ wkv'[c] = wkv[c]

LEMMA Unaffected ==
  ASSUME NEW k \in Masters, TypeOK, Waiting, MasterInv(k), SameMaster(k),
         \A w \in Workers : SameConn(<<k, w>>)
  PROVE  MasterInv(k)'
<1>1. ForwardOf(k)'
  BY DEF MasterInv, ForwardOf, Busy, Positions, Done, SameMaster
<1>2. CacheOf(k)'
  <2>1. CacheOf(k)
    BY DEF MasterInv
  <2> SUFFICES ASSUME Busy(k)', NEW l \in Layers
               PROVE  IF Owner[l] = Local
                      THEN EntryExact(k, lkv[k][l], l < Done(k))'
                      ELSE link'[<<k, Owner[l]>>] = "up" =>
                             EntryExact(k, wkv[<<k, Owner[l]>>][l],
                                l < Done(k) \/ (l < block[k] /\ toMaster[<<k, Owner[l]>>] # <<>>))'
    BY DEF CacheOf
  <2>2. Busy(k)
    BY DEF Busy, SameMaster
  <2>3. CASE Owner[l] = Local
    BY <2>1, <2>2, <2>3 DEF CacheOf, EntryExact, Positions, Done, SameMaster
  <2>4. CASE Owner[l] # Local
    <3>1. Owner[l] \in Workers
      BY <2>4, SessionAssumption
    <3> QED BY <2>1, <2>2, <2>4, <3>1
            DEF CacheOf, EntryExact, Positions, Done, SameMaster, SameConn
  <2> QED BY <2>3, <2>4
<1>3. ASSUME NEW w \in Workers PROVE FlightOf(k, w)'
  BY DEF MasterInv, FlightOf, Positions, Done, SameMaster, SameConn
<1>4. WaitOf(k)'
  <2> SUFFICES ASSUME pc'[k] = "await", link'[Awaited(k)'] = "up"
               PROVE  toWorker'[Awaited(k)'] # <<>> \/ toMaster'[Awaited(k)'] # <<>>
    BY DEF WaitOf
  <2>1. Awaited(k)' = Awaited(k) /\ pc[k] = "await"
    BY DEF Awaited, SameMaster
  <2>2. PICK w \in Workers : Awaited(k) = <<k, w>>
    BY <2>1 DEF Waiting, Conns, Awaited
  <2> QED BY <2>1, <2>2 DEF MasterInv, WaitOf, SameConn
<1>5. TokensOf(k)'
  BY DEF MasterInv, TokensOf, SameMaster
<1> QED BY <1>1, <1>2, <1>3, <1>4, <1>5 DEF MasterInv

(* A master between chats, with nothing in flight.                         *)
LEMMA Quiet ==
  ASSUME NEW k \in Masters, pc'[k] \notin {"blocks", "await"}, TokensOf(k)',
         \A w \in Workers : toWorker'[<<k, w>>] = <<>> /\ toMaster'[<<k, w>>] = <<>>
  PROVE  MasterInv(k)'
BY DEF MasterInv, ForwardOf, CacheOf, FlightOf, WaitOf, Busy

LEMMA QuietFails ==
  ASSUME NEW k \in Masters, TypeOK, MasterInv(k), FailChat(k),
         \A w \in Workers : toWorker[<<k, w>>] = <<>> /\ toMaster[<<k, w>>] = <<>>
  PROVE  MasterInv(k)'
<1>1. pc'[k] \notin {"blocks", "await"}
  BY DEF FailChat, TypeOK
<1>2. TokensOf(k)'
  BY DEF FailChat, dialogVars, MasterInv, TokensOf
<1>3. \A w \in Workers : toWorker'[<<k, w>>] = <<>> /\ toMaster'[<<k, w>>] = <<>>
  BY DEF FailChat, linkVars
<1> QED BY <1>1, <1>2, <1>3, Quiet

(* Unless a master waits, nothing is in flight on its connections.         *)
LEMMA NothingInFlight ==
  ASSUME NEW k \in Masters, MasterInv(k), pc[k] # "await"
  PROVE  \A w \in Workers : toWorker[<<k, w>>] = <<>> /\ toMaster[<<k, w>>] = <<>>
BY DEF MasterInv, FlightOf

(* A connection whose worker end goes away takes nothing from its master   *)
(* but a request, and leaves it no response it does not wait for.          *)
LEMMA DropExact ==
  ASSUME NEW k \in Masters, TypeOK, Waiting, MasterInv(k), NEW C,
         NEW how \in {"closed", "lost", "silent"}, Drop(C, how), UNCHANGED masterVars
  PROVE  MasterInv(k)'
<1>0. SameMaster(k)
  BY DEF masterVars, dialogVars, SameMaster
<1>1. ForwardOf(k)'
  BY <1>0 DEF MasterInv, ForwardOf, Busy, Positions, Done, SameMaster
<1>2. \A w \in Workers :
        /\ link'[<<k, w>>] = IF <<k, w>> \in C THEN how ELSE link[<<k, w>>]
        /\ toWorker'[<<k, w>>] = IF <<k, w>> \in C THEN <<>> ELSE toWorker[<<k, w>>]
        /\ <<k, w>> \notin C => toMaster'[<<k, w>>] = toMaster[<<k, w>>]
        /\ toMaster'[<<k, w>>] \in {<<>>, toMaster[<<k, w>>]}
        /\ <<k, w>> \notin C => wkv'[<<k, w>>] = wkv[<<k, w>>]
  <2> SUFFICES ASSUME NEW w \in Workers
               PROVE  /\ link'[<<k, w>>] = IF <<k, w>> \in C THEN how ELSE link[<<k, w>>]
                      /\ toWorker'[<<k, w>>] = IF <<k, w>> \in C THEN <<>> ELSE toWorker[<<k, w>>]
                      /\ <<k, w>> \notin C => toMaster'[<<k, w>>] = toMaster[<<k, w>>]
                      /\ toMaster'[<<k, w>>] \in {<<>>, toMaster[<<k, w>>]}
                      /\ <<k, w>> \notin C => wkv'[<<k, w>>] = wkv[<<k, w>>]
    OBVIOUS
  <2> DEFINE c == <<k, w>>
  <2>1. c \in Conns
    BY DEF Conns
  <2> HIDE DEF c
  <2>2. /\ link'[c] = IF c \in C THEN how ELSE link[c]
        /\ toWorker'[c] = IF c \in C THEN <<>> ELSE toWorker[c]
        /\ wkv'[c] = IF c \in C THEN Empty ELSE wkv[c]
        /\ toMaster'[c] = toMaster[c] \/ toMaster'[c] = IF c \in C THEN <<>> ELSE toMaster[c]
    BY <2>1 DEF Drop
  <2> QED BY <2>2 DEF c
<1>3. CacheOf(k)'
  <2> SUFFICES ASSUME Busy(k)', NEW l \in Layers
               PROVE  IF Owner[l] = Local
                      THEN EntryExact(k, lkv[k][l], l < Done(k))'
                      ELSE link'[<<k, Owner[l]>>] = "up" =>
                             EntryExact(k, wkv[<<k, Owner[l]>>][l],
                                l < Done(k) \/ (l < block[k] /\ toMaster[<<k, Owner[l]>>] # <<>>))'
    BY DEF CacheOf
  <2>1. Busy(k) /\ CacheOf(k)
    BY <1>0 DEF Busy, SameMaster, MasterInv
  <2>2. CASE Owner[l] = Local
    BY <1>0, <2>1, <2>2 DEF CacheOf, EntryExact, Positions, Done, SameMaster
  <2>3. CASE Owner[l] # Local
    <3>1. Owner[l] \in Workers
      BY <2>3, SessionAssumption
    <3>2. ASSUME link'[<<k, Owner[l]>>] = "up"
          PROVE  <<k, Owner[l]>> \notin C
      BY <1>2, <3>1, <3>2
    <3> QED BY <1>0, <1>2, <2>1, <2>3, <3>1, <3>2
            DEF CacheOf, EntryExact, Positions, Done, SameMaster
  <2> QED BY <2>2, <2>3
<1>4. ASSUME NEW w \in Workers PROVE FlightOf(k, w)'
  <2>1. FlightOf(k, w)
    BY DEF MasterInv
  <2>2. ASSUME toWorker'[<<k, w>>] # <<>>
        PROVE  /\ <<k, w>> \notin C
               /\ toWorker'[<<k, w>>] = toWorker[<<k, w>>]
               /\ toMaster'[<<k, w>>] = toMaster[<<k, w>>]
               /\ link'[<<k, w>>] = link[<<k, w>>]
    BY <1>2, <2>2
  <2>3. ASSUME toMaster'[<<k, w>>] # <<>>
        PROVE  toMaster'[<<k, w>>] = toMaster[<<k, w>>]
    BY <1>2, <2>3
  <2> QED BY <1>0, <2>1, <2>2, <2>3 DEF FlightOf, Positions, Done, SameMaster
<1>5. WaitOf(k)'
  <2> SUFFICES ASSUME pc'[k] = "await", link'[Awaited(k)'] = "up"
               PROVE  toWorker'[Awaited(k)'] # <<>> \/ toMaster'[Awaited(k)'] # <<>>
    BY DEF WaitOf
  <2>1. Awaited(k)' = Awaited(k) /\ pc[k] = "await"
    BY <1>0 DEF Awaited, SameMaster
  <2>2. PICK w \in Workers : Awaited(k) = <<k, w>>
    BY <2>1 DEF Waiting, Conns, Awaited
  <2>3. <<k, w>> \notin C
    BY <1>2, <2>1, <2>2
  <2> QED BY <1>2, <2>1, <2>2, <2>3 DEF MasterInv, WaitOf
<1>6. TokensOf(k)'
  BY <1>0 DEF MasterInv, TokensOf, SameMaster
<1> QED BY <1>1, <1>3, <1>4, <1>5, <1>6 DEF MasterInv

-----------------------------------------------------------------------------
(* The actions of a master.                                                *)

LEMMA TraceZero ==
  ASSUME NEW m \in Masters, NEW c \in Nat, NEW n \in Nat
  PROVE  Trace(m, c, n, 0) = <<>>
<1>1. Trace(m, c, n, 0) \in Traces /\ Len(Trace(m, c, n, 0)) = 0
  BY TraceType, NumLayersAssumption
<1> QED BY <1>1 DEF Traces

LEMMA StartChatExact ==
  ASSUME NEW m \in Masters, TypeOK, MasterInv(m), NEW n \in PromptLens, StartChat(m, n)
  PROVE  MasterInv(m)'
<1> DEFINE c == chat[m] + 1
<1>0. n \in Nat /\ n >= 1 /\ c \in Nat
  BY SessionAssumption DEF TypeOK
<1>1. /\ pc'[m] = "blocks"
      /\ chat'[m] = c
      /\ prompt'[m] = n
      /\ index_pos'[m] = 0
      /\ block'[m] = 0
      /\ x'[m] = [cells |-> Span(m, c, 0, n), trace |-> <<>>]
      /\ sampled'[m] = <<>>
      /\ \A w \in Workers : toWorker'[<<m, w>>] = <<>> /\ toMaster'[<<m, w>>] = <<>>
  BY NothingInFlight DEF StartChat, TypeOK, linkVars
<1> HIDE DEF c
<1>2. Len(Span(m, c, 0, n)) = n
  BY <1>0, SpanType
<1>3. Positions(m)' = n /\ Done(m)' = 0
  BY <1>0, <1>1, <1>2 DEF Positions, Done
<1>4. ForwardOf(m)'
  BY <1>0, <1>1, <1>2, <1>3, TraceZero, SessionAssumption DEF ForwardOf, Busy
<1>5. CacheOf(m)'
  <2> SUFFICES ASSUME NEW l \in Layers
               PROVE  /\ ~(l < Done(m)')
                      /\ ~(l < block'[m])
    BY <1>1 DEF CacheOf, EntryExact
  <2> QED BY <1>1, <1>3, NumLayersAssumption DEF Layers
<1> QED BY <1>1, <1>4, <1>5 DEF MasterInv, FlightOf, WaitOf, TokensOf

LEMMA LocalBlockExact ==
  ASSUME NEW m \in Masters, TypeOK, MasterInv(m), LocalBlock(m)
  PROVE  MasterInv(m)'
<1> DEFINE l == block[m]
           n == Len(x[m].cells)
           ctx == ProcessKv(lkv[m][l], index_pos[m], Rotated(x[m].cells, index_pos[m]))
           whole == Context(m, chat[m], Positions(m))
<1>1. /\ pc[m] = "blocks" /\ l \in Layers /\ l \in Nat /\ Owner[l] = Local
      /\ chat[m] \in Nat /\ index_pos[m] \in Nat /\ n \in Nat
      /\ lkv[m][l] \in Entries
      /\ index_pos[m] + n <= MaxSeq
      /\ Positions(m) = index_pos[m] + n
      /\ Positions(m) \in Nat
  BY NumLayersAssumption, SMTT(30) DEF LocalBlock, AtBlock, TypeOK, Responses, Layers, Positions, RotaryInRange
<1>2. /\ ForwardOf(m) /\ CacheOf(m) /\ Busy(m)
      /\ \A w \in Workers : toWorker[<<m, w>>] = <<>> /\ toMaster[<<m, w>>] = <<>>
  BY <1>1, NothingInFlight DEF MasterInv, Busy
<1>3. /\ x[m].cells = Span(m, chat[m], index_pos[m], n)
      /\ x[m].trace = Trace(m, chat[m], Positions(m), l)
      /\ Done(m) = l
  BY <1>1, <1>2 DEF ForwardOf
<1>4. ctx = whole
  <2>1. index_pos[m] = 0 \/ lkv[m][l] = Context(m, chat[m], index_pos[m])
    <3>1. ~(l < Done(m))
      BY <1>1, <1>3
    <3>2. EntryExact(m, lkv[m][l], l < Done(m))
      BY <1>1, <1>2 DEF CacheOf
    <3> QED BY <3>1, <3>2 DEF EntryExact
  <2> QED BY <1>1, <1>3, <2>1, ProcessKvExact
<1>5. /\ pc'[m] = "blocks" /\ chat'[m] = chat[m] /\ prompt'[m] = prompt[m]
      /\ index_pos'[m] = index_pos[m] /\ block'[m] = l + 1 /\ sampled'[m] = sampled[m]
      /\ lkv'[m] = [lkv[m] EXCEPT ![l] = ctx]
      /\ x'[m] = [cells |-> x[m].cells, trace |-> Append(x[m].trace, Computed(l, ctx))]
      /\ UNCHANGED linkVars
  BY <1>1 DEF LocalBlock, TypeOK, dialogVars
<1> HIDE DEF ctx
<1>6. x'[m].cells = x[m].cells /\ x'[m].trace = Trace(m, chat[m], Positions(m), l + 1)
  <2>1. Append(Trace(m, chat[m], Positions(m), l), Computed(l, whole))
          = Trace(m, chat[m], Positions(m), l + 1)
    BY <1>1, TraceAppend
  <2>2. x'[m].trace = Append(x[m].trace, Computed(l, ctx)) /\ x'[m].cells = x[m].cells
    BY <1>5
  <2> HIDE DEF whole
  <2> QED BY <1>3, <1>4, <2>1, <2>2
<1>7. Positions(m)' = Positions(m) /\ Done(m)' = l + 1
  <2>1. l + 1 \in 0..NumLayers
    BY <1>1, NumLayersAssumption DEF Layers
  <2> QED BY <1>1, <1>5, <1>6, <2>1, TraceType DEF Positions, Done
<1>8. ForwardOf(m)'
  BY <1>1, <1>2, <1>5, <1>6, <1>7 DEF ForwardOf, Busy
<1>9. CacheOf(m)'
  <2> SUFFICES ASSUME NEW k \in Layers
               PROVE  IF Owner[k] = Local
                      THEN EntryExact(m, lkv[m][k], k < Done(m))'
                      ELSE link'[<<m, Owner[k]>>] = "up" =>
                             EntryExact(m, wkv[<<m, Owner[k]>>][k],
                                k < Done(m) \/ (k < block[m] /\ toMaster[<<m, Owner[k]>>] # <<>>))'
    BY DEF CacheOf
  <2>0. k \in Nat
    BY NumLayersAssumption DEF Layers
  <2>1. CASE k = l
    <3>1. lkv'[m][l] = ctx
      BY <1>1, <1>5 DEF TypeOK
    <3> QED BY <1>1, <1>4, <1>5, <1>7, <2>1, <3>1 DEF EntryExact
  <2>2. CASE k # l /\ Owner[k] = Local
    <3>1. lkv'[m][k] = lkv[m][k]
      BY <1>1, <1>5, <2>2 DEF TypeOK
    <3>2. (k < Done(m)') = (k < Done(m))
      BY <1>1, <1>3, <1>7, <2>0, <2>2
    <3> QED BY <1>2, <1>5, <1>7, <2>2, <3>1, <3>2 DEF CacheOf, EntryExact
  <2>3. CASE Owner[k] # Local
    <3>1. Owner[k] \in Workers
      BY <2>3, SessionAssumption
    <3>2. /\ toMaster[<<m, Owner[k]>>] = <<>>
          /\ (k < Done(m)') = (k < Done(m))
      BY <1>1, <1>2, <1>3, <1>7, <2>0, <2>3, <3>1
    <3> QED BY <1>2, <1>5, <1>7, <2>3, <3>2 DEF CacheOf, EntryExact, linkVars
  <2> QED BY <2>1, <2>2, <2>3
<1>10. \A w \in Workers : toWorker'[<<m, w>>] = <<>> /\ toMaster'[<<m, w>>] = <<>>
  BY <1>2, <1>5 DEF linkVars
<1> QED BY <1>5, <1>8, <1>9, <1>10, SMTT(30) DEF MasterInv, FlightOf, WaitOf, TokensOf

LEMMA SendBatchExact ==
  ASSUME NEW m \in Masters, TypeOK, MasterInv(m), SendBatch(m)
  PROVE  MasterInv(m)'
<1>1. PICK last \in block[m]..NumLayers - 1 :
        LET c == <<m, Owner[block[m]]>>
            request == [index_pos |-> index_pos[m], first |-> block[m], last |-> last,
                        cells |-> x[m].cells, trace |-> x[m].trace]
        IN  /\ pc[m] = "blocks" /\ block[m] < NumLayers
            /\ Owner[block[m]] # Local
            /\ \A l \in block[m]..last : Owner[l] = Owner[block[m]]
            /\ pc' = [pc EXCEPT ![m] = "await"]
            /\ block' = [block EXCEPT ![m] = last + 1]
            /\ IF link[c] = "up"
               THEN toWorker' = [toWorker EXCEPT ![c] = Append(@, request)]
               ELSE UNCHANGED toWorker
            /\ UNCHANGED <<dialogVars, index_pos, x, sampled, outcome, lkv, loads>>
            /\ UNCHANGED <<link, toMaster, wkv, opErr, envVars>>
  BY DEF SendBatch, AtBlock, IsBatch
<1>2. block[m] \in Layers /\ block[m] \in Nat /\ last \in Nat /\ last \in Layers
  <2>1. block[m] \in Nat
    BY NumLayersAssumption DEF TypeOK
  <2> QED BY <1>1, <2>1, NumLayersAssumption DEF Layers
<1> DEFINE v == Owner[block[m]]
           request == [index_pos |-> index_pos[m], first |-> block[m], last |-> last,
                       cells |-> x[m].cells, trace |-> x[m].trace]
<1>3. v \in Workers /\ <<m, v>> \in Conns
  BY <1>1, <1>2, SessionAssumption DEF Conns
<1>4. /\ ForwardOf(m) /\ CacheOf(m) /\ Busy(m)
      /\ Done(m) = block[m]
      /\ \A w \in Workers : toWorker[<<m, w>>] = <<>> /\ toMaster[<<m, w>>] = <<>>
  BY <1>1, NothingInFlight DEF MasterInv, Busy, ForwardOf
<1>5. /\ pc'[m] = "await" /\ chat'[m] = chat[m] /\ prompt'[m] = prompt[m]
      /\ index_pos'[m] = index_pos[m] /\ block'[m] = last + 1 /\ sampled'[m] = sampled[m]
      /\ lkv'[m] = lkv[m] /\ x'[m] = x[m]
      /\ UNCHANGED <<link, toMaster, wkv>>
      /\ Positions(m)' = Positions(m) /\ Done(m)' = Done(m)
  BY <1>1 DEF TypeOK, dialogVars, Positions, Done
<1>6. /\ block'[m] - 1 = last
      /\ \A l \in Done(m)..block'[m] - 1 : Owner[l] = v
      /\ Owner[last] = v
  BY <1>1, <1>2, <1>4, <1>5
<1>7. ForwardOf(m)'
  BY <1>1, <1>2, <1>4, <1>5, <1>6 DEF ForwardOf, Busy
<1>8. CacheOf(m)'
  <2> SUFFICES ASSUME NEW l \in Layers
               PROVE  IF Owner[l] = Local
                      THEN EntryExact(m, lkv[m][l], l < Done(m))'
                      ELSE link'[<<m, Owner[l]>>] = "up" =>
                             EntryExact(m, wkv[<<m, Owner[l]>>][l],
                                l < Done(m) \/ (l < block[m] /\ toMaster[<<m, Owner[l]>>] # <<>>))'
    BY DEF CacheOf
  <2>1. CASE Owner[l] = Local
    BY <1>4, <1>5, <2>1 DEF CacheOf, EntryExact
  <2>2. CASE Owner[l] # Local
    <3>1. Owner[l] \in Workers
      BY <2>2, SessionAssumption
    <3>2. toMaster[<<m, Owner[l]>>] = <<>>
      BY <1>4, <3>1
    <3> QED BY <1>4, <1>5, <2>2, <3>2 DEF CacheOf, EntryExact
  <2> QED BY <2>1, <2>2
<1>9. ASSUME NEW w \in Workers
      PROVE  /\ toMaster'[<<m, w>>] = <<>>
             /\ w # v \/ link[<<m, w>>] # "up" => toWorker'[<<m, w>>] = <<>>
             /\ w = v /\ link[<<m, w>>] = "up" => toWorker'[<<m, w>>] = <<request>>
  <2> HIDE DEF v, request
  <2>1. toWorker' = IF link[<<m, v>>] = "up"
                    THEN [toWorker EXCEPT ![<<m, v>>] = Append(@, request)]
                    ELSE toWorker
    BY <1>1 DEF v, request
  <2>2. <<m, w>> \in Conns /\ toWorker[<<m, w>>] = <<>> /\ toMaster[<<m, w>>] = <<>>
    BY <1>4 DEF Conns
  <2>3. Append(<<>>, request) = <<request>>
    OBVIOUS
  <2>4. w # v => <<m, w>> # <<m, v>>
    OBVIOUS
  <2>5. toWorker \in [Conns -> Seq(Requests)]
    BY DEF TypeOK
  <2>6. CASE link[<<m, v>>] = "up" /\ w = v
    BY <1>3, <1>5, <2>1, <2>2, <2>3, <2>5, <2>6
  <2>7. CASE link[<<m, v>>] = "up" /\ w # v
    BY <1>3, <1>5, <2>1, <2>2, <2>4, <2>5, <2>7
  <2>8. CASE link[<<m, v>>] # "up"
    BY <1>5, <2>1, <2>2, <2>8
  <2> QED BY <2>6, <2>7, <2>8
<1>10. ASSUME NEW w \in Workers PROVE FlightOf(m, w)'
  <2>1. toMaster'[<<m, w>>] = <<>>
    BY <1>9
  <2>2. ASSUME toWorker'[<<m, w>>] # <<>>
        PROVE  w = v /\ link'[<<m, w>>] = "up" /\ toWorker'[<<m, w>>] = <<request>>
    BY <1>5, <1>9, <2>2
  <2> QED BY <1>4, <1>5, <1>6, <2>1, <2>2 DEF FlightOf
<1>11. WaitOf(m)'
  <2>1. Awaited(m)' = <<m, v>>
    BY <1>5, <1>6 DEF Awaited
  <2>2. link'[<<m, v>>] = "up" => toWorker'[<<m, v>>] = <<request>>
    BY <1>3, <1>5, <1>9
  <2> HIDE DEF request
  <2>3. <<request>> # <<>>
    OBVIOUS
  <2> QED BY <2>1, <2>2, <2>3 DEF WaitOf
<1>12. TokensOf(m)'
  BY <1>5 DEF MasterInv, TokensOf
<1> QED BY <1>7, <1>8, <1>10, <1>11, <1>12 DEF MasterInv

LEMMA ReceiveExact ==
  ASSUME NEW m \in Masters, TypeOK, Waiting, MasterInv(m), Receive(m)
  PROVE  MasterInv(m)'
<1> DEFINE n == Len(x[m].cells)
           whole == Trace(m, chat[m], Positions(m), block[m])
<1>1. PICK v \in Workers : Awaited(m) = <<m, v>> /\ Owner[block[m] - 1] = v
  BY DEF Receive, Waiting, Awaited, Conns
<1>2. /\ pc[m] = "await" /\ Busy(m)
      /\ toMaster[<<m, v>>] # <<>>
      /\ <<m, v>> \in Conns
      /\ toMaster \in [Conns -> Seq(Responses)]
      /\ chat[m] \in Nat /\ index_pos[m] \in Nat /\ n \in Nat
      /\ block[m] \in 0..NumLayers /\ block[m] \in Nat
      /\ Positions(m) \in Nat
      /\ Done(m) \in Nat
  <2>1. /\ pc[m] = "await" /\ Busy(m)
        /\ toMaster[<<m, v>>] # <<>>
        /\ <<m, v>> \in Conns
    BY <1>1 DEF Receive, Busy, Conns
  <2>2. /\ toMaster \in [Conns -> Seq(Responses)]
        /\ chat[m] \in Nat /\ index_pos[m] \in Nat /\ block[m] \in 0..NumLayers
        /\ x[m].cells \in Seq(Cells) /\ x[m].trace \in Traces
    BY DEF TypeOK, Responses
  <2>3. n \in Nat /\ Done(m) \in Nat
    BY <2>2 DEF Traces, Done
  <2> QED BY <2>1, <2>2, <2>3, NumLayersAssumption DEF Positions
<1>3. /\ ForwardOf(m) /\ CacheOf(m)
      /\ Done(m) < block[m]
      /\ \A l \in Done(m)..block[m] - 1 : Owner[l] = v
      /\ v # Local
  BY <1>1, <1>2, SessionAssumption DEF MasterInv, ForwardOf
<1>4. /\ toMaster[<<m, v>>] = << [cells |-> x[m].cells, trace |-> whole] >>
      /\ \A w \in Workers : toWorker[<<m, w>>] = <<>>
      /\ \A w \in Workers : w # v => toMaster[<<m, w>>] = <<>>
  <2>1. \A w \in Workers : FlightOf(m, w)
    BY DEF MasterInv
  <2> QED BY <1>1, <1>2, <2>1 DEF FlightOf
<1> HIDE DEF whole
<1>5. /\ pc'[m] = "blocks" /\ chat'[m] = chat[m] /\ prompt'[m] = prompt[m]
      /\ index_pos'[m] = index_pos[m] /\ block'[m] = block[m] /\ sampled'[m] = sampled[m]
      /\ lkv'[m] = lkv[m]
      /\ UNCHANGED <<link, toWorker, wkv>>
      /\ x'[m] = Head(toMaster[<<m, v>>])
      /\ toMaster' = [toMaster EXCEPT ![<<m, v>>] = Tail(@)]
  BY <1>1 DEF Receive, TypeOK, dialogVars
<1>6. x'[m] = [cells |-> x[m].cells, trace |-> whole]
  BY <1>4, <1>5
<1>7. \A w \in Workers : toWorker'[<<m, w>>] = <<>> /\ toMaster'[<<m, w>>] = <<>>
  <2> SUFFICES ASSUME NEW w \in Workers
               PROVE  toWorker'[<<m, w>>] = <<>> /\ toMaster'[<<m, w>>] = <<>>
    OBVIOUS
  <2>1. CASE w = v
    <3>1. toMaster'[<<m, v>>] = Tail(toMaster[<<m, v>>])
      BY <1>2, <1>5
    <3> QED BY <1>4, <1>5, <2>1, <3>1
  <2>2. CASE w # v
    <3>1. <<m, w>> \in Conns /\ <<m, w>> # <<m, v>>
      BY <2>2 DEF Conns
    <3> QED BY <1>2, <1>4, <1>5, <2>2, <3>1
  <2> QED BY <2>1, <2>2
<1>8. Positions(m)' = Positions(m) /\ Done(m)' = block[m]
  <2>1. Len(whole) = block[m]
    BY <1>2, TraceType DEF whole
  <2> QED BY <1>5, <1>6, <2>1 DEF Positions, Done
<1>9. ForwardOf(m)'
  BY <1>2, <1>3, <1>5, <1>6, <1>8 DEF ForwardOf, Busy, whole
<1>10. CacheOf(m)'
  <2> SUFFICES ASSUME NEW l \in Layers
               PROVE  IF Owner[l] = Local
                      THEN EntryExact(m, lkv[m][l], l < Done(m))'
                      ELSE link'[<<m, Owner[l]>>] = "up" =>
                             EntryExact(m, wkv[<<m, Owner[l]>>][l],
                                l < Done(m) \/ (l < block[m] /\ toMaster[<<m, Owner[l]>>] # <<>>))'
    BY DEF CacheOf
  <2>0. l \in Nat
    BY NumLayersAssumption DEF Layers
  <2>1. Owner[l] # v => (l < block[m]) = (l < Done(m))
    BY <1>2, <1>3, <2>0
  <2>2. CASE Owner[l] = Local
    <3>1. (l < Done(m)') = (l < Done(m))
      BY <1>3, <1>8, <2>1, <2>2
    <3> QED BY <1>2, <1>3, <1>5, <1>8, <2>2, <3>1 DEF CacheOf, EntryExact
  <2>3. CASE Owner[l] # Local
    <3>1. Owner[l] \in Workers
      BY <2>3, SessionAssumption
    <3> DEFINE before == l < Done(m) \/ (l < block[m] /\ toMaster[<<m, Owner[l]>>] # <<>>)
               after == l < Done(m)' \/ (l < block'[m] /\ toMaster'[<<m, Owner[l]>>] # <<>>)
    <3>2. after = before
      <4>1. after = (l < block[m])
        BY <1>5, <1>7, <1>8, <3>1
      <4>2. CASE Owner[l] = v
        <5>1. before = (l < Done(m) \/ l < block[m])
          BY <1>2, <4>2
        <5> QED BY <1>2, <1>3, <2>0, <4>1, <5>1
      <4>3. CASE Owner[l] # v
        <5>1. before = (l < Done(m))
          BY <1>4, <3>1, <4>3
        <5> QED BY <2>1, <4>1, <4>3, <5>1
      <4> QED BY <4>2, <4>3
    <3>3. link[<<m, Owner[l]>>] = "up" => EntryExact(m, wkv[<<m, Owner[l]>>][l], before)
      BY <1>2, <1>3, <2>3 DEF CacheOf
    <3> QED BY <1>5, <1>8, <2>3, <3>2, <3>3 DEF EntryExact
  <2> QED BY <2>2, <2>3
<1> QED BY <1>5, <1>7, <1>9, <1>10 DEF MasterInv, FlightOf, WaitOf, TokensOf

LEMMA ReceiveFailsExact ==
  ASSUME NEW m \in Masters, TypeOK, Waiting, MasterInv(m), ReceiveFails(m)
  PROVE  MasterInv(m)'
<1>1. PICK v \in Workers : Awaited(m) = <<m, v>> /\ Owner[block[m] - 1] = v
  BY DEF ReceiveFails, Waiting, Awaited, Conns
<1>2. \A w \in Workers : FlightOf(m, w)
  BY DEF MasterInv
<1>3. \A w \in Workers : toWorker[<<m, w>>] = <<>> /\ toMaster[<<m, w>>] = <<>>
  BY <1>1, <1>2 DEF ReceiveFails, FlightOf
<1> QED BY <1>3, QuietFails DEF ReceiveFails

LEMMA SampleExact ==
  ASSUME NEW m \in Masters, TypeOK, MasterInv(m), Sample(m)
  PROVE  MasterInv(m)'
<1> DEFINE n == Len(x[m].cells)
           k == Len(sampled[m])
<1>1. /\ pc[m] = "blocks" /\ block[m] = NumLayers
      /\ chat[m] \in Nat /\ index_pos[m] \in Nat /\ n \in Nat /\ prompt[m] \in Nat
      /\ k \in Nat
      /\ sampled[m] \in Seq(Traces)
      /\ Positions(m) = index_pos[m] + n
  BY DEF Sample, TypeOK, Responses, Positions
<1>2. /\ ForwardOf(m) /\ CacheOf(m) /\ Busy(m) /\ TokensOf(m)
      /\ \A w \in Workers : toWorker[<<m, w>>] = <<>> /\ toMaster[<<m, w>>] = <<>>
  BY <1>1, NothingInFlight DEF MasterInv, Busy
<1>3. /\ Done(m) = NumLayers
      /\ Positions(m) = prompt[m] + k
      /\ x[m].trace = Reference(m, chat[m], prompt[m] + k)
      /\ k < SampleLen
  BY <1>1, <1>2 DEF ForwardOf, Reference
<1>4. /\ chat'[m] = chat[m] /\ prompt'[m] = prompt[m]
      /\ sampled'[m] = Append(sampled[m], x[m].trace)
      /\ index_pos'[m] = index_pos[m] + n
      /\ lkv'[m] = lkv[m]
      /\ UNCHANGED linkVars
  BY DEF Sample, TypeOK, dialogVars
<1>5. /\ Len(sampled'[m]) = k + 1
      /\ \A i \in 1..k : sampled'[m][i] = sampled[m][i]
      /\ sampled'[m][k + 1] = x[m].trace
  BY <1>1, <1>4
<1>6. TokensOf(m)'
  <2> SUFFICES ASSUME NEW i \in 1..k + 1
               PROVE  sampled'[m][i] = Reference(m, chat[m], prompt[m] + i - 1)
    BY <1>4, <1>5 DEF TokensOf
  <2>1. CASE i \in 1..k
    BY <1>2, <1>5, <2>1 DEF TokensOf
  <2>2. CASE i = k + 1
    <3>1. prompt[m] + i - 1 = prompt[m] + k
      BY <1>1, <2>2
    <3> QED BY <1>3, <1>5, <2>2, <3>1
  <2> QED BY <1>1, <2>1, <2>2
<1>7. \A w \in Workers : toWorker'[<<m, w>>] = <<>> /\ toMaster'[<<m, w>>] = <<>>
  BY <1>2, <1>4 DEF linkVars
<1>8. CASE pc' = [pc EXCEPT ![m] = "idle"]
  <2>1. pc'[m] = "idle"
    BY <1>8 DEF TypeOK
  <2> QED BY <1>6, <1>7, <2>1, Quiet
<1>9. CASE /\ k + 1 < SampleLen
           /\ block' = [block EXCEPT ![m] = 0]
           /\ x' = [x EXCEPT ![m] = NewestToken(m)]
           /\ UNCHANGED pc
  <2>1. /\ pc'[m] = "blocks" /\ block'[m] = 0
        /\ x'[m].cells = Span(m, chat[m], prompt[m] + k, 1)
        /\ x'[m].trace = <<>>
    BY <1>1, <1>9 DEF TypeOK, NewestToken
  <2>2. Len(x'[m].cells) = 1 /\ Done(m)' = 0 /\ Positions(m)' = index_pos[m] + n + 1
    <3>1. prompt[m] + k \in Nat /\ 1 \in Nat
      BY <1>1
    <3>2. Len(x'[m].cells) = 1
      <4> DEFINE s == Span(m, chat[m], prompt[m] + k, 1)
      <4>1. Len(s) = 1
        BY DEF Span
      <4>2. x'[m].cells = s
        BY <2>1
      <4> HIDE DEF s
      <4> QED BY <4>1, <4>2
    <3>3. Len(x'[m].trace) = 0
      BY <2>1
    <3> QED BY <1>1, <1>4, <3>2, <3>3 DEF Done, Positions
  <2>3. index_pos'[m] = prompt[m] + k
    BY <1>1, <1>3, <1>4
  <2>4. ForwardOf(m)'
    <3>1. Positions(m)' = prompt'[m] + Len(sampled'[m])
      BY <1>1, <1>3, <1>4, <1>5, <2>2
    <3>2. x'[m].trace = Trace(m, chat'[m], Positions(m)', 0)
      <4>1. Positions(m)' \in Nat
        BY <1>1, <2>2
      <4> QED BY <1>1, <1>4, <2>1, <4>1, TraceZero
    <3>3. x'[m].cells = Span(m, chat'[m], index_pos'[m], 1)
      BY <1>4, <2>1, <2>3
    <3>4. Len(sampled'[m]) < SampleLen
      BY <1>5, <1>9
    <3> HIDE DEF n, k
    <3>5. Len(x'[m].cells) >= 1 /\ Done(m)' = block'[m] /\ pc'[m] = "blocks"
      <4>1. 1 >= 1
        OBVIOUS
      <4> QED BY <2>1, <2>2, <4>1
    <3>6. /\ x'[m].trace = Trace(m, chat'[m], Positions(m)', Done(m)')
          /\ x'[m].cells = Span(m, chat'[m], index_pos'[m], Len(x'[m].cells))
      BY <2>2, <3>2, <3>3
    <3> QED BY <3>1, <3>4, <3>5, <3>6 DEF ForwardOf
  <2>5. CacheOf(m)'
    <3> SUFFICES ASSUME NEW l \in Layers
                 PROVE  IF Owner[l] = Local
                        THEN EntryExact(m, lkv[m][l], l < Done(m))'
                        ELSE link'[<<m, Owner[l]>>] = "up" =>
                               EntryExact(m, wkv[<<m, Owner[l]>>][l],
                                  l < Done(m) \/ (l < block[m] /\ toMaster[<<m, Owner[l]>>] # <<>>))'
      BY DEF CacheOf
    <3>1. l < Done(m) /\ ~(l < 0)
      BY <1>3, NumLayersAssumption DEF Layers
    <3>2. CASE Owner[l] = Local
      <4>1. lkv[m][l] = Context(m, chat[m], Positions(m))
        BY <1>2, <3>1, <3>2 DEF CacheOf, EntryExact
      <4> QED BY <1>1, <1>4, <2>1, <2>2, <3>1, <3>2, <4>1 DEF EntryExact
    <3>3. CASE Owner[l] # Local
      <4>1. link[<<m, Owner[l]>>] = "up" =>
              wkv[<<m, Owner[l]>>][l] = Context(m, chat[m], Positions(m))
        BY <1>2, <3>1, <3>3 DEF CacheOf, EntryExact
      <4> QED BY <1>1, <1>4, <2>1, <2>2, <3>1, <3>3, <4>1 DEF EntryExact, linkVars
    <3> QED BY <3>2, <3>3
  <2> QED BY <1>6, <1>7, <2>1, <2>4, <2>5 DEF MasterInv, FlightOf, WaitOf
<1> QED BY <1>8, <1>9 DEF Sample

-----------------------------------------------------------------------------
(* The worker's task serves the request in flight.                         *)

LEMMA ServeExact ==
  ASSUME NEW m \in Masters, NEW v \in Workers, TypeOK, Waiting, MasterInv(m),
         Serve(<<m, v>>)
  PROVE  MasterInv(m)'
<1> DEFINE c == <<m, v>>
           n == Len(x[m].cells)
           whole == Context(m, chat[m], Positions(m))
           r == [index_pos |-> index_pos[m], first |-> Done(m), last |-> block[m] - 1,
                 cells |-> x[m].cells, trace |-> x[m].trace]
           kv == ServedKv(wkv[c], r)
           out == Trace(m, chat[m], Positions(m), block[m])
<1>1. /\ c \in Conns /\ link[c] = "up" /\ toWorker[c] # <<>>
      /\ \A w \in Workers : FlightOf(m, w)
  BY DEF Serve, Serving, Conns, MasterInv
<1>2. /\ pc[m] = "await" /\ Busy(m) /\ Owner[block[m] - 1] = v
      /\ toWorker[c] = <<r>>
      /\ \A w \in Workers : toMaster[<<m, w>>] = <<>>
      /\ \A w \in Workers : w # v => toWorker[<<m, w>>] = <<>>
  <2>1. /\ pc[m] = "await" /\ Owner[block[m] - 1] = v /\ toMaster[c] = <<>>
        /\ toWorker[c] = <<r>>
    BY <1>1 DEF FlightOf
  <2>2. \A w \in Workers : toMaster[<<m, w>>] # <<>> => w = v
    BY <1>1, <2>1 DEF FlightOf
  <2>3. \A w \in Workers : toWorker[<<m, w>>] # <<>> => w = v
    BY <1>1, <2>1 DEF FlightOf
  <2> QED BY <2>1, <2>2, <2>3 DEF Busy
<1>3. /\ chat[m] \in Nat /\ index_pos[m] \in Nat /\ n \in Nat
      /\ Done(m) \in 0..NumLayers /\ block[m] \in 0..NumLayers
      /\ Done(m) \in Nat /\ block[m] \in Nat
      /\ Done(m) < block[m]
      /\ Positions(m) = index_pos[m] + n
      /\ wkv \in [Conns -> [Layers -> Entries]]
      /\ toMaster \in [Conns -> Seq(Responses)]
      /\ toWorker \in [Conns -> Seq(Requests)]
  <2>1. /\ chat[m] \in Nat /\ index_pos[m] \in Nat /\ block[m] \in 0..NumLayers
        /\ x[m].cells \in Seq(Cells) /\ x[m].trace \in Traces
        /\ wkv \in [Conns -> [Layers -> Entries]]
        /\ toMaster \in [Conns -> Seq(Responses)]
        /\ toWorker \in [Conns -> Seq(Requests)]
    BY DEF TypeOK, Responses
  <2>2. n \in Nat /\ Done(m) \in Nat
    BY <2>1 DEF Traces, Done
  <2>3. Done(m) < block[m]
    BY <1>2 DEF MasterInv, ForwardOf
  <2> QED BY <2>1, <2>2, <2>3, NumLayersAssumption DEF Positions
<1>4. /\ x[m].cells = Span(m, chat[m], index_pos[m], n)
      /\ x[m].trace = Trace(m, chat[m], Positions(m), Done(m))
      /\ \A l \in Done(m)..block[m] - 1 : Owner[l] = v
      /\ v # Local
      /\ CacheOf(m)
  BY <1>2, SessionAssumption DEF MasterInv, ForwardOf
<1>5. Head(toWorker[c]) = r /\ Tail(toWorker[c]) = <<>>
  <2> HIDE DEF r, c
  <2> QED BY <1>2
<1>6. /\ index_pos[m] + n <= MaxSeq
      /\ wkv' = [wkv EXCEPT ![c] = kv]
      /\ toWorker' = [toWorker EXCEPT ![c] = <<>>]
      /\ toMaster' = [toMaster EXCEPT ![c] =
           Append(@, [cells |-> x[m].cells, trace |-> x[m].trace \o Outputs(kv, r)])]
      /\ UNCHANGED <<masterVars, link>>
  <2>1. /\ Serveable(c, r)
        /\ wkv' = [wkv EXCEPT ![c] = kv]
        /\ toWorker' = [toWorker EXCEPT ![c] = <<>>]
        /\ toMaster' = [toMaster EXCEPT ![c] =
             Append(@, [cells |-> r.cells, trace |-> r.trace \o Outputs(kv, r)])]
        /\ UNCHANGED <<masterVars, link>>
    <3> HIDE DEF r, c
    <3> QED BY <1>5 DEF Serve, kv, c
  <2> QED BY <2>1 DEF Serveable, RotaryInRange
(* The batch's layers now hold the whole dialog, the others are as before. *)
<1>7. ASSUME NEW l \in Layers
      PROVE  kv[l] = IF l \in Done(m)..block[m] - 1 THEN whole ELSE wkv[c][l]
  <2>1. kv[l] = IF l \in Done(m)..block[m] - 1
                THEN ProcessKv(wkv[c][l], index_pos[m], Rotated(x[m].cells, index_pos[m]))
                ELSE wkv[c][l]
    BY DEF ServedKv, Batch
  <2>2. CASE l \in Done(m)..block[m] - 1
    <3>1. wkv[c][l] \in Entries /\ ~(l < Done(m)) /\ Owner[l] = v
      BY <1>1, <1>3, <1>4, <2>2
    <3>2. EntryExact(m, wkv[c][l], l < Done(m) \/ (l < block[m] /\ toMaster[c] # <<>>))
      BY <1>1, <1>2, <1>4, <3>1 DEF CacheOf
    <3>3. index_pos[m] = 0 \/ wkv[c][l] = Context(m, chat[m], index_pos[m])
      BY <1>2, <3>1, <3>2 DEF EntryExact
    <3>4. ProcessKv(wkv[c][l], index_pos[m], Rotated(x[m].cells, index_pos[m])) = whole
      <4>1. ProcessKv(wkv[c][l], index_pos[m],
                      Rotated(Span(m, chat[m], index_pos[m], n), index_pos[m]))
              = Context(m, chat[m], index_pos[m] + n)
        <5>1. wkv[c][l] \in Entries /\ index_pos[m] + n <= MaxSeq
          BY <1>6, <3>1
        <5> HIDE DEF n, c
        <5> QED BY <1>3, <3>3, <5>1, ProcessKvExact
      <4>2. x[m].cells = Span(m, chat[m], index_pos[m], n)
        BY <1>4
      <4> HIDE DEF n
      <4> QED BY <1>3, <4>1, <4>2
    <3> QED BY <2>1, <2>2, <3>4
  <2> QED BY <2>1, <2>2
<1>8. x[m].trace \o Outputs(kv, r) = out
  <2> DEFINE done == TraceOf(m, chat[m], Positions(m), Done(m), block[m])
  <2>1. Outputs(kv, r) = done
    <3>1. block[m] - 1 - Done(m) + 1 = block[m] - Done(m)
      BY <1>3
    <3>2. \A j \in 1..block[m] - Done(m) : kv[Done(m) + j - 1] = whole
      <4> SUFFICES ASSUME NEW j \in 1..block[m] - Done(m)
                   PROVE  kv[Done(m) + j - 1] = whole
        OBVIOUS
      <4>1. Done(m) + j - 1 \in Layers /\ Done(m) + j - 1 \in Done(m)..block[m] - 1
        BY <1>3, NumLayersAssumption DEF Layers
      <4> HIDE DEF kv, whole
      <4> QED BY <1>7, <4>1
    <3> HIDE DEF kv, whole
    <3> QED BY <3>1, <3>2 DEF Outputs, TraceOf, whole
  <2> HIDE DEF done
  <2>2. Trace(m, chat[m], Positions(m), Done(m)) \o done = out
    <3>1. Positions(m) \in Nat /\ Done(m) <= block[m]
      BY <1>3
    <3>2. /\ chat[m] \in Nat /\ Done(m) \in 0..NumLayers /\ block[m] \in 0..NumLayers
      BY <1>3
    <3> HIDE DEF out
    <3>3. Trace(m, chat[m], Positions(m), Done(m)) \o done
            = Trace(m, chat[m], Positions(m), block[m])
      <4>1. \A c1, n1, a1, b1 : c1 \in Nat /\ n1 \in Nat /\ a1 \in 0..NumLayers
              /\ b1 \in 0..NumLayers /\ a1 <= b1 =>
                Trace(m, c1, n1, a1) \o TraceOf(m, c1, n1, a1, b1) = Trace(m, c1, n1, b1)
        BY TraceConcat
      <4> QED BY <3>1, <3>2, <4>1 DEF done
    <3> QED BY <3>3 DEF out
  <2> HIDE DEF kv, r
  <2> QED BY <1>4, <2>1, <2>2
<1> HIDE DEF kv, r, out, whole
<1>9. SameMaster(m) /\ Positions(m)' = Positions(m) /\ Done(m)' = Done(m)
  BY <1>6 DEF masterVars, dialogVars, SameMaster, Positions, Done
<1>10. /\ toMaster'[c] = << [cells |-> x[m].cells, trace |-> out] >>
       /\ toWorker'[c] = <<>>
       /\ wkv'[c] = kv
       /\ \A w \in Workers : w # v => /\ toMaster'[<<m, w>>] = <<>>
                                      /\ toWorker'[<<m, w>>] = <<>>
                                      /\ wkv'[<<m, w>>] = wkv[<<m, w>>]
  <2>1. toMaster'[c] = Append(<<>>, [cells |-> x[m].cells, trace |-> out])
    BY <1>1, <1>2, <1>3, <1>6, <1>8
  <2>2. toWorker'[c] = <<>> /\ wkv'[c] = kv
    BY <1>1, <1>3, <1>6
  <2>3. ASSUME NEW w \in Workers, w # v
        PROVE  /\ toMaster'[<<m, w>>] = <<>>
               /\ toWorker'[<<m, w>>] = <<>>
               /\ wkv'[<<m, w>>] = wkv[<<m, w>>]
    <3>1. <<m, w>> \in Conns /\ <<m, w>> # c
      BY <2>3 DEF Conns
    <3> QED BY <1>2, <1>3, <1>6, <2>3, <3>1
  <2> QED BY <2>1, <2>2, <2>3
<1>11. ForwardOf(m)'
  BY <1>9 DEF MasterInv, ForwardOf, Busy, SameMaster
<1>12. CacheOf(m)'
  <2> SUFFICES ASSUME NEW l \in Layers
               PROVE  IF Owner[l] = Local
                      THEN EntryExact(m, lkv[m][l], l < Done(m))'
                      ELSE link'[<<m, Owner[l]>>] = "up" =>
                             EntryExact(m, wkv[<<m, Owner[l]>>][l],
                                l < Done(m) \/ (l < block[m] /\ toMaster[<<m, Owner[l]>>] # <<>>))'
    BY DEF CacheOf
  <2>1. CASE Owner[l] = Local
    BY <1>2, <1>4, <1>9, <2>1 DEF CacheOf, EntryExact, SameMaster
  <2>2. CASE Owner[l] = v
    <3>1. l \in Nat /\ Owner[l] # Local
      BY <1>4, <2>2, NumLayersAssumption DEF Layers
    <3>2. toMaster'[c] # <<>>
      <4> DEFINE response == [cells |-> x[m].cells, trace |-> out]
      <4> HIDE DEF response
      <4>1. <<response>> # <<>>
        OBVIOUS
      <4> QED BY <1>10, <4>1 DEF response
    <3>3. (l < Done(m)' \/ (l < block'[m] /\ toMaster'[c] # <<>>)) = (l < block[m])
      BY <1>3, <1>9, <3>1, <3>2 DEF SameMaster
    <3>4. EntryExact(m, wkv[c][l], l < Done(m))
      BY <1>1, <1>2, <1>4, <2>2, <3>1 DEF CacheOf
    <3>5. wkv'[c][l] = IF l \in Done(m)..block[m] - 1 THEN whole ELSE wkv[c][l]
      BY <1>7, <1>10
    <3>6. EntryExact(m, wkv'[c][l], l < block[m])
      BY <1>3, <3>1, <3>4, <3>5 DEF EntryExact, whole
    <3>7. EntryExact(m, wkv[c][l], l < Done(m) \/ (l < block[m] /\ toMaster[c] # <<>>))'
      BY <1>9, <3>3, <3>6 DEF EntryExact, SameMaster
    <3> QED BY <2>2, <3>1, <3>7
  <2>3. CASE Owner[l] # Local /\ Owner[l] # v
    <3>1. Owner[l] \in Workers
      BY <2>3, SessionAssumption
    <3>2. /\ link[<<m, Owner[l]>>] = "up" => EntryExact(m, wkv[<<m, Owner[l]>>][l], l < Done(m))
      BY <1>2, <1>4, <2>3, <3>1 DEF CacheOf
    <3>3. (l < Done(m)' \/ (l < block'[m] /\ toMaster'[<<m, Owner[l]>>] # <<>>))
            = (l < Done(m))
      BY <1>9, <1>10, <2>3, <3>1
    <3> QED BY <1>6, <1>9, <1>10, <2>3, <3>1, <3>2, <3>3 DEF EntryExact, SameMaster
  <2> QED BY <2>1, <2>2, <2>3
<1>13. ASSUME NEW w \in Workers PROVE FlightOf(m, w)'
  <2>1. CASE w = v
    BY <1>2, <1>9, <1>10, <2>1 DEF FlightOf, SameMaster, out
  <2>2. CASE w # v
    BY <1>10, <2>2 DEF FlightOf
  <2> QED BY <2>1, <2>2
<1>14. WaitOf(m)'
  <2>1. Awaited(m)' = c
    BY <1>2, <1>9 DEF Awaited, SameMaster
  <2>2. toMaster'[c] # <<>>
    <3> DEFINE response == [cells |-> x[m].cells, trace |-> out]
    <3> HIDE DEF response
    <3>1. <<response>> # <<>>
      OBVIOUS
    <3> QED BY <1>10, <3>1 DEF response
  <2> QED BY <2>1, <2>2 DEF WaitOf
<1>15. TokensOf(m)'
  BY <1>9 DEF MasterInv, TokensOf, SameMaster
<1> QED BY <1>11, <1>12, <1>13, <1>14, <1>15 DEF MasterInv

-----------------------------------------------------------------------------
(* The invariant.                                                          *)

LEMMA InvInit == Init => Inv
<1> SUFFICES ASSUME Init PROVE Inv
  OBVIOUS
<1>1. TypeOK /\ Waiting
  BY TypeInit DEF Init, Waiting
<1>2. ASSUME NEW m \in Masters PROVE MasterInv(m)
  BY <1>2 DEF Init, MasterInv, ForwardOf, CacheOf, FlightOf, WaitOf, TokensOf, Busy, Conns
<1> QED BY <1>1, <1>2 DEF Inv

(* What the actions of one master leave alone: the other masters and their *)
(* connections.                                                            *)
LEMMA OtherMaster ==
  ASSUME NEW m \in Masters, NEW k \in Masters, k # m, TypeOK, Waiting,
         \/ Load(m) \/ Stop(m) \/ (\E n \in PromptLens : StartChat(m, n)) \/ MasterStep(m)
  PROVE  SameMaster(k) /\ \A w \in Workers : SameConn(<<k, w>>)
<1> SUFFICES ASSUME NEW w \in Workers
             PROVE  SameMaster(k) /\ SameConn(<<k, w>>)
  <2>1. CASE Workers = {}
    <3>1. Used = {}
      BY <2>1, SessionAssumption DEF Used
    <3>2. SameMaster(k)
      BY ZenonT(60) DEF Load, Stop, StartChat, MasterStep, LocalBlock, LocalBlockFails, SendBatch,
             SendFails, Receive, ReceiveFails, Sample, FailChat, TypeOK, SameMaster, dialogVars
    <3> QED BY <2>1, <3>2
  <2>2. CASE Workers # {}
    BY <2>2
  <2> QED BY <2>1, <2>2
<1> DEFINE c == <<k, w>>
<1>0. c \in Conns /\ c[1] = k /\ (\A v : <<m, v>> # c)
  BY DEF Conns
<1> HIDE DEF c
<1>1. CASE Load(m)
  BY <1>0, <1>1 DEF Load, TypeOK, SameMaster, SameConn, dialogVars, c
<1>2. CASE Stop(m)
  BY <1>0, <1>2 DEF Stop, TypeOK, SameMaster, SameConn, dialogVars, c
<1>3. CASE \E n \in PromptLens : StartChat(m, n)
  BY <1>3 DEF StartChat, TypeOK, SameMaster, SameConn, linkVars
<1>4. CASE LocalBlock(m)
  BY <1>4 DEF LocalBlock, TypeOK, SameMaster, SameConn, linkVars, dialogVars
<1>5. CASE LocalBlockFails(m) \/ SendFails(m) \/ ReceiveFails(m)
  BY <1>5 DEF LocalBlockFails, SendFails, ReceiveFails, FailChat, TypeOK, SameMaster,
              SameConn, linkVars, dialogVars
<1>6. CASE SendBatch(m)
  <2>1. toWorker'[c] = toWorker[c]
    BY <1>0, <1>6, SMTT(30) DEF SendBatch, TypeOK
  <2> QED BY <1>6, <2>1 DEF SendBatch, TypeOK, SameMaster, SameConn, dialogVars, c
<1>7. CASE Receive(m)
  <2>1. toMaster'[c] = toMaster[c]
    BY <1>0, <1>7 DEF Receive, TypeOK, Awaited
  <2> QED BY <1>7, <2>1 DEF Receive, TypeOK, SameMaster, SameConn, dialogVars, c
<1>8. CASE Sample(m)
  <2>1. SameMaster(k)
    BY <1>8 DEF Sample, TypeOK, SameMaster, dialogVars
  <2> QED BY <1>8, <2>1 DEF Sample, SameConn, linkVars
<1> QED BY <1>1, <1>2, <1>3, <1>4, <1>5, <1>6, <1>7, <1>8 DEF MasterStep

LEMMA MasterExact ==
  ASSUME Inv, NEW m \in Masters,
         \/ Load(m) \/ Stop(m) \/ (\E n \in PromptLens : StartChat(m, n)) \/ MasterStep(m)
  PROVE  MasterInv(m)'
<1> USE DEF Inv
<1>1. CASE Load(m)
  <2>1. pc[m] = "down" /\ pc'[m] = "idle"
    BY <1>1 DEF Load, TypeOK
  <2>2. TokensOf(m)'
    BY <1>1 DEF Load, MasterInv, TokensOf, dialogVars
  <2>3. \A w \in Workers : toWorker'[<<m, w>>] = <<>> /\ toMaster'[<<m, w>>] = <<>>
    BY <1>1, <2>1, NothingInFlight DEF Load
  <2> QED BY <2>1, <2>2, <2>3, Quiet
<1>2. CASE Stop(m)
  <2>1. pc'[m] = "down"
    BY <1>2 DEF Stop, TypeOK
  <2>2. TokensOf(m)'
    BY <1>2 DEF Stop, MasterInv, TokensOf, dialogVars
  <2>3. \A w \in Workers : toWorker'[<<m, w>>] = <<>> /\ toMaster'[<<m, w>>] = <<>>
    BY <1>2 DEF Stop, Conns
  <2> QED BY <2>1, <2>2, <2>3, Quiet
<1>3. CASE \E n \in PromptLens : StartChat(m, n)
  BY <1>3, StartChatExact
<1>4. CASE LocalBlock(m)
  BY <1>4, LocalBlockExact
<1>5. CASE LocalBlockFails(m) \/ SendFails(m)
  <2>1. FailChat(m) /\ pc[m] # "await"
    BY <1>5 DEF LocalBlockFails, SendFails, AtBlock
  <2> QED BY <2>1, NothingInFlight, QuietFails
<1>6. CASE SendBatch(m)
  BY <1>6, SendBatchExact
<1>7. CASE Receive(m)
  BY <1>7, ReceiveExact
<1>8. CASE ReceiveFails(m)
  BY <1>8, ReceiveFailsExact
<1>9. CASE Sample(m)
  BY <1>9, SampleExact
<1> QED BY <1>1, <1>2, <1>3, <1>4, <1>5, <1>6, <1>7, <1>8, <1>9 DEF MasterStep

LEMMA InvStep == Inv /\ [Next]_vars => Inv'
<1> SUFFICES ASSUME Inv, [Next]_vars, NEW k \in Masters
             PROVE  MasterInv(k)'
  BY TypeStep, WaitingStep DEF Inv
<1> USE DEF Inv
<1>1. ASSUME NEW m \in Masters,
             \/ Load(m) \/ Stop(m) \/ (\E n \in PromptLens : StartChat(m, n)) \/ MasterStep(m)
      PROVE  MasterInv(k)'
  <2>1. CASE k = m
    BY <1>1, <2>1, MasterExact
  <2>2. CASE k # m
    BY <1>1, <2>2, OtherMaster, Unaffected
  <2> QED BY <2>1, <2>2
<1>2. ASSUME NEW c \in Conns, Serve(c)
      PROVE  MasterInv(k)'
  <2>1. PICK m \in Masters, v \in Workers : c = <<m, v>>
    BY DEF Conns
  <2>2. CASE k = m
    BY <1>2, <2>1, <2>2, ServeExact
  <2>3. CASE k # m
    <3>1. SameMaster(k)
      BY <1>2 DEF Serve, SameMaster, masterVars, dialogVars
    <3>2. \A w \in Workers : <<k, w>> \in Conns /\ <<k, w>> # c
      BY <2>1, <2>3 DEF Conns
    <3>3. \A w \in Workers : SameConn(<<k, w>>)
      BY <1>2, <3>2 DEF Serve, SameConn, TypeOK
    <3> QED BY <3>1, <3>3, Unaffected
  <2> QED BY <2>2, <2>3
<1>3. ASSUME NEW c \in Conns, ServeFails(c)
      PROVE  MasterInv(k)'
  BY <1>3, DropExact DEF ServeFails
<1>4. ASSUME NEW w \in Workers, Crash(w)
      PROVE  MasterInv(k)'
  BY <1>4, DropExact DEF Crash
<1>5. ASSUME NEW c \in Conns, NEW how \in {"lost", "silent"}, Cut(c, how)
      PROVE  MasterInv(k)'
  BY <1>5, DropExact DEF Cut
<1>6. ASSUME UNCHANGED <<masterVars, linkVars>>
      PROVE  MasterInv(k)'
  BY <1>6, Unaffected DEF SameMaster, SameConn, masterVars, dialogVars, linkVars
<1>7. ASSUME NEW w \in Workers, Restart(w)
      PROVE  MasterInv(k)'
  BY <1>6, <1>7 DEF Restart
<1>8. CASE UNCHANGED vars
  BY <1>6, <1>8 DEF vars
<1> QED BY <1>1, <1>2, <1>3, <1>4, <1>5, <1>7, <1>8 DEF Next, WorkerStep

(* The inductive invariant holds throughout: for every master, its pass,   *)
(* the cache entries its chat will read, the message in flight and the     *)
(* sampled tokens agree (LLama::forward, Worker::handle_master_client).    *)
THEOREM Invariance == Spec => []Inv
BY InvInit, InvStep, PTL DEF Spec

(* Every token of every chat is the one a single machine would sample, for *)
(* every assignment of layers to workers, number of masters sharing them,  *)
(* prompt, limit, and pattern of failures.                                 *)
THEOREM TokensAreExact == Spec => []TokensExact
<1>1. Inv => TokensExact
  BY DEF Inv, MasterInv, TokensExact
<1> QED BY <1>1, Invariance, PTL

(* What a master computes is always its dialog so far: the tokens it feeds *)
(* to the layers are those at index_pos, and the hidden state it holds is  *)
(* the one a single machine would hold after as many layers                *)
(* (LLama::next_token and forward).                                        *)
THEOREM ForwardsAreExact == Spec => []ForwardExact
<1>1. Inv => ForwardExact
  BY DEF Inv, MasterInv, ForwardExact
<1> QED BY <1>1, Invariance, PTL

(* All caches agree with the running dialogs.                              *)
THEOREM CachesAreExact == Spec => []CacheExact
<1>1. Inv => CacheExact
  BY DEF Inv, MasterInv, CacheExact
<1> QED BY <1>1, Invariance, PTL

(* No response is ever left for a request it does not answer.              *)
THEOREM FlightsAreSingle == Spec => []SingleFlight
<1>1. Inv => SingleFlight
  BY DEF Inv, MasterInv, SingleFlight
<1> QED BY <1>1, Invariance, PTL

(* A master that waits on a live connection is waited for.                 *)
THEOREM WaitsEnd == Spec => []NoLostWait
<1>1. Inv => NoLostWait
  BY DEF Inv, MasterInv, NoLostWait
<1> QED BY <1>1, Invariance, PTL

-----------------------------------------------------------------------------
(* Refinement.                                                             *)

status == [m \in Masters |-> Status(m)]

LEMMA RefineInit == Init => G!Init
<1> SUFFICES ASSUME Init PROVE G!Init
  OBVIOUS
<1>1. \A m \in Masters : Status(m) = "down"
  BY DEF Init, Status
<1> QED BY <1>1 DEF Init, G!Init

(* How one master's pc moves its status.                                   *)
LEMMA StatusStep ==
  ASSUME NEW m \in Masters, NEW p, pc \in [Masters -> {"down", "idle", "blocks", "await"}],
         pc' = [pc EXCEPT ![m] = p]
  PROVE  status' = [status EXCEPT ![m] = IF p \in {"down", "idle"} THEN p ELSE "busy"]
BY DEF status, Status

LEMMA RefineStep == Inv /\ [Next]_vars => [G!Next]_(G!vars)
<1> SUFFICES ASSUME Inv, [Next]_vars
             PROVE  G!Next \/ UNCHANGED <<chat, prompt, sampled, status>>
  BY DEF G!vars, status
<1>0. /\ TypeOK
      /\ pc \in [Masters -> {"down", "idle", "blocks", "await"}]
      /\ status = [m \in Masters |-> Status(m)]
      /\ \A m \in Masters : status[m] = Status(m)
  BY DEF Inv, TypeOK, status
<1>1. ASSUME NEW m \in Masters, Load(m) PROVE G!Next
  <2>1. status[m] = "down" /\ status' = [status EXCEPT ![m] = "idle"]
    BY <1>0, <1>1, StatusStep DEF Load, Status
  <2>2. G!Load(m)
    BY <1>1, <2>1 DEF Load, G!Load, dialogVars, status
  <2> QED BY <2>2 DEF G!Next
<1>2. ASSUME NEW m \in Masters, Stop(m) PROVE G!Next
  <2>1. status[m] # "down" /\ status' = [status EXCEPT ![m] = "down"]
    BY <1>0, <1>2, StatusStep DEF Stop, Status
  <2>2. G!Stop(m)
    BY <1>2, <2>1 DEF Stop, G!Stop, dialogVars, status
  <2> QED BY <2>2 DEF G!Next
<1>3. ASSUME NEW m \in Masters, NEW n \in PromptLens, StartChat(m, n) PROVE G!Next
  <2>1. status[m] = "idle" /\ status' = [status EXCEPT ![m] = "busy"]
    BY <1>0, <1>3, StatusStep DEF StartChat, Status
  <2>2. G!Ask(m, n)
    BY <1>3, <2>1 DEF StartChat, G!Ask, status
  <2> QED BY <2>2 DEF G!Next
<1>4. ASSUME NEW m \in Masters, FailChat(m), pc[m] \in {"blocks", "await"} PROVE G!Next
  <2>1. status[m] = "busy" /\ status' = [status EXCEPT ![m] = "idle"]
    BY <1>0, <1>4, StatusStep DEF FailChat, Status
  <2>2. G!Fail(m)
    BY <1>4, <2>1 DEF FailChat, G!Fail, dialogVars, status
  <2> QED BY <2>2 DEF G!Next
<1>5. ASSUME NEW m \in Masters, Sample(m) PROVE G!Next
  <2>1. /\ pc[m] = "blocks" /\ block[m] = NumLayers
        /\ status[m] = "busy"
        /\ sampled' = [sampled EXCEPT ![m] = Append(@, x[m].trace)]
        /\ UNCHANGED <<chat, prompt>>
    BY <1>0, <1>5 DEF Sample, Status, dialogVars
  <2>2. /\ x[m].trace = Reference(m, chat[m], prompt[m] + Len(sampled[m]))
        /\ Len(sampled[m]) < SampleLen
    BY <2>1 DEF Inv, MasterInv, ForwardOf, Busy, Reference
  <2>3. \/ status' = [status EXCEPT ![m] = "idle"]
        \/ Len(sampled[m]) + 1 < SampleLen /\ UNCHANGED status
    <3>1. CASE pc' = [pc EXCEPT ![m] = "idle"]
      BY <1>0, <3>1, StatusStep
    <3>2. CASE Len(sampled[m]) + 1 < SampleLen /\ UNCHANGED pc
      BY <3>2 DEF status, Status
    <3> QED BY <1>5, <3>1, <3>2 DEF Sample
  <2>4. Reference(m, chat[m], prompt[m] + Len(sampled[m]))
          = G!Reference(m, chat[m], prompt[m] + Len(sampled[m]))
    BY DEF Reference, Trace, Computed, Context, Cell,
           G!Reference, G!Trace, G!Computed, G!Context, G!Cell
  <2>5. sampled' = [sampled EXCEPT ![m] =
          Append(@, G!Reference(m, chat[m], prompt[m] + Len(sampled[m])))]
    BY <2>1, <2>2, <2>4
  <2>6. G!SampleNext(m)
    BY <2>1, <2>2, <2>3, <2>5 DEF G!SampleNext, status
  <2> QED BY <2>6 DEF G!Next
<1>6. ASSUME NEW m \in Masters,
             LocalBlock(m) \/ SendBatch(m) \/ Receive(m)
      PROVE  UNCHANGED <<chat, prompt, sampled, status>>
  <2>1. UNCHANGED <<chat, prompt, sampled>>
    BY <1>6 DEF LocalBlock, SendBatch, Receive, dialogVars
  <2>2. pc[m] \in {"blocks", "await"} /\ \E p \in {"blocks", "await"} : pc' = [pc EXCEPT ![m] = p]
    BY <1>0, <1>6 DEF LocalBlock, SendBatch, Receive, AtBlock
  <2>3. \A k \in Masters : Status(k)' = Status(k)
    BY <1>0, <2>2 DEF Status
  <2> QED BY <2>1, <2>3 DEF status
<1>7. ASSUME UNCHANGED masterVars
      PROVE  UNCHANGED <<chat, prompt, sampled, status>>
  BY <1>7 DEF masterVars, dialogVars, status, Status
<1>8. ASSUME NEW m \in Masters, LocalBlockFails(m) \/ SendFails(m) \/ ReceiveFails(m)
      PROVE  G!Next
  BY <1>4, <1>8 DEF LocalBlockFails, SendFails, ReceiveFails, AtBlock
<1> QED BY <1>1, <1>2, <1>3, <1>5, <1>6, <1>7, <1>8
        DEF Next, MasterStep, WorkerStep, Serve, ServeFails, Crash, Restart, Cut, vars

(* A session implements Generation: what its clients see is what one       *)
(* machine holding every layer would show, or a failed chat.               *)
THEOREM SessionImplementsGeneration == Spec => ImplementsGeneration
<1>1. Init => G!Init
  BY RefineInit
<1>2. Inv /\ [Next]_vars => [G!Next]_(G!vars)
  BY RefineStep
<1> QED BY <1>1, <1>2, Invariance, PTL DEF Spec, ImplementsGeneration, G!Spec
=============================================================================
