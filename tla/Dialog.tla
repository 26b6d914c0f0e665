------------------------------- MODULE Dialog -------------------------------
(***************************************************************************)
(* Symbolic names for what flows through the layers, shared by the         *)
(* abstract and the detailed specification of a chat.                      *)
(***************************************************************************)
EXTENDS Integers, Sequences

CONSTANT NumLayers  \* config.num_hidden_layers

ASSUME NumLayersAssumption == NumLayers \in Nat \ {0}

Layers == 0..NumLayers - 1

(* A token of a dialog, named by its place: master process, chat, position.*)
Cell(m, c, i) == [master |-> m, chat |-> c, pos |-> i]

(* The tokens of positions i .. i+n-1.                                     *)
Span(m, c, i, n) == [j \in 1..n |-> Cell(m, c, i + j - 1)]

(* The cached key and value of a token: the token, and the row of the cos  *)
(* and sin tables its key was rotated with.  apply_rotary_emb takes rows   *)
(* index_pos .. index_pos+n-1.                                             *)
Rotated(cells, index_pos) ==
  [j \in 1..Len(cells) |-> [token |-> cells[j], row |-> index_pos + j - 1]]

(* What attention has to read when chat c has n positions.                 *)
Context(m, c, n) == [j \in 1..n |-> [token |-> Cell(m, c, j - 1), row |-> j - 1]]

(* A hidden state is named by the computation it is the result of: the     *)
(* layers in the order they ran, each with the context its attention read. *)
Computed(l, ctx) == [layer |-> l, ctx |-> ctx]

(* What one machine holding all layers computes in layers 0 .. k-1 when    *)
(* the dialog has n positions.                                             *)
Trace(m, c, n, k) == [l \in 1..k |-> Computed(l - 1, Context(m, c, n))]

(* The token sampled from the output of the last layer.                    *)
Reference(m, c, n) == Trace(m, c, n, NumLayers)
=============================================================================
