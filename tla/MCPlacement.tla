---------------------------- MODULE MCPlacement ----------------------------
(* Small instances of Placement for TLC.                                   *)
EXTENDS Placement, TLC

CONSTANTS H1, H2

Layered(a, b) == [first |-> a, last |-> b, range |-> TRUE]
One(a) == [first |-> a, last |-> a, range |-> FALSE]
At(host, specs) == [host |-> host, specs |-> specs]

(* Layer 0 local, then two workers.                                        *)
Split == ("w1" :> At(H1, <<One(1)>>)) @@ ("w2" :> At(H2, <<Layered(2, 3)>>))
(* Both workers claim layer 2, and layer 3 is local.                       *)
Doubled == ("w1" :> At(H1, <<Layered(1, 2)>>)) @@ ("w2" :> At(H2, <<One(2)>>))
(* The workers have changed places.                                        *)
Moved == ("w1" :> At(H2, <<One(1)>>)) @@ ("w2" :> At(H1, <<Layered(2, 3)>>))
(* The second worker is gone.                                              *)
Single == "w1" :> At(H1, <<Layered(1, 2)>>)
(* Two nodes on one machine.                                               *)
Shared == ("w1" :> At(H1, <<One(0)>>)) @@ ("w2" :> At(H1, <<One(1)>>))
(* A range that does not grow.                                             *)
Broken == "w1" :> At(H1, <<Layered(2, 2)>>)
(* A layer the model does not have.                                        *)
Beyond == "w1" :> At(H1, <<Layered(3, 4)>>)

Machines == {Master, H1, H2}

Base ==
  [num_layers |-> 4, model |-> "llama", hosts |-> {H1, H2},
   files |-> [m \in Machines |-> Split], edits |-> {},
   plan |-> [m \in Machines |-> None],
   name |-> (H1 :> "w1") @@ (H2 :> "w2"),
   extra |-> [h \in {H1, H2} |-> <<>>], load_all |-> FALSE, auto_shadow |-> FALSE,
   encoding |-> "batch", shadow |-> FALSE, shadow_host |-> None, promote |-> TRUE]

With(file) == [m \in Machines |-> file]

(* One topology on all machines.                                           *)
Agreed ==
  {[Base EXCEPT !.files = With(f), !.encoding = enc]
     : <<f, enc>> \in {Split, Doubled, Single} \X {"batch", "compact", "range"}}

(* Files that are edited while processes run and restart.                  *)
Edited ==
  {[Base EXCEPT !.edits = {Doubled}, !.encoding = "range"], [Base EXCEPT !.edits = {Broken}],
   [Base EXCEPT !.edits = {Moved}]}

(* Names, files or plans that do not match.                                *)
Mismatched ==
  {[Base EXCEPT !.files = With(Shared)],
   [Base EXCEPT !.name[H2] = "w9"],
   [Base EXCEPT !.name[H2] = "w9", !.plan = With(Split)],
   [Base EXCEPT !.files = With(Broken)],
   [Base EXCEPT !.files = With(Beyond)],
   [Base EXCEPT !.plan = [With(Split) EXCEPT ![H1] = Doubled]],
   [Base EXCEPT !.extra[H1] = <<[first |-> 3, last |-> 2, range |-> TRUE]>>],
   [Base EXCEPT !.load_all = TRUE]}

(* A shadow host for the prompt: of all layers, or of those before its own. *)
Shadowed ==
  {[Base EXCEPT !.model = "qwen", !.files = With(f), !.shadow = TRUE, !.promote = p,
                !.load_all = all, !.auto_shadow = ~all, !.shadow_host = s,
                !.extra[H2] = <<[first |-> 3, last |-> 3, range |-> TRUE]>>]
     : <<f, p, all, s>> \in {Split, Single} \X BOOLEAN \X BOOLEAN \X {None, H1}}

Installations == Agreed \cup Edited \cup Mismatched \cup Shadowed
=============================================================================
