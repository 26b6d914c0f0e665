---------------------------- MODULE MCSubgraphs ----------------------------
(* Small processes for Subgraphs: two layers, two connections or one       *)
(* master, and the directories a conversion of the model leaves behind.    *)
EXTENDS Subgraphs

File(part, layer, quality) == [part |-> part, first |-> layer, last |-> layer, quality |-> quality]

(* Both halves of both layers, the second layer's gate/up network being    *)
(* within its own threshold but not within that of the whole MLP.          *)
Halves == {File("gateUp", 0, "good"), File("down", 0, "good"), File("qkv", 0, "off"),
           File("gateUp", 1, "loose"), File("down", 1, "good")}

(* A file of two layers beside the network of the first one alone, halves  *)
(* that are hidden behind it, and a network exported for a prefill length. *)
Whole == {File("full", 0, "good"),
          [part |-> "full", first |-> 0, last |-> 1, quality |-> "good"],
          File("gateUp", 0, "good"), File("down", 0, "good"), File("down", 1, "long")}

(* Gate/up alone: the down projection runs on its Q8 copy.                 *)
GateUpOnly == {File("gateUp", 0, "good"), File("gateUp", 1, "off"), File("qkv", 1, "good")}

Started(master, dir, lazy, scope, visionFile, keep) ==
  [master |-> master, dir |-> dir, lazy |-> lazy, q8Scope |-> scope, q8Layers |-> 2,
   gateUpLayers |-> 2, vision |-> visionFile, keep |-> keep]

MCSetups ==
  {Started(FALSE, Halves, lazy, {}, FALSE, TRUE) : lazy \in BOOLEAN}
  \cup {Started(FALSE, Whole, FALSE, {}, FALSE, TRUE)}
  \cup {Started(FALSE, GateUpOnly, FALSE, {"gateUp", "down"}, FALSE, TRUE)}
  \cup {[Started(TRUE, dir, lazy, Projections, TRUE, keep) EXCEPT !.q8Layers = 1, !.gateUpLayers = 1] :
          dir \in {Halves, Whole}, lazy \in BOOLEAN, keep \in BOOLEAN}
  \cup {Started(TRUE, Halves, FALSE, {}, FALSE, TRUE)}

MCPrompts == {<<>>, <<"cat">>, <<"cat", "dog">>}

MCBytes == [qkv |-> 2, o |-> 1, gateUp |-> 2, down |-> 1]
=============================================================================
