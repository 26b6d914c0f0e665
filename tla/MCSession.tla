----------------------------- MODULE MCSession -----------------------------
(* Small instances of Session for TLC. *)
EXTENDS Session, TLC

CONSTANTS m1, m2, w1, w2

(* Four layers: w1 has the first, the master the second, and w2 the last   *)
(* two in one batch.                                                       *)
OwnerSplit == (0 :> w1) @@ (1 :> Local) @@ (2 :> w2) @@ (3 :> w2)

(* Three layers, two segments on the one worker.                           *)
OwnerTwice == (0 :> w1) @@ (1 :> Local) @@ (2 :> w1)

LoadedAll == [w \in Workers |-> Layers]

(* The worker was started with a topology that lacks the last layer.       *)
LoadedLess == [w \in Workers |-> Layers \ {NumLayers - 1}]

MasterSymmetry == Permutations(Masters)
=============================================================================
