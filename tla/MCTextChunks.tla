--------------------------- MODULE MCTextChunks ---------------------------
(* Directories of chunk files for TextChunks: three layers of two heads    *)
(* with two dimensions, and dialogs of up to four positions.               *)
EXTENDS TextChunks

File(name, first, last) ==
  [name |-> name, first |-> first, last |-> last, tag |-> "decode", class |-> "dynamic",
   buckets |-> {2, 4}, full |-> FALSE, format |-> "NHWC", layout |-> "SeqDimHead",
   loads |-> TRUE, add |-> FALSE]

Directory(files, adds) == [files |-> files, adds |-> adds]

(* A static file of a range is tried before a dynamic one, and that before *)
(* a plain one; one that does not load leaves its range to the next.       *)
Static == [File(1, 0, 0) EXCEPT !.class = "static", !.buckets = {3}, !.format = "NCHW"]
Broken == [File(2, 0, 0) EXCEPT !.class = "static", !.buckets = {4}, !.loads = FALSE]
Plain  == [File(3, 1, 2) EXCEPT !.class = "plain", !.buckets = {4}, !.layout = "HeadSeqDim"]

(* Outputs with all positions are right when there is a shape per length.  *)
Full == [File(4, 1, 1) EXCEPT !.full = TRUE, !.buckets = {1, 2, 3, 4}]

Mixed == Directory({Broken, Static, File(5, 1, 1), Plain, File(6, 2, 2)}, {})
Dynamic == Directory({File(1, 0, 1), File(2, 0, 2), [File(3, 0, 1) EXCEPT !.tag = "none"],
                      [File(4, 2, 2) EXCEPT !.format = "NCHW", !.buckets = {1, 3}]}, {})
Untagged == Directory({[f EXCEPT !.tag = "none"] : f \in {File(1, 0, 0), Full}}, {})
Beyond == Directory({File(1, 0, 1), File(2, 2, 3)}, {})
Unstarted == Directory({File(1, 1, 2)}, {})

Prefill(name, first, last) ==
  [File(name, first, last) EXCEPT !.tag = "prefill", !.add = TRUE, !.buckets = {2, 3},
                                  !.layout = IF first = 0 THEN "SeqDimHead" ELSE "HeadSeqDim"]

(* Prefill chunks, with images that add to all layers or to the first; for *)
(* one that takes no additions; with a gap.                                *)
Deep(adds) == Directory({File(1, 0, 0), File(2, 1, 1), Prefill(3, 0, 1), Prefill(4, 2, 2)}, adds)
Whole == Directory({File(1, 0, 2), Prefill(3, 0, 2)}, {0, 1, 2})
NoAdd == Directory({File(1, 0, 0), [Prefill(3, 0, 2) EXCEPT !.add = FALSE]}, {})
(* Decoding reaches beyond the layers that prefill fills.                  *)
BeyondPrefill == Directory({File(1, 0, 1), File(2, 2, 3), Prefill(3, 0, 2)}, {0, 1, 2})

(* Ranges that overlap: loading stops behind the first.                    *)
Overlap == Directory({File(1, 0, 1), File(2, 1, 2)}, {})
Gap == Directory({File(1, 0, 2), Prefill(3, 0, 0), Prefill(4, 2, 2)}, {})

AllDirectories ==
  {Mixed, Dynamic, Untagged, Beyond, Unstarted, Deep({0, 1, 2}), Deep({0}), Whole, NoAdd, Gap, Overlap,
   BeyondPrefill}
=============================================================================
