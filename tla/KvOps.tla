------------------------------- MODULE KvOps -------------------------------
(***************************************************************************)
(* The key/value cache of one transformer block                            *)
(* (dial-core/src/models/llama3/cache.rs), as operators on sequences.      *)
(*                                                                         *)
(* A cache entry is the sequence of the cells along the time dimension of  *)
(* the cached K (and V) tensor; a cell stands for the key and value of one *)
(* token.  <<>> is the entry None.  K and V always move together, so one   *)
(* sequence stands for both.                                               *)
(***************************************************************************)
EXTENDS Integers, Sequences

CONSTANTS MaxSeq,  \* Cache.max_seq_len: rows of the cos and sin tables, limit of an entry
          Zero     \* the cell of a zero-filled row of a preallocated tensor

ASSUME MaxSeqAssumption == MaxSeq \in Nat \ {0}

(* Tensor::narrow(2, len - n, n): the last n cells.                        *)
LastCells(s, n) == SubSeq(s, Len(s) - n + 1, Len(s))

(* The narrowing that process_kv and set_kv share.                         *)
Truncated(s) == IF Len(s) > MaxSeq THEN LastCells(s, MaxSeq) ELSE s

(* Cache::cosine and Cache::sine narrow the tables to                      *)
(* index_pos .. index_pos + seq_len - 1 and fail beyond the table.         *)
RotaryInRange(index_pos, seq_len) == index_pos + seq_len <= MaxSeq

(* Mutant: a prefill appends like a decode step does.                      *)
ProcessKvAppends(old, index_pos, new) == Truncated(old \o new)

(* Cache::process_kv: the new entry, which is also what attention reads.   *)
ProcessKv(old, index_pos, new) ==
  IF index_pos = 0 THEN new ELSE Truncated(old \o new)

(* The guard of the decode fast path.                                      *)
InPlace(index_pos, new) ==
  /\ index_pos # 0
  /\ index_pos < MaxSeq
  /\ Len(new) = 1

(* The tensor the fast path writes to: the entry itself when it already    *)
(* has max_seq_len rows, else a zero tensor with the old prefix copied in. *)
Preallocated(old, index_pos) ==
  IF Len(old) = MaxSeq
  THEN old
  ELSE [i \in 1..MaxSeq |->
          IF i <= Len(old) /\ i <= index_pos THEN old[i] ELSE Zero]

(* Cache::process_kv_decode_in_place: the new entry.                       *)
DecodeEntry(old, index_pos, new) ==
  IF InPlace(index_pos, new)
  THEN [Preallocated(old, index_pos) EXCEPT ![index_pos + 1] = new[1]]
  ELSE ProcessKv(old, index_pos, new)

(* ... and the narrowed view that it returns to attention.                 *)
DecodeView(old, index_pos, new) ==
  IF InPlace(index_pos, new)
  THEN SubSeq(DecodeEntry(old, index_pos, new), 1, index_pos + 1)
  ELSE ProcessKv(old, index_pos, new)

(* Cache::set_kv.                                                          *)
SetKv(new) == Truncated(new)
=============================================================================
