----------------------------- MODULE MCCompaction -----------------------------
(* One tick is 60 seconds: a mark and a request last two, the host's patience one. *)
EXTENDS Compaction, TLC
Interchangeable == Permutations(Sessions) \cup Permutations(Watchers)
===============================================================================
