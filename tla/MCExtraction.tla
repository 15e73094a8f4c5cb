----------------------------- MODULE MCExtraction -----------------------------
(* Any clients, any transcripts. *)
EXTENDS Extraction, TLC

CONSTANTS q1, q2, q3, k1, k2, i1, i2

MCSymmetry == Permutations(Requests) \cup Permutations(Keys)
=============================================================================
