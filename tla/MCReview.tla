------------------------------- MODULE MCReview -------------------------------
(* Three memories, a run with two suggestions, one change by API clients. *)
EXTENDS ReviewLifecycle, TLC

CONSTANTS m1, m2, m3, s1, s2, t1, t2

Item(kind, ids, target, confidence, text) ==
  [kind |-> kind, ids |-> ids, target |-> target, confidence |-> confidence, text |-> text]

\* A sure merge, one exactly at the limit without a proposal, a hesitant
\* one that names a memory it may not have been shown, a rewrite without a
\* confidence and one whose confidence is not a number, a soft delete with a
\* confidence out of range.
mcAnswers == {Item("merge", {m1, m2}, m1, 90, t2),
              Item("merge", {m1, m2}, m2, 75, None),
              Item("merge", {m2, m3}, m3, 74, t1),
              Item("rewrite", {}, m1, None, t2),
              Item("rewrite", {m3}, m3, NaN, t2),
              Item("soft_delete", {m1, m3}, None, 180, None)}

\* Every image is fine, or one of m1's is not.
mcTables == {[m \in Memories |-> [text |-> t1, gone |-> FALSE,
                                  images |-> IF m = m1 THEN i ELSE "fine"]] : i \in Images}

SuggestionSymmetry == Permutations(Suggestions)
=============================================================================
