------------------------------- MODULE MCSearch -------------------------------
(* Three memories in two categories and questions of one, two and five terms:   *)
(* of five, one in a title is not enough.  With it, before the search is begun,  *)
(* every question of up to four tokens and every context of up to four entries.  *)
EXTENDS SearchRequest, TLC

CONSTANTS m1, m2, m3, a, b, t1, t2, t3, t4, t5

Says(title, content, other) ==
  [title |-> title, content |-> content, other |-> other, fits |-> TRUE]
\* The last is kept out by the request's filters, but makes its words more common.
MCTexts == {Says({t1}, {}, {}), Says({t2}, {t1, t3}, {}), Says({}, {}, {t1, t2}),
            [Says({}, {t1}, {}) EXCEPT !.fits = FALSE]}
MCQuestions == {{}, {t1}, {t1, t2}, {t1, t2, t3, t4, t5}}
MCSymmetry == Permutations(Memories)
=============================================================================
