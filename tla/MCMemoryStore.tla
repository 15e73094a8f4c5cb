---------------------------- MODULE MCMemoryStore ----------------------------
(* Concurrent requests on a table that already holds one memory. *)
EXTENDS MemoryStore, TLC

CONSTANTS q1, q2, q3, q4, s1, s2, e1, e2, t1, t2, c1, c2

mcStored == [r \in Rows |-> IF r # s1 THEN None ELSE
  LET images == {[by |-> s1, tagged |-> TRUE]}
  IN  [ext |-> e1, title |-> t1, content |-> c1, atts |-> images, by |-> s1, gone |-> "no",
       text |-> [title |-> t1, content |-> c1, atts |-> images]]]

Write(e, t, c, atts, auto) == [op |-> "write", ext |-> e, row |-> s1, title |-> t,
                               content |-> c, atts |-> atts, auto |-> auto]
Other(op) == [op |-> op, ext |-> e1, row |-> s1, title |-> t2, content |-> c1,
              atts |-> "keep", auto |-> FALSE]

Delete(e) == [Other("delete") EXCEPT !.ext = e]

\* Rewrites that keep, clear and replace the images and share a column with the
\* stored row, a second external id that may be merged into the first, and the
\* three ways to change a row that are not writes.
mcCalls == {Write(e1, t2, c1, "keep", FALSE), Write(e1, t1, c2, "tagged", FALSE),
            Write(e1, t1, c1, "clear", FALSE), Write(e2, t1, c2, "keep", TRUE),
            Write(e2, t2, c2, "bare", FALSE),
            Write(e1, t2, c2, "invalid", FALSE),
            Delete(e1), Delete(e2), Other("edit"), Other("remove"),
            [Other("edit") EXCEPT !.row = s2]}
mcSimilar == {<<<<t1, c2>>, <<t1, c1>>>>}

\* Without those two that are answered before they find anything, and a rewrite that clears
\* the images, which differs from one that replaces them by no step.
mcBusyCalls == {c \in mcCalls : c.atts \notin {"invalid", "clear"} /\ c.row # s2}

\* Those that wait for one another, among them the rewrite with which an edit's row may be
\* lost to a write that crashes.
mcLiveCalls == {Write(e1, t2, c1, "keep", FALSE), Write(e1, t2, c1, "bare", FALSE),
                Write(e2, t1, c2, "keep", TRUE), Write(e2, t2, c2, "bare", FALSE),
                Delete(e1), Other("edit"), Other("remove")}

RequestSymmetry == Permutations(Requests)
=============================================================================
