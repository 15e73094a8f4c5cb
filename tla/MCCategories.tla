---------------------------- MODULE MCCategories ----------------------------
(* Two categories, one memory in the first; writes and admin forms at once. *)
EXTENDS Categories, TLC

CONSTANTS q1, q2, q3, q4, a, b, m1, m2, na, nb, new, long

mcCut == [n \in Names |-> IF n = long THEN new ELSE n]
mcStoredCats == [r \in CatRows |->
  CASE r = a -> [name |-> na, gone |-> FALSE, into |-> None]
    [] r = b -> [name |-> nb, gone |-> FALSE, into |-> None]
    [] OTHER -> None]
mcStoredMems == [m \in MemRows |-> IF m = m1 THEN [cat |-> a, live |-> TRUE] ELSE None]

Ask(op) == [op |-> op, name |-> new, auto |-> FALSE, mem |-> m1, cat |-> a, target |-> b]

\* Every operation, by default on the stored memory, the first category and a
\* name nobody has yet; a name too long for its column; a memory that is not
\* there yet, and may be like the stored one; merges both ways.
mcCalls == {Ask("write"), [Ask("write") EXCEPT !.mem = m2], [Ask("write") EXCEPT !.name = long],
            [Ask("extract") EXCEPT !.mem = m2, !.name = na, !.auto = TRUE],
            Ask("move"), Ask("remove"), Ask("create"),
            Ask("rename"), [Ask("rename") EXCEPT !.name = long],
            Ask("delete"), Ask("merge"), [Ask("merge") EXCEPT !.cat = b, !.target = a]}

\* The kinds of requests that wait for each other's rows and names.
mcWaitCalls == {Ask("rename")} \cup
  {c \in mcCalls : c.cat = a /\ c.op \in {"write", "extract", "move", "create", "merge"}}

RequestSymmetry == Permutations(Requests)
=============================================================================
