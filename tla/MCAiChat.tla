------------------------------- MODULE MCAiChat -------------------------------
(* Statements on either side of every limit. *)
EXTENDS AiChat

CONSTANTS t1, t2

Write(op, rows) == [op |-> op, clean |-> TRUE, table |-> TRUE, bounded |-> TRUE, rows |-> rows]

MCStatements ==
  {Write("delete", MaxWriteRows), Write("delete", MaxWriteRows + 1),
   [Write("delete", 9) EXCEPT !.bounded = FALSE], [Write("insert", 1) EXCEPT !.table = FALSE],
   [Write("update", 1) EXCEPT !.clean = FALSE], Write("select", 0), Write("other", 0)}
MCPermissionSets == {{"select"}, {"select", "insert", "update", "delete"}}
=============================================================================
