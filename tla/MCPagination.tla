----------------------------- MODULE MCPagination -----------------------------
(* Instances of Pagination for TLC: three cursors, all ways of linking their *)
(* pages, an empty page among them.                                          *)
EXTENDS Pagination

CONSTANTS c1, c2, c3

MCCursors == {c1, c2, c3}

MCPageSize == [p \in MCCursors \cup {First} |-> IF p = c1 THEN 0 ELSE IF p = First THEN 2 ELSE 1]
===============================================================================
