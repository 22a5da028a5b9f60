--------------------------- MODULE MCListResponse ---------------------------
(***************************************************************************)
(* Instances of ListResponse for TLC: up to seven rows, pages of three,     *)
(* and embedded fields whose references are shared, missing and dangling.   *)
(***************************************************************************)
EXTENDS ListResponse

CONSTANTS e1, e2

TwoEmbeds == <<e1, e2>>

\* Row 4 is the sentinel of the first page: it refers to objects that rows 1
\* to 3 do not refer to. Rows share objects; row 5 refers to nothing.
ForeignKeys == <<{1}, {1}, {2}, {3}, {}, {2}, {1}>>

\* e1 is a foreign key whose object 3 does not exist; e2 is an M2M field: rows
\* 1 and 2 share object 9, rows 4 and 6 have two objects each.
TwoKeys == [e \in {e1, e2} |-> IF e = e1 THEN ForeignKeys ELSE [r \in 1 .. 7 |-> {r}]]
TwoJoined == [e \in {e1, e2} |->
                IF e = e1 THEN {<<1, 1>>, <<2, 2>>}
                ELSE {<<1, 9>>, <<2, 9>>, <<4, 8>>, <<4, 7>>, <<6, 8>>, <<6, 9>>}]
=============================================================================
