--------------------------- MODULE MCTemporalSlice ---------------------------
(***************************************************************************)
(* An instance of TemporalSlice for TLC: an object with two versions, with  *)
(* or without a gap, and one without relations; a related identifier with   *)
(* two versions that have different names.                                  *)
(***************************************************************************)
EXTENDS TemporalSlice

CONSTANTS a, b, r, old, new

\* The version a.2 starts when a.1 ends, or one moment later.
MainTables ==
  {[k \in {<<a, 1>>, <<a, 2>>, <<b, 1>>} |->
      CASE k = <<a, 1>> -> [from |-> 0, to |-> 1, fk |-> <<r, 1>>, loose |-> r, many |-> m]
        [] k = <<a, 2>> -> [from |-> start, to |-> Open, fk |-> <<r, 2>>, loose |-> r,
                            many |-> {<<r, 1>>, <<r, 2>>}]
        [] k = <<b, 1>> -> [from |-> 1, to |-> Open, fk |-> f, loose |-> NoObject, many |-> {}]] :
     start \in {1, 2}, m \in {{}, {<<r, 1>>}}, f \in {NoObject, <<r, 1>>}}

RelTables ==
  {[k \in {<<r, 1>>, <<r, 2>>} |->
      IF k = <<r, 1>> THEN [from |-> 0, to |-> change, name |-> old]
                      ELSE [from |-> change, to |-> end, name |-> new]] :
     change \in {1, 2}, end \in {Open, 2}}

MCDatabases == [main : MainTables, rel : RelTables]
MCPks == {<<a>>, <<a, 1>>, <<a, 2>>, <<b>>}
=============================================================================
