--------------------------- MODULE MCNestedRoutes ---------------------------
\* The schemas over four tables in which the subresources of a table come later in
\* the alphabet, in either order; objects with parents that differ per field.
EXTENDS NestedRoutes

Order == [a |-> 1, b |-> 2, c |-> 3, d |-> 4]

Lists(S) == {<<>>} \cup {<<x>> : x \in S} \cup {p \in S \X S : p[1] # p[2]}

MCSchemas ==
    {s \in [Table -> UNION {Lists({u \in Table : Order[u] > Order[t]}) : t \in Table}] :
        \A t \in Table : s[t] \in Lists({u \in Table : Order[u] > Order[t]})}

MCForeignKeys ==
    [f \in Table \X Table |->
        [o \in Object |-> ((o * (Order[f[1]] + 1) + Order[f[2]]) \div 2) % Cardinality(Object)]]
=============================================================================
