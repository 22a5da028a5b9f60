--------------------------- MODULE MCDynamicRouter ---------------------------
\* A dataset a below a sub path, which has relations to a dataset b.
EXTENDS DynamicRouter

CONSTANTS a, b, v1, v2

MCSubPaths == [d \in Dataset |-> IF d = a THEN {"sub"} ELSE {}]
MCLinks == [d \in Dataset |-> IF d = a THEN {b} ELSE {}]

Plain == [api |-> TRUE, db |-> TRUE, geo |-> TRUE, versions |-> {v1}, open |-> {v1}, default |-> v1]

\* One version; a second one, of a alone, with its API disabled; the API disabled
\* altogether.
MCRows ==
    [d \in Dataset |->
        {Plain, [Plain EXCEPT !.api = FALSE]} \cup
            {row \in {[Plain EXCEPT !.versions = {v1, v2}, !.geo = FALSE]} : d = a}]
=============================================================================
