------------------------------- MODULE UrlConf -------------------------------
(***************************************************************************)
(* What a worker promises about its URLs: it serves the URLs of ALL the    *)
(* datasets that ONE reading of the database found, next to the routes     *)
(* that were added by hand, and changes to the next reading at once.       *)
(***************************************************************************)
EXTENDS DatasetUrls

CONSTANT StaticRoute    \* what register() may add by hand

VARIABLES
    db,         \* the table of datasets
    read,       \* the datasets as the worker last read them
    static,     \* the routes added by hand
    served      \* the URL patterns that requests are resolved with

vars == <<db, read, static, served>>

StaticUrls(routes) == {<<"static", r, DEFAULT>> : r \in routes}

Complete(rows) ==
    UNION {BuildDbViewsets(ModelsOf(rows, ApiDatasets(rows)), rows),
           BuildDocViews(rows), BuildOpenapiViews(rows), BuildIndexViews(rows),
           BuildMvtViews(rows), BuildWfsViews(rows)}

Nothing == [d \in Dataset |-> Absent]

Init ==
    /\ db \in Databases
    /\ read = Nothing
    /\ static = {}
    /\ served = {}

ChangeDatabase ==
    /\ db' \in Databases
    /\ UNCHANGED <<read, static, served>>

Read ==
    /\ read' = db
    /\ UNCHANGED <<db, static, served>>

Publish ==
    /\ served' = StaticUrls(static) \cup Complete(read)
    /\ UNCHANGED <<db, read, static>>

Withdraw ==
    /\ served' = StaticUrls(static)
    /\ UNCHANGED <<db, read, static>>

AddRoute ==
    /\ \E r \in StaticRoute : static' = static \cup {r}
    /\ UNCHANGED <<db, read, served>>

\* A new process, or a URLconf that could not be imported.
StartOver ==
    /\ read' = Nothing
    /\ static' = {}
    /\ served' = {}
    /\ UNCHANGED db

Next == ChangeDatabase \/ Read \/ Publish \/ Withdraw \/ AddRoute \/ StartOver

Spec == Init /\ [][Next]_vars
=============================================================================
