---------------------------- MODULE NestedRoutes ----------------------------
(***************************************************************************)
(* The nested URLs of one base table: a schema names subresources of a     *)
(* table, each through a field of the subresource that points back to it,  *)
(* and _build_nested_viewsets (routers.py) registers a viewset for each    *)
(* path below the base table.  The recursion is a stack of frames.  A      *)
(* pattern captures one identifier per parent under the name of a lookup,  *)
(* and the viewset filters its rows by all of them (nesting.py).           *)
(*                                                                         *)
(* A field is <<the table it is in, the table it points to>>, a lookup a   *)
(* sequence of fields to follow, a basename the tables it is joined from.  *)
(*                                                                         *)
(* The names differ from those of DynamicRouter, so that one module can    *)
(* prove theorems about both.                                              *)
(***************************************************************************)
EXTENDS Naturals, Sequences, FiniteSets

CONSTANTS
    Table,
    Base,           \* the table whose URLs are nested
    Schemas,        \* the functions from a table to its subresources
    Object,         \* the identifiers of objects, the same ones in every table
    ForeignKeys     \* ForeignKeys[f][o]: where field f of object o points to

ASSUME ForeignKeysAssumption ==
    /\ Base \in Table
    /\ ForeignKeys \in [Table \X Table -> [Object -> Object]]

\* The subresources of a table are the keys of an object.  No table is below itself:
\* the recursion would have no end.
ASSUME SchemasAssumption ==
    /\ IsFiniteSet(Table)
    /\ \A s \in Schemas :
        /\ s \in [Table -> Seq(Table)]
        /\ \A t \in Table : \A i, j \in DOMAIN s[t] : s[t][i] = s[t][j] => i = j
        /\ \E depth \in [Table -> 1 .. Cardinality(Table)] :
            \A t \in Table : \A i \in DOMAIN s[t] : depth[s[t][i]] > depth[t]

VARIABLES
    subresources,   \* the schema of this dataset
    stack,          \* the calls of _build_nested_viewsets, the running one last
    nested,         \* the registered nested routes
    refused         \* a basename was in use already

nestedVars == <<subresources, stack, nested, refused>>

Top == stack[Len(stack)]

Frame(items, name, lookups) ==
    [items |-> items,       \* the tables of the parent registry items
     todo |-> subresources[items[Len(items)]],
     basename |-> name,
     lookups |-> lookups]   \* parents_query_lookups

NestedInit ==
    /\ subresources \in Schemas
    /\ stack = <<Frame(<<Base>>, <<Base>>, <<>>)>>
    /\ nested = {}
    /\ refused = FALSE

\* Mutant: the lookups of the parents stay as the parents saw them.
LookupsOfParents(field, lookups) == Append(lookups, <<field>>)

\* The lookups of the parents as seen from one table further down.
Lookups(field, lookups) ==
    Append([i \in DOMAIN lookups |-> <<field>> \o lookups[i]], <<field>>)

\* get_parent_prefix goes up the items and takes a lookup for each from the end.
Captures(items, lookups) ==
    [i \in DOMAIN items |-> lookups[Len(lookups) - Len(items) + i]]

\* Mutant: the nested viewsets below a subresource are not built.
RegisterOneLevel ==
    /\ ~refused
    /\ stack # <<>> /\ Top.todo # <<>>
    /\ LET name == Head(Top.todo)
           basename == Append(Top.basename, name)
           lookups == Lookups(<<name, Top.items[Len(Top.items)]>>, Top.lookups)
           route == [tables |-> Append(Top.items, name),
                     basename |-> basename,
                     captures |-> Captures(Top.items, lookups)]
       IN  /\ nested' = nested \cup {route}
           /\ stack' = [stack EXCEPT ![Len(stack)] =
                          [Top EXCEPT !.todo = Tail(@), !.basename = basename, !.lookups = lookups]]
    /\ UNCHANGED <<subresources, refused>>

\* One turn of the loop over the subresources.  The name and the lookups are
\* assigned to the variables of the loop, so the next subresource builds on them.
RegisterSubresource ==
    /\ ~refused
    /\ stack # <<>> /\ Top.todo # <<>>
    /\ LET name == Head(Top.todo)
           basename == Append(Top.basename, name)
           lookups == Lookups(<<name, Top.items[Len(Top.items)]>>, Top.lookups)
           route == [tables |-> Append(Top.items, name),
                     basename |-> basename,
                     captures |-> Captures(Top.items, lookups)]
           rest == [items |-> Top.items, todo |-> Tail(Top.todo),
                    basename |-> basename, lookups |-> lookups]
       IN  IF \E r \in nested : r.basename = basename
           THEN /\ refused' = TRUE
                /\ UNCHANGED <<stack, nested>>
           ELSE /\ nested' = nested \cup {route}
                /\ stack' = [stack EXCEPT ![Len(stack)] = rest]
                                \o <<Frame(route.tables, basename, lookups)>>
                /\ UNCHANGED refused
    /\ UNCHANGED subresources

Return ==
    /\ ~refused
    /\ stack # <<>> /\ Top.todo = <<>>
    /\ stack' = SubSeq(stack, 1, Len(stack) - 1)
    /\ UNCHANGED <<subresources, nested, refused>>

NestedNext == RegisterSubresource \/ Return

NestedSpec == NestedInit /\ [][NestedNext]_nestedVars

-----------------------------------------------------------------------------
\* A request for a nested list.

\* The objects on the way of a lookup from an object, and the last one.
Reached(lookup, object) ==
    LET reached[n \in 0 .. Len(lookup)] ==
            IF n = 0 THEN object ELSE ForeignKeys[lookup[n]][reached[n - 1]]
    IN  reached

Follow(lookup, object) == Reached(lookup, object)[Len(lookup)]

\* Django refuses a lookup that names a field its table does not have.
Resolves(lookup, table) ==
    /\ lookup[1][1] = table
    /\ \A i \in 1 .. Len(lookup) - 1 : lookup[i + 1][1] = lookup[i][2]

\* filter_queryset_by_parents_lookups: every captured value is a condition.
Listed(route, values) ==
    {o \in Object : \A i \in DOMAIN route.captures : Follow(route.captures[i], o) = values[i]}

-----------------------------------------------------------------------------
\* Properties.

\* The paths below the base table that the schema declares.
Paths ==
    {p \in UNION {[1 .. n -> Table] : n \in 2 .. Cardinality(Table)} :
        /\ p[1] = Base
        /\ \A i \in 1 .. Len(p) - 1 :
            \E j \in DOMAIN subresources[p[i]] : subresources[p[i]][j] = p[i + 1]}

\* The objects that lie, through the direct relation of each level, in the objects
\* that the URL names.
Below(path, values) ==
    {o \in Object :
        LET chain == Append(values, o)
        IN  \A i \in DOMAIN values : ForeignKeys[<<path[i + 1], path[i]>>][chain[i + 1]] = values[i]}

Answers(route) ==
    LET path == route.tables
    IN  /\ \A i \in DOMAIN route.captures : Resolves(route.captures[i], path[Len(path)])
        /\ \A values \in [1 .. Len(path) - 1 -> Object] : Listed(route, values) = Below(path, values)

\* Every table below the first level is the first subresource of its parent.
Eldest(path) == \A i \in 2 .. Len(path) - 1 : subresources[path[i]][1] = path[i + 1]

\* A nested URL lists the objects that lie in the named parents, no others, as long as
\* it leads to first subresources below the first level: siblings of the first level
\* and deeper levels that were registered before it do it no harm (routers.py).
EldestListChildren == \A route \in nested : Eldest(route.tables) => Answers(route)

\* The same of all nested URLs, also those along a younger sibling on the second level or
\* deeper, for which the elder sibling has left a lookup in the list: "Dit geeft alle wijken terug die in het stadsdeel liggen"
\* and "Dit kan meerdere niveaus diep zijn" (docs/rest/subresources.md).
ListsChildren == \A route \in nested : Answers(route)

\* Registration ends with a URL for every path of the schema, or it is refused because
\* the same table is below the base table along two paths.
EveryPathOnce ==
    /\ stack = <<>> =>
        /\ {r.tables : r \in nested} = Paths
        /\ Cardinality(nested) = Cardinality(Paths)
    /\ refused => \E p, q \in Paths : p # q /\ p[Len(p)] = q[Len(q)]
=============================================================================
