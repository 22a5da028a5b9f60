----------------------------- MODULE FieldScopes -----------------------------
(***************************************************************************)
(* Which fields and which embedded relations a HAL-JSON response shows, for *)
(* the parameters _fields, _expand and _expandScope: FieldsToDisplay of     *)
(* rest_framework_dso/fields.py, ExpandScope of embedding.py, the checks of *)
(* DSOQueryParamSerializer, and the serializers that use them, one per      *)
(* embedded level.                                                          *)
(*                                                                          *)
(* A dotted name is a path of names with an optional minus-sign in front. A *)
(* place is a serializer, named by the path of relations that leads to it   *)
(* from the main table. Everything is accessible to the user here.          *)
(***************************************************************************)
EXTENDS Integers, SequencesExt

CONSTANTS
  Name,          \* the names of fields and relations, and unknown ones
  Schema,        \* Schema[t]: what SchemaTables describes, for every table t
  Root,          \* the table of the request
  Signed,        \* names that start with a minus-sign themselves
  FieldParams,   \* values of _fields: sets of dotted names, {} when it is absent
  ExpandParams,  \* values of _expand and _expandScope: [all, scope]
  Nowhere        \* a name that no field has: the '' of a nested table's rows

VARIABLES
  req,     \* the request: fields, expand, and whether it asks for a list
  status,  \* validate, parse, build and ready, or the status of the refusal
  todo,    \* the places whose serializer is still to be built
  shown    \* what each serializer that was built will show

vars == <<req, status, todo, shown>>

(***************************************************************************)
(* The schema. A table has plain fields, nested tables with their columns,  *)
(* and relations, which are either fields of the table itself (forward) or  *)
(* the other side of a relation of another table (reverse).                 *)
(***************************************************************************)
SchemaTables ==
  \A t \in DOMAIN Schema :
    /\ DOMAIN Schema[t].forward \cup DOMAIN Schema[t].reverse \subseteq Name
    /\ \A n \in DOMAIN Schema[t].forward : Schema[t].forward[n] \in DOMAIN Schema
    /\ \A n \in DOMAIN Schema[t].reverse :
         LET r == Schema[t].reverse[n]
         IN  r.table \in DOMAIN Schema /\ Schema[r.table].forward[r.of] = t

\* What splitting a parameter at its commas and dots gives: paths of at least
\* one name.
DottedNames == Seq(Name) \ {<<>>}

ASSUME SchemaAssumption == SchemaTables /\ Root \in DOMAIN Schema

ASSUME ParamsAssumption ==
  /\ Nowhere \notin Name
  /\ \A fields \in FieldParams : fields \subseteq [minus : BOOLEAN, path : DottedNames]
  /\ ExpandParams \subseteq [all : BOOLEAN, scope : SUBSET DottedNames]

Forward(t) == DOMAIN Schema[t].forward
Relations(t) == Forward(t) \cup DOMAIN Schema[t].reverse
Tables(t) == DOMAIN Schema[t].nested
Body(t) == Schema[t].plain \cup Tables(t)

\* What get_field_by_id finds: reverse relations are not fields of the table.
SchemaFields(t) == Body(t) \cup Forward(t)

Target(t, n) ==
  IF n \in Forward(t) THEN Schema[t].forward[n] ELSE Schema[t].reverse[n].table

Temporal(t) == Schema[t].version # {}

(***************************************************************************)
(* FieldsToDisplay. A scope is a node of the tree of names, or one of the   *)
(* two constants ALLOW_ALL_ and DENY_SUB_FIELDS_TO_DISPLAY. The second one  *)
(* is a node that nothing was said about.                                   *)
(***************************************************************************)
AllowAll == [all |-> TRUE, at |-> <<>>]
Deny == [all |-> FALSE, at |-> <<Nowhere>>]
Node(p) == [all |-> FALSE, at |-> p]

Below(p) == {e \in req.fields : IsStrictPrefix(p, e.path)}
Direct(p) == {e \in Below(p) : Len(e.path) = Len(p) + 1}
NameAt(e, p) == e.path[Len(p) + 1]

\* group_dotted_names: a name with subfields of the same sign is no leaf.
Leaf(e) ==
  ~ \E other \in req.fields :
      other.minus = e.minus /\ IsStrictPrefix(e.path, other.path)

Leaves(p, minus) ==
  {NameAt(e, p) : e \in {d \in Direct(p) : d.minus = minus /\ Leaf(d)}}
Includes(sc) == Leaves(sc.at, FALSE)
Excludes(sc) == Leaves(sc.at, TRUE)
Children(sc) == {NameAt(e, sc.at) : e \in Below(sc.at) \ Direct(sc.at)}

RootScope == IF req.fields = {} THEN AllowAll ELSE Node(<<>>)

\* _init_nesting refuses a second minus-sign, and a mixed level.
Malformed ==
  \/ \E e \in req.fields : \E i \in 2 .. Len(e.path) : e.path[i] \in Signed
  \/ \E e \in req.fields :
       LET level == Node(Front(e.path))
       IN  Includes(level) # {} /\ Excludes(level) # {}

\* Mutant: an excluded name still counts.
AllowNestedExcluded(sc, n) ==
  \/ sc.all
  \/ n \in Children(sc) \cup Includes(sc)
  \/ Excludes(sc) # {}

AllowNested(sc, n) ==
  \/ sc.all
  \/ n \in Children(sc) \cup Includes(sc)
  \/ Excludes(sc) # {} /\ n \notin Excludes(sc)

AsNested(sc, n) ==
  CASE sc.all -> AllowAll
    [] ~sc.all /\ n \in Children(sc) -> Node(Append(sc.at, n))
    [] ~sc.all /\ n \in Excludes(sc) \ Children(sc) -> Deny
    [] ~sc.all /\ Includes(sc) # {} /\ n \notin Includes(sc) \cup Children(sc) -> Deny
    [] OTHER -> AllowAll

OnlyChildren(sc) == Excludes(sc) = {} /\ Includes(sc) = {} /\ Children(sc) # {}

\* Mutant: the parent of an excluded subfield is not kept.
KeepLeaves(sc, valid) ==
  CASE sc.all \/ OnlyChildren(sc) -> valid
    [] ~sc.all /\ Excludes(sc) # {} -> valid \ Excludes(sc)
    [] OTHER -> Includes(sc)

\* get_allow_list: the fields to keep, and the invalid ones.
Keep(sc, valid) ==
  CASE sc.all \/ OnlyChildren(sc) -> valid
    [] ~sc.all /\ Excludes(sc) # {} -> (valid \ Excludes(sc)) \cup Children(sc)
    [] OTHER -> Includes(sc) \cup Children(sc)

\* Mutant: only included names are checked.
InvalidIncludes(sc, valid) == IF sc.all THEN {} ELSE Includes(sc) \ valid

Invalid(sc, valid) ==
  IF sc.all THEN {} ELSE (Includes(sc) \cup Excludes(sc)) \ valid

\* Only the top level has _ordered_fields: the positive names without a dot.
Ordered(sc) ==
  IF sc.at = <<>> /\ ~sc.all THEN {NameAt(e, <<>>) : e \in {d \in Direct(<<>>) : ~d.minus}}
  ELSE {}

(***************************************************************************)
(* ExpandScope. The tree of names is the set of its paths.                  *)
(***************************************************************************)
MaxLevels == 3   \* MAX_EXPAND_ALL_DEPTH is 2, and level 0 counts

\* The tables on the way along p, by the number of relations followed.
Route(p) ==
  LET at[i \in 0 .. Len(p)] == IF i = 0 THEN Root ELSE Target(at[i - 1], p[i])
  IN  at

TableAt(p) == Route(p)[Len(p)]

\* The relations that p follows exist.
Follows(p) == \A i \in 1 .. Len(p) : p[i] \in Relations(Route(p)[i - 1])

\* The i-th relation of p is the exact reverse of the j-th one.
IsBack(p, i, j) ==
  LET t == Route(p)[i - 1]
      u == Route(p)[j - 1]
      ReverseOf(a, n, b, m) ==
        n \in DOMAIN Schema[a].reverse /\ Schema[a].reverse[n] = [table |-> b, of |-> m]
  IN  ReverseOf(t, p[i], u, p[j]) \/ ReverseOf(u, p[j], t, p[i])

\* get_all_embedded_field_names
AllPaths ==
  LET names == UNION {Relations(t) : t \in DOMAIN Schema}
  IN  {p \in SeqOf(names, MaxLevels) \ {<<>>} :
         Follows(p) /\ \A i \in 1 .. Len(p) : \A j \in 1 .. i - 1 : ~IsBack(p, i, j)}

ExpandTree ==
  IF req.expand.scope # {}
  THEN (UNION {Prefixes(p) : p \in req.expand.scope}) \ {<<>>}
  ELSE IF req.expand.all THEN AllPaths ELSE {}

Expanded(p) == {Last(q) : q \in {r \in ExpandTree : Front(r) = p}}

\* ExpandScope._validate: names that cannot be embedded.
CannotEmbed == \E p \in req.expand.scope : ~Follows(p)

(***************************************************************************)
(* DSOQueryParamSerializer: what _fields has to contain next to an expand.  *)
(* validate_expand_scope is left out: after validate_nested_expand_scope it *)
(* only refuses scopes that ExpandScope refuses as well.                    *)
(***************************************************************************)
Included == {e.path : e \in {f \in req.fields : ~f.minus}}
Heads(paths) == {p[1] : p \in paths}
Subfields(paths, n) == {p[2] : p \in {q \in paths : Len(q) > 1 /\ q[1] = n}}

Needed(t) ==
  Schema[t].version \cup Schema[t].identifier \cup {Schema[t].display}
    \cup {n \in Forward(t) : Temporal(Schema[t].forward[n])}

Incomplete(n) ==
  /\ n \in Forward(Root)
  /\ Temporal(Target(Root, n))
  /\ Subfields(Included, n) # {}
  /\ ~(Needed(Target(Root, n)) \subseteq Subfields(Included, n))

\* The exception of get_field_by_id for an unknown name is nowhere caught.
ExpandProblems ==
  {s \in {"400", "500"} :
     \E n \in Heads(Included) :
       IF n \in SchemaFields(Root) THEN s = "400" /\ Incomplete(n) ELSE s = "500"}

ScopeProblems ==
  {s \in {"400", "500"} :
     \E n \in Heads(req.expand.scope) : \E m \in Subfields(req.expand.scope, n) :
       IF n \in Forward(Root) /\ m \in SchemaFields(Target(Root, n))
       THEN s = "400" /\ m \in Forward(Target(Root, n))
       ELSE s = "500" /\ n \notin Body(Root)}

ParamProblems ==
  CASE req.fields = {} -> {}
    [] req.fields # {} /\ req.expand.all -> ExpandProblems
    [] OTHER -> ScopeProblems

(***************************************************************************)
(* The request.                                                             *)
(***************************************************************************)
Init ==
  /\ req \in [fields : FieldParams, expand : ExpandParams, list : BOOLEAN]
  /\ status = "validate"
  /\ todo = {}
  /\ shown = {}

\* get_queryset of the view
Validate ==
  /\ status = "validate"
  /\ status' \in IF ParamProblems = {} THEN {"parse"} ELSE ParamProblems
  /\ UNCHANGED <<req, todo, shown>>

Parse ==
  /\ status = "parse"
  /\ status' = IF Malformed \/ CannotEmbed THEN "400" ELSE "build"
  /\ todo' = {[path |-> <<>>, table |-> Root, scope |-> RootScope]}
  /\ UNCHANGED <<req, shown>>

\* DynamicLinksSerializer: the relations of the _links section, without the ones
\* that lead straight back to a parent.
Links(p) ==
  {n \in Relations(TableAt(p)) : \A j \in 1 .. Len(p) : ~IsBack(Append(p, n), Len(p) + 1, j)}

\* The names of the _links and of the embedded sections are valid as if they
\* were fields of the table.
Valid(p) == Body(TableAt(p)) \cup Links(p) \cup Expanded(p)

\* Mutant: the names of the links are kept in the body as well.
BodyKept(pl) == Keep(pl.scope, Valid(pl.path))

\* apply: the fields of the body that are left.
BodyShown(pl) ==
  LET fields == Body(pl.table)
      kept == Keep(pl.scope, Valid(pl.path)) \cap fields
  IN  IF Ordered(pl.scope) = {} THEN kept ELSE Ordered(pl.scope) \cap kept

LinksShown(pl) == Keep(pl.scope, Valid(pl.path)) \cap Links(pl.path)

\* The rows of a nested table are a list, whose child has no field name.
ColumnsShown(pl) ==
  LET sub == AsNested(pl.scope, Nowhere)
  IN  IF sub.all
      THEN UNION {{n} \X Schema[pl.table].nested[n] : n \in BodyShown(pl) \cap Tables(pl.table)}
      ELSE {}

\* A list leaves out sections; a detail page and nested levels do not.
SectionsShown(pl) ==
  IF req.list /\ pl.path = <<>>
  THEN {n \in Expanded(pl.path) : AllowNested(pl.scope, n)}
  ELSE Expanded(pl.path)

Build(pl) ==
  /\ status = "build"
  /\ pl \in todo
  /\ Invalid(pl.scope, Valid(pl.path)) = {}
  /\ shown' = shown \cup {[path |-> pl.path, table |-> pl.table,
                           body |-> BodyShown(pl), links |-> LinksShown(pl),
                           columns |-> ColumnsShown(pl), sections |-> SectionsShown(pl)]}
  /\ todo' = (todo \ {pl}) \cup
               {[path |-> Append(pl.path, n), table |-> Target(pl.table, n),
                 scope |-> AsNested(pl.scope, n)] : n \in SectionsShown(pl)}
  /\ UNCHANGED <<req, status>>

RefuseBuild(pl) ==
  /\ status = "build"
  /\ pl \in todo
  /\ Invalid(pl.scope, Valid(pl.path)) # {}
  /\ status' = "400"
  /\ UNCHANGED <<req, todo, shown>>

\* All serializers are built before the first row is read.
Finish ==
  /\ status = "build"
  /\ todo = {}
  /\ status' = "ready"
  /\ UNCHANGED <<req, todo, shown>>

\* The code goes depth-first. The order only decides which one of several
\* mistakes is reported.
First == CHOOSE pl \in todo : \A other \in todo : Len(pl.path) >= Len(other.path)

Next ==
  \/ Validate
  \/ Parse
  \/ todo # {} /\ Build(First)
  \/ todo # {} /\ RefuseBuild(First)
  \/ Finish

Spec == Init /\ [][Next]_vars

(***************************************************************************)
(* What the documentation of _fields promises, from the dotted names alone. *)
(***************************************************************************)
\* Is field n of the object at path p asked for, given that the object is?
\* A level without names of its own is not limited.
AskedHere(p, n) ==
  \/ \E e \in Below(p) :
       NameAt(e, p) = n /\ (~e.minus \/ Len(e.path) > Len(p) + 1)
  \/ \A e \in Direct(p) : e.minus /\ NameAt(e, p) # n

\* The objects on the way to p are asked for.
Reached(p) == \A i \in 1 .. Len(p) : AskedHere(SubSeq(p, 1, i - 1), p[i])

\* No object is mentioned as a whole and in part: the documentation leaves
\* open what "stad,stad.naam" stands for.
Clear ==
  \A e, other \in req.fields : ~IsStrictPrefix(e.path, other.path)

(***************************************************************************)
(* Properties.                                                              *)
(***************************************************************************)
Statuses == {"validate", "parse", "build", "ready", "400", "500"}

\* Types: a place only shows what its table has.
TypeOK ==
  /\ status \in Statuses
  /\ \A pl \in todo : pl.table = TableAt(pl.path)
  /\ \A s \in shown :
       /\ s.table = TableAt(s.path)
       /\ s.body \subseteq Body(s.table)
       /\ s.links \subseteq Links(s.path)
       /\ \A c \in s.columns : c[1] \in s.body /\ c[2] \in Schema[s.table].nested[c[1]]
       /\ s.sections \subseteq Relations(s.table)

\* An object that was asked for shows exactly the plain fields and the links
\* that were asked for, over all levels of the names and of the embedding
\* (FieldsToDisplay.as_nested and get_allow_list). Left out are plain fields with
\* subfields, which nothing checks: "code,naam.foo" loses naam, "naam.foo" does not.
ShownAsAsked ==
  Clear => \A s \in shown :
    Reached(s.path) =>
      /\ s.links = {n \in Links(s.path) : AskedHere(s.path, n)}
      /\ LET plain == Schema[s.table].plain \ Children(Node(s.path))
         IN  s.body \cap plain = {n \in plain : AskedHere(s.path, n)}

\* A list has no embedded section of a relation that was not asked for
\* (FieldsToDisplay.allow_nested).
SectionsWereAsked ==
  Clear /\ req.list => \A s \in shown :
    s.path = <<>> => \A n \in s.sections : AskedHere(<<>>, n)

\* A response is only given when every name of _fields that a serializer could
\* check exists, also on the embedded levels and behind a minus-sign.
MistakesRefused ==
  status = "ready" => \A s \in shown : \A e \in req.fields :
    s.path = Front(e.path) /\ Leaf(e) => Last(e.path) \in Body(s.table) \cup Relations(s.table)
=============================================================================
