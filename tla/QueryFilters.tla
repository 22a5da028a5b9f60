---------------------------- MODULE QueryFilters ----------------------------
(***************************************************************************)
(* What a list request selects: the table permission and the column subset *)
(* of the view, the filters of the query string and of the Dso- headers    *)
(* (QueryFilterEngine), and the ordering (DynamicOrderingFilter), down to   *)
(* the rows of the SQL query that Django makes of them.                     *)
(*                                                                          *)
(* Values are records whose field "is" names their type. A text is a word   *)
(* in a spelling, so that case can be ignored; a pattern is the set of      *)
(* words it matches; a date-time without a time of day has time NoTime.     *)
(* One occurrence of a parameter is the sequence of its comma-separated     *)
(* parts.                                                                   *)
(***************************************************************************)
EXTENDS Integers, SequencesExt

CONSTANTS
  Schema,       \* Schema[t]: what SchemaTables describes, for every table t
  Root,         \* the table of the request
  Databases,    \* contents of the tables: functions from tables to sets of rows
  Requests,     \* [params, headers, sort, scopes, crs]; a parameter is
                \* a name [path, lookup] with the sequence of its occurrences
  Sorted,       \* all parameter names in the order of their text
  NonFilterParams,  \* parameters that are no filters, such as _sort and page
  WithoutId,    \* the names with the suffix Id, mapped to what is before it
  Positions,    \* Positions[p]: the coordinates of place p, per CRS
  Null, NoRow, NoTable, NoTime

VARIABLES
  db,        \* the contents of the database
  req,       \* the request
  status,    \* permit, select, parse, compile, order; ok or the refusal
  inputs,    \* the parameters whose filter is still to be compiled
  q,         \* the conditions that are compiled: the Q object
  refusal,   \* how Django refuses the first of them that it cannot take, if any
  distinct,  \* whether a filter walks over a relation to many objects
  selected,  \* the columns that the query reads of the main table
  listing    \* the rows of the query: [row, by], NoRow until it ran

vars == <<db, req, status, inputs, q, refusal, distinct, selected, listing>>

\* A function, extended with what another one says of other arguments.
Extended(f, g) ==
  [x \in DOMAIN f \cup DOMAIN g |-> IF x \in DOMAIN f THEN f[x] ELSE g[x]]

(***************************************************************************)
(* The schema. A field is a column, or a relation: fk and composite (to one *)
(* row, by one or two identifiers), loose (to an identifier that several    *)
(* versions share), m2m, or nested (rows of a nested table).                *)
(***************************************************************************)
Fields(t) == Schema[t].fields
Identifier(t) == Schema[t].identifier
ToMany == {"m2m", "nested"}
ToOne == {"fk", "composite", "loose"}
Relation(f) == f.kind \in ToOne \cup {"m2m"}

\* Relations lead to tables and are reversed there. An identifier is a column; a
\* relation has the identifier of its table among its own, but a nested table has a
\* generated one, which nothing protects. The field schema is not among the fields.
SchemaTables ==
  /\ \A t \in DOMAIN Schema :
       /\ Identifier(t) \in DOMAIN Fields(t)
       /\ Fields(t)[Identifier(t)].ids = {}
       /\ IsFiniteSet(DOMAIN Fields(t)) /\ "schema" \notin DOMAIN Fields(t)
       /\ \A n \in DOMAIN Fields(t) :
            LET f == Fields(t)[n]
            IN  /\ f.kind \in {"column"} \cup ToOne \cup ToMany
                /\ f.kind # "column" => f.to \in DOMAIN Schema
                /\ f.kind = "m2m" => Identifier(f.to) \in f.ids
                /\ f.kind = "nested" => Fields(f.to)[Identifier(f.to)].filter = {}
       /\ \A n \in DOMAIN Schema[t].reverse :
            LET r == Schema[t].reverse[n]
            IN  r.table \in DOMAIN Schema /\ Fields(r.table)[r.of].to = t
  /\ Root \in DOMAIN Schema
ASSUME SchemaAssumption == SchemaTables

\* Only names that are in order are given, and an ordering has no empty path.
ASSUME RequestsAssumption ==
  /\ Sorted \in Seq([path : Seq(STRING), lookup : STRING])
  /\ \A r \in Requests :
       /\ DOMAIN r.params \cup DOMAIN r.headers \subseteq ToSet(Sorted)
       /\ r.sort \in Seq(Seq(STRING) \ {<<>>})

\* A key has one row, and an identifier one version that is current.
ASSUME DatabasesAssumption ==
  \A data \in Databases, t \in DOMAIN Schema :
    \A f \in Range(Fields(t)) :
      \A v, w \in IF f.kind \in ToOne THEN data[f.to] ELSE {} :
        (/\ \A i \in (IF f.kind = "composite" THEN f.ids ELSE {Identifier(f.to)}) : v[i] = w[i]
         /\ f.kind = "loose" => v.current /\ w.current) => v = w

(***************************************************************************)
(* A filter path as a sequence of parts: FilterPathPart.                    *)
(***************************************************************************)
Part(t, n, reverse) == [table |-> t, name |-> n, reverse |-> reverse]

TargetOf(p) ==
  IF p.reverse THEN Schema[p.table].reverse[p.name].table
               ELSE Fields(p.table)[p.name].to

\* A reverse relation stands for the identifier of the table it leads to.
FieldOf(p) ==
  IF p.reverse THEN Fields(TargetOf(p))[Identifier(TargetOf(p))]
               ELSE Fields(p.table)[p.name]

Kind(p) == IF p.reverse THEN "reverse" ELSE FieldOf(p).kind
Many(p) == p.reverse \/ Kind(p) \in ToMany \/ FieldOf(p).type = "array"
Loose(p) == Kind(p) = "loose"

\* _get_field_by_id: the part that a name stands for, if any.
GetFieldById(t, n, last) ==
  LET bare == IF last /\ n \in DOMAIN WithoutId THEN WithoutId[n] ELSE n
  IN  IF n \in DOMAIN Fields(t) THEN {Part(t, n, FALSE)}
      ELSE IF bare \in DOMAIN Fields(t) /\ Relation(Fields(t)[bare])
      THEN {Part(t, bare, FALSE)}
      ELSE IF n \in DOMAIN Schema[t].reverse THEN {Part(t, n, TRUE)} ELSE {}

\* Mutant: the identifiers that a relation shows are not looked at.
MayFilterFieldOnly(p, scopes) == FieldOf(p).filter \subseteq scopes

\* check_filter_field_access
MayFilter(p, scopes) ==
  /\ FieldOf(p).filter \subseteq scopes
  /\ \A i \in FieldOf(p).ids : Fields(FieldOf(p).to)[i].filter \subseteq scopes

\* One step of _parse_filter_path: what it found, and where the path leads next.
AddPart(walk, part, scopes) ==
  IF ~MayFilter(part, scopes) THEN [walk EXCEPT !.error = "403"]
  ELSE [error |-> "none", parts |-> Append(walk.parts, part),
        parent |-> IF part.reverse \/ Kind(part) # "column" THEN TargetOf(part) ELSE NoTable]

NextPart(walk, found, scopes) ==
  IF walk.parent = NoTable \/ found = {} THEN [walk EXCEPT !.error = "400"]
  ELSE AddPart(walk, CHOOSE p \in found : TRUE, scopes)

Follow(walk, path, i, scopes) ==
  IF walk.error # "none" THEN walk
  ELSE NextPart(walk, GetFieldById(walk.parent, path[i], i = Len(path)), scopes)

\* _parse_filter_path: the parts, or the status of the refusal.
ParseFilterPath(path, scopes) ==
  LET after[i \in 0 .. Len(path)] ==
        IF i = 0 THEN [error |-> "none", parts |-> <<>>, parent |-> Root]
                 ELSE Follow(after[i - 1], path, i, scopes)
  IN  after[Len(path)]

\* The last join of a path is left out when the row itself has the identifier.
SkipsJoin(parts) ==
  /\ Len(parts) > 1
  /\ LET parent == parts[Len(parts) - 1]
     IN  Kind(parent) \in ToOne /\ Last(parts).name \in FieldOf(parent).ids

(***************************************************************************)
(* _to_orm_path: the relations that are joined, and the column that is      *)
(* compared in the table they lead to. A relation to many is compared by    *)
(* the key of its rows, a composite one by the identifier that was named,   *)
(* which is a column of its own. To Django, the others are relations, also  *)
(* where the path ends with the identifier of the table they lead to.       *)
(***************************************************************************)
OrmPath(parts) ==
  LET steps == IF SkipsJoin(parts) THEN Front(parts) ELSE parts
      end == Last(steps)
      stored == Kind(end) = "composite" /\ SkipsJoin(parts)
  IN  IF end.reverse \/ Kind(end) \in ToMany
      THEN [joins |-> steps, column |-> Identifier(TargetOf(end)),
            id |-> "none", relation |-> TRUE]
      ELSE [joins |-> Front(steps), column |-> end.name,
            id |-> IF stored THEN Last(parts).name ELSE "none",
            relation |-> Relation(FieldOf(end)) /\ ~stored]

(***************************************************************************)
(* Values. The conversions of filters/values.py accept a part or not.       *)
(***************************************************************************)
Other == [is |-> "text", word |-> "other", case |-> "lower"]
Text(occurrence) == IF Len(occurrence) = 1 THEN occurrence[1] ELSE Other

Accepts(type, v) ==
  CASE type = "string" -> TRUE
    [] type = "boolean" -> v.is = "bool"
    [] type = "integer" -> v.is = "number"
    [] type = "number" -> v.is = "number" /\ v.n >= 0
    [] type = "date-time" -> v.is = "moment"
    [] type = "array" -> TRUE

\* _validate_correct_x_y, with the bounds of the Netherlands in whole units.
ValidRd(x, y) == x \in 0 .. 280 /\ y \in 300 .. 625
ValidWgs84(latitude, longitude) == latitude \in 51 .. 53 /\ longitude \in 4 .. 7

Point(v, crs) ==
  IF crs = "RD"
  THEN IF ValidRd(v.x, v.y) THEN {[crs |-> "RD", at |-> <<v.x, v.y>>]} ELSE {}
  ELSE IF ValidWgs84(v.x, v.y) THEN {[crs |-> "WGS84", at |-> <<v.y, v.x>>]}
  ELSE IF ValidWgs84(v.y, v.x) THEN {[crs |-> "WGS84", at |-> <<v.x, v.y>>]} ELSE {}

\* The lookups of each type; within, which takes a distance, is left out.
ComparisonLookups == {"", "gte", "gt", "lt", "lte", "in", "not", "isnull"}
StringLookups == {"", "in", "isnull", "not", "isempty", "like"}
ScalarLookups(type) ==
  CASE type = "boolean" -> {"", "isnull"}
    [] type \in {"integer", "number", "date-time"} -> ComparisonLookups
    [] type = "string" -> StringLookups
    [] type \in {"array", "objects"} -> {"", "contains"}
    [] type = "object" -> {}
    [] type = "point" -> {"", "isnull", "not", "intersects"}

\* get_allowed_lookups
AllowedLookups(f) ==
  IF Relation(f) \/ f.primary
  THEN {"", "in", "not", "isnull"}
         \cup ScalarLookups(IF f.type = "object" THEN "string" ELSE f.type)
  ELSE ScalarLookups(f.type)

(***************************************************************************)
(* _translate_raw_value: the values to compare with, or the refusal. The    *)
(* lookups not and in take a list. A relation by several identifiers is     *)
(* compared with the text of the parameter, and a list of it are the        *)
(* characters of that text. The conversions of isnull, isempty and like     *)
(* take no CRS.                                                             *)
(***************************************************************************)
Values(vs) == [error |-> "none", values |-> vs]
Refusal(code) == [error |-> code, values |-> {}]

\* A relation to many takes the list of all its values, whatever the lookup.
ListForMany(key, part) ==
  /\ Kind(part) \in {"m2m", "reverse"}
  /\ FieldOf(part).type # "objects"
  /\ key.lookup \notin {"in", "not", "isnull", "isempty", "like"}

TranslateRawValue(key, occurrences, part) ==
  LET f == FieldOf(part)
      first == Text(occurrences[1])
      several == Many(part) \/ key.lookup \in {"in", "not"}
      values == IF f.type = "array" \/ key.lookup = "in" THEN ToSet(occurrences[1])
                ELSE {Text(occurrences[i]) : i \in DOMAIN occurrences}
      Checked(type, vs) ==
        IF \A w \in vs : Accepts(type, w) THEN Values(vs) ELSE Refusal("400")
  IN  IF key.lookup \in {"isnull", "isempty", "like"}
      THEN IF f.type = "point" THEN Refusal("400")
           ELSE Checked(IF key.lookup = "like" THEN "string" ELSE "boolean", {first})
      ELSE IF f.type = "point"
      THEN IF first.is # "xy" \/ Point(first, req.crs) = {} THEN Refusal("400")
           ELSE Values(Point(first, req.crs))
      ELSE IF f.type \in {"object", "objects"}
      THEN IF f.ids = {} THEN Refusal(IF f.type = "objects" THEN "400" ELSE "500")
           ELSE Values({IF key.lookup \in {"in", "not"} THEN Other ELSE first})
      ELSE Checked(f.type, IF several THEN values ELSE {first})

(***************************************************************************)
(* _translate_lookup, for a lookup that is allowed: whether it is iexact,   *)
(* which follows from the field that was named, or compares days only. The  *)
(* value of not and in is a list, and that of isnull a Boolean: no full     *)
(* date-time either. Text is compared with the text of a list.              *)
(***************************************************************************)
FullMoment(lookup, vs) ==
  lookup \notin {"in", "not", "isnull"} /\ \A v \in vs : v.time # NoTime

TranslateLookup(key, part, vs) ==
  LET f == FieldOf(part)
      text == f.type = "string" /\ ~f.primary
  IN  [lookup |-> key.lookup,
       values |-> IF ListForMany(key, part) THEN {Other} ELSE vs,
       iexact |-> text /\ key.lookup = "" /\ ~Relation(f),
       text |-> text,
       days |-> f.type = "date-time" /\ ~FullMoment(key.lookup, vs),
       point |-> f.type = "point",
       array |-> f.type = "array"]

\* What Django makes no condition of: like and others for a relation, a coordinate
\* for a geometry, and a list for an identifier that is not a text.
DjangoRefuses(key, parts) ==
  LET f == FieldOf(Last(parts))
      text == f.type = "array" \/ (f.type = "string" /\ f.primary)
  IN  IF OrmPath(parts).relation /\ key.lookup \in {"like", "isempty", "contains"}
      THEN "400"
      ELSE IF \/ f.type = "point" /\ key.lookup = "not"
              \/ ListForMany(key, Last(parts)) /\ ~text
      THEN "500" ELSE "none"

\* Mutant: the relation that a path ends with is left out.
TemporalFiltersInside(parts) ==
  {[joins |-> SubSeq(parts, 1, i), lookup |-> "current"] :
     i \in {j \in 1 .. Len(parts) - 1 : Loose(parts[j])}}

\* _create_temporal_filters: one condition for each loose relation of the path.
TemporalFilters(parts) ==
  {[joins |-> SubSeq(parts, 1, i), lookup |-> "current"] :
     i \in {j \in DOMAIN parts : Loose(parts[j])}}

\* Mutant: loose relations on the way are left out.
WalksOverM2M(parts) == \E i \in DOMAIN parts : Many(parts[i])

WalksOverMany(parts) ==
  \/ \E i \in DOMAIN parts : Many(parts[i])
  \/ \E i \in 1 .. Len(parts) - 1 : Loose(parts[i])

NoCondition(code) == [error |-> code, q |-> {}, many |-> FALSE, refused |-> "none"]

\* Whether the lookup is isnull after its translation: for a date-time, the date is
\* compared with null.
ChecksExistence(key, f) == key.lookup = "isnull" /\ f.type # "date-time"

\* The conditions of one parameter whose path is known and whose value is read.
Conditions(key, parts, raw) ==
  LET f == FieldOf(Last(parts))
      condition == Extended(OrmPath(parts), TranslateLookup(key, Last(parts), raw.values))
  IN  IF raw.error # "none" THEN NoCondition(raw.error)
      ELSE IF key.lookup \notin AllowedLookups(f) THEN NoCondition("400")
      ELSE [error |-> "none", many |-> WalksOverMany(parts),
            refused |-> DjangoRefuses(key, parts),
            q |-> {condition} \cup
                  IF ChecksExistence(key, f) THEN {} ELSE TemporalFilters(parts)]

\* _compile_filter: the conditions of one parameter, or the refusal.
CompileFilter(key, occurrences) ==
  LET parsed == ParseFilterPath(key.path, req.scopes)
  IN  IF parsed.error # "none" THEN NoCondition(parsed.error)
      ELSE Conditions(key, parsed.parts,
                      TranslateRawValue(key, occurrences, Last(parsed.parts)))

(***************************************************************************)
(* The rows. A relation field has the identifiers of the row it refers to:  *)
(* one, a record of two (composite), or a set of them (to many).            *)
(***************************************************************************)
RefersTo(r, f, target) ==
  CASE f.kind \in {"fk", "loose"} -> target[Identifier(f.to)] = r
    [] f.kind = "composite" -> r # Null /\ \A i \in f.ids : target[i] = r[i]
    [] f.kind \in ToMany -> target[Identifier(f.to)] \in r

Related(row, p) ==
  IF row = NoRow THEN {}
  ELSE IF p.reverse
  THEN LET of == Schema[p.table].reverse[p.name].of
       IN  {r \in db[TargetOf(p)] : RefersTo(r[of], Fields(TargetOf(p))[of], row)}
  ELSE {r \in db[TargetOf(p)] : RefersTo(row[p.name], FieldOf(p), r)}

(***************************************************************************)
(* The SQL query. Every path of relations is joined once, however many      *)
(* conditions use it; a row without related rows is joined with NoRow. A    *)
(* row of the query is a choice of one row for every joined path. The main  *)
(* table is already reduced to the moment of the request.                   *)
(***************************************************************************)
Joins(paths) == UNION {{SubSeq(p, 1, i) : i \in 1 .. Len(p)} : p \in paths}

\* What one joined path adds to a row of the query.
Joined(r, p) ==
  LET found == Related(r[Front(p)], Last(p)) IN IF found = {} THEN {NoRow} ELSE found

\* What the joined paths ps add to it together.
Extensions(r, ps) ==
  LET found == [p \in ps |-> Joined(r, p)]
  IN  {x \in [ps -> UNION Range(found)] : \A p \in ps : x[p] \in found[p]}

QueryRows(paths) ==
  LET all == Joins(paths)
      main == {r \in db[Root] : Schema[Root].dimensions # {} => r.current}
      depth == Max({0} \cup {Len(p) : p \in all})
      joined[n \in 0 .. depth] ==
        IF n = 0 THEN {[p \in {<<>>} |-> r] : r \in main}
        ELSE LET level == {p \in all : Len(p) = n}
             IN  UNION {{Extended(r, x) : x \in Extensions(r, level)} : r \in joined[n - 1]}
  IN  joined[depth]

Column(row, c) ==
  IF row[c.column] = Null \/ c.id = "none" THEN row[c.column] ELSE row[c.column][c.id]

\* The lookup not of lookups.py ignores the case of a text, unless it is a relation to
\* Django, which follows from the column.
IgnoresCase(c) == c.iexact \/ (c.lookup = "not" /\ c.text /\ ~c.relation)

Same(c, v, w) ==
  IF IgnoresCase(c) THEN v.word = w.word ELSE IF c.days THEN v.day = w.day ELSE v = w

Less(c, v, w) ==
  IF v.is = "number" THEN v.n < w.n
  ELSE v.day < w.day \/ (~c.days /\ v.day = w.day /\ v.time < w.time)

At(place, point) == Positions[place][point.crs] = point.at

\* The lookups of Django and of lookups.py. A condition that is not about
\* missing values makes the joins it uses inner joins.
Holds(c, row) ==
  LET v == Column(row, c)
      w == CHOOSE x \in c.values : TRUE
  IN  CASE row = NoRow -> c.lookup = "isnull" /\ w.b
        [] row # NoRow /\ c.lookup = "current" -> row.current
        [] row # NoRow /\ c.lookup = "isnull" -> (v = Null) = w.b
        [] row # NoRow /\ c.lookup = "isempty" -> (v = Null \/ v.word = "") = w.b
        [] row # NoRow /\ c.lookup = "not" -> v = Null \/ \A x \in c.values : ~Same(c, v, x)
        [] OTHER ->
             /\ v # Null
             /\ CASE c.lookup = "in" -> \E x \in c.values : Same(c, v, x)
                  [] c.lookup = "like" -> v.word \in w.words
                  [] c.lookup = "lt" -> Less(c, v, w)
                  [] c.lookup = "gt" -> Less(c, w, v)
                  [] c.lookup = "lte" -> ~Less(c, w, v)
                  [] c.lookup = "gte" -> ~Less(c, v, w)
                  [] c.lookup = "intersects" \/ c.point -> At(v, w)
                  [] c.lookup = "contains" ->
                       {x.word : x \in c.values} \subseteq {x.word : x \in v}
                  [] OTHER -> IF c.array /\ ~c.relation THEN v = c.values
                              ELSE \E x \in c.values : Same(c, v, x)

(***************************************************************************)
(* The request.                                                             *)
(***************************************************************************)
Init ==
  /\ db \in Databases
  /\ req \in Requests
  /\ status = "permit"
  /\ inputs = {}
  /\ q = {}
  /\ refusal = "none"
  /\ distinct = FALSE
  /\ selected = {}
  /\ listing = NoRow

Refuse(code) ==
  /\ status' = code
  /\ UNCHANGED <<db, req, inputs, q, refusal, distinct, selected, listing>>

\* HasOAuth2Scopes.has_permission
CheckPermission ==
  /\ status = "permit"
  /\ IF Schema[Root].auth \subseteq req.scopes
     THEN /\ status' = "select"
          /\ UNCHANGED <<db, req, inputs, q, refusal, distinct, selected, listing>>
     ELSE Refuse("403")

HasFieldAccess(f) ==
  /\ f.auth \subseteq req.scopes
  /\ Relation(f) => \A g \in Range(Fields(f.to)) : g.auth \subseteq req.scopes

AllFields == DOMAIN Fields(Root) \cup {"schema"}

PrimaryKey == {n \in DOMAIN Fields(Root) : Fields(Root)[n].primary}

\* limit_queryset_for_scopes: the columns that the query reads. The primary key is
\* always among those that only() reads.
LimitQueryset ==
  LET available == {n \in DOMAIN Fields(Root) : HasFieldAccess(Fields(Root)[n])}
  IN  /\ status = "select"
      /\ selected' = IF Cardinality(AllFields) - 1 > Cardinality(available)
                     THEN available \cup PrimaryKey ELSE DOMAIN Fields(Root)
      /\ status' = "parse"
      /\ UNCHANGED <<db, req, inputs, q, refusal, distinct, listing>>

WellFormed(key) == key.path # <<>> /\ "" \notin ToSet(key.path)

\* The headers are leading, per parameter.
Given == Extended(req.headers, req.params)

\* from_request and _parse_filters
ParseFilters ==
  LET keys == DOMAIN Given \ NonFilterParams
  IN  /\ status = "parse"
      /\ IF \E k \in keys : ~WellFormed(k) THEN Refuse("400")
         ELSE /\ status' = "compile"
              /\ inputs' = keys
              /\ UNCHANGED <<db, req, q, refusal, distinct, selected, listing>>

MayFilterRows == Schema[Root].rla = {} \/ Schema[Root].rla \subseteq req.scopes

\* What _compile_filter gave for a parameter is added to the query.
AddConditions(key, compiled) ==
  IF compiled.error # "none" THEN Refuse(compiled.error)
  ELSE /\ inputs' = inputs \ {key}
       /\ q' = q \cup compiled.q
       /\ refusal' = IF refusal = "none" THEN compiled.refused ELSE refusal
       /\ distinct' = (distinct \/ compiled.many)
       /\ UNCHANGED <<db, req, status, selected, listing>>

\* _compile_filters for one parameter.
CompileInput(key) ==
  IF ~MayFilterRows THEN Refuse("403")
  ELSE IF Len(key.path) = 1 /\ key.path[1] \in Schema[Root].dimensions /\ key.lookup = ""
  THEN /\ inputs' = inputs \ {key}
       /\ UNCHANGED <<db, req, status, q, refusal, distinct, selected, listing>>
  ELSE AddConditions(key, CompileFilter(key, Given[key]))

\* The parameters are compiled one at a time, in the order of their names.
Compile ==
  /\ status = "compile"
  /\ \E i \in DOMAIN Sorted :
       /\ Sorted[i] \in inputs
       /\ \A j \in 1 .. i - 1 : Sorted[j] \notin inputs
       /\ CompileInput(Sorted[i])

\* filter_queryset: Django takes the conditions in the order of their compilation.
FilterQueryset ==
  /\ status = "compile"
  /\ inputs = {}
  /\ IF refusal # "none" THEN Refuse(refusal)
     ELSE /\ status' = "order"
          /\ UNCHANGED <<db, req, inputs, q, refusal, distinct, selected, listing>>

\* DynamicOrderingFilter, and the query that runs at last: an ordering joins
\* what it orders by, and DISTINCT compares the main row and those columns.
Order ==
  LET parsed == [i \in DOMAIN req.sort |-> ParseFilterPath(req.sort[i], req.scopes)]
      wrong == SelectInSeq(parsed, LAMBDA p : p.error # "none")
      columns == {OrmPath(p.parts) : p \in ToSet(parsed)}
      rows == {r \in QueryRows({c.joins : c \in q \cup columns}) :
                 \A c \in q : Holds(c, r[c.joins])}
      By(r) == {<<c, IF r[c.joins] = NoRow THEN Null ELSE Column(r[c.joins], c)>> :
                  c \in columns}
  IN  /\ status = "order"
      /\ IF wrong # 0 THEN Refuse(parsed[wrong].error)
         ELSE /\ listing' = {[row |-> r[<<>>], by |-> IF distinct THEN By(r) ELSE r] :
                               r \in rows}
              /\ status' = "ok"
              /\ UNCHANGED <<db, req, inputs, q, refusal, distinct, selected>>

Next ==
  \/ CheckPermission
  \/ LimitQueryset
  \/ ParseFilters
  \/ Compile
  \/ FilterQueryset
  \/ Order

Spec == Init /\ [][Next]_vars

(***************************************************************************)
(* Properties                                                               *)
(***************************************************************************)

\* No ordering follows a relation to many rows, or to one that has versions. The
\* code does not see to that.
SortsToOne ==
  \A r \in Requests : \A i \in DOMAIN r.sort :
    LET walk == ParseFilterPath(r.sort[i], r.scopes)
    IN  walk.error = "none" =>
          \A p \in ToSet(OrmPath(walk.parts).joins) : ~Many(p) /\ ~Loose(p)

\* A list shows an object once, whatever its filters and its ordering join:
\* is_many of the compiled filters and DISTINCT fit the joins of the query.
EachRowOnce ==
  status = "ok" =>
    \A e, f \in listing : e.row = f.row => e = f

\* What the documentation calls the value of a dotted path: the field of the
\* object that the relations lead to, or the identifiers of that object.
Named(parts, r) ==
  LET end == Last(parts)
      row == IF Kind(end) = "column" THEN r[Front(parts)] ELSE r[parts]
  IN  CASE row = NoRow -> Null
        [] row # NoRow /\ Kind(end) = "column" -> row[end.name]
        [] row # NoRow /\ Kind(end) = "composite" -> [i \in FieldOf(end).ids |-> row[i]]
        [] OTHER -> row[Identifier(TargetOf(end))]

\* The relations that a path follows, as the paths to where they lead.
Followed(parts) ==
  {SubSeq(parts, 1, i) : i \in {j \in DOMAIN parts : Kind(parts[j]) # "column"}}

\* A loose relation always refers to the last version of an object.
Outdated(p, r) == Loose(Last(p)) /\ r[p] # NoRow /\ ~r[p].current
Superseded(p, r) ==
  Outdated(p, r) /\ \E x \in Related(r[Front(p)], Last(p)) : x.current
Single(key) == Text(Given[key][1])
Several(key) ==
  IF key.lookup = "in" THEN ToSet(Given[key][1])
                       ELSE {Text(Given[key][i]) : i \in DOMAIN Given[key]}

\* The documented comparisons of a value v with one that is given: texts without
\* case, and a date as the whole day.
Alike(f, v, w) ==
  CASE f.type = "date-time" -> v.day = w.day /\ w.time \in {NoTime, v.time}
    [] f.type = "string" -> v.word = w.word
    [] f.type = "point" ->
         \E c \in DOMAIN Positions[v] : Positions[v][c] \in {<<w.x, w.y>>, <<w.y, w.x>>}
    [] OTHER -> v = w

After(v, w) ==
  IF v.is = "number" THEN v.n > w.n
  ELSE v.day > w.day \/ (w.time # NoTime /\ v.day = w.day /\ v.time > w.time)

\* The parameters that filter, with the paths of their names and the fields there.
Filters ==
  {LET parts == ParseFilterPath(k.path, req.scopes).parts
   IN  [key |-> k, parts |-> parts, field |-> FieldOf(Last(parts))] :
     k \in {n \in DOMAIN Given \ NonFilterParams :
              n.path[1] \notin Schema[Root].dimensions}}

\* What a filter sees of a choice r of the objects that the paths lead to: the value
\* of its path, and whether an object is missing on the way, or there is a later one.
Sight(f, r) ==
  [key |-> f.key, parts |-> f.parts, field |-> f.field, choice |-> r,
   value |-> Named(f.parts, r),
   missing |-> \E p \in Followed(f.parts) : r[p] = NoRow \/ Outdated(p, r),
   passed |-> \E p \in Followed(f.parts) : Superseded(p, r)]

\* The documented meaning of a filter (filtering.md) for what it sees.
Means(x) ==
  LET lookup == x.key.lookup
      v == x.value
      one == Single(x.key)
      Like(w) == Alike(x.field, v, w)
  IN  CASE lookup = "isnull" -> (v = Null) = one.b /\ ~x.passed
        [] lookup # "isnull" /\ x.missing -> FALSE
        [] lookup = "isempty" /\ ~x.missing -> (v = Null \/ v.word = "") = one.b
        [] lookup = "not" /\ ~x.missing -> v = Null \/ \A w \in Several(x.key) : ~Like(w)
        [] OTHER ->
             /\ v # Null
             /\ CASE lookup = "in" -> \E w \in Several(x.key) : Like(w)
                  [] lookup = "like" -> v.word \in one.words
                  [] lookup = "gt" -> After(v, one)
                  [] lookup = "lte" -> ~After(v, one)
                  [] lookup = "gte" -> After(v, one) \/ Like(one)
                  [] lookup = "lt" -> ~After(v, one) /\ ~Like(one)
                  [] lookup = "contains" ->
                       {w.word : w \in ToSet(Given[x.key][1])} \subseteq {w.word : w \in v}
                  [] OTHER -> Like(one)

\* Where the documentation leaves the meaning open, or the code is known to differ
\* from it (README): isnull of a field behind a version that is not the last one, or
\* of a date-time behind no version (parser.py:322); not and isempty without a related
\* object, and not for one of many; moments of in and not, whose time is ignored
\* (parser.py:381); the case of identifiers and of in.
Undecided(x) ==
  LET lookup == x.key.lookup
      end == Last(x.parts)
      moment == x.field.type = "date-time"
  IN  \/ /\ lookup = "isnull"
         /\ \E p \in Followed(x.parts) \ {x.parts} :
              \/ Outdated(p, x.choice) /\ ~(moment /\ Superseded(p, x.choice))
              \/ Loose(Last(p)) /\ x.choice[p] = NoRow /\ moment
      \/ lookup \in {"not", "isempty"} /\ x.missing /\ ~x.passed
      \/ /\ lookup = "not"
         /\ \E i \in DOMAIN x.parts : x.parts[i].reverse \/ Kind(x.parts[i]) \in ToMany
      \/ /\ lookup \in {"in", "not"} /\ moment /\ x.value # Null
         /\ \E w \in Several(x.key) :
              w.day = x.value.day /\ w.time \notin {NoTime, x.value.time}
      \/ /\ x.field.type = "string" /\ x.value # Null
         /\ lookup = "in" \/ Kind(end) # "column" \/ end.name = Identifier(end.table)
         /\ \E w \in Several(x.key) :
              w.is = "text" /\ w # x.value /\ w.word = x.value.word

Verdict(x) == IF Undecided(x) THEN "open" ELSE IF Means(x) THEN "holds" ELSE "fails"

\* What all filters say of an object, for every choice of the objects they lead to.
Verdicts(filters) ==
  {[row |-> r[<<>>], all |-> UNION {{Verdict(x) : x \in {Sight(f, r)}} : f \in filters}] :
     r \in QueryRows(UNION {Followed(f.parts) : f \in filters})}

\* The list has the objects for which all parameters hold together, for one choice
\* of the objects that their paths lead to, where the documentation says what that
\* means: neither the joins that are skipped or shared, nor the versions of loose
\* relations, nor the order in which the filters are compiled show in the answer.
AnswersAsDocumented ==
  status = "ok" =>
    \A filters \in {Filters} : \A verdicts \in {Verdicts(filters)} :
      /\ \A v \in verdicts : v.all \subseteq {"holds"} => \E e \in listing : e.row = v.row
      /\ \A e \in listing : \E v \in verdicts : e.row = v.row /\ "fails" \notin v.all

\* The columns that the ordering of the list compares.
OrderColumns ==
  IF status = "ok"
  THEN {OrmPath(ParseFilterPath(path, req.scopes).parts) : path \in ToSet(req.sort)}
  ELSE {}

\* No query reads or compares a column that the scopes of the request exclude,
\* save the primary key of the list itself; also not in its ordering, nor where a
\* stored identifier stands for a field of another table: such a query fails on
\* the database role after the API accepted it.
ColumnsPermitted ==
  /\ \A n \in selected \ PrimaryKey : HasFieldAccess(Fields(Root)[n])
  /\ \A c \in {d \in q : d.lookup # "current"} \cup OrderColumns :
       LET t == IF c.joins = <<>> THEN Root ELSE TargetOf(Last(c.joins))
           f == Fields(t)[c.column]
       IN  /\ f.filter \subseteq req.scopes
           /\ \A i \in f.ids : Fields(f.to)[i].filter \subseteq req.scopes
=============================================================================
