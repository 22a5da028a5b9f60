---------------------------- MODULE TemporalSlice ----------------------------
(***************************************************************************)
(* Which versions of temporal objects one request shows: the main list or   *)
(* detail page (views/api.py), the links to a many-to-many relation, and    *)
(* the embedded sections (serializers/base.py), that all take the moment of *)
(* the request from TemporalTableQuery (temporal.py).                       *)
(*                                                                          *)
(* There is a main table and a related one, both temporal, with the same    *)
(* dimension. A key is <<identifier, version>>. A main object has a foreign *)
(* key to one version (fk), a loose relation to an identifier (loose), and  *)
(* a many-to-many relation to versions (many). Time passes between queries. *)
(***************************************************************************)
EXTENDS Integers, Sequences

CONSTANTS
  Databases,       \* contents of the tables: [main, rel], functions of keys
  MaxMoment,       \* bound on the clock
  Pks,             \* values of pk in the URL: <<identifier>> or a key
  Versions, Names, \* values of ?volgnummer and of the filter on the name
  Open,            \* the empty end of a validity interval
  NoPk, NoVersion, NoSlice, NoName, NoObject,   \* what is absent
  AllVersions,     \* the slice "*"
  BadDate          \* a slice that is no date

VARIABLES
  data,   \* the tables, that do not change during the request
  clock,  \* the moment it is
  req,    \* the request: [pk, version, slice, name]
  now,    \* request._now
  step,   \* what comes next in the request, or how it ended
  todo,   \* the relations that are still to be embedded
  shown,  \* the keys shown: of the main table, and of each embedded relation
  links   \* of each main key shown, its links to the many-to-many relation

vars == <<data, clock, req, now, step, todo, shown, links>>

Moments == 0 .. MaxMoment
Relations == {"fk", "loose", "many"}

Requests ==
  [pk : Pks \cup {NoPk}, version : Versions \cup {NoVersion},
   slice : Moments \cup {NoSlice, AllVersions, BadDate}, name : Names \cup {NoName}]

\* The versions of an identifier do not overlap, and foreign keys exist.
Before(v, w) == v.to # Open /\ v.to <= w.from
Disjoint(table) ==
  \A k, l \in DOMAIN table :
    k[1] = l[1] /\ k # l => Before(table[k], table[l]) \/ Before(table[l], table[k])

ASSUME DatabasesAssumption ==
  \A db \in Databases :
    /\ Disjoint(db.main) /\ Disjoint(db.rel)
    /\ \A v \in {db.main[k] : k \in DOMAIN db.main} \cup {db.rel[k] : k \in DOMAIN db.rel} :
         v.from \in Int /\ v.to \in Int \cup {Open}
    /\ \A k \in DOMAIN db.main :
         /\ db.main[k].fk \in DOMAIN db.rel \cup {NoObject}
         /\ db.main[k].many \subseteq DOMAIN db.rel

\* A key has an identifier and a version, and is never what is absent.
ASSUME KeysAssumption ==
  \A db \in Databases : \A k \in DOMAIN db.main :
    /\ k = <<k[1], k[2]>>
    /\ k[2] \in Int \ {NoVersion}
    /\ NoPk \notin {k, <<k[1]>>}

ASSUME MomentsAssumption ==
  MaxMoment \in Nat /\ Open \notin Int
  /\ {NoSlice, AllVersions, BadDate} \cap Int = {}
  /\ AllVersions \notin {NoSlice, BadDate}

(***************************************************************************)
(* TemporalTableQuery: the moment of a request and what is valid then.      *)
(***************************************************************************)
IsDotted(r) == r.pk # NoPk /\ Len(r.pk) = 2
HasVersion(r) == r.version # NoVersion \/ IsDotted(r)

\* Mutant: now() for every query.
RequestDateAgain == clock

RequestDate == now

MomentOf(r, date) == IF r.slice = NoSlice THEN date ELSE r.slice

\* Mutant: the end of the interval is included.
ValidClosed(v, t) == v.from <= t /\ (v.to = Open \/ t <= v.to)

Valid(v, t) == v.from <= t /\ (v.to = Open \/ t < v.to)

Slice(table, t) == {k \in DOMAIN table : t # AllVersions => Valid(table[k], t)}

(***************************************************************************)
(* The main query: the slice, unless a version is given, and the filters.   *)
(* The filter on the name of the loose relation joins its slice only.       *)
(***************************************************************************)
\* Mutant: the filter joins all versions.
JoinsAnyVersion(k, name, t) ==
  \E l \in DOMAIN data.rel : l[1] = data.main[k].loose /\ data.rel[l].name = name

Joins(k, name, t) ==
  \E l \in Slice(data.rel, t) : l[1] = data.main[k].loose /\ data.rel[l].name = name

Rows(r, t) ==
  {k \in DOMAIN data.main :
     /\ ~HasVersion(r) => k \in Slice(data.main, t)
     /\ r.version # NoVersion => k[2] = r.version
     /\ r.name # NoName => Joins(k, r.name, t)
     /\ r.pk # NoPk => r.pk \in {k, <<k[1]>>}}

\* order_by().first(): the first row of a detail page, by primary key.
First(rows) == {k \in rows : \A l \in rows : k[2] <= l[2]}

Found(r, t) == IF r.pk = NoPk THEN Rows(r, t) ELSE First(Rows(r, t))

(***************************************************************************)
(* TemporalHyperlinkedRelatedField: the request that a self link makes.     *)
(***************************************************************************)
Plain == [pk |-> NoPk, version |-> NoVersion, slice |-> NoSlice, name |-> NoName]

\* Mutant: a link without a query leads to the current version.
SelfLinkUnversioned(r, k) ==
  IF IsDotted(r) THEN [Plain EXCEPT !.pk = k]
  ELSE [Plain EXCEPT !.pk = <<k[1]>>, !.slice = r.slice]

SelfLink(r, k) ==
  IF IsDotted(r) THEN [Plain EXCEPT !.pk = k]
  ELSE IF r.slice # NoSlice THEN [Plain EXCEPT !.pk = <<k[1]>>, !.slice = r.slice]
  ELSE [Plain EXCEPT !.pk = <<k[1]>>, !.version = k[2]]

(***************************************************************************)
(* The links of a row, and what each relation embeds.                       *)
(***************************************************************************)
\* Mutant: all entries of the through table.
RowLinksAll(k, t) == data.main[k].many

RowLinks(k, t) == data.main[k].many \cap Slice(data.rel, t)

ForeignKeys == {data.main[k].fk : k \in shown.main}
LooseIds == {data.main[k].loose : k \in shown.main}

\* Mutant: an empty foreign key is embedded like the others.
EmbedForeignKeyEmpty(t) ==
  shown' = [shown EXCEPT !.fk =
    IF req.pk = NoPk THEN ForeignKeys \cap Slice(data.rel, t) ELSE ForeignKeys]

\* A detail page embeds the object that its links have loaded already.
EmbedForeignKey(t) ==
  shown' = [shown EXCEPT !.fk =
    IF req.pk = NoPk THEN ForeignKeys \cap Slice(data.rel, t) ELSE ForeignKeys \ {NoObject}]

\* A list embeds all that is found, a detail page the first of it.
EmbedLoose(t) ==
  LET found == {l \in Slice(data.rel, t) : l[1] \in LooseIds}
  IN  IF req.pk = NoPk \/ found = {}
      THEN shown' = [shown EXCEPT !.loose = found]
      ELSE \E l \in found : shown' = [shown EXCEPT !.loose = {l}]

EmbedMany(t) ==
  shown' = [shown EXCEPT !.many =
    Slice(data.rel, t) \cap UNION {data.main[k].many : k \in shown.main}]
-----------------------------------------------------------------------------
Init ==
  /\ data \in Databases
  /\ clock \in Moments
  /\ req \in Requests
  /\ now = NoSlice
  /\ step = "initial"
  /\ todo = Relations
  /\ shown = [main |-> {}, fk |-> {}, loose |-> {}, many |-> {}]
  /\ links = [k \in {} |-> {}]

\* Time passes, also while the request runs.
Tick ==
  /\ clock < MaxMoment
  /\ clock' = clock + 1
  /\ UNCHANGED <<data, req, now, step, todo, shown, links>>

\* DynamicApiViewSet.initial: the first use of the date of the request.
Initial ==
  /\ step = "initial"
  /\ now' = clock
  /\ step' = IF req.slice = BadDate THEN "bad request" ELSE "query"
  /\ UNCHANGED <<data, clock, req, todo, shown, links>>

\* The query for the main list or for the object of a detail page.
Query ==
  /\ step = "query"
  /\ LET found == Found(req, MomentOf(req, RequestDate))
     IN  /\ shown' = [shown EXCEPT !.main = found]
         /\ step' = IF req.pk # NoPk /\ found = {} THEN "not found" ELSE "links"
  /\ UNCHANGED <<data, clock, req, now, todo, links>>

\* The _links section of a next row.
Link ==
  /\ step = "links"
  /\ \E k \in shown.main \ DOMAIN links :
       links' = [l \in DOMAIN links \cup {k} |->
                   IF l = k THEN RowLinks(k, MomentOf(req, RequestDate)) ELSE links[l]]
  /\ UNCHANGED <<data, clock, req, now, step, todo, shown>>

\* The query of one embedded section, after the rows.
Embed(rel) ==
  /\ step = "links"
  /\ DOMAIN links = shown.main
  /\ rel \in todo
  /\ todo' = todo \ {rel}
  /\ LET t == MomentOf(req, RequestDate)
     IN  CASE rel = "fk" -> EmbedForeignKey(t)
           [] rel = "loose" -> EmbedLoose(t)
           [] rel = "many" -> EmbedMany(t)
  /\ UNCHANGED <<data, clock, req, now, step, links>>

Next == Tick \/ Initial \/ Query \/ Link \/ \E rel \in Relations : Embed(rel)

Spec == Init /\ [][Next]_vars
-----------------------------------------------------------------------------
Embedded(rel) == rel \notin todo

\* What is shown are versions that exist, and rows whose links are read (the
\* part of the type invariant that EmbedForeignKey could break).
TypeOK ==
  /\ clock \in Moments /\ now \in Moments \cup {NoSlice}
  /\ step \in {"initial", "query", "links", "bad request", "not found"}
  /\ todo \subseteq Relations
  /\ shown.main \subseteq DOMAIN data.main
  /\ shown.fk \cup shown.loose \cup shown.many \subseteq DOMAIN data.rel
  /\ DOMAIN links \subseteq shown.main

\* What follows the query of the request: everything but a main object that
\* was asked for by its version, and the foreign key of a detail page.
FollowingMain == IF HasVersion(req) THEN {} ELSE shown.main
FollowingRel ==
  (UNION {links[k] : k \in DOMAIN links})
    \cup shown.loose \cup shown.many \cup {k \in shown.fk : req.pk = NoPk}

\* "The temporal data of one specific moment is returned": there is a moment
\* at which everything that follows the query was valid, however long the
\* request takes (get_request_date keeps the first date).
OneMoment ==
  req.slice # AllVersions =>
    \E t \in Moments :
      /\ req.slice \in Moments => t = req.slice
      /\ \A k \in FollowingMain : Valid(data.main[k], t)
      /\ \A k \in FollowingRel : Valid(data.rel[k], t)

SingleVersion(keys) == \A k, l \in keys : k[1] = l[1] => k = l

\* No identifier is shown in two versions, also not at the moment where one
\* version replaces the other (the half-open range of _compile_range_query).
OneVersion ==
  req.slice # AllVersions => SingleVersion(FollowingMain) /\ SingleVersion(FollowingRel)

\* The embedded section of a many-to-many relation holds what the links of
\* the rows name, no more and no less (DynamicListSerializer.get_attribute).
SectionsMatchLinks ==
  step = "links" /\ DOMAIN links = shown.main /\ Embedded("many") =>
    shown.many = UNION {links[k] : k \in DOMAIN links}

\* A filter through a loose relation matches the version that is embedded,
\* not an older one that had the name (_create_temporal_filters).
FilteredIsShown ==
  req.name # NoName /\ Embedded("loose") =>
    \A k \in shown.main :
      \E l \in shown.loose :
        l[1] = data.main[k].loose
          /\ (req.slice # AllVersions => data.rel[l].name = req.name)

\* The self link of a row leads to that row, whenever it is followed. Left
\* out are all versions and a version with a slice, whose links repeat only
\* the slice.
SelfLinksReturn ==
  /\ req.slice # AllVersions
  /\ IsDotted(req) \/ req.version = NoVersion \/ req.slice = NoSlice
  => \A k \in shown.main, later \in clock .. MaxMoment :
         LET link == SelfLink(req, k) IN Found(link, MomentOf(link, later)) = {k}
=============================================================================
