------------------------- MODULE TemporalSliceProofs -------------------------
(***************************************************************************)
(* Proofs about TemporalSlice, for all tables without overlapping versions, *)
(* all requests and any time between the queries.                           *)
(***************************************************************************)
EXTENDS TemporalSlice, TLAPS

Moment == MomentOf(req, now)

Types ==
  /\ data \in Databases /\ clock \in Moments /\ req \in Requests
  /\ now \in Moments \cup {NoSlice}
  /\ step \in {"initial", "query", "links", "bad request", "not found"}
  /\ todo \subseteq Relations
  /\ shown \in [main : SUBSET DOMAIN data.main, fk : SUBSET DOMAIN data.rel,
                loose : SUBSET DOMAIN data.rel, many : SUBSET DOMAIN data.rel]
  /\ DOMAIN links \subseteq shown.main

\* Nothing is shown before the moment is known, and it is one that is valid.
Started ==
  /\ step \in {"initial", "bad request"} =>
       /\ shown.main = {} /\ shown.fk = {} /\ shown.loose = {} /\ shown.many = {}
  /\ step # "links" => DOMAIN links = {} /\ todo = Relations
  /\ step \in {"query", "links", "not found"} => now \in Moments /\ req.slice # BadDate

\* All that follows the query comes from the slice of that one moment.
FromSlice ==
  /\ ~HasVersion(req) => shown.main \subseteq Slice(data.main, Moment)
  /\ req.pk = NoPk => shown.fk \subseteq Slice(data.rel, Moment)
  /\ shown.loose \subseteq Slice(data.rel, Moment)
  /\ shown.many \subseteq Slice(data.rel, Moment)

\* The links of the rows and the embedded section come from that same slice.
LinksKnown ==
  /\ \A k \in DOMAIN links : links[k] = data.main[k].many \cap Slice(data.rel, Moment)
  /\ Embedded("many") =>
       /\ DOMAIN links = shown.main
       /\ shown.many = Slice(data.rel, Moment) \cap UNION {data.main[k].many : k \in shown.main}

\* The rows answer the query, and the loose section has what they refer to, of
\* which a detail page shows one.
LooseObjects == {l \in Slice(data.rel, Moment) : l[1] \in LooseIds}

Answered ==
  /\ shown.main \subseteq Found(req, Moment)
  /\ Embedded("loose") =>
       /\ shown.loose \subseteq LooseObjects
       /\ LooseObjects # {} => shown.loose # {}
       /\ req.pk = NoPk => shown.loose = LooseObjects

IInv == Types /\ Started /\ FromSlice /\ LinksKnown /\ Answered

\* Of a table without overlapping versions, a moment selects one version of
\* an identifier: the reason for the half-open range of _compile_range_query.
LEMMA SliceSingle ==
  ASSUME NEW table, Disjoint(table), NEW t \in Int,
         \A k \in DOMAIN table : table[k].from \in Int /\ table[k].to \in Int \cup {Open}
  PROVE  SingleVersion(Slice(table, t))
<1>1. t # AllVersions
  BY MomentsAssumption
<1>2. SUFFICES ASSUME NEW k \in Slice(table, t), NEW l \in Slice(table, t),
                      k[1] = l[1], k # l
               PROVE  FALSE
  BY DEF SingleVersion
<1>3. k \in DOMAIN table /\ l \in DOMAIN table /\ Valid(table[k], t) /\ Valid(table[l], t)
  BY <1>1 DEF Slice
<1>4. Before(table[k], table[l]) \/ Before(table[l], table[k])
  BY <1>2, <1>3 DEF Disjoint
<1> QED
  BY <1>3, <1>4 DEF Valid, Before

\* What the assumption on the tables says of the tables in use.
LEMMA Tables ==
  ASSUME data \in Databases
  PROVE  /\ Disjoint(data.main) /\ Disjoint(data.rel)
         /\ \A k \in DOMAIN data.main :
              data.main[k].from \in Int /\ data.main[k].to \in Int \cup {Open}
         /\ \A k \in DOMAIN data.rel :
              data.rel[k].from \in Int /\ data.rel[k].to \in Int \cup {Open}
         /\ \A k \in DOMAIN data.main :
              data.main[k].fk \in DOMAIN data.rel \cup {NoObject}
  BY DatabasesAssumption

LEMMA InitIInv == Init => IInv
<1> SUFFICES ASSUME Init PROVE IInv
  OBVIOUS
<1>1. Types
  BY DEF Init, Types, Relations
<1>2. Started
  BY DEF Init, Started
<1>3. FromSlice
  BY DEF Init, FromSlice
<1>4. LinksKnown
  BY DEF Init, LinksKnown, Embedded, Relations
<1>5. Answered
  BY DEF Init, Answered, Embedded, Relations
<1> QED
  BY <1>1, <1>2, <1>3, <1>4, <1>5 DEF IInv

\* The slices of a request stay the same while its moment does.
LEMMA SameSlice ==
  ASSUME UNCHANGED <<data, req, now>>
  PROVE  /\ Slice(data.main, Moment)' = Slice(data.main, Moment)
         /\ Slice(data.rel, Moment)' = Slice(data.rel, Moment)
         /\ HasVersion(req)' = HasVersion(req)
  BY DEF Slice, Moment, MomentOf, Valid, HasVersion, IsDotted

\* So does the answer to its query, and what its rows refer to.
LEMMA SameAnswer ==
  ASSUME UNCHANGED <<data, req, now>>
  PROVE  /\ Found(req, Moment)' = Found(req, Moment)
         /\ shown'.main = shown.main => LooseObjects' = LooseObjects
<1>1. Moment' = Moment /\ Slice(data.main, Moment)' = Slice(data.main, Moment)
      /\ Slice(data.rel, Moment)' = Slice(data.rel, Moment) /\ HasVersion(req)' = HasVersion(req)
  BY SameSlice DEF Moment, MomentOf
<1>2. ASSUME NEW k, NEW name
      PROVE  Joins(k, name, Moment)' <=> Joins(k, name, Moment)
  BY <1>1 DEF Joins
<1>3. Rows(req, Moment)' = Rows(req, Moment)
  BY <1>1, <1>2 DEF Rows
<1>4. First(Rows(req, Moment))' = First(Rows(req, Moment))
  BY <1>3 DEF First
<1> QED
  BY <1>1, <1>3, <1>4 DEF Found, LooseObjects, LooseIds
\* Every query of a request preserves the invariant, by the action that makes it.
LEMMA NextIInv == IInv /\ [Next]_vars => IInv'
<1> SUFFICES ASSUME IInv, [Next]_vars PROVE IInv'
  OBVIOUS
<1> USE DEF IInv
<1>1. CASE Tick
  <2>0. clock' \in Moments
    <3>1. MaxMoment \in Nat
      BY MomentsAssumption
    <3>2. clock \in Moments
      BY DEF Types
    <3>3. clock < MaxMoment /\ clock' = clock + 1
      BY <1>1 DEF Tick
    <3> QED
      BY <3>1, <3>2, <3>3 DEF Moments
  <2>1. Types'
    BY <1>1, <2>0 DEF Tick, Types
  <2>2. Started'
    BY <1>1 DEF Tick, Started
  <2>3. FromSlice' /\ LinksKnown'
    BY <1>1, SameSlice DEF Tick, FromSlice, LinksKnown, Embedded
  <2>4. Answered'
    BY <1>1, SameAnswer DEF Tick, Answered, Embedded
  <2> QED
    BY <2>1, <2>2, <2>3, <2>4
<1>2. CASE Initial
  <2>1. Types'
    BY <1>2 DEF Initial, Types
  <2>2. Started'
    BY <1>2 DEF Initial, Started, Types
  <2>3. /\ UNCHANGED <<todo, shown, links>>
        /\ shown.main = {} /\ shown.fk = {} /\ shown.loose = {} /\ shown.many = {}
        /\ DOMAIN links = {} /\ "many" \in todo
    BY <1>2 DEF Initial, Started, Relations
  <2>4. FromSlice'
    BY <2>3 DEF FromSlice
  <2>5. LinksKnown'
    BY <2>3 DEF LinksKnown, Embedded
  <2>6. Answered'
    <3>1. "loose" \in todo
      BY <1>2 DEF Initial, Started, Relations
    <3> QED
      BY <2>3, <3>1 DEF Answered, Embedded
  <2> QED
    BY <2>1, <2>2, <2>4, <2>5, <2>6
<1>3. CASE Query
  <2> DEFINE found == Found(req, Moment)
  <2>1. /\ shown' = [shown EXCEPT !.main = found]
        /\ step = "query" /\ step' \in {"links", "not found"}
        /\ UNCHANGED <<data, clock, req, now, todo, links>>
    BY <1>3 DEF Query, Moment, RequestDate
  <2>2. /\ found \subseteq DOMAIN data.main
        /\ ~HasVersion(req) => found \subseteq Slice(data.main, Moment)
    BY DEF Found, First, Rows
  <2>3. DOMAIN links = {} /\ todo = Relations
    BY <2>1 DEF Started
  <2> HIDE DEF found
  <2>4. Types'
    BY <2>1, <2>2, <2>3 DEF Types
  <2>5. Started'
    BY <2>1, <2>3 DEF Started
  <2>6. FromSlice'
    BY <2>1, <2>2, SameSlice DEF FromSlice, Types
  <2>7. LinksKnown'
    BY <2>1, <2>3 DEF LinksKnown, Embedded, Relations
  <2>8. Answered'
    <3>1. shown'.main = found
      BY <2>1 DEF Types
    <3>2. found = Found(req, Moment)
      BY DEF found
    <3>3. ~Embedded("loose")'
      BY <2>1, <2>3 DEF Embedded, Relations
    <3> QED
      BY <2>1, <3>1, <3>2, <3>3, SameAnswer DEF Answered
  <2> QED
    BY <2>4, <2>5, <2>6, <2>7, <2>8
<1>4. CASE Link
  <2>1. PICK k \in shown.main \ DOMAIN links :
          links' = [l \in DOMAIN links \cup {k} |->
                      IF l = k THEN RowLinks(k, Moment) ELSE links[l]]
    BY <1>4 DEF Link, Moment, RequestDate
  <2>2. step = "links" /\ UNCHANGED <<data, clock, req, now, step, todo, shown>>
    BY <1>4 DEF Link
  <2>3. ~Embedded("many")
    BY <2>1 DEF LinksKnown
  <2>4. Types'
    BY <2>1, <2>2 DEF Types
  <2>5. Started'
    BY <2>2 DEF Started
  <2>6. FromSlice'
    BY <2>2, SameSlice DEF FromSlice
  <2>7. LinksKnown'
    BY <2>1, <2>2, <2>3, SameSlice DEF LinksKnown, Embedded, RowLinks
  <2>8. Answered'
    BY <2>2, SameAnswer DEF Answered, Embedded
  <2> QED
    BY <2>4, <2>5, <2>6, <2>7, <2>8
<1>5. ASSUME NEW rel \in Relations, Embed(rel) PROVE IInv'
  <2>1. step = "links" /\ todo' = todo \ {rel} /\ DOMAIN links = shown.main
        /\ UNCHANGED <<data, clock, req, now, step, links>>
    BY <1>5 DEF Embed
  <2>2. Slice(data.rel, Moment) \subseteq DOMAIN data.rel
    BY DEF Slice
  <2>3. CASE rel = "fk"
    <3> DEFINE keys == IF req.pk = NoPk THEN ForeignKeys \cap Slice(data.rel, Moment)
                       ELSE ForeignKeys \ {NoObject}
    <3>1. shown' = [shown EXCEPT !.fk = keys]
      BY <1>5, <2>3 DEF Embed, EmbedForeignKey, Moment, RequestDate
    <3>2. ForeignKeys \ {NoObject} \subseteq DOMAIN data.rel
      BY Tables DEF ForeignKeys, Types
    <3>3. keys \subseteq DOMAIN data.rel
          /\ (req.pk = NoPk => keys \subseteq Slice(data.rel, Moment))
      BY <2>2, <3>2
    <3> HIDE DEF keys
    <3>4. Types' /\ Started'
      BY <2>1, <3>1, <3>3 DEF Types, Started
    <3>5. FromSlice'
      BY <2>1, <3>1, <3>3, SameSlice DEF FromSlice, Types
    <3>6. LinksKnown'
      BY <2>1, <2>3, <3>1, SameSlice DEF LinksKnown, Embedded, Types
    <3>7. Answered'
      BY <2>1, <2>3, <3>1, SameAnswer DEF Answered, Embedded, Types
    <3> QED
      BY <3>4, <3>5, <3>6, <3>7
  <2>4. CASE rel = "loose"
    <3>0. PICK keys \in SUBSET LooseObjects :
            /\ shown' = [shown EXCEPT !.loose = keys]
            /\ LooseObjects # {} => keys # {}
            /\ req.pk = NoPk => keys = LooseObjects
      <4>1. EmbedLoose(Moment)
        BY <1>5, <2>4 DEF Embed, Moment, RequestDate
      <4>2. \/ shown' = [shown EXCEPT !.loose = LooseObjects]
            \/ req.pk # NoPk /\ \E l \in LooseObjects : shown' = [shown EXCEPT !.loose = {l}]
        BY <4>1 DEF EmbedLoose, LooseObjects
      <4> HIDE DEF LooseObjects
      <4> QED
        BY <4>2
    <3>1. keys \in SUBSET Slice(data.rel, Moment) /\ shown' = [shown EXCEPT !.loose = keys]
      BY <3>0 DEF LooseObjects
    <3>2. Types' /\ Started'
      BY <2>1, <2>2, <3>1 DEF Types, Started
    <3>3. FromSlice'
      BY <2>1, <3>1, SameSlice DEF FromSlice, Types
    <3>4. LinksKnown'
      BY <2>1, <2>4, <3>1, SameSlice DEF LinksKnown, Embedded, Types
    <3>5. Answered'
      <4>1. shown'.main = shown.main /\ shown'.loose = keys
        BY <3>0 DEF Types
      <4>2. LooseObjects' = LooseObjects /\ Found(req, Moment)' = Found(req, Moment)
        BY <2>1, <4>1, SameAnswer
      <4> QED
        BY <2>1, <3>0, <4>1, <4>2 DEF Answered
    <3> QED
      BY <3>2, <3>3, <3>4, <3>5
  <2>5. CASE rel = "many"
    <3> DEFINE keys ==
          Slice(data.rel, Moment) \cap UNION {data.main[k].many : k \in shown.main}
    <3>1. shown' = [shown EXCEPT !.many = keys]
      BY <1>5, <2>5 DEF Embed, EmbedMany, Moment, RequestDate
    <3>2. keys \subseteq Slice(data.rel, Moment)
      OBVIOUS
    <3>3. LinksKnown'
      BY <2>1, <3>1, SameSlice DEF LinksKnown, Embedded, Types
    <3> HIDE DEF keys
    <3>4. Types' /\ Started'
      BY <2>1, <2>2, <3>1, <3>2 DEF Types, Started
    <3>5. FromSlice'
      BY <2>1, <3>1, <3>2, SameSlice DEF FromSlice, Types
    <3>6. Answered'
      BY <2>1, <2>5, <3>1, SameAnswer DEF Answered, Embedded, Types
    <3> QED
      BY <3>3, <3>4, <3>5, <3>6
  <2> QED
    BY <2>3, <2>4, <2>5 DEF Relations
<1>6. CASE UNCHANGED vars
  <2>1. Types' /\ Started'
    BY <1>6 DEF vars, Types, Started
  <2>2. FromSlice' /\ LinksKnown'
    BY <1>6, SameSlice DEF vars, FromSlice, LinksKnown, Embedded
  <2>3. Answered'
    BY <1>6, SameAnswer DEF vars, Answered, Embedded
  <2> QED
    BY <2>1, <2>2, <2>3
<1> QED
  BY <1>1, <1>2, <1>3, <1>4, <1>5, <1>6 DEF Next

THEOREM Invariance == Spec => []IInv
  BY InitIInv, NextIInv, PTL DEF Spec

\* A date that selects is a moment: it is never "*", and no request with a
\* bad date shows anything.
LEMMA Selecting ==
  ASSUME IInv, req.slice # AllVersions
  PROVE  \/ /\ Moment \in Moments
            /\ req.slice \in Moments => Moment = req.slice
         \/ FollowingMain = {} /\ FollowingRel = {}
<1>1. CASE step \in {"query", "links", "not found"}
  <2>1. req.slice \in Moments \cup {NoSlice}
    BY <1>1 DEF IInv, Types, Started, Requests
  <2>2. now \in Moments
    BY <1>1 DEF IInv, Started
  <2>3. NoSlice \notin Moments
    BY MomentsAssumption DEF Moments
  <2> QED
    BY <2>1, <2>2, <2>3 DEF Moment, MomentOf
<1>2. CASE step \in {"initial", "bad request"}
  BY <1>2 DEF IInv, Types, Started, FollowingMain, FollowingRel
<1> QED
  BY <1>1, <1>2 DEF IInv, Types

LEMMA FollowingSliced ==
  ASSUME IInv
  PROVE  /\ FollowingMain \subseteq Slice(data.main, Moment)
         /\ FollowingRel \subseteq Slice(data.rel, Moment)
<1>1. FollowingMain \subseteq Slice(data.main, Moment)
  BY DEF IInv, FromSlice, FollowingMain
<1>2. FollowingRel \subseteq Slice(data.rel, Moment)
  <2>1. SUFFICES ASSUME NEW x \in FollowingRel PROVE x \in Slice(data.rel, Moment)
    OBVIOUS
  <2>2. \/ x \in shown.loose
        \/ x \in shown.many
        \/ req.pk = NoPk /\ x \in shown.fk
        \/ \E k \in DOMAIN links : x \in links[k]
    BY <2>1 DEF FollowingRel
  <2> QED
    BY <2>2 DEF IInv, FromSlice, LinksKnown
<1> QED
  BY <1>1, <1>2

\* The answer only holds keys of the tables.
THEOREM TypeCorrect == Spec => []TypeOK
<1>1. IInv => TypeOK
  BY DEF IInv, Types, TypeOK
<1> QED
  BY <1>1, Invariance, PTL

\* However long a request takes, one moment explains all that it shows.
THEOREM OneMomentAlways == Spec => []OneMoment
<1>1. ASSUME IInv, req.slice # AllVersions
      PROVE  \E t \in Moments :
               /\ req.slice \in Moments => t = req.slice
               /\ \A k \in FollowingMain : Valid(data.main[k], t)
               /\ \A k \in FollowingRel : Valid(data.rel[k], t)
  <2>1. CASE Moment \in Moments /\ (req.slice \in Moments => Moment = req.slice)
    <3>1. Moment # AllVersions
      BY <2>1, MomentsAssumption DEF Moments
    <3>2. /\ \A k \in FollowingMain : Valid(data.main[k], Moment)
          /\ \A k \in FollowingRel : Valid(data.rel[k], Moment)
      BY <1>1, <3>1, FollowingSliced DEF Slice
    <3> QED
      BY <2>1, <3>2
  <2>2. CASE FollowingMain = {} /\ FollowingRel = {}
    <3>1. 0 \in Moments
      BY MomentsAssumption DEF Moments
    <3> QED
      BY <2>2, <3>1
  <2> QED
    BY <1>1, <2>1, <2>2, Selecting
<1>2. IInv => OneMoment
  BY <1>1 DEF OneMoment
<1> QED
  BY <1>2, Invariance, PTL

\* No identifier is shown in two versions, whatever the tables hold.
THEOREM OneVersionAlways == Spec => []OneVersion
<1>1. ASSUME IInv, req.slice # AllVersions
      PROVE  SingleVersion(FollowingMain) /\ SingleVersion(FollowingRel)
  <2>1. CASE Moment \in Moments
    <3>1. Moment \in Int
      BY <2>1, MomentsAssumption DEF Moments
    <3>2. SingleVersion(Slice(data.main, Moment)) /\ SingleVersion(Slice(data.rel, Moment))
      BY <1>1, <3>1, SliceSingle, Tables DEF IInv, Types
    <3> QED
      BY <1>1, <3>2, FollowingSliced DEF SingleVersion
  <2>2. CASE FollowingMain = {} /\ FollowingRel = {}
    BY <2>2 DEF SingleVersion
  <2> QED
    BY <1>1, <2>1, <2>2, Selecting
<1>2. IInv => OneVersion
  BY <1>1 DEF OneVersion
<1> QED
  BY <1>2, Invariance, PTL

\* The embedded many-to-many section is what the links of the rows name.
THEOREM SectionsMatchLinksAlways == Spec => []SectionsMatchLinks
<1>1. IInv => SectionsMatchLinks
  BY DEF IInv, LinksKnown, SectionsMatchLinks
<1> QED
  BY <1>1, Invariance, PTL
\* The rows of a detail page are one version of one identifier.
LEMMA DetailIsOne ==
  ASSUME data \in Databases, NEW r, r.pk # NoPk, NEW t,
         NEW k \in Found(r, t), NEW l \in Found(r, t)
  PROVE  k = l
<1>1. /\ k \in DOMAIN data.main /\ l \in DOMAIN data.main
      /\ r.pk \in {k, <<k[1]>>} /\ r.pk \in {l, <<l[1]>>}
      /\ k[2] <= l[2] /\ l[2] <= k[2]
  BY DEF Found, First, Rows
<1>2. k = <<k[1], k[2]>> /\ l = <<l[1], l[2]>> /\ k[2] \in Int /\ l[2] \in Int
  BY <1>1, KeysAssumption
<1>3. k[2] = l[2]
  BY <1>1, <1>2
<1>4. k[1] = l[1]
  <2>1. CASE r.pk = k /\ r.pk = l
    BY <2>1
  <2>2. CASE r.pk = <<k[1]>> /\ r.pk = <<l[1]>>
    BY <2>2
  <2>3. CASE r.pk = k /\ r.pk = <<l[1]>>
    <3>1. <<k[1], k[2]>> = <<l[1]>>
      BY <1>2, <2>3
    <3> QED
      BY <3>1
  <2>4. CASE r.pk = <<k[1]>> /\ r.pk = l
    <3>1. <<l[1], l[2]>> = <<k[1]>>
      BY <1>2, <2>4
    <3> QED
      BY <3>1
  <2> QED
    BY <1>1, <2>1, <2>2, <2>3, <2>4
<1> QED
  BY <1>2, <1>3, <1>4

\* A filter on the name of a loose relation finds the version that is shown.
LEMMA NamedVersion ==
  ASSUME IInv, req.name # NoName, NEW k \in shown.main
  PROVE  \E l \in LooseObjects : l[1] = data.main[k].loose /\ data.rel[l].name = req.name
<1>1. k \in Rows(req, Moment)
  BY DEF IInv, Answered, Found, First
<1>2. Joins(k, req.name, Moment)
  BY <1>1 DEF Rows
<1>3. data.main[k].loose \in LooseIds
  BY DEF LooseIds
<1> QED
  BY <1>2, <1>3 DEF Joins, LooseObjects

\* A row that a filter through a loose relation let pass is shown with the
\* version that has the name, for all tables and requests.
THEOREM FilteredIsShownAlways == Spec => []FilteredIsShown
<1>1. ASSUME IInv, req.name # NoName, Embedded("loose"), NEW k \in shown.main
      PROVE  \E l \in shown.loose :
               /\ l[1] = data.main[k].loose
               /\ req.slice # AllVersions => data.rel[l].name = req.name
  <2>1. PICK l \in LooseObjects : l[1] = data.main[k].loose /\ data.rel[l].name = req.name
    BY <1>1, NamedVersion
  <2>2. CASE req.pk = NoPk
    BY <1>1, <2>1, <2>2 DEF IInv, Answered
  <2>3. CASE req.pk # NoPk
    <3>1. PICK m \in shown.loose : m \in LooseObjects
      BY <1>1, <2>1 DEF IInv, Answered
    <3>2. PICK j \in shown.main : m[1] = data.main[j].loose
      BY <3>1 DEF LooseObjects, LooseIds
    <3>3. j = k
      BY <1>1, <2>3, DetailIsOne DEF IInv, Types, Answered
    <3>4. ASSUME req.slice # AllVersions
          PROVE  m = l
      <4>1. Moment \in Moments
        BY <1>1, <3>4, Selecting DEF FollowingRel
      <4>2. Moment \in Int
        BY <4>1, MomentsAssumption DEF Moments
      <4>3. SingleVersion(Slice(data.rel, Moment))
        BY <1>1, <4>2, SliceSingle, Tables DEF IInv, Types
      <4> QED
        BY <2>1, <3>1, <3>2, <3>3, <4>3 DEF SingleVersion, LooseObjects
    <3> QED
      BY <2>1, <3>1, <3>2, <3>3, <3>4
  <2> QED
    BY <2>2, <2>3
<1>2. IInv => FilteredIsShown
  BY <1>1 DEF FilteredIsShown
<1> QED
  BY <1>2, Invariance, PTL

\* What a link without filters finds: the versions of an identifier, or one.
LEMMA LinkFinds ==
  ASSUME data \in Databases, NEW k \in DOMAIN data.main, NEW link, NEW t,
         link.name = NoName, link.pk \in {k, <<k[1]>>},
         link.version \in {NoVersion, k[2]},
         link.pk = k \/ link.version = k[2] \/ (t \in Int /\ Valid(data.main[k], t))
  PROVE  Found(link, t) = {k}
<1>1. /\ k = <<k[1], k[2]>> /\ k[2] \in Int /\ link.pk # NoPk /\ k[2] # NoVersion
      /\ Len(<<k[1], k[2]>>) = 2 /\ Len(<<k[1]>>) = 1
  BY KeysAssumption
<1>2. HasVersion(link) <=> link.pk = k \/ link.version = k[2]
  BY <1>1 DEF HasVersion, IsDotted
<1>3. k \in Rows(link, t)
  BY <1>2 DEF Rows, Slice
<1>4. ASSUME NEW l \in Rows(link, t)
      PROVE  l = k
  <2>1. /\ l \in DOMAIN data.main /\ link.pk \in {l, <<l[1]>>}
        /\ l = <<l[1], l[2]>>
    BY KeysAssumption DEF Rows
  <2>2. CASE link.pk = k
    <3>1. k # <<l[1]>>
      <4>1. <<k[1], k[2]>> # <<l[1]>>
        OBVIOUS
      <4> QED
        BY <1>1, <4>1
    <3> QED
      BY <2>1, <2>2, <3>1
  <2>3. CASE link.pk = <<k[1]>> /\ link.pk # k
    <3>1. l[1] = k[1]
      <4>1. <<l[1], l[2]>> # <<k[1]>>
        OBVIOUS
      <4> QED
        BY <2>1, <2>3, <4>1
    <3>2. CASE link.version = k[2]
      <4>1. l[2] = k[2]
        BY <1>1, <3>2 DEF Rows
      <4> QED
        BY <1>1, <2>1, <3>1, <4>1
    <3>3. CASE link.version # k[2]
      <4>1. t \in Int /\ t # AllVersions /\ k \in Slice(data.main, t) /\ l \in Slice(data.main, t)
        BY <1>2, <2>3, <3>3, MomentsAssumption DEF Rows, Slice
      <4>2. SingleVersion(Slice(data.main, t))
        BY <4>1, SliceSingle, Tables
      <4> QED
        BY <3>1, <4>1, <4>2 DEF SingleVersion
    <3> QED
      BY <3>2, <3>3
  <2> QED
    BY <2>2, <2>3
<1>5. Rows(link, t) = {k}
  BY <1>3, <1>4
<1>6. First({k}) = {k}
  BY <1>1 DEF First
<1> QED
  BY <1>1, <1>5, <1>6 DEF Found

\* The self link of a row leads back to that row whenever it is followed, for
\* all tables without overlapping versions (TemporalHyperlinkedRelatedField).
THEOREM SelfLinksReturnAlways == Spec => []SelfLinksReturn
<1>1. ASSUME IInv, req.slice # AllVersions,
             IsDotted(req) \/ req.version = NoVersion \/ req.slice = NoSlice,
             NEW k \in shown.main, NEW later \in clock .. MaxMoment
      PROVE  LET link == SelfLink(req, k) IN Found(link, MomentOf(link, later)) = {k}
  <2> DEFINE link == SelfLink(req, k)
             t == MomentOf(link, later)
  <2>1. data \in Databases /\ k \in DOMAIN data.main
    BY <1>1 DEF IInv, Types
  <2>2. CASE IsDotted(req)
    <3>1. link = [Plain EXCEPT !.pk = k]
      BY <2>2 DEF SelfLink
    <3>2. link.pk = k /\ link.name = NoName /\ link.version = NoVersion
      BY <3>1 DEF Plain
    <3> HIDE DEF link, t
    <3>3. Found(link, t) = {k}
      BY <2>1, <3>2, LinkFinds
    <3> QED
      BY <3>3 DEF link, t
  <2>3. CASE ~IsDotted(req) /\ req.slice # NoSlice
    <3>1. link = [Plain EXCEPT !.pk = <<k[1]>>, !.slice = req.slice]
      BY <2>3 DEF SelfLink
    <3>2. link.pk = <<k[1]>> /\ link.name = NoName /\ link.version = NoVersion
          /\ link.slice = req.slice
      BY <3>1 DEF Plain
    <3>3. t = req.slice /\ t = Moment
      BY <2>3, <3>2 DEF MomentOf, Moment
    <3>4. ~HasVersion(req)
      BY <1>1, <2>3 DEF HasVersion
    <3>5. t \in Int
      <4>1. FollowingMain # {}
        BY <3>4 DEF FollowingMain
      <4>2. Moment \in Moments
        BY <1>1, <4>1, Selecting
      <4> QED
        BY <3>3, <4>2, MomentsAssumption DEF Moments
    <3>6. Valid(data.main[k], t)
      <4>1. k \in Slice(data.main, Moment)
        BY <1>1, <3>4 DEF IInv, FromSlice
      <4> QED
        BY <1>1, <3>3, <4>1 DEF Slice
    <3> HIDE DEF link, t
    <3>7. Found(link, t) = {k}
      BY <2>1, <3>2, <3>5, <3>6, LinkFinds
    <3> QED
      BY <3>7 DEF link, t
  <2>4. CASE ~IsDotted(req) /\ req.slice = NoSlice
    <3>1. link = [Plain EXCEPT !.pk = <<k[1]>>, !.version = k[2]]
      BY <2>4 DEF SelfLink
    <3>2. link.pk = <<k[1]>> /\ link.name = NoName /\ link.version = k[2]
      BY <3>1 DEF Plain
    <3> HIDE DEF link, t
    <3>3. Found(link, t) = {k}
      BY <2>1, <3>2, LinkFinds
    <3> QED
      BY <3>3 DEF link, t
  <2> QED
    BY <2>2, <2>3, <2>4
<1>2. IInv => SelfLinksReturn
  BY <1>1 DEF SelfLinksReturn
<1> QED
  BY <1>2, Invariance, PTL
=============================================================================
