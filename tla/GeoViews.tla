------------------------------ MODULE GeoViews ------------------------------
(***************************************************************************)
(* The geographical views of one dataset: a vector tile of a table          *)
(* (DatasetMVTView on StreamingMVTView), which PostgreSQL makes in one      *)
(* piece and cuts into chunks, and the rows of WFS feature types            *)
(* (DatasetWFSView), of which there is one for every geometry of a table.   *)
(* A tile is the sequence of its octets, numbered from 1.                   *)
(***************************************************************************)
EXTENDS Integers, SequencesExt

CONSTANTS
  Tables,     \* Tables[t]: [fields, main, auth, zoom], the fields in their order
  Requests,   \* the requests, of view "tile" or "wfs"
  Chunk,      \* CHUNK_SIZE
  MaxOctets,  \* the largest tile
  LayerZoom   \* the zoom levels for which layers have data

VARIABLES
  req,       \* the request
  status,    \* how far it is, or the status of the response
  layer,     \* the fields that the tile shows of every feature
  octets,    \* the size of the tile that the database made
  at,        \* where the next chunk starts, 0 after the last one
  body,      \* the octets that are sent
  features   \* the feature types that are asked for, with their fields

tileVars == <<layer, octets, at, body>>
vars == <<req, status, tileVars, features>>

ASSUME ChunkAssumption == Chunk \in Nat \ {0} /\ MaxOctets \in Nat

ASSUME TablesAssumption ==
  \A t \in DOMAIN Tables :
    /\ Tables[t].fields \in Seq(ToSet(Tables[t].fields))
    /\ \A f \in ToSet(Tables[t].fields) :
         /\ f.name # ""
         /\ \/ f.kind \in {"column", "geometry"}
            \/ f.kind \in {"fk", "m2m", "reverse"} /\ f.to \in DOMAIN Tables

Fields(t) == Tables[t].fields

\* The fields that are in S, in their order.
Only(fields, S) ==
  FlattenSeq([i \in DOMAIN fields |-> IF fields[i] \in S THEN <<fields[i]>> ELSE <<>>])

FieldsOf(t, kind) == {f \in ToSet(Fields(t)) : f.kind = kind}
Main(t) == {f \in ToSet(Fields(t)) : f.name = Tables[t].main}
MayRead(f) == f.auth \subseteq req.scopes
MayReadModels(models) == \A t \in models : Tables[t].auth \subseteq req.scopes

Init ==
  /\ req \in Requests
  /\ status = "setup"
  /\ layer = <<>>
  /\ octets = 0
  /\ at = 1
  /\ body = <<>>
  /\ features = <<>>

Answer(code) ==
  /\ status' = code
  /\ UNCHANGED <<req, tileVars, features>>

(***************************************************************************)
(* Vector tiles.                                                            *)
(***************************************************************************)

\* DatasetMVTView.setup
SetupTile ==
  /\ status = "setup"
  /\ req.view = "tile"
  /\ IF req.table \notin DOMAIN Tables THEN Answer("404")
     ELSE IF MayReadModels({req.table}) /\ \A f \in Main(req.table) : MayRead(f)
     THEN Answer("layer")
     ELSE Answer("403")

\* _create_layer: the identifiers, and what else may be shown at this level.
CreateLayer ==
  LET table == Tables[req.table]
      fields == ToSet(table.fields)
      idents == {f \in fields : f.ident}
      shown == {f \in fields \ (idents \cup Main(req.table)) :
                  MayRead(f) /\ req.zoom \in table.zoom /\ ~f.rla}
      Names(fs) == [i \in DOMAIN fs |-> fs[i].name]
  IN  /\ status = "layer"
      /\ layer' = Names(Only(table.fields, idents)) \o Names(Only(table.fields, shown))
      /\ status' = "query"
      /\ UNCHANGED <<req, octets, at, body, features>>

\* The query of get_tile. The generator runs only when the first chunk is
\* asked for, so that the status of the response is not decided yet.
ExecuteQuery ==
  /\ status = "query"
  /\ IF req.zoom \notin LayerZoom
     THEN /\ at' = 0
          /\ UNCHANGED octets
     ELSE /\ octets' \in 0 .. MaxOctets
          /\ UNCHANGED at
  /\ status' = "fetch"
  /\ UNCHANGED <<req, layer, body, features>>

\* Mutant: a chunk is only followed by a chunk that is filled.
NextFullChunk(i) == IF i + Chunk < octets THEN i + Chunk ELSE 0

\* The recursive part of the query.
NextChunk(i) == IF i < octets THEN i + Chunk ELSE 0

Upto(i) == IF i + Chunk - 1 < octets THEN i + Chunk - 1 ELSE octets
Substring(i) == [k \in 1 .. Upto(i) - i + 1 |-> i + k - 1]

\* get_content_status takes the first chunk, the server the ones after it.
\* Empty chunks are left out by the query.
FetchChunk ==
  /\ status \in {"fetch", "stream"}
  /\ at # 0
  /\ body' = body \o Substring(at)
  /\ at' = NextChunk(at)
  /\ status' = IF Substring(at) = <<>> THEN status ELSE "stream"
  /\ UNCHANGED <<req, layer, octets, features>>

EndOfTile ==
  /\ status \in {"fetch", "stream"}
  /\ at = 0
  /\ Answer(IF status = "fetch" THEN "204" ELSE "200")

\* A database error: before the first chunk there is a status to tell it.
DatabaseError ==
  \/ status \in {"query", "fetch"} /\ Answer("500")
  \/ status = "stream" /\ Answer("cut off")

(***************************************************************************)
(* WFS.                                                                     *)
(***************************************************************************)

\* DatasetWFSView.setup
SetupWfs ==
  /\ status = "setup"
  /\ req.view = "wfs"
  /\ Answer(IF req.known THEN "types" ELSE "404")

\* _get_geometry_fields: the main geometry is the first one.
GeometryFields(t) ==
  Only(Fields(t), FieldsOf(t, "geometry") \cap Main(t))
    \o Only(Fields(t), FieldsOf(t, "geometry") \ Main(t))

\* The feature types of a table, each with the geometry it draws.
TypesOf(t) ==
  LET g == GeometryFields(t)
  IN  {[type |-> <<t, IF i = 1 THEN "" ELSE g[i].name>>, geometry |-> g[i].name] :
         i \in DOMAIN g}

\* _get_requested_models: of the requests that read rows, only GetPropertyValue builds
\* less than all types.  DescribeFeatureType, which reads none, is left out.
RequestedModels ==
  IF req.operation = "GetPropertyValue"
  THEN {n[1] : n \in req.names} \cap DOMAIN Tables
  ELSE DOMAIN Tables

Plain(f) == [name |-> f.name, geometry |-> f.kind = "geometry", auth |-> f.auth, of |-> {}]

\* _get_expanded_fields and _get_embedded_fields: the columns of a relation.
RelatedFields(t) ==
  LET readable == Only(Fields(t), {f \in FieldsOf(t, "column") : MayRead(f)})
  IN  [i \in DOMAIN readable |-> Plain(readable[i])]

\* A ComplexFeatureField: of is the model that it leads to.
Complex(f) ==
  [name |-> f.name, geometry |-> FALSE, of |-> {f.to},
   auth |-> f.auth \cup UNION {g.auth : g \in ToSet(RelatedFields(f.to))}]

\* The fields that one field of the model adds.
FieldsFor(f) ==
  LET expanded == IF f.name \in req.expand THEN <<Complex(f)>> ELSE <<>>
      embedded == IF f.name \in req.embed THEN RelatedFields(f.to) ELSE <<>>
  IN  CASE f.kind = "fk" -> expanded \o embedded \o <<Plain(f)>>
        [] f.kind \in {"m2m", "reverse"} -> expanded
        [] f.kind \in {"column", "geometry"} -> <<Plain(f)>>

Exposed(t) == {f \in ToSet(Fields(t)) : MayRead(f) /\ ~f.rla}

\* Mutant: the geometries stay where the model has them.
FeatureFieldsAsInModel(t, geometry) ==
  LET all == Only(Fields(t), Exposed(t))
  IN  FlattenSeq([i \in DOMAIN all |-> FieldsFor(all[i])])

\* get_feature_fields: the other geometries come last.
FeatureFields(t, geometry) ==
  LET others == {f \in FieldsOf(t, "geometry") : f.name # geometry}
      all == Only(Fields(t), Exposed(t) \ others) \o Only(Fields(t), Exposed(t) \cap others)
  IN  FlattenSeq([i \in DOMAIN all |-> FieldsFor(all[i])])

\* get_feature_types, of which the request takes the ones it names.
GetFeatureTypes ==
  LET types == UNION {TypesOf(t) : t \in RequestedModels}
      Geometry(n) == (CHOOSE x \in types : x.type = n).geometry
  IN  /\ status = "types"
      /\ IF ~(req.names \subseteq {x.type : x \in types}) THEN Answer("400")
         ELSE /\ features' = [n \in req.names |-> FeatureFields(n[1], Geometry(n))]
              /\ status' = "check"
              /\ UNCHANGED <<req, tileVars>>

Geometries(fields) == Only(fields, {f \in ToSet(fields) : f.geometry})

\* The geometry that a feature type draws.
Drawn(n) == CHOOSE g \in {x.geometry : x \in TypesOf(n[1])} : [type |-> n, geometry |-> g] \in TypesOf(n[1])

\* The models that a feature type reads, those of complex elements included.
AccessedModels(n) == {n[1]} \cup UNION {f.of : f \in ToSet(features[n])}

\* DatasetWFSView.check_permissions and the one of AuthenticatedFeatureType:
\* the models that are read, and the geometry that is drawn.
CheckPermissions ==
  /\ status = "check"
  /\ Answer(IF \A n \in req.names :
                 /\ MayReadModels(AccessedModels(n))
                 /\ \E f \in ToSet(features[n]) : f.geometry /\ f.name = Drawn(n)
            THEN "200" ELSE "403")

Next ==
  \/ SetupTile
  \/ CreateLayer
  \/ ExecuteQuery
  \/ FetchChunk
  \/ EndOfTile
  \/ DatabaseError
  \/ SetupWfs
  \/ GetFeatureTypes
  \/ CheckPermissions

Spec == Init /\ [][Next]_vars

(***************************************************************************)
(* Properties                                                               *)
(***************************************************************************)

\* What the client gets of a tile are its octets from the first one, each once
\* and in order: all of them with 200 unless the stream is cut off, none with
\* an error, and 204 only tells that there are none.
TileWhole ==
  /\ status \in {"stream", "cut off", "200"} /\ req.view = "tile" =>
       body # <<>> /\ body = [i \in 1 .. Len(body) |-> i]
  /\ status = "200" /\ req.view = "tile" => Len(body) = octets
  /\ status = "204" => octets = 0
  /\ status \in {"204", "403", "404", "500"} => body = <<>>

\* Every feature type of a WFS answer draws its own geometry: map programs take
\* the first geometry of a feature, so a variant whose fields are in the order
\* of the model, or that lost its geometry to a scope, draws something else.
\* Neither its fields nor the models it expands need more than the scopes. The code
\* asks for no more of the columns that it takes from a related table than that the
\* fields themselves may be read.
OwnGeometryFirst ==
  req.view = "wfs" /\ status = "200" =>
    \A n \in req.names :
      /\ Head(Geometries(features[n])).name = Drawn(n)
      /\ \A f \in ToSet(features[n]) : MayRead(f) /\ MayReadModels(f.of)
      /\ MayReadModels({n[1]})
=============================================================================
