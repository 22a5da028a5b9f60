----------------------------- MODULE MCGeoViews -----------------------------
(* Parks with two geometries, relations of every sort and a hidden column.   *)
EXTENDS GeoViews

Field(name, kind, to, auth) ==
  [name |-> name, kind |-> kind, to |-> to, auth |-> auth, rla |-> FALSE, ident |-> FALSE]
Id == [Field("id", "column", "", {}) EXCEPT !.ident = TRUE]

McTables ==
  [park |-> [fields |-> <<Field("outline", "geometry", "", {"lines"}), Id,
                          Field("gate", "geometry", "", {}),
                          Field("area", "fk", "area", {}),
                          Field("keepers", "m2m", "person", {}),
                          Field("trees", "reverse", "tree", {}),
                          [Field("note", "column", "", {}) EXCEPT !.rla = TRUE]>>,
             main |-> "gate", auth |-> {}, zoom |-> {1, 2}],
   area |-> [fields |-> <<Id, Field("name", "column", "", {"names"})>>,
             main |-> "", auth |-> {}, zoom |-> {1}],
   person |-> [fields |-> <<Id, Field("name", "column", "", {})>>,
               main |-> "", auth |-> {"people"}, zoom |-> {1}],
   tree |-> [fields |-> <<Id, Field("spot", "geometry", "", {"trees"})>>,
             main |-> "spot", auth |-> {"trees"}, zoom |-> {1}]]

McScopes == {"lines", "names", "people", "trees"}

McRequests ==
  [view : {"tile"}, table : {"park", "tree", "hill"}, zoom : 0 .. 2,
   scopes : {{}, {"trees"}, McScopes}]
  \cup [view : {"wfs"}, known : BOOLEAN, operation : {"GetFeature", "GetPropertyValue"},
        names : {{<<"park", "">>}, {<<"park", "outline">>}, {<<"park", "">>, <<"tree", "">>},
                 {<<"area", "">>}, {<<"hill", "">>}},
        expand : SUBSET {"area", "keepers", "trees"}, embed : {{}, {"area"}},
        scopes : SUBSET McScopes]
=============================================================================
