--------------------------- MODULE MCQueryFilters ---------------------------
(* Buildings with owners, a kind, an area (loose), a block (composite) and   *)
(* permits, which refer to them: one relation of every sort, two deep.       *)
EXTENDS QueryFilters

CONSTANT ToManySorts  \* do requests also sort over relations that lead to many rows?

Number(n) == [is |-> "number", n |-> n]
Word(w, c) == [is |-> "text", word |-> w, case |-> c]
Low(w) == Word(w, "lower")
Bool(b) == [is |-> "bool", b |-> b]
Moment(d, t) == [is |-> "moment", day |-> d, time |-> t]
Version(i, v) == [ident |-> Number(i), version |-> Number(v)]

Simple(type, filter) ==
  [kind |-> "column", type |-> type, to |-> NoTable, ids |-> {}, primary |-> FALSE,
   auth |-> filter, filter |-> filter]
Key(type) == [Simple(type, {}) EXCEPT !.primary = TRUE]
Ref(kind, type, to, ids) ==
  [kind |-> kind, type |-> type, to |-> to, ids |-> ids, primary |-> FALSE,
   auth |-> {}, filter |-> {}]
Table(fields, identifier, reverse, dimensions, auth, rla) ==
  [fields |-> fields, identifier |-> identifier, reverse |-> reverse,
   dimensions |-> dimensions, auth |-> auth, rla |-> rla]

McSchema ==
  [building |-> Table(
     [ident |-> Simple("integer", {}), version |-> Simple("integer", {}),
      name |-> Simple("string", {}), sold |-> Simple("boolean", {}),
      built |-> Simple("date-time", {}), level |-> Simple("number", {}),
      spot |-> Simple("point", {}), tags |-> Simple("array", {}),
      value |-> Simple("integer", {"money"}), shape |-> Simple("object", {}),
      kind |-> Ref("fk", "integer", "kind", {"id"}),
      area |-> Ref("loose", "string", "area", {"ident"}),
      block |-> Ref("composite", "object", "block", {"ident", "version"}),
      owners |-> Ref("m2m", "objects", "person", {"id"}),
      rooms |-> Ref("nested", "objects", "room", {})],
     "ident", [permits |-> [table |-> "permit", of |-> "building"]],
     {"validOn"}, {"view"}, {"rows"}),
   kind |-> Table([id |-> Simple("integer", {"kinds"}), label |-> Simple("string", {})],
                  "id", <<>>, {}, {}, {}),
   area |-> Table([ident |-> Simple("string", {}), version |-> Simple("integer", {}),
                   name |-> Simple("string", {}), built |-> Simple("date-time", {})],
                  "ident", <<>>, {"validOn"}, {}, {}),
   block |-> Table([ident |-> Simple("integer", {}), version |-> Simple("integer", {}),
                    code |-> Simple("string", {}),
                    area |-> Ref("loose", "string", "area", {"ident"})],
                   "ident", <<>>, {"validOn"}, {}, {}),
   person |-> Table([id |-> Key("integer"), name |-> Simple("string", {}),
                     age |-> Simple("integer", {})], "id", <<>>, {}, {}, {}),
   room |-> Table([id |-> Key("integer"), use |-> Simple("string", {})],
                  "id", <<>>, {}, {}, {}),
   permit |-> Table([id |-> Key("integer"), use |-> Simple("string", {}),
                     building |-> Ref("composite", "object", "building",
                                      {"ident", "version"})],
                    "id", <<>>, {}, {"permits"}, {})]

McPositions == [dam |-> [WGS84 |-> <<5, 52>>, RD |-> <<121, 487>>],
                ij |-> [WGS84 |-> <<5, 53>>, RD |-> <<121, 598>>]]

Area(i, v, n, b, c) ==
  [ident |-> Low(i), version |-> Number(v), name |-> Low(n), built |-> b, current |-> c]
Building(i, v, c, rest) == Version(i, v) @@ [current |-> c] @@ rest
Person(i, n, a) == [id |-> Number(i), name |-> n, age |-> Number(a)]

First == [name |-> Word("ann", "upper"), sold |-> Bool(TRUE), built |-> Moment(1, 9),
          level |-> Number(3), spot |-> "dam", tags |-> {Low("a"), Low("b")}, value |-> Number(7),
          shape |-> Null, kind |-> Number(1), area |-> Low("a1"), block |-> Version(1, 1),
          owners |-> {Number(1), Number(2)}, rooms |-> {Number(1), Number(2)}]
Second == [name |-> Low("bob"), sold |-> Bool(FALSE), built |-> Moment(2, 8),
           level |-> Number(-1), spot |-> "ij", tags |-> {Low("b")}, value |-> Number(8),
           shape |-> Null, kind |-> Null, area |-> Low("a2"), block |-> Null,
           owners |-> {Number(2)}, rooms |-> {}]
Third == [name |-> Null, sold |-> Null, built |-> Null, level |-> Null, spot |-> Null,
          tags |-> Null, value |-> Null, shape |-> Null, kind |-> Number(2), area |-> Null,
          block |-> Version(2, 1), owners |-> {}, rooms |-> {Number(3)}]

Content(areas) ==
  [building |-> {Building(1, 1, FALSE, Second), Building(1, 2, TRUE, First),
                 Building(2, 1, TRUE, Second), Building(3, 1, TRUE, Third)},
   kind |-> {[id |-> Number(1), label |-> Low("a")], [id |-> Number(2), label |-> Null]},
   area |-> areas,
   block |-> {Version(1, 1) @@ [code |-> Low("x"), area |-> Low("a1"), current |-> TRUE],
              Version(2, 1) @@ [code |-> Null, area |-> Low("a2"), current |-> FALSE]},
   person |-> {Person(1, Low("ann"), 30), Person(2, Low("bob"), 40)},
   room |-> {[id |-> Number(i), use |-> Low("live")] : i \in 1 .. 3},
   permit |-> {[id |-> Number(1), use |-> Low("a"), building |-> Version(1, 2)],
               [id |-> Number(2), use |-> Low("b"), building |-> Version(1, 2)],
               [id |-> Number(3), use |-> Low("b"), building |-> Version(1, 1)]}]

McDatabases ==
  {Content({Area("a1", 1, "old", Null, FALSE), Area("a1", 2, "new", Moment(1, 9), c[1]),
            Area("a2", 1, "old", Null, c[2])}) :
     c \in (BOOLEAN \X BOOLEAN) \ {<<FALSE, FALSE>>}}

Is(path, lookup) == [path |-> path, lookup |-> lookup]
Place(x, y) == [is |-> "xy", x |-> x, y |-> y]
Pattern(words) == [is |-> "text", word |-> "pattern", words |-> words]
Once(v) == <<<<v>>>>        \* key=v
Listed(v, w) == <<<<v, w>>>>  \* key=v,w
Twice(v, w) == <<<<v>>, <<w>>>>  \* key=v&key=w

(* Parameters in the order of the text of their names, in which "." comes      *)
(* before capitals, "[" and small letters; each with the values it gets.        *)
Params == <<
  <<Is(<<"_sort">>, ""), Once(Low("x"))>>,
  <<Is(<<"_sort">>, "like"), Once(Low("x"))>>,
  <<Is(<<"area", "built">>, "isnull"), Once(Bool(TRUE))>>,
  <<Is(<<"area", "ident">>, ""), Once(Low("a1"))>>,
  <<Is(<<"area", "ident">>, "like"), Once(Pattern({"a1"}))>>,
  <<Is(<<"area", "name">>, ""), Once(Word("new", "upper"))>>,
  <<Is(<<"area", "name">>, "isnull"), Once(Bool(FALSE))>>,
  <<Is(<<"area", "name">>, "not"), Twice(Low("old"), Low("x"))>>,
  <<Is(<<"areaId">>, "in"), Listed(Low("a1"), Low("a3"))>>,
  <<Is(<<"area">>, "isnull"), Once(Bool(TRUE))>>,
  <<Is(<<"block", "area", "name">>, ""), Once(Low("new"))>>,
  <<Is(<<"block", "code">>, "isempty"), Once(Bool(TRUE))>>,
  <<Is(<<"block", "ident">>, ""), Once(Number(2))>>,
  <<Is(<<"block", "version">>, "not"), Once(Number(2))>>,
  <<Is(<<"blockId">>, ""), Once(Version(1, 1))>>,
  <<Is(<<"block">>, "isempty"), Once(Bool(FALSE))>>,
  <<Is(<<"built">>, ""), Once(Moment(1, NoTime))>>,
  <<Is(<<"built">>, "gt"), Once(Moment(1, 8))>>,
  <<Is(<<"built">>, "in"), Listed(Moment(1, NoTime), Moment(2, 9))>>,
  <<Is(<<"built">>, "lte"), Once(Moment(1, NoTime))>>,
  <<Is(<<"built">>, "not"), Once(Moment(2, 9))>>,
  <<Is(<<"kind", "">>, ""), Once(Low("a"))>>,
  <<Is(<<"kind", "id">>, "in"), Listed(Number(1), Number(2))>>,
  <<Is(<<"kind", "label", "x">>, ""), Once(Low("a"))>>,
  <<Is(<<"kind", "label">>, "isnull"), Once(Bool(TRUE))>>,
  <<Is(<<"kind">>, "not"), Once(Number(1))>>,
  <<Is(<<"level">>, "in"), Listed(Number(1), Low("x"))>>,
  <<Is(<<"level">>, "lt"), Once(Number(3))>>,
  <<Is(<<"name">>, ""), Once(Low("ann"))>>,
  <<Is(<<"name">>, "in"), Listed(Low("ann"), Low("bob"))>>,
  <<Is(<<"name">>, "like"), Once(Pattern({"ann", "anna"}))>>,
  <<Is(<<"owners">>, ""), Once(Number(1))>>,
  <<Is(<<"owners", "age">>, "gte"), Once(Number(30))>>,
  <<Is(<<"owners", "name">>, ""), Once(Low("bob"))>>,
  <<Is(<<"owners", "name">>, "not"), Once(Low("bob"))>>,
  <<Is(<<"permits">>, ""), Once(Number(1))>>,
  <<Is(<<"permits", "building", "version">>, "gt"), Once(Number(0))>>,
  <<Is(<<"permits", "use">>, ""), Once(Low("b"))>>,
  <<Is(<<"rooms">>, ""), Once(Number(1))>>,
  <<Is(<<"rooms", "use">>, "like"), Once(Pattern({"live"}))>>,
  <<Is(<<"shape">>, ""), Once(Low("x"))>>,
  <<Is(<<"sold">>, ""), Once(Bool(TRUE))>>,
  <<Is(<<"spot">>, ""), Once(Place(52, 5))>>,
  <<Is(<<"spot">>, "intersects"), Once(Place(121, 487))>>,
  <<Is(<<"spot">>, "not"), Once(Place(121, 487))>>,
  <<Is(<<"tags">>, "contains"), Listed(Low("a"), Word("b", "upper"))>>,
  <<Is(<<"validOn">>, ""), Once(Moment(1, NoTime))>>,
  <<Is(<<"value">>, "gt"), Once(Number(7))>> >>

McSorted == [i \in DOMAIN Params |-> Params[i][1]]

Chosen(i) == Params[i][1] :> Params[i][2]

Sorts == {<<>>, <<<<"block", "code">>, <<"areaId">>>>, <<<<"kind", "id">>>>, <<<<"value">>>>}
           \cup IF ToManySorts THEN {<<<<"area", "name">>>>, <<<<"owners", "name">>>>} ELSE {}
All == {"view", "rows", "money", "kinds"}

Request(params, headers, sort, scopes, crs) ==
  [params |-> params, headers |-> headers, sort |-> sort, scopes |-> scopes, crs |-> crs]

(* Two parameters, one of them from a header, or one with every ordering and CRS. *)
McRequests ==
  UNION {{Request(Chosen(i), Chosen(j), <<>>, c, "RD") :
            j \in i + 1 .. Len(Params), c \in {All, {"view", "rows"}}} :
           i \in DOMAIN Params}
  \cup {Request(<<>>, Chosen(i), o[1], c, o[2]) :
          i \in DOMAIN Params, c \in {{}, {"view"}, {"view", "rows"}, All},
          o \in (Sorts \cup {<<<<"name", "x">>>>}) \X {"RD"} \cup {<<<<>>, "WGS84">>}}

(* Without ToManySorts, the condition under which EachRowOnce is proved.       *)
ASSUME SortsAssumption == ToManySorts \/ SortsToOne

McNonFilterParams == {Is(<<"_sort">>, "")}
McWithoutId == [areaId |-> "area", blockId |-> "block"]
=============================================================================
