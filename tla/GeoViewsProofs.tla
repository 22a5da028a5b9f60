--------------------------- MODULE GeoViewsProofs ---------------------------
(***************************************************************************)
(* Proofs that a vector tile arrives whole or recognisably not whole, for   *)
(* every chunk size, every size of the tile and all requests; and that      *)
(* every WFS feature type draws its own geometry, for any tables.           *)
(***************************************************************************)
EXTENDS GeoViews, WellFoundedInduction, TLAPS

(***************************************************************************)
(* Induction over the natural numbers, for a set instead of a predicate,   *)
(* which every prover can use.                                             *)
(***************************************************************************)
LEMMA Induction ==
  ASSUME NEW T, 0 \in T, \A n \in Nat : n \in T => n + 1 \in T
  PROVE  Nat \subseteq T
<1> DEFINE R == OpToRel(<, Nat)
<1>1. \A m, n \in Nat : <<m, n>> \in R <=> m < n
  BY DEF OpToRel
<1>2. IsWellFoundedOn(R, Nat)
  BY NatLessThanWellFounded
<1> HIDE DEF R
<1> SUFFICES ASSUME Nat \ T # {}
             PROVE  FALSE
  OBVIOUS
<1>3. PICK n \in Nat \ T : \A m \in Nat \ T : ~(<<m, n>> \in R)
  BY <1>2, WFMin
<1>4. \A m \in Nat \ T : ~(m < n)
  BY <1>1, <1>3
<1>5. n - 1 \in Nat /\ n - 1 \in T
  BY <1>4
<1> QED
  BY <1>5

(***************************************************************************)
(* Vector tiles.                                                            *)
(***************************************************************************)

\* How many octets the chunks before the next one have: after the last chunk,
\* and when the next one starts behind the end, that is the whole tile.
Sent == IF at # 0 /\ at - 1 <= octets THEN at - 1 ELSE octets

Octets(n) == [k \in 1 .. n |-> k]

Unsent == {"setup", "layer", "query", "types", "check", "fetch",
           "204", "400", "403", "404", "500"}
Begun == {"stream", "cut off"}

\* The body is an initial part of the tile; whether it is empty is what the
\* status says, and at the end it is everything.
IInv ==
  /\ at \in Nat /\ octets \in Nat
  /\ body = Octets(Sent)
  /\ status \in Unsent \cup Begun \cup {"200"}
  /\ status \in Unsent => body = <<>>
  /\ status \in Begun => body # <<>>
  /\ status \in {"types", "check"} => req.view = "wfs"
  /\ status \in {"setup", "layer", "query", "types", "check"} => at = 1 /\ octets = 0
  /\ status = "204" => at = 0
  /\ status = "200" /\ req.view = "tile" => at = 0 /\ body # <<>>

LEMMA OctetsEmpty == \A n \in Nat : Octets(n) = <<>> <=> n = 0
BY DEF Octets

\* The next chunk continues where the body ends.
LEMMA OctetsContinued ==
  ASSUME NEW s \in Nat, NEW n \in Nat
  PROVE  Octets(s) \o [k \in 1 .. n |-> s + 1 + k - 1] = Octets(s + n)
<1> DEFINE t == [k \in 1 .. n |-> s + 1 + k - 1]
           u == Octets(s) \o t
<1>1. Octets(s) \in Seq(Nat) /\ Len(Octets(s)) = s
  BY DEF Octets
<1>2. t \in Seq(Nat) /\ Len(t) = n
  OBVIOUS
<1>3. Octets(s + n) \in Seq(Nat) /\ Len(Octets(s + n)) = s + n
  BY DEF Octets
<1>4. u \in Seq(Nat) /\ Len(u) = s + n
  BY <1>1, <1>2
<1>5. \A k \in 1 .. s + n : u[k] = Octets(s + n)[k]
  BY <1>1, <1>2 DEF Octets
<1>6. u = Octets(s + n)
  <2> HIDE DEF u
  <2> QED  BY <1>3, <1>4, <1>5 DEF Octets
<1> QED
  BY <1>6

LEMMA InitIInv == Init => IInv
<1> SUFFICES ASSUME Init PROVE IInv
  OBVIOUS
<1>1. Sent = 0 /\ body = Octets(Sent)
  BY OctetsEmpty DEF Init, Sent
<1> QED
  BY <1>1 DEF Init, IInv, Unsent, Begun

\* The only step with content: one chunk.
LEMMA FetchIInv ==
  ASSUME IInv, FetchChunk
  PROVE  IInv'
<1> USE ChunkAssumption
<1>1. at \in Nat \ {0} /\ octets \in Nat /\ octets' = octets
  BY DEF IInv, FetchChunk
<1>2. CASE at > octets
  <2>1. Substring(at) = <<>>
    BY <1>1, <1>2 DEF Substring, Upto
  <2>2. body' = body /\ status' = status /\ at' = 0
    <3>1. body \in Seq(Nat)
      BY DEF IInv, Octets, Sent
    <3> QED  BY <1>1, <1>2, <2>1, <3>1 DEF FetchChunk, NextChunk
  <2>3. Sent = octets /\ Sent' = octets
    BY <1>1, <1>2, <2>2 DEF Sent
  <2>4. body' = Octets(Sent)'
    BY <2>2, <2>3 DEF IInv, Octets
  <2>5. status \in {"fetch", "stream"} /\ req' = req
    BY DEF FetchChunk
  <2>6. at' \in Nat /\ octets' \in Nat
    BY <1>1, <2>2
  <2> QED
    BY <2>2, <2>4, <2>5, <2>6 DEF IInv, Unsent, Begun
<1>3. CASE at <= octets
  <2> DEFINE n == Upto(at) - at + 1
  <2>1. n \in Nat \ {0} /\ Upto(at) <= octets
    BY <1>1, <1>3 DEF Upto
  <2>2. Sent = at - 1 /\ at - 1 \in Nat
    BY <1>1, <1>3 DEF Sent
  <2>3. Substring(at) = [k \in 1 .. n |-> (at - 1) + 1 + k - 1]
    BY <1>1 DEF Substring
  <2>4. body' = Octets((at - 1) + n)
    <3> HIDE DEF n
    <3> QED  BY <2>1, <2>2, <2>3, OctetsContinued DEF IInv, FetchChunk
  <2>5. Sent' = (at - 1) + n /\ at' \in Nat
    BY <1>1, <1>3, <2>1 DEF Sent, FetchChunk, NextChunk, Upto
  <2>6. body' # <<>>
    <3> HIDE DEF n
    <3> QED  BY <2>1, <2>2, <2>4, OctetsEmpty
  <2>7. status' = "stream"
    <3>1. Substring(at) # <<>>
      <4> HIDE DEF n
      <4>1. 1 \in DOMAIN [k \in 1 .. n |-> (at - 1) + 1 + k - 1]
        BY <2>1
      <4> QED  BY <2>3, <4>1
    <3> QED  BY <3>1 DEF FetchChunk
  <2> QED
    <3> HIDE DEF n
    <3> QED  BY <1>1, <2>4, <2>5, <2>6, <2>7 DEF IInv, Unsent, Begun
<1> QED
  BY <1>1, <1>2, <1>3

\* Every step preserves IInv.
LEMMA NextIInv == IInv /\ [Next]_vars => IInv'
<1> SUFFICES ASSUME IInv, [Next]_vars PROVE IInv'
  OBVIOUS
<1>1. ASSUME UNCHANGED <<at, octets, body>>
      PROVE  Sent' = Sent /\ body' = Octets(Sent)'
  BY <1>1 DEF Sent, Octets, IInv
<1>2. CASE SetupTile
  BY <1>1, <1>2 DEF SetupTile, Answer, IInv, tileVars, Unsent, Begun
<1>3. CASE CreateLayer
  BY <1>1, <1>3 DEF CreateLayer, IInv, Unsent, Begun
<1>4. CASE ExecuteQuery
  <2>1. octets' \in Nat /\ at' \in Nat /\ body' = body /\ Sent = 0 /\ Sent' = 0
    BY <1>4, ChunkAssumption DEF ExecuteQuery, IInv, Sent
  <2> QED
    BY <1>4, <2>1 DEF ExecuteQuery, IInv, Unsent, Begun
<1>5. CASE FetchChunk
  BY <1>5, FetchIInv
<1>6. CASE EndOfTile
  BY <1>1, <1>6 DEF EndOfTile, Answer, IInv, tileVars, Unsent, Begun
<1>7. CASE DatabaseError
  BY <1>1, <1>7 DEF DatabaseError, Answer, IInv, tileVars, Unsent, Begun
<1>8. CASE SetupWfs
  BY <1>1, <1>8 DEF SetupWfs, Answer, IInv, tileVars, Unsent, Begun
<1>9. CASE GetFeatureTypes
  BY <1>1, <1>9 DEF GetFeatureTypes, Answer, IInv, tileVars, Unsent, Begun
<1>10. CASE CheckPermissions
  BY <1>1, <1>10 DEF CheckPermissions, Answer, IInv, tileVars, Unsent, Begun
<1>11. CASE UNCHANGED vars
  BY <1>1, <1>11 DEF vars, IInv, tileVars, Unsent, Begun
<1> QED
  BY <1>2, <1>3, <1>4, <1>5, <1>6, <1>7, <1>8, <1>9, <1>10, <1>11 DEF Next

\* A client gets the octets of a tile from the first one, each once and in
\* order; 200 means all of them and 204 that there are none, whatever the size
\* of a chunk and of the tile, and wherever the database fails.
THEOREM TileWholeHolds == Spec => []TileWhole
<1>1. IInv => TileWhole
  <2> SUFFICES ASSUME IInv PROVE TileWhole
    OBVIOUS
  <2>1. Sent \in Nat /\ Len(body) = Sent /\ body = [i \in 1 .. Len(body) |-> i]
    BY DEF IInv, Sent, Octets
  <2>2. at = 0 => Sent = octets
    BY DEF Sent
  <2>3. status = "204" => octets = 0
    BY <2>2, OctetsEmpty DEF IInv, Unsent
  <2> QED
    BY <2>1, <2>2, <2>3 DEF IInv, TileWhole, Unsent, Begun
<1> QED
  BY InitIInv, NextIInv, <1>1, PTL DEF Spec

(***************************************************************************)
(* Sequences that are made of other sequences.                              *)
(***************************************************************************)
\* Every element of x comes from one of the first n sequences, from says which one;
\* they keep the order of the sequences, and none is lost.
From(x, seqs, n, from) ==
  /\ from \in [DOMAIN x -> 1 .. n]
  /\ \A k \in DOMAIN x : x[k] \in ToSet(seqs[from[k]])
  /\ \A k, l \in DOMAIN x : k <= l => from[k] <= from[l]
  /\ \A i \in 1 .. n : \A v \in ToSet(seqs[i]) : \E k \in DOMAIN x : x[k] = v /\ from[k] = i

\* One more sequence at the end.
LEMMA FromOneMore ==
  ASSUME NEW V, NEW seqs \in Seq(Seq(V)), NEW n \in Nat, n + 1 <= Len(seqs),
         NEW x \in Seq(V), NEW from, From(x, seqs, n, from)
  PROVE  /\ x \o seqs[n + 1] \in Seq(V)
         /\ \E new : From(x \o seqs[n + 1], seqs, n + 1, new)
<1> DEFINE s == seqs[n + 1]
           y == x \o s
           new == [k \in DOMAIN y |-> IF k <= Len(x) THEN from[k] ELSE n + 1]
<1>1. n + 1 \in DOMAIN seqs /\ s \in Seq(V)
  OBVIOUS
<1>2. /\ y \in Seq(V) /\ Len(y) = Len(x) + Len(s)
      /\ DOMAIN y = 1 .. Len(x) + Len(s) /\ DOMAIN x = 1 .. Len(x) /\ DOMAIN s = 1 .. Len(s)
      /\ Len(x) \in Nat /\ Len(s) \in Nat
      /\ \A k \in 1 .. Len(x) : y[k] = x[k]
      /\ \A k \in 1 .. Len(s) : y[Len(x) + k] = s[k]
  BY <1>1
<1>3. \A k \in DOMAIN y : k > Len(x) => k - Len(x) \in 1 .. Len(s) /\ y[k] = s[k - Len(x)]
  BY <1>2
<1> HIDE DEF s, y
<1>4. new \in [DOMAIN y -> 1 .. n + 1]
  BY <1>2 DEF From
<1>5. \A k \in DOMAIN y : y[k] \in ToSet(seqs[new[k]])
  <2> SUFFICES ASSUME NEW k \in DOMAIN y
               PROVE  y[k] \in ToSet(seqs[new[k]])
    OBVIOUS
  <2>1. CASE k <= Len(x)
    BY <1>2, <2>1 DEF From
  <2>2. CASE k > Len(x)
    <3>1. new[k] = n + 1
      BY <1>2, <2>2
    <3>2. y[k] = s[k - Len(x)] /\ k - Len(x) \in DOMAIN s
      BY <1>2, <1>3, <2>2
    <3>3. y[k] \in ToSet(s)
      BY <3>2 DEF ToSet
    <3> QED
      BY <3>1, <3>3 DEF s
  <2> QED
    BY <1>2, <2>1, <2>2
<1>6. \A k, l \in DOMAIN y : k <= l => new[k] <= new[l]
  BY <1>2 DEF From
<1>7. \A i \in 1 .. n + 1 : \A v \in ToSet(seqs[i]) : \E k \in DOMAIN y : y[k] = v /\ new[k] = i
  <2> SUFFICES ASSUME NEW i \in 1 .. n + 1, NEW v \in ToSet(seqs[i])
               PROVE  \E k \in DOMAIN y : y[k] = v /\ new[k] = i
    OBVIOUS
  <2>1. CASE i <= n
    <3>1. PICK k \in DOMAIN x : x[k] = v /\ from[k] = i
      <4>1. i \in 1 .. n
        BY <2>1
      <4> QED
        BY <4>1 DEF From
    <3>2. k \in DOMAIN y /\ k <= Len(x)
      BY <1>2, <3>1
    <3> QED
      BY <1>2, <3>1, <3>2
  <2>2. CASE i = n + 1
    <3>1. PICK k \in DOMAIN s : s[k] = v
      BY <2>2 DEF ToSet, s
    <3>2. k \in 1 .. Len(s) /\ Len(s) \in Nat /\ Len(x) \in Nat /\ DOMAIN y = 1 .. Len(x) + Len(s)
      BY <1>2
    <3>3. Len(x) + k \in DOMAIN y /\ ~(Len(x) + k <= Len(x))
      <4> HIDE DEF new
      <4> QED
        BY <3>2
    <3>4. y[Len(x) + k] = v
      BY <1>2, <3>1, <3>2
    <3> QED
      BY <2>2, <3>3, <3>4
  <2> QED
    BY <2>1, <2>2
<1>8. From(y, seqs, n + 1, new)
  <2> HIDE DEF new
  <2> QED
    BY <1>4, <1>5, <1>6, <1>7 DEF From
<1> QED
  <2> HIDE DEF new
  <2> QED
    BY <1>2, <1>8 DEF y, s

\* The recursive function of FlattenSeq exists.
LEMMA FlattenUnfolds ==
  ASSUME NEW V, NEW seqs \in Seq(Seq(V)), Len(seqs) > 0
  PROVE  \E f : /\ f = [i \in 1 .. Len(seqs) |->
                          IF i = 1 THEN seqs[i] ELSE f[i - 1] \o seqs[i]]
                /\ FlattenSeq(seqs) = f[Len(seqs)]
<1> DEFINE Is(f, n) == f = [i \in 1 .. n |-> IF i = 1 THEN seqs[i] ELSE f[i - 1] \o seqs[i]]
           T == {n \in Nat : \E f : Is(f, n)}
<1>1. 0 \in T
  <2>1. Is([i \in 1 .. 0 |-> seqs[1]], 0)
    OBVIOUS
  <2> QED
    BY <2>1
<1>2. ASSUME NEW n \in Nat, n \in T
      PROVE  n + 1 \in T
  <2>1. PICK f : Is(f, n)
    BY <1>2
  <2> DEFINE Next1(i) == IF i = 1 THEN seqs[i] ELSE f[i - 1] \o seqs[i]
  <2>2. PICK g : g = [i \in 1 .. n + 1 |-> Next1(i)]
    OBVIOUS
  <2>3. \A i \in 1 .. n : g[i] = f[i]
    <3>1. \A i \in 1 .. n : f[i] = Next1(i)
      BY <2>1
    <3>2. \A i \in 1 .. n + 1 : g[i] = Next1(i)
      BY <2>2
    <3>3. \A i \in 1 .. n : i \in 1 .. n + 1
      OBVIOUS
    <3> HIDE DEF Next1
    <3> QED
      BY <3>1, <3>2, <3>3
  <2>4. \A i \in 1 .. n + 1 : g[i] = IF i = 1 THEN seqs[i] ELSE g[i - 1] \o seqs[i]
    <3> SUFFICES ASSUME NEW i \in 1 .. n + 1
                 PROVE  g[i] = IF i = 1 THEN seqs[i] ELSE g[i - 1] \o seqs[i]
      OBVIOUS
    <3>1. CASE i = 1
      BY <2>2, <3>1
    <3>2. CASE i # 1
      <4>1. i - 1 \in 1 .. n
        BY <3>2
      <4>2. g[i - 1] = f[i - 1]
        BY <2>3, <4>1
      <4> QED
        BY <2>2, <3>2, <4>2
    <3> QED
      BY <3>1, <3>2
  <2>5. Is(g, n + 1)
    BY <2>2, <2>4
  <2>6. n + 1 \in Nat
    OBVIOUS
  <2> HIDE DEF Is
  <2> QED
    BY <2>5, <2>6
<1>3. Len(seqs) \in T
  <2>1. Len(seqs) \in Nat
    OBVIOUS
  <2> HIDE DEF T
  <2>2. Nat \subseteq T
    BY <1>1, <1>2, Induction
  <2> QED
    BY <2>1, <2>2
<1>4. PICK f : Is(f, Len(seqs))
  BY <1>3
<1>5. FlattenSeq(seqs) = (CHOOSE g : Is(g, Len(seqs)))[Len(seqs)]
  BY DEF FlattenSeq
<1>6. Is(CHOOSE g : Is(g, Len(seqs)), Len(seqs))
  BY <1>4
<1> QED
  BY <1>5, <1>6

\* The elements of a flattened sequence come from its sequences, in their order.
LEMMA FlattenFrom ==
  ASSUME NEW V, NEW seqs \in Seq(Seq(V))
  PROVE  /\ FlattenSeq(seqs) \in Seq(V)
         /\ \E from : From(FlattenSeq(seqs), seqs, Len(seqs), from)
<1>1. CASE Len(seqs) = 0
  <2>1. PICK x : x = FlattenSeq(seqs)
    OBVIOUS
  <2>2. x = <<>>
    BY <1>1, <2>1 DEF FlattenSeq
  <2>3. x \in Seq(V) /\ DOMAIN x = {}
    BY <2>2
  <2>4. From(x, seqs, Len(seqs), [k \in {} |-> 0])
    BY <1>1, <2>3 DEF From
  <2> QED
    BY <2>1, <2>3, <2>4
<1>2. CASE Len(seqs) > 0
  <2>1. PICK f : /\ f = [i \in 1 .. Len(seqs) |->
                           IF i = 1 THEN seqs[i] ELSE f[i - 1] \o seqs[i]]
                 /\ FlattenSeq(seqs) = f[Len(seqs)]
    BY <1>2, FlattenUnfolds
  <2> DEFINE T == {n \in Nat : n + 1 <= Len(seqs) =>
                     f[n + 1] \in Seq(V) /\ \E from : From(f[n + 1], seqs, n + 1, from)}
  <2>2. 0 \in T
    <3>1. PICK x : x = <<>>
      OBVIOUS
    <3>2. x \in Seq(V) /\ DOMAIN x = {}
      BY <3>1
    <3>3. From(x, seqs, 0, [k \in {} |-> 0])
      BY <3>2 DEF From
    <3>4. x \o seqs[0 + 1] \in Seq(V) /\ \E new : From(x \o seqs[0 + 1], seqs, 0 + 1, new)
      <4>1. 0 \in Nat /\ 0 + 1 <= Len(seqs)
        BY <1>2
      <4>2. PICK from : From(x, seqs, 0, from)
        BY <3>3
      <4> HIDE DEF T
      <4> QED
        BY <3>2, <4>1, <4>2, FromOneMore
    <3>5. f[1] = seqs[1] /\ seqs[1] \in Seq(V)
      BY <1>2, <2>1
    <3>6. x \o seqs[0 + 1] = seqs[1]
      BY <3>1, <3>5
    <3> QED
      BY <3>4, <3>5, <3>6
  <2>3. ASSUME NEW n \in Nat, n \in T
        PROVE  n + 1 \in T
    <3> SUFFICES ASSUME (n + 1) + 1 <= Len(seqs)
                 PROVE  /\ f[(n + 1) + 1] \in Seq(V)
                        /\ \E from : From(f[(n + 1) + 1], seqs, (n + 1) + 1, from)
      OBVIOUS
    <3>1. f[n + 1] \in Seq(V) /\ \E from : From(f[n + 1], seqs, n + 1, from)
      BY <2>3
    <3>2. PICK from : From(f[n + 1], seqs, n + 1, from)
      BY <3>1
    <3>3. f[(n + 1) + 1] = f[n + 1] \o seqs[(n + 1) + 1]
      <4>1. \A i \in 1 .. Len(seqs) : f[i] = IF i = 1 THEN seqs[i] ELSE f[i - 1] \o seqs[i]
        BY <2>1
      <4>2. (n + 1) + 1 \in 1 .. Len(seqs) /\ (n + 1) + 1 # 1 /\ ((n + 1) + 1) - 1 = n + 1
        OBVIOUS
      <4> HIDE DEF T
      <4> QED
        BY <4>1, <4>2
    <3>4. n + 1 \in Nat
      OBVIOUS
    <3>5. PICK x : x = f[n + 1]
      OBVIOUS
    <3>6. /\ x \o seqs[(n + 1) + 1] \in Seq(V)
          /\ \E new : From(x \o seqs[(n + 1) + 1], seqs, (n + 1) + 1, new)
      <4> HIDE DEF T
      <4> QED
        BY <3>1, <3>2, <3>4, <3>5, FromOneMore
    <3> QED
      BY <3>3, <3>5, <3>6
  <2>4. Nat \subseteq T
    <3> HIDE DEF T
    <3> QED
      BY <2>2, <2>3, Induction
  <2>5. PICK n \in Nat : n + 1 = Len(seqs)
    <3>1. Len(seqs) - 1 \in Nat /\ (Len(seqs) - 1) + 1 = Len(seqs)
      BY <1>2
    <3> HIDE DEF T
    <3> QED
      BY <3>1
  <2>6. f[Len(seqs)] \in Seq(V) /\ \E from : From(f[Len(seqs)], seqs, Len(seqs), from)
    <3>1. n \in T /\ n + 1 <= Len(seqs)
      <4> HIDE DEF T
      <4> QED
        BY <2>4, <2>5
    <3> QED
      BY <2>5, <3>1
  <2> QED
    BY <2>1, <2>6
<1> QED
  BY <1>1, <1>2

\* Only keeps the elements that are in S, in their order.
LEMMA OnlyFrom ==
  ASSUME NEW V, NEW fields \in Seq(V), NEW S
  PROVE  /\ Only(fields, S) \in Seq(V)
         /\ ToSet(Only(fields, S)) = ToSet(fields) \cap S
         /\ \E from \in [DOMAIN Only(fields, S) -> DOMAIN fields] :
              /\ \A k \in DOMAIN Only(fields, S) : Only(fields, S)[k] = fields[from[k]]
              /\ \A k, l \in DOMAIN Only(fields, S) : k <= l => from[k] <= from[l]
              /\ \A i \in DOMAIN fields : fields[i] \in S => \E k \in DOMAIN Only(fields, S) : from[k] = i
<1> DEFINE seqs == [i \in DOMAIN fields |-> IF fields[i] \in S THEN <<fields[i]>> ELSE <<>>]
           x == FlattenSeq(seqs)
<1>1. /\ DOMAIN fields = 1 .. Len(fields) /\ Len(fields) \in Nat
      /\ \A i \in DOMAIN fields : fields[i] \in V
  OBVIOUS
<1>2. \A i \in DOMAIN fields : seqs[i] \in Seq(V)
  BY <1>1
<1>3. seqs \in Seq(Seq(V)) /\ Len(seqs) = Len(fields)
  <2>1. seqs \in [1 .. Len(fields) -> Seq(V)]
    BY <1>1, <1>2
  <2> HIDE DEF seqs
  <2> QED
    BY <1>1, <2>1
<1>4. \A i \in DOMAIN fields : \A v : v \in ToSet(seqs[i]) <=> v = fields[i] /\ fields[i] \in S
  <2> SUFFICES ASSUME NEW i \in DOMAIN fields, NEW v
               PROVE  v \in ToSet(seqs[i]) <=> v = fields[i] /\ fields[i] \in S
    OBVIOUS
  <2>1. CASE fields[i] \in S
    <3>1. seqs[i] = <<fields[i]>>
      BY <2>1
    <3>2. PICK w : w = seqs[i]
      OBVIOUS
    <3>3. DOMAIN w = 1 .. 1 /\ w[1] = fields[i]
      BY <3>1, <3>2
    <3> QED
      BY <2>1, <3>2, <3>3 DEF ToSet
  <2>2. CASE fields[i] \notin S
    <3>1. seqs[i] = <<>>
      BY <2>2
    <3>2. PICK w : w = seqs[i]
      OBVIOUS
    <3>3. DOMAIN w = {}
      BY <3>1, <3>2
    <3> QED
      BY <2>2, <3>2, <3>3 DEF ToSet
  <2> QED
    BY <2>1, <2>2
<1>5. Only(fields, S) = x
  BY DEF Only
<1> HIDE DEF seqs
<1>6. x \in Seq(V) /\ \E from : From(x, seqs, Len(seqs), from)
  BY <1>3, FlattenFrom
<1> HIDE DEF x
<1>7. PICK from : From(x, seqs, Len(fields), from)
  BY <1>3, <1>6
<1>8. from \in [DOMAIN x -> DOMAIN fields]
  BY <1>1, <1>7 DEF From
<1>9. \A k \in DOMAIN x : x[k] = fields[from[k]] /\ fields[from[k]] \in S
  BY <1>4, <1>7, <1>8 DEF From
<1>10. \A k, l \in DOMAIN x : k <= l => from[k] <= from[l]
  BY <1>7 DEF From
<1>11. ASSUME NEW i \in DOMAIN fields, fields[i] \in S
       PROVE  \E k \in DOMAIN x : x[k] = fields[i] /\ from[k] = i
  <2>1. fields[i] \in ToSet(seqs[i])
    BY <1>4, <1>11
  <2> QED
    BY <1>1, <1>7, <2>1 DEF From
<1>12. ToSet(x) = ToSet(fields) \cap S
  <2>1. ASSUME NEW v \in ToSet(x)
        PROVE  v \in ToSet(fields) \cap S
    <3>1. PICK k \in DOMAIN x : v = x[k]
      BY <2>1 DEF ToSet
    <3>2. v = fields[from[k]] /\ from[k] \in DOMAIN fields /\ v \in S
      BY <1>8, <1>9, <3>1
    <3> QED
      BY <3>2 DEF ToSet
  <2>2. ASSUME NEW v \in ToSet(fields) \cap S
        PROVE  v \in ToSet(x)
    <3>1. PICK i \in DOMAIN fields : v = fields[i]
      BY <2>2 DEF ToSet
    <3>2. PICK k \in DOMAIN x : x[k] = fields[i]
      BY <1>11, <2>2, <3>1
    <3> QED
      BY <3>1, <3>2 DEF ToSet
  <2> QED
    BY <2>1, <2>2
<1> QED
  BY <1>5, <1>6, <1>8, <1>9, <1>10, <1>11, <1>12

\* The first of the elements in S comes before all others that are in S.
LEMMA FirstOfOnly ==
  ASSUME NEW V, NEW fields \in Seq(V), NEW S, NEW i \in DOMAIN fields, fields[i] \in S
  PROVE  \E j \in DOMAIN fields : j <= i /\ fields[j] \in S /\ Head(Only(fields, S)) = fields[j]
<1>1. PICK x : x = Only(fields, S)
  OBVIOUS
<1>2. PICK from \in [DOMAIN x -> DOMAIN fields] :
        /\ \A k \in DOMAIN x : x[k] = fields[from[k]]
        /\ \A k, l \in DOMAIN x : k <= l => from[k] <= from[l]
        /\ \E k \in DOMAIN x : from[k] = i
  BY <1>1, OnlyFrom
<1>3. x \in Seq(V) /\ ToSet(x) \subseteq S
  BY <1>1, OnlyFrom
<1>4. PICK k \in DOMAIN x : from[k] = i
  BY <1>2
<1>5. DOMAIN x = 1 .. Len(x) /\ 1 \in DOMAIN x /\ 1 <= k /\ Head(x) = x[1]
  BY <1>3, <1>4
<1>6. x[1] \in S
  BY <1>3, <1>5 DEF ToSet
<1>7. from[1] \in DOMAIN fields /\ from[1] <= i /\ fields[from[1]] = x[1]
  BY <1>2, <1>4, <1>5
<1> QED
  BY <1>1, <1>5, <1>6, <1>7

\* The elements of two sequences that follow each other.
LEMMA ToSetConcat ==
  ASSUME NEW V, NEW s \in Seq(V), NEW u \in Seq(V)
  PROVE  ToSet(s \o u) = ToSet(s) \cup ToSet(u)
<1> DEFINE x == s \o u
<1>1. /\ DOMAIN s = 1 .. Len(s) /\ DOMAIN u = 1 .. Len(u) /\ Len(s) \in Nat /\ Len(u) \in Nat
      /\ DOMAIN x = 1 .. Len(s) + Len(u)
      /\ \A k \in 1 .. Len(s) : x[k] = s[k]
      /\ \A k \in 1 .. Len(u) : x[Len(s) + k] = u[k]
  OBVIOUS
<1>2. \A k \in DOMAIN x : k \notin DOMAIN s => k - Len(s) \in DOMAIN u /\ x[k] = u[k - Len(s)]
  BY <1>1
<1> HIDE DEF x
<1>3. \A k \in DOMAIN s : k \in DOMAIN x
  BY <1>1
<1>4. \A k \in DOMAIN u : Len(s) + k \in DOMAIN x
  BY <1>1
<1>5. ASSUME NEW v \in ToSet(x)
      PROVE  v \in ToSet(s) \cup ToSet(u)
  <2>1. PICK k \in DOMAIN x : v = x[k]
    BY <1>5 DEF ToSet
  <2>2. CASE k \in DOMAIN s
    BY <1>1, <2>1, <2>2 DEF ToSet
  <2>3. CASE k \notin DOMAIN s
    <3>1. k - Len(s) \in DOMAIN u /\ v = u[k - Len(s)]
      BY <1>2, <2>1, <2>3
    <3> QED
      BY <3>1 DEF ToSet
  <2> QED
    BY <2>2, <2>3
<1>6. ASSUME NEW v \in ToSet(s)
      PROVE  v \in ToSet(x)
  <2>1. PICK k \in DOMAIN s : v = s[k]
    BY <1>6 DEF ToSet
  <2> QED
    BY <1>1, <1>3, <2>1 DEF ToSet
<1>7. ASSUME NEW v \in ToSet(u)
      PROVE  v \in ToSet(x)
  <2>1. PICK k \in DOMAIN u : v = u[k]
    BY <1>7 DEF ToSet
  <2>2. v = x[Len(s) + k] /\ Len(s) + k \in DOMAIN x
    BY <1>1, <1>4, <2>1
  <2> QED
    BY <2>2 DEF ToSet
<1> QED
  BY <1>5, <1>6, <1>7 DEF x

\* A sequence is one of its own elements.
LEMMA SeqOfElements ==
  ASSUME NEW V, NEW s \in Seq(V)
  PROVE  s \in Seq(ToSet(s)) /\ ToSet(s) \subseteq V
<1>1. DOMAIN s = 1 .. Len(s) /\ Len(s) \in Nat /\ \A i \in 1 .. Len(s) : s[i] \in ToSet(s)
  BY DEF ToSet
<1>2. s = [i \in 1 .. Len(s) |-> s[i]]
  OBVIOUS
<1>3. s \in [1 .. Len(s) -> ToSet(s)]
  BY <1>1, <1>2
<1>4. s \in Seq(ToSet(s))
  BY <1>1, <1>3
<1> QED
  BY <1>4 DEF ToSet

(***************************************************************************)
(* Feature types.                                                           *)
(***************************************************************************)
LEMMA FieldsTyped ==
  ASSUME NEW t \in DOMAIN Tables
  PROVE  /\ Fields(t) \in Seq(ToSet(Fields(t)))
         /\ \A f \in ToSet(Fields(t)) :
              /\ f.name # ""
              /\ \/ f.kind \in {"column", "geometry"}
                 \/ f.kind \in {"fk", "m2m", "reverse"} /\ f.to \in DOMAIN Tables
BY TablesAssumption DEF Fields

LEMMA OnlyOf ==
  ASSUME NEW t \in DOMAIN Tables, NEW S
  PROVE  /\ Only(Fields(t), S) \in Seq(ToSet(Fields(t)))
         /\ ToSet(Only(Fields(t), S)) = ToSet(Fields(t)) \cap S
<1>1. PICK V, fields : fields = Fields(t) /\ V = ToSet(Fields(t))
  OBVIOUS
<1>2. fields \in Seq(V)
  BY <1>1, FieldsTyped
<1>3. Only(fields, S) \in Seq(V) /\ ToSet(Only(fields, S)) = ToSet(fields) \cap S
  BY <1>2, OnlyFrom
<1> QED
  BY <1>1, <1>3

\* What a field of a feature may be: permitted, and a geometry only for the
\* geometry field that it is made of.
MadeOf(g, f) == MayRead(g) /\ (g.geometry => f.kind = "geometry" /\ g.name = f.name)

LEMMA RelatedFrom ==
  ASSUME NEW t \in DOMAIN Tables
  PROVE  /\ RelatedFields(t) \in Seq(ToSet(RelatedFields(t)))
         /\ \A g \in ToSet(RelatedFields(t)) : MayRead(g) /\ ~g.geometry
<1> DEFINE cols == {f \in FieldsOf(t, "column") : MayRead(f)}
           r == Only(Fields(t), cols)
           W == {Plain(f) : f \in cols}
<1>1. r \in Seq(ToSet(Fields(t))) /\ ToSet(r) \subseteq cols
  BY OnlyOf
<1>2. RelatedFields(t) = [i \in DOMAIN r |-> Plain(r[i])]
  BY DEF RelatedFields
<1>3. \A f \in cols : MayRead(Plain(f)) /\ ~Plain(f).geometry
  <2>1. \A f \in cols : MayRead(f) /\ f.kind = "column"
    BY DEF FieldsOf
  <2> QED
    BY <2>1 DEF Plain, MayRead
<1>6. \A g \in W : MayRead(g) /\ ~g.geometry
  BY <1>3
<1> HIDE DEF cols, r
<1>4. \A i \in DOMAIN r : r[i] \in cols
  BY <1>1 DEF ToSet
<1>5. RelatedFields(t) \in Seq(W)
  <2>1. DOMAIN r = 1 .. Len(r) /\ Len(r) \in Nat
    BY <1>1
  <2>2. [i \in DOMAIN r |-> Plain(r[i])] \in [1 .. Len(r) -> W]
    BY <1>4, <2>1
  <2> HIDE DEF W
  <2> QED
    BY <1>2, <2>1, <2>2
<1> HIDE DEF W
<1> QED
  BY <1>5, <1>6, SeqOfElements

\* The fields that one field of the model adds.
LEMMA FieldsForFrom ==
  ASSUME NEW t \in DOMAIN Tables, NEW f \in ToSet(Fields(t)), MayRead(f)
  PROVE  /\ FieldsFor(f) \in Seq(ToSet(FieldsFor(f)))
         /\ \A g \in ToSet(FieldsFor(f)) : MadeOf(g, f)
<1>1. MadeOf(Plain(f), f)
  BY DEF MadeOf, Plain, MayRead
<1>2. CASE f.kind \in {"column", "geometry"}
  <2>1. FieldsFor(f) = <<Plain(f)>>
    BY <1>2 DEF FieldsFor
  <2>2. FieldsFor(f) \in Seq({Plain(f)})
    BY <2>1
  <2> QED
    BY <1>1, <2>2, SeqOfElements
<1>3. CASE f.kind \in {"fk", "m2m", "reverse"}
  <2> DEFINE expanded == IF f.name \in req.expand THEN <<Complex(f)>> ELSE <<>>
             embedded == IF f.name \in req.embed THEN RelatedFields(f.to) ELSE <<>>
             W == {Complex(f), Plain(f)} \cup ToSet(RelatedFields(f.to))
  <2>1. f.to \in DOMAIN Tables
    BY <1>3, FieldsTyped
  <2>2. /\ RelatedFields(f.to) \in Seq(ToSet(RelatedFields(f.to)))
        /\ \A g \in ToSet(RelatedFields(f.to)) : MayRead(g) /\ ~g.geometry
    BY <2>1, RelatedFrom
  <2>3. MadeOf(Complex(f), f)
    BY <2>2 DEF MadeOf, Complex, MayRead
  <2>4. \A g \in W : MadeOf(g, f)
    BY <1>1, <2>2, <2>3 DEF MadeOf
  <2>5. FieldsFor(f) \in {expanded, (expanded \o embedded) \o <<Plain(f)>>}
    BY <1>3 DEF FieldsFor
  <2>6. \A s : s \in Seq(ToSet(RelatedFields(f.to))) => s \in Seq(W)
    OBVIOUS
  <2>7. Complex(f) \in W /\ Plain(f) \in W
    OBVIOUS
  <2> HIDE DEF W
  <2>8. expanded \in Seq(W)
    <3>1. PICK c : c = Complex(f)
      OBVIOUS
    <3>2. <<c>> \in Seq(W) /\ <<>> \in Seq(W)
      BY <2>7, <3>1
    <3> QED
      BY <3>1, <3>2
  <2>9. embedded \in Seq(W)
    BY <2>2, <2>6
  <2>10. PICK last : last = <<Plain(f)>> /\ last \in Seq(W)
    <3>1. PICK c : c = Plain(f)
      OBVIOUS
    <3>2. <<c>> \in Seq(W)
      BY <2>7, <3>1
    <3> QED
      BY <3>1, <3>2
  <2> HIDE DEF expanded, embedded
  <2>11. FieldsFor(f) \in Seq(W)
    <3>1. \A x, y \in Seq(W) : x \o y \in Seq(W)
      OBVIOUS
    <3>2. (expanded \o embedded) \o last \in Seq(W)
      BY <2>8, <2>9, <2>10, <3>1
    <3>3. FieldsFor(f) = expanded \/ FieldsFor(f) = (expanded \o embedded) \o last
      BY <2>5, <2>10
    <3> QED
      BY <2>8, <3>2, <3>3
  <2> QED
    BY <2>4, <2>11, SeqOfElements
<1> QED
  BY <1>2, <1>3, FieldsTyped

\* The fields of a feature type are permitted, and when its own geometry is
\* there, it is the first one.
LEMMA OwnFirst ==
  ASSUME NEW t \in DOMAIN Tables, NEW geometry
  PROVE  /\ \A f \in ToSet(FeatureFields(t, geometry)) : MayRead(f)
         /\ (\E f \in ToSet(FeatureFields(t, geometry)) : f.geometry /\ f.name = geometry)
              => Head(Geometries(FeatureFields(t, geometry))).name = geometry
<1> DEFINE X == ToSet(Fields(t))
           others == {f \in FieldsOf(t, "geometry") : f.name # geometry}
           a == Only(Fields(t), Exposed(t) \ others)
           b == Only(Fields(t), Exposed(t) \cap others)
           all == a \o b
           seqs == [i \in DOMAIN all |-> FieldsFor(all[i])]
           fs == FeatureFields(t, geometry)
           V == UNION {ToSet(FieldsFor(f)) : f \in X}
<1>1. fs = FlattenSeq(seqs)
  BY DEF FeatureFields
<1>2. /\ a \in Seq(X) /\ ToSet(a) = X \cap (Exposed(t) \ others)
      /\ b \in Seq(X) /\ ToSet(b) = X \cap (Exposed(t) \cap others)
  BY OnlyOf
<1>3. \A f \in X : f \in others <=> f.kind = "geometry" /\ f.name # geometry
  BY DEF FieldsOf
<1>4. \A f \in X : f \in Exposed(t) => MayRead(f)
  BY DEF Exposed
<1> HIDE DEF a, b, others
<1>5. /\ all \in Seq(X) /\ DOMAIN all = 1 .. Len(all) /\ Len(all) \in Nat
      /\ Len(all) = Len(a) + Len(b) /\ Len(a) \in Nat /\ Len(b) \in Nat
      /\ DOMAIN a = 1 .. Len(a) /\ DOMAIN b = 1 .. Len(b)
      /\ \A i \in 1 .. Len(a) : all[i] = a[i]
      /\ \A i \in DOMAIN all : i > Len(a) => i - Len(a) \in DOMAIN b /\ all[i] = b[i - Len(a)]
  BY <1>2
<1>6. \A i \in DOMAIN all : all[i] \in X /\ all[i] \in Exposed(t) /\ (i > Len(a) <=> all[i] \in others)
  <2> SUFFICES ASSUME NEW i \in DOMAIN all
               PROVE  all[i] \in X /\ all[i] \in Exposed(t) /\ (i > Len(a) <=> all[i] \in others)
    OBVIOUS
  <2>1. CASE i > Len(a)
    <3>1. all[i] \in ToSet(b)
      BY <1>5, <2>1 DEF ToSet
    <3> QED
      BY <1>2, <2>1, <3>1
  <2>2. CASE ~(i > Len(a))
    <3>1. i \in 1 .. Len(a)
      BY <1>5, <2>2
    <3>2. all[i] \in ToSet(a)
      BY <1>5, <3>1 DEF ToSet
    <3> QED
      BY <1>2, <2>2, <3>2
  <2> QED
    BY <2>1, <2>2
<1> HIDE DEF all
<1>7. \A i \in DOMAIN all : /\ FieldsFor(all[i]) \in Seq(ToSet(FieldsFor(all[i])))
                            /\ \A g \in ToSet(FieldsFor(all[i])) : MadeOf(g, all[i])
  BY <1>4, <1>6, FieldsForFrom
<1>8. seqs \in Seq(Seq(V)) /\ Len(seqs) = Len(all)
  <2>1. \A i \in DOMAIN all : FieldsFor(all[i]) \in Seq(V)
    <3> SUFFICES ASSUME NEW i \in DOMAIN all
                 PROVE  FieldsFor(all[i]) \in Seq(V)
      OBVIOUS
    <3>1. ToSet(FieldsFor(all[i])) \subseteq V
      BY <1>6
    <3> HIDE DEF V
    <3> QED
      BY <1>7, <3>1
  <2> HIDE DEF V
  <2>2. seqs \in [1 .. Len(all) -> Seq(V)]
    BY <1>5, <2>1
  <2> HIDE DEF seqs
  <2> QED
    BY <1>5, <2>2
<1>9. \A i \in DOMAIN all : seqs[i] = FieldsFor(all[i])
  OBVIOUS
<1> HIDE DEF seqs, V, fs
<1>10. fs \in Seq(V) /\ \E from : From(fs, seqs, Len(all), from)
  BY <1>1, <1>8, FlattenFrom
<1>11. PICK from : From(fs, seqs, Len(all), from)
  BY <1>10
<1>12. \A k \in DOMAIN fs : from[k] \in DOMAIN all /\ MadeOf(fs[k], all[from[k]])
  BY <1>5, <1>7, <1>9, <1>11 DEF From
<1>13. \A f \in ToSet(fs) : MayRead(f)
  BY <1>12 DEF ToSet, MadeOf
<1>14. ASSUME NEW f \in ToSet(fs), f.geometry, f.name = geometry
       PROVE  Head(Geometries(fs)).name = geometry
  <2> DEFINE S == {g \in ToSet(fs) : g.geometry}
  <2>1. PICK q \in DOMAIN fs : fs[q] = f
    BY <1>14 DEF ToSet
  <2>2. fs[q] \in S
    BY <1>14, <2>1
  <2>3. PICK j \in DOMAIN fs : j <= q /\ fs[j] \in S /\ Head(Only(fs, S)) = fs[j]
    <3> HIDE DEF S
    <3> QED
      BY <1>10, <2>2, FirstOfOnly
  <2>4. from[j] <= from[q] /\ from[j] \in DOMAIN all /\ from[q] \in DOMAIN all
    BY <1>11, <1>12, <2>3 DEF From
  <2>5. all[from[q]] \notin others
    BY <1>3, <1>6, <1>12, <1>14, <2>1, <2>4 DEF MadeOf
  <2>6. all[from[j]] \notin others
    BY <1>5, <1>6, <2>4, <2>5
  <2>7. fs[j].geometry
    BY <2>3
  <2>8. fs[j].name = geometry
    BY <1>3, <1>6, <1>12, <2>4, <2>6, <2>7 DEF MadeOf
  <2> QED
    BY <2>3, <2>8 DEF Geometries
<1> QED
  BY <1>13, <1>14 DEF fs

\* A feature type belongs to the table in its name, and draws one geometry.
LEMMA TypeDraws ==
  ASSUME NEW t \in DOMAIN Tables, NEW x \in TypesOf(t)
  PROVE  /\ x.type[1] = t
         /\ Drawn(x.type) = x.geometry
<1> DEFINE g == GeometryFields(t)
           Name(i) == IF i = 1 THEN "" ELSE g[i].name
<1>1. \A i \in DOMAIN g : g[i].name # ""
  <2> DEFINE own == FieldsOf(t, "geometry") \cap Main(t)
             rest == FieldsOf(t, "geometry") \ Main(t)
             a == Only(Fields(t), own)
             b == Only(Fields(t), rest)
  <2>1. a \in Seq(ToSet(Fields(t))) /\ b \in Seq(ToSet(Fields(t)))
    BY OnlyOf
  <2>2. g = a \o b
    BY DEF GeometryFields
  <2> HIDE DEF a, b, g
  <2>3. g \in Seq(ToSet(Fields(t)))
    BY <2>1, <2>2
  <2>4. \A i \in DOMAIN g : g[i] \in ToSet(Fields(t))
    BY <2>3
  <2> QED
    BY <2>4, FieldsTyped
<1>2. TypesOf(t) = {[type |-> <<t, Name(i)>>, geometry |-> g[i].name] : i \in DOMAIN g}
  BY DEF TypesOf
<1> HIDE DEF g
<1>3. \A y \in TypesOf(t) : y = [type |-> y.type, geometry |-> y.geometry] /\ y.type[1] = t
  <2> SUFFICES ASSUME NEW y \in TypesOf(t)
               PROVE  y = [type |-> y.type, geometry |-> y.geometry] /\ y.type[1] = t
    OBVIOUS
  <2>1. PICK i \in DOMAIN g : y = [type |-> <<t, Name(i)>>, geometry |-> g[i].name]
    BY <1>2
  <2> HIDE DEF Name
  <2>2. y.type = <<t, Name(i)>> /\ y.geometry = g[i].name
    BY <2>1
  <2> QED
    BY <2>1, <2>2
<1>4. ASSUME NEW y \in TypesOf(t), NEW z \in TypesOf(t), y.type = z.type
      PROVE  y.geometry = z.geometry
  <2>1. PICK i \in DOMAIN g : y = [type |-> <<t, Name(i)>>, geometry |-> g[i].name]
    BY <1>2
  <2>2. PICK j \in DOMAIN g : z = [type |-> <<t, Name(j)>>, geometry |-> g[j].name]
    BY <1>2
  <2>3. Name(i) = Name(j)
    BY <1>4, <2>1, <2>2
  <2>4. g[i].name = g[j].name
    BY <1>1, <2>3
  <2> QED
    BY <2>1, <2>2, <2>4
<1>5. x = [type |-> x.type, geometry |-> x.geometry] /\ x.type[1] = t
  BY <1>3
<1>6. Drawn(x.type) = CHOOSE d \in {y.geometry : y \in TypesOf(t)} :
                        [type |-> x.type, geometry |-> d] \in TypesOf(t)
  BY <1>5 DEF Drawn
<1>7. \E d \in {y.geometry : y \in TypesOf(t)} : [type |-> x.type, geometry |-> d] \in TypesOf(t)
  BY <1>5
<1>8. [type |-> x.type, geometry |-> Drawn(x.type)] \in TypesOf(t)
  BY <1>6, <1>7
<1>9. PICK y : y = [type |-> x.type, geometry |-> Drawn(x.type)]
  OBVIOUS
<1>10. y \in TypesOf(t) /\ y.type = x.type /\ y.geometry = Drawn(x.type)
  BY <1>8, <1>9
<1> QED
  BY <1>4, <1>5, <1>10

\* A WFS request has a status of its own only when the types are built and checked.
WfsInv ==
  /\ status \in {"layer", "query", "fetch", "stream"} => req.view = "tile"
  /\ status = "check" => \A n \in req.names :
       n[1] \in DOMAIN Tables /\ features[n] = FeatureFields(n[1], Drawn(n))
  /\ OwnGeometryFirst

\* What a feature type draws is said by the tables, its fields also by the request.
LEMMA FieldsKept ==
  ASSUME UNCHANGED req
  PROVE  \A n : /\ Drawn(n)' = Drawn(n)
                /\ FeatureFields(n[1], Drawn(n))' = FeatureFields(n[1], Drawn(n))
<1>1. \A n : Drawn(n)' = Drawn(n)
  BY DEF Drawn, TypesOf, GeometryFields, FieldsOf, Main, Fields
<1>2. \A f : MayRead(f)' = MayRead(f)
  BY DEF MayRead
<1>3. \A t : Exposed(t)' = Exposed(t)
  BY <1>2 DEF Exposed
<1>4. \A t : RelatedFields(t)' = RelatedFields(t)
  BY <1>2 DEF RelatedFields
<1>5. \A f : Complex(f)' = Complex(f)
  BY <1>4 DEF Complex
<1>6. \A f : FieldsFor(f)' = FieldsFor(f)
  BY <1>4, <1>5 DEF FieldsFor
<1>7. \A t, geometry : FeatureFields(t, geometry)' = FeatureFields(t, geometry)
  BY <1>3, <1>6 DEF FeatureFields
<1> QED
  BY <1>1, <1>7

LEMMA InitWfs == Init => WfsInv
BY DEF Init, WfsInv, OwnGeometryFirst

\* The types are built with the geometry that they draw.
LEMMA GetFeatureTypesWfs == WfsInv /\ GetFeatureTypes => WfsInv'
<1> SUFFICES ASSUME WfsInv, GetFeatureTypes
             PROVE  WfsInv'
  OBVIOUS
<1> DEFINE types == UNION {TypesOf(t) : t \in RequestedModels}
           Geometry(n) == (CHOOSE x \in types : x.type = n).geometry
<1>1. status = "types" /\ req' = req
  BY DEF GetFeatureTypes, Answer
<1>2. CASE ~(req.names \subseteq {x.type : x \in types})
  <2>1. status' = "400"
    BY <1>2 DEF GetFeatureTypes, Answer
  <2> QED
    BY <2>1 DEF WfsInv, OwnGeometryFirst
<1>3. CASE req.names \subseteq {x.type : x \in types}
  <2>1. status' = "check" /\ features' = [n \in req.names |-> FeatureFields(n[1], Geometry(n))]
    BY <1>3 DEF GetFeatureTypes
  <2>2. ASSUME NEW n \in req.names
        PROVE  n[1] \in DOMAIN Tables /\ Geometry(n) = Drawn(n)
    <3>1. \E x \in types : x.type = n
      BY <1>3
    <3> DEFINE y == CHOOSE x \in types : x.type = n
    <3>2. y \in types /\ y.type = n /\ Geometry(n) = y.geometry
      BY <3>1
    <3> HIDE DEF y
    <3>3. PICK t \in RequestedModels : y \in TypesOf(t)
      BY <3>2
    <3>4. t \in DOMAIN Tables
      BY DEF RequestedModels
    <3> HIDE DEF Geometry
    <3> QED
      BY <3>2, <3>3, <3>4, TypeDraws
  <2>3. \A n \in req.names : /\ n[1] \in DOMAIN Tables
                             /\ features'[n] = FeatureFields(n[1], Drawn(n))
    <3> HIDE DEF Geometry
    <3> QED
      BY <2>1, <2>2
  <2>4. \A n : Drawn(n)' = Drawn(n) /\ FeatureFields(n[1], Drawn(n))' = FeatureFields(n[1], Drawn(n))
    BY <1>1, FieldsKept
  <2> QED
    BY <1>1, <2>1, <2>3, <2>4 DEF WfsInv, OwnGeometryFirst
<1> QED
  BY <1>2, <1>3

\* The answer is given when the own geometry is there.
LEMMA CheckPermissionsWfs == WfsInv /\ CheckPermissions => WfsInv'
<1> SUFFICES ASSUME WfsInv, CheckPermissions
             PROVE  WfsInv'
  OBVIOUS
<1>1. status = "check" /\ req' = req /\ features' = features /\ status' \in {"200", "403"}
  BY DEF CheckPermissions, Answer
<1>2. CASE status' = "403"
  BY <1>2 DEF WfsInv, OwnGeometryFirst
<1>3. CASE status' = "200"
  <2>1. ASSUME NEW n \in req.names
        PROVE  /\ MayReadModels(AccessedModels(n))
               /\ \E f \in ToSet(features[n]) : f.geometry /\ f.name = Drawn(n)
    BY <1>3 DEF CheckPermissions, Answer
  <2>2. ASSUME NEW n \in req.names
        PROVE  /\ Head(Geometries(features[n])).name = Drawn(n)
               /\ \A f \in ToSet(features[n]) : MayRead(f) /\ MayReadModels(f.of)
               /\ MayReadModels({n[1]})
    <3>1. n[1] \in DOMAIN Tables /\ features[n] = FeatureFields(n[1], Drawn(n))
      BY <1>1 DEF WfsInv
    <3>2. /\ Head(Geometries(features[n])).name = Drawn(n)
          /\ \A f \in ToSet(features[n]) : MayRead(f)
      BY <2>1, <3>1, OwnFirst
    <3>3. MayReadModels({n[1]}) /\ \A f \in ToSet(features[n]) : MayReadModels(f.of)
      BY <2>1 DEF MayReadModels, AccessedModels
    <3> QED
      BY <3>2, <3>3
  <2>3. \A n : /\ Drawn(n)' = Drawn(n)
               /\ Geometries(features[n])' = Geometries(features[n])
               /\ ToSet(features[n])' = ToSet(features[n])
    BY <1>1, FieldsKept
  <2>4. \A f : MayRead(f)' = MayRead(f)
    BY <1>1 DEF MayRead
  <2>5. \A models : MayReadModels(models)' = MayReadModels(models)
    BY <1>1 DEF MayReadModels
  <2>6. OwnGeometryFirst'
    BY <1>1, <2>2, <2>3, <2>4, <2>5 DEF OwnGeometryFirst
  <2> QED
    BY <1>3, <2>6 DEF WfsInv
<1> QED
  BY <1>1, <1>2, <1>3

LEMMA NextWfs == WfsInv /\ [Next]_vars => WfsInv'
<1> SUFFICES ASSUME WfsInv, [Next]_vars
             PROVE  WfsInv'
  OBVIOUS
<1>1. CASE SetupTile
  BY <1>1 DEF SetupTile, Answer, WfsInv, OwnGeometryFirst
<1>2. CASE CreateLayer \/ ExecuteQuery \/ FetchChunk \/ EndOfTile \/ DatabaseError
  BY <1>2 DEF CreateLayer, ExecuteQuery, FetchChunk, EndOfTile, DatabaseError, Answer, WfsInv, OwnGeometryFirst
<1>3. CASE SetupWfs
  BY <1>3 DEF SetupWfs, Answer, WfsInv, OwnGeometryFirst
<1>4. CASE GetFeatureTypes
  BY <1>4, GetFeatureTypesWfs
<1>5. CASE CheckPermissions
  BY <1>5, CheckPermissionsWfs
<1>6. CASE UNCHANGED vars
  <2>1. OwnGeometryFirst'
    BY <1>6 DEF vars, WfsInv, OwnGeometryFirst, Drawn, TypesOf, GeometryFields, MayRead, MayReadModels
  <2>2. \A n : Drawn(n)' = Drawn(n) /\ FeatureFields(n[1], Drawn(n))' = FeatureFields(n[1], Drawn(n))
    BY <1>6, FieldsKept DEF vars
  <2> QED
    BY <1>6, <2>1, <2>2 DEF vars, WfsInv
<1> QED
  BY <1>1, <1>2, <1>3, <1>4, <1>5, <1>6 DEF Next

\* For any tables, requests and scopes: what a WFS answer shows of a feature type
\* has the geometry of the type first, and nothing that the scopes exclude
\* (get_feature_types, get_feature_fields and check_permissions of wfs.py).
THEOREM OwnGeometryFirstHolds == Spec => []OwnGeometryFirst
<1>1. WfsInv => OwnGeometryFirst
  BY DEF WfsInv
<1> QED
  BY InitWfs, NextWfs, <1>1, PTL DEF Spec
=============================================================================
