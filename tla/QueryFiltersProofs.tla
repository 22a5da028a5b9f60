------------------------ MODULE QueryFiltersProofs ------------------------
(***************************************************************************)
(* Proofs of two properties of QueryFilters, for any schema, any contents  *)
(* of the database and any requests. Both rest on what a parsed path is:   *)
(* each of its parts was permitted and belongs to the table that the part  *)
(* before it leads to (WalkOfPath). ColumnsPermitted follows from the last  *)
(* parts of it, EachRowOnce from what the joins of a query determine.      *)
(***************************************************************************)
EXTENDS QueryFilters, FiniteSetTheorems, SequenceTheorems, WellFoundedInduction, TLAPS

(***************************************************************************)
(* Numbers.                                                                 *)
(***************************************************************************)
\* A set of natural numbers that is not empty has a smallest element.
LEMMA LeastElement ==
  ASSUME NEW T, T \subseteq Nat, T # {}
  PROVE  \E n \in T : \A m \in T : n <= m
<1> DEFINE R == OpToRel(<, Nat)
<1>1. \A m, n \in Nat : <<m, n>> \in R <=> m < n
  BY DEF OpToRel
<1>2. IsWellFoundedOn(R, Nat)
  BY NatLessThanWellFounded
<1> HIDE DEF R
<1>3. PICK n \in T : \A m \in T : ~(<<m, n>> \in R)
  BY <1>2, WFMin
<1>4. \A m \in T : ~(m < n)
  BY <1>1, <1>3
<1> QED
  BY <1>4

\* Induction over the natural numbers, for a set instead of a predicate.
LEMMA Induction ==
  ASSUME NEW T, 0 \in T, \A n \in Nat : n \in T => n + 1 \in T
  PROVE  Nat \subseteq T
<1> SUFFICES ASSUME Nat \ T # {}
             PROVE  FALSE
  OBVIOUS
<1>1. PICK n \in Nat \ T : \A m \in Nat \ T : n <= m
  BY LeastElement
<1>2. n - 1 \in Nat /\ n - 1 \in T
  BY <1>1
<1> QED
  BY <1>1, <1>2

\* A finite set of natural numbers has a greatest element, which is its Max.
LEMMA GreatestElement ==
  ASSUME NEW T, T \subseteq Nat, T # {}, NEW b \in Nat, \A n \in T : n <= b
  PROVE  Max(T) \in T /\ \A m \in T : m <= Max(T)
<1> DEFINE D == {b - n : n \in T}
<1>1. D \subseteq Nat /\ D # {}
  <2>1. \A n \in T : n \in Nat /\ n <= b /\ b - n \in Nat
    OBVIOUS
  <2>2. PICK n \in T : TRUE
    OBVIOUS
  <2> QED
    BY <2>1, <2>2
<1>2. PICK d \in D : \A e \in D : d <= e
  BY <1>1, LeastElement
<1>3. PICK n \in T : d = b - n
  BY <1>2
<1>4. \A m \in T : n >= m
  <2> TAKE m \in T
  <2>1. b - m \in D
    OBVIOUS
  <2>2. d <= b - m
    BY <1>2, <2>1
  <2> QED
    BY <1>3, <2>2
<1>5. Max(T) \in T /\ \A m \in T : Max(T) >= m
  BY <1>3, <1>4 DEF Max
<1> QED
  BY <1>5

\* The smallest element of a set of numbers is its Min.
LEMMA MinIsMember ==
  ASSUME NEW T, T \subseteq Nat, T # {}
  PROVE  Min(T) \in T
<1>1. PICK n \in T : \A m \in T : n <= m
  BY LeastElement
<1> QED
  BY <1>1 DEF Min

\* Finitely many numbers have a bound.
LEMMA BoundOfMany ==
  ASSUME NEW n \in Nat, NEW f, \A i \in 1 .. n : f[i] \in Nat
  PROVE  \E b \in Nat : \A i \in 1 .. n : f[i] <= b
<1> DEFINE A == {k \in Nat : k <= n => \E b \in Nat : \A i \in 1 .. k : f[i] <= b}
<1>1. 0 \in A
  OBVIOUS
<1>2. ASSUME NEW k \in Nat, k \in A
      PROVE  k + 1 \in A
  <2> SUFFICES ASSUME k + 1 <= n
               PROVE  \E b \in Nat : \A i \in 1 .. k + 1 : f[i] <= b
    OBVIOUS
  <2>1. PICK b \in Nat : \A i \in 1 .. k : f[i] <= b
    BY <1>2
  <2>2. f[k + 1] \in Nat
    OBVIOUS
  <2>3. PICK c \in Nat : b <= c /\ f[k + 1] <= c
    BY <2>2
  <2>4. \A i \in 1 .. k + 1 : f[i] <= c
    <3> TAKE i \in 1 .. k + 1
    <3>1. CASE i = k + 1
      BY <2>3, <3>1
    <3>2. CASE i # k + 1
      <4>1. i \in 1 .. k /\ f[i] \in Nat
        BY <3>2
      <4> QED
        BY <2>1, <2>3, <4>1
    <3> QED
      BY <3>1, <3>2
  <2> QED
    BY <2>4
<1>3. n \in A
  <2> HIDE DEF A
  <2> QED
    BY <1>1, <1>2, Induction
<1> QED
  BY <1>3

(***************************************************************************)
(* Paths.                                                                   *)
(***************************************************************************)
\* The fields and reverse relations of the schema.
PartsOf(t) ==
  {Part(t, n, FALSE) : n \in DOMAIN Fields(t)}
    \cup {Part(t, n, TRUE) : n \in DOMAIN Schema[t].reverse}
Parts == UNION {PartsOf(t) : t \in DOMAIN Schema}

\* A part that leads to a table.
Leads(p) == p.reverse \/ Kind(p) # "column"

\* A path of permitted parts, each in the table that the part before it leads to.
IsWalk(parts, scopes) ==
  /\ parts \in Seq(Parts)
  /\ \A i \in 1 .. Len(parts) : MayFilter(parts[i], scopes)
  /\ Len(parts) > 0 => parts[1].table = Root
  /\ \A i \in 1 .. Len(parts) - 1 :
       Leads(parts[i]) /\ parts[i + 1].table = TargetOf(parts[i])

\* What a part is of, and where it leads.
LEMMA PartTypes ==
  ASSUME NEW p \in Parts
  PROVE  /\ p.table \in DOMAIN Schema
         /\ p.reverse \in BOOLEAN
         /\ ~p.reverse => p.name \in DOMAIN Fields(p.table)
         /\ p.reverse => p.name \in DOMAIN Schema[p.table].reverse
         /\ Leads(p) => TargetOf(p) \in DOMAIN Schema
<1>1. PICK t \in DOMAIN Schema :
        p \in {Part(t, n, FALSE) : n \in DOMAIN Fields(t)}
                \cup {Part(t, n, TRUE) : n \in DOMAIN Schema[t].reverse}
  BY DEF Parts, PartsOf
<1>2. CASE p \in {Part(t, n, FALSE) : n \in DOMAIN Fields(t)}
  <2>1. PICK n \in DOMAIN Fields(t) : p = Part(t, n, FALSE)
    BY <1>2
  <2>2. p.table = t /\ p.name = n /\ p.reverse = FALSE
    BY <2>1 DEF Part
  <2>3. Leads(p) => Fields(t)[n].kind # "column"
    BY <2>2 DEF Leads, Kind, FieldOf
  <2>4. TargetOf(p) = Fields(t)[n].to
    BY <2>2 DEF TargetOf
  <2>5. Fields(t)[n].kind # "column" => Fields(t)[n].to \in DOMAIN Schema
    BY SchemaAssumption DEF SchemaTables
  <2> QED
    BY <2>2, <2>3, <2>4, <2>5
<1>3. CASE p \in {Part(t, n, TRUE) : n \in DOMAIN Schema[t].reverse}
  <2>1. PICK n \in DOMAIN Schema[t].reverse : p = Part(t, n, TRUE)
    BY <1>3
  <2>2. p.table = t /\ p.name = n /\ p.reverse = TRUE
    BY <2>1 DEF Part
  <2>3. TargetOf(p) = Schema[t].reverse[n].table
    BY <2>2 DEF TargetOf
  <2>4. Schema[t].reverse[n].table \in DOMAIN Schema
    BY SchemaAssumption DEF SchemaTables
  <2> QED
    BY <2>2, <2>3, <2>4
<1> QED
  BY <1>1, <1>2, <1>3

\* A name stands for parts of the table in which it is looked up.
LEMMA FoundIsPart ==
  ASSUME NEW t \in DOMAIN Schema, NEW n, NEW last,
         NEW p \in GetFieldById(t, n, last)
  PROVE  p \in Parts /\ p.table = t
<1> DEFINE bare == IF last /\ n \in DOMAIN WithoutId THEN WithoutId[n] ELSE n
<1>1. \/ n \in DOMAIN Fields(t) /\ p = Part(t, n, FALSE)
      \/ bare \in DOMAIN Fields(t) /\ p = Part(t, bare, FALSE)
      \/ n \in DOMAIN Schema[t].reverse /\ p = Part(t, n, TRUE)
  BY DEF GetFieldById
<1> HIDE DEF bare
<1>2. p \in PartsOf(t)
  BY <1>1 DEF PartsOf
<1>3. p.table = t
  BY <1>1 DEF Part
<1> QED
  BY <1>2, <1>3 DEF Parts

\* The states of the loop of _parse_filter_path after n names.
Walking(w, n, scopes) ==
  /\ \E e, ps, t : w = [error |-> e, parts |-> ps, parent |-> t]
  /\ w.error \in {"none", "400", "403"}
  /\ w.error = "none" =>
       /\ IsWalk(w.parts, scopes)
       /\ Len(w.parts) = n
       /\ n = 0 => w.parent = Root
       /\ n > 0 /\ w.parent # NoTable =>
            Leads(w.parts[n]) /\ w.parent = TargetOf(w.parts[n])

LEMMA WalkStarts ==
  ASSUME NEW scopes
  PROVE  Walking([error |-> "none", parts |-> <<>>, parent |-> Root], 0, scopes)
<1> DEFINE w == [error |-> "none", parts |-> <<>>, parent |-> Root]
<1>1. \E e, ps, t : w = [error |-> e, parts |-> ps, parent |-> t]
  OBVIOUS
<1>2. w.parts = <<>> /\ w.parent = Root /\ w.error = "none"
  OBVIOUS
<1>3. <<>> \in Seq(Parts) /\ Len(<<>>) = 0 /\ 1 .. 0 = {} /\ 1 .. 0 - 1 = {}
  OBVIOUS
<1>4. IsWalk(<<>>, scopes)
  BY <1>3 DEF IsWalk
<1>5. Walking(w, 0, scopes)
  <2> HIDE DEF w
  <2>1. IsWalk(w.parts, scopes)
    BY <1>2, <1>4
  <2>2. Len(w.parts) = 0
    BY <1>2, <1>3
  <2>3. ~(0 > 0)
    OBVIOUS
  <2> QED
    BY <1>1, <1>2, <2>1, <2>2, <2>3 DEF Walking
<1> QED
  BY <1>5

\* One more name keeps a walk a walk.
LEMMA WalkGoesOn ==
  ASSUME NEW w, NEW n \in Nat, NEW scopes, NEW name, NEW last,
         Walking(w, n, scopes), w.error = "none"
  PROVE  Walking(NextPart(w, GetFieldById(w.parent, name, last), scopes), n + 1, scopes)
<1> DEFINE found == GetFieldById(w.parent, name, last)
           p == CHOOSE x \in found : TRUE
           next == NextPart(w, found, scopes)
<1>1. /\ IsWalk(w.parts, scopes) /\ Len(w.parts) = n
      /\ n = 0 => w.parent = Root
      /\ n > 0 /\ w.parent # NoTable =>
           Leads(w.parts[n]) /\ w.parent = TargetOf(w.parts[n])
  BY DEF Walking
<1>2. PICK e, ps, t : w = [error |-> e, parts |-> ps, parent |-> t]
  BY DEF Walking
<1>3. \A code \in {"400", "403"} : Walking([w EXCEPT !.error = code], n + 1, scopes)
  <2> SUFFICES ASSUME NEW code \in {"400", "403"}
               PROVE  Walking([w EXCEPT !.error = code], n + 1, scopes)
    OBVIOUS
  <2>1. [w EXCEPT !.error = code] = [error |-> code, parts |-> ps, parent |-> t]
    BY <1>2
  <2> QED
    BY <2>1 DEF Walking
<1>4. CASE w.parent = NoTable \/ found = {}
  <2>1. next = [w EXCEPT !.error = "400"]
    BY <1>4 DEF NextPart
  <2> QED
    BY <1>3, <2>1
<1>5. CASE ~(w.parent = NoTable \/ found = {}) /\ ~MayFilter(p, scopes)
  <2>1. next = [w EXCEPT !.error = "403"]
    BY <1>5 DEF NextPart, AddPart
  <2> QED
    BY <1>3, <2>1
<1>6. CASE ~(w.parent = NoTable \/ found = {}) /\ MayFilter(p, scopes)
  <2>1. next = [error |-> "none", parts |-> Append(w.parts, p),
                parent |-> IF p.reverse \/ Kind(p) # "column" THEN TargetOf(p) ELSE NoTable]
    BY <1>6 DEF NextPart, AddPart
  <2>2. p \in found
    BY <1>6
  <2>3. w.parent \in DOMAIN Schema
    <3>1. CASE n = 0
      BY <1>1, <3>1, SchemaAssumption DEF SchemaTables
    <3>2. CASE n > 0
      <4>1. w.parts[n] \in Parts
        BY <1>1, <3>2 DEF IsWalk
      <4> QED
        BY <1>1, <1>6, <3>2, <4>1, PartTypes
    <3> QED
      BY <3>1, <3>2
  <2>4. p \in Parts /\ p.table = w.parent
    BY <2>2, <2>3, FoundIsPart
  <2> HIDE DEF p, found, next
  <2> DEFINE longer == Append(w.parts, p)
  <2>5. w.parts \in Seq(Parts)
    BY <1>1 DEF IsWalk
  <2>6. /\ longer \in Seq(Parts) /\ Len(longer) = n + 1 /\ longer[n + 1] = p
        /\ \A i \in 1 .. n : longer[i] = w.parts[i]
    BY <1>1, <2>4, <2>5
  <2> HIDE DEF longer
  <2>7. IsWalk(longer, scopes)
    <3>1. \A i \in 1 .. n + 1 : MayFilter(longer[i], scopes)
      BY <1>1, <1>6, <2>6 DEF IsWalk
    <3>2. longer[1].table = Root
      <4>1. CASE n = 0
        BY <1>1, <2>4, <2>6, <4>1
      <4>2. CASE n > 0
        BY <1>1, <2>6, <4>2 DEF IsWalk
      <4> QED
        BY <4>1, <4>2
    <3>3. ASSUME NEW i \in 1 .. n
          PROVE  Leads(longer[i]) /\ longer[i + 1].table = TargetOf(longer[i])
      <4>1. CASE i = n
        <5>1. longer[i] = w.parts[n] /\ longer[i + 1] = p /\ n > 0
          BY <2>6, <4>1
        <5>2. Leads(w.parts[n]) /\ w.parent = TargetOf(w.parts[n])
          BY <1>1, <1>6, <5>1
        <5> QED
          BY <2>4, <5>1, <5>2
      <4>2. CASE i # n
        <5>1. i \in 1 .. n - 1 /\ i + 1 \in 1 .. n
          BY <4>2
        <5> QED
          BY <1>1, <2>6, <5>1 DEF IsWalk
      <4> QED
        BY <4>1, <4>2
    <3> QED
      BY <2>6, <3>1, <3>2, <3>3 DEF IsWalk
  <2>8. next.parent # NoTable => Leads(p) /\ next.parent = TargetOf(p)
    BY <2>1 DEF Leads
  <2>9. next.parts = longer /\ next.error = "none"
    BY <2>1 DEF longer
  <2>10. \E f, qs, u : next = [error |-> f, parts |-> qs, parent |-> u]
    BY <2>1
  <2> QED
    <3>1. Walking(next, n + 1, scopes)
      <4>1. IsWalk(next.parts, scopes)
        BY <2>7, <2>9
      <4>2. Len(next.parts) = n + 1 /\ n + 1 # 0
        BY <2>6, <2>9
      <4>3. next.parts[n + 1] = p
        BY <2>6, <2>9
      <4>4. next.parent # NoTable =>
              Leads(next.parts[n + 1]) /\ next.parent = TargetOf(next.parts[n + 1])
        BY <2>8, <4>3
      <4> QED
        BY <2>9, <2>10, <4>1, <4>2, <4>4 DEF Walking
    <3> QED
      BY <3>1 DEF next, found
<1> QED
  BY <1>4, <1>5, <1>6

\* The recursive function of ParseFilterPath exists, and all its values are walks
\* or refusals.
LEMMA WalkOfPath ==
  ASSUME NEW path, NEW scopes, Len(path) \in Nat
  PROVE  LET walk == ParseFilterPath(path, scopes)
         IN  /\ walk.error \in {"none", "400", "403"}
             /\ walk.error = "none" =>
                  IsWalk(walk.parts, scopes) /\ Len(walk.parts) = Len(path)
<1> DEFINE Begin == [error |-> "none", parts |-> <<>>, parent |-> Root]
           Is(f, n) == f = [i \in 0 .. n |-> IF i = 0 THEN Begin
                                              ELSE Follow(f[i - 1], path, i, scopes)]
           T == {n \in Nat : \E f : Is(f, n)}
           after == CHOOSE f : Is(f, Len(path))
<1>1. 0 \in T
  <2>1. Is([i \in 0 .. 0 |-> Begin], 0)
    OBVIOUS
  <2> QED
    BY <2>1
<1>2. ASSUME NEW n \in Nat, n \in T
      PROVE  n + 1 \in T
  <2>1. PICK f : Is(f, n)
    BY <1>2
  <2> HIDE DEF Begin
  <2>2. PICK g : g = [i \in 0 .. n + 1 |-> IF i = n + 1 THEN Follow(f[n], path, i, scopes) ELSE f[i]]
    OBVIOUS
  <2>3. \A i \in 0 .. n : g[i] = f[i]
    BY <2>2
  <2>4. \A i \in 0 .. n : f[i] = IF i = 0 THEN Begin ELSE Follow(f[i - 1], path, i, scopes)
    BY <2>1
  <2>5. ASSUME NEW i \in 0 .. n + 1
        PROVE  g[i] = IF i = 0 THEN Begin ELSE Follow(g[i - 1], path, i, scopes)
    <3>1. CASE i = n + 1
      <4>1. n \in 0 .. n /\ i - 1 = n /\ i # 0
        BY <3>1
      <4> QED
        BY <2>2, <2>3, <3>1, <4>1
    <3>2. CASE i # n + 1 /\ i # 0
      <4>1. i \in 0 .. n /\ i - 1 \in 0 .. n
        BY <3>2
      <4> QED
        BY <2>3, <2>4, <3>2, <4>1
    <3>3. CASE i # n + 1 /\ i = 0
      BY <2>3, <2>4, <3>3
    <3> QED
      BY <3>1, <3>2, <3>3
  <2>6. Is(g, n + 1)
    BY <2>2, <2>5
  <2> QED
    BY <2>6
<1>3. Nat \subseteq T
  <2> HIDE DEF T
  <2> QED
    BY <1>1, <1>2, Induction
<1>4. \E f : Is(f, Len(path))
  BY <1>3
<1>5. Is(after, Len(path))
  BY <1>4
<1>6. ParseFilterPath(path, scopes) = after[Len(path)]
  BY DEF ParseFilterPath
<1>7. /\ after[0] = Begin
      /\ \A i \in 1 .. Len(path) : after[i] = Follow(after[i - 1], path, i, scopes)
  <2> HIDE DEF after, Begin
  <2> QED
    BY <1>5
<1> HIDE DEF after
<1> DEFINE W == {n \in Nat : n <= Len(path) => Walking(after[n], n, scopes)}
<1>8. 0 \in W
  BY <1>7, WalkStarts
<1>9. ASSUME NEW n \in Nat, n \in W
      PROVE  n + 1 \in W
  <2> SUFFICES ASSUME n + 1 <= Len(path)
               PROVE  Walking(after[n + 1], n + 1, scopes)
    OBVIOUS
  <2>1. Walking(after[n], n, scopes)
    BY <1>9
  <2>2. after[n + 1] = Follow(after[n], path, n + 1, scopes)
    <3>1. n + 1 \in 1 .. Len(path) /\ (n + 1) - 1 = n
      OBVIOUS
    <3> QED
      BY <1>7, <3>1
  <2>3. CASE after[n].error # "none"
    <3>1. after[n + 1] = after[n]
      BY <2>2, <2>3 DEF Follow
    <3> QED
      BY <2>1, <2>3, <3>1 DEF Walking
  <2>4. CASE after[n].error = "none"
    <3>1. after[n + 1] = NextPart(after[n], GetFieldById(after[n].parent, path[n + 1],
                                                         n + 1 = Len(path)), scopes)
      BY <2>2, <2>4 DEF Follow
    <3> DEFINE last == n + 1 = Len(path)
    <3>2. Walking(NextPart(after[n], GetFieldById(after[n].parent, path[n + 1], last), scopes),
                  n + 1, scopes)
      <4> HIDE DEF last
      <4> QED
        BY <2>1, <2>4, WalkGoesOn, Zenon
    <3> QED
      BY <3>1, <3>2, Zenon
  <2> QED
    BY <2>3, <2>4
<1>10. Walking(after[Len(path)], Len(path), scopes)
  <2>1. Nat \subseteq W
    <3> HIDE DEF W
    <3> QED
      BY <1>8, <1>9, Induction
  <2> QED
    BY <2>1
<1> QED
  BY <1>6, <1>10 DEF Walking

\* The first elements of a sequence.
LEMMA Prefix ==
  ASSUME NEW S, NEW s \in Seq(S), NEW n \in 0 .. Len(s)
  PROVE  /\ SubSeq(s, 1, n) \in Seq(S)
         /\ Len(SubSeq(s, 1, n)) = n
         /\ \A i \in 1 .. n : SubSeq(s, 1, n)[i] = s[i]
         /\ n > 0 => /\ Front(SubSeq(s, 1, n)) = SubSeq(s, 1, n - 1)
                     /\ Last(SubSeq(s, 1, n)) = s[n]
         /\ \A m \in 0 .. n : SubSeq(SubSeq(s, 1, n), 1, m) = SubSeq(s, 1, m)
         /\ SubSeq(s, 1, Len(s)) = s
         /\ SubSeq(s, 1, 0) = <<>>
<1>1. /\ SubSeq(s, 1, n) \in Seq(S)
      /\ Len(SubSeq(s, 1, n)) = n
      /\ \A i \in 1 .. n : SubSeq(s, 1, n)[i] = s[i]
  OBVIOUS
<1>2. ASSUME NEW m \in 0 .. n
      PROVE  SubSeq(SubSeq(s, 1, n), 1, m) = SubSeq(s, 1, m)
  <2> DEFINE t == SubSeq(s, 1, n)
  <2>1. /\ SubSeq(t, 1, m) \in Seq(S) /\ Len(SubSeq(t, 1, m)) = m
        /\ \A i \in 1 .. m : SubSeq(t, 1, m)[i] = t[i]
    <3>1. t \in Seq(S) /\ m \in 0 .. Len(t)
      BY <1>1
    <3> HIDE DEF t
    <3> QED
      BY <3>1
  <2>2. /\ SubSeq(s, 1, m) \in Seq(S) /\ Len(SubSeq(s, 1, m)) = m
        /\ \A i \in 1 .. m : SubSeq(s, 1, m)[i] = s[i]
    OBVIOUS
  <2>3. \A i \in 1 .. m : t[i] = s[i]
    BY <1>1
  <2> HIDE DEF t
  <2>4. SubSeq(t, 1, m) = SubSeq(s, 1, m)
    BY <2>1, <2>2, <2>3, SeqEqual
  <2> QED
    BY <2>4 DEF t
<1>3. SubSeq(s, 1, Len(s)) = s
  BY SubSeqFull
<1>4. SubSeq(s, 1, 0) = <<>>
  OBVIOUS
<1>5. n > 0 => /\ Front(SubSeq(s, 1, n)) = SubSeq(s, 1, n - 1)
               /\ Last(SubSeq(s, 1, n)) = s[n]
  <2> SUFFICES ASSUME n > 0
               PROVE  /\ Front(SubSeq(s, 1, n)) = SubSeq(s, 1, n - 1)
                      /\ Last(SubSeq(s, 1, n)) = s[n]
    OBVIOUS
  <2>1. n - 1 \in 0 .. n /\ n \in 1 .. n
    OBVIOUS
  <2>2. Front(SubSeq(s, 1, n)) = SubSeq(SubSeq(s, 1, n), 1, n - 1)
    BY <1>1 DEF Front
  <2>3. Last(SubSeq(s, 1, n)) = s[n]
    BY <1>1, <2>1 DEF Last
  <2> QED
    BY <1>2, <2>1, <2>2, <2>3
<1> QED
  BY <1>1, <1>2, <1>3, <1>4, <1>5

\* The joins of a path are its first parts, which all lead to a table; they are
\* all its parts only when its last part leads to many rows.
LEMMA JoinsOfPath ==
  ASSUME NEW parts, NEW scopes, IsWalk(parts, scopes), Len(parts) > 0
  PROVE  \E k \in 0 .. Len(parts) :
           /\ OrmPath(parts).joins = SubSeq(parts, 1, k)
           /\ \A i \in 1 .. k : Leads(parts[i])
           /\ k = Len(parts) => Many(parts[k])
<1> DEFINE n == Len(parts)
           steps == IF SkipsJoin(parts) THEN Front(parts) ELSE parts
           end == Last(steps)
           m == IF SkipsJoin(parts) THEN n - 1 ELSE n
<1>1. parts \in Seq(Parts) /\ n \in Nat /\ n > 0
  BY DEF IsWalk
<1>2. m \in 1 .. n
  BY <1>1 DEF SkipsJoin
<1>3. steps = SubSeq(parts, 1, m)
  BY <1>1, <1>2, Prefix DEF Front
<1>4. end = parts[m] /\ Front(steps) = SubSeq(parts, 1, m - 1)
  <2>1. m \in 0 .. Len(parts) /\ m > 0
    BY <1>2
  <2> HIDE DEF m, steps
  <2> QED
    BY <1>1, <1>3, <2>1, Prefix
<1>5. \A i \in 1 .. n - 1 : Leads(parts[i])
  BY DEF IsWalk
<1>6. CASE end.reverse \/ Kind(end) \in ToMany
  <2>1. OrmPath(parts).joins = steps
    BY <1>6 DEF OrmPath
  <2>2. Leads(end) /\ Many(end)
    BY <1>6 DEF Leads, Many, ToMany
  <2> HIDE DEF steps, end, m
  <2> QED
    BY <1>1, <1>2, <1>3, <1>4, <1>5, <2>1, <2>2
<1>7. CASE ~(end.reverse \/ Kind(end) \in ToMany)
  <2>1. OrmPath(parts).joins = Front(steps)
    BY <1>7 DEF OrmPath
  <2>2. m - 1 \in 0 .. n /\ m - 1 # n
    BY <1>1, <1>2
  <2> HIDE DEF steps, end, m
  <2> QED
    BY <1>1, <1>2, <1>4, <1>5, <2>1, <2>2
<1> QED
  BY <1>6, <1>7

\* A condition on a column that the scopes include, with the identifiers it stands for.
Permitted(c, scopes) ==
  LET t == IF c.joins = <<>> THEN Root ELSE TargetOf(Last(c.joins))
      f == Fields(t)[c.column]
  IN  /\ f.filter \subseteq scopes
      /\ \A i \in f.ids : Fields(f.to)[i].filter \subseteq scopes

\* The key of the rows that a permitted part leads to is permitted when there are
\* many: it was the field of the part, one of its identifiers, or nothing protects it.
LEMMA KeyPermitted ==
  ASSUME NEW p \in Parts, NEW scopes, MayFilter(p, scopes),
         p.reverse \/ Kind(p) \in ToMany
  PROVE  LET f == Fields(TargetOf(p))[Identifier(TargetOf(p))]
         IN  f.filter \subseteq scopes /\ f.ids = {}
<1> DEFINE t == TargetOf(p)
           f == Fields(t)[Identifier(t)]
<1>1. t \in DOMAIN Schema
  <2>1. Leads(p)
    BY DEF Leads, ToMany
  <2> QED
    BY <2>1, PartTypes
<1>2. f.ids = {}
  BY <1>1, SchemaAssumption DEF SchemaTables
<1>3. CASE p.reverse
  <2>1. FieldOf(p) = f
    BY <1>3 DEF FieldOf
  <2> QED
    BY <1>2, <2>1 DEF MayFilter
<1>4. CASE ~p.reverse
  <2> DEFINE g == Fields(p.table)[p.name]
  <2>1. FieldOf(p) = g /\ t = g.to /\ Kind(p) = g.kind
    BY <1>4 DEF FieldOf, TargetOf, Kind
  <2>2. p.table \in DOMAIN Schema /\ p.name \in DOMAIN Fields(p.table)
    BY <1>4, PartTypes
  <2>3. CASE g.kind = "m2m"
    <3>1. Identifier(g.to) \in g.ids
      BY <2>2, <2>3, SchemaAssumption DEF SchemaTables
    <3>2. Fields(g.to)[Identifier(g.to)].filter \subseteq scopes
      BY <2>1, <3>1 DEF MayFilter
    <3> QED
      BY <1>2, <2>1, <3>2
  <2>4. CASE g.kind = "nested"
    <3>1. g.kind = "nested" => Fields(g.to)[Identifier(g.to)].filter = {}
      BY <2>2, SchemaAssumption DEF SchemaTables
    <3>2. Fields(g.to)[Identifier(g.to)].filter = {}
      BY <2>4, <3>1
    <3> QED
      BY <1>2, <2>1, <3>2
  <2> QED
    BY <1>4, <2>1, <2>3, <2>4 DEF ToMany
<1> QED
  BY <1>3, <1>4

\* What is compared at the end of a path is permitted, also when the join to the
\* last table is left out.
LEMMA OrmPathPermitted ==
  ASSUME NEW parts, NEW scopes, IsWalk(parts, scopes), Len(parts) > 0
  PROVE  Permitted(OrmPath(parts), scopes)
<1> DEFINE n == Len(parts)
           steps == IF SkipsJoin(parts) THEN Front(parts) ELSE parts
           end == Last(steps)
           m == IF SkipsJoin(parts) THEN n - 1 ELSE n
           c == OrmPath(parts)
<1>1. parts \in Seq(Parts) /\ n \in Nat /\ n > 0
  BY DEF IsWalk
<1>2. m \in 1 .. n
  BY <1>1 DEF SkipsJoin
<1>3. steps = SubSeq(parts, 1, m)
  BY <1>1, <1>2, Prefix DEF Front
<1>4. /\ end = parts[m] /\ Front(steps) = SubSeq(parts, 1, m - 1)
      /\ Len(steps) = m /\ steps \in Seq(Parts)
  <2>1. m \in 0 .. Len(parts) /\ m > 0
    BY <1>2
  <2> HIDE DEF m, steps
  <2> QED
    BY <1>1, <1>3, <2>1, Prefix
<1>5. end \in Parts /\ MayFilter(end, scopes)
  <2> HIDE DEF steps, m, end
  <2> QED
    BY <1>1, <1>2, <1>4 DEF IsWalk
<1>6. CASE end.reverse \/ Kind(end) \in ToMany
  <2>1. c.joins = steps /\ c.column = Identifier(TargetOf(end))
    BY <1>6 DEF OrmPath
  <2>2. c.joins # <<>> /\ Last(c.joins) = end
    BY <1>2, <1>4, <2>1
  <2> HIDE DEF steps, m, end, c
  <2>3. Permitted(c, scopes)
    BY <1>5, <1>6, <2>1, <2>2, KeyPermitted DEF Permitted
  <2> QED
    BY <2>3 DEF c
<1>7. CASE ~(end.reverse \/ Kind(end) \in ToMany)
  <2>1. c.joins = Front(steps) /\ c.column = end.name
    BY <1>7 DEF OrmPath
  <2>2. FieldOf(end) = Fields(end.table)[end.name]
    BY <1>7 DEF FieldOf
  <2>3. end.table = IF c.joins = <<>> THEN Root ELSE TargetOf(Last(c.joins))
    <3>1. CASE m = 1
      <4>1. c.joins = <<>>
        BY <1>1, <1>4, <2>1, <3>1
      <4>2. end.table = Root
        BY <1>1, <1>4, <3>1 DEF IsWalk
      <4> QED
        BY <4>1, <4>2
    <3>2. CASE m # 1
      <4>1. m - 1 \in 1 .. n - 1 /\ m - 1 \in 0 .. n
        <5> HIDE DEF m
        <5> QED
          BY <1>1, <1>2, <3>2
      <4>2. c.joins # <<>> /\ Last(c.joins) = parts[m - 1]
        <5> HIDE DEF steps, m, end, c
        <5> QED
          BY <1>1, <1>4, <2>1, <4>1, Prefix
      <4>3. parts[(m - 1) + 1].table = TargetOf(parts[m - 1])
        <5> HIDE DEF m
        <5> QED
          BY <4>1 DEF IsWalk
      <4>4. (m - 1) + 1 = m
        BY <1>1
      <4> QED
        BY <1>4, <4>2, <4>3, <4>4
    <3> QED
      BY <3>1, <3>2
  <2> HIDE DEF steps, m, end, c
  <2>4. FieldOf(end).filter \subseteq scopes
        /\ \A i \in FieldOf(end).ids : Fields(FieldOf(end).to)[i].filter \subseteq scopes
    BY <1>5 DEF MayFilter
  <2>5. Permitted(c, scopes)
    BY <2>1, <2>2, <2>3, <2>4 DEF Permitted
  <2> QED
    BY <2>5 DEF c
<1> QED
  BY <1>6, <1>7

(***************************************************************************)
(* Conditions.                                                              *)
(***************************************************************************)
\* An extended function says what it said before.
LEMMA ExtendedKeeps ==
  ASSUME NEW f, NEW g, NEW x \in DOMAIN f
  PROVE  x \in DOMAIN Extended(f, g) /\ Extended(f, g)[x] = f[x]
BY DEF Extended

\* A condition of a path: on what the path ends with, or on a loose relation of it.
FromPath(c, parts) ==
  \/ c.joins = OrmPath(parts).joins /\ c.column = OrmPath(parts).column
  \/ /\ c.lookup = "current"
     /\ \E i \in 1 .. Len(parts) : Loose(parts[i]) /\ c.joins = SubSeq(parts, 1, i)

\* The conditions of a parameter are those of its path, which is a walk.
LEMMA CompiledFromPath ==
  ASSUME NEW key, NEW occurrences, key.path \in Seq(STRING), key.path # <<>>,
         CompileFilter(key, occurrences).error = "none"
  PROVE  \E parts :
           /\ IsWalk(parts, req.scopes) /\ Len(parts) > 0
           /\ CompileFilter(key, occurrences).many = WalksOverMany(parts)
           /\ \A c \in CompileFilter(key, occurrences).q : FromPath(c, parts)
<1> DEFINE parsed == ParseFilterPath(key.path, req.scopes)
           parts == parsed.parts
           raw == TranslateRawValue(key, occurrences, Last(parts))
           compiled == CompileFilter(key, occurrences)
           path == OrmPath(parts)
           rest == TranslateLookup(key, Last(parts), raw.values)
           exists == ChecksExistence(key, FieldOf(Last(parts)))
           condition == Extended(path, rest)
<1>1. parsed.error = "none" /\ compiled = Conditions(key, parts, raw)
  BY DEF CompileFilter, NoCondition
<1>2. IsWalk(parts, req.scopes) /\ Len(parts) > 0
  <2>1. Len(key.path) \in Nat /\ Len(key.path) > 0
    OBVIOUS
  <2> QED
    BY <1>1, <2>1, WalkOfPath
<1>3. /\ compiled.many = WalksOverMany(parts)
      /\ compiled.q = {condition} \cup IF exists THEN {} ELSE TemporalFilters(parts)
  <2> HIDE DEF parts, raw
  <2>1. compiled = Conditions(key, parts, raw) /\ compiled.error = "none"
    BY <1>1
  <2> HIDE DEF compiled
  <2>2. raw.error = "none" /\ key.lookup \in AllowedLookups(FieldOf(Last(parts)))
    BY <2>1 DEF Conditions, NoCondition
  <2>3. compiled = [error |-> "none", many |-> WalksOverMany(parts),
                    refused |-> DjangoRefuses(key, parts),
                    q |-> {condition} \cup IF exists THEN {} ELSE TemporalFilters(parts)]
    BY <2>1, <2>2 DEF Conditions
  <2> HIDE DEF condition, exists
  <2> QED
    BY <2>3
<1>4. condition.joins = path.joins /\ condition.column = path.column
  <2>1. "joins" \in DOMAIN path /\ "column" \in DOMAIN path
    BY DEF OrmPath
  <2> HIDE DEF path, rest
  <2>2. \A x \in {"joins", "column"} : condition[x] = path[x]
    BY <2>1, ExtendedKeeps
  <2> HIDE DEF condition
  <2> QED
    BY <2>2
<1>5. \A c \in TemporalFilters(parts) :
        /\ c.lookup = "current"
        /\ \E i \in 1 .. Len(parts) : Loose(parts[i]) /\ c.joins = SubSeq(parts, 1, i)
  <2>1. parts \in Seq(Parts)
    BY <1>2 DEF IsWalk
  <2> HIDE DEF parts
  <2>2. DOMAIN parts = 1 .. Len(parts)
    BY <2>1
  <2> QED
    BY <2>2 DEF TemporalFilters
<1>6. \A c \in compiled.q : FromPath(c, parts)
  <2> HIDE DEF condition, compiled, parts, path, exists
  <2>1. path = OrmPath(parts)
    BY DEF path
  <2> QED
    BY <1>3, <1>4, <1>5, <2>1 DEF FromPath
<1> QED
  BY <1>2, <1>3, <1>6

\* No refusal of a value is an answer.
LEMMA RawRefused ==
  ASSUME NEW key, NEW occurrences, NEW part
  PROVE  TranslateRawValue(key, occurrences, part).error # "ok"
<1> DEFINE raw == TranslateRawValue(key, occurrences, part)
<1>1. \/ \E vs : raw = Values(vs)
      \/ \E code \in {"400", "500"} : raw = Refusal(code)
  BY DEF TranslateRawValue
<1> QED
  BY <1>1 DEF Values, Refusal

\* Neither is one of a parameter.
LEMMA CompileRefused ==
  ASSUME NEW key, NEW occurrences, key.path \in Seq(STRING)
  PROVE  CompileFilter(key, occurrences).error # "ok"
<1> DEFINE parsed == ParseFilterPath(key.path, req.scopes)
           raw == TranslateRawValue(key, occurrences, Last(parsed.parts))
<1>1. parsed.error # "ok"
  <2>1. Len(key.path) \in Nat
    OBVIOUS
  <2> QED
    BY <2>1, WalkOfPath
<1>2. raw.error # "ok"
  BY RawRefused
<1>3. CompileFilter(key, occurrences) = IF parsed.error # "none" THEN NoCondition(parsed.error)
                                        ELSE Conditions(key, parsed.parts, raw)
  BY DEF CompileFilter
<1> HIDE DEF raw, parsed
<1>4. Conditions(key, parsed.parts, raw).error \in {raw.error, "400", "none"}
  BY DEF Conditions, NoCondition
<1> QED
  BY <1>1, <1>2, <1>3, <1>4 DEF NoCondition

\* What Django refuses of a parameter is a refusal.
LEMMA DjangoRefusal ==
  ASSUME NEW key, NEW occurrences, CompileFilter(key, occurrences).error = "none"
  PROVE  CompileFilter(key, occurrences).refused \in {"none", "400", "500"}
<1> DEFINE parts == ParseFilterPath(key.path, req.scopes).parts
           raw == TranslateRawValue(key, occurrences, Last(parts))
           compiled == CompileFilter(key, occurrences)
<1>1. compiled = Conditions(key, parts, raw)
  BY DEF CompileFilter, NoCondition
<1> HIDE DEF parts, raw
<1>2. \/ \E code : compiled = NoCondition(code)
      \/ compiled.refused = DjangoRefuses(key, parts)
  BY <1>1 DEF Conditions
<1>3. DjangoRefuses(key, parts) \in {"none", "400", "500"}
  BY DEF DjangoRefuses
<1> HIDE DEF compiled
<1>4. compiled.refused \in {"none", "400", "500"}
  BY <1>2, <1>3 DEF NoCondition
<1> QED
  BY <1>4 DEF compiled

\* Every condition of a path is on a permitted column.
LEMMA FromPathPermitted ==
  ASSUME NEW parts, NEW scopes, NEW c,
         IsWalk(parts, scopes), Len(parts) > 0, FromPath(c, parts), c.lookup # "current"
  PROVE  Permitted(c, scopes)
<1>1. c.joins = OrmPath(parts).joins /\ c.column = OrmPath(parts).column
  BY DEF FromPath
<1>2. Permitted(OrmPath(parts), scopes)
  BY OrmPathPermitted
<1> QED
  BY <1>1, <1>2 DEF Permitted

(***************************************************************************)
(* The invariant. The conditions of a query come from walks, and from walks *)
(* over single rows as long as nothing asks for DISTINCT.                   *)
(***************************************************************************)
InputsWellFormed == inputs \subseteq {k \in ToSet(Sorted) : WellFormed(k)}

SelectedAccessible == \A n \in selected \ PrimaryKey : HasFieldAccess(Fields(Root)[n])

RefusalTyped == refusal \in {"none", "400", "500"}

SortsAccepted ==
  status = "ok" =>
    \A i \in DOMAIN req.sort : ParseFilterPath(req.sort[i], req.scopes).error = "none"

ConditionsOfWalks ==
  \A c \in q : \E parts :
    /\ IsWalk(parts, req.scopes) /\ Len(parts) > 0
    /\ FromPath(c, parts)
    /\ distinct \/ ~WalksOverMany(parts)

QueryInv ==
  /\ req \in Requests
  /\ db \in Databases
  /\ InputsWellFormed
  /\ SelectedAccessible
  /\ RefusalTyped
  /\ SortsAccepted
  /\ ConditionsOfWalks

\* No column is left out only when all of them are accessible: there are as many
\* fields as columns and the field schema.
LEMMA NothingLeftOut ==
  ASSUME NEW available \in SUBSET DOMAIN Fields(Root),
         ~(Cardinality(AllFields) - 1 > Cardinality(available))
  PROVE  available = DOMAIN Fields(Root)
<1> DEFINE D == DOMAIN Fields(Root)
<1>1. IsFiniteSet(D) /\ "schema" \notin D
  BY SchemaAssumption DEF SchemaTables
<1>2. Cardinality(D) \in Nat /\ Cardinality(AllFields) = Cardinality(D) + 1
  BY <1>1, FS_CardinalityType, FS_AddElement DEF AllFields
<1>3. Cardinality(available) \in Nat /\ Cardinality(available) >= Cardinality(D)
  <2>1. Cardinality(available) \in Nat
    BY <1>1, FS_Subset, FS_CardinalityType
  <2> QED
    BY <1>2, <2>1
<1> QED
  BY <1>1, <1>2, <1>3, FS_Subset

LEMMA InitQueryInv ==
  Init => QueryInv
BY DEF Init, QueryInv, InputsWellFormed, SelectedAccessible, ConditionsOfWalks,
       RefusalTyped, SortsAccepted

\* A refusal leaves the query as it is.
LEMMA RefuseKeeps ==
  ASSUME QueryInv, NEW code, Refuse(code), code # "ok"
  PROVE  QueryInv'
BY DEF QueryInv, Refuse, InputsWellFormed, SelectedAccessible, ConditionsOfWalks,
       HasFieldAccess, RefusalTyped, SortsAccepted

\* What is compiled next is well formed.
LEMMA InputTyped ==
  ASSUME QueryInv, NEW i \in DOMAIN Sorted, Sorted[i] \in inputs
  PROVE  Sorted[i].path \in Seq(STRING) /\ Sorted[i].path # <<>>
<1> DEFINE Key == [path : Seq(STRING), lookup : STRING]
<1>1. Sorted \in Seq(Key)
  BY RequestsAssumption
<1>2. Sorted[i] \in Key
  <2> HIDE DEF Key
  <2> QED
    BY <1>1
<1> QED
  BY <1>2 DEF QueryInv, InputsWellFormed, WellFormed

\* The conditions that are added come from the walk of their parameter.
LEMMA AddKeeps ==
  ASSUME QueryInv, NEW key, key.path \in Seq(STRING), key.path # <<>>,
         NEW occurrences, AddConditions(key, CompileFilter(key, occurrences)),
         status # "ok"
  PROVE  QueryInv'
<1> DEFINE compiled == CompileFilter(key, occurrences)
<1>1. CASE compiled.error # "none"
  <2>1. Refuse(compiled.error) /\ compiled.error # "ok"
    BY <1>1, CompileRefused DEF AddConditions
  <2> QED
    BY <2>1, RefuseKeeps
<1>2. CASE compiled.error = "none"
  <2>1. PICK parts :
          /\ IsWalk(parts, req.scopes) /\ Len(parts) > 0
          /\ compiled.many = WalksOverMany(parts)
          /\ \A c \in compiled.q : FromPath(c, parts)
    BY <1>2, CompiledFromPath
  <2>2. /\ inputs' = inputs \ {key}
        /\ q' = q \cup compiled.q
        /\ refusal' = IF refusal = "none" THEN compiled.refused ELSE refusal
        /\ distinct' = (distinct \/ compiled.many)
        /\ UNCHANGED <<db, req, status, selected, listing>>
    BY <1>2 DEF AddConditions
  <2>5. compiled.refused \in {"none", "400", "500"}
    BY <1>2, DjangoRefusal
  <2> HIDE DEF compiled
  <2>6. RefusalTyped'
    BY <2>2, <2>5 DEF QueryInv, RefusalTyped
  <2>3. ASSUME NEW c \in q'
        PROVE  \E ps :
                 /\ IsWalk(ps, req.scopes) /\ Len(ps) > 0
                 /\ FromPath(c, ps)
                 /\ distinct' \/ ~WalksOverMany(ps)
    <3>1. CASE c \in q
      <4>1. PICK ps :
              /\ IsWalk(ps, req.scopes) /\ Len(ps) > 0
              /\ FromPath(c, ps)
              /\ distinct \/ ~WalksOverMany(ps)
        BY <3>1 DEF QueryInv, ConditionsOfWalks
      <4>2. distinct => distinct'
        BY <2>2
      <4> QED
        BY <4>1, <4>2
    <3>2. CASE c \in compiled.q
      <4>1. distinct' \/ ~WalksOverMany(parts)
        BY <2>1, <2>2
      <4> QED
        BY <2>1, <3>2, <4>1
    <3> QED
      BY <2>2, <3>1, <3>2
  <2>4. ConditionsOfWalks'
    BY <2>2, <2>3 DEF ConditionsOfWalks, IsWalk
  <2> QED
    BY <2>2, <2>4, <2>6
       DEF QueryInv, InputsWellFormed, SelectedAccessible, HasFieldAccess, SortsAccepted
<1> QED
  BY <1>1, <1>2

\* An ordering that is answered is one of accepted paths.
LEMMA OrderAccepts ==
  ASSUME req \in Requests, Order, status' = "ok"
  PROVE  /\ SelectInSeq([i \in DOMAIN req.sort |-> ParseFilterPath(req.sort[i], req.scopes)],
                        LAMBDA p : p.error # "none") = 0
         /\ \A i \in DOMAIN req.sort : ParseFilterPath(req.sort[i], req.scopes).error = "none"
<1> DEFINE parsed == [i \in DOMAIN req.sort |-> ParseFilterPath(req.sort[i], req.scopes)]
           wrong == SelectInSeq(parsed, LAMBDA p : p.error # "none")
           I == {i \in 1 .. Len(parsed) : parsed[i].error # "none"}
<1>1. PICK n \in Nat : DOMAIN req.sort = 1 .. n
  <2>1. req.sort \in Seq(Seq(STRING) \ {<<>>})
    BY RequestsAssumption
  <2> QED
    BY <2>1
<1>2. /\ DOMAIN parsed = 1 .. n /\ Len(parsed) = n
      /\ \A i \in 1 .. n : parsed[i] = ParseFilterPath(req.sort[i], req.scopes)
  BY <1>1
<1>3. \A i \in 1 .. n : parsed[i].error \in {"none", "400", "403"}
  <2> TAKE i \in 1 .. n
  <2>1. req.sort \in Seq(Seq(STRING) \ {<<>>}) /\ i \in DOMAIN req.sort
    BY <1>1, RequestsAssumption
  <2>2. req.sort[i] \in Seq(STRING)
    BY <2>1
  <2>3. Len(req.sort[i]) \in Nat
    BY <2>2
  <2> HIDE DEF parsed
  <2> QED
    BY <1>2, <2>3, WalkOfPath
<1>4. wrong = IF I # {} THEN Min(I) ELSE 0
  BY DEF SelectInSeq
<1>5. I = {}
  <2> SUFFICES ASSUME I # {}
               PROVE  FALSE
    OBVIOUS
  <2>1. I \subseteq Nat
    <3> HIDE DEF parsed
    <3> QED
      BY <1>2
  <2>2. Min(I) \in I
    <3> HIDE DEF I
    <3> QED
      BY <2>1, MinIsMember
  <2>3. wrong \in I
    BY <1>4, <2>2
  <2>4. wrong \in 1 .. n /\ wrong # 0
    <3>1. \A i \in I : i \in 1 .. n /\ i # 0
      <4> HIDE DEF parsed
      <4> QED
        BY <1>2
    <3> HIDE DEF I, wrong
    <3> QED
      BY <2>3, <3>1
  <2>5. Refuse(parsed[wrong].error)
    <3> HIDE DEF I
    <3> QED
      BY <2>4 DEF Order
  <2> HIDE DEF I, wrong, parsed
  <2> QED
    BY <1>3, <2>4, <2>5 DEF Refuse
<1>6. wrong = 0 /\ \A i \in 1 .. n : parsed[i].error = "none"
  <2>1. \A i \in 1 .. n : i \notin I
    BY <1>5
  <2> HIDE DEF parsed, wrong
  <2> QED
    BY <1>2, <1>4, <1>5, <2>1
<1> QED
  BY <1>1, <1>2, <1>6

LEMMA StepQueryInv ==
  ASSUME QueryInv, [Next]_vars
  PROVE  QueryInv'
<1> USE DEF QueryInv, RefusalTyped, SortsAccepted
<1>1. CASE CheckPermission
  <2>1. CASE Schema[Root].auth \subseteq req.scopes
    BY <1>1, <2>1
       DEF CheckPermission, InputsWellFormed, SelectedAccessible, ConditionsOfWalks, HasFieldAccess
  <2>2. CASE ~(Schema[Root].auth \subseteq req.scopes)
    BY <1>1, <2>2, RefuseKeeps DEF CheckPermission
  <2> QED
    BY <2>1, <2>2
<1>2. CASE LimitQueryset
  <2> DEFINE available == {n \in DOMAIN Fields(Root) : HasFieldAccess(Fields(Root)[n])}
  <2>1. /\ selected' = IF Cardinality(AllFields) - 1 > Cardinality(available)
                       THEN available \cup PrimaryKey ELSE DOMAIN Fields(Root)
        /\ status' # "ok"
        /\ UNCHANGED <<db, req, inputs, q, refusal, distinct, listing>>
    BY <1>2 DEF LimitQueryset
  <2>2. available \in SUBSET DOMAIN Fields(Root)
    OBVIOUS
  <2>3. selected' \subseteq available \cup PrimaryKey
    <3> HIDE DEF available
    <3> QED
      BY <2>1, <2>2, NothingLeftOut
  <2>4. \A n \in selected' \ PrimaryKey : HasFieldAccess(Fields(Root)[n])
    BY <2>3
  <2> QED
    BY <2>1, <2>4 DEF InputsWellFormed, SelectedAccessible, ConditionsOfWalks, HasFieldAccess
<1>3. CASE ParseFilters
  <2> DEFINE keys == DOMAIN Given \ NonFilterParams
  <2>1. CASE \E k \in keys : ~WellFormed(k)
    <3>1. Refuse("400")
      BY <1>3, <2>1 DEF ParseFilters
    <3> QED
      BY <3>1, RefuseKeeps
  <2>2. CASE ~ \E k \in keys : ~WellFormed(k)
    <3>1. /\ inputs' = keys /\ status' # "ok"
          /\ UNCHANGED <<db, req, q, refusal, distinct, selected, listing>>
      BY <1>3, <2>2 DEF ParseFilters
    <3>2. keys \subseteq ToSet(Sorted)
      BY RequestsAssumption DEF Given, Extended
    <3>3. InputsWellFormed'
      BY <2>2, <3>1, <3>2 DEF InputsWellFormed
    <3> QED
      BY <3>1, <3>3 DEF SelectedAccessible, ConditionsOfWalks, HasFieldAccess
  <2> QED
    BY <2>1, <2>2
<1>4. CASE Compile
  <2>1. PICK i \in DOMAIN Sorted : Sorted[i] \in inputs /\ CompileInput(Sorted[i])
    BY <1>4 DEF Compile
  <2> DEFINE key == Sorted[i]
  <2>2. key \in inputs /\ key.path \in Seq(STRING) /\ key.path # <<>>
    BY <2>1, InputTyped
  <2>3. CompileInput(key)
    BY <2>1
  <2> HIDE DEF key
  <2>4. \/ Refuse("403")
        \/ /\ inputs' = inputs \ {key}
           /\ UNCHANGED <<db, req, status, q, refusal, distinct, selected, listing>>
        \/ AddConditions(key, CompileFilter(key, Given[key]))
    BY <2>3 DEF CompileInput
  <2>5. CASE Refuse("403")
    BY <2>5, RefuseKeeps
  <2>6. CASE /\ inputs' = inputs \ {key}
             /\ UNCHANGED <<db, req, status, q, refusal, distinct, selected, listing>>
    BY <2>6 DEF InputsWellFormed, SelectedAccessible, ConditionsOfWalks, HasFieldAccess
  <2>7. CASE AddConditions(key, CompileFilter(key, Given[key]))
    <3>1. status # "ok"
      BY <1>4 DEF Compile
    <3> QED
      BY <2>2, <2>7, <3>1, AddKeeps
  <2> QED
    BY <2>4, <2>5, <2>6, <2>7
<1>5. CASE FilterQueryset
  <2>1. \/ Refuse("500")
        \/ Refuse("400")
        \/ /\ status' # "ok"
           /\ UNCHANGED <<db, req, inputs, q, refusal, distinct, selected, listing>>
    BY <1>5 DEF FilterQueryset
  <2>2. CASE /\ status' # "ok"
             /\ UNCHANGED <<db, req, inputs, q, refusal, distinct, selected, listing>>
    BY <2>2 DEF InputsWellFormed, SelectedAccessible, ConditionsOfWalks, HasFieldAccess
  <2> QED
    BY <2>1, <2>2, RefuseKeeps
<1>6. CASE Order
  <2>1. UNCHANGED <<db, req, inputs, q, refusal, distinct, selected>>
    BY <1>6 DEF Order, Refuse
  <2>2. SortsAccepted'
    <3>1. CASE status' = "ok"
      BY <1>6, <2>1, <3>1, OrderAccepts
    <3> QED
      BY <3>1
  <2> QED
    BY <2>1, <2>2 DEF InputsWellFormed, SelectedAccessible, ConditionsOfWalks, HasFieldAccess
<1>7. CASE UNCHANGED vars
  BY <1>7 DEF vars, InputsWellFormed, SelectedAccessible, ConditionsOfWalks, HasFieldAccess
<1> QED
  BY <1>1, <1>2, <1>3, <1>4, <1>5, <1>6, <1>7 DEF Next

\* Conditions of walks are on permitted columns only.
LEMMA WalksPermitted ==
  QueryInv => ColumnsPermitted
<1> SUFFICES ASSUME QueryInv
             PROVE  ColumnsPermitted
  OBVIOUS
<1>1. ASSUME NEW c \in q, c.lookup # "current"
      PROVE  Permitted(c, req.scopes)
  <2>1. PICK parts : IsWalk(parts, req.scopes) /\ Len(parts) > 0 /\ FromPath(c, parts)
    BY DEF QueryInv, ConditionsOfWalks
  <2> QED
    BY <1>1, <2>1, FromPathPermitted
<1>2. ASSUME NEW c \in OrderColumns
      PROVE  Permitted(c, req.scopes)
  <2>1. PICK path \in ToSet(req.sort) :
          status = "ok" /\ c = OrmPath(ParseFilterPath(path, req.scopes).parts)
    BY DEF OrderColumns
  <2>2. PICK i \in DOMAIN req.sort : path = req.sort[i]
    BY <2>1 DEF ToSet
  <2>3. ParseFilterPath(path, req.scopes).error = "none"
    BY <2>1, <2>2 DEF QueryInv, SortsAccepted
  <2>4. Len(path) \in Nat /\ Len(path) > 0
    <3>1. req.sort \in Seq(Seq(STRING) \ {<<>>})
      BY RequestsAssumption DEF QueryInv
    <3>2. path \in Seq(STRING) \ {<<>>}
      BY <2>2, <3>1
    <3> QED
      BY <3>2
  <2> DEFINE parts == ParseFilterPath(path, req.scopes).parts
  <2>5. IsWalk(parts, req.scopes) /\ Len(parts) > 0
    BY <2>3, <2>4, WalkOfPath
  <2> HIDE DEF parts
  <2>6. Permitted(OrmPath(parts), req.scopes)
    BY <2>5, OrmPathPermitted
  <2> QED
    BY <2>1, <2>6 DEF parts
<1>3. \A c \in {d \in q : d.lookup # "current"} \cup OrderColumns : Permitted(c, req.scopes)
  BY <1>1, <1>2
<1> QED
  BY <1>3 DEF QueryInv, SelectedAccessible, ColumnsPermitted, Permitted

\* No query reads or compares a column that the scopes of the request exclude, save the
\* primary key of the list: not in its filters, nor in its ordering, nor where a stored
\* identifier stands for a field of another table (limit_queryset_for_scopes,
\* check_filter_field_access and _to_orm_path).
THEOREM OnlyPermittedColumns ==
  Spec => []ColumnsPermitted
<1>1. Init => QueryInv
  BY InitQueryInv
<1>2. QueryInv /\ [Next]_vars => QueryInv'
  BY StepQueryInv
<1>3. QueryInv => ColumnsPermitted
  BY WalksPermitted
<1> QED
  BY <1>1, <1>2, <1>3, PTL DEF Spec

(***************************************************************************)
(* The rows of a query.                                                     *)
(***************************************************************************)
\* A joined path consists of a joined path, or nothing, and one more part.
LEMMA JoinedPaths ==
  ASSUME NEW paths, paths \subseteq Seq(Parts)
  PROVE  /\ \A x \in Joins(paths) :
              /\ x \in Seq(Parts) /\ Len(x) > 0
              /\ Len(x) = 1 => Front(x) = <<>>
              /\ Len(x) > 1 => Front(x) \in Joins(paths) /\ Len(Front(x)) = Len(x) - 1
              /\ \E p \in paths : \E i \in 1 .. Len(p) : x = SubSeq(p, 1, i)
         /\ \A p \in paths : \A i \in 1 .. Len(p) : SubSeq(p, 1, i) \in Joins(paths)
<1> DEFINE Of(p) == {SubSeq(p, 1, i) : i \in 1 .. Len(p)}
<1>1. Joins(paths) = UNION {Of(p) : p \in paths}
  BY DEF Joins
<1>2. ASSUME NEW p \in paths, NEW i \in 1 .. Len(p)
      PROVE  SubSeq(p, 1, i) \in Joins(paths)
  <2>1. SubSeq(p, 1, i) \in Of(p)
    OBVIOUS
  <2> HIDE DEF Of
  <2> QED
    BY <1>1, <2>1
<1>3. ASSUME NEW x \in Joins(paths)
      PROVE  /\ x \in Seq(Parts) /\ Len(x) > 0
             /\ Len(x) = 1 => Front(x) = <<>>
             /\ Len(x) > 1 => Front(x) \in Joins(paths) /\ Len(Front(x)) = Len(x) - 1
             /\ \E p \in paths : \E i \in 1 .. Len(p) : x = SubSeq(p, 1, i)
  <2>1. PICK p \in paths : x \in Of(p)
    <3> HIDE DEF Of
    <3> QED
      BY <1>1
  <2>2. PICK i \in 1 .. Len(p) : x = SubSeq(p, 1, i)
    BY <2>1
  <2>3. p \in Seq(Parts) /\ i \in 0 .. Len(p) /\ i > 0
    BY <2>2
  <2>4. x \in Seq(Parts) /\ Len(x) = i /\ Front(x) = SubSeq(p, 1, i - 1)
    BY <2>2, <2>3, Prefix
  <2>5. i = 1 => Front(x) = <<>>
    BY <2>3, <2>4, Prefix
  <2>6. i > 1 => Front(x) \in Joins(paths) /\ Len(Front(x)) = i - 1
    <3> SUFFICES ASSUME i > 1
                 PROVE  Front(x) \in Joins(paths) /\ Len(Front(x)) = i - 1
      OBVIOUS
    <3>1. i - 1 \in 1 .. Len(p) /\ i - 1 \in 0 .. Len(p)
      BY <2>2, <2>3
    <3> QED
      BY <1>2, <2>3, <2>4, <3>1, Prefix
  <2> QED
    BY <2>2, <2>3, <2>4, <2>5, <2>6
<1> QED
  BY <1>2, <1>3

\* What a row of the query is: a row for the main table and for every joined path,
\* one of those that the row before it is related to.
IsRowOf(r, paths) ==
  /\ r = [p \in {<<>>} \cup Joins(paths) |-> r[p]]
  /\ \A p \in Joins(paths) : r[p] \in Joined(r, p)

\* The same up to paths of length n.
IsRowUpTo(r, paths, n) ==
  /\ r = [p \in {<<>>} \cup {p \in Joins(paths) : Len(p) <= n} |-> r[p]]
  /\ \A p \in Joins(paths) : Len(p) <= n => r[p] \in Joined(r, p)

\* Joining the paths of the next length extends such a row.
LEMMA JoinLevel ==
  ASSUME NEW paths, paths \subseteq Seq(Parts), NEW n \in Nat,
         NEW r, IsRowUpTo(r, paths, n),
         NEW x \in Extensions(r, {p \in Joins(paths) : Len(p) = n + 1})
  PROVE  IsRowUpTo(Extended(r, x), paths, n + 1)
<1> DEFINE J == Joins(paths)
           D == {<<>>} \cup {p \in J : Len(p) <= n}
           L == {p \in J : Len(p) = n + 1}
           E == {<<>>} \cup {p \in J : Len(p) <= n + 1}
           s == Extended(r, x)
<1>1. \A p \in J : Len(p) \in Nat /\ Len(p) > 0
  BY JoinedPaths
<1>2. DOMAIN r = D
  BY DEF IsRowUpTo
<1>3. DOMAIN x = L /\ \A p \in L : x[p] \in Joined(r, p)
  BY DEF Extensions
<1>4. D \cup L = E
  BY <1>1
<1>5. s = [p \in E |-> IF p \in D THEN r[p] ELSE x[p]]
  <2>1. s = [p \in D \cup L |-> IF p \in D THEN r[p] ELSE x[p]]
    <3> HIDE DEF D, L
    <3> QED
      BY <1>2, <1>3 DEF Extended
  <2> HIDE DEF D, L, E, s
  <2> QED
    BY <1>4, <2>1
<1>6. s = [p \in E |-> s[p]]
  <2> HIDE DEF D, E, s
  <2> QED
    BY <1>5
<1>7. ASSUME NEW p \in J, Len(p) <= n + 1
      PROVE  s[p] \in Joined(s, p)
  <2>1. s[Front(p)] = r[Front(p)]
    <3>1. Front(p) \in D
      <4>1. CASE Len(p) = 1
        BY <4>1, JoinedPaths
      <4>2. CASE Len(p) > 1
        <5>1. Front(p) \in J /\ Len(Front(p)) = Len(p) - 1
          BY <4>2, JoinedPaths
        <5> QED
          BY <1>1, <1>7, <5>1
      <4>3. Len(p) = 1 \/ Len(p) > 1
        <5>1. PICK k \in Nat : k = Len(p) /\ k > 0
          BY <1>1
        <5>2. k = 1 \/ k > 1
          BY <5>1
        <5> QED
          BY <5>1, <5>2
      <4> QED
        BY <4>1, <4>2, <4>3
    <3>2. Front(p) \in E
      BY <1>4, <3>1
    <3> HIDE DEF s, D, E
    <3> QED
      BY <1>5, <3>1, <3>2
  <2>2. Joined(s, p) = Joined(r, p)
    <3> HIDE DEF s
    <3> QED
      BY <2>1 DEF Joined
  <2>3. CASE Len(p) <= n
    <3>1. s[p] = r[p]
      <4>1. p \in D /\ p \in E
        BY <1>7, <2>3
      <4> HIDE DEF s, D, E
      <4> QED
        BY <1>5, <4>1
    <3>2. r[p] \in Joined(r, p)
      BY <2>3 DEF IsRowUpTo
    <3> QED
      BY <2>2, <3>1, <3>2
  <2>4. CASE ~(Len(p) <= n)
    <3>1. Len(p) = n + 1 /\ p # <<>>
      BY <1>1, <1>7, <2>4
    <3>2. p \in L /\ p \in E /\ p \notin D
      BY <1>7, <2>4, <3>1
    <3>3. s[p] = x[p]
      <4> HIDE DEF s, D, E, L
      <4> QED
        BY <1>5, <3>2
    <3> QED
      BY <1>3, <2>2, <3>2, <3>3
  <2> QED
    BY <2>3, <2>4
<1> QED
  BY <1>6, <1>7 DEF IsRowUpTo

\* The query joins level by level, up to the longest path, and nothing is left.
LEMMA RowsAreJoined ==
  ASSUME NEW paths, paths \subseteq Seq(Parts), NEW b \in Nat, \A p \in paths : Len(p) <= b,
         NEW r \in QueryRows(paths)
  PROVE  IsRowOf(r, paths)
<1> DEFINE J == Joins(paths)
           Level(n) == {p \in J : Len(p) = n}
           main == {x \in db[Root] : Schema[Root].dimensions # {} => x.current}
           lengths == {0} \cup {Len(p) : p \in J}
           depth == Max(lengths)
           Begin == {[p \in {<<>>} |-> x] : x \in main}
           Join(rows, n) == UNION {{Extended(y, x) : x \in Extensions(y, Level(n))} : y \in rows}
           Is(f, n) == f = [i \in 0 .. n |-> IF i = 0 THEN Begin ELSE Join(f[i - 1], i)]
           T == {n \in Nat : \E f : Is(f, n)}
           joined == CHOOSE f : Is(f, depth)
<1>1. \A p \in J : Len(p) \in Nat /\ Len(p) > 0 /\ Len(p) <= b
  <2> TAKE p \in J
  <2>1. p \in Seq(Parts) /\ Len(p) > 0
    BY JoinedPaths
  <2>2. PICK y \in paths : \E i \in 1 .. Len(y) : p = SubSeq(y, 1, i)
    BY JoinedPaths
  <2>3. PICK i \in 1 .. Len(y) : p = SubSeq(y, 1, i)
    BY <2>2
  <2>4. y \in Seq(Parts) /\ i \in 0 .. Len(y) /\ Len(y) <= b
    BY <2>3
  <2>5. Len(p) = i
    BY <2>3, <2>4, Prefix
  <2> QED
    BY <2>1, <2>4, <2>5
<1>2. depth \in Nat /\ \A p \in J : Len(p) <= depth
  <2>1. lengths \subseteq Nat /\ lengths # {} /\ \A n \in lengths : n <= b
    BY <1>1
  <2>2. \A p \in J : Len(p) \in lengths
    OBVIOUS
  <2> HIDE DEF lengths
  <2> QED
    BY <2>1, <2>2, GreatestElement
<1> HIDE DEF depth
<1>3. 0 \in T
  <2>1. Is([i \in 0 .. 0 |-> Begin], 0)
    OBVIOUS
  <2> QED
    BY <2>1
<1>4. ASSUME NEW n \in Nat, n \in T
      PROVE  n + 1 \in T
  <2>1. PICK f : Is(f, n)
    BY <1>4
  <2> HIDE DEF Join, Begin
  <2>2. PICK g : g = [i \in 0 .. n + 1 |-> IF i = n + 1 THEN Join(f[n], i) ELSE f[i]]
    OBVIOUS
  <2>3. \A i \in 0 .. n : g[i] = f[i]
    BY <2>2
  <2>4. \A i \in 0 .. n : f[i] = IF i = 0 THEN Begin ELSE Join(f[i - 1], i)
    BY <2>1
  <2>5. ASSUME NEW i \in 0 .. n + 1
        PROVE  g[i] = IF i = 0 THEN Begin ELSE Join(g[i - 1], i)
    <3>1. CASE i = n + 1
      <4>1. n \in 0 .. n /\ i - 1 = n /\ i # 0
        BY <3>1
      <4> QED
        BY <2>2, <2>3, <3>1, <4>1
    <3>2. CASE i # n + 1 /\ i # 0
      <4>1. i \in 0 .. n /\ i - 1 \in 0 .. n
        BY <3>2
      <4> QED
        BY <2>3, <2>4, <3>2, <4>1
    <3>3. CASE i # n + 1 /\ i = 0
      BY <2>3, <2>4, <3>3
    <3> QED
      BY <3>1, <3>2, <3>3
  <2>6. Is(g, n + 1)
    BY <2>2, <2>5
  <2> QED
    BY <2>6
<1>5. Is(joined, depth)
  <2>1. Nat \subseteq T
    <3> HIDE DEF T
    <3> QED
      BY <1>3, <1>4, Induction
  <2>2. \E f : Is(f, depth)
    BY <1>2, <2>1
  <2> QED
    BY <2>2
<1>6. QueryRows(paths) = joined[depth]
  BY DEF QueryRows, depth
<1>7. /\ joined[0] = Begin
      /\ \A i \in 1 .. depth : joined[i] = Join(joined[i - 1], i)
  <2> HIDE DEF joined, Begin, Join
  <2> QED
    BY <1>2, <1>5
<1> HIDE DEF joined
<1> DEFINE W == {n \in Nat : n <= depth => \A y \in joined[n] : IsRowUpTo(y, paths, n)}
<1>8. 0 \in W
  <2> SUFFICES ASSUME NEW y \in joined[0]
               PROVE  IsRowUpTo(y, paths, 0)
    OBVIOUS
  <2>1. PICK x \in main : y = [p \in {<<>>} |-> x]
    BY <1>7
  <2>2. {<<>>} \cup {p \in J : Len(p) <= 0} = {<<>>}
    BY <1>1
  <2>3. y = [p \in {<<>>} |-> y[p]]
    BY <2>1
  <2>4. \A p \in J : ~(Len(p) <= 0)
    BY <1>1
  <2> QED
    BY <2>2, <2>3, <2>4 DEF IsRowUpTo
<1>9. ASSUME NEW n \in Nat, n \in W
      PROVE  n + 1 \in W
  <2> SUFFICES ASSUME n + 1 <= depth, NEW y \in joined[n + 1]
               PROVE  IsRowUpTo(y, paths, n + 1)
    OBVIOUS
  <2>1. joined[n + 1] = Join(joined[n], n + 1)
    <3>1. n + 1 \in 1 .. depth /\ (n + 1) - 1 = n
      BY <1>2
    <3> HIDE DEF Join
    <3> QED
      BY <1>7, <3>1
  <2>2. PICK z \in joined[n] : \E x \in Extensions(z, Level(n + 1)) : y = Extended(z, x)
    BY <2>1
  <2>3. IsRowUpTo(z, paths, n)
    BY <1>2, <1>9, <2>2
  <2> QED
    BY <2>2, <2>3, JoinLevel
<1>10. IsRowUpTo(r, paths, depth)
  <2>1. Nat \subseteq W
    <3> HIDE DEF W
    <3> QED
      BY <1>8, <1>9, Induction
  <2> QED
    BY <1>2, <1>6, <2>1
<1>11. {<<>>} \cup {p \in J : Len(p) <= depth} = {<<>>} \cup J
  BY <1>2
<1> QED
  BY <1>2, <1>10, <1>11 DEF IsRowUpTo, IsRowOf

(***************************************************************************)
(* Which rows are single.                                                   *)
(***************************************************************************)
\* A part that leads to one row at most, or to one that is current.
LEMMA OneRow ==
  ASSUME db \in Databases, NEW p \in Parts, Leads(p), ~Many(p),
         NEW row, NEW v \in Related(row, p), NEW w \in Related(row, p),
         Loose(p) => v.current /\ w.current
  PROVE  v = w
<1> DEFINE f == Fields(p.table)[p.name]
           ids == IF f.kind = "composite" THEN f.ids ELSE {Identifier(f.to)}
<1>1. ~p.reverse
  BY DEF Many
<1>2. p.table \in DOMAIN Schema /\ p.name \in DOMAIN Fields(p.table)
  BY <1>1, PartTypes
<1>3. Kind(p) = f.kind /\ FieldOf(p) = f /\ TargetOf(p) = f.to
  BY <1>1 DEF Kind, FieldOf, TargetOf
<1>4. f.kind \in ToOne
  <2>1. f.kind \in {"column"} \cup ToOne \cup ToMany
    BY <1>2, SchemaAssumption DEF SchemaTables
  <2> QED
    BY <1>1, <1>3, <2>1 DEF Leads, Many
<1>5. /\ v \in db[f.to] /\ RefersTo(row[p.name], f, v)
      /\ w \in db[f.to] /\ RefersTo(row[p.name], f, w)
  <2>1. Related(row, p) \subseteq {r \in db[f.to] : RefersTo(row[p.name], f, r)}
    BY <1>1, <1>3 DEF Related
  <2> HIDE DEF f
  <2> QED
    BY <2>1
<1>6. \A i \in ids : v[i] = w[i]
  <2>1. CASE f.kind \in {"fk", "loose"}
    <3>1. v[Identifier(f.to)] = row[p.name] /\ w[Identifier(f.to)] = row[p.name]
      <4> HIDE DEF f
      <4> QED
        BY <1>5, <2>1 DEF RefersTo, ToMany
    <3> QED
      BY <2>1, <3>1
  <2>2. CASE f.kind = "composite"
    <3>1. \A i \in f.ids : v[i] = row[p.name][i] /\ w[i] = row[p.name][i]
      <4> HIDE DEF f
      <4> QED
        BY <1>5, <2>2 DEF RefersTo, ToMany
    <3> QED
      BY <2>2, <3>1
  <2> QED
    BY <1>4, <2>1, <2>2 DEF ToOne
<1>7. f \in Range(Fields(p.table))
  BY <1>2 DEF Range
<1>8. f.kind = "loose" => v.current /\ w.current
  BY <1>3 DEF Loose
<1>9. \A x, y \in db[f.to] :
        (/\ \A i \in ids : x[i] = y[i]
         /\ f.kind = "loose" => x.current /\ y.current) => x = y
  <2> HIDE DEF f
  <2> QED
    BY <1>2, <1>4, <1>7, DatabasesAssumption
<1> QED
  BY <1>5, <1>6, <1>8, <1>9

\* A path along which single rows are joined: only its last relation may be loose,
\* and then the row it leads to is current.
Determines(p, r) ==
  /\ p \in Seq(Parts)
  /\ \A i \in 1 .. Len(p) :
       /\ Leads(p[i]) /\ ~Many(p[i])
       /\ Loose(p[i]) => i = Len(p) /\ r[p] # NoRow /\ r[p].current

\* Two rows of the query with the same row of the main table agree on such a path.
LEMMA SameAlong ==
  ASSUME db \in Databases, NEW paths, paths \subseteq Seq(Parts),
         NEW r, NEW s, IsRowOf(r, paths), IsRowOf(s, paths), r[<<>>] = s[<<>>],
         NEW p \in paths, Determines(p, r), Determines(p, s)
  PROVE  \A i \in 0 .. Len(p) : r[SubSeq(p, 1, i)] = s[SubSeq(p, 1, i)]
<1> DEFINE T == {n \in Nat : n <= Len(p) => r[SubSeq(p, 1, n)] = s[SubSeq(p, 1, n)]}
<1>1. p \in Seq(Parts)
  OBVIOUS
<1>2. 0 \in T
  <2>1. SubSeq(p, 1, 0) = <<>>
    BY <1>1
  <2> QED
    BY <2>1
<1>3. ASSUME NEW n \in Nat, n \in T
      PROVE  n + 1 \in T
  <2> SUFFICES ASSUME n + 1 <= Len(p)
               PROVE  r[SubSeq(p, 1, n + 1)] = s[SubSeq(p, 1, n + 1)]
    OBVIOUS
  <2> DEFINE x == SubSeq(p, 1, n + 1)
             part == p[n + 1]
             found == Related(r[SubSeq(p, 1, n)], part)
  <2>1. n + 1 \in 1 .. Len(p) /\ n + 1 \in 0 .. Len(p) /\ n + 1 > 0 /\ (n + 1) - 1 = n
    BY <1>1
  <2>2. Front(x) = SubSeq(p, 1, n) /\ Last(x) = part
    BY <1>1, <2>1, Prefix
  <2>3. x \in Joins(paths)
    BY <2>1, JoinedPaths
  <2>4. r[SubSeq(p, 1, n)] = s[SubSeq(p, 1, n)]
    BY <1>3
  <2>5. r[x] \in Joined(r, x) /\ s[x] \in Joined(s, x)
    BY <2>3 DEF IsRowOf
  <2>6. /\ r[x] \in IF found = {} THEN {NoRow} ELSE found
        /\ s[x] \in IF found = {} THEN {NoRow} ELSE found
    <3> HIDE DEF x
    <3> QED
      BY <2>2, <2>4, <2>5 DEF Joined
  <2>7. CASE found = {}
    BY <2>6, <2>7
  <2>8. CASE found # {}
    <3>1. r[x] \in found /\ s[x] \in found
      BY <2>6, <2>8
    <3>2. part \in Parts /\ Leads(part) /\ ~Many(part)
      BY <1>1, <2>1 DEF Determines
    <3>3. Loose(part) => r[x].current /\ s[x].current
      <4> SUFFICES ASSUME Loose(part)
                   PROVE  r[x].current /\ s[x].current
        OBVIOUS
      <4>1. n + 1 = Len(p)
        BY <2>1 DEF Determines
      <4>2. x = p
        BY <1>1, <4>1, SubSeqFull
      <4>3. r[p].current /\ s[p].current
        BY <2>1 DEF Determines
      <4> QED
        BY <4>2, <4>3
    <3>4. r[x] = s[x]
      <4> HIDE DEF x, part
      <4> QED
        BY <3>1, <3>2, <3>3, OneRow
    <3> QED
      BY <3>4
  <2> QED
    BY <2>7, <2>8
<1>4. Nat \subseteq T
  <2> HIDE DEF T
  <2> QED
    BY <1>2, <1>3, Induction
<1> QED
  BY <1>1, <1>4

\* Two rows of the query that agree on the main row are the same when all paths
\* are joined along single rows.
LEMMA SameRow ==
  ASSUME db \in Databases, NEW paths, paths \subseteq Seq(Parts),
         NEW r, NEW s, IsRowOf(r, paths), IsRowOf(s, paths), r[<<>>] = s[<<>>],
         \A p \in paths : Determines(p, r) /\ Determines(p, s)
  PROVE  r = s
<1>1. ASSUME NEW x \in Joins(paths)
      PROVE  r[x] = s[x]
  <2>1. PICK p \in paths : \E i \in 1 .. Len(p) : x = SubSeq(p, 1, i)
    BY JoinedPaths
  <2>2. PICK i \in 1 .. Len(p) : x = SubSeq(p, 1, i)
    BY <2>1
  <2>3. i \in 0 .. Len(p)
    BY <2>2
  <2>4. r[SubSeq(p, 1, i)] = s[SubSeq(p, 1, i)]
    BY <2>3, SameAlong
  <2> QED
    BY <2>2, <2>4
<1>2. \A x \in {<<>>} \cup Joins(paths) : r[x] = s[x]
  BY <1>1
<1> QED
  BY <1>2 DEF IsRowOf

(***************************************************************************)
(* What the conditions and the orderings join.                              *)
(***************************************************************************)
\* A condition joins no more than its path.
LEMMA ConditionJoins ==
  ASSUME NEW parts, NEW scopes, IsWalk(parts, scopes), Len(parts) > 0,
         NEW c, FromPath(c, parts)
  PROVE  /\ Len(parts) \in Nat
         /\ \E i \in 0 .. Len(parts) :
              /\ c.joins = SubSeq(parts, 1, i)
              /\ \A j \in 1 .. i : Leads(parts[j])
              /\ i = Len(parts) => Many(parts[i]) \/ (c.lookup = "current" /\ Loose(parts[i]))
<1>1. parts \in Seq(Parts) /\ Len(parts) \in Nat
  BY DEF IsWalk
<1>2. CASE c.joins = OrmPath(parts).joins
  BY <1>1, <1>2, JoinsOfPath
<1>3. CASE /\ c.lookup = "current"
           /\ \E i \in 1 .. Len(parts) : Loose(parts[i]) /\ c.joins = SubSeq(parts, 1, i)
  <2>1. PICK i \in 1 .. Len(parts) : Loose(parts[i]) /\ c.joins = SubSeq(parts, 1, i)
    BY <1>3
  <2>2. Leads(parts[i])
    BY <2>1 DEF Loose, Leads
  <2>3. \A j \in 1 .. i : Leads(parts[j])
    <3> TAKE j \in 1 .. i
    <3>1. CASE j = i
      BY <2>2, <3>1
    <3>2. CASE j # i
      <4>1. j \in 1 .. Len(parts) - 1
        BY <1>1, <3>2
      <4> QED
        BY <4>1 DEF IsWalk
    <3> QED
      BY <3>1, <3>2
  <2>4. i \in 0 .. Len(parts)
    BY <2>1
  <2> QED
    BY <1>1, <1>3, <2>1, <2>3, <2>4
<1> QED
  BY <1>2, <1>3 DEF FromPath

\* It joins single rows when its path is not over many, and when it holds: the
\* condition on a loose relation at the end sees to it that one version is left.
LEMMA ConditionDetermines ==
  ASSUME NEW parts, NEW scopes, IsWalk(parts, scopes), Len(parts) > 0,
         ~WalksOverMany(parts),
         NEW c, FromPath(c, parts),
         NEW r, Holds(c, r[c.joins])
  PROVE  Determines(c.joins, r)
<1>1. PICK i \in 0 .. Len(parts) :
        /\ c.joins = SubSeq(parts, 1, i)
        /\ \A j \in 1 .. i : Leads(parts[j])
        /\ i = Len(parts) => Many(parts[i]) \/ (c.lookup = "current" /\ Loose(parts[i]))
  BY ConditionJoins
<1>2. parts \in Seq(Parts) /\ Len(parts) \in Nat /\ DOMAIN parts = 1 .. Len(parts)
  BY DEF IsWalk
<1>3. /\ c.joins \in Seq(Parts) /\ Len(c.joins) = i
      /\ \A j \in 1 .. i : c.joins[j] = parts[j]
  <2>1. parts \in Seq(Parts) /\ i \in 0 .. Len(parts)
    BY <1>2
  <2>2. /\ SubSeq(parts, 1, i) \in Seq(Parts) /\ Len(SubSeq(parts, 1, i)) = i
        /\ \A j \in 1 .. i : SubSeq(parts, 1, i)[j] = parts[j]
    BY <2>1, Prefix
  <2> QED
    BY <1>1, <2>2
<1>4. \A j \in 1 .. Len(parts) : ~Many(parts[j])
  BY <1>2 DEF WalksOverMany
<1>5. ASSUME NEW j \in 1 .. i, Loose(parts[j])
      PROVE  j = i /\ r[c.joins] # NoRow /\ r[c.joins].current
  <2>1. j = Len(parts) /\ i = Len(parts)
    <3>1. j \notin 1 .. Len(parts) - 1
      BY <1>5 DEF WalksOverMany
    <3>2. PICK n \in Nat : n = Len(parts)
      BY <1>2
    <3> QED
      BY <3>1, <3>2
  <2>2. c.lookup = "current"
    BY <1>1, <1>2, <1>4, <2>1
  <2>3. r[c.joins] # NoRow /\ r[c.joins].current
    BY <2>2 DEF Holds
  <2> QED
    BY <2>1, <2>3
<1>6. ASSUME NEW j \in 1 .. i
      PROVE  Leads(parts[j]) /\ ~Many(parts[j])
  BY <1>1, <1>4
<1> QED
  BY <1>3, <1>5, <1>6 DEF Determines

\* What an ordering joins.
LEMMA SortsDetermine ==
  ASSUME SortsToOne, req \in Requests, NEW i \in DOMAIN req.sort,
         ParseFilterPath(req.sort[i], req.scopes).error = "none"
  PROVE  LET c == OrmPath(ParseFilterPath(req.sort[i], req.scopes).parts)
         IN  /\ c.joins \in Seq(Parts)
             /\ \A r : Determines(c.joins, r)
<1> DEFINE walk == ParseFilterPath(req.sort[i], req.scopes)
           parts == walk.parts
           joins == OrmPath(parts).joins
<1>1. Len(req.sort[i]) \in Nat /\ Len(req.sort[i]) > 0
  <2>1. req.sort \in Seq(Seq(STRING) \ {<<>>})
    BY RequestsAssumption
  <2>2. req.sort[i] \in Seq(STRING) \ {<<>>}
    BY <2>1
  <2> QED
    BY <2>2
<1>2. IsWalk(parts, req.scopes) /\ Len(parts) > 0
  BY <1>1, WalkOfPath
<1>3. \A p \in ToSet(joins) : ~Many(p) /\ ~Loose(p)
  BY DEF SortsToOne
<1> HIDE DEF parts
<1>4. PICK k \in 0 .. Len(parts) :
        joins = SubSeq(parts, 1, k) /\ \A j \in 1 .. k : Leads(parts[j])
  BY <1>2, JoinsOfPath
<1> HIDE DEF joins
<1>5. parts \in Seq(Parts)
  BY <1>2 DEF IsWalk
<1>6. joins \in Seq(Parts) /\ Len(joins) = k /\ \A j \in 1 .. k : joins[j] = parts[j]
  BY <1>4, <1>5, Prefix
<1>7. ASSUME NEW j \in 1 .. k
      PROVE  Leads(joins[j]) /\ ~Many(joins[j]) /\ ~Loose(joins[j])
  <2>1. joins[j] \in ToSet(joins)
    BY <1>6 DEF ToSet
  <2> QED
    BY <1>3, <1>4, <1>6, <2>1
<1>8. \A r : Determines(joins, r)
  BY <1>6, <1>7 DEF Determines
<1> QED
  BY <1>6, <1>8 DEF joins, parts

(***************************************************************************)
(* One row for each object. The paths of a query have a bound, so that its  *)
(* joins come to an end; and unless DISTINCT compares the main row and the  *)
(* columns of the ordering, every path is joined along single rows.         *)
(***************************************************************************)
JoinsBounded == \E b \in Nat : \A c \in q : Len(c.joins) <= b

OnceInv ==
  /\ QueryInv
  /\ JoinsBounded
  /\ EachRowOnce

\* A step that adds no condition and gives no answer keeps the rest.
LEMMA NoAnswerKeeps ==
  ASSUME OnceInv, q' = q, status' # "ok"
  PROVE  JoinsBounded' /\ EachRowOnce'
BY DEF OnceInv, JoinsBounded, EachRowOnce

\* The conditions of one more parameter are on the prefixes of one more path.
LEMMA AddBounded ==
  ASSUME OnceInv, NEW key, key.path \in Seq(STRING), key.path # <<>>,
         NEW occurrences, AddConditions(key, CompileFilter(key, occurrences)),
         status = "compile"
  PROVE  JoinsBounded' /\ EachRowOnce'
<1> DEFINE compiled == CompileFilter(key, occurrences)
<1>1. CASE compiled.error # "none"
  <2>1. q' = q /\ status' = compiled.error
    BY <1>1 DEF AddConditions, Refuse
  <2>2. compiled.error # "ok"
    BY CompileRefused
  <2> HIDE DEF compiled
  <2> QED
    BY <2>1, <2>2, NoAnswerKeeps
<1>2. CASE compiled.error = "none"
  <2>1. PICK parts :
          /\ IsWalk(parts, req.scopes) /\ Len(parts) > 0
          /\ \A c \in compiled.q : FromPath(c, parts)
    BY <1>2, CompiledFromPath
  <2>2. q' = q \cup compiled.q /\ status' = status
    BY <1>2 DEF AddConditions
  <2>3. PICK b \in Nat : \A c \in q : Len(c.joins) <= b
    BY DEF OnceInv, JoinsBounded
  <2> HIDE DEF compiled
  <2>4. Len(parts) \in Nat /\ parts \in Seq(Parts)
    BY <2>1 DEF IsWalk
  <2>5. \A c \in compiled.q : Len(c.joins) \in Nat /\ Len(c.joins) <= Len(parts)
    <3> TAKE c \in compiled.q
    <3>1. PICK i \in 0 .. Len(parts) : c.joins = SubSeq(parts, 1, i)
      BY <2>1, ConditionJoins
    <3>2. Len(c.joins) = i
      BY <2>4, <3>1, Prefix
    <3> QED
      BY <2>4, <3>2
  <2>6. ASSUME NEW c \in q
        PROVE  Len(c.joins) \in Nat
    <3>1. PICK ps : IsWalk(ps, req.scopes) /\ Len(ps) > 0 /\ FromPath(c, ps)
      BY DEF OnceInv, QueryInv, ConditionsOfWalks
    <3>2. PICK i \in 0 .. Len(ps) : c.joins = SubSeq(ps, 1, i)
      BY <3>1, ConditionJoins
    <3>3. ps \in Seq(Parts)
      BY <3>1 DEF IsWalk
    <3> QED
      BY <3>2, <3>3, Prefix
  <2>7. PICK d \in Nat : b <= d /\ Len(parts) <= d
    BY <2>4
  <2>8. \A c \in q' : Len(c.joins) <= d
    <3> TAKE c \in q'
    <3>1. CASE c \in q
      BY <2>3, <2>6, <2>7, <3>1
    <3>2. CASE c \in compiled.q
      BY <2>4, <2>5, <2>7, <3>2
    <3> QED
      BY <2>2, <3>1, <3>2
  <2> QED
    BY <2>2, <2>8 DEF JoinsBounded, EachRowOnce
<1> QED
  BY <1>1, <1>2

\* The query shows each row once: what is left to compare after the main row is
\* the same, either because all joins are, or because the orderings are.
LEMMA OrderOnce ==
  ASSUME SortsToOne, OnceInv, Order, status' = "ok"
  PROVE  EachRowOnce'
<1> DEFINE parsed == [i \in DOMAIN req.sort |-> ParseFilterPath(req.sort[i], req.scopes)]
           wrong == SelectInSeq(parsed, LAMBDA p : p.error # "none")
           columns == {OrmPath(p.parts) : p \in ToSet(parsed)}
           paths == {c.joins : c \in q \cup columns}
           rows == {r \in QueryRows(paths) : \A c \in q : Holds(c, r[c.joins])}
           By(r) == {<<c, IF r[c.joins] = NoRow THEN Null ELSE Column(r[c.joins], c)>> :
                       c \in columns}
           Row(r) == [row |-> r[<<>>], by |-> IF distinct THEN By(r) ELSE r]
<1>1. req \in Requests /\ db \in Databases
  BY DEF OnceInv, QueryInv
<1>2. PICK n \in Nat : DOMAIN req.sort = 1 .. n
  <2>1. req.sort \in Seq(Seq(STRING) \ {<<>>})
    BY <1>1, RequestsAssumption
  <2> QED
    BY <2>1
<1>3. /\ DOMAIN parsed = 1 .. n /\ Len(parsed) = n
      /\ \A i \in 1 .. n : parsed[i] = ParseFilterPath(req.sort[i], req.scopes)
  BY <1>2
<1>4. ToSet(parsed) = {parsed[i] : i \in 1 .. n}
  <2> HIDE DEF parsed
  <2> QED
    BY <1>3 DEF ToSet
<1>5. wrong = 0 /\ \A i \in 1 .. n : parsed[i].error = "none"
  <2>1. wrong = 0 /\ \A i \in DOMAIN req.sort : ParseFilterPath(req.sort[i], req.scopes).error = "none"
    BY <1>1, OrderAccepts
  <2> QED
    BY <1>2, <2>1
<1>6. listing' = {Row(r) : r \in rows}
  BY <1>5 DEF Order
<1>7. ASSUME NEW c \in columns
       PROVE  /\ \E i \in 1 .. n : c = OrmPath(parsed[i].parts)
              /\ c.joins \in Seq(Parts)
              /\ \A r : Determines(c.joins, r)
  <2>1. PICK i \in 1 .. n : c = OrmPath(parsed[i].parts)
    <3> HIDE DEF parsed
    <3> QED
      BY <1>4
  <2>2. parsed[i] = ParseFilterPath(req.sort[i], req.scopes) /\ i \in DOMAIN req.sort
    BY <1>2
  <2> HIDE DEF parsed
  <2>3. c.joins \in Seq(Parts) /\ \A r : Determines(c.joins, r)
    BY <1>1, <1>5, <2>1, <2>2, SortsDetermine
  <2> QED
    BY <2>1, <2>3
<1> HIDE DEF columns, parsed, wrong
<1>8. ASSUME NEW c \in q
       PROVE  c.joins \in Seq(Parts)
  <2>1. PICK ps : IsWalk(ps, req.scopes) /\ Len(ps) > 0 /\ FromPath(c, ps)
    BY DEF OnceInv, QueryInv, ConditionsOfWalks
  <2>2. PICK i \in 0 .. Len(ps) : c.joins = SubSeq(ps, 1, i)
    BY <2>1, ConditionJoins
  <2>3. ps \in Seq(Parts)
    BY <2>1 DEF IsWalk
  <2> QED
    BY <2>2, <2>3, Prefix
<1>9. paths \subseteq Seq(Parts)
  BY <1>7, <1>8
<1>10. PICK b \in Nat : \A p \in paths : Len(p) <= b
  <2> DEFINE f == [i \in 1 .. n |-> Len(OrmPath(parsed[i].parts).joins)]
  <2>1. \A i \in 1 .. n : f[i] \in Nat
    <3> TAKE i \in 1 .. n
    <3>1. OrmPath(parsed[i].parts) \in columns
      BY <1>4 DEF columns
    <3>2. OrmPath(parsed[i].parts).joins \in Seq(Parts)
      BY <1>7, <3>1
    <3> QED
      BY <3>2
  <2>2. PICK d \in Nat : \A i \in 1 .. n : f[i] <= d
    <3> HIDE DEF f
    <3> QED
      BY <2>1, BoundOfMany
  <2>3. PICK e \in Nat : \A c \in q : Len(c.joins) <= e
    BY DEF OnceInv, JoinsBounded
  <2>4. PICK m \in Nat : d <= m /\ e <= m
    OBVIOUS
  <2>5. ASSUME NEW c \in q \cup columns
        PROVE  Len(c.joins) <= m
    <3>1. Len(c.joins) \in Nat
      BY <1>7, <1>8
    <3>2. CASE c \in q
      BY <2>3, <2>4, <3>1, <3>2
    <3>3. CASE c \in columns
      <4>1. PICK i \in 1 .. n : c = OrmPath(parsed[i].parts)
        BY <1>7, <3>3
      <4>2. Len(c.joins) <= d
        BY <2>2, <4>1
      <4> QED
        BY <2>4, <3>1, <4>2
    <3> QED
      BY <3>2, <3>3
  <2> QED
    BY <2>5
<1> HIDE DEF Row
<1>11. ASSUME NEW r \in rows
       PROVE  IsRowOf(r, paths) /\ \A c \in q : Holds(c, r[c.joins])
  <2> HIDE DEF paths
  <2>1. r \in QueryRows(paths) /\ \A c \in q : Holds(c, r[c.joins])
    OBVIOUS
  <2> QED
    BY <1>9, <1>10, <2>1, RowsAreJoined
<1> HIDE DEF rows
<1>12. ASSUME ~distinct, NEW r \in rows, NEW p \in paths
       PROVE  Determines(p, r)
  <2>1. PICK c \in q \cup columns : p = c.joins
    OBVIOUS
  <2>2. CASE c \in columns
    BY <1>7, <2>1, <2>2
  <2>3. CASE c \in q
    <3>1. PICK ps :
            /\ IsWalk(ps, req.scopes) /\ Len(ps) > 0 /\ FromPath(c, ps)
            /\ ~WalksOverMany(ps)
      BY <1>12, <2>3 DEF OnceInv, QueryInv, ConditionsOfWalks
    <3>2. Holds(c, r[c.joins])
      BY <1>11, <2>3
    <3> QED
      BY <2>1, <3>1, <3>2, ConditionDetermines
  <2> QED
    BY <2>2, <2>3
<1>13. ASSUME NEW r \in rows, NEW s \in rows, r[<<>>] = s[<<>>]
       PROVE  Row(r) = Row(s)
  <2>1. CASE ~distinct
    <3> HIDE DEF paths
    <3>1. r = s
      BY <1>1, <1>9, <1>11, <1>12, <1>13, <2>1, SameRow
    <3> QED
      BY <3>1
  <2>2. CASE distinct
    <3>1. ASSUME NEW c \in columns
          PROVE  r[c.joins] = s[c.joins]
      <4>1. c.joins \in paths /\ c.joins \in Seq(Parts)
        BY <1>7
      <4>2. Determines(c.joins, r) /\ Determines(c.joins, s)
        BY <1>7
      <4> HIDE DEF paths
      <4>3. \A i \in 0 .. Len(c.joins) : r[SubSeq(c.joins, 1, i)] = s[SubSeq(c.joins, 1, i)]
        BY <1>1, <1>9, <1>11, <1>13, <4>1, <4>2, SameAlong
      <4>4. Len(c.joins) \in 0 .. Len(c.joins)
        BY <4>1
      <4>5. SubSeq(c.joins, 1, Len(c.joins)) = c.joins
        BY <4>1, SubSeqFull
      <4>6. r[SubSeq(c.joins, 1, Len(c.joins))] = s[SubSeq(c.joins, 1, Len(c.joins))]
        BY <4>3, <4>4, Zenon
      <4> QED
        BY <4>5, <4>6
    <3>2. By(r) = By(s)
      BY <3>1
    <3> QED
      BY <1>13, <2>2, <3>2 DEF Row
  <2> QED
    BY <2>1, <2>2
<1>14. ASSUME NEW e \in listing', NEW f \in listing', e.row = f.row
       PROVE  e = f
  <2>1. PICK r \in rows, s \in rows : e = Row(r) /\ f = Row(s)
    BY <1>6
  <2>2. r[<<>>] = s[<<>>]
    BY <1>14, <2>1 DEF Row
  <2> QED
    BY <1>13, <2>1, <2>2
<1> QED
  BY <1>14 DEF EachRowOnce

LEMMA StepOnceInv ==
  ASSUME SortsToOne, OnceInv, [Next]_vars
  PROVE  OnceInv'
<1>1. QueryInv'
  BY StepQueryInv DEF OnceInv
<1>2. CASE CheckPermission
  <2>1. q' = q /\ status' # "ok"
    BY <1>2 DEF CheckPermission, Refuse
  <2> QED
    BY <1>1, <2>1, NoAnswerKeeps DEF OnceInv
<1>3. CASE LimitQueryset
  <2>1. q' = q /\ status' # "ok"
    BY <1>3 DEF LimitQueryset
  <2> QED
    BY <1>1, <2>1, NoAnswerKeeps DEF OnceInv
<1>4. CASE ParseFilters
  <2>1. q' = q /\ status' # "ok"
    BY <1>4 DEF ParseFilters, Refuse
  <2> QED
    BY <1>1, <2>1, NoAnswerKeeps DEF OnceInv
<1>5. CASE Compile
  <2>1. PICK i \in DOMAIN Sorted : Sorted[i] \in inputs /\ CompileInput(Sorted[i])
    BY <1>5 DEF Compile
  <2> DEFINE key == Sorted[i]
  <2>2. key.path \in Seq(STRING) /\ key.path # <<>>
    BY <2>1, InputTyped DEF OnceInv
  <2>3. status = "compile"
    BY <1>5 DEF Compile
  <2>4. CompileInput(key)
    BY <2>1
  <2> HIDE DEF key
  <2>5. \/ q' = q /\ (status' = "403" \/ status' = status)
        \/ AddConditions(key, CompileFilter(key, Given[key]))
    BY <2>4 DEF CompileInput, Refuse
  <2>6. CASE AddConditions(key, CompileFilter(key, Given[key]))
    BY <1>1, <2>2, <2>3, <2>6, AddBounded DEF OnceInv
  <2>7. CASE q' = q /\ (status' = "403" \/ status' = status)
    <3>1. status' # "ok"
      BY <2>3, <2>7
    <3> QED
      BY <1>1, <2>7, <3>1, NoAnswerKeeps DEF OnceInv
  <2> QED
    BY <2>5, <2>6, <2>7
<1>6. CASE FilterQueryset
  <2>1. q' = q /\ status' # "ok"
    BY <1>6 DEF FilterQueryset, Refuse, OnceInv, QueryInv, RefusalTyped
  <2> QED
    BY <1>1, <2>1, NoAnswerKeeps DEF OnceInv
<1>7. CASE Order
  <2>1. q' = q
    BY <1>7 DEF Order, Refuse
  <2>2. JoinsBounded'
    BY <2>1 DEF OnceInv, JoinsBounded
  <2>3. EachRowOnce'
    <3>1. CASE status' = "ok"
      BY <1>7, <3>1, OrderOnce
    <3>2. CASE status' # "ok"
      BY <3>2 DEF EachRowOnce
    <3> QED
      BY <3>1, <3>2
  <2> QED
    BY <1>1, <2>2, <2>3 DEF OnceInv
<1>8. CASE UNCHANGED vars
  <2>1. UNCHANGED <<q, status, listing>>
    BY <1>8 DEF vars
  <2> QED
    BY <1>1, <2>1 DEF OnceInv, JoinsBounded, EachRowOnce
<1> QED
  BY <1>2, <1>3, <1>4, <1>5, <1>6, <1>7, <1>8 DEF Next

\* A list shows an object once, whatever its filters join, as long as it is not sorted
\* over a relation to many: what _compile_filters finds to be over many, or to end with
\* a loose relation, covers all other joins of the query (WalksOverMany, TemporalFilters
\* and the DISTINCT of filter_queryset).
THEOREM RowsShownOnce ==
  ASSUME SortsToOne
  PROVE  Spec => []EachRowOnce
<1>1. Init => OnceInv
  <2> SUFFICES ASSUME Init
               PROVE  OnceInv
    OBVIOUS
  <2>1. JoinsBounded
    BY DEF Init, JoinsBounded
  <2>2. EachRowOnce
    BY DEF Init, EachRowOnce
  <2> QED
    BY <2>1, <2>2, InitQueryInv DEF OnceInv
<1>2. OnceInv /\ [Next]_vars => OnceInv'
  BY StepOnceInv
<1>3. OnceInv => EachRowOnce
  BY DEF OnceInv
<1> QED
  BY <1>1, <1>2, <1>3, PTL DEF Spec
=============================================================================
