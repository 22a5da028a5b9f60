------------------------- MODULE FieldScopesProofs -------------------------
(***************************************************************************)
(* Proofs of the properties of FieldScopes, for any schema, names and       *)
(* requests. The heart is what the scope of a place says: when some name of *)
(* _fields goes through the place, the scope is the node of that place      *)
(* (ScopeKept); when none does and the place was asked for, it allows all.  *)
(***************************************************************************)
EXTENDS FieldScopes, WellFoundedInduction, TLAPS

(***************************************************************************)
(* Induction over the natural numbers, for a set instead of a predicate,   *)
(* which every prover can use.                                             *)
(***************************************************************************)
LEMMA Induction ==
  ASSUME NEW T, 0 \in T, \A n \in Nat : n \in T => n + 1 \in T
  PROVE  Nat \subseteq T
<1> DEFINE R == OpToRel(<, Nat)
<1>1. \A m, n \in Nat : <<m, n>> \in R <=> m < n
  BY DEF OpToRel
<1>2. IsWellFoundedOn(R, Nat)
  BY NatLessThanWellFounded
<1> HIDE DEF R
<1> SUFFICES ASSUME Nat \ T # {}
             PROVE  FALSE
  OBVIOUS
<1>3. PICK n \in Nat \ T : \A m \in Nat \ T : ~(<<m, n>> \in R)
  BY <1>2, WFMin
<1>4. \A m \in Nat \ T : ~(m < n)
  BY <1>1, <1>3
<1>5. n - 1 \in Nat /\ n - 1 \in T
  BY <1>4
<1> QED
  BY <1>5

(***************************************************************************)
(* The tables along a path.                                                 *)
(***************************************************************************)
\* The recursive function of Route exists: it starts at the root and follows
\* one relation at a time.
LEMMA RouteUnfolds ==
  ASSUME NEW p \in Seq(Name)
  PROVE  /\ Route(p)[0] = Root
         /\ \A i \in 1 .. Len(p) : Route(p)[i] = Target(Route(p)[i - 1], p[i])
<1> DEFINE Is(f, n) == f = [i \in 0 .. n |-> IF i = 0 THEN Root ELSE Target(f[i - 1], p[i])]
           T == {n \in Nat : n <= Len(p) => \E f : Is(f, n)}
<1>1. 0 \in T
  <2>1. Is([i \in 0 .. 0 |-> Root], 0)
    OBVIOUS
  <2> QED
    BY <2>1
<1>2. ASSUME NEW n \in Nat, n \in T
      PROVE  n + 1 \in T
  <2> SUFFICES ASSUME n + 1 <= Len(p)
               PROVE  \E f : Is(f, n + 1)
    OBVIOUS
  <2>1. PICK f : Is(f, n)
    BY <1>2
  <2>2. PICK g : g = [i \in 0 .. n + 1 |-> IF i = n + 1 THEN Target(f[n], p[i]) ELSE f[i]]
    OBVIOUS
  <2>3. \A i \in 0 .. n : g[i] = f[i]
    BY <2>2
  <2>4. \A i \in 0 .. n : f[i] = IF i = 0 THEN Root ELSE Target(f[i - 1], p[i])
    BY <2>1
  <2>5. \A i \in 0 .. n + 1 : g[i] = IF i = 0 THEN Root ELSE Target(g[i - 1], p[i])
    <3> SUFFICES ASSUME NEW i \in 0 .. n + 1
                 PROVE  g[i] = IF i = 0 THEN Root ELSE Target(g[i - 1], p[i])
      OBVIOUS
    <3>1. CASE i = n + 1
      <4>1. n \in 0 .. n /\ i - 1 = n /\ i # 0
        BY <3>1
      <4>2. g[i] = Target(f[n], p[i])
        BY <2>2, <3>1
      <4> QED
        BY <2>3, <4>1, <4>2
    <3>2. CASE i # n + 1 /\ i # 0
      <4>1. i \in 0 .. n /\ i - 1 \in 0 .. n
        BY <3>2
      <4> QED
        BY <2>3, <2>4, <3>2, <4>1
    <3>3. CASE i # n + 1 /\ i = 0
      BY <2>3, <2>4, <3>3
    <3> QED
      BY <3>1, <3>2, <3>3
  <2>6. Is(g, n + 1)
    BY <2>2, <2>5
  <2> QED
    BY <2>6
<1>3. Len(p) \in T
  <2> HIDE DEF T
  <2> QED
    BY <1>1, <1>2, Induction
<1>4. PICK f : Is(f, Len(p))
  BY <1>3
<1>5. Is(Route(p), Len(p))
  BY <1>4 DEF Route
<1> QED
  BY <1>5

\* Paths that begin with the same relations lead through the same tables.
LEMMA RoutesAgree ==
  ASSUME NEW p \in Seq(Name), NEW q \in Seq(Name), NEW k \in Nat,
         k <= Len(p), k <= Len(q), \A i \in 1 .. k : p[i] = q[i]
  PROVE  \A i \in 0 .. k : Route(p)[i] = Route(q)[i]
<1> DEFINE T == {n \in Nat : n <= k => Route(p)[n] = Route(q)[n]}
<1>1. 0 \in T
  BY RouteUnfolds
<1>2. ASSUME NEW n \in Nat, n \in T
      PROVE  n + 1 \in T
  <2> SUFFICES ASSUME n + 1 <= k
               PROVE  Route(p)[n + 1] = Route(q)[n + 1]
    OBVIOUS
  <2>1. Route(p)[n] = Route(q)[n]
    BY <1>2
  <2>2. n + 1 \in 1 .. k /\ n + 1 \in 1 .. Len(p) /\ n + 1 \in 1 .. Len(q) /\ (n + 1) - 1 = n
    OBVIOUS
  <2>3. Route(p)[n + 1] = Target(Route(p)[n], p[n + 1])
    BY <2>2, RouteUnfolds
  <2>4. Route(q)[n + 1] = Target(Route(q)[n], q[n + 1])
    BY <2>2, RouteUnfolds
  <2> QED
    BY <2>1, <2>2, <2>3, <2>4
<1>3. Nat \subseteq T
  <2> HIDE DEF T
  <2> QED
    BY <1>1, <1>2, Induction
<1> QED
  BY <1>3

\* The table of an embedded section is that of its relation.
LEMMA TableOfSection ==
  ASSUME NEW p \in Seq(Name), NEW n \in Name
  PROVE  /\ Append(p, n) \in Seq(Name)
         /\ TableAt(Append(p, n)) = Target(TableAt(p), n)
<1>1. /\ Append(p, n) \in Seq(Name)
      /\ Len(Append(p, n)) = Len(p) + 1
      /\ Append(p, n)[Len(p) + 1] = n
      /\ \A i \in 1 .. Len(p) : Append(p, n)[i] = p[i]
      /\ Len(p) \in Nat
  OBVIOUS
<1>2. PICK q : q = Append(p, n)
  OBVIOUS
<1>3. Route(q)[Len(p)] = Route(p)[Len(p)]
  <2>1. /\ q \in Seq(Name) /\ Len(p) <= Len(q)
        /\ \A i \in 1 .. Len(p) : q[i] = p[i]
    BY <1>1, <1>2
  <2>2. \A i \in 0 .. Len(p) : Route(q)[i] = Route(p)[i]
    BY <1>1, <2>1, RoutesAgree
  <2> QED
    BY <1>1, <2>2
<1>4. Len(p) + 1 \in 1 .. Len(q) /\ (Len(p) + 1) - 1 = Len(p)
  BY <1>1, <1>2
<1>5. Route(q)[Len(p) + 1] = Target(Route(q)[Len(p)], q[Len(p) + 1])
  BY <1>1, <1>2, <1>4, RouteUnfolds
<1> QED
  BY <1>1, <1>2, <1>3, <1>5 DEF TableAt

\* The relations along a path that follows exist, at every place on its way.
LEMMA FollowsStep ==
  ASSUME NEW q \in Seq(Name), Follows(q), NEW k \in 1 .. Len(q)
  PROVE  /\ SubSeq(q, 1, k) \in DottedNames
         /\ Last(SubSeq(q, 1, k)) \in Relations(TableAt(Front(SubSeq(q, 1, k))))
<1>1. PICK r : r = SubSeq(q, 1, k)
  OBVIOUS
<1>2. r \in Seq(Name) /\ Len(r) = k /\ r[k] = q[k] /\ r # <<>>
  BY <1>1
<1>3. PICK p : p = SubSeq(r, 1, k - 1)
  OBVIOUS
<1>4. /\ p \in Seq(Name) /\ Len(p) = k - 1
      /\ \A i \in 1 .. k - 1 : p[i] = q[i]
      /\ k - 1 \in Nat /\ k - 1 <= Len(q)
  BY <1>1, <1>2, <1>3
<1>5. Route(p)[k - 1] = Route(q)[k - 1]
  BY <1>4, RoutesAgree
<1>6. q[k] \in Relations(Route(q)[k - 1])
  BY DEF Follows
<1>7. Front(r) = p /\ Last(r) = q[k] /\ TableAt(p) = Route(q)[k - 1]
  BY <1>2, <1>3, <1>4, <1>5 DEF Front, Last, TableAt
<1> QED
  BY <1>1, <1>2, <1>6, <1>7 DEF DottedNames

(***************************************************************************)
(* What one level of the dotted names says.                                 *)
(***************************************************************************)
\* A request is one of the parameters' values, so its names are dotted names.
Requests == [fields : FieldParams, expand : ExpandParams, list : BOOLEAN]

LEMMA NamesTyped ==
  ASSUME req \in Requests, NEW e \in req.fields
  PROVE  e.minus \in BOOLEAN /\ e.path \in Seq(Name) /\ e.path # <<>>
BY ParamsAssumption DEF Requests, DottedNames

\* A name is below a place when it goes on where the path of the place ends.
LEMMA BelowMeans ==
  ASSUME req \in Requests, NEW p \in Seq(Name), NEW e \in req.fields
  PROVE  e \in Below(p) <=> Len(e.path) > Len(p) /\ \A i \in 1 .. Len(p) : e.path[i] = p[i]
<1>1. PICK q : q = e.path
  OBVIOUS
<1>2. q \in Seq(Name)
  BY <1>1, NamesTyped
<1>3. IsStrictPrefix(p, q) <=> Len(q) > Len(p) /\ \A i \in 1 .. Len(p) : q[i] = p[i]
  <2>1. ASSUME IsStrictPrefix(p, q)
        PROVE  Len(q) > Len(p) /\ \A i \in 1 .. Len(p) : q[i] = p[i]
    <3>1. Len(p) <= Len(q) /\ SubSeq(p, 1, Len(p)) = SubSeq(q, 1, Len(p)) /\ p # q
      BY <2>1 DEF IsStrictPrefix, IsPrefix
    <3>2. \A i \in 1 .. Len(p) : SubSeq(q, 1, Len(p))[i] = q[i] /\ SubSeq(p, 1, Len(p))[i] = p[i]
      BY <1>2, <3>1
    <3>3. SubSeq(p, 1, Len(p)) = p
      OBVIOUS
    <3>4. Len(q) = Len(p) => SubSeq(q, 1, Len(p)) = q
      BY <1>2
    <3> QED
      BY <1>2, <3>1, <3>2, <3>3, <3>4
  <2>2. ASSUME Len(q) > Len(p), \A i \in 1 .. Len(p) : q[i] = p[i]
        PROVE  IsStrictPrefix(p, q)
    <3>1. SubSeq(q, 1, Len(p)) = p /\ SubSeq(p, 1, Len(p)) = p
      BY <1>2, <2>2
    <3> QED
      BY <1>2, <2>2, <3>1 DEF IsStrictPrefix, IsPrefix
  <2> QED
    BY <2>1, <2>2
<1> QED
  BY <1>1, <1>3 DEF Below

\* The names whose last dot is behind a place are the direct ones of the place.
LEMMA DirectMeans ==
  ASSUME req \in Requests, NEW p \in Seq(Name), NEW e \in req.fields
  PROVE  /\ e \in Direct(p) <=> Front(e.path) = p
         /\ e \in Direct(p) => NameAt(e, p) = Last(e.path)
<1>1. PICK q : q = e.path
  OBVIOUS
<1>2. q \in Seq(Name) /\ q # <<>> /\ Len(q) \in Nat /\ Len(q) >= 1
  BY <1>1, NamesTyped
<1>3. PICK r : r = SubSeq(q, 1, Len(q) - 1)
  OBVIOUS
<1>4. r \in Seq(Name) /\ Len(r) = Len(q) - 1 /\ \A i \in 1 .. Len(q) - 1 : r[i] = q[i]
  <2> DEFINE k == Len(q) - 1
  <2>1. k \in 0 .. Len(q) /\ k = Len(q) - 1
    BY <1>2
  <2> HIDE DEF k
  <2>2. SubSeq(q, 1, k) \in Seq(Name) /\ Len(SubSeq(q, 1, k)) = k
    BY <1>2, <2>1
  <2>3. \A i \in 1 .. k : SubSeq(q, 1, k)[i] = q[i]
    BY <1>2, <2>1
  <2> QED
    BY <1>3, <2>1, <2>2, <2>3
<1>5. e \in Direct(p) <=> Len(q) = Len(p) + 1 /\ \A i \in 1 .. Len(p) : q[i] = p[i]
  <2>1. e \in Direct(p) <=> e \in Below(p) /\ Len(q) = Len(p) + 1
    BY <1>1 DEF Direct
  <2>2. e \in Below(p) <=> Len(q) > Len(p) /\ \A i \in 1 .. Len(p) : q[i] = p[i]
    BY <1>1, BelowMeans
  <2> QED
    BY <1>2, <2>1, <2>2
<1>6. r = p <=> Len(q) = Len(p) + 1 /\ \A i \in 1 .. Len(p) : q[i] = p[i]
  BY <1>2, <1>4
<1> QED
  BY <1>1, <1>3, <1>5, <1>6 DEF Front, Last, NameAt

\* The first level is said to be below the root by every name.
LEMMA AllBelowRoot ==
  ASSUME req \in Requests
  PROVE  Below(<<>>) = req.fields
<1>1. ASSUME NEW e \in req.fields
      PROVE  e \in Below(<<>>)
  <2>1. PICK r : r = <<>>
    OBVIOUS
  <2>2. r \in Seq(Name) /\ Len(r) = 0 /\ \A i \in 1 .. Len(r) : FALSE
    BY <2>1
  <2>3. PICK q : q = e.path
    OBVIOUS
  <2>4. e.path \in Seq(Name) /\ e.path # <<>>
    BY NamesTyped
  <2>5. Len(q) > 0
    BY <2>4, <2>3
  <2>6. e \in Below(r)
    BY <2>2, <2>3, <2>5, BelowMeans
  <2> QED
    BY <2>1, <2>6
<1> QED
  BY <1>1 DEF Below

\* What lies below a section is what was said about the subfields of its
\* relation, so there is some exactly for the children of a node.
LEMMA BelowSection ==
  ASSUME req \in Requests, NEW p \in Seq(Name), NEW n \in Name
  PROVE  /\ Below(Append(p, n)) # {} <=> n \in Children(Node(p))
         /\ Below(Append(p, n)) \subseteq Below(p)
<1>1. PICK q : q = Append(p, n)
  OBVIOUS
<1>2. /\ q \in Seq(Name) /\ Len(q) = Len(p) + 1 /\ q[Len(p) + 1] = n
      /\ \A i \in 1 .. Len(p) : q[i] = p[i]
      /\ Len(p) \in Nat
  BY <1>1
<1>3. \A e \in req.fields : e \in Below(q) <=>
        e \in Below(p) /\ e \notin Direct(p) /\ NameAt(e, p) = n
  <2> SUFFICES ASSUME NEW e \in req.fields
               PROVE  e \in Below(q) <=> e \in Below(p) /\ e \notin Direct(p) /\ NameAt(e, p) = n
    OBVIOUS
  <2>1. Len(e.path) \in Nat
    BY NamesTyped
  <2>2. e \in Below(q) <=> Len(e.path) > Len(p) + 1 /\ \A i \in 1 .. Len(p) + 1 : e.path[i] = q[i]
    BY <1>2, BelowMeans
  <2>3. e \in Below(p) <=> Len(e.path) > Len(p) /\ \A i \in 1 .. Len(p) : e.path[i] = p[i]
    BY BelowMeans
  <2>4. (\A i \in 1 .. Len(p) + 1 : e.path[i] = q[i])
          <=> (\A i \in 1 .. Len(p) : e.path[i] = p[i]) /\ e.path[Len(p) + 1] = n
    <3>1. \A i \in 1 .. Len(p) + 1 : i \in 1 .. Len(p) \/ i = Len(p) + 1
      BY <1>2
    <3>2. Len(p) + 1 \in 1 .. Len(p) + 1 /\ \A i \in 1 .. Len(p) : i \in 1 .. Len(p) + 1
      BY <1>2
    <3> QED
      BY <1>2, <3>1, <3>2
  <2>5. e \in Direct(p) <=> e \in Below(p) /\ Len(e.path) = Len(p) + 1
    BY DEF Direct
  <2> QED
    BY <1>2, <2>1, <2>2, <2>3, <2>4, <2>5 DEF NameAt
<1>4. Below(p) \subseteq req.fields /\ Below(q) \subseteq req.fields
  BY DEF Below
<1>5. Children(Node(p)) = {NameAt(e, p) : e \in Below(p) \ Direct(p)}
  BY DEF Children, Node
<1> QED
  BY <1>1, <1>3, <1>4, <1>5

\* When no object is mentioned as a whole and in part, and the request is not
\* malformed, a level that something was said about includes names or excludes
\* them, and a field is asked for when its scope keeps it.
LEMMA LevelMeans ==
  ASSUME req \in Requests, Clear, ~Malformed, NEW p \in Seq(Name), Below(p) # {}
  PROVE  /\ Includes(Node(p)) = {} \/ Excludes(Node(p)) = {}
         /\ Includes(Node(p)) \cup Excludes(Node(p)) \cup Children(Node(p)) # {}
         /\ Includes(Node(p)) = {NameAt(e, p) : e \in {d \in Direct(p) : ~d.minus}}
         /\ \A n : AskedHere(p, n) <=>
              \/ n \in Children(Node(p)) \cup Includes(Node(p))
              \/ Includes(Node(p)) = {} /\ n \notin Excludes(Node(p))
<1> DEFINE I == {NameAt(e, p) : e \in {d \in Direct(p) : ~d.minus}}
           E == {NameAt(e, p) : e \in {d \in Direct(p) : d.minus}}
<1>1. Direct(p) \subseteq Below(p) /\ Below(p) \subseteq req.fields
  BY DEF Direct, Below
<1>2. \A e \in req.fields : Leaf(e) /\ e.minus \in BOOLEAN
  BY NamesTyped DEF Leaf, Clear
<1>3. Includes(Node(p)) = I /\ Excludes(Node(p)) = E
  BY <1>1, <1>2 DEF Includes, Excludes, Leaves, Node
<1>4. Children(Node(p)) = {NameAt(e, p) : e \in Below(p) \ Direct(p)}
  BY DEF Children, Node
<1>5. I = {} \/ E = {}
  <2> SUFFICES ASSUME I # {}
               PROVE  E = {}
    OBVIOUS
  <2>1. PICK e \in Direct(p) : ~e.minus
    OBVIOUS
  <2>2. Front(e.path) = p
    BY <1>1, <2>1, DirectMeans
  <2> HIDE DEF I, E
  <2> QED
    BY <1>1, <1>3, <2>2 DEF Malformed
<1>6. I \cup E \cup Children(Node(p)) # {}
  <2>1. PICK e : e \in Below(p)
    OBVIOUS
  <2>2. CASE e \in Direct(p)
    BY <2>2
  <2>3. CASE e \notin Direct(p)
    BY <1>4, <2>1, <2>3
  <2> QED
    BY <2>2, <2>3
<1>7. ASSUME NEW n
      PROVE  AskedHere(p, n) <=> \/ n \in Children(Node(p)) \cup I
                                 \/ I = {} /\ n \notin E
  <2>1. (\E e \in Below(p) : NameAt(e, p) = n /\ (~e.minus \/ Len(e.path) > Len(p) + 1))
          <=> n \in Children(Node(p)) \cup I
    <3>1. \A e \in Below(p) : Len(e.path) > Len(p) + 1 <=> e \notin Direct(p)
      <4> SUFFICES ASSUME NEW e \in Below(p)
                   PROVE  Len(e.path) > Len(p) + 1 <=> e \notin Direct(p)
        OBVIOUS
      <4>1. Len(e.path) \in Nat /\ Len(e.path) > Len(p) /\ Len(p) \in Nat
        BY <1>1, NamesTyped, BelowMeans
      <4> QED
        BY <4>1 DEF Direct
    <3> QED
      BY <1>1, <1>4, <3>1
  <2>2. (\A e \in Direct(p) : e.minus /\ NameAt(e, p) # n) <=> I = {} /\ n \notin E
    BY <1>1, <1>2
  <2> QED
    BY <2>1, <2>2 DEF AskedHere
<1> QED
  BY <1>3, <1>5, <1>6, <1>7

\* A level that nothing was said about is not limited.
LEMMA UnlimitedLevel ==
  ASSUME NEW p, NEW n, Below(p) = {}
  PROVE  AskedHere(p, n)
BY DEF AskedHere, Direct

\* What a scope keeps of the valid names is what was asked for.
LEMMA KeepMeans ==
  ASSUME req \in Requests, Clear, ~Malformed, NEW p \in Seq(Name), Below(p) # {},
         NEW valid, NEW n \in valid
  PROVE  n \in Keep(Node(p), valid) <=> AskedHere(p, n)
<1>0. PICK sc : sc = Node(p)
  OBVIOUS
<1>1. ~sc.all
  BY <1>0 DEF Node
<1> SUFFICES n \in Keep(sc, valid) <=> AskedHere(p, n)
  BY <1>0
<1>2. /\ Includes(sc) = {} \/ Excludes(sc) = {}
      /\ Includes(sc) \cup Excludes(sc) \cup Children(sc) # {}
      /\ AskedHere(p, n) <=> \/ n \in Children(sc) \cup Includes(sc)
                             \/ Includes(sc) = {} /\ n \notin Excludes(sc)
  BY <1>0, LevelMeans
<1>3. CASE OnlyChildren(sc)
  BY <1>1, <1>2, <1>3 DEF Keep, OnlyChildren
<1>4. CASE Excludes(sc) # {}
  BY <1>1, <1>2, <1>4 DEF Keep, OnlyChildren
<1>5. CASE ~OnlyChildren(sc) /\ Excludes(sc) = {}
  BY <1>1, <1>2, <1>5 DEF Keep, OnlyChildren
<1> QED
  BY <1>3, <1>4, <1>5

\* A relation that may be nested was asked for.
LEMMA NestedMeans ==
  ASSUME req \in Requests, Clear, ~Malformed, NEW p \in Seq(Name), Below(p) # {},
         NEW n, AllowNested(Node(p), n)
  PROVE  AskedHere(p, n)
<1>1. \/ n \in Children(Node(p)) \cup Includes(Node(p))
      \/ Excludes(Node(p)) # {} /\ n \notin Excludes(Node(p))
  BY DEF AllowNested, Node
<1> QED
  BY <1>1, LevelMeans

(***************************************************************************)
(* The inductive invariant.                                                 *)
(***************************************************************************)
\* A place that is to be built: its table is the one its path leads to, and its
\* scope is what the names say of it.
Place(pl) ==
  /\ pl.path \in Seq(Name)
  /\ pl.table = TableAt(pl.path)
  /\ Below(pl.path) # {} => pl.scope = Node(pl.path)
  /\ Clear /\ Reached(pl.path) /\ Below(pl.path) = {} => pl.scope = AllowAll

ShownTyped(s) ==
  /\ s.table = TableAt(s.path)
  /\ s.body \subseteq Body(s.table)
  /\ s.links \subseteq Links(s.path)
  /\ \A c \in s.columns : c[1] \in s.body /\ c[2] \in Schema[s.table].nested[c[1]]
  /\ s.sections \subseteq Relations(s.table)

ShownRight(s) ==
  /\ s.links = {n \in Links(s.path) : AskedHere(s.path, n)}
  /\ LET plain == Schema[s.table].plain \ Children(Node(s.path))
     IN  s.body \cap plain = {n \in plain : AskedHere(s.path, n)}

SectionsRight(s) == \A n \in s.sections : AskedHere(<<>>, n)

NamesChecked(s) ==
  \A e \in req.fields :
    s.path = Front(e.path) /\ Leaf(e) => Last(e.path) \in Body(s.table) \cup Relations(s.table)

Serializer(s) ==
  /\ ShownTyped(s)
  /\ Clear /\ Reached(s.path) => ShownRight(s)
  /\ Clear /\ req.list /\ s.path = <<>> => SectionsRight(s)
  /\ NamesChecked(s)

IInv ==
  /\ req \in Requests
  /\ status \in Statuses
  /\ status = "build" => ~Malformed /\ ~CannotEmbed
  /\ \A pl \in todo : Place(pl)
  /\ \A s \in shown : Serializer(s)

\* The expand parameters only name relations of the tables they lead to.
LEMMA ExpandedAreRelations ==
  ASSUME req \in Requests, ~CannotEmbed, NEW p, NEW n \in Expanded(p)
  PROVE  n \in Name /\ n \in Relations(TableAt(p))
<1>1. PICK q \in ExpandTree : Front(q) = p /\ Last(q) = n
  BY DEF Expanded
<1>2. \E r \in Seq(Name) : Follows(r) /\ \E k \in 1 .. Len(r) : q = SubSeq(r, 1, k)
  <2>1. CASE req.expand.scope # {}
    <3>1. PICK r \in req.expand.scope : q \in Prefixes(r) /\ q # <<>>
      BY <1>1, <2>1 DEF ExpandTree
    <3>2. r \in Seq(Name) /\ Follows(r)
      <4>1. req.expand.scope \subseteq DottedNames
        BY ParamsAssumption DEF Requests
      <4> QED
        BY <3>1, <4>1 DEF DottedNames, CannotEmbed
    <3>3. PICK k \in 0 .. Len(r) : q = SubSeq(r, 1, k)
      BY <3>1 DEF Prefixes
    <3>4. k # 0
      BY <3>1, <3>2, <3>3
    <3> QED
      BY <3>2, <3>3, <3>4
  <2>2. CASE req.expand.scope = {}
    <3>1. q \in AllPaths
      BY <1>1, <2>2 DEF ExpandTree
    <3>2. Follows(q) /\ q # <<>>
      BY <3>1 DEF AllPaths
    <3>3. UNION {Relations(t) : t \in DOMAIN Schema} \subseteq Name
      BY SchemaAssumption DEF SchemaTables, Relations, Forward
    <3>4. q \in SeqOf(UNION {Relations(t) : t \in DOMAIN Schema}, MaxLevels)
      BY <3>1 DEF AllPaths
    <3>5. PICK m \in 0 .. MaxLevels : q \in [1 .. m -> UNION {Relations(t) : t \in DOMAIN Schema}]
      BY <3>4 DEF SeqOf
    <3>6. q \in [1 .. m -> Name] /\ m \in Nat
      BY <3>3, <3>5 DEF MaxLevels
    <3>7. q \in Seq(Name)
      BY <3>6
    <3>8. q = SubSeq(q, 1, Len(q)) /\ Len(q) \in 1 .. Len(q)
      BY <3>2, <3>7
    <3> QED
      BY <3>2, <3>7, <3>8
  <2> QED
    BY <2>1, <2>2
<1>3. PICK r \in Seq(Name) : Follows(r) /\ \E k \in 1 .. Len(r) : q = SubSeq(r, 1, k)
  BY <1>2
<1>4. q \in DottedNames /\ Last(q) \in Relations(TableAt(Front(q)))
  BY <1>3, FollowsStep
<1>5. Last(q) \in Name
  BY <1>4 DEF Last, DottedNames
<1> QED
  BY <1>1, <1>4, <1>5

\* The sections of a serializer are among the expanded relations.
LEMMA SectionsExpanded ==
  ASSUME NEW pl
  PROVE  SectionsShown(pl) \subseteq Expanded(pl.path)
BY DEF SectionsShown

\* An object in a section is reached when its parent is, and the section was
\* asked for.
LEMMA ReachedStep ==
  ASSUME NEW p \in Seq(Name), NEW n \in Name, Reached(Append(p, n))
  PROVE  Reached(p) /\ AskedHere(p, n)
<1>1. PICK q : q = Append(p, n)
  OBVIOUS
<1>2. /\ q \in Seq(Name) /\ Len(q) = Len(p) + 1 /\ q[Len(p) + 1] = n
      /\ \A i \in 1 .. Len(p) : q[i] = p[i]
      /\ Len(p) \in Nat
  BY <1>1
<1>3. \A i \in 1 .. Len(p) + 1 : SubSeq(q, 1, i - 1) = SubSeq(p, 1, i - 1)
  BY <1>2
<1>4. SubSeq(p, 1, (Len(p) + 1) - 1) = p
  OBVIOUS
<1>5. \A i \in 1 .. Len(p) + 1 : AskedHere(SubSeq(p, 1, i - 1), q[i])
  BY <1>1, <1>2, <1>3 DEF Reached
<1>6. Len(p) + 1 \in 1 .. Len(p) + 1 /\ 1 .. Len(p) \subseteq 1 .. Len(p) + 1
  BY <1>2
<1>7. AskedHere(p, n)
  BY <1>2, <1>4, <1>5, <1>6
<1> QED
  BY <1>2, <1>5, <1>6, <1>7 DEF Reached

\* as_nested: the scope of a section is what the names say of its place.
LEMMA ScopeKept ==
  ASSUME req \in Requests, ~Malformed, ~CannotEmbed, NEW pl, Place(pl), NEW n \in SectionsShown(pl)
  PROVE  Place([path |-> Append(pl.path, n), table |-> Target(pl.table, n),
                scope |-> AsNested(pl.scope, n)])
<1>1. n \in Name
  BY SectionsExpanded, ExpandedAreRelations
<1>2. PICK p \in Seq(Name) : p = pl.path
  BY DEF Place
<1>3. PICK q : q = Append(p, n)
  OBVIOUS
<1>4. q \in Seq(Name) /\ TableAt(q) = Target(pl.table, n)
  BY <1>1, <1>2, <1>3, TableOfSection DEF Place
<1>5. Below(q) # {} <=> n \in Children(Node(p))
  BY <1>1, <1>3, BelowSection
<1>6. Below(q) \subseteq Below(p)
  BY <1>1, <1>3, BelowSection
<1>7. ASSUME Below(q) # {}
      PROVE  AsNested(pl.scope, n) = Node(q)
  <2>1. pl.scope = Node(p) /\ n \in Children(pl.scope)
    BY <1>2, <1>5, <1>6, <1>7 DEF Place
  <2>2. ~pl.scope.all /\ pl.scope.at = p
    BY <2>1 DEF Node
  <2> QED
    BY <1>3, <2>1, <2>2 DEF AsNested
<1>8. ASSUME Clear, Reached(q), Below(q) = {}
      PROVE  AsNested(pl.scope, n) = AllowAll
  <2>1. Reached(p) /\ AskedHere(p, n)
    BY <1>1, <1>3, <1>8, ReachedStep
  <2>2. CASE Below(p) = {}
    <3>1. pl.scope = AllowAll
      BY <1>2, <1>8, <2>1, <2>2 DEF Place
    <3>2. pl.scope.all
      BY <3>1 DEF AllowAll
    <3> QED
      BY <3>2 DEF AsNested
  <2>3. CASE Below(p) # {}
    <3>1. PICK sc : sc = pl.scope
      OBVIOUS
    <3>2. sc = Node(p)
      BY <1>2, <2>3, <3>1 DEF Place
    <3>3. ~sc.all /\ n \notin Children(sc)
      BY <1>5, <1>8, <3>2 DEF Node
    <3>4. /\ Includes(sc) = {} \/ Excludes(sc) = {}
          /\ n \in Includes(sc) \/ (Includes(sc) = {} /\ n \notin Excludes(sc))
      BY <1>8, <2>1, <2>3, <3>2, <3>3, LevelMeans
    <3> QED
      BY <3>1, <3>3, <3>4 DEF AsNested
  <2> QED
    BY <2>2, <2>3
<1> QED
  BY <1>2, <1>3, <1>4, <1>7, <1>8 DEF Place

(***************************************************************************)
(* What a serializer that is built shows.                                   *)
(***************************************************************************)
\* The body, links, columns and sections are those of the table.
LEMMA BuiltTyped ==
  ASSUME req \in Requests, ~CannotEmbed, NEW pl, Place(pl)
  PROVE  ShownTyped([path |-> pl.path, table |-> pl.table,
                     body |-> BodyShown(pl), links |-> LinksShown(pl),
                     columns |-> ColumnsShown(pl), sections |-> SectionsShown(pl)])
<1>1. BodyShown(pl) \subseteq Body(pl.table)
  BY DEF BodyShown
<1>2. LinksShown(pl) \subseteq Links(pl.path)
  BY DEF LinksShown
<1>3. \A c \in ColumnsShown(pl) : c[1] \in BodyShown(pl) /\ c[2] \in Schema[pl.table].nested[c[1]]
  BY DEF ColumnsShown
<1>4. pl.table = TableAt(pl.path)
  BY DEF Place
<1>5. SectionsShown(pl) \subseteq Relations(pl.table)
  BY <1>4, SectionsExpanded, ExpandedAreRelations
<1> QED
  BY <1>1, <1>2, <1>3, <1>4, <1>5 DEF ShownTyped

\* get_allow_list and apply: the links and the plain fields that were asked for.
LEMMA BuiltRight ==
  ASSUME req \in Requests, ~Malformed, NEW pl, Place(pl), Clear, Reached(pl.path)
  PROVE  /\ LinksShown(pl) = {n \in Links(pl.path) : AskedHere(pl.path, n)}
         /\ LET plain == Schema[pl.table].plain \ Children(Node(pl.path))
            IN  BodyShown(pl) \cap plain = {n \in plain : AskedHere(pl.path, n)}
<1>1. PICK p \in Seq(Name) : p = pl.path
  BY DEF Place
<1>2. PICK sc : sc = pl.scope
  OBVIOUS
<1>3. pl.table = TableAt(p)
  BY <1>1 DEF Place
<1>4. PICK plain : plain = Schema[pl.table].plain \ Children(Node(p))
  OBVIOUS
<1>5. plain \subseteq Body(pl.table) /\ Body(pl.table) \subseteq Valid(p) /\ Links(p) \subseteq Valid(p)
  BY <1>3, <1>4 DEF Body, Valid
<1>6. CASE Below(p) = {}
  <2>1. sc = AllowAll
    BY <1>1, <1>2, <1>6 DEF Place
  <2>2. Keep(sc, Valid(p)) = Valid(p) /\ Ordered(sc) = {}
    BY <2>1 DEF Keep, Ordered, AllowAll
  <2>3. \A n : AskedHere(p, n)
    BY <1>6, UnlimitedLevel
  <2>4. LinksShown(pl) = Links(p) /\ BodyShown(pl) = Body(pl.table)
    BY <1>1, <1>2, <1>5, <2>2 DEF LinksShown, BodyShown
  <2> QED
    BY <1>1, <1>4, <1>5, <2>3, <2>4
<1>7. CASE Below(p) # {}
  <2>1. sc = Node(p)
    BY <1>1, <1>2, <1>7 DEF Place
  <2>2. \A n \in Valid(p) : n \in Keep(sc, Valid(p)) <=> AskedHere(p, n)
    BY <1>7, <2>1, KeepMeans
  <2>3. LinksShown(pl) = {n \in Links(p) : AskedHere(p, n)}
    BY <1>1, <1>2, <1>5, <2>2 DEF LinksShown
  <2>4. BodyShown(pl) = IF Ordered(sc) = {} THEN Keep(sc, Valid(p)) \cap Body(pl.table)
                        ELSE Ordered(sc) \cap (Keep(sc, Valid(p)) \cap Body(pl.table))
    BY <1>1, <1>2 DEF BodyShown
  <2>5. BodyShown(pl) \cap plain = {n \in plain : AskedHere(p, n)}
    <3>1. CASE Ordered(sc) = {}
      BY <1>5, <2>2, <2>4, <3>1
    <3>2. CASE Ordered(sc) # {}
      <4>1. Ordered(sc) = Includes(sc)
        <5>1. p = <<>>
          BY <2>1, <3>2 DEF Ordered, Node
        <5>2. Ordered(sc) = {NameAt(e, p) : e \in {d \in Direct(p) : ~d.minus}}
          BY <2>1, <3>2, <5>1 DEF Ordered, Node
        <5> QED
          BY <1>7, <2>1, <5>2, LevelMeans
      <4>2. \A n \in plain : AskedHere(p, n) <=> n \in Includes(sc)
        <5>1. \A n \in plain : n \notin Children(sc)
          BY <1>4, <2>1
        <5>2. \A n : AskedHere(p, n) <=> \/ n \in Children(sc) \cup Includes(sc)
                                         \/ Includes(sc) = {} /\ n \notin Excludes(sc)
          BY <1>7, <2>1, LevelMeans
        <5> QED
          BY <3>2, <4>1, <5>1, <5>2
      <4> QED
        BY <1>5, <2>2, <2>4, <3>2, <4>1, <4>2
    <3> QED
      BY <3>1, <3>2
  <2> QED
    BY <1>1, <1>4, <2>3, <2>5
<1> QED
  BY <1>6, <1>7

\* allow_nested: a list only has sections that were asked for.
LEMMA BuiltSections ==
  ASSUME req \in Requests, ~Malformed, NEW pl, Place(pl), Clear, req.list, pl.path = <<>>
  PROVE  \A n \in SectionsShown(pl) : AskedHere(<<>>, n)
<1> SUFFICES ASSUME NEW n \in SectionsShown(pl)
             PROVE  AskedHere(pl.path, n)
  OBVIOUS
<1>1. AllowNested(pl.scope, n)
  BY DEF SectionsShown
<1>2. CASE Below(pl.path) = {}
  BY <1>2, UnlimitedLevel
<1>3. CASE Below(pl.path) # {}
  BY <1>1, <1>3, NestedMeans DEF Place
<1> QED
  BY <1>2, <1>3

\* get_allow_list: the leaves of the level were all checked against its valid names.
LEMMA BuiltChecked ==
  ASSUME req \in Requests, ~CannotEmbed, NEW pl, Place(pl), Invalid(pl.scope, Valid(pl.path)) = {},
         NEW e \in req.fields, pl.path = Front(e.path), Leaf(e)
  PROVE  Last(e.path) \in Body(pl.table) \cup Relations(pl.table)
<1>1. PICK p \in Seq(Name) : p = pl.path
  BY DEF Place
<1>2. e \in Direct(p) /\ NameAt(e, p) = Last(e.path)
  BY <1>1, DirectMeans
<1>3. pl.scope = Node(p)
  BY <1>1, <1>2 DEF Place, Direct
<1>4. e.minus \in BOOLEAN
  BY NamesTyped
<1>5. NameAt(e, p) \in Includes(Node(p)) \cup Excludes(Node(p))
  <2>1. NameAt(e, p) \in Leaves(p, e.minus)
    BY <1>2 DEF Leaves
  <2>2. e.minus = TRUE \/ e.minus = FALSE
    BY <1>4
  <2> QED
    BY <2>1, <2>2 DEF Includes, Excludes, Node
<1>6. NameAt(e, p) \in Valid(p)
  BY <1>1, <1>3, <1>5 DEF Invalid, Node
<1>7. Valid(p) \subseteq Body(TableAt(p)) \cup Relations(TableAt(p))
  BY ExpandedAreRelations DEF Valid, Links
<1> QED
  BY <1>1, <1>2, <1>6, <1>7 DEF Place

\* All four together.
LEMMA BuiltSerializer ==
  ASSUME req \in Requests, ~Malformed, ~CannotEmbed, NEW pl, Place(pl),
         Invalid(pl.scope, Valid(pl.path)) = {}
  PROVE  Serializer([path |-> pl.path, table |-> pl.table,
                     body |-> BodyShown(pl), links |-> LinksShown(pl),
                     columns |-> ColumnsShown(pl), sections |-> SectionsShown(pl)])
<1>1. PICK s : s = [path |-> pl.path, table |-> pl.table,
                    body |-> BodyShown(pl), links |-> LinksShown(pl),
                    columns |-> ColumnsShown(pl), sections |-> SectionsShown(pl)]
  OBVIOUS
<1>2. /\ s.path = pl.path /\ s.table = pl.table /\ s.body = BodyShown(pl)
      /\ s.links = LinksShown(pl) /\ s.sections = SectionsShown(pl)
  BY <1>1
<1>3. ShownTyped(s)
  BY <1>1, BuiltTyped
<1>4. Clear /\ Reached(s.path) => ShownRight(s)
  BY <1>2, BuiltRight DEF ShownRight
<1>5. Clear /\ req.list /\ s.path = <<>> => SectionsRight(s)
  BY <1>2, BuiltSections DEF SectionsRight
<1>6. NamesChecked(s)
  BY <1>2, BuiltChecked DEF NamesChecked
<1> QED
  BY <1>1, <1>3, <1>4, <1>5, <1>6 DEF Serializer

(***************************************************************************)
(* The steps.                                                               *)
(***************************************************************************)
\* What the names and the serializers say depends on the request only.
LEMMA RequestKept ==
  ASSUME UNCHANGED req, NEW x
  PROVE  /\ (x \in Requests)' <=> x \in Requests
         /\ Place(x)' <=> Place(x)
         /\ Serializer(x)' <=> Serializer(x)
         /\ Malformed' <=> Malformed
         /\ CannotEmbed' <=> CannotEmbed
<1>1. \A p : Below(p)' = Below(p) /\ Direct(p)' = Direct(p)
  BY DEF Below, Direct
<1>2. Clear' <=> Clear
  BY DEF Clear
<1>3. \A p, n : AskedHere(p, n)' <=> AskedHere(p, n)
  BY <1>1 DEF AskedHere
<1>4. \A p : Reached(p)' <=> Reached(p)
  BY <1>3 DEF Reached
<1>5. \A e : Leaf(e)' <=> Leaf(e)
  BY DEF Leaf
<1>6. \A p, m : Leaves(p, m)' = Leaves(p, m)
  BY <1>1, <1>5 DEF Leaves
<1>7. \A sc : /\ Includes(sc)' = Includes(sc) /\ Excludes(sc)' = Excludes(sc)
              /\ Children(sc)' = Children(sc)
  BY <1>1, <1>6 DEF Includes, Excludes, Children
<1>8. Malformed' <=> Malformed
  BY <1>7 DEF Malformed
<1>9. CannotEmbed' <=> CannotEmbed
  BY DEF CannotEmbed
<1>10. Place(x)' <=> Place(x)
  BY <1>1, <1>2, <1>4 DEF Place
<1>11. ShownTyped(x)' <=> ShownTyped(x)
  BY DEF ShownTyped
<1>12. ShownRight(x)' <=> ShownRight(x)
  BY <1>3, <1>7 DEF ShownRight
<1>13. SectionsRight(x)' <=> SectionsRight(x)
  BY <1>3 DEF SectionsRight
<1>14. NamesChecked(x)' <=> NamesChecked(x)
  BY <1>5 DEF NamesChecked
<1>15. Serializer(x)' <=> Serializer(x)
  BY <1>2, <1>4, <1>11, <1>12, <1>13, <1>14 DEF Serializer
<1> QED
  BY <1>8, <1>9, <1>10, <1>15 DEF Requests

\* Parse sets the root place, whose scope is RootScope.
LEMMA RootPlace ==
  ASSUME req \in Requests
  PROVE  Place([path |-> <<>>, table |-> Root, scope |-> RootScope])
<1>1. PICK p : p = <<>>
  OBVIOUS
<1>2. p \in Seq(Name) /\ Len(p) = 0
  BY <1>1
<1>3. TableAt(p) = Root
  BY <1>2, RouteUnfolds DEF TableAt
<1>4. Below(p) = req.fields
  BY <1>1, AllBelowRoot
<1>5. RootScope = IF req.fields = {} THEN AllowAll ELSE Node(p)
  BY <1>1 DEF RootScope
<1> QED
  BY <1>1, <1>2, <1>3, <1>4, <1>5 DEF Place

LEMMA InitIInv == Init => IInv
<1> SUFFICES ASSUME Init
             PROVE  IInv
  OBVIOUS
<1>1. req \in Requests
  BY DEF Init, Requests
<1> QED
  BY <1>1 DEF Init, IInv, Statuses

LEMMA ValidateIInv == IInv /\ Validate => IInv'
<1> SUFFICES ASSUME IInv, Validate
             PROVE  IInv'
  OBVIOUS
<1>1. UNCHANGED req /\ todo' = todo /\ shown' = shown
  BY DEF Validate
<1>2. status' \in {"parse", "400", "500"}
  <2>1. ParamProblems \subseteq {"400", "500"}
    BY DEF ParamProblems, ExpandProblems, ScopeProblems
  <2> QED
    BY <2>1 DEF Validate
<1>3. \A pl \in todo' : Place(pl)'
  BY <1>1, RequestKept DEF IInv
<1>4. \A s \in shown' : Serializer(s)'
  BY <1>1, RequestKept DEF IInv
<1>5. (req \in Requests)'
  BY <1>1 DEF IInv, Requests
<1> QED
  BY <1>2, <1>3, <1>4, <1>5 DEF IInv, Statuses

LEMMA ParseIInv == IInv /\ Parse => IInv'
<1> SUFFICES ASSUME IInv, Parse
             PROVE  IInv'
  OBVIOUS
<1>1. UNCHANGED req /\ shown' = shown
  BY DEF Parse
<1>2. /\ status' \in {"400", "build"}
      /\ status' = "build" => ~Malformed /\ ~CannotEmbed
  BY DEF Parse
<1>3. \A pl \in todo' : Place(pl)'
  <2>1. \A pl \in todo' : Place(pl)
    BY RootPlace DEF IInv, Parse
  <2> QED
    BY <1>1, <2>1, RequestKept
<1>4. \A s \in shown' : Serializer(s)'
  BY <1>1, RequestKept DEF IInv
<1>5. (req \in Requests)'
  BY <1>1 DEF IInv, Requests
<1>6. status' = "build" => ~Malformed' /\ ~CannotEmbed'
  BY <1>1, <1>2, RequestKept
<1> QED
  BY <1>2, <1>3, <1>4, <1>5, <1>6 DEF IInv, Statuses

LEMMA BuildIInv ==
  ASSUME IInv, NEW pl, Build(pl)
  PROVE  IInv'
<1>1. /\ UNCHANGED req /\ status = "build" /\ status' = status
      /\ pl \in todo /\ Invalid(pl.scope, Valid(pl.path)) = {}
  BY DEF Build
<1>2. req \in Requests /\ ~Malformed /\ ~CannotEmbed /\ Place(pl)
  BY <1>1 DEF IInv
<1>3. \A x \in todo' : Place(x)'
  <2>1. \A n \in SectionsShown(pl) :
          Place([path |-> Append(pl.path, n), table |-> Target(pl.table, n),
                 scope |-> AsNested(pl.scope, n)])
    BY <1>2, ScopeKept
  <2>2. \A x \in todo' : Place(x)
    BY <2>1 DEF IInv, Build
  <2> QED
    BY <1>1, <2>2, RequestKept
<1>4. \A x \in shown' : Serializer(x)'
  <2>1. Serializer([path |-> pl.path, table |-> pl.table,
                    body |-> BodyShown(pl), links |-> LinksShown(pl),
                    columns |-> ColumnsShown(pl), sections |-> SectionsShown(pl)])
    BY <1>1, <1>2, BuiltSerializer
  <2>2. \A x \in shown' : Serializer(x)
    BY <2>1 DEF IInv, Build
  <2> QED
    BY <1>1, <2>2, RequestKept
<1>5. (req \in Requests)'
  BY <1>1, <1>2 DEF Requests
<1>6. ~Malformed' /\ ~CannotEmbed'
  BY <1>1, <1>2, RequestKept
<1> QED
  BY <1>1, <1>3, <1>4, <1>5, <1>6 DEF IInv, Statuses

\* A step that leaves the request, the places and the serializers as they are.
LEMMA StopIInv ==
  ASSUME IInv, UNCHANGED <<req, todo, shown>>, status' \in Statuses,
         status' = "build" => status = "build"
  PROVE  IInv'
<1>1. \A x \in todo' : Place(x)'
  BY RequestKept DEF IInv
<1>2. \A x \in shown' : Serializer(x)'
  BY RequestKept DEF IInv
<1>3. (req \in Requests)'
  BY DEF IInv, Requests
<1>4. status' = "build" => ~Malformed' /\ ~CannotEmbed'
  BY RequestKept DEF IInv
<1> QED
  BY <1>1, <1>2, <1>3, <1>4 DEF IInv, Statuses

LEMMA NextIInv == IInv /\ [Next]_vars => IInv'
<1> SUFFICES ASSUME IInv, [Next]_vars
             PROVE  IInv'
  OBVIOUS
<1>1. CASE Validate
  BY <1>1, ValidateIInv
<1>2. CASE Parse
  BY <1>2, ParseIInv
<1>3. CASE Build(First)
  <2>1. PICK pl : pl = First
    OBVIOUS
  <2> QED
    BY <1>3, <2>1, BuildIInv
<1>4. CASE RefuseBuild(First)
  <2>1. UNCHANGED <<req, todo, shown>> /\ status' = "400"
    BY <1>4 DEF RefuseBuild
  <2> QED
    BY <2>1, StopIInv DEF Statuses
<1>5. CASE Finish
  <2>1. UNCHANGED <<req, todo, shown>> /\ status' = "ready"
    BY <1>5 DEF Finish
  <2> QED
    BY <2>1, StopIInv DEF Statuses
<1>6. CASE UNCHANGED vars
  <2>1. UNCHANGED <<req, todo, shown>> /\ status' = status
    BY <1>6 DEF vars
  <2> QED
    BY <2>1, StopIInv DEF IInv
<1> QED
  BY <1>1, <1>2, <1>3, <1>4, <1>5, <1>6 DEF Next

\* IInv holds in every state of every behaviour.
THEOREM Invariance == Spec => []IInv
<1>1. Init => IInv
  BY InitIInv
<1>2. IInv /\ [Next]_vars => IInv'
  BY NextIInv
<1> QED
  BY <1>1, <1>2, PTL DEF Spec

(***************************************************************************)
(* The properties.                                                          *)
(***************************************************************************)
LEMMA PlacesTyped == IInv => TypeOK
BY DEF IInv, Place, Serializer, ShownTyped, TypeOK

\* Every place has the table that its path leads to, and shows only what that
\* table has (the serializers that _get_serializer builds per level).
THEOREM TypeCorrect == Spec => []TypeOK
<1>1. IInv => TypeOK
  BY PlacesTyped
<1> QED
  BY <1>1, Invariance, PTL

\* An object that was asked for shows exactly the plain fields and links that
\* were asked for (FieldsToDisplay.as_nested and get_allow_list).
THEOREM ShownAsAskedHolds == Spec => []ShownAsAsked
<1>1. IInv => ShownAsAsked
  BY DEF IInv, Serializer, ShownRight, ShownAsAsked
<1> QED
  BY <1>1, Invariance, PTL

\* A list has no embedded section that was not asked for
\* (FieldsToDisplay.allow_nested).
THEOREM SectionsWereAskedHolds == Spec => []SectionsWereAsked
<1>1. IInv => SectionsWereAsked
  BY DEF IInv, Serializer, SectionsRight, SectionsWereAsked
<1> QED
  BY <1>1, Invariance, PTL

\* No response is given when a name that a serializer could check is unknown
\* (the invalid fields of FieldsToDisplay.apply).
THEOREM MistakesRefusedHolds == Spec => []MistakesRefused
<1>1. IInv => MistakesRefused
  BY DEF IInv, Serializer, NamesChecked, MistakesRefused
<1> QED
  BY <1>1, Invariance, PTL
=============================================================================
