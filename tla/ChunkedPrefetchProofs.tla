----------------------- MODULE ChunkedPrefetchProofs -----------------------
(***************************************************************************)
(* Proofs of the properties of ChunkedPrefetch, for any relations, any keys *)
(* and any chunk size. The first part is about the least-recently-used      *)
(* dict alone: after any number of uses it holds all the keys that were     *)
(* used, or it is full of such keys.                                        *)
(***************************************************************************)
EXTENDS ChunkedPrefetch, FiniteSetTheorems, WellFoundedInduction, TLAPS

(***************************************************************************)
(* Induction over the natural numbers, for a set instead of a predicate,   *)
(* which every prover can use.                                             *)
(***************************************************************************)
LEMMA Induction ==
  ASSUME NEW T, 0 \in T, \A n \in Nat : n \in T => n + 1 \in T
  PROVE  Nat \subseteq T
<1> DEFINE R == OpToRel(<, Nat)
<1>1. \A m, n \in Nat : <<m, n>> \in R <=> m < n
  BY DEF OpToRel
<1>2. IsWellFoundedOn(R, Nat)
  BY NatLessThanWellFounded
<1> HIDE DEF R
<1> SUFFICES ASSUME Nat \ T # {}
             PROVE  FALSE
  OBVIOUS
<1>3. PICK n \in Nat \ T : \A m \in Nat \ T : ~(<<m, n>> \in R)
  BY <1>2, WFMin
<1>4. \A m \in Nat \ T : ~(m < n)
  BY <1>1, <1>3
<1>5. n - 1 \in Nat /\ n - 1 \in T
  BY <1>4
<1> QED
  BY <1>5

(***************************************************************************)
(* One use of a key.                                                        *)
(***************************************************************************)
LEMMA CapacityPositive == Capacity \in Nat /\ Capacity >= 1
BY ChunkAssumption DEF Capacity

\* A dict: keys that are all different, no more than its size.
Dict(cache, S) ==
  /\ cache \in Seq(S)
  /\ Len(cache) <= Capacity
  /\ \A i, j \in DOMAIN cache : cache[i] = cache[j] => i = j

Holds(cache, key) == \E i \in DOMAIN cache : cache[i] = key

LEMMA ContainsHolds ==
  ASSUME NEW S, NEW cache \in Seq(S), NEW key
  PROVE  Contains(cache, key) <=> Holds(cache, key)
BY DEF Contains, Holds

\* u is the dict after a key was used that leaves the place gap, place by place.
Shifted(u, cache, key, gap, S) ==
  /\ u \in Seq(S)
  /\ Len(u) = IF gap > Len(cache) THEN gap ELSE Len(cache)
  /\ u[1] = key
  /\ \A i \in 2 .. gap : u[i] = cache[i - 1]
  /\ \A i \in DOMAIN cache : i > gap => u[i] = cache[i]
  /\ IF Holds(cache, key) THEN gap \in DOMAIN cache /\ cache[gap] = key
     ELSE gap = IF Len(cache) < Capacity THEN Len(cache) + 1 ELSE Capacity

\* What using a key does.
LEMMA UsedMeans ==
  ASSUME NEW S, NEW cache, Dict(cache, S), NEW key \in S
  PROVE  \E gap \in 1 .. Capacity : Shifted(Used(cache, key), cache, key, gap, S)
<1>1. PICK gap : gap = Leaves(cache, key)
  OBVIOUS
<1>2. cache \in Seq(S) /\ Len(cache) \in Nat /\ Len(cache) <= Capacity /\ DOMAIN cache = 1 .. Len(cache)
  BY DEF Dict
<1>3. IF Holds(cache, key) THEN gap \in DOMAIN cache /\ cache[gap] = key
      ELSE gap = IF Len(cache) < Capacity THEN Len(cache) + 1 ELSE Capacity
  <2>1. CASE Holds(cache, key)
    <3>1. gap = CHOOSE j \in DOMAIN cache : cache[j] = key
      BY <1>1, <1>2, <2>1, ContainsHolds DEF Leaves
    <3>2. \E j \in DOMAIN cache : cache[j] = key
      BY <2>1 DEF Holds
    <3> QED
      BY <2>1, <3>1, <3>2
  <2>2. CASE ~Holds(cache, key)
    BY <1>1, <1>2, <2>2, ContainsHolds DEF Leaves
  <2> QED
    BY <2>1, <2>2
<1>4. gap \in 1 .. Capacity /\ gap <= Len(cache) + 1
  BY <1>2, <1>3, CapacityPositive
<1>5. PICK m : m = IF gap > Len(cache) THEN gap ELSE Len(cache)
  OBVIOUS
<1>6. m \in Nat /\ m >= 1 /\ gap <= m /\ Len(cache) <= m /\ DOMAIN cache \cup {gap} = 1 .. m
  <2>1. PICK n \in Nat : n = Len(cache)
    BY <1>2
  <2>2. gap \in Nat /\ gap >= 1 /\ gap <= n + 1
    BY <1>2, <1>4, <2>1, CapacityPositive
  <2>3. m \in Nat /\ m >= 1 /\ gap <= m /\ n <= m /\ (m = n \/ (m = n + 1 /\ gap = m))
    BY <1>5, <2>1, <2>2
  <2>4. (1 .. n) \cup {gap} = 1 .. m
    BY <2>1, <2>2, <2>3
  <2> QED
    BY <1>2, <2>1, <2>3, <2>4
<1>7. PICK u : u = Used(cache, key)
  OBVIOUS
<1>8. u = [i \in 1 .. m |-> IF i = 1 THEN key ELSE IF i <= gap THEN cache[i - 1] ELSE cache[i]]
  BY <1>1, <1>6, <1>7 DEF Used
<1>9. \A i \in 1 .. m : u[i] \in S
  <2> SUFFICES ASSUME NEW i \in 1 .. m
               PROVE  u[i] \in S
    OBVIOUS
  <2>1. CASE i = 1
    BY <1>8, <2>1
  <2>2. CASE i # 1 /\ i <= gap
    <3>1. i - 1 \in 1 .. Len(cache)
      BY <1>2, <1>4, <1>6, <2>2
    <3> QED
      BY <1>2, <1>8, <2>2, <3>1
  <2>3. CASE i # 1 /\ ~(i <= gap)
    <3>1. i \in 1 .. Len(cache)
      BY <1>2, <1>4, <1>5, <1>6, <2>3
    <3> QED
      BY <1>2, <1>8, <2>3, <3>1
  <2> QED
    BY <2>1, <2>2, <2>3
<1>10. u \in Seq(S) /\ Len(u) = m
  <2>1. u \in [1 .. m -> S]
    BY <1>8, <1>9
  <2> QED
    BY <1>6, <2>1
<1>11. u[1] = key /\ \A i \in 2 .. gap : u[i] = cache[i - 1]
  BY <1>4, <1>6, <1>8
<1>12. \A i \in DOMAIN cache : i > gap => u[i] = cache[i]
  BY <1>2, <1>4, <1>6, <1>8
<1> QED
  BY <1>3, <1>4, <1>5, <1>7, <1>10, <1>11, <1>12 DEF Shifted

\* The keys that were used stand before the ones that were not, and the dict
\* holds all of them or only them.
Fresh(cache, D) ==
  /\ \A i, j \in DOMAIN cache : cache[j] \in D /\ cache[i] \notin D => j < i
  /\ \/ \A key \in D : Holds(cache, key)
     \/ Len(cache) = Capacity /\ \A i \in DOMAIN cache : cache[i] \in D

\* Using a key keeps the dict a dict, and makes the key one of the fresh ones.
LEMMA UsedKeeps ==
  ASSUME NEW S, NEW cache, Dict(cache, S), NEW key \in S
  PROVE  /\ Dict(Used(cache, key), S)
         /\ Holds(Used(cache, key), key)
         /\ Len(Used(cache, key)) >= Len(cache)
         /\ Holds(cache, key) => \A k : Holds(Used(cache, key), k) <=> Holds(cache, k)
         /\ \A D \in SUBSET S : Fresh(cache, D) => Fresh(Used(cache, key), D \cup {key})
<1>1. PICK u : u = Used(cache, key)
  OBVIOUS
<1>2. PICK gap \in 1 .. Capacity : Shifted(u, cache, key, gap, S)
  BY <1>1, UsedMeans
<1>3. /\ u \in Seq(S)
      /\ Len(u) = IF gap > Len(cache) THEN gap ELSE Len(cache)
      /\ u[1] = key
      /\ \A i \in 2 .. gap : u[i] = cache[i - 1]
      /\ \A i \in DOMAIN cache : i > gap => u[i] = cache[i]
      /\ IF Holds(cache, key) THEN gap \in DOMAIN cache /\ cache[gap] = key
         ELSE gap = IF Len(cache) < Capacity THEN Len(cache) + 1 ELSE Capacity
  BY <1>2 DEF Shifted
<1>4. /\ cache \in Seq(S) /\ Len(cache) \in Nat /\ Len(cache) <= Capacity
      /\ DOMAIN cache = 1 .. Len(cache)
      /\ \A i, j \in DOMAIN cache : cache[i] = cache[j] => i = j
  BY DEF Dict
<1>5. Len(cache) # Capacity => Len(cache) < Capacity
  <2>1. PICK c \in Nat : c = Capacity
    BY CapacityPositive
  <2>2. Len(cache) \in Nat /\ Len(cache) <= c
    BY <1>4, <2>1
  <2>3. Len(cache) # c => Len(cache) < c
    BY <2>2
  <2> QED
    BY <2>1, <2>3
<1>6. /\ Len(u) \in Nat /\ DOMAIN u = 1 .. Len(u) /\ Len(u) >= 1 /\ Len(u) >= Len(cache)
      /\ Len(u) <= Capacity /\ gap <= Len(u) /\ 1 \in DOMAIN u /\ gap <= Len(cache) + 1
  BY <1>3, <1>4, CapacityPositive
\* Where the key of a place in the new dict comes from.
<1>7. \A i \in DOMAIN u :
        \/ i = 1 /\ u[i] = key
        \/ i \in 2 .. gap /\ i - 1 \in DOMAIN cache /\ u[i] = cache[i - 1]
        \/ i > gap /\ i \in DOMAIN cache /\ u[i] = cache[i]
  <2> SUFFICES ASSUME NEW i \in DOMAIN u
               PROVE  \/ i = 1 /\ u[i] = key
                      \/ i \in 2 .. gap /\ i - 1 \in DOMAIN cache /\ u[i] = cache[i - 1]
                      \/ i > gap /\ i \in DOMAIN cache /\ u[i] = cache[i]
    OBVIOUS
  <2>1. CASE i = 1
    BY <1>3, <2>1
  <2>2. CASE i # 1 /\ i <= gap
    <3>1. i \in 2 .. gap /\ i - 1 \in 1 .. Len(cache)
      BY <1>4, <1>6, <2>2
    <3> QED
      BY <1>3, <1>4, <3>1
  <2>3. CASE i > gap
    <3>1. i \in 1 .. Len(cache)
      BY <1>3, <1>4, <1>6, <2>3
    <3> QED
      BY <1>3, <1>4, <2>3, <3>1
  <2> QED
    BY <1>6, <2>1, <2>2, <2>3
\* Where the key of a place in the old dict went.
<1>8. \A i \in DOMAIN cache :
        \/ i < gap /\ i + 1 \in DOMAIN u /\ i + 1 \in 2 .. gap /\ u[i + 1] = cache[i]
        \/ i > gap /\ i \in DOMAIN u /\ u[i] = cache[i]
        \/ i = gap
  <2> SUFFICES ASSUME NEW i \in DOMAIN cache
               PROVE  \/ i < gap /\ i + 1 \in DOMAIN u /\ i + 1 \in 2 .. gap /\ u[i + 1] = cache[i]
                      \/ i > gap /\ i \in DOMAIN u /\ u[i] = cache[i]
                      \/ i = gap
    OBVIOUS
  <2>1. CASE i < gap
    <3>1. i + 1 \in 2 .. gap /\ i + 1 \in 1 .. Len(u) /\ (i + 1) - 1 = i
      BY <1>4, <1>6, <2>1
    <3> QED
      BY <1>3, <1>6, <2>1, <3>1
  <2>2. CASE i > gap
    BY <1>3, <1>4, <1>6, <2>2
  <2> QED
    BY <1>4, <2>1, <2>2
<1>9. ~Holds(cache, key) => \A i \in DOMAIN cache : cache[i] # key
  BY DEF Holds
<1>10. \A i \in DOMAIN cache : cache[i] = key => i = gap
  BY <1>3, <1>4, <1>9
<1>11. \A i, j \in DOMAIN u : u[i] = u[j] => i = j
  <2> SUFFICES ASSUME NEW i \in DOMAIN u, NEW j \in DOMAIN u, u[i] = u[j]
               PROVE  i = j
    OBVIOUS
  <2>1. i \in Int /\ j \in Int /\ gap \in Int
    BY <1>6
  <2>2. CASE i = 1
    BY <1>3, <1>7, <1>10, <2>1, <2>2
  <2>3. CASE j = 1
    BY <1>3, <1>7, <1>10, <2>1, <2>3
  <2>4. CASE i # 1 /\ j # 1
    <3>1. \/ i \in 2 .. gap /\ i - 1 \in DOMAIN cache /\ u[i] = cache[i - 1]
          \/ i > gap /\ i \in DOMAIN cache /\ u[i] = cache[i]
      BY <1>7, <2>4
    <3>2. \/ j \in 2 .. gap /\ j - 1 \in DOMAIN cache /\ u[j] = cache[j - 1]
          \/ j > gap /\ j \in DOMAIN cache /\ u[j] = cache[j]
      BY <1>7, <2>4
    <3> QED
      BY <1>4, <2>1, <3>1, <3>2
  <2> QED
    BY <2>2, <2>3, <2>4
<1>12. Dict(u, S) /\ Holds(u, key)
  BY <1>3, <1>6, <1>11 DEF Dict, Holds
<1>13. ASSUME Holds(cache, key), NEW k
       PROVE  Holds(u, k) <=> Holds(cache, k)
  <2>1. gap \in DOMAIN cache /\ cache[gap] = key
    BY <1>3, <1>13
  <2>2. ASSUME NEW i \in DOMAIN u
        PROVE  Holds(cache, u[i])
    BY <1>7, <2>1 DEF Holds
  <2>3. ASSUME NEW i \in DOMAIN cache
        PROVE  Holds(u, cache[i])
    BY <1>8, <1>12, <2>1 DEF Holds
  <2> QED
    BY <2>2, <2>3 DEF Holds
<1>14. ASSUME NEW D \in SUBSET S, Fresh(cache, D)
       PROVE  Fresh(u, D \cup {key})
  <2>1. \A i, j \in DOMAIN cache : cache[j] \in D /\ cache[i] \notin D => j < i
    BY <1>14 DEF Fresh
  <2>2. ASSUME NEW i \in DOMAIN u, NEW j \in DOMAIN u, u[j] \in D \cup {key}, u[i] \notin D \cup {key}
        PROVE  j < i
    <3>1. i \in Int /\ j \in Int /\ gap \in Int /\ i # 1 /\ i > 1
      BY <1>3, <1>6, <2>2
    <3>2. CASE j = 1
      BY <3>1, <3>2
    <3>3. CASE j # 1
      <4>1. \/ i \in 2 .. gap /\ i - 1 \in DOMAIN cache /\ u[i] = cache[i - 1]
            \/ i > gap /\ i \in DOMAIN cache /\ u[i] = cache[i]
        BY <1>7, <3>1
      <4>2. \/ j \in 2 .. gap /\ j - 1 \in DOMAIN cache /\ u[j] = cache[j - 1]
            \/ j > gap /\ j \in DOMAIN cache /\ u[j] = cache[j]
        BY <1>7, <3>3
      <4>3. u[j] # key
        BY <1>3, <1>6, <1>11, <3>3
      <4> QED
        BY <1>4, <2>1, <2>2, <3>1, <4>1, <4>2, <4>3
    <3> QED
      BY <3>2, <3>3
  <2>3. CASE Holds(cache, key)
    <3>1. \A k : Holds(u, k) <=> Holds(cache, k)
      BY <1>13, <2>3
    <3>2. CASE \A k \in D : Holds(cache, k)
      BY <2>2, <2>3, <3>1, <3>2 DEF Fresh
    <3>3. CASE Len(cache) = Capacity /\ \A i \in DOMAIN cache : cache[i] \in D
      <4>1. Len(u) = Capacity
        <5>1. Len(u) \in Nat /\ Len(u) >= Len(cache) /\ Len(u) <= Capacity /\ Capacity \in Nat
          BY <1>6, CapacityPositive
        <5>2. Len(cache) = Capacity
          BY <3>3
        <5> QED
          BY <5>1, <5>2
      <4>2. \A i \in DOMAIN u : u[i] \in D \cup {key}
        BY <1>7, <3>3
      <4> QED
        BY <2>2, <4>1, <4>2 DEF Fresh
    <3> QED
      BY <1>14, <3>2, <3>3 DEF Fresh
  <2>4. CASE ~Holds(cache, key) /\ Len(cache) < Capacity
    <3>1. Len(cache) # Capacity
      <4>1. PICK c \in Nat : c = Capacity
        BY CapacityPositive
      <4> QED
        BY <2>4, <4>1
    <3>2. \A k \in D : Holds(cache, k)
      BY <1>14, <3>1 DEF Fresh
    <3>3. gap = Len(cache) + 1 /\ \A k \in D : Holds(cache, k)
      BY <1>3, <2>4, <3>2
    <3>4. \A i \in DOMAIN cache : Holds(u, cache[i])
      BY <1>4, <1>8, <3>3 DEF Holds
    <3>5. \A k \in D \cup {key} : Holds(u, k)
      BY <1>12, <3>3, <3>4 DEF Holds
    <3> QED
      BY <2>2, <3>5 DEF Fresh
  <2>5. CASE ~Holds(cache, key) /\ Len(cache) = Capacity
    <3>1. gap = Capacity /\ Len(u) = Capacity /\ Capacity \in DOMAIN cache
      BY <1>3, <1>4, <1>6, <2>5, CapacityPositive
    <3>2. CASE cache[Capacity] \in D
      <4>1. \A i \in DOMAIN cache : cache[i] \in D
        BY <1>4, <2>1, <2>5, <3>1, <3>2, CapacityPositive
      <4>2. \A i \in DOMAIN u : u[i] \in D \cup {key}
        BY <1>7, <4>1
      <4> QED
        BY <2>2, <3>1, <4>2 DEF Fresh
    <3>3. CASE cache[Capacity] \notin D
      <4>1. \A k \in D : Holds(cache, k)
        BY <1>14, <3>1, <3>3 DEF Fresh
      <4>2. \A k \in D : Holds(u, k)
        BY <1>8, <3>1, <3>3, <4>1 DEF Holds
      <4> QED
        BY <1>12, <2>2, <4>2 DEF Fresh
    <3> QED
      BY <3>2, <3>3
  <2>6. Len(cache) < Capacity \/ Len(cache) = Capacity
    BY <1>5
  <2> QED
    BY <2>3, <2>4, <2>5, <2>6
<1> QED
  BY <1>1, <1>6, <1>12, <1>13, <1>14

(***************************************************************************)
(* Any number of uses.                                                      *)
(***************************************************************************)
\* The recursive function of Uses exists: each use starts from the dict that the
\* use before it left.
LEMMA UsesUnfolds ==
  ASSUME NEW cache, NEW keys, NEW found, Len(keys) \in Nat
  PROVE  /\ Uses(cache, keys, found)[0] = cache
         /\ \A n \in 1 .. Len(keys) :
              Uses(cache, keys, found)[n] =
                IF keys[n] \in found \/ Contains(Uses(cache, keys, found)[n - 1], keys[n])
                THEN Used(Uses(cache, keys, found)[n - 1], keys[n])
                ELSE Uses(cache, keys, found)[n - 1]
<1> DEFINE Use(c, k) == IF k \in found \/ Contains(c, k) THEN Used(c, k) ELSE c
           Is(f, n) == f = [i \in 0 .. n |-> IF i = 0 THEN cache ELSE Use(f[i - 1], keys[i])]
           T == {n \in Nat : n <= Len(keys) => \E f : Is(f, n)}
<1> HIDE DEF Use
<1>1. 0 \in T
  <2>1. Is([i \in 0 .. 0 |-> cache], 0)
    OBVIOUS
  <2> QED
    BY <2>1
<1>2. ASSUME NEW n \in Nat, n \in T
      PROVE  n + 1 \in T
  <2> SUFFICES ASSUME n + 1 <= Len(keys)
               PROVE  \E f : Is(f, n + 1)
    OBVIOUS
  <2>1. PICK f : Is(f, n)
    BY <1>2
  <2>2. PICK g : g = [i \in 0 .. n + 1 |-> IF i = n + 1 THEN Use(f[n], keys[i]) ELSE f[i]]
    OBVIOUS
  <2>3. \A i \in 0 .. n : g[i] = f[i]
    BY <2>2
  <2>4. \A i \in 0 .. n : f[i] = IF i = 0 THEN cache ELSE Use(f[i - 1], keys[i])
    BY <2>1
  <2>5. \A i \in 0 .. n + 1 : g[i] = IF i = 0 THEN cache ELSE Use(g[i - 1], keys[i])
    <3> SUFFICES ASSUME NEW i \in 0 .. n + 1
                 PROVE  g[i] = IF i = 0 THEN cache ELSE Use(g[i - 1], keys[i])
      OBVIOUS
    <3>1. CASE i = n + 1
      <4>1. n \in 0 .. n /\ i - 1 = n /\ i # 0
        BY <3>1
      <4>2. g[i] = Use(f[n], keys[i])
        BY <2>2, <3>1
      <4> QED
        BY <2>3, <4>1, <4>2
    <3>2. CASE i # n + 1 /\ i # 0
      <4>1. i \in 0 .. n /\ i - 1 \in 0 .. n
        BY <3>2
      <4> QED
        BY <2>3, <2>4, <3>2, <4>1
    <3>3. CASE i # n + 1 /\ i = 0
      BY <2>3, <2>4, <3>3
    <3> QED
      BY <3>1, <3>2, <3>3
  <2>6. Is(g, n + 1)
    BY <2>2, <2>5
  <2> QED
    BY <2>6
<1>3. Len(keys) \in T
  <2> HIDE DEF T
  <2> QED
    BY <1>1, <1>2, Induction
<1>4. PICK f : Is(f, Len(keys))
  BY <1>3
<1>5. Is(Uses(cache, keys, found), Len(keys))
  BY <1>4 DEF Uses, Use
<1>6. PICK u : u = Uses(cache, keys, found)
  OBVIOUS
<1>7. \A n \in 0 .. Len(keys) : u[n] = IF n = 0 THEN cache ELSE Use(u[n - 1], keys[n])
  BY <1>5, <1>6
<1>8. 0 \in 0 .. Len(keys) /\ \A n \in 1 .. Len(keys) : n \in 0 .. Len(keys) /\ n # 0
  OBVIOUS
<1>9. u[0] = cache /\ \A n \in 1 .. Len(keys) : u[n] = Use(u[n - 1], keys[n])
  BY <1>7, <1>8
<1> QED
  BY <1>6, <1>9 DEF Use

\* Looking keys up changes their order and nothing else.
LEMMA LooksUp ==
  ASSUME NEW S, NEW cache, Dict(cache, S), NEW keys, Len(keys) \in Nat
  PROVE  /\ Dict(UsesAll(cache, keys, {}), S)
         /\ Len(UsesAll(cache, keys, {})) >= Len(cache)
         /\ \A k : Holds(UsesAll(cache, keys, {}), k) <=> Holds(cache, k)
<1>1. PICK u : u = Uses(cache, keys, {})
  OBVIOUS
<1>2. /\ u[0] = cache
      /\ \A n \in 1 .. Len(keys) : u[n] = IF Contains(u[n - 1], keys[n]) THEN Used(u[n - 1], keys[n])
                                          ELSE u[n - 1]
  BY <1>1, UsesUnfolds
<1> DEFINE Good(c) == /\ Dict(c, S)
                      /\ Len(c) >= Len(cache)
                      /\ \A k : Holds(c, k) <=> Holds(cache, k)
           T == {n \in Nat : n <= Len(keys) => Good(u[n])}
<1>3. 0 \in T
  <2>1. Len(cache) \in Nat
    BY DEF Dict
  <2> QED
    BY <1>2, <2>1
<1>4. ASSUME NEW c, Good(c), NEW k, Contains(c, k)
      PROVE  Good(Used(c, k))
  <2>1. Holds(c, k) /\ k \in S
    <3>1. c \in Seq(S)
      BY <1>4 DEF Dict
    <3>2. Holds(c, k)
      BY <1>4, <3>1, ContainsHolds
    <3> QED
      BY <3>1, <3>2 DEF Holds
  <2>2. Dict(c, S) /\ Len(c) \in Nat /\ Len(cache) \in Nat /\ Len(Used(c, k)) \in Nat
    BY <1>4, <2>1, UsedKeeps DEF Dict
  <2>3. /\ Dict(Used(c, k), S) /\ Len(Used(c, k)) >= Len(c)
        /\ \A x : Holds(Used(c, k), x) <=> Holds(c, x)
    BY <2>1, <2>2, UsedKeeps
  <2>4. Len(Used(c, k)) >= Len(cache)
    BY <1>4, <2>2, <2>3
  <2> QED
    BY <1>4, <2>3, <2>4
<1>5. ASSUME NEW n \in Nat, n \in T
      PROVE  n + 1 \in T
  <2> SUFFICES ASSUME n + 1 <= Len(keys)
               PROVE  Good(u[n + 1])
    OBVIOUS
  <2>1. Good(u[n])
    BY <1>5
  <2>2. n + 1 \in 1 .. Len(keys) /\ (n + 1) - 1 = n
    OBVIOUS
  <2>3. u[n + 1] = IF Contains(u[n], keys[n + 1]) THEN Used(u[n], keys[n + 1]) ELSE u[n]
    BY <1>2, <2>2
  <2> HIDE DEF Good
  <2> QED
    BY <1>4, <2>1, <2>3
<1>6. Good(u[Len(keys)])
  <2>1. Len(keys) \in T
    <3> HIDE DEF T
    <3> QED
      BY <1>3, <1>5, Induction
  <2> QED
    BY <2>1
<1> QED
  BY <1>1, <1>6 DEF UsesAll

\* After keys were stored, the dict has all of them or is full of them.
LEMMA Stores ==
  ASSUME NEW S, NEW cache, Dict(cache, S), NEW keys, Len(keys) \in Nat
  PROVE  /\ Dict(UsesAll(cache, keys, S), S)
         /\ Len(UsesAll(cache, keys, S)) >= Len(cache)
         /\ Fresh(UsesAll(cache, keys, S), {keys[i] : i \in 1 .. Len(keys)} \cap S)
<1>1. PICK u : u = Uses(cache, keys, S)
  OBVIOUS
<1>2. /\ u[0] = cache
      /\ \A n \in 1 .. Len(keys) :
           u[n] = IF keys[n] \in S \/ Contains(u[n - 1], keys[n]) THEN Used(u[n - 1], keys[n])
                  ELSE u[n - 1]
  BY <1>1, UsesUnfolds
<1> DEFINE D(n) == {keys[i] : i \in 1 .. n} \cap S
           Good(c, n) == Dict(c, S) /\ Len(c) >= Len(cache) /\ Fresh(c, D(n))
           T == {n \in Nat : n <= Len(keys) => Good(u[n], n)}
<1>3. 0 \in T
  <2>1. Len(cache) \in Nat
    BY DEF Dict
  <2>2. D(0) = {}
    OBVIOUS
  <2>3. Fresh(cache, {})
    BY DEF Fresh
  <2> HIDE DEF D
  <2>4. u[0] = cache
    BY <1>2
  <2>5. Fresh(u[0], D(0))
    BY <2>2, <2>3, <2>4, Zenon
  <2>6. Dict(u[0], S)
    BY <2>4, Zenon
  <2>7. Len(u[0]) >= Len(cache)
    BY <2>1, <2>4
  <2> QED
    BY <2>5, <2>6, <2>7
<1>4. ASSUME NEW n \in Nat, n \in T
      PROVE  n + 1 \in T
  <2> SUFFICES ASSUME n + 1 <= Len(keys)
               PROVE  Good(u[n + 1], n + 1)
    OBVIOUS
  <2>1. PICK c : c = u[n]
    OBVIOUS
  <2>2. PICK k : k = keys[n + 1]
    OBVIOUS
  <2>3. Dict(c, S) /\ Len(c) >= Len(cache) /\ Fresh(c, D(n))
    BY <1>4, <2>1
  <2>4. n + 1 \in 1 .. Len(keys) /\ (n + 1) - 1 = n
    OBVIOUS
  <2>5. u[n + 1] = IF k \in S \/ Contains(c, k) THEN Used(c, k) ELSE c
    BY <1>2, <2>1, <2>2, <2>4
  <2>6. D(n + 1) = D(n) \cup ({k} \cap S)
    <3>1. 1 .. n + 1 = (1 .. n) \cup {n + 1}
      OBVIOUS
    <3> QED
      BY <2>2, <3>1
  <2>7. D(n) \in SUBSET S
    OBVIOUS
  <2> HIDE DEF D
  <2>8. CASE k \in S
    <3>1. /\ Dict(Used(c, k), S) /\ Len(Used(c, k)) >= Len(c)
          /\ Fresh(Used(c, k), D(n) \cup {k})
      BY <2>3, <2>7, <2>8, UsedKeeps
    <3>2. Len(c) \in Nat /\ Len(cache) \in Nat /\ Len(Used(c, k)) \in Nat
      BY <2>3, <3>1 DEF Dict
    <3>3. Len(Used(c, k)) >= Len(cache)
      BY <2>3, <3>1, <3>2
    <3>4. D(n + 1) = D(n) \cup {k}
      BY <2>6, <2>8
    <3> QED
      BY <2>5, <2>8, <3>1, <3>3, <3>4
  <2>9. CASE k \notin S
    <3>1. c \in Seq(S)
      BY <2>3 DEF Dict
    <3>2. ~Contains(c, k)
      BY <2>9, <3>1, ContainsHolds DEF Holds
    <3>3. D(n + 1) = D(n)
      BY <2>6, <2>9
    <3> QED
      BY <2>3, <2>5, <2>9, <3>2, <3>3
  <2> QED
    BY <2>8, <2>9
<1>5. Good(u[Len(keys)], Len(keys))
  <2>1. Len(keys) \in T
    <3> HIDE DEF T
    <3> QED
      BY <1>3, <1>4, Induction
  <2> QED
    BY <2>1
<1> QED
  BY <1>1, <1>5 DEF UsesAll

(***************************************************************************)
(* The inductive invariant.                                                 *)
(***************************************************************************)
\* Everything in memory has its type.
Typed ==
  /\ chunk \in Seq(Row)
  /\ Len(chunk) <= ChunkSize
  /\ loaded \in [DOMAIN chunk -> SUBSET Lookups]
  /\ step \in {"read", "restore", "prefetch", "persist", "serve", "end"}
  /\ served \in 0 .. Len(chunk)
  /\ step = "read" => served = 0

\* The relations with a cache are foreign keys, and each cache holds an object.
CachesRight ==
  /\ DOMAIN caches \subseteq Fks
  /\ \A f \in DOMAIN caches : Dict(caches[f], Objects[f]) /\ Len(caches[f]) >= 1

\* A dict has all the keys, or is full of them.
Full(cache, keys) ==
  \/ \A key \in keys : Holds(cache, key)
  \/ Len(cache) = Capacity /\ \A i \in DOMAIN cache : cache[i] \in keys

\* The objects that the rows of the chunk refer to.
KeysIn(f) == {chunk[i][f] : i \in DOMAIN chunk} \cap Objects[f]

\* A chunk that is served has its objects in the caches, as far as they fit.
Stored ==
  step = "serve" => \A f \in DOMAIN caches : Full(caches[f], KeysIn(f))

\* A chunk that was just prefetched has everything; without this, Persist could
\* add a cache for a relation that the rows of the chunk lack.
IInv ==
  /\ Typed
  /\ CachesRight
  /\ step = "persist" => loaded = [i \in DOMAIN chunk |-> Lookups]
  /\ CachedFksLoaded
  /\ Stored


\* Every row of a chunk that was prefetched has all its relations.
LEMMA PrefetchedHasNoLazy ==
  ASSUME loaded = [i \in DOMAIN chunk |-> Lookups]
  PROVE  \A i \in DOMAIN chunk : Lazy(i) = {}
BY DEF Lazy, Lookups

\* The keys of a relation, one for each row.
LEMMA KeysOfRows ==
  ASSUME Typed, NEW f
  PROVE  /\ Len(KeysOf(f)) = Len(chunk) /\ Len(chunk) \in Nat
         /\ DOMAIN chunk = 1 .. Len(chunk)
         /\ \A i \in DOMAIN chunk : KeysOf(f)[i] = chunk[i][f]
<1>1. Len(chunk) \in Nat /\ DOMAIN chunk = 1 .. Len(chunk)
  BY DEF Typed
<1>2. PICK keys : keys = [i \in 1 .. Len(chunk) |-> chunk[i][f]]
  OBVIOUS
<1>3. Len(keys) = Len(chunk)
  BY <1>1, <1>2
<1> QED
  BY <1>1, <1>2, <1>3 DEF KeysOf

\* The decision of _restore_caches: a row whose relation is not in its cache, and
\* not NULL either, makes it prefetch, and nothing else does.
LEMMA RestoredMeans ==
  ASSUME CachesRight, NEW i, NEW f \in DOMAIN caches
  PROVE  f \in RestoredFor(i) <=> Holds(caches[f], chunk[i][f])
<1>1. caches[f] \in Seq(Objects[f])
  BY DEF CachesRight, Dict
<1> QED
  BY <1>1, ContainsHolds DEF RestoredFor

\* When _restore_caches spares a chunk the prefetch, no row of it lacks a
\* relation that has a cache.
LEMMA RestoreSound ==
  ASSUME DOMAIN caches \subseteq Fks, Restore, step' = "serve"
  PROVE  \A i \in DOMAIN chunk' : Lazy(i)' \cap DOMAIN caches' = {}
<1>1. AllRestored
  BY DEF Restore
<1>2. SUFFICES ASSUME NEW i \in DOMAIN chunk, NEW f \in DOMAIN caches, f \in Lazy(i)'
               PROVE  FALSE
  BY DEF Restore
<1>3. f \notin Many
  BY <1>2, ChunkAssumption
<1>4. f \notin RestoredFor(i) /\ chunk[i][f] # NoKey
  BY <1>2, <1>3 DEF Lazy, Restore
<1>. QED  BY <1>1, <1>2, <1>4 DEF AllRestored

\* Looking the keys of a chunk up keeps the caches right.
LEMMA RestoreCaches ==
  ASSUME Typed, CachesRight, Restore
  PROVE  /\ CachesRight'
         /\ DOMAIN caches' = DOMAIN caches
         /\ \A f \in DOMAIN caches : \A k : Holds(caches'[f], k) <=> Holds(caches[f], k)
<1>1. /\ DOMAIN caches' = DOMAIN caches
      /\ \A f \in DOMAIN caches : caches'[f] = UsesAll(caches[f], KeysOf(f), {})
  BY DEF Restore
<1>2. ASSUME NEW f \in DOMAIN caches
      PROVE  /\ Dict(caches'[f], Objects[f]) /\ Len(caches'[f]) >= 1
             /\ \A k : Holds(caches'[f], k) <=> Holds(caches[f], k)
  <2>1. Dict(caches[f], Objects[f]) /\ Len(caches[f]) >= 1 /\ Len(KeysOf(f)) \in Nat
    BY KeysOfRows DEF CachesRight
  <2>2. PICK c : c = UsesAll(caches[f], KeysOf(f), {})
    OBVIOUS
  <2>3. /\ Dict(c, Objects[f]) /\ Len(c) >= Len(caches[f])
        /\ \A k : Holds(c, k) <=> Holds(caches[f], k)
    BY <2>1, <2>2, LooksUp
  <2>4. Len(c) >= 1
    <3>1. Len(c) \in Nat /\ Len(caches[f]) \in Nat
      BY <2>1, <2>3 DEF Dict
    <3> QED
      BY <2>1, <2>3, <3>1
  <2> QED
    BY <1>1, <2>2, <2>3, <2>4
<1> QED
  BY <1>1, <1>2 DEF CachesRight

\* A chunk that is spared the prefetch has its objects in the caches.
LEMMA RestoreStored ==
  ASSUME Typed, CachesRight, Restore, step' = "serve"
  PROVE  Stored'
<1> SUFFICES ASSUME NEW f \in DOMAIN caches', NEW k \in KeysIn(f)'
             PROVE  Holds(caches'[f], k)
  BY DEF Stored, Full
<1>1. f \in DOMAIN caches /\ chunk' = chunk
  BY RestoreCaches DEF Restore
<1>2. PICK i \in DOMAIN chunk : k = chunk[i][f] /\ k \in Objects[f]
  BY <1>1 DEF KeysIn
<1>3. k # NoKey
  BY <1>1, <1>2, ChunkAssumption DEF CachesRight
<1>4. AllRestored
  BY DEF Restore
<1>5. f \in RestoredFor(i)
  BY <1>1, <1>2, <1>3, <1>4 DEF AllRestored
<1>6. Holds(caches[f], k)
  BY <1>1, <1>2, <1>5, RestoredMeans
<1> QED
  BY <1>1, <1>6, RestoreCaches

\* Storing the objects of a chunk keeps the caches right, and they have the
\* objects of the chunk as far as they fit.
LEMMA PersistCaches ==
  ASSUME Typed, CachesRight, Persist
  PROVE  CachesRight' /\ Stored'
<1>1. /\ DOMAIN caches' = Cached /\ chunk' = chunk
      /\ \A f \in Cached : caches'[f] = UsesAll(Cache(f), KeysOf(f), Objects[f])
  BY DEF Persist
<1>2. Cached \subseteq Fks
  BY DEF Cached, CachesRight
<1>3. ASSUME NEW f \in Cached
      PROVE  /\ Dict(caches'[f], Objects[f]) /\ Len(caches'[f]) >= 1
             /\ Full(caches'[f], KeysIn(f))
  <2>1. Dict(Cache(f), Objects[f])
    <3>1. CASE f \in DOMAIN caches
      BY <3>1 DEF Cache, CachesRight
    <3>2. CASE f \notin DOMAIN caches
      <4>1. PICK c : c = <<>>
        OBVIOUS
      <4>2. c \in Seq(Objects[f]) /\ Len(c) = 0 /\ DOMAIN c = {}
        BY <4>1
      <4>3. Dict(c, Objects[f])
        BY <4>2, CapacityPositive DEF Dict
      <4> QED
        BY <3>2, <4>1, <4>3 DEF Cache
    <3> QED
      BY <3>1, <3>2
  <2>2. PICK c : c = UsesAll(Cache(f), KeysOf(f), Objects[f])
    OBVIOUS
  <2>3. /\ Len(KeysOf(f)) \in Nat
        /\ {KeysOf(f)[i] : i \in 1 .. Len(KeysOf(f))} \cap Objects[f] = KeysIn(f)
    <3>1. /\ Len(KeysOf(f)) = Len(chunk) /\ Len(chunk) \in Nat /\ DOMAIN chunk = 1 .. Len(chunk)
          /\ \A i \in DOMAIN chunk : KeysOf(f)[i] = chunk[i][f]
      BY KeysOfRows
    <3> QED
      BY <3>1 DEF KeysIn
  <2>4. /\ Dict(c, Objects[f]) /\ Len(c) >= Len(Cache(f))
        /\ Fresh(c, KeysIn(f))
    <3>1. PICK keys : keys = KeysOf(f)
      OBVIOUS
    <3>2. PICK S : S = Objects[f]
      OBVIOUS
    <3>3. PICK old : old = Cache(f)
      OBVIOUS
    <3>4. Dict(old, S) /\ Len(keys) \in Nat
      BY <2>1, <2>3, <3>1, <3>2, <3>3
    <3>5. /\ Dict(UsesAll(old, keys, S), S) /\ Len(UsesAll(old, keys, S)) >= Len(old)
          /\ Fresh(UsesAll(old, keys, S), {keys[i] : i \in 1 .. Len(keys)} \cap S)
      BY <3>4, Stores
    <3>6. {keys[i] : i \in 1 .. Len(keys)} \cap S = KeysIn(f)
      BY <2>3, <3>1, <3>2
    <3>7. Fresh(UsesAll(old, keys, S), KeysIn(f))
      BY <3>5, <3>6
    <3>8. c = UsesAll(old, keys, S)
      BY <2>2, <3>1, <3>2, <3>3
    <3> QED
      BY <3>2, <3>3, <3>5, <3>7, <3>8
  <2>5. Full(c, KeysIn(f))
    BY <2>4 DEF Fresh, Full
  <2>6. Len(c) \in Nat /\ Len(Cache(f)) \in Nat /\ DOMAIN c = 1 .. Len(c)
    BY <2>1, <2>4 DEF Dict
  <2>7. Len(c) >= 1
    <3>1. CASE f \in DOMAIN caches
      BY <2>4, <2>6, <3>1 DEF Cache, CachesRight
    <3>2. CASE f \notin DOMAIN caches
      <4>1. PICK i \in DOMAIN chunk : chunk[i][f] \in Objects[f]
        BY <3>2 DEF Cached, Found
      <4>2. chunk[i][f] \in KeysIn(f)
        BY <4>1 DEF KeysIn
      <4>3. CASE \A key \in KeysIn(f) : Holds(c, key)
        <5>1. \E j \in DOMAIN c : TRUE
          BY <4>2, <4>3 DEF Holds
        <5> QED
          BY <2>6, <5>1
      <4>4. CASE Len(c) = Capacity
        BY <4>4, CapacityPositive
      <4> QED
        BY <2>5, <4>3, <4>4 DEF Full
    <3> QED
      BY <3>1, <3>2
  <2> QED
    BY <1>1, <2>2, <2>4, <2>5, <2>7
<1>4. CachesRight'
  BY <1>1, <1>2, <1>3 DEF CachesRight
<1>5. \A f : KeysIn(f)' = KeysIn(f)
  BY <1>1 DEF KeysIn
<1> QED
  BY <1>1, <1>3, <1>4, <1>5 DEF Stored

(***************************************************************************)
(* The steps.                                                               *)
(***************************************************************************)
\* IInv holds initially: there are no caches and no rows.
LEMMA InitIInv == Init => IInv
<1> SUFFICES ASSUME Init
             PROVE  IInv
  OBVIOUS
<1>1. Typed
  <2>1. PICK c : c = <<>>
    OBVIOUS
  <2>2. /\ c \in Seq(Row) /\ Len(c) = 0 /\ DOMAIN c = {}
        /\ c \in [DOMAIN c -> SUBSET Lookups]
    BY <2>1
  <2> QED
    BY <2>1, <2>2, ChunkAssumption DEF Init, Typed
<1>2. DOMAIN caches = {}
  BY DEF Init
<1> QED
  BY <1>1, <1>2 DEF Init, IInv, CachesRight, CachedFksLoaded, Stored

\* Nothing that the caches hold changes, and no chunk is served.
LEMMA CachesAsTheyWere ==
  ASSUME IInv, Typed', UNCHANGED caches, step' \notin {"serve", "persist"}
  PROVE  IInv'
BY DEF IInv, CachesRight, CachedFksLoaded, Stored

LEMMA ReadChunkIInv == IInv /\ ReadChunk => IInv'
<1> SUFFICES ASSUME IInv, ReadChunk
             PROVE  IInv'
  OBVIOUS
<1>1. PICK n \in 1 .. ChunkSize : chunk' \in [1 .. n -> Row]
  BY DEF ReadChunk
<1>2. n \in Nat /\ n <= ChunkSize /\ ChunkSize \in Nat
  BY <1>1, ChunkAssumption
<1>3. chunk' \in Seq(Row) /\ Len(chunk') = n
  BY <1>1, <1>2
<1>4. loaded' \in [DOMAIN chunk' -> SUBSET Lookups]
  BY DEF ReadChunk
<1>5. /\ step' \in {"prefetch", "restore"}
      /\ served' = 0
      /\ UNCHANGED caches
  BY DEF ReadChunk, IInv, Typed
<1>6. Typed'
  BY <1>2, <1>3, <1>4, <1>5 DEF Typed
<1> QED
  BY <1>5, <1>6, CachesAsTheyWere

LEMMA StopIInv ==
  ASSUME IInv, UNCHANGED <<chunk, loaded, caches, served>>, step' = "end"
  PROVE  IInv'
<1>1. Typed'
  BY DEF IInv, Typed
<1> QED
  BY <1>1, CachesAsTheyWere

LEMMA RestoreIInv == IInv /\ Restore => IInv'
<1> SUFFICES ASSUME IInv, Restore
             PROVE  IInv'
  OBVIOUS
<1>1. UNCHANGED <<chunk, served>> /\ step' \in {"serve", "prefetch"}
  BY DEF Restore
<1>2. Typed'
  <2>1. \A i \in DOMAIN chunk : RestoredFor(i) \in SUBSET Lookups
    BY DEF RestoredFor, Lookups, IInv, CachesRight
  <2>2. loaded' \in [DOMAIN chunk' -> SUBSET Lookups]
    BY <2>1 DEF Restore
  <2> QED
    BY <1>1, <2>2 DEF IInv, Typed
<1>3. CachesRight'
  BY RestoreCaches DEF IInv
<1>4. step' = "serve" => CachedFksLoaded' /\ Stored'
  BY RestoreSound, RestoreStored DEF IInv, CachesRight, CachedFksLoaded
<1>5. step' # "serve" => CachedFksLoaded' /\ Stored'
  BY DEF CachedFksLoaded, Stored
<1> QED
  BY <1>1, <1>2, <1>3, <1>4, <1>5 DEF IInv

LEMMA PrefetchIInv == IInv /\ Prefetch => IInv'
<1> SUFFICES ASSUME IInv, Prefetch
             PROVE  IInv'
  OBVIOUS
<1>1. /\ UNCHANGED <<chunk, caches, served>> /\ step' = "persist"
      /\ loaded' = [i \in DOMAIN chunk' |-> Lookups]
  BY DEF Prefetch
<1>2. Typed'
  BY <1>1 DEF IInv, Typed
<1> QED
  BY <1>1, <1>2 DEF IInv, CachesRight, CachedFksLoaded, Stored

LEMMA PersistIInv == IInv /\ Persist => IInv'
<1> SUFFICES ASSUME IInv, Persist
             PROVE  IInv'
  OBVIOUS
<1>1. /\ UNCHANGED <<chunk, loaded, served>> /\ step' = "serve"
      /\ loaded' = [i \in DOMAIN chunk' |-> Lookups]
  BY DEF Persist, IInv
<1>2. Typed'
  BY <1>1 DEF IInv, Typed
<1>3. CachesRight' /\ Stored'
  BY PersistCaches DEF IInv
<1>4. \A i \in DOMAIN chunk' : Lazy(i)' = {}
  BY <1>1 DEF Lazy, Lookups
<1> QED
  BY <1>1, <1>2, <1>3, <1>4 DEF IInv, CachedFksLoaded

LEMMA ServeIInv == IInv /\ Serve => IInv'
<1> SUFFICES ASSUME IInv, Serve
             PROVE  IInv'
  OBVIOUS
<1>1. /\ UNCHANGED <<chunk, loaded, caches, step>> /\ step = "serve"
      /\ served < Len(chunk) /\ served' = served + 1
  BY DEF Serve
<1>2. Typed'
  <2>1. Len(chunk) \in Nat /\ served \in 0 .. Len(chunk)
    BY DEF IInv, Typed
  <2>2. served' \in 0 .. Len(chunk)
    BY <1>1, <2>1
  <2> QED
    BY <1>1, <2>2 DEF IInv, Typed
<1>3. CachesRight'
  BY <1>1 DEF IInv, CachesRight
<1>4. CachedFksLoaded'
  BY <1>1 DEF IInv, CachedFksLoaded, Lazy
<1>5. Stored'
  BY <1>1 DEF IInv, Stored, KeysIn
<1> QED
  BY <1>1, <1>2, <1>3, <1>4, <1>5 DEF IInv

LEMMA EndChunkIInv == IInv /\ EndChunk => IInv'
<1> SUFFICES ASSUME IInv, EndChunk
             PROVE  IInv'
  OBVIOUS
<1>1. /\ chunk' = <<>> /\ loaded' = <<>> /\ served' = 0
      /\ step' \in {"end", "read"} /\ UNCHANGED caches
  BY DEF EndChunk
<1>2. Typed'
  <2>1. PICK c : c = <<>>
    OBVIOUS
  <2>2. /\ c \in Seq(Row) /\ Len(c) = 0 /\ DOMAIN c = {}
        /\ c \in [DOMAIN c -> SUBSET Lookups]
    BY <2>1
  <2> QED
    BY <1>1, <2>1, <2>2, ChunkAssumption DEF Typed
<1> QED
  BY <1>1, <1>2, CachesAsTheyWere

LEMMA StutterIInv == IInv /\ UNCHANGED vars => IInv'
<1> SUFFICES ASSUME IInv, UNCHANGED vars
             PROVE  IInv'
  OBVIOUS
<1>1. UNCHANGED <<chunk, loaded, caches, step, served>>
  BY DEF vars
<1>2. Typed'
  BY <1>1 DEF IInv, Typed
<1>3. CachesRight'
  BY <1>1 DEF IInv, CachesRight
<1>4. CachedFksLoaded'
  BY <1>1 DEF IInv, CachedFksLoaded, Lazy
<1>5. Stored'
  BY <1>1 DEF IInv, Stored, KeysIn
<1> QED
  BY <1>1, <1>2, <1>3, <1>4, <1>5 DEF IInv

\* Every step preserves IInv.
LEMMA NextIInv == IInv /\ [Next]_vars => IInv'
<1> SUFFICES ASSUME IInv, [Next]_vars
             PROVE  IInv'
  OBVIOUS
<1>1. CASE ReadChunk
  BY <1>1, ReadChunkIInv
<1>2. CASE EndRows
  BY <1>2, StopIInv DEF EndRows
<1>3. CASE Restore
  BY <1>3, RestoreIInv
<1>4. CASE Prefetch
  BY <1>4, PrefetchIInv
<1>5. CASE PrefetchFails
  BY <1>5, StopIInv DEF PrefetchFails
<1>6. CASE Persist
  BY <1>6, PersistIInv
<1>7. CASE Serve
  BY <1>7, ServeIInv
<1>8. CASE EndChunk
  BY <1>8, EndChunkIInv
<1>9. CASE UNCHANGED vars
  BY <1>9, StutterIInv
<1> QED
  BY <1>1, <1>2, <1>3, <1>4, <1>5, <1>6, <1>7, <1>8, <1>9 DEF Next

\* IInv holds in every state of every behaviour.
THEOREM Invariance == Spec => []IInv
<1> QED
  BY InitIInv, NextIInv, PTL DEF Spec

(***************************************************************************)
(* The properties.                                                          *)
(***************************************************************************)
LEMMA TypesOfIInv == IInv => TypeOK
<1> SUFFICES ASSUME IInv
             PROVE  TypeOK
  OBVIOUS
<1>1. served \in 0 .. ChunkSize
  <2>1. Len(chunk) \in Nat /\ Len(chunk) <= ChunkSize /\ served \in 0 .. Len(chunk)
    BY DEF IInv, Typed
  <2> QED
    BY <2>1, ChunkAssumption
<1>2. ASSUME NEW f \in DOMAIN caches
      PROVE  /\ caches[f] \in Seq(Objects[f])
             /\ Len(caches[f]) \in 1 .. Capacity
             /\ IsInjective(caches[f])
  <2>1. Dict(caches[f], Objects[f]) /\ Len(caches[f]) >= 1
    BY DEF IInv, CachesRight
  <2>2. caches[f] \in Seq(Objects[f]) /\ Len(caches[f]) \in Nat /\ Len(caches[f]) <= Capacity
    BY <2>1 DEF Dict
  <2>3. IsInjective(caches[f])
    BY <2>1 DEF Dict, IsInjective
  <2> QED
    BY <2>1, <2>2, <2>3, CapacityPositive
<1> QED
  BY <1>1, <1>2 DEF IInv, Typed, CachesRight, TypeOK

\* A full dict of fresh keys, when the fresh keys fit in it, has all of them.
LEMMA FullHasAll ==
  ASSUME NEW S, NEW cache, Dict(cache, S), NEW keys, IsFiniteSet(keys),
         Cardinality(keys) <= Capacity, Full(cache, keys)
  PROVE  keys \subseteq Range(cache)
<1>1. CASE \A key \in keys : Holds(cache, key)
  BY <1>1 DEF Holds, Range
<1>2. CASE Len(cache) = Capacity /\ \A i \in DOMAIN cache : cache[i] \in keys
  <2>1. cache \in Seq(S) /\ DOMAIN cache = 1 .. Capacity
    BY <1>2 DEF Dict
  <2>2. Range(cache) \subseteq keys
    BY <1>2 DEF Range
  <2>3. cache \in Bijection(1 .. Capacity, Range(cache))
    BY <2>1 DEF Dict, Range, Bijection, Injection, Surjection, IsInjective
  <2>4. IsFiniteSet(1 .. Capacity) /\ Cardinality(1 .. Capacity) = Capacity
    BY FS_Interval, CapacityPositive
  <2>5. Cardinality(Range(cache)) = Capacity
    <3>1. ExistsBijection(1 .. Capacity, Range(cache))
      BY <2>3 DEF ExistsBijection
    <3> QED
      BY <2>4, <3>1, FS_Bijection
  <2>6. Cardinality(Range(cache)) <= Cardinality(keys) /\ Cardinality(keys) \in Nat
    BY <2>2, FS_Subset, FS_CardinalityType
  <2>7. Cardinality(Range(cache)) = Cardinality(keys)
    BY <2>5, <2>6, CapacityPositive
  <2>8. Range(cache) = keys
    BY <2>2, <2>7, FS_Subset
  <2> QED
    BY <2>8
<1> QED
  BY <1>1, <1>2 DEF Full

LEMMA RepeatOfIInv == IInv => RepeatIsFree
<1> SUFFICES ASSUME IInv, step = "serve", NEW f \in DOMAIN caches,
                    Cardinality(KeysIn(f)) <= Capacity
             PROVE  KeysIn(f) \subseteq Range(caches[f])
  BY DEF RepeatIsFree, KeysIn
<1>1. IsFiniteSet(KeysIn(f))
  <2>1. chunk \in Seq(Row) /\ Len(chunk) \in Nat /\ DOMAIN chunk = 1 .. Len(chunk)
    BY DEF IInv, Typed
  <2>2. IsFiniteSet(DOMAIN chunk)
    BY <2>1, FS_Interval
  <2>3. IsFiniteSet({chunk[i][f] : i \in DOMAIN chunk})
    <3>1. PICK T : T = {chunk[i][f] : i \in DOMAIN chunk}
      OBVIOUS
    <3>2. PICK g : g = [i \in DOMAIN chunk |-> chunk[i][f]]
      OBVIOUS
    <3>3. g \in Surjection(DOMAIN chunk, T)
      BY <3>1, <3>2 DEF Surjection
    <3>4. IsFiniteSet(T)
      BY <2>2, <3>3, FS_Surjection
    <3> QED
      BY <3>1, <3>4
  <2> QED
    BY <2>3, FS_Subset DEF KeysIn
<1>2. Dict(caches[f], Objects[f]) /\ Full(caches[f], KeysIn(f))
  BY DEF IInv, CachesRight, Stored
<1> QED
  BY <1>1, <1>2, FullHasAll

\* The caches hold no key twice, no more than their size, and only objects that
\* exist (_persist_prefetch_cache and the LRU dict).
THEOREM TypeCorrect == Spec => []TypeOK
<1> QED
  BY TypesOfIInv, Invariance, PTL

\* Whatever the rows, the caches and what was evicted from them: a row is not
\* served without an object of a relation that has a cache.
THEOREM CachedFksLoadedHolds == Spec => []CachedFksLoaded
<1>1. IInv => CachedFksLoaded
  BY DEF IInv
<1> QED
  BY <1>1, Invariance, PTL

\* The objects of a chunk that is served are in the caches, when they fit: the
\* next chunk that refers to the same ones needs no query.
THEOREM RepeatIsFreeHolds == Spec => []RepeatIsFree
<1> QED
  BY RepeatOfIInv, Invariance, PTL

\* A chunk is only prefetched when one of its references is not in the caches.
THEOREM NoNeedlessPrefetchHolds == Spec => NoNeedlessPrefetch
<1>1. ASSUME IInv, Restore, step' = "prefetch"
      PROVE  \E i \in DOMAIN chunk, f \in DOMAIN caches :
               chunk[i][f] # NoKey /\ chunk[i][f] \notin Range(caches[f])
  <2>1. ~AllRestored
    BY <1>1 DEF Restore
  <2>2. PICK i \in DOMAIN chunk : \E f \in DOMAIN caches :
          chunk[i][f] # NoKey /\ f \notin RestoredFor(i)
    BY <2>1 DEF AllRestored
  <2>3. PICK f \in DOMAIN caches : chunk[i][f] # NoKey /\ f \notin RestoredFor(i)
    BY <2>2
  <2>4. ~Holds(caches[f], chunk[i][f])
    BY <1>1, <2>3, RestoredMeans DEF IInv
  <2>5. chunk[i][f] \notin Range(caches[f])
    BY <2>4 DEF Holds, Range
  <2> QED
    BY <2>3, <2>5
<1>2. IInv => [Restore /\ step' = "prefetch" =>
                 \E i \in DOMAIN chunk, f \in DOMAIN caches :
                   chunk[i][f] # NoKey /\ chunk[i][f] \notin Range(caches[f])]_vars
  BY <1>1
<1> QED
  BY <1>2, Invariance, PTL DEF NoNeedlessPrefetch
=============================================================================
