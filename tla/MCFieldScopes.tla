---------------------------- MODULE MCFieldScopes ----------------------------
(***************************************************************************)
(* An instance of FieldScopes for TLC, after the datasets of the tests: a   *)
(* table wijk with a nested table, a relation to a temporal table that has  *)
(* the reverse relation back, and a relation of wijk to itself.             *)
(***************************************************************************)
EXTENDS FieldScopes

CONSTANTS
  wijk, stad, land,                             \* tables
  naam, code, nr, id, regimes, dagen, tijd,     \* fields
  inStad, wijken, grenst, inLand,               \* relations
  foo, minNaam                                  \* unknown and signed names

None == [n \in {} |-> n]

MCSchema ==
  [t \in {wijk, stad, land} |->
     CASE t = wijk -> [plain |-> {naam, code},
                       nested |-> [n \in {regimes} |-> {dagen, tijd}],
                       forward |-> [n \in {inStad, grenst} |-> IF n = inStad THEN stad ELSE wijk],
                       reverse |-> None,
                       version |-> {}, identifier |-> {code}, display |-> naam]
       [] t = stad -> [plain |-> {naam, nr, id},
                       nested |-> None,
                       forward |-> [n \in {inLand} |-> land],
                       reverse |-> [n \in {wijken} |-> [table |-> wijk, of |-> inStad]],
                       version |-> {nr}, identifier |-> {id, nr}, display |-> id]
       [] t = land -> [plain |-> {naam, code},
                       nested |-> None,
                       forward |-> None,
                       reverse |-> None,
                       version |-> {}, identifier |-> {code}, display |-> naam]]

MCName ==
  {naam, code, nr, id, regimes, dagen, tijd, inStad, wijken, grenst, inLand, foo, minNaam}

Paths ==
  {<<naam>>, <<foo>>, <<regimes>>, <<regimes, dagen>>, <<inStad>>, <<inStad, nr>>, <<inStad, id>>,
   <<inStad, foo>>, <<inStad, wijken>>, <<inStad, inLand>>, <<inStad, inLand, naam>>, <<grenst, naam>>,
   <<inStad, minNaam>>, <<naam, foo>>}
Entries == [minus : BOOLEAN, path : Paths]

\* Up to three dotted names.
MCFieldParams == {{}} \cup {{e1, e2, e3} : e1, e2, e3 \in Entries}

MCExpandParams ==
  {[all |-> a, scope |-> s] :
     a \in BOOLEAN,
     s \in {{}, {<<inStad>>}, {<<inStad>>, <<grenst>>}, {<<inStad, inLand>>},
            {<<grenst, inStad>>}, {<<inStad, wijken>>}, {<<foo>>}}}
=============================================================================
