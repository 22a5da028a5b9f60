------------------------- MODULE MCChunkedPrefetch -------------------------
(***************************************************************************)
(* An instance of ChunkedPrefetch for TLC: a foreign key with three keys,   *)
(* one of them dangling, a foreign key to a single object, both nullable,   *)
(* and one relation to many objects.                                        *)
(***************************************************************************)
EXTENDS ChunkedPrefetch

CONSTANTS owner, area, tags, k1, k2, gone

MCValues == [f \in {owner, area} |->
               IF f = owner THEN {NoKey, k1, k2, gone} ELSE {NoKey, k1}]
MCObjects == [f \in {owner, area} |-> IF f = owner THEN {k1, k2} ELSE {k1}]
=============================================================================
