---------------------------- MODULE MCHashTables ----------------------------
(* k1 and k3 are numbers of the same value, which eql, equal and equalp take *)
(* for the same.  k2 and k4 are lists of characters that differ in case:     *)
(* equalp takes them for the same, and equalp_hash() does not.  The hashes   *)
(* of c1 and c2 collide in four buckets and are separated in eight.          *)
EXTENDS HashTables, TLC

CONSTANTS c1, c2, c3, k1, k2, k3, k4, v1, v2

MCObjects == (k1 :> c1) @@ (k2 :> c2) @@ (k3 :> c1) @@ (k4 :> c3)

MCVariants == [k \in Keys |-> IF k = k2 THEN {c2, c3} ELSE {}]

MCClass ==
  [t \in AllTests |-> [k \in Keys |-> [c \in Contents |->
     CASE t = "eq"     -> k
       [] t = "eql"    -> IF k \in {k1, k3} THEN c ELSE k
       [] t = "equal"  -> c
       [] t = "equalp" -> IF c = c3 THEN c2 ELSE c]]]

MCHash == [k \in Keys |-> (c1 :> 1) @@ (c2 :> 5) @@ (c3 :> 0)]

Symmetries == Permutations({k1, k3}) \cup Permutations({v1, v2})

==============================================================================
