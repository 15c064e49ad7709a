-------------------------- MODULE MCSymbolHashTable --------------------------
(* Names a and b collide in every capacity up to 4, c is in the last bucket  *)
(* of a table of 2 or 4, so that probes wrap around; two symbols share a.    *)
EXTENDS SymbolHashTable, TLC

CONSTANTS a, b, c, d, a1, a2, b1, c1, d1

MCNames == {a, b, c, d}
MCSymbols == {a1, a2, b1, c1, d1}
MCNameOf == a1 :> a @@ a2 :> a @@ b1 :> b @@ c1 :> c @@ d1 :> d
MCHash == a :> 0 @@ b :> 4 @@ c :> 7 @@ d :> 3

==============================================================================
