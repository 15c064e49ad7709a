--------------------------- MODULE MCSharedIntern ---------------------------
(* Two threads and one name.                                                 *)
EXTENDS SharedIntern, TLC

CONSTANTS x

MCClientMay == [p \in Packages |-> {}]

MCNameOf == [s \in Symbols |-> x]

==============================================================================
