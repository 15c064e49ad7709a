---------------------------- MODULE MCDefpackage ----------------------------
(* The keyword package and an ordinary one, which may be defined to use or   *)
(* import from the other and from itself; one symbol name: the operations    *)
(* treat names independently, so that the symbols that compete for one name  *)
(* show every conflict.                                                      *)
EXTENDS Defpackage, TLC

CONSTANTS x, q

(* The program is careful with one package and not with the other.           *)
MCClientMay ==
  [r \in Packages |-> IF r = q THEN {"self", "again", "displace", "unshadow"} ELSE {}]

MCNameOf == [s \in Symbols |-> x]

Symmetries == Permutations(Symbols) \cup Permutations(PackageNames)

==============================================================================
