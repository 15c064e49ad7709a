---------------------------- MODULE MCUnwinding ----------------------------
(* Two names, so that an exit may skip a form of its own kind.               *)
EXTENDS Unwinding, TLC

Symmetries == Permutations(Names)

==============================================================================
