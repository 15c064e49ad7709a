------------------------- MODULE MCSpecialBindings -------------------------
(* Two threads and two symbols, so that both threads may want an index for   *)
(* the same symbol or for different ones; a stack that is full after one     *)
(* binding and grows once.                                                   *)
EXTENDS SpecialBindings, TLC

Symmetries ==
  Permutations(Symbols) \cup Permutations(Threads) \cup Permutations(Values)

==============================================================================
