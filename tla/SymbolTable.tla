----------------------------- MODULE SymbolTable -----------------------------
(***************************************************************************)
(* What a symbol table of a package promises: a map from symbol names to   *)
(* at most one symbol each.  kernel/SymbolHashTable.cpp is the concrete    *)
(* table; module SymbolHashTable is shown to implement this specification  *)
(* for a client that looks a name up before it puts a symbol.              *)
(***************************************************************************)

CONSTANTS
  Symbols,   (* symbol objects                               *)
  Names,     (* print names                                  *)
  NameOf,    (* the name of each symbol, fixed at creation   *)
  NULL       (* no symbol                                    *)

VARIABLE table

Init == table = [n \in Names |-> NULL]

Put(s) ==
  /\ table[NameOf[s]] = NULL
  /\ table' = [table EXCEPT ![NameOf[s]] = s]

Remove(n) == table' = [table EXCEPT ![n] = NULL]

Next ==
  \/ \E s \in Symbols : Put(s)
  \/ \E n \in Names : Remove(n)

Spec == Init /\ [][Next]_table

==============================================================================
