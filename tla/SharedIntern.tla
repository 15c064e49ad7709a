---------------------------- MODULE SharedIntern ----------------------------
(***************************************************************************)
(* Packages that several threads use.  Package::intern() looks a name up,  *)
(* makes a symbol and puts it into a table, and no lock is held (the       *)
(* symbols that the reader meets are interned by whatever thread reads).   *)
(* Every other operation is taken to be a single step, as in Packages.     *)
(***************************************************************************)
EXTENDS Packages

CONSTANT Threads

VARIABLE looked    (* the package and name for which a thread found no symbol *)

shared_vars == <<vars, looked>>

SharedInit == Init /\ looked = [t \in Threads |-> NULL]

(* The lookups of intern() find nothing.                                     *)
intern_look(t, p, n) ==
  /\ looked[t] = NULL
  /\ Designated(p)
  /\ find_accessible_symbol(p, n) = NULL
  /\ looked' = [looked EXCEPT ![t] = [package |-> p, name |-> n]]
  /\ UNCHANGED vars

(* The new symbol is put into the table, whatever this holds by now.         *)
intern_put(t, s) ==
  LET p == looked[t].package
      n == looked[t].name
  IN /\ looked[t] # NULL
     /\ NewSymbol(s, n)
     /\ home' = [home EXCEPT ![s] = p]
     /\ IF p = Keyword
          THEN TablePut(external, external2, p, s) /\ UNCHANGED <<internal, internal2>>
          ELSE TablePut(internal, internal2, p, s) /\ UNCHANGED <<external, external2>>
     /\ looked' = [looked EXCEPT ![t] = NULL]
     /\ UNCHANGED <<registry, uses, shadowing, history>>

SharedNext ==
  \/ \E t \in Threads :
       \/ \E p \in made, n \in Names : intern_look(t, p, n)
       \/ \E s \in Symbols : intern_put(t, s)
  \/ Next /\ UNCHANGED looked

SharedSpec == SharedInit /\ [][SharedNext]_shared_vars

==============================================================================
