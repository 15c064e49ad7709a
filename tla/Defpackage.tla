----------------------------- MODULE Defpackage -----------------------------
(***************************************************************************)
(* defpackage: the macro of lisp/defpackage.lisp and %defpackage of        *)
(* kernel/Package.cpp, on top of the operations of module Packages.        *)
(*                                                                         *)
(* The new package is registered first and is then shadowed into, made to  *)
(* use others, imported into, interned into and exported from, in this     *)
(* order.  An error on the way leaves it as it is at that moment; the      *)
(* error handlers of the program, and whoever finds the package by its     *)
(* name later, see it half built.  A name that finds a package already     *)
(* makes %defpackage return that one unchanged, and a nickname that does   *)
(* is an error before anything has happened: neither is a step.            *)
(***************************************************************************)
EXTENDS Packages

CONSTANT MaxOptions   (* bound: names given to a defpackage form             *)

ASSUME DefpackageAssumption == MaxOptions \in Nat

VARIABLE call         (* the %defpackage that runs: the package, the options *)
                      (* and those that are still to do; or NULL             *)

def_vars == <<vars, call>>

DefInit == Init /\ call = NULL

(* The order in which %defpackage takes the options.                         *)
Phases == <<"shadows", "shadowing_imports", "use", "imports", "interns", "exports">>

(* Entries of the form <<package name, symbol name>> for the imports.        *)
Options ==
  [shadows : SUBSET Names, shadowing_imports : SUBSET (PackageNames \X Names),
   use : SUBSET PackageNames, imports : SUBSET (PackageNames \X Names),
   interns : SUBSET Names, exports : SUBSET Names]

Imported(entries) == {e[2] : e \in entries}

Count(o) == FoldSet(LAMBDA ph, n : n + Cardinality(o[ph]), 0, DOMAIN o)

(* What the macro refuses before it calls %defpackage.                       *)
check_disjoint(o) ==
  LET shadowed == Imported(o.shadowing_imports)
      imported == Imported(o.imports)
  IN /\ o.interns \cap (o.exports \cup imported \cup o.shadows \cup shadowed) = {}
     /\ imported \cap (o.shadows \cup shadowed) = {}
     /\ o.shadows \cap shadowed = {}

GoodOptions == {o \in Options : Count(o) <= MaxOptions /\ check_disjoint(o)}

------------------------------------------------------------------------------

P == call.package

(* The first option that has something left to do is at x.                   *)
At(ph, x) ==
  LET i == CHOOSE i \in DOMAIN Phases : Phases[i] = ph IN
  /\ x \in call.todo[ph]
  /\ \A k \in 1 .. i - 1 : call.todo[Phases[k]] = {}

Does(ph, x) == At(ph, x) /\ call' = [call EXCEPT !.todo[ph] = @ \ {x}]

(* What coerce_to_package() and find_accessible_symbol() find for an entry.  *)
SymbolIn(k, n) ==
  IF package_map[k] = NULL THEN NULL ELSE find_accessible_symbol(package_map[k], n)

(* A package with no symbols that uses no package.                           *)
defpackage_begin(p, n, nicks, o) ==
  /\ call = NULL
  /\ p # Keyword
  /\ make_package(p, n, nicks, << >>)
  /\ call' = [package |-> p, options |-> o, todo |-> o]

defpackage_shadow(n) ==
  /\ Does("shadows", n)
  /\ \/ shadow_present(P, n)
     \/ \E s \in Symbols : NameOf[s] = n /\ shadow_new(P, s)

defpackage_shadowing_import(k, n) ==
  /\ SymbolIn(k, n) # NULL
  /\ Does("shadowing_imports", <<k, n>>)
  /\ ShadowingImport(P, SymbolIn(k, n))

defpackage_use(k) ==
  /\ package_map[k] # NULL
  /\ Does("use", k)
  /\ IF Contains(use_list[P], package_map[k]) THEN UNCHANGED vars
                                              ELSE use_package(P, package_map[k])

(* Mutant: a symbol that does not exist is passed over.                      *)
defpackage_import_lenient(k, n) ==
  /\ Does("imports", <<k, n>>)
  /\ IF SymbolIn(k, n) = NULL THEN UNCHANGED vars
     ELSE IF home[SymbolIn(k, n)] = P THEN UNCHANGED vars
     ELSE import_symbol(P, SymbolIn(k, n))

defpackage_import(k, n) ==
  /\ SymbolIn(k, n) # NULL
  /\ Does("imports", <<k, n>>)
  /\ IF home[SymbolIn(k, n)] = P THEN UNCHANGED vars
                                 ELSE import_symbol(P, SymbolIn(k, n))

defpackage_intern(n) ==
  /\ Does("interns", n)
  /\ IF find_accessible_symbol(P, n) # NULL THEN UNCHANGED vars
     ELSE \E s \in Symbols : NameOf[s] = n /\ intern(P, s)

(* Mutant: the symbol is found but not taken out of the internal symbols.    *)
defpackage_export_accessible_twice(n) ==
  LET s == find_accessible_symbol(P, n) IN
  /\ s # NULL
  /\ Does("exports", n)
  /\ TablePut(external, external2, P, s)
  /\ UNCHANGED <<registry, uses, internal, internal2, shadowing, home, history>>

(* An accessible symbol is exported, also if it is inherited ...             *)
defpackage_export_accessible(n) ==
  LET s == find_accessible_symbol(P, n) IN
  /\ s # NULL
  /\ Does("exports", n)
  /\ IF home[s] = P /\ external[P][n] = s THEN UNCHANGED vars ELSE export_symbol(P, s)

(* ... otherwise a new one is interned and exported.                         *)
defpackage_export_new(s) ==
  LET n == NameOf[s] IN
  /\ Does("exports", n)
  /\ find_accessible_symbol(P, n) = NULL
  /\ NewSymbol(s, n)
  /\ home' = [home EXCEPT ![s] = P]
  /\ TablePut(external, external2, P, s)
  /\ UNCHANGED <<registry, uses, internal, internal2, shadowing, history>>

(* No such symbol, or another symbol of the name is accessible already.      *)
ImportFails(k, n) ==
  IF SymbolIn(k, n) = NULL THEN TRUE
  ELSE /\ home[SymbolIn(k, n)] # P
       /\ find_accessible_symbol(P, n) \notin {NULL, SymbolIn(k, n)}

(* An error, also for a package that does not exist: the call is over.       *)
defpackage_error ==
  /\ \E k \in PackageNames, n \in Names :
       \/ At("use", k) /\ package_map[k] = NULL
       \/ At("shadowing_imports", <<k, n>>) /\ SymbolIn(k, n) = NULL
       \/ At("imports", <<k, n>>) /\ ImportFails(k, n)
  /\ call' = NULL
  /\ UNCHANGED vars

Done == call # NULL /\ \A ph \in DOMAIN call.todo : call.todo[ph] = {}

defpackage_return == Done /\ call' = NULL /\ UNCHANGED vars

DefpackageStep ==
  /\ call # NULL
  /\ \/ \E n \in Names :
          defpackage_shadow(n) \/ defpackage_intern(n) \/ defpackage_export_accessible(n)
     \/ \E s \in Symbols : defpackage_export_new(s)
     \/ \E k \in PackageNames :
          \/ defpackage_use(k)
          \/ \E n \in Names : defpackage_shadowing_import(k, n) \/ defpackage_import(k, n)
     \/ defpackage_error
     \/ defpackage_return

DefNext ==
  \/ DefpackageStep
  \/ \E p \in Packages, n \in PackageNames, nicks \in NicknameSets, o \in GoodOptions :
       defpackage_begin(p, n, nicks, o)
  \/ call = NULL /\ Next /\ UNCHANGED call

DefSpec == DefInit /\ [][DefNext]_def_vars

------------------------------------------------------------------------------
(* Properties.                                                               *)

(* A %defpackage that returns has made the package that was asked for: no    *)
(* later option has undone an earlier one.  A name that is given with two    *)
(* packages to shadowing-import-from is the symbol of one of them.           *)
DefinedAsAsked ==
  Done =>
    LET o == call.options IN
    /\ \A n \in o.shadows :
         Present(P, n) # NULL /\ shadowing[P][n] = Present(P, n) /\ home[Present(P, n)] = P
    /\ \A n \in Imported(o.shadowing_imports) :
         /\ shadowing[P][n] = Present(P, n)
         /\ \E e \in o.shadowing_imports : e[2] = n /\ Present(P, n) = SymbolIn(e[1], n)
    /\ \A k \in o.use : Contains(use_list[P], package_map[k])
    /\ \A e \in o.imports :
         Present(P, e[2]) # NULL /\ Present(P, e[2]) = SymbolIn(e[1], e[2])
    /\ \A n \in o.interns : find_accessible_symbol(P, n) # NULL
    /\ \A n \in o.exports : external[P][n] # NULL

==============================================================================
