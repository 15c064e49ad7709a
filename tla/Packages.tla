------------------------------ MODULE Packages ------------------------------
(***************************************************************************)
(* The package system of kernel/Package.cpp: the registry of package names *)
(* and nicknames, the use lists, and the internal, external and shadowing  *)
(* symbols of each package.                                                *)
(*                                                                         *)
(* A symbol table is the map that module SymbolTable specifies as long as  *)
(* no symbol is put for a name that the table has.  A put for a name that  *)
(* it has replaces the symbol or, when it meets a deleted bucket first,    *)
(* takes that bucket and leaves the other one behind it: a name may then   *)
(* have a second bucket, which is found once the first one is removed.     *)
(* Package and symbol objects come from finite pools; a deleted package is *)
(* still an object that other packages and the program may refer to.  The  *)
(* kernel is built with NDEBUG: a failing assert does not stop an          *)
(* operation.                                                              *)
(***************************************************************************)

EXTENDS Integers, Sequences, FiniteSets, SequencesExt

CONSTANTS
  Packages,      (* pool of package objects                                  *)
  PackageNames,  (* package names and nicknames                              *)
  Symbols,       (* pool of symbol objects                                   *)
  Names,         (* symbol names                                             *)
  NameOf,        (* [Symbols -> Names]                                       *)
  Keyword,       (* PACKAGE_KEYWORD, or NULL when it plays no part           *)
  MaxNicknames,  (* bound: nicknames given to a package at a time            *)
  MaxUse,        (* bound: length of a use list                              *)
  ClientMay,     (* what the program does to a package that it might as well *)
                 (* not do, see ClientBehaviours                              *)
  NULL,          (* no symbol, no package, no name                           *)
  NIL            (* package() of an uninterned symbol                        *)

(* "again":    import a symbol that is present already, or export one that   *)
(*             is external already and has its home elsewhere;               *)
(* "displace": shadowing-import a symbol over one whose home is the package; *)
(* "unshadow": unintern a name that is on the list of shadowing symbols;     *)
(* "deleted":  pass a deleted package to an operation;                       *)
(* "self":     let a package use itself.                                     *)
ClientBehaviours == {"again", "displace", "unshadow", "deleted", "self"}

ASSUME PackagesAssumption ==
  /\ NameOf \in [Symbols -> Names]
  /\ NULL \notin Symbols \cup Packages \cup PackageNames
  /\ NIL \notin Packages \cup {NULL}
  /\ Keyword \in Packages \cup {NULL}
  /\ ClientMay \in [Packages -> SUBSET ClientBehaviours]
  /\ MaxNicknames \in Nat
  /\ MaxUse \in Nat

VARIABLES
  made,          (* the package objects that exist                           *)
  name,          (* _name; NULL for a deleted package                        *)
  nicknames,     (* _nicknames, as a set                                     *)
  package_map,   (* package_map: name or nickname -> package                 *)
  all_packages,  (* all_packages, as a set                                   *)
  use_list,      (* _use_list, newest first                                  *)
  used_by,       (* _used_by_list, as a set                                  *)
  internal,      (* _internal_symbols: what get() finds                      *)
  internal2,     (* ... and the symbol in a second bucket for the name;      *)
                 (* bound: two buckets for a name                            *)
  external,      (* _external_symbols                                        *)
  external2,     (* ... and the symbol in a second bucket                    *)
  shadowing,     (* _shadowing_symbols; empty table and NULL are the same    *)
  home,          (* Symbol::package(); NULL: the object does not exist yet   *)
  doubled,       (* history: the names of which a package was made to put a  *)
                 (* symbol that it had already                               *)
  displaced,     (* history: the names of which shadowing_import() displaced *)
                 (* a symbol from its home, or one that was doubled          *)
  unshadowed     (* history: the names uninterned while they were on the     *)
                 (* list of shadowing symbols                                *)

registry == <<made, name, nicknames, package_map, all_packages>>
tables == <<internal, internal2, external, external2, shadowing>>
uses == <<use_list, used_by>>
history == <<doubled, displaced, unshadowed>>
vars == <<registry, uses, tables, home, history>>

Tables == [Names -> Symbols \cup {NULL}]

Init ==
  /\ made = {}
  /\ name = [p \in Packages |-> NULL]
  /\ nicknames = [p \in Packages |-> {}]
  /\ package_map = [n \in PackageNames |-> NULL]
  /\ all_packages = {}
  /\ use_list = [p \in Packages |-> << >>]
  /\ used_by = [p \in Packages |-> {}]
  /\ internal = [p \in Packages |-> [n \in Names |-> NULL]]
  /\ internal2 = internal
  /\ external = [p \in Packages |-> [n \in Names |-> NULL]]
  /\ external2 = external
  /\ shadowing = [p \in Packages |-> [n \in Names |-> NULL]]
  /\ home = [s \in Symbols |-> NULL]
  /\ doubled = [p \in Packages |-> {}]
  /\ displaced = doubled
  /\ unshadowed = doubled

------------------------------------------------------------------------------
(* Symbol tables: t holds the first bucket of each name, t2 the second.      *)

(* A put replaces the symbol in the first bucket, or adds a bucket in front  *)
(* of it; or the table grows, which turns the order of two buckets round,    *)
(* and what was the second is replaced.                                      *)
TablePut(t, t2, p, s) ==
  LET n == NameOf[s] IN
  /\ t' = [t EXCEPT ![p][n] = s]
  /\ \E b \in {t[p][n], t2[p][n]} : t2' = [t2 EXCEPT ![p][n] = b]

(* A remove deletes the first bucket.                                        *)
TableRemove(t, t2, p, n) ==
  /\ t' = [t EXCEPT ![p][n] = t2[p][n]]
  /\ t2' = [t2 EXCEPT ![p][n] = NULL]

(* A history variable: the name is noted for the package if c holds.         *)
Note(h, p, n, c) == h' = [h EXCEPT ![p] = IF c THEN @ \cup {n} ELSE @]

------------------------------------------------------------------------------
(* Lookups.                                                                  *)

(* A package an operation may be called with.                                *)
Designated(p) == p \in made /\ (name[p] # NULL \/ "deleted" \in ClientMay[p])

Exists(s) == home[s] # NULL

NewSymbol(s, n) == home[s] = NULL /\ NameOf[s] = n

(* The symbol a package holds itself: external before internal.              *)
Present(p, n) == IF external[p][n] # NULL THEN external[p][n] ELSE internal[p][n]

(* The positions of the use list whose package exports the name.             *)
Exporters(p, n) == {i \in DOMAIN use_list[p] : external[use_list[p][i]][n] # NULL}

find_accessible_symbol(p, n) ==
  IF Present(p, n) # NULL THEN Present(p, n)
  ELSE IF Exporters(p, n) = {} THEN NULL
  ELSE LET i == CHOOSE i \in Exporters(p, n) : \A k \in Exporters(p, n) : i <= k
       IN external[use_list[p][i]][n]

(* What do-symbols and with-package-iterator call inherited: "continue" for  *)
(* a shadowed name and for a symbol that the package exports itself.         *)
inherited_symbols(p) ==
  {s \in Symbols :
     /\ \E i \in DOMAIN use_list[p] : external[use_list[p][i]][NameOf[s]] = s
     /\ shadowing[p][NameOf[s]] = NULL
     /\ external[p][NameOf[s]] # s}

------------------------------------------------------------------------------
(* The registry of packages.                                                 *)

(* %make-package: no name or nickname may be in use; every package to use    *)
(* must exist; a package occurs once in the use list (memq).                 *)
make_package(p, n, nicks, use) ==
  /\ p \notin made
  /\ \A k \in {n} \cup nicks : package_map[k] = NULL
  /\ \A i \in DOMAIN use : Designated(use[i])
  /\ made' = made \cup {p}
  /\ name' = [name EXCEPT ![p] = n]
  /\ nicknames' = [nicknames EXCEPT ![p] = nicks]
  /\ package_map' = [k \in PackageNames |->
                       IF k \in {n} \cup nicks THEN p ELSE package_map[k]]
  /\ all_packages' = all_packages \cup {p}
  /\ use_list' = [use_list EXCEPT ![p] = Reverse(use)]
  /\ used_by' = [q \in Packages |->
                   IF \E i \in DOMAIN use : use[i] = q THEN used_by[q] \cup {p}
                                                       ELSE used_by[q]]
  /\ UNCHANGED <<tables, home, history>>

(* Mutant: the old nicknames stay in the map.                                *)
rename_package_keeps(p, n, nicks) ==
  /\ Designated(p)
  /\ \A k \in {n} \cup nicks : package_map[k] \in {NULL, p}
  /\ name' = [name EXCEPT ![p] = n]
  /\ nicknames' = [nicknames EXCEPT ![p] = nicks]
  /\ package_map' = [k \in PackageNames |->
                       IF k \in {n} \cup nicks THEN p
                       ELSE IF k = name[p] THEN NULL ELSE package_map[k]]
  /\ UNCHANGED <<made, all_packages, uses, tables, home, history>>

(* No new name may belong to another package; the old ones are dropped       *)
(* first.  The list of all packages is not touched.                          *)
rename_package(p, n, nicks) ==
  /\ Designated(p)
  /\ \A k \in {n} \cup nicks : package_map[k] \in {NULL, p}
  /\ name' = [name EXCEPT ![p] = n]
  /\ nicknames' = [nicknames EXCEPT ![p] = nicks]
  /\ package_map' = [k \in PackageNames |->
                       IF k \in {n} \cup nicks THEN p
                       ELSE IF k \in {name[p]} \cup nicknames[p] THEN NULL
                       ELSE package_map[k]]
  /\ UNCHANGED <<made, all_packages, uses, tables, home, history>>

(* The symbols of a name that are in the tables of a package, found or not.  *)
Buckets(p, n) ==
  {internal[p][n], internal2[p][n], external[p][n], external2[p][n]} \ {NULL}

(* The names, and the symbols with their home, from every bucket; the use    *)
(* lists, in which other packages may occur and which other packages may     *)
(* occur in, stay.                                                           *)
delete_package(p) ==
  /\ Designated(p)
  /\ name[p] # NULL
  /\ name' = [name EXCEPT ![p] = NULL]
  /\ nicknames' = [nicknames EXCEPT ![p] = {}]
  /\ package_map' = [k \in PackageNames |->
                       IF k \in {name[p]} \cup nicknames[p] THEN NULL
                       ELSE package_map[k]]
  /\ all_packages' = all_packages \ {p}
  /\ home' = [s \in Symbols |->
                IF home[s] = p /\ s \in Buckets(p, NameOf[s]) THEN NIL ELSE home[s]]
  /\ internal' = [internal EXCEPT ![p] = [n \in Names |-> NULL]]
  /\ internal2' = [internal2 EXCEPT ![p] = [n \in Names |-> NULL]]
  /\ external' = [external EXCEPT ![p] = [n \in Names |-> NULL]]
  /\ external2' = [external2 EXCEPT ![p] = [n \in Names |-> NULL]]
  /\ UNCHANGED <<made, uses, shadowing, history>>

------------------------------------------------------------------------------
(* Use lists.                                                                *)

(* No check for name conflicts.                                              *)
use_package(p, q) ==
  /\ Designated(p) /\ Designated(q)
  /\ ~Contains(use_list[p], q)
  /\ p = q => "self" \in ClientMay[p]
  /\ Len(use_list[p]) < MaxUse
  /\ use_list' = [use_list EXCEPT ![p] = <<q>> \o @]
  /\ used_by' = [used_by EXCEPT ![q] = @ \cup {p}]
  /\ UNCHANGED <<registry, tables, home, history>>

(* Mutant: the used-by list is forgotten.                                    *)
unuse_package_one_side(p, q) ==
  /\ Designated(p) /\ Designated(q)
  /\ Contains(use_list[p], q)
  /\ use_list' = [use_list EXCEPT ![p] = RemoveFirst(@, q)]
  /\ UNCHANGED <<used_by, registry, tables, home, history>>

(* SYS_list_delete_eq() takes every occurrence out of a list: use_package()  *)
(* lets it be one.                                                           *)
unuse_package(p, q) ==
  /\ Designated(p) /\ Designated(q)
  /\ Contains(use_list[p], q)
  /\ use_list' = [use_list EXCEPT ![p] = RemoveFirst(@, q)]
  /\ used_by' = [used_by EXCEPT ![q] = @ \ {p}]
  /\ UNCHANGED <<registry, tables, home, history>>

------------------------------------------------------------------------------
(* Symbols of a package.                                                     *)

(* intern() of a name that is accessible changes nothing; otherwise it makes *)
(* a symbol, external in the keyword package and internal elsewhere.         *)
intern(p, s) ==
  LET n == NameOf[s] IN
  /\ Designated(p)
  /\ find_accessible_symbol(p, n) = NULL
  /\ NewSymbol(s, n)
  /\ home' = [home EXCEPT ![s] = p]
  /\ IF p = Keyword
       THEN TablePut(external, external2, p, s) /\ UNCHANGED <<internal, internal2>>
       ELSE TablePut(internal, internal2, p, s) /\ UNCHANGED <<external, external2>>
  /\ UNCHANGED <<registry, uses, shadowing, history>>

(* make-symbol: a symbol without a package.                                  *)
make_symbol(s) ==
  /\ home[s] = NULL
  /\ home' = [home EXCEPT ![s] = NIL]
  /\ UNCHANGED <<registry, uses, tables, history>>

(* Mutant: another accessible symbol of the name is not an error.            *)
import_symbol_unchecked(p, s) ==
  LET n == NameOf[s] IN
  /\ Designated(p) /\ Exists(s)
  /\ home[s] # p
  /\ Present(p, n) = s => "again" \in ClientMay[p]
  /\ TablePut(internal, internal2, p, s)
  /\ home' = IF home[s] = NIL THEN [home EXCEPT ![s] = p] ELSE home
  /\ Note(doubled, p, n, Present(p, n) = s)
  /\ UNCHANGED <<registry, uses, external, external2, shadowing, displaced, unshadowed>>

(* "Nothing to do" for a symbol whose home is the package; an error if       *)
(* another symbol of the name is accessible; a symbol that is present is put *)
(* into the internal symbols all the same.                                   *)
import_symbol(p, s) ==
  LET n == NameOf[s] IN
  /\ Designated(p) /\ Exists(s)
  /\ home[s] # p
  /\ find_accessible_symbol(p, n) \in {NULL, s}
  /\ Present(p, n) # NULL => "again" \in ClientMay[p]
  /\ TablePut(internal, internal2, p, s)
  /\ home' = IF home[s] = NIL THEN [home EXCEPT ![s] = p] ELSE home
  /\ Note(doubled, p, n, Present(p, n) # NULL)
  /\ UNCHANGED <<registry, uses, external, external2, shadowing, displaced, unshadowed>>

(* No package that uses this one may export another symbol of the name.  A   *)
(* symbol at home that is not external is taken to be internal ("can't       *)
(* happen"); any other symbol must be accessible, and is put into the        *)
(* external symbols also if it is external.                                  *)
export_symbol(p, s) ==
  LET n == NameOf[s] IN
  /\ Designated(p) /\ Exists(s)
  /\ \A q \in used_by[p] : external[q][n] \in {NULL, s}
  /\ IF home[s] = p THEN external[p][n] # s
                    ELSE find_accessible_symbol(p, n) = s
  /\ external[p][n] = s => "again" \in ClientMay[p]
  /\ TableRemove(internal, internal2, p, n)
  /\ TablePut(external, external2, p, s)
  /\ Note(doubled, p, n, external[p][n] # NULL)
  /\ UNCHANGED <<registry, uses, shadowing, home, displaced, unshadowed>>

(* Only a symbol whose home is the package is ever made internal again.      *)
unexport_symbol(p, s) ==
  LET n == NameOf[s] IN
  /\ Designated(p) /\ Exists(s)
  /\ home[s] = p
  /\ external[p][n] = s
  /\ TableRemove(external, external2, p, n)
  /\ TablePut(internal, internal2, p, s)
  /\ UNCHANGED <<registry, uses, shadowing, home, history>>

(* The check of UNINTERN.8: removing a shadowing symbol must not expose two  *)
(* symbols of the name.                                                      *)
ExposesConflict(p, s) ==
  /\ shadowing[p][NameOf[s]] = s
  /\ \E i, k \in Exporters(p, NameOf[s]) :
       external[use_list[p][i]][NameOf[s]] # external[use_list[p][k]][NameOf[s]]

(* Mutant: the symbol keeps its home.                                        *)
unintern_symbol_at_home(p, s) ==
  LET n == NameOf[s] IN
  /\ Designated(p) /\ Exists(s)
  /\ ~ExposesConflict(p, s)
  /\ s \in {internal[p][n], external[p][n]}
  /\ shadowing[p][n] # NULL => "unshadow" \in ClientMay[p]
  /\ IF internal[p][n] = s
       THEN TableRemove(internal, internal2, p, n) /\ UNCHANGED <<external, external2>>
       ELSE TableRemove(external, external2, p, n) /\ UNCHANGED <<internal, internal2>>
  /\ Note(unshadowed, p, n, shadowing[p][n] # NULL)
  /\ UNCHANGED <<registry, uses, shadowing, home, doubled, displaced>>

(* Removed from one of the two tables; the shadowing symbols are not touched.*)
unintern_symbol(p, s) ==
  LET n == NameOf[s] IN
  /\ Designated(p) /\ Exists(s)
  /\ ~ExposesConflict(p, s)
  /\ s \in {internal[p][n], external[p][n]}
  /\ shadowing[p][n] # NULL => "unshadow" \in ClientMay[p]
  /\ IF internal[p][n] = s
       THEN TableRemove(internal, internal2, p, n) /\ UNCHANGED <<external, external2>>
       ELSE TableRemove(external, external2, p, n) /\ UNCHANGED <<internal, internal2>>
  /\ home' = IF home[s] = p THEN [home EXCEPT ![s] = NIL] ELSE home
  /\ Note(unshadowed, p, n, shadowing[p][n] # NULL)
  /\ UNCHANGED <<registry, uses, shadowing, doubled, displaced>>

(* shadow() of a name that is present makes that symbol shadowing ...        *)
shadow_present(p, n) ==
  /\ Designated(p)
  /\ Present(p, n) # NULL
  /\ shadowing' = [shadowing EXCEPT ![p][n] = Present(p, n)]
  /\ UNCHANGED <<registry, uses, internal, internal2, external, external2, home, history>>

(* Mutant: the new shadowing symbol is not made internal.                    *)
shadow_new_absent(p, s) ==
  LET n == NameOf[s] IN
  /\ Designated(p)
  /\ Present(p, n) = NULL /\ shadowing[p][n] = NULL
  /\ NewSymbol(s, n)
  /\ home' = [home EXCEPT ![s] = NIL]
  /\ shadowing' = [shadowing EXCEPT ![p][n] = s]
  /\ UNCHANGED <<registry, uses, internal, internal2, external, external2, history>>

(* ... and otherwise makes a symbol, unless the name is shadowing already.   *)
shadow_new(p, s) ==
  LET n == NameOf[s] IN
  /\ Designated(p)
  /\ Present(p, n) = NULL /\ shadowing[p][n] = NULL
  /\ NewSymbol(s, n)
  /\ home' = [home EXCEPT ![s] = p]
  /\ TablePut(internal, internal2, p, s)
  /\ shadowing' = [shadowing EXCEPT ![p][n] = s]
  /\ UNCHANGED <<registry, uses, external, external2, history>>

(* The symbol that shadowing_import() removes from a table.                  *)
Displaced(p, n) == IF internal[p][n] # NULL THEN internal[p][n] ELSE external[p][n]

(* It displaces a symbol from its home, or one that may have more buckets.   *)
Displaces(p, s) ==
  LET d == Displaced(p, NameOf[s]) IN
  d \notin {NULL, s} /\ (home[d] = p \/ NameOf[s] \in doubled[p])

(* The first bucket of the name is removed from one table and the symbol is  *)
(* put into the internal one.  The displaced symbol keeps its home; a symbol *)
(* without a home gets none.                                                 *)
ShadowingImport(p, s) ==
  LET n == NameOf[s] IN
  /\ Designated(p) /\ Exists(s)
  /\ internal' = [internal EXCEPT ![p][n] = s]
  /\ \E b \in {NULL, internal2[p][n]} : internal2' = [internal2 EXCEPT ![p][n] = b]
  /\ IF internal[p][n] # NULL THEN UNCHANGED <<external, external2>>
                              ELSE TableRemove(external, external2, p, n)
  /\ shadowing' = [shadowing EXCEPT ![p][n] = s]
  /\ Note(displaced, p, n, Displaces(p, s))
  /\ UNCHANGED <<registry, uses, home, doubled, unshadowed>>

shadowing_import(p, s) ==
  /\ Displaces(p, s) => "displace" \in ClientMay[p]
  /\ ShadowingImport(p, s)

(* A symbol whose name is not in Names is put and the table grows: the       *)
(* buckets of a name change places.                                          *)
grow(p, n) ==
  /\ Designated(p)
  /\ \/ /\ internal2[p][n] \notin {NULL, internal[p][n]}
        /\ internal' = [internal EXCEPT ![p][n] = internal2[p][n]]
        /\ internal2' = [internal2 EXCEPT ![p][n] = internal[p][n]]
        /\ UNCHANGED <<external, external2>>
     \/ /\ external2[p][n] \notin {NULL, external[p][n]}
        /\ external' = [external EXCEPT ![p][n] = external2[p][n]]
        /\ external2' = [external2 EXCEPT ![p][n] = external[p][n]]
        /\ UNCHANGED <<internal, internal2>>
  /\ UNCHANGED <<registry, uses, shadowing, home, history>>

------------------------------------------------------------------------------

NicknameSets == {ns \in SUBSET PackageNames : Cardinality(ns) <= MaxNicknames}

(* The packages to use, each once, in the order given to %make-package.      *)
UseArguments ==
  {u \in SeqOf(made, MaxUse) : \A i, k \in DOMAIN u : u[i] = u[k] => i = k}

RegistryStep(p) ==
  \/ \E n \in PackageNames, nicks \in NicknameSets :
       \/ \E use \in UseArguments : make_package(p, n, nicks, use)
       \/ rename_package(p, n, nicks)
  \/ delete_package(p)

UseStep(p) == \E q \in made : use_package(p, q) \/ unuse_package(p, q)

SymbolStep(p) ==
  \/ \E s \in Symbols :
       \/ intern(p, s) \/ import_symbol(p, s) \/ export_symbol(p, s)
       \/ unexport_symbol(p, s) \/ unintern_symbol(p, s)
       \/ shadow_new(p, s) \/ shadowing_import(p, s)
  \/ \E n \in Names : shadow_present(p, n) \/ grow(p, n)

Next ==
  \/ \E p \in Packages : RegistryStep(p) \/ UseStep(p) \/ SymbolStep(p)
  \/ \E s \in Symbols : make_symbol(s)

Spec == Init /\ [][Next]_vars

------------------------------------------------------------------------------
(* Properties.                                                               *)

(* A name or nickname finds the package that has it, and only that one:      *)
(* make, rename and delete never leave a name behind, and never take one     *)
(* that another package has.                                                 *)
MapConsistent ==
  \A k \in PackageNames, p \in Packages :
    package_map[k] = p <=> k \in {name[p]} \cup nicknames[p]

(* A package is on the used-by list of exactly the packages it uses, also    *)
(* after deletions, and it uses each of them once.                           *)
UseSymmetric ==
  /\ \A p, q \in Packages : Contains(use_list[p], q) <=> p \in used_by[q]
  /\ \A p \in Packages : IsInjective(use_list[p])

(* A name is never both internal and external in a package, as               *)
(* add_external_symbol() and unintern_symbol() assert, for every program and *)
(* every name of which the package was not made to put a symbol that it had  *)
(* already and shadowing_import() displaced none.                            *)
InternalExternalDisjoint ==
  \A p \in Packages, n \in Names :
    \/ n \in doubled[p] \cup displaced[p]
    \/ internal[p][n] = NULL \/ external[p][n] = NULL

(* A symbol is present in its home package, unless shadowing_import()        *)
(* displaced a symbol of the name there.  export_symbol() relies on it:      *)
(* "can't happen" otherwise, and import_symbol() does nothing.               *)
HomeIsPresent ==
  \A s \in Symbols :
    home[s] \in Packages /\ NameOf[s] \notin displaced[home[s]] =>
      s \in {internal[home[s]][NameOf[s]], external[home[s]][NameOf[s]]}

(* What a name means in a package where it is present stays the same symbol  *)
(* until the program uninterns it, imports over it or deletes the package:   *)
(* export, unexport, import, also of a symbol that is present, a table that  *)
(* grows and use-package never change it, unless shadowing_import() had      *)
(* displaced a symbol of the name from its home or a doubled one.            *)
PresentSymbolIsStable ==
  [][\A p \in Packages, n \in Names :
       Present(p, n) # NULL /\ Present(p, n)' # Present(p, n) =>
         \/ unintern_symbol(p, Present(p, n))
         \/ \E s \in Symbols : shadowing_import(p, s)
         \/ delete_package(p)
         \/ n \in displaced[p]]_vars

(* Every symbol that a package inherits is among its inherited_symbols(): a  *)
(* name on the list of shadowing symbols is present, never inherited, unless *)
(* the program has uninterned it, which leaves it on the list.               *)
InheritedSymbolsComplete ==
  \A p \in all_packages, n \in Names :
    LET s == find_accessible_symbol(p, n) IN
    s # NULL /\ Present(p, n) = NULL /\ n \notin unshadowed[p] => s \in inherited_symbols(p)

==============================================================================
