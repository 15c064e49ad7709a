---------------------------- MODULE PackagesProofs ----------------------------
(***************************************************************************)
(* Proofs, for any packages, names and symbols and whatever the program    *)
(* does.  The map from names to packages agrees with the names that the    *)
(* packages have, and use lists with used-by lists.  No symbol is both     *)
(* internal and external in a package, a symbol is present in its home, a  *)
(* present symbol stays the meaning of its name, and every name inherited  *)
(* is found, but for the names whose history (doubled, displaced,          *)
(* unshadowed) says otherwise.  defpackage, finished, failed half way or   *)
(* under way, keeps all this, and one that succeeds defines what its       *)
(* options ask for.                                                        *)
(***************************************************************************)
EXTENDS Defpackage, SequenceTheorems, WellFoundedInduction, TLAPS

RegistryTypes ==
  /\ name \in [Packages -> PackageNames \cup {NULL}]
  /\ nicknames \in [Packages -> SUBSET PackageNames]
  /\ package_map \in [PackageNames -> Packages \cup {NULL}]

(* An object of the pool that is not a package yet has no names.             *)
UnmadeAreNameless ==
  \A p \in Packages : p \notin made => name[p] = NULL /\ nicknames[p] = {}

RegistryInv == RegistryTypes /\ UnmadeAreNameless /\ MapConsistent

(* At startup no name is known and no package has one.                       *)
LEMMA RegistryInit == Init => RegistryInv
BY PackagesAssumption
DEF Init, RegistryInv, RegistryTypes, UnmadeAreNameless, MapConsistent

(* Use lists, symbols and their tables play no part in the registry.         *)
LEMMA RegistryUnchanged == RegistryInv /\ UNCHANGED registry => RegistryInv'
BY DEF RegistryInv, RegistryTypes, UnmadeAreNameless, MapConsistent, registry

(* make, rename and delete give one package new names, all of them free or   *)
(* its own, and forget its old ones: the map stays consistent.               *)
LEMMA RenamingKeepsMap ==
  ASSUME RegistryInv, NEW p \in Packages,
         NEW n \in PackageNames \cup {NULL}, NEW nicks \in SUBSET PackageNames,
         \A k \in ({n} \cup nicks) \cap PackageNames : package_map[k] \in {NULL, p},
         name' = [name EXCEPT ![p] = n],
         nicknames' = [nicknames EXCEPT ![p] = nicks],
         package_map' = [k \in PackageNames |->
                           IF k \in {n} \cup nicks THEN p
                           ELSE IF k \in {name[p]} \cup nicknames[p] THEN NULL
                           ELSE package_map[k]]
  PROVE  RegistryTypes' /\ MapConsistent'
<1> USE DEF RegistryInv, RegistryTypes
<1>1. RegistryTypes' OBVIOUS
<1>2. ASSUME NEW k \in PackageNames, NEW q \in Packages
      PROVE  package_map'[k] = q <=> k \in {name'[q]} \cup nicknames'[q]
  <2>1. package_map[k] = q <=> k \in {name[q]} \cup nicknames[q]
    BY DEF MapConsistent
  <2>2. package_map[k] = p <=> k \in {name[p]} \cup nicknames[p]
    BY DEF MapConsistent
  <2>3. q # NULL /\ p # NULL BY PackagesAssumption
  <2>4. CASE q = p BY <2>2, <2>3, <2>4
  <2>5. CASE q # p BY <2>1, <2>2, <2>3, <2>5
  <2>6. QED BY <2>4, <2>5
<1>3. QED BY <1>1, <1>2 DEF MapConsistent

(* %make-package registers names that were free.                             *)
LEMMA MakeKeeps ==
  ASSUME RegistryInv, NEW p \in Packages, NEW n \in PackageNames,
         NEW nicks \in NicknameSets, NEW use, make_package(p, n, nicks, use)
  PROVE  RegistryInv'
<1>1. p \notin made /\ made' = made \cup {p} BY DEF make_package
<1>2. name[p] = NULL /\ nicknames[p] = {} BY <1>1 DEF RegistryInv, UnmadeAreNameless
<1>3. nicks \in SUBSET PackageNames BY DEF NicknameSets
<1>4. package_map' = [k \in PackageNames |->
                        IF k \in {n} \cup nicks THEN p
                        ELSE IF k \in {name[p]} \cup nicknames[p] THEN NULL
                        ELSE package_map[k]]
  BY <1>2, PackagesAssumption DEF make_package
<1>5. RegistryTypes' /\ MapConsistent'
  <2>1. \A k \in ({n} \cup nicks) \cap PackageNames : package_map[k] \in {NULL, p}
    BY DEF make_package
  <2>2. /\ name' = [name EXCEPT ![p] = n]
        /\ nicknames' = [nicknames EXCEPT ![p] = nicks]
    BY DEF make_package
  <2>3. QED BY <1>3, <1>4, <2>1, <2>2, RenamingKeepsMap
<1>6. UnmadeAreNameless'
  BY <1>1 DEF make_package, RegistryInv, RegistryTypes, UnmadeAreNameless
<1>7. QED BY <1>5, <1>6 DEF RegistryInv

(* rename-package drops the old names and enters the new ones.               *)
LEMMA RenameKeeps ==
  ASSUME RegistryInv, NEW p \in Packages, NEW n \in PackageNames,
         NEW nicks \in NicknameSets, rename_package(p, n, nicks)
  PROVE  RegistryInv'
<1>1. p \in made /\ made' = made BY DEF rename_package, Designated
<1>2. nicks \in SUBSET PackageNames BY DEF NicknameSets
<1>3. RegistryTypes' /\ MapConsistent'
  BY <1>2, RenamingKeepsMap DEF rename_package
<1>4. UnmadeAreNameless'
  BY <1>1 DEF rename_package, RegistryInv, RegistryTypes, UnmadeAreNameless
<1>5. QED BY <1>3, <1>4 DEF RegistryInv

(* delete-package leaves none of the names behind.                           *)
LEMMA DeleteKeeps ==
  ASSUME RegistryInv, NEW p \in Packages, delete_package(p)
  PROVE  RegistryInv'
<1>1. p \in made /\ made' = made BY DEF delete_package, Designated
<1>2. package_map' = [k \in PackageNames |->
                        IF k \in {NULL} \cup {} THEN p
                        ELSE IF k \in {name[p]} \cup nicknames[p] THEN NULL
                        ELSE package_map[k]]
  BY PackagesAssumption DEF delete_package
<1>3. RegistryTypes' /\ MapConsistent'
  <2> DEFINE none == {}
  <2>1. \A k \in ({NULL} \cup none) \cap PackageNames : package_map[k] \in {NULL, p}
    BY PackagesAssumption
  <2>2. /\ name' = [name EXCEPT ![p] = NULL]
        /\ nicknames' = [nicknames EXCEPT ![p] = none]
        /\ none \in SUBSET PackageNames
    BY DEF delete_package
  <2>3. package_map' = [k \in PackageNames |->
                          IF k \in {NULL} \cup none THEN p
                          ELSE IF k \in {name[p]} \cup nicknames[p] THEN NULL
                          ELSE package_map[k]]
    BY <1>2
  <2> HIDE DEF none
  <2>4. QED BY <2>1, <2>2, <2>3, RenamingKeepsMap
<1>4. UnmadeAreNameless'
  BY <1>1 DEF delete_package, RegistryInv, RegistryTypes, UnmadeAreNameless
<1>5. QED BY <1>3, <1>4 DEF RegistryInv

(* The invariant of the registry is inductive: every operation keeps it.     *)
LEMMA RegistryStepKeeps == RegistryInv /\ [Next]_vars => RegistryInv'
<1> SUFFICES ASSUME RegistryInv, [Next]_vars PROVE RegistryInv' OBVIOUS
<1>1. CASE UNCHANGED vars BY <1>1, RegistryUnchanged DEF vars
<1>2. ASSUME NEW p \in Packages, RegistryStep(p) PROVE RegistryInv'
  BY <1>2, MakeKeeps, RenameKeeps, DeleteKeeps DEF RegistryStep
<1>3. ASSUME NEW p \in Packages, UseStep(p) PROVE RegistryInv'
  BY <1>3, RegistryUnchanged DEF UseStep, use_package, unuse_package
<1>4. ASSUME NEW p \in Packages, SymbolStep(p) PROVE RegistryInv'
  BY <1>4, RegistryUnchanged
  DEF SymbolStep, intern, import_symbol, export_symbol, unexport_symbol,
      unintern_symbol, shadow_new, shadow_present, shadowing_import,
      ShadowingImport, grow
<1>5. ASSUME NEW s \in Symbols, make_symbol(s) PROVE RegistryInv'
  BY <1>5, RegistryUnchanged DEF make_symbol
<1>6. QED BY <1>1, <1>2, <1>3, <1>4, <1>5 DEF Next

(* A name or nickname finds exactly the package that has it, whatever the    *)
(* program makes, renames and deletes, deleted packages included.            *)
THEOREM MapIsConsistent == Spec => []MapConsistent
<1>1. RegistryInv => MapConsistent BY DEF RegistryInv
<1>2. QED BY <1>1, RegistryInit, RegistryStepKeeps, PTL DEF Spec

------------------------------------------------------------------------------
(* The tables of a package.                                                  *)

TableTypes ==
  /\ internal \in [Packages -> Tables] /\ internal2 \in [Packages -> Tables]
  /\ external \in [Packages -> Tables] /\ external2 \in [Packages -> Tables]
  /\ shadowing \in [Packages -> Tables]
  /\ home \in [Symbols -> Packages \cup {NIL, NULL}]
  /\ doubled \in [Packages -> SUBSET Names]
  /\ displaced \in [Packages -> SUBSET Names]
  /\ unshadowed \in [Packages -> SUBSET Names]

(* The buckets of a name in a package: a second one is behind a first one,   *)
(* and symbols are under their own names.                                    *)
CellNames(p, n) ==
  /\ internal[p][n] = NULL => internal2[p][n] = NULL
  /\ external[p][n] = NULL => external2[p][n] = NULL
  /\ \A s \in Buckets(p, n) : NameOf[s] = n

(* All buckets of the name hold one symbol, and the symbols of the name that *)
(* are at home in the package are present there.                             *)
CellAgrees(p, n) ==
  /\ \A s, t \in Buckets(p, n) : s = t
  /\ \A t \in Symbols : home[t] = p /\ NameOf[t] = n => t \in {internal[p][n], external[p][n]}

(* The name has one bucket, in one of the tables, or none.                   *)
CellSingle(p, n) ==
  /\ internal2[p][n] = NULL /\ external2[p][n] = NULL
  /\ internal[p][n] = NULL \/ external[p][n] = NULL

(* An object of the pool that is not a package yet holds nothing.            *)
CellEmpty(p, n) ==
  /\ internal[p][n] = NULL /\ external[p][n] = NULL /\ shadowing[p][n] = NULL
  /\ n \notin doubled[p] /\ n \notin displaced[p]

(* What a put of a symbol that is there and shadowing-import may spoil.      *)
CellInv(p, n) ==
  /\ CellNames(p, n)
  /\ n \notin displaced[p] => CellAgrees(p, n)
  /\ n \notin displaced[p] /\ n \notin doubled[p] => CellSingle(p, n)
  /\ p \notin made => CellEmpty(p, n)

TablesInv == TableTypes /\ \A p \in Packages, n \in Names : CellInv(p, n)

(* What is in the buckets of a name, and the invariant spelt out.            *)
LEMMA Cell ==
  ASSUME TablesInv, NEW p \in Packages, NEW n \in Names
  PROVE  /\ internal[p][n] \in Symbols \cup {NULL} /\ internal2[p][n] \in Symbols \cup {NULL}
         /\ external[p][n] \in Symbols \cup {NULL} /\ external2[p][n] \in Symbols \cup {NULL}
         /\ shadowing[p][n] \in Symbols \cup {NULL}
         /\ doubled[p] \in SUBSET Names /\ displaced[p] \in SUBSET Names
         /\ unshadowed[p] \in SUBSET Names
         /\ CellNames(p, n)
         /\ n \notin displaced[p] => CellAgrees(p, n)
         /\ n \notin displaced[p] /\ n \notin doubled[p] => CellSingle(p, n)
         /\ p \notin made => CellEmpty(p, n)
BY DEF TablesInv, TableTypes, Tables, CellInv

(* At startup there are no symbols.                                          *)
LEMMA TablesInit == Init => TablesInv
<1> SUFFICES ASSUME Init PROVE TablesInv OBVIOUS
<1> USE DEF Init
<1>1. TableTypes BY PackagesAssumption DEF TableTypes, Tables
<1>2. ASSUME NEW p \in Packages, NEW n \in Names PROVE CellInv(p, n)
  <2>1. /\ internal[p][n] = NULL /\ internal2[p][n] = NULL /\ shadowing[p][n] = NULL
        /\ external[p][n] = NULL /\ external2[p][n] = NULL
        /\ doubled[p] = {} /\ displaced[p] = {}
    OBVIOUS
  <2>2. \A t \in Symbols : home[t] # p BY PackagesAssumption
  <2>3. Buckets(p, n) = {} BY <2>1 DEF Buckets
  <2>4. QED
    BY <2>1, <2>2, <2>3 DEF CellInv, CellNames, CellAgrees, CellSingle, CellEmpty
<1>3. QED BY <1>1, <1>2 DEF TablesInv

(* The registry and use lists play no part, except that packages are made.   *)
LEMMA TablesUnchanged ==
  TablesInv /\ UNCHANGED <<tables, home, history>> /\ made \subseteq made' => TablesInv'
<1> SUFFICES ASSUME TablesInv, UNCHANGED <<tables, home, history>>, made \subseteq made'
             PROVE  TablesInv'
  OBVIOUS
<1>1. TableTypes' BY DEF TablesInv, TableTypes, tables, history
<1>2. ASSUME NEW p \in Packages, NEW n \in Names PROVE CellInv(p, n)'
  <2>1. CellInv(p, n) BY DEF TablesInv
  <2>2. Buckets(p, n)' = Buckets(p, n) BY DEF Buckets, tables
  <2>3. QED
    BY <2>1, <2>2
       DEF CellInv, CellNames, CellAgrees, CellSingle, CellEmpty, tables, history
<1>3. QED BY <1>1, <1>2 DEF TablesInv

(* The operation touches the buckets of package p and name n only.           *)
InternalAt(p, n) ==
  /\ internal' \in [Packages -> Tables] /\ internal2' \in [Packages -> Tables]
  /\ \A q \in Packages, m \in Names : q # p \/ m # n =>
       internal'[q][m] = internal[q][m] /\ internal2'[q][m] = internal2[q][m]

ExternalAt(p, n) ==
  /\ external' \in [Packages -> Tables] /\ external2' \in [Packages -> Tables]
  /\ \A q \in Packages, m \in Names : q # p \/ m # n =>
       external'[q][m] = external[q][m] /\ external2'[q][m] = external2[q][m]

ShadowingAt(p, n) ==
  /\ shadowing' \in [Packages -> Tables]
  /\ \A q \in Packages, m \in Names : q # p \/ m # n => shadowing'[q][m] = shadowing[q][m]

(* The histories say at most more of the name in the package.                *)
NotesAt(h, i, p, n) ==
  /\ i \in [Packages -> SUBSET Names]
  /\ \A q \in Packages, m \in Names :
       /\ m \in h[q] => m \in i[q]
       /\ q # p \/ m # n => (m \in i[q] <=> m \in h[q])

HistoryAt(p, n) ==
  /\ NotesAt(doubled, doubled', p, n) /\ NotesAt(displaced, displaced', p, n)
  /\ NotesAt(unshadowed, unshadowed', p, n)

(* A symbol that changes its home and gets one has the name and is in p now. *)
HomeAt(p, n) ==
  /\ home' \in [Symbols -> Packages \cup {NIL, NULL}]
  /\ \A t \in Symbols :
       home'[t] \in Packages /\ home'[t] # home[t] => home'[t] = p /\ NameOf[t] = n

Touches(p, n) ==
  /\ p \in made /\ UNCHANGED <<registry, uses>>
  /\ InternalAt(p, n) /\ ExternalAt(p, n) /\ ShadowingAt(p, n)
  /\ HistoryAt(p, n) /\ HomeAt(p, n)

(* Such an operation has only this name to answer for.                       *)
LEMMA CellChange ==
  ASSUME TablesInv, NEW p \in Packages, NEW n \in Names, Touches(p, n), CellInv(p, n)'
  PROVE  TablesInv'
<1>1. TableTypes'
  BY DEF Touches, InternalAt, ExternalAt, ShadowingAt, HistoryAt, NotesAt, HomeAt, TableTypes
<1>2. ASSUME NEW q \in Packages, NEW m \in Names PROVE CellInv(q, m)'
  <2>1. CASE q = p /\ m = n BY <2>1
  <2>2. CASE q # p \/ m # n
    <3>1. /\ internal'[q][m] = internal[q][m] /\ internal2'[q][m] = internal2[q][m]
          /\ external'[q][m] = external[q][m] /\ external2'[q][m] = external2[q][m]
          /\ shadowing'[q][m] = shadowing[q][m]
      BY <2>2 DEF Touches, InternalAt, ExternalAt, ShadowingAt
    <3>2. (m \in doubled'[q] <=> m \in doubled[q]) /\ (m \in displaced'[q] <=> m \in displaced[q])
      BY <2>2 DEF Touches, HistoryAt, NotesAt
    <3>3. Buckets(q, m)' = Buckets(q, m) BY <3>1 DEF Buckets
    <3>4. CellNames(q, m) => CellNames(q, m)' BY <3>1, <3>3 DEF CellNames
    <3>5. CellAgrees(q, m) => CellAgrees(q, m)'
      <4>1. \A t \in Symbols : home'[t] = q /\ NameOf[t] = m => home[t] = q
        BY <2>2 DEF Touches, HomeAt
      <4>2. QED BY <3>1, <3>3, <4>1 DEF CellAgrees
    <3>6. CellSingle(q, m) => CellSingle(q, m)' BY <3>1 DEF CellSingle
    <3>7. CellEmpty(q, m) => CellEmpty(q, m)' BY <3>1, <3>2 DEF CellEmpty
    <3>8. made' = made BY DEF Touches, registry
    <3>9. CellInv(q, m) BY DEF TablesInv
    <3>10. QED BY <3>2, <3>4, <3>5, <3>6, <3>7, <3>8, <3>9 DEF CellInv
  <2>3. QED BY <2>1, <2>2
<1>3. QED BY <1>1, <1>2 DEF TablesInv

(* Tables, homes and histories that stay as they are.                        *)
LEMMA StaysAt ==
  ASSUME TablesInv, NEW p \in Packages, NEW n \in Names
  PROVE  /\ UNCHANGED <<internal, internal2>> => InternalAt(p, n)
         /\ UNCHANGED <<external, external2>> => ExternalAt(p, n)
         /\ UNCHANGED shadowing => ShadowingAt(p, n)
         /\ UNCHANGED doubled => NotesAt(doubled, doubled', p, n)
         /\ UNCHANGED displaced => NotesAt(displaced, displaced', p, n)
         /\ UNCHANGED unshadowed => NotesAt(unshadowed, unshadowed', p, n)
         /\ UNCHANGED history => HistoryAt(p, n)
         /\ UNCHANGED home => HomeAt(p, n)
BY DEF TablesInv, TableTypes, InternalAt, ExternalAt, ShadowingAt, NotesAt, HistoryAt,
       HomeAt, history

(* A put, or a remove, in one of the tables.                                 *)
LEMMA InternalPut ==
  ASSUME TablesInv, NEW p \in Packages, NEW s \in Symbols, TablePut(internal, internal2, p, s)
  PROVE  /\ InternalAt(p, NameOf[s]) /\ internal'[p][NameOf[s]] = s
         /\ internal2'[p][NameOf[s]] \in {internal[p][NameOf[s]], internal2[p][NameOf[s]]}
<1> DEFINE n == NameOf[s]
<1>1. n \in Names BY PackagesAssumption
<1>2. PICK b \in {internal[p][n], internal2[p][n]} :
        internal' = [internal EXCEPT ![p][n] = s] /\ internal2' = [internal2 EXCEPT ![p][n] = b]
  BY DEF TablePut
<1>3. b \in Symbols \cup {NULL} BY <1>1, Cell
<1> HIDE DEF n
<1>4. InternalAt(p, n) /\ internal'[p][n] = s /\ internal2'[p][n] = b
  BY <1>1, <1>2, <1>3 DEF TablesInv, TableTypes, Tables, InternalAt
<1>5. QED BY <1>2, <1>4 DEF n

(* The same for the external symbols.                                        *)
LEMMA ExternalPut ==
  ASSUME TablesInv, NEW p \in Packages, NEW s \in Symbols, TablePut(external, external2, p, s)
  PROVE  /\ ExternalAt(p, NameOf[s]) /\ external'[p][NameOf[s]] = s
         /\ external2'[p][NameOf[s]] \in {external[p][NameOf[s]], external2[p][NameOf[s]]}
<1> DEFINE n == NameOf[s]
<1>1. n \in Names BY PackagesAssumption
<1>2. PICK b \in {external[p][n], external2[p][n]} :
        external' = [external EXCEPT ![p][n] = s] /\ external2' = [external2 EXCEPT ![p][n] = b]
  BY DEF TablePut
<1>3. b \in Symbols \cup {NULL} BY <1>1, Cell
<1> HIDE DEF n
<1>4. ExternalAt(p, n) /\ external'[p][n] = s /\ external2'[p][n] = b
  BY <1>1, <1>2, <1>3 DEF TablesInv, TableTypes, Tables, ExternalAt
<1>5. QED BY <1>2, <1>4 DEF n

(* A remove makes the second bucket the first.                               *)
LEMMA InternalRemove ==
  ASSUME TablesInv, NEW p \in Packages, NEW n \in Names, TableRemove(internal, internal2, p, n)
  PROVE  /\ InternalAt(p, n) /\ internal'[p][n] = internal2[p][n] /\ internal2'[p][n] = NULL
<1>1. internal2[p][n] \in Symbols \cup {NULL} BY Cell
<1>2. QED BY <1>1 DEF TableRemove, TablesInv, TableTypes, Tables, InternalAt

(* The same for the external symbols.                                        *)
LEMMA ExternalRemove ==
  ASSUME TablesInv, NEW p \in Packages, NEW n \in Names, TableRemove(external, external2, p, n)
  PROVE  /\ ExternalAt(p, n) /\ external'[p][n] = external2[p][n] /\ external2'[p][n] = NULL
<1>1. external2[p][n] \in Symbols \cup {NULL} BY Cell
<1>2. QED BY <1>1 DEF TableRemove, TablesInv, TableTypes, Tables, ExternalAt

(* A note in a history.                                                      *)
LEMMA NoteAt ==
  ASSUME NEW h, NEW i, h \in [Packages -> SUBSET Names], NEW p \in Packages, NEW n \in Names,
         NEW c, i = [h EXCEPT ![p] = IF c THEN @ \cup {n} ELSE @]
  PROVE  NotesAt(h, i, p, n) /\ (n \in i[p] <=> n \in h[p] \/ c)
BY DEF NotesAt

(* Notes in the three histories.                                             *)
LEMMA HistoryNote ==
  ASSUME TablesInv, NEW p \in Packages, NEW n \in Names, NEW c
  PROVE  /\ Note(doubled, p, n, c) =>
              NotesAt(doubled, doubled', p, n) /\ (n \in doubled'[p] <=> n \in doubled[p] \/ c)
         /\ Note(displaced, p, n, c) =>
              NotesAt(displaced, displaced', p, n) /\ (n \in displaced'[p] <=> n \in displaced[p] \/ c)
         /\ Note(unshadowed, p, n, c) =>
              NotesAt(unshadowed, unshadowed', p, n) /\ (n \in unshadowed'[p] <=> n \in unshadowed[p] \/ c)
BY NoteAt DEF Note, TablesInv, TableTypes

(* A package that holds no symbol of a name, or holds one, under that name.  *)
LEMMA AccessibleSymbol ==
  ASSUME NEW p \in Packages, NEW n \in Names
  PROVE  /\ find_accessible_symbol(p, n) = NULL =>
              internal[p][n] = NULL /\ external[p][n] = NULL
         /\ external[p][n] # NULL => find_accessible_symbol(p, n) = external[p][n]
         /\ external[p][n] = NULL /\ internal[p][n] # NULL =>
              find_accessible_symbol(p, n) = internal[p][n]
BY Zenon DEF find_accessible_symbol, Present

(* The one operation that is not a step of Next: %defpackage makes a symbol  *)
(* and exports it at once.                                                   *)
ExportsNew(p, s) ==
  LET n == NameOf[s] IN
  /\ p \in made
  /\ find_accessible_symbol(p, n) = NULL
  /\ home' = [home EXCEPT ![s] = p]
  /\ TablePut(external, external2, p, s)
  /\ UNCHANGED <<registry, uses, internal, internal2, shadowing, history>>

(* Homes: a symbol of the name gets the package as its home, or loses it.    *)
LEMMA HomeChange ==
  ASSUME TablesInv, NEW p \in Packages, NEW s \in Symbols, NEW h \in {p, NIL, home[s]},
         home' = [home EXCEPT ![s] = h]
  PROVE  /\ HomeAt(p, NameOf[s]) /\ home'[s] = h
         /\ \A t \in Symbols : t # s => home'[t] = home[t]
BY PackagesAssumption DEF TablesInv, TableTypes, HomeAt

(* intern and shadow put a new symbol where there is none.                   *)
LEMMA NewSymbolKeeps ==
  ASSUME TablesInv, NEW p \in Packages, NEW s \in Symbols,
         intern(p, s) \/ shadow_new(p, s) \/ ExportsNew(p, s)
  PROVE  /\ TablesInv' /\ Touches(p, NameOf[s]) /\ UNCHANGED history
         /\ Present(p, NameOf[s]) = NULL /\ Present(p, NameOf[s])' = s
         /\ intern(p, s) \/ ExportsNew(p, s) => UNCHANGED shadowing
         /\ shadow_new(p, s) => shadowing'[p][NameOf[s]] = s
<1> DEFINE n == NameOf[s]
<1>1. n \in Names /\ s # NULL BY PackagesAssumption
<1>2. internal[p][n] = NULL /\ external[p][n] = NULL
  <2>1. CASE intern(p, s) BY <1>1, <2>1, AccessibleSymbol DEF intern
  <2>2. CASE shadow_new(p, s) BY <2>2 DEF shadow_new, Present
  <2>3. CASE ExportsNew(p, s) BY <1>1, <2>3, AccessibleSymbol DEF ExportsNew
  <2>4. QED BY <2>1, <2>2, <2>3
<1>3. /\ home' = [home EXCEPT ![s] = p] /\ p \in made
      /\ UNCHANGED <<registry, uses>> /\ UNCHANGED history
      /\ intern(p, s) \/ ExportsNew(p, s) => UNCHANGED shadowing
      /\ shadow_new(p, s) => shadowing' = [shadowing EXCEPT ![p][n] = s]
      /\ \/ TablePut(internal, internal2, p, s) /\ UNCHANGED <<external, external2>>
         \/ TablePut(external, external2, p, s) /\ UNCHANGED <<internal, internal2>>
  BY DEF intern, shadow_new, ExportsNew, Designated
<1>4. HomeAt(p, n) /\ home'[s] = p /\ \A t \in Symbols : t # s => home'[t] = home[t]
  BY <1>3, HomeChange
<1>5. ShadowingAt(p, n) /\ (shadow_new(p, s) => shadowing'[p][n] = s)
  <2>1. CASE UNCHANGED shadowing BY <1>1, <1>3, <2>1, StaysAt DEF TablesInv, TableTypes, Tables
  <2>2. CASE shadowing' = [shadowing EXCEPT ![p][n] = s]
    BY <1>1, <2>2 DEF TablesInv, TableTypes, Tables, ShadowingAt
  <2>3. QED BY <1>3, <2>1, <2>2
<1>6. HistoryAt(p, n) BY <1>1, <1>3, StaysAt
<1>7. CellNames(p, n) /\ internal2[p][n] = NULL /\ external2[p][n] = NULL
  BY <1>1, <1>2, Cell DEF CellNames
<1>8. /\ InternalAt(p, n) /\ ExternalAt(p, n)
      /\ internal2'[p][n] = NULL /\ external2'[p][n] = NULL
      /\ \/ internal'[p][n] = s /\ external'[p][n] = NULL
         \/ internal'[p][n] = NULL /\ external'[p][n] = s
  <2>1. CASE TablePut(internal, internal2, p, s) /\ UNCHANGED <<external, external2>>
    BY <1>1, <1>2, <1>7, <2>1, InternalPut, StaysAt
  <2>2. CASE TablePut(external, external2, p, s) /\ UNCHANGED <<internal, internal2>>
    BY <1>1, <1>2, <1>7, <2>2, ExternalPut, StaysAt
  <2>3. QED BY <1>3, <2>1, <2>2
<1>9. Touches(p, n) BY <1>3, <1>4, <1>5, <1>6, <1>8 DEF Touches
<1>10. n \notin displaced[p] => \A t \in Symbols : home[t] = p /\ NameOf[t] = n => FALSE
  BY <1>1, <1>2, Cell, PackagesAssumption DEF CellAgrees
<1>11. made' = made /\ displaced' = displaced BY <1>3 DEF registry, history
<1>12. Buckets(p, n)' = {s} BY <1>1, <1>8 DEF Buckets
<1>13. CellInv(p, n)'
  BY <1>1, <1>3, <1>4, <1>8, <1>10, <1>11, <1>12
     DEF CellInv, CellNames, CellAgrees, CellSingle, n
<1>14. TablesInv' BY <1>1, <1>9, <1>13, CellChange
<1>15. Present(p, n) = NULL /\ Present(p, n)' = s BY <1>1, <1>2, <1>8 DEF Present
<1>16. QED BY <1>3, <1>5, <1>9, <1>14, <1>15

(* What is in the buckets of a name where the history has no displacement.   *)
LEMMA Agreed ==
  ASSUME TablesInv, NEW p \in Packages, NEW n \in Names, n \notin displaced[p]
  PROVE  /\ \A s \in Buckets(p, n) : s = Present(p, n)
         /\ Present(p, n) # NULL => Present(p, n) \in Buckets(p, n)
         /\ \A t \in Symbols : home[t] = p /\ NameOf[t] = n => t = Present(p, n)
         /\ internal[p][n] \in {NULL, Present(p, n)} /\ internal2[p][n] \in {NULL, Present(p, n)}
         /\ external[p][n] \in {NULL, Present(p, n)} /\ external2[p][n] \in {NULL, Present(p, n)}
<1>1. CellAgrees(p, n) /\ CellNames(p, n) BY Cell
<1>2. Present(p, n) # NULL => Present(p, n) \in Buckets(p, n) BY DEF Present, Buckets
<1>3. Present(p, n) = NULL => internal[p][n] = NULL /\ external[p][n] = NULL BY DEF Present
<1>4. \A s \in Buckets(p, n) : s = Present(p, n)
  BY <1>1, <1>2, <1>3 DEF CellAgrees, CellNames, Buckets
<1>5. \A t \in Symbols : home[t] = p /\ NameOf[t] = n => t \in Buckets(p, n)
  BY <1>1, PackagesAssumption DEF CellAgrees, Buckets
<1>6. QED BY <1>2, <1>4, <1>5 DEF Buckets

(* An operation that puts a symbol where there is none or that symbol: the   *)
(* name has nothing but that symbol afterwards.                              *)
LEMMA CellAfterPut ==
  ASSUME TablesInv, NEW p \in Packages, NEW s \in Symbols, p \in made', Touches(p, NameOf[s]),
         CellNames(p, NameOf[s])',
         NameOf[s] \notin displaced'[p] =>
           /\ Buckets(p, NameOf[s])' \subseteq {s}
           /\ Present(p, NameOf[s]) \in {s, NULL}
           /\ s \in {internal'[p][NameOf[s]], external'[p][NameOf[s]]}
           /\ \A t \in Symbols : t # s => home'[t] = home[t],
         NameOf[s] \notin displaced'[p] /\ NameOf[s] \notin doubled'[p] => CellSingle(p, NameOf[s])'
  PROVE  TablesInv'
<1> DEFINE n == NameOf[s]
<1>1. n \in Names /\ s # NULL BY PackagesAssumption
<1>2. n \notin displaced'[p] => n \notin displaced[p] BY <1>1 DEF Touches, HistoryAt, NotesAt
<1>3. n \notin displaced'[p] => CellAgrees(p, n)'
  <2> SUFFICES ASSUME n \notin displaced'[p] PROVE CellAgrees(p, n)' OBVIOUS
  <2>1. \A t \in Symbols : home[t] = p /\ NameOf[t] = n => t = s
    BY <1>1, <1>2, Agreed, PackagesAssumption
  <2>2. \A t \in Symbols : home'[t] = p /\ NameOf[t] = n => t = s
    BY <2>1
  <2>3. QED BY <2>2 DEF CellAgrees
<1>4. CellInv(p, n)' BY <1>3 DEF CellInv
<1>5. QED BY <1>1, <1>4, CellChange

(* import adds a symbol where no other symbol of the name is present.        *)
LEMMA ImportKeeps ==
  ASSUME TablesInv, NEW p \in Packages, NEW s \in Symbols, import_symbol(p, s)
  PROVE  /\ TablesInv' /\ Touches(p, NameOf[s]) /\ UNCHANGED <<shadowing, displaced, unshadowed>>
         /\ Present(p, NameOf[s]) \in {s, NULL} /\ Present(p, NameOf[s])' = s
<1> DEFINE n == NameOf[s]
<1>1. n \in Names /\ s # NULL BY PackagesAssumption
<1>2. /\ p \in made /\ UNCHANGED <<registry, uses>>
      /\ UNCHANGED <<external, external2, shadowing, displaced, unshadowed>>
      /\ find_accessible_symbol(p, n) \in {NULL, s}
      /\ TablePut(internal, internal2, p, s)
      /\ home' = IF home[s] = NIL THEN [home EXCEPT ![s] = p] ELSE home
      /\ Note(doubled, p, n, Present(p, n) # NULL)
  BY DEF import_symbol, Designated
<1>3. /\ HomeAt(p, n) /\ \A t \in Symbols : t # s => home'[t] = home[t]
  <2>1. CASE home' = [home EXCEPT ![s] = p] BY <2>1, HomeChange
  <2>2. CASE home' = home BY <1>1, <2>2, StaysAt
  <2>3. QED BY <1>2, <2>1, <2>2
<1>4. InternalAt(p, n) /\ internal'[p][n] = s /\ internal2'[p][n] \in {internal[p][n], internal2[p][n]}
  BY <1>2, InternalPut
<1>5. ExternalAt(p, n) /\ ShadowingAt(p, n) BY <1>1, <1>2, StaysAt
<1>6. HistoryAt(p, n) /\ (n \in doubled'[p] <=> n \in doubled[p] \/ Present(p, n) # NULL)
  BY <1>1, <1>2, StaysAt, HistoryNote DEF HistoryAt
<1>7. Touches(p, n) BY <1>2, <1>3, <1>4, <1>5, <1>6 DEF Touches
<1>8. Present(p, n) \in {s, NULL} BY <1>1, <1>2, AccessibleSymbol DEF Present
<1>9. external[p][n] \in {NULL, s} BY <1>8 DEF Present
<1>10. CellNames(p, n)'
  BY <1>1, <1>2, <1>4, Cell DEF CellNames, Buckets, n
<1>11. n \notin displaced'[p] => Buckets(p, n)' \subseteq {s}
  BY <1>1, <1>2, <1>4, <1>8, Agreed DEF Buckets
<1>12. n \notin displaced'[p] /\ n \notin doubled'[p] => CellSingle(p, n)'
  BY <1>1, <1>2, <1>4, <1>6, Cell DEF CellSingle, CellNames, Present
<1>13. TablesInv'
  BY <1>2, <1>3, <1>4, <1>7, <1>8, <1>10, <1>11, <1>12, CellAfterPut DEF registry
<1>14. Present(p, n)' = s BY <1>2, <1>4, <1>9 DEF Present
<1>15. QED BY <1>2, <1>7, <1>8, <1>13, <1>14

(* export makes a symbol external that is internal, external or inherited.   *)
LEMMA ExportKeeps ==
  ASSUME TablesInv, NEW p \in Packages, NEW s \in Symbols, export_symbol(p, s)
  PROVE  /\ TablesInv' /\ Touches(p, NameOf[s]) /\ UNCHANGED <<shadowing, displaced, unshadowed>>
         /\ NameOf[s] \notin displaced[p] => Present(p, NameOf[s]) \in {s, NULL}
         /\ Present(p, NameOf[s])' = s /\ external'[p][NameOf[s]] = s
<1> DEFINE n == NameOf[s]
<1>1. n \in Names /\ s # NULL BY PackagesAssumption
<1>2. /\ p \in made /\ UNCHANGED <<registry, uses>>
      /\ UNCHANGED <<shadowing, home, displaced, unshadowed>>
      /\ IF home[s] = p THEN external[p][n] # s ELSE find_accessible_symbol(p, n) = s
      /\ TableRemove(internal, internal2, p, n) /\ TablePut(external, external2, p, s)
      /\ Note(doubled, p, n, external[p][n] # NULL)
  BY DEF export_symbol, Designated
<1>3. InternalAt(p, n) /\ internal'[p][n] = internal2[p][n] /\ internal2'[p][n] = NULL
  BY <1>1, <1>2, InternalRemove
<1>4. ExternalAt(p, n) /\ external'[p][n] = s /\ external2'[p][n] \in {external[p][n], external2[p][n]}
  BY <1>2, ExternalPut
<1>5. ShadowingAt(p, n) /\ HomeAt(p, n) BY <1>1, <1>2, StaysAt
<1>6. HistoryAt(p, n) /\ (n \in doubled'[p] <=> n \in doubled[p] \/ external[p][n] # NULL)
  BY <1>1, <1>2, StaysAt, HistoryNote DEF HistoryAt
<1>7. Touches(p, n) BY <1>2, <1>3, <1>4, <1>5, <1>6 DEF Touches
<1>8. n \notin displaced[p] => Present(p, n) \in {s, NULL}
  <2>1. CASE home[s] = p BY <1>1, <2>1, Agreed
  <2>2. CASE home[s] # p BY <1>1, <1>2, <2>2, AccessibleSymbol DEF Present
  <2>3. QED BY <2>1, <2>2
<1>9. CellNames(p, n)'
  BY <1>1, <1>3, <1>4, Cell DEF CellNames, Buckets, n
<1>10. n \notin displaced'[p] => Buckets(p, n)' \subseteq {s}
  BY <1>1, <1>2, <1>3, <1>4, <1>8, Agreed DEF Buckets
<1>11. n \notin displaced'[p] /\ n \notin doubled'[p] => CellSingle(p, n)'
  BY <1>1, <1>2, <1>3, <1>4, <1>6, Cell DEF CellSingle, CellNames
<1>12. TablesInv'
  BY <1>2, <1>4, <1>7, <1>8, <1>9, <1>10, <1>11, CellAfterPut DEF registry
<1>13. Present(p, n)' = s BY <1>1, <1>4 DEF Present
<1>14. QED BY <1>2, <1>4, <1>7, <1>8, <1>12, <1>13

(* unexport makes an external symbol internal.                               *)
LEMMA UnexportKeeps ==
  ASSUME TablesInv, NEW p \in Packages, NEW s \in Symbols, unexport_symbol(p, s)
  PROVE  /\ TablesInv' /\ Touches(p, NameOf[s]) /\ UNCHANGED <<shadowing, displaced, unshadowed>>
         /\ Present(p, NameOf[s]) = s /\ Present(p, NameOf[s])' # NULL
         /\ NameOf[s] \notin displaced[p] => Present(p, NameOf[s])' = s
<1> DEFINE n == NameOf[s]
<1>1. n \in Names /\ s # NULL BY PackagesAssumption
<1>2. /\ p \in made /\ UNCHANGED <<registry, uses>>
      /\ UNCHANGED <<shadowing, home>> /\ UNCHANGED history
      /\ external[p][n] = s
      /\ TableRemove(external, external2, p, n) /\ TablePut(internal, internal2, p, s)
  BY DEF unexport_symbol, Designated
<1>3. ExternalAt(p, n) /\ external'[p][n] = external2[p][n] /\ external2'[p][n] = NULL
  BY <1>1, <1>2, ExternalRemove
<1>4. InternalAt(p, n) /\ internal'[p][n] = s /\ internal2'[p][n] \in {internal[p][n], internal2[p][n]}
  BY <1>2, InternalPut
<1>5. ShadowingAt(p, n) /\ HomeAt(p, n) /\ HistoryAt(p, n) BY <1>1, <1>2, StaysAt
<1>6. Touches(p, n) BY <1>2, <1>3, <1>4, <1>5 DEF Touches
<1>7. Present(p, n) = s BY <1>1, <1>2 DEF Present
<1>8. CellNames(p, n)'
  BY <1>1, <1>3, <1>4, Cell DEF CellNames, Buckets, n
<1>9. displaced' = displaced /\ doubled' = doubled /\ unshadowed' = unshadowed
  BY <1>2 DEF history
<1>10. n \notin displaced'[p] => Buckets(p, n)' \subseteq {s}
  BY <1>1, <1>3, <1>4, <1>7, <1>9, Agreed DEF Buckets
<1>11. n \notin displaced'[p] /\ n \notin doubled'[p] => CellSingle(p, n)'
  BY <1>1, <1>2, <1>3, <1>4, <1>9, Cell DEF CellSingle
<1>12. TablesInv'
  BY <1>2, <1>4, <1>6, <1>7, <1>8, <1>10, <1>11, CellAfterPut DEF registry
<1>13. Present(p, n)' # NULL BY <1>1, <1>4 DEF Present
<1>14. n \notin displaced[p] => Present(p, n)' = s
  <2>1. n \notin displaced[p] => external2[p][n] \in {NULL, s} BY <1>1, <1>7, Agreed
  <2>2. QED BY <1>3, <1>4, <2>1 DEF Present
<1>15. QED BY <1>2, <1>6, <1>7, <1>9, <1>12, <1>13, <1>14

(* unintern removes a bucket of a symbol and takes its home away.            *)
LEMMA UninternKeeps ==
  ASSUME TablesInv, NEW p \in Packages, NEW s \in Symbols, unintern_symbol(p, s)
  PROVE  /\ TablesInv' /\ Touches(p, NameOf[s]) /\ UNCHANGED <<shadowing, displaced>>
         /\ NameOf[s] \notin displaced[p] => Present(p, NameOf[s]) = s
         /\ shadowing[p][NameOf[s]] # NULL => NameOf[s] \in unshadowed'[p]
<1> DEFINE n == NameOf[s]
<1>1. n \in Names /\ s # NULL BY PackagesAssumption
<1>2. /\ p \in made /\ UNCHANGED <<registry, uses>>
      /\ UNCHANGED <<shadowing, doubled, displaced>>
      /\ s \in {internal[p][n], external[p][n]}
      /\ home' = IF home[s] = p THEN [home EXCEPT ![s] = NIL] ELSE home
      /\ IF internal[p][n] = s
           THEN TableRemove(internal, internal2, p, n) /\ UNCHANGED <<external, external2>>
           ELSE TableRemove(external, external2, p, n) /\ UNCHANGED <<internal, internal2>>
      /\ Note(unshadowed, p, n, shadowing[p][n] # NULL)
  BY DEF unintern_symbol, Designated
<1>3. HomeAt(p, n) /\ home'[s] # p /\ \A t \in Symbols : t # s => home'[t] = home[t]
  <2>1. CASE home[s] = p
    <3>1. home' = [home EXCEPT ![s] = NIL] BY <1>2, <2>1
    <3>2. HomeAt(p, n) /\ home'[s] = NIL /\ \A t \in Symbols : t # s => home'[t] = home[t]
      BY <3>1, HomeChange
    <3>3. QED BY <3>2, PackagesAssumption
  <2>2. CASE home[s] # p BY <1>1, <1>2, <2>2, StaysAt
  <2>3. QED BY <2>1, <2>2
<1>4. /\ InternalAt(p, n) /\ ExternalAt(p, n)
      /\ \/ /\ internal'[p][n] = internal2[p][n] /\ internal2'[p][n] = NULL
            /\ external'[p][n] = external[p][n] /\ external2'[p][n] = external2[p][n]
         \/ /\ external'[p][n] = external2[p][n] /\ external2'[p][n] = NULL
            /\ internal'[p][n] = internal[p][n] /\ internal2'[p][n] = internal2[p][n]
  <2>1. CASE internal[p][n] = s
    <3>1. TableRemove(internal, internal2, p, n) /\ UNCHANGED <<external, external2>>
      BY <1>2, <2>1
    <3>2. QED BY <1>1, <3>1, InternalRemove, StaysAt
  <2>2. CASE internal[p][n] # s
    <3>1. TableRemove(external, external2, p, n) /\ UNCHANGED <<internal, internal2>>
      BY <1>2, <2>2
    <3>2. QED BY <1>1, <3>1, ExternalRemove, StaysAt
  <2>3. QED BY <2>1, <2>2
<1>5. ShadowingAt(p, n) BY <1>1, <1>2, StaysAt
<1>6. HistoryAt(p, n) /\ (n \in unshadowed'[p] <=> n \in unshadowed[p] \/ shadowing[p][n] # NULL)
  BY <1>1, <1>2, StaysAt, HistoryNote DEF HistoryAt
<1>7. Touches(p, n) BY <1>2, <1>3, <1>4, <1>5, <1>6 DEF Touches
<1>8. CellNames(p, n)' BY <1>1, <1>4, Cell DEF CellNames, Buckets
<1>9. ASSUME n \notin displaced[p]
      PROVE  Present(p, n) = s /\ Buckets(p, n)' \subseteq {s} /\ CellAgrees(p, n)'
  <2>1. Present(p, n) = s BY <1>1, <1>2, <1>9, Agreed
  <2>2. Buckets(p, n)' \subseteq {s} BY <1>1, <1>4, <1>9, <2>1, Agreed DEF Buckets
  <2>3. \A t \in Symbols : home'[t] = p /\ NameOf[t] = n => FALSE
    BY <1>1, <1>3, <1>9, <2>1, Agreed
  <2>4. QED BY <2>1, <2>2, <2>3 DEF CellAgrees
<1>10. n \notin displaced[p] /\ n \notin doubled[p] => CellSingle(p, n)'
  BY <1>1, <1>4, Cell DEF CellSingle
<1>11. CellInv(p, n)' BY <1>2, <1>8, <1>9, <1>10 DEF CellInv, registry
<1>12. TablesInv' BY <1>1, <1>7, <1>11, CellChange
<1>13. QED BY <1>2, <1>6, <1>7, <1>9, <1>12

(* shadowing-import leaves the symbol internal; where it displaces none that *)
(* is at home or doubled, nothing but that symbol is left of the name.       *)
LEMMA ShadowingImportKeeps ==
  ASSUME TablesInv, NEW p \in Packages, NEW s \in Symbols, ShadowingImport(p, s)
  PROVE  /\ TablesInv' /\ Touches(p, NameOf[s]) /\ UNCHANGED <<home, doubled, unshadowed>>
         /\ shadowing'[p][NameOf[s]] = s /\ Present(p, NameOf[s])' # NULL
         /\ NameOf[s] \in displaced'[p] <=> NameOf[s] \in displaced[p] \/ Displaces(p, s)
         /\ NameOf[s] \notin displaced'[p] => Present(p, NameOf[s])' = s
<1> DEFINE n == NameOf[s]
<1>1. n \in Names /\ s # NULL BY PackagesAssumption
<1>2. /\ p \in made /\ UNCHANGED <<registry, uses>>
      /\ UNCHANGED <<home, doubled, unshadowed>>
      /\ internal' = [internal EXCEPT ![p][n] = s]
      /\ \E b \in {NULL, internal2[p][n]} : internal2' = [internal2 EXCEPT ![p][n] = b]
      /\ IF internal[p][n] # NULL THEN UNCHANGED <<external, external2>>
                                  ELSE TableRemove(external, external2, p, n)
      /\ shadowing' = [shadowing EXCEPT ![p][n] = s]
      /\ Note(displaced, p, n, Displaces(p, s))
  BY DEF ShadowingImport, Designated
<1>3. InternalAt(p, n) /\ internal'[p][n] = s /\ internal2'[p][n] \in {NULL, internal2[p][n]}
  <2>1. PICK b \in {NULL, internal2[p][n]} : internal2' = [internal2 EXCEPT ![p][n] = b]
    BY <1>2
  <2>2. b \in Symbols \cup {NULL} BY <1>1, Cell
  <2> HIDE DEF n
  <2>3. QED BY <1>1, <1>2, <2>1, <2>2 DEF TablesInv, TableTypes, Tables, InternalAt
<1>4. ShadowingAt(p, n) /\ shadowing'[p][n] = s
  <2> HIDE DEF n
  <2>1. QED BY <1>1, <1>2 DEF TablesInv, TableTypes, Tables, ShadowingAt
<1>5. /\ ExternalAt(p, n)
      /\ internal[p][n] # NULL =>
           external'[p][n] = external[p][n] /\ external2'[p][n] = external2[p][n]
      /\ internal[p][n] = NULL => external'[p][n] = external2[p][n] /\ external2'[p][n] = NULL
  <2>1. CASE internal[p][n] # NULL BY <1>1, <1>2, <2>1, StaysAt
  <2>2. CASE internal[p][n] = NULL BY <1>1, <1>2, <2>2, ExternalRemove
  <2>3. QED BY <2>1, <2>2
<1>6. HomeAt(p, n) BY <1>1, <1>2, StaysAt
<1>7. HistoryAt(p, n) /\ (n \in displaced'[p] <=> n \in displaced[p] \/ Displaces(p, s))
  BY <1>1, <1>2, StaysAt, HistoryNote DEF HistoryAt
<1>8. Touches(p, n) BY <1>2, <1>3, <1>4, <1>5, <1>6, <1>7 DEF Touches
<1>9. CellNames(p, n)'
  BY <1>1, <1>3, <1>5, Cell DEF CellNames, Buckets, n
<1>10. ASSUME n \notin displaced'[p]
       PROVE  /\ \/ Present(p, n) \in {s, NULL}
                 \/ CellSingle(p, n) /\ home[Present(p, n)] # p
              /\ external'[p][n] \in {s, NULL} /\ external2'[p][n] \in {s, NULL}
              /\ internal2'[p][n] \in {s, NULL}
  <2>1. n \notin displaced[p] /\ ~Displaces(p, s) BY <1>7, <1>10
  <2>2. Displaced(p, n) = Present(p, n)
    BY <1>1, <2>1, Agreed DEF Displaced, Present
  <2>3. CASE Present(p, n) \in {s, NULL} BY <1>1, <1>3, <1>5, <2>1, <2>3, Agreed
  <2>4. CASE Present(p, n) \notin {s, NULL}
    <3>1. home[Present(p, n)] # p /\ n \notin doubled[p] BY <2>1, <2>2, <2>4 DEF Displaces
    <3>2. CellSingle(p, n) BY <1>1, <2>1, <3>1, Cell
    <3>3. QED BY <1>3, <1>5, <3>1, <3>2 DEF CellSingle
  <2>5. QED BY <2>3, <2>4
<1>11. ASSUME n \notin displaced'[p] PROVE CellAgrees(p, n)'
  <2>1. n \notin displaced[p] BY <1>7, <1>11
  <2>2. \A t \in Symbols : home[t] = p /\ NameOf[t] = n => t = s
    BY <1>1, <1>10, <1>11, <2>1, Agreed, PackagesAssumption
  <2>3. Buckets(p, n)' \subseteq {s} BY <1>3, <1>10, <1>11 DEF Buckets
  <2>4. QED BY <1>2, <1>3, <2>2, <2>3 DEF CellAgrees
<1>12. ASSUME n \notin displaced'[p], n \notin doubled'[p] PROVE CellSingle(p, n)'
  <2>1. CellSingle(p, n) BY <1>1, <1>2, <1>7, <1>12, Cell
  <2>2. QED BY <1>3, <1>5, <2>1 DEF CellSingle
<1>13. CellInv(p, n)' BY <1>2, <1>9, <1>11, <1>12 DEF CellInv, registry
<1>14. TablesInv' BY <1>1, <1>8, <1>13, CellChange
<1>15. Present(p, n)' # NULL BY <1>1, <1>3 DEF Present
<1>16. n \notin displaced'[p] => Present(p, n)' = s BY <1>3, <1>10 DEF Present
<1>17. QED BY <1>2, <1>4, <1>7, <1>8, <1>14, <1>15, <1>16

(* A table that grows changes what a name means only where a displacement    *)
(* left two symbols of the name in it.                                       *)
LEMMA GrowKeeps ==
  ASSUME TablesInv, NEW p \in Packages, NEW n \in Names, grow(p, n)
  PROVE  /\ TablesInv' /\ Touches(p, n) /\ UNCHANGED <<shadowing, displaced, unshadowed>>
         /\ n \in displaced[p] /\ Present(p, n)' # NULL
<1>1. /\ p \in made /\ UNCHANGED <<registry, uses>>
      /\ UNCHANGED <<shadowing, home>> /\ UNCHANGED history
      /\ \/ /\ internal2[p][n] \notin {NULL, internal[p][n]}
            /\ internal' = [internal EXCEPT ![p][n] = internal2[p][n]]
            /\ internal2' = [internal2 EXCEPT ![p][n] = internal[p][n]]
            /\ UNCHANGED <<external, external2>>
         \/ /\ external2[p][n] \notin {NULL, external[p][n]}
            /\ external' = [external EXCEPT ![p][n] = external2[p][n]]
            /\ external2' = [external2 EXCEPT ![p][n] = external[p][n]]
            /\ UNCHANGED <<internal, internal2>>
  BY DEF grow, Designated
<1>2. n \in displaced[p]
  <2> SUFFICES ASSUME n \notin displaced[p] PROVE FALSE OBVIOUS
  <2>1. CellAgrees(p, n) /\ CellNames(p, n) BY Cell
  <2>2. QED BY <1>1, <2>1 DEF CellAgrees, CellNames, Buckets
<1>3. /\ internal[p][n] \in Symbols \cup {NULL} /\ internal2[p][n] \in Symbols \cup {NULL}
      /\ external[p][n] \in Symbols \cup {NULL} /\ external2[p][n] \in Symbols \cup {NULL}
  BY Cell
<1>4. /\ InternalAt(p, n) /\ ExternalAt(p, n)
      /\ \/ /\ internal'[p][n] = internal2[p][n] /\ internal2'[p][n] = internal[p][n]
            /\ external'[p][n] = external[p][n] /\ external2'[p][n] = external2[p][n]
            /\ internal2[p][n] # NULL
         \/ /\ external'[p][n] = external2[p][n] /\ external2'[p][n] = external[p][n]
            /\ internal'[p][n] = internal[p][n] /\ internal2'[p][n] = internal2[p][n]
            /\ external2[p][n] # NULL
  <2>1. CASE /\ internal2[p][n] \notin {NULL, internal[p][n]}
             /\ internal' = [internal EXCEPT ![p][n] = internal2[p][n]]
             /\ internal2' = [internal2 EXCEPT ![p][n] = internal[p][n]]
             /\ UNCHANGED <<external, external2>>
    <3>1. InternalAt(p, n) BY <1>3, <2>1 DEF TablesInv, TableTypes, Tables, InternalAt
    <3>2. internal'[p][n] = internal2[p][n] /\ internal2'[p][n] = internal[p][n]
      BY <2>1 DEF TablesInv, TableTypes, Tables
    <3>3. QED BY <2>1, <3>1, <3>2, StaysAt
  <2>2. CASE /\ external2[p][n] \notin {NULL, external[p][n]}
             /\ external' = [external EXCEPT ![p][n] = external2[p][n]]
             /\ external2' = [external2 EXCEPT ![p][n] = external[p][n]]
             /\ UNCHANGED <<internal, internal2>>
    <3>1. ExternalAt(p, n) BY <1>3, <2>2 DEF TablesInv, TableTypes, Tables, ExternalAt
    <3>2. external'[p][n] = external2[p][n] /\ external2'[p][n] = external[p][n]
      BY <2>2 DEF TablesInv, TableTypes, Tables
    <3>3. QED BY <2>2, <3>1, <3>2, StaysAt
  <2>3. QED BY <1>1, <2>1, <2>2
<1>5. ShadowingAt(p, n) /\ HomeAt(p, n) /\ HistoryAt(p, n) BY <1>1, StaysAt
<1>6. Touches(p, n) BY <1>1, <1>4, <1>5 DEF Touches
<1>7. displaced' = displaced /\ unshadowed' = unshadowed /\ made' = made
  BY <1>1 DEF history, registry
<1>8. CellNames(p, n)'
  <2>1. CellNames(p, n) BY Cell
  <2>2. Buckets(p, n)' = Buckets(p, n) BY <1>4 DEF Buckets
  <2>3. QED BY <1>4, <2>1, <2>2 DEF CellNames
<1>9. CellInv(p, n)' BY <1>1, <1>2, <1>7, <1>8 DEF CellInv
<1>10. TablesInv' BY <1>6, <1>9, CellChange
<1>11. Present(p, n)' # NULL BY <1>4 DEF Present
<1>12. QED BY <1>1, <1>2, <1>6, <1>7, <1>10, <1>11

(* shadow of a name that is present.                                         *)
LEMMA ShadowPresent ==
  ASSUME TablesInv, NEW p \in Packages, NEW n \in Names, shadow_present(p, n)
  PROVE  /\ TablesInv' /\ Touches(p, n) /\ UNCHANGED history
         /\ \A q \in Packages, m \in Names : Present(q, m)' = Present(q, m)
         /\ shadowing'[p][n] = Present(p, n) /\ Present(p, n) # NULL
<1>1. /\ p \in made /\ UNCHANGED <<registry, uses>> /\ UNCHANGED history
      /\ UNCHANGED <<internal, internal2, external, external2, home>>
      /\ shadowing' = [shadowing EXCEPT ![p][n] = Present(p, n)] /\ Present(p, n) # NULL
  BY DEF shadow_present, Designated
<1>2. Present(p, n) \in Symbols \cup {NULL} BY Cell DEF Present
<1>3. ShadowingAt(p, n) /\ shadowing'[p][n] = Present(p, n)
  BY <1>1, <1>2 DEF TablesInv, TableTypes, Tables, ShadowingAt
<1>4. InternalAt(p, n) /\ ExternalAt(p, n) /\ HomeAt(p, n) /\ HistoryAt(p, n)
  BY <1>1, StaysAt
<1>5. Touches(p, n) BY <1>1, <1>3, <1>4 DEF Touches
<1>6. /\ CellNames(p, n)' <=> CellNames(p, n)
      /\ CellAgrees(p, n)' <=> CellAgrees(p, n)
      /\ CellSingle(p, n)' <=> CellSingle(p, n)
      /\ doubled' = doubled /\ displaced' = displaced /\ made' = made
  BY <1>1 DEF CellNames, CellAgrees, CellSingle, Buckets, history, registry
<1>7. CellInv(p, n)' BY <1>1, <1>6, Cell DEF CellInv
<1>8. TablesInv' BY <1>5, <1>7, CellChange
<1>9. \A q \in Packages, m \in Names : Present(q, m)' = Present(q, m) BY <1>1 DEF Present
<1>10. QED BY <1>1, <1>3, <1>5, <1>8, <1>9

(* delete-package empties the tables of one package ...                      *)
LEMMA DeleteEmpties ==
  ASSUME TablesInv, NEW p \in Packages, delete_package(p)
  PROVE  /\ internal' \in [Packages -> Tables] /\ internal2' \in [Packages -> Tables]
         /\ external' \in [Packages -> Tables] /\ external2' \in [Packages -> Tables]
         /\ \A q \in Packages, m \in Names :
              /\ internal'[q][m] = IF q = p THEN NULL ELSE internal[q][m]
              /\ internal2'[q][m] = IF q = p THEN NULL ELSE internal2[q][m]
              /\ external'[q][m] = IF q = p THEN NULL ELSE external[q][m]
              /\ external2'[q][m] = IF q = p THEN NULL ELSE external2[q][m]
              /\ q # p => Present(q, m)' = Present(q, m)
         /\ p \in made /\ made' = made /\ UNCHANGED shadowing /\ UNCHANGED history
<1>1. /\ internal' = [internal EXCEPT ![p] = [n \in Names |-> NULL]]
      /\ internal2' = [internal2 EXCEPT ![p] = [n \in Names |-> NULL]]
      /\ external' = [external EXCEPT ![p] = [n \in Names |-> NULL]]
      /\ external2' = [external2 EXCEPT ![p] = [n \in Names |-> NULL]]
      /\ p \in made /\ made' = made /\ UNCHANGED shadowing /\ UNCHANGED history
  BY DEF delete_package, Designated
<1>2. /\ internal' \in [Packages -> Tables] /\ internal2' \in [Packages -> Tables]
      /\ external' \in [Packages -> Tables] /\ external2' \in [Packages -> Tables]
  BY <1>1 DEF TablesInv, TableTypes, Tables
<1>3. \A q \in Packages, m \in Names :
        /\ internal'[q][m] = IF q = p THEN NULL ELSE internal[q][m]
        /\ internal2'[q][m] = IF q = p THEN NULL ELSE internal2[q][m]
        /\ external'[q][m] = IF q = p THEN NULL ELSE external[q][m]
        /\ external2'[q][m] = IF q = p THEN NULL ELSE external2[q][m]
  BY <1>1 DEF TablesInv, TableTypes, Tables
<1>4. QED BY <1>1, <1>2, <1>3 DEF Present

(* ... and takes its home away from every symbol that is in one of them.     *)
LEMMA DeleteKeepsTables ==
  ASSUME TablesInv, NEW p \in Packages, delete_package(p)
  PROVE  TablesInv'
<1>1. home' = [s \in Symbols |->
                 IF home[s] = p /\ s \in Buckets(p, NameOf[s]) THEN NIL ELSE home[s]]
  BY DEF delete_package
<1>2. /\ home' \in [Symbols -> Packages \cup {NIL, NULL}]
      /\ \A t \in Symbols : home'[t] \in Packages => home'[t] = home[t]
      /\ \A t \in Symbols : home'[t] = p => t \notin Buckets(p, NameOf[t])
  BY <1>1, PackagesAssumption DEF TablesInv, TableTypes
<1>3. TableTypes'
  BY <1>2, DeleteEmpties DEF TablesInv, TableTypes, history
<1>4. ASSUME NEW q \in Packages, NEW m \in Names PROVE CellInv(q, m)'
  <2>1. CellInv(q, m) BY DEF TablesInv
  <2>2. CASE q = p
    <3>1. Buckets(q, m)' = {} BY <2>2, DeleteEmpties DEF Buckets
    <3>2. CellNames(q, m)' /\ CellSingle(q, m)'
      BY <2>2, <3>1, DeleteEmpties DEF CellNames, CellSingle
    <3>3. ASSUME m \notin displaced[p] PROVE CellAgrees(q, m)'
      <4>1. \A t \in Symbols : home'[t] = p /\ NameOf[t] = m => FALSE
        BY <1>2, <3>3, Cell, PackagesAssumption DEF CellAgrees, Buckets
      <4>2. QED BY <2>2, <3>1, <4>1 DEF CellAgrees
    <3>4. q \in made' /\ displaced' = displaced BY <2>2, DeleteEmpties DEF history
    <3>5. QED BY <2>2, <3>2, <3>3, <3>4 DEF CellInv
  <2>3. CASE q # p
    <3>1. /\ internal'[q][m] = internal[q][m] /\ internal2'[q][m] = internal2[q][m]
          /\ external'[q][m] = external[q][m] /\ external2'[q][m] = external2[q][m]
          /\ shadowing' = shadowing /\ doubled' = doubled /\ displaced' = displaced
          /\ made' = made
      BY <2>3, DeleteEmpties DEF history
    <3>2. Buckets(q, m)' = Buckets(q, m) BY <3>1 DEF Buckets
    <3>3. CellAgrees(q, m) => CellAgrees(q, m)' BY <1>2, <3>1, <3>2 DEF CellAgrees
    <3>4. QED BY <2>1, <3>1, <3>2, <3>3 DEF CellInv, CellNames, CellSingle, CellEmpty
  <2>4. QED BY <2>2, <2>3
<1>5. QED BY <1>3, <1>4 DEF TablesInv

(* make-symbol: the new symbol is at home nowhere.                           *)
LEMMA MakeSymbolKeeps ==
  ASSUME TablesInv, NEW s \in Symbols, make_symbol(s)
  PROVE  TablesInv'
<1>1. /\ home' = [home EXCEPT ![s] = NIL] /\ made' = made
      /\ UNCHANGED <<internal, internal2, external, external2, shadowing>>
      /\ UNCHANGED <<doubled, displaced, unshadowed>>
  BY DEF make_symbol, tables, history, registry
<1>2. \A t \in Symbols : home'[t] \in Packages => home'[t] = home[t]
  BY <1>1, PackagesAssumption DEF TablesInv, TableTypes
<1>3. TableTypes' BY <1>1 DEF TablesInv, TableTypes
<1>4. ASSUME NEW q \in Packages, NEW m \in Names PROVE CellInv(q, m)'
  <2>1. CellInv(q, m) BY DEF TablesInv
  <2>2. Buckets(q, m)' = Buckets(q, m) BY <1>1 DEF Buckets
  <2>3. CellAgrees(q, m) => CellAgrees(q, m)' BY <1>1, <1>2, <2>2 DEF CellAgrees
  <2>4. QED BY <1>1, <2>1, <2>2, <2>3 DEF CellInv, CellNames, CellSingle, CellEmpty
<1>5. QED BY <1>3, <1>4 DEF TablesInv

(* The operations on symbols, one of %defpackage included.                   *)
LEMMA TablesStepKeeps ==
  ASSUME TablesInv, [Next]_vars \/ \E p \in Packages, s \in Symbols : ExportsNew(p, s)
  PROVE  TablesInv'
<1>1. CASE UNCHANGED vars BY <1>1, TablesUnchanged DEF vars, registry
<1>2. ASSUME NEW p \in Packages, RegistryStep(p) PROVE TablesInv'
  <2>1. ASSUME NEW n \in PackageNames, NEW nicks \in NicknameSets,
               \/ \E use \in UseArguments : make_package(p, n, nicks, use)
               \/ rename_package(p, n, nicks)
        PROVE  TablesInv'
    BY <2>1, TablesUnchanged DEF make_package, rename_package
  <2>2. CASE delete_package(p) BY <2>2, DeleteKeepsTables
  <2>3. QED BY <1>2, <2>1, <2>2 DEF RegistryStep
<1>3. ASSUME NEW p \in Packages, UseStep(p) PROVE TablesInv'
  BY <1>3, TablesUnchanged DEF UseStep, use_package, unuse_package, registry
<1>4. ASSUME NEW p \in Packages, NEW s \in Symbols,
             intern(p, s) \/ shadow_new(p, s) \/ ExportsNew(p, s)
      PROVE  TablesInv'
  BY <1>4, NewSymbolKeeps
<1>5. ASSUME NEW p \in Packages, NEW s \in Symbols,
             import_symbol(p, s) \/ export_symbol(p, s) \/ unexport_symbol(p, s)
      PROVE  TablesInv'
  BY <1>5, ImportKeeps, ExportKeeps, UnexportKeeps
<1>6. ASSUME NEW p \in Packages, NEW s \in Symbols,
             unintern_symbol(p, s) \/ shadowing_import(p, s)
      PROVE  TablesInv'
  BY <1>6, UninternKeeps, ShadowingImportKeeps DEF shadowing_import
<1>7. ASSUME NEW p \in Packages, NEW n \in Names, shadow_present(p, n) \/ grow(p, n)
      PROVE  TablesInv'
  BY <1>7, ShadowPresent, GrowKeeps
<1>8. ASSUME NEW p \in Packages, SymbolStep(p) PROVE TablesInv'
  BY <1>4, <1>5, <1>6, <1>7, <1>8, Zenon DEF SymbolStep
<1>9. ASSUME NEW s \in Symbols, make_symbol(s) PROVE TablesInv' BY <1>9, MakeSymbolKeeps
<1>10. QED BY <1>1, <1>2, <1>3, <1>4, <1>8, <1>9 DEF Next

(* The invariant is about more than the two properties.                      *)
LEMMA TablesInOrder == TablesInv => HomeIsPresent /\ InternalExternalDisjoint
<1> SUFFICES ASSUME TablesInv PROVE HomeIsPresent /\ InternalExternalDisjoint OBVIOUS
<1>1. HomeIsPresent BY Cell, PackagesAssumption DEF HomeIsPresent, CellAgrees
<1>2. InternalExternalDisjoint BY Cell DEF InternalExternalDisjoint, CellSingle
<1>3. QED BY <1>1, <1>2

(* A symbol is present in its home package, as export_symbol() takes for     *)
(* granted, unless shadowing_import() displaced a symbol of its name there,  *)
(* whatever the program does.                                                *)
THEOREM HomePresent == Spec => []HomeIsPresent
<1>1. TablesInv /\ [Next]_vars => TablesInv' BY TablesStepKeeps
<1>2. QED BY <1>1, TablesInit, TablesInOrder, PTL DEF Spec

(* A name is never both internal and external in a package, as               *)
(* add_external_symbol() asserts, unless the package was made to put a       *)
(* symbol of the name that it had, or one was displaced, whatever the        *)
(* program does.                                                             *)
THEOREM TablesDisjoint == Spec => []InternalExternalDisjoint
<1>1. TablesInv /\ [Next]_vars => TablesInv' BY TablesStepKeeps
<1>2. QED BY <1>1, TablesInit, TablesInOrder, PTL DEF Spec

------------------------------------------------------------------------------
(* Use lists.                                                                *)

(* The sequence of the packages to use is turned round by %make-package.     *)
LEMMA ReversedList ==
  ASSUME NEW S, NEW u \in Seq(S), IsInjective(u)
  PROVE  /\ Reverse(u) \in Seq(S) /\ IsInjective(Reverse(u))
         /\ \A q : Contains(Reverse(u), q) <=> \E i \in DOMAIN u : u[i] = q
<1> DEFINE r == Reverse(u)
<1>1. r \in Seq(S) /\ Len(r) = Len(u) /\ \A i \in 1 .. Len(u) : r[i] = u[(Len(u) - i) + 1]
  BY DEF Reverse
<1>2. \A i \in 1 .. Len(u) : (Len(u) - i) + 1 \in 1 .. Len(u) /\ u[i] = r[(Len(u) - i) + 1]
  <2> TAKE i \in 1 .. Len(u)
  <2>1. Len(u) \in Nat OBVIOUS
  <2>2. (Len(u) - i) + 1 \in 1 .. Len(u) /\ (Len(u) - ((Len(u) - i) + 1)) + 1 = i BY <2>1
  <2> HIDE DEF r
  <2>3. r[(Len(u) - i) + 1] = u[(Len(u) - ((Len(u) - i) + 1)) + 1] BY <1>1, <2>2
  <2>4. QED BY <2>2, <2>3
<1> HIDE DEF r
<1>3. IsInjective(r)
  <2> SUFFICES ASSUME NEW i \in DOMAIN r, NEW k \in DOMAIN r, r[i] = r[k] PROVE i = k
    BY DEF IsInjective
  <2>1. i \in 1 .. Len(u) /\ k \in 1 .. Len(u) /\ Len(u) \in Nat BY <1>1
  <2>2. u[(Len(u) - i) + 1] = u[(Len(u) - k) + 1] BY <1>1, <2>1
  <2>3. (Len(u) - i) + 1 = (Len(u) - k) + 1 BY <1>2, <2>1, <2>2 DEF IsInjective
  <2>4. QED BY <2>1, <2>3
<1>4. ASSUME NEW q PROVE Contains(r, q) <=> \E i \in DOMAIN u : u[i] = q
  <2>1. DOMAIN u = 1 .. Len(u) OBVIOUS
  <2>2. ASSUME NEW i \in 1 .. Len(u) PROVE u[(Len(u) - i) + 1] = q => \E k \in DOMAIN u : u[k] = q
    BY <1>2, <2>1
  <2>3. ASSUME Contains(r, q) PROVE \E k \in DOMAIN u : u[k] = q
    <3>1. PICK i \in 1 .. Len(r) : r[i] = q BY <2>3 DEF Contains
    <3>2. QED BY <1>1, <2>2, <3>1
  <2>4. ASSUME NEW i \in DOMAIN u, u[i] = q PROVE Contains(r, q)
    <3>1. r[(Len(u) - i) + 1] = q /\ (Len(u) - i) + 1 \in 1 .. Len(r) BY <1>1, <1>2, <2>1, <2>4
    <3> HIDE DEF r
    <3>2. QED BY <3>1 DEF Contains
  <2>5. QED BY <2>3, <2>4
<1>5. QED BY <1>1, <1>3, <1>4 DEF r

(* use_package() puts a package that is not on the list in front of it.      *)
LEMMA LongerList ==
  ASSUME NEW S, NEW u \in Seq(S), IsInjective(u), NEW e \in S, ~Contains(u, e)
  PROVE  /\ <<e>> \o u \in Seq(S) /\ IsInjective(<<e>> \o u)
         /\ \A q : Contains(<<e>> \o u, q) <=> Contains(u, q) \/ q = e
<1> DEFINE r == <<e>> \o u
<1>1. r \in Seq(S) /\ Len(r) = Len(u) + 1 /\ \A i \in 1 .. Len(r) : r[i] = IF i = 1 THEN e ELSE u[i - 1]
  OBVIOUS
<1>2. \A i \in 1 .. Len(u) : i + 1 \in 1 .. Len(r) /\ u[i] = r[i + 1]
  BY <1>1
<1> HIDE DEF r
<1>3. IsInjective(r)
  <2> SUFFICES ASSUME NEW i \in DOMAIN r, NEW k \in DOMAIN r, r[i] = r[k] PROVE i = k
    BY DEF IsInjective
  <2>1. i \in 1 .. Len(u) + 1 /\ k \in 1 .. Len(u) + 1 /\ Len(u) \in Nat BY <1>1
  <2>2. \A j \in 1 .. Len(u) : u[j] # e BY DEF Contains
  <2>3. CASE i = 1 BY <1>1, <2>1, <2>2, <2>3
  <2>4. CASE k = 1 BY <1>1, <2>1, <2>2, <2>4
  <2>5. CASE i # 1 /\ k # 1
    <3>1. i - 1 \in DOMAIN u /\ k - 1 \in DOMAIN u /\ u[i - 1] = u[k - 1] BY <1>1, <2>1, <2>5
    <3>2. i - 1 = k - 1 BY <3>1 DEF IsInjective
    <3>3. QED BY <2>1, <3>2
  <2>6. QED BY <2>3, <2>4, <2>5
<1>4. ASSUME NEW q PROVE Contains(r, q) <=> Contains(u, q) \/ q = e
  <2>0. Len(u) \in Nat OBVIOUS
  <2>1. ASSUME Contains(r, q) PROVE Contains(u, q) \/ q = e
    <3>1. PICK i \in 1 .. Len(r) : r[i] = q BY <2>1 DEF Contains
    <3>2. i = 1 \/ i - 1 \in 1 .. Len(u) BY <1>1, <2>0
    <3>3. QED BY <1>1, <3>1, <3>2 DEF Contains
  <2>2. ASSUME Contains(u, q) PROVE Contains(r, q) BY <1>2, <2>2 DEF Contains
  <2>3. r[1] = e /\ 1 \in 1 .. Len(r) BY <1>1, <2>0
  <2>4. QED BY <2>1, <2>2, <2>3 DEF Contains
<1>5. QED BY <1>1, <1>3, <1>4 DEF r

(* unuse_package() takes a package off the list, on which it is once.        *)
LEMMA ShorterList ==
  ASSUME NEW S, NEW u \in Seq(S), IsInjective(u), NEW e, Contains(u, e)
  PROVE  /\ RemoveFirst(u, e) \in Seq(S) /\ IsInjective(RemoveFirst(u, e))
         /\ \A q : Contains(RemoveFirst(u, e), q) <=> Contains(u, q) /\ q # e
<1> DEFINE r == RemoveFirst(u, e)
<1>1. PICK j \in 1 .. Len(u) : u[j] = e BY DEF Contains
<1>2. {i \in 1 .. Len(u) : u[i] = e} = {j} BY <1>1 DEF IsInjective
<1>3. Min({j}) = j BY <1>1 DEF Min
<1>4. RemoveFirst(u, e) = RemoveAt(u, j)
  <2>1. RemoveFirst(u, e) = RemoveAt(u, Min({i \in 1 .. Len(u) : u[i] = e}))
    BY <1>1, <1>2 DEF RemoveFirst, SelectInSeq
  <2>2. QED BY <2>1, <1>2, <1>3
<1>5. Len(u) \in Nat /\ DOMAIN u = 1 .. Len(u) OBVIOUS
<1>6. /\ r \in Seq(S) /\ Len(r) = Len(u) - 1
      /\ \A i \in 1 .. Len(r) : r[i] = IF i < j THEN u[i] ELSE u[i + 1]
  <2> DEFINE a == SubSeq(u, 1, j - 1)
             b == SubSeq(u, j + 1, Len(u))
  <2>1. /\ a \in Seq(S) /\ Len(a) = j - 1
        /\ \A i \in 1 .. j - 1 : a[i] = u[i]
    <3>1. j - 1 \in Int /\ j - 1 <= Len(u) /\ j - 1 >= 0 BY <1>1, <1>5
    <3>2. QED BY <1>5, <3>1, SubSeqProperties
  <2>2. /\ b \in Seq(S) /\ Len(b) = Len(u) - j
        /\ \A i \in 1 .. Len(u) - j : b[i] = u[i + j]
    <3>1. /\ j + 1 \in Int /\ Len(u) \in Int /\ j \in 1 .. Len(u)
          /\ \A i \in j + 1 .. Len(u) : u[i] \in S
      BY <1>1, <1>5
    <3>2. /\ b \in Seq(S)
          /\ Len(b) = IF j + 1 <= Len(u) THEN Len(u) - (j + 1) + 1 ELSE 0
          /\ \A i \in 1 .. Len(u) - (j + 1) + 1 : b[i] = u[(j + 1) + i - 1]
      BY <3>1, SubSeqProperties
    <3> HIDE DEF b
    <3>3. Len(b) = Len(u) - j
      <4>1. CASE j + 1 <= Len(u) BY <3>1, <3>2, <4>1
      <4>2. CASE ~(j + 1 <= Len(u))
        <5>1. j = Len(u) BY <3>1, <4>2
        <5>2. Len(b) = 0 BY <3>2, <4>2
        <5>3. QED BY <3>1, <5>1, <5>2
      <4>3. QED BY <4>1, <4>2
    <3>4. ASSUME NEW i \in 1 .. Len(u) - j PROVE b[i] = u[i + j]
      <4>1. i \in 1 .. Len(u) - (j + 1) + 1 /\ (j + 1) + i - 1 = i + j BY <1>5, <3>1
      <4>2. QED BY <3>2, <4>1
    <3>5. QED BY <3>2, <3>3, <3>4
  <2>3. r = a \o b BY <1>4 DEF RemoveAt
  <2> HIDE DEF a, b, r
  <2>4. /\ r \in Seq(S) /\ Len(r) = Len(u) - 1
        /\ \A i \in 1 .. Len(r) : r[i] = IF i <= j - 1 THEN a[i] ELSE b[i - (j - 1)]
    <3>1. /\ r \in Seq(S) /\ Len(r) = Len(a) + Len(b)
          /\ \A i \in 1 .. Len(a) + Len(b) : r[i] = IF i <= Len(a) THEN a[i] ELSE b[i - Len(a)]
      BY <2>1, <2>2, <2>3, ConcatProperties
    <3>2. Len(r) = Len(u) - 1 /\ Len(a) + Len(b) = Len(u) - 1 BY <1>1, <1>5, <2>1, <2>2, <3>1
    <3>3. QED BY <2>1, <3>1, <3>2
  <2>5. ASSUME NEW i \in 1 .. Len(r), ~(i < j) PROVE r[i] = u[i + 1]
    <3>1. i - (j - 1) \in 1 .. Len(u) - j /\ i - (j - 1) + j = i + 1 /\ ~(i <= j - 1)
      BY <1>1, <1>5, <2>4, <2>5
    <3>2. b[i - (j - 1)] = u[i - (j - 1) + j] BY <2>2, <3>1
    <3>3. QED BY <2>4, <3>1, <3>2
  <2>6. ASSUME NEW i \in 1 .. Len(r), i < j PROVE r[i] = u[i]
    BY <1>1, <1>5, <2>1, <2>4, <2>6
  <2>7. QED BY <2>4, <2>5, <2>6
<1> HIDE DEF r
<1>7. IsInjective(r)
  <2> SUFFICES ASSUME NEW i \in DOMAIN r, NEW k \in DOMAIN r, r[i] = r[k] PROVE i = k
    BY DEF IsInjective
  <2>1. i \in 1 .. Len(u) - 1 /\ k \in 1 .. Len(u) - 1 BY <1>6
  <2> DEFINE a == IF i < j THEN i ELSE i + 1
             b == IF k < j THEN k ELSE k + 1
  <2>2. a \in DOMAIN u /\ b \in DOMAIN u /\ u[a] = u[b] BY <1>5, <1>6, <2>1, SMTT(30)
  <2>3. a = b BY <2>2 DEF IsInjective
  <2>4. QED BY <1>1, <1>5, <2>1, <2>3
<1>8. ASSUME NEW q PROVE Contains(r, q) <=> Contains(u, q) /\ q # e
  <2>1. ASSUME Contains(r, q) PROVE Contains(u, q) /\ q # e
    <3>1. PICK i \in 1 .. Len(r) : r[i] = q BY <2>1 DEF Contains
    <3> DEFINE a == IF i < j THEN i ELSE i + 1
    <3>2. a \in 1 .. Len(u) /\ a # j /\ u[a] = q BY <1>1, <1>5, <1>6, <3>1
    <3>3. QED BY <1>1, <1>5, <3>2 DEF Contains, IsInjective
  <2>2. ASSUME Contains(u, q), q # e PROVE Contains(r, q)
    <3>1. PICK i \in 1 .. Len(u) : u[i] = q BY <2>2 DEF Contains
    <3>2. i # j BY <1>1, <2>2, <3>1
    <3> DEFINE a == IF i < j THEN i ELSE i - 1
    <3>3. a \in 1 .. Len(r) /\ r[a] = q BY <1>1, <1>5, <1>6, <3>1, <3>2
    <3>4. QED BY <3>3 DEF Contains
  <2>3. QED BY <2>1, <2>2
<1>9. QED BY <1>6, <1>7, <1>8 DEF r

(* Only packages that exist are used; an object of the pool that is not a    *)
(* package yet uses none.                                                    *)
UsesInv ==
  /\ made \subseteq Packages
  /\ use_list \in [Packages -> Seq(made)]
  /\ used_by \in [Packages -> SUBSET Packages]
  /\ \A p \in Packages \ made : use_list[p] = << >>
  /\ UseSymmetric

(* At startup no package uses another.                                       *)
LEMMA UsesInit == Init => UsesInv
BY DEF Init, UsesInv, UseSymmetric, Contains, IsInjective

(* The names of packages and the tables of symbols play no part.             *)
LEMMA UsesUnchanged == UsesInv /\ UNCHANGED <<made, uses>> => UsesInv'
BY DEF UsesInv, UseSymmetric, uses

(* A package gets a new use list, and joins and leaves the used-by lists     *)
(* that this list asks for.                                                  *)
LEMMA NewUseList ==
  ASSUME UsesInv, NEW p \in Packages, NEW u,
         made' \subseteq Packages, made \subseteq made', p \in made',
         u \in Seq(made'), IsInjective(u),
         use_list' = [use_list EXCEPT ![p] = u],
         used_by' \in [Packages -> SUBSET Packages],
         \A q \in Packages : p \in used_by'[q] <=> Contains(u, q),
         \A q, r \in Packages : r # p => (r \in used_by'[q] <=> r \in used_by[q])
  PROVE  UsesInv'
<1>1. \A r \in Packages : use_list'[r] = IF r = p THEN u ELSE use_list[r]
  BY DEF UsesInv
<1>2. use_list' \in [Packages -> Seq(made')]
  <2>1. \A r \in Packages : use_list[r] \in Seq(made) BY DEF UsesInv
  <2>2. \A r \in Packages : use_list[r] \in Seq(made')
    <3> SUFFICES ASSUME NEW r \in Packages PROVE use_list[r] \in Seq(made') OBVIOUS
    <3>1. use_list[r] \in Seq(made) BY <2>1
    <3>2. QED BY <3>1
  <2>3. DOMAIN use_list = Packages BY DEF UsesInv
  <2>4. QED BY <1>1, <2>2, <2>3
<1>3. \A r \in Packages \ made' : use_list'[r] = << >> BY <1>1 DEF UsesInv
<1>4. ASSUME NEW r \in Packages
      PROVE  /\ IsInjective(use_list'[r])
             /\ \A q \in Packages : Contains(use_list'[r], q) <=> r \in used_by'[q]
  <2>1. CASE r = p BY <1>1, <2>1
  <2>2. CASE r # p
    <3>1. use_list'[r] = use_list[r] BY <1>1, <2>2
    <3>2. QED BY <2>2, <3>1 DEF UsesInv, UseSymmetric
  <2>3. QED BY <2>1, <2>2
<1>5. QED BY <1>2, <1>3, <1>4 DEF UsesInv, UseSymmetric

(* %make-package: the new package joins the used-by lists of the packages    *)
(* that it uses.                                                             *)
LEMMA MakeKeepsUses ==
  ASSUME UsesInv, NEW p \in Packages, NEW n, NEW nicks, NEW use \in UseArguments,
         make_package(p, n, nicks, use)
  PROVE  UsesInv'
<1>1. /\ p \notin made /\ made' = made \cup {p}
      /\ use_list' = [use_list EXCEPT ![p] = Reverse(use)]
      /\ used_by' = [q \in Packages |->
                       IF \E i \in DOMAIN use : use[i] = q THEN used_by[q] \cup {p}
                                                           ELSE used_by[q]]
  BY DEF make_package
<1>2. use \in Seq(made) /\ IsInjective(use)
  <2>1. PICK m \in 0 .. MaxUse : use \in [1 .. m -> made] BY DEF UseArguments, SeqOf
  <2>2. m \in Nat BY PackagesAssumption
  <2>3. QED BY <2>1, <2>2 DEF UseArguments, IsInjective
<1>3. /\ Reverse(use) \in Seq(made) /\ IsInjective(Reverse(use))
      /\ \A q : Contains(Reverse(use), q) <=> \E i \in DOMAIN use : use[i] = q
  BY <1>2, ReversedList
<1>4. use_list[p] = << >> BY <1>1 DEF UsesInv
<1>5. \A q \in Packages : p \notin used_by[q]
  BY <1>4 DEF UsesInv, UseSymmetric, Contains
<1> DEFINE u == Reverse(use)
<1>6. u \in Seq(made') BY <1>1, <1>3
<1>7. used_by' \in [Packages -> SUBSET Packages] BY <1>1 DEF UsesInv
<1>8. \A q \in Packages : p \in used_by'[q] <=> Contains(u, q) BY <1>1, <1>3, <1>5
<1>9. \A q, r \in Packages : r # p => (r \in used_by'[q] <=> r \in used_by[q]) BY <1>1
<1>10. made' \subseteq Packages /\ made \subseteq made' /\ p \in made' BY <1>1 DEF UsesInv
<1>11. use_list' = [use_list EXCEPT ![p] = u] /\ IsInjective(u) BY <1>1, <1>3
<1> HIDE DEF u
<1>12. QED BY <1>6, <1>7, <1>8, <1>9, <1>10, <1>11, NewUseList

(* use-package: one more package on the list, one more package on its        *)
(* used-by list.                                                             *)
LEMMA UseKeepsUses ==
  ASSUME UsesInv, NEW p \in Packages, NEW q \in made, use_package(p, q)
  PROVE  UsesInv'
<1>1. /\ p \in made /\ q \in Packages /\ made' = made /\ ~Contains(use_list[p], q)
      /\ use_list' = [use_list EXCEPT ![p] = <<q>> \o use_list[p]]
      /\ used_by' = [used_by EXCEPT ![q] = used_by[q] \cup {p}]
  BY DEF use_package, Designated, registry, UsesInv
<1>2. use_list[p] \in Seq(made) /\ IsInjective(use_list[p]) BY DEF UsesInv, UseSymmetric
<1> DEFINE u == <<q>> \o use_list[p]
<1>3. /\ u \in Seq(made) /\ IsInjective(u)
      /\ \A r : Contains(u, r) <=> Contains(use_list[p], r) \/ r = q
  BY <1>1, <1>2, LongerList
<1>4. use_list' = [use_list EXCEPT ![p] = u] BY <1>1
<1> HIDE DEF u
<1>5. used_by' \in [Packages -> SUBSET Packages] BY <1>1 DEF UsesInv
<1>6. \A r \in Packages : p \in used_by'[r] <=> Contains(u, r)
  BY <1>1, <1>3 DEF UsesInv, UseSymmetric
<1>7. \A r, t \in Packages : t # p => (t \in used_by'[r] <=> t \in used_by[r])
  BY <1>1 DEF UsesInv
<1>8. made' \subseteq Packages /\ made \subseteq made' /\ p \in made' BY <1>1 DEF UsesInv
<1>9. QED BY <1>1, <1>3, <1>4, <1>5, <1>6, <1>7, <1>8, NewUseList

(* unuse-package takes both entries away.                                    *)
LEMMA UnuseKeepsUses ==
  ASSUME UsesInv, NEW p \in Packages, NEW q \in made, unuse_package(p, q)
  PROVE  UsesInv'
<1>1. /\ p \in made /\ q \in Packages /\ made' = made /\ Contains(use_list[p], q)
      /\ use_list' = [use_list EXCEPT ![p] = RemoveFirst(use_list[p], q)]
      /\ used_by' = [used_by EXCEPT ![q] = used_by[q] \ {p}]
  BY DEF unuse_package, Designated, registry, UsesInv
<1>2. use_list[p] \in Seq(made) /\ IsInjective(use_list[p]) BY DEF UsesInv, UseSymmetric
<1> DEFINE u == RemoveFirst(use_list[p], q)
<1>3. /\ u \in Seq(made) /\ IsInjective(u)
      /\ \A r : Contains(u, r) <=> Contains(use_list[p], r) /\ r # q
  BY <1>1, <1>2, ShorterList
<1>4. use_list' = [use_list EXCEPT ![p] = u] BY <1>1
<1> HIDE DEF u
<1>5. used_by' \in [Packages -> SUBSET Packages] BY <1>1 DEF UsesInv
<1>6. \A r \in Packages : p \in used_by'[r] <=> Contains(u, r)
  BY <1>1, <1>3 DEF UsesInv, UseSymmetric
<1>7. \A r, t \in Packages : t # p => (t \in used_by'[r] <=> t \in used_by[r])
  BY <1>1 DEF UsesInv
<1>8. made' \subseteq Packages /\ made \subseteq made' /\ p \in made' BY <1>1 DEF UsesInv
<1>9. QED BY <1>1, <1>3, <1>4, <1>5, <1>6, <1>7, <1>8, NewUseList

(* Every operation keeps the use lists and the used-by lists in agreement.   *)
LEMMA UsesStepKeeps == UsesInv /\ [Next]_vars => UsesInv'
<1> SUFFICES ASSUME UsesInv, [Next]_vars PROVE UsesInv' OBVIOUS
<1>1. CASE UNCHANGED vars BY <1>1, UsesUnchanged DEF vars, registry
<1>2. ASSUME NEW p \in Packages, RegistryStep(p) PROVE UsesInv'
  <2>1. ASSUME NEW n \in PackageNames, NEW nicks \in NicknameSets,
               NEW use \in UseArguments, make_package(p, n, nicks, use)
        PROVE  UsesInv'
    BY <2>1, MakeKeepsUses
  <2>2. ASSUME NEW n \in PackageNames, NEW nicks \in NicknameSets,
               rename_package(p, n, nicks)
        PROVE  UsesInv'
    BY <2>2, UsesUnchanged DEF rename_package
  <2>3. CASE delete_package(p) BY <2>3, UsesUnchanged DEF delete_package
  <2>4. QED BY <1>2, <2>1, <2>2, <2>3 DEF RegistryStep
<1>3. ASSUME NEW p \in Packages, UseStep(p) PROVE UsesInv'
  BY <1>3, UseKeepsUses, UnuseKeepsUses DEF UseStep
<1>4. ASSUME NEW p \in Packages, SymbolStep(p) PROVE UsesInv'
  BY <1>4, UsesUnchanged
  DEF SymbolStep, intern, import_symbol, export_symbol, unexport_symbol, registry,
      unintern_symbol, shadow_new, shadow_present, shadowing_import,
      ShadowingImport, grow
<1>5. ASSUME NEW s \in Symbols, make_symbol(s) PROVE UsesInv'
  BY <1>5, UsesUnchanged DEF make_symbol, registry
<1>6. QED BY <1>1, <1>2, <1>3, <1>4, <1>5 DEF Next

(* A package is on the used-by list of exactly the packages it uses, each    *)
(* once, whatever the program does, deletions included.                      *)
THEOREM UsesAgree == Spec => []UseSymmetric
<1>1. UsesInv => UseSymmetric BY DEF UsesInv
<1>2. QED BY <1>1, UsesInit, UsesStepKeeps, PTL DEF Spec


------------------------------------------------------------------------------
(* What a name means in a package.                                           *)

(* The operation touches one name in one package, and leaves s to be found.  *)
Puts(p, n, s) ==
  /\ Touches(p, n)
  /\ s = IF external'[p][n] # NULL THEN external'[p][n] ELSE internal'[p][n]

(* The package holds the symbol itself, or none of the name.                 *)
LEMMA PresentEntry ==
  ASSUME TablesInv, NEW p \in Packages, NEW n \in Names
  PROVE  /\ Present(p, n) \in Symbols \cup {NULL}
         /\ Present(p, n) # NULL => NameOf[Present(p, n)] = n
         /\ Present(p, n) = NULL <=> internal[p][n] = NULL /\ external[p][n] = NULL
         /\ Present(p, n) # NULL => find_accessible_symbol(p, n) = Present(p, n)
         /\ find_accessible_symbol(p, n) = NULL => Present(p, n) = NULL
<1>1. /\ internal[p][n] \in Symbols \cup {NULL} /\ external[p][n] \in Symbols \cup {NULL}
      /\ CellNames(p, n)
  BY Cell
<1>2. /\ Present(p, n) # NULL => find_accessible_symbol(p, n) = Present(p, n)
      /\ find_accessible_symbol(p, n) = NULL => Present(p, n) = NULL
  BY Zenon DEF find_accessible_symbol
<1>3. Present(p, n) # NULL => Present(p, n) \in Buckets(p, n) BY DEF Present, Buckets
<1>4. Present(p, n) # NULL => NameOf[Present(p, n)] = n BY <1>1, <1>3 DEF CellNames
<1>5. QED BY <1>1, <1>2, <1>4 DEF Present

(* intern, import, export and unexport: where no symbol was displaced,       *)
(* another symbol of the name is not there before.                           *)
LEMMA KeepingPuts ==
  ASSUME TablesInv, NEW p \in Packages, NEW s \in Symbols, NameOf[s] \notin displaced[p],
         \/ intern(p, s) \/ import_symbol(p, s) \/ ExportsNew(p, s)
         \/ export_symbol(p, s) \/ unexport_symbol(p, s)
  PROVE  /\ Puts(p, NameOf[s], s) /\ shadowing' = shadowing /\ displaced' = displaced
         /\ Present(p, NameOf[s]) \in {s, NULL}
<1>1. CASE intern(p, s) \/ ExportsNew(p, s)
  BY <1>1, NewSymbolKeeps DEF Puts, Present, history
<1>2. CASE import_symbol(p, s) BY <1>2, ImportKeeps DEF Puts, Present
<1>3. CASE export_symbol(p, s) BY <1>3, ExportKeeps DEF Puts, Present
<1>4. CASE unexport_symbol(p, s) BY <1>4, UnexportKeeps DEF Puts, Present
<1>5. QED BY <1>1, <1>2, <1>3, <1>4

(* shadow of a name that is not present, and shadowing-import that displaces *)
(* no symbol that is at home or doubled: the symbol is there and shadowing.  *)
LEMMA ShadowingPuts ==
  ASSUME TablesInv, NEW p \in Packages, NEW s \in Symbols, NameOf[s] \notin displaced[p],
         shadow_new(p, s) \/ (ShadowingImport(p, s) /\ ~Displaces(p, s))
  PROVE  /\ Puts(p, NameOf[s], s) /\ shadowing'[p][NameOf[s]] = s /\ doubled' = doubled
         /\ NameOf[s] \notin displaced'[p]
<1>1. CASE shadow_new(p, s) BY <1>1, NewSymbolKeeps DEF Puts, Present, history
<1>2. CASE ShadowingImport(p, s) /\ ~Displaces(p, s)
  BY <1>2, ShadowingImportKeeps DEF Puts, Present
<1>3. QED BY <1>1, <1>2

(* What the names mean after an operation on one name.                       *)
LEMMA TouchesOthers ==
  ASSUME NEW p \in Packages, NEW n \in Names, Touches(p, n)
  PROVE  \A q \in Packages, m \in Names :
           q # p \/ m # n => /\ Present(q, m)' = Present(q, m)
                             /\ internal'[q][m] = internal[q][m]
                             /\ external'[q][m] = external[q][m]
                             /\ shadowing'[q][m] = shadowing[q][m]
                             /\ (m \in unshadowed'[q] <=> m \in unshadowed[q])
                             /\ (m \in displaced'[q] <=> m \in displaced[q])
BY DEF Touches, InternalAt, ExternalAt, ShadowingAt, HistoryAt, NotesAt, Present

(* What the names mean after such an operation.                              *)
LEMMA PutsPresent ==
  ASSUME NEW p \in Packages, NEW n \in Names, NEW s, Puts(p, n, s)
  PROVE  /\ Present(p, n)' = s
         /\ \A q \in Packages, m \in Names :
              q # p \/ m # n => Present(q, m)' = Present(q, m)
BY TouchesOthers DEF Puts, Present

(* A name that is present keeps its meaning in the step, or the program asks *)
(* for another one, or has displaced a symbol of the name before.            *)
MeaningStep(p, n) ==
  Present(p, n) # NULL /\ Present(p, n)' # Present(p, n) =>
    \/ unintern_symbol(p, Present(p, n))
    \/ \E s \in Symbols : shadowing_import(p, s)
    \/ delete_package(p)
    \/ n \in displaced[p]

(* An operation on another name, or on a name with a displaced symbol.       *)
LEMMA TouchesMeaning ==
  ASSUME NEW p \in Packages, NEW n \in Names, NEW q \in Packages, NEW m \in Names,
         Touches(q, m), q # p \/ m # n \/ n \in displaced[p]
  PROVE  MeaningStep(p, n)
BY TouchesOthers DEF MeaningStep

(* unintern, of a symbol named as the one that is present.                   *)
LEMMA UninternOf ==
  ASSUME NEW p \in Packages, NEW n \in Names, NEW s \in Symbols, s = Present(p, n),
         unintern_symbol(p, s)
  PROVE  unintern_symbol(p, Present(p, n))
BY DEF unintern_symbol, TableRemove, Note

(* Only unintern, shadowing-import and delete-package change the meaning of  *)
(* a name that is present.                                                   *)
LEMMA MeaningKept ==
  ASSUME TablesInv, NEW p \in Packages, NEW n \in Names,
         [Next]_vars \/ \E q \in Packages, s \in Symbols : ExportsNew(q, s)
  PROVE  MeaningStep(p, n)
<1>1. ASSUME UNCHANGED tables PROVE MeaningStep(p, n)
  BY <1>1 DEF MeaningStep, Present, tables
<1>2. CASE UNCHANGED vars BY <1>1, <1>2 DEF vars
<1>3. ASSUME NEW q \in Packages, RegistryStep(q) PROVE MeaningStep(p, n)
  <2>1. ASSUME NEW m \in PackageNames, NEW nicks \in NicknameSets,
               \/ \E use \in UseArguments : make_package(q, m, nicks, use)
               \/ rename_package(q, m, nicks)
        PROVE  MeaningStep(p, n)
    BY <1>1, <2>1 DEF make_package, rename_package
  <2>2. CASE delete_package(q) BY <2>2, DeleteEmpties DEF MeaningStep
  <2>3. QED BY <1>3, <2>1, <2>2 DEF RegistryStep
<1>4. ASSUME NEW q \in Packages, UseStep(q) PROVE MeaningStep(p, n)
  BY <1>1, <1>4 DEF UseStep, use_package, unuse_package
<1>5. ASSUME NEW q \in Packages, NEW s \in Symbols,
             \/ intern(q, s) \/ import_symbol(q, s) \/ ExportsNew(q, s)
             \/ export_symbol(q, s) \/ unexport_symbol(q, s) \/ shadow_new(q, s)
      PROVE  MeaningStep(p, n)
  <2>1. NameOf[s] \in Names BY PackagesAssumption
  <2>2. Touches(q, NameOf[s])
    BY <1>5, NewSymbolKeeps, ImportKeeps, ExportKeeps, UnexportKeeps
  <2>3. CASE q # p \/ NameOf[s] # n \/ n \in displaced[p] BY <2>1, <2>2, <2>3, TouchesMeaning
  <2>4. CASE q = p /\ NameOf[s] = n /\ n \notin displaced[p]
    <3>1. Puts(q, NameOf[s], s) /\ Present(q, NameOf[s]) \in {s, NULL}
      BY <1>5, <2>4, KeepingPuts, NewSymbolKeeps, ShadowingPuts
    <3>2. QED BY <2>1, <2>4, <3>1, PutsPresent DEF MeaningStep
  <2>5. QED BY <2>3, <2>4
<1>6. ASSUME NEW q \in Packages, NEW s \in Symbols, shadowing_import(q, s)
      PROVE  MeaningStep(p, n)
  <2>1. NameOf[s] \in Names BY PackagesAssumption
  <2>2. Touches(q, NameOf[s]) BY <1>6, ShadowingImportKeeps DEF shadowing_import
  <2>3. CASE q = p BY <1>6, <2>3 DEF MeaningStep
  <2>4. CASE q # p BY <2>1, <2>2, <2>4, TouchesMeaning
  <2>5. QED BY <2>3, <2>4
<1>7. ASSUME NEW q \in Packages, NEW s \in Symbols, unintern_symbol(q, s)
      PROVE  MeaningStep(p, n)
  <2>1. NameOf[s] \in Names BY PackagesAssumption
  <2>2. /\ Touches(q, NameOf[s])
        /\ NameOf[s] \notin displaced[q] => Present(q, NameOf[s]) = s
    BY <1>7, UninternKeeps
  <2>3. CASE q # p \/ NameOf[s] # n \/ n \in displaced[p] BY <2>1, <2>2, <2>3, TouchesMeaning
  <2>4. CASE q = p /\ NameOf[s] = n /\ n \notin displaced[p]
    <3>1. s = Present(p, n) BY <2>2, <2>4
    <3>2. unintern_symbol(p, Present(p, n))
      BY <1>7, <2>4, <3>1, UninternOf
    <3>3. QED BY <3>2 DEF MeaningStep
  <2>5. QED BY <2>3, <2>4
<1>8. ASSUME NEW q \in Packages, NEW m \in Names, shadow_present(q, m) \/ grow(q, m)
      PROVE  MeaningStep(p, n)
  <2>1. CASE shadow_present(q, m) BY <2>1, ShadowPresent DEF MeaningStep
  <2>2. CASE grow(q, m)
    <3>1. Touches(q, m) /\ m \in displaced[q] BY <2>2, GrowKeeps
    <3>2. QED BY <3>1, TouchesMeaning
  <2>3. QED BY <1>8, <2>1, <2>2
<1>9. ASSUME NEW s \in Symbols, make_symbol(s) PROVE MeaningStep(p, n)
  BY <1>1, <1>9 DEF make_symbol
<1>10. ASSUME NEW q \in Packages, SymbolStep(q) PROVE MeaningStep(p, n)
  BY <1>5, <1>6, <1>7, <1>8, <1>10, Zenon DEF SymbolStep
<1>11. QED BY <1>2, <1>3, <1>4, <1>5, <1>9, <1>10 DEF Next

(* What a name means in a package where it is present stays the same symbol  *)
(* until the program uninterns it, imports over it or deletes the package,   *)
(* or shadowing_import() has displaced a symbol of the name, whatever the    *)
(* program does.                                                             *)
THEOREM PresentStable == Spec => PresentSymbolIsStable
<1>1. TablesInv /\ [Next]_vars => TablesInv' BY TablesStepKeeps
<1>2. TablesInv /\ [Next]_vars =>
        [\A p \in Packages, n \in Names :
           Present(p, n) # NULL /\ Present(p, n)' # Present(p, n) =>
             \/ unintern_symbol(p, Present(p, n))
             \/ \E s \in Symbols : shadowing_import(p, s)
             \/ delete_package(p)
             \/ n \in displaced[p]]_vars
  BY MeaningKept DEF MeaningStep
<1>3. QED BY <1>1, <1>2, TablesInit, PTL DEF Spec, PresentSymbolIsStable

------------------------------------------------------------------------------
(* Shadowing symbols.                                                        *)

(* In a package that has not been deleted a symbol is present under a name   *)
(* that is on the list of shadowing symbols, unless it was uninterned.       *)
ShadowHolds(p, n) ==
  shadowing[p][n] # NULL /\ n \notin unshadowed[p] => Present(p, n) # NULL

ShadowInv ==
  /\ all_packages \subseteq made
  /\ \A p \in all_packages, n \in Names : ShadowHolds(p, n)

(* At startup there is no package.                                           *)
LEMMA ShadowInit == Init => ShadowInv
BY DEF Init, ShadowInv

(* Tables and packages that stay.                                            *)
LEMMA ShadowUnchanged ==
  ShadowInv /\ UNCHANGED <<made, all_packages, tables, history>> => ShadowInv'
BY DEF ShadowInv, ShadowHolds, Present, tables, history

(* An operation on one name has only this name to answer for.                *)
LEMMA TouchesShadow ==
  ASSUME ShadowInv, made \subseteq Packages, NEW p \in Packages, NEW n \in Names,
         Touches(p, n), p \in all_packages => ShadowHolds(p, n)'
  PROVE  ShadowInv'
<1>1. made' = made /\ all_packages' = all_packages BY DEF Touches, registry
<1>2. ASSUME NEW q \in all_packages, NEW m \in Names PROVE ShadowHolds(q, m)'
  <2>1. q \in Packages /\ ShadowHolds(q, m) BY DEF ShadowInv
  <2>2. CASE q = p /\ m = n BY <2>2
  <2>3. CASE q # p \/ m # n BY <2>1, <2>3, TouchesOthers DEF ShadowHolds
  <2>4. QED BY <2>2, <2>3
<1>3. QED BY <1>1, <1>2 DEF ShadowInv

(* The operations keep the shadowing symbols present.                        *)
LEMMA ShadowStepKeeps ==
  ASSUME TablesInv, ShadowInv, made \subseteq Packages,
         [Next]_vars \/ \E p \in Packages, s \in Symbols : ExportsNew(p, s)
  PROVE  ShadowInv'
<1>1. CASE UNCHANGED vars BY <1>1, ShadowUnchanged DEF vars, registry
<1>2. ASSUME NEW p \in Packages, RegistryStep(p) PROVE ShadowInv'
  <2>1. ASSUME NEW n \in PackageNames, NEW nicks \in NicknameSets, NEW use \in UseArguments,
               make_package(p, n, nicks, use)
        PROVE  ShadowInv'
    <3>1. /\ p \notin made /\ made' = made \cup {p}
          /\ all_packages' = all_packages \cup {p} /\ UNCHANGED <<tables, history>>
      BY <2>1 DEF make_package
    <3>2. \A m \in Names : shadowing[p][m] = NULL BY <3>1, Cell DEF CellEmpty
    <3>3. QED BY <3>1, <3>2 DEF ShadowInv, ShadowHolds, Present, tables, history
  <2>2. ASSUME NEW n \in PackageNames, NEW nicks \in NicknameSets,
               rename_package(p, n, nicks)
        PROVE  ShadowInv'
    BY <2>2, ShadowUnchanged DEF rename_package
  <2>3. CASE delete_package(p)
    <3>1. all_packages' = all_packages \ {p} BY <2>3 DEF delete_package
    <3>2. \A q \in all_packages' : q \in Packages /\ q # p BY <3>1 DEF ShadowInv
    <3>3. /\ \A q \in Packages, m \in Names : q # p => Present(q, m)' = Present(q, m)
          /\ made' = made /\ shadowing' = shadowing /\ unshadowed' = unshadowed
      BY <2>3, DeleteEmpties DEF history
    <3>4. QED BY <3>1, <3>2, <3>3 DEF ShadowInv, ShadowHolds
  <2>4. QED BY <1>2, <2>1, <2>2, <2>3 DEF RegistryStep
<1>3. ASSUME NEW p \in Packages, UseStep(p) PROVE ShadowInv'
  BY <1>3, ShadowUnchanged DEF UseStep, use_package, unuse_package, registry
<1>4. ASSUME NEW p \in Packages, NEW s \in Symbols,
             \/ intern(p, s) \/ import_symbol(p, s) \/ ExportsNew(p, s)
             \/ export_symbol(p, s) \/ unexport_symbol(p, s)
             \/ shadow_new(p, s) \/ shadowing_import(p, s)
      PROVE  ShadowInv'
  <2>1. NameOf[s] \in Names /\ s # NULL BY PackagesAssumption
  <2>2. Touches(p, NameOf[s]) /\ Present(p, NameOf[s])' # NULL
    BY <1>4, <2>1, NewSymbolKeeps, ImportKeeps, ExportKeeps, UnexportKeeps, ShadowingImportKeeps
       DEF shadowing_import
  <2>3. QED BY <2>1, <2>2, TouchesShadow DEF ShadowHolds
<1>5. ASSUME NEW p \in Packages, NEW s \in Symbols, unintern_symbol(p, s) PROVE ShadowInv'
  <2>1. NameOf[s] \in Names BY PackagesAssumption
  <2>2. /\ Touches(p, NameOf[s]) /\ shadowing' = shadowing
        /\ shadowing[p][NameOf[s]] # NULL => NameOf[s] \in unshadowed'[p]
    BY <1>5, UninternKeeps
  <2>3. QED BY <2>1, <2>2, TouchesShadow DEF ShadowHolds
<1>6. ASSUME NEW p \in Packages, NEW n \in Names, shadow_present(p, n) \/ grow(p, n)
      PROVE  ShadowInv'
  <2>1. Touches(p, n) /\ Present(p, n)' # NULL BY <1>6, ShadowPresent, GrowKeeps
  <2>2. QED BY <2>1, TouchesShadow DEF ShadowHolds
<1>7. ASSUME NEW s \in Symbols, make_symbol(s) PROVE ShadowInv'
  BY <1>7, ShadowUnchanged DEF make_symbol, registry
<1>8. ASSUME NEW p \in Packages, SymbolStep(p) PROVE ShadowInv'
  BY <1>4, <1>5, <1>6, <1>8, Zenon DEF SymbolStep
<1>9. QED BY <1>1, <1>2, <1>3, <1>4, <1>7, <1>8 DEF Next

(* A set of natural numbers that is not empty has a smallest element.        *)
LEMMA SmallestOf ==
  ASSUME NEW S, S \subseteq Nat, S # {}
  PROVE  \E i \in S : \A k \in S : i <= k
<1>1. IsWellFoundedOn(OpToRel(<, Nat), Nat) BY NatLessThanWellFounded
<1>2. PICK i \in S : \A k \in S : ~(<<k, i>> \in OpToRel(<, Nat))
  BY <1>1, WFMin, Zenon
<1>3. ASSUME NEW k \in S PROVE i <= k
  <2>1. i \in Nat /\ k \in Nat OBVIOUS
  <2>2. ~(k < i)
    <3>1. k < i => <<k, i>> \in OpToRel(<, Nat) BY <2>1, Zenon DEF OpToRel
    <3>2. QED BY <1>2, <3>1, Zenon
  <2>3. QED BY <2>1, <2>2
<1>4. QED BY <1>3

(* An inherited symbol is external in a package of the use list.             *)
LEMMA InheritedFrom ==
  ASSUME UsesInv, NEW p \in Packages, NEW n \in Names,
         Present(p, n) = NULL, find_accessible_symbol(p, n) # NULL
  PROVE  \E i \in DOMAIN use_list[p] :
           /\ use_list[p][i] \in Packages
           /\ external[use_list[p][i]][n] = find_accessible_symbol(p, n)
<1> DEFINE E == Exporters(p, n)
           c == CHOOSE i \in E : \A k \in E : i <= k
<1>1. E # {} /\ find_accessible_symbol(p, n) = external[use_list[p][c]][n]
  BY Zenon DEF find_accessible_symbol
<1>2. use_list[p] \in Seq(made) BY DEF UsesInv
<1>3. E \subseteq DOMAIN use_list[p] BY DEF Exporters
<1>4. E \subseteq Nat BY <1>2, <1>3
<1> HIDE DEF E
<1>5. \E i \in E : \A k \in E : i <= k BY <1>1, <1>4, SmallestOf
<1>6. c \in E BY <1>5
<1>7. use_list[p][c] \in Packages BY <1>2, <1>3, <1>6 DEF UsesInv
<1>8. QED BY <1>1, <1>3, <1>6, <1>7

(* The symbols of packages are in order.                                     *)
PackageInv == UsesInv /\ TablesInv /\ ShadowInv

(* Then an inherited symbol is inherited under its own name, which is not    *)
(* shadowed: do-symbols comes to it.                                         *)
LEMMA InheritedListed == PackageInv => InheritedSymbolsComplete
<1> SUFFICES ASSUME PackageInv, NEW p \in all_packages, NEW n \in Names,
                    find_accessible_symbol(p, n) # NULL, Present(p, n) = NULL,
                    n \notin unshadowed[p]
             PROVE  find_accessible_symbol(p, n) \in inherited_symbols(p)
  BY DEF InheritedSymbolsComplete
<1> USE DEF PackageInv
<1> DEFINE s == find_accessible_symbol(p, n)
<1>1. p \in Packages BY DEF ShadowInv, UsesInv
<1>2. PICK i \in DOMAIN use_list[p] :
        use_list[p][i] \in Packages /\ external[use_list[p][i]][n] = s
  BY <1>1, InheritedFrom
<1>3. s # NULL OBVIOUS
<1> HIDE DEF s
<1>4. s \in Symbols BY <1>2, <1>3, Cell
<1>5. NameOf[s] = n BY <1>2, <1>3, Cell DEF CellNames, Buckets
<1>6. shadowing[p][n] = NULL BY DEF ShadowInv, ShadowHolds
<1>7. external[p][n] # s BY <1>1, <1>3, PresentEntry
<1>8. s \in inherited_symbols(p) BY <1>2, <1>4, <1>5, <1>6, <1>7 DEF inherited_symbols
<1>9. QED BY <1>8 DEF s

(* The invariants together are inductive.                                    *)
LEMMA PackageStepKeeps == PackageInv /\ [Next]_vars => PackageInv'
<1>1. UsesInv => made \subseteq Packages BY DEF UsesInv
<1>2. QED BY <1>1, UsesStepKeeps, TablesStepKeeps, ShadowStepKeeps DEF PackageInv

(* Every symbol that a package inherits is among those that do-symbols and   *)
(* with-package-iterator call inherited, unless the program has uninterned   *)
(* the name while it was on the list of shadowing symbols.                   *)
THEOREM InheritedComplete == Spec => []InheritedSymbolsComplete
<1>1. Init => PackageInv
  BY UsesInit, TablesInit, ShadowInit DEF PackageInv
<1>2. QED BY <1>1, PackageStepKeeps, InheritedListed, PTL DEF Spec

------------------------------------------------------------------------------
(* defpackage.                                                               *)

(* After its first step %defpackage leaves the names of packages alone.      *)
LEMMA DefpackageStepRegistry == DefpackageStep => UNCHANGED registry
<1> SUFFICES ASSUME DefpackageStep PROVE UNCHANGED registry OBVIOUS
<1> USE DEF vars
<1>1. ASSUME NEW n \in Names, defpackage_shadow(n) PROVE UNCHANGED registry
  BY <1>1, Zenon DEF defpackage_shadow, shadow_present, shadow_new
<1>2. ASSUME NEW n \in Names, defpackage_intern(n) PROVE UNCHANGED registry
  BY <1>2 DEF defpackage_intern, intern
<1>3. ASSUME NEW n \in Names, defpackage_export_accessible(n) PROVE UNCHANGED registry
  BY <1>3 DEF defpackage_export_accessible, export_symbol
<1>4. ASSUME NEW s \in Symbols, defpackage_export_new(s) PROVE UNCHANGED registry
  BY <1>4 DEF defpackage_export_new
<1>5. ASSUME NEW k \in PackageNames, defpackage_use(k) PROVE UNCHANGED registry
  BY <1>5 DEF defpackage_use, use_package
<1>6. ASSUME NEW k \in PackageNames, NEW n \in Names, defpackage_shadowing_import(k, n)
      PROVE  UNCHANGED registry
  BY <1>6 DEF defpackage_shadowing_import, ShadowingImport
<1>7. ASSUME NEW k \in PackageNames, NEW n \in Names, defpackage_import(k, n)
      PROVE  UNCHANGED registry
  BY <1>7 DEF defpackage_import, import_symbol
<1>8. CASE defpackage_error \/ defpackage_return
  BY <1>8 DEF defpackage_error, defpackage_return
<1>9. QED BY <1>1, <1>2, <1>3, <1>4, <1>5, <1>6, <1>7, <1>8, Zenon DEF DefpackageStep

(* A name or nickname finds exactly the package that has it, also while a    *)
(* defpackage runs and after one that has failed half way.                   *)
THEOREM DefMapIsConsistent == DefSpec => []MapConsistent
<1>1. DefInit => RegistryInv BY RegistryInit DEF DefInit
<1>2. RegistryInv /\ [DefNext]_def_vars => RegistryInv'
  <2> SUFFICES ASSUME RegistryInv, [DefNext]_def_vars PROVE RegistryInv' OBVIOUS
  <2>1. CASE DefpackageStep BY <2>1, DefpackageStepRegistry, RegistryUnchanged
  <2>2. ASSUME NEW p \in Packages, NEW n \in PackageNames, NEW nicks \in NicknameSets,
               NEW o \in GoodOptions, defpackage_begin(p, n, nicks, o)
        PROVE  RegistryInv'
    BY <2>2, MakeKeeps DEF defpackage_begin
  <2>3. CASE Next BY <2>3, RegistryStepKeeps
  <2>4. CASE UNCHANGED def_vars BY <2>4, RegistryUnchanged DEF def_vars, vars
  <2>5. QED BY <2>1, <2>2, <2>3, <2>4, Zenon DEF DefNext
<1>3. RegistryInv => MapConsistent BY DEF RegistryInv
<1>4. QED BY <1>1, <1>2, <1>3, PTL DEF DefSpec

------------------------------------------------------------------------------
(* A %defpackage under way.                                                  *)

CallTypes ==
  /\ call \in [package : Packages, options : GoodOptions, todo : Options]
  /\ P \in made
  /\ \A ph \in DOMAIN call.todo : call.todo[ph] \subseteq call.options[ph]

(* No other package uses the new one, which has only just got its name.      *)
NobodyUses == \A q \in Packages \ {P} : ~Contains(use_list[q], P)

(* Nothing of an option is done before the options that come first.          *)
InOrder ==
  LET o == call.options t == call.todo IN
  /\ t.shadows # {} => t.shadowing_imports = o.shadowing_imports
  /\ t.shadows # {} \/ t.shadowing_imports # {} => t.use = o.use
  /\ t.shadows # {} \/ t.shadowing_imports # {} \/ t.use # {} => t.imports = o.imports
  /\ t.shadows # {} \/ t.shadowing_imports # {} \/ t.use # {} \/ t.imports # {} =>
       t.interns = o.interns
  /\ \/ t.shadows # {} \/ t.shadowing_imports # {} \/ t.use # {} \/ t.imports # {}
     \/ t.interns # {}
     => t.exports = o.exports

(* Until the last symbol is shadowing-imported only shadowed names have a    *)
(* symbol at home in the package, and a name still to shadow has none.       *)
HomesAreShadows ==
  /\ call.todo.shadowing_imports # {} =>
       \A s \in Symbols : home[s] = P => NameOf[s] \in call.options.shadows
  /\ \A n \in call.todo.shadows : Present(P, n) = NULL

(* No symbol of the new package has been displaced from its home, and none   *)
(* doubled before the last symbol is shadowing-imported.                     *)
NoneDisplaced ==
  /\ displaced[P] = {}
  /\ call.todo.shadowing_imports # {} => doubled[P] = {}

CallInv ==
  call # NULL => CallTypes /\ NobodyUses /\ InOrder /\ HomesAreShadows /\ NoneDisplaced

(* The place of an option in the order.                                      *)
LEMMA PhaseIndex ==
  /\ (CHOOSE i \in DOMAIN Phases : Phases[i] = "shadows") = 1
  /\ (CHOOSE i \in DOMAIN Phases : Phases[i] = "shadowing_imports") = 2
  /\ (CHOOSE i \in DOMAIN Phases : Phases[i] = "use") = 3
  /\ (CHOOSE i \in DOMAIN Phases : Phases[i] = "imports") = 4
  /\ (CHOOSE i \in DOMAIN Phases : Phases[i] = "interns") = 5
  /\ (CHOOSE i \in DOMAIN Phases : Phases[i] = "exports") = 6
<1>1. /\ DOMAIN Phases = 1 .. 6
      /\ Phases[1] = "shadows" /\ Phases[2] = "shadowing_imports" /\ Phases[3] = "use"
      /\ Phases[4] = "imports" /\ Phases[5] = "interns" /\ Phases[6] = "exports"
  BY DEF Phases
<1>2. \A i \in 1 .. 6 : i = 1 \/ i = 2 \/ i = 3 \/ i = 4 \/ i = 5 \/ i = 6
  OBVIOUS
<1>3. QED BY <1>1, <1>2

(* An option is taken up when those before it are done.                      *)
LEMMA AtPhase ==
  ASSUME NEW x
  PROVE  /\ At("shadows", x) => x \in call.todo["shadows"]
         /\ At("shadowing_imports", x) =>
              x \in call.todo["shadowing_imports"] /\ call.todo["shadows"] = {}
         /\ At("use", x) =>
              /\ x \in call.todo["use"]
              /\ call.todo["shadows"] = {} /\ call.todo["shadowing_imports"] = {}
         /\ At("imports", x) =>
              /\ x \in call.todo["imports"] /\ call.todo["use"] = {}
              /\ call.todo["shadows"] = {} /\ call.todo["shadowing_imports"] = {}
         /\ At("interns", x) =>
              /\ x \in call.todo["interns"] /\ call.todo["use"] = {}
              /\ call.todo["shadows"] = {} /\ call.todo["shadowing_imports"] = {}
              /\ call.todo["imports"] = {}
         /\ At("exports", x) =>
              /\ x \in call.todo["exports"] /\ call.todo["use"] = {}
              /\ call.todo["shadows"] = {} /\ call.todo["shadowing_imports"] = {}
              /\ call.todo["imports"] = {} /\ call.todo["interns"] = {}
<1> DEFINE t == call.todo
<1>1. ASSUME NEW i \in 1 .. 6, NEW ph, At(ph, x),
             (CHOOSE j \in DOMAIN Phases : Phases[j] = ph) = i
      PROVE  x \in t[ph] /\ \A k \in 1 .. i - 1 : t[Phases[k]] = {}
  BY <1>1 DEF At
<1> HIDE DEF t
<1>2. /\ Phases[1] = "shadows" /\ Phases[2] = "shadowing_imports" /\ Phases[3] = "use"
      /\ Phases[4] = "imports" /\ Phases[5] = "interns"
  BY DEF Phases
<1>3. /\ 1 \in 1 .. 6 /\ 2 \in 1 .. 6 /\ 3 \in 1 .. 6 /\ 4 \in 1 .. 6 /\ 5 \in 1 .. 6 /\ 6 \in 1 .. 6
      /\ \A k \in 1 .. 5 : \A i \in 1 .. 6 : k < i => k \in 1 .. i - 1
  OBVIOUS
<1>4. At("shadows", x) => x \in t["shadows"] BY <1>1, <1>3, PhaseIndex
<1>5. At("shadowing_imports", x) => x \in t["shadowing_imports"] /\ t["shadows"] = {}
  BY <1>1, <1>2, <1>3, PhaseIndex
<1>6. At("use", x) =>
        x \in t["use"] /\ t["shadows"] = {} /\ t["shadowing_imports"] = {}
  BY <1>1, <1>2, <1>3, PhaseIndex
<1>7. At("imports", x) =>
        /\ x \in t["imports"] /\ t["use"] = {}
        /\ t["shadows"] = {} /\ t["shadowing_imports"] = {}
  BY <1>1, <1>2, <1>3, PhaseIndex
<1>8. At("interns", x) =>
        /\ x \in t["interns"] /\ t["use"] = {}
        /\ t["shadows"] = {} /\ t["shadowing_imports"] = {} /\ t["imports"] = {}
  BY <1>1, <1>2, <1>3, PhaseIndex
<1>9. At("exports", x) =>
        /\ x \in t["exports"] /\ t["use"] = {}
        /\ t["shadows"] = {} /\ t["shadowing_imports"] = {} /\ t["imports"] = {}
        /\ t["interns"] = {}
  BY <1>1, <1>2, <1>3, PhaseIndex
<1>10. QED BY <1>4, <1>5, <1>6, <1>7, <1>8, <1>9 DEF t

PhaseNames == {"shadows", "shadowing_imports", "use", "imports", "interns", "exports"}

(* The options of a call and what is left of them.                           *)
LEMMA CallFields ==
  ASSUME CallTypes
  PROVE  /\ P \in Packages /\ P \in made
         /\ call.options \in Options /\ call.todo \in Options
         /\ DOMAIN call.todo = PhaseNames /\ check_disjoint(call.options)
         /\ \A ph \in PhaseNames : call.todo[ph] \subseteq call.options[ph]
<1>1. /\ call \in [package : Packages, options : GoodOptions, todo : Options]
      /\ P \in made
      /\ \A ph \in DOMAIN call.todo : call.todo[ph] \subseteq call.options[ph]
  BY DEF CallTypes
<1>2. P \in Packages /\ call.options \in GoodOptions /\ call.todo \in Options
  BY <1>1 DEF P
<1>3. call.options \in Options /\ check_disjoint(call.options) BY <1>2 DEF GoodOptions
<1>4. DOMAIN call.todo = PhaseNames BY <1>2 DEF Options, PhaseNames
<1>5. QED BY <1>1, <1>2, <1>3, <1>4

(* The entries of the options.                                               *)
LEMMA OptionFields ==
  ASSUME NEW o \in Options
  PROVE  /\ o.shadows \subseteq Names /\ o.interns \subseteq Names
         /\ o.exports \subseteq Names /\ o.use \subseteq PackageNames
         /\ o.imports \subseteq PackageNames \X Names
         /\ o.shadowing_imports \subseteq PackageNames \X Names
         /\ DOMAIN o = PhaseNames
BY DEF Options, PhaseNames

(* Doing one entry of an option.                                             *)
LEMMA DoesEffect ==
  ASSUME CallTypes, NEW ph \in PhaseNames, NEW x, Does(ph, x)
  PROVE  /\ P' = P /\ call'.options = call.options
         /\ call'.todo[ph] = call.todo[ph] \ {x}
         /\ \A k \in PhaseNames : k # ph => call'.todo[k] = call.todo[k]
         /\ call' \in [package : Packages, options : GoodOptions, todo : Options]
         /\ \A k \in DOMAIN call'.todo : call'.todo[k] \subseteq call'.options[k]
<1>1. call \in [package : Packages, options : GoodOptions, todo : Options]
  BY DEF CallTypes
<1>2. call' = [call EXCEPT !.todo[ph] = call.todo[ph] \ {x}] BY DEF Does
<1> DEFINE t == call.todo
           u == [t EXCEPT ![ph] = t[ph] \ {x}]
<1>3. call' = [call EXCEPT !.todo = u] BY <1>2
<1>4. /\ t \in Options /\ DOMAIN t = PhaseNames
      /\ \A k \in PhaseNames : t[k] \subseteq call.options[k]
  BY CallFields
<1>5. /\ u \in Options /\ u[ph] = t[ph] \ {x} /\ DOMAIN u = PhaseNames
      /\ \A k \in PhaseNames : k # ph => u[k] = t[k]
  BY <1>4 DEF Options, PhaseNames
<1> HIDE DEF u
<1>6. call'.todo = u /\ call'.options = call.options /\ call'.package = call.package
  BY <1>1, <1>3
<1>7. call' \in [package : Packages, options : GoodOptions, todo : Options]
  BY <1>1, <1>3, <1>5
<1>8. \A k \in PhaseNames : u[k] \subseteq t[k] BY <1>4, <1>5
<1>9. QED BY <1>4, <1>5, <1>6, <1>7, <1>8 DEF P

(* A package that a name finds exists.                                       *)
LEMMA FoundPackage ==
  ASSUME RegistryInv, NEW k \in PackageNames, package_map[k] # NULL
  PROVE  package_map[k] \in Packages /\ package_map[k] \in made
BY PackagesAssumption DEF RegistryInv, RegistryTypes, UnmadeAreNameless, MapConsistent

(* A symbol that is found under a name has the name.                         *)
LEMMA FoundSymbol ==
  ASSUME UsesInv, TablesInv, NEW p \in Packages, NEW n \in Names,
         find_accessible_symbol(p, n) # NULL
  PROVE  /\ find_accessible_symbol(p, n) \in Symbols
         /\ NameOf[find_accessible_symbol(p, n)] = n
<1> DEFINE s == find_accessible_symbol(p, n)
<1>1. CASE Present(p, n) # NULL
  BY <1>1, PresentEntry
<1>2. CASE Present(p, n) = NULL
  <2>1. PICK i \in DOMAIN use_list[p] :
          use_list[p][i] \in Packages /\ external[use_list[p][i]][n] = s
    BY <1>2, InheritedFrom
  <2>2. s # NULL OBVIOUS
  <2> HIDE DEF s
  <2>3. s \in Symbols BY <2>1, <2>2, Cell
  <2>4. NameOf[s] = n BY <2>1, <2>2, Cell DEF CellNames, Buckets
  <2>5. QED BY <2>3, <2>4 DEF s
<1>3. QED BY <1>1, <1>2

(* The same of an entry of an import option.                                 *)
LEMMA FoundIn ==
  ASSUME RegistryInv, UsesInv, TablesInv,
         NEW k \in PackageNames, NEW n \in Names, SymbolIn(k, n) # NULL
  PROVE  /\ package_map[k] \in Packages
         /\ SymbolIn(k, n) = find_accessible_symbol(package_map[k], n)
         /\ SymbolIn(k, n) \in Symbols /\ NameOf[SymbolIn(k, n)] = n
BY FoundPackage, FoundSymbol DEF SymbolIn

(* A symbol that %defpackage shadowing-imports never displaces one that is   *)
(* at home in the package, or doubled: the names of the two options are      *)
(* disjoint.                                                                 *)
LEMMA DisplacesNoHome ==
  ASSUME RegistryInv, UsesInv, TablesInv, CallTypes, HomesAreShadows, NoneDisplaced,
         NEW k \in PackageNames, NEW n \in Names, defpackage_shadowing_import(k, n)
  PROVE  /\ SymbolIn(k, n) \in Symbols /\ NameOf[SymbolIn(k, n)] = n
         /\ ShadowingImport(P, SymbolIn(k, n)) /\ ~Displaces(P, SymbolIn(k, n))
         /\ shadowing_import(P, SymbolIn(k, n)) /\ n \notin displaced[P]
<1> DEFINE s == SymbolIn(k, n)
           d == Displaced(P, n)
<1>1. /\ s # NULL /\ At("shadowing_imports", <<k, n>>) /\ ShadowingImport(P, s)
  BY DEF defpackage_shadowing_import, Does
<1>2. s \in Symbols /\ NameOf[s] = n BY <1>1, FoundIn
<1>3. <<k, n>> \in call.todo["shadowing_imports"] BY <1>1, AtPhase
<1>4. P \in Packages BY CallFields
<1>5. n \notin call.options.shadows
  <2>1. <<k, n>> \in call.options.shadowing_imports
    BY <1>3, CallFields DEF PhaseNames
  <2>2. n \in Imported(call.options.shadowing_imports) BY <2>1 DEF Imported
  <2>3. check_disjoint(call.options) BY CallFields
  <2>4. QED BY <2>2, <2>3 DEF check_disjoint
<1>6. ASSUME d # NULL, home[d] = P PROVE FALSE
  <2>1. d \in Symbols /\ d \in Buckets(P, n) BY <1>4, <1>6, Cell DEF Displaced, Buckets
  <2>2. NameOf[d] \in call.options.shadows BY <1>3, <1>6, <2>1 DEF HomesAreShadows
  <2>3. NameOf[d] = n BY <1>4, <2>1, Cell DEF CellNames
  <2>4. QED BY <1>5, <2>2, <2>3
<1>7. doubled[P] = {} /\ displaced[P] = {} BY <1>3 DEF NoneDisplaced
<1>8. ~Displaces(P, s)
  <2> HIDE DEF s
  <2>1. QED BY <1>2, <1>6, <1>7 DEF Displaces
<1>9. shadowing_import(P, s) BY <1>1, <1>8 DEF shadowing_import
<1>10. QED BY <1>1, <1>2, <1>7, <1>8, <1>9

(* The operations of the call's package, named by the package and a symbol.  *)
LEMMA OperationOf ==
  ASSUME NEW p \in Packages, p = P
  PROVE  /\ \A s \in Symbols : intern(P, s) => intern(p, s)
         /\ \A s \in Symbols : shadow_new(P, s) => shadow_new(p, s)
         /\ \A s \in Symbols : import_symbol(P, s) => import_symbol(p, s)
         /\ \A s \in Symbols : export_symbol(P, s) => export_symbol(p, s)
         /\ \A s \in Symbols : ExportsNew(P, s) => ExportsNew(p, s)
         /\ \A n \in Names : shadow_present(P, n) => shadow_present(p, n)
<1>1. ASSUME NEW s \in Symbols, intern(P, s) PROVE intern(p, s)
  BY <1>1 DEF intern, TablePut
<1>2. ASSUME NEW s \in Symbols, shadow_new(P, s) PROVE shadow_new(p, s)
  BY <1>2 DEF shadow_new, TablePut
<1>3. ASSUME NEW n \in Names, shadow_present(P, n) PROVE shadow_present(p, n)
  BY <1>3 DEF shadow_present
<1>4. ASSUME NEW s \in Symbols, import_symbol(P, s) PROVE import_symbol(p, s)
  BY <1>4 DEF import_symbol, TablePut, Note
<1>5. ASSUME NEW s \in Symbols, export_symbol(P, s) PROVE export_symbol(p, s)
  BY <1>5 DEF export_symbol, TablePut, TableRemove, Note
<1>6. ASSUME NEW s \in Symbols, ExportsNew(P, s) PROVE ExportsNew(p, s)
  BY <1>6 DEF ExportsNew, TablePut
<1>7. QED BY <1>1, <1>2, <1>3, <1>4, <1>5, <1>6

(* export, of a symbol named by what is accessible.                          *)
LEMMA ExportOf ==
  ASSUME NEW p \in Packages, p = P, NEW s \in Symbols, NEW n \in Names,
         s = find_accessible_symbol(P, n), export_symbol(P, find_accessible_symbol(P, n))
  PROVE  export_symbol(p, s)
BY DEF export_symbol, TablePut, TableRemove, Note

(* import, of a symbol named by where it comes from.                         *)
LEMMA ImportOf ==
  ASSUME NEW p \in Packages, p = P, NEW s \in Symbols, NEW k, NEW n \in Names,
         s = SymbolIn(k, n), import_symbol(P, SymbolIn(k, n))
  PROVE  import_symbol(p, s)
BY DEF import_symbol, TablePut, Note

(* shadowing-import, of a symbol named by where it comes from.               *)
LEMMA ShadowingImportOf ==
  ASSUME NEW p \in Packages, p = P, NEW s \in Symbols, NEW k, NEW n \in Names,
         s = SymbolIn(k, n), shadowing_import(P, SymbolIn(k, n))
  PROVE  shadowing_import(p, s) /\ ShadowingImport(p, s)
BY DEF shadowing_import, ShadowingImport, TablePut, TableRemove, Note

(* Every step of %defpackage is an operation on packages, or nothing, or the *)
(* new exported symbol.                                                      *)
LEMMA DefpackageOperates ==
  ASSUME RegistryInv, UsesInv, TablesInv, CallInv, DefpackageStep
  PROVE  [Next]_vars \/ \E p \in Packages, s \in Symbols : ExportsNew(p, s)
<1>1. call # NULL BY DEF DefpackageStep
<1>2. CallTypes /\ HomesAreShadows /\ NoneDisplaced BY <1>1 DEF CallInv
<1>3. P \in Packages /\ P \in made BY <1>2, CallFields
<1> DEFINE Goal == [Next]_vars \/ \E p \in Packages, s \in Symbols : ExportsNew(p, s)
<1>a. PICK p \in Packages : p = P BY <1>3
<1>4. ASSUME SymbolStep(p) PROVE Goal BY <1>4 DEF Next
<1>5. ASSUME UNCHANGED vars PROVE Goal BY <1>5
<1>6. ASSUME NEW n \in Names, defpackage_shadow(n) PROVE Goal
  <2>1. shadow_present(p, n) \/ \E s \in Symbols : shadow_new(p, s)
    BY <1>a, <1>6, OperationOf DEF defpackage_shadow
  <2>2. QED BY <1>4, <2>1, Zenon DEF SymbolStep
<1>7. ASSUME NEW n \in Names, defpackage_intern(n) PROVE Goal
  <2>1. UNCHANGED vars \/ \E s \in Symbols : intern(p, s)
    BY <1>a, <1>7, OperationOf DEF defpackage_intern
  <2>2. QED BY <1>4, <1>5, <2>1, Zenon DEF SymbolStep
<1>8. ASSUME NEW n \in Names, defpackage_export_accessible(n) PROVE Goal
  <2>1. find_accessible_symbol(P, n) \in Symbols
    BY <1>3, <1>8, FoundSymbol DEF defpackage_export_accessible
  <2>2. UNCHANGED vars \/ export_symbol(P, find_accessible_symbol(P, n))
    BY <1>8, Zenon DEF defpackage_export_accessible
  <2>3. PICK s \in Symbols : s = find_accessible_symbol(P, n) BY <2>1
  <2>4. UNCHANGED vars \/ export_symbol(p, s) BY <1>a, <2>2, <2>3, ExportOf
  <2>5. QED BY <1>4, <1>5, <2>4, Zenon DEF SymbolStep
<1>9. ASSUME NEW s \in Symbols, defpackage_export_new(s) PROVE Goal
  <2>1. ExportsNew(P, s) BY <1>3, <1>9 DEF defpackage_export_new, ExportsNew
  <2>2. QED BY <1>3, <2>1
<1>10. ASSUME NEW k \in PackageNames, defpackage_use(k) PROVE Goal
  <2>1. package_map[k] \in made BY <1>10, FoundPackage DEF defpackage_use
  <2>2. UNCHANGED vars \/ use_package(P, package_map[k])
    BY <1>10, Zenon DEF defpackage_use
  <2>3. QED BY <1>3, <1>5, <2>1, <2>2, Zenon DEF UseStep, Next
<1>11. ASSUME NEW k \in PackageNames, NEW n \in Names, defpackage_shadowing_import(k, n)
       PROVE  Goal
  <2>1. SymbolIn(k, n) \in Symbols /\ shadowing_import(P, SymbolIn(k, n))
    BY <1>2, <1>11, DisplacesNoHome
  <2>2. PICK s \in Symbols : s = SymbolIn(k, n) BY <2>1
  <2>3. shadowing_import(p, s) BY <1>a, <2>1, <2>2, ShadowingImportOf
  <2>4. QED BY <1>4, <2>3, Zenon DEF SymbolStep
<1>12. ASSUME NEW k \in PackageNames, NEW n \in Names, defpackage_import(k, n) PROVE Goal
  <2>1. SymbolIn(k, n) \in Symbols BY <1>12, FoundIn DEF defpackage_import
  <2>2. UNCHANGED vars \/ import_symbol(P, SymbolIn(k, n))
    BY <1>12, Zenon DEF defpackage_import
  <2>3. PICK s \in Symbols : s = SymbolIn(k, n) BY <2>1
  <2>4. UNCHANGED vars \/ import_symbol(p, s) BY <1>a, <2>2, <2>3, ImportOf
  <2>5. QED BY <1>4, <1>5, <2>4, Zenon DEF SymbolStep
<1>13. ASSUME defpackage_error \/ defpackage_return PROVE Goal
  BY <1>5, <1>13 DEF defpackage_error, defpackage_return
<1>14. QED
  <2> HIDE DEF Goal
  <2>1. Goal
    BY <1>6, <1>7, <1>8, <1>9, <1>10, <1>11, <1>12, <1>13, Zenon DEF DefpackageStep
  <2>2. QED BY <2>1 DEF Goal

(* And so is its first step.                                                 *)
LEMMA DefpackageBegins ==
  ASSUME NEW p \in Packages, NEW n \in PackageNames, NEW nicks \in NicknameSets,
         NEW o, defpackage_begin(p, n, nicks, o)
  PROVE  Next
<1>1. << >> \in UseArguments
  <2>1. << >> \in [1 .. 0 -> made] OBVIOUS
  <2>2. 0 \in 0 .. MaxUse BY PackagesAssumption
  <2>3. << >> \in SeqOf(made, MaxUse) BY <2>1, <2>2, Zenon DEF SeqOf
  <2>4. DOMAIN << >> = {} OBVIOUS
  <2>5. QED BY <2>3, <2>4 DEF UseArguments
<1>2. make_package(p, n, nicks, << >>) BY DEF defpackage_begin
<1>3. RegistryStep(p) BY <1>1, <1>2, Zenon DEF RegistryStep
<1>4. QED BY <1>3, Zenon DEF Next

(* Doing an entry keeps the order.                                           *)
LEMMA OrderKept ==
  ASSUME CallTypes, InOrder, NEW ph \in PhaseNames, NEW x, Does(ph, x)
  PROVE  InOrder'
<1>1. /\ call'.options = call.options /\ call'.todo[ph] \subseteq call.todo[ph]
      /\ \A k \in PhaseNames : k # ph => call'.todo[k] = call.todo[k]
  BY DoesEffect
<1>2. At(ph, x) BY DEF Does
<1>3. CASE ph = "shadows" BY <1>1, <1>2, <1>3, AtPhase DEF InOrder, PhaseNames
<1>4. CASE ph = "shadowing_imports" BY <1>1, <1>2, <1>4, AtPhase DEF InOrder, PhaseNames
<1>5. CASE ph = "use" BY <1>1, <1>2, <1>5, AtPhase DEF InOrder, PhaseNames
<1>6. CASE ph = "imports" BY <1>1, <1>2, <1>6, AtPhase DEF InOrder, PhaseNames
<1>7. CASE ph = "interns" BY <1>1, <1>2, <1>7, AtPhase DEF InOrder, PhaseNames
<1>8. CASE ph = "exports" BY <1>1, <1>2, <1>8, AtPhase DEF InOrder, PhaseNames
<1>9. QED BY <1>3, <1>4, <1>5, <1>6, <1>7, <1>8 DEF PhaseNames

(* Once the symbols are shadowing-imported nothing is said of homes.         *)
LEMMA HomesAfter ==
  ASSUME CallTypes, NEW ph \in {"use", "imports", "interns", "exports"}, NEW x, Does(ph, x)
  PROVE  HomesAreShadows'
<1>1. \A k \in PhaseNames : k # ph => call'.todo[k] = call.todo[k]
  BY DoesEffect DEF PhaseNames
<1>2. At(ph, x) BY DEF Does
<1>3. call.todo["shadows"] = {} /\ call.todo["shadowing_imports"] = {}
  BY <1>2, AtPhase
<1>4. call'.todo["shadows"] = {} /\ call'.todo["shadowing_imports"] = {}
  BY <1>1, <1>3 DEF PhaseNames
<1>5. QED BY <1>4 DEF HomesAreShadows

(* shadow: a name with no symbol gets a new one, at home in the package.     *)
LEMMA ShadowEntry ==
  ASSUME CallTypes, HomesAreShadows, NEW n \in Names, defpackage_shadow(n)
  PROVE  \E s \in Symbols : NameOf[s] = n /\ shadow_new(P, s)
<1>1. At("shadows", n) BY DEF defpackage_shadow, Does
<1>2. Present(P, n) = NULL BY <1>1, AtPhase DEF HomesAreShadows
<1>3. QED BY <1>2 DEF defpackage_shadow, shadow_present

(* The order of the first two options.                                       *)
LEMMA HomesShadow ==
  ASSUME TablesInv, CallTypes, HomesAreShadows, NoneDisplaced,
         NEW n \in Names, defpackage_shadow(n)
  PROVE  HomesAreShadows' /\ displaced' = displaced /\ doubled' = doubled
<1>1. PICK s \in Symbols : NameOf[s] = n /\ shadow_new(P, s) BY ShadowEntry
<1>2. /\ P' = P /\ call'.options = call.options
      /\ call'.todo["shadows"] = call.todo["shadows"] \ {n}
      /\ call'.todo["shadowing_imports"] = call.todo["shadowing_imports"]
  BY DoesEffect DEF defpackage_shadow, PhaseNames
<1>3. n \in call.options["shadows"] /\ call.todo["shadows"] \subseteq Names /\ P \in Packages
  <2>1. n \in call.todo["shadows"] BY AtPhase DEF defpackage_shadow, Does
  <2>2. QED BY <2>1, CallFields, OptionFields DEF PhaseNames
<1>4. home' = [home EXCEPT ![s] = P] BY <1>1 DEF shadow_new
<1>5. \A t \in Symbols : home'[t] = IF t = s THEN P ELSE home[t]
  BY <1>4 DEF TablesInv, TableTypes
<1>6. ASSUME NEW t \in Symbols, call.todo["shadowing_imports"] # {}, home'[t] = P
      PROVE  NameOf[t] \in call.options.shadows
  BY <1>1, <1>3, <1>5, <1>6 DEF HomesAreShadows
<1>7. Puts(P, n, s) BY <1>1, <1>3, ShadowingPuts DEF NoneDisplaced
<1>8. ASSUME NEW m \in call.todo["shadows"], m # n PROVE Present(P, m)' = NULL
  <2>1. Present(P, m) = NULL BY DEF HomesAreShadows
  <2>2. \A q \in Packages : Present(q, m)' = Present(q, m) BY <1>3, <1>7, <1>8, PutsPresent
  <2>3. QED BY <1>2, <1>3, <2>1, <2>2 DEF Present
<1>9. displaced' = displaced /\ doubled' = doubled BY <1>1 DEF shadow_new, history
<1>10. QED BY <1>2, <1>6, <1>8, <1>9 DEF HomesAreShadows

(* Nothing is displaced, and nothing doubled before the imports.             *)
LEMMA NoneDisplacedKept ==
  ASSUME CallTypes, NoneDisplaced, NEW ph \in PhaseNames, NEW x, Does(ph, x),
         displaced'[P] = displaced[P],
         doubled' = doubled \/ ph \notin {"shadows", "shadowing_imports"}
  PROVE  NoneDisplaced'
<1>1. /\ P' = P /\ call'.todo[ph] = call.todo[ph] \ {x}
      /\ \A k \in PhaseNames : k # ph => call'.todo[k] = call.todo[k]
  BY DoesEffect
<1>2. At(ph, x) BY DEF Does
<1>3. ph \notin {"shadows", "shadowing_imports"} => call.todo["shadowing_imports"] = {}
  BY <1>2, AtPhase DEF PhaseNames
<1>4. ph \notin {"shadows", "shadowing_imports"} => call'.todo["shadowing_imports"] = {}
  BY <1>1, <1>3 DEF PhaseNames
<1>5. call'.todo["shadowing_imports"] # {} => call.todo["shadowing_imports"] # {}
  BY <1>1 DEF PhaseNames
<1>6. QED BY <1>1, <1>4, <1>5 DEF NoneDisplaced

(* shadowing-import gives no symbol a home.                                  *)
LEMMA HomesShadowingImport ==
  ASSUME CallTypes, HomesAreShadows, NEW k, NEW n, defpackage_shadowing_import(k, n)
  PROVE  HomesAreShadows'
<1>1. /\ P' = P /\ call'.options = call.options
      /\ call'.todo["shadowing_imports"] = call.todo["shadowing_imports"] \ {<<k, n>>}
      /\ call'.todo["shadows"] = call.todo["shadows"]
  BY DoesEffect DEF defpackage_shadowing_import, PhaseNames
<1>2. call.todo["shadows"] = {} BY AtPhase DEF defpackage_shadowing_import, Does
<1>3. home' = home BY DEF defpackage_shadowing_import, ShadowingImport
<1>4. QED BY <1>1, <1>2, <1>3 DEF HomesAreShadows

(* What the package uses is its own affair.                                  *)
LEMMA NobodyKept ==
  ASSUME UsesInv, CallTypes, NobodyUses, P' = P,
         uses' = uses \/ \E q \in made : use_package(P, q)
  PROVE  NobodyUses'
<1>1. P \in Packages BY CallFields
<1>2. \A q \in Packages \ {P} : use_list'[q] = use_list[q]
  BY <1>1 DEF UsesInv, uses, use_package
<1>3. QED BY <1>2 DEF NobodyUses

(* shadowing-import adds nothing to the history of displacements.            *)
LEMMA DisplacesNothing ==
  ASSUME RegistryInv, UsesInv, TablesInv, CallTypes, HomesAreShadows, NoneDisplaced,
         NEW k \in PackageNames, NEW n \in Names, defpackage_shadowing_import(k, n)
  PROVE  displaced'[P] = displaced[P]
<1>1. PICK s \in Symbols : s = SymbolIn(k, n) BY DisplacesNoHome
<1>2. PICK p \in Packages : p = P BY CallFields
<1>a. shadowing_import(P, SymbolIn(k, n)) /\ ~Displaces(P, SymbolIn(k, n)) BY DisplacesNoHome
<1>b. ShadowingImport(p, s) /\ ~Displaces(p, s)
  <2>1. ShadowingImport(p, s) BY <1>1, <1>2, <1>a, ShadowingImportOf
  <2>2. ~Displaces(p, s) BY <1>1, <1>2, <1>a
  <2>3. QED BY <2>1, <2>2
<1>3. displaced' = [displaced EXCEPT ![p] = displaced[p]]
  BY <1>b DEF ShadowingImport, Note
<1>4. QED BY <1>2, <1>3 DEF TablesInv, TableTypes

(* Every step of %defpackage keeps the invariant of the call.                *)
LEMMA CallStepKeeps ==
  ASSUME RegistryInv, UsesInv, TablesInv, CallInv, DefpackageStep
  PROVE  CallInv'
<1>1. call # NULL BY DEF DefpackageStep
<1>2. CallTypes /\ NobodyUses /\ InOrder /\ HomesAreShadows /\ NoneDisplaced
  BY <1>1 DEF CallInv
<1>3. made' = made BY DefpackageStepRegistry DEF registry
<1>4. ASSUME NEW ph \in PhaseNames, NEW x, Does(ph, x), HomesAreShadows',
             uses' = uses \/ \E q \in made : use_package(P, q),
             displaced'[P] = displaced[P],
             doubled' = doubled \/ ph \notin {"shadows", "shadowing_imports"}
      PROVE  CallInv'
  <2>1. P' = P /\ P \in made BY <1>2, <1>4, DoesEffect, CallFields
  <2>2. CallTypes' BY <1>2, <1>3, <1>4, <2>1, DoesEffect DEF CallTypes
  <2>3. InOrder' BY <1>2, <1>4, OrderKept
  <2>4. NobodyUses' BY <1>2, <1>4, <2>1, NobodyKept
  <2>5. NoneDisplaced' BY <1>2, <1>4, NoneDisplacedKept
  <2>6. QED BY <1>4, <2>2, <2>3, <2>4, <2>5 DEF CallInv
<1>5. ASSUME UNCHANGED vars PROVE uses' = uses /\ displaced' = displaced
  BY <1>5 DEF vars, history
<1> USE DEF PhaseNames
<1>6. ASSUME NEW n \in Names, defpackage_shadow(n) PROVE CallInv'
  <2>1. uses' = uses
    BY <1>6, Zenon DEF defpackage_shadow, shadow_present, shadow_new
  <2>2. QED BY <1>2, <1>4, <1>6, <2>1, HomesShadow DEF defpackage_shadow
<1>7. ASSUME NEW n \in Names, defpackage_intern(n) PROVE CallInv'
  <2>1. uses' = uses /\ displaced' = displaced
    BY <1>5, <1>7 DEF defpackage_intern, intern, history
  <2>2. Does("interns", n) BY <1>7 DEF defpackage_intern
  <2>3. QED BY <1>2, <1>4, <2>1, <2>2, HomesAfter
<1>8. ASSUME NEW n \in Names, defpackage_export_accessible(n) PROVE CallInv'
  <2>1. uses' = uses /\ displaced' = displaced
    BY <1>5, <1>8 DEF defpackage_export_accessible, export_symbol
  <2>2. Does("exports", n) BY <1>8 DEF defpackage_export_accessible
  <2>3. QED BY <1>2, <1>4, <2>1, <2>2, HomesAfter
<1>9. ASSUME NEW s \in Symbols, defpackage_export_new(s) PROVE CallInv'
  <2>1. uses' = uses /\ displaced' = displaced
    BY <1>9 DEF defpackage_export_new, history
  <2>2. Does("exports", NameOf[s]) BY <1>9 DEF defpackage_export_new
  <2>3. QED BY <1>2, <1>4, <2>1, <2>2, HomesAfter
<1>10. ASSUME NEW k \in PackageNames, defpackage_use(k) PROVE CallInv'
  <2>1. package_map[k] \in made BY <1>10, FoundPackage DEF defpackage_use
  <2>2. uses' = uses \/ \E q \in made : use_package(P, q)
    BY <1>5, <1>10, <2>1, Zenon DEF defpackage_use
  <2>5. displaced' = displaced BY <1>5, <1>10 DEF defpackage_use, use_package, history
  <2>3. Does("use", k) BY <1>10 DEF defpackage_use
  <2>4. QED BY <1>2, <1>4, <2>2, <2>3, <2>5, HomesAfter
<1>11. ASSUME NEW k \in PackageNames, NEW n \in Names, defpackage_shadowing_import(k, n)
       PROVE  CallInv'
  <2>1. uses' = uses /\ doubled' = doubled
    BY <1>11 DEF defpackage_shadowing_import, ShadowingImport
  <2>2. Does("shadowing_imports", <<k, n>>) BY <1>11 DEF defpackage_shadowing_import
  <2>3. HomesAreShadows' BY <1>2, <1>11, HomesShadowingImport
  <2>4. displaced'[P] = displaced[P] BY <1>2, <1>11, DisplacesNothing
  <2>5. QED BY <1>4, <2>1, <2>2, <2>3, <2>4
<1>12. ASSUME NEW k \in PackageNames, NEW n \in Names, defpackage_import(k, n)
       PROVE  CallInv'
  <2>1. uses' = uses /\ displaced' = displaced
    BY <1>5, <1>12 DEF defpackage_import, import_symbol
  <2>2. Does("imports", <<k, n>>) BY <1>12 DEF defpackage_import
  <2>3. QED BY <1>2, <1>4, <2>1, <2>2, HomesAfter
<1>13. ASSUME defpackage_error \/ defpackage_return PROVE CallInv'
  BY <1>13 DEF defpackage_error, defpackage_return, CallInv
<1>14. QED
  BY <1>6, <1>7, <1>8, <1>9, <1>10, <1>11, <1>12, <1>13, Zenon DEF DefpackageStep

(* The package is new: it holds no symbol, no symbol has it as its home, and *)
(* no package uses it.                                                       *)
LEMMA CallBegins ==
  ASSUME UsesInv, TablesInv, NEW p \in Packages, NEW n \in PackageNames,
         NEW nicks \in NicknameSets, NEW o \in GoodOptions, defpackage_begin(p, n, nicks, o)
  PROVE  CallInv'
<1>1. /\ make_package(p, n, nicks, << >>)
      /\ call' = [package |-> p, options |-> o, todo |-> o]
  BY DEF defpackage_begin
<1>2. /\ p \notin made /\ made' = made \cup {p} /\ UNCHANGED <<tables, home, history>>
      /\ use_list' = [use_list EXCEPT ![p] = Reverse(<< >>)]
  BY <1>1 DEF make_package
<1>3. P' = p /\ call'.options = o /\ call'.todo = o BY <1>1 DEF P
<1>4. o \in Options BY DEF GoodOptions
<1>5. CallTypes' BY <1>1, <1>2, <1>3, <1>4 DEF CallTypes
<1>6. NobodyUses'
  <2>1. ASSUME NEW q \in Packages, q # p PROVE ~Contains(use_list'[q], p)
    <3>1. use_list'[q] = use_list[q] BY <1>2, <2>1
    <3>2. use_list[q] \in Seq(made) BY DEF UsesInv
    <3>3. \A i \in 1 .. Len(use_list[q]) : use_list[q][i] \in made BY <3>2
    <3>4. QED BY <1>2, <3>1, <3>3 DEF Contains
  <2>2. QED BY <1>3, <2>1 DEF NobodyUses
<1>7. InOrder' BY <1>3 DEF InOrder
<1>8. HomesAreShadows'
  <2>1. \A m \in Names : internal[p][m] = NULL /\ external[p][m] = NULL
    BY <1>2, Cell DEF CellEmpty
  <2>2. \A s \in Symbols : home[s] # p
    BY <1>2, <2>1, Cell, PackagesAssumption DEF CellEmpty, CellAgrees
  <2>3. o.shadows \subseteq Names BY <1>4, OptionFields
  <2>4. QED BY <1>2, <1>3, <2>1, <2>2, <2>3 DEF HomesAreShadows, Present, tables
<1>9. NoneDisplaced'
  <2>1. doubled[p] = {} /\ displaced[p] = {}
    BY <1>2, Cell DEF CellEmpty, TablesInv, TableTypes
  <2>2. QED BY <1>2, <1>3, <2>1 DEF NoneDisplaced, history
<1>10. QED BY <1>5, <1>6, <1>7, <1>8, <1>9 DEF CallInv

------------------------------------------------------------------------------
(* The invariants of packages, with defpackage.                              *)

DefInv == RegistryInv /\ UsesInv /\ TablesInv /\ CallInv

(* At startup there is nothing.                                              *)
LEMMA DefInvInit == DefInit => DefInv
BY RegistryInit, UsesInit, TablesInit DEF DefInit, DefInv, CallInv

(* With or without defpackage, what happens to packages is an operation of   *)
(* module Packages, or the new exported symbol.                              *)
LEMMA DefStepOperates ==
  ASSUME DefInv, [DefNext]_def_vars
  PROVE  [Next]_vars \/ \E p \in Packages, s \in Symbols : ExportsNew(p, s)
<1>1. CASE DefpackageStep BY <1>1, DefpackageOperates DEF DefInv
<1>2. ASSUME NEW p \in Packages, NEW n \in PackageNames, NEW nicks \in NicknameSets,
             NEW o \in GoodOptions, defpackage_begin(p, n, nicks, o)
      PROVE  Next
  BY <1>2, DefpackageBegins
<1>3. CASE UNCHANGED def_vars BY <1>3 DEF def_vars
<1>4. QED BY <1>1, <1>2, <1>3 DEF DefNext

(* The new exported symbol is no matter of names and use lists.              *)
LEMMA ExportsNewKeeps ==
  ASSUME RegistryInv, UsesInv, TablesInv, NEW p \in Packages, NEW s \in Symbols,
         ExportsNew(p, s)
  PROVE  RegistryInv' /\ UsesInv' /\ TablesInv'
<1>1. UNCHANGED <<registry, uses>> BY DEF ExportsNew
<1>2. TablesInv' BY NewSymbolKeeps
<1>3. QED BY <1>1, <1>2, RegistryUnchanged, UsesUnchanged DEF registry

(* The invariants together are inductive.                                    *)
LEMMA DefStepKeeps == DefInv /\ [DefNext]_def_vars => DefInv'
<1> SUFFICES ASSUME DefInv, [DefNext]_def_vars PROVE DefInv' OBVIOUS
<1> USE DEF DefInv
<1>1. [Next]_vars \/ \E p \in Packages, s \in Symbols : ExportsNew(p, s)
  BY DefStepOperates
<1>2. RegistryInv' /\ UsesInv' /\ TablesInv'
  BY <1>1, ExportsNewKeeps, RegistryStepKeeps, UsesStepKeeps, TablesStepKeeps
<1>4. CallInv'
  <2>1. CASE DefpackageStep BY <2>1, CallStepKeeps
  <2>2. ASSUME NEW p \in Packages, NEW n \in PackageNames, NEW nicks \in NicknameSets,
               NEW o \in GoodOptions, defpackage_begin(p, n, nicks, o)
        PROVE  CallInv'
    BY <2>2, CallBegins
  <2>3. CASE call = NULL /\ Next /\ UNCHANGED call BY <2>3 DEF CallInv
  <2>4. CASE UNCHANGED def_vars
    BY <2>4 DEF CallInv, CallTypes, NobodyUses, InOrder, HomesAreShadows, NoneDisplaced, P,
                Present, def_vars, vars, registry, uses, tables, history
  <2>5. QED BY <2>1, <2>2, <2>3, <2>4, Zenon DEF DefNext
<1>5. QED BY <1>2, <1>4

(* A symbol is present in its home package, unless shadowing_import()        *)
(* displaced a symbol of its name there, also where a defpackage runs or has *)
(* failed half way: it never shadowing-imports over a symbol that it has     *)
(* made itself, because the macro refuses such options.                      *)
THEOREM DefHomePresent == DefSpec => []HomeIsPresent
<1>1. DefInv /\ [DefNext]_def_vars => DefInv' BY DefStepKeeps
<1>2. DefInv => HomeIsPresent BY TablesInOrder DEF DefInv
<1>3. QED BY <1>1, <1>2, DefInvInit, PTL DEF DefSpec

(* No name is both internal and external in a package, also while and after  *)
(* a defpackage exports symbols, unless the package was made to put a symbol *)
(* of the name that it had, or one was displaced.                            *)
THEOREM DefTablesDisjoint == DefSpec => []InternalExternalDisjoint
<1>1. DefInv /\ [DefNext]_def_vars => DefInv' BY DefStepKeeps
<1>2. DefInv => InternalExternalDisjoint BY TablesInOrder DEF DefInv
<1>3. QED BY <1>1, <1>2, DefInvInit, PTL DEF DefSpec

(* defpackage too changes what a present name means only where it is asked   *)
(* to shadowing-import a symbol of the name, or one had been displaced.      *)
THEOREM DefPresentStable == DefSpec => PresentSymbolIsStable
<1>1. DefInv /\ [DefNext]_def_vars => DefInv' BY DefStepKeeps
<1>2. DefInv /\ [DefNext]_def_vars =>
        [\A p \in Packages, n \in Names :
           Present(p, n) # NULL /\ Present(p, n)' # Present(p, n) =>
             \/ unintern_symbol(p, Present(p, n))
             \/ \E s \in Symbols : shadowing_import(p, s)
             \/ delete_package(p)
             \/ n \in displaced[p]]_vars
  <2> SUFFICES ASSUME DefInv, [DefNext]_def_vars, NEW p \in Packages, NEW n \in Names
               PROVE  MeaningStep(p, n)
    BY DEF MeaningStep
  <2>1. [Next]_vars \/ \E q \in Packages, s \in Symbols : ExportsNew(q, s)
    BY DefStepOperates
  <2>2. QED BY <2>1, MeaningKept DEF DefInv
<1>3. QED BY <1>1, <1>2, DefInvInit, PTL DEF DefSpec, PresentSymbolIsStable

(* do-symbols comes to every inherited symbol, of half-built packages too,   *)
(* unless the name was uninterned while on the list of shadowing symbols.    *)
THEOREM DefInheritedComplete == DefSpec => []InheritedSymbolsComplete
<1>1. DefInit => DefInv /\ ShadowInv BY DefInvInit, ShadowInit DEF DefInit
<1>2. DefInv /\ ShadowInv /\ [DefNext]_def_vars => DefInv' /\ ShadowInv'
  <2> SUFFICES ASSUME DefInv, ShadowInv, [DefNext]_def_vars PROVE DefInv' /\ ShadowInv'
    OBVIOUS
  <2>1. DefInv' BY DefStepKeeps
  <2>2. [Next]_vars \/ \E q \in Packages, s \in Symbols : ExportsNew(q, s)
    BY DefStepOperates
  <2>3. made \subseteq Packages BY DEF DefInv, UsesInv
  <2>4. ShadowInv' BY <2>2, <2>3, ShadowStepKeeps DEF DefInv
  <2>5. QED BY <2>1, <2>4
<1>3. DefInv /\ ShadowInv => InheritedSymbolsComplete
  BY InheritedListed DEF DefInv, PackageInv
<1>4. QED BY <1>1, <1>2, <1>3, PTL DEF DefSpec

(* What the use lists need of a call; no assumption on the program.          *)
LEMMA CallTypesKept ==
  ASSUME CallTypes, made' = made, NEW ph \in PhaseNames, NEW x, Does(ph, x)
  PROVE  CallTypes'
BY DoesEffect, CallFields DEF CallTypes

(* A step of %defpackage and the use lists.                                  *)
LEMMA DefpackageUses ==
  ASSUME RegistryInv, UsesInv, CallTypes, DefpackageStep
  PROVE  UsesInv' /\ (call' # NULL => CallTypes')
<1>1. P \in Packages /\ P \in made BY CallFields
<1>2. UNCHANGED registry BY DefpackageStepRegistry
<1>3. made' = made BY <1>2 DEF registry
<1> DEFINE Goal == UsesInv' /\ (call' # NULL => CallTypes')
<1>4. ASSUME NEW ph \in PhaseNames, NEW x, Does(ph, x),
             uses' = uses \/ \E q \in made : use_package(P, q)
      PROVE  Goal
  <2>1. UsesInv' BY <1>1, <1>3, <1>4, UsesUnchanged, UseKeepsUses
  <2>2. QED BY <1>3, <1>4, <2>1, CallTypesKept
<1>5. ASSUME UNCHANGED vars PROVE uses' = uses BY <1>5 DEF vars
<1> USE DEF PhaseNames
<1>6. ASSUME NEW n \in Names, defpackage_shadow(n) PROVE Goal
  <2>1. uses' = uses
    BY <1>6, Zenon DEF defpackage_shadow, shadow_present, shadow_new
  <2>2. QED BY <1>4, <1>6, <2>1 DEF defpackage_shadow
<1>7. ASSUME NEW n \in Names, defpackage_intern(n) PROVE Goal
  <2>1. uses' = uses BY <1>5, <1>7 DEF defpackage_intern, intern
  <2>2. QED BY <1>4, <1>7, <2>1 DEF defpackage_intern
<1>8. ASSUME NEW n \in Names, defpackage_export_accessible(n) PROVE Goal
  <2>1. uses' = uses BY <1>5, <1>8 DEF defpackage_export_accessible, export_symbol
  <2>2. Does("exports", n) BY <1>8 DEF defpackage_export_accessible
  <2>3. QED BY <1>4, <2>1, <2>2
<1>9. ASSUME NEW s \in Symbols, defpackage_export_new(s) PROVE Goal
  BY <1>4, <1>9 DEF defpackage_export_new
<1>10. ASSUME NEW k \in PackageNames, defpackage_use(k) PROVE Goal
  <2>1. package_map[k] \in made BY <1>10, FoundPackage DEF defpackage_use
  <2>2. uses' = uses \/ \E q \in made : use_package(P, q)
    BY <1>5, <1>10, <2>1, Zenon DEF defpackage_use
  <2>3. QED BY <1>4, <1>10, <2>2 DEF defpackage_use
<1>11. ASSUME NEW k \in PackageNames, NEW n \in Names, defpackage_shadowing_import(k, n)
       PROVE  Goal
  BY <1>4, <1>11 DEF defpackage_shadowing_import, ShadowingImport
<1>12. ASSUME NEW k \in PackageNames, NEW n \in Names, defpackage_import(k, n) PROVE Goal
  <2>1. uses' = uses BY <1>5, <1>12 DEF defpackage_import, import_symbol
  <2>2. QED BY <1>4, <1>12, <2>1 DEF defpackage_import
<1>13. ASSUME defpackage_error \/ defpackage_return PROVE Goal
  <2>1. call' = NULL /\ UNCHANGED vars BY <1>13 DEF defpackage_error, defpackage_return
  <2>2. QED BY <1>3, <1>5, <2>1, UsesUnchanged
<1> HIDE DEF Goal
<1>14. Goal
  BY <1>6, <1>7, <1>8, <1>9, <1>10, <1>11, <1>12, <1>13, Zenon DEF DefpackageStep
<1>15. QED BY <1>14 DEF Goal

(* Use lists and used-by lists agree, whatever the program does, also while  *)
(* a defpackage builds a use list and after it has failed.                   *)
THEOREM DefUsesAgree == DefSpec => []UseSymmetric
<1> DEFINE I == RegistryInv /\ UsesInv /\ (call # NULL => CallTypes)
<1>1. DefInit => I BY RegistryInit, UsesInit DEF DefInit
<1>2. I /\ [DefNext]_def_vars => I'
  <2> SUFFICES ASSUME I, [DefNext]_def_vars PROVE I' OBVIOUS
  <2>1. CASE DefpackageStep
    <3>1. call # NULL BY <2>1 DEF DefpackageStep
    <3>2. RegistryInv' BY <2>1, DefpackageStepRegistry, RegistryUnchanged
    <3>3. QED BY <2>1, <3>1, <3>2, DefpackageUses
  <2>2. ASSUME NEW p \in Packages, NEW n \in PackageNames, NEW nicks \in NicknameSets,
               NEW o \in GoodOptions, defpackage_begin(p, n, nicks, o)
        PROVE  I'
    <3>1. RegistryInv' /\ UsesInv'
      BY <2>2, DefpackageBegins, RegistryStepKeeps, UsesStepKeeps
    <3>2. /\ made' = made \cup {p} /\ call' = [package |-> p, options |-> o, todo |-> o]
      BY <2>2 DEF defpackage_begin, make_package
    <3>3. o \in Options BY DEF GoodOptions
    <3>4. CallTypes' BY <3>2, <3>3 DEF CallTypes, P
    <3>5. QED BY <3>1, <3>4
  <2>3. CASE call = NULL /\ Next /\ UNCHANGED call
    BY <2>3, RegistryStepKeeps, UsesStepKeeps
  <2>4. CASE UNCHANGED def_vars
    BY <2>4, RegistryUnchanged, UsesUnchanged
       DEF CallTypes, P, def_vars, vars, registry
  <2> HIDE DEF I
  <2>5. QED BY <2>1, <2>2, <2>3, <2>4, Zenon DEF DefNext
<1>3. I => UseSymmetric BY DEF UsesInv
<1> HIDE DEF I
<1>4. QED BY <1>1, <1>2, <1>3, PTL DEF DefSpec

------------------------------------------------------------------------------
(* The package that was asked for.                                           *)

(* A package in which nothing of a name changes, nor in the packages that it *)
(* uses, finds the same symbol.                                              *)
LEMMA SeesTheSame ==
  ASSUME UsesInv, NEW q \in Packages, NEW n \in Names,
         use_list'[q] = use_list[q], Present(q, n)' = Present(q, n),
         \A i \in DOMAIN use_list[q] :
           external'[use_list[q][i]][n] = external[use_list[q][i]][n]
  PROVE  find_accessible_symbol(q, n)' = find_accessible_symbol(q, n)
<1> DEFINE Seen(E, u, e) == LET i == CHOOSE i \in E : \A k \in E : i <= k IN e[u[i]][n]
<1>1. Exporters(q, n)' = Exporters(q, n) BY DEF Exporters
<1>2. /\ find_accessible_symbol(q, n)' =
           IF Present(q, n)' # NULL THEN Present(q, n)'
           ELSE IF Exporters(q, n)' = {} THEN NULL
           ELSE Seen(Exporters(q, n)', use_list'[q], external')
      /\ find_accessible_symbol(q, n) =
           IF Present(q, n) # NULL THEN Present(q, n)
           ELSE IF Exporters(q, n) = {} THEN NULL
           ELSE Seen(Exporters(q, n), use_list[q], external)
  BY Zenon DEF find_accessible_symbol
<1>3. ASSUME Exporters(q, n) # {}
      PROVE  Seen(Exporters(q, n), use_list[q], external') =
             Seen(Exporters(q, n), use_list[q], external)
  <2> DEFINE E == Exporters(q, n)
             c == CHOOSE i \in E : \A k \in E : i <= k
  <2>1. E \subseteq DOMAIN use_list[q] BY DEF Exporters
  <2>2. use_list[q] \in Seq(made) BY DEF UsesInv
  <2>3. E \subseteq Nat BY <2>1, <2>2
  <2> HIDE DEF E
  <2>4. \E i \in E : \A k \in E : i <= k BY <1>3, <2>3, SmallestOf DEF E
  <2>5. c \in E BY <2>4
  <2>6. external'[use_list[q][c]][n] = external[use_list[q][c]][n] BY <2>1, <2>5
  <2>7. QED BY <2>6 DEF E
<1> HIDE DEF Seen
<1>4. QED BY <1>1, <1>2, <1>3

(* The other packages are left alone.                                        *)
OthersLeft ==
  /\ P' = P /\ package_map' = package_map /\ call'.options = call.options
  /\ \A q \in Packages \ {P} :
       /\ use_list'[q] = use_list[q]
       /\ \A m \in Names : /\ internal'[q][m] = internal[q][m]
                           /\ external'[q][m] = external[q][m]

(* Then the symbol that was taken from a package under a name is still what  *)
(* the name means there: no other package uses the new one.                  *)
LEMMA SourceKept ==
  ASSUME RegistryInv, UsesInv, TablesInv, TablesInv', CallTypes, NobodyUses, OthersLeft,
         NEW k \in PackageNames, NEW n \in Names, SymbolIn(k, n) # NULL,
         package_map[k] = P => Present(P, n)' = SymbolIn(k, n)
  PROVE  SymbolIn(k, n)' = SymbolIn(k, n)
<1>1. package_map[k] # NULL BY DEF SymbolIn
<1>2. PICK q \in Packages : q = package_map[k] BY <1>1, FoundPackage
<1>3. SymbolIn(k, n) = find_accessible_symbol(q, n) BY <1>1, <1>2 DEF SymbolIn
<1>4. SymbolIn(k, n)' = find_accessible_symbol(q, n)'
  <2>1. package_map'[k] = q /\ q # NULL BY <1>1, <1>2 DEF OthersLeft
  <2>2. SymbolIn(k, n)' = find_accessible_symbol(package_map[k], n)' BY <2>1 DEF SymbolIn
  <2>3. QED BY <2>1, <2>2 DEF find_accessible_symbol, Present, Exporters
<1>5. CASE q = P
  <2>1. Present(q, n)' = Present(P, n)' BY <1>5 DEF Present, OthersLeft
  <2>2. Present(q, n)' = SymbolIn(k, n) BY <1>2, <1>5, <2>1
  <2>3. Present(q, n)' # NULL => find_accessible_symbol(q, n)' = Present(q, n)'
    BY Zenon DEF find_accessible_symbol
  <2>4. QED BY <1>4, <2>2, <2>3
<1>6. CASE q # P
  <2>1. use_list[q] \in Seq(made) /\ made \subseteq Packages BY <1>2 DEF UsesInv
  <2>2. \A i \in DOMAIN use_list[q] : use_list[q][i] \in Packages \ {P}
    BY <1>2, <1>6, <2>1 DEF NobodyUses, Contains
  <2>3. \A i \in DOMAIN use_list[q] :
          external'[use_list[q][i]][n] = external[use_list[q][i]][n]
    BY <2>2 DEF OthersLeft
  <2>4. use_list'[q] = use_list[q] /\ Present(q, n)' = Present(q, n)
    BY <1>2, <1>6 DEF OthersLeft, Present
  <2>5. QED BY <1>2, <1>3, <1>4, <2>3, <2>4, SeesTheSame
<1>7. QED BY <1>5, <1>6

(* What an entry that is done has brought about.                             *)
ShadowDone(n) ==
  Present(P, n) # NULL /\ shadowing[P][n] = Present(P, n) /\ home[Present(P, n)] = P

ShadowingImportDone(n) ==
  /\ Present(P, n) # NULL /\ shadowing[P][n] = Present(P, n)
  /\ \E e \in call.options.shadowing_imports :
       e[2] = n /\ Present(P, n) = SymbolIn(e[1], n)

ImportDone(k, n) == Present(P, n) # NULL /\ Present(P, n) = SymbolIn(k, n)

UseDone(k) == package_map[k] \in Packages /\ Contains(use_list[P], package_map[k])

InternDone(n) == find_accessible_symbol(P, n) # NULL

ExportDone(n) == external[P][n] # NULL

(* Every entry that is not left to do is done.                               *)
DoneInv ==
  call # NULL =>
    LET o == call.options t == call.todo IN
    /\ \A n \in o.shadows \ t.shadows : ShadowDone(n)
    /\ \A e \in o.shadowing_imports \ t.shadowing_imports : ShadowingImportDone(e[2])
    /\ \A k \in o.use \ t.use : UseDone(k)
    /\ \A e \in o.imports \ t.imports : ImportDone(e[1], e[2])
    /\ \A n \in o.interns \ t.interns : InternDone(n)
    /\ \A n \in o.exports \ t.exports : ExportDone(n)

(* The step keeps what a name means and shadows.                             *)
NameKept(n) ==
  /\ Present(P, n) # NULL
  /\ Present(P, n)' = Present(P, n) /\ shadowing'[P][n] = shadowing[P][n]

(* Then what was brought about for the name stays.                           *)
LEMMA NamesKept ==
  ASSUME RegistryInv, UsesInv, TablesInv, TablesInv', CallTypes, NobodyUses, OthersLeft,
         NEW n \in Names, Present(P, n) # NULL => NameKept(n)
  PROVE  /\ ShadowDone(n) /\ home'[Present(P, n)] = P => ShadowDone(n)'
         /\ ShadowingImportDone(n) => ShadowingImportDone(n)'
         /\ \A k \in PackageNames : ImportDone(k, n) => ImportDone(k, n)'
<1>1. P' = P /\ call'.options = call.options BY DEF OthersLeft
<1>2. ASSUME NEW k \in PackageNames, Present(P, n) # NULL, Present(P, n) = SymbolIn(k, n)
      PROVE  Present(P, n)' = SymbolIn(k, n)'
  <2>1. Present(P, n)' = Present(P, n) BY <1>2 DEF NameKept
  <2>2. SymbolIn(k, n)' = SymbolIn(k, n) BY <1>2, <2>1, SourceKept
  <2>3. QED BY <1>2, <2>1, <2>2
<1>3. ShadowDone(n) /\ home'[Present(P, n)] = P => ShadowDone(n)'
  BY <1>1 DEF ShadowDone, NameKept
<1>4. ASSUME ShadowingImportDone(n) PROVE ShadowingImportDone(n)'
  <2>1. PICK e \in call.options.shadowing_imports :
          e[2] = n /\ Present(P, n) = SymbolIn(e[1], n)
    BY <1>4 DEF ShadowingImportDone
  <2>2. e[1] \in PackageNames
    <3>1. call.options.shadowing_imports \subseteq PackageNames \X Names
      BY CallFields, OptionFields
    <3>2. QED BY <2>1, <3>1
  <2>3. Present(P, n) # NULL BY <1>4 DEF ShadowingImportDone
  <2>4. Present(P, n)' = SymbolIn(e[1], n)' BY <1>2, <2>1, <2>2, <2>3
  <2>5. Present(P, n)' # NULL /\ shadowing'[P'][n] = Present(P, n)'
    BY <1>1, <1>4, <2>3 DEF NameKept, ShadowingImportDone
  <2>6. QED BY <1>1, <2>1, <2>4, <2>5 DEF ShadowingImportDone
<1>5. ASSUME NEW k \in PackageNames, ImportDone(k, n) PROVE ImportDone(k, n)'
  <2>1. Present(P, n)' = SymbolIn(k, n)' BY <1>2, <1>5 DEF ImportDone
  <2>2. Present(P, n)' # NULL BY <1>5 DEF NameKept, ImportDone
  <2>3. QED BY <2>1, <2>2 DEF ImportDone
<1>6. QED BY <1>3, <1>4, <1>5

(* Before each step of a call.                                               *)
CallState ==
  /\ RegistryInv /\ UsesInv /\ TablesInv /\ TablesInv'
  /\ call # NULL /\ CallTypes /\ NobodyUses /\ InOrder /\ HomesAreShadows /\ NoneDisplaced
  /\ DoneInv

(* A step that puts a symbol into the package leaves the others alone.       *)
LEMMA PutsOthers ==
  ASSUME CallTypes, NEW n \in Names, NEW s, Puts(P, n, s), NEW ph \in PhaseNames, NEW x,
         Does(ph, x)
  PROVE  /\ OthersLeft
         /\ Present(P, n)' = s
         /\ \A m \in Names : m # n /\ Present(P, m) # NULL => NameKept(m)
<1>1. P' = P /\ call'.options = call.options /\ P \in Packages BY DoesEffect, CallFields
<1>2. UNCHANGED <<registry, uses>> BY DEF Puts, Touches
<1>4. PICK p \in Packages : p = P BY <1>1
<1>5. Puts(p, n, s) /\ Touches(p, n) BY <1>4 DEF Puts
<1>3. OthersLeft BY <1>1, <1>2, <1>4, <1>5, TouchesOthers DEF OthersLeft, registry, uses
<1>6. /\ Present(p, n)' = s
      /\ \A m \in Names : m # n => Present(p, m)' = Present(p, m)
  BY <1>5, PutsPresent
<1>7. \A m \in Names : Present(P, m)' = Present(p, m)' BY <1>1, <1>4 DEF Present
<1>8. \A m \in Names : m # n => shadowing'[P][m] = shadowing[P][m]
  BY <1>4, <1>5, TouchesOthers
<1>9. QED BY <1>3, <1>4, <1>6, <1>7, <1>8 DEF NameKept

(* import, intern and export, or nothing: every name keeps its meaning.      *)
KeepingOperation ==
  \/ UNCHANGED vars
  \/ \E s \in Symbols :
       intern(P, s) \/ import_symbol(P, s) \/ export_symbol(P, s) \/ ExportsNew(P, s)

(* Such a step leaves other packages, the use list and every present name    *)
(* alone.                                                                    *)
LEMMA KeepingStep ==
  ASSUME CallState, NEW ph \in PhaseNames, NEW x, Does(ph, x),
         KeepingOperation
  PROVE  /\ OthersLeft /\ use_list' = use_list
         /\ \A n \in Names : Present(P, n) # NULL => NameKept(n)
         /\ \A t \in Symbols : home[t] = P => home'[t] = P
         /\ \A n \in Names : InternDone(n) => InternDone(n)'
<1> USE DEF CallState
<1>1. P' = P /\ call'.options = call.options /\ P \in Packages BY DoesEffect, CallFields
<1>2. CASE UNCHANGED vars
  <2>1. /\ package_map' = package_map /\ use_list' = use_list /\ internal' = internal
        /\ external' = external /\ shadowing' = shadowing /\ home' = home
    BY <1>2 DEF vars, registry, uses, tables
  <2>2. \A n \in Names : Present(P, n)' = Present(P, n) BY <1>1, <2>1 DEF Present
  <2>3. \A n \in Names : find_accessible_symbol(P, n)' = find_accessible_symbol(P, n)
    BY <1>1, <2>1 DEF find_accessible_symbol, Present, Exporters
  <2>4. QED BY <1>1, <2>1, <2>2, <2>3 DEF OthersLeft, NameKept, InternDone
<1>3. ASSUME NEW s \in Symbols,
             intern(P, s) \/ import_symbol(P, s) \/ export_symbol(P, s) \/ ExportsNew(P, s)
      PROVE  /\ OthersLeft /\ use_list' = use_list
             /\ \A n \in Names : Present(P, n) # NULL => NameKept(n)
             /\ \A t \in Symbols : home[t] = P => home'[t] = P
             /\ \A n \in Names : InternDone(n) => InternDone(n)'
  <2> DEFINE n == NameOf[s]
  <2>1. n \in Names /\ s # NULL BY PackagesAssumption
  <2>2. Puts(P, n, s) /\ shadowing' = shadowing /\ Present(P, n) \in {s, NULL}
    <3>1. PICK p \in Packages : p = P BY <1>1
    <3>2. intern(p, s) \/ import_symbol(p, s) \/ export_symbol(p, s) \/ ExportsNew(p, s)
      BY <1>3, <3>1, OperationOf
    <3>3. NameOf[s] \notin displaced[p] BY <3>1 DEF NoneDisplaced
    <3>4. Puts(p, NameOf[s], s) /\ shadowing' = shadowing /\ Present(p, NameOf[s]) \in {s, NULL}
      BY <3>2, <3>3, KeepingPuts
    <3>5. QED BY <3>1, <3>4 DEF Puts, Touches
  <2>3. /\ OthersLeft /\ Present(P, n)' = s
        /\ \A m \in Names : m # n /\ Present(P, m) # NULL => NameKept(m)
    BY <2>1, <2>2, PutsOthers
  <2>4. Present(P, n) # NULL => NameKept(n) BY <2>2, <2>3 DEF NameKept
  <2>5. use_list' = use_list BY <2>2 DEF Puts, Touches, uses
  <2>6. \A t \in Symbols : home[t] = P => home'[t] = P
    <3>1. home' \in {home, [home EXCEPT ![s] = P]}
      BY <1>3 DEF intern, import_symbol, export_symbol, ExportsNew
    <3>2. QED BY <3>1 DEF TablesInv, TableTypes
  <2>7. ASSUME NEW m \in Names, InternDone(m) PROVE InternDone(m)'
    <3>1. PICK p \in Packages : p = P BY <1>1
    <3>2. find_accessible_symbol(P, m)' = find_accessible_symbol(p, m)'
      BY <1>1, <3>1 DEF find_accessible_symbol, Present, Exporters
    <3>3. CASE m = n
      <4>1. Present(p, m)' = s BY <1>1, <2>3, <3>1, <3>3 DEF Present
      <4>2. Present(p, m)' # NULL => find_accessible_symbol(p, m)' = Present(p, m)'
        BY Zenon DEF find_accessible_symbol
      <4>3. QED BY <2>1, <3>2, <4>1, <4>2 DEF InternDone
    <3>4. CASE m # n
      <4>1. Present(p, m)' = Present(p, m) BY <2>1, <2>2, <3>1, <3>4, PutsPresent
      <4>2. use_list[p] \in Seq(made) /\ made \subseteq Packages BY DEF UsesInv
      <4>3. \A i \in DOMAIN use_list[p] : use_list[p][i] \in Packages BY <4>2
      <4>4. \A i \in DOMAIN use_list[p] :
              external'[use_list[p][i]][m] = external[use_list[p][i]][m]
        BY <1>1, <2>1, <2>2, <3>4, <4>3, TouchesOthers DEF Puts
      <4>5. use_list'[p] = use_list[p] BY <2>5
      <4>6. find_accessible_symbol(p, m)' = find_accessible_symbol(p, m)
        BY <4>1, <4>4, <4>5, SeesTheSame
      <4>7. QED BY <2>7, <3>1, <3>2, <4>6 DEF InternDone
    <3>5. QED BY <3>3, <3>4
  <2>8. QED BY <2>3, <2>4, <2>5, <2>6, <2>7
<1>4. QED BY <1>2, <1>3 DEF KeepingOperation

(* What a step keeps of the first four options, if it changes no meaning.    *)
LEMMA FirstOptionsKept ==
  ASSUME CallState, OthersLeft,
         \A n \in Names : Present(P, n) # NULL => NameKept(n),
         \A t \in Symbols : home[t] = P => home'[t] = P,
         \A r \in Packages : Contains(use_list[P], r) => Contains(use_list'[P], r)
  PROVE  LET o == call.options t == call.todo IN
         /\ \A n \in o.shadows \ t.shadows : ShadowDone(n)'
         /\ \A e \in o.shadowing_imports \ t.shadowing_imports : ShadowingImportDone(e[2])'
         /\ \A k \in o.use \ t.use : UseDone(k)'
         /\ \A e \in o.imports \ t.imports : ImportDone(e[1], e[2])'
<1> USE DEF CallState
<1> DEFINE o == call.options
           t == call.todo
<1>1. o \in Options /\ P \in Packages BY CallFields
<1>2. P' = P /\ package_map' = package_map BY DEF OthersLeft
<1>3. ASSUME NEW n \in o.shadows \ t.shadows PROVE ShadowDone(n)'
  <2>1. n \in Names BY <1>1, OptionFields
  <2>2. ShadowDone(n) BY <1>3 DEF DoneInv
  <2>3. Present(P, n) \in Symbols
    BY <1>1, <2>1, <2>2, PresentEntry DEF ShadowDone
  <2>4. home'[Present(P, n)] = P BY <2>2, <2>3 DEF ShadowDone
  <2>5. QED BY <2>1, <2>2, <2>4, NamesKept
<1>4. ASSUME NEW e \in o.shadowing_imports \ t.shadowing_imports
      PROVE  ShadowingImportDone(e[2])'
  <2>1. e[2] \in Names
    <3>1. o.shadowing_imports \subseteq PackageNames \X Names BY <1>1, OptionFields
    <3>2. QED BY <3>1
  <2>2. ShadowingImportDone(e[2]) BY <1>4 DEF DoneInv
  <2>3. QED BY <2>1, <2>2, NamesKept
<1>5. ASSUME NEW k \in o.use \ t.use PROVE UseDone(k)'
  <2>1. UseDone(k) BY <1>5 DEF DoneInv
  <2>2. QED BY <1>2, <2>1 DEF UseDone
<1>6. ASSUME NEW e \in o.imports \ t.imports PROVE ImportDone(e[1], e[2])'
  <2>1. e[1] \in PackageNames /\ e[2] \in Names
    <3>1. o.imports \subseteq PackageNames \X Names BY <1>1, OptionFields
    <3>2. QED BY <3>1
  <2>2. ImportDone(e[1], e[2]) BY <1>6 DEF DoneInv
  <2>3. QED BY <2>1, <2>2, NamesKept
<1>7. QED BY <1>3, <1>4, <1>5, <1>6

(* What is left to do after an entry.                                        *)
LEMMA LeftToDo ==
  ASSUME CallTypes, NEW ph \in PhaseNames, NEW x, Does(ph, x)
  PROVE  /\ x \in call.todo[ph] /\ x \in call.options[ph]
         /\ call.options \in Options /\ P' = P /\ P \in Packages
         /\ call'.options = call.options
         /\ \A y \in call'.options[ph] \ call'.todo[ph] :
              y # x => y \in call.options[ph] \ call.todo[ph]
         /\ \A k \in PhaseNames : k # ph => call'.todo[k] = call.todo[k]
<1>1. x \in call.todo[ph] BY DEF Does, At
<1>2. QED BY <1>1, DoesEffect, CallFields

(* shadow.                                                                   *)
LEMMA ShadowDoes ==
  ASSUME CallState, NEW n \in Names, defpackage_shadow(n)
  PROVE  DoneInv'
<1> USE DEF CallState
<1> DEFINE o == call.options
           t == call.todo
<1>1. Does("shadows", n) BY DEF defpackage_shadow
<1>2. PICK s \in Symbols : NameOf[s] = n /\ shadow_new(P, s) BY ShadowEntry
<1>3. /\ n \in t["shadows"] /\ o \in Options /\ P' = P /\ P \in Packages
      /\ call'.options = o
      /\ \A m \in o["shadows"] \ call'.todo["shadows"] : m # n => m \in o["shadows"] \ t["shadows"]
      /\ \A k \in PhaseNames : k # "shadows" => call'.todo[k] = t[k]
  BY <1>1, LeftToDo DEF PhaseNames
<1>4. /\ t["shadowing_imports"] = o["shadowing_imports"] /\ t["use"] = o["use"]
      /\ t["imports"] = o["imports"] /\ t["interns"] = o["interns"]
      /\ t["exports"] = o["exports"]
  BY <1>3 DEF InOrder
<1>5. Puts(P, n, s) /\ shadowing'[P][n] = s BY <1>2, <1>3, ShadowingPuts DEF NoneDisplaced
<1>6. /\ OthersLeft /\ Present(P, n)' = s
      /\ \A m \in Names : m # n /\ Present(P, m) # NULL => NameKept(m)
  BY <1>1, <1>5, PutsOthers DEF PhaseNames
<1>7. /\ \A u \in Symbols : home'[u] = IF u = s THEN P ELSE home[u]
      /\ s # NULL
  BY <1>2, PackagesAssumption DEF shadow_new, TablesInv, TableTypes
<1>8. ShadowDone(n)' BY <1>3, <1>5, <1>6, <1>7 DEF ShadowDone
<1>9. ASSUME NEW m \in o["shadows"] \ call'.todo["shadows"] PROVE ShadowDone(m)'
  <2>1. CASE m = n BY <1>8, <2>1
  <2>2. CASE m # n
    <3>1. m \in o["shadows"] \ t["shadows"] BY <1>3, <1>9, <2>2
    <3>2. ShadowDone(m) BY <3>1 DEF DoneInv
    <3>3. m \in Names BY <1>3, <3>1, OptionFields
    <3>4. Present(P, m) \in Symbols BY <1>3, <3>2, <3>3, PresentEntry DEF ShadowDone
    <3>5. home'[Present(P, m)] = P BY <1>7, <3>2, <3>4 DEF ShadowDone
    <3>6. QED BY <1>6, <2>2, <3>2, <3>3, <3>5, NamesKept
  <2>3. QED BY <2>1, <2>2
<1>10. QED BY <1>3, <1>4, <1>9 DEF DoneInv, PhaseNames

(* shadowing-import-from.                                                    *)
LEMMA ShadowingImportDoes ==
  ASSUME CallState, NEW k \in PackageNames, NEW n \in Names,
         defpackage_shadowing_import(k, n)
  PROVE  DoneInv'
<1> USE DEF CallState
<1> DEFINE o == call.options
           t == call.todo
           s == SymbolIn(k, n)
<1>1. Does("shadowing_imports", <<k, n>>) BY DEF defpackage_shadowing_import
<1>2. /\ s \in Symbols /\ NameOf[s] = n /\ shadowing_import(P, s)
      /\ ShadowingImport(P, s) /\ ~Displaces(P, s) /\ n \notin displaced[P]
  BY DisplacesNoHome
<1>3. /\ <<k, n>> \in t["shadowing_imports"] /\ <<k, n>> \in o["shadowing_imports"]
      /\ o \in Options /\ P' = P /\ P \in Packages
      /\ call'.options = o
      /\ \A e \in o["shadowing_imports"] \ call'.todo["shadowing_imports"] :
           e # <<k, n>> => e \in o["shadowing_imports"] \ t["shadowing_imports"]
      /\ \A h \in PhaseNames : h # "shadowing_imports" => call'.todo[h] = t[h]
  BY <1>1, LeftToDo DEF PhaseNames
<1>4. /\ t["use"] = o["use"] /\ t["imports"] = o["imports"]
      /\ t["interns"] = o["interns"] /\ t["exports"] = o["exports"]
  BY <1>3 DEF InOrder
<1>5. Puts(P, n, s) /\ shadowing'[P][n] = s
  <2>1. PICK p \in Packages : p = P BY <1>3
  <2>2. PICK u \in Symbols : u = s BY <1>2
  <2> HIDE DEF s
  <2>3. ShadowingImport(p, u) BY <1>2, <2>1, <2>2, ShadowingImportOf DEF s
  <2>4. ~Displaces(p, u) /\ NameOf[u] \notin displaced[p] /\ NameOf[u] = n BY <1>2, <2>1, <2>2
  <2>5. Puts(p, NameOf[u], u) /\ shadowing'[p][NameOf[u]] = u BY <2>3, <2>4, ShadowingPuts
  <2>6. QED BY <2>1, <2>2, <2>4, <2>5 DEF Puts, Touches
<1>6. /\ OthersLeft /\ Present(P, n)' = s
      /\ \A m \in Names : m # n /\ Present(P, m) # NULL => NameKept(m)
  <2> HIDE DEF s
  <2>1. QED BY <1>1, <1>5, PutsOthers DEF PhaseNames
<1>7. s # NULL /\ home' = home
  BY <1>2, PackagesAssumption DEF shadowing_import, ShadowingImport
<1>8. ShadowingImportDone(n)'
  <2>1. SymbolIn(k, n)' = SymbolIn(k, n) BY <1>6, <1>7, SourceKept
  <2>2. <<k, n>>[1] = k /\ <<k, n>>[2] = n OBVIOUS
  <2>3. PICK e \in o["shadowing_imports"] : e[1] = k /\ e[2] = n BY <1>3, <2>2
  <2>4. Present(P, n)' = SymbolIn(e[1], n)' BY <1>6, <2>1, <2>3
  <2>5. QED BY <1>3, <1>5, <1>6, <1>7, <2>3, <2>4 DEF ShadowingImportDone
<1>9. ASSUME NEW e \in o["shadowing_imports"] \ call'.todo["shadowing_imports"]
      PROVE  ShadowingImportDone(e[2])'
  <2>1. o["shadowing_imports"] \subseteq PackageNames \X Names BY <1>3, OptionFields
  <2>2. e[2] \in Names /\ e = <<e[1], e[2]>> BY <2>1
  <2>3. CASE e[2] = n BY <1>8, <2>3
  <2>4. CASE e[2] # n
    <3>1. e # <<k, n>> BY <2>4
    <3>2. e \in o["shadowing_imports"] \ t["shadowing_imports"] BY <1>3, <1>9, <3>1
    <3>3. ShadowingImportDone(e[2]) BY <3>2 DEF DoneInv
    <3>4. QED BY <1>6, <2>2, <2>4, <3>3, NamesKept
  <2>5. QED BY <2>3, <2>4
<1>10. ASSUME NEW m \in o["shadows"] \ call'.todo["shadows"] PROVE ShadowDone(m)'
  <2>1. ShadowDone(m) BY <1>3, <1>10 DEF DoneInv, PhaseNames
  <2>2. m \in Names BY <1>3, <1>10, OptionFields
  <2>3. m # n
    <3>1. n \in Imported(o["shadowing_imports"]) BY <1>3 DEF Imported
    <3>2. QED BY <1>10, <3>1, CallFields DEF check_disjoint
  <2>4. home'[Present(P, m)] = P BY <1>7, <2>1 DEF ShadowDone
  <2>5. QED BY <1>6, <2>1, <2>2, <2>3, <2>4, NamesKept
<1>11. QED BY <1>3, <1>4, <1>9, <1>10 DEF DoneInv, PhaseNames

(* use.                                                                      *)
LEMMA UseDoes ==
  ASSUME CallState, NEW k \in PackageNames, defpackage_use(k)
  PROVE  DoneInv'
<1> USE DEF CallState
<1> DEFINE o == call.options
           t == call.todo
           q == package_map[k]
<1>1. Does("use", k) BY DEF defpackage_use
<1>2. /\ k \in t["use"] /\ o \in Options /\ P' = P /\ P \in Packages
      /\ call'.options = o
      /\ \A h \in o["use"] \ call'.todo["use"] : h # k => h \in o["use"] \ t["use"]
      /\ \A h \in PhaseNames : h # "use" => call'.todo[h] = t[h]
  BY <1>1, LeftToDo DEF PhaseNames
<1>3. t["imports"] = o["imports"] /\ t["interns"] = o["interns"] /\ t["exports"] = o["exports"]
  BY <1>2 DEF InOrder
<1>4. q \in Packages /\ q \in made BY FoundPackage DEF defpackage_use
<1>5. /\ package_map' = package_map /\ internal' = internal /\ external' = external
      /\ shadowing' = shadowing /\ home' = home
      /\ \/ use_list' = use_list /\ Contains(use_list[P], q)
         \/ /\ use_list' = [use_list EXCEPT ![P] = <<q>> \o use_list[P]]
            /\ ~Contains(use_list[P], q)
  BY DEF defpackage_use, use_package, vars, registry, uses, tables
<1>6. use_list[P] \in Seq(made) /\ IsInjective(use_list[P])
  BY <1>2 DEF UsesInv, UseSymmetric
<1>7. /\ \A r \in Packages : Contains(use_list[P], r) => Contains(use_list'[P], r)
      /\ Contains(use_list'[P], q)
      /\ \A r \in Packages \ {P} : use_list'[r] = use_list[r]
  <2>1. CASE use_list' = use_list /\ Contains(use_list[P], q) BY <2>1
  <2>2. CASE /\ use_list' = [use_list EXCEPT ![P] = <<q>> \o use_list[P]]
             /\ ~Contains(use_list[P], q)
    <3>1. use_list'[P] = <<q>> \o use_list[P] BY <1>2, <2>2 DEF UsesInv
    <3> HIDE DEF q
    <3>2. \A r : Contains(<<q>> \o use_list[P], r) <=> Contains(use_list[P], r) \/ r = q
      BY <1>4, <1>6, <2>2, LongerList
    <3>3. QED BY <1>2, <2>2, <3>1, <3>2 DEF UsesInv
  <2>3. QED BY <1>5, <2>1, <2>2
<1>8. OthersLeft BY <1>2, <1>5, <1>7 DEF OthersLeft
<1>9. \A n \in Names : Present(P, n) # NULL => NameKept(n)
  BY <1>2, <1>5 DEF NameKept, Present
<1>10. /\ \A n \in o.shadows \ t.shadows : ShadowDone(n)'
       /\ \A e \in o.shadowing_imports \ t.shadowing_imports : ShadowingImportDone(e[2])'
       /\ \A h \in o.use \ t.use : UseDone(h)'
  BY <1>5, <1>7, <1>8, <1>9, FirstOptionsKept
<1>11. UseDone(k)' BY <1>2, <1>4, <1>5, <1>7 DEF UseDone
<1>12. \A h \in o["use"] \ call'.todo["use"] : UseDone(h)' BY <1>2, <1>10, <1>11
<1>13. QED BY <1>2, <1>3, <1>10, <1>12 DEF DoneInv, PhaseNames

(* import-from.                                                              *)
LEMMA ImportDoes ==
  ASSUME CallState, NEW k \in PackageNames, NEW n \in Names,
         defpackage_import(k, n)
  PROVE  DoneInv'
<1> USE DEF CallState
<1> DEFINE o == call.options
           t == call.todo
           s == SymbolIn(k, n)
<1>1. Does("imports", <<k, n>>) /\ s # NULL BY DEF defpackage_import
<1>2. s \in Symbols /\ NameOf[s] = n BY <1>1, FoundIn
<1>3. /\ <<k, n>> \in t["imports"] /\ o \in Options /\ P' = P /\ P \in Packages
      /\ call'.options = o
      /\ \A e \in o["imports"] \ call'.todo["imports"] :
           e # <<k, n>> => e \in o["imports"] \ t["imports"]
      /\ \A h \in PhaseNames : h # "imports" => call'.todo[h] = t[h]
  BY <1>1, LeftToDo DEF PhaseNames
<1>4. t["interns"] = o["interns"] /\ t["exports"] = o["exports"] BY <1>3 DEF InOrder
<1>5. \/ UNCHANGED vars /\ home[s] = P
      \/ import_symbol(P, s)
  BY Zenon DEF defpackage_import
<1>6. KeepingOperation
  <2>1. PICK p \in Packages : p = P BY <1>3
  <2>2. PICK u \in Symbols : u = s BY <1>2
  <2>3. UNCHANGED vars \/ import_symbol(P, u) BY <1>5, <2>2 DEF import_symbol, TablePut, Note
  <2>4. QED BY <2>3, Zenon DEF KeepingOperation
<1>7. /\ OthersLeft /\ use_list' = use_list
      /\ \A m \in Names : Present(P, m) # NULL => NameKept(m)
      /\ \A u \in Symbols : home[u] = P => home'[u] = P
  BY <1>1, <1>6, KeepingStep DEF PhaseNames
<1>8. /\ \A m \in o.shadows \ t.shadows : ShadowDone(m)'
      /\ \A e \in o.shadowing_imports \ t.shadowing_imports : ShadowingImportDone(e[2])'
      /\ \A h \in o.use \ t.use : UseDone(h)'
      /\ \A e \in o.imports \ t.imports : ImportDone(e[1], e[2])'
  BY <1>7, FirstOptionsKept
<1>9. Present(P, n)' = s
  <2>1. CASE UNCHANGED vars /\ home[s] = P
    <3>2. Present(P, n) = s BY <1>2, <1>3, <2>1, Agreed DEF NoneDisplaced
    <3>3. QED BY <1>1, <1>7, <3>2 DEF NameKept
  <2>2. CASE import_symbol(P, s)
    <3> HIDE DEF s
    <3>a. PICK p \in Packages : p = P BY <1>3
    <3>b. PICK u \in Symbols : u = s BY <1>2
    <3>c. import_symbol(p, u) BY <2>2, <3>a, <3>b, ImportOf DEF s
    <3>d. NameOf[u] \notin displaced[p] BY <3>a DEF NoneDisplaced
    <3>e. Puts(p, NameOf[u], u) BY <3>c, <3>d, KeepingPuts
    <3>1. Puts(P, n, s) BY <1>2, <3>a, <3>b, <3>e DEF Puts, Touches
    <3>2. QED BY <1>1, <3>1, PutsOthers DEF PhaseNames
  <2>3. QED BY <1>5, <2>1, <2>2
<1>10. ImportDone(k, n)'
  <2>1. SymbolIn(k, n)' = SymbolIn(k, n) BY <1>1, <1>7, <1>9, SourceKept
  <2>2. QED BY <1>1, <1>9, <2>1 DEF ImportDone
<1>11. ASSUME NEW e \in o["imports"] \ call'.todo["imports"] PROVE ImportDone(e[1], e[2])'
  <2>1. CASE e = <<k, n>>
    <3>1. e[1] = k /\ e[2] = n BY <2>1
    <3>2. QED BY <1>10, <3>1
  <2>2. CASE e # <<k, n>> BY <1>3, <1>8, <1>11, <2>2
  <2>3. QED BY <2>1, <2>2
<1>12. QED BY <1>3, <1>4, <1>8, <1>11 DEF DoneInv, PhaseNames

(* intern.                                                                   *)
LEMMA InternDoes ==
  ASSUME CallState, NEW n \in Names, defpackage_intern(n)
  PROVE  DoneInv'
<1> USE DEF CallState
<1> DEFINE o == call.options
           t == call.todo
<1>1. Does("interns", n) BY DEF defpackage_intern
<1>2. /\ n \in t["interns"] /\ o \in Options /\ P' = P /\ P \in Packages
      /\ call'.options = o
      /\ \A m \in o["interns"] \ call'.todo["interns"] : m # n => m \in o["interns"] \ t["interns"]
      /\ \A h \in PhaseNames : h # "interns" => call'.todo[h] = t[h]
  BY <1>1, LeftToDo DEF PhaseNames
<1>3. t["exports"] = o["exports"] BY <1>2 DEF InOrder
<1>4. \/ UNCHANGED vars /\ InternDone(n)
      \/ \E s \in Symbols : NameOf[s] = n /\ intern(P, s)
  BY Zenon DEF defpackage_intern, InternDone
<1>5. KeepingOperation BY <1>4, Zenon DEF KeepingOperation
<1>6. /\ OthersLeft /\ use_list' = use_list
      /\ \A m \in Names : Present(P, m) # NULL => NameKept(m)
      /\ \A u \in Symbols : home[u] = P => home'[u] = P
      /\ \A m \in Names : InternDone(m) => InternDone(m)'
  BY <1>1, <1>5, KeepingStep DEF PhaseNames
<1>7. /\ \A m \in o.shadows \ t.shadows : ShadowDone(m)'
      /\ \A e \in o.shadowing_imports \ t.shadowing_imports : ShadowingImportDone(e[2])'
      /\ \A h \in o.use \ t.use : UseDone(h)'
      /\ \A e \in o.imports \ t.imports : ImportDone(e[1], e[2])'
  BY <1>6, FirstOptionsKept
<1>8. InternDone(n)'
  <2>1. CASE InternDone(n) BY <1>6, <2>1
  <2>2. ASSUME NEW s \in Symbols, NameOf[s] = n, intern(P, s) PROVE InternDone(n)'
    <3>1. Puts(P, n, s) BY <1>2, <2>2, KeepingPuts DEF NoneDisplaced
    <3>2. Present(P, n)' = s BY <1>1, <3>1, PutsOthers DEF PhaseNames
    <3>3. Present(P, n)' # NULL => find_accessible_symbol(P, n)' = Present(P, n)'
      BY Zenon DEF find_accessible_symbol
    <3>4. QED BY <3>2, <3>3, PackagesAssumption DEF InternDone
  <2>3. QED BY <1>4, <2>1, <2>2
<1>9. \A m \in o["interns"] \ call'.todo["interns"] : InternDone(m)'
  <2>1. \A m \in o["interns"] \ t["interns"] : InternDone(m) /\ m \in Names
    BY <1>2, OptionFields DEF DoneInv
  <2>2. QED BY <1>2, <1>6, <1>8, <2>1
<1>10. QED BY <1>2, <1>3, <1>7, <1>9 DEF DoneInv, PhaseNames

(* export, of an accessible symbol or of a new one.                          *)
LEMMA ExportDoes ==
  ASSUME CallState, NEW n \in Names,
         \/ defpackage_export_accessible(n)
         \/ \E s \in Symbols : NameOf[s] = n /\ defpackage_export_new(s)
  PROVE  DoneInv'
<1> USE DEF CallState
<1> DEFINE o == call.options
           t == call.todo
<1>1. Does("exports", n) BY Zenon DEF defpackage_export_accessible, defpackage_export_new
<1>2. /\ n \in t["exports"] /\ o \in Options /\ P' = P /\ P \in Packages
      /\ call'.options = o
      /\ \A m \in o["exports"] \ call'.todo["exports"] : m # n => m \in o["exports"] \ t["exports"]
      /\ \A h \in PhaseNames : h # "exports" => call'.todo[h] = t[h]
  BY <1>1, LeftToDo DEF PhaseNames
<1>3. \/ UNCHANGED vars /\ external[P][n] # NULL
      \/ \E s \in Symbols : NameOf[s] = n /\ (export_symbol(P, s) \/ ExportsNew(P, s))
  <2>1. CASE defpackage_export_accessible(n)
    <3> DEFINE s == find_accessible_symbol(P, n)
    <3>1. s \in Symbols /\ NameOf[s] = n /\ s # NULL
      BY <1>2, <2>1, FoundSymbol DEF defpackage_export_accessible
    <3>2. (UNCHANGED vars /\ external[P][n] = s) \/ export_symbol(P, s)
      BY <2>1, Zenon DEF defpackage_export_accessible
    <3>3. PICK u \in Symbols : u = s BY <3>1
    <3> HIDE DEF s
    <3>4. (UNCHANGED vars /\ external[P][n] # NULL) \/ export_symbol(P, u)
      BY <3>1, <3>2, <3>3 DEF export_symbol, TablePut, TableRemove, Note
    <3>5. NameOf[u] = n BY <3>1, <3>3
    <3>6. QED BY <3>4, <3>5
  <2>2. ASSUME NEW s \in Symbols, NameOf[s] = n, defpackage_export_new(s)
        PROVE  ExportsNew(P, s)
    BY <2>2, CallFields DEF defpackage_export_new, ExportsNew
  <2>3. QED BY <2>1, <2>2
<1>4. KeepingOperation BY <1>3, Zenon DEF KeepingOperation
<1>5. /\ OthersLeft /\ use_list' = use_list
      /\ \A m \in Names : Present(P, m) # NULL => NameKept(m)
      /\ \A u \in Symbols : home[u] = P => home'[u] = P
      /\ \A m \in Names : InternDone(m) => InternDone(m)'
  BY <1>1, <1>4, KeepingStep DEF PhaseNames
<1>6. /\ \A m \in o.shadows \ t.shadows : ShadowDone(m)'
      /\ \A e \in o.shadowing_imports \ t.shadowing_imports : ShadowingImportDone(e[2])'
      /\ \A h \in o.use \ t.use : UseDone(h)'
      /\ \A e \in o.imports \ t.imports : ImportDone(e[1], e[2])'
  BY <1>5, FirstOptionsKept
<1>7. \A m \in o["interns"] \ t["interns"] : InternDone(m)'
  <2>1. \A m \in o["interns"] \ t["interns"] : InternDone(m) /\ m \in Names
    BY <1>2, OptionFields DEF DoneInv
  <2>2. QED BY <1>5, <2>1
<1>8. ExportDone(n)' /\ \A m \in Names : ExportDone(m) => ExportDone(m)'
  <2>1. CASE UNCHANGED vars /\ external[P][n] # NULL
    BY <1>2, <2>1 DEF ExportDone, vars, tables
  <2>2. ASSUME NEW s \in Symbols, NameOf[s] = n, export_symbol(P, s) \/ ExportsNew(P, s)
        PROVE  ExportDone(n)' /\ \A m \in Names : ExportDone(m) => ExportDone(m)'
    <3>1. external' = [external EXCEPT ![P][n] = s]
      BY <2>2 DEF export_symbol, ExportsNew, TablePut
    <3>2. \A m \in Names : external'[P][m] = IF m = n THEN s ELSE external[P][m]
      BY <1>2, <3>1 DEF TablesInv, TableTypes, Tables
    <3>3. s # NULL BY PackagesAssumption
    <3>4. QED BY <1>2, <3>2, <3>3 DEF ExportDone
  <2>3. QED BY <1>3, <2>1, <2>2
<1>9. \A m \in o["exports"] \ call'.todo["exports"] : ExportDone(m)'
  <2>1. \A m \in o["exports"] \ t["exports"] : ExportDone(m) /\ m \in Names
    BY <1>2, OptionFields DEF DoneInv
  <2>2. QED BY <1>2, <1>8, <2>1
<1>10. QED BY <1>2, <1>6, <1>7, <1>9 DEF DoneInv, PhaseNames

(* Every step of a call keeps what is done.                                  *)
LEMMA DoneStepKeeps ==
  ASSUME DefInv, TablesInv', DoneInv, DefpackageStep
  PROVE  DoneInv'
<1>1. call # NULL BY DEF DefpackageStep
<1>2. CallState BY <1>1 DEF CallState, DefInv, CallInv
<1>3. ASSUME NEW s \in Symbols, defpackage_export_new(s) PROVE DoneInv'
  <2>1. NameOf[s] \in Names BY PackagesAssumption
  <2>2. QED BY <1>2, <1>3, <2>1, ExportDoes
<1>4. CASE defpackage_error \/ defpackage_return
  BY <1>4 DEF defpackage_error, defpackage_return, DoneInv
<1>5. ASSUME NEW n \in Names,
             defpackage_shadow(n) \/ defpackage_intern(n) \/ defpackage_export_accessible(n)
      PROVE  DoneInv'
  BY <1>2, <1>5, ShadowDoes, InternDoes, ExportDoes
<1>6. ASSUME NEW k \in PackageNames, defpackage_use(k) PROVE DoneInv'
  BY <1>2, <1>6, UseDoes
<1>7. ASSUME NEW k \in PackageNames, NEW n \in Names,
             defpackage_shadowing_import(k, n) \/ defpackage_import(k, n)
      PROVE  DoneInv'
  BY <1>2, <1>7, ShadowingImportDoes, ImportDoes
<1>8. QED BY <1>3, <1>4, <1>5, <1>6, <1>7, Zenon DEF DefpackageStep

(* A %defpackage that returns has made the package that was asked for: what  *)
(* each option has brought about outlasts the options after it.              *)
THEOREM DefAsAsked == DefSpec => []DefinedAsAsked
<1>1. DefInit => DefInv /\ DoneInv BY DefInvInit DEF DefInit, DoneInv
<1>2. DefInv /\ DoneInv /\ [DefNext]_def_vars => DefInv' /\ DoneInv'
  <2> SUFFICES ASSUME DefInv, DoneInv, [DefNext]_def_vars PROVE DefInv' /\ DoneInv'
    OBVIOUS
  <2>1. DefInv' BY DefStepKeeps
  <2>2. CASE DefpackageStep
    <3>1. TablesInv' BY <2>1 DEF DefInv
    <3>2. QED BY <2>1, <2>2, <3>1, DoneStepKeeps
  <2>3. ASSUME NEW p \in Packages, NEW n \in PackageNames, NEW nicks \in NicknameSets,
               NEW o \in GoodOptions, defpackage_begin(p, n, nicks, o)
        PROVE  DoneInv'
    <3>1. call'.options = o /\ call'.todo = o BY <2>3 DEF defpackage_begin
    <3>2. QED BY <3>1 DEF DoneInv
  <2>4. CASE call = NULL /\ Next /\ UNCHANGED call BY <2>1, <2>4 DEF DoneInv
  <2>5. CASE UNCHANGED def_vars
    <3>1. /\ package_map' = package_map /\ use_list' = use_list /\ internal' = internal
          /\ external' = external /\ shadowing' = shadowing /\ home' = home /\ call' = call
      BY <2>5 DEF def_vars, vars, registry, uses, tables
    <3>2. P' = P /\ \A p, n : Present(p, n)' = Present(p, n) BY <3>1 DEF P, Present
    <3>3. \A p, n : find_accessible_symbol(p, n)' = find_accessible_symbol(p, n)
      BY <3>1, <3>2 DEF find_accessible_symbol, Exporters
    <3>4. \A k, n : SymbolIn(k, n)' = SymbolIn(k, n) BY <3>1, <3>3 DEF SymbolIn
    <3>5. DoneInv'
      BY <3>1, <3>2, <3>3, <3>4
      DEF DoneInv, ShadowDone, ShadowingImportDone, ImportDone, UseDone, InternDone, ExportDone
    <3>6. QED BY <2>1, <3>5
  <2>6. QED BY <2>1, <2>2, <2>3, <2>4, <2>5, Zenon DEF DefNext
<1>3. DefInv /\ DoneInv => DefinedAsAsked
  <2> SUFFICES ASSUME DefInv, DoneInv, Done PROVE DefinedAsAsked BY DEF DefinedAsAsked
  <2> DEFINE o == call.options
  <2>1. call # NULL /\ \A ph \in DOMAIN call.todo : call.todo[ph] = {} BY DEF Done
  <2>2. CallTypes BY <2>1 DEF DefInv, CallInv
  <2>3. /\ call.todo["shadows"] = {} /\ call.todo["shadowing_imports"] = {}
        /\ call.todo["use"] = {} /\ call.todo["imports"] = {}
        /\ call.todo["interns"] = {} /\ call.todo["exports"] = {}
    BY <2>1, <2>2, CallFields DEF PhaseNames
  <2>4. /\ \A n \in o.shadows : ShadowDone(n)
        /\ \A e \in o.shadowing_imports : ShadowingImportDone(e[2])
        /\ \A k \in o.use : UseDone(k)
        /\ \A e \in o.imports : ImportDone(e[1], e[2])
        /\ \A n \in o.interns : InternDone(n)
        /\ \A n \in o.exports : ExportDone(n)
    BY <2>1, <2>3 DEF DoneInv
  <2>5. \A n \in Imported(o.shadowing_imports) : ShadowingImportDone(n)
    BY <2>4 DEF Imported
  <2>6. QED
    BY <2>4, <2>5
    DEF DefinedAsAsked, ShadowDone, ShadowingImportDone, UseDone, ImportDone, InternDone,
        ExportDone
<1>4. QED BY <1>1, <1>2, <1>3, PTL DEF DefSpec

==============================================================================
