------------------------ MODULE SymbolHashTableProofs ------------------------
(***************************************************************************)
(* Proofs, for every set of symbols, every hash function and every         *)
(* capacity, that no operation of the symbol table cuts a probe sequence,  *)
(* that get() therefore finds every name that is stored, that _count is    *)
(* exact and leaves put() a bucket to take, and that the table, the steps  *)
(* of rehash() included, implements a map from names to symbols for a      *)
(* client that looks a name up first.                                      *)
(***************************************************************************)
EXTENDS SymbolHashTable, FiniteSetTheorems, WellFoundedInduction, TLAPS

------------------------------------------------------------------------------
(* Arithmetic of the probe sequence.                                         *)

(* A set of iteration numbers has a first one.                               *)
LEMMA SmallestExists ==
  ASSUME NEW T, T \subseteq Nat, T # {}
  PROVE  \E x \in T : \A y \in T : x <= y
<1>1. IsWellFoundedOn({ss \in Nat \X Nat : ss[1] < ss[2]}, Nat)
  BY NatLessThanWellFounded, Zenon DEF OpToRel
<1>2. PICK x \in T :
        \A y \in T : <<y, x>> \notin {ss \in Nat \X Nat : ss[1] < ss[2]}
  BY <1>1, WFMin, Zenon
<1>3. ASSUME NEW y \in T PROVE x <= y
  <2>1. x \in Nat /\ y \in Nat /\ <<y, x>> \in Nat \X Nat
    OBVIOUS
  <2>2. ~(<<y, x>>[1] < <<y, x>>[2])
    BY <2>1, <1>2, Zenon
  <2>3. QED BY <2>1, <2>2
<1>4. QED BY <1>2, <1>3

(* "(index + i) % limit" wraps around at most once.                          *)
LEMMA ProbeWraps ==
  ASSUME NEW cap \in Nat \ {0}, NEW x \in 0 .. cap - 1, NEW i \in 0 .. cap - 1
  PROVE  /\ Probe(x, i, cap) = IF x + i < cap THEN x + i ELSE x + i - cap
         /\ Probe(x, i, cap) \in 0 .. cap - 1
BY DEF Probe

(* "hash() & _mask" is a bucket of the table.                                *)
LEMMA HomeInRange ==
  ASSUME NEW cap \in Nat \ {0}, NEW n \in Names
  PROVE  Home(n, cap) \in 0 .. cap - 1
<1>1. Hash[n] \in Nat BY ConstantsAssumption
<1>2. QED BY <1>1 DEF Home

(* Every iteration of a probe looks at a bucket of the table ...             *)
LEMMA ProbeInRange ==
  ASSUME NEW cap \in Nat \ {0}, NEW n \in Names, NEW i \in 0 .. cap - 1
  PROVE  Probe(Home(n, cap), i, cap) \in 0 .. cap - 1
BY HomeInRange, ProbeWraps

(* ... and two iterations of one probe never look at the same one.           *)
LEMMA ProbeInjective ==
  ASSUME NEW cap \in Nat \ {0}, NEW n \in Names,
         NEW i \in 0 .. cap - 1, NEW k \in 0 .. cap - 1,
         Probe(Home(n, cap), i, cap) = Probe(Home(n, cap), k, cap)
  PROVE  i = k
<1> DEFINE x == Home(n, cap)
<1>1. x \in 0 .. cap - 1 BY HomeInRange
<1> HIDE DEF x
<1>2. Probe(x, i, cap) = IF x + i < cap THEN x + i ELSE x + i - cap
  BY <1>1, ProbeWraps
<1>3. Probe(x, k, cap) = IF x + k < cap THEN x + k ELSE x + k - cap
  BY <1>1, ProbeWraps
<1>4. Probe(x, i, cap) = Probe(x, k, cap) BY DEF x
<1>5. QED BY <1>1, <1>2, <1>3, <1>4

(* A probe that walks the whole table looks at every bucket of it.           *)
LEMMA ProbeSurjective ==
  ASSUME NEW cap \in Nat \ {0}, NEW n \in Names, NEW j \in 0 .. cap - 1
  PROVE  \E i \in 0 .. cap - 1 : Probe(Home(n, cap), i, cap) = j
<1> DEFINE x == Home(n, cap)
           i == IF x <= j THEN j - x ELSE j - x + cap
<1>1. x \in 0 .. cap - 1 BY HomeInRange
<1> HIDE DEF x
<1>2. i \in 0 .. cap - 1 BY <1>1
<1>3. Probe(x, i, cap) = IF x + i < cap THEN x + i ELSE x + i - cap
  BY <1>1, <1>2, ProbeWraps
<1>4. Probe(x, i, cap) = j BY <1>1, <1>2, <1>3
<1>5. QED BY <1>2, <1>4 DEF x

------------------------------------------------------------------------------
(* The loops of get(), put() and rehash() end at the first bucket that may   *)
(* end them.                                                                 *)

(* The bucket at which the loop of get() and remove() ends.                  *)
LEMMA FirstStopIsFirst ==
  ASSUME NEW cap \in Nat, NEW b, NEW n
  PROVE  LET i == FirstStop(b, cap, n) IN
           /\ i \in 0 .. cap
           /\ i < cap => Stops(At(b, cap, n, i), n)
           /\ \A m \in 0 .. i - 1 : ~Stops(At(b, cap, n, m), n)
<1> DEFINE T == {i \in 0 .. cap : i < cap => Stops(At(b, cap, n, i), n)}
<1>1. cap \in T /\ T \subseteq Nat OBVIOUS
<1>2. PICK x \in T : \A y \in T : x <= y BY <1>1, SmallestExists
<1>3. \A m \in 0 .. x - 1 : ~Stops(At(b, cap, n, m), n) BY <1>2
<1>4. QED BY <1>2, <1>3 DEF FirstStop

(* The bucket at which the loop of put() ends.                               *)
LEMMA FirstTakeIsFirst ==
  ASSUME NEW cap \in Nat, NEW b, NEW n
  PROVE  LET i == FirstTake(b, cap, n) IN
           /\ i \in 0 .. cap
           /\ i < cap => Takes(At(b, cap, n, i), n)
           /\ \A m \in 0 .. i - 1 : ~Takes(At(b, cap, n, m), n)
<1> DEFINE T == {i \in 0 .. cap : i < cap => Takes(At(b, cap, n, i), n)}
<1>1. cap \in T /\ T \subseteq Nat OBVIOUS
<1>2. PICK x \in T : \A y \in T : x <= y BY <1>1, SmallestExists
<1>3. \A m \in 0 .. x - 1 : ~Takes(At(b, cap, n, m), n) BY <1>2
<1>4. QED BY <1>2, <1>3 DEF FirstTake

(* The bucket at which the inner loop of rehash() ends.                      *)
LEMMA FirstFreeIsFirst ==
  ASSUME NEW cap \in Nat, NEW b, NEW n
  PROVE  LET i == FirstFree(b, cap, n) IN
           /\ i \in 0 .. cap
           /\ i < cap => ~Live(At(b, cap, n, i))
           /\ \A m \in 0 .. i - 1 : Live(At(b, cap, n, m))
<1> DEFINE T == {i \in 0 .. cap : i < cap => ~Live(At(b, cap, n, i))}
<1>1. cap \in T /\ T \subseteq Nat OBVIOUS
<1>2. PICK x \in T : \A y \in T : x <= y BY <1>1, SmallestExists
<1>3. \A m \in 0 .. x - 1 : Live(At(b, cap, n, m)) BY <1>2
<1>4. QED BY <1>2, <1>3 DEF FirstFree

------------------------------------------------------------------------------
(* What the three writers of a bucket do to the probe sequences.             *)

Table(cap) == [0 .. cap - 1 -> Symbols \cup {NULL, DELETED}]

(* A symbol stored in the first bucket of its probe sequence that satisfies  *)
(* a condition true of NULL keeps every sequence intact.                     *)
LEMMA StoreKeepsChains ==
  ASSUME NEW cap \in Nat \ {0}, NEW b \in Table(cap), ProbeChain(b, cap),
         NEW s \in Symbols, NEW i \in 0 .. cap - 1,
         \A m \in 0 .. i - 1 : At(b, cap, NameOf[s], m) # NULL
  PROVE  ProbeChain([b EXCEPT ![Probe(Home(NameOf[s], cap), i, cap)] = s], cap)
<1> DEFINE j == Probe(Home(NameOf[s], cap), i, cap)
           c == [b EXCEPT ![j] = s]
<1>1. NameOf[s] \in Names BY ConstantsAssumption
<1>2. j \in 0 .. cap - 1 BY <1>1, ProbeInRange
<1>3. SUFFICES ASSUME NEW t \in Symbols, NEW k \in 0 .. cap - 1,
                      At(c, cap, NameOf[t], k) = t, NEW m \in 0 .. k - 1
               PROVE  At(c, cap, NameOf[t], m) # NULL
  BY DEF ProbeChain
<1> DEFINE p == Probe(Home(NameOf[t], cap), k, cap)
           q == Probe(Home(NameOf[t], cap), m, cap)
<1>4. NameOf[t] \in Names BY ConstantsAssumption
<1>5. p \in 0 .. cap - 1 /\ q \in 0 .. cap - 1 BY <1>4, ProbeInRange
<1>6. c[p] = t BY <1>3 DEF At
<1>7. CASE q = j
  <2>1. c[q] = s BY <1>2, <1>7 DEF Table
  <2>2. QED BY <2>1, ConstantsAssumption DEF At
<1>8. CASE q # j /\ p = j
  <2>1. t = s BY <1>2, <1>6, <1>8 DEF Table
  <2>2. k = i BY <2>1, <1>1, <1>8, ProbeInjective
  <2>3. b[q] # NULL BY <2>1, <2>2 DEF At
  <2>4. c[q] = b[q] BY <1>5, <1>8 DEF Table
  <2>5. QED BY <2>3, <2>4 DEF At
<1>9. CASE q # j /\ p # j
  <2>1. b[p] = t BY <1>5, <1>6, <1>9 DEF Table
  <2>2. b[q] # NULL BY <2>1 DEF ProbeChain, At
  <2>3. c[q] = b[q] BY <1>5, <1>9 DEF Table
  <2>4. QED BY <2>2, <2>3 DEF At
<1>10. QED BY <1>7, <1>8, <1>9

(* A tombstone in any bucket keeps every sequence intact.                    *)
LEMMA TombstoneKeepsChains ==
  ASSUME NEW cap \in Nat \ {0}, NEW b \in Table(cap), ProbeChain(b, cap),
         NEW j \in 0 .. cap - 1
  PROVE  ProbeChain([b EXCEPT ![j] = DELETED], cap)
<1> DEFINE c == [b EXCEPT ![j] = DELETED]
<1>1. SUFFICES ASSUME NEW t \in Symbols, NEW k \in 0 .. cap - 1,
                      At(c, cap, NameOf[t], k) = t, NEW m \in 0 .. k - 1
               PROVE  At(c, cap, NameOf[t], m) # NULL
  BY DEF ProbeChain
<1> DEFINE p == Probe(Home(NameOf[t], cap), k, cap)
           q == Probe(Home(NameOf[t], cap), m, cap)
<1>2. NameOf[t] \in Names BY ConstantsAssumption
<1>3. p \in 0 .. cap - 1 /\ q \in 0 .. cap - 1 BY <1>2, ProbeInRange
<1>4. c[p] = t BY <1>1 DEF At
<1>5. p # j /\ b[p] = t BY <1>3, <1>4, ConstantsAssumption DEF Table
<1>6. b[q] # NULL BY <1>5 DEF ProbeChain, At
<1>7. c[q] # NULL BY <1>3, <1>6, ConstantsAssumption DEF Table
<1>8. QED BY <1>7 DEF At

(* Insert(), the loop of put(), keeps the type of the table and its chains.  *)
LEMMA InsertKeepsTable ==
  ASSUME NEW cap \in Nat \ {0}, NEW b \in Table(cap), ProbeChain(b, cap),
         NEW s \in Symbols, count \in Int, Insert(b, cap, s)
  PROVE  buckets' \in Table(cap) /\ ProbeChain(buckets', cap) /\ count' \in Int
<1> DEFINE i == FirstTake(b, cap, NameOf[s])
           j == Probe(Home(NameOf[s], cap), i, cap)
<1>1. /\ i \in 0 .. cap
      /\ \A m \in 0 .. i - 1 : ~Takes(At(b, cap, NameOf[s], m), NameOf[s])
  BY FirstTakeIsFirst
<1>2. CASE i = cap
  BY <1>2 DEF Insert
<1>3. CASE i # cap
  <2>1. i \in 0 .. cap - 1 BY <1>1, <1>3
  <2>2. \A m \in 0 .. i - 1 : At(b, cap, NameOf[s], m) # NULL
    BY <1>1, ConstantsAssumption DEF Takes, Live
  <2>3. buckets' = [b EXCEPT ![j] = s] /\ count' \in Int
    BY <1>3 DEF Insert
  <2>4. buckets' \in Table(cap) BY <2>3 DEF Table
  <2>5. ProbeChain([b EXCEPT ![j] = s], cap)
    BY <2>1, <2>2, StoreKeepsChains
  <2>6. QED BY <2>3, <2>4, <2>5
<1>4. QED BY <1>2, <1>3

(* Place(), the inner loop of rehash(), does the same.                       *)
LEMMA PlaceKeepsTable ==
  ASSUME NEW cap \in Nat \ {0}, NEW b \in [0 .. cap - 1 -> Symbols \cup {NULL}],
         ProbeChain(b, cap), NEW s \in Symbols
  PROVE  /\ Place(b, cap, s) \in [0 .. cap - 1 -> Symbols \cup {NULL}]
         /\ ProbeChain(Place(b, cap, s), cap)
<1> DEFINE i == FirstFree(b, cap, NameOf[s])
           j == Probe(Home(NameOf[s], cap), i, cap)
<1>1. /\ i \in 0 .. cap
      /\ \A m \in 0 .. i - 1 : Live(At(b, cap, NameOf[s], m))
  BY FirstFreeIsFirst
<1>2. b \in Table(cap) BY DEF Table
<1>3. CASE i = cap
  BY <1>3 DEF Place
<1>4. CASE i # cap
  <2>1. i \in 0 .. cap - 1 BY <1>1, <1>4
  <2>2. \A m \in 0 .. i - 1 : At(b, cap, NameOf[s], m) # NULL
    BY <1>1, ConstantsAssumption DEF Live
  <2>3. Place(b, cap, s) = [b EXCEPT ![j] = s] BY <1>4 DEF Place
  <2>4. ProbeChain([b EXCEPT ![j] = s], cap)
    BY <1>2, <2>1, <2>2, StoreKeepsChains
  <2>5. QED BY <2>3, <2>4
<1>5. QED BY <1>3, <1>4

(* The new table that rehash() fills has no chains to break.                 *)
LEMMA EmptyTableChains ==
  ASSUME NEW cap \in Nat
  PROVE  /\ EmptyTable(cap) \in [0 .. cap - 1 -> {NULL}]
         /\ cap # 0 => ProbeChain(EmptyTable(cap), cap)
<1>1. EmptyTable(cap) \in [0 .. cap - 1 -> {NULL}] BY DEF EmptyTable
<1>2. ASSUME cap # 0, NEW s \in Symbols, NEW k \in 0 .. cap - 1
      PROVE  At(EmptyTable(cap), cap, NameOf[s], k) # s
  <2>1. NameOf[s] \in Names BY ConstantsAssumption
  <2>2. Probe(Home(NameOf[s], cap), k, cap) \in 0 .. cap - 1
    BY <1>2, <2>1, ProbeInRange
  <2>3. QED BY <1>1, <2>2, ConstantsAssumption DEF At
<1>3. QED BY <1>1, <1>2 DEF ProbeChain

------------------------------------------------------------------------------
(* The inductive invariant: the types and the chains together.               *)

ChainInv == FieldTypes /\ ProbeChainsIntact

(* A new table is empty.                                                     *)
LEMMA ChainInvInit == Init => ChainInv
<1> SUFFICES ASSUME Init PROVE ChainInv OBVIOUS
<1>1. capacity \in Nat \ {0} /\ Idle BY ConstantsAssumption DEF Init, Idle
<1>2. buckets \in [0 .. capacity - 1 -> {NULL}] /\ ProbeChain(buckets, capacity)
  BY <1>1, EmptyTableChains DEF Init
<1>3. new_buckets \in [0 .. -1 -> {NULL}] BY EmptyTableChains DEF Init
<1>4. QED BY <1>1, <1>2, <1>3 DEF Init, ChainInv, FieldTypes, ProbeChainsIntact

(* Types and intact chains are inductive: every operation keeps them.        *)
LEMMA ChainInvStep == ChainInv /\ [Next]_vars => ChainInv'
<1> SUFFICES ASSUME ChainInv, [Next]_vars PROVE ChainInv' OBVIOUS
<1> USE DEF ChainInv
<1>1. capacity \in Nat \ {0} /\ buckets \in Table(capacity)
  BY DEF FieldTypes, Table
<1>2. ASSUME NEW s \in Symbols, put(s) PROVE ChainInv'
  <2>1. Idle /\ Idle' /\ capacity' = capacity
    BY <1>2 DEF put, Idle
  <2>2. buckets' \in Table(capacity) /\ ProbeChain(buckets', capacity) /\ count' \in Int
    BY <1>1, <1>2, InsertKeepsTable DEF put, FieldTypes, ProbeChainsIntact
  <2>3. QED BY <1>2, <2>1, <2>2 DEF put, FieldTypes, ProbeChainsIntact, Table
<1>3. ASSUME NEW s \in Symbols, put_rehash(s) PROVE ChainInv'
  <2>1. ~Idle' BY <1>3, ConstantsAssumption DEF put_rehash, Idle
  <2>2. 2 * capacity \in Nat \ {0} BY <1>1
  <2>3. /\ new_buckets' \in [0 .. 2 * capacity - 1 -> Symbols \cup {NULL}]
        /\ ProbeChain(new_buckets', 2 * capacity)
    <3>1. /\ EmptyTable(2 * capacity) \in [0 .. 2 * capacity - 1 -> {NULL}]
          /\ ProbeChain(EmptyTable(2 * capacity), 2 * capacity)
      BY <2>2, EmptyTableChains
    <3>2. QED BY <1>3, <3>1 DEF put_rehash
  <2>4. FieldTypes' BY <1>1, <1>3, <2>1, <2>3 DEF put_rehash, FieldTypes
  <2>5. ProbeChainsIntact' BY <1>3, <2>1, <2>3 DEF put_rehash, ProbeChainsIntact
  <2>6. QED BY <2>4, <2>5
<1>4. ASSUME RehashStep PROVE ChainInv'
  <2>1. /\ ~Idle /\ ~Idle' /\ capacity' = capacity /\ buckets' = buckets
        /\ count' = count /\ pending' = pending /\ scan' \in 0 .. capacity
    BY <1>4 DEF RehashStep, Idle, FieldTypes
  <2>2. /\ new_buckets \in [0 .. 2 * capacity - 1 -> Symbols \cup {NULL}]
        /\ ProbeChain(new_buckets, 2 * capacity)
        /\ 2 * capacity \in Nat \ {0}
    BY <1>1, <2>1 DEF FieldTypes, ProbeChainsIntact
  <2>3. /\ new_buckets' \in [0 .. 2 * capacity - 1 -> Symbols \cup {NULL}]
        /\ ProbeChain(new_buckets', 2 * capacity)
    <3>1. CASE Live(buckets[scan - 1])
      <4>1. new_buckets' = Place(new_buckets, 2 * capacity, buckets[scan - 1])
        BY <1>4, <3>1 DEF RehashStep
      <4>2. QED BY <2>2, <3>1, <4>1, PlaceKeepsTable DEF Live
    <3>2. CASE ~Live(buckets[scan - 1])
      BY <1>4, <2>2, <3>2 DEF RehashStep
    <3>3. QED BY <3>1, <3>2
  <2>4. QED BY <2>1, <2>3 DEF FieldTypes, ProbeChainsIntact
<1>5. ASSUME RehashDone PROVE ChainInv'
  <2>1. ~Idle /\ Idle' /\ capacity' = 2 * capacity /\ pending \in Symbols
    BY <1>5 DEF RehashDone, Idle, FieldTypes
  <2>2. /\ new_buckets \in Table(2 * capacity)
        /\ ProbeChain(new_buckets, 2 * capacity)
        /\ 2 * capacity \in Nat \ {0}
    BY <1>1, <2>1 DEF FieldTypes, ProbeChainsIntact, Table
  <2>3. /\ buckets' \in Table(2 * capacity) /\ count' \in Int
        /\ ProbeChain(buckets', 2 * capacity)
    BY <1>5, <2>1, <2>2, InsertKeepsTable DEF RehashDone, FieldTypes
  <2>4. new_buckets' \in [0 .. -1 -> {NULL}]
    BY <1>5, EmptyTableChains DEF RehashDone
  <2>5. scan' \in 0 .. capacity' BY <1>5, <2>1, <2>2 DEF RehashDone
  <2>6. pending' \in Symbols \cup {NULL} BY <1>5 DEF RehashDone
  <2>7. QED BY <2>1, <2>2, <2>3, <2>4, <2>5, <2>6 DEF FieldTypes, ProbeChainsIntact, Table
<1>6. ASSUME NEW s \in Symbols, remove(s) PROVE ChainInv'
  <2> DEFINE n == NameOf[s]
             i == FirstStop(buckets, capacity, n)
             j == Probe(Home(n, capacity), i, capacity)
  <2>1. /\ Idle /\ Idle' /\ capacity' = capacity /\ scan' = scan
        /\ new_buckets' = new_buckets /\ pending' = pending
    BY <1>6 DEF remove, Idle
  <2>2. buckets' \in Table(capacity) /\ ProbeChain(buckets', capacity) /\ count' \in Int
    <3>1. CASE i = capacity \/ buckets[j] = NULL
      BY <1>1, <1>6, <3>1 DEF remove, FieldTypes, ProbeChainsIntact
    <3>2. CASE ~(i = capacity \/ buckets[j] = NULL)
      <4>1. i \in 0 .. capacity - 1 BY <1>1, <3>2, FirstStopIsFirst
      <4>2. n \in Names BY ConstantsAssumption
      <4>3. j \in 0 .. capacity - 1 BY <1>1, <4>1, <4>2, ProbeInRange
      <4>4. buckets' = [buckets EXCEPT ![j] = DELETED] /\ count' \in Int
        BY <1>6, <3>2 DEF remove, FieldTypes
      <4>5. ProbeChain([buckets EXCEPT ![j] = DELETED], capacity)
        BY <1>1, <4>3, TombstoneKeepsChains DEF ProbeChainsIntact
      <4>6. QED BY <1>1, <4>4, <4>5 DEF Table
    <3>3. QED BY <3>1, <3>2
  <2>3. QED BY <2>1, <2>2 DEF FieldTypes, ProbeChainsIntact, Table
<1>7. ASSUME UNCHANGED vars PROVE ChainInv'
  BY <1>7 DEF vars, FieldTypes, ProbeChainsIntact, Idle
<1>8. QED BY <1>2, <1>3, <1>4, <1>5, <1>6, <1>7 DEF Next

(* put(), remove() and every step of rehash() keep the probe sequence of     *)
(* every stored symbol intact, whatever the client calls.                    *)
THEOREM ChainsIntact == Spec => []ProbeChainsIntact
<1>1. ChainInv => ProbeChainsIntact BY DEF ChainInv
<1>2. QED BY <1>1, ChainInvInit, ChainInvStep, PTL DEF Spec

(* get() looks at every bucket up to the first NULL, so an intact sequence   *)
(* leads it to a symbol of the stored name.                                  *)
LEMMA ChainsMakeNamesFound == ChainInv => StoredNamesAreFound
<1> SUFFICES ASSUME ChainInv, NEW j \in 0 .. capacity - 1, Live(buckets[j])
             PROVE  Matches(get(NameOf[buckets[j]]), NameOf[buckets[j]])
  BY DEF StoredNamesAreFound
<1> DEFINE s == buckets[j]
           n == NameOf[s]
           i == FirstStop(buckets, capacity, n)
<1>1. capacity \in Nat \ {0} /\ s \in Symbols /\ n \in Names
  BY ConstantsAssumption DEF ChainInv, FieldTypes, Live
<1>2. PICK k \in 0 .. capacity - 1 : Probe(Home(n, capacity), k, capacity) = j
  BY <1>1, ProbeSurjective
<1>3. At(buckets, capacity, n, k) = s BY <1>2 DEF At
<1>4. \A m \in 0 .. k - 1 : At(buckets, capacity, n, m) # NULL
  BY <1>1, <1>3 DEF ChainInv, ProbeChainsIntact, ProbeChain
<1>5. /\ i \in 0 .. capacity
      /\ i < capacity => Stops(At(buckets, capacity, n, i), n)
      /\ \A m \in 0 .. i - 1 : ~Stops(At(buckets, capacity, n, m), n)
  BY <1>1, FirstStopIsFirst
<1> HIDE DEF i
<1>6. Stops(At(buckets, capacity, n, k), n)
  BY <1>1, <1>3 DEF Stops, Matches, Live
<1>7. i <= k BY <1>1, <1>2, <1>5, <1>6
<1>8. At(buckets, capacity, n, i) # NULL
  <2>1. CASE i = k BY <1>1, <1>3, <2>1, ConstantsAssumption
  <2>2. CASE i < k BY <1>4, <1>5, <2>2
  <2>3. QED BY <1>2, <1>5, <1>7, <2>1, <2>2
<1>9. i < capacity BY <1>1, <1>2, <1>5, <1>7
<1>10. Matches(At(buckets, capacity, n, i), n) BY <1>5, <1>8, <1>9 DEF Stops
<1>11. get(n) = At(buckets, capacity, n, i) BY <1>1, <1>9 DEF get, Lookup, i
<1>12. QED BY <1>10, <1>11

(* Nothing that is stored ever becomes invisible to get().                   *)
THEOREM NamesFound == Spec => []StoredNamesAreFound
BY ChainInvInit, ChainInvStep, ChainsMakeNamesFound, PTL DEF Spec

------------------------------------------------------------------------------
(* The count of the buckets in use.                                          *)

(* The buckets from k on that hold a symbol.                                 *)
LiveFrom(b, k, cap) == {j \in k .. cap - 1 : Live(b[j])}

(* Finitely many buckets are in use.                                         *)
LEMMA LiveFinite ==
  ASSUME NEW cap \in Nat, NEW k \in Nat, NEW b
  PROVE  IsFiniteSet(LiveFrom(b, k, cap)) /\ Cardinality(LiveFrom(b, k, cap)) \in Nat
<1>1. IsFiniteSet(k .. cap - 1) BY FS_Interval
<1>2. LiveFrom(b, k, cap) \subseteq k .. cap - 1 BY DEF LiveFrom
<1>3. QED BY <1>1, <1>2, FS_Subset, FS_CardinalityType

(* If fewer buckets are in use than there are, one is free.                  *)
LEMMA RoomExists ==
  ASSUME NEW cap \in Nat, NEW b, Cardinality(LiveFrom(b, 0, cap)) < cap
  PROVE  \E j \in 0 .. cap - 1 : ~Live(b[j])
<1> SUFFICES ASSUME \A j \in 0 .. cap - 1 : Live(b[j]) PROVE FALSE OBVIOUS
<1>1. LiveFrom(b, 0, cap) = 0 .. cap - 1 BY DEF LiveFrom
<1>2. Cardinality(0 .. cap - 1) = cap
  <2>1. Cardinality(0 .. cap - 1) = IF 0 > cap - 1 THEN 0 ELSE (cap - 1) - 0 + 1
    BY FS_Interval
  <2>2. QED BY <2>1
<1>3. QED BY <1>1, <1>2

(* A free bucket is on every probe sequence.                                 *)
LEMMA RoomOnSequence ==
  ASSUME NEW cap \in Nat \ {0}, NEW b, Cardinality(LiveFrom(b, 0, cap)) < cap,
         NEW n \in Names
  PROVE  \E i \in 0 .. cap - 1 : ~Live(At(b, cap, n, i))
<1>1. PICK j \in 0 .. cap - 1 : ~Live(b[j]) BY RoomExists
<1>2. PICK i \in 0 .. cap - 1 : Probe(Home(n, cap), i, cap) = j BY ProbeSurjective
<1>3. QED BY <1>1, <1>2 DEF At

(* No more buckets are in use than there are.                                *)
LEMMA LiveAtMost ==
  ASSUME NEW cap \in Nat \ {0}, NEW k \in Nat, NEW b
  PROVE  Cardinality(LiveFrom(b, k, cap)) <= cap
<1>1. LiveFrom(b, k, cap) \subseteq 0 .. cap - 1 BY DEF LiveFrom
<1>2. /\ IsFiniteSet(0 .. cap - 1)
      /\ Cardinality(0 .. cap - 1) = IF 0 > cap - 1 THEN 0 ELSE (cap - 1) - 0 + 1
  BY FS_Interval
<1>3. Cardinality(0 .. cap - 1) = cap BY <1>2
<1>4. QED BY <1>1, <1>2, <1>3, FS_Subset

(* A symbol in a bucket makes one more bucket in use, or none if it replaces *)
(* a symbol.                                                                 *)
LEMMA StoreCounts ==
  ASSUME NEW cap \in Nat, NEW b \in Table(cap), NEW s \in Symbols, NEW j \in 0 .. cap - 1
  PROVE  Cardinality(LiveFrom([b EXCEPT ![j] = s], 0, cap))
           = Cardinality(LiveFrom(b, 0, cap)) + (IF Live(b[j]) THEN 0 ELSE 1)
<1> DEFINE c == [b EXCEPT ![j] = s]
<1>1. c[j] = s /\ \A k \in 0 .. cap - 1 : k # j => c[k] = b[k] BY DEF Table
<1>2. IsFiniteSet(LiveFrom(b, 0, cap)) /\ Cardinality(LiveFrom(b, 0, cap)) \in Nat
  BY LiveFinite
<1> HIDE DEF c
<1>3. LiveFrom(c, 0, cap) = LiveFrom(b, 0, cap) \cup {j}
  BY <1>1 DEF LiveFrom, Live
<1>4. CASE Live(b[j])
  <2>1. LiveFrom(c, 0, cap) = LiveFrom(b, 0, cap) BY <1>3, <1>4 DEF LiveFrom
  <2>2. QED BY <1>2, <1>4, <2>1 DEF c
<1>5. CASE ~Live(b[j])
  <2>1. j \notin LiveFrom(b, 0, cap) BY <1>5 DEF LiveFrom
  <2>2. Cardinality(LiveFrom(c, 0, cap)) = Cardinality(LiveFrom(b, 0, cap)) + 1
    BY <1>2, <1>3, <2>1, FS_AddElement
  <2>3. QED BY <1>5, <2>2 DEF c
<1>6. QED BY <1>4, <1>5

(* put() counts what it stores.                                              *)
LEMMA InsertCounts ==
  ASSUME NEW cap \in Nat \ {0}, NEW b \in Table(cap), NEW s \in Symbols,
         count = Cardinality(LiveFrom(b, 0, cap)), Insert(b, cap, s)
  PROVE  count' = Cardinality(LiveFrom(buckets', 0, cap)) /\ count' \in {count, count + 1}
<1> DEFINE i == FirstTake(b, cap, NameOf[s])
           j == Probe(Home(NameOf[s], cap), i, cap)
<1>1. i \in 0 .. cap BY FirstTakeIsFirst
<1>2. NameOf[s] \in Names BY ConstantsAssumption
<1>3. count \in Nat BY LiveFinite
<1>4. CASE i = cap BY <1>4 DEF Insert
<1>5. CASE i # cap
  <2>1. i \in 0 .. cap - 1 BY <1>1, <1>5
  <2>2. j \in 0 .. cap - 1 BY <1>2, <2>1, ProbeInRange
  <2>3. /\ buckets' = [b EXCEPT ![j] = s]
        /\ count' = IF Live(b[j]) THEN count ELSE count + 1
    BY <1>5 DEF Insert
  <2> HIDE DEF j
  <2>4. Cardinality(LiveFrom([b EXCEPT ![j] = s], 0, cap))
          = Cardinality(LiveFrom(b, 0, cap)) + (IF Live(b[j]) THEN 0 ELSE 1)
    BY <2>2, StoreCounts
  <2>5. QED BY <1>3, <2>3, <2>4
<1>6. QED BY <1>4, <1>5

(* An iteration of rehash() finds room for the symbol that it moves.         *)
LEMMA PlaceCounts ==
  ASSUME NEW cap \in Nat \ {0}, NEW b \in Table(cap),
         Cardinality(LiveFrom(b, 0, cap)) < cap, NEW s \in Symbols
  PROVE  Cardinality(LiveFrom(Place(b, cap, s), 0, cap))
           = Cardinality(LiveFrom(b, 0, cap)) + 1
<1> DEFINE n == NameOf[s]
           i == FirstFree(b, cap, n)
           j == Probe(Home(n, cap), i, cap)
<1>1. n \in Names BY ConstantsAssumption
<1>2. /\ i \in 0 .. cap
      /\ i < cap => ~Live(At(b, cap, n, i))
      /\ \A m \in 0 .. i - 1 : Live(At(b, cap, n, m))
  BY FirstFreeIsFirst
<1>3. PICK r \in 0 .. cap - 1 : ~Live(At(b, cap, n, r)) BY <1>1, RoomOnSequence
<1>4. i # cap /\ i \in 0 .. cap - 1
  <2> HIDE DEF i
  <2>1. QED BY <1>2, <1>3
<1>5. j \in 0 .. cap - 1 BY <1>1, <1>4, ProbeInRange
<1>6. ~Live(b[j]) BY <1>2, <1>4 DEF At
<1>7. Place(b, cap, s) = [b EXCEPT ![j] = s] BY <1>4 DEF Place
<1> HIDE DEF j
<1>8. Cardinality(LiveFrom([b EXCEPT ![j] = s], 0, cap))
        = Cardinality(LiveFrom(b, 0, cap)) + (IF Live(b[j]) THEN 0 ELSE 1)
  BY <1>5, StoreCounts
<1>9. Cardinality(LiveFrom([b EXCEPT ![j] = s], 0, cap)) = Cardinality(LiveFrom(b, 0, cap)) + 1
  BY <1>6, <1>8
<1>10. QED BY <1>7, <1>9, Zenon

(* While rehash() runs, as many buckets of the new table are in use as have  *)
(* been moved.                                                               *)
CountInv ==
  /\ count = Cardinality(LiveFrom(buckets, 0, capacity))
  /\ count <= Threshold(capacity)
  /\ ~Idle => Cardinality(LiveFrom(new_buckets, 0, 2 * capacity))
                = Cardinality(LiveFrom(buckets, scan, capacity))

(* A doubled table has room below its load factor.                           *)
LEMMA DoubledThreshold ==
  ASSUME NEW cap \in Nat \ {0}
  PROVE  /\ Threshold(cap) \in Nat /\ Threshold(2 * cap) \in Nat
         /\ Threshold(cap) + 1 <= Threshold(2 * cap)
BY DEF Threshold

(* A new table is empty.                                                     *)
LEMMA CountInvInit == Init => CountInv
<1> SUFFICES ASSUME Init PROVE CountInv OBVIOUS
<1>1. capacity \in Nat \ {0} /\ Idle BY ConstantsAssumption DEF Init, Idle
<1>2. buckets \in [0 .. capacity - 1 -> {NULL}] BY <1>1, EmptyTableChains DEF Init
<1>3. LiveFrom(buckets, 0, capacity) = {} BY <1>2, ConstantsAssumption DEF LiveFrom, Live
<1>4. 0 <= Threshold(capacity) BY <1>1, DoubledThreshold
<1>5. QED BY <1>1, <1>3, <1>4, FS_EmptySet DEF Init, CountInv

(* Every operation keeps the count.                                          *)
LEMMA CountInvStep == ChainInv /\ CountInv /\ [Next]_vars => CountInv'
<1> SUFFICES ASSUME ChainInv, CountInv, [Next]_vars PROVE CountInv' OBVIOUS
<1>1. /\ capacity \in Nat \ {0} /\ buckets \in Table(capacity) /\ scan \in 0 .. capacity
      /\ 2 * capacity \in Nat \ {0}
      /\ ~Idle => new_buckets \in Table(2 * capacity) /\ pending \in Symbols
  BY DEF ChainInv, FieldTypes, Table, Idle
<1>2. /\ Threshold(capacity) \in Nat /\ Threshold(2 * capacity) \in Nat
      /\ Threshold(capacity) + 1 <= Threshold(2 * capacity)
  BY <1>1, DoubledThreshold
<1>3. count = Cardinality(LiveFrom(buckets, 0, capacity)) /\ count \in Nat
      /\ count <= Threshold(capacity)
  BY <1>1, LiveFinite DEF CountInv
<1>4. ASSUME NEW s \in Symbols, put(s) PROVE CountInv'
  <2>1. Idle' /\ capacity' = capacity /\ count < Threshold(capacity)
        /\ Insert(buckets, capacity, s)
    BY <1>4 DEF put, Idle
  <2>2. /\ count' = Cardinality(LiveFrom(buckets', 0, capacity))
        /\ count' \in {count, count + 1}
    BY <1>1, <1>3, <2>1, InsertCounts
  <2>3. count' <= Threshold(capacity) BY <1>2, <1>3, <2>1, <2>2
  <2>4. QED BY <2>1, <2>2, <2>3 DEF CountInv
<1>5. ASSUME NEW s \in Symbols, put_rehash(s) PROVE CountInv'
  <2>1. /\ UNCHANGED <<buckets, capacity, count>> /\ scan' = capacity
        /\ new_buckets' = EmptyTable(2 * capacity)
    BY <1>5 DEF put_rehash
  <2>2. LiveFrom(buckets, capacity, capacity) = {} BY <1>1 DEF LiveFrom
  <2>3. LiveFrom(new_buckets', 0, 2 * capacity) = {}
    BY <1>1, <2>1, ConstantsAssumption DEF LiveFrom, EmptyTable, Live
  <2>4. QED BY <1>3, <2>1, <2>2, <2>3 DEF CountInv
<1>6. ASSUME RehashStep PROVE CountInv'
  <2> DEFINE k == scan - 1
             s == buckets[k]
             new == new_buckets
             cap == 2 * capacity
  <2>1. /\ ~Idle /\ scan' = k /\ k \in 0 .. capacity - 1 /\ scan = k + 1
        /\ UNCHANGED <<buckets, capacity, count>>
        /\ new_buckets' = IF Live(s) THEN Place(new, cap, s) ELSE new
    BY <1>1, <1>6 DEF RehashStep
  <2>2. /\ Cardinality(LiveFrom(new, 0, cap)) = Cardinality(LiveFrom(buckets, scan, capacity))
        /\ new \in Table(cap) /\ cap \in Nat \ {0}
    BY <1>1, <2>1 DEF CountInv
  <2>3. /\ IsFiniteSet(LiveFrom(buckets, scan, capacity))
        /\ Cardinality(LiveFrom(buckets, scan, capacity)) \in Nat
    BY <1>1, LiveFinite
  <2>4. k \notin LiveFrom(buckets, scan, capacity) BY <2>1 DEF LiveFrom
  <2> HIDE DEF k, new
  <2>5. Cardinality(LiveFrom(new_buckets', 0, cap))
          = Cardinality(LiveFrom(buckets, k, capacity))
    <3>1. CASE Live(s)
      <4>1. LiveFrom(buckets, k, capacity) = LiveFrom(buckets, scan, capacity) \cup {k}
        BY <1>1, <2>1, <3>1 DEF LiveFrom
      <4>2. Cardinality(LiveFrom(buckets, k, capacity))
              = Cardinality(LiveFrom(buckets, scan, capacity)) + 1
        BY <2>3, <2>4, <4>1, FS_AddElement
      <4>3. Cardinality(LiveFrom(buckets, scan, capacity)) <= capacity
        BY <1>1, LiveAtMost
      <4>4. Cardinality(LiveFrom(new, 0, cap)) < cap BY <1>1, <2>2, <2>3, <4>3
      <4>5. s \in Symbols /\ new_buckets' = Place(new, cap, s) BY <2>1, <3>1 DEF Live
      <4> HIDE DEF s, cap
      <4>6. Cardinality(LiveFrom(Place(new, cap, s), 0, cap))
              = Cardinality(LiveFrom(new, 0, cap)) + 1
        BY <2>2, <4>4, <4>5, PlaceCounts
      <4>7. QED BY <2>2, <4>2, <4>5, <4>6
    <3>2. CASE ~Live(s)
      <4>1. LiveFrom(buckets, k, capacity) = LiveFrom(buckets, scan, capacity)
        BY <1>1, <2>1, <3>2 DEF LiveFrom
      <4>2. new_buckets' = new BY <2>1, <3>2
      <4> HIDE DEF s, cap
      <4>3. QED BY <2>2, <4>1, <4>2
    <3>3. QED BY <3>1, <3>2
  <2>6. QED BY <1>3, <2>1, <2>5 DEF CountInv
<1>7. ASSUME RehashDone PROVE CountInv'
  <2>1. /\ ~Idle /\ Idle' /\ scan = 0 /\ capacity' = 2 * capacity
        /\ Insert(new_buckets, 2 * capacity, pending)
    BY <1>7 DEF RehashDone, Idle
  <2>2. count = Cardinality(LiveFrom(new_buckets, 0, 2 * capacity))
    BY <2>1 DEF CountInv
  <2>3. /\ count' = Cardinality(LiveFrom(buckets', 0, 2 * capacity))
        /\ count' \in {count, count + 1}
    BY <1>1, <2>1, <2>2, InsertCounts
  <2>4. count' <= Threshold(2 * capacity) BY <1>2, <1>3, <2>3
  <2>5. QED BY <2>1, <2>3, <2>4 DEF CountInv
<1>8. ASSUME NEW s \in Symbols, remove(s) PROVE CountInv'
  <2> DEFINE n == NameOf[s]
             i == FirstStop(buckets, capacity, n)
             j == Probe(Home(n, capacity), i, capacity)
  <2>1. Idle' /\ capacity' = capacity BY <1>8 DEF remove, Idle
  <2>2. CASE i = capacity \/ buckets[j] = NULL
    BY <1>3, <1>8, <2>1, <2>2 DEF remove, CountInv
  <2>3. CASE ~(i = capacity \/ buckets[j] = NULL)
    <3>1. /\ i \in 0 .. capacity - 1 /\ Stops(At(buckets, capacity, n, i), n)
      BY <1>1, <2>3, FirstStopIsFirst
    <3>2. n \in Names BY ConstantsAssumption
    <3>3. j \in 0 .. capacity - 1 BY <1>1, <3>1, <3>2, ProbeInRange
    <3>4. Live(buckets[j]) BY <2>3, <3>1 DEF Stops, Matches, At
    <3>5. buckets' = [buckets EXCEPT ![j] = DELETED] /\ count' = count - 1
      BY <1>8, <2>3 DEF remove
    <3> HIDE DEF j
    <3>6. buckets'[j] = DELETED /\ \A k \in 0 .. capacity - 1 : k # j => buckets'[k] = buckets[k]
      BY <1>1, <3>3, <3>5 DEF Table
    <3>7. /\ LiveFrom(buckets', 0, capacity) = LiveFrom(buckets, 0, capacity) \ {j}
          /\ j \in LiveFrom(buckets, 0, capacity)
      BY <3>3, <3>4, <3>6, ConstantsAssumption DEF LiveFrom, Live
    <3>8. Cardinality(LiveFrom(buckets', 0, capacity)) = count - 1
      BY <1>1, <1>3, <3>7, LiveFinite, FS_RemoveElement
    <3>9. count' <= Threshold(capacity) BY <1>2, <1>3, <3>5
    <3>10. QED BY <2>1, <3>5, <3>8, <3>9 DEF CountInv
  <2>4. QED BY <2>2, <2>3
<1>9. ASSUME UNCHANGED vars PROVE CountInv'
  BY <1>9 DEF vars, CountInv, Idle
<1>10. QED BY <1>4, <1>5, <1>6, <1>7, <1>8, <1>9 DEF Next

(* Every reachable state has the types of the fields and an exact count of   *)
(* the buckets in use, which leaves put() a bucket to take, whatever the     *)
(* client calls.                                                             *)
THEOREM TypeCorrect == Spec => []TypeOK
<1>1. ChainInv /\ CountInv => TypeOK
  BY DEF ChainInv, CountInv, TypeOK, LiveFrom
<1>2. ChainInv /\ CountInv /\ [Next]_vars => ChainInv' /\ CountInv'
  BY ChainInvStep, CountInvStep
<1>3. QED BY <1>1, <1>2, ChainInvInit, CountInvInit, PTL DEF Spec

------------------------------------------------------------------------------
(* The table implements a map, for a client that looks a name up first.      *)

(* The symbols in the buckets from k on.                                     *)
StoredFrom(b, k, cap) == {b[j] : j \in LiveFrom(b, k, cap)}

(* No name is in two buckets.                                                *)
OneBucket(b, cap) ==
  \A j, k \in LiveFrom(b, 0, cap) : NameOf[b[j]] = NameOf[b[k]] => j = k

(* get() returns the symbol that is stored, if there is one of the name.     *)
LEMMA LookupFindsStored ==
  ASSUME NEW cap \in Nat \ {0}, NEW b \in Table(cap), ProbeChain(b, cap),
         OneBucket(b, cap), NEW s \in StoredFrom(b, 0, cap)
  PROVE  Lookup(b, cap, NameOf[s]) = s
<1> DEFINE n == NameOf[s]
           i == FirstStop(b, cap, n)
<1>1. PICK j \in LiveFrom(b, 0, cap) : b[j] = s BY DEF StoredFrom
<1>2. j \in 0 .. cap - 1 /\ s \in Symbols /\ n \in Names
  BY <1>1, ConstantsAssumption DEF LiveFrom, Live
<1>3. PICK k \in 0 .. cap - 1 : Probe(Home(n, cap), k, cap) = j
  BY <1>2, ProbeSurjective
<1>4. At(b, cap, n, k) = s BY <1>1, <1>3 DEF At
<1>5. \A m \in 0 .. k - 1 : At(b, cap, n, m) # NULL
  BY <1>2, <1>4 DEF ProbeChain
<1>6. /\ i \in 0 .. cap
      /\ i < cap => Stops(At(b, cap, n, i), n)
      /\ \A m \in 0 .. i - 1 : ~Stops(At(b, cap, n, m), n)
  BY FirstStopIsFirst
<1> HIDE DEF i
<1>7. Stops(At(b, cap, n, k), n) BY <1>2, <1>4 DEF Stops, Matches, Live
<1>8. i <= k BY <1>3, <1>6, <1>7
<1>9. i \in 0 .. cap - 1 BY <1>3, <1>6, <1>8
<1>10. At(b, cap, n, i) # NULL
  <2>1. CASE i = k BY <1>2, <1>4, <2>1, ConstantsAssumption
  <2>2. CASE i < k BY <1>5, <1>9, <2>2
  <2>3. QED BY <1>3, <1>8, <1>9, <2>1, <2>2
<1>11. Matches(At(b, cap, n, i), n) BY <1>6, <1>9, <1>10 DEF Stops
<1> DEFINE p == Probe(Home(n, cap), i, cap)
<1>12. p \in LiveFrom(b, 0, cap) /\ NameOf[b[p]] = n
  BY <1>2, <1>9, <1>11, ProbeInRange DEF LiveFrom, Matches, At
<1>13. p = j BY <1>1, <1>12 DEF OneBucket
<1>14. Lookup(b, cap, n) = At(b, cap, n, i) BY <1>9 DEF Lookup, i
<1>15. QED BY <1>1, <1>13, <1>14 DEF At

(* It returns NULL if there is none.                                         *)
LEMMA LookupMissesOthers ==
  ASSUME NEW cap \in Nat \ {0}, NEW b \in Table(cap), NEW n \in Names,
         \A t \in StoredFrom(b, 0, cap) : NameOf[t] # n
  PROVE  Lookup(b, cap, n) = NULL
<1> DEFINE i == FirstStop(b, cap, n)
<1>1. i \in 0 .. cap /\ (i < cap => Stops(At(b, cap, n, i), n)) BY FirstStopIsFirst
<1>2. Lookup(b, cap, n) = IF i = cap THEN NULL ELSE At(b, cap, n, i) BY DEF Lookup
<1> HIDE DEF i
<1>3. CASE i = cap BY <1>2, <1>3
<1>4. CASE i # cap
  <2>1. i \in 0 .. cap - 1 BY <1>1, <1>4
  <2>2. Probe(Home(n, cap), i, cap) \in 0 .. cap - 1 BY <2>1, ProbeInRange
  <2>3. ~Matches(At(b, cap, n, i), n)
    BY <2>2 DEF Matches, At, StoredFrom, LiveFrom
  <2>4. QED BY <1>1, <1>2, <1>4, <2>1, <2>3 DEF Stops
<1>5. QED BY <1>3, <1>4

(* The converse: a name that is not found is not stored.                     *)
LEMMA NotFoundNotStored ==
  ASSUME NEW cap \in Nat \ {0}, NEW b \in Table(cap), ProbeChain(b, cap),
         OneBucket(b, cap), NEW n \in Names, Lookup(b, cap, n) = NULL,
         NEW t \in StoredFrom(b, 0, cap)
  PROVE  NameOf[t] # n
<1>1. t \in Symbols BY DEF StoredFrom, LiveFrom, Live
<1>2. Lookup(b, cap, NameOf[t]) = t BY LookupFindsStored
<1>3. QED BY <1>1, <1>2, ConstantsAssumption

(* A symbol of a new name in a bucket that holds none.                       *)
LEMMA StoreAdds ==
  ASSUME NEW cap \in Nat, NEW b \in Table(cap), OneBucket(b, cap),
         NEW s \in Symbols, \A t \in StoredFrom(b, 0, cap) : NameOf[t] # NameOf[s],
         NEW j \in 0 .. cap - 1, ~Live(b[j]),
         NEW c, c[j] = s, \A k \in 0 .. cap - 1 : k # j => c[k] = b[k]
  PROVE  /\ OneBucket(c, cap)
         /\ StoredFrom(c, 0, cap) = StoredFrom(b, 0, cap) \cup {s}
         /\ Cardinality(LiveFrom(c, 0, cap)) = Cardinality(LiveFrom(b, 0, cap)) + 1
<1>1. c[j] = s /\ \A k \in 0 .. cap - 1 : k # j => c[k] = b[k] OBVIOUS
<1>2. LiveFrom(c, 0, cap) = LiveFrom(b, 0, cap) \cup {j} /\ j \notin LiveFrom(b, 0, cap)
  BY <1>1 DEF LiveFrom, Live
<1>3. \A k \in LiveFrom(b, 0, cap) : k # j /\ c[k] = b[k] /\ b[k] \in StoredFrom(b, 0, cap)
  BY <1>1, <1>2 DEF LiveFrom, StoredFrom
<1>4. OneBucket(c, cap) BY <1>1, <1>2, <1>3 DEF OneBucket
<1>5. StoredFrom(c, 0, cap) = StoredFrom(b, 0, cap) \cup {s}
  <2>1. StoredFrom(c, 0, cap) \subseteq StoredFrom(b, 0, cap) \cup {s}
    BY <1>1, <1>2, <1>3 DEF StoredFrom
  <2>2. s \in StoredFrom(c, 0, cap) BY <1>1, <1>2 DEF StoredFrom
  <2>3. StoredFrom(b, 0, cap) \subseteq StoredFrom(c, 0, cap)
    <3>1. SUFFICES ASSUME NEW k \in LiveFrom(b, 0, cap) PROVE b[k] \in StoredFrom(c, 0, cap)
      BY DEF StoredFrom
    <3>2. c[k] = b[k] /\ k \in LiveFrom(c, 0, cap) BY <1>2, <1>3
    <3>3. QED BY <3>2 DEF StoredFrom
  <2>4. QED BY <2>1, <2>2, <2>3
<1>6. Cardinality(LiveFrom(c, 0, cap)) = Cardinality(LiveFrom(b, 0, cap)) + 1
  BY <1>2, LiveFinite, FS_AddElement
<1>7. QED BY <1>4, <1>5, <1>6

(* A tombstone instead of a symbol.                                          *)
LEMMA DeleteDrops ==
  ASSUME NEW cap \in Nat, NEW b \in Table(cap), OneBucket(b, cap),
         NEW j \in 0 .. cap - 1, Live(b[j]),
         NEW c, c[j] = DELETED, \A k \in 0 .. cap - 1 : k # j => c[k] = b[k]
  PROVE  /\ OneBucket(c, cap)
         /\ StoredFrom(c, 0, cap) = StoredFrom(b, 0, cap) \ {b[j]}
         /\ Cardinality(LiveFrom(c, 0, cap)) = Cardinality(LiveFrom(b, 0, cap)) - 1
<1>1. c[j] = DELETED /\ \A k \in 0 .. cap - 1 : k # j => c[k] = b[k] OBVIOUS
<1>2. LiveFrom(c, 0, cap) = LiveFrom(b, 0, cap) \ {j} /\ j \in LiveFrom(b, 0, cap)
  BY <1>1, ConstantsAssumption DEF LiveFrom, Live
<1>3. \A k \in LiveFrom(c, 0, cap) : c[k] = b[k] /\ b[k] # b[j]
  BY <1>1, <1>2 DEF OneBucket, LiveFrom
<1>4. OneBucket(c, cap) BY <1>2, <1>3 DEF OneBucket
<1>5. StoredFrom(c, 0, cap) = StoredFrom(b, 0, cap) \ {b[j]}
  <2>1. \A k \in LiveFrom(b, 0, cap) : k # j => k \in LiveFrom(c, 0, cap) BY <1>2
  <2>2. LiveFrom(c, 0, cap) \subseteq LiveFrom(b, 0, cap) BY <1>2
  <2>3. QED BY <1>3, <2>1, <2>2 DEF StoredFrom
<1>6. Cardinality(LiveFrom(c, 0, cap)) = Cardinality(LiveFrom(b, 0, cap)) - 1
  BY <1>2, LiveFinite, FS_RemoveElement
<1>7. QED BY <1>4, <1>5, <1>6

(* put() of a new name, if there is room, stores the symbol.                 *)
LEMMA InsertAdds ==
  ASSUME NEW cap \in Nat \ {0}, NEW b \in Table(cap), OneBucket(b, cap),
         Cardinality(LiveFrom(b, 0, cap)) < cap,
         NEW s \in Symbols, \A t \in StoredFrom(b, 0, cap) : NameOf[t] # NameOf[s],
         Insert(b, cap, s)
  PROVE  /\ OneBucket(buckets', cap)
         /\ StoredFrom(buckets', 0, cap) = StoredFrom(b, 0, cap) \cup {s}
         /\ Cardinality(LiveFrom(buckets', 0, cap)) = Cardinality(LiveFrom(b, 0, cap)) + 1
         /\ count' = count + 1
<1> DEFINE n == NameOf[s]
           i == FirstTake(b, cap, n)
           j == Probe(Home(n, cap), i, cap)
<1>1. n \in Names BY ConstantsAssumption
<1>2. /\ i \in 0 .. cap
      /\ i < cap => Takes(At(b, cap, n, i), n)
      /\ \A m \in 0 .. i - 1 : ~Takes(At(b, cap, n, m), n)
  BY FirstTakeIsFirst
<1>3. PICK r \in 0 .. cap - 1 : ~Live(At(b, cap, n, r)) BY <1>1, RoomOnSequence
<1>4. i # cap /\ i \in 0 .. cap - 1
  <2> HIDE DEF i
  <2>1. Takes(At(b, cap, n, r), n) BY <1>3 DEF Takes
  <2>2. QED BY <1>2, <2>1
<1>5. j \in 0 .. cap - 1 BY <1>1, <1>4, ProbeInRange
<1>6. ~Live(b[j])
  <2>1. Takes(b[j], n) BY <1>2, <1>4 DEF At
  <2> HIDE DEF j
  <2>2. Live(b[j]) => b[j] \in StoredFrom(b, 0, cap) BY <1>5 DEF StoredFrom, LiveFrom
  <2>3. QED BY <2>1, <2>2 DEF Takes, Matches
<1>7. buckets' = [b EXCEPT ![j] = s] /\ count' = count + 1
  BY <1>4, <1>6 DEF Insert
<1> HIDE DEF j
<1>8. buckets'[j] = s /\ \A k \in 0 .. cap - 1 : k # j => buckets'[k] = b[k]
  BY <1>5, <1>7 DEF Table
<1>9. /\ OneBucket(buckets', cap)
      /\ StoredFrom(buckets', 0, cap) = StoredFrom(b, 0, cap) \cup {s}
      /\ Cardinality(LiveFrom(buckets', 0, cap)) = Cardinality(LiveFrom(b, 0, cap)) + 1
  BY <1>5, <1>6, <1>8, StoreAdds
<1>10. QED BY <1>7, <1>9

(* So does an iteration of rehash().                                         *)
LEMMA PlaceAdds ==
  ASSUME NEW cap \in Nat \ {0}, NEW b \in Table(cap), OneBucket(b, cap),
         Cardinality(LiveFrom(b, 0, cap)) < cap,
         NEW s \in Symbols, \A t \in StoredFrom(b, 0, cap) : NameOf[t] # NameOf[s]
  PROVE  /\ OneBucket(Place(b, cap, s), cap)
         /\ StoredFrom(Place(b, cap, s), 0, cap) = StoredFrom(b, 0, cap) \cup {s}
         /\ Cardinality(LiveFrom(Place(b, cap, s), 0, cap))
              = Cardinality(LiveFrom(b, 0, cap)) + 1
<1> DEFINE n == NameOf[s]
           i == FirstFree(b, cap, n)
           j == Probe(Home(n, cap), i, cap)
<1>1. n \in Names BY ConstantsAssumption
<1>2. /\ i \in 0 .. cap
      /\ i < cap => ~Live(At(b, cap, n, i))
      /\ \A m \in 0 .. i - 1 : Live(At(b, cap, n, m))
  BY FirstFreeIsFirst
<1>3. PICK r \in 0 .. cap - 1 : ~Live(At(b, cap, n, r)) BY <1>1, RoomOnSequence
<1>4. i # cap /\ i \in 0 .. cap - 1
  <2> HIDE DEF i
  <2>1. QED BY <1>2, <1>3
<1>5. j \in 0 .. cap - 1 BY <1>1, <1>4, ProbeInRange
<1>6. ~Live(b[j]) BY <1>2, <1>4 DEF At
<1> DEFINE c == Place(b, cap, s)
<1>7. c = [b EXCEPT ![j] = s] BY <1>4 DEF Place
<1> HIDE DEF j, c
<1>8. /\ OneBucket(c, cap)
      /\ StoredFrom(c, 0, cap) = StoredFrom(b, 0, cap) \cup {s}
      /\ Cardinality(LiveFrom(c, 0, cap)) = Cardinality(LiveFrom(b, 0, cap)) + 1
  <2>1. c[j] = s /\ \A k \in 0 .. cap - 1 : k # j => c[k] = b[k] BY <1>5, <1>7 DEF Table
  <2>2. QED BY <1>5, <1>6, <2>1, StoreAdds
<1>9. QED BY <1>8 DEF c

(* What the table under construction holds while rehash() runs: the symbols  *)
(* of the buckets that were moved; the name of the symbol that put() is      *)
(* about is not among those of the old table.                                *)
Moved ==
  /\ OneBucket(new_buckets, 2 * capacity)
  /\ StoredFrom(new_buckets, 0, 2 * capacity) = StoredFrom(buckets, scan, capacity)
  /\ Cardinality(LiveFrom(new_buckets, 0, 2 * capacity))
       = Cardinality(LiveFrom(buckets, scan, capacity))
  /\ \A t \in StoredFrom(buckets, 0, capacity) : NameOf[t] # NameOf[pending]

(* _count is the number of buckets in use: put() always finds room.          *)
MapInv ==
  /\ ChainInv
  /\ OneBucket(buckets, capacity)
  /\ count = Cardinality(LiveFrom(buckets, 0, capacity))
  /\ ~Idle => Moved

(* The client looks a name up before it puts a symbol of it.                 *)
LooksUpFirst == Reput = "never"

(* A new table is empty.                                                     *)
LEMMA MapInvInit == Init => MapInv
<1> SUFFICES ASSUME Init PROVE MapInv OBVIOUS
<1>1. ChainInv /\ Idle BY ChainInvInit DEF Init, Idle
<1>2. capacity \in Nat BY <1>1 DEF ChainInv, FieldTypes
<1>3. buckets \in [0 .. capacity - 1 -> {NULL}] BY <1>2, EmptyTableChains DEF Init
<1>4. LiveFrom(buckets, 0, capacity) = {} BY <1>3, ConstantsAssumption DEF LiveFrom, Live
<1>5. QED BY <1>1, <1>4, FS_EmptySet DEF Init, MapInv, OneBucket

(* The facts about the tables that every step starts from.                   *)
LEMMA MapTypes ==
  ASSUME MapInv
  PROVE  /\ capacity \in Nat \ {0} /\ buckets \in Table(capacity)
         /\ ProbeChain(buckets, capacity) /\ OneBucket(buckets, capacity)
         /\ ~Idle => /\ new_buckets \in Table(2 * capacity) /\ 2 * capacity \in Nat \ {0}
                     /\ ProbeChain(new_buckets, 2 * capacity)
                     /\ pending \in Symbols
BY DEF MapInv, ChainInv, FieldTypes, ProbeChainsIntact, Table, Idle

(* put() below the load factor adds its symbol.                              *)
LEMMA PutAdds ==
  ASSUME MapInv, LooksUpFirst, NEW s \in Symbols, put(s)
  PROVE  /\ OneBucket(buckets', capacity) /\ capacity' = capacity /\ Idle'
         /\ StoredFrom(buckets', 0, capacity) = StoredFrom(buckets, 0, capacity) \cup {s}
         /\ count' = Cardinality(LiveFrom(buckets', 0, capacity))
         /\ \A t \in StoredFrom(buckets, 0, capacity) : NameOf[t] # NameOf[s]
<1>1. NameOf[s] \in Names BY ConstantsAssumption
<1>2. /\ Lookup(buckets, capacity, NameOf[s]) = NULL /\ count < Threshold(capacity)
      /\ Insert(buckets, capacity, s) /\ capacity' = capacity /\ Idle'
  BY DEF put, ClientMayPut, LooksUpFirst, get, Idle
<1>3. \A t \in StoredFrom(buckets, 0, capacity) : NameOf[t] # NameOf[s]
  BY <1>1, <1>2, MapTypes, NotFoundNotStored
<1>4. capacity \in Nat \ {0} BY MapTypes
<1>5. Cardinality(LiveFrom(buckets, 0, capacity)) \in Nat BY <1>4, LiveFinite
<1>6. Cardinality(LiveFrom(buckets, 0, capacity)) < capacity
  BY <1>2, <1>4, <1>5 DEF MapInv, Threshold
<1>7. /\ OneBucket(buckets', capacity)
      /\ StoredFrom(buckets', 0, capacity) = StoredFrom(buckets, 0, capacity) \cup {s}
      /\ Cardinality(LiveFrom(buckets', 0, capacity))
           = Cardinality(LiveFrom(buckets, 0, capacity)) + 1
      /\ count' = count + 1
  BY <1>2, <1>3, <1>6, MapTypes, InsertAdds
<1>8. QED BY <1>2, <1>3, <1>7 DEF MapInv

(* put() after rehash() adds its symbol to what the old table held.          *)
LEMMA RehashDoneAdds ==
  ASSUME MapInv, RehashDone
  PROVE  /\ OneBucket(buckets', 2 * capacity) /\ capacity' = 2 * capacity /\ Idle'
         /\ StoredFrom(buckets', 0, 2 * capacity)
              = StoredFrom(buckets, 0, capacity) \cup {pending}
         /\ count' = Cardinality(LiveFrom(buckets', 0, 2 * capacity))
         /\ pending \in Symbols
         /\ \A t \in StoredFrom(buckets, 0, capacity) : NameOf[t] # NameOf[pending]
<1>1. /\ ~Idle /\ scan = 0 /\ capacity' = 2 * capacity /\ Idle'
      /\ Insert(new_buckets, 2 * capacity, pending)
  BY DEF RehashDone, Idle
<1>2. Moved BY <1>1 DEF MapInv
<1>3. capacity \in Nat \ {0} BY MapTypes
<1>4. /\ StoredFrom(new_buckets, 0, 2 * capacity) = StoredFrom(buckets, 0, capacity)
      /\ Cardinality(LiveFrom(new_buckets, 0, 2 * capacity)) = count
      /\ \A t \in StoredFrom(buckets, 0, capacity) : NameOf[t] # NameOf[pending]
      /\ OneBucket(new_buckets, 2 * capacity)
  BY <1>1, <1>2 DEF Moved, MapInv
<1>5. Cardinality(LiveFrom(buckets, 0, capacity)) <= capacity
  <2>1. LiveFrom(buckets, 0, capacity) \subseteq 0 .. capacity - 1 BY DEF LiveFrom
  <2>2. IsFiniteSet(0 .. capacity - 1) /\ Cardinality(0 .. capacity - 1) = capacity
    <3>1. /\ IsFiniteSet(0 .. capacity - 1)
          /\ Cardinality(0 .. capacity - 1)
               = IF 0 > capacity - 1 THEN 0 ELSE (capacity - 1) - 0 + 1
      BY <1>3, FS_Interval
    <3>2. QED BY <1>3, <3>1
  <2>3. QED BY <2>1, <2>2, FS_Subset
<1>6. Cardinality(LiveFrom(new_buckets, 0, 2 * capacity)) < 2 * capacity
  <2>1. Cardinality(LiveFrom(buckets, 0, capacity)) \in Nat BY <1>3, LiveFinite
  <2>2. count < 2 * capacity BY <1>3, <1>5, <2>1 DEF MapInv
  <2>3. QED BY <1>4, <2>2
<1>7. /\ OneBucket(buckets', 2 * capacity)
      /\ StoredFrom(buckets', 0, 2 * capacity)
           = StoredFrom(new_buckets, 0, 2 * capacity) \cup {pending}
      /\ Cardinality(LiveFrom(buckets', 0, 2 * capacity))
           = Cardinality(LiveFrom(new_buckets, 0, 2 * capacity)) + 1
      /\ count' = count + 1
  BY <1>1, <1>4, <1>6, MapTypes, InsertAdds
<1>8. pending \in Symbols BY <1>1, MapTypes
<1>9. QED BY <1>1, <1>4, <1>7, <1>8

(* One iteration of rehash() moves one symbol, or passes over a bucket.      *)
LEMMA RehashStepMoves ==
  ASSUME MapInv, RehashStep
  PROVE  Moved'
<1> DEFINE k == scan - 1
           s == buckets[k]
           new == new_buckets
           cap == 2 * capacity
<1>1. /\ ~Idle /\ scan' = k
      /\ UNCHANGED <<buckets, capacity, pending>>
      /\ new_buckets' = IF Live(s) THEN Place(new, cap, s) ELSE new
  BY DEF RehashStep
<1>2. capacity \in Nat \ {0} /\ k \in 0 .. capacity - 1 /\ scan = k + 1 /\ scan \in Nat
  BY DEF RehashStep, MapInv, ChainInv, FieldTypes
<1>3. /\ OneBucket(new, cap)
      /\ StoredFrom(new, 0, cap) = StoredFrom(buckets, scan, capacity)
      /\ Cardinality(LiveFrom(new, 0, cap)) = Cardinality(LiveFrom(buckets, scan, capacity))
      /\ \A t \in StoredFrom(buckets, 0, capacity) : NameOf[t] # NameOf[pending]
  BY <1>1 DEF MapInv, Moved
<1>4. /\ new \in Table(cap) /\ cap \in Nat \ {0} BY <1>1, MapTypes
<1>5. k \notin LiveFrom(buckets, scan, capacity)
  BY <1>2 DEF LiveFrom
<1> HIDE DEF k, new, cap
<1>6. CASE Live(s)
  <2>1. LiveFrom(buckets, k, capacity) = LiveFrom(buckets, scan, capacity) \cup {k}
    BY <1>2, <1>6 DEF LiveFrom
  <2>2. StoredFrom(buckets, k, capacity) = StoredFrom(buckets, scan, capacity) \cup {s}
    BY <2>1 DEF StoredFrom
  <2>3. /\ IsFiniteSet(LiveFrom(buckets, scan, capacity))
        /\ Cardinality(LiveFrom(buckets, scan, capacity)) \in Nat
    BY <1>2, LiveFinite
  <2>4. Cardinality(LiveFrom(buckets, k, capacity))
          = Cardinality(LiveFrom(buckets, scan, capacity)) + 1
    BY <1>5, <2>1, <2>3, FS_AddElement
  <2>5. Cardinality(LiveFrom(buckets, scan, capacity)) < cap
    <3>1. LiveFrom(buckets, scan, capacity) \subseteq 0 .. capacity - 1
      BY <1>2 DEF LiveFrom
    <3>2. /\ IsFiniteSet(0 .. capacity - 1)
          /\ Cardinality(0 .. capacity - 1)
               = IF 0 > capacity - 1 THEN 0 ELSE (capacity - 1) - 0 + 1
      BY <1>2, FS_Interval
    <3>3. Cardinality(0 .. capacity - 1) = capacity BY <1>2, <3>2
    <3>4. Cardinality(LiveFrom(buckets, scan, capacity)) <= capacity
      BY <3>1, <3>2, <3>3, FS_Subset
    <3>5. QED BY <1>2, <2>3, <3>4 DEF cap
  <2>6. ASSUME NEW t \in StoredFrom(new, 0, cap) PROVE NameOf[t] # NameOf[s]
    <3>1. PICK j \in LiveFrom(buckets, scan, capacity) : t = buckets[j]
      BY <1>3 DEF StoredFrom
    <3>2. j \in LiveFrom(buckets, 0, capacity) /\ k \in LiveFrom(buckets, 0, capacity)
      BY <1>2, <1>6 DEF LiveFrom
    <3>3. j # k BY <1>5
    <3>4. QED BY <3>1, <3>2, <3>3, MapTypes DEF OneBucket
  <2>7. s \in Symbols BY <1>6 DEF Live
  <2>8. Cardinality(LiveFrom(new, 0, cap)) < cap BY <1>3, <2>5
  <2>9. /\ OneBucket(Place(new, cap, s), cap)
        /\ StoredFrom(Place(new, cap, s), 0, cap) = StoredFrom(new, 0, cap) \cup {s}
        /\ Cardinality(LiveFrom(Place(new, cap, s), 0, cap))
             = Cardinality(LiveFrom(new, 0, cap)) + 1
    <3> HIDE DEF s
    <3>1. QED BY <1>3, <1>4, <2>6, <2>7, <2>8, PlaceAdds
  <2>10. new_buckets' = Place(new, cap, s) BY <1>1, <1>6
  <2>11. /\ OneBucket(new_buckets', cap)
         /\ StoredFrom(new_buckets', 0, cap) = StoredFrom(buckets, k, capacity)
         /\ Cardinality(LiveFrom(new_buckets', 0, cap))
              = Cardinality(LiveFrom(buckets, k, capacity))
    <3> HIDE DEF s
    <3>1. QED BY <1>3, <2>2, <2>4, <2>9, <2>10
  <2>12. buckets' = buckets /\ capacity' = capacity /\ pending' = pending /\ scan' = k
    BY <1>1
  <2>13. cap = 2 * capacity BY DEF cap
  <2> HIDE DEF s
  <2>14. QED BY <1>3, <2>11, <2>12, <2>13 DEF Moved
<1>7. CASE ~Live(s)
  <2>1. LiveFrom(buckets, k, capacity) = LiveFrom(buckets, scan, capacity)
    BY <1>2, <1>7 DEF LiveFrom
  <2>2. new_buckets' = new BY <1>1, <1>7
  <2>3. buckets' = buckets /\ capacity' = capacity /\ pending' = pending /\ scan' = k
    BY <1>1
  <2>4. cap = 2 * capacity BY DEF cap
  <2>5. StoredFrom(buckets, k, capacity) = StoredFrom(buckets, scan, capacity)
    BY <2>1 DEF StoredFrom
  <2> HIDE DEF s
  <2>6. QED BY <1>3, <2>1, <2>2, <2>3, <2>4, <2>5 DEF Moved
<1>8. QED BY <1>6, <1>7

(* remove() finds the only symbol of the name, if there is one, and drops it.*)
LEMMA RemoveDrops ==
  ASSUME MapInv, NEW s \in Symbols, remove(s)
  PROVE  /\ OneBucket(buckets', capacity) /\ capacity' = capacity /\ Idle'
         /\ StoredFrom(buckets', 0, capacity)
              = {t \in StoredFrom(buckets, 0, capacity) : NameOf[t] # NameOf[s]}
         /\ count' = Cardinality(LiveFrom(buckets', 0, capacity))
<1> DEFINE n == NameOf[s]
           i == FirstStop(buckets, capacity, n)
           j == Probe(Home(n, capacity), i, capacity)
<1>1. n \in Names BY ConstantsAssumption
<1>2. capacity' = capacity /\ Idle /\ Idle' BY DEF remove, Idle
<1>3. capacity \in Nat \ {0} /\ buckets \in Table(capacity) /\ OneBucket(buckets, capacity)
  BY MapTypes
<1>4. /\ i \in 0 .. capacity
      /\ i < capacity => Stops(At(buckets, capacity, n, i), n)
  BY <1>3, FirstStopIsFirst
<1>5. Lookup(buckets, capacity, n)
        = IF i = capacity THEN NULL ELSE At(buckets, capacity, n, i)
  BY DEF Lookup
<1>6. CASE i = capacity \/ buckets[j] = NULL
  <2>1. UNCHANGED <<buckets, count>> BY <1>6 DEF remove
  <2>2. Lookup(buckets, capacity, n) = NULL BY <1>5, <1>6 DEF At
  <2>3. \A t \in StoredFrom(buckets, 0, capacity) : NameOf[t] # n
    BY <1>1, <2>2, MapTypes, NotFoundNotStored
  <2>4. QED BY <1>2, <1>3, <2>1, <2>3 DEF MapInv
<1>7. CASE ~(i = capacity \/ buckets[j] = NULL)
  <2>1. i \in 0 .. capacity - 1 BY <1>3, <1>4, <1>7
  <2>2. j \in 0 .. capacity - 1 BY <1>1, <1>3, <2>1, ProbeInRange
  <2>3. Matches(buckets[j], n)
    <3>1. At(buckets, capacity, n, i) = buckets[j] BY DEF At
    <3>2. i < capacity BY <1>3, <2>1
    <3> HIDE DEF j, i
    <3>3. Stops(buckets[j], n) BY <1>4, <3>1, <3>2
    <3>4. QED BY <1>7, <3>3 DEF Stops
  <2>4. buckets' = [buckets EXCEPT ![j] = DELETED] /\ count' = count - 1
    BY <1>7 DEF remove
  <2> HIDE DEF j, i
  <2>5. /\ buckets'[j] = DELETED
        /\ \A k \in 0 .. capacity - 1 : k # j => buckets'[k] = buckets[k]
    BY <1>3, <2>2, <2>4 DEF Table
  <2>6. Live(buckets[j]) /\ NameOf[buckets[j]] = n BY <2>3 DEF Matches
  <2>7. /\ OneBucket(buckets', capacity)
        /\ StoredFrom(buckets', 0, capacity)
             = StoredFrom(buckets, 0, capacity) \ {buckets[j]}
        /\ Cardinality(LiveFrom(buckets', 0, capacity))
             = Cardinality(LiveFrom(buckets, 0, capacity)) - 1
    BY <1>3, <2>2, <2>5, <2>6, DeleteDrops
  <2>8. ASSUME NEW t \in StoredFrom(buckets, 0, capacity)
        PROVE  NameOf[t] = n <=> t = buckets[j]
    <3>1. PICK k \in LiveFrom(buckets, 0, capacity) : t = buckets[k] BY DEF StoredFrom
    <3>2. j \in LiveFrom(buckets, 0, capacity) BY <2>2, <2>6 DEF LiveFrom
    <3>3. QED BY <1>3, <2>6, <3>1, <3>2 DEF OneBucket
  <2>9. StoredFrom(buckets', 0, capacity)
          = {t \in StoredFrom(buckets, 0, capacity) : NameOf[t] # n}
    BY <2>7, <2>8
  <2>10. QED BY <1>2, <2>4, <2>7, <2>9 DEF MapInv
<1>8. QED BY <1>6, <1>7

(* Every operation keeps one bucket per name and the count of the buckets in *)
(* use, and rehash() moves the symbols of the old table, each once.          *)
LEMMA MapInvStep == LooksUpFirst /\ MapInv /\ [Next]_vars => MapInv'
<1> SUFFICES ASSUME LooksUpFirst, MapInv, [Next]_vars PROVE MapInv' OBVIOUS
<1>1. ChainInv' BY ChainInvStep DEF MapInv
<1>2. ASSUME NEW s \in Symbols, put(s) PROVE MapInv'
  BY <1>1, <1>2, PutAdds DEF MapInv
<1>3. ASSUME NEW s \in Symbols, put_rehash(s) PROVE MapInv'
  <2>1. /\ UNCHANGED <<buckets, capacity, count>> /\ scan' = capacity
        /\ pending' = s /\ new_buckets' = EmptyTable(2 * capacity)
        /\ Lookup(buckets, capacity, NameOf[s]) = NULL
    BY <1>3 DEF put_rehash, ClientMayPut, LooksUpFirst, get
  <2>2. NameOf[s] \in Names BY ConstantsAssumption
  <2>3. \A t \in StoredFrom(buckets, 0, capacity) : NameOf[t] # NameOf[s]
    BY <2>1, <2>2, MapTypes, NotFoundNotStored
  <2>4. capacity \in Nat \ {0} BY MapTypes
  <2>5. LiveFrom(buckets, capacity, capacity) = {} BY <2>4 DEF LiveFrom
  <2>6. LiveFrom(new_buckets', 0, 2 * capacity) = {}
    BY <2>1, <2>4, ConstantsAssumption DEF LiveFrom, EmptyTable, Live
  <2>7. /\ StoredFrom(buckets, capacity, capacity) = {}
        /\ StoredFrom(new_buckets', 0, 2 * capacity) = {}
    BY <2>5, <2>6 DEF StoredFrom
  <2>8. OneBucket(new_buckets', 2 * capacity) BY <2>6 DEF OneBucket
  <2>9. Moved' BY <2>1, <2>3, <2>5, <2>6, <2>7, <2>8 DEF Moved
  <2>10. QED BY <1>1, <2>1, <2>9 DEF MapInv
<1>4. ASSUME NEW s \in Symbols, remove(s) PROVE MapInv'
  BY <1>1, <1>4, RemoveDrops DEF MapInv
<1>5. ASSUME RehashStep PROVE MapInv'
  <2>1. UNCHANGED <<buckets, capacity, count>> BY <1>5 DEF RehashStep
  <2>2. QED BY <1>1, <1>5, <2>1, RehashStepMoves DEF MapInv
<1>6. ASSUME RehashDone PROVE MapInv'
  <2>1. /\ OneBucket(buckets', 2 * capacity) /\ capacity' = 2 * capacity /\ Idle'
        /\ count' = Cardinality(LiveFrom(buckets', 0, 2 * capacity))
    BY <1>6, RehashDoneAdds
  <2>2. QED BY <1>1, <2>1 DEF MapInv
<1>7. ASSUME UNCHANGED vars PROVE MapInv'
  BY <1>1, <1>7 DEF vars, MapInv, Moved, Idle
<1>8. QED BY <1>2, <1>3, <1>4, <1>5, <1>6, <1>7 DEF Next

(* What get() returns depends on the stored symbols only: one more ...       *)
LEMMA MapAdds ==
  ASSUME NEW cap \in Nat \ {0}, NEW b \in Table(cap), ProbeChain(b, cap), OneBucket(b, cap),
         NEW cap2 \in Nat \ {0}, NEW c \in Table(cap2), ProbeChain(c, cap2),
         OneBucket(c, cap2), NEW s \in Symbols,
         StoredFrom(c, 0, cap2) = StoredFrom(b, 0, cap) \cup {s},
         \A t \in StoredFrom(b, 0, cap) : NameOf[t] # NameOf[s], NEW n \in Names
  PROVE  Lookup(c, cap2, n) = IF n = NameOf[s] THEN s ELSE Lookup(b, cap, n)
<1>1. CASE n = NameOf[s]
  <2>1. s \in StoredFrom(c, 0, cap2) OBVIOUS
  <2>2. QED BY <1>1, <2>1, LookupFindsStored
<1>2. CASE n # NameOf[s] /\ \E t \in StoredFrom(b, 0, cap) : NameOf[t] = n
  <2>1. PICK t \in StoredFrom(b, 0, cap) : NameOf[t] = n BY <1>2
  <2>2. t \in StoredFrom(c, 0, cap2) OBVIOUS
  <2>3. Lookup(b, cap, n) = t BY <2>1, LookupFindsStored
  <2>4. Lookup(c, cap2, n) = t BY <2>1, <2>2, LookupFindsStored
  <2>5. QED BY <1>2, <2>3, <2>4
<1>3. CASE n # NameOf[s] /\ \A t \in StoredFrom(b, 0, cap) : NameOf[t] # n
  <2>1. \A t \in StoredFrom(c, 0, cap2) : NameOf[t] # n BY <1>3
  <2>2. Lookup(b, cap, n) = NULL BY <1>3, LookupMissesOthers
  <2>3. Lookup(c, cap2, n) = NULL BY <2>1, LookupMissesOthers
  <2>4. QED BY <1>3, <2>2, <2>3
<1>4. QED BY <1>1, <1>2, <1>3

(* ... or one less.                                                          *)
LEMMA MapDrops ==
  ASSUME NEW cap \in Nat \ {0}, NEW b \in Table(cap), ProbeChain(b, cap), OneBucket(b, cap),
         NEW c \in Table(cap), ProbeChain(c, cap), OneBucket(c, cap), NEW x,
         StoredFrom(c, 0, cap) = {t \in StoredFrom(b, 0, cap) : NameOf[t] # x},
         NEW n \in Names
  PROVE  Lookup(c, cap, n) = IF n = x THEN NULL ELSE Lookup(b, cap, n)
<1>1. CASE n = x
  <2>1. \A t \in StoredFrom(c, 0, cap) : NameOf[t] # n BY <1>1
  <2>2. QED BY <1>1, <2>1, LookupMissesOthers
<1>2. CASE n # x /\ \E t \in StoredFrom(b, 0, cap) : NameOf[t] = n
  <2>1. PICK t \in StoredFrom(b, 0, cap) : NameOf[t] = n BY <1>2
  <2>2. t \in StoredFrom(c, 0, cap) BY <1>2, <2>1
  <2>3. Lookup(b, cap, n) = t BY <2>1, LookupFindsStored
  <2>4. Lookup(c, cap, n) = t BY <2>1, <2>2, LookupFindsStored
  <2>5. QED BY <1>2, <2>3, <2>4
<1>3. CASE n # x /\ \A t \in StoredFrom(b, 0, cap) : NameOf[t] # n
  <2>1. \A t \in StoredFrom(c, 0, cap) : NameOf[t] # n BY <1>3
  <2>2. Lookup(b, cap, n) = NULL BY <1>3, LookupMissesOthers
  <2>3. Lookup(c, cap, n) = NULL BY <2>1, LookupMissesOthers
  <2>4. QED BY <1>3, <2>2, <2>3
<1>4. QED BY <1>1, <1>2, <1>3

(* The abstract table.                                                       *)
MappedTable == [n \in Names |-> get(n)]

(* put() of one symbol, in one step or at the end of rehash().               *)
LEMMA MappedPut ==
  ASSUME MapInv, NEW cap \in Nat \ {0}, capacity' = cap, buckets' \in Table(cap),
         ProbeChain(buckets', cap), OneBucket(buckets', cap), NEW s \in Symbols,
         StoredFrom(buckets', 0, cap) = StoredFrom(buckets, 0, capacity) \cup {s},
         \A t \in StoredFrom(buckets, 0, capacity) : NameOf[t] # NameOf[s]
  PROVE  Abstract!Next
<1>1. ASSUME NEW n \in Names
      PROVE  get(n)' = IF n = NameOf[s] THEN s ELSE get(n)
  <2>1. Lookup(buckets', cap, n)
          = IF n = NameOf[s] THEN s ELSE Lookup(buckets, capacity, n)
    BY MapTypes, MapAdds
  <2>2. QED BY <2>1 DEF get
<1>2. NameOf[s] \in Names BY ConstantsAssumption
<1>3. get(NameOf[s]) = NULL BY <1>2, MapTypes, LookupMissesOthers DEF get
<1>4. MappedTable' = [MappedTable EXCEPT ![NameOf[s]] = s]
  BY <1>1, <1>2 DEF MappedTable
<1>5. Abstract!Put(s) BY <1>2, <1>3, <1>4 DEF Abstract!Put, MappedTable
<1>6. QED BY <1>5 DEF Abstract!Next

(* Every operation is one of the map, and the steps of rehash() are none.    *)
LEMMA MapStep ==
  LooksUpFirst /\ MapInv /\ MapInv' /\ [Next]_vars => [Abstract!Next]_MappedTable
<1> SUFFICES ASSUME LooksUpFirst, MapInv, MapInv', [Next]_vars
             PROVE  [Abstract!Next]_MappedTable
  OBVIOUS
<1>1. /\ capacity' \in Nat \ {0} /\ buckets' \in Table(capacity')
      /\ ProbeChain(buckets', capacity') /\ OneBucket(buckets', capacity')
  BY DEF MapInv, ChainInv, FieldTypes, ProbeChainsIntact, Table
<1>2. ASSUME UNCHANGED <<buckets, capacity>> PROVE MappedTable' = MappedTable
  BY <1>2 DEF MappedTable, get
<1>3. ASSUME NEW s \in Symbols, put(s) PROVE Abstract!Next
  <2>1. /\ capacity' = capacity
        /\ StoredFrom(buckets', 0, capacity) = StoredFrom(buckets, 0, capacity) \cup {s}
        /\ \A t \in StoredFrom(buckets, 0, capacity) : NameOf[t] # NameOf[s]
    BY <1>3, PutAdds
  <2>2. QED BY <1>1, <2>1, MappedPut
<1>4. ASSUME RehashDone PROVE Abstract!Next
  <2>1. /\ capacity' = 2 * capacity
        /\ StoredFrom(buckets', 0, 2 * capacity)
             = StoredFrom(buckets, 0, capacity) \cup {pending}
        /\ pending \in Symbols
        /\ \A t \in StoredFrom(buckets, 0, capacity) : NameOf[t] # NameOf[pending]
    BY <1>4, RehashDoneAdds
  <2>2. QED BY <1>1, <2>1, MappedPut
<1>5. ASSUME NEW s \in Symbols, remove(s) PROVE Abstract!Next
  <2>1. /\ capacity' = capacity
        /\ StoredFrom(buckets', 0, capacity)
             = {t \in StoredFrom(buckets, 0, capacity) : NameOf[t] # NameOf[s]}
    BY <1>5, RemoveDrops
  <2>2. ASSUME NEW n \in Names PROVE get(n)' = IF n = NameOf[s] THEN NULL ELSE get(n)
    <3>1. Lookup(buckets', capacity, n)
            = IF n = NameOf[s] THEN NULL ELSE Lookup(buckets, capacity, n)
      BY <1>1, <2>1, MapTypes, MapDrops
    <3>2. QED BY <2>1, <3>1 DEF get
  <2>3. NameOf[s] \in Names BY ConstantsAssumption
  <2>4. MappedTable' = [MappedTable EXCEPT ![NameOf[s]] = NULL]
    BY <2>2, <2>3 DEF MappedTable
  <2>5. Abstract!Remove(NameOf[s]) BY <2>4 DEF Abstract!Remove, MappedTable
  <2>6. QED BY <2>3, <2>5 DEF Abstract!Next
<1>6. ASSUME NEW s \in Symbols, put_rehash(s) PROVE MappedTable' = MappedTable
  BY <1>2, <1>6 DEF put_rehash
<1>7. ASSUME RehashStep PROVE MappedTable' = MappedTable BY <1>2, <1>7 DEF RehashStep
<1>8. ASSUME UNCHANGED vars PROVE MappedTable' = MappedTable BY <1>2, <1>8 DEF vars
<1>9. QED BY <1>3, <1>4, <1>5, <1>6, <1>7, <1>8 DEF Next

(* A new table is the empty map.                                             *)
LEMMA MapStart == Init => Abstract!Init
<1> SUFFICES ASSUME Init PROVE Abstract!Init OBVIOUS
<1>1. MapInv BY MapInvInit
<1>2. buckets \in [0 .. capacity - 1 -> {NULL}]
  BY <1>1, MapTypes, EmptyTableChains DEF Init
<1>3. StoredFrom(buckets, 0, capacity) = {}
  BY <1>2, ConstantsAssumption DEF StoredFrom, LiveFrom, Live
<1>4. \A n \in Names : get(n) = NULL
  BY <1>1, <1>3, MapTypes, LookupMissesOthers DEF get
<1>5. QED BY <1>4 DEF Abstract!Init

(* For a client that looks a name up before it puts a symbol, the table is a *)
(* map from names to symbols: nothing is lost or doubled, tombstones and     *)
(* rehash() are invisible, and put() never falls out of its loop.            *)
THEOREM MapRefined ==
  ASSUME LooksUpFirst
  PROVE  Spec => ImplementsSymbolTable
<1>1. MapInv /\ MapInv' /\ [Next]_vars => [Abstract!Next]_MappedTable BY MapStep
<1>2. QED
  BY <1>1, MapInvInit, MapInvStep, MapStart, PTL
  DEF Spec, ImplementsSymbolTable, Abstract!Spec, MappedTable

==============================================================================
