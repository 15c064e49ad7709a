--------------------------- MODULE SymbolHashTable ---------------------------
(***************************************************************************)
(* The open-addressing hash table that holds the symbols of a package      *)
(* (kernel/SymbolHashTable.cpp, built with                                 *)
(* SYMBOL_HASH_TABLE_OPEN_ADDRESSING).                                     *)
(*                                                                         *)
(* A bucket holds NULL, the tombstone DELETED, or a symbol.  A probe for a *)
(* name starts at its hash and walks the buckets cyclically; it stops at   *)
(* NULL and passes over DELETED.  put() doubles the table first when the   *)
(* load factor is reached; the loop of rehash() is one RehashStep per old  *)
(* bucket, and no other operation starts until the put is complete.        *)
(***************************************************************************)

EXTENDS Integers, FiniteSets

CONSTANTS
  Symbols,      (* symbol objects                                            *)
  Names,        (* print names                                               *)
  NameOf,       (* [Symbols -> Names]: Symbol::name(), fixed at creation     *)
  Hash,         (* [Names -> Nat]: AbstractString::hash()                    *)
  InitialSize,  (* argument of the constructor                               *)
  MaxCapacity,  (* bound of the model: put() never grows the table past it   *)
  Reput,        (* what the client may put(): "never" a name that is found   *)
                (* (intern), or also the "same" symbol that is found         *)
                (* (import), or "any" symbol (the shadowing symbols)         *)
  NULL, DELETED

VARIABLES
  buckets,      (* _buckets, a function on 0 .. _capacity - 1                *)
  capacity,     (* _capacity; _mask is capacity - 1                          *)
  count,        (* _count                                                    *)
  pending,      (* the symbol of the put() that is rehashing, else NULL      *)
  new_buckets,  (* the table rehash() is filling; empty otherwise            *)
  scan          (* rehash(): old buckets scan .. capacity - 1 are moved      *)

vars == <<buckets, capacity, count, pending, new_buckets, scan>>

(* "while (capacity < size) capacity <<= 1", from 1.                         *)
calculate_initial_capacity(size) ==
  CHOOSE c \in {2^k : k \in 0 .. size} :
    /\ c >= size
    /\ c = 1 \/ c \div 2 < size

ASSUME ConstantsAssumption ==
  /\ NameOf \in [Symbols -> Names]
  /\ Hash \in [Names -> Nat]
  /\ NULL \notin Symbols
  /\ DELETED \notin Symbols
  /\ NULL # DELETED
  /\ Reput \in {"never", "same", "any"}
  /\ MaxCapacity \in Nat
  /\ calculate_initial_capacity(InitialSize) \in Nat \ {0}

(* SYMBOL_HASH_TABLE_LOAD_FACTOR is 0.75f, exact for powers of two.          *)
Threshold(cap) == (cap * 3) \div 4

(* "hash() & _mask": the capacity is a power of two.                         *)
Home(n, cap) == Hash[n] % cap

(* The bucket a probe that started at index looks at in iteration i.         *)
Probe(index, i, cap) == (index + i) % cap

At(b, cap, n, i) == b[Probe(Home(n, cap), i, cap)]

EmptyTable(cap) == [j \in 0 .. cap - 1 |-> NULL]

Live(x) == x \in Symbols

Matches(x, n) == Live(x) /\ NameOf[x] = n

(* get() and remove() end their loop here: at NULL or at an equal name.      *)
Stops(x, n) == x = NULL \/ Matches(x, n)

(* put() ends its loop here: at a bucket it may take, or at an equal name.   *)
Takes(x, n) == ~Live(x) \/ Matches(x, n)

(* The first iteration of the loop that ends it; the capacity if none does.  *)
FirstStop(b, cap, n) ==
  CHOOSE i \in 0 .. cap :
    /\ i < cap => Stops(At(b, cap, n, i), n)
    /\ \A m \in 0 .. i - 1 : ~Stops(At(b, cap, n, m), n)

FirstTake(b, cap, n) ==
  CHOOSE i \in 0 .. cap :
    /\ i < cap => Takes(At(b, cap, n, i), n)
    /\ \A m \in 0 .. i - 1 : ~Takes(At(b, cap, n, m), n)

(* Mutant: get() gives up at a tombstone.                                    *)
Lookup_tombstone(b, cap, n) ==
  LET i == FirstStop(b, cap, n) IN
  IF i = cap \/ \E m \in 0 .. i : At(b, cap, n, m) = DELETED THEN NULL
  ELSE At(b, cap, n, i)

Lookup(b, cap, n) ==
  LET i == FirstStop(b, cap, n) IN
  IF i = cap THEN NULL ELSE At(b, cap, n, i)

get(n) == Lookup(buckets, capacity, n)

------------------------------------------------------------------------------

Init ==
  /\ capacity = calculate_initial_capacity(InitialSize)
  /\ buckets = EmptyTable(capacity)
  /\ count = 0
  /\ pending = NULL
  /\ new_buckets = EmptyTable(0)
  /\ scan = 0

(* The loop of put() over table b: take a free bucket, or replace the symbol *)
(* of an equal name; fall out of the loop if every bucket is in use.         *)
Insert(b, cap, s) ==
  LET i == FirstTake(b, cap, NameOf[s])
      j == Probe(Home(NameOf[s], cap), i, cap)
  IN IF i = cap
       THEN /\ buckets' = b
            /\ count' = count
       ELSE /\ buckets' = [b EXCEPT ![j] = s]
            /\ count' = IF Live(b[j]) THEN count ELSE count + 1

Idle == pending = NULL

(* intern() and add_external_symbol() look the name up first; import_symbol()*)
(* goes on if it finds the symbol itself; shadow() and shadowing_import()    *)
(* put into the shadowing symbols whatever is there.                         *)
ClientMayPut(s) ==
  \/ get(NameOf[s]) = NULL
  \/ Reput = "same" /\ get(NameOf[s]) = s
  \/ Reput = "any"

put(s) ==
  /\ Idle
  /\ ClientMayPut(s)
  /\ count < Threshold(capacity)
  /\ Insert(buckets, capacity, s)
  /\ UNCHANGED <<capacity, pending, new_buckets, scan>>

(* put() at the load factor: rehash() allocates the doubled table.           *)
put_rehash(s) ==
  /\ Idle
  /\ ClientMayPut(s)
  /\ count >= Threshold(capacity)
  /\ 2 * capacity <= MaxCapacity
  /\ pending' = s
  /\ new_buckets' = EmptyTable(2 * capacity)
  /\ scan' = capacity
  /\ UNCHANGED <<buckets, capacity, count>>

(* One iteration of rehash(): move the next old bucket, from the last one    *)
(* down, to the first unused bucket of its probe sequence in the new table.  *)
FirstFree(b, cap, n) ==
  CHOOSE i \in 0 .. cap :
    /\ i < cap => ~Live(At(b, cap, n, i))
    /\ \A m \in 0 .. i - 1 : Live(At(b, cap, n, m))

Place(b, cap, s) ==
  LET i == FirstFree(b, cap, NameOf[s])
  IN IF i = cap THEN b
                ELSE [b EXCEPT ![Probe(Home(NameOf[s], cap), i, cap)] = s]

(* Mutant: "--i > 0" in the loop of rehash() forgets bucket 0.               *)
RehashStep_skips_first ==
  /\ ~Idle
  /\ scan > 0
  /\ scan' = scan - 1
  /\ new_buckets' = IF Live(buckets[scan - 1]) /\ scan > 1
                      THEN Place(new_buckets, 2 * capacity, buckets[scan - 1])
                      ELSE new_buckets
  /\ UNCHANGED <<buckets, capacity, count, pending>>

RehashStep ==
  /\ ~Idle
  /\ scan > 0
  /\ scan' = scan - 1
  /\ new_buckets' = IF Live(buckets[scan - 1])
                      THEN Place(new_buckets, 2 * capacity, buckets[scan - 1])
                      ELSE new_buckets
  /\ UNCHANGED <<buckets, capacity, count, pending>>

(* Mutant: "_capacity = new_capacity" is missing.                            *)
RehashDone_old_capacity ==
  /\ ~Idle
  /\ scan = 0
  /\ Insert(new_buckets, 2 * capacity, pending)
  /\ pending' = NULL
  /\ new_buckets' = EmptyTable(0)
  /\ UNCHANGED <<capacity, scan>>

(* rehash() installs the new table and put() goes on with its own loop.      *)
RehashDone ==
  /\ ~Idle
  /\ scan = 0
  /\ capacity' = 2 * capacity
  /\ Insert(new_buckets, 2 * capacity, pending)
  /\ pending' = NULL
  /\ new_buckets' = EmptyTable(0)
  /\ scan' = scan

(* Mutant: remove() empties the bucket instead of leaving a tombstone.       *)
remove_no_tombstone(s) ==
  LET n == NameOf[s]
      i == FirstStop(buckets, capacity, n)
      j == Probe(Home(n, capacity), i, capacity)
  IN /\ Idle
     /\ IF i = capacity \/ buckets[j] = NULL
          THEN UNCHANGED <<buckets, count>>
          ELSE /\ buckets' = [buckets EXCEPT ![j] = NULL]
               /\ count' = count - 1
     /\ UNCHANGED <<capacity, pending, new_buckets, scan>>

(* remove() goes by name: it deletes the first symbol of that name.          *)
remove(s) ==
  LET n == NameOf[s]
      i == FirstStop(buckets, capacity, n)
      j == Probe(Home(n, capacity), i, capacity)
  IN /\ Idle
     /\ IF i = capacity \/ buckets[j] = NULL
          THEN UNCHANGED <<buckets, count>>
          ELSE /\ buckets' = [buckets EXCEPT ![j] = DELETED]
               /\ count' = count - 1
     /\ UNCHANGED <<capacity, pending, new_buckets, scan>>

Next ==
  \/ \E s \in Symbols : put(s) \/ put_rehash(s) \/ remove(s)
  \/ RehashStep
  \/ RehashDone

Spec == Init /\ [][Next]_vars

------------------------------------------------------------------------------
(* Properties.                                                               *)

FieldTypes ==
  /\ capacity \in Nat \ {0}
  /\ buckets \in [0 .. capacity - 1 -> Symbols \cup {NULL, DELETED}]
  /\ count \in Int
  /\ pending \in Symbols \cup {NULL}
  /\ scan \in 0 .. capacity
  /\ new_buckets \in IF Idle THEN [0 .. -1 -> {NULL}]
                             ELSE [0 .. 2 * capacity - 1 -> Symbols \cup {NULL}]

(* Types of the fields, and what the tables of an unfinished rehash are.     *)
(* _count is the number of buckets in use, whatever was replaced, removed or *)
(* moved, and stays at or below the load factor: there is always a bucket    *)
(* for put() to take, and no symbol is dropped at the end of its loop.       *)
TypeOK ==
  /\ FieldTypes
  /\ count = Cardinality({j \in 0 .. capacity - 1 : Live(buckets[j])})
  /\ count <= Threshold(capacity)

(* Every bucket that a probe for a stored symbol passes is in use or a       *)
(* tombstone, never NULL.                                                    *)
ProbeChain(b, cap) ==
  \A s \in Symbols, k \in 0 .. cap - 1 :
    At(b, cap, NameOf[s], k) = s =>
      \A m \in 0 .. k - 1 : At(b, cap, NameOf[s], m) # NULL

(* remove() must leave a tombstone and put() must take the first bucket it   *)
(* may: no operation and no step of rehash() ever cuts the probe sequence of *)
(* a symbol that is in the table, or in the table being filled.              *)
ProbeChainsIntact ==
  /\ ProbeChain(buckets, capacity)
  /\ ~Idle => ProbeChain(new_buckets, 2 * capacity)

(* get() finds, for every symbol in a bucket, a symbol of its name: nothing  *)
(* that is stored becomes invisible, whatever was removed or moved before.   *)
StoredNamesAreFound ==
  \A j \in 0 .. capacity - 1 :
    Live(buckets[j]) => Matches(get(NameOf[buckets[j]]), NameOf[buckets[j]])

(* The concrete table implements the map of module SymbolTable: put() adds   *)
(* one entry, remove() drops one, and rehash() is invisible.                 *)
Abstract == INSTANCE SymbolTable WITH table <- [n \in Names |-> get(n)]

ImplementsSymbolTable == Abstract!Spec

==============================================================================
