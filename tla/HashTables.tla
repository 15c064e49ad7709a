----------------------------- MODULE HashTables -----------------------------
(***************************************************************************)
(* The hash tables of the language: EqHashTable, EqlHashTable,             *)
(* EqualHashTable and EqualpHashTable on top of HashTable (kernel).        *)
(*                                                                         *)
(* Entries are chained; a new entry is pushed at the front of its bucket,  *)
(* and a table that is too full is rehashed into one twice as large.       *)
(* maphash() walks the chains with a pointer to an entry while the         *)
(* function that it calls may change the table under it; an entry that has *)
(* been removed keeps its _next as long as maphash() can reach it.         *)
(*                                                                         *)
(* Keys are objects with contents.  hash() is computed from the contents   *)
(* (of strings, conses, bit vectors and numbers), for eq tables as well,   *)
(* whose test compares the objects, or from the address (of vectors,       *)
(* arrays and structures), for equalp tables as well, whose test compares  *)
(* the contents; and equalp_hash() of characters does not fold case.  So   *)
(* that the hash of keys that are the same need not be the same.           *)
(***************************************************************************)
EXTENDS Integers, Sequences, FiniteSets, SequencesExt

CONSTANTS
  Keys,          (* objects used as keys                                     *)
  Contents,      (* what the objects contain                                 *)
  Objects,       (* [Keys -> Contents]: what they contain at the beginning   *)
  Variants,      (* [Keys -> SUBSET Contents]: what the program can change   *)
                 (* them to; numbers and characters cannot be changed        *)
  Class,         (* [AllTests -> [Keys -> [Contents -> Places]]]: keys of    *)
                 (* one class are the same for the test                      *)
  Hash,          (* [Keys -> [Contents -> Nat]]: hash() of the object        *)
  EqualpHash,    (* [Keys -> [Contents -> Nat]]: equalp_hash()               *)
  Values,
  Tests,         (* the tests of the tables to be made                       *)
  InitialSizes,  (* :size arguments                                          *)
  MaxCapacity,   (* bound: buckets                                           *)
  MaxEntries,    (* bound: entries that are not collected, and modified keys *)
  MaxExposed,    (* bound: keys that are modified, once, under the table     *)
  NULL, ABSENT, UNKNOWN

IdentityTests == {"eq", "eql"}
AllTests == IdentityTests \cup {"equal", "equalp"}

(* What the test of a table tells apart.                                     *)
Places == Keys \cup Contents

(* An entry is its key and a number that tells it from others of the key.    *)
Entries == Keys \X (1 .. MaxEntries)
KeyOf(e) == e[1]

ASSUME HashAssumption ==
  /\ Objects \in [Keys -> Contents]
  /\ Variants \in [Keys -> SUBSET Contents]
  /\ Class \in [AllTests -> [Keys -> [Contents -> Places]]]
  /\ {Hash, EqualpHash} \subseteq [Keys -> [Contents -> Nat]]
  /\ Tests \subseteq AllTests
  /\ InitialSizes \subseteq Nat
  /\ {MaxCapacity, MaxEntries, MaxExposed} \subseteq Nat
  /\ NULL \notin Keys \cup Entries
  /\ {ABSENT, UNKNOWN} \cap Values = {} /\ ABSENT # UNKNOWN
  /\ Keys \cap Contents = {}

(* eq compares objects, and eql too but for numbers, which it compares by    *)
(* value.                                                                    *)
ASSUME IdentityAssumption ==
  \A t \in IdentityTests, k \in Keys, c \in Contents :
    /\ Class[t][k][c] \in {k} \cup Contents
    /\ t = "eq" \/ Variants[k] # {} => Class[t][k][c] = k

VARIABLES
  test,       (* _test                                                       *)
  capacity,   (* _capacity; _mask is capacity - 1                            *)
  count,      (* _count                                                      *)
  buckets,    (* _buckets: the chain of entries of each bucket               *)
  value,      (* the _value of the entries that are not collected            *)
  cached,     (* _cached_key and _cached_index                               *)
  content,    (* the contents of the objects                                 *)
  walk,       (* the maphash in progress: its bucket i and entry e           *)
  removed,    (* the _next of the removed entries that maphash() can reach   *)
  seen,       (* history: the entries that the maphash has visited           *)
  tame,       (* history: its function did only what the language allows     *)
  exposed,    (* history: keys modified while they were in the table or      *)
              (* cached                                                      *)
  stored      (* history: what was put last and not removed since            *)

shape == <<test, capacity>>
table == <<shape, count, buckets, value>>
keys == <<content, exposed>>
mapping == <<walk, removed, seen, tame>>
vars == <<table, cached, keys, mapping, stored>>

NoWalk == [i |-> 0, e |-> NULL]
NoCache == [key |-> NULL, index |-> 0]

(* calculate_initial_capacity(): 1 is doubled until it will do.              *)
InitialCapacity(size) ==
  LET doubled[n \in 0 .. size] == IF n = 0 THEN 1 ELSE 2 * doubled[n - 1]
  IN doubled[Min({n \in 0 .. size : doubled[n] >= size})]

(* _capacity * HASH_TABLE_LOAD_FACTOR, rounded down.                         *)
Threshold(cap) == (cap * 3) \div 4

Init ==
  /\ test \in Tests
  /\ \E size \in InitialSizes : capacity = InitialCapacity(size)
  /\ count = 0
  /\ buckets = [i \in 0 .. capacity - 1 |-> << >>]
  /\ value = << >>
  /\ cached = NoCache
  /\ content = Objects
  /\ walk = NoWalk
  /\ removed = << >>
  /\ seen = {}
  /\ tame = FALSE
  /\ exposed = {}
  /\ stored = [p \in Places |-> ABSENT]

------------------------------------------------------------------------------
(* Keys and entries.                                                         *)

PlaceOf(k) == Class[test][k][content[k]]

(* eq(), eql(), equal() and equalp().                                        *)
Same(j, k) == PlaceOf(j) = PlaceOf(k)

HashOf(k) == IF test = "equalp" THEN EqualpHash[k][content[k]] ELSE Hash[k][content[k]]

(* hash() or equalp_hash(), and the mask.                                    *)
Index(k, cap) == HashOf(k) % cap

(* Only EqHashTable remembers the index of the last key.                     *)
IndexOf(k) == IF test = "eq" /\ cached.key = k THEN cached.index ELSE Index(k, capacity)

(* Mutant: the index for the bucket array before the rehash is kept.         *)
Cache_old(k, i) ==
  cached' = IF test = "eq" THEN [key |-> k, index |-> IndexOf(k)] ELSE cached

Cache(k, i) == cached' = IF test = "eq" THEN [key |-> k, index |-> i] ELSE cached

(* Mutant: the chain is not followed.                                        *)
Find_first(k) ==
  LET c == buckets[IndexOf(k)]
  IN IF c # << >> /\ Same(k, KeyOf(c[1])) THEN c[1] ELSE NULL

(* Where the bucket that is searched for a key has an entry for it.          *)
Hits(k) ==
  LET c == buckets[IndexOf(k)] IN {n \in DOMAIN c : Same(k, KeyOf(c[n]))}

(* The entry for a key, or NULL.                                             *)
Find(k) == IF Hits(k) = {} THEN NULL ELSE buckets[IndexOf(k)][Min(Hits(k))]

(* The entries of the table.                                                 *)
InBuckets(b) == UNION {Range(b[i]) : i \in DOMAIN b}

(* The entry after e in its chain.                                           *)
Link(e) ==
  LET c == buckets[CHOOSE i \in DOMAIN buckets : e \in Range(buckets[i])]
      n == CHOOSE n \in DOMAIN c : c[n] = e
  IN IF n < Len(c) THEN c[n + 1] ELSE NULL

(* Mutant: remove() clears the _next of the entry.                           *)
NextEntry_lost(e) == IF e \in DOMAIN removed THEN NULL ELSE Link(e)

NextEntry(e) == IF e \in DOMAIN removed THEN removed[e] ELSE Link(e)

(* What maphash() can reach of the entries that are in no bucket, whose next *)
(* entries are r.                                                            *)
Held(e, r) ==
  {x \in DOMAIN r :
     \A S \in SUBSET DOMAIN r :
       ({e} \cup {r[y] : y \in S}) \cap DOMAIN r \subseteq S => x \in S}

(* The garbage collector keeps the entries in the buckets b and what         *)
(* maphash(), being at entry e, can reach.                                   *)
Collect(b, e, r, visited) ==
  LET held == Held(e, r)
      live == InBuckets(b) \cup held
  IN /\ removed' = [x \in held |-> r[x]]
     /\ value' = [x \in live |-> value[x]]
     /\ seen' = visited \cap live

(* The entries in gone leave the table.                                      *)
Unlink(b, gone) ==
  /\ buckets' = b
  /\ Collect(b, walk.e, [x \in DOMAIN removed \cup gone |-> NextEntry(x)], seen)

(* The function that maphash() calls may change or remove the current entry. *)
Touch(e) == tame' = (tame /\ e = walk.e)

Store(k, v) == stored' = [stored EXCEPT ![PlaceOf(k)] = IF k \in exposed THEN UNKNOWN ELSE v]

------------------------------------------------------------------------------
(* Operations.                                                               *)

get(k) ==
  /\ Cache(k, IndexOf(k))
  /\ UNCHANGED <<table, keys, mapping, stored>>

(* put() of a key that is found.                                             *)
put_replace(k, v) ==
  LET e == Find(k) IN
  /\ e # NULL
  /\ value' = [value EXCEPT ![e] = v]
  /\ Cache(k, IndexOf(k))
  /\ Touch(e)
  /\ Store(k, v)
  /\ UNCHANGED <<shape, count, buckets, keys, walk, removed, seen>>

(* new HashEntry, pushed at the front of bucket i of b.                      *)
Push(k, v, i, b) ==
  LET free == {n \in 1 .. MaxEntries : <<k, n>> \notin DOMAIN value}
      e == <<k, Min(free)>>
  IN /\ value' = [x \in DOMAIN value \cup {e} |-> IF x = e THEN v ELSE value[x]]
     /\ buckets' = [b EXCEPT ![i] = <<e>> \o @]
     /\ count' = count + 1
     /\ Cache(k, i)
     /\ tame' = FALSE
     /\ Store(k, v)
     /\ UNCHANGED <<test, keys, walk, removed, seen>>

HasRoom == Cardinality(DOMAIN value) + Cardinality(exposed) < MaxEntries

put_new(k, v) ==
  /\ Find(k) = NULL
  /\ count + 1 <= Threshold(capacity)
  /\ HasRoom
  /\ Push(k, v, IndexOf(k), buckets)
  /\ UNCHANGED capacity

(* Entry x comes before y, from the last bucket to the first.                *)
Earlier(x, y) ==
  \E i, j \in DOMAIN buckets : \E m \in DOMAIN buckets[i], n \in DOMAIN buckets[j] :
    /\ buckets[i][m] = x /\ buckets[j][n] = y
    /\ i > j \/ (i = j /\ m < n)

(* The entries in S, in this order.                                          *)
Ordered(S) ==
  [n \in 1 .. Cardinality(S) |->
     CHOOSE x \in S : Cardinality({y \in S : Earlier(y, x)}) = n - 1]

(* The entries that the bigger table has in bucket i.                        *)
Rehash(i) == {e \in InBuckets(buckets) : Index(KeyOf(e), 2 * capacity) = i}

(* Mutant: "--i > 0" instead of "i-- > 0".                                   *)
Rehashed_but_first ==
  [i \in 0 .. 2 * capacity - 1 |-> Ordered(Rehash(i) \ Range(buckets[0]))]

(* Mutant: the entries are pushed at the front.                              *)
Rehashed_front == [i \in 0 .. 2 * capacity - 1 |-> Reverse(Ordered(Rehash(i)))]

(* rehash1() and EqualpHashTable::rehash(): each entry, in this order, goes  *)
(* to the end of its new chain.                                              *)
Rehashed == [i \in 0 .. 2 * capacity - 1 |-> Ordered(Rehash(i))]

(* Mutant: the index is not computed again.                                  *)
put_rehash_old_index(k, v) ==
  /\ Find(k) = NULL
  /\ count + 1 > Threshold(capacity)
  /\ HasRoom /\ 2 * capacity <= MaxCapacity
  /\ capacity' = 2 * capacity
  /\ Push(k, v, IndexOf(k), Rehashed)

(* The index is computed again to suit the bigger table.                     *)
put_rehash(k, v) ==
  /\ Find(k) = NULL
  /\ count + 1 > Threshold(capacity)
  /\ HasRoom /\ 2 * capacity <= MaxCapacity
  /\ capacity' = 2 * capacity
  /\ Push(k, v, Index(k, 2 * capacity), Rehashed)

(* The entry is unlinked; its own _next stays.                               *)
remove(k) ==
  LET e == Find(k)
      i == IndexOf(k)
  IN /\ e # NULL
     /\ Unlink([buckets EXCEPT ![i] = RemoveAt(@, Min(Hits(k)))], {e})
     /\ count' = count - 1
     /\ Cache(k, i)
     /\ Touch(e)
     /\ Store(k, ABSENT)
     /\ UNCHANGED <<shape, keys, walk>>

(* The cache of an EqHashTable stays.                                        *)
clear ==
  /\ Unlink([i \in DOMAIN buckets |-> << >>], InBuckets(buckets))
  /\ count' = 0
  /\ tame' = FALSE
  /\ stored' = [p \in Places |-> IF p \in exposed THEN UNKNOWN ELSE ABSENT]
  /\ UNCHANGED <<shape, cached, keys, walk>>

(* The program modifies a key that the table knows of, which the language    *)
(* allows for eq and eql tables only, whose test goes on taking it for the   *)
(* same.  An object that the table does not     *)
(* know of might as well have had the new contents from the beginning.       *)
modify(k, c) ==
  /\ test \in IdentityTests
  /\ cached.key = k \/ \E e \in InBuckets(buckets) : KeyOf(e) = k
  /\ content[k] # c
  /\ k \notin exposed /\ Cardinality(exposed) < MaxExposed
  /\ content' = [content EXCEPT ![k] = c]
  /\ exposed' = exposed \cup {k}
  /\ stored' = [stored EXCEPT ![k] = UNKNOWN]
  /\ UNCHANGED <<table, cached, mapping>>

------------------------------------------------------------------------------
(* maphash().                                                                *)

(* The first entry of the buckets below i, as they are now.                  *)
FirstBelow(i) ==
  LET lower == {j \in 0 .. i - 1 : buckets[j] # << >>}
  IN IF lower = {} THEN NoWalk ELSE [i |-> Max(lower), e |-> Head(buckets[Max(lower)])]

(* The rest of the chain, and then the buckets with a smaller index.         *)
NextVisit ==
  IF NextEntry(walk.e) # NULL THEN [walk EXCEPT !.e = NextEntry(walk.e)] ELSE FirstBelow(walk.i)

(* function->execute(e->_key, e->_value) is called; what it does are the     *)
(* operations above.                                                         *)
Visit(at) ==
  /\ at # NoWalk
  /\ walk' = at
  /\ Collect(buckets, at.e, removed, seen \cup {at.e})
  /\ UNCHANGED <<shape, count, buckets, cached, keys, stored>>

maphash_start == walk = NoWalk /\ Visit(FirstBelow(capacity)) /\ tame' = TRUE

maphash_visit == walk # NoWalk /\ Visit(NextVisit) /\ UNCHANGED tame

EndWalk ==
  /\ walk' = NoWalk
  /\ Collect(buckets, NULL, removed, {})
  /\ tame' = FALSE
  /\ UNCHANGED <<shape, count, buckets, cached, keys, stored>>

maphash_end == walk # NoWalk /\ NextVisit = NoWalk /\ EndWalk

(* The function makes a non-local exit.                                      *)
maphash_exit == walk # NoWalk /\ NextVisit # NoWalk /\ EndWalk

Next ==
  \/ \E k \in Keys :
       \/ get(k) \/ remove(k)
       \/ \E v \in Values : put_replace(k, v) \/ put_new(k, v) \/ put_rehash(k, v)
       \/ \E c \in Variants[k] : modify(k, c)
  \/ clear
  \/ maphash_start \/ maphash_visit \/ maphash_end \/ maphash_exit

Spec == Init /\ [][Next]_vars

------------------------------------------------------------------------------
(* Properties.                                                               *)

(* Types of the fields; an entry is in one chain, once, hash-table-count is  *)
(* the number of the entries, whatever the program does to its keys, and the *)
(* table is never fuller than the load factor says.                          *)
TypeOK ==
  /\ test \in Tests
  /\ capacity \in Nat \ {0}
  /\ count \in 0 .. Threshold(capacity)
  /\ buckets \in [0 .. capacity - 1 -> Seq(Entries)]
  /\ count = Cardinality(InBuckets(buckets))
  /\ \A i, j \in DOMAIN buckets : \A m \in DOMAIN buckets[i], n \in DOMAIN buckets[j] :
       buckets[i][m] = buckets[j][n] => i = j /\ m = n
  /\ DOMAIN value \subseteq Entries
  /\ \A e \in DOMAIN value : value[e] \in Values
  /\ cached \in [key : Keys \cup {NULL}, index : Nat]
  /\ content \in [Keys -> Contents]
  /\ walk \in [i : 0 .. capacity - 1, e : Entries \cup {NULL}]
  /\ \A e \in DOMAIN removed : removed[e] \in DOMAIN value \cup {NULL}
  /\ seen \subseteq Entries
  /\ tame \in BOOLEAN
  /\ exposed \subseteq Keys
  /\ stored \in [Places -> Values \cup {ABSENT, UNKNOWN}]

(* All objects that the test takes for the same as the key have its hash, as *)
(* the tables take for granted.                                              *)
Compatible(k) == \A j \in Keys : Same(j, k) => HashOf(j) = HashOf(k)

(* Whenever get(), put() or remove() skip the computation of the index, the  *)
(* one they use is that of the key in the table as it is now.                *)
CacheValid ==
  cached.key # NULL /\ cached.key \notin exposed =>
    cached.index = Index(cached.key, capacity)

(* An entry is in the bucket where its key is looked for, no chain has two   *)
(* entries for one key, and the table has only one if the hash of the key    *)
(* agrees with the test, through collisions, removals and rehashes.          *)
OneEntryPerKey ==
  \A i \in DOMAIN buckets : \A e \in Range(buckets[i]) :
    KeyOf(e) \notin exposed =>
      /\ Index(KeyOf(e), capacity) = i
      /\ \A f \in InBuckets(buckets) :
           /\ Same(KeyOf(e), KeyOf(f))
           /\ f \in Range(buckets[i]) \/ Compatible(KeyOf(e))
           => e = f

(* gethash() returns what was put last under a key that the test takes for   *)
(* the same and that was not removed since, whatever was cached, rehashed or *)
(* removed in between, if the hash of the key agrees with the test: of these *)
(* only a key modified under the table can be lost.                          *)
GetReturnsLastPut ==
  \A k \in Keys \ exposed :
    Compatible(k) =>
      stored[PlaceOf(k)] = IF Find(k) = NULL THEN ABSENT ELSE value[Find(k)]

(* maphash() visits no entry twice, also when the function it calls adds     *)
(* and removes entries and the table is rehashed in the middle of the walk.  *)
VisitedOnce ==
  [][maphash_visit /\ exposed = {} => walk'.e \notin seen]_vars

(* A maphash() whose function only changes or removes the current entry has  *)
(* visited all entries that are in the table at the end.                     *)
MaphashComplete ==
  [][maphash_end /\ tame => InBuckets(buckets) \subseteq seen]_vars

==============================================================================
