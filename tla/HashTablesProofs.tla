--------------------------- MODULE HashTablesProofs ---------------------------
(***************************************************************************)
(* Proofs, for any objects, contents, hash function and program, about the *)
(* hash tables of the language.                                            *)
(***************************************************************************)
EXTENDS HashTables, TLAPS, FiniteSetTheorems, SequenceTheorems, NaturalsInduction

(* A set of naturals that is not empty has a smallest element.               *)
LEMMA LeastExists ==
  ASSUME NEW T, T \subseteq Nat, T # {}
  PROVE  \E x \in T : \A y \in T : x <= y
<1>1. IsWellFoundedOn(OpToRel(<, Nat), Nat) BY NatLessThanWellFounded
<1>2. PICK x \in T : \A y \in T : ~(<<y, x>> \in OpToRel(<, Nat)) BY <1>1, WFMin, Zenon
<1>3. ASSUME NEW y \in T PROVE x <= y
  <2>1. x \in Nat /\ y \in Nat OBVIOUS
  <2>2. ~(y < x)
    <3>1. y < x => <<y, x>> \in OpToRel(<, Nat) BY <2>1, Zenon DEF OpToRel
    <3>2. QED BY <1>2, <3>1, Zenon
  <2>3. QED BY <2>1, <2>2
<1>4. QED BY <1>2, <1>3

(* Min() chooses it.                                                         *)
LEMMA MinIs ==
  ASSUME NEW T, T \subseteq Nat, T # {}
  PROVE  Min(T) \in T /\ \A y \in T : Min(T) <= y
<1>1. \E x \in T : \A y \in T : x =< y BY LeastExists
<1>2. QED BY <1>1 DEF Min

(* A set of naturals that is bounded has a greatest element.                 *)
LEMMA MaxIs ==
  ASSUME NEW T, NEW n \in Nat, T \subseteq 0 .. n, T # {}
  PROVE  Max(T) \in T /\ \A y \in T : Max(T) >= y
<1> DEFINE D == {n - x : x \in T}
<1>1. D \subseteq Nat /\ D # {}
  <2>1. \A x \in T : n - x \in Nat OBVIOUS
  <2>2. QED BY <2>1
<1>2. PICK d \in D : \A y \in D : d <= y BY <1>1, LeastExists
<1>3. PICK x \in T : d = n - x BY <1>2
<1>4. \A y \in T : x >= y
  <2> TAKE y \in T
  <2>1. n - y \in D /\ x \in 0 .. n /\ y \in 0 .. n OBVIOUS
  <2>2. n - x <= n - y BY <1>2, <1>3, <2>1
  <2>3. QED BY <2>1, <2>2
<1>5. QED BY <1>3, <1>4 DEF Max

-------------------------------------------------------------------------------
(* Chains of entries.                                                        *)

(* Entry x is the m-th of chain i of b.                                      *)
At(b, i, m, x) == i \in DOMAIN b /\ m \in DOMAIN b[i] /\ b[i][m] = x

In(b, i, x) == \E m : At(b, i, m, x)

(* Entry y comes after x in their chain.                                     *)
Before(b, x, y) == \E i, m, n : At(b, i, m, x) /\ At(b, i, n, y) /\ m < n

Once(b) == \A i, j, m, n, x : At(b, i, m, x) /\ At(b, j, n, x) => i = j /\ m = n

Chains(b, cap) == b \in [0 .. cap - 1 -> Seq(Entries)] /\ Once(b)

(* The places of an array of chains.                                         *)
LEMMA AtTypes ==
  ASSUME NEW b, NEW cap \in Nat, Chains(b, cap), NEW i, NEW m, NEW x, At(b, i, m, x)
  PROVE  /\ i \in 0 .. cap - 1 /\ b[i] \in Seq(Entries) /\ Len(b[i]) \in Nat
         /\ m \in 1 .. Len(b[i]) /\ m \in Nat \ {0}
         /\ x \in Entries
<1>1. i \in 0 .. cap - 1 /\ b[i] \in Seq(Entries) BY DEF Chains, At
<1>2. DOMAIN b[i] = 1 .. Len(b[i]) /\ Len(b[i]) \in Nat BY <1>1
<1>3. QED BY <1>1, <1>2 DEF At

(* InBuckets() and In() say the same of an entry.                            *)
LEMMA InBucketsIs ==
  ASSUME NEW b, NEW x
  PROVE  x \in InBuckets(b) <=> \E i : In(b, i, x)
BY DEF InBuckets, In, At, Range

(* Range() of a chain and In() say the same of an entry.                     *)
LEMMA RangeIs ==
  ASSUME NEW b, NEW i \in DOMAIN b, NEW x
  PROVE  x \in Range(b[i]) <=> In(b, i, x)
BY DEF In, At, Range

(* The entries of an array of chains.                                        *)
LEMMA InTypes ==
  ASSUME NEW b, NEW cap \in Nat, Chains(b, cap), NEW i, NEW x, In(b, i, x)
  PROVE  i \in 0 .. cap - 1 /\ x \in Entries /\ x \in InBuckets(b) /\ x # NULL
BY AtTypes, InBucketsIs, HashAssumption DEF In

(* The order of a chain.                                                     *)
LEMMA BeforeIs ==
  ASSUME NEW b, NEW cap \in Nat, Chains(b, cap)
  PROVE  /\ \A x, y, i : Before(b, x, y) => /\ x # y
                                            /\ In(b, i, x) <=> In(b, i, y)
                                            /\ x \in InBuckets(b) /\ y \in InBuckets(b)
         /\ \A x, y, z : Before(b, x, y) /\ Before(b, y, z) => Before(b, x, z)
<1>1. ASSUME NEW x, NEW y, Before(b, x, y)
      PROVE  /\ x # y
             /\ \A i : In(b, i, x) <=> In(b, i, y)
             /\ x \in InBuckets(b) /\ y \in InBuckets(b)
  <2>1. PICK i, m, n : At(b, i, m, x) /\ At(b, i, n, y) /\ m < n BY <1>1 DEF Before
  <2>2. m \in Nat /\ n \in Nat BY <2>1, AtTypes
  <2>3. x # y BY <2>1, <2>2 DEF Chains, Once
  <2>4. \A j : In(b, j, x) <=> In(b, j, y) BY <2>1 DEF Chains, Once, In
  <2>5. QED BY <2>1, <2>3, <2>4, InBucketsIs DEF In
<1>2. ASSUME NEW x, NEW y, NEW z, Before(b, x, y), Before(b, y, z)
      PROVE  Before(b, x, z)
  <2>1. PICK i, m, n : At(b, i, m, x) /\ At(b, i, n, y) /\ m < n BY <1>2 DEF Before
  <2>2. PICK j, p, q : At(b, j, p, y) /\ At(b, j, q, z) /\ p < q BY <1>2 DEF Before
  <2>3. i = j /\ n = p BY <2>1, <2>2 DEF Chains, Once
  <2>4. m \in Nat /\ n \in Nat /\ q \in Nat BY <2>1, <2>2, AtTypes
  <2>5. m < q BY <2>1, <2>2, <2>3, <2>4
  <2>6. QED BY <2>1, <2>2, <2>3, <2>5 DEF Before
<1>3. QED BY <1>1, <1>2

(* Two entries of one chain: one comes before the other.                     *)
LEMMA ChainIsTotal ==
  ASSUME NEW b, NEW cap \in Nat, Chains(b, cap), NEW i, NEW x, NEW y,
         In(b, i, x), In(b, i, y), x # y
  PROVE  Before(b, x, y) \/ Before(b, y, x)
<1>1. PICK m, n : At(b, i, m, x) /\ At(b, i, n, y) BY DEF In
<1>2. m \in Nat /\ n \in Nat BY <1>1, AtTypes
<1>3. m # n BY <1>1 DEF At
<1>4. QED BY <1>1, <1>2, <1>3 DEF Before

(* A chain without its n-th entry, and a chain with one more at the front.   *)
LEMMA RemoveAtIs ==
  ASSUME NEW S, NEW s \in Seq(S), NEW n \in 1 .. Len(s)
  PROVE  /\ RemoveAt(s, n) \in Seq(S) /\ Len(RemoveAt(s, n)) = Len(s) - 1
         /\ \A m \in 1 .. Len(s) - 1 :
              RemoveAt(s, n)[m] = IF m < n THEN s[m] ELSE s[m + 1]
<1>1. PICK p, q : p = SubSeq(s, 1, n - 1) /\ q = SubSeq(s, n + 1, Len(s)) OBVIOUS
<1>2. Len(s) \in Nat /\ n \in Nat OBVIOUS
<1>3. p \in Seq(S) /\ Len(p) = n - 1 /\ \A m \in 1 .. n - 1 : p[m] = s[m] BY <1>1, <1>2
<1>4. q \in Seq(S) /\ Len(q) = Len(s) - n /\ \A m \in 1 .. Len(s) - n : q[m] = s[m + n]
  BY <1>1, <1>2
<1>5. PICK t : t = p \o q OBVIOUS
<1>6. /\ t \in Seq(S) /\ Len(t) = Len(s) - 1
      /\ \A m \in 1 .. Len(s) - 1 : t[m] = IF m <= n - 1 THEN p[m] ELSE q[m - (n - 1)]
  <2>1. /\ t \in Seq(S) /\ Len(t) = Len(p) + Len(q)
        /\ \A m \in 1 .. Len(p) + Len(q) : t[m] = IF m <= Len(p) THEN p[m] ELSE q[m - Len(p)]
    BY <1>3, <1>4, <1>5, ConcatProperties
  <2>2. Len(p) + Len(q) = Len(s) - 1 BY <1>2, <1>3, <1>4
  <2>3. QED BY <1>3, <2>1, <2>2
<1>7. \A m \in 1 .. Len(s) - 1 : t[m] = IF m < n THEN s[m] ELSE s[m + 1]
  <2> TAKE m \in 1 .. Len(s) - 1
  <2>1. CASE m < n BY <1>2, <1>3, <1>6, <2>1
  <2>2. CASE ~(m < n)
    <3>1. PICK d \in Nat : d = m - (n - 1) /\ d \in 1 .. Len(s) - n /\ d + n = m + 1
      BY <1>2, <2>2
    <3>2. q[d] = s[d + n] /\ t[m] = q[d] BY <1>2, <1>4, <1>6, <2>2, <3>1
    <3>3. QED BY <2>2, <3>1, <3>2
  <2>3. QED BY <2>1, <2>2
<1>8. t = RemoveAt(s, n) BY <1>1, <1>5 DEF RemoveAt
<1>9. QED BY <1>6, <1>7, <1>8

(* A sequence with an element put at its front.                              *)
LEMMA ConsIs ==
  ASSUME NEW S, NEW s \in Seq(S), NEW x \in S
  PROVE  /\ <<x>> \o s \in Seq(S) /\ Len(<<x>> \o s) = Len(s) + 1
         /\ \A m \in 1 .. Len(s) + 1 : (<<x>> \o s)[m] = IF m = 1 THEN x ELSE s[m - 1]
OBVIOUS

(* Chain i of b without its n-th entry.                                      *)
Dropped(b, i, n) == [b EXCEPT ![i] = RemoveAt(@, n)]

(* Chain i of b with e pushed at its front.                                  *)
Pushed(b, i, e) == [b EXCEPT ![i] = <<e>> \o @]

(* Only e is gone, and the others are in their order.                        *)
Without(b, c, cap, e) ==
  /\ Chains(c, cap)
  /\ \A j, x : In(c, j, x) <=> In(b, j, x) /\ x # e
  /\ \A x, y : Before(c, x, y) <=> Before(b, x, y) /\ x # e /\ y # e

(* Only e is new, and the others are in their order.                         *)
With(b, c, cap, i, e) ==
  /\ Chains(c, cap)
  /\ \A j, x : In(c, j, x) <=> In(b, j, x) \/ (j = i /\ x = e)
  /\ \A x, y : x # e => (Before(c, x, y) <=> Before(b, x, y))

(* remove() takes an entry out of its chain.                                 *)
LEMMA DroppedIs ==
  ASSUME NEW b, NEW cap \in Nat, Chains(b, cap), NEW i, NEW n, NEW e, At(b, i, n, e)
  PROVE  Without(b, Dropped(b, i, n), cap, e)
<1>1. PICK c : c = Dropped(b, i, n) OBVIOUS
<1>2. PICK D : D = 0 .. cap - 1 OBVIOUS
<1>3. PICK Q : Q = Seq(Entries) OBVIOUS
<1>4. /\ i \in D /\ b[i] \in Q /\ Len(b[i]) \in Nat /\ n \in 1 .. Len(b[i]) /\ n \in Nat \ {0}
      /\ b \in [D -> Q]
  BY <1>2, <1>3, AtTypes DEF Chains
<1>5. PICK s : s = RemoveAt(b[i], n) OBVIOUS
<1>6. /\ s \in Q /\ Len(s) = Len(b[i]) - 1
      /\ \A m \in 1 .. Len(b[i]) - 1 : s[m] = IF m < n THEN b[i][m] ELSE b[i][m + 1]
  BY <1>3, <1>4, <1>5, RemoveAtIs
<1>7. c = [b EXCEPT ![i] = s] BY <1>1, <1>5 DEF Dropped
<1>8. c \in [D -> Q] /\ c[i] = s /\ \A j \in D : j # i => c[j] = b[j] BY <1>4, <1>6, <1>7
<1>9. \A j \in D : DOMAIN b[j] = 1 .. Len(b[j]) /\ Len(b[j]) \in Nat BY <1>3, <1>4
<1>10. DOMAIN s = 1 .. Len(b[i]) - 1 BY <1>3, <1>4, <1>6
<1>11. DOMAIN c = D /\ DOMAIN b = D BY <1>4, <1>8
<1>12. \A j, m, x : j # i => (At(c, j, m, x) <=> At(b, j, m, x))
  BY <1>8, <1>11 DEF At
<1>13. \A m, x : At(c, i, m, x) <=> /\ m \in 1 .. Len(b[i]) - 1
                                    /\ x = IF m < n THEN b[i][m] ELSE b[i][m + 1]
  BY <1>4, <1>6, <1>8, <1>10, <1>11 DEF At
<1>14. \A m \in Nat : \A x : m < n => (At(c, i, m, x) <=> At(b, i, m, x))
  <2> TAKE m \in Nat
  <2> TAKE x
  <2>1. At(b, i, m, x) <=> m \in 1 .. Len(b[i]) /\ b[i][m] = x BY <1>4, <1>9, <1>11 DEF At
  <2>2. m < n => (m \in 1 .. Len(b[i]) <=> m \in 1 .. Len(b[i]) - 1) BY <1>4
  <2>3. QED BY <1>13, <2>1, <2>2
<1>15. \A m \in Nat : \A x : m >= n => (At(c, i, m, x) <=> At(b, i, m + 1, x))
  <2> TAKE m \in Nat
  <2> TAKE x
  <2>1. At(b, i, m + 1, x) <=> m + 1 \in 1 .. Len(b[i]) /\ b[i][m + 1] = x
    BY <1>4, <1>9, <1>11 DEF At
  <2>2. m >= n => (m + 1 \in 1 .. Len(b[i]) <=> m \in 1 .. Len(b[i]) - 1) /\ ~(m < n) BY <1>4
  <2>3. QED BY <1>13, <2>1, <2>2
<1>16. \A j, m, x : At(c, j, m, x) => m \in Nat
  <2> SUFFICES ASSUME NEW j, NEW m, NEW x, At(c, j, m, x) PROVE m \in Nat OBVIOUS
  <2>1. CASE j = i BY <1>4, <1>13, <2>1
  <2>2. CASE j # i BY <1>12, <2>2, AtTypes
  <2>3. QED BY <2>1, <2>2
<1>17. \A j, m, x : At(b, j, m, x) => m \in Nat BY AtTypes
<1>18. \A j, k, m, p, x : At(b, j, m, x) /\ At(b, k, p, x) => j = k /\ m = p BY DEF Chains, Once
<1> DEFINE old(m) == IF m < n THEN m ELSE m + 1
<1>19. \A m, x : At(c, i, m, x) => At(b, i, old(m), x) /\ old(m) # n
  BY <1>4, <1>14, <1>15, <1>16
<1>20. Once(c)
  <2> SUFFICES ASSUME NEW j, NEW k, NEW m, NEW p, NEW x, At(c, j, m, x), At(c, k, p, x)
               PROVE  j = k /\ m = p
    BY DEF Once
  <2>1. m \in Nat /\ p \in Nat BY <1>16
  <2>2. CASE j # i /\ k # i BY <1>12, <1>18, <2>2
  <2>3. CASE j = i /\ k = i
    <3>1. old(m) = old(p) BY <1>18, <1>19, <2>3
    <3>2. QED BY <1>4, <2>1, <2>3, <3>1
  <2>4. CASE (j = i) # (k = i) BY <1>12, <1>18, <1>19, <2>4
  <2>5. QED BY <2>2, <2>3, <2>4
<1>21. Chains(c, cap) BY <1>2, <1>3, <1>8, <1>20 DEF Chains
<1>22. \A m, x : At(b, i, m, x) /\ m < n => At(c, i, m, x) BY <1>14, <1>17
<1>23. ASSUME NEW m, NEW x, At(b, i, m, x), m # n, ~(m < n)
       PROVE  m - 1 \in Nat /\ m - 1 >= n /\ At(c, i, m - 1, x)
  <2>1. m \in Nat BY <1>17, <1>23
  <2>2. PICK q \in Nat : q = m - 1 /\ q >= n /\ m = q + 1 BY <1>4, <1>23, <2>1
  <2>3. QED BY <1>15, <1>23, <2>2
<1>24. ASSUME NEW j, NEW x PROVE In(c, j, x) <=> In(b, j, x) /\ x # e
  <2>1. CASE j # i
    <3>1. In(c, j, x) <=> In(b, j, x) BY <1>12, <2>1 DEF In
    <3>2. In(b, j, x) => x # e BY <1>18, <2>1 DEF In
    <3>3. QED BY <3>1, <3>2
  <2>2. CASE j = i
    <3>1. In(c, i, x) => In(b, i, x) /\ x # e BY <1>18, <1>19 DEF In
    <3>2. ASSUME In(b, i, x), x # e PROVE In(c, i, x)
      <4>1. PICK m : At(b, i, m, x) BY <3>2 DEF In
      <4>2. m # n BY <3>2, <4>1 DEF At
      <4>3. QED BY <1>22, <1>23, <4>1, <4>2 DEF In
    <3>3. QED BY <2>2, <3>1, <3>2
  <2>3. QED BY <2>1, <2>2
<1>25. ASSUME NEW x, NEW y PROVE Before(c, x, y) <=> Before(b, x, y) /\ x # e /\ y # e
  <2>1. ASSUME Before(c, x, y) PROVE Before(b, x, y) /\ x # e /\ y # e
    <3>1. PICK j, m, p : At(c, j, m, x) /\ At(c, j, p, y) /\ m < p BY <2>1 DEF Before
    <3>2. x # e /\ y # e BY <1>24, <3>1 DEF In
    <3>3. CASE j # i BY <1>12, <3>1, <3>2, <3>3 DEF Before
    <3>4. CASE j = i
      <4>1. At(b, i, old(m), x) /\ At(b, i, old(p), y) BY <1>19, <3>1, <3>4
      <4>2. old(m) < old(p) BY <1>4, <1>16, <3>1
      <4>3. QED BY <3>2, <4>1, <4>2 DEF Before
    <3>5. QED BY <3>3, <3>4
  <2>2. ASSUME Before(b, x, y), x # e, y # e PROVE Before(c, x, y)
    <3>1. PICK j, m, p : At(b, j, m, x) /\ At(b, j, p, y) /\ m < p BY <2>2 DEF Before
    <3>2. m \in Nat /\ p \in Nat BY <1>17, <3>1
    <3>3. CASE j # i BY <1>12, <3>1, <3>3 DEF Before
    <3>4. CASE j = i
      <4>1. m # n /\ p # n BY <2>2, <3>1, <3>4 DEF At
      <4>2. CASE p < n
        <5>1. m < n BY <1>4, <3>1, <3>2, <4>2
        <5>2. QED BY <1>22, <3>1, <3>4, <4>2, <5>1 DEF Before
      <4>3. CASE m < n /\ ~(p < n)
        <5>1. At(c, i, m, x) /\ At(c, i, p - 1, y) BY <1>22, <1>23, <3>1, <3>4, <4>1, <4>3
        <5>2. m < p - 1 BY <1>4, <1>23, <3>1, <3>2, <3>4, <4>1, <4>3
        <5>3. QED BY <5>1, <5>2 DEF Before
      <4>4. CASE ~(m < n)
        <5>1. ~(p < n) BY <1>4, <3>1, <3>2, <4>4
        <5>2. At(c, i, m - 1, x) /\ At(c, i, p - 1, y) BY <1>23, <3>1, <3>4, <4>1, <4>4, <5>1
        <5>3. m - 1 < p - 1 BY <3>1, <3>2
        <5>4. QED BY <5>2, <5>3 DEF Before
      <4>5. QED BY <4>2, <4>3, <4>4
    <3>5. QED BY <3>3, <3>4
  <2>3. QED BY <2>1, <2>2
<1>26. Without(b, c, cap, e) BY <1>21, <1>24, <1>25 DEF Without
<1>27. QED BY <1>1, <1>26

(* put() pushes an entry that is in no chain at the front of chain i.        *)
LEMMA PushedIs ==
  ASSUME NEW b, NEW cap \in Nat, Chains(b, cap), NEW i \in 0 .. cap - 1, NEW e \in Entries,
         e \notin InBuckets(b)
  PROVE  With(b, Pushed(b, i, e), cap, i, e)
<1>1. PICK c : c = Pushed(b, i, e) OBVIOUS
<1>2. PICK D : D = 0 .. cap - 1 OBVIOUS
<1>3. PICK Q : Q = Seq(Entries) OBVIOUS
<1>4. i \in D /\ b[i] \in Q /\ Len(b[i]) \in Nat /\ b \in [D -> Q]
  BY <1>2, <1>3 DEF Chains
<1>5. PICK s : s = <<e>> \o b[i] OBVIOUS
<1>6. /\ s \in Q /\ Len(s) = Len(b[i]) + 1
      /\ \A m \in 1 .. Len(b[i]) + 1 : s[m] = IF m = 1 THEN e ELSE b[i][m - 1]
  BY <1>3, <1>4, <1>5, ConsIs
<1>7. c = [b EXCEPT ![i] = s] BY <1>1, <1>5 DEF Pushed
<1>8. c \in [D -> Q] /\ c[i] = s /\ \A j \in D : j # i => c[j] = b[j] BY <1>4, <1>6, <1>7
<1>9. DOMAIN b[i] = 1 .. Len(b[i]) BY <1>3, <1>4
<1>10. DOMAIN s = 1 .. Len(b[i]) + 1 BY <1>3, <1>4, <1>6
<1>11. DOMAIN c = D /\ DOMAIN b = D BY <1>4, <1>8
<1>12. \A j, m, x : j # i => (At(c, j, m, x) <=> At(b, j, m, x))
  BY <1>8, <1>11 DEF At
<1>13. \A m, x : At(c, i, m, x) <=> /\ m \in 1 .. Len(b[i]) + 1
                                    /\ x = IF m = 1 THEN e ELSE b[i][m - 1]
  BY <1>4, <1>6, <1>8, <1>10, <1>11 DEF At
<1>14. \A m \in Nat : \A x : At(c, i, m + 1, x) <=> At(b, i, m, x) \/ (m = 0 /\ x = e)
  <2> TAKE m \in Nat
  <2> TAKE x
  <2>1. At(b, i, m, x) <=> m \in 1 .. Len(b[i]) /\ b[i][m] = x BY <1>4, <1>9, <1>11 DEF At
  <2>2. (m + 1) - 1 = m /\ (m + 1 = 1 <=> m = 0) OBVIOUS
  <2>3. m + 1 \in 1 .. Len(b[i]) + 1 <=> m = 0 \/ m \in 1 .. Len(b[i]) BY <1>4
  <2>4. QED BY <1>4, <1>13, <2>1, <2>2, <2>3
<1>15. \A j, m, x : At(b, j, m, x) => m \in Nat \ {0} /\ x # e
  BY AtTypes, InBucketsIs DEF In
<1>16. \A m, x : At(c, i, m, x) => \E p \in Nat : m = p + 1 /\ (At(b, i, p, x) \/ (p = 0 /\ x = e))
  <2> TAKE m, x
  <2> HAVE At(c, i, m, x)
  <2>1. PICK p \in Nat : m = p + 1 BY <1>4, <1>13
  <2>2. QED BY <1>14, <2>1
<1>17. \A j, k, m, p, x : At(b, j, m, x) /\ At(b, k, p, x) => j = k /\ m = p BY DEF Chains, Once
<1>18. Once(c)
  <2> SUFFICES ASSUME NEW j, NEW k, NEW m, NEW p, NEW x, At(c, j, m, x), At(c, k, p, x)
               PROVE  j = k /\ m = p
    BY DEF Once
  <2>1. CASE j # i /\ k # i BY <1>12, <1>17, <2>1
  <2>2. CASE j = i /\ k = i BY <1>15, <1>16, <1>17, <2>2
  <2>3. CASE (j = i) # (k = i) BY <1>12, <1>15, <1>16, <1>17, <2>3
  <2>4. QED BY <2>1, <2>2, <2>3
<1>19. Chains(c, cap) BY <1>2, <1>3, <1>8, <1>18 DEF Chains
<1>20. ASSUME NEW j, NEW x PROVE In(c, j, x) <=> In(b, j, x) \/ (j = i /\ x = e)
  <2>1. CASE j # i BY <1>12, <2>1 DEF In
  <2>2. CASE j = i
    <3>1. In(c, i, x) => In(b, i, x) \/ x = e BY <1>16 DEF In
    <3>2. ASSUME In(b, i, x) PROVE In(c, i, x)
      <4>1. PICK m : At(b, i, m, x) BY <3>2 DEF In
      <4>2. m \in Nat /\ m + 1 \in Nat BY <1>15, <4>1
      <4>3. At(c, i, m + 1, x) BY <1>14, <4>1, <4>2
      <4>4. QED BY <4>3 DEF In
    <3>3. In(c, i, e)
      <4>1. At(c, i, 0 + 1, e) BY <1>14
      <4>2. QED BY <4>1 DEF In
    <3>4. QED BY <2>2, <3>1, <3>2, <3>3
  <2>3. QED BY <2>1, <2>2
<1>21. ASSUME NEW x, NEW y, x # e PROVE Before(c, x, y) <=> Before(b, x, y)
  <2>1. ASSUME Before(c, x, y) PROVE Before(b, x, y)
    <3>1. PICK j, m, p : At(c, j, m, x) /\ At(c, j, p, y) /\ m < p BY <2>1 DEF Before
    <3>2. CASE j # i BY <1>12, <3>1, <3>2 DEF Before
    <3>3. CASE j = i
      <4>1. PICK q \in Nat : m = q + 1 /\ At(b, i, q, x) BY <1>16, <1>21, <3>1, <3>3
      <4>2. PICK r \in Nat : p = r + 1 /\ (At(b, i, r, y) \/ (r = 0 /\ y = e))
        BY <1>16, <3>1, <3>3
      <4>3. q < r BY <3>1, <4>1, <4>2
      <4>4. At(b, i, r, y) BY <4>2, <4>3
      <4>5. QED BY <4>1, <4>3, <4>4 DEF Before
    <3>4. QED BY <3>2, <3>3
  <2>2. ASSUME Before(b, x, y) PROVE Before(c, x, y)
    <3>1. PICK j, m, p : At(b, j, m, x) /\ At(b, j, p, y) /\ m < p BY <2>2 DEF Before
    <3>2. CASE j # i BY <1>12, <3>1, <3>2 DEF Before
    <3>3. CASE j = i
      <4>1. m \in Nat /\ p \in Nat BY <1>15, <3>1
      <4>2. At(c, i, m + 1, x) /\ At(c, i, p + 1, y) BY <1>14, <3>1, <3>3, <4>1
      <4>3. m + 1 < p + 1 BY <3>1, <4>1
      <4>4. QED BY <4>2, <4>3 DEF Before
    <3>4. QED BY <3>2, <3>3
  <2>3. QED BY <2>1, <2>2
<1>22. With(b, c, cap, i, e) BY <1>19, <1>20, <1>21 DEF With
<1>23. QED BY <1>1, <1>22

(* clear() leaves empty chains.                                              *)
LEMMA EmptyChains ==
  ASSUME NEW cap \in Nat, NEW b, b = [i \in 0 .. cap - 1 |-> << >>]
  PROVE  /\ Chains(b, cap) /\ InBuckets(b) = {}
         /\ \A i, x : ~In(b, i, x)
         /\ \A x, y : ~Before(b, x, y)
<1>1. \A i, m, x : ~At(b, i, m, x) BY DEF At
<1>2. b \in [0 .. cap - 1 -> Seq(Entries)] OBVIOUS
<1>3. QED BY <1>1, <1>2, InBucketsIs DEF Chains, Once, In, Before

(* The entry after e in its chain.                                           *)
LEMMA LinkIs ==
  ASSUME NEW cap \in Nat, Chains(buckets, cap), NEW e \in InBuckets(buckets)
  PROVE  \/ /\ Link(e) = NULL
            /\ \A y : ~Before(buckets, e, y)
         \/ /\ Link(e) # NULL /\ Before(buckets, e, Link(e))
            /\ \A y : Before(buckets, e, y) => y = Link(e) \/ Before(buckets, Link(e), y)
<1>1. PICK b : b = buckets OBVIOUS
<1>2. Chains(b, cap) BY <1>1
<1>3. PICK i, n : At(b, i, n, e) BY <1>1, InBucketsIs DEF In
<1>4. \A j, m : At(b, j, m, e) => j = i /\ m = n BY <1>2, <1>3 DEF Chains, Once
<1>5. (CHOOSE j \in DOMAIN b : e \in Range(b[j])) = i
  <2>1. i \in DOMAIN b /\ e \in Range(b[i]) BY <1>3, RangeIs DEF At, In
  <2>2. \A j \in DOMAIN b : e \in Range(b[j]) => j = i BY <1>4, RangeIs DEF In
  <2>3. QED BY <2>1, <2>2
<1>6. PICK c : c = b[i] OBVIOUS
<1>7. (CHOOSE m \in DOMAIN c : c[m] = e) = n
  <2>1. n \in DOMAIN c /\ c[n] = e BY <1>3, <1>6 DEF At
  <2>2. \A m \in DOMAIN c : c[m] = e => m = n BY <1>3, <1>4, <1>6 DEF At
  <2>3. QED BY <2>1, <2>2
<1>8. Link(e) = IF n < Len(c) THEN c[n + 1] ELSE NULL
  <2>1. PICK j : j = CHOOSE k \in DOMAIN buckets : e \in Range(buckets[k]) OBVIOUS
  <2>2. PICK d : d = buckets[j] OBVIOUS
  <2>3. PICK m : m = CHOOSE p \in DOMAIN d : d[p] = e OBVIOUS
  <2>4. Link(e) = IF m < Len(d) THEN d[m + 1] ELSE NULL BY <2>1, <2>2, <2>3 DEF Link
  <2>5. j = i BY <1>1, <1>5, <2>1
  <2>6. d = c BY <1>1, <1>6, <2>2, <2>5
  <2>7. m = n BY <1>7, <2>3, <2>6
  <2>8. QED BY <2>4, <2>6, <2>7
<1>9. i \in DOMAIN b /\ Len(c) \in Nat /\ DOMAIN c = 1 .. Len(c) /\ n \in 1 .. Len(c) /\ n \in Nat
  BY <1>2, <1>3, <1>6, AtTypes DEF At
<1>10. \A m, y : At(b, i, m, y) <=> m \in 1 .. Len(c) /\ c[m] = y BY <1>6, <1>9 DEF At
<1>11. \A y : Before(b, e, y) <=> \E m \in 1 .. Len(c) : n < m /\ c[m] = y
  <2> TAKE y
  <2>1. ASSUME Before(b, e, y) PROVE \E m \in 1 .. Len(c) : n < m /\ c[m] = y
    <3>1. PICK j, p, m : At(b, j, p, e) /\ At(b, j, m, y) /\ p < m BY <2>1 DEF Before
    <3>2. j = i /\ p = n BY <1>4, <3>1
    <3>3. QED BY <1>10, <3>1, <3>2
  <2>2. ASSUME NEW m \in 1 .. Len(c), n < m, c[m] = y PROVE Before(b, e, y)
    <3>1. At(b, i, m, y) BY <1>10, <2>2
    <3>2. QED BY <1>3, <2>2, <3>1 DEF Before
  <2>3. QED BY <2>1, <2>2
<1>12. CASE n < Len(c)
  <2>1. Link(e) = c[n + 1] /\ n + 1 \in 1 .. Len(c) BY <1>8, <1>9, <1>12
  <2>2. Before(b, e, Link(e)) BY <1>9, <1>11, <2>1
  <2>3. Link(e) # NULL
    <3>1. At(b, i, n + 1, Link(e)) BY <1>10, <2>1
    <3>2. QED BY <1>2, <3>1, InTypes DEF In
  <2>4. ASSUME NEW y, Before(b, e, y) PROVE y = Link(e) \/ Before(b, Link(e), y)
    <3>1. PICK m \in 1 .. Len(c) : n < m /\ c[m] = y BY <1>11, <2>4
    <3>2. CASE m = n + 1 BY <2>1, <3>1, <3>2
    <3>3. CASE m # n + 1
      <4>1. n + 1 < m BY <1>9, <3>1, <3>3
      <4>2. At(b, i, n + 1, Link(e)) /\ At(b, i, m, y) BY <1>10, <2>1, <3>1
      <4>3. QED BY <4>1, <4>2 DEF Before
    <3>4. QED BY <3>2, <3>3
  <2>5. QED BY <1>1, <2>2, <2>3, <2>4
<1>13. CASE ~(n < Len(c))
  <2>1. Link(e) = NULL BY <1>8, <1>13
  <2>2. \A y : ~Before(b, e, y) BY <1>9, <1>11, <1>13
  <2>3. QED BY <1>1, <2>1, <2>2
<1>14. QED BY <1>12, <1>13

-------------------------------------------------------------------------------
(* rehash().                                                                 *)

(* Earlier() in terms of the places of the entries.                          *)
LEMMA EarlierIs ==
  ASSUME NEW x, NEW y
  PROVE  Earlier(x, y) <=>
           \E i, j, m, n : /\ At(buckets, i, m, x) /\ At(buckets, j, n, y)
                           /\ i > j \/ (i = j /\ m < n)
BY DEF Earlier, At

(* It is a strict and total order, and in a chain that of the chain.         *)
LEMMA EarlierOrders ==
  ASSUME NEW cap \in Nat, Chains(buckets, cap)
  PROVE  /\ \A x : ~Earlier(x, x)
         /\ \A x, y, z : Earlier(x, y) /\ Earlier(y, z) => Earlier(x, z)
         /\ \A x, y \in InBuckets(buckets) : x = y \/ Earlier(x, y) \/ Earlier(y, x)
         /\ \A i, x, y : In(buckets, i, x) /\ In(buckets, i, y) /\ Earlier(x, y)
                           => Before(buckets, x, y)
<1>1. PICK b : b = buckets OBVIOUS
<1>2. Chains(b, cap) BY <1>1
<1>3. \A i, m, x : At(b, i, m, x) => i \in Int /\ m \in Int
  <2> TAKE i, m, x
  <2> HAVE At(b, i, m, x)
  <2>1. i \in 0 .. cap - 1 /\ m \in Nat BY <1>2, AtTypes
  <2>2. QED BY <2>1
<1>4. \A i, j, m, n, x : At(b, i, m, x) /\ At(b, j, n, x) => i = j /\ m = n
  BY <1>2 DEF Chains, Once
<1>5. \A x, y : Earlier(x, y) <=>
         \E i, j, m, n : /\ At(b, i, m, x) /\ At(b, j, n, y)
                         /\ i > j \/ (i = j /\ m < n)
  BY <1>1, EarlierIs
<1>6. ASSUME NEW x, Earlier(x, x) PROVE FALSE
  <2>1. PICK i, j, m, n : At(b, i, m, x) /\ At(b, j, n, x) /\ (i > j \/ (i = j /\ m < n))
    BY <1>5, <1>6
  <2>2. i = j /\ m = n /\ i \in Int /\ m \in Int BY <1>3, <1>4, <2>1
  <2>3. QED BY <2>1, <2>2
<1>7. ASSUME NEW x, NEW y, NEW z, Earlier(x, y), Earlier(y, z) PROVE Earlier(x, z)
  <2>1. PICK i, j, m, n : At(b, i, m, x) /\ At(b, j, n, y) /\ (i > j \/ (i = j /\ m < n))
    BY <1>5, <1>7
  <2>2. PICK k, l, p, q : At(b, k, p, y) /\ At(b, l, q, z) /\ (k > l \/ (k = l /\ p < q))
    BY <1>5, <1>7
  <2>3. j = k /\ n = p BY <1>4, <2>1, <2>2
  <2>4. /\ i \in Int /\ j \in Int /\ l \in Int
        /\ m \in Int /\ n \in Int /\ q \in Int
    BY <1>3, <2>1, <2>2
  <2>5. i > l \/ (i = l /\ m < q) BY <2>1, <2>2, <2>3, <2>4
  <2>6. QED BY <1>5, <2>1, <2>2, <2>5
<1>8. ASSUME NEW x \in InBuckets(buckets), NEW y \in InBuckets(buckets),
             x # y, ~Earlier(x, y)
      PROVE  Earlier(y, x)
  <2>1. PICK i, m : At(b, i, m, x) BY <1>1, InBucketsIs DEF In
  <2>2. PICK j, n : At(b, j, n, y) BY <1>1, InBucketsIs DEF In
  <2>3. ~(i > j \/ (i = j /\ m < n)) BY <1>5, <1>8, <2>1, <2>2
  <2>4. i = j => m # n BY <1>8, <2>1, <2>2 DEF At
  <2>5. i \in Int /\ j \in Int /\ m \in Int /\ n \in Int BY <1>3, <2>1, <2>2
  <2>6. j > i \/ (j = i /\ n < m) BY <2>3, <2>4, <2>5
  <2>7. QED BY <1>5, <2>1, <2>2, <2>6
<1>9. ASSUME NEW i, NEW x, NEW y, In(buckets, i, x), In(buckets, i, y), Earlier(x, y)
      PROVE  Before(buckets, x, y)
  <2>1. PICK k, l, p, q : At(b, k, p, x) /\ At(b, l, q, y) /\ (k > l \/ (k = l /\ p < q))
    BY <1>5, <1>9
  <2>2. k = i /\ l = i BY <1>1, <1>4, <1>9, <2>1 DEF In
  <2>3. p < q BY <1>3, <2>1, <2>2
  <2>4. QED BY <1>1, <2>1, <2>2, <2>3 DEF Before
<1>10. QED BY <1>6, <1>7, <1>8, <1>9

(* The sequence s has the entries in S, in that order.                       *)
OrderOf(S, s) ==
  /\ s \in Seq(S)
  /\ \A x \in S : \E m \in DOMAIN s : s[m] = x
  /\ \A m, n \in DOMAIN s : m < n => Earlier(s[m], s[n])

(* How many entries in S come before x.                                      *)
Rank(S, x) == Cardinality({y \in S : Earlier(y, x)})

(* Ranks are different, and grow along the old order.                        *)
LEMMA RankTypes ==
  ASSUME NEW cap \in Nat, Chains(buckets, cap),
         NEW S, S \subseteq InBuckets(buckets), IsFiniteSet(S)
  PROVE  /\ Cardinality(S) \in Nat
         /\ \A x \in S : Rank(S, x) \in 0 .. Cardinality(S) - 1
         /\ \A x, y \in S : Earlier(x, y) => Rank(S, x) < Rank(S, y)
<1>1. Cardinality(S) \in Nat BY FS_CardinalityType
<1>2. ASSUME NEW x \in S PROVE Rank(S, x) \in 0 .. Cardinality(S) - 1
  <2>1. PICK P : P = {y \in S : Earlier(y, x)} OBVIOUS
  <2>2. P \in SUBSET S /\ x \notin P BY <2>1, EarlierOrders
  <2>3. IsFiniteSet(P) /\ Cardinality(P) <= Cardinality(S) BY <2>2, FS_Subset
  <2>4. Cardinality(P) # Cardinality(S) BY <2>2, FS_Subset
  <2>5. Cardinality(P) \in Nat BY <2>3, FS_CardinalityType
  <2>6. QED BY <1>1, <2>1, <2>3, <2>4, <2>5 DEF Rank
<1>3. ASSUME NEW x \in S, NEW y \in S, Earlier(x, y) PROVE Rank(S, x) < Rank(S, y)
  <2>1. PICK P, Q : P = {z \in S : Earlier(z, x)} /\ Q = {z \in S : Earlier(z, y)} OBVIOUS
  <2>2. P \in SUBSET Q /\ x \notin P /\ x \in Q BY <1>3, <2>1, EarlierOrders
  <2>3. Q \in SUBSET S BY <2>1
  <2>4. IsFiniteSet(Q) BY <2>3, FS_Subset
  <2>5. IsFiniteSet(P) /\ Cardinality(P) <= Cardinality(Q) BY <2>2, <2>4, FS_Subset
  <2>6. Cardinality(P) # Cardinality(Q) BY <2>2, <2>4, FS_Subset
  <2>7. Cardinality(P) \in Nat /\ Cardinality(Q) \in Nat BY <2>4, <2>5, FS_CardinalityType
  <2>8. QED BY <2>1, <2>5, <2>6, <2>7 DEF Rank
<1>4. QED BY <1>1, <1>2, <1>3

(* Ordered(S) lists the entries of S, each once, in their old order.         *)
LEMMA OrderedIs ==
  ASSUME NEW cap \in Nat, Chains(buckets, cap),
         NEW S, S \subseteq InBuckets(buckets), IsFiniteSet(S)
  PROVE  OrderOf(S, Ordered(S))
<1>1. PICK N : N = Cardinality(S) OBVIOUS
<1>2. /\ N \in Nat
      /\ \A x \in S : Rank(S, x) \in 0 .. N - 1
      /\ \A x, y \in S : Earlier(x, y) => Rank(S, x) < Rank(S, y)
  BY <1>1, RankTypes
<1>3. \A x, y \in S : Rank(S, x) = Rank(S, y) => x = y
  <2> SUFFICES ASSUME NEW x \in S, NEW y \in S, Rank(S, x) = Rank(S, y), x # y PROVE FALSE
    OBVIOUS
  <2>1. Earlier(x, y) \/ Earlier(y, x) BY EarlierOrders
  <2>2. Rank(S, x) < Rank(S, y) \/ Rank(S, y) < Rank(S, x) BY <1>2, <2>1
  <2>3. Rank(S, x) \in Int /\ Rank(S, y) \in Int BY <1>2
  <2>4. QED BY <2>2, <2>3
<1>4. \A n \in 1 .. N : \E x \in S : Rank(S, x) = n - 1
  <2>1. PICK f : f = [x \in S |-> Rank(S, x) + 1] OBVIOUS
  <2>2. f \in [S -> 1 .. N]
    <3>1. \A x \in S : Rank(S, x) + 1 \in 1 .. N BY <1>2
    <3>2. QED BY <2>1, <3>1
  <2>3. \A x, y \in S : f[x] = f[y] => x = y
    <3>1. \A x \in S : f[x] = Rank(S, x) + 1 /\ Rank(S, x) \in Int BY <1>2, <2>1
    <3>2. \A x, y \in S : f[x] = f[y] => Rank(S, x) = Rank(S, y) BY <3>1
    <3>3. QED BY <1>3, <3>2
  <2>4. f \in Injection(S, 1 .. N) BY <2>2, <2>3 DEF Injection, IsInjective
  <2>5. IsFiniteSet(1 .. N) /\ Cardinality(1 .. N) = N BY <1>2, FS_Interval
  <2>6. f \in Surjection(S, 1 .. N) BY <1>1, <2>4, <2>5, FS_Injection
  <2>7. \A n \in 1 .. N : \E x \in S : f[x] = n BY <2>6 DEF Surjection
  <2> TAKE n \in 1 .. N
  <2>8. PICK x \in S : f[x] = n BY <2>7
  <2>9. Rank(S, x) = n - 1 BY <1>2, <2>1, <2>8
  <2>10. QED BY <2>9
<1>5. PICK s : s = Ordered(S) OBVIOUS
<1>6. s = [n \in 1 .. N |-> CHOOSE x \in S : Rank(S, x) = n - 1] BY <1>1, <1>5 DEF Ordered, Rank
<1>7. DOMAIN s = 1 .. N /\ \A n \in 1 .. N : s[n] \in S /\ Rank(S, s[n]) = n - 1
  <2>1. DOMAIN s = 1 .. N BY <1>6
  <2>2. ASSUME NEW n \in 1 .. N PROVE s[n] \in S /\ Rank(S, s[n]) = n - 1
    <3>1. s[n] = CHOOSE x \in S : Rank(S, x) = n - 1 BY <1>6
    <3>2. \E x \in S : Rank(S, x) = n - 1 BY <1>4
    <3>3. QED BY <3>1, <3>2, Zenon
  <2>3. QED BY <2>1, <2>2
<1>8. s \in Seq(S)
  <2>1. s \in [1 .. N -> S]
    <3>1. s = [n \in 1 .. N |-> s[n]] BY <1>6, <1>7
    <3>2. QED BY <1>7, <3>1
  <2>2. QED BY <1>2, <2>1
<1>9. ASSUME NEW x \in S PROVE \E m \in DOMAIN s : s[m] = x
  <2>1. PICK m \in 1 .. N : m = Rank(S, x) + 1 BY <1>2
  <2>2. Rank(S, s[m]) = Rank(S, x) /\ s[m] \in S
    <3>1. Rank(S, s[m]) = m - 1 /\ s[m] \in S BY <1>7
    <3>2. Rank(S, x) \in Int BY <1>2
    <3>3. QED BY <2>1, <3>1, <3>2
  <2>3. s[m] = x BY <1>3, <2>2
  <2>4. QED BY <1>7, <2>3
<1>10. ASSUME NEW m \in DOMAIN s, NEW n \in DOMAIN s, m < n PROVE Earlier(s[m], s[n])
  <2>1. m \in 1 .. N /\ n \in 1 .. N BY <1>7
  <2>2. s[m] \in S /\ s[n] \in S /\ Rank(S, s[m]) = m - 1 /\ Rank(S, s[n]) = n - 1
    BY <1>7, <2>1
  <2>3. ~Earlier(s[n], s[m])
    <3>1. ASSUME Earlier(s[n], s[m]) PROVE FALSE
      <4>1. Rank(S, s[n]) < Rank(S, s[m]) BY <1>2, <2>2, <3>1
      <4>2. n - 1 < m - 1 BY <2>2, <4>1
      <4>3. QED BY <1>2, <1>10, <2>1, <4>2
    <3>2. QED BY <3>1
  <2>4. s[m] # s[n] BY <1>10, <2>1, <2>2
  <2>5. QED BY <2>2, <2>3, <2>4, EarlierOrders
<1>11. OrderOf(S, s) BY <1>8, <1>9, <1>10 DEF OrderOf
<1>12. QED BY <1>5, <1>11

(* The hash of a key.                                                        *)
LEMMA HashTypes ==
  ASSUME NEW k \in Keys, content \in [Keys -> Contents]
  PROVE  HashOf(k) \in Nat
<1>1. content[k] \in Contents OBVIOUS
<1>2. Hash \in [Keys -> [Contents -> Nat]] /\ EqualpHash \in [Keys -> [Contents -> Nat]]
  BY HashAssumption
<1>3. Hash[k][content[k]] \in Nat /\ EqualpHash[k][content[k]] \in Nat BY <1>1, <1>2
<1>4. QED BY <1>3 DEF HashOf

(* The index of a key.                                                       *)
LEMMA IndexTypes ==
  ASSUME NEW k \in Keys, NEW cap \in Nat \ {0}, content \in [Keys -> Contents]
  PROVE  Index(k, cap) \in 0 .. cap - 1
<1>1. HashOf(k) \in Nat BY HashTypes
<1>2. PICK h \in Nat : Index(k, cap) = h % cap BY <1>1 DEF Index
<1>3. h % cap \in 0 .. cap - 1 OBVIOUS
<1>4. QED BY <1>2, <1>3

(* The key of an entry is a key.                                             *)
LEMMA KeyTypes ==
  ASSUME NEW e \in Entries
  PROVE  KeyOf(e) \in Keys
BY DEF Entries, KeyOf

(* In the bigger table the index is the old one, or that many more.          *)
LEMMA IndexDoubles ==
  ASSUME NEW k \in Keys, NEW cap \in Nat \ {0}, content \in [Keys -> Contents]
  PROVE  Index(k, 2 * cap) \in {Index(k, cap), Index(k, cap) + cap}
<1>1. HashOf(k) \in Nat BY HashTypes
<1>2. PICK h \in Nat : Index(k, cap) = h % cap /\ Index(k, 2 * cap) = h % (2 * cap)
  BY <1>1 DEF Index
<1>3. PICK q, r \in Nat : q = h \div (2 * cap) /\ r = h % (2 * cap) OBVIOUS
<1>4. h = (2 * cap) * q + r /\ r < 2 * cap BY <1>3
<1>5. PICK d, s \in Nat : d = h \div cap /\ s = h % cap OBVIOUS
<1>6. h = cap * d + s /\ s < cap BY <1>5
<1>7. cap * d + s = cap * (2 * q) + r BY <1>4, <1>6
<1>8. r = s \/ r = s + cap
  <2>1. PICK t \in Int : t = d - 2 * q OBVIOUS
  <2>2. r = cap * t + s BY <1>7, <2>1
  <2>3. t = 0 \/ t = 1
    <3>1. CASE t >= 2
      <4>1. cap * t >= cap * 2 BY <3>1
      <4>2. QED BY <1>4, <2>2, <4>1
    <3>2. CASE t <= -1
      <4>1. cap * t <= cap * (-1) BY <3>2
      <4>2. QED BY <1>6, <2>2, <4>1
    <3>3. QED BY <3>1, <3>2
  <2>4. QED BY <2>2, <2>3
<1>9. QED BY <1>2, <1>3, <1>5, <1>8

(* The entries of the table are in the chains c of the bigger one, in order. *)
Moved(c) ==
  /\ Chains(c, 2 * capacity)
  /\ \A i, x : In(c, i, x) <=> x \in InBuckets(buckets) /\ i = Index(KeyOf(x), 2 * capacity)
  /\ \A x, y : Before(c, x, y) => Earlier(x, y)

(* rehash() moves every entry to one place.                                  *)
LEMMA RehashedIs ==
  ASSUME capacity \in Nat \ {0}, Chains(buckets, capacity), content \in [Keys -> Contents],
         IsFiniteSet(InBuckets(buckets))
  PROVE  Moved(Rehashed)
<1>1. PICK c : c = Rehashed OBVIOUS
<1>2. PICK D : D = 0 .. 2 * capacity - 1 OBVIOUS
<1>3. PICK A : A = InBuckets(buckets) OBVIOUS
<1>4. A \subseteq Entries /\ \A x \in A : Index(KeyOf(x), 2 * capacity) \in D
  <2> SUFFICES ASSUME NEW x \in A
               PROVE  x \in Entries /\ Index(KeyOf(x), 2 * capacity) \in D
    OBVIOUS
  <2>1. x \in Entries BY <1>3, InBucketsIs, InTypes
  <2>2. KeyOf(x) \in Keys /\ 2 * capacity \in Nat \ {0} BY <2>1, KeyTypes
  <2>3. QED BY <1>2, <2>1, <2>2, IndexTypes
<1>5. c = [i \in D |-> Ordered(Rehash(i))] BY <1>1, <1>2 DEF Rehashed
<1>6. DOMAIN c = D /\ \A i \in D : c[i] = Ordered(Rehash(i)) BY <1>5
<1>7. \A i, x : x \in Rehash(i) <=> x \in A /\ Index(KeyOf(x), 2 * capacity) = i
  BY <1>3 DEF Rehash
<1>8. \A i \in D : OrderOf(Rehash(i), c[i])
  <2> TAKE i \in D
  <2>1. Rehash(i) \in SUBSET A BY <1>7
  <2>2. IsFiniteSet(Rehash(i)) BY <1>3, <2>1, FS_Subset
  <2>3. OrderOf(Rehash(i), Ordered(Rehash(i))) BY <1>3, <2>1, <2>2, OrderedIs
  <2>4. QED BY <1>6, <2>3
<1>9. \A i \in D : c[i] \in Seq(Entries)
  <2> TAKE i \in D
  <2>1. c[i] \in Seq(Rehash(i)) BY <1>8 DEF OrderOf
  <2>2. Rehash(i) \subseteq Entries BY <1>4, <1>7
  <2>3. QED BY <2>1, <2>2
<1>10. c \in [D -> Seq(Entries)]
  <2>1. c = [i \in D |-> c[i]] BY <1>5, <1>6
  <2>2. QED BY <1>9, <2>1
<1>11. \A i, m, x : At(c, i, m, x) => i \in D /\ m \in Nat /\ x \in Rehash(i)
  <2> TAKE i, m, x
  <2> HAVE At(c, i, m, x)
  <2>1. i \in D /\ m \in DOMAIN c[i] /\ c[i][m] = x BY <1>6 DEF At
  <2>2. c[i] \in Seq(Rehash(i)) BY <1>8, <2>1 DEF OrderOf
  <2>3. QED BY <2>1, <2>2
<1>12. \A i, m, n, x, y : At(c, i, m, x) /\ At(c, i, n, y) /\ m < n => Earlier(x, y)
  BY <1>6, <1>8 DEF At, OrderOf
<1>13. \A x : ~Earlier(x, x) BY EarlierOrders
<1>14. Once(c)
  <2> SUFFICES ASSUME NEW i, NEW j, NEW m, NEW n, NEW x, At(c, i, m, x), At(c, j, n, x)
               PROVE  i = j /\ m = n
    BY DEF Once
  <2>1. i = j BY <1>7, <1>11
  <2>2. ~(m < n) /\ ~(n < m) BY <1>12, <1>13, <2>1
  <2>3. m \in Nat /\ n \in Nat BY <1>11
  <2>4. QED BY <2>1, <2>2, <2>3
<1>15. Chains(c, 2 * capacity) BY <1>2, <1>10, <1>14 DEF Chains
<1>16. ASSUME NEW i, NEW x
       PROVE  In(c, i, x) <=> x \in A /\ i = Index(KeyOf(x), 2 * capacity)
  <2>1. In(c, i, x) => x \in A /\ i = Index(KeyOf(x), 2 * capacity) BY <1>7, <1>11 DEF In
  <2>2. ASSUME x \in A, i = Index(KeyOf(x), 2 * capacity) PROVE In(c, i, x)
    <3>1. i \in D /\ x \in Rehash(i) BY <1>4, <1>7, <2>2
    <3>2. PICK m \in DOMAIN c[i] : c[i][m] = x BY <1>8, <3>1 DEF OrderOf
    <3>3. QED BY <1>6, <3>1, <3>2 DEF In, At
  <2>3. QED BY <2>1, <2>2
<1>17. \A x, y : Before(c, x, y) => Earlier(x, y) BY <1>12 DEF Before
<1>18. Moved(c) BY <1>3, <1>15, <1>16, <1>17 DEF Moved
<1>19. QED BY <1>1, <1>18

-------------------------------------------------------------------------------
(* What maphash() can reach.                                                 *)

(* A set of removed entries that maphash() does not leave.                   *)
Closed(S, e, r) ==
  /\ S \subseteq DOMAIN r
  /\ e \in DOMAIN r => e \in S
  /\ \A y \in S : r[y] \in DOMAIN r => r[y] \in S

(* Held() is the smallest of these.                                          *)
LEMMA HeldIs ==
  ASSUME NEW e, NEW r
  PROVE  /\ Closed(Held(e, r), e, r)
         /\ \A S : Closed(S, e, r) => Held(e, r) \subseteq S
<1>1. PICK H : H = Held(e, r) OBVIOUS
<1>2. \A S \in SUBSET DOMAIN r :
         Closed(S, e, r) <=> ({e} \cup {r[y] : y \in S}) \cap DOMAIN r \subseteq S
  BY DEF Closed
<1>3. \A x : x \in H <=> /\ x \in DOMAIN r
                         /\ \A S \in SUBSET DOMAIN r : Closed(S, e, r) => x \in S
  BY <1>1, <1>2 DEF Held
<1>4. \A S : Closed(S, e, r) => S \in SUBSET DOMAIN r BY DEF Closed
<1>5. \A S : Closed(S, e, r) => H \subseteq S BY <1>3, <1>4
<1>6. Closed(H, e, r)
  <2>1. H \subseteq DOMAIN r BY <1>3
  <2>2. e \in DOMAIN r => e \in H BY <1>3 DEF Closed
  <2>3. ASSUME NEW y \in H, r[y] \in DOMAIN r PROVE r[y] \in H
    <3>1. ASSUME NEW S \in SUBSET DOMAIN r, Closed(S, e, r) PROVE r[y] \in S
      BY <1>3, <2>3, <3>1 DEF Closed
    <3>2. QED BY <1>3, <2>3, <3>1
  <2>4. QED BY <2>1, <2>2, <2>3 DEF Closed
<1>7. QED BY <1>1, <1>5, <1>6

(* From an entry in a bucket it reaches no removed entry.                    *)
LEMMA HeldOfNone ==
  ASSUME NEW e, NEW r, e \notin DOMAIN r
  PROVE  Held(e, r) = {}
<1>1. Closed({}, e, r) BY DEF Closed
<1>2. QED BY <1>1, HeldIs

-------------------------------------------------------------------------------
(* The index that an EqHashTable remembers.                                  *)

(* Only an EqHashTable has a cached key, and it is one of the objects.       *)
CacheTypes ==
  /\ content \in [Keys -> Contents]
  /\ cached.key \in Keys \cup {NULL}
  /\ test # "eq" => cached.key = NULL

CacheInv == CacheTypes /\ CacheValid

(* The operation remembers i, which is the index of k in the table that it   *)
(* leaves, unless k has been modified.                                       *)
LEMMA CacheKeeps ==
  ASSUME CacheInv, NEW k \in Keys, NEW i, Cache(k, i),
         UNCHANGED <<test, content, exposed>>,
         test = "eq" /\ k \notin exposed => i = Index(k, capacity)'
  PROVE  CacheInv'
<1> USE DEF CacheInv
<1>1. CASE test = "eq"
  <2>1. cached' = [key |-> k, index |-> i] BY <1>1 DEF Cache
  <2>2. cached'.key = k /\ cached'.index = i BY <2>1
  <2>3. CacheTypes' BY <1>1, <2>2 DEF CacheTypes
  <2>4. CacheValid' BY <1>1, <2>2 DEF CacheValid
  <2>5. QED BY <2>3, <2>4
<1>2. CASE test # "eq"
  <2>1. cached' = cached BY <1>2 DEF Cache
  <2>2. cached.key = NULL BY <1>2 DEF CacheTypes
  <2>3. QED BY <1>2, <2>1, <2>2 DEF CacheTypes, CacheValid
<1>3. QED BY <1>1, <1>2

(* The index that an operation uses is the one of the key in the table.      *)
LEMMA IndexOfValid ==
  ASSUME CacheInv, NEW k \in Keys, k \notin exposed
  PROVE  IndexOf(k) = Index(k, capacity)
BY HashAssumption DEF CacheInv, CacheValid, IndexOf

(* An operation that remembers IndexOf(k) and leaves the capacity alone.     *)
LEMMA CacheIndexOfKeeps ==
  ASSUME CacheInv, NEW k \in Keys, Cache(k, IndexOf(k)),
         UNCHANGED <<shape, keys>>
  PROVE  CacheInv'
<1>1. UNCHANGED <<test, capacity, content, exposed>> BY DEF shape, keys
<1>2. Index(k, capacity)' = Index(k, capacity) BY <1>1 DEF Index, HashOf
<1>3. k \notin exposed => IndexOf(k) = Index(k, capacity)' BY <1>2, IndexOfValid
<1>4. QED BY <1>1, <1>3, CacheKeeps

(* An operation that leaves the cache alone.                                 *)
LEMMA UnchangedKeeps ==
  ASSUME CacheInv, UNCHANGED <<shape, keys, cached>>
  PROVE  CacheInv'
BY DEF CacheInv, CacheTypes, CacheValid, Index, HashOf, shape, keys

-------------------------------------------------------------------------------
(* The structural invariant.                                                 *)

TableFits ==
  /\ test \in Tests
  /\ capacity \in Nat \ {0}
  /\ Chains(buckets, capacity)
  /\ IsFiniteSet(InBuckets(buckets))
  /\ count = Cardinality(InBuckets(buckets))
  /\ count <= Threshold(capacity)

KeysFit ==
  /\ content \in [Keys -> Contents]
  /\ exposed \subseteq Keys /\ IsFiniteSet(exposed)
  /\ \A k \in exposed : Variants[k] # {}
  /\ exposed # {} => test \in IdentityTests

(* The remembered index is one of a bucket.                                  *)
CacheFits ==
  /\ cached \in [key : Keys \cup {NULL}, index : Nat]
  /\ cached.key # NULL => cached.index < capacity

(* The entries that are not collected are those in the buckets and the       *)
(* removed ones that maphash() can reach, and their _next is one of them.    *)
HeapFits ==
  /\ DOMAIN value = InBuckets(buckets) \cup DOMAIN removed
  /\ InBuckets(buckets) \cap DOMAIN removed = {}
  /\ DOMAIN value \subseteq Entries
  /\ IsFiniteSet(DOMAIN value)
  /\ \A x \in DOMAIN value : value[x] \in Values
  /\ \A x \in DOMAIN removed : removed[x] \in DOMAIN value \cup {NULL}
  /\ seen \subseteq DOMAIN value

(* maphash() is at an entry that is not collected, and that it has visited.  *)
WalkFits ==
  /\ walk \in [i : 0 .. capacity - 1, e : Entries \cup {NULL}]
  /\ walk # NoWalk => walk.e \in seen
  /\ walk = NoWalk => seen = {} /\ DOMAIN removed = {}
  /\ tame \in BOOLEAN

StoredTypes == stored \in [Places -> Values \cup {ABSENT, UNKNOWN}]

Fits ==
  /\ TableFits /\ KeysFit /\ CacheFits /\ CacheTypes
  /\ HeapFits /\ WalkFits /\ StoredTypes

(* The index that an operation uses is that of a bucket.                     *)
LEMMA IndexOfTypes ==
  ASSUME Fits, NEW k \in Keys
  PROVE  IndexOf(k) \in 0 .. capacity - 1
<1>1. capacity \in Nat \ {0} /\ content \in [Keys -> Contents] BY DEF Fits, TableFits, KeysFit
<1>2. Index(k, capacity) \in 0 .. capacity - 1 BY <1>1, IndexTypes
<1>3. cached.key = k => cached.index \in 0 .. capacity - 1
  <2>1. cached.index \in Nat /\ (cached.key # NULL => cached.index < capacity)
    BY DEF Fits, CacheFits
  <2>2. k # NULL BY HashAssumption
  <2>3. QED BY <1>1, <2>1, <2>2
<1>4. QED BY <1>2, <1>3 DEF IndexOf

(* The entry that an operation finds.                                        *)
LEMMA FindIs ==
  ASSUME Fits, NEW k \in Keys
  PROVE  /\ Find(k) = NULL => \A x : In(buckets, IndexOf(k), x) => ~Same(k, KeyOf(x))
         /\ Find(k) # NULL => /\ At(buckets, IndexOf(k), Min(Hits(k)), Find(k))
                              /\ Find(k) \in InBuckets(buckets)
                              /\ Same(k, KeyOf(Find(k)))
<1>1. PICK i : i = IndexOf(k) OBVIOUS
<1>2. PICK c : c = buckets[i] OBVIOUS
<1>3. PICK H : H = Hits(k) OBVIOUS
<1>4. /\ capacity \in Nat /\ Chains(buckets, capacity)
      /\ DOMAIN buckets = 0 .. capacity - 1 /\ buckets[i] \in Seq(Entries)
      /\ i \in 0 .. capacity - 1
  BY <1>1, IndexOfTypes DEF Fits, TableFits, Chains
<1>5. \A n : n \in H <=> n \in DOMAIN c /\ Same(k, KeyOf(c[n])) BY <1>1, <1>2, <1>3 DEF Hits
<1>6. \A n, x : At(buckets, i, n, x) <=> n \in DOMAIN c /\ c[n] = x BY <1>2, <1>4 DEF At
<1>7. CASE H = {}
  <2>1. Find(k) = NULL BY <1>3, <1>7 DEF Find
  <2>2. \A x : In(buckets, i, x) => ~Same(k, KeyOf(x)) BY <1>5, <1>6, <1>7 DEF In
  <2>3. QED BY <1>1, <2>1, <2>2
<1>8. CASE H # {}
  <2>1. Find(k) = c[Min(H)] BY <1>1, <1>2, <1>3, <1>8 DEF Find
  <2>2. H \subseteq Nat
    <3>1. DOMAIN c \subseteq Nat BY <1>2, <1>4
    <3>2. QED BY <1>5, <3>1
  <2>3. Min(H) \in H BY <1>8, <2>2, MinIs
  <2>4. At(buckets, i, Min(H), Find(k)) /\ Same(k, KeyOf(Find(k))) BY <1>5, <1>6, <2>1, <2>3
  <2>5. Find(k) \in InBuckets(buckets) /\ Find(k) # NULL BY <1>4, <2>4, InTypes DEF In
  <2>6. QED BY <1>1, <1>3, <2>4, <2>5
<1>9. QED BY <1>7, <1>8

(* The entry that comes after one that is not collected.                     *)
LEMMA NextEntryTypes ==
  ASSUME Fits, NEW x \in DOMAIN value
  PROVE  NextEntry(x) \in DOMAIN value \cup {NULL}
<1>1. CASE x \in DOMAIN removed BY <1>1 DEF NextEntry, Fits, HeapFits
<1>2. CASE x \notin DOMAIN removed
  <2>1. x \in InBuckets(buckets) /\ NextEntry(x) = Link(x) BY <1>2 DEF NextEntry, Fits, HeapFits
  <2>2. capacity \in Nat /\ Chains(buckets, capacity) BY DEF Fits, TableFits
  <2>3. Link(x) = NULL \/ Before(buckets, x, Link(x)) BY <2>1, <2>2, LinkIs
  <2>4. Link(x) = NULL \/ Link(x) \in InBuckets(buckets) BY <2>2, <2>3, BeforeIs
  <2>5. QED BY <2>1, <2>4 DEF Fits, HeapFits
<1>3. QED BY <1>1, <1>2

(* The table's chains and the next entries of the entries taken out are      *)
(* those a collection may be called with.                                    *)
MayCollect(b, e, r, vis) ==
  /\ HeapFits /\ Collect(b, e, r, vis) /\ buckets' = b
  /\ InBuckets(b) \cap DOMAIN r = {} /\ InBuckets(b) \cup DOMAIN r = DOMAIN value
  /\ \A x \in DOMAIN r : r[x] \in DOMAIN value \cup {NULL}
  /\ vis \subseteq DOMAIN value

(* What a collection leaves of the entries.                                  *)
Collected(b, e, r, vis) ==
  /\ HeapFits' /\ (e \in vis => e \in seen') /\ seen' \subseteq vis
  /\ vis \cap InBuckets(b) \subseteq seen'
  /\ DOMAIN removed' = Held(e, r)
  /\ \A x \in Held(e, r) : removed'[x] = r[x]
  /\ \A x \in InBuckets(b) : value'[x] = value[x]

(* The garbage collector keeps what it should.                               *)
LEMMA CollectKeeps ==
  ASSUME NEW b, NEW e, NEW r, NEW vis, MayCollect(b, e, r, vis)
  PROVE  Collected(b, e, r, vis)
<1> USE DEF MayCollect
<1>1. PICK H : H = Held(e, r) OBVIOUS
<1>2. PICK B : B = InBuckets(b) OBVIOUS
<1>3. Closed(H, e, r) BY <1>1, HeldIs
<1>4. PICK L : L = B \cup H OBVIOUS
<1>5. removed' = [x \in H |-> r[x]] /\ value' = [x \in L |-> value[x]] /\ seen' = vis \cap L
  BY <1>1, <1>2, <1>4 DEF Collect
<1>6. DOMAIN removed' = H /\ \A x \in H : removed'[x] = r[x] BY <1>5
<1>7. DOMAIN value' = L /\ \A x \in L : value'[x] = value[x] BY <1>5
<1>8. L \in SUBSET DOMAIN value BY <1>2, <1>3, <1>4 DEF Closed
<1>9. InBuckets(buckets)' = B BY <1>2 DEF InBuckets
<1>10. IsFiniteSet(L) BY <1>8, FS_Subset DEF HeapFits
<1>11. \A x \in H : r[x] \in L \cup {NULL} BY <1>2, <1>3, <1>4 DEF Closed
<1>12. B \cap H = {} BY <1>2, <1>3 DEF Closed
<1>13. \A x \in L : x \in Entries /\ value[x] \in Values BY <1>8 DEF HeapFits
<1>14. HeapFits'
  <2>1. DOMAIN value' = InBuckets(buckets)' \cup DOMAIN removed' BY <1>4, <1>6, <1>7, <1>9
  <2>2. InBuckets(buckets)' \cap DOMAIN removed' = {} BY <1>6, <1>9, <1>12
  <2>3. DOMAIN value' \subseteq Entries /\ IsFiniteSet(DOMAIN value') BY <1>7, <1>10, <1>13
  <2>4. \A x \in DOMAIN value' : value'[x] \in Values BY <1>7, <1>13
  <2>5. \A x \in DOMAIN removed' : removed'[x] \in DOMAIN value' \cup {NULL} BY <1>6, <1>7, <1>11
  <2>6. seen' \subseteq DOMAIN value' BY <1>5, <1>7
  <2>7. QED BY <2>1, <2>2, <2>3, <2>4, <2>5, <2>6 DEF HeapFits
<1>15. e \in vis => e \in seen' BY <1>2, <1>3, <1>4, <1>5 DEF Closed
<1>16. QED BY <1>1, <1>2, <1>4, <1>5, <1>6, <1>7, <1>14, <1>15 DEF Collected

(* What is remembered is a key and the index of a bucket.                    *)
LEMMA CacheFitsKeeps ==
  ASSUME CacheFits, CacheTypes, NEW k \in Keys, NEW i, Cache(k, i),
         UNCHANGED <<test, content>>,
         capacity \in Nat, capacity' \in Nat, capacity <= capacity', i \in 0 .. capacity' - 1
  PROVE  CacheFits' /\ CacheTypes'
<1>1. i \in Nat /\ i < capacity'
  <2>1. PICK m \in Nat : m = capacity' OBVIOUS
  <2>2. i \in 0 .. m - 1 BY <2>1
  <2>3. i \in Nat /\ i < m BY <2>2
  <2>4. QED BY <2>1, <2>3
<1>2. CASE test = "eq"
  <2>1. cached' = [key |-> k, index |-> i] BY <1>2 DEF Cache
  <2>2. cached'.key = k /\ cached'.index = i BY <2>1
  <2>3. CacheFits' BY <1>1, <2>1, <2>2 DEF CacheFits
  <2>4. QED BY <1>2, <2>2, <2>3 DEF CacheTypes
<1>3. CASE test # "eq"
  <2>1. cached' = cached BY <1>3 DEF Cache
  <2>2. cached.key = NULL BY <1>3 DEF CacheTypes
  <2>3. QED BY <1>3, <2>1, <2>2 DEF CacheFits, CacheTypes
<1>4. QED BY <1>2, <1>3

(* The place that a key stands for is a place.                               *)
LEMMA PlaceTypes ==
  ASSUME TableFits, KeysFit, NEW k \in Keys
  PROVE  PlaceOf(k) \in Places
<1>1. test \in AllTests BY HashAssumption DEF TableFits
<1>2. content[k] \in Contents BY DEF KeysFit
<1>3. Class \in [AllTests -> [Keys -> [Contents -> Places]]] BY HashAssumption
<1>4. Class[test][k][content[k]] \in Places BY <1>1, <1>2, <1>3
<1>5. QED BY <1>4 DEF PlaceOf

(* Store() keeps the type of the stored values.                              *)
LEMMA StoreKeeps ==
  ASSUME TableFits, KeysFit, StoredTypes,
         NEW k \in Keys, NEW v \in Values \cup {ABSENT}, Store(k, v)
  PROVE  StoredTypes'
<1>1. PICK w : w = IF k \in exposed THEN UNKNOWN ELSE v OBVIOUS
<1>2. w \in Values \cup {ABSENT, UNKNOWN} BY <1>1
<1>3. stored' = [stored EXCEPT ![PlaceOf(k)] = w] BY <1>1 DEF Store
<1>4. QED BY <1>2, <1>3, PlaceTypes DEF StoredTypes

(* The _next of the removed entries when those in gone leave the table.      *)
NextOf(gone) == [x \in DOMAIN removed \cup gone |-> NextEntry(x)]

(* Entries that leave the table stay where maphash() can reach them.         *)
LEMMA UnlinkKeeps ==
  ASSUME Fits, NEW gone, gone \subseteq InBuckets(buckets), NEW b, Unlink(b, gone),
         InBuckets(b) = InBuckets(buckets) \ gone
  PROVE  /\ HeapFits'
         /\ walk.e \in seen => walk.e \in seen'
         /\ walk.e = NULL => DOMAIN removed' = {}
         /\ DOMAIN removed' = Held(walk.e, NextOf(gone))
         /\ \A x \in DOMAIN removed' : x \in DOMAIN removed \cup gone /\ removed'[x] = NextEntry(x)
         /\ \A x \in InBuckets(b) : value'[x] = value[x]
         /\ seen' \subseteq seen /\ seen \cap InBuckets(b) \subseteq seen'
<1>1. PICK r : r = NextOf(gone) OBVIOUS
<1>2. DOMAIN r = DOMAIN removed \cup gone /\ \A x \in DOMAIN r : r[x] = NextEntry(x)
  BY <1>1 DEF NextOf
<1>3. buckets' = b /\ Collect(b, walk.e, r, seen) BY <1>1 DEF Unlink, NextOf
<1>4. HeapFits BY DEF Fits
<1>5. InBuckets(b) \cap DOMAIN r = {} /\ InBuckets(b) \cup DOMAIN r = DOMAIN value
  BY <1>2, <1>4 DEF HeapFits
<1>6. \A x \in DOMAIN r : r[x] \in DOMAIN value \cup {NULL} BY <1>2, <1>5, NextEntryTypes
<1>7. PICK e, vis : e = walk.e /\ vis = seen OBVIOUS
<1>8. /\ HeapFits'
      /\ e \in seen => e \in seen'
      /\ DOMAIN removed' = Held(e, r) /\ \A x \in Held(e, r) : removed'[x] = r[x]
      /\ \A x \in InBuckets(b) : value'[x] = value[x]
      /\ seen' \subseteq seen /\ seen \cap InBuckets(b) \subseteq seen'
  <2>1. vis \subseteq DOMAIN value BY <1>4, <1>7 DEF HeapFits
  <2>2. MayCollect(b, e, r, vis) BY <1>3, <1>4, <1>5, <1>6, <1>7, <2>1 DEF MayCollect
  <2>3. Collected(b, e, r, vis) BY <2>2, CollectKeeps
  <2>4. QED BY <1>7, <2>3 DEF Collected
<1>9. Held(walk.e, r) \subseteq DOMAIN r BY HeldIs DEF Closed
<1>10. walk.e = NULL => Held(walk.e, r) = {}
  <2>1. NULL \notin DOMAIN r BY <1>4, <1>5, HashAssumption DEF HeapFits
  <2>2. QED BY <2>1, HeldOfNone
<1>11. QED BY <1>1, <1>2, <1>7, <1>8, <1>9, <1>10

(* maphash() goes on after entries have left the table.                      *)
LEMMA UnlinkWalk ==
  ASSUME Fits, NEW gone, gone \subseteq InBuckets(buckets), NEW b, Unlink(b, gone),
         InBuckets(b) = InBuckets(buckets) \ gone, UNCHANGED <<shape, walk>>, tame' \in BOOLEAN
  PROVE  HeapFits' /\ WalkFits'
<1>1. HeapFits' /\ (walk.e \in seen => walk.e \in seen') /\ seen' \subseteq seen
      /\ (walk.e = NULL => DOMAIN removed' = {})
  BY UnlinkKeeps
<1>2. capacity' = capacity /\ walk' = walk BY DEF shape
<1>3. walk = NoWalk => walk.e = NULL BY DEF NoWalk
<1>4. NoWalk' = NoWalk BY DEF NoWalk
<1>5. QED BY <1>1, <1>2, <1>3, <1>4 DEF Fits, WalkFits

(* remove() takes out the entry that it finds.                               *)
LEMMA RemoveIs ==
  ASSUME Fits, NEW k \in Keys, remove(k)
  PROVE  /\ Find(k) \in InBuckets(buckets) /\ Same(k, KeyOf(Find(k)))
         /\ Without(buckets, buckets', capacity, Find(k))
         /\ InBuckets(buckets') = InBuckets(buckets) \ {Find(k)}
         /\ Unlink(buckets', {Find(k)})
<1>1. PICK e : e = Find(k) OBVIOUS
<1>2. PICK c : c = Dropped(buckets, IndexOf(k), Min(Hits(k))) OBVIOUS
<1>3. e # NULL /\ Unlink(c, {e}) BY <1>1, <1>2 DEF remove, Dropped
<1>4. At(buckets, IndexOf(k), Min(Hits(k)), e) /\ e \in InBuckets(buckets) /\ Same(k, KeyOf(e))
  BY <1>1, <1>3, FindIs
<1>5. capacity \in Nat /\ Chains(buckets, capacity) BY DEF Fits, TableFits
<1>6. Without(buckets, c, capacity, e) BY <1>2, <1>4, <1>5, DroppedIs
<1>7. InBuckets(c) = InBuckets(buckets) \ {e}
  <2>1. \A x : x \in InBuckets(c) <=> x \in InBuckets(buckets) /\ x # e
    BY <1>6, InBucketsIs DEF Without
  <2>2. QED BY <2>1
<1>8. buckets' = c BY <1>3 DEF Unlink
<1>9. QED BY <1>1, <1>3, <1>4, <1>6, <1>7, <1>8

(* remove() keeps the structural invariant.                                  *)
LEMMA FitsRemove ==
  ASSUME Fits, NEW k \in Keys, remove(k)
  PROVE  Fits'
<1>1. PICK e : e = Find(k) OBVIOUS
<1>2. PICK c : c = buckets' OBVIOUS
<1>3. /\ e \in InBuckets(buckets) /\ Without(buckets, c, capacity, e) /\ Unlink(c, {e})
      /\ InBuckets(c) = InBuckets(buckets) \ {e}
  BY <1>1, <1>2, RemoveIs
<1>4. /\ count' = count - 1 /\ Cache(k, IndexOf(k)) /\ Touch(e) /\ Store(k, ABSENT)
      /\ UNCHANGED <<shape, keys, walk>>
  BY <1>1 DEF remove
<1>5. UNCHANGED <<test, capacity, content, exposed>> BY <1>4 DEF shape, keys
<1>6. TableFits'
  <2>1. /\ IsFiniteSet(InBuckets(buckets)) /\ count = Cardinality(InBuckets(buckets))
        /\ capacity \in Nat
        /\ count <= Threshold(capacity)
    BY DEF Fits, TableFits
  <2>2. IsFiniteSet(InBuckets(c)) /\ Cardinality(InBuckets(c)) = count - 1
    BY <1>3, <2>1, FS_RemoveElement
  <2>3. count - 1 <= Threshold(capacity)
    <3>1. count \in Nat BY <2>1, FS_CardinalityType
    <3>2. QED BY <2>1, <3>1 DEF Threshold
  <2>4. Chains(c, capacity) BY <1>3 DEF Without
  <2>5. Threshold(capacity)' = Threshold(capacity) BY <1>5 DEF Threshold
  <2>6. QED BY <1>2, <1>4, <1>5, <2>2, <2>3, <2>4, <2>5 DEF Fits, TableFits
<1>7. KeysFit' BY <1>5 DEF Fits, KeysFit
<1>8. CacheFits' /\ CacheTypes'
  BY <1>4, <1>5, IndexOfTypes, CacheFitsKeeps DEF Fits, TableFits
<1>9. HeapFits' /\ WalkFits'
  <2>1. tame' \in BOOLEAN BY <1>4, Zenon DEF Touch
  <2>2. {e} \subseteq InBuckets(buckets) BY <1>3
  <2>3. QED BY <1>3, <1>4, <2>1, <2>2, UnlinkWalk
<1>10. StoredTypes' BY <1>4, StoreKeeps DEF Fits
<1>11. QED BY <1>6, <1>7, <1>8, <1>9, <1>10 DEF Fits

(* clear() keeps the structural invariant.                                   *)
LEMMA FitsClear ==
  ASSUME Fits, clear
  PROVE  Fits'
<1>1. PICK c : c = buckets' OBVIOUS
<1>2. capacity \in Nat /\ DOMAIN buckets = 0 .. capacity - 1 BY DEF Fits, TableFits, Chains
<1>3. /\ c = [i \in 0 .. capacity - 1 |-> << >>] /\ Unlink(c, InBuckets(buckets))
      /\ count' = 0 /\ tame' = FALSE /\ UNCHANGED <<shape, cached, keys, walk>>
      /\ stored' = [p \in Places |-> IF p \in exposed THEN UNKNOWN ELSE ABSENT]
  BY <1>1, <1>2 DEF clear, Unlink
<1>4. UNCHANGED <<test, capacity, content, exposed, cached>> BY <1>3 DEF shape, keys
<1>5. Chains(c, capacity) /\ InBuckets(c) = {} BY <1>2, <1>3, EmptyChains
<1>6. TableFits'
  <2>1. IsFiniteSet({}) /\ Cardinality({}) = 0 BY FS_EmptySet
  <2>2. 0 <= Threshold(capacity) BY <1>2 DEF Threshold
  <2>3. Threshold(capacity)' = Threshold(capacity) BY <1>4 DEF Threshold
  <2>4. QED BY <1>1, <1>3, <1>4, <1>5, <2>1, <2>2, <2>3 DEF Fits, TableFits
<1>7. KeysFit' BY <1>4 DEF Fits, KeysFit
<1>8. CacheFits' /\ CacheTypes' BY <1>4 DEF Fits, CacheFits, CacheTypes
<1>9. HeapFits' /\ WalkFits'
  <2>1. InBuckets(c) = InBuckets(buckets) \ InBuckets(buckets) BY <1>5
  <2>2. tame' \in BOOLEAN BY <1>3
  <2>3. QED BY <1>3, <2>1, <2>2, UnlinkWalk
<1>10. StoredTypes' BY <1>3 DEF StoredTypes
<1>11. QED BY <1>6, <1>7, <1>8, <1>9, <1>10 DEF Fits

(* put() makes entry e and pushes it at the front of chain i of b.           *)
Added(k, v, i, b, e) ==
  /\ e \in Entries /\ e \notin DOMAIN value /\ KeyOf(e) = k
  /\ DOMAIN value' = DOMAIN value \cup {e} /\ value'[e] = v
  /\ \A x \in DOMAIN value : value'[x] = value[x]
  /\ buckets' = Pushed(b, i, e)

(* As long as there is room, there is a number for the new entry.            *)
LEMMA PushIs ==
  ASSUME Fits, HasRoom, NEW k \in Keys, NEW v, NEW i, NEW b, Push(k, v, i, b)
  PROVE  \E e : Added(k, v, i, b, e)
<1>1. PICK free : free = {n \in 1 .. MaxEntries : <<k, n>> \notin DOMAIN value} OBVIOUS
<1>2. PICK e : e = <<k, Min(free)>> OBVIOUS
<1>3. /\ value' = [x \in DOMAIN value \cup {e} |-> IF x = e THEN v ELSE value[x]]
      /\ buckets' = Pushed(b, i, e)
  BY <1>1, <1>2 DEF Push, Pushed
<1>4. MaxEntries \in Nat BY HashAssumption
<1>5. free # {}
  <2>1. SUFFICES ASSUME free = {} PROVE FALSE OBVIOUS
  <2>2. \A n \in 1 .. MaxEntries : <<k, n>> \in DOMAIN value BY <1>1, <2>1
  <2>3. PICK f : f = [n \in 1 .. MaxEntries |-> <<k, n>>] OBVIOUS
  <2>4. f \in [1 .. MaxEntries -> DOMAIN value] BY <2>2, <2>3
  <2>5. \A m, n \in 1 .. MaxEntries : f[m] = f[n] => m = n BY <2>3
  <2>6. f \in Injection(1 .. MaxEntries, DOMAIN value) BY <2>4, <2>5 DEF Injection, IsInjective
  <2>7. IsFiniteSet(DOMAIN value) /\ IsFiniteSet(exposed) BY DEF Fits, HeapFits, KeysFit
  <2>8. Cardinality(1 .. MaxEntries) <= Cardinality(DOMAIN value) BY <2>6, <2>7, FS_Injection
  <2>9. Cardinality(1 .. MaxEntries) = MaxEntries BY <1>4, FS_Interval
  <2>10. Cardinality(DOMAIN value) \in Nat /\ Cardinality(exposed) \in Nat
    BY <2>7, FS_CardinalityType
  <2>11. QED BY <1>4, <2>8, <2>9, <2>10 DEF HasRoom
<1>6. Min(free) \in free
  <2>1. free \subseteq Nat BY <1>1
  <2>2. QED BY <1>5, <2>1, MinIs
<1>7. Min(free) \in 1 .. MaxEntries /\ e \notin DOMAIN value BY <1>1, <1>2, <1>6
<1>8. e \in Entries /\ KeyOf(e) = k BY <1>2, <1>7 DEF Entries, KeyOf
<1>9. /\ DOMAIN value' = DOMAIN value \cup {e} /\ value'[e] = v
      /\ \A x \in DOMAIN value : value'[x] = value[x]
  <2>1. PICK w : w = value' OBVIOUS
  <2>2. w = [x \in DOMAIN value \cup {e} |-> IF x = e THEN v ELSE value[x]] BY <1>3, <2>1
  <2>3. QED BY <1>7, <2>1, <2>2
<1>10. QED BY <1>3, <1>7, <1>8, <1>9 DEF Added

(* put() of a new key, in the chains b of a table that is large enough.      *)
LEMMA FitsPush ==
  ASSUME Fits, HasRoom, NEW k \in Keys, NEW v \in Values, NEW cap \in Nat \ {0},
         NEW i \in 0 .. cap - 1, NEW b, Push(k, v, i, b),
         capacity' = cap, capacity <= cap, count + 1 <= Threshold(cap),
         Chains(b, cap), InBuckets(b) = InBuckets(buckets)
  PROVE  Fits'
<1>1. PICK e : Added(k, v, i, b, e) BY PushIs
<1>2. PICK c : c = buckets' OBVIOUS
<1>3. /\ e \in Entries /\ e \notin DOMAIN value
      /\ DOMAIN value' = DOMAIN value \cup {e} /\ value'[e] = v
      /\ \A x \in DOMAIN value : value'[x] = value[x]
      /\ c = Pushed(b, i, e)
  BY <1>1, <1>2 DEF Added
<1>4. /\ count' = count + 1 /\ Cache(k, i) /\ tame' = FALSE /\ Store(k, v)
      /\ UNCHANGED <<test, content, exposed, walk, removed, seen>>
  BY DEF Push, keys
<1>5. HeapFits /\ e \notin InBuckets(b) BY <1>3 DEF Fits, HeapFits
<1>6. With(b, c, cap, i, e) BY <1>3, <1>5, PushedIs
<1>7. InBuckets(c) = InBuckets(buckets) \cup {e}
  <2>1. \A x : x \in InBuckets(c) <=> x \in InBuckets(b) \/ x = e
    BY <1>6, InBucketsIs DEF With
  <2>2. QED BY <2>1
<1>8. InBuckets(buckets)' = InBuckets(c) BY <1>2 DEF InBuckets
<1>9. TableFits'
  <2>1. IsFiniteSet(InBuckets(buckets)) /\ count = Cardinality(InBuckets(buckets))
    BY DEF Fits, TableFits
  <2>2. IsFiniteSet(InBuckets(c)) /\ Cardinality(InBuckets(c)) = count + 1
    BY <1>5, <1>7, <2>1, FS_AddElement
  <2>3. Chains(buckets, capacity)' BY <1>2, <1>6 DEF With
  <2>4. (count <= Threshold(capacity))' BY <1>4 DEF Threshold
  <2>5. QED BY <1>4, <1>8, <2>2, <2>3, <2>4 DEF Fits, TableFits
<1>10. KeysFit' BY <1>4 DEF Fits, KeysFit
<1>11. CacheFits' /\ CacheTypes' BY <1>4, CacheFitsKeeps DEF Fits, TableFits
<1>12. HeapFits'
  <2>1. DOMAIN value' = InBuckets(buckets)' \cup DOMAIN removed'
    BY <1>3, <1>4, <1>5, <1>7, <1>8 DEF HeapFits
  <2>2. InBuckets(buckets)' \cap DOMAIN removed' = {} BY <1>3, <1>4, <1>5, <1>7, <1>8 DEF HeapFits
  <2>3. DOMAIN value' \subseteq Entries BY <1>3, <1>5 DEF HeapFits
  <2>4. IsFiniteSet(DOMAIN value') BY <1>3, <1>5, FS_AddElement DEF HeapFits
  <2>5. \A x \in DOMAIN value' : value'[x] \in Values BY <1>3, <1>5 DEF HeapFits
  <2>6. \A x \in DOMAIN removed' : removed'[x] \in DOMAIN value' \cup {NULL}
    BY <1>3, <1>4, <1>5 DEF HeapFits
  <2>7. seen' \subseteq DOMAIN value' BY <1>3, <1>4, <1>5 DEF HeapFits
  <2>8. QED BY <2>1, <2>2, <2>3, <2>4, <2>5, <2>6, <2>7 DEF HeapFits
<1>13. WalkFits'
  <2>1. walk' \in [i : 0 .. capacity' - 1, e : Entries \cup {NULL}]
    <3>1. walk \in [i : 0 .. capacity - 1, e : Entries \cup {NULL}] /\ capacity \in Nat
      BY DEF Fits, WalkFits, TableFits
    <3>2. 0 .. capacity - 1 \subseteq 0 .. cap - 1 BY <3>1
    <3>3. QED BY <1>4, <3>1, <3>2
  <2>2. NoWalk' = NoWalk BY DEF NoWalk
  <2>3. QED BY <1>4, <2>1, <2>2 DEF Fits, WalkFits
<1>14. StoredTypes' BY <1>4, StoreKeeps DEF Fits
<1>15. QED BY <1>9, <1>10, <1>11, <1>12, <1>13, <1>14 DEF Fits

(* The chains that put() pushes the entry on when it has rehashed.           *)
LEMMA RehashIs ==
  ASSUME Fits
  PROVE  Moved(Rehashed) /\ InBuckets(Rehashed) = InBuckets(buckets)
<1>1. Moved(Rehashed) BY RehashedIs DEF Fits, TableFits, KeysFit
<1>2. PICK c : c = Rehashed OBVIOUS
<1>3. \A i, x : In(c, i, x) <=> x \in InBuckets(buckets) /\ i = Index(KeyOf(x), 2 * capacity)
  BY <1>1, <1>2 DEF Moved
<1>4. \A x : x \in InBuckets(c) <=> x \in InBuckets(buckets) BY <1>3, InBucketsIs
<1>5. QED BY <1>1, <1>2, <1>4

(* A table twice as large has room for one entry more.                       *)
LEMMA ThresholdDoubles ==
  ASSUME NEW cap \in Nat \ {0}, NEW n \in Nat, n <= Threshold(cap)
  PROVE  n + 1 <= Threshold(2 * cap)
<1>1. PICK q, r \in Nat : cap * 3 = 4 * q + r /\ r < 4 /\ q = (cap * 3) \div 4
  <2>1. PICK q \in Nat : q = (cap * 3) \div 4 OBVIOUS
  <2>2. PICK r \in Nat : r = (cap * 3) % 4 OBVIOUS
  <2>3. QED BY <2>1, <2>2
<1>2. PICK p \in Nat : p = ((2 * cap) * 3) \div 4 OBVIOUS
<1>3. p >= q + 1
  <2>1. (2 * cap) * 3 < 4 * (p + 1) BY <1>2
  <2>2. 8 * q + 2 * r < 4 * (p + 1) BY <1>1, <2>1
  <2>3. q = 0 => r >= 3 BY <1>1
  <2>4. QED BY <2>2, <2>3
<1>4. QED BY <1>1, <1>2, <1>3 DEF Threshold

(* put() of a new key keeps the structural invariant, rehash or not.         *)
LEMMA FitsPut ==
  ASSUME Fits, NEW k \in Keys, NEW v \in Values,
         put_replace(k, v) \/ put_new(k, v) \/ put_rehash(k, v)
  PROVE  Fits'
<1>1. capacity \in Nat \ {0} /\ Chains(buckets, capacity) BY DEF Fits, TableFits
<1>2. CASE put_replace(k, v)
  <2>1. PICK e : e = Find(k) OBVIOUS
  <2>2. /\ e # NULL /\ value' = [value EXCEPT ![e] = v] /\ Cache(k, IndexOf(k)) /\ Touch(e)
        /\ Store(k, v) /\ UNCHANGED <<shape, count, buckets, keys, walk, removed, seen>>
    BY <1>2, <2>1 DEF put_replace
  <2>3. UNCHANGED <<test, capacity, content, exposed>> BY <2>2 DEF shape, keys
  <2>4. TableFits' BY <2>2, <2>3 DEF Fits, TableFits, Threshold
  <2>5. KeysFit' BY <2>3 DEF Fits, KeysFit
  <2>6. CacheFits' /\ CacheTypes' BY <1>1, <2>2, <2>3, IndexOfTypes, CacheFitsKeeps DEF Fits
  <2>7. HeapFits'
    <3>1. e \in DOMAIN value BY <2>1, <2>2, FindIs DEF Fits, HeapFits
    <3>2. DOMAIN value' = DOMAIN value BY <2>2
    <3>3. \A x \in DOMAIN value : value'[x] \in Values BY <2>2 DEF Fits, HeapFits
    <3>4. QED BY <2>2, <3>2, <3>3 DEF Fits, HeapFits
  <2>8. WalkFits'
    <3>1. tame' \in BOOLEAN BY <2>2, Zenon DEF Touch
    <3>2. NoWalk' = NoWalk BY DEF NoWalk
    <3>3. QED BY <2>2, <2>3, <3>1, <3>2 DEF Fits, WalkFits
  <2>9. StoredTypes' BY <2>2, StoreKeeps DEF Fits
  <2>10. QED BY <2>4, <2>5, <2>6, <2>7, <2>8, <2>9 DEF Fits
<1>3. CASE put_new(k, v)
  <2>1. /\ HasRoom /\ Push(k, v, IndexOf(k), buckets) /\ capacity' = capacity
        /\ count + 1 <= Threshold(capacity)
    BY <1>3 DEF put_new
  <2>2. IndexOf(k) \in 0 .. capacity - 1 BY IndexOfTypes
  <2>3. PICK cap, i : cap = capacity /\ i = IndexOf(k) OBVIOUS
  <2>4. capacity <= cap BY <1>1, <2>3
  <2>5. QED BY <1>1, <2>1, <2>2, <2>3, <2>4, FitsPush
<1>4. CASE put_rehash(k, v)
  <2>1. /\ HasRoom /\ Push(k, v, Index(k, 2 * capacity), Rehashed) /\ capacity' = 2 * capacity
    BY <1>4 DEF put_rehash
  <2>2. PICK cap : cap = 2 * capacity OBVIOUS
  <2>3. cap \in Nat \ {0} /\ capacity <= cap BY <1>1, <2>2
  <2>4. Index(k, cap) \in 0 .. cap - 1 BY <2>3, IndexTypes DEF Fits, KeysFit
  <2>5. count + 1 <= Threshold(cap)
    <3>1. count \in Nat /\ count <= Threshold(capacity)
      BY FS_CardinalityType DEF Fits, TableFits
    <3>2. QED BY <1>1, <2>2, <3>1, ThresholdDoubles
  <2>6. Chains(Rehashed, cap) /\ InBuckets(Rehashed) = InBuckets(buckets)
    BY <2>2, RehashIs DEF Moved
  <2>7. QED BY <2>1, <2>2, <2>3, <2>4, <2>5, <2>6, FitsPush
<1>5. QED BY <1>2, <1>3, <1>4

(* The powers of two that calculate_initial_capacity() goes through.         *)
Doubles(f, m) == f = [n \in 0 .. m |-> IF n = 0 THEN 1 ELSE 2 * f[n - 1]]

(* The powers of two up to the m-th are defined.                             *)
LEMMA DoublesExist ==
  ASSUME NEW m \in Nat
  PROVE  \E f : Doubles(f, m)
<1> DEFINE T == {k \in Nat : ~\E f : Doubles(f, k)}
<1>1. SUFFICES ASSUME T # {} PROVE FALSE OBVIOUS
<1>2. T \subseteq Nat OBVIOUS
<1> HIDE DEF T
<1>3. PICK k \in T : \A j \in T : k <= j BY <1>1, <1>2, LeastExists
<1>4. k \in Nat /\ ~\E f : Doubles(f, k) BY <1>3 DEF T
<1>5. CASE k = 0
  <2>1. PICK f : f = [n \in 0 .. 0 |-> 1] OBVIOUS
  <2>2. [n \in 0 .. 0 |-> IF n = 0 THEN 1 ELSE 2 * f[n - 1]] = [n \in 0 .. 0 |-> 1] OBVIOUS
  <2>3. Doubles(f, 0) BY <2>1, <2>2 DEF Doubles
  <2>4. QED BY <1>4, <1>5, <2>3
<1>6. CASE k # 0
  <2>1. PICK j \in Nat : k = j + 1 BY <1>4, <1>6
  <2>2. j \notin T BY <1>3, <1>4, <2>1
  <2>3. PICK g : Doubles(g, j) BY <2>2 DEF T
  <2>4. DOMAIN g = 0 .. j /\ \A n \in 0 .. j : g[n] = IF n = 0 THEN 1 ELSE 2 * g[n - 1]
    <3>1. PICK h : h = [n \in 0 .. j |-> IF n = 0 THEN 1 ELSE 2 * g[n - 1]] OBVIOUS
    <3>2. g = h BY <2>3, <3>1 DEF Doubles
    <3>3. DOMAIN h = 0 .. j /\ \A n \in 0 .. j : h[n] = IF n = 0 THEN 1 ELSE 2 * g[n - 1] BY <3>1
    <3>4. QED BY <3>2, <3>3
  <2>5. PICK f : f = [n \in 0 .. k |-> IF n <= j THEN g[n] ELSE 2 * g[j]] OBVIOUS
  <2>6. \A n \in 0 .. k : f[n] = IF n = 0 THEN 1 ELSE 2 * f[n - 1]
    <3> TAKE n \in 0 .. k
    <3>1. CASE n = 0 BY <2>4, <2>5, <3>1
    <3>2. CASE n # 0 /\ n <= j
      <4>1. PICK p \in 0 .. j : p = n - 1 BY <3>2
      <4>2. f[p] = g[p] /\ f[n] = g[n] /\ n \in 0 .. j BY <2>1, <2>5, <3>2, <4>1
      <4>3. g[n] = 2 * g[p] BY <2>4, <3>2, <4>1, <4>2
      <4>4. QED BY <3>2, <4>1, <4>2, <4>3
    <3>3. CASE ~(n <= j)
      <4>1. n = k /\ n # 0 /\ n - 1 = j /\ j \in 0 .. k BY <1>4, <2>1, <3>3
      <4>2. f[n] = 2 * g[j] /\ f[j] = g[j] BY <2>1, <2>5, <3>3, <4>1
      <4>3. QED BY <4>1, <4>2
    <3>4. QED BY <3>1, <3>2, <3>3
  <2>7. f = [n \in 0 .. k |-> IF n = 0 THEN 1 ELSE 2 * f[n - 1]]
    <3>1. DOMAIN f = 0 .. k BY <2>5
    <3>2. f = [n \in 0 .. k |-> f[n]] BY <2>5, <3>1
    <3>3. QED BY <2>6, <3>2
  <2>8. QED BY <1>4, <2>7 DEF Doubles
<1>7. QED BY <1>5, <1>6

(* The initial capacity is one of them.                                      *)
LEMMA InitialCapacityTypes ==
  ASSUME NEW size \in Nat
  PROVE  InitialCapacity(size) \in Nat \ {0}
<1>1. PICK f : f = CHOOSE g : Doubles(g, size) OBVIOUS
<1>2. Doubles(f, size) BY <1>1, DoublesExist
<1>3. \A n \in 0 .. size : f[n] = IF n = 0 THEN 1 ELSE 2 * f[n - 1]
  <2>1. PICK h : h = [n \in 0 .. size |-> IF n = 0 THEN 1 ELSE 2 * f[n - 1]] OBVIOUS
  <2>2. f = h BY <1>2, <2>1 DEF Doubles
  <2>3. \A n \in 0 .. size : h[n] = IF n = 0 THEN 1 ELSE 2 * f[n - 1] BY <2>1
  <2>4. QED BY <2>2, <2>3
<1>4. \A n \in 0 .. size : f[n] \in Nat /\ f[n] > n
  <2> DEFINE T == {n \in 0 .. size : ~(f[n] \in Nat /\ f[n] > n)}
  <2>1. SUFFICES ASSUME T # {} PROVE FALSE OBVIOUS
  <2>2. T \subseteq Nat OBVIOUS
  <2> HIDE DEF T
  <2>3. PICK k \in T : \A j \in T : k <= j BY <2>1, <2>2, LeastExists
  <2>4. k \in 0 .. size /\ ~(f[k] \in Nat /\ f[k] > k) BY <2>3 DEF T
  <2>5. CASE k = 0 BY <1>3, <2>4, <2>5
  <2>6. CASE k # 0
    <3>1. PICK j \in 0 .. size : j = k - 1 /\ j < k BY <2>4, <2>6
    <3>2. j \notin T BY <2>3, <2>4, <3>1
    <3>3. f[j] \in Nat /\ f[j] > j BY <3>2 DEF T
    <3>4. f[k] = 2 * f[j] BY <1>3, <2>4, <2>6, <3>1
    <3>5. QED BY <2>4, <3>1, <3>3, <3>4
  <2>7. QED BY <2>5, <2>6
<1>5. PICK S : S = {n \in 0 .. size : f[n] >= size} OBVIOUS
<1>6. S \subseteq 0 .. size /\ S \subseteq Nat /\ S # {}
  <2>1. f[size] >= size BY <1>4
  <2>2. QED BY <1>5, <2>1
<1>7. Min(S) \in 0 .. size BY <1>6, MinIs
<1>8. f[Min(S)] \in Nat \ {0} BY <1>4, <1>7
<1>9. InitialCapacity(size) = f[Min(S)] BY <1>1, <1>5 DEF InitialCapacity, Doubles
<1>10. QED BY <1>8, <1>9

(* A new table satisfies the structural invariant.                           *)
LEMMA FitsInit ==
  ASSUME Init
  PROVE  Fits
<1>1. PICK size \in InitialSizes : capacity = InitialCapacity(size) BY DEF Init
<1>2. capacity \in Nat \ {0} BY <1>1, InitialCapacityTypes, HashAssumption
<1>3. Chains(buckets, capacity) /\ InBuckets(buckets) = {} BY <1>2, EmptyChains DEF Init
<1>4. IsFiniteSet({}) /\ Cardinality({}) = 0 BY FS_EmptySet
<1>5. TableFits
  <2>1. 0 <= Threshold(capacity) BY <1>2 DEF Threshold
  <2>2. QED BY <1>2, <1>3, <1>4, <2>1 DEF Init, TableFits
<1>6. KeysFit BY <1>4, HashAssumption DEF Init, KeysFit
<1>7. CacheFits /\ CacheTypes BY HashAssumption DEF Init, CacheFits, CacheTypes, NoCache
<1>8. HeapFits
  <2>1. DOMAIN value = {} /\ DOMAIN removed = {} /\ seen = {} BY DEF Init
  <2>2. QED BY <1>3, <1>4, <2>1 DEF HeapFits
<1>9. WalkFits
  <2>1. walk = NoWalk /\ seen = {} /\ removed = << >> /\ tame = FALSE BY Zenon DEF Init
  <2>2. NoWalk \in [i : 0 .. capacity - 1, e : Entries \cup {NULL}] BY <1>2 DEF NoWalk
  <2>3. DOMAIN removed = {} BY <2>1
  <2>4. tame \in BOOLEAN BY <2>1, Zenon
  <2>5. QED BY <2>1, <2>2, <2>3, <2>4 DEF WalkFits
<1>10. StoredTypes BY DEF Init, StoredTypes
<1>11. QED BY <1>5, <1>6, <1>7, <1>8, <1>9, <1>10 DEF Fits

(* A modification of a key keeps the structural invariant.                   *)
LEMMA FitsModify ==
  ASSUME Fits, NEW k \in Keys, NEW c \in Variants[k], modify(k, c)
  PROVE  Fits'
<1>1. /\ test \in IdentityTests /\ content' = [content EXCEPT ![k] = c]
      /\ exposed' = exposed \cup {k} /\ stored' = [stored EXCEPT ![k] = UNKNOWN]
      /\ UNCHANGED <<test, capacity, count, buckets, value, cached, walk, removed, seen, tame>>
  BY DEF modify, table, shape, mapping
<1>2. TableFits' BY <1>1 DEF Fits, TableFits, Threshold
<1>3. KeysFit'
  <2>1. IsFiniteSet(exposed') BY <1>1, FS_AddElement DEF Fits, KeysFit
  <2>2. c \in Contents /\ Variants[k] # {} BY HashAssumption
  <2>3. \A j \in exposed' : Variants[j] # {} BY <1>1, <2>2 DEF Fits, KeysFit
  <2>4. QED BY <1>1, <2>1, <2>2, <2>3 DEF Fits, KeysFit
<1>4. CacheFits' /\ CacheTypes'
  <2>1. c \in Contents BY HashAssumption
  <2>2. QED BY <1>1, <2>1 DEF Fits, CacheFits, CacheTypes
<1>5. HeapFits' BY <1>1 DEF Fits, HeapFits
<1>6. WalkFits' BY <1>1 DEF Fits, WalkFits, NoWalk
<1>7. StoredTypes' BY <1>1 DEF Fits, StoredTypes
<1>8. QED BY <1>2, <1>3, <1>4, <1>5, <1>6, <1>7 DEF Fits

(* The first entry of the buckets below i.                                   *)
LEMMA FirstBelowIs ==
  ASSUME Fits, NEW i \in 0 .. capacity
  PROVE  \/ /\ FirstBelow(i) = NoWalk
            /\ \A j, x : j < i => ~In(buckets, j, x)
         \/ /\ FirstBelow(i) # NoWalk
            /\ FirstBelow(i) \in [i : 0 .. capacity - 1, e : InBuckets(buckets)]
            /\ FirstBelow(i).i < i
            /\ In(buckets, FirstBelow(i).i, FirstBelow(i).e)
            /\ \A x : ~Before(buckets, x, FirstBelow(i).e)
            /\ \A j, x : FirstBelow(i).i < j /\ j < i => ~In(buckets, j, x)
<1>1. PICK b : b = buckets OBVIOUS
<1>2. capacity \in Nat /\ Chains(b, capacity) BY <1>1 DEF Fits, TableFits
<1>3. PICK L : L = {j \in 0 .. i - 1 : b[j] # << >>} OBVIOUS
<1>4. \A j, x : In(b, j, x) => j \in 0 .. capacity - 1 /\ b[j] # << >>
  <2> TAKE j, x
  <2> HAVE In(b, j, x)
  <2>1. PICK m : At(b, j, m, x) BY DEF In
  <2>2. m \in 1 .. Len(b[j]) /\ j \in 0 .. capacity - 1 /\ Len(b[j]) \in Nat BY <1>2, <2>1, AtTypes
  <2>3. QED BY <2>2
<1>5. \A j, x : In(b, j, x) /\ j < i => j \in L
  <2> TAKE j, x
  <2> HAVE In(b, j, x) /\ j < i
  <2>1. j \in 0 .. capacity - 1 /\ b[j] # << >> BY <1>4
  <2>2. j \in 0 .. i - 1 BY <2>1
  <2>3. QED BY <1>3, <2>1, <2>2
<1>6. FirstBelow(i) = IF L = {} THEN NoWalk ELSE [i |-> Max(L), e |-> Head(b[Max(L)])]
  BY <1>1, <1>3 DEF FirstBelow
<1>7. CASE L = {} BY <1>1, <1>5, <1>6, <1>7
<1>8. CASE L # {}
  <2>1. PICK j : j = Max(L) OBVIOUS
  <2>2. j \in L /\ \A l \in L : j >= l
    <3>1. L \subseteq 0 .. i BY <1>3
    <3>2. i \in Nat BY <1>2
    <3>3. QED BY <1>8, <2>1, <3>1, <3>2, MaxIs
  <2>3. j \in 0 .. capacity - 1 /\ j < i /\ b[j] # << >> BY <1>2, <1>3, <2>2
  <2>4. b[j] \in Seq(Entries) /\ DOMAIN b = 0 .. capacity - 1 BY <1>2, <2>3 DEF Chains
  <2>5. PICK e : e = Head(b[j]) OBVIOUS
  <2>6. At(b, j, 1, e)
    <3>1. 1 \in DOMAIN b[j] /\ e = b[j][1] BY <2>3, <2>4, <2>5
    <3>2. QED BY <2>3, <2>4, <3>1 DEF At
  <2>7. In(b, j, e) BY <2>6 DEF In
  <2>8. e \in InBuckets(b) /\ e # NULL BY <1>2, <2>7, InTypes
  <2>9. PICK f : f = FirstBelow(i) OBVIOUS
  <2>10. f = [i |-> j, e |-> e] BY <1>6, <1>8, <2>1, <2>5, <2>9
  <2>11. f.i = j /\ f.e = e /\ f \in [i : 0 .. capacity - 1, e : InBuckets(b)] BY <2>3, <2>8, <2>10
  <2>12. f # NoWalk BY <2>8, <2>11 DEF NoWalk
  <2>13. ASSUME NEW x, Before(b, x, e) PROVE FALSE
    <3>1. PICK l, m, n : At(b, l, m, x) /\ At(b, l, n, e) /\ m < n BY <2>13 DEF Before
    <3>2. l = j /\ n = 1 BY <1>2, <2>6, <3>1 DEF Chains, Once
    <3>3. m \in Nat \ {0} BY <1>2, <3>1, AtTypes
    <3>4. QED BY <3>1, <3>2, <3>3
  <2>14. ASSUME NEW l, NEW x, j < l, l < i, In(b, l, x) PROVE FALSE
    <3>1. l \in L BY <1>5, <2>14
    <3>2. j >= l /\ l \in Int /\ j \in Int BY <1>3, <2>2, <3>1
    <3>3. QED BY <2>14, <3>2
  <2>15. QED BY <1>1, <2>3, <2>7, <2>9, <2>11, <2>12, <2>13, <2>14
<1>9. QED BY <1>7, <1>8

(* The entry that maphash() goes on with.                                    *)
LEMMA NextVisitIs ==
  ASSUME Fits, walk # NoWalk
  PROVE  /\ walk.e \in DOMAIN value /\ walk.i \in 0 .. capacity - 1
         /\ NextEntry(walk.e) # NULL =>
              /\ NextVisit # NoWalk
              /\ NextVisit.i = walk.i /\ NextVisit.e = NextEntry(walk.e)
              /\ NextVisit \in [i : 0 .. capacity - 1, e : DOMAIN value]
         /\ NextEntry(walk.e) = NULL => NextVisit = FirstBelow(walk.i)
<1>1. walk \in [i : 0 .. capacity - 1, e : Entries \cup {NULL}] /\ walk.e \in seen
  BY DEF Fits, WalkFits
<1>2. walk.e \in DOMAIN value /\ walk.i \in 0 .. capacity - 1 BY <1>1 DEF Fits, HeapFits
<1>3. PICK z : z = NextEntry(walk.e) OBVIOUS
<1>4. ASSUME z # NULL
      PROVE  /\ NextVisit # NoWalk /\ NextVisit.i = walk.i /\ NextVisit.e = z
             /\ NextVisit \in [i : 0 .. capacity - 1, e : DOMAIN value]
  <2>1. PICK w : w = NextVisit OBVIOUS
  <2>2. w = [walk EXCEPT !.e = z] BY <1>3, <1>4, <2>1 DEF NextVisit
  <2>3. w = [i |-> walk.i, e |-> z] BY <1>1, <2>2
  <2>4. z \in DOMAIN value BY <1>2, <1>3, <1>4, NextEntryTypes
  <2>5. w.i = walk.i /\ w.e = z BY <2>3
  <2>6. w \in [i : 0 .. capacity - 1, e : DOMAIN value] BY <1>2, <2>3, <2>4
  <2>7. w # NoWalk BY <1>4, <2>5 DEF NoWalk
  <2>8. QED BY <2>1, <2>5, <2>6, <2>7
<1>5. z = NULL => NextVisit = FirstBelow(walk.i) BY <1>3 DEF NextVisit
<1>6. QED BY <1>2, <1>3, <1>4, <1>5

(* Where maphash() goes, there is an entry.                                  *)
LEMMA VisitTypes ==
  ASSUME Fits, NEW at, at # NoWalk,
         at = FirstBelow(capacity) \/ (walk # NoWalk /\ at = NextVisit)
  PROVE  at \in [i : 0 .. capacity - 1, e : DOMAIN value]
<1>1. capacity \in Nat /\ InBuckets(buckets) \subseteq DOMAIN value
  BY DEF Fits, TableFits, HeapFits
<1>2. ASSUME NEW i \in 0 .. capacity, at = FirstBelow(i)
      PROVE  at \in [i : 0 .. capacity - 1, e : DOMAIN value]
  <2>1. at \in [i : 0 .. capacity - 1, e : InBuckets(buckets)] BY <1>2, FirstBelowIs
  <2>2. QED BY <1>1, <2>1
<1>3. CASE at = FirstBelow(capacity)
  <2>1. capacity \in 0 .. capacity BY <1>1
  <2>2. QED BY <1>2, <1>3, <2>1
<1>4. CASE walk # NoWalk /\ at = NextVisit
  <2>1. CASE NextEntry(walk.e) # NULL BY <1>4, <2>1, NextVisitIs
  <2>2. CASE NextEntry(walk.e) = NULL
    <3>1. at = FirstBelow(walk.i) /\ walk.i \in 0 .. capacity - 1 BY <1>4, <2>2, NextVisitIs
    <3>2. walk.i \in 0 .. capacity BY <1>1, <3>1
    <3>3. QED BY <1>2, <3>1, <3>2
  <2>3. QED BY <2>1, <2>2
<1>5. QED BY <1>3, <1>4

(* The garbage collector when maphash() has come to entry e.                 *)
LEMMA CollectHere ==
  ASSUME Fits, NEW e \in DOMAIN value, Collect(buckets, e, removed, seen \cup {e}),
         buckets' = buckets
  PROVE  /\ HeapFits' /\ e \in seen' /\ seen' \subseteq seen \cup {e}
         /\ seen \cap InBuckets(buckets) \subseteq seen'
         /\ DOMAIN removed' = Held(e, removed)
         /\ \A x \in Held(e, removed) : removed'[x] = removed[x]
         /\ \A x \in InBuckets(buckets) : value'[x] = value[x]
<1>1. PICK b, r, vis : b = buckets /\ r = removed /\ vis = seen \cup {e} OBVIOUS
<1>2. HeapFits /\ vis \subseteq DOMAIN value /\ e \in vis BY <1>1 DEF Fits, HeapFits
<1>3. /\ InBuckets(b) \cap DOMAIN r = {} /\ InBuckets(b) \cup DOMAIN r = DOMAIN value
      /\ \A x \in DOMAIN r : r[x] \in DOMAIN value \cup {NULL}
  BY <1>1, <1>2 DEF HeapFits
<1>4. MayCollect(b, e, r, vis) BY <1>1, <1>2, <1>3 DEF MayCollect
<1>5. Collected(b, e, r, vis) BY <1>4, CollectKeeps
<1>6. QED BY <1>1, <1>2, <1>5 DEF Collected

(* A visit of maphash() keeps the structural invariant, and these entries.   *)
LEMMA FitsVisit ==
  ASSUME Fits, NEW at, Visit(at), tame' \in BOOLEAN,
         at = FirstBelow(capacity) \/ (walk # NoWalk /\ at = NextVisit)
  PROVE  /\ Fits'
         /\ DOMAIN removed' = Held(at.e, removed)
         /\ \A x \in DOMAIN removed' : removed'[x] = removed[x]
         /\ seen' \subseteq seen \cup {at.e} /\ at.e \in seen'
         /\ seen \cap InBuckets(buckets) \subseteq seen'
         /\ \A x \in InBuckets(buckets) : value'[x] = value[x]
<1>1. /\ at # NoWalk /\ walk' = at /\ Collect(buckets, at.e, removed, seen \cup {at.e})
      /\ UNCHANGED <<test, capacity, count, buckets, cached, content, exposed, stored>>
  BY DEF Visit, shape, keys
<1>2. PICK D : D = DOMAIN value OBVIOUS
<1>3. at \in [i : 0 .. capacity - 1, e : D] BY <1>1, <1>2, VisitTypes
<1>4. at.e \in D /\ D \subseteq Entries BY <1>2, <1>3 DEF Fits, HeapFits
<1>5. TableFits' BY <1>1 DEF Fits, TableFits, Threshold
<1>6. KeysFit' BY <1>1 DEF Fits, KeysFit
<1>7. CacheFits' /\ CacheTypes' BY <1>1 DEF Fits, CacheFits, CacheTypes
<1>8. PICK e : e = at.e OBVIOUS
<1>9. Collect(buckets, e, removed, seen \cup {e}) /\ e \in DOMAIN value BY <1>1, <1>2, <1>4, <1>8
<1>10. /\ HeapFits' /\ e \in seen' /\ seen' \subseteq seen \cup {e}
       /\ seen \cap InBuckets(buckets) \subseteq seen'
       /\ DOMAIN removed' = Held(e, removed)
       /\ \A x \in Held(e, removed) : removed'[x] = removed[x]
       /\ \A x \in InBuckets(buckets) : value'[x] = value[x]
  BY <1>1, <1>9, CollectHere
<1>11. WalkFits'
  <2>1. at \in [i : 0 .. capacity - 1, e : Entries \cup {NULL}] BY <1>3, <1>4
  <2>2. NoWalk' = NoWalk BY DEF NoWalk
  <2>3. QED BY <1>1, <1>8, <1>10, <2>1, <2>2 DEF WalkFits
<1>12. StoredTypes' BY <1>1 DEF Fits, StoredTypes
<1>13. QED BY <1>5, <1>6, <1>7, <1>8, <1>10, <1>11, <1>12 DEF Fits

(* The end of maphash() keeps the structural invariant, and the values.      *)
LEMMA FitsEnd ==
  ASSUME Fits, EndWalk
  PROVE  Fits' /\ \A x \in InBuckets(buckets) : value'[x] = value[x]
<1>1. /\ walk' = NoWalk /\ Collect(buckets, NULL, removed, {}) /\ tame' = FALSE
      /\ UNCHANGED <<test, capacity, count, buckets, cached, content, exposed, stored>>
  BY DEF EndWalk, shape, keys
<1>2. TableFits' BY <1>1 DEF Fits, TableFits, Threshold
<1>3. KeysFit' BY <1>1 DEF Fits, KeysFit
<1>4. CacheFits' /\ CacheTypes' BY <1>1 DEF Fits, CacheFits, CacheTypes
<1>5. PICK b, e, vis : b = buckets /\ e = NULL /\ vis = {} OBVIOUS
<1>6. HeapFits /\ vis \subseteq DOMAIN value BY <1>5 DEF Fits
<1>7. /\ InBuckets(b) \cap DOMAIN removed = {}
      /\ InBuckets(b) \cup DOMAIN removed = DOMAIN value
      /\ \A x \in DOMAIN removed : removed[x] \in DOMAIN value \cup {NULL}
  BY <1>5, <1>6 DEF HeapFits
<1>8. /\ HeapFits' /\ seen' \subseteq vis /\ DOMAIN removed' = Held(e, removed)
      /\ \A x \in InBuckets(b) : value'[x] = value[x]
  <2>1. MayCollect(b, e, removed, vis) BY <1>1, <1>5, <1>6, <1>7 DEF MayCollect
  <2>2. Collected(b, e, removed, vis) BY <2>1, CollectKeeps
  <2>3. QED BY <2>2 DEF Collected
<1>9. Held(e, removed) = {}
  <2>1. e \notin DOMAIN removed BY <1>5, <1>6, HashAssumption DEF HeapFits
  <2>2. QED BY <2>1, HeldOfNone
<1>10. WalkFits'
  <2>1. NoWalk \in [i : 0 .. capacity - 1, e : Entries \cup {NULL}]
    <3>1. capacity \in Nat \ {0} BY DEF Fits, TableFits
    <3>2. QED BY <3>1 DEF NoWalk
  <2>2. NoWalk' = NoWalk BY DEF NoWalk
  <2>3. QED BY <1>1, <1>5, <1>8, <1>9, <2>1, <2>2 DEF WalkFits
<1>11. StoredTypes' BY <1>1 DEF Fits, StoredTypes
<1>12. QED BY <1>2, <1>3, <1>4, <1>5, <1>8, <1>10, <1>11 DEF Fits

(* get() keeps the structural invariant.                                     *)
LEMMA FitsGet ==
  ASSUME Fits, NEW k \in Keys, get(k)
  PROVE  Fits'
<1>1. /\ Cache(k, IndexOf(k))
      /\ UNCHANGED <<test, capacity, count, buckets, value, content, exposed>>
      /\ UNCHANGED <<walk, removed, seen, tame, stored>>
  BY DEF get, table, shape, keys, mapping
<1>2. TableFits' BY <1>1 DEF Fits, TableFits, Threshold
<1>3. KeysFit' BY <1>1 DEF Fits, KeysFit
<1>4. CacheFits' /\ CacheTypes'
  <2>1. capacity \in Nat BY DEF Fits, TableFits
  <2>2. QED BY <1>1, <2>1, IndexOfTypes, CacheFitsKeeps DEF Fits
<1>5. HeapFits' BY <1>1 DEF Fits, HeapFits
<1>6. WalkFits' BY <1>1 DEF Fits, WalkFits, NoWalk
<1>7. StoredTypes' BY <1>1 DEF Fits, StoredTypes
<1>8. QED BY <1>2, <1>3, <1>4, <1>5, <1>6, <1>7 DEF Fits

(* A stuttering step keeps the structural invariant.                         *)
LEMMA FitsUnchanged ==
  ASSUME Fits, UNCHANGED vars
  PROVE  Fits'
<1>1. /\ UNCHANGED <<test, capacity, count, buckets, value, cached, content, exposed>>
      /\ UNCHANGED <<walk, removed, seen, tame, stored>>
  BY DEF vars, table, shape, keys, mapping
<1>2. TableFits' BY <1>1 DEF Fits, TableFits, Threshold
<1>3. KeysFit' BY <1>1 DEF Fits, KeysFit
<1>4. CacheFits' /\ CacheTypes' BY <1>1 DEF Fits, CacheFits, CacheTypes
<1>5. HeapFits' BY <1>1 DEF Fits, HeapFits
<1>6. WalkFits' BY <1>1 DEF Fits, WalkFits, NoWalk
<1>7. StoredTypes' BY <1>1 DEF Fits, StoredTypes
<1>8. QED BY <1>2, <1>3, <1>4, <1>5, <1>6, <1>7 DEF Fits

(* Every step keeps the structural invariant.                                *)
LEMMA FitsStep ==
  ASSUME Fits, [Next]_vars
  PROVE  Fits'
<1>1. ASSUME NEW k \in Keys, get(k) PROVE Fits' BY <1>1, FitsGet
<1>2. ASSUME NEW k \in Keys, remove(k) PROVE Fits' BY <1>2, FitsRemove
<1>3. ASSUME NEW k \in Keys, NEW v \in Values,
             put_replace(k, v) \/ put_new(k, v) \/ put_rehash(k, v)
      PROVE  Fits'
  BY <1>3, FitsPut
<1>4. ASSUME NEW k \in Keys, NEW c \in Variants[k], modify(k, c) PROVE Fits' BY <1>4, FitsModify
<1>5. CASE clear BY <1>5, FitsClear
<1>6. CASE maphash_start
  <2>1. Visit(FirstBelow(capacity)) /\ tame' \in BOOLEAN BY <1>6 DEF maphash_start
  <2>2. QED BY <2>1, FitsVisit
<1>7. CASE maphash_visit
  <2>1. walk # NoWalk /\ Visit(NextVisit) /\ tame' \in BOOLEAN
    BY <1>7 DEF maphash_visit, Fits, WalkFits
  <2>2. QED BY <2>1, FitsVisit
<1>8. CASE maphash_end \/ maphash_exit BY <1>8, FitsEnd DEF maphash_end, maphash_exit
<1>9. CASE UNCHANGED vars BY <1>9, FitsUnchanged
<1>10. QED BY <1>1, <1>2, <1>3, <1>4, <1>5, <1>6, <1>7, <1>8, <1>9, Zenon DEF Next

(* The structural invariant holds in every state.                            *)
LEMMA FitsAlways == Spec => []Fits
<1>1. Init => Fits BY FitsInit
<1>2. Fits /\ [Next]_vars => Fits' BY FitsStep
<1>3. QED BY <1>1, <1>2, PTL DEF Spec

(* Types; an entry is in one chain, once, the count is right and the table   *)
(* is never fuller than the load factor says, in every state.                *)
THEOREM TypesAreCorrect == Spec => []TypeOK
<1>1. ASSUME Fits PROVE TypeOK
  <2> USE <1>1
  <2>1. /\ test \in Tests /\ capacity \in Nat \ {0} /\ Chains(buckets, capacity)
        /\ count = Cardinality(InBuckets(buckets)) /\ count <= Threshold(capacity)
    BY DEF Fits, TableFits
  <2>2. count \in 0 .. Threshold(capacity)
    <3>1. count \in Nat BY <2>1, FS_CardinalityType DEF Fits, TableFits
    <3>2. Threshold(capacity) \in Int BY <2>1 DEF Threshold
    <3>3. QED BY <2>1, <3>1, <3>2
  <2>3. /\ buckets \in [0 .. capacity - 1 -> Seq(Entries)]
        /\ \A i, j \in DOMAIN buckets : \A m \in DOMAIN buckets[i], n \in DOMAIN buckets[j] :
             buckets[i][m] = buckets[j][n] => i = j /\ m = n
    BY <2>1 DEF Chains, Once, At
  <2>4. /\ DOMAIN value \subseteq Entries
        /\ \A e \in DOMAIN value : value[e] \in Values
        /\ \A e \in DOMAIN removed : removed[e] \in DOMAIN value \cup {NULL}
        /\ seen \subseteq Entries
    BY DEF Fits, HeapFits
  <2>5. cached \in [key : Keys \cup {NULL}, index : Nat] BY DEF Fits, CacheFits
  <2>6. content \in [Keys -> Contents] /\ exposed \subseteq Keys BY DEF Fits, KeysFit
  <2>7. walk \in [i : 0 .. capacity - 1, e : Entries \cup {NULL}] /\ tame \in BOOLEAN
    BY DEF Fits, WalkFits
  <2>8. stored \in [Places -> Values \cup {ABSENT, UNKNOWN}] BY DEF Fits, StoredTypes
  <2>9. QED BY <2>1, <2>2, <2>3, <2>4, <2>5, <2>6, <2>7, <2>8 DEF TypeOK
<1>2. Fits => TypeOK BY <1>1
<1>3. QED BY <1>2, FitsAlways, PTL

-------------------------------------------------------------------------------
(* Keys are found where they are looked for.                                 *)

(* An entry is in the bucket of its key, which has no other for it.          *)
Placed ==
  \A i, x : In(buckets, i, x) /\ KeyOf(x) \notin exposed => i = Index(KeyOf(x), capacity)

(* Two entries stand for one key and are in one bucket of cap.               *)
Twins(x, y, cap) ==
  /\ KeyOf(x) \notin exposed /\ KeyOf(y) \notin exposed
  /\ Same(KeyOf(x), KeyOf(y)) /\ Index(KeyOf(x), cap) = Index(KeyOf(y), cap)

Unique ==
  \A x, y \in InBuckets(buckets) : Twins(x, y, capacity) => x = y

(* Keys of which the table has the last value.                               *)
Sound == {k \in Keys \ exposed : Compatible(k)}

(* What the entries for a key have is what was stored last.                  *)
StoredFits ==
  \A k \in Sound :
    /\ \A x \in InBuckets(buckets) : Same(k, KeyOf(x)) => value[x] = stored[PlaceOf(k)]
    /\ (\A x \in InBuckets(buckets) : ~Same(k, KeyOf(x))) => stored[PlaceOf(k)] = ABSENT

KeyInv == CacheInv /\ Placed /\ Unique /\ StoredFits

(* Keys that are the same as a compatible key have its index.                *)
LEMMA SameIndex ==
  ASSUME NEW k, Compatible(k), NEW j \in Keys, Same(k, j), NEW cap
  PROVE  Index(j, cap) = Index(k, cap)
<1>1. HashOf(j) = HashOf(k) BY DEF Compatible, Same
<1>2. QED BY <1>1 DEF Index

(* The class of a key that can be modified is the key's own.                 *)
LEMMA OwnPlace ==
  ASSUME KeysFit, test \in IdentityTests, NEW k \in Keys
  PROVE  /\ PlaceOf(k) \in {k} \cup Contents
         /\ Variants[k] # {} => PlaceOf(k) = k
<1>1. content[k] \in Contents BY DEF KeysFit
<1>2. QED BY <1>1, IdentityAssumption DEF PlaceOf

(* A key that has not been modified is not the same as one that has.         *)
LEMMA SameExposed ==
  ASSUME KeysFit, NEW j, NEW k \in Keys, Same(k, j), k \notin exposed
  PROVE  j \notin exposed
<1>1. SUFFICES ASSUME j \in exposed PROVE FALSE OBVIOUS
<1>2. test \in IdentityTests /\ j \in Keys /\ Variants[j] # {} BY <1>1 DEF KeysFit
<1>3. PlaceOf(j) = j /\ PlaceOf(k) \in {k} \cup Contents BY <1>2, OwnPlace
<1>4. j \notin Contents BY <1>2, HashAssumption
<1>5. QED BY <1>1, <1>3, <1>4 DEF Same

(* Same() is an equivalence.                                                 *)
LEMMA SameEquals ==
  /\ \A j, k : Same(j, k) => Same(k, j)
  /\ \A j, k, l : Same(j, k) /\ Same(k, l) => Same(j, l)
  /\ \A k : Same(k, k)
BY DEF Same

(* What an entry in the buckets is.                                          *)
LEMMA EntryKeys ==
  ASSUME Fits, NEW x \in InBuckets(buckets)
  PROVE  x \in Entries /\ KeyOf(x) \in Keys /\ x \in DOMAIN value /\ x # NULL
<1>1. x \in Entries /\ x \in DOMAIN value BY DEF Fits, HeapFits
<1>2. QED BY <1>1, KeyTypes, HashAssumption

(* If a key is not found, no entry is for it.                                *)
LEMMA NotFound ==
  ASSUME Fits, KeyInv, NEW k \in Keys, k \notin exposed, Find(k) = NULL
  PROVE  /\ \A x \in InBuckets(buckets) :
              Index(k, capacity) = Index(KeyOf(x), capacity) => ~Same(k, KeyOf(x))
         /\ Compatible(k) => \A x \in InBuckets(buckets) : ~Same(k, KeyOf(x))
<1> SUFFICES ASSUME NEW x \in InBuckets(buckets), Same(k, KeyOf(x)),
                    Compatible(k) \/ Index(k, capacity) = Index(KeyOf(x), capacity)
             PROVE  FALSE
  OBVIOUS
<1>1. KeyOf(x) \notin exposed /\ KeyOf(x) \in Keys BY SameExposed, EntryKeys DEF Fits
<1>2. PICK i : In(buckets, i, x) BY InBucketsIs
<1>3. i = Index(KeyOf(x), capacity) BY <1>1, <1>2 DEF KeyInv, Placed
<1>4. i = Index(k, capacity) BY <1>1, <1>3, SameIndex
<1>5. i = IndexOf(k) BY <1>4, IndexOfValid DEF KeyInv
<1>6. QED BY <1>2, <1>5, FindIs

(* The operations use PlaceOf() and Index() of the same objects.             *)
LEMMA SameKeys ==
  ASSUME UNCHANGED <<test, content>>
  PROVE  /\ \A j, k : Same(j, k)' <=> Same(j, k)
         /\ \A k : PlaceOf(k)' = PlaceOf(k)
         /\ \A k, cap : Index(k, cap)' = Index(k, cap)
         /\ \A k : Compatible(k)' <=> Compatible(k)
<1>1. ASSUME NEW k PROVE PlaceOf(k)' = PlaceOf(k) BY DEF PlaceOf
<1>2. ASSUME NEW j, NEW k PROVE Same(j, k)' <=> Same(j, k) BY <1>1 DEF Same
<1>3. ASSUME NEW k PROVE HashOf(k)' = HashOf(k) BY DEF HashOf
<1>4. ASSUME NEW k, NEW cap PROVE Index(k, cap)' = Index(k, cap) BY <1>3 DEF Index
<1>5. ASSUME NEW k PROVE Compatible(k)' <=> Compatible(k) BY <1>2, <1>3 DEF Compatible
<1>6. QED BY <1>1, <1>2, <1>4, <1>5

(* Placed, Unique and StoredFits for other variables: the buckets b of a     *)
(* table of cap buckets, the values val and what has been stored, st.        *)
PlacedIn(b, cap) ==
  \A i, x : In(b, i, x) /\ KeyOf(x) \notin exposed => i = Index(KeyOf(x), cap)

UniqueIn(B, cap) == \A x, y \in B : Twins(x, y, cap) => x = y

StoredIn(B, val, st) ==
  \A k \in Sound :
    /\ \A x \in B : Same(k, KeyOf(x)) => val[x] = st[PlaceOf(k)]
    /\ (\A x \in B : ~Same(k, KeyOf(x))) => st[PlaceOf(k)] = ABSENT

(* The entries for a compatible key are one.                                 *)
LEMMA OneFor ==
  ASSUME Fits, NEW cap, UniqueIn(InBuckets(buckets), cap), NEW j \in Sound,
         NEW x \in InBuckets(buckets), NEW y \in InBuckets(buckets),
         Same(j, KeyOf(x)), Same(j, KeyOf(y))
  PROVE  x = y
<1>1. j \in Keys /\ j \notin exposed /\ Compatible(j) BY DEF Sound
<1>2. KeyOf(x) \in Keys /\ KeyOf(y) \in Keys BY EntryKeys
<1>3. KeyOf(x) \notin exposed /\ KeyOf(y) \notin exposed BY <1>1, SameExposed DEF Fits
<1>4. Same(KeyOf(x), KeyOf(y)) BY SameEquals
<1>5. Index(KeyOf(x), cap) = Index(KeyOf(y), cap) BY <1>1, <1>2, SameIndex
<1>6. QED BY <1>3, <1>4, <1>5 DEF UniqueIn, Twins

(* KeyInv after a step, from its parts for the new values of the variables.  *)
LEMMA KeyInvPrimed ==
  ASSUME UNCHANGED <<test, content, exposed>>, CacheInv', NEW b, b = buckets',
         NEW cap, cap = capacity', NEW val, val = value', NEW st, st = stored',
         PlacedIn(b, cap), UniqueIn(InBuckets(b), cap), StoredIn(InBuckets(b), val, st)
  PROVE  KeyInv'
<1>1. /\ \A j, k : Same(j, k)' <=> Same(j, k)
      /\ \A k : PlaceOf(k)' = PlaceOf(k)
      /\ \A k, c : Index(k, c)' = Index(k, c)
      /\ \A k : Compatible(k)' <=> Compatible(k)
  BY SameKeys
<1>2. InBuckets(buckets)' = InBuckets(b) BY DEF InBuckets
<1>3. Placed'
  <2>1. SUFFICES ASSUME NEW i, NEW x, In(buckets', i, x), KeyOf(x) \notin exposed'
                 PROVE  i = Index(KeyOf(x), capacity)'
    BY DEF Placed, In, At
  <2>2. In(b, i, x) /\ KeyOf(x) \notin exposed BY <2>1
  <2>3. i = Index(KeyOf(x), cap) BY <2>2 DEF PlacedIn
  <2>4. Index(KeyOf(x), capacity)' = Index(KeyOf(x), cap) BY DEF Index, HashOf
  <2>5. QED BY <2>3, <2>4
<1>4. Unique'
  <2>1. SUFFICES ASSUME NEW x \in InBuckets(b), NEW y \in InBuckets(b), Twins(x, y, capacity)'
                 PROVE  x = y
    BY <1>2 DEF Unique
  <2>2. /\ KeyOf(x) \notin exposed' /\ KeyOf(y) \notin exposed' /\ Same(KeyOf(x), KeyOf(y))'
        /\ Index(KeyOf(x), capacity)' = Index(KeyOf(y), capacity)'
    BY <2>1 DEF Twins
  <2>3. \A k : Index(k, capacity)' = Index(k, cap) BY DEF Index, HashOf
  <2>4. Twins(x, y, cap) BY <1>1, <2>2, <2>3 DEF Twins
  <2>5. QED BY <2>4 DEF UniqueIn
<1>5. StoredFits'
  <2>0. Sound' = Sound BY <1>1 DEF Sound
  <2>1. SUFFICES ASSUME NEW k \in Sound
                 PROVE  /\ \A x \in InBuckets(b) : Same(k, KeyOf(x))' => val[x] = st[PlaceOf(k)']
                        /\ (\A x \in InBuckets(b) : ~Same(k, KeyOf(x))')
                             => st[PlaceOf(k)'] = ABSENT
    BY <1>2, <2>0 DEF StoredFits
  <2>2. PlaceOf(k)' = PlaceOf(k) /\ \A x : Same(k, KeyOf(x))' <=> Same(k, KeyOf(x)) BY <1>1
  <2>3. QED BY <2>2 DEF StoredIn
<1>6. QED BY <1>3, <1>4, <1>5 DEF KeyInv

(* The cache stays valid.                                                    *)
LEMMA CacheStep ==
  ASSUME CacheInv, [Next]_vars
  PROVE  CacheInv'
<1>1. ASSUME NEW k \in Keys, get(k) PROVE CacheInv'
  BY <1>1, CacheIndexOfKeeps DEF get, table
<1>2. ASSUME NEW k \in Keys, remove(k) PROVE CacheInv'
  BY <1>2, CacheIndexOfKeeps DEF remove
<1>3. ASSUME NEW k \in Keys, NEW v \in Values, put_replace(k, v) PROVE CacheInv'
  BY <1>3, CacheIndexOfKeeps DEF put_replace
<1>4. ASSUME NEW k \in Keys, NEW v \in Values, put_new(k, v) PROVE CacheInv'
  BY <1>4, CacheIndexOfKeeps DEF put_new, Push, shape
<1>5. ASSUME NEW k \in Keys, NEW v \in Values, put_rehash(k, v) PROVE CacheInv'
  <2>1. /\ capacity' = 2 * capacity /\ UNCHANGED <<test, content, exposed>>
        /\ Cache(k, Index(k, 2 * capacity))
    BY <1>5 DEF put_rehash, Push, keys
  <2>2. Index(k, 2 * capacity) = Index(k, capacity)' BY <2>1 DEF Index, HashOf
  <2>3. QED BY <2>1, <2>2, CacheKeeps
<1>6. ASSUME NEW k \in Keys, NEW c \in Variants[k], modify(k, c) PROVE CacheInv'
  <2>1. /\ UNCHANGED <<test, capacity, cached>>
        /\ content' = [content EXCEPT ![k] = c] /\ exposed' = exposed \cup {k}
    BY <1>6 DEF modify, table, shape
  <2>2. CacheTypes'
    <3>1. c \in Contents BY HashAssumption
    <3>2. QED BY <2>1, <3>1 DEF CacheInv, CacheTypes
  <2>3. CacheValid'
    <3>1. SUFFICES ASSUME cached.key # NULL, cached.key \notin exposed,
                          cached.key # k
                   PROVE  cached.index = Index(cached.key, capacity)'
      BY <2>1 DEF CacheValid
    <3>2. cached.key \in Keys BY <3>1 DEF CacheInv, CacheTypes
    <3>3. content'[cached.key] = content[cached.key]
      BY <2>1, <3>1, <3>2 DEF CacheInv, CacheTypes
    <3>4. Index(cached.key, capacity)' = Index(cached.key, capacity)
      BY <2>1, <3>3 DEF Index, HashOf
    <3>5. QED BY <3>1, <3>4 DEF CacheInv, CacheValid
  <2>4. QED BY <2>2, <2>3 DEF CacheInv
<1>7. CASE clear BY <1>7, UnchangedKeeps DEF clear
<1>8. CASE maphash_start \/ maphash_visit
  BY <1>8, UnchangedKeeps DEF maphash_start, maphash_visit, Visit
<1>9. CASE maphash_end \/ maphash_exit
  BY <1>9, UnchangedKeeps DEF maphash_end, maphash_exit, EndWalk
<1>10. CASE UNCHANGED vars BY <1>10, UnchangedKeeps DEF vars, table
<1>11. QED
  BY <1>1, <1>2, <1>3, <1>4, <1>5, <1>6, <1>7, <1>8, <1>9, <1>10, Zenon DEF Next

(* The index that get(), put() and remove() use without computing it is the  *)
(* index of the key in the table as it is now, in every state.               *)
THEOREM CacheIsValid == Spec => []CacheValid
<1>1. Init => CacheInv
  BY HashAssumption DEF Init, CacheInv, CacheTypes, CacheValid, NoCache
<1>2. CacheInv /\ [Next]_vars => CacheInv' BY CacheStep
<1>3. CacheInv => CacheValid BY DEF CacheInv
<1>4. QED BY <1>1, <1>2, <1>3, PTL DEF Spec

(* What Store() leaves.                                                      *)
LEMMA StoreIs ==
  ASSUME Fits, NEW k \in Keys, NEW v, Store(k, v), NEW j \in Keys \ exposed
  PROVE  /\ Same(j, k) => k \notin exposed /\ stored'[PlaceOf(j)] = v
         /\ ~Same(j, k) => stored'[PlaceOf(j)] = stored[PlaceOf(j)]
<1>1. PlaceOf(k) \in Places /\ PlaceOf(j) \in Places BY PlaceTypes DEF Fits
<1>2. PICK w : w = IF k \in exposed THEN UNKNOWN ELSE v OBVIOUS
<1>3. stored' = [stored EXCEPT ![PlaceOf(k)] = w] BY <1>2 DEF Store
<1>4. stored \in [Places -> Values \cup {ABSENT, UNKNOWN}] BY DEF Fits, StoredTypes
<1>5. ASSUME Same(j, k) PROVE k \notin exposed /\ stored'[PlaceOf(j)] = v
  <2>1. k \notin exposed BY <1>5, SameExposed DEF Fits
  <2>2. QED BY <1>1, <1>2, <1>3, <1>4, <1>5, <2>1 DEF Same
<1>6. ASSUME ~Same(j, k) PROVE stored'[PlaceOf(j)] = stored[PlaceOf(j)]
  BY <1>1, <1>3, <1>4, <1>6 DEF Same
<1>7. QED BY <1>5, <1>6

(* The entries B and values val, when nothing else has changed.              *)
LEMMA KeyInvFrame ==
  ASSUME Fits, KeyInv, CacheInv', UNCHANGED <<test, content, exposed, capacity, buckets, stored>>,
         \A x \in InBuckets(buckets) : value'[x] = value[x]
  PROVE  KeyInv'
<1>1. PICK b, cap, val, st : b = buckets /\ cap = capacity /\ val = value' /\ st = stored OBVIOUS
<1>2. PlacedIn(b, cap) BY <1>1 DEF KeyInv, Placed, PlacedIn
<1>3. UniqueIn(InBuckets(b), cap) BY <1>1 DEF KeyInv, Unique, UniqueIn
<1>4. StoredIn(InBuckets(b), val, st) BY <1>1 DEF KeyInv, StoredFits, StoredIn
<1>5. QED BY <1>1, <1>2, <1>3, <1>4, KeyInvPrimed

(* put() on a key that has an entry keeps KeyInv.                            *)
LEMMA KeyInvReplace ==
  ASSUME Fits, KeyInv, CacheInv', NEW k \in Keys, NEW v \in Values, put_replace(k, v)
  PROVE  KeyInv'
<1>1. PICK e : e = Find(k) OBVIOUS
<1>2. /\ e # NULL /\ value' = [value EXCEPT ![e] = v] /\ Store(k, v)
      /\ UNCHANGED <<test, capacity, buckets, content, exposed>>
  BY <1>1 DEF put_replace, shape, keys
<1>3. e \in InBuckets(buckets) /\ Same(k, KeyOf(e)) BY <1>1, <1>2, FindIs
<1>4. e \in DOMAIN value BY <1>3, EntryKeys
<1>5. PICK b, cap, val, st : b = buckets /\ cap = capacity /\ val = value' /\ st = stored' OBVIOUS
<1>6. PlacedIn(b, cap) BY <1>5 DEF KeyInv, Placed, PlacedIn
<1>7. UniqueIn(InBuckets(b), cap) BY <1>5 DEF KeyInv, Unique, UniqueIn
<1>8. val[e] = v /\ \A x \in InBuckets(b) : x # e => val[x] = value[x]
  BY <1>2, <1>4, <1>5
<1>a. UniqueIn(InBuckets(buckets), cap) BY <1>5 DEF KeyInv, Unique, UniqueIn
<1>9. ASSUME NEW j \in Sound
      PROVE  /\ \A x \in InBuckets(b) : Same(j, KeyOf(x)) => val[x] = st[PlaceOf(j)]
             /\ (\A x \in InBuckets(b) : ~Same(j, KeyOf(x))) => st[PlaceOf(j)] = ABSENT
  <2>1. CASE Same(j, k)
    <3>1. k \notin exposed /\ st[PlaceOf(j)] = v BY <1>2, <1>5, <2>1, StoreIs DEF Sound
    <3>2. Same(j, KeyOf(e)) BY <1>3, <2>1, SameEquals
    <3>3. ASSUME NEW x \in InBuckets(b), Same(j, KeyOf(x)) PROVE x = e
      BY <1>a, <1>3, <1>5, <3>2, <3>3, OneFor
    <3>4. QED BY <1>3, <1>5, <1>8, <3>1, <3>2, <3>3
  <2>2. CASE ~Same(j, k)
    <3>1. st[PlaceOf(j)] = stored[PlaceOf(j)] BY <1>2, <1>5, <2>2, StoreIs DEF Sound
    <3>2. \A x \in InBuckets(b) : Same(j, KeyOf(x)) => x # e BY <1>3, <2>2, SameEquals
    <3>3. QED BY <1>5, <1>8, <3>1, <3>2 DEF KeyInv, StoredFits
  <2>3. QED BY <2>1, <2>2
<1>10. StoredIn(InBuckets(b), val, st) BY <1>9 DEF StoredIn
<1>11. QED BY <1>2, <1>5, <1>6, <1>7, <1>10, KeyInvPrimed

(* remove() keeps KeyInv.                                                    *)
LEMMA KeyInvRemove ==
  ASSUME Fits, KeyInv, CacheInv', NEW k \in Keys, remove(k)
  PROVE  KeyInv'
<1>1. PICK e : e = Find(k) OBVIOUS
<1>2. PICK b, cap, val, st : b = buckets' /\ cap = capacity /\ val = value' /\ st = stored' OBVIOUS
<1>3. /\ Store(k, ABSENT) /\ UNCHANGED <<test, capacity, content, exposed>>
  BY DEF remove, shape, keys
<1>4. /\ e \in InBuckets(buckets) /\ Same(k, KeyOf(e))
      /\ Without(buckets, b, cap, e) /\ InBuckets(b) = InBuckets(buckets) \ {e} /\ Unlink(b, {e})
  BY <1>1, <1>2, RemoveIs
<1>5. \A x \in InBuckets(b) : val[x] = value[x]
  <2>1. {e} \subseteq InBuckets(buckets) BY <1>4
  <2>2. QED BY <1>2, <1>4, <2>1, UnlinkKeeps
<1>6. PlacedIn(b, cap) BY <1>2, <1>4 DEF KeyInv, Placed, PlacedIn, Without
<1>7. UniqueIn(InBuckets(b), cap) BY <1>2, <1>4 DEF KeyInv, Unique, UniqueIn
<1>a. UniqueIn(InBuckets(buckets), cap) BY <1>2 DEF KeyInv, Unique, UniqueIn
<1>8. ASSUME NEW j \in Sound
      PROVE  /\ \A x \in InBuckets(b) : Same(j, KeyOf(x)) => val[x] = st[PlaceOf(j)]
             /\ (\A x \in InBuckets(b) : ~Same(j, KeyOf(x))) => st[PlaceOf(j)] = ABSENT
  <2>1. CASE Same(j, k)
    <3>1. k \notin exposed /\ st[PlaceOf(j)] = ABSENT BY <1>2, <1>3, <2>1, StoreIs DEF Sound
    <3>2. Same(j, KeyOf(e)) BY <1>4, <2>1, SameEquals
    <3>3. ASSUME NEW x \in InBuckets(b), Same(j, KeyOf(x)) PROVE FALSE
      <4>1. x \in InBuckets(buckets) /\ x # e BY <1>4
      <4>2. QED BY <1>a, <1>4, <3>2, <3>3, <4>1, OneFor
    <3>4. QED BY <3>1, <3>3
  <2>2. CASE ~Same(j, k)
    <3>1. st[PlaceOf(j)] = stored[PlaceOf(j)] BY <1>2, <1>3, <2>2, StoreIs DEF Sound
    <3>2. ~Same(j, KeyOf(e)) BY <1>4, <2>2, SameEquals
    <3>3. QED BY <1>4, <1>5, <3>1, <3>2 DEF KeyInv, StoredFits
  <2>3. QED BY <2>1, <2>2
<1>9. StoredIn(InBuckets(b), val, st) BY <1>8 DEF StoredIn
<1>10. cap = capacity' BY <1>2, <1>3
<1>11. QED BY <1>2, <1>3, <1>6, <1>7, <1>9, <1>10, KeyInvPrimed

(* clear() keeps KeyInv.                                                     *)
LEMMA KeyInvClear ==
  ASSUME Fits, KeyInv, CacheInv', clear
  PROVE  KeyInv'
<1>1. PICK b, cap, val, st : b = buckets' /\ cap = capacity /\ val = value' /\ st = stored' OBVIOUS
<1>2. capacity \in Nat /\ DOMAIN buckets = 0 .. capacity - 1 BY DEF Fits, TableFits, Chains
<1>3. /\ b = [i \in 0 .. capacity - 1 |-> << >>] /\ UNCHANGED <<test, capacity, content, exposed>>
      /\ st = [p \in Places |-> IF p \in exposed THEN UNKNOWN ELSE ABSENT]
  BY <1>1, <1>2 DEF clear, Unlink, shape, keys
<1>4. InBuckets(b) = {} /\ \A i, x : ~In(b, i, x) BY <1>2, <1>3, EmptyChains
<1>5. PlacedIn(b, cap) /\ UniqueIn(InBuckets(b), cap) BY <1>4 DEF PlacedIn, UniqueIn
<1>6. ASSUME NEW j \in Keys \ exposed PROVE st[PlaceOf(j)] = ABSENT
  <2>1. PlaceOf(j) \in Places BY PlaceTypes DEF Fits
  <2>2. PlaceOf(j) \notin exposed
    <3>1. CASE exposed = {} BY <3>1
    <3>2. CASE exposed # {}
      <4>1. test \in IdentityTests BY <3>2 DEF Fits, KeysFit
      <4>2. PlaceOf(j) \in {j} \cup Contents BY <4>1, OwnPlace DEF Fits
      <4>3. exposed \cap Contents = {} BY HashAssumption DEF Fits, KeysFit
      <4>4. QED BY <4>2, <4>3
    <3>3. QED BY <3>1, <3>2
  <2>3. QED BY <1>3, <2>1, <2>2
<1>7. StoredIn(InBuckets(b), val, st) BY <1>4, <1>6 DEF StoredIn, Sound
<1>8. cap = capacity' BY <1>1, <1>3
<1>9. QED BY <1>1, <1>3, <1>5, <1>7, <1>8, KeyInvPrimed

(* put() of a key that has no entry: e is made and pushed on chain i of b.   *)
LEMMA KeyInvPush ==
  ASSUME Fits, KeyInv, CacheInv', HasRoom, NEW k \in Keys, NEW v \in Values, Find(k) = NULL,
         NEW cap \in Nat \ {0}, capacity' = cap, NEW i \in 0 .. cap - 1, NEW b, Push(k, v, i, b),
         Chains(b, cap), InBuckets(b) = InBuckets(buckets), PlacedIn(b, cap),
         k \notin exposed => i = Index(k, cap),
         \A j, l \in Keys : Index(j, cap) = Index(l, cap) => Index(j, capacity) = Index(l, capacity)
  PROVE  KeyInv'
<1>1. PICK e : Added(k, v, i, b, e) BY PushIs
<1>2. PICK c, val, st : c = buckets' /\ val = value' /\ st = stored' OBVIOUS
<1>3. /\ e \in Entries /\ e \notin DOMAIN value /\ KeyOf(e) = k /\ val[e] = v
      /\ \A x \in DOMAIN value : val[x] = value[x]
      /\ c = Pushed(b, i, e)
  BY <1>1, <1>2 DEF Added
<1>4. Store(k, v) /\ UNCHANGED <<test, content, exposed>> BY DEF Push, keys
<1>5. \A x \in InBuckets(buckets) : x \in DOMAIN value BY EntryKeys
<1>6. e \notin InBuckets(b) BY <1>3, <1>5
<1>7. With(b, c, cap, i, e) BY <1>3, <1>6, PushedIs
<1>8. \A x : x \in InBuckets(c) <=> x \in InBuckets(buckets) \/ x = e
  <2>1. \A x : x \in InBuckets(c) <=> x \in InBuckets(b) \/ x = e
    BY <1>7, InBucketsIs DEF With
  <2>2. QED BY <2>1
<1>9. k \notin exposed => \A x \in InBuckets(buckets) :
        Index(k, capacity) = Index(KeyOf(x), capacity) => ~Same(k, KeyOf(x))
  BY NotFound
<1>10. PlacedIn(c, cap)
  <2> SUFFICES ASSUME NEW j, NEW x, In(c, j, x), KeyOf(x) \notin exposed
               PROVE  j = Index(KeyOf(x), cap)
    BY DEF PlacedIn
  <2>1. In(b, j, x) \/ (j = i /\ x = e) BY <1>7 DEF With
  <2>2. QED BY <1>3, <2>1 DEF PlacedIn
<1>11. UniqueIn(InBuckets(c), cap)
  <2> SUFFICES ASSUME NEW x \in InBuckets(c), NEW y \in InBuckets(c), Twins(x, y, cap)
               PROVE  x = y
    BY DEF UniqueIn
  <2>0. /\ KeyOf(x) \notin exposed /\ KeyOf(y) \notin exposed
        /\ Same(KeyOf(x), KeyOf(y)) /\ Index(KeyOf(x), capacity) = Index(KeyOf(y), capacity)
    <3>1. KeyOf(x) \in Keys /\ KeyOf(y) \in Keys BY <1>3, <1>8, EntryKeys
    <3>2. QED BY <3>1 DEF Twins
  <2>1. CASE x = e /\ y # e
    <3>1. k \notin exposed /\ y \in InBuckets(buckets) /\ Same(k, KeyOf(y))
      BY <1>3, <1>8, <2>0, <2>1
    <3>2. QED BY <1>3, <1>9, <2>0, <2>1, <3>1
  <2>2. CASE x # e /\ y = e
    <3>1. k \notin exposed /\ x \in InBuckets(buckets) /\ Same(k, KeyOf(x))
      BY <1>3, <1>8, <2>0, <2>2, SameEquals
    <3>2. QED BY <1>3, <1>9, <2>0, <2>2, <3>1
  <2>3. CASE x # e /\ y # e BY <1>8, <2>0, <2>3 DEF KeyInv, Unique, Twins
  <2>4. QED BY <2>1, <2>2, <2>3
<1>12. ASSUME NEW j \in Sound
       PROVE  /\ \A x \in InBuckets(c) : Same(j, KeyOf(x)) => val[x] = st[PlaceOf(j)]
              /\ (\A x \in InBuckets(c) : ~Same(j, KeyOf(x))) => st[PlaceOf(j)] = ABSENT
  <2>1. e \in InBuckets(c) BY <1>8
  <2>2. CASE Same(j, k)
    <3>1. k \notin exposed /\ st[PlaceOf(j)] = v BY <1>2, <1>4, <2>2, StoreIs DEF Sound
    <3>a. Compatible(k)
      <4>1. Compatible(j) /\ \A l : Same(l, k) => Same(l, j) BY <2>2, SameEquals DEF Sound
      <4>2. HashOf(k) = HashOf(j) BY <4>1, SameEquals DEF Compatible
      <4>3. QED BY <4>1, <4>2 DEF Compatible
    <3>b. \A x \in InBuckets(buckets) : ~Same(k, KeyOf(x)) BY <3>a, <3>1, NotFound
    <3>2. \A x \in InBuckets(c) : Same(j, KeyOf(x)) => x = e BY <1>8, <2>2, <3>b, SameEquals
    <3>3. QED BY <1>3, <2>1, <2>2, <3>1, <3>2
  <2>3. CASE ~Same(j, k)
    <3>1. st[PlaceOf(j)] = stored[PlaceOf(j)] BY <1>2, <1>4, <2>3, StoreIs DEF Sound
    <3>2. \A x \in InBuckets(buckets) : val[x] = value[x] BY <1>3, <1>5
    <3>3. QED BY <1>3, <1>8, <2>3, <3>1, <3>2 DEF KeyInv, StoredFits
  <2>4. QED BY <2>2, <2>3
<1>13. StoredIn(InBuckets(c), val, st) BY <1>12 DEF StoredIn
<1>14. QED BY <1>2, <1>4, <1>10, <1>11, <1>13, KeyInvPrimed

(* put() of a new key keeps KeyInv, rehash or not.                           *)
LEMMA KeyInvPut ==
  ASSUME Fits, KeyInv, CacheInv', NEW k \in Keys, NEW v \in Values,
         put_new(k, v) \/ put_rehash(k, v)
  PROVE  KeyInv'
<1>1. capacity \in Nat \ {0} /\ Chains(buckets, capacity) BY DEF Fits, TableFits
<1>2. CASE put_new(k, v)
  <2>1. PICK cap, i, b : cap = capacity /\ i = IndexOf(k) /\ b = buckets OBVIOUS
  <2>2. Find(k) = NULL /\ HasRoom /\ Push(k, v, i, b) /\ capacity' = cap
    BY <1>2, <2>1 DEF put_new
  <2>3. i \in 0 .. cap - 1 BY <2>1, IndexOfTypes
  <2>4. k \notin exposed => i = Index(k, cap) BY <2>1, IndexOfValid DEF KeyInv
  <2>5. PlacedIn(b, cap) BY <2>1 DEF KeyInv, Placed, PlacedIn
  <2>6. cap \in Nat \ {0} /\ Chains(b, cap) /\ InBuckets(b) = InBuckets(buckets) BY <1>1, <2>1
  <2>7. \A j, l \in Keys : Index(j, cap) = Index(l, cap) => Index(j, capacity) = Index(l, capacity)
    BY <2>1
  <2>8. QED BY <2>2, <2>3, <2>4, <2>5, <2>6, <2>7, KeyInvPush
<1>3. CASE put_rehash(k, v)
  <2>1. PICK cap, i, b : cap = 2 * capacity /\ i = Index(k, cap) /\ b = Rehashed OBVIOUS
  <2>2. Find(k) = NULL /\ HasRoom /\ Push(k, v, i, b) /\ capacity' = cap
    BY <1>3, <2>1 DEF put_rehash
  <2>3. cap \in Nat \ {0} BY <1>1, <2>1
  <2>4. i \in 0 .. cap - 1 BY <2>1, <2>3, IndexTypes DEF Fits, KeysFit
  <2>5. Moved(b) /\ InBuckets(b) = InBuckets(buckets) BY <2>1, RehashIs
  <2>6. Chains(b, cap) /\ PlacedIn(b, cap) BY <2>1, <2>5 DEF Moved, PlacedIn
  <2>7. \A j, l \in Keys : Index(j, cap) = Index(l, cap) => Index(j, capacity) = Index(l, capacity)
    <3> SUFFICES ASSUME NEW j \in Keys, NEW l \in Keys, Index(j, cap) = Index(l, cap)
                 PROVE  Index(j, capacity) = Index(l, capacity)
      OBVIOUS
    <3>1. PICK m : m = capacity OBVIOUS
    <3>2. m \in Nat \ {0} /\ content \in [Keys -> Contents] BY <1>1, <3>1 DEF Fits, KeysFit
    <3>3. Index(j, m) \in 0 .. m - 1 /\ Index(l, m) \in 0 .. m - 1 BY <3>2, IndexTypes
    <3>4. /\ Index(j, 2 * m) \in {Index(j, m), Index(j, m) + m}
          /\ Index(l, 2 * m) \in {Index(l, m), Index(l, m) + m}
      BY <3>2, IndexDoubles
    <3>5. Index(j, 2 * m) = Index(l, 2 * m) BY <2>1, <3>1
    <3>6. QED BY <3>1, <3>2, <3>3, <3>4, <3>5
  <2>8. QED BY <2>1, <2>2, <2>3, <2>4, <2>5, <2>6, <2>7, KeyInvPush
<1>4. QED BY <1>2, <1>3

(* The key that is modified is no longer of interest.                        *)
LEMMA KeyInvModify ==
  ASSUME Fits, KeyInv, CacheInv', NEW k \in Keys, NEW c \in Variants[k], modify(k, c)
  PROVE  KeyInv'
<1>1. /\ test \in IdentityTests /\ content' = [content EXCEPT ![k] = c]
      /\ exposed' = exposed \cup {k} /\ stored' = [stored EXCEPT ![k] = UNKNOWN]
      /\ UNCHANGED <<test, capacity, buckets, value>>
  BY DEF modify, table, shape
<1>2. content \in [Keys -> Contents] /\ c \in Contents /\ Variants[k] # {}
  BY HashAssumption DEF Fits, KeysFit
<1>3. \A j \in Keys : PlaceOf(j)' = PlaceOf(j)
  <2> SUFFICES ASSUME NEW j \in Keys PROVE PlaceOf(j)' = PlaceOf(j) OBVIOUS
  <2>1. CASE j = k
    <3>1. PlaceOf(k) = k BY <1>1, <1>2, OwnPlace DEF Fits
    <3>2. content'[k] = c BY <1>1, <1>2
    <3>3. Class[test][k][c] = k BY <1>1, <1>2, IdentityAssumption
    <3>4. QED BY <1>1, <2>1, <3>1, <3>2, <3>3 DEF PlaceOf
  <2>2. CASE j # k BY <1>1, <1>2, <2>2 DEF PlaceOf
  <2>3. QED BY <2>1, <2>2
<1>4. InBuckets(buckets)' = InBuckets(buckets) BY <1>1 DEF InBuckets
<1>5. \A j, l \in Keys : Same(j, l)' <=> Same(j, l) BY <1>3 DEF Same
<1>6. \A j \in Keys : j # k => HashOf(j)' = HashOf(j)
  <2> SUFFICES ASSUME NEW j \in Keys, j # k PROVE HashOf(j)' = HashOf(j) OBVIOUS
  <2>1. content'[j] = content[j] BY <1>1, <1>2
  <2>2. QED BY <1>1, <2>1 DEF HashOf
<1>7. \A j \in Keys : j # k => Index(j, capacity)' = Index(j, capacity) BY <1>1, <1>6 DEF Index
<1>8. \A x \in InBuckets(buckets) : KeyOf(x) \in Keys BY EntryKeys
<1>9. \A j : j \notin exposed' <=> j \notin exposed /\ j # k BY <1>1
<1>10. Placed'
  <2> SUFFICES ASSUME NEW i, NEW x, In(buckets, i, x), KeyOf(x) \notin exposed'
               PROVE  i = Index(KeyOf(x), capacity)'
    BY <1>1 DEF Placed, In, At
  <2>1. KeyOf(x) \notin exposed /\ KeyOf(x) # k BY <1>1
  <2>2. x \in InBuckets(buckets) BY InBucketsIs
  <2>3. QED BY <1>7, <1>8, <2>1, <2>2 DEF KeyInv, Placed
<1>11. Unique'
  <2> SUFFICES ASSUME NEW x \in InBuckets(buckets), NEW y \in InBuckets(buckets),
                      Twins(x, y, capacity)'
               PROVE  x = y
    BY <1>4 DEF Unique
  <2>1. /\ KeyOf(x) \notin exposed' /\ KeyOf(y) \notin exposed' /\ Same(KeyOf(x), KeyOf(y))'
        /\ Index(KeyOf(x), capacity)' = Index(KeyOf(y), capacity)'
    BY DEF Twins
  <2>2. Twins(x, y, capacity) BY <1>5, <1>7, <1>8, <1>9, <2>1 DEF Twins
  <2>3. QED BY <2>2 DEF KeyInv, Unique
<1>12. ASSUME NEW j \in Sound' PROVE j \in Sound /\ j # k
  <2>1. j \in Keys /\ j \notin exposed' /\ Compatible(j)' BY <1>12 DEF Sound
  <2>2. j \notin exposed /\ j # k BY <1>9, <2>1
  <2>3. \A l \in Keys : Same(l, j) => HashOf(l) = HashOf(j)
    <3> SUFFICES ASSUME NEW l \in Keys, Same(l, j) PROVE HashOf(l) = HashOf(j) OBVIOUS
    <3>1. l # k
      <4>1. PlaceOf(k) = k BY <1>1, <1>2, OwnPlace DEF Fits
      <4>2. PlaceOf(j) \in {j} \cup Contents BY <1>1, <2>1, OwnPlace DEF Fits
      <4>3. QED BY <2>2, <4>1, <4>2, HashAssumption DEF Same
    <3>2. HashOf(l)' = HashOf(j)' BY <1>5, <2>1 DEF Compatible
    <3>3. QED BY <1>6, <2>1, <2>2, <3>1, <3>2
  <2>4. QED BY <2>1, <2>2, <2>3 DEF Sound, Compatible
<1>13. StoredFits'
  <2> SUFFICES ASSUME NEW j \in Sound'
               PROVE  /\ \A x \in InBuckets(buckets) : Same(j, KeyOf(x))' => value[x] = stored'[PlaceOf(j)']
                      /\ (\A x \in InBuckets(buckets) : ~Same(j, KeyOf(x))')
                           => stored'[PlaceOf(j)'] = ABSENT
    BY <1>1, <1>4 DEF StoredFits
  <2>1. j \in Sound /\ j \in Keys /\ j # k BY <1>12 DEF Sound
  <2>2. PlaceOf(j)' = PlaceOf(j) BY <1>3, <2>1
  <2>3. PlaceOf(j) # k BY <1>1, <2>1, OwnPlace, HashAssumption DEF Fits
  <2>4. PlaceOf(j) \in Places BY <2>1, PlaceTypes DEF Fits
  <2>5. stored'[PlaceOf(j)] = stored[PlaceOf(j)] BY <1>1, <2>3, <2>4 DEF Fits, StoredTypes
  <2>6. \A x \in InBuckets(buckets) : Same(j, KeyOf(x))' <=> Same(j, KeyOf(x)) BY <1>5, <1>8, <2>1
  <2>7. QED BY <2>1, <2>2, <2>5, <2>6 DEF KeyInv, StoredFits
<1>14. QED BY <1>10, <1>11, <1>13 DEF KeyInv

(* A new table satisfies KeyInv.                                             *)
LEMMA KeyInvInit ==
  ASSUME Init
  PROVE  KeyInv
<1>1. Fits BY FitsInit
<1>2. InBuckets(buckets) = {} /\ \A i, x : ~In(buckets, i, x)
  <2>1. capacity \in Nat BY <1>1 DEF Fits, TableFits
  <2>2. QED BY <2>1, EmptyChains DEF Init
<1>3. CacheInv BY HashAssumption DEF Init, CacheInv, CacheTypes, CacheValid, NoCache
<1>4. StoredFits
  <2>1. \A k \in Keys : PlaceOf(k) \in Places BY <1>1, PlaceTypes DEF Fits
  <2>2. QED BY <1>2, <2>1 DEF StoredFits, Sound, Init
<1>5. QED BY <1>2, <1>3, <1>4 DEF KeyInv, Placed, Unique

(* Every step keeps KeyInv.                                                  *)
LEMMA KeyInvStep ==
  ASSUME Fits, KeyInv, [Next]_vars
  PROVE  KeyInv'
<1>1. CacheInv' BY CacheStep DEF KeyInv
<1>2. ASSUME NEW k \in Keys, get(k) PROVE KeyInv'
  BY <1>1, <1>2, KeyInvFrame DEF get, table, shape, keys
<1>3. ASSUME NEW k \in Keys, remove(k) PROVE KeyInv' BY <1>1, <1>3, KeyInvRemove
<1>4. ASSUME NEW k \in Keys, NEW v \in Values, put_replace(k, v) PROVE KeyInv'
  BY <1>1, <1>4, KeyInvReplace
<1>5. ASSUME NEW k \in Keys, NEW v \in Values, put_new(k, v) \/ put_rehash(k, v) PROVE KeyInv'
  BY <1>1, <1>5, KeyInvPut
<1>6. ASSUME NEW k \in Keys, NEW c \in Variants[k], modify(k, c) PROVE KeyInv'
  BY <1>1, <1>6, KeyInvModify
<1>7. CASE clear BY <1>1, <1>7, KeyInvClear
<1>8. ASSUME NEW at, Visit(at), tame' \in BOOLEAN,
             at = FirstBelow(capacity) \/ (walk # NoWalk /\ at = NextVisit)
      PROVE  KeyInv'
  <2>1. \A x \in InBuckets(buckets) : value'[x] = value[x] BY <1>8, FitsVisit
  <2>2. UNCHANGED <<test, content, exposed, capacity, buckets, stored>>
    BY <1>8 DEF Visit, shape, keys
  <2>3. QED BY <1>1, <2>1, <2>2, KeyInvFrame
<1>9. CASE maphash_start
  <2>1. Visit(FirstBelow(capacity)) /\ tame' \in BOOLEAN BY <1>9 DEF maphash_start
  <2>2. QED BY <1>8, <2>1
<1>10. CASE maphash_visit
  <2>1. walk # NoWalk /\ Visit(NextVisit) /\ tame' \in BOOLEAN
    BY <1>10 DEF maphash_visit, Fits, WalkFits
  <2>2. QED BY <1>8, <2>1
<1>11. CASE maphash_end \/ maphash_exit
  <2>1. EndWalk BY <1>11 DEF maphash_end, maphash_exit
  <2>2. \A x \in InBuckets(buckets) : value'[x] = value[x] BY <2>1, FitsEnd
  <2>3. UNCHANGED <<test, content, exposed, capacity, buckets, stored>>
    BY <2>1 DEF EndWalk, shape, keys
  <2>4. QED BY <1>1, <2>2, <2>3, KeyInvFrame
<1>12. CASE UNCHANGED vars
  BY <1>1, <1>12, KeyInvFrame DEF vars, table, shape, keys
<1>13. QED
  BY <1>2, <1>3, <1>4, <1>5, <1>6, <1>7, <1>9, <1>10, <1>11, <1>12, Zenon DEF Next

(* Both invariants hold in every state.                                      *)
LEMMA KeyInvAlways == Spec => [](Fits /\ KeyInv)
<1>1. Init => KeyInv BY KeyInvInit
<1>2. Fits /\ KeyInv /\ [Next]_vars => KeyInv' BY KeyInvStep
<1>3. QED BY <1>1, <1>2, FitsAlways, PTL DEF Spec

(* An entry is in the bucket where its key is looked for, no chain has two   *)
(* entries for one key, nor has the table if the key's hash agrees with the  *)
(* test, in every state.                                                     *)
THEOREM KeysHaveOneEntry == Spec => []OneEntryPerKey
<1>1. ASSUME Fits, KeyInv PROVE OneEntryPerKey
  <2> SUFFICES ASSUME NEW i \in DOMAIN buckets, NEW e \in Range(buckets[i]),
                      KeyOf(e) \notin exposed
               PROVE  /\ Index(KeyOf(e), capacity) = i
                      /\ \A f \in InBuckets(buckets) :
                           /\ Same(KeyOf(e), KeyOf(f))
                           /\ f \in Range(buckets[i]) \/ Compatible(KeyOf(e))
                           => e = f
    BY DEF OneEntryPerKey
  <2>1. In(buckets, i, e) /\ \A f \in Range(buckets[i]) : In(buckets, i, f) BY RangeIs
  <2>2. Index(KeyOf(e), capacity) = i BY <1>1, <2>1 DEF KeyInv, Placed
  <2>3. e \in InBuckets(buckets) BY <2>1, InBucketsIs
  <2>4. ASSUME NEW f \in InBuckets(buckets), Same(KeyOf(e), KeyOf(f)),
               f \in Range(buckets[i]) \/ Compatible(KeyOf(e))
        PROVE  e = f
    <3>1. KeyOf(e) \in Keys /\ KeyOf(f) \in Keys BY <1>1, <2>3, <2>4, EntryKeys
    <3>2. KeyOf(f) \notin exposed BY <1>1, <2>4, <3>1, SameExposed DEF Fits
    <3>3. Index(KeyOf(f), capacity) = i
      <4>1. CASE f \in Range(buckets[i]) BY <1>1, <2>1, <3>2, <4>1 DEF KeyInv, Placed
      <4>2. CASE Compatible(KeyOf(e)) BY <2>2, <2>4, <3>1, <4>2, SameIndex
      <4>3. QED BY <2>4, <4>1, <4>2
    <3>4. Twins(e, f, capacity) BY <2>2, <2>4, <3>2, <3>3 DEF Twins
    <3>5. QED BY <1>1, <2>3, <3>4 DEF KeyInv, Unique
  <2>5. QED BY <2>2, <2>4
<1>2. Fits /\ KeyInv => OneEntryPerKey BY <1>1
<1>3. QED BY <1>2, KeyInvAlways, PTL

(* gethash() returns what was put last under the key, in every state, if the *)
(* key's hash agrees with the test.                                          *)
THEOREM GetReturnsWhatWasPut == Spec => []GetReturnsLastPut
<1>1. ASSUME Fits, KeyInv PROVE GetReturnsLastPut
  <2> SUFFICES ASSUME NEW k \in Keys \ exposed, Compatible(k)
               PROVE  stored[PlaceOf(k)] = IF Find(k) = NULL THEN ABSENT ELSE value[Find(k)]
    BY DEF GetReturnsLastPut
  <2>0. k \in Sound BY DEF Sound
  <2>1. CASE Find(k) = NULL
    <3>1. \A x \in InBuckets(buckets) : ~Same(k, KeyOf(x)) BY <1>1, <2>1, NotFound
    <3>2. QED BY <1>1, <2>0, <2>1, <3>1 DEF KeyInv, StoredFits
  <2>2. CASE Find(k) # NULL
    <3>1. Find(k) \in InBuckets(buckets) /\ Same(k, KeyOf(Find(k))) BY <1>1, <2>2, FindIs
    <3>2. QED BY <1>1, <2>0, <2>2, <3>1 DEF KeyInv, StoredFits
  <2>3. QED BY <2>1, <2>2
<1>2. Fits /\ KeyInv => GetReturnsLastPut BY <1>1
<1>3. QED BY <1>2, KeyInvAlways, PTL

-------------------------------------------------------------------------------
(* maphash() visits no entry twice.                                          *)

(* Neither x nor an entry after it has been visited.                         *)
Unseen(b, s, x) == x \notin s /\ \A y : Before(b, x, y) => y \notin s

(* Entry x is not in a bucket that maphash(), being at n, has still to do.   *)
AtOrAbove(b, n, x) == \A j : In(b, j, x) => j >= n

(* Following _next from a removed entry, one comes to an end.                *)
Ends(r) == \A S \in SUBSET DOMAIN r : S # {} => \E x \in S : r[x] \notin S

(* maphash() is at entry e of bucket n, has visited the entries in s, and    *)
(* has before it the entries after e and those that _next of removed entries *)
(* leads to.                                                                 *)
VisitFits(b, n, e, r, s) ==
  /\ \A x \in s : AtOrAbove(b, n, x)
  /\ \A y : Before(b, e, y) => y \notin s
  /\ \A x \in DOMAIN r : x # e => x \notin s
  /\ \A x \in DOMAIN r :
       r[x] \in InBuckets(b) => Unseen(b, s, r[x]) /\ AtOrAbove(b, n, r[x])
  /\ Ends(r)

VisitInv ==
  exposed = {} /\ walk # NoWalk => VisitFits(buckets, walk.i, walk.e, removed, seen)

(* put() pushes an entry f at the front of a chain.                          *)
LEMMA VisitPush ==
  ASSUME NEW b, NEW c, NEW cap, NEW i, NEW f, With(b, c, cap, i, f),
         NEW n, NEW e, NEW r, NEW s, VisitFits(b, n, e, r, s),
         f \notin s, f # e, \A x \in DOMAIN r : r[x] # f
  PROVE  VisitFits(c, n, e, r, s)
<1>1. \A j, x : x # f => (In(c, j, x) <=> In(b, j, x)) BY DEF With
<1>2. \A x, y : x # f => (Before(c, x, y) <=> Before(b, x, y)) BY DEF With
<1>3. \A x : x # f => (x \in InBuckets(c) <=> x \in InBuckets(b)) BY <1>1, InBucketsIs
<1>4. \A x : x # f => (AtOrAbove(c, n, x) <=> AtOrAbove(b, n, x)) BY <1>1 DEF AtOrAbove
<1>5. \A x : x # f => (Unseen(c, s, x) <=> Unseen(b, s, x)) BY <1>2 DEF Unseen
<1>6. \A x \in s : AtOrAbove(c, n, x) BY <1>4 DEF VisitFits
<1>7. \A y : Before(c, e, y) => y \notin s BY <1>2 DEF VisitFits
<1>8. \A x \in DOMAIN r :
        r[x] \in InBuckets(c) => Unseen(c, s, r[x]) /\ AtOrAbove(c, n, r[x])
  BY <1>3, <1>4, <1>5 DEF VisitFits
<1>9. QED BY <1>6, <1>7, <1>8 DEF VisitFits

(* Entries that the bigger table has in one chain have been in one chain, in *)
(* the same order, and do not come to buckets that are still to be done.     *)
LEMMA VisitRehash ==
  ASSUME Fits, KeyInv, exposed = {}, NEW c, Moved(c), InBuckets(c) = InBuckets(buckets),
         NEW n \in Nat, NEW e, NEW r, NEW s, VisitFits(buckets, n, e, r, s)
  PROVE  VisitFits(c, n, e, r, s)
<1>1. /\ capacity \in Nat \ {0} /\ Chains(buckets, capacity) /\ content \in [Keys -> Contents]
  BY DEF Fits, TableFits, KeysFit
<1>2. \A x \in InBuckets(buckets) :
        /\ Index(KeyOf(x), capacity) \in 0 .. capacity - 1
        /\ \/ Index(KeyOf(x), 2 * capacity) = Index(KeyOf(x), capacity)
           \/ Index(KeyOf(x), 2 * capacity) = Index(KeyOf(x), capacity) + capacity
  <2> TAKE x \in InBuckets(buckets)
  <2>1. KeyOf(x) \in Keys BY EntryKeys
  <2>2. QED BY <1>1, <2>1, IndexTypes, IndexDoubles
<1>3. \A x \in InBuckets(buckets) : In(buckets, Index(KeyOf(x), capacity), x)
  <2> TAKE x \in InBuckets(buckets)
  <2>1. PICK i : In(buckets, i, x) BY InBucketsIs
  <2>2. i = Index(KeyOf(x), capacity) BY <2>1 DEF KeyInv, Placed
  <2>3. QED BY <2>1, <2>2
<1>4. \A i, x : In(c, i, x) => x \in InBuckets(buckets) /\ i = Index(KeyOf(x), 2 * capacity)
  BY DEF Moved
<1>5. ASSUME NEW x, AtOrAbove(buckets, n, x) PROVE AtOrAbove(c, n, x)
  <2> SUFFICES ASSUME NEW j, In(c, j, x) PROVE j >= n BY DEF AtOrAbove
  <2>1. x \in InBuckets(buckets) /\ j = Index(KeyOf(x), 2 * capacity) BY <1>4
  <2>2. Index(KeyOf(x), capacity) >= n BY <1>3, <1>5, <2>1 DEF AtOrAbove
  <2>3. QED BY <1>1, <1>2, <2>1, <2>2
<1>6. ASSUME NEW x, NEW y, Before(c, x, y) PROVE Before(buckets, x, y)
  <2>1. Earlier(x, y) BY <1>6 DEF Moved
  <2>2. PICK j : In(c, j, x) /\ In(c, j, y) BY <1>6 DEF Before, In
  <2>3. /\ x \in InBuckets(buckets) /\ y \in InBuckets(buckets)
        /\ Index(KeyOf(x), 2 * capacity) = Index(KeyOf(y), 2 * capacity)
    BY <1>4, <2>2
  <2>4. PICK p, q : p = Index(KeyOf(x), capacity) /\ q = Index(KeyOf(y), capacity) OBVIOUS
  <2>5. p = q BY <1>1, <1>2, <2>3, <2>4
  <2>6. In(buckets, p, x) /\ In(buckets, p, y) BY <1>3, <2>3, <2>4, <2>5
  <2>7. QED BY <1>1, <2>1, <2>6, EarlierOrders
<1>7. \A x : Unseen(buckets, s, x) => Unseen(c, s, x) BY <1>6 DEF Unseen
<1>8. \A x \in s : AtOrAbove(c, n, x) BY <1>5 DEF VisitFits
<1>9. \A y : Before(c, e, y) => y \notin s BY <1>6 DEF VisitFits
<1>10. \A x \in DOMAIN r :
         r[x] \in InBuckets(c) => Unseen(c, s, r[x]) /\ AtOrAbove(c, n, r[x])
  BY <1>5, <1>7 DEF VisitFits
<1>11. QED BY <1>8, <1>9, <1>10 DEF VisitFits

(* A set of entries in the buckets has one that is the last of its chain.    *)
LEMMA LastOfChain ==
  ASSUME Fits, NEW G, G \subseteq InBuckets(buckets), G # {}
  PROVE  \E x \in G : Link(x) \notin G
<1>1. capacity \in Nat /\ Chains(buckets, capacity) BY DEF Fits, TableFits
<1>2. PICK g \in G : TRUE OBVIOUS
<1>3. PICK i, m : At(buckets, i, m, g) BY <1>2, InBucketsIs DEF In
<1>4. PICK N : N = Len(buckets[i]) OBVIOUS
<1>5. N \in Nat /\ \A p, x : At(buckets, i, p, x) => p \in 1 .. N BY <1>1, <1>3, <1>4, AtTypes
<1>6. PICK P : P = {p \in 1 .. N : \E x \in G : At(buckets, i, p, x)} OBVIOUS
<1>7. \A p, x : x \in G /\ At(buckets, i, p, x) => p \in P BY <1>5, <1>6
<1>8. P # {} BY <1>2, <1>3, <1>7
<1>9. PICK p \in P : \A q \in P : p >= q
  <2>1. P \subseteq 0 .. N BY <1>5, <1>6
  <2>2. Max(P) \in P /\ \A q \in P : Max(P) >= q BY <1>5, <1>8, <2>1, MaxIs
  <2>3. QED BY <2>2
<1>10. PICK x \in G : At(buckets, i, p, x) BY <1>6, <1>9
<1>11. ASSUME Link(x) \in G PROVE FALSE
  <2>1. x \in InBuckets(buckets) /\ Link(x) # NULL BY <1>10, <1>11, EntryKeys
  <2>2. Before(buckets, x, Link(x)) BY <1>1, <2>1, LinkIs
  <2>3. PICK j, k, l : At(buckets, j, k, x) /\ At(buckets, j, l, Link(x)) /\ k < l
    BY <2>2 DEF Before
  <2>4. j = i /\ k = p BY <1>1, <1>10, <2>3 DEF Chains, Once
  <2>5. l \in P BY <1>7, <1>11, <2>3, <2>4
  <2>6. p >= l /\ p \in Nat /\ l \in Nat BY <1>6, <1>9, <2>5
  <2>7. QED BY <2>3, <2>4, <2>6
<1>12. QED BY <1>10, <1>11

(* What maphash() has before it, being at x: the entries after x.            *)
Awaits(x, n, e) ==
  /\ x # e => x \notin seen
  /\ x \in InBuckets(buckets) =>
       AtOrAbove(buckets, n, x) /\ \A y : Before(buckets, x, y) => y \notin seen

(* The entry after one that maphash() awaits.                                *)
LEMMA AwaitsNext ==
  ASSUME Fits, NEW n, NEW e, VisitFits(buckets, n, e, removed, seen),
         NEW x \in DOMAIN value, Awaits(x, n, e)
  PROVE  /\ NextEntry(x) \in DOMAIN value => Awaits(NextEntry(x), n, e)
         /\ NextEntry(x) \in InBuckets(buckets) =>
              Unseen(buckets, seen, NextEntry(x)) /\ AtOrAbove(buckets, n, NextEntry(x))
<1>1. PICK z : z = NextEntry(x) OBVIOUS
<1>2. CASE x \in DOMAIN removed
  <2>1. z = removed[x] BY <1>1, <1>2 DEF NextEntry
  <2>2. z \in InBuckets(buckets) => Unseen(buckets, seen, z) /\ AtOrAbove(buckets, n, z)
    BY <1>2, <2>1 DEF VisitFits
  <2>3. ASSUME z \in DOMAIN value PROVE Awaits(z, n, e)
    <3>1. CASE z \in InBuckets(buckets) BY <2>2, <3>1 DEF Awaits, Unseen
    <3>2. CASE z \notin InBuckets(buckets)
      <4>1. z \in DOMAIN removed BY <2>3, <3>2 DEF Fits, HeapFits
      <4>2. QED BY <3>2, <4>1 DEF VisitFits, Awaits
    <3>3. QED BY <3>1, <3>2
  <2>4. QED BY <1>1, <2>2, <2>3
<1>3. CASE x \notin DOMAIN removed
  <2>1. x \in InBuckets(buckets) /\ z = Link(x) BY <1>1, <1>3 DEF NextEntry, Fits, HeapFits
  <2>2. capacity \in Nat /\ Chains(buckets, capacity) BY DEF Fits, TableFits
  <2>3. CASE z = NULL
    <3>1. z \notin DOMAIN value BY <2>3, HashAssumption DEF Fits, HeapFits
    <3>2. z \notin InBuckets(buckets) BY <3>1 DEF Fits, HeapFits
    <3>3. QED BY <1>1, <3>1, <3>2
  <2>4. CASE z # NULL
    <3>1. Before(buckets, x, z) BY <2>1, <2>2, <2>4, LinkIs
    <3>2. z \notin seen BY <2>1, <3>1 DEF Awaits
    <3>3. \A y : Before(buckets, z, y) => y \notin seen BY <2>1, <2>2, <3>1, BeforeIs DEF Awaits
    <3>4. AtOrAbove(buckets, n, z) BY <2>1, <2>2, <3>1, BeforeIs DEF Awaits, AtOrAbove
    <3>5. QED BY <1>1, <3>2, <3>3, <3>4 DEF Awaits, Unseen
  <2>5. QED BY <2>3, <2>4
<1>4. QED BY <1>2, <1>3

(* Entries leave the table, and maphash() has before it what it had.         *)
LEMMA VisitUnlink ==
  ASSUME Fits, NEW n, NEW e, e \in seen, VisitFits(buckets, n, e, removed, seen),
         NEW gone, gone \subseteq InBuckets(buckets),
         NEW b, InBuckets(b) = InBuckets(buckets) \ gone,
         \A j, x : In(b, j, x) => In(buckets, j, x),
         \A x, y : Before(b, x, y) => Before(buckets, x, y),
         NEW r, DOMAIN r = Held(e, NextOf(gone)), \A x \in DOMAIN r : r[x] = NextEntry(x),
         NEW s, s \subseteq seen
  PROVE  VisitFits(b, n, e, r, s)
<1>1. PICK R : R = NextOf(gone) OBVIOUS
<1>2. DOMAIN R = DOMAIN removed \cup gone /\ \A x \in DOMAIN R : R[x] = NextEntry(x)
  BY <1>1 DEF NextOf
<1>3. DOMAIN R \subseteq DOMAIN value BY <1>2 DEF Fits, HeapFits
<1>4. PICK S : S = {x \in DOMAIN R : Awaits(x, n, e)} OBVIOUS
<1>5. Closed(S, e, R)
  <2>1. S \subseteq DOMAIN R BY <1>4
  <2>2. Awaits(e, n, e) BY DEF VisitFits, Awaits
  <2>3. ASSUME NEW y \in S, R[y] \in DOMAIN R PROVE R[y] \in S
    <3>1. y \in DOMAIN value /\ Awaits(y, n, e) /\ R[y] = NextEntry(y) BY <1>2, <1>3, <1>4
    <3>2. R[y] \in DOMAIN value BY <1>3, <2>3
    <3>3. Awaits(R[y], n, e) BY <3>1, <3>2, AwaitsNext
    <3>4. QED BY <1>4, <2>3, <3>3
  <2>4. QED BY <1>4, <2>1, <2>2, <2>3 DEF Closed
<1>6. DOMAIN r \subseteq S BY <1>1, <1>5, HeldIs
<1>7. DOMAIN r \subseteq DOMAIN R /\ \A x \in DOMAIN r : x \in DOMAIN value /\ Awaits(x, n, e)
  BY <1>3, <1>4, <1>6
<1>8. \A x : AtOrAbove(buckets, n, x) => AtOrAbove(b, n, x) BY DEF AtOrAbove
<1>9. \A x : Unseen(buckets, seen, x) => Unseen(b, s, x) BY DEF Unseen
<1>10. \A x \in s : AtOrAbove(b, n, x) BY <1>8 DEF VisitFits
<1>11. \A y : Before(b, e, y) => y \notin s BY DEF VisitFits
<1>12. \A x \in DOMAIN r : x # e => x \notin s BY <1>7 DEF Awaits
<1>13. ASSUME NEW x \in DOMAIN r, r[x] \in InBuckets(b)
       PROVE  Unseen(b, s, r[x]) /\ AtOrAbove(b, n, r[x])
  <2>1. r[x] = NextEntry(x) /\ NextEntry(x) \in InBuckets(buckets) BY <1>13
  <2>2. x \in DOMAIN value /\ Awaits(x, n, e) BY <1>7
  <2>3. Unseen(buckets, seen, r[x]) /\ AtOrAbove(buckets, n, r[x]) BY <2>1, <2>2, AwaitsNext
  <2>4. QED BY <1>8, <1>9, <2>3
<1>14. Ends(r)
  <2> SUFFICES ASSUME NEW T \in SUBSET DOMAIN r, T # {} PROVE \E x \in T : r[x] \notin T
    BY DEF Ends
  <2>1. CASE T \cap gone = {}
    <3>1. T \in SUBSET DOMAIN removed BY <1>2, <1>7, <2>1
    <3>2. PICK x \in T : removed[x] \notin T BY <3>1 DEF VisitFits, Ends
    <3>3. r[x] = removed[x] BY <3>1, <3>2 DEF NextEntry
    <3>4. QED BY <3>2, <3>3
  <2>2. CASE T \cap gone # {}
    <3>1. PICK G : G = T \cap gone OBVIOUS
    <3>2. PICK x \in G : Link(x) \notin G BY <2>2, <3>1, LastOfChain
    <3>3. x \in T /\ x \in InBuckets(buckets) BY <3>1, <3>2
    <3>4. x \notin DOMAIN removed BY <3>3 DEF Fits, HeapFits
    <3>5. r[x] = Link(x) BY <3>3, <3>4 DEF NextEntry
    <3>6. ASSUME Link(x) \in T PROVE FALSE
      <4>1. Link(x) \in DOMAIN value /\ Link(x) \in DOMAIN R BY <1>3, <1>7, <3>6
      <4>2. Link(x) # NULL BY <4>1, HashAssumption DEF Fits, HeapFits
      <4>3. capacity \in Nat /\ Chains(buckets, capacity) BY DEF Fits, TableFits
      <4>4. Before(buckets, x, Link(x)) BY <3>3, <4>2, <4>3, LinkIs
      <4>5. Link(x) \in InBuckets(buckets) BY <4>3, <4>4, BeforeIs
      <4>6. Link(x) \notin DOMAIN removed BY <4>5 DEF Fits, HeapFits
      <4>7. QED BY <1>2, <3>1, <3>2, <3>6, <4>1, <4>6
    <3>7. QED BY <3>3, <3>5, <3>6
  <2>3. QED BY <2>1, <2>2
<1>15. QED BY <1>10, <1>11, <1>12, <1>13, <1>14 DEF VisitFits

(* From the entry after a removed one, maphash() does not come back to it.   *)
LEMMA NoWayBack ==
  ASSUME NEW r, Ends(r), NEW e \in DOMAIN r
  PROVE  e \notin Held(r[e], r)
<1>1. SUFFICES ASSUME e \in Held(r[e], r) PROVE FALSE OBVIOUS
<1>2. PICK S : S = {x \in DOMAIN r : e \in Held(x, r)} OBVIOUS
<1>3. r[e] \in DOMAIN r BY <1>1, HeldOfNone
<1>4. e \in Held(e, r) BY HeldIs DEF Closed
<1>5. S \in SUBSET DOMAIN r /\ S # {} BY <1>2, <1>4
<1>6. PICK x \in S : r[x] \notin S BY <1>5 DEF Ends
<1>7. x # e BY <1>1, <1>2, <1>3, <1>6
<1>8. x \in DOMAIN r /\ e \in Held(x, r) BY <1>2, <1>6
<1>9. PICK T : T = {x} \cup Held(r[x], r) OBVIOUS
<1>10. Closed(Held(r[x], r), r[x], r) BY HeldIs
<1>11. Closed(T, x, r)
  <2>1. T \subseteq DOMAIN r /\ x \in T BY <1>8, <1>9, <1>10 DEF Closed
  <2>2. ASSUME NEW y \in T, r[y] \in DOMAIN r PROVE r[y] \in T
    <3>1. CASE y = x BY <1>9, <1>10, <2>2, <3>1 DEF Closed
    <3>2. CASE y # x
      <4>1. y \in Held(r[x], r) BY <1>9, <3>2
      <4>2. r[y] \in Held(r[x], r) BY <1>10, <2>2, <4>1 DEF Closed
      <4>3. QED BY <1>9, <4>2
    <3>3. QED BY <3>1, <3>2
  <2>3. QED BY <2>1, <2>2 DEF Closed
<1>12. e \in T BY <1>8, <1>11, HeldIs
<1>13. e \in Held(r[x], r) BY <1>7, <1>9, <1>12
<1>14. r[x] \in DOMAIN r BY <1>13, HeldOfNone
<1>15. QED BY <1>2, <1>6, <1>13, <1>14

(* The entry that maphash() goes on with has not been visited.               *)
LEMMA VisitNext ==
  ASSUME Fits, walk # NoWalk, VisitFits(buckets, walk.i, walk.e, removed, seen),
         NEW at, at = NextVisit, at # NoWalk
  PROVE  /\ at.e \notin seen /\ at.e \in DOMAIN value
         /\ at.i \in Nat /\ walk.i \in Nat /\ at.i <= walk.i
         /\ AtOrAbove(buckets, at.i, at.e)
         /\ \A y : Before(buckets, at.e, y) => y \notin seen
         /\ at.e \in DOMAIN removed => walk.e \in DOMAIN removed /\ at.e = removed[walk.e]
<1>1. capacity \in Nat /\ Chains(buckets, capacity) BY DEF Fits, TableFits
<1>2. walk.e \in DOMAIN value /\ walk.i \in 0 .. capacity - 1 BY NextVisitIs
<1>3. PICK n, e, z : n = walk.i /\ e = walk.e /\ z = NextEntry(walk.e) OBVIOUS
<1>4. n \in Nat BY <1>1, <1>2, <1>3
<1>5. \A x : x \in DOMAIN value => (x \in InBuckets(buckets) <=> x \notin DOMAIN removed)
  BY DEF Fits, HeapFits
<1>6. CASE z # NULL
  <2>1. at.i = n /\ at.e = z BY <1>3, <1>6, NextVisitIs
  <2>2. z \in DOMAIN value BY <1>2, <1>3, <1>6, NextEntryTypes
  <2>3. Awaits(e, n, e)
    <3>1. e \in seen BY <1>3 DEF Fits, WalkFits
    <3>2. QED BY <1>3, <3>1 DEF VisitFits, Awaits
  <2>4. CASE z \in InBuckets(buckets)
    <3>1. Unseen(buckets, seen, z) /\ AtOrAbove(buckets, n, z)
      BY <1>2, <1>3, <2>3, <2>4, AwaitsNext
    <3>2. z \notin DOMAIN removed BY <1>5, <2>2, <2>4
    <3>3. QED BY <1>3, <1>4, <2>1, <2>2, <3>1, <3>2 DEF Unseen
  <2>5. CASE z \notin InBuckets(buckets)
    <3>1. z \in DOMAIN removed BY <1>5, <2>2, <2>5
    <3>2. e \in DOMAIN removed
      <4>1. SUFFICES ASSUME e \notin DOMAIN removed PROVE FALSE OBVIOUS
      <4>2. e \in InBuckets(buckets) /\ z = Link(e) BY <1>2, <1>3, <1>5, <4>1 DEF NextEntry
      <4>3. Before(buckets, e, z) BY <1>1, <1>6, <4>2, LinkIs
      <4>4. QED BY <1>1, <2>5, <4>3, BeforeIs
    <3>3. z = removed[e] BY <1>3, <3>2 DEF NextEntry
    <3>4. z # e
      <4>1. Ends(removed) BY DEF VisitFits
      <4>2. e \notin Held(z, removed) BY <3>2, <3>3, <4>1, NoWayBack
      <4>3. z \in Held(z, removed) BY <3>1, HeldIs DEF Closed
      <4>4. QED BY <4>2, <4>3
    <3>5. z \notin seen BY <1>3, <3>1, <3>4 DEF VisitFits
    <3>6. \A j : ~In(buckets, j, z) BY <2>5, InBucketsIs
    <3>7. \A y : ~Before(buckets, z, y) BY <1>1, <2>5, BeforeIs
    <3>8. QED BY <1>3, <1>4, <2>1, <2>2, <3>2, <3>3, <3>5, <3>6, <3>7 DEF AtOrAbove
  <2>6. QED BY <2>4, <2>5
<1>7. CASE z = NULL
  <2>1. at = FirstBelow(n) /\ n \in 0 .. capacity BY <1>1, <1>2, <1>3, <1>7, NextVisitIs
  <2>2. /\ at \in [i : 0 .. capacity - 1, e : InBuckets(buckets)]
        /\ at.i < n /\ In(buckets, at.i, at.e)
    BY <2>1, FirstBelowIs
  <2>3. PICK m, f : m = at.i /\ f = at.e OBVIOUS
  <2>4. m \in Nat /\ m < n /\ m <= n /\ In(buckets, m, f) /\ f \in InBuckets(buckets)
    BY <1>1, <1>4, <2>2, <2>3
  <2>5. \A x : In(buckets, m, x) => x \notin seen
    <3> SUFFICES ASSUME NEW x, In(buckets, m, x), x \in seen PROVE FALSE OBVIOUS
    <3>1. m >= n BY <1>3 DEF VisitFits, AtOrAbove
    <3>2. QED BY <1>4, <2>4, <3>1
  <2>6. \A j : In(buckets, j, f) => j = m BY <1>1, <2>4 DEF Chains, Once, In
  <2>7. AtOrAbove(buckets, m, f) BY <2>4, <2>6 DEF AtOrAbove
  <2>8. \A y : Before(buckets, f, y) => y \notin seen BY <1>1, <2>4, <2>5, BeforeIs
  <2>9. f \in DOMAIN value /\ f \notin DOMAIN removed BY <2>4 DEF Fits, HeapFits
  <2>10. QED BY <1>3, <1>4, <2>3, <2>4, <2>5, <2>7, <2>8, <2>9
<1>8. QED BY <1>6, <1>7

(* What maphash() has before it when it has gone on.                         *)
LEMMA VisitAfter ==
  ASSUME Fits, walk # NoWalk, VisitFits(buckets, walk.i, walk.e, removed, seen),
         NEW at, at = NextVisit, at # NoWalk,
         NEW r, DOMAIN r = Held(at.e, removed), \A x \in DOMAIN r : r[x] = removed[x],
         NEW s, s \subseteq seen \cup {at.e}
  PROVE  VisitFits(buckets, at.i, at.e, r, s)
<1>1. PICK n, e, m, f : n = walk.i /\ e = walk.e /\ m = at.i /\ f = at.e OBVIOUS
<1>2. /\ f \notin seen /\ f \in DOMAIN value /\ m \in Nat /\ n \in Nat /\ m <= n
      /\ AtOrAbove(buckets, m, f)
      /\ \A y : Before(buckets, f, y) => y \notin seen
      /\ f \in DOMAIN removed => e \in DOMAIN removed /\ f = removed[e]
  BY <1>1, VisitNext
<1>3. VisitFits(buckets, n, e, removed, seen) BY <1>1
<1>4. capacity \in Nat /\ Chains(buckets, capacity) BY DEF Fits, TableFits
<1>5. ASSUME NEW x, AtOrAbove(buckets, n, x) PROVE AtOrAbove(buckets, m, x)
  <2> SUFFICES ASSUME NEW j, In(buckets, j, x) PROVE j >= m BY DEF AtOrAbove
  <2>1. j \in 0 .. capacity - 1 BY <1>4, InTypes
  <2>2. j >= n BY <1>5 DEF AtOrAbove
  <2>3. QED BY <1>2, <1>4, <2>1, <2>2
<1>6. \A x \in s : AtOrAbove(buckets, m, x) BY <1>1, <1>2, <1>3, <1>5 DEF VisitFits
<1>7. \A y : Before(buckets, f, y) => y \notin s
  <2>1. \A y : Before(buckets, f, y) => y # f BY <1>4, BeforeIs
  <2>2. QED BY <1>1, <1>2, <2>1
<1>8. Closed(DOMAIN r, f, removed) BY <1>1, HeldIs
<1>9. DOMAIN r \subseteq DOMAIN removed BY <1>8 DEF Closed
<1>10. ASSUME NEW x \in DOMAIN r
       PROVE  /\ f \in DOMAIN removed /\ f \notin InBuckets(buckets)
              /\ x # e
  <2>1. f \in DOMAIN removed BY <1>1, HeldOfNone
  <2>2. e \in DOMAIN removed /\ f = removed[e] BY <1>2, <2>1
  <2>3. e \notin DOMAIN r
    <3>1. Ends(removed) BY <1>3 DEF VisitFits
    <3>2. QED BY <1>1, <2>2, <3>1, NoWayBack
  <2>4. f \notin InBuckets(buckets) BY <2>1 DEF Fits, HeapFits
  <2>5. QED BY <2>1, <2>3, <2>4
<1>11. \A x \in DOMAIN r : x # f => x \notin s BY <1>1, <1>3, <1>9, <1>10 DEF VisitFits
<1>12. ASSUME NEW x \in DOMAIN r, r[x] \in InBuckets(buckets)
       PROVE  Unseen(buckets, s, r[x]) /\ AtOrAbove(buckets, m, r[x])
  <2>1. PICK y : y = r[x] OBVIOUS
  <2>2. y = removed[x] /\ y \in InBuckets(buckets) BY <1>12, <2>1
  <2>3. Unseen(buckets, seen, y) /\ AtOrAbove(buckets, n, y) BY <1>3, <1>9, <2>2 DEF VisitFits
  <2>4. f \notin InBuckets(buckets) BY <1>10
  <2>5. y # f /\ \A w : Before(buckets, y, w) => w # f BY <1>4, <2>2, <2>4, BeforeIs
  <2>6. Unseen(buckets, s, y) BY <1>1, <2>3, <2>5 DEF Unseen
  <2>7. QED BY <1>5, <2>1, <2>3, <2>6
<1>13. Ends(r)
  <2>1. Ends(removed) BY <1>3 DEF VisitFits
  <2> SUFFICES ASSUME NEW T \in SUBSET DOMAIN r, T # {} PROVE \E x \in T : r[x] \notin T
    BY DEF Ends
  <2>2. PICK x \in T : removed[x] \notin T BY <1>9, <2>1 DEF Ends
  <2>3. QED BY <2>2
<1>14. VisitFits(buckets, m, f, r, s) BY <1>6, <1>7, <1>11, <1>12, <1>13 DEF VisitFits
<1>15. QED BY <1>1, <1>14

(* The first entry that maphash() visits.                                    *)
LEMMA VisitFirst ==
  ASSUME Fits, walk = NoWalk, NEW at, at = FirstBelow(capacity), at # NoWalk,
         NEW r, DOMAIN r = Held(at.e, removed), NEW s, s \subseteq seen \cup {at.e}
  PROVE  VisitFits(buckets, at.i, at.e, r, s)
<1>1. capacity \in Nat /\ Chains(buckets, capacity) BY DEF Fits, TableFits
<1>2. seen = {} /\ DOMAIN removed = {} BY DEF Fits, WalkFits
<1>3. PICK m, f : m = at.i /\ f = at.e OBVIOUS
<1>4. m \in Nat /\ In(buckets, m, f)
  <2>1. capacity \in 0 .. capacity BY <1>1
  <2>2. at \in [i : 0 .. capacity - 1, e : InBuckets(buckets)] /\ In(buckets, at.i, at.e)
    BY <2>1, FirstBelowIs
  <2>3. QED BY <1>1, <1>3, <2>2
<1>5. \A j : In(buckets, j, f) => j = m BY <1>1, <1>4 DEF Chains, Once, In
<1>6. AtOrAbove(buckets, m, f) BY <1>4, <1>5 DEF AtOrAbove
<1>7. DOMAIN r = {}
  <2>1. at.e \notin DOMAIN removed BY <1>2
  <2>2. QED BY <2>1, HeldOfNone
<1>8. \A y : Before(buckets, f, y) => y # f BY <1>1, BeforeIs
<1>9. Ends(r) BY <1>7 DEF Ends
<1>10. VisitFits(buckets, m, f, r, s) BY <1>2, <1>3, <1>6, <1>7, <1>8, <1>9 DEF VisitFits
<1>11. QED BY <1>3, <1>10

(* VisitInv for the next state.                                              *)
LEMMA VisitInvPrimed ==
  ASSUME NEW b, b = buckets', NEW n, n = walk'.i, NEW e, e = walk'.e, NEW r, r = removed',
         NEW s, s = seen', exposed' = {} /\ walk' # NoWalk => VisitFits(b, n, e, r, s)
  PROVE  VisitInv'
<1>1. NoWalk' = NoWalk BY DEF NoWalk
<1>2. VisitFits(buckets, walk.i, walk.e, removed, seen)' <=> VisitFits(b, n, e, r, s)
  BY DEF VisitFits, AtOrAbove, Unseen, Ends, In, At, Before, InBuckets
<1>3. QED BY <1>1, <1>2 DEF VisitInv

(* put() of a new key keeps VisitInv, rehash or not.                         *)
LEMMA VisitInvPush ==
  ASSUME Fits, KeyInv, VisitInv, NEW k \in Keys, NEW v \in Values,
         put_new(k, v) \/ put_rehash(k, v)
  PROVE  VisitInv'
<1>1. capacity \in Nat \ {0} /\ Chains(buckets, capacity) BY DEF Fits, TableFits
<1>2. PICK cap, i, b : /\ HasRoom /\ Push(k, v, i, b)
                       /\ cap \in Nat \ {0} /\ i \in 0 .. cap - 1
                       /\ \/ cap = capacity /\ b = buckets
                          \/ cap = 2 * capacity /\ b = Rehashed
  <2>1. CASE put_new(k, v)
    <3>1. HasRoom /\ Push(k, v, IndexOf(k), buckets) BY <2>1 DEF put_new
    <3>2. IndexOf(k) \in 0 .. capacity - 1 BY IndexOfTypes
    <3>3. QED BY <1>1, <3>1, <3>2
  <2>2. CASE put_rehash(k, v)
    <3>1. HasRoom /\ Push(k, v, Index(k, 2 * capacity), Rehashed) BY <2>2 DEF put_rehash
    <3>2. 2 * capacity \in Nat \ {0} BY <1>1
    <3>3. Index(k, 2 * capacity) \in 0 .. 2 * capacity - 1 BY <3>2, IndexTypes DEF Fits, KeysFit
    <3>4. QED BY <3>1, <3>2, <3>3
  <2>3. QED BY <2>1, <2>2
<1>3. PICK f : Added(k, v, i, b, f) BY <1>2, PushIs
<1>4. PICK c : c = buckets' OBVIOUS
<1>5. f \in Entries /\ f \notin DOMAIN value /\ c = Pushed(b, i, f) BY <1>3, <1>4 DEF Added
<1>6. UNCHANGED <<exposed, walk, removed, seen>> BY <1>2 DEF Push, keys
<1>7. Chains(b, cap) /\ InBuckets(b) = InBuckets(buckets) BY <1>1, <1>2, RehashIs DEF Moved
<1>8. f \notin InBuckets(b) BY <1>5, <1>7 DEF Fits, HeapFits
<1>9. With(b, c, cap, i, f) BY <1>2, <1>5, <1>7, <1>8, PushedIs
<1>10. ASSUME exposed = {}, walk # NoWalk PROVE VisitFits(c, walk.i, walk.e, removed, seen)
  <2>1. PICK n, e, r, s : n = walk.i /\ e = walk.e /\ r = removed /\ s = seen OBVIOUS
  <2>2. VisitFits(buckets, n, e, r, s) BY <1>10, <2>1 DEF VisitInv
  <2>3. walk.e \in DOMAIN value /\ walk.i \in 0 .. capacity - 1 BY <1>10, NextVisitIs
  <2>4. n \in Nat BY <1>1, <2>1, <2>3
  <2>5. VisitFits(b, n, e, r, s)
    <3>1. CASE b = buckets BY <2>2, <3>1
    <3>2. CASE b = Rehashed
      <4>1. Moved(b) BY <3>2, RehashIs
      <4>2. QED BY <1>7, <1>10, <2>2, <2>4, <4>1, VisitRehash
    <3>3. QED BY <1>2, <3>1, <3>2
  <2>6. f \notin s /\ f # e BY <1>5, <2>1, <2>3 DEF Fits, HeapFits
  <2>7. \A x \in DOMAIN r : r[x] # f
    <3>1. f # NULL BY <1>5, HashAssumption
    <3>2. QED BY <1>5, <2>1, <3>1 DEF Fits, HeapFits
  <2>8. VisitFits(c, n, e, r, s) BY <1>9, <2>5, <2>6, <2>7, VisitPush
  <2>9. QED BY <2>1, <2>8
<1>11. QED BY <1>4, <1>6, <1>10, VisitInvPrimed

(* remove() and clear() keep VisitInv.                                       *)
LEMMA VisitInvUnlink ==
  ASSUME Fits, VisitInv, UNCHANGED <<exposed, walk>>,
         NEW gone, gone \subseteq InBuckets(buckets), NEW b, Unlink(b, gone),
         InBuckets(b) = InBuckets(buckets) \ gone,
         \A j, x : In(b, j, x) => In(buckets, j, x),
         \A x, y : Before(b, x, y) => Before(buckets, x, y)
  PROVE  VisitInv'
<1>1. PICK r, s : r = removed' /\ s = seen' OBVIOUS
<1>2. /\ DOMAIN r = Held(walk.e, NextOf(gone))
      /\ \A x \in DOMAIN r : r[x] = NextEntry(x)
      /\ s \subseteq seen
  BY <1>1, UnlinkKeeps
<1>3. b = buckets' BY DEF Unlink
<1>4. ASSUME exposed = {}, walk # NoWalk PROVE VisitFits(b, walk.i, walk.e, r, s)
  <2>1. PICK n, e : n = walk.i /\ e = walk.e OBVIOUS
  <2>2. VisitFits(buckets, n, e, removed, seen) BY <1>4, <2>1 DEF VisitInv
  <2>3. e \in seen BY <1>4, <2>1 DEF Fits, WalkFits
  <2>4. DOMAIN r = Held(e, NextOf(gone)) BY <1>2, <2>1
  <2>5. VisitFits(b, n, e, r, s) BY <1>2, <2>2, <2>3, <2>4, VisitUnlink
  <2>6. QED BY <2>1, <2>5
<1>5. QED BY <1>1, <1>3, <1>4, VisitInvPrimed

(* A visit of maphash() keeps VisitInv.                                      *)
LEMMA VisitInvVisit ==
  ASSUME Fits, VisitInv, NEW at, Visit(at), tame' \in BOOLEAN,
         (walk = NoWalk /\ at = FirstBelow(capacity)) \/ (walk # NoWalk /\ at = NextVisit)
  PROVE  VisitInv'
<1>1. PICK r, s : r = removed' /\ s = seen' OBVIOUS
<1>2. at # NoWalk /\ walk' = at /\ UNCHANGED <<buckets, exposed>> BY DEF Visit, keys
<1>3. /\ DOMAIN r = Held(at.e, removed) /\ \A x \in DOMAIN r : r[x] = removed[x]
      /\ s \subseteq seen \cup {at.e}
  BY <1>1, FitsVisit
<1>4. ASSUME exposed = {} PROVE VisitFits(buckets, at.i, at.e, r, s)
  <2>1. CASE walk = NoWalk /\ at = FirstBelow(capacity) BY <1>2, <1>3, <2>1, VisitFirst
  <2>2. CASE walk # NoWalk /\ at = NextVisit
    <3>1. VisitFits(buckets, walk.i, walk.e, removed, seen) BY <1>4, <2>2 DEF VisitInv
    <3>2. QED BY <1>2, <1>3, <2>2, <3>1, VisitAfter
  <2>3. QED BY <2>1, <2>2
<1>5. QED BY <1>1, <1>2, <1>4, VisitInvPrimed

(* Every step keeps VisitInv.                                                *)
LEMMA VisitInvStep ==
  ASSUME Fits, KeyInv, VisitInv, [Next]_vars
  PROVE  VisitInv'
<1>1. ASSUME UNCHANGED <<buckets, exposed, walk, removed, seen>> PROVE VisitInv'
  BY <1>1, VisitInvPrimed DEF VisitInv
<1>2. ASSUME NEW k \in Keys, get(k) PROVE VisitInv'
  BY <1>1, <1>2 DEF get, table, keys, mapping
<1>3. ASSUME NEW k \in Keys, remove(k) PROVE VisitInv'
  <2>1. PICK e, c : e = Find(k) /\ c = buckets' OBVIOUS
  <2>2. /\ {e} \subseteq InBuckets(buckets) /\ Without(buckets, c, capacity, e)
        /\ InBuckets(c) = InBuckets(buckets) \ {e} /\ Unlink(c, {e})
    BY <1>3, <2>1, RemoveIs
  <2>3. UNCHANGED <<exposed, walk>> BY <1>3 DEF remove, keys
  <2>4. /\ \A j, x : In(c, j, x) => In(buckets, j, x)
        /\ \A x, y : Before(c, x, y) => Before(buckets, x, y)
    BY <2>2 DEF Without
  <2>5. QED BY <2>2, <2>3, <2>4, VisitInvUnlink
<1>4. ASSUME NEW k \in Keys, NEW v \in Values, put_replace(k, v) PROVE VisitInv'
  BY <1>1, <1>4 DEF put_replace, keys
<1>5. ASSUME NEW k \in Keys, NEW v \in Values, put_new(k, v) \/ put_rehash(k, v) PROVE VisitInv'
  BY <1>5, VisitInvPush
<1>6. ASSUME NEW k \in Keys, NEW c \in Variants[k], modify(k, c) PROVE VisitInv'
  <2>1. exposed' # {} BY <1>6 DEF modify
  <2>2. QED BY <2>1 DEF VisitInv
<1>7. CASE clear
  <2>1. PICK c : c = buckets' OBVIOUS
  <2>2. capacity \in Nat /\ DOMAIN buckets = 0 .. capacity - 1 BY DEF Fits, TableFits, Chains
  <2>3. c = [i \in 0 .. capacity - 1 |-> << >>] /\ Unlink(c, InBuckets(buckets))
        /\ UNCHANGED <<exposed, walk>>
    BY <1>7, <2>1, <2>2 DEF clear, Unlink, keys
  <2>4. InBuckets(c) = {} /\ (\A i, x : ~In(c, i, x)) /\ (\A x, y : ~Before(c, x, y))
    BY <2>2, <2>3, EmptyChains
  <2>5. PICK G : G = InBuckets(buckets) OBVIOUS
  <2>6. G \subseteq InBuckets(buckets) /\ InBuckets(c) = InBuckets(buckets) \ G /\ Unlink(c, G)
    BY <2>3, <2>4, <2>5
  <2>7. QED BY <2>3, <2>4, <2>6, VisitInvUnlink
<1>8. CASE maphash_start
  <2>1. walk = NoWalk /\ Visit(FirstBelow(capacity)) /\ tame' \in BOOLEAN
    BY <1>8 DEF maphash_start
  <2>2. QED BY <2>1, VisitInvVisit
<1>9. CASE maphash_visit
  <2>1. walk # NoWalk /\ Visit(NextVisit) /\ tame' \in BOOLEAN
    BY <1>9 DEF maphash_visit, Fits, WalkFits
  <2>2. QED BY <2>1, VisitInvVisit
<1>10. CASE maphash_end \/ maphash_exit
  <2>1. walk' = NoWalk BY <1>10 DEF maphash_end, maphash_exit, EndWalk
  <2>2. NoWalk' = NoWalk BY DEF NoWalk
  <2>3. QED BY <2>1, <2>2 DEF VisitInv
<1>11. CASE UNCHANGED vars BY <1>1, <1>11 DEF vars, table, keys, mapping
<1>12. QED
  BY <1>2, <1>3, <1>4, <1>5, <1>6, <1>7, <1>8, <1>9, <1>10, <1>11, Zenon DEF Next

(* maphash() visits no entry twice, whatever the function that it calls adds *)
(* and removes, also through a rehash, as long as no key is modified.        *)
THEOREM EntriesAreVisitedOnce == Spec => VisitedOnce
<1>1. Init => VisitInv BY DEF Init, VisitInv
<1>2. Fits /\ KeyInv /\ VisitInv /\ [Next]_vars => VisitInv' BY VisitInvStep
<1>3. ASSUME Fits, VisitInv, maphash_visit, exposed = {} PROVE walk'.e \notin seen
  <2>1. walk # NoWalk /\ NextVisit # NoWalk /\ walk' = NextVisit
    BY <1>3 DEF maphash_visit, Visit
  <2>2. VisitFits(buckets, walk.i, walk.e, removed, seen) BY <1>3, <2>1 DEF VisitInv
  <2>3. QED BY <1>3, <2>1, <2>2, VisitNext
<1>4. Fits /\ VisitInv => [maphash_visit /\ exposed = {} => walk'.e \notin seen]_vars BY <1>3
<1>5. QED BY <1>1, <1>2, <1>4, KeyInvAlways, PTL DEF Spec, VisitedOnce

-------------------------------------------------------------------------------
(* A maphash() whose function does what the language allows is complete.     *)

(* Of the entries, maphash() has visited those that are not in a bucket      *)
(* below n, after e, or at or after the _next of e when e has been removed.  *)
TameFits(b, n, e, r, s) ==
  /\ DOMAIN r \subseteq {e}
  /\ e \in DOMAIN r => r[e] # e
  /\ \A j : In(b, j, e) => j = n
  /\ \A j : e \in DOMAIN r /\ In(b, j, r[e]) => j = n
  /\ \A j, y : In(b, j, y) =>
       \/ j < n \/ y \in s \/ Before(b, e, y)
       \/ e \in DOMAIN r /\ (y = r[e] \/ Before(b, r[e], y))

TameInv == tame /\ walk # NoWalk => TameFits(buckets, walk.i, walk.e, removed, seen)

(* TameInv after a step, from TameFits for the new values of the variables.  *)
LEMMA TameInvPrimed ==
  ASSUME NEW b, b = buckets', NEW n, n = walk'.i, NEW e, e = walk'.e, NEW r, r = removed',
         NEW s, s = seen', tame' /\ walk' # NoWalk => TameFits(b, n, e, r, s)
  PROVE  TameInv'
<1>1. NoWalk' = NoWalk BY DEF NoWalk
<1>2. TameFits(buckets, walk.i, walk.e, removed, seen)' <=> TameFits(b, n, e, r, s)
  BY DEF TameFits, In, At, Before
<1>3. QED BY <1>1, <1>2 DEF TameInv

(* maphash() has come to the first entry of the buckets below n.             *)
LEMMA TameBelow ==
  ASSUME Fits, NEW n \in 0 .. capacity, NEW at, at = FirstBelow(n), at # NoWalk,
         \A j, y : In(buckets, j, y) => j < n \/ y \in seen,
         NEW r, DOMAIN r = {},
         NEW s, at.e \in s, seen \cap InBuckets(buckets) \subseteq s
  PROVE  TameFits(buckets, at.i, at.e, r, s)
<1>1. capacity \in Nat /\ Chains(buckets, capacity) BY DEF Fits, TableFits
<1>2. PICK m, f : m = at.i /\ f = at.e OBVIOUS
<1>3. /\ m \in 0 .. capacity - 1 /\ m < n /\ In(buckets, m, f)
      /\ \A x : ~Before(buckets, x, f)
      /\ \A j, x : m < j /\ j < n => ~In(buckets, j, x)
  <2>1. /\ at \in [i : 0 .. capacity - 1, e : InBuckets(buckets)]
        /\ at.i < n /\ In(buckets, at.i, at.e)
        /\ \A x : ~Before(buckets, x, at.e)
        /\ \A j, x : at.i < j /\ j < n => ~In(buckets, j, x)
    BY FirstBelowIs
  <2>2. QED BY <1>2, <2>1
<1>4. \A j : In(buckets, j, f) => j = m BY <1>1, <1>3 DEF Chains, Once, In
<1>5. ASSUME NEW j, NEW y, In(buckets, j, y) PROVE j < m \/ y \in s \/ Before(buckets, f, y)
  <2>1. j \in 0 .. capacity - 1 /\ y \in InBuckets(buckets) BY <1>1, <1>5, InTypes
  <2>2. CASE j = m
    <3>1. CASE y = f BY <1>2, <3>1
    <3>2. CASE y # f
      <4>1. Before(buckets, f, y) \/ Before(buckets, y, f)
        BY <1>1, <1>3, <1>5, <2>2, <3>2, ChainIsTotal
      <4>2. QED BY <1>3, <4>1
    <3>3. QED BY <3>1, <3>2
  <2>3. CASE ~(j < n) BY <1>5, <2>1, <2>3
  <2>4. CASE j < n /\ j # m
    <3>1. ~(m < j) BY <1>3, <1>5, <2>4
    <3>2. j < m BY <1>1, <1>3, <2>1, <2>4, <3>1
    <3>3. QED BY <3>2
  <2>5. QED BY <2>2, <2>3, <2>4
<1>6. TameFits(buckets, m, f, r, s) BY <1>4, <1>5 DEF TameFits
<1>7. QED BY <1>2, <1>6

(* At the end of a chain only the buckets below are left.                    *)
LEMMA TameRest ==
  ASSUME Fits, walk # NoWalk, NEW n, TameFits(buckets, n, walk.e, removed, seen),
         NextEntry(walk.e) = NULL
  PROVE  \A j, y : In(buckets, j, y) => j < n \/ y \in seen
<1>1. capacity \in Nat /\ Chains(buckets, capacity) BY DEF Fits, TableFits
<1>2. PICK e : e = walk.e OBVIOUS
<1>3. e \in DOMAIN value BY <1>2, NextVisitIs
<1>4. ASSUME NEW y, Before(buckets, e, y) PROVE FALSE
  <2>1. e \in InBuckets(buckets) BY <1>1, <1>4, BeforeIs
  <2>2. Link(e) = NULL BY <1>2, <2>1 DEF NextEntry, Fits, HeapFits
  <2>3. QED BY <1>1, <1>4, <2>1, <2>2, LinkIs
<1>5. ASSUME NEW j, NEW y, In(buckets, j, y), e \in DOMAIN removed,
             y = removed[e] \/ Before(buckets, removed[e], y)
      PROVE  FALSE
  <2>1. removed[e] = NULL BY <1>2, <1>5 DEF NextEntry
  <2>2. NULL \notin InBuckets(buckets) BY EntryKeys
  <2>3. y \in InBuckets(buckets) BY <1>5, InBucketsIs
  <2>4. QED BY <1>1, <1>5, <2>1, <2>2, <2>3, BeforeIs
<1>6. QED BY <1>2, <1>4, <1>5 DEF TameFits

(* maphash() goes on in the chain.                                           *)
LEMMA TameNext ==
  ASSUME Fits, walk # NoWalk, NEW n, TameFits(buckets, n, walk.e, removed, seen),
         NEW z, z = NextEntry(walk.e), z # NULL,
         NEW r, DOMAIN r = Held(z, removed),
         NEW s, z \in s, seen \cap InBuckets(buckets) \subseteq s
  PROVE  TameFits(buckets, n, z, r, s)
<1>1. capacity \in Nat /\ Chains(buckets, capacity) BY DEF Fits, TableFits
<1>2. PICK e : e = walk.e OBVIOUS
<1>3. e \in DOMAIN value BY <1>2, NextVisitIs
<1>4. z \in DOMAIN value BY <1>2, <1>3, NextEntryTypes
<1>5. /\ z \in InBuckets(buckets) /\ z \notin DOMAIN removed
      /\ \A j : In(buckets, j, z) => j = n
      /\ \A y : Before(buckets, e, y) => y = z \/ Before(buckets, z, y)
      /\ e \in DOMAIN removed => z = removed[e]
  <2>1. CASE e \in DOMAIN removed
    <3>1. z = removed[e] BY <1>2, <2>1 DEF NextEntry
    <3>2. z \notin DOMAIN removed BY <1>2, <2>1, <3>1 DEF TameFits
    <3>3. z \in InBuckets(buckets) BY <1>4, <3>2 DEF Fits, HeapFits
    <3>4. e \notin InBuckets(buckets) BY <2>1 DEF Fits, HeapFits
    <3>5. \A y : ~Before(buckets, e, y) BY <1>1, <3>4, BeforeIs
    <3>6. QED BY <1>2, <2>1, <3>1, <3>2, <3>3, <3>5 DEF TameFits
  <2>2. CASE e \notin DOMAIN removed
    <3>1. e \in InBuckets(buckets) /\ z = Link(e) BY <1>2, <1>3, <2>2 DEF NextEntry, Fits, HeapFits
    <3>2. /\ Before(buckets, e, z)
          /\ \A y : Before(buckets, e, y) => y = z \/ Before(buckets, z, y)
      BY <1>1, <3>1, LinkIs
    <3>3. z \in InBuckets(buckets) /\ \A j : In(buckets, j, z) => In(buckets, j, e)
      BY <1>1, <3>2, BeforeIs
    <3>4. z \notin DOMAIN removed BY <3>3 DEF Fits, HeapFits
    <3>5. QED BY <1>2, <2>2, <3>2, <3>3, <3>4 DEF TameFits
  <2>3. QED BY <2>1, <2>2
<1>6. DOMAIN r = {} BY <1>5, HeldOfNone
<1>7. ASSUME NEW j, NEW y, In(buckets, j, y) PROVE j < n \/ y \in s \/ Before(buckets, z, y)
  <2>1. y \in InBuckets(buckets) BY <1>7, InBucketsIs
  <2>2. \/ j < n \/ y \in seen \/ Before(buckets, e, y)
        \/ e \in DOMAIN removed /\ (y = removed[e] \/ Before(buckets, removed[e], y))
    BY <1>2, <1>7 DEF TameFits
  <2>3. QED BY <1>5, <2>1, <2>2
<1>8. QED BY <1>5, <1>6, <1>7 DEF TameFits

(* The function removes the current entry.                                   *)
LEMMA TameRemove ==
  ASSUME Fits, NEW n, NEW e, TameFits(buckets, n, e, removed, seen), e \in InBuckets(buckets),
         NEW c, Without(buckets, c, capacity, e), InBuckets(c) = InBuckets(buckets) \ {e},
         NEW r, DOMAIN r = Held(e, NextOf({e})), \A x \in DOMAIN r : r[x] = NextEntry(x),
         NEW s, seen \cap InBuckets(c) \subseteq s
  PROVE  TameFits(c, n, e, r, s)
<1>1. capacity \in Nat /\ Chains(buckets, capacity) BY DEF Fits, TableFits
<1>2. PICK R : R = NextOf({e}) OBVIOUS
<1>3. e \notin DOMAIN removed BY DEF Fits, HeapFits
<1>4. DOMAIN R = {e} BY <1>2, <1>3 DEF NextOf, TameFits
<1>5. Closed(DOMAIN r, e, R) BY <1>2, HeldIs
<1>6. DOMAIN r = {e} BY <1>4, <1>5 DEF Closed
<1>7. PICK z : z = Link(e) OBVIOUS
<1>8. r[e] = z BY <1>3, <1>6, <1>7 DEF NextEntry
<1>9. \/ z = NULL /\ \A y : ~Before(buckets, e, y)
      \/ /\ Before(buckets, e, z)
         /\ \A y : Before(buckets, e, y) => y = z \/ Before(buckets, z, y)
  BY <1>1, <1>7, LinkIs
<1>10. z # e
  <2>1. e # NULL BY EntryKeys
  <2>2. QED BY <1>1, <1>9, <2>1, BeforeIs
<1>11. \A j : ~In(c, j, e) BY DEF Without
<1>12. ASSUME NEW j, In(c, j, z) PROVE j = n
  <2>1. In(buckets, j, z) BY <1>12 DEF Without
  <2>2. z # NULL BY <1>1, <2>1, InTypes
  <2>3. In(buckets, j, e) BY <1>1, <1>9, <2>1, <2>2, BeforeIs
  <2>4. QED BY <2>3 DEF TameFits
<1>13. ASSUME NEW j, NEW y, In(c, j, y)
       PROVE  j < n \/ y \in s \/ y = z \/ Before(c, z, y)
  <2>1. In(buckets, j, y) /\ y # e BY <1>13 DEF Without
  <2>2. y \in InBuckets(c) BY <1>13, InBucketsIs
  <2>3. j < n \/ y \in seen \/ Before(buckets, e, y) BY <1>3, <2>1 DEF TameFits
  <2>4. Before(buckets, e, y) => y = z \/ Before(buckets, z, y) BY <1>9
  <2>5. Before(buckets, z, y) => Before(c, z, y) BY <1>10, <2>1 DEF Without
  <2>6. QED BY <2>2, <2>3, <2>4, <2>5
<1>14. QED BY <1>6, <1>8, <1>10, <1>11, <1>12, <1>13 DEF TameFits

(* A visit of maphash() keeps TameInv.                                       *)
LEMMA TameInvVisit ==
  ASSUME Fits, TameInv, NEW at, Visit(at), tame' \in BOOLEAN,
         \/ walk = NoWalk /\ at = FirstBelow(capacity)
         \/ walk # NoWalk /\ at = NextVisit /\ tame' = tame
  PROVE  TameInv'
<1>1. PICK r, s : r = removed' /\ s = seen' OBVIOUS
<1>2. at # NoWalk /\ walk' = at /\ buckets' = buckets BY DEF Visit
<1>3. /\ DOMAIN r = Held(at.e, removed)
      /\ at.e \in s /\ seen \cap InBuckets(buckets) \subseteq s
  BY <1>1, FitsVisit
<1>4. capacity \in Nat /\ Chains(buckets, capacity) BY DEF Fits, TableFits
<1>5. ASSUME NEW n \in 0 .. capacity, at = FirstBelow(n),
             \A j, y : In(buckets, j, y) => j < n \/ y \in seen
      PROVE  TameFits(buckets, at.i, at.e, r, s)
  <2>1. at.e \in InBuckets(buckets) BY <1>2, <1>5, FirstBelowIs
  <2>2. at.e \notin DOMAIN removed BY <2>1 DEF Fits, HeapFits
  <2>3. DOMAIN r = {} BY <1>3, <2>2, HeldOfNone
  <2>4. QED BY <1>2, <1>3, <1>5, <2>3, TameBelow
<1>6. ASSUME tame' PROVE TameFits(buckets, at.i, at.e, r, s)
  <2>1. CASE walk = NoWalk /\ at = FirstBelow(capacity)
    <3>1. capacity \in 0 .. capacity BY <1>4
    <3>2. \A j, y : In(buckets, j, y) => j < capacity
      <4> SUFFICES ASSUME NEW j, NEW y, In(buckets, j, y) PROVE j < capacity OBVIOUS
      <4>1. j \in 0 .. capacity - 1 BY <1>4, InTypes
      <4>2. QED BY <1>4, <4>1
    <3>3. QED BY <1>5, <2>1, <3>1, <3>2
  <2>2. CASE walk # NoWalk /\ at = NextVisit /\ tame' = tame
    <3>1. PICK n, z : n = walk.i /\ z = NextEntry(walk.e) OBVIOUS
    <3>2. TameFits(buckets, n, walk.e, removed, seen) BY <1>6, <2>2, <3>1 DEF TameInv
    <3>3. CASE z # NULL
      <4>1. at.i = n /\ at.e = z BY <2>2, <3>1, <3>3, NextVisitIs
      <4>2. TameFits(buckets, n, z, r, s) BY <1>3, <2>2, <3>1, <3>2, <3>3, <4>1, TameNext
      <4>3. QED BY <4>1, <4>2
    <3>4. CASE z = NULL
      <4>1. at = FirstBelow(n) /\ n \in 0 .. capacity - 1 BY <2>2, <3>1, <3>4, NextVisitIs
      <4>2. n \in 0 .. capacity BY <1>4, <4>1
      <4>3. \A j, y : In(buckets, j, y) => j < n \/ y \in seen
        BY <2>2, <3>1, <3>2, <3>4, TameRest
      <4>4. QED BY <1>5, <4>1, <4>2, <4>3
    <3>5. QED BY <3>3, <3>4
  <2>3. QED BY <2>1, <2>2
<1>7. QED BY <1>1, <1>2, <1>6, TameInvPrimed

(* Every step keeps TameInv.                                                 *)
LEMMA TameInvStep ==
  ASSUME Fits, TameInv, [Next]_vars
  PROVE  TameInv'
<1>1. ASSUME UNCHANGED <<buckets, walk, removed, seen>>, tame' => tame PROVE TameInv'
  BY <1>1, TameInvPrimed DEF TameInv
<1>2. ASSUME tame' = FALSE PROVE TameInv' BY <1>2 DEF TameInv
<1>3. ASSUME NEW k \in Keys, get(k) PROVE TameInv' BY <1>1, <1>3 DEF get, table, mapping
<1>4. ASSUME NEW k \in Keys, remove(k) PROVE TameInv'
  <2>1. PICK e, c, r, s : e = Find(k) /\ c = buckets' /\ r = removed' /\ s = seen' OBVIOUS
  <2>2. /\ e \in InBuckets(buckets) /\ Without(buckets, c, capacity, e)
        /\ InBuckets(c) = InBuckets(buckets) \ {e} /\ Unlink(c, {e})
    BY <1>4, <2>1, RemoveIs
  <2>3. {e} \subseteq InBuckets(buckets) BY <2>2
  <2>4. /\ DOMAIN r = Held(walk.e, NextOf({e})) /\ \A x \in DOMAIN r : r[x] = NextEntry(x)
        /\ seen \cap InBuckets(c) \subseteq s
    BY <2>1, <2>2, <2>3, UnlinkKeeps
  <2>5. walk' = walk /\ (tame' => tame /\ e = walk.e) BY <1>4, <2>1 DEF remove, Touch
  <2>6. ASSUME tame', walk # NoWalk PROVE TameFits(c, walk.i, walk.e, r, s)
    <3>1. PICK n : n = walk.i OBVIOUS
    <3>2. TameFits(buckets, n, e, removed, seen) /\ e = walk.e BY <2>5, <2>6, <3>1 DEF TameInv
    <3>3. TameFits(c, n, e, r, s) BY <2>2, <2>4, <3>2, TameRemove
    <3>4. QED BY <3>1, <3>2, <3>3
  <2>7. QED BY <2>1, <2>5, <2>6, TameInvPrimed
<1>5. ASSUME NEW k \in Keys, NEW v \in Values, put_replace(k, v) PROVE TameInv'
  BY <1>1, <1>5 DEF put_replace, Touch
<1>6. ASSUME NEW k \in Keys, NEW v \in Values, put_new(k, v) \/ put_rehash(k, v) PROVE TameInv'
  BY <1>2, <1>6 DEF put_new, put_rehash, Push
<1>7. ASSUME NEW k \in Keys, NEW c \in Variants[k], modify(k, c) PROVE TameInv'
  BY <1>1, <1>7 DEF modify, table, mapping
<1>8. CASE clear BY <1>2, <1>8 DEF clear
<1>9. CASE maphash_start
  <2>1. walk = NoWalk /\ Visit(FirstBelow(capacity)) /\ tame' \in BOOLEAN
    BY <1>9 DEF maphash_start
  <2>2. QED BY <2>1, TameInvVisit
<1>10. CASE maphash_visit
  <2>1. walk # NoWalk /\ Visit(NextVisit) /\ tame' = tame /\ tame' \in BOOLEAN
    BY <1>10 DEF maphash_visit, Fits, WalkFits
  <2>2. QED BY <2>1, TameInvVisit
<1>11. CASE maphash_end \/ maphash_exit
  BY <1>2, <1>11 DEF maphash_end, maphash_exit, EndWalk
<1>12. CASE UNCHANGED vars BY <1>1, <1>12 DEF vars, table, mapping
<1>13. QED
  BY <1>3, <1>4, <1>5, <1>6, <1>7, <1>8, <1>9, <1>10, <1>11, <1>12, Zenon DEF Next

(* A maphash() whose function only changes or removes the current entry has  *)
(* visited all entries that are in the table when it ends.                   *)
THEOREM MaphashIsComplete == Spec => MaphashComplete
<1>1. Init => TameInv BY DEF Init, TameInv
<1>2. Fits /\ TameInv /\ [Next]_vars => TameInv' BY TameInvStep
<1>3. ASSUME Fits, TameInv, maphash_end, tame PROVE InBuckets(buckets) \subseteq seen
  <2>1. walk # NoWalk /\ NextVisit = NoWalk BY <1>3 DEF maphash_end
  <2>2. PICK n : n = walk.i OBVIOUS
  <2>3. TameFits(buckets, n, walk.e, removed, seen) BY <1>3, <2>1, <2>2 DEF TameInv
  <2>4. NextEntry(walk.e) = NULL BY <1>3, <2>1, NextVisitIs
  <2>5. FirstBelow(n) = NoWalk /\ n \in 0 .. capacity - 1 BY <1>3, <2>1, <2>2, <2>4, NextVisitIs
  <2>6. n \in 0 .. capacity
    <3>1. capacity \in Nat BY <1>3 DEF Fits, TableFits
    <3>2. QED BY <2>5, <3>1
  <2>7. \A j, x : j < n => ~In(buckets, j, x) BY <1>3, <2>5, <2>6, FirstBelowIs
  <2>8. \A j, y : In(buckets, j, y) => j < n \/ y \in seen BY <1>3, <2>1, <2>3, <2>4, TameRest
  <2>9. \A j, y : In(buckets, j, y) => y \in seen BY <2>7, <2>8
  <2>10. QED BY <2>9, InBucketsIs
<1>4. Fits /\ TameInv => [maphash_end /\ tame => InBuckets(buckets) \subseteq seen]_vars BY <1>3
<1>5. QED BY <1>1, <1>2, <1>4, FitsAlways, PTL DEF Spec, MaphashComplete

=============================================================================
