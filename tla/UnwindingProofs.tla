--------------------------- MODULE UnwindingProofs ---------------------------
(***************************************************************************)
(* Proofs, for any forms, names, sizes of the pool and depths, about the   *)
(* non-local exits of a program that makes none from a cleanup form above  *)
(* which a frame has been released, and none past a form of the same name. *)
(***************************************************************************)
EXTENDS Unwinding, FiniteSetTheorems, SequenceTheorems, WellFoundedInduction, TLAPS

------------------------------------------------------------------------------
(* The invariant.                                                            *)

Tag == [name : Names, tagbody : Nat]

FrameRecord ==
  [type : AllKinds \cup {"PRIMORDIAL"}, name : Names \cup {NULL}, next : Nat, last : Nat,
   tags : Seq(Tag), jmp : Nat, forms : Nat]

FormRecord ==
  [kind : AllKinds \cup {"cleanup"}, frame : Nat, tags : Seq(Tag), started : Nat]

UnwindRecord ==
  [kind : {"unwind"}, target : Int, first : Nat, f : Nat, next : Nat, low : Nat,
   cleaning : {"no", "forms", "code"}]

StackTypes ==
  /\ frames \in Seq(FrameRecord)
  /\ pool \in Seq(DOMAIN frames)
  /\ last \in Nat
  /\ last_tag \in Seq(Tag)
  /\ cstack \in Seq(FormRecord \cup UnwindRecord)

(* The unwinding r has not come to the frame of the form k, or is there and  *)
(* has not finished with it.                                                 *)
Ahead(k, r) ==
  LET u == cstack[r] IN
  k < u.low \/ (k = u.low /\ u.f = cstack[k].frame /\ u.cleaning # "code")

(* The forms whose frames are in the chain: the established ones, and the    *)
(* unwind-protect forms whose cleanup forms are being run.                   *)
Linked ==
  {k \in DOMAIN cstack : cstack[k].kind \in AllKinds /\ \A r \in Unwinds : k < r => Ahead(k, r)}

(* g is the frame of the innermost of the forms L before activation n.      *)
InnermostOf(L, c, g, n) ==
  \/ g = NULL /\ \A m \in L : n <= m
  \/ \E k \in L : k < n /\ g = c[k].frame /\ \A m \in L : m < n => m <= k

Innermost(g, n) == InnermostOf(Linked, cstack, g, n)

(* The frame of a linked form is its own, and chained to the one before.     *)
FrameOK(k) ==
  LET g == cstack[k].frame IN
  /\ g \in DOMAIN frames
  /\ g \notin Range(pool)
  /\ frames[g].type = cstack[k].kind
  /\ frames[g].jmp = k
  /\ frames[g].next = frames[g].last
  /\ Innermost(frames[g].last, k)

FrameInv == \A k \in Linked : FrameOK(k)

(* An unwinding whose cleanup form or code can still return to it.           *)
Alive(r) == \A s \in Unwinds : r < s => r < cstack[s].low

(* Where such an unwinding is, and where it goes.                            *)
Position(r) ==
  LET u == cstack[r] IN
  /\ u.cleaning # "code" => Innermost(u.f, r)
  /\ u.cleaning = "code" => /\ Innermost(u.next, r)
                            /\ u.low \in 1 .. r - 1
                            /\ cstack[u.low].kind \in AllKinds
                            /\ u.next # cstack[u.low].frame
  /\ u.cleaning = "forms" => /\ u.low \in Linked
                             /\ u.low < r
                             /\ u.f = cstack[u.low].frame

Target(r) ==
  LET u == cstack[r] IN
  u.target = PRIMORDIAL \/
    \E k \in Linked : /\ k < r /\ u.target = cstack[k].frame
                      /\ cstack[k].kind \in AllKinds \ UwpKinds

(* It has not released a frame, or the first one is not linked any more.     *)
First(r) ==
  LET u == cstack[r] IN
  \/ u.cleaning # "code" /\ u.f = u.first
  \/ u.first # NULL /\ \A m \in Linked : m < r => cstack[m].frame # u.first

(* What is above it was begun by a cleanup form that was free to do so.      *)
Above(r) ==
  LET u == cstack[r] IN
  r < Len(cstack) => u.cleaning = "code" \/ (u.cleaning = "forms" /\ u.f = u.first)

UnwindInv ==
  \A r \in Unwinds : /\ cstack[r].low <= r
                     /\ Alive(r) => Position(r) /\ Target(r) /\ First(r) /\ Above(r)

(* _last_control_frame is right whenever a frame may be made.                *)
LastKnown ==
  \/ cstack = << >>
  \/ Top.kind # "unwind"
  \/ Top.cleaning = "code"
  \/ Top.f = Top.first

LastInv == LastKnown => Innermost(last, Len(cstack) + 1)

(* The cleanup forms of a linked form that are left are those that have not  *)
(* been started.                                                             *)
CleanupOK(k) ==
  /\ cstack[k].kind = "uwp_forms" =>
       cstack[k].started =
         IF k \in Linked THEN CleanupForms - frames[cstack[k].frame].forms ELSE CleanupForms
  /\ cstack[k].kind = "uwp_code" =>
       cstack[k].started = IF k \in Linked THEN 0 ELSE 1

CleanupInv == \A k \in DOMAIN cstack : CleanupOK(k)

PoolInv == IsInjective(pool) /\ Len(pool) < FRAME_POOL_SIZE

ExitInv ==
  /\ StackTypes
  /\ PoolInv
  /\ FrameInv
  /\ UnwindInv
  /\ LastInv
  /\ CleanupInv
  /\ ~trapped

(* s is the end of t.                                                        *)
EndOf(s, t) ==
  /\ Len(s) <= Len(t)
  /\ \A i \in 1 .. Len(s) : s[i] = t[Len(t) - Len(s) + i]

Bodies == {k \in Linked : cstack[k].kind \in TagbodyKinds}

(* The tags t are what is visible to activation n: they end with those of    *)
(* each of the bodies B before it and, if no exit is being made, they are    *)
(* those of the innermost one.                                               *)
VisibleTo(B, U, c, t, n) ==
  /\ \A b \in B : b < n => EndOf(c[b].tags, t)
  /\ (\A r \in U : n <= r) =>
       /\ (\A b \in B : n <= b) => t = << >>
       /\ \A b \in B :
            b < n /\ c[b].kind = "tagbody" /\ (\A i \in B : i < n => i <= b) => t = c[b].tags

Visible(t, n) == VisibleTo(Bodies, Unwinds, cstack, t, n)

(* A tagbody has one tag in front of those that were visible to it.          *)
BodyOK(k) ==
  cstack[k].kind \in TagbodyKinds =>
    \E n \in Names :
      cstack[k].tags = <<[name |-> n, tagbody |-> cstack[k].frame]>>
                         \o frames[cstack[k].frame].tags

TagsInv ==
  /\ \A k \in Linked : Visible(frames[cstack[k].frame].tags, k) /\ BodyOK(k)
  /\ Visible(last_tag, Len(cstack) + 1)

(* The binding index of a linked form is the number of let forms around it.  *)
MarkOK(k) ==
  LET n == marks[cstack[k].frame] IN
  /\ n \in 0 .. Len(lets)
  /\ \A i \in DOMAIN lets : i <= n <=> lets[i].depth < k

(* Every let form has its binding, and none is inside of what has been left. *)
LetInv ==
  /\ bindings = [i \in DOMAIN lets |-> i]
  /\ lets \in Seq([depth : Nat, mark : Nat])
  /\ \A i \in DOMAIN lets : lets[i].mark = i - 1 /\ lets[i].depth <= Len(cstack)
  /\ \A k \in Linked : MarkOK(k)

------------------------------------------------------------------------------
(* How the linked forms change.                                              *)

(* What is on the C stack.                                                   *)
LEMMA Activations ==
  ASSUME StackTypes
  PROVE  /\ Len(cstack) \in Nat
         /\ DOMAIN cstack = 1 .. Len(cstack)
         /\ Linked \subseteq 1 .. Len(cstack)
         /\ Unwinds \subseteq 1 .. Len(cstack)
         /\ \A r \in Unwinds : cstack[r] \in UnwindRecord
         /\ \A k \in 1 .. Len(cstack) : cstack[k].kind # "unwind" => cstack[k] \in FormRecord
         /\ \A k \in 1 .. Len(cstack) : cstack[k].kind \in AllKinds => cstack[k] \in FormRecord
<1>1. cstack \in Seq(FormRecord \cup UnwindRecord) BY DEF StackTypes
<1>2. Len(cstack) \in Nat /\ DOMAIN cstack = 1 .. Len(cstack) BY <1>1
<1>3. \A k \in 1 .. Len(cstack) : cstack[k] \in FormRecord \cup UnwindRecord BY <1>1, <1>2
<1>4. \A x \in UnwindRecord : x.kind = "unwind" BY DEF UnwindRecord
<1>5. \A x \in FormRecord : x.kind # "unwind" BY DEF FormRecord, AllKinds
<1>6. "unwind" \notin AllKinds BY DEF AllKinds
<1>7. QED BY <1>2, <1>3, <1>4, <1>5, <1>6 DEF Linked, Unwinds

(* A form is entered.                                                        *)
LEMMA LinkedEnter ==
  ASSUME StackTypes, NEW e \in FormRecord, e.kind \in AllKinds, cstack' = Append(cstack, e),
         NEW n \in Nat, n = Len(cstack)
  PROVE  /\ Linked' = Linked \cup {n + 1}
         /\ Unwinds' = Unwinds
<1>1. /\ n \in Nat /\ DOMAIN cstack = 1 .. n /\ DOMAIN cstack' = 1 .. n + 1
      /\ \A k \in 1 .. n : cstack'[k] = cstack[k]
      /\ cstack'[n + 1] = e
  BY DEF StackTypes
<1>2. Unwinds \subseteq 1 .. n /\ e.kind # "unwind" BY Activations DEF AllKinds
<1>3. Unwinds' = Unwinds BY <1>1, <1>2 DEF Unwinds
<1>4. \A k \in 1 .. n, r \in Unwinds : Ahead(k, r)' <=> Ahead(k, r) BY <1>1, <1>2 DEF Ahead
<1>5. \A k \in 1 .. n : k \in Linked' <=> k \in Linked BY <1>1, <1>3, <1>4 DEF Linked
<1>6. n + 1 \in Linked' BY <1>1, <1>2, <1>3 DEF Linked
<1>7. Linked \subseteq 1 .. n /\ Linked' \subseteq 1 .. n + 1 BY <1>1 DEF Linked
<1>8. \A k \in 1 .. n + 1 : k \in Linked' <=> k \in Linked \cup {n + 1} BY <1>5, <1>6, <1>7
<1>9. Linked \cup {n + 1} \subseteq 1 .. n + 1
  <2>1. 1 .. n \subseteq 1 .. n + 1 /\ n + 1 \in 1 .. n + 1 OBVIOUS
  <2>2. QED BY <1>7, <2>1, Zenon
<1>10. QED BY <1>3, <1>7, <1>8, <1>9, Zenon

(* An exit begins.                                                           *)
LEMMA LinkedExit ==
  ASSUME StackTypes, NEW u \in UnwindRecord, cstack' = Append(cstack, u),
         NEW n \in Nat, n = Len(cstack), u.low = n + 1
  PROVE  /\ Linked' = Linked
         /\ Unwinds' = Unwinds \cup {n + 1}
<1>1. /\ n \in Nat /\ DOMAIN cstack = 1 .. n /\ DOMAIN cstack' = 1 .. n + 1
      /\ \A k \in 1 .. n : cstack'[k] = cstack[k]
      /\ cstack'[n + 1] = u
  BY DEF StackTypes
<1>2. Unwinds \subseteq 1 .. n BY Activations
<1>3. u.kind = "unwind" /\ u.kind \notin AllKinds BY DEF AllKinds, UnwindRecord
<1>4. Unwinds' = Unwinds \cup {n + 1} BY <1>1, <1>3 DEF Unwinds
<1>5. \A k \in 1 .. n, r \in Unwinds : Ahead(k, r)' <=> Ahead(k, r) BY <1>1, <1>2 DEF Ahead
<1>6. \A k \in 1 .. n : Ahead(k, n + 1)' BY <1>1 DEF Ahead
<1>7. \A k \in 1 .. n : k \in Linked' <=> k \in Linked
  BY <1>1, <1>2, <1>4, <1>5, <1>6 DEF Linked
<1>8. n + 1 \notin Linked' BY <1>1, <1>3 DEF Linked
<1>9. Linked \subseteq 1 .. n /\ Linked' \subseteq 1 .. n + 1 BY <1>1 DEF Linked
<1>10. \A k \in 1 .. n + 1 : k \in Linked' <=> k \in Linked BY <1>7, <1>8, <1>9
<1>11. Linked \subseteq 1 .. n + 1 BY <1>9
<1>12. QED BY <1>4, <1>9, <1>10, <1>11, Zenon

(* The stack is cut above activation k, which no unwinding above has passed. *)
LEMMA LinkedCut ==
  ASSUME StackTypes, NEW k \in 0 .. Len(cstack), cstack' = SubSeq(cstack, 1, k),
         \A s \in Unwinds :
           k < s => (k < cstack[s].low \/ (k = cstack[s].low /\ k \in Linked))
  PROVE  /\ Len(cstack') = k
         /\ \A m \in 1 .. k : cstack'[m] = cstack[m]
         /\ Linked' = {m \in Linked : m <= k}
         /\ Unwinds' = {r \in Unwinds : r <= k}
         /\ \A r \in Unwinds' : Alive(r)' => Alive(r)
<1>1. /\ DOMAIN cstack' = 1 .. k /\ Len(cstack') = k
      /\ \A m \in 1 .. k : cstack'[m] = cstack[m]
  BY SubSeqProperties DEF StackTypes
<1>2. Unwinds \subseteq 1 .. Len(cstack) /\ DOMAIN cstack = 1 .. Len(cstack) /\ Len(cstack) \in Nat
  BY Activations
<1>3. Unwinds' = {r \in Unwinds : r <= k} BY <1>1, <1>2 DEF Unwinds
<1>4. \A r \in Unwinds : cstack[r].low \in Nat BY Activations DEF UnwindRecord
<1>5. \A m \in 1 .. k, r \in Unwinds' : m < r => (Ahead(m, r)' <=> Ahead(m, r))
  BY <1>1, <1>2, <1>3 DEF Ahead
<1>6. ASSUME NEW m \in 1 .. k, cstack[m].kind \in AllKinds, NEW r \in Unwinds, k < r
      PROVE  Ahead(m, r)
  <2>1. CASE k < cstack[r].low BY <1>4, <2>1 DEF Ahead
  <2>2. CASE k = cstack[r].low /\ k \in Linked
    <3>1. CASE m < k BY <1>4, <2>2, <3>1 DEF Ahead
    <3>2. CASE m = k BY <1>6, <2>2, <3>2 DEF Linked
    <3>3. QED BY <3>1, <3>2
  <2>3. QED BY <1>6, <2>1, <2>2
<1>7. \A m \in 1 .. k : m \in Linked' <=> m \in Linked
  BY <1>1, <1>2, <1>3, <1>5, <1>6 DEF Linked
<1>8. Linked' \subseteq 1 .. k /\ Linked \subseteq 1 .. Len(cstack) BY <1>1, <1>2 DEF Linked
<1>9. Linked' = {m \in Linked : m <= k}
  <2>1. \A m \in 1 .. Len(cstack) : m \in Linked' <=> m \in Linked /\ m <= k
    BY <1>2, <1>7, <1>8
  <2>2. Linked' \subseteq 1 .. Len(cstack) BY <1>2, <1>8
  <2>3. QED BY <1>8, <2>1, <2>2, Zenon
<1>10. ASSUME NEW r \in Unwinds', Alive(r)' PROVE Alive(r)
  <2>1. ASSUME NEW s \in Unwinds, r < s PROVE r < cstack[s].low
    <3>1. r \in 1 .. k /\ s \in Nat /\ r \in Unwinds BY <1>2, <1>3
    <3>2. CASE s <= k BY <1>1, <1>3, <1>10, <2>1, <3>1, <3>2, <1>2 DEF Alive
    <3>3. CASE k < s
      <4>1. k \in Linked => r # k BY <1>2 DEF Linked, Unwinds, AllKinds
      <4>2. QED BY <1>4, <3>1, <3>3, <4>1, <2>1
    <3>4. QED BY <3>1, <3>2, <3>3
  <2>2. QED BY <2>1 DEF Alive
<1>11. QED BY <1>1, <1>3, <1>9, <1>10

(* The unwinding on top moves: what else is on the stack stays, except for   *)
(* the count of the cleanup forms that were started.                         *)
TopMoves(n, u) ==
  /\ Len(cstack') = n /\ DOMAIN cstack' = 1 .. n
  /\ cstack'[n] = u
  /\ \A m \in 1 .. n : cstack'[m].kind = cstack[m].kind
  /\ \A m \in 1 .. n - 1 : cstack'[m].frame = cstack[m].frame
  /\ \A m \in 1 .. n - 1 : cstack[m].kind \notin UwpKinds => cstack'[m] = cstack[m]

(* Which forms the unwinding on top has ahead is all that changes.           *)
LEMMA LinkedTop ==
  ASSUME StackTypes, NEW n \in Nat, n = Len(cstack), n \in Unwinds,
         NEW u \in UnwindRecord, TopMoves(n, u)
  PROVE  /\ Unwinds' = Unwinds
         /\ Linked' \subseteq 1 .. n - 1 /\ Linked \subseteq 1 .. n - 1
         /\ \A k \in 1 .. n - 1, r \in Unwinds : r # n => (Ahead(k, r)' <=> Ahead(k, r))
         /\ \A k \in 1 .. n - 1 :
              k \in Linked' <=>
                /\ cstack[k].kind \in AllKinds
                /\ \A r \in Unwinds : k < r /\ r # n => Ahead(k, r)
                /\ Ahead(k, n)'
         /\ \A k \in 1 .. n - 1 :
              k \in Linked <=>
                /\ cstack[k].kind \in AllKinds
                /\ \A r \in Unwinds : k < r /\ r # n => Ahead(k, r)
                /\ Ahead(k, n)
<1>1. /\ DOMAIN cstack = 1 .. n /\ DOMAIN cstack' = 1 .. n /\ Unwinds \subseteq 1 .. n
      /\ \A m \in 1 .. n : cstack'[m].kind = cstack[m].kind
  BY Activations DEF TopMoves
<1>2. Unwinds' = Unwinds BY <1>1 DEF Unwinds
<1>3. cstack[n].kind = "unwind" /\ cstack'[n].kind = "unwind" /\ n \in 1 .. n BY <1>1 DEF Unwinds
<1>4. \A r \in Unwinds : r # n => r \in 1 .. n - 1 /\ cstack'[r] = cstack[r]
  BY <1>1 DEF TopMoves, Unwinds, UwpKinds
<1>5. \A k \in 1 .. n - 1, r \in Unwinds : r # n => (Ahead(k, r)' <=> Ahead(k, r))
  BY <1>4 DEF Ahead, TopMoves
<1>6. "unwind" \notin AllKinds BY DEF AllKinds
<1>7. Linked' \subseteq 1 .. n - 1 /\ Linked \subseteq 1 .. n - 1 BY <1>1, <1>3, <1>6 DEF Linked
<1>8. ASSUME NEW k \in 1 .. n - 1
      PROVE  k \in Linked <=>
                /\ cstack[k].kind \in AllKinds
                /\ \A r \in Unwinds : k < r /\ r # n => Ahead(k, r)
                /\ Ahead(k, n)
  <2>1. k \in Linked <=> /\ cstack[k].kind \in AllKinds
                         /\ \A r \in Unwinds : k < r => Ahead(k, r)
    <3>1. k \in DOMAIN cstack BY <1>1
    <3>2. QED BY <3>1, Zenon DEF Linked
  <2>2. n \in Unwinds /\ k < n BY <1>3
  <2>3. (\A r \in Unwinds : k < r => Ahead(k, r))
          <=> (\A r \in Unwinds : k < r /\ r # n => Ahead(k, r)) /\ Ahead(k, n)
    BY <2>2
  <2>4. QED BY <2>1, <2>3
<1>9. ASSUME NEW k \in 1 .. n - 1
      PROVE  k \in Linked' <=>
                /\ cstack[k].kind \in AllKinds
                /\ \A r \in Unwinds : k < r /\ r # n => Ahead(k, r)
                /\ Ahead(k, n)'
  <2>1. k \in Linked' <=> /\ cstack[k].kind \in AllKinds
                          /\ \A r \in Unwinds : k < r => Ahead(k, r)'
    BY <1>1, <1>2 DEF Linked
  <2>2. k < n BY <1>3
  <2>3. QED BY <1>5, <2>1, <2>2
<1>10. QED BY <1>2, <1>5, <1>7, <1>8, <1>9

(* The walk finishes with the innermost linked form p, or is still at it.    *)
LEMMA LinkedWalk ==
  ASSUME StackTypes, NEW n \in Nat, n = Len(cstack), n \in Unwinds,
         NEW u \in UnwindRecord, TopMoves(n, u),
         NEW p \in Linked, \A m \in Linked : m <= p, u.low = p
  PROVE  /\ u.f # cstack[p].frame \/ u.cleaning = "code" => Linked' = Linked \ {p}
         /\ u.f = cstack[p].frame /\ u.cleaning # "code" => Linked' = Linked
<1>1. /\ Linked' \subseteq 1 .. n - 1 /\ Linked \subseteq 1 .. n - 1
      /\ \A k \in 1 .. n - 1 :
           k \in Linked' <=>
             /\ cstack[k].kind \in AllKinds
             /\ \A r \in Unwinds : k < r /\ r # n => Ahead(k, r)
             /\ Ahead(k, n)'
      /\ \A k \in 1 .. n - 1 :
           k \in Linked <=>
             /\ cstack[k].kind \in AllKinds
             /\ \A r \in Unwinds : k < r /\ r # n => Ahead(k, r)
             /\ Ahead(k, n)
  BY LinkedTop
<1>2. p \in 1 .. n - 1 /\ Ahead(p, n) BY <1>1
<1>3. cstack[n].low \in Nat /\ p <= cstack[n].low BY <1>2, Activations DEF UnwindRecord, Ahead
<1>4. cstack'[n] = u /\ \A k \in 1 .. n - 1 : cstack'[k].frame = cstack[k].frame BY DEF TopMoves
<1>5. \A k \in 1 .. n - 1 :
        Ahead(k, n)' <=> k < p \/ (k = p /\ u.f = cstack[p].frame /\ u.cleaning # "code")
  BY <1>2, <1>4 DEF Ahead
<1>6. ASSUME NEW k \in 1 .. n - 1, k < p PROVE k \in Linked' <=> k \in Linked
  <2>1. Ahead(k, n) BY <1>2, <1>3, <1>6 DEF Ahead
  <2>2. QED BY <1>1, <1>2, <1>5, <1>6, <2>1
<1>7. ASSUME NEW k \in 1 .. n - 1, p < k PROVE k \notin Linked' /\ k \notin Linked
  BY <1>1, <1>2, <1>5, <1>7
<1>8. p \in Linked' <=> u.f = cstack[p].frame /\ u.cleaning # "code" BY <1>1, <1>2, <1>5
<1>9. CASE u.f = cstack[p].frame /\ u.cleaning # "code"
  <2>1. \A k \in 1 .. n - 1 : k \in Linked' <=> k \in Linked BY <1>2, <1>6, <1>7, <1>8, <1>9
  <2>2. QED BY <1>1, <1>9, <2>1, Zenon
<1>10. CASE ~(u.f = cstack[p].frame /\ u.cleaning # "code")
  <2>1. \A k \in 1 .. n - 1 : k \in Linked' <=> k \in Linked \ {p}
    BY <1>2, <1>6, <1>7, <1>8, <1>10
  <2>2. Linked \ {p} \subseteq 1 .. n - 1 BY <1>1
  <2>3. Linked' = Linked \ {p} BY <1>1, <2>1, <2>2, Zenon
  <2>4. QED BY <1>10, <2>3
<1>11. QED BY <1>9, <1>10

(* A cleanup form, or the code, returns to the unwinding on top.             *)
LEMMA LinkedReturn ==
  ASSUME StackTypes, NEW n \in Nat, n = Len(cstack), n \in Unwinds,
         NEW u \in UnwindRecord, TopMoves(n, u), u.low = cstack[n].low, u.cleaning # "code",
         \/ cstack[n].cleaning # "code" /\ u.f = cstack[n].f
         \/ cstack[n].cleaning = "code" /\ u.f # cstack[u.low].frame
  PROVE  Linked' = Linked
<1>1. /\ Linked' \subseteq 1 .. n - 1 /\ Linked \subseteq 1 .. n - 1
      /\ \A k \in 1 .. n - 1 :
           k \in Linked' <=>
             /\ cstack[k].kind \in AllKinds
             /\ \A r \in Unwinds : k < r /\ r # n => Ahead(k, r)
             /\ Ahead(k, n)'
      /\ \A k \in 1 .. n - 1 :
           k \in Linked <=>
             /\ cstack[k].kind \in AllKinds
             /\ \A r \in Unwinds : k < r /\ r # n => Ahead(k, r)
             /\ Ahead(k, n)
  BY LinkedTop
<1>2. cstack'[n] = u /\ \A k \in 1 .. n - 1 : cstack'[k].frame = cstack[k].frame BY DEF TopMoves
<1>3. \A k \in 1 .. n - 1 : Ahead(k, n)' <=> Ahead(k, n) BY <1>2 DEF Ahead
<1>4. \A k \in 1 .. n - 1 : k \in Linked' <=> k \in Linked BY <1>1, <1>3
<1>5. QED BY <1>1, <1>4, Zenon

(* The form on top becomes one whose cleanup forms run.                      *)
LEMMA LinkedCleanup ==
  ASSUME StackTypes, NEW n \in Nat, n = Len(cstack), n > 0, cstack[n].kind \in AllKinds,
         cstack' = [cstack EXCEPT ![n].kind = "cleanup"]
  PROVE  /\ Len(cstack') = n
         /\ \A m \in 1 .. n - 1 : cstack'[m] = cstack[m]
         /\ cstack'[n] \in FormRecord /\ cstack'[n].kind = "cleanup"
         /\ Linked' = Linked \ {n}
         /\ Unwinds' = Unwinds
<1>1. DOMAIN cstack = 1 .. n /\ cstack[n] \in FormRecord /\ n \in 1 .. n BY Activations
<1>2. /\ DOMAIN cstack' = 1 .. n /\ Len(cstack') = n
      /\ \A m \in 1 .. n - 1 : cstack'[m] = cstack[m]
      /\ cstack'[n] = [cstack[n] EXCEPT !.kind = "cleanup"]
  BY <1>1 DEF StackTypes
<1>3. cstack'[n] \in FormRecord /\ cstack'[n].kind = "cleanup" BY <1>1, <1>2 DEF FormRecord
<1>4. cstack[n].kind # "unwind" /\ "cleanup" \notin AllKinds BY DEF AllKinds
<1>5. \A m \in 1 .. n : cstack'[m].kind = "unwind" <=> cstack[m].kind = "unwind"
  BY <1>2, <1>3, <1>4
<1>6. Unwinds' = Unwinds BY <1>1, <1>2, <1>5 DEF Unwinds
<1>7. \A r \in Unwinds : r \in 1 .. n - 1 BY <1>1, <1>4 DEF Unwinds
<1>8. \A k \in 1 .. n - 1, r \in Unwinds : Ahead(k, r)' <=> Ahead(k, r) BY <1>2, <1>7 DEF Ahead
<1>9. \A k \in 1 .. n - 1 : k \in Linked' <=> k \in Linked \ {n}
  BY <1>1, <1>2, <1>6, <1>8 DEF Linked
<1>10. n \notin Linked' /\ Linked' \subseteq 1 .. n /\ Linked \subseteq 1 .. n
  BY <1>1, <1>2, <1>3, <1>4 DEF Linked
<1>11. \A k \in 1 .. n : k \in Linked' <=> k \in Linked \ {n} BY <1>9, <1>10
<1>12. Linked \ {n} \subseteq 1 .. n BY <1>10
<1>13. Linked' = Linked \ {n} BY <1>10, <1>11, <1>12, Zenon
<1>14. QED BY <1>2, <1>3, <1>6, <1>13

------------------------------------------------------------------------------
(* What a step leaves as it was.                                             *)

(* The innermost form before n depends on the forms before n.                *)
LEMMA InnermostKept ==
  ASSUME NEW L, NEW M, L \subseteq Nat, M \subseteq Nat, NEW c, NEW d, NEW g, NEW n \in Nat,
         InnermostOf(L, c, g, n),
         \A m \in Nat : m < n => (m \in L <=> m \in M),
         \A m \in L : m < n => d[m].frame = c[m].frame
  PROVE  InnermostOf(M, d, g, n)
<1>1. CASE g = NULL /\ \A m \in L : n <= m
  <2>1. ASSUME NEW m \in M PROVE n <= m
    <3>1. m \in Nat OBVIOUS
    <3>2. m < n => m \in L BY <2>1, <3>1
    <3>3. QED BY <1>1, <3>1, <3>2
  <2>2. QED BY <1>1, <2>1 DEF InnermostOf
<1>2. ASSUME NEW k \in L, k < n, g = c[k].frame, \A m \in L : m < n => m <= k
      PROVE  InnermostOf(M, d, g, n)
  <2>1. k \in M /\ g = d[k].frame BY <1>2
  <2>2. ASSUME NEW m \in M, m < n PROVE m <= k
    <3>1. m \in Nat OBVIOUS
    <3>2. m \in L BY <2>2, <3>1
    <3>3. QED BY <1>2, <2>2, <3>2
  <2>3. QED BY <1>2, <2>1, <2>2 DEF InnermostOf
<1>3. QED BY <1>1, <1>2 DEF InnermostOf

(* It stays the innermost one when the form after it is gone.                *)
LEMMA InnermostWithout ==
  ASSUME NEW L, L \subseteq Nat, NEW p \in Nat, NEW c, NEW d, NEW g, InnermostOf(L, c, g, p),
         \A m \in L : m < p => d[m].frame = c[m].frame
  PROVE  InnermostOf(L \ {p}, d, g, p)
<1>1. L \ {p} \subseteq Nat /\ \A m \in Nat : m < p => (m \in L <=> m \in L \ {p}) OBVIOUS
<1> HIDE DEF InnermostOf
<1>2. QED BY <1>1, InnermostKept

(* It is also the innermost one before k if there is none in between.        *)
LEMMA InnermostLater ==
  ASSUME NEW L, L \subseteq Nat, NEW c, NEW g, NEW n \in Nat, NEW k \in Nat,
         InnermostOf(L, c, g, n), \A m \in L : m < n <=> m < k
  PROVE  InnermostOf(L, c, g, k)
<1>1. CASE g = NULL /\ \A m \in L : n <= m
  <2>1. \A m \in L : k <= m BY <1>1
  <2>2. QED BY <1>1, <2>1 DEF InnermostOf
<1>2. ASSUME NEW j \in L, j < n, g = c[j].frame, \A m \in L : m < n => m <= j
      PROVE  InnermostOf(L, c, g, k)
  BY <1>2 DEF InnermostOf
<1>3. QED BY <1>1, <1>2 DEF InnermostOf

(* There is one innermost form.                                              *)
LEMMA InnermostUnique ==
  ASSUME NEW L, L \subseteq Nat, NEW c, NEW g, NEW h, NEW n \in Nat,
         InnermostOf(L, c, g, n), InnermostOf(L, c, h, n)
  PROVE  g = h
<1>1. CASE \A m \in L : n <= m BY <1>1 DEF InnermostOf
<1>2. ASSUME NEW k \in L, k < n, g = c[k].frame, \A m \in L : m < n => m <= k PROVE g = h
  <2>1. PICK j \in L : j < n /\ h = c[j].frame /\ \A m \in L : m < n => m <= j
    BY <1>2 DEF InnermostOf
  <2>2. j = k BY <1>2, <2>1
  <2>3. QED BY <1>2, <2>1, <2>2
<1>3. QED BY <1>1, <1>2 DEF InnermostOf

(* Nothing changes for the activations before k.                             *)
SameBelow(k) ==
  \A m \in 1 .. k - 1 : /\ m \in Linked' <=> m \in Linked
                        /\ cstack'[m].kind = cstack[m].kind
                        /\ cstack'[m].frame = cstack[m].frame

(* Nothing that the unwinding r knows of changes.                            *)
Untouched(r) == cstack'[r] = cstack[r] /\ SameBelow(r)

(* What is known of the form k and of the activations below does not change. *)
KeepsForm(k) ==
  /\ \A m \in 1 .. k : /\ m \in Linked' <=> m \in Linked
                       /\ cstack'[m].kind = cstack[m].kind
                       /\ cstack'[m].frame = cstack[m].frame
                       /\ cstack'[m].tags = cstack[m].tags
  /\ frames'[cstack[k].frame].tags = frames[cstack[k].frame].tags

(* No step touches a form that stays linked.                                 *)
Keeps == \A k \in Linked' : k \in DOMAIN cstack => KeepsForm(k)

(* The step keeps activations 1 .. c, and links no other that it found.      *)
KeepsUpTo(c) ==
  /\ \A m \in 1 .. c : /\ m \in Linked' <=> m \in Linked
                       /\ cstack'[m].kind = cstack[m].kind
                       /\ cstack'[m].frame = cstack[m].frame
                       /\ cstack'[m].tags = cstack[m].tags
  /\ \A k \in Linked' : k \in DOMAIN cstack => k \in 1 .. c
  /\ \A k \in Linked : k \in 1 .. c =>
       frames'[cstack[k].frame].tags = frames[cstack[k].frame].tags

(* It is enough that activations from some place on are not linked any more. *)
LEMMA KeepsFrom ==
  ASSUME NEW c \in Nat, KeepsUpTo(c)
  PROVE  Keeps
<1>1. ASSUME NEW k \in Linked', k \in DOMAIN cstack PROVE KeepsForm(k)
  <2>1. k \in 1 .. c BY <1>1 DEF KeepsUpTo
  <2>2. \A m \in 1 .. k : m \in 1 .. c BY <2>1
  <2>3. k \in Linked BY <2>1 DEF KeepsUpTo
  <2>4. QED BY <2>1, <2>2, <2>3 DEF KeepsForm, KeepsUpTo
<1>2. QED BY <1>1 DEF Keeps

(* Then it is where it was.                                                  *)
LEMMA UnwindKept ==
  ASSUME StackTypes, Linked' \subseteq Nat \ {0}, NEW r \in Unwinds, Untouched(r),
         Position(r), Target(r), First(r)
  PROVE  Position(r)' /\ Target(r)' /\ First(r)'
<1>1. /\ Linked \subseteq Nat /\ r \in Nat
      /\ \A m \in Linked : m \in Nat /\ m > 0
      /\ \A m \in Linked' : m \in Nat /\ m > 0
      /\ cstack[r] \in UnwindRecord
  BY Activations
<1>2. cstack'[r] = cstack[r] BY DEF Untouched
<1>3. \A m \in 1 .. r - 1 : /\ m \in Linked' <=> m \in Linked
                            /\ cstack'[m].kind = cstack[m].kind
                            /\ cstack'[m].frame = cstack[m].frame
  BY DEF Untouched, SameBelow
<1>4. ASSUME NEW m \in Nat, m < r PROVE m \in Linked <=> m \in Linked'
  <2>1. CASE m = 0 BY <1>1, <2>1
  <2>2. CASE m \in 1 .. r - 1 BY <1>3, <2>2
  <2>3. QED BY <1>1, <1>4, <2>1, <2>2
<1>5. ASSUME NEW m \in Linked, m < r
      PROVE  cstack'[m].frame = cstack[m].frame /\ cstack'[m].kind = cstack[m].kind
  <2>1. m \in 1 .. r - 1 BY <1>1, <1>5
  <2>2. QED BY <1>3, <2>1
<1>6. ASSUME NEW g, Innermost(g, r) PROVE Innermost(g, r)'
  <2>1. PICK L, M, c, d : L = Linked /\ M = Linked' /\ c = cstack /\ d = cstack' OBVIOUS
  <2>2. InnermostOf(L, c, g, r) BY <1>6, <2>1 DEF Innermost
  <2>3. L \subseteq Nat /\ M \subseteq Nat /\ r \in Nat BY <1>1, <2>1
  <2>4. \A m \in Nat : m < r => (m \in L <=> m \in M) BY <1>4, <2>1
  <2>5. \A m \in L : m < r => d[m].frame = c[m].frame BY <1>5, <2>1
  <2>6. InnermostOf(M, d, g, r) BY <2>2, <2>3, <2>4, <2>5, InnermostKept
  <2>7. QED BY <2>1, <2>6 DEF Innermost
<1>7. Position(r)'
  <2>1. cstack[r].cleaning # "code" => Innermost(cstack[r].f, r) BY DEF Position
  <2>2. (cstack[r].cleaning # "code" => Innermost(cstack[r].f, r))'
    <3>1. PICK g : g = cstack[r].f OBVIOUS
    <3>2. QED BY <1>2, <1>6, <2>1, <3>1
  <2>3. cstack[r].cleaning = "code" => Innermost(cstack[r].next, r) BY DEF Position
  <2>4. (cstack[r].cleaning = "code" => Innermost(cstack[r].next, r))'
    <3>1. PICK g : g = cstack[r].next OBVIOUS
    <3>2. QED BY <1>2, <1>6, <2>3, <3>1
  <2>5. cstack[r].low \in Nat BY <1>1 DEF UnwindRecord
  <2>6. cstack[r].cleaning = "code" =>
          /\ cstack[r].low \in 1 .. r - 1
          /\ cstack[cstack[r].low].kind \in AllKinds
          /\ cstack[r].next # cstack[cstack[r].low].frame
    BY <1>1, <2>5 DEF Position
  <2>7. (cstack[r].cleaning = "code" =>
          /\ cstack[r].low \in 1 .. r - 1
          /\ cstack[cstack[r].low].kind \in AllKinds
          /\ cstack[r].next # cstack[cstack[r].low].frame)'
    BY <1>3, <1>2, <2>6
  <2>8. cstack[r].cleaning = "forms" =>
          /\ cstack[r].low \in Linked
          /\ cstack[r].low < r
          /\ cstack[r].f = cstack[cstack[r].low].frame
    BY DEF Position
  <2>9. (cstack[r].cleaning = "forms" =>
          /\ cstack[r].low \in Linked
          /\ cstack[r].low < r
          /\ cstack[r].f = cstack[cstack[r].low].frame)'
    BY <1>2, <1>4, <1>5, <2>5, <2>8
  <2>10. QED BY <2>2, <2>4, <2>7, <2>9 DEF Position
<1>8. Target(r)' BY <1>2, <1>4, <1>5, <1>1 DEF Target
<1>9. First(r)' BY <1>2, <1>4, <1>5, <1>1 DEF First
<1>10. QED BY <1>7, <1>8, <1>9

(* The frame of a form stays right if it keeps its links.                    *)
LEMMA FormKept ==
  ASSUME StackTypes, Linked' \subseteq Nat \ {0}, NEW k \in Linked, FrameOK(k), SameBelow(k),
         cstack'[k].kind = cstack[k].kind, NEW g, g = cstack[k].frame, g = cstack'[k].frame,
         g \in DOMAIN frames', g \notin Range(pool)',
         frames'[g].type = frames[g].type, frames'[g].jmp = frames[g].jmp,
         frames'[g].next = frames[g].next, frames'[g].last = frames[g].last
  PROVE  FrameOK(k)'
<1>1. /\ Linked \subseteq Nat /\ k \in Nat
      /\ \A m \in Linked : m \in Nat /\ m > 0
      /\ \A m \in Linked' : m \in Nat /\ m > 0
  BY Activations
<1>2. \A m \in 1 .. k - 1 : /\ m \in Linked' <=> m \in Linked
                            /\ cstack'[m].frame = cstack[m].frame
  BY DEF SameBelow
<1>3. ASSUME NEW m \in Nat, m < k PROVE m \in Linked <=> m \in Linked'
  <2>1. CASE m = 0 BY <1>1, <2>1
  <2>2. CASE m \in 1 .. k - 1 BY <1>2, <2>2
  <2>3. QED BY <1>1, <1>3, <2>1, <2>2
<1>4. ASSUME NEW m \in Linked, m < k PROVE cstack'[m].frame = cstack[m].frame
  <2>1. m \in 1 .. k - 1 BY <1>1, <1>4
  <2>2. QED BY <1>2, <2>1
<1>5. InnermostOf(Linked, cstack, frames[g].last, k) BY DEF FrameOK, Innermost
<1>6. Linked' \subseteq Nat BY <1>1
<1>7. InnermostOf(Linked', cstack', frames[g].last, k)
  BY <1>1, <1>3, <1>4, <1>5, <1>6, InnermostKept
<1>8. /\ frames[g].type = cstack[k].kind /\ frames[g].jmp = k
      /\ frames[g].next = frames[g].last
  BY DEF FrameOK
<1>9. QED BY <1>7, <1>8 DEF FrameOK, Innermost

(* Two linked forms have two frames, and none is chained to itself.          *)
LEMMA FramesDiffer ==
  ASSUME StackTypes, FrameInv, NEW p \in Linked, NEW g, g = cstack[p].frame
  PROVE  /\ g \in Nat \ {0} /\ g \in DOMAIN frames
         /\ \A m \in Linked : m # p => cstack[m].frame # g
         /\ frames[g].last \in Nat
         /\ frames[g].last # g
         /\ frames[g].last = NULL \/ \E m \in Linked : m < p /\ frames[g].last = cstack[m].frame
<1>1. \A m \in Linked : frames[cstack[m].frame].jmp = m BY DEF FrameInv, FrameOK
<1>2. \A m \in Linked : m # p => cstack[m].frame # g BY <1>1
<1>3. frames \in Seq(FrameRecord) /\ g \in DOMAIN frames BY DEF StackTypes, FrameInv, FrameOK
<1>4. g \in Nat \ {0} /\ frames[g] \in FrameRecord BY <1>3
<1>5. frames[g].last \in Nat BY <1>4 DEF FrameRecord
<1>6. InnermostOf(Linked, cstack, frames[g].last, p) BY DEF FrameInv, FrameOK, Innermost
<1>7. p \in Nat BY Activations
<1>8. frames[g].last = NULL \/ \E m \in Linked : m < p /\ frames[g].last = cstack[m].frame
  BY <1>6 DEF InnermostOf
<1>9. frames[g].last # g BY <1>2, <1>4, <1>7, <1>8 DEF NULL
<1>10. QED BY <1>2, <1>3, <1>4, <1>5, <1>8, <1>9

(* release_frame() of a frame that is not in the pool.                       *)
LEMMA Releases ==
  ASSUME StackTypes, PoolInv, NEW g \in DOMAIN frames, g \notin Range(pool), release_frame(g)
  PROVE  /\ frames' \in Seq(FrameRecord) /\ DOMAIN frames' = DOMAIN frames
         /\ pool' \in Seq(DOMAIN frames)
         /\ PoolInv'
         /\ \A h \in Range(pool)' : h \in Range(pool) \/ h = g
         /\ \A h \in DOMAIN frames : h # g => frames'[h] = frames[h]
<1>1. frames \in Seq(FrameRecord) /\ pool \in Seq(DOMAIN frames) BY DEF StackTypes
<1>2. Len(pool) \in Nat /\ DOMAIN pool = 1 .. Len(pool) BY <1>1
<1>3. \A i \in 1 .. Len(pool) : pool[i] # g BY <1>2 DEF Range
<1>4. CASE PoolHasRoom
  <2>1. /\ pool' = Append(pool, g) /\ frames' = [frames EXCEPT ![g] = Cleared]
    BY <1>4 DEF release_frame
  <2>2. Cleared \in FrameRecord BY DEF Cleared, FrameRecord, NULL
  <2>3. /\ frames' \in Seq(FrameRecord) /\ DOMAIN frames' = DOMAIN frames
        /\ \A h \in DOMAIN frames : h # g => frames'[h] = frames[h]
    BY <1>1, <2>1, <2>2
  <2>4. /\ pool' \in Seq(DOMAIN frames) /\ Len(pool') = Len(pool) + 1
        /\ DOMAIN pool' = 1 .. Len(pool) + 1
        /\ \A i \in 1 .. Len(pool) : pool'[i] = pool[i]
        /\ pool'[Len(pool) + 1] = g
    BY <1>1, <2>1
  <2>5. \A i \in DOMAIN pool' : i \in 1 .. Len(pool) \/ i = Len(pool) + 1 BY <1>2, <2>4
  <2>6. IsInjective(pool)' BY <1>2, <1>3, <2>4, <2>5 DEF PoolInv, IsInjective
  <2>7. \A h \in Range(pool)' : h \in Range(pool) \/ h = g BY <1>2, <2>4, <2>5 DEF Range
  <2>8. Len(pool') < FRAME_POOL_SIZE
    BY <1>2, <1>4, <2>4, ControlAssumption DEF PoolHasRoom
  <2>9. QED BY <2>3, <2>4, <2>6, <2>7, <2>8 DEF PoolInv
<1>5. CASE ~PoolHasRoom
  <2>1. pool' = pool /\ frames' = frames BY <1>5 DEF release_frame
  <2>2. QED BY <1>1, <2>1 DEF PoolInv, IsInjective, Range
<1>6. QED BY <1>4, <1>5

------------------------------------------------------------------------------
(* The loop of RT_unwind_to().                                               *)

(* The unwinding on top is at the innermost linked form.                     *)
LEMMA WalkAt ==
  ASSUME ExitInv, Unwinding, Top.f # NULL, NEW n \in Nat, n = Len(cstack)
  PROVE  /\ n > 0 /\ n \in Unwinds /\ cstack[n] = Top /\ cstack[n].cleaning = "no"
         /\ cstack[n] \in UnwindRecord
         /\ \E p \in Linked : /\ p \in 1 .. n - 1
                              /\ cstack[n].f = cstack[p].frame
                              /\ \A m \in Linked : m <= p
<1>1. StackTypes BY DEF ExitInv
<1>2. /\ DOMAIN cstack = 1 .. n /\ Linked \subseteq 1 .. n /\ Unwinds \subseteq 1 .. n
      /\ \A r \in Unwinds : cstack[r] \in UnwindRecord
  BY <1>1, Activations
<1>3. cstack # << >> /\ cstack \in Seq(FormRecord \cup UnwindRecord)
  BY <1>1 DEF Unwinding, StackTypes
<1>4. n > 0 BY <1>3, EmptySeq
<1>5. n \in Unwinds /\ cstack[n] = Top /\ cstack[n].cleaning = "no"
  BY <1>2, <1>4 DEF Unwinding, Top, Unwinds
<1>6. Alive(n) BY <1>2 DEF Alive
<1>7. Innermost(cstack[n].f, n)
  BY <1>5, <1>6 DEF ExitInv, UnwindInv, Position
<1>8. PICK p \in Linked : p < n /\ cstack[n].f = cstack[p].frame /\ \A m \in Linked : m < n => m <= p
  BY <1>5, <1>7 DEF Innermost, InnermostOf
<1>9. n \notin Linked BY <1>5 DEF Linked, Unwinds, AllKinds
<1>10. \A m \in Linked : m < n BY <1>2, <1>9
<1>11. p \in 1 .. n - 1 BY <1>2, <1>8
<1>12. QED BY <1>2, <1>4, <1>5, <1>8, <1>10, <1>11

(* What its frame is chained to is then the innermost one.                   *)
LEMMA InnermostNext ==
  ASSUME StackTypes, FrameInv, NEW p \in Linked, NEW g, g = cstack[p].frame,
         Linked' = Linked \ {p},
         \A m \in Linked : m < p => cstack'[m].frame = cstack[m].frame
  PROVE  InnermostOf(Linked', cstack', frames[g].last, p)
<1>1. InnermostOf(Linked, cstack, frames[g].last, p) BY DEF FrameInv, FrameOK, Innermost
<1>2. Linked \subseteq Nat /\ p \in Nat BY Activations
<1>3. InnermostOf(Linked \ {p}, cstack', frames[g].last, p) BY <1>1, <1>2, InnermostWithout
<1>4. QED BY <1>3

(* It finishes with that form: the frame of the form is not linked any more, *)
(* and the walk is at the one that it was chained to.                        *)
LEMMA WalkOn ==
  ASSUME ExitInv, NEW n \in Nat, n = Len(cstack), n \in Unwinds, cstack[n].cleaning = "no",
         NEW p \in Linked, p \in 1 .. n - 1, \A m \in Linked : m <= p,
         NEW g, g = cstack[p].frame, cstack[n].f = g, cstack[n].target # g,
         NEW u \in UnwindRecord, TopMoves(n, u),
         u.low = p, u.first = cstack[n].first, u.target = cstack[n].target,
         \/ u.cleaning = "no" /\ u.f = frames[g].next
         \/ u.cleaning = "code" /\ u.next = frames[g].next /\ last' = frames[g].last,
         \A h \in DOMAIN frames : h # g => h \in DOMAIN frames' /\ frames'[h] = frames[h],
         \A h \in Range(pool)' : h \in Range(pool) \/ h = g
  PROVE  Linked' = Linked \ {p} /\ Unwinds' = Unwinds /\ FrameInv' /\ UnwindInv' /\ LastInv'
<1>1. StackTypes /\ FrameInv /\ UnwindInv /\ LastInv BY DEF ExitInv
<1>2. /\ DOMAIN cstack = 1 .. n /\ Unwinds \subseteq 1 .. n
      /\ \A r \in Unwinds : cstack[r] \in UnwindRecord
  BY <1>1, Activations
<1>3. /\ g \in Nat \ {0} /\ g \in DOMAIN frames
      /\ \A m \in Linked : m # p => cstack[m].frame # g
      /\ frames[g].last # g
      /\ frames[g].last = NULL \/ \E m \in Linked : m < p /\ frames[g].last = cstack[m].frame
  BY <1>1, FramesDiffer
<1>4. frames[g].next = frames[g].last /\ InnermostOf(Linked, cstack, frames[g].last, p)
  BY <1>1 DEF FrameInv, FrameOK, Innermost
<1>5. Linked' = Linked \ {p} BY <1>1, <1>3, <1>4, LinkedWalk
<1>6. Unwinds' = Unwinds /\ Linked \subseteq 1 .. n - 1 BY <1>1, LinkedTop
<1>7. /\ Linked \subseteq Nat /\ Linked' \subseteq Nat /\ Linked' \subseteq Nat \ {0}
      /\ \A m \in Linked : m \in Nat /\ m > 0 /\ m < n
      /\ p \in Nat /\ p < n /\ p > 0
  BY <1>5, <1>6
<1>8. /\ Len(cstack') = n /\ cstack'[n] = u
      /\ \A m \in 1 .. n : cstack'[m].kind = cstack[m].kind
      /\ \A m \in 1 .. n - 1 : cstack'[m].frame = cstack[m].frame
      /\ \A m \in 1 .. n - 1 : cstack[m].kind \notin UwpKinds => cstack'[m] = cstack[m]
  BY DEF TopMoves
<1>9. ASSUME NEW k \in 1 .. p PROVE SameBelow(k)
  BY <1>5, <1>8 DEF SameBelow
<1>10. FrameInv'
  <2>1. ASSUME NEW k \in Linked' PROVE FrameOK(k)'
    <3>1. k \in Linked /\ k # p /\ k \in 1 .. p BY <1>5, <1>7
    <3>2. PICK h : h = cstack[k].frame OBVIOUS
    <3>3. FrameOK(k) BY <1>1, <3>1 DEF FrameInv
    <3>4. h # g /\ h \in DOMAIN frames /\ h \notin Range(pool) BY <1>3, <3>1, <3>2, <3>3 DEF FrameOK
    <3>5. h \in DOMAIN frames' /\ frames'[h] = frames[h] /\ h \notin Range(pool)' BY <3>4
    <3>6. SameBelow(k) /\ cstack'[k].kind = cstack[k].kind /\ h = cstack'[k].frame
      BY <1>7, <1>8, <1>9, <3>1, <3>2
    <3>7. QED BY <1>1, <1>7, <3>1, <3>2, <3>3, <3>5, <3>6, FormKept
  <2>2. QED BY <2>1 DEF FrameInv
<1>11. InnermostOf(Linked', cstack', frames[g].last, p)
  <2>1. \A m \in Linked : m < p => cstack'[m].frame = cstack[m].frame BY <1>6, <1>8
  <2>2. QED BY <1>1, <1>5, <2>1, InnermostNext
<1>12. ASSUME NEW k \in Nat, p <= k PROVE InnermostOf(Linked', cstack', frames[g].last, k)
  <2>1. \A m \in Linked' : m < p /\ m \in Nat BY <1>5, <1>7
  <2>2. \A m \in Linked' : m < p <=> m < k BY <1>7, <1>12, <2>1
  <2>3. QED BY <1>7, <1>11, <2>2, InnermostLater
<1>13. UnwindInv'
  <2>1. ASSUME NEW r \in Unwinds, r # n
        PROVE  (cstack[r].low <= r /\ (Alive(r) => Position(r) /\ Target(r) /\ First(r) /\ Above(r)))'
    <3>1. r \in 1 .. n - 1 /\ cstack'[r] = cstack[r] /\ cstack[r].low <= r
      BY <1>1, <1>2, <1>8, <2>1 DEF Unwinds, UwpKinds, UnwindInv
    <3>2. SUFFICES ASSUME Alive(r)' PROVE (Position(r) /\ Target(r) /\ First(r) /\ Above(r))'
      BY <3>1
    <3>3. r < p BY <1>6, <1>8, <3>1, <3>2 DEF Alive
    <3>4. Alive(r)
      <4>1. ASSUME NEW s \in Unwinds, r < s PROVE r < cstack[s].low
        <5>1. CASE s = n
          <6>1. cstack[n].low \in Nat BY <1>2 DEF UnwindRecord
          <6>2. p < n /\ Ahead(p, n) BY <1>7 DEF Linked
          <6>3. p <= cstack[n].low BY <6>1, <6>2, <1>7 DEF Ahead
          <6>4. QED BY <1>7, <3>1, <3>3, <5>1, <6>1, <6>3
        <5>2. CASE s # n
          <6>1. s \in 1 .. n - 1 BY <1>2, <5>2
          <6>2. cstack'[s] = cstack[s] BY <1>8, <6>1 DEF Unwinds, UwpKinds
          <6>3. QED BY <1>6, <3>2, <4>1, <6>2 DEF Alive
        <5>3. QED BY <5>1, <5>2
      <4>2. QED BY <4>1 DEF Alive
    <3>5. Untouched(r) BY <1>7, <1>9, <3>1, <3>3 DEF Untouched
    <3>6. Position(r) /\ Target(r) /\ First(r) /\ Above(r) BY <1>1, <3>4 DEF UnwindInv
    <3>7. Position(r)' /\ Target(r)' /\ First(r)' BY <1>1, <1>7, <3>5, <3>6, UnwindKept
    <3>8. Above(r)' BY <1>8, <3>1, <3>6 DEF Above
    <3>9. QED BY <3>7, <3>8
  <2>2. Alive(n) BY <1>2 DEF Alive
  <2>3. Position(n) /\ Target(n) /\ First(n) BY <1>1, <2>2 DEF UnwindInv
  <2>4. Position(n)'
    <3>1. InnermostOf(Linked', cstack', frames[g].last, n) BY <1>7, <1>12
    <3>2. p \in 1 .. n - 1 /\ cstack'[p].frame = g /\ cstack'[p].kind \in AllKinds
      BY <1>8 DEF Linked
    <3>3. QED BY <1>3, <1>4, <1>8, <3>1, <3>2 DEF Position, Innermost
  <2>5. Target(n)'
    <3>1. CASE cstack[n].target = PRIMORDIAL BY <1>8, <3>1 DEF Target
    <3>2. CASE cstack[n].target # PRIMORDIAL
      <4>1. PICK k \in Linked : /\ k < n /\ cstack[n].target = cstack[k].frame
                                /\ cstack[k].kind \in AllKinds \ UwpKinds
        BY <2>3, <3>2 DEF Target
      <4>2. k # p /\ k \in 1 .. n - 1 BY <1>6, <4>1
      <4>3. k \in Linked' BY <1>5, <4>2
      <4>4. cstack'[k] = cstack[k] BY <1>8, <4>1, <4>2
      <4>5. QED BY <1>8, <4>1, <4>3, <4>4 DEF Target
    <3>3. QED BY <3>1, <3>2
  <2>6. First(n)'
    <3>1. u.first # NULL /\ \A m \in Linked' : cstack[m].frame # u.first
      <4>1. CASE cstack[n].f = cstack[n].first BY <1>3, <1>5, <4>1 DEF NULL
      <4>2. CASE cstack[n].f # cstack[n].first BY <1>5, <1>7, <2>3, <4>2 DEF First
      <4>3. QED BY <4>1, <4>2
    <3>2. \A m \in Linked' : cstack'[m].frame = cstack[m].frame BY <1>5, <1>6, <1>8
    <3>3. QED BY <1>8, <3>1, <3>2 DEF First
  <2>7. Above(n)' BY <1>8 DEF Above
  <2>8. (cstack[n].low <= n)' BY <1>7, <1>8
  <2>9. QED BY <1>6, <2>1, <2>4, <2>5, <2>6, <2>7, <2>8 DEF UnwindInv
<1>14. LastInv'
  <2>1. CASE u.cleaning = "code"
    <3>1. last' = frames[g].last BY <2>1
    <3>2. InnermostOf(Linked', cstack', frames[g].last, n + 1) BY <1>7, <1>12
    <3>3. QED BY <1>8, <3>1, <3>2 DEF LastInv, Innermost
  <2>2. CASE u.cleaning # "code"
    <3>1. u.f = frames[g].last BY <1>4, <2>2
    <3>2. u.f # u.first
      <4>1. Alive(n) BY <1>2 DEF Alive
      <4>2. First(n) BY <1>1, <4>1 DEF UnwindInv
      <4>3. CASE cstack[n].f = cstack[n].first BY <1>3, <3>1, <4>3
      <4>4. CASE cstack[n].f # cstack[n].first
        <5>1. u.first # NULL /\ \A m \in Linked : cstack[m].frame # u.first
          BY <1>7, <4>2, <4>4 DEF First
        <5>2. QED BY <1>3, <3>1, <5>1
      <4>5. QED BY <4>3, <4>4
    <3>3. Top' = u BY <1>8 DEF Top
    <3>4. cstack' # << >> BY <1>8, <1>7
    <3>5. u.kind = "unwind" BY DEF UnwindRecord
    <3>6. ~LastKnown' BY <2>2, <3>2, <3>3, <3>4, <3>5 DEF LastKnown
    <3>7. QED BY <3>6 DEF LastInv
  <2>3. QED BY <2>1, <2>2
<1>15. QED BY <1>5, <1>6, <1>10, <1>13, <1>14

(* The count of the cleanup forms of a form that is left alone.              *)
LEMMA CleanupKept ==
  ASSUME NEW k, CleanupOK(k), cstack'[k] = cstack[k], k \in Linked' <=> k \in Linked,
         k \in Linked => frames'[cstack[k].frame].forms = frames[cstack[k].frame].forms
  PROVE  CleanupOK(k)'
BY DEF CleanupOK

(* The activations c have an unwinding on top that differs in these fields.  *)
MovedTo(c, n, g, next, low, cl) ==
  /\ c \in Seq(FormRecord \cup UnwindRecord) /\ Len(c) = n /\ DOMAIN c = 1 .. n
  /\ \A m \in 1 .. n - 1 : c[m] = cstack[m]
  /\ c[n] \in UnwindRecord
  /\ c[n].f = g /\ c[n].next = next /\ c[n].low = low /\ c[n].cleaning = cl
  /\ c[n].first = cstack[n].first /\ c[n].target = cstack[n].target

(* That is what Step() does.                                                 *)
LEMMA StepMoves ==
  ASSUME StackTypes, NEW n \in Nat, n = Len(cstack), n \in Unwinds,
         NEW g \in Nat, NEW next \in Nat, NEW low \in Nat, NEW cl \in {"no", "forms", "code"}
  PROVE  MovedTo(Step(g, next, low, cl), n, g, next, low, cl)
<1> DEFINE c == Step(g, next, low, cl)
<1>1. cstack \in Seq(FormRecord \cup UnwindRecord) BY DEF StackTypes
<1>2. DOMAIN cstack = 1 .. n /\ n \in 1 .. n /\ cstack[n] \in UnwindRecord BY Activations
<1> DEFINE u == [cstack[n] EXCEPT !.f = g, !.next = next, !.low = low, !.cleaning = cl]
<1>3. /\ u \in UnwindRecord
      /\ u.f = g /\ u.next = next /\ u.low = low /\ u.cleaning = cl
      /\ u.first = cstack[n].first /\ u.target = cstack[n].target
  BY <1>2 DEF UnwindRecord
<1>4. c = [cstack EXCEPT ![n] = u] BY DEF Step
<1> HIDE DEF u, c
<1>5. c \in Seq(FormRecord \cup UnwindRecord) BY <1>1, <1>2, <1>3, <1>4
<1>6. /\ Len(c) = n /\ DOMAIN c = 1 .. n /\ c[n] = u
      /\ \A m \in 1 .. n - 1 : c[m] = cstack[m]
  BY <1>1, <1>2, <1>4
<1>7. MovedTo(c, n, g, next, low, cl) BY <1>3, <1>5, <1>6 DEF MovedTo
<1>8. QED BY <1>7 DEF c

(* The frame of a form that is neither the target nor an unwind-protect is   *)
(* released, and so is no other: unwind_release and unwind_cleanup_done.     *)
LEMMA PassStep ==
  ASSUME ExitInv, Unwinding, ~AtEnd, NEW g, g = Top.f,
         cstack' = Step(frames[g].next, NULL, frames[g].jmp, "no"),
         \/ release_frame(g) /\ frames[g].type \notin UwpKinds
         \/ UNCHANGED <<frames, pool>> /\ frames[g].type = "uwp_forms" /\ frames[g].forms = 0,
         UNCHANGED <<last, last_tag, trapped>>
  PROVE  ExitInv' /\ Keeps
<1>1. PICK n \in Nat : n = Len(cstack) BY Activations DEF ExitInv
<1>2. Top.f # NULL /\ Top.f # Top.target BY DEF AtEnd
<1>3. /\ n > 0 /\ n \in Unwinds /\ cstack[n] = Top /\ cstack[n].cleaning = "no"
      /\ cstack[n] \in UnwindRecord
  BY <1>1, <1>2, WalkAt
<1>4. PICK p \in Linked : /\ p \in 1 .. n - 1 /\ cstack[n].f = cstack[p].frame
                          /\ \A m \in Linked : m <= p
  BY <1>1, <1>2, WalkAt
<1>5. g = cstack[p].frame /\ g # cstack[n].target BY <1>2, <1>3, <1>4
<1>6. StackTypes /\ FrameInv /\ CleanupInv /\ PoolInv BY DEF ExitInv
<1>7. /\ g \in DOMAIN frames /\ g \notin Range(pool) /\ frames[g].jmp = p
      /\ frames[g].type = cstack[p].kind /\ frames[g].next = frames[g].last
  BY <1>5, <1>6 DEF FrameInv, FrameOK
<1>8. frames[g].next \in Nat /\ \A m \in Linked : m # p => cstack[m].frame # g
  BY <1>5, <1>6, <1>7, FramesDiffer
<1>9. /\ frames' \in Seq(FrameRecord) /\ DOMAIN frames' = DOMAIN frames
      /\ pool' \in Seq(DOMAIN frames)
      /\ PoolInv'
      /\ \A h \in Range(pool)' : h \in Range(pool) \/ h = g
      /\ \A h \in DOMAIN frames : h # g => frames'[h] = frames[h]
  <2>1. CASE release_frame(g) BY <1>6, <1>7, <2>1, Releases
  <2>2. CASE UNCHANGED <<frames, pool>>
    <3>1. Range(pool)' = Range(pool) /\ PoolInv' BY <1>6, <2>2 DEF PoolInv, IsInjective, Range
    <3>2. QED BY <1>6, <2>2, <3>1 DEF StackTypes
  <2>3. QED BY <2>1, <2>2
<1>10. PICK next \in Nat : next = frames[g].next BY <1>8
<1>11. cstack' = Step(next, NULL, p, "no") BY <1>7, <1>10
<1>12. NULL \in Nat /\ p \in Nat BY <1>4 DEF NULL
<1>13. /\ cstack' \in Seq(FormRecord \cup UnwindRecord) /\ Len(cstack') = n
       /\ DOMAIN cstack' = 1 .. n
       /\ \A m \in 1 .. n - 1 : cstack'[m] = cstack[m]
       /\ cstack'[n] \in UnwindRecord
       /\ cstack'[n].f = next /\ cstack'[n].low = p /\ cstack'[n].cleaning = "no"
       /\ cstack'[n].first = cstack[n].first /\ cstack'[n].target = cstack[n].target
  <2>1. MovedTo(cstack', n, next, NULL, p, "no")
    BY <1>1, <1>3, <1>6, <1>10, <1>11, <1>12, StepMoves
  <2>2. QED BY <2>1 DEF MovedTo
<1>14. PICK u \in UnwindRecord : u = cstack'[n] BY <1>13
<1>15. TopMoves(n, u)
  <2>1. cstack'[n].kind = cstack[n].kind BY <1>3, <1>13 DEF UnwindRecord
  <2>2. \A m \in 1 .. n : cstack'[m].kind = cstack[m].kind BY <1>13, <2>1
  <2>3. QED BY <1>13, <1>14, <2>2 DEF TopMoves
<1>16. /\ u.low = p /\ u.first = cstack[n].first /\ u.target = cstack[n].target
       /\ u.cleaning = "no" /\ u.f = frames[g].next
  BY <1>10, <1>13, <1>14
<1>17. \A h \in DOMAIN frames : h # g => h \in DOMAIN frames' /\ frames'[h] = frames[h]
  BY <1>9
<1>18. \A h \in Range(pool)' : h \in Range(pool) \/ h = g BY <1>9
<1>19. cstack[n].f = g /\ cstack[n].target # g BY <1>4, <1>5
<1>20. Linked' = Linked \ {p} /\ FrameInv' /\ UnwindInv' /\ LastInv'
  BY <1>1, <1>3, <1>4, <1>5, <1>15, <1>16, <1>19, <1>17, <1>18, WalkOn
<1>21. StackTypes' BY <1>6, <1>9, <1>13 DEF StackTypes
<1>22. CleanupInv'
  <2>1. ASSUME NEW k \in 1 .. n PROVE CleanupOK(k)'
    <3>1. CleanupOK(k) BY <1>1, <1>6, <2>1, Activations DEF CleanupInv
    <3>2. CASE k = n BY <1>13, <3>2 DEF CleanupOK, UnwindRecord
    <3>3. CASE k = p
      <4>1. cstack'[p] = cstack[p] /\ p \notin Linked' BY <1>4, <1>13, <1>20
      <4>2. CASE frames[g].type \notin UwpKinds BY <1>7, <3>3, <4>1, <4>2 DEF CleanupOK, UwpKinds
      <4>3. CASE frames[g].type = "uwp_forms" /\ frames[g].forms = 0
        <5>1. cstack[p].kind = "uwp_forms" /\ p \in Linked BY <1>4, <1>7, <4>3
        <5>2. cstack[p].started = CleanupForms - frames[cstack[p].frame].forms
          BY <3>1, <3>3, <5>1 DEF CleanupOK
        <5>3. cstack[p].started = CleanupForms BY <1>5, <4>3, <5>2, ControlAssumption
        <5>4. QED BY <3>3, <4>1, <5>1, <5>3 DEF CleanupOK
      <4>4. QED BY <4>2, <4>3
    <3>4. CASE k # n /\ k # p
      <4>1. cstack'[k] = cstack[k] /\ (k \in Linked' <=> k \in Linked) BY <1>13, <1>20, <3>4
      <4>2. k \in Linked => frames'[cstack[k].frame].forms = frames[cstack[k].frame].forms
        BY <1>6, <1>8, <1>9, <3>4 DEF FrameInv, FrameOK
      <4>3. QED BY <3>1, <4>1, <4>2, CleanupKept
    <3>5. QED BY <3>2, <3>3, <3>4
  <2>2. QED BY <1>13, <2>1 DEF CleanupInv
<1>23. ~trapped' BY DEF ExitInv
<1>24. Keeps
  <2>1. PICK c \in Nat : c = p - 1 BY <1>4
  <2>2. \A m \in 1 .. c : m \in 1 .. n - 1 /\ m # p BY <1>4, <2>1
  <2>3. \A k \in Linked : k \in 1 .. n BY <1>1, <1>6, Activations
  <2>4. \A k \in Linked' : k \in 1 .. c BY <1>4, <1>20, <2>1, <2>3
  <2>5. \A k \in Linked : k \in 1 .. c => frames'[cstack[k].frame] = frames[cstack[k].frame]
    BY <1>6, <1>8, <1>9, <2>2 DEF FrameInv, FrameOK
  <2>6. \A m \in 1 .. c : /\ m \in Linked' <=> m \in Linked
                          /\ cstack'[m].kind = cstack[m].kind
                          /\ cstack'[m].frame = cstack[m].frame
                          /\ cstack'[m].tags = cstack[m].tags
    BY <1>13, <1>20, <2>2
  <2>7. \A k \in Linked' : k \in DOMAIN cstack => k \in 1 .. c BY <2>4
  <2>8. \A k \in Linked : k \in 1 .. c =>
          frames'[cstack[k].frame].tags = frames[cstack[k].frame].tags
    BY <2>5
  <2>9. KeepsUpTo(c) BY <2>6, <2>7, <2>8 DEF KeepsUpTo
  <2>10. QED BY <2>9, KeepsFrom
<1>25. QED BY <1>24, <1>9, <1>20, <1>21, <1>22, <1>23 DEF ExitInv

(* One more cleanup form of the form p has been started.                     *)
StartsOne(d, c, p) ==
  /\ d \in Seq(FormRecord \cup UnwindRecord) /\ Len(d) = Len(c) /\ DOMAIN d = DOMAIN c
  /\ \A m \in DOMAIN c : m # p => d[m] = c[m]
  /\ d[p].kind = c[p].kind /\ d[p].frame = c[p].frame /\ d[p].tags = c[p].tags
  /\ d[p].started = c[p].started + 1

(* That is what the loop counts.                                             *)
LEMMA Starts ==
  ASSUME NEW c \in Seq(FormRecord \cup UnwindRecord), NEW p \in DOMAIN c, c[p] \in FormRecord
  PROVE  StartsOne([c EXCEPT ![p].started = @ + 1], c, p)
<1> DEFINE x == [c[p] EXCEPT !.started = @ + 1]
           d == [c EXCEPT ![p].started = @ + 1]
<1>1. /\ x \in FormRecord /\ x.kind = c[p].kind /\ x.frame = c[p].frame
      /\ x.tags = c[p].tags /\ x.started = c[p].started + 1
  <2>1. PICK y \in FormRecord : y = c[p] OBVIOUS
  <2>2. y.started + 1 \in Nat BY DEF FormRecord
  <2>3. [y EXCEPT !.started = @ + 1] \in FormRecord BY <2>2 DEF FormRecord
  <2>4. QED BY <2>1, <2>3 DEF FormRecord
<1>2. d = [c EXCEPT ![p] = x] OBVIOUS
<1> HIDE DEF x, d
<1>3. d \in Seq(FormRecord \cup UnwindRecord) BY <1>1, <1>2
<1>4. /\ Len(d) = Len(c) /\ DOMAIN d = DOMAIN c
      /\ \A m \in DOMAIN c : m # p => d[m] = c[m]
      /\ d[p] = x
  BY <1>2, <1>3
<1>5. StartsOne(d, c, p) BY <1>1, <1>3, <1>4 DEF StartsOne
<1>6. QED BY <1>5 DEF d

(* The loop runs a cleanup form, or the code, of the frame g.                *)
RunsCleanup(g, cl) ==
  cstack' = [Step(g, frames[g].next, frames[g].jmp, cl) EXCEPT ![frames[g].jmp].started = @ + 1]

(* What the loop has when it starts a cleanup form of the innermost form p.  *)
LEMMA CleanupMoves ==
  ASSUME ExitInv, Unwinding, ~AtEnd, NEW g, g = Top.f, NEW n \in Nat, n = Len(cstack),
         NEW p \in Linked, p \in 1 .. n - 1, n \in Unwinds, g = cstack[p].frame,
         cstack[p].kind \in UwpKinds, NEW cl \in {"forms", "code"}, RunsCleanup(g, cl)
  PROVE  /\ cstack' \in Seq(FormRecord \cup UnwindRecord)
         /\ cstack'[n] \in UnwindRecord
         /\ cstack'[n].f = g /\ cstack'[n].next = frames[g].next
         /\ cstack'[n].low = p /\ cstack'[n].cleaning = cl
         /\ cstack'[n].first = cstack[n].first /\ cstack'[n].target = cstack[n].target
         /\ TopMoves(n, cstack'[n])
         /\ cstack'[p].kind = cstack[p].kind /\ cstack'[p].frame = cstack[p].frame
         /\ cstack'[p].tags = cstack[p].tags
         /\ cstack'[p].started = cstack[p].started + 1
         /\ \A m \in 1 .. n - 1 : m # p => cstack'[m] = cstack[m]
<1>1. StackTypes /\ FrameInv BY DEF ExitInv
<1>2. frames[g].jmp = p /\ g \in Nat /\ frames[g].next \in Nat /\ p \in Nat
  <2>1. g \in Nat /\ frames[g].last \in Nat BY <1>1, FramesDiffer
  <2>2. frames[g].jmp = p /\ frames[g].next = frames[g].last BY <1>1 DEF FrameInv, FrameOK
  <2>3. QED BY <2>1, <2>2
<1>3. PICK next \in Nat : next = frames[g].next BY <1>2
<1>4. cl \in {"no", "forms", "code"} OBVIOUS
<1>5. MovedTo(Step(g, next, p, cl), n, g, next, p, cl) BY <1>1, <1>2, <1>4, StepMoves
<1>6. PICK c : c = Step(g, next, p, cl) OBVIOUS
<1>7. cstack' = [c EXCEPT ![p].started = @ + 1] BY <1>2, <1>3, <1>6 DEF RunsCleanup
<1>8. /\ c \in Seq(FormRecord \cup UnwindRecord) /\ Len(c) = n /\ DOMAIN c = 1 .. n
      /\ \A m \in 1 .. n - 1 : c[m] = cstack[m]
      /\ c[n] \in UnwindRecord
      /\ c[n].f = g /\ c[n].next = next /\ c[n].low = p /\ c[n].cleaning = cl
      /\ c[n].first = cstack[n].first /\ c[n].target = cstack[n].target
  BY <1>5, <1>6 DEF MovedTo
<1>9. cstack[p].kind \in AllKinds /\ cstack[p] \in FormRecord /\ cstack[n] \in UnwindRecord
  BY <1>1, Activations DEF Linked
<1>10. p \in DOMAIN c /\ c[p] \in FormRecord
  <2>1. p \in 1 .. n OBVIOUS
  <2>2. c[p] = cstack[p] BY <1>8
  <2>3. QED BY <1>8, <1>9, <2>1, <2>2
<1>11. StartsOne(cstack', c, p) BY <1>7, <1>8, <1>10, Starts
<1>12. /\ cstack' \in Seq(FormRecord \cup UnwindRecord) /\ Len(cstack') = n
       /\ DOMAIN cstack' = 1 .. n
       /\ \A m \in 1 .. n : m # p => cstack'[m] = c[m]
       /\ cstack'[p].kind = cstack[p].kind /\ cstack'[p].frame = cstack[p].frame
       /\ cstack'[p].started = cstack[p].started + 1
       /\ cstack'[p].tags = cstack[p].tags
  BY <1>8, <1>11 DEF StartsOne
<1>13. n \in 1 .. n /\ n # p OBVIOUS
<1>14. cstack'[n] = c[n] BY <1>12, <1>13
<1>15. \A m \in 1 .. n - 1 : m # p => cstack'[m] = cstack[m] BY <1>8, <1>12
<1>16. TopMoves(n, cstack'[n])
  <2>1. cstack'[n].kind = cstack[n].kind BY <1>8, <1>9, <1>14 DEF UnwindRecord
  <2>2. \A m \in 1 .. n : cstack'[m].kind = cstack[m].kind BY <1>12, <1>15, <2>1
  <2>3. \A m \in 1 .. n - 1 : cstack'[m].frame = cstack[m].frame BY <1>12, <1>15
  <2>4. \A m \in 1 .. n - 1 : cstack[m].kind \notin UwpKinds => cstack'[m] = cstack[m]
    BY <1>15
  <2>5. QED BY <1>12, <2>2, <2>3, <2>4 DEF TopMoves
<1>17. QED BY <1>3, <1>8, <1>12, <1>14, <1>15, <1>16

(* unwind_cleanup_code: the code leaves the unwind-protect first.            *)
LEMMA CodeStep ==
  ASSUME ExitInv, unwind_cleanup_code
  PROVE  ExitInv' /\ Keeps
<1>1. PICK n \in Nat : n = Len(cstack) BY Activations DEF ExitInv
<1>2. PICK g : g = Top.f OBVIOUS
<1>3. /\ Unwinding /\ ~AtEnd /\ frames[g].type = "uwp_code" /\ RunsCleanup(g, "code")
      /\ last' = frames[g].last /\ release_frame(g) /\ UNCHANGED <<last_tag, trapped>>
  BY <1>2 DEF unwind_cleanup_code, RunsCleanup
<1>4. Top.f # NULL /\ Top.f # Top.target BY <1>3 DEF AtEnd
<1>5. /\ n > 0 /\ n \in Unwinds /\ cstack[n] = Top /\ cstack[n].cleaning = "no"
  BY <1>1, <1>3, <1>4, WalkAt
<1>6. PICK p \in Linked : /\ p \in 1 .. n - 1 /\ cstack[n].f = cstack[p].frame
                          /\ \A m \in Linked : m <= p
  BY <1>1, <1>3, <1>4, WalkAt
<1>7. /\ g = cstack[p].frame /\ g # cstack[n].target
      /\ cstack[n].f = g /\ cstack[n].target # g
  BY <1>2, <1>4, <1>5, <1>6
<1>8. StackTypes /\ FrameInv /\ CleanupInv /\ PoolInv BY DEF ExitInv
<1>9. /\ g \in DOMAIN frames /\ g \notin Range(pool)
      /\ cstack[p].kind = "uwp_code" /\ frames[g].next = frames[g].last
  BY <1>3, <1>7, <1>8 DEF FrameInv, FrameOK
<1>10. frames[g].last \in Nat /\ \A m \in Linked : m # p => cstack[m].frame # g
  BY <1>7, <1>8, FramesDiffer
<1>11. /\ frames' \in Seq(FrameRecord) /\ DOMAIN frames' = DOMAIN frames
       /\ pool' \in Seq(DOMAIN frames)
       /\ PoolInv'
       /\ \A h \in Range(pool)' : h \in Range(pool) \/ h = g
       /\ \A h \in DOMAIN frames : h # g => frames'[h] = frames[h]
  BY <1>3, <1>8, <1>9, Releases
<1>12. cstack[p].kind \in UwpKinds /\ "code" \in {"forms", "code"} BY <1>9 DEF UwpKinds
<1>13. /\ cstack' \in Seq(FormRecord \cup UnwindRecord)
       /\ cstack'[n] \in UnwindRecord
       /\ cstack'[n].f = g /\ cstack'[n].next = frames[g].next
       /\ cstack'[n].low = p /\ cstack'[n].cleaning = "code"
       /\ cstack'[n].first = cstack[n].first /\ cstack'[n].target = cstack[n].target
       /\ TopMoves(n, cstack'[n])
       /\ cstack'[p].kind = cstack[p].kind /\ cstack'[p].frame = cstack[p].frame
       /\ cstack'[p].started = cstack[p].started + 1
       /\ \A m \in 1 .. n - 1 : m # p => cstack'[m] = cstack[m]
  BY <1>1, <1>2, <1>3, <1>5, <1>6, <1>7, <1>12, CleanupMoves
<1>14. PICK u \in UnwindRecord : u = cstack'[n] BY <1>13
<1>15. /\ u.low = p /\ u.first = cstack[n].first /\ u.target = cstack[n].target
       /\ u.cleaning = "code" /\ u.next = frames[g].next /\ TopMoves(n, u)
  BY <1>13, <1>14
<1>16. \A h \in DOMAIN frames : h # g => h \in DOMAIN frames' /\ frames'[h] = frames[h]
  BY <1>11
<1>17. \A h \in Range(pool)' : h \in Range(pool) \/ h = g BY <1>11
<1>18. Linked' = Linked \ {p} /\ FrameInv' /\ UnwindInv' /\ LastInv'
  BY <1>1, <1>3, <1>5, <1>6, <1>7, <1>15, <1>16, <1>17, WalkOn
<1>19. StackTypes' BY <1>3, <1>8, <1>10, <1>11, <1>13 DEF StackTypes
<1>20. CleanupInv'
  <2>1. ASSUME NEW k \in 1 .. n PROVE CleanupOK(k)'
    <3>1. CleanupOK(k) BY <1>1, <1>8, <2>1, Activations DEF CleanupInv
    <3>2. CASE k = n BY <1>13, <3>2 DEF CleanupOK, UnwindRecord
    <3>3. CASE k = p
      <4>1. cstack[p].started = 0 BY <1>6, <1>9, <3>1, <3>3 DEF CleanupOK
      <4>2. cstack'[p].kind = "uwp_code" /\ cstack'[p].started = 1 /\ p \notin Linked'
        BY <1>9, <1>13, <1>18, <4>1
      <4>3. QED BY <3>3, <4>2 DEF CleanupOK
    <3>4. CASE k # n /\ k # p
      <4>1. cstack'[k] = cstack[k] /\ (k \in Linked' <=> k \in Linked) BY <1>13, <1>18, <3>4
      <4>2. k \in Linked => frames'[cstack[k].frame].forms = frames[cstack[k].frame].forms
        BY <1>8, <1>10, <1>11, <3>4 DEF FrameInv, FrameOK
      <4>3. QED BY <3>1, <4>1, <4>2, CleanupKept
    <3>5. QED BY <3>2, <3>3, <3>4
  <2>2. QED BY <1>13, <2>1 DEF CleanupInv, TopMoves
<1>21. ~trapped' BY <1>3 DEF ExitInv
<1>22. Keeps
  <2>1. PICK c \in Nat : c = p - 1 BY <1>6
  <2>2. \A m \in 1 .. c : m \in 1 .. n - 1 /\ m # p BY <1>6, <2>1
  <2>3. \A k \in Linked : k \in 1 .. n BY <1>1, <1>8, Activations
  <2>4. \A k \in Linked' : k \in 1 .. c BY <1>6, <1>18, <2>1, <2>3
  <2>5. \A k \in Linked : k \in 1 .. c => frames'[cstack[k].frame] = frames[cstack[k].frame]
    BY <1>8, <1>10, <1>11, <2>2 DEF FrameInv, FrameOK
  <2>6. KeepsUpTo(c) BY <1>13, <1>18, <2>2, <2>4, <2>5 DEF KeepsUpTo
  <2>7. QED BY <2>6, KeepsFrom
<1>23. QED BY <1>22, <1>11, <1>18, <1>19, <1>20, <1>21 DEF ExitInv

(* The walk stays at a form, or is there again.                              *)
LEMMA WalkStays ==
  ASSUME ExitInv, NEW n \in Nat, n = Len(cstack), n \in Unwinds,
         NEW u \in UnwindRecord, TopMoves(n, u), Linked' = Linked,
         u.low <= cstack[n].low, u.target = cstack[n].target,
         \A h \in DOMAIN frames :
           /\ h \in DOMAIN frames'
           /\ frames'[h].type = frames[h].type /\ frames'[h].jmp = frames[h].jmp
           /\ frames'[h].next = frames[h].next /\ frames'[h].last = frames[h].last,
         pool' = pool
  PROVE  /\ FrameInv'
         /\ Unwinds' = Unwinds
         /\ \A r \in Unwinds : r # n =>
              (cstack[r].low <= r /\ (Alive(r) => Position(r) /\ Target(r) /\ First(r) /\ Above(r)))'
         /\ \A g : InnermostOf(Linked, cstack, g, n) => /\ InnermostOf(Linked', cstack', g, n)
                                                        /\ InnermostOf(Linked', cstack', g, n + 1)
         /\ Target(n)'
<1>1. StackTypes /\ FrameInv /\ UnwindInv BY DEF ExitInv
<1>2. /\ DOMAIN cstack = 1 .. n /\ Unwinds \subseteq 1 .. n
      /\ \A r \in Unwinds : cstack[r] \in UnwindRecord
  BY <1>1, Activations
<1>3. Unwinds' = Unwinds /\ Linked \subseteq 1 .. n - 1 BY <1>1, LinkedTop
<1>4. /\ Linked \subseteq Nat /\ Linked' \subseteq Nat /\ Linked' \subseteq Nat \ {0}
      /\ \A m \in Linked : m \in Nat /\ m > 0 /\ m < n /\ m \in 1 .. n - 1
  BY <1>3
<1>5. /\ Len(cstack') = n /\ cstack'[n] = u
      /\ \A m \in 1 .. n : cstack'[m].kind = cstack[m].kind
      /\ \A m \in 1 .. n - 1 : cstack'[m].frame = cstack[m].frame
      /\ \A m \in 1 .. n - 1 : cstack[m].kind \notin UwpKinds => cstack'[m] = cstack[m]
  BY DEF TopMoves
<1>6. ASSUME NEW k \in 1 .. n PROVE SameBelow(k) BY <1>5 DEF SameBelow
<1>7. FrameInv'
  <2>1. ASSUME NEW k \in Linked' PROVE FrameOK(k)'
    <3>1. k \in Linked /\ k \in 1 .. n - 1 /\ k \in 1 .. n BY <1>4
    <3>2. PICK h : h = cstack[k].frame OBVIOUS
    <3>3. FrameOK(k) BY <1>1, <3>1 DEF FrameInv
    <3>4. h \in DOMAIN frames /\ h \notin Range(pool) BY <3>2, <3>3 DEF FrameOK
    <3>5. h \notin Range(pool)' BY <3>4 DEF Range
    <3>6. SameBelow(k) /\ cstack'[k].kind = cstack[k].kind /\ h = cstack'[k].frame
      BY <1>5, <1>6, <3>1, <3>2
    <3>7. QED BY <1>1, <1>4, <3>1, <3>2, <3>3, <3>4, <3>5, <3>6, FormKept
  <2>2. QED BY <2>1 DEF FrameInv
<1>8. ASSUME NEW r \in Unwinds, r # n
      PROVE  (cstack[r].low <= r /\ (Alive(r) => Position(r) /\ Target(r) /\ First(r) /\ Above(r)))'
  <2>1. r \in 1 .. n - 1 /\ cstack'[r] = cstack[r] /\ cstack[r].low <= r
    BY <1>1, <1>2, <1>5, <1>8 DEF Unwinds, UwpKinds, UnwindInv
  <2>2. SUFFICES ASSUME Alive(r)' PROVE (Position(r) /\ Target(r) /\ First(r) /\ Above(r))'
    BY <2>1
  <2>3. r < u.low BY <1>3, <1>5, <2>1, <2>2 DEF Alive
  <2>4. Alive(r)
    <3>1. ASSUME NEW s \in Unwinds, r < s PROVE r < cstack[s].low
      <4>1. CASE s = n
        <5>1. cstack[n].low \in Nat /\ u.low \in Nat BY <1>2 DEF UnwindRecord
        <5>2. QED BY <2>1, <2>3, <4>1, <5>1
      <4>2. CASE s # n
        <5>1. s \in 1 .. n - 1 BY <1>2, <4>2
        <5>2. cstack'[s] = cstack[s] BY <1>5, <5>1 DEF Unwinds, UwpKinds
        <5>3. QED BY <1>3, <2>2, <3>1, <5>2 DEF Alive
      <4>3. QED BY <4>1, <4>2
    <3>2. QED BY <3>1 DEF Alive
  <2>5. Untouched(r) BY <1>6, <2>1 DEF Untouched
  <2>6. Position(r) /\ Target(r) /\ First(r) /\ Above(r) BY <1>1, <2>4 DEF UnwindInv
  <2>7. Position(r)' /\ Target(r)' /\ First(r)' BY <1>1, <1>4, <2>5, <2>6, UnwindKept
  <2>8. Above(r)' BY <1>5, <2>1, <2>6 DEF Above
  <2>9. QED BY <2>7, <2>8
<1>9. ASSUME NEW g, InnermostOf(Linked, cstack, g, n)
      PROVE  InnermostOf(Linked', cstack', g, n) /\ InnermostOf(Linked', cstack', g, n + 1)
  <2>1. \A m \in Linked : m < n => cstack'[m].frame = cstack[m].frame BY <1>4, <1>5
  <2>2. \A m \in Nat : m < n => (m \in Linked <=> m \in Linked') OBVIOUS
  <2>3. InnermostOf(Linked', cstack', g, n)
    <3>1. PICK L, M, c, d : L = Linked /\ M = Linked' /\ c = cstack /\ d = cstack' OBVIOUS
    <3>2. InnermostOf(L, c, g, n) BY <1>9, <3>1
    <3>3. L \subseteq Nat /\ M \subseteq Nat /\ n \in Nat BY <1>4, <3>1
    <3>4. \A m \in Nat : m < n => (m \in L <=> m \in M) BY <2>2, <3>1
    <3>5. \A m \in L : m < n => d[m].frame = c[m].frame BY <2>1, <3>1
    <3>6. InnermostOf(M, d, g, n) BY <3>2, <3>3, <3>4, <3>5, InnermostKept
    <3>7. QED BY <3>1, <3>6
  <2>4. \A m \in Linked' : m < n <=> m < n + 1 BY <1>4
  <2>5. n + 1 \in Nat OBVIOUS
  <2>6. InnermostOf(Linked', cstack', g, n + 1) BY <1>4, <2>3, <2>4, <2>5, InnermostLater
  <2>7. QED BY <2>3, <2>6
<1>10. Target(n)'
  <2>1. Alive(n) BY <1>2 DEF Alive
  <2>2. Target(n) BY <1>1, <2>1 DEF UnwindInv
  <2>3. CASE cstack[n].target = PRIMORDIAL BY <1>5, <2>3 DEF Target
  <2>4. CASE cstack[n].target # PRIMORDIAL
    <3>1. PICK k \in Linked : /\ k < n /\ cstack[n].target = cstack[k].frame
                              /\ cstack[k].kind \in AllKinds \ UwpKinds
      BY <2>2, <2>4 DEF Target
    <3>2. k \in Linked' /\ cstack'[k] = cstack[k] BY <1>4, <1>5, <3>1
    <3>3. QED BY <1>5, <3>1, <3>2 DEF Target
  <2>5. QED BY <2>3, <2>4
<1>11. QED BY <1>3, <1>7, <1>8, <1>9, <1>10

(* unwind_cleanup_form: the form is taken off the list, then evaluated.      *)
LEMMA FormStep ==
  ASSUME ExitInv, unwind_cleanup_form
  PROVE  ExitInv' /\ Keeps
<1>1. PICK n \in Nat : n = Len(cstack) BY Activations DEF ExitInv
<1>2. PICK g : g = Top.f OBVIOUS
<1>3. /\ Unwinding /\ ~AtEnd /\ frames[g].type = "uwp_forms" /\ frames[g].forms > 0
      /\ RunsCleanup(g, "forms")
      /\ frames' = [frames EXCEPT ![g].forms = @ - 1]
      /\ UNCHANGED <<pool, last, last_tag, trapped>>
  BY <1>2 DEF unwind_cleanup_form, RunsCleanup
<1>4. Top.f # NULL BY <1>3 DEF AtEnd
<1>5. /\ n > 0 /\ n \in Unwinds /\ cstack[n] = Top /\ cstack[n].cleaning = "no"
      /\ cstack[n] \in UnwindRecord
  BY <1>1, <1>3, <1>4, WalkAt
<1>6. PICK p \in Linked : /\ p \in 1 .. n - 1 /\ cstack[n].f = cstack[p].frame
                          /\ \A m \in Linked : m <= p
  BY <1>1, <1>3, <1>4, WalkAt
<1>7. g = cstack[p].frame /\ cstack[n].f = g BY <1>2, <1>5, <1>6
<1>8. StackTypes /\ FrameInv /\ CleanupInv /\ PoolInv /\ UnwindInv /\ LastInv BY DEF ExitInv
<1>9. g \in DOMAIN frames /\ cstack[p].kind = "uwp_forms"
  BY <1>3, <1>7, <1>8 DEF FrameInv, FrameOK
<1>10. \A m \in Linked : m # p => cstack[m].frame # g BY <1>7, <1>8, FramesDiffer
<1>11. PICK x : x = [frames[g] EXCEPT !.forms = @ - 1] OBVIOUS
<1>12. frames[g] \in FrameRecord /\ frames[g].forms \in Nat
  <2>1. frames[g] \in FrameRecord BY <1>8, <1>9 DEF StackTypes
  <2>2. QED BY <2>1 DEF FrameRecord
<1>13. /\ x \in FrameRecord /\ x.forms = frames[g].forms - 1
       /\ x.type = frames[g].type /\ x.jmp = frames[g].jmp
       /\ x.next = frames[g].next /\ x.last = frames[g].last /\ x.tags = frames[g].tags
  <2>1. frames[g].forms - 1 \in Nat BY <1>3, <1>12
  <2>2. PICK i \in Nat : i = frames[g].forms - 1 BY <2>1
  <2>3. x = [frames[g] EXCEPT !.forms = i] BY <1>11, <2>2
  <2>4. QED BY <1>12, <2>2, <2>3 DEF FrameRecord
<1>14. frames' = [frames EXCEPT ![g] = x] BY <1>3, <1>11
<1>15. /\ frames' \in Seq(FrameRecord) /\ DOMAIN frames' = DOMAIN frames
       /\ frames'[g] = x
       /\ \A h \in DOMAIN frames : h # g => frames'[h] = frames[h]
  BY <1>8, <1>9, <1>13, <1>14 DEF StackTypes
<1>16. cstack[p].kind \in UwpKinds /\ "forms" \in {"forms", "code"} BY <1>9 DEF UwpKinds
<1>17. /\ cstack' \in Seq(FormRecord \cup UnwindRecord)
       /\ cstack'[n] \in UnwindRecord
       /\ cstack'[n].f = g /\ cstack'[n].low = p /\ cstack'[n].cleaning = "forms"
       /\ cstack'[n].first = cstack[n].first /\ cstack'[n].target = cstack[n].target
       /\ TopMoves(n, cstack'[n])
       /\ cstack'[p].kind = cstack[p].kind /\ cstack'[p].frame = cstack[p].frame
       /\ cstack'[p].tags = cstack[p].tags
       /\ cstack'[p].started = cstack[p].started + 1
       /\ \A m \in 1 .. n - 1 : m # p => cstack'[m] = cstack[m]
  BY <1>1, <1>2, <1>3, <1>5, <1>6, <1>7, <1>16, CleanupMoves
<1>18. PICK u \in UnwindRecord : u = cstack'[n] BY <1>17
<1>19. /\ u.low = p /\ u.first = cstack[n].first /\ u.target = cstack[n].target
       /\ u.cleaning = "forms" /\ u.f = g /\ TopMoves(n, u)
  BY <1>17, <1>18
<1>20. Linked' = Linked BY <1>1, <1>5, <1>6, <1>7, <1>8, <1>19, LinkedWalk
<1>21. u.low <= cstack[n].low
  <2>1. cstack[n].low \in Nat BY <1>5 DEF UnwindRecord
  <2>2. p < n /\ Ahead(p, n) BY <1>5, <1>6 DEF Linked
  <2>3. QED BY <1>6, <1>19, <2>1, <2>2 DEF Ahead
<1>22. \A h \in DOMAIN frames :
         /\ h \in DOMAIN frames'
         /\ frames'[h].type = frames[h].type /\ frames'[h].jmp = frames[h].jmp
         /\ frames'[h].next = frames[h].next /\ frames'[h].last = frames[h].last
  BY <1>13, <1>15
<1>23. /\ FrameInv' /\ Unwinds' = Unwinds /\ Target(n)'
       /\ \A r \in Unwinds : r # n =>
            (cstack[r].low <= r /\ (Alive(r) => Position(r) /\ Target(r) /\ First(r) /\ Above(r)))'
       /\ \A h : InnermostOf(Linked, cstack, h, n) => /\ InnermostOf(Linked', cstack', h, n)
                                                      /\ InnermostOf(Linked', cstack', h, n + 1)
  BY <1>1, <1>3, <1>5, <1>19, <1>20, <1>21, <1>22, WalkStays
<1>24. Alive(n) BY <1>1, <1>8, Activations DEF Alive
<1>25. Position(n) /\ First(n) BY <1>5, <1>8, <1>24 DEF UnwindInv
<1>26. \A m \in Linked : m \in 1 .. n - 1 /\ m < n BY <1>1, <1>5, <1>8, <1>19, LinkedTop
<1>27. Position(n)'
  <2>1. InnermostOf(Linked, cstack, g, n) BY <1>5, <1>7, <1>25 DEF Position, Innermost
  <2>2. InnermostOf(Linked', cstack', g, n) BY <1>23, <2>1
  <2>3. p \in Linked' /\ p < n /\ cstack'[p].frame = g BY <1>6, <1>7, <1>17, <1>20
  <2>4. QED BY <1>17, <2>2, <2>3 DEF Position, Innermost
<1>28. First(n)'
  <2>1. \A m \in Linked : cstack'[m].frame = cstack[m].frame BY <1>17, <1>26
  <2>2. QED BY <1>5, <1>7, <1>17, <1>20, <1>25, <2>1 DEF First
<1>29. Len(cstack') = n BY <1>19 DEF TopMoves
<1>30. Above(n)' BY <1>29 DEF Above
<1>31. (cstack[n].low <= n)' BY <1>6, <1>17
<1>32. UnwindInv' BY <1>23, <1>27, <1>28, <1>30, <1>31 DEF UnwindInv
<1>33. LastInv'
  <2>1. CASE u.f = u.first
    <3>1. LastKnown BY <1>5, <1>7, <1>19, <2>1 DEF LastKnown
    <3>2. InnermostOf(Linked, cstack, last, n + 1) BY <1>1, <1>8, <3>1 DEF LastInv, Innermost
    <3>3. \A m \in Linked : m < n + 1 <=> m < n BY <1>26
    <3>4. Linked \subseteq Nat /\ n + 1 \in Nat BY <1>26
    <3>5. InnermostOf(Linked, cstack, last, n) BY <3>2, <3>3, <3>4, InnermostLater
    <3>6. InnermostOf(Linked', cstack', last, n + 1) BY <1>23, <3>5
    <3>7. QED BY <1>3, <1>29, <3>6 DEF LastInv, Innermost
  <2>2. CASE u.f # u.first
    <3>1. Top' = u /\ u.kind = "unwind" BY <1>18, <1>29 DEF Top, UnwindRecord
    <3>2. cstack' # << >> BY <1>5, <1>29
    <3>3. ~LastKnown' BY <1>19, <2>2, <3>1, <3>2 DEF LastKnown
    <3>4. QED BY <3>3 DEF LastInv
  <2>3. QED BY <2>1, <2>2
<1>34. StackTypes' BY <1>3, <1>8, <1>15, <1>17 DEF StackTypes
<1>35. CleanupInv'
  <2>1. ASSUME NEW k \in 1 .. n PROVE CleanupOK(k)'
    <3>1. CleanupOK(k) BY <1>1, <1>8, <2>1, Activations DEF CleanupInv
    <3>2. CASE k = n BY <1>17, <3>2 DEF CleanupOK, UnwindRecord
    <3>3. CASE k = p
      <4>1. cstack[p].started = CleanupForms - frames[g].forms
        BY <1>6, <1>7, <1>9, <3>1, <3>3 DEF CleanupOK
      <4>2. cstack'[p].started = CleanupForms - frames'[g].forms
        <5>1. frames'[g].forms = frames[g].forms - 1 BY <1>13, <1>15
        <5>2. cstack'[p].started = cstack[p].started + 1 BY <1>17
        <5>3. QED BY <1>12, <4>1, <5>1, <5>2, ControlAssumption
      <4>3. cstack'[p].kind = "uwp_forms" /\ cstack'[p].frame = g /\ p \in Linked'
        BY <1>6, <1>7, <1>9, <1>17, <1>20
      <4>4. QED BY <3>3, <4>2, <4>3 DEF CleanupOK
    <3>4. CASE k # n /\ k # p
      <4>1. cstack'[k] = cstack[k] /\ (k \in Linked' <=> k \in Linked) BY <1>17, <1>20, <3>4
      <4>2. k \in Linked => frames'[cstack[k].frame].forms = frames[cstack[k].frame].forms
        BY <1>8, <1>10, <1>15, <3>4 DEF FrameInv, FrameOK
      <4>3. QED BY <3>1, <4>1, <4>2, CleanupKept
    <3>5. QED BY <3>2, <3>3, <3>4
  <2>2. QED BY <1>17, <2>1 DEF CleanupInv, TopMoves
<1>36. ~trapped' /\ PoolInv' BY <1>3, <1>8 DEF ExitInv, PoolInv, IsInjective
<1>37. Keeps
  <2>1. PICK c \in Nat : c = n - 1 BY <1>5
  <2>2. \A m \in 1 .. c : /\ cstack'[m].kind = cstack[m].kind
                          /\ cstack'[m].frame = cstack[m].frame
                          /\ cstack'[m].tags = cstack[m].tags
    BY <1>17, <2>1
  <2>3. \A k \in Linked' : k \in 1 .. c BY <1>20, <1>26, <2>1
  <2>4. \A h \in DOMAIN frames : frames'[h].tags = frames[h].tags BY <1>13, <1>15
  <2>5. \A k \in Linked : cstack[k].frame \in DOMAIN frames BY <1>8 DEF FrameInv, FrameOK
  <2>6. KeepsUpTo(c) BY <1>20, <2>2, <2>3, <2>4, <2>5 DEF KeepsUpTo
  <2>7. QED BY <2>6, KeepsFrom
<1>38. QED BY <1>37, <1>23, <1>32, <1>33, <1>34, <1>35, <1>36 DEF ExitInv

(* cleanup_returns: the loop goes on where it was.                           *)
LEMMA ReturnStep ==
  ASSUME ExitInv, cleanup_returns
  PROVE  ExitInv' /\ Keeps
<1>1. PICK n \in Nat : n = Len(cstack) BY Activations DEF ExitInv
<1>2. StackTypes /\ FrameInv /\ CleanupInv /\ PoolInv /\ UnwindInv /\ LastInv BY DEF ExitInv
<1>3. /\ Running /\ cstack # << >> /\ Top.kind = "unwind"
      /\ cstack' = Step(IF Top.cleaning = "forms" THEN Top.f ELSE Top.next, NULL, Top.low, "no")
      /\ UNCHANGED <<frames, pool, last, last_tag, trapped>>
  BY DEF cleanup_returns
<1>4. n > 0
  <2>1. cstack \in Seq(FormRecord \cup UnwindRecord) BY <1>2 DEF StackTypes
  <2>2. QED BY <1>1, <1>3, <2>1, EmptySeq
<1>5. /\ DOMAIN cstack = 1 .. n /\ Unwinds \subseteq 1 .. n
      /\ \A r \in Unwinds : cstack[r] \in UnwindRecord
  BY <1>1, <1>2, Activations
<1>6. n \in Unwinds /\ cstack[n] = Top /\ cstack[n] \in UnwindRecord
  BY <1>1, <1>3, <1>4, <1>5 DEF Top, Unwinds
<1>7. cstack[n].cleaning \in {"forms", "code"} BY <1>3, <1>6 DEF Running, UnwindRecord
<1>8. Alive(n) BY <1>1, <1>5 DEF Alive
<1>9. Position(n) /\ First(n) /\ cstack[n].low <= n BY <1>2, <1>6, <1>8 DEF UnwindInv
<1>10. PICK g \in Nat : g = IF cstack[n].cleaning = "forms" THEN cstack[n].f ELSE cstack[n].next
  BY <1>6 DEF UnwindRecord
<1>11. PICK low \in Nat : low = cstack[n].low BY <1>6 DEF UnwindRecord
<1>12. cstack' = Step(g, NULL, low, "no") BY <1>3, <1>6, <1>10, <1>11
<1>13. NULL \in Nat BY DEF NULL
<1>14. MovedTo(cstack', n, g, NULL, low, "no")
  BY <1>1, <1>2, <1>6, <1>10, <1>11, <1>12, <1>13, StepMoves
<1>15. /\ cstack' \in Seq(FormRecord \cup UnwindRecord) /\ Len(cstack') = n
       /\ DOMAIN cstack' = 1 .. n
       /\ \A m \in 1 .. n - 1 : cstack'[m] = cstack[m]
       /\ cstack'[n] \in UnwindRecord
       /\ cstack'[n].f = g /\ cstack'[n].low = low /\ cstack'[n].cleaning = "no"
       /\ cstack'[n].first = cstack[n].first /\ cstack'[n].target = cstack[n].target
  BY <1>14 DEF MovedTo
<1>16. PICK u \in UnwindRecord : u = cstack'[n] BY <1>15
<1>17. TopMoves(n, u)
  <2>1. cstack'[n].kind = cstack[n].kind BY <1>6, <1>15 DEF UnwindRecord
  <2>2. \A m \in 1 .. n : cstack'[m].kind = cstack[m].kind BY <1>15, <2>1
  <2>3. QED BY <1>15, <1>16, <2>2 DEF TopMoves
<1>18. InnermostOf(Linked, cstack, g, n) BY <1>7, <1>9, <1>10 DEF Position, Innermost
<1>19. /\ u.low = cstack[n].low /\ u.cleaning # "code" /\ u.target = cstack[n].target
       /\ u.low <= cstack[n].low
  BY <1>11, <1>15, <1>16
<1>20. \/ cstack[n].cleaning # "code" /\ u.f = cstack[n].f
       \/ cstack[n].cleaning = "code" /\ u.f # cstack[u.low].frame
  BY <1>7, <1>9, <1>10, <1>15, <1>16, <1>19 DEF Position
<1>21. Linked' = Linked BY <1>1, <1>2, <1>6, <1>17, <1>19, <1>20, LinkedReturn
<1>22. /\ FrameInv' /\ Unwinds' = Unwinds /\ Target(n)'
       /\ \A r \in Unwinds : r # n =>
            (cstack[r].low <= r /\ (Alive(r) => Position(r) /\ Target(r) /\ First(r) /\ Above(r)))'
       /\ \A h : InnermostOf(Linked, cstack, h, n) => /\ InnermostOf(Linked', cstack', h, n)
                                                      /\ InnermostOf(Linked', cstack', h, n + 1)
  BY <1>1, <1>3, <1>6, <1>17, <1>19, <1>21, WalkStays
<1>23. \A m \in Linked : m \in 1 .. n - 1 /\ m < n BY <1>1, <1>2, <1>6, <1>17, LinkedTop
<1>24. Position(n)' BY <1>15, <1>18, <1>22 DEF Position, Innermost
<1>25. First(n)'
  <2>1. \A m \in Linked : cstack'[m].frame = cstack[m].frame BY <1>15, <1>23
  <2>2. QED BY <1>7, <1>9, <1>10, <1>15, <1>21, <2>1 DEF First
<1>26. Above(n)' /\ (cstack[n].low <= n)' BY <1>9, <1>11, <1>15 DEF Above
<1>27. UnwindInv' BY <1>22, <1>24, <1>25, <1>26 DEF UnwindInv
<1>28. LastInv'
  <2>1. CASE LastKnown
    <3>1. InnermostOf(Linked, cstack, last, n + 1) BY <1>1, <1>2, <2>1 DEF LastInv, Innermost
    <3>2. \A m \in Linked : m < n + 1 <=> m < n BY <1>23
    <3>3. Linked \subseteq Nat /\ n + 1 \in Nat BY <1>23
    <3>4. InnermostOf(Linked, cstack, last, n) BY <3>1, <3>2, <3>3, InnermostLater
    <3>5. InnermostOf(Linked', cstack', last, n + 1) BY <1>22, <3>4
    <3>6. QED BY <1>3, <1>15, <3>5 DEF LastInv, Innermost
  <2>2. CASE ~LastKnown
    <3>1. cstack[n].cleaning = "forms" /\ cstack[n].f # cstack[n].first
      BY <1>6, <1>7, <2>2 DEF LastKnown
    <3>2. Top' = u /\ u.kind = "unwind" BY <1>15, <1>16 DEF Top, UnwindRecord
    <3>3. cstack' # << >> BY <1>4, <1>15
    <3>4. u.f # u.first /\ u.cleaning # "code" BY <1>10, <1>15, <1>16, <3>1
    <3>5. ~LastKnown' BY <3>2, <3>3, <3>4 DEF LastKnown
    <3>6. QED BY <3>5 DEF LastInv
  <2>3. QED BY <2>1, <2>2
<1>29. StackTypes' BY <1>2, <1>3, <1>15 DEF StackTypes
<1>30. CleanupInv'
  <2>1. ASSUME NEW k \in 1 .. n PROVE CleanupOK(k)'
    <3>1. CleanupOK(k) BY <1>2, <1>5, <2>1 DEF CleanupInv
    <3>2. CASE k = n BY <1>15, <3>2 DEF CleanupOK, UnwindRecord
    <3>3. CASE k # n
      <4>1. cstack'[k] = cstack[k] BY <1>15, <3>3
      <4>2. QED BY <1>3, <1>21, <3>1, <4>1, CleanupKept
    <3>4. QED BY <3>2, <3>3
  <2>2. QED BY <1>15, <2>1 DEF CleanupInv
<1>31. ~trapped' /\ PoolInv' BY <1>2, <1>3 DEF ExitInv, PoolInv, IsInjective
<1>32. Keeps
  <2>1. PICK c \in Nat : c = n - 1 BY <1>4
  <2>2. \A k \in Linked' : k \in 1 .. c BY <1>21, <1>23, <2>1
  <2>3. KeepsUpTo(c) BY <1>3, <1>15, <1>21, <2>1, <2>2 DEF KeepsUpTo
  <2>4. QED BY <2>3, KeepsFrom
<1>33. QED BY <1>32, <1>22, <1>27, <1>28, <1>29, <1>30, <1>31 DEF ExitInv

------------------------------------------------------------------------------
(* Ends of forms, and jumps.                                                 *)

(* The innermost form up to k is not affected by what is above.              *)
LEMMA InnermostCut ==
  ASSUME StackTypes, NEW k \in Nat, Linked' = {m \in Linked : m <= k}, NEW g,
         \A m \in 1 .. k : cstack'[m].frame = cstack[m].frame,
         InnermostOf(Linked, cstack, g, k + 1)
  PROVE  InnermostOf(Linked', cstack', g, k + 1)
<1>1. PICK i \in Nat : i = k + 1 OBVIOUS
<1>2. \A m \in Linked : m \in Nat /\ m > 0 BY Activations
<1>3. Linked \subseteq Nat /\ Linked' \subseteq Nat BY <1>2
<1>4. /\ \A m \in Linked : m < i => cstack'[m].frame = cstack[m].frame
      /\ \A m \in Nat : m < i => (m \in Linked <=> m \in Linked')
      /\ InnermostOf(Linked, cstack, g, i)
  BY <1>1, <1>2
<1>5. InnermostOf(Linked', cstack', g, i) BY <1>3, <1>4, InnermostKept
<1>6. QED BY <1>1, <1>5

(* Activations above k are left; no unwinding that is left has passed k.     *)
LEMMA CutStep ==
  ASSUME ExitInv, NEW n \in Nat, n = Len(cstack), NEW k \in 0 .. n,
         cstack' = SubSeq(cstack, 1, k),
         \A s \in Unwinds :
           k < s => (k < cstack[s].low \/ (k = cstack[s].low /\ k \in Linked)),
         frames' \in Seq(FrameRecord), pool' \in Seq(DOMAIN frames'), last' \in Nat,
         last_tag' \in Seq(Tag), PoolInv', ~trapped',
         \A j \in Linked : j <= k => /\ cstack[j].frame \in DOMAIN frames'
                                     /\ cstack[j].frame \notin Range(pool)'
                                     /\ frames'[cstack[j].frame] = frames[cstack[j].frame],
         InnermostOf(Linked, cstack, last', k + 1)
  PROVE  ExitInv' /\ Keeps
<1>1. StackTypes /\ FrameInv /\ CleanupInv /\ UnwindInv BY DEF ExitInv
<1>2. /\ DOMAIN cstack = 1 .. n /\ Unwinds \subseteq 1 .. n /\ Linked \subseteq 1 .. n
      /\ \A r \in Unwinds : cstack[r] \in UnwindRecord
  BY <1>1, Activations
<1>3. /\ Len(cstack') = k
      /\ \A m \in 1 .. k : cstack'[m] = cstack[m]
      /\ Linked' = {m \in Linked : m <= k}
      /\ Unwinds' = {r \in Unwinds : r <= k}
      /\ \A r \in Unwinds' : Alive(r)' => Alive(r)
  BY <1>1, LinkedCut
<1>4. k \in Nat /\ k <= n OBVIOUS
<1>5. /\ Linked \subseteq Nat /\ Linked' \subseteq Nat /\ Linked' \subseteq Nat \ {0}
      /\ \A m \in Linked : m \in Nat /\ m > 0
  <2>1. PICK L : L = Linked OBVIOUS
  <2>2. L \subseteq 1 .. n BY <1>2, <2>1
  <2>3. \A m \in L : m \in Nat /\ m > 0 BY <2>2
  <2>4. \A m \in Linked : m \in Nat /\ m > 0 BY <2>1, <2>3
  <2>5. Linked' \subseteq Linked BY <1>3
  <2>6. QED BY <2>4, <2>5
<1>6. ASSUME NEW m \in 1 .. k PROVE SameBelow(m) BY <1>3, <1>4 DEF SameBelow
<1>7. FrameInv'
  <2>1. ASSUME NEW j \in Linked' PROVE FrameOK(j)'
    <3>1. j \in Linked /\ j <= k /\ j \in 1 .. k BY <1>3, <1>4, <1>5
    <3>2. PICK h : h = cstack[j].frame OBVIOUS
    <3>3. FrameOK(j) BY <1>1, <3>1 DEF FrameInv
    <3>4. h \in DOMAIN frames' /\ h \notin Range(pool)' /\ frames'[h] = frames[h] BY <3>1, <3>2
    <3>5. SameBelow(j) /\ cstack'[j].kind = cstack[j].kind /\ h = cstack'[j].frame
      BY <1>3, <1>6, <3>1, <3>2
    <3>6. QED BY <1>1, <1>5, <3>1, <3>2, <3>3, <3>4, <3>5, FormKept
  <2>2. QED BY <2>1 DEF FrameInv
<1>8. UnwindInv'
  <2>1. ASSUME NEW r \in Unwinds'
        PROVE  (cstack[r].low <= r /\ (Alive(r) => Position(r) /\ Target(r) /\ First(r) /\ Above(r)))'
    <3>1. r \in Unwinds /\ r <= k /\ r \in 1 .. n BY <1>2, <1>3
    <3>2. r \in Unwinds /\ r \in 1 .. k /\ cstack'[r] = cstack[r] BY <1>3, <1>4, <3>1
    <3>3. cstack[r].low <= r BY <1>1, <3>2 DEF UnwindInv
    <3>4. SUFFICES ASSUME Alive(r)' PROVE (Position(r) /\ Target(r) /\ First(r) /\ Above(r))'
      BY <3>2, <3>3
    <3>5. Alive(r) BY <1>3, <3>4
    <3>6. Untouched(r) BY <1>6, <3>2 DEF Untouched
    <3>7. Position(r) /\ Target(r) /\ First(r) /\ Above(r) BY <1>1, <3>2, <3>5 DEF UnwindInv
    <3>8. Position(r)' /\ Target(r)' /\ First(r)' BY <1>1, <1>5, <3>2, <3>6, <3>7, UnwindKept
    <3>9. Above(r)' BY <1>3, <1>4, <3>2, <3>7 DEF Above
    <3>10. QED BY <3>8, <3>9
  <2>2. QED BY <2>1 DEF UnwindInv
<1>9. LastInv'
  <2>1. \A m \in 1 .. k : cstack'[m].frame = cstack[m].frame BY <1>3
  <2>2. InnermostOf(Linked', cstack', last', k + 1) BY <1>1, <1>3, <1>4, <2>1, InnermostCut
  <2>3. QED BY <1>3, <2>2 DEF LastInv, Innermost
<1>10. cstack' \in Seq(FormRecord \cup UnwindRecord) BY <1>1, <1>4, SubSeqProperties DEF StackTypes
<1>11. StackTypes' BY <1>10 DEF StackTypes
<1>12. CleanupInv'
  <2>1. ASSUME NEW j \in 1 .. k PROVE CleanupOK(j)'
    <3>1. CleanupOK(j) BY <1>1, <1>2, <1>4, <2>1 DEF CleanupInv
    <3>2. cstack'[j] = cstack[j] /\ (j \in Linked' <=> j \in Linked) BY <1>3, <1>4
    <3>3. j \in Linked => frames'[cstack[j].frame].forms = frames[cstack[j].frame].forms BY <1>4
    <3>4. QED BY <3>1, <3>2, <3>3, CleanupKept
  <2>2. DOMAIN cstack' = 1 .. k BY <1>3, <1>10
  <2>3. QED BY <2>1, <2>2 DEF CleanupInv
<1>13. Keeps
  <2>1. \A m \in 1 .. k : m \in Linked' <=> m \in Linked BY <1>3, <1>4
  <2>2. \A j \in Linked' : j \in 1 .. k BY <1>3, <1>5
  <2>3. \A j \in Linked : j \in 1 .. k =>
          frames'[cstack[j].frame].tags = frames[cstack[j].frame].tags
    BY <1>4
  <2>4. KeepsUpTo(k) BY <1>3, <1>4, <2>1, <2>2, <2>3 DEF KeepsUpTo
  <2>5. QED BY <2>4, KeepsFrom
<1>14. QED BY <1>13, <1>7, <1>8, <1>9, <1>11, <1>12 DEF ExitInv

(* The form on top is linked: no unwinding is above it.                      *)
LEMMA TopLinked ==
  ASSUME ExitInv, cstack # << >>, Top.kind \in AllKinds, NEW n \in Nat, n = Len(cstack)
  PROVE  /\ n > 0 /\ n \in Linked /\ n \notin Unwinds /\ cstack[n] = Top
         /\ \A s \in Unwinds : s < n
<1>1. StackTypes BY DEF ExitInv
<1>2. cstack \in Seq(FormRecord \cup UnwindRecord) BY <1>1 DEF StackTypes
<1>3. n > 0 BY <1>2, EmptySeq
<1>4. DOMAIN cstack = 1 .. n /\ Unwinds \subseteq 1 .. n BY <1>1, Activations
<1>5. cstack[n] = Top BY DEF Top
<1>6. n \notin Unwinds BY <1>5 DEF Unwinds, AllKinds
<1>7. \A s \in Unwinds : s < n BY <1>4, <1>6
<1>8. n \in Linked BY <1>3, <1>4, <1>5, <1>7 DEF Linked
<1>9. QED BY <1>3, <1>5, <1>6, <1>7, <1>8

(* A linked form and its frame, when the frame is released.                  *)
LEMMA ReleasesLinked ==
  ASSUME ExitInv, NEW p \in Linked, NEW g, g = cstack[p].frame, release_frame(g)
  PROVE  /\ frames' \in Seq(FrameRecord) /\ DOMAIN frames' = DOMAIN frames
         /\ pool' \in Seq(DOMAIN frames')
         /\ PoolInv'
         /\ frames[g].last \in Nat /\ frames[g].tags \in Seq(Tag)
         /\ InnermostOf(Linked, cstack, frames[g].last, p)
         /\ \A j \in Linked : j # p => /\ cstack[j].frame \in DOMAIN frames'
                                       /\ cstack[j].frame \notin Range(pool)'
                                       /\ frames'[cstack[j].frame] = frames[cstack[j].frame]
<1>1. StackTypes /\ PoolInv /\ FrameInv BY DEF ExitInv
<1>2. /\ g \in DOMAIN frames /\ g \notin Range(pool)
      /\ InnermostOf(Linked, cstack, frames[g].last, p)
  BY <1>1 DEF FrameInv, FrameOK, Innermost
<1>3. /\ frames' \in Seq(FrameRecord) /\ DOMAIN frames' = DOMAIN frames
      /\ pool' \in Seq(DOMAIN frames)
      /\ PoolInv'
      /\ \A h \in Range(pool)' : h \in Range(pool) \/ h = g
      /\ \A h \in DOMAIN frames : h # g => frames'[h] = frames[h]
  BY <1>1, <1>2, Releases
<1>4. \A m \in Linked : m # p => cstack[m].frame # g BY <1>1, FramesDiffer
<1>5. \A j \in Linked : cstack[j].frame \in DOMAIN frames /\ cstack[j].frame \notin Range(pool)
  BY <1>1 DEF FrameInv, FrameOK
<1>6. \A j \in Linked : j # p => /\ cstack[j].frame \in DOMAIN frames'
                                 /\ cstack[j].frame \notin Range(pool)'
                                 /\ frames'[cstack[j].frame] = frames[cstack[j].frame]
  BY <1>3, <1>4, <1>5
<1>7. frames[g] \in FrameRecord BY <1>1, <1>2 DEF StackTypes
<1>8. frames[g].last \in Nat /\ frames[g].tags \in Seq(Tag) BY <1>7 DEF FrameRecord
<1>9. QED BY <1>2, <1>3, <1>6, <1>8

(* leave_block() and leave_tagbody: the form on top is left.                 *)
LEMMA LeaveStep ==
  ASSUME ExitInv, leave_block \/ leave_tagbody
  PROVE  ExitInv' /\ Keeps
<1>1. PICK n \in Nat : n = Len(cstack) BY Activations DEF ExitInv
<1>2. PICK g : g = Top.frame OBVIOUS
<1>3. /\ cstack # << >> /\ Top.kind \in AllKinds
      /\ last' = frames[g].last /\ release_frame(g) /\ Pop /\ UNCHANGED trapped
      /\ last_tag' = last_tag \/ last_tag' = frames[g].tags
  BY <1>2 DEF leave_block, leave_tagbody, AllKinds, TagbodyKinds
<1>4. /\ n > 0 /\ n \in Linked /\ n \notin Unwinds /\ cstack[n] = Top
      /\ \A s \in Unwinds : s < n
  BY <1>1, <1>3, TopLinked
<1>5. g = cstack[n].frame BY <1>2, <1>4
<1>6. /\ frames' \in Seq(FrameRecord) /\ DOMAIN frames' = DOMAIN frames
      /\ pool' \in Seq(DOMAIN frames')
      /\ PoolInv'
      /\ frames[g].last \in Nat /\ frames[g].tags \in Seq(Tag)
      /\ InnermostOf(Linked, cstack, frames[g].last, n)
      /\ \A j \in Linked : j # n => /\ cstack[j].frame \in DOMAIN frames'
                                    /\ cstack[j].frame \notin Range(pool)'
                                    /\ frames'[cstack[j].frame] = frames[cstack[j].frame]
  BY <1>3, <1>4, <1>5, ReleasesLinked
<1>7. PICK k \in 0 .. n : k = n - 1 BY <1>4
<1>8. cstack' = SubSeq(cstack, 1, k) BY <1>1, <1>3, <1>7 DEF Pop, Front
<1>9. Unwinds \subseteq 1 .. n BY <1>1, Activations DEF ExitInv
<1>10. \A s \in Unwinds : ~(k < s) BY <1>4, <1>7, <1>9
<1>11. last' \in Nat /\ last_tag' \in Seq(Tag) /\ ~trapped'
  BY <1>3, <1>6 DEF ExitInv, StackTypes
<1>12. k + 1 = n BY <1>7
<1>13. InnermostOf(Linked, cstack, last', k + 1) BY <1>3, <1>6, <1>12
<1>14. \A j \in Linked : j <= k => /\ cstack[j].frame \in DOMAIN frames'
                                   /\ cstack[j].frame \notin Range(pool)'
                                   /\ frames'[cstack[j].frame] = frames[cstack[j].frame]
  BY <1>6, <1>7
<1>15. QED BY <1>1, <1>6, <1>8, <1>10, <1>11, <1>13, <1>14, CutStep

(* What the frames of linked forms are if no frame changes.                  *)
LEMMA FramesUnchanged ==
  ASSUME ExitInv, UNCHANGED <<frames, pool>>
  PROVE  /\ frames' \in Seq(FrameRecord) /\ pool' \in Seq(DOMAIN frames') /\ PoolInv'
         /\ \A j \in Linked : /\ cstack[j].frame \in DOMAIN frames'
                              /\ cstack[j].frame \notin Range(pool)'
                              /\ frames'[cstack[j].frame] = frames[cstack[j].frame]
BY DEF ExitInv, StackTypes, PoolInv, IsInjective, Range, FrameInv, FrameOK

(* end_unwind_protect: the last cleanup form is done.                        *)
LEMMA EndStep ==
  ASSUME ExitInv, end_unwind_protect
  PROVE  ExitInv' /\ Keeps
<1>1. PICK n \in Nat : n = Len(cstack) BY Activations DEF ExitInv
<1>2. StackTypes /\ LastInv BY DEF ExitInv
<1>3. /\ cstack # << >> /\ Top.kind = "cleanup" /\ Pop
      /\ UNCHANGED <<frames, pool, last, last_tag, trapped>>
  BY DEF end_unwind_protect
<1>4. cstack \in Seq(FormRecord \cup UnwindRecord) BY <1>2 DEF StackTypes
<1>5. n > 0 BY <1>1, <1>3, <1>4, EmptySeq
<1>6. cstack[n].kind = "cleanup" BY <1>1, <1>3 DEF Top
<1>7. Unwinds \subseteq 1 .. n /\ Linked \subseteq 1 .. n BY <1>1, <1>2, Activations
<1>8. n \notin Unwinds /\ n \notin Linked BY <1>6 DEF Unwinds, Linked, AllKinds
<1>9. PICK k \in 0 .. n : k = n - 1 BY <1>5
<1>10. cstack' = SubSeq(cstack, 1, k) BY <1>1, <1>3, <1>9 DEF Pop, Front
<1>11. \A s \in Unwinds : ~(k < s) BY <1>7, <1>8, <1>9
<1>12. last' \in Nat /\ last_tag' \in Seq(Tag) /\ ~trapped'
  BY <1>2, <1>3 DEF ExitInv, StackTypes
<1>13. InnermostOf(Linked, cstack, last', k + 1)
  <2>1. InnermostOf(Linked, cstack, last, n + 1) BY <1>1, <1>2, <1>3 DEF LastInv, LastKnown, Innermost
  <2>2. \A m \in Linked : m \in Nat /\ (m < n + 1 <=> m < n) BY <1>7, <1>8
  <2>3. Linked \subseteq Nat /\ n + 1 \in Nat BY <2>2
  <2>4. InnermostOf(Linked, cstack, last, n) BY <2>1, <2>2, <2>3, InnermostLater
  <2>5. k + 1 = n /\ last' = last BY <1>3, <1>9
  <2>6. QED BY <2>4, <2>5
<1>14. /\ frames' \in Seq(FrameRecord) /\ pool' \in Seq(DOMAIN frames') /\ PoolInv'
       /\ \A j \in Linked : /\ cstack[j].frame \in DOMAIN frames'
                            /\ cstack[j].frame \notin Range(pool)'
                            /\ frames'[cstack[j].frame] = frames[cstack[j].frame]
  BY <1>3, FramesUnchanged
<1>15. QED BY <1>1, <1>10, <1>11, <1>12, <1>13, <1>14, CutStep

(* An unwinding on top that is at its end is at its target: the target is    *)
(* linked, and the innermost of the linked forms.                            *)
LEMMA TargetAt ==
  ASSUME ExitInv, Unwinding, AtEnd, Top.target # PRIMORDIAL, NEW n \in Nat, n = Len(cstack)
  PROVE  \E p \in Linked : /\ p \in 1 .. n - 1
                           /\ Top.target = cstack[p].frame
                           /\ cstack[p].kind \in AllKinds \ UwpKinds
                           /\ \A m \in Linked : m <= p
<1>1. StackTypes /\ FrameInv /\ UnwindInv BY DEF ExitInv
<1>2. /\ DOMAIN cstack = 1 .. n /\ Linked \subseteq 1 .. n /\ Unwinds \subseteq 1 .. n
  BY <1>1, Activations
<1>3. cstack # << >> /\ cstack \in Seq(FormRecord \cup UnwindRecord)
  BY <1>1 DEF Unwinding, StackTypes
<1>4. n > 0 BY <1>3, EmptySeq
<1>5. n \in Unwinds /\ cstack[n] = Top BY <1>2, <1>4 DEF Unwinding, Top, Unwinds
<1>6. Alive(n) BY <1>2 DEF Alive
<1>7. Target(n) BY <1>1, <1>5, <1>6 DEF UnwindInv
<1>8. PICK k \in Linked : /\ k < n /\ Top.target = cstack[k].frame
                          /\ cstack[k].kind \in AllKinds \ UwpKinds
  BY <1>5, <1>7 DEF Target
<1>9. k \in 1 .. n - 1 BY <1>2, <1>8
<1>10. InnermostOf(Linked, cstack, Top.f, n)
  BY <1>1, <1>5, <1>6 DEF Unwinding, UnwindInv, Position, Innermost
<1>11. Top.f # NULL
  <2>1. SUFFICES ASSUME Top.f = NULL PROVE FALSE OBVIOUS
  <2>2. PICK j \in Linked : j < n /\ NULL = cstack[j].frame BY <1>8, <1>9, <1>10, <2>1 DEF InnermostOf
  <2>3. QED BY <1>1, <2>2, FramesDiffer DEF NULL
<1>12. PICK j \in Linked : j < n /\ Top.f = cstack[j].frame /\ \A m \in Linked : m < n => m <= j
  BY <1>10, <1>11 DEF InnermostOf
<1>13. cstack[j].frame = cstack[k].frame BY <1>8, <1>11, <1>12 DEF AtEnd
<1>14. j = k BY <1>1, <1>13, FramesDiffer
<1>15. n \notin Linked BY <1>5 DEF Linked, Unwinds, AllKinds
<1>16. \A m \in Linked : m < n BY <1>2, <1>15
<1>17. QED BY <1>8, <1>9, <1>12, <1>14, <1>16

(* No unwinding has passed a linked form.                                    *)
LEMMA LinkedAhead ==
  ASSUME StackTypes, NEW p \in Linked, NEW s \in Unwinds
  PROVE  /\ p \in Nat /\ s \in Nat /\ cstack[s].low \in Nat /\ s # p
         /\ p < s => p <= cstack[s].low
<1>1. cstack[s] \in UnwindRecord /\ p \in Nat /\ s \in Nat BY Activations
<1>2. cstack[s].low \in Nat BY <1>1 DEF UnwindRecord
<1>3. s # p BY DEF Linked, Unwinds, AllKinds
<1>4. p < s => Ahead(p, s) BY DEF Linked
<1>5. QED BY <1>1, <1>2, <1>3, <1>4 DEF Ahead

(* The jump to the form of the target, which is there.                       *)
LEMMA JumpStep ==
  ASSUME ExitInv, jump
  PROVE  ExitInv' /\ Keeps /\ CanJump(Top.target)
<1>1. PICK n \in Nat : n = Len(cstack) BY Activations DEF ExitInv
<1>2. PICK g : g = Top.target OBVIOUS
<1>3. /\ Unwinding /\ AtEnd /\ Top.target # PRIMORDIAL BY DEF jump
<1>4. PICK p \in Linked : /\ p \in 1 .. n - 1 /\ g = cstack[p].frame
                          /\ cstack[p].kind \in AllKinds \ UwpKinds
  BY <1>1, <1>2, <1>3, TargetAt
<1>5. StackTypes /\ FrameInv BY DEF ExitInv
<1>6. /\ g \in DOMAIN frames /\ frames[g].jmp = p /\ frames[g].type = cstack[p].kind
  BY <1>4, <1>5 DEF FrameInv, FrameOK
<1>7. /\ DOMAIN cstack = 1 .. n /\ Linked \subseteq 1 .. n /\ Unwinds \subseteq 1 .. n
      /\ cstack[p] \in FormRecord
  BY <1>1, <1>4, <1>5, Activations
<1>8. CanJump(g) BY <1>4, <1>6, <1>7 DEF CanJump
<1>9. jump_leave \/ jump_tagbody BY <1>2, <1>8 DEF jump
<1>10. g \in Nat \ {0} BY <1>4, <1>5, FramesDiffer
<1>11. ExitInv' /\ Keeps
  <2>1. CASE jump_leave
    <3>1. /\ last' = frames[g].last /\ last_tag' = frames[g].tags /\ release_frame(g)
          /\ cstack' = SubSeq(cstack, 1, p - 1) /\ UNCHANGED trapped
      BY <1>2, <1>6, <2>1 DEF jump_leave
    <3>2. /\ frames' \in Seq(FrameRecord) /\ DOMAIN frames' = DOMAIN frames
          /\ pool' \in Seq(DOMAIN frames')
          /\ PoolInv'
          /\ frames[g].last \in Nat /\ frames[g].tags \in Seq(Tag)
          /\ InnermostOf(Linked, cstack, frames[g].last, p)
          /\ \A j \in Linked : j # p => /\ cstack[j].frame \in DOMAIN frames'
                                        /\ cstack[j].frame \notin Range(pool)'
                                        /\ frames'[cstack[j].frame] = frames[cstack[j].frame]
      BY <1>4, <3>1, ReleasesLinked
    <3>3. PICK k \in 0 .. n : k = p - 1 BY <1>4
    <3>4. cstack' = SubSeq(cstack, 1, k) BY <3>1, <3>3
    <3>5. ASSUME NEW s \in Unwinds, k < s PROVE k < cstack[s].low
      BY <1>5, <3>3, <3>5, LinkedAhead
    <3>6. last' \in Nat /\ last_tag' \in Seq(Tag) /\ ~trapped' BY <3>1, <3>2 DEF ExitInv
    <3>7. k + 1 = p /\ \A j \in Linked : j <= k => j # p BY <1>4, <1>7, <3>3
    <3>8. InnermostOf(Linked, cstack, last', k + 1) BY <3>1, <3>2, <3>7
    <3>9. \A j \in Linked : j <= k => /\ cstack[j].frame \in DOMAIN frames'
                                      /\ cstack[j].frame \notin Range(pool)'
                                      /\ frames'[cstack[j].frame] = frames[cstack[j].frame]
      BY <3>2, <3>7
    <3>10. QED BY <1>1, <3>2, <3>4, <3>5, <3>6, <3>8, <3>9, CutStep
  <2>2. CASE jump_tagbody
    <3>1. /\ last' = g /\ last_tag' \in {cstack[p].tags, last_tag} /\ UNCHANGED <<frames, pool>>
          /\ cstack' = SubSeq(cstack, 1, p) /\ UNCHANGED trapped
      BY <1>2, <1>6, <2>2 DEF jump_tagbody
    <3>2. /\ frames' \in Seq(FrameRecord) /\ pool' \in Seq(DOMAIN frames') /\ PoolInv'
          /\ \A j \in Linked : /\ cstack[j].frame \in DOMAIN frames'
                               /\ cstack[j].frame \notin Range(pool)'
                               /\ frames'[cstack[j].frame] = frames[cstack[j].frame]
      BY <3>1, FramesUnchanged
    <3>3. p \in 0 .. n BY <1>4
    <3>4. ASSUME NEW s \in Unwinds, p < s
          PROVE  p < cstack[s].low \/ (p = cstack[s].low /\ p \in Linked)
      BY <1>5, <3>4, LinkedAhead
    <3>5. last' \in Nat /\ last_tag' \in Seq(Tag) /\ ~trapped'
      BY <1>5, <1>7, <1>10, <3>1 DEF ExitInv, StackTypes, FormRecord
    <3>6. InnermostOf(Linked, cstack, last', p + 1)
      <4>1. p < p + 1 /\ \A m \in Linked : m < p + 1 => m <= p BY <1>4, <1>7
      <4>2. QED BY <1>4, <3>1, <4>1 DEF InnermostOf
    <3>7. QED BY <1>1, <3>1, <3>2, <3>3, <3>4, <3>5, <3>6, CutStep
  <2>3. QED BY <1>9, <2>1, <2>2
<1>12. QED BY <1>2, <1>8, <1>11

(* EXT_reset() ends at the frame of main(): nothing is left.                 *)
LEMMA ResetJumpStep ==
  ASSUME ExitInv, jump_reset
  PROVE  ExitInv' /\ Keeps
<1>1. StackTypes BY DEF ExitInv
<1>2. /\ last' = NULL /\ last_tag' = << >> /\ cstack' = << >>
      /\ UNCHANGED <<frames, pool, trapped>>
  BY DEF jump_reset
<1>3. Len(cstack') = 0 /\ DOMAIN cstack' = {} /\ cstack' \in Seq(FormRecord \cup UnwindRecord)
  BY <1>2
<1>4. Linked' = {} /\ Unwinds' = {} BY <1>3 DEF Linked, Unwinds
<1>5. StackTypes' BY <1>1, <1>2, <1>3 DEF StackTypes, NULL
<1>6. FrameInv' /\ UnwindInv' /\ CleanupInv'
  BY <1>3, <1>4 DEF FrameInv, UnwindInv, CleanupInv
<1>7. LastInv' BY <1>2, <1>4 DEF LastInv, Innermost, InnermostOf
<1>8. PoolInv' /\ ~trapped' BY <1>2 DEF ExitInv, PoolInv, IsInjective
<1>9. Keeps
  BY <1>4 DEF Keeps
<1>10. QED BY <1>9, <1>5, <1>6, <1>7, <1>8 DEF ExitInv

(* leave_unwind_protect: the cleanup forms of the form on top run, and its   *)
(* frame is gone.                                                            *)
LEMMA LeaveProtectStep ==
  ASSUME ExitInv, leave_unwind_protect
  PROVE  ExitInv' /\ Keeps
<1>1. PICK n \in Nat : n = Len(cstack) BY Activations DEF ExitInv
<1>2. PICK g : g = Top.frame OBVIOUS
<1>3. /\ cstack # << >> /\ Top.kind \in AllKinds
      /\ last' = frames[g].last /\ release_frame(g)
      /\ cstack' = [cstack EXCEPT ![n].kind = "cleanup"]
      /\ UNCHANGED <<last_tag, trapped>>
  <2>1. UwpKinds \subseteq AllKinds BY DEF AllKinds, UwpKinds
  <2>2. QED BY <1>1, <1>2, <2>1 DEF leave_unwind_protect
<1>4. /\ n > 0 /\ n \in Linked /\ n \notin Unwinds /\ cstack[n] = Top
      /\ \A s \in Unwinds : s < n
  BY <1>1, <1>3, TopLinked
<1>5. g = cstack[n].frame BY <1>2, <1>4
<1>6. /\ frames' \in Seq(FrameRecord) /\ DOMAIN frames' = DOMAIN frames
      /\ pool' \in Seq(DOMAIN frames')
      /\ PoolInv'
      /\ frames[g].last \in Nat
      /\ \A j \in Linked : j # n => /\ cstack[j].frame \in DOMAIN frames'
                                    /\ cstack[j].frame \notin Range(pool)'
                                    /\ frames'[cstack[j].frame] = frames[cstack[j].frame]
  BY <1>3, <1>4, <1>5, ReleasesLinked
<1>7. StackTypes /\ FrameInv /\ UnwindInv /\ CleanupInv BY DEF ExitInv
<1>8. /\ Len(cstack') = n
      /\ \A m \in 1 .. n - 1 : cstack'[m] = cstack[m]
      /\ cstack'[n] \in FormRecord /\ cstack'[n].kind = "cleanup"
      /\ Linked' = Linked \ {n}
      /\ Unwinds' = Unwinds
  BY <1>1, <1>3, <1>4, <1>7, LinkedCleanup
<1>9. DOMAIN cstack = 1 .. n /\ Linked \subseteq 1 .. n /\ Unwinds \subseteq 1 .. n
  BY <1>1, <1>7, Activations
<1>10. cstack' \in Seq(FormRecord \cup UnwindRecord) /\ DOMAIN cstack' = 1 .. n
  <2>1. DOMAIN cstack' = 1 .. n BY <1>3, <1>9
  <2>2. cstack \in Seq(FormRecord \cup UnwindRecord) BY <1>7 DEF StackTypes
  <2>3. cstack' = [cstack EXCEPT ![n] = cstack'[n]] BY <1>3, <1>9
  <2>4. QED BY <1>8, <1>9, <2>1, <2>2, <2>3
<1>11. /\ Linked' \subseteq Nat \ {0} /\ Linked' \subseteq Nat
       /\ \A m \in Linked' : m \in Linked /\ m \in 1 .. n - 1 /\ m < n
  <2>1. \A m \in Linked' : m \in Linked /\ m # n BY <1>8
  <2>2. \A m \in 1 .. n : m # n => m \in 1 .. n - 1 /\ m < n /\ m \in Nat \ {0} OBVIOUS
  <2>3. QED BY <1>9, <2>1, <2>2
<1>12. ASSUME NEW k \in 1 .. n PROVE SameBelow(k) BY <1>8 DEF SameBelow
<1>13. FrameInv'
  <2>1. ASSUME NEW k \in Linked' PROVE FrameOK(k)'
    <3>1. k \in Linked /\ k # n /\ k \in 1 .. n - 1 /\ k \in 1 .. n BY <1>11
    <3>2. PICK h : h = cstack[k].frame OBVIOUS
    <3>3. FrameOK(k) BY <1>7, <3>1 DEF FrameInv
    <3>4. h \in DOMAIN frames' /\ frames'[h] = frames[h] /\ h \notin Range(pool)'
      BY <1>6, <3>1, <3>2
    <3>5. SameBelow(k) /\ cstack'[k].kind = cstack[k].kind /\ h = cstack'[k].frame
      BY <1>8, <1>12, <3>1, <3>2
    <3>6. QED BY <1>7, <1>11, <3>1, <3>2, <3>3, <3>4, <3>5, FormKept
  <2>2. QED BY <2>1 DEF FrameInv
<1>14. UnwindInv'
  <2>1. ASSUME NEW r \in Unwinds
        PROVE  (cstack[r].low <= r /\ (Alive(r) => Position(r) /\ Target(r) /\ First(r) /\ Above(r)))'
    <3>1. r \in 1 .. n - 1 /\ cstack'[r] = cstack[r] BY <1>4, <1>8, <1>9
    <3>2. cstack[r].low <= r BY <1>7 DEF UnwindInv
    <3>3. SUFFICES ASSUME Alive(r)' PROVE (Position(r) /\ Target(r) /\ First(r) /\ Above(r))'
      BY <3>1, <3>2
    <3>4. Alive(r)
      <4>1. \A s \in Unwinds : cstack'[s] = cstack[s] BY <1>4, <1>8, <1>9
      <4>2. QED BY <1>8, <3>3, <4>1 DEF Alive
    <3>5. Untouched(r) BY <1>12, <3>1 DEF Untouched
    <3>6. Position(r) /\ Target(r) /\ First(r) /\ Above(r) BY <1>7, <3>4 DEF UnwindInv
    <3>7. Position(r)' /\ Target(r)' /\ First(r)' BY <1>7, <1>11, <3>5, <3>6, UnwindKept
    <3>8. Above(r)' BY <1>1, <1>8, <3>1, <3>6 DEF Above
    <3>9. QED BY <3>7, <3>8
  <2>2. QED BY <1>8, <2>1 DEF UnwindInv
<1>15. LastInv'
  <2>1. \A m \in Linked : m < n => cstack'[m].frame = cstack[m].frame BY <1>8, <1>9
  <2>2. InnermostOf(Linked', cstack', frames[g].last, n)
    BY <1>4, <1>5, <1>7, <1>8, <2>1, InnermostNext
  <2>3. \A m \in Linked' : m < n <=> m < n + 1 BY <1>11
  <2>4. n + 1 \in Nat OBVIOUS
  <2>5. InnermostOf(Linked', cstack', frames[g].last, n + 1)
    BY <1>11, <2>2, <2>3, <2>4, InnermostLater
  <2>6. QED BY <1>3, <1>8, <2>5 DEF LastInv, Innermost
<1>16. StackTypes' BY <1>3, <1>6, <1>7, <1>10 DEF StackTypes
<1>17. CleanupInv'
  <2>1. ASSUME NEW k \in 1 .. n PROVE CleanupOK(k)'
    <3>1. CleanupOK(k) BY <1>7, <1>9, <2>1 DEF CleanupInv
    <3>2. CASE k = n BY <1>8, <3>2 DEF CleanupOK
    <3>3. CASE k # n
      <4>1. cstack'[k] = cstack[k] /\ (k \in Linked' <=> k \in Linked) BY <1>8, <3>3
      <4>2. k \in Linked => frames'[cstack[k].frame].forms = frames[cstack[k].frame].forms
        BY <1>6, <3>3
      <4>3. QED BY <3>1, <4>1, <4>2, CleanupKept
    <3>4. QED BY <3>2, <3>3
  <2>2. QED BY <1>10, <2>1 DEF CleanupInv
<1>18. ~trapped' BY <1>3 DEF ExitInv
<1>19. Keeps
  <2>1. PICK c \in Nat : c = n - 1 BY <1>4
  <2>2. \A k \in Linked' : k \in 1 .. c BY <1>11, <2>1
  <2>3. \A m \in 1 .. c : m \in Linked' <=> m \in Linked BY <1>8, <2>1
  <2>4. \A k \in Linked : k \in 1 .. c => frames'[cstack[k].frame] = frames[cstack[k].frame]
    BY <1>6, <2>1
  <2>5. KeepsUpTo(c) BY <1>8, <2>1, <2>2, <2>3, <2>4 DEF KeepsUpTo
  <2>6. QED BY <2>5, KeepsFrom
<1>20. QED BY <1>19, <1>6, <1>13, <1>14, <1>15, <1>16, <1>17, <1>18 DEF ExitInv

------------------------------------------------------------------------------
(* Forms and exits that begin.                                               *)

(* The program is one for which the exits are made: see ClientBehaviours.    *)
CarefulExits == "stale control" \notin ClientMay /\ "same name" \notin ClientMay

(* Where the program may begin a form or an exit, the last control frame is  *)
(* the one of the innermost form, and an unwinding on top has not released a *)
(* frame.                                                                    *)
LEMMA MayBegin ==
  ASSUME ExitInv, MayControl, CarefulExits, NEW n \in Nat, n = Len(cstack)
  PROVE  /\ InnermostOf(Linked, cstack, last, n + 1)
         /\ n \in Unwinds =>
              cstack[n].cleaning = "code" \/ (cstack[n].cleaning = "forms" /\ cstack[n].f = cstack[n].first)
<1>1. StackTypes /\ LastInv BY DEF ExitInv
<1>2. /\ DOMAIN cstack = 1 .. n /\ Unwinds \subseteq 1 .. n
      /\ \A r \in Unwinds : cstack[r] \in UnwindRecord
  BY <1>1, Activations
<1>3. Running /\ ~Stale BY DEF MayControl, CarefulExits
<1>4. ASSUME n \in Unwinds
      PROVE  cstack[n].cleaning = "code" \/ (cstack[n].cleaning = "forms" /\ cstack[n].f = cstack[n].first)
  <2>1. cstack[n].cleaning \in {"no", "forms", "code"} BY <1>2, <1>4 DEF UnwindRecord
  <2>2. cstack # << >> /\ Top = cstack[n] /\ Top.kind = "unwind" BY <1>2, <1>4 DEF Top, Unwinds
  <2>3. cstack[n].cleaning # "no" BY <1>3, <2>2 DEF Running
  <2>4. \A m \in Unwinds : m <= n BY <1>2
  <2>5. cstack[n].cleaning = "forms" => cstack[n].first = cstack[n].f
    BY <1>3, <1>4, <2>4 DEF Stale
  <2>6. QED BY <2>1, <2>3, <2>5
<1>5. LastKnown
  <2>1. CASE cstack = << >> BY <2>1 DEF LastKnown
  <2>2. CASE cstack # << >> /\ Top.kind = "unwind"
    <3>1. cstack \in Seq(FormRecord \cup UnwindRecord) BY <1>1 DEF StackTypes
    <3>2. n > 0 BY <2>2, <3>1, EmptySeq
    <3>3. n \in Unwinds /\ Top = cstack[n] BY <1>2, <2>2, <3>2 DEF Top, Unwinds
    <3>4. QED BY <1>4, <3>3 DEF LastKnown
  <2>3. QED BY <2>1, <2>2 DEF LastKnown
<1>6. QED BY <1>1, <1>4, <1>5 DEF LastInv, Innermost

(* The innermost of the forms is the same when an activation is begun.       *)
LEMMA InnermostBelow ==
  ASSUME NEW n \in Nat, Linked \subseteq 1 .. n, Linked' \subseteq Nat \ {0}, NEW g,
         \A m \in 1 .. n : m \in Linked' <=> m \in Linked,
         \A m \in 1 .. n : cstack'[m].frame = cstack[m].frame,
         InnermostOf(Linked, cstack, g, n + 1)
  PROVE  InnermostOf(Linked', cstack', g, n + 1)
<1>1. PICK i \in Nat : i = n + 1 OBVIOUS
<1>2. Linked \subseteq Nat /\ Linked' \subseteq Nat /\ 0 \notin Linked /\ 0 \notin Linked' OBVIOUS
<1>3. \A m \in Nat : m < i => m = 0 \/ m \in 1 .. n BY <1>1
<1>4. \A m \in Nat : m < i => (m \in Linked <=> m \in Linked') BY <1>2, <1>3
<1>5. \A m \in Linked : m < i => cstack'[m].frame = cstack[m].frame OBVIOUS
<1>6. InnermostOf(Linked, cstack, g, i) BY <1>1
<1>7. InnermostOf(Linked', cstack', g, i) BY <1>2, <1>4, <1>5, <1>6, InnermostKept
<1>8. QED BY <1>1, <1>7

(* What holds of the activations below one that is begun.                    *)
LEMMA BeginStep ==
  ASSUME ExitInv, MayControl, CarefulExits, NEW n \in Nat, n = Len(cstack),
         Len(cstack') = n + 1, \A m \in 1 .. n : cstack'[m] = cstack[m],
         Unwinds \subseteq Unwinds', Linked' \subseteq 1 .. n + 1,
         \A m \in 1 .. n : m \in Linked' <=> m \in Linked,
         \A j \in Linked : /\ cstack[j].frame \in DOMAIN frames'
                           /\ cstack[j].frame \notin Range(pool)'
                           /\ frames'[cstack[j].frame] = frames[cstack[j].frame]
  PROVE  /\ \A k \in Linked : FrameOK(k)'
         /\ \A r \in Unwinds :
              (cstack[r].low <= r /\ (Alive(r) => Position(r) /\ Target(r) /\ First(r) /\ Above(r)))'
         /\ \A k \in 1 .. n : CleanupOK(k)'
         /\ InnermostOf(Linked', cstack', last, n + 1)
<1>1. StackTypes /\ FrameInv /\ UnwindInv /\ CleanupInv BY DEF ExitInv
<1>2. DOMAIN cstack = 1 .. n /\ Linked \subseteq 1 .. n /\ Unwinds \subseteq 1 .. n
  BY <1>1, Activations
<1>3. /\ Linked \subseteq Nat /\ Linked' \subseteq Nat /\ Linked' \subseteq Nat \ {0}
      /\ \A m \in Linked : m \in Nat /\ m > 0 /\ m <= n
  BY <1>2
<1>4. ASSUME NEW k \in 1 .. n PROVE SameBelow(k) BY DEF SameBelow
<1>5. ASSUME NEW k \in Linked PROVE FrameOK(k)'
  <2>1. k \in 1 .. n BY <1>2
  <2>2. PICK h : h = cstack[k].frame OBVIOUS
  <2>3. FrameOK(k) BY <1>1 DEF FrameInv
  <2>4. h \in DOMAIN frames' /\ frames'[h] = frames[h] /\ h \notin Range(pool)' BY <2>2
  <2>5. SameBelow(k) /\ cstack'[k].kind = cstack[k].kind /\ h = cstack'[k].frame
    BY <1>4, <2>1, <2>2
  <2>6. QED BY <1>1, <1>3, <2>2, <2>3, <2>4, <2>5, FormKept
<1>6. ASSUME NEW r \in Unwinds
      PROVE  (cstack[r].low <= r /\ (Alive(r) => Position(r) /\ Target(r) /\ First(r) /\ Above(r)))'
  <2>1. r \in 1 .. n /\ cstack'[r] = cstack[r] BY <1>2
  <2>2. cstack[r].low <= r BY <1>1 DEF UnwindInv
  <2>3. SUFFICES ASSUME Alive(r)' PROVE (Position(r) /\ Target(r) /\ First(r) /\ Above(r))'
    BY <2>1, <2>2
  <2>4. Alive(r)
    <3>1. \A s \in Unwinds : s \in Unwinds' /\ cstack'[s] = cstack[s] BY <1>2
    <3>2. QED BY <2>3, <3>1 DEF Alive
  <2>5. Untouched(r) BY <1>4, <2>1 DEF Untouched
  <2>6. Position(r) /\ Target(r) /\ First(r) /\ Above(r) BY <1>1, <2>4 DEF UnwindInv
  <2>7. Position(r)' /\ Target(r)' /\ First(r)' BY <1>1, <1>3, <2>5, <2>6, UnwindKept
  <2>8. Above(r)'
    <3>1. CASE r < n BY <2>1, <2>6, <3>1 DEF Above
    <3>2. CASE r = n BY <2>1, <3>2, MayBegin DEF Above
    <3>3. QED BY <2>1, <3>1, <3>2
  <2>9. QED BY <2>7, <2>8
<1>7. ASSUME NEW k \in 1 .. n PROVE CleanupOK(k)'
  <2>1. CleanupOK(k) BY <1>1, <1>2 DEF CleanupInv
  <2>2. QED BY <2>1, CleanupKept
<1>8. InnermostOf(Linked', cstack', last, n + 1)
  <2>1. InnermostOf(Linked, cstack, last, n + 1) BY MayBegin
  <2>2. \A m \in 1 .. n : cstack'[m].frame = cstack[m].frame OBVIOUS
  <2>3. QED BY <1>2, <1>3, <2>1, <2>2, InnermostBelow
<1>9. QED BY <1>5, <1>6, <1>7, <1>8

(* RT_unwind_to() is called for the frame of a linked form, or for main().   *)
LEMMA ExitStep ==
  ASSUME ExitInv, MayControl, CarefulExits, NEW t, Unwind(t),
         \/ t = PRIMORDIAL
         \/ \E k \in Linked : t = cstack[k].frame /\ cstack[k].kind \in AllKinds \ UwpKinds
  PROVE  ExitInv' /\ Keeps
<1>1. PICK n \in Nat : n = Len(cstack) BY Activations DEF ExitInv
<1>2. StackTypes /\ FrameInv BY DEF ExitInv
<1>3. last \in Nat /\ t \in Int
  <2>1. t # PRIMORDIAL => t \in Nat BY <1>2, FramesDiffer
  <2>2. QED BY <1>2, <2>1 DEF StackTypes, PRIMORDIAL
<1>4. PICK u \in UnwindRecord :
        /\ cstack' = Append(cstack, u) /\ u.target = t /\ u.first = last /\ u.f = last
        /\ u.low = n + 1 /\ u.cleaning = "no" /\ u.kind = "unwind"
  <2> DEFINE v == [kind |-> "unwind", target |-> t, first |-> last,
                   f |-> last, next |-> NULL, low |-> n + 1, cleaning |-> "no"]
  <2>1. v \in UnwindRecord BY <1>3 DEF UnwindRecord, NULL
  <2>2. cstack' = Append(cstack, v) BY <1>1 DEF Unwind
  <2>3. QED BY <2>1, <2>2
<1>5. Linked' = Linked /\ Unwinds' = Unwinds \cup {n + 1} BY <1>1, <1>2, <1>4, LinkedExit
<1>6. DOMAIN cstack = 1 .. n /\ Linked \subseteq 1 .. n /\ Unwinds \subseteq 1 .. n
  BY <1>1, <1>2, Activations
<1>7. /\ Len(cstack') = n + 1 /\ DOMAIN cstack' = 1 .. n + 1
      /\ \A m \in 1 .. n : cstack'[m] = cstack[m]
      /\ cstack'[n + 1] = u
      /\ cstack' \in Seq(FormRecord \cup UnwindRecord)
  BY <1>1, <1>2, <1>4 DEF StackTypes
<1>8. UNCHANGED <<frames, pool, last, last_tag, trapped>> BY DEF Unwind
<1>9. /\ frames' \in Seq(FrameRecord) /\ pool' \in Seq(DOMAIN frames') /\ PoolInv'
      /\ \A j \in Linked : /\ cstack[j].frame \in DOMAIN frames'
                           /\ cstack[j].frame \notin Range(pool)'
                           /\ frames'[cstack[j].frame] = frames[cstack[j].frame]
  BY <1>8, FramesUnchanged
<1>10. Unwinds \subseteq Unwinds' /\ \A m \in 1 .. n : m \in Linked' <=> m \in Linked BY <1>5
<1>11. \A m \in Linked' : m \in Nat /\ m \in 1 .. n + 1 /\ m < n + 1 BY <1>5, <1>6
<1>12. Linked' \subseteq 1 .. n + 1 /\ Linked' \subseteq Nat BY <1>11
<1>13. /\ \A k \in Linked : FrameOK(k)'
       /\ \A r \in Unwinds :
            (cstack[r].low <= r /\ (Alive(r) => Position(r) /\ Target(r) /\ First(r) /\ Above(r)))'
       /\ \A k \in 1 .. n : CleanupOK(k)'
       /\ InnermostOf(Linked', cstack', last, n + 1)
  BY <1>1, <1>7, <1>9, <1>10, <1>12, BeginStep
<1>14. UnwindInv'
  <2>1. Position(n + 1)' BY <1>4, <1>7, <1>13 DEF Position, Innermost
  <2>2. Target(n + 1)'
    <3>1. \A k \in Linked : k \in 1 .. n /\ k \in Linked' /\ k < n + 1 BY <1>5, <1>6, <1>11
    <3>2. \A k \in Linked : cstack'[k] = cstack[k] BY <1>7, <3>1
    <3>3. CASE t = PRIMORDIAL BY <1>4, <1>7, <3>3 DEF Target
    <3>4. CASE t # PRIMORDIAL
      <4>1. PICK k \in Linked : t = cstack[k].frame /\ cstack[k].kind \in AllKinds \ UwpKinds
        BY <3>4
      <4>2. k \in Linked' /\ k < n + 1 /\ cstack'[k] = cstack[k] BY <3>1, <3>2
      <4>3. QED BY <1>4, <1>7, <4>1, <4>2 DEF Target
    <3>5. QED BY <3>3, <3>4
  <2>3. First(n + 1)' BY <1>4, <1>7 DEF First
  <2>4. Above(n + 1)' BY <1>7 DEF Above
  <2>5. (cstack[n + 1].low <= n + 1)' BY <1>4, <1>7
  <2>6. QED BY <1>5, <1>13, <2>1, <2>2, <2>3, <2>4, <2>5 DEF UnwindInv
<1>15. LastInv'
  <2>1. n + 1 \in Nat /\ (n + 1) + 1 \in Nat OBVIOUS
  <2>2. \A m \in Linked' : m < n + 1 <=> m < (n + 1) + 1 BY <1>11
  <2>3. InnermostOf(Linked', cstack', last, (n + 1) + 1)
    BY <1>12, <1>13, <2>1, <2>2, InnermostLater
  <2>4. QED BY <1>7, <1>8, <2>3 DEF LastInv, Innermost
<1>16. StackTypes' BY <1>2, <1>7, <1>8, <1>9 DEF StackTypes
<1>17. FrameInv' BY <1>5, <1>13 DEF FrameInv
<1>18. CleanupInv'
  <2>1. CleanupOK(n + 1)' BY <1>4, <1>7 DEF CleanupOK
  <2>2. \A k \in 1 .. n + 1 : k \in 1 .. n \/ k = n + 1 OBVIOUS
  <2>3. QED BY <1>7, <1>13, <2>1, <2>2 DEF CleanupInv
<1>19. ~trapped' BY <1>8 DEF ExitInv
<1>20. Keeps
  <2>1. \A k \in Linked' : k \in 1 .. n BY <1>5, <1>6
  <2>2. KeepsUpTo(n) BY <1>7, <1>9, <1>10, <2>1 DEF KeepsUpTo
  <2>3. QED BY <2>2, KeepsFrom
<1>21. QED BY <1>20, <1>9, <1>14, <1>15, <1>16, <1>17, <1>18, <1>19 DEF ExitInv

(* get_frame() returns no frame of a linked form.                            *)
LEMMA NextFrameFree ==
  ASSUME ExitInv, NEW f, f = NextFrame
  PROVE  f \in Nat \ {0} /\ \A j \in Linked : cstack[j].frame # f
<1>1. frames \in Seq(FrameRecord) /\ pool \in Seq(DOMAIN frames) BY DEF ExitInv, StackTypes
<1>2. \A j \in Linked : cstack[j].frame \in DOMAIN frames /\ cstack[j].frame \notin Range(pool)
  BY DEF ExitInv, FrameInv, FrameOK
<1>3. CASE pool = << >>
  <2>1. f = Len(frames) + 1 BY <1>3 DEF NextFrame
  <2>2. QED BY <1>1, <1>2, <2>1
<1>4. CASE pool # << >>
  <2>1. f = pool[Len(pool)] BY <1>4 DEF NextFrame, Last
  <2>2. Len(pool) \in DOMAIN pool
    <3>1. Len(pool) \in Nat /\ DOMAIN pool = 1 .. Len(pool) BY <1>1
    <3>2. Len(pool) # 0 BY <1>1, <1>4, EmptySeq
    <3>3. QED BY <3>1, <3>2
  <2>3. f \in DOMAIN frames /\ f \in Range(pool)
    <3>1. f \in Range(pool) BY <2>1, <2>2 DEF Range
    <3>2. \A i \in DOMAIN pool : pool[i] \in DOMAIN frames BY <1>1
    <3>3. QED BY <2>1, <2>2, <3>1, <3>2
  <2>4. \A j \in Linked : cstack[j].frame # f BY <1>2, <2>3
  <2>5. DOMAIN frames = 1 .. Len(frames) /\ Len(frames) \in Nat BY <1>1
  <2>6. f \in Nat \ {0} BY <2>3, <2>5
  <2>7. QED BY <2>4, <2>6
<1>5. QED BY <1>3, <1>4

(* get_frame(): the frame belongs to no linked form.                         *)
LEMMA TakesFrame ==
  ASSUME ExitInv, NEW x \in FrameRecord, NEW f, f = NextFrame,
         pool' = IF pool = << >> THEN pool ELSE Front(pool),
         frames' = IF pool = << >> THEN Append(frames, x) ELSE [frames EXCEPT ![f] = x]
  PROVE  /\ f \in Nat \ {0} /\ f \in DOMAIN frames' /\ frames'[f] = x
         /\ frames' \in Seq(FrameRecord) /\ pool' \in Seq(DOMAIN frames') /\ PoolInv'
         /\ f \notin Range(pool)'
         /\ \A j \in Linked : /\ cstack[j].frame # f
                              /\ cstack[j].frame \in DOMAIN frames'
                              /\ cstack[j].frame \notin Range(pool)'
                              /\ frames'[cstack[j].frame] = frames[cstack[j].frame]
<1>1. StackTypes /\ FrameInv /\ PoolInv BY DEF ExitInv
<1>2. frames \in Seq(FrameRecord) /\ pool \in Seq(DOMAIN frames) BY <1>1 DEF StackTypes
<1>3. \A j \in Linked : cstack[j].frame \in DOMAIN frames /\ cstack[j].frame \notin Range(pool)
  BY <1>1 DEF FrameInv, FrameOK
<1>4. CASE pool = << >>
  <2>1. f = Len(frames) + 1 /\ frames' = Append(frames, x) /\ pool' = pool
    BY <1>4 DEF NextFrame
  <2>2. /\ Len(frames) \in Nat /\ DOMAIN frames = 1 .. Len(frames)
        /\ DOMAIN frames' = 1 .. Len(frames) + 1
        /\ \A h \in 1 .. Len(frames) : frames'[h] = frames[h]
        /\ frames'[Len(frames) + 1] = x
        /\ frames' \in Seq(FrameRecord)
    BY <1>2, <2>1
  <2>3. f \in Nat \ {0} /\ f \in DOMAIN frames' /\ frames'[f] = x /\ f \notin DOMAIN frames
    <3>1. PICK i \in Nat : i = Len(frames) BY <2>2
    <3>2. f = i + 1 /\ i + 1 \in 1 .. i + 1 /\ i + 1 \notin 1 .. i BY <2>1, <3>1
    <3>3. QED BY <2>2, <3>1, <3>2
  <2>4. Range(pool)' = {} /\ Range(pool) = {} /\ pool' \in Seq(DOMAIN frames')
    BY <1>4, <2>1 DEF Range
  <2>5. PoolInv' BY <1>1, <2>1 DEF PoolInv, IsInjective
  <2>6. \A j \in Linked : /\ cstack[j].frame # f
                          /\ cstack[j].frame \in DOMAIN frames'
                          /\ frames'[cstack[j].frame] = frames[cstack[j].frame]
    BY <1>3, <2>2, <2>3
  <2>7. QED BY <2>2, <2>3, <2>4, <2>5, <2>6
<1>5. CASE pool # << >>
  <2>1. PICK l \in Nat : l = Len(pool) BY <1>2
  <2>2. l > 0 /\ DOMAIN pool = 1 .. l BY <1>2, <1>5, <2>1, EmptySeq
  <2>3. f = pool[l] /\ frames' = [frames EXCEPT ![f] = x] /\ pool' = SubSeq(pool, 1, l - 1)
    BY <1>5, <2>1 DEF NextFrame, Last, Front
  <2>4. f \in DOMAIN frames /\ f \in Range(pool) BY <1>2, <2>1, <2>2, <2>3 DEF Range
  <2>5. /\ DOMAIN frames' = DOMAIN frames /\ frames'[f] = x
        /\ \A h \in DOMAIN frames : h # f => frames'[h] = frames[h]
        /\ frames' \in Seq(FrameRecord)
    BY <1>2, <2>3, <2>4
  <2>6. f \in Nat \ {0} BY <1>2, <2>4
  <2>7. /\ pool' \in Seq(DOMAIN frames) /\ Len(pool') = l - 1 /\ DOMAIN pool' = 1 .. l - 1
        /\ \A i \in 1 .. l - 1 : pool'[i] = pool[i]
    <3>1. l - 1 \in Nat /\ l - 1 <= l BY <2>2
    <3>2. PICK j \in 0 .. Len(pool) : j = l - 1 BY <2>1, <3>1
    <3>3. pool' = SubSeq(pool, 1, j) BY <2>3, <3>2
    <3>4. /\ SubSeq(pool, 1, j) \in Seq(DOMAIN frames) /\ Len(SubSeq(pool, 1, j)) = j
          /\ \A i \in 1 .. j : SubSeq(pool, 1, j)[i] = pool[i]
      BY <1>2, <3>2
    <3>5. QED BY <3>2, <3>3, <3>4
  <2>8. \A i \in 1 .. l - 1 : i \in 1 .. l /\ pool[i] # f
    <3>1. \A i \in 1 .. l - 1 : i \in 1 .. l /\ i # l /\ l \in 1 .. l BY <2>2
    <3>2. QED BY <1>1, <2>2, <2>3, <3>1 DEF PoolInv, IsInjective
  <2>9. PoolInv'
    <3>1. IsInjective(pool') BY <1>1, <2>2, <2>7, <2>8 DEF PoolInv, IsInjective
    <3>2. Len(pool') < FRAME_POOL_SIZE BY <1>1, <2>1, <2>7, ControlAssumption DEF PoolInv
    <3>3. QED BY <3>1, <3>2 DEF PoolInv, IsInjective
  <2>10. f \notin Range(pool)' /\ Range(pool)' \subseteq Range(pool)
    BY <2>2, <2>7, <2>8 DEF Range
  <2>11. \A j \in Linked : /\ cstack[j].frame # f
                           /\ cstack[j].frame \in DOMAIN frames'
                           /\ cstack[j].frame \notin Range(pool)'
                           /\ frames'[cstack[j].frame] = frames[cstack[j].frame]
    BY <1>3, <2>4, <2>5, <2>10
  <2>12. QED BY <2>5, <2>6, <2>7, <2>9, <2>10, <2>11
<1>6. QED BY <1>4, <1>5

(* A form is entered: the frame is not the last one.                         *)
LEMMA EnterStep ==
  ASSUME ExitInv, CarefulExits, NEW kind \in FormKinds, NEW name \in Names, enter(kind, name)
  PROVE  ExitInv' /\ Keeps /\ NextFrame # last
<1>1. PICK n \in Nat : n = Len(cstack) BY Activations DEF ExitInv
<1>2. PICK f : f = NextFrame OBVIOUS
<1>3. PICK x : x = NewFrame(kind, name) OBVIOUS
<1>4. StackTypes /\ FrameInv /\ MayControl BY DEF ExitInv, enter
<1>5. /\ DOMAIN cstack = 1 .. n /\ Linked \subseteq 1 .. n /\ Unwinds \subseteq 1 .. n
      /\ cstack \in Seq(FormRecord \cup UnwindRecord)
      /\ last \in Nat /\ last_tag \in Seq(Tag) /\ frames \in Seq(FrameRecord)
      /\ pool \in Seq(DOMAIN frames)
  BY <1>1, <1>4, Activations DEF StackTypes
<1>6. kind \in AllKinds BY ControlAssumption
<1>7. /\ x \in FrameRecord /\ x.type = kind /\ x.jmp = n + 1 /\ x.next = last /\ x.last = last
      /\ kind = "uwp_forms" => x.forms = CleanupForms
  BY <1>1, <1>3, <1>5, <1>6, ControlAssumption DEF NewFrame, FrameRecord, NULL
<1>8. InnermostOf(Linked, cstack, last, n + 1) BY <1>1, <1>4, MayBegin
<1>9. f \in Nat \ {0} /\ \A j \in Linked : cstack[j].frame # f BY <1>2, NextFrameFree
<1>10. f # last BY <1>8, <1>9 DEF InnermostOf, NULL
<1>11. PICK tags \in Seq(Tag) :
         /\ pool' = IF pool = << >> THEN pool ELSE Front(pool)
         /\ frames' = IF pool = << >> THEN Append(frames, x) ELSE [frames EXCEPT ![f] = x]
         /\ last' = f /\ last_tag' = tags /\ UNCHANGED trapped
         /\ cstack' = Append(cstack, [kind |-> kind, frame |-> f, tags |-> tags, started |-> 0])
  <2>1. PICK tags : tags = IF kind \in TagbodyKinds
                             THEN <<[name |-> name, tagbody |-> f]>> \o last_tag ELSE last_tag
    OBVIOUS
  <2>2. tags \in Seq(Tag)
    <3>1. [name |-> name, tagbody |-> f] \in Tag BY <1>9 DEF Tag
    <3>2. <<[name |-> name, tagbody |-> f]>> \in Seq(Tag) BY <3>1
    <3>3. <<[name |-> name, tagbody |-> f]>> \o last_tag \in Seq(Tag)
      BY <1>5, <3>2, ConcatProperties
    <3>4. QED BY <1>5, <2>1, <3>3
  <2>3. QED BY <1>2, <1>3, <1>10, <2>1, <2>2 DEF enter
<1>12. /\ f \in DOMAIN frames' /\ frames'[f] = x
       /\ frames' \in Seq(FrameRecord) /\ pool' \in Seq(DOMAIN frames') /\ PoolInv'
       /\ f \notin Range(pool)'
       /\ \A j \in Linked : /\ cstack[j].frame # f
                            /\ cstack[j].frame \in DOMAIN frames'
                            /\ cstack[j].frame \notin Range(pool)'
                            /\ frames'[cstack[j].frame] = frames[cstack[j].frame]
  BY <1>2, <1>7, <1>11, TakesFrame, SMTT(60)
<1>13. PICK e \in FormRecord : /\ cstack' = Append(cstack, e)
                               /\ e.kind = kind /\ e.frame = f /\ e.started = 0
  <2> DEFINE d == [kind |-> kind, frame |-> f, tags |-> tags, started |-> 0]
  <2>1. d \in FormRecord BY <1>6, <1>9 DEF FormRecord
  <2>2. QED BY <1>11, <2>1
<1>14. Linked' = Linked \cup {n + 1} /\ Unwinds' = Unwinds
  BY <1>1, <1>4, <1>6, <1>13, LinkedEnter
<1>15. /\ Len(cstack') = n + 1 /\ DOMAIN cstack' = 1 .. n + 1
       /\ \A m \in 1 .. n : cstack'[m] = cstack[m]
       /\ cstack'[n + 1] = e
       /\ cstack' \in Seq(FormRecord \cup UnwindRecord)
  BY <1>1, <1>5, <1>13
<1>16. Unwinds \subseteq Unwinds' /\ \A m \in 1 .. n : m \in Linked' <=> m \in Linked BY <1>14
<1>17. \A m \in Linked' : m \in Nat /\ m \in 1 .. n + 1 /\ m <= n + 1 BY <1>5, <1>14
<1>18. Linked' \subseteq 1 .. n + 1 BY <1>17
<1>19. /\ \A k \in Linked : FrameOK(k)'
       /\ \A r \in Unwinds :
            (cstack[r].low <= r /\ (Alive(r) => Position(r) /\ Target(r) /\ First(r) /\ Above(r)))'
       /\ \A k \in 1 .. n : CleanupOK(k)'
       /\ InnermostOf(Linked', cstack', last, n + 1)
  BY <1>1, <1>4, <1>12, <1>15, <1>16, <1>18, BeginStep
<1>20. FrameInv'
  <2>1. FrameOK(n + 1)' BY <1>7, <1>12, <1>13, <1>15, <1>19 DEF FrameOK, Innermost
  <2>2. QED BY <1>14, <1>19, <2>1 DEF FrameInv
<1>21. UnwindInv' BY <1>14, <1>19 DEF UnwindInv
<1>22. LastInv'
  <2>1. n + 1 \in Linked' /\ n + 1 < (n + 1) + 1 BY <1>14
  <2>2. last' = cstack'[n + 1].frame BY <1>11, <1>13, <1>15
  <2>3. InnermostOf(Linked', cstack', last', (n + 1) + 1) BY <1>17, <2>1, <2>2 DEF InnermostOf
  <2>4. QED BY <1>15, <2>3 DEF LastInv, Innermost
<1>23. StackTypes' BY <1>9, <1>11, <1>12, <1>15 DEF StackTypes
<1>24. CleanupInv'
  <2>1. CleanupOK(n + 1)'
    <3>1. n + 1 \in Linked' BY <1>14
    <3>2. CASE kind = "uwp_forms"
      <4>1. CleanupForms - frames'[f].forms = 0 BY <1>7, <1>12, <3>2, ControlAssumption
      <4>2. QED BY <1>13, <1>15, <3>1, <3>2, <4>1 DEF CleanupOK
    <3>3. CASE kind # "uwp_forms" BY <1>13, <1>15, <3>1, <3>3 DEF CleanupOK
    <3>4. QED BY <3>2, <3>3
  <2>2. \A k \in 1 .. n + 1 : k \in 1 .. n \/ k = n + 1 OBVIOUS
  <2>3. QED BY <1>15, <1>19, <2>1, <2>2 DEF CleanupInv
<1>25. ~trapped' BY <1>11 DEF ExitInv
<1>26. ExitInv' BY <1>12, <1>20, <1>21, <1>22, <1>23, <1>24, <1>25 DEF ExitInv
<1>27. Keeps
  <2>1. \A k \in Linked' : k \in DOMAIN cstack => k \in 1 .. n BY <1>5
  <2>2. KeepsUpTo(n) BY <1>12, <1>15, <1>16, <2>1 DEF KeepsUpTo
  <2>3. QED BY <2>2, KeepsFrom
<1>28. QED BY <1>2, <1>10, <1>26, <1>27

------------------------------------------------------------------------------
(* The chain of frames.                                                      *)

(* Proof by induction: a set of numbers has a smallest element.              *)
LEMMA SmallestExists ==
  ASSUME NEW T, T \subseteq Nat, T # {}
  PROVE  \E x \in T : \A y \in T : x <= y
<1>1. IsWellFoundedOn(OpToRel(<, Nat), Nat) BY NatLessThanWellFounded
<1>2. PICK x \in T : \A y \in T : ~(<<y, x>> \in OpToRel(<, Nat)) BY <1>1, WFMin, Zenon
<1>3. ASSUME NEW y \in T PROVE x <= y
  <2>1. x \in Nat /\ y \in Nat OBVIOUS
  <2>2. ~(y < x)
    <3>1. y < x => <<y, x>> \in OpToRel(<, Nat) BY <2>1, Zenon DEF OpToRel
    <3>2. QED BY <1>2, <3>1, Zenon
  <2>3. QED BY <2>1, <2>2
<1>4. QED BY <1>2, <1>3

(* The links from f, m of them.                                              *)
Follows(at, f, m) ==
  at = [i \in 0 .. m |-> IF i = 0 THEN f
                         ELSE IF at[i - 1] = NULL THEN NULL ELSE frames[at[i - 1]].next]

(* They can be followed as far as one likes.                                 *)
LEMMA ChainExists ==
  ASSUME NEW f, NEW m \in Nat
  PROVE  \E at : Follows(at, f, m)
<1> DEFINE T == {k \in Nat : ~\E at : Follows(at, f, k)}
<1>1. SUFFICES ASSUME T # {} PROVE FALSE OBVIOUS
<1>2. T \subseteq Nat OBVIOUS
<1> HIDE DEF T
<1>3. PICK k \in T : \A j \in T : k <= j BY <1>1, <1>2, SmallestExists
<1>4. k \in Nat BY <1>2
<1>5. CASE k = 0
  <2> DEFINE a == [i \in 0 .. 0 |-> f]
  <2>1. a = [i \in 0 .. 0 |-> IF i = 0 THEN f
                              ELSE IF a[i - 1] = NULL THEN NULL ELSE frames[a[i - 1]].next]
    <3>1. \A i \in 0 .. 0 : i = 0 OBVIOUS
    <3>2. QED BY <3>1
  <2>2. Follows(a, f, k) BY <1>5, <2>1 DEF Follows
  <2>3. QED BY <2>2 DEF T
<1>6. CASE k # 0
  <2>1. PICK j \in Nat : k = j + 1 BY <1>4, <1>6
  <2>2. j \notin T BY <1>3, <2>1
  <2>3. PICK a : Follows(a, f, j) BY <2>2 DEF T
  <2>4. PICK x : x = IF a[j] = NULL THEN NULL ELSE frames[a[j]].next OBVIOUS
  <2> DEFINE b == [i \in 0 .. j + 1 |-> IF i = j + 1 THEN x ELSE a[i]]
  <2>5. \A i \in 0 .. j : a[i] = IF i = 0 THEN f
                                 ELSE IF a[i - 1] = NULL THEN NULL ELSE frames[a[i - 1]].next
    BY <2>3 DEF Follows
  <2>6. \A i \in 0 .. j + 1 : b[i] = IF i = j + 1 THEN x ELSE a[i] OBVIOUS
  <2>7. DOMAIN b = 0 .. j + 1 /\ b = [i \in 0 .. j + 1 |-> b[i]] OBVIOUS
  <2> HIDE DEF b
  <2>8. ASSUME NEW i \in 0 .. j + 1
        PROVE  b[i] = IF i = 0 THEN f ELSE IF b[i - 1] = NULL THEN NULL ELSE frames[b[i - 1]].next
    <3>1. CASE i = 0
      <4>1. 0 \in 0 .. j /\ 0 # j + 1 OBVIOUS
      <4>2. QED BY <2>5, <2>6, <3>1, <4>1
    <3>2. CASE i # 0
      <4>1. i - 1 \in 0 .. j + 1 /\ i - 1 # j + 1 /\ i - 1 \in 0 .. j BY <3>2
      <4>2. b[i - 1] = a[i - 1] BY <2>6, <4>1
      <4>3. CASE i = j + 1
        <5>1. b[i] = x /\ i - 1 = j BY <2>6, <4>3
        <5>2. QED BY <2>4, <3>2, <4>2, <5>1
      <4>4. CASE i # j + 1
        <5>1. i \in 0 .. j /\ b[i] = a[i] BY <2>6, <4>4
        <5>2. QED BY <2>5, <3>2, <4>2, <5>1
      <4>5. QED BY <4>3, <4>4
    <3>3. QED BY <3>1, <3>2
  <2>9. Follows(b, f, k) BY <2>1, <2>7, <2>8 DEF Follows
  <2>10. QED BY <2>9 DEF T
<1>7. QED BY <1>5, <1>6

(* ChainAt() follows them.                                                   *)
LEMMA ChainFollows ==
  ASSUME NEW f
  PROVE  /\ DOMAIN ChainAt(f) = 0 .. MaxFrames
         /\ ChainAt(f)[0] = f
         /\ \A i \in 1 .. MaxFrames :
              ChainAt(f)[i] = IF ChainAt(f)[i - 1] = NULL THEN NULL
                              ELSE frames[ChainAt(f)[i - 1]].next
<1>1. \E at : Follows(at, f, MaxFrames) BY ChainExists, ControlAssumption
<1>2. ChainAt(f) = CHOOSE at : Follows(at, f, MaxFrames) BY DEF ChainAt, Follows
<1>3. PICK a : a = ChainAt(f) OBVIOUS
<1>4. Follows(a, f, MaxFrames) BY <1>1, <1>2, <1>3
<1>5. MaxFrames \in Nat BY ControlAssumption
<1>6. DOMAIN a = 0 .. MaxFrames BY <1>4 DEF Follows
<1>7. \A i \in 0 .. MaxFrames :
        a[i] = IF i = 0 THEN f ELSE IF a[i - 1] = NULL THEN NULL ELSE frames[a[i - 1]].next
  BY <1>4 DEF Follows
<1>8. 0 \in 0 .. MaxFrames /\ \A i \in 1 .. MaxFrames : i \in 0 .. MaxFrames /\ i # 0 BY <1>5
<1>9. QED BY <1>3, <1>6, <1>7, <1>8

(* Every frame of the chain is the frame of a linked form.                   *)
LEMMA ChainLinked ==
  ASSUME ExitInv, NEW f, f = NULL \/ \E k \in Linked : f = cstack[k].frame,
         NEW i \in 0 .. MaxFrames
  PROVE  ChainAt(f)[i] = NULL \/ \E k \in Linked : ChainAt(f)[i] = cstack[k].frame
<1>1. PICK at : at = ChainAt(f) OBVIOUS
<1> DEFINE Good(x) == x = NULL \/ \E k \in Linked : x = cstack[k].frame
           T == {j \in 0 .. MaxFrames : ~Good(at[j])}
<1>2. /\ at[0] = f
      /\ \A j \in 1 .. MaxFrames :
           at[j] = IF at[j - 1] = NULL THEN NULL ELSE frames[at[j - 1]].next
  BY <1>1, ChainFollows
<1>3. MaxFrames \in Nat BY ControlAssumption
<1>4. StackTypes /\ FrameInv BY DEF ExitInv
<1>5. SUFFICES ASSUME T # {} PROVE FALSE BY <1>1
<1>6. T \subseteq Nat BY <1>3
<1>7. PICK j \in T : \A k \in T : j <= k
  <2> HIDE DEF T
  <2>1. QED BY <1>5, <1>6, SmallestExists
<1>8. j \in 0 .. MaxFrames /\ ~Good(at[j]) OBVIOUS
<1>9. j # 0 BY <1>2, <1>8
<1>10. j \in 1 .. MaxFrames /\ j - 1 \in 0 .. MaxFrames /\ j - 1 < j BY <1>3, <1>8, <1>9
<1>11. Good(at[j - 1]) BY <1>3, <1>7, <1>10
<1>12. at[j] = IF at[j - 1] = NULL THEN NULL ELSE frames[at[j - 1]].next BY <1>2, <1>10
<1>13. PICK k \in Linked : at[j - 1] = cstack[k].frame BY <1>8, <1>11, <1>12
<1>14. PICK g : g = cstack[k].frame OBVIOUS
<1>15. frames[g].last = NULL \/ \E m \in Linked : m < k /\ frames[g].last = cstack[m].frame
  BY <1>4, <1>14, FramesDiffer
<1>16. frames[g].next = frames[g].last BY <1>4, <1>14 DEF FrameInv, FrameOK
<1>17. Good(frames[g].next) BY <1>15, <1>16
<1>18. QED BY <1>8, <1>12, <1>13, <1>14, <1>17

(* What a search finds is the frame of a linked form of that kind.           *)
LEMMA FindsLinked ==
  ASSUME ExitInv, MayControl, CarefulExits, NEW type, NEW name, Find(type, name) # NULL
  PROVE  \E k \in Linked : Find(type, name) = cstack[k].frame /\ cstack[k].kind = type
<1>1. PICK n \in Nat : n = Len(cstack) BY Activations DEF ExitInv
<1>2. InnermostOf(Linked, cstack, last, n + 1) BY <1>1, MayBegin
<1>3. last = NULL \/ \E k \in Linked : last = cstack[k].frame BY <1>2 DEF InnermostOf
<1>4. PICK at : at = ChainAt(last) OBVIOUS
<1> DEFINE hits == {i \in DOMAIN at :
                      at[i] # NULL /\ frames[at[i]].type = type /\ frames[at[i]].name = name}
           h == CHOOSE i \in hits : \A k \in hits : i <= k
<1>5. Find(type, name) = IF hits = {} THEN NULL ELSE at[h] BY <1>4 DEF Find
<1>6. hits # {} /\ Find(type, name) = at[h] BY <1>5
<1>7. DOMAIN at = 0 .. MaxFrames BY <1>4, ChainFollows
<1>8. hits \subseteq Nat BY <1>7, ControlAssumption
<1>9. h \in hits
  <2> HIDE DEF hits
  <2>1. \E i \in hits : \A k \in hits : i <= k BY <1>6, <1>8, SmallestExists
  <2>2. QED BY <2>1
<1>10. h \in 0 .. MaxFrames /\ at[h] # NULL /\ frames[at[h]].type = type BY <1>7, <1>9
<1> HIDE DEF h, hits
<1>11. PICK k \in Linked : at[h] = cstack[k].frame BY <1>3, <1>4, <1>10, ChainLinked
<1>12. frames[cstack[k].frame].type = cstack[k].kind BY DEF ExitInv, FrameInv, FrameOK
<1>13. QED BY <1>6, <1>10, <1>11, <1>12

(* return-from, throw, go and reset.                                         *)
LEMMA LeavesStep ==
  ASSUME ExitInv, CarefulExits,
         \/ \E k \in DOMAIN cstack : return_from(k) \/ go(k)
         \/ \E name \in Names : throw(name)
         \/ reset
  PROVE  ExitInv' /\ Keeps
<1>1. ASSUME NEW k \in DOMAIN cstack, return_from(k) \/ go(k) PROVE ExitInv' /\ Keeps
  <2>1. /\ MayControl /\ Established(k) /\ Unwind(cstack[k].frame)
        /\ cstack[k].kind \in AllKinds \ UwpKinds
    BY <1>1 DEF return_from, go, CarefulExits, AllKinds, UwpKinds, TagbodyKinds
  <2>2. k \in Linked BY <2>1 DEF Established, Linked, Ahead
  <2>3. QED BY <2>1, <2>2, ExitStep
<1>2. ASSUME NEW name \in Names, throw(name) PROVE ExitInv' /\ Keeps
  <2>1. PICK t : t = Find("catch", name) OBVIOUS
  <2>2. MayControl /\ t # NULL /\ Unwind(t) BY <1>2, <2>1 DEF throw
  <2>3. PICK k \in Linked : t = cstack[k].frame /\ cstack[k].kind = "catch"
    BY <2>1, <2>2, FindsLinked
  <2>4. cstack[k].kind \in AllKinds \ UwpKinds BY <2>3 DEF AllKinds, UwpKinds
  <2>5. QED BY <2>2, <2>3, <2>4, ExitStep
<1>3. CASE reset
  <2>1. MayControl /\ Unwind(PRIMORDIAL) BY <1>3 DEF reset
  <2>2. QED BY <2>1, ExitStep
<1>4. QED BY <1>1, <1>2, <1>3

------------------------------------------------------------------------------
(* The invariant of the exits.                                               *)

(* It holds at the start.                                                    *)
LEMMA ExitInit == Init => ExitInv
<1> SUFFICES ASSUME Init PROVE ExitInv OBVIOUS
<1>1. /\ frames = << >> /\ pool = << >> /\ last = NULL /\ last_tag = << >>
      /\ cstack = << >> /\ ~trapped
  BY DEF Init
<1>2. DOMAIN cstack = {} /\ Linked = {} /\ Unwinds = {} BY <1>1 DEF Linked, Unwinds
<1>3. StackTypes BY <1>1 DEF StackTypes, NULL
<1>4. PoolInv
  <2>1. Len(pool) = 0 /\ DOMAIN pool = {} BY <1>1
  <2>2. QED BY <2>1, ControlAssumption DEF PoolInv, IsInjective
<1>5. FrameInv /\ UnwindInv /\ CleanupInv BY <1>2 DEF FrameInv, UnwindInv, CleanupInv
<1>6. LastInv BY <1>1, <1>2 DEF LastInv, Innermost, InnermostOf
<1>7. QED BY <1>1, <1>3, <1>4, <1>5, <1>6 DEF ExitInv

(* Every step keeps it.                                                      *)
LEMMA ExitStepKeeps ==
  ASSUME ExitInv, CarefulExits, Next
  PROVE  ExitInv' /\ Keeps
<1>1. CASE \E kind \in FormKinds, n \in Names : enter(kind, n) BY <1>1, EnterStep
<1>2. CASE leave_block \/ leave_tagbody BY <1>2, LeaveStep
<1>3. CASE leave_unwind_protect BY <1>3, LeaveProtectStep
<1>4. CASE end_unwind_protect BY <1>4, EndStep
<1>5. CASE \/ \E k \in DOMAIN cstack : return_from(k) \/ go(k)
           \/ \E n \in Names : throw(n)
           \/ reset
  BY <1>5, LeavesStep
<1>6. CASE cleanup_returns BY <1>6, ReturnStep
<1>7. CASE unwind_release BY <1>7, PassStep DEF unwind_release
<1>8. CASE unwind_cleanup_done BY <1>8, PassStep DEF unwind_cleanup_done
<1>9. CASE unwind_cleanup_code BY <1>9, CodeStep
<1>10. CASE unwind_cleanup_form BY <1>10, FormStep
<1>11. CASE jump BY <1>11, JumpStep
<1>12. CASE jump_reset BY <1>12, ResetJumpStep
<1>13. QED BY <1>1, <1>2, <1>3, <1>4, <1>5, <1>6, <1>7, <1>8, <1>9, <1>10, <1>11, <1>12
           DEF Next, UnwindStep

(* It depends on the variables of module ControlStack.                       *)
LEMMA ExitStutters ==
  ASSUME ExitInv, UNCHANGED vars
  PROVE  ExitInv'
<1>1. UNCHANGED <<frames, pool, last, last_tag, cstack, trapped>> BY DEF vars
<1>2. Unwinds' = Unwinds /\ Linked' = Linked BY <1>1 DEF Unwinds, Linked, Ahead
<1>3. StackTypes' BY <1>1 DEF ExitInv, StackTypes
<1>4. PoolInv' BY <1>1 DEF ExitInv, PoolInv, IsInjective
<1>5. ASSUME NEW g, NEW n PROVE Innermost(g, n)' <=> Innermost(g, n)
  BY <1>1, <1>2 DEF Innermost
<1>6. Range(pool)' = Range(pool) BY <1>1 DEF Range
<1>7. FrameInv'
  <2>1. ASSUME NEW k \in Linked PROVE FrameOK(k)'
    <3>1. FrameOK(k) BY DEF ExitInv, FrameInv
    <3>2. QED BY <1>1, <1>2, <1>6, <3>1 DEF FrameOK, Innermost
  <2>2. QED BY <1>2, <2>1 DEF FrameInv
<1>8. UnwindInv'
  <2>1. ASSUME NEW r \in Unwinds
        PROVE  (cstack[r].low <= r /\ (Alive(r) => Position(r) /\ Target(r) /\ First(r) /\ Above(r)))'
    <3>1. cstack[r].low <= r /\ (Alive(r) => Position(r) /\ Target(r) /\ First(r) /\ Above(r))
      BY DEF ExitInv, UnwindInv
    <3>2. Alive(r)' <=> Alive(r) BY <1>1, <1>2 DEF Alive
    <3>3. Position(r)' <=> Position(r) BY <1>1, <1>2 DEF Position, Innermost
    <3>4. Target(r)' <=> Target(r) BY <1>1, <1>2 DEF Target
    <3>5. First(r)' <=> First(r) BY <1>1, <1>2 DEF First
    <3>6. Above(r)' <=> Above(r) BY <1>1, <1>2 DEF Above
    <3>7. QED BY <1>1, <3>1, <3>2, <3>3, <3>4, <3>5, <3>6
  <2>2. QED BY <1>2, <2>1 DEF UnwindInv
<1>9. LastInv' BY <1>1, <1>2 DEF ExitInv, LastInv, LastKnown, Top, Innermost
<1>10. CleanupInv' BY <1>1, <1>2 DEF ExitInv, CleanupInv, CleanupOK
<1>11. ~trapped' BY <1>1 DEF ExitInv
<1>12. QED BY <1>3, <1>4, <1>7, <1>8, <1>9, <1>10, <1>11 DEF ExitInv

(* The bindings do not change what the exits do.                             *)
LEMMA UnwindingStep ==
  ASSUME [UnwNext]_unw_vars
  PROVE  [Next]_vars
<1>1. CASE let BY <1>1 DEF let, vars
<1>2. CASE leave_let BY <1>2 DEF leave_let, vars
<1>3. CASE \E kind \in FormKinds, n \in Names : enter_form(kind, n)
  BY <1>3 DEF enter_form, Next
<1>4. CASE leave_form BY <1>4 DEF leave_form, Next
<1>5. CASE exit_form BY <1>5 DEF exit_form, Next
<1>6. CASE unwind_loop BY <1>6 DEF unwind_loop, Next, UnwindStep
<1>7. CASE cleanup_end BY <1>7 DEF cleanup_end, Next
<1>8. CASE jump_to BY <1>8 DEF jump_to, Next, UnwindStep
<1>9. CASE jump_to_main BY <1>9 DEF jump_to_main, Next, UnwindStep
<1>10. CASE UNCHANGED unw_vars BY <1>10 DEF unw_vars, vars
<1>11. QED BY <1>1, <1>2, <1>3, <1>4, <1>5, <1>6, <1>7, <1>8, <1>9, <1>10 DEF UnwNext

(* An established form is linked: an unwinding that has not passed a form    *)
(* has not come to its frame.                                                *)
LEMMA EstablishedLinked == EstablishedForms \subseteq Linked
BY DEF EstablishedForms, Established, Linked, Ahead

(* The invariant gives the properties.                                       *)
LEMMA ExitImplies ==
  ASSUME ExitInv
  PROVE  FramesExclusive /\ CleanupAtMostOnce /\ NeverTraps
<1>1. StackTypes /\ FrameInv /\ CleanupInv /\ PoolInv /\ ~trapped BY DEF ExitInv
<1>2. FramesExclusive
  <2>1. \A k \in EstablishedForms : FrameOK(k) BY <1>1, EstablishedLinked DEF FrameInv
  <2>2. Len(pool) \in Nat BY <1>1 DEF StackTypes
  <2>3. IsInjective(pool) /\ Len(pool) <= FRAME_POOL_SIZE
    BY <1>1, <2>2, ControlAssumption DEF PoolInv
  <2>4. QED BY <2>1, <2>3 DEF FramesExclusive, FrameOK
<1>3. CleanupAtMostOnce
  <2>1. ASSUME NEW k \in DOMAIN cstack
        PROVE  /\ cstack[k].kind = "uwp_forms" => cstack[k].started <= CleanupForms
               /\ cstack[k].kind = "uwp_code" => cstack[k].started <= 1
    <3>1. CleanupOK(k) BY <1>1 DEF CleanupInv
    <3>2. k \in Linked => frames[cstack[k].frame] \in FrameRecord
      BY <1>1 DEF FrameInv, FrameOK, StackTypes
    <3>3. k \in Linked => frames[cstack[k].frame].forms \in Nat BY <3>2 DEF FrameRecord
    <3>4. QED BY <3>1, <3>3, ControlAssumption DEF CleanupOK
  <2>2. QED BY <2>1 DEF CleanupAtMostOnce
<1>4. QED BY <1>1, <1>2, <1>3 DEF NeverTraps

(* Unwinding takes the actions of ControlStack and adds to them, so that     *)
(* what holds of the frames there holds of the composition.                  *)
LEMMA UnwindingRefines == UnwSpec => Spec
<1>1. UnwInit => Init BY DEF UnwInit
<1>2. [UnwNext]_unw_vars => [Next]_vars BY UnwindingStep
<1>3. QED BY <1>1, <1>2, PTL DEF UnwSpec, Spec

(* The invariant of the exits always holds.                                  *)
LEMMA ExitInvariant ==
  ASSUME CarefulExits
  PROVE  Spec => []ExitInv
<1>1. Init => ExitInv BY ExitInit
<1>2. ExitInv /\ [Next]_vars => ExitInv'
  BY ExitStepKeeps, ExitStutters
<1>3. QED BY <1>1, <1>2, PTL DEF Spec

(* get_frame() and release_frame(): no two forms that can still be returned  *)
(* to share a frame, none of their frames is in the pool, and the pool does  *)
(* not leave its array, whatever cleanup forms do and for any pool size.     *)
THEOREM FramesAreExclusive ==
  ASSUME CarefulExits
  PROVE  UnwSpec => []FramesExclusive
<1>1. ExitInv => FramesExclusive BY ExitImplies
<1>2. QED BY <1>1, ExitInvariant, UnwindingRefines, PTL

(* run_cleanup_forms() and run_cleanup_code(): no cleanup form is run twice, *)
(* however many exits are made out of cleanup forms.                         *)
THEOREM CleanupRunsOnce ==
  ASSUME CarefulExits
  PROVE  UnwSpec => []CleanupAtMostOnce
<1>1. ExitInv => CleanupAtMostOnce BY ExitImplies
<1>2. QED BY <1>1, ExitInvariant, UnwindingRefines, PTL

(* The assertions of RT_non_local_go() and get_frame() hold, and no exit     *)
(* jumps to an activation that is gone.                                      *)
THEOREM ExitsNeverTrap ==
  ASSUME CarefulExits
  PROVE  UnwSpec => []NeverTraps
<1>1. ExitInv => NeverTraps BY ExitImplies
<1>2. QED BY <1>1, ExitInvariant, UnwindingRefines, PTL

(* An unwinding to main() that is at its end has passed every form.          *)
LEMMA ResetAtEnd ==
  ASSUME ExitInv, jump_reset
  PROVE  Linked = {}
<1>1. PICK n \in Nat : n = Len(cstack) BY Activations DEF ExitInv
<1>2. StackTypes /\ FrameInv /\ UnwindInv BY DEF ExitInv
<1>3. /\ Unwinding /\ AtEnd /\ Top.target = PRIMORDIAL BY DEF jump_reset
<1>4. /\ DOMAIN cstack = 1 .. n /\ Linked \subseteq 1 .. n /\ Unwinds \subseteq 1 .. n
      /\ \A r \in Unwinds : cstack[r] \in UnwindRecord
  BY <1>1, <1>2, Activations
<1>5. cstack # << >> /\ cstack \in Seq(FormRecord \cup UnwindRecord)
  BY <1>2, <1>3 DEF Unwinding, StackTypes
<1>6. n > 0 BY <1>1, <1>5, EmptySeq
<1>7. n \in Unwinds /\ cstack[n] = Top BY <1>1, <1>3, <1>4, <1>6 DEF Unwinding, Top, Unwinds
<1>8. Alive(n) BY <1>4 DEF Alive
<1>9. InnermostOf(Linked, cstack, Top.f, n)
  BY <1>2, <1>3, <1>7, <1>8 DEF Unwinding, UnwindInv, Position, Innermost
<1>10. Top.f \in Nat BY <1>4, <1>7 DEF UnwindRecord
<1>11. Top.f = NULL BY <1>3, <1>10 DEF AtEnd, PRIMORDIAL, NULL
<1>12. \A j \in Linked : cstack[j].frame # NULL BY <1>2, FramesDiffer DEF NULL
<1>13. \A m \in Linked : n <= m BY <1>9, <1>11, <1>12 DEF InnermostOf
<1>14. n \notin Linked BY <1>7 DEF Linked, Unwinds, AllKinds
<1>15. QED BY <1>4, <1>13, <1>14

(* How far the C stack grows or shrinks.                                     *)
LEMMA Lengths ==
  ASSUME ExitInv, ExitInv', NEW n \in Nat, n = Len(cstack)
  PROVE  /\ leave_block \/ leave_tagbody \/ end_unwind_protect => n > 0 /\ Len(cstack') = n - 1
         /\ (\/ leave_unwind_protect \/ cleanup_returns \/ unwind_release
             \/ unwind_cleanup_done \/ unwind_cleanup_code \/ unwind_cleanup_form) =>
              Len(cstack') = n
         /\ \A t : Unwind(t) => Len(cstack') = n + 1 /\ cstack'[n + 1].kind = "unwind"
<1>1. cstack \in Seq(FormRecord \cup UnwindRecord) /\ cstack' \in Seq(FormRecord \cup UnwindRecord)
  BY DEF ExitInv, StackTypes
<1>2. ASSUME leave_block \/ leave_tagbody \/ end_unwind_protect
      PROVE  n > 0 /\ Len(cstack') = n - 1
  <2>1. Pop /\ cstack # << >> BY <1>2 DEF leave_block, leave_tagbody, end_unwind_protect
  <2>2. n > 0 BY <1>1, <2>1, EmptySeq
  <2>3. QED BY <1>1, <2>1, <2>2, SubSeqProperties DEF Pop, Front
<1>3. ASSUME DOMAIN cstack' = DOMAIN cstack PROVE Len(cstack') = n BY <1>1, <1>3
<1>4. ASSUME leave_unwind_protect PROVE Len(cstack') = n
  BY <1>3, <1>4 DEF leave_unwind_protect
<1>5. ASSUME cleanup_returns \/ unwind_release \/ unwind_cleanup_done PROVE Len(cstack') = n
  <2>1. PICK f, next, low, cl : cstack' = Step(f, next, low, cl)
    BY <1>5 DEF cleanup_returns, unwind_release, unwind_cleanup_done
  <2>2. QED BY <1>3, <2>1 DEF Step
<1>6. ASSUME unwind_cleanup_code \/ unwind_cleanup_form PROVE Len(cstack') = n
  <2>1. PICK f, cl : RunsCleanup(f, cl)
    BY <1>6 DEF unwind_cleanup_code, unwind_cleanup_form, RunsCleanup
  <2>2. QED BY <1>3, <2>1 DEF RunsCleanup, Step
<1>7. ASSUME NEW t, Unwind(t) PROVE Len(cstack') = n + 1 /\ cstack'[n + 1].kind = "unwind"
  <2>1. PICK x : cstack' = Append(cstack, x) /\ x.kind = "unwind" BY <1>7 DEF Unwind
  <2>2. QED BY <1>1, <2>1
<1>8. QED BY <1>2, <1>4, <1>5, <1>6, <1>7

(* A form that a step leaves is not an unwind-protect that is linked.        *)
LEMMA LeavesUnlinked ==
  ASSUME ExitInv, CarefulExits, Next, NEW k \in DOMAIN cstack, k > Len(cstack'),
         cstack[k].kind \in UwpKinds
  PROVE  k \notin Linked
<1>1. PICK n \in Nat : n = Len(cstack) BY Activations DEF ExitInv
<1>2. cstack \in Seq(FormRecord \cup UnwindRecord) BY DEF ExitInv, StackTypes
<1>3. k \in 1 .. n BY <1>1, <1>2
<1>4. ASSUME Len(cstack') \in Nat, Len(cstack') >= n PROVE FALSE BY <1>3, <1>4
<1>5. CASE \E kind \in FormKinds, name \in Names : enter(kind, name)
  <2>1. PICK x : cstack' = Append(cstack, x) \/ cstack' = cstack BY <1>5 DEF enter
  <2>2. Len(cstack') = n + 1 \/ Len(cstack') = n BY <1>1, <1>2, <2>1
  <2>3. QED BY <1>4, <2>2
<1>6. ExitInv' BY ExitStepKeeps
<1>7. CASE leave_block \/ leave_tagbody \/ end_unwind_protect
  <2>1. n > 0 /\ Len(cstack') = n - 1 BY <1>1, <1>6, <1>7, Lengths
  <2>2. k = n BY <1>3, <2>1
  <2>3. Top.kind \notin UwpKinds
    BY <1>7 DEF leave_block, leave_tagbody, end_unwind_protect, UwpKinds, TagbodyKinds
  <2>4. QED BY <1>1, <2>2, <2>3 DEF Top
<1>8. CASE \/ leave_unwind_protect \/ cleanup_returns \/ unwind_release
           \/ unwind_cleanup_done \/ unwind_cleanup_code \/ unwind_cleanup_form
  BY <1>1, <1>4, <1>6, <1>8, Lengths
<1>9. CASE \/ \E j \in DOMAIN cstack : return_from(j) \/ go(j)
           \/ \E name \in Names : throw(name)
           \/ reset
  <2>1. PICK t : Unwind(t) BY <1>9 DEF return_from, go, throw, reset
  <2>2. Len(cstack') = n + 1 BY <1>1, <1>6, <2>1, Lengths
  <2>3. QED BY <1>4, <2>2
<1>10. CASE jump
  <2>1. PICK g : g = Top.target OBVIOUS
  <2>2. Unwinding /\ AtEnd /\ Top.target # PRIMORDIAL BY <1>10 DEF jump
  <2>3. PICK p \in Linked : /\ p \in 1 .. n - 1 /\ g = cstack[p].frame
                            /\ cstack[p].kind \in AllKinds \ UwpKinds
                            /\ \A m \in Linked : m <= p
    BY <1>1, <2>1, <2>2, TargetAt
  <2>4. frames[g].jmp = p BY <2>3 DEF ExitInv, FrameInv, FrameOK
  <2>5. jump_leave \/ jump_tagbody BY <1>10, JumpStep DEF jump
  <2>6. PICK c \in 0 .. n : cstack' = SubSeq(cstack, 1, c) /\ c \in {p - 1, p}
    BY <2>1, <2>3, <2>4, <2>5 DEF jump_leave, jump_tagbody
  <2>7. Len(cstack') = c BY <1>1, <1>2, <2>6, SubSeqProperties
  <2>8. k >= p BY <1>3, <2>3, <2>6, <2>7
  <2>9. k # p BY <2>3
  <2>10. QED BY <1>3, <2>3, <2>8, <2>9
<1>11. CASE jump_reset BY <1>11, ResetAtEnd
<1>12. CASE UnwindStep BY <1>8, <1>10, <1>11, <1>12 DEF UnwindStep
<1>13. QED BY <1>5, <1>7, <1>8, <1>9, <1>12 DEF Next

(* RT_unwind_to() runs the cleanup forms of every unwind-protect between the *)
(* exit and its target before it jumps: no step removes such a form from the *)
(* C stack before all of its cleanup forms have been started.                *)
THEOREM CleanupPrecedesExit ==
  ASSUME CarefulExits
  PROVE  UnwSpec => CleanupBeforeExit
<1> DEFINE A == \A k \in DOMAIN cstack :
                  k > Len(cstack') /\ cstack[k].kind \in UwpKinds =>
                    cstack[k].started = IF cstack[k].kind = "uwp_forms" THEN CleanupForms ELSE 1
<1>1. ASSUME ExitInv, Next PROVE A
  <2>1. SUFFICES ASSUME NEW k \in DOMAIN cstack, k > Len(cstack'), cstack[k].kind \in UwpKinds
                 PROVE  cstack[k].started =
                          IF cstack[k].kind = "uwp_forms" THEN CleanupForms ELSE 1
    OBVIOUS
  <2>2. k \notin Linked BY <1>1, <2>1, LeavesUnlinked
  <2>3. CleanupOK(k) BY <1>1 DEF ExitInv, CleanupInv
  <2>4. QED BY <2>1, <2>2, <2>3 DEF CleanupOK, UwpKinds
<1>2. ExitInv /\ [Next]_vars => [A]_vars BY <1>1
<1>3. QED BY <1>2, ExitInvariant, UnwindingRefines, PTL DEF Spec, CleanupBeforeExit

------------------------------------------------------------------------------
(* The special bindings.                                                     *)

(* The index of a linked form stays, and a form that is entered gets the     *)
(* number of bindings.                                                       *)
LEMMA MarksKept ==
  ASSUME ExitInv', NEW e, Marks(e), NEW k \in Linked', NEW g, g = cstack'[k].frame
  PROVE  g # NULL /\ marks'[g] = IF g = e THEN Len(bindings) ELSE marks[g]
<1>1. FrameOK(k)' BY DEF ExitInv, FrameInv
<1>2. k \in DOMAIN cstack' /\ cstack'[k].kind \in AllKinds BY DEF Linked
<1>3. g \in DOMAIN frames' /\ frames'[g].type \in AllKinds BY <1>1, <1>2 DEF FrameOK
<1>4. frames'[g] # Cleared BY <1>3 DEF Cleared, AllKinds
<1>5. g \in {cstack'[j].frame : j \in {j \in DOMAIN cstack' : cstack'[j].kind \in AllKinds}}
  BY <1>2
<1>6. frames' \in Seq(FrameRecord) BY DEF ExitInv, StackTypes
<1>7. g # NULL BY <1>3, <1>6 DEF NULL
<1>8. QED BY <1>3, <1>4, <1>5, <1>7 DEF Marks

(* Steps that leave the let forms alone and enter no form.                   *)
LEMMA LetsKept ==
  ASSUME ExitInv, LetInv, Keeps, Linked' \subseteq DOMAIN cstack, UNCHANGED <<bindings, lets>>,
         \A i \in DOMAIN lets : lets[i].depth <= Len(cstack'),
         \A k \in Linked' : marks'[cstack'[k].frame] = marks[cstack'[k].frame]
  PROVE  LetInv'
<1>1. \A k \in Linked' : k \in Linked /\ cstack'[k].frame = cstack[k].frame
  <2>1. ASSUME NEW k \in Linked' PROVE k \in Linked /\ cstack'[k].frame = cstack[k].frame
    <3>1. KeepsForm(k) BY <2>1 DEF Keeps
    <3>2. k \in 1 .. k BY <2>1, Activations DEF ExitInv
    <3>3. QED BY <2>1, <3>1, <3>2 DEF KeepsForm
  <2>2. QED BY <2>1
<1>2. \A k \in Linked' : MarkOK(k)'
  BY <1>1 DEF LetInv, MarkOK
<1>3. QED BY <1>2 DEF LetInv

(* A let form binds.                                                         *)
LEMMA LetStep ==
  ASSUME ExitInv, LetInv, let
  PROVE  LetInv'
<1>1. PICK n \in Nat : n = Len(cstack) BY Activations DEF ExitInv
<1>2. PICK l \in Nat : l = Len(lets) BY DEF LetInv
<1>3. lets \in Seq([depth : Nat, mark : Nat]) /\ DOMAIN lets = 1 .. l BY <1>2 DEF LetInv
<1>4. bindings = [i \in 1 .. l |-> i] BY <1>3 DEF LetInv
<1>5. bindings \in Seq(Nat) /\ Len(bindings) = l BY <1>4
<1>6. PICK x : x = [depth |-> n, mark |-> l] OBVIOUS
<1>7. x \in [depth : Nat, mark : Nat] /\ x.depth = n /\ x.mark = l BY <1>6
<1>8. /\ lets' = Append(lets, x) /\ bindings' = Append(bindings, l + 1)
      /\ UNCHANGED <<vars, marks>>
      /\ \A i \in DOMAIN lets : lets[i].depth < n
  BY <1>1, <1>2, <1>5, <1>6 DEF let, LetsLeft
<1>9. /\ lets' \in Seq([depth : Nat, mark : Nat]) /\ Len(lets') = l + 1
      /\ DOMAIN lets' = 1 .. l + 1
      /\ \A i \in 1 .. l : lets'[i] = lets[i]
      /\ lets'[l + 1] = x
  BY <1>2, <1>3, <1>7, <1>8
<1>10. bindings' = [i \in 1 .. l + 1 |-> i] BY <1>4, <1>5, <1>8
<1>11. cstack' = cstack /\ Linked' = Linked /\ marks' = marks
  BY <1>8 DEF vars, Linked, Unwinds, Ahead
<1>12. \A i \in 1 .. l + 1 : i \in 1 .. l \/ i = l + 1 OBVIOUS
<1>13. ASSUME NEW i \in 1 .. l + 1 PROVE lets'[i].mark = i - 1 /\ lets'[i].depth <= n
  <2>1. CASE i \in 1 .. l BY <1>1, <1>3, <1>9, <2>1 DEF LetInv
  <2>2. CASE i = l + 1 BY <1>7, <1>9, <2>2
  <2>3. QED BY <1>12, <2>1, <2>2
<1>14. ASSUME NEW k \in Linked PROVE MarkOK(k)'
  <2>1. MarkOK(k) /\ k \in 1 .. n BY <1>1, Activations DEF LetInv, ExitInv
  <2>2. PICK m \in 0 .. l : m = marks[cstack[k].frame] BY <1>2, <2>1 DEF MarkOK
  <2>3. \A i \in 1 .. l : i <= m <=> lets[i].depth < k BY <1>3, <2>1, <2>2 DEF MarkOK
  <2>4. ASSUME NEW i \in 1 .. l + 1 PROVE i <= m <=> lets'[i].depth < k
    <3>1. CASE i \in 1 .. l BY <1>9, <2>3, <3>1
    <3>2. CASE i = l + 1 BY <1>7, <1>9, <2>1, <2>2, <3>2
    <3>3. QED BY <1>12, <3>1, <3>2
  <2>5. m \in 0 .. l + 1 BY <2>2
  <2>6. QED BY <1>9, <1>11, <2>2, <2>4, <2>5 DEF MarkOK
<1>15. QED BY <1>1, <1>9, <1>10, <1>11, <1>13, <1>14 DEF LetInv

(* The let forms from some place on are gone, with their bindings.           *)
LEMMA LetsCut ==
  ASSUME ExitInv, LetInv, Keeps, Linked' \subseteq DOMAIN cstack,
         NEW m \in 0 .. Len(lets), bindings' = UnbindTo(m), lets' = [i \in 1 .. m |-> lets[i]],
         \A i \in 1 .. m : lets[i].depth <= Len(cstack'),
         \A k \in Linked' : /\ marks'[cstack'[k].frame] = marks[cstack'[k].frame]
                            /\ marks[cstack'[k].frame] <= m
  PROVE  LetInv'
<1>1. PICK l \in Nat : l = Len(lets)
  <2>1. lets \in Seq([depth : Nat, mark : Nat]) BY DEF LetInv
  <2>2. Len(lets) \in Nat BY <2>1, LenProperties
  <2>3. QED BY <2>2
<1>2. lets \in Seq([depth : Nat, mark : Nat]) /\ DOMAIN lets = 1 .. l BY <1>1 DEF LetInv
<1>3. bindings = [i \in 1 .. l |-> i] /\ Len(bindings) = l
  <2>1. bindings = [i \in 1 .. l |-> i] BY <1>2 DEF LetInv
  <2>2. QED BY <2>1
<1>4. m \in Nat /\ m <= l /\ \A i \in 1 .. m : i \in 1 .. l BY <1>1
<1>5. /\ lets' \in Seq([depth : Nat, mark : Nat]) /\ Len(lets') = m /\ DOMAIN lets' = 1 .. m
      /\ \A i \in 1 .. m : lets'[i] = lets[i]
  <2>1. PICK R : R = [depth : Nat, mark : Nat] OBVIOUS
  <2>2. lets \in Seq(R) BY <1>2, <2>1
  <2>3. \A i \in 1 .. l : lets[i] \in R BY <1>2, <2>2
  <2>4. \A i \in 1 .. m : lets[i] \in R BY <1>4, <2>3
  <2>5. lets' \in Seq(R) /\ Len(lets') = m /\ DOMAIN lets' = 1 .. m BY <1>4, <2>4
  <2>6. QED BY <2>1, <2>5
<1>6. bindings' = [i \in 1 .. m |-> i]
  <2>1. \A i \in 1 .. m : i <= Len(bindings) /\ bindings[i] = i BY <1>3, <1>4
  <2>2. QED BY <2>1 DEF UnbindTo
<1>7. \A i \in 1 .. m : lets'[i].mark = i - 1 /\ lets'[i].depth <= Len(cstack')
  <2>1. \A i \in 1 .. l : lets[i].mark = i - 1 BY <1>2 DEF LetInv
  <2>2. QED BY <1>4, <1>5, <2>1
<1>8. ASSUME NEW k \in Linked' PROVE MarkOK(k)'
  <2>1. KeepsForm(k) BY DEF Keeps
  <2>2. k \in 1 .. k BY Activations DEF ExitInv
  <2>3. k \in Linked /\ cstack'[k].frame = cstack[k].frame BY <2>1, <2>2 DEF KeepsForm
  <2>4. PICK j \in 0 .. l : j = marks[cstack[k].frame] BY <1>1, <2>3 DEF LetInv, MarkOK
  <2>5. \A i \in 1 .. l : i <= j <=> lets[i].depth < k BY <1>2, <2>3, <2>4 DEF LetInv, MarkOK
  <2>6. j = marks'[cstack'[k].frame] /\ j <= m BY <2>3, <2>4
  <2>7. QED BY <1>4, <1>5, <2>4, <2>5, <2>6 DEF MarkOK
<1>9. QED BY <1>5, <1>6, <1>7, <1>8 DEF LetInv

(* A let form ends.                                                          *)
LEMMA LeaveLetStep ==
  ASSUME ExitInv, LetInv, leave_let
  PROVE  LetInv'
<1>1. PICK n \in Nat : n = Len(cstack) BY Activations DEF ExitInv
<1>2. PICK l \in Nat : l = Len(lets) BY DEF LetInv
<1>3. PICK R : R = [depth : Nat, mark : Nat] OBVIOUS
<1>4. lets \in Seq(R) /\ DOMAIN lets = 1 .. l BY <1>2, <1>3 DEF LetInv
<1>5. /\ lets # << >> /\ Last(lets).depth = n /\ bindings' = UnbindTo(Last(lets).mark)
      /\ lets' = Front(lets) /\ UNCHANGED <<vars, marks>>
  BY <1>1 DEF leave_let
<1>6. l > 0 BY <1>2, <1>4, <1>5, EmptySeq
<1>7. PICK m \in 0 .. Len(lets) : m = l - 1 BY <1>2, <1>6
<1>8. Last(lets) = lets[l] /\ l \in DOMAIN lets BY <1>2, <1>4, <1>6 DEF Last
<1>9. lets[l].mark = m /\ lets[l].depth = n BY <1>5, <1>7, <1>8 DEF LetInv
<1>10. bindings' = UnbindTo(m) BY <1>5, <1>8, <1>9
<1>11. lets' = [i \in 1 .. m |-> lets[i]]
  <2>1. lets' = SubSeq(lets, 1, m) BY <1>2, <1>5, <1>7 DEF Front
  <2>2. SubSeq(lets, 1, m) = [i \in 1 .. m |-> lets[i]] BY <1>4, <1>7
  <2>3. QED BY <2>1, <2>2
<1>12. UNCHANGED <<frames, cstack, marks>> /\ Linked' = Linked
  BY <1>5 DEF vars, Linked, Unwinds, Ahead
<1>13. Linked' \subseteq DOMAIN cstack /\ Linked \subseteq 1 .. n
  BY <1>1, <1>12, Activations DEF ExitInv
<1>14. Keeps BY <1>12 DEF Keeps, KeepsForm
<1>15. \A i \in 1 .. m : lets[i].depth <= Len(cstack')
  <2>1. \A i \in 1 .. m : i \in DOMAIN lets BY <1>2, <1>4, <1>7
  <2>2. QED BY <1>12, <2>1 DEF LetInv
<1>16. ASSUME NEW k \in Linked' PROVE marks[cstack'[k].frame] <= m
  <2>1. k \in Linked /\ cstack'[k].frame = cstack[k].frame /\ k \in 1 .. n BY <1>12, <1>13
  <2>2. PICK j \in 0 .. l : j = marks[cstack[k].frame] BY <1>2, <2>1 DEF LetInv, MarkOK
  <2>3. l <= j <=> lets[l].depth < k BY <1>8, <2>1, <2>2 DEF LetInv, MarkOK
  <2>4. j <= m BY <1>7, <1>9, <2>1, <2>2, <2>3
  <2>5. QED BY <2>1, <2>2, <2>4
<1>17. QED BY <1>10, <1>11, <1>12, <1>13, <1>14, <1>15, <1>16, LetsCut

(* A form is entered: its index is the number of bindings.                   *)
LEMMA EnterFormStep ==
  ASSUME ExitInv, LetInv, CarefulExits, NEW kind \in FormKinds, NEW name \in Names,
         enter_form(kind, name)
  PROVE  LetInv'
<1>1. PICK n \in Nat : n = Len(cstack) BY Activations DEF ExitInv
<1>2. PICK f : f = NextFrame OBVIOUS
<1>3. PICK l \in Nat : l = Len(lets) BY DEF LetInv
<1>4. DOMAIN lets = 1 .. l /\ bindings = [i \in 1 .. l |-> i] BY <1>3 DEF LetInv
<1>5. Len(bindings) = l BY <1>4
<1>6. enter(kind, name) /\ Marks(f) /\ UNCHANGED <<bindings, lets>> BY <1>2 DEF enter_form
<1>7. ExitInv' /\ Keeps /\ f # last BY <1>2, <1>6, EnterStep
<1>8. PICK e : cstack' = Append(cstack, e) /\ e.frame = f BY <1>2, <1>6, <1>7 DEF enter
<1>9. cstack \in Seq(FormRecord \cup UnwindRecord) BY DEF ExitInv, StackTypes
<1>10. Len(cstack') = n + 1 /\ DOMAIN cstack' = 1 .. n + 1 /\ cstack'[n + 1].frame = f
       /\ DOMAIN cstack = 1 .. n
  BY <1>1, <1>8, <1>9
<1>11. \A k \in Linked' : k \in 1 .. n \/ k = n + 1 BY <1>10 DEF Linked
<1>12. \A i \in DOMAIN lets : lets[i].depth \in Nat /\ lets[i].depth <= n
  <2>1. PICK R : R = [depth : Nat, mark : Nat] OBVIOUS
  <2>2. lets \in Seq(R) BY <2>1 DEF LetInv
  <2>3. \A i \in DOMAIN lets : lets[i] \in R BY <2>2
  <2>4. \A i \in DOMAIN lets : lets[i].depth \in Nat BY <2>1, <2>3
  <2>5. QED BY <1>1, <2>4 DEF LetInv
<1>13. ASSUME NEW k \in Linked', k \in 1 .. n PROVE MarkOK(k)'
  <2>1. KeepsForm(k) BY <1>7, <1>10, <1>13 DEF Keeps
  <2>2. k \in 1 .. k BY <1>13
  <2>3. k \in Linked /\ cstack'[k].frame = cstack[k].frame BY <1>13, <2>1, <2>2 DEF KeepsForm
  <2>4. cstack'[k].frame # f BY <1>2, <2>3, NextFrameFree
  <2>5. marks'[cstack'[k].frame] = marks[cstack[k].frame] BY <1>6, <1>7, <1>13, <2>3, <2>4, MarksKept
  <2>6. MarkOK(k) BY <2>3 DEF LetInv
  <2>7. QED BY <1>6, <2>5, <2>6 DEF MarkOK
<1>14. ASSUME n + 1 \in Linked' PROVE MarkOK(n + 1)'
  <2>1. marks'[f] = l BY <1>5, <1>6, <1>7, <1>10, <1>14, MarksKept
  <2>2. \A i \in 1 .. l : i <= l <=> lets[i].depth < n + 1 BY <1>4, <1>12
  <2>3. l \in 0 .. l OBVIOUS
  <2>4. QED BY <1>3, <1>4, <1>6, <1>10, <2>1, <2>2, <2>3 DEF MarkOK
<1>15. \A i \in DOMAIN lets : lets[i].depth <= n + 1 BY <1>12
<1>16. QED BY <1>6, <1>10, <1>11, <1>13, <1>14, <1>15 DEF LetInv

(* No form is entered: the linked forms were there before.                   *)
LEMMA NoneEntered ==
  ASSUME ExitInv, ExitInv', NEW n \in Nat, n = Len(cstack), NEW i \in Nat, i = Len(cstack'),
         i <= n \/ (i = n + 1 /\ cstack'[i].kind = "unwind")
  PROVE  Linked' \subseteq DOMAIN cstack
<1>1. DOMAIN cstack = 1 .. n /\ DOMAIN cstack' = 1 .. i BY DEF ExitInv, StackTypes
<1>2. \A k \in Linked' : k \in 1 .. i /\ cstack'[k].kind # "unwind"
  BY <1>1 DEF Linked, AllKinds
<1>3. \A k \in Linked' : k \in 1 .. n BY <1>2
<1>4. QED BY <1>1, <1>3

(* The steps that leave the bindings alone.                                  *)
LEMMA OtherFormSteps ==
  ASSUME ExitInv, LetInv, CarefulExits, leave_form \/ exit_form \/ unwind_loop \/ cleanup_end
  PROVE  LetInv'
<1>1. PICK n \in Nat : n = Len(cstack) BY Activations DEF ExitInv
<1>2. Next
  BY DEF leave_form, exit_form, unwind_loop, cleanup_end, Next, UnwindStep
<1>3. ExitInv' /\ Keeps BY <1>2, ExitStepKeeps
<1>4. UNCHANGED <<bindings, lets>>
  BY DEF leave_form, exit_form, unwind_loop, cleanup_end, bind_vars
<1>5. \A k \in Linked' : marks'[cstack'[k].frame] = marks[cstack'[k].frame]
  <2>1. Marks(NULL) \/ marks' = marks
    BY DEF leave_form, exit_form, unwind_loop, cleanup_end, bind_vars
  <2>2. QED BY <1>3, <2>1, MarksKept
<1>6. \A i \in DOMAIN lets : lets[i].depth \in Nat /\ lets[i].depth <= n
  <2>1. PICK R : R = [depth : Nat, mark : Nat] OBVIOUS
  <2>2. lets \in Seq(R) BY <2>1 DEF LetInv
  <2>3. \A i \in DOMAIN lets : lets[i] \in R BY <2>2
  <2>4. \A i \in DOMAIN lets : lets[i].depth \in Nat BY <2>1, <2>3
  <2>5. QED BY <1>1, <2>4 DEF LetInv
<1>7. CASE leave_form
  <2>1. \A i \in DOMAIN lets : lets[i].depth < n BY <1>1, <1>7 DEF leave_form, LetsLeft
  <2>2. PICK i \in Nat : i = Len(cstack') /\ i <= n /\ i >= n - 1
    BY <1>1, <1>3, <1>7, Lengths DEF leave_form
  <2>3. Linked' \subseteq DOMAIN cstack BY <1>1, <1>3, <2>2, NoneEntered
  <2>4. \A j \in DOMAIN lets : lets[j].depth <= Len(cstack') BY <1>6, <2>1, <2>2
  <2>5. QED BY <1>3, <1>4, <1>5, <2>3, <2>4, LetsKept
<1>8. CASE unwind_loop \/ cleanup_end
  <2>1. Len(cstack') = n BY <1>1, <1>3, <1>8, Lengths DEF unwind_loop, cleanup_end
  <2>2. Linked' \subseteq DOMAIN cstack BY <1>1, <1>3, <2>1, NoneEntered
  <2>3. QED BY <1>3, <1>4, <1>5, <1>6, <2>1, <2>2, LetsKept
<1>9. CASE exit_form
  <2>1. PICK t : Unwind(t) BY <1>9 DEF exit_form, return_from, go, throw, reset
  <2>2. Len(cstack') = n + 1 /\ cstack'[n + 1].kind = "unwind" BY <1>1, <1>3, <2>1, Lengths
  <2>3. PICK i \in Nat : i = n + 1 OBVIOUS
  <2>4. Linked' \subseteq DOMAIN cstack BY <1>1, <1>3, <2>2, <2>3, NoneEntered
  <2>5. \A j \in DOMAIN lets : lets[j].depth <= Len(cstack') BY <1>6, <2>2
  <2>6. QED BY <1>3, <1>4, <1>5, <2>4, <2>5, LetsKept
<1>10. QED BY <1>7, <1>8, <1>9

(* The jump unbinds what the let forms inside of the target have bound.      *)
LEMMA JumpToStep ==
  ASSUME ExitInv, LetInv, CarefulExits, jump_to
  PROVE  LetInv'
<1>1. PICK n \in Nat : n = Len(cstack) BY Activations DEF ExitInv
<1>2. PICK g : g = Top.target OBVIOUS
<1>3. jump BY DEF jump_to
<1>4. Unwinding /\ AtEnd /\ Top.target # PRIMORDIAL BY <1>3 DEF jump
<1>5. PICK p \in Linked : /\ p \in 1 .. n - 1 /\ g = cstack[p].frame BY <1>1, <1>2, <1>4, TargetAt
<1>6. frames[g].jmp = p BY <1>5 DEF ExitInv, FrameInv, FrameOK
<1>7. ExitInv' /\ Keeps /\ CanJump(g) BY <1>2, <1>3, JumpStep
<1>8. jump_leave \/ jump_tagbody BY <1>2, <1>3, <1>7 DEF jump
<1>9. cstack \in Seq(FormRecord \cup UnwindRecord) BY DEF ExitInv, StackTypes
<1>10. PICK c \in 0 .. n : cstack' = SubSeq(cstack, 1, c) /\ c \in {p - 1, p}
  BY <1>2, <1>5, <1>6, <1>8 DEF jump_leave, jump_tagbody
<1>11. Len(cstack') = c BY <1>1, <1>9, <1>10, SubSeqProperties
<1>12. Linked' \subseteq DOMAIN cstack BY <1>1, <1>7, <1>11, NoneEntered
<1>13. PICK l \in Nat : l = Len(lets) BY DEF LetInv
<1>14. DOMAIN lets = 1 .. l BY <1>13 DEF LetInv
<1>15. PICK m \in 0 .. Len(lets) : m = marks[g] BY <1>5 DEF LetInv, MarkOK
<1>16. \A i \in 1 .. l : i <= m <=> lets[i].depth < p BY <1>5, <1>14, <1>15 DEF LetInv, MarkOK
<1>17. bindings' = UnbindTo(m) BY <1>2, <1>15 DEF jump_to, RestoreBindings
<1>18. \A i : i \in 1 .. m <=> i \in 1 .. l /\ lets[i].depth < p BY <1>13, <1>15, <1>16
<1>19. lets' = [i \in 1 .. m |-> lets[i]]
  <2>1. lets' = [i \in {i \in 1 .. l : lets[i].depth < p} |-> lets[i]]
    BY <1>2, <1>6, <1>14 DEF jump_to
  <2>2. {i \in 1 .. l : lets[i].depth < p} = 1 .. m BY <1>18
  <2>3. QED BY <2>1, <2>2
<1>20. \A i \in 1 .. m : lets[i].depth <= Len(cstack')
  <2>1. PICK R : R = [depth : Nat, mark : Nat] OBVIOUS
  <2>2. lets \in Seq(R) BY <2>1 DEF LetInv
  <2>3. \A i \in DOMAIN lets : lets[i] \in R BY <2>2
  <2>4. \A i \in 1 .. l : lets[i].depth \in Nat BY <1>14, <2>1, <2>3
  <2>5. QED BY <1>5, <1>10, <1>11, <1>18, <2>4
<1>21. ASSUME NEW k \in Linked'
       PROVE  /\ marks'[cstack'[k].frame] = marks[cstack'[k].frame]
              /\ marks[cstack'[k].frame] <= m
  <2>1. KeepsForm(k) BY <1>7, <1>12 DEF Keeps
  <2>2. k \in 1 .. c
    <3>1. DOMAIN cstack' = 1 .. c BY <1>7, <1>11 DEF ExitInv, StackTypes
    <3>2. QED BY <3>1 DEF Linked
  <2>3. k \in Linked /\ cstack'[k].frame = cstack[k].frame
    <3>1. k \in 1 .. k BY <2>2
    <3>2. QED BY <2>1, <3>1 DEF KeepsForm
  <2>4. marks'[cstack'[k].frame] = marks[cstack'[k].frame] BY <1>7, MarksKept DEF jump_to
  <2>5. PICK j \in 0 .. l : j = marks[cstack[k].frame] BY <1>13, <2>3 DEF LetInv, MarkOK
  <2>6. \A i \in 1 .. l : i <= j <=> lets[i].depth < k BY <1>14, <2>3, <2>5 DEF LetInv, MarkOK
  <2>7. j <= m
    <3>1. CASE j = 0 BY <1>15, <3>1
    <3>2. CASE j > 0
      <4>1. j \in 1 .. l /\ lets[j].depth < k BY <2>5, <2>6, <3>2
      <4>2. PICK R : R = [depth : Nat, mark : Nat] OBVIOUS
      <4>3. lets \in Seq(R) BY <4>2 DEF LetInv
      <4>4. lets[j] \in R BY <1>14, <4>1, <4>3
      <4>5. lets[j].depth \in Nat BY <4>2, <4>4
      <4>6. lets[j].depth < p BY <1>5, <1>10, <2>2, <4>1, <4>5
      <4>7. QED BY <1>15, <1>16, <4>1, <4>6
    <3>3. QED BY <2>5, <3>1, <3>2
  <2>8. QED BY <2>3, <2>4, <2>5, <2>7
<1>22. QED BY <1>7, <1>12, <1>15, <1>17, <1>19, <1>20, <1>21, LetsCut

(* Every step keeps the invariant of the bindings.                           *)
LEMMA LetStepKeeps ==
  ASSUME ExitInv, LetInv, CarefulExits, [UnwNext]_unw_vars
  PROVE  LetInv'
<1>1. CASE let BY <1>1, LetStep
<1>2. CASE leave_let BY <1>2, LeaveLetStep
<1>3. CASE \E kind \in FormKinds, n \in Names : enter_form(kind, n) BY <1>3, EnterFormStep
<1>4. CASE leave_form \/ exit_form \/ unwind_loop \/ cleanup_end BY <1>4, OtherFormSteps
<1>5. CASE jump_to BY <1>5, JumpToStep
<1>6. CASE jump_to_main
  <2>1. cstack' = << >> /\ lets' = << >> /\ bindings' = UnbindTo(0)
    BY <1>6 DEF jump_to_main, jump_reset, RestoreBindings
  <2>2. Linked' = {} BY <2>1 DEF Linked
  <2>3. DOMAIN lets' = {} /\ lets' \in Seq([depth : Nat, mark : Nat]) BY <2>1
  <2>4. bindings' = [i \in DOMAIN lets' |-> i] BY <2>1, <2>3 DEF UnbindTo
  <2>5. QED BY <2>2, <2>3, <2>4 DEF LetInv
<1>7. CASE UNCHANGED unw_vars
  <2>1. UNCHANGED <<frames, pool, last, last_tag, cstack, trapped, bindings, lets, marks>>
    BY <1>7 DEF unw_vars, vars, bind_vars
  <2>2. Linked' = Linked BY <2>1 DEF Linked, Unwinds, Ahead
  <2>3. QED BY <2>1, <2>2 DEF LetInv, MarkOK
<1>8. QED BY <1>1, <1>2, <1>3, <1>4, <1>5, <1>6, <1>7 DEF UnwNext

(* restore_frame_context(): after any exit, and while cleanup forms run, the *)
(* bindings are those of the let forms that are being evaluated, and those   *)
(* of the let forms that the exit has skipped are undone.                    *)
THEOREM BindingsOfLets ==
  ASSUME CarefulExits
  PROVE  UnwSpec => []BindingsAreOfLets
<1>1. UnwInit => LetInv
  <2> SUFFICES ASSUME UnwInit PROVE LetInv OBVIOUS
  <2>1. cstack = << >> /\ lets = << >> /\ bindings = << >> BY DEF UnwInit, Init
  <2>2. Linked = {} BY <2>1 DEF Linked
  <2>3. DOMAIN lets = {} /\ lets \in Seq([depth : Nat, mark : Nat]) BY <2>1
  <2>4. bindings = [i \in DOMAIN lets |-> i] BY <2>1, <2>3
  <2>5. QED BY <2>2, <2>3, <2>4 DEF LetInv
<1>2. ExitInv /\ LetInv /\ [UnwNext]_unw_vars => LetInv' BY LetStepKeeps
<1>3. LetInv => BindingsAreOfLets BY DEF LetInv, BindingsAreOfLets
<1>4. QED BY <1>1, <1>2, <1>3, ExitInvariant, UnwindingRefines, PTL DEF UnwSpec

------------------------------------------------------------------------------
(* The visible tags.                                                         *)

(* The same bodies are before m as were before n; while an exit is made none *)
(* may have been added.                                                      *)
SameBodies(B, U, c, n, C, V, d, m) ==
  /\ \A b \in C : b < m => b \in B /\ b < n /\ d[b].tags = c[b].tags /\ d[b].kind = c[b].kind
  /\ (\A r \in V : m <= r) => (\A r \in U : n <= r) /\ \A b \in B : b < n => b \in C /\ b < m

(* Then the same tags are visible.                                           *)
LEMMA VisibleKept ==
  ASSUME NEW B, NEW C, B \subseteq Nat, C \subseteq Nat, NEW U, NEW V, NEW c, NEW d, NEW t,
         NEW n \in Nat, NEW m \in Nat, VisibleTo(B, U, c, t, n), SameBodies(B, U, c, n, C, V, d, m)
  PROVE  VisibleTo(C, V, d, t, m)
<1> USE DEF SameBodies
<1>1. \A b \in C : b < m => EndOf(d[b].tags, t) BY DEF VisibleTo
<1>2. ASSUME \A r \in V : m <= r
      PROVE  /\ (\A b \in C : m <= b) => t = << >>
             /\ \A b \in C :
                  b < m /\ d[b].kind = "tagbody" /\ (\A i \in C : i < m => i <= b) => t = d[b].tags
  <2>1. (\A r \in U : n <= r) /\ \A b \in B : b < n => b \in C /\ b < m BY <1>2
  <2>2. ASSUME \A b \in C : m <= b PROVE t = << >>
    <3>1. \A b \in B : n <= b BY <2>1, <2>2
    <3>2. QED BY <2>1, <3>1 DEF VisibleTo
  <2>3. ASSUME NEW b \in C, b < m, d[b].kind = "tagbody", \A i \in C : i < m => i <= b
        PROVE  t = d[b].tags
    <3>1. \A i \in B : i < n => i <= b BY <2>1, <2>3
    <3>2. b \in B /\ b < n /\ c[b].kind = "tagbody" /\ d[b].tags = c[b].tags BY <2>3
    <3>3. QED BY <2>1, <3>1, <3>2 DEF VisibleTo
  <2>4. QED BY <2>2, <2>3
<1>3. QED BY <1>1, <1>2 DEF VisibleTo

(* The bodies C before p have the tags that they had, and p has t.           *)
BodiesKept(B, c, C, d, p, t) ==
  /\ p \in C /\ d[p].tags = t
  /\ \A b \in B : c[b].tags \in Seq(Tag)
  /\ \A b \in C : b < p => b \in B /\ d[b].tags = c[b].tags

(* t has one tag in front of s.                                              *)
TagBefore(t, s) == \E x \in Tag : t = <<x>> \o s

(* A body that has its tag in front of what is visible to it.                *)
LEMMA VisibleInBody ==
  ASSUME NEW B, NEW C, B \subseteq Nat, C \subseteq Nat, NEW U, NEW V, NEW c, NEW d,
         NEW s \in Seq(Tag), NEW t, NEW p \in Nat, NEW m, m = p + 1,
         VisibleTo(B, U, c, s, p), TagBefore(t, s), BodiesKept(B, c, C, d, p, t)
  PROVE  VisibleTo(C, V, d, t, m)
<1> PICK x \in Tag : t = <<x>> \o s BY DEF TagBefore
<1> USE DEF BodiesKept
<1>1. t \in Seq(Tag) /\ Len(t) = Len(s) + 1 /\ \A i \in 1 .. Len(s) : t[i + 1] = s[i]
  OBVIOUS
<1>2. PICK l \in Nat : l = Len(s) /\ Len(t) = l + 1 BY <1>1
<1>3. EndOf(t, t) BY <1>2 DEF EndOf
<1>4. ASSUME NEW b \in C, b < p PROVE EndOf(d[b].tags, t)
  <2>1. b \in B /\ d[b].tags = c[b].tags BY <1>4
  <2>2. PICK w \in Seq(Tag) : w = c[b].tags BY <2>1
  <2>3. EndOf(w, s) BY <1>4, <2>1, <2>2 DEF VisibleTo
  <2>4. PICK q \in Nat : q = Len(w) BY <2>2
  <2>5. q <= l /\ \A i \in 1 .. q : w[i] = s[l - q + i] BY <1>2, <2>3, <2>4 DEF EndOf
  <2>6. ASSUME NEW i \in 1 .. q PROVE w[i] = t[(l + 1) - q + i]
    <3>1. l - q + i \in 1 .. l BY <2>5
    <3>2. PICK j \in 1 .. l : j = l - q + i BY <3>1
    <3>3. t[j + 1] = s[j] BY <1>1, <1>2
    <3>4. j + 1 = (l + 1) - q + i BY <3>2
    <3>5. QED BY <2>5, <3>2, <3>3, <3>4
  <2>7. Len(w) <= Len(t) BY <1>2, <2>4, <2>5
  <2>8. \A i \in 1 .. Len(w) : w[i] = t[Len(t) - Len(w) + i] BY <1>2, <2>4, <2>6
  <2>9. EndOf(w, t) BY <2>7, <2>8, Zenon DEF EndOf
  <2>10. QED BY <2>1, <2>2, <2>9
<1>5. \A b \in C : b < p + 1 => b < p \/ b = p OBVIOUS
<1>6. \A b \in C : b < p + 1 => EndOf(d[b].tags, t) BY <1>3, <1>4, <1>5
<1>7. ~ \A b \in C : p + 1 <= b OBVIOUS
<1>8. ASSUME NEW b \in C, b < p + 1, \A i \in C : i < p + 1 => i <= b PROVE t = d[b].tags
  <2>1. p <= b BY <1>8
  <2>2. b = p BY <1>5, <1>8, <2>1
  <2>3. QED BY <2>2
<1>9. QED BY <1>6, <1>7, <1>8 DEF VisibleTo

(* What a form that stays linked knows of the tags does not change.          *)
LEMMA FormTagsKept ==
  ASSUME ExitInv, ExitInv', TagsInv, Keeps, NEW k \in Linked', k \in DOMAIN cstack
  PROVE  (Visible(frames[cstack[k].frame].tags, k) /\ BodyOK(k))'
<1>1. KeepsForm(k) BY DEF Keeps
<1>2. PICK n \in Nat : n = Len(cstack) BY Activations DEF ExitInv
<1>3. PICK i \in Nat : i = Len(cstack') /\ DOMAIN cstack' = 1 .. i BY DEF ExitInv, StackTypes
<1>4. DOMAIN cstack = 1 .. n /\ k \in 1 .. n /\ k \in 1 .. i
  BY <1>2, <1>3, Activations DEF ExitInv, Linked
<1>5. k \in Linked /\ cstack'[k].frame = cstack[k].frame /\ cstack'[k].kind = cstack[k].kind
      /\ cstack'[k].tags = cstack[k].tags
  <2>1. k \in 1 .. k BY <1>4
  <2>2. QED BY <1>1, <2>1 DEF KeepsForm
<1>6. PICK t : t = frames[cstack[k].frame].tags OBVIOUS
<1>7. t = frames'[cstack'[k].frame].tags BY <1>1, <1>5, <1>6 DEF KeepsForm
<1>8. VisibleTo(Bodies, Unwinds, cstack, t, k) BY <1>5, <1>6 DEF TagsInv, Visible
<1>9. Bodies \subseteq Nat /\ Bodies' \subseteq Nat BY <1>3, <1>4 DEF Bodies, Linked
<1>10. \A b \in Nat : b < k /\ b \in Bodies' <=> b < k /\ b \in Bodies
  <2>1. ASSUME NEW b \in Nat, b < k, b \in Linked' \/ b \in Linked
        PROVE  b \in Bodies' <=> b \in Bodies
    <3>1. b \in 1 .. k BY <1>3, <1>4, <2>1 DEF Linked
    <3>2. b \in Linked' /\ b \in Linked /\ cstack'[b].kind = cstack[b].kind
      BY <1>1, <2>1, <3>1 DEF KeepsForm
    <3>3. QED BY <3>2 DEF Bodies
  <2>2. QED BY <2>1 DEF Bodies
<1>11. \A b \in Bodies' : b < k => cstack'[b].tags = cstack[b].tags /\ cstack'[b].kind = cstack[b].kind
  <2>1. ASSUME NEW b \in Bodies', b < k PROVE b \in 1 .. k BY <1>3, <1>4, <2>1 DEF Bodies, Linked
  <2>2. QED BY <1>1, <2>1 DEF KeepsForm
<1>12. ASSUME NEW r \in Unwinds, r < k PROVE r \in Unwinds'
  <2>1. r \in 1 .. k /\ r \in 1 .. i BY <1>4, <1>12 DEF Unwinds
  <2>2. QED BY <1>1, <1>3, <1>12, <2>1 DEF KeepsForm, Unwinds
<1>13. Unwinds \subseteq Nat /\ Unwinds' \subseteq Nat BY <1>3, <1>4 DEF Unwinds
<1>14. (\A r \in Unwinds' : k <= r) => \A r \in Unwinds : k <= r BY <1>4, <1>12, <1>13
<1>15. k \in Nat BY <1>4
<1>16. VisibleTo(Bodies', Unwinds', cstack', t, k)
  <2>1. \A b \in Bodies' : b < k => /\ b \in Bodies /\ b < k /\ cstack'[b].tags = cstack[b].tags
                                    /\ cstack'[b].kind = cstack[b].kind
    BY <1>9, <1>10, <1>11
  <2>2. \A b \in Bodies : b < k => b \in Bodies' BY <1>9, <1>10
  <2>3. SameBodies(Bodies, Unwinds, cstack, k, Bodies', Unwinds', cstack', k)
    BY <1>14, <2>1, <2>2 DEF SameBodies
  <2>4. QED BY <1>8, <1>9, <1>15, <2>3, VisibleKept
<1>17. BodyOK(k)' BY <1>5, <1>6, <1>7 DEF TagsInv, BodyOK
<1>18. QED BY <1>7, <1>16, <1>17 DEF Visible

(* Tags that were visible to activation p are what is visible on top.        *)
LEMMA LastTagKept ==
  ASSUME ExitInv, ExitInv', Keeps, NEW n \in Nat, n = Len(cstack), NEW i \in Nat, i = Len(cstack'),
         NEW t, NEW p \in 1 .. n + 1, Visible(t, p), \A k \in Linked' : k < p,
         Unwinds' = {} => /\ \A r \in Unwinds : p <= r
                          /\ \A b \in Bodies : b < p => b <= i /\ cstack'[b].kind = cstack[b].kind
  PROVE  VisibleTo(Bodies', Unwinds', cstack', t, i + 1)
<1>1. DOMAIN cstack = 1 .. n /\ DOMAIN cstack' = 1 .. i BY DEF ExitInv, StackTypes
<1>2. Bodies \subseteq Nat /\ Bodies' \subseteq Nat BY <1>1 DEF Bodies, Linked
<1>3. ASSUME NEW b \in Bodies'
      PROVE  /\ b \in Bodies /\ b < p /\ cstack'[b].tags = cstack[b].tags
             /\ cstack'[b].kind = cstack[b].kind
  <2>1. b \in Linked' /\ b < p /\ b \in 1 .. i BY <1>1 DEF Bodies, Linked
  <2>2. b \in DOMAIN cstack BY <1>1, <2>1
  <2>3. KeepsForm(b) /\ b \in 1 .. b BY <2>1, <2>2 DEF Keeps
  <2>4. QED BY <1>3, <2>1, <2>3 DEF KeepsForm, Bodies
<1>4. ASSUME \A r \in Unwinds' : i + 1 <= r
      PROVE  (\A r \in Unwinds : p <= r) /\ \A b \in Bodies : b < p => b \in Bodies' /\ b < i + 1
  <2>1. Unwinds' = {} BY <1>1, <1>4 DEF Unwinds
  <2>2. ASSUME NEW b \in Bodies, b < p PROVE b \in Bodies' /\ b < i + 1
    <3>1. b <= i /\ cstack'[b].kind = cstack[b].kind /\ b \in 1 .. i
      BY <1>1, <2>1, <2>2 DEF Bodies, Linked
    <3>2. cstack[b].kind \in AllKinds /\ cstack[b].kind \in TagbodyKinds BY <2>2 DEF Bodies, Linked
    <3>3. b \in Linked' BY <1>1, <2>1, <3>1, <3>2 DEF Linked
    <3>4. QED BY <3>1, <3>2, <3>3 DEF Bodies
  <2>3. QED BY <2>1, <2>2
<1>5. p \in Nat /\ i + 1 \in Nat OBVIOUS
<1>6. VisibleTo(Bodies, Unwinds, cstack, t, p) BY DEF Visible
<1>7. SameBodies(Bodies, Unwinds, cstack, p, Bodies', Unwinds', cstack', i + 1)
  BY <1>3, <1>4 DEF SameBodies
<1>8. QED BY <1>2, <1>5, <1>6, <1>7, VisibleKept

(* While an exit is made the tags stay as they are.                          *)
LEMMA TagsWhileUnwinding ==
  ASSUME ExitInv, ExitInv', TagsInv, Keeps, UNCHANGED last_tag, Unwinds' # {},
         Linked' \subseteq DOMAIN cstack
  PROVE  Visible(last_tag, Len(cstack) + 1)'
<1>1. PICK n \in Nat : n = Len(cstack) /\ DOMAIN cstack = 1 .. n BY DEF ExitInv, StackTypes
<1>2. PICK i \in Nat : i = Len(cstack') BY DEF ExitInv, StackTypes
<1>3. PICK p \in 1 .. n + 1 : p = n + 1 OBVIOUS
<1>4. Visible(last_tag, p) BY <1>1, <1>3 DEF TagsInv
<1>5. \A k \in Linked' : k < p BY <1>1, <1>3
<1>6. VisibleTo(Bodies', Unwinds', cstack', last_tag, i + 1)
  BY <1>1, <1>2, <1>4, <1>5, LastTagKept
<1>7. QED BY <1>2, <1>6 DEF Visible

(* The loop of RT_unwind_to() is in progress after each of its steps.        *)
LEMMA StillUnwinding ==
  ASSUME ExitInv, ExitInv', \/ unwind_release \/ unwind_cleanup_done \/ cleanup_returns
                            \/ unwind_cleanup_code \/ unwind_cleanup_form
  PROVE  Unwinds' # {} /\ Linked' \subseteq DOMAIN cstack /\ UNCHANGED last_tag
<1>1. PICK n \in Nat : n = Len(cstack) /\ DOMAIN cstack = 1 .. n BY DEF ExitInv, StackTypes
<1>2. Len(cstack') = n BY <1>1, Lengths
<1>3. DOMAIN cstack' = 1 .. n BY <1>2 DEF ExitInv, StackTypes
<1>4. cstack # << >> /\ Top.kind = "unwind"
  BY DEF unwind_release, unwind_cleanup_done, cleanup_returns, unwind_cleanup_code,
         unwind_cleanup_form, Unwinding
<1>5. cstack \in Seq(FormRecord \cup UnwindRecord) BY DEF ExitInv, StackTypes
<1>6. n \in 1 .. n /\ Top = cstack[n] BY <1>1, <1>4, <1>5, EmptySeq DEF Top
<1>7. cstack[n] \in UnwindRecord BY <1>1, <1>4, <1>6, Activations DEF ExitInv, Unwinds
<1>8. ASSUME NEW f, NEW next, NEW low, NEW cl
      PROVE  /\ DOMAIN Step(f, next, low, cl) = 1 .. n
             /\ Step(f, next, low, cl)[n].kind = "unwind"
             /\ DOMAIN Step(f, next, low, cl)[n] = DOMAIN cstack[n]
  <2>1. PICK u : u = [cstack[n] EXCEPT !.f = f, !.next = next, !.low = low, !.cleaning = cl] OBVIOUS
  <2>2. u.kind = "unwind" /\ DOMAIN u = DOMAIN cstack[n] BY <1>4, <1>6, <1>7, <2>1 DEF UnwindRecord
  <2>3. Step(f, next, low, cl) = [cstack EXCEPT ![n] = u] BY <1>1, <2>1 DEF Step
  <2>4. QED BY <1>1, <1>6, <2>2, <2>3
<1>9. cstack'[n].kind = "unwind"
  <2>1. CASE cleanup_returns \/ unwind_release \/ unwind_cleanup_done
    <3>1. PICK f, next, low, cl : cstack' = Step(f, next, low, cl)
      BY <2>1 DEF cleanup_returns, unwind_release, unwind_cleanup_done
    <3>2. QED BY <1>8, <3>1
  <2>2. CASE unwind_cleanup_code \/ unwind_cleanup_form
    <3>1. PICK f, cl : RunsCleanup(f, cl)
      BY <2>2 DEF unwind_cleanup_code, unwind_cleanup_form, RunsCleanup
    <3>2. PICK c, k : /\ c = Step(f, frames[f].next, frames[f].jmp, cl) /\ k = frames[f].jmp
                      /\ cstack' = [c EXCEPT ![k].started = @ + 1]
      BY <3>1 DEF RunsCleanup
    <3>3. DOMAIN c = 1 .. n /\ c[n].kind = "unwind" BY <1>8, <3>2
    <3>4. PICK x : x = [c[k] EXCEPT !.started = @ + 1] OBVIOUS
    <3>5. x.kind = c[k].kind BY <3>4
    <3>6. cstack' = [c EXCEPT ![k] = x] BY <3>2, <3>4
    <3>7. QED BY <1>6, <3>3, <3>5, <3>6
  <2>3. QED BY <2>1, <2>2
<1>10. Unwinds' # {} BY <1>3, <1>6, <1>9 DEF Unwinds
<1>11. Linked' \subseteq DOMAIN cstack BY <1>1, <1>3 DEF Linked
<1>12. UNCHANGED last_tag
  BY DEF unwind_release, unwind_cleanup_done, cleanup_returns, unwind_cleanup_code,
         unwind_cleanup_form
<1>13. QED BY <1>10, <1>11, <1>12

(* The stack has been cut, and only what has nothing to do with tags is gone *)
(* before the activation to which t was visible.                             *)
LEMMA TagsCut ==
  ASSUME ExitInv, ExitInv', Keeps, NEW n \in Nat, n = Len(cstack), NEW i \in Nat, i = Len(cstack'),
         NEW t, NEW p \in 1 .. n + 1, Visible(t, p), \A k \in Linked' : k < p,
         \A m \in 1 .. p - 1 : cstack[m].kind \in TagbodyKinds \cup {"unwind"} =>
                                 m <= i /\ cstack'[m].kind = cstack[m].kind
  PROVE  VisibleTo(Bodies', Unwinds', cstack', t, i + 1)
<1>1. DOMAIN cstack = 1 .. n /\ DOMAIN cstack' = 1 .. i BY DEF ExitInv, StackTypes
<1>2. ASSUME NEW r \in Unwinds, r < p PROVE r \in Unwinds'
  <2>1. r \in 1 .. p - 1 /\ cstack[r].kind = "unwind" BY <1>1, <1>2 DEF Unwinds
  <2>2. r <= i /\ cstack'[r].kind = "unwind" BY <2>1
  <2>3. QED BY <1>1, <2>1, <2>2 DEF Unwinds
<1>3. \A r \in Unwinds : r \in Nat BY <1>1 DEF Unwinds
<1>4. Unwinds' = {} => \A r \in Unwinds : p <= r BY <1>2, <1>3
<1>5. ASSUME NEW b \in Bodies, b < p PROVE b <= i /\ cstack'[b].kind = cstack[b].kind
  <2>1. b \in 1 .. p - 1 /\ cstack[b].kind \in TagbodyKinds BY <1>1, <1>5 DEF Bodies, Linked
  <2>2. QED BY <2>1
<1>6. QED BY <1>4, <1>5, LastTagKept

(* A form ends.                                                              *)
LEMMA LeaveTags ==
  ASSUME ExitInv, ExitInv', TagsInv, Keeps, 
         leave_block \/ leave_tagbody \/ leave_unwind_protect \/ end_unwind_protect
  PROVE  Visible(last_tag, Len(cstack) + 1)' /\ Linked' \subseteq DOMAIN cstack
<1>1. PICK n \in Nat : n = Len(cstack) /\ DOMAIN cstack = 1 .. n BY DEF ExitInv, StackTypes
<1>2. PICK i \in Nat : i = Len(cstack') /\ DOMAIN cstack' = 1 .. i BY DEF ExitInv, StackTypes
<1>3. cstack \in Seq(FormRecord \cup UnwindRecord) BY DEF ExitInv, StackTypes
<1>4. cstack # << >>
  BY DEF leave_block, leave_tagbody, leave_unwind_protect, end_unwind_protect
<1>5. n > 0 /\ Top = cstack[n] BY <1>1, <1>3, <1>4, EmptySeq DEF Top
<1>6. ASSUME Pop PROVE i = n - 1 /\ \A m \in 1 .. n - 1 : cstack'[m] = cstack[m]
  BY <1>1, <1>2, <1>3, <1>5, <1>6, SubSeqProperties DEF Pop, Front
<1>7. PICK p \in 1 .. n + 1 : p = n + 1 OBVIOUS
<1>8. Visible(last_tag, p) BY <1>1, <1>7 DEF TagsInv
<1>9. CASE leave_block \/ end_unwind_protect
  <2>1. Pop /\ UNCHANGED last_tag /\ Top.kind \in {"block", "catch", "cleanup"}
    BY <1>9 DEF leave_block, end_unwind_protect
  <2>2. i = n - 1 /\ \A m \in 1 .. n - 1 : cstack'[m] = cstack[m] BY <1>6, <2>1
  <2>3. Linked' \subseteq 1 .. n BY <1>2, <2>2 DEF Linked
  <2>4. \A k \in Linked' : k < p BY <1>7, <2>3
  <2>5. ASSUME NEW m \in 1 .. p - 1, cstack[m].kind \in TagbodyKinds \cup {"unwind"}
        PROVE  m <= i /\ cstack'[m].kind = cstack[m].kind
    <3>1. m # n BY <1>5, <2>1, <2>5 DEF TagbodyKinds
    <3>2. m \in 1 .. n - 1 BY <1>7, <2>5, <3>1
    <3>3. QED BY <2>2, <3>2
  <2>6. VisibleTo(Bodies', Unwinds', cstack', last_tag, i + 1)
    BY <1>1, <1>2, <1>8, <2>4, <2>5, TagsCut
  <2>7. QED BY <1>1, <1>2, <2>1, <2>3, <2>6 DEF Visible
<1>10. CASE leave_unwind_protect
  <2>1. /\ UNCHANGED last_tag /\ Top.kind \in UwpKinds
        /\ cstack' = [cstack EXCEPT ![n].kind = "cleanup"]
    BY <1>1, <1>10 DEF leave_unwind_protect
  <2>2. i = n /\ \A m \in 1 .. n - 1 : cstack'[m] = cstack[m] BY <1>1, <1>2, <1>10, <2>1, Lengths
  <2>3. Linked' \subseteq 1 .. n BY <1>2, <2>2 DEF Linked
  <2>4. \A k \in Linked' : k < p BY <1>7, <2>3
  <2>5. ASSUME NEW m \in 1 .. p - 1, cstack[m].kind \in TagbodyKinds \cup {"unwind"}
        PROVE  m <= i /\ cstack'[m].kind = cstack[m].kind
    <3>1. m # n BY <1>5, <2>1, <2>5 DEF TagbodyKinds, UwpKinds
    <3>2. m \in 1 .. n - 1 BY <1>7, <2>5, <3>1
    <3>3. QED BY <2>2, <3>2
  <2>6. VisibleTo(Bodies', Unwinds', cstack', last_tag, i + 1)
    BY <1>1, <1>2, <1>8, <2>4, <2>5, TagsCut
  <2>7. QED BY <1>1, <1>2, <2>1, <2>3, <2>6 DEF Visible
<1>11. CASE leave_tagbody
  <2>1. Pop /\ Top.kind \in TagbodyKinds /\ last_tag' = frames[Top.frame].tags
    BY <1>11 DEF leave_tagbody
  <2>2. i = n - 1 /\ \A m \in 1 .. n - 1 : cstack'[m] = cstack[m] BY <1>6, <2>1
  <2>3. Linked' \subseteq 1 .. n - 1 BY <1>2, <2>2 DEF Linked
  <2>4. n \in Linked
    <3>1. Top.kind \in AllKinds BY <2>1 DEF TagbodyKinds, AllKinds
    <3>2. QED BY <1>1, <1>4, <3>1, TopLinked
  <2>5. PICK t : t = last_tag' OBVIOUS
  <2>6. PICK q \in 1 .. n + 1 : q = n BY <1>5
  <2>7. Visible(t, q) BY <1>5, <2>1, <2>4, <2>5, <2>6 DEF TagsInv
  <2>8. \A k \in Linked' : k < q BY <2>3, <2>6
  <2>9. \A m \in 1 .. q - 1 : m <= i /\ cstack'[m].kind = cstack[m].kind BY <2>2, <2>6
  <2>10. VisibleTo(Bodies', Unwinds', cstack', t, i + 1)
    BY <1>1, <1>2, <2>7, <2>8, <2>9, TagsCut
  <2>11. QED BY <1>1, <1>2, <2>3, <2>5, <2>10 DEF Visible
<1>12. QED BY <1>9, <1>10, <1>11

(* A block or catch form is left by a jump: the tags are those its frame has *)
(* saved.                                                                    *)
LEMMA JumpLeaveTags ==
  ASSUME ExitInv, ExitInv', TagsInv, Keeps, NEW p \in Linked, NEW n \in Nat, n = Len(cstack),
         p \in 1 .. n - 1, cstack' = SubSeq(cstack, 1, p - 1),
         last_tag' = frames[cstack[p].frame].tags
  PROVE  Visible(last_tag, Len(cstack) + 1)' /\ Linked' \subseteq DOMAIN cstack
<1>1. DOMAIN cstack = 1 .. n BY DEF ExitInv, StackTypes
<1>2. PICK i \in Nat : i = p - 1 OBVIOUS
<1>3. cstack \in Seq(FormRecord \cup UnwindRecord) BY DEF ExitInv, StackTypes
<1>4. /\ Len(cstack') = i /\ DOMAIN cstack' = 1 .. i
      /\ \A m \in 1 .. i : cstack'[m] = cstack[m]
  BY <1>2, <1>3, SubSeqProperties
<1>5. Linked' \subseteq 1 .. i BY <1>4 DEF Linked
<1>6. PICK t : t = last_tag' OBVIOUS
<1>7. PICK q \in 1 .. n + 1 : q = p OBVIOUS
<1>8. Visible(t, q) BY <1>6, <1>7 DEF TagsInv
<1>9. \A k \in Linked' : k < q BY <1>2, <1>5, <1>7
<1>10. \A m \in 1 .. q - 1 : m <= i /\ cstack'[m].kind = cstack[m].kind BY <1>2, <1>4, <1>7
<1>11. VisibleTo(Bodies', Unwinds', cstack', t, i + 1) BY <1>4, <1>8, <1>9, <1>10, TagsCut
<1>12. QED BY <1>1, <1>2, <1>4, <1>5, <1>6, <1>11 DEF Visible

(* The body of a tagbody goes on after a go: an interpreted one resets the   *)
(* tags, a compiled one has those of inner forms in front of its own.        *)
LEMMA JumpBodyTags ==
  ASSUME ExitInv, ExitInv', TagsInv, Keeps, NEW p \in Linked, NEW n \in Nat, n = Len(cstack),
         p \in 1 .. n - 1, cstack[p].kind \in TagbodyKinds, cstack' = SubSeq(cstack, 1, p),
         last_tag' = IF cstack[p].kind = "tagbody" THEN cstack[p].tags ELSE last_tag
  PROVE  Visible(last_tag, Len(cstack) + 1)' /\ Linked' \subseteq DOMAIN cstack
<1>1. DOMAIN cstack = 1 .. n /\ Linked \subseteq Nat BY DEF ExitInv, StackTypes, Linked
<1>2. cstack \in Seq(FormRecord \cup UnwindRecord) BY DEF ExitInv, StackTypes
<1>3. /\ Len(cstack') = p /\ DOMAIN cstack' = 1 .. p
      /\ \A m \in 1 .. p : cstack'[m] = cstack[m]
  BY <1>2, SubSeqProperties
<1>4. Linked' \subseteq 1 .. p /\ Linked' \subseteq 1 .. n BY <1>3 DEF Linked
<1>5. Bodies \subseteq Nat /\ Bodies' \subseteq Nat BY <1>1, <1>3 DEF Bodies, Linked
<1>6. ASSUME NEW b \in Bodies'
      PROVE  b \in Bodies /\ b \in 1 .. p /\ cstack'[b] = cstack[b]
  <2>1. b \in Linked' /\ b \in 1 .. p /\ b \in DOMAIN cstack BY <1>1, <1>4 DEF Bodies
  <2>2. KeepsForm(b) /\ b \in 1 .. b BY <2>1 DEF Keeps
  <2>3. QED BY <1>3, <1>6, <2>1, <2>2 DEF KeepsForm, Bodies
<1>7. PICK t : t = last_tag' OBVIOUS
<1>8. p \in Bodies'
  <2>1. \A r \in Unwinds' : ~ p < r BY <1>3 DEF Unwinds
  <2>2. cstack'[p].kind = cstack[p].kind /\ cstack[p].kind \in AllKinds BY <1>3 DEF Linked
  <2>3. p \in Linked' BY <1>3, <2>1, <2>2 DEF Linked
  <2>4. QED BY <2>2, <2>3 DEF Bodies
<1>9. CASE cstack[p].kind = "tagbody"
  <2>1. t = cstack[p].tags BY <1>7, <1>9
  <2>2. PICK name \in Names :
          cstack[p].tags = <<[name |-> name, tagbody |-> cstack[p].frame]>>
                             \o frames[cstack[p].frame].tags
    BY DEF TagsInv, BodyOK
  <2>3. PICK s : s = frames[cstack[p].frame].tags OBVIOUS
  <2>4. PICK x : x = [name |-> name, tagbody |-> cstack[p].frame] OBVIOUS
  <2>5. t = <<x>> \o s BY <2>1, <2>2, <2>3, <2>4
  <2>6. s \in Seq(Tag) /\ x \in Tag
    <3>1. frames[cstack[p].frame] \in FrameRecord BY DEF ExitInv, StackTypes, FrameInv, FrameOK
    <3>2. cstack[p] \in FormRecord BY Activations DEF ExitInv, Linked
    <3>3. QED BY <2>3, <2>4, <3>1, <3>2 DEF FrameRecord, FormRecord, Tag
  <2>7. VisibleTo(Bodies, Unwinds, cstack, s, p) BY <2>3 DEF TagsInv, Visible
  <2>8. \A b \in Bodies : cstack[b].tags \in Seq(Tag)
    <3>1. \A b \in Bodies : cstack[b] \in FormRecord BY Activations DEF ExitInv, Bodies, Linked
    <3>2. QED BY <3>1 DEF FormRecord
  <2>9. cstack'[p].tags = t /\ p \in Nat BY <1>3, <2>1
  <2>10. TagBefore(t, s) BY <2>5, <2>6 DEF TagBefore
  <2>11. BodiesKept(Bodies, cstack, Bodies', cstack', p, t)
    BY <1>6, <1>8, <2>8, <2>9 DEF BodiesKept
  <2>12. VisibleTo(Bodies', Unwinds', cstack', t, p + 1)
    BY <1>5, <2>6, <2>7, <2>9, <2>10, <2>11, VisibleInBody
  <2>13. QED BY <1>1, <1>3, <1>4, <1>7, <2>12 DEF Visible
<1>10. CASE cstack[p].kind = "tagbody_code"
  <2>1. t = last_tag BY <1>7, <1>10
  <2>2. VisibleTo(Bodies, Unwinds, cstack, t, n + 1) BY <2>1 DEF TagsInv, Visible
  <2>3. \A b \in Bodies' : b < p + 1 => EndOf(cstack'[b].tags, t) BY <1>6, <2>2 DEF VisibleTo
  <2>4. p < p + 1 /\ ~ \A b \in Bodies' : p + 1 <= b BY <1>8
  <2>5. ASSUME NEW b \in Bodies', \A j \in Bodies' : j < p + 1 => j <= b
        PROVE  cstack'[b].kind # "tagbody"
    <3>1. b \in 1 .. p /\ p <= b BY <1>6, <1>8, <2>4, <2>5
    <3>2. b = p BY <3>1
    <3>3. QED BY <1>3, <1>10, <3>1, <3>2
  <2>6. VisibleTo(Bodies', Unwinds', cstack', t, p + 1) BY <2>3, <2>4, <2>5 DEF VisibleTo
  <2>7. QED BY <1>1, <1>3, <1>4, <1>7, <2>6 DEF Visible
<1>11. QED BY <1>9, <1>10 DEF TagbodyKinds

(* A form is entered: its frame has the visible tags, and a tagbody adds its *)
(* own.                                                                      *)
LEMMA EnterTags ==
  ASSUME ExitInv, ExitInv', TagsInv, Keeps, NEW kind \in FormKinds, NEW name \in Names,
         enter(kind, name), NextFrame # last
  PROVE  TagsInv'
<1>1. PICK n \in Nat : n = Len(cstack) /\ DOMAIN cstack = 1 .. n BY DEF ExitInv, StackTypes
<1>2. PICK f : f = NextFrame OBVIOUS
<1>3. PICK x : x = NewFrame(kind, name) OBVIOUS
<1>4. /\ cstack \in Seq(FormRecord \cup UnwindRecord) /\ last \in Nat /\ last_tag \in Seq(Tag)
      /\ StackTypes
  BY DEF ExitInv, StackTypes
<1>5. kind \in AllKinds BY ControlAssumption
<1>6. x \in FrameRecord /\ x.tags = last_tag
  BY <1>1, <1>3, <1>4, <1>5, ControlAssumption DEF NewFrame, FrameRecord, NULL
<1>7. f \in Nat BY <1>2, NextFrameFree
<1>8. PICK tags :
        /\ pool' = IF pool = << >> THEN pool ELSE Front(pool)
        /\ frames' = IF pool = << >> THEN Append(frames, x) ELSE [frames EXCEPT ![f] = x]
        /\ last_tag' = tags
        /\ tags = IF kind \in TagbodyKinds
                    THEN <<[name |-> name, tagbody |-> f]>> \o last_tag ELSE last_tag
        /\ cstack' = Append(cstack, [kind |-> kind, frame |-> f, tags |-> tags, started |-> 0])
  BY <1>2, <1>3 DEF enter
<1>9. frames'[f] = x BY <1>2, <1>6, <1>8, TakesFrame
<1>10. tags \in Seq(Tag)
  <2>1. [name |-> name, tagbody |-> f] \in Tag BY <1>7 DEF Tag
  <2>2. <<[name |-> name, tagbody |-> f]>> \in Seq(Tag) BY <2>1
  <2>3. <<[name |-> name, tagbody |-> f]>> \o last_tag \in Seq(Tag) BY <1>4, <2>2, ConcatProperties
  <2>4. QED BY <1>4, <1>8, <2>3
<1>11. PICK e \in FormRecord : /\ cstack' = Append(cstack, e)
                               /\ e.kind = kind /\ e.frame = f /\ e.tags = tags
  <2> DEFINE d == [kind |-> kind, frame |-> f, tags |-> tags, started |-> 0]
  <2>1. d \in FormRecord BY <1>5, <1>7, <1>10 DEF FormRecord
  <2>2. QED BY <1>8, <2>1
<1>12. Linked' = Linked \cup {n + 1} /\ Unwinds' = Unwinds
  BY <1>1, <1>4, <1>5, <1>11, LinkedEnter
<1>13. /\ Len(cstack') = n + 1 /\ DOMAIN cstack' = 1 .. n + 1
       /\ \A m \in 1 .. n : cstack'[m] = cstack[m]
       /\ cstack'[n + 1] = e
  BY <1>1, <1>4, <1>11
<1>14. Linked \subseteq 1 .. n /\ Unwinds \subseteq 1 .. n BY <1>1 DEF Linked, Unwinds
<1>15. \A b \in 1 .. n : b \in Bodies' <=> b \in Bodies
  BY <1>12, <1>13, <1>14 DEF Bodies
<1>16. Bodies \subseteq 1 .. n /\ Bodies' \subseteq 1 .. n + 1
  BY <1>13, <1>14 DEF Bodies, Linked
<1>17. Bodies \subseteq Nat /\ Bodies' \subseteq Nat /\ n + 1 \in Nat /\ (n + 1) + 1 \in Nat BY <1>16
<1>18. VisibleTo(Bodies, Unwinds, cstack, last_tag, n + 1) BY <1>1 DEF TagsInv, Visible
<1>19. VisibleTo(Bodies', Unwinds', cstack', last_tag, n + 1)
  <2>1. \A b \in Bodies' : b < n + 1 => b \in 1 .. n BY <1>16
  <2>2. \A b \in Bodies' : b < n + 1 =>
          b \in Bodies /\ cstack'[b].tags = cstack[b].tags /\ cstack'[b].kind = cstack[b].kind
    BY <1>13, <1>15, <2>1
  <2>3. \A b \in Bodies : b \in Bodies' BY <1>15, <1>16
  <2>4. SameBodies(Bodies, Unwinds, cstack, n + 1, Bodies', Unwinds', cstack', n + 1)
    BY <1>12, <2>2, <2>3 DEF SameBodies
  <2>5. QED BY <1>17, <1>18, <2>4, VisibleKept
<1>20. ASSUME NEW k \in Linked' PROVE (Visible(frames[cstack[k].frame].tags, k) /\ BodyOK(k))'
  <2>1. CASE k \in 1 .. n BY <1>1, <2>1, FormTagsKept
  <2>2. CASE k = n + 1
    <3>1. cstack'[k].frame = f /\ frames'[f].tags = last_tag BY <1>6, <1>9, <1>11, <1>13, <2>2
    <3>2. BodyOK(k)' BY <1>8, <1>11, <1>13, <2>2, <3>1 DEF BodyOK
    <3>3. QED BY <1>19, <2>2, <3>1, <3>2 DEF Visible
  <2>3. QED BY <1>12, <1>14, <2>1, <2>2
<1>21. VisibleTo(Bodies', Unwinds', cstack', tags, (n + 1) + 1)
  <2>1. CASE kind \in TagbodyKinds
    <3>1. n + 1 \in Bodies' BY <1>11, <1>12, <1>13, <2>1 DEF Bodies
    <3>2. \A b \in Bodies' : cstack'[b].tags \in Seq(Tag)
      <4>1. \A b \in Bodies : cstack[b] \in FormRecord BY <1>4, Activations DEF Bodies, Linked
      <4>2. \A b \in Bodies' : cstack'[b] \in FormRecord BY <1>13, <1>15, <1>16, <4>1
      <4>3. QED BY <4>2 DEF FormRecord
    <3>3. BodiesKept(Bodies', cstack', Bodies', cstack', n + 1, tags)
      BY <1>11, <1>13, <3>1, <3>2 DEF BodiesKept
    <3>4. TagBefore(tags, last_tag)
      <4>1. [name |-> name, tagbody |-> f] \in Tag BY <1>7 DEF Tag
      <4>2. QED BY <1>8, <2>1, <4>1 DEF TagBefore
    <3>5. PICK C, V, d : C = Bodies' /\ V = Unwinds' /\ d = cstack' OBVIOUS
    <3>6. PICK q \in Nat, m \in Nat : q = n + 1 /\ m = q + 1 OBVIOUS
    <3>7. C \subseteq Nat /\ VisibleTo(C, V, d, last_tag, q) /\ BodiesKept(C, d, C, d, q, tags)
      BY <1>17, <1>19, <3>3, <3>5, <3>6
    <3>8. VisibleTo(C, V, d, tags, m) BY <1>4, <3>4, <3>6, <3>7, VisibleInBody
    <3>9. QED BY <3>5, <3>6, <3>8
  <2>2. CASE kind \notin TagbodyKinds
    <3>1. tags = last_tag BY <1>8, <2>2
    <3>2. n + 1 \notin Bodies' BY <1>11, <1>13, <2>2 DEF Bodies
    <3>3. \A b \in Bodies' : b < n + 1 /\ b < (n + 1) + 1 BY <1>16, <3>2
    <3>4. \A r \in Unwinds' : r < n + 1 /\ r < (n + 1) + 1 BY <1>12, <1>14
    <3>5. SameBodies(Bodies', Unwinds', cstack', n + 1, Bodies', Unwinds', cstack', (n + 1) + 1)
      <4>1. ASSUME \A r \in Unwinds' : (n + 1) + 1 <= r PROVE Unwinds' = {}
        BY <1>12, <1>14, <3>4, <4>1
      <4>2. QED BY <3>3, <4>1 DEF SameBodies
    <3>6. PICK C, V, d : C = Bodies' /\ V = Unwinds' /\ d = cstack' OBVIOUS
    <3>7. PICK q \in Nat, m \in Nat : q = n + 1 /\ m = q + 1 OBVIOUS
    <3>8. /\ C \subseteq Nat /\ VisibleTo(C, V, d, last_tag, q)
          /\ SameBodies(C, V, d, q, C, V, d, m)
      BY <1>17, <1>19, <3>5, <3>6, <3>7
    <3>9. VisibleTo(C, V, d, last_tag, m) BY <3>8, VisibleKept
    <3>10. QED BY <3>1, <3>6, <3>7, <3>9
  <2>3. QED BY <2>1, <2>2
<1>22. QED BY <1>8, <1>13, <1>20, <1>21 DEF TagsInv, Visible

(* Every step keeps the invariant of the tags.                               *)
LEMMA TagsStep ==
  ASSUME ExitInv, TagsInv, CarefulExits, Next
  PROVE  TagsInv'
<1>1. ExitInv' /\ Keeps BY ExitStepKeeps
<1>2. PICK n \in Nat : n = Len(cstack) /\ DOMAIN cstack = 1 .. n BY DEF ExitInv, StackTypes
<1>3. ASSUME Visible(last_tag, Len(cstack) + 1)', Linked' \subseteq DOMAIN cstack PROVE TagsInv'
  <2>1. \A k \in Linked' : (Visible(frames[cstack[k].frame].tags, k) /\ BodyOK(k))'
    BY <1>1, <1>3, FormTagsKept
  <2>2. QED BY <1>3, <2>1 DEF TagsInv
<1>4. CASE \E kind \in FormKinds, name \in Names : enter(kind, name)
  BY <1>1, <1>4, EnterStep, EnterTags
<1>5. CASE leave_block \/ leave_tagbody \/ leave_unwind_protect \/ end_unwind_protect
  BY <1>1, <1>3, <1>5, LeaveTags
<1>6. CASE \/ \E k \in DOMAIN cstack : return_from(k) \/ go(k)
           \/ \E name \in Names : throw(name)
           \/ reset
  <2>1. PICK t : Unwind(t) BY <1>6 DEF return_from, go, throw, reset
  <2>2. PICK i \in Nat : i = n + 1 /\ i = Len(cstack') /\ cstack'[i].kind = "unwind"
    BY <1>1, <1>2, <2>1, Lengths
  <2>3. Linked' \subseteq DOMAIN cstack BY <1>1, <1>2, <2>2, NoneEntered
  <2>4. DOMAIN cstack' = 1 .. i /\ i \in 1 .. i BY <1>1, <2>2 DEF ExitInv, StackTypes
  <2>5. Unwinds' # {} BY <2>2, <2>4 DEF Unwinds
  <2>6. UNCHANGED last_tag BY <2>1 DEF Unwind
  <2>7. QED BY <1>1, <1>3, <2>3, <2>5, <2>6, TagsWhileUnwinding
<1>7. CASE \/ unwind_release \/ unwind_cleanup_done \/ cleanup_returns
           \/ unwind_cleanup_code \/ unwind_cleanup_form
  <2>1. Unwinds' # {} /\ Linked' \subseteq DOMAIN cstack /\ UNCHANGED last_tag
    BY <1>1, <1>7, StillUnwinding
  <2>2. QED BY <1>1, <1>3, <2>1, TagsWhileUnwinding
<1>8. CASE jump
  <2>1. PICK g : g = Top.target OBVIOUS
  <2>2. Unwinding /\ AtEnd /\ Top.target # PRIMORDIAL BY <1>8 DEF jump
  <2>3. PICK p \in Linked : p \in 1 .. n - 1 /\ g = cstack[p].frame BY <1>2, <2>1, <2>2, TargetAt
  <2>4. frames[g].jmp = p /\ frames[g].type = cstack[p].kind
    BY <2>3 DEF ExitInv, FrameInv, FrameOK
  <2>5. jump_leave \/ jump_tagbody BY <1>8, JumpStep DEF jump
  <2>6. CASE jump_leave
    <3>1. cstack' = SubSeq(cstack, 1, p - 1) /\ last_tag' = frames[cstack[p].frame].tags
      BY <2>1, <2>3, <2>4, <2>6 DEF jump_leave
    <3>2. QED BY <1>1, <1>2, <1>3, <2>3, <3>1, JumpLeaveTags
  <2>7. CASE jump_tagbody
    <3>1. /\ cstack' = SubSeq(cstack, 1, p) /\ cstack[p].kind \in TagbodyKinds
          /\ last_tag' = IF cstack[p].kind = "tagbody" THEN cstack[p].tags ELSE last_tag
      BY <2>1, <2>3, <2>4, <2>7 DEF jump_tagbody
    <3>2. QED BY <1>1, <1>2, <1>3, <2>3, <3>1, JumpBodyTags
  <2>8. QED BY <2>5, <2>6, <2>7
<1>9. CASE jump_reset
  <2>1. cstack' = << >> /\ last_tag' = << >> BY <1>9 DEF jump_reset
  <2>2. Linked' = {} /\ Bodies' = {} BY <2>1 DEF Linked, Bodies
  <2>3. QED BY <2>1, <2>2 DEF TagsInv, Visible, VisibleTo
<1>10. QED BY <1>4, <1>5, <1>6, <1>7, <1>8, <1>9 DEF Next, UnwindStep

(* A set of activations has an innermost one.                                *)
LEMMA LargestExists ==
  ASSUME NEW n \in Nat, NEW T, T \subseteq 1 .. n, T # {}
  PROVE  \E x \in T : \A y \in T : y <= x
<1> DEFINE D == {j \in Nat : \E x \in T : j = n - x}
<1>1. D \subseteq Nat /\ D # {}
  <2>1. PICK x \in T : TRUE OBVIOUS
  <2>2. n - x \in D OBVIOUS
  <2>3. QED BY <2>2
<1>2. PICK j \in D : \A i \in D : j <= i
  <2> HIDE DEF D
  <2>1. QED BY <1>1, SmallestExists
<1>3. PICK x \in T : j = n - x BY <1>2
<1>4. ASSUME NEW y \in T PROVE y <= x
  <2>1. n - y \in D OBVIOUS
  <2>2. n - x <= n - y BY <1>2, <1>3, <2>1
  <2>3. QED BY <2>2
<1>5. QED BY <1>4

(* What ends t is a suffix of it.                                            *)
LEMMA EndIsSuffix ==
  ASSUME NEW s \in Seq(Tag), NEW t \in Seq(Tag), EndOf(s, t)
  PROVE  IsSuffix(s, t)
<1>1. PICK l \in Nat : l = Len(s) OBVIOUS
<1>2. PICK m \in Nat : m = Len(t) OBVIOUS
<1>3. l <= m /\ \A i \in 1 .. l : s[i] = t[m - l + i] BY <1>1, <1>2 DEF EndOf
<1>4. PICK a : a = Reverse(s) OBVIOUS
<1>5. PICK b : b = Reverse(t) OBVIOUS
<1>6. a = [i \in 1 .. l |-> s[(l - i) + 1]] BY <1>1, <1>4 DEF Reverse
<1>7. b = [i \in 1 .. m |-> t[(m - i) + 1]] BY <1>2, <1>5 DEF Reverse
<1>8. a \in Seq(Tag) /\ Len(a) = l
  <2>1. \A i \in 1 .. l : s[(l - i) + 1] \in Tag
    <3>1. \A j \in 1 .. l : s[j] \in Tag BY <1>1
    <3>2. \A i \in 1 .. l : (l - i) + 1 \in 1 .. l OBVIOUS
    <3>3. QED BY <3>1, <3>2
  <2>2. QED BY <1>6, <2>1
<1>9. b \in Seq(Tag) /\ Len(b) = m
  <2>1. \A i \in 1 .. m : t[(m - i) + 1] \in Tag
    <3>1. \A j \in 1 .. m : t[j] \in Tag BY <1>2
    <3>2. \A i \in 1 .. m : (m - i) + 1 \in 1 .. m OBVIOUS
    <3>3. QED BY <3>1, <3>2
  <2>2. QED BY <1>7, <2>1
<1>10. ASSUME NEW i \in 1 .. l PROVE a[i] = b[i]
  <2>1. PICK j \in 1 .. l : j = (l - i) + 1 OBVIOUS
  <2>2. a[i] = s[j] BY <1>6, <2>1
  <2>3. s[j] = t[m - l + j] BY <1>3
  <2>4. m - l + j = (m - i) + 1 /\ i \in 1 .. m
    <3>1. l <= m BY <1>3
    <3>2. j = (l - i) + 1 BY <2>1
    <3>3. m - l + j = (m - i) + 1 BY <3>2
    <3>4. i \in 1 .. m BY <3>1
    <3>5. QED BY <3>3, <3>4
  <2>5. b[i] = t[(m - i) + 1] BY <1>7, <2>4
  <2>6. QED BY <2>2, <2>3, <2>4, <2>5
<1>11. SubSeq(a, 1, l) = SubSeq(b, 1, l)
  <2>1. SubSeq(a, 1, l) = [i \in 1 .. l |-> a[i]] BY <1>8
  <2>2. SubSeq(b, 1, l) = [i \in 1 .. l |-> b[i]] BY <1>3, <1>9
  <2>3. QED BY <1>10, <2>1, <2>2
<1>12. IsPrefix(a, b) BY <1>3, <1>8, <1>9, <1>11 DEF IsPrefix
<1>13. QED BY <1>4, <1>5, <1>12 DEF IsSuffix

(* The invariant gives the property.                                         *)
LEMMA TagsImply ==
  ASSUME ExitInv, TagsInv
  PROVE  TagsAreEstablished
<1> DEFINE bodies == {k \in EstablishedForms : cstack[k].kind \in TagbodyKinds}
           inner == CHOOSE k \in bodies : \A j \in bodies : j <= k
<1>1. PICK n \in Nat : n = Len(cstack) /\ DOMAIN cstack = 1 .. n BY DEF ExitInv, StackTypes
<1>2. SUFFICES ASSUME Unwinds = {}
               PROVE  IF bodies = {} THEN last_tag = << >>
                      ELSE IF cstack[inner].kind = "tagbody" THEN last_tag = cstack[inner].tags
                      ELSE IsSuffix(cstack[inner].tags, last_tag)
  BY DEF TagsAreEstablished
<1>3. bodies = Bodies
  <2>1. EstablishedForms = Linked BY <1>2 DEF EstablishedForms, Established, Linked
  <2>2. QED BY <2>1 DEF Bodies
<1>4. VisibleTo(Bodies, Unwinds, cstack, last_tag, n + 1) BY <1>1 DEF TagsInv, Visible
<1>5. Bodies \subseteq 1 .. n BY <1>1 DEF Bodies, Linked
<1>6. \A b \in Bodies : b < n + 1 BY <1>5
<1> HIDE DEF bodies
<1>7. CASE bodies = {} BY <1>2, <1>3, <1>4, <1>7 DEF VisibleTo
<1>8. CASE bodies # {}
  <2>1. \E k \in bodies : \A j \in bodies : j <= k BY <1>3, <1>5, <1>8, LargestExists
  <2>2. inner \in bodies /\ \A j \in bodies : j <= inner BY <2>1
  <2> HIDE DEF inner
  <2>3. EndOf(cstack[inner].tags, last_tag) BY <1>3, <1>4, <1>6, <2>2 DEF VisibleTo
  <2>4. cstack[inner].tags \in Seq(Tag) /\ last_tag \in Seq(Tag)
    <3>1. cstack[inner] \in FormRecord BY <1>3, <2>2, Activations DEF ExitInv, Bodies, Linked
    <3>2. QED BY <3>1 DEF FormRecord, ExitInv, StackTypes
  <2>5. IsSuffix(cstack[inner].tags, last_tag) BY <2>3, <2>4, EndIsSuffix
  <2>6. cstack[inner].kind = "tagbody" => last_tag = cstack[inner].tags
    BY <1>2, <1>3, <1>4, <1>6, <2>2 DEF VisibleTo
  <2>7. QED BY <1>8, <2>5, <2>6
<1>9. QED BY <1>7, <1>8

(* restore_frame_context() and CL_tagbody() leave the tags of the innermost  *)
(* tagbody visible after whatever exits and normal ends; in the interpreter  *)
(* go never finds a tag of a tagbody that has been left.                     *)
THEOREM TagsOfForms ==
  ASSUME CarefulExits
  PROVE  UnwSpec => []TagsAreEstablished
<1>1. Init => TagsInv
  <2> SUFFICES ASSUME Init PROVE TagsInv OBVIOUS
  <2>1. cstack = << >> /\ last_tag = << >> BY DEF Init
  <2>2. Linked = {} /\ Bodies = {} BY <2>1 DEF Linked, Bodies
  <2>3. QED BY <2>1, <2>2 DEF TagsInv, Visible, VisibleTo
<1>2. ExitInv /\ TagsInv /\ [Next]_vars => TagsInv'
  <2> SUFFICES ASSUME ExitInv, TagsInv, [Next]_vars PROVE TagsInv' OBVIOUS
  <2>1. CASE Next BY <2>1, TagsStep
  <2>2. CASE UNCHANGED vars
    <3>1. UNCHANGED <<frames, last_tag, cstack>> BY <2>2 DEF vars
    <3>2. Linked' = Linked /\ Unwinds' = Unwinds BY <3>1 DEF Linked, Unwinds, Ahead
    <3>3. Bodies' = Bodies BY <3>1, <3>2 DEF Bodies
    <3>4. QED BY <3>1, <3>2, <3>3 DEF TagsInv, Visible, BodyOK
  <2>3. QED BY <2>1, <2>2
<1>3. ExitInv /\ TagsInv => TagsAreEstablished BY TagsImply
<1>4. QED BY <1>1, <1>2, <1>3, ExitInvariant, UnwindingRefines, PTL DEF Spec

------------------------------------------------------------------------------
(* The chain is the established forms.                                       *)

(* How many forms are inside of form k.                                      *)
Rank(L, k) == Cardinality({m \in L : m > k})

(* How the forms are counted, from the innermost one.                        *)
LEMMA Ranks ==
  ASSUME NEW n \in Nat, NEW L, L \subseteq 1 .. n
  PROVE  /\ IsFiniteSet(L) /\ Cardinality(L) \in Nat
         /\ \A k \in L : Rank(L, k) \in Nat /\ Rank(L, k) < Cardinality(L)
         /\ \A k \in L : (\A m \in L : m <= k) => Rank(L, k) = 0
         /\ \A k \in L : (\A m \in L : k <= m) => Cardinality(L) = Rank(L, k) + 1
         /\ \A j, k \in L : j < k /\ (\A m \in L : m < k => m <= j) => Rank(L, j) = Rank(L, k) + 1
         /\ \A j, k \in L : j < k => Rank(L, k) < Rank(L, j)
<1> DEFINE A(k) == {m \in L : m > k}
<1>1. IsFiniteSet(L) /\ Cardinality(L) \in Nat
  <2>1. IsFiniteSet(1 .. n) BY FS_Interval
  <2>2. IsFiniteSet(L) BY <2>1, FS_Subset
  <2>3. QED BY <2>2, FS_CardinalityType
<1>2. \A T : T \subseteq L => IsFiniteSet(T) /\ Cardinality(T) \in Nat /\ Cardinality(T) <= Cardinality(L)
  BY <1>1, FS_Subset, FS_CardinalityType
<1>3. \A k : A(k) \subseteq L OBVIOUS
<1>4. (\A k \in L : k \notin A(k)) /\ \A m \in L : m \in Nat OBVIOUS
<1>5. ASSUME NEW k \in L
      PROVE  /\ IsFiniteSet(A(k) \cup {k}) /\ A(k) \cup {k} \subseteq L
             /\ Cardinality(A(k) \cup {k}) = Cardinality(A(k)) + 1
             /\ Cardinality(A(k)) \in Nat
  <2>1. IsFiniteSet(A(k)) /\ Cardinality(A(k)) \in Nat BY <1>2, <1>3
  <2>2. A(k) \cup {k} \subseteq L BY <1>3
  <2>3. PICK S : S = A(k) OBVIOUS
  <2>4. k \notin S /\ IsFiniteSet(S) BY <1>4, <2>1, <2>3
  <2>5. IsFiniteSet(S \cup {k}) /\ Cardinality(S \cup {k}) = Cardinality(S) + 1
    BY <2>4, FS_AddElement
  <2>6. QED BY <2>1, <2>2, <2>3, <2>5
<1>6. \A k \in L : Rank(L, k) = Cardinality(A(k)) BY DEF Rank
<1>7. ASSUME NEW k \in L PROVE Rank(L, k) \in Nat /\ Rank(L, k) < Cardinality(L)
  <2>1. Cardinality(A(k) \cup {k}) <= Cardinality(L) BY <1>2, <1>5
  <2>2. PICK a, b : a = Cardinality(A(k)) /\ b = Cardinality(A(k) \cup {k}) OBVIOUS
  <2>3. Rank(L, k) = a /\ a \in Nat /\ b = a + 1 /\ b <= Cardinality(L) BY <1>5, <1>6, <2>1, <2>2
  <2>4. QED BY <1>1, <2>3
<1>8. ASSUME NEW k \in L, \A m \in L : m <= k PROVE Rank(L, k) = 0
  <2>1. A(k) = {}
    <3>1. \A m \in L : ~(m > k) BY <1>4, <1>8
    <3>2. QED BY <3>1, Zenon
  <2>2. QED BY <1>6, <2>1, FS_EmptySet
<1>9. ASSUME NEW k \in L, \A m \in L : k <= m PROVE Cardinality(L) = Rank(L, k) + 1
  <2>1. L = A(k) \cup {k}
    <3>1. \A m \in L : m > k \/ m = k BY <1>4, <1>9
    <3>2. QED BY <1>9, <3>1, Zenon
  <2>2. QED BY <1>5, <1>6, <2>1
<1>10. ASSUME NEW j \in L, NEW k \in L, j < k, \A m \in L : m < k => m <= j
       PROVE  Rank(L, j) = Rank(L, k) + 1
  <2>1. A(j) = A(k) \cup {k}
    <3>1. \A m \in L : m > j <=> m > k \/ m = k BY <1>4, <1>10
    <3>2. QED BY <1>10, <3>1, Zenon
  <2>2. QED BY <1>5, <1>6, <2>1
<1>11. ASSUME NEW j \in L, NEW k \in L, j < k PROVE Rank(L, k) < Rank(L, j)
  <2>1. A(k) \cup {k} \subseteq A(j)
    <3>1. k > j /\ \A m \in L : m > k => m > j BY <1>4, <1>11
    <3>2. QED BY <1>11, <3>1, Zenon
  <2>2. PICK S, T : S = A(j) /\ T = A(k) \cup {k} OBVIOUS
  <2>3. IsFiniteSet(S) /\ Cardinality(S) \in Nat BY <1>2, <1>3, <2>2
  <2>4. T \subseteq S BY <2>1, <2>2
  <2>5. Cardinality(T) <= Cardinality(S) BY <2>3, <2>4, FS_Subset
  <2>6. Rank(L, j) = Cardinality(S) /\ Cardinality(T) = Rank(L, k) + 1 BY <1>5, <1>6, <2>2
  <2>7. QED BY <1>7, <2>3, <2>5, <2>6
<1>12. QED BY <1>1, <1>7, <1>8, <1>9, <1>10, <1>11

(* Link i of the chain is the frame of the form that has i forms inside.     *)
Placed(at, i) ==
  \/ Cardinality(Linked) <= i /\ at[i] = NULL
  \/ \E k \in Linked : at[i] = cstack[k].frame /\ Rank(Linked, k) = i

(* That is so for every link.                                                *)
LEMMA ChainPlaced ==
  ASSUME ExitInv, NEW n \in Nat, n = Len(cstack), Innermost(last, n + 1), NEW i \in 0 .. MaxFrames
  PROVE  Placed(ChainAt(last), i)
<1>1. PICK at : at = ChainAt(last) OBVIOUS
<1> DEFINE T == {j \in 0 .. MaxFrames : ~Placed(at, j)}
<1>2. /\ at[0] = last
      /\ \A j \in 1 .. MaxFrames :
           at[j] = IF at[j - 1] = NULL THEN NULL ELSE frames[at[j - 1]].next
  BY <1>1, ChainFollows
<1>3. MaxFrames \in Nat BY ControlAssumption
<1>4. StackTypes /\ FrameInv BY DEF ExitInv
<1>5. Linked \subseteq 1 .. n BY <1>4, Activations
<1>6. PICK L : L = Linked OBVIOUS
<1>7. L \subseteq 1 .. n BY <1>5, <1>6
<1>8. /\ IsFiniteSet(L) /\ Cardinality(L) \in Nat
      /\ \A k \in L : Rank(L, k) \in Nat /\ Rank(L, k) < Cardinality(L)
      /\ \A k \in L : (\A m \in L : m <= k) => Rank(L, k) = 0
      /\ \A k \in L : (\A m \in L : k <= m) => Cardinality(L) = Rank(L, k) + 1
      /\ \A j, k \in L : j < k /\ (\A m \in L : m < k => m <= j) => Rank(L, j) = Rank(L, k) + 1
  BY <1>7, Ranks
<1>9. Placed(at, 0)
  <2>1. InnermostOf(L, cstack, last, n + 1) BY <1>6 DEF Innermost
  <2>2. CASE last = NULL /\ \A m \in L : n + 1 <= m
    <3>1. L = {} BY <1>7, <2>2
    <3>2. Cardinality(L) = 0 BY <3>1, FS_EmptySet
    <3>3. QED BY <1>2, <1>6, <2>2, <3>2 DEF Placed
  <2>3. ASSUME NEW k \in L, last = cstack[k].frame, \A m \in L : m < n + 1 => m <= k
        PROVE  Placed(at, 0)
    <3>1. \A m \in L : m <= k BY <1>7, <2>3
    <3>2. Rank(L, k) = 0 BY <1>8, <3>1
    <3>3. QED BY <1>2, <1>6, <2>3, <3>2 DEF Placed
  <2>4. QED BY <2>1, <2>2, <2>3 DEF InnermostOf
<1>10. ASSUME NEW j \in 1 .. MaxFrames, Placed(at, j - 1) PROVE Placed(at, j)
  <2>1. at[j] = IF at[j - 1] = NULL THEN NULL ELSE frames[at[j - 1]].next BY <1>2
  <2>2. CASE Cardinality(L) <= j - 1 /\ at[j - 1] = NULL
    <3>1. Cardinality(L) <= j /\ at[j] = NULL BY <1>3, <1>8, <2>1, <2>2
    <3>2. QED BY <1>6, <3>1 DEF Placed
  <2>3. ASSUME NEW k \in L, at[j - 1] = cstack[k].frame, Rank(L, k) = j - 1 PROVE Placed(at, j)
    <3>1. PICK g : g = cstack[k].frame OBVIOUS
    <3>2. g \in Nat \ {0} BY <1>4, <1>6, <3>1, FramesDiffer
    <3>3. /\ frames[g].next = frames[g].last
          /\ InnermostOf(L, cstack, frames[g].last, k)
      BY <1>4, <1>6, <3>1 DEF FrameInv, FrameOK, Innermost
    <3>4. at[j] = frames[g].last BY <2>1, <2>3, <3>1, <3>2, <3>3 DEF NULL
    <3>5. CASE frames[g].last = NULL /\ \A m \in L : k <= m
      <4>1. Cardinality(L) = (j - 1) + 1 BY <1>8, <2>3, <3>5
      <4>2. Cardinality(L) <= j BY <1>3, <4>1
      <4>3. QED BY <1>6, <3>4, <3>5, <4>2 DEF Placed
    <3>6. ASSUME NEW q \in L, q < k, frames[g].last = cstack[q].frame,
                 \A m \in L : m < k => m <= q
          PROVE  Placed(at, j)
      <4>1. Rank(L, q) = (j - 1) + 1 BY <1>8, <2>3, <3>6
      <4>2. Rank(L, q) = j BY <1>3, <4>1
      <4>3. QED BY <1>6, <3>4, <3>6, <4>2 DEF Placed
    <3>7. QED BY <3>3, <3>5, <3>6 DEF InnermostOf
  <2>4. QED BY <1>6, <1>10, <2>2, <2>3 DEF Placed
<1>11. SUFFICES ASSUME T # {} PROVE FALSE BY <1>1
<1>12. T \subseteq Nat BY <1>3
<1>13. PICK j \in T : \A k \in T : j <= k
  <2> HIDE DEF T
  <2>1. QED BY <1>11, <1>12, SmallestExists
<1>14. j \in 0 .. MaxFrames /\ ~Placed(at, j) OBVIOUS
<1>15. j # 0 BY <1>9, <1>14
<1>16. j \in 1 .. MaxFrames /\ j - 1 \in 0 .. MaxFrames /\ j - 1 < j BY <1>3, <1>14, <1>15
<1>17. Placed(at, j - 1) BY <1>3, <1>13, <1>16
<1>18. QED BY <1>10, <1>14, <1>16, <1>17

(* No step makes a frame beyond the bound of the model.                      *)
LEMMA FramesBounded ==
  ASSUME ExitInv, ExitInv', Len(frames) <= MaxFrames, [Next]_vars
  PROVE  Len(frames') <= MaxFrames
<1>1. frames \in Seq(FrameRecord) /\ frames' \in Seq(FrameRecord) BY DEF ExitInv, StackTypes
<1>2. ASSUME DOMAIN frames' = DOMAIN frames PROVE Len(frames') <= MaxFrames BY <1>1, <1>2
<1>3. \A f : release_frame(f) => DOMAIN frames' = DOMAIN frames BY DEF release_frame
<1>4. CASE \E kind \in FormKinds, n \in Names : enter(kind, n)
  <2>1. PICK kind \in FormKinds, n \in Names : enter(kind, n) BY <1>4
  <2>2. PICK x : x = NewFrame(kind, n) OBVIOUS
  <2>3. PICK f : f = NextFrame OBVIOUS
  <2>4. /\ f <= MaxFrames
        /\ \/ frames' = frames
           \/ pool = << >> /\ frames' = Append(frames, x)
           \/ frames' = [frames EXCEPT ![f] = x]
    BY <2>1, <2>2, <2>3 DEF enter
  <2>5. CASE frames' = frames BY <2>5
  <2>6. CASE pool = << >> /\ frames' = Append(frames, x)
    <3>1. f = Len(frames) + 1 BY <2>3, <2>6 DEF NextFrame
    <3>2. Len(frames') = Len(frames) + 1 BY <1>1, <2>6
    <3>3. QED BY <2>4, <3>1, <3>2
  <2>7. CASE frames' = [frames EXCEPT ![f] = x] BY <1>2, <2>7
  <2>8. QED BY <2>4, <2>5, <2>6, <2>7
<1>5. CASE \/ leave_block \/ leave_tagbody \/ leave_unwind_protect
           \/ unwind_release \/ unwind_cleanup_code
  <2>1. \E f : release_frame(f)
    BY <1>5 DEF leave_block, leave_tagbody, leave_unwind_protect, unwind_release,
                unwind_cleanup_code
  <2>2. QED BY <1>2, <1>3, <2>1
<1>6. CASE \/ \E k \in DOMAIN cstack : return_from(k) \/ go(k)
           \/ \E n \in Names : throw(n)
           \/ reset
  <2>1. PICK t : Unwind(t) BY <1>6 DEF return_from, go, throw, reset
  <2>2. QED BY <2>1 DEF Unwind
<1>7. CASE unwind_cleanup_form BY <1>2, <1>7 DEF unwind_cleanup_form
<1>8. CASE jump
  <2>1. \/ frames' = frames
        \/ \E f : release_frame(f)
    BY <1>8 DEF jump, jump_leave, jump_tagbody
  <2>2. QED BY <1>2, <1>3, <2>1
<1>9. CASE end_unwind_protect \/ cleanup_returns \/ unwind_cleanup_done \/ jump_reset
  BY <1>9 DEF end_unwind_protect, cleanup_returns, unwind_cleanup_done, jump_reset
<1>10. CASE UNCHANGED vars BY <1>10 DEF vars
<1>11. QED BY <1>4, <1>5, <1>6, <1>7, <1>8, <1>9, <1>10 DEF Next, UnwindStep

(* There are at least as many frames as linked forms.                        *)
LEMMA LinkedBounded ==
  ASSUME ExitInv, Len(frames) <= MaxFrames
  PROVE  Cardinality(Linked) <= MaxFrames
<1>1. PICK n \in Nat : n = Len(cstack) BY Activations DEF ExitInv
<1>2. Linked \subseteq 1 .. n BY <1>1, Activations DEF ExitInv
<1>3. IsFiniteSet(Linked) /\ Cardinality(Linked) \in Nat
  <2>1. PICK L : L = Linked OBVIOUS
  <2>2. IsFiniteSet(L) /\ Cardinality(L) \in Nat BY <1>2, <2>1, Ranks
  <2>3. QED BY <2>1, <2>2
<1>4. PICK l \in Nat : l = Len(frames) /\ DOMAIN frames = 1 .. l BY DEF ExitInv, StackTypes
<1>5. IsFiniteSet(1 .. l) /\ Cardinality(1 .. l) = l BY FS_Interval
<1>6. \A k \in Linked : cstack[k].frame \in 1 .. l BY <1>4 DEF ExitInv, FrameInv, FrameOK
<1>7. \A j, k \in Linked : cstack[j].frame = cstack[k].frame => j = k
  <2>1. \A k \in Linked : frames[cstack[k].frame].jmp = k BY DEF ExitInv, FrameInv, FrameOK
  <2>2. QED BY <2>1
<1> DEFINE f == [k \in Linked |-> cstack[k].frame]
<1>8. f \in [Linked -> 1 .. l] BY <1>6
<1>9. \A j, k \in Linked : f[j] = f[k] => j = k BY <1>7
<1> HIDE DEF f
<1>10. Cardinality(Linked) <= l
  <2>1. CASE l < Cardinality(Linked)
    <3>1. \E x, y \in Linked : x # y /\ f[x] = f[y] BY <1>3, <1>5, <1>8, <2>1, FS_PigeonHole
    <3>2. QED BY <1>9, <3>1
  <2>2. QED BY <1>3, <2>1
<1>11. QED BY <1>3, <1>4, <1>10, ControlAssumption

(* When no interpreted cleanup form runs, the linked forms are the           *)
(* established ones and the last frame is the innermost one.                 *)
LEMMA LinkedEstablished ==
  ASSUME ExitInv, Running, \A r \in Unwinds : cstack[r].cleaning = "code", NEW n \in Nat,
         n = Len(cstack)
  PROVE  EstablishedForms = Linked /\ Innermost(last, n + 1)
<1>1. EstablishedForms = Linked BY DEF EstablishedForms, Established, Linked, Ahead
<1>2. LastKnown
  <2>1. CASE cstack # << >> /\ Top.kind = "unwind"
    <3>1. cstack \in Seq(FormRecord \cup UnwindRecord) BY DEF ExitInv, StackTypes
    <3>2. n \in DOMAIN cstack BY <2>1, <3>1, EmptySeq
    <3>3. n \in Unwinds BY <2>1, <3>2 DEF Unwinds, Top
    <3>4. QED BY <3>3 DEF LastKnown, Top
  <2>2. QED BY <2>1 DEF LastKnown
<1>3. QED BY <1>1, <1>2 DEF ExitInv, LastInv

(* The invariant gives the property.                                         *)
LEMMA ChainImplies ==
  ASSUME ExitInv, Len(frames) <= MaxFrames
  PROVE  ChainMatchesForms
<1> DEFINE at == ChainAt(last)
           chain == {i \in DOMAIN at : at[i] # NULL}
<1>1. PICK n \in Nat : n = Len(cstack) BY Activations DEF ExitInv
<1>2. SUFFICES ASSUME Running, \A r \in Unwinds : cstack[r].cleaning = "code"
               PROVE  /\ Cardinality(chain) = Cardinality(EstablishedForms)
                      /\ \A i \in chain, k \in EstablishedForms :
                           (at[i] = cstack[k].frame) <=>
                             i = Cardinality({m \in EstablishedForms : m > k})
  BY DEF ChainMatchesForms
<1>3. EstablishedForms = Linked /\ Innermost(last, n + 1) BY <1>1, <1>2, LinkedEstablished
<1>4. PICK L : L = Linked OBVIOUS
<1>5. PICK N : N = Cardinality(L) OBVIOUS
<1>6. L \subseteq 1 .. n BY <1>1, <1>4, Activations DEF ExitInv
<1>7. /\ N \in Nat
      /\ \A k \in L : Rank(L, k) \in Nat /\ Rank(L, k) < N
      /\ \A j, k \in L : j < k => Rank(L, k) < Rank(L, j)
  BY <1>5, <1>6, Ranks
<1>8. MaxFrames \in Nat /\ N <= MaxFrames BY <1>4, <1>5, LinkedBounded, ControlAssumption
<1>9. DOMAIN at = 0 .. MaxFrames BY ChainFollows
<1> HIDE DEF at
<1>10. ASSUME NEW i \in 0 .. MaxFrames
       PROVE  \/ N <= i /\ at[i] = NULL
              \/ \E k \in L : at[i] = cstack[k].frame /\ Rank(L, k) = i
  <2>1. Placed(at, i) BY <1>1, <1>3, ChainPlaced DEF at
  <2>2. QED BY <1>4, <1>5, <2>1 DEF Placed
<1>11. \A j, k \in L : cstack[j].frame = cstack[k].frame => j = k
  <2>1. \A k \in Linked : frames[cstack[k].frame].jmp = k BY DEF ExitInv, FrameInv, FrameOK
  <2>2. QED BY <1>4, <2>1
<1>12. \A k \in L : cstack[k].frame # NULL
  <2>1. StackTypes /\ FrameInv BY DEF ExitInv
  <2>2. \A k \in Linked : cstack[k].frame \in Nat \ {0} BY <2>1, FramesDiffer
  <2>3. QED BY <1>4, <2>2 DEF NULL
<1>13. \A i \in 0 .. MaxFrames : at[i] # NULL <=> i < N
  <2>1. ASSUME NEW i \in 0 .. MaxFrames PROVE at[i] # NULL <=> i < N
    <3>1. CASE N <= i /\ at[i] = NULL BY <1>7, <1>8, <3>1
    <3>2. ASSUME NEW k \in L, at[i] = cstack[k].frame, Rank(L, k) = i PROVE at[i] # NULL /\ i < N
      BY <1>7, <1>12, <3>2
    <3>3. QED BY <1>10, <3>1, <3>2
  <2>2. QED BY <2>1
<1>14. chain = 0 .. (N - 1)
  <2>1. \A i : i \in 0 .. (N - 1) <=> i \in 0 .. MaxFrames /\ i < N BY <1>7, <1>8
  <2>2. \A i : i \in chain <=> i \in 0 .. (N - 1) BY <1>9, <1>13, <2>1
  <2>3. QED BY <2>2, Zenon
<1>15. Cardinality(0 .. (N - 1)) = N BY <1>7, FS_Interval
<1>16. ASSUME NEW i \in 0 .. (N - 1), NEW k \in L PROVE at[i] = cstack[k].frame <=> i = Rank(L, k)
  <2>1. i \in 0 .. MaxFrames /\ i < N /\ N \in Nat BY <1>7, <1>8
  <2>2. PICK j \in L : at[i] = cstack[j].frame /\ Rank(L, j) = i BY <1>10, <2>1
  <2>3. at[i] = cstack[k].frame => j = k BY <1>11, <2>2
  <2>4. i = Rank(L, k) => j = k
    <3>1. j \in Nat /\ k \in Nat /\ Rank(L, j) \in Nat /\ Rank(L, k) \in Nat BY <1>6, <1>7
    <3>2. CASE j < k BY <1>7, <2>2, <3>1, <3>2
    <3>3. CASE k < j BY <1>7, <2>2, <3>1, <3>3
    <3>4. QED BY <3>1, <3>2, <3>3
  <2>5. QED BY <2>2, <2>3, <2>4
<1> HIDE DEF chain
<1>17. Cardinality(chain) = Cardinality(EstablishedForms) BY <1>3, <1>4, <1>5, <1>14, <1>15
<1>18. ASSUME NEW i \in chain, NEW k \in EstablishedForms
       PROVE  (at[i] = cstack[k].frame) <=> i = Cardinality({m \in EstablishedForms : m > k})
  <2>1. i \in 0 .. (N - 1) /\ k \in L BY <1>3, <1>4, <1>14
  <2>2. Rank(L, k) = Cardinality({m \in EstablishedForms : m > k}) BY <1>3, <1>4 DEF Rank
  <2>3. QED BY <1>16, <2>1, <2>2
<1>19. QED BY <1>17, <1>18

(* add_block() and its like link a frame, leave_block() and its like, and    *)
(* RT_unwind_to(), unlink it: whenever the program runs, other than in an    *)
(* interpreted cleanup form, a search from _last_control_frame sees every    *)
(* established form, innermost first, and none that has been left.           *)
THEOREM ChainIsOfForms ==
  ASSUME CarefulExits
  PROVE  UnwSpec => []ChainMatchesForms
<1> DEFINE Bounded == Len(frames) <= MaxFrames
<1>1. Init => Bounded BY ControlAssumption DEF Init
<1>2. ExitInv /\ ExitInv' /\ Bounded /\ [Next]_vars => Bounded' BY FramesBounded
<1>3. ExitInv /\ Bounded => ChainMatchesForms BY ChainImplies
<1> HIDE DEF Bounded
<1>4. QED BY <1>1, <1>2, <1>3, ExitInvariant, UnwindingRefines, PTL DEF Spec

==============================================================================
