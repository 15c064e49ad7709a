--------------------------- MODULE ConditionsProofs ---------------------------
(***************************************************************************)
(* Proofs, for any conditions, clusters, names and depths, that handlers   *)
(* are found and asked as they should be, and that restarts belong to the  *)
(* conditions they were established for.                                   *)
(***************************************************************************)
EXTENDS Conditions, SequenceTheorems, WellFoundedInduction, TLAPS

------------------------------------------------------------------------------
(* The clusters in effect.                                                   *)

(* Proof by induction: a set of numbers has a smallest element.              *)
LEMMA LeastExists ==
  ASSUME NEW T, T \subseteq Nat, T # {}
  PROVE  \E x \in T : \A y \in T : x <= y
<1>1. IsWellFoundedOn(OpToRel(<, Nat), Nat) BY NatLessThanWellFounded
<1>2. PICK x \in T : \A y \in T : ~(<<y, x>> \in OpToRel(<, Nat)) BY <1>1, WFMin, Zenon
<1>3. ASSUME NEW y \in T PROVE x <= y
  <2>1. x \in Nat /\ y \in Nat OBVIOUS
  <2>2. ~(y < x)
    <3>1. y < x => <<y, x>> \in OpToRel(<, Nat) BY <2>1, Zenon DEF OpToRel
    <3>2. QED BY <1>2, <3>1, Zenon
  <2>3. QED BY <2>1, <2>2
<1>4. QED BY <1>2, <1>3

(* The clusters in effect at activation k, from those at the ones before.    *)
Effect(st, at, k) ==
  IF k = 0 THEN << >>
  ELSE IF st[k].kind = "handlers" THEN <<k>> \o at[k - 1]
  ELSE IF st[k].kind = "handler" THEN at[st[k].from - 1]
  ELSE at[k - 1]

(* They have been found for the activations up to m.                         *)
Solves(st, at, m) == at = [k \in 0 .. m |-> Effect(st, at, k)]

(* A handler runs above its cluster.                                         *)
Nested(st) == \A k \in 1 .. Len(st) : st[k].kind = "handler" => st[k].from \in 1 .. k - 1

(* One more activation.                                                      *)
LEMMA EffectMore ==
  ASSUME NEW st, Nested(st), Len(st) \in Nat, NEW m \in Nat, m + 1 <= Len(st),
         NEW f, Solves(st, f, m)
  PROVE  \E at : Solves(st, at, m + 1)
<1> DEFINE x == Effect(st, f, m + 1)
           g == [k \in 0 .. m + 1 |-> IF k = m + 1 THEN x ELSE f[k]]
<1>1. \A k \in 0 .. m : f[k] = Effect(st, f, k) /\ g[k] = f[k] BY DEF Solves
<1>2. ASSUME NEW k \in 0 .. m + 1 PROVE Effect(st, g, k) = Effect(st, f, k)
  <2>1. CASE k = 0 BY <2>1 DEF Effect
  <2>2. CASE k # 0
    <3>1. k - 1 \in 0 .. m /\ k \in 1 .. Len(st) BY <2>2
    <3>2. st[k].kind = "handler" => st[k].from - 1 \in 0 .. m BY <3>1 DEF Nested
    <3>3. g[k - 1] = f[k - 1] BY <1>1, <3>1
    <3>4. st[k].kind = "handler" => g[st[k].from - 1] = f[st[k].from - 1] BY <1>1, <3>2
    <3>5. QED BY <3>3, <3>4 DEF Effect
  <2>3. QED BY <2>1, <2>2
<1>3. ASSUME NEW k \in 0 .. m + 1 PROVE g[k] = Effect(st, g, k)
  <2>1. CASE k = m + 1 BY <1>2, <2>1
  <2>2. CASE k # m + 1
    <3>1. k \in 0 .. m BY <2>2
    <3>2. g[k] = f[k] /\ f[k] = Effect(st, f, k) BY <1>1, <3>1
    <3>3. QED BY <1>2, <3>2
  <2>3. QED BY <2>1, <2>2
<1>4. PICK h : h = g OBVIOUS
<1>5. h = [k \in 0 .. m + 1 |-> h[k]] BY <1>4
<1>6. \A k \in 0 .. m + 1 : h[k] = Effect(st, h, k) BY <1>3, <1>4
<1> HIDE DEF g, x
<1>7. h = [k \in 0 .. m + 1 |-> Effect(st, h, k)] BY <1>5, <1>6
<1>8. QED BY <1>7 DEF Solves

(* They can be found for all.                                                *)
LEMMA EffectExists ==
  ASSUME NEW st, Nested(st), Len(st) \in Nat, NEW m \in Nat, m <= Len(st)
  PROVE  \E at : Solves(st, at, m)
<1> DEFINE T == {k \in Nat : k <= Len(st) /\ ~\E at : Solves(st, at, k)}
<1>1. SUFFICES ASSUME T # {} PROVE FALSE OBVIOUS
<1>2. T \subseteq Nat OBVIOUS
<1> HIDE DEF T
<1>3. PICK k \in T : \A j \in T : k <= j BY <1>1, <1>2, LeastExists
<1>4. k \in Nat /\ k <= Len(st) BY <1>3 DEF T
<1>5. CASE k = 0
  <2> DEFINE a == [i \in 0 .. 0 |-> << >>]
  <2>1. \A i \in 0 .. 0 : i = 0 /\ Effect(st, a, i) = << >> BY DEF Effect
  <2>2. a = [i \in 0 .. 0 |-> Effect(st, a, i)] BY <2>1
  <2>3. Solves(st, a, k) BY <1>5, <2>2 DEF Solves
  <2>4. QED BY <2>3 DEF T
<1>6. CASE k # 0
  <2>1. PICK j \in Nat : k = j + 1 BY <1>4, <1>6
  <2>2. j \notin T /\ j <= Len(st) BY <1>3, <1>4, <2>1
  <2>3. PICK f : Solves(st, f, j) BY <2>2 DEF T
  <2>4. \E at : Solves(st, at, j + 1) BY <1>4, <2>1, <2>3, EffectMore
  <2>5. QED BY <2>1, <2>4 DEF T
<1>7. QED BY <1>5, <1>6

(* The equation that InEffect() is defined by.                               *)
LEMMA InEffectSolves ==
  ASSUME NEW st, Nested(st), Len(st) \in Nat
  PROVE  /\ DOMAIN InEffect(st) = 0 .. Len(st)
         /\ \A k \in 0 .. Len(st) : InEffect(st)[k] = Effect(st, InEffect(st), k)
<1>1. \E at : Solves(st, at, Len(st)) BY EffectExists
<1>2. InEffect(st) = CHOOSE at : Solves(st, at, Len(st)) BY DEF InEffect, Solves, Effect
<1>3. PICK a : a = InEffect(st) OBVIOUS
<1>4. Solves(st, a, Len(st)) BY <1>1, <1>2, <1>3, Zenon
<1>5. a = [k \in 0 .. Len(st) |-> Effect(st, a, k)] BY <1>4 DEF Solves
<1>6. DOMAIN a = 0 .. Len(st) /\ \A k \in 0 .. Len(st) : a[k] = Effect(st, a, k)
  <2>1. PICK b : b = [k \in 0 .. Len(st) |-> Effect(st, a, k)] OBVIOUS
  <2>2. DOMAIN b = 0 .. Len(st) /\ \A k \in 0 .. Len(st) : b[k] = Effect(st, a, k) BY <2>1
  <2>3. a = b BY <1>5, <2>1
  <2>4. QED BY <2>2, <2>3
<1>7. QED BY <1>3, <1>6

(* They depend on the activations up to there.                               *)
LEMMA InEffectLocal ==
  ASSUME NEW st, NEW u, Nested(st), Nested(u), Len(st) \in Nat, Len(u) \in Nat,
         NEW m \in Nat, m <= Len(st), m <= Len(u), \A j \in 1 .. m : st[j] = u[j]
  PROVE  \A k \in 0 .. m : InEffect(st)[k] = InEffect(u)[k]
<1> DEFINE T == {k \in 0 .. m : InEffect(st)[k] # InEffect(u)[k]}
<1>1. SUFFICES ASSUME T # {} PROVE FALSE OBVIOUS
<1>2. T \subseteq Nat OBVIOUS
<1>3. \A k \in 0 .. m : k \in T <=> InEffect(st)[k] # InEffect(u)[k] OBVIOUS
<1>4. T \subseteq 0 .. m OBVIOUS
<1> HIDE DEF T
<1>5. PICK k \in T : \A j \in T : k <= j BY <1>1, <1>2, LeastExists
<1>6. PICK a, b : a = InEffect(st) /\ b = InEffect(u) OBVIOUS
<1>7. \A j \in 0 .. m : a[j] = Effect(st, a, j) /\ b[j] = Effect(u, b, j)
  BY <1>6, InEffectSolves
<1>8. \A j \in 0 .. m : j < k => a[j] = b[j] BY <1>3, <1>4, <1>5, <1>6
<1>9. k \in 0 .. m /\ a[k] # b[k] BY <1>3, <1>4, <1>6
<1>10. CASE k = 0 BY <1>7, <1>9, <1>10 DEF Effect
<1>11. CASE k # 0
  <2>1. k \in 1 .. m /\ k - 1 \in 0 .. m /\ k - 1 < k /\ st[k] = u[k] BY <1>9, <1>11
  <2>2. a[k - 1] = b[k - 1] BY <1>8, <2>1
  <2>3. st[k].kind = "handler" => /\ st[k].from - 1 \in 0 .. m
                                  /\ a[st[k].from - 1] = b[st[k].from - 1]
    <3>1. SUFFICES ASSUME st[k].kind = "handler"
                   PROVE  /\ st[k].from - 1 \in 0 .. m
                          /\ a[st[k].from - 1] = b[st[k].from - 1]
      OBVIOUS
    <3>2. st[k].from \in 1 .. k - 1 BY <2>1, <3>1 DEF Nested
    <3>3. PICK i \in Nat : i = st[k].from - 1 /\ i \in 0 .. m /\ i < k BY <2>1, <3>2
    <3>4. QED BY <1>8, <3>3
  <2>4. Effect(st, a, k) = Effect(u, b, k) BY <2>1, <2>2, <2>3 DEF Effect
  <2>5. QED BY <1>7, <1>9, <2>4
<1>12. QED BY <1>10, <1>11

(* A sequence with one element more in front.                                *)
LEMMA Consed ==
  ASSUME NEW S, NEW s \in Seq(S), NEW x \in S
  PROVE  /\ <<x>> \o s \in Seq(S) /\ <<x>> \o s # << >>
         /\ Len(<<x>> \o s) = Len(s) + 1
         /\ Head(<<x>> \o s) = x /\ Tail(<<x>> \o s) = s
         /\ \A i \in 1 .. Len(s) : (<<x>> \o s)[i + 1] = s[i]
         /\ (<<x>> \o s)[1] = x
         /\ ToSet(<<x>> \o s) = {x} \cup ToSet(s)
<1>1. PICK t : t = <<x>> \o s OBVIOUS
<1>2. t \in Seq(S) /\ Len(t) = Len(s) + 1 /\ t[1] = x
      /\ \A i \in 1 .. Len(s) : t[i + 1] = s[i]
  BY <1>1
<1>3. Head(t) = x /\ t # << >> BY <1>2
<1>4. Tail(t) = s
  <2>1. Tail(t) \in Seq(S) /\ Len(Tail(t)) = Len(s) /\ \A i \in 1 .. Len(s) : Tail(t)[i] = t[i + 1]
    BY <1>2, <1>3, HeadTailProperties
  <2>2. \A i \in 1 .. Len(s) : Tail(t)[i] = s[i] BY <1>2, <2>1
  <2>3. QED BY <2>1, <2>2, SeqEqual
<1>5. ToSet(t) = {x} \cup ToSet(s)
  <2>1. DOMAIN t = 1 .. Len(s) + 1 /\ DOMAIN s = 1 .. Len(s) /\ Len(s) \in Nat BY <1>2
  <2>2. ASSUME NEW y \in ToSet(t) PROVE y \in {x} \cup ToSet(s)
    <3>1. PICK i \in 1 .. Len(s) + 1 : y = t[i] BY <2>1, <2>2 DEF ToSet
    <3>2. CASE i = 1 BY <1>2, <3>1, <3>2
    <3>3. CASE i # 1
      <4>1. PICK j \in 1 .. Len(s) : i = j + 1 BY <2>1, <3>1, <3>3
      <4>2. y = s[j] BY <1>2, <3>1, <4>1
      <4>3. QED BY <2>1, <4>2 DEF ToSet
    <3>4. QED BY <3>2, <3>3
  <2>3. ASSUME NEW y \in {x} \cup ToSet(s) PROVE y \in ToSet(t)
    <3>1. CASE y = x
      <4>1. 1 \in DOMAIN t BY <2>1
      <4>2. QED BY <1>2, <3>1, <4>1 DEF ToSet
    <3>2. CASE y \in ToSet(s)
      <4>1. PICK j \in 1 .. Len(s) : y = s[j] BY <2>1, <3>2 DEF ToSet
      <4>2. j + 1 \in DOMAIN t /\ t[j + 1] = y BY <1>2, <2>1, <4>1
      <4>3. QED BY <4>2 DEF ToSet
    <3>3. QED BY <2>3, <3>1, <3>2
  <2>4. QED BY <2>2, <2>3
<1>6. QED BY <1>1, <1>2, <1>3, <1>4, <1>5

(* The clusters e in effect at k are of forms around it, the newest first,   *)
(* and those older than one of them were in effect where that one was        *)
(* established.                                                              *)
ShapeOf(st, at, k, e) ==
  /\ e \in Seq(Nat)
  /\ \A f \in ToSet(e) :
       /\ f \in 1 .. k /\ st[f].kind = "handlers"
       /\ \A g \in Nat : (g \in ToSet(e) /\ g < f) <=> g \in ToSet(at[f - 1])
  /\ e # << >> => /\ Head(e) \in ToSet(e) /\ Tail(e) = at[Head(e) - 1]
                  /\ \A g \in ToSet(e) : g <= Head(e)

Shape(st, k) == ShapeOf(st, InEffect(st), k, InEffect(st)[k])

(* What was in effect at an earlier activation.                              *)
LEMMA ShapeLater ==
  ASSUME NEW st, NEW at, NEW j \in Nat, NEW k \in Nat, j <= k, NEW e, ShapeOf(st, at, j, e)
  PROVE  ShapeOf(st, at, k, e)
<1>1. \A f \in 1 .. j : f \in 1 .. k OBVIOUS
<1>2. QED BY <1>1 DEF ShapeOf

(* A new cluster in front.                                                   *)
LEMMA ShapeMore ==
  ASSUME NEW st, NEW at, NEW k \in Nat, k > 0, NEW e, ShapeOf(st, at, k - 1, e), at[k - 1] = e,
         st[k].kind = "handlers"
  PROVE  ShapeOf(st, at, k, <<k>> \o e)
<1>1. e \in Seq(Nat) /\ k \in Nat BY DEF ShapeOf
<1>2. PICK t : t = <<k>> \o e OBVIOUS
<1>3. /\ t \in Seq(Nat) /\ t # << >> /\ Head(t) = k /\ Tail(t) = e
      /\ ToSet(t) = {k} \cup ToSet(e)
  BY <1>1, <1>2, Consed
<1>4. \A g \in ToSet(e) : g \in Nat /\ g \in 1 .. k - 1 /\ g < k BY DEF ShapeOf
<1>5. ASSUME NEW f \in ToSet(t)
      PROVE  /\ f \in 1 .. k /\ st[f].kind = "handlers"
             /\ \A g \in Nat : (g \in ToSet(t) /\ g < f) <=> g \in ToSet(at[f - 1])
  <2>1. CASE f = k BY <1>3, <1>4, <2>1
  <2>2. CASE f \in ToSet(e)
    <3>1. /\ f \in 1 .. k - 1 /\ st[f].kind = "handlers"
          /\ \A g \in Nat : (g \in ToSet(e) /\ g < f) <=> g \in ToSet(at[f - 1])
      BY <2>2 DEF ShapeOf
    <3>2. \A g \in Nat : (g \in ToSet(t) /\ g < f) <=> (g \in ToSet(e) /\ g < f)
      BY <1>3, <3>1
    <3>3. QED BY <3>1, <3>2
  <2>3. QED BY <1>3, <2>1, <2>2
<1>6. \A g \in ToSet(t) : g <= k BY <1>3, <1>4
<1>7. ShapeOf(st, at, k, t) BY <1>3, <1>5, <1>6 DEF ShapeOf
<1>8. QED BY <1>2, <1>7

(* It is so at every activation.                                             *)
LEMMA InEffectShape ==
  ASSUME NEW st, Nested(st), Len(st) \in Nat, NEW n \in 0 .. Len(st)
  PROVE  Shape(st, n)
<1> DEFINE T == {k \in 0 .. Len(st) : ~Shape(st, k)}
<1>1. SUFFICES ASSUME T # {} PROVE FALSE OBVIOUS
<1>2. T \subseteq Nat /\ T \subseteq 0 .. Len(st) OBVIOUS
<1>3. \A k \in 0 .. Len(st) : k \in T <=> ~Shape(st, k) OBVIOUS
<1> HIDE DEF T
<1>4. PICK k \in T : \A j \in T : k <= j BY <1>1, <1>2, LeastExists
<1>5. PICK at : at = InEffect(st) OBVIOUS
<1>6. k \in 0 .. Len(st) /\ k \in Nat /\ ~ShapeOf(st, at, k, at[k])
  BY <1>2, <1>3, <1>4, <1>5 DEF Shape
<1>7. ASSUME NEW j \in 0 .. Len(st), j < k PROVE ShapeOf(st, at, j, at[j])
  <2>1. j \notin T BY <1>4, <1>6, <1>7
  <2>2. QED BY <1>3, <1>5, <2>1 DEF Shape
<1>8. at[k] = Effect(st, at, k) BY <1>5, <1>6, InEffectSolves
<1>9. CASE k = 0
  <2>1. at[k] = << >> BY <1>8, <1>9 DEF Effect
  <2>2. ToSet(<< >>) = {} BY DEF ToSet
  <2>3. QED BY <1>6, <2>1, <2>2 DEF ShapeOf
<1>10. CASE k # 0
  <2>1. PICK j \in Nat : j = k - 1 /\ j \in 0 .. Len(st) /\ j < k /\ j <= k BY <1>6, <1>10
  <2>2. ShapeOf(st, at, j, at[j]) BY <1>7, <2>1
  <2>3. CASE st[k].kind = "handlers"
    <3>1. at[k] = <<k>> \o at[j] BY <1>8, <1>10, <2>1, <2>3 DEF Effect
    <3>2. ShapeOf(st, at, k - 1, at[j]) /\ at[k - 1] = at[j] /\ k > 0 BY <1>6, <1>10, <2>1, <2>2
    <3>3. ShapeOf(st, at, k, <<k>> \o at[j]) BY <1>6, <2>3, <3>2, ShapeMore
    <3>4. QED BY <1>6, <3>1, <3>3
  <2>4. CASE st[k].kind = "handler"
    <3>1. st[k].from \in 1 .. k - 1 BY <1>6, <1>10, <2>4 DEF Nested
    <3>2. PICK i \in Nat : i = st[k].from - 1 /\ i \in 0 .. Len(st) /\ i < k /\ i <= k
      BY <1>6, <3>1
    <3>3. at[k] = at[i] BY <1>8, <1>10, <2>4, <3>2 DEF Effect
    <3>4. ShapeOf(st, at, i, at[i]) BY <1>7, <3>2
    <3>5. ShapeOf(st, at, k, at[i]) BY <1>6, <3>2, <3>4, ShapeLater
    <3>6. QED BY <1>6, <3>3, <3>5
  <2>5. CASE st[k].kind # "handlers" /\ st[k].kind # "handler"
    <3>1. at[k] = at[j] BY <1>8, <1>10, <2>1, <2>5 DEF Effect
    <3>2. ShapeOf(st, at, k, at[j]) BY <1>6, <2>1, <2>2, ShapeLater
    <3>3. QED BY <1>6, <3>1, <3>2
  <2>6. QED BY <2>3, <2>4, <2>5
<1>11. QED BY <1>9, <1>10

------------------------------------------------------------------------------
(* The inductive invariant: every activation fits those below it.            *)

Association == [cond : Conditions, restarts : SUBSET Nat]

Value == [handlers : Seq(Nat), restarts : Seq(Nat), associations : Seq(Association),
          depth : Nat, level : Nat]

Kinds == {"top", "handlers", "restarts", "associations", "signal", "handler", "debugger"}

Frame == [kind : Kinds, vals : Value, base : Nat, name : AllNames \cup {NIL},
          cond : Conditions \cup {NIL}, caller : Callers \cup {NIL},
          cluster : Seq(SUBSET Conditions), exits : BOOLEAN, from : Nat, next : Nat,
          asked : Seq(Nat \X Nat)]

(* Control goes on below, and the cluster of a handler is below it.          *)
FitsBase(s, k) ==
  /\ s.base \in 1 .. k
  /\ s.kind = "handler" => s.from \in 1 .. k - 1

(* The handlers at activation k; a signal has come to the cluster from.      *)
FitsHandlers(s, e) == s.kind # "signal" => s.vals.handlers = e

FitsSignal(s, below, e) ==
  /\ s.cond \in Conditions /\ s.caller \in Callers
  /\ below.kind # "signal"
  /\ s.next > 0
  /\ s.from = 0 => s.vals.handlers = e

FitsWalk(s, at, e) ==
  s.from # 0 => s.from \in ToSet(e) /\ s.vals.handlers = at[s.from - 1]

FitsAsked(st, s, e) ==
  /\ \A m, n \in DOMAIN s.asked : m < n => Before(s.asked[m], s.asked[n])
  /\ ToSet(s.asked) = {h \in Handlers(st, ToSet(e), s.cond) : ~Due(s, h)}

(* The restarts are those of activations below, the newest first, and none   *)
(* that restart-case has established is missing.                             *)
FitsRestarts(st, k) ==
  LET rs == st[k].vals.restarts IN
  /\ \A i \in DOMAIN rs : rs[i] \in 1 .. k
  /\ \A i, j \in DOMAIN rs : i < j => rs[i] > rs[j]
  /\ \A j \in 1 .. k : st[j].kind = "restarts" => j \in ToSet(rs)

(* The activation a has associated a restart with c.                         *)
Associates(a, c) ==
  /\ a.kind = "associations"
  /\ a.vals.associations # << >>
  /\ Head(a.vals.associations).cond = c

(* A restart is associated with a condition above of the activation that has *)
(* established it.                                                           *)
FitsAssociations(st, k) ==
  \A a \in ToSet(st[k].vals.associations) : \A r \in a.restarts :
    r + 1 \in 1 .. k /\ Associates(st[r + 1], a.cond)

(* warn() and cerror() signal inside of a restart of their own.              *)
FitsOwn(st, k) ==
  st[k].kind = "signal" /\ st[k].caller \in {"warn", "cerror"} =>
    /\ k > 2
    /\ Associates(st[k - 1], st[k].cond)
    /\ st[k - 2].kind = "restarts"

Fits(st, at, k) ==
  /\ FitsBase(st[k], k)
  /\ FitsHandlers(st[k], at[k])
  /\ st[k].kind = "signal" => /\ k > 1 /\ FitsSignal(st[k], st[k - 1], at[k - 1])
                              /\ FitsWalk(st[k], at, at[k - 1])
                              /\ FitsAsked(st, st[k], at[k - 1])
  /\ FitsRestarts(st, k)
  /\ FitsAssociations(st, k)
  /\ FitsOwn(st, k)

Good(st) ==
  /\ st \in Seq(Frame) /\ st # << >>
  /\ \A k \in 1 .. Len(st) : Fits(st, InEffect(st), k)

(* An activation that fits is found to do so from those up to it.            *)
LEMMA FitsLocal ==
  ASSUME NEW st, NEW u, NEW at, NEW bt, NEW k \in Nat, k > 0,
         \A j \in 1 .. k : st[j] = u[j], \A j \in 0 .. k : at[j] = bt[j],
         ShapeOf(st, at, k - 1, at[k - 1]), Fits(st, at, k)
  PROVE  Fits(u, bt, k)
<1>1. st[k] = u[k] /\ at[k] = bt[k] /\ at[k - 1] = bt[k - 1] OBVIOUS
<1>2. FitsBase(u[k], k) /\ FitsHandlers(u[k], bt[k]) BY <1>1 DEF Fits
<1>3. ASSUME u[k].kind = "signal"
      PROVE  /\ k > 1 /\ FitsSignal(u[k], u[k - 1], bt[k - 1])
             /\ FitsWalk(u[k], bt, bt[k - 1])
             /\ FitsAsked(u, u[k], bt[k - 1])
  <2>1. /\ k > 1 /\ FitsSignal(st[k], st[k - 1], at[k - 1])
        /\ FitsWalk(st[k], at, at[k - 1])
        /\ FitsAsked(st, st[k], at[k - 1])
    BY <1>1, <1>3 DEF Fits
  <2>2. st[k - 1] = u[k - 1] BY <2>1
  <2>3. PICK e : e = at[k - 1] OBVIOUS
  <2>4. \A f \in ToSet(e) : f \in 1 .. k - 1 BY <2>3 DEF ShapeOf
  <2>5. \A f \in ToSet(e) : st[f] = u[f] /\ at[f - 1] = bt[f - 1] BY <2>4
  <2>6. FitsWalk(u[k], bt, e) BY <1>1, <2>1, <2>3, <2>5 DEF FitsWalk
  <2>7. \A c : Handlers(st, ToSet(e), c) = Handlers(u, ToSet(e), c)
    <3>1. UNION {{f} \X DOMAIN st[f].cluster : f \in ToSet(e)}
            = UNION {{f} \X DOMAIN u[f].cluster : f \in ToSet(e)}
      BY <2>5
    <3>2. ASSUME NEW h \in UNION {{f} \X DOMAIN st[f].cluster : f \in ToSet(e)}
          PROVE  st[h[1]] = u[h[1]]
      <4>1. PICK f \in ToSet(e) : h \in {f} \X DOMAIN st[f].cluster OBVIOUS
      <4>2. h[1] = f BY <4>1
      <4>3. QED BY <2>5, <4>2
    <3>3. QED BY <3>1, <3>2 DEF Handlers
  <2>8. FitsAsked(u, u[k], e) BY <1>1, <2>1, <2>3, <2>7 DEF FitsAsked
  <2>9. QED BY <1>1, <2>1, <2>2, <2>3, <2>6, <2>8
<1>4. FitsRestarts(u, k)
  <2>1. FitsRestarts(st, k) BY DEF Fits
  <2>2. QED BY <1>1, <2>1 DEF FitsRestarts
<1>5. FitsAssociations(u, k)
  <2>1. FitsAssociations(st, k) BY DEF Fits
  <2>2. QED BY <1>1, <2>1 DEF FitsAssociations
<1>6. FitsOwn(u, k)
  <2>1. FitsOwn(st, k) BY DEF Fits
  <2>2. k > 2 => st[k - 1] = u[k - 1] /\ st[k - 2] = u[k - 2] OBVIOUS
  <2>3. QED BY <1>1, <2>1, <2>2 DEF FitsOwn
<1>7. QED BY <1>2, <1>3, <1>4, <1>5, <1>6 DEF Fits

(* What the lemmas on InEffect() need.                                       *)
LEMMA GoodNested ==
  ASSUME NEW st, Good(st)
  PROVE  /\ Len(st) \in Nat /\ Len(st) > 0 /\ Nested(st)
         /\ DOMAIN st = 1 .. Len(st)
         /\ \A k \in 1 .. Len(st) : st[k] \in Frame /\ Fits(st, InEffect(st), k)
         /\ \A k \in 0 .. Len(st) : Shape(st, k)
<1>1. st \in Seq(Frame) /\ st # << >> BY DEF Good
<1>2. Len(st) \in Nat /\ Len(st) > 0 /\ DOMAIN st = 1 .. Len(st)
      /\ \A k \in 1 .. Len(st) : st[k] \in Frame
  BY <1>1, LenProperties, ElementOfSeq, EmptySeq
<1>3. \A k \in 1 .. Len(st) : Fits(st, InEffect(st), k) BY DEF Good
<1>4. Nested(st)
  <2>1. \A k \in 1 .. Len(st) : FitsBase(st[k], k) BY <1>3 DEF Fits
  <2>2. QED BY <2>1 DEF FitsBase, Nested
<1>5. QED BY <1>2, <1>3, <1>4, InEffectShape

(* The activations that are left after an exit.                              *)
Cut(st, m, u) ==
  /\ Good(u) /\ Len(u) = m /\ \A j \in 1 .. m : u[j] = st[j]
  /\ \A j \in 0 .. m : InEffect(u)[j] = InEffect(st)[j]

(* They fit as before.                                                       *)
LEMMA GoodPrefix ==
  ASSUME NEW st, Good(st), NEW m \in 1 .. Len(st)
  PROVE  Cut(st, m, SubSeq(st, 1, m))
<1>0. PICK u : u = SubSeq(st, 1, m) OBVIOUS
<1>1. /\ Len(st) \in Nat /\ Nested(st)
      /\ \A k \in 1 .. Len(st) : st[k] \in Frame /\ Fits(st, InEffect(st), k)
      /\ \A k \in 0 .. Len(st) : Shape(st, k)
  BY GoodNested
<1>2. u \in Seq(Frame) /\ Len(u) = m /\ \A j \in 1 .. m : u[j] = st[j]
  <2>1. \A i \in 1 .. m : st[i] \in Frame BY <1>1
  <2>2. m \in Int /\ 1 \in Int /\ 1 <= m OBVIOUS
  <2>3. /\ SubSeq(st, 1, m) \in Seq(Frame)
        /\ Len(SubSeq(st, 1, m)) = IF 1 <= m THEN m - 1 + 1 ELSE 0
        /\ \A i \in 1 .. m - 1 + 1 : SubSeq(st, 1, m)[i] = st[1 + i - 1]
    BY <2>1, <2>2, SubSeqProperties
  <2>4. QED BY <1>0, <2>2, <2>3
<1>3. u # << >> BY <1>2
<1>4. Nested(u) BY <1>1, <1>2 DEF Nested
<1>5. \A j \in 0 .. m : InEffect(u)[j] = InEffect(st)[j]
  <2>1. m \in Nat /\ m <= Len(st) /\ m <= Len(u) /\ Len(u) \in Nat BY <1>1, <1>2
  <2>2. QED BY <1>1, <1>2, <1>4, <2>1, InEffectLocal
<1>6. PICK at, bt : at = InEffect(st) /\ bt = InEffect(u) OBVIOUS
<1>7. ASSUME NEW k \in 1 .. m PROVE Fits(u, bt, k)
  <2>1. k \in Nat /\ k > 0 /\ k - 1 \in 0 .. Len(st) /\ k \in 1 .. Len(st) BY <1>1
  <2>2. Fits(st, at, k) /\ ShapeOf(st, at, k - 1, at[k - 1]) BY <1>1, <1>6, <2>1 DEF Shape
  <2>3. (\A j \in 1 .. k : st[j] = u[j]) /\ \A j \in 0 .. k : at[j] = bt[j] BY <1>2, <1>5, <1>6
  <2>4. QED BY <2>1, <2>2, <2>3, FitsLocal
<1>8. Cut(st, m, u) BY <1>2, <1>3, <1>5, <1>6, <1>7 DEF Good, Cut
<1>9. QED BY <1>0, <1>8

(* A further activation.                                                     *)
Pushed(st, a, u) ==
  /\ Len(st) \in Nat /\ Len(u) = Len(st) + 1 /\ u[Len(u)] = a
  /\ \A j \in 1 .. Len(st) : u[j] = st[j]
  /\ \A j \in 0 .. Len(st) : InEffect(u)[j] = InEffect(st)[j]
  /\ InEffect(u)[Len(u)] = Effect(u, InEffect(st), Len(u))
  /\ Fits(u, InEffect(u), Len(u)) => Good(u)

Below(st, a) == a.kind = "handler" => a.from \in 1 .. Len(st)

(* It is all that has to be looked at.                                       *)
LEMMA GoodPush ==
  ASSUME NEW st, Good(st), NEW a \in Frame, Below(st, a)
  PROVE  Pushed(st, a, Append(st, a))
<1> DEFINE u == Append(st, a)
<1>1. /\ Len(st) \in Nat /\ Nested(st) /\ st \in Seq(Frame)
      /\ \A k \in 1 .. Len(st) : st[k] \in Frame /\ Fits(st, InEffect(st), k)
      /\ \A k \in 0 .. Len(st) : Shape(st, k)
  BY GoodNested DEF Good
<1>2. /\ u \in Seq(Frame) /\ u # << >> /\ Len(u) = Len(st) + 1 /\ u[Len(u)] = a
      /\ \A j \in 1 .. Len(st) : u[j] = st[j]
  BY <1>1, AppendProperties
<1> HIDE DEF u
<1>3. Nested(u)
  <2>1. SUFFICES ASSUME NEW k \in 1 .. Len(u), u[k].kind = "handler"
                 PROVE  u[k].from \in 1 .. k - 1
    BY DEF Nested
  <2>2. CASE k = Len(u) BY <1>1, <1>2, <2>1, <2>2 DEF Below
  <2>3. CASE k # Len(u)
    <3>1. k \in 1 .. Len(st) BY <1>1, <1>2, <2>3
    <3>2. QED BY <1>1, <1>2, <2>1, <3>1 DEF Nested
  <2>4. QED BY <2>2, <2>3
<1>4. PICK n \in Nat : n = Len(st) /\ Len(u) = n + 1 BY <1>1, <1>2
<1>5. \A j \in 0 .. n : InEffect(u)[j] = InEffect(st)[j]
  <2>1. n <= Len(st) /\ n <= Len(u) /\ Len(u) \in Nat BY <1>4
  <2>2. \A j \in 1 .. n : u[j] = st[j] BY <1>2, <1>4
  <2>3. QED BY <1>1, <1>3, <2>1, <2>2, InEffectLocal
<1>6. PICK at, bt : at = InEffect(st) /\ bt = InEffect(u) OBVIOUS
<1>7. bt[n + 1] = Effect(u, at, n + 1)
  <2>1. n + 1 \in 0 .. Len(u) /\ n + 1 \in 1 .. Len(u) /\ Len(u) \in Nat /\ n + 1 # 0 BY <1>4
  <2>2. bt[n + 1] = Effect(u, bt, n + 1) BY <1>3, <1>6, <2>1, InEffectSolves
  <2>3. n + 1 - 1 = n /\ bt[n] = at[n] BY <1>5, <1>6
  <2>4. u[n + 1].kind = "handler" => bt[u[n + 1].from - 1] = at[u[n + 1].from - 1]
    <3>1. SUFFICES ASSUME u[n + 1].kind = "handler"
                   PROVE  bt[u[n + 1].from - 1] = at[u[n + 1].from - 1]
      OBVIOUS
    <3>2. PICK i \in Nat : i = u[n + 1].from - 1 /\ i \in 0 .. n BY <1>3, <2>1, <3>1 DEF Nested
    <3>3. QED BY <1>5, <1>6, <3>2
  <2>5. QED BY <2>1, <2>2, <2>3, <2>4 DEF Effect
<1>8. ASSUME NEW k \in 1 .. n PROVE Fits(u, bt, k)
  <2>1. k \in Nat /\ k > 0 /\ k - 1 \in 0 .. Len(st) /\ k \in 1 .. Len(st) BY <1>4
  <2>2. Fits(st, at, k) /\ ShapeOf(st, at, k - 1, at[k - 1]) BY <1>1, <1>6, <2>1 DEF Shape
  <2>3. (\A j \in 1 .. k : st[j] = u[j]) /\ \A j \in 0 .. k : at[j] = bt[j]
    BY <1>2, <1>4, <1>5, <1>6
  <2>4. QED BY <2>1, <2>2, <2>3, FitsLocal
<1>9. ASSUME Fits(u, bt, n + 1) PROVE Good(u)
  <2>1. \A k \in 1 .. n + 1 : k \in 1 .. n \/ k = n + 1 OBVIOUS
  <2>2. \A k \in 1 .. n + 1 : Fits(u, bt, k) BY <1>8, <1>9, <2>1
  <2>3. QED BY <1>2, <1>4, <1>6, <2>2 DEF Good
<1>10. Pushed(st, a, u) BY <1>1, <1>2, <1>4, <1>5, <1>6, <1>7, <1>9 DEF Pushed
<1>11. QED BY <1>10 DEF u

(* The restarts of a new activation: those of the one below, and its own.    *)
LEMMA NewRestarts ==
  ASSUME NEW st, Good(st), NEW u, NEW k \in Nat, k = Len(st),
         \A j \in 1 .. k : u[j] = st[j],
         \/ /\ u[k + 1].kind # "restarts"
            /\ u[k + 1].vals.restarts = st[k].vals.restarts
         \/ u[k + 1].vals.restarts = <<k + 1>> \o st[k].vals.restarts
  PROVE  FitsRestarts(u, k + 1)
<1>1. k > 0 /\ k \in 1 .. Len(st) BY GoodNested
<1>2. st[k] \in Frame /\ FitsRestarts(st, k) BY <1>1, GoodNested DEF Fits
<1>3. PICK rs : rs = st[k].vals.restarts OBVIOUS
<1>4. rs \in Seq(Nat) BY <1>2, <1>3 DEF Frame, Value
<1>5. DOMAIN rs = 1 .. Len(rs) /\ Len(rs) \in Nat BY <1>4
<1>6. /\ \A i \in DOMAIN rs : rs[i] \in 1 .. k
      /\ \A i, j \in DOMAIN rs : i < j => rs[i] > rs[j]
      /\ \A j \in 1 .. k : u[j].kind = "restarts" => j \in ToSet(rs)
  BY <1>2, <1>3 DEF FitsRestarts
<1>7. CASE u[k + 1].kind # "restarts" /\ u[k + 1].vals.restarts = rs
  <2>1. \A j \in 1 .. k + 1 : u[j].kind = "restarts" => j \in ToSet(rs) BY <1>6, <1>7
  <2>2. \A i \in DOMAIN rs : rs[i] \in 1 .. k + 1 BY <1>6
  <2>3. QED BY <1>6, <1>7, <2>1, <2>2 DEF FitsRestarts
<1>8. CASE u[k + 1].vals.restarts = <<k + 1>> \o rs
  <2>1. PICK t : t = <<k + 1>> \o rs OBVIOUS
  <2>2. /\ t \in Seq(Nat) /\ Len(t) = Len(rs) + 1 /\ t[1] = k + 1
        /\ \A i \in 1 .. Len(rs) : t[i + 1] = rs[i]
        /\ ToSet(t) = {k + 1} \cup ToSet(rs)
    BY <1>4, <2>1, Consed
  <2>3. DOMAIN t = 1 .. Len(rs) + 1 BY <2>2
  <2>4. \A i \in DOMAIN t : i = 1 \/ (i - 1 \in DOMAIN rs /\ t[i] = rs[i - 1])
    <3>1. SUFFICES ASSUME NEW i \in DOMAIN t, i # 1
                   PROVE  i - 1 \in DOMAIN rs /\ t[i] = rs[i - 1]
      OBVIOUS
    <3>2. i - 1 \in 1 .. Len(rs) /\ i = (i - 1) + 1 BY <1>5, <2>3, <3>1
    <3>3. PICK j \in 1 .. Len(rs) : i = j + 1 /\ j = i - 1 BY <3>2
    <3>4. QED BY <1>5, <2>2, <3>3
  <2>5. \A i \in DOMAIN t : t[i] \in 1 .. k + 1 BY <1>6, <2>2, <2>4
  <2>6. ASSUME NEW i \in DOMAIN t, NEW j \in DOMAIN t, i < j PROVE t[i] > t[j]
    <3>1. j # 1 /\ i \in Nat /\ j \in Nat BY <2>3, <2>6
    <3>2. j - 1 \in DOMAIN rs /\ t[j] = rs[j - 1] /\ rs[j - 1] \in 1 .. k BY <1>6, <2>4, <3>1
    <3>3. CASE i = 1
      <4>1. t[i] = k + 1 /\ t[j] \in 1 .. k BY <2>2, <3>2, <3>3
      <4>2. QED BY <4>1
    <3>4. CASE i # 1
      <4>1. i - 1 \in DOMAIN rs /\ t[i] = rs[i - 1] BY <2>4, <3>4
      <4>2. i - 1 < j - 1 BY <2>6, <3>1
      <4>3. QED BY <1>6, <3>2, <4>1, <4>2
    <3>5. QED BY <3>3, <3>4
  <2>7. \A j \in 1 .. k + 1 : u[j].kind = "restarts" => j \in ToSet(t) BY <1>6, <2>2
  <2>8. u[k + 1].vals.restarts = t BY <1>8, <2>1
  <2>9. QED BY <2>5, <2>6, <2>7, <2>8 DEF FitsRestarts
<1>9. QED BY <1>3, <1>7, <1>8

(* Its associations, if it makes none.                                       *)
LEMMA SameAssociations ==
  ASSUME NEW st, Good(st), NEW u, NEW k \in Nat, k = Len(st),
         \A j \in 1 .. k : u[j] = st[j],
         u[k + 1].vals.associations = st[k].vals.associations
  PROVE  FitsAssociations(u, k + 1)
<1>1. k > 0 /\ k \in 1 .. Len(st) BY GoodNested
<1>2. FitsAssociations(st, k) BY <1>1, GoodNested DEF Fits
<1>3. QED BY <1>2 DEF FitsAssociations

(* A form, and the debugger: what is neither a signal nor a handler.         *)
LEMMA GoodForm ==
  ASSUME NEW st, Good(st), Last(st).kind # "signal", NEW a \in Frame,
         a.kind \notin {"signal", "handler"}, a.base \in 1 .. Len(st) + 1,
         NEW u, u = Append(st, a),
         a.vals.handlers = IF a.kind = "handlers" THEN <<Len(st) + 1>> \o Last(st).vals.handlers
                           ELSE Last(st).vals.handlers,
         \/ /\ a.kind # "restarts"
            /\ a.vals.restarts = Last(st).vals.restarts
         \/ a.vals.restarts = <<Len(st) + 1>> \o Last(st).vals.restarts,
         FitsAssociations(u, Len(u))
  PROVE  Good(u) /\ Len(u) = Len(st) + 1 /\ Last(u) = a /\ \A j \in 1 .. Len(st) : u[j] = st[j]
<1>1. /\ Len(st) \in Nat /\ Len(u) = Len(st) + 1 /\ u[Len(u)] = a
      /\ \A j \in 1 .. Len(st) : u[j] = st[j]
      /\ InEffect(u)[Len(u)] = Effect(u, InEffect(st), Len(u))
      /\ Fits(u, InEffect(u), Len(u)) => Good(u)
  <2>1. Below(st, a) BY DEF Below
  <2>2. Pushed(st, a, u) BY <2>1, GoodPush
  <2>3. QED BY <2>2 DEF Pushed
<1>2. PICK k \in Nat : k = Len(st) /\ Len(u) = k + 1 BY <1>1
<1>3. PICK at, bt : at = InEffect(st) /\ bt = InEffect(u) OBVIOUS
<1>4. k > 0 /\ k \in 1 .. k BY <1>2, GoodNested
<1>5. st[k].vals.handlers = at[k]
  <2>1. FitsHandlers(st[k], at[k]) BY <1>2, <1>3, <1>4, GoodNested DEF Fits
  <2>2. QED BY <1>2, <2>1 DEF FitsHandlers, Last
<1>6. FitsHandlers(a, bt[k + 1])
  <2>1. bt[k + 1] = Effect(u, at, k + 1) /\ u[k + 1] = a BY <1>1, <1>2, <1>3
  <2>2. k + 1 # 0 /\ k + 1 - 1 = k BY <1>4
  <2>3. Effect(u, at, k + 1) = IF a.kind = "handlers" THEN <<k + 1>> \o at[k] ELSE at[k]
    BY <2>1, <2>2 DEF Effect
  <2>4. QED BY <1>2, <1>5, <2>1, <2>3 DEF FitsHandlers, Last
<1>7. FitsRestarts(u, k + 1) BY <1>1, <1>2, NewRestarts DEF Last
<1>8. FitsBase(a, k + 1) BY <1>2 DEF FitsBase
<1>9. FitsOwn(u, k + 1) BY <1>1, <1>2 DEF FitsOwn
<1>10. Fits(u, bt, k + 1) BY <1>1, <1>2, <1>6, <1>7, <1>8, <1>9 DEF Fits
<1>11. QED BY <1>1, <1>2, <1>3, <1>10 DEF Last

------------------------------------------------------------------------------
(* What the forms and calls make of the activations.                         *)

(* The program runs here.                                                    *)
Ready(st) == Good(st) /\ Last(st).kind # "signal"

(* The values at the newest activation.                                      *)
LEMMA ReadyVals ==
  ASSUME NEW st, Good(st)
  PROVE  /\ Len(st) \in Nat /\ Len(st) > 0 /\ Len(st) \in 1 .. Len(st)
         /\ Last(st) = st[Len(st)] /\ Last(st) \in Frame
         /\ Vals(st) = Last(st).vals /\ Vals(st) \in Value
<1>1. Len(st) \in Nat /\ Len(st) > 0 /\ Len(st) \in 1 .. Len(st) BY GoodNested
<1>2. Last(st) = st[Len(st)] /\ Last(st) \in Frame BY <1>1, GoodNested DEF Last
<1>3. QED BY <1>1, <1>2 DEF Vals, Frame

(* A new activation, and its fields.                                         *)
New(kind, vals, base, name, cond, caller, cluster, exits, from) ==
  [kind |-> kind, vals |-> vals, base |-> base, name |-> name, cond |-> cond,
   caller |-> caller, cluster |-> cluster, exits |-> exits, from |-> from, next |-> 1,
   asked |-> << >>]

(* The record of a new activation is a frame.                                *)
LEMMA NewFrame ==
  ASSUME NEW kind \in Kinds, NEW vals \in Value, NEW base \in Nat,
         NEW name \in AllNames \cup {NIL}, NEW cond \in Conditions \cup {NIL},
         NEW caller \in Callers \cup {NIL}, NEW cluster \in Seq(SUBSET Conditions),
         NEW exits \in BOOLEAN, NEW from \in Nat
  PROVE  New(kind, vals, base, name, cond, caller, cluster, exits, from) \in Frame
<1>1. 1 \in Nat /\ << >> \in Seq(Nat \X Nat) OBVIOUS
<1>2. QED BY <1>1, Zenon DEF Frame, New

(* The activation of signal().                                               *)
Signalled(kind, vals, base, c, b) ==
  [Activation(kind, vals, base) EXCEPT !.cond = c, !.caller = b]

(* Its fields.                                                               *)
LEMMA SignalledNew ==
  ASSUME NEW kind, NEW vals, NEW base, NEW c, NEW b
  PROVE  Signalled(kind, vals, base, c, b) = New(kind, vals, base, NIL, c, b, << >>, FALSE, 0)
<1>1. PICK r : r = [Activation(kind, vals, base) EXCEPT !.cond = c, !.caller = b] OBVIOUS
<1>2. r = New(kind, vals, base, NIL, c, b, << >>, FALSE, 0) BY <1>1 DEF Activation, New
<1>3. QED BY <1>1, <1>2 DEF Signalled

(* The activation of handler-bind and handler-case.                          *)
Clustered(kind, vals, base, hs, x) ==
  [Activation(kind, vals, base) EXCEPT !.cluster = hs, !.exits = x]

(* Its fields.                                                               *)
LEMMA ClusteredNew ==
  ASSUME NEW kind, NEW vals, NEW base, NEW hs, NEW x
  PROVE  Clustered(kind, vals, base, hs, x) = New(kind, vals, base, NIL, NIL, NIL, hs, x, 0)
<1>1. PICK r : r = [Activation(kind, vals, base) EXCEPT !.cluster = hs, !.exits = x] OBVIOUS
<1>2. r = New(kind, vals, base, NIL, NIL, NIL, hs, x, 0) BY <1>1 DEF Activation, New
<1>3. QED BY <1>1, <1>2 DEF Clustered

(* The activation of the debugger.                                           *)
Debugged(kind, vals, base, n, c, b) ==
  [Activation(kind, vals, base) EXCEPT !.name = n, !.cond = c, !.caller = b]

(* Its fields.                                                               *)
LEMMA DebuggedNew ==
  ASSUME NEW kind, NEW vals, NEW base, NEW n, NEW c, NEW b
  PROVE  Debugged(kind, vals, base, n, c, b) = New(kind, vals, base, n, c, b, << >>, FALSE, 0)
<1>1. PICK r : r = [Activation(kind, vals, base) EXCEPT !.name = n, !.cond = c, !.caller = b] OBVIOUS
<1>2. r = New(kind, vals, base, n, c, b, << >>, FALSE, 0) BY <1>1 DEF Activation, New
<1>3. QED BY <1>1, <1>2 DEF Debugged

(* The activation of a handler.                                              *)
Handling(kind, vals, base, f, c) ==
  [Activation(kind, vals, base) EXCEPT !.from = f, !.cond = c]

(* Its fields.                                                               *)
LEMMA HandlingNew ==
  ASSUME NEW kind, NEW vals, NEW base, NEW f, NEW c
  PROVE  Handling(kind, vals, base, f, c) = New(kind, vals, base, NIL, c, NIL, << >>, FALSE, f)
<1>1. PICK r : r = [Activation(kind, vals, base) EXCEPT !.from = f, !.cond = c] OBVIOUS
<1>2. r = New(kind, vals, base, NIL, c, NIL, << >>, FALSE, f) BY <1>1 DEF Activation, New
<1>3. QED BY <1>1, <1>2 DEF Handling

(* restart-case                                                              *)
Restarted(st, n, u) ==
  /\ Ready(u) /\ Len(u) = Len(st) + 1 /\ \A j \in 1 .. Len(st) : u[j] = st[j]
  /\ Last(u).kind = "restarts" /\ Last(u).name = n
  /\ Vals(u).restarts = <<Len(st) + 1>> \o Vals(st).restarts

(* restart-case keeps the stack good.                                        *)
LEMMA GoodRestartCase ==
  ASSUME NEW st, Ready(st), NEW n \in AllNames, NEW base \in 1 .. Len(st)
  PROVE  Restarted(st, n, RestartCase(st, n, base))
<1>0. PICK u : u = RestartCase(st, n, base) OBVIOUS
<1>1. /\ Good(st) /\ Last(st).kind # "signal" /\ Len(st) \in Nat /\ Len(st) > 0
      /\ Vals(st) \in Value /\ Vals(st) = Last(st).vals
  BY ReadyVals DEF Ready
<1>2. PICK v : v = Vals(st) OBVIOUS
<1>3. PICK k \in Nat : k = Len(st) + 1 BY <1>1
<1>4. PICK rs : rs = <<k>> \o v.restarts OBVIOUS
<1>5. rs \in Seq(Nat)
  <2>1. v.restarts \in Seq(Nat) BY <1>1, <1>2 DEF Value
  <2>2. QED BY <1>4, <2>1, Consed
<1>6. PICK w : w = [v EXCEPT !.restarts = rs] OBVIOUS
<1>7. /\ w \in Value /\ w.handlers = v.handlers /\ w.associations = v.associations
      /\ w.restarts = rs
  BY <1>1, <1>2, <1>5, <1>6 DEF Value
<1>8. PICK a : a = [Activation("restarts", w, base) EXCEPT !.name = n] OBVIOUS
<1>9. /\ a.kind = "restarts" /\ a.vals = w /\ a.base = base /\ a.name = n
  BY <1>8 DEF Activation
<1>10. a \in Frame
  <2>1. base \in Nat /\ "restarts" \in Kinds /\ 0 \in Nat /\ 1 \in Nat /\ FALSE \in BOOLEAN
    BY <1>1 DEF Kinds
  <2>2. /\ n \in AllNames \cup {NIL} /\ NIL \in Conditions \cup {NIL}
        /\ NIL \in Callers \cup {NIL}
    OBVIOUS
  <2>3. << >> \in Seq(SUBSET Conditions) OBVIOUS
  <2>4. a = New("restarts", w, base, n, NIL, NIL, << >>, FALSE, 0)
    BY <1>8 DEF Activation, New
  <2>5. QED BY <1>7, <2>1, <2>2, <2>3, <2>4, NewFrame
<1>11. u = Append(st, a) BY <1>0, <1>2, <1>3, <1>4, <1>6, <1>8 DEF RestartCase
<1>12. PICK t : t = u OBVIOUS
<1>13. FitsAssociations(t, Len(t))
  <2>1. Below(st, a) BY <1>9 DEF Below
  <2>2. Pushed(st, a, t) BY <1>1, <1>10, <1>11, <1>12, <2>1, GoodPush
  <2>3. PICK m \in Nat : m = Len(st) BY <1>1
  <2>4. Len(t) = m + 1 /\ t[m + 1] = a /\ \A j \in 1 .. m : t[j] = st[j] BY <2>2, <2>3 DEF Pushed
  <2>5. t[m + 1].vals.associations = st[m].vals.associations
    BY <1>1, <1>2, <1>7, <1>9, <2>3, <2>4 DEF Last
  <2>6. FitsAssociations(t, m + 1) BY <1>1, <2>3, <2>4, <2>5, SameAssociations
  <2>7. QED BY <2>4, <2>6
<1>14. Good(u) /\ Len(u) = Len(st) + 1 /\ Last(u) = a /\ \A j \in 1 .. Len(st) : u[j] = st[j]
  <2>1. a.kind \notin {"signal", "handler"} /\ a.base \in 1 .. Len(st) + 1 BY <1>1, <1>9
  <2>2. a.vals.handlers = IF a.kind = "handlers" THEN <<Len(st) + 1>> \o Last(st).vals.handlers
                          ELSE Last(st).vals.handlers
    BY <1>1, <1>2, <1>7, <1>9
  <2>3. a.vals.restarts = <<Len(st) + 1>> \o Last(st).vals.restarts
    BY <1>1, <1>2, <1>3, <1>4, <1>7, <1>9
  <2>4. QED BY <1>1, <1>10, <1>11, <1>12, <1>13, <2>1, <2>2, <2>3, GoodForm
<1>15. Restarted(st, n, u) BY <1>2, <1>3, <1>4, <1>7, <1>9, <1>14 DEF Restarted, Ready, Vals
<1>16. QED BY <1>0, <1>15

(* Sets of places in a sequence have a first and a last one.                 *)
LEMMA MinMax ==
  ASSUME NEW n \in Nat, NEW S, S \subseteq 1 .. n, S # {}
  PROVE  /\ Min(S) \in S /\ \A y \in S : Min(S) <= y
         /\ Max(S) \in S /\ \A y \in S : Max(S) >= y
<1>1. S \subseteq Nat OBVIOUS
<1>2. \E x \in S : \A y \in S : x <= y BY <1>1, LeastExists
<1>3. \E x \in S : \A y \in S : x >= y
  <2> DEFINE T == {z \in Nat : n - z \in S}
  <2>1. T # {}
    <3>1. PICK y \in S : TRUE OBVIOUS
    <3>2. n - y \in Nat /\ n - (n - y) = y BY <3>1
    <3>3. n - y \in T BY <3>2
    <3>4. QED BY <3>3
  <2>2. T \subseteq Nat OBVIOUS
  <2>3. PICK z \in T : \A y \in T : z <= y BY <2>1, <2>2, LeastExists
  <2>4. z \in Nat /\ n - z \in S BY <2>3
  <2>5. ASSUME NEW y \in S PROVE n - z >= y
    <3>1. y \in Nat /\ n - y \in Nat /\ n - (n - y) = y BY <2>5
    <3>2. n - y \in T BY <3>1
    <3>3. z <= n - y BY <2>3, <3>2
    <3>4. QED BY <2>4, <3>1, <3>3
  <2>6. QED BY <2>4, <2>5
<1>4. QED BY <1>2, <1>3 DEF Min, Max

(* with-condition-restarts for the restart of the activation below.          *)
LEMMA GoodWithConditionRestarts ==
  ASSUME NEW st, Ready(st), NEW c \in Conditions, NEW base \in 1 .. Len(st),
         NEW u, u = WithConditionRestarts(st, c, Len(st), base)
  PROVE  /\ Ready(u) /\ Len(u) = Len(st) + 1 /\ \A j \in 1 .. Len(st) : u[j] = st[j]
         /\ Associates(Last(u), c)
<1>1. /\ Good(st) /\ Last(st).kind # "signal" /\ Len(st) \in Nat /\ Len(st) > 0
      /\ Vals(st) \in Value /\ Vals(st) = Last(st).vals /\ Last(st) = st[Len(st)]
  BY ReadyVals DEF Ready
<1>2. PICK v : v = Vals(st) OBVIOUS
<1>3. PICK k \in Nat : k = Len(st) BY <1>1
<1>4. PICK old : old = Associations(st, c) OBVIOUS
<1>5. PICK rs : rs = {k} \cup (IF old = {} THEN {} ELSE v.associations[Min(old)].restarts) OBVIOUS
<1>6. PICK as : as = v.associations OBVIOUS
<1>7. as \in Seq(Association) /\ DOMAIN as = 1 .. Len(as) /\ Len(as) \in Nat
  BY <1>1, <1>2, <1>6 DEF Value
<1>8. k \in 1 .. Len(st) BY <1>1, <1>3
<1>9. ASSUME NEW a \in ToSet(as), NEW r \in a.restarts
      PROVE  r + 1 \in 1 .. k /\ Associates(st[r + 1], a.cond)
  <2>1. FitsAssociations(st, k) BY <1>1, <1>8, GoodNested DEF Fits
  <2>2. st[k].vals.associations = as BY <1>1, <1>2, <1>3, <1>6
  <2>3. QED BY <1>9, <2>1, <2>2 DEF FitsAssociations
<1>10. ASSUME NEW r \in rs PROVE r \in Nat /\ (r = k \/ (r + 1 \in 1 .. k /\ Associates(st[r + 1], c)))
  <2>1. CASE r = k BY <2>1
  <2>2. CASE r # k
    <3>1. old # {} /\ r \in as[Min(old)].restarts BY <1>5, <1>6, <1>10, <2>2
    <3>2. old \subseteq 1 .. Len(as) BY <1>2, <1>4, <1>6, <1>7 DEF Associations
    <3>3. Min(old) \in old BY <1>7, <3>1, <3>2, MinMax
    <3>4. Min(old) \in DOMAIN as /\ as[Min(old)].cond = c
      BY <1>2, <1>4, <1>6, <3>3 DEF Associations
    <3>5. as[Min(old)] \in ToSet(as) BY <3>4 DEF ToSet
    <3>6. r + 1 \in 1 .. k /\ Associates(st[r + 1], c) BY <1>9, <3>1, <3>4, <3>5
    <3>7. r \in Nat
      <4>1. as[Min(old)] \in Association
        <5>1. Min(old) \in 1 .. Len(as) BY <1>7, <3>4
        <5>2. QED BY <1>7, <5>1, ElementOfSeq
      <4>2. QED BY <3>1, <4>1 DEF Association
    <3>8. QED BY <3>6, <3>7
  <2>3. QED BY <2>1, <2>2
<1>11. PICK x : x = [cond |-> c, restarts |-> rs] OBVIOUS
<1>12. x \in Association /\ x.cond = c /\ x.restarts = rs
  <2>1. rs \in SUBSET Nat BY <1>10
  <2>2. QED BY <1>11, <2>1 DEF Association
<1>13. PICK bs : bs = <<x>> \o as OBVIOUS
<1>14. bs \in Seq(Association) /\ bs # << >> /\ Head(bs) = x /\ ToSet(bs) = {x} \cup ToSet(as)
  <2>1. PICK A : A = Association OBVIOUS
  <2>2. as \in Seq(A) /\ x \in A BY <1>7, <1>12, <2>1
  <2>3. bs \in Seq(A) /\ bs # << >> /\ Head(bs) = x /\ ToSet(bs) = {x} \cup ToSet(as)
    BY <1>13, <2>2, Consed
  <2>4. QED BY <2>1, <2>3
<1>15. PICK w : w = [v EXCEPT !.associations = bs] OBVIOUS
<1>16. /\ w \in Value /\ w.handlers = v.handlers /\ w.associations = bs
       /\ w.restarts = v.restarts
  <2>1. PICK A : A = Seq(Association) OBVIOUS
  <2>2. v \in [handlers : Seq(Nat), restarts : Seq(Nat), associations : A, depth : Nat,
               level : Nat]
    BY <1>1, <1>2, <2>1 DEF Value
  <2>3. bs \in A BY <1>14, <2>1
  <2>4. w \in [handlers : Seq(Nat), restarts : Seq(Nat), associations : A, depth : Nat,
               level : Nat]
    BY <1>15, <2>2, <2>3
  <2>5. w \in Value BY <2>1, <2>4 DEF Value
  <2>6. QED BY <1>15, <2>2, <2>5
<1>17. PICK a : a = Activation("associations", w, base) OBVIOUS
<1>18. a.kind = "associations" /\ a.vals = w /\ a.base = base BY <1>17 DEF Activation
<1>19. a \in Frame
  <2>1. base \in Nat /\ "associations" \in Kinds /\ 0 \in Nat /\ FALSE \in BOOLEAN
    BY <1>1 DEF Kinds
  <2>2. /\ NIL \in AllNames \cup {NIL} /\ NIL \in Conditions \cup {NIL}
        /\ NIL \in Callers \cup {NIL}
    OBVIOUS
  <2>3. << >> \in Seq(SUBSET Conditions) OBVIOUS
  <2>4. a = New("associations", w, base, NIL, NIL, NIL, << >>, FALSE, 0)
    BY <1>17 DEF Activation, New
  <2>5. QED BY <1>16, <2>1, <2>2, <2>3, <2>4, NewFrame
<1>20. u = Append(st, a)
  BY <1>2, <1>3, <1>4, <1>5, <1>6, <1>11, <1>13, <1>15, <1>17 DEF WithConditionRestarts
<1>21. Associates(a, c) BY <1>12, <1>14, <1>16, <1>18 DEF Associates
<1>22. PICK t : t = u OBVIOUS
<1>23. FitsAssociations(t, Len(t))
  <2>1. Below(st, a) BY <1>18 DEF Below
  <2>2. Pushed(st, a, t) BY <1>1, <1>19, <1>20, <1>22, <2>1, GoodPush
  <2>3. Len(t) = k + 1 /\ t[k + 1] = a /\ \A j \in 1 .. k : t[j] = st[j] BY <1>3, <2>2 DEF Pushed
  <2>4. t[k + 1].vals.associations = bs BY <1>16, <1>18, <2>3
  <2>5. ASSUME NEW b \in ToSet(bs), NEW r \in b.restarts
        PROVE  r + 1 \in 1 .. k + 1 /\ Associates(t[r + 1], b.cond)
    <3>1. CASE b = x
      <4>1. CASE r = k BY <1>12, <1>21, <2>3, <3>1, <4>1
      <4>2. CASE r # k
        <5>1. r + 1 \in 1 .. k /\ Associates(st[r + 1], c) BY <1>10, <1>12, <2>5, <3>1, <4>2
        <5>2. QED BY <1>12, <2>3, <3>1, <5>1
      <4>3. QED BY <4>1, <4>2
    <3>2. CASE b \in ToSet(as)
      <4>1. r + 1 \in 1 .. k /\ Associates(st[r + 1], b.cond) BY <1>9, <2>5, <3>2
      <4>2. QED BY <2>3, <4>1
    <3>3. QED BY <1>14, <3>1, <3>2
  <2>6. FitsAssociations(t, k + 1) BY <2>4, <2>5 DEF FitsAssociations
  <2>7. QED BY <2>3, <2>6
<1>24. Good(u) /\ Len(u) = Len(st) + 1 /\ Last(u) = a /\ \A j \in 1 .. Len(st) : u[j] = st[j]
  <2>1. a.kind \notin {"signal", "handler"} /\ a.base \in 1 .. Len(st) + 1 BY <1>1, <1>18
  <2>2. a.vals.handlers = IF a.kind = "handlers" THEN <<Len(st) + 1>> \o Last(st).vals.handlers
                          ELSE Last(st).vals.handlers
    BY <1>1, <1>2, <1>16, <1>18
  <2>3. a.kind # "restarts" /\ a.vals.restarts = Last(st).vals.restarts
    BY <1>1, <1>2, <1>16, <1>18
  <2>4. QED BY <1>1, <1>19, <1>20, <1>22, <1>23, <2>1, <2>2, <2>3, GoodForm
<1>25. QED BY <1>18, <1>21, <1>24 DEF Ready

(* The pairs that Handlers() has.                                            *)
LEMMA HandlersOf ==
  ASSUME NEW st, NEW fs, NEW c, NEW h
  PROVE  h \in Handlers(st, fs, c) <=>
           \E f \in fs : \E i \in DOMAIN st[f].cluster :
             /\ h = <<f, i>> /\ h[1] = f /\ h[2] = i
             /\ c \in st[f].cluster[i]
<1>1. ASSUME h \in Handlers(st, fs, c)
      PROVE  \E f \in fs : \E i \in DOMAIN st[f].cluster :
               /\ h = <<f, i>> /\ h[1] = f /\ h[2] = i
               /\ c \in st[f].cluster[i]
  <2>1. /\ h \in UNION {{f} \X DOMAIN st[f].cluster : f \in fs}
        /\ c \in st[h[1]].cluster[h[2]]
    BY <1>1 DEF Handlers
  <2>2. PICK f \in fs : h \in {f} \X DOMAIN st[f].cluster BY <2>1
  <2>3. PICK i \in DOMAIN st[f].cluster : h = <<f, i>> BY <2>2
  <2>4. h[1] = f /\ h[2] = i BY <2>3
  <2>5. QED BY <2>1, <2>3, <2>4
<1>2. ASSUME NEW f \in fs, NEW i \in DOMAIN st[f].cluster, h = <<f, i>>, h[1] = f, h[2] = i,
             c \in st[f].cluster[i]
      PROVE  h \in Handlers(st, fs, c)
  <2>1. h \in {f} \X DOMAIN st[f].cluster BY <1>2
  <2>2. h \in UNION {{g} \X DOMAIN st[g].cluster : g \in fs} BY <2>1
  <2>3. QED BY <1>2, <2>2 DEF Handlers
<1>3. QED BY <1>1, <1>2

(* signal() is called.                                                       *)
LEMMA GoodSignal ==
  ASSUME NEW st, Ready(st), NEW c \in Conditions, NEW caller \in Callers,
         NEW base \in 1 .. Len(st), NEW u, u = Signal(st, c, caller, base),
         caller \in {"warn", "cerror"} =>
           Len(st) > 1 /\ Associates(Last(st), c) /\ st[Len(st) - 1].kind = "restarts"
  PROVE  Good(u)
<1>1. /\ Good(st) /\ Last(st).kind # "signal" /\ Len(st) \in Nat /\ Len(st) > 0
      /\ Vals(st) \in Value /\ Vals(st) = Last(st).vals /\ Last(st) = st[Len(st)]
  BY ReadyVals DEF Ready
<1>2. PICK k \in Nat : k = Len(st) /\ k > 0 /\ k \in 1 .. Len(st) BY <1>1
<1>3. PICK v : v = Vals(st) OBVIOUS
<1>4. PICK a : a = New("signal", v, base, NIL, c, caller, << >>, FALSE, 0) OBVIOUS
<1>5. u = Append(st, a)
  <2>1. [Activation("signal", v, base) EXCEPT !.cond = c, !.caller = caller] = a
    <3>1. Signalled("signal", v, base, c, caller) = a BY <1>4, SignalledNew
    <3>2. QED BY <3>1 DEF Signalled
  <2>2. QED BY <1>3, <2>1 DEF Signal
<1>6. a \in Frame
  <2>1. base \in Nat /\ "signal" \in Kinds /\ 0 \in Nat /\ FALSE \in BOOLEAN
    BY <1>1 DEF Kinds
  <2>2. /\ NIL \in AllNames \cup {NIL} /\ c \in Conditions \cup {NIL}
        /\ caller \in Callers \cup {NIL}
    OBVIOUS
  <2>3. << >> \in Seq(SUBSET Conditions) OBVIOUS
  <2>4. QED BY <1>1, <1>3, <1>4, <2>1, <2>2, <2>3, NewFrame
<1>7. /\ a.kind = "signal" /\ a.vals = v /\ a.base = base /\ a.cond = c /\ a.caller = caller
      /\ a.from = 0 /\ a.next = 1 /\ a.asked = << >>
  BY <1>4 DEF New
<1>8. Pushed(st, a, u)
  <2>1. Below(st, a) BY <1>7 DEF Below
  <2>2. QED BY <1>1, <1>5, <1>6, <2>1, GoodPush
<1>9. PICK at, bt : at = InEffect(st) /\ bt = InEffect(u) OBVIOUS
<1>10. /\ Len(u) = k + 1 /\ u[k + 1] = a /\ \A j \in 1 .. k : u[j] = st[j]
       /\ \A j \in 0 .. k : bt[j] = at[j]
       /\ Fits(u, bt, k + 1) => Good(u)
  BY <1>2, <1>8, <1>9 DEF Pushed
<1>11. v.handlers = at[k]
  <2>1. FitsHandlers(st[k], at[k]) BY <1>1, <1>2, <1>9, GoodNested DEF Fits
  <2>2. QED BY <1>1, <1>2, <1>3, <2>1 DEF FitsHandlers
<1>12. FitsSignal(a, u[k], bt[k]) /\ FitsWalk(a, bt, bt[k])
  BY <1>1, <1>2, <1>7, <1>10, <1>11 DEF FitsSignal, FitsWalk
<1>13. FitsAsked(u, a, bt[k])
  <2>1. PICK e : e = bt[k] OBVIOUS
  <2>2. a.vals.handlers = e BY <1>2, <1>7, <1>10, <1>11, <2>1
  <2>3. \A h \in Handlers(u, ToSet(e), c) : Due(a, h)
    <3>1. SUFFICES ASSUME NEW h \in Handlers(u, ToSet(e), c) PROVE Due(a, h) OBVIOUS
    <3>2. h[1] \in ToSet(e)
      <4>1. PICK fs : fs = ToSet(e) OBVIOUS
      <4>2. h \in Handlers(u, fs, c) BY <3>1, <4>1
      <4>3. h[1] \in fs BY <4>2, HandlersOf
      <4>4. QED BY <4>1, <4>3
    <3>3. QED BY <2>2, <3>2 DEF Due
  <2>4. ToSet(a.asked) = {} /\ DOMAIN a.asked = {} BY <1>7 DEF ToSet
  <2>5. QED BY <1>7, <2>1, <2>3, <2>4 DEF FitsAsked
<1>14. FitsRestarts(u, k + 1)
  <2>1. u[k + 1].kind # "restarts" /\ u[k + 1].vals.restarts = st[k].vals.restarts
    BY <1>1, <1>2, <1>3, <1>7, <1>10
  <2>2. QED BY <1>1, <1>2, <1>10, <2>1, NewRestarts
<1>15. FitsAssociations(u, k + 1)
  <2>1. u[k + 1].vals.associations = st[k].vals.associations
    BY <1>1, <1>2, <1>3, <1>7, <1>10
  <2>2. QED BY <1>1, <1>2, <1>10, <2>1, SameAssociations
<1>16. FitsOwn(u, k + 1)
  <2>1. SUFFICES ASSUME caller \in {"warn", "cerror"}
                 PROVE  k + 1 > 2 /\ Associates(u[k], c) /\ u[k - 1].kind = "restarts"
    BY <1>7, <1>10 DEF FitsOwn
  <2>2. k > 1 /\ Associates(st[k], c) /\ st[k - 1].kind = "restarts" BY <1>1, <1>2, <2>1
  <2>3. u[k] = st[k] /\ u[k - 1] = st[k - 1] BY <1>10, <2>2
  <2>4. QED BY <2>2, <2>3
<1>17. FitsBase(a, k + 1) /\ FitsHandlers(a, bt[k + 1])
  BY <1>2, <1>7 DEF FitsBase, FitsHandlers
<1>18. k + 1 > 1 /\ k + 1 - 1 = k BY <1>2
<1>19. Fits(u, bt, k + 1)
  BY <1>10, <1>12, <1>13, <1>14, <1>15, <1>16, <1>17, <1>18 DEF Fits
<1>20. QED BY <1>10, <1>19

(* A call inside of a restart that is associated with its condition.         *)
LEMMA GoodMunged ==
  ASSUME NEW st, Ready(st), NEW n \in AllNames, NEW c \in Conditions, NEW base \in 1 .. Len(st),
         NEW u, u = Munged(st, n, c, base)
  PROVE  /\ Ready(u) /\ Len(u) = Len(st) + 2 /\ Len(u) > 1 /\ base \in 1 .. Len(u)
         /\ Associates(Last(u), c) /\ u[Len(u) - 1].kind = "restarts"
<1>1. Len(st) \in Nat /\ Len(st) > 0 BY ReadyVals DEF Ready
<1>2. PICK t : t = RestartCase(st, n, base) OBVIOUS
<1>3. Ready(t) /\ Len(t) = Len(st) + 1 /\ Last(t).kind = "restarts"
  <2>1. Restarted(st, n, t) BY <1>2, GoodRestartCase
  <2>2. QED BY <2>1 DEF Restarted
<1>4. base \in 1 .. Len(t) /\ Len(t) \in 1 .. Len(t) BY <1>1, <1>3
<1>5. u = WithConditionRestarts(t, c, Len(t), base) BY <1>2 DEF Munged
<1>6. /\ Ready(u) /\ Len(u) = Len(t) + 1 /\ \A j \in 1 .. Len(t) : u[j] = t[j]
      /\ Associates(Last(u), c)
  BY <1>3, <1>4, <1>5, GoodWithConditionRestarts
<1>7. Len(u) - 1 = Len(t) /\ u[Len(t)].kind = "restarts" BY <1>1, <1>3, <1>4, <1>6 DEF Last
<1>8. Len(u) = Len(st) + 2 /\ Len(u) > 1 /\ base \in 1 .. Len(u) BY <1>1, <1>3, <1>6
<1>9. QED BY <1>6, <1>7, <1>8

(* find-restart finds the restart that cerror has just established.          *)
LEMMA FindsNewest ==
  ASSUME NEW st, Ready(st), NEW base \in 1 .. Len(st),
         NEW u, u = RestartCase(st, "continue", base)
  PROVE  find_restart(u, "continue", NIL) = Len(u)
<1>1. /\ Good(st) /\ Len(st) \in Nat /\ Len(st) > 0 /\ Vals(st) \in Value
  BY ReadyVals DEF Ready
<1>2. /\ Len(u) = Len(st) + 1 /\ Last(u).name = "continue"
      /\ Vals(u).restarts = <<Len(st) + 1>> \o Vals(st).restarts
  <2>1. "continue" \in AllNames BY DEF AllNames
  <2>2. Restarted(st, "continue", u) BY <2>1, GoodRestartCase
  <2>3. QED BY <2>2 DEF Restarted
<1>3. PICK rs : rs = Vals(u).restarts OBVIOUS
<1>4. rs \in Seq(Nat) /\ Len(rs) \in Nat /\ 1 \in 1 .. Len(rs) /\ rs[1] = Len(u)
  <2>1. Vals(st).restarts \in Seq(Nat) BY <1>1 DEF Value
  <2>2. PICK m \in Nat : m = Len(st) + 1 BY <1>1
  <2>3. rs = <<m>> \o Vals(st).restarts BY <1>2, <1>3, <2>2
  <2>4. rs \in Seq(Nat) /\ Len(rs) = Len(Vals(st).restarts) + 1 /\ rs[1] = m
    BY <2>1, <2>3, Consed
  <2>5. QED BY <1>2, <2>1, <2>2, <2>4
<1>5. PICK found : found = {i \in DOMAIN rs : /\ rs[i] \in compute_restarts(u, NIL)
                                              /\ u[rs[i]].name = "continue"}
  OBVIOUS
<1>6. 1 \in found /\ found \subseteq 1 .. Len(rs)
  <2>1. DOMAIN rs = 1 .. Len(rs) BY <1>4
  <2>2. rs[1] \in compute_restarts(u, NIL)
    <3>1. rs[1] \in ToSet(rs) BY <1>4, <2>1 DEF ToSet
    <3>2. QED BY <1>3, <3>1 DEF compute_restarts
  <2>3. u[rs[1]].name = "continue" BY <1>2, <1>4 DEF Last
  <2>4. QED BY <1>4, <1>5, <2>1, <2>2, <2>3
<1>7. Min(found) = 1
  <2>1. Min(found) \in found /\ \A y \in found : Min(found) <= y BY <1>4, <1>6, MinMax
  <2>2. Min(found) <= 1 /\ Min(found) \in 1 .. Len(rs) BY <1>6, <2>1
  <2>3. QED BY <1>4, <2>2
<1>8. found # {} BY <1>6
<1>9. find_restart(u, "continue", NIL) = IF found = {} THEN 0 ELSE rs[Min(found)]
  BY <1>3, <1>5 DEF find_restart
<1>10. QED BY <1>4, <1>7, <1>8, <1>9

(* signal(), error(), warn() and cerror()                                    *)
LEMMA GoodCall ==
  ASSUME NEW st, Ready(st), NEW c \in Conditions, NEW caller \in Callers,
         NEW base \in 1 .. Len(st), NEW u, u = Call(st, caller, c, base)
  PROVE  Good(u)
<1>1. CASE caller \in {"signal", "error"}
  <2>1. u = Signal(st, c, caller, base) BY <1>1 DEF Call
  <2>2. caller \notin {"warn", "cerror"} BY <1>1
  <2>3. QED BY <2>1, <2>2, GoodSignal
<1>2. CASE caller = "warn"
  <2>1. PICK t : t = Munged(st, "muffle-warning", c, base) OBVIOUS
  <2>2. "muffle-warning" \in AllNames BY DEF AllNames
  <2>3. /\ Ready(t) /\ Len(t) > 1 /\ base \in 1 .. Len(t)
        /\ Associates(Last(t), c) /\ t[Len(t) - 1].kind = "restarts"
    BY <2>1, <2>2, GoodMunged
  <2>4. u = Signal(t, c, caller, base) BY <1>2, <2>1 DEF Call
  <2>5. QED BY <2>3, <2>4, GoodSignal
<1>3. CASE caller = "cerror"
  <2>1. PICK t : t = Munged(st, "continue", c, base) OBVIOUS
  <2>2. "continue" \in AllNames BY DEF AllNames
  <2>3. /\ Ready(t) /\ Len(t) > 1 /\ base \in 1 .. Len(t)
        /\ Associates(Last(t), c) /\ t[Len(t) - 1].kind = "restarts"
    BY <2>1, <2>2, GoodMunged
  <2>4. Cerror(st, c, base) = Signal(t, c, "cerror", base)
    <3>1. PICK x : x = RestartCase(st, "continue", base) OBVIOUS
    <3>2. find_restart(x, "continue", NIL) = Len(x) BY <3>1, FindsNewest
    <3>3. t = WithConditionRestarts(x, c, find_restart(x, "continue", NIL), base)
      BY <2>1, <3>1, <3>2 DEF Munged
    <3>4. QED BY <3>1, <3>3 DEF Cerror
  <2>5. u = Signal(t, c, caller, base) BY <1>3, <2>4 DEF Call
  <2>6. QED BY <2>3, <2>5, GoodSignal
<1>4. QED BY <1>1, <1>2, <1>3 DEF Callers

(* handler-bind and handler-case                                             *)
LEMMA GoodHandlers ==
  ASSUME NEW st, Ready(st), NEW cluster \in Seq(SUBSET Conditions), NEW exits \in BOOLEAN,
         NEW u,
         u = Append(st, [Activation("handlers",
               [Last(st).vals EXCEPT !.handlers = <<Len(st) + 1>> \o @], Len(st))
               EXCEPT !.cluster = cluster, !.exits = exits])
  PROVE  Good(u)
<1>1. /\ Good(st) /\ Last(st).kind # "signal" /\ Len(st) \in Nat /\ Len(st) > 0
      /\ Last(st).vals \in Value
  BY ReadyVals DEF Ready
<1>2. PICK v : v = Last(st).vals OBVIOUS
<1>3. PICK k \in Nat : k = Len(st) + 1 BY <1>1
<1>4. PICK hs : hs = <<k>> \o v.handlers OBVIOUS
<1>5. hs \in Seq(Nat)
  <2>1. v.handlers \in Seq(Nat) BY <1>1, <1>2 DEF Value
  <2>2. QED BY <1>4, <2>1, Consed
<1>6. PICK w : w = [v EXCEPT !.handlers = hs] OBVIOUS
<1>7. /\ w \in Value /\ w.handlers = hs /\ w.associations = v.associations
      /\ w.restarts = v.restarts
  BY <1>1, <1>2, <1>5, <1>6 DEF Value
<1>8. PICK m \in Nat : m = Len(st) BY <1>1
<1>9. PICK a : a = New("handlers", w, m, NIL, NIL, NIL, cluster, exits, 0) OBVIOUS
<1>10. [Activation("handlers", w, m) EXCEPT !.cluster = cluster, !.exits = exits] = a
  <2>1. Clustered("handlers", w, m, cluster, exits) = a BY <1>9, ClusteredNew
  <2>2. QED BY <2>1 DEF Clustered
<1>11. u = Append(st, a) BY <1>2, <1>3, <1>4, <1>6, <1>8, <1>10
<1>12. a \in Frame
  <2>1. "handlers" \in Kinds /\ 0 \in Nat BY DEF Kinds
  <2>2. /\ NIL \in AllNames \cup {NIL} /\ NIL \in Conditions \cup {NIL}
        /\ NIL \in Callers \cup {NIL}
    OBVIOUS
  <2>3. QED BY <1>7, <1>9, <2>1, <2>2, NewFrame
<1>13. a.kind = "handlers" /\ a.vals = w /\ a.base = m BY <1>9 DEF New
<1>14. PICK t : t = u OBVIOUS
<1>15. FitsAssociations(t, Len(t))
  <2>1. Below(st, a) BY <1>13 DEF Below
  <2>2. Pushed(st, a, t) BY <1>1, <1>11, <1>12, <1>14, <2>1, GoodPush
  <2>3. Len(t) = m + 1 /\ t[m + 1] = a /\ \A j \in 1 .. m : t[j] = st[j] BY <1>8, <2>2 DEF Pushed
  <2>4. t[m + 1].vals.associations = st[m].vals.associations
    BY <1>2, <1>7, <1>8, <1>13, <2>3 DEF Last
  <2>5. FitsAssociations(t, m + 1) BY <1>1, <1>8, <2>3, <2>4, SameAssociations
  <2>6. QED BY <2>3, <2>5
<1>16. QED
  <2>1. a.kind \notin {"signal", "handler"} /\ a.base \in 1 .. Len(st) + 1 BY <1>1, <1>8, <1>13
  <2>2. a.vals.handlers = IF a.kind = "handlers" THEN <<Len(st) + 1>> \o Last(st).vals.handlers
                          ELSE Last(st).vals.handlers
    BY <1>2, <1>3, <1>4, <1>7, <1>13
  <2>3. a.kind # "restarts" /\ a.vals.restarts = Last(st).vals.restarts
    BY <1>2, <1>7, <1>13
  <2>4. QED BY <1>1, <1>11, <1>12, <1>14, <1>15, <2>1, <2>2, <2>3, GoodForm

(* invoke-debugger                                                           *)
LEMMA GoodDebugger ==
  ASSUME NEW st, Ready(st), NEW c \in Conditions, NEW caller \in Callers, NEW depth \in Nat,
         NEW base \in 1 .. Len(st) + 1, NEW u, u = InvokeDebugger(st, c, caller, base, depth)
  PROVE  Good(u)
<1>1. /\ Good(st) /\ Last(st).kind # "signal" /\ Len(st) \in Nat /\ Len(st) > 0
      /\ Vals(st) \in Value /\ Vals(st) = Last(st).vals
  BY ReadyVals DEF Ready
<1>2. PICK v : v = Vals(st) OBVIOUS
<1>3. PICK k \in Nat : k = Len(st) + 1 BY <1>1
<1>4. PICK rs : rs = IF v.level > 0 THEN <<k>> \o v.restarts ELSE v.restarts OBVIOUS
<1>5. rs \in Seq(Nat)
  <2>1. v.restarts \in Seq(Nat) BY <1>1, <1>2 DEF Value
  <2>2. <<k>> \o v.restarts \in Seq(Nat) BY <2>1, Consed
  <2>3. QED BY <1>4, <2>1, <2>2
<1>6. PICK w : w = [v EXCEPT !.depth = depth, !.level = @ + 1, !.restarts = rs] OBVIOUS
<1>7. /\ w \in Value /\ w.handlers = v.handlers /\ w.associations = v.associations
      /\ w.restarts = rs
  <2>1. v.level \in Nat BY <1>1, <1>2 DEF Value
  <2>2. PICK A : A = Seq(Association) OBVIOUS
  <2>3. v \in [handlers : Seq(Nat), restarts : Seq(Nat), associations : A, depth : Nat,
               level : Nat]
    BY <1>1, <1>2, <2>2 DEF Value
  <2>4. w \in [handlers : Seq(Nat), restarts : Seq(Nat), associations : A, depth : Nat,
               level : Nat]
    <3>1. PICK x : x = [v EXCEPT !.depth = depth] OBVIOUS
    <3>2. PICK y : y = [x EXCEPT !.level = v.level + 1] OBVIOUS
    <3>3. x \in [handlers : Seq(Nat), restarts : Seq(Nat), associations : A, depth : Nat,
                 level : Nat]
      BY <2>3, <3>1
    <3>4. y \in [handlers : Seq(Nat), restarts : Seq(Nat), associations : A, depth : Nat,
                 level : Nat]
      BY <2>1, <3>2, <3>3
    <3>5. w = [y EXCEPT !.restarts = rs] BY <1>6, <2>3, <3>1, <3>2
    <3>6. QED BY <1>5, <3>4, <3>5
  <2>5. w \in Value BY <2>2, <2>4 DEF Value
  <2>6. QED BY <1>6, <2>3, <2>5
<1>8. PICK a : a = New("debugger", w, base, "abort", c, caller, << >>, FALSE, 0) OBVIOUS
<1>9. [Activation("debugger", w, base) EXCEPT !.name = "abort", !.cond = c, !.caller = caller] = a
  <2>1. Debugged("debugger", w, base, "abort", c, caller) = a BY <1>8, DebuggedNew
  <2>2. QED BY <2>1 DEF Debugged
<1>10. u = Append(st, a)
  <2>1. w = [v EXCEPT !.depth = depth, !.level = @ + 1,
                      !.restarts = IF v.level > 0 THEN <<Len(st) + 1>> \o @ ELSE @]
    BY <1>3, <1>4, <1>6
  <2>2. QED BY <1>2, <1>9, <2>1 DEF InvokeDebugger
<1>11. a \in Frame
  <2>1. base \in Nat /\ "debugger" \in Kinds /\ 0 \in Nat /\ FALSE \in BOOLEAN
    BY <1>1 DEF Kinds
  <2>2. /\ "abort" \in AllNames \cup {NIL} /\ c \in Conditions \cup {NIL}
        /\ caller \in Callers \cup {NIL}
    BY DEF AllNames
  <2>3. << >> \in Seq(SUBSET Conditions) OBVIOUS
  <2>4. QED BY <1>7, <1>8, <2>1, <2>2, <2>3, NewFrame
<1>12. a.kind = "debugger" /\ a.vals = w /\ a.base = base BY <1>8 DEF New
<1>13. PICK t : t = u OBVIOUS
<1>14. FitsAssociations(t, Len(t))
  <2>1. Below(st, a) BY <1>12 DEF Below
  <2>2. Pushed(st, a, t) BY <1>1, <1>10, <1>11, <1>13, <2>1, GoodPush
  <2>3. PICK m \in Nat : m = Len(st) BY <1>1
  <2>4. Len(t) = m + 1 /\ t[m + 1] = a /\ \A j \in 1 .. m : t[j] = st[j] BY <2>2, <2>3 DEF Pushed
  <2>5. t[m + 1].vals.associations = st[m].vals.associations
    BY <1>1, <1>2, <1>7, <1>12, <2>3, <2>4 DEF Last
  <2>6. FitsAssociations(t, m + 1) BY <1>1, <2>3, <2>4, <2>5, SameAssociations
  <2>7. QED BY <2>4, <2>6
<1>15. QED
  <2>1. a.kind \notin {"signal", "handler"} /\ a.base \in 1 .. Len(st) + 1 BY <1>1, <1>12
  <2>2. a.vals.handlers = IF a.kind = "handlers" THEN <<Len(st) + 1>> \o Last(st).vals.handlers
                          ELSE Last(st).vals.handlers
    BY <1>1, <1>2, <1>7, <1>12
  <2>3. \/ a.kind # "restarts" /\ a.vals.restarts = Last(st).vals.restarts
        \/ a.vals.restarts = <<Len(st) + 1>> \o Last(st).vals.restarts
    BY <1>1, <1>2, <1>3, <1>4, <1>7, <1>12
  <2>4. QED BY <1>1, <1>10, <1>11, <1>13, <1>14, <2>1, <2>2, <2>3, GoodForm

------------------------------------------------------------------------------
(* The loop of signal().                                                     *)

(* Clusters do not change.                                                   *)
LEMMA HandlersLocal ==
  ASSUME NEW st, NEW u, NEW fs, NEW c, \A f \in fs : st[f] = u[f]
  PROVE  Handlers(st, fs, c) = Handlers(u, fs, c)
<1>1. UNION {{f} \X DOMAIN st[f].cluster : f \in fs} = UNION {{f} \X DOMAIN u[f].cluster : f \in fs}
  OBVIOUS
<1>2. ASSUME NEW h \in UNION {{f} \X DOMAIN st[f].cluster : f \in fs}
      PROVE  st[h[1]] = u[h[1]]
  <2>1. PICK f \in fs : h \in {f} \X DOMAIN st[f].cluster OBVIOUS
  <2>2. h[1] = f BY <2>1
  <2>3. QED BY <2>2
<1>3. QED BY <1>1, <1>2 DEF Handlers

(* What may change in an activation of signal().                             *)
SameSignal(s, b) ==
  /\ b.kind = "signal" /\ b.base = s.base /\ b.cond = s.cond /\ b.caller = s.caller
  /\ b.vals.restarts = s.vals.restarts /\ b.vals.associations = s.vals.associations

FitsLoop(st, at, b, below, e) ==
  FitsSignal(b, below, e) /\ FitsWalk(b, at, e) /\ FitsAsked(st, b, e)

Stepped(st, b, u) ==
  /\ Good(u) /\ Len(u) = Len(st) /\ u[Len(st)] = b
  /\ \A j \in 1 .. Len(st) - 1 : u[j] = st[j]
  /\ \A j \in 0 .. Len(st) - 1 : InEffect(u)[j] = InEffect(st)[j]

(* A step of the loop.                                                       *)
LEMMA GoodStep ==
  ASSUME NEW st, Good(st), NEW k \in Nat, k = Len(st), st[k].kind = "signal", NEW b \in Frame,
         SameSignal(st[k], b),
         FitsLoop(st, InEffect(st), b, st[k - 1], InEffect(st)[k - 1])
  PROVE  Stepped(st, b, [st EXCEPT ![k] = b])
<1>1. k > 0 /\ k \in 1 .. Len(st) /\ st \in Seq(Frame) BY GoodNested DEF Good
<1>2. Fits(st, InEffect(st), k) BY <1>1, GoodNested
<1>3. k > 1 BY <1>2 DEF Fits
<1>4. PICK m \in Nat : m = k - 1 /\ m \in 1 .. Len(st) /\ k = m + 1 BY <1>1, <1>3
<1>5. PICK t : t = SubSeq(st, 1, m) OBVIOUS
<1>6. /\ Good(t) /\ Len(t) = m /\ \A j \in 1 .. m : t[j] = st[j]
      /\ \A j \in 0 .. m : InEffect(t)[j] = InEffect(st)[j]
  <2>1. Cut(st, m, t) BY <1>4, <1>5, GoodPrefix
  <2>2. QED BY <2>1 DEF Cut
<1>7. PICK u : u = [st EXCEPT ![k] = b] OBVIOUS
<1>8. u = Append(t, b)
  <2>1. t \in Seq(Frame) BY <1>6 DEF Good
  <2>2. PICK x : x = Append(t, b) OBVIOUS
  <2>3. /\ x \in Seq(Frame) /\ Len(x) = m + 1 /\ x[m + 1] = b
        /\ \A i \in 1 .. m : x[i] = t[i]
    BY <1>6, <2>1, <2>2, AppendProperties
  <2>4. /\ u \in Seq(Frame) /\ Len(u) = k
        /\ \A j \in 1 .. k : u[j] = IF j = k THEN b ELSE st[j]
    BY <1>1, <1>7, ExceptSeq
  <2>5. \A i \in 1 .. Len(u) : u[i] = x[i] BY <1>4, <1>6, <2>3, <2>4
  <2>6. Len(u) = Len(x) BY <1>4, <2>3, <2>4
  <2>7. QED BY <2>2, <2>3, <2>4, <2>5, <2>6, SeqEqual
<1>9. Pushed(t, b, u)
  <2>1. Below(t, b) BY DEF Below, SameSignal
  <2>2. QED BY <1>6, <1>8, <2>1, GoodPush
<1>10. PICK at, bt, e : at = InEffect(st) /\ bt = InEffect(u) /\ e = at[m] OBVIOUS
<1>11. /\ Len(u) = k /\ u[k] = b /\ (\A j \in 1 .. m : u[j] = st[j])
       /\ (\A j \in 0 .. m : bt[j] = at[j])
       /\ Fits(u, bt, k) => Good(u)
  BY <1>4, <1>6, <1>9, <1>10 DEF Pushed
<1>12. ShapeOf(st, at, m, e) BY <1>4, <1>10, GoodNested DEF Shape
<1>13. \A f \in ToSet(e) : f \in 1 .. m BY <1>12 DEF ShapeOf
<1>14. FitsSignal(b, st[m], e) /\ FitsWalk(b, at, e) /\ FitsAsked(st, b, e)
  BY <1>4, <1>10 DEF FitsLoop
<1>15. FitsSignal(b, u[m], bt[m])
  <2>1. u[m] = st[m] /\ bt[m] = e BY <1>4, <1>10, <1>11
  <2>2. QED BY <1>14, <2>1
<1>16. FitsWalk(b, bt, bt[m])
  <2>1. bt[m] = e BY <1>4, <1>10, <1>11
  <2>2. b.from \in ToSet(e) => bt[b.from - 1] = at[b.from - 1]
    <3>1. SUFFICES ASSUME b.from \in ToSet(e) PROVE bt[b.from - 1] = at[b.from - 1] OBVIOUS
    <3>2. PICK i \in Nat : i = b.from - 1 /\ i \in 0 .. m BY <1>13, <3>1
    <3>3. QED BY <1>11, <3>2
  <2>3. QED BY <1>14, <2>1, <2>2 DEF FitsWalk
<1>17. FitsAsked(u, b, bt[m])
  <2>1. bt[m] = e BY <1>4, <1>10, <1>11
  <2>2. PICK fs : fs = ToSet(e) OBVIOUS
  <2>3. \A f \in fs : st[f] = u[f] BY <1>11, <1>13, <2>2
  <2>4. Handlers(st, fs, b.cond) = Handlers(u, fs, b.cond) BY <2>3, HandlersLocal
  <2>5. QED BY <1>14, <2>1, <2>2, <2>4 DEF FitsAsked
<1>18. FitsRestarts(u, k)
  <2>1. FitsRestarts(st, k) BY <1>2 DEF Fits
  <2>2. u[k].vals.restarts = st[k].vals.restarts BY <1>11 DEF SameSignal
  <2>3. \A j \in 1 .. k : u[j].kind = st[j].kind
    <3>1. \A j \in 1 .. k : j = k \/ j \in 1 .. m BY <1>4
    <3>2. QED BY <1>11, <3>1 DEF SameSignal
  <2>4. QED BY <2>1, <2>2, <2>3 DEF FitsRestarts
<1>19. FitsAssociations(u, k)
  <2>1. FitsAssociations(st, k) BY <1>2 DEF Fits
  <2>2. u[k].vals.associations = st[k].vals.associations BY <1>11 DEF SameSignal
  <2>3. ASSUME NEW j \in 1 .. k, NEW c, Associates(st[j], c) PROVE Associates(u[j], c)
    <3>1. j # k BY <2>3 DEF Associates
    <3>2. j \in 1 .. m BY <1>4, <3>1
    <3>3. QED BY <1>11, <2>3, <3>2
  <2>4. QED BY <2>1, <2>2, <2>3 DEF FitsAssociations
<1>20. FitsOwn(u, k)
  <2>1. FitsOwn(st, k) BY <1>2 DEF Fits
  <2>2. k > 2 => u[k - 1] = st[k - 1] /\ u[k - 2] = st[k - 2] BY <1>4, <1>11
  <2>3. u[k].cond = st[k].cond /\ u[k].caller = st[k].caller BY <1>11 DEF SameSignal
  <2>4. QED BY <2>1, <2>2, <2>3 DEF FitsOwn
<1>21. FitsBase(b, k) /\ FitsHandlers(b, bt[k])
  <2>1. FitsBase(st[k], k) BY <1>2 DEF Fits
  <2>2. QED BY <2>1 DEF FitsBase, FitsHandlers, SameSignal
<1>22. Fits(u, bt, k)
  <2>1. k - 1 = m BY <1>4
  <2>2. QED BY <1>3, <1>11, <1>15, <1>16, <1>17, <1>18, <1>19, <1>20, <1>21, <2>1 DEF Fits
<1>23. QED BY <1>4, <1>7, <1>10, <1>11, <1>22 DEF Stepped

(* Where the loop is: H are the clusters still to come.                      *)
Walk(st, k, s, at, e, H) ==
  /\ k \in Nat /\ k = Len(st) /\ k > 1 /\ s = st[k] /\ at = InEffect(st) /\ e = at[k - 1]
  /\ H = s.vals.handlers /\ s \in Frame /\ s.kind = "signal"
  /\ FitsLoop(st, at, s, st[k - 1], e)
  /\ \A f \in ToSet(e) : f \in 1 .. k - 1
  /\ s.from \in Nat /\ s.next \in Nat /\ s.next > 0
  /\ H \in Seq(Nat) /\ ToSet(H) \subseteq ToSet(e)
  /\ s.from = 0 => H = e
  /\ s.from # 0 => /\ s.from \in ToSet(e)
                   /\ \A g \in ToSet(e) : g \in ToSet(H) <=> g < s.from
  /\ H # << >> => /\ Head(H) \in ToSet(H) /\ Tail(H) = at[Head(H) - 1]
                  /\ Tail(H) \in Seq(Nat) /\ ToSet(H) = {Head(H)} \cup ToSet(Tail(H))

(* It is so at any signal.                                                   *)
LEMMA WalkHolds ==
  ASSUME NEW st, Good(st), Last(st).kind = "signal"
  PROVE  \E k, s, at, e, H : Walk(st, k, s, at, e, H)
<1>1. PICK k \in Nat : k = Len(st) /\ k > 0 /\ k \in 1 .. Len(st) BY GoodNested
<1>2. PICK s : s = st[k] OBVIOUS
<1>3. PICK at : at = InEffect(st) OBVIOUS
<1>4. s.kind = "signal" /\ s \in Frame /\ Fits(st, at, k)
  BY <1>1, <1>2, <1>3, GoodNested DEF Last
<1>5. k > 1 BY <1>2, <1>4 DEF Fits
<1>6. PICK m \in Nat : m = k - 1 /\ m \in 0 .. Len(st) /\ m > 0 BY <1>1, <1>5
<1>7. PICK e : e = at[m] OBVIOUS
<1>8. FitsSignal(s, st[m], e) /\ FitsWalk(s, at, e) /\ FitsAsked(st, s, e)
  BY <1>2, <1>4, <1>6, <1>7 DEF Fits
<1>9. ShapeOf(st, at, m, e) BY <1>3, <1>6, <1>7, GoodNested DEF Shape
<1>10. PICK H : H = s.vals.handlers OBVIOUS
<1>11. H \in Seq(Nat) /\ s.from \in Nat /\ s.next \in Nat /\ s.next > 0
  BY <1>4, <1>8, <1>10 DEF Frame, Value, FitsSignal
<1>12. \A f \in ToSet(e) : f \in 1 .. m /\ f \in Nat BY <1>9 DEF ShapeOf
<1>13. s.from = 0 => H = e BY <1>8, <1>10 DEF FitsSignal
<1>14. ASSUME s.from # 0
       PROVE  /\ s.from \in ToSet(e) /\ s.from - 1 \in 0 .. Len(st) /\ H = at[s.from - 1]
              /\ \A g \in Nat : (g \in ToSet(e) /\ g < s.from) <=> g \in ToSet(H)
  <2>1. s.from \in ToSet(e) /\ H = at[s.from - 1] BY <1>8, <1>10, <1>14 DEF FitsWalk
  <2>2. s.from - 1 \in 0 .. Len(st) BY <1>6, <1>12, <2>1
  <2>3. \A g \in Nat : (g \in ToSet(e) /\ g < s.from) <=> g \in ToSet(H)
    BY <1>9, <2>1 DEF ShapeOf
  <2>4. QED BY <2>1, <2>2, <2>3
<1>15. \A g \in ToSet(H) : g \in Nat
  BY <1>11 DEF ToSet
<1>16. ToSet(H) \subseteq ToSet(e) BY <1>13, <1>14, <1>15
<1>17. \E n \in 0 .. Len(st) : ShapeOf(st, at, n, H)
  <2>1. CASE s.from = 0 BY <1>6, <1>9, <1>13, <2>1
  <2>2. CASE s.from # 0
    <3>1. PICK n \in 0 .. Len(st) : n = s.from - 1 BY <1>14, <2>2
    <3>2. ShapeOf(st, at, n, H) BY <1>3, <1>14, <2>2, <3>1, GoodNested DEF Shape
    <3>3. QED BY <3>2
  <2>3. QED BY <2>1, <2>2
<1>18. H # << >> => Head(H) \in ToSet(H) /\ Tail(H) = at[Head(H) - 1] BY <1>17 DEF ShapeOf
<1>19. ASSUME H # << >> PROVE Tail(H) \in Seq(Nat) /\ ToSet(H) = {Head(H)} \cup ToSet(Tail(H))
  <2>1. PICK x, t : x = Head(H) /\ t = Tail(H) OBVIOUS
  <2>2. x \in Nat /\ t \in Seq(Nat) BY <1>11, <1>19, <2>1, HeadTailProperties
  <2>3. H = <<x>> \o t
    <3>1. PICK y : y = <<x>> \o t OBVIOUS
    <3>2. y \in Seq(Nat) /\ Len(y) = Len(t) + 1 /\ y[1] = x /\ \A i \in 1 .. Len(t) : y[i + 1] = t[i]
      BY <2>2, <3>1, Consed
    <3>3. Len(H) \in Nat /\ Len(t) = Len(H) - 1 /\ H[1] = x /\ \A i \in 1 .. Len(t) : t[i] = H[i + 1]
      BY <1>11, <1>19, <2>1, HeadTailProperties
    <3>4. ASSUME NEW i \in 1 .. Len(H) PROVE H[i] = y[i]
      <4>1. CASE i = 1 BY <3>2, <3>3, <4>1
      <4>2. CASE i # 1
        <5>1. i - 1 \in 1 .. Len(t) /\ i = (i - 1) + 1 BY <3>3, <3>4, <4>2
        <5>2. PICK j \in 1 .. Len(t) : i = j + 1 BY <5>1
        <5>3. QED BY <3>2, <3>3, <5>2
      <4>3. QED BY <4>1, <4>2
    <3>5. Len(y) = Len(H) BY <2>2, <3>2, <3>3
    <3>6. QED BY <1>11, <3>1, <3>2, <3>4, <3>5, SeqEqual
  <2>4. ToSet(<<x>> \o t) = {x} \cup ToSet(t) BY <2>2, Consed
  <2>5. QED BY <2>1, <2>2, <2>3, <2>4
<1>20. \A g \in ToSet(e) : s.from # 0 => (g \in ToSet(H) <=> g < s.from) BY <1>12, <1>14
<1>21. FitsLoop(st, at, s, st[k - 1], e) /\ e = at[k - 1] /\ \A f \in ToSet(e) : f \in 1 .. k - 1
  BY <1>6, <1>7, <1>8, <1>12 DEF FitsLoop
<1>22. Walk(st, k, s, at, e, H)
  BY <1>1, <1>2, <1>3, <1>4, <1>5, <1>10, <1>11, <1>13, <1>14, <1>16, <1>18, <1>19, <1>20, <1>21
     DEF Walk
<1>23. QED BY <1>22

(* The handlers that apply are of clusters in effect.                        *)
LEMMA HandlersInWalk ==
  ASSUME NEW st, Good(st), NEW k, NEW s, NEW at, NEW e, NEW H, Walk(st, k, s, at, e, H),
         NEW h \in Handlers(st, ToSet(e), s.cond)
  PROVE  /\ h[1] \in ToSet(e) /\ h[1] \in Nat /\ h[2] \in Nat /\ h = <<h[1], h[2]>>
         /\ Len(st[h[1]].cluster) \in Nat
         /\ h[2] \in 1 .. Len(st[h[1]].cluster) /\ s.cond \in st[h[1]].cluster[h[2]]
<1>1. PICK fs, c : fs = ToSet(e) /\ c = s.cond OBVIOUS
<1>2. PICK f \in fs : \E i \in DOMAIN st[f].cluster :
             /\ h = <<f, i>> /\ h[1] = f /\ h[2] = i
             /\ c \in st[f].cluster[i]
  <2>1. h \in Handlers(st, fs, c) BY <1>1
  <2>2. QED BY <2>1, HandlersOf
<1>3. PICK i \in DOMAIN st[f].cluster :
             /\ h = <<f, i>> /\ h[1] = f /\ h[2] = i
             /\ c \in st[f].cluster[i]
  BY <1>2
<1>4. f \in Nat /\ f \in 1 .. Len(st) BY <1>1 DEF Walk
<1>5. st[f] \in Frame BY <1>4, GoodNested
<1>6. st[f].cluster \in Seq(SUBSET Conditions) BY <1>5 DEF Frame
<1>7. DOMAIN st[f].cluster = 1 .. Len(st[f].cluster) /\ Len(st[f].cluster) \in Nat
  BY <1>6, LenProperties
<1>8. QED BY <1>1, <1>3, <1>4, <1>7

(* The same handlers have been asked, and the same are due.                  *)
LEMMA AskedSame ==
  ASSUME NEW st, NEW s, NEW b, NEW e, FitsAsked(st, s, e), b.cond = s.cond, b.asked = s.asked,
         \A h \in Handlers(st, ToSet(e), s.cond) : Due(s, h) <=> Due(b, h)
  PROVE  FitsAsked(st, b, e)
<1>1. {h \in Handlers(st, ToSet(e), s.cond) : ~Due(s, h)}
        = {h \in Handlers(st, ToSet(e), s.cond) : ~Due(b, h)}
  OBVIOUS
<1>2. QED BY <1>1 DEF FitsAsked

(* The loop is not in a cluster.                                             *)
Between(st, s) == s.from = 0 \/ ~(s.next <= Len(st[s.from].cluster))

(* The loop at the next cluster, the first one of H.                         *)
AtCluster(s, H) == [s EXCEPT !.from = Head(H), !.next = 1, !.vals.handlers = Tail(H)]

(* It goes on to the next cluster.                                           *)
LEMMA GoodNextCluster ==
  ASSUME NEW st, Good(st), NEW k, NEW s, NEW at, NEW e, NEW H, Walk(st, k, s, at, e, H),
         Between(st, s), H # << >>,
         NEW b, b = AtCluster(s, H)
  PROVE  Stepped(st, b, [st EXCEPT ![k] = b])
<1>1. PICK f, T : f = Head(H) /\ T = Tail(H) OBVIOUS
<1>2. /\ f \in ToSet(H) /\ f \in ToSet(e) /\ T = at[f - 1] /\ T \in Seq(Nat) /\ f \in Nat /\ f # 0
      /\ ToSet(H) = {f} \cup ToSet(T)
  <2>1. /\ f \in ToSet(H) /\ T = at[f - 1] /\ T \in Seq(Nat) /\ ToSet(H) = {f} \cup ToSet(T)
    BY <1>1 DEF Walk
  <2>2. f \in ToSet(e) BY <2>1 DEF Walk
  <2>3. f \in 1 .. k - 1 BY <2>2 DEF Walk
  <2>4. QED BY <2>1, <2>2, <2>3
<1>3. s \in Frame /\ s.vals.handlers = H BY DEF Walk
<1>4. PICK v : v = [s.vals EXCEPT !.handlers = T] OBVIOUS
<1>5. /\ v \in Value /\ v.handlers = T /\ v.restarts = s.vals.restarts
      /\ v.associations = s.vals.associations
  <2>1. s.vals \in Value BY <1>3 DEF Frame
  <2>2. QED BY <1>2, <1>4, <2>1 DEF Value
<1>6. b = [s EXCEPT !.from = f, !.next = 1, !.vals = v]
  BY <1>1, <1>3, <1>4 DEF Frame, AtCluster
<1>7. /\ b.kind = s.kind /\ b.base = s.base /\ b.cond = s.cond /\ b.caller = s.caller
      /\ b.vals = v /\ b.from = f /\ b.next = 1 /\ b.asked = s.asked
  BY <1>3, <1>6 DEF Frame
<1>8. b \in Frame
  <2>1. PICK V, C, A, Q : V = Value /\ C = Seq(SUBSET Conditions) /\ A = Seq(Nat \X Nat)
                          /\ Q = AllNames \cup {NIL}
    OBVIOUS
  <2>2. PICK D, E : D = Conditions \cup {NIL} /\ E = Callers \cup {NIL} OBVIOUS
  <2>3. s \in [kind : Kinds, vals : V, base : Nat, name : Q, cond : D, caller : E,
               cluster : C, exits : BOOLEAN, from : Nat, next : Nat, asked : A]
    BY <1>3, <2>1, <2>2 DEF Frame
  <2>4. b \in [kind : Kinds, vals : V, base : Nat, name : Q, cond : D, caller : E,
               cluster : C, exits : BOOLEAN, from : Nat, next : Nat, asked : A]
    <3>1. PICK x : x = [s EXCEPT !.from = f] OBVIOUS
    <3>2. PICK y : y = [x EXCEPT !.next = 1] OBVIOUS
    <3>3. x \in [kind : Kinds, vals : V, base : Nat, name : Q, cond : D, caller : E,
                 cluster : C, exits : BOOLEAN, from : Nat, next : Nat, asked : A]
      BY <1>2, <2>3, <3>1
    <3>4. y \in [kind : Kinds, vals : V, base : Nat, name : Q, cond : D, caller : E,
                 cluster : C, exits : BOOLEAN, from : Nat, next : Nat, asked : A]
      BY <3>2, <3>3
    <3>5. b = [y EXCEPT !.vals = v] BY <1>6, <2>3, <3>1, <3>2
    <3>6. v \in V BY <1>5, <2>1
    <3>7. QED BY <3>4, <3>5, <3>6
  <2>5. QED BY <2>1, <2>2, <2>4 DEF Frame
<1>9. SameSignal(s, b) BY <1>5, <1>7 DEF SameSignal, Walk
<1>10. FitsSignal(s, st[k - 1], e) /\ FitsWalk(s, at, e) /\ FitsAsked(st, s, e)
  BY DEF Walk, FitsLoop
<1>11. FitsSignal(b, st[k - 1], e) /\ FitsWalk(b, at, e)
  <2>1. FitsSignal(b, st[k - 1], e) BY <1>2, <1>7, <1>10 DEF FitsSignal
  <2>2. FitsWalk(b, at, e)
    <3>1. b.from \in ToSet(e) /\ b.vals.handlers = at[f - 1] BY <1>2, <1>5, <1>7
    <3>2. QED BY <1>7, <3>1 DEF FitsWalk
  <2>3. QED BY <2>1, <2>2
<1>12. ASSUME NEW h \in Handlers(st, ToSet(e), s.cond) PROVE Due(s, h) <=> Due(b, h)
  <2>1. /\ h[1] \in ToSet(e) /\ h[1] \in Nat /\ h[2] \in Nat
        /\ Len(st[h[1]].cluster) \in Nat /\ h[2] \in 1 .. Len(st[h[1]].cluster)
    BY <1>12, HandlersInWalk
  <2>2. h[1] \in 1 .. k - 1 BY <2>1 DEF Walk
  <2>3. ~(h[1] = s.from /\ h[2] >= s.next)
    <3>1. s.from \in Nat /\ s.next \in Nat BY DEF Walk
    <3>2. QED BY <2>1, <2>2, <3>1 DEF Between
  <2>4. Due(s, h) <=> h[1] \in ToSet(H) BY <1>3, <2>3 DEF Due
  <2>5. Due(b, h) <=> (h[1] \in ToSet(T) \/ h[1] = f)
    <3>1. h[2] >= 1 BY <2>1
    <3>2. QED BY <1>5, <1>7, <3>1 DEF Due
  <2>6. QED BY <1>2, <2>4, <2>5
<1>13. FitsAsked(st, b, e) BY <1>7, <1>10, <1>12, AskedSame
<1>14. FitsLoop(st, at, b, st[k - 1], e) BY <1>11, <1>13 DEF FitsLoop
<1>15. k \in Nat /\ k = Len(st) /\ s = st[k] /\ s.kind = "signal" /\ at = InEffect(st)
       /\ e = at[k - 1]
  BY DEF Walk
<1>16. QED BY <1>8, <1>9, <1>14, <1>15, GoodStep

(* A sequence with one element more at the end.                              *)
LEMMA Appended ==
  ASSUME NEW S, NEW q \in Seq(S), NEW x \in S
  PROVE  /\ Append(q, x) \in Seq(S) /\ Len(q) \in Nat
         /\ DOMAIN Append(q, x) = 1 .. Len(q) + 1 /\ DOMAIN q = 1 .. Len(q)
         /\ \A i \in 1 .. Len(q) : Append(q, x)[i] = q[i]
         /\ Append(q, x)[Len(q) + 1] = x
         /\ ToSet(Append(q, x)) = ToSet(q) \cup {x}
<1>1. PICK t : t = Append(q, x) OBVIOUS
<1>2. /\ t \in Seq(S) /\ Len(q) \in Nat /\ Len(t) = Len(q) + 1 /\ t[Len(q) + 1] = x
      /\ \A i \in 1 .. Len(q) : t[i] = q[i]
  BY <1>1, AppendProperties
<1>3. DOMAIN t = 1 .. Len(q) + 1 /\ DOMAIN q = 1 .. Len(q) BY <1>2
<1>4. ASSUME NEW y \in ToSet(t) PROVE y \in ToSet(q) \cup {x}
  <2>1. PICK i \in 1 .. Len(q) + 1 : y = t[i] BY <1>3, <1>4 DEF ToSet
  <2>2. CASE i = Len(q) + 1 BY <1>2, <2>1, <2>2
  <2>3. CASE i # Len(q) + 1
    <3>1. i \in 1 .. Len(q) BY <1>2, <2>1, <2>3
    <3>2. y = q[i] BY <1>2, <2>1, <3>1
    <3>3. QED BY <1>3, <3>1, <3>2 DEF ToSet
  <2>4. QED BY <2>2, <2>3
<1>5. ASSUME NEW y \in ToSet(q) \cup {x} PROVE y \in ToSet(t)
  <2>1. CASE y = x
    <3>1. Len(q) + 1 \in DOMAIN t BY <1>2, <1>3
    <3>2. QED BY <1>2, <2>1, <3>1 DEF ToSet
  <2>2. CASE y \in ToSet(q)
    <3>1. PICK i \in 1 .. Len(q) : y = q[i] BY <1>3, <2>2 DEF ToSet
    <3>2. i \in DOMAIN t /\ t[i] = y BY <1>2, <1>3, <3>1
    <3>3. QED BY <3>2 DEF ToSet
  <2>3. QED BY <1>5, <2>1, <2>2
<1>6. ToSet(t) = ToSet(q) \cup {x} BY <1>4, <1>5
<1>7. QED BY <1>1, <1>2, <1>3, <1>6

(* The loop has come to a handler.                                           *)
At(st, s) == s.from # 0 /\ s.next <= Len(st[s.from].cluster)

(* The handler it has come to, and what is due behind it.                    *)
LEMMA DueNext ==
  ASSUME NEW st, Good(st), NEW k, NEW s, NEW at, NEW e, NEW H, Walk(st, k, s, at, e, H),
         NEW b, b.vals = s.vals, b.from = s.from, b.next = s.next + 1,
         NEW h \in Handlers(st, ToSet(e), s.cond)
  PROVE  /\ h # <<s.from, s.next>> => (Due(b, h) <=> Due(s, h))
         /\ s.from # 0 /\ h = <<s.from, s.next>> => Due(s, h) /\ ~Due(b, h)
<1>1. /\ h[1] \in ToSet(e) /\ h[1] \in Nat /\ h[2] \in Nat /\ h = <<h[1], h[2]>>
  BY HandlersInWalk
<1>2. s.from \in Nat /\ s.next \in Nat BY DEF Walk
<1>3. s.from # 0 => s.from \in ToSet(e) /\ (s.from \in ToSet(s.vals.handlers) <=> s.from < s.from)
  BY DEF Walk
<1>4. ASSUME h # <<s.from, s.next>> PROVE Due(b, h) <=> Due(s, h)
  <2>1. ~(h[1] = s.from /\ h[2] = s.next) BY <1>1, <1>4
  <2>2. (h[1] = s.from /\ h[2] >= s.next + 1) <=> (h[1] = s.from /\ h[2] >= s.next)
    BY <1>1, <1>2, <2>1
  <2>3. QED BY <2>2 DEF Due
<1>5. ASSUME s.from # 0, h = <<s.from, s.next>> PROVE Due(s, h) /\ ~Due(b, h)
  <2>1. h[1] = s.from /\ h[2] = s.next BY <1>5
  <2>2. s.from \notin ToSet(s.vals.handlers) BY <1>2, <1>3, <1>5
  <2>3. h[2] >= s.next /\ ~(h[2] >= s.next + 1) BY <1>2, <2>1
  <2>4. QED BY <2>1, <2>2, <2>3 DEF Due
<1>6. QED BY <1>4, <1>5

(* The loop behind the handler, with q asked.                                *)
Behind(s, q) == [s EXCEPT !.next = s.next + 1, !.asked = q]

(* Nothing else changes.                                                     *)
LEMMA GoodNextHandler ==
  ASSUME NEW st, Good(st), NEW k, NEW s, NEW at, NEW e, NEW H, Walk(st, k, s, at, e, H),
         NEW q \in Seq(Nat \X Nat), NEW b, b = Behind(s, q),
         FitsAsked(st, b, e)
  PROVE  Stepped(st, b, [st EXCEPT ![k] = b]) /\ b \in Frame /\ b.vals = s.vals
         /\ b.from = s.from /\ b.kind = "signal"
<1>1. s \in Frame /\ s.next \in Nat /\ s.kind = "signal" BY DEF Walk
<1>2. /\ b.kind = s.kind /\ b.base = s.base /\ b.cond = s.cond /\ b.caller = s.caller
      /\ b.vals = s.vals /\ b.from = s.from /\ b.next = s.next + 1 /\ b.asked = q
  BY <1>1 DEF Frame, Behind
<1>3. b \in Frame
  <2>1. PICK V, C, A, Q : V = Value /\ C = Seq(SUBSET Conditions) /\ A = Seq(Nat \X Nat)
                          /\ Q = AllNames \cup {NIL}
    OBVIOUS
  <2>2. PICK D, E : D = Conditions \cup {NIL} /\ E = Callers \cup {NIL} OBVIOUS
  <2>3. s \in [kind : Kinds, vals : V, base : Nat, name : Q, cond : D, caller : E,
               cluster : C, exits : BOOLEAN, from : Nat, next : Nat, asked : A]
    BY <1>1, <2>1, <2>2 DEF Frame
  <2>10. PICK n \in Nat : n = s.next + 1 BY <1>1
  <2>4. PICK x : x = [s EXCEPT !.next = n] OBVIOUS
  <2>5. x \in [kind : Kinds, vals : V, base : Nat, name : Q, cond : D, caller : E,
               cluster : C, exits : BOOLEAN, from : Nat, next : Nat, asked : A]
    BY <2>3, <2>4
  <2>6. b = [x EXCEPT !.asked = q] BY <2>3, <2>4, <2>10 DEF Behind
  <2>7. q \in A BY <2>1
  <2>8. b \in [kind : Kinds, vals : V, base : Nat, name : Q, cond : D, caller : E,
               cluster : C, exits : BOOLEAN, from : Nat, next : Nat, asked : A]
    BY <2>5, <2>6, <2>7
  <2>9. QED BY <2>1, <2>2, <2>8 DEF Frame
<1>4. SameSignal(s, b) BY <1>1, <1>2 DEF SameSignal
<1>5. FitsSignal(s, st[k - 1], e) /\ FitsWalk(s, at, e) BY DEF Walk, FitsLoop
<1>6. FitsSignal(b, st[k - 1], e) BY <1>1, <1>2, <1>5 DEF FitsSignal
<1>7. FitsWalk(b, at, e) BY <1>2, <1>5 DEF FitsWalk
<1>8. FitsLoop(st, at, b, st[k - 1], e) BY <1>6, <1>7 DEF FitsLoop
<1>9. k \in Nat /\ k = Len(st) /\ s = st[k] /\ at = InEffect(st) /\ e = at[k - 1]
  BY DEF Walk
<1>10. Stepped(st, b, [st EXCEPT ![k] = b]) BY <1>1, <1>3, <1>4, <1>8, <1>9, GoodStep
<1>11. QED BY <1>1, <1>2, <1>3, <1>10

(* It passes a handler that does not apply.                                  *)
LEMMA SkipAsked ==
  ASSUME NEW st, Good(st), NEW k, NEW s, NEW at, NEW e, NEW H, Walk(st, k, s, at, e, H),
         s.cond \notin st[s.from].cluster[s.next],
         NEW b, b.cond = s.cond, b.vals = s.vals, b.from = s.from, b.next = s.next + 1,
         b.asked = s.asked
  PROVE  FitsAsked(st, b, e)
<1>1. ASSUME NEW h \in Handlers(st, ToSet(e), s.cond) PROVE Due(s, h) <=> Due(b, h)
  <2>1. s.cond \in st[h[1]].cluster[h[2]] BY <1>1, HandlersInWalk
  <2>2. h # <<s.from, s.next>> BY <2>1
  <2>3. QED BY <1>1, <2>2, DueNext
<1>2. FitsAsked(st, s, e) BY DEF Walk, FitsLoop
<1>3. QED BY <1>1, <1>2, AskedSame

(* It asks one that does.                                                    *)
LEMMA AskAsked ==
  ASSUME NEW st, Good(st), NEW k, NEW s, NEW at, NEW e, NEW H, Walk(st, k, s, at, e, H),
         At(st, s), s.cond \in st[s.from].cluster[s.next],
         NEW b, b.cond = s.cond, b.vals = s.vals, b.from = s.from, b.next = s.next + 1,
         b.asked = Append(s.asked, <<s.from, s.next>>)
  PROVE  FitsAsked(st, b, e) /\ b.asked \in Seq(Nat \X Nat)
<1>1. PICK x : x = <<s.from, s.next>> OBVIOUS
<1>2. PICK P : P = Handlers(st, ToSet(e), s.cond) OBVIOUS
<1>3. PICK q, r : q = s.asked /\ r = b.asked OBVIOUS
<1>4. FitsAsked(st, s, e) BY DEF Walk, FitsLoop
<1>5. /\ s.from \in Nat /\ s.next \in Nat /\ s.next > 0 /\ s.from # 0 /\ s.from \in ToSet(e)
      /\ s.from \in 1 .. Len(st) /\ s \in Frame
  BY DEF Walk, At
<1>6. x \in P
  <2>1. st[s.from].cluster \in Seq(SUBSET Conditions) BY <1>5, GoodNested DEF Frame
  <2>2. s.next \in DOMAIN st[s.from].cluster BY <1>5, <2>1, LenProperties DEF At
  <2>3. x[1] = s.from /\ x[2] = s.next BY <1>1
  <2>4. PICK fs, c : fs = ToSet(e) /\ c = s.cond OBVIOUS
  <2>5. \E f \in fs : \E i \in DOMAIN st[f].cluster :
             /\ x = <<f, i>> /\ x[1] = f /\ x[2] = i
             /\ c \in st[f].cluster[i]
    BY <1>1, <1>5, <2>2, <2>3, <2>4
  <2>6. x \in Handlers(st, fs, c) BY <2>5, HandlersOf
  <2>7. QED BY <1>2, <2>4, <2>6
<1>7. q \in Seq(Nat \X Nat) /\ x \in Nat \X Nat BY <1>1, <1>3, <1>5 DEF Frame
<1>8. PICK n \in Nat : n = Len(q) BY <1>7
<1>9. /\ r \in Seq(Nat \X Nat) /\ DOMAIN r = 1 .. n + 1 /\ DOMAIN q = 1 .. n
      /\ (\A i \in 1 .. n : r[i] = q[i]) /\ r[n + 1] = x /\ ToSet(r) = ToSet(q) \cup {x}
  <2>1. PICK S : S = Nat \X Nat OBVIOUS
  <2>2. q \in Seq(S) /\ x \in S BY <1>7, <2>1
  <2>3. r = Append(q, x) BY <1>1, <1>3
  <2>4. /\ r \in Seq(S) /\ DOMAIN r = 1 .. n + 1 /\ DOMAIN q = 1 .. n
        /\ (\A i \in 1 .. n : r[i] = q[i]) /\ r[n + 1] = x /\ ToSet(r) = ToSet(q) \cup {x}
    BY <1>8, <2>2, <2>3, Appended
  <2>5. QED BY <2>1, <2>4
<1>10. /\ \A i, j \in DOMAIN q : i < j => Before(q[i], q[j])
       /\ ToSet(q) = {h \in P : ~Due(s, h)}
  BY <1>2, <1>3, <1>4 DEF FitsAsked
<1>11. ASSUME NEW h \in P
       PROVE  /\ h # x => (Due(b, h) <=> Due(s, h))
              /\ h = x => Due(s, h) /\ ~Due(b, h)
  BY <1>1, <1>2, <1>5, DueNext
<1>12. ToSet(r) = {h \in P : ~Due(b, h)} BY <1>6, <1>9, <1>10, <1>11
<1>13. ASSUME NEW h \in ToSet(q) PROVE Before(h, x)
  <2>1. h \in P /\ ~Due(s, h) BY <1>10, <1>13
  <2>2. h[1] \in ToSet(e) /\ h[1] \in Nat /\ h[2] \in Nat
    <3>1. h \in Handlers(st, ToSet(e), s.cond) BY <1>2, <2>1
    <3>2. QED BY <3>1, HandlersInWalk
  <2>3. h[1] \notin ToSet(s.vals.handlers) /\ ~(h[1] = s.from /\ h[2] >= s.next)
    BY <2>1 DEF Due
  <2>4. ~(h[1] < s.from) BY <1>5, <2>2, <2>3 DEF Walk
  <2>5. x[1] = s.from /\ x[2] = s.next BY <1>1
  <2>6. QED BY <1>5, <2>2, <2>3, <2>4, <2>5 DEF Before
<1>14. ASSUME NEW i \in DOMAIN r, NEW j \in DOMAIN r, i < j PROVE Before(r[i], r[j])
  <2>1. i \in 1 .. n BY <1>9, <1>14
  <2>2. r[i] = q[i] /\ q[i] \in ToSet(q) BY <1>9, <2>1 DEF ToSet
  <2>3. CASE j = n + 1 BY <1>9, <1>13, <2>2, <2>3
  <2>4. CASE j # n + 1
    <3>1. j \in 1 .. n BY <1>9, <2>4
    <3>2. QED BY <1>9, <1>10, <1>14, <2>1, <2>2, <3>1
  <2>5. QED BY <2>3, <2>4
<1>15. QED BY <1>2, <1>3, <1>9, <1>12, <1>14 DEF FitsAsked

(* A handler is called on top of the signal.                                 *)
LEMMA GoodHandler ==
  ASSUME NEW st, Good(st), NEW k, NEW s, NEW at, NEW e, NEW H, Walk(st, k, s, at, e, H),
         s.from # 0, NEW b \in Frame, b.vals = s.vals, b.from = s.from, b.kind = "signal",
         NEW y, Stepped(st, b, y), NEW u,
         u = Append(y, [Activation("handler", s.vals, k) EXCEPT !.from = s.from, !.cond = s.cond])
  PROVE  Good(u)
<1>1. PICK a : a = New("handler", s.vals, k, NIL, s.cond, NIL, << >>, FALSE, s.from) OBVIOUS
<1>2. u = Append(y, a)
  <2>1. Handling("handler", s.vals, k, s.from, s.cond) = a BY <1>1, HandlingNew
  <2>2. QED BY <2>1 DEF Handling
<1>3. /\ k \in Nat /\ k > 1 /\ Len(st) = k /\ s \in Frame /\ s.from \in ToSet(e)
      /\ e = InEffect(st)[k - 1] /\ at = InEffect(st) /\ s.from \in 1 .. k - 1
      /\ s.vals.handlers = at[s.from - 1]
  BY DEF Walk, FitsLoop, FitsWalk
<1>4. a \in Frame
  <2>1. "handler" \in Kinds /\ FALSE \in BOOLEAN BY DEF Kinds
  <2>2. NIL \in AllNames \cup {NIL} /\ NIL \in Callers \cup {NIL} OBVIOUS
  <2>3. << >> \in Seq(SUBSET Conditions) OBVIOUS
  <2>4. s.vals \in Value /\ s.cond \in Conditions \cup {NIL} /\ s.from \in Nat BY <1>3 DEF Frame
  <2>5. QED BY <1>1, <1>3, <2>1, <2>2, <2>3, <2>4, NewFrame
<1>5. a.kind = "handler" /\ a.vals = s.vals /\ a.base = k /\ a.from = s.from BY <1>1 DEF New
<1>6. /\ Good(y) /\ Len(y) = k /\ y[k] = b
      /\ \A j \in 0 .. k - 1 : InEffect(y)[j] = at[j]
  BY <1>3 DEF Stepped
<1>7. Pushed(y, a, u)
  <2>1. Below(y, a) BY <1>3, <1>5, <1>6 DEF Below
  <2>2. QED BY <1>2, <1>4, <1>6, <2>1, GoodPush
<1>8. PICK ct, bt : ct = InEffect(y) /\ bt = InEffect(u) OBVIOUS
<1>9. /\ Len(u) = k + 1 /\ u[k + 1] = a /\ (\A j \in 1 .. k : u[j] = y[j])
      /\ bt[k + 1] = Effect(u, ct, k + 1)
      /\ Fits(u, bt, k + 1) => Good(u)
  BY <1>3, <1>6, <1>7, <1>8 DEF Pushed
<1>10. FitsHandlers(a, bt[k + 1])
  <2>1. bt[k + 1] = ct[s.from - 1] BY <1>3, <1>5, <1>9 DEF Effect
  <2>2. PICK i \in Nat : i = s.from - 1 /\ i \in 0 .. k - 1 BY <1>3
  <2>3. ct[i] = at[i] BY <1>6, <1>8, <2>2
  <2>4. QED BY <1>3, <1>5, <2>1, <2>2, <2>3 DEF FitsHandlers
<1>11. FitsRestarts(u, k + 1)
  <2>1. u[k + 1].kind # "restarts" /\ u[k + 1].vals.restarts = y[k].vals.restarts
    BY <1>5, <1>6, <1>9
  <2>2. QED BY <1>3, <1>6, <1>9, <2>1, NewRestarts
<1>12. FitsAssociations(u, k + 1)
  <2>1. u[k + 1].vals.associations = y[k].vals.associations
    BY <1>5, <1>6, <1>9
  <2>2. QED BY <1>3, <1>6, <1>9, <2>1, SameAssociations
<1>13. FitsBase(a, k + 1) BY <1>3, <1>5 DEF FitsBase
<1>14. FitsOwn(u, k + 1) BY <1>5, <1>9 DEF FitsOwn
<1>15. Fits(u, bt, k + 1) BY <1>5, <1>9, <1>10, <1>11, <1>12, <1>13, <1>14 DEF Fits
<1>16. QED BY <1>9, <1>15

------------------------------------------------------------------------------
(* The specification keeps it.                                               *)

(* A restart that is found is that of an activation.                         *)
LEMMA FoundRestart ==
  ASSUME NEW st, Good(st), NEW n, NEW c, NEW r, r = find_restart(st, n, c), r # 0
  PROVE  /\ r \in 1 .. Len(st) /\ r \in compute_restarts(st, c) /\ st[r].name = n
         /\ \A i \in DOMAIN Vals(st).restarts :
              /\ Vals(st).restarts[i] \in compute_restarts(st, c)
              /\ st[Vals(st).restarts[i]].name = n
              => r >= Vals(st).restarts[i]
<1>1. PICK rs : rs = Vals(st).restarts OBVIOUS
<1>2. PICK k \in Nat : k = Len(st) /\ k > 0 /\ k \in 1 .. Len(st) BY GoodNested
<1>3. st[k] \in Frame /\ FitsRestarts(st, k) BY <1>2, GoodNested DEF Fits
<1>4. rs = st[k].vals.restarts BY <1>1, <1>2 DEF Vals, Last
<1>5. rs \in Seq(Nat) /\ DOMAIN rs = 1 .. Len(rs) /\ Len(rs) \in Nat
  BY <1>3, <1>4 DEF Frame, Value
<1>6. /\ \A i \in DOMAIN rs : rs[i] \in 1 .. k
      /\ \A i, j \in DOMAIN rs : i < j => rs[i] > rs[j]
  BY <1>3, <1>4 DEF FitsRestarts
<1>7. PICK found : found = {i \in DOMAIN rs : rs[i] \in compute_restarts(st, c)
                                              /\ st[rs[i]].name = n}
  OBVIOUS
<1>8. r = IF found = {} THEN 0 ELSE rs[Min(found)] BY <1>1, <1>7 DEF find_restart
<1>9. found # {} /\ found \subseteq 1 .. Len(rs) BY <1>5, <1>7, <1>8
<1>10. PICK i \in found : i = Min(found) /\ \A y \in found : i <= y BY <1>5, <1>9, MinMax
<1>11. r = rs[i] /\ i \in DOMAIN rs /\ rs[i] \in compute_restarts(st, c) /\ st[rs[i]].name = n
  BY <1>7, <1>8, <1>9, <1>10
<1>12. ASSUME NEW j \in DOMAIN rs, rs[j] \in compute_restarts(st, c), st[rs[j]].name = n
       PROVE  r >= rs[j]
  <2>1. j \in found BY <1>7, <1>12
  <2>2. i <= j /\ i \in Nat /\ j \in Nat BY <1>5, <1>9, <1>10, <2>1
  <2>3. rs[i] \in 1 .. k /\ rs[j] \in 1 .. k BY <1>6, <1>11, <1>12
  <2>4. CASE i = j BY <1>11, <2>3, <2>4
  <2>5. CASE i < j BY <1>6, <1>11, <1>12, <2>3, <2>5
  <2>6. QED BY <2>2, <2>4, <2>5
<1>13. QED BY <1>1, <1>2, <1>6, <1>11, <1>12

(* An exit leaves activations that fit.                                      *)
LEMMA GoodExit ==
  ASSUME NEW st, Good(st), NEW r \in 1 .. Len(st), NEW u, u = SubSeq(st, 1, st[r].base)
  PROVE  Good(u)
<1>1. Len(st) \in Nat /\ FitsBase(st[r], r) BY GoodNested DEF Fits
<1>2. st[r].base \in 1 .. Len(st) BY <1>1 DEF FitsBase
<1>3. Cut(st, st[r].base, u) BY <1>2, GoodPrefix
<1>4. QED BY <1>3 DEF Cut

(* The program starts so.                                                    *)
LEMMA GoodInit ==
  Init => Good(stack)
<1>1. SUFFICES ASSUME Init PROVE Good(stack) OBVIOUS
<1>2. PICK a : a = [Activation("top", TopLevel, 1) EXCEPT !.name = "top-level"] OBVIOUS
<1>3. a = New("top", TopLevel, 1, "top-level", NIL, NIL, << >>, FALSE, 0)
  BY <1>2 DEF Activation, New
<1>4. PICK st : st = stack OBVIOUS
<1>5. st = <<a>> BY <1>1, <1>2, <1>4 DEF Init
<1>6. TopLevel \in Value
  <2>1. << >> \in Seq(Nat) /\ <<1>> \in Seq(Nat) /\ << >> \in Seq(Association) OBVIOUS
  <2>2. PICK x, y, z : x = << >> /\ y = <<1>> /\ z = << >> OBVIOUS
  <2>3. [handlers |-> x, restarts |-> y, associations |-> z, depth |-> 0, level |-> 0] \in Value
    <3>1. x \in Seq(Nat) /\ y \in Seq(Nat) /\ z \in Seq(Association) /\ 0 \in Nat BY <2>1, <2>2
    <3>2. QED BY <3>1, Zenon DEF Value
  <2>4. QED BY <2>2, <2>3 DEF TopLevel
<1>7. a \in Frame
  <2>1. 1 \in Nat /\ "top" \in Kinds /\ 0 \in Nat /\ FALSE \in BOOLEAN BY DEF Kinds
  <2>2. /\ "top-level" \in AllNames \cup {NIL} /\ NIL \in Conditions \cup {NIL}
        /\ NIL \in Callers \cup {NIL}
    BY DEF AllNames
  <2>3. << >> \in Seq(SUBSET Conditions) OBVIOUS
  <2>4. QED BY <1>3, <1>6, <2>1, <2>2, <2>3, NewFrame
<1>8. a.kind = "top" /\ a.vals = TopLevel /\ a.base = 1 BY <1>3 DEF New
<1>9. st \in Seq(Frame) /\ st # << >> /\ Len(st) = 1 /\ st[1] = a BY <1>5, <1>7
<1>10. Nested(st) BY <1>8, <1>9 DEF Nested
<1>11. PICK at : at = InEffect(st) OBVIOUS
<1>12. at[1] = << >>
  <2>1. Len(st) \in Nat /\ 0 \in 0 .. Len(st) /\ 1 \in 0 .. Len(st) BY <1>9
  <2>2. at[0] = Effect(st, at, 0) /\ at[1] = Effect(st, at, 1)
    BY <1>10, <1>11, <2>1, InEffectSolves
  <2>3. QED BY <1>8, <1>9, <2>2 DEF Effect
<1>13. FitsBase(a, 1) /\ FitsHandlers(a, at[1])
  BY <1>8, <1>12 DEF FitsBase, FitsHandlers, TopLevel
<1>14. FitsRestarts(st, 1)
  <2>1. a.vals.restarts = <<1>> BY <1>8 DEF TopLevel
  <2>2. QED BY <1>8, <1>9, <2>1 DEF FitsRestarts
<1>15. FitsAssociations(st, 1)
  <2>1. a.vals.associations = << >> BY <1>8 DEF TopLevel
  <2>2. ToSet(<< >>) = {} BY DEF ToSet
  <2>3. QED BY <1>9, <2>1, <2>2 DEF FitsAssociations
<1>16. FitsOwn(st, 1) BY <1>8, <1>9 DEF FitsOwn
<1>17. Fits(st, at, 1) BY <1>8, <1>9, <1>13, <1>14, <1>15, <1>16 DEF Fits
<1>18. \A k \in 1 .. Len(st) : k = 1 BY <1>9
<1>19. Good(st) BY <1>9, <1>11, <1>17, <1>18 DEF Good
<1>20. QED BY <1>4, <1>19

(* Steps of the program.                                                     *)
LEMMA GoodProgram ==
  ASSUME Good(stack), Running
  PROVE  /\ \A hs \in Clusters : handler_bind(hs) \/ handler_case(hs) => Good(stack')
         /\ \A n \in Names : restart_case(n) => Good(stack')
         /\ \A caller \in Callers, c \in Conditions :
              /\ call(caller, c) => Good(stack')
              /\ \A n \in Names : restart_case_call(n, caller, c) => Good(stack')
<1>1. PICK st : st = stack OBVIOUS
<1>2. Ready(st) BY <1>1 DEF Ready, Running, Top
<1>3. Good(st) /\ Len(st) \in Nat /\ Len(st) \in 1 .. Len(st) BY <1>2, ReadyVals DEF Ready
<1>4. PICK u : u = stack' OBVIOUS
<1>5. \A n \in Names : n \in AllNames BY DEF AllNames
<1>6. ASSUME NEW hs \in Clusters, NEW x \in BOOLEAN, handler_form(hs, x) PROVE Good(u)
  <2>1. hs \in Seq(SUBSET Conditions) BY ConditionsAssumption
  <2>2. u = Append(st, [Activation("handlers",
               [Last(st).vals EXCEPT !.handlers = <<Len(st) + 1>> \o @], Len(st))
               EXCEPT !.cluster = hs, !.exits = x])
    BY <1>1, <1>4, <1>6 DEF handler_form, Top
  <2>3. QED BY <1>2, <2>1, <2>2, GoodHandlers
<1>7. ASSUME NEW n \in Names, restart_case(n) PROVE Good(u)
  <2>1. u = RestartCase(st, n, Len(st)) BY <1>1, <1>4, <1>7 DEF restart_case
  <2>2. n \in AllNames BY <1>5
  <2>3. Restarted(st, n, u) BY <1>2, <1>3, <2>1, <2>2, GoodRestartCase
  <2>4. QED BY <2>3 DEF Restarted, Ready
<1>8. ASSUME NEW caller \in Callers, NEW c \in Conditions, call(caller, c) PROVE Good(u)
  <2>1. u = Call(st, caller, c, Len(st)) BY <1>1, <1>4, <1>8 DEF call
  <2>2. QED BY <1>2, <1>3, <2>1, GoodCall
<1>9. ASSUME NEW caller \in Callers, NEW c \in Conditions, NEW n \in Names,
             restart_case_call(n, caller, c)
      PROVE  Good(u)
  <2>1. PICK t : t = Munged(st, n, c, Len(st)) OBVIOUS
  <2>2. n \in AllNames BY <1>5
  <2>3. Ready(t) /\ Len(st) \in 1 .. Len(t) BY <1>2, <1>3, <2>1, <2>2, GoodMunged
  <2>4. u = Call(t, caller, c, Len(st)) BY <1>1, <1>4, <1>9, <2>1 DEF restart_case_call
  <2>5. QED BY <2>3, <2>4, GoodCall
<1>10. \A hs \in Clusters : handler_bind(hs) \/ handler_case(hs) => Good(u)
  BY <1>6 DEF handler_bind, handler_case
<1>11. QED BY <1>4, <1>7, <1>8, <1>9, <1>10

(* Exits and restarts.                                                       *)
LEMMA GoodExits ==
  ASSUME Good(stack)
  PROVE  /\ leave => Good(stack')
         /\ \A n \in AllNames, c \in Conditions \cup {NIL} :
              invoke_restart(n, c) \/ no_restart(n, c) => Good(stack')
         /\ signal_returns => Good(stack')
<1>1. PICK st : st = stack OBVIOUS
<1>2. Good(st) /\ Len(st) \in Nat /\ Len(st) \in 1 .. Len(st) /\ Last(st) = st[Len(st)]
  BY <1>1, ReadyVals
<1>3. PICK u : u = stack' OBVIOUS
<1>4. ASSUME leave \/ signal_returns PROVE Good(u)
  <2>1. u = SubSeq(st, 1, st[Len(st)].base)
    BY <1>1, <1>2, <1>3, <1>4 DEF leave, signal_returns, Top
  <2>2. QED BY <1>2, <2>1, GoodExit
<1>5. ASSUME NEW n \in AllNames, NEW c \in Conditions \cup {NIL}, invoke_restart(n, c)
      PROVE  Good(u)
  <2>1. PICK r : r = find_restart(st, n, c) OBVIOUS
  <2>2. r # 0 /\ u = SubSeq(st, 1, st[r].base) BY <1>1, <1>3, <1>5, <2>1 DEF invoke_restart
  <2>3. r \in 1 .. Len(st) BY <1>2, <2>1, <2>2, FoundRestart
  <2>4. QED BY <1>2, <2>2, <2>3, GoodExit
<1>6. ASSUME NEW n \in AllNames, NEW c \in Conditions \cup {NIL}, no_restart(n, c)
      PROVE  Good(u)
  <2>1. Ready(st) BY <1>1, <1>2, <1>6 DEF Ready, no_restart, Running, Top
  <2>2. u = Call(st, "error", CONTROL_ERROR, Len(st)) BY <1>1, <1>3, <1>6 DEF no_restart
  <2>3. "error" \in Callers /\ CONTROL_ERROR \in Conditions BY ConditionsAssumption DEF Callers
  <2>4. QED BY <1>2, <2>1, <2>2, <2>3, GoodCall
<1>7. QED BY <1>3, <1>4, <1>5, <1>6

(* Steps of the loop of signal().                                            *)
LEMMA GoodLoop ==
  ASSUME Good(stack), Signalling
  PROVE  next_cluster \/ skip_handler \/ call_handler \/ handler_case_clause => Good(stack')
<1>1. PICK st : st = stack OBVIOUS
<1>2. Good(st) /\ Last(st).kind = "signal" BY <1>1 DEF Signalling, Top
<1>3. PICK k, s, at, e, H : Walk(st, k, s, at, e, H) BY <1>2, WalkHolds
<1>4. k = Len(st) /\ s = st[k] /\ H = s.vals.handlers /\ s \in Frame /\ k \in Nat /\ s.from \in Nat
  BY <1>3 DEF Walk
<1>5. Top = s BY <1>1, <1>4 DEF Top, Last
<1>6. PICK u : u = stack' OBVIOUS
<1>7. InCluster <=> At(st, s) BY <1>1, <1>5 DEF InCluster, At
<1>8. ASSUME next_cluster PROVE Good(u)
  <2>1. Between(st, s) BY <1>7, <1>8 DEF next_cluster, At, Between
  <2>2. H # << >> BY <1>4, <1>5, <1>8 DEF next_cluster
  <2>3. PICK b : b = AtCluster(s, H) OBVIOUS
  <2>4. u = [st EXCEPT ![k] = b]
    BY <1>1, <1>4, <1>5, <1>6, <1>8, <2>3 DEF next_cluster, AtCluster
  <2>5. Stepped(st, b, u) BY <1>2, <1>3, <2>1, <2>2, <2>3, <2>4, GoodNextCluster
  <2>6. QED BY <2>5 DEF Stepped
<1>9. ASSUME skip_handler PROVE Good(u)
  <2>1. s.cond \notin st[s.from].cluster[s.next] BY <1>1, <1>5, <1>9 DEF skip_handler, Applies
  <2>2. PICK b : b = [s EXCEPT !.next = s.next + 1] OBVIOUS
  <2>3. PICK q : q = s.asked OBVIOUS
  <2>4. q \in Seq(Nat \X Nat) BY <1>4, <2>3 DEF Frame
  <2>5. b = Behind(s, q) BY <1>4, <2>2, <2>3 DEF Frame, Behind
  <2>6. /\ b.cond = s.cond /\ b.vals = s.vals /\ b.from = s.from /\ b.next = s.next + 1
        /\ b.asked = s.asked
    BY <1>4, <2>2 DEF Frame
  <2>7. FitsAsked(st, b, e) BY <1>2, <1>3, <2>1, <2>6, SkipAsked
  <2>8. u = [st EXCEPT ![k] = b] BY <1>1, <1>4, <1>6, <1>9, <2>2 DEF skip_handler
  <2>9. Stepped(st, b, [st EXCEPT ![k] = b]) BY <1>2, <1>3, <2>4, <2>5, <2>7, GoodNextHandler
  <2>10. QED BY <2>8, <2>9 DEF Stepped
<1>10. ASSUME call_handler PROVE Good(u)
  <2>1. At(st, s) /\ s.cond \in st[s.from].cluster[s.next]
    BY <1>1, <1>5, <1>7, <1>10 DEF call_handler, AtHandler, Applies
  <2>2. PICK q : q = Append(s.asked, <<s.from, s.next>>) OBVIOUS
  <2>3. PICK b : b = Behind(s, q) OBVIOUS
  <2>4. /\ b.cond = s.cond /\ b.vals = s.vals /\ b.from = s.from /\ b.next = s.next + 1
        /\ b.asked = q
    BY <1>4, <2>3 DEF Frame, Behind
  <2>5. FitsAsked(st, b, e) /\ q \in Seq(Nat \X Nat)
    BY <1>2, <1>3, <2>1, <2>2, <2>4, AskAsked
  <2>6. PICK y : y = [st EXCEPT ![k] = b] OBVIOUS
  <2>7. Stepped(st, b, y) /\ b \in Frame /\ b.kind = "signal"
    <3>1. Stepped(st, b, [st EXCEPT ![k] = b]) /\ b \in Frame /\ b.kind = "signal"
      BY <1>2, <1>3, <2>3, <2>5, GoodNextHandler
    <3>2. QED BY <2>6, <3>1
  <2>8. Ask(stack) = y
    BY <1>1, <1>4, <1>5, <2>2, <2>3, <2>6 DEF Ask, Behind
  <2>9. u = Append(y, [Activation("handler", s.vals, k) EXCEPT !.from = s.from, !.cond = s.cond])
    BY <1>1, <1>4, <1>5, <1>6, <1>10, <2>8 DEF call_handler
  <2>10. s.from # 0 BY <2>1 DEF At
  <2>11. QED BY <1>2, <1>3, <2>4, <2>7, <2>9, <2>10, GoodHandler
<1>11. ASSUME handler_case_clause PROVE Good(u)
  <2>1. At(st, s) BY <1>7, <1>11 DEF handler_case_clause, AtHandler
  <2>2. s.from \in 1 .. Len(st) BY <1>3, <2>1 DEF Walk, At
  <2>3. u = SubSeq(st, 1, st[s.from].base)
    BY <1>1, <1>5, <1>6, <1>11 DEF handler_case_clause
  <2>4. QED BY <1>2, <2>2, <2>3, GoodExit
<1>12. QED BY <1>6, <1>8, <1>9, <1>10, <1>11

(* The debugger takes the place of the signal.                               *)
LEMMA GoodDebuggers ==
  ASSUME Good(stack)
  PROVE  error_debugger \/ cerror_debugger => Good(stack')
<1>1. PICK st : st = stack OBVIOUS
<1>2. SUFFICES ASSUME error_debugger \/ cerror_debugger PROVE Good(stack') OBVIOUS
<1>3. Good(st) /\ Last(st).kind = "signal"
  BY <1>1, <1>2 DEF error_debugger, cerror_debugger, Asked, Signalling, Top
<1>4. PICK k, s, at, e, H : Walk(st, k, s, at, e, H) BY <1>3, WalkHolds
<1>5. k \in Nat /\ k = Len(st) /\ k > 1 /\ s = st[k] /\ s \in Frame BY <1>4 DEF Walk
<1>6. s.cond \in Conditions /\ st[k - 1].kind # "signal" BY <1>4 DEF Walk, FitsLoop, FitsSignal
<1>7. PICK m \in Nat : m = k - 1 /\ m \in 1 .. Len(st) /\ k = m + 1 BY <1>5
<1>8. PICK t : t = Front(st) OBVIOUS
<1>9. Ready(t) /\ Len(t) = m
  <2>1. t = SubSeq(st, 1, m) BY <1>5, <1>7, <1>8 DEF Front
  <2>2. Cut(st, m, t) BY <1>3, <1>7, <2>1, GoodPrefix
  <2>3. Good(t) /\ Len(t) = m /\ t[m] = st[m] BY <1>7, <2>2 DEF Cut
  <2>4. QED BY <1>6, <1>7, <2>3 DEF Ready, Last
<1>10. s.base \in 1 .. Len(t) + 1
  <2>1. FitsBase(s, k) BY <1>3, <1>5, GoodNested DEF Fits
  <2>2. QED BY <1>7, <1>9, <2>1 DEF FitsBase
<1>11. Top = s /\ s.vals.depth \in Nat /\ s.vals.depth + 1 \in Nat
  <2>1. s.vals.depth \in Nat BY <1>5 DEF Frame, Value
  <2>2. QED BY <1>1, <1>5, <2>1 DEF Top, Last
<1>12. PICK u : u = stack' OBVIOUS
<1>13. ASSUME NEW caller \in Callers, NEW d \in Nat,
              u = InvokeDebugger(t, s.cond, caller, s.base, d)
       PROVE  Good(u)
  BY <1>6, <1>9, <1>10, <1>13, GoodDebugger
<1>14. \/ u = st
       \/ u = InvokeDebugger(t, s.cond, "error", s.base, s.vals.depth + 1)
       \/ u = InvokeDebugger(t, s.cond, "cerror", s.base, s.vals.depth)
  BY <1>1, <1>2, <1>8, <1>11, <1>12 DEF error_debugger, cerror_debugger
<1>15. "error" \in Callers /\ "cerror" \in Callers BY DEF Callers
<1>16. QED BY <1>3, <1>11, <1>12, <1>13, <1>14, <1>15

(* Every step.                                                               *)
LEMMA GoodNext ==
  Good(stack) /\ [Next]_vars => Good(stack')
<1>1. SUFFICES ASSUME Good(stack), [Next]_vars PROVE Good(stack') OBVIOUS
<1>2. CASE UNCHANGED vars BY <1>1, <1>2 DEF vars
<1>3. CASE \E hs \in Clusters : handler_bind(hs) \/ handler_case(hs)
  BY <1>1, <1>3, GoodProgram DEF handler_bind, handler_case, handler_form
<1>4. CASE \E n \in Names : restart_case(n) BY <1>1, <1>4, GoodProgram DEF restart_case
<1>5. CASE \E caller \in Callers, c \in Conditions :
             call(caller, c) \/ \E n \in Names : restart_case_call(n, caller, c)
  <2>1. Running BY <1>5 DEF call, restart_case_call
  <2>2. QED BY <1>1, <1>5, <2>1, GoodProgram
<1>6. CASE leave \/ signal_returns BY <1>1, <1>6, GoodExits
<1>7. CASE \E n \in AllNames, c \in Conditions \cup {NIL} : invoke_restart(n, c) \/ no_restart(n, c)
  BY <1>1, <1>7, GoodExits
<1>8. CASE next_cluster \/ skip_handler \/ call_handler \/ handler_case_clause
  <2>1. Signalling
    BY <1>8 DEF next_cluster, skip_handler, call_handler, handler_case_clause, AtHandler
  <2>2. QED BY <1>1, <1>8, <2>1, GoodLoop
<1>9. CASE error_debugger \/ cerror_debugger BY <1>1, <1>9, GoodDebuggers
<1>10. QED BY <1>1, <1>2, <1>3, <1>4, <1>5, <1>6, <1>7, <1>8, <1>9 DEF Next

AllFit == Good(stack)

(* All activations fit, at every step.                                       *)
LEMMA AlwaysGood ==
  Spec => []AllFit
<1>1. Init => AllFit BY GoodInit DEF AllFit
<1>2. AllFit /\ [Next]_vars => AllFit' BY GoodNext DEF AllFit
<1>3. QED BY <1>1, <1>2, PTL DEF Spec

------------------------------------------------------------------------------
(* What follows from it.                                                     *)

(* *handler-clusters* has the clusters that are in effect, at every form,    *)
(* handler and debugger, whatever signals are under way and however they are *)
(* left.                                                                     *)
THEOREM HandlersAreInEffect ==
  Spec => []HandlersInEffect
<1>1. ASSUME AllFit PROVE HandlersInEffect
  <2>1. PICK st : st = stack OBVIOUS
  <2>2. DOMAIN st = 1 .. Len(st) /\ \A k \in 1 .. Len(st) : Fits(st, InEffect(st), k)
    BY <1>1, <2>1, GoodNested DEF AllFit
  <2>3. \A k \in DOMAIN st : FitsHandlers(st[k], InEffect(st)[k]) BY <2>2 DEF Fits
  <2>4. QED BY <2>1, <2>3 DEF HandlersInEffect, FitsHandlers
<1>2. QED BY <1>1, AlwaysGood, PTL

(* signal() asks every handler in effect that applies, once, the newest      *)
(* cluster first and each cluster in its order.                              *)
THEOREM HandlersAreAskedInOrder ==
  Spec => []AskedInOrder
<1>1. ASSUME AllFit PROVE AskedInOrder
  <2>1. PICK st : st = stack OBVIOUS
  <2>2. DOMAIN st = 1 .. Len(st) /\ \A k \in 1 .. Len(st) : Fits(st, InEffect(st), k)
    BY <1>1, <2>1, GoodNested DEF AllFit
  <2>3. \A k \in Signals(st) : FitsAsked(st, st[k], InEffect(st)[k - 1])
    BY <2>2 DEF Fits, Signals
  <2>4. QED BY <2>1, <2>3 DEF AskedInOrder, FitsAsked
<1>2. QED BY <1>1, AlwaysGood, PTL

(* The restart of warn() and cerror() is offered to those who look for one   *)
(* for their condition, and what is offered belongs to it or to none.        *)
LEMMA OwnRestart ==
  ASSUME NEW st, Good(st), NEW k \in Signals(st), st[k].caller \in {"warn", "cerror"},
         NEW r, r = find_restart(st, st[k - 2].name, st[k].cond)
  PROVE  /\ r >= k - 2
         /\ \/ \A b \in ToSet(Vals(st).associations) : r \in b.restarts => b.cond = st[k].cond
            \/ \E b \in ToSet(Vals(st).associations) : r \in b.restarts /\ b.cond = st[k].cond
<1>1. PICK n \in Nat : n = Len(st) /\ n > 0 /\ n \in 1 .. Len(st) BY GoodNested
<1>2. k \in 1 .. n /\ st[k].kind = "signal" BY <1>1, GoodNested DEF Signals
<1>3. Fits(st, InEffect(st), k) /\ Fits(st, InEffect(st), n) BY <1>1, <1>2, GoodNested
<1>4. PICK c : c = st[k].cond OBVIOUS
<1>5. c \in Conditions /\ c # NIL BY <1>2, <1>3, <1>4, ConditionsAssumption DEF Fits, FitsSignal
<1>6. k > 2 /\ Associates(st[k - 1], c) /\ st[k - 2].kind = "restarts"
  BY <1>2, <1>3, <1>4 DEF Fits, FitsOwn
<1>7. PICK own \in Nat : own = k - 2 /\ own \in 1 .. n /\ own + 1 = k - 1 BY <1>1, <1>2, <1>6
<1>8. PICK as, rs : as = Vals(st).associations /\ rs = Vals(st).restarts OBVIOUS
<1>9. as = st[n].vals.associations /\ rs = st[n].vals.restarts BY <1>1, <1>8 DEF Vals, Last
<1>10. st[n] \in Frame BY <1>1, GoodNested
<1>11. as \in Seq(Association) /\ rs \in Seq(Nat) BY <1>9, <1>10 DEF Frame, Value
<1>12. ASSUME NEW b \in ToSet(as), NEW x \in b.restarts
       PROVE  Associates(st[x + 1], b.cond)
  <2>1. FitsAssociations(st, n) BY <1>3 DEF Fits
  <2>2. QED BY <1>9, <1>12, <2>1 DEF FitsAssociations
<1>13. own \in ToSet(rs)
  <2>1. FitsRestarts(st, n) BY <1>3 DEF Fits
  <2>2. QED BY <1>6, <1>7, <1>9, <2>1 DEF FitsRestarts
<1>14. own \notin Other(st, c)
  <2>1. SUFFICES ASSUME own \in Other(st, c) PROVE FALSE OBVIOUS
  <2>2. PICK b \in ToSet(as) : b.cond # c /\ own \in b.restarts BY <1>8, <2>1 DEF Other
  <2>3. Associates(st[own + 1], b.cond) BY <1>12, <2>2
  <2>4. Associates(st[own + 1], c) BY <1>6, <1>7
  <2>5. QED BY <2>2, <2>3, <2>4 DEF Associates
<1>15. own \in compute_restarts(st, c) BY <1>8, <1>13, <1>14 DEF compute_restarts
<1>16. PICK i \in DOMAIN rs : rs[i] = own BY <1>13 DEF ToSet
<1>17. PICK nm : nm = st[own].name OBVIOUS
<1>18. r = find_restart(st, nm, c) BY <1>4, <1>7, <1>17
<1>19. r # 0
  <2>1. PICK found : found = {j \in DOMAIN rs : rs[j] \in compute_restarts(st, c)
                                                /\ st[rs[j]].name = nm}
    OBVIOUS
  <2>2. i \in found BY <1>15, <1>16, <1>17, <2>1
  <2>3. r = IF found = {} THEN 0 ELSE rs[Min(found)] BY <1>8, <1>18, <2>1 DEF find_restart
  <2>4. DOMAIN rs = 1 .. Len(rs) /\ Len(rs) \in Nat BY <1>11
  <2>5. Min(found) \in found
    <3>1. found \subseteq 1 .. Len(rs) BY <2>1, <2>4
    <3>2. found # {} BY <2>2
    <3>3. QED BY <2>4, <3>1, <3>2, MinMax
  <2>6. FitsRestarts(st, n) BY <1>3 DEF Fits
  <2>7. rs[Min(found)] \in 1 .. n BY <1>9, <2>1, <2>5, <2>6 DEF FitsRestarts
  <2>8. QED BY <1>1, <2>2, <2>3, <2>7
<1>20. r \in compute_restarts(st, c) /\ r >= own
  <2>1. /\ r \in compute_restarts(st, c)
        /\ \A j \in DOMAIN Vals(st).restarts :
              /\ Vals(st).restarts[j] \in compute_restarts(st, c)
              /\ st[Vals(st).restarts[j]].name = nm
              => r >= Vals(st).restarts[j]
    BY <1>18, <1>19, FoundRestart
  <2>2. QED BY <1>8, <1>15, <1>16, <1>17, <2>1
<1>21. CASE r \in Associated(st, c)
  <2>1. PICK A : A = Associations(st, c) OBVIOUS
  <2>2. A # {} /\ r \in as[Max(A)].restarts BY <1>8, <1>21, <2>1 DEF Associated
  <2>3. DOMAIN as = 1 .. Len(as) /\ Len(as) \in Nat BY <1>11, LenProperties
  <2>4. A \subseteq 1 .. Len(as) BY <1>8, <2>1, <2>3 DEF Associations
  <2>5. Max(A) \in A BY <2>2, <2>3, <2>4, MinMax
  <2>6. Max(A) \in DOMAIN as /\ as[Max(A)].cond = c BY <1>8, <2>1, <2>5 DEF Associations
  <2>7. as[Max(A)] \in ToSet(as) BY <2>6 DEF ToSet
  <2>8. QED BY <1>4, <1>7, <1>8, <1>20, <2>2, <2>6, <2>7
<1>22. CASE r \notin Other(st, c)
  <2>1. \A b \in ToSet(as) : r \in b.restarts => b.cond = c BY <1>8, <1>22 DEF Other
  <2>2. QED BY <1>4, <1>7, <1>8, <1>20, <2>1
<1>23. QED BY <1>5, <1>20, <1>21, <1>22 DEF compute_restarts

(* A handler that calls continue or muffle-warning with its condition goes   *)
(* on behind the cerror or warn that has signalled it, or at a restart       *)
(* established since that belongs to the condition or to none.               *)
THEOREM RestartsBelongToConditions ==
  Spec => []ContinuesItsOwn
<1>1. ASSUME AllFit PROVE ContinuesItsOwn
  <2>1. PICK st : st = stack OBVIOUS
  <2>2. Top.vals = Vals(st) BY <2>1 DEF Top, Vals
  <2>3. ASSUME NEW k \in Signals(stack), stack[k].caller \in {"warn", "cerror"}
        PROVE  LET own == k - 2
                   r == find_restart(stack, stack[own].name, stack[k].cond)
                   owners == {a.cond : a \in {b \in ToSet(Top.vals.associations) : r \in b.restarts}}
               IN r >= own /\ (owners = {} \/ stack[k].cond \in owners)
    <3>1. PICK r : r = find_restart(stack, stack[k - 2].name, stack[k].cond) OBVIOUS
    <3>2. PICK S : S = ToSet(Vals(st).associations) OBVIOUS
    <3>3. PICK o : o = {a.cond : a \in {b \in S : r \in b.restarts}} OBVIOUS
    <3>4. /\ r >= k - 2
          /\ \/ \A b \in S : r \in b.restarts => b.cond = st[k].cond
             \/ \E b \in S : r \in b.restarts /\ b.cond = st[k].cond
      <4>1. k \in Signals(st) /\ st[k].caller \in {"warn", "cerror"}
            /\ r = find_restart(st, st[k - 2].name, st[k].cond)
        BY <2>1, <2>3, <3>1
      <4>2. QED BY <1>1, <2>1, <3>2, <4>1, OwnRestart DEF AllFit
    <3>5. o = {} \/ st[k].cond \in o BY <3>3, <3>4
    <3>6. o = {a.cond : a \in {b \in ToSet(Top.vals.associations) : r \in b.restarts}}
      BY <2>2, <3>2, <3>3
    <3>7. r >= k - 2 /\ (o = {} \/ stack[k].cond \in o) BY <2>1, <3>4, <3>5
    <3>8. QED BY <3>1, <3>6, <3>7
  <2>4. QED BY <2>3, Zenon DEF ContinuesItsOwn
<1>2. QED BY <1>1, AlwaysGood, PTL

===============================================================================
