---------------------------- MODULE DynamicBinding ----------------------------
(***************************************************************************)
(* What special variables promise: every thread has its own stack of       *)
(* bindings, a variable means its newest binding in the thread and its     *)
(* global value if the thread has none, and leaving a form, be it from     *)
(* inside other forms, drops exactly the bindings made since it was        *)
(* entered.                                                                *)
(***************************************************************************)
EXTENDS Integers, Sequences

CONSTANTS Threads, Symbols, Values, UNBOUND

VARIABLES
  cells,   (* the bindings of each thread, oldest first                      *)
  forms,   (* how many bindings there were when each active form was entered *)
  global   (* the value outside of all bindings                              *)

Content == Values \cup {UNBOUND}

Init ==
  /\ cells = [t \in Threads |-> << >>]
  /\ forms = [t \in Threads |-> << >>]
  /\ global = [s \in Symbols |-> UNBOUND]

Bindings(t, s) == {k \in DOMAIN cells[t] : cells[t][k].sym = s}

Newest(t, s) == CHOOSE k \in Bindings(t, s) : \A m \in Bindings(t, s) : m <= k

Lookup(t, s) ==
  IF Bindings(t, s) = {} THEN global[s] ELSE cells[t][Newest(t, s)].val

Enter(t) ==
  /\ forms' = [forms EXCEPT ![t] = Append(@, Len(cells[t]))]
  /\ UNCHANGED <<cells, global>>

Bind(t, s, v) ==
  /\ cells' = [cells EXCEPT ![t] = Append(@, [sym |-> s, val |-> v])]
  /\ UNCHANGED <<forms, global>>

(* An assignment goes to the newest binding of the thread, and reaches other *)
(* threads only where there is none.                                         *)
Assign(t, s, v) ==
  /\ IF Bindings(t, s) = {}
       THEN global' = [global EXCEPT ![s] = v] /\ UNCHANGED cells
       ELSE cells' = [cells EXCEPT ![t][Newest(t, s)].val = v] /\ UNCHANGED global
  /\ UNCHANGED forms

(* Leave the k-th active form and all forms inside of it.                    *)
Leave(t, k) ==
  /\ cells' = [cells EXCEPT ![t] = SubSeq(@, 1, forms[t][k])]
  /\ forms' = [forms EXCEPT ![t] = SubSeq(@, 1, k - 1)]
  /\ UNCHANGED global

Next ==
  \E t \in Threads :
    \/ Enter(t)
    \/ \E s \in Symbols, v \in Content : Bind(t, s, v)
    \/ \E s \in Symbols, v \in Values : Assign(t, s, v)
    \/ \E k \in DOMAIN forms[t] : Leave(t, k)

Spec == Init /\ [][Next]_<<cells, forms, global>>

==============================================================================
