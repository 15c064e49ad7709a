----------------------------- MODULE Conditions -----------------------------
(***************************************************************************)
(* Conditions, handlers, restarts and the debugger (lisp/signal.lisp,      *)
(* restart.lisp and invoke-debugger.lisp).                                 *)
(*                                                                         *)
(* Every form and call that binds one of the special variables below has   *)
(* an activation; the values of the variables are those of the newest one  *)
(* (module Unwinding has what leaving several at once does to bindings).   *)
(* A cluster of handlers and a restart are named by the activation that    *)
(* has established them.  signal() calls the handlers on top of its own    *)
(* activation, and a handler may do what any program may do: establish     *)
(* handlers and restarts, signal, or leave by a restart.                   *)
(*                                                                         *)
(* Left out: *break-on-signals*, the hooks of the debugger, tests of       *)
(* restarts, restart-bind with a function that returns, and a program that *)
(* calls with-condition-restarts itself.                                   *)
(***************************************************************************)
EXTENDS Integers, Sequences, FiniteSets, SequencesExt

CONSTANTS
  Conditions,     (* condition objects                                       *)
  CONTROL_ERROR,  (* the one that is signalled if no restart is found        *)
  Clusters,       (* clusters of handlers: the conditions that each handles  *)
  Names,          (* names of the restarts that the program establishes      *)
  MaximumErrorDepth,  (* *maximum-error-depth*                               *)
  MaxForms,       (* bound: handler-bind, handler-case, restart-case forms   *)
  MaxSignals,     (* bound: calls of signal() that have not returned         *)
  MaxLevel,       (* bound: *debug-level*                                    *)
  NIL

Callers == {"signal", "error", "warn", "cerror"}

ASSUME ConditionsAssumption ==
  /\ CONTROL_ERROR \in Conditions
  /\ NIL \notin Conditions
  /\ Clusters \subseteq Seq(SUBSET Conditions)
  /\ MaximumErrorDepth \in Nat
  /\ MaxForms \in Nat /\ MaxSignals \in Nat /\ MaxLevel \in Nat

VARIABLES
  stack,     (* the activations, oldest first                                *)
  returned,  (* a call of error() has returned                               *)
  ended      (* the error depth was exceeded                                 *)

vars == <<stack, returned, ended>>

(* handlers: *handler-clusters*; restarts: *restart-clusters*, each of one   *)
(* restart; associations: *condition-restarts*; depth: *current-error-depth**)
(* and level: *debug-level*.                                                 *)
TopLevel ==
  [handlers |-> << >>, restarts |-> <<1>>, associations |-> << >>, depth |-> 0, level |-> 0]

(* base: the activations that are left when control goes on behind the form. *)
(* For an activation of signal(), from and next are the cluster and the      *)
(* handler in it that are to be asked next, and asked those that have been;  *)
(* for a handler, from is the cluster that it is in.                         *)
Activation(kind, vals, base) ==
  [kind |-> kind, vals |-> vals, base |-> base, name |-> NIL, cond |-> NIL,
   caller |-> NIL, cluster |-> << >>, exits |-> FALSE, from |-> 0, next |-> 1,
   asked |-> << >>]

(* top-level-loop: the restart starts the loop again.                        *)
Init ==
  /\ stack = <<[Activation("top", TopLevel, 1) EXCEPT !.name = "top-level"]>>
  /\ returned = FALSE
  /\ ended = FALSE

Top == Last(stack)

Running == ~ended /\ Top.kind \in {"top", "handlers", "restarts", "handler", "debugger"}

Forms(st) == {k \in DOMAIN st : st[k].kind \in {"handlers", "restarts"}}
Signals(st) == {k \in DOMAIN st : st[k].kind = "signal"}

Bounded ==
  /\ Cardinality(Forms(stack')) <= MaxForms
  /\ Cardinality(Signals(stack')) <= MaxSignals
  /\ Last(stack').vals.level <= MaxLevel

------------------------------------------------------------------------------
(* What compute-restarts and find-restart return.                            *)

Vals(st) == Last(st).vals

(* The places of the associations with c in *condition-restarts*.            *)
Associations(st, c) ==
  {i \in DOMAIN Vals(st).associations : Vals(st).associations[i].cond = c}

(* The walk over *condition-restarts* keeps the oldest association with c,   *)
(* and all others.                                                           *)
Associated(st, c) ==
  IF Associations(st, c) = {} THEN {}
  ELSE Vals(st).associations[Max(Associations(st, c))].restarts

Other(st, c) ==
  UNION {a.restarts : a \in {b \in ToSet(Vals(st).associations) : b.cond # c}}

(* Mutant: restarts of other conditions are offered too.                     *)
compute_restarts_all(st, c) == ToSet(Vals(st).restarts)

(* Their order is that of *restart-clusters*.                                *)
compute_restarts(st, c) ==
  {r \in ToSet(Vals(st).restarts) :
     c = NIL \/ r \in Associated(st, c) \/ r \notin Other(st, c)}

(* The first one of the name, or 0 if there is none.                         *)
find_restart(st, n, c) ==
  LET rs == Vals(st).restarts
      found == {i \in DOMAIN rs : rs[i] \in compute_restarts(st, c) /\ st[rs[i]].name = n}
  IN IF found = {} THEN 0 ELSE rs[Min(found)]

------------------------------------------------------------------------------
(* Forms and calls, as what they make of the activations st.                 *)

RestartCase(st, n, base) ==
  Append(st, [Activation("restarts", [Vals(st) EXCEPT !.restarts = <<Len(st) + 1>> \o @], base)
                EXCEPT !.name = n])

(* with-condition-restarts; assoc finds the newest association.              *)
WithConditionRestarts(st, c, r, base) ==
  LET old == Associations(st, c)
      rs == {r} \cup (IF old = {} THEN {} ELSE Vals(st).associations[Min(old)].restarts)
  IN Append(st, Activation("associations",
                  [Vals(st) EXCEPT !.associations = <<[cond |-> c, restarts |-> rs]>> \o @],
                  base))

Signal(st, c, caller, base) ==
  Append(st, [Activation("signal", Vals(st), base) EXCEPT !.cond = c, !.caller = caller])

(* (restart-case (signal c) (n ...)), which warn is, and which restart-case  *)
(* makes of a call of one of the Callers.                                    *)
Munged(st, n, c, base) ==
  LET inner == RestartCase(st, n, base) IN WithConditionRestarts(inner, c, Len(inner), base)

(* cerror associates its restart with the condition itself.                  *)
Cerror(st, c, base) ==
  LET inner == RestartCase(st, "continue", base)
  IN Signal(WithConditionRestarts(inner, c, find_restart(inner, "continue", NIL), base),
            c, "cerror", base)

Call(st, caller, c, base) ==
  CASE caller \in {"signal", "error"} -> Signal(st, c, caller, base)
    [] caller = "warn" -> Signal(Munged(st, "muffle-warning", c, base), c, "warn", base)
    [] caller = "cerror" -> Cerror(st, c, base)

(* invoke-debugger: only a debugger in a debugger has a restart.             *)
InvokeDebugger(st, c, caller, base, depth) ==
  LET v == Vals(st) IN
  Append(st, [Activation("debugger",
                [v EXCEPT !.depth = depth, !.level = @ + 1,
                          !.restarts = IF v.level > 0 THEN <<Len(st) + 1>> \o @ ELSE @], base)
                EXCEPT !.name = "abort", !.cond = c, !.caller = caller])

------------------------------------------------------------------------------
(* What the program does.                                                    *)

handler_form(cluster, exits) ==
  /\ Running
  /\ stack' = Append(stack,
       [Activation("handlers", [Top.vals EXCEPT !.handlers = <<Len(stack) + 1>> \o @], Len(stack))
          EXCEPT !.cluster = cluster, !.exits = exits])
  /\ Bounded
  /\ UNCHANGED <<returned, ended>>

handler_bind(cluster) == handler_form(cluster, FALSE)
handler_case(cluster) == handler_form(cluster, TRUE)

restart_case(n) ==
  /\ Running
  /\ stack' = RestartCase(stack, n, Len(stack))
  /\ Bounded
  /\ UNCHANGED <<returned, ended>>

(* signal(), error(), warn() or cerror()                                     *)
call(caller, c) ==
  /\ Running
  /\ stack' = Call(stack, caller, c, Len(stack))
  /\ Bounded
  /\ UNCHANGED <<returned, ended>>

(* The same as the only expression of a restart-case.                        *)
restart_case_call(n, caller, c) ==
  /\ Running
  /\ stack' = Call(Munged(stack, n, c, Len(stack)), caller, c, Len(stack))
  /\ Bounded
  /\ UNCHANGED <<returned, ended>>

(* A form ends, or a handler declines.                                       *)
leave ==
  /\ Running
  /\ Top.kind \in {"handlers", "restarts", "handler"}
  /\ stack' = SubSeq(stack, 1, Top.base)
  /\ UNCHANGED <<returned, ended>>

(* continue, abort, muffle-warning and the like, with a condition or NIL.    *)
(* Behind the debugger that error() has called, error() returns.             *)
invoke_restart(n, c) ==
  LET r == find_restart(stack, n, c) IN
  /\ Running
  /\ r # 0
  /\ stack' = SubSeq(stack, 1, stack[r].base)
  /\ returned' = (returned \/ (stack[r].kind = "debugger" /\ stack[r].caller = "error"))
  /\ UNCHANGED ended

(* These do nothing if they find no restart.                                 *)
MayFindNone == {"continue", "store-value", "use-value"}

(* find-restart-or-control-error                                             *)
no_restart(n, c) ==
  /\ Running
  /\ find_restart(stack, n, c) = 0
  /\ n \notin MayFindNone
  /\ stack' = Call(stack, "error", CONTROL_ERROR, Len(stack))
  /\ Bounded
  /\ UNCHANGED <<returned, ended>>

------------------------------------------------------------------------------
(* The loop of signal().                                                     *)

Signalling == ~ended /\ Top.kind = "signal"

(* The dolist over a cluster is not at its end.                              *)
InCluster == IF Top.from = 0 THEN FALSE ELSE Top.next <= Len(stack[Top.from].cluster)

(* Mutant: the cluster is dropped only after its handlers have been called.  *)
next_cluster_late ==
  /\ Signalling
  /\ ~InCluster
  /\ Top.vals.handlers # << >>
  /\ stack' = [stack EXCEPT ![Len(stack)] =
       [Top EXCEPT !.from = Head(Top.vals.handlers), !.next = 1,
                   !.vals.handlers = IF Top.from = 0 THEN @ ELSE Tail(@)]]
  /\ UNCHANGED <<returned, ended>>

next_cluster ==
  /\ Signalling
  /\ ~InCluster
  /\ Top.vals.handlers # << >>
  /\ stack' = [stack EXCEPT ![Len(stack)] =
       [Top EXCEPT !.from = Head(Top.vals.handlers), !.next = 1,
                   !.vals.handlers = Tail(Top.vals.handlers)]]
  /\ UNCHANGED <<returned, ended>>

AtHandler == Signalling /\ InCluster

Applies == Top.cond \in stack[Top.from].cluster[Top.next]

skip_handler ==
  /\ AtHandler /\ ~Applies
  /\ stack' = [stack EXCEPT ![Len(stack)].next = @ + 1]
  /\ UNCHANGED <<returned, ended>>

(* Mutant: only the first handler of a cluster that applies is called.       *)
Ask_first(st) ==
  [st EXCEPT ![Len(st)] =
     [Top EXCEPT !.next = 1 + Len(st[Top.from].cluster),
                 !.asked = Append(@, <<Top.from, Top.next>>)]]

Ask(st) ==
  [st EXCEPT ![Len(st)] =
     [Top EXCEPT !.next = Top.next + 1, !.asked = Append(Top.asked, <<Top.from, Top.next>>)]]

call_handler ==
  /\ AtHandler /\ Applies
  /\ ~stack[Top.from].exits
  /\ stack' = Append(Ask(stack), [Activation("handler", Top.vals, Len(stack))
                                    EXCEPT !.from = Top.from, !.cond = Top.cond])
  /\ UNCHANGED <<returned, ended>>

(* The handler of a handler-case goes to its clause, outside of the form.    *)
handler_case_clause ==
  /\ AtHandler /\ Applies
  /\ stack[Top.from].exits
  /\ stack' = SubSeq(stack, 1, stack[Top.from].base)
  /\ UNCHANGED <<returned, ended>>

Asked ==
  /\ Signalling
  /\ ~InCluster
  /\ Top.vals.handlers = << >>

(* No handler has left: signal() and warn() return.                          *)
signal_returns ==
  /\ Asked
  /\ Top.caller \in {"signal", "warn"}
  /\ stack' = SubSeq(stack, 1, Top.base)
  /\ UNCHANGED <<returned, ended>>

(* error() counts, cerror() does not.                                        *)
error_debugger ==
  /\ Asked
  /\ Top.caller = "error"
  /\ LET depth == Top.vals.depth + 1 IN
       IF depth > MaximumErrorDepth
         THEN ended' = TRUE /\ UNCHANGED stack
         ELSE /\ stack' = InvokeDebugger(Front(stack), Top.cond, "error", Top.base, depth)
              /\ Bounded
              /\ UNCHANGED ended
  /\ UNCHANGED returned

cerror_debugger ==
  /\ Asked
  /\ Top.caller = "cerror"
  /\ stack' = InvokeDebugger(Front(stack), Top.cond, "cerror", Top.base, Top.vals.depth)
  /\ Bounded
  /\ UNCHANGED <<returned, ended>>

AllNames == Names \cup {"continue", "muffle-warning", "abort", "top-level"}

Next ==
  \/ \E hs \in Clusters : handler_bind(hs) \/ handler_case(hs)
  \/ \E n \in Names : restart_case(n)
  \/ \E caller \in Callers, c \in Conditions :
       call(caller, c) \/ \E n \in Names : restart_case_call(n, caller, c)
  \/ leave
  \/ \E n \in AllNames, c \in Conditions \cup {NIL} : invoke_restart(n, c) \/ no_restart(n, c)
  \/ next_cluster \/ skip_handler \/ call_handler \/ handler_case_clause
  \/ signal_returns \/ error_debugger \/ cerror_debugger

Spec == Init /\ [][Next]_vars

------------------------------------------------------------------------------
(* Properties.                                                               *)

(* The clusters in effect at each activation: a handler runs with those that *)
(* were in effect where its own cluster was established.                     *)
InEffect(st) ==
  LET at[k \in 0 .. Len(st)] ==
        IF k = 0 THEN << >>
        ELSE IF st[k].kind = "handlers" THEN <<k>> \o at[k - 1]
        ELSE IF st[k].kind = "handler" THEN at[st[k].from - 1]
        ELSE at[k - 1]
  IN at

(* *handler-clusters* has the clusters in effect, whatever signals are under *)
(* way: a handler is not called for what happens in a handler of its own     *)
(* cluster, and is there again once that has been left by whatever exit.     *)
HandlersInEffect ==
  \A k \in DOMAIN stack :
    stack[k].kind # "signal" => stack[k].vals.handlers = InEffect(stack)[k]

(* The handlers that apply to c, each a cluster and a place in it, of the    *)
(* clusters fs.                                                              *)
Handlers(st, fs, c) ==
  {h \in UNION {{f} \X DOMAIN st[f].cluster : f \in fs} : c \in st[h[1]].cluster[h[2]]}

(* A newer cluster comes first, and each cluster is in its order.            *)
Before(h, g) == h[1] > g[1] \/ (h[1] = g[1] /\ h[2] < g[2])

(* The signal s has still to come to the handler.                            *)
Due(s, h) == h[1] \in ToSet(s.vals.handlers) \/ (h[1] = s.from /\ h[2] >= s.next)

(* signal() asks every handler in effect that applies, once, the newest      *)
(* cluster first and each cluster in its order, although the handlers signal *)
(* themselves and the variable it walks along is bound again and again.      *)
AskedInOrder ==
  \A k \in Signals(stack) :
    LET s == stack[k]
    IN /\ \A m, n \in DOMAIN s.asked : m < n => Before(s.asked[m], s.asked[n])
       /\ ToSet(s.asked) = {h \in Handlers(stack, ToSet(InEffect(stack)[k - 1]), s.cond) : ~Due(s, h)}

(* "associate the indicated restarts with the condition to be signaled": a   *)
(* handler that calls continue or muffle-warning with its condition, be it   *)
(* inside of handlers of other conditions, goes on behind the cerror or warn *)
(* that has signalled it, or at a restart established since which belongs    *)
(* to it or to no condition.                                                 *)
ContinuesItsOwn ==
  \A k \in Signals(stack) :
    stack[k].caller \in {"warn", "cerror"} /\ k < Len(stack) /\ Running =>
      LET own == k - 2
          r == find_restart(stack, stack[own].name, stack[k].cond)
          owners == {a.cond : a \in {b \in ToSet(Top.vals.associations) : r \in b.restarts}}
      IN r >= own /\ (owners = {} \/ stack[k].cond \in owners)

(* "signal_lisp_error(...); // not reached": a call of error() does not      *)
(* return to its caller.                                                     *)
ErrorDoesNotReturn == ~returned

=============================================================================
