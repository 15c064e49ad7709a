--------------------------- MODULE SpecialBindings ---------------------------
(***************************************************************************)
(* Shallow binding of special variables, kernel/Thread.cpp and             *)
(* Symbol::assign_binding_index().                                         *)
(*                                                                         *)
(* A thread keeps the current value of every variable it has bound in an   *)
(* array, indexed by the binding index of the symbol, and saves the value  *)
(* it replaces on its binding stack.  Binding indices are handed out once  *)
(* per symbol, to all threads, under binding_index_mutex.  A form that     *)
(* binds saves the index of the binding stack in a C variable on entry and *)
(* unbinds down to it when it is left, normally or by a non-local exit.    *)
(***************************************************************************)
EXTENDS Integers, Sequences, FiniteSets

CONSTANTS
  Threads, Symbols, Values,
  MAX_THREAD_LOCAL_VALUES,     (* size of the array of current values        *)
  INITIAL_BINDING_STACK_SIZE,  (* entries; a binding takes two               *)
  MaxCapacity,                 (* bound: entries of the largest stack        *)
  MaxExtents,                  (* bound: nested forms of a thread            *)
  ClientMay,                   (* see ClientBehaviours                       *)
  UNBOUND,                     (* NULL_VALUE                                 *)
  NO_TLV,                      (* NO_THREAD_LOCAL_VALUE                      *)
  NULL                         (* no thread                                  *)

(* "loop at bottom": dolist or dotimes over a special variable in a thread   *)
(* that has no bindings yet; "rebind global": compiled (let ((*x* *x*)) ...) *)
(* in a thread that has not bound *x* yet.                                   *)
ClientBehaviours == {"loop at bottom", "rebind global"}

ASSUME BindingsAssumption ==
  /\ IsFiniteSet(Symbols)
  /\ MAX_THREAD_LOCAL_VALUES \in Nat
  /\ INITIAL_BINDING_STACK_SIZE \in Nat \ {0}
  /\ INITIAL_BINDING_STACK_SIZE % 2 = 0
  /\ MaxCapacity \in Nat
  /\ MaxExtents \in Nat
  /\ UNBOUND \notin Values
  /\ NO_TLV \notin Values \cup {UNBOUND}
  /\ NULL \notin Threads
  /\ ClientMay \subseteq ClientBehaviours

(* The program binds fewer special variables than the arrays have slots.     *)
(* Nothing in the code checks it: with more, the index that                  *)
(* assign_binding_index() hands out lies outside of the arrays.              *)
ASSUME SlotsAssumption == Cardinality(Symbols) < MAX_THREAD_LOCAL_VALUES

VARIABLES
  binding_index,       (* Symbol::_binding_index, 0 if there is none yet     *)
  next_binding_index,
  mutex,               (* the thread that holds binding_index_mutex          *)
  value,               (* Symbol::_value, shared by the threads              *)
  tlv,                 (* _thread_local_values                               *)
  stack,               (* the binding stack: pairs of old value and symbol   *)
  capacity,            (* _binding_stack_capacity                            *)
  saved,               (* last_special_binding of the active forms           *)
  pc,                  (* where a thread is in a bind that assigns an index  *)
  pending,             (* the symbol and the value of that bind              *)
  reg,                 (* next_binding_index as the thread has read it       *)
  exited               (* exit(EXIT_FAILURE) was called                      *)

shared == <<binding_index, next_binding_index, mutex>>
bindings == <<tlv, stack, capacity>>
control == <<pc, pending, reg>>
vars == <<shared, value, bindings, saved, control, exited>>

Content == Values \cup {UNBOUND}
Indices == 0 .. MAX_THREAD_LOCAL_VALUES - 1
NoBind == [sym |-> NULL, val |-> UNBOUND]

Init ==
  /\ binding_index = [s \in Symbols |-> 0]
  /\ next_binding_index = 1
  /\ mutex = NULL
  /\ value = [s \in Symbols |-> UNBOUND]
  /\ tlv = [t \in Threads |-> [i \in Indices |-> NO_TLV]]
  /\ stack = [t \in Threads |-> << >>]
  /\ capacity = [t \in Threads |-> INITIAL_BINDING_STACK_SIZE]
  /\ saved = [t \in Threads |-> << >>]
  /\ pc = [t \in Threads |-> "run"]
  /\ pending = [t \in Threads |-> NoBind]
  /\ reg = [t \in Threads |-> 0]
  /\ exited = FALSE

------------------------------------------------------------------------------

Running(t) == ~exited /\ pc[t] = "run"

symbol_thread_local_value(t, s) ==
  IF binding_index[s] = 0 THEN NO_TLV ELSE tlv[t][binding_index[s]]

symbol_value(t, s) ==
  IF symbol_thread_local_value(t, s) # NO_TLV
    THEN symbol_thread_local_value(t, s)
    ELSE value[s]

(* _binding_stack_index                                                      *)
StackIndex(t) == 2 * Len(stack[t])

Full(t) == StackIndex(t) >= capacity[t]

(* Push the value to restore and the name, in a stack twice as large if this *)
(* one is full, and set the current value; s has an index.                   *)
Push(t, s, old, v) ==
  /\ capacity' = [capacity EXCEPT ![t] = IF Full(t) THEN 2 * @ ELSE @]
  /\ stack' = [stack EXCEPT ![t] = Append(@, [old |-> old, sym |-> s])]
  /\ tlv' = [tlv EXCEPT ![t][binding_index[s]] = v]

(* A form starts: let, progv and the like, or a loop over a special variable,*)
(* which makes one binding.                                                  *)
enter(t, kind) ==
  /\ Running(t)
  /\ Len(saved[t]) < MaxExtents
  /\ kind = "loop" /\ StackIndex(t) = 0 => "loop at bottom" \in ClientMay
  /\ saved' = [saved EXCEPT ![t] = Append(@, [mark |-> Len(stack[t]), kind |-> kind])]
  /\ UNCHANGED <<shared, value, bindings, control, exited>>

MayBind(t) ==
  /\ Running(t)
  /\ saved[t] # << >>
  /\ Full(t) => 2 * capacity[t] <= MaxCapacity
  /\ LET form == saved[t][Len(saved[t])]
     IN form.kind = "loop" => Len(stack[t]) = form.mark

(* The thread has read binding index 0 and goes to assign_binding_index().   *)
AssignIndex(t, s, v) ==
  /\ MayBind(t)
  /\ binding_index[s] = 0
  /\ pc' = [pc EXCEPT ![t] = "lock"]
  /\ pending' = [pending EXCEPT ![t] = [sym |-> s, val |-> v]]
  /\ UNCHANGED <<shared, value, bindings, saved, reg, exited>>

(* bind_special() and slow_bind_special() of a symbol that has an index.     *)
bind_special(t, s, v) ==
  /\ MayBind(t)
  /\ binding_index[s] # 0
  /\ Push(t, s, tlv[t][binding_index[s]], v)
  /\ UNCHANGED <<shared, value, saved, control, exited>>

(* bind_special() of a symbol for which it read binding index 0.             *)
bind_special_first(t, s, v) == AssignIndex(t, s, v)

(* bind_special_to_current_value() of such a symbol; NO_TLV stands for the   *)
(* value that it reads once the index is assigned.                           *)
bind_current_first(t, s) ==
  /\ "rebind global" \in ClientMay
  /\ AssignIndex(t, s, NO_TLV)

(* Mutant: assign_binding_index() without the mutex.                         *)
lock_ignored(t) ==
  /\ ~exited /\ pc[t] = "lock"
  /\ mutex' = t
  /\ pc' = [pc EXCEPT ![t] = "locked"]
  /\ UNCHANGED <<binding_index, next_binding_index, value, bindings, saved, pending, reg, exited>>

lock(t) ==
  /\ ~exited /\ pc[t] = "lock"
  /\ mutex = NULL
  /\ mutex' = t
  /\ pc' = [pc EXCEPT ![t] = "locked"]
  /\ UNCHANGED <<binding_index, next_binding_index, value, bindings, saved, pending, reg, exited>>

(* Mutant: "if (_binding_index == 0)" is not tested again under the mutex.   *)
read_next_always(t) ==
  /\ ~exited /\ pc[t] = "locked"
  /\ reg' = [reg EXCEPT ![t] = next_binding_index]
  /\ pc' = [pc EXCEPT ![t] = "write"]
  /\ UNCHANGED <<shared, value, bindings, saved, pending, exited>>

(* Mutant: the mutex is not released when an index is found.                 *)
read_next_keeps_lock(t) ==
  /\ ~exited /\ pc[t] = "locked"
  /\ IF binding_index[pending[t].sym] = 0
       THEN /\ reg' = [reg EXCEPT ![t] = next_binding_index]
            /\ pc' = [pc EXCEPT ![t] = "write"]
       ELSE /\ pc' = [pc EXCEPT ![t] = "bind"]
            /\ UNCHANGED reg
  /\ UNCHANGED <<shared, value, bindings, saved, pending, exited>>

(* Under the mutex: another thread may have assigned an index meanwhile.     *)
read_next(t) ==
  /\ ~exited /\ pc[t] = "locked"
  /\ IF binding_index[pending[t].sym] = 0
       THEN /\ reg' = [reg EXCEPT ![t] = next_binding_index]
            /\ pc' = [pc EXCEPT ![t] = "write"]
            /\ UNCHANGED mutex
       ELSE /\ mutex' = NULL
            /\ pc' = [pc EXCEPT ![t] = "bind"]
            /\ UNCHANGED reg
  /\ UNCHANGED <<binding_index, next_binding_index, value, bindings, saved, pending, exited>>

(* "_binding_index = next_binding_index++" and unlock.                       *)
write_index(t) ==
  /\ ~exited /\ pc[t] = "write"
  /\ binding_index' = [binding_index EXCEPT ![pending[t].sym] = reg[t]]
  /\ next_binding_index' = reg[t] + 1
  /\ mutex' = NULL
  /\ pc' = [pc EXCEPT ![t] = "bind"]
  /\ reg' = [reg EXCEPT ![t] = 0]
  /\ UNCHANGED <<value, bindings, saved, pending, exited>>

(* The rest of bind_special(): this thread had no value for the symbol.      *)
finish_bind(t) ==
  /\ ~exited /\ pc[t] = "bind"
  /\ pending[t].val # NO_TLV
  /\ Push(t, pending[t].sym, NO_TLV, pending[t].val)
  /\ pc' = [pc EXCEPT ![t] = "run"]
  /\ pending' = [pending EXCEPT ![t] = NoBind]
  /\ UNCHANGED <<shared, value, saved, reg, exited>>

(* The rest of bind_special_to_current_value(): an unbound variable is an    *)
(* error; the global value is what will be restored, unless the stack is     *)
(* full and slow_bind_special() does the work.                               *)
finish_bind_current(t) ==
  LET s == pending[t].sym IN
  /\ ~exited /\ pc[t] = "bind"
  /\ pending[t].val = NO_TLV
  /\ IF value[s] = UNBOUND
       THEN UNCHANGED bindings
       ELSE Push(t, s, IF Full(t) THEN NO_TLV ELSE value[s], value[s])
  /\ pc' = [pc EXCEPT ![t] = "run"]
  /\ pending' = [pending EXCEPT ![t] = NoBind]
  /\ UNCHANGED <<shared, value, saved, reg, exited>>

(* The value to restore is the current value, be it global, unless the stack *)
(* is full and slow_bind_special() does the work.                            *)
bind_special_to_current_value(t, s) ==
  /\ MayBind(t)
  /\ binding_index[s] # 0
  /\ symbol_thread_local_value(t, s) = NO_TLV => "rebind global" \in ClientMay
  /\ symbol_value(t, s) # UNBOUND
  /\ Push(t, s, IF Full(t) THEN tlv[t][binding_index[s]] ELSE symbol_value(t, s),
          symbol_value(t, s))
  /\ UNCHANGED <<shared, value, saved, control, exited>>

(* Mutant: an assignment always goes to the global value.                    *)
set_symbol_value_global(t, s, v) ==
  /\ Running(t)
  /\ value' = [value EXCEPT ![s] = v]
  /\ UNCHANGED <<shared, bindings, saved, control, exited>>

set_symbol_value(t, s, v) ==
  /\ Running(t)
  /\ IF symbol_thread_local_value(t, s) # NO_TLV
       THEN /\ tlv' = [tlv EXCEPT ![t][binding_index[s]] = v]
            /\ UNCHANGED <<value, stack, capacity>>
       ELSE /\ value' = [value EXCEPT ![s] = v]
            /\ UNCHANGED bindings
  /\ UNCHANGED <<shared, saved, control, exited>>

(* unbind_to() pops from the top, so that the oldest entry of a symbol above *)
(* the mark is the value that stays.                                         *)
EntriesAbove(t, n, i) ==
  {k \in n + 1 .. Len(stack[t]) : binding_index[stack[t][k].sym] = i}

(* Mutant: the entries are popped in the wrong order.                        *)
Restored_newest(t, n) ==
  [i \in Indices |->
     IF EntriesAbove(t, n, i) = {} THEN tlv[t][i]
     ELSE stack[t][CHOOSE k \in EntriesAbove(t, n, i) :
                     \A m \in EntriesAbove(t, n, i) : m <= k].old]

Restored(t, n) ==
  [i \in Indices |->
     IF EntriesAbove(t, n, i) = {} THEN tlv[t][i]
     ELSE stack[t][CHOOSE k \in EntriesAbove(t, n, i) :
                     \A m \in EntriesAbove(t, n, i) : k <= m].old]

(* Leave the k-th active form and with it all inner ones: the normal end of  *)
(* the innermost form, or a non-local exit.  A loop takes a mark of 0 for    *)
(* "no special binding".  unbind_to() refuses an index outside of the stack. *)
leave(t, k) ==
  LET form == saved[t][k]
      n == form.mark
  IN /\ Running(t)
     /\ IF form.kind = "loop" /\ n = 0
          THEN /\ saved' = [saved EXCEPT ![t] = SubSeq(@, 1, k - 1)]
               /\ UNCHANGED <<bindings, exited>>
          ELSE IF 2 * n >= capacity[t]
          THEN /\ exited' = TRUE
               /\ UNCHANGED <<saved, bindings>>
          ELSE /\ saved' = [saved EXCEPT ![t] = SubSeq(@, 1, k - 1)]
               /\ tlv' = [tlv EXCEPT ![t] = Restored(t, n)]
               /\ stack' = [stack EXCEPT ![t] = SubSeq(@, 1, n)]
               /\ UNCHANGED <<capacity, exited>>
     /\ UNCHANGED <<shared, value, control>>

ThreadStep(t) ==
  \/ \E kind \in {"let", "loop"} : enter(t, kind)
  \/ \E s \in Symbols, v \in Content : bind_special(t, s, v) \/ bind_special_first(t, s, v)
  \/ \E s \in Symbols : bind_special_to_current_value(t, s) \/ bind_current_first(t, s)
  \/ \E s \in Symbols, v \in Values : set_symbol_value(t, s, v)
  \/ lock(t) \/ read_next(t) \/ write_index(t) \/ finish_bind(t) \/ finish_bind_current(t)
  \/ \E k \in DOMAIN saved[t] : leave(t, k)

Next == \E t \in Threads : ThreadStep(t)

(* A thread that is binding is scheduled.  Weak fairness is enough for the   *)
(* mutex, since it is contended only until every symbol has an index.        *)
Fairness ==
  \A t \in Threads : /\ WF_vars(lock(t))
                     /\ WF_vars(read_next(t) \/ write_index(t))
                     /\ WF_vars(finish_bind(t) \/ finish_bind_current(t))

Spec == Init /\ [][Next]_vars

FairSpec == Spec /\ Fairness

------------------------------------------------------------------------------
(* Properties.                                                               *)

(* Types of the fields.  Threads that race for an index lose none: as many   *)
(* were handed out as symbols have one, so that, if the program keeps to     *)
(* SlotsAssumption, every index is inside of the array of current values.    *)
TypeOK ==
  /\ next_binding_index - 1 = Cardinality({s \in Symbols : binding_index[s] # 0})
  /\ binding_index \in [Symbols -> Indices]
  /\ next_binding_index \in Indices \cup {MAX_THREAD_LOCAL_VALUES}
  /\ mutex \in Threads \cup {NULL}
  /\ value \in [Symbols -> Content]
  /\ tlv \in [Threads -> [Indices -> Content \cup {NO_TLV}]]
  /\ stack \in [Threads -> Seq([old : Content \cup {NO_TLV}, sym : Symbols])]
  /\ capacity \in [Threads -> Nat]
  /\ saved \in [Threads -> Seq([mark : Nat, kind : {"let", "loop"}])]
  /\ pc \in [Threads -> {"run", "lock", "locked", "write", "bind"}]
  /\ pending \in [Threads -> [sym : Symbols, val : Content \cup {NO_TLV}] \cup {NoBind}]
  /\ reg \in [Threads -> Nat]
  /\ exited \in BOOLEAN

(* No two symbols share a slot of the arrays of current values, whichever    *)
(* threads bind them first at the same time.                                 *)
BindingIndicesUnique ==
  \A r, s \in Symbols :
    binding_index[r] # 0 /\ binding_index[r] = binding_index[s] => r = s

(* A symbol keeps its index for ever: values saved or set under it are found *)
(* again.                                                                    *)
BindingIndexStable ==
  [][\A s \in Symbols : binding_index[s] # 0 => binding_index'[s] = binding_index[s]]_vars

(* The bindings of a thread, oldest first.  A binding that is not the newest *)
(* of its symbol has its value in the next entry of that symbol.             *)
Cells(t) ==
  [k \in DOMAIN stack[t] |->
     LET s == stack[t][k].sym
         later == {m \in k + 1 .. Len(stack[t]) : stack[t][m].sym = s}
     IN [sym |-> s,
         val |-> IF later = {} THEN tlv[t][binding_index[s]]
                 ELSE stack[t][CHOOSE m \in later : \A j \in later : m <= j].old]]

(* The number of bindings there were when each active form was entered.      *)
Marks(t) == [k \in DOMAIN saved[t] |-> saved[t][k].mark]

Abstract == INSTANCE DynamicBinding
  WITH cells <- [t \in Threads |-> Cells(t)],
       forms <- [t \in Threads |-> Marks(t)],
       global <- value

(* The arrays and stacks implement a stack of bindings per thread: a bind    *)
(* adds one, an assignment reaches the newest one, and leaving any number of *)
(* forms at once drops all the bindings made since the outermost of them was *)
(* entered, no others, and restores what was below.  A loop over a special   *)
(* variable that is the first binding of its thread does not: dolist() takes *)
(* the saved index 0 for "no special binding".  It is ruled out by a         *)
(* ClientMay without "loop at bottom".                                       *)
ImplementsDynamicBinding == Abstract!Spec

(* A thread reads its newest binding of a variable, and the global value if  *)
(* it has none: nothing is left in the array once the bindings are gone.     *)
ValueIsNewestBinding ==
  \A t \in Threads, s \in Symbols : symbol_value(t, s) = Abstract!Lookup(t, s)

(* A thread that has started to assign an index gets through, or the process *)
(* has exited.                                                               *)
BindCompletes ==
  \A t \in Threads : pc[t] = "lock" ~> (pc[t] = "run" \/ exited)

==============================================================================
