------------------------ MODULE SpecialBindingsProofs ------------------------
(***************************************************************************)
(* Proofs, for any number of threads and bindings, and any number of       *)
(* symbols below that of the slots (SlotsAssumption): binding indices are  *)
(* handed out safely, whatever the program does; unless it rebinds a       *)
(* variable to its own global value, a thread reads the value of its       *)
(* newest binding; and unless it does that or starts a loop over a special *)
(* variable in a thread without bindings, the stacks and slots of the      *)
(* threads implement dynamic binding.                                      *)
(***************************************************************************)
EXTENDS SpecialBindings, FiniteSetTheorems, SequenceTheorems, WellFoundedInduction, TLAPS

IndexTypes ==
  /\ binding_index \in [Symbols -> Nat]
  /\ next_binding_index \in Nat \ {0}
  /\ mutex \in Threads \cup {NULL}
  /\ pc \in [Threads -> {"run", "lock", "locked", "write", "bind"}]
  /\ pending \in [Threads -> [sym : Symbols, val : Content \cup {NO_TLV}] \cup {NoBind}]
  /\ reg \in [Threads -> Nat]

(* A thread between lock() and unlock() is the one that holds the mutex.     *)
HolderIsInside ==
  \A t \in Threads : pc[t] \in {"locked", "write"} => mutex = t

(* A thread that is past its test for index 0 works on a symbol.             *)
PendingIsSymbol ==
  \A t \in Threads : pc[t] # "run" => pending[t].sym \in Symbols

(* What the holder has read under the mutex is still true when it writes.    *)
ReadIsCurrent ==
  \A t \in Threads :
    pc[t] = "write" => /\ reg[t] = next_binding_index
                       /\ binding_index[pending[t].sym] = 0

(* Indices that were handed out are below the next one.                      *)
IndicesBelowNext == \A s \in Symbols : binding_index[s] < next_binding_index

IndexInv ==
  /\ IndexTypes /\ HolderIsInside /\ PendingIsSymbol
  /\ ReadIsCurrent /\ IndicesBelowNext /\ BindingIndicesUnique

(* No symbol has an index and nobody is binding.                             *)
LEMMA IndexInvInit == Init => IndexInv
BY DEF Init, IndexInv, IndexTypes, HolderIsInside, PendingIsSymbol, ReadIsCurrent,
       IndicesBelowNext, BindingIndicesUnique, NoBind

(* The variables the invariant speaks of; the other actions leave all but pc *)
(* and pending of one thread alone.                                          *)
indexVars == <<shared, control>>

(* Steps that touch neither indices nor the mutex keep the invariant.        *)
LEMMA IndexInvUnchanged == IndexInv /\ UNCHANGED indexVars => IndexInv'
BY DEF IndexInv, IndexTypes, HolderIsInside, PendingIsSymbol, ReadIsCurrent,
       IndicesBelowNext, BindingIndicesUnique, indexVars, shared, control

(* A thread that has read index 0 goes for the mutex.                        *)
LEMMA AssignIndexKeeps ==
  ASSUME IndexInv, NEW t \in Threads, NEW s \in Symbols,
         NEW v \in Content \cup {NO_TLV}, AssignIndex(t, s, v)
  PROVE  IndexInv'
<1>1. /\ pc' = [pc EXCEPT ![t] = "lock"]
      /\ pending' = [pending EXCEPT ![t] = [sym |-> s, val |-> v]]
      /\ UNCHANGED <<binding_index, next_binding_index, mutex, reg>>
  BY DEF AssignIndex, shared
<1>2. pc[t] = "run" BY DEF AssignIndex, MayBind, Running
<1> USE DEF IndexInv, IndexTypes
<1>3. IndexTypes' BY <1>1
<1>4. HolderIsInside' BY <1>1 DEF HolderIsInside
<1>5. PendingIsSymbol' BY <1>1 DEF PendingIsSymbol
<1>6. ReadIsCurrent' BY <1>1 DEF ReadIsCurrent
<1>7. IndicesBelowNext' /\ BindingIndicesUnique'
  BY <1>1 DEF IndicesBelowNext, BindingIndicesUnique
<1>8. QED BY <1>3, <1>4, <1>5, <1>6, <1>7

(* Taking the mutex, which nobody holds.                                     *)
LEMMA LockKeeps ==
  ASSUME IndexInv, NEW t \in Threads, lock(t)
  PROVE  IndexInv'
<1>1. /\ pc[t] = "lock" /\ mutex = NULL /\ mutex' = t
      /\ pc' = [pc EXCEPT ![t] = "locked"]
      /\ UNCHANGED <<binding_index, next_binding_index, pending, reg>>
  BY DEF lock
<1> USE DEF IndexInv, IndexTypes
<1>2. IndexTypes' BY <1>1
<1>3. HolderIsInside'
  <2>1. \A u \in Threads : pc[u] \notin {"locked", "write"}
    BY <1>1, BindingsAssumption DEF HolderIsInside
  <2>2. QED BY <1>1, <2>1 DEF HolderIsInside
<1>4. PendingIsSymbol' BY <1>1 DEF PendingIsSymbol
<1>5. ReadIsCurrent' BY <1>1 DEF ReadIsCurrent
<1>6. IndicesBelowNext' /\ BindingIndicesUnique'
  BY <1>1 DEF IndicesBelowNext, BindingIndicesUnique
<1>7. QED BY <1>2, <1>3, <1>4, <1>5, <1>6

(* The second test under the mutex, and the read of next_binding_index.      *)
LEMMA ReadNextKeeps ==
  ASSUME IndexInv, NEW t \in Threads, read_next(t)
  PROVE  IndexInv'
<1> USE DEF IndexInv, IndexTypes
<1>1. pc[t] = "locked" /\ mutex = t /\ pending[t].sym \in Symbols
  BY DEF read_next, HolderIsInside, PendingIsSymbol
<1>2. \A u \in Threads : u # t => pc[u] \notin {"locked", "write"}
  BY <1>1 DEF HolderIsInside
<1>3. UNCHANGED <<binding_index, next_binding_index, pending>>
  BY DEF read_next
<1>4. IndicesBelowNext' /\ BindingIndicesUnique'
  BY <1>3 DEF IndicesBelowNext, BindingIndicesUnique
<1>5. CASE binding_index[pending[t].sym] = 0
  <2>1. /\ pc' = [pc EXCEPT ![t] = "write"] /\ mutex' = mutex
        /\ reg' = [reg EXCEPT ![t] = next_binding_index]
    BY <1>5 DEF read_next
  <2>2. IndexTypes' BY <1>3, <2>1
  <2>3. HolderIsInside' BY <1>1, <2>1 DEF HolderIsInside
  <2>4. PendingIsSymbol' BY <1>1, <1>3, <2>1 DEF PendingIsSymbol
  <2>5. ReadIsCurrent' BY <1>3, <1>5, <2>1 DEF ReadIsCurrent
  <2>6. QED BY <1>4, <2>2, <2>3, <2>4, <2>5
<1>6. CASE binding_index[pending[t].sym] # 0
  <2>1. pc' = [pc EXCEPT ![t] = "bind"] /\ mutex' = NULL /\ reg' = reg
    BY <1>6 DEF read_next
  <2>2. IndexTypes' BY <1>3, <2>1
  <2>3. HolderIsInside' BY <1>2, <2>1 DEF HolderIsInside
  <2>4. PendingIsSymbol' BY <1>1, <1>3, <2>1 DEF PendingIsSymbol
  <2>5. ReadIsCurrent' BY <1>2, <1>3, <2>1 DEF ReadIsCurrent
  <2>6. QED BY <1>4, <2>2, <2>3, <2>4, <2>5
<1>7. QED BY <1>5, <1>6

(* The write of the index that the holder of the mutex has read.             *)
LEMMA WriteIndexKeeps ==
  ASSUME IndexInv, NEW t \in Threads, write_index(t)
  PROVE  IndexInv'
<1> USE DEF IndexInv, IndexTypes
<1> DEFINE x == pending[t].sym
           n == next_binding_index
<1>1. pc[t] = "write" /\ mutex = t /\ x \in Symbols /\ reg[t] = n
  BY DEF write_index, HolderIsInside, PendingIsSymbol, ReadIsCurrent
<1>2. \A u \in Threads : u # t => pc[u] \notin {"locked", "write"}
  BY <1>1 DEF HolderIsInside
<1>3. /\ binding_index' = [binding_index EXCEPT ![x] = n]
      /\ next_binding_index' = n + 1 /\ mutex' = NULL
      /\ pc' = [pc EXCEPT ![t] = "bind"]
      /\ reg' = [reg EXCEPT ![t] = 0] /\ pending' = pending
  BY <1>1 DEF write_index
<1>4. IndexTypes' BY <1>1, <1>3
<1>5. HolderIsInside' BY <1>2, <1>3 DEF HolderIsInside
<1>6. PendingIsSymbol' BY <1>1, <1>3 DEF PendingIsSymbol
<1>7. ReadIsCurrent' BY <1>2, <1>3 DEF ReadIsCurrent
<1>8. IndicesBelowNext' BY <1>1, <1>3 DEF IndicesBelowNext
<1>9. BindingIndicesUnique'
  <2>1. \A s \in Symbols : binding_index[s] # n BY DEF IndicesBelowNext
  <2>2. QED BY <1>1, <1>3, <2>1 DEF BindingIndicesUnique
<1>10. QED BY <1>4, <1>5, <1>6, <1>7, <1>8, <1>9

(* The end of a bind: the thread runs on, nothing else of the invariant      *)
(* changes.                                                                  *)
LEMMA EndOfBindKeeps ==
  ASSUME IndexInv, NEW t \in Threads, finish_bind(t) \/ finish_bind_current(t)
  PROVE  IndexInv'
<1>1. /\ pc' = [pc EXCEPT ![t] = "run"]
      /\ pending' = [pending EXCEPT ![t] = NoBind]
      /\ UNCHANGED <<binding_index, next_binding_index, mutex, reg>>
  BY DEF finish_bind, finish_bind_current, shared
<1> USE DEF IndexInv, IndexTypes
<1>2. IndexTypes' BY <1>1
<1>3. HolderIsInside' BY <1>1 DEF HolderIsInside
<1>4. PendingIsSymbol' BY <1>1 DEF PendingIsSymbol
<1>5. ReadIsCurrent' BY <1>1 DEF ReadIsCurrent
<1>6. IndicesBelowNext' /\ BindingIndicesUnique'
  BY <1>1 DEF IndicesBelowNext, BindingIndicesUnique
<1>7. QED BY <1>2, <1>3, <1>4, <1>5, <1>6

(* The invariant is inductive: every step of every thread keeps it.          *)
LEMMA IndexInvStep == IndexInv /\ [Next]_vars => IndexInv'
<1> SUFFICES ASSUME IndexInv, [Next]_vars PROVE IndexInv' OBVIOUS
<1>1. CASE UNCHANGED vars
  BY <1>1, IndexInvUnchanged DEF vars, indexVars
<1>2. ASSUME NEW t \in Threads, ThreadStep(t) PROVE IndexInv'
  <2>1. ASSUME NEW kind \in {"let", "loop"}, enter(t, kind) PROVE IndexInv'
    BY <2>1, IndexInvUnchanged DEF enter, indexVars
  <2>2. ASSUME NEW s \in Symbols, NEW v \in Content, bind_special(t, s, v)
        PROVE  IndexInv'
    BY <2>2, IndexInvUnchanged DEF bind_special, indexVars
  <2>3. ASSUME NEW s \in Symbols, NEW v \in Content, bind_special_first(t, s, v)
        PROVE  IndexInv'
    BY <2>3, AssignIndexKeeps DEF bind_special_first
  <2>4. ASSUME NEW s \in Symbols, bind_special_to_current_value(t, s)
        PROVE  IndexInv'
    BY <2>4, IndexInvUnchanged DEF bind_special_to_current_value, indexVars
  <2>5. ASSUME NEW s \in Symbols, bind_current_first(t, s) PROVE IndexInv'
    BY <2>5, AssignIndexKeeps DEF bind_current_first
  <2>6. ASSUME NEW s \in Symbols, NEW v \in Values, set_symbol_value(t, s, v)
        PROVE  IndexInv'
    BY <2>6, IndexInvUnchanged DEF set_symbol_value, indexVars
  <2>7. ASSUME NEW k \in DOMAIN saved[t], leave(t, k) PROVE IndexInv'
    BY <2>7, IndexInvUnchanged DEF leave, indexVars
  <2>8. QED
    BY <1>2, <2>1, <2>2, <2>3, <2>4, <2>5, <2>6, <2>7, LockKeeps, ReadNextKeeps,
       WriteIndexKeeps, EndOfBindKeeps DEF ThreadStep
<1>3. QED BY <1>1, <1>2 DEF Next

(* No two symbols ever share a slot, whatever the threads do at a time.      *)
THEOREM IndicesUnique == Spec => []BindingIndicesUnique
<1>1. IndexInv => BindingIndicesUnique BY DEF IndexInv
<1>2. QED BY <1>1, IndexInvInit, IndexInvStep, PTL DEF Spec

(* Only write_index() changes an index, and it has read 0 under the mutex.   *)
LEMMA OnlyZeroIsWritten ==
  ASSUME IndexInv, [Next]_vars, NEW s \in Symbols, binding_index[s] # 0
  PROVE  binding_index'[s] = binding_index[s]
<1>1. CASE UNCHANGED vars BY <1>1 DEF vars, shared
<1>2. ASSUME NEW t \in Threads, ThreadStep(t)
      PROVE  binding_index'[s] = binding_index[s]
  <2>1. CASE write_index(t)
    <3>1. pending[t].sym \in Symbols /\ binding_index[pending[t].sym] = 0
      BY <2>1 DEF write_index, IndexInv, PendingIsSymbol, ReadIsCurrent
    <3>2. binding_index' = [binding_index EXCEPT ![pending[t].sym] = reg[t]]
      BY <2>1 DEF write_index
    <3>3. QED BY <3>1, <3>2 DEF IndexInv, IndexTypes
  <2>2. CASE ~write_index(t)
    <3>1. binding_index' = binding_index
      BY <1>2, <2>2
      DEF ThreadStep, enter, bind_special, bind_special_first, AssignIndex,
          bind_special_to_current_value, bind_current_first, set_symbol_value,
          lock, read_next, finish_bind, finish_bind_current, leave, shared
    <3>2. QED BY <3>1
  <2>3. QED BY <2>1, <2>2
<1>3. QED BY <1>1, <1>2 DEF Next

(* A symbol that has an index keeps it in every step of every thread.        *)
THEOREM IndexStable == Spec => BindingIndexStable
<1>1. IndexInv /\ [Next]_vars =>
        [\A s \in Symbols : binding_index[s] # 0 => binding_index'[s] = binding_index[s]]_vars
  BY OnlyZeroIsWritten
<1>2. QED BY <1>1, IndexInvInit, IndexInvStep, PTL DEF Spec, BindingIndexStable

------------------------------------------------------------------------------
(* Types.                                                                    *)

Entry == [old : Content \cup {NO_TLV}, sym : Symbols]

Form == [mark : Nat, kind : {"let", "loop"}]

StackTypes ==
  /\ value \in [Symbols -> Content]
  /\ tlv \in [Threads -> [Indices -> Content \cup {NO_TLV}]]
  /\ stack \in [Threads -> Seq(Entry)]
  /\ capacity \in [Threads -> Nat]
  /\ saved \in [Threads -> Seq(Form)]
  /\ exited \in BOOLEAN

(* The active forms of a thread saved their marks one inside the other, and  *)
(* the stack has not shrunk below any of them.                               *)
MarksNested ==
  \A t \in Threads : \A j \in DOMAIN saved[t] :
    /\ saved[t][j].mark <= Len(stack[t])
    /\ \A i \in 1 .. j : saved[t][i].mark <= saved[t][j].mark

Indexed == {s \in Symbols : binding_index[s] # 0}

(* Every index that was handed out belongs to a symbol: indices are not used *)
(* up faster than there are symbols.                                         *)
IndexCount == next_binding_index = Cardinality(Indexed) + 1

TypeInv == IndexInv /\ IndexCount /\ StackTypes /\ MarksNested

(* The invariant bounds the indices by the number of symbols.                *)
LEMMA TypeInvGivesTypes == TypeInv => TypeOK
<1> SUFFICES ASSUME TypeInv PROVE TypeOK OBVIOUS
<1>1. /\ IsFiniteSet(Symbols) /\ Cardinality(Symbols) \in Nat
      /\ Cardinality(Indexed) <= Cardinality(Symbols) /\ Cardinality(Indexed) \in Nat
  BY BindingsAssumption, FS_Subset, FS_CardinalityType DEF Indexed
<1>2. next_binding_index \in 1 .. MAX_THREAD_LOCAL_VALUES
  BY <1>1, BindingsAssumption, SlotsAssumption DEF TypeInv, IndexCount
<1>3. binding_index \in [Symbols -> Indices]
  BY <1>2, BindingsAssumption
  DEF TypeInv, IndexInv, IndexTypes, IndicesBelowNext, Indices
<1>4. next_binding_index \in Indices \cup {MAX_THREAD_LOCAL_VALUES}
  BY <1>2, BindingsAssumption DEF Indices
<1>5. next_binding_index - 1 = Cardinality({s \in Symbols : binding_index[s] # 0})
  BY <1>1 DEF TypeInv, IndexCount, Indexed
<1>6. QED
  BY <1>3, <1>4, <1>5
  DEF TypeOK, TypeInv, IndexInv, IndexTypes, StackTypes, Entry, Form

(* A thread starts with an empty binding stack and no local values.          *)
LEMMA TypeInvInit == Init => TypeInv
<1> SUFFICES ASSUME Init PROVE TypeInv OBVIOUS
<1>1. IndexInv BY IndexInvInit
<1>2. IndexCount
  <2>1. Indexed = {} BY DEF Init, Indexed
  <2>2. QED BY <2>1, FS_EmptySet DEF Init, IndexCount
<1>3. StackTypes
  <2>1. /\ value \in [Symbols -> Content]
        /\ tlv \in [Threads -> [Indices -> Content \cup {NO_TLV}]]
        /\ capacity \in [Threads -> Nat]
    BY BindingsAssumption DEF Init, Content
  <2>2. stack \in [Threads -> Seq(Entry)] /\ saved \in [Threads -> Seq(Form)]
    BY DEF Init
  <2>3. exited \in BOOLEAN BY Zenon DEF Init
  <2>4. QED BY <2>1, <2>2, <2>3 DEF StackTypes
<1>4. MarksNested BY DEF Init, MarksNested
<1>5. QED BY <1>1, <1>2, <1>3, <1>4 DEF TypeInv

(* Only write_index() hands out an index, and then it raises the next one.   *)
LEMMA CountKept ==
  ASSUME TypeInv, [Next]_vars
  PROVE  IndexCount'
<1>1. CASE UNCHANGED <<binding_index, next_binding_index>>
  BY <1>1 DEF TypeInv, IndexCount, Indexed
<1>2. ASSUME NEW t \in Threads, write_index(t) PROVE IndexCount'
  <2> DEFINE x == pending[t].sym
  <2>1. x \in Symbols /\ binding_index[x] = 0 /\ reg[t] = next_binding_index
    BY <1>2 DEF write_index, TypeInv, IndexInv, PendingIsSymbol, ReadIsCurrent
  <2>2. /\ binding_index' = [binding_index EXCEPT ![x] = reg[t]]
        /\ next_binding_index' = reg[t] + 1
    BY <1>2 DEF write_index
  <2>3. next_binding_index \in Nat \ {0} /\ binding_index \in [Symbols -> Nat]
    BY DEF TypeInv, IndexInv, IndexTypes
  <2>4. Indexed' = Indexed \cup {x} /\ x \notin Indexed
    BY <2>1, <2>2, <2>3 DEF Indexed
  <2>5. IsFiniteSet(Indexed) BY BindingsAssumption, FS_Subset DEF Indexed
  <2>6. Cardinality(Indexed') = Cardinality(Indexed) + 1
    BY <2>4, <2>5, FS_AddElement
  <2>7. Cardinality(Indexed) \in Nat BY <2>5, FS_CardinalityType
  <2>8. QED BY <2>1, <2>2, <2>6, <2>7 DEF TypeInv, IndexCount
<1>3. ASSUME NEW t \in Threads, ThreadStep(t), ~write_index(t)
      PROVE  UNCHANGED <<binding_index, next_binding_index>>
  BY <1>3
  DEF ThreadStep, enter, bind_special, bind_special_first, AssignIndex,
      bind_special_to_current_value, bind_current_first, set_symbol_value,
      lock, read_next, finish_bind, finish_bind_current, leave, shared
<1>4. QED BY <1>1, <1>2, <1>3 DEF Next, vars, shared

(* The active forms have marks.                                              *)
LEMMA MarkIsNat ==
  ASSUME StackTypes, NEW t \in Threads, NEW j \in DOMAIN saved[t]
  PROVE  j \in 1 .. Len(saved[t]) /\ saved[t][j] \in Form /\ saved[t][j].mark \in Nat
<1>1. saved[t] \in Seq(Form) BY DEF StackTypes
<1>2. j \in 1 .. Len(saved[t]) BY <1>1, LenProperties
<1>3. saved[t][j] \in Form BY <1>1, <1>2, ElementOfSeq
<1>4. saved[t][j].mark \in Nat BY <1>3 DEF Form
<1>5. QED BY <1>2, <1>3, <1>4

(* The same for all of them, with the positions as an interval.              *)
LEMMA MarksAreNat ==
  ASSUME StackTypes, NEW t \in Threads
  PROVE  \A i \in 1 .. Len(saved[t]) : i \in DOMAIN saved[t] /\ saved[t][i].mark \in Nat
<1>1. saved[t] \in Seq(Form) BY DEF StackTypes
<1>2. DOMAIN saved[t] = 1 .. Len(saved[t]) BY <1>1, LenProperties
<1>3. QED BY <1>2, MarkIsNat

(* A bind pushes one entry and leaves the forms alone.                       *)
LEMMA PushKeepsTypes ==
  ASSUME TypeInv, NEW t \in Threads, NEW s \in Symbols,
         NEW old \in Content \cup {NO_TLV}, NEW v \in Content,
         Push(t, s, old, v), UNCHANGED <<value, saved, exited>>
  PROVE  StackTypes' /\ MarksNested'
<1> USE DEF TypeInv, StackTypes
<1> DEFINE e == [old |-> old, sym |-> s]
<1>1. e \in Entry BY DEF Entry
<1>2. stack' = [stack EXCEPT ![t] = Append(stack[t], e)] BY DEF Push
<1>3. /\ Append(stack[t], e) \in Seq(Entry)
      /\ Len(Append(stack[t], e)) = Len(stack[t]) + 1
  BY <1>1, AppendProperties
<1>4. capacity' \in [Threads -> Nat] BY DEF Push
<1>5. tlv' \in [Threads -> [Indices -> Content \cup {NO_TLV}]] BY DEF Push
<1>6. stack' \in [Threads -> Seq(Entry)] BY <1>2, <1>3
<1>7. \A u \in Threads : Len(stack[u]) <= Len(stack'[u])
  BY <1>2, <1>3, LenProperties
<1>8. MarksNested'
  <2>1. ASSUME NEW u \in Threads, NEW j \in DOMAIN saved[u]
        PROVE  saved[u][j].mark <= Len(stack'[u])
    <3>1. saved[u] \in Seq(Form) /\ stack[u] \in Seq(Entry) /\ stack'[u] \in Seq(Entry)
      BY <1>6
    <3>2. saved[u][j].mark \in Nat BY MarkIsNat
    <3>3. Len(stack[u]) \in Nat /\ Len(stack'[u]) \in Nat BY <3>1
    <3>4. QED BY <1>7, <3>2, <3>3 DEF MarksNested
  <2>2. QED BY <2>1 DEF MarksNested
<1>9. QED BY <1>4, <1>5, <1>6, <1>8

(* A set of positions of a stack has a lowest one.                           *)
LEMMA LowestExists ==
  ASSUME NEW T, T \subseteq Nat, T # {}
  PROVE  \E x \in T : \A y \in T : x <= y
<1>1. IsWellFoundedOn({ss \in Nat \X Nat : ss[1] < ss[2]}, Nat)
  BY NatLessThanWellFounded, Zenon DEF OpToRel
<1>2. PICK x \in T :
        \A y \in T : <<y, x>> \notin {ss \in Nat \X Nat : ss[1] < ss[2]}
  BY <1>1, WFMin, Zenon
<1>3. ASSUME NEW y \in T PROVE x <= y
  <2>1. x \in Nat /\ y \in Nat /\ <<y, x>> \in Nat \X Nat OBVIOUS
  <2>2. ~(<<y, x>>[1] < <<y, x>>[2]) BY <2>1, <1>2, Zenon
  <2>3. QED BY <2>1, <2>2
<1>4. QED BY <1>2, <1>3

(* The CHOOSE of the model names it.                                         *)
LEMMA LowestChosen ==
  ASSUME NEW T, T \subseteq Nat, T # {}
  PROVE  LET x == CHOOSE k \in T : \A m \in T : k <= m
         IN x \in T /\ \A m \in T : x <= m
BY LowestExists

(* What unbind_to() leaves in the array are values.                          *)
LEMMA RestoredType ==
  ASSUME TypeInv, NEW t \in Threads, NEW n \in Nat
  PROVE  Restored(t, n) \in [Indices -> Content \cup {NO_TLV}]
<1> USE DEF TypeInv, StackTypes
<1>1. stack[t] \in Seq(Entry) OBVIOUS
<1>2. ASSUME NEW i \in Indices, EntriesAbove(t, n, i) # {}
      PROVE  stack[t][CHOOSE k \in EntriesAbove(t, n, i) :
                        \A m \in EntriesAbove(t, n, i) : k <= m].old
               \in Content \cup {NO_TLV}
  <2> DEFINE T == EntriesAbove(t, n, i)
             x == CHOOSE k \in T : \A m \in T : k <= m
  <2>1. T \subseteq Nat /\ T \subseteq 1 .. Len(stack[t])
    BY <1>1 DEF EntriesAbove
  <2>2. x \in T BY <1>2, <2>1, LowestChosen
  <2>3. stack[t][x] \in Entry BY <1>1, <2>1, <2>2
  <2>4. QED BY <2>3 DEF Entry
<1>3. QED BY <1>2 DEF Restored

(* A form that starts saves the height of the stack.                         *)
LEMMA EnterKeepsTypes ==
  ASSUME TypeInv, NEW t \in Threads, NEW kind \in {"let", "loop"}, enter(t, kind)
  PROVE  StackTypes' /\ MarksNested'
<1> USE DEF TypeInv, StackTypes
<1> DEFINE f == [mark |-> Len(stack[t]), kind |-> kind]
<1>1. stack[t] \in Seq(Entry) /\ saved[t] \in Seq(Form) /\ Len(stack[t]) \in Nat OBVIOUS
<1>2. f \in Form BY <1>1 DEF Form
<1>3. /\ saved' = [saved EXCEPT ![t] = Append(saved[t], f)]
      /\ UNCHANGED <<value, tlv, stack, capacity, exited>>
  BY DEF enter, bindings
<1>4. StackTypes' BY <1>1, <1>2, <1>3
<1>5. ASSUME NEW u \in Threads, NEW j \in DOMAIN saved'[u]
      PROVE  /\ saved'[u][j].mark <= Len(stack[u])
             /\ \A i \in 1 .. j : saved'[u][i].mark <= saved'[u][j].mark
  <2>1. CASE u # t BY <1>3, <1>5, <2>1 DEF MarksNested
  <2>2. CASE u = t
    <3>1. saved'[u] = Append(saved[t], f) BY <1>3, <2>2
    <3>2. \A i \in 1 .. Len(saved[t]) : saved'[u][i] = saved[t][i]
      BY <1>1, <1>2, <3>1
    <3>3. saved'[u][Len(saved[t]) + 1] = f BY <1>1, <1>2, <3>1
    <3>4. j \in 1 .. Len(saved[t]) + 1 BY <1>1, <1>2, <1>5, <3>1
    <3>5. \A i \in 1 .. Len(saved[t]) : saved[t][i].mark <= Len(stack[t])
      BY <1>1 DEF MarksNested
    <3>6. CASE j = Len(saved[t]) + 1
      <4>1. f.mark = Len(stack[t]) OBVIOUS
      <4> HIDE DEF f, TypeInv, StackTypes
      <4>2. saved'[u][j].mark = Len(stack[t]) BY <3>3, <3>6, <4>1
      <4>3. ASSUME NEW i \in 1 .. j PROVE saved'[u][i].mark <= Len(stack[t])
        <5>1. CASE i = j BY <1>1, <4>2, <5>1
        <5>2. CASE i # j
          <6>1. Len(saved[t]) \in Nat BY <1>1, LenProperties
          <6>2. i \in 1 .. Len(saved[t]) BY <3>6, <5>2, <6>1
          <6>3. QED BY <3>2, <3>5, <6>2
        <5>3. QED BY <5>1, <5>2
      <4>4. QED BY <1>1, <2>2, <4>2, <4>3
    <3>7. CASE j \in 1 .. Len(saved[t])
      <4>1. DOMAIN saved[t] = 1 .. Len(saved[t]) BY <1>1, LenProperties
      <4>2. \A i \in 1 .. j : saved[t][i].mark <= saved[t][j].mark
        BY <3>7, <4>1 DEF MarksNested
      <4>3. \A i \in 1 .. j : saved'[u][i] = saved[t][i]
        BY <1>1, <3>2, <3>7
      <4>4. QED BY <2>2, <3>2, <3>5, <3>7, <4>2, <4>3
    <3>8. QED BY <1>1, <3>4, <3>6, <3>7
  <2>3. QED BY <2>1, <2>2
<1>6. QED BY <1>3, <1>4, <1>5 DEF MarksNested

(* A form that is left drops the marks of the inner forms, and the stack is  *)
(* then as high as its own.                                                  *)
LEMMA LeaveKeepsTypes ==
  ASSUME TypeInv, NEW t \in Threads, NEW k \in DOMAIN saved[t], leave(t, k)
  PROVE  StackTypes' /\ MarksNested'
<1> USE DEF TypeInv, StackTypes
<1> DEFINE n == saved[t][k].mark
<1>1. /\ saved[t] \in Seq(Form) /\ stack[t] \in Seq(Entry)
      /\ k \in 1 .. Len(saved[t]) /\ saved[t][k] \in Form /\ n \in Nat
  BY MarkIsNat
<1>2. n <= Len(stack[t]) BY <1>1 DEF MarksNested
<1>3. /\ SubSeq(saved[t], 1, k - 1) \in Seq(Form)
      /\ Len(SubSeq(saved[t], 1, k - 1)) = k - 1
      /\ \A i \in 1 .. k - 1 : SubSeq(saved[t], 1, k - 1)[i] = saved[t][i]
  BY <1>1, SubSeqProperties
<1>4. \A i \in 1 .. k - 1 : saved[t][i].mark <= n
  BY <1>1 DEF MarksNested
<1>5. CASE exited' = TRUE /\ UNCHANGED <<saved, bindings, value>>
  BY <1>5 DEF bindings, MarksNested
<1>6. CASE /\ saved' = [saved EXCEPT ![t] = SubSeq(saved[t], 1, k - 1)]
           /\ UNCHANGED <<bindings, exited, value>>
  <2>1. StackTypes' BY <1>1, <1>3, <1>6 DEF bindings
  <2>2. ASSUME NEW u \in Threads, NEW j \in DOMAIN saved'[u]
        PROVE  /\ saved'[u][j].mark <= Len(stack[u])
               /\ \A i \in 1 .. j : saved'[u][i].mark <= saved'[u][j].mark
    <3>1. CASE u # t BY <1>6, <2>2, <3>1 DEF MarksNested
    <3>2. CASE u = t BY <1>1, <1>3, <1>6, <2>2, <3>2, SMTT(30) DEF MarksNested
    <3>3. QED BY <3>1, <3>2
  <2>3. QED BY <1>6, <2>1, <2>2 DEF MarksNested, bindings
<1>7. CASE /\ saved' = [saved EXCEPT ![t] = SubSeq(saved[t], 1, k - 1)]
           /\ tlv' = [tlv EXCEPT ![t] = Restored(t, n)]
           /\ stack' = [stack EXCEPT ![t] = SubSeq(stack[t], 1, n)]
           /\ UNCHANGED <<capacity, exited, value>>
  <2>1. /\ SubSeq(stack[t], 1, n) \in Seq(Entry)
        /\ Len(SubSeq(stack[t], 1, n)) = n
    BY <1>1, <1>2, SubSeqProperties
  <2>2. Restored(t, n) \in [Indices -> Content \cup {NO_TLV}]
    BY <1>1, RestoredType
  <2>3. StackTypes' BY <1>1, <1>3, <1>7, <2>1, <2>2
  <2>4. ASSUME NEW u \in Threads, NEW j \in DOMAIN saved'[u]
        PROVE  /\ saved'[u][j].mark <= Len(stack'[u])
               /\ \A i \in 1 .. j : saved'[u][i].mark <= saved'[u][j].mark
    <3>1. CASE u # t BY <1>7, <2>4, <3>1 DEF MarksNested
    <3>2. CASE u = t
      <4>1. saved'[u] = SubSeq(saved[t], 1, k - 1) /\ Len(stack'[u]) = n
        BY <1>7, <2>1, <3>2
      <4>2. j \in 1 .. k - 1 BY <1>1, <1>3, <2>4, <4>1, LenProperties
      <4>3. k - 1 \in Nat /\ \A i \in 1 .. k - 1 : i \in DOMAIN saved[t] BY <1>1, MarksAreNat
      <4>4. saved'[u][j].mark <= n BY <1>3, <1>4, <4>1, <4>2
      <4>5. \A i \in 1 .. j : saved[t][i].mark <= saved[t][j].mark
        BY <4>2, <4>3 DEF MarksNested
      <4>6. 1 .. j \subseteq 1 .. k - 1 BY <4>2, <4>3
      <4>7. \A i \in 1 .. j : saved'[u][i] = saved[t][i] BY <1>3, <4>1, <4>6
      <4>8. saved'[u][j] = saved[t][j] BY <1>3, <4>1, <4>2
      <4>9. QED BY <4>1, <4>4, <4>5, <4>7, <4>8
    <3>3. QED BY <3>1, <3>2
  <2>5. QED BY <2>3, <2>4 DEF MarksNested
<1>8. QED BY <1>5, <1>6, <1>7, Zenon DEF leave

(* The end of a bind of a symbol that had no index.                          *)
LEMMA FinishKeepsTypes ==
  ASSUME TypeInv, NEW t \in Threads, finish_bind(t) \/ finish_bind_current(t)
  PROVE  StackTypes' /\ MarksNested'
<1> DEFINE s == pending[t].sym
           v == pending[t].val
<1>1. pc[t] = "bind" BY DEF finish_bind, finish_bind_current
<1>2. s \in Symbols /\ v \in Content \cup {NO_TLV}
  BY <1>1 DEF TypeInv, IndexInv, IndexTypes, PendingIsSymbol, NoBind, Content
<1>3. CASE finish_bind(t)
  BY <1>2, <1>3, PushKeepsTypes DEF finish_bind
<1>4. CASE finish_bind_current(t)
  <2>1. value[s] \in Content BY <1>2 DEF TypeInv, StackTypes
  <2>2. CASE value[s] = UNBOUND
    <3>1. UNCHANGED <<value, tlv, stack, capacity, saved, exited>>
      BY <1>4, <2>2 DEF finish_bind_current, bindings
    <3>2. QED BY <3>1 DEF TypeInv, StackTypes, MarksNested
  <2>3. CASE value[s] # UNBOUND
    <3>1. /\ Push(t, s, IF Full(t) THEN NO_TLV ELSE value[s], value[s])
          /\ UNCHANGED <<value, saved, exited>>
      BY <1>4, <2>3 DEF finish_bind_current
    <3>2. (IF Full(t) THEN NO_TLV ELSE value[s]) \in Content \cup {NO_TLV} BY <2>1
    <3>3. QED BY <1>2, <2>1, <3>1, <3>2, PushKeepsTypes
  <2>4. QED BY <2>2, <2>3
<1>5. QED BY <1>3, <1>4

(* What a thread reads is a value.                                           *)
LEMMA ReadTypes ==
  ASSUME TypeInv, NEW t \in Threads, NEW s \in Symbols
  PROVE  /\ binding_index[s] \in Indices
         /\ tlv[t][binding_index[s]] \in Content \cup {NO_TLV}
         /\ symbol_value(t, s) \in Content
<1>1. TypeOK BY TypeInvGivesTypes
<1>2. QED BY <1>1 DEF TypeOK, symbol_value, symbol_thread_local_value

(* Every step of every thread keeps the types and the nesting of the marks.  *)
LEMMA TypeInvStep == TypeInv /\ [Next]_vars => TypeInv'
<1> SUFFICES ASSUME TypeInv, [Next]_vars PROVE TypeInv' OBVIOUS
<1>1. IndexInv' BY IndexInvStep DEF TypeInv
<1>2. IndexCount' BY CountKept
<1>3. ASSUME UNCHANGED <<value, bindings, saved, exited>>
      PROVE  StackTypes' /\ MarksNested'
  BY <1>3 DEF TypeInv, StackTypes, MarksNested, bindings
<1>4. ASSUME NEW t \in Threads, ThreadStep(t) PROVE StackTypes' /\ MarksNested'
  <2>1. ASSUME NEW kind \in {"let", "loop"}, enter(t, kind)
        PROVE  StackTypes' /\ MarksNested'
    BY <2>1, EnterKeepsTypes
  <2>2. ASSUME NEW s \in Symbols, NEW v \in Content, bind_special(t, s, v)
        PROVE  StackTypes' /\ MarksNested'
    BY <2>2, ReadTypes, PushKeepsTypes DEF bind_special
  <2>3. ASSUME NEW s \in Symbols, bind_special_to_current_value(t, s)
        PROVE  StackTypes' /\ MarksNested'
    <3> DEFINE old == IF Full(t) THEN tlv[t][binding_index[s]] ELSE symbol_value(t, s)
    <3>1. old \in Content \cup {NO_TLV} /\ symbol_value(t, s) \in Content BY ReadTypes
    <3>2. Push(t, s, old, symbol_value(t, s)) /\ UNCHANGED <<value, saved, exited>>
      BY <2>3 DEF bind_special_to_current_value
    <3>3. QED BY <3>1, <3>2, PushKeepsTypes
  <2>4. ASSUME NEW s \in Symbols, NEW v \in Values, set_symbol_value(t, s, v)
        PROVE  StackTypes' /\ MarksNested'
    <3>1. CASE symbol_thread_local_value(t, s) # NO_TLV
      <4>1. /\ tlv' = [tlv EXCEPT ![t][binding_index[s]] = v]
            /\ UNCHANGED <<value, stack, capacity, saved, exited>>
        BY <2>4, <3>1 DEF set_symbol_value
      <4>2. tlv' \in [Threads -> [Indices -> Content \cup {NO_TLV}]]
        BY <4>1 DEF TypeInv, StackTypes, Content
      <4>3. QED BY <4>1, <4>2 DEF TypeInv, StackTypes, MarksNested
    <3>2. CASE symbol_thread_local_value(t, s) = NO_TLV
      <4>1. /\ value' = [value EXCEPT ![s] = v]
            /\ UNCHANGED <<tlv, stack, capacity, saved, exited>>
        BY <2>4, <3>2 DEF set_symbol_value, bindings
      <4>2. value' \in [Symbols -> Content] BY <4>1 DEF TypeInv, StackTypes, Content
      <4>3. QED BY <4>1, <4>2 DEF TypeInv, StackTypes, MarksNested
    <3>3. QED BY <3>1, <3>2
  <2>5. ASSUME NEW k \in DOMAIN saved[t], leave(t, k) PROVE StackTypes' /\ MarksNested'
    BY <2>5, LeaveKeepsTypes
  <2>6. ASSUME NEW s \in Symbols, NEW v, AssignIndex(t, s, v)
        PROVE  StackTypes' /\ MarksNested'
    BY <1>3, <2>6 DEF AssignIndex
  <2>7. CASE lock(t) \/ read_next(t) \/ write_index(t)
    BY <1>3, <2>7 DEF lock, read_next, write_index
  <2>8. QED
    BY <1>4, <2>1, <2>2, <2>3, <2>4, <2>5, <2>6, <2>7, FinishKeepsTypes
    DEF ThreadStep, bind_special_first, bind_current_first
<1>5. QED BY <1>1, <1>2, <1>3, <1>4 DEF Next, vars, TypeInv

(* However the threads race for them, as many indices are handed out as      *)
(* symbols have one: if there are fewer symbols than slots, which is assumed *)
(* and nothing tests, every index is inside of the array of current values.  *)
THEOREM TypeCorrect == Spec => []TypeOK
BY TypeInvInit, TypeInvStep, TypeInvGivesTypes, PTL DEF Spec

------------------------------------------------------------------------------
(* A binding stack and the current values stand for a stack of bindings.     *)

(* The entries above the k-th one that saved a value of the same symbol.     *)
Later(st, k) == {m \in k + 1 .. Len(st) : st[m].sym = st[k].sym}

(* The bindings of a stack st when f gives the current value of a symbol.    *)
CellsOf(st, f) ==
  [k \in DOMAIN st |->
     [sym |-> st[k].sym,
      val |-> IF Later(st, k) = {} THEN f[st[k].sym]
              ELSE st[CHOOSE m \in Later(st, k) : \A j \in Later(st, k) : m <= j].old]]

(* The positions of a stack.                                                 *)
LEMMA StackPositions ==
  ASSUME NEW st \in Seq(Entry)
  PROVE  /\ Len(st) \in Nat
         /\ DOMAIN st = 1 .. Len(st)
         /\ \A k \in 1 .. Len(st) : st[k].sym \in Symbols /\ Later(st, k) \subseteq Nat
<1>1. Len(st) \in Nat /\ DOMAIN st = 1 .. Len(st) BY LenProperties
<1>2. ASSUME NEW k \in 1 .. Len(st) PROVE st[k].sym \in Symbols
  <2>1. st[k] \in Entry BY ElementOfSeq
  <2>2. QED BY <2>1 DEF Entry
<1>3. \A k \in 1 .. Len(st) : Later(st, k) \subseteq Nat BY <1>1 DEF Later
<1>4. QED BY <1>1, <1>2, <1>3

(* The newest binding of a symbol has the current value.                     *)
LEMMA CellOfNewest ==
  ASSUME NEW st \in Seq(Entry), NEW f, NEW k \in 1 .. Len(st), Later(st, k) = {}
  PROVE  CellsOf(st, f)[k] = [sym |-> st[k].sym, val |-> f[st[k].sym]]
BY StackPositions DEF CellsOf

(* The value of another one is in the next entry of its symbol.              *)
LEMMA CellOfOlder ==
  ASSUME NEW st \in Seq(Entry), NEW f, NEW k \in 1 .. Len(st),
         NEW m \in Later(st, k), \A j \in Later(st, k) : m <= j
  PROVE  CellsOf(st, f)[k] = [sym |-> st[k].sym, val |-> st[m].old]
<1> DEFINE T == Later(st, k)
           x == CHOOSE i \in T : \A j \in T : i <= j
<1>1. T \subseteq Nat BY StackPositions
<1>2. x \in T /\ \A j \in T : x <= j BY <1>1, LowestChosen
<1>3. x <= m /\ m <= x /\ x \in Nat /\ m \in Nat BY <1>1, <1>2
<1>4. x = m BY <1>3
<1> HIDE DEF x
<1>5. k \in DOMAIN st /\ T # {} BY StackPositions
<1>6. CellsOf(st, f)[k] =
        [sym |-> st[k].sym,
         val |-> IF T = {} THEN f[st[k].sym] ELSE st[x].old]
  BY <1>5 DEF CellsOf, x
<1>7. QED BY <1>4, <1>5, <1>6

(* Only the current values of the symbols on the stack matter.               *)
LEMMA CellsAgree ==
  ASSUME NEW st \in Seq(Entry), NEW f, NEW g,
         \A k \in 1 .. Len(st) : f[st[k].sym] = g[st[k].sym]
  PROVE  CellsOf(st, f) = CellsOf(st, g)
BY StackPositions DEF CellsOf

(* As many bindings as entries.                                              *)
LEMMA CellsLen ==
  ASSUME NEW st \in Seq(Entry), NEW f
  PROVE  /\ DOMAIN CellsOf(st, f) = 1 .. Len(st)
         /\ \A k \in 1 .. Len(st) : CellsOf(st, f)[k].sym = st[k].sym
BY StackPositions DEF CellsOf

(* They are a sequence.                                                      *)
LEMMA CellsSeq ==
  ASSUME NEW st \in Seq(Entry), NEW f
  PROVE  \E S : CellsOf(st, f) \in Seq(S) /\ Len(CellsOf(st, f)) = Len(st)
<1> DEFINE c == CellsOf(st, f)
           S == {c[k] : k \in 1 .. Len(st)}
<1>1. Len(st) \in Nat /\ DOMAIN c = 1 .. Len(st) BY StackPositions, CellsLen
<1>2. c = [k \in 1 .. Len(st) |-> c[k]] BY <1>1 DEF CellsOf
<1> HIDE DEF c
<1>3. \A k \in 1 .. Len(st) : c[k] \in S OBVIOUS
<1>4. c \in [1 .. Len(st) -> S] BY <1>2, <1>3
<1>5. c \in Seq(S) BY <1>1, <1>4
<1>6. Len(c) = Len(st) BY <1>1, <1>5
<1>7. QED BY <1>5, <1>6 DEF c

(* Pushing the current value of s and giving it a new one adds a binding.    *)
LEMMA PushIsBind ==
  ASSUME NEW st \in Seq(Entry), NEW f, NEW s \in Symbols, NEW v,
         NEW g, g[s] = v, \A r \in Symbols : r # s => g[r] = f[r],
         f[s] \in Content \cup {NO_TLV}
  PROVE  CellsOf(Append(st, [old |-> f[s], sym |-> s]), g)
           = Append(CellsOf(st, f), [sym |-> s, val |-> v])
<1> DEFINE e == [old |-> f[s], sym |-> s]
           n == Len(st)
           new == Append(st, e)
           c == CellsOf(st, f)
           d == CellsOf(new, g)
<1>1. e \in Entry /\ e.sym = s /\ e.old = f[s] BY DEF Entry
<1> HIDE DEF e
<1>2. /\ new \in Seq(Entry) /\ Len(new) = n + 1 /\ n \in Nat
      /\ \A i \in 1 .. n : new[i] = st[i]
      /\ new[n + 1] = e
  BY <1>1, AppendProperties, LenProperties
<1> HIDE DEF n
<1>3. PICK S : c \in Seq(S) /\ Len(c) = n BY CellsSeq DEF n
<1>4. PICK R : d \in Seq(R) /\ Len(d) = n + 1 BY <1>2, CellsSeq
<1>a. new \in Seq(Entry) BY <1>2
<1> HIDE DEF new, c, d
<1>5. ASSUME NEW k \in 1 .. n PROVE d[k] = c[k]
  <2>1. k \in 1 .. Len(new) /\ new[k] = st[k] /\ st[k].sym \in Symbols
    BY <1>2, StackPositions DEF n
  <2>2. Later(new, k) = Later(st, k) \cup (IF st[k].sym = s THEN {n + 1} ELSE {})
    BY <1>1, <1>2, <2>1 DEF Later, n
  <2>3. CASE Later(st, k) # {}
    <3>1. PICK m \in Later(st, k) : \A j \in Later(st, k) : m <= j
      BY <2>3, StackPositions, LowestExists DEF n
    <3>2. m \in 1 .. n BY <1>2 DEF Later, n
    <3>3. m \in Later(new, k) /\ \A j \in Later(new, k) : m <= j
      <4>1. m <= n + 1 BY <1>2, <3>2
      <4>2. QED BY <2>2, <3>1, <4>1
    <3>4. c[k] = [sym |-> st[k].sym, val |-> st[m].old]
      BY <3>1, CellOfOlder DEF c, n
    <3>5. d[k] = [sym |-> new[k].sym, val |-> new[m].old]
      BY <1>2, <2>1, <3>3, CellOfOlder DEF d
    <3>6. QED BY <1>2, <2>1, <3>2, <3>4, <3>5
  <2>4. CASE Later(st, k) = {} /\ st[k].sym # s
    <3>1. Later(new, k) = {} BY <2>2, <2>4
    <3>2. d[k] = [sym |-> new[k].sym, val |-> g[new[k].sym]]
      BY <1>a, <2>1, <3>1, CellOfNewest DEF d
    <3>3. c[k] = [sym |-> st[k].sym, val |-> f[st[k].sym]]
      BY <2>4, CellOfNewest DEF c, n
    <3>4. QED BY <2>1, <2>4, <3>2, <3>3
  <2>5. CASE Later(st, k) = {} /\ st[k].sym = s
    <3>1. Later(new, k) = {n + 1} BY <2>2, <2>5
    <3>2. n + 1 \in Later(new, k) /\ \A j \in Later(new, k) : n + 1 <= j
      BY <1>2, <3>1
    <3>3. d[k] = [sym |-> new[k].sym, val |-> new[n + 1].old]
      BY <1>2, <2>1, <3>2, CellOfOlder DEF d
    <3>4. c[k] = [sym |-> st[k].sym, val |-> f[st[k].sym]]
      BY <2>5, CellOfNewest DEF c, n
    <3>5. QED BY <1>1, <1>2, <2>1, <2>5, <3>3, <3>4
  <2>6. QED BY <2>3, <2>4, <2>5
<1>6. d[n + 1] = [sym |-> s, val |-> v]
  <2>1. n + 1 \in 1 .. Len(new) /\ Later(new, n + 1) = {} BY <1>2 DEF Later
  <2>2. d[n + 1] = [sym |-> new[n + 1].sym, val |-> g[new[n + 1].sym]]
    BY <1>a, <2>1, CellOfNewest DEF d
  <2>3. QED BY <1>1, <1>2, <2>2
<1> DEFINE b == [sym |-> s, val |-> v]
           a == Append(c, b)
<1> HIDE DEF b
<1>7. /\ a \in Seq(S \cup {b}) /\ Len(a) = n + 1
      /\ \A i \in 1 .. n : a[i] = c[i]
      /\ a[n + 1] = b
  <2>1. c \in Seq(S \cup {b}) BY <1>3
  <2>2. QED BY <1>3, <2>1, AppendProperties
<1> HIDE DEF a
<1>8. \A i \in 1 .. n + 1 : d[i] = a[i] BY <1>2, <1>5, <1>6, <1>7 DEF b
<1>9. d = a BY <1>4, <1>7, <1>8, SeqEqual
<1>10. QED BY <1>9 DEF a, b, c, d, new, e

(* Cutting the stack, with the current values that the oldest entries above  *)
(* the cut saved, drops the bindings above it.                               *)
LEMMA CutIsUnbind ==
  ASSUME NEW st \in Seq(Entry), NEW f, NEW g, NEW n \in 0 .. Len(st),
         \A s \in Symbols :
           (\A k \in n + 1 .. Len(st) : st[k].sym # s) => g[s] = f[s],
         \A m \in n + 1 .. Len(st) :
           (\A k \in n + 1 .. m - 1 : st[k].sym # st[m].sym) => g[st[m].sym] = st[m].old
  PROVE  CellsOf(SubSeq(st, 1, n), g) = SubSeq(CellsOf(st, f), 1, n)
<1> DEFINE new == SubSeq(st, 1, n)
           c == CellsOf(st, f)
           d == CellsOf(new, g)
<1>1. /\ Len(st) \in Nat /\ n \in Nat /\ n <= Len(st)
      /\ new \in Seq(Entry) /\ Len(new) = n /\ \A i \in 1 .. n : new[i] = st[i]
  BY SubSeqProperties, LenProperties
<1>2. PICK S : c \in Seq(S) /\ Len(c) = Len(st) BY CellsSeq
<1>3. PICK R : d \in Seq(R) /\ Len(d) = n BY <1>1, CellsSeq
<1>a. new \in Seq(Entry) BY <1>1
<1> HIDE DEF new, c, d
<1>4. ASSUME NEW k \in 1 .. n PROVE d[k] = c[k]
  <2>1. k \in 1 .. Len(st) /\ new[k] = st[k] /\ st[k].sym \in Symbols
    BY <1>1, StackPositions
  <2>a. k \in 1 .. Len(new) BY <1>1
  <2>2. Later(new, k) = {m \in Later(st, k) : m <= n} BY <1>1, <2>1 DEF Later
  <2>3. CASE Later(st, k) = {}
    <3>1. \A m \in n + 1 .. Len(st) : st[m].sym # st[k].sym
      BY <1>1, <2>3 DEF Later
    <3>2. g[st[k].sym] = f[st[k].sym] BY <2>1, <3>1
    <3>3. d[k] = [sym |-> new[k].sym, val |-> g[new[k].sym]]
      <4>1. Later(new, k) = {} BY <2>2, <2>3
      <4>2. QED BY <1>a, <2>a, <4>1, CellOfNewest DEF d
    <3>4. c[k] = [sym |-> st[k].sym, val |-> f[st[k].sym]]
      BY <2>1, <2>3, CellOfNewest DEF c
    <3>5. QED BY <2>1, <3>2, <3>3, <3>4
  <2>4. CASE Later(st, k) # {}
    <3>1. PICK m \in Later(st, k) : \A j \in Later(st, k) : m <= j
      BY <2>1, <2>4, StackPositions, LowestExists
    <3>2. m \in k + 1 .. Len(st) /\ st[m].sym = st[k].sym /\ m \in Nat
      BY <1>1 DEF Later
    <3>3. c[k] = [sym |-> st[k].sym, val |-> st[m].old]
      BY <2>1, <3>1, CellOfOlder DEF c
    <3>4. CASE m <= n
      <4>1. m \in Later(new, k) /\ \A j \in Later(new, k) : m <= j
        BY <2>2, <3>1, <3>4
      <4>2. d[k] = [sym |-> new[k].sym, val |-> new[m].old]
        BY <1>a, <2>a, <4>1, CellOfOlder DEF d
      <4>3. m \in 1 .. n BY <1>1, <3>2, <3>4
      <4>4. QED BY <1>1, <2>1, <3>3, <4>2, <4>3
    <3>5. CASE ~(m <= n)
      <4>1. Later(new, k) = {}
        <5>1. \A j \in Later(st, k) : j \in Nat BY <2>1, StackPositions
        <5>2. ASSUME NEW j \in Later(st, k) PROVE ~(j <= n)
          <6>1. m <= j /\ j \in Nat BY <3>1, <5>1
          <6>2. QED BY <1>1, <3>2, <3>5, <6>1
        <5>3. QED BY <2>2, <5>2
      <4>2. m \in n + 1 .. Len(st) BY <1>1, <3>2, <3>5
      <4>3. ASSUME NEW j \in n + 1 .. m - 1 PROVE st[j].sym # st[m].sym
        <5>1. j \in k + 1 .. Len(st) /\ ~(m <= j) BY <1>1, <3>2, <4>2
        <5>2. QED BY <3>1, <3>2, <5>1 DEF Later
      <4>4. g[st[k].sym] = st[m].old BY <3>2, <4>2, <4>3
      <4>5. d[k] = [sym |-> new[k].sym, val |-> g[new[k].sym]]
        BY <1>a, <2>a, <4>1, CellOfNewest DEF d
      <4>6. QED BY <2>1, <3>3, <4>4, <4>5
    <3>6. QED BY <3>4, <3>5
  <2>5. QED BY <2>3, <2>4
<1> DEFINE a == SubSeq(c, 1, n)
<1>5. a \in Seq(S) /\ Len(a) = n /\ \A i \in 1 .. n : a[i] = c[i]
  BY <1>1, <1>2, SubSeqProperties
<1> HIDE DEF a
<1>6. \A i \in 1 .. n : d[i] = a[i] BY <1>4, <1>5
<1>7. d = a BY <1>3, <1>5, <1>6, SeqEqual
<1>8. QED BY <1>7 DEF a, c, d, new

(* A binding that is not the newest one does not depend on the current value.*)
LEMMA CellsAgreeAt ==
  ASSUME NEW st \in Seq(Entry), NEW f, NEW g, NEW k \in 1 .. Len(st),
         Later(st, k) # {}
  PROVE  CellsOf(st, f)[k] = CellsOf(st, g)[k]
BY StackPositions DEF CellsOf

(* The lowest n entries of a stack have none of symbol s.                    *)
Free(st, s, n) == \A j \in 1 .. n : st[j].sym # s

(* A symbol has a current value in the thread if and only if it is on the    *)
(* stack, and the oldest entry of each symbol restores "no value".           *)
Coherent(st, f) ==
  /\ \A s \in Symbols : f[s] = NO_TLV <=> Free(st, s, Len(st))
  /\ \A k \in 1 .. Len(st) : st[k].old = NO_TLV <=> Free(st, st[k].sym, k - 1)

(* Pushing a symbol's current value, and giving the symbol another one,      *)
(* keeps the stack and the values coherent.                                  *)
LEMMA CoherentPush ==
  ASSUME NEW st \in Seq(Entry), NEW f, Coherent(st, f), NEW s \in Symbols, NEW g,
         g[s] # NO_TLV, \A r \in Symbols : r # s => g[r] = f[r],
         f[s] \in Content \cup {NO_TLV}
  PROVE  Coherent(Append(st, [old |-> f[s], sym |-> s]), g)
<1> DEFINE e == [old |-> f[s], sym |-> s]
           n == Len(st)
           new == Append(st, e)
<1>1. e \in Entry /\ e.sym = s /\ e.old = f[s] BY DEF Entry
<1> HIDE DEF e
<1>2. /\ new \in Seq(Entry) /\ Len(new) = n + 1 /\ n \in Nat
      /\ \A i \in 1 .. n : new[i] = st[i]
      /\ new[n + 1] = e
  BY <1>1, AppendProperties, LenProperties
<1>3. f[s] = NO_TLV <=> Free(st, s, n) BY DEF Coherent
<1>4. \A r \in Symbols : f[r] = NO_TLV <=> Free(st, r, n) BY DEF Coherent
<1>5. \A k \in 1 .. n : st[k].old = NO_TLV <=> Free(st, st[k].sym, k - 1)
  BY DEF Coherent
<1> HIDE DEF new, n
<1>6. ASSUME NEW k \in 0 .. n, NEW r PROVE Free(new, r, k) <=> Free(st, r, k)
  BY <1>2 DEF Free
<1>7. ASSUME NEW r \in Symbols PROVE g[r] = NO_TLV <=> Free(new, r, n + 1)
  <2>1. Free(new, r, n + 1) <=> Free(new, r, n) /\ new[n + 1].sym # r
    BY <1>2 DEF Free
  <2>2. CASE r = s BY <1>1, <1>2, <2>1, <2>2
  <2>3. CASE r # s
    <3>1. Free(new, r, n) <=> Free(st, r, n) BY <1>2, <1>6
    <3>2. QED BY <1>1, <1>2, <1>4, <2>1, <2>3, <3>1
  <2>4. QED BY <2>2, <2>3
<1>8. ASSUME NEW k \in 1 .. n + 1
      PROVE  new[k].old = NO_TLV <=> Free(new, new[k].sym, k - 1)
  <2>1. k - 1 \in 0 .. n BY <1>2
  <2>2. Free(new, new[k].sym, k - 1) <=> Free(st, new[k].sym, k - 1) BY <1>6, <2>1
  <2>3. CASE k \in 1 .. n BY <1>2, <1>5, <2>2, <2>3
  <2>4. CASE k = n + 1 BY <1>1, <1>2, <1>3, <2>2, <2>4
  <2>5. QED BY <1>2, <2>3, <2>4
<1>9. Coherent(new, g) BY <1>2, <1>7, <1>8 DEF Coherent
<1>10. QED BY <1>9 DEF new, e

(* So does cutting the stack when every symbol above the cut gets the value  *)
(* that its oldest entry there has saved.                                    *)
LEMMA CoherentCut ==
  ASSUME NEW st \in Seq(Entry), NEW f, NEW g, NEW n \in 0 .. Len(st), Coherent(st, f),
         \A s \in Symbols :
           (\A k \in n + 1 .. Len(st) : st[k].sym # s) => g[s] = f[s],
         \A m \in n + 1 .. Len(st) :
           (\A k \in n + 1 .. m - 1 : st[k].sym # st[m].sym) => g[st[m].sym] = st[m].old
  PROVE  Coherent(SubSeq(st, 1, n), g)
<1> DEFINE new == SubSeq(st, 1, n)
<1>1. /\ Len(st) \in Nat /\ n \in Nat /\ n <= Len(st)
      /\ new \in Seq(Entry) /\ Len(new) = n /\ \A i \in 1 .. n : new[i] = st[i]
  BY SubSeqProperties, LenProperties
<1> HIDE DEF new
<1>2. ASSUME NEW k \in 0 .. n, NEW r PROVE Free(new, r, k) <=> Free(st, r, k)
  BY <1>1 DEF Free
<1>3. ASSUME NEW s \in Symbols PROVE g[s] = NO_TLV <=> Free(new, s, n)
  <2> DEFINE T == {k \in n + 1 .. Len(st) : st[k].sym = s}
  <2>1. Free(new, s, n) <=> Free(st, s, n) BY <1>1, <1>2
  <2>2. CASE T = {}
    <3>1. g[s] = f[s] BY <2>2
    <3>2. Free(st, s, Len(st)) <=> Free(st, s, n) BY <1>1, <2>2 DEF Free
    <3>3. QED BY <2>1, <3>1, <3>2 DEF Coherent
  <2>3. CASE T # {}
    <3>1. T \subseteq Nat BY <1>1
    <3>2. PICK m \in T : \A j \in T : m <= j BY <2>3, <3>1, LowestExists
    <3>3. m \in n + 1 .. Len(st) /\ st[m].sym = s /\ m \in 1 .. Len(st) BY <1>1
    <3>4. \A k \in n + 1 .. m - 1 : st[k].sym # s
      <4>1. SUFFICES ASSUME NEW k \in n + 1 .. m - 1, st[k].sym = s PROVE FALSE OBVIOUS
      <4>2. k \in T /\ ~(m <= k) BY <1>1, <3>3, <4>1
      <4>3. QED BY <3>2, <4>2
    <3>5. g[s] = st[m].old BY <3>3, <3>4
    <3>6. st[m].old = NO_TLV <=> Free(st, s, m - 1) BY <3>3 DEF Coherent
    <3>7. Free(st, s, m - 1) <=> Free(st, s, n) BY <1>1, <3>3, <3>4 DEF Free
    <3>8. QED BY <2>1, <3>5, <3>6, <3>7
  <2>4. QED BY <2>2, <2>3
<1>4. ASSUME NEW k \in 1 .. n
      PROVE  new[k].old = NO_TLV <=> Free(new, new[k].sym, k - 1)
  <2>1. k - 1 \in 0 .. n /\ k \in 1 .. Len(st) BY <1>1
  <2>2. Free(new, new[k].sym, k - 1) <=> Free(st, st[k].sym, k - 1)
    BY <1>1, <1>2, <2>1
  <2>3. QED BY <1>1, <2>1, <2>2 DEF Coherent
<1>5. Coherent(new, g) BY <1>1, <1>3, <1>4 DEF Coherent
<1>6. QED BY <1>5 DEF new

------------------------------------------------------------------------------
(* The threads implement stacks of bindings.                                 *)

(* The current value a thread has for each symbol.                           *)
Slots(t) == [s \in Symbols |-> symbol_thread_local_value(t, s)]

CoherentStacks == \A t \in Threads : Coherent(stack[t], Slots(t))

(* Nothing was stored under an index that is still to be handed out.         *)
UnusedSlotsEmpty ==
  \A t \in Threads, i \in Indices : i >= next_binding_index => tlv[t][i] = NO_TLV

(* A symbol whose index the thread waits for is not on the stack of the      *)
(* thread, and the new value is known.                                       *)
PendingIsNew ==
  \A t \in Threads :
    pc[t] # "run" => /\ Free(stack[t], pending[t].sym, Len(stack[t]))
                     /\ pending[t].val # NO_TLV

(* A bind goes on when its symbol has an index.                              *)
PendingIndexed ==
  \A t \in Threads : pc[t] = "bind" => binding_index[pending[t].sym] # 0

ShallowInv == CoherentStacks /\ UnusedSlotsEmpty /\ PendingIsNew /\ PendingIndexed

Inv == TypeInv /\ ShallowInv

AbsCells == [t \in Threads |-> CellsOf(stack[t], Slots(t))]

(* Types in the form in which they are needed.                               *)
LEMMA InvTypes ==
  ASSUME Inv
  PROVE  /\ binding_index \in [Symbols -> Indices] /\ next_binding_index \in Nat
         /\ tlv \in [Threads -> [Indices -> Content \cup {NO_TLV}]]
         /\ \A t \in Threads : /\ stack[t] \in Seq(Entry) /\ Len(stack[t]) \in Nat
                               /\ DOMAIN stack[t] = 1 .. Len(stack[t])
                               /\ \A s \in Symbols : Slots(t)[s] \in Content \cup {NO_TLV}
<1>1. TypeOK BY TypeInvGivesTypes DEF Inv
<1>2. next_binding_index \in Nat /\ stack \in [Threads -> Seq(Entry)]
  BY DEF Inv, TypeInv, IndexInv, IndexTypes, StackTypes
<1>3. \A t \in Threads : stack[t] \in Seq(Entry) BY <1>2
<1>4. \A t \in Threads, s \in Symbols : Slots(t)[s] \in Content \cup {NO_TLV}
  BY <1>1 DEF TypeOK, Slots, symbol_thread_local_value
<1>5. QED BY <1>1, <1>2, <1>3, <1>4, LenProperties DEF TypeOK

(* Symbols on a stack have an index.                                         *)
LEMMA StackIndexed ==
  ASSUME Inv, NEW t \in Threads, NEW k \in 1 .. Len(stack[t])
  PROVE  stack[t][k].sym \in Symbols /\ binding_index[stack[t][k].sym] # 0
<1>1. stack[t] \in Seq(Entry) BY InvTypes
<1>2. stack[t][k].sym \in Symbols BY <1>1, StackPositions
<1>3. ~Free(stack[t], stack[t][k].sym, Len(stack[t])) BY DEF Free
<1>4. Slots(t)[stack[t][k].sym] # NO_TLV
  BY <1>2, <1>3 DEF Inv, ShallowInv, CoherentStacks, Coherent
<1>5. QED BY <1>2, <1>4 DEF Slots, symbol_thread_local_value

(* The bindings that the refinement mapping speaks of.                       *)
LEMMA CellsAreOfSlots ==
  ASSUME Inv, NEW t \in Threads
  PROVE  Cells(t) = CellsOf(stack[t], Slots(t))
<1>1. DOMAIN stack[t] = 1 .. Len(stack[t]) BY InvTypes
<1>2. ASSUME NEW k \in 1 .. Len(stack[t])
      PROVE  Slots(t)[stack[t][k].sym] = tlv[t][binding_index[stack[t][k].sym]]
  BY StackIndexed DEF Slots, symbol_thread_local_value
<1>3. QED BY <1>1, <1>2 DEF Cells, CellsOf, Later

(* The refinement mapping, in terms of the values that the threads see.      *)
LEMMA MappedCells == Inv => [t \in Threads |-> Cells(t)] = AbsCells
BY CellsAreOfSlots DEF AbsCells

(* A push stores under the index of its symbol, which is not the index of    *)
(* another one.                                                              *)
LEMMA PushSlots ==
  ASSUME Inv, NEW t \in Threads, NEW s \in Symbols, NEW old, NEW v,
         binding_index[s] # 0, Push(t, s, old, v), UNCHANGED shared
  PROVE  /\ Slots(t)'[s] = v
         /\ \A r \in Symbols : r # s => Slots(t)'[r] = Slots(t)[r]
         /\ \A u \in Threads : u # t => Slots(u)' = Slots(u) /\ stack'[u] = stack[u]
         /\ stack'[t] = Append(stack[t], [old |-> old, sym |-> s])
         /\ UnusedSlotsEmpty'
<1>1. /\ tlv' = [tlv EXCEPT ![t][binding_index[s]] = v] /\ binding_index' = binding_index
      /\ next_binding_index' = next_binding_index
      /\ stack' = [stack EXCEPT ![t] = Append(stack[t], [old |-> old, sym |-> s])]
  BY DEF Push, shared
<1>2. \A r \in Symbols : r # s => binding_index[r] # binding_index[s]
  BY DEF Inv, TypeInv, IndexInv, BindingIndicesUnique
<1>3. binding_index[s] < next_binding_index
  BY DEF Inv, TypeInv, IndexInv, IndicesBelowNext
<1>4. \A i \in Indices : i # binding_index[s] => tlv'[t][i] = tlv[t][i]
  BY <1>1, InvTypes
<1>5. tlv'[t][binding_index[s]] = v BY <1>1, InvTypes
<1>6. \A u \in Threads : u # t => tlv'[u] = tlv[u] BY <1>1, InvTypes
<1>7. Slots(t)'[s] = v BY <1>1, <1>5 DEF Slots, symbol_thread_local_value
<1>8. \A r \in Symbols : r # s => Slots(t)'[r] = Slots(t)[r]
  BY <1>1, <1>2, <1>4, InvTypes DEF Slots, symbol_thread_local_value
<1>9. \A u \in Threads : u # t => Slots(u)' = Slots(u)
  BY <1>1, <1>6 DEF Slots, symbol_thread_local_value
<1>10. stack \in [Threads -> Seq(Entry)] BY DEF Inv, TypeInv, StackTypes
<1>11. /\ \A u \in Threads : u # t => stack'[u] = stack[u]
       /\ stack'[t] = Append(stack[t], [old |-> old, sym |-> s])
  BY <1>1, <1>10
<1>12. UnusedSlotsEmpty'
  <2>1. \A i \in Indices : i >= next_binding_index => i # binding_index[s]
    BY <1>3, InvTypes, BindingsAssumption DEF Indices
  <2>2. QED BY <1>1, <1>4, <1>6, <2>1 DEF UnusedSlotsEmpty, Inv, ShallowInv
<1>13. QED BY <1>7, <1>8, <1>9, <1>11, <1>12

(* Pushing what the thread has as the current value keeps the stacks         *)
(* coherent and is a bind.                                                   *)
LEMMA PushStep ==
  ASSUME Inv, NEW t \in Threads, NEW s \in Symbols, NEW v \in Content,
         binding_index[s] # 0, Push(t, s, tlv[t][binding_index[s]], v), UNCHANGED shared
  PROVE  /\ CoherentStacks' /\ UnusedSlotsEmpty'
         /\ \A u \in Threads : u # t => stack'[u] = stack[u]
         /\ AbsCells' = [AbsCells EXCEPT ![t] = Append(AbsCells[t], [sym |-> s, val |-> v])]
<1> DEFINE f == Slots(t)
           g == Slots(t)'
           st == stack[t]
           new == stack'[t]
<1>1. f[s] = tlv[t][binding_index[s]] BY DEF Slots, symbol_thread_local_value
<1>2. /\ g[s] = v /\ \A r \in Symbols : r # s => g[r] = f[r]
      /\ new = Append(st, [old |-> f[s], sym |-> s])
      /\ \A u \in Threads : u # t => Slots(u)' = Slots(u) /\ stack'[u] = stack[u]
      /\ UnusedSlotsEmpty'
  BY <1>1, PushSlots
<1>3. v # NO_TLV BY BindingsAssumption DEF Content
<1>4. st \in Seq(Entry) /\ Coherent(st, f) /\ f[s] \in Content \cup {NO_TLV}
  BY InvTypes DEF Inv, ShallowInv, CoherentStacks
<1> HIDE DEF f, g, st, new
<1>5. Coherent(new, g) BY <1>2, <1>3, <1>4, CoherentPush
<1>6. CellsOf(new, g) = Append(CellsOf(st, f), [sym |-> s, val |-> v])
  BY <1>2, <1>4, PushIsBind
<1>7. CoherentStacks'
  BY <1>2, <1>5 DEF CoherentStacks, Inv, ShallowInv, g, new
<1>8. ASSUME NEW u \in Threads, u # t
      PROVE  CellsOf(stack'[u], Slots(u)') = CellsOf(stack[u], Slots(u))
  BY <1>2, <1>8
<1>9. AbsCells' = [u \in Threads |-> CellsOf(stack'[u], Slots(u)')] BY DEF AbsCells
<1>10. AbsCells[t] = CellsOf(st, f) BY DEF AbsCells, st, f
<1>11. AbsCells' = [AbsCells EXCEPT ![t] = Append(AbsCells[t], [sym |-> s, val |-> v])]
  BY <1>6, <1>8, <1>9, <1>10 DEF AbsCells, g, new
<1>12. QED BY <1>2, <1>7, <1>11

(* unbind_to() leaves what the oldest entry above the mark saved.            *)
LEMMA RestoredAt ==
  ASSUME NEW t, NEW n, NEW i \in Indices, EntriesAbove(t, n, i) \subseteq Nat,
         NEW m \in EntriesAbove(t, n, i), \A j \in EntriesAbove(t, n, i) : m <= j
  PROVE  Restored(t, n)[i] = stack[t][m].old
<1> DEFINE T == EntriesAbove(t, n, i)
           x == CHOOSE k \in T : \A j \in T : k <= j
<1>1. x \in T /\ \A j \in T : x <= j BY LowestChosen
<1>2. Restored(t, n)[i] = stack[t][x].old BY DEF Restored
<1> HIDE DEF x
<1>3. x <= m /\ m <= x /\ x \in Nat /\ m \in Nat BY <1>1
<1>4. x = m BY <1>3
<1>5. QED BY <1>2, <1>4

(* Leaving a form restores for each symbol what its oldest entry above the   *)
(* mark saved.                                                               *)
LEMMA CutSlots ==
  ASSUME Inv, NEW t \in Threads, NEW n \in 0 .. Len(stack[t]),
         tlv' = [tlv EXCEPT ![t] = Restored(t, n)], UNCHANGED shared
  PROVE  /\ \A s \in Symbols :
              (\A k \in n + 1 .. Len(stack[t]) : stack[t][k].sym # s) =>
                Slots(t)'[s] = Slots(t)[s]
         /\ \A m \in n + 1 .. Len(stack[t]) :
              (\A k \in n + 1 .. m - 1 : stack[t][k].sym # stack[t][m].sym) =>
                Slots(t)'[stack[t][m].sym] = stack[t][m].old
         /\ \A u \in Threads : u # t => Slots(u)' = Slots(u)
         /\ UnusedSlotsEmpty'
<1> DEFINE st == stack[t]
<1>1. /\ binding_index' = binding_index /\ next_binding_index' = next_binding_index
      /\ tlv'[t] = Restored(t, n) /\ \A u \in Threads : u # t => tlv'[u] = tlv[u]
  BY InvTypes DEF shared
<1>2. Len(st) \in Nat /\ n \in Nat BY InvTypes
<1>3. \A k \in n + 1 .. Len(st) : k \in 1 .. Len(st) BY <1>2
<1>4. \A k \in n + 1 .. Len(st) : st[k].sym \in Symbols /\ binding_index[st[k].sym] # 0
  BY <1>3, StackIndexed
<1>5. \A i \in Indices :
        EntriesAbove(t, n, i) = {} => tlv'[t][i] = tlv[t][i]
  BY <1>1 DEF Restored
<1>6. ASSUME NEW s \in Symbols, \A k \in n + 1 .. Len(st) : st[k].sym # s
      PROVE  Slots(t)'[s] = Slots(t)[s]
  <2>1. CASE binding_index[s] = 0
    BY <1>1, <2>1 DEF Slots, symbol_thread_local_value
  <2>2. CASE binding_index[s] # 0
    <3>1. \A r \in Symbols : binding_index[r] = binding_index[s] => r = s
      BY <2>2 DEF Inv, TypeInv, IndexInv, BindingIndicesUnique
    <3>2. EntriesAbove(t, n, binding_index[s]) = {}
      BY <1>4, <1>6, <3>1 DEF EntriesAbove
    <3>3. tlv'[t][binding_index[s]] = tlv[t][binding_index[s]]
      BY <1>5, <3>2, InvTypes
    <3>4. QED BY <1>1, <3>3 DEF Slots, symbol_thread_local_value
  <2>3. QED BY <2>1, <2>2
<1>7. ASSUME NEW m \in n + 1 .. Len(st),
             \A k \in n + 1 .. m - 1 : st[k].sym # st[m].sym
      PROVE  Slots(t)'[st[m].sym] = st[m].old
  <2> DEFINE s == st[m].sym
             i == binding_index[s]
             T == EntriesAbove(t, n, i)
  <2>1. s \in Symbols /\ i # 0 /\ i \in Indices BY <1>4, InvTypes
  <2>2. \A r \in Symbols : binding_index[r] = i => r = s
    BY <2>1 DEF Inv, TypeInv, IndexInv, BindingIndicesUnique
  <2>3. T = {k \in n + 1 .. Len(st) : st[k].sym = s} BY <1>4, <2>2 DEF EntriesAbove
  <2>4. m \in T /\ T \subseteq Nat BY <1>2, <2>3
  <2>5. ASSUME NEW j \in T PROVE m <= j
    <3>1. j \in n + 1 .. Len(st) /\ st[j].sym = s BY <2>3
    <3>2. j \notin n + 1 .. m - 1 BY <1>7, <3>1
    <3>3. QED BY <1>2, <3>1, <3>2
  <2>6. Restored(t, n)[i] = st[m].old BY <2>1, <2>4, <2>5, RestoredAt
  <2>7. QED BY <1>1, <2>1, <2>6 DEF Slots, symbol_thread_local_value
<1>8. \A u \in Threads : u # t => Slots(u)' = Slots(u)
  BY <1>1 DEF Slots, symbol_thread_local_value
<1>9. UnusedSlotsEmpty'
  <2>1. ASSUME NEW i \in Indices, i >= next_binding_index
        PROVE  EntriesAbove(t, n, i) = {}
    <3>1. \A s \in Symbols : binding_index[s] < next_binding_index
      BY DEF Inv, TypeInv, IndexInv, IndicesBelowNext
    <3>2. \A s \in Symbols : binding_index[s] \in Nat
      BY DEF Inv, TypeInv, IndexInv, IndexTypes
    <3>3. i \in Int /\ next_binding_index \in Nat
      BY InvTypes, BindingsAssumption DEF Indices
    <3>4. \A s \in Symbols : binding_index[s] # i BY <2>1, <3>1, <3>2, <3>3
    <3>5. QED BY <1>4, <3>4 DEF EntriesAbove
  <2>2. QED BY <1>1, <1>5, <2>1 DEF UnusedSlotsEmpty, Inv, ShallowInv
<1>10. QED BY <1>6, <1>7, <1>8, <1>9

(* It keeps the stacks coherent and drops the bindings above the mark.       *)
LEMMA CutStep ==
  ASSUME Inv, NEW t \in Threads, NEW n \in 0 .. Len(stack[t]),
         tlv' = [tlv EXCEPT ![t] = Restored(t, n)], UNCHANGED shared,
         stack' = [stack EXCEPT ![t] = SubSeq(stack[t], 1, n)]
  PROVE  /\ CoherentStacks' /\ UnusedSlotsEmpty'
         /\ \A u \in Threads : u # t => stack'[u] = stack[u]
         /\ AbsCells' = [AbsCells EXCEPT ![t] = SubSeq(AbsCells[t], 1, n)]
<1> DEFINE f == Slots(t)
           g == Slots(t)'
           st == stack[t]
           new == stack'[t]
<1>1. stack \in [Threads -> Seq(Entry)] BY DEF Inv, TypeInv, StackTypes
<1>2. new = SubSeq(st, 1, n) /\ \A u \in Threads : u # t => stack'[u] = stack[u]
  BY <1>1
<1>3. /\ \A s \in Symbols :
           (\A k \in n + 1 .. Len(st) : st[k].sym # s) => g[s] = f[s]
      /\ \A m \in n + 1 .. Len(st) :
           (\A k \in n + 1 .. m - 1 : st[k].sym # st[m].sym) => g[st[m].sym] = st[m].old
      /\ \A u \in Threads : u # t => Slots(u)' = Slots(u)
      /\ UnusedSlotsEmpty'
  BY CutSlots
<1>4. st \in Seq(Entry) /\ Coherent(st, f) /\ n \in 0 .. Len(st)
  BY InvTypes DEF Inv, ShallowInv, CoherentStacks
<1> HIDE DEF f, g, st, new
<1>5. Coherent(new, g)
  <2>1. Coherent(SubSeq(st, 1, n), g) BY <1>3, <1>4, CoherentCut
  <2>2. QED BY <1>2, <2>1
<1>6. CellsOf(new, g) = SubSeq(CellsOf(st, f), 1, n) BY <1>2, <1>3, <1>4, CutIsUnbind
<1>7. CoherentStacks'
  BY <1>2, <1>3, <1>5 DEF CoherentStacks, Inv, ShallowInv, g, new
<1>8. ASSUME NEW u \in Threads, u # t
      PROVE  CellsOf(stack'[u], Slots(u)') = CellsOf(stack[u], Slots(u))
  BY <1>2, <1>3, <1>8
<1>9. AbsCells' = [u \in Threads |-> CellsOf(stack'[u], Slots(u)')] BY DEF AbsCells
<1>10. AbsCells[t] = CellsOf(st, f) BY DEF AbsCells, st, f
<1>11. AbsCells' = [AbsCells EXCEPT ![t] = SubSeq(AbsCells[t], 1, n)]
  BY <1>6, <1>8, <1>9, <1>10 DEF AbsCells, g, new
<1>12. QED BY <1>2, <1>3, <1>7, <1>11

(* A new index changes no current value: its slots are empty.                *)
LEMMA WriteIndexStep ==
  ASSUME Inv, NEW t \in Threads, write_index(t)
  PROVE  CoherentStacks' /\ UnusedSlotsEmpty' /\ AbsCells' = AbsCells
<1> DEFINE x == pending[t].sym
           n == next_binding_index
<1>1. x \in Symbols /\ binding_index[x] = 0 /\ reg[t] = n
  BY DEF write_index, Inv, TypeInv, IndexInv, PendingIsSymbol, ReadIsCurrent
<1>2. /\ binding_index' = [binding_index EXCEPT ![x] = n] /\ next_binding_index' = n + 1
      /\ tlv' = tlv /\ stack' = stack
  BY <1>1 DEF write_index, bindings
<1>3. n \in Indices
  <2>1. Indexed \subseteq Symbols \ {x} /\ IsFiniteSet(Symbols)
    BY <1>1, BindingsAssumption, SlotsAssumption DEF Indexed
  <2>2. IsFiniteSet(Symbols \ {x}) /\ Cardinality(Symbols \ {x}) = Cardinality(Symbols) - 1
    BY <1>1, <2>1, FS_RemoveElement
  <2>3. Cardinality(Indexed) <= Cardinality(Symbols) - 1 /\ Cardinality(Indexed) \in Nat
    BY <2>1, <2>2, FS_Subset, FS_CardinalityType
  <2>4. n = Cardinality(Indexed) + 1 BY DEF Inv, TypeInv, IndexCount
  <2>5. Cardinality(Symbols) \in Nat BY <2>1, FS_CardinalityType
  <2>6. QED BY <2>3, <2>4, <2>5, BindingsAssumption, SlotsAssumption DEF Indices
<1>4. n # 0 /\ n \in Nat /\ n >= n BY DEF Inv, TypeInv, IndexInv, IndexTypes
<1>5. \A u \in Threads : tlv[u][n] = NO_TLV
  BY <1>3, <1>4 DEF Inv, ShallowInv, UnusedSlotsEmpty
<1>6. ASSUME NEW u \in Threads PROVE Slots(u)' = Slots(u)
  <2>1. ASSUME NEW s \in Symbols PROVE Slots(u)'[s] = Slots(u)[s]
    <3>1. CASE s = x
      BY <1>1, <1>2, <1>4, <1>5, <3>1, InvTypes DEF Slots, symbol_thread_local_value
    <3>2. CASE s # x
      BY <1>1, <1>2, <3>2, InvTypes DEF Slots, symbol_thread_local_value
    <3>3. QED BY <3>1, <3>2
  <2>2. QED BY <2>1 DEF Slots
<1>7. CoherentStacks' BY <1>2, <1>6 DEF CoherentStacks, Inv, ShallowInv
<1>8. UnusedSlotsEmpty'
  <2>1. \A i \in Indices : i >= n + 1 => i >= n
    BY <1>4, BindingsAssumption DEF Indices
  <2>2. QED BY <1>2, <2>1 DEF UnusedSlotsEmpty, Inv, ShallowInv
<1>9. AbsCells' = AbsCells BY <1>2, <1>6 DEF AbsCells
<1>10. QED BY <1>7, <1>8, <1>9

(* Every nonempty set of positions has a highest one.                        *)
LEMMA HighestExists ==
  ASSUME NEW n \in Nat, NEW T, T \subseteq 1 .. n, T # {}
  PROVE  \E x \in T : \A y \in T : y <= x
<1> DEFINE D == {n - k : k \in T}
<1>1. D \subseteq Nat
  <2>1. ASSUME NEW k \in T PROVE n - k \in Nat
    <3>1. k \in 1 .. n OBVIOUS
    <3>2. QED BY <3>1
  <2>2. QED BY <2>1
<1>a. D # {} OBVIOUS
<1>2. PICK d \in D : \A e \in D : d <= e BY <1>1, <1>a, LowestExists
<1>3. PICK x \in T : d = n - x OBVIOUS
<1>4. ASSUME NEW y \in T PROVE y <= x
  <2>1. n - y \in D OBVIOUS
  <2>2. n - x <= n - y BY <1>2, <1>3, <2>1
  <2>3. x \in Nat /\ y \in Nat OBVIOUS
  <2>4. QED BY <2>2, <2>3
<1>5. QED BY <1>4

(* The entries of a symbol on a stack.                                       *)
EntriesOf(st, s) == {k \in 1 .. Len(st) : st[k].sym = s}

(* A symbol on the stack has a newest entry.                                 *)
LEMMA NewestEntry ==
  ASSUME NEW st \in Seq(Entry), NEW s, ~Free(st, s, Len(st))
  PROVE  \E x \in EntriesOf(st, s) :
           (\A m \in EntriesOf(st, s) : m <= x) /\ Later(st, x) = {}
<1> DEFINE B == EntriesOf(st, s)
<1>1. Len(st) \in Nat BY StackPositions
<1>2. B # {} /\ B \subseteq 1 .. Len(st) BY DEF Free, EntriesOf
<1>3. PICK x \in B : \A m \in B : m <= x BY <1>1, <1>2, HighestExists
<1>4. x \in 1 .. Len(st) /\ st[x].sym = s BY DEF EntriesOf
<1>5. Later(st, x) = {}
  <2>1. SUFFICES ASSUME NEW m \in Later(st, x) PROVE FALSE OBVIOUS
  <2>2. m \in x + 1 .. Len(st) /\ st[m].sym = s BY <1>4, <2>1 DEF Later
  <2>3. m \in B BY <1>1, <1>4, <2>2 DEF EntriesOf
  <2>4. m <= x BY <1>3, <2>3
  <2>5. QED BY <1>1, <1>4, <2>2, <2>4
<1>6. QED BY <1>3, <1>5

(* It is the one that a CHOOSE of the highest entry names.                   *)
LEMMA HighestChosen ==
  ASSUME NEW T, T \subseteq Nat, NEW x \in T, \A m \in T : m <= x
  PROVE  x = CHOOSE k \in T : \A m \in T : m <= k
<1> DEFINE y == CHOOSE k \in T : \A m \in T : m <= k
<1>1. y \in T /\ \A m \in T : m <= y OBVIOUS
<1> HIDE DEF y
<1>2. x <= y /\ y <= x /\ x \in Nat /\ y \in Nat BY <1>1
<1>3. x = y BY <1>2
<1>4. QED BY <1>3 DEF y

(* Steps that touch neither indices nor arrays nor stacks.                   *)
LEMMA StacksUnchanged ==
  ASSUME Inv, UNCHANGED <<binding_index, next_binding_index, tlv, stack>>
  PROVE  CoherentStacks' /\ UnusedSlotsEmpty' /\ AbsCells' = AbsCells
<1>1. \A t \in Threads : Slots(t)' = Slots(t) BY DEF Slots, symbol_thread_local_value
<1>2. QED
  BY <1>1 DEF Inv, ShallowInv, CoherentStacks, UnusedSlotsEmpty, AbsCells

(* The x-th binding of a thread gets another value.                          *)
Reassigned(t, x, v) == AbsCells' = [AbsCells EXCEPT ![t][x].val = v]

(* A symbol with a current value is assigned there: the newest binding.      *)
LEMMA SetStep ==
  ASSUME Inv, NEW t \in Threads, NEW s \in Symbols, NEW v \in Values,
         symbol_thread_local_value(t, s) # NO_TLV,
         tlv' = [tlv EXCEPT ![t][binding_index[s]] = v], UNCHANGED <<shared, stack>>
  PROVE  /\ CoherentStacks' /\ UnusedSlotsEmpty'
         /\ \E x \in EntriesOf(stack[t], s) :
              /\ \A m \in EntriesOf(stack[t], s) : m <= x
              /\ Reassigned(t, x, v)
<1> DEFINE f == Slots(t)
           g == Slots(t)'
           st == stack[t]
           c == CellsOf(st, f)
           d == CellsOf(st, g)
<1>1. binding_index[s] # 0 /\ f[s] # NO_TLV BY DEF Slots, symbol_thread_local_value
<1>2. binding_index' = binding_index /\ next_binding_index' = next_binding_index
  BY DEF shared
<1>3. v # NO_TLV BY BindingsAssumption
<1>4. /\ tlv'[t][binding_index[s]] = v
      /\ \A i \in Indices : i # binding_index[s] => tlv'[t][i] = tlv[t][i]
      /\ \A u \in Threads : u # t => tlv'[u] = tlv[u]
  BY InvTypes
<1>5. g[s] = v BY <1>1, <1>2, <1>4 DEF Slots, symbol_thread_local_value
<1>6. ASSUME NEW r \in Symbols, r # s PROVE g[r] = f[r]
  <2>1. binding_index[r] # binding_index[s]
    BY <1>1, <1>6 DEF Inv, TypeInv, IndexInv, BindingIndicesUnique
  <2>2. QED BY <1>2, <1>4, <2>1, InvTypes DEF Slots, symbol_thread_local_value
<1>7. \A u \in Threads : u # t => Slots(u)' = Slots(u)
  BY <1>2, <1>4 DEF Slots, symbol_thread_local_value
<1>8. st \in Seq(Entry) /\ Coherent(st, f)
  BY InvTypes DEF Inv, ShallowInv, CoherentStacks
<1>9. ~Free(st, s, Len(st)) BY <1>1, <1>8 DEF Coherent
<1> HIDE DEF f, g, st
<1>10. Coherent(st, g)
  <2>1. \A r \in Symbols : g[r] = NO_TLV <=> f[r] = NO_TLV BY <1>1, <1>3, <1>5, <1>6
  <2>2. QED BY <1>8, <2>1 DEF Coherent
<1>11. PICK x \in EntriesOf(st, s) :
         (\A m \in EntriesOf(st, s) : m <= x) /\ Later(st, x) = {}
  BY <1>8, <1>9, NewestEntry
<1>12. d = [c EXCEPT ![x].val = v]
  <2>1. \A r \in Symbols : r # s => g[r] = f[r] BY <1>6
  <2>2. x \in 1 .. Len(st) /\ st[x].sym = s BY DEF EntriesOf
  <2>3. /\ c[x] = [sym |-> s, val |-> f[s]] /\ d[x] = [sym |-> s, val |-> v]
        /\ \A j \in 1 .. Len(st) : j # x => d[j] = c[j]
    <3>1. c[x] = [sym |-> s, val |-> f[s]] BY <1>8, <1>11, <2>2, CellOfNewest
    <3>2. d[x] = [sym |-> s, val |-> v] BY <1>5, <1>8, <1>11, <2>2, CellOfNewest
    <3>3. ASSUME NEW j \in 1 .. Len(st), j # x PROVE d[j] = c[j]
      <4>1. st[j].sym \in Symbols /\ Len(st) \in Nat BY <1>8, StackPositions
      <4>2. CASE st[j].sym = s
        <5>1. x \in Later(st, j)
          <6>1. j \in EntriesOf(st, s) BY <4>2 DEF EntriesOf
          <6>2. j <= x BY <1>11, <6>1
          <6>3. x \in j + 1 .. Len(st) BY <2>2, <3>3, <4>1, <6>2
          <6>4. QED BY <2>2, <4>2, <6>3 DEF Later
        <5>2. QED BY <1>8, <5>1, CellsAgreeAt
      <4>3. CASE st[j].sym # s
        <5>1. f[st[j].sym] = g[st[j].sym] BY <2>1, <4>1, <4>3
        <5>2. CASE Later(st, j) # {} BY <1>8, <5>2, CellsAgreeAt
        <5>3. CASE Later(st, j) = {}
          <6>1. c[j] = [sym |-> st[j].sym, val |-> f[st[j].sym]] BY <1>8, <5>3, CellOfNewest
          <6>2. d[j] = [sym |-> st[j].sym, val |-> g[st[j].sym]] BY <1>8, <5>3, CellOfNewest
          <6>3. QED BY <5>1, <6>1, <6>2
        <5>4. QED BY <5>2, <5>3
      <4>4. QED BY <4>2, <4>3
    <3>4. QED BY <3>1, <3>2, <3>3
  <2>4. /\ c = [j \in 1 .. Len(st) |-> c[j]] /\ d = [j \in 1 .. Len(st) |-> d[j]]
    BY <1>8, StackPositions DEF CellsOf
  <2> HIDE DEF c, d
  <2> DEFINE w == [c EXCEPT ![x].val = v]
  <2>5. w = [j \in 1 .. Len(st) |-> w[j]] BY <2>4
  <2>6. w[x] = d[x] BY <2>2, <2>3, <2>4
  <2>7. \A j \in 1 .. Len(st) : j # x => w[j] = c[j] BY <2>4
  <2>8. \A j \in 1 .. Len(st) : w[j] = d[j] BY <2>3, <2>6, <2>7
  <2>9. QED BY <2>4, <2>5, <2>8
<1>13. CoherentStacks'
  <2>1. stack'[t] = st /\ \A u \in Threads : stack'[u] = stack[u] BY DEF st
  <2>2. \A u \in Threads : u # t => Coherent(stack'[u], Slots(u)')
    BY <1>7, <2>1 DEF CoherentStacks, Inv, ShallowInv
  <2>3. Coherent(stack'[t], Slots(t)') BY <1>10, <2>1 DEF g
  <2>4. QED BY <2>2, <2>3 DEF CoherentStacks
<1>14. UnusedSlotsEmpty'
  <2>1. binding_index[s] < next_binding_index
    BY DEF Inv, TypeInv, IndexInv, IndicesBelowNext
  <2>2. \A i \in Indices : i >= next_binding_index => i # binding_index[s]
    BY <2>1, InvTypes, BindingsAssumption DEF Indices
  <2>3. QED BY <1>2, <1>4, <2>2 DEF UnusedSlotsEmpty, Inv, ShallowInv
<1> HIDE DEF c, d
<1>15. AbsCells[t] = c BY DEF AbsCells, c, st, f
<1>16. AbsCells' = [u \in Threads |-> CellsOf(stack[u], Slots(u)')] BY DEF AbsCells
<1>17. AbsCells' = [AbsCells EXCEPT ![t] = d]
  BY <1>7, <1>16 DEF AbsCells, d, g, st
<1>18. Reassigned(t, x, v) BY <1>12, <1>15, <1>17 DEF Reassigned
<1>19. QED BY <1>11, <1>13, <1>14, <1>18 DEF st

(* The abstract steps that the concrete ones take.                           *)
Mapped == [t \in Threads |-> Cells(t)]

MappedForms == [t \in Threads |-> Marks(t)]

MarksOf(f) == [k \in DOMAIN f |-> f[k].mark]

(* The marks of active forms are numbers,                                    *)
LEMMA MarksSeq ==
  ASSUME NEW f \in Seq(Form)
  PROVE  /\ MarksOf(f) \in Seq(Nat) /\ Len(MarksOf(f)) = Len(f)
         /\ Len(f) \in Nat /\ DOMAIN f = 1 .. Len(f)
         /\ \A k \in 1 .. Len(f) : MarksOf(f)[k] = f[k].mark /\ f[k].mark \in Nat
<1>1. Len(f) \in Nat /\ DOMAIN f = 1 .. Len(f) /\ \A k \in 1 .. Len(f) : f[k] \in Form
  OBVIOUS
<1>2. \A k \in 1 .. Len(f) : f[k].mark \in Nat BY <1>1 DEF Form
<1>3. /\ MarksOf(f) \in [1 .. Len(f) -> Nat]
      /\ \A k \in 1 .. Len(f) : MarksOf(f)[k] = f[k].mark
  BY <1>1, <1>2 DEF MarksOf
<1>4. MarksOf(f) \in Seq(Nat) BY <1>1, <1>3
<1>5. Len(MarksOf(f)) = Len(f) BY <1>1, <1>3, <1>4
<1>6. QED BY <1>1, <1>2, <1>3, <1>4, <1>5

(* one more when a form is entered,                                          *)
LEMMA MarksAppend ==
  ASSUME NEW f \in Seq(Form), NEW e \in Form
  PROVE  MarksOf(Append(f, e)) = Append(MarksOf(f), e.mark)
<1> DEFINE g == Append(f, e)
           m == MarksOf(f)
<1>1. e.mark \in Nat BY DEF Form
<1>2. m \in Seq(Nat) /\ Len(m) = Len(f) /\ Len(f) \in Nat BY MarksSeq
<1>3. g \in Seq(Form) /\ Len(g) = Len(f) + 1 OBVIOUS
<1>4. MarksOf(g) \in Seq(Nat) /\ Len(MarksOf(g)) = Len(f) + 1 BY <1>3, MarksSeq
<1>5. Append(m, e.mark) \in Seq(Nat) /\ Len(Append(m, e.mark)) = Len(f) + 1
  BY <1>1, <1>2
<1>6. ASSUME NEW k \in 1 .. Len(f) + 1 PROVE MarksOf(g)[k] = Append(m, e.mark)[k]
  <2>1. MarksOf(g)[k] = g[k].mark BY <1>3, MarksSeq
  <2>2. CASE k = Len(f) + 1
    <3>1. g[k] = e BY <2>2
    <3>2. Append(m, e.mark)[k] = e.mark BY <1>1, <1>2, <2>2
    <3>3. QED BY <2>1, <3>1, <3>2
  <2>3. CASE k # Len(f) + 1
    <3>1. k \in 1 .. Len(f) BY <1>2, <2>3
    <3>2. g[k] = f[k] /\ m[k] = f[k].mark BY <3>1, MarksSeq
    <3>3. Append(m, e.mark)[k] = m[k] BY <1>1, <1>2, <3>1
    <3>4. QED BY <2>1, <3>2, <3>3
  <2>4. QED BY <2>2, <2>3
<1> HIDE DEF g, m
<1>7. MarksOf(g) = Append(m, e.mark) BY <1>4, <1>5, <1>6, SeqEqual
<1>8. QED BY <1>7 DEF g, m

(* and those of the outer ones when a form is left.                          *)
LEMMA MarksCut ==
  ASSUME NEW f \in Seq(Form), NEW j \in 1 .. Len(f)
  PROVE  MarksOf(SubSeq(f, 1, j - 1)) = SubSeq(MarksOf(f), 1, j - 1)
<1> DEFINE g == SubSeq(f, 1, j - 1)
           m == MarksOf(f)
           r == SubSeq(m, 1, j - 1)
<1>1. m \in Seq(Nat) /\ Len(m) = Len(f) /\ Len(f) \in Nat BY MarksSeq
<1>2. /\ g \in Seq(Form) /\ Len(g) = j - 1
      /\ \A k \in 1 .. j - 1 : g[k] = f[k]
  BY <1>1
<1>3. MarksOf(g) \in Seq(Nat) /\ Len(MarksOf(g)) = j - 1 BY <1>2, MarksSeq
<1>4. r \in Seq(Nat) /\ Len(r) = j - 1 /\ \A k \in 1 .. j - 1 : r[k] = m[k]
  BY <1>1
<1>5. \A k \in 1 .. j - 1 : MarksOf(g)[k] = g[k].mark BY <1>2, MarksSeq
<1>6. \A k \in 1 .. j - 1 : m[k] = f[k].mark BY <1>1, MarksSeq
<1> HIDE DEF g, m, r
<1>7. \A k \in 1 .. Len(MarksOf(g)) : MarksOf(g)[k] = r[k]
  BY <1>2, <1>3, <1>4, <1>5, <1>6
<1>8. MarksOf(g) \in Seq(Nat) /\ r \in Seq(Nat) /\ Len(MarksOf(g)) = Len(r)
  BY <1>3, <1>4
<1>9. MarksOf(g) = r BY <1>7, <1>8, SeqEqual
<1>10. QED BY <1>9 DEF g, m, r

(* The start of a form is an Enter of the abstract specification,            *)
LEMMA MappedEnter ==
  ASSUME Inv, Mapped = AbsCells, Mapped' = AbsCells',
         NEW t \in Threads, NEW kind \in {"let", "loop"}, enter(t, kind)
  PROVE  Abstract!Next
<1> DEFINE n == Len(stack[t])
           form == [mark |-> n, kind |-> kind]
<1>1. saved' = [saved EXCEPT ![t] = Append(saved[t], form)] BY DEF enter
<1>2. UNCHANGED <<binding_index, next_binding_index, tlv, stack, value>>
  BY DEF enter, shared, bindings
<1>3. AbsCells' = AbsCells BY <1>2, StacksUnchanged
<1>4. Len(Mapped[t]) = n BY InvTypes, CellsSeq DEF AbsCells
<1>5. saved \in [Threads -> Seq(Form)] /\ n \in Nat
  BY InvTypes DEF Inv, TypeInv, StackTypes
<1>6. saved[t] \in Seq(Form) BY <1>5
<1>7. Marks(t)' = Append(Marks(t), n)
  <2>1. saved'[t] = Append(saved[t], form) BY <1>1, <1>5
  <2>2. Marks(t)' = MarksOf(saved'[t]) /\ Marks(t) = MarksOf(saved[t])
    BY DEF Marks, MarksOf
  <2>3. form \in Form /\ form.mark = n BY <1>5 DEF Form
  <2> HIDE DEF n, form
  <2>4. QED BY <1>6, <2>1, <2>2, <2>3, MarksAppend
<1>8. \A u \in Threads : u # t => Marks(u)' = Marks(u)
  BY <1>1, <1>5 DEF Marks
<1>9. MappedForms' = [MappedForms EXCEPT ![t] = Append(Marks(t), n)]
  BY <1>7, <1>8 DEF MappedForms
<1>10. Abstract!Enter(t)
  BY <1>2, <1>3, <1>4, <1>9 DEF Abstract!Enter, Mapped, MappedForms
<1>11. QED BY <1>10 DEF Abstract!Next

(* a push is a Bind,                                                         *)
LEMMA MappedBind ==
  ASSUME Mapped = AbsCells, Mapped' = AbsCells', value' = value, saved' = saved,
         NEW t \in Threads, NEW s \in Symbols, NEW v \in Content,
         AbsCells' = [AbsCells EXCEPT ![t] = Append(AbsCells[t], [sym |-> s, val |-> v])]
  PROVE  Abstract!Next
<1>1. Abstract!Bind(t, s, v) BY DEF Abstract!Bind, Mapped, Marks
<1>2. v \in Abstract!Content BY DEF Content, Abstract!Content
<1>3. QED BY <1>1, <1>2 DEF Abstract!Next

(* leaving a form is a Leave, which drops what was bound in it,              *)
LEMMA MappedLeave ==
  ASSUME Inv, Mapped = AbsCells, Mapped' = AbsCells', value' = value,
         NEW t \in Threads, NEW k \in DOMAIN saved[t],
         saved' = [saved EXCEPT ![t] = SubSeq(saved[t], 1, k - 1)],
         AbsCells' = [AbsCells EXCEPT ![t] = SubSeq(AbsCells[t], 1, saved[t][k].mark)]
  PROVE  Abstract!Next
<1>1. saved \in [Threads -> Seq(Form)] BY DEF Inv, TypeInv, StackTypes
<1>2. saved[t] \in Seq(Form) /\ k \in 1 .. Len(saved[t]) BY <1>1
<1>4. Marks(t)[k] = saved[t][k].mark /\ k \in DOMAIN Marks(t) BY DEF Marks
<1>5. Marks(t)' = SubSeq(Marks(t), 1, k - 1)
  <2>1. saved'[t] = SubSeq(saved[t], 1, k - 1) BY <1>1
  <2>2. Marks(t)' = MarksOf(saved'[t]) /\ Marks(t) = MarksOf(saved[t])
    BY DEF Marks, MarksOf
  <2>3. QED BY <1>2, <2>1, <2>2, MarksCut
<1>6. \A u \in Threads : u # t => Marks(u)' = Marks(u)
  BY <1>1 DEF Marks
<1>7. MappedForms' = [MappedForms EXCEPT ![t] = SubSeq(Marks(t), 1, k - 1)]
  BY <1>5, <1>6 DEF MappedForms
<1>8. Abstract!Leave(t, k)
  BY <1>4, <1>7 DEF Abstract!Leave, Mapped, MappedForms
<1>9. QED BY <1>4, <1>8 DEF Abstract!Next

(* and set_symbol_value() an Assign, to the newest binding of the thread or  *)
(* to the global value.                                                      *)
LEMMA MappedAssign ==
  ASSUME Inv, Mapped = AbsCells, Mapped' = AbsCells',
         NEW t \in Threads, NEW s \in Symbols, NEW v \in Values, set_symbol_value(t, s, v)
  PROVE  Abstract!Next
<1> DEFINE B == EntriesOf(stack[t], s)
<1>0. MappedForms' = MappedForms BY DEF set_symbol_value, MappedForms, Marks
<1>1. B = Abstract!Bindings(t, s) /\ B \subseteq Nat
  <2>1. AbsCells[t] = CellsOf(stack[t], Slots(t)) /\ stack[t] \in Seq(Entry)
    BY InvTypes DEF AbsCells
  <2>2. /\ DOMAIN AbsCells[t] = 1 .. Len(stack[t])
        /\ \A k \in 1 .. Len(stack[t]) : AbsCells[t][k].sym = stack[t][k].sym
    BY <2>1, CellsLen
  <2>3. Abstract!Bindings(t, s) = {k \in DOMAIN AbsCells[t] : AbsCells[t][k].sym = s}
    BY DEF Abstract!Bindings, Mapped
  <2>4. QED BY <2>2, <2>3, InvTypes DEF EntriesOf
<1>2. CASE symbol_thread_local_value(t, s) # NO_TLV
  <2>1. /\ tlv' = [tlv EXCEPT ![t][binding_index[s]] = v]
        /\ UNCHANGED <<value, shared, stack>>
    BY <1>2 DEF set_symbol_value
  <2>b. tlv' = [tlv EXCEPT ![t][binding_index[s]] = v] /\ UNCHANGED <<shared, stack>>
    BY <2>1
  <2>a. PICK x \in B : /\ \A m \in B : m <= x
                       /\ Reassigned(t, x, v)
    BY <1>2, <2>b, SetStep
  <2> HIDE DEF B
  <2>3. x = Abstract!Newest(t, s)
    BY <1>1, <2>a, HighestChosen DEF Abstract!Newest
  <2>4. Abstract!Assign(t, s, v)
    BY <1>0, <1>1, <2>1, <2>a, <2>3 DEF Abstract!Assign, Mapped, MappedForms, Reassigned
  <2>5. QED BY <2>4 DEF Abstract!Next
<1>3. CASE symbol_thread_local_value(t, s) = NO_TLV
  <2>1. value' = [value EXCEPT ![s] = v] /\ UNCHANGED <<tlv, shared, stack>>
    BY <1>3 DEF set_symbol_value, bindings
  <2>2. AbsCells' = AbsCells BY <2>1, StacksUnchanged DEF shared
  <2>3. Free(stack[t], s, Len(stack[t]))
    BY <1>3 DEF Inv, ShallowInv, CoherentStacks, Coherent, Slots
  <2>4. B = {} BY <2>3 DEF Free, EntriesOf
  <2> HIDE DEF B
  <2>5. Abstract!Assign(t, s, v)
    BY <1>0, <1>1, <2>1, <2>2, <2>4 DEF Abstract!Assign, Mapped, MappedForms
  <2>6. QED BY <2>5 DEF Abstract!Next
<1>4. QED BY <1>2, <1>3

(* The programs of which this is proved: none compiled from (let ((*x* *x*)) *)
(* ...) in a thread that has not bound *x*, see SpecialBindings.             *)
NoRebind == "rebind global" \notin ClientMay

(* That leaving a form drops its bindings is proved of the programs without  *)
(* a dolist or dotimes over a special variable in a thread that has no       *)
(* bindings: there the code keeps the binding of the loop.                   *)
NoBottomLoop == "loop at bottom" \notin ClientMay

(* Then no active loop has saved the index 0, which it would take for "no    *)
(* special binding".                                                         *)
LoopsAbove ==
  \A t \in Threads : \A k \in DOMAIN saved[t] :
    saved[t][k].kind = "loop" => saved[t][k].mark # 0

(* What a step of one thread does to the bindings.                           *)
AbsStep ==
  LoopsAbove /\ Mapped = AbsCells /\ Mapped' = AbsCells' =>
    Abstract!Next \/ (AbsCells' = AbsCells /\ UNCHANGED <<saved, value>>)

StepOf(t) ==
  /\ CoherentStacks' /\ UnusedSlotsEmpty'
  /\ \A u \in Threads : u # t => stack'[u] = stack[u]
  /\ AbsStep

(* The steps of add_to_binding_index() and of calls do not show.             *)
LEMMA QuietStep ==
  ASSUME Inv, NEW t \in Threads,
         UNCHANGED <<binding_index, next_binding_index, tlv, stack, saved, value>>
  PROVE  StepOf(t)
BY StacksUnchanged DEF StepOf, AbsStep

(* A push of what the thread has in the slot of a symbol with an index.      *)
LEMMA BindStep ==
  ASSUME Inv, NEW t \in Threads, NEW s \in Symbols, NEW v \in Content,
         binding_index[s] # 0, Push(t, s, tlv[t][binding_index[s]], v),
         UNCHANGED <<shared, saved, value>>
  PROVE  StepOf(t)
<1>1. /\ CoherentStacks' /\ UnusedSlotsEmpty'
      /\ \A u \in Threads : u # t => stack'[u] = stack[u]
      /\ AbsCells' = [AbsCells EXCEPT ![t] = Append(AbsCells[t], [sym |-> s, val |-> v])]
  BY PushStep
<1>2. AbsStep BY <1>1, MappedBind DEF AbsStep
<1>3. QED BY <1>1, <1>2 DEF StepOf

(* Rebinding a variable that the thread has bound saves its current value.   *)
LEMMA RebindStep ==
  ASSUME Inv, NoRebind, NEW t \in Threads, NEW s \in Symbols,
         bind_special_to_current_value(t, s)
  PROVE  StepOf(t)
<1> DEFINE w == tlv[t][binding_index[s]]
<1>1. binding_index[s] # 0 /\ symbol_thread_local_value(t, s) # NO_TLV
  BY DEF bind_special_to_current_value, NoRebind
<1>2. symbol_thread_local_value(t, s) = w BY <1>1 DEF symbol_thread_local_value
<1>3. symbol_value(t, s) = w BY <1>1, <1>2 DEF symbol_value
<1>4. w \in Content BY <1>1, <1>2, InvTypes
<1>5. (IF Full(t) THEN w ELSE symbol_value(t, s)) = w BY <1>3
<1>6. Push(t, s, w, w) /\ UNCHANGED <<shared, saved, value>>
  BY <1>3, <1>5 DEF bind_special_to_current_value
<1>7. QED BY <1>1, <1>4, <1>6, BindStep

(* The end of a first bind saves "no value", which is what the thread has.   *)
LEMMA FinishStep ==
  ASSUME Inv, NEW t \in Threads, finish_bind(t)
  PROVE  StepOf(t)
<1> DEFINE s == pending[t].sym
           v == pending[t].val
<1>1. pc[t] = "bind" /\ v # NO_TLV /\ Push(t, s, NO_TLV, v)
      /\ UNCHANGED <<shared, saved, value>>
  BY DEF finish_bind
<1>2. s \in Symbols /\ v \in Content \cup {NO_TLV}
  BY <1>1 DEF Inv, TypeInv, IndexInv, IndexTypes, PendingIsSymbol, NoBind, Content
<1>3. binding_index[s] # 0 /\ Free(stack[t], s, Len(stack[t]))
  BY <1>1 DEF Inv, ShallowInv, PendingIndexed, PendingIsNew
<1>4. Slots(t)[s] = NO_TLV
  BY <1>2, <1>3 DEF Inv, ShallowInv, CoherentStacks, Coherent
<1>5. tlv[t][binding_index[s]] = NO_TLV
  BY <1>2, <1>3, <1>4 DEF Slots, symbol_thread_local_value
<1>6. v \in Content BY <1>1, <1>2
<1>7. QED BY <1>1, <1>2, <1>3, <1>5, <1>6, BindStep

(* setq of a variable, bound or not.                                         *)
LEMMA AssignStep ==
  ASSUME Inv, NEW t \in Threads, NEW s \in Symbols, NEW v \in Values,
         set_symbol_value(t, s, v)
  PROVE  StepOf(t)
<1>1. AbsStep BY MappedAssign DEF AbsStep
<1>2. UNCHANGED <<shared, stack>> BY DEF set_symbol_value, bindings
<1>3. CASE symbol_thread_local_value(t, s) # NO_TLV
  <2>1. tlv' = [tlv EXCEPT ![t][binding_index[s]] = v] BY <1>3 DEF set_symbol_value
  <2>2. CoherentStacks' /\ UnusedSlotsEmpty' BY <1>2, <1>3, <2>1, SetStep
  <2>3. QED BY <1>1, <1>2, <2>2 DEF StepOf
<1>4. CASE symbol_thread_local_value(t, s) = NO_TLV
  <2>1. tlv' = tlv BY <1>4 DEF set_symbol_value, bindings
  <2>2. CoherentStacks' /\ UnusedSlotsEmpty' BY <1>2, <2>1, StacksUnchanged DEF shared
  <2>3. QED BY <1>1, <1>2, <2>2 DEF StepOf
<1>5. QED BY <1>3, <1>4

(* Leaving a form, if it is not refused, drops the bindings above its mark.  *)
LEMMA LeaveStep ==
  ASSUME Inv, NEW t \in Threads, NEW k \in DOMAIN saved[t], leave(t, k)
  PROVE  StepOf(t)
<1> DEFINE n == saved[t][k].mark
<1>1. UNCHANGED <<shared, value>> BY DEF leave
<1>2. CASE UNCHANGED <<saved, bindings>>
  BY <1>1, <1>2, QuietStep DEF shared, bindings
<1>a. CASE saved[t][k].kind = "loop" /\ n = 0 /\ UNCHANGED bindings
  <2>1. CoherentStacks' /\ UnusedSlotsEmpty' /\ stack' = stack
    BY <1>1, <1>a, StacksUnchanged DEF shared, bindings
  <2>2. ~LoopsAbove BY <1>a DEF LoopsAbove
  <2>3. QED BY <2>1, <2>2 DEF StepOf, AbsStep
<1>3. CASE /\ saved' = [saved EXCEPT ![t] = SubSeq(saved[t], 1, k - 1)]
           /\ tlv' = [tlv EXCEPT ![t] = Restored(t, n)]
           /\ stack' = [stack EXCEPT ![t] = SubSeq(stack[t], 1, n)]
  <2>1. n \in Nat BY MarkIsNat DEF Inv, TypeInv
  <2>2. n <= Len(stack[t]) BY DEF Inv, TypeInv, MarksNested
  <2>3. n \in 0 .. Len(stack[t]) BY <2>1, <2>2, InvTypes
  <2>4. /\ CoherentStacks' /\ UnusedSlotsEmpty'
        /\ \A u \in Threads : u # t => stack'[u] = stack[u]
        /\ AbsCells' = [AbsCells EXCEPT ![t] = SubSeq(AbsCells[t], 1, n)]
    BY <1>1, <1>3, <2>3, CutStep
  <2>5. AbsStep BY <1>1, <1>3, <2>4, MappedLeave DEF AbsStep
  <2>6. QED BY <2>4, <2>5 DEF StepOf
<1>4. QED BY <1>2, <1>a, <1>3 DEF leave

(* Entering a form leaves the bindings alone.                                *)
LEMMA EnterStep ==
  ASSUME Inv, NEW t \in Threads, NEW kind \in {"let", "loop"}, enter(t, kind)
  PROVE  StepOf(t)
<1>1. AbsStep BY MappedEnter DEF AbsStep
<1>2. CoherentStacks' /\ UnusedSlotsEmpty' /\ stack' = stack
  BY StacksUnchanged DEF enter, shared, bindings
<1>3. QED BY <1>1, <1>2 DEF StepOf

(* Every step of a thread is a step on the bindings or leaves them alone.    *)
LEMMA ThreadStepOf ==
  ASSUME Inv, NoRebind, NEW t \in Threads, ThreadStep(t)
  PROVE  StepOf(t)
<1>1. ASSUME NEW kind \in {"let", "loop"}, enter(t, kind) PROVE StepOf(t)
  BY <1>1, EnterStep
<1>2. ASSUME NEW s \in Symbols, NEW v \in Content, bind_special(t, s, v) PROVE StepOf(t)
  BY <1>2, BindStep DEF bind_special
<1>3. ASSUME NEW s \in Symbols, NEW v, AssignIndex(t, s, v) PROVE StepOf(t)
  BY <1>3, QuietStep DEF AssignIndex, shared, bindings
<1>4. CASE lock(t) \/ read_next(t)
  BY <1>4, QuietStep DEF lock, read_next, bindings
<1>5. CASE write_index(t)
  <2>1. UNCHANGED <<stack, saved, value>> BY <1>5 DEF write_index, bindings
  <2>2. QED BY <1>5, <2>1, WriteIndexStep DEF StepOf, AbsStep
<1>6. CASE finish_bind_current(t)
  BY <1>6 DEF finish_bind_current, Inv, ShallowInv, PendingIsNew
<1>7. QED
  BY <1>1, <1>2, <1>3, <1>4, <1>5, <1>6, RebindStep, FinishStep, AssignStep, LeaveStep
  DEF ThreadStep, bind_special_first, bind_current_first

(* What a thread that waits for an index knows stays true.                   *)
LEMMA PendingKept ==
  ASSUME Inv, NoRebind, NEW t \in Threads, ThreadStep(t), StepOf(t), Next
  PROVE  PendingIsNew' /\ PendingIndexed'
<1>1. \A u \in Threads : u # t => stack'[u] = stack[u] BY DEF StepOf
<1>2. \A s \in Symbols : binding_index[s] # 0 => binding_index'[s] # 0
  BY OnlyZeroIsWritten DEF Inv, TypeInv
<1>3. /\ pc \in [Threads -> {"run", "lock", "locked", "write", "bind"}]
      /\ pending \in [Threads -> [sym : Symbols, val : Content \cup {NO_TLV}] \cup {NoBind}]
      /\ \A u \in Threads : pc[u] # "run" => pending[u].sym \in Symbols
  BY DEF Inv, TypeInv, IndexInv, IndexTypes, PendingIsSymbol
<1>4. ASSUME UNCHANGED <<pc, pending>>, pc[t] = "run" PROVE PendingIsNew' /\ PendingIndexed'
  BY <1>1, <1>2, <1>3, <1>4 DEF Inv, ShallowInv, PendingIsNew, PendingIndexed
<1>5. ASSUME NEW s \in Symbols, NEW v \in Content, AssignIndex(t, s, v)
      PROVE  PendingIsNew' /\ PendingIndexed'
  <2>1. /\ pc' = [pc EXCEPT ![t] = "lock"]
        /\ pending' = [pending EXCEPT ![t] = [sym |-> s, val |-> v]]
        /\ binding_index[s] = 0 /\ stack' = stack
    BY <1>5 DEF AssignIndex, bindings
  <2>2. Free(stack[t], s, Len(stack[t])) BY <2>1, StackIndexed DEF Free
  <2>3. v # NO_TLV BY BindingsAssumption DEF Content
  <2>4. PendingIsNew'
    BY <1>3, <2>1, <2>2, <2>3 DEF Inv, ShallowInv, PendingIsNew
  <2>5. PendingIndexed'
    BY <1>2, <1>3, <2>1 DEF Inv, ShallowInv, PendingIndexed
  <2>6. QED BY <2>4, <2>5
<1>6. CASE lock(t) \/ read_next(t) \/ write_index(t)
  <2>1. /\ stack' = stack /\ pending' = pending /\ pc[t] # "run"
        /\ \A u \in Threads : u # t => pc'[u] = pc[u]
    BY <1>3, <1>6 DEF lock, read_next, write_index, bindings
  <2>2. PendingIsNew' BY <2>1 DEF Inv, ShallowInv, PendingIsNew
  <2>3. pc'[t] = "bind" => binding_index'[pending[t].sym] # 0
    <3>1. CASE lock(t) BY <1>3, <3>1 DEF lock
    <3>2. CASE read_next(t) BY <1>3, <3>2 DEF read_next
    <3>3. CASE write_index(t)
      <4>1. pending[t].sym \in Symbols /\ reg[t] # 0
        BY <3>3 DEF write_index, Inv, TypeInv, IndexInv, IndexTypes, PendingIsSymbol, ReadIsCurrent
      <4>2. QED BY <3>3, <4>1, InvTypes DEF write_index
    <3>4. QED BY <1>6, <3>1, <3>2, <3>3
  <2>4. PendingIndexed'
    BY <1>2, <1>3, <2>1, <2>3 DEF Inv, ShallowInv, PendingIndexed
  <2>5. QED BY <2>2, <2>4
<1>7. CASE finish_bind(t) \/ finish_bind_current(t)
  <2>1. pc' = [pc EXCEPT ![t] = "run"] /\ \A u \in Threads : u # t => pending'[u] = pending[u]
    BY <1>3, <1>7 DEF finish_bind, finish_bind_current
  <2>2. QED
    BY <1>1, <1>2, <1>3, <2>1 DEF Inv, ShallowInv, PendingIsNew, PendingIndexed
<1>8. ASSUME NEW kind, enter(t, kind) PROVE PendingIsNew' /\ PendingIndexed'
  BY <1>4, <1>8 DEF enter, Running, control
<1>9. ASSUME NEW s, NEW v, bind_special(t, s, v) PROVE PendingIsNew' /\ PendingIndexed'
  BY <1>4, <1>9 DEF bind_special, MayBind, Running, control
<1>10. ASSUME NEW s, bind_special_to_current_value(t, s)
       PROVE  PendingIsNew' /\ PendingIndexed'
  BY <1>4, <1>10 DEF bind_special_to_current_value, MayBind, Running, control
<1>11. ASSUME NEW s, NEW v, set_symbol_value(t, s, v) PROVE PendingIsNew' /\ PendingIndexed'
  BY <1>4, <1>11 DEF set_symbol_value, Running, control
<1>12. ASSUME NEW k, leave(t, k) PROVE PendingIsNew' /\ PendingIndexed'
  BY <1>4, <1>12 DEF leave, Running, control
<1>13. QED
  BY <1>5, <1>6, <1>7, <1>8, <1>9, <1>10, <1>11, <1>12
  DEF ThreadStep, bind_special_first, bind_current_first, NoRebind

(* At startup no variable is bound.                                          *)
LEMMA InvInit == Init => Inv
<1> SUFFICES ASSUME Init PROVE Inv OBVIOUS
<1>1. TypeInv BY TypeInvInit
<1>2. CoherentStacks
  BY DEF Init, CoherentStacks, Coherent, Free, Slots, symbol_thread_local_value
<1>3. UnusedSlotsEmpty /\ PendingIsNew /\ PendingIndexed
  BY DEF Init, UnusedSlotsEmpty, PendingIsNew, PendingIndexed
<1>4. QED BY <1>1, <1>2, <1>3 DEF Inv, ShallowInv

(* Every step of a program without such a let keeps the invariant.           *)
LEMMA InvStep == NoRebind /\ Inv /\ [Next]_vars => Inv'
<1> SUFFICES ASSUME NoRebind, Inv, [Next]_vars PROVE Inv' OBVIOUS
<1>1. TypeInv' BY TypeInvStep DEF Inv
<1>2. CASE UNCHANGED vars
  <2>1. CoherentStacks' /\ UnusedSlotsEmpty'
    BY <1>2, StacksUnchanged DEF vars, shared, bindings
  <2>2. PendingIsNew' /\ PendingIndexed'
    BY <1>2 DEF vars, shared, bindings, control, Inv, ShallowInv, PendingIsNew, PendingIndexed
  <2>3. QED BY <1>1, <2>1, <2>2 DEF Inv, ShallowInv
<1>3. CASE Next
  <2>1. PICK t \in Threads : ThreadStep(t) BY <1>3 DEF Next
  <2>2. StepOf(t) BY <2>1, ThreadStepOf
  <2>3. PendingIsNew' /\ PendingIndexed' BY <1>3, <2>1, <2>2, PendingKept
  <2>4. QED BY <1>1, <2>2, <2>3 DEF StepOf, Inv, ShallowInv
<1>4. QED BY <1>2, <1>3

(* A variable means its newest binding in the thread that reads it, and the  *)
(* global value where there is none.                                         *)
LEMMA InvGivesNewest == Inv => ValueIsNewestBinding
<1> SUFFICES ASSUME Inv, NEW t \in Threads, NEW s \in Symbols
             PROVE  symbol_value(t, s) = Abstract!Lookup(t, s)
  BY DEF ValueIsNewestBinding
<1> DEFINE B == EntriesOf(stack[t], s)
           c == CellsOf(stack[t], Slots(t))
<1>1. stack[t] \in Seq(Entry) /\ Len(stack[t]) \in Nat BY InvTypes
<1>2. /\ DOMAIN c = 1 .. Len(stack[t])
      /\ \A k \in 1 .. Len(stack[t]) : c[k].sym = stack[t][k].sym
  BY <1>1, CellsLen
<1>3. c = Cells(t) BY CellsAreOfSlots
<1> HIDE DEF c
<1>4. Abstract!Bindings(t, s) = {k \in DOMAIN c : c[k].sym = s}
  BY <1>3 DEF Abstract!Bindings
<1>5. Abstract!Bindings(t, s) = B BY <1>2, <1>4 DEF EntriesOf
<1>6. Slots(t)[s] = symbol_thread_local_value(t, s) BY DEF Slots
<1>7. Slots(t)[s] = NO_TLV <=> Free(stack[t], s, Len(stack[t]))
  BY DEF Inv, ShallowInv, CoherentStacks, Coherent
<1>8. CASE Free(stack[t], s, Len(stack[t]))
  <2>1. B = {} BY <1>8 DEF Free, EntriesOf
  <2>2. Abstract!Lookup(t, s) = value[s] BY <1>5, <2>1 DEF Abstract!Lookup
  <2>3. QED BY <1>6, <1>7, <1>8, <2>2 DEF symbol_value
<1>9. CASE ~Free(stack[t], s, Len(stack[t]))
  <2>1. PICK x \in B : (\A m \in B : m <= x) /\ Later(stack[t], x) = {}
    BY <1>1, <1>9, NewestEntry
  <2>2. B \subseteq Nat /\ B # {} BY <1>1 DEF EntriesOf
  <2>3. x \in 1 .. Len(stack[t]) /\ stack[t][x].sym = s BY DEF EntriesOf
  <2>4. c[x] = [sym |-> s, val |-> Slots(t)[s]]
    BY <1>1, <2>1, <2>3, CellOfNewest DEF c
  <2> HIDE DEF B
  <2>5. x = Abstract!Newest(t, s)
    BY <1>5, <2>1, <2>2, HighestChosen DEF Abstract!Newest
  <2>6. Abstract!Lookup(t, s) = c[x].val
    BY <1>3, <1>5, <2>2, <2>5 DEF Abstract!Lookup
  <2>7. QED BY <1>6, <1>7, <1>9, <2>4, <2>6 DEF symbol_value
<1>10. QED BY <1>8, <1>9

(* Every thread reads its newest binding of a variable, whatever the other   *)
(* threads bind and assign and in whichever order forms are left.            *)
THEOREM NewestRead ==
  ASSUME NoRebind
  PROVE  Spec => []ValueIsNewestBinding
BY InvInit, InvStep, InvGivesNewest, PTL DEF Spec

(* Only enter() adds an active form, and only leave() drops any.             *)
LEMMA LoopsAboveKept ==
  NoBottomLoop /\ Inv /\ LoopsAbove /\ [Next]_vars => LoopsAbove'
<1> SUFFICES ASSUME NoBottomLoop, Inv, LoopsAbove, [Next]_vars PROVE LoopsAbove' OBVIOUS
<1>1. saved \in [Threads -> Seq(Form)] BY DEF Inv, TypeInv, StackTypes
<1>2. CASE UNCHANGED saved BY <1>2 DEF LoopsAbove
<1>3. ASSUME NEW t \in Threads, NEW kind \in {"let", "loop"}, enter(t, kind)
      PROVE  LoopsAbove'
  <2> DEFINE form == [mark |-> Len(stack[t]), kind |-> kind]
  <2>1. saved' = [saved EXCEPT ![t] = Append(saved[t], form)] BY <1>3 DEF enter
  <2>2. form.kind = "loop" => form.mark # 0
    <3>1. Len(stack[t]) \in Nat BY InvTypes
    <3>2. kind = "loop" => 2 * Len(stack[t]) # 0
      BY <1>3 DEF enter, StackIndex, NoBottomLoop
    <3>3. QED BY <3>1, <3>2
  <2>3. saved[t] \in Seq(Form) BY <1>1
  <2> HIDE DEF form
  <2>4. \A k \in DOMAIN Append(saved[t], form) :
          Append(saved[t], form)[k].kind = "loop" => Append(saved[t], form)[k].mark # 0
    BY <2>2, <2>3 DEF LoopsAbove
  <2>5. QED BY <1>1, <2>1, <2>4 DEF LoopsAbove
<1>4. ASSUME NEW t \in Threads, NEW k \in DOMAIN saved[t],
             saved' = [saved EXCEPT ![t] = SubSeq(saved[t], 1, k - 1)]
      PROVE  LoopsAbove'
  <2>1. saved[t] \in Seq(Form) /\ k \in 1 .. Len(saved[t]) BY <1>1
  <2>2. \A j \in DOMAIN SubSeq(saved[t], 1, k - 1) :
          j \in DOMAIN saved[t] /\ SubSeq(saved[t], 1, k - 1)[j] = saved[t][j]
    BY <2>1
  <2>3. QED BY <1>1, <1>4, <2>2 DEF LoopsAbove
<1>5. ASSUME NEW t \in Threads, NEW k \in DOMAIN saved[t], leave(t, k)
      PROVE  LoopsAbove'
  BY <1>2, <1>4, <1>5 DEF leave
<1>6. QED
  BY <1>2, <1>3, <1>5
  DEF Next, vars, ThreadStep, bind_special, bind_special_first, AssignIndex,
      bind_special_to_current_value, bind_current_first, set_symbol_value,
      lock, read_next, write_index, finish_bind, finish_bind_current

(* The arrays and the stacks start as empty stacks of bindings, in no form.  *)
LEMMA AbstractInit == Init => Abstract!Init /\ LoopsAbove
<1> SUFFICES ASSUME Init PROVE Abstract!Init /\ LoopsAbove OBVIOUS
<1>1. \A t \in Threads : Cells(t) = << >> /\ Marks(t) = << >>
  BY DEF Init, Cells, Marks
<1>2. LoopsAbove BY DEF Init, LoopsAbove
<1>3. QED BY <1>1, <1>2 DEF Init, Abstract!Init

(* Every step is a step of the stacks of bindings, or none.                  *)
LEMMA AbstractStep ==
  NoRebind /\ Inv /\ Inv' /\ LoopsAbove /\ [Next]_vars =>
    [Abstract!Next]_<<Mapped, MappedForms, value>>
<1>1. Inv => Mapped = AbsCells BY MappedCells DEF Mapped
<1>2. Inv' => (Mapped = AbsCells)' BY <1>1, PTL
<1> SUFFICES ASSUME NoRebind, Inv, Inv', LoopsAbove, [Next]_vars
             PROVE  [Abstract!Next]_<<Mapped, MappedForms, value>>
  OBVIOUS
<1>3. ASSUME saved' = saved PROVE MappedForms' = MappedForms
  BY <1>3 DEF MappedForms, Marks
<1>4. CASE UNCHANGED vars
  <2>1. AbsCells' = AbsCells /\ UNCHANGED <<saved, value>>
    BY <1>4, StacksUnchanged DEF vars, shared, bindings
  <2>2. QED BY <1>1, <1>2, <1>3, <2>1
<1>5. CASE Next
  <2>1. PICK t \in Threads : ThreadStep(t) BY <1>5 DEF Next
  <2>2. AbsStep BY <2>1, ThreadStepOf DEF StepOf
  <2>3. QED BY <1>1, <1>2, <1>3, <2>2 DEF AbsStep
<1>6. QED BY <1>4, <1>5

(* The arrays and stacks of the threads implement stacks of bindings in      *)
(* nested forms, and leaving a form drops exactly the bindings made in it,   *)
(* in every program without the two uses that the hypotheses name.           *)
THEOREM BindingsRefined ==
  ASSUME NoRebind, NoBottomLoop
  PROVE  Spec => ImplementsDynamicBinding
<1>1. Inv /\ Inv' /\ LoopsAbove /\ [Next]_vars =>
        [Abstract!Next]_<<Mapped, MappedForms, value>>
  BY AbstractStep
<1>2. Inv /\ LoopsAbove /\ [Next]_vars => LoopsAbove' BY LoopsAboveKept
<1>3. QED
  BY <1>1, <1>2, InvInit, InvStep, AbstractInit, PTL
  DEF Spec, ImplementsDynamicBinding, Abstract!Spec, Mapped, MappedForms

==============================================================================
