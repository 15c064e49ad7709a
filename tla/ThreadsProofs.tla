---------------------------- MODULE ThreadsProofs ----------------------------
(***************************************************************************)
(* Proofs, for any number of threads, mutexes and condition variables and  *)
(* any program, that *all-threads* is exact and that a mutex is locked by  *)
(* the thread that believes to hold it.                                    *)
(***************************************************************************)
EXTENDS Threads, TLAPS

(* The waiting threads ts are woken, by whatever action.                     *)
WakeStep(ts) == Wake(ts) /\ \A u \in ts : pc[u] = "waiting"

(* What a step is, for the proofs: one disjunct for each kind of step.       *)
StepOf(t) ==
  \/ \E u \in Threads : make_thread(t, u)
  \/ finish(t)
  \/ RegistryStep(t)
  \/ \E m \in Mutexes, w \in BOOLEAN : get_mutex(t, m, w)
  \/ \E m \in Mutexes : trylock(t, m)
  \/ \E m \in Mutexes : release_mutex(t, m)
  \/ lock(t)
  \/ leave_with_mutex(t)
  \/ \E c \in Conditions, m \in Mutexes : condition_wait(t, c, m)
  \/ \E ts \in SUBSET Threads : WakeStep(ts)
  \/ end_wait(t)

(* Every step is one of these.                                               *)
LEMMA NextIsStep ==
  ASSUME Next
  PROVE  \E t \in Threads : StepOf(t)
<1>1. PICK t \in Threads :
        \/ \E u \in Threads : make_thread(t, u)
        \/ finish(t)
        \/ RegistryStep(t) \/ MutexStep(t) \/ ConditionStep(t)
  BY Zenon DEF Next
<1>2. CASE ConditionStep(t)
  <2>1. CASE \E c \in Conditions : \E m \in Mutexes : condition_wait(t, c, m)
    BY <2>1, Zenon DEF StepOf
  <2>2. ASSUME NEW c \in Conditions, condition_notify(t, c)
        PROVE  \E ts \in SUBSET Threads : WakeStep(ts)
    <3>1. PICK u \in Waiters(c) : Wake({u}) BY <2>2, Zenon DEF condition_notify
    <3>2. u \in Threads /\ pc[u] = "waiting" BY <3>1, Zenon DEF Waiters
    <3>3. WakeStep({u}) BY <3>1, <3>2, Zenon DEF WakeStep
    <3>4. QED BY <3>2, <3>3, Zenon
  <2>3. ASSUME NEW c \in Conditions, condition_broadcast(t, c)
        PROVE  \E ts \in SUBSET Threads : WakeStep(ts)
    <3>1. Waiters(c) \in SUBSET Threads /\ \A u \in Waiters(c) : pc[u] = "waiting"
      BY Zenon DEF Waiters
    <3>2. WakeStep(Waiters(c))
      BY <2>3, <3>1, Zenon DEF WakeStep, condition_broadcast
    <3>3. QED BY <3>1, <3>2, Zenon
  <2>4. CASE spurious_wakeup(t)
    <3>1. WakeStep({t}) BY <2>4, Zenon DEF WakeStep, spurious_wakeup
    <3>2. {t} \in SUBSET Threads BY Zenon
    <3>3. QED BY <3>1, <3>2, Zenon DEF StepOf
  <2>5. CASE end_wait(t) BY <2>5, Zenon DEF StepOf
  <2>6. QED BY <1>2, <2>1, <2>2, <2>3, <2>4, <2>5, Zenon DEF ConditionStep, StepOf
<1>3. CASE MutexStep(t) BY <1>3, Zenon DEF MutexStep, StepOf
<1>4. QED BY <1>1, <1>2, <1>3, Zenon DEF StepOf

------------------------------------------------------------------------------
(* Types.                                                                    *)

PCs ==
  {"none", "start", "registering", "run", "finish", "deregistering", "done",
   "lock", "lock_with", "waiting", "waking"}

(* Types of the variables; a thread is in one call at a time, and waits on a *)
(* condition variable until it is woken.                                     *)
TypeOK ==
  /\ pc \in [Threads -> PCs]
  /\ all_threads \in [Threads -> Nat]
  /\ list_mutex \in Threads \cup {NULL}
  /\ list \in [Threads -> [Threads -> Nat]]
  /\ holder \in [Mutexes -> Threads \cup {NULL}]
  /\ want \in [Threads -> Mutexes \cup {NULL}]
  /\ on \in [Threads -> Conditions \cup {NULL}]
  /\ forms \in [Threads -> Seq(Mutexes)]
  /\ got \in [Threads -> SUBSET Mutexes]
  /\ \A t \in Threads :
       /\ want[t] # NULL <=> pc[t] \in {"lock", "lock_with", "waiting", "waking"}
       /\ on[t] # NULL <=> pc[t] = "waiting"

(* A step of a thread in thread_run() keeps the types.                       *)
LEMMA RegistryTypeOK ==
  ASSUME TypeOK, NEW t \in Threads, RegistryStep(t)
  PROVE  TypeOK'
<1> USE DEF TypeOK, PCs, At
<1>1. CASE start(t) BY <1>1 DEF start, lock_list, calls, program
<1>2. CASE register(t)
  BY <1>2 DEF register, set_list, calls, program, NoThreads
<1>3. CASE end(t) BY <1>3 DEF end, lock_list, calls, program
<1>4. CASE deregister(t)
  BY <1>4 DEF deregister, set_list, calls, program, NoThreads
<1>5. QED BY <1>1, <1>2, <1>3, <1>4 DEF RegistryStep

(* Waking threads that wait keeps the types.                                 *)
LEMMA WakeTypeOK ==
  ASSUME TypeOK, NEW ts \in SUBSET Threads, WakeStep(ts)
  PROVE  TypeOK'
BY ThreadsAssumption DEF TypeOK, PCs, WakeStep, Wake, registry, program

(* Types, and which calls a thread is in, hold in every state.               *)
THEOREM TypeCorrect == Spec => []TypeOK
<1>1. Init => TypeOK
  BY ThreadsAssumption DEF Init, TypeOK, PCs, NoThreads
<1>2. TypeOK /\ [Next]_vars => TypeOK'
  <2> SUFFICES ASSUME TypeOK, [Next]_vars PROVE TypeOK' OBVIOUS
  <2>1. CASE UNCHANGED vars
    BY <2>1 DEF TypeOK, vars, registry, calls, program
  <2>2. CASE Next
    <3>0. PICK t \in Threads : StepOf(t) BY <2>2, NextIsStep, Zenon
    <3> USE ThreadsAssumption DEF TypeOK, PCs
    <3>1. ASSUME NEW u \in Threads, make_thread(t, u) PROVE TypeOK'
      BY <3>1 DEF make_thread, At, registry, calls, program
    <3>2. CASE finish(t)
      BY <3>2 DEF finish, At, registry, calls, program
    <3>3. CASE RegistryStep(t)
      BY <3>3, RegistryTypeOK
    <3>4. ASSUME NEW m \in Mutexes, NEW w \in BOOLEAN, get_mutex(t, m, w)
          PROVE  TypeOK'
      BY <3>4 DEF get_mutex, At, registry, program
    <3>5. ASSUME NEW m \in Mutexes, trylock(t, m) PROVE TypeOK'
      <4>1. /\ holder' = [holder EXCEPT ![m] = t]
            /\ got' = [got EXCEPT ![t] = @ \cup {m}]
            /\ UNCHANGED <<pc, registry, calls, forms>>
        BY <3>5, Zenon DEF trylock, Lock
      <4>2. QED BY <4>1 DEF registry, calls
    <3>6. ASSUME NEW m \in Mutexes, release_mutex(t, m) PROVE TypeOK'
      BY <3>6 DEF release_mutex, registry, calls
    <3>7. CASE lock(t)
      <4>1. want[t] \in Mutexes BY <3>7 DEF lock
      <4>2. CASE pc[t] = "lock_with"
        <5>1. /\ pc' = [pc EXCEPT ![t] = "run"]
              /\ holder' = [holder EXCEPT ![want[t]] = t]
              /\ forms' = [forms EXCEPT ![t] = Append(@, want[t])]
              /\ want' = [want EXCEPT ![t] = NULL]
              /\ UNCHANGED <<registry, on, got>>
          BY <3>7, <4>2 DEF lock, Lock, At
        <5>2. Append(forms[t], want[t]) \in Seq(Mutexes) BY <4>1
        <5>3. forms' \in [Threads -> Seq(Mutexes)] BY <5>1, <5>2
        <5>4. QED BY <4>1, <4>2, <5>1, <5>3 DEF registry
      <4>3. CASE pc[t] = "lock"
        <5>1. /\ pc' = [pc EXCEPT ![t] = "run"]
              /\ holder' = [holder EXCEPT ![want[t]] = t]
              /\ got' = [got EXCEPT ![t] = @ \cup {want[t]}]
              /\ want' = [want EXCEPT ![t] = NULL]
              /\ UNCHANGED <<registry, on, forms>>
          BY <3>7, <4>3 DEF lock, Lock, At
        <5>2. got' \in [Threads -> SUBSET Mutexes] BY <4>1, <5>1
        <5>3. QED BY <4>1, <4>3, <5>1, <5>2 DEF registry
      <4>4. QED BY <3>7, <4>2, <4>3 DEF lock
    <3>8. CASE leave_with_mutex(t)
      <4>1. Front(forms[t]) \in Seq(Mutexes)
        BY <3>8 DEF leave_with_mutex, Front
      <4>2. QED BY <3>8, <4>1 DEF leave_with_mutex, registry, calls
    <3>9. ASSUME NEW c \in Conditions, NEW m \in Mutexes, condition_wait(t, c, m)
          PROVE  TypeOK'
      BY <3>9 DEF condition_wait, At, registry, program
    <3>10. ASSUME NEW ts \in SUBSET Threads, WakeStep(ts) PROVE TypeOK'
      BY <3>10, WakeTypeOK
    <3>11. CASE end_wait(t)
      BY <3>11 DEF end_wait, At, registry
    <3> HIDE DEF TypeOK
    <3>12. QED
      BY <3>0, <3>1, <3>2, <3>3, <3>4, <3>5, <3>6, <3>7, <3>8, <3>9, <3>10,
         <3>11, Zenon DEF StepOf
  <2>3. QED BY <2>1, <2>2
<1>3. QED BY <1>1, <1>2, PTL DEF Spec

------------------------------------------------------------------------------
(* The list of all threads.                                                  *)

(* A thread between lock() and unlock() in thread_run() is the one that has  *)
(* all_threads_mutex, and what it has read is the value of *all-threads*.    *)
ListHolder ==
  \A t \in Threads :
    /\ pc[t] \in {"registering", "deregistering"} <=> list_mutex = t
    /\ list_mutex = t => list[t] = all_threads

RegistryInv == ListHolder /\ AllThreadsExact

(* A step outside of thread_run() leaves the registry alone.                 *)
LEMMA OutsideKeepsRegistry ==
  ASSUME TypeOK, RegistryInv, UNCHANGED registry,
         pc' \in [Threads -> PCs],
         \A t \in Threads :
           pc'[t] = pc[t] \/ /\ pc[t] \notin {"registering", "deregistering", "done"}
                             /\ pc'[t] \notin {"registering", "deregistering", "done"}
                             /\ pc[t] \in {"none", "start"}
                                  <=> pc'[t] \in {"none", "start"}
  PROVE  RegistryInv'
<1>1. ListHolder'
  BY DEF RegistryInv, ListHolder, registry
<1>2. \A t \in Threads : t \in Alive' <=> t \in Alive
  BY DEF Alive
<1>3. AllThreadsExact'
  BY <1>2 DEF RegistryInv, AllThreadsExact, registry
<1>4. QED BY <1>1, <1>3 DEF RegistryInv

(* A thread locks the mutex of the list, which nobody holds.                 *)
LEMMA LockListKeepsRegistry ==
  ASSUME TypeOK, RegistryInv, NEW t \in Threads, NEW from, NEW to,
         lock_list(t, from, to),
         \/ from = "start" /\ to = "registering"
         \/ from = "finish" /\ to = "deregistering"
  PROVE  RegistryInv'
<1>1. /\ pc[t] = from /\ pc' = [pc EXCEPT ![t] = to]
      /\ list_mutex = NULL /\ list_mutex' = t
      /\ list' = [list EXCEPT ![t] = all_threads] /\ all_threads' = all_threads
  BY DEF lock_list, At
<1>2. ListHolder'
  BY <1>1, ThreadsAssumption DEF RegistryInv, ListHolder, TypeOK
<1>3. \A u \in Threads : u \in Alive' <=> u \in Alive
  BY <1>1 DEF Alive, TypeOK
<1>4. AllThreadsExact'
  BY <1>1, <1>3 DEF RegistryInv, AllThreadsExact
<1>5. QED BY <1>2, <1>4 DEF RegistryInv

(* A thread that has the mutex sets the list and unlocks.                    *)
LEMMA SetListKeepsRegistry ==
  ASSUME TypeOK, RegistryInv, NEW t \in Threads, NEW from, NEW to, NEW n \in Nat,
         set_list(t, from, to, [list[t] EXCEPT ![t] = n]),
         \/ from = "registering" /\ to = "run" /\ n = 1
         \/ from = "deregistering" /\ to = "done" /\ n = 0
  PROVE  RegistryInv'
<1>1. /\ pc[t] = from /\ pc' = [pc EXCEPT ![t] = to]
      /\ list_mutex' = NULL
      /\ all_threads' = [list[t] EXCEPT ![t] = n]
  BY DEF set_list, At
<1>2. list_mutex = t /\ list[t] = all_threads
  BY <1>1 DEF RegistryInv, ListHolder
<1>3. ListHolder'
  BY <1>1, <1>2, ThreadsAssumption DEF RegistryInv, ListHolder, TypeOK
<1>4. \A u \in Threads : u # t => (u \in Alive' <=> u \in Alive)
  BY <1>1 DEF Alive, TypeOK
<1>5. n = IF t \in Alive' THEN 1 ELSE 0
  BY <1>1 DEF Alive, TypeOK
<1>6. AllThreadsExact'
  BY <1>1, <1>2, <1>4, <1>5 DEF RegistryInv, AllThreadsExact, TypeOK
<1>7. QED BY <1>3, <1>6 DEF RegistryInv

(* The four steps of thread_run() keep the invariant.                        *)
LEMMA RegistryStepKeepsRegistry ==
  ASSUME TypeOK, RegistryInv, NEW t \in Threads, RegistryStep(t)
  PROVE  RegistryInv'
<1>1. CASE start(t) BY <1>1, LockListKeepsRegistry DEF start
<1>2. CASE end(t) BY <1>2, LockListKeepsRegistry DEF end
<1>3. CASE register(t)
  <2>1. pc[t] = "registering" BY <1>3 DEF register, set_list, At
  <2>2. list[t] = all_threads /\ all_threads[t] = 0
    BY <2>1 DEF RegistryInv, ListHolder, AllThreadsExact, Alive
  <2>3. [list[t] EXCEPT ![t] = @ + 1] = [list[t] EXCEPT ![t] = 1] BY <2>2
  <2>4. set_list(t, "registering", "run", [list[t] EXCEPT ![t] = 1])
    BY <1>3, <2>3 DEF register
  <2>5. QED BY <2>4, SetListKeepsRegistry
<1>4. CASE deregister(t) BY <1>4, SetListKeepsRegistry DEF deregister
<1>5. QED BY <1>1, <1>2, <1>3, <1>4 DEF RegistryStep

(* The list of all threads has exactly the threads whose function runs, in   *)
(* every state: no start or end of a thread is lost.                         *)
THEOREM RegistryExact == Spec => []AllThreadsExact
<1>1. Init => RegistryInv
  BY ThreadsAssumption
     DEF Init, RegistryInv, ListHolder, AllThreadsExact, Alive, NoThreads
<1>2. TypeOK /\ TypeOK' /\ RegistryInv /\ [Next]_vars => RegistryInv'
  <2> SUFFICES ASSUME TypeOK, TypeOK', RegistryInv, [Next]_vars PROVE RegistryInv'
    OBVIOUS
  <2>0. pc \in [Threads -> PCs] /\ pc' \in [Threads -> PCs] BY DEF TypeOK
  <2>1. CASE UNCHANGED vars
    BY <2>0, <2>1, OutsideKeepsRegistry DEF vars
  <2>2. CASE Next
    <3>0. PICK t \in Threads : StepOf(t) BY <2>2, NextIsStep, Zenon
    <3>1. CASE RegistryStep(t) BY <3>1, RegistryStepKeepsRegistry
    <3>2. CASE ~RegistryStep(t)
      <4>1. UNCHANGED registry
        BY <3>0, <3>2, Zenon
           DEF StepOf, make_thread, finish, get_mutex, trylock, release_mutex, lock,
               leave_with_mutex, condition_wait, WakeStep, Wake, end_wait
      <4>2. \A u \in Threads :
             pc'[u] = pc[u]
               \/ /\ pc[u] \notin {"registering", "deregistering", "done"}
                  /\ pc'[u] \notin {"registering", "deregistering", "done"}
                  /\ pc[u] \in {"none", "start"} <=> pc'[u] \in {"none", "start"}
        BY <2>0, <3>0, <3>2
           DEF StepOf, make_thread, finish, get_mutex, trylock, release_mutex, lock,
               leave_with_mutex, condition_wait, WakeStep, Wake, end_wait, At
      <4>3. QED BY <2>0, <4>1, <4>2, OutsideKeepsRegistry
    <3>3. QED BY <3>1, <3>2
  <2>3. QED BY <2>1, <2>2
<1>3. RegistryInv => AllThreadsExact BY DEF RegistryInv
<1>4. QED BY <1>1, <1>2, <1>3, TypeCorrect, PTL DEF Spec

------------------------------------------------------------------------------
(* Mutexes.                                                                  *)

(* The mutexes of the with-mutex forms and the get-mutex calls of a thread.  *)
Mine(t) == Range(forms[t]) \cup got[t]

(* A thread has a mutex for one reason, and waits with one that it has.      *)
Reasons ==
  \A t \in Threads :
    /\ IsInjective(forms[t])
    /\ Range(forms[t]) \cap got[t] = {}
    /\ pc[t] \in {"waiting", "waking"} => want[t] \in Mine(t)

HeldInv == Reasons /\ HeldAsBelieved

(* The forms after with-mutex has been entered.                              *)
LEMMA AppendRange ==
  ASSUME NEW s \in Seq(Mutexes), NEW m \in Mutexes
  PROVE  /\ Range(Append(s, m)) = Range(s) \cup {m}
         /\ IsInjective(s) /\ m \notin Range(s) => IsInjective(Append(s, m))
<1>1. /\ Append(s, m) \in Seq(Mutexes) /\ Len(Append(s, m)) = Len(s) + 1
      /\ \A i \in 1..Len(s) : Append(s, m)[i] = s[i]
      /\ Append(s, m)[Len(s) + 1] = m
  OBVIOUS
<1>2. DOMAIN s = 1..Len(s) /\ DOMAIN Append(s, m) = 1..(Len(s) + 1) /\ Len(s) \in Nat
  BY <1>1
<1>3. 1..(Len(s) + 1) = (1..Len(s)) \cup {Len(s) + 1} BY <1>2
<1>4. QED BY <1>1, <1>2, <1>3 DEF Range, IsInjective

(* The forms after the innermost one has been left.                          *)
LEMMA FrontRange ==
  ASSUME NEW s \in Seq(Mutexes), s # << >>, IsInjective(s)
  PROVE  /\ Last(s) \in Range(s)
         /\ Range(Front(s)) = Range(s) \ {Last(s)}
         /\ IsInjective(Front(s))
<1>1. Len(s) \in Nat \ {0} /\ DOMAIN s = 1..Len(s) OBVIOUS
<1>2. /\ Front(s) \in Seq(Mutexes) /\ Len(Front(s)) = Len(s) - 1
      /\ \A i \in 1..(Len(s) - 1) : Front(s)[i] = s[i]
  BY <1>1 DEF Front
<1>3. DOMAIN Front(s) = 1..(Len(s) - 1) BY <1>2
<1>4. 1..Len(s) = (1..(Len(s) - 1)) \cup {Len(s)} BY <1>1
<1>5. QED BY <1>1, <1>2, <1>3, <1>4 DEF Range, IsInjective, Last

(* A step that only moves threads between places where they believe the same.*)
LEMMA SameBeliefs ==
  ASSUME HeldInv, UNCHANGED <<holder, forms, got>>,
         \A t \in Threads :
           /\ pc[t] \in {"waiting", "waking"} <=> pc'[t] \in {"waiting", "waking"}
           /\ pc[t] \in {"waiting", "waking"} => want'[t] = want[t]
  PROVE  HeldInv'
<1>1. Reasons' BY DEF HeldInv, Reasons, Mine
<1>2. \A t \in Threads : Believes(t)' = Believes(t) BY DEF Believes
<1>3. HeldAsBelieved' BY <1>2 DEF HeldInv, HeldAsBelieved
<1>4. QED BY <1>1, <1>3 DEF HeldInv

(* A thread that is not in condition-wait gets the free mutex m.             *)
LEMMA LockKeepsHeld ==
  ASSUME TypeOK, HeldInv, NEW t \in Threads, NEW m \in Mutexes, NEW w \in BOOLEAN,
         Lock(t, m, w),
         \A u \in Threads : u # t => pc'[u] = pc[u] /\ want'[u] = want[u],
         pc[t] \notin {"waiting", "waking"}, pc'[t] \notin {"waiting", "waking"}
  PROVE  HeldInv'
<1> USE DEF TypeOK
<1>1. /\ holder[m] = NULL /\ holder' = [holder EXCEPT ![m] = t]
      /\ w => forms' = [forms EXCEPT ![t] = Append(@, m)] /\ got' = got
      /\ ~w => got' = [got EXCEPT ![t] = @ \cup {m}] /\ forms' = forms
  BY DEF Lock
<1>2. \A u \in Threads : m \notin Believes(u)
  BY <1>1, ThreadsAssumption DEF HeldInv, HeldAsBelieved
<1>3. m \notin Range(forms[t]) /\ m \notin got[t] /\ Believes(t) = Mine(t)
  BY <1>2 DEF Believes, Mine
<1>4. \A u \in Threads : u # t => forms'[u] = forms[u] /\ got'[u] = got[u]
  BY <1>1
<1>5. \A u \in Threads : u # t => Believes(u)' = Believes(u) /\ Mine(u)' = Mine(u)
  BY <1>4 DEF Believes, Mine
<1>6. /\ Mine(t)' = Mine(t) \cup {m}
      /\ IsInjective(forms'[t]) /\ Range(forms'[t]) \cap got'[t] = {}
  <2>1. IsInjective(forms[t]) /\ Range(forms[t]) \cap got[t] = {}
    BY DEF HeldInv, Reasons
  <2>2. CASE w
    <3>1. forms'[t] = Append(forms[t], m) /\ got'[t] = got[t] BY <1>1, <2>2
    <3>2. QED BY <1>3, <2>1, <3>1, AppendRange DEF Mine
  <2>3. CASE ~w
    <3>1. forms'[t] = forms[t] /\ got'[t] = got[t] \cup {m} BY <1>1, <2>3
    <3>2. QED BY <1>3, <2>1, <3>1 DEF Mine
  <2>4. QED BY <2>2, <2>3
<1>7. Believes(t)' = Believes(t) \cup {m} BY <1>3, <1>6 DEF Believes, Mine
<1>8. Reasons'
  BY <1>4, <1>5, <1>6 DEF HeldInv, Reasons
<1>9. HeldAsBelieved'
  <2>1. \A u \in Threads, n \in Mutexes :
          holder'[n] = u <=> (n = m /\ u = t) \/ (n # m /\ holder[n] = u)
    BY <1>1
  <2> HIDE DEF TypeOK
  <2>2. QED BY <1>2, <1>5, <1>7, <2>1 DEF HeldInv, HeldAsBelieved
<1>10. QED BY <1>8, <1>9 DEF HeldInv

(* A running thread gives up the mutex m that it has, and believes so.       *)
LEMMA UnlockKeepsHeld ==
  ASSUME TypeOK, HeldInv, NEW t \in Threads, NEW m \in Mutexes, m \in Believes(t),
         holder' = [holder EXCEPT ![m] = NULL],
         \A u \in Threads : u # t => Believes(u)' = Believes(u),
         Believes(t)' = Believes(t) \ {m},
         Reasons'
  PROVE  HeldInv'
<1>1. \A u \in Threads : u # t => m \notin Believes(u)
  BY DEF HeldInv, HeldAsBelieved
<1>2. \A u \in Threads, n \in Mutexes :
        holder'[n] = u <=> (n # m /\ holder[n] = u)
  BY ThreadsAssumption DEF TypeOK
<1>3. HeldAsBelieved'
  BY <1>1, <1>2 DEF HeldInv, HeldAsBelieved
<1>4. QED BY <1>3 DEF HeldInv

(* A mutex is locked by exactly the thread that believes to hold it, in      *)
(* every state: with-mutex releases on every exit, and condition-wait gives  *)
(* the mutex up and takes it back.                                           *)
THEOREM Held == Spec => []HeldAsBelieved
<1>1. Init => HeldInv
  BY ThreadsAssumption
     DEF Init, HeldInv, Reasons, HeldAsBelieved, Believes, Mine, Range, IsInjective
<1>2. TypeOK /\ HeldInv /\ [Next]_vars => HeldInv'
  <2> SUFFICES ASSUME TypeOK, HeldInv, [Next]_vars PROVE HeldInv'
    OBVIOUS
  <2>1. CASE UNCHANGED vars
    BY <2>1, SameBeliefs DEF vars, calls, program
  <2>2. CASE Next
    <3>0. PICK t \in Threads : StepOf(t) BY <2>2, NextIsStep, Zenon
    <3>1. ASSUME NEW u \in Threads, make_thread(t, u) PROVE HeldInv'
      BY <3>1, SameBeliefs DEF make_thread, At, calls, program, TypeOK
    <3>2. CASE finish(t)
      BY <3>2, SameBeliefs DEF finish, At, calls, program, TypeOK
    <3>3. CASE RegistryStep(t)
      BY <3>3, SameBeliefs
         DEF RegistryStep, start, register, end, deregister, lock_list, set_list, At,
             calls, program, TypeOK
    <3>4. ASSUME NEW m \in Mutexes, NEW w \in BOOLEAN, get_mutex(t, m, w)
          PROVE  HeldInv'
      BY <3>4, SameBeliefs DEF get_mutex, At, program, TypeOK
    <3>5. ASSUME NEW m \in Mutexes, trylock(t, m) PROVE HeldInv'
      <4>1. Lock(t, m, FALSE) /\ pc[t] = "run" /\ pc' = pc /\ want' = want
        BY <3>5 DEF trylock, calls
      <4>2. QED BY <4>1, LockKeepsHeld
    <3>6. ASSUME NEW m \in Mutexes, release_mutex(t, m) PROVE HeldInv'
      <4>1. /\ pc[t] = "run" /\ m \in got[t] /\ pc' = pc /\ want' = want
            /\ got' = [got EXCEPT ![t] = @ \ {m}] /\ forms' = forms
            /\ holder' = [holder EXCEPT ![m] = NULL]
        BY <3>6 DEF release_mutex, calls
      <4>2. m \notin Range(forms[t]) BY <4>1 DEF HeldInv, Reasons
      <4>3. Reasons' BY <4>1 DEF HeldInv, Reasons, Mine, TypeOK
      <4>4. \A u \in Threads : u # t => Believes(u)' = Believes(u)
        BY <4>1 DEF Believes, TypeOK
      <4>5. m \in Believes(t) /\ Believes(t)' = Believes(t) \ {m}
        BY <4>1, <4>2 DEF Believes, TypeOK
      <4>6. QED BY <4>1, <4>3, <4>4, <4>5, UnlockKeepsHeld
    <3>7. CASE lock(t)
      <4>1. /\ pc[t] \in {"lock", "lock_with"} /\ pc' = [pc EXCEPT ![t] = "run"]
            /\ Lock(t, want[t], pc[t] = "lock_with")
            /\ want' = [want EXCEPT ![t] = NULL]
        BY <3>7 DEF lock, At
      <4>2. want[t] \in Mutexes BY <4>1 DEF TypeOK
      <4>3. \A u \in Threads : u # t => pc'[u] = pc[u] /\ want'[u] = want[u]
        BY <4>1 DEF TypeOK
      <4>4. pc'[t] = "run" BY <4>1 DEF TypeOK
      <4>5. (pc[t] = "lock_with") \in BOOLEAN OBVIOUS
      <4>6. QED BY <4>1, <4>2, <4>3, <4>4, <4>5, LockKeepsHeld
    <3>8. CASE leave_with_mutex(t)
      <4> DEFINE m == Last(forms[t])
      <4>1. /\ pc[t] = "run" /\ forms[t] # << >> /\ pc' = pc /\ want' = want
            /\ forms' = [forms EXCEPT ![t] = Front(@)] /\ got' = got
            /\ holder' = [holder EXCEPT ![m] = NULL]
        BY <3>8 DEF leave_with_mutex, calls
      <4>2. /\ forms[t] \in Seq(Mutexes) /\ IsInjective(forms[t])
            /\ Range(forms[t]) \cap got[t] = {}
        BY DEF HeldInv, Reasons, TypeOK
      <4>3. /\ m \in Range(forms[t]) /\ Range(Front(forms[t])) = Range(forms[t]) \ {m}
            /\ IsInjective(Front(forms[t]))
        BY <4>1, <4>2, FrontRange
      <4>4. m \in Mutexes BY <4>1, <4>2 DEF Last
      <4>5. forms'[t] = Front(forms[t]) BY <4>1 DEF TypeOK
      <4>6. \A u \in Threads : u # t => forms'[u] = forms[u] BY <4>1 DEF TypeOK
      <4> HIDE DEF m
      <4>7. Reasons'
        BY <4>1, <4>2, <4>3, <4>5, <4>6 DEF HeldInv, Reasons, Mine
      <4>8. \A u \in Threads : u # t => Believes(u)' = Believes(u)
        BY <4>1, <4>6 DEF Believes
      <4>9. m \in Believes(t) /\ Believes(t)' = Believes(t) \ {m}
        BY <4>1, <4>2, <4>3, <4>5 DEF Believes
      <4>10. QED BY <4>1, <4>4, <4>7, <4>8, <4>9, UnlockKeepsHeld
    <3>9. ASSUME NEW c \in Conditions, NEW m \in Mutexes, condition_wait(t, c, m)
          PROVE  HeldInv'
      <4>1. /\ holder[m] = t /\ pc[t] = "run" /\ pc' = [pc EXCEPT ![t] = "waiting"]
            /\ holder' = [holder EXCEPT ![m] = NULL]
            /\ want' = [want EXCEPT ![t] = m] /\ UNCHANGED <<forms, got>>
        BY <3>9 DEF condition_wait, At, program
      <4>2. m \in Believes(t) BY <4>1 DEF HeldInv, HeldAsBelieved
      <4>3. m \in Mine(t) BY <4>1, <4>2 DEF Believes, Mine
      <4>4. /\ pc'[t] = "waiting" /\ want'[t] = m
            /\ \A u \in Threads : u # t => pc'[u] = pc[u] /\ want'[u] = want[u]
        BY <4>1 DEF TypeOK
      <4>5. Reasons' BY <4>1, <4>3, <4>4 DEF HeldInv, Reasons, Mine
      <4>6. \A u \in Threads : u # t => Believes(u)' = Believes(u)
        BY <4>1, <4>4 DEF Believes
      <4>7. Believes(t)' = Believes(t) \ {m} BY <4>1, <4>4 DEF Believes
      <4>8. QED BY <4>1, <4>2, <4>5, <4>6, <4>7, UnlockKeepsHeld
    <3>10. ASSUME NEW ts \in SUBSET Threads, WakeStep(ts) PROVE HeldInv'
      BY <3>10, SameBeliefs DEF WakeStep, Wake, program, TypeOK
    <3>11. CASE end_wait(t)
      <4> DEFINE m == want[t]
      <4>1. /\ pc[t] = "waking" /\ pc' = [pc EXCEPT ![t] = "run"]
            /\ holder[m] = NULL /\ holder' = [holder EXCEPT ![m] = t]
            /\ want' = [want EXCEPT ![t] = NULL] /\ UNCHANGED <<forms, got>>
        BY <3>11 DEF end_wait, At
      <4>2. m \in Mutexes /\ m \in Mine(t)
        BY <4>1 DEF HeldInv, Reasons, TypeOK
      <4>3. /\ pc'[t] = "run"
            /\ \A u \in Threads : u # t => pc'[u] = pc[u] /\ want'[u] = want[u]
        BY <4>1 DEF TypeOK
      <4>4. Reasons' BY <4>1, <4>3 DEF HeldInv, Reasons, Mine
      <4>5. \A u \in Threads : u # t => Believes(u)' = Believes(u)
        BY <4>1, <4>3 DEF Believes
      <4>6. Believes(t)' = Believes(t) \cup {m}
        BY <4>1, <4>2, <4>3 DEF Believes, Mine
      <4>7. \A u \in Threads : m \notin Believes(u)
        BY <4>1, <4>2, ThreadsAssumption DEF HeldInv, HeldAsBelieved
      <4> HIDE DEF m
      <4>8. HeldAsBelieved'
        BY <4>1, <4>2, <4>5, <4>6, <4>7, ThreadsAssumption
           DEF HeldInv, HeldAsBelieved, TypeOK
      <4>9. QED BY <4>4, <4>8 DEF HeldInv
    <3>12. QED
      BY <3>0, <3>1, <3>2, <3>3, <3>4, <3>5, <3>6, <3>7, <3>8, <3>9, <3>10,
         <3>11, Zenon DEF StepOf
  <2>3. QED BY <2>1, <2>2
<1>3. HeldInv => HeldAsBelieved BY DEF HeldInv
<1>4. QED BY <1>1, <1>2, <1>3, TypeCorrect, PTL DEF Spec

==============================================================================
