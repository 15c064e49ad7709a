------------------------------- MODULE Threads -------------------------------
(***************************************************************************)
(* Threads, mutexes and condition variables of the language:               *)
(* thread_run() and %make-thread (kernel/Thread.cpp), kernel/Mutex.cpp,    *)
(* kernel/ConditionVariable.cpp and lisp/with-mutex.lisp.                  *)
(*                                                                         *)
(* A new thread puts itself on *all-threads* before it calls its function  *)
(* and takes itself off afterwards; the list keeps the thread object from  *)
(* being collected.  The program locks mutexes with with-mutex, which      *)
(* releases on every exit, or with get-mutex and release-mutex, and waits  *)
(* on condition variables.  A pthread mutex of the default kind blocks its *)
(* own holder too.  The _owner of a mutex is set and never read: it is left *)
(* out.                                                                    *)
(***************************************************************************)
EXTENDS Integers, Sequences, FiniteSets, SequencesExt

CONSTANTS
  Threads, Primordial,  (* the thread objects; the one that main() makes     *)
  Mutexes,
  Conditions,           (* condition variables                               *)
  MaxForms,             (* bound: nested with-mutex forms of a thread        *)
  NULL

ASSUME ThreadsAssumption ==
  /\ Primordial \in Threads
  /\ NULL \notin Threads \cup Mutexes \cup Conditions
  /\ MaxForms \in Nat

VARIABLES
  pc,           (* where a thread is                                         *)
  all_threads,  (* the value of *all-threads*: how often each thread is on it *)
  list_mutex,   (* the thread that holds all_threads_mutex                   *)
  list,         (* the value of *all-threads* that a thread has read         *)
  holder,       (* the thread that has a mutex locked                        *)
  want,         (* the mutex that a thread locks, or waits with              *)
  on,           (* the condition variable that it waits on                   *)
  forms,        (* the with-mutex forms whose unwind-protect is active       *)
  got           (* the mutexes that the program got by get-mutex itself      *)

registry == <<all_threads, list_mutex, list>>
calls == <<want, on>>
program == <<forms, got>>
vars == <<pc, registry, holder, calls, program>>

(* The empty list.                                                           *)
NoThreads == [t \in Threads |-> 0]

Init ==
  /\ pc = [t \in Threads |-> IF t = Primordial THEN "run" ELSE "none"]
  /\ all_threads = [NoThreads EXCEPT ![Primordial] = 1]
  /\ list_mutex = NULL
  /\ list = [t \in Threads |-> NoThreads]
  /\ holder = [m \in Mutexes |-> NULL]
  /\ want = [t \in Threads |-> NULL]
  /\ on = [t \in Threads |-> NULL]
  /\ forms = [t \in Threads |-> << >>]
  /\ got = [t \in Threads |-> {}]

At(t, from, to) == pc[t] = from /\ pc' = [pc EXCEPT ![t] = to]

------------------------------------------------------------------------------
(* Threads.                                                                  *)

(* %make-thread; if pthread_create() fails nothing has happened.             *)
make_thread(t, u) ==
  /\ pc[t] = "run"
  /\ At(u, "none", "start")
  /\ UNCHANGED <<registry, holder, calls, program>>

(* Mutant: all_threads_mutex is not locked.                                  *)
lock_list_free(t, from, to) ==
  /\ At(t, from, to)
  /\ list_mutex' = t
  /\ list' = [list EXCEPT ![t] = all_threads]
  /\ UNCHANGED <<all_threads, holder, calls, program>>

(* all_threads_mutex->lock(), and the value of *all-threads* is read.        *)
lock_list(t, from, to) ==
  /\ list_mutex = NULL
  /\ At(t, from, to)
  /\ list_mutex' = t
  /\ list' = [list EXCEPT ![t] = all_threads]
  /\ UNCHANGED <<all_threads, holder, calls, program>>

(* Mutant: the mutex is not unlocked.                                        *)
set_list_keeps(t, from, to, l) ==
  /\ At(t, from, to)
  /\ all_threads' = l
  /\ list' = [list EXCEPT ![t] = NoThreads]
  /\ UNCHANGED <<list_mutex, holder, calls, program>>

(* *all-threads* is set, and all_threads_mutex->unlock().                    *)
set_list(t, from, to, l) ==
  /\ At(t, from, to)
  /\ all_threads' = l
  /\ list_mutex' = NULL
  /\ list' = [list EXCEPT ![t] = NoThreads]
  /\ UNCHANGED <<holder, calls, program>>

(* thread_run(): the thread is pushed on the list, calls its function, and   *)
(* list_delete_eq() takes every occurrence of it off the list.               *)
start(t) == lock_list(t, "start", "registering")

register(t) ==
  set_list(t, "registering", "run", [list[t] EXCEPT ![t] = @ + 1])

finish(t) ==
  /\ t # Primordial
  /\ forms[t] = << >>
  /\ At(t, "run", "finish")
  /\ UNCHANGED <<registry, holder, calls, program>>

end(t) == lock_list(t, "finish", "deregistering")

deregister(t) ==
  set_list(t, "deregistering", "done", [list[t] EXCEPT ![t] = 0])

------------------------------------------------------------------------------
(* Mutexes.                                                                  *)

(* get-mutex returns T: with-mutex enters its unwind-protect (nothing can     *)
(* leave the form in between), the program has the mutex.                    *)
Lock(t, m, w) ==
  /\ holder[m] = NULL
  /\ holder' = [holder EXCEPT ![m] = t]
  /\ IF w THEN /\ forms' = [forms EXCEPT ![t] = Append(@, m)]
                /\ UNCHANGED got
          ELSE /\ got' = [got EXCEPT ![t] = @ \cup {m}]
               /\ UNCHANGED forms

(* get-mutex with wait-p, called by with-mutex or by the program.            *)
get_mutex(t, m, w) ==
  /\ w => Len(forms[t]) < MaxForms
  /\ At(t, "run", IF w THEN "lock_with" ELSE "lock")
  /\ want' = [want EXCEPT ![t] = m]
  /\ UNCHANGED <<registry, holder, on, program>>

(* pthread_mutex_lock() returns.                                             *)
lock(t) ==
  /\ pc[t] \in {"lock", "lock_with"}
  /\ At(t, pc[t], "run")
  /\ Lock(t, want[t], pc[t] = "lock_with")
  /\ want' = [want EXCEPT ![t] = NULL]
  /\ UNCHANGED <<registry, on>>

(* get-mutex without wait-p, for a mutex that is free; otherwise it returns  *)
(* NIL and nothing has happened.                                             *)
trylock(t, m) ==
  /\ pc[t] = "run"
  /\ Lock(t, m, FALSE)
  /\ UNCHANGED <<pc, registry, calls>>

(* release-mutex for a mutex that the program has got itself.                *)
release_mutex(t, m) ==
  /\ pc[t] = "run"
  /\ m \in got[t]
  /\ got' = [got EXCEPT ![t] = @ \ {m}]
  /\ holder' = [holder EXCEPT ![m] = NULL]
  /\ UNCHANGED <<pc, registry, calls, forms>>

(* Mutant: with-mutex without unwind-protect, left by an exit.               *)
leave_with_mutex_locked(t) ==
  /\ pc[t] = "run" /\ forms[t] # << >>
  /\ forms' = [forms EXCEPT ![t] = Front(@)]
  /\ UNCHANGED <<pc, registry, holder, calls, got>>

(* A with-mutex form is left, by its normal end or by an exit: the cleanup   *)
(* form of its unwind-protect.                                               *)
leave_with_mutex(t) ==
  /\ pc[t] = "run" /\ forms[t] # << >>
  /\ holder' = [holder EXCEPT ![Last(forms[t])] = NULL]
  /\ forms' = [forms EXCEPT ![t] = Front(@)]
  /\ UNCHANGED <<pc, registry, calls, got>>

------------------------------------------------------------------------------
(* Condition variables.                                                      *)

(* condition-wait with a mutex that the thread holds.                        *)
condition_wait(t, c, m) ==
  /\ holder[m] = t
  /\ At(t, "run", "waiting")
  /\ holder' = [holder EXCEPT ![m] = NULL]
  /\ want' = [want EXCEPT ![t] = m]
  /\ on' = [on EXCEPT ![t] = c]
  /\ UNCHANGED <<registry, program>>

Waiters(c) == {t \in Threads : pc[t] = "waiting" /\ on[t] = c}

(* pthread_cond_signal() wakes one waiter if there is one; broadcast wakes   *)
(* them all.                                                                 *)
Wake(ts) ==
  /\ pc' = [t \in Threads |-> IF t \in ts THEN "waking" ELSE pc[t]]
  /\ on' = [t \in Threads |-> IF t \in ts THEN NULL ELSE on[t]]
  /\ UNCHANGED <<registry, holder, want, program>>

condition_notify(t, c) ==
  pc[t] = "run" /\ \E u \in Waiters(c) : Wake({u})

condition_broadcast(t, c) ==
  pc[t] = "run" /\ Waiters(c) # {} /\ Wake(Waiters(c))

(* pthread_cond_wait() may also return by itself.                            *)
spurious_wakeup(t) == pc[t] = "waiting" /\ Wake({t})

(* The mutex is locked again, and condition-wait returns.                *)
end_wait(t) ==
  /\ At(t, "waking", "run")
  /\ holder[want[t]] = NULL
  /\ holder' = [holder EXCEPT ![want[t]] = t]
  /\ want' = [want EXCEPT ![t] = NULL]
  /\ UNCHANGED <<registry, on, forms, got>>

------------------------------------------------------------------------------

RegistryStep(t) == start(t) \/ register(t) \/ end(t) \/ deregister(t)

MutexStep(t) ==
  \/ \E m \in Mutexes, w \in BOOLEAN : get_mutex(t, m, w)
  \/ \E m \in Mutexes : trylock(t, m) \/ release_mutex(t, m)
  \/ lock(t) \/ leave_with_mutex(t)

ConditionStep(t) ==
  \/ \E c \in Conditions :
       \/ \E m \in Mutexes : condition_wait(t, c, m)
       \/ condition_notify(t, c) \/ condition_broadcast(t, c)
  \/ spurious_wakeup(t) \/ end_wait(t)

Next ==
  \E t \in Threads :
    \/ \E u \in Threads : make_thread(t, u)
    \/ finish(t)
    \/ RegistryStep(t) \/ MutexStep(t) \/ ConditionStep(t)

Spec == Init /\ [][Next]_vars

(* The operating system runs a thread that is in thread_run().  The mutex of *)
(* the list is contended only until every thread has registered or ended,    *)
(* so that weak fairness is enough.  Nothing is assumed of the program.      *)
Fairness == \A t \in Threads : WF_vars(RegistryStep(t))

FairSpec == Spec /\ Fairness

------------------------------------------------------------------------------
(* Properties.                                                               *)

(* The threads whose function runs, those that have just returned included.  *)
Alive == {t \in Threads : pc[t] \notin {"none", "start", "registering", "done"}}

(* *all-threads* has each thread whose function runs, once, and no other: no *)
(* update is lost when threads start and end at the same time, and a running *)
(* thread is never collected.                                                *)
AllThreadsExact ==
  \A t \in Threads : all_threads[t] = IF t \in Alive THEN 1 ELSE 0

(* The mutexes that a thread believes to hold.                               *)
Believes(t) ==
  LET mine == Range(forms[t]) \cup got[t]
  IN IF pc[t] \in {"waiting", "waking"} THEN mine \ {want[t]} ELSE mine

(* A mutex is locked by the thread that believes to hold it: never by two,   *)
(* and never by one that has left its with-mutex form, has released it, or   *)
(* waits on a condition variable, by whatever exits and wakeups.             *)
HeldAsBelieved ==
  \A t \in Threads, m \in Mutexes : holder[m] = t <=> m \in Believes(t)

(* A thread that has been made gets to call its function, and one whose      *)
(* function has returned gets off the list, also when all other threads are  *)
(* blocked by each other for ever.                                           *)
ThreadsRegister ==
  \A t \in Threads : /\ pc[t] = "start" ~> pc[t] = "run"
                     /\ pc[t] = "finish" ~> pc[t] = "done"

==============================================================================
