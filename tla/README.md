# A TLA+ verification of the XCL kernel

XCL is an implementation of Common Lisp: a kernel in C++ (`src/kernel`), a
native-code compiler (`src/compiler`) and a library in Lisp (`src/lisp`,
`src/clos`).  This project models the parts of the kernel that keep state
across operations, checks the models with TLC on small instances, and proves
the most important properties for all instances with TLAPS.

Line numbers refer to the repository this directory is kept beside;
`PROJECT.json` maps every definition that models code to its lines.  The
kernel is built with `NDEBUG`, so a failing `assert` stops nothing: the models
go on after it, and where an assertion states something worth knowing it is a
property.

## 1. Inventory

| Component | State | Operations | What makes it correct | Module |
|---|---|---|---|---|
| Symbol tables (`SymbolHashTable`) | buckets with tombstones, capacity, mask, count, threshold | `get`, `put`, `remove`, `rehash` | a map from names to symbols through collisions, tombstones, wrap-around and growth | `SymbolHashTable`, abstract `SymbolTable` |
| Packages (`Package`, `packages`) | the map of names, the list of packages, names, use lists, internal, external and shadowing symbols; the home package of a symbol | make, rename, delete, use, unuse, intern, import, export, unexport, unintern, shadow, shadowing-import | names find their packages; the two copies of the use relation agree; what a name means changes only when the program asks for it; a symbol is in its home package | `Packages`; `Defpackage` for `defpackage` forms, `SharedIntern` for several threads |
| Special variables (`Thread`, `Symbol`) | global values; per thread an array of current values and a binding stack; binding indices shared by all threads | bind, bind to current value, assign, read, unbind; assign an index under a mutex | a thread sees its newest binding and leaving a form restores what was there before; an index belongs to one symbol, for ever | `SpecialBindings`, abstract `DynamicBinding` |
| Non-local exits (`Frame`, `block`, `catch`, `tagbody`, `unwind-protect`) | frames, the pool of free frames, the chain of frames, the list of visible tags | enter and leave a form, `return-from`, `throw`, `go`, reset, `RT_unwind_to` | a frame belongs to one form; the chain is what is established; cleanup forms run once, before the exit arrives | `ControlStack`; `Unwinding` adds the special bindings that an exit undoes |
| Loops of the interpreter (`do`, `dolist`, `dotimes`) | none of their own | bind the variable, run a tagbody | the same as for `let` and `tagbody` | in the two modules above |
| Threads, mutexes, condition variables (`Thread`, `Mutex`, `ConditionVariable`, `with-mutex`) | the list `*all-threads*` and its mutex; who holds a mutex, who waits on a condition variable | make a thread, its start and end; get, try and release a mutex, `with-mutex`; wait, notify, broadcast | no update of the list is lost; a mutex is held by the thread that believes to hold it, through exits and waits; a thread that is made gets to run | `Threads` |
| Hash tables of the language (`HashTable` and its four classes) | chains, count, threshold; the cached key and index of an eq table | `gethash`, `puthash` with growth, `remhash`, `clrhash`, `maphash` | a map up to the test of the table; the cache never points to a wrong bucket; `maphash` visits each entry once | `HashTables` |
| File streams (`FileStream`, `AnsiStream`) | the mapped file and an offset, or a descriptor; one character pushed back; the output buffer | open, read, unread, listen, write, finish-output, position, length, close | a file of bytes with a position: mapping, buffering and pushing back cannot be seen | `FileStream`, abstract `ByteFile` |
| Conditions and restarts (`signal.lisp`, `restart.lisp`, `invoke-debugger.lisp`) | the dynamic variables `*handler-clusters*`, `*restart-clusters*`, `*condition-restarts*`, `*debug-level*` | signal, error, warn, cerror, handler-bind, handler-case, restart-case, invoke-restart, the debugger | a handler runs with the handlers outside of its own; every handler is asked once, in order; a handler continues what it was asked about | `Conditions` |
| Evaluator, closures | environments | eval, apply, argument binding | order of evaluation | not modelled |
| Autoload, load | autoload cells | first call of a function | a function is loaded before it is called | not modelled |
| CLOS, sockets and other streams, numbers, arrays, reader, printer, pathnames, profiler, compiler, Lisp library, vendored code | | | | not modelled |

Packages hold their symbols in symbol tables; `Packages` uses what
`SymbolTable` promises, and for a name that is put again the second bucket that
`SymbolHashTable` shows.  A form that establishes a frame saves the index of the
binding stack in it, and `RT_unwind_to()` undoes the bindings after the cleanup
forms: this is where non-local exits and special variables meet (`Unwinding`).
Conditions and `with-mutex` are Lisp code on top of both: a cluster of handlers
is a special binding, a handler of `handler-case` and a restart are exits, and
`with-mutex` is an `unwind-protect`.  All threads share packages, symbols,
binding indices and the list of threads; frames, bindings and tags belong to a
thread.

What is hard in this code:

* *long sequences of legal calls*: a tombstone in front of an entry of the same
  name; an import of a symbol that is exported already; a tag that outlives its
  tagbody; a table that grows in the middle of a `maphash`; none of these shows
  in a test of one operation;
* *stale state*: the chain of frames while cleanup forms run, the home of a
  symbol that has been displaced, tags of released frames, the cached index of
  an eq table, a character that was pushed back;
* *threads*: the kernel locks the list of threads and the binding indices, and
  nothing else; `intern()` looks and puts without a lock;
* *partial failure*: a `defpackage` that gives up in the middle;
* *re-entrance*: cleanup forms that make exits, handlers that signal, debuggers
  inside of debuggers;
* *limits*: growth of the tables and of the binding stack, the pool of frames,
  the stack and the output buffer that are exactly full.

`PROJECT.json` lists these as hazards, each at its line.

## 2. Modules

`SymbolTable` is the abstract table: a function from names to symbols.
`SymbolHashTable` has one action per operation of the code, and splits
`rehash()` into one step per old bucket, so that invariants are checked in the
middle of it (`put_rehash` is the growing branch of `put()`, `RehashDone` the
rest of it).  The CONSTANT `Reput` says what the client may put: `"never"` a
name that is in the table (the client looks first, as `intern()` does),
`"same"` a symbol that is there already (`import_symbol()`), `"any"` anything
(`shadow()` and `shadowing_import()`).

`Packages` has one action per operation of `Package.cpp`.  A table is a map
(`internal`, `external`) with a second bucket for each name (`internal2`,
`external2`): a put for a name that the table has replaces its symbol, or meets
a tombstone first and leaves the old bucket behind; a remove makes the second
one the first; growth (`grow`) turns them round.  A use list is a sequence (its
order decides which symbol is found).  Package and symbol objects come from
finite pools; a deleted package remains an object that others refer to.
Operations that signal an error change nothing and are disabled.  Nothing is
taken from programs to make the properties hold.  Three history variables note
the names, package by package, of which the program has done one of the things
after which the code does not keep a promise, and the properties exempt these
names only: `doubled` (a symbol that is present was imported or exported again),
`displaced` (a shadowing import over a symbol at home, or over a doubled one)
and `unshadowed` (a name uninterned while it was on the list of shadowing
symbols).  The CONSTANT `ClientMay` bounds what a run explores of this, for each
package; no theorem depends on it.

`Defpackage` composes `Packages` into the `defpackage` form: the macro's check
that the options are disjoint, and `%defpackage`, which makes the package and
then takes one option after the other, each being an operation of `Packages` or
an error that ends the call.  What has been done stays.  No other operation of
the same thread comes in between; programs go on from any outcome.

`SharedIntern` splits `intern()` into its lookup and its put, for several
threads that also do everything that `Packages` has.

`SpecialBindings` has the array of current values and the binding stack of
each thread.  A bind of a symbol that has an index is one step, since it touches
only the thread's own state; a first bind is split at every access to shared
state: the test outside of the mutex, the lock, the second test, the write and
the unlock, and the push.  `leave(t, k)` leaves the k-th active form and all
inner ones, which covers the normal end of a form and exits.
`DynamicBinding` is what it implements: a stack of bindings per thread, the
forms that are active with the number of bindings there were at their entry, and
one global value per variable; leaving a form drops exactly what was bound since.

`ControlStack` has the frames with their fields, the pool, the chain
(`_last_control_frame` and `next`), the list of tags, and the C stack of the
thread (`cstack`): the forms being evaluated and the calls of `RT_unwind_to()`
in progress.  The loop of `RT_unwind_to()` takes one step per frame, so that a
cleanup form can make an exit itself, on top of the unfinished one.
Interpreted `unwind-protect` (`uwp_forms`) runs its forms from a list in the
frame; compiled `unwind-protect` (`uwp_code`) jumps into its function, whose
frame has left the chain by then.  A tagbody is interpreted (`tagbody`) or
compiled or a loop (`tagbody_code`): only the former resets the tags after a
go.

`Unwinding` composes `ControlStack` with the binding stack of the thread: let
forms between the control forms, the index that `Frame::init()` saves in a frame
and `Frame::clear()` forgets, and the `unbind_to()` of
`restore_frame_context()`, which comes after all cleanup forms.  It conjoins
every action of `ControlStack` with what happens to the bindings, and a form is
left only when the let forms in it have been.  The binding stack has one entry for each let
form; how a binding is stored is the matter of `SpecialBindings`.

`HashTables` has the four classes in one module, as they differ in the test,
the hash, and the cache of `EqHashTable` only.  A key is an object with contents
that the program may modify.  What a test takes for the same (`Class`) and the
two hash functions (`Hash`, `EqualpHash`) are CONSTANTS that need not agree,
because those of the code do not: `equalp_hash()` does not fold the case of
characters and takes vectors, arrays and structures by their address, while
`equalp()` compares folded characters and contents.  `Compatible` says of a key
that they agree for it.
Entries have an identity, since `maphash()` holds a pointer to one while the
function that it calls may remove it, clear the table or make it grow;
`removed` has the `_next` of such entries and `Collect` forgets what nobody can
reach any more.

`Threads` splits `thread_run()` where it takes the mutex of the list and where
it writes the list, and `get-mutex` and `condition-wait` where they block.  A
thread keeps what it believes: the mutexes of the `with-mutex` forms it is in
and those it has got itself.  What pthreads do (waking one or all waiters,
spurious wakeups) is external.  `*all-threads*` is a multiset, as
`list_delete_eq()` and the push do not depend on its order.

`FileStream` has the fields of the class, and the file and the offset of the
descriptor outside of it.  An input stream of bytes is mapped unless the file is
empty; an output stream of bytes that does not append is buffered; all others
read and write the descriptor.  `ByteFile` is what this implements: contents and
a position, which a read or write moves by a byte and which `file-position` sets
to the element that it was asked for.  Only a mapped stream (`back_only`) may
refuse, and only to go forward; a write tells which byte it was, so that one
that is dropped shows.  The history variable `careless` is set when the program does one
of the things after which the code does not keep the promise: it sets the
position or asks for the length while bytes are buffered, pushes back what it
has not just read, or has something pushed back when it uses anything but the
operations that read characters.

`Conditions` has one sequence, the activations of the forms and functions that
are running, each with the values that the dynamic variables have in it.  A
handler cluster or a restart is the position of the form that established it.
`signal()` takes one step per cluster and handler; a handler, or the user of
the debugger, may do whatever the program may do.

`MC*` modules give the constants their values.  `*Proofs` modules extend a
component and TLAPS.  Operators whose names have a suffix and whose comment
begins with "Mutant:" are plausible mistakes; `PROJECT.json` says which
definition each one replaces and which property must then fail.

## 3. Runs

| Run | Checks | Bounds |
|---|---|---|
| `table_fresh` | count and threshold, probe chains, lookup, refinement of `SymbolTable` | 5 symbols with 4 names, of which two collide in every capacity and one wraps around; capacity 2 to 8, two rehashes |
| `packages_defpackage` | registry, use relation, tables, homes, inheritance, stability of names, and that `defpackage` does what it was asked | 2 packages, the keyword package, with which the program is careful, and one with which it may do everything; 2 package names, 1 nickname at a time, 2 symbols of one name, two buckets for it, `defpackage` with up to 3 options |
| `intern_race` (violation) | `HomeIsPresent` | 2 threads, 1 name |
| `bindings_threads` | values, number of indices, refinement of `DynamicBinding` | 2 threads, 2 variables, a value and "unbound", 2 nested forms, a stack of one binding that grows to two; neither "rebind global" nor "loop at bottom" |
| `bindings_index` | indices, and that a bind completes | 2 threads, 2 variables, 1 form, every client behaviour |
| `unwinding` | frames, pool, chain, tags, cleanups, bindings, no trap | all six kinds of forms, 2 names, 3 frames, a pool of 2, 2 tags, 2 cleanup forms, depth 4, 1 let form at a time |
| `control_cleanup` (violation) | `NeverTraps` | block and unwind-protect |
| `hash_tables` | cache, count, place of entries, lookup, `maphash` | all four tests; 2 values; 4 keys: two numbers of one value, and two lists that are the same for equalp but not for its hash; some collide; capacity 4 to 8; 1 modified key |
| `threads` | the list of threads, mutexes, and that threads get to run | 3 threads, 2 mutexes, 1 condition variable, 1 `with-mutex` form per thread |
| `file_stream` | offsets, buffer, pushed-back character, refinement of `ByteFile` | 2 bytes, elements of 1 and 2 bytes, a buffer of 2, files of up to 5 bytes, any number of streams one after the other |
| `conditions` | handlers in effect, order of asking, restarts that are found | 2 conditions, 2 kinds of clusters, up to 3 forms, 3 signals and 1 debugger at a time |
| `error_returns` (violation) | `ErrorDoesNotReturn` | 2 debuggers |

*Why the bounds are enough.*  A collision takes two names, a broken chain three;
two rehashes show that what one rehash leaves is good for the next.  The
operations of packages treat names independently, so that one symbol name with
two symbols shows every conflict, and two buckets every way to spoil a name; two packages give every pair of roles (user
and used, holder and home), and a package may use itself; any two options of a
`defpackage` can meet, and a third one can fail.  A race for an index needs two
threads and two symbols, one for the list of threads three threads, one of
which holds or waits for something else.  Three frames allow an exit from a
cleanup of an exit; the pool is smaller than the number of frames so that it
overflows; a let form may be inside or outside of any of them.  Four entries
fill a table of four buckets beyond its threshold, and separate in eight.  A
buffer of two is full in the middle of a file of five, with a position before,
in and behind what is buffered.  Three signals are a handler that signals in a
handler that signals.

*Symmetry.*  Symbols and package names, threads, variables and their values,
names of blocks, and two keys of equal contents that cannot be modified are
interchangeable: the
modules compare them only for equality.  `bindings_index` and `threads` check
liveness and use no symmetry.  `table_fresh` has none, since names have
different hashes.

*Deadlock.*  It is checked for the two kinds of tables and for file streams.
Package and symbol objects, binding stacks, interpreted frames (those of an
interpreted `unwind-protect` are never released) and activations run out at the
bounds of the models; this is not a deadlock of the program.  In `Threads` the
program can deadlock itself, by locking a mutex twice or two in different
orders.  The other cfgs switch the check off.

*Fairness.*  `FairSpec` of `SpecialBindings` says that a thread inside
`assign_binding_index()` goes on: it is scheduled by the operating system, makes
no call that blocks except for the mutex, and the mutex is held for a few
instructions.  Weak fairness of `lock` is enough because the mutex is contended
only until every symbol has an index: each symbol is assigned one once.
Nothing else is assumed; in particular no form need ever end.

`FairSpec` of `Threads` says the same of a thread that is inside of
`thread_run()` and not in its function: the mutex of the list is held for a few
instructions, by code that calls nothing, and is contended only until all
threads have started or ended.  Nothing is assumed of the program: threads may
hold mutexes for ever or wait for each other, and new threads register all the
same.

## 4. What the runs show

* With the clients of the kernel that look before they put, the symbol table is
  a map: no entry is lost or duplicated by tombstones or growth.  With any
  client `count` is exact and below the threshold, so that `put()` always finds a
  bucket.
* Names of packages are consistent and the use relation is symmetric, with
  `defpackage` forms that were given up as well.  Whatever the program does,
  symbols are in their home package unless a shadowing import displaced one of
  the name there; no name is internal and external unless, besides, a symbol of it
  was put again; inherited symbols are listed unless the name was uninterned
  while shadowing.  A `defpackage` spoils no name itself: that needs the check of
  its macro, without which an import could displace what was shadowed.  One that
  returns has done everything it was asked for: no later option undoes an earlier
  one.
* Shallow binding implements a stack of bindings in nested forms for each thread,
  also when two threads bind a variable for the first time at once, but for the
  two uses that the run excludes (`Thread.cpp:178`, `dolist.cpp:155` below).
* Every exit, also one out of a cleanup form, runs each cleanup once and before
  it arrives; frames never belong to two forms; the chain is always what is
  established; and the special bindings afterwards are exactly those of the let
  forms that go on.  Cleanup forms run with the bindings of the place that the
  exit started from.  This is for interpreted and compiled forms in any mixture,
  as long as interpreted cleanup forms do not establish or leave forms while the
  chain is stale, and no inner form of the same name is active.
* A hash table returns what was put last under a key whose hash agrees with the
  test, and the cache of eq tables cannot be noticed.  The hash agrees for keys of
  eq tables; for equalp it does not for characters, vectors, arrays and
  structures.  Of the others only a key that is modified while the table knows
  it can be lost, which concerns lists in eq and eql tables.
  `maphash()` visits no entry twice, even if its function makes the table grow:
  the growth keeps the order in which buckets and chains are visited.  It misses
  no entry if its function does what the language allows.
* The list of threads is exact, and a mutex is held by the thread that believes
  so.
* A file stream is a file of bytes with a position, for programs that are not
  careless in the sense of section 2; the offset into a mapped file and the
  buffer stay inside their bounds for all programs.
* Handlers are asked once each, in the right order, and run with the handlers
  outside of their own, through any nesting of signals, exits and debuggers.  A
  handler that continues or muffles its condition goes on behind the call that
  signalled it.

Three disagreements between the code and its own assertions and comments are
shown by runs that TLC must find violated:

* `intern_race`: two threads intern one name; the symbol that was put first has
  a home package that does not hold it, which `export_symbol()` takes for
  impossible (`Package.cpp:361`, assertion `Package.cpp:461`).
* `control_cleanup`: `(block a (unwind-protect (block b (return-from a 1))
  (block c 2)))`, interpreted, gets the frame of `b` for `c` while it is still
  `_last_control_frame`, and runs into `SYS_int3()` (`Thread.cpp:211`).
* `error_returns`: the abort restart of a nested debugger makes `error` return,
  also into `signal_lisp_error()`, which does not expect it
  (`invoke-debugger.lisp:51`, comment `conditions.cpp:206`).

Others were met while modelling.  Each is a hazard of `PROJECT.json`.  Those of
packages, of hash tables and of file positions happen in the passing runs, whose
properties say what is left of their promise (a history variable or
`Compatible` marks the names, keys or streams concerned); `Reput` and `ClientMay`
keep those of the symbol table, bindings and exits out:

* `put()` of a symbol behind a tombstone stores it twice, and `remove()` removes
  it once (`SymbolHashTable.cpp:98`), so that a symbol that was imported twice can
  be internal and external after an export;
* importing a symbol that the package exports makes it internal as well, and
  `unintern` removes one of the two (`Package.cpp:423`);
* `shadowing-import` leaves a displaced symbol with a home that does not hold it
  (`Package.cpp:622`), `unintern` of a shadowing symbol leaves its name on the
  list, which hides an inherited symbol from `do-symbols` (`Package.cpp:1229`), and
  `delete-package` leaves the use lists alone, against the test delete-package.5
  (`Package.cpp:669`);
* leaving a form that was entered when the binding stack was exactly full, and
  that has bound nothing, ends the process (`Thread.cpp:137`);
* `bind_special_to_current_value()` leaves a thread-local copy of a global value
  (`Thread.cpp:178`), and a loop at the bottom of the binding stack does not undo
  its binding (`dolist.cpp:155`);
* `return-from` finds blocks by name in the dynamic chain, against the test
  block.10 (`block.cpp:135`), and after a `go` in compiled code the tags of
  inner tagbodies stay visible (`tagbody.cpp:157`);
* `_uwp_in_cleanup` is wrong after a nested unwinding (`Frame.cpp:64`);
* eq and eql tables lose keys whose contents change (`sxhash.cpp:61`), and equalp
  tables do not find a character by its other case (`sxhash.cpp:104`) nor a vector,
  array or structure by another one of the same contents (`TypedObject.hpp:59`);
* setting the position of a stream forgets neither what is buffered nor what was
  pushed back (`FileStream.cpp:415`).

## 5. Proofs

All theorems hold for every value of the constants that satisfies the named
assumption of the component's module.  Those about the abstract table, bindings
and exits need a program that avoids what section 4 lists as met while
modelling; it is then a named hypothesis of the theorem (`ASSUME`), about the
CONSTANT that says what programs may do, and the run that checks the same
property has it too.

* `SymbolHashTableProofs` (`ConstantsAssumption`: every symbol has a name,
  every name a hash that is a natural number, and the initial capacity is not
  zero).  *TypeCorrect*,
  *ChainsIntact*, *NamesFound*.  The inductive invariant `ChainInv` is `FieldTypes`
  and `ProbeChainsIntact`, for the table in use and for the one that `rehash()`
  fills: between the home bucket of a stored symbol and its own there is no NULL.
  It rests on the arithmetic of a probe sequence, which visits every bucket once
  (`ProbeInjective`, `ProbeSurjective`), and on two facts about a table: a symbol
  stored in the first bucket that a probe may take, and a tombstone stored
  anywhere, keep all chains.  `get()` follows the chain, hence finds the name.
  `CountInv` adds that `count` is the number of live buckets and at most the
  threshold, which the doubled table has room above, and that `rehash()` has moved
  as many as it has passed; so `put()` always finds a bucket.
  The client is arbitrary (`Reput` is not used).
  *MapRefined*: the table implements `SymbolTable`, for clients that look first
  (`LooksUpFirst`: `Reput = "never"`, which is `intern()`; the others can store a
  symbol twice).  `MapInv` adds that a name is in one bucket and, during a
  rehash, that what has been moved and what has not are the table together.
* `PackagesProofs` (`PackagesAssumption`).  *MapIsConsistent* and *UsesAgree*, for
  every program.  `RegistryInv` adds to `MapConsistent` the types of the registry
  and that a package that was not made yet has no names; without the latter,
  `%make-package` could take over an object whose old names stay in the map.
  `UsesInv` adds to `UseSymmetric` that only packages that were made are used.
  *HomePresent*, *TablesDisjoint*, *PresentStable* and *InheritedComplete*, for
  every program too.  `TablesInv` says of each name in each package (`CellInv`):
  its second buckets are behind first ones and all symbols are under their own
  name; unless the name was displaced, all buckets hold one symbol, and symbols
  at home are there (`CellAgrees`); unless it was doubled either, there is one
  bucket (`CellSingle`).  The parts need each other, since `import_symbol()` and
  `export_symbol()` trust the home.  `ShadowInv` adds that a shadowing name is
  present unless it was uninterned.
  Its second half is about `Defpackage`.  *DefMapIsConsistent*, *DefUsesAgree*,
  *DefHomePresent*, *DefTablesDisjoint*, *DefPresentStable*,
  *DefInheritedComplete*: the same with `defpackage` forms in progress or given
  up.  Every step of one, an error included, is a step of `Packages`, or exports
  a new symbol, or leaves the packages alone.  That a shadowing import of
  `defpackage` displaces nothing is the work of `CallInv`: nobody uses the new
  package yet, the options are taken in order, and the macro has checked that
  they are disjoint.
  *DefAsAsked*: the invariant is what each phase leaves for those after it.
* `SpecialBindingsProofs` (`BindingsAssumption`, and `SlotsAssumption`: there are
  fewer symbols than slots, which the code relies on and does not check).
  *IndicesUnique*,
  *IndexStable*.  Uniqueness is not inductive: the invariant `IndexInv` adds that
  a thread in the critical section holds the mutex, that the index it has read
  is still `next_binding_index`, that its symbol still has no index, and that
  all indices are smaller than `next_binding_index`.  *TypeCorrect*: `TypeInv`
  adds that `next_binding_index` counts the symbols that have an index, so that
  only as many symbols as slots can exhaust the array, and that the marks of
  nested forms increase.
  *NewestRead* and *BindingsRefined*, for programs that do not rebind a
  variable to its own global value in a thread that has not bound it
  (`NoRebind`; `Thread.cpp:178` then leaves a copy of the global value behind);
  *BindingsRefined* also needs that no loop over a special variable is at the
  bottom of the stack (`NoBottomLoop`; `dolist.cpp:155` then leaves its binding
  behind).
  `ShallowInv` is the invariant of shallow binding: what a slot and the stack
  entries above a binding have saved are, read downward, the values of the
  bindings of that variable, and a slot without bindings is empty.  Under it
  each action is the action of `DynamicBinding` on the values so read and on the
  marks of the forms, or does not show.
* `UnwindingProofs` (`ControlAssumption`, `UnwindingAssumption`).
  `Unwinding` adds to the actions of `ControlStack`, so that invariants of the
  latter hold of both (`UnwindingRefines`).  The theorems are for programs that do not
  establish or leave forms from a cleanup form while the chain is stale, and
  have no inner form of the same name as the one they exit from
  (`CarefulExits`; the run `control_cleanup` shows what happens otherwise).
  *FramesAreExclusive*, *CleanupRunsOnce*, *ExitsNeverTrap*, *CleanupPrecedesExit*
  come from one invariant, `ExitInv`.  The central idea are the *linked* forms: the
  established ones, and the `unwind-protect` forms whose cleanup forms an exit is
  running.  An exit in progress has left all forms down to its place in the
  chain, so that a form is linked if every unwinding on the C stack above it is
  still ahead of it.  `FrameInv`: a linked form has a frame of its own, not in the
  pool, chained to the frame of the next linked form.  `UnwindInv`: an unwinding
  that can go on stands at the frame of the innermost linked form below it, or
  behind it; its target is linked; and what is above it on the C stack was begun
  by a cleanup form that was free to do so.  (An unwinding from whose cleanup
  another exit was made, past its place, can never go on; nothing is said of
  it.)  `LastInv`: `_last_control_frame` is the innermost linked form whenever a
  frame can be made.  `CleanupInv`: the cleanup forms that have been started are
  those that the frame no longer has.  None of these is inductive without the
  others.
  *BindingsOfLets* adds `LetInv`: the mark in the frame of a linked form is the
  number of the let forms around it, and lets and bindings correspond.
  *TagsOfForms* adds `TagsInv`: the tags saved in the frame of a linked form, and
  the list of tags itself, end in the tags of each tagbody around it, and are
  those of the innermost one if it is interpreted and no exit is in progress.
  *ChainIsOfForms*: the i-th link of the chain is the frame of the linked form
  with i forms inside of it, by the smallest link of which this is not so; the
  chain then has as many links as there are forms, which are at most
  `MaxFrames` as their frames differ.
* `ThreadsProofs` (`ThreadsAssumption`).  *RegistryExact*, *Held*, and the types
  they need.
  The list is exact because a thread in its critical section holds the mutex and
  the list it has read is still `*all-threads*`; this is what the invariant of
  *RegistryExact* adds.  *Held* needs that a mutex is not twice among the forms and
  the own mutexes of a thread, and that a thread that waits has put aside only
  the mutex it will take again.
* `HashTablesProofs` (`HashAssumption`; `IdentityAssumption`: eq compares objects,
  and eql too if they can be modified).  All properties of `HashTables`, for any
  keys, contents, hash functions and tests, which need not agree, and any program.
  Chains are reasoned about by where an entry is (`At`, `In`) and which entry of
  the same chain comes after it (`Before`).  What an operation makes of them is
  said in these terms: `DroppedIs` for a removal, `PushedIs` for a new entry,
  and `RehashedIs` for a rehash, after which an entry is in the bucket of its old
  index or in the one half a table further, and entries of one chain have kept
  their order.  `HeldIs` says what the garbage collector keeps.
  *TypesAreCorrect* from `Fits`: the entries that are not collected are those in
  the buckets and the removed ones that `maphash()` can reach, and `maphash()` is at
  one of them.
  *CacheIsValid*, *KeysHaveOneEntry* and *GetReturnsWhatWasPut* from `KeyInv`: an
  entry is in the bucket of its key, no other one for the key is there, and for a
  key whose hash agrees with the test its value is what was put last.  They need each other: a lookup with a wrong cached index would
  make a second entry, and only a lookup that misses nothing may push a new one.
  Growth is the step where the cache could become stale.
  *EntriesAreVisitedOnce* from `VisitInv`: nothing after the current entry has
  been visited, visited entries are not in buckets still to be done, `_next` of
  a removed entry leads to nothing visited, and following it one comes to an end
  (`Ends`).  That a rehash keeps it is the point: it doubles the table, so that
  no entry gets to a smaller index than it had, and it keeps the order in a
  chain.
  *MaphashIsComplete* from `TameInv`: an entry that was not visited is in a bucket
  still to be done, after the current entry, or at or after the `_next` of the
  current entry if that was removed.
* `ConditionsProofs` (`ConditionsAssumption`).  *HandlersAreInEffect*,
  *HandlersAreAskedInOrder*, *RestartsBelongToConditions*, for any clusters,
  conditions and nesting, and any program.  `InEffect(stack)` is a recursive
  function on the activations; it is shown to exist, and to depend on the
  activations up to its argument only, by the smallest argument where it would
  not.  The invariant `AllFit` says of every activation on the stack, not just of
  the top one, how its dynamic variables come from the activations below it:
  the handlers are those in effect; a signal under way stands at a cluster in
  effect, has bound `*handler-clusters*` to what is outside of it and has asked
  what it has passed; the restarts are positions below, the newest first, and
  none that was established is missing; an association belongs to the activation
  that has made it; `warn` and `cerror` signal right inside of a restart of their
  own.  All activations are needed because an exit cuts the stack anywhere: what
  is left then fits as it did before (`GoodPrefix`).
* `FileStreamProofs` (`FileAssumption`).  *TypeCorrect* and *BufferNotOverrun* from
  the same invariant: only a buffered stream has bytes in its buffer, and then at
  most `BufferSize`.  *PushedBack* adds that a mapped or reading stream has
  nothing buffered, and that a result of `read-char` is the byte before the
  position until the next call.  *Refinement*: with these as invariant, each
  action of `FileStream` is the action of `ByteFile` of the same name, with the same
  byte or position, a careless one, or (flushing) changes nothing that `ByteFile`
  sees.  The central lemma is
  that overlaying the file with the buffer, and then with another byte behind
  it, is overlaying it with both.

Every safety property that a passing run checks is so stated by a theorem.  Only
model-checked is liveness (`BindCompletes`, `ThreadsRegister`), as liveness under
fairness and ENABLED are out of the prover's reach.  Induction over data is not
available to it either; where a definition is a recursive function, or a set
has to be listed in an order, the proofs argue by a smallest counterexample,
which exists as the naturals are well-founded.

## 6. Not modelled

Evaluation, argument binding and the compiler are transformations of programs:
the models let the program do anything at each step instead.  Pathnames, reader
and printer are parsing and formatting; the other streams and sockets are input
and output without state of their own, or like file streams.  Numbers wrap GMP
and the C library.  CLOS would need a model of the evaluator.  The garbage
collector, MPIR, MPFR and the test suites are third-party code; they and the
library are by far the largest part of the repository, so that the share of its
lines that is modelled is small, while it is most of the kernel's code that
keeps state across operations.

In the modelled components: the packages of the startup, and interleavings of
package operations other than `intern()`; the parsing of declarations, saved
values, backtraces and exits within one compiled function; `reset` in a thread
other than the main one, which jumps to another thread's stack (`lisp.cpp:73`); interrupting, killing and joining threads, and the
owner slot of a mutex; hash tables that several threads use; system calls that
fail, two streams to one file, and column positions; test functions and
arguments of restarts, debugger hooks and `*break-on-signals*`.

## 7. Plan

1. `export()` and `use-package` split like `intern()`, for two threads.
2. Autoloaded functions that two threads call; fill pointers and displacement of
   arrays.
