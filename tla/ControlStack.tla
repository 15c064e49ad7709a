---------------------------- MODULE ControlStack ----------------------------
(***************************************************************************)
(* Non-local exits of a thread: block, catch, tagbody and unwind-protect,  *)
(* return-from, throw, go and reset (kernel/Frame.cpp, block.cpp,          *)
(* catch.cpp, tagbody.cpp, unwind-protect.cpp and the frames of            *)
(* Thread.cpp).                                                            *)
(*                                                                         *)
(* The forms that are being evaluated are activations on the C stack.      *)
(* Each has a control frame; the frames are chained from                   *)
(* _last_control_frame and are reused through a pool.  An exit searches    *)
(* the chain, and RT_unwind_to() walks it, running cleanup forms and       *)
(* releasing frames, before it jumps to the activation of the frame found. *)
(* While a cleanup form runs the program may do anything, another exit     *)
(* included.  Exits that the compiler turns into jumps inside one function *)
(* do not go through this code and are left out.                           *)
(***************************************************************************)
EXTENDS Integers, Sequences, FiniteSets, SequencesExt

CONSTANTS
  FormKinds,        (* the kinds of forms that the program uses              *)
  Names,            (* names of blocks, catch tags and tagbody tags          *)
  FRAME_POOL_SIZE,
  CleanupForms,     (* forms of an interpreted unwind-protect                *)
  MaxFrames,        (* bound: frames allocated, as opposed to reused         *)
  MaxDepth,         (* bound: activations on the C stack                     *)
  MaxTags,          (* bound: visible tags; compiled code lets them pile up  *)
  ClientMay         (* see ClientBehaviours                                  *)

(* An unwind-protect has a list of forms if it is interpreted and one piece  *)
(* of code if it is compiled; an interpreted tagbody resets the tags after   *)
(* a go, a compiled one (and do, dolist and dotimes) does not.               *)
AllKinds == {"block", "catch", "tagbody", "tagbody_code", "uwp_forms", "uwp_code"}

(* "stale control": an interpreted cleanup form that RT_unwind_to() runs     *)
(* establishes a frame or makes an exit although a frame above it has been   *)
(* released; "same name": an exit to a block or a tag whose name an inner    *)
(* block or tag, or one that has been left, has too.                         *)
ClientBehaviours == {"stale control", "same name"}

ASSUME ControlAssumption ==
  /\ FormKinds \subseteq AllKinds
  /\ FRAME_POOL_SIZE \in Nat \ {0}
  /\ CleanupForms \in Nat \ {0}
  /\ MaxFrames \in Nat
  /\ MaxDepth \in Nat
  /\ MaxTags \in Nat
  /\ ClientMay \subseteq ClientBehaviours

VARIABLES
  frames,     (* the frames that have been allocated                         *)
  pool,       (* FramePool: cleared frames, the last one is reused first     *)
  last,       (* _last_control_frame                                         *)
  last_tag,   (* _last_tag: the visible tags, newest first                   *)
  cstack,     (* the activations, oldest first                               *)
  trapped     (* SYS_int3() was called, or a jump through a cleared frame    *)

vars == <<frames, pool, last, last_tag, cstack, trapped>>

NULL == 0
PRIMORDIAL == -1   (* the frame of main(), which is never in the chain       *)

FrameIds == DOMAIN frames

(* Frame::clear()                                                            *)
Cleared ==
  [type |-> "PRIMORDIAL", name |-> NULL, next |-> NULL, last |-> NULL,
   tags |-> << >>, jmp |-> 0, forms |-> 0]

Init ==
  /\ frames = << >>
  /\ pool = << >>
  /\ last = NULL
  /\ last_tag = << >>
  /\ cstack = << >>
  /\ trapped = FALSE

------------------------------------------------------------------------------
(* Where the thread is.                                                      *)

Top == cstack[Len(cstack)]

UwpKinds == {"uwp_forms", "uwp_code"}
TagbodyKinds == {"tagbody", "tagbody_code"}

Unwinds == {r \in DOMAIN cstack : cstack[r].kind = "unwind"}

(* The program runs, as opposed to the loop of RT_unwind_to().               *)
Running ==
  /\ ~trapped
  /\ cstack # << >> => (Top.kind = "unwind" => Top.cleaning # "no")

(* A form that is being evaluated and that no unwinding has passed yet.      *)
Established(k) ==
  /\ cstack[k].kind \in AllKinds
  /\ \A r \in Unwinds : k < r => k < cstack[r].low

(* A cleanup form runs although the frame that _last_control_frame points to *)
(* has been released.                                                        *)
Stale ==
  \E r \in Unwinds :
    /\ cstack[r].cleaning = "forms"
    /\ cstack[r].first # cstack[r].f
    /\ \A m \in Unwinds : m <= r

MayControl == Running /\ (Stale => "stale control" \in ClientMay)

(* The frames that a search visits, the first NULL included.                 *)
ChainAt(f) ==
  LET at[i \in 0 .. MaxFrames] ==
        IF i = 0 THEN f ELSE IF at[i - 1] = NULL THEN NULL ELSE frames[at[i - 1]].next
  IN at

(* find_block() and find_catch_frame(); NULL also where the loop would not   *)
(* end.                                                                      *)
Find(type, n) ==
  LET at == ChainAt(last)
      hits == {i \in DOMAIN at :
                 at[i] # NULL /\ frames[at[i]].type = type /\ frames[at[i]].name = n}
  IN IF hits = {} THEN NULL ELSE at[CHOOSE i \in hits : \A k \in hits : i <= k]

(* find_tag()                                                                *)
FindTagbody(n) ==
  LET hits == {i \in DOMAIN last_tag : last_tag[i].name = n}
  IN IF hits = {} THEN NULL
     ELSE last_tag[CHOOSE i \in hits : \A k \in hits : i <= k].tagbody

------------------------------------------------------------------------------
(* Frames.                                                                   *)

(* FramePool::release_frame(): a full pool leaves the frame as it is.        *)
PoolHasRoom == Len(pool) < FRAME_POOL_SIZE - 1

release_frame(f) ==
  /\ pool' = IF PoolHasRoom THEN Append(pool, f) ELSE pool
  /\ frames' = IF PoolHasRoom THEN [frames EXCEPT ![f] = Cleared] ELSE frames

(* The frame that Thread::get_frame() and get_tagbody() return.              *)
NextFrame == IF pool # << >> THEN Last(pool) ELSE Len(frames) + 1

NewFrame(kind, n) ==
  [type |-> kind, name |-> IF kind \in {"block", "catch"} THEN n ELSE NULL,
   next |-> last, last |-> last, tags |-> last_tag,
   jmp |-> Len(cstack) + 1, forms |-> IF kind = "uwp_forms" THEN CleanupForms ELSE 1]

(* add_block(), add_catch_frame(), get_tagbody() with add_tag() for one tag, *)
(* and add_unwind_protect(), then the body of the form.  The int3 that these *)
(* or set_next() run if the frame is still the last one ends the process.    *)
enter(kind, n) ==
  LET f == NextFrame
      tags == IF kind \in TagbodyKinds THEN <<[name |-> n, tagbody |-> f]>> \o last_tag
                                       ELSE last_tag
  IN /\ MayControl
     /\ Len(cstack) < MaxDepth
     /\ f <= MaxFrames
     /\ Len(tags) <= MaxTags
     /\ pool' = IF pool = << >> THEN pool ELSE Front(pool)
     /\ IF f = last
          THEN /\ trapped' = TRUE
               /\ UNCHANGED <<frames, last, last_tag, cstack>>
          ELSE /\ frames' = IF pool = << >> THEN Append(frames, NewFrame(kind, n))
                            ELSE [frames EXCEPT ![f] = NewFrame(kind, n)]
               /\ last' = f
               /\ last_tag' = tags
               /\ cstack' = Append(cstack, [kind |-> kind, frame |-> f, tags |-> tags, started |-> 0])
               /\ UNCHANGED trapped

------------------------------------------------------------------------------
(* Normal ends.                                                              *)

Pop == cstack' = Front(cstack)

(* leave_block() and RT_leave_catch().                                       *)
leave_block ==
  /\ Running /\ cstack # << >>
  /\ Top.kind \in {"block", "catch"}
  /\ last' = frames[Top.frame].last
  /\ release_frame(Top.frame)
  /\ Pop
  /\ UNCHANGED <<last_tag, trapped>>

(* Mutant: the last control frame is not reset.                              *)
leave_tagbody_keeps ==
  /\ Running /\ cstack # << >>
  /\ Top.kind \in TagbodyKinds
  /\ last_tag' = frames[Top.frame].tags
  /\ release_frame(Top.frame)
  /\ Pop
  /\ UNCHANGED <<last, trapped>>

leave_tagbody ==
  /\ Running /\ cstack # << >>
  /\ Top.kind \in TagbodyKinds
  /\ last_tag' = frames[Top.frame].tags
  /\ last' = frames[Top.frame].last
  /\ release_frame(Top.frame)
  /\ Pop
  /\ UNCHANGED trapped

(* Mutant: the frame stays the last one while the cleanup forms run.         *)
leave_unwind_protect_keeps ==
  /\ Running /\ cstack # << >>
  /\ Top.kind \in UwpKinds
  /\ cstack' = [cstack EXCEPT ![Len(cstack)].kind = "cleanup"]
  /\ UNCHANGED <<frames, pool, last, last_tag, trapped>>

(* The protected form is done: RT_leave_unwind_protect(), so that the frame  *)
(* is gone when the cleanup forms run.                                       *)
leave_unwind_protect ==
  /\ Running /\ cstack # << >>
  /\ Top.kind \in UwpKinds
  /\ last' = frames[Top.frame].last
  /\ release_frame(Top.frame)
  /\ cstack' = [cstack EXCEPT ![Len(cstack)].kind = "cleanup"]
  /\ UNCHANGED <<last_tag, trapped>>

(* The last cleanup form is done.                                            *)
end_unwind_protect ==
  /\ Running /\ cstack # << >>
  /\ Top.kind = "cleanup"
  /\ Pop
  /\ UNCHANGED <<frames, pool, last, last_tag, trapped>>

------------------------------------------------------------------------------
(* Exits.                                                                    *)

(* RT_unwind_to(): the loop starts at the last frame.                        *)
Unwind(target) ==
  /\ Len(cstack) < MaxDepth
  /\ cstack' = Append(cstack, [kind |-> "unwind", target |-> target, first |-> last,
                               f |-> last, next |-> NULL, low |-> Len(cstack) + 1,
                               cleaning |-> "no"])
  /\ UNCHANGED <<frames, pool, last, last_tag, trapped>>

(* return-from for the block of activation k, which is looked up by name; it *)
(* is an error if no block is found.                                         *)
return_from(k) ==
  LET target == Find("block", frames[cstack[k].frame].name) IN
  /\ MayControl
  /\ Established(k) /\ cstack[k].kind = "block"
  /\ target # NULL
  /\ target # cstack[k].frame => "same name" \in ClientMay
  /\ Unwind(target)

throw(n) ==
  /\ MayControl
  /\ Find("catch", n) # NULL
  /\ Unwind(Find("catch", n))

(* go to the tag of the tagbody of activation k.                             *)
go(k) ==
  LET target == FindTagbody(cstack[k].tags[1].name) IN
  /\ MayControl
  /\ Established(k) /\ cstack[k].kind \in TagbodyKinds
  /\ target # NULL
  /\ target # cstack[k].frame => "same name" \in ClientMay
  /\ Unwind(target)

(* EXT_reset(), from the debugger.                                           *)
reset == MayControl /\ cstack # << >> /\ Unwind(PRIMORDIAL)

Unwinding == ~trapped /\ cstack # << >> /\ Top.kind = "unwind" /\ Top.cleaning = "no"

AtEnd == Top.f \in {NULL, Top.target}

(* The next frame of the loop, and the oldest activation that it has passed. *)
Step(f, next, low, cleaning) ==
  [cstack EXCEPT ![Len(cstack)] =
     [@ EXCEPT !.f = f, !.next = next, !.low = low, !.cleaning = cleaning]]

(* Mutant: the pointer to the next frame is read after the release.          *)
unwind_release_late ==
  LET f == Top.f IN
  /\ Unwinding /\ ~AtEnd
  /\ frames[f].type \notin UwpKinds
  /\ release_frame(f)
  /\ cstack' = Step(frames'[f].next, NULL, frames[f].jmp, "no")
  /\ UNCHANGED <<last, last_tag, trapped>>

(* Neither an unwind-protect nor the target: the frame is released.          *)
unwind_release ==
  LET f == Top.f IN
  /\ Unwinding /\ ~AtEnd
  /\ frames[f].type \notin UwpKinds
  /\ cstack' = Step(frames[f].next, NULL, frames[f].jmp, "no")
  /\ release_frame(f)
  /\ UNCHANGED <<last, last_tag, trapped>>

(* run_cleanup_code(): the code calls RT_leave_unwind_protect() first.       *)
unwind_cleanup_code ==
  LET f == Top.f
      k == frames[f].jmp
  IN /\ Unwinding /\ ~AtEnd
     /\ frames[f].type = "uwp_code"
     /\ cstack' = [Step(f, frames[f].next, k, "code") EXCEPT ![k].started = @ + 1]
     /\ last' = frames[f].last
     /\ release_frame(f)
     /\ UNCHANGED <<last_tag, trapped>>

(* Mutant: the form is not removed before it is evaluated (MISC.273).        *)
unwind_cleanup_form_again ==
  LET f == Top.f
      k == frames[f].jmp
  IN /\ Unwinding /\ ~AtEnd
     /\ frames[f].type = "uwp_forms"
     /\ frames[f].forms > 0
     /\ cstack' = [Step(f, frames[f].next, k, "forms") EXCEPT ![k].started = @ + 1]
     /\ UNCHANGED <<frames, pool, last, last_tag, trapped>>

(* run_cleanup_forms(): the form is removed before it is evaluated.          *)
unwind_cleanup_form ==
  LET f == Top.f
      k == frames[f].jmp
  IN /\ Unwinding /\ ~AtEnd
     /\ frames[f].type = "uwp_forms"
     /\ frames[f].forms > 0
     /\ frames' = [frames EXCEPT ![f].forms = @ - 1]
     /\ cstack' = [Step(f, frames[f].next, k, "forms") EXCEPT ![k].started = @ + 1]
     /\ UNCHANGED <<pool, last, last_tag, trapped>>

(* No form is left; the frame is not released.                               *)
unwind_cleanup_done ==
  LET f == Top.f IN
  /\ Unwinding /\ ~AtEnd
  /\ frames[f].type = "uwp_forms"
  /\ frames[f].forms = 0
  /\ cstack' = Step(frames[f].next, NULL, frames[f].jmp, "no")
  /\ UNCHANGED <<frames, pool, last, last_tag, trapped>>

(* A cleanup form returns to RT_unwind_to().                                 *)
cleanup_returns ==
  /\ Running /\ cstack # << >>
  /\ Top.kind = "unwind"
  /\ cstack' = Step(IF Top.cleaning = "forms" THEN Top.f ELSE Top.next,
                    NULL, Top.low, "no")
  /\ UNCHANGED <<frames, pool, last, last_tag, trapped>>

(* The frame is still the one of an activation on the stack.                 *)
CanJump(f) ==
  LET k == frames[f].jmp IN
  /\ k \in DOMAIN cstack
  /\ cstack[k].kind \in AllKinds
  /\ cstack[k].frame = f

(* Mutant: RT_block_non_local_return() releases the frame, and leave_block() *)
(* releases it again.                                                        *)
jump_leave_twice ==
  LET f == Top.target IN
  /\ frames[f].type \in {"block", "catch"}
  /\ last' = frames[f].last
  /\ last_tag' = frames[f].tags
  /\ pool' = pool \o <<f, f>>
  /\ frames' = [frames EXCEPT ![f] = Cleared]
  /\ cstack' = SubSeq(cstack, 1, frames[f].jmp - 1)
  /\ UNCHANGED trapped

(* restore_frame_context(), and the jump to the form: a block or catch form  *)
(* is left, the body of a tagbody goes on.                                   *)
jump_leave ==
  LET f == Top.target IN
  /\ frames[f].type \in {"block", "catch"}
  /\ last' = frames[f].last
  /\ last_tag' = frames[f].tags
  /\ release_frame(f)
  /\ cstack' = SubSeq(cstack, 1, frames[f].jmp - 1)
  /\ UNCHANGED trapped

(* Mutant: set_last_tag(last_tag) is missing in CL_tagbody().                *)
jump_tagbody_keeps ==
  LET f == Top.target IN
  /\ frames[f].type \in TagbodyKinds
  /\ last' = f
  /\ cstack' = SubSeq(cstack, 1, frames[f].jmp)
  /\ UNCHANGED <<frames, pool, last_tag, trapped>>

jump_tagbody ==
  LET f == Top.target IN
  /\ frames[f].type \in TagbodyKinds
  /\ last' = f
  /\ last_tag' = IF frames[f].type = "tagbody" THEN cstack[frames[f].jmp].tags ELSE last_tag
  /\ cstack' = SubSeq(cstack, 1, frames[f].jmp)
  /\ UNCHANGED <<frames, pool, trapped>>

jump_reset ==
  /\ Unwinding /\ AtEnd /\ Top.target = PRIMORDIAL
  /\ last' = NULL
  /\ last_tag' = << >>
  /\ cstack' = << >>
  /\ UNCHANGED <<frames, pool, trapped>>

(* There is nowhere to jump to if the target has been left.                  *)
jump ==
  /\ Unwinding /\ AtEnd /\ Top.target # PRIMORDIAL
  /\ IF CanJump(Top.target)
       THEN jump_leave \/ jump_tagbody
       ELSE /\ trapped' = TRUE
            /\ UNCHANGED <<frames, pool, last, last_tag, cstack>>

UnwindStep ==
  \/ unwind_release \/ unwind_cleanup_code \/ unwind_cleanup_form \/ unwind_cleanup_done
  \/ jump \/ jump_reset

Next ==
  \/ \E kind \in FormKinds, n \in Names : enter(kind, n)
  \/ leave_block \/ leave_tagbody \/ leave_unwind_protect \/ end_unwind_protect
  \/ \E k \in DOMAIN cstack : return_from(k) \/ go(k)
  \/ \E n \in Names : throw(n)
  \/ reset
  \/ cleanup_returns
  \/ UnwindStep

Spec == Init /\ [][Next]_vars

------------------------------------------------------------------------------
(* Properties.                                                               *)

EstablishedForms == {k \in DOMAIN cstack : Established(k)}

(* A frame is released once, when its form is left or unwound, and never     *)
(* while the form can still be returned to: no two forms share a frame, and  *)
(* none is in the pool from which the next form takes its frame.  The pool   *)
(* stays inside of its array.                                                *)
FramesExclusive ==
  /\ IsInjective(pool) /\ Len(pool) <= FRAME_POOL_SIZE
  /\ \A k \in EstablishedForms :
       /\ cstack[k].frame \notin Range(pool)
       /\ frames[cstack[k].frame].jmp = k
       /\ \A m \in EstablishedForms : cstack[m].frame = cstack[k].frame => m = k

(* Whenever the program runs, the chain from the last control frame is the   *)
(* frames of the established forms, innermost first: exits see every form    *)
(* that is established and none that has been left.  A cleanup form of the   *)
(* interpreter runs with the chain of the exit it interrupts.                *)
ChainMatchesForms ==
  Running /\ (\A r \in Unwinds : cstack[r].cleaning = "code") =>
    LET at == ChainAt(last)
        chain == {i \in DOMAIN at : at[i] # NULL}
    IN /\ Cardinality(chain) = Cardinality(EstablishedForms)
       /\ \A i \in chain, k \in EstablishedForms :
            (at[i] = cstack[k].frame) <=>
              i = Cardinality({m \in EstablishedForms : m > k})

(* The visible tags are those that the innermost tagbody had when it was     *)
(* entered, its own first, after whatever exits; a compiled one may have     *)
(* tags of inner forms, left by a go, in front of them.  In the interpreter  *)
(* a tag is never found of a tagbody that has been left.                     *)
TagsAreEstablished ==
  LET bodies == {k \in EstablishedForms : cstack[k].kind \in TagbodyKinds}
      inner == CHOOSE k \in bodies : \A j \in bodies : j <= k
  IN Running /\ Unwinds = {} =>
       IF bodies = {} THEN last_tag = << >>
       ELSE IF cstack[inner].kind = "tagbody" THEN last_tag = cstack[inner].tags
       ELSE IsSuffix(cstack[inner].tags, last_tag)

(* No cleanup form runs twice, also if one of them makes an exit itself      *)
(* ("We don't ever want to run the same cleanup form more than once").       *)
CleanupAtMostOnce ==
  \A k \in DOMAIN cstack :
    /\ cstack[k].kind = "uwp_forms" => cstack[k].started <= CleanupForms
    /\ cstack[k].kind = "uwp_code" => cstack[k].started <= 1

(* No exit leaves an unwind-protect form whose cleanup forms have not run:   *)
(* return-from, throw, go and reset, from any depth, also out of a cleanup.  *)
CleanupBeforeExit ==
  [][\A k \in DOMAIN cstack :
       k > Len(cstack') /\ cstack[k].kind \in UwpKinds =>
         cstack[k].started = IF cstack[k].kind = "uwp_forms" THEN CleanupForms ELSE 1]_vars

(* After an unwinding to a tagbody "last_control_frame() == tagbody", as     *)
(* RT_non_local_go() asserts; and get_frame() never returns the last frame.  *)
NeverTraps == ~trapped

==============================================================================
