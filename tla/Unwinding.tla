------------------------------ MODULE Unwinding ------------------------------
(***************************************************************************)
(* What a non-local exit does to the special bindings of its thread        *)
(* (kernel/Frame.cpp, let.cpp and Thread.cpp).                             *)
(*                                                                         *)
(* The exits are those of module ControlStack.  A control frame has the    *)
(* index of the binding stack at the time its form was entered.  The exit  *)
(* runs all cleanup forms with the bindings of the place it started from   *)
(* and then unbinds to the index of the frame it goes to, which is how the *)
(* let forms that it skips are undone.                                     *)
(***************************************************************************)
EXTENDS ControlStack

CONSTANT MaxLets      (* bound: let forms that are being evaluated           *)

ASSUME UnwindingAssumption == MaxLets \in Nat

VARIABLES
  bindings,        (* the binding stack: the let form of each binding        *)
  lets,            (* the let forms that are being evaluated, oldest first   *)
  marks            (* _last_special_binding of the frames                    *)

bind_vars == <<bindings, lets, marks>>
unw_vars == <<vars, bind_vars>>

GARBAGE == 0    (* an entry above the index that unbind_to() has exposed     *)

UnwInit ==
  /\ Init
  /\ bindings = << >>
  /\ lets = << >>
  /\ marks = << >>

(* unbind_to(): an index above the stack is taken as it is.                  *)
UnbindTo(n) ==
  [i \in 1 .. n |-> IF i <= Len(bindings) THEN bindings[i] ELSE GARBAGE]

(* Frame::init() for a frame that is entered, and Frame::clear() for one     *)
(* that is released; the index of a frame that no form has is left out.      *)
Marks(entered) ==
  LET live == {cstack'[k].frame : k \in {k \in DOMAIN cstack' : cstack'[k].kind \in AllKinds}}
  IN marks' = [f \in DOMAIN frames' |->
                 IF frames'[f] = Cleared \/ f \notin live THEN 0
                 ELSE IF f = entered THEN Len(bindings) ELSE marks[f]]

(* No let form is being evaluated inside the form on top.                    *)
LetsLeft == \A i \in DOMAIN lets : lets[i].depth < Len(cstack)

(* let with one special variable; bound: at most one let form between two    *)
(* control forms.                                                            *)
let ==
  /\ Running
  /\ LetsLeft
  /\ Len(lets) < MaxLets
  /\ lets' = Append(lets, [depth |-> Len(cstack), mark |-> Len(bindings)])
  /\ bindings' = Append(bindings, Len(lets) + 1)
  /\ UNCHANGED <<vars, marks>>

leave_let ==
  /\ Running
  /\ lets # << >> /\ Last(lets).depth = Len(cstack)
  /\ bindings' = UnbindTo(Last(lets).mark)
  /\ lets' = Front(lets)
  /\ UNCHANGED <<vars, marks>>

enter_form(kind, n) ==
  /\ enter(kind, n)
  /\ Marks(NextFrame)
  /\ UNCHANGED <<bindings, lets>>

(* The normal ends, which leave the bindings to the let forms.               *)
leave_form ==
  /\ LetsLeft
  /\ leave_block \/ leave_tagbody \/ leave_unwind_protect \/ end_unwind_protect
  /\ Marks(NULL)
  /\ UNCHANGED <<bindings, lets>>

exit_form ==
  /\ \/ \E k \in DOMAIN cstack : return_from(k) \/ go(k)
     \/ \E n \in Names : throw(n)
     \/ reset
  /\ UNCHANGED bind_vars

(* The loop of RT_unwind_to().                                               *)
unwind_loop ==
  /\ unwind_release \/ unwind_cleanup_code \/ unwind_cleanup_form \/ unwind_cleanup_done
  /\ Marks(NULL)
  /\ UNCHANGED <<bindings, lets>>

(* A cleanup form or the cleanup code returns to RT_unwind_to().             *)
cleanup_end ==
  /\ LetsLeft
  /\ cleanup_returns
  /\ UNCHANGED <<bindings, lets, marks>>

(* Mutant: restore_frame_context() leaves the bindings alone.                *)
RestoreBindings_not(n) == bindings' = bindings

(* set_last_special_binding() of restore_frame_context().                    *)
RestoreBindings(n) == bindings' = UnbindTo(n)

(* The jump skips the let forms inside the form that it goes to.             *)
jump_to ==
  /\ jump
  /\ RestoreBindings(marks[Top.target])
  /\ lets' = [i \in {i \in DOMAIN lets : lets[i].depth < frames[Top.target].jmp} |-> lets[i]]
  /\ Marks(NULL)

(* The frame of main() was made before any binding.                          *)
jump_to_main ==
  /\ jump_reset
  /\ RestoreBindings(0)
  /\ lets' = << >>
  /\ Marks(NULL)

UnwNext ==
  \/ let \/ leave_let
  \/ \E kind \in FormKinds, n \in Names : enter_form(kind, n)
  \/ leave_form \/ exit_form
  \/ unwind_loop \/ cleanup_end
  \/ jump_to \/ jump_to_main

UnwSpec == UnwInit /\ [][UnwNext]_unw_vars

------------------------------------------------------------------------------
(* Properties.                                                               *)

(* The bindings are those of the let forms that are being evaluated, in the  *)
(* order in which these were entered: every exit, of whatever kind, from     *)
(* cleanup forms too and through forms whose frames are reused, undoes the   *)
(* let forms that it skips and no other.  Cleanup forms run with the         *)
(* bindings of the exit, those of skipped let forms included.                *)
BindingsAreOfLets == bindings = [i \in DOMAIN lets |-> i]

==============================================================================
