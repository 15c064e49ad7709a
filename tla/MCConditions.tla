---------------------------- MODULE MCConditions ----------------------------
(* A cluster of a handler for c and one for both conditions, and a cluster   *)
(* of one handler for d.                                                     *)
EXTENDS Conditions

CONSTANTS c, d

TwoClusters == {<<{c}, {c, d}>>, <<{d}>>}

=============================================================================
