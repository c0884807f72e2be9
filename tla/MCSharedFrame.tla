---------------------------- MODULE MCSharedFrame ----------------------------
(***************************************************************************)
(* Instances of SharedFrame for TLC: e1 and e2 wait for the event, p1      *)
(* polls.  Every bound is a CONSTANT of SharedFrame that guards an action; *)
(* the configurations give it its value and constrain nothing else.        *)
(***************************************************************************)
EXTENDS SharedFrame, TLC

\* The waiting clients are interchangeable (for invariants only).
WaiterSymmetry == Permutations(Clients \ Pollers)
=============================================================================
