---------------------------- MODULE MCEventQueue ----------------------------
(***************************************************************************)
(* Instances of EventQueue for TLC: events without an argument take one    *)
(* unit, those of the tone generator and detector two.                     *)
(***************************************************************************)
EXTENDS EventQueue

WithArgument == {2}
=============================================================================
