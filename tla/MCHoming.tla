------------------------------ MODULE MCHoming ------------------------------
(* Homing for TLC: X and Z, with the probe as Z's own endstop, and a driver *)
(* whose stall detection is the endstop at the other end.                   *)
EXTENDS Homing

CONSTANT z
MCDriversOf == [e \in Endstops |-> IF e = <<Z, "reverse">> THEN {z} ELSE {}]
MCTwice == Endstops \ {<<Z, "reverse">>}
=============================================================================
