-------------------------- MODULE MCStepperControl --------------------------
(* Instances of StepperControl for TLC: moves that differ in everything.   *)
EXTENDS StepperControl

Cmd(on, total, pulses, p) == [on |-> on, total |-> total, pulses |-> pulses, pins |-> p]

\* Words of two bits.
Moves == {Cmd(1, 2, 2, "cw"), Cmd(1, 3, 1, "ccw"), Cmd(2, 3, 2, "ccw")}
=============================================================================
