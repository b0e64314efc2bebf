------------------------------ MODULE MCPrussd ------------------------------
(* Instances of Prussd for TLC: the shapes of the messages the PRU sends.  *)
EXTENDS Prussd

Terminated == {<<TRUE>>}
AlsoUnterminated == {<<TRUE>>, <<FALSE>>}
=============================================================================
