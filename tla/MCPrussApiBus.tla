---------------------------- MODULE MCPrussApiBus ----------------------------
(***************************************************************************)
(* Instances of PrussApiBus: two PRUs whose firmware uses the ports of the *)
(* examples, and a third (of a second PRU-ICSS) that announces the port of *)
(* the first.                                                              *)
(***************************************************************************)
EXTENDS PrussApiBus

CONSTANTS pru0, pru1, pru2_0

ChansDef == {pru0, pru1, pru2_0}
PortDef  == [c \in ChansDef |-> IF c = pru1 THEN 31 ELSE 30]
=============================================================================
