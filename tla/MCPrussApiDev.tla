--------------------------- MODULE MCPrussApiDev ---------------------------
(* Instances of PrussApiDev for TLC: three slots of two bytes each, so that *)
(* the cyclic indices wrap and the table fills, and messages of 0, 1 and 2  *)
(* bytes (or 1 and 2), so that two messages differ in length.               *)
EXTENDS PrussApiDev

LensWithZero == 0 .. 2
LensNonZero == 1 .. 2
=============================================================================
