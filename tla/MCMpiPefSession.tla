--------------------------- MODULE MCMpiPefSession ---------------------------
(* MpiPefSession on two ranks: two parameter sets of one engine library and  *)
(* one of another.                                                           *)
EXTENDS MpiPefSession

CONSTANTS p0, p1, p2, lib, otherlib, water

MCPathOf == [p \in Params |-> IF p = p2 THEN otherlib ELSE lib]
=============================================================================
