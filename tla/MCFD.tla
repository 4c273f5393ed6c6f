-------------------------------- MODULE MCFD --------------------------------
(* Model checking instances of FD: three goroutines, of which g1 created   *)
(* the FD, and the 32-bit word scaled down to five bits.                   *)
EXTENDS FD

CONSTANTS g1, g2, g3

ThreeGoroutines == {g1, g2, g3}
NoHasty == {}
=============================================================================
