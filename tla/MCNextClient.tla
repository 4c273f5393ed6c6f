---------------------------- MODULE MCNextClient ----------------------------
(* Model checking instances of NextClient: a few traced calls.              *)
EXTENDS NextClient

CONSTANTS f1, f2, f3

OneCall == {f1}
TwoCalls == {f1, f2}
ThreeCalls == {f1, f2, f3}
=============================================================================
