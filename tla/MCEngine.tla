------------------------------ MODULE MCEngine ------------------------------
(* Model checking instance of Engine: two CPUs and three calls.              *)
EXTENDS Engine

CONSTANTS n1, n2, n3, w1, w2

ThreeCalls == {n1, n2, n3}
TwoWorkers == {w1, w2}

AllFaults == {"block", "error", "refuse", "panic"}
=============================================================================
