----------------------------- MODULE MCDevTools -----------------------------
(* Model checking instances of DevTools: a page with a few websockets.      *)
EXTENDS DevTools

CONSTANTS c1, c2, c3

TwoConns == {c1, c2}
ThreeConns == {c1, c2, c3}
=============================================================================
