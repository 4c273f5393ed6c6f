---------------------------- MODULE MCLifecycle ----------------------------
(* Model checking instances of Lifecycle: a root process and one child, and *)
(* up to three intercepted calls.                                          *)
EXTENDS Lifecycle

CONSTANTS root, child, h1, h2, h3

OneProc == {root}
TwoProcs == {root, child}
TwoHandlers == {h1, h2}
ThreeHandlers == {h1, h2, h3}

AllOps == Exits \cup Makes \cup Uses \cup {"close"}
OpenOps == {"socket", "connect", "close"}
DupOps == {"socket", "dup"}
GroupOnly == {"exit_group"}
=============================================================================
