------------------------------ MODULE MCSocket ------------------------------
(* Model checking instances of Socket: two to four calls on one inode.      *)
EXTENDS Socket, TLC

CONSTANTS c1, c2, c3, c4

TwoCalls == {c1, c2}
ThreeCalls == {c1, c2, c3}
FourCalls == {c1, c2, c3, c4}

Sym3 == Permutations(ThreeCalls)
Sym4 == Permutations(FourCalls)

LifeOps == {"connect", "bind", "getsockname", "dup", "close"}
LiveOps == {"connect", "bind", "getsockname", "close"}
AllOps == Operations
ForkOps == {"import", "close"}
ConnectOnly == {"connect"}
AnyMode == BOOLEAN
BlockingOnly == {TRUE}
GoodDial == {"ok"}
AnyDial == {"ok", "refused"}
OddDial == {"ok", "refused", "unknown"}
NoFaults == {}
AllFaults == {"dummy", "cancel", "loop"}

\* Four calls that connect, bind, name, duplicate and close, or any three.
ThreeOrPlain == (\E c \in Call : call[c].op \notin LifeOps \cup {"none"})
                    => \E c \in Call : call[c].op = "none"
=============================================================================
