------------------------------ MODULE MCNotif ------------------------------
(* Model checking instance of Notif: two intercepted calls.                 *)
EXTENDS Notif

CONSTANTS n1, n2

TwoCalls == {n1, n2}
=============================================================================
