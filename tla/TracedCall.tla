----------------------------- MODULE TracedCall -----------------------------
(***************************************************************************)
(* What subtrace promises a program whose system calls it intercepts: a    *)
(* call that traps is received once, by one hand, and answered at most     *)
(* once, by that hand and while it still waits; after the answer nobody is *)
(* left who can answer it again, though a goroutine may still pass the     *)
(* call around.  A call ends without an answer when a signal or the end of *)
(* the tracer takes it out of the kernel, and a hand may give a call up    *)
(* that has ended, whose handler has failed, or whose answer the kernel    *)
(* has refused.                                                            *)
(* Notif.tla and Engine.tla both keep the promise, the one for the ioctls  *)
(* of a reply and the other for the goroutines that may give one.          *)
(***************************************************************************)

CONSTANT Notification

VARIABLES stage,  \* "none", "trapped", "sent", "answered" or "aborted"
          hands   \* the calls that somebody can still answer

CInit == /\ stage = [n \in Notification |-> "none"]
         /\ hands = {}

\* The call of a tracee traps, or is refused because nobody listens any more.
CTrap(n) == /\ stage[n] = "none"
            /\ \/ stage' = [stage EXCEPT ![n] = "trapped"]
               \/ stage' = [stage EXCEPT ![n] = "aborted"]
            /\ UNCHANGED hands

\* The engine receives its notification.
CReceive(n) == /\ stage[n] = "trapped"
               /\ stage' = [stage EXCEPT ![n] = "sent"]
               /\ hands' = hands \cup {n}

\* The one answer.
CAnswer(n) == /\ stage[n] = "sent" /\ n \in hands
              /\ stage' = [stage EXCEPT ![n] = "answered"]
              /\ hands' = hands \ {n}

\* The end of the attempt to answer without an answer.
CGiveUp(n) == /\ n \in hands
              /\ hands' = hands \ {n}
              /\ UNCHANGED stage

\* Calls end without an answer, those that wait together when the listener goes.
CAbort(calls) ==
    /\ \A n \in calls : stage[n] \in {"trapped", "sent"}
    /\ stage' = [n \in Notification |-> IF n \in calls THEN "aborted" ELSE stage[n]]
    /\ UNCHANGED hands

CNext == \/ \E n \in Notification : CTrap(n) \/ CReceive(n) \/ CAnswer(n) \/ CGiveUp(n)
         \/ \E calls \in SUBSET Notification : CAbort(calls)

CSpec == CInit /\ [][CNext]_<<stage, hands>>
=============================================================================
