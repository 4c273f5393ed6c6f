------------------------------- MODULE Notif -------------------------------
(***************************************************************************)
(* cmd/run/engine/seccomp/seccomp.go: the life of a seccomp notification   *)
(* between the kernel, the listener's Receive, one reply (Skip, Return or  *)
(* AddFD), and Listener.Close.  The tracee may be interrupted, or killed,  *)
(* at any time, which makes its notification vanish.                       *)
(*                                                                         *)
(* A notification is replied to by its handler, and maybe once more: after *)
(* a panic of the handler the engine's safe mode skips it again.           *)
(***************************************************************************)
EXTENDS Integers, FiniteSets

CONSTANT Notification  \* intercepted system calls

ASSUME NotifAssumption == IsFiniteSet(Notification)

VARIABLES kern,     \* the kernel's side: "none", "trapped", "sent" or "over"
          told,     \* what the tracee's call returned
          added,    \* a descriptor was added to the tracee's table
          status,   \* Notif.state
          pc,       \* the goroutine that works on the notification
          op,       \* the reply it makes
          again,    \* it is the second reply, of safe mode
          listener, \* the listener's OS file: "open", "closing" or "closed"
          refs,     \* references to the listener's FD
          sendFlag  \* the kernel knows SECCOMP_ADDFD_FLAG_SEND (5.14 and later)

vars == <<kern, told, added, status, pc, op, again, listener, refs, sendFlag>>

Ops == {"skip", "return", "addfd"}

Init == /\ kern = [n \in Notification |-> "none"]
        /\ told = [n \in Notification |-> "nothing"]
        /\ added = [n \in Notification |-> FALSE]
        /\ status = [n \in Notification |-> "Received"]
        /\ pc = [n \in Notification |-> "idle"]
        /\ op = [n \in Notification |-> "skip"]
        /\ again = [n \in Notification |-> FALSE]
        /\ listener = "open"
        /\ refs = 0
        /\ sendFlag \in BOOLEAN

Goto(n, label) == pc' = [pc EXCEPT ![n] = label]
-----------------------------------------------------------------------------
(* The kernel and the tracee.                                               *)

\* A call traps; it gets ENOSYS at once when nobody listens any more.
Trap(n) ==
    /\ kern[n] = "none"
    /\ IF listener = "closed"
       THEN /\ kern' = [kern EXCEPT ![n] = "over"]
            /\ told' = [told EXCEPT ![n] = "ENOSYS"]
       ELSE kern' = [kern EXCEPT ![n] = "trapped"] /\ UNCHANGED told
    /\ UNCHANGED <<added, status, pc, op, again, listener, refs, sendFlag>>

\* A signal takes the thread out of the call: the notification is invalid.
Interrupt(n) ==
    /\ kern[n] \in {"trapped", "sent"}
    /\ kern' = [kern EXCEPT ![n] = "over"]
    /\ told' = [told EXCEPT ![n] = "EINTR"]
    /\ UNCHANGED <<added, status, pc, op, again, listener, refs, sendFlag>>
-----------------------------------------------------------------------------
(* Receive.                                                                 *)

\* receiveSingle: SECCOMP_IOCTL_NOTIF_RECV under a reference of its own, which it
\* may have taken before the listener was marked.
ReceiveSingle(n) ==
    /\ kern[n] = "trapped"
    /\ pc[n] = "idle"
    /\ listener # "closed"
    /\ kern' = [kern EXCEPT ![n] = "sent"]
    /\ Goto(n, "fetched")
    /\ UNCHANGED <<told, added, status, op, again, listener, refs, sendFlag>>

\* The second IncRef of Receive, to be dropped by the reply.
ReceiveRef(n) ==
    /\ pc[n] = "fetched"
    /\ IF listener = "open"
       THEN /\ refs' = refs + 1
            /\ \E o \in Ops : op' = [op EXCEPT ![n] = o]
            /\ Goto(n, "claim")
       ELSE Goto(n, "done") /\ UNCHANGED <<refs, op>>
    /\ UNCHANGED <<kern, told, added, status, again, listener, sendFlag>>
-----------------------------------------------------------------------------
(* The reply.                                                               *)

\* The compare-and-swap of Received for Replying: a second reply ends here.
ClaimBlindly(n) == TRUE
ClaimTwice(n) == status[n] = "Replying"
Claimable(n) == status[n] = "Received"
Claim(n) ==
    /\ pc[n] = "claim"
    /\ IF Claimable(n)
       THEN /\ status' = [status EXCEPT ![n] = "Replying"]
            /\ Goto(n, IF op[n] = "addfd" THEN "add" ELSE "send")
       ELSE Goto(n, "done") /\ UNCHANGED status
    /\ UNCHANGED <<kern, told, added, op, again, listener, refs, sendFlag>>

\* The state an ioctl leaves: what was replied to must be Replying.
Settle(n, to) ==
    status' = [status EXCEPT ![n] = IF @ = "Replying" THEN to ELSE @]

\* How SECCOMP_IOCTL_NOTIF_SEND and _ADDFD end: ENOENT for an invalid
\* notification, and some other error on a closed listener, or when the kernel
\* refuses a valid one: EMFILE for a tracee that may open no more files, EINTR
\* of the ioctl itself.  Such an error leaves the tracee without an answer.
Optimist(n, refused) == "Replied"
Outcome(n, refused) == IF listener = "closed" \/ refused THEN "Error"
                       ELSE IF kern[n] = "sent" THEN "Replied" ELSE "Cancelled"

\* sendInner, and the deferred DecRef of send or AddFD.
SendInner(n) ==
    /\ pc[n] = "send"
    /\ \E refused \in BOOLEAN :
          /\ IF listener # "closed" /\ kern[n] = "sent" /\ ~refused
             THEN /\ kern' = [kern EXCEPT ![n] = "over"]
                  /\ told' = [told EXCEPT ![n] = IF op[n] = "skip" THEN "continue"
                                                 ELSE IF op[n] = "addfd" THEN "fd" ELSE "value"]
             ELSE UNCHANGED <<kern, told>>
          /\ Settle(n, Outcome(n, refused))
    /\ refs' = refs - 1
    /\ Goto(n, "done")
    /\ UNCHANGED <<added, op, again, listener, sendFlag>>

\* Whether SECCOMP_IOCTL_NOTIF_ADDFD replies too.
NeverAtOnce(n) == FALSE
AtOnce(n) == sendFlag

\* SECCOMP_IOCTL_NOTIF_ADDFD, which replies in the same step when it can.  The
\* descriptor is one the handler has just made, so that its IncRef succeeds.
AddFD(n) ==
    /\ pc[n] = "add"
    /\ \E refused \in BOOLEAN :
          IF listener # "closed" /\ kern[n] = "sent" /\ ~refused
          THEN /\ added' = [added EXCEPT ![n] = TRUE]
               /\ IF AtOnce(n)
                  THEN /\ kern' = [kern EXCEPT ![n] = "over"]
                       /\ told' = [told EXCEPT ![n] = "fd"]
                       /\ Settle(n, "Replied")
                       /\ refs' = refs - 1
                       /\ Goto(n, "done")
                  ELSE Goto(n, "send") /\ UNCHANGED <<kern, told, status, refs>>
          ELSE /\ Settle(n, Outcome(n, refused))
               /\ refs' = refs - 1
               /\ Goto(n, "done")
               /\ UNCHANGED <<kern, told, added>>
    /\ UNCHANGED <<op, again, listener, sendFlag>>

\* Safe mode skips the pending notification of a worker that panicked, whether
\* it had been replied to or not.
SafeModeSkip(n) ==
    /\ pc[n] \in {"claim", "done"}
    /\ ~again[n]
    /\ pc[n] = "done" => status[n] # "Received"
    /\ again' = [again EXCEPT ![n] = TRUE]
    /\ op' = [op EXCEPT ![n] = "skip"]
    /\ Goto(n, "claim")
    /\ UNCHANGED <<kern, told, added, status, listener, refs, sendFlag>>
-----------------------------------------------------------------------------
(* Listener.Close.                                                          *)

\* ClosingIncRef.
ListenerMark == /\ listener = "open"
                /\ listener' = "closing"
                /\ refs' = refs + 1
                /\ UNCHANGED <<kern, told, added, status, pc, op, again, sendFlag>>

\* close(2) without Lock, and the DecRef.  The kernel ends the calls that still
\* wait with ENOSYS.
ListenerClose ==
    /\ listener = "closing"
    /\ listener' = "closed"
    /\ refs' = refs - 1
    /\ kern' = [n \in Notification |->
                   IF kern[n] \in {"trapped", "sent"} THEN "over" ELSE kern[n]]
    /\ told' = [n \in Notification |->
                   IF kern[n] \in {"trapped", "sent"} THEN "ENOSYS" ELSE told[n]]
    /\ UNCHANGED <<added, status, pc, op, again, sendFlag>>
-----------------------------------------------------------------------------
Work(n) == ReceiveSingle(n) \/ ReceiveRef(n) \/ Claim(n) \/ SendInner(n) \/ AddFD(n)

Next == \/ \E n \in Notification :
              Trap(n) \/ Interrupt(n) \/ Work(n) \/ SafeModeSkip(n)
        \/ ListenerMark
        \/ ListenerClose

Spec == Init /\ [][Next]_vars

\* The engine keeps receiving and its handlers reply.
FairSpec == Spec /\ \A n \in Notification : WF_vars(Work(n))
                 /\ WF_vars(ListenerClose)
-----------------------------------------------------------------------------
Statuses == {"Received", "Replying", "Replied", "Cancelled", "Error"}
Answers == {"continue", "value", "fd"}

\* The type invariant of both sides of a notification.
TypeOK == /\ kern \in [Notification -> {"none", "trapped", "sent", "over"}]
          /\ told \in [Notification -> {"nothing", "EINTR", "ENOSYS"} \cup Answers]
          /\ added \in [Notification -> BOOLEAN]
          /\ status \in [Notification -> Statuses]
          /\ pc \in [Notification -> {"idle", "fetched", "claim", "add", "send", "done"}]
          /\ op \in [Notification -> Ops]
          /\ again \in [Notification -> BOOLEAN]
          /\ listener \in {"open", "closing", "closed"}
          /\ refs \in Nat
          /\ sendFlag \in BOOLEAN

\* The reference that Receive takes is dropped exactly once, by the reply that
\* claimed the notification, whatever the ioctl says: the count of the
\* listener's FD is that of the notifications under way and of its closer.
Outstanding == {n \in Notification : pc[n] \in {"claim", "add", "send"}
                                     /\ status[n] \in {"Received", "Replying"}}
RefBalance == refs = Cardinality(Outstanding) + IF listener = "closing" THEN 1 ELSE 0

\* Subtrace and the tracee agree: a notification is Replied exactly when the
\* tracee got our answer, and one it was interrupted in ends Cancelled.
StatusTruth ==
    \A n \in Notification :
       /\ status[n] = "Replied" <=> told[n] \in Answers
       /\ status[n] = "Cancelled" => told[n] \in {"EINTR", "ENOSYS"}

\* "the tracee is guaranteed to be aware of all file descriptors we install":
\* from Linux 5.14 on.  Before, a signal between the two ioctls of AddFD leaves
\* a descriptor that the tracee does not know of.
NoDanglingFD ==
    sendFlag => \A n \in Notification : added[n] /\ pc[n] = "done" => told[n] = "fd"

\* A call that is received ends, one way or the other, unless the kernel refuses
\* the ioctl of its reply: nobody tries again, and the tracee hangs until a
\* signal or the end of subtrace takes it out of the call.
ReceivedEnds ==
    \A n \in Notification : kern[n] = "sent" ~> kern[n] = "over" \/ status[n] = "Error"

\* Somebody will end it.  A received call that the tracee still waits in is
\* with the goroutine that received it, with the one reply that claimed it or
\* still can, or with the closing of the listener; or its reply was refused.
Unanswered(n) == \/ pc[n] = "fetched"
                 \/ pc[n] = "claim" /\ status[n] = "Received"
                 \/ pc[n] \in {"add", "send"} /\ status[n] = "Replying" /\ refs > 0
                 \/ pc[n] = "done" /\ listener = "closing"
AnswerUnderWay ==
    \A n \in Notification : kern[n] = "sent" => Unanswered(n) \/ status[n] = "Error"
-----------------------------------------------------------------------------
(* Refinement: what a tracee sees of its call.                              *)

CallStage == [n \in Notification |->
                 IF kern[n] # "over" THEN kern[n]
                 ELSE IF told[n] \in Answers THEN "answered" ELSE "aborted"]

\* Whoever received it, the reply that may still claim it, and the one that has.
InHand == {n \in Notification :
              \/ pc[n] = "fetched"
              \/ pc[n] = "claim" /\ status[n] = "Received"
              \/ pc[n] \in {"add", "send"}}

Tracee == INSTANCE TracedCall WITH stage <- CallStage, hands <- InHand

\* The two ioctls, the second reply of safe mode and the closing of the listener
\* together answer a call at most once, and only one that was received: a reply
\* that comes second finds nothing to claim.
ImplementsTracedCall == Tracee!CSpec
=============================================================================
