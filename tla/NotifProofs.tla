----------------------------- MODULE NotifProofs -----------------------------
(***************************************************************************)
(* The safety of cmd/run/engine/seccomp/seccomp.go for any number of       *)
(* intercepted calls: NotifInv is inductive, and the reference count, the  *)
(* agreement with the tracee and the atomicity of AddFD follow.            *)
(***************************************************************************)
EXTENDS Notif, FiniteSetTheorems, TLAPS
-----------------------------------------------------------------------------
(* The inductive invariant.                                                 *)

\* Where the goroutine of a notification is, by the notification's state.
StageInv ==
    \A n \in Notification :
        /\ pc[n] \in {"idle", "fetched"} => status[n] = "Received"
        /\ pc[n] \in {"add", "send"} <=> status[n] = "Replying"
        /\ pc[n] # "idle" => kern[n] \in {"sent", "over"}

\* The kernel has told the tracee something exactly when the call is over.
ToldInv ==
    /\ \A n \in Notification : kern[n] = "over" <=> told[n] # "nothing"
    /\ \A n \in Notification : listener = "closed" => kern[n] \in {"none", "over"}

\* A kernel that replies at once never has a descriptor without a reply.
AddedInv == sendFlag => \A n \in Notification : added[n] => told[n] = "fd"

NotifInv == TypeOK /\ StageInv /\ ToldInv /\ AddedInv /\ RefBalance /\ StatusTruth
-----------------------------------------------------------------------------
\* How a step changes the references: the notifications that hold one
\* change by at most one element.
LEMMA OutstandingFinite ==
    /\ IsFiniteSet(Outstanding)
    /\ Cardinality(Outstanding) \in Nat
<1>1. Outstanding \in SUBSET Notification
  BY DEF Outstanding
<1>2. QED
  BY <1>1, FS_Subset, FS_CardinalityType, NotifAssumption DEF NotifAssumption

LEMMA TakeRef ==
    ASSUME RefBalance, UNCHANGED listener, refs' = refs + 1,
           NEW n \in Notification, n \notin Outstanding,
           Outstanding' = Outstanding \cup {n}
    PROVE  RefBalance'
<1>1. Cardinality(Outstanding') = Cardinality(Outstanding) + 1
  BY OutstandingFinite, FS_AddElement
<1>2. QED
  BY <1>1, OutstandingFinite DEF RefBalance

LEMMA DropRef ==
    ASSUME RefBalance, UNCHANGED listener, refs' = refs - 1,
           NEW n \in Notification, n \in Outstanding,
           Outstanding' = Outstanding \ {n}
    PROVE  RefBalance'
<1>1. Cardinality(Outstanding') = Cardinality(Outstanding) - 1
  BY OutstandingFinite, FS_RemoveElement
<1>2. QED
  BY <1>1, OutstandingFinite DEF RefBalance

LEMMA KeepRefs ==
    ASSUME RefBalance, UNCHANGED <<listener, refs>>, Outstanding' = Outstanding
    PROVE  RefBalance'
BY DEF RefBalance

LEMMA InitInv == Init => NotifInv
<1> SUFFICES ASSUME Init
             PROVE  NotifInv
  OBVIOUS
<1>1. TypeOK /\ StageInv /\ ToldInv /\ AddedInv /\ StatusTruth
  BY DEF Init, TypeOK, StageInv, ToldInv, AddedInv, StatusTruth, Statuses, Answers, Ops
<1>2. Outstanding = {}
  BY DEF Init, Outstanding
<1>3. RefBalance
  BY <1>2, FS_EmptySet DEF Init, RefBalance
<1>4. QED
  BY <1>1, <1>3 DEF NotifInv

\* The environment: a call traps, a signal ends one.
LEMMA KernelStep ==
    ASSUME NotifInv, NEW n \in Notification, Trap(n) \/ Interrupt(n)
    PROVE  NotifInv'
<1>0. TypeOK /\ StageInv /\ ToldInv /\ AddedInv /\ StatusTruth /\ RefBalance
  BY DEF NotifInv
<1>1. UNCHANGED <<added, status, pc, op, again, listener, refs, sendFlag>>
  BY DEF Trap, Interrupt
<1>2. TypeOK'
  BY <1>0, <1>1 DEF Trap, Interrupt, TypeOK
<1>3. StageInv'
  BY <1>0, <1>1 DEF Trap, Interrupt, TypeOK, StageInv
<1>4. ToldInv'
  BY <1>0, <1>1 DEF Trap, Interrupt, TypeOK, ToldInv
<1>5. AddedInv' /\ StatusTruth'
  BY <1>0, <1>1 DEF Trap, Interrupt, TypeOK, ToldInv, StageInv, AddedInv, StatusTruth, Answers
<1>6. RefBalance'
  BY <1>0, <1>1, KeepRefs DEF Outstanding
<1>7. QED
  BY <1>2, <1>3, <1>4, <1>5, <1>6 DEF NotifInv

LEMMA ReceiveStep ==
    ASSUME NotifInv, NEW n \in Notification, ReceiveSingle(n) \/ ReceiveRef(n)
    PROVE  NotifInv'
<1>0. TypeOK /\ StageInv /\ ToldInv /\ AddedInv /\ StatusTruth /\ RefBalance
  BY DEF NotifInv
<1>1. CASE ReceiveSingle(n)
  <2>1. TypeOK'
    BY <1>0, <1>1 DEF ReceiveSingle, Goto, TypeOK
  <2>2. StageInv' /\ ToldInv' /\ AddedInv' /\ StatusTruth'
    BY <1>0, <1>1
    DEF ReceiveSingle, Goto, TypeOK, StageInv, ToldInv, AddedInv, StatusTruth
  <2>3. Outstanding' = Outstanding
    BY <1>0, <1>1 DEF ReceiveSingle, Goto, TypeOK, Outstanding
  <2>4. QED
    BY <1>0, <1>1, <2>1, <2>2, <2>3, KeepRefs DEF NotifInv, ReceiveSingle
<1>2. CASE ReceiveRef(n)
  <2>1. TypeOK'
    BY <1>0, <1>2 DEF ReceiveRef, Goto, TypeOK
  <2>2. StageInv' /\ ToldInv' /\ AddedInv' /\ StatusTruth'
    BY <1>0, <1>2
    DEF ReceiveRef, Goto, TypeOK, StageInv, ToldInv, AddedInv, StatusTruth
  <2>3. CASE listener = "open"
    <3>1. Outstanding' = Outstanding \cup {n} /\ n \notin Outstanding
      BY <1>0, <1>2, <2>3 DEF ReceiveRef, Goto, TypeOK, StageInv, Outstanding
    <3>2. QED
      BY <1>0, <1>2, <2>1, <2>2, <2>3, <3>1, TakeRef DEF NotifInv, ReceiveRef
  <2>4. CASE listener # "open"
    <3>1. Outstanding' = Outstanding
      BY <1>0, <1>2, <2>4 DEF ReceiveRef, Goto, TypeOK, Outstanding
    <3>2. QED
      BY <1>0, <1>2, <2>1, <2>2, <2>4, <3>1, KeepRefs DEF NotifInv, ReceiveRef
  <2>5. QED
    BY <2>3, <2>4
<1>3. QED
  BY <1>1, <1>2

\* A claim, and the second reply of safe mode, keep the reference where it is.
LEMMA ClaimStep ==
    ASSUME NotifInv, NEW n \in Notification, Claim(n) \/ SafeModeSkip(n)
    PROVE  NotifInv'
<1>0. TypeOK /\ StageInv /\ ToldInv /\ AddedInv /\ StatusTruth /\ RefBalance
  BY DEF NotifInv
<1>1. UNCHANGED <<kern, told, added, listener, refs, sendFlag>>
  BY DEF Claim, SafeModeSkip
<1>2. TypeOK'
  BY <1>0, <1>1 DEF Claim, SafeModeSkip, Goto, TypeOK, Statuses, Ops
<1>3. StageInv'
  BY <1>0, <1>1 DEF Claim, SafeModeSkip, Goto, Claimable, TypeOK, StageInv
<1>4. ToldInv' /\ AddedInv'
  BY <1>0, <1>1 DEF ToldInv, AddedInv
<1>5. StatusTruth'
  BY <1>0, <1>1 DEF Claim, SafeModeSkip, Claimable, TypeOK, StatusTruth
<1>6. Outstanding' = Outstanding
  BY <1>0, <1>1
  DEF Claim, SafeModeSkip, Goto, Claimable, TypeOK, StageInv, Outstanding
<1>7. RefBalance'
  BY <1>0, <1>1, <1>6, KeepRefs
<1>8. QED
  BY <1>2, <1>3, <1>4, <1>5, <1>7 DEF NotifInv

\* The ioctls of a reply.
LEMMA ReplyStep ==
    ASSUME NotifInv, NEW n \in Notification, SendInner(n) \/ AddFD(n)
    PROVE  NotifInv'
<1>0. TypeOK /\ StageInv /\ ToldInv /\ AddedInv /\ StatusTruth /\ RefBalance
  BY DEF NotifInv
<1>1. /\ pc[n] \in {"add", "send"} /\ status[n] = "Replying"
      /\ kern[n] \in {"sent", "over"} /\ n \in Outstanding
      /\ UNCHANGED <<op, again, listener, sendFlag>>
  BY <1>0 DEF SendInner, AddFD, StageInv, Outstanding
<1>2. CASE AddFD(n) /\ pc'[n] = "send"
  <2>1. /\ pc' = [pc EXCEPT ![n] = "send"]
        /\ added' = [added EXCEPT ![n] = TRUE]
        /\ UNCHANGED <<kern, told, status, refs>>
        /\ ~sendFlag
    BY <1>0, <1>2 DEF AddFD, Goto, AtOnce, TypeOK
  <2>2. TypeOK' /\ StageInv'
    BY <1>0, <1>1, <2>1 DEF TypeOK, StageInv
  <2>3. ToldInv' /\ AddedInv' /\ StatusTruth'
    BY <1>0, <1>1, <2>1 DEF ToldInv, AddedInv, StatusTruth
  <2>4. Outstanding' = Outstanding
    BY <1>0, <1>1, <2>1 DEF Outstanding, TypeOK
  <2>5. QED
    BY <1>0, <1>1, <2>1, <2>2, <2>3, <2>4, KeepRefs DEF NotifInv
<1>3. CASE ~(AddFD(n) /\ pc'[n] = "send")
  <2>1. PICK s \in {"Replied", "Cancelled", "Error"} :
          /\ status' = [status EXCEPT ![n] = s]
          /\ pc' = [pc EXCEPT ![n] = "done"]
          /\ refs' = refs - 1
          /\ \/ /\ listener # "closed" /\ kern[n] = "sent" /\ s = "Replied"
                /\ kern' = [kern EXCEPT ![n] = "over"]
                /\ \E a \in Answers : /\ told' = [told EXCEPT ![n] = a]
                                      /\ added' = added \/ a = "fd"
                /\ added' = added \/ added' = [added EXCEPT ![n] = TRUE]
             \/ /\ s = "Error" \/ (s = "Cancelled" /\ kern[n] # "sent" /\ listener # "closed")
                /\ UNCHANGED <<kern, told, added>>
    <3>1. CASE SendInner(n)
      BY <1>0, <1>1, <3>1
      DEF SendInner, Settle, Outcome, Goto, TypeOK, Answers
    <3>2. CASE AddFD(n)
      BY <1>0, <1>1, <1>3, <3>2
      DEF AddFD, AtOnce, Settle, Outcome, Goto, TypeOK, Answers
    <3>3. QED
      BY <3>1, <3>2
  <2>2. Outstanding' = Outstanding \ {n}
    BY <1>0, <1>1, <2>1 DEF Outstanding, TypeOK
  <2>3. RefBalance'
    BY <1>0, <1>1, <2>1, <2>2, DropRef
  <2>4. TypeOK'
    <3>1. refs' \in Nat
      <4>1. Cardinality(Outstanding') \in Nat
        BY <2>2, OutstandingFinite, FS_RemoveElement, FS_CardinalityType
      <4>2. QED
        BY <2>3, <4>1, <1>0 DEF RefBalance, TypeOK
    <3>2. QED
      BY <1>0, <1>1, <2>1, <3>1 DEF TypeOK, Statuses, Answers
  <2>5. StageInv'
    BY <1>0, <1>1, <2>1 DEF StageInv, TypeOK
  <2>6. ToldInv'
    BY <1>0, <1>1, <2>1 DEF ToldInv, TypeOK, Answers
  <2>7. AddedInv'
    BY <1>0, <1>1, <2>1 DEF AddedInv, ToldInv, TypeOK
  <2>8. StatusTruth'
    BY <1>0, <1>1, <2>1 DEF StatusTruth, ToldInv, TypeOK, Answers
  <2>9. QED
    BY <2>3, <2>4, <2>5, <2>6, <2>7, <2>8 DEF NotifInv
<1>4. QED
  BY <1>2, <1>3

LEMMA ListenerStep ==
    ASSUME NotifInv, ListenerMark \/ ListenerClose
    PROVE  NotifInv'
<1>0. TypeOK /\ StageInv /\ ToldInv /\ AddedInv /\ StatusTruth /\ RefBalance
  BY DEF NotifInv
<1>1. UNCHANGED <<added, status, pc, op, again, sendFlag>>
  BY DEF ListenerMark, ListenerClose
<1>2. Outstanding' = Outstanding
  BY <1>1 DEF Outstanding
<1>3. RefBalance'
  BY <1>0, <1>2, OutstandingFinite DEF ListenerMark, ListenerClose, RefBalance
<1>4. TypeOK'
  <2>1. refs' \in Nat
    BY <1>2, <1>3, OutstandingFinite DEF RefBalance
  <2>2. QED
    BY <1>0, <1>1, <2>1 DEF ListenerMark, ListenerClose, TypeOK
<1>5. StageInv' /\ ToldInv'
  BY <1>0, <1>1 DEF ListenerMark, ListenerClose, TypeOK, StageInv, ToldInv
<1>6. AddedInv' /\ StatusTruth'
  BY <1>0, <1>1
  DEF ListenerMark, ListenerClose, TypeOK, ToldInv, AddedInv, StatusTruth, Answers
<1>7. QED
  BY <1>3, <1>4, <1>5, <1>6 DEF NotifInv

LEMMA StepInv == NotifInv /\ [Next]_vars => NotifInv'
<1> SUFFICES ASSUME NotifInv, [Next]_vars
             PROVE  NotifInv'
  OBVIOUS
<1>1. CASE Next
  BY <1>1, KernelStep, ReceiveStep, ClaimStep, ReplyStep, ListenerStep DEF Next, Work
<1>2. CASE UNCHANGED vars
  BY <1>2
  DEF vars, NotifInv, TypeOK, StageInv, ToldInv, AddedInv, RefBalance, Outstanding,
      StatusTruth
<1>3. QED
  BY <1>1, <1>2
-----------------------------------------------------------------------------
\* The inductive invariant of seccomp.go: who has claimed the notification,
\* what the kernel has told the tracee, and who holds a reference.
THEOREM Invariance == Spec => []NotifInv
BY InitInv, StepInv, PTL DEF Spec

\* Types, and the two sides' program counters, keep their ranges.
THEOREM TypeCorrect == Spec => []TypeOK
<1>1. NotifInv => TypeOK
  BY DEF NotifInv
<1>2. QED
  BY <1>1, Invariance, PTL

\* Receive's reference to the listener is dropped once per notification, by
\* the reply that claimed it, for any number of notifications.
THEOREM RefsBalanced == Spec => []RefBalance
<1>1. NotifInv => RefBalance
  BY DEF NotifInv
<1>2. QED
  BY <1>1, Invariance, PTL

\* Replied means that the tracee got our answer, Cancelled that it did not.
THEOREM Truthful == Spec => []StatusTruth
<1>1. NotifInv => StatusTruth
  BY DEF NotifInv
<1>2. QED
  BY <1>1, Invariance, PTL

\* From Linux 5.14 on, AddFD leaves no descriptor the tracee does not know of.
THEOREM NoStrayDescriptor == Spec => []NoDanglingFD
<1>1. NotifInv => NoDanglingFD
  BY DEF NotifInv, AddedInv, NoDanglingFD
<1>2. QED
  BY <1>1, Invariance, PTL
-----------------------------------------------------------------------------
(* A received call ends: the safety core of ReceivedEnds.                   *)

\* A notification that is Replied or Cancelled is over, and Receive drops one only
\* when the listener is on its way out.
EndInv ==
    \A n \in Notification :
        /\ status[n] \in {"Replied", "Cancelled"} => kern[n] = "over"
        /\ pc[n] = "done" /\ status[n] = "Received" => listener # "open"
        /\ pc[n] = "idle" => kern[n] # "sent"

LEMMA EndInit == Init => EndInv
BY DEF Init, EndInv

\* What the listener does moves towards the end only.
LEMMA ListenerLeaves ==
    ASSUME NotifInv, [Next]_vars
    PROVE  listener # "open" => listener' # "open"
BY DEF Next, vars, Trap, Interrupt, Work, ReceiveSingle, ReceiveRef, Claim, SendInner, AddFD,
       SafeModeSkip, ListenerMark, ListenerClose

LEMMA StepEnd ==
    ASSUME NotifInv, EndInv, [Next]_vars
    PROVE  EndInv'
<1>0. TypeOK /\ StageInv /\ ToldInv
  BY DEF NotifInv
<1>1. ASSUME NEW n \in Notification, Trap(n) \/ Interrupt(n)
      PROVE  EndInv'
  BY <1>0, <1>1 DEF Trap, Interrupt, EndInv, StageInv, TypeOK
<1>2. ASSUME NEW n \in Notification, ReceiveSingle(n) \/ ReceiveRef(n)
      PROVE  EndInv'
  BY <1>0, <1>2 DEF ReceiveSingle, ReceiveRef, Goto, EndInv, StageInv, TypeOK
<1>3. ASSUME NEW n \in Notification, Claim(n) \/ SafeModeSkip(n)
      PROVE  EndInv'
  BY <1>0, <1>3 DEF Claim, Claimable, SafeModeSkip, Goto, EndInv, StageInv, TypeOK
<1>4. ASSUME NEW n \in Notification, SendInner(n)
      PROVE  EndInv'
  BY <1>0, <1>4 DEF SendInner, Settle, Outcome, Goto, EndInv, StageInv, ToldInv, TypeOK
<1>5. ASSUME NEW n \in Notification, AddFD(n)
      PROVE  EndInv'
  BY <1>0, <1>5 DEF AddFD, AtOnce, Settle, Outcome, Goto, EndInv, StageInv, ToldInv, TypeOK
<1>6. CASE ListenerMark \/ ListenerClose
  BY <1>0, <1>6 DEF ListenerMark, ListenerClose, EndInv, TypeOK
<1>7. CASE UNCHANGED vars
  BY <1>7 DEF vars, EndInv
<1>8. QED
  BY <1>1, <1>2, <1>3, <1>4, <1>5, <1>6, <1>7 DEF Next, Work

\* A call that was received and still waits has a goroutine that is to reply, with
\* the reference it needs for it, or a closing listener, unless the kernel has refused
\* the reply: nobody else drops it.
THEOREM SomebodyAnswers == Spec => []AnswerUnderWay
<1>1. NotifInv /\ EndInv => AnswerUnderWay
  <2> SUFFICES ASSUME NotifInv, EndInv, NEW n \in Notification, kern[n] = "sent",
                      status[n] # "Error"
               PROVE  Unanswered(n)
    BY DEF AnswerUnderWay
  <2>1. /\ pc[n] \in {"fetched", "claim", "add", "send", "done"}
        /\ status[n] \in {"Received", "Replying"}
        /\ pc[n] \in {"add", "send"} <=> status[n] = "Replying"
        /\ listener \in {"open", "closing"}
    BY DEF NotifInv, TypeOK, Statuses, StageInv, ToldInv, EndInv
  <2>2. CASE pc[n] \in {"add", "send"}
    <3>1. n \in Outstanding
      BY <2>1, <2>2 DEF Outstanding
    <3>2. Cardinality(Outstanding) # 0
      BY <3>1, OutstandingFinite, FS_EmptySet
    <3>3. refs > 0
      BY <3>2, OutstandingFinite DEF NotifInv, RefBalance
    <3>4. QED
      BY <2>1, <2>2, <3>3 DEF Unanswered
  <2>3. CASE pc[n] \notin {"add", "send"}
    BY <2>1, <2>3 DEF EndInv, Unanswered
  <2>4. QED
    BY <2>2, <2>3
<1>2. QED
  BY <1>1, EndInit, StepEnd, Invariance, PTL DEF Spec
-----------------------------------------------------------------------------
(* Refinement: the tracee's call is answered at most once.                  *)

LEMMA StageIs ==
    ASSUME NEW n \in Notification
    PROVE  CallStage[n] = IF kern[n] # "over" THEN kern[n]
                          ELSE IF told[n] \in Answers THEN "answered" ELSE "aborted"
BY DEF CallStage

\* A step that changes one call changes its stage only.
LEMMA OneStage ==
    ASSUME TypeOK, NEW n \in Notification, NEW k, NEW t,
           kern' = [kern EXCEPT ![n] = k], told' = [told EXCEPT ![n] = t]
    PROVE  CallStage' = [CallStage EXCEPT
                           ![n] = IF k # "over" THEN k
                                  ELSE IF t \in Answers THEN "answered" ELSE "aborted"]
BY DEF TypeOK, CallStage

LEMMA WaitingStage ==
    ASSUME TypeOK, NEW n \in Notification, NEW k, k # "over",
           kern' = [kern EXCEPT ![n] = k], UNCHANGED told
    PROVE  CallStage' = [CallStage EXCEPT ![n] = k]
BY DEF TypeOK, CallStage

\* A step of the goroutine of n puts it into a hand, or takes it out of one.
Held(n) == n \in InHand
LEMMA HandMoves ==
    ASSUME TypeOK, NEW n \in Notification,
           \A m \in Notification \ {n} : pc'[m] = pc[m] /\ status'[m] = status[m]
    PROVE  /\ Held(n)' => InHand' = InHand \cup {n}
           /\ ~Held(n)' => InHand' = InHand \ {n}
BY DEF InHand, Held

\* seccomp.go gives a tracee one answer at most, to a call it has received and
\* by the reply that has claimed it, whatever signals, second replies and the
\* closing of the listener do.
THEOREM Refinement == Spec => ImplementsTracedCall
<1> USE DEF Tracee!CNext
<1>1. Init => Tracee!CInit
  BY DEF Init, CallStage, InHand, Tracee!CInit
<1>2. NotifInv /\ [Next]_vars => [Tracee!CNext]_<<CallStage, InHand>>
  <2> SUFFICES ASSUME NotifInv, [Next]_vars
               PROVE  [Tracee!CNext]_<<CallStage, InHand>>
    OBVIOUS
  <2>0. TypeOK /\ StageInv /\ ToldInv
    BY DEF NotifInv
  <2>1. ASSUME NEW n \in Notification, Trap(n)
        PROVE  [Tracee!CNext]_<<CallStage, InHand>>
    <3>0. UNCHANGED InHand
      BY <2>1 DEF Trap, InHand
    <3>1. CASE listener = "closed"
      <4>1. CallStage' = [CallStage EXCEPT ![n] = "aborted"]
        BY <2>0, <2>1, <3>1, OneStage DEF Trap, Answers
      <4>2. QED
        BY <2>1, <3>0, <4>1, StageIs DEF Trap, Tracee!CTrap
    <3>2. CASE listener # "closed"
      <4>1. CallStage' = [CallStage EXCEPT ![n] = "trapped"]
        BY <2>0, <2>1, <3>2, WaitingStage DEF Trap
      <4>2. QED
        BY <2>1, <3>0, <4>1, StageIs DEF Trap, Tracee!CTrap
    <3>3. QED
      BY <3>1, <3>2
  <2>2. ASSUME NEW n \in Notification, Interrupt(n)
        PROVE  [Tracee!CNext]_<<CallStage, InHand>>
    <3>0. UNCHANGED InHand
      BY <2>2 DEF Interrupt, InHand
    <3>1. CallStage' = [CallStage EXCEPT ![n] = "aborted"]
      BY <2>0, <2>2, OneStage DEF Interrupt, Answers
    <3>2. CallStage[n] \in {"trapped", "sent"}
      BY <2>2, StageIs DEF Interrupt
    <3>3. CallStage' = [m \in Notification |-> IF m \in {n} THEN "aborted" ELSE CallStage[m]]
      BY <3>1 DEF CallStage
    <3>4. Tracee!CAbort({n})
      BY <3>0, <3>2, <3>3 DEF Tracee!CAbort
    <3>5. QED
      BY <3>4
  <2>3. ASSUME NEW n \in Notification, ReceiveSingle(n)
        PROVE  [Tracee!CNext]_<<CallStage, InHand>>
    <3>1. CallStage' = [CallStage EXCEPT ![n] = "sent"]
      BY <2>0, <2>3, WaitingStage DEF ReceiveSingle
    <3>2. InHand' = InHand \cup {n}
      <4>1. pc'[n] = "fetched" /\ \A m \in Notification \ {n} : pc'[m] = pc[m]
        BY <2>0, <2>3 DEF ReceiveSingle, Goto, TypeOK
      <4>2. Held(n)'
        BY <4>1 DEF Held, InHand
      <4>3. QED
        BY <2>0, <2>3, <4>1, <4>2, HandMoves DEF ReceiveSingle
    <3>3. QED
      BY <2>3, <3>1, <3>2, StageIs DEF ReceiveSingle, Tracee!CReceive
  <2>4. ASSUME NEW n \in Notification, SendInner(n) \/ AddFD(n)
        PROVE  [Tracee!CNext]_<<CallStage, InHand>>
    <3>1. n \in InHand /\ pc[n] \in {"add", "send"}
      BY <2>4 DEF SendInner, AddFD, InHand
    <3>2. /\ pc' = [pc EXCEPT ![n] = "done"] \/ pc' = [pc EXCEPT ![n] = "send"]
          /\ pc' = [pc EXCEPT ![n] = "send"] => UNCHANGED <<kern, told, status>>
          /\ \A m \in Notification \ {n} : status'[m] = status[m]
      BY <2>0, <2>4 DEF SendInner, AddFD, Settle, Goto, TypeOK
    <3>3. \/ UNCHANGED <<kern, told>>
          \/ /\ kern[n] = "sent"
             /\ \E a \in Answers : /\ kern' = [kern EXCEPT ![n] = "over"]
                                   /\ told' = [told EXCEPT ![n] = a]
      BY <2>4 DEF SendInner, AddFD, AtOnce, Answers
    <3>4. \A m \in Notification \ {n} : pc'[m] = pc[m]
      BY <2>0, <3>2 DEF TypeOK
    <3>5. CASE pc' = [pc EXCEPT ![n] = "send"]
      <4>1. Held(n)'
        BY <2>0, <3>5 DEF TypeOK, Held, InHand
      <4>2. UNCHANGED <<CallStage, InHand>>
        BY <2>0, <3>1, <3>2, <3>4, <3>5, <4>1, HandMoves DEF CallStage
      <4>3. QED
        BY <4>2
    <3>6. CASE pc' = [pc EXCEPT ![n] = "done"]
      <4>1. ~Held(n)'
        BY <2>0, <3>6 DEF TypeOK, Held, InHand
      <4>2. InHand' = InHand \ {n}
        BY <2>0, <3>2, <3>4, <4>1, HandMoves
      <4>3. CASE UNCHANGED <<kern, told>>
        <5>1. UNCHANGED CallStage
          BY <4>3 DEF CallStage
        <5>2. Tracee!CGiveUp(n)
          BY <3>1, <4>2, <5>1 DEF Tracee!CGiveUp
        <5>3. QED
          BY <5>2
      <4>4. CASE kern[n] = "sent" /\ ~UNCHANGED <<kern, told>>
        <5>1. CallStage' = [CallStage EXCEPT ![n] = "answered"]
          BY <2>0, <3>3, <4>4, OneStage
        <5>2. Tracee!CAnswer(n)
          BY <3>1, <4>2, <4>4, <5>1, StageIs DEF Tracee!CAnswer
        <5>3. QED
          BY <5>2
      <4>5. QED
        BY <3>3, <4>3, <4>4
    <3>7. QED
      BY <3>2, <3>5, <3>6
  <2>5. ASSUME NEW n \in Notification, ReceiveRef(n) \/ Claim(n) \/ SafeModeSkip(n)
        PROVE  [Tracee!CNext]_<<CallStage, InHand>>
    <3>1. UNCHANGED CallStage
      BY <2>5 DEF ReceiveRef, Claim, SafeModeSkip, CallStage
    <3>2. \A m \in Notification \ {n} : pc'[m] = pc[m] /\ status'[m] = status[m]
      BY <2>0, <2>5 DEF ReceiveRef, Claim, SafeModeSkip, Goto, TypeOK
    <3>3. Held(n)' => Held(n)
      BY <2>0, <2>5 DEF ReceiveRef, Claim, Claimable, SafeModeSkip, Goto, TypeOK, StageInv,
                        Held, InHand
    <3>4. UNCHANGED InHand \/ (n \in InHand /\ InHand' = InHand \ {n})
      BY <2>0, <3>2, <3>3, HandMoves DEF Held
    <3>5. n \in InHand /\ InHand' = InHand \ {n} => Tracee!CGiveUp(n)
      BY <3>1 DEF Tracee!CGiveUp
    <3>6. QED
      BY <3>1, <3>4, <3>5
  <2>6. CASE ListenerClose
    <3> DEFINE calls == {n \in Notification : kern[n] \in {"trapped", "sent"}}
    <3>1. \A n \in Notification :
             CallStage'[n] = IF n \in calls THEN "aborted" ELSE CallStage[n]
      BY <2>6 DEF ListenerClose, CallStage, Answers
    <3>2. CallStage' = [n \in Notification |-> IF n \in calls THEN "aborted" ELSE CallStage[n]]
      BY <3>1 DEF CallStage
    <3>3. UNCHANGED InHand
      BY <2>6 DEF ListenerClose, InHand
    <3>4. Tracee!CAbort(calls)
      BY <3>2, <3>3, StageIs DEF Tracee!CAbort
    <3>5. QED
      BY <3>4
  <2>7. CASE ListenerMark \/ UNCHANGED vars
    BY <2>7 DEF ListenerMark, vars, CallStage, InHand
  <2>8. QED
    BY <2>1, <2>2, <2>3, <2>4, <2>5, <2>6, <2>7 DEF Next, Work
<1>3. QED
  BY <1>1, <1>2, Invariance, PTL DEF Spec, ImplementsTracedCall, Tracee!CSpec
=============================================================================
