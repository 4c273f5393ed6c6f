---------------------------- MODULE EngineProofs ----------------------------
(***************************************************************************)
(* What Engine keeps for any number of notifications and workers: every    *)
(* notification that was received has one owner, the receive loop, a       *)
(* channel or a worker, until it is replied to or given up, also when any  *)
(* number of workers panic, before or after their reply.                   *)
(***************************************************************************)
EXTENDS Engine, FiniteSetTheorems, TLAPS

Places == Holding \cup {"idle", "guard", "drain", "finished"}

\* No notification is in a channel twice.
Distinct(seq) == \A i, j \in 1 .. Len(seq) : seq[i] = seq[j] /\ seq[i] # Nil => i = j
NoDuplicates == /\ Distinct(ch)
                /\ Distinct(failed)
                /\ fetched # Nil => receiver = "push" /\ ~In(fetched, ch)

\* Only calls that were received have an owner, are replied to or given up, and
\* none is answered without a reply.
OwnedSent ==
    \A n \in Notification :
        /\ Owned(n) \/ n \in logged \/ n \in replied => kern[n] \in {"sent", "answered"}
        /\ kern[n] = "answered" => n \in replied

\* A worker holds what it was given.
Workers == pending \in [Worker -> Notification \cup {Nil}]

EngineInv == TypeOK /\ Workers /\ NoDuplicates /\ OwnedSent /\ NothingLost /\ OneOwner
-----------------------------------------------------------------------------
(* Channels.                                                                *)

LEMMA Sent ==
  ASSUME NEW S, NEW seq \in Seq(S), NEW x \in S
  PROVE  \A n : In(n, Append(seq, x)) <=> In(n, seq) \/ n = x
  BY DEF In

LEMMA SentOnce ==
  ASSUME NEW S, NEW seq \in Seq(S), NEW x \in S, Distinct(seq), x = Nil \/ ~In(x, seq)
  PROVE  Distinct(Append(seq, x))
  BY DEF In, Distinct

LEMMA ReceivedFrom ==
  ASSUME NEW S, NEW seq \in Seq(S), seq # <<>>
  PROVE  /\ Head(seq) \in S /\ Tail(seq) \in Seq(S) /\ Len(Tail(seq)) = Len(seq) - 1
         /\ In(Head(seq), seq)
         /\ \A n : In(n, seq) <=> n = Head(seq) \/ In(n, Tail(seq))
  <1>1. Len(seq) \in Nat \ {0} /\ Head(seq) = seq[1]
    OBVIOUS
  <1>2. Tail(seq) \in Seq(S) /\ Len(Tail(seq)) = Len(seq) - 1
    OBVIOUS
  <1>3. \A i \in 1 .. Len(seq) - 1 : Tail(seq)[i] = seq[i + 1]
    OBVIOUS
  <1>4. \A n : In(n, seq) => n = Head(seq) \/ In(n, Tail(seq))
    <2> SUFFICES ASSUME NEW i \in 1 .. Len(seq), i # 1 PROVE In(seq[i], Tail(seq))
      BY <1>1 DEF In
    <2>1. i - 1 \in 1 .. Len(Tail(seq)) /\ Tail(seq)[i - 1] = seq[i]
      BY <1>1, <1>2, <1>3
    <2> QED
      BY <2>1 DEF In
  <1>5. \A n : In(n, Tail(seq)) => In(n, seq)
    BY <1>1, <1>2, <1>3 DEF In
  <1>6. In(Head(seq), seq)
    BY <1>1 DEF In
  <1> QED
    BY <1>1, <1>2, <1>4, <1>5, <1>6

LEMMA ReceivedOnce ==
  ASSUME NEW S, NEW seq \in Seq(S), seq # <<>>, Distinct(seq)
  PROVE  Distinct(Tail(seq)) /\ (Head(seq) # Nil => ~In(Head(seq), Tail(seq)))
  <1>1. Len(seq) \in Nat \ {0} /\ Head(seq) = seq[1] /\ Len(Tail(seq)) = Len(seq) - 1
    OBVIOUS
  <1>2. \A i \in 1 .. Len(seq) - 1 : Tail(seq)[i] = seq[i + 1]
    OBVIOUS
  <1> QED
    BY <1>1, <1>2 DEF Distinct, In
-----------------------------------------------------------------------------
(* Initially.                                                               *)

LEMMA WorkerCount == N \in Nat \ {0}
  BY EngineAssumption, FS_CardinalityType, FS_EmptySet DEF N

LEMMA InitInv == Init => EngineInv
  <1> SUFFICES ASSUME Init PROVE EngineInv
    OBVIOUS
  <1>1. TypeOK
    <2>1. Cardinality({w \in Worker : pc[w] = "drain"}) = 0
      <3>1. {w \in Worker : pc[w] = "drain"} = {}
        BY DEF Init
      <3> QED
        BY <3>1, FS_EmptySet
    <2>2. nils \in 0 .. N /\ Len(ch) <= N /\ Len(failed) <= N
      BY WorkerCount DEF Init
    <2>3. \A w \in Worker : pending[w] # Nil <=> pc[w] \in Holding
      BY DEF Init, Holding, Handling
    <2>4. /\ kern \in [Notification -> {"none", "trapped", "sent", "answered"}]
          /\ pc \in [Worker -> Places]
          /\ ch \in Seq(Notification \cup {Nil}) /\ failed \in Seq(Notification)
          /\ receiver \in {"count", "receive", "push", "end"}
          /\ fetched \in Notification \cup {Nil}
          /\ replied \subseteq Notification /\ logged \subseteq Notification
      BY DEF Init, Places, Holding, Handling
    <2>5. exited \in BOOLEAN /\ inPanic \in BOOLEAN
      BY Zenon DEF Init
    <2>6. drainers = 0
      BY DEF Init
    <2> QED
      BY <2>1, <2>2, <2>3, <2>4, <2>5, <2>6 DEF TypeOK, Places, Holding, Handling
  <1>2. Workers /\ NoDuplicates
    BY DEF Init, Workers, NoDuplicates, Distinct
  <1>3. \A n \in Notification : ~Owned(n) /\ n \notin logged /\ n \notin replied /\ kern[n] = "none"
    BY EngineAssumption DEF Init, Owned, Queued, In
  <1>4. OwnedSent /\ NothingLost /\ OneOwner
    BY <1>3 DEF OwnedSent, NothingLost, OneOwner, Owned
  <1> QED
    BY <1>1, <1>2, <1>4 DEF EngineInv
-----------------------------------------------------------------------------
(* The tracees.                                                             *)

\* Only the types that a step can change need a look.
LEMMA DrainersKept ==
  ASSUME EngineInv, UNCHANGED drainers, \A w \in Worker : pc'[w] = "drain" <=> pc[w] = "drain"
  PROVE  drainers' = Cardinality({w \in Worker : pc[w] = "drain"})'
  <1>1. {w \in Worker : pc'[w] = "drain"} = {w \in Worker : pc[w] = "drain"}
    OBVIOUS
  <1> QED
    BY <1>1 DEF EngineInv, TypeOK

LEMMA TrapStep ==
  ASSUME EngineInv, NEW n \in Notification, Trap(n)
  PROVE  EngineInv'
  <1>1. /\ kern[n] = "none" /\ kern' = [kern EXCEPT ![n] = "trapped"]
        /\ UNCHANGED <<exited, ch, failed, receiver, fetched, nils, pc, pending, inPanic, drainers, replied, logged>>
    BY DEF Trap
  <1>2. /\ kern' \in [Notification -> {"none", "trapped", "sent", "answered"}]
        /\ kern'[n] = "trapped" /\ \A m \in Notification : m # n => kern'[m] = kern[m]
    BY <1>1 DEF EngineInv, TypeOK
  <1>3. TypeOK' /\ Workers' /\ NoDuplicates'
    BY <1>1, <1>2 DEF EngineInv, TypeOK, Workers, NoDuplicates
  <1>4. \A m \in Notification : Owned(m)' <=> Owned(m)
    BY <1>1 DEF Owned, Queued
  <1>5. OwnedSent'
    BY <1>1, <1>2, <1>4 DEF EngineInv, OwnedSent
  <1>6. NothingLost'
    BY <1>1, <1>2, <1>4 DEF EngineInv, NothingLost
  <1>7. OneOwner'
    BY <1>1, <1>4 DEF EngineInv, OneOwner, Queued
  <1> QED
    BY <1>3, <1>5, <1>6, <1>7 DEF EngineInv

\* The engine closes, or the receive loop looks whether it has.
LEMMA CountStep ==
  ASSUME EngineInv, Exit \/ Count
  PROVE  EngineInv'
  <1>1. UNCHANGED <<kern, ch, failed, fetched, nils, pc, pending, inPanic, drainers, replied, logged>>
    BY DEF Exit, Count
  <1>2. /\ receiver' \in {"count", "receive", "push", "end"}
        /\ receiver' = receiver \/ receiver = "count"
    BY DEF Exit, Count, EngineInv, TypeOK
  <1>3. exited' \in BOOLEAN
    BY DEF Exit, Count, EngineInv, TypeOK
  <1>4. TypeOK' /\ Workers'
    BY <1>1, <1>2, <1>3 DEF EngineInv, TypeOK, Workers
  <1>5. NoDuplicates'
    BY <1>1, <1>2 DEF EngineInv, NoDuplicates
  <1>6. OwnedSent' /\ NothingLost' /\ OneOwner'
    BY <1>1 DEF EngineInv, OwnedSent, Owned, Queued, NothingLost, OneOwner
  <1> QED
    BY <1>4, <1>5, <1>6 DEF EngineInv
-----------------------------------------------------------------------------
(* The receive loop.                                                        *)

LEMMA ReceiveStep ==
  ASSUME EngineInv, Receive
  PROVE  EngineInv'
  <1>1. UNCHANGED <<exited, ch, failed, nils, pc, pending, inPanic, drainers, replied, logged>>
    BY DEF Receive
  <1>2. receiver = "receive" /\ fetched = Nil
    BY DEF Receive, EngineInv, NoDuplicates
  <1>3. CASE receiver' = "end" /\ UNCHANGED <<kern, fetched>>
    <2>1. TypeOK' /\ Workers' /\ NoDuplicates'
      BY <1>1, <1>2, <1>3 DEF EngineInv, TypeOK, Workers, NoDuplicates
    <2>2. OwnedSent' /\ NothingLost' /\ OneOwner'
      BY <1>1, <1>3 DEF EngineInv, OwnedSent, Owned, Queued, NothingLost, OneOwner
    <2> QED
      BY <2>1, <2>2 DEF EngineInv
  <1>4. ASSUME NEW n \in Notification, kern[n] = "trapped", kern' = [kern EXCEPT ![n] = "sent"],
               fetched' = n, receiver' = "push"
        PROVE  EngineInv'
    <2>1. ~Owned(n) /\ n \notin logged /\ n \notin replied /\ n # Nil
      BY <1>4, EngineAssumption DEF EngineInv, OwnedSent
    <2>2. /\ kern' \in [Notification -> {"none", "trapped", "sent", "answered"}]
          /\ kern'[n] = "sent" /\ \A m \in Notification : m # n => kern'[m] = kern[m]
      BY <1>4 DEF EngineInv, TypeOK
    <2>3. TypeOK' /\ Workers'
      BY <1>1, <1>4, <2>2 DEF EngineInv, TypeOK, Workers
    <2>4. NoDuplicates'
      BY <1>1, <1>4, <2>1 DEF EngineInv, NoDuplicates, Owned, Queued
    <2>5. \A m \in Notification : Owned(m)' <=> Owned(m) \/ m = n
      BY <1>1, <1>2, <1>4, EngineAssumption DEF Owned, Queued
    <2>6. OwnedSent'
      BY <1>1, <2>2, <2>5 DEF EngineInv, OwnedSent
    <2>7. NothingLost'
      BY <1>1, <2>2, <2>5 DEF EngineInv, NothingLost
    <2>8. OneOwner'
      <3> SUFFICES ASSUME NEW m \in Notification PROVE
              /\ \A w, x \in Worker : pending[w] = m /\ pending[x] = m => w = x
              /\ (m = n \/ In(m, ch)) \/ In(m, failed) => \A w \in Worker : pending[w] # m
              /\ In(m, failed) => ~(m = n \/ In(m, ch))
              /\ m = n \/ In(m, ch) => m \notin replied
              /\ m \in logged => m # n /\ ~Owned(m)
        BY <1>1, <1>4, <2>5 DEF OneOwner, Queued
      <3>1. CASE m = n
        BY <3>1, <2>1, <2>2 DEF Owned, Queued
      <3>2. CASE m # n
        BY <3>2, <2>2 DEF EngineInv, OneOwner, Owned, Queued
      <3> QED
        BY <3>1, <3>2
    <2> QED
      BY <2>3, <2>4, <2>6, <2>7, <2>8 DEF EngineInv
  <1> QED
    BY <1>3, <1>4 DEF Receive

\* The receive loop gives its notification to the channel.
LEMMA PushStep ==
  ASSUME EngineInv, Push
  PROVE  EngineInv'
  <1>1. /\ receiver = "push" /\ Len(ch) < N
        /\ ch' = Append(ch, fetched) /\ fetched' = Nil /\ receiver' = "count"
        /\ UNCHANGED <<kern, exited, failed, nils, pc, pending, inPanic, drainers, replied, logged>>
    BY DEF Push
  <1>2. ch \in Seq(Notification \cup {Nil}) /\ fetched \in Notification \cup {Nil} /\ Distinct(ch)
    BY DEF EngineInv, TypeOK, NoDuplicates
  <1>3. fetched = Nil \/ ~In(fetched, ch)
    BY DEF EngineInv, NoDuplicates
  <1>4. ch' \in Seq(Notification \cup {Nil}) /\ Len(ch') <= N
    BY <1>1, <1>2, WorkerCount
  <1>5. TypeOK' /\ Workers'
    BY <1>1, <1>4 DEF EngineInv, TypeOK, Workers
  <1>6. \A n : In(n, ch') <=> In(n, ch) \/ n = fetched
    BY <1>1, <1>2, Sent
  <1>7. Distinct(ch')
    BY <1>1, <1>2, <1>3, SentOnce
  <1>8. NoDuplicates'
    BY <1>1, <1>7 DEF EngineInv, NoDuplicates
  <1>9. \A n \in Notification : fetched' # n /\ (In(n, ch') <=> Queued(n))
    BY <1>1, <1>6, EngineAssumption DEF Queued
  <1>10. OwnedSent' /\ OneOwner'
    BY <1>1, <1>9 DEF EngineInv, OwnedSent, OneOwner, Owned, Queued
  <1>11. NothingLost'
    BY <1>1, <1>9 DEF EngineInv, NothingLost, Owned, Queued
  <1> QED
    BY <1>5, <1>8, <1>10, <1>11 DEF EngineInv

LEMMA PushNilStep ==
  ASSUME EngineInv, PushNil
  PROVE  EngineInv'
  <1>1. /\ nils > 0 /\ Len(ch) < N /\ nils' = nils - 1
        /\ ch' = Append(ch, Nil)
        /\ UNCHANGED <<kern, exited, failed, receiver, fetched, pc, pending, inPanic, drainers, replied, logged>>
    BY DEF PushNil
  <1>2. ch \in Seq(Notification \cup {Nil}) /\ Distinct(ch)
    BY DEF EngineInv, TypeOK, NoDuplicates
  <1>3. ch' \in Seq(Notification \cup {Nil}) /\ Len(ch') <= N
    BY <1>1, <1>2, WorkerCount
  <1>4. nils' \in 0 .. N
    BY <1>1, WorkerCount DEF EngineInv, TypeOK
  <1>5. TypeOK' /\ Workers'
    BY <1>1, <1>3, <1>4 DEF EngineInv, TypeOK, Workers
  <1>6. \A n : In(n, ch') <=> In(n, ch) \/ n = Nil
    BY <1>1, <1>2, Sent
  <1>7. Distinct(ch')
    BY <1>1, <1>2, SentOnce
  <1>8. NoDuplicates'
    BY <1>1, <1>6, <1>7 DEF EngineInv, NoDuplicates
  <1>9. \A n \in Notification : In(n, ch') <=> In(n, ch)
    BY <1>6, EngineAssumption
  <1>10. OwnedSent' /\ OneOwner' /\ NothingLost'
    BY <1>1, <1>9 DEF EngineInv, OwnedSent, OneOwner, Owned, Queued, NothingLost
  <1> QED
    BY <1>5, <1>8, <1>10 DEF EngineInv
-----------------------------------------------------------------------------
(* A worker.                                                                *)

\* What a receive from ch does to those who own the notifications in it.
LEMMA TakenFrom ==
  ASSUME EngineInv, ch # <<>>, ch' = Tail(ch)
  PROVE  /\ Head(ch) \in Notification \cup {Nil}
         /\ ch' \in Seq(Notification \cup {Nil}) /\ Len(ch') <= N /\ Distinct(ch')
         /\ In(Head(ch), ch)
         /\ \A n \in Notification : In(n, ch') <=> In(n, ch) /\ n # Head(ch)
         /\ \A n : In(n, ch') => In(n, ch)
  <1>1. ch \in Seq(Notification \cup {Nil}) /\ Len(ch) <= N /\ Distinct(ch)
    BY DEF EngineInv, TypeOK, NoDuplicates
  <1>2. /\ Head(ch) \in Notification \cup {Nil}
        /\ Tail(ch) \in Seq(Notification \cup {Nil}) /\ Len(Tail(ch)) = Len(ch) - 1
        /\ In(Head(ch), ch)
        /\ \A n : In(n, ch) <=> n = Head(ch) \/ In(n, Tail(ch))
    BY <1>1, ReceivedFrom
  <1>3. Distinct(Tail(ch)) /\ (Head(ch) # Nil => ~In(Head(ch), Tail(ch)))
    BY <1>1, ReceivedOnce
  <1>4. Len(Tail(ch)) <= N
    BY <1>1, <1>2, WorkerCount
  <1> QED
    BY <1>1, <1>2, <1>3, <1>4, EngineAssumption

LEMMA TakeStep ==
  ASSUME EngineInv, NEW w \in Worker, Take(w)
  PROVE  EngineInv'
  <1> DEFINE n == Head(ch)
  <1>1. /\ pc[w] = "idle" /\ ch # <<>> /\ ch' = Tail(ch)
        /\ pending' = [pending EXCEPT ![w] = n]
        /\ UNCHANGED <<kern, exited, failed, receiver, fetched, nils, inPanic, drainers, replied, logged>>
    BY DEF Take
  <1>2. pending[w] = Nil
    BY <1>1 DEF EngineInv, TypeOK, Holding, Handling
  <1>3. /\ n \in Notification \cup {Nil}
        /\ ch' \in Seq(Notification \cup {Nil}) /\ Len(ch') <= N /\ Distinct(ch')
        /\ In(n, ch)
        /\ \A m \in Notification : In(m, ch') <=> In(m, ch) /\ m # n
        /\ \A m : In(m, ch') => In(m, ch)
    BY <1>1, TakenFrom
  <1>4. \/ n = Nil /\ pc' = [pc EXCEPT ![w] = "finished"]
        \/ n # Nil /\ pc' = [pc EXCEPT ![w] = "taken"]
    BY DEF Take
  <1> HIDE DEF n
  <1>5. /\ pending'[w] = n /\ \A x \in Worker : x # w => pending'[x] = pending[x]
        /\ pending' \in [Worker -> Notification \cup {Nil}]
    BY <1>1, <1>3 DEF EngineInv, Workers
  <1>6. /\ pc' \in [Worker -> Places]
        /\ \A x \in Worker : x # w => pc'[x] = pc[x]
        /\ pc'[w] # "drain" /\ (n # Nil <=> pc'[w] \in Holding)
    BY <1>4 DEF EngineInv, TypeOK, Places, Holding, Handling
  <1>7. drainers' = Cardinality({x \in Worker : pc[x] = "drain"})'
    BY <1>1, <1>6, DrainersKept
  <1>8. \A x \in Worker : pending'[x] # Nil <=> pc'[x] \in Holding
    BY <1>5, <1>6 DEF EngineInv, TypeOK
  <1>9. TypeOK'
    BY <1>1, <1>3, <1>6, <1>7, <1>8 DEF EngineInv, TypeOK, Places
  <1>10. NoDuplicates' /\ Workers'
    BY <1>1, <1>3, <1>5 DEF EngineInv, NoDuplicates, Workers
  <1>11. n # Nil => /\ fetched # n /\ ~In(n, failed) /\ \A x \in Worker : pending[x] # n
    BY <1>3 DEF EngineInv, NoDuplicates, Queued, OneOwner
  <1>12. \A m \in Notification : Owned(m)' <=> Owned(m)
    <2> TAKE m \in Notification
    <2>1. (\E x \in Worker : pending'[x] = m) <=> m = n \/ \E x \in Worker : pending[x] = m
      BY <1>2, <1>5, EngineAssumption
    <2> QED
      BY <1>1, <1>3, <2>1 DEF Owned, Queued
  <1>13. OwnedSent' /\ NothingLost'
    BY <1>1, <1>12 DEF EngineInv, OwnedSent, NothingLost
  <1>14. OneOwner'
    <2> SUFFICES ASSUME NEW m \in Notification PROVE
            /\ \A x, y \in Worker : pending'[x] = m /\ pending'[y] = m => x = y
            /\ (fetched = m \/ In(m, ch')) \/ In(m, failed) => \A x \in Worker : pending'[x] # m
            /\ In(m, failed) => ~(fetched = m \/ In(m, ch'))
            /\ fetched = m \/ In(m, ch') => m \notin replied
            /\ m \in logged => ~Owned(m)
      BY <1>1, <1>12 DEF OneOwner, Queued
    <2>1. (In(m, ch') => In(m, ch)) /\ (m = n => ~In(m, ch'))
      BY <1>3
    <2>2. CASE m = n
      BY <2>1, <2>2, <1>3, <1>5, <1>11, EngineAssumption DEF EngineInv, OneOwner, Queued
    <2>3. CASE m # n
      <3>1. \A x \in Worker : pending'[x] = m => pending[x] = m
        BY <2>3, <1>5
      <3> QED
        BY <2>1, <2>3, <3>1 DEF EngineInv, OneOwner, Queued
    <2> QED
      BY <2>2, <2>3
  <1> QED
    BY <1>9, <1>10, <1>13, <1>14 DEF EngineInv

\* A worker goes on with the notification it has, or without one.
LEMMA WorkerMoves ==
  ASSUME EngineInv, NEW w \in Worker, NEW l \in Places, pc' = [pc EXCEPT ![w] = l],
         pc[w] # "drain", l # "drain", pc[w] \in Holding <=> l \in Holding,
         UNCHANGED <<kern, exited, ch, failed, receiver, fetched, nils, pending, drainers, replied, logged>>,
         inPanic' \in BOOLEAN
  PROVE  EngineInv'
  <1>1. /\ pc' \in [Worker -> Places]
        /\ pc'[w] = l /\ \A x \in Worker : x # w => pc'[x] = pc[x]
    BY DEF EngineInv, TypeOK, Places
  <1>2. drainers' = Cardinality({x \in Worker : pc[x] = "drain"})'
    BY <1>1, DrainersKept
  <1>3. \A x \in Worker : pending[x] # Nil <=> pc'[x] \in Holding
    BY <1>1 DEF EngineInv, TypeOK
  <1>4. TypeOK'
    BY <1>1, <1>2, <1>3 DEF EngineInv, TypeOK, Places
  <1>5. Workers' /\ NoDuplicates' /\ OwnedSent' /\ NothingLost' /\ OneOwner'
    BY DEF EngineInv, Workers, NoDuplicates, OwnedSent, Owned, Queued, NothingLost, OneOwner
  <1> QED
    BY <1>4, <1>5 DEF EngineInv

\* What a reply changes, the second one and the one that is refused too.
LEMMA ReplyTo ==
  ASSUME EngineInv, NEW n \in Notification, Owned(n), Reply(n)
  PROVE  /\ kern' \in [Notification -> {"none", "trapped", "sent", "answered"}]
         /\ replied' \subseteq Notification /\ n \in replied'
         /\ kern'[n] \in {"sent", "answered"}
         /\ \A m \in Notification : m # n => kern'[m] = kern[m]
         /\ \A m \in Notification : m # n => (m \in replied' <=> m \in replied)
  <1>1. kern \in [Notification -> {"none", "trapped", "sent", "answered"}] /\ replied \subseteq Notification
    BY DEF EngineInv, TypeOK
  <1>2. kern[n] \in {"sent", "answered"}
    BY DEF EngineInv, OwnedSent
  <1>3. CASE n \notin replied
    <2>1. replied' = replied \cup {n} /\ (kern' = kern \/ kern' = [kern EXCEPT ![n] = "answered"])
      BY <1>3 DEF Reply, Claimable
    <2> QED
      BY <1>1, <1>2, <2>1
  <1>4. CASE n \in replied
    <2>1. UNCHANGED <<kern, replied>>
      BY <1>4 DEF Reply, Claimable
    <2> QED
      BY <1>1, <1>2, <1>4, <2>1
  <1> QED
    BY <1>3, <1>4

\* The reply of a handler, which keeps its notification until it ends.
LEMMA ReplyStep ==
  ASSUME EngineInv, NEW w \in Worker, pc[w] \in Handling, Reply(pending[w]),
         pc' = [pc EXCEPT ![w] = "ending"],
         UNCHANGED <<exited, ch, failed, receiver, fetched, nils, pending, inPanic, drainers, logged>>
  PROVE  EngineInv'
  <1> DEFINE n == pending[w]
  <1>1. n \in Notification
    BY DEF EngineInv, TypeOK, Workers, Holding
  <1>2. Owned(n) /\ ~Queued(n)
    BY <1>1 DEF EngineInv, OneOwner, Owned
  <1>3. Reply(n)
    OBVIOUS
  <1> HIDE DEF n
  <1>4. /\ kern' \in [Notification -> {"none", "trapped", "sent", "answered"}]
        /\ replied' \subseteq Notification /\ n \in replied'
        /\ kern'[n] \in {"sent", "answered"}
        /\ \A m \in Notification : m # n => kern'[m] = kern[m]
        /\ \A m \in Notification : m # n => (m \in replied' <=> m \in replied)
    BY <1>1, <1>2, <1>3, ReplyTo
  <1>5. /\ pc' \in [Worker -> Places]
        /\ pc'[w] = "ending" /\ \A x \in Worker : x # w => pc'[x] = pc[x]
    BY DEF EngineInv, TypeOK, Places, Holding, Handling
  <1>6. drainers' = Cardinality({x \in Worker : pc[x] = "drain"})'
    BY <1>5, DrainersKept DEF Handling
  <1>7. \A x \in Worker : pending[x] # Nil <=> pc'[x] \in Holding
    BY <1>5 DEF EngineInv, TypeOK, Holding, Handling
  <1>8. TypeOK'
    BY <1>4, <1>5, <1>6, <1>7 DEF EngineInv, TypeOK, Places
  <1>9. Workers' /\ NoDuplicates'
    BY DEF EngineInv, Workers, NoDuplicates
  <1>10. \A m \in Notification : (Owned(m)' <=> Owned(m)) /\ (Queued(m)' <=> Queued(m))
    BY DEF Owned, Queued
  <1>11. OwnedSent' /\ NothingLost'
    BY <1>1, <1>4, <1>10 DEF EngineInv, OwnedSent, NothingLost
  <1>12. OneOwner'
    BY <1>1, <1>2, <1>4, <1>10 DEF EngineInv, OneOwner
  <1> QED
    BY <1>8, <1>9, <1>11, <1>12 DEF EngineInv

\* A worker is done with its notification: it is answered, or logged.
LEMMA WorkerDone ==
  ASSUME EngineInv, NEW w \in Worker, pc[w] \in Handling,
         pc' = [pc EXCEPT ![w] = "idle"], pending' = [pending EXCEPT ![w] = Nil],
         logged' = IF kern[pending[w]] = "answered" THEN logged ELSE logged \cup {pending[w]},
         UNCHANGED <<kern, exited, ch, failed, receiver, fetched, nils, inPanic, drainers, replied>>
  PROVE  EngineInv'
  <1> DEFINE n == pending[w]
  <1>1. n \in Notification
    BY DEF EngineInv, TypeOK, Workers, Holding
  <1>2. /\ ~Queued(n) /\ ~In(n, failed) /\ \A x \in Worker : x # w => pending[x] # n
        /\ kern[n] \in {"sent", "answered"}
        /\ logged' = IF kern[n] = "answered" THEN logged ELSE logged \cup {n}
    BY <1>1 DEF EngineInv, OneOwner, OwnedSent, Owned
  <1>3. /\ pending' \in [Worker -> Notification \cup {Nil}]
        /\ pending'[w] = Nil /\ \A x \in Worker : x # w => pending'[x] = pending[x]
    BY DEF EngineInv, Workers
  <1>4. (\E x \in Worker : pending[x] = n) /\ pending[w] = n
    OBVIOUS
  <1> HIDE DEF n
  <1>5. /\ pc' \in [Worker -> Places]
        /\ pc'[w] = "idle" /\ \A x \in Worker : x # w => pc'[x] = pc[x]
    BY DEF EngineInv, TypeOK, Places
  <1>6. drainers' = Cardinality({x \in Worker : pc[x] = "drain"})'
    BY <1>5, DrainersKept DEF Handling
  <1>7. \A x \in Worker : pending'[x] # Nil <=> pc'[x] \in Holding
    BY <1>3, <1>5 DEF EngineInv, TypeOK, Holding, Handling
  <1>8. logged' \subseteq Notification
    BY <1>1, <1>2 DEF EngineInv, TypeOK
  <1>9. TypeOK'
    BY <1>5, <1>6, <1>7, <1>8 DEF EngineInv, TypeOK, Places
  <1>10. Workers' /\ NoDuplicates'
    BY <1>3 DEF EngineInv, Workers, NoDuplicates
  <1>11. \A m \in Notification : Owned(m)' <=> Owned(m) /\ m # n
    <2> TAKE m \in Notification
    <2>1. (\E x \in Worker : pending'[x] = m) <=> (\E x \in Worker : pending[x] = m) /\ m # n
      BY <1>1, <1>2, <1>3, <1>4, EngineAssumption
    <2>2. Queued(m)' <=> Queued(m)
      BY DEF Queued
    <2>3. m = n => ~Queued(m) /\ ~In(m, failed)
      BY <1>2
    <2> QED
      BY <2>1, <2>2, <2>3 DEF Owned
  <1>12. OwnedSent' /\ NothingLost'
    BY <1>1, <1>2, <1>11 DEF EngineInv, OwnedSent, NothingLost
  <1>13. OneOwner'
    <2> SUFFICES ASSUME NEW m \in Notification PROVE
            /\ \A x, y \in Worker : pending'[x] = m /\ pending'[y] = m => x = y
            /\ Queued(m) \/ In(m, failed) => \A x \in Worker : pending'[x] # m
            /\ In(m, failed) => ~Queued(m)
            /\ Queued(m) => m \notin replied
            /\ m \in logged' => ~(Owned(m) /\ m # n)
      BY <1>11 DEF OneOwner, Queued
    <2>1. \A x \in Worker : pending'[x] = m => pending[x] = m
      BY <1>3, EngineAssumption
    <2> QED
      BY <2>1, <1>2 DEF EngineInv, OneOwner
  <1> QED
    BY <1>9, <1>10, <1>12, <1>13 DEF EngineInv

\* The check, the handler and the wait for a peer, up to the end of the handler.
LEMMA HandleStep ==
  ASSUME EngineInv, NEW w \in Worker, Check(w) \/ Handle(w) \/ Unblock(w) \/ Finish(w)
  PROVE  EngineInv'
  <1>1. pc[w] \in Holding /\ UNCHANGED <<exited, ch, failed, receiver, fetched, nils, inPanic, drainers>>
    BY DEF Check, Handle, Unblock, Finish, Holding, Handling
  <1>2. ASSUME NEW l \in {"handle", "return", "ending", "panicking", "blocked", "woken"},
               pc' = [pc EXCEPT ![w] = l], UNCHANGED <<kern, pending, replied, logged>>
        PROVE  EngineInv'
    <2>1. l \in Places /\ l \in Holding /\ l # "drain" /\ pc[w] # "drain"
      BY <1>1 DEF Places, Holding, Handling
    <2>2. inPanic' \in BOOLEAN
      BY <1>1 DEF EngineInv, TypeOK
    <2> QED
      BY <1>1, <1>2, <2>1, <2>2, WorkerMoves
  <1>3. CASE Check(w) \/ Unblock(w)
    BY <1>2, <1>3 DEF Check, AfterCheck, Unblock
  <1>4. CASE Handle(w)
    <2>1. CASE Reply(pending[w]) /\ pc' = [pc EXCEPT ![w] = "ending"]
      BY <1>1, <1>4, <2>1, ReplyStep DEF Handle, Handling
    <2> QED
      BY <1>2, <1>4, <2>1 DEF Handle
  <1>5. CASE Finish(w)
    <2>1. CASE pc' = [pc EXCEPT ![w] = "idle"]
      <3>1. pc'[w] = "idle" /\ pc[w] = "ending"
        BY <1>5, <2>1 DEF Finish, EngineInv, TypeOK
      <3> QED
        BY <1>1, <1>5, <2>1, <3>1, WorkerDone DEF Finish, Handling, EngineInv, TypeOK
    <2> QED
      BY <1>2, <1>5, <2>1 DEF Finish
  <1> QED
    BY <1>3, <1>4, <1>5

\* The deferred send of the pending notification: it has a new owner.
LEMMA GiveUpStep ==
  ASSUME EngineInv, NEW w \in Worker, GiveUp(w)
  PROVE  EngineInv'
  <1> DEFINE n == pending[w]
  <1>1. /\ pc[w] \in {"return", "panicking"} /\ Len(failed) < N /\ failed' = Append(failed, n)
        /\ pending' = [pending EXCEPT ![w] = Nil]
        /\ UNCHANGED <<kern, exited, ch, receiver, fetched, nils, inPanic, drainers, replied, logged>>
    BY DEF GiveUp, KeepPending
  <1>2. n \in Notification
    BY <1>1 DEF EngineInv, TypeOK, Workers, Holding
  <1>3. ~Queued(n) /\ ~In(n, failed) /\ \A x \in Worker : x # w => pending[x] # n
    BY <1>2 DEF EngineInv, OneOwner
  <1>4. /\ pending' \in [Worker -> Notification \cup {Nil}]
        /\ pending'[w] = Nil /\ \A x \in Worker : x # w => pending'[x] = pending[x]
    BY <1>1 DEF EngineInv, Workers
  <1>5. failed \in Seq(Notification) /\ Distinct(failed)
    BY DEF EngineInv, TypeOK, NoDuplicates
  <1>6. PICK l \in {"finished", "guard"} : pc' = [pc EXCEPT ![w] = l]
    BY DEF GiveUp
  <1>7. pending[w] = n
    OBVIOUS
  <1> HIDE DEF n
  <1>8. /\ failed' \in Seq(Notification) /\ Len(failed') <= N
        /\ \A m : In(m, failed') <=> In(m, failed) \/ m = n
        /\ Distinct(failed')
    <2>1. failed' \in Seq(Notification) /\ Len(failed') <= N
      BY <1>1, <1>2, <1>5, WorkerCount
    <2>2. \A m : In(m, failed') <=> In(m, failed) \/ m = n
      BY <1>1, <1>2, <1>5, Sent
    <2>3. Distinct(failed')
      BY <1>1, <1>2, <1>3, <1>5, SentOnce
    <2> QED
      BY <2>1, <2>2, <2>3
  <1>9. /\ pc' \in [Worker -> Places]
        /\ pc'[w] = l /\ \A x \in Worker : x # w => pc'[x] = pc[x]
    BY <1>6 DEF EngineInv, TypeOK, Places
  <1>10. drainers' = Cardinality({x \in Worker : pc[x] = "drain"})'
    BY <1>1, <1>9, DrainersKept
  <1>11. \A x \in Worker : pending'[x] # Nil <=> pc'[x] \in Holding
    BY <1>4, <1>9 DEF EngineInv, TypeOK, Holding, Handling
  <1>12. TypeOK'
    BY <1>1, <1>8, <1>9, <1>10, <1>11 DEF EngineInv, TypeOK, Places
  <1>13. Workers' /\ NoDuplicates'
    BY <1>1, <1>4, <1>8 DEF EngineInv, Workers, NoDuplicates
  <1>14. \A m \in Notification : Owned(m)' <=> Owned(m)
    BY <1>1, <1>2, <1>4, <1>7, <1>8, EngineAssumption DEF Owned, Queued
  <1>15. OwnedSent' /\ NothingLost'
    BY <1>1, <1>14 DEF EngineInv, OwnedSent, NothingLost
  <1>16. OneOwner'
    <2> SUFFICES ASSUME NEW m \in Notification PROVE
            /\ \A x, y \in Worker : pending'[x] = m /\ pending'[y] = m => x = y
            /\ Queued(m) \/ In(m, failed') => \A x \in Worker : pending'[x] # m
            /\ In(m, failed') => ~Queued(m)
            /\ Queued(m) => m \notin replied
            /\ m \in logged => ~Owned(m)
      BY <1>1, <1>14 DEF OneOwner, Queued
    <2>1. \A x \in Worker : pending'[x] = m => pending[x] = m /\ m # n
      BY <1>2, <1>3, <1>4, EngineAssumption
    <2>2. CASE m = n
      BY <2>1, <2>2, <1>3 DEF EngineInv, OneOwner
    <2>3. CASE m # n
      BY <2>1, <2>3, <1>8 DEF EngineInv, OneOwner
    <2> QED
      BY <2>2, <2>3
  <1> QED
    BY <1>12, <1>13, <1>15, <1>16 DEF EngineInv

\* One more worker drains the channel, with a goroutine for failed.
LEMMA PanicGuardStep ==
  ASSUME EngineInv, NEW w \in Worker, PanicGuard(w)
  PROVE  EngineInv'
  <1>1. /\ pc[w] = "guard" /\ inPanic' \in BOOLEAN /\ drainers' = drainers + 1
        /\ pc' = [pc EXCEPT ![w] = "drain"]
        /\ UNCHANGED <<kern, exited, ch, failed, receiver, fetched, nils, pending, replied, logged>>
    BY DEF PanicGuard, OneMoreDrainer
  <1>2. /\ pc' \in [Worker -> Places]
        /\ pc'[w] = "drain" /\ \A x \in Worker : x # w => pc'[x] = pc[x]
    BY <1>1 DEF EngineInv, TypeOK, Places
  <1> DEFINE D == {x \in Worker : pc[x] = "drain"}
  <1>3. drainers' = Cardinality({x \in Worker : pc'[x] = "drain"})
    <2>1. {x \in Worker : pc'[x] = "drain"} = D \cup {w} /\ w \notin D
      BY <1>1, <1>2
    <2>2. IsFiniteSet(D)
      BY EngineAssumption, FS_Subset
    <2>3. drainers = Cardinality(D)
      BY DEF EngineInv, TypeOK
    <2> HIDE DEF D
    <2>4. Cardinality(D \cup {w}) = Cardinality(D) + 1
      BY <2>1, <2>2, FS_AddElement
    <2> QED
      BY <2>1, <2>3, <2>4, <1>1
  <1>4. \A x \in Worker : pending[x] # Nil <=> pc'[x] \in Holding
    BY <1>1, <1>2 DEF EngineInv, TypeOK, Holding, Handling
  <1>5. TypeOK'
    BY <1>1, <1>2, <1>3, <1>4 DEF EngineInv, TypeOK, Places
  <1>6. Workers' /\ NoDuplicates' /\ OwnedSent' /\ NothingLost' /\ OneOwner'
    BY <1>1 DEF EngineInv, Workers, NoDuplicates, OwnedSent, Owned, Queued, NothingLost, OneOwner
  <1> QED
    BY <1>5, <1>6 DEF EngineInv
-----------------------------------------------------------------------------
(* Safe mode.                                                               *)

\* A notification leaves its channel, and a reply to it was tried.
LEMMA DrainedStep ==
  ASSUME EngineInv, NEW n \in Notification, Reply(n), Owned(n),
         \A m \in Notification : Owned(m)' <=> Owned(m) /\ m # n,
         \A m \in Notification : Queued(m)' => Queued(m) /\ m # n,
         \A m \in Notification : In(m, failed') => In(m, failed),
         UNCHANGED <<pending, logged>>
  PROVE  /\ kern' \in [Notification -> {"none", "trapped", "sent", "answered"}]
         /\ replied' \subseteq Notification
         /\ OwnedSent' /\ NothingLost' /\ OneOwner'
  <1>1. /\ kern' \in [Notification -> {"none", "trapped", "sent", "answered"}]
        /\ replied' \subseteq Notification /\ n \in replied'
        /\ kern'[n] \in {"sent", "answered"}
        /\ \A m \in Notification : m # n => kern'[m] = kern[m]
        /\ \A m \in Notification : m # n => (m \in replied' <=> m \in replied)
    BY ReplyTo
  <1>2. OwnedSent' /\ NothingLost'
    BY <1>1 DEF EngineInv, OwnedSent, NothingLost
  <1>3. OneOwner'
    BY <1>1 DEF EngineInv, OneOwner
  <1> QED
    BY <1>1, <1>2, <1>3

\* A notification of ch is skipped without a handler.
LEMMA DrainMainStep ==
  ASSUME EngineInv, NEW w \in Worker, DrainMain(w)
  PROVE  EngineInv'
  <1> DEFINE n == Head(ch)
  <1>1. /\ ch # <<>> /\ ch' = Tail(ch)
        /\ IF n = Nil THEN UNCHANGED <<kern, replied>> ELSE Reply(n)
        /\ UNCHANGED <<exited, failed, receiver, fetched, nils, pc, pending, inPanic, drainers, logged>>
    BY DEF DrainMain
  <1>2. /\ n \in Notification \cup {Nil}
        /\ ch' \in Seq(Notification \cup {Nil}) /\ Len(ch') <= N /\ Distinct(ch')
        /\ In(n, ch)
        /\ \A m \in Notification : In(m, ch') <=> In(m, ch) /\ m # n
        /\ \A m : In(m, ch') => In(m, ch)
    BY <1>1, TakenFrom
  <1> HIDE DEF n
  <1>3. n # Nil => fetched # n /\ ~In(n, failed) /\ \A x \in Worker : pending[x] # n
    BY <1>2 DEF EngineInv, NoDuplicates, Queued, OneOwner
  <1>4. NoDuplicates' /\ Workers'
    BY <1>1, <1>2 DEF EngineInv, NoDuplicates, Workers
  <1>5. \A m \in Notification : Queued(m)' <=> Queued(m) /\ m # n
    BY <1>1, <1>2, <1>3, EngineAssumption DEF Queued
  <1>6. \A m \in Notification : Owned(m)' <=> Owned(m) /\ m # n
    BY <1>1, <1>3, <1>5, EngineAssumption DEF Owned
  <1>7. CASE n = Nil
    <2>1. \A m \in Notification : (Owned(m)' <=> Owned(m)) /\ (Queued(m)' <=> Queued(m))
      BY <1>5, <1>6, <1>7, EngineAssumption
    <2>2. TypeOK'
      BY <1>1, <1>2, <1>7 DEF EngineInv, TypeOK
    <2>3. OwnedSent' /\ NothingLost' /\ OneOwner'
      BY <1>1, <1>7, <2>1 DEF EngineInv, OwnedSent, NothingLost, OneOwner
    <2> QED
      BY <1>4, <2>2, <2>3 DEF EngineInv
  <1>8. CASE n # Nil
    <2>1. n \in Notification /\ Reply(n) /\ Owned(n)
      BY <1>1, <1>2, <1>8 DEF Owned, Queued
    <2>2. /\ kern' \in [Notification -> {"none", "trapped", "sent", "answered"}]
          /\ replied' \subseteq Notification
          /\ OwnedSent' /\ NothingLost' /\ OneOwner'
      BY <1>1, <1>5, <1>6, <2>1, DrainedStep
    <2>3. TypeOK'
      BY <1>1, <1>2, <2>2 DEF EngineInv, TypeOK
    <2> QED
      BY <1>4, <2>2, <2>3 DEF EngineInv
  <1> QED
    BY <1>7, <1>8

LEMMA DrainFailedStep ==
  ASSUME EngineInv, DrainFailed
  PROVE  EngineInv'
  <1> DEFINE n == Head(failed)
  <1>1. /\ failed # <<>> /\ failed' = Tail(failed) /\ Reply(n)
        /\ UNCHANGED <<exited, ch, receiver, fetched, nils, pc, pending, inPanic, drainers, logged>>
    BY DEF DrainFailed
  <1>2. failed \in Seq(Notification) /\ Len(failed) <= N /\ Distinct(failed)
    BY DEF EngineInv, TypeOK, NoDuplicates
  <1>3. /\ n \in Notification
        /\ Tail(failed) \in Seq(Notification) /\ Len(Tail(failed)) = Len(failed) - 1
        /\ In(n, failed)
        /\ \A m : In(m, failed) <=> m = n \/ In(m, Tail(failed))
    BY <1>1, <1>2, ReceivedFrom
  <1>4. Distinct(failed') /\ ~In(n, failed')
    BY <1>1, <1>2, <1>3, ReceivedOnce, EngineAssumption
  <1>5. failed' \in Seq(Notification) /\ Len(failed') <= N
    BY <1>1, <1>2, <1>3, WorkerCount
  <1> HIDE DEF n
  <1>6. \A m : In(m, failed') <=> In(m, failed) /\ m # n
    BY <1>1, <1>3, <1>4
  <1>7. ~Queued(n) /\ Owned(n) /\ \A x \in Worker : pending[x] # n
    BY <1>3 DEF EngineInv, OneOwner, Owned
  <1>8. \A m \in Notification : Owned(m)' <=> Owned(m) /\ m # n
    BY <1>1, <1>6, <1>7 DEF Owned, Queued
  <1>9. \A m \in Notification : Queued(m)' => Queued(m) /\ m # n
    BY <1>1, <1>7 DEF Queued
  <1>10. /\ kern' \in [Notification -> {"none", "trapped", "sent", "answered"}]
         /\ replied' \subseteq Notification
         /\ OwnedSent' /\ NothingLost' /\ OneOwner'
    BY <1>1, <1>3, <1>6, <1>7, <1>8, <1>9, DrainedStep
  <1>11. TypeOK' /\ Workers'
    BY <1>1, <1>5, <1>10 DEF EngineInv, TypeOK, Workers
  <1>12. NoDuplicates'
    BY <1>1, <1>4 DEF EngineInv, NoDuplicates
  <1> QED
    BY <1>10, <1>11, <1>12 DEF EngineInv
-----------------------------------------------------------------------------
(* The theorems.                                                            *)

LEMMA StepInv == EngineInv /\ [Next]_vars => EngineInv'
  <1> SUFFICES ASSUME EngineInv, [Next]_vars PROVE EngineInv'
    OBVIOUS
  <1>1. ASSUME NEW n \in Notification, Trap(n) PROVE EngineInv'
    BY <1>1, TrapStep
  <1>2. CASE Exit \/ Loop
    BY <1>2, CountStep, ReceiveStep, PushStep, PushNilStep DEF Loop
  <1>3. ASSUME NEW w \in Worker, Work(w) \/ Unblock(w) PROVE EngineInv'
    BY <1>3, TakeStep, HandleStep, GiveUpStep, PanicGuardStep, DrainMainStep DEF Work
  <1>4. CASE DrainFailed
    BY <1>4, DrainFailedStep
  <1>5. CASE UNCHANGED vars
    BY <1>5 DEF vars, EngineInv, TypeOK, Workers, NoDuplicates, OwnedSent, Owned, Queued, NothingLost, OneOwner
  <1> QED
    BY <1>1, <1>2, <1>3, <1>4, <1>5 DEF Next

\* The inductive invariant of Start, its workers and safe mode.
THEOREM Invariance == Spec => []EngineInv
  <1> QED
    BY InitInv, StepInv, PTL DEF Spec

\* The channels, labels and counters of engine.go keep their ranges, and a
\* worker holds a notification exactly while it works on it.
THEOREM TypeCorrect == Spec => []TypeOK
  <1>1. EngineInv => TypeOK
    BY DEF EngineInv
  <1> QED
    BY <1>1, Invariance, PTL

\* Whatever panics and whenever, a call that was received is with somebody
\* who will answer it, or was logged.
THEOREM NoCallLost == Spec => []NothingLost
  <1>1. EngineInv => NothingLost
    BY DEF EngineInv
  <1> QED
    BY <1>1, Invariance, PTL

\* And it is in one place only, and nobody has replied to it before it comes to
\* a worker or a drainer through ch.
THEOREM OwnedOnce == Spec => []OneOwner
  <1>1. EngineInv => OneOwner
    BY DEF EngineInv
  <1> QED
    BY <1>1, Invariance, PTL

-----------------------------------------------------------------------------
(* Nobody waits for a channel that nobody serves.                           *)

\* Only in safe mode does a worker return or drain, and safe mode has a
\* goroutine that drains failed.
SafeInv == /\ inPanic => drainers > 0
           /\ \A w \in Worker : pc[w] \in {"return", "drain"} => inPanic

\* Before it, workers end after the receive loop has, for only then is a nil
\* sent, and only after every notification in ch has been taken.
LoopInv == /\ In(Nil, ch) => receiver = "end"
           /\ \A i, j \in 1 .. Len(ch) : i < j /\ ch[i] = Nil => ch[j] = Nil
           /\ \A w \in Worker : pc[w] = "finished" =>
                 inPanic \/ (receiver = "end" /\ \A n \in Notification : ~In(n, ch))
           /\ receiver = "push" => fetched # Nil

\* A worker sends to failed once, and stops before a drainer is there.
Stopped == {w \in Worker : pc[w] \in {"guard", "drain", "finished"}}
FailedInv == /\ failed # <<>> => drainers > 0 \/ \E w \in Worker : pc[w] = "guard"
             /\ ~inPanic => Len(failed) <= Cardinality(Stopped)

ServeInv == SafeInv /\ LoopInv /\ FailedInv

LEMMA ServeInit == Init => ServeInv
  <1> SUFFICES ASSUME Init PROVE ServeInv
    OBVIOUS
  <1>1. SafeInv /\ LoopInv
    BY DEF Init, SafeInv, LoopInv, In
  <1>2. Cardinality(Stopped) = 0
    <2>1. Stopped = {}
      BY DEF Init, Stopped
    <2> QED
      BY <2>1, FS_EmptySet
  <1>3. FailedInv
    BY <1>2 DEF Init, FailedInv
  <1> QED
    BY <1>1, <1>3 DEF ServeInv

\* How a step moves the workers.
LEMMA Moved ==
  ASSUME EngineInv, [Next]_vars
  PROVE  \/ UNCHANGED <<pc, inPanic, drainers>>
         \/ \E w \in Worker : /\ PanicGuard(w)
                              /\ pc[w] = "guard" /\ pc' = [pc EXCEPT ![w] = "drain"]
                              /\ inPanic' = TRUE /\ drainers' = drainers + 1
         \/ \E w \in Worker, l \in Places :
               /\ pc[w] \notin {"guard", "drain", "finished"} /\ pc' = [pc EXCEPT ![w] = l]
               /\ l = "return" => inPanic
               /\ l # "drain"
               /\ l = "finished" => \/ pc[w] = "return"
                                    \/ ch # <<>> /\ Head(ch) = Nil /\ ch' = Tail(ch)
               /\ UNCHANGED <<inPanic, drainers>>
  <1>1. ASSUME NEW w \in Worker, Take(w) \/ Check(w)
        PROVE  \E l \in {"taken", "handle", "return", "finished"} :
                  /\ pc[w] \in {"idle", "taken"} /\ pc' = [pc EXCEPT ![w] = l]
                  /\ l = "return" => inPanic
                  /\ l = "finished" => ch # <<>> /\ Head(ch) = Nil /\ ch' = Tail(ch)
                  /\ UNCHANGED <<inPanic, drainers>>
    BY <1>1 DEF Take, Check, AfterCheck
  <1>2. ASSUME NEW w \in Worker, Handle(w) \/ Unblock(w) \/ Finish(w)
        PROVE  \E l \in {"idle", "panicking", "blocked", "woken", "ending"} :
                  /\ pc[w] \in Handling /\ pc' = [pc EXCEPT ![w] = l]
                  /\ UNCHANGED <<inPanic, drainers>>
    BY <1>2 DEF Handle, Unblock, Finish, Handling
  <1>3. ASSUME NEW w \in Worker, GiveUp(w)
        PROVE  \E l \in {"finished", "guard"} :
                  /\ pc[w] \in {"return", "panicking"} /\ pc' = [pc EXCEPT ![w] = l]
                  /\ l = "finished" => pc[w] = "return"
                  /\ UNCHANGED <<inPanic, drainers>>
    BY <1>3 DEF GiveUp
  <1>4. ASSUME NEW w \in Worker, PanicGuard(w)
        PROVE  /\ pc[w] = "guard" /\ pc' = [pc EXCEPT ![w] = "drain"]
               /\ inPanic' = TRUE /\ drainers' = drainers + 1
    BY <1>4 DEF PanicGuard, OneMoreDrainer
  <1>5. ASSUME NEW w \in Worker, DrainMain(w) PROVE UNCHANGED <<pc, inPanic, drainers>>
    BY <1>5 DEF DrainMain
  <1>6. ASSUME NEW n \in Notification, Trap(n) PROVE UNCHANGED <<pc, inPanic, drainers>>
    BY <1>6 DEF Trap
  <1>7. ASSUME Exit \/ Loop \/ DrainFailed \/ UNCHANGED vars PROVE UNCHANGED <<pc, inPanic, drainers>>
    BY <1>7 DEF Exit, Loop, Count, Receive, Push, PushNil, DrainFailed, vars
  <1> QED
    BY <1>1, <1>2, <1>3, <1>4, <1>5, <1>6, <1>7 DEF Next, Work, Places, Holding, Handling

LEMMA SafeStep ==
  ASSUME EngineInv, SafeInv, [Next]_vars
  PROVE  SafeInv'
  <1>1. pc \in [Worker -> Places] /\ drainers \in Nat
    <2>1. IsFiniteSet({w \in Worker : pc[w] = "drain"})
      BY EngineAssumption, FS_Subset
    <2> QED
      BY <2>1, FS_CardinalityType DEF EngineInv, TypeOK, Places, Holding, Handling
  <1>2. CASE UNCHANGED <<pc, inPanic, drainers>>
    BY <1>2 DEF SafeInv
  <1>3. ASSUME NEW w \in Worker, pc' = [pc EXCEPT ![w] = "drain"], inPanic' = TRUE, drainers' = drainers + 1
        PROVE  SafeInv'
    BY <1>1, <1>3 DEF SafeInv
  <1>4. ASSUME NEW w \in Worker, NEW l \in Places, pc' = [pc EXCEPT ![w] = l],
               l = "return" => inPanic, l # "drain", UNCHANGED <<inPanic, drainers>>
        PROVE  SafeInv'
    BY <1>1, <1>4 DEF SafeInv
  <1> QED
    BY <1>2, <1>3, <1>4, Moved

\* How a step moves ch, and when the receive loop does not.
LEMMA ChannelMoves ==
  ASSUME EngineInv, [Next]_vars
  PROVE  /\ \/ UNCHANGED ch
            \/ ch # <<>> /\ ch' = Tail(ch)
            \/ receiver = "push" /\ ch' = Append(ch, fetched)
            \/ receiver = "end" /\ ch' = Append(ch, Nil)
         /\ receiver = "end" => receiver' = "end"
         /\ receiver' = "push" => fetched' # Nil \/ (receiver = "push" /\ fetched' = fetched)
  BY EngineAssumption DEF Next, vars, Trap, Exit, Loop, Count, Receive, Push, PushNil, Work, Take, Check,
         Handle, Unblock, Finish, GiveUp, PanicGuard, DrainMain, DrainFailed

LEMMA LoopStep ==
  ASSUME EngineInv, SafeInv, LoopInv, [Next]_vars
  PROVE  LoopInv'
  <1>1. pc \in [Worker -> Places] /\ ch \in Seq(Notification \cup {Nil}) /\ fetched \in Notification \cup {Nil}
    BY DEF EngineInv, TypeOK, Places
  <1>2. /\ receiver = "end" => receiver' = "end"
        /\ inPanic => inPanic'
    <2>1. inPanic => inPanic'
      BY Moved
    <2> QED
      BY <2>1, ChannelMoves
  <1>3. ASSUME NEW x \in Worker, pc'[x] = "finished"
        PROVE  \/ pc[x] = "finished"
               \/ inPanic'
               \/ ch # <<>> /\ Head(ch) = Nil /\ ch' = Tail(ch)
    BY <1>1, <1>2, <1>3, Moved DEF SafeInv
  <1>4. receiver' = "push" => fetched' # Nil
    BY ChannelMoves DEF LoopInv
  <1>5. CASE UNCHANGED ch
    <2>1. In(Nil, ch') => receiver' = "end"
      BY <1>2, <1>5 DEF LoopInv
    <2>2. ASSUME NEW w \in Worker, pc'[w] = "finished"
          PROVE  inPanic' \/ (receiver' = "end" /\ \A n \in Notification : ~In(n, ch'))
      <3>1. ch # Tail(ch) \/ ch = <<>>
        <4>1. ch # <<>> => Len(Tail(ch)) = Len(ch) - 1 /\ Len(ch) \in Nat
          BY <1>1
        <4> QED
          BY <4>1
      <3>2. pc[w] = "finished" \/ inPanic'
        BY <1>3, <1>5, <2>2, <3>1
      <3> QED
        BY <1>2, <1>5, <3>2 DEF LoopInv
    <2> QED
      BY <1>4, <1>5, <2>1, <2>2 DEF LoopInv
  <1>6. CASE ch # <<>> /\ ch' = Tail(ch)
    <2>1. /\ Len(ch) \in Nat /\ Len(ch') = Len(ch) - 1
          /\ \A i \in 1 .. Len(ch') : i + 1 \in 1 .. Len(ch) /\ ch'[i] = ch[i + 1]
          /\ Head(ch) = ch[1] /\ 1 \in 1 .. Len(ch)
      BY <1>1, <1>6
    <2>2. \A n : In(n, ch') => In(n, ch)
      BY <1>1, <1>6, ReceivedFrom
    <2>3. In(Nil, ch') => receiver' = "end"
      BY <1>2, <2>2 DEF LoopInv
    <2>4. \A i, j \in 1 .. Len(ch') : i < j /\ ch'[i] = Nil => ch'[j] = Nil
      <3> SUFFICES ASSUME NEW i \in 1 .. Len(ch'), NEW j \in 1 .. Len(ch'), i < j, ch'[i] = Nil
                   PROVE  ch'[j] = Nil
        OBVIOUS
      <3>1. i + 1 \in 1 .. Len(ch) /\ j + 1 \in 1 .. Len(ch) /\ i + 1 < j + 1
        BY <2>1
      <3> QED
        BY <2>1, <3>1 DEF LoopInv
    <2>5. Head(ch) = Nil => receiver' = "end" /\ \A n \in Notification : ~In(n, ch')
      <3> SUFFICES ASSUME Head(ch) = Nil PROVE receiver = "end" /\ \A n \in Notification : ~In(n, ch')
        BY <1>2
      <3>1. receiver = "end"
        BY <1>1, <1>6, ReceivedFrom DEF LoopInv
      <3>2. ASSUME NEW i \in 1 .. Len(ch') PROVE ch'[i] = Nil
        <4>1. i + 1 \in 1 .. Len(ch) /\ 1 < i + 1 /\ ch'[i] = ch[i + 1] /\ ch[1] = Nil
          BY <2>1
        <4> QED
          BY <2>1, <4>1 DEF LoopInv
      <3> QED
        BY <3>1, <3>2, EngineAssumption DEF In
    <2>6. ASSUME NEW w \in Worker, pc'[w] = "finished"
          PROVE  inPanic' \/ (receiver' = "end" /\ \A n \in Notification : ~In(n, ch'))
      BY <1>2, <1>3, <2>2, <2>5, <2>6 DEF LoopInv
    <2> QED
      BY <1>4, <2>3, <2>4, <2>6 DEF LoopInv
  <1>7. ASSUME NEW x \in Notification \cup {Nil}, ch' = Append(ch, x),
               (x = Nil /\ receiver = "end") \/ (x # Nil /\ receiver = "push")
        PROVE  LoopInv'
    <2>1. \A n : In(n, ch') <=> In(n, ch) \/ n = x
      BY <1>1, <1>7, Sent
    <2>2. In(Nil, ch') => receiver' = "end"
      BY <1>2, <1>7, <2>1 DEF LoopInv
    <2>3. /\ Len(ch) \in Nat /\ Len(ch') = Len(ch) + 1 /\ ch'[Len(ch) + 1] = x
          /\ \A i \in 1 .. Len(ch) : ch'[i] = ch[i]
      BY <1>1, <1>7
    <2>4. \A i, j \in 1 .. Len(ch') : i < j /\ ch'[i] = Nil => ch'[j] = Nil
      <3> SUFFICES ASSUME NEW i \in 1 .. Len(ch'), NEW j \in 1 .. Len(ch'), i < j, ch'[i] = Nil
                   PROVE  ch'[j] = Nil
        OBVIOUS
      <3>1. i \in 1 .. Len(ch) /\ ch[i] = Nil
        BY <2>3
      <3>2. x = Nil
        BY <1>7, <3>1 DEF LoopInv, In
      <3>3. CASE j \in 1 .. Len(ch)
        BY <2>3, <3>1, <3>3 DEF LoopInv
      <3>4. CASE j = Len(ch) + 1
        BY <2>3, <3>2, <3>4
      <3> QED
        BY <2>3, <3>3, <3>4
    <2>5. ASSUME NEW w \in Worker, pc'[w] = "finished"
          PROVE  inPanic' \/ (receiver' = "end" /\ \A n \in Notification : ~In(n, ch'))
      <3>1. ch' # Tail(ch) \/ ch = <<>>
        <4>1. ch # <<>> => Len(Tail(ch)) = Len(ch) - 1
          BY <1>1
        <4> QED
          BY <2>3, <4>1
      <3>2. pc[w] = "finished" \/ inPanic'
        BY <1>3, <2>5, <3>1
      <3>3. CASE pc[w] = "finished" /\ ~inPanic'
        <4>1. receiver = "end" /\ \A n \in Notification : ~In(n, ch)
          BY <1>2, <3>3 DEF LoopInv
        <4>2. x = Nil
          BY <1>7, <4>1
        <4> QED
          BY <1>2, <2>1, <4>1, <4>2, EngineAssumption
      <3> QED
        BY <3>2, <3>3
    <2> QED
      BY <1>4, <2>2, <2>4, <2>5 DEF LoopInv
  <1>8. receiver = "push" => fetched # Nil
    BY DEF LoopInv
  <1>9. CASE receiver = "push" /\ ch' = Append(ch, fetched)
    BY <1>1, <1>7, <1>8, <1>9
  <1>10. CASE receiver = "end" /\ ch' = Append(ch, Nil)
    BY <1>7, <1>10
  <1> QED
    BY <1>5, <1>6, <1>9, <1>10, ChannelMoves

\* Workers that have stopped stay so, and a worker stops when it sends.
LEMMA StoppedGrows ==
  ASSUME EngineInv, [Next]_vars
  PROVE  /\ Cardinality(Stopped) \in Nat /\ Cardinality(Stopped') \in Nat
         /\ Cardinality(Stopped) <= Cardinality(Stopped')
         /\ \A w \in Worker : GiveUp(w) => Cardinality(Stopped') = Cardinality(Stopped) + 1
  <1>1. pc \in [Worker -> Places]
    BY DEF EngineInv, TypeOK, Places, Holding, Handling
  <1>2. Stopped \subseteq Stopped'
    BY <1>1, Moved DEF Stopped
  <1>3. IsFiniteSet(Stopped) /\ IsFiniteSet(Stopped')
    BY EngineAssumption, FS_Subset DEF Stopped
  <1>4. ASSUME NEW w \in Worker, GiveUp(w) PROVE w \notin Stopped /\ Stopped' = Stopped \cup {w}
    <2>1. \E l \in {"finished", "guard"} : pc[w] \in {"return", "panicking"} /\ pc' = [pc EXCEPT ![w] = l]
      BY <1>4 DEF GiveUp
    <2> QED
      BY <1>1, <2>1 DEF Stopped
  <1>5. \A w \in Worker : GiveUp(w) => Cardinality(Stopped') = Cardinality(Stopped) + 1
    BY <1>3, <1>4, FS_AddElement
  <1>6. Cardinality(Stopped) \in Nat /\ Cardinality(Stopped') \in Nat
    BY <1>3, FS_CardinalityType
  <1>7. Cardinality(Stopped) <= Cardinality(Stopped')
    BY <1>2, <1>3, FS_Subset
  <1> QED
    BY <1>5, <1>6, <1>7

LEMMA FailedStep ==
  ASSUME EngineInv, SafeInv, FailedInv, [Next]_vars
  PROVE  FailedInv'
  <1>1. /\ pc \in [Worker -> Places] /\ failed \in Seq(Notification) /\ Len(failed) \in Nat
        /\ drainers \in Nat
    <2>1. IsFiniteSet({w \in Worker : pc[w] = "drain"})
      BY EngineAssumption, FS_Subset
    <2>2. drainers \in Nat
      BY <2>1, FS_CardinalityType DEF EngineInv, TypeOK
    <2> QED
      BY <2>2 DEF EngineInv, TypeOK, Places, Holding, Handling
  <1>2. (drainers' = drainers \/ drainers' = drainers + 1) /\ (~inPanic' => ~inPanic)
    <2>1. drainers' = drainers \/ drainers' = drainers + 1
      BY Moved
    <2>2. ~inPanic' => ~inPanic
      BY Moved
    <2> QED
      BY <2>1, <2>2
  <1>3. CASE UNCHANGED failed
    <2>1. ASSUME NEW w \in Worker, pc[w] = "guard" PROVE pc'[w] = "guard" \/ drainers' > 0
      <3>1. pc'[w] = "guard" \/ drainers' = drainers + 1
        BY <1>1, <2>1, Moved
      <3> QED
        BY <1>1, <3>1
    <2>2. failed' # <<>> => drainers' > 0 \/ \E w \in Worker : pc'[w] = "guard"
      <3>1. drainers > 0 => drainers' > 0
        BY <1>1, <1>2
      <3> QED
        BY <1>3, <2>1, <3>1 DEF FailedInv
    <2>3. ~inPanic' => Len(failed') <= Cardinality(Stopped')
      BY <1>1, <1>2, <1>3, StoppedGrows DEF FailedInv
    <2> QED
      BY <2>2, <2>3 DEF FailedInv, Stopped
  <1>4. ASSUME NEW w \in Worker, GiveUp(w) PROVE FailedInv'
    <2>1. /\ pc[w] \in {"return", "panicking"} /\ failed' = Append(failed, pending[w])
          /\ pc' = [pc EXCEPT ![w] = IF @ = "return" THEN "finished" ELSE "guard"]
          /\ UNCHANGED <<inPanic, drainers>>
      BY <1>4 DEF GiveUp, KeepPending
    <2>2. pending[w] \in Notification
      BY <2>1 DEF EngineInv, TypeOK, Workers
    <2>3. Len(failed') = Len(failed) + 1
      BY <1>1, <2>1, <2>2
    <2>4. drainers' > 0 \/ \E x \in Worker : pc'[x] = "guard"
      BY <1>1, <2>1 DEF SafeInv
    <2>5. ~inPanic' => Len(failed') <= Cardinality(Stopped')
      BY <1>1, <1>2, <1>4, <2>3, StoppedGrows DEF FailedInv
    <2> QED
      BY <2>4, <2>5 DEF FailedInv, Stopped
  <1>5. CASE DrainFailed
    <2>1. drainers > 0 /\ failed # <<>> /\ failed' = Tail(failed)
      BY <1>5 DEF DrainFailed
    <2>2. Len(failed') = Len(failed) - 1
      BY <1>1, <2>1
    <2>3. drainers' > 0
      BY <1>1, <1>2, <2>1
    <2>4. ~inPanic' => Len(failed') <= Cardinality(Stopped')
      BY <1>1, <1>2, <2>2, StoppedGrows DEF FailedInv
    <2> QED
      BY <2>3, <2>4 DEF FailedInv, Stopped
  <1>6. UNCHANGED failed \/ (\E w \in Worker : GiveUp(w)) \/ DrainFailed
    BY DEF Next, vars, Trap, Exit, Loop, Count, Receive, Push, PushNil, Work, Take, Check, Handle, Unblock,
           Finish, PanicGuard, DrainMain
  <1> QED
    BY <1>3, <1>4, <1>5, <1>6

\* What they wait for comes: the invariant implies the property.
LEMMA Serves == EngineInv /\ ServeInv => ChannelsServed
  <1> SUFFICES ASSUME EngineInv, ServeInv PROVE ChannelsServed
    OBVIOUS
  <1> USE DEF ServeInv
  <1>1. \A n \in Notification : Queued(n) => inPanic \/ \A w \in Worker : pc[w] # "finished"
    BY EngineAssumption DEF EngineInv, NoDuplicates, Queued, LoopInv
  <1>2. inPanic => drainers > 0 /\ \E w \in Worker : pc[w] = "drain"
    <2> SUFFICES ASSUME inPanic, \A w \in Worker : pc[w] # "drain" PROVE FALSE
      BY DEF SafeInv
    <2>1. {w \in Worker : pc[w] = "drain"} = {}
      OBVIOUS
    <2>2. drainers = 0
      BY <2>1, FS_EmptySet DEF EngineInv, TypeOK
    <2> QED
      BY <2>2 DEF SafeInv
  <1>3. failed # <<>> => drainers > 0 \/ \E w \in Worker : pc[w] = "guard"
    BY DEF FailedInv
  <1>4. ASSUME NEW w \in Worker, pc[w] \in {"return", "panicking"}
        PROVE  Len(failed) < N \/ drainers > 0
    <2>1. CASE inPanic
      BY <2>1 DEF SafeInv
    <2>2. CASE ~inPanic
      <3>1. Stopped \subseteq Worker /\ Stopped # Worker
        BY <1>4 DEF Stopped
      <3>2. Cardinality(Stopped) < N /\ Cardinality(Stopped) \in Nat /\ N \in Nat
        BY <3>1, EngineAssumption, FS_Subset, FS_CardinalityType, WorkerCount DEF N
      <3>3. Len(failed) \in Nat
        BY DEF EngineInv, TypeOK
      <3> QED
        BY <2>2, <3>2, <3>3 DEF FailedInv
    <2> QED
      BY <2>1, <2>2
  <1> QED
    BY <1>1, <1>2, <1>3, <1>4 DEF ChannelsServed

\* Whatever panics and whenever, no goroutine of the engine waits for a channel
\* that nobody reads, and none is held by a channel that nobody empties.
THEOREM ChannelsHaveReaders == Spec => []ChannelsServed
  <1>1. EngineInv /\ ServeInv /\ [Next]_vars => ServeInv'
    BY SafeStep, LoopStep, FailedStep DEF ServeInv
  <1>2. Spec => []ServeInv
    BY <1>1, ServeInit, Invariance, PTL DEF Spec
  <1> QED
    BY <1>2, Serves, Invariance, PTL
-----------------------------------------------------------------------------
(* Refinement: the tracee's call is answered at most once.                  *)

\* The calls in hand are those that wait for their reply and were not given up.
HandsMatch == InHand = {n \in Notification : kern[n] = "sent" /\ n \notin logged /\ n \notin replied}
LEMMA HandIs == EngineInv => HandsMatch
  <1> SUFFICES ASSUME EngineInv, NEW n \in Notification
               PROVE  Owned(n) /\ n \notin replied <=> kern[n] = "sent" /\ n \notin logged /\ n \notin replied
    BY DEF InHand, HandsMatch
  <1>1. Owned(n) /\ n \notin replied => kern[n] = "sent"
    BY DEF EngineInv, OwnedSent
  <1>2. Owned(n) => n \notin logged
    BY DEF EngineInv, OneOwner
  <1>3. kern[n] = "sent" /\ n \notin logged /\ n \notin replied => Owned(n)
    BY DEF EngineInv, NothingLost
  <1> QED
    BY <1>1, <1>2, <1>3

\* Whoever replies to a call has it, and nobody can reply to it afterwards, with
\* a panic after the reply either: workers, unblocked calls and drainers together
\* give one answer at most.
THEOREM Refinement == Spec => ImplementsTracedCall
<1> USE DEF Tracee!CNext
<1>1. Init => Tracee!CInit
  <2> SUFFICES ASSUME Init PROVE Tracee!CInit
    OBVIOUS
  <2>1. InHand = {}
    BY InitInv, HandIs DEF Init, HandsMatch
  <2>2. QED
    BY <2>1 DEF Init, Tracee!CInit
<1>2. ASSUME EngineInv, [Next]_vars, HandsMatch, HandsMatch'
      PROVE  [Tracee!CNext]_<<kern, InHand>>
  <2> USE DEF HandsMatch
  <2>a. /\ kern \in [Notification -> {"none", "trapped", "sent", "answered"}]
        /\ replied \subseteq Notification
    BY <1>2 DEF EngineInv, TypeOK
  <2>0. \A n \in Notification : Owned(n) /\ n \notin replied => n \in InHand
    BY DEF InHand
\* A reply, the second one and the refused one too, and a step that moves calls
\* from hand to hand.
  <2>1. ASSUME NEW n \in Notification, Owned(n), Reply(n), UNCHANGED logged
        PROVE  [Tracee!CNext]_<<kern, InHand>>
    <3>1. CASE n \in replied
      BY <1>2, <2>1, <3>1 DEF Reply, Claimable
    <3>2. CASE n \notin replied
      <4>1. /\ n \in InHand /\ kern[n] = "sent" /\ replied' = replied \cup {n}
            /\ kern' = kern \/ kern' = [kern EXCEPT ![n] = "answered"]
        BY <1>2, <2>0, <2>1, <3>2 DEF Reply, Claimable
      <4>2. InHand' = InHand \ {n}
        BY <1>2, <2>a, <2>1, <4>1
      <4>3. Tracee!CAnswer(n) \/ Tracee!CGiveUp(n)
        BY <4>1, <4>2 DEF Tracee!CAnswer, Tracee!CGiveUp
      <4> QED
        BY <4>3
    <3> QED
      BY <3>1, <3>2
  <2>h. ASSUME UNCHANGED <<kern, replied, logged>>
        PROVE  [Tracee!CNext]_<<kern, InHand>>
    BY <1>2, <2>h
  <2>2. ASSUME NEW w \in Worker, Handle(w)
        PROVE  [Tracee!CNext]_<<kern, InHand>>
    <3>1. pending[w] \in Notification /\ Owned(pending[w])
      <4>1. pc[w] \in Holding
        BY <2>2 DEF Handle, Holding, Handling
      <4>2. pending[w] \in Notification
        BY <1>2, <4>1 DEF EngineInv, TypeOK, Workers
      <4> QED
        BY <4>2 DEF Owned
    <3> QED
      BY <2>1, <2>2, <2>h, <3>1 DEF Handle
  <2>9. ASSUME NEW w \in Worker, Finish(w)
        PROVE  [Tracee!CNext]_<<kern, InHand>>
    <3>1. pending[w] \in Notification /\ Owned(pending[w])
      <4>1. pc[w] \in Holding
        BY <2>9 DEF Finish, Holding, Handling
      <4>2. pending[w] \in Notification
        BY <1>2, <4>1 DEF EngineInv, TypeOK, Workers
      <4> QED
        BY <4>2 DEF Owned
    <3>2. UNCHANGED <<kern, replied>>
      BY <2>9 DEF Finish
    <3>3. CASE UNCHANGED logged
      BY <2>h, <3>2, <3>3
    <3>4. CASE logged' = logged \cup {pending[w]}
      <4>1. InHand' = InHand \ {pending[w]}
        BY <1>2, <3>2, <3>4
      <4>2. CASE pending[w] \in replied
        <5>1. InHand' = InHand
          BY <1>2, <4>1, <4>2
        <5> QED
          BY <3>2, <5>1
      <4>3. CASE pending[w] \notin replied
        <5>1. Tracee!CGiveUp(pending[w])
          BY <2>0, <3>1, <3>2, <4>1, <4>3 DEF Tracee!CGiveUp
        <5> QED
          BY <3>1, <5>1
      <4> QED
        BY <4>2, <4>3
    <3> QED
      BY <2>9, <3>3, <3>4 DEF Finish
  <2>3. ASSUME NEW w \in Worker, DrainMain(w)
        PROVE  [Tracee!CNext]_<<kern, InHand>>
    <3>1. ch \in Seq(Notification \cup {Nil}) /\ ch # <<>> /\ UNCHANGED logged
      BY <1>2, <2>3 DEF DrainMain, EngineInv, TypeOK
    <3>2. Head(ch) \in Notification \cup {Nil} /\ In(Head(ch), ch)
      BY <3>1, ReceivedFrom
    <3>3. CASE Head(ch) = Nil
      BY <2>3, <2>h, <3>1, <3>3 DEF DrainMain
    <3>4. CASE Head(ch) # Nil
      BY <2>1, <2>3, <3>1, <3>2, <3>4 DEF DrainMain, Owned, Queued
    <3> QED
      BY <3>3, <3>4
  <2>4. CASE DrainFailed
    <3>1. /\ failed \in Seq(Notification) /\ failed # <<>> /\ Reply(Head(failed))
          /\ UNCHANGED logged
      BY <1>2, <2>4 DEF DrainFailed, EngineInv, TypeOK
    <3>2. Head(failed) \in Notification /\ In(Head(failed), failed)
      BY <3>1, ReceivedFrom
    <3> QED
      BY <2>1, <3>1, <3>2 DEF Owned
  <2>5. ASSUME NEW n \in Notification, Trap(n)
        PROVE  [Tracee!CNext]_<<kern, InHand>>
    <3>1. kern[n] = "none" /\ kern' = [kern EXCEPT ![n] = "trapped"] /\ UNCHANGED <<replied, logged>>
      BY <2>5 DEF Trap
    <3>2. InHand' = InHand
      BY <1>2, <2>a, <3>1
    <3>3. Tracee!CTrap(n)
      BY <3>1, <3>2 DEF Tracee!CTrap
    <3> QED
      BY <3>3
  <2>6. CASE Loop
    <3>1. CASE UNCHANGED kern
      BY <2>6, <2>h, <3>1 DEF Loop, Count, Receive, Push, PushNil
    <3>2. CASE \E n \in Notification : kern[n] = "trapped" /\ kern' = [kern EXCEPT ![n] = "sent"]
      <4>1. PICK n \in Notification : kern[n] = "trapped" /\ kern' = [kern EXCEPT ![n] = "sent"]
        BY <3>2
      <4>2. logged' = logged /\ replied' = replied
        BY <2>6 DEF Loop, Count, Receive, Push, PushNil
      <4>3. n \notin logged /\ n \notin replied
        BY <1>2, <4>1 DEF EngineInv, OwnedSent
      <4>4. InHand' = InHand \cup {n}
        BY <1>2, <2>a, <4>1, <4>2, <4>3
      <4>5. Tracee!CReceive(n)
        BY <4>1, <4>4 DEF Tracee!CReceive
      <4> QED
        BY <4>5
    <3> QED
      BY <2>6, <3>1, <3>2 DEF Loop, Count, Receive, Push, PushNil
  <2>7. ASSUME NEW w \in Worker, Take(w) \/ Check(w) \/ Unblock(w) \/ GiveUp(w) \/ PanicGuard(w)
        PROVE  [Tracee!CNext]_<<kern, InHand>>
    BY <2>7, <2>h DEF Take, Check, Unblock, GiveUp, PanicGuard
  <2>8. CASE Exit \/ UNCHANGED vars
    BY <2>8, <2>h DEF Exit, vars
  <2> QED
    BY <1>2, <2>2, <2>3, <2>4, <2>5, <2>6, <2>7, <2>8, <2>9 DEF Next, Work
<1>3. Spec => [](EngineInv /\ HandsMatch)
  BY HandIs, Invariance, PTL
<1>4. EngineInv /\ HandsMatch /\ HandsMatch' /\ [Next]_vars => [Tracee!CNext]_<<kern, InHand>>
  BY <1>2
<1>5. QED
  BY <1>1, <1>3, <1>4, PTL DEF Spec, ImplementsTracedCall, Tracee!CSpec
=============================================================================
