-------------------------- MODULE CloudflareProofs --------------------------
(***************************************************************************)
(* What CloudflareClient keeps for every number of invocations and fetches *)
(* and every way of starting them: events are lost only with a broken body *)
(* or a cut off invocation, and the endpoint gets each event once and      *)
(* whole.  The argument is that a pending event is always in a promise     *)
(* that its invocation waits for, and that it is only published when both  *)
(* bodies were read.                                                       *)
(***************************************************************************)
EXTENDS CloudflareClient, TLAPS

Messages == [call: Calls, error: BOOLEAN,
             bodies: {"stream", "done", "failed"} \X {"stream", "done", "failed"}]

\* A call has no event before its origin has answered or failed.
Started == \A c \in Calls : pc[c] \in {"idle", "origin"} => event[c] = "none"

\* A call belongs to an invocation that has begun.
Parents == \A c \in Calls : pc[c] # "idle" => parent[c] \in Requests /\ pc[parent[c]] # "idle"

\* A token of the environment is kept from the first wrapped request on.
TokenKept == \A r \in Requests \ Bare : env /\ pc[r] # "idle" => token

\* A pending event is in a promise that the invocation waits for.
Awaited == \A c \in Calls : Pending(c) => c \in until

\* An event is not published before its bodies.
BodiesRead == \A c \in Calls : event[c] = "publishing" => origin[c] = "error" \/ BothRead(c)

\* The endpoint has only what was published.
Delivered == \A i \in DOMAIN inbox : event[inbox[i].call] = "published"

CloudflareInv == /\ TypeOK
                 /\ inbox \in Seq(Messages)
                 /\ Started
                 /\ Parents
                 /\ TokenKept
                 /\ Awaited
                 /\ BodiesRead
                 /\ Delivered
                 /\ NothingLost
                 /\ CompleteOnce
-----------------------------------------------------------------------------
(* Initially.                                                               *)

LEMMA InitInv == Init => CloudflareInv
  <1> SUFFICES ASSUME Init PROVE CloudflareInv
    OBVIOUS
  <1>1. TypeOK
    BY DEF Init, TypeOK, Calls
  <1>2. inbox \in Seq(Messages) /\ DOMAIN inbox = {}
    BY DEF Init
  <1>3. Started /\ Parents /\ TokenKept /\ Awaited /\ BodiesRead /\ NothingLost
    BY DEF Init, Started, Parents, TokenKept, Awaited, BodiesRead, NothingLost, Pending, Calls
  <1>4. Delivered /\ CompleteOnce
    BY <1>2 DEF Delivered, CompleteOnce
  <1> QED
    BY <1>1, <1>2, <1>3, <1>4 DEF CloudflareInv

(* The inbox is only changed by Posted: what it holds stays, as long as a   *)
(* published event stays published.                                         *)
LEMMA InboxKept ==
  ASSUME CloudflareInv, inbox' = inbox,
         \A c \in Calls : event[c] = "published" => event'[c] = "published"
  PROVE  inbox' \in Seq(Messages) /\ Delivered' /\ CompleteOnce'
  <1>1. \A i \in DOMAIN inbox : inbox[i].call \in Calls
    <2> TAKE i \in DOMAIN inbox
    <2>1. inbox[i] \in Messages
      BY DEF CloudflareInv
    <2> QED
      BY <2>1 DEF Messages
  <1>2. Delivered'
    BY <1>1 DEF CloudflareInv, Delivered
  <1>3. CompleteOnce'
    BY DEF CloudflareInv, CompleteOnce
  <1> QED
    BY <1>2, <1>3 DEF CloudflareInv
-----------------------------------------------------------------------------
(* The calls.                                                               *)

\* The flags that say where the tracing code threw.
LEMMA BrokeType ==
  ASSUME broke \in [Calls -> BOOLEAN], NEW c \in Calls,
         broke' = broke \/ broke' = [broke EXCEPT ![c] = TRUE]
  PROVE  broke' \in [Calls -> BOOLEAN]
  <1>1. CASE broke' = broke
    BY <1>1
  <1>2. CASE broke' = [broke EXCEPT ![c] = TRUE]
    BY <1>2
  <1> QED
    BY <1>1, <1>2

LEMMA BeginStep ==
  ASSUME CloudflareInv, NEW c \in Calls, NEW r \in Requests, Begin(c, r)
  PROVE  CloudflareInv'
  <1> USE DEF Begin
  <1>1. TypeOK'
    <2>1. token' \in BOOLEAN
      <3>1. token' = Kept(c)
        OBVIOUS
      <3>2. Kept(c) \in BOOLEAN
        BY Zenon DEF Kept
      <3> QED
        BY <3>1, <3>2
    <2>2. /\ pc' \in [Calls -> {"idle", "origin", "returned", "threw", "cancelled"}]
          /\ parent' \in [Calls -> Calls]
      BY DEF CloudflareInv, TypeOK, Calls
    <2>3. broke' \in [Calls -> BOOLEAN]
      BY BrokeType DEF CloudflareInv, TypeOK
    <2> QED
      BY <2>1, <2>2, <2>3 DEF CloudflareInv, TypeOK
  <1>2. event[c] = "none" /\ event' = event
    BY DEF CloudflareInv, Started
  <1>3. Started'
    BY <1>2 DEF CloudflareInv, Started, TypeOK
  <1>4. pc'[r] # "idle"
    BY DEF CloudflareInv, TypeOK, Calls
  <1>5. \A d \in Calls : pc[d] # "idle" => pc'[d] # "idle" /\ parent'[d] = parent[d]
    BY DEF CloudflareInv, TypeOK
  <1>6. Parents'
    <2> SUFFICES ASSUME NEW d \in Calls, pc'[d] # "idle"
                 PROVE  parent'[d] \in Requests /\ pc'[parent'[d]] # "idle"
      BY DEF Parents
    <2>1. CASE d = c
      BY <2>1, <1>4 DEF CloudflareInv, TypeOK
    <2>2. CASE d # c
      <3>1. pc[d] # "idle"
        BY <2>2 DEF CloudflareInv, TypeOK
      <3>2. parent[d] \in Requests /\ pc[parent[d]] # "idle"
        BY <3>1 DEF CloudflareInv, Parents
      <3> QED
        BY <3>1, <3>2, <1>5 DEF Calls
    <2> QED
      BY <2>1, <2>2
  <1>7. TokenKept'
    <2> SUFFICES ASSUME NEW q \in Requests \ Bare, env, pc'[q] # "idle" PROVE token'
      BY DEF TokenKept
    <2>1. CASE q = c
      BY <2>1 DEF Kept, Traced
    <2>2. CASE q # c
      <3>1. pc[q] # "idle"
        BY <2>2 DEF CloudflareInv, TypeOK, Calls
      <3> QED
        BY <3>1 DEF CloudflareInv, TokenKept, Kept
    <2> QED
      BY <2>1, <2>2
  <1>8. Awaited' /\ BodiesRead'
    BY DEF CloudflareInv, Awaited, BodiesRead, Pending, BothRead
  <1>9. NothingLost'
    <2> SUFFICES ASSUME NEW d \in Calls
                 PROVE  /\ event[d] = "lost" => AnyFailed(d) \/ over[parent'[d]] = "cut"
                        /\ event[d] = "logged" => ~env \/ parent'[d] \in Bare
      BY DEF NothingLost, AnyFailed
    <2>1. CASE d = c
      BY <2>1, <1>2
    <2>2. CASE d # c
      <3>1. parent'[d] = parent[d]
        BY <2>2 DEF CloudflareInv, TypeOK
      <3> QED
        BY <3>1 DEF CloudflareInv, NothingLost
    <2> QED
      BY <2>1, <2>2
  <1>10. inbox' \in Seq(Messages) /\ Delivered' /\ CompleteOnce'
    BY InboxKept
  <1> QED
    BY <1>1, <1>3, <1>6, <1>7, <1>8, <1>9, <1>10 DEF CloudflareInv

(* An event that is published, or logged, when its call is still at its     *)
(* origin or waits for its bodies.                                          *)
LEMMA LoggedWithout ==
  ASSUME CloudflareInv, NEW c \in Calls, pc[c] # "idle", env, parent[c] \notin Bare
  PROVE  token
  <1>1. parent[c] \in Requests \ Bare /\ pc[parent[c]] # "idle"
    BY DEF CloudflareInv, Parents
  <1> QED
    BY <1>1 DEF CloudflareInv, TokenKept

(* A call that has begun never becomes idle again, nor changes invocation.  *)
LEMMA PcGoesOn ==
  ASSUME CloudflareInv, parent' = parent,
         \A c \in Calls : pc'[c] = "idle" <=> pc[c] = "idle"
  PROVE  Parents'
  <1> SUFFICES ASSUME NEW c \in Calls, pc[c] # "idle"
               PROVE  parent[c] \in Requests /\ pc'[parent[c]] # "idle"
    BY DEF Parents
  <1>1. parent[c] \in Requests /\ pc[parent[c]] # "idle"
    BY DEF CloudflareInv, Parents
  <1> QED
    BY <1>1 DEF Calls

\* The invocation of a lost event is one that the runtime knows.
LEMMA LostHasParent ==
  ASSUME CloudflareInv, NEW c \in Calls, event[c] = "lost"
  PROVE  parent[c] \in Requests
  BY DEF CloudflareInv, Started, Parents

LEMMA OriginFailsStep ==
  ASSUME CloudflareInv, NEW c \in Calls, OriginFails(c)
  PROVE  CloudflareInv'
  <1> USE DEF OriginFails, Publish, WaitUntil
  <1>1. TypeOK'
    BY DEF CloudflareInv, TypeOK
  <1>2. event[c] = "none"
    BY DEF CloudflareInv, Started
  <1>3. /\ pc' = [pc EXCEPT ![c] = "threw"]
        /\ origin' = [origin EXCEPT ![c] = "error"]
        /\ \/ event' = event /\ until' = until
           \/ event' = [event EXCEPT ![c] = "publishing"] /\ until' = until \cup {c}
           \/ event' = [event EXCEPT ![c] = "logged"] /\ until' = until \cup {c} /\ ~token
        /\ UNCHANGED <<env, token, parent, reqBody, resBody, inbox, over>>
    OBVIOUS
  <1> HIDE DEF OriginFails, Publish, WaitUntil
  <1>4. Started'
    BY <1>3 DEF CloudflareInv, Started, TypeOK
  <1>5. Parents'
    BY <1>3, PcGoesOn DEF OriginFails, CloudflareInv, TypeOK
  <1>6. TokenKept'
    BY <1>3 DEF CloudflareInv, TokenKept, TypeOK, OriginFails
  <1>7. Awaited'
    BY <1>3 DEF CloudflareInv, Awaited, Pending, TypeOK
  <1>8. BodiesRead'
    BY <1>3 DEF CloudflareInv, BodiesRead, BothRead, TypeOK
  <1>9. event'[c] = "logged" => ~env \/ parent[c] \in Bare
    BY <1>2, <1>3, LoggedWithout DEF OriginFails, CloudflareInv, TypeOK
  <1>10. NothingLost'
    <2> SUFFICES ASSUME NEW d \in Calls
                 PROVE  /\ event'[d] = "lost" => AnyFailed(d) \/ over[parent[d]] = "cut"
                        /\ event'[d] = "logged" => ~env \/ parent[d] \in Bare
      BY <1>3 DEF NothingLost, AnyFailed
    <2>1. CASE d = c
      BY <2>1, <1>2, <1>3, <1>9 DEF CloudflareInv, TypeOK
    <2>2. CASE d # c
      BY <2>2, <1>3 DEF CloudflareInv, NothingLost, TypeOK
    <2> QED
      BY <2>1, <2>2
  <1>11. \A d \in Calls : event[d] = "published" => event'[d] = "published"
    BY <1>2, <1>3 DEF CloudflareInv, TypeOK
  <1>12. inbox' \in Seq(Messages) /\ Delivered' /\ CompleteOnce'
    BY <1>3, <1>11, InboxKept
  <1> QED
    BY <1>1, <1>4, <1>5, <1>6, <1>7, <1>8, <1>10, <1>12 DEF CloudflareInv

LEMMA OriginAnswersStep ==
  ASSUME CloudflareInv, NEW c \in Calls, OriginAnswers(c)
  PROVE  CloudflareInv'
  <1>1. TypeOK'
    <2>1. broke' = broke \/ broke' = [broke EXCEPT ![c] = TRUE]
      BY DEF OriginAnswers
    <2>2. broke' \in [Calls -> BOOLEAN]
      BY <2>1, BrokeType DEF CloudflareInv, TypeOK
    <2>3. /\ pc' \in [Calls -> {"idle", "origin", "returned", "threw", "cancelled"}]
          /\ origin' \in [Calls -> {"none", "ok", "error"}]
          /\ event' \in [Calls -> {"none", "waiting", "publishing", "published", "refused", "logged", "lost"}]
          /\ until' \subseteq Calls
      BY DEF OriginAnswers, WaitUntil, CloudflareInv, TypeOK
    <2> QED
      BY <2>2, <2>3 DEF OriginAnswers, CloudflareInv, TypeOK
  <1>2. event[c] = "none"
    BY DEF OriginAnswers, CloudflareInv, Started
  <1>3. /\ pc[c] = "origin"
        /\ \/ pc' = [pc EXCEPT ![c] = "returned"]
           \/ pc' = [pc EXCEPT ![c] = "threw"]
        /\ \/ event' = event /\ until' = until
           \/ event' = [event EXCEPT ![c] = "none"] /\ until' = until
           \/ event' = [event EXCEPT ![c] = "waiting"] /\ until' = until \cup {c}
        /\ origin' = [origin EXCEPT ![c] = "ok"]
        /\ UNCHANGED <<env, token, parent, reqBody, resBody, inbox, over>>
    BY DEF OriginAnswers, WaitUntil
  <1>4. Started'
    BY <1>3 DEF CloudflareInv, Started, TypeOK
  <1>5. Parents'
    BY <1>3, PcGoesOn DEF CloudflareInv, TypeOK
  <1>6. TokenKept'
    BY <1>3 DEF CloudflareInv, TokenKept, TypeOK, Calls
  <1>7. Awaited'
    BY <1>3 DEF CloudflareInv, Awaited, Pending, TypeOK
  <1>8. BodiesRead'
    BY <1>2, <1>3 DEF CloudflareInv, BodiesRead, BothRead, TypeOK
  <1>9. NothingLost'
    BY <1>2, <1>3 DEF CloudflareInv, NothingLost, AnyFailed, TypeOK
  <1>10. \A d \in Calls : event[d] = "published" => event'[d] = "published"
    BY <1>2, <1>3 DEF CloudflareInv, TypeOK
  <1>11. inbox' \in Seq(Messages) /\ Delivered' /\ CompleteOnce'
    BY <1>3, <1>10, InboxKept
  <1> QED
    BY <1>1, <1>4, <1>5, <1>6, <1>7, <1>8, <1>9, <1>11 DEF CloudflareInv
-----------------------------------------------------------------------------
(* The bodies and the event.                                                *)

\* What was read, or has broken off, is not read again.
LEMMA ReadStep ==
  ASSUME CloudflareInv, NEW c \in Calls, ReadRequest(c) \/ ReadResponse(c)
  PROVE  CloudflareInv'
  <1>1. /\ \A d \in Calls : /\ reqBody[d] # "stream" => reqBody'[d] = reqBody[d]
                            /\ resBody[d] # "stream" => resBody'[d] = resBody[d]
        /\ TypeOK'
    BY DEF ReadRequest, ReadResponse, CloudflareInv, TypeOK
  <1>2. UNCHANGED <<env, token, pc, parent, origin, event, until, inbox, over>>
    BY DEF ReadRequest, ReadResponse
  <1>3. Started' /\ Parents' /\ TokenKept' /\ Awaited'
    BY <1>2 DEF CloudflareInv, Started, Parents, TokenKept, Awaited, Pending
  <1>4. BodiesRead'
    BY <1>1, <1>2 DEF CloudflareInv, BodiesRead, BothRead
  <1>5. NothingLost'
    BY <1>1, <1>2 DEF CloudflareInv, NothingLost, AnyFailed
  <1>6. inbox' \in Seq(Messages) /\ Delivered' /\ CompleteOnce'
    BY <1>2, InboxKept
  <1> QED
    BY <1>1, <1>3, <1>4, <1>5, <1>6 DEF CloudflareInv

LEMMA CollectStep ==
  ASSUME CloudflareInv, NEW c \in Calls, Collect(c)
  PROVE  CloudflareInv'
  <1>1. TypeOK'
    BY DEF Collect, Publish, CloudflareInv, TypeOK
  <1>2. /\ event[c] = "waiting"
        /\ \/ event' = [event EXCEPT ![c] = "publishing"] /\ BothRead(c)
           \/ event' = [event EXCEPT ![c] = "logged"] /\ ~token
           \/ event' = [event EXCEPT ![c] = "lost"] /\ AnyFailed(c)
        /\ UNCHANGED <<env, token, pc, parent, origin, reqBody, resBody, until, inbox, over>>
    BY DEF Collect, Publish
  <1>3. pc[c] \notin {"idle", "origin"}
    BY <1>2 DEF CloudflareInv, Started
  <1>4. Started'
    BY <1>2, <1>3 DEF CloudflareInv, Started, TypeOK
  <1>5. Parents' /\ TokenKept'
    BY <1>2 DEF CloudflareInv, Parents, TokenKept
  <1>6. Awaited'
    BY <1>2 DEF CloudflareInv, Awaited, Pending, TypeOK
  <1>7. BodiesRead'
    BY <1>2 DEF CloudflareInv, BodiesRead, BothRead, TypeOK
  <1>8. event'[c] = "logged" => ~env \/ parent[c] \in Bare
    BY <1>2, <1>3, LoggedWithout DEF CloudflareInv, TypeOK
  <1>9. NothingLost'
    <2> SUFFICES ASSUME NEW d \in Calls
                 PROVE  /\ event'[d] = "lost" => AnyFailed(d) \/ over[parent[d]] = "cut"
                        /\ event'[d] = "logged" => ~env \/ parent[d] \in Bare
      BY <1>2 DEF NothingLost, AnyFailed
    <2>1. CASE d = c
      BY <2>1, <1>2, <1>8 DEF CloudflareInv, TypeOK
    <2>2. CASE d # c
      BY <2>2, <1>2 DEF CloudflareInv, NothingLost, TypeOK
    <2> QED
      BY <2>1, <2>2
  <1>10. \A d \in Calls : event[d] = "published" => event'[d] = "published"
    BY <1>2 DEF CloudflareInv, TypeOK
  <1>11. inbox' \in Seq(Messages) /\ Delivered' /\ CompleteOnce'
    BY <1>2, <1>10, InboxKept
  <1> QED
    BY <1>1, <1>4, <1>5, <1>6, <1>7, <1>9, <1>11 DEF CloudflareInv

LEMMA PostedStep ==
  ASSUME CloudflareInv, NEW c \in Calls, Posted(c)
  PROVE  CloudflareInv'
  <1> DEFINE m == [call |-> c, error |-> origin[c] = "error", bodies |-> <<reqBody[c], resBody[c]>>]
  <1>1. TypeOK'
    BY DEF Posted, CloudflareInv, TypeOK
  <1>2. /\ event[c] = "publishing"
        /\ \/ event' = [event EXCEPT ![c] = "published"] /\ inbox' = Append(inbox, m)
           \/ event' = [event EXCEPT ![c] = "refused"] /\ inbox' = inbox
        /\ UNCHANGED <<env, token, pc, parent, origin, reqBody, resBody, until, over>>
    BY DEF Posted
  <1>3. m \in Messages
    <2>1. (origin[c] = "error") \in BOOLEAN
      BY Zenon
    <2>2. <<reqBody[c], resBody[c]>> \in {"stream", "done", "failed"} \X {"stream", "done", "failed"}
      BY DEF CloudflareInv, TypeOK
    <2> QED
      BY <2>1, <2>2 DEF Messages
  <1>4. m.call = c /\ (m.error \/ m.bodies = <<"done", "done">>)
    BY <1>2 DEF CloudflareInv, BodiesRead, BothRead
  <1> HIDE DEF m
  <1>5. Started'
    BY <1>2 DEF CloudflareInv, Started, TypeOK
  <1>6. Parents' /\ TokenKept'
    BY <1>2 DEF CloudflareInv, Parents, TokenKept
  <1>7. Awaited' /\ BodiesRead'
    BY <1>2 DEF CloudflareInv, Awaited, Pending, BodiesRead, BothRead, TypeOK
  <1>8. NothingLost'
    BY <1>2 DEF CloudflareInv, NothingLost, AnyFailed, TypeOK
  <1>9. \A d \in Calls : event[d] = "published" => event'[d] = "published"
    BY <1>2 DEF CloudflareInv, TypeOK
  <1>10. CASE inbox' = inbox
    <2>1. inbox' \in Seq(Messages) /\ Delivered' /\ CompleteOnce'
      BY <1>9, <1>10, InboxKept
    <2> QED
      BY <2>1, <1>1, <1>5, <1>6, <1>7, <1>8 DEF CloudflareInv
  <1>11. CASE event' = [event EXCEPT ![c] = "published"] /\ inbox' = Append(inbox, m)
    <2>1. /\ inbox' \in Seq(Messages)
          /\ DOMAIN inbox' = DOMAIN inbox \cup {Len(inbox) + 1}
          /\ inbox'[Len(inbox) + 1] = m
          /\ \A i \in DOMAIN inbox : inbox'[i] = inbox[i] /\ i # Len(inbox) + 1
      BY <1>3, <1>11 DEF CloudflareInv
    <2>2. \A i \in DOMAIN inbox : inbox[i].call \in Calls /\ inbox[i].call # c
      <3> TAKE i \in DOMAIN inbox
      <3>1. inbox[i] \in Messages
        BY DEF CloudflareInv
      <3>2. event[inbox[i].call] = "published"
        BY DEF CloudflareInv, Delivered
      <3> QED
        BY <3>1, <3>2, <1>2 DEF Messages
    <2>3. Delivered'
      BY <2>1, <2>2, <1>4, <1>11 DEF CloudflareInv, Delivered, TypeOK
    <2>4. CompleteOnce'
      BY <2>1, <2>2, <1>4 DEF CloudflareInv, CompleteOnce
    <2> QED
      BY <2>1, <2>3, <2>4, <1>1, <1>5, <1>6, <1>7, <1>8 DEF CloudflareInv
  <1> QED
    BY <1>2, <1>10, <1>11
-----------------------------------------------------------------------------
(* The runtime.                                                             *)

\* A pending event of an invocation that ends of itself would have kept it.
LEMMA StopStep ==
  ASSUME CloudflareInv, NEW r \in Requests, End(r) \/ CutOff(r)
  PROVE  CloudflareInv'
  <1>1. /\ over[r] = "running"
        /\ pc' = [c \in Calls |-> IF c \in CallsOf(r) /\ pc[c] = "origin" THEN "cancelled" ELSE pc[c]]
        /\ event' = [c \in Calls |-> IF c \in CallsOf(r) /\ Pending(c) THEN "lost" ELSE event[c]]
        /\ UNCHANGED <<env, token, parent, origin, broke, reqBody, resBody, until, inbox>>
    BY DEF End, CutOff, Stop
  <1>2. \/ /\ over' = [over EXCEPT ![r] = "ended"]
           /\ \A c \in CallsOf(r) \cap until : ~Pending(c)
        \/ over' = [over EXCEPT ![r] = "cut"]
    BY DEF End, CutOff, Stop
  <1>3. TypeOK'
    <2>1. /\ pc' \in [Calls -> {"idle", "origin", "returned", "threw", "cancelled"}]
          /\ event' \in [Calls -> {"none", "waiting", "publishing", "published", "refused", "logged", "lost"}]
      BY <1>1 DEF CloudflareInv, TypeOK
    <2>2. over' \in [Requests -> {"running", "ended", "cut"}]
      BY <1>2 DEF CloudflareInv, TypeOK
    <2> QED
      BY <2>1, <2>2, <1>1 DEF CloudflareInv, TypeOK
  <1>4. \A c \in Calls : /\ event'[c] = event[c] \/ (event'[c] = "lost" /\ parent[c] = r /\ Pending(c))
                         /\ pc'[c] = pc[c] \/ (pc[c] = "origin" /\ pc'[c] = "cancelled")
    BY <1>1 DEF CallsOf
  <1>5. Started'
    BY <1>4 DEF CloudflareInv, Started, Pending
  <1>6. Parents'
    BY <1>1, <1>4, PcGoesOn
  <1>7. TokenKept'
    BY <1>1, <1>4 DEF CloudflareInv, TokenKept, Calls
  <1>8. Awaited' /\ BodiesRead'
    BY <1>1, <1>4 DEF CloudflareInv, Awaited, Pending, BodiesRead, BothRead
  <1>9. NothingLost'
    <2> SUFFICES ASSUME NEW c \in Calls
                 PROVE  /\ event'[c] = "lost" => AnyFailed(c) \/ over'[parent[c]] = "cut"
                        /\ event'[c] = "logged" => ~env \/ parent[c] \in Bare
      BY <1>1 DEF NothingLost, AnyFailed
    <2>1. CASE event'[c] = event[c]
      <3>1. over[parent[c]] = "cut" /\ event[c] = "lost" => over'[parent[c]] = "cut"
        BY <1>1, <1>2, LostHasParent DEF CloudflareInv, TypeOK
      <3> QED
        BY <2>1, <3>1 DEF CloudflareInv, NothingLost
    <2>2. CASE event'[c] = "lost" /\ parent[c] = r /\ Pending(c)
      <3>1. c \in CallsOf(r) \cap until
        BY <2>2 DEF CallsOf, CloudflareInv, Awaited
      <3>2. over' = [over EXCEPT ![r] = "cut"]
        BY <3>1, <2>2, <1>2
      <3> QED
        BY <2>2, <3>2 DEF CloudflareInv, TypeOK
    <2> QED
      BY <2>1, <2>2, <1>4
  <1>10. inbox' \in Seq(Messages) /\ Delivered' /\ CompleteOnce'
    BY <1>1, <1>4, InboxKept DEF Pending
  <1> QED
    BY <1>3, <1>5, <1>6, <1>7, <1>8, <1>9, <1>10 DEF CloudflareInv
-----------------------------------------------------------------------------
(* The theorems.                                                            *)

LEMMA StepInv == CloudflareInv /\ [Next]_vars => CloudflareInv'
  <1> SUFFICES ASSUME CloudflareInv, [Next]_vars PROVE CloudflareInv'
    OBVIOUS
  <1>1. ASSUME NEW c \in Calls, NEW r \in Requests, Begin(c, r) PROVE CloudflareInv'
    BY <1>1, BeginStep
  <1>2. ASSUME NEW c \in Calls, OriginFails(c) PROVE CloudflareInv'
    BY <1>2, OriginFailsStep
  <1>3. ASSUME NEW c \in Calls, OriginAnswers(c) PROVE CloudflareInv'
    BY <1>3, OriginAnswersStep
  <1>4. ASSUME NEW c \in Calls, ReadRequest(c) \/ ReadResponse(c) PROVE CloudflareInv'
    BY <1>4, ReadStep
  <1>5. ASSUME NEW c \in Calls, Collect(c) PROVE CloudflareInv'
    BY <1>5, CollectStep
  <1>6. ASSUME NEW c \in Calls, Posted(c) PROVE CloudflareInv'
    BY <1>6, PostedStep
  <1>7. ASSUME NEW r \in Requests, End(r) \/ CutOff(r) PROVE CloudflareInv'
    BY <1>7, StopStep
  <1>8. CASE UNCHANGED vars
    BY <1>8 DEF vars, CloudflareInv, TypeOK, Started, Parents, TokenKept, Awaited, Pending,
                BodiesRead, BothRead, Delivered, NothingLost, AnyFailed, CompleteOnce
  <1> QED
    BY <1>1, <1>2, <1>3, <1>4, <1>5, <1>6, <1>7, <1>8 DEF Next

\* Every state of CloudflareClient is well typed and keeps the inductive
\* invariant: index.ts, createFetch and the wrapped handler.
THEOREM Invariance == Spec => []CloudflareInv
  <1> QED
    BY InitInv, StepInv, PTL DEF Spec

\* The end of an invocation takes no event with it, whatever the number of
\* invocations and fetches and whoever is first to see the token.
THEOREM EventsNotLost == Spec => []NothingLost
  <1>1. CloudflareInv => NothingLost
    BY DEF CloudflareInv
  <1> QED
    BY <1>1, Invariance, PTL

\* The endpoint receives no event twice and none without the bodies that the
\* application has read.
THEOREM EventsWhole == Spec => []CompleteOnce
  <1>1. CloudflareInv => CompleteOnce
    BY DEF CloudflareInv
  <1> QED
    BY <1>1, Invariance, PTL
-----------------------------------------------------------------------------
(* What an event waits for can come: the safety core of EventSettles.       *)

\* An invocation is its own parent, and is over only when its handler is.
Own == \A r \in Requests : parent[r] = r /\ (over[r] # "running" => Finished(r))

Answered == \A c \in Calls : pc[c] = "returned" => origin[c] = "ok"

OrphanInv == Own /\ Answered /\ NoOrphans

LEMMA OrphanInit == Init => OrphanInv
  BY DEF Init, OrphanInv, Own, Answered, NoOrphans, Pending, Calls

LEMMA OrphanBegin ==
  ASSUME CloudflareInv, OrphanInv, NEW c \in Calls, NEW r \in Requests, Begin(c, r)
  PROVE  OrphanInv'
  <1>1. /\ pc[c] = "idle" /\ event[c] = "none" /\ pc' = [pc EXCEPT ![c] = pc'[c]]
        /\ pc'[c] \in {"origin", "threw"}
        /\ parent' = [parent EXCEPT ![c] = r]
        /\ UNCHANGED <<origin, event, over>>
    BY DEF Begin, CloudflareInv, TypeOK, Started
  <1>2. over[r] = "running"
    BY <1>1 DEF Begin, OrphanInv, Own, Finished
  <1>3. Own'
    BY <1>1 DEF Begin, OrphanInv, Own, Finished, CloudflareInv, TypeOK, Calls
  <1>4. Answered'
    BY <1>1 DEF OrphanInv, Answered, CloudflareInv, TypeOK
  <1>5. Alive(c)' /\ \A d \in Calls : d # c => (Alive(d)' <=> Alive(d)) /\ pc'[d] = pc[d]
    BY <1>1, <1>2 DEF Alive, CloudflareInv, TypeOK
  <1>6. NoOrphans'
    <2>1. \A d \in Calls : pc'[d] = "origin" \/ Pending(d)' => Alive(d)'
      BY <1>1, <1>5 DEF OrphanInv, NoOrphans, Pending
    <2>2. \A d \in Calls : event'[d] = "waiting" => pc'[d] = "returned" /\ origin'[d] = "ok"
      BY <1>1, <1>5 DEF OrphanInv, NoOrphans
    <2>3. \A q \in Requests : over'[q] = "running" /\ pc'[q] = "returned" => Alive(q)' /\ origin'[q] = "ok"
      BY <1>1, <1>5 DEF OrphanInv, NoOrphans, Calls
    <2> QED
      BY <2>1, <2>2, <2>3 DEF NoOrphans
  <1> QED
    BY <1>3, <1>4, <1>6 DEF OrphanInv

\* What a call does while its invocation runs.
LEMMA OrphanCall ==
  ASSUME CloudflareInv, OrphanInv, NEW c \in Calls, Alive(c), UNCHANGED <<parent, over>>,
         \A d \in Calls : d # c => pc'[d] = pc[d] /\ event'[d] = event[d] /\ origin'[d] = origin[d],
         pc[c] \in {"returned", "threw"} => pc'[c] = pc[c],
         pc'[c] = "returned" => origin'[c] = "ok",
         event'[c] = "waiting" => pc'[c] = "returned"
  PROVE  OrphanInv'
  <1>1. \A d \in Calls : Alive(d)' <=> Alive(d)
    BY DEF Alive
  <1>2. Own'
    BY DEF OrphanInv, Own, Finished, Calls
  <1>3. Answered'
    BY DEF OrphanInv, Answered
  <1>4. NoOrphans'
    <2>1. \A d \in Calls : pc'[d] = "origin" \/ Pending(d)' => Alive(d)'
      BY <1>1 DEF OrphanInv, NoOrphans, Pending
    <2>2. \A d \in Calls : event'[d] = "waiting" => pc'[d] = "returned" /\ origin'[d] = "ok"
      BY DEF OrphanInv, NoOrphans
    <2>3. \A q \in Requests : over'[q] = "running" /\ pc'[q] = "returned" => Alive(q)' /\ origin'[q] = "ok"
      BY <1>1 DEF OrphanInv, NoOrphans, Calls
    <2> QED
      BY <2>1, <2>2, <2>3 DEF NoOrphans
  <1> QED
    BY <1>2, <1>3, <1>4 DEF OrphanInv

\* An invocation that ends takes its fetches and pending events with it.
LEMMA OrphanStop ==
  ASSUME CloudflareInv, OrphanInv, NEW r \in Requests, NEW how \in {"ended", "cut"},
         Finished(r), Stop(r, how)
  PROVE  OrphanInv'
  <1>1. /\ UNCHANGED <<parent, origin>> /\ over' = [over EXCEPT ![r] = how]
        /\ \A c \in Calls : pc'[c] = IF parent[c] = r /\ pc[c] = "origin" THEN "cancelled" ELSE pc[c]
        /\ \A c \in Calls : event'[c] = IF parent[c] = r /\ Pending(c) THEN "lost" ELSE event[c]
    BY DEF Stop, CallsOf
  <1>2. /\ \A q \in Requests : over'[q] = IF q = r THEN how ELSE over[q]
        /\ \A c \in Calls : Alive(c) /\ parent[c] # r => Alive(c)'
    BY <1>1 DEF Alive, CloudflareInv, TypeOK
  <1>3. Own'
    BY <1>1, <1>2 DEF OrphanInv, Own, Finished, Calls
  <1>4. Answered'
    BY <1>1 DEF OrphanInv, Answered
  <1>5. NoOrphans'
    <2>1. \A d \in Calls : pc'[d] = "origin" \/ Pending(d)' => Alive(d)'
      BY <1>1, <1>2 DEF OrphanInv, NoOrphans, Pending
    <2>2. \A d \in Calls : event'[d] = "waiting" => pc'[d] = "returned" /\ origin'[d] = "ok"
      BY <1>1 DEF OrphanInv, NoOrphans
    <2>3. \A q \in Requests : over'[q] = "running" /\ pc'[q] = "returned" => Alive(q)' /\ origin'[q] = "ok"
      <3> SUFFICES ASSUME NEW q \in Requests, over'[q] = "running", pc'[q] = "returned"
                   PROVE  Alive(q)' /\ origin'[q] = "ok"
        OBVIOUS
      <3>1. q # r /\ parent[q] = q /\ over[q] = "running" /\ pc[q] = "returned"
        BY <1>1, <1>2 DEF OrphanInv, Own, Calls
      <3> QED
        BY <1>1, <1>2, <3>1 DEF OrphanInv, NoOrphans, Calls
    <2> QED
      BY <2>1, <2>2, <2>3 DEF NoOrphans
  <1> QED
    BY <1>3, <1>4, <1>5 DEF OrphanInv

LEMMA OrphanStep ==
  ASSUME CloudflareInv, OrphanInv, [Next]_vars
  PROVE  OrphanInv'
  <1>1. ASSUME NEW c \in Calls, NEW r \in Requests, Begin(c, r) PROVE OrphanInv'
    BY <1>1, OrphanBegin
  <1>2. ASSUME NEW c \in Calls, OriginFails(c) PROVE OrphanInv'
    <2>1. /\ pc[c] = "origin" /\ Alive(c) /\ UNCHANGED <<parent, over>>
          /\ pc'[c] = "threw" /\ event'[c] # "waiting"
          /\ \A d \in Calls : d # c => pc'[d] = pc[d] /\ event'[d] = event[d] /\ origin'[d] = origin[d]
      BY <1>2 DEF OriginFails, Publish, CloudflareInv, TypeOK, Started
    <2> QED
      BY <2>1, OrphanCall
  <1>3. ASSUME NEW c \in Calls, OriginAnswers(c) PROVE OrphanInv'
    <2>1. /\ pc[c] = "origin" /\ Alive(c) /\ UNCHANGED <<parent, over>>
          /\ pc'[c] \in {"threw", "returned"} /\ origin'[c] = "ok"
          /\ event'[c] = "waiting" => pc'[c] = "returned"
          /\ \A d \in Calls : d # c => pc'[d] = pc[d] /\ event'[d] = event[d] /\ origin'[d] = origin[d]
      BY <1>3 DEF OriginAnswers, CloudflareInv, TypeOK, Started
    <2> QED
      BY <2>1, OrphanCall
  <1>4. ASSUME NEW c \in Calls, Collect(c) \/ Posted(c) PROVE OrphanInv'
    <2>1. /\ Alive(c) /\ UNCHANGED <<pc, origin, parent, over>> /\ event'[c] # "waiting"
          /\ \A d \in Calls : d # c => event'[d] = event[d]
      BY <1>4 DEF Collect, Posted, Publish, CloudflareInv, TypeOK
    <2> QED
      BY <2>1, OrphanCall DEF OrphanInv, Answered
  <1>5. ASSUME NEW r \in Requests, End(r) \/ CutOff(r) PROVE OrphanInv'
    BY <1>5, OrphanStop DEF End, CutOff
  <1>6. ASSUME UNCHANGED <<pc, parent, origin, event, over>> PROVE OrphanInv'
    BY <1>6 DEF OrphanInv, Own, Answered, NoOrphans, Finished, Pending, Alive
  <1>7. ASSUME NEW c \in Calls, ReadRequest(c) \/ ReadResponse(c) PROVE OrphanInv'
    BY <1>6, <1>7 DEF ReadRequest, ReadResponse
  <1>8. CASE UNCHANGED vars
    BY <1>6, <1>8 DEF vars
  <1> QED
    BY <1>1, <1>2, <1>3, <1>4, <1>5, <1>7, <1>8 DEF Next

\* No event is left behind by an invocation that ended, and none waits for a body
\* that cannot come, for any number of invocations and fetches.
THEOREM NothingLeftBehind == Spec => []NoOrphans
  <1>1. OrphanInv => NoOrphans
    BY DEF OrphanInv
  <1> QED
    BY <1>1, OrphanInit, OrphanStep, Invariance, PTL DEF Spec
=============================================================================
