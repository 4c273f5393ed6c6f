----------------------------- MODULE NextProofs -----------------------------
(***************************************************************************)
(* What NextClient keeps for any number of calls, instances of the module  *)
(* and websockets, and any limit: no event is handed to a websocket that   *)
(* is not open, the connection state is usable, limit passes on a prefix.  *)
(* The heart of the first is that a promise's reactions run before the     *)
(* next event (Quiet): a websocket cannot be lost between its opening and  *)
(* the upload that awaited it.                                             *)
(***************************************************************************)
EXTENDS NextClient, TLAPS

Uploading(t) == pc[t] \in {"respond", "first", "firstset", "entry", "second"}
HasSocket(t) == pc[t] \in {"first", "firstset", "entry", "second"}

\* Where calls can be, and where those of createWebSocket can.
Places == /\ \A c \in Calls : Uploading(c) \/ pc[c] \in {"origin", "done", "threw"}
          /\ \A k \in Makers : Uploading(k) \/ pc[k] \in {"unused", "joining", "backoff", "answered",
                                                          "dialing", "resolved", "rejected"}
          /\ \A k \in Makers : pc[k] = "unused" <=> k > made

\* An upload is at one of the layers of fetch of its task.
Levels == \A t \in Tasks : Uploading(t) => level[t] \in 1 .. Layers(t)

\* Tasks await, and the state names, calls of createWebSocket that were made.
HeldMade == /\ \A t \in Tasks : HasSocket(t) => held[t] \in 1 .. made
            /\ conn.kind # "Uninitialized" => conn.of \in 1 .. made
            /\ conn.kind = "Created" => pc[conn.of] = "resolved"

\* A promise is fulfilled with a websocket that has opened, and rejected for
\* an unusable answer only.
Settled == \A k \in Makers : /\ pc[k] = "resolved" => sock[k] \in {"open", "closed"}
                             /\ pc[k] = "rejected" => bad

\* The websocket that an upload awaited is still open when its turn comes.
StillOpen == \A t \in Tasks : pc[t] = "second" /\ pc[held[t]] = "resolved" => sock[held[t]] = "open"

\* The layers that an upload has passed have sent their events.
Passed(c, l) == <<c, l>> \in sent \/ (<<c, l>> \in caught /\ bad)
Uploaded == /\ dropped = {}
            /\ \A c \in Calls : \A l \in 1 .. Instances :
                  (Uploading(c) /\ l < level[c]) \/ pc[c] = "done" => Passed(c, l)

NextInv == /\ TypeOK
           /\ Places
           /\ Levels
           /\ HeldMade
           /\ Settled
           /\ StillOpen
           /\ Uploaded
           /\ PayloadLimited
-----------------------------------------------------------------------------
\* The two kinds of tasks are different, and a task of one layer less.
LEMMA TaskKinds ==
  /\ Calls \subseteq Tasks /\ Makers \subseteq Tasks /\ Makers \subseteq Nat
  /\ \A c \in Calls : c \notin Makers
  /\ \A t \in Tasks : t \notin Calls => t \in Makers
  BY NextAssumption DEF Tasks, Makers

States == [kind : {"Uninitialized", "Creating", "Created"}, of : 0 .. MaxMakers]
Labels == {"origin", "respond", "first", "firstset", "entry", "second", "done", "threw", "unused",
           "joining", "backoff", "answered", "dialing", "resolved", "rejected"}

LEMMA StateTypes ==
  /\ Uninitialized \in States
  /\ \A k \in Makers : Creating(k) \in States /\ Created(k) \in States
  BY NextAssumption DEF States, Uninitialized, Creating, Created, Makers

LEMMA InitInv == Init => NextInv
  <1> SUFFICES ASSUME Init PROVE NextInv
    OBVIOUS
  <1>1. TypeOK
    <2>1. conn \in States
      BY StateTypes, NextAssumption DEF Init, Makers
    <2>2. made \in Makers /\ inst \in [Makers -> 1 .. Instances]
      BY NextAssumption DEF Init, Makers
    <2>3. pc \in [Tasks -> Labels]
      BY DEF Init, Labels
    <2>4. level \in [Tasks -> 0 .. Instances] /\ held \in [Tasks -> 0 .. MaxMakers]
      BY NextAssumption DEF Init
    <2>5. sock \in [Makers -> {"none", "connecting", "open", "closed"}]
      BY DEF Init
    <2>6. body \in [Calls -> {"stream", "closed", "failed"}]
      BY DEF Init
    <2>7. arrived \in [Calls -> 0 .. MaxBody] /\ kept \in [Calls -> Nat]
      BY NextAssumption DEF Init
    <2>8. bad \in BOOLEAN /\ net \in BOOLEAN
      BY Zenon DEF Init
    <2>9. sent = {} /\ dropped = {} /\ caught = {}
      BY DEF Init
    <2> QED
      BY <2>1, <2>2, <2>3, <2>4, <2>5, <2>6, <2>7, <2>8, <2>9 DEF TypeOK, States, Labels
  <1>2. Places
    <2>1. \A c \in Calls : pc[c] = "origin"
      BY TaskKinds DEF Init
    <2>2. \A k \in Makers : pc[k] = IF k = 1 THEN "joining" ELSE "unused"
      BY TaskKinds DEF Init
    <2>3. \A k \in Makers : pc[k] = "unused" <=> k > made
      BY <2>2 DEF Init, Makers
    <2> QED
      BY <2>1, <2>2, <2>3 DEF Places
  <1>3. \A t \in Tasks : ~Uploading(t) /\ ~HasSocket(t) /\ pc[t] \notin {"resolved", "rejected", "done"}
    BY DEF Init, Uploading, HasSocket
  <1>4. Levels /\ Settled /\ StillOpen
    <2>1. Levels /\ StillOpen
      BY <1>3 DEF Levels, StillOpen, HasSocket
    <2>2. Settled
      BY <1>3, TaskKinds DEF Settled
    <2> QED
      BY <2>1, <2>2
  <1>6. HeldMade
    BY <1>3, TaskKinds DEF Init, HeldMade, Creating
  <1>7. Uploaded
    BY <1>3, TaskKinds DEF Init, Uploaded
  <1>5. PayloadLimited
    BY NextAssumption DEF Init, PayloadLimited
  <1> QED
    BY <1>1, <1>2, <1>4, <1>5, <1>6, <1>7 DEF NextInv
-----------------------------------------------------------------------------
(* Frames: what the actions have in common.                                 *)

\* Nothing but the places of tasks that do not upload has changed.
LEMMA PayloadKept ==
  ASSUME NextInv, UNCHANGED bodies
  PROVE  PayloadLimited'
  BY DEF NextInv, PayloadLimited, bodies

\* A task goes from one place to another of its own, and what it holds, and
\* what was made, stays.
LEMMA PlacesGoto ==
  ASSUME NextInv, NEW t \in Tasks, NEW label, Goto(t, label), made' = made, pc[t] # "unused",
         \/ label \in {"respond", "first", "firstset", "entry", "second"}
         \/ t \in Calls /\ label \in {"origin", "done", "threw"}
         \/ t \in Makers /\ label \in {"joining", "backoff", "answered", "dialing", "resolved", "rejected"}
  PROVE  Places' /\ pc' \in [Tasks -> Labels]
  <1>1. pc \in [Tasks -> Labels]
    BY DEF NextInv, TypeOK, Labels
  <1>2. pc' = [pc EXCEPT ![t] = label] /\ label \in Labels /\ label # "unused"
    BY DEF Goto, Labels
  <1>3. pc'[t] = label /\ \A u \in Tasks : u # t => pc'[u] = pc[u]
    BY <1>1, <1>2
  <1>4. \A c \in Calls : Uploading(c)' \/ pc'[c] \in {"origin", "done", "threw"}
    BY <1>3, TaskKinds DEF NextInv, Places, Uploading
  <1>5. \A k \in Makers : Uploading(k)' \/ pc'[k] \in {"unused", "joining", "backoff", "answered",
                                                       "dialing", "resolved", "rejected"}
    BY <1>3, TaskKinds DEF NextInv, Places, Uploading
  <1>6. \A k \in Makers : pc'[k] = "unused" <=> k > made
    BY <1>2, <1>3, TaskKinds DEF NextInv, Places
  <1> QED
    BY <1>1, <1>2, <1>4, <1>5, <1>6 DEF Places

\* It uploads at the same layer as before, or no more.
LEMMA LevelsGoto ==
  ASSUME NextInv, NEW t \in Tasks, NEW label, Goto(t, label), UNCHANGED <<level, inst>>,
         label \in {"respond", "first", "firstset", "entry", "second"} => Uploading(t)
  PROVE  Levels'
  <1>1. \A u \in Tasks : Uploading(u)' => Uploading(u)
    BY DEF NextInv, TypeOK, Goto, Uploading
  <1> QED
    BY <1>1 DEF NextInv, Levels, Layers

\* It holds what it held.
LEMMA HeldGoto ==
  ASSUME NextInv, NEW t \in Tasks, NEW label, Goto(t, label), UNCHANGED <<made, held, conn>>,
         label \in {"first", "firstset", "entry", "second"} => HasSocket(t),
         pc[t] # "resolved"
  PROVE  HeldMade'
  <1>1. \A u \in Tasks : HasSocket(u)' => HasSocket(u)
    BY DEF NextInv, TypeOK, Goto, HasSocket
  <1>2. conn.kind = "Created" => pc'[conn.of] = "resolved"
    BY DEF NextInv, TypeOK, Goto, HeldMade
  <1> QED
    BY <1>1, <1>2 DEF NextInv, HeldMade

\* No promise is settled by it.
LEMMA SettledGoto ==
  ASSUME NextInv, NEW t \in Tasks, NEW label, Goto(t, label), UNCHANGED bad,
         \A k \in Makers : pc[k] = "resolved" => sock'[k] = sock[k],
         label \notin {"resolved", "rejected"}
  PROVE  Settled'
  BY TaskKinds DEF NextInv, TypeOK, Goto, Settled

LEMMA StillOpenGoto ==
  ASSUME NextInv, NEW t \in Tasks, NEW label, Goto(t, label), UNCHANGED held,
         \A k \in Makers : pc[k] = "resolved" => sock'[k] = sock[k],
         label \notin {"second", "resolved"}
  PROVE  StillOpen'
  <1>1. \A u \in Tasks : pc'[u] = "second" => pc[u] = "second"
    BY DEF NextInv, TypeOK, Goto
  <1>2. \A u \in Tasks : pc[u] = "second" => held[u] \in Makers /\ held[u] \in Tasks
    BY TaskKinds DEF NextInv, TypeOK, HeldMade, HasSocket, Makers
  <1>3. \A u \in Tasks : pc'[u] = "resolved" => pc[u] = "resolved"
    BY DEF NextInv, TypeOK, Goto
  <1> QED
    BY <1>1, <1>2, <1>3 DEF NextInv, StillOpen

\* No upload ends by it.
LEMMA UploadedGoto ==
  ASSUME NextInv, NEW t \in Tasks, NEW label, Goto(t, label), UNCHANGED <<level, results>>,
         bad => bad', label # "done",
         label \in {"respond", "first", "firstset", "entry", "second"} => Uploading(t)
  PROVE  Uploaded'
  <1>1. \A u \in Tasks : (Uploading(u)' => Uploading(u)) /\ (pc'[u] = "done" => pc[u] = "done")
    BY DEF NextInv, TypeOK, Goto, Uploading
  <1>2. Calls \subseteq Tasks /\ sent' = sent /\ caught' = caught /\ dropped' = dropped /\ level' = level
    BY TaskKinds DEF results
  <1> QED
    BY <1>1, <1>2 DEF NextInv, Uploaded, Passed
-----------------------------------------------------------------------------
(* Actions that only move a task.                                           *)

LEMMA GotoStep ==
  ASSUME NextInv, NEW t \in Tasks, NEW label, Goto(t, label),
         UNCHANGED <<conn, made, inst, level, held, sock, bodies, results, bad, net>>,
         pc[t] \notin {"unused", "resolved"},
         \/ label = "threw" /\ t \in Calls
         \/ label \in {"joining", "backoff", "answered"} /\ t \in Makers
  PROVE  NextInv'
  <1>1. Places' /\ pc' \in [Tasks -> Labels]
    BY PlacesGoto
  <1>2. TypeOK'
    BY <1>1 DEF NextInv, TypeOK, Labels, bodies, results
  <1>3. Levels' /\ Uploaded'
    BY LevelsGoto, UploadedGoto
  <1>4. HeldMade' /\ Settled' /\ StillOpen'
    BY HeldGoto, SettledGoto, StillOpenGoto
  <1> QED
    BY <1>1, <1>2, <1>3, <1>4, PayloadKept DEF NextInv

LEMMA RejectedStep ==
  ASSUME NextInv, NEW t \in Tasks, Rejected(t)
  PROVE  NextInv'
  <1>1. CASE t \in Calls
    BY <1>1, GotoStep DEF Rejected
  <1>2. CASE t \notin Calls
    BY <1>2, GotoStep, TaskKinds DEF Rejected
  <1> QED
    BY <1>1, <1>2

LEMMA OriginFailsStep ==
  ASSUME NextInv, NEW c \in Calls, OriginFails(c)
  PROVE  NextInv'
  BY GotoStep, TaskKinds DEF OriginFails

LEMMA BackoffStep ==
  ASSUME NextInv, NEW k \in Makers, Backoff(k)
  PROVE  NextInv'
  BY GotoStep, TaskKinds DEF Backoff

\* An origin has answered: the upload begins at the first layer.
LEMMA ResponseStep ==
  ASSUME NextInv, NEW c \in Calls, Response(c)
  PROVE  NextInv'
  <1>1. c \in Tasks /\ Goto(c, "respond") /\ pc[c] = "origin"
    BY TaskKinds DEF Response
  <1>2. UNCHANGED <<conn, made, inst, held, sock, bodies, results, bad, net>>
    BY DEF Response
  <1>3. Places' /\ pc' \in [Tasks -> Labels]
    BY <1>1, <1>2, PlacesGoto
  <1>4. level' = [level EXCEPT ![c] = 1] /\ level' \in [Tasks -> 0 .. Instances] /\ level'[c] = 1
    BY <1>1, NextAssumption DEF Response, NextInv, TypeOK
  <1>5. TypeOK'
    BY <1>2, <1>3, <1>4 DEF NextInv, TypeOK, Labels, bodies, results
  <1>6. \A u \in Tasks : u # c => pc'[u] = pc[u] /\ level'[u] = level[u]
    BY <1>1, <1>4 DEF Goto, NextInv, TypeOK
  <1>7. Levels'
    BY <1>2, <1>4, <1>6, NextAssumption DEF NextInv, Levels, Layers, Uploading
  <1>8. HeldMade' /\ Settled' /\ StillOpen'
    BY <1>1, <1>2, HeldGoto, SettledGoto, StillOpenGoto
  <1>9. pc'[c] = "respond"
    BY <1>1 DEF Goto, NextInv, TypeOK
  <1>10. Uploaded'
    BY <1>2, <1>4, <1>6, <1>9, TaskKinds DEF NextInv, Uploaded, Passed, Uploading, results
  <1> QED
    BY <1>2, <1>3, <1>5, <1>7, <1>8, <1>10, PayloadKept DEF NextInv

\* JoinPublisher was fetched, with an upload of its own when there are layers.
LEMMA JoinStep ==
  ASSUME NextInv, NEW k \in Makers, Join(k)
  PROVE  NextInv'
  <1>1. k \in Tasks /\ k \notin Calls /\ pc[k] = "joining" /\ ~Uploading(k)
    BY TaskKinds DEF Join, Uploading
  <1>2. UNCHANGED <<conn, made, inst, held, sock, bodies, results, bad, net>>
    BY DEF Join
  <1>3. CASE ~net
    BY <1>1, <1>3, GotoStep DEF Join
  <1>4. CASE net
    <2> DEFINE label == IF Layers(k) = 0 THEN "answered" ELSE "respond"
    <2>1. Goto(k, label)
      BY <1>4 DEF Join
    <2>2. Layers(k) \in Nat /\ Layers(k) <= Instances
      BY <1>1, NextAssumption DEF Layers, NextInv, TypeOK
    <2>3. /\ level' = [level EXCEPT ![k] = IF Layers(k) = 0 THEN 0 ELSE 1]
          /\ level' \in [Tasks -> 0 .. Instances]
      BY <1>1, <1>4, NextAssumption DEF Join, NextInv, TypeOK
    <2>4. Places' /\ pc' \in [Tasks -> Labels]
      BY <1>1, <1>2, <2>1, PlacesGoto
    <2>5. TypeOK'
      BY <1>2, <2>3, <2>4 DEF NextInv, TypeOK, Labels, bodies, results
    <2>6. /\ \A u \in Tasks : u # k => pc'[u] = pc[u] /\ level'[u] = level[u]
          /\ pc'[k] = label /\ level'[k] = IF Layers(k) = 0 THEN 0 ELSE 1
      BY <1>1, <2>1, <2>3 DEF Goto, NextInv, TypeOK
    <2>7. Levels'
      <3>1. \A u \in Tasks : Layers(u)' = Layers(u)
        BY <1>2 DEF Layers
      <3>2. \A u \in Tasks : u # k => (Uploading(u)' <=> Uploading(u))
        BY <2>6 DEF Uploading
      <3>3. Uploading(k)' => level'[k] \in 1 .. Layers(k)
        BY <2>2, <2>6 DEF Uploading
      <3> QED
        BY <2>6, <3>1, <3>2, <3>3 DEF NextInv, Levels
    <2>8. HeldMade' /\ Settled' /\ StillOpen'
      BY <1>1, <1>2, <2>1, HeldGoto, SettledGoto, StillOpenGoto
    <2>9. Uploaded'
      <3>1. \A c \in Calls : c \in Tasks /\ c # k
        BY <1>1, TaskKinds
      <3> QED
        BY <1>2, <2>6, <3>1 DEF NextInv, Uploaded, Passed, Uploading, results
    <2> QED
      BY <1>2, <2>4, <2>5, <2>7, <2>8, <2>9, PayloadKept DEF NextInv
  <1> QED
    BY <1>3, <1>4
-----------------------------------------------------------------------------
(* The websocket of a call of createWebSocket.                              *)

LEMMA DialStep ==
  ASSUME NextInv, NEW k \in Makers, Dial(k) \/ Refused(k)
  PROVE  NextInv'
  <1> DEFINE label == IF pc[k] = "answered" THEN "dialing" ELSE "backoff"
  <1>1. k \in Tasks /\ Goto(k, label) /\ pc[k] \in {"answered", "dialing"}
    BY TaskKinds DEF Dial, Refused
  <1>2. /\ UNCHANGED <<conn, made, inst, level, held, bodies, results, bad, net>>
        /\ sock' \in [Makers -> {"none", "connecting", "open", "closed"}]
        /\ \A j \in Makers : pc[j] = "resolved" => sock'[j] = sock[j]
    BY DEF Dial, Refused, NextInv, TypeOK
  <1>3. Places' /\ pc' \in [Tasks -> Labels]
    BY <1>1, <1>2, PlacesGoto
  <1>4. TypeOK'
    BY <1>2, <1>3 DEF NextInv, TypeOK, Labels, bodies, results
  <1>5. Levels' /\ Uploaded'
    BY <1>1, <1>2, LevelsGoto, UploadedGoto
  <1>6. HeldMade' /\ Settled' /\ StillOpen'
    BY <1>1, <1>2, HeldGoto, SettledGoto, StillOpenGoto
  <1> QED
    BY <1>2, <1>3, <1>4, <1>5, <1>6, PayloadKept DEF NextInv

LEMMA BadAnswerStep ==
  ASSUME NextInv, NEW k \in Makers, BadAnswer(k)
  PROVE  NextInv'
  <1>1. k \in Tasks /\ Goto(k, "rejected") /\ pc[k] = "answered" /\ bad'
    BY TaskKinds DEF BadAnswer
  <1>2. UNCHANGED <<conn, made, inst, level, held, sock, bodies, results, net>>
    BY DEF BadAnswer
  <1>3. Places' /\ pc' \in [Tasks -> Labels]
    BY <1>1, <1>2, PlacesGoto
  <1>4. bad' \in BOOLEAN
    BY DEF BadAnswer
  <1>5. TypeOK'
    BY <1>2, <1>3, <1>4 DEF NextInv, TypeOK, Labels, bodies, results
  <1>6. Levels' /\ Uploaded' /\ HeldMade' /\ StillOpen'
    BY <1>1, <1>2, LevelsGoto, UploadedGoto, HeldGoto, StillOpenGoto
  <1>7. Settled'
    BY <1>1, <1>2, TaskKinds DEF Goto, NextInv, TypeOK, Settled
  <1> QED
    BY <1>2, <1>3, <1>5, <1>6, <1>7, PayloadKept DEF NextInv

\* Whoever awaited it finds the websocket open.
LEMMA OpenedStep ==
  ASSUME NextInv, NEW k \in Makers, Opened(k)
  PROVE  NextInv'
  <1>1. k \in Tasks /\ Goto(k, "resolved") /\ pc[k] = "dialing"
    BY TaskKinds DEF Opened
  <1>2. /\ UNCHANGED <<conn, made, inst, level, held, bodies, results, bad, net>>
        /\ sock' = [sock EXCEPT ![k] = "open"]
    BY DEF Opened
  <1>3. /\ sock' \in [Makers -> {"none", "connecting", "open", "closed"}]
        /\ sock'[k] = "open"
        /\ \A j \in Makers : j # k => sock'[j] = sock[j]
    BY <1>2 DEF NextInv, TypeOK
  <1>4. Places' /\ pc' \in [Tasks -> Labels]
    BY <1>1, <1>2, PlacesGoto
  <1>5. TypeOK'
    BY <1>2, <1>3, <1>4 DEF NextInv, TypeOK, Labels, bodies, results
  <1>6. Levels' /\ Uploaded' /\ HeldMade'
    BY <1>1, <1>2, LevelsGoto, UploadedGoto, HeldGoto
  <1>7. pc'[k] = "resolved" /\ \A u \in Tasks : u # k => pc'[u] = pc[u]
    BY <1>1 DEF Goto, NextInv, TypeOK
  <1>8. Settled'
    BY <1>2, <1>3, <1>7, TaskKinds DEF NextInv, Settled
  <1>9. StillOpen'
    <2> SUFFICES ASSUME NEW u \in Tasks, pc'[u] = "second", pc'[held[u]] = "resolved"
                 PROVE  sock'[held[u]] = "open"
      BY <1>2 DEF StillOpen
    <2>1. pc[u] = "second"
      BY <1>7
    <2>2. held[u] \in Makers /\ held[u] \in Tasks
      BY <2>1, TaskKinds DEF NextInv, TypeOK, HeldMade, HasSocket, Makers
    <2> QED
      BY <2>1, <2>2, <1>3, <1>7 DEF NextInv, StillOpen
  <1> QED
    BY <1>2, <1>4, <1>5, <1>6, <1>8, <1>9, PayloadKept DEF NextInv

\* A websocket that somebody is about to use, as its promise is settled, is
\* not lost before.
LEMMA LoseStep ==
  ASSUME NextInv, NEW k \in Makers, Lose(k)
  PROVE  NextInv'
  <1>1. UNCHANGED <<conn, made, inst, pc, level, held, bodies, results, bad, net>>
    BY DEF Lose
  <1>2. /\ sock' \in [Makers -> {"none", "connecting", "open", "closed"}]
        /\ sock'[k] = "closed"
        /\ \A j \in Makers : j # k => sock'[j] = sock[j]
    BY DEF Lose, NextInv, TypeOK
  <1>3. TypeOK'
    BY <1>1, <1>2 DEF NextInv, TypeOK, bodies, results
  <1>4. Places' /\ Levels' /\ HeldMade'
    BY <1>1 DEF NextInv, Places, Levels, HeldMade, Uploading, HasSocket, Layers
  <1>5. Settled'
    BY <1>1, <1>2 DEF NextInv, Settled
  <1>6. \A t \in Tasks : pc[t] = "second" => pc[held[t]] # "resolved"
    BY DEF Lose, Quiet, Awaits
  <1>7. StillOpen'
    BY <1>1, <1>6 DEF StillOpen
  <1>8. Uploaded'
    BY <1>1 DEF NextInv, Uploaded, Passed, Uploading, results
  <1> QED
    BY <1>1, <1>3, <1>4, <1>5, <1>7, <1>8, PayloadKept DEF NextInv

-----------------------------------------------------------------------------
(* The body of a call.                                                      *)

LEMMA BodyStep ==
  ASSUME NextInv, NEW c \in Calls, Data(c) \/ BodyEnds(c)
  PROVE  NextInv'
  <1>1. UNCHANGED <<conn, made, inst, pc, level, held, sock, results, bad, net>>
    BY DEF Data, BodyEnds
  <1>2. ASSUME Data(c)
        PROVE   /\ body' \in [Calls -> {"stream", "closed", "failed"}]
                    /\ arrived' \in [Calls -> 0 .. MaxBody]
                    /\ kept' \in [Calls -> Nat]
                    /\ PayloadLimited'
    <2>1. PICK length \in 1 .. MaxBody - arrived[c] :
            LET k == kept[c] + Chunk(length, Limit - kept[c])
            IN  /\ arrived' = [arrived EXCEPT ![c] = @ + length]
                /\ kept' = [kept EXCEPT ![c] = k]
                /\ body' = [body EXCEPT ![c] = IF k >= Limit THEN "closed" ELSE @]
      BY <1>2 DEF Data
    <2>2. body[c] = "stream" /\ kept[c] \in Nat /\ arrived[c] \in 0 .. MaxBody
      BY <1>2 DEF Data, NextInv, TypeOK
    <2>3. kept[c] <= Limit /\ (kept[c] < Limit => kept[c] = arrived[c])
      BY <2>2 DEF NextInv, PayloadLimited
    <2>4. /\ kept[c] + Chunk(length, Limit - kept[c]) \in 0 .. Limit
          /\ kept[c] + Chunk(length, Limit - kept[c]) < Limit =>
               kept[c] + Chunk(length, Limit - kept[c]) = arrived[c] + length
          /\ arrived[c] + length \in 0 .. MaxBody
      BY <2>2, <2>3, NextAssumption DEF Chunk
    <2>5. /\ body' \in [Calls -> {"stream", "closed", "failed"}]
          /\ arrived' \in [Calls -> 0 .. MaxBody]
          /\ kept' \in [Calls -> Nat]
      BY <2>1, <2>2, <2>4 DEF NextInv, TypeOK
    <2>6. PayloadLimited'
      BY <2>1, <2>2, <2>4 DEF NextInv, TypeOK, PayloadLimited
    <2> QED
      BY <2>5, <2>6
  <1>3. ASSUME BodyEnds(c)
        PROVE   /\ body' \in [Calls -> {"stream", "closed", "failed"}]
                    /\ arrived' \in [Calls -> 0 .. MaxBody]
                    /\ kept' \in [Calls -> Nat]
                    /\ PayloadLimited'
    <2>1. /\ body' \in [Calls -> {"stream", "closed", "failed"}]
          /\ arrived' \in [Calls -> 0 .. MaxBody]
          /\ kept' \in [Calls -> Nat]
      BY <1>3 DEF BodyEnds, NextInv, TypeOK
    <2>2. PayloadLimited'
      BY <1>3 DEF BodyEnds, NextInv, TypeOK, PayloadLimited
    <2> QED
      BY <2>1, <2>2
  <1>4. TypeOK' /\ PayloadLimited'
    BY <1>1, <1>2, <1>3 DEF NextInv, TypeOK, results
  <1>5. Places' /\ Levels' /\ HeldMade'
    BY <1>1 DEF NextInv, Places, Levels, HeldMade, Uploading, HasSocket, Layers
  <1>6. Settled' /\ StillOpen' /\ Uploaded'
    BY <1>1 DEF NextInv, Settled, StillOpen, Uploaded, Passed, Uploading, results
  <1> QED
    BY <1>4, <1>5, <1>6 DEF NextInv
-----------------------------------------------------------------------------
(* getWebSocket and upload.                                                 *)

\* A new call of createWebSocket, that t awaits.
LEMMA CreateStep ==
  ASSUME NextInv, NEW t \in Tasks, Uploading(t), NEW label \in {"first", "second"}, Create(t, label),
         UNCHANGED <<level, sock, bodies, results, bad, net>>
  PROVE  NextInv'
  <1> DEFINE k == made + 1
  <1>1. k \in Makers /\ k \in Tasks /\ made \in Makers /\ pc[k] = "unused" /\ k # t
    BY TaskKinds, NextAssumption DEF Create, Makers, NextInv, TypeOK, Places, Uploading
  <1>2. level[t] \in 1 .. Instances
    <2>1. level[t] \in 1 .. Layers(t)
      BY DEF NextInv, Levels
    <2>2. level[t] \in 0 .. Instances
      BY DEF NextInv, TypeOK
    <2> QED
      BY <2>1, <2>2, NextAssumption
  <1>3. /\ made' = k
        /\ inst' \in [Makers -> 1 .. Instances]
        /\ held' \in [Tasks -> 0 .. MaxMakers]
        /\ pc' \in [Tasks -> Labels]
        /\ conn' \in States
    <2>1. held' \in [Tasks -> 0 .. MaxMakers]
      BY <1>1 DEF Create, NextInv, TypeOK, Makers
    <2>2. pc' \in [Tasks -> Labels]
      <3>1. pc \in [Tasks -> Labels] /\ "joining" \in Labels /\ label \in Labels
        BY DEF NextInv, TypeOK, Labels
      <3>2. pc' = [pc EXCEPT ![k] = "joining", ![t] = label]
        BY DEF Create
      <3> QED
        BY <1>1, <3>1, <3>2
    <2>3. inst' \in [Makers -> 1 .. Instances]
      BY <1>1, <1>2 DEF Create, NextInv, TypeOK
    <2> QED
      BY <1>1, <2>1, <2>2, <2>3, StateTypes DEF Create
  <1>4. /\ pc'[k] = "joining" /\ pc'[t] = label
        /\ \A u \in Tasks : u # t /\ u # k => pc'[u] = pc[u]
    BY <1>1 DEF Create, NextInv, TypeOK
  <1>5. held'[t] = k /\ \A u \in Tasks : u # t => held'[u] = held[u]
    BY DEF Create, NextInv, TypeOK
  <1>6. \A j \in Makers : j # k => inst'[j] = inst[j]
    BY <1>1 DEF Create, NextInv, TypeOK
  <1>7. conn' = Creating(k)
    BY DEF Create
  <1>8. TypeOK'
    BY <1>1, <1>3 DEF NextInv, TypeOK, States, Labels, bodies, results
  <1>9. Places'
    <2>1. \A c \in Calls : Uploading(c)' \/ pc'[c] \in {"origin", "done", "threw"}
      BY <1>1, <1>4, TaskKinds DEF NextInv, Places, Uploading
    <2>2. \A j \in Makers : Uploading(j)' \/ pc'[j] \in {"unused", "joining", "backoff", "answered",
                                                         "dialing", "resolved", "rejected"}
      BY <1>1, <1>4, TaskKinds DEF NextInv, Places, Uploading
    <2>3. \A j \in Makers : pc'[j] = "unused" <=> j > made'
      <3> TAKE j \in Makers
      <3>1. CASE j = k
        BY <3>1, <1>3, <1>4, <1>1, TaskKinds
      <3>2. CASE j = t
        <4>1. pc[t] # "unused" /\ j <= made
          BY <3>2, TaskKinds DEF Uploading, NextInv, Places, TypeOK, Makers
        <4> QED
          BY <4>1, <3>2, <1>3, <1>4, <1>1, TaskKinds
      <3>3. CASE j # k /\ j # t
        <4>1. pc'[j] = pc[j]
          BY <3>3, <1>4, TaskKinds
        <4> QED
          BY <4>1, <3>3, <1>3, <1>1, TaskKinds DEF NextInv, Places
      <3> QED
        BY <3>1, <3>2, <3>3
    <2> QED
      BY <2>1, <2>2, <2>3 DEF Places
  <1>10. Levels'
    <2> SUFFICES ASSUME NEW u \in Tasks, Uploading(u)' PROVE level[u] \in 1 .. Layers(u)'
      BY DEF Levels
    <2>1. u # k /\ Uploading(u)
      BY <1>4 DEF Uploading
    <2>2. Layers(u)' = Layers(u)
      BY <2>1, <1>6, TaskKinds DEF Layers
    <2> QED
      BY <2>1, <2>2 DEF NextInv, Levels
  <1>11. HeldMade'
    <2>1. \A u \in Tasks : HasSocket(u)' => held'[u] \in 1 .. made'
      <3> SUFFICES ASSUME NEW u \in Tasks, HasSocket(u)', u # t PROVE held'[u] \in 1 .. made'
        BY <1>1, <1>3, <1>5, TaskKinds DEF Makers
      <3>1. HasSocket(u) /\ held'[u] = held[u]
        BY <1>4, <1>5 DEF HasSocket
      <3> QED
        BY <3>1, <1>1, <1>3, TaskKinds DEF NextInv, HeldMade
    <2> QED
      BY <2>1, <1>1, <1>3, <1>7, TaskKinds DEF HeldMade, Creating
  <1>12. Settled'
    <2>1. \A j \in Makers : pc'[j] \in {"resolved", "rejected"} => pc'[j] = pc[j]
      BY <1>4, TaskKinds
    <2> QED
      BY <2>1 DEF NextInv, Settled
  <1>13. StillOpen'
    <2> SUFFICES ASSUME NEW u \in Tasks, pc'[u] = "second", pc'[held'[u]] = "resolved"
                 PROVE  sock[held'[u]] = "open"
      BY DEF StillOpen
    <2>1. u # t /\ u # k
      BY <1>4, <1>5
    <2>2. pc[u] = "second" /\ held'[u] = held[u] /\ held[u] \in Makers /\ held[u] \in Tasks
      BY <2>1, <1>4, <1>5, TaskKinds DEF NextInv, TypeOK, HeldMade, HasSocket, Makers
    <2>3. pc[held[u]] = "resolved"
      BY <2>2, <1>4
    <2> QED
      BY <2>2, <2>3 DEF NextInv, StillOpen
  <1>14. Uploaded'
    <2>1. \A c \in Calls : c \in Tasks /\ (Uploading(c)' => Uploading(c)) /\ (pc'[c] = "done" => pc[c] = "done")
      BY <1>1, <1>4, TaskKinds DEF Uploading
    <2> QED
      BY <2>1 DEF NextInv, Uploaded, Passed, results
  <1> QED
    BY <1>8, <1>9, <1>10, <1>11, <1>12, <1>13, <1>14, PayloadKept DEF NextInv

\* A task takes up the websocket, or the promise, that the state names.
LEMMA GetWebSocketStep ==
  ASSUME NextInv, NEW t \in Tasks, GetWebSocket(t)
  PROVE  NextInv'
  <1>1. pc[t] = "respond" /\ Uploading(t) /\ UNCHANGED <<level, sock, bodies, results, bad, net>>
    BY DEF GetWebSocket, Uploading
  <1>2. CASE Create(t, "first")
    BY <1>1, <1>2, CreateStep
  <1>3. CASE ~Create(t, "first")
    <2> DEFINE label == IF conn.kind = "Creating" THEN "firstset" ELSE "entry"
    <2>1. /\ Goto(t, label) /\ conn.kind # "Uninitialized"
          /\ held' = [held EXCEPT ![t] = conn.of]
          /\ UNCHANGED <<conn, made, inst>>
      BY <1>3 DEF GetWebSocket
    <2>2. conn.of \in 1 .. made /\ conn.of \in 0 .. MaxMakers
      BY <2>1, NextAssumption DEF NextInv, HeldMade, TypeOK, Makers
    <2>3. held' \in [Tasks -> 0 .. MaxMakers] /\ held'[t] = conn.of
          /\ \A u \in Tasks : u # t => held'[u] = held[u]
      BY <2>1, <2>2 DEF NextInv, TypeOK
    <2>4. Places' /\ pc' \in [Tasks -> Labels]
      BY <1>1, <2>1, PlacesGoto
    <2>5. TypeOK'
      BY <1>1, <2>1, <2>3, <2>4 DEF NextInv, TypeOK, Labels, bodies, results
    <2>6. Levels' /\ Uploaded' /\ Settled'
      BY <1>1, <2>1, LevelsGoto, UploadedGoto, SettledGoto
    <2>7. pc'[t] = label /\ \A u \in Tasks : u # t => pc'[u] = pc[u]
      BY <2>1 DEF Goto, NextInv, TypeOK
    <2>8. HeldMade'
      <3>1. \A u \in Tasks : HasSocket(u)' => held'[u] \in 1 .. made
        BY <2>2, <2>3, <2>7 DEF NextInv, HeldMade, HasSocket
      <3>2. conn.kind = "Created" => pc'[conn.of] = "resolved"
        BY <1>1, <2>1 DEF Goto, NextInv, HeldMade, TypeOK
      <3> QED
        BY <3>1, <3>2, <2>1, <2>2 DEF HeldMade
    <2>9. StillOpen'
      <3> SUFFICES ASSUME NEW u \in Tasks, pc'[u] = "second", pc'[held'[u]] = "resolved"
                   PROVE  sock[held'[u]] = "open"
        BY <1>1 DEF StillOpen
      <3>1. u # t
        BY <2>7
      <3>2. pc[u] = "second" /\ held'[u] = held[u] /\ held[u] \in Tasks
        BY <3>1, <2>3, <2>7, TaskKinds DEF NextInv, TypeOK, HeldMade, HasSocket, Makers
      <3>3. pc[held[u]] = "resolved"
        BY <3>2, <2>7
      <3> QED
        BY <3>2, <3>3 DEF NextInv, StillOpen
    <2> QED
      BY <1>1, <2>4, <2>5, <2>6, <2>8, <2>9, PayloadKept DEF NextInv
  <1> QED
    BY <1>2, <1>3

LEMMA FulfilledStep ==
  ASSUME NextInv, NEW t \in Tasks, Fulfilled(t)
  PROVE  NextInv'
  <1>1. /\ pc[t] \in {"first", "firstset"} /\ Uploading(t) /\ HasSocket(t)
        /\ Goto(t, "entry")
        /\ UNCHANGED <<made, inst, level, held, sock, bodies, results, bad, net>>
    BY DEF Fulfilled, Uploading, HasSocket
  <1>2. conn' = conn \/ conn' = Created(held[t])
    BY DEF Fulfilled
  <1>3. held[t] \in 1 .. made /\ held[t] \in Makers /\ held[t] \in Tasks /\ pc[held[t]] = "resolved"
    BY <1>1, TaskKinds DEF Fulfilled, NextInv, HeldMade, TypeOK, Makers
  <1>4. conn' \in States
    BY <1>2, <1>3, StateTypes DEF NextInv, TypeOK, States
  <1>5. Places' /\ pc' \in [Tasks -> Labels]
    BY <1>1, PlacesGoto
  <1>6. TypeOK'
    BY <1>1, <1>4, <1>5 DEF NextInv, TypeOK, States, Labels, bodies, results
  <1>7. Levels' /\ Uploaded' /\ Settled' /\ StillOpen'
    BY <1>1, LevelsGoto, UploadedGoto, SettledGoto, StillOpenGoto
  <1>8. HeldMade'
    <2>1. \A u \in Tasks : HasSocket(u)' => HasSocket(u)
      BY <1>1 DEF NextInv, TypeOK, Goto, HasSocket
    <2>2. \A u \in Tasks : pc[u] = "resolved" => pc'[u] = "resolved"
      BY <1>1 DEF NextInv, TypeOK, Goto
    <2>3. CASE conn' = conn
      <3>1. conn.kind = "Created" => pc'[conn.of] = "resolved"
        BY <1>1 DEF Goto, NextInv, HeldMade, TypeOK
      <3> QED
        BY <3>1, <2>1, <2>3, <1>1 DEF NextInv, HeldMade
    <2>4. CASE conn' = Created(held[t])
      BY <2>1, <2>2, <2>4, <1>1, <1>3 DEF NextInv, HeldMade, Created
    <2> QED
      BY <2>3, <2>4, <1>2
  <1> QED
    BY <1>1, <1>5, <1>6, <1>7, <1>8, PayloadKept DEF NextInv

\* The end of an upload: the event was sent on an open websocket, or the
\* upload was caught after an unusable answer.
LEMMA ReturnStep ==
  ASSUME NextInv, NEW t \in Tasks, Uploading(t), Return(t),
         UNCHANGED <<made, inst, held, sock, bodies, bad, net>>,
         dropped' = dropped,
         \/ sent' = sent \cup {<<t, level[t]>>} /\ caught' = caught
         \/ caught' = caught \cup {<<t, level[t]>>} /\ sent' = sent /\ bad,
         conn' = conn \/ conn' = Uninitialized
  PROVE  NextInv'
  <1> DEFINE on == level[t] < Layers(t)
             label == IF on THEN "respond" ELSE IF t \in Calls THEN "done" ELSE "answered"
  <1>1. Goto(t, label) /\ pc[t] \notin {"unused", "resolved"}
    BY DEF Return, Uploading
  <1>2. level[t] \in 1 .. Layers(t) /\ level[t] \in 0 .. Instances
    BY DEF NextInv, TypeOK, Levels
  <1>3. Layers(t) \in 0 .. Instances
    BY TaskKinds, NextAssumption DEF Layers, NextInv, TypeOK
  <1>4. /\ level' = [level EXCEPT ![t] = IF on THEN level[t] + 1 ELSE 0]
        /\ level[t] \in 1 .. Instances
        /\ on => level[t] + 1 \in 1 .. Layers(t) /\ level[t] + 1 \in 0 .. Instances
    BY <1>2, <1>3, NextAssumption DEF Return
  <1>5. /\ level' \in [Tasks -> 0 .. Instances]
        /\ level'[t] = IF on THEN level[t] + 1 ELSE 0
        /\ \A u \in Tasks : u # t => level'[u] = level[u]
    BY <1>4, NextAssumption DEF NextInv, TypeOK
  <1>6. Places' /\ pc' \in [Tasks -> Labels]
    BY <1>1, TaskKinds, PlacesGoto
  <1>7. conn' \in States
    BY StateTypes DEF NextInv, TypeOK, States
  <1>8. TypeOK'
    <2>1. <<t, level[t]>> \in Tasks \X (1 .. Instances)
      BY <1>4
    <2>2. /\ sent' \subseteq Tasks \X (1 .. Instances)
          /\ caught' \subseteq Tasks \X (1 .. Instances)
      BY <2>1 DEF NextInv, TypeOK
    <2> QED
      BY <2>2, <1>5, <1>6, <1>7 DEF NextInv, TypeOK, States, Labels, bodies
  <1>9. pc'[t] = label /\ \A u \in Tasks : u # t => pc'[u] = pc[u]
    BY <1>1 DEF Goto, NextInv, TypeOK
  <1>10. Levels'
    <2>1. \A u \in Tasks : Layers(u)' = Layers(u)
      BY DEF Layers
    <2>2. \A u \in Tasks : u # t => (Uploading(u)' <=> Uploading(u))
      BY <1>9 DEF Uploading
    <2>3. Uploading(t)' => on
      BY <1>9 DEF Uploading
    <2> QED
      BY <2>1, <2>2, <2>3, <1>4, <1>5 DEF NextInv, Levels
  <1>11. HeldMade'
    <2>1. \A u \in Tasks : HasSocket(u)' => HasSocket(u)
      BY <1>9 DEF HasSocket
    <2>2. conn.kind = "Created" => pc'[conn.of] = "resolved"
      BY <1>1 DEF Goto, NextInv, HeldMade, TypeOK
    <2> QED
      BY <2>1, <2>2 DEF NextInv, HeldMade, Uninitialized
  <1>12. Settled' /\ StillOpen'
    BY <1>1, SettledGoto, StillOpenGoto
  <1>13. Uploaded'
    <2> SUFFICES ASSUME NEW c \in Calls, NEW l \in 1 .. Instances,
                        (Uploading(c)' /\ l < level'[c]) \/ pc'[c] = "done"
                 PROVE  Passed(c, l)'
      BY DEF NextInv, Uploaded
    <2>1. c \in Tasks
      BY TaskKinds
    <2>2. Passed(c, l) => Passed(c, l)'
      BY DEF Passed
    <2>3. CASE c # t
      BY <2>1, <2>2, <2>3, <1>5, <1>9 DEF NextInv, Uploaded, Uploading
    <2>4. CASE c = t
      <3>1. l <= level[t]
        BY <2>4, <1>2, <1>3, <1>4, <1>5, <1>9, NextAssumption DEF Layers, Uploading
      <3>2. CASE l = level[t]
        BY <3>2, <2>4 DEF Passed
      <3>3. CASE l # level[t]
        <4>1. l < level[t]
          BY <3>1, <3>3, <1>4
        <4> QED
          BY <4>1, <2>2, <2>4 DEF NextInv, Uploaded
      <3> QED
        BY <3>2, <3>3
    <2> QED
      BY <2>3, <2>4
  <1> QED
    BY <1>6, <1>8, <1>10, <1>11, <1>12, <1>13, PayloadKept DEF NextInv

\* upload looks at the websocket before it sends.
LEMMA UploadStep ==
  ASSUME NextInv, NEW t \in Tasks, Upload(t)
  PROVE  NextInv'
  <1>1. Uploading(t) /\ UNCHANGED <<sock, bodies, bad, net>>
    BY DEF Upload, Uploading
  <1>2. CASE IsOpen(held[t])
    <2>1. /\ sent' = sent \cup {<<t, level[t]>>} /\ UNCHANGED <<dropped, caught>>
          /\ Return(t) /\ UNCHANGED <<conn, made, inst, held>>
      BY <1>2 DEF Upload, Send, IsOpen
    <2> QED
      BY <1>1, <2>1, ReturnStep
  <1>3. CASE ~IsOpen(held[t])
    <2>1. Create(t, "second") /\ UNCHANGED <<level, results>>
      BY <1>3 DEF Upload
    <2> QED
      BY <1>1, <2>1, CreateStep
  <1> QED
    BY <1>2, <1>3

\* It need not look again at one that it has awaited.
LEMMA ResendStep ==
  ASSUME NextInv, NEW t \in Tasks, Resend(t)
  PROVE  NextInv'
  <1>1. Uploading(t) /\ sock[held[t]] = "open"
    BY DEF Resend, Uploading, NextInv, StillOpen
  <1>2. /\ sent' = sent \cup {<<t, level[t]>>} /\ UNCHANGED <<dropped, caught>>
        /\ Return(t) /\ UNCHANGED <<conn, made, inst, held, sock, bodies, bad, net>>
    BY <1>1 DEF Resend, Send
  <1> QED
    BY <1>1, <1>2, ReturnStep

LEMMA CatchStep ==
  ASSUME NextInv, NEW t \in Tasks, Catch(t)
  PROVE  NextInv'
  <1>1. Uploading(t) /\ held[t] \in Makers
    BY TaskKinds DEF Catch, Uploading, HasSocket, NextInv, HeldMade, TypeOK, Makers
  <1>2. bad
    BY <1>1 DEF Catch, NextInv, Settled
  <1> QED
    BY <1>1, <1>2, ReturnStep DEF Catch
-----------------------------------------------------------------------------
(* The theorems.                                                            *)

LEMMA StepInv == NextInv /\ [Next]_vars => NextInv'
  <1> SUFFICES ASSUME NextInv, [Next]_vars PROVE NextInv'
    OBVIOUS
  <1>1. ASSUME NEW t \in Tasks, Task(t) PROVE NextInv'
    BY <1>1, GetWebSocketStep, FulfilledStep, RejectedStep, UploadStep, ResendStep, CatchStep DEF Task
  <1>2. ASSUME NEW c \in Calls, Call(c) PROVE NextInv'
    BY <1>2, ResponseStep, OriginFailsStep DEF Call
  <1>3. ASSUME NEW c \in Calls, Data(c) \/ BodyEnds(c) PROVE NextInv'
    BY <1>3, BodyStep
  <1>4. ASSUME NEW k \in Makers, Maker(k) PROVE NextInv'
    BY <1>4, JoinStep, BackoffStep, DialStep, BadAnswerStep, OpenedStep DEF Maker
  <1>5. ASSUME NEW k \in Makers, Lose(k) PROVE NextInv'
    BY <1>5, LoseStep
  <1>6. CASE Net \/ UNCHANGED vars
    <2>1. UNCHANGED <<conn, made, inst, pc, level, held, sock, bodies, results, bad>>
      BY <1>6 DEF Net, vars
    <2>2. net' \in BOOLEAN
      BY <1>6 DEF Net, vars, NextInv, TypeOK
    <2>3. TypeOK'
      BY <2>1, <2>2 DEF NextInv, TypeOK, bodies, results
    <2>4. Places' /\ Levels' /\ HeldMade'
      BY <2>1 DEF NextInv, Places, Levels, HeldMade, Uploading, HasSocket, Layers
    <2>5. Settled' /\ StillOpen' /\ Uploaded'
      BY <2>1 DEF NextInv, Settled, StillOpen, Uploaded, Passed, Uploading, results
    <2> QED
      BY <2>1, <2>3, <2>4, <2>5, PayloadKept DEF NextInv
  <1> QED
    BY <1>1, <1>2, <1>3, <1>4, <1>5, <1>6 DEF Next

\* The inductive invariant of index.ts: where its tasks are, which websocket
\* they hold, and what the layers of fetch have sent.
THEOREM Invariance == Spec => []NextInv
  <1> QED
    BY InitInv, StepInv, PTL DEF Spec

\* upload never loses an event in a websocket that is not open, however many
\* calls share it and whenever it is lost.
THEOREM EventsNotDropped == Spec => []NothingDropped
  <1>1. NextInv => NothingDropped
    BY DEF NextInv, Uploaded, NothingDropped, Passed
  <1> QED
    BY <1>1, Invariance, PTL

\* limit passes on a prefix, whatever the limit and the chunks.
THEOREM PrefixKept == Spec => []PayloadLimited
  <1>1. NextInv => PayloadLimited
    BY DEF NextInv
  <1> QED
    BY <1>1, Invariance, PTL

\* getWebSocket finds a state it can use, or one that an unusable answer of
\* JoinPublisher left behind.
THEOREM ConnectionUsable == Spec => []StateUsable
  <1>1. NextInv => StateUsable
    <2> SUFFICES ASSUME NextInv PROVE StateUsable
      OBVIOUS
    <2>1. conn.kind # "Uninitialized" => conn.of \in 1 .. made /\ conn.of \in Makers
      BY DEF NextInv, HeldMade, TypeOK, Makers
    <2>2. \A k \in Makers : k \in 1 .. made => pc[k] # "unused"
      BY TaskKinds DEF NextInv, Places, TypeOK, Makers
    <2> QED
      BY <2>1, <2>2 DEF NextInv, HeldMade, Settled, StateUsable
  <1> QED
    BY <1>1, Invariance, PTL

\* The safety core of CallReturns: whatever is lost, replaced and retried, a
\* task awaits a createWebSocket that awaits no task, so that they do not wait in
\* a circle.
THEOREM NobodyAwaitsUploads == Spec => []AwaitsSettle
  <1>1. NextInv => AwaitsSettle
    <2> SUFFICES ASSUME NextInv, Instances = 1, NEW t \in Tasks, Awaits(t)
                 PROVE  \/ pc[held[t]] \in {"joining", "backoff", "answered", "dialing"}
                        \/ pc[held[t]] = "resolved" /\ sock[held[t]] \in {"open", "closed"}
                        \/ pc[held[t]] = "rejected" /\ bad
      BY DEF AwaitsSettle
    <2>1. PICK k \in Makers : k = held[t] /\ k <= made
      BY DEF NextInv, HeldMade, HasSocket, Awaits, TypeOK, Makers
    <2>2. ~Uploading(k)
      <3>1. k \in Tasks /\ Layers(k) = 0
        BY <2>1, TaskKinds DEF NextInv, TypeOK, Layers
      <3> QED
        BY <3>1 DEF NextInv, Levels
    <2>3. pc[k] \in {"joining", "backoff", "answered", "dialing", "resolved", "rejected"}
      BY <2>1, <2>2 DEF NextInv, Places, TypeOK, Makers
    <2>4. /\ pc[k] = "resolved" => sock[k] \in {"open", "closed"}
          /\ pc[k] = "rejected" => bad
      BY DEF NextInv, Settled
    <2> QED
      BY <2>1, <2>3, <2>4
  <1> QED
    BY <1>1, Invariance, PTL
-----------------------------------------------------------------------------
(* Each event is uploaded once.                                             *)

\* A step that ends no upload and begins none keeps it so.
LEMMA OnceFrame ==
  ASSUME UploadedOnce, UNCHANGED <<sent, caught>>,
         \A c \in Calls : /\ pc'[c] = "origin" => pc[c] = "origin"
                          /\ Uploading(c)' => Uploading(c) /\ level'[c] = level[c]
  PROVE  UploadedOnce'
  BY DEF UploadedOnce, Uploading

LEMMA OnceCreate ==
  ASSUME NextInv, UploadedOnce, NEW t \in Tasks, Uploading(t), NEW label \in {"first", "second"},
         Create(t, label), UNCHANGED <<level, sent, caught>>
  PROVE  UploadedOnce'
  <1>1. made + 1 \in Makers /\ pc' = [pc EXCEPT ![made + 1] = "joining", ![t] = label]
    BY NextAssumption DEF Create, NextInv, TypeOK, Makers
  <1>2. \A c \in Calls : c \in Tasks /\ c # made + 1
    BY <1>1, TaskKinds
  <1>3. \A c \in Calls : pc'[c] = IF c = t THEN label ELSE pc[c]
    BY <1>1, <1>2 DEF NextInv, TypeOK
  <1> QED
    BY <1>3, OnceFrame DEF Uploading

\* The upload that ends was still ahead.
LEMMA OnceReturn ==
  ASSUME NextInv, UploadedOnce, NEW t \in Tasks, Uploading(t), Return(t),
         \/ sent' = sent \cup {<<t, level[t]>>} /\ caught' = caught
         \/ caught' = caught \cup {<<t, level[t]>>} /\ sent' = sent
  PROVE  UploadedOnce'
  <1>1. level[t] \in Nat /\ Layers(t) \in Nat
    BY TaskKinds, NextAssumption DEF NextInv, TypeOK, Layers
  <1>2. /\ pc'[t] \in {"respond", "done", "answered"}
        /\ Uploading(t)' => level'[t] = level[t] + 1
        /\ \A u \in Tasks : u # t => pc'[u] = pc[u] /\ level'[u] = level[u]
    BY <1>1 DEF Return, Goto, Uploading, NextInv, TypeOK
  <1>3. <<t, level[t]>> \notin sent \cup caught \/ t \notin Calls
    <2> SUFFICES ASSUME t \in Calls, <<t, level[t]>> \in sent \cup caught PROVE FALSE
      OBVIOUS
    <2>1. level[t] \in 1 .. Instances
      BY <1>1 DEF NextInv, TypeOK, Levels, Layers
    <2>2. level[t] < level[t]
      BY <2>1 DEF UploadedOnce, Uploading
    <2> QED
      BY <1>1, <2>2
  <1> SUFFICES ASSUME NEW c \in Calls, NEW l \in 1 .. Instances, <<c, l>> \in sent' \cup caught'
               PROVE  /\ pc'[c] # "origin"
                      /\ Uploading(c)' => l < level'[c]
                      /\ <<c, l>> \notin sent' \cap caught'
    BY DEF UploadedOnce, Uploading
  <1>4. c \in Tasks
    BY TaskKinds
  <1>5. CASE c # t
    <2>1. <<c, l>> \in sent \cup caught /\ <<c, l>> # <<t, level[t]>>
      BY <1>5
    <2>2. <<c, l>> \in sent' \cap caught' => <<c, l>> \in sent \cap caught
      BY <2>1
    <2> QED
      BY <1>2, <1>4, <1>5, <2>1, <2>2 DEF UploadedOnce, Uploading
  <1>6. CASE c = t
    <2>1. CASE l = level[t]
      <3>1. <<c, l>> \notin sent' \cap caught'
        BY <1>3, <1>6, <2>1
      <3>2. Uploading(c)' => l < level'[c]
        BY <1>1, <1>2, <1>6, <2>1
      <3>3. pc'[c] # "origin"
        BY <1>2, <1>6
      <3> QED
        BY <3>1, <3>2, <3>3
    <2>2. CASE l # level[t]
      <3>1. <<c, l>> \in sent \cup caught /\ <<c, l>> # <<t, level[t]>>
        BY <1>6, <2>2
      <3>2. <<c, l>> \in sent' \cap caught' => <<c, l>> \in sent \cap caught
        BY <3>1
      <3>3. l < level[t] /\ <<c, l>> \notin sent \cap caught
        BY <1>6, <3>1 DEF UploadedOnce, Uploading
      <3>4. Uploading(c)' => l < level'[c]
        BY <1>1, <1>2, <1>6, <3>3
      <3> QED
        BY <1>2, <1>6, <3>2, <3>3, <3>4
    <2> QED
      BY <2>1, <2>2
  <1> QED
    BY <1>5, <1>6

LEMMA OnceStep ==
  ASSUME NextInv, UploadedOnce, [Next]_vars
  PROVE  UploadedOnce'
  <1>1. ASSUME NEW t \in Tasks, GetWebSocket(t) PROVE UploadedOnce'
    <2>1. Uploading(t) /\ UNCHANGED <<level, sent, caught>>
      BY <1>1 DEF GetWebSocket, Uploading, results
    <2>2. CASE Create(t, "first")
      BY <2>1, <2>2, OnceCreate
    <2>3. CASE Goto(t, "firstset") \/ Goto(t, "entry")
      <3>1. \A u \in Tasks : pc'[u] = pc[u] \/ (u = t /\ pc'[u] \in {"firstset", "entry"})
        BY <2>3 DEF Goto, NextInv, TypeOK
      <3> QED
        BY <2>1, <3>1, TaskKinds, OnceFrame DEF Uploading
    <2> QED
      BY <1>1, <2>2, <2>3 DEF GetWebSocket
  <1>2. ASSUME NEW t \in Tasks, Fulfilled(t) \/ Rejected(t) PROVE UploadedOnce'
    <2>1. Uploading(t) /\ UNCHANGED <<level, sent, caught>>
      BY <1>2 DEF Fulfilled, Rejected, Uploading, results
    <2>2. \A u \in Tasks : pc'[u] = pc[u] \/ (u = t /\ pc'[u] \in {"entry", "threw", "backoff"})
      BY <1>2 DEF Fulfilled, Rejected, Goto, NextInv, TypeOK
    <2> QED
      BY <2>1, <2>2, TaskKinds, OnceFrame DEF Uploading
  <1>3. ASSUME NEW t \in Tasks, Upload(t) PROVE UploadedOnce'
    <2>1. Uploading(t)
      BY <1>3 DEF Upload, Uploading
    <2>2. CASE IsOpen(held[t])
      <3>1. sent' = sent \cup {<<t, level[t]>>} /\ caught' = caught /\ Return(t)
        BY <1>3, <2>2 DEF Upload, Send, IsOpen
      <3> QED
        BY <2>1, <3>1, OnceReturn
    <2>3. CASE ~IsOpen(held[t])
      <3>1. Create(t, "second") /\ UNCHANGED <<level, sent, caught>>
        BY <1>3, <2>3 DEF Upload, results
      <3> QED
        BY <2>1, <3>1, OnceCreate
    <2> QED
      BY <2>2, <2>3
  <1>4. ASSUME NEW t \in Tasks, Resend(t) PROVE UploadedOnce'
    <2>1. Uploading(t) /\ sock[held[t]] = "open"
      BY <1>4 DEF Resend, Uploading, NextInv, StillOpen
    <2>2. sent' = sent \cup {<<t, level[t]>>} /\ caught' = caught /\ Return(t)
      BY <1>4, <2>1 DEF Resend, Send
    <2> QED
      BY <2>1, <2>2, OnceReturn
  <1>5. ASSUME NEW t \in Tasks, Catch(t) PROVE UploadedOnce'
    <2>1. Uploading(t) /\ caught' = caught \cup {<<t, level[t]>>} /\ sent' = sent /\ Return(t)
      BY <1>5 DEF Catch, Uploading
    <2> QED
      BY <2>1, OnceReturn
  <1>6. ASSUME NEW c \in Calls, Response(c) PROVE UploadedOnce'
    <2>1. c \in Tasks /\ pc[c] = "origin" /\ UNCHANGED <<sent, caught>>
      BY <1>6, TaskKinds DEF Response, results
    <2>2. \A l \in 1 .. Instances : <<c, l>> \notin sent \cup caught
      BY <2>1 DEF UploadedOnce
    <2>3. \A u \in Tasks : u # c => pc'[u] = pc[u] /\ level'[u] = level[u]
      BY <1>6 DEF Response, Goto, NextInv, TypeOK
    <2> QED
      BY <2>1, <2>2, <2>3, TaskKinds DEF UploadedOnce
  <1>7. ASSUME NEW c \in Calls, OriginFails(c) \/ Data(c) \/ BodyEnds(c) PROVE UploadedOnce'
    <2>1. UNCHANGED <<level, sent, caught>>
      BY <1>7 DEF OriginFails, Data, BodyEnds, results
    <2>2. \A u \in Tasks : pc'[u] = pc[u] \/ pc'[u] = "threw"
      BY <1>7 DEF OriginFails, Data, BodyEnds, Goto, NextInv, TypeOK
    <2> QED
      BY <2>1, <2>2, TaskKinds, OnceFrame DEF Uploading
  <1>8. ASSUME NEW k \in Makers, Maker(k) \/ Lose(k) PROVE UploadedOnce'
    <2>1. UNCHANGED <<sent, caught>> /\ k \in Tasks
      BY <1>8, TaskKinds DEF Maker, Join, Backoff, Dial, BadAnswer, Opened, Refused, Lose, results
    <2>2. \A u \in Tasks : u # k => pc'[u] = pc[u] /\ level'[u] = level[u]
      BY <1>8 DEF Maker, Join, Backoff, Dial, BadAnswer, Opened, Refused, Lose, Goto, NextInv, TypeOK
    <2>3. \A c \in Calls : c # k /\ c \in Tasks
      BY TaskKinds
    <2> QED
      BY <2>1, <2>2, <2>3, OnceFrame DEF Uploading
  <1>9. CASE Net \/ UNCHANGED vars
    BY <1>9, OnceFrame DEF Net, vars, results, Uploading
  <1> QED
    BY <1>1, <1>2, <1>3, <1>4, <1>5, <1>6, <1>7, <1>8, <1>9 DEF Next, Task, Call

\* However often the websocket of an upload is replaced, its event goes out
\* once, for any number of calls, instances and websockets.
THEOREM NoEventTwice == Spec => []UploadedOnce
  <1>1. Init => UploadedOnce
    BY DEF Init, UploadedOnce
  <1> QED
    BY <1>1, OnceStep, Invariance, PTL DEF Spec
=============================================================================
