--------------------------- MODULE DevToolsProofs ---------------------------
(***************************************************************************)
(* The safety of devtools/init.js for any number of websockets, timers and *)
(* entries, however often the mutex is locked and whatever its byte wraps  *)
(* to.                                                                     *)
(***************************************************************************)
EXTENDS DevTools, TLAPS
-----------------------------------------------------------------------------
\* The inductive invariant of the three: only the current client is live,
\* only an attempt is connecting, and the attempt that locked the mutex last
\* holds it, also when a lock that stored 0 lets several go on; what a live
\* connection still carries has not been shown.
LiveInv == /\ \A c \in Conns : Live(c) => c = cur
           /\ \A c \in Conns : conn[c] = "connecting" => c \in waits
           /\ \A c \in waits : conn[c] \in {"connecting", "closing"}
           /\ lock # 0 => cur \in Conns /\ conn[cur] = "connecting"
           /\ ~supported => waits = {} /\ \A c \in Conns : ~Live(c)
           /\ boot # "done" => timers = 0 /\ lock = 0 /\ \A c \in Conns : conn[c] = "closed"

EntryInv == /\ \A c \in Conns : conn[c] = "closed" => wire[c] = {}
            /\ \A c \in Conns : \A e \in wire[c] : e <= sent
            /\ \A e \in 1 .. MaxSent : e > sent => shown[e] = 0
            /\ \A c \in Conns : \A e \in wire[c] : Live(c) => shown[e] = 0

DevToolsInv == TypeOK /\ OneAttempt /\ NeverStranded /\ ShownOnce /\ LiveInv /\ EntryInv
-----------------------------------------------------------------------------
States == {"connecting", "open", "closing", "closed"}

LEMMA StoredType == TypeOK => Stored \in Nat /\ Counted \in 0 .. ByteMod - 1
<1> SUFFICES ASSUME counter \in 0 .. ByteMod - 1
             PROVE  Stored \in Nat /\ Counted \in 0 .. ByteMod - 1
  BY DEF TypeOK
<1>1. (counter + 1) % ByteMod \in 0 .. ByteMod - 1
  BY ByteAssumption
<1>2. QED
  BY <1>1, ByteAssumption DEF Stored, Counted

LEMMA CloseOfType ==
    ASSUME NEW f \in [Conns -> States], NEW c \in Conns
    PROVE  /\ CloseOf(f, c) \in [Conns -> States]
           /\ \A d \in Conns : /\ d # c => CloseOf(f, c)[d] = f[d]
                               /\ CloseOf(f, c)[c] \notin {"connecting", "open"}
                               /\ CloseOf(f, c)[d] = "closed" <=> f[d] = "closed"
                               /\ f[c] \in {"connecting", "closing"} => CloseOf(f, c)[c] = "closing"
BY DEF CloseOf, States

LEMMA InitInv == Init => DevToolsInv
<1> SUFFICES ASSUME Init PROVE DevToolsInv
  OBVIOUS
<1>1. TypeOK
  <2>1. conn \in [Conns -> {"connecting", "open", "closing", "closed"}]
    BY DEF Init
  <2>2. srv \in [Conns -> {"none", "accepted", "added"}]
    BY DEF Init
  <2>3. wire \in [Conns -> SUBSET (1 .. MaxSent)]
    BY DEF Init
  <2>4. shown \in [1 .. MaxSent -> Nat]
    BY DEF Init
  <2>5. sent \in 0 .. MaxSent
    BY BoundsAssumption DEF Init
  <2>6. wrapped \in BOOLEAN /\ misused \in BOOLEAN
    BY Zenon DEF Init
  <2>7. lock \in Nat /\ counter \in 0 .. ByteMod - 1 /\ timers \in Nat
    BY ByteAssumption DEF Init
  <2>8. cur \in Conns \cup {NoConn, Broken} /\ waits \subseteq Conns
    BY DEF Init
  <2>9. QED
    BY <2>1, <2>2, <2>3, <2>4, <2>5, <2>6, <2>7, <2>8 DEF Init, TypeOK
<1>2. OneAttempt /\ NeverStranded
  BY DEF Init, OneAttempt, NeverStranded
<1>3. ShownOnce
  BY DEF Init, ShownOnce
<1>4. LiveInv /\ EntryInv
  BY BoundsAssumption DEF Init, LiveInv, EntryInv, Live
<1>5. QED
  BY <1>1, <1>2, <1>3, <1>4 DEF DevToolsInv

\* spawn, from the observer or from a timer.
LEMMA SkipStep ==
    ASSUME DevToolsInv, NEW n \in Nat, Skip(n), boot' = "done", UNCHANGED <<sab, supported, peer>>
    PROVE  DevToolsInv'
<1>0. TypeOK /\ OneAttempt /\ ShownOnce /\ LiveInv /\ EntryInv
  BY DEF DevToolsInv
<1>1. UNCHANGED <<sab, supported, lock, counter, wrapped, misused, cur, conn, waits, srv, wire, sent, shown, net>>
  BY DEF Skip, mutex, peer
<1>2. timers' \in Nat
  BY DEF Skip
<1>3. TypeOK'
  BY <1>0, <1>1, <1>2 DEF TypeOK
<1>4. OneAttempt' /\ ShownOnce'
  BY <1>0, <1>1 DEF OneAttempt, ShownOnce
<1>5. NeverStranded'
  <2>1. cur \in Conns /\ conn[cur] = "connecting"
    BY <1>0 DEF Skip, LockFree, LiveInv
  <2>2. QED
    BY <1>1, <2>1 DEF NeverStranded, Live
<1>6. LiveInv' /\ EntryInv'
  BY <1>0, <1>1 DEF LiveInv, EntryInv, Live
<1>7. QED
  BY <1>3, <1>4, <1>5, <1>6 DEF DevToolsInv

LEMMA FailsStep ==
    ASSUME DevToolsInv, NEW n \in Nat, Fails(n), boot' = "done", UNCHANGED <<sab, supported, peer>>
    PROVE  DevToolsInv'
<1>0. TypeOK /\ OneAttempt /\ ShownOnce /\ LiveInv /\ EntryInv
  BY DEF DevToolsInv
<1>1. UNCHANGED <<sab, supported, wrapped, conn, waits, srv, wire, sent, shown, net>>
  BY DEF Fails, peer
<1>2. timers' \in Nat \ {0} /\ cur' = Broken
  BY DEF Fails
<1>3. lock' = 0 /\ waits = {} /\ \A c \in Conns : ~Live(c)
  BY <1>0 DEF Fails, Unlocked, LiveInv
<1>4. counter' \in 0 .. ByteMod - 1
  BY <1>0, StoredType DEF Fails
<1>5. misused' \in BOOLEAN
  BY Zenon DEF Fails
<1>6. TypeOK'
  BY <1>0, <1>1, <1>2, <1>3, <1>4, <1>5 DEF TypeOK
<1>7. OneAttempt' /\ ShownOnce' /\ NeverStranded'
  BY <1>0, <1>1, <1>2, <1>3 DEF OneAttempt, ShownOnce, NeverStranded
<1>8. LiveInv'
  BY <1>0, <1>1, <1>3 DEF LiveInv, Live
<1>9. EntryInv'
  BY <1>0, <1>1 DEF EntryInv, Live
<1>10. QED
  BY <1>6, <1>7, <1>8, <1>9 DEF DevToolsInv

LEMMA ConnectStep ==
    ASSUME DevToolsInv, NEW n \in Nat, Connect(n), boot' = "done", UNCHANGED <<sab, supported, peer>>
    PROVE  DevToolsInv'
<1>0. TypeOK /\ OneAttempt /\ ShownOnce /\ LiveInv /\ EntryInv
  BY DEF DevToolsInv
<1>1. UNCHANGED <<sab, supported, misused, srv, wire, sent, shown, net>>
  BY DEF Connect, peer
<1> DEFINE g == IF cur \in Conns THEN CloseOf(conn, cur) ELSE conn
<1>2. PICK c \in Conns : /\ conn[c] = "closed"
                         /\ conn' = [g EXCEPT ![c] = "connecting"]
                         /\ cur' = c /\ waits' = waits \cup {c}
  BY DEF Connect, NewClient
<1>3. supported /\ lock = 0
  BY DEF Connect, LockFree
<1>4. lock' = Stored /\ Stored \in Nat /\ counter' \in 0 .. ByteMod - 1
  BY <1>0, StoredType DEF Connect
<1>5. wrapped' \in BOOLEAN
  BY Zenon DEF Connect
<1>6. /\ g \in [Conns -> States]
      /\ \A d \in Conns : /\ g[d] \notin {"connecting", "open"}
                          /\ g[d] = "closed" <=> conn[d] = "closed"
                          /\ conn[d] \in {"connecting", "closing"} => g[d] = "closing"
  <2>1. conn \in [Conns -> States]
    BY <1>0 DEF TypeOK, States
  <2>2. \A d \in Conns : d # cur => conn[d] \notin {"connecting", "open"}
    BY <1>0 DEF LiveInv, Live
  <2>3. CASE cur \in Conns
    <3>1. \A d \in Conns : d # cur => conn[d] \in {"closing", "closed"}
      BY <2>1, <2>2 DEF States
    <3>2. QED
      BY <2>1, <2>3, <3>1, CloseOfType
  <2>4. CASE cur \notin Conns
    BY <2>1, <2>2, <2>4 DEF States
  <2>5. QED
    BY <2>3, <2>4
<1> HIDE DEF g
<1>7. conn' \in [Conns -> States] /\ conn'[c] = "connecting" /\ \A d \in Conns : d # c => conn'[d] = g[d]
  BY <1>2, <1>6 DEF States
<1>8. TypeOK'
  <2>1. conn' \in [Conns -> {"connecting", "open", "closing", "closed"}]
    BY <1>7 DEF States
  <2>2. timers' \in Nat
    BY DEF Connect
  <2>3. QED
    BY <1>0, <1>1, <1>2, <1>4, <1>5, <2>1, <2>2 DEF TypeOK
<1>9. OneAttempt'
  <2>1. ASSUME ~wrapped' PROVE waits' = {c} /\ lock' # 0
    <3>1. ~wrapped /\ Stored # 0
      BY <2>1, Zenon DEF Connect
    <3>2. waits = {}
      BY <1>0, <1>3, <3>1 DEF OneAttempt
    <3>3. QED
      BY <1>2, <1>4, <3>1, <3>2
  <2>2. QED
    BY <1>2, <2>1 DEF OneAttempt
<1>10. ShownOnce' /\ NeverStranded'
  BY <1>0, <1>1, <1>2, <1>7 DEF ShownOnce, NeverStranded, Live
<1>11. \A d \in Conns : (Live(d)' <=> d = c) /\ (conn'[d] = "connecting" <=> d = c)
  BY <1>6, <1>7 DEF Live
<1>12. LiveInv'
  <2>1. \A d \in waits' : d \in Conns /\ conn'[d] \in {"connecting", "closing"}
    BY <1>0, <1>2, <1>6, <1>7 DEF LiveInv, TypeOK
  <2>2. QED
    BY <1>1, <1>2, <1>3, <1>11, <2>1 DEF LiveInv
<1>13. EntryInv'
  <2>1. wire[c] = {}
    BY <1>0, <1>2 DEF EntryInv
  <2>2. \A d \in Conns : conn'[d] = "closed" => wire'[d] = {}
    BY <1>0, <1>1, <1>6, <1>7 DEF EntryInv
  <2>3. QED
    BY <1>0, <1>1, <1>11, <2>1, <2>2 DEF EntryInv
<1>14. QED
  BY <1>8, <1>9, <1>10, <1>12, <1>13 DEF DevToolsInv

LEMMA SpawnStep ==
    ASSUME DevToolsInv, NEW n \in Nat, Spawn(n), boot' = "done", UNCHANGED <<sab, supported, peer>>
    PROVE  DevToolsInv'
BY SkipStep, ConnectStep, FailsStep DEF Spawn

LEMMA ObserveStep == ASSUME DevToolsInv, Observe PROVE DevToolsInv'
<1>0. TypeOK /\ OneAttempt /\ ShownOnce /\ LiveInv /\ EntryInv
  BY DEF DevToolsInv
<1>1. UNCHANGED <<sab, supported, peer>> /\ boot = "waiting"
  BY DEF Observe
<1>2. CASE boot' = "done" /\ Spawn(timers)
  <2>1. timers \in Nat
    BY <1>0 DEF TypeOK
  <2>2. QED
    BY <1>1, <1>2, <2>1, SpawnStep
<1>3. CASE boot' = "stuck" /\ UNCHANGED <<mutex, timers, cur, conn, waits>>
  <2>1. UNCHANGED <<sab, supported, lock, counter, wrapped, misused, timers, cur, conn, waits, srv, wire, sent, shown, net>>
    BY <1>1, <1>3 DEF mutex, peer
  <2>2. TypeOK'
    BY <1>0, <1>3, <2>1 DEF TypeOK
  <2>3. OneAttempt' /\ ShownOnce' /\ NeverStranded'
    BY <1>0, <1>3, <2>1 DEF OneAttempt, ShownOnce, NeverStranded
  <2>4. LiveInv' /\ EntryInv'
    BY <1>0, <1>1, <1>3, <2>1 DEF LiveInv, EntryInv, Live
  <2>5. QED
    BY <2>2, <2>3, <2>4 DEF DevToolsInv
<1>4. QED
  BY <1>2, <1>3 DEF Observe

LEMMA TimerStep == ASSUME DevToolsInv, Timer PROVE DevToolsInv'
<1>0. boot = "done"
  BY DEF DevToolsInv, LiveInv, Timer
<1>1. timers - 1 \in Nat
  BY DEF DevToolsInv, TypeOK, Timer
<1>2. boot' = "done" /\ UNCHANGED <<sab, supported, peer>>
  BY <1>0 DEF Timer, page
<1>3. QED
  BY <1>1, <1>2, SpawnStep DEF Timer

\* The end of an attempt, whether the mutex still was its own or not.
LEMMA UnlockKeeps ==
    ASSUME TypeOK, OneAttempt, NEW c \in Conns, c = cur \/ c \in waits, Unlock(c), UNCHANGED cur
    PROVE  OneAttempt'
<1>1. lock' = 0 /\ waits' = waits \ {c}
  BY DEF Unlock, Unlocked
<1>2. ASSUME ~wrapped' PROVE waits' = {}
  <2>1. ~wrapped \/ waits' = {}
    BY <1>2, Zenon DEF Unlock
  <2>2. CASE ~wrapped
    BY <1>1, <2>2 DEF OneAttempt
  <2>3. QED
    BY <2>1, <2>2
<1>3. QED
  BY <1>1, <1>2 DEF OneAttempt

\* The events of a websocket.
LEMMA OpenStep == ASSUME DevToolsInv, NEW c \in Conns, Open(c) PROVE DevToolsInv'
<1>0. TypeOK /\ OneAttempt /\ ShownOnce /\ LiveInv /\ EntryInv
  BY DEF DevToolsInv
<1>1. UNCHANGED <<boot, sab, supported, counter, timers, cur, srv, wire, sent, shown, net>>
  BY DEF Open, Unlock, page, peer
<1>2. c = cur /\ waits' = waits \ {c} /\ lock' = 0 /\ boot = "done"
  BY <1>0 DEF Open, Unlock, Unlocked, LiveInv, Live
<1>3. conn' = [conn EXCEPT ![c] = "open"] /\ conn[c] = "connecting"
  BY DEF Open
<1>4. TypeOK'
  <2>1. conn' \in [Conns -> {"connecting", "open", "closing", "closed"}]
    BY <1>0, <1>3 DEF TypeOK
  <2>2. wrapped' \in BOOLEAN /\ misused' \in BOOLEAN
    BY Zenon DEF Open, Unlock
  <2>3. QED
    BY <1>0, <1>1, <1>2, <2>1, <2>2 DEF TypeOK
<1>5. \A d \in Conns : /\ Live(d)' <=> Live(d)
                       /\ conn'[d] # "connecting"
                       /\ d # c => conn'[d] = conn[d]
                       /\ conn'[d] = "closed" => conn[d] = "closed"
  BY <1>0, <1>2, <1>3 DEF Live, TypeOK, LiveInv
<1>6. OneAttempt'
  BY <1>0, <1>2, UnlockKeeps DEF Open
<1>7. ShownOnce'
  BY <1>0, <1>1 DEF ShownOnce
<1>8. NeverStranded'
  BY <1>0, <1>1, <1>2, <1>3 DEF NeverStranded, Live, TypeOK
<1>9. LiveInv'
  <2>1. ~supported' => waits' = {}
    BY <1>0, <1>1, <1>2 DEF LiveInv
  <2>2. \A d \in waits' : conn'[d] \in {"connecting", "closing"}
    BY <1>0, <1>2, <1>5 DEF LiveInv, TypeOK
  <2>3. QED
    BY <1>0, <1>1, <1>2, <1>5, <2>1, <2>2 DEF LiveInv
<1>10. EntryInv'
  BY <1>0, <1>1, <1>5 DEF EntryInv
<1>11. QED
  BY <1>4, <1>6, <1>7, <1>8, <1>9, <1>10 DEF DevToolsInv

LEMMA FailStep == ASSUME DevToolsInv, NEW c \in Conns, Fail(c) PROVE DevToolsInv'
<1>0. TypeOK /\ OneAttempt /\ ShownOnce /\ LiveInv /\ EntryInv
  BY DEF DevToolsInv
<1>1. UNCHANGED <<boot, sab, supported, counter, cur, srv, sent, shown, net>>
  BY DEF Fail, Unlock, page
<1>2. /\ c \in waits /\ waits' = waits \ {c} /\ lock' = 0
      /\ conn[c] \in {"connecting", "closing"} /\ boot = "done"
  BY <1>0 DEF Fail, Unlock, Unlocked, LiveInv
<1>3. conn' = [conn EXCEPT ![c] = "closed"] /\ wire' = [wire EXCEPT ![c] = {}]
  BY DEF Fail
<1>4. timers' \in Nat \ {0}
  BY <1>0 DEF Fail, OnClose, TypeOK
<1>5. TypeOK'
  <2>1. conn' \in [Conns -> {"connecting", "open", "closing", "closed"}]
    BY <1>0, <1>3 DEF TypeOK
  <2>2. wrapped' \in BOOLEAN /\ misused' \in BOOLEAN
    BY Zenon DEF Fail, Unlock
  <2>3. wire' \in [Conns -> SUBSET (1 .. MaxSent)]
    BY <1>0, <1>3 DEF TypeOK
  <2>4. QED
    BY <1>0, <1>1, <1>2, <1>4, <2>1, <2>2, <2>3 DEF TypeOK
<1>6. \A d \in Conns : /\ d # c => conn'[d] = conn[d]
                       /\ Live(d)' => Live(d)
                       /\ wire'[d] \subseteq wire[d]
                       /\ conn'[c] = "closed" /\ wire'[c] = {}
  BY <1>0, <1>3 DEF Live, TypeOK
<1>7. OneAttempt'
  BY <1>0, <1>2, UnlockKeeps DEF Fail
<1>8. ShownOnce' /\ NeverStranded'
  BY <1>0, <1>1, <1>4 DEF ShownOnce, NeverStranded
<1>9. LiveInv'
  <2>1. ~supported' => waits' = {}
    BY <1>0, <1>1, <1>2 DEF LiveInv
  <2>2. \A d \in Conns : conn'[d] = "connecting" => d \in waits'
    BY <1>0, <1>2, <1>6 DEF LiveInv
  <2>3. \A d \in waits' : conn'[d] \in {"connecting", "closing"}
    BY <1>0, <1>2, <1>6 DEF LiveInv, TypeOK
  <2>4. QED
    BY <1>0, <1>1, <1>2, <1>6, <2>1, <2>2, <2>3 DEF LiveInv
<1>10. EntryInv'
  <2>1. \A d \in Conns : conn'[d] = "closed" => wire'[d] = {}
    BY <1>0, <1>6 DEF EntryInv
  <2>2. QED
    BY <1>0, <1>1, <1>6, <2>1 DEF EntryInv
<1>11. QED
  BY <1>5, <1>7, <1>8, <1>9, <1>10 DEF DevToolsInv

LEMMA ClosedStep == ASSUME DevToolsInv, NEW c \in Conns, Closed(c) PROVE DevToolsInv'
<1>0. TypeOK /\ OneAttempt /\ ShownOnce /\ LiveInv /\ EntryInv
  BY DEF DevToolsInv
<1>1. UNCHANGED <<boot, sab, supported, lock, counter, wrapped, misused, cur, waits, srv, sent, shown, net>>
  BY DEF Closed, mutex, page
<1>2. conn' = [conn EXCEPT ![c] = "closed"] /\ wire' = [wire EXCEPT ![c] = {}]
  BY DEF Closed
<1>3. timers' \in Nat \ {0} /\ boot = "done" /\ conn[c] # "connecting"
  BY <1>0 DEF Closed, OnClose, TypeOK, LiveInv
<1>4. TypeOK'
  <2>1. conn' \in [Conns -> {"connecting", "open", "closing", "closed"}]
    BY <1>0, <1>2 DEF TypeOK
  <2>2. wire' \in [Conns -> SUBSET (1 .. MaxSent)]
    BY <1>0, <1>2 DEF TypeOK
  <2>3. QED
    BY <1>0, <1>1, <1>3, <2>1, <2>2 DEF TypeOK
<1>5. \A d \in Conns : /\ Live(d)' => Live(d)
                       /\ conn'[d] = "connecting" <=> conn[d] = "connecting"
                       /\ wire'[d] \subseteq wire[d]
                       /\ conn'[d] = "closed" => d = c \/ conn[d] = "closed"
                       /\ wire'[c] = {}
  BY <1>0, <1>2, <1>3 DEF Live, TypeOK
<1>6. OneAttempt' /\ ShownOnce' /\ NeverStranded'
  BY <1>0, <1>1, <1>3 DEF OneAttempt, ShownOnce, NeverStranded
<1>7. LiveInv'
  <2>1. c \notin waits /\ \A d \in waits : d \in Conns /\ conn'[d] = conn[d]
    BY <1>0, <1>2 DEF Closed, TypeOK
  <2>2. \A d \in waits' : conn'[d] \in {"connecting", "closing"}
    BY <1>0, <1>1, <2>1 DEF LiveInv
  <2>3. QED
    BY <1>0, <1>1, <1>3, <1>5, <2>2 DEF LiveInv
<1>8. EntryInv'
  <2>1. \A d \in Conns : conn'[d] = "closed" => wire'[d] = {}
    BY <1>0, <1>5 DEF EntryInv
  <2>2. QED
    BY <1>0, <1>1, <1>5, <2>1 DEF EntryInv
<1>9. QED
  BY <1>4, <1>6, <1>7, <1>8 DEF DevToolsInv

LEMMA MessageStep == ASSUME DevToolsInv, NEW c \in Conns, Message(c) PROVE DevToolsInv'
<1>0. TypeOK /\ OneAttempt /\ NeverStranded /\ ShownOnce /\ LiveInv /\ EntryInv
  BY DEF DevToolsInv
<1>1. UNCHANGED <<boot, sab, supported, lock, counter, wrapped, misused, timers, cur, conn, waits, srv, sent, net>>
  BY DEF Message, mutex, page
<1>2. PICK e \in wire[c] : shown' = [shown EXCEPT ![e] = @ + 1] /\ wire' = [wire EXCEPT ![c] = @ \ {e}]
  BY DEF Message
<1>3. Live(c) /\ c = cur /\ \A d \in Conns : Live(d) => d = c
  BY <1>0 DEF Message, Live, LiveInv
<1>4. e \in 1 .. MaxSent /\ e <= sent /\ shown[e] = 0
  BY <1>0, <1>3 DEF TypeOK, EntryInv
<1>5. shown' \in [1 .. MaxSent -> Nat] /\ shown'[e] = 1 /\ \A f \in 1 .. MaxSent : f # e => shown'[f] = shown[f]
  BY <1>0, <1>2, <1>4 DEF TypeOK
<1>6. wire' \in [Conns -> SUBSET (1 .. MaxSent)] /\ wire'[c] = wire[c] \ {e} /\ \A d \in Conns : d # c => wire'[d] = wire[d]
  BY <1>0, <1>2 DEF TypeOK
<1>7. TypeOK'
  BY <1>0, <1>1, <1>5, <1>6 DEF TypeOK
<1>8. OneAttempt' /\ NeverStranded'
  BY <1>0, <1>1 DEF OneAttempt, NeverStranded, Live
<1>9. ShownOnce'
  BY <1>0, <1>5 DEF ShownOnce
<1>10. LiveInv'
  BY <1>0, <1>1 DEF LiveInv, Live
<1>11. EntryInv'
  <2>1. \A d \in Conns : conn'[d] = "closed" => wire'[d] = {}
    BY <1>0, <1>1, <1>3, <1>6 DEF EntryInv, Live
  <2>2. \A d \in Conns : \A f \in wire'[d] : f <= sent'
    BY <1>0, <1>1, <1>6 DEF EntryInv
  <2>3. \A f \in 1 .. MaxSent : f > sent' => shown'[f] = 0
    BY <1>0, <1>1, <1>4, <1>5 DEF EntryInv, TypeOK
  <2>4. \A d \in Conns : \A f \in wire'[d] : Live(d)' => shown'[f] = 0
    <3>1. ASSUME NEW d \in Conns, NEW f \in wire'[d], Live(d)' PROVE shown'[f] = 0
      <4>1. d = c /\ Live(d)
        BY <1>1, <1>3, <3>1 DEF Live
      <4>2. f \in wire[c] /\ f # e /\ f \in 1 .. MaxSent
        BY <1>6, <4>1
      <4>3. QED
        BY <1>0, <1>3, <1>5, <4>2 DEF EntryInv
    <3>2. QED
      BY <3>1
  <2>5. QED
    BY <2>1, <2>2, <2>3, <2>4 DEF EntryInv
<1>12. QED
  BY <1>7, <1>8, <1>9, <1>10, <1>11 DEF DevToolsInv

\* The server.
LEMMA ServeStep == ASSUME DevToolsInv, NEW c \in Conns, Accept(c) \/ Add(c) \/ Remove(c) PROVE DevToolsInv'
<1>0. TypeOK /\ OneAttempt /\ NeverStranded /\ ShownOnce /\ LiveInv /\ EntryInv
  BY DEF DevToolsInv
<1>1. UNCHANGED <<boot, sab, supported, lock, counter, wrapped, misused, timers, cur, conn, waits, wire, sent, shown, net>>
  BY DEF Accept, Add, Remove, mutex, page
<1>2. srv' \in [Conns -> {"none", "accepted", "added"}]
  BY <1>0 DEF Accept, Add, Remove, TypeOK
<1>3. TypeOK'
  BY <1>0, <1>1, <1>2 DEF TypeOK
<1>4. OneAttempt' /\ NeverStranded' /\ ShownOnce' /\ LiveInv' /\ EntryInv'
  BY <1>0, <1>1 DEF OneAttempt, NeverStranded, ShownOnce, LiveInv, EntryInv, Live
<1>5. QED
  BY <1>3, <1>4 DEF DevToolsInv

LEMMA SendStep == ASSUME DevToolsInv, Send PROVE DevToolsInv'
<1>0. TypeOK /\ OneAttempt /\ NeverStranded /\ ShownOnce /\ LiveInv /\ EntryInv
  BY DEF DevToolsInv
<1>1. UNCHANGED <<boot, sab, supported, lock, counter, wrapped, misused, timers, cur, conn, waits, srv, shown, net>>
  BY DEF Send, mutex, page
<1>2. sent + 1 \in 1 .. MaxSent /\ sent' = sent + 1 /\ sent \in Nat
  BY <1>0, BoundsAssumption DEF Send, TypeOK
<1>3. wire' \in [Conns -> SUBSET (1 .. MaxSent)]
  BY <1>0, <1>2 DEF Send, TypeOK
<1>4. \A d \in Conns : /\ conn[d] = "closed" => wire'[d] = wire[d]
                       /\ wire'[d] \subseteq wire[d] \cup {sent + 1}
  BY <1>0 DEF Send
<1>5. shown[sent + 1] = 0
  BY <1>0, <1>2 DEF EntryInv
<1>6. TypeOK'
  BY <1>0, <1>1, <1>2, <1>3 DEF TypeOK
<1>7. OneAttempt' /\ NeverStranded' /\ ShownOnce' /\ LiveInv'
  BY <1>0, <1>1 DEF OneAttempt, NeverStranded, ShownOnce, LiveInv, Live
<1>8. EntryInv'
  <2>1. \A d \in Conns : conn'[d] = "closed" => wire'[d] = {}
    BY <1>0, <1>1, <1>4 DEF EntryInv
  <2>2. \A d \in Conns : \A e \in wire'[d] : e \in 1 .. MaxSent /\ (e \in wire[d] \/ e = sent + 1)
    BY <1>3, <1>4
  <2>3. \A d \in Conns : \A e \in wire'[d] : e <= sent'
    BY <1>0, <1>2, <2>2 DEF EntryInv
  <2>4. \A d \in Conns : \A e \in wire'[d] : Live(d)' => shown'[e] = 0
    BY <1>0, <1>1, <1>5, <2>2 DEF EntryInv, Live
  <2>5. \A e \in 1 .. MaxSent : e > sent' => shown'[e] = 0
    BY <1>0, <1>1, <1>2 DEF EntryInv
  <2>6. QED
    BY <2>1, <2>3, <2>4, <2>5 DEF EntryInv
<1>9. QED
  BY <1>6, <1>7, <1>8 DEF DevToolsInv

LEMMA NetStep == ASSUME DevToolsInv, Net PROVE DevToolsInv'
<1>0. TypeOK /\ OneAttempt /\ NeverStranded /\ ShownOnce /\ LiveInv /\ EntryInv
  BY DEF DevToolsInv
<1>1. UNCHANGED <<boot, sab, supported, lock, counter, wrapped, misused, timers, cur, conn, waits, srv, wire, sent, shown>>
  BY DEF Net, mutex, page
<1>2. net' \in BOOLEAN
  BY Zenon DEF Net
<1>3. TypeOK'
  BY <1>0, <1>1, <1>2 DEF TypeOK
<1>4. OneAttempt' /\ NeverStranded' /\ ShownOnce' /\ LiveInv' /\ EntryInv'
  BY <1>0, <1>1 DEF OneAttempt, NeverStranded, ShownOnce, LiveInv, EntryInv, Live
<1>5. QED
  BY <1>3, <1>4 DEF DevToolsInv

LEMMA StutterStep == ASSUME DevToolsInv, UNCHANGED vars PROVE DevToolsInv'
BY DEF DevToolsInv, TypeOK, OneAttempt, NeverStranded, ShownOnce, LiveInv, EntryInv, Live,
       vars, page, mutex, peer

LEMMA NextInv == ASSUME DevToolsInv, [Next]_vars PROVE DevToolsInv'
<1>1. CASE Page
  BY <1>1, ObserveStep, TimerStep, OpenStep, FailStep, ClosedStep, MessageStep DEF Page
<1>2. CASE Server
  BY <1>2, ServeStep, SendStep, NetStep DEF Server
<1>3. CASE UNCHANGED vars
  BY <1>3, StutterStep
<1>4. QED
  BY <1>1, <1>2, <1>3 DEF Next

\* devtools/init.js: the inductive invariant, however often the mutex is
\* locked.
THEOREM Invariance == Spec => []DevToolsInv
<1>1. Init => DevToolsInv
  BY InitInv
<1>2. DevToolsInv /\ [Next]_vars => DevToolsInv'
  BY NextInv
<1>3. QED
  BY <1>1, <1>2, PTL DEF Spec

\* No two spawns are between their tryLock and their unlock, although each
\* is suspended there until its websocket opens or fails; two can be only
\* from a lock that stores 0, as every 256th does in a page with a
\* SharedArrayBuffer, until all of those attempts have ended.
THEOREM MutexWorks == Spec => []OneAttempt
<1>1. DevToolsInv => OneAttempt
  BY DEF DevToolsInv
<1>2. QED
  BY <1>1, Invariance, PTL

\* The page always has a connection or an event that leads to one, whatever
\* fails, however many retries are skipped, and also while attempts overtake
\* each other.
THEOREM AlwaysRetries == Spec => []NeverStranded
<1>1. DevToolsInv => NeverStranded
  BY DEF DevToolsInv
<1>2. QED
  BY <1>1, Invariance, PTL

\* An entry that the server writes to the old connection of a page and to
\* the new one is shown once, however many attempts are under way.
THEOREM EntryShownOnce == Spec => []ShownOnce
<1>1. DevToolsInv => ShownOnce
  BY DEF DevToolsInv
<1>2. QED
  BY <1>1, Invariance, PTL
=============================================================================
