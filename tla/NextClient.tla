----------------------------- MODULE NextClient -----------------------------
(***************************************************************************)
(* etc/subtrace-next/index.ts: outgoing fetches and incoming requests of a *)
(* Next.js server are traced.  The event of a call is uploaded over one    *)
(* websocket, that the calls create, share and replace through a global    *)
(* connection state, before the response is handed to the application.    *)
(*                                                                         *)
(* JavaScript runs a promise's reactions before the next event: no event   *)
(* comes between the opening of a websocket and the code that awaited it.  *)
(* The module may be evaluated several times in a process (once per bundle *)
(* or reload); each instance wraps the fetch that the one before installed *)
(* and uploads an event of its own, the connection state is shared.        *)
(***************************************************************************)
EXTENDS Integers, FiniteSets

CONSTANTS Calls,      \* traced fetches and traced handlers
          Bodies,     \* those with a body to read
          Instances,  \* evaluations of the module
          Limit,      \* SUBTRACE_PAYLOAD_LIMIT
          MaxBody,    \* bound: bytes of a body
          MaxMakers   \* bound: calls of createWebSocket

ASSUME NextAssumption == /\ Instances \in Nat \ {0}
                         /\ Limit \in Nat /\ MaxBody \in Nat
                         /\ MaxMakers \in Nat \ {0}
                         /\ Calls \cap Nat = {}
                         /\ Bodies \subseteq Calls

Makers == 1 .. MaxMakers

VARIABLES conn,     \* globalThis[connKey]: its kind, and the call of createWebSocket it is of
          made,     \* calls of createWebSocket
          inst,     \* the instance that made each
          pc,       \* where each traced call, and each createWebSocket, is
          level,    \* the instance whose upload it is in
          held,     \* the createWebSocket whose websocket it awaits or has
          sock,     \* readyState of the websocket of each createWebSocket
          body,     \* the clone of a call's body: "stream", "closed", "failed"
          arrived,  \* bytes of the body
          kept,     \* bytes that limit has passed on
          sent,     \* uploads that were sent on an open websocket
          dropped,  \* uploads that were sent on a closed one
          caught,   \* uploads that ended in the catch clause
          bad,      \* JoinPublisher answered 200 without a usable URL
          net       \* the endpoint is reachable

bodies  == <<body, arrived, kept>>
results == <<sent, dropped, caught>>
vars    == <<conn, made, inst, pc, level, held, sock, bodies, results, bad, net>>

Tasks == Calls \cup Makers

Uninitialized == [kind |-> "Uninitialized", of |-> 0]
Creating(k)   == [kind |-> "Creating", of |-> k]
Created(k)    == [kind |-> "Created", of |-> k]

\* The first instance's init has called getWebSocket and patched fetch.
Init == /\ conn = Creating(1)
        /\ made = 1
        /\ inst = [k \in Makers |-> 1]
        /\ pc = [t \in Tasks |-> IF t \in Calls THEN "origin" ELSE IF t = 1 THEN "joining" ELSE "unused"]
        /\ level = [t \in Tasks |-> 0]
        /\ held = [t \in Tasks |-> 0]
        /\ sock = [k \in Makers |-> "none"]
        /\ body = [c \in Calls |-> IF c \in Bodies /\ Limit > 0 THEN "stream" ELSE "closed"]
        /\ arrived = [c \in Calls |-> 0]
        /\ kept = [c \in Calls |-> 0]
        /\ sent = {} /\ dropped = {} /\ caught = {}
        /\ bad = FALSE
        /\ net \in BOOLEAN

Goto(t, label) == pc' = [pc EXCEPT ![t] = label]
-----------------------------------------------------------------------------
(* getWebSocket.                                                            *)

Awaits(t) == pc[t] \in {"first", "firstset", "second"}

\* No reaction of a settled promise is pending: the next event may come.
Quiet == \A t \in Tasks : Awaits(t) => pc[held[t]] \notin {"resolved", "rejected"}

\* createWebSocket, until its first await; t awaits the promise.
Create(t, label) ==
    /\ made < MaxMakers
    /\ made' = made + 1
    /\ inst' = [inst EXCEPT ![made + 1] = level[t]]
    /\ pc' = [pc EXCEPT ![made + 1] = "joining", ![t] = label]
    /\ held' = [held EXCEPT ![t] = made + 1]
    /\ conn' = Creating(made + 1)

\* The first getWebSocket of an upload.
GetWebSocket(t) ==
    /\ pc[t] = "respond"
    /\ \/ conn.kind = "Uninitialized" /\ Create(t, "first")
       \/ /\ conn.kind = "Creating"
          /\ Goto(t, "firstset")
          /\ held' = [held EXCEPT ![t] = conn.of]
          /\ UNCHANGED <<conn, made, inst>>
       \/ /\ conn.kind = "Created"
          /\ Goto(t, "entry")
          /\ held' = [held EXCEPT ![t] = conn.of]
          /\ UNCHANGED <<conn, made, inst>>
    /\ UNCHANGED <<level, sock, bodies, results, bad, net>>

\* The promise was fulfilled: the one who found it in the state stores the
\* websocket there, whatever the state has become in the meantime.
Fulfilled(t) ==
    /\ pc[t] \in {"first", "firstset"}
    /\ pc[held[t]] = "resolved"
    /\ conn' = IF pc[t] = "firstset" THEN Created(held[t]) ELSE conn
    /\ Goto(t, "entry")
    /\ UNCHANGED <<made, inst, level, held, sock, bodies, results, bad, net>>

\* The promise was rejected, outside the try of upload: a traced call
\* fails; createWebSocket, of a later instance, backs off and tries again.
Rejected(t) ==
    /\ pc[t] \in {"first", "firstset"}
    /\ pc[held[t]] = "rejected"
    /\ Goto(t, IF t \in Calls THEN "threw" ELSE "backoff")
    /\ UNCHANGED <<conn, made, inst, level, held, sock, bodies, results, bad, net>>
-----------------------------------------------------------------------------
(* The rest of upload.                                                      *)

\* The layers of fetch under t.
Layers(t) == IF t \in Calls THEN Instances ELSE inst[t] - 1

\* The upload of one layer is over: the next one uploads, or t goes on.
Return(t) ==
    /\ level' = [level EXCEPT ![t] = IF @ < Layers(t) THEN @ + 1 ELSE 0]
    /\ Goto(t, IF level[t] < Layers(t) THEN "respond" ELSE IF t \in Calls THEN "done" ELSE "answered")

\* createHarEntry has the bodies, or none when one of them failed.
HasEntry(t) == t \in Calls => body[t] # "stream"

AnyState(k) == TRUE
IsOpen(k) == sock[k] = "open"

\* send: a websocket that is closing or closed drops the message silently.
Send(t) == IF sock[held[t]] = "open"
           THEN sent' = sent \cup {<<t, level[t]>>} /\ UNCHANGED <<dropped, caught>>
           ELSE dropped' = dropped \cup {<<t, level[t]>>} /\ UNCHANGED <<sent, caught>>

\* The websocket is looked at and used; one that is not open is forgotten,
\* and another created, however many calls do so.
Upload(t) ==
    /\ pc[t] = "entry"
    /\ HasEntry(t)
    /\ \/ /\ IsOpen(held[t])
          /\ Send(t)
          /\ Return(t)
          /\ UNCHANGED <<conn, made, inst, held>>
       \/ /\ ~IsOpen(held[t])
          /\ Create(t, "second")
          /\ UNCHANGED <<level, results>>
    /\ UNCHANGED <<sock, bodies, bad, net>>

Resend(t) ==
    /\ pc[t] = "second"
    /\ pc[held[t]] = "resolved"
    /\ Send(t)
    /\ Return(t)
    /\ UNCHANGED <<conn, made, inst, held, sock, bodies, bad, net>>

\* The catch clause; the websocket it closes was not open.
Catch(t) ==
    /\ pc[t] = "second"
    /\ pc[held[t]] = "rejected"
    /\ caught' = caught \cup {<<t, level[t]>>}
    /\ conn' = Uninitialized
    /\ Return(t)
    /\ UNCHANGED <<made, inst, held, sock, bodies, sent, dropped, bad, net>>
-----------------------------------------------------------------------------
(* The origin of a traced call: the real fetch, or the handler.             *)

Response(c) ==
    /\ pc[c] = "origin"
    /\ Quiet
    /\ Goto(c, "respond")
    /\ level' = [level EXCEPT ![c] = 1]
    /\ UNCHANGED <<conn, made, inst, held, sock, bodies, results, bad, net>>

\* An error of the origin passes through, without an event; it is the only
\* outcome for a body that can be read once, which new Request has taken.
OriginFails(c) ==
    /\ pc[c] = "origin"
    /\ Quiet
    /\ Goto(c, "threw")
    /\ UNCHANGED <<conn, made, inst, level, held, sock, bodies, results, bad, net>>

\* The part of a chunk that limit passes on.
WholeChunk(length, bytesLeft) == length
Chunk(length, bytesLeft) == IF length > bytesLeft THEN bytesLeft ELSE length

\* A chunk arrives; limit closes the clone when its bytes are used up.
Data(c) ==
    /\ pc[c] # "origin"
    /\ Quiet
    /\ body[c] = "stream"
    /\ \E length \in 1 .. MaxBody - arrived[c] :
          LET k == kept[c] + Chunk(length, Limit - kept[c])
          IN  /\ arrived' = [arrived EXCEPT ![c] = @ + length]
              /\ kept' = [kept EXCEPT ![c] = k]
              /\ body' = [body EXCEPT ![c] = IF k >= Limit THEN "closed" ELSE @]
    /\ UNCHANGED <<conn, made, inst, pc, level, held, sock, results, bad, net>>

\* The body ends, or fails: the event then has no bodies at all.
BodyEnds(c) ==
    /\ pc[c] # "origin"
    /\ Quiet
    /\ body[c] = "stream"
    /\ \/ body' = [body EXCEPT ![c] = "closed"] /\ UNCHANGED kept
       \/ body' = [body EXCEPT ![c] = "failed"] /\ kept' = [kept EXCEPT ![c] = 0]
    /\ UNCHANGED <<conn, made, inst, pc, level, held, sock, arrived, results, bad, net>>
-----------------------------------------------------------------------------
(* createWebSocket.                                                         *)

\* JoinPublisher is called with the fetch of the instance before, which
\* uploads an event of its own for it.
Join(k) ==
    /\ pc[k] = "joining"
    /\ Quiet
    /\ IF net
       THEN /\ Goto(k, IF Layers(k) = 0 THEN "answered" ELSE "respond")
            /\ level' = [level EXCEPT ![k] = IF Layers(k) = 0 THEN 0 ELSE 1]
       ELSE Goto(k, "backoff") /\ UNCHANGED level
    /\ UNCHANGED <<conn, made, inst, held, sock, bodies, results, bad, net>>

GivesUp(k) == pc[k] = "backoff" /\ UNCHANGED vars
Backoff(k) ==
    /\ pc[k] = "backoff"
    /\ Quiet
    /\ Goto(k, "joining")
    /\ UNCHANGED <<conn, made, inst, level, held, sock, bodies, results, bad, net>>

Dial(k) ==
    /\ pc[k] = "answered"
    /\ Goto(k, "dialing")
    /\ sock' = [sock EXCEPT ![k] = "connecting"]
    /\ UNCHANGED <<conn, made, inst, level, held, bodies, results, bad, net>>

\* json() or the constructor of the websocket throws, outside any try.
BadAnswer(k) ==
    /\ pc[k] = "answered"
    /\ Goto(k, "rejected")
    /\ bad' = TRUE
    /\ UNCHANGED <<conn, made, inst, level, held, sock, bodies, results, net>>

Opened(k) ==
    /\ pc[k] = "dialing"
    /\ Quiet
    /\ net
    /\ sock' = [sock EXCEPT ![k] = "open"]
    /\ Goto(k, "resolved")
    /\ UNCHANGED <<conn, made, inst, level, held, bodies, results, bad, net>>

Refused(k) ==
    /\ pc[k] = "dialing"
    /\ Quiet
    /\ ~net
    /\ sock' = [sock EXCEPT ![k] = "closed"]
    /\ Goto(k, "backoff")
    /\ UNCHANGED <<conn, made, inst, level, held, bodies, results, bad, net>>

Lose(k) ==
    /\ sock[k] = "open"
    /\ Quiet
    /\ ~net
    /\ sock' = [sock EXCEPT ![k] = "closed"]
    /\ UNCHANGED <<conn, made, inst, pc, level, held, bodies, results, bad, net>>

Net == /\ net' = ~net
       /\ UNCHANGED <<conn, made, inst, pc, level, held, sock, bodies, results, bad>>
-----------------------------------------------------------------------------
Task(t) == GetWebSocket(t) \/ Fulfilled(t) \/ Rejected(t) \/ Upload(t) \/ Resend(t) \/ Catch(t)

Call(c) == Response(c) \/ OriginFails(c)

Maker(k) == Join(k) \/ Backoff(k) \/ Dial(k) \/ BadAnswer(k) \/ Opened(k) \/ Refused(k)

Next == \/ \E t \in Tasks : Task(t)
        \/ \E c \in Calls : Call(c) \/ Data(c) \/ BodyEnds(c)
        \/ \E k \in Makers : Maker(k) \/ Lose(k)
        \/ Net

Spec == Init /\ [][Next]_vars

(* Promises settle, timers fire, origins answer and their bodies end; the   *)
(* endpoint need not be reachable.                                          *)
Fairness == /\ \A t \in Tasks : WF_vars(Task(t))
            /\ \A c \in Calls : WF_vars(Call(c)) /\ WF_vars(BodyEnds(c))
            /\ \A k \in Makers : WF_vars(Maker(k))

FairSpec == Spec /\ Fairness
-----------------------------------------------------------------------------
TypeOK == /\ conn \in [kind : {"Uninitialized", "Creating", "Created"}, of : 0 .. MaxMakers]
          /\ made \in Makers
          /\ inst \in [Makers -> 1 .. Instances]
          /\ pc \in [Tasks -> {"origin", "respond", "first", "firstset", "entry", "second", "done", "threw",
                               "unused", "joining", "backoff", "answered", "dialing", "resolved", "rejected"}]
          /\ level \in [Tasks -> 0 .. Instances]
          /\ held \in [Tasks -> 0 .. MaxMakers]
          /\ sock \in [Makers -> {"none", "connecting", "open", "closed"}]
          /\ body \in [Calls -> {"stream", "closed", "failed"}]
          /\ arrived \in [Calls -> 0 .. MaxBody]
          /\ kept \in [Calls -> Nat]
          /\ sent \subseteq Tasks \X (1 .. Instances)
          /\ dropped \subseteq Tasks \X (1 .. Instances)
          /\ caught \subseteq Tasks \X (1 .. Instances)
          /\ bad \in BOOLEAN
          /\ net \in BOOLEAN

\* However the websocket is lost and replaced while a call reads its bodies,
\* an event is not handed to a websocket that is not open, which would drop
\* it silently; and a call that returned has uploaded its event, unless
\* JoinPublisher gave it no websocket.
NothingDropped == /\ dropped = {}
                  /\ \A c \in Calls : pc[c] = "done" =>
                        \A l \in 1 .. Instances : <<c, l>> \in sent \/ (<<c, l>> \in caught /\ bad)

\* limit passes on the first bytes of a body, as many as it may, however the
\* body was cut into chunks.
PayloadLimited == \A c \in Calls : body[c] # "failed" =>
                     /\ kept[c] <= Limit
                     /\ kept[c] < Limit => kept[c] = arrived[c]

\* The shared connection state names a websocket that has been opened, or a
\* createWebSocket that is under way or settled; it keeps a rejected one
\* only after an unusable answer.
StateUsable == /\ conn.kind = "Created" => pc[conn.of] = "resolved" /\ sock[conn.of] \in {"open", "closed"}
               /\ conn.kind = "Creating" => pc[conn.of] # "unused" /\ (pc[conn.of] = "rejected" => bad)

\* Once the endpoint is reachable, and as long as its answers are usable,
\* every traced call returns to the application: tracing does not hang it.
CallReturns == (<>[]net /\ []~bad) => \A c \in Calls : <>(pc[c] \in {"done", "threw"})

\* Nobody waits for what nobody does.  With one instance of the module, the
\* createWebSocket that a task awaits was called and is under way by itself: it
\* awaits no upload, its own or another's, and it is rejected only after an
\* unusable answer.  (With two, a createWebSocket may find and await itself.)
AwaitsSettle ==
    Instances = 1 => \A t \in Tasks : Awaits(t) =>
        \/ pc[held[t]] \in {"joining", "backoff", "answered", "dialing"}
        \/ pc[held[t]] = "resolved" /\ sock[held[t]] \in {"open", "closed"}
        \/ pc[held[t]] = "rejected" /\ bad

\* A call's event is uploaded once at every layer, over whichever websocket: one
\* that is still to be uploaded has been neither sent nor given up in the catch
\* clause, and none has been both.
UploadedOnce ==
    \A c \in Calls : \A l \in 1 .. Instances : <<c, l>> \in sent \cup caught =>
        /\ pc[c] # "origin"
        /\ pc[c] \in {"respond", "first", "firstset", "entry", "second"} => l < level[c]
        /\ <<c, l>> \notin sent \cap caught
=============================================================================
