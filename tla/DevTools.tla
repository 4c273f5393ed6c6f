------------------------------ MODULE DevTools ------------------------------
(***************************************************************************)
(* devtools/init.js, the script of the DevTools page that shows the        *)
(* traced requests, with the server of devtools/devtools.go that sends     *)
(* them.  The page keeps one websocket to the server: a spawn, guarded by  *)
(* a hand-made mutex across its await, replaces the connection; onclose,   *)
(* and a spawn that failed, schedule the next one.                         *)
(*                                                                         *)
(* A page is one thread: an event, with the promise reactions that follow  *)
(* it, is a step.  The identity of a connection may be used again once     *)
(* both ends are through with it.  When a timer fires is left open: its    *)
(* delay, the backoff, is not modelled.                                    *)
(***************************************************************************)
EXTENDS Integers, FiniteSets

CONSTANTS Conns,      \* websockets of the page
          ByteMod,    \* values of a cell of a Uint8Array: 256
          MaxTimers,  \* bound: pending timers when a connection fails
          MaxSent     \* bound: entries sent by the server

ASSUME ByteAssumption == ByteMod \in Nat \ {0, 1}
ASSUME BoundsAssumption == MaxTimers \in Nat /\ MaxSent \in Nat

NoConn == "null"      \* no Client
Broken == "broken"    \* a Client whose WebSocket constructor threw

ASSUME ConnsAssumption == NoConn \notin Conns /\ Broken \notin Conns

VARIABLES boot,       \* the page: "waiting" for the inspector, "done" or "stuck"
          sab,        \* the page has SharedArrayBuffer
          supported,  \* WebSocket takes the page's address
          lock,       \* the mutex: 0 when free
          counter,    \* Mutex.#counter, as much of it as a cell can hold
          wrapped,    \* a lock stored 0, and attempts that began since then go on
          misused,    \* an unlock found the mutex free and threw
          timers,     \* pending timers that call spawn
          cur,        \* Manager.#client
          conn,       \* the page's end: "connecting", "open", "closing", "closed"
          waits,      \* connections whose spawn awaits them
          srv,        \* the server's end: "none", "accepted", "added"
          wire,       \* entries written to a connection
          sent,       \* entries sent
          shown,      \* how often each entry was added to the network log
          net         \* the server is reachable

mutex == <<lock, counter, wrapped, misused>>
page  == <<boot, sab, supported>>
peer  == <<srv, wire, sent, shown, net>>
vars  == <<page, mutex, timers, cur, conn, waits, peer>>

Init == /\ boot = "waiting"
        /\ sab \in BOOLEAN
        /\ supported \in BOOLEAN
        /\ lock = 0
        /\ counter = 1
        /\ wrapped = FALSE
        /\ misused = FALSE
        /\ timers = 0
        /\ cur = NoConn
        /\ conn = [c \in Conns |-> "closed"]
        /\ waits = {}
        /\ srv = [c \in Conns |-> "none"]
        /\ wire = [c \in Conns |-> {}]
        /\ sent = 0
        /\ shown = [e \in 1 .. MaxSent |-> 0]
        /\ net \in BOOLEAN
-----------------------------------------------------------------------------
(* The mutex and the timers.                                                *)

\* The counter is stored in a byte; without a SharedArrayBuffer a boolean is.
Stored == IF sab THEN counter ELSE 1

Counted == IF sab THEN (counter + 1) % ByteMod ELSE counter

AlwaysFree == TRUE
LockFree == lock = 0

StillLocked == lock
Unlocked == 0

\* onclose schedules a spawn.
NoReconnect(n) == n
OnClose(n) == n + 1
-----------------------------------------------------------------------------
(* The page.                                                                *)

\* close(): an open or connecting socket starts to close.
LeaveOpen(f, c) == f
CloseOf(f, c) == [f EXCEPT ![c] = IF @ \in {"connecting", "open"} THEN "closing" ELSE @]

\* The constructor of a Client: its websocket connects, and onopen and
\* onerror settle the promise that wait awaits.
NewClient(f, c) == [f EXCEPT ![c] = "connecting"]

\* spawn, when the lock is taken: the timer that should try again only
\* names the function.
Skip(n) ==
    /\ ~LockFree
    /\ timers' = n
    /\ UNCHANGED <<mutex, cur, conn, waits>>

\* spawn, until it awaits the new connection.
Connect(n) ==
    /\ LockFree
    /\ supported
    /\ \E c \in Conns :
          /\ conn[c] = "closed" /\ srv[c] = "none"
          /\ conn' = NewClient(IF cur \in Conns THEN CloseOf(conn, cur) ELSE conn, c)
          /\ cur' = c
          /\ waits' = waits \cup {c}
    /\ lock' = Stored
    /\ counter' = Counted
    /\ wrapped' = (wrapped \/ Stored = 0)
    /\ timers' = n
    /\ UNCHANGED misused

\* spawn, when the WebSocket constructor throws: onClose is called by the
\* Client's constructor, and nothing is awaited.  The next spawn fails, as
\* the Client has no connection to close, and schedules another one.
Fails(n) ==
    /\ LockFree
    /\ ~supported
    /\ cur' = Broken
    /\ timers' = n + 1
    /\ lock' = Unlocked
    /\ counter' = Counted
    /\ misused' = (misused \/ Stored = 0)
    /\ UNCHANGED <<wrapped, conn, waits>>

Spawn(n) == Skip(n) \/ Connect(n) \/ Fails(n)

\* The observer finds the inspector; main may throw before it creates the
\* manager, and leaves the observer's mutex locked.
Observe ==
    /\ boot = "waiting"
    /\ \/ boot' = "stuck" /\ UNCHANGED <<mutex, timers, cur, conn, waits>>
       \/ boot' = "done" /\ Spawn(timers)
    /\ UNCHANGED <<sab, supported, peer>>

Timer ==
    /\ timers > 0
    /\ Spawn(timers - 1)
    /\ UNCHANGED <<page, peer>>

\* The spawn that awaits c returns and unlocks the mutex.
Unlock(c) ==
    /\ waits' = waits \ {c}
    /\ lock' = Unlocked
    /\ wrapped' = (wrapped /\ waits' # {})
    /\ misused' = (misused \/ LockFree)
    /\ UNCHANGED counter

\* onopen.
Open(c) ==
    /\ conn[c] = "connecting"
    /\ srv[c] # "none"
    /\ conn' = [conn EXCEPT ![c] = "open"]
    /\ Unlock(c)
    /\ UNCHANGED <<page, timers, cur, peer>>

\* onerror, whose rejection makes the awaiting spawn schedule another one,
\* and onclose: a connection is refused, or is closed while connecting.
Fail(c) ==
    /\ c \in waits
    /\ conn[c] = "closing" \/ ~net
    /\ timers + 1 < MaxTimers
    /\ conn' = [conn EXCEPT ![c] = "closed"]
    /\ timers' = OnClose(timers + 1)
    /\ wire' = [wire EXCEPT ![c] = {}]
    /\ Unlock(c)
    /\ UNCHANGED <<page, cur, srv, sent, shown, net>>

\* onclose of a connection that was open.
Closed(c) ==
    /\ c \notin waits
    /\ conn[c] = "closing" \/ (conn[c] = "open" /\ (~net \/ srv[c] = "none"))
    /\ conn' = [conn EXCEPT ![c] = "closed"]
    /\ timers' = OnClose(timers)
    /\ wire' = [wire EXCEPT ![c] = {}]
    /\ UNCHANGED <<page, mutex, cur, waits, srv, sent, shown, net>>

\* onmessage: an entry is added to the network log.
Message(c) ==
    /\ conn[c] = "open"
    /\ \E e \in wire[c] :
          /\ shown' = [shown EXCEPT ![e] = @ + 1]
          /\ wire' = [wire EXCEPT ![c] = @ \ {e}]
    /\ UNCHANGED <<page, mutex, timers, cur, conn, waits, srv, sent, net>>
-----------------------------------------------------------------------------
(* The server.                                                              *)

Live(c) == conn[c] \in {"connecting", "open"}

Accept(c) ==
    /\ srv[c] = "none"
    /\ conn[c] = "connecting"
    /\ net
    /\ srv' = [srv EXCEPT ![c] = "accepted"]
    /\ UNCHANGED <<page, mutex, timers, cur, conn, waits, wire, sent, shown, net>>

Add(c) ==
    /\ srv[c] = "accepted"
    /\ srv' = [srv EXCEPT ![c] = "added"]
    /\ UNCHANGED <<page, mutex, timers, cur, conn, waits, wire, sent, shown, net>>

\* A failed ping, or the end of the request, removes the connection.
Remove(c) ==
    /\ srv[c] = "added"
    /\ ~Live(c) \/ ~net
    /\ srv' = [srv EXCEPT ![c] = "none"]
    /\ UNCHANGED <<page, mutex, timers, cur, conn, waits, wire, sent, shown, net>>

Snapshot == {c \in Conns : srv[c] = "added"}

\* An entry is written to every connection of a snapshot; nobody reads it
\* from one that the page has closed.
Send ==
    /\ sent < MaxSent
    /\ sent' = sent + 1
    /\ wire' = [c \in Conns |-> IF c \in Snapshot /\ conn[c] # "closed"
                               THEN wire[c] \cup {sent + 1} ELSE wire[c]]
    /\ UNCHANGED <<page, mutex, timers, cur, conn, waits, srv, shown, net>>

\* The server becomes unreachable, or reachable again.
Net == /\ net' = ~net
       /\ UNCHANGED <<page, mutex, timers, cur, conn, waits, srv, wire, sent, shown>>
-----------------------------------------------------------------------------
Page == Observe \/ Timer \/ \E c \in Conns : Open(c) \/ Fail(c) \/ Closed(c) \/ Message(c)

Server == Send \/ Net \/ \E c \in Conns : Accept(c) \/ Add(c) \/ Remove(c)

Next == Page \/ Server

Spec == Init /\ [][Next]_vars

(* Timers fire, a websocket opens, fails or closes in the end, and the      *)
(* server serves its connections.  Nothing is fair about the network.       *)
Fairness == /\ WF_vars(Timer)
            /\ \A c \in Conns : /\ WF_vars(Open(c)) /\ WF_vars(Fail(c)) /\ WF_vars(Closed(c))
                                /\ WF_vars(Accept(c)) /\ WF_vars(Add(c)) /\ WF_vars(Remove(c))

FairSpec == Spec /\ Fairness
-----------------------------------------------------------------------------
TypeOK == /\ boot \in {"waiting", "done", "stuck"}
          /\ sab \in BOOLEAN
          /\ supported \in BOOLEAN
          /\ wrapped \in BOOLEAN
          /\ misused \in BOOLEAN
          /\ net \in BOOLEAN
          /\ lock \in Nat
          /\ counter \in 0 .. ByteMod - 1
          /\ timers \in Nat
          /\ cur \in Conns \cup {NoConn, Broken}
          /\ conn \in [Conns -> {"connecting", "open", "closing", "closed"}]
          /\ waits \subseteq Conns
          /\ srv \in [Conns -> {"none", "accepted", "added"}]
          /\ wire \in [Conns -> SUBSET (1 .. MaxSent)]
          /\ sent \in 0 .. MaxSent
          /\ shown \in [1 .. MaxSent -> Nat]

\* The mutex does its work although spawnLocked is suspended in an await:
\* no two spawns are in it, the one that is awaits the current client, and
\* the mutex is locked exactly while there is one.  Only a lock that stored
\* 0 lets others in, until all of them have ended.
OneAttempt == ~wrapped => /\ waits \subseteq {cur}
                          /\ lock # 0 <=> waits # {}

\* However spawns fail, are skipped, and lose their retry, the page is never
\* left without a live connection and without an event that makes it try
\* again: a timer, or the onclose of a connection.
NeverStranded == boot = "done" => \/ timers > 0
                                  \/ cur \in Conns /\ Live(cur)
                                  \/ \E c \in Conns : conn[c] = "closing"

\* While the page replaces its connection the server knows both, and writes
\* an entry to both; it is shown once all the same.
ShownOnce == \A e \in 1 .. MaxSent : shown[e] <= 1

\* unlock takes a free mutex for impossible: it throws "error: unlock of
\* unlocked mutex".
UnlockFindsLocked == ~misused

Connected == cur \in Conns /\ conn[cur] = "open"

\* As long as the server is reachable the page connects, again and again.
Reconnects == <>[](boot = "done" /\ supported /\ net) => []<>Connected \/ <>[]wrapped
=============================================================================
