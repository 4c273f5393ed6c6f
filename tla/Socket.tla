------------------------------- MODULE Socket -------------------------------
(***************************************************************************)
(* cmd/run/socket: the state machine of one intercepted TCP socket (an     *)
(* inode), shared by every descriptor that refers to it, and the handlers  *)
(* of cmd/run/engine/process/handle.go that run on it concurrently.  The   *)
(* state is an immutable record behind an atomic pointer: a handler loads  *)
(* it, works, and publishes a new record with one compare-and-swap.        *)
(*                                                                         *)
(* A Call is one invocation of a handler, in a worker of the engine.  What *)
(* a call creates bears its name: the socket of a dup, the temporary bind  *)
(* socket of a bind or a connect, the proxy of a connect, the listener of  *)
(* a listen, and every record it publishes (by), which stands for the      *)
(* identity of the Go pointer.  File descriptors follow GuardedFile: they  *)
(* are entered while open, and Lock waits for those inside (see FD).       *)
(* accept(2) is not here: it creates another inode.                        *)
(***************************************************************************)
EXTENDS Integers, FiniteSets

CONSTANTS Call,     \* handler invocations: bounds the length of a behaviour
          None,     \* the nil bind socket
          Root,     \* the socket(2) call that made the inode
          Ops,      \* the operations tried, a subset of Operations
          Blocking, \* whether the tracee's socket is blocking: a subset of BOOLEAN
          Dials,    \* outcomes of the external dial: "ok", "refused", "unknown"
          Faults    \* "dummy": no dummy listener; "cancel": a dup is not installed;
                    \* "loop": the accept loop of a listener fails

Operations == {"connect", "bind", "getsockname", "getsockopt", "listen",
               "dup", "import", "close", "cleanup"}

ASSUME SocketAssumption ==
    /\ None \notin Call \cup {Root}
    /\ Root \notin Call
    /\ Ops \subseteq Operations
    /\ Blocking \subseteq BOOLEAN /\ Blocking # {}
    /\ Dials \subseteq {"ok", "refused", "unknown"} /\ Dials # {}
    /\ Faults \subseteq {"dummy", "cancel", "loop"}

VARIABLES state,     \* Inode.state: the published record
          open,      \* Inode.open
          installed, \* sockets in a Process.sockets map
          sphase,    \* Socket.FD of every socket: "none", "open", "closing", "closed"
          bphase,    \* the temporary bind socket of every call, likewise
          call,      \* the handlers
          dial,      \* the completion goroutine of every connect
          proxy,     \* the proxy of every connect and its two TCP connections
          lis,       \* the external listener of every listen and its accept loop
          kernel     \* the tracee's own kernel socket

vars == <<state, open, installed, sphase, bphase, call, dial, proxy, lis, kernel>>

Maker == Call \cup {Root}

Passive(b, e, c) == [kind |-> "passive", bind |-> b, errno |-> e, by |-> c]
Connecting(b, c) == [kind |-> "connecting", bind |-> b, errno |-> "ok", by |-> c]
Plain(k, c) == [kind |-> k, bind |-> None, errno |-> "ok", by |-> c]

Init ==
    /\ state = Passive(None, "ok", Root)
    /\ open = {Root}
    /\ installed = {Root}
    /\ sphase = [s \in Maker |-> IF s = Root THEN "open" ELSE "none"]
    /\ bphase = [b \in Call |-> "none"]
    /\ call = [c \in Call |-> [pc |-> "idle", op |-> "none", sock |-> Root,
                               blocking |-> TRUE, prev |-> state, ref |-> FALSE,
                               held |-> None, res |-> "none"]]
    /\ dial = [c \in Call |-> [pc |-> "idle", accepted |-> FALSE, bind |-> None,
                               next |-> state, errno |-> "ok", reply |-> "none"]]
    /\ proxy = [c \in Call |-> [run |-> "idle", skip |-> FALSE, conns |-> "none"]]
    /\ lis = [c \in Call |-> [phase |-> "none", active |-> FALSE, loop |-> FALSE]]
    /\ kernel = [wired |-> FALSE, parked |-> FALSE]
-----------------------------------------------------------------------------
(* Steps of a handler.                                                      *)

At(c, label) == call[c].pc = label
Goto(c, label) == call' = [call EXCEPT ![c].pc = label]

\* Return, with the deferred DecRefs of the socket and of a bind socket.
KeepsRef(c, r) == call' = [call EXCEPT ![c] = [@ EXCEPT !.pc = "done", !.res = r]]
Return(c, r) == call' = [call EXCEPT ![c] = [@ EXCEPT !.pc = "done", !.res = r,
                                                      !.ref = FALSE, !.held = None]]

\* Who is between IncRef and DecRef of a socket, of a bind socket.
Users(s) == {c \in Call : call[c].ref /\ call[c].sock = s}
Holders(b) == {c \in Call : call[c].held = b}

First(o) == CASE o \in {"close", "cleanup"} -> "mark"
              [] o = "import" -> "import"
              [] OTHER -> "enter"

\* getSocket, or getDeleteSocket for close(2).  cleanup closes the sockets of
\* an exited process without taking them out of the map.  A forked child
\* inherits the descriptor and is imported at its own first system call.
Lookup(c) ==
    /\ At(c, "idle")
    /\ \E o \in Ops, s \in installed, b \in Blocking :
          /\ o # "connect" => b
          /\ call' = [call EXCEPT ![c] =
                         [@ EXCEPT !.op = o, !.sock = s, !.blocking = b, !.pc = First(o)]]
          /\ installed' = IF o = "close" THEN installed \ {s} ELSE installed
    /\ UNCHANGED <<state, open, sphase, bphase, dial, proxy, lis, kernel>>

\* s.FD.IncRef.
Enter(c) ==
    /\ At(c, "enter")
    /\ IF sphase[call[c].sock] = "open"
       THEN call' = [call EXCEPT ![c] =
                        [@ EXCEPT !.ref = TRUE, !.pc = IF call[c].op = "dup" THEN "dup" ELSE "load"]]
       ELSE Return(c, "EBADF")
    /\ UNCHANGED <<state, open, installed, sphase, bphase, dial, proxy, lis, kernel>>

\* What each operation makes of the state it loads: an answer, or "go".
ConnectVerdict(k, blocking) ==
    CASE k = "connected" -> "EISCONN"
      [] k = "connecting" -> IF blocking THEN "EALREADY" ELSE "EINPROGRESS"
      [] k = "listening" -> "EINVAL"
      [] OTHER -> "go"
BusyVerdict(o, k, blocking) ==
    CASE o = "connect" -> ConnectVerdict(k, blocking)
      [] o = "getsockname" -> IF k = "connecting" THEN "go" ELSE "ok"
      [] o = "listen" -> IF k = "listening" THEN "ok" ELSE "EINVAL"
      [] OTHER -> "EINVAL"
Verdict(o, s, blocking) ==
    IF o = "getsockopt" THEN IF s.kind = "passive" THEN s.errno ELSE "ok"
    ELSE IF s.kind = "closed" THEN "EBADF"
    ELSE IF s.kind = "passive" THEN "go"
    ELSE BusyVerdict(o, s.kind, blocking)

\* Where an operation goes on when it may.
Onward(o) == CASE o = "bind" -> "bind" [] o = "listen" -> "park"
               [] OTHER -> "sockname"

\* Inode.state.Load and the switch on the state.
Load(c) ==
    /\ At(c, "load")
    /\ LET v == Verdict(call[c].op, state, call[c].blocking)
       IN IF v = "go"
          THEN call' = [call EXCEPT ![c] =
                           [@ EXCEPT !.prev = state, !.pc = Onward(call[c].op)]]
          ELSE Return(c, v)
    /\ UNCHANGED <<state, open, installed, sphase, bphase, dial, proxy, lis, kernel>>

\* After the bind address: where connect and listen go on.
AfterName(o) == IF o = "connect" THEN "publish" ELSE "netlisten"

\* getRemoteBindAddr: enter the bind socket of the loaded state.
EnterBind(c) ==
    /\ At(c, "sockname")
    /\ LET b == call[c].prev.bind
       IN CASE b = None /\ call[c].op = "getsockname" -> Return(c, "ok")
            [] b = None /\ call[c].op # "getsockname" -> Goto(c, AfterName(call[c].op))
            [] b # None /\ bphase[b] = "open" ->
                 call' = [call EXCEPT ![c] = [@ EXCEPT !.held = b, !.pc = "named"]]
            [] b # None /\ bphase[b] # "open" -> Return(c, "EBADF")
    /\ UNCHANGED <<state, open, installed, sphase, bphase, dial, proxy, lis, kernel>>

\* getsockname(2) on the bind socket, and the DecRef.
GotName(c) ==
    /\ At(c, "named")
    /\ IF call[c].op = "getsockname"
       THEN Return(c, "ok")
       ELSE call' = [call EXCEPT ![c] =
                        [@ EXCEPT !.held = None, !.pc = AfterName(call[c].op)]]
    /\ UNCHANGED <<state, open, installed, sphase, bphase, dial, proxy, lis, kernel>>
-----------------------------------------------------------------------------
(* connect(2).                                                              *)

\* The bind socket of a Connecting state: the loaded one, or a temporary one.
OldBind(c) == call[c].prev.bind
BindFor(c) == IF call[c].prev.bind = None THEN c ELSE call[c].prev.bind

\* The compare-and-swap of the loaded state for a Connecting one.
ConnectPublish(c) ==
    /\ At(c, "publish")
    /\ LET prev == call[c].prev
           fresh == prev.bind = None
       IN IF state = prev
          THEN /\ state' = Connecting(BindFor(c), c)
               /\ bphase' = IF fresh THEN [bphase EXCEPT ![c] = "open"] ELSE bphase
               /\ dial' = [dial EXCEPT ![c].bind = BindFor(c)]
               /\ Goto(c, "dummy")
          ELSE /\ bphase' = IF fresh THEN [bphase EXCEPT ![c] = "closed"] ELSE bphase
               /\ Return(c, "ERESTART")
               /\ UNCHANGED <<state, dial>>
    /\ UNCHANGED <<open, installed, sphase, proxy, lis, kernel>>

\* newDummyListener, and the goroutines that accept, dial and complete.  An
\* error leaves the handler without an answer for the tracee.
ConnectDummy(c) ==
    /\ At(c, "dummy")
    /\ \/ /\ "dummy" \in Faults
          /\ Return(c, "unanswered")
          /\ UNCHANGED dial
       \/ /\ dial' = [dial EXCEPT ![c].pc = "join"]
          /\ Goto(c, "attach")
    /\ UNCHANGED <<state, open, installed, sphase, bphase, proxy, lis, kernel>>

\* connect(2) of the tracee's socket to the dummy listener.  The kernel refuses
\* a socket that was connected once before, even when its peer has closed.
AttachErrno(c) == IF kernel.wired THEN "EISCONN"
                  ELSE IF call[c].blocking THEN "ok" ELSE "EINPROGRESS"
ConnectAttach(c) ==
    /\ At(c, "attach")
    /\ dial' = [dial EXCEPT ![c].accepted = ~kernel.wired]
    /\ IF call[c].blocking
       THEN call' = [call EXCEPT ![c] = [@ EXCEPT !.pc = "wait", !.res = AttachErrno(c)]]
       ELSE Return(c, AttachErrno(c))
    /\ kernel' = [kernel EXCEPT !.wired = TRUE]
    /\ UNCHANGED <<state, open, installed, sphase, bphase, proxy, lis>>

\* A blocking connect receives from errnoConnect.
ImpatientAnswer(c) == "ok"
ConnectAnswer(c) == IF dial[c].reply # "ok" THEN dial[c].reply ELSE call[c].res
ConnectWait(c) ==
    /\ At(c, "wait")
    /\ dial[c].reply # "none"
    /\ Return(c, ConnectAnswer(c))
    /\ UNCHANGED <<state, open, installed, sphase, bphase, dial, proxy, lis, kernel>>

\* Whether an outcome of the dial leaves no next state to publish.
ForgetsConnected(o) == o # "refused"
Unresolved(o) == o = "unknown"

\* wg.Wait: the dummy listener accepted and the external dial ended.  The
\* proxy starts before the state says Connected.
Join(c) ==
    /\ dial[c].pc = "join"
    /\ dial[c].accepted
    /\ \E o \in Dials :
          /\ dial' = [dial EXCEPT ![c] =
                [@ EXCEPT !.pc = IF Unresolved(o) THEN "reply" ELSE "swap",
                          !.next = IF o = "ok" THEN Plain("connected", c)
                                   ELSE Passive(dial[c].bind, "ECONNREFUSED", c),
                          !.errno = CASE o = "ok" -> "ok"
                                      [] o = "refused" -> "ECONNREFUSED"
                                      [] o = "unknown" -> "ENOSYS"]]
          /\ proxy' = [proxy EXCEPT ![c] =
                [@ EXCEPT !.conns = "open",
                          !.run = IF o = "ok" THEN "running" ELSE "idle"]]
    /\ UNCHANGED <<state, open, installed, sphase, bphase, call, lis, kernel>>

\* The compare-and-swap of the Connecting state for the next one.
Overwrite(c) ==
    /\ dial[c].pc = "swap"
    /\ state' = dial[c].next
    /\ dial' = [dial EXCEPT ![c].pc = "reply"]
    /\ UNCHANGED <<open, installed, sphase, bphase, call, proxy, lis, kernel>>
Resolve(c) ==
    /\ dial[c].pc = "swap"
    /\ \/ /\ state = Connecting(dial[c].bind, c)
          /\ state' = dial[c].next
          /\ dial' = [dial EXCEPT ![c].pc = "reply"]
       \/ /\ state # Connecting(dial[c].bind, c)
          /\ dial' = [dial EXCEPT ![c] = [@ EXCEPT !.pc = "reply", !.errno = "ERESTART"]]
          /\ UNCHANGED state
    /\ UNCHANGED <<open, installed, sphase, bphase, call, proxy, lis, kernel>>

\* errnoConnect <- errno.
Reply(c) ==
    /\ dial[c].pc = "reply"
    /\ dial' = [dial EXCEPT ![c] = [@ EXCEPT !.pc = "hangup", !.reply = dial[c].errno]]
    /\ UNCHANGED <<state, open, installed, sphase, bphase, call, proxy, lis, kernel>>

\* A failed connect closes the connections.  Its bind socket stays open only in
\* the Passive state that now refers to it.
AlwaysHangUp(c) == TRUE
MustHangUp(c) == dial[c].errno # "ok"
NeverKeep(c) == FALSE
KeepsBind(c) == dial[c].errno = "ECONNREFUSED"
HangUp(c) ==
    /\ dial[c].pc = "hangup"
    /\ proxy' = IF MustHangUp(c) THEN [proxy EXCEPT ![c].conns = "closed"] ELSE proxy
    /\ dial' = [dial EXCEPT ![c].pc = IF KeepsBind(c) THEN "done" ELSE "unbind"]
    /\ UNCHANGED <<state, open, installed, sphase, bphase, call, lis, kernel>>

\* ClosingIncRef of the bind socket; somebody may have closed it already.
DialUnbind(c) ==
    /\ dial[c].pc = "unbind"
    /\ IF bphase[dial[c].bind] = "open"
       THEN /\ bphase' = [bphase EXCEPT ![dial[c].bind] = "closing"]
            /\ dial' = [dial EXCEPT ![c].pc = "lock"]
       ELSE /\ dial' = [dial EXCEPT ![c].pc = "done"]
            /\ UNCHANGED bphase
    /\ UNCHANGED <<state, open, installed, sphase, call, proxy, lis, kernel>>

\* Whether Lock of a bind socket returns.
NoWait(b) == TRUE
Drained(b) == Holders(b) = {}

\* Lock, then close(2) of the bind socket.
DialCloseBind(c) ==
    /\ dial[c].pc = "lock"
    /\ Drained(dial[c].bind)
    /\ bphase' = [bphase EXCEPT ![dial[c].bind] = "closed"]
    /\ dial' = [dial EXCEPT ![c].pc = "done"]
    /\ UNCHANGED <<state, open, installed, sphase, call, proxy, lis, kernel>>

Completion(c) == \/ Join(c) \/ Resolve(c) \/ Reply(c) \/ HangUp(c)
                 \/ DialUnbind(c) \/ DialCloseBind(c)
-----------------------------------------------------------------------------
(* The proxy goroutine, as far as the two connections are concerned.        *)

\* The traffic ends, and the proxy's side of the race for skipCloseTCP.
ProxyEnd(c) ==
    /\ proxy[c].run = "running"
    /\ proxy' = [proxy EXCEPT ![c] =
          [@ EXCEPT !.run = "ending", !.skip = TRUE,
                    !.conns = IF proxy[c].skip THEN "closed" ELSE proxy[c].conns]]
    /\ UNCHANGED <<state, open, installed, sphase, bphase, call, dial, lis, kernel>>

\* The deferred proxy.Close.
ProxyClose(c) ==
    /\ proxy[c].run = "ending"
    /\ proxy' = [proxy EXCEPT ![c] = [@ EXCEPT !.run = "ended", !.conns = "closed"]]
    /\ UNCHANGED <<state, open, installed, sphase, bphase, call, dial, lis, kernel>>
-----------------------------------------------------------------------------
(* bind(2).                                                                 *)

\* IncRef of the bind socket, the state's or a new one.
BindEnter(c) ==
    /\ At(c, "bind")
    /\ LET b == call[c].prev.bind
       IN IF b # None /\ bphase[b] # "open" THEN Return(c, "EBADF")
          ELSE call' = [call EXCEPT ![c] = [@ EXCEPT !.held = b, !.pc = "bound"]]
    /\ UNCHANGED <<state, open, installed, sphase, bphase, dial, proxy, lis, kernel>>

\* bind(2) on the bind socket, which refuses a second address, and the
\* compare-and-swap.  A new bind socket is closed unless it is published.
BindPublish(c) ==
    /\ At(c, "bound")
    /\ \E e \in IF call[c].prev.bind = None THEN {"ok", "EADDRINUSE"} ELSE {"EINVAL"} :
          LET prev == call[c].prev
              b == IF e = "ok" THEN c ELSE prev.bind
          IN /\ state' = IF state = prev THEN Passive(b, e, c) ELSE state
             /\ bphase' = IF prev.bind # None THEN bphase
                          ELSE [bphase EXCEPT ![c] = IF state = prev /\ e = "ok"
                                                     THEN "open" ELSE "closed"]
             /\ Return(c, IF state = prev THEN e ELSE "ERESTART")
    /\ UNCHANGED <<open, installed, sphase, dial, proxy, lis, kernel>>
-----------------------------------------------------------------------------
(* listen(2).                                                               *)

\* bindEphemeral of the tracee's own socket.  It fails when the socket is being
\* closed or has an address already; the error leaves the tracee without an
\* answer.
ListenPark(c) ==
    /\ At(c, "park")
    /\ IF sphase[call[c].sock] # "open" \/ kernel.parked \/ kernel.wired
       THEN Return(c, "unanswered") /\ UNCHANGED kernel
       ELSE Goto(c, "sockname") /\ kernel' = [kernel EXCEPT !.parked = TRUE]
    /\ UNCHANGED <<state, open, installed, sphase, bphase, dial, proxy, lis>>

\* net.Listen on the bind address.
NetListen(c) ==
    /\ At(c, "netlisten")
    /\ \/ /\ Return(c, "EADDRINUSE")
          /\ UNCHANGED lis
       \/ /\ Goto(c, "unbind")
          /\ lis' = [lis EXCEPT ![c].phase = "open"]
    /\ UNCHANGED <<state, open, installed, sphase, bphase, dial, proxy, kernel>>

\* ClosingIncRef and close(2) of the loaded state's bind socket, without Lock.
ListenUnbind(c) ==
    /\ At(c, "unbind")
    /\ LET b == call[c].prev.bind
       IN bphase' = IF b # None /\ bphase[b] = "open"
                    THEN [bphase EXCEPT ![b] = "closed"] ELSE bphase
    /\ Goto(c, "listening")
    /\ UNCHANGED <<state, open, installed, sphase, dial, proxy, lis, kernel>>

\* The compare-and-swap for the Listening state, and the accept loop.
LeakyPublish(c) ==
    /\ At(c, "listening")
    /\ IF state = call[c].prev
       THEN /\ state' = Plain("listening", c)
            /\ lis' = [lis EXCEPT ![c] = [@ EXCEPT !.active = TRUE, !.loop = TRUE]]
            /\ Return(c, "ok")
       ELSE Return(c, "ERESTART") /\ UNCHANGED <<state, lis>>
    /\ UNCHANGED <<open, installed, sphase, bphase, dial, proxy, kernel>>
BlindPublish(c) ==
    /\ At(c, "listening")
    /\ state' = Plain("listening", c)
    /\ lis' = [lis EXCEPT ![c] = [@ EXCEPT !.active = TRUE, !.loop = TRUE]]
    /\ Return(c, "ok")
    /\ UNCHANGED <<open, installed, sphase, bphase, dial, proxy, kernel>>
ListenPublish(c) ==
    /\ At(c, "listening")
    /\ IF state = call[c].prev
       THEN /\ state' = Plain("listening", c)
            /\ lis' = [lis EXCEPT ![c] = [@ EXCEPT !.active = TRUE, !.loop = TRUE]]
            /\ Return(c, "ok")
       ELSE /\ lis' = [lis EXCEPT ![c].phase = "closed"]
            /\ Return(c, "ERESTART")
            /\ UNCHANGED state
    /\ UNCHANGED <<open, installed, sphase, bphase, dial, proxy, kernel>>

\* The accept loop ends when its listener is closed, or on an accept error.
AcceptLoopEnd(c) ==
    /\ lis[c].loop
    /\ lis[c].phase = "closed" \/ "loop" \in Faults
    /\ lis' = [lis EXCEPT ![c] = [phase |-> "closed", active |-> FALSE, loop |-> FALSE]]
    /\ UNCHANGED <<state, open, installed, sphase, bphase, call, dial, proxy, kernel>>
-----------------------------------------------------------------------------
(* fcntl(F_DUPFD) and the import of a forked child's descriptors.           *)

\* NewSocket for the duplicate, while the source is referenced.
DupCreate(c) ==
    /\ At(c, "dup")
    /\ sphase' = [sphase EXCEPT ![c] = "open"]
    /\ open' = open \cup {c}
    /\ Goto(c, "install")
    /\ UNCHANGED <<state, installed, bphase, dial, proxy, lis, kernel>>

\* installSocket.  An error ends the handler with the duplicate not in the
\* map: a cancelled notification, any other error of ADDFD, or "register:
\* socket already exists", where the tracee has the descriptor all the same.
DupInstall(c) ==
    /\ At(c, "install")
    /\ \/ /\ installed' = installed \cup {c}
          /\ Return(c, "ok")
       \/ /\ "cancel" \in Faults
          /\ Return(c, "cancelled")
          /\ UNCHANGED installed
    /\ UNCHANGED <<state, open, sphase, bphase, dial, proxy, lis, kernel>>

\* importInodes at the first intercepted system call of the child: the inode
\* table still knows the inode, whatever became of it since the fork.
Import(c) ==
    /\ At(c, "import")
    /\ sphase' = [sphase EXCEPT ![c] = "open"]
    /\ open' = open \cup {c}
    /\ installed' = installed \cup {c}
    /\ Return(c, "ok")
    /\ UNCHANGED <<state, bphase, dial, proxy, lis, kernel>>
-----------------------------------------------------------------------------
(* close(2), and the cleanup of an exited process.                          *)

\* ClosingIncRef of the socket.
CloseMark(c) ==
    /\ At(c, "mark")
    /\ LET s == call[c].sock
       IN IF sphase[s] = "open"
          THEN /\ sphase' = [sphase EXCEPT ![s] = "closing"]
               /\ Goto(c, "drain")
          ELSE Return(c, "EBADF") /\ UNCHANGED sphase
    /\ UNCHANGED <<state, open, installed, bphase, dial, proxy, lis, kernel>>

\* Lock and close(2) of our copy of the descriptor.
CloseDrain(c) ==
    /\ At(c, "drain")
    /\ Users(call[c].sock) = {}
    /\ sphase' = [sphase EXCEPT ![call[c].sock] = "closed"]
    /\ Goto(c, "remove")
    /\ UNCHANGED <<state, open, installed, bphase, dial, proxy, lis, kernel>>

\* Inode.remove tells the last socket.
ForgetsLast(s) == FALSE
AlmostLast(s) == Cardinality(open) <= 2
IsLast(s) == open = {s}
CloseRemove(c) ==
    /\ At(c, "remove")
    /\ open' = open \ {call[c].sock}
    /\ IF IsLast(call[c].sock) THEN Goto(c, "final") ELSE Return(c, "ok")
    /\ UNCHANGED <<state, installed, sphase, bphase, dial, proxy, lis, kernel>>

\* The load of the loop that ends the inode, and its panic.
CloseLoad(c) ==
    /\ At(c, "final")
    /\ call' = [call EXCEPT ![c] =
          [@ EXCEPT !.prev = state, !.pc = IF state.kind = "closed" THEN "panic" ELSE "end"]]
    /\ UNCHANGED <<state, open, installed, sphase, bphase, dial, proxy, lis, kernel>>

\* The compare-and-swap for the Closed state.
CloseEnd(c) ==
    /\ At(c, "end")
    /\ \/ /\ state = call[c].prev
          /\ state' = Plain("closed", c)
          /\ Goto(c, "release")
       \/ /\ state # call[c].prev
          /\ Goto(c, "final")
          /\ UNCHANGED state
    /\ UNCHANGED <<open, installed, sphase, bphase, dial, proxy, lis, kernel>>

\* Release what the last state held: its bind socket,
CloseReleaseBind(c) ==
    /\ At(c, "release")
    /\ call[c].prev.kind \in {"passive", "connecting"}
    /\ LET b == call[c].prev.bind
       IN IF b # None /\ bphase[b] = "open"
          THEN bphase' = [bphase EXCEPT ![b] = "closing"] /\ Goto(c, "lock")
          ELSE Return(c, "ok") /\ UNCHANGED bphase
    /\ UNCHANGED <<state, open, installed, sphase, dial, proxy, lis, kernel>>

CloseBind(c) ==
    /\ At(c, "lock")
    /\ Drained(call[c].prev.bind)
    /\ bphase' = [bphase EXCEPT ![call[c].prev.bind] = "closed"]
    /\ Return(c, "ok")
    /\ UNCHANGED <<state, open, installed, sphase, dial, proxy, lis, kernel>>

\* the connections of its proxy, unless the proxy is still to close them,
CloseReleaseProxy(c) ==
    /\ At(c, "release")
    /\ call[c].prev.kind = "connected"
    /\ LET p == call[c].prev.by
       IN proxy' = [proxy EXCEPT ![p] =
             [@ EXCEPT !.skip = TRUE,
                       !.conns = IF proxy[p].skip THEN "closed" ELSE proxy[p].conns]]
    /\ Return(c, "ok")
    /\ UNCHANGED <<state, open, installed, sphase, bphase, dial, lis, kernel>>

\* or its listener, unless the accept loop is already gone.
CloseReleaseListener(c) ==
    /\ At(c, "release")
    /\ call[c].prev.kind = "listening"
    /\ LET l == call[c].prev.by
       IN lis' = IF lis[l].active
                 THEN [lis EXCEPT ![l] = [@ EXCEPT !.active = FALSE, !.phase = "closed"]]
                 ELSE lis
    /\ Return(c, "ok")
    /\ UNCHANGED <<state, open, installed, sphase, bphase, dial, proxy, kernel>>

Close(c) == \/ CloseMark(c) \/ CloseDrain(c) \/ CloseRemove(c) \/ CloseLoad(c)
            \/ CloseEnd(c) \/ CloseReleaseBind(c) \/ CloseBind(c)
            \/ CloseReleaseProxy(c) \/ CloseReleaseListener(c)
-----------------------------------------------------------------------------
\* The steps of a call that has begun.
Handle(c) == \/ Enter(c) \/ Load(c) \/ EnterBind(c) \/ GotName(c)
             \/ ConnectPublish(c) \/ ConnectDummy(c) \/ ConnectAttach(c) \/ ConnectWait(c)
             \/ BindEnter(c) \/ BindPublish(c)
             \/ ListenPark(c) \/ NetListen(c) \/ ListenUnbind(c) \/ ListenPublish(c)
             \/ DupCreate(c) \/ DupInstall(c) \/ Import(c)
             \/ Close(c)

Next == \E c \in Call : \/ Lookup(c) \/ Handle(c) \/ Completion(c)
                        \/ ProxyEnd(c) \/ ProxyClose(c)
                        \/ AcceptLoopEnd(c)

Spec == Init /\ [][Next]_vars

\* Goroutines that can run do run, and a dial ends (TCP gives up on a dead
\* peer).  Nothing makes a proxy's traffic end or a tracee issue a call.
FairSpec == Spec /\ \A c \in Call : WF_vars(Handle(c)) /\ WF_vars(Completion(c))
-----------------------------------------------------------------------------
Kinds == {"passive", "connecting", "connected", "listening", "closed"}
Phases == {"none", "open", "closing", "closed"}
Results == {"none", "ok", "cancelled", "unanswered", "EBADF", "EINVAL", "EISCONN",
            "EALREADY", "EINPROGRESS", "ERESTART", "ECONNREFUSED", "ENOSYS",
            "EADDRINUSE"}

States == [kind : Kinds, bind : Call \cup {None}, errno : Results, by : Maker]

\* The type invariant, with the panic of getRemoteBindAddr out of reach: a
\* Connecting state has a bind socket.
TypeOK ==
    /\ state \in States
    /\ state.kind = "connecting" => state.bind # None
    /\ open \subseteq Maker /\ installed \subseteq Maker
    /\ sphase \in [Maker -> Phases] /\ bphase \in [Call -> Phases]
    /\ \A c \in Call : /\ call[c].op \in Operations \cup {"none"}
                       /\ call[c].sock \in Maker
                       /\ call[c].prev \in States
                       /\ call[c].held \in Call \cup {None}
                       /\ call[c].res \in Results
                       /\ dial[c].errno \in Results /\ dial[c].reply \in Results
                       /\ proxy[c].conns \in {"none", "open", "closed"}
                       /\ lis[c].phase \in Phases

Called(o) == \E c \in Call : call[c].op = o

\* Nobody closes a temporary bind socket under a getsockname or a bind that is
\* inside it ("all blocking operations ... on the file descriptor" of fd.go),
\* as long as no listen is called, which closes its bind socket without Lock.
NoBindUseAfterClose ==
    ~Called("listen") => \A c \in Call : call[c].held # None => bphase[call[c].held] # "closed"

\* A blocking connect that reports success has made the socket Connected: its
\* compare-and-swap won, and only a close can have replaced its state since.
ConnectOkMeansConnected ==
    \A c \in Call : call[c].op = "connect" /\ At(c, "done") /\ call[c].res = "ok" =>
        \/ state = Plain("connected", c)
        \/ state.kind = "closed"

\* The connections of a Connected socket are taken down by its own proxy, when
\* the traffic ends, and by nothing a handler or a completion does before.
ConnectedStaysUp ==
    state.kind = "connected" /\ proxy[state.by].conns # "open"
        => proxy[state.by].run = "ended"

\* The bind socket that a Passive or Connecting state names is open, so that
\* getsockname, bind and connect can use it, as long as no listen is called,
\* and no dial ends in an error that leaves the state Connecting for ever.
StateBindOpen ==
    ~Called("listen") /\ (\A c \in Call : dial[c].errno # "ENOSYS") =>
        (state.kind \in {"passive", "connecting"} /\ state.bind # None => bphase[state.bind] = "open")

\* Socket.Close panics when the last socket of an inode finds it closed.  It
\* never does, unless a child imports an inode that its parent has closed.
NeverPanics == \A c \in Call : ~At(c, "panic")
FinalCloseFindsOpen == ~Called("import") => NeverPanics

\* Nothing is under way and the tracees have closed all their descriptors.
Over == /\ \A c \in Call : /\ call[c].pc \in {"idle", "done"}
                           /\ dial[c].pc \in {"idle", "done"}
                           /\ proxy[c].run \in {"idle", "ended"}
                           /\ ~lis[c].loop
        /\ \A s \in installed : sphase[s] = "closed"

\* No fcntl was interrupted between the making of its socket and its entry in
\* the map.  Such a socket stays open for ever, with everything it holds.
Installed == \A c \in Call : call[c].res # "cancelled"

\* Nothing leaks: when all is over the inode is closed, and so are the
\* temporary bind sockets, the connections and the listeners.
Reclaimed ==
    Over /\ Installed => /\ open = {} /\ state.kind = "closed"
            /\ \A c \in Call : /\ bphase[c] \in {"none", "closed"}
                               /\ sphase[c] \in {"none", "closed"}
                               /\ proxy[c].conns \in {"none", "closed"}
                               /\ lis[c].phase \in {"none", "closed"}

\* A socket never goes back: Closed is for ever, Connected and Listening end
\* only in Closed, and nothing but its own connect leads to Connected.
StateOrder ==
    [][state'.kind # state.kind =>
          /\ state.kind # "closed"
          /\ state.kind \in {"connected", "listening"} => state'.kind = "closed"
          /\ state'.kind = "connected" => state.kind = "connecting" /\ state.by = state'.by
      ]_state

\* Every call that a tracee makes returns, the blocking connect and the close
\* that waits for other calls included.
CallReturns == \A c \in Call : call[c].op # "none" ~> At(c, "done")

\* What CallReturns rests on: the waits are not circular.  A close waits for
\* the handlers inside its descriptor, none of which closes one, a Lock of a
\* bind socket for handlers that are at a system call on it, and a connect for
\* a completion that is still to answer, and that has the tracee's connection
\* unless the kernel refused it.
WaitsEnd ==
    \A c \in Call :
        /\ At(c, "drain") =>
              \A d \in Users(call[c].sock) : call[d].op \notin {"close", "cleanup"}
        /\ At(c, "lock") => \A d \in Holders(call[c].prev.bind) : call[d].pc \in {"named", "bound"}
        /\ dial[c].pc = "lock" => \A d \in Holders(dial[c].bind) : call[d].pc \in {"named", "bound"}
        /\ At(c, "wait") =>
              \/ dial[c].reply # "none" \/ dial[c].pc \in {"swap", "reply"}
              \/ dial[c].pc = "join" /\ (dial[c].accepted \/ call[c].res = "EISCONN")

\* A socket does not stay Connecting.
ConnectingResolves == state.kind = "connecting" ~> state.kind # "connecting"

\* What ConnectingResolves rests on: a Connecting state has a connect that is
\* still to start its dial, or a dial that is still to replace this very state.
\* Three ends leave it Connecting for ever: no dummy listener could be made, the
\* kernel refused the tracee a second connection, or the dial ended in an error
\* that has no next state.
Undialed(c) == call[c].pc = "done" /\ call[c].res = "unanswered"
Refused(c) == dial[c].pc = "join" /\ call[c].res = "EISCONN"
Forsaken(c) == Undialed(c) \/ Refused(c) \/ dial[c].errno = "ENOSYS"
Replacing(c) ==
    \/ At(c, "dummy")
    \/ dial[c].pc = "join" /\ (At(c, "attach") \/ dial[c].accepted)
    \/ dial[c].pc = "swap"
ConnectingHasDial ==
    state.kind = "connecting" =>
        /\ state.by \in Call
        /\ \/ Forsaken(state.by)
           \/ Replacing(state.by) /\ state = Connecting(dial[state.by].bind, state.by)
=============================================================================
