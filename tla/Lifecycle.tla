----------------------------- MODULE Lifecycle -----------------------------
(***************************************************************************)
(* The life of the traced processes: cmd/run/engine/process/process.go     *)
(* (Wait, markAsExited, cleanup, installSocket, ImportInode), the handlers *)
(* of handle.go, and the process table of engine.go, which closes the      *)
(* engine when it becomes empty.  For every process run a Wait goroutine   *)
(* (named like the process), handlers in the engine's workers, and a       *)
(* cleanup goroutine; they share Process.mu, the Exited channel, the pidfd *)
(* and the socket map.  A socket has the name of the handler that made it, *)
(* or of the process that imported it.                                     *)
(*                                                                         *)
(* A dead process is taken to be reaped by its parent.  Of a socket only   *)
(* its descriptor is here: who is inside, and the close that waits for     *)
(* them (Socket.tla has the rest).                                         *)
(***************************************************************************)
EXTENDS Integers, FiniteSets

CONSTANTS Proc,     \* processes
          First,    \* the root process
          Handler,  \* handler invocations: bounds the length of a behaviour
          None,     \* no writer of a mutex, no socket
          Ops,      \* the intercepted calls
          Kills,    \* whether processes may be killed by a signal
          Eintr     \* whether poll(2) of the pidfd may be interrupted

Exits == {"exit", "exit_group"}
Makes == {"socket", "accept", "dup"}   \* those that install a socket
Uses == {"connect", "accept", "dup"}   \* those that work inside one; connect
                                       \* stands for bind, listen and so on, too

ASSUME LifecycleAssumption ==
    /\ First \in Proc
    /\ None \notin Handler \cup Proc
    /\ Proc \cap Handler = {}
    /\ Ops \subseteq Exits \cup Makes \cup Uses \cup {"close"}
    /\ Kills \in BOOLEAN /\ Eintr \in BOOLEAN

VARIABLES alive,   \* the kernel's process: "unborn", "running" or "dead"
          table,   \* Engine.processes
          over,    \* Engine.running is closed, and so is the seccomp listener
          pc,      \* of the handlers and of the Wait goroutines
          req,     \* the notification each handler works on
          mu,      \* Process.mu
          exited,  \* Process.Exited is closed
          pidfd,   \* Process.pidfd: "open", "closing" or "closed"
          cleaner, \* the cleanup goroutine
          sockets, \* Process.sockets
          sock,    \* the descriptors of the sockets: "none", "open", "closing" or "closed"
          at       \* the socket each handler is inside of, or closes

vars == <<alive, table, over, pc, req, mu, exited, pidfd, cleaner, sockets, sock, at>>

Actor == Handler \cup Proc
Sock == Actor

Init ==
    /\ alive = [p \in Proc |-> IF p = First THEN "running" ELSE "unborn"]
    /\ table = {First}
    /\ over = FALSE
    /\ pc = [a \in Actor |-> IF a = First THEN "poll" ELSE "idle"]
    /\ req = [h \in Handler |-> [proc |-> First, op |-> "none"]]
    /\ mu = [p \in Proc |-> [readers |-> 0, writer |-> None]]
    /\ exited = [p \in Proc |-> FALSE]
    /\ pidfd = [p \in Proc |-> "open"]
    /\ cleaner = [p \in Proc |-> "none"]
    /\ sockets = [p \in Proc |-> {}]
    /\ sock = [s \in Sock |-> "none"]
    /\ at = [h \in Handler |-> None]

Goto(a, label) == pc' = [pc EXCEPT ![a] = label]

\* The process an actor works on.
Of(a) == IF a \in Proc THEN a ELSE req[a].proc

\* sync.RWMutex: a waiting writer keeps new readers out.
RLock(p) == /\ mu[p].writer = None
            /\ mu' = [mu EXCEPT ![p].readers = @ + 1]
RUnlock(p) == mu' = [mu EXCEPT ![p].readers = @ - 1]
KeepLock(p) == UNCHANGED mu
Unlock(p) == mu' = [mu EXCEPT ![p].writer = None]
-----------------------------------------------------------------------------
(* The kernel.                                                              *)

Fork(p, q) == /\ alive[p] = "running" /\ alive[q] = "unborn"
              /\ alive' = [alive EXCEPT ![q] = "running"]
              /\ UNCHANGED <<table, over, pc, req, mu, exited, pidfd, cleaner,
                             sockets, sock, at>>

\* A process dies of a signal, or of an exit that its handler let through; an
\* exit(2) of the main thread alone may leave other threads running.
Leaving(p, ops) ==
    \E h \in Handler : req[h].proc = p /\ req[h].op \in ops /\ pc[h] = "done"
Die(p) == /\ alive[p] = "running"
          /\ Kills \/ Leaving(p, Exits)
          /\ alive' = [alive EXCEPT ![p] = "dead"]
          /\ UNCHANGED <<table, over, pc, req, mu, exited, pidfd, cleaner,
                         sockets, sock, at>>

\* A thread traps, and Receive takes the notification while the listener lives.
Notify(h) ==
    /\ pc[h] = "idle"
    /\ ~over
    /\ \E p \in Proc, o \in Ops :
          /\ alive[p] = "running"
          /\ req' = [req EXCEPT ![h] = [proc |-> p, op |-> o]]
    /\ Goto(h, "get")
    /\ UNCHANGED <<alive, table, over, mu, exited, pidfd, cleaner, sockets, sock, at>>
-----------------------------------------------------------------------------
(* Handlers.                                                                *)

Entry(o) == CASE o \in Exits -> "rlock"
              [] o \in {"socket", "close"} -> "lock"
              [] o \in Uses -> "find"

\* importInodes: a child may have inherited a socket that the engine knows.
Import(p) ==
    \/ UNCHANGED <<sockets, sock>>
    \/ /\ \E s \in Sock : sock[s] # "none"
       /\ sockets' = [sockets EXCEPT ![p] = @ \cup {p}]
       /\ sock' = [sock EXCEPT ![p] = "open"]

\* getProcess: a process seen for the first time enters the table, with its
\* sockets and a Wait goroutine.  A process that is gone makes
\* ensureProcessLocked panic.
GetProcess(h) ==
    /\ pc[h] = "get"
    /\ LET p == Of(h)
       IN \/ p \in table /\ Goto(h, Entry(req[h].op)) /\ UNCHANGED <<table, sockets, sock>>
          \/ /\ p \notin table /\ alive[p] = "running"
             /\ table' = table \cup {p}
             /\ pc' = [pc EXCEPT ![h] = Entry(req[h].op), ![p] = "poll"]
             /\ Import(p)
          \/ /\ p \notin table /\ alive[p] # "running"
             /\ Goto(h, "panic") /\ UNCHANGED <<table, sockets, sock>>
    /\ UNCHANGED <<alive, over, req, mu, exited, pidfd, cleaner, at>>

\* getSocket, under the read lock, and IncRef: not a socket of ours, or closed;
\* or the handler is inside.
GetSocket(h) ==
    /\ pc[h] = "find"
    /\ mu[Of(h)].writer = None
    /\ \/ Goto(h, "done") /\ UNCHANGED at
       \/ \E s \in sockets[Of(h)] : /\ sock[s] = "open"
                                    /\ at' = [at EXCEPT ![h] = s]
                                    /\ Goto(h, "inside")
    /\ UNCHANGED <<alive, table, over, req, mu, exited, pidfd, cleaner, sockets, sock>>

\* The work inside ends, with the descriptor of a new socket or without one.
\* Socket.Accept leaves the socket before the new one is installed; the
\* reference of handleFcntl is dropped when installSocket has returned.
Operate(h) ==
    /\ pc[h] = "inside"
    /\ \/ Goto(h, "done") /\ at' = [at EXCEPT ![h] = None]
       \/ /\ req[h].op \in Makes
          /\ Goto(h, "lock")
          /\ at' = IF req[h].op = "dup" THEN at ELSE [at EXCEPT ![h] = None]
    /\ UNCHANGED <<alive, table, over, req, mu, exited, pidfd, cleaner, sockets, sock>>

\* mu.Lock of installSocket and getDeleteSocket, when no writer is waiting.
WLock(h) == /\ pc[h] = "lock"
            /\ mu[Of(h)].writer = None
            /\ mu' = [mu EXCEPT ![Of(h)].writer = h]
            /\ Goto(h, "write")
            /\ UNCHANGED <<alive, table, over, req, exited, pidfd, cleaner, sockets, sock, at>>

\* The writer gets in when the readers have left.
IgnoresReaders(h) == mu[Of(h)].writer = h
Exclusive(h) == mu[Of(h)].writer = h /\ mu[Of(h)].readers = 0

\* installSocket: ADDFD, which needs a living thread and room in its table, and
\* the entry in the map; without the entry when a stale one has its number.
\* The descriptor of a socket that is not installed stays open.
InstallSocket(h) ==
    /\ pc[h] = "write" /\ req[h].op \in Makes
    /\ Exclusive(h)
    /\ sock' = [sock EXCEPT ![h] = "open"]
    /\ \/ UNCHANGED sockets
       \/ /\ alive[Of(h)] = "running"
          /\ sockets' = [sockets EXCEPT ![Of(h)] = @ \cup {h}]
    /\ at' = [at EXCEPT ![h] = None]
    /\ Unlock(Of(h))
    /\ Goto(h, "done")
    /\ UNCHANGED <<alive, table, over, req, exited, pidfd, cleaner>>

\* handleClose: getDeleteSocket, and ClosingIncRef when the map had one that
\* cleanup has not closed.
DeleteSocket(h) ==
    /\ pc[h] = "write" /\ req[h].op = "close"
    /\ Exclusive(h)
    /\ \/ Goto(h, "done") /\ UNCHANGED <<sockets, sock, at>>
       \/ \E s \in sockets[Of(h)] :
             /\ sockets' = [sockets EXCEPT ![Of(h)] = @ \ {s}]
             /\ IF sock[s] = "open"
                THEN /\ sock' = [sock EXCEPT ![s] = "closing"]
                     /\ at' = [at EXCEPT ![h] = s]
                     /\ Goto(h, "closing")
                ELSE Goto(h, "done") /\ UNCHANGED <<sock, at>>
    /\ Unlock(Of(h))
    /\ UNCHANGED <<alive, table, over, req, exited, pidfd, cleaner>>

\* FD.Lock waits for the handlers inside.
Inside(s) == {h \in Handler : at[h] = s /\ req[h].op \in Uses}

\* The rest of Socket.Close.
CloseSocket(h) ==
    /\ pc[h] = "closing"
    /\ Inside(at[h]) = {}
    /\ sock' = [sock EXCEPT ![at[h]] = "closed"]
    /\ at' = [at EXCEPT ![h] = None]
    /\ Goto(h, "done")
    /\ UNCHANGED <<alive, table, over, req, mu, exited, pidfd, cleaner, sockets>>
-----------------------------------------------------------------------------
(* markAsExited, by an exit handler or by Wait.                             *)

\* Where the caller goes on: a handler replies, Wait returns to waitProcess.
AfterMark(a) == IF a \in Proc THEN "forget" ELSE "done"

MarkRLock(a) == /\ pc[a] = "rlock"
                /\ RLock(Of(a))
                /\ Goto(a, "select")
                /\ UNCHANGED <<alive, table, over, req, exited, pidfd, cleaner, sockets, sock, at>>

\* The select on Exited: closed already, or not.
MarkSelect(a) ==
    /\ pc[a] = "select"
    /\ IF exited[Of(a)]
       THEN RUnlock(Of(a)) /\ Goto(a, AfterMark(a))
       ELSE Goto(a, "close") /\ UNCHANGED mu
    /\ UNCHANGED <<alive, table, over, req, exited, pidfd, cleaner, sockets, sock, at>>

\* close(p.Exited), which panics on a closed channel, and go p.cleanup().
MarkClose(a) ==
    /\ pc[a] = "close"
    /\ RUnlock(Of(a))
    /\ exited' = [exited EXCEPT ![Of(a)] = TRUE]
    /\ IF exited[Of(a)]
       THEN Goto(a, "panic") /\ UNCHANGED cleaner
       ELSE /\ Goto(a, AfterMark(a))
            /\ cleaner' = [cleaner EXCEPT ![Of(a)] = "start"]
    /\ UNCHANGED <<alive, table, over, req, pidfd, sockets, sock, at>>
-----------------------------------------------------------------------------
(* The Wait goroutine of a process and waitProcess.                         *)

\* poll: IncRef of the pidfd.  When it fails Wait returns an error, and
\* waitProcess returns before it takes the process out of the table.
PollEnter(p) == /\ pc[p] = "poll"
                /\ Goto(p, IF pidfd[p] = "open" THEN "polling" ELSE "failed")
                /\ UNCHANGED <<alive, table, over, req, mu, exited, pidfd, cleaner,
                               sockets, sock, at>>

\* poll(2) returns: the process has exited, or a signal interrupted us.
ForgetsToMark(p) == IF alive[p] = "dead" THEN "failed" ELSE "poll"
AfterPoll(p) == IF alive[p] = "dead" THEN "rlock" ELSE "poll"
PollReturn(p) == /\ pc[p] = "polling"
                 /\ alive[p] = "dead" \/ Eintr
                 /\ Goto(p, AfterPoll(p))
                 /\ UNCHANGED <<alive, table, over, req, mu, exited, pidfd, cleaner,
                                sockets, sock, at>>

\* waitProcess: the last process to leave the table closes the engine.
LeavesOpen(left) == Cardinality(left) = 1
IsLastProcess(left) == left = {}
Forget(p) == /\ pc[p] = "forget"
             /\ table' = table \ {p}
             /\ over' = (over \/ IsLastProcess(table'))
             /\ Goto(p, "done")
             /\ UNCHANGED <<alive, req, mu, exited, pidfd, cleaner, sockets, sock, at>>
-----------------------------------------------------------------------------
(* The cleanup goroutine.                                                   *)

CleanupRLock(p) == /\ cleaner[p] = "start"
                   /\ RLock(p)
                   /\ cleaner' = [cleaner EXCEPT ![p] = "sockets"]
                   /\ UNCHANGED <<alive, table, over, pc, req, exited, pidfd, sockets, sock, at>>

\* The loop over the map, which leaves the entries in it: Socket.Close marks a
\* socket, and waits for the handlers inside it with Process.mu in its hand.
CleanupSocket(p) ==
    /\ cleaner[p] = "sockets"
    /\ \E s \in sockets[p] : /\ sock[s] = "open"
                             /\ sock' = [sock EXCEPT ![s] = "closing"]
    /\ cleaner' = [cleaner EXCEPT ![p] = "closing"]
    /\ UNCHANGED <<alive, table, over, pc, req, mu, exited, pidfd, sockets, at>>
CleanupCloseSocket(p) ==
    /\ cleaner[p] = "closing"
    /\ \E s \in sockets[p] : /\ sock[s] = "closing"
                             /\ Inside(s) = {}
                             /\ sock' = [sock EXCEPT ![s] = "closed"]
    /\ cleaner' = [cleaner EXCEPT ![p] = "sockets"]
    /\ UNCHANGED <<alive, table, over, pc, req, mu, exited, pidfd, sockets, at>>

\* ClosingIncRef of the pidfd, when the loop has ended.
SweepsNone(p) == TRUE
Swept(p) == \A s \in sockets[p] : sock[s] = "closed"
CleanupMark(p) ==
    /\ cleaner[p] = "sockets"
    /\ Swept(p)
    /\ pidfd' = [pidfd EXCEPT ![p] = "closing"]
    /\ cleaner' = [cleaner EXCEPT ![p] = "drain"]
    /\ UNCHANGED <<alive, table, over, pc, req, mu, exited, sockets, sock, at>>

\* Lock, which waits for the poll; close(2); and the deferred RUnlock.
NoLock(p) == TRUE
PidfdDrained(p) == pc[p] # "polling"
CleanupClose(p) ==
    /\ cleaner[p] = "drain"
    /\ PidfdDrained(p)
    /\ pidfd' = [pidfd EXCEPT ![p] = "closed"]
    /\ RUnlock(p)
    /\ cleaner' = [cleaner EXCEPT ![p] = "done"]
    /\ UNCHANGED <<alive, table, over, pc, req, exited, sockets, sock, at>>
-----------------------------------------------------------------------------
Mark(a) == MarkRLock(a) \/ MarkSelect(a) \/ MarkClose(a)

Handle(h) == \/ GetProcess(h) \/ GetSocket(h) \/ Operate(h) \/ WLock(h) \/ InstallSocket(h)
             \/ DeleteSocket(h) \/ CloseSocket(h) \/ Mark(h)

Wait(p) == PollEnter(p) \/ PollReturn(p) \/ Forget(p) \/ Mark(p)

Cleanup(p) == \/ CleanupRLock(p) \/ CleanupSocket(p) \/ CleanupCloseSocket(p)
              \/ CleanupMark(p) \/ CleanupClose(p)

Next == \/ \E p, q \in Proc : Fork(p, q)
        \/ \E p \in Proc : Die(p) \/ Wait(p) \/ Cleanup(p)
        \/ \E h \in Handler : Notify(h) \/ Handle(h)

Spec == Init /\ [][Next]_vars

\* What is not left to the tracee, its peers and signals: nothing makes a process
\* exit that has not asked to, and nobody has to come to an accept.
Step ==
    \/ \E h \in Handler : Handle(h) /\ (pc[h] = "inside" => req[h].op # "accept")
    \/ \E p \in Proc : \/ PollReturn(p) /\ alive[p] = "dead"
                       \/ Mark(p)
                       \/ Forget(p)
                       \/ Cleanup(p)
                       \/ Leaving(p, {"exit_group"}) /\ Die(p)

\* Go runs some goroutine as long as one can run, and the kernel finishes an
\* exit_group.  Nothing but the polls of Wait, which may be interrupted for ever,
\* is ever repeated.
FairSpec == Spec /\ WF_vars(Step) /\ \A p \in Proc : WF_vars(PollEnter(p))
-----------------------------------------------------------------------------
\* The type invariant: Process.mu counts its readers, and the only writer of a
\* map is a handler at work on that process.
Reading(p) == Cardinality({a \in Actor : Of(a) = p /\ pc[a] \in {"select", "close"}})
              + IF cleaner[p] \in {"sockets", "closing", "drain"} THEN 1 ELSE 0
TypeOK ==
    /\ alive \in [Proc -> {"unborn", "running", "dead"}]
    /\ table \subseteq Proc /\ over \in BOOLEAN
    /\ pc \in [Actor -> {"idle", "get", "find", "inside", "lock", "write", "closing", "rlock",
                         "select", "close", "poll", "polling", "forget", "failed", "panic",
                         "done"}]
    /\ \A p \in Proc : /\ mu[p].readers = Reading(p)
                       /\ mu[p].writer # None => /\ pc[mu[p].writer] = "write"
                                                 /\ Of(mu[p].writer) = p
    /\ exited \in [Proc -> BOOLEAN]
    /\ pidfd \in [Proc -> {"open", "closing", "closed"}]
    /\ cleaner \in [Proc -> {"none", "start", "sockets", "closing", "drain", "done"}]
    /\ sockets \in [Proc -> SUBSET Sock]
    /\ sock \in [Sock -> {"none", "open", "closing", "closed"}]
    /\ at \in [Handler -> Sock \cup {None}]

\* The pidfd is never closed under the poll(2) of Wait: with a recycled number
\* Wait would wait for something else.
PollSafe == \A p \in Proc : pc[p] = "polling" => pidfd[p] # "closed"

\* cleanup ranges over the socket map while handlers of other threads want to
\* change it: no map write happens during the iteration, which Go punishes by
\* ending the whole program.
NoWriteUnderIteration ==
    [][\A p \in Proc : cleaner[p] \in {"sockets", "closing"} => sockets'[p] = sockets[p]]_vars

\* markAsExited: "If the process has already been marked as exited by someone
\* else, it returns false": nobody closes the channel twice.
MarkedOnce == \A a \in Actor : pc[a] = "close" => ~exited[Of(a)]

\* What HandlerReturns rests on: whenever somebody has Process.mu or keeps
\* readers from it, somebody goes on.  A handler marks the process; a writer
\* gets in; cleanup goes on to the next socket, or waits for handlers inside
\* one, which work there and do not want the lock; or it waits for a poll that
\* returns, of a process that is dead or has asked to exit.  The one exception
\* is a circle: a dup, inside the socket that cleanup closes, wants the lock.
GoesOn(p) ==
    \/ \E a \in Actor : Of(a) = p /\ pc[a] \in {"select", "close"}
    \/ \E h \in Handler : Of(h) = p /\ pc[h] = "write" /\ Exclusive(h)
    \/ cleaner[p] = "sockets"
    \/ /\ cleaner[p] = "closing"
       /\ \E s \in sockets[p] : /\ sock[s] = "closing"
                                /\ \A h \in Inside(s) : pc[h] = "inside"
    \/ /\ cleaner[p] = "drain"
       /\ pc[p] = "polling" => alive[p] = "dead" \/ Leaving(p, Exits)
DupCircle(p) ==
    /\ cleaner[p] = "closing"
    /\ \E h \in Handler : /\ req[h].op = "dup" /\ Of(h) = p /\ pc[h] \in {"lock", "write"}
                          /\ at[h] \in sockets[p] /\ sock[at[h]] = "closing"
LockHasHolder ==
    \A p \in Proc : mu[p].readers > 0 \/ mu[p].writer # None => GoesOn(p) \/ DupCircle(p)

\* Everything is over for process p.
Gone(p) == /\ alive[p] = "dead"
           /\ pc[p] \in {"idle", "done", "failed"}
           /\ cleaner[p] \in {"none", "done"}
           /\ \A h \in Handler : req[h].proc = p => pc[h] \in {"idle", "done", "panic"}

\* A process that asks to exit is marked, and cleaned up, before it dies.
AskedToExit(p) == \E h \in Handler : req[h].proc = p /\ req[h].op \in Exits

\* "cleans up resources in the end": no socket in the map of a process that is
\* gone stays open in our own descriptor table, be it made by a call, imported,
\* or installed while cleanup waited.  The exception are sockets that a process
\* makes when it has asked to exit: its other threads live on after cleanup.
RegisteredClosed ==
    \A p \in Proc : Gone(p) =>
        \A s \in sockets[p] : sock[s] = "closed" \/ (AskedToExit(p) /\ s \in Handler)

\* A dead process leaves the table.
DeadForgotten == \A p \in Proc : alive[p] = "dead" /\ p \in table ~> p \notin table

\* When no process is left running the engine closes, and subtrace run returns.
EngineCloses == (\A p \in Proc : alive[p] # "running") ~> over

\* A handler that begins ends, whether it closes a socket that another one is
\* inside of, or wants the lock of a process that is cleaned up; unless for ever
\* a call of its process is blocked in accept, cleanup and a dup wait for each
\* other, or cleanup waits, lock in hand, for a process that lives on after the
\* exit of its main thread.
Stuck(p) == \/ \E g \in Handler : Of(g) = p /\ req[g].op = "accept" /\ pc[g] = "inside"
            \/ DupCircle(p)
            \/ /\ cleaner[p] = "drain" /\ alive[p] = "running"
               /\ Leaving(p, {"exit"})
HandlerReturns ==
    \A h \in Handler :
        []<>~Stuck(Of(h)) => (pc[h] = "get" ~> pc[h] \in {"done", "panic"})

\* What DeadForgotten and EngineCloses rest on: a process is in the table as long
\* as its Wait goroutine is to take it out, and the last one to go closes the
\* engine.  Wait gives up, and leaves the process in the table, only when the
\* handler of an exit has marked the process before it.
TableHasWaiter ==
    /\ table = {} => over
    /\ \A p \in Proc : p \in table =>
          \/ pc[p] \in {"poll", "polling", "rlock", "select", "close", "forget"}
          \/ pc[p] \in {"failed", "panic"} /\ exited[p] /\ Leaving(p, Exits)
=============================================================================
