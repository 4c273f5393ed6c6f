------------------------------- MODULE Engine -------------------------------
(***************************************************************************)
(* cmd/run/engine/engine.go: Start's receive loop and its workers, and the *)
(* safe mode they fall into when a handler panics.  A reply is one step    *)
(* here (Notif.tla has its details).  A handler replies, at once or after  *)
(* the tracee's peer did something (a blocking accept or connect), or it   *)
(* fails before it does; and it may panic before its reply or after it, in *)
(* the DecRefs it has deferred.                                            *)
(*                                                                         *)
(* Left out: calls that a signal ends (Notif.tla has them), and with them  *)
(* the ENOENT of Receive, after which the loop tries again.                *)
(***************************************************************************)
EXTENDS Integers, Sequences, FiniteSets

CONSTANTS Notification, \* intercepted calls: bounds the length of a behaviour
          Worker,       \* one worker per CPU
          Nil,          \* the nil notification that ends a worker
          Faults        \* of handlers and ioctls: "block", "error", "refuse", "panic"

ASSUME EngineAssumption ==
    /\ IsFiniteSet(Worker) /\ Worker # {}
    /\ Nil \notin Notification
    /\ Faults \subseteq {"block", "error", "refuse", "panic"}

VARIABLES kern,     \* the tracee's call: "none", "trapped", "sent", "answered"
          exited,   \* all processes have exited and the listener is closed
          ch,       \* notifications to handle
          failed,   \* notifications of workers that gave up
          receiver, \* the program counter of the receive loop
          fetched,  \* the notification the receive loop holds
          nils,     \* nil notifications still to be sent
          pc,       \* of the workers
          pending,  \* the notification each worker works on
          inPanic,  \* Engine.inPanic
          drainers, \* goroutines that drain failed
          replied,  \* notifications whose Notif.state is not Received any more
          logged    \* notifications whose handler ended in an error

vars == <<kern, exited, ch, failed, receiver, fetched, nils, pc, pending,
          inPanic, drainers, replied, logged>>

N == Cardinality(Worker)  \* runtime.NumCPU()

Init == /\ kern = [n \in Notification |-> "none"]
        /\ exited = FALSE
        /\ ch = <<>>
        /\ failed = <<>>
        /\ receiver = "count"
        /\ fetched = Nil
        /\ nils = N
        /\ pc = [w \in Worker |-> "idle"]
        /\ pending = [w \in Worker |-> Nil]
        /\ inPanic = FALSE
        /\ drainers = 0
        /\ replied = {}
        /\ logged = {}

\* Skip, Return or AddFD: what was replied to before gets EALREADY.  The ioctl
\* may be refused (EMFILE, EINTR), which nobody tries again.
ClaimBlindly(n) == TRUE
Claimable(n) == n \notin replied
Reply(n) ==
    IF Claimable(n)
    THEN /\ replied' = replied \cup {n}
         /\ \/ kern' = [kern EXCEPT ![n] = "answered"]
            \/ "refuse" \in Faults /\ UNCHANGED kern
    ELSE UNCHANGED <<kern, replied>>
-----------------------------------------------------------------------------
(* The tracees.                                                             *)

Trap(n) == /\ kern[n] = "none"
           /\ ~exited
           /\ kern' = [kern EXCEPT ![n] = "trapped"]
           /\ UNCHANGED <<exited, ch, failed, receiver, fetched, nils, pc, pending,
                          inPanic, drainers, replied, logged>>

\* The last process exits, with no call under way, and the engine closes.
Exit == /\ ~exited
        /\ \A n \in Notification : kern[n] \in {"none", "answered"}
        /\ exited' = TRUE
        /\ UNCHANGED <<kern, ch, failed, receiver, fetched, nils, pc, pending,
                       inPanic, drainers, replied, logged>>
-----------------------------------------------------------------------------
(* Start: the receive loop.                                                 *)

\* countRunning.
Count == /\ receiver = "count"
         /\ receiver' = IF exited THEN "end" ELSE "receive"
         /\ UNCHANGED <<kern, exited, ch, failed, fetched, nils, pc, pending,
                        inPanic, drainers, replied, logged>>

\* seccomp.Receive: a notification, EBADF once the listener is closed, or an
\* error nobody expects, which ends the loop with processes still running.
Receive == /\ receiver = "receive"
           /\ \/ \E n \in Notification :
                    /\ kern[n] = "trapped"
                    /\ kern' = [kern EXCEPT ![n] = "sent"]
                    /\ fetched' = n
                    /\ receiver' = "push"
              \/ /\ exited \/ "refuse" \in Faults
                 /\ receiver' = "end"
                 /\ UNCHANGED <<kern, fetched>>
           /\ UNCHANGED <<exited, ch, failed, nils, pc, pending, inPanic, drainers,
                          replied, logged>>

\* ch <- n, which blocks while the channel is full.
Push == /\ receiver = "push"
        /\ Len(ch) < N
        /\ ch' = Append(ch, fetched)
        /\ fetched' = Nil
        /\ receiver' = "count"
        /\ UNCHANGED <<kern, exited, failed, nils, pc, pending, inPanic, drainers, replied, logged>>

\* ch <- nil for every worker.
PushNil == /\ receiver = "end"
           /\ nils > 0 /\ Len(ch) < N
           /\ ch' = Append(ch, Nil)
           /\ nils' = nils - 1
           /\ UNCHANGED <<kern, exited, failed, receiver, fetched, pc, pending,
                          inPanic, drainers, replied, logged>>
-----------------------------------------------------------------------------
(* A worker.                                                                *)

\* Receive from ch into pending; a nil ends the loop.
Take(w) ==
    /\ pc[w] = "idle"
    /\ ch # <<>>
    /\ ch' = Tail(ch)
    /\ pending' = [pending EXCEPT ![w] = Head(ch)]
    /\ pc' = [pc EXCEPT ![w] = IF Head(ch) = Nil THEN "finished" ELSE "taken"]
    /\ UNCHANGED <<kern, exited, failed, receiver, fetched, nils, inPanic, drainers,
                   replied, logged>>

\* inPanic.Load: in safe mode a worker returns with its notification pending.
\* Another worker may raise the flag between this load and the handler.
CarriesOn == "handle"
AfterCheck == IF inPanic THEN "return" ELSE "handle"
Check(w) ==
    /\ pc[w] = "taken"
    /\ pc' = [pc EXCEPT ![w] = AfterCheck]
    /\ UNCHANGED <<kern, exited, ch, failed, receiver, fetched, nils, pending, inPanic,
                   drainers, replied, logged>>

\* handle: the reply, an error before it, or a panic before it; or the handler
\* waits for a peer first.
Handle(w) ==
    /\ pc[w] \in {"handle", "woken"}
    /\ \/ Reply(pending[w]) /\ pc' = [pc EXCEPT ![w] = "ending"]
       \/ /\ UNCHANGED <<kern, replied>>
          /\ \/ "error" \in Faults /\ pc' = [pc EXCEPT ![w] = "ending"]
             \/ "panic" \in Faults /\ pc' = [pc EXCEPT ![w] = "panicking"]
             \/ /\ "block" \in Faults /\ pc[w] = "handle"
                /\ pc' = [pc EXCEPT ![w] = "blocked"]
    /\ UNCHANGED <<exited, ch, failed, receiver, fetched, nils, pending, inPanic, drainers,
                   logged>>

\* The peer that a blocking accept or connect waits for arrives.
Unblock(w) ==
    /\ pc[w] = "blocked"
    /\ pc' = [pc EXCEPT ![w] = "woken"]
    /\ UNCHANGED <<kern, exited, ch, failed, receiver, fetched, nils, pending, inPanic,
                   drainers, replied, logged>>

\* The handler's deferred DecRefs, which may panic, and the end of handle, which
\* logs an error.
Finish(w) ==
    /\ pc[w] = "ending"
    /\ \/ /\ pc' = [pc EXCEPT ![w] = "idle"]
          /\ pending' = [pending EXCEPT ![w] = Nil]
          /\ logged' = IF kern[pending[w]] = "answered" THEN logged
                       ELSE logged \cup {pending[w]}
       \/ /\ "panic" \in Faults
          /\ pc' = [pc EXCEPT ![w] = "panicking"]
          /\ UNCHANGED <<pending, logged>>
    /\ UNCHANGED <<kern, exited, ch, failed, receiver, fetched, nils, inPanic, drainers,
                   replied>>

\* The deferred failed <- pending of a worker that returns or panics.
ForgetPending(w) == failed' = failed
KeepPending(w) == Len(failed) < N /\ failed' = Append(failed, pending[w])
GiveUp(w) ==
    /\ pc[w] \in {"return", "panicking"}
    /\ KeepPending(w)
    /\ pending' = [pending EXCEPT ![w] = Nil]
    /\ pc' = [pc EXCEPT ![w] = IF @ = "return" THEN "finished" ELSE "guard"]
    /\ UNCHANGED <<kern, exited, ch, receiver, fetched, nils, inPanic, drainers, replied, logged>>

\* panicGuard: inPanic, a goroutine that drains failed, and the worker itself
\* drains ch.
NoDrainer == drainers
OneMoreDrainer == drainers + 1
PanicGuard(w) ==
    /\ pc[w] = "guard"
    /\ inPanic' = TRUE
    /\ drainers' = OneMoreDrainer
    /\ pc' = [pc EXCEPT ![w] = "drain"]
    /\ UNCHANGED <<kern, exited, ch, failed, receiver, fetched, nils, pending, replied,
                   logged>>

\* drainSafeMode(main), which skips what is not nil.
DrainMain(w) ==
    /\ pc[w] = "drain"
    /\ ch # <<>>
    /\ IF Head(ch) = Nil THEN UNCHANGED <<kern, replied>> ELSE Reply(Head(ch))
    /\ ch' = Tail(ch)
    /\ UNCHANGED <<exited, failed, receiver, fetched, nils, pc, pending, inPanic, drainers,
                   logged>>

\* drainSafeMode(failed).
DrainFailed ==
    /\ drainers > 0
    /\ failed # <<>>
    /\ Reply(Head(failed))
    /\ failed' = Tail(failed)
    /\ UNCHANGED <<exited, ch, receiver, fetched, nils, pc, pending, inPanic, drainers,
                   logged>>
-----------------------------------------------------------------------------
Loop == Count \/ Receive \/ Push \/ PushNil

Work(w) == Take(w) \/ Check(w) \/ Handle(w) \/ Finish(w) \/ GiveUp(w) \/ PanicGuard(w)
           \/ DrainMain(w)

Next == \/ \E n \in Notification : Trap(n)
        \/ Exit
        \/ Loop
        \/ \E w \in Worker : Work(w) \/ Unblock(w)
        \/ DrainFailed

Spec == Init /\ [][Next]_vars

\* The goroutines of the engine run; the peer of a blocking call may not come.
FairSpec == /\ Spec
            /\ WF_vars(Loop) /\ WF_vars(DrainFailed)
            /\ \A w \in Worker : WF_vars(Work(w))
-----------------------------------------------------------------------------
In(n, seq) == \E i \in 1 .. Len(seq) : seq[i] = n

Handling == {"handle", "blocked", "woken", "ending"}
Holding == Handling \cup {"taken", "return", "panicking"}

\* The type invariant: bounded channels, and workers that hold a notification
\* exactly while they work on it.
TypeOK ==
    /\ kern \in [Notification -> {"none", "trapped", "sent", "answered"}]
    /\ exited \in BOOLEAN /\ inPanic \in BOOLEAN
    /\ ch \in Seq(Notification \cup {Nil}) /\ Len(ch) <= N
    /\ failed \in Seq(Notification) /\ Len(failed) <= N
    /\ receiver \in {"count", "receive", "push", "end"}
    /\ fetched \in Notification \cup {Nil}
    /\ nils \in 0 .. N
    /\ pc \in [Worker -> Holding \cup {"idle", "guard", "drain", "finished"}]
    /\ \A w \in Worker : pending[w] # Nil <=> pc[w] \in Holding
    /\ replied \subseteq Notification /\ logged \subseteq Notification
    /\ drainers = Cardinality({w \in Worker : pc[w] = "drain"})

Queued(n) == fetched = n \/ In(n, ch)
Owned(n) == Queued(n) \/ In(n, failed) \/ \E w \in Worker : pending[w] = n

\* No notification is lost between the goroutines, a panic of any number of
\* workers included: one that the tracee still waits for is with the receiver,
\* in a channel, or pending in a worker, unless its handler gave up with an
\* error, which is logged, or the kernel has refused the reply.
NothingLost ==
    \A n \in Notification : kern[n] = "sent" => Owned(n) \/ n \in logged \/ n \in replied

\* A notification is in one place at a time.  Nobody has replied to what is on
\* its way to a worker, and what a handler gave up with an error is nowhere; but
\* a handler that panics after its reply leaves an answered call in failed.
OneOwner ==
    \A n \in Notification :
        /\ \A w, x \in Worker : pending[w] = n /\ pending[x] = n => w = x
        /\ Queued(n) \/ In(n, failed) => \A w \in Worker : pending[w] # n
        /\ In(n, failed) => ~Queued(n)
        /\ Queued(n) => n \notin replied
        /\ n \in logged => ~Owned(n)

\* Nobody waits for a channel that nobody serves.  Before safe mode no worker
\* has ended while a call is on its way to one; in safe mode there is a drainer
\* of either channel, and what is in failed before belongs to workers that are
\* about to start one.  So a worker that gives up is not held by a full failed.
ChannelsServed ==
    /\ \A n \in Notification : Queued(n) => inPanic \/ \A w \in Worker : pc[w] # "finished"
    /\ inPanic => drainers > 0 /\ \E w \in Worker : pc[w] = "drain"
    /\ failed # <<>> => drainers > 0 \/ \E w \in Worker : pc[w] = "guard"
    /\ \A w \in Worker :
          pc[w] \in {"return", "panicking"} => Len(failed) < N \/ drainers > 0

\* The receive loop has ended on an error before it received the call.
NeverReceived(n) == kern[n] = "trapped" /\ receiver = "end"

\* Every intercepted call is dealt with, "until all processes exit", in safe
\* mode too.  It is replied to or given up with an error, unless a worker waits
\* for its peer, or all workers wait for peers of other calls: then it waits
\* with them; or unless an error has ended the receive loop before.
CallServed ==
    \A n \in Notification : kern[n] = "trapped" ~>
        \/ n \in replied
        \/ n \in logged
        \/ \E w \in Worker : pc[w] = "blocked" /\ pending[w] = n
        \/ \A w \in Worker : pc[w] = "blocked"
        \/ NeverReceived(n)

\* Safe mode lets the tracees go on: a call no handler has begun with when the
\* flag is up is replied to, by a drainer, also when it was on its way through ch
\* to a worker that has not seen the flag yet, when the handlers of other calls
\* wait for peers that never come, or when what other handlers do is to fail.
Begun(n) == n \in logged \/ \E w \in Worker : pending[w] = n /\ pc[w] \in Handling
SafeModeServes ==
    \A n \in Notification :
        inPanic /\ kern[n] \in {"trapped", "sent"} /\ ~Begun(n)
            ~> n \in replied \/ NeverReceived(n)
-----------------------------------------------------------------------------
(* Refinement: what a tracee sees of its call.                              *)

\* The calls that somebody has who can still reply.
InHand == {n \in Notification : Owned(n) /\ n \notin replied}

Tracee == INSTANCE TracedCall WITH stage <- kern, hands <- InHand

\* Workers, unblocked accepts and connects and the drainers of safe mode
\* together answer a call at most once, and only one that was received.  What a
\* handler has replied to when it panics is skipped without effect, so that a
\* reply that the kernel refused is not followed by another.
ImplementsTracedCall == Tracee!CSpec
=============================================================================
