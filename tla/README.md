# Subtrace verification project

`subtrace run CMD` traces a command without changing it. It installs a seccomp
filter in the tracee, receives the tracee's socket and exit system calls as
*user notifications*, performs them on the tracee's behalf, and puts a proxy
between the tracee and every TCP peer. The proxies parse HTTP and send events to
a publisher or to ClickHouse.

The code's own difficulty is in `cmd/run`: goroutines of a multi-threaded tracer
serve a multi-threaded tracee, every step of a handler may be overtaken by
another call on the same descriptor, by a signal, by the death of the process or
by a completion that arrives late. Beside it stand three programs in JavaScript
and TypeScript with difficulties of their own: the DevTools page that shows the
traced requests, and the clients for Next.js and Cloudflare workers that trace
from inside an application, between its promises. This project models these
parts in TLA+, checks them with TLC and proves their safety with TLAPS.

1. [Inventory](#1-inventory): the components, their state and their hazards
2. [Modules](#2-modules): what models what
3. [Runs](#3-runs): what TLC checks, within which bounds
4. [Proofs](#4-proofs): what holds for every value of the constants
5. [Disagreements](#5-disagreements) between the code and what it says
6. [Assumptions and omissions](#6-assumptions-and-omissions)
7. [Plan](#7-plan)

## 1. Inventory

| Component | State | Operations | Interacts with |
|---|---|---|---|
| `cmd/run/fd` | `refs` (flag and count), `fd` number, semaphore | IncRef, DecRef, FD, ClosingIncRef, Lock | everything that holds a descriptor |
| `cmd/run/socket` socket.go, inode.go | `Inode.state` (immutable record behind a pointer), `Inode.open`, temporary bind socket, listener, backlog, inode table | connect, bind, getsockname, getsockopt, listen, accept, dup, close | fd, proxy, kernel sockets, the tracee |
| `cmd/run/socket` proxy.go | two TCP connections, `skipCloseTCP`, the protocol race, pipelined requests, websocket budget | start, Close, optimistic proxy, fallback, HTTP/1, HTTP/2, websocket | socket, tracer, TLS |
| `cmd/run/engine/seccomp` | listener FD, `Notif.state` | Receive, Skip, Return, AddFD, Close | kernel, engine, handlers |
| `cmd/run/engine` engine.go | process and thread tables, worker channels, `inPanic`, `running` | Start, handle, getProcess, waitProcess, panicGuard, drainSafeMode | seccomp, process |
| `cmd/run/engine/process` | pidfd, `Exited`, socket map, `mu` | Wait, markAsExited, cleanup, installSocket, getDeleteSocket, the handlers | engine, socket, tracee memory |
| `cmd/run` run.go, futex | a shared word | forkChild, entrypointChild | seccomp |
| `cmd/run/journal` | a ring of log lines | loop, addLine, CopyFrom | tracer |
| `cmd/run/tls` | ephemeral CA, certificate cache | handshake with both sides | proxy |
| `tracer` manager.go | current block, pool | Insert, Flush, background flush | rpc, tunnel |
| `tracer` publisher.go | queue, two wait groups, websocket | queueWrite, Loop, Flush | pubsub |
| `tracer` parser.go | samplers, one event | UseRequest, UseResponse, Finish | proxy, manager, publisher |
| `event` | tags and lazy values | Copy, Set, NewLazy | tracer, process |
| `config`, `filter` | rules, CEL programs | Parse, Eval | parser |
| `transport` | links, buffered sinks | Dispatch, Close | |
| `cmd/worker` | a tunnel session, migrations table | tunnel loop, ApplyMigrations | ClickHouse |
| `cmd/tail` | filters, revision, ready channel | configure, read events | pubsub |
| `devtools` devtools.go, init.js | the server's connections; the page's hand-made `Mutex`, client, backoff and timers | websocket, Send; lock, unlock, spawn, onopen, onclose, onmessage | the inspector, tracer |
| `etc/subtrace-next` index.ts | the global connection state and its promise, the patched `fetch`, the clones of bodies | patchFetch, trace, upload, limit, getWebSocket, createWebSocket | JoinPublisher, pubsub.ts |
| `etc/subtrace-cloudflare` index.ts | the global token, the promises given to `waitUntil` | subtrace, patchFetch, publishEvent | the Workers runtime, pubsub.ts |
| `etc/*/pubsub.ts` (two copies) | none | encode, decode, toJSON, fromJSON, fromPartial | the messages of publishers, subscribers and the server |
| `cmd/proxy`, `rpc`, `tags`, `stats`, `logging` | little or none | HTTP calls, look-ups | |
| `etc/node`, `etc/python` | none | launchers and native loaders | |

What makes each of the modelled parts correct, and what is hard about it:

- **fd**: a number is used only while the OS file behind it is open, it is
  closed once, and `Lock` returns. Hard: every operation is two or three atomic
  instructions, an IncRef that is refused is visible for a moment.
- **socket**: the inode moves through its states in one direction, whoever
  races; a result that comes late is not published; the loser of a
  compare-and-swap cleans up; nothing leaks; a call returns. Hard: eight
  handlers and three kinds of background goroutines share one pointer, and each
  handler works on a state it loaded long before it publishes.
- **seccomp**: one answer for each call, what we believe about it is what the
  tracee saw, the listener's references balance. Hard: a signal may end the
  call between any two steps.
- **engine**: no call is forgotten in a channel or a worker, in a panic either.
  Hard: a panic may come before the reply or after it, and the other workers
  see the flag it raises some time later.
- **process**: resources go when the process goes, not before and not never.
  Hard: exit handlers, `Wait`, `cleanup` and the handlers of other threads
  run at once, and `cleanup` waits for the others with the lock in its hand.
- **devtools**: one attempt to connect at a time, never none when there is no
  connection, every entry shown once. Hard: a byte serves as a mutex across an
  `await`, and timers, closes and opens of other websockets come meanwhile.
- **next client**: the application's fetch returns what it returned before, its
  event is sent over a websocket that is open, its payload is cut at the limit.
  Hard: all calls share one connection state, which any of them may replace
  while the others read their bodies.
- **cloudflare client**: an event is published once, with both bodies, before the
  runtime ends the invocation. Hard: it is published after the handler returned.
- **messages**: what is left out when a message is written is put back when it is
  read, by any other version of it; a number that does not fit is refused.

The hazards, each at its line, are in `PROJECT.json`.

## 2. Modules

| Module | Models | Abstract or composed |
|---|---|---|
| `FD` | fd.go, one action per atomic instruction | implements `GuardedFile` |
| `GuardedFile` | what fd.go promises: entered while open, closed when empty | |
| `Socket` | socket.go, inode.go on one inode; begin and end of proxy.go | takes its descriptors and bind sockets as `GuardedFile` describes them, proved step by step |
| `Notif` | seccomp.go against the kernel's side of a notification | implements `TracedCall` |
| `Engine` | the loop, workers and safe mode of engine.go | implements `TracedCall`; a reply is one step, see `Notif` |
| `TracedCall` | what the tracee is promised of a call that traps: one answer, or none when a signal or the end of the tracer came first | |
| `Lifecycle` | process.go, the exit, socket and close handlers, engine.go's process table | of a socket only the descriptor, see `Socket` |
| `DevTools` | init.js against the connections and `Send` of devtools.go | |
| `NextClient` | index.ts of subtrace-next: traced calls, createWebSocket, the layers of fetch | messages are not looked into, see `Wire` |
| `CloudflareClient` | index.ts of subtrace-cloudflare in a runtime that ends invocations | the same |
| `Wire` | pubsub.ts: one list of fields for each message, the generated functions once | against peers that write differently |
| `FDProofs`, `NotifProofs`, `SocketProofs`, `EngineProofs`, `LifecycleProofs`, `DevToolsProofs`, `NextProofs`, `CloudflareProofs` | proofs about the module of that name | |
| `MC*` | instances for TLC | |

How they correspond to the code (every definition's lines are in `PROJECT.json`
under `map`):

**FD.** `refs`, `fd`, `sema` are the fields of `FD`; `os` is the file behind the
number. The program counter of a goroutine names the next atomic instruction:
`IncRef` adds and then looks; one that finds the flag goes to `undo`, whose
decrement may have to release a sleeping closer or swap the number out. The width
of the word is kept (`2 * FlagClosed`). A closer follows the callers of the
package: `ClosingIncRef`, `Lock`, `close(2)`, `DecRef`; a goroutine of `Hasty`
leaves out `Lock`, as `Listener.Close` and `Socket.Listen` do.

**Socket.** `state` is the record behind `Inode.state`; its field `by` stands for
the identity of the pointer, so that a compare-and-swap compares identities as
the code does, and a state that looks the same but was published by somebody else
does not match. A *call* is one run of a handler; `call[c].prev` is the state it
loaded. `dial[c]` is the completion goroutine of a connect, `proxy[c]` and
`lis[c]` what it leaves behind, `kernel` what the tracee's own socket has been
through: it can be bound once and connected once. Each action is the code between
two points where another goroutine can be seen: a load, a compare-and-swap, an
entry into a descriptor, a channel, a system call on something shared. Deferred
DecRefs happen in `Return`.

**Notif.** `kern` and `told` are the kernel's notification and what the tracee's
call returned; `status` is `Notif.state`; `refs` counts the references to the
listener's FD that `Receive` takes and a reply drops. `sendFlag` is chosen at the
start as `init` of seccomp.go does from the kernel's version.

**Engine.** `ch`, `failed`, `pending`, `inPanic` are the variables of `Start`;
the receive loop is a program counter. A worker receives (`Take`), then looks at
`inPanic` (`Check`), then handles: it replies, ends in an error, panics, or waits
for a peer first (`Handle`, `Unblock`); when it has replied the handler's deferred
functions still run, and may panic (`Finish`). `replied` has the notifications whose
`Notif.state` has left Received: a second reply finds it so and does nothing. A
reply is one step, which the kernel may refuse.

**Lifecycle.** `mu[p]` is a Go `RWMutex` (a waiting writer keeps readers out),
`pidfd[p]` an `FD`, `exited[p]` the channel, `cleaner[p]` the cleanup goroutine,
`table` is `Engine.processes`, and `over` says that the engine has closed. `sock`
is the descriptor of each socket, `at` the socket a handler is inside of or
closes: a close, by its handler or by cleanup, marks the socket and then waits until
nobody is inside.

**DevTools.** `lock` and `counter` are the mutex of init.js (a byte that holds the
counter modulo `ByteMod`, which is 256, or a boolean where `SharedArrayBuffer` is
missing), `cur` is `Manager.#client`, `waits` the spawns suspended in their await.
`wrapped` is no variable of the code: it says that a lock has stored 0, so that the
mutex stayed free, and that attempts which began since then go on. `srv` and `wire`
are the server's ends and what `Send` wrote to its snapshot of them. An event of the page, with the promise reactions that follow it, is one
action.

**NextClient.** `conn` is `globalThis[connKey]`. A *task* is a traced call or a
run of createWebSocket, whose own fetch of JoinPublisher goes through the patched
fetch of the other instances of the module; `level` is the layer a task is in. `Quiet` is
the rule of JavaScript that a settled promise's reactions run before the next
event. `body`, `arrived` and `kept` are the clone of a body, what came of it and
what `limit` passed on.

**CloudflareClient.** A *call* is an invocation or a fetch of its handler; `until`
are the promises given to `waitUntil`; `Stop` is the runtime, which drops what an
invocation has pending when it ends or is cut off. `inbox` is the endpoint.

**Wire.** `Schema` has the fields of every message in the order `encode` writes
them; `Encode`, `Decode`, `ToJSON`, `FromJSON` and `FromPartial` are what the
generated functions do for each kind of field. `Double` rounds as a double does.
The peers (`PeerEncode`, `PeerJSON`) write the same messages with unknown fields,
in another order, scalars twice, or nulls and quoted numbers.

## 3. Runs

Deadlock is not checked anywhere: all these systems stop when no more calls are
made. That calls return is stated as a property instead.

| Run | Question | Bounds | Distinct states |
|---|---|---|---|
| `fd_locked` | is fd.go a guarded file, does Lock return? | 3 goroutines, 2 calls each, a word of 5 bits | 88 k |
| `fd_swap_race` | can DecRef find the number gone? (yes) | the same, 1 call each | |
| `socket_life` | do the nine operations race safely, under faults? | 4 calls of connect, bind, getsockname, dup and close, or any 3 calls with all faults and odd outcomes of dials | 1.76 M |
| `socket_live` | does every call return? | 3 calls, successful dials | 81 k |
| `life_exit` | are lock, pidfd, map and sockets safe, does every handler return? | 1 process, 3 calls of any kind, kills, interrupted polls | 702 k |
| `life_live` | do the dead leave the table, and does the engine close? | 2 processes, 2 calls of socket, connect and close, kills | 146 k |
| `notif` | one answer, balanced references? | 2 calls, 2 replies each, both kernels, refused ioctls | 16 k |
| `engine` | is any notification lost, or answered twice? | 3 calls, 2 workers, all outcomes | 117 k |
| `devtools` | does the page keep one connection and show an entry once? | 3 websockets, a byte that wraps at 3, 3 timers, 1 entry | 492 k |
| `next` | does every call send its event and return? | 3 calls, 1 with a body of 3 bytes, limit 2, 7 createWebSockets | 657 k |
| `cloudflare` | is every event published before its invocation ends? | 2 invocations, 1 of them not wrapped, 1 fetch | 481 k |
| `wire` | does every message arrive as it was sent? | all messages, 2 hops, numbers around 3 for the largest safe one | 15 k |

Why the bounds are enough to be interesting. In `fd_locked` three goroutines let
a holder, a refused entry and a closer meet, and a third entry come between any
two instructions; the second call lets a goroutine come back. The width of the
word plays no part below `MaxRefs`, which the proof shows. `socket_life` has room
for two connects, a dup and a close, or a connect, a bind, a getsockname and a
close, and the completions and proxies of all of them, or for any three of the
nine operations with every fault; every property has a mutant of the code that
breaks it with two or three calls. In `life_exit` an exit handler, `Wait`, and two threads that make, use or close
a socket meet, or a dup inside a socket, its close and cleanup; in `life_live`
parent and child die in either order, while the child has or has not imported a
socket of its parent. In `notif` the two calls matter only through the listener's count. In
`engine` three calls meet two workers: both panic, one before the other looks at
the flag or after, while the third call is in the channel. (Four calls, which
also fill the channel so that the receive loop blocks, are beyond the time of a
run now that a handler has four steps; `ChannelsServed` is proved for any number.)
In `devtools` every third lock stores 0, as every 256th does in the page; it has a connection that opens, one that closes and one that
is still closing, each with its timer, and an entry sent between any two of these. In `next` one
call reads a body of up to three bytes in chunks of any size, which end before, at
or after the limit of two, while two others lose, forget and
replace the websocket; seven runs of createWebSocket let each of them do so
twice. `cloudflare` has a wrapped request, a cron trigger that is not wrapped,
and a fetch that either of them makes. `wire` has every message with each
field set, empty and unset, lists of up to three, maps of up to two entries,
numbers on both sides of the largest safe one, and two hops, so that what one
peer has read is written again.

Symmetry is used over calls and handlers, in runs without liveness properties
only, and nowhere in `Lifecycle`.

What is checked, module by module:

- `FD`: `NoUseAfterClose`, `NumberOutlivesRefs`, `SettledFD`, `LockReturns`, and
  the refinement `ImplementsGuardedFile`
  (the closed flag is the gate, the goroutines between IncRef and DecRef are
  inside).
- `Socket`: `StateOrder` (Closed is for ever, Connected and Listening end only in
  Closed, only its own completion makes a socket Connected),
  `ConnectOkMeansConnected` (a blocking connect that says success has won its
  compare-and-swap), `ConnectedStaysUp` (nobody hangs up a published connection
  but its proxy at the end), `StateBindOpen` and `NoBindUseAfterClose` (the
  temporary bind socket is open while a state names it or a handler is inside;
  in behaviours without a listen, see section 5), `FinalCloseFindsOpen` (in
  behaviours without an import), `Reclaimed` (when all is over nothing is left
  open; `Over` also excludes a run in which a close has panicked),
  `CallReturns`, `ConnectingResolves`.
- `Notif`: `RefBalance`, `StatusTruth`, `NoDanglingFD`, `ReceivedEnds`.
- `Engine`: `NothingLost`, `CallServed`, `SafeModeServes` (a call that no handler has
  begun with when the panic flag is up is replied to, also when it is on its way to
  a worker that has not seen the flag, or all other handlers fail or wait), and
  the refinement `ImplementsTracedCall` (a call that a channel or a goroutine has
  is in hand while nobody has replied to it).
- `Lifecycle`: `PollSafe`, `NoWriteUnderIteration`, `RegisteredClosed`,
  `DeadForgotten`, `EngineCloses`, `HandlerReturns`.
- `DevTools`: `OneAttempt` (the mutex works although it is held across an await,
  but for the attempts that a lock which stored 0 lets in),
  `NeverStranded` (there is a connection, or an event that will retry),
  `ShownOnce` (an entry written to two connections of the page is shown once),
  `Reconnects` (unless attempts let in by such a lock overtake each other for ever).
  All four speak of pages with `SharedArrayBuffer` and without.
- `NextClient`: `NothingDropped` (no event is handed to a websocket that is not
  open, and a call that returned has sent its event), `PayloadLimited`,
  `CallReturns`.
- `CloudflareClient`: `NothingLost` (the end of an invocation takes no event with
  it, and a token that is there is used), `CompleteOnce`, `EventSettles`.
- `Wire`: `Faithful` (through any peers and forms a message arrives as it was
  sent), `RefusedNotRounded` (in the binary form).

Type invariants, `OneCloser`, `NoEntryAfterMark` and `NoLostWakeup` of `FD`,
`WaitsEnd` and `ConnectingHasDial` of `Socket`, `LockHasHolder` and `TableHasWaiter`
of `Lifecycle`, `ChannelsServed` and `OneOwner` of `Engine`, `AnswerUnderWay` and
`ImplementsTracedCall` of `Notif`, `StateUsable`, `AwaitsSettle` and `UploadedOnce` of
`NextClient` and `NoOrphans` of `CloudflareClient` are in no run of the list: the proofs have them for every
instance. Each can be added to the configuration of its module, and TLC agrees on
the instances above (`AwaitsSettle` speaks of one instance of the module only, and
`UploadedOnce` was looked at with two as well).

Fairness. `FD`, `Socket`, `Notif` and `Engine` assume weak fairness of every
goroutine that can run, which the Go scheduler gives, and of a dial, which TCP
ends. `Lifecycle` assumes less: that some goroutine of the engine goes on as long as
one can (the actions of `Step` together), that a `Wait` whose turn it is enters
its poll, and that a process that has called exit_group dies. An accept that
waits for its peer is no part of `Step`. `DevTools` assumes that timers fire and
that an attempt to connect opens or fails; `NextClient` that promises settle,
timers fire and origins answer; `CloudflareClient` that origins and the endpoint
answer and bodies end or break off, which the platform's own timeouts bring
about. Nothing else of the environment is fair: a tracee need not make calls, a
peer need not connect, traffic need not end, a signal need not come, a server
need not be reachable (the properties say "once it is"), an invocation need not
be cut off.

## 4. Proofs

`FDProofs` proves, for any finite number of goroutines smaller than `MaxRefs`
and any word with `MaxRefs < FlagClosed`, that fd.go keeps `TypeOK`,
`NumberOutlivesRefs`, `OneCloser`, `SettledFD` and `NoEntryAfterMark`, and, when
every closer calls Lock, `NoUseAfterClose`; then that every step of `FD` is a
step of `GuardedFile` or a stutter (`Refinement`, the safety part).

None of these is inductive. `FDInv` adds: `Balance` (the count is the number of
goroutines that must still decrement it; without it nothing excludes that a
decrement reaches zero too early), `FlagInv` (who can be where it is only because
the flag is set), `CloserInv` (one closer is on its way from the mark to
close(2)), and `NumberInv` (the number is swapped out only when nobody may use
it). `DrainInv`, inductive relative to `FDInv` when `Hasty` is empty, says that a
token of the semaphore means that the holders have left; this is what `Lock`
buys. `ScrubInv` gives the last part of `SettledFD`. The proof has a step for
each action and under it one for each conjunct that the action can disturb;
`Recount` does the arithmetic of the count. `WakesUp` proves `NoLostWakeup`, the
safety under `LockReturns`: whoever sleeps in Lock has a token waiting, or
somebody between IncRef and the end of DecRef who will release one. `WakeInv`
says it of the word itself: the count is above one until somebody is on the way
to release the token, and `Balance` turns the count into goroutines.

`NotifProofs` proves `TypeOK`, `RefBalance`, `StatusTruth` and `NoDanglingFD` for
any finite number of notifications. `NotifInv` adds `StageInv` (a notification is
Replying exactly while its claimer is between the claim and the last ioctl, so
that a second reply never touches the reference), `ToldInv` (the kernel has told
the tracee something exactly when the call is over) and `AddedInv`.
`SomebodyAnswers` proves `AnswerUnderWay`, the safety under `ReceivedEnds`: a call
that the tracee still waits in is with whoever received it, with the reply that has
claimed it or still can, or with the closing of the listener, or the kernel has refused its
reply (state Error), after which it is with nobody. `EndInv` is the
part that needs it: a notification that is Replied or Cancelled belongs to a
call that is over, and a reply gives one up unclaimed only when the listener is going.

`Refinement` of `NotifProofs` and `Refinement` of `EngineProofs` prove that either model
implements `TracedCall`: a received call is in hand until one answer is given, and in
nobody's afterwards. In `Notif` the map reads what the kernel told the tracee, and a
call is in hand with the goroutine that received it or the reply that has claimed it or
still can, and given up when the kernel refuses the reply; the theorem says that the ioctls of a reply, old kernels' two included, a
second reply and the closing of the listener end a call at most once. In `Engine` a
call is in hand while a channel or a goroutine has it and nobody has replied. `HandIs` says that these
are exactly the calls that were received, not replied to and not given up, from `NothingLost`,
`OwnedSent` and `OneOwner`; with it every step is read off `kern`, `logged` and `replied`.
Together the two justify that `Engine` takes a reply for one step: both look the same to the tracee.

`SocketProofs` proves every safety property of `Socket` for any set of calls,
symmetric or not, and any choice of operations, faults, modes and outcomes of a
dial. The constants need only `SocketAssumption` (the markers are not calls). Two
inductive invariants carry it. `SocketInv` gives `TypeOK`,
`ConnectOkMeansConnected`, `ConnectedStaysUp` and `StateOrder`; it adds to the types:

- `StageInv`: which labels each operation, completion, proxy and listener can be
  at, so that for instance only a connect is ever at `publish`;
- `PrevInv`: a handler that is about to publish has loaded a Passive state, and
  one that releases what the inode holds has closed it. `StateOrder` rests on
  this: a compare-and-swap can only replace what was loaded;
- `StateInv`: a Connected state belongs to a completion that has won;
- `DialInv`: a completion publishes its own record and answers "ok" only when it
  has won. `ConnectOkMeansConnected` rests on this, since the blocking handler
  hears from nobody else;
- `ProxyInv`: while the inode lives, the proxy of a successful dial is told to
  leave its connections alone by nobody, so that only its own end takes them
  down. It needs the exception for a closed inode: there the completion that
  lost its compare-and-swap hangs up itself.

`StepInv` has a lemma for each group of actions that move alike, under `Here`
(what one goroutine's step leaves to the others) and an effect lemma for each way
a label moves.

`LifeInv`, inductive relative to `SocketInv`, says of everything an inode is made
of who is still to close it:

- `FileInv`: a descriptor that is not closed is in `Inode.open`, and in some map or
  in the hands of the call that makes it or closes it; one call at a time
  closes it, and nobody is inside a closed one;
- `EndInv`: no descriptor is left only when some call is ending the inode or it has
  ended; without an import one call at most does, and it finds the inode alive.
  `FinalCloseFindsOpen` is part of it;
- `GoroutineInv`: a completion under way finds its own Connecting state or Closed,
  so that its compare-and-swap fails only after a close;
- `BindInv`: an open bind socket is named by the live state, or by a completion or
  a close that is about to close it. `StateBindOpen` and `NoBindUseAfterClose` are
  among its parts: the state keeps its bind socket because the only goroutines
  that close one are those whose own outcome took it out of the state, and
  Lock makes them wait for whoever is inside;
- `CarrierInv`: open connections have a proxy or a completion that hangs up, an
  open listener has an accept loop or the listen that will settle it.

`NothingLeaks` reads these off: when all is over, every one of these owners is
gone, so nothing is open. `SocketsGuarded` and `BindsGuarded` prove the contract
between the two models: what `Socket` does to each descriptor, and in behaviours
without a listen to each bind socket, is a step of `GuardedFile` or none. With
`FDProofs`'s `Refinement` this closes the argument that the two can be looked at apart: the
descriptors of `Socket` may be taken as single entries and exits, because fd.go
makes them so.

`NoCircularWait` proves `WaitsEnd`, the safety under `CallReturns`: a close waits
for handlers none of which closes, a Lock of a bind socket for handlers that are
at a system call on it, and a blocking connect for a completion that is still to
answer and has the tracee's connection. Its one exception is exact: the kernel
refused the connect, as it does after an earlier one (section 5). `WaitInv` adds
who is inside what at each label.

`DialBehindConnecting` proves `ConnectingHasDial`, the safety under
`ConnectingResolves`: a Connecting state belongs to a connect that is still to start its dial,
or to a dial whose compare-and-swap will find this very record, since
`GoroutineInv` lets nobody else replace it but by Closed. Its three exceptions are
exact, and all are in section 5: no dummy listener, a second connection that the
kernel refuses, and a dial that ends in an unknown error. `PendingInv` follows a connect from
its first compare-and-swap to the second.

`EngineProofs` proves `TypeOK`, `NothingLost` and `OneOwner` for any number of
notifications and workers. `EngineInv` adds `Workers`, `NoDuplicates` (a
notification is in a channel once; the length of a channel is what limits the
receive loop) and `OwnedSent` (only calls that were received have an owner, are
replied to or logged, and none is answered without a reply). A handler that panics
after its reply leaves an answered call in `failed`, so `OneOwner` says of the other
way to a worker, through `ch`, that nobody has replied to what is on it. `ChannelsHaveReaders` proves `ChannelsServed`, the
safety under `CallServed`: no call is on its way to a worker when one has ended, but
for safe mode, which has a drainer of either channel; what is in `failed` before
that belongs to workers about to start one; and no worker that gives up finds
`failed` full with nobody to empty it. `ServeInv` counts for the last (before safe
mode `failed` holds at most one call of each worker that has stopped) and says for the
first that a nil is sent only after the receive loop has ended, behind every
notification in the channel.

`LifecycleProofs` proves `PollSafe`, `NoWriteUnderIteration`, `RegisteredClosed` and
two cores of liveness for any processes, handlers, calls and signals, exits
included. Three invariants carry them.
`LifeInv` (`Invariance`) has the types and `Held` (the writer of `Process.mu` is
the handler that waits for it), `Counted` (its readers are those who mark the
process, and cleanup), `Known` (a `Wait` at work is in the table) and `Marked`
(cleanup has begun exactly where `Exited` is closed).
`Phases` (`InPhase`) adds who marks a process: its `Wait`, which has seen it dead, or the
handler of an exit, which is done from then on (`LeaveInv`); why a `Wait` gives up: its
pidfd is closed, or `Exited` is, under its feet, which only the cleanup of a process
does that was marked by somebody else, hence by the handler of its own exit
(`WaiterInv`); and who has been seen and is over (`ControlInv`).
`SocketInv` (`SocketsKept`) says whose map a socket is in (`Belongs`), what a handler
inside a socket still has to do there (`AtWork`), that cleanup waits for a socket that
is in the map (`ClosingOne`), and that it has left none open but those of a process
that had asked to exit (`AllSwept`).

`NoWriteUnderIteration` follows: cleanup is one of the readers, and whoever changes
the map has seen none. `NoneLeftOpen` proves `RegisteredClosed`: a process that did not
ask to exit is dead when it is marked, so nothing enters its map once cleanup
went through it; one that did may have other threads, which go on, and for the
sockets that these make the claim is not made (section 5 says what becomes of them).
`LocksEnd` proves `LockHasHolder`, the safety under `HandlerReturns`: the count of
readers is that of goroutines at work, a handler inside a socket that cleanup
closes is at work there unless it is a dup that wants the lock, and cleanup waits for a poll only of
a process that is dead or whose exit was let through. The dup is a deadlock
(section 5), and the theorem says that there is no other around this lock; waits
for a peer of an accept, and for a process that lives on after exit(2) of its main
thread, are not circular but may last (`Stuck`).
`TableEmpties` proves `TableHasWaiter`, the safety under `DeadForgotten` and
`EngineCloses`: a process stays in the table as long as its `Wait` is at work, and the
last to leave closes the engine. Without intercepted exits no `Wait` gives up.

`DevToolsProofs` proves `OneAttempt`, `NeverStranded` and `ShownOnce` for any
number of websockets, entries, timers and locks, and any width of the byte; nothing is
assumed of how often the mutex is locked. `DevToolsInv` adds `LiveInv` (only the
current client is live, only an attempt is connecting, and whoever holds the
mutex is the attempt of the current client, also when a lock that stored 0 has let
several in: without it a close of an old client might be taken for one of the new)
and `EntryInv` (what a live connection still carries has not been shown: this is why
`ShownOnce` survives two connections).

`NextProofs` proves `NothingDropped`, `PayloadLimited` and `StateUsable` for any
number of calls, instances of the module and websockets, and any limit. The heart
of `NextInv` is `StillOpen`: the websocket that an upload awaited is open when its
turn comes, because nothing else happens between (`Quiet`). `Places`, `Levels`,
`HeldMade`, `Settled` and `Uploaded` say where the tasks are, which websocket they
hold and which layers they have passed. Two more invariants rest on it.
`NobodyAwaitsUploads` proves `AwaitsSettle`, the safety under `CallReturns`: with one
instance of the module, a task awaits a createWebSocket that was called and is under way by
itself. No such run awaits an upload, so no waits are circular, however many calls forget
the connection at once. `NoEventTwice` proves `UploadedOnce` for any number of
instances: no retry, no layer and no catch clause uploads an event a second time.

`CloudflareProofs` proves `NothingLost` and `CompleteOnce` for any number of
invocations and fetches. `CloudflareInv` adds `Awaited` (a pending event's promise
was given to `waitUntil`, so that the runtime cannot end its invocation),
`TokenKept`, `BodiesRead` and `Delivered` (an event is in the inbox exactly when
it is published), and `Started` and `Parents` for the types. `NothingLeftBehind`
proves `NoOrphans`, the safety under `EventSettles`: no call or event outlives the
invocation it belongs to, and none waits for the body of an origin that never
answered. `OrphanInv` adds `Own` (an invocation's own call belongs to it, and it ends
only when its handler has) and that a response comes from an origin that answered.

Only model-checked: all liveness (`LockReturns`, `CallReturns`,
`ConnectingResolves`, `ReceivedEnds`, `CallServed`, `DeadForgotten`,
`EngineCloses`, `HandlerReturns`, `Reconnects`, `EventSettles`), which is out of
the prover's reach, the fairness part of `ImplementsGuardedFile`, and `Faithful`
and `RefusedNotRounded` of `Wire`, which recurses over the structure of messages:
the prover cannot follow that, so its functions are evaluated on every message
within the bounds. What can be said of the liveness without fairness is proved: that
whatever is waited for is with somebody who is still to bring it about.

| Liveness that TLC checks | Its safety core, proved |
|---|---|
| `LockReturns` of `FD` | `NoLostWakeup` |
| `CallReturns` of `Socket` | `WaitsEnd` |
| `ConnectingResolves` of `Socket` | `ConnectingHasDial` |
| `ReceivedEnds` of `Notif` | `AnswerUnderWay` |
| `CallServed` of `Engine` | `ChannelsServed`, `NothingLost` |
| `DeadForgotten`, `EngineCloses` of `Lifecycle` | `TableHasWaiter` |
| `HandlerReturns` of `Lifecycle` | `LockHasHolder` |
| `Reconnects` of `DevTools` | `NeverStranded` |
| `CallReturns` of `NextClient` | `AwaitsSettle` |
| `EventSettles` of `CloudflareClient` | `NoOrphans` |

## 5. Disagreements

The run `fd_swap_race` ends in a counterexample to something the code itself
says; the quote is in `PROJECT.json` under `findings`. The panic of `decRef` that
is taken for impossible is not: a refused IncRef may undo itself between the
closer's decrement and its swap.

Four configurations that are no part of the runs reproduce others of that kind
(`tlc -config <name>.cfg <module>`):

- `MCSocket_Fork.cfg`: a child imports an inode that its parent has closed since
  the fork, and the child's last close panics (`NeverPanics`).
- `MCSocket_Retry.cfg`: a blocking connect after a refused one never returns,
  because the tracee's own socket can reach the dummy listener only once
  (`CallReturns`).
- `MCLifecycle_Twice.cfg`: two exits see `Exited` open under the read lock; both
  close it (`MarkedOnce`).
- `MCDevTools_Wrap.cfg`: the lock whose count is a multiple of 256 stores 0 in
  its byte, so that the mutex stays free and unlock throws "unlock of unlocked
  mutex" (init.js:35, 49; `UnlockFindsLocked`). The page reconnects for ever (see
  below), so that this happens to every page with `SharedArrayBuffer` that is open
  long enough. The attempts that are let in may close each other's
  connections, for ever in the worst case: hence `~wrapped` in `OneAttempt` and
  `<>[]wrapped` in `Reconnects`, which TLC refutes without it.

More follow from the models in the same way, and shaped the properties that are
checked; each can be reproduced by stating the property in question and giving
the constants named.

- `Socket`, connect and getsockname: a getsockname that loaded the Connecting
  state and enters its bind socket after the completion closed it says EBADF of
  an open descriptor (socket.go:293).
- `Socket`, bind, listen and getsockname: listen closes the bind socket without
  Lock, and before its compare-and-swap. `NoBindUseAfterClose` fails under a
  getsockname that is inside, and `StateBindOpen` when a bind wins
  (socket.go:563-571).
- `Socket`, two listens: a listen after one that failed with EADDRINUSE cannot
  park the tracee's socket again and is never answered (socket.go:520).
- `Socket`, dup with `Faults = {"cancel"}`: an fcntl whose descriptor is not
  installed, because it was interrupted, the tracee has no room for it (EMFILE) or a
  stale entry has its number ("register: socket already exists", process.go:132),
  leaves its socket in the inode for ever, hence the condition `Installed` of
  `Reclaimed`.
- `Socket`, connect: the loser of the race for `skipCloseTCP` is not the only one
  to close the connections, the deferred `Close` of the proxy does too
  (proxy.go:55, 153).
- `Socket`, connect with the fault "dummy" or an unknown dial error: the socket
  stays Connecting, hence the bounds of `socket_live` and the exceptions of
  `ConnectingHasDial`.
- `Lifecycle` with exit_group: cleanup may close the pidfd before `Wait` polls it;
  `Wait` then fails and the process never leaves the table, hence no exits in
  `life_live` (process.go:222, engine.go:163).
- `Lifecycle` with exit: after exit(2) of the main thread alone cleanup holds
  `mu` until the process dies, and other threads hang (process.go:283).
- `Lifecycle`, exit_group and socket: a socket installed after cleanup went
  through the map is never closed (process.go:273), hence the exception of
  `RegisteredClosed`.
- `Lifecycle`, socket and dup: a dup holds its reference to the socket (handle.go:283)
  while it waits for `Process.mu` in installSocket (process.go:123); cleanup has that lock
  and waits for the reference (process.go:274, socket.go:714). Both hang, and so does every later handler
  that wants the lock: `HandlerReturns` without `DupCircle`.
- `Lifecycle`, accept: cleanup waits, lock in hand, for an accept that is blocked
  inside its socket; the process is gone, and only a new peer ends the wait.
- `Lifecycle`, socket: a socket that is not installed, because the tracee has no room
  or because a stale entry has its number (process.go:132-134), stays open in our table.
  In the second case the tracee has the descriptor, and its calls on it find the stale
  socket.
- `Lifecycle`, two processes: when a parent dies before its child first traps,
  the table is empty and the engine closes (engine.go:169).
- `Lifecycle`, kills: the look-up of a process that has died and been reaped
  panics (engine.go:60).
- `Notif`: when the kernel refuses the ioctl of a valid notification (EMFILE of a
  tracee at its limit of descriptors, EINTR of the ioctl itself) the state is Error,
  nobody tries again, and the engine only logs it: the tracee hangs in its call
  (seccomp.go:320-322, 416-418), hence the exceptions of `ReceivedEnds`,
  `AnswerUnderWay` and of `NothingLost` in `Engine`.
- `Notif`, old kernels: a signal between the two ioctls of AddFD leaves a
  descriptor in the tracee (seccomp.go:396), hence the condition of
  `NoDanglingFD`.
- `Engine`: handlers that block on a peer occupy all workers, and a handler that
  ends in an error leaves its tracee waiting (engine.go:285, 301), hence the
  exceptions of `CallServed`.
- `Engine`: an error of Receive that nobody expects ends the receive loop and, once the
  channel is empty, the workers, with processes running whose calls then wait
  (engine.go:347-351); hence `NeverReceived`.
- `Engine`: a worker that has looked at `inPanic` before another worker raises it still
  begins one handler afterwards (engine.go:325-328), so safe mode does not mean that
  no handler begins; what it does mean is `SafeModeServes`.
- `Engine`: a handler that panics in its deferred functions, after its reply, leaves an
  answered notification to safe mode, whose Skip gets EALREADY (engine.go:312-317).
- `DevTools`: a failed attempt leaves two retries behind, its own and that of
  onclose; the one to spare later closes a healthy connection and opens
  another, for ever (init.js:130, 172). `Reconnects` therefore says "again and
  again" and not "stays connected".
- `DevTools`: `setTimeout(() => this.spawn)` names spawn without calling it, so
  that this retry is lost (init.js:162); `NeverStranded` holds since the others are left.
- `DevTools`, pages where `WebSocket(document.location)` throws: they never
  connect, hence `supported` in `Reconnects`.
- `NextClient`: after one unusable answer of JoinPublisher the connection state
  keeps a rejected promise, and every later traced fetch ends without its
  event; hence `bad`.
- `NextClient`: calls that find the websocket closed at once each forget it and
  make another; all but the last stay open unused.
- `NextClient` with `Instances = 2`: createWebSocket of the second instance
  fetches through the first one's patched fetch, whose upload awaits the very
  promise that it is to settle. No call returns, hence one instance in `next`.
- `NextClient`: a response whose body is streamed slowly is held back until its
  copy has ended or reached the limit (index.ts:237, 267).
- `CloudflareClient`: a null among the values of `cf` has no `toString`, and the
  upgrade to a websocket cannot be cloned: the application's call fails in the
  tracing code (`broke`). A body that breaks off takes the event with it.
- `Wire`: fromJSON rounds a number that is not safe without a word, where decode
  refuses the message; hence `binary` in `RefusedNotRounded`. A message field that
  comes twice is replaced and not merged, and two members of a oneof are both
  kept, unlike what protobuf prescribes: the peers of `Wire` do neither.

## 6. Assumptions and omissions

- Kernel behaviour is taken from how the code uses it: bind(2) of a bound socket
  is EINVAL, connect(2) of a socket connected once is EISCONN, an invalid
  notification is ENOENT, the EINPROGRESS that may come instead included.
- A dead process counts as reaped at once.
- The reply in `Engine` is a single step, and so is the work inside a socket in
  `Lifecycle`; their own modules have the details. Calls that a signal ends are in
  `Notif` and not in `Engine`, and with them the ENOENT of Receive, after which its loop
  tries again. The EINPROGRESS that the kernel might give for a valid notification
  (seccomp.go:319, 415) is left out of `Notif`.
- `Lifecycle` leaves out an import that fails: a panic of a process that has just
  died, or an entry that exists already (process.go:151). Publication and release inside one action are
  merged only where no other goroutine can see the difference.
- In `Socket` a dummy listener, when it can be made at all, accepts the tracee's
  first connection; the external dial ends.
- In a page and in the clients one event, with the promise reactions that follow
  it, is a step: JavaScript runs to completion. The bodies of requests in
  `CloudflareClient` may end or break off at any moment after the call began.
- `DevTools`: when a timer fires is left open; its delay, the backoff, is left out.
- `NextClient`: with several instances the getWebSocket that the init of a later one
  calls (index.ts:364) is left out. A limit that is not a number, and a fetch of a `Request` with a
  body, whose copy fails before anything is sent, are left out. The server
  acknowledges nothing: "sent" is handed to an open websocket.
- `Wire`: strings, bytes and maps are members of small sets; end-group tags,
  field number zero and truncated input, on which decode stops or throws, are
  left out, and so is the bytes' base64, which is its own inverse.
- Wording, logging, addresses and flags are left out, and so are errors of
  our own system calls for lack of memory, of descriptors in our own table, or by a
  signal to us, but for those of the ioctls of a reply (`Notif`) and of the poll
  (`Lifecycle`).
- Not modelled: accept and the backlog, the inode table, execve's template cache,
  the protocol handlers of proxy.go, TLS, the tracer, transport, worker, tail, the
  futex handshake and the journal, all of which are planned (section 7) but for
  TLS. The filter installation, process memory access, CEL and RPC are I/O,
  constants or library calls. The launchers of `etc/node` and `etc/python` pick a
  binary or load a library and keep no state. The contents of HAR entries, the
  HTML that devtools.go injects and the rendering of the page are data.

## 7. Plan

In this order:

1. `Backlog`: accept(2), of which `Lifecycle` has the life in its process, and the accept and dispatch loops of socket.go:605-706,
   meeting over the backlog map; the inode table (inode.go:202-236) with reused
   numbers. Properties: a connection reaches one accepter, the panic of a
   mismatched address is out of reach, no stale inode is found.
2. `ProxyRace`: proxyOptimistic (proxy.go:207-315) and the fallback copy
   (1316-1345), against an abstract duplex pipe: no byte lost, one handler, both
   directions end. Then HTTP/1 (367-512), websocket limits (536-984), HTTP/2.
3. `Manager`: the block pool of tracer/manager.go against an abstract bag of
   events: an event is in one block, no frozen block becomes current; the retry.
4. `Publisher`: queue and Flush (publisher.go:195-285).
5. `Handshake`: forkChild and entrypointChild over the futex word.
6. Small ones: `Journal` (CopyFrom against a reference definition), `Transport`
   (buffered sink), `Migrations`, the tail subscriber.
7. Proofs: every invariant and action property the runs check is proved but for
   those of `Wire`, and so is the safety core of every liveness property. Left is the
   safety of `Backlog` and `Manager`, and that `Socket`'s calls are answered as
   `TracedCall` says, which needs a handler's return to name its notification.
