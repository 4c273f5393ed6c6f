--------------------------------- MODULE FD ---------------------------------
(***************************************************************************)
(* cmd/run/fd/fd.go: the reference counted container of a file descriptor  *)
(* number.  Every atomic operation of the Go code is one action, so that   *)
(* the calls of several goroutines interleave exactly where the code lets  *)
(* them.  A goroutine makes at most MaxCalls calls (the only bound of the  *)
(* model): it either takes a reference, uses FD() and drops it, or closes  *)
(* the file the way the callers of the package do:                         *)
(*                                                                         *)
(*     if !fd.ClosingIncRef() { return }                                   *)
(*     fd.Lock()             // not called by a goroutine of Hasty          *)
(*     unix.Close(fd.FD())                                                 *)
(*     fd.DecRef()                                                         *)
(***************************************************************************)
EXTENDS Integers, FiniteSets

CONSTANTS Goroutine,   \* the goroutines that share the FD
          Creator,     \* the one that called NewFD and owns the first ref
          Hasty,       \* closers that skip Lock (Listener.Close, Socket.Listen)
          FlagClosed,  \* the top bit of refs, 1 << 31 in the code
          MaxRefs,     \* 1 << 24 in the code
          MaxCalls     \* calls a goroutine makes

ASSUME FDAssumption ==
    /\ IsFiniteSet(Goroutine)
    /\ Creator \in Goroutine
    /\ Hasty \subseteq Goroutine
    /\ FlagClosed \in Nat /\ MaxRefs \in Nat /\ MaxCalls \in Nat
    /\ Cardinality(Goroutine) < MaxRefs   \* fewer than 2^24 references at once
    /\ MaxRefs < FlagClosed

VARIABLES refs,   \* uint32: the closed flag and the count
          fd,     \* the stored number: "live", or "dead" once it is ^uint32(0)
          sema,   \* tokens of the runtime semaphore
          os,     \* the OS file behind the number: "open" or "closed"
          seen,   \* the value of refs a ClosingIncRef loaded before its CAS
          pc,     \* the atomic operation each goroutine executes next
          calls   \* calls each goroutine may still start

vars == <<refs, fd, sema, os, seen, pc, calls>>

-----------------------------------------------------------------------------
(* uint32 arithmetic on refs.                                              *)

\* atomic.AddUint32(&refs, 1)
Incremented(r) == IF r = 2 * FlagClosed - 1 THEN 0 ELSE r + 1

\* atomic.AddUint32(&refs, ^uint32(0))
Decremented(r) == IF r = 0 THEN 2 * FlagClosed - 1 ELSE r - 1

\* refs & flagClosed != 0
IsClosed(r) == r >= FlagClosed

\* refs &^ flagClosed
Left(r) == IF IsClosed(r) THEN r - FlagClosed ELSE r

Goto(g, label) == pc' = [pc EXCEPT ![g] = label]

StartCall(g) == /\ pc[g] = "idle"
                /\ calls[g] > 0
                /\ calls' = [calls EXCEPT ![g] = @ - 1]
-----------------------------------------------------------------------------
\* NewFD returned to Creator, who holds the initial reference.
Init == /\ refs = 1
        /\ fd = "live"
        /\ sema = 0
        /\ os = "open"
        /\ seen = [g \in Goroutine |-> 0]
        /\ pc = [g \in Goroutine |-> IF g = Creator THEN "held" ELSE "idle"]
        /\ calls = [g \in Goroutine |-> MaxCalls]

\* IncRef after its add: the closed flag refuses the entry.
UnguardedEntry(r) == IF Left(r) >= MaxRefs THEN "panic" ELSE "held"
AfterIncRef(r) == IF IsClosed(r) THEN "undo"
                  ELSE IF r >= MaxRefs THEN "panic" ELSE "held"

\* IncRef: add one, and undo it when the closed flag was already there.
IncRef(g) ==
    /\ StartCall(g)
    /\ refs' = Incremented(refs)
    /\ Goto(g, AfterIncRef(refs'))
    /\ UNCHANGED <<fd, sema, os, seen>>

\* FD() between IncRef and DecRef: panics when the number is gone.
UseFD(g) == /\ pc[g] = "held"
            /\ Goto(g, IF fd = "dead" THEN "panic" ELSE "held")
            /\ UNCHANGED <<refs, fd, sema, os, seen, calls>>

\* decRef after its decrement, by a DecRef or by the undo of a refused IncRef
\* (internal): with the flag set, one reference left wakes Lock and zero left
\* swaps the number out.
EagerSwap(r, internal) ==
    IF Left(r) >= MaxRefs THEN "panic"
    ELSE IF IsClosed(r) /\ Left(r) \in {0, 1} THEN "swapInternal"
    ELSE "idle"
SilentUndo(r, internal) ==
    IF Left(r) >= MaxRefs THEN "panic"
    ELSE IF ~IsClosed(r) \/ internal THEN "idle"
    ELSE IF Left(r) = 1 THEN "release"
    ELSE IF Left(r) = 0 THEN "swap" ELSE "idle"
AfterDecRef(r, internal) ==
    IF Left(r) >= MaxRefs THEN "panic"
    ELSE IF IsClosed(r) /\ Left(r) = 1 THEN "release"
    ELSE IF IsClosed(r) /\ Left(r) = 0
         THEN IF internal THEN "swapInternal" ELSE "swap"
    ELSE "idle"

\* The decrement of decRef, for DecRef ("held", "shut") or an undo.
DecRef(g) ==
    /\ pc[g] \in {"held", "shut", "undo"}
    /\ refs' = Decremented(refs)
    /\ Goto(g, AfterDecRef(refs', pc[g] = "undo"))
    /\ UNCHANGED <<fd, sema, os, seen, calls>>

\* semrelease after the decrement that left one reference.
SemRelease(g) == /\ pc[g] = "release"
                 /\ sema' = sema + 1
                 /\ Goto(g, "idle")
                 /\ UNCHANGED <<refs, fd, os, seen, calls>>

\* The swap of the number for ^uint32(0) after the decrement to zero.
SwapFD(g) == /\ pc[g] \in {"swap", "swapInternal"}
             /\ fd' = "dead"
             /\ Goto(g, IF fd = "dead" /\ pc[g] = "swap" THEN "panic" ELSE "idle")
             /\ UNCHANGED <<refs, sema, os, seen, calls>>

\* ClosingIncRef returns false: somebody else closed the file.
ClosingRefused(g) ==
    /\ IsClosed(refs)
    /\ \/ StartCall(g) /\ UNCHANGED pc
       \/ pc[g] = "reload" /\ Goto(g, "idle") /\ UNCHANGED calls
    /\ UNCHANGED <<refs, fd, sema, os, seen>>

\* The load of ClosingIncRef, for the first time or again after a lost CAS.
ClosingLoad(g) ==
    /\ ~IsClosed(refs)
    /\ \/ StartCall(g)
       \/ pc[g] = "reload" /\ UNCHANGED calls
    /\ seen' = [seen EXCEPT ![g] = refs]
    /\ Goto(g, "cas")
    /\ UNCHANGED <<refs, fd, sema, os>>

\* The compare-and-swap of ClosingIncRef.
BlindSwap(g) ==
    /\ pc[g] = "cas"
    /\ refs' = IF IsClosed(refs) THEN refs + 1 ELSE FlagClosed + refs + 1
    /\ Goto(g, IF g \in Hasty THEN "locked" ELSE "marked")
    /\ UNCHANGED <<fd, sema, os, seen, calls>>
ClosingCAS(g) ==
    /\ pc[g] = "cas"
    /\ \/ /\ refs = seen[g]
          /\ refs' = FlagClosed + Incremented(refs)
          /\ Goto(g, IF g \in Hasty THEN "locked" ELSE "marked")
       \/ /\ refs # seen[g]
          /\ Goto(g, "reload")
          /\ UNCHANGED refs
    /\ UNCHANGED <<fd, sema, os, seen, calls>>

\* Lock after its load: others hold references, so wait for the last one.
LockOffByOne(r) == IF Left(r) > 2 THEN "wait" ELSE "locked"
AfterLock(r) == IF ~IsClosed(r) THEN "panic"
                ELSE IF Left(r) > 1 THEN "wait" ELSE "locked"

\* The load of Lock.
Lock(g) == /\ pc[g] = "marked"
           /\ Goto(g, AfterLock(refs))
           /\ UNCHANGED <<refs, fd, sema, os, seen, calls>>

\* semacquire of Lock.
SemTry(g) == /\ pc[g] = "wait"
             /\ sema' = sema - 1
             /\ Goto(g, "locked")
             /\ UNCHANGED <<refs, fd, os, seen, calls>>
SemAcquire(g) == /\ pc[g] = "wait"
                 /\ sema > 0
                 /\ sema' = sema - 1
                 /\ Goto(g, "locked")
                 /\ UNCHANGED <<refs, fd, os, seen, calls>>

\* The caller's unix.Close(fd.FD()).
OSClose(g) == /\ pc[g] = "locked"
              /\ Goto(g, IF fd = "dead" THEN "panic" ELSE "shut")
              /\ os' = IF fd = "dead" THEN os ELSE "closed"
              /\ UNCHANGED <<refs, fd, sema, seen, calls>>

\* Everything a goroutine does without deciding to: the rest of a call it has
\* started, and the release of a reference it holds.
Continue(g) == \/ DecRef(g)
               \/ SemRelease(g)
               \/ SwapFD(g)
               \/ pc[g] = "reload" /\ (ClosingRefused(g) \/ ClosingLoad(g))
               \/ ClosingCAS(g)
               \/ Lock(g)
               \/ SemAcquire(g)
               \/ OSClose(g)

Next == \E g \in Goroutine : \/ IncRef(g)
                             \/ UseFD(g)
                             \/ ClosingRefused(g)
                             \/ ClosingLoad(g)
                             \/ Continue(g)

Spec == Init /\ [][Next]_vars

\* The Go scheduler runs every goroutine that can run, and the callers drop
\* the references they take (all of them by defer).
FairSpec == Spec /\ \A g \in Goroutine : WF_vars(Continue(g))
-----------------------------------------------------------------------------
Labels == {"idle", "held", "undo", "release", "swap", "swapInternal", "reload",
           "cas", "marked", "wait", "locked", "shut", "panic"}

\* The labels at which a goroutine accounts for one unit of refs.
Counted == {"held", "undo", "marked", "wait", "locked", "shut"}

\* The labels of the goroutine whose ClosingIncRef returned true.
Closing == {"marked", "wait", "locked", "shut"}

Holders == {g \in Goroutine : pc[g] = "held"}

\* The type invariant of the counter, the number, the semaphore and the
\* program counters of fd.go.
TypeOK == /\ refs \in 0 .. 2 * FlagClosed - 1
          /\ fd \in {"live", "dead"}
          /\ sema \in Nat
          /\ os \in {"open", "closed"}
          /\ seen \in [Goroutine -> 0 .. 2 * FlagClosed - 1]
          /\ pc \in [Goroutine -> Labels]
          /\ calls \in [Goroutine -> 0 .. MaxCalls]

\* "It's too easy to close a file descriptor with lingering references": a
\* goroutine between a successful IncRef and its DecRef never sees the OS file
\* closed under it.  This needs every closer to Lock (Hasty is empty).
NoUseAfterClose == Holders # {} => os = "open"

\* The "file descriptor misuse" panic of FD() is out of reach of guarded
\* callers, hasty closers included: the number outlives every reference, the
\* closer's own until its DecRef too.
NumberOutlivesRefs ==
    (\E g \in Goroutine : pc[g] \in Closing \cup {"held"}) => fd = "live"

\* ClosingIncRef elects at most one closer for the whole life of the FD, so the
\* OS number is passed to close(2) once and never after it may be recycled.
OneCloser ==
    /\ \A g, h \in Goroutine : pc[g] \in Closing /\ pc[h] \in Closing => g = h
    /\ os = "closed" => \A g \in Goroutine : pc[g] \in Closing => pc[g] = "shut"

\* Once every call has returned, the count is balanced: zero references, and
\* the number is scrubbed exactly when the FD was closed.
SettledFD ==
    (\A g \in Goroutine : pc[g] = "idle") =>
        /\ Left(refs) = 0
        /\ fd = "dead" <=> IsClosed(refs)
        /\ os = "closed" <=> IsClosed(refs)

\* fd_test.go counts the entries when the closer gets in and again at the end:
\* nobody takes a reference after ClosingIncRef marked the FD.
NoEntryAfterMark ==
    [][IsClosed(refs) => {g \in Goroutine : pc'[g] = "held"} \subseteq Holders]_vars

\* Lock never sleeps through the release it waits for: a closer that waits for
\* the semaphore gets it after the last holder leaves.
LockReturns == \A g \in Goroutine : pc[g] = "wait" ~> pc[g] = "locked"

\* Why it cannot: while a closer sleeps there is a token for it, or somebody
\* whose next decrement or release brings one.
NoLostWakeup ==
    \A g \in Goroutine : pc[g] = "wait" =>
        sema > 0 \/ \E h \in Goroutine : pc[h] \in {"held", "undo", "release"}

\* decRef panics with "invalid closed file descriptor state: found fd=-1 in
\* DecRef to zero" when a DecRef, not an internal undo, finds the number already
\* swapped out: the code takes that state for impossible.
DecRefFindsNumber == \A g \in Goroutine : pc[g] = "swap" => fd = "live"

\* The file as its callers see it: GuardedFile is implemented by fd.go.
Gate == INSTANCE GuardedFile
            WITH inside <- Holders,
                 phase <- IF os = "closed" THEN "closed"
                          ELSE IF IsClosed(refs) THEN "closing" ELSE "open"

\* Every step of fd.go, with closers that Lock, is a step of GuardedFile or a
\* stutter, and the file is closed when the holders have left.
ImplementsGuardedFile == Gate!AFairSpec
=============================================================================
