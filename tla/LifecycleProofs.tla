-------------------------- MODULE LifecycleProofs --------------------------
(***************************************************************************)
(* What Lifecycle keeps for any number of processes and handlers: who      *)
(* holds Process.mu, that nobody changes the socket map while cleanup      *)
(* ranges over it, that the pidfd is not closed under a poll, who goes on  *)
(* while somebody has the lock, and that cleanup leaves no socket open of  *)
(* a process that has not asked to exit.                                   *)
(***************************************************************************)
EXTENDS Lifecycle, FiniteSetTheorems, TLAPS

Reads == {"select", "close"}
HandlerPlaces == {"idle", "get", "find", "inside", "lock", "write", "closing", "rlock", "select",
                  "close", "panic", "done"}
WaitPlaces == {"idle", "poll", "polling", "rlock", "select", "close", "forget", "failed", "panic", "done"}

Types == /\ alive \in [Proc -> {"unborn", "running", "dead"}]
         /\ table \subseteq Proc /\ over \in BOOLEAN
         /\ exited \in [Proc -> BOOLEAN]
         /\ pidfd \in [Proc -> {"open", "closing", "closed"}]
         /\ cleaner \in [Proc -> {"none", "start", "sockets", "closing", "drain", "done"}]
         /\ sockets \in [Proc -> SUBSET Sock]
         /\ sock \in [Sock -> {"none", "open", "closing", "closed"}]
         /\ at \in [Handler -> Sock \cup {None}]
         /\ mu \in [Proc -> [readers : Nat, writer : Handler \cup {None}]]
         /\ req \in [Handler -> [proc : Proc, op : Ops \cup {"none"}]]

Places == /\ pc \in [Actor -> HandlerPlaces \cup WaitPlaces]
          /\ \A h \in Handler : pc[h] \in HandlerPlaces /\ (pc[h] # "idle" => req[h].op \in Ops)
          /\ \A p \in Proc : pc[p] \in WaitPlaces

\* The writer of a mutex is the handler that waits for it or has it.
Held == /\ \A p \in Proc : mu[p].writer # None => pc[mu[p].writer] = "write" /\ Of(mu[p].writer) = p
        /\ \A h \in Handler : pc[h] = "write" => mu[Of(h)].writer = h

\* The readers are those who mark the process, and cleanup.
Readers(p) == {a \in Actor : Of(a) = p /\ pc[a] \in Reads}
Cleaning(p) == IF cleaner[p] \in {"sockets", "closing", "drain"} THEN 1 ELSE 0
Counted == \A p \in Proc : /\ IsFiniteSet(Readers(p))
                           /\ mu[p].readers = Cardinality(Readers(p)) + Cleaning(p)

\* A process with a Wait goroutine at work is in the table.
Known == \A p \in Proc : pc[p] \notin {"idle", "done"} => p \in table

\* Cleanup has begun where the process is marked, and only there.
Marked == \A p \in Proc : cleaner[p] = "none" <=> ~exited[p]

LifeInv == Types /\ Places /\ Held /\ Counted /\ Known /\ Marked /\ PollSafe
-----------------------------------------------------------------------------
(* Locks.                                                                   *)

\* The kinds of actors.
LEMMA Kinds ==
  /\ Handler \subseteq Actor /\ Proc \subseteq Actor /\ Sock = Actor
  /\ \A h \in Handler : h \notin Proc /\ Of(h) = req[h].proc /\ h # None
  /\ \A p \in Proc : Of(p) = p
  /\ \A a \in Actor : a \in Handler \/ a \in Proc
  BY LifecycleAssumption DEF Actor, Of, Sock

LEMMA OfProc ==
  ASSUME Types, NEW a \in Actor
  PROVE  Of(a) \in Proc
  <1>1. CASE a \in Proc
    BY <1>1, Kinds
  <1>2. CASE a \in Handler
    <2>1. req[a] \in [proc : Proc, op : Ops \cup {"none"}]
      BY <1>2 DEF Types
    <2> QED
      BY <1>2, <2>1, Kinds
  <1> QED
    BY <1>1, <1>2, Kinds

LEMMA Initially == Init => LifeInv
  <1> SUFFICES ASSUME Init PROVE LifeInv
    OBVIOUS
  <1>1. Types
    <2>1. over \in BOOLEAN /\ exited \in [Proc -> BOOLEAN]
      BY DEF Init
    <2>2. /\ alive \in [Proc -> {"unborn", "running", "dead"}] /\ table \subseteq Proc
          /\ pidfd \in [Proc -> {"open", "closing", "closed"}]
          /\ cleaner \in [Proc -> {"none", "start", "sockets", "closing", "drain", "done"}]
          /\ sockets \in [Proc -> SUBSET Sock]
          /\ sock \in [Sock -> {"none", "open", "closing", "closed"}]
          /\ at \in [Handler -> Sock \cup {None}]
      BY LifecycleAssumption DEF Init
    <2>3. mu \in [Proc -> [readers : Nat, writer : Handler \cup {None}]]
      BY DEF Init
    <2>4. req \in [Handler -> [proc : Proc, op : Ops \cup {"none"}]]
      BY LifecycleAssumption DEF Init
    <2> QED
      BY <2>1, <2>2, <2>3, <2>4 DEF Types
  <1>2. \A a \in Actor : pc[a] = IF a = First THEN "poll" ELSE "idle"
    BY DEF Init
  <1>3. Places
    BY <1>2, Kinds, LifecycleAssumption DEF Init, Places, HandlerPlaces, WaitPlaces
  <1>4. Held
    BY <1>2, Kinds DEF Init, Held
  <1>5. Counted
    <2> SUFFICES ASSUME NEW p \in Proc
                 PROVE  IsFiniteSet(Readers(p)) /\ mu[p].readers = Cardinality(Readers(p)) + Cleaning(p)
      BY DEF Counted
    <2>1. Readers(p) = {}
      BY <1>2 DEF Readers, Reads
    <2>2. mu[p].readers = 0 /\ Cleaning(p) = 0
      BY DEF Init, Cleaning
    <2> QED
      BY <2>1, <2>2, FS_EmptySet
  <1>6. Known
    BY <1>2, Kinds DEF Init, Known
  <1>7. PollSafe
    BY <1>2, Kinds DEF Init, PollSafe
  <1>8. Marked
    BY DEF Init, Marked
  <1> QED
    BY <1>1, <1>3, <1>4, <1>5, <1>6, <1>7, <1>8 DEF LifeInv

\* RLock and RUnlock.
LEMMA ReadLocks ==
  ASSUME Types, NEW p \in Proc, RLock(p) \/ (RUnlock(p) /\ mu[p].readers > 0)
  PROVE  /\ mu' \in [Proc -> [readers : Nat, writer : Handler \cup {None}]]
         /\ \A q \in Proc : /\ mu'[q].writer = mu[q].writer
                            /\ q # p => mu'[q].readers = mu[q].readers
         /\ RLock(p) => mu'[p].readers = mu[p].readers + 1 /\ mu[p].writer = None
         /\ RUnlock(p) => mu'[p].readers = mu[p].readers - 1
  <1>1. mu[p] \in [readers : Nat, writer : Handler \cup {None}]
    BY DEF Types
  <1>2. CASE RLock(p)
    <2>1. mu' = [mu EXCEPT ![p] = [mu[p] EXCEPT !.readers = mu[p].readers + 1]] /\ mu[p].writer = None
      BY <1>2 DEF RLock
    <2>2. /\ [mu[p] EXCEPT !.readers = mu[p].readers + 1] \in [readers : Nat, writer : Handler \cup {None}]
          /\ [mu[p] EXCEPT !.readers = mu[p].readers + 1].writer = mu[p].writer
          /\ [mu[p] EXCEPT !.readers = mu[p].readers + 1].readers = mu[p].readers + 1
      BY <1>1
    <2>3. ~RUnlock(p)
      BY <2>1, <1>1 DEF RUnlock, Types
    <2> QED
      BY <1>2, <2>1, <2>2, <2>3 DEF Types
  <1>3. CASE RUnlock(p) /\ mu[p].readers > 0
    <2>1. mu' = [mu EXCEPT ![p] = [mu[p] EXCEPT !.readers = mu[p].readers - 1]]
      BY <1>3 DEF RUnlock
    <2>2. /\ [mu[p] EXCEPT !.readers = mu[p].readers - 1] \in [readers : Nat, writer : Handler \cup {None}]
          /\ [mu[p] EXCEPT !.readers = mu[p].readers - 1].writer = mu[p].writer
          /\ [mu[p] EXCEPT !.readers = mu[p].readers - 1].readers = mu[p].readers - 1
      BY <1>1, <1>3
    <2>3. ~RLock(p)
      BY <2>1, <1>1 DEF RLock, Types
    <2> QED
      BY <1>3, <2>1, <2>2, <2>3 DEF Types
  <1> QED
    BY <1>2, <1>3

\* The writer of p changes, its readers do not.
LEMMA WriteLocks ==
  ASSUME Types, NEW p \in Proc, NEW w \in Handler \cup {None}, mu' = [mu EXCEPT ![p].writer = w]
  PROVE  /\ mu' \in [Proc -> [readers : Nat, writer : Handler \cup {None}]]
         /\ mu'[p].writer = w
         /\ \A q \in Proc : /\ mu'[q].readers = mu[q].readers
                            /\ q # p => mu'[q].writer = mu[q].writer
  <1>1. mu[p] \in [readers : Nat, writer : Handler \cup {None}]
    BY DEF Types
  <1>2. mu' = [mu EXCEPT ![p] = [mu[p] EXCEPT !.writer = w]]
    OBVIOUS
  <1>3. /\ [mu[p] EXCEPT !.writer = w] \in [readers : Nat, writer : Handler \cup {None}]
        /\ [mu[p] EXCEPT !.writer = w].writer = w
        /\ [mu[p] EXCEPT !.writer = w].readers = mu[p].readers
    BY <1>1
  <1> QED
    BY <1>2, <1>3 DEF Types
-----------------------------------------------------------------------------
(* Frames.                                                                  *)

\* An actor goes to another of its places.
LEMMA Moves ==
  ASSUME LifeInv, NEW a \in Actor, NEW l, pc' = [pc EXCEPT ![a] = l], UNCHANGED req,
         a \in Handler => l \in HandlerPlaces /\ pc[a] # "idle",
         a \in Proc => l \in WaitPlaces
  PROVE  /\ Places'
         /\ pc'[a] = l /\ \A b \in Actor : b # a => pc'[b] = pc[b]
         /\ \A b \in Actor : Of(b)' = Of(b)
  <1>1. pc'[a] = l /\ \A b \in Actor : b # a => pc'[b] = pc[b]
    BY DEF LifeInv, Places
  <1>2. pc' \in [Actor -> HandlerPlaces \cup WaitPlaces]
    BY Kinds DEF LifeInv, Places
  <1>3. \A h \in Handler : pc'[h] \in HandlerPlaces /\ (pc'[h] # "idle" => req[h].op \in Ops)
    BY <1>1, Kinds DEF LifeInv, Places
  <1>4. \A p \in Proc : pc'[p] \in WaitPlaces
    BY <1>1, Kinds DEF LifeInv, Places
  <1>5. \A b \in Actor : Of(b)' = Of(b)
    BY DEF Of
  <1> QED
    BY <1>1, <1>2, <1>3, <1>4, <1>5 DEF Places

\* Nobody begins or ends to read.
LEMMA CountedKept ==
  ASSUME LifeInv,
         \A q \in Proc : mu'[q].readers = mu[q].readers /\ Cleaning(q)' = Cleaning(q),
         \A b \in Actor : pc'[b] \in Reads <=> pc[b] \in Reads,
         \A b \in Actor : pc[b] \in Reads => Of(b)' = Of(b)
  PROVE  Counted'
  <1> SUFFICES ASSUME NEW p \in Proc
               PROVE  /\ IsFiniteSet(Readers(p)')
                      /\ mu'[p].readers = Cardinality(Readers(p)') + Cleaning(p)'
    BY DEF Counted
  <1>1. Readers(p)' = Readers(p)
    BY DEF Readers
  <1> QED
    BY <1>1 DEF LifeInv, Counted

\* Nobody begins or ends to write.
LEMMA HeldKept ==
  ASSUME LifeInv,
         \A q \in Proc : mu'[q].writer = mu[q].writer,
         \A h \in Handler : pc'[h] = "write" <=> pc[h] = "write",
         \A h \in Handler : pc[h] = "write" => Of(h)' = Of(h)
  PROVE  Held'
  <1>1. ASSUME NEW p \in Proc, mu'[p].writer # None
        PROVE  (pc[mu[p].writer] = "write" /\ Of(mu[p].writer) = p)'
    <2>1. mu[p] \in [readers : Nat, writer : Handler \cup {None}] /\ mu[p].writer # None
      BY <1>1 DEF LifeInv, Types
    <2>2. PICK h \in Handler : mu[p].writer = h
      BY <2>1
    <2>3. pc[h] = "write" /\ Of(h) = p /\ mu'[p].writer = h
      BY <2>1, <2>2 DEF LifeInv, Held
    <2>4. pc'[h] = "write" /\ Of(h)' = p
      BY <2>3
    <2> QED
      BY <2>3, <2>4 DEF Of
  <1>2. ASSUME NEW h \in Handler, pc'[h] = "write"
        PROVE  (mu[Of(h)].writer = h)'
    <2>1. Of(h) \in Proc
      BY OfProc, Kinds DEF LifeInv
    <2>2. pc[h] = "write" /\ Of(h)' = Of(h) /\ mu[Of(h)].writer = h
      BY <1>2 DEF LifeInv, Held
    <2> QED
      BY <2>1, <2>2
  <1> QED
    BY <1>1, <1>2 DEF Held
-----------------------------------------------------------------------------
(* The kernel.                                                              *)

LEMMA KernelStep ==
  ASSUME LifeInv, NEW p \in Proc, NEW q \in Proc, Fork(p, q) \/ Die(p)
  PROVE  LifeInv'
  <1>1. /\ alive' \in [Proc -> {"unborn", "running", "dead"}]
        /\ UNCHANGED <<table, over, pc, req, mu, exited, pidfd, cleaner, sockets, sock, at>>
    BY DEF Fork, Die, LifeInv, Types
  <1>2. Types' /\ Places'
    BY <1>1 DEF LifeInv, Types, Places
  <1>3. Held' /\ Counted'
    BY <1>1 DEF LifeInv, Held, Counted, Of, Readers, Cleaning
  <1>4. Known' /\ Marked' /\ PollSafe'
    BY <1>1 DEF LifeInv, Known, Marked, PollSafe
  <1> QED
    BY <1>2, <1>3, <1>4 DEF LifeInv

LEMMA NotifyStep ==
  ASSUME LifeInv, NEW h \in Handler, Notify(h)
  PROVE  LifeInv'
  <1>1. PICK p \in Proc, o \in Ops : req' = [req EXCEPT ![h] = [proc |-> p, op |-> o]]
    BY DEF Notify
  <1>2. /\ pc[h] = "idle" /\ pc' = [pc EXCEPT ![h] = "get"]
        /\ UNCHANGED <<alive, table, over, mu, exited, pidfd, cleaner, sockets, sock, at>>
    BY DEF Notify, Goto
  <1>3. /\ req' \in [Handler -> [proc : Proc, op : Ops \cup {"none"}]]
        /\ req'[h].op \in Ops
        /\ \A g \in Handler : g # h => req'[g] = req[g]
    BY <1>1 DEF LifeInv, Types
  <1>4. pc'[h] = "get" /\ \A b \in Actor : b # h => pc'[b] = pc[b]
    BY <1>2, Kinds DEF LifeInv, Places
  <1>5. Types'
    BY <1>2, <1>3 DEF LifeInv, Types
  <1>6. Places'
    <2>1. pc' \in [Actor -> HandlerPlaces \cup WaitPlaces]
      BY <1>2, Kinds DEF LifeInv, Places, HandlerPlaces
    <2>2. \A g \in Handler : pc'[g] \in HandlerPlaces /\ (pc'[g] # "idle" => req'[g].op \in Ops)
      BY <1>3, <1>4, Kinds DEF LifeInv, Places, HandlerPlaces
    <2>3. \A q \in Proc : pc'[q] \in WaitPlaces
      BY <1>4, Kinds DEF LifeInv, Places
    <2> QED
      BY <2>1, <2>2, <2>3 DEF Places
  <1>7. \A b \in Actor : b # h => Of(b)' = Of(b)
    BY <1>3, Kinds DEF Of
  <1>8. Counted'
    <2>1. \A q \in Proc : mu'[q].readers = mu[q].readers /\ Cleaning(q)' = Cleaning(q)
      BY <1>2 DEF Cleaning
    <2>2. \A b \in Actor : pc'[b] \in Reads <=> pc[b] \in Reads
      BY <1>2, <1>4 DEF Reads
    <2>3. \A b \in Actor : pc[b] \in Reads => Of(b)' = Of(b)
      BY <1>2, <1>7 DEF Reads
    <2> QED
      BY <2>1, <2>2, <2>3, CountedKept
  <1>9. Held'
    <2>1. \A g \in Handler : pc'[g] = "write" <=> pc[g] = "write"
      BY <1>2, <1>4, Kinds
    <2>2. \A g \in Handler : pc[g] = "write" => Of(g)' = Of(g)
      BY <1>2, <1>7, Kinds
    <2> QED
      BY <1>2, <2>1, <2>2, HeldKept
  <1>10. Known' /\ Marked' /\ PollSafe'
    BY <1>2, <1>4, Kinds DEF LifeInv, Known, Marked, PollSafe
  <1> QED
    BY <1>5, <1>6, <1>8, <1>9, <1>10 DEF LifeInv
-----------------------------------------------------------------------------
(* Handlers.                                                                *)

\* A process that is not in the table has no Wait goroutine at work; a new
\* one begins with the poll.
LEMMA Entries ==
  ASSUME NEW o \in Ops
  PROVE  /\ Entry(o) \in {"rlock", "lock", "find"}
         /\ Entry(o) = "rlock" <=> o \in Exits
         /\ Entry(o) = "find" <=> o \in Uses
  <1>1. o \in {"exit", "exit_group", "socket", "close", "connect", "accept", "dup"}
    BY LifecycleAssumption DEF Exits, Makes, Uses
  <1> QED
    BY <1>1 DEF Entry, Exits, Uses

\* An import gives a process one socket, of its own name.
LEMMA Imports ==
  ASSUME Types, NEW p \in Proc, Import(p)
  PROVE  /\ sockets' \in [Proc -> SUBSET Sock]
         /\ sock' \in [Sock -> {"none", "open", "closing", "closed"}]
         /\ \A q \in Proc : sockets'[q] = sockets[q] \/ (q = p /\ sockets'[p] = sockets[p] \cup {p})
         /\ \A s \in Sock : sock'[s] = sock[s] \/ s = p
  <1>1. CASE UNCHANGED <<sockets, sock>>
    BY <1>1 DEF Types
  <1>2. CASE /\ sockets' = [sockets EXCEPT ![p] = sockets[p] \cup {p}]
             /\ sock' = [sock EXCEPT ![p] = "open"]
    <2>1. sockets[p] \cup {p} \in SUBSET Sock
      BY Kinds DEF Types
    <2> QED
      BY <1>2, <2>1, Kinds DEF Types
  <1> QED
    BY <1>1, <1>2 DEF Import

LEMMA GetProcessStep ==
  ASSUME LifeInv, NEW h \in Handler, GetProcess(h)
  PROVE  LifeInv'
  <1> DEFINE p == Of(h)
             e == Entry(req[h].op)
  <1>1. /\ pc[h] = "get"
        /\ UNCHANGED <<alive, over, req, mu, exited, pidfd, cleaner, at>>
    BY DEF GetProcess
  <1>2. p \in Proc /\ h \in Actor /\ h \notin Proc /\ p \in Actor
    BY OfProc, Kinds DEF LifeInv
  <1>3. e \in {"rlock", "lock", "find"}
    <2>1. req[h].op \in Ops
      BY <1>1 DEF LifeInv, Places
    <2> QED
      BY <2>1, Entries
  <1>4. \/ /\ \E l \in {"rlock", "lock", "find", "panic"} : pc' = [pc EXCEPT ![h] = l]
           /\ table' = table /\ UNCHANGED <<sockets, sock>>
        \/ /\ p \notin table /\ table' = table \cup {p}
           /\ pc' = [pc EXCEPT ![h] = e, ![p] = "poll"]
           /\ Import(p)
    BY <1>3 DEF GetProcess, Goto
  <1> HIDE DEF e
  <1>5. p \notin table => pc[p] \in {"idle", "done"}
    BY <1>2 DEF LifeInv, Known
  <1> HIDE DEF p
  <1>6. /\ pc' \in [Actor -> HandlerPlaces \cup WaitPlaces]
        /\ pc'[h] \in {"rlock", "lock", "find", "panic"}
        /\ \A b \in Actor : b # h => \/ pc'[b] = pc[b]
                                    \/ /\ b = p /\ pc[b] \in {"idle", "done"} /\ pc'[b] = "poll"
                                       /\ b \in table'
    <2>1. CASE \E l \in {"rlock", "lock", "find", "panic"} : pc' = [pc EXCEPT ![h] = l]
      BY <2>1, <1>2 DEF LifeInv, Places, HandlerPlaces
    <2>2. CASE p \notin table /\ table' = table \cup {p} /\ pc' = [pc EXCEPT ![h] = e, ![p] = "poll"]
      <3>1. pc \in [Actor -> HandlerPlaces \cup WaitPlaces] /\ h # p
        BY <1>2 DEF LifeInv, Places
      <3>2. {"rlock", "lock", "find", "poll"} \subseteq HandlerPlaces \cup WaitPlaces
        BY DEF HandlerPlaces, WaitPlaces
      <3>3. pc' \in [Actor -> HandlerPlaces \cup WaitPlaces]
        BY <2>2, <3>1, <3>2, <1>2, <1>3
      <3>4. pc'[h] = e /\ pc'[p] = "poll" /\ \A b \in Actor : b # h /\ b # p => pc'[b] = pc[b]
        BY <2>2, <3>1, <1>2
      <3> QED
        BY <2>2, <3>3, <3>4, <1>2, <1>3, <1>5
    <2> QED
      BY <2>1, <2>2, <1>4
  <1>7. /\ sock' \in [Sock -> {"none", "open", "closing", "closed"}]
        /\ sockets' \in [Proc -> SUBSET Sock]
        /\ table' \subseteq Proc /\ table \subseteq table'
    <2>1. CASE UNCHANGED <<sockets, sock>> /\ table' = table
      BY <2>1 DEF LifeInv, Types
    <2>2. CASE Import(p) /\ table' = table \cup {p}
      BY <2>2, <1>2, Imports DEF LifeInv, Types
    <2> QED
      BY <2>1, <2>2, <1>4
  <1>8. Types'
    BY <1>1, <1>7 DEF LifeInv, Types
  <1>9. Places'
    BY <1>1, <1>2, <1>6, Kinds DEF LifeInv, Places, HandlerPlaces, WaitPlaces
  <1>10. \A b \in Actor : Of(b)' = Of(b)
    BY <1>1 DEF Of
  <1>11. Counted'
    <2>1. \A q \in Proc : mu'[q].readers = mu[q].readers /\ Cleaning(q)' = Cleaning(q)
      BY <1>1 DEF Cleaning
    <2>2. \A b \in Actor : pc'[b] \in Reads <=> pc[b] \in Reads
      BY <1>1, <1>6 DEF Reads
    <2> QED
      BY <2>1, <2>2, <1>10, CountedKept
  <1>12. Held'
    <2>1. \A g \in Handler : pc'[g] = "write" <=> pc[g] = "write"
      BY <1>1, <1>6, Kinds
    <2> QED
      BY <1>1, <1>10, <2>1, HeldKept, Kinds
  <1>13. Known'
    <2> SUFFICES ASSUME NEW q \in Proc, pc'[q] \notin {"idle", "done"} PROVE q \in table'
      BY DEF Known
    <2>1. CASE pc'[q] = pc[q]
      BY <2>1, <1>7 DEF LifeInv, Known
    <2>2. CASE pc'[q] # pc[q]
      BY <2>2, <1>2, <1>6, Kinds
    <2> QED
      BY <2>1, <2>2
  <1>14. Marked' /\ PollSafe'
    BY <1>1, <1>2, <1>6, Kinds DEF LifeInv, Marked, PollSafe
  <1> QED
    BY <1>8, <1>9, <1>11, <1>12, <1>13, <1>14 DEF LifeInv

LEMMA WLockStep ==
  ASSUME LifeInv, NEW h \in Handler, WLock(h)
  PROVE  LifeInv'
  <1> DEFINE p == Of(h)
  <1>1. /\ pc[h] = "lock" /\ pc' = [pc EXCEPT ![h] = "write"]
        /\ mu[p].writer = None /\ mu' = [mu EXCEPT ![p].writer = h]
        /\ UNCHANGED <<alive, table, over, req, exited, pidfd, cleaner, sockets, sock, at>>
    BY DEF WLock, Goto
  <1>2. p \in Proc /\ h \in Actor /\ h \notin Proc /\ h # None
    BY OfProc, Kinds DEF LifeInv
  <1>3. Of(h) = p
    OBVIOUS
  <1> HIDE DEF p
  <1>4. /\ mu' \in [Proc -> [readers : Nat, writer : Handler \cup {None}]]
        /\ mu'[p].writer = h
        /\ \A q \in Proc : mu'[q].readers = mu[q].readers /\ (q # p => mu'[q].writer = mu[q].writer)
    BY <1>1, <1>2, WriteLocks DEF LifeInv
  <1>5. /\ Places'
        /\ pc'[h] = "write" /\ \A b \in Actor : b # h => pc'[b] = pc[b]
        /\ \A b \in Actor : Of(b)' = Of(b)
    BY <1>1, <1>2, Moves DEF HandlerPlaces
  <1>6. Types'
    BY <1>1, <1>4 DEF LifeInv, Types
  <1>7. Counted'
    <2>1. \A q \in Proc : mu'[q].readers = mu[q].readers /\ Cleaning(q)' = Cleaning(q)
      BY <1>1, <1>4 DEF Cleaning
    <2>2. \A b \in Actor : pc'[b] \in Reads <=> pc[b] \in Reads
      BY <1>1, <1>5 DEF Reads
    <2> QED
      BY <2>1, <2>2, <1>5, CountedKept
  <1>8. Held'
    <2>1. ASSUME NEW q \in Proc, mu'[q].writer # None
          PROVE  (pc[mu[q].writer] = "write" /\ Of(mu[q].writer) = q)'
      <3>1. CASE q = p
        <4>1. mu'[q].writer = h /\ pc'[h] = "write" /\ Of(h)' = q
          BY <3>1, <1>2, <1>3, <1>4, <1>5
        <4> QED
          BY <4>1 DEF Of
      <3>2. CASE q # p
        <4>1. mu[q] \in [readers : Nat, writer : Handler \cup {None}] /\ mu'[q].writer = mu[q].writer
          BY <3>2, <1>4 DEF LifeInv, Types
        <4>2. PICK g \in Handler : mu[q].writer = g
          BY <4>1, <2>1
        <4>3. pc[g] = "write" /\ Of(g) = q /\ mu'[q].writer = g
          BY <2>1, <4>1, <4>2 DEF LifeInv, Held
        <4>4. pc'[g] = "write" /\ Of(g)' = q
          BY <4>3, <1>1, <1>5, Kinds
        <4> QED
          BY <4>3, <4>4 DEF Of
      <3> QED
        BY <3>1, <3>2
    <2>2. ASSUME NEW g \in Handler, pc'[g] = "write"
          PROVE  (mu[Of(g)].writer = g)'
      <3>1. Of(g) \in Proc /\ Of(g)' = Of(g) /\ g \in Actor
        BY <1>5, OfProc, Kinds DEF LifeInv
      <3>2. CASE g = h
        BY <3>1, <3>2, <1>3, <1>4
      <3>3. CASE g # h
        <4>1. pc[g] = "write" /\ mu[Of(g)].writer = g
          BY <2>2, <3>1, <3>3, <1>5 DEF LifeInv, Held
        <4>2. g # None
          BY Kinds
        <4>3. Of(g) # p
          BY <1>1, <4>1, <4>2
        <4> QED
          BY <3>1, <4>1, <4>3, <1>4
      <3> QED
        BY <3>2, <3>3
    <2> QED
      BY <2>1, <2>2 DEF Held
  <1>9. Known' /\ Marked' /\ PollSafe'
    BY <1>1, <1>2, <1>5, Kinds DEF LifeInv, Known, Marked, PollSafe
  <1> QED
    BY <1>5, <1>6, <1>7, <1>8, <1>9 DEF LifeInv

\* What the writers do to the map: at most one socket enters it, that of an
\* installer, and at most one leaves it, which is marked.
LEMMA MapWrites ==
  ASSUME Types, NEW h \in Handler, InstallSocket(h) \/ DeleteSocket(h)
  PROVE  /\ sockets' \in [Proc -> SUBSET Sock]
         /\ sock' \in [Sock -> {"none", "open", "closing", "closed"}]
         /\ at' \in [Handler -> Sock \cup {None}]
         /\ \A g \in Handler : g # h => at'[g] = at[g]
         /\ \A q \in Proc : q # Of(h) => sockets'[q] = sockets[q]
         /\ InstallSocket(h) =>
               /\ sockets'[Of(h)] \subseteq sockets[Of(h)] \cup {h}
               /\ h \in sockets'[Of(h)] => h \in sockets[Of(h)] \/ alive[Of(h)] = "running"
               /\ \A s \in Sock : s # h => sock'[s] = sock[s]
               /\ at'[h] = None /\ pc' = [pc EXCEPT ![h] = "done"]
         /\ DeleteSocket(h) =>
               /\ sockets'[Of(h)] \subseteq sockets[Of(h)]
               /\ \/ UNCHANGED <<sock, at>> /\ pc' = [pc EXCEPT ![h] = "done"]
                  \/ \E s \in sockets[Of(h)] :
                        /\ sock[s] = "open" /\ sock' = [sock EXCEPT ![s] = "closing"]
                        /\ at' = [at EXCEPT ![h] = s] /\ s \notin sockets'[Of(h)]
                        /\ pc' = [pc EXCEPT ![h] = "closing"]
  <1> DEFINE p == Of(h)
  <1>1. /\ p \in Proc /\ h \in Sock /\ Of(h) = p
        /\ sockets \in [Proc -> SUBSET Sock] /\ at \in [Handler -> Sock \cup {None}]
        /\ sock \in [Sock -> {"none", "open", "closing", "closed"}]
    BY OfProc, Kinds DEF Types
  <1>2. CASE InstallSocket(h)
    <2>1. /\ sock' = [sock EXCEPT ![h] = "open"]
          /\ at' = [at EXCEPT ![h] = None]
          /\ pc' = [pc EXCEPT ![h] = "done"]
          /\ req[h].op \in Makes
          /\ \/ sockets' = sockets
             \/ alive[p] = "running" /\ sockets' = [sockets EXCEPT ![p] = sockets[p] \cup {h}]
      BY <1>2 DEF InstallSocket, Goto
    <2>2. ~DeleteSocket(h)
      BY <2>1 DEF DeleteSocket, Makes
    <2> HIDE DEF p
    <2>3. sockets[p] \cup {h} \in SUBSET Sock
      BY <1>1
    <2>4. /\ sockets' \in [Proc -> SUBSET Sock]
          /\ \A q \in Proc : q # p => sockets'[q] = sockets[q]
          /\ sockets'[p] \subseteq sockets[p] \cup {h}
          /\ h \in sockets'[p] => h \in sockets[p] \/ alive[p] = "running"
      BY <1>1, <2>1, <2>3
    <2> QED
      BY <1>1, <1>2, <2>1, <2>2, <2>4
  <1>3. CASE DeleteSocket(h)
    <2>1. /\ req[h].op = "close"
          /\ \/ UNCHANGED <<sockets, sock, at>> /\ pc' = [pc EXCEPT ![h] = "done"]
             \/ \E s \in sockets[p] :
                  /\ sockets' = [sockets EXCEPT ![p] = sockets[p] \ {s}]
                  /\ IF sock[s] = "open"
                     THEN /\ sock' = [sock EXCEPT ![s] = "closing"]
                          /\ at' = [at EXCEPT ![h] = s]
                          /\ pc' = [pc EXCEPT ![h] = "closing"]
                     ELSE pc' = [pc EXCEPT ![h] = "done"] /\ UNCHANGED <<sock, at>>
      BY <1>3 DEF DeleteSocket, Goto
    <2>2. ~InstallSocket(h)
      BY <2>1 DEF InstallSocket, Makes
    <2> HIDE DEF p
    <2>3. CASE UNCHANGED <<sockets, sock, at>> /\ pc' = [pc EXCEPT ![h] = "done"]
      BY <1>1, <1>3, <2>2, <2>3
    <2>4. ASSUME NEW s \in sockets[p],
                 sockets' = [sockets EXCEPT ![p] = sockets[p] \ {s}],
                 IF sock[s] = "open"
                 THEN /\ sock' = [sock EXCEPT ![s] = "closing"]
                      /\ at' = [at EXCEPT ![h] = s]
                      /\ pc' = [pc EXCEPT ![h] = "closing"]
                 ELSE pc' = [pc EXCEPT ![h] = "done"] /\ UNCHANGED <<sock, at>>
          PROVE  /\ sockets' \in [Proc -> SUBSET Sock]
                 /\ sock' \in [Sock -> {"none", "open", "closing", "closed"}]
                 /\ at' \in [Handler -> Sock \cup {None}]
                 /\ \A g \in Handler : g # h => at'[g] = at[g]
                 /\ \A q \in Proc : q # p => sockets'[q] = sockets[q]
                 /\ sockets'[p] \subseteq sockets[p]
                 /\ \/ UNCHANGED <<sock, at>> /\ pc' = [pc EXCEPT ![h] = "done"]
                    \/ /\ sock[s] = "open" /\ sock' = [sock EXCEPT ![s] = "closing"]
                       /\ at' = [at EXCEPT ![h] = s] /\ s \notin sockets'[p]
                       /\ pc' = [pc EXCEPT ![h] = "closing"]
      <3>1. s \in Sock /\ sockets[p] \ {s} \in SUBSET Sock
        BY <1>1
      <3>2. /\ sockets' \in [Proc -> SUBSET Sock] /\ sockets'[p] = sockets[p] \ {s}
            /\ \A q \in Proc : q # p => sockets'[q] = sockets[q]
        BY <1>1, <2>4, <3>1
      <3>3. CASE sock[s] = "open"
        BY <1>1, <2>4, <3>1, <3>2, <3>3
      <3>4. CASE sock[s] # "open"
        BY <1>1, <2>4, <3>1, <3>2, <3>4
      <3> QED
        BY <3>3, <3>4
    <2> QED
      BY <1>1, <1>3, <2>1, <2>2, <2>3, <2>4
  <1> QED
    BY <1>2, <1>3

\* The writer leaves, with the map changed or not.
LEMMA UnlockStep ==
  ASSUME LifeInv, NEW h \in Handler, InstallSocket(h) \/ DeleteSocket(h)
  PROVE  LifeInv'
  <1> DEFINE p == Of(h)
  <1>1. /\ pc[h] = "write"
        /\ mu[p].writer = h /\ mu' = [mu EXCEPT ![p].writer = None]
        /\ UNCHANGED <<alive, table, over, req, exited, pidfd, cleaner>>
    BY DEF InstallSocket, DeleteSocket, Exclusive, Unlock
  <1>l. PICK l \in {"done", "closing"} : pc' = [pc EXCEPT ![h] = l]
    BY DEF InstallSocket, DeleteSocket, Goto
  <1>2. p \in Proc /\ h \in Actor /\ h \notin Proc
    BY OfProc, Kinds DEF LifeInv
  <1>3. /\ sockets' \in [Proc -> SUBSET Sock]
        /\ sock' \in [Sock -> {"none", "open", "closing", "closed"}]
        /\ at' \in [Handler -> Sock \cup {None}]
    BY MapWrites DEF LifeInv
  <1>4. Of(h) = p
    OBVIOUS
  <1> HIDE DEF p
  <1>5. /\ mu' \in [Proc -> [readers : Nat, writer : Handler \cup {None}]]
        /\ mu'[p].writer = None
        /\ \A q \in Proc : mu'[q].readers = mu[q].readers /\ (q # p => mu'[q].writer = mu[q].writer)
    BY <1>1, <1>2, WriteLocks DEF LifeInv
  <1>6. /\ Places'
        /\ pc'[h] = l /\ \A b \in Actor : b # h => pc'[b] = pc[b]
        /\ \A b \in Actor : Of(b)' = Of(b)
    BY <1>1, <1>l, <1>2, Moves DEF HandlerPlaces
  <1>7. Types'
    BY <1>1, <1>3, <1>5 DEF LifeInv, Types
  <1>8. Counted'
    <2>1. \A q \in Proc : mu'[q].readers = mu[q].readers /\ Cleaning(q)' = Cleaning(q)
      BY <1>1, <1>5 DEF Cleaning
    <2>2. \A b \in Actor : pc'[b] \in Reads <=> pc[b] \in Reads
      BY <1>1, <1>6 DEF Reads
    <2> QED
      BY <2>1, <2>2, <1>6, CountedKept
  <1>9. Held'
    <2>1. ASSUME NEW q \in Proc, mu'[q].writer # None
          PROVE  (pc[mu[q].writer] = "write" /\ Of(mu[q].writer) = q)'
      <3>1. q # p /\ mu'[q].writer = mu[q].writer /\ mu[q] \in [readers : Nat, writer : Handler \cup {None}]
        BY <2>1, <1>5 DEF LifeInv, Types
      <3>2. PICK g \in Handler : mu[q].writer = g
        BY <2>1, <3>1
      <3>3. pc[g] = "write" /\ Of(g) = q /\ mu'[q].writer = g
        BY <2>1, <3>1, <3>2 DEF LifeInv, Held
      <3>4. g # h
        BY <3>1, <3>3, <1>4
      <3>5. pc'[g] = "write" /\ Of(g)' = q
        BY <3>3, <3>4, <1>6, Kinds
      <3> QED
        BY <3>3, <3>5 DEF Of
    <2>2. ASSUME NEW g \in Handler, pc'[g] = "write"
          PROVE  (mu[Of(g)].writer = g)'
      <3>1. Of(g) \in Proc /\ Of(g)' = Of(g) /\ g # h /\ pc[g] = "write"
        BY <2>2, <1>6, OfProc, Kinds DEF LifeInv
      <3>2. mu[Of(g)].writer = g
        BY <3>1 DEF LifeInv, Held
      <3>3. Of(g) # p
        BY <3>1, <3>2, <1>1
      <3> QED
        BY <3>1, <3>2, <3>3, <1>5
    <2> QED
      BY <2>1, <2>2 DEF Held
  <1>10. Known' /\ Marked' /\ PollSafe'
    BY <1>1, <1>2, <1>6, Kinds DEF LifeInv, Known, Marked, PollSafe
  <1> QED
    BY <1>6, <1>7, <1>8, <1>9, <1>10 DEF LifeInv

\* Handlers at work on a socket hold no lock.
LEMMA InsideStep ==
  ASSUME LifeInv, NEW h \in Handler, GetSocket(h) \/ Operate(h) \/ CloseSocket(h)
  PROVE  LifeInv'
  <1>1. /\ pc[h] \in {"find", "inside", "closing"}
        /\ UNCHANGED <<alive, table, over, req, mu, exited, pidfd, cleaner, sockets>>
    BY DEF GetSocket, Operate, CloseSocket
  <1>2. PICK l \in {"inside", "lock", "done"} : pc' = [pc EXCEPT ![h] = l]
    BY DEF GetSocket, Operate, CloseSocket, Goto
  <1>3. h \in Actor /\ h \notin Proc
    BY Kinds
  <1>4. /\ sock' \in [Sock -> {"none", "open", "closing", "closed"}]
        /\ at' \in [Handler -> Sock \cup {None}]
    <2>1. /\ at \in [Handler -> Sock \cup {None}] /\ sockets \in [Proc -> SUBSET Sock]
          /\ sock \in [Sock -> {"none", "open", "closing", "closed"}] /\ Of(h) \in Proc
      BY OfProc, Kinds DEF LifeInv, Types
    <2>2. \E s \in Sock \cup {None} : at' = at \/ at' = [at EXCEPT ![h] = s]
      BY <2>1 DEF GetSocket, Operate, CloseSocket
    <2>3. sock' = sock \/ sock' = [sock EXCEPT ![at[h]] = "closed"]
      BY DEF GetSocket, Operate, CloseSocket
    <2> QED
      BY <2>1, <2>2, <2>3
  <1>5. /\ Places'
        /\ pc'[h] = l /\ \A b \in Actor : b # h => pc'[b] = pc[b]
        /\ \A b \in Actor : Of(b)' = Of(b)
    BY <1>1, <1>2, <1>3, Moves DEF HandlerPlaces
  <1>6. Types'
    BY <1>1, <1>4 DEF LifeInv, Types
  <1>7. Counted'
    <2>1. \A q \in Proc : mu'[q].readers = mu[q].readers /\ Cleaning(q)' = Cleaning(q)
      BY <1>1 DEF Cleaning
    <2>2. \A b \in Actor : pc'[b] \in Reads <=> pc[b] \in Reads
      BY <1>1, <1>5 DEF Reads
    <2> QED
      BY <2>1, <2>2, <1>5, CountedKept
  <1>8. Held'
    <2>1. \A g \in Handler : pc'[g] = "write" <=> pc[g] = "write"
      BY <1>1, <1>5, Kinds
    <2> QED
      BY <1>1, <1>5, <2>1, HeldKept, Kinds
  <1>9. Known' /\ Marked' /\ PollSafe'
    BY <1>1, <1>3, <1>5, Kinds DEF LifeInv, Known, Marked, PollSafe
  <1> QED
    BY <1>5, <1>6, <1>7, <1>8, <1>9 DEF LifeInv
-----------------------------------------------------------------------------
(* markAsExited.                                                            *)

\* One more reader.
LEMMA MarkRLockStep ==
  ASSUME LifeInv, NEW a \in Actor, MarkRLock(a)
  PROVE  LifeInv'
  <1> DEFINE p == Of(a)
  <1>1. /\ pc[a] = "rlock" /\ pc' = [pc EXCEPT ![a] = "select"] /\ RLock(p)
        /\ UNCHANGED <<alive, table, over, req, exited, pidfd, cleaner, sockets, sock, at>>
    BY DEF MarkRLock, Goto
  <1>2. p \in Proc
    BY OfProc DEF LifeInv
  <1>3. Of(a) = p
    OBVIOUS
  <1> HIDE DEF p
  <1>4. /\ mu' \in [Proc -> [readers : Nat, writer : Handler \cup {None}]]
        /\ \A q \in Proc : mu'[q].writer = mu[q].writer /\ (q # p => mu'[q].readers = mu[q].readers)
        /\ mu'[p].readers = mu[p].readers + 1
    BY <1>1, <1>2, ReadLocks DEF LifeInv
  <1>5. /\ Places'
        /\ pc'[a] = "select" /\ \A b \in Actor : b # a => pc'[b] = pc[b]
        /\ \A b \in Actor : Of(b)' = Of(b)
    BY <1>1, Moves DEF HandlerPlaces, WaitPlaces
  <1>6. Types'
    BY <1>1, <1>4 DEF LifeInv, Types
  <1>7. Held'
    <2>1. \A g \in Handler : pc'[g] = "write" <=> pc[g] = "write"
      BY <1>1, <1>5, Kinds
    <2> QED
      BY <1>4, <1>5, <2>1, HeldKept, Kinds
  <1>8. Counted'
    <2> SUFFICES ASSUME NEW q \in Proc
                 PROVE  /\ IsFiniteSet(Readers(q)')
                        /\ mu'[q].readers = Cardinality(Readers(q)') + Cleaning(q)'
      BY DEF Counted
    <2>1. /\ IsFiniteSet(Readers(q)) /\ Cleaning(q)' = Cleaning(q) /\ Cleaning(q) \in Nat
          /\ mu[q].readers = Cardinality(Readers(q)) + Cleaning(q)
      BY <1>1 DEF LifeInv, Counted, Cleaning
    <2>2. CASE q = p
      <3>1. Readers(q)' = Readers(q) \cup {a} /\ a \notin Readers(q)
        BY <2>2, <1>1, <1>3, <1>5 DEF Readers, Reads
      <3>2. IsFiniteSet(Readers(q)') /\ Cardinality(Readers(q)') = Cardinality(Readers(q)) + 1
        BY <2>1, <3>1, FS_AddElement
      <3>3. Cardinality(Readers(q)) \in Nat
        BY <2>1, FS_CardinalityType
      <3> QED
        BY <2>1, <2>2, <3>2, <3>3, <1>4
    <2>3. CASE q # p
      <3>1. Readers(q)' = Readers(q)
        BY <2>3, <1>1, <1>3, <1>5 DEF Readers, Reads
      <3> QED
        BY <2>1, <2>3, <3>1, <1>4
    <2> QED
      BY <2>2, <2>3
  <1>9. Known' /\ Marked' /\ PollSafe'
    BY <1>1, <1>5, Kinds DEF LifeInv, Known, Marked, PollSafe
  <1> QED
    BY <1>5, <1>6, <1>7, <1>8, <1>9 DEF LifeInv

\* A reader that leaves the lock goes on outside of it.
LEMMA Leaves ==
  ASSUME LifeInv, NEW a \in Actor, pc[a] \in Reads, RUnlock(Of(a)),
         NEW l, pc' = [pc EXCEPT ![a] = l],
         l \in {"done", "panic"} \/ (l = "forget" /\ a \in Proc),
         exited' \in [Proc -> BOOLEAN], Marked',
         UNCHANGED <<alive, table, over, req, pidfd, sockets, sock, at>>,
         \/ cleaner' = cleaner
         \/ cleaner' = [cleaner EXCEPT ![Of(a)] = "start"] /\ Cleaning(Of(a)) = 0
  PROVE  LifeInv'
  <1> DEFINE p == Of(a)
  <1>1. p \in Proc
    BY OfProc DEF LifeInv
  <1>2. Of(a) = p /\ RUnlock(p)
    OBVIOUS
  <1>3. /\ cleaner' \in [Proc -> {"none", "start", "sockets", "closing", "drain", "done"}]
        /\ \A q \in Proc : Cleaning(q)' = Cleaning(q)
    <2>1. CASE cleaner' = cleaner
      BY <2>1 DEF LifeInv, Types, Cleaning
    <2>2. CASE cleaner' = [cleaner EXCEPT ![p] = "start"] /\ Cleaning(p) = 0
      BY <2>2, <1>1 DEF LifeInv, Types, Cleaning
    <2> QED
      BY <2>1, <2>2
  <1> HIDE DEF p
  <1>4. /\ IsFiniteSet(Readers(p)) /\ a \in Readers(p)
        /\ mu[p].readers = Cardinality(Readers(p)) + Cleaning(p) /\ Cleaning(p) \in Nat
    BY <1>1, <1>2 DEF LifeInv, Counted, Readers, Cleaning
  <1>5. /\ IsFiniteSet(Readers(p) \ {a})
        /\ Cardinality(Readers(p) \ {a}) = Cardinality(Readers(p)) - 1
        /\ Cardinality(Readers(p)) \in Nat \ {0}
    BY <1>4, FS_RemoveElement, FS_CardinalityType, FS_EmptySet
  <1>6. mu[p].readers > 0
    BY <1>4, <1>5
  <1>7. /\ mu' \in [Proc -> [readers : Nat, writer : Handler \cup {None}]]
        /\ \A q \in Proc : mu'[q].writer = mu[q].writer /\ (q # p => mu'[q].readers = mu[q].readers)
        /\ mu'[p].readers = mu[p].readers - 1
    BY <1>1, <1>2, <1>6, ReadLocks DEF LifeInv
  <1>8. /\ Places'
        /\ pc'[a] = l /\ \A b \in Actor : b # a => pc'[b] = pc[b]
        /\ \A b \in Actor : Of(b)' = Of(b)
    BY Moves, Kinds DEF HandlerPlaces, WaitPlaces, Reads
  <1>9. Types'
    BY <1>3, <1>7 DEF LifeInv, Types
  <1>10. Held'
    <2>1. \A g \in Handler : pc'[g] = "write" <=> pc[g] = "write"
      BY <1>8, Kinds DEF Reads
    <2> QED
      BY <1>7, <1>8, <2>1, HeldKept, Kinds
  <1>11. Counted'
    <2> SUFFICES ASSUME NEW q \in Proc
                 PROVE  /\ IsFiniteSet(Readers(q)')
                        /\ mu'[q].readers = Cardinality(Readers(q)') + Cleaning(q)'
      BY DEF Counted
    <2>1. CASE q = p
      <3>1. Readers(q)' = Readers(q) \ {a}
        BY <2>1, <1>2, <1>8 DEF Readers, Reads
      <3> QED
        BY <2>1, <3>1, <1>3, <1>4, <1>5, <1>7
    <2>2. CASE q # p
      <3>1. Readers(q)' = Readers(q)
        BY <2>2, <1>2, <1>8 DEF Readers, Reads
      <3> QED
        BY <2>2, <3>1, <1>3, <1>7 DEF LifeInv, Counted
    <2> QED
      BY <2>1, <2>2
  <1>12. Known'
    <2> SUFFICES ASSUME NEW q \in Proc, pc'[q] \notin {"idle", "done"} PROVE q \in table
      BY DEF Known
    <2>1. pc[q] \notin {"idle", "done"}
      BY <1>8, Kinds DEF Reads
    <2> QED
      BY <2>1 DEF LifeInv, Known
  <1>13. PollSafe'
    BY <1>8, Kinds DEF LifeInv, PollSafe
  <1> QED
    BY <1>8, <1>9, <1>10, <1>11, <1>12, <1>13 DEF LifeInv

LEMMA MarkStep ==
  ASSUME LifeInv, NEW a \in Actor, Mark(a)
  PROVE  LifeInv'
  <1> DEFINE p == Of(a)
  <1>1. p \in Proc
    BY OfProc DEF LifeInv
  <1>2. AfterMark(a) = "done" \/ (AfterMark(a) = "forget" /\ a \in Proc)
    BY DEF AfterMark
  <1>3. CASE MarkRLock(a)
    BY <1>3, MarkRLockStep
  <1>4. CASE MarkSelect(a) /\ exited[p]
    <2>1. /\ pc[a] \in Reads /\ RUnlock(Of(a)) /\ pc' = [pc EXCEPT ![a] = AfterMark(a)]
          /\ UNCHANGED <<alive, table, over, req, exited, pidfd, cleaner, sockets, sock, at>>
      BY <1>4 DEF MarkSelect, Goto, Reads
    <2>2. Marked' /\ exited' \in [Proc -> BOOLEAN]
      BY <2>1 DEF LifeInv, Marked, Types
    <2> QED
      BY <1>2, <2>1, <2>2, Leaves
  <1>5. CASE MarkSelect(a) /\ ~exited[p]
    <2>1. /\ pc[a] = "select" /\ pc' = [pc EXCEPT ![a] = "close"]
          /\ UNCHANGED <<mu, alive, table, over, req, exited, pidfd, cleaner, sockets, sock, at>>
      BY <1>5 DEF MarkSelect, Goto
    <2>2. /\ Places'
          /\ pc'[a] = "close" /\ \A b \in Actor : b # a => pc'[b] = pc[b]
          /\ \A b \in Actor : Of(b)' = Of(b)
      BY <2>1, Moves DEF HandlerPlaces, WaitPlaces
    <2>3. Types'
      BY <2>1 DEF LifeInv, Types
    <2>4. Counted'
      <3>1. \A q \in Proc : mu'[q].readers = mu[q].readers /\ Cleaning(q)' = Cleaning(q)
        BY <2>1 DEF Cleaning
      <3>2. \A b \in Actor : pc'[b] \in Reads <=> pc[b] \in Reads
        BY <2>1, <2>2 DEF Reads
      <3> QED
        BY <3>1, <3>2, <2>2, CountedKept
    <2>5. Held'
      <3>1. \A g \in Handler : pc'[g] = "write" <=> pc[g] = "write"
        BY <2>1, <2>2, Kinds
      <3> QED
        BY <2>1, <2>2, <3>1, HeldKept, Kinds
    <2>6. Known' /\ Marked' /\ PollSafe'
      BY <2>1, <2>2, Kinds DEF LifeInv, Known, Marked, PollSafe
    <2> QED
      BY <2>2, <2>3, <2>4, <2>5, <2>6 DEF LifeInv
  <1>6. CASE MarkClose(a)
    <2>1. /\ pc[a] \in Reads /\ RUnlock(Of(a)) /\ exited' = [exited EXCEPT ![p] = TRUE]
          /\ UNCHANGED <<alive, table, over, req, pidfd, sockets, sock, at>>
      BY <1>6 DEF MarkClose, Reads
    <2>2. exited' \in [Proc -> BOOLEAN]
      BY <2>1 DEF LifeInv, Types
    <2>3. CASE exited[p]
      <3>1. pc' = [pc EXCEPT ![a] = "panic"] /\ cleaner' = cleaner
        BY <1>6, <2>3 DEF MarkClose, Goto
      <3>2. exited' = exited
        BY <2>1, <2>3 DEF LifeInv, Types
      <3>3. Marked'
        BY <3>1, <3>2 DEF LifeInv, Marked
      <3> QED
        BY <2>1, <2>2, <3>1, <3>3, Leaves
    <2>4. CASE ~exited[p]
      <3>1. pc' = [pc EXCEPT ![a] = AfterMark(a)] /\ cleaner' = [cleaner EXCEPT ![p] = "start"]
        BY <1>6, <2>4 DEF MarkClose, Goto
      <3>2. Cleaning(p) = 0
        BY <1>1, <2>4 DEF LifeInv, Marked, Cleaning
      <3>3. Marked'
        BY <1>1, <2>1, <3>1 DEF LifeInv, Marked, Types
      <3> QED
        BY <1>2, <2>1, <2>2, <3>1, <3>2, <3>3, Leaves
    <2> QED
      BY <2>3, <2>4
  <1> QED
    BY <1>3, <1>4, <1>5, <1>6 DEF Mark
-----------------------------------------------------------------------------
(* The Wait goroutine.                                                      *)

LEMMA WaitStep ==
  ASSUME LifeInv, NEW p \in Proc, PollEnter(p) \/ PollReturn(p) \/ Forget(p)
  PROVE  LifeInv'
  <1>1. /\ pc[p] \in {"poll", "polling", "forget"}
        /\ table' \subseteq Proc /\ over' \in BOOLEAN
        /\ UNCHANGED <<alive, req, mu, exited, pidfd, cleaner, sockets, sock, at>>
    <2>1. /\ pc[p] \in {"poll", "polling", "forget"} /\ table' \subseteq table
          /\ UNCHANGED <<alive, req, mu, exited, pidfd, cleaner, sockets, sock, at>>
      BY DEF PollEnter, PollReturn, Forget
    <2>2. over' \in BOOLEAN
      BY DEF PollEnter, PollReturn, Forget, LifeInv, Types
    <2> QED
      BY <2>1, <2>2 DEF LifeInv, Types
  <1>2. PICK l \in {"polling", "failed", "rlock", "poll", "done"} :
           /\ pc' = [pc EXCEPT ![p] = l]
           /\ l = "polling" => pidfd[p] = "open"
           /\ \/ table' = table
              \/ l = "done" /\ table' = table \ {p}
    BY DEF PollEnter, PollReturn, AfterPoll, Forget, Goto
  <1>3. p \in Actor /\ p \notin Handler
    BY Kinds
  <1>4. /\ Places'
        /\ pc'[p] = l /\ \A b \in Actor : b # p => pc'[b] = pc[b]
        /\ \A b \in Actor : Of(b)' = Of(b)
    BY <1>1, <1>2, <1>3, Moves DEF WaitPlaces
  <1>5. Types'
    BY <1>1 DEF LifeInv, Types
  <1>6. Counted'
    <2>1. \A q \in Proc : mu'[q].readers = mu[q].readers /\ Cleaning(q)' = Cleaning(q)
      BY <1>1 DEF Cleaning
    <2>2. \A b \in Actor : pc'[b] \in Reads <=> pc[b] \in Reads
      BY <1>1, <1>2, <1>4 DEF Reads
    <2> QED
      BY <2>1, <2>2, <1>4, CountedKept
  <1>7. Held'
    <2>1. \A g \in Handler : pc'[g] = "write" <=> pc[g] = "write"
      BY <1>3, <1>4, Kinds
    <2> QED
      BY <1>1, <1>4, <2>1, HeldKept, Kinds
  <1>8. Known'
    <2> SUFFICES ASSUME NEW q \in Proc, pc'[q] \notin {"idle", "done"} PROVE q \in table'
      BY DEF Known
    <2>1. pc[q] \notin {"idle", "done"} /\ (q = p => l # "done")
      BY <1>1, <1>4, Kinds
    <2> QED
      BY <2>1, <1>2 DEF LifeInv, Known
  <1>9. Marked' /\ PollSafe'
    BY <1>1, <1>2, <1>4, Kinds DEF LifeInv, Marked, PollSafe
  <1> QED
    BY <1>4, <1>5, <1>6, <1>7, <1>8, <1>9 DEF LifeInv
-----------------------------------------------------------------------------
(* Cleanup.                                                                 *)

LEMMA CleanupStep ==
  ASSUME LifeInv, NEW p \in Proc, Cleanup(p)
  PROVE  LifeInv'
  <1>1. UNCHANGED <<alive, table, over, pc, req, exited, sockets>>
    BY DEF Cleanup, CleanupRLock, CleanupSocket, CleanupCloseSocket, CleanupMark, CleanupClose
  <1>2. cleaner[p] # "none" /\ \E c \in {"sockets", "closing", "drain", "done"} : cleaner' = [cleaner EXCEPT ![p] = c]
    BY DEF Cleanup, CleanupRLock, CleanupSocket, CleanupCloseSocket, CleanupMark, CleanupClose
  <1>3. /\ cleaner' \in [Proc -> {"none", "start", "sockets", "closing", "drain", "done"}]
        /\ cleaner'[p] # "none" /\ \A q \in Proc : q # p => cleaner'[q] = cleaner[q]
    BY <1>2 DEF LifeInv, Types
  <1>4. /\ IsFiniteSet(Readers(p)) /\ Cardinality(Readers(p)) \in Nat
        /\ mu[p].readers = Cardinality(Readers(p)) + Cleaning(p)
    BY FS_CardinalityType DEF LifeInv, Counted
  <1>5. /\ mu' \in [Proc -> [readers : Nat, writer : Handler \cup {None}]]
        /\ \A q \in Proc : mu'[q].writer = mu[q].writer /\ (q # p => mu'[q].readers = mu[q].readers)
        /\ mu'[p].readers = Cardinality(Readers(p)) + Cleaning(p)'
    <2>1. CASE CleanupRLock(p)
      <3>1. RLock(p) /\ Cleaning(p) = 0 /\ Cleaning(p)' = 1
        BY <2>1 DEF CleanupRLock, Cleaning, LifeInv, Types
      <3> QED
        BY <1>4, <3>1, ReadLocks DEF LifeInv
    <2>2. CASE CleanupSocket(p) \/ CleanupCloseSocket(p) \/ CleanupMark(p)
      <3>1. mu' = mu /\ Cleaning(p)' = Cleaning(p)
        BY <2>2 DEF CleanupSocket, CleanupCloseSocket, CleanupMark, Cleaning, LifeInv, Types
      <3> QED
        BY <1>4, <3>1 DEF LifeInv, Types
    <2>3. CASE CleanupClose(p)
      <3>1. RUnlock(p) /\ Cleaning(p) = 1 /\ Cleaning(p)' = 0
        BY <2>3 DEF CleanupClose, Cleaning, LifeInv, Types
      <3>2. mu[p].readers > 0
        BY <1>4, <3>1
      <3>3. /\ mu' \in [Proc -> [readers : Nat, writer : Handler \cup {None}]]
            /\ \A q \in Proc : mu'[q].writer = mu[q].writer /\ (q # p => mu'[q].readers = mu[q].readers)
            /\ mu'[p].readers = mu[p].readers - 1
        BY <3>1, <3>2, ReadLocks DEF LifeInv
      <3> QED
        BY <1>4, <3>1, <3>3
    <2> QED
      BY <2>1, <2>2, <2>3 DEF Cleanup
  <1>6. /\ pidfd' \in [Proc -> {"open", "closing", "closed"}]
        /\ \A q \in Proc : pidfd'[q] = "closed" => pidfd[q] = "closed" \/ pc[q] # "polling"
    BY DEF Cleanup, CleanupRLock, CleanupSocket, CleanupCloseSocket, CleanupMark, CleanupClose, PidfdDrained, LifeInv, Types
  <1>7. sock' \in [Sock -> {"none", "open", "closing", "closed"}] /\ at' = at
    <2>1. /\ at' = at
          /\ \/ sock' = sock
             \/ \E s \in sockets[p], c \in {"closing", "closed"} : sock' = [sock EXCEPT ![s] = c]
      BY DEF Cleanup, CleanupRLock, CleanupSocket, CleanupCloseSocket, CleanupMark, CleanupClose
    <2> QED
      BY <2>1 DEF LifeInv, Types
  <1>8. Types'
    BY <1>1, <1>3, <1>5, <1>6, <1>7 DEF LifeInv, Types
  <1>9. Places' /\ Known'
    BY <1>1 DEF LifeInv, Places, Known
  <1>10. Held'
    BY <1>1, <1>5, HeldKept DEF Of
  <1>11. Counted'
    <2> SUFFICES ASSUME NEW q \in Proc
                 PROVE  /\ IsFiniteSet(Readers(q)')
                        /\ mu'[q].readers = Cardinality(Readers(q)') + Cleaning(q)'
      BY DEF Counted
    <2>1. Readers(q)' = Readers(q)
      BY <1>1 DEF Readers, Of
    <2>2. CASE q = p
      BY <2>1, <2>2, <1>4, <1>5
    <2>3. CASE q # p
      <3>1. Cleaning(q)' = Cleaning(q)
        BY <2>3, <1>3 DEF Cleaning
      <3> QED
        BY <2>1, <2>3, <3>1, <1>5 DEF LifeInv, Counted
    <2> QED
      BY <2>2, <2>3
  <1>12. Marked'
    BY <1>1, <1>2, <1>3 DEF LifeInv, Marked
  <1>13. PollSafe'
    BY <1>1, <1>6 DEF LifeInv, PollSafe
  <1> QED
    BY <1>8, <1>9, <1>10, <1>11, <1>12, <1>13 DEF LifeInv
-----------------------------------------------------------------------------
LEMMA StepInv == LifeInv /\ [Next]_vars => LifeInv'
  <1> SUFFICES ASSUME LifeInv, [Next]_vars PROVE LifeInv'
    OBVIOUS
  <1>1. ASSUME NEW p \in Proc, NEW q \in Proc, Fork(p, q) PROVE LifeInv'
    BY <1>1, KernelStep
  <1>2. ASSUME NEW p \in Proc, Die(p) PROVE LifeInv'
    BY <1>2, KernelStep
  <1>3. ASSUME NEW p \in Proc, Wait(p) PROVE LifeInv'
    BY <1>3, WaitStep, MarkStep, Kinds DEF Wait
  <1>4. ASSUME NEW p \in Proc, Cleanup(p) PROVE LifeInv'
    BY <1>4, CleanupStep
  <1>5. ASSUME NEW h \in Handler, Notify(h) PROVE LifeInv'
    BY <1>5, NotifyStep
  <1>6. ASSUME NEW h \in Handler, Handle(h) PROVE LifeInv'
    BY <1>6, GetProcessStep, InsideStep, WLockStep, UnlockStep, MarkStep, Kinds DEF Handle
  <1>7. CASE UNCHANGED vars
    <2>1. Types' /\ Places' /\ Known' /\ Marked' /\ PollSafe'
      BY <1>7 DEF vars, LifeInv, Types, Places, Known, Marked, PollSafe
    <2>2. Held' /\ Counted'
      BY <1>7 DEF vars, LifeInv, Held, Counted, Readers, Cleaning, Of
    <2> QED
      BY <2>1, <2>2 DEF LifeInv
  <1> QED
    BY <1>1, <1>2, <1>3, <1>4, <1>5, <1>6, <1>7 DEF Next

\* The inductive invariant: who reads and who writes each Process.mu, for every
\* number of processes and handlers, whichever calls they make.
THEOREM Invariance == Spec => []LifeInv
  <1> QED
    BY Initially, StepInv, PTL DEF Spec

\* The pidfd is never closed under the poll(2) of Wait.
THEOREM PidfdSafe == Spec => []PollSafe
  <1>1. LifeInv => PollSafe
    BY DEF LifeInv
  <1> QED
    BY <1>1, Invariance, PTL

-----------------------------------------------------------------------------
(* Whose end cleanup waits for.                                             *)

Marking == {"rlock", "select", "close"}
LeaveInv ==
  /\ \A p \in Proc : pc[p] \in Marking => alive[p] = "dead"
  /\ \A h \in Handler : pc[h] \in Marking => req[h].op \in Exits
  /\ \A p \in Proc : cleaner[p] # "none" => alive[p] = "dead" \/ Leaving(p, Exits)

\* What one step does to one process, and to a handler that has ended.
Lasting ==
  /\ \A p \in Proc : alive[p] = "dead" => alive'[p] = "dead"
  /\ \A h \in Handler : pc[h] = "done" => pc'[h] = "done" /\ req'[h] = req[h]

LEMMA LeaveFrame ==
  ASSUME LeaveInv, Lasting,
         \A p \in Proc : pc'[p] \in Marking => pc[p] \in Marking \/ alive'[p] = "dead",
         \A h \in Handler : pc'[h] \in Marking => req'[h].op \in Exits,
         \A p \in Proc : cleaner'[p] # "none" =>
            cleaner[p] # "none" \/ alive'[p] = "dead" \/ Leaving(p, Exits)'
  PROVE  LeaveInv'
  <1>1. ASSUME NEW p \in Proc, Leaving(p, Exits) PROVE Leaving(p, Exits)'
    BY <1>1 DEF Leaving, Lasting
  <1> QED
    BY <1>1 DEF LeaveInv, Lasting

\* A step of an actor that moves nobody else and starts no cleanup.
LEMMA LeaveMove ==
  ASSUME LifeInv, LeaveInv, NEW a \in Actor, NEW l, Goto(a, l),
         UNCHANGED <<alive, req, cleaner>>, pc[a] # "done",
         l \notin Marking \/ pc[a] \in Marking
  PROVE  LeaveInv'
  <1>1. pc' = [b \in Actor |-> IF b = a THEN l ELSE pc[b]]
    BY DEF Goto, LifeInv, Places
  <1>2. Lasting
    BY <1>1, Kinds DEF Lasting
  <1> QED
    BY <1>1, <1>2, LeaveFrame, Kinds DEF LeaveInv

LEMMA LeaveKernel ==
  ASSUME LifeInv, LeaveInv, NEW p \in Proc,
         Die(p) \/ (\E q \in Proc : Fork(p, q)) \/ Cleanup(p)
  PROVE  LeaveInv'
  <1>1. UNCHANGED <<pc, req>>
    BY DEF Die, Fork, Cleanup, CleanupRLock, CleanupSocket, CleanupCloseSocket,
       CleanupMark, CleanupClose
  <1>2. alive \in [Proc -> {"unborn", "running", "dead"}]
        /\ cleaner \in [Proc -> {"none", "start", "sockets", "closing", "drain", "done"}]
    BY DEF LifeInv, Types
  <1>3. \A q \in Proc : alive[q] = "dead" => alive'[q] = "dead"
    BY <1>2 DEF Die, Fork, Cleanup, CleanupRLock, CleanupSocket, CleanupCloseSocket,
       CleanupMark, CleanupClose
  <1>4. \A q \in Proc : cleaner'[q] # "none" => cleaner[q] # "none"
    BY <1>2 DEF Die, Fork, Cleanup, CleanupRLock, CleanupSocket, CleanupCloseSocket,
       CleanupMark, CleanupClose
  <1> QED
    BY <1>1, <1>3, <1>4, LeaveFrame DEF LeaveInv, Lasting

LEMMA LeaveNotify ==
  ASSUME LifeInv, LeaveInv, NEW h \in Handler, Notify(h)
  PROVE  LeaveInv'
  <1>1. /\ pc' = [b \in Actor |-> IF b = h THEN "get" ELSE pc[b]]
        /\ UNCHANGED <<alive, cleaner>> /\ pc[h] = "idle"
        /\ \A g \in Handler \ {h} : req'[g] = req[g]
    BY DEF Notify, Goto, LifeInv, Places, Types
  <1>2. Lasting
    BY <1>1, Kinds DEF Lasting
  <1> QED
    BY <1>1, <1>2, LeaveFrame, Kinds DEF LeaveInv, Marking

\* The exit handlers are the ones that go on to mark the process.
LEMMA LeaveGetProcess ==
  ASSUME LifeInv, LeaveInv, NEW h \in Handler, GetProcess(h)
  PROVE  LeaveInv'
  <1>1. /\ UNCHANGED <<alive, req, cleaner>> /\ pc[h] = "get" /\ req[h].op \in Ops
        /\ pc \in [Actor -> HandlerPlaces \cup WaitPlaces] /\ Of(h) \in Proc /\ Of(h) # h
    BY OfProc, Kinds DEF GetProcess, LifeInv, Places
  <1>2. req[h].op \in Exits \/ Entry(req[h].op) \in {"lock", "find"}
    BY <1>1, Entries
  <1>3. /\ \A b \in Actor \ {h, Of(h)} : pc'[b] = pc[b]
        /\ pc'[h] \in {"panic", Entry(req[h].op)}
        /\ pc'[Of(h)] \in {"poll", pc[Of(h)]}
    BY <1>1, Kinds DEF GetProcess, Goto
  <1>4. Lasting
    BY <1>1, <1>3, Kinds DEF Lasting
  <1>5. \A p \in Proc : pc'[p] \in Marking => pc[p] \in Marking
    BY <1>1, <1>3, Kinds DEF Marking
  <1>6. ASSUME NEW g \in Handler, pc'[g] \in Marking PROVE req'[g].op \in Exits
    <2>1. CASE g = h
      BY <1>1, <1>2, <1>3, <1>6, <2>1 DEF Marking
    <2>2. CASE g # h
      BY <1>1, <1>3, <1>6, <2>2, Kinds DEF LeaveInv
    <2> QED
      BY <2>1, <2>2
  <1> QED
    BY <1>1, <1>4, <1>5, <1>6, LeaveFrame

\* A cleanup starts when a Wait has seen its process dead, or with the end of
\* the handler of an exit.
LEMMA LeaveMark ==
  ASSUME LifeInv, LeaveInv, NEW a \in Actor, Mark(a)
  PROVE  LeaveInv'
  <1>1. UNCHANGED <<alive, req>> /\ pc[a] \in Marking
    BY DEF Mark, MarkRLock, MarkSelect, MarkClose, Marking
  <1>2. \A l : l \in {"select", "close"} => l \in Marking
    BY DEF Marking
  <1>3. pc[a] # "done"
    BY <1>1 DEF Marking
  <1>4. CASE MarkRLock(a)
    BY <1>1, <1>3, <1>4, LeaveMove DEF MarkRLock
  <1>5. CASE MarkSelect(a)
    <2>1. Goto(a, AfterMark(a)) \/ Goto(a, "close")
      BY <1>5 DEF MarkSelect
    <2>2. cleaner' = cleaner
      BY <1>5 DEF MarkSelect
    <2> QED
      BY <1>1, <1>3, <2>1, <2>2, LeaveMove
  <1>6. CASE MarkClose(a)
    <2>1. CASE exited[Of(a)]
      <3>1. Goto(a, "panic") /\ cleaner' = cleaner
        BY <1>6, <2>1 DEF MarkClose
      <3> QED
        BY <1>1, <1>3, <3>1, LeaveMove
    <2>2. CASE ~exited[Of(a)]
      <3>1. /\ pc' = [b \in Actor |-> IF b = a THEN AfterMark(a) ELSE pc[b]]
            /\ \A p \in Proc \ {Of(a)} : cleaner'[p] = cleaner[p]
        BY <1>6, <2>2 DEF MarkClose, Goto, LifeInv, Places, Types
      <3>2. Lasting
        BY <1>1, <1>3, <3>1, Kinds DEF Lasting
      <3>3. AfterMark(a) \notin Marking
        BY DEF AfterMark, Marking
      <3>p. PICK p \in Proc : p = Of(a)
        BY OfProc DEF LifeInv
      <3>4. alive'[p] = "dead" \/ Leaving(p, Exits)'
        <4>1. CASE a \in Proc
          BY <1>1, <3>p, <4>1, Kinds DEF LeaveInv
        <4>2. CASE a \in Handler
          <5>1. req[a].op \in Exits /\ AfterMark(a) = "done" /\ Of(a) = req[a].proc
            BY <1>1, <4>2, Kinds DEF LeaveInv, AfterMark
          <5> QED
            BY <1>1, <3>1, <3>p, <4>2, <5>1, Kinds DEF Leaving
        <4> QED
          BY <4>1, <4>2, Kinds
      <3>5. \A q \in Proc : cleaner'[q] # "none" =>
               cleaner[q] # "none" \/ alive'[q] = "dead" \/ Leaving(q, Exits)'
        BY <3>1, <3>p, <3>4
      <3>6. \A h \in Handler : pc'[h] \in Marking => req'[h].op \in Exits
        BY <1>1, <3>1, <3>3, Kinds DEF LeaveInv
      <3>7. \A q \in Proc : pc'[q] \in Marking => pc[q] \in Marking
        BY <3>1, <3>3, Kinds
      <3> QED
        BY <3>2, <3>5, <3>6, <3>7, LeaveFrame
    <2> QED
      BY <2>1, <2>2
  <1> QED
    BY <1>4, <1>5, <1>6 DEF Mark

LEMMA LeaveWait ==
  ASSUME LifeInv, LeaveInv, NEW p \in Proc, Wait(p)
  PROVE  LeaveInv'
  <1>1. CASE Mark(p)
    BY <1>1, LeaveMark, Kinds
  <1>2. CASE PollEnter(p) \/ Forget(p)
    <2>1. \E l \in {"polling", "failed", "done"} : Goto(p, l)
      BY <1>2 DEF PollEnter, Forget
    <2>2. UNCHANGED <<alive, req, cleaner>> /\ pc[p] # "done"
      BY <1>2 DEF PollEnter, Forget
    <2> QED
      BY <2>1, <2>2, LeaveMove, Kinds DEF Marking
  <1>3. CASE PollReturn(p)
    <2>1. /\ pc' = [b \in Actor |-> IF b = p THEN AfterPoll(p) ELSE pc[b]]
          /\ UNCHANGED <<alive, req, cleaner>> /\ pc[p] = "polling"
      BY <1>3 DEF PollReturn, Goto, LifeInv, Places
    <2>2. Lasting
      BY <2>1, Kinds DEF Lasting
    <2>3. \A q \in Proc : pc'[q] \in Marking => pc[q] \in Marking \/ alive'[q] = "dead"
      BY <2>1, Kinds DEF AfterPoll, Marking
    <2> QED
      BY <2>1, <2>2, <2>3, LeaveFrame, Kinds DEF LeaveInv
  <1> QED
    BY <1>1, <1>2, <1>3 DEF Wait

LEMMA LeaveStep == LifeInv /\ LeaveInv /\ [Next]_vars => LeaveInv'
  <1> SUFFICES ASSUME LifeInv, LeaveInv, [Next]_vars PROVE LeaveInv'
    OBVIOUS
  <1>1. ASSUME NEW p \in Proc, Die(p) \/ (\E q \in Proc : Fork(p, q)) \/ Cleanup(p)
        PROVE  LeaveInv'
    BY <1>1, LeaveKernel
  <1>2. ASSUME NEW p \in Proc, Wait(p) PROVE LeaveInv'
    BY <1>2, LeaveWait
  <1>3. ASSUME NEW h \in Handler, Notify(h) PROVE LeaveInv'
    BY <1>3, LeaveNotify
  <1>4. ASSUME NEW h \in Handler, Handle(h) PROVE LeaveInv'
    <2>1. CASE \/ GetSocket(h) \/ Operate(h) \/ WLock(h) \/ InstallSocket(h)
               \/ DeleteSocket(h) \/ CloseSocket(h)
      <3>1. \E l \in {"done", "inside", "lock", "write", "closing"} : Goto(h, l)
        BY <2>1 DEF GetSocket, Operate, WLock, InstallSocket, DeleteSocket, CloseSocket
      <3>2. UNCHANGED <<alive, req, cleaner>> /\ pc[h] # "done"
        BY <2>1 DEF GetSocket, Operate, WLock, InstallSocket, DeleteSocket, CloseSocket
      <3> QED
        BY <3>1, <3>2, LeaveMove, Kinds DEF Marking
    <2> QED
      BY <1>4, <2>1, LeaveGetProcess, LeaveMark, Kinds DEF Handle
  <1>5. CASE UNCHANGED vars
    BY <1>5 DEF vars, LeaveInv, Leaving
  <1> QED
    BY <1>1, <1>2, <1>3, <1>4, <1>5 DEF Next

-----------------------------------------------------------------------------
(* Who takes a process out of the table.                                    *)

AtEnd(p) == pc[p] \in {"forget", "done"}
GivenUp(p) == pc[p] \in {"failed", "panic"}
WaiterInv ==
  /\ table = {} => over
  /\ \A p \in Proc : /\ p \in table => pc[p] \notin {"idle", "done"}
                     /\ pidfd[p] # "open" \/ GivenUp(p) => exited[p]
                     /\ AtEnd(p) => alive[p] = "dead"
                     /\ exited[p] => AtEnd(p) \/ Leaving(p, Exits)

LEMMA LeavingLasts ==
  ASSUME Lasting, NEW p \in Proc, Leaving(p, Exits)
  PROVE  Leaving(p, Exits)'
  BY DEF Leaving, Lasting

\* A step that leaves the table alone.
LEMMA WaiterFrame ==
  ASSUME WaiterInv, Lasting, UNCHANGED <<table, over>>,
         \A p \in Proc : /\ pidfd'[p] # "open" => pidfd[p] # "open" \/ exited[p]
                         /\ exited[p] => exited'[p]
                         /\ exited'[p] => exited[p] \/ pc'[p] = "forget" \/ Leaving(p, Exits)'
                         /\ GivenUp(p)' => GivenUp(p) \/ exited'[p]
                         /\ AtEnd(p) => AtEnd(p)'
                         /\ AtEnd(p)' => AtEnd(p) \/ alive'[p] = "dead"
                         /\ pc'[p] \in {"idle", "done"} => pc[p] \in {"idle", "forget", "done"}
                         /\ pc'[p] = "done" => pc[p] = "done"
  PROVE  WaiterInv'
  <1> SUFFICES ASSUME NEW p \in Proc
               PROVE  /\ p \in table' => pc'[p] \notin {"idle", "done"}
                      /\ pidfd'[p] # "open" \/ GivenUp(p)' => exited'[p]
                      /\ AtEnd(p)' => alive'[p] = "dead"
                      /\ exited'[p] => AtEnd(p)' \/ Leaving(p, Exits)'
    BY DEF WaiterInv
  <1>1. alive[p] = "dead" => alive'[p] = "dead"
    BY DEF Lasting
  <1>2. p \in table' => pc'[p] \notin {"idle", "done"}
    BY DEF WaiterInv, AtEnd
  <1>3. exited'[p] => AtEnd(p)' \/ Leaving(p, Exits)'
    BY LeavingLasts DEF WaiterInv, AtEnd
  <1> QED
    BY <1>1, <1>2, <1>3 DEF WaiterInv

\* A step of one actor that stays away from the ends of a Wait.
LEMMA WaiterMove ==
  ASSUME LifeInv, LeaveInv, WaiterInv, NEW a \in Actor, NEW l, Goto(a, l),
         UNCHANGED <<alive, table, over, req, exited, pidfd>>, pc[a] \notin {"forget", "done"},
         a \in Proc => l \notin {"idle", "done"} /\ (l = "forget" => alive[a] = "dead")
                       /\ (l \in {"failed", "panic"} => exited[a])
  PROVE  WaiterInv'
  <1>1. pc' = [b \in Actor |-> IF b = a THEN l ELSE pc[b]]
    BY DEF Goto, LifeInv, Places
  <1>2. Lasting
    BY <1>1, Kinds DEF Lasting
  <1>3. ASSUME NEW p \in Proc
        PROVE  /\ GivenUp(p)' => GivenUp(p) \/ exited'[p]
               /\ AtEnd(p) => AtEnd(p)'
               /\ AtEnd(p)' => AtEnd(p) \/ alive'[p] = "dead"
               /\ pc'[p] \in {"idle", "done"} => pc[p] \in {"idle", "forget", "done"}
               /\ pc'[p] = "done" => pc[p] = "done"
    BY <1>1, Kinds DEF GivenUp, AtEnd
  <1> QED
    BY <1>2, <1>3, WaiterFrame

LEMMA WaiterKernel ==
  ASSUME LifeInv, LeaveInv, WaiterInv, NEW p \in Proc,
         Die(p) \/ (\E q \in Proc : Fork(p, q)) \/ Cleanup(p)
  PROVE  WaiterInv'
  <1>1. UNCHANGED <<pc, req, table, over, exited>>
    BY DEF Die, Fork, Cleanup, CleanupRLock, CleanupSocket, CleanupCloseSocket,
       CleanupMark, CleanupClose
  <1>2. \A q \in Proc : alive[q] = "dead" => alive'[q] = "dead"
    BY DEF Die, Fork, Cleanup, CleanupRLock, CleanupSocket, CleanupCloseSocket,
       CleanupMark, CleanupClose,
           LifeInv, Types
  <1>3. \A q \in Proc : pidfd'[q] # "open" => pidfd[q] # "open" \/ exited[q]
    BY DEF Die, Fork, Cleanup, CleanupRLock, CleanupSocket, CleanupCloseSocket,
       CleanupMark, CleanupClose,
           LifeInv, Types, Marked
  <1>4. Lasting
    BY <1>1, <1>2 DEF Lasting
  <1> QED
    BY <1>1, <1>3, <1>4, WaiterFrame DEF GivenUp, AtEnd

LEMMA WaiterNotify ==
  ASSUME LifeInv, LeaveInv, WaiterInv, NEW h \in Handler, Notify(h)
  PROVE  WaiterInv'
  <1>1. /\ pc' = [b \in Actor |-> IF b = h THEN "get" ELSE pc[b]]
        /\ UNCHANGED <<alive, table, over, exited, pidfd>> /\ pc[h] = "idle"
        /\ \A g \in Handler \ {h} : req'[g] = req[g]
    BY DEF Notify, Goto, LifeInv, Places, Types
  <1>2. Lasting
    BY <1>1, Kinds DEF Lasting
  <1>3. \A p \in Proc : pc'[p] = pc[p]
    BY <1>1, Kinds
  <1> QED
    BY <1>1, <1>2, <1>3, WaiterFrame DEF GivenUp, AtEnd

\* A process that enters the table gets its Wait goroutine in the same step.
LEMMA WaiterGetProcess ==
  ASSUME LifeInv, LeaveInv, WaiterInv, NEW h \in Handler, GetProcess(h)
  PROVE  WaiterInv'
  <1>p. PICK p \in Proc : p = Of(h)
    BY OfProc, Kinds DEF LifeInv
  <1>1. /\ UNCHANGED <<alive, over, req, exited, pidfd>> /\ pc[h] = "get"
        /\ pc \in [Actor -> HandlerPlaces \cup WaitPlaces] /\ p # h /\ table \subseteq Proc
    BY <1>p, Kinds DEF GetProcess, LifeInv, Places, Types
  <1>2. CASE p \in table \/ alive[p] # "running"
    <2>1. /\ table' = table
          /\ \E l : Goto(h, l)
      BY <1>p, <1>2 DEF GetProcess
    <2> QED
      BY <1>1, <2>1, WaiterMove, Kinds
  <1>3. CASE p \notin table /\ alive[p] = "running"
    <2>1. /\ table' = table \cup {p}
          /\ pc' = [pc EXCEPT ![h] = Entry(req[h].op), ![p] = "poll"]
      BY <1>p, <1>3 DEF GetProcess
    <2>2. pc'[p] = "poll" /\ \A b \in Actor \ {h, p} : pc'[b] = pc[b]
      BY <1>1, <2>1, Kinds
    <2>3. Lasting
      BY <1>1, <2>2, Kinds DEF Lasting
    <2>4. ~AtEnd(p)
      BY <1>3 DEF WaiterInv
    <2>5. \A q \in Proc : Leaving(q, Exits) => Leaving(q, Exits)'
      BY <2>3, LeavingLasts
    <2>6. \A q \in Proc : q # p => pc'[q] = pc[q]
      BY <2>2, Kinds
    <2>7. \A q \in Proc : /\ q \in table' => pc'[q] \notin {"idle", "done"}
                          /\ pidfd'[q] # "open" \/ GivenUp(q)' => exited'[q]
                          /\ AtEnd(q)' => alive'[q] = "dead"
                          /\ exited'[q] => AtEnd(q)' \/ Leaving(q, Exits)'
      BY <1>1, <2>1, <2>2, <2>4, <2>5, <2>6 DEF WaiterInv, GivenUp, AtEnd
    <2> QED
      BY <2>1, <2>7 DEF WaiterInv
  <1> QED
    BY <1>2, <1>3

\* Who marks a process is its Wait, which then takes it out, or a handler that
\* is done with it.
LEMMA WaiterMark ==
  ASSUME LifeInv, LeaveInv, WaiterInv, NEW a \in Actor, Mark(a)
  PROVE  WaiterInv'
  <1>1. UNCHANGED <<alive, table, over, req, pidfd>> /\ pc[a] \in Marking
    BY DEF Mark, MarkRLock, MarkSelect, MarkClose, Marking
  <1>2. /\ pc[a] \notin {"forget", "done"}
        /\ a \in Proc => alive[a] = "dead" /\ AfterMark(a) = "forget" /\ Of(a) = a
        /\ a \in Handler => AfterMark(a) = "done" /\ req[a].op \in Exits /\ Of(a) = req[a].proc
    BY <1>1, Kinds DEF Marking, LeaveInv, AfterMark
  <1>3. CASE UNCHANGED exited
    <2>1. \E l : /\ Goto(a, l)
                 /\ a \in Proc => l \in {"select", "close", "forget", "panic"} /\ (l = "panic" => exited[a])
      BY <1>2, <1>3, Kinds DEF Mark, MarkRLock, MarkSelect, MarkClose, LifeInv, Types
    <2> QED
      BY <1>1, <1>2, <1>3, <2>1, WaiterMove
  <1>4. CASE ~UNCHANGED exited
    <2>p. PICK p \in Proc : p = Of(a)
      BY OfProc DEF LifeInv
    <2>1. /\ exited' = [exited EXCEPT ![p] = TRUE] /\ ~exited[p]
          /\ pc' = [b \in Actor |-> IF b = a THEN AfterMark(a) ELSE pc[b]]
      <3>1. MarkClose(a)
        BY <1>4 DEF Mark, MarkRLock, MarkSelect
      <3>2. exited' = [exited EXCEPT ![p] = TRUE] /\ exited \in [Proc -> BOOLEAN]
        BY <2>p, <3>1 DEF MarkClose, LifeInv, Types
      <3>3. ~exited[p]
        BY <1>4, <3>2
      <3>4. Goto(a, AfterMark(a))
        BY <2>p, <3>1, <3>3 DEF MarkClose
      <3> QED
        BY <3>2, <3>3, <3>4 DEF Goto, LifeInv, Places
    <2>2. Lasting
      BY <1>1, <1>2, <2>1, Kinds DEF Lasting
    <2>3. pc'[p] = "forget" \/ Leaving(p, Exits)'
      <3>1. CASE a \in Proc
        BY <1>2, <2>p, <2>1, <3>1
      <3>2. CASE a \in Handler
        BY <1>1, <1>2, <2>p, <2>1, <3>2 DEF Leaving
      <3> QED
        BY <3>1, <3>2, Kinds
    <2>4. exited \in [Proc -> BOOLEAN]
      BY DEF LifeInv, Types
    <2>5. ASSUME NEW q \in Proc
          PROVE  /\ exited[q] => exited'[q]
                 /\ exited'[q] => exited[q] \/ pc'[q] = "forget" \/ Leaving(q, Exits)'
      <3>1. CASE q = p
        BY <2>1, <2>3, <2>4, <3>1
      <3>2. CASE q # p
        BY <2>1, <2>4, <3>2
      <3> QED
        BY <3>1, <3>2
    <2>6. ASSUME NEW q \in Proc
          PROVE  /\ GivenUp(q)' => GivenUp(q) \/ exited'[q]
                 /\ AtEnd(q) => AtEnd(q)'
                 /\ AtEnd(q)' => AtEnd(q) \/ alive'[q] = "dead"
                 /\ pc'[q] \in {"idle", "done"} => pc[q] \in {"idle", "forget", "done"}
                 /\ pc'[q] = "done" => pc[q] = "done"
      BY <1>1, <1>2, <2>1, Kinds DEF GivenUp, AtEnd
    <2> QED
      BY <1>1, <2>2, <2>5, <2>6, WaiterFrame
  <1> QED
    BY <1>3, <1>4

LEMMA WaiterWait ==
  ASSUME LifeInv, LeaveInv, WaiterInv, NEW p \in Proc, Wait(p)
  PROVE  WaiterInv'
  <1>1. CASE Mark(p)
    BY <1>1, WaiterMark, Kinds
  <1>2. CASE PollEnter(p)
    <2>1. \E l \in {"polling", "failed"} : Goto(p, l) /\ (l = "failed" => pidfd[p] # "open")
      BY <1>2 DEF PollEnter
    <2>2. pidfd[p] # "open" => exited[p]
      BY DEF WaiterInv
    <2>3. UNCHANGED <<alive, table, over, req, exited, pidfd>> /\ pc[p] \notin {"forget", "done"}
      BY <1>2 DEF PollEnter
    <2> QED
      BY <2>1, <2>2, <2>3, WaiterMove, Kinds
  <1>3. CASE PollReturn(p)
    <2>1. \E l \in {"rlock", "poll"} : Goto(p, l)
      BY <1>3 DEF PollReturn, AfterPoll
    <2>2. UNCHANGED <<alive, table, over, req, exited, pidfd>> /\ pc[p] \notin {"forget", "done"}
      BY <1>3 DEF PollReturn
    <2> QED
      BY <2>1, <2>2, WaiterMove, Kinds
  <1>4. CASE Forget(p)
    <2>1. /\ pc[p] = "forget" /\ table' = table \ {p} /\ (table' = {} => over')
          /\ pc' = [b \in Actor |-> IF b = p THEN "done" ELSE pc[b]]
          /\ UNCHANGED <<alive, req, exited, pidfd>>
      BY <1>4 DEF Forget, IsLastProcess, Goto, LifeInv, Places
    <2>2. Lasting
      BY <2>1, Kinds DEF Lasting
    <2>3. \A q \in Proc : Leaving(q, Exits) => Leaving(q, Exits)'
      BY <2>2, LeavingLasts
    <2>4. \A q \in Proc : pc'[q] = IF q = p THEN "done" ELSE pc[q]
      BY <2>1, Kinds
    <2>5. \A q \in Proc : /\ q \in table' => pc'[q] \notin {"idle", "done"}
                          /\ pidfd'[q] # "open" \/ GivenUp(q)' => exited'[q]
                          /\ AtEnd(q)' => alive'[q] = "dead"
                          /\ exited'[q] => AtEnd(q)' \/ Leaving(q, Exits)'
      BY <2>1, <2>3, <2>4 DEF WaiterInv, GivenUp, AtEnd
    <2> QED
      BY <2>1, <2>5 DEF WaiterInv
  <1> QED
    BY <1>1, <1>2, <1>3, <1>4 DEF Wait

LEMMA WaiterStep == LifeInv /\ LeaveInv /\ WaiterInv /\ [Next]_vars => WaiterInv'
  <1> SUFFICES ASSUME LifeInv, LeaveInv, WaiterInv, [Next]_vars PROVE WaiterInv'
    OBVIOUS
  <1>1. ASSUME NEW p \in Proc, Die(p) \/ (\E q \in Proc : Fork(p, q)) \/ Cleanup(p)
        PROVE  WaiterInv'
    BY <1>1, WaiterKernel
  <1>2. ASSUME NEW p \in Proc, Wait(p) PROVE WaiterInv'
    BY <1>2, WaiterWait
  <1>3. ASSUME NEW h \in Handler, Notify(h) PROVE WaiterInv'
    BY <1>3, WaiterNotify
  <1>4. ASSUME NEW h \in Handler, Handle(h) PROVE WaiterInv'
    <2>1. CASE \/ GetSocket(h) \/ Operate(h) \/ WLock(h) \/ InstallSocket(h)
               \/ DeleteSocket(h) \/ CloseSocket(h)
      <3>1. \E l : Goto(h, l)
        BY <2>1 DEF GetSocket, Operate, WLock, InstallSocket, DeleteSocket, CloseSocket
      <3>2. UNCHANGED <<alive, table, over, req, exited, pidfd>> /\ pc[h] \notin {"forget", "done"}
        BY <2>1 DEF GetSocket, Operate, WLock, InstallSocket, DeleteSocket, CloseSocket
      <3> QED
        BY <3>1, <3>2, WaiterMove, Kinds
    <2> QED
      BY <1>4, <2>1, WaiterGetProcess, WaiterMark, Kinds DEF Handle
  <1>5. CASE UNCHANGED vars
    BY <1>5 DEF vars, WaiterInv, Leaving, AtEnd, GivenUp
  <1> QED
    BY <1>1, <1>2, <1>3, <1>4, <1>5 DEF Next

-----------------------------------------------------------------------------
(* What is known of a process that a handler works on.                      *)

Awake ==
  /\ \A h \in Handler : pc[h] \notin {"idle", "get", "panic"} => pc[Of(h)] # "idle"
  /\ \A p \in Proc : sockets[p] # {} \/ cleaner[p] # "none" => pc[p] # "idle"
Fresh == \A h \in Handler : pc[h] = "idle" => req[h].op = "none"
Finished == \A p \in Proc : AtEnd(p) => exited[p]
ControlInv == Awake /\ Fresh /\ Finished

LEMMA ControlFrame ==
  ASSUME LifeInv, ControlInv,
         \A p \in Proc : /\ pc'[p] = "idle" => pc[p] = "idle"
                         /\ sockets'[p] # {} \/ cleaner'[p] # "none" =>
                               sockets[p] # {} \/ cleaner[p] # "none" \/ pc'[p] # "idle"
                         /\ AtEnd(p)' => AtEnd(p) \/ exited'[p]
                         /\ exited[p] => exited'[p],
         \A h \in Handler : /\ pc'[h] = "idle" => pc[h] = "idle" /\ req'[h] = req[h]
                            /\ pc'[h] \notin {"idle", "get", "panic"} =>
                                  \/ pc[h] \notin {"idle", "get", "panic"} /\ req'[h] = req[h]
                                  \/ pc'[req'[h].proc] # "idle"
  PROVE  ControlInv'
  <1>1. Awake'
    <2>1. ASSUME NEW h \in Handler, pc'[h] \notin {"idle", "get", "panic"}
          PROVE  (pc[Of(h)] # "idle")'
      <3>1. Of(h)' = req'[h].proc
        BY Kinds DEF Of
      <3>2. CASE pc'[req'[h].proc] # "idle"
        BY <3>1, <3>2
      <3>3. CASE pc[h] \notin {"idle", "get", "panic"} /\ req'[h] = req[h]
        <4>1. PICK p \in Proc : p = Of(h)
          BY OfProc, Kinds DEF LifeInv
        <4>2. pc[p] # "idle" /\ req'[h].proc = p
          BY <3>3, <4>1, Kinds DEF ControlInv, Awake
        <4>3. pc'[p] # "idle"
          BY <4>2
        <4> QED
          BY <3>1, <4>2, <4>3
      <3> QED
        BY <2>1, <3>2, <3>3
    <2>2. \A p \in Proc : sockets'[p] # {} \/ cleaner'[p] # "none" => pc'[p] # "idle"
      BY DEF ControlInv, Awake
    <2> QED
      BY <2>1, <2>2 DEF Awake
  <1>2. Fresh' /\ Finished'
    BY DEF ControlInv, Fresh, Finished
  <1> QED
    BY <1>1, <1>2 DEF ControlInv

\* A step of one actor that has a process.
LEMMA ControlMove ==
  ASSUME LifeInv, ControlInv, NEW a \in Actor, NEW l, Goto(a, l), UNCHANGED <<req, exited>>,
         pc[a] # "idle", l # "idle",
         a \in Handler => pc[a] \notin {"get", "panic"},
         a \in Proc => (l \in {"forget", "done"} => exited[a]),
         \A p \in Proc : sockets'[p] # {} \/ cleaner'[p] # "none" =>
            sockets[p] # {} \/ cleaner[p] # "none" \/ p = Of(a)
  PROVE  ControlInv'
  <1>1. pc' = [b \in Actor |-> IF b = a THEN l ELSE pc[b]]
    BY DEF Goto, LifeInv, Places
  <1>2. pc[Of(a)] # "idle" /\ Of(a) \in Proc
    BY OfProc, Kinds DEF LifeInv, ControlInv, Awake
  <1>3. \A p \in Proc : pc'[p] = "idle" => pc[p] = "idle"
    BY <1>1, Kinds
  <1>4. \A p \in Proc : sockets'[p] # {} \/ cleaner'[p] # "none" =>
           sockets[p] # {} \/ cleaner[p] # "none" \/ pc'[p] # "idle"
    BY <1>2, <1>3
  <1>5. \A p \in Proc : AtEnd(p)' => AtEnd(p) \/ exited'[p]
    BY <1>1, Kinds DEF AtEnd
  <1>6. \A h \in Handler : /\ pc'[h] = "idle" => pc[h] = "idle" /\ req'[h] = req[h]
                           /\ pc'[h] \notin {"idle", "get", "panic"} =>
                                 pc[h] \notin {"idle", "get", "panic"} /\ req'[h] = req[h]
    BY <1>1, Kinds
  <1> QED
    BY <1>3, <1>4, <1>5, <1>6, ControlFrame

LEMMA ControlKernel ==
  ASSUME LifeInv, ControlInv, NEW p \in Proc,
         Die(p) \/ (\E q \in Proc : Fork(p, q)) \/ Cleanup(p)
  PROVE  ControlInv'
  <1>1. UNCHANGED <<pc, req, exited, sockets>>
    BY DEF Die, Fork, Cleanup, CleanupRLock, CleanupSocket, CleanupCloseSocket, CleanupMark,
           CleanupClose
  <1>2. \A q \in Proc : cleaner'[q] # "none" => cleaner[q] # "none"
    BY DEF Die, Fork, Cleanup, CleanupRLock, CleanupSocket, CleanupCloseSocket, CleanupMark,
           CleanupClose, LifeInv, Types
  <1> QED
    BY <1>1, <1>2, ControlFrame DEF AtEnd

LEMMA ControlNotify ==
  ASSUME LifeInv, ControlInv, NEW h \in Handler, Notify(h)
  PROVE  ControlInv'
  <1>1. /\ pc' = [b \in Actor |-> IF b = h THEN "get" ELSE pc[b]]
        /\ UNCHANGED <<exited, sockets, cleaner>>
        /\ \A g \in Handler \ {h} : req'[g] = req[g]
    BY DEF Notify, Goto, LifeInv, Places, Types
  <1>2. \A p \in Proc : pc'[p] = pc[p]
    BY <1>1, Kinds
  <1>3. \A g \in Handler : /\ pc'[g] = "idle" => pc[g] = "idle" /\ req'[g] = req[g]
                           /\ pc'[g] \notin {"idle", "get", "panic"} =>
                                 pc[g] \notin {"idle", "get", "panic"} /\ req'[g] = req[g]
    BY <1>1, Kinds
  <1> QED
    BY <1>1, <1>2, <1>3, ControlFrame DEF AtEnd

\* A handler goes on with a process that has a Wait goroutine, or had one.
LEMMA ControlGetProcess ==
  ASSUME LifeInv, WaiterInv, ControlInv, NEW h \in Handler, GetProcess(h)
  PROVE  ControlInv'
  <1>p. PICK p \in Proc : p = Of(h)
    BY OfProc, Kinds DEF LifeInv
  <1>1. /\ UNCHANGED <<req, exited, cleaner>> /\ pc[h] = "get" /\ req[h].proc = p
        /\ h \notin Proc /\ h \in Actor /\ p \in Actor
        /\ \A q \in Proc : q # p => sockets'[q] = sockets[q]
    BY <1>p, Kinds, Imports DEF GetProcess, LifeInv
  <1>2. Entry(req[h].op) # "idle"
    BY <1>1, Entries DEF LifeInv, Places
  <1>3. CASE p \in table \/ alive[p] # "running"
    <2>1. PICK l : /\ l # "idle" /\ (l = "panic" \/ pc[p] # "idle")
                   /\ pc' = [b \in Actor |-> IF b = h THEN l ELSE pc[b]]
      BY <1>p, <1>1, <1>2, <1>3 DEF GetProcess, Goto, LifeInv, Places, WaiterInv
    <2>2. sockets' = sockets
      BY <1>p, <1>3 DEF GetProcess
    <2>3. \A b \in Actor \ {h} : pc'[b] = pc[b]
      BY <2>1
    <2>4. pc'[h] # "idle" /\ (pc'[h] = "panic" \/ pc'[p] # "idle")
      BY <1>1, <2>1, <2>3
    <2>5. \A q \in Proc : pc'[q] = pc[q]
      BY <1>1, <2>3, Kinds
    <2>6. \A g \in Handler : /\ pc'[g] = "idle" => pc[g] = "idle" /\ req'[g] = req[g]
                             /\ pc'[g] \notin {"idle", "get", "panic"} =>
                                   \/ pc[g] \notin {"idle", "get", "panic"} /\ req'[g] = req[g]
                                   \/ pc'[req'[g].proc] # "idle"
      BY <1>1, <2>3, <2>4, Kinds
    <2> QED
      BY <1>1, <2>2, <2>5, <2>6, ControlFrame DEF AtEnd
  <1>4. CASE p \notin table /\ alive[p] = "running"
    <2>1. pc' = [pc EXCEPT ![h] = Entry(req[h].op), ![p] = "poll"]
      BY <1>p, <1>4 DEF GetProcess
    <2>2. pc'[p] = "poll" /\ pc'[h] # "idle" /\ \A b \in Actor \ {h, p} : pc'[b] = pc[b]
      BY <1>1, <1>2, <2>1 DEF LifeInv, Places
    <2>3. \A q \in Proc : pc'[q] = pc[q] \/ (q = p /\ pc'[q] = "poll")
      BY <1>1, <2>2, Kinds
    <2>4. \A q \in Proc : /\ pc'[q] = "idle" => pc[q] = "idle"
                          /\ sockets'[q] # {} \/ cleaner'[q] # "none" =>
                                sockets[q] # {} \/ cleaner[q] # "none" \/ pc'[q] # "idle"
                          /\ AtEnd(q)' => AtEnd(q)
      BY <1>1, <2>2, <2>3 DEF AtEnd
    <2>5. \A g \in Handler : g # h => pc'[g] = pc[g]
      BY <2>2, Kinds
    <2>6. \A g \in Handler : /\ pc'[g] = "idle" => pc[g] = "idle" /\ req'[g] = req[g]
                             /\ pc'[g] \notin {"idle", "get", "panic"} =>
                                   \/ pc[g] \notin {"idle", "get", "panic"} /\ req'[g] = req[g]
                                   \/ pc'[req'[g].proc] # "idle"
      BY <1>1, <2>2, <2>5
    <2> QED
      BY <1>1, <2>4, <2>6, ControlFrame
  <1> QED
    BY <1>3, <1>4

LEMMA ControlMark ==
  ASSUME LifeInv, ControlInv, NEW a \in Actor, Mark(a)
  PROVE  ControlInv'
  <1>p. PICK p \in Proc : p = Of(a)
    BY OfProc DEF LifeInv
  <1>1. UNCHANGED <<req, sockets>> /\ pc[a] \in Marking /\ pc[p] # "idle"
    BY <1>p, Kinds DEF Mark, MarkRLock, MarkSelect, MarkClose, Marking, ControlInv, Awake
  <1>2. \E l \in {"select", "close", "forget", "done", "panic"} :
           /\ pc' = [b \in Actor |-> IF b = a THEN l ELSE pc[b]]
           /\ l \in {"forget", "done"} => exited'[p]
    BY <1>p DEF Mark, MarkRLock, MarkSelect, MarkClose, Goto, AfterMark, LifeInv, Places, Types
  <1>3. \A q \in Proc : (exited[q] => exited'[q]) /\ (q # p => cleaner'[q] = cleaner[q])
    BY <1>p DEF Mark, MarkRLock, MarkSelect, MarkClose, LifeInv, Types
  <1>4. \A q \in Proc : /\ pc'[q] = "idle" => pc[q] = "idle"
                        /\ AtEnd(q)' => AtEnd(q) \/ exited'[q]
    <2> SUFFICES ASSUME NEW q \in Proc
                 PROVE  /\ pc'[q] = "idle" => pc[q] = "idle"
                        /\ AtEnd(q)' => AtEnd(q) \/ exited'[q]
      OBVIOUS
    <2>1. CASE q = a
      <3>1. p = a
        BY <1>p, <2>1, Kinds
      <3> QED
        BY <1>2, <2>1, <3>1, Kinds DEF AtEnd
    <2>2. CASE q # a
      BY <1>2, <2>2, Kinds DEF AtEnd
    <2> QED
      BY <2>1, <2>2
  <1>5. \A q \in Proc : sockets'[q] # {} \/ cleaner'[q] # "none" =>
           sockets[q] # {} \/ cleaner[q] # "none" \/ pc'[q] # "idle"
    BY <1>1, <1>3, <1>4
  <1>6. \A h \in Handler : /\ pc'[h] = "idle" => pc[h] = "idle" /\ req'[h] = req[h]
                           /\ pc'[h] \notin {"idle", "get", "panic"} =>
                                 pc[h] \notin {"idle", "get", "panic"} /\ req'[h] = req[h]
    BY <1>1, <1>2, Kinds DEF Marking
  <1> QED
    BY <1>3, <1>4, <1>5, <1>6, ControlFrame

LEMMA ControlStep == LifeInv /\ WaiterInv /\ ControlInv /\ [Next]_vars => ControlInv'
  <1> SUFFICES ASSUME LifeInv, WaiterInv, ControlInv, [Next]_vars PROVE ControlInv'
    OBVIOUS
  <1>1. ASSUME NEW p \in Proc, Die(p) \/ (\E q \in Proc : Fork(p, q)) \/ Cleanup(p)
        PROVE  ControlInv'
    BY <1>1, ControlKernel
  <1>2. ASSUME NEW p \in Proc, Wait(p) PROVE ControlInv'
    <2>1. CASE PollEnter(p) \/ PollReturn(p) \/ Forget(p)
      <3>1. PICK l \in {"polling", "failed", "poll", "rlock", "done"} :
               Goto(p, l) /\ (l = "done" => pc[p] = "forget")
        BY <2>1 DEF PollEnter, PollReturn, AfterPoll, Forget
      <3>2. UNCHANGED <<req, exited, sockets, cleaner>> /\ pc[p] # "idle"
        BY <2>1 DEF PollEnter, PollReturn, Forget
      <3>3. l = "done" => exited[p]
        BY <3>1 DEF ControlInv, Finished, AtEnd
      <3> QED
        BY <3>1, <3>2, <3>3, ControlMove, Kinds
    <2> QED
      BY <1>2, <2>1, ControlMark, Kinds DEF Wait
  <1>3. ASSUME NEW h \in Handler, Notify(h) PROVE ControlInv'
    BY <1>3, ControlNotify
  <1>4. ASSUME NEW h \in Handler, Handle(h) PROVE ControlInv'
    <2>1. CASE GetSocket(h) \/ Operate(h) \/ WLock(h) \/ CloseSocket(h)
      <3>1. \E l \in {"done", "inside", "lock", "write"} : Goto(h, l)
        BY <2>1 DEF GetSocket, Operate, WLock, CloseSocket
      <3>2. UNCHANGED <<req, exited, sockets, cleaner>> /\ pc[h] \notin {"idle", "get", "panic"}
        BY <2>1 DEF GetSocket, Operate, WLock, CloseSocket
      <3> QED
        BY <3>1, <3>2, ControlMove, Kinds
    <2>2. CASE InstallSocket(h) \/ DeleteSocket(h)
      <3>1. \E l \in {"done", "closing"} : Goto(h, l)
        BY <2>2 DEF InstallSocket, DeleteSocket
      <3>2. UNCHANGED <<req, exited, cleaner>> /\ pc[h] \notin {"idle", "get", "panic"}
        BY <2>2 DEF InstallSocket, DeleteSocket
      <3>3. \A q \in Proc : q # Of(h) => sockets'[q] = sockets[q]
        BY <2>2, MapWrites DEF LifeInv
      <3> QED
        BY <3>1, <3>2, <3>3, ControlMove, Kinds
    <2> QED
      BY <1>4, <2>1, <2>2, ControlGetProcess, ControlMark, Kinds DEF Handle
  <1>5. CASE UNCHANGED vars
    BY <1>5, ControlFrame DEF vars, AtEnd
  <1> QED
    BY <1>1, <1>2, <1>3, <1>4, <1>5 DEF Next

\* Those that look for a socket mean to use one.
Seeks == \A h \in Handler : pc[h] = "find" => req[h].op \in Uses

LEMMA SeeksStep == LifeInv /\ Seeks /\ [Next]_vars => Seeks'
  <1> SUFFICES ASSUME LifeInv, Seeks, [Next]_vars PROVE Seeks'
    OBVIOUS
  <1>1. ASSUME NEW p \in Proc, NEW q \in Proc, Fork(p, q) \/ Die(p) \/ Cleanup(p) PROVE Seeks'
    BY <1>1 DEF Fork, Die, Cleanup, CleanupRLock, CleanupSocket, CleanupCloseSocket, CleanupMark,
                CleanupClose, Seeks
  <1>2. ASSUME NEW a \in Actor, NEW l, Goto(a, l), UNCHANGED req, l # "find" PROVE Seeks'
    BY <1>2, Kinds DEF Goto, Seeks, LifeInv, Places
  <1>3. ASSUME NEW a \in Actor, Mark(a) PROVE Seeks'
    <2>1. \E l \in {"select", "close", "forget", "done", "panic"} : Goto(a, l)
      BY <1>3 DEF Mark, MarkRLock, MarkSelect, MarkClose, AfterMark
    <2>2. UNCHANGED req
      BY <1>3 DEF Mark, MarkRLock, MarkSelect, MarkClose
    <2> QED
      BY <1>2, <2>1, <2>2
  <1>4. ASSUME NEW p \in Proc, Wait(p) PROVE Seeks'
    <2>1. CASE PollEnter(p) \/ PollReturn(p) \/ Forget(p)
      <3>1. \E l \in {"polling", "failed", "poll", "rlock", "done"} : Goto(p, l)
        BY <2>1 DEF PollEnter, PollReturn, AfterPoll, Forget
      <3>2. UNCHANGED req
        BY <2>1 DEF PollEnter, PollReturn, Forget
      <3> QED
        BY <1>2, <3>1, <3>2, Kinds
    <2> QED
      BY <1>3, <1>4, <2>1, Kinds DEF Wait
  <1>5. ASSUME NEW h \in Handler, Notify(h) PROVE Seeks'
    BY <1>5, Kinds DEF Notify, Goto, Seeks, LifeInv, Places, Types
  <1>6. ASSUME NEW h \in Handler, Handle(h) PROVE Seeks'
    <2>1. CASE \/ GetSocket(h) \/ Operate(h) \/ WLock(h) \/ InstallSocket(h)
               \/ DeleteSocket(h) \/ CloseSocket(h)
      <3>1. \E l \in {"done", "inside", "lock", "write", "closing"} : Goto(h, l)
        BY <2>1 DEF GetSocket, Operate, WLock, InstallSocket, DeleteSocket, CloseSocket
      <3>2. UNCHANGED req
        BY <2>1 DEF GetSocket, Operate, WLock, InstallSocket, DeleteSocket, CloseSocket
      <3> QED
        BY <1>2, <3>1, <3>2, Kinds
    <2>2. CASE GetProcess(h)
      <3>1. /\ UNCHANGED req /\ req[h].op \in Ops /\ Of(h) \in Proc /\ pc[h] = "get"
            /\ pc \in [Actor -> HandlerPlaces \cup WaitPlaces]
        BY <2>2, OfProc, Kinds DEF GetProcess, LifeInv, Places
      <3>2. /\ \A b \in Actor \ {h, Of(h)} : pc'[b] = pc[b]
            /\ pc'[h] \in {"panic", Entry(req[h].op)}
        BY <2>2, <3>1, Kinds DEF GetProcess, Goto
      <3>3. Entry(req[h].op) = "find" => req[h].op \in Uses
        BY <3>1, Entries
      <3>4. \A g \in Handler \ {h} : pc'[g] = pc[g]
        BY <3>1, <3>2, Kinds
      <3> QED
        BY <3>1, <3>2, <3>3, <3>4 DEF Seeks
    <2> QED
      BY <1>3, <1>6, <2>1, <2>2, Kinds DEF Handle
  <1>7. CASE UNCHANGED vars
    BY <1>7 DEF vars, Seeks
  <1> QED
    BY <1>1, <1>3, <1>4, <1>5, <1>6, <1>7 DEF Next

Phases == LifeInv /\ LeaveInv /\ WaiterInv /\ ControlInv /\ Seeks

\* How far every process, its Wait and the handlers have come, together.
THEOREM InPhase == Spec => []Phases
  <1>1. Init => LeaveInv
    BY Kinds DEF Init, LeaveInv, Marking
  <1>2. Init => WaiterInv
    BY Kinds, LifecycleAssumption DEF Init, WaiterInv, AtEnd, GivenUp
  <1>3. Init => ControlInv
    BY Kinds, LifecycleAssumption DEF Init, ControlInv, Awake, Fresh, Finished, AtEnd
  <1>4. Init => Seeks
    BY Kinds DEF Init, Seeks
  <1> QED
    BY <1>1, <1>2, <1>3, <1>4, LeaveStep, WaiterStep, ControlStep, SeeksStep, Invariance, PTL
    DEF Spec, Phases
-----------------------------------------------------------------------------
(* Sockets.                                                                 *)

\* A map has sockets of its process only, and each when it is installed.
Belongs == \A q \in Proc : \A s \in sockets[q] : Of(s) = q /\ (s \in Handler => pc[s] = "done")

\* What a handler has to do with the socket that it is inside of, or closes.
Engaged(h) == /\ Of(at[h]) = Of(h)
              /\ at[h] \in Handler => pc[at[h]] = "done"
              /\ \/ req[h].op \in Uses /\ pc[h] = "inside"
                 \/ req[h].op = "dup" /\ pc[h] \in {"lock", "write"}
                 \/ req[h].op = "close" /\ pc[h] = "closing" /\ at[h] \notin sockets[Of(h)]
AtWork == \A h \in Handler : at[h] # None => Engaged(h)

\* The socket that cleanup closes, and those it has closed.
ClosingOne == \A p \in Proc : cleaner[p] = "closing" => \E s \in sockets[p] : sock[s] = "closing"
AllSwept == \A p \in Proc : cleaner[p] \in {"drain", "done"} =>
               \A s \in sockets[p] : sock[s] = "closed" \/ (AskedToExit(p) /\ s \in Handler)

SocketInv == Belongs /\ AtWork /\ ClosingOne /\ AllSwept

LEMMA LastingStep == LifeInv /\ [Next]_vars => Lasting
  <1> SUFFICES ASSUME LifeInv, [Next]_vars PROVE Lasting
    OBVIOUS
  <1>1. ASSUME NEW p \in Proc, NEW q \in Proc, Fork(p, q) \/ Die(p) \/ Cleanup(p) PROVE Lasting
    BY <1>1 DEF Fork, Die, Cleanup, CleanupRLock, CleanupSocket, CleanupCloseSocket, CleanupMark,
                CleanupClose, Lasting, LifeInv, Types
  <1>2. ASSUME NEW a \in Actor, NEW l, Goto(a, l), UNCHANGED <<alive, req>>, pc[a] # "done"
        PROVE  Lasting
    BY <1>2, Kinds DEF Goto, Lasting, LifeInv, Places
  <1>3. ASSUME NEW a \in Actor, Mark(a) PROVE Lasting
    <2>1. \E l : Goto(a, l)
      BY <1>3 DEF Mark, MarkRLock, MarkSelect, MarkClose
    <2>2. UNCHANGED <<alive, req>> /\ pc[a] # "done"
      BY <1>3 DEF Mark, MarkRLock, MarkSelect, MarkClose
    <2> QED
      BY <1>2, <2>1, <2>2
  <1>4. ASSUME NEW p \in Proc, Wait(p) PROVE Lasting
    <2>1. CASE PollEnter(p) \/ PollReturn(p) \/ Forget(p)
      <3>1. \E l : Goto(p, l)
        BY <2>1 DEF PollEnter, PollReturn, Forget
      <3>2. UNCHANGED <<alive, req>> /\ pc[p] # "done"
        BY <2>1 DEF PollEnter, PollReturn, Forget
      <3> QED
        BY <1>2, <3>1, <3>2, Kinds
    <2> QED
      BY <1>3, <1>4, <2>1, Kinds DEF Wait
  <1>5. ASSUME NEW h \in Handler, Notify(h) PROVE Lasting
    BY <1>5, Kinds DEF Notify, Goto, Lasting, LifeInv, Places, Types
  <1>6. ASSUME NEW h \in Handler, Handle(h) PROVE Lasting
    <2>1. CASE \/ GetSocket(h) \/ Operate(h) \/ WLock(h) \/ InstallSocket(h)
               \/ DeleteSocket(h) \/ CloseSocket(h)
      <3>1. \E l \in {"done", "inside", "lock", "write", "closing"} : Goto(h, l)
        BY <2>1 DEF GetSocket, Operate, WLock, InstallSocket, DeleteSocket, CloseSocket
      <3>2. UNCHANGED <<alive, req>> /\ pc[h] # "done"
        BY <2>1 DEF GetSocket, Operate, WLock, InstallSocket, DeleteSocket, CloseSocket
      <3> QED
        BY <1>2, <3>1, <3>2, Kinds
    <2>2. CASE GetProcess(h)
      <3>1. /\ UNCHANGED <<alive, req>> /\ pc[h] = "get" /\ Of(h) \in Proc
            /\ pc \in [Actor -> HandlerPlaces \cup WaitPlaces]
        BY <2>2, OfProc, Kinds DEF GetProcess, LifeInv, Places
      <3>2. \A b \in Actor \ {h, Of(h)} : pc'[b] = pc[b]
        BY <2>2, <3>1, Kinds DEF GetProcess, Goto
      <3> QED
        BY <3>1, <3>2, Kinds DEF Lasting
    <2> QED
      BY <1>3, <1>6, <2>1, <2>2, Kinds DEF Handle
  <1>7. CASE UNCHANGED vars
    BY <1>7 DEF vars, Lasting
  <1> QED
    BY <1>1, <1>3, <1>4, <1>5, <1>6, <1>7 DEF Next

\* Who has asked to exit has asked.
LEMMA AskedLasts ==
  ASSUME ControlInv, \A h \in Handler : req'[h] = req[h] \/ pc[h] = "idle",
         NEW p \in Proc, AskedToExit(p)
  PROVE  AskedToExit(p)'
  <1>1. PICK h \in Handler : req[h].proc = p /\ req[h].op \in Exits
    BY DEF AskedToExit
  <1>2. pc[h] # "idle"
    BY <1>1 DEF ControlInv, Fresh, Exits
  <1> QED
    BY <1>1, <1>2 DEF AskedToExit

LEMMA BelongsKept ==
  ASSUME LifeInv, Belongs, Lasting,
         \A q \in Proc : \A s \in sockets'[q] :
            s \in sockets[q] \/ (Of(s)' = q /\ (s \in Handler => pc'[s] = "done"))
  PROVE  Belongs'
  <1> SUFFICES ASSUME NEW q \in Proc, NEW s \in sockets'[q]
               PROVE  Of(s)' = q /\ (s \in Handler => pc'[s] = "done")
    BY DEF Belongs
  <1>1. CASE s \in sockets[q]
    <2>1. s \in Actor /\ Of(s) = q /\ (s \in Handler => pc[s] = "done")
      BY <1>1, Kinds DEF Belongs, LifeInv, Types
    <2>2. s \in Handler => pc'[s] = "done" /\ req'[s] = req[s]
      BY <2>1 DEF Lasting
    <2> QED
      BY <2>1, <2>2, Kinds DEF Of
  <1> QED
    BY <1>1

LEMMA AtKept ==
  ASSUME LifeInv, AtWork, Lasting,
         \A h \in Handler : at'[h] # None =>
            \/ /\ at[h] = at'[h] /\ req'[h] = req[h]
               /\ \/ pc'[h] = pc[h]
                  \/ pc[h] # "closing" /\ req[h].op = "dup" /\ pc'[h] \in {"lock", "write"}
               /\ pc[h] = "closing" => at[h] \notin sockets'[Of(h)]
            \/ Engaged(h)'
  PROVE  AtWork'
  <1> SUFFICES ASSUME NEW h \in Handler, at'[h] # None, ~Engaged(h)' PROVE FALSE
    BY DEF AtWork
  <1>1. /\ at[h] = at'[h] /\ req'[h] = req[h] /\ Engaged(h)
        /\ \/ pc'[h] = pc[h]
           \/ pc[h] # "closing" /\ req[h].op = "dup" /\ pc'[h] \in {"lock", "write"}
        /\ pc[h] = "closing" => at[h] \notin sockets'[Of(h)]
    BY DEF AtWork
  <1>2. PICK s \in Actor : s = at[h]
    BY <1>1, Kinds DEF LifeInv, Types
  <1>3. Of(s) = Of(h) /\ (s \in Handler => pc[s] = "done" /\ pc'[s] = "done" /\ req'[s] = req[s])
    BY <1>1, <1>2 DEF Engaged, Lasting
  <1>4. Of(s)' = Of(s) /\ Of(h)' = Of(h)
    BY <1>1, <1>3, Kinds DEF Of
  <1>5. Of(at[h])' = Of(h)'
    BY <1>1, <1>2, <1>3, <1>4 DEF Of
  <1>6. sockets'[Of(h)'] = sockets'[Of(h)]
    BY <1>4
  <1>7. \/ req'[h].op \in Uses /\ pc'[h] = "inside"
        \/ req'[h].op = "dup" /\ pc'[h] \in {"lock", "write"}
        \/ req'[h].op = "close" /\ pc'[h] = "closing" /\ at'[h] \notin sockets'[Of(h)']
    BY <1>1, <1>6 DEF Engaged
  <1>8. at'[h] \in Handler => pc'[at'[h]] = "done"
    BY <1>1, <1>2, <1>3
  <1> QED
    BY <1>5, <1>7, <1>8 DEF Engaged

LEMMA ClosingKept ==
  ASSUME ClosingOne,
         \A p \in Proc : cleaner'[p] = "closing" =>
            \/ /\ cleaner[p] = "closing"
               /\ \A s \in sockets[p] : sock[s] = "closing" => s \in sockets'[p] /\ sock'[s] = "closing"
            \/ \E s \in sockets'[p] : sock'[s] = "closing"
  PROVE  ClosingOne'
  BY DEF ClosingOne

LEMMA SweptKept ==
  ASSUME ControlInv, AllSwept, \A h \in Handler : req'[h] = req[h] \/ pc[h] = "idle",
         \A p \in Proc : cleaner'[p] \in {"drain", "done"} =>
            \/ /\ cleaner[p] \in {"drain", "done"}
               /\ \A s \in sockets'[p] :
                     \/ s \in sockets[p] /\ (sock[s] = "closed" => sock'[s] = "closed")
                     \/ s \in Handler /\ AskedToExit(p)
            \/ Swept(p)'
  PROVE  AllSwept'
  <1> SUFFICES ASSUME NEW p \in Proc, cleaner'[p] \in {"drain", "done"}, NEW s \in sockets'[p]
               PROVE  sock'[s] = "closed" \/ (AskedToExit(p)' /\ s \in Handler)
    BY DEF AllSwept
  <1>1. AskedToExit(p) => AskedToExit(p)'
    BY AskedLasts
  <1> QED
    BY <1>1 DEF AllSwept, Swept

\* A step that changes no socket.
LEMMA SocketQuiet ==
  ASSUME LifeInv, ControlInv, SocketInv, Lasting, UNCHANGED <<sockets, sock, at>>,
         \A h \in Handler : \/ req'[h] = req[h] /\ (pc'[h] = pc[h] \/ at[h] = None)
                            \/ req'[h] = req[h] /\ pc[h] = "lock" /\ pc'[h] = "write"
                            \/ pc[h] = "idle",
         \A p \in Proc : /\ cleaner'[p] = "closing" => cleaner[p] = "closing"
                         /\ cleaner'[p] \in {"drain", "done"} => cleaner[p] \in {"drain", "done"}
  PROVE  SocketInv'
  <1>1. Belongs'
    BY BelongsKept DEF SocketInv
  <1>2. AtWork'
    <2>1. \A h \in Handler : at[h] # None => Engaged(h)
      BY DEF SocketInv, AtWork
    <2>2. \A h \in Handler : at'[h] # None =>
             /\ at[h] = at'[h] /\ req'[h] = req[h]
             /\ \/ pc'[h] = pc[h]
                \/ pc[h] # "closing" /\ req[h].op = "dup" /\ pc'[h] \in {"lock", "write"}
             /\ pc[h] = "closing" => at[h] \notin sockets'[Of(h)]
      BY <2>1 DEF Engaged
    <2> QED
      BY <2>2, AtKept DEF SocketInv
  <1>3. ClosingOne'
    BY ClosingKept DEF SocketInv
  <1>4. AllSwept'
    BY SweptKept DEF SocketInv
  <1> QED
    BY <1>1, <1>2, <1>3, <1>4 DEF SocketInv

\* A handler enters a socket, leaves it, or closes the one it took from the map.
LEMMA SocketWork ==
  ASSUME Phases, SocketInv, Lasting, NEW h \in Handler,
         GetSocket(h) \/ Operate(h) \/ CloseSocket(h)
  PROVE  SocketInv'
  <1>p. PICK p \in Proc : p = Of(h)
    BY OfProc, Kinds DEF Phases, LifeInv
  <1>1. /\ UNCHANGED <<req, cleaner, sockets>> /\ h \in Actor
        /\ \A g \in Handler \ {h} : pc'[g] = pc[g] /\ at'[g] = at[g]
        /\ pc[h] \in {"find", "inside", "closing"}
    BY Kinds DEF GetSocket, Operate, CloseSocket, Goto, Phases, LifeInv, Places, Types
  <1>2. Belongs'
    BY <1>1, BelongsKept DEF SocketInv, Phases
  <1>3. at'[h] = None \/ Engaged(h)'
    <2>1. CASE GetSocket(h)
      <3>1. CASE at' = at
        <4>1. at[h] # None => Engaged(h)
          BY DEF SocketInv, AtWork
        <4> QED
          BY <2>1, <3>1, <4>1 DEF GetSocket, Engaged
      <3>2. CASE at' # at
        <4>1. PICK s \in sockets[p] : at' = [at EXCEPT ![h] = s] /\ pc' = [pc EXCEPT ![h] = "inside"]
          BY <1>p, <2>1, <3>2 DEF GetSocket, Goto
        <4>2. Of(s) = p /\ (s \in Handler => pc[s] = "done") /\ s \in Actor
          BY <4>1, Kinds DEF SocketInv, Belongs, Phases, LifeInv, Types
        <4>3. at'[h] = s /\ pc'[h] = "inside" /\ pc[h] = "find"
          BY <1>1, <2>1, <4>1 DEF GetSocket, Phases, LifeInv, Types, Places
        <4>4. req[h].op \in Uses
          BY <2>1, <4>3 DEF GetSocket, Phases, Seeks
        <4>5. Of(at[h])' = Of(h)'
          BY <1>1, <1>p, <4>2, <4>3 DEF Of
        <4>6. at'[h] \in Handler => pc'[at'[h]] = "done"
          BY <4>2, <4>3 DEF Lasting
        <4> QED
          BY <1>1, <4>3, <4>4, <4>5, <4>6 DEF Engaged
      <3> QED
        BY <3>1, <3>2
    <2>2. CASE Operate(h)
      <3>1. CASE at'[h] = None
        BY <3>1
      <3>2. CASE at'[h] # None
        <4>1. at' = at /\ req[h].op = "dup" /\ pc'[h] = "lock"
          BY <1>1, <2>2, <3>2 DEF Operate, Goto, Phases, LifeInv, Types, Places
        <4>2. Engaged(h)
          BY <3>2, <4>1 DEF SocketInv, AtWork
        <4>3. at[h] \in Handler => pc'[at[h]] = "done"
          BY <4>2 DEF Engaged, Lasting
        <4>4. Of(at[h])' = Of(h)'
          BY <1>1, <4>1, <4>2 DEF Engaged, Of
        <4> QED
          BY <1>1, <4>1, <4>3, <4>4 DEF Engaged
      <3> QED
        BY <3>1, <3>2
    <2>3. CASE CloseSocket(h)
      BY <2>3 DEF CloseSocket, Phases, LifeInv, Types
    <2> QED
      BY <2>1, <2>2, <2>3
  <1>4. AtWork'
    <2>1. \A g \in Handler : at[g] # None => Engaged(g)
      BY DEF SocketInv, AtWork
    <2>2. \A g \in Handler : at'[g] # None =>
             \/ /\ at[g] = at'[g] /\ req'[g] = req[g] /\ pc'[g] = pc[g]
                /\ pc[g] = "closing" => at[g] \notin sockets'[Of(g)]
             \/ Engaged(g)'
      BY <1>1, <1>3, <2>1 DEF Engaged, Uses
    <2> QED
      BY <2>2, AtKept DEF SocketInv, Phases
  <1>5. \A q \in Proc : \A s \in sockets[q] :
           /\ sock[s] = "closing" => sock'[s] = "closing"
           /\ sock[s] = "closed" => sock'[s] = "closed"
    <2>1. CASE GetSocket(h) \/ Operate(h)
      BY <2>1 DEF GetSocket, Operate
    <2>2. CASE CloseSocket(h)
      <3>1. sock' = [sock EXCEPT ![at[h]] = "closed"] /\ pc[h] = "closing"
        BY <2>2 DEF CloseSocket
      <3> SUFFICES ASSUME NEW q \in Proc, NEW s \in sockets[q]
                   PROVE  /\ sock[s] = "closing" => sock'[s] = "closing"
                          /\ sock[s] = "closed" => sock'[s] = "closed"
        OBVIOUS
      <3>2. s \in Sock /\ Of(s) = q
        BY DEF SocketInv, Belongs, Phases, LifeInv, Types
      <3>3. at[h] # s
        <4> SUFFICES ASSUME at[h] = s PROVE FALSE
          OBVIOUS
        <4>1. Engaged(h)
          BY <3>2, Kinds, LifecycleAssumption DEF SocketInv, AtWork, Actor
        <4> QED
          BY <3>1, <3>2, <4>1 DEF Engaged
      <3> QED
        BY <3>1, <3>2, <3>3 DEF Phases, LifeInv, Types
    <2> QED
      BY <2>1, <2>2
  <1>6. ClosingOne' /\ AllSwept'
    BY <1>1, <1>5, ClosingKept, SweptKept DEF SocketInv, Phases
  <1> QED
    BY <1>2, <1>4, <1>6 DEF SocketInv

\* Cleanup is a reader: nobody writes its map.
LEMMA ReaderAlone ==
  ASSUME LifeInv, NEW p \in Proc, cleaner[p] \in {"sockets", "closing", "drain"}
  PROVE  mu[p].readers > 0
  <1>1. Cardinality(Readers(p)) \in Nat /\ Cleaning(p) = 1
    BY FS_CardinalityType DEF LifeInv, Counted, Cleaning
  <1> QED
    BY <1>1 DEF LifeInv, Counted

\* A process that is cleaned up gets no new socket: it is dead, or has asked.
LEMMA CleanedOrAsked ==
  ASSUME Phases, NEW p \in Proc, cleaner[p] # "none", ~AskedToExit(p)
  PROVE  alive[p] = "dead"
  BY DEF Phases, LeaveInv, Leaving, AskedToExit

LEMMA SocketWrite ==
  ASSUME Phases, SocketInv, Lasting, NEW h \in Handler, InstallSocket(h) \/ DeleteSocket(h)
  PROVE  SocketInv'
  <1>p. PICK p \in Proc : p = Of(h)
    BY OfProc, Kinds DEF Phases, LifeInv
  <1>1. /\ UNCHANGED <<req, cleaner, alive>> /\ h \in Actor /\ pc[h] = "write"
        /\ mu[p].readers = 0
    BY <1>p, Kinds DEF InstallSocket, DeleteSocket, Exclusive
  <1>2. /\ \A g \in Handler : g # h => at'[g] = at[g] /\ pc'[g] = pc[g]
        /\ \A q \in Proc : q # p => sockets'[q] = sockets[q]
        /\ sockets'[p] \subseteq sockets[p] \cup {h}
    <2>1. \E l : Goto(h, l)
      BY DEF InstallSocket, DeleteSocket
    <2>2. \A g \in Handler : g # h => pc'[g] = pc[g]
      BY <2>1, Kinds DEF Goto, Phases, LifeInv, Places
    <2> QED
      BY <1>p, <2>2, MapWrites DEF Phases, LifeInv
  <1>3. h \in sockets'[p] => pc'[h] = "done" /\ alive[p] = "running"
    <2>1. h \notin sockets[p]
      BY <1>1 DEF SocketInv, Belongs
    <2>2. h \in sockets'[p] => InstallSocket(h)
      BY <1>p, <2>1, MapWrites DEF Phases, LifeInv
    <2>3. InstallSocket(h) => pc'[h] = "done"
      BY <1>1 DEF InstallSocket, Goto, Phases, LifeInv, Places
    <2> QED
      BY <1>p, <2>1, <2>2, <2>3, MapWrites DEF Phases, LifeInv
  <1>4. Belongs'
    <2>1. Of(h)' = p
      BY <1>1, <1>p DEF Of
    <2>2. \A q \in Proc : \A s \in sockets'[q] :
             s \in sockets[q] \/ (Of(s)' = q /\ (s \in Handler => pc'[s] = "done"))
      BY <1>2, <1>3, <2>1
    <2> QED
      BY <2>2, BelongsKept DEF SocketInv, Phases
  <1>5. at'[h] = None \/ Engaged(h)'
    <2>1. CASE InstallSocket(h)
      BY <2>1, MapWrites DEF Phases, LifeInv
    <2>2. CASE DeleteSocket(h) /\ UNCHANGED <<sock, at>>
      <3>1. req[h].op = "close"
        BY <2>2 DEF DeleteSocket
      <3>2. at[h] # None => Engaged(h)
        BY DEF SocketInv, AtWork
      <3> QED
        BY <1>1, <2>2, <3>1, <3>2 DEF Engaged, Uses
    <2>3. CASE DeleteSocket(h) /\ ~UNCHANGED <<sock, at>>
      <3>1. PICK s \in sockets[p] : /\ at' = [at EXCEPT ![h] = s] /\ s \notin sockets'[p]
                                    /\ pc' = [pc EXCEPT ![h] = "closing"]
        BY <1>p, <2>3, MapWrites DEF Phases, LifeInv
      <3>2. s \in Actor /\ Of(s) = p /\ (s \in Handler => pc[s] = "done")
        BY <3>1, Kinds DEF SocketInv, Belongs, Phases, LifeInv, Types
      <3>3. at'[h] = s /\ pc'[h] = "closing" /\ req[h].op = "close"
        BY <1>1, <2>3, <3>1 DEF DeleteSocket, Phases, LifeInv, Types, Places
      <3>4. Of(at[h])' = Of(h)' /\ Of(h)' = p
        BY <1>1, <1>p, <3>2, <3>3 DEF Of
      <3>5. at'[h] \in Handler => pc'[at'[h]] = "done"
        BY <3>2, <3>3 DEF Lasting
      <3>6. at'[h] \notin sockets'[Of(h)']
        BY <3>1, <3>3, <3>4
      <3> QED
        BY <1>1, <3>3, <3>4, <3>5, <3>6 DEF Engaged
    <2> QED
      BY <2>1, <2>2, <2>3
  <1>6. AtWork'
    <2> SUFFICES ASSUME NEW g \in Handler, at'[g] # None
                 PROVE  \/ /\ at[g] = at'[g] /\ req'[g] = req[g] /\ pc'[g] = pc[g]
                           /\ pc[g] = "closing" => at[g] \notin sockets'[Of(g)]
                        \/ Engaged(g)'
      BY AtKept DEF SocketInv, Phases
    <2>1. CASE g = h
      BY <1>5, <2>1
    <2>2. CASE g # h
      <3>1. at[g] = at'[g] /\ req'[g] = req[g] /\ pc'[g] = pc[g] /\ Engaged(g)
        BY <1>1, <1>2, <2>2 DEF SocketInv, AtWork
      <3>2. pc[g] = "closing" => at[g] \notin sockets[Of(g)] /\ at[g] # h
        BY <1>1, <3>1 DEF Engaged
      <3>3. PICK q \in Proc : q = Of(g)
        BY OfProc, Kinds DEF Phases, LifeInv
      <3> QED
        BY <1>2, <3>1, <3>2, <3>3
    <2> QED
      BY <2>1, <2>2
  <1>7. \A q \in Proc : \A s \in sockets'[q] : s \in sockets[q] => sock'[s] = sock[s]
    <2> SUFFICES ASSUME NEW q \in Proc, NEW s \in sockets'[q], s \in sockets[q]
                 PROVE  sock'[s] = sock[s]
      OBVIOUS
    <2>1. s \in Sock /\ s # h /\ Of(s) = q
      BY <1>1 DEF SocketInv, Belongs, Phases, LifeInv, Types
    <2>2. CASE InstallSocket(h)
      BY <2>1, <2>2, MapWrites DEF Phases, LifeInv
    <2>3. CASE DeleteSocket(h) /\ sock' # sock
      <3>1. PICK t \in sockets[p] : sock' = [sock EXCEPT ![t] = "closing"] /\ t \notin sockets'[p]
        BY <1>p, <2>3, MapWrites DEF Phases, LifeInv
      <3>2. t # s
        BY <2>1, <3>1 DEF SocketInv, Belongs
      <3> QED
        BY <2>1, <3>1, <3>2 DEF Phases, LifeInv, Types
    <2> QED
      BY <2>2, <2>3
  <1>8. ClosingOne'
    <2>1. \A q \in Proc : cleaner'[q] = "closing" => cleaner[q] = "closing" /\ sockets'[q] = sockets[q]
      BY <1>1, <1>2, ReaderAlone DEF Phases
    <2> QED
      BY <1>7, <2>1, ClosingKept DEF SocketInv
  <1>9. AllSwept'
    <2>1. ASSUME NEW q \in Proc, cleaner'[q] \in {"drain", "done"}, NEW s \in sockets'[q],
                 s \notin sockets[q]
          PROVE  s \in Handler /\ AskedToExit(q)
      <3>1. q = p /\ s = h /\ alive[p] = "running" /\ cleaner[p] # "none"
        BY <1>1, <1>2, <1>3, <2>1
      <3> QED
        BY <3>1, CleanedOrAsked
    <2>2. \A q \in Proc : cleaner'[q] \in {"drain", "done"} =>
             /\ cleaner[q] \in {"drain", "done"}
             /\ \A s \in sockets'[q] :
                   \/ s \in sockets[q] /\ (sock[s] = "closed" => sock'[s] = "closed")
                   \/ s \in Handler /\ AskedToExit(q)
      BY <1>1, <1>7, <2>1
    <2> QED
      BY <1>1, <2>2, SweptKept DEF SocketInv, Phases
  <1> QED
    BY <1>4, <1>6, <1>8, <1>9 DEF SocketInv

\* A process has no socket and no cleanup before it is known.
LEMMA NewProcess ==
  ASSUME Phases, NEW p \in Proc, p \notin table, alive[p] = "running"
  PROVE  pc[p] = "idle" /\ sockets[p] = {} /\ cleaner[p] = "none"
  <1>1. pc[p] \in {"idle", "done"}
    BY DEF Phases, LifeInv, Known
  <1>2. pc[p] = "idle"
    BY <1>1 DEF Phases, WaiterInv, AtEnd
  <1> QED
    BY <1>2 DEF Phases, ControlInv, Awake

LEMMA SocketGetProcess ==
  ASSUME Phases, SocketInv, Lasting, NEW h \in Handler, GetProcess(h)
  PROVE  SocketInv'
  <1>p. PICK p \in Proc : p = Of(h)
    BY OfProc, Kinds DEF Phases, LifeInv
  <1>1. /\ UNCHANGED <<req, cleaner, at>> /\ pc[h] = "get"
        /\ \A g \in Handler \ {h} : pc'[g] = pc[g]
    <2>1. \A b \in Actor \ {h, p} : pc'[b] = pc[b]
      BY <1>p, Kinds DEF GetProcess, Goto, Phases, LifeInv, Places
    <2> QED
      BY <2>1, Kinds DEF GetProcess
  <1>2. at[h] = None
    BY <1>1 DEF SocketInv, AtWork, Engaged
  <1>3. CASE UNCHANGED <<sockets, sock>>
    <2>1. \A g \in Handler : req'[g] = req[g] /\ (pc'[g] = pc[g] \/ at[g] = None)
      BY <1>1, <1>2
    <2> QED
      BY <1>1, <1>3, <2>1, SocketQuiet DEF Phases
  <1>4. CASE Import(p) /\ p \notin table /\ alive[p] = "running" /\ ~UNCHANGED <<sockets, sock>>
    <2>1. pc[p] = "idle" /\ sockets[p] = {} /\ cleaner[p] = "none"
      BY <1>4, NewProcess
    <2>2. /\ sockets' = [sockets EXCEPT ![p] = sockets[p] \cup {p}]
          /\ sock' = [sock EXCEPT ![p] = "open"]
      BY <1>4 DEF Import
    <2>3. /\ sockets'[p] = {p} /\ \A q \in Proc : q # p => sockets'[q] = sockets[q]
          /\ \A s \in Sock : s # p => sock'[s] = sock[s]
      BY <2>1, <2>2 DEF Phases, LifeInv, Types
    <2>4. Belongs'
      <3>1. Of(p)' = p /\ p \notin Handler
        BY Kinds DEF Of
      <3>2. \A q \in Proc : \A s \in sockets'[q] :
               s \in sockets[q] \/ (Of(s)' = q /\ (s \in Handler => pc'[s] = "done"))
        BY <2>3, <3>1
      <3> QED
        BY <3>2, BelongsKept DEF SocketInv, Phases
    <2>5. AtWork'
      <3> SUFFICES ASSUME NEW g \in Handler, at'[g] # None
                   PROVE  /\ at[g] = at'[g] /\ req'[g] = req[g] /\ pc'[g] = pc[g]
                          /\ pc[g] = "closing" => at[g] \notin sockets'[Of(g)]
        BY AtKept DEF SocketInv, Phases
      <3>1. at[g] = at'[g] /\ req'[g] = req[g] /\ pc'[g] = pc[g] /\ Engaged(g)
        BY <1>1, <1>2 DEF SocketInv, AtWork
      <3>2. ASSUME pc[g] = "closing" PROVE at[g] \notin sockets'[Of(g)]
        <4>1. PICK q \in Proc : q = Of(g)
          BY OfProc, Kinds DEF Phases, LifeInv
        <4>2. pc[q] # "idle"
          BY <3>2, <4>1 DEF Phases, ControlInv, Awake
        <4>3. q # p
          BY <2>1, <4>2
        <4> QED
          BY <2>3, <3>1, <3>2, <4>1, <4>3 DEF Engaged
      <3> QED
        BY <3>1, <3>2
    <2>6. \A q \in Proc : q # p => \A s \in sockets'[q] : s \in sockets[q] /\ sock'[s] = sock[s]
      <3> SUFFICES ASSUME NEW q \in Proc, q # p, NEW s \in sockets'[q]
                   PROVE  s \in sockets[q] /\ sock'[s] = sock[s]
        OBVIOUS
      <3>1. s \in sockets[q] /\ s \in Sock /\ Of(s) = q
        BY <2>3 DEF SocketInv, Belongs, Phases, LifeInv, Types
      <3>2. s # p
        BY <3>1, Kinds
      <3> QED
        BY <2>3, <3>1, <3>2
    <2>7. ClosingOne'
      <3>1. \A q \in Proc : cleaner'[q] = "closing" =>
               /\ cleaner[q] = "closing"
               /\ \A s \in sockets[q] : sock[s] = "closing" => s \in sockets'[q] /\ sock'[s] = "closing"
        BY <1>1, <2>1, <2>3, <2>6
      <3> QED
        BY <3>1, ClosingKept DEF SocketInv
    <2>8. AllSwept'
      <3>1. \A q \in Proc : cleaner'[q] \in {"drain", "done"} =>
               /\ cleaner[q] \in {"drain", "done"}
               /\ \A s \in sockets'[q] : s \in sockets[q] /\ (sock[s] = "closed" => sock'[s] = "closed")
        BY <1>1, <2>1, <2>6
      <3> QED
        BY <1>1, <3>1, SweptKept DEF SocketInv, Phases
    <2> QED
      BY <2>4, <2>5, <2>7, <2>8 DEF SocketInv
  <1> QED
    BY <1>p, <1>3, <1>4 DEF GetProcess, Import

\* Cleanup closes the sockets of its own map only.
LEMMA SocketCleanup ==
  ASSUME Phases, SocketInv, Lasting, NEW p \in Proc, Cleanup(p)
  PROVE  SocketInv'
  <1>1. UNCHANGED <<alive, pc, req, sockets, at>>
    BY DEF Cleanup, CleanupRLock, CleanupSocket, CleanupCloseSocket, CleanupMark, CleanupClose
  <1>2. CASE CleanupRLock(p) \/ CleanupClose(p)
    <2>1. UNCHANGED sock /\ \A q \in Proc :
             /\ cleaner'[q] = "closing" => cleaner[q] = "closing"
             /\ cleaner'[q] \in {"drain", "done"} => cleaner[q] \in {"drain", "done"}
      BY <1>2 DEF CleanupRLock, CleanupClose, Phases, LifeInv, Types
    <2> QED
      BY <1>1, <2>1, SocketQuiet DEF Phases
  <1>3. CASE CleanupSocket(p) \/ CleanupCloseSocket(p) \/ CleanupMark(p)
    <2>1. Belongs'
      BY <1>1, BelongsKept DEF SocketInv, Phases
    <2>2. AtWork'
      <3>1. \A h \in Handler : at[h] # None => Engaged(h)
        BY DEF SocketInv, AtWork
      <3> QED
        BY <1>1, <3>1, AtKept DEF SocketInv, Phases, Engaged, Uses
    <2>3. \A q \in Proc : q # p => /\ cleaner'[q] = cleaner[q]
                                   /\ \A s \in sockets[q] : sock'[s] = sock[s]
      <3> SUFFICES ASSUME NEW q \in Proc, q # p, NEW s \in sockets[q]
                   PROVE  cleaner'[q] = cleaner[q] /\ sock'[s] = sock[s]
        BY <1>3 DEF CleanupSocket, CleanupCloseSocket, CleanupMark, Phases, LifeInv, Types
      <3>1. s \in Sock /\ s \notin sockets[p]
        BY DEF SocketInv, Belongs, Phases, LifeInv, Types
      <3> QED
        BY <1>3, <3>1 DEF CleanupSocket, CleanupCloseSocket, CleanupMark, Phases, LifeInv, Types
    <2>4. cleaner'[p] = "closing" => \E s \in sockets'[p] : sock'[s] = "closing"
      BY <1>1, <1>3 DEF CleanupSocket, CleanupCloseSocket, CleanupMark, Phases, LifeInv, Types
    <2>5. cleaner'[p] \in {"drain", "done"} => Swept(p)'
      BY <1>1, <1>3 DEF CleanupSocket, CleanupCloseSocket, CleanupMark, Swept, Phases, LifeInv, Types
    <2>6. ClosingOne'
      BY <1>1, <2>3, <2>4, ClosingKept DEF SocketInv
    <2>7. AllSwept'
      BY <1>1, <2>3, <2>5, SweptKept DEF SocketInv, Phases
    <2> QED
      BY <2>1, <2>2, <2>6, <2>7 DEF SocketInv
  <1> QED
    BY <1>2, <1>3 DEF Cleanup

LEMMA SocketStep == Phases /\ SocketInv /\ [Next]_vars => SocketInv'
  <1> SUFFICES ASSUME Phases, SocketInv, [Next]_vars PROVE SocketInv'
    OBVIOUS
  <1>l. Lasting
    BY LastingStep DEF Phases
  <1>a. \A h \in Handler : at[h] # None => Engaged(h)
    BY DEF SocketInv, AtWork
  <1>1. ASSUME NEW p \in Proc, NEW q \in Proc, Fork(p, q) \/ Die(p) PROVE SocketInv'
    BY <1>1, <1>l, SocketQuiet DEF Fork, Die, Phases
  <1>2. ASSUME NEW a \in Actor, Mark(a) PROVE SocketInv'
    <2>1. UNCHANGED <<sockets, sock, at, req>> /\ pc[a] \in Marking
      BY <1>2 DEF Mark, MarkRLock, MarkSelect, MarkClose, Marking
    <2>2. \A h \in Handler : pc'[h] = pc[h] \/ at[h] = None
      <3>1. \E l : Goto(a, l)
        BY <1>2 DEF Mark, MarkRLock, MarkSelect, MarkClose
      <3>2. a \in Handler => at[a] = None
        BY <1>a, <2>1 DEF Engaged, Marking
      <3> QED
        BY <3>1, <3>2, Kinds DEF Goto, Phases, LifeInv, Places
    <2>3. \A p \in Proc : cleaner'[p] = cleaner[p] \/ cleaner'[p] = "start"
      BY <1>2 DEF Mark, MarkRLock, MarkSelect, MarkClose, Phases, LifeInv, Types
    <2> QED
      BY <1>l, <2>1, <2>2, <2>3, SocketQuiet DEF Phases
  <1>3. ASSUME NEW p \in Proc, Wait(p) PROVE SocketInv'
    <2>1. CASE PollEnter(p) \/ PollReturn(p) \/ Forget(p)
      <3>1. UNCHANGED <<sockets, sock, at, req, cleaner>>
        BY <2>1 DEF PollEnter, PollReturn, Forget
      <3>2. \A h \in Handler : pc'[h] = pc[h]
        BY <2>1, Kinds DEF PollEnter, PollReturn, Forget, Goto, Phases, LifeInv, Places
      <3> QED
        BY <1>l, <3>1, <3>2, SocketQuiet DEF Phases
    <2> QED
      BY <1>2, <1>3, <2>1, Kinds DEF Wait
  <1>4. ASSUME NEW p \in Proc, Cleanup(p) PROVE SocketInv'
    BY <1>4, <1>l, SocketCleanup
  <1>5. ASSUME NEW h \in Handler, Notify(h) PROVE SocketInv'
    <2>1. UNCHANGED <<sockets, sock, at, cleaner>> /\ pc[h] = "idle"
      BY <1>5 DEF Notify
    <2>2. \A g \in Handler : g # h => req'[g] = req[g] /\ pc'[g] = pc[g]
      BY <1>5, Kinds DEF Notify, Goto, Phases, LifeInv, Places, Types
    <2> QED
      BY <1>l, <2>1, <2>2, SocketQuiet DEF Phases
  <1>6. ASSUME NEW h \in Handler, Handle(h) PROVE SocketInv'
    <2>1. CASE WLock(h)
      <3>1. /\ UNCHANGED <<sockets, sock, at, req, cleaner>>
            /\ pc[h] = "lock" /\ pc'[h] = "write"
            /\ \A g \in Handler : g # h => pc'[g] = pc[g]
        BY <2>1, Kinds DEF WLock, Goto, Phases, LifeInv, Places
      <3> QED
        BY <1>l, <3>1, SocketQuiet DEF Phases
    <2> QED
      BY <1>2, <1>6, <1>l, <2>1, SocketGetProcess, SocketWork, SocketWrite, Kinds DEF Handle
  <1>7. CASE UNCHANGED vars
    BY <1>7, <1>l, SocketQuiet DEF vars, Phases
  <1> QED
    BY <1>1, <1>3, <1>4, <1>5, <1>6, <1>7 DEF Next

\* Which sockets are in a map, who is inside one, and what cleanup has closed.
THEOREM SocketsKept == Spec => [](Phases /\ SocketInv)
  <1>1. Init => SocketInv
    BY DEF Init, SocketInv, Belongs, AtWork, ClosingOne, AllSwept
  <1> QED
    BY <1>1, SocketStep, InPhase, PTL DEF Spec
-----------------------------------------------------------------------------
\* No handler changes the map of sockets while cleanup ranges over it: cleanup
\* is a reader of Process.mu, whoever changes the map of a process that is known
\* is alone with it, and a process that is cleaned up is known.
THEOREM MapSafe == Spec => NoWriteUnderIteration
  <1> DEFINE Kept == \A p \in Proc : cleaner[p] \in {"sockets", "closing"} => sockets'[p] = sockets[p]
  <1>1. Phases /\ [Next]_vars => [Kept]_vars
    <2> SUFFICES ASSUME Phases, Next, NEW p \in Proc, cleaner[p] \in {"sockets", "closing"}
                 PROVE  sockets'[p] = sockets[p]
      OBVIOUS
    <2>1. mu[p].readers > 0
      BY ReaderAlone DEF Phases
    <2>2. ASSUME NEW h \in Handler, InstallSocket(h) \/ DeleteSocket(h)
          PROVE  sockets'[p] = sockets[p]
      <3>1. Of(h) # p
        BY <2>1, <2>2 DEF InstallSocket, DeleteSocket, Exclusive
      <3> QED
        BY <2>2, <3>1, MapWrites DEF Phases, LifeInv
    <2>3. ASSUME NEW h \in Handler,
                 GetSocket(h) \/ Operate(h) \/ CloseSocket(h) \/ WLock(h) \/ Notify(h)
          PROVE  sockets' = sockets
      BY <2>3 DEF GetSocket, Operate, CloseSocket, WLock, Notify
    <2>4. ASSUME NEW h \in Handler, GetProcess(h)
          PROVE  sockets'[p] = sockets[p]
      <3>1. PICK q \in Proc : q = Of(h)
        BY OfProc, Kinds DEF Phases, LifeInv
      <3>2. CASE UNCHANGED sockets
        BY <3>2
      <3>3. CASE Import(q) /\ q \notin table /\ alive[q] = "running"
        <4>1. q # p
          BY <3>3, NewProcess
        <4> QED
          BY <3>3, <4>1, Imports DEF Phases, LifeInv
      <3> QED
        BY <2>4, <3>1, <3>2, <3>3 DEF GetProcess
    <2>5. ASSUME NEW a \in Actor, Mark(a)
          PROVE  sockets' = sockets
      BY <2>5 DEF Mark, MarkRLock, MarkSelect, MarkClose
    <2>6. ASSUME NEW q \in Proc, PollEnter(q) \/ PollReturn(q) \/ Forget(q) \/ Cleanup(q) \/ Die(q)
          PROVE  sockets' = sockets
      BY <2>6 DEF PollEnter, PollReturn, Forget, Cleanup, CleanupRLock, CleanupSocket,
                  CleanupCloseSocket, CleanupMark, CleanupClose, Die
    <2>7. ASSUME NEW q \in Proc, NEW r \in Proc, Fork(q, r)
          PROVE  sockets' = sockets
      BY <2>7 DEF Fork
    <2> QED
      BY <2>2, <2>3, <2>4, <2>5, <2>6, <2>7, Kinds DEF Next, Handle, Wait
  <1> QED
    BY <1>1, InPhase, PTL DEF Spec, NoWriteUnderIteration

\* Whenever somebody has Process.mu or waits for it as a writer, somebody goes
\* on: a handler that marks, the writer, or cleanup, which at a socket waits for
\* the work inside and at the pidfd for the end of a poll; unless cleanup and a
\* dup wait for each other.
THEOREM LocksEnd == Spec => []LockHasHolder
  <1>1. Phases /\ SocketInv => LockHasHolder
    <2> SUFFICES ASSUME Phases, SocketInv, NEW p \in Proc,
                        mu[p].readers > 0 \/ mu[p].writer # None, ~DupCircle(p)
                 PROVE  GoesOn(p)
      BY DEF LockHasHolder
    <2>1. mu[p] \in [readers : Nat, writer : Handler \cup {None}]
      BY DEF Phases, LifeInv, Types
    <2>2. CASE cleaner[p] = "sockets"
      BY <2>2 DEF GoesOn
    <2>3. CASE cleaner[p] = "closing"
      <3>1. PICK s \in sockets[p] : sock[s] = "closing"
        BY <2>3 DEF SocketInv, ClosingOne
      <3>2. s \in Sock /\ Of(s) = p /\ s # None
        BY LifecycleAssumption DEF SocketInv, Belongs, Phases, LifeInv, Types, Sock, Actor
      <3>3. ASSUME NEW h \in Inside(s), pc[h] # "inside" PROVE FALSE
        <4>1. h \in Handler /\ at[h] = s /\ req[h].op \in Uses /\ Engaged(h)
          BY <3>2 DEF Inside, SocketInv, AtWork
        <4>2. req[h].op = "dup" /\ pc[h] \in {"lock", "write"} /\ Of(h) = p
          BY <3>2, <3>3, <4>1 DEF Engaged, Uses
        <4> QED
          BY <2>3, <3>1, <4>1, <4>2 DEF DupCircle
      <3> QED
        BY <2>3, <3>1, <3>3 DEF GoesOn
    <2>4. CASE cleaner[p] = "drain"
      <3>1. alive[p] = "dead" \/ Leaving(p, Exits)
        BY <2>4 DEF Phases, LeaveInv
      <3> QED
        BY <2>4, <3>1 DEF GoesOn
    <2>5. CASE cleaner[p] \notin {"sockets", "closing", "drain"} /\ mu[p].readers > 0
      <3>1. mu[p].readers = Cardinality(Readers(p)) /\ mu[p].readers # 0
        BY <2>5, FS_CardinalityType DEF Phases, LifeInv, Counted, Cleaning
      <3>2. Readers(p) # {}
        BY <3>1, FS_EmptySet
      <3> QED
        BY <3>2 DEF Readers, Reads, GoesOn
    <2>6. CASE mu[p].readers = 0 /\ mu[p].writer # None
      <3>1. PICK h \in Handler : h = mu[p].writer
        BY <2>1, <2>6
      <3>2. pc[h] = "write" /\ Of(h) = p
        BY <2>6, <3>1 DEF Phases, LifeInv, Held
      <3>3. Exclusive(h)
        BY <2>6, <3>1, <3>2 DEF Exclusive
      <3> QED
        BY <3>2, <3>3 DEF GoesOn
    <2>7. mu[p].readers > 0 \/ mu[p].readers = 0
      BY <2>1
    <2> QED
      BY <2>2, <2>3, <2>4, <2>5, <2>6, <2>7
  <1> QED
    BY <1>1, SocketsKept, PTL

\* RegisteredClosed: of a process that is gone every socket in the map is closed,
\* whatever calls were under way; except those that a process made which had
\* asked to exit before.
THEOREM NoneLeftOpen == Spec => []RegisteredClosed
  <1>1. Phases /\ SocketInv => RegisteredClosed
    <2> SUFFICES ASSUME Phases, SocketInv, NEW p \in Proc, Gone(p), NEW s \in sockets[p]
                 PROVE  sock[s] = "closed" \/ (AskedToExit(p) /\ s \in Handler)
      BY DEF RegisteredClosed
    <2>1. pc[p] \in {"done", "failed"}
      BY DEF Gone, Phases, ControlInv, Awake
    <2>2. exited[p]
      BY <2>1 DEF Phases, ControlInv, Finished, WaiterInv, AtEnd, GivenUp
    <2>3. cleaner[p] = "done"
      BY <2>2 DEF Gone, Phases, LifeInv, Marked
    <2> QED
      BY <2>3 DEF SocketInv, AllSwept
  <1> QED
    BY <1>1, SocketsKept, PTL

\* TableHasWaiter, the safety core of DeadForgotten and EngineCloses: every
\* process in the table has a goroutine that takes it out, unless the handler of
\* an exit marked it first, and the engine closes with the last of them.
THEOREM TableEmpties == Spec => []TableHasWaiter
  <1>1. Phases => TableHasWaiter
    <2> SUFFICES ASSUME Phases, NEW p \in table
                 PROVE  \/ pc[p] \in {"poll", "polling", "rlock", "select", "close", "forget"}
                        \/ pc[p] \in {"failed", "panic"} /\ exited[p] /\ Leaving(p, Exits)
      BY DEF TableHasWaiter, Phases, WaiterInv
    <2>1. p \in Proc /\ pc[p] \in WaitPlaces
      BY DEF Phases, LifeInv, Types, Places
    <2> QED
      BY <2>1 DEF Phases, WaiterInv, GivenUp, AtEnd, WaitPlaces
  <1> QED
    BY <1>1, InPhase, PTL
=============================================================================
