------------------------------ MODULE FDProofs ------------------------------
(***************************************************************************)
(* The safety of cmd/run/fd/fd.go for any number of goroutines: FDInv is   *)
(* inductive, DrainInv is inductive relative to it when every closer calls *)
(* Lock, and the safety properties of FD follow.                           *)
(***************************************************************************)
EXTENDS FD, FiniteSetTheorems, TLAPS
-----------------------------------------------------------------------------
(* The inductive invariant.                                                 *)

CountedSet == {g \in Goroutine : pc[g] \in Counted}

\* The count is the number of goroutines that must still decrement it.
Balance == Left(refs) = Cardinality(CountedSet)

\* Who can only be where it is because the closed flag is set; a CAS expects
\* it clear.
FlagInv ==
    /\ \A g \in Goroutine :
          /\ pc[g] \in Closing \cup {"undo", "release", "swap", "swapInternal"}
                => IsClosed(refs)
          /\ pc[g] = "cas" => ~IsClosed(seen[g])
    /\ sema > 0 => IsClosed(refs)
    /\ os = "closed" => IsClosed(refs)

\* From the mark to close(2) the elected closer is on its way.
CloserInv ==
    /\ OneCloser
    /\ \A g \in Goroutine : pc[g] = "shut" => os = "closed"
    /\ IsClosed(refs) /\ os = "open" => \E g \in Goroutine : pc[g] \in Closing

\* The number is only swapped out when nobody may use it any more.
NumberInv ==
    (fd = "dead" \/ \E g \in Goroutine : pc[g] \in {"swap", "swapInternal"})
        => /\ IsClosed(refs)
           /\ \A g \in Goroutine : pc[g] \notin Closing \cup {"held"}

\* A count that fell to zero after the close has somebody to swap the number.
ScrubInv ==
    IsClosed(refs) /\ Left(refs) = 0
        => fd = "dead" \/ \E g \in Goroutine : pc[g] \in {"swap", "swapInternal"}

FDInv == TypeOK /\ Balance /\ FlagInv /\ CloserInv /\ NumberInv

\* What Lock adds: a semaphore token, given or about to be given, and a closer
\* past Lock both mean that the holders have left.
DrainInv ==
    (\/ sema > 0
     \/ os = "closed"
     \/ \E g \in Goroutine : pc[g] \in {"release", "locked", "shut"})
        => Holders = {}

\* A closer that sleeps has seen references other than its own, and the decrement
\* that leaves only its own goes on to release the semaphore.
WakeInv ==
    \A g \in Goroutine : pc[g] = "wait" =>
        \/ sema > 0
        \/ Left(refs) > 1
        \/ \E h \in Goroutine : pc[h] = "release"
-----------------------------------------------------------------------------
\* Where a goroutine goes after a load or an add is always worth expanding.
USE DEF AfterIncRef, AfterDecRef, AfterLock

\* The constants as numbers the solvers can compare.
LEMMA Constants ==
    /\ Cardinality(Goroutine) \in Nat
    /\ MaxRefs \in Nat /\ FlagClosed \in Nat /\ MaxCalls \in Nat
    /\ Cardinality(Goroutine) < MaxRefs
    /\ MaxRefs < FlagClosed
    /\ 1 < FlagClosed
<1>1. Cardinality(Goroutine) \in Nat
  BY FDAssumption, FS_CardinalityType DEF FDAssumption
<1>2. QED
  BY <1>1, FDAssumption DEF FDAssumption

\* Moving one goroutine to another label changes the number of counted ones by
\* at most one.
LEMMA Recount ==
    ASSUME TypeOK, NEW g \in Goroutine, NEW l \in Labels, Goto(g, l)
    PROVE  /\ Cardinality(CountedSet) \in Nat
           /\ Cardinality(CountedSet) <= Cardinality(Goroutine)
           /\ Cardinality(CountedSet)' <= Cardinality(Goroutine)
           /\ Cardinality(CountedSet)' =
                IF l \in Counted /\ pc[g] \notin Counted
                THEN Cardinality(CountedSet) + 1
                ELSE IF l \notin Counted /\ pc[g] \in Counted
                     THEN Cardinality(CountedSet) - 1
                     ELSE Cardinality(CountedSet)
<1>1. /\ CountedSet \in SUBSET Goroutine
      /\ CountedSet' \in SUBSET Goroutine
  BY DEF CountedSet
<1>2. /\ IsFiniteSet(CountedSet)
      /\ Cardinality(CountedSet) <= Cardinality(Goroutine)
      /\ Cardinality(CountedSet') <= Cardinality(Goroutine)
  BY <1>1, FS_Subset, FDAssumption DEF FDAssumption
<1>3. Cardinality(CountedSet) \in Nat
  BY <1>2, FS_CardinalityType
<1>4. CASE l \in Counted /\ pc[g] \notin Counted
  <2>1. CountedSet' = CountedSet \cup {g} /\ g \notin CountedSet
    BY <1>4 DEF CountedSet, Goto, TypeOK
  <2>2. QED
    BY <1>2, <1>3, <1>4, <2>1, FS_AddElement
<1>5. CASE l \notin Counted /\ pc[g] \in Counted
  <2>1. CountedSet' = CountedSet \ {g} /\ g \in CountedSet
    BY <1>5 DEF CountedSet, Goto, TypeOK
  <2>2. QED
    BY <1>2, <1>3, <1>5, <2>1, FS_RemoveElement
<1>6. CASE l \in Counted <=> pc[g] \in Counted
  <2>1. CountedSet' = CountedSet
    BY <1>6 DEF CountedSet, Goto, TypeOK
  <2>2. QED
    BY <1>2, <1>3, <1>6, <2>1
<1>7. QED
  BY <1>4, <1>5, <1>6

\* A count of zero or one says who is counted.
LEMMA SmallCount ==
    ASSUME NEW S \in SUBSET Goroutine
    PROVE  /\ Cardinality(S) = 0 => S = {}
           /\ Cardinality(S) = 1 => \A g, h \in S : g = h
<1>1. IsFiniteSet(S)
  BY FS_Subset, FDAssumption DEF FDAssumption
<1>2. Cardinality(S) = 0 => S = {}
  BY <1>1, FS_EmptySet
<1>3. Cardinality(S) = 1 => \E x : S = {x}
  BY <1>1, FS_Singleton
<1>4. QED
  BY <1>2, <1>3

LEMMA InitInv == Init => FDInv /\ DrainInv
<1>1. SUFFICES ASSUME Init
               PROVE  FDInv /\ DrainInv
  OBVIOUS
<1>2. TypeOK
  BY <1>1, Constants DEF Init, TypeOK, Labels
<1>3. Balance
  <2>1. CountedSet = {Creator}
    BY <1>1, FDAssumption DEF FDAssumption, Init, CountedSet, Counted
  <2>2. Cardinality(CountedSet) = 1
    BY <2>1, FS_Singleton
  <2>3. QED
    BY <1>1, <2>2, Constants DEF Init, Balance, Left, IsClosed
<1>4. FlagInv /\ CloserInv /\ NumberInv /\ DrainInv
  BY <1>1, Constants
  DEF Init, FlagInv, CloserInv, OneCloser, NumberInv, DrainInv,
      Closing, IsClosed
<1>5. QED
  BY <1>2, <1>3, <1>4 DEF FDInv

\* The words of refs that are not closed stay below maxRefs, the closed ones
\* keep room for the count.
LEMMA RefsRange ==
    ASSUME FDInv
    PROVE  /\ Left(refs) \in Nat
           /\ Left(refs) < MaxRefs
           /\ refs = IF IsClosed(refs) THEN FlagClosed + Left(refs) ELSE Left(refs)
<1>1. Cardinality(CountedSet) \in Nat /\ Cardinality(CountedSet) <= Cardinality(Goroutine)
  <2>1. CountedSet \in SUBSET Goroutine
    BY DEF CountedSet
  <2>2. QED
    BY <2>1, FS_Subset, FS_CardinalityType, FDAssumption DEF FDAssumption
<1>2. QED
  BY <1>1, Constants DEF FDInv, TypeOK, Balance, Left, IsClosed

\* Every operation of fd.go, whatever the interleaving, preserves FDInv.
LEMMA StepInv == FDInv /\ [Next]_vars => FDInv'
<1> SUFFICES ASSUME FDInv, [Next]_vars
             PROVE  FDInv'
  OBVIOUS
<1>0. TypeOK /\ Balance /\ FlagInv /\ CloserInv /\ NumberInv
  BY DEF FDInv
<1>1. ASSUME NEW g \in Goroutine, IncRef(g)
      PROVE  FDInv'
  <2>1. /\ refs' = refs + 1
        /\ IsClosed(refs') = IsClosed(refs)
        /\ Left(refs') = Left(refs) + 1
    BY <1>1, RefsRange, Constants DEF IncRef, Incremented, IsClosed, Left
  <2>2. PICK l \in {"undo", "panic", "held"} :
          /\ Goto(g, l)
          /\ l = "undo" <=> IsClosed(refs)
          /\ l = "panic" <=> ~IsClosed(refs) /\ refs' >= MaxRefs
    BY <1>1, <2>1 DEF IncRef, Goto
  <2>3. pc[g] = "idle" /\ UNCHANGED <<fd, sema, os, seen>>
    BY <1>1 DEF IncRef, StartCall
  <2>4. l # "panic"
    <3>1. CASE l = "panic"
      <4>1. Cardinality(CountedSet \cup {g}) <= Cardinality(Goroutine)
        <5>1. CountedSet \cup {g} \in SUBSET Goroutine
          BY DEF CountedSet
        <5>2. QED
          BY <5>1, FS_Subset, FDAssumption DEF FDAssumption
      <4>2. Cardinality(CountedSet \cup {g}) = Cardinality(CountedSet) + 1
        <5>1. CountedSet \in SUBSET Goroutine /\ g \notin CountedSet
          BY <2>3 DEF CountedSet, Counted
        <5>2. QED
          BY <5>1, FS_Subset, FS_AddElement, FDAssumption DEF FDAssumption
      <4>3. QED
        BY <1>0, <2>1, <2>2, <3>1, <4>1, <4>2, Constants, RefsRange DEF Balance, Left
    <3>2. QED
      BY <3>1
  <2>5. TypeOK'
    BY <1>0, <1>1, <2>1, <2>2, <2>3, RefsRange, Constants
    DEF TypeOK, Goto, Labels, IncRef, StartCall, IsClosed
  <2>6. Balance'
    <3>1. Cardinality(CountedSet)' = Cardinality(CountedSet) + 1
      BY <1>0, <2>2, <2>3, <2>4, Recount DEF Counted, Labels
    <3>2. QED
      BY <1>0, <2>1, <3>1 DEF Balance
  <2>7. FlagInv' /\ CloserInv' /\ NumberInv'
    BY <1>0, <2>1, <2>2, <2>3, <2>4
    DEF TypeOK, FlagInv, CloserInv, OneCloser, NumberInv, Goto, Closing
  <2>8. QED
    BY <2>5, <2>6, <2>7 DEF FDInv
<1>2. ASSUME NEW g \in Goroutine, UseFD(g)
      PROVE  FDInv'
  <2>1. fd # "dead"
    BY <1>0, <1>2 DEF UseFD, NumberInv
  <2>2. UNCHANGED vars
    BY <1>0, <1>2, <2>1 DEF UseFD, Goto, TypeOK, vars
  <2>3. QED
    BY <1>0, <2>2
    DEF vars, FDInv, TypeOK, Balance, CountedSet, FlagInv, CloserInv, OneCloser, NumberInv
<1>3. ASSUME NEW g \in Goroutine, DecRef(g)
      PROVE  FDInv'
  <2>1. Left(refs) > 0
    <3>1. CountedSet \in SUBSET Goroutine /\ g \in CountedSet
      BY <1>3 DEF DecRef, CountedSet, Counted
    <3>2. Cardinality(CountedSet) # 0
      BY <3>1, SmallCount
    <3>3. QED
      BY <1>0, <3>2, RefsRange DEF Balance
  <2>2. /\ refs' = refs - 1
        /\ IsClosed(refs') = IsClosed(refs)
        /\ Left(refs') = Left(refs) - 1
    <3>1. refs' = Decremented(refs)
      BY <1>3 DEF DecRef
    <3>2. refs \in Nat /\ refs > 0
      BY <1>0, <2>1, Constants DEF TypeOK, Left, IsClosed
    <3>3. refs' = refs - 1
      BY <3>1, <3>2 DEF Decremented
    <3>4. QED
      BY <2>1, <3>2, <3>3, Constants DEF Left, IsClosed
  <2>3. PICK l \in {"release", "swapInternal", "swap", "idle"} :
          /\ Goto(g, l)
          /\ l = "release" <=> IsClosed(refs) /\ Left(refs') = 1
          /\ l \in {"swap", "swapInternal"} <=> IsClosed(refs) /\ Left(refs') = 0
    <3>1. Left(refs') \in Nat /\ Left(refs') < MaxRefs
      BY <2>1, <2>2, RefsRange, Constants
    <3>2. ~(Left(refs') >= MaxRefs)
      BY <3>1, Constants
    <3>3. CASE IsClosed(refs') /\ Left(refs') = 1
      BY <1>3, <2>2, <3>2, <3>3 DEF DecRef
    <3>4. CASE IsClosed(refs') /\ Left(refs') = 0
      BY <1>3, <2>2, <3>2, <3>4 DEF DecRef
    <3>5. CASE ~IsClosed(refs') \/ Left(refs') \notin {0, 1}
      BY <1>3, <2>2, <3>2, <3>5 DEF DecRef
    <3>6. QED
      BY <3>3, <3>4, <3>5
  <2>4. pc[g] \in {"held", "shut", "undo"} /\ UNCHANGED <<fd, sema, os, seen, calls>>
    BY <1>3 DEF DecRef
  <2>5. TypeOK'
    BY <1>0, <2>2, <2>3, <2>4, <2>1, RefsRange, Constants
    DEF TypeOK, Goto, Labels, IsClosed
  <2>6. Balance'
    <3>1. Cardinality(CountedSet)' = Cardinality(CountedSet) - 1
      BY <1>0, <2>3, <2>4, Recount DEF Counted, Labels
    <3>2. QED
      BY <1>0, <2>2, <3>1 DEF Balance
  <2>7. FlagInv' /\ CloserInv'
    BY <1>0, <2>2, <2>3, <2>4
    DEF TypeOK, FlagInv, CloserInv, OneCloser, Goto, Closing
  <2>8. NumberInv'
    <3>1. CASE l \in {"swap", "swapInternal"}
      <4>1. Cardinality(CountedSet)' = 0
        BY <2>3, <2>6, <3>1 DEF Balance
      <4>2. CountedSet' \in SUBSET Goroutine
        BY DEF CountedSet
      <4>3. CountedSet' = {}
        BY <4>1, <4>2, SmallCount
      <4>4. QED
        BY <2>2, <2>3, <3>1, <4>3 DEF NumberInv, CountedSet, Counted, Closing
    <3>2. CASE l \notin {"swap", "swapInternal"}
      BY <1>0, <2>2, <2>3, <2>4, <3>2 DEF TypeOK, NumberInv, Goto, Closing
    <3>3. QED
      BY <3>1, <3>2
  <2>9. QED
    BY <2>5, <2>6, <2>7, <2>8 DEF FDInv
<1>4. ASSUME NEW g \in Goroutine, SemRelease(g)
      PROVE  FDInv'
  <2>1. Goto(g, "idle") /\ pc[g] = "release" /\ UNCHANGED <<refs, fd, os, seen, calls>>
    BY <1>4 DEF SemRelease
  <2>2. TypeOK' /\ FlagInv' /\ CloserInv' /\ NumberInv'
    BY <1>0, <1>4, <2>1
    DEF TypeOK, SemRelease, FlagInv, CloserInv, OneCloser, NumberInv, Goto,
        Closing, Labels
  <2>3. Balance'
    BY <1>0, <2>1, Recount DEF Balance, Counted, Labels
  <2>4. QED
    BY <2>2, <2>3 DEF FDInv
<1>5. ASSUME NEW g \in Goroutine, SwapFD(g)
      PROVE  FDInv'
  <2>1. PICK l \in {"panic", "idle"} : Goto(g, l)
    BY <1>5 DEF SwapFD, Goto
  <2>2. pc[g] \in {"swap", "swapInternal"} /\ UNCHANGED <<refs, sema, os, seen, calls>>
    BY <1>5 DEF SwapFD
  <2>3. TypeOK' /\ FlagInv' /\ CloserInv' /\ NumberInv'
    BY <1>0, <1>5, <2>1, <2>2
    DEF TypeOK, SwapFD, FlagInv, CloserInv, OneCloser, NumberInv, Goto,
        Closing, Labels
  <2>4. Balance'
    BY <1>0, <2>1, <2>2, Recount DEF Balance, Counted, Labels
  <2>5. QED
    BY <2>3, <2>4 DEF FDInv
<1>6. ASSUME NEW g \in Goroutine, ClosingRefused(g)
      PROVE  FDInv'
  <2>1. pc[g] \in {"idle", "reload"} /\ Goto(g, "idle")
    BY <1>0, <1>6 DEF TypeOK, ClosingRefused, StartCall, Goto
  <2>2. UNCHANGED <<refs, fd, sema, os, seen>> /\ calls' \in [Goroutine -> 0 .. MaxCalls]
    BY <1>0, <1>6, Constants DEF TypeOK, ClosingRefused, StartCall
  <2>3. TypeOK' /\ FlagInv' /\ CloserInv' /\ NumberInv'
    BY <1>0, <2>1, <2>2
    DEF TypeOK, FlagInv, CloserInv, OneCloser, NumberInv, Goto, Closing, Labels
  <2>4. Balance'
    BY <1>0, <2>1, <2>2, Recount DEF Balance, Counted, Labels
  <2>5. QED
    BY <2>3, <2>4 DEF FDInv
<1>7. ASSUME NEW g \in Goroutine, ClosingLoad(g)
      PROVE  FDInv'
  <2>1. pc[g] \in {"idle", "reload"} /\ Goto(g, "cas") /\ ~IsClosed(refs)
    BY <1>7 DEF ClosingLoad, StartCall
  <2>2. /\ UNCHANGED <<refs, fd, sema, os>>
        /\ seen' = [seen EXCEPT ![g] = refs]
        /\ calls' \in [Goroutine -> 0 .. MaxCalls]
    BY <1>0, <1>7, Constants DEF TypeOK, ClosingLoad, StartCall
  <2>3. TypeOK' /\ FlagInv' /\ CloserInv' /\ NumberInv'
    BY <1>0, <2>1, <2>2
    DEF TypeOK, FlagInv, CloserInv, OneCloser, NumberInv, Goto, Closing, Labels
  <2>4. Balance'
    BY <1>0, <2>1, <2>2, Recount DEF Balance, Counted, Labels
  <2>5. QED
    BY <2>3, <2>4 DEF FDInv
<1>8. ASSUME NEW g \in Goroutine, ClosingCAS(g)
      PROVE  FDInv'
  <2>1. pc[g] = "cas" /\ UNCHANGED <<fd, sema, os, seen, calls>>
    BY <1>8 DEF ClosingCAS
  <2>2. CASE refs = seen[g]
    <3>1. ~IsClosed(refs)
      BY <1>0, <2>1, <2>2 DEF FlagInv
    <3>2. /\ refs' = FlagClosed + refs + 1
          /\ IsClosed(refs')
          /\ Left(refs') = Left(refs) + 1
      BY <1>8, <2>2, <3>1, RefsRange, Constants
      DEF ClosingCAS, Incremented, IsClosed, Left
    <3>3. PICK l \in {"locked", "marked"} : Goto(g, l)
      BY <1>8, <2>2 DEF ClosingCAS
    <3>4. TypeOK'
      BY <1>0, <2>1, <3>1, <3>2, <3>3, RefsRange, Constants
      DEF TypeOK, Goto, Labels, Left
    <3>5. Balance'
      BY <1>0, <2>1, <3>2, <3>3, Recount DEF Balance, Counted, Labels
    <3>6. FlagInv' /\ CloserInv' /\ NumberInv'
      BY <1>0, <2>1, <3>1, <3>2, <3>3
      DEF TypeOK, FlagInv, CloserInv, OneCloser, NumberInv, Goto, Closing
    <3>7. QED
      BY <3>4, <3>5, <3>6 DEF FDInv
  <2>3. CASE refs # seen[g]
    <3>1. Goto(g, "reload") /\ UNCHANGED refs
      BY <1>8, <2>3 DEF ClosingCAS
    <3>2. TypeOK' /\ FlagInv' /\ CloserInv' /\ NumberInv'
      BY <1>0, <2>1, <3>1
      DEF TypeOK, FlagInv, CloserInv, OneCloser, NumberInv, Goto, Closing, Labels
    <3>3. Balance'
      BY <1>0, <2>1, <3>1, Recount DEF Balance, Counted, Labels
    <3>4. QED
      BY <3>2, <3>3 DEF FDInv
  <2>4. QED
    BY <2>2, <2>3
<1>9. ASSUME NEW g \in Goroutine, Lock(g)
      PROVE  FDInv'
  <2>1. pc[g] = "marked" /\ UNCHANGED <<refs, fd, sema, os, seen, calls>>
    BY <1>9 DEF Lock
  <2>2. PICK l \in {"wait", "locked"} : Goto(g, l)
    BY <1>0, <1>9, <2>1 DEF Lock, FlagInv, Closing
  <2>3. TypeOK' /\ FlagInv' /\ CloserInv' /\ NumberInv'
    BY <1>0, <2>1, <2>2
    DEF TypeOK, FlagInv, CloserInv, OneCloser, NumberInv, Goto, Closing, Labels
  <2>4. Balance'
    BY <1>0, <2>1, <2>2, Recount DEF Balance, Counted, Labels
  <2>5. QED
    BY <2>3, <2>4 DEF FDInv
<1>10. ASSUME NEW g \in Goroutine, SemAcquire(g)
       PROVE  FDInv'
  <2>1. /\ pc[g] = "wait" /\ Goto(g, "locked")
        /\ UNCHANGED <<refs, fd, os, seen, calls>>
        /\ sema > 0 /\ sema' = sema - 1
    BY <1>10 DEF SemAcquire
  <2>2. TypeOK' /\ FlagInv' /\ CloserInv' /\ NumberInv'
    BY <1>0, <2>1
    DEF TypeOK, FlagInv, CloserInv, OneCloser, NumberInv, Goto, Closing, Labels
  <2>3. Balance'
    BY <1>0, <2>1, Recount DEF Balance, Counted, Labels
  <2>4. QED
    BY <2>2, <2>3 DEF FDInv
<1>11. ASSUME NEW g \in Goroutine, OSClose(g)
       PROVE  FDInv'
  <2>1. pc[g] = "locked" /\ UNCHANGED <<refs, fd, sema, seen, calls>>
    BY <1>11 DEF OSClose
  <2>2. Goto(g, "shut") /\ os' = "closed"
    BY <1>0, <1>11, <2>1 DEF OSClose, NumberInv, Closing
  <2>3. TypeOK' /\ FlagInv' /\ CloserInv' /\ NumberInv'
    BY <1>0, <2>1, <2>2
    DEF TypeOK, FlagInv, CloserInv, OneCloser, NumberInv, Goto, Closing, Labels
  <2>4. Balance'
    BY <1>0, <2>1, <2>2, Recount DEF Balance, Counted, Labels
  <2>5. QED
    BY <2>3, <2>4 DEF FDInv
<1>12. CASE UNCHANGED vars
  BY <1>0, <1>12
  DEF vars, FDInv, TypeOK, Balance, CountedSet, FlagInv, CloserInv, OneCloser, NumberInv
<1>13. QED
  BY <1>1, <1>2, <1>3, <1>4, <1>5, <1>6, <1>7, <1>8, <1>9, <1>10, <1>11, <1>12
  DEF Next, Continue

\* What the closers' Lock buys: after a mark the semaphore is only released,
\* and the lock only passed, when no holder is left.
LEMMA StepDrain == Hasty = {} /\ FDInv /\ DrainInv /\ [Next]_vars => DrainInv'
<1> SUFFICES ASSUME Hasty = {}, FDInv, DrainInv, [Next]_vars
             PROVE  DrainInv'
  OBVIOUS
<1>0. TypeOK /\ Balance /\ FlagInv /\ CloserInv /\ NumberInv
  BY DEF FDInv
<1>1. ASSUME NEW g \in Goroutine, IncRef(g)
      PROVE  DrainInv'
  <2>1. PICK l \in {"undo", "panic", "held"} :
          Goto(g, l) /\ (l = "held" => ~IsClosed(refs'))
    BY <1>1 DEF IncRef, Goto
  <2>2. UNCHANGED <<fd, sema, os>> /\ pc[g] = "idle"
    BY <1>1 DEF IncRef, StartCall
  <2>3. CASE l = "held"
    <3>1. ~IsClosed(refs)
      BY <1>1, <2>1, <2>3, RefsRange, Constants DEF IncRef, Incremented, IsClosed, Left
    <3>2. QED
      BY <1>0, <2>1, <2>2, <2>3, <3>1
      DEF TypeOK, FlagInv, DrainInv, Holders, Goto, Closing
  <2>4. CASE l # "held"
    BY <1>0, <2>1, <2>2, <2>4 DEF TypeOK, DrainInv, Holders, Goto
  <2>5. QED
    BY <2>3, <2>4
<1>2. ASSUME NEW g \in Goroutine, UseFD(g)
      PROVE  DrainInv'
  BY <1>0, <1>2 DEF TypeOK, UseFD, DrainInv, Holders, Goto
<1>3. ASSUME NEW g \in Goroutine, DecRef(g)
      PROVE  DrainInv'
  <2>1. PICK l \in {"panic", "release", "swapInternal", "swap", "idle"} :
          Goto(g, l) /\ (l = "release" => IsClosed(refs') /\ Left(refs') = 1)
    BY <1>3 DEF DecRef, Goto
  <2>2. UNCHANGED <<fd, sema, os>>
    BY <1>3 DEF DecRef
  <2>3. CASE l = "release"
    <3>1. CASE os = "closed"
      BY <1>0, <2>1, <2>2, <2>3, <3>1 DEF TypeOK, DrainInv, Holders, Goto
    <3>2. CASE os = "open"
      <4>1. FDInv'
        BY StepInv
      <4>2. PICK k \in Goroutine : pc'[k] \in Closing
        BY <2>1, <2>2, <2>3, <3>2, <4>1 DEF FDInv, CloserInv
      <4>3. CountedSet' \in SUBSET Goroutine /\ Cardinality(CountedSet') = 1
        BY <2>1, <2>3, <4>1 DEF FDInv, Balance, CountedSet
      <4>4. \A h \in CountedSet' : h = k
        BY <4>2, <4>3, SmallCount DEF CountedSet, Counted, Closing
      <4>5. Holders' = {}
        BY <4>2, <4>4 DEF Holders, CountedSet, Counted, Closing
      <4>6. QED
        BY <4>5 DEF DrainInv
    <3>3. QED
      BY <1>0, <3>1, <3>2 DEF TypeOK
  <2>4. CASE l # "release"
    BY <1>0, <2>1, <2>2, <2>4 DEF TypeOK, DrainInv, Holders, Goto
  <2>5. QED
    BY <2>3, <2>4
<1>4. ASSUME NEW g \in Goroutine, SemRelease(g)
      PROVE  DrainInv'
  BY <1>0, <1>4 DEF TypeOK, SemRelease, DrainInv, Holders, Goto
<1>5. ASSUME NEW g \in Goroutine, SwapFD(g)
      PROVE  DrainInv'
  <2>1. PICK l \in {"panic", "idle"} : Goto(g, l)
    BY <1>5 DEF SwapFD, Goto
  <2>2. QED
    BY <1>0, <1>5, <2>1 DEF TypeOK, SwapFD, DrainInv, Holders, Goto
<1>6. ASSUME NEW g \in Goroutine, ClosingRefused(g) \/ ClosingLoad(g)
      PROVE  DrainInv'
  <2>1. pc[g] \in {"idle", "reload"} /\ UNCHANGED <<sema, os>>
    BY <1>6 DEF ClosingRefused, ClosingLoad, StartCall
  <2>2. PICK l \in {"idle", "cas"} : Goto(g, l)
    BY <1>0, <1>6 DEF TypeOK, ClosingRefused, ClosingLoad, StartCall, Goto
  <2>3. QED
    BY <1>0, <2>1, <2>2 DEF TypeOK, DrainInv, Holders, Goto
<1>7. ASSUME NEW g \in Goroutine, ClosingCAS(g)
      PROVE  DrainInv'
  <2>1. PICK l \in {"reload", "marked"} : Goto(g, l)
    BY <1>7 DEF ClosingCAS
  <2>2. QED
    BY <1>0, <1>7, <2>1 DEF TypeOK, ClosingCAS, DrainInv, Holders, Goto
<1>8. ASSUME NEW g \in Goroutine, Lock(g)
      PROVE  DrainInv'
  <2>1. pc[g] = "marked" /\ UNCHANGED <<refs, fd, sema, os>>
    BY <1>8 DEF Lock
  <2>2. PICK l \in {"panic", "wait", "locked"} :
          Goto(g, l) /\ (l = "locked" => ~(Left(refs) > 1))
    BY <1>8 DEF Lock, Goto
  <2>3. CASE l = "locked"
    <3>1. CountedSet \in SUBSET Goroutine /\ g \in CountedSet
      BY <2>1 DEF CountedSet, Counted
    <3>2. Cardinality(CountedSet) \in {0, 1}
      BY <1>0, <2>2, <2>3, RefsRange DEF Balance
    <3>3. \A h \in CountedSet : h = g
      BY <3>1, <3>2, SmallCount
    <3>4. Holders' = {}
      BY <1>0, <2>1, <2>2, <2>3, <3>3 DEF TypeOK, Holders, CountedSet, Counted, Goto
    <3>5. QED
      BY <3>4 DEF DrainInv
  <2>4. CASE l # "locked"
    BY <1>0, <2>1, <2>2, <2>4 DEF TypeOK, DrainInv, Holders, Goto
  <2>5. QED
    BY <2>3, <2>4
<1>9. ASSUME NEW g \in Goroutine, SemAcquire(g)
      PROVE  DrainInv'
  BY <1>0, <1>9 DEF TypeOK, SemAcquire, DrainInv, Holders, Goto
<1>10. ASSUME NEW g \in Goroutine, OSClose(g)
       PROVE  DrainInv'
  BY <1>0, <1>10 DEF TypeOK, OSClose, DrainInv, Holders, Goto
<1>11. CASE UNCHANGED vars
  BY <1>11 DEF vars, DrainInv, Holders
<1>12. QED
  BY <1>1, <1>2, <1>3, <1>4, <1>5, <1>6, <1>7, <1>8, <1>9, <1>10, <1>11
  DEF Next, Continue

\* A count at zero after the close leaves the number swapped or being swapped.
LEMMA StepScrub == FDInv /\ ScrubInv /\ [Next]_vars => ScrubInv'
<1> SUFFICES ASSUME FDInv, ScrubInv, [Next]_vars
             PROVE  ScrubInv'
  OBVIOUS
<1>0. TypeOK /\ Balance /\ FlagInv
  BY DEF FDInv
<1>1. ASSUME NEW g \in Goroutine, IncRef(g)
      PROVE  ScrubInv'
  <2>1. Left(refs') # 0
    BY <1>1, RefsRange, Constants DEF IncRef, Incremented, IsClosed, Left
  <2>2. QED
    BY <2>1 DEF ScrubInv
<1>2. ASSUME NEW g \in Goroutine, UseFD(g)
      PROVE  ScrubInv'
  BY <1>0, <1>2 DEF TypeOK, UseFD, ScrubInv, Goto
<1>3. ASSUME NEW g \in Goroutine, DecRef(g)
      PROVE  ScrubInv'
  <2>1. CASE IsClosed(refs') /\ Left(refs') = 0
    <3>1. pc'[g] \in {"swap", "swapInternal"}
      BY <1>0, <1>3, <2>1, Constants DEF TypeOK, DecRef, Goto
    <3>2. QED
      BY <3>1 DEF ScrubInv
  <2>2. QED
    BY <2>1 DEF ScrubInv
<1>4. ASSUME NEW g \in Goroutine, SemRelease(g) \/ Lock(g) \/ SemAcquire(g) \/ OSClose(g)
      PROVE  ScrubInv'
  <2>1. pc[g] \notin {"swap", "swapInternal"} /\ UNCHANGED <<refs, fd>>
    BY <1>4 DEF SemRelease, Lock, SemAcquire, OSClose
  <2>2. \A h \in Goroutine \ {g} : pc'[h] = pc[h]
    BY <1>0, <1>4 DEF TypeOK, SemRelease, Lock, SemAcquire, OSClose, Goto
  <2>3. QED
    BY <2>1, <2>2 DEF ScrubInv
<1>5. ASSUME NEW g \in Goroutine, SwapFD(g)
      PROVE  ScrubInv'
  BY <1>5 DEF SwapFD, ScrubInv
<1>6. ASSUME NEW g \in Goroutine, ClosingRefused(g) \/ ClosingLoad(g)
      PROVE  ScrubInv'
  <2>1. pc[g] \notin {"swap", "swapInternal"} /\ UNCHANGED <<refs, fd>>
    BY <1>6 DEF ClosingRefused, ClosingLoad, StartCall
  <2>2. \A h \in Goroutine \ {g} : pc'[h] = pc[h]
    BY <1>0, <1>6 DEF TypeOK, ClosingRefused, ClosingLoad, Goto
  <2>3. QED
    BY <2>1, <2>2 DEF ScrubInv
<1>7. ASSUME NEW g \in Goroutine, ClosingCAS(g)
      PROVE  ScrubInv'
  <2>1. CASE refs = seen[g]
    <3>1. ~IsClosed(refs)
      BY <1>0, <1>7, <2>1 DEF ClosingCAS, FlagInv
    <3>2. Left(refs') # 0
      BY <1>7, <2>1, <3>1, RefsRange, Constants DEF ClosingCAS, Incremented, IsClosed, Left
    <3>3. QED
      BY <3>2 DEF ScrubInv
  <2>2. CASE refs # seen[g]
    BY <1>0, <1>7, <2>2 DEF TypeOK, ClosingCAS, ScrubInv, Goto
  <2>3. QED
    BY <2>1, <2>2
<1>8. CASE UNCHANGED vars
  BY <1>8 DEF vars, ScrubInv
<1>9. QED
  BY <1>1, <1>2, <1>3, <1>4, <1>5, <1>6, <1>7, <1>8 DEF Next, Continue

LEMMA StepWake == FDInv /\ WakeInv /\ [Next]_vars => WakeInv'
<1> SUFFICES ASSUME FDInv, WakeInv, [Next]_vars, NEW w \in Goroutine, pc'[w] = "wait"
             PROVE  \/ sema' > 0
                    \/ Left(refs') > 1
                    \/ \E h \in Goroutine : pc'[h] = "release"
  BY DEF WakeInv
<1>0. TypeOK /\ Balance /\ FlagInv /\ CloserInv
  BY DEF FDInv
<1> DEFINE Woken == \/ sema > 0
                    \/ Left(refs) > 1
                    \/ \E h \in Goroutine : pc[h] = "release"
<1>a. pc[w] = "wait" => Woken /\ IsClosed(refs)
  BY <1>0 DEF WakeInv, FlagInv, Closing
\* A step that takes neither the token nor a reference.
<1>b. ASSUME NEW g \in Goroutine, \A h \in Goroutine \ {g} : pc'[h] = pc[h],
             pc[g] # "release", pc'[g] # "wait", UNCHANGED sema,
             IsClosed(refs) => Left(refs') >= Left(refs) /\ Left(refs') \in Nat
      PROVE  Woken'
  <2>1. w # g /\ pc[w] = "wait"
    BY <1>b
  <2>2. CASE \E h \in Goroutine : pc[h] = "release"
    BY <1>b, <2>2
  <2>3. CASE ~ \E h \in Goroutine : pc[h] = "release"
    BY <1>a, <1>b, <2>1, <2>3, RefsRange
  <2>4. QED
    BY <2>2, <2>3
<1>1. ASSUME NEW g \in Goroutine, IncRef(g)
      PROVE  Woken'
  <2>1. Left(refs') = Left(refs) + 1 /\ UNCHANGED sema /\ pc[g] = "idle"
    BY <1>1, RefsRange, Constants DEF IncRef, StartCall, Incremented, IsClosed, Left
  <2>2. pc'[g] \in {"undo", "panic", "held"} /\ \A h \in Goroutine \ {g} : pc'[h] = pc[h]
    BY <1>0, <1>1 DEF IncRef, Goto, TypeOK
  <2>3. QED
    BY <1>b, <2>1, <2>2, RefsRange
<1>2. ASSUME NEW g \in Goroutine,
             UseFD(g) \/ SwapFD(g) \/ OSClose(g) \/ ClosingRefused(g) \/ ClosingLoad(g)
      PROVE  Woken'
  <2>1. UNCHANGED <<refs, sema>> /\ pc[g] # "release"
    BY <1>2 DEF UseFD, SwapFD, OSClose, ClosingRefused, ClosingLoad, StartCall
  <2>2. /\ \A h \in Goroutine \ {g} : pc'[h] = pc[h]
        /\ pc'[g] # "wait" \/ pc'[g] = pc[g]
    BY <1>0, <1>2 DEF UseFD, SwapFD, OSClose, ClosingRefused, ClosingLoad, Goto, TypeOK
  <2>3. pc[g] # "wait"
    BY <1>2 DEF UseFD, SwapFD, OSClose, ClosingRefused, ClosingLoad, StartCall
  <2>4. QED
    BY <1>b, <2>1, <2>2, <2>3, RefsRange
<1>3. ASSUME NEW g \in Goroutine, DecRef(g)
      PROVE  Woken'
  <2>1. /\ pc[g] \in {"held", "shut", "undo"} /\ refs' = Decremented(refs) /\ UNCHANGED sema
        /\ Goto(g, AfterDecRef(refs', pc[g] = "undo"))
    BY <1>3 DEF DecRef
  <2>2. /\ \A h \in Goroutine \ {g} : pc'[h] = pc[h]
        /\ pc'[g] = AfterDecRef(refs', pc[g] = "undo")
    BY <1>0, <2>1 DEF Goto, TypeOK
  <2>3. w # g /\ pc[w] = "wait"
    BY <2>2
  <2>4. Left(refs) > 1
    <3>1. CountedSet \in SUBSET Goroutine /\ g \in CountedSet /\ w \in CountedSet
      BY <2>1, <2>3 DEF CountedSet, Counted
    <3>2. Cardinality(CountedSet) # 0 /\ Cardinality(CountedSet) # 1
      BY <2>3, <3>1, SmallCount
    <3>3. QED
      BY <1>0, <3>2, RefsRange DEF Balance
  <2>5. IsClosed(refs') /\ Left(refs') = Left(refs) - 1 /\ Left(refs') < MaxRefs
    BY <1>a, <2>1, <2>3, <2>4, RefsRange, Constants DEF Decremented, IsClosed, Left
  <2>6. Left(refs') = 1 => pc'[g] = "release"
    BY <2>2, <2>4, <2>5, RefsRange, Constants
  <2>7. QED
    BY <2>4, <2>5, <2>6, RefsRange
<1>4. ASSUME NEW g \in Goroutine, SemRelease(g)
      PROVE  Woken'
  BY <1>0, <1>4 DEF SemRelease, TypeOK
<1>5. ASSUME NEW g \in Goroutine, ClosingCAS(g)
      PROVE  Woken'
  <2>1. pc[g] = "cas" /\ UNCHANGED sema /\ \A h \in Goroutine \ {g} : pc'[h] = pc[h]
    BY <1>0, <1>5 DEF ClosingCAS, Goto, TypeOK
  <2>2. pc'[g] # "wait"
    BY <1>0, <1>5 DEF ClosingCAS, Goto, TypeOK
  <2>3. IsClosed(refs) => UNCHANGED refs
    BY <1>0, <1>5 DEF ClosingCAS, FlagInv
  <2>4. QED
    BY <1>b, <2>1, <2>2, <2>3, RefsRange
<1>6. ASSUME NEW g \in Goroutine, Lock(g)
      PROVE  Woken'
  <2>1. /\ pc[g] = "marked" /\ UNCHANGED <<refs, sema>> /\ pc'[g] = AfterLock(refs)
        /\ \A h \in Goroutine \ {g} : pc'[h] = pc[h]
    BY <1>0, <1>6 DEF Lock, Goto, TypeOK
  <2>2. CASE w = g
    <3>1. Left(refs) > 1
      BY <2>1, <2>2
    <3>2. QED
      BY <2>1, <3>1
  <2>3. CASE w # g
    BY <1>a, <2>1, <2>3
  <2>4. QED
    BY <2>2, <2>3
<1>7. ASSUME NEW g \in Goroutine, SemAcquire(g)
      PROVE  Woken'
  <2>1. pc[g] = "wait" /\ pc'[g] = "locked" /\ \A h \in Goroutine \ {g} : pc'[h] = pc[h]
    BY <1>0, <1>7 DEF SemAcquire, Goto, TypeOK
  <2>2. w # g /\ pc[w] = "wait"
    BY <2>1
  <2>3. QED
    BY <1>0, <2>1, <2>2 DEF CloserInv, OneCloser, Closing
<1>8. CASE UNCHANGED vars
  BY <1>8, <1>a DEF vars
<1>9. QED
  BY <1>1, <1>2, <1>3, <1>4, <1>5, <1>6, <1>7, <1>8 DEF Next, Continue

-----------------------------------------------------------------------------
\* The inductive invariant holds for every number of goroutines and whatever
\* the closers do: Lock or not.
THEOREM Invariance == Spec => []FDInv
<1>1. Init => FDInv
  BY InitInv
<1>2. QED
  BY <1>1, StepInv, PTL DEF Spec

\* The words of fd.go stay in their ranges.
THEOREM TypeCorrect == Spec => []TypeOK
BY Invariance, PTL DEF FDInv

\* The number outlives every reference: the misuse panic of FD() cannot happen
\* between IncRef and DecRef, nor to a closer before its DecRef.
THEOREM NumberSafe == Spec => []NumberOutlivesRefs
<1>1. FDInv => NumberOutlivesRefs
  BY DEF FDInv, NumberInv, NumberOutlivesRefs, TypeOK
<1>2. QED
  BY <1>1, Invariance, PTL

\* ClosingIncRef elects one closer, once.
THEOREM CloseOnce == Spec => []OneCloser
BY Invariance, PTL DEF FDInv, CloserInv

\* When every call has returned no reference is leaked, and the number is gone
\* exactly when the FD was closed.
THEOREM Settles == Spec => []SettledFD
<1>1. Init => ScrubInv
  BY Constants DEF Init, ScrubInv, IsClosed
<1>2. FDInv /\ ScrubInv => SettledFD
  <2>1. SUFFICES ASSUME FDInv, ScrubInv, \A g \in Goroutine : pc[g] = "idle"
                 PROVE  /\ Left(refs) = 0
                        /\ fd = "dead" <=> IsClosed(refs)
                        /\ os = "closed" <=> IsClosed(refs)
    BY DEF SettledFD
  <2>2. CountedSet = {}
    BY <2>1 DEF CountedSet, Counted
  <2>3. Left(refs) = 0
    BY <2>1, <2>2, FS_EmptySet DEF FDInv, Balance
  <2>4. fd = "dead" <=> IsClosed(refs)
    BY <2>1, <2>3 DEF FDInv, NumberInv, ScrubInv
  <2>5. os = "closed" <=> IsClosed(refs)
    BY <2>1 DEF FDInv, TypeOK, FlagInv, CloserInv, Closing
  <2>6. QED
    BY <2>3, <2>4, <2>5
<1>3. QED
  BY <1>1, <1>2, Invariance, StepScrub, PTL DEF Spec

\* With closers that call Lock, nobody between IncRef and DecRef finds the OS
\* file closed.
THEOREM UseIsSafe ==
    ASSUME Hasty = {}
    PROVE  Spec => []NoUseAfterClose
<1>1. DrainInv => NoUseAfterClose \/ os \notin {"open", "closed"}
  BY DEF DrainInv, NoUseAfterClose
<1>2. FDInv /\ DrainInv => NoUseAfterClose
  BY <1>1 DEF FDInv, TypeOK
<1>3. FDInv /\ DrainInv /\ [Next]_vars => DrainInv'
  BY StepDrain
<1>4. QED
  BY <1>2, <1>3, InitInv, Invariance, PTL DEF Spec

\* No reference is taken once ClosingIncRef has marked the FD.
THEOREM NoLateEntry == Spec => NoEntryAfterMark
<1>1. FDInv /\ [Next]_vars
        => [IsClosed(refs) => {g \in Goroutine : pc'[g] = "held"} \subseteq Holders]_vars
  <2>1. SUFFICES ASSUME FDInv, [Next]_vars, IsClosed(refs),
                        NEW h \in Goroutine, pc'[h] = "held"
                 PROVE  pc[h] = "held"
    BY DEF Holders
  <2>2. TypeOK
    BY <2>1 DEF FDInv
  <2>3. ASSUME NEW g \in Goroutine, IncRef(g)
        PROVE  pc[h] = "held"
    <3>1. IsClosed(refs')
      BY <2>1, <2>3, RefsRange, Constants DEF IncRef, Incremented, IsClosed, Left
    <3>2. QED
      BY <2>1, <2>2, <2>3, <3>1 DEF IncRef, Goto, TypeOK
  <2>4. ASSUME NEW g \in Goroutine,
               \/ UseFD(g) \/ DecRef(g) \/ SemRelease(g) \/ SwapFD(g)
               \/ ClosingRefused(g) \/ ClosingLoad(g) \/ ClosingCAS(g)
               \/ Lock(g) \/ SemAcquire(g) \/ OSClose(g)
        PROVE  pc[h] = "held"
    BY <2>1, <2>2, <2>4
    DEF TypeOK, UseFD, DecRef, SemRelease, SwapFD, ClosingRefused, ClosingLoad,
        ClosingCAS, Lock, SemAcquire, OSClose, Goto
  <2>5. CASE UNCHANGED vars
    BY <2>1, <2>5 DEF vars
  <2>6. QED
    BY <2>1, <2>3, <2>4, <2>5 DEF Next, Continue
<1>2. QED
  BY <1>1, Invariance, PTL DEF Spec, NoEntryAfterMark

\* Lock does not sleep for nothing: whatever the interleaving, either its token is
\* there or somebody is still to leave, and will release it.
THEOREM WakesUp == Spec => []NoLostWakeup
<1>1. Init => WakeInv
  BY DEF Init, WakeInv
<1>2. FDInv /\ WakeInv => NoLostWakeup
  <2>1. SUFFICES ASSUME FDInv, WakeInv, NEW g \in Goroutine, pc[g] = "wait", Left(refs) > 1
                 PROVE  \E h \in Goroutine : pc[h] \in {"held", "undo"}
    BY DEF NoLostWakeup, WakeInv
  <2>2. PICK h \in CountedSet : h # g
    <3>1. CountedSet \in SUBSET Goroutine /\ IsFiniteSet(CountedSet) /\ g \in CountedSet
      BY <2>1, FS_Subset, FDAssumption DEF CountedSet, Counted, FDAssumption
    <3>2. Cardinality(CountedSet) # 1
      BY <2>1 DEF FDInv, Balance
    <3>3. CountedSet # {g}
      BY <3>2, FS_Singleton
    <3>4. QED
      BY <3>1, <3>3
  <2>3. h \in Goroutine /\ pc[h] \in Counted
    BY <2>2 DEF CountedSet
  <2>4. pc[h] \notin Closing
    BY <2>1, <2>2, <2>3 DEF FDInv, CloserInv, OneCloser, Closing
  <2>5. QED
    BY <2>3, <2>4 DEF Counted, Closing
<1>3. QED
  BY <1>1, <1>2, StepWake, Invariance, PTL DEF Spec

\* With closers that call Lock, fd.go implements the guarded file its callers
\* rely on: entries only while open, and close(2) only when nobody is inside.
THEOREM Refinement ==
    ASSUME Hasty = {}
    PROVE  Spec => Gate!ASpec
<1>1. Init => Gate!AInit
  BY Constants DEF Init, Gate!AInit, Holders, IsClosed
<1>2. FDInv /\ DrainInv /\ [Next]_vars => [Gate!ANext]_(Gate!avars)
  <2> SUFFICES ASSUME FDInv, DrainInv, [Next]_vars
               PROVE  [Gate!ANext]_(Gate!avars)
    OBVIOUS
  <2> USE DEF Gate!avars, Gate!ANext
  <2>0. TypeOK /\ FlagInv /\ CloserInv /\ NumberInv
    BY DEF FDInv
  <2>1. ASSUME NEW g \in Goroutine, IncRef(g)
        PROVE  [Gate!ANext]_(Gate!avars)
    <3>1. IsClosed(refs') = IsClosed(refs) /\ pc[g] = "idle" /\ UNCHANGED os
      BY <2>1, RefsRange, Constants DEF IncRef, StartCall, Incremented, IsClosed, Left
    <3>2. CASE pc'[g] = "held"
      <4>1. ~IsClosed(refs) /\ os # "closed"
        BY <2>0, <2>1, <3>1, <3>2 DEF IncRef, Goto, TypeOK, FlagInv
      <4>2. Holders' = Holders \cup {g} /\ g \notin Holders
        BY <2>0, <2>1, <3>1, <3>2 DEF IncRef, Goto, TypeOK, Holders
      <4>3. Gate!Enter(g)
        BY <3>1, <4>1, <4>2 DEF Gate!Enter
      <4>4. QED
        BY <4>3
    <3>3. CASE pc'[g] # "held"
      <4>1. Holders' = Holders
        BY <2>0, <2>1, <3>1, <3>3 DEF IncRef, Goto, TypeOK, Holders
      <4>2. QED
        BY <3>1, <4>1
    <3>4. QED
      BY <3>2, <3>3
  <2>2. ASSUME NEW g \in Goroutine, DecRef(g)
        PROVE  [Gate!ANext]_(Gate!avars)
    <3>1. IsClosed(refs') = IsClosed(refs) /\ UNCHANGED os
      <4>1. CountedSet \in SUBSET Goroutine /\ g \in CountedSet
        BY <2>2 DEF DecRef, CountedSet, Counted
      <4>2. Left(refs) # 0
        BY <4>1, SmallCount DEF FDInv, Balance
      <4>3. refs' = Decremented(refs) /\ UNCHANGED os
        BY <2>2 DEF DecRef
      <4>4. refs \in Nat /\ refs # 0
        BY <2>0, <4>2, Constants DEF TypeOK, Left, IsClosed
      <4>5. refs' = refs - 1
        BY <4>3, <4>4 DEF Decremented
      <4>6. QED
        BY <4>2, <4>3, <4>4, <4>5, RefsRange, Constants DEF Left, IsClosed
    <3>2. pc'[g] # "held" /\ \A h \in Goroutine \ {g} : pc'[h] = pc[h]
      BY <2>0, <2>2 DEF DecRef, Goto, TypeOK
    <3>3. CASE pc[g] = "held"
      <4>1. Holders' = Holders \ {g} /\ g \in Holders
        BY <3>2, <3>3 DEF Holders
      <4>2. Gate!Leave(g)
        BY <3>1, <4>1 DEF Gate!Leave
      <4>3. QED
        BY <4>2
    <3>4. CASE pc[g] # "held"
      BY <3>1, <3>2, <3>4 DEF Holders
    <3>5. QED
      BY <3>3, <3>4
  <2>3. ASSUME NEW g \in Goroutine, ClosingCAS(g)
        PROVE  [Gate!ANext]_(Gate!avars)
    <3>1. pc[g] = "cas" /\ UNCHANGED os /\ pc'[g] # "held"
          /\ \A h \in Goroutine \ {g} : pc'[h] = pc[h]
      BY <2>0, <2>3 DEF ClosingCAS, Goto, TypeOK
    <3>2. Holders' = Holders
      BY <3>1 DEF Holders
    <3>3. CASE refs = seen[g]
      <4>1. ~IsClosed(refs) /\ os # "closed"
        BY <2>0, <3>1, <3>3 DEF FlagInv
      <4>2. IsClosed(refs')
        BY <2>3, <3>3, <4>1, RefsRange, Constants
        DEF ClosingCAS, Incremented, IsClosed, Left
      <4>3. Gate!BeginClose
        BY <3>1, <3>2, <4>1, <4>2 DEF Gate!BeginClose
      <4>4. QED
        BY <4>3
    <3>4. CASE refs # seen[g]
      BY <2>3, <3>1, <3>2, <3>4 DEF ClosingCAS
    <3>5. QED
      BY <3>3, <3>4
  <2>4. ASSUME NEW g \in Goroutine, OSClose(g)
        PROVE  [Gate!ANext]_(Gate!avars)
    <3>1. pc[g] = "locked" /\ pc'[g] = "shut" /\ os' = "closed" /\ UNCHANGED refs
          /\ \A h \in Goroutine \ {g} : pc'[h] = pc[h]
      BY <2>0, <2>4 DEF OSClose, NumberInv, Closing, Goto, TypeOK
    <3>2. Holders = {} /\ Holders' = {}
      BY <3>1 DEF DrainInv, Holders
    <3>3. os # "closed" /\ IsClosed(refs)
      BY <2>0, <3>1 DEF CloserInv, OneCloser, FlagInv, Closing
    <3>4. Gate!FinishClose
      BY <3>1, <3>2, <3>3 DEF Gate!FinishClose
    <3>5. QED
      BY <3>4
  <2>5. ASSUME NEW g \in Goroutine,
               \/ SemRelease(g) \/ SwapFD(g) \/ ClosingRefused(g)
               \/ ClosingLoad(g) \/ Lock(g) \/ SemAcquire(g)
        PROVE  [Gate!ANext]_(Gate!avars)
    <3>1. UNCHANGED <<refs, os>> /\ pc[g] # "held" /\ pc'[g] # "held"
          /\ \A h \in Goroutine \ {g} : pc'[h] = pc[h]
      BY <2>0, <2>5
      DEF SemRelease, SwapFD, ClosingRefused, ClosingLoad, StartCall, Lock,
          SemAcquire, Goto, TypeOK
    <3>2. QED
      BY <3>1 DEF Holders
  <2>6. ASSUME NEW g \in Goroutine, UseFD(g)
        PROVE  [Gate!ANext]_(Gate!avars)
    BY <2>0, <2>6 DEF UseFD, NumberInv, Goto, TypeOK, Holders
  <2>7. CASE UNCHANGED vars
    BY <2>7 DEF vars, Holders
  <2>8. QED
    BY <2>1, <2>2, <2>3, <2>4, <2>5, <2>6, <2>7 DEF Next, Continue
<1>3. FDInv /\ DrainInv /\ [Next]_vars => DrainInv'
  BY StepDrain
<1>4. QED
  BY <1>1, <1>2, <1>3, InitInv, Invariance, PTL DEF Spec, Gate!ASpec
=============================================================================
