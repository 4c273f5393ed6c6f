---------------------------- MODULE GuardedFile ----------------------------
(***************************************************************************)
(* What a reference counted file descriptor promises its callers: an OS    *)
(* file that goroutines may enter while it is open, that refuses new       *)
(* entries as soon as somebody starts to close it, and that is closed only *)
(* when nobody is inside.  FD.tla shows that cmd/run/fd/fd.go keeps this   *)
(* promise for callers that Lock before close(2).                          *)
(***************************************************************************)

CONSTANT Goroutine

VARIABLES inside,  \* the goroutines that may use the OS file number
          phase    \* "open", "closing" or "closed"

avars == <<inside, phase>>

AInit == /\ inside \in SUBSET Goroutine
         /\ phase = "open"

\* IncRef returned true.
Enter(g) == /\ phase = "open"
            /\ g \notin inside
            /\ inside' = inside \cup {g}
            /\ UNCHANGED phase

\* DecRef.
Leave(g) == /\ g \in inside
            /\ inside' = inside \ {g}
            /\ UNCHANGED phase

\* ClosingIncRef returned true.
BeginClose == /\ phase = "open"
              /\ phase' = "closing"
              /\ UNCHANGED inside

\* close(2), after Lock.
FinishClose == /\ phase = "closing"
               /\ inside = {}
               /\ phase' = "closed"
               /\ UNCHANGED inside

ANext == \/ \E g \in Goroutine : Enter(g) \/ Leave(g)
         \/ BeginClose
         \/ FinishClose

ASpec == AInit /\ [][ANext]_avars

AFairSpec == /\ ASpec
             /\ WF_avars(FinishClose)
             /\ \A g \in Goroutine : WF_avars(Leave(g))
=============================================================================
