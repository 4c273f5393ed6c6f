-------------------------- MODULE CloudflareClient --------------------------
(***************************************************************************)
(* etc/subtrace-cloudflare/index.ts: the requests that a Cloudflare worker *)
(* handles, and the fetches it makes, are traced.  The application gets    *)
(* its answer at once; the event is published when copies of both bodies   *)
(* have been read, in a promise that the runtime is asked to wait for      *)
(* (waitUntil).  The runtime ends an invocation when its handler and these *)
(* promises are done, or cuts it off after a time limit.                   *)
(***************************************************************************)
EXTENDS Integers, FiniteSets, Sequences

CONSTANTS Requests,  \* invocations of the worker
          Bare,      \* those whose handler is not wrapped, such as a cron trigger
          Fetches    \* fetches made by their handlers

ASSUME CloudflareAssumption == Bare \subseteq Requests /\ Requests \cap Fetches = {}

Calls == Requests \cup Fetches

VARIABLES env,      \* the worker's environment has a SUBTRACE_TOKEN
          token,    \* the global SUBTRACE_TOKEN is set
          pc,       \* "idle", "origin" (handled or fetched), "returned", "threw", "cancelled"
          parent,   \* the invocation of a call
          origin,   \* what the handler, or the real fetch, did: "none", "ok", "error"
          broke,    \* the tracing code itself threw
          reqBody,  \* the copy of the request's body: "stream", "done", "failed"
          resBody,  \* the copy of the response's body
          event,    \* "none", "waiting" for the bodies, "publishing", "published",
                    \* "refused", "logged" on the console, or "lost"
          until,    \* calls whose promise was given to waitUntil
          inbox,    \* what the endpoint received
          over      \* invocations: "running", "ended" or "cut" off

vars == <<env, token, pc, parent, origin, broke, reqBody, resBody, event, until, inbox, over>>

Init == /\ env \in BOOLEAN
        /\ token = FALSE
        /\ pc = [c \in Calls |-> "idle"]
        /\ parent = [c \in Calls |-> c]
        /\ origin = [c \in Calls |-> "none"]
        /\ broke = [c \in Calls |-> FALSE]
        /\ reqBody = [c \in Calls |-> "stream"]
        /\ resBody = [c \in Calls |-> "stream"]
        /\ event = [c \in Calls |-> "none"]
        /\ until = {}
        /\ inbox = <<>>
        /\ over = [r \in Requests |-> "running"]

Traced(c) == c \notin Bare
Alive(c) == parent[c] \in Requests /\ over[parent[c]] = "running"
Pending(c) == event[c] \in {"waiting", "publishing"}
-----------------------------------------------------------------------------
(* The calls.                                                               *)

\* The first wrapped request that sees the token in its environment keeps it.
NeverKept(c) == token
Kept(c) == token \/ (env /\ c \in Requests /\ Traced(c))

\* A request, or a fetch by the handler of one.  A value of cf that is null
\* has no toString: the call fails, and its origin is never asked.
Begin(c, r) ==
    /\ pc[c] = "idle"
    /\ IF c \in Requests THEN r = c ELSE pc[r] # "idle" /\ over[r] = "running"
    /\ parent' = [parent EXCEPT ![c] = r]
    /\ token' = Kept(c)
    /\ \/ pc' = [pc EXCEPT ![c] = "origin"] /\ UNCHANGED broke
       \/ /\ Traced(c)
          /\ pc' = [pc EXCEPT ![c] = "threw"]
          /\ broke' = [broke EXCEPT ![c] = TRUE]
    /\ UNCHANGED <<env, origin, reqBody, resBody, event, until, inbox, over>>

\* publishEvent, until it awaits the answer of the endpoint.
Publish(c) == event' = [event EXCEPT ![c] = IF token THEN "publishing" ELSE "logged"]

NotAwaited(c) == until
WaitUntil(c) == until \cup {c}

\* The origin fails: the event is published without bodies, the error is
\* thrown on.
OriginFails(c) ==
    /\ pc[c] = "origin"
    /\ Alive(c)
    /\ origin' = [origin EXCEPT ![c] = "error"]
    /\ pc' = [pc EXCEPT ![c] = "threw"]
    /\ IF Traced(c) THEN Publish(c) /\ until' = WaitUntil(c) ELSE UNCHANGED <<event, until>>
    /\ UNCHANGED <<env, token, parent, broke, reqBody, resBody, inbox, over>>

\* The origin answers: the response is returned, its event waits for the
\* bodies.  A null in the response's cf, or a response that cannot be
\* cloned (the upgrade to a websocket), makes the call fail instead.
OriginAnswers(c) ==
    /\ pc[c] = "origin"
    /\ Alive(c)
    /\ origin' = [origin EXCEPT ![c] = "ok"]
    /\ \/ /\ pc' = [pc EXCEPT ![c] = "returned"]
          /\ event' = [event EXCEPT ![c] = IF Traced(c) THEN "waiting" ELSE "none"]
          /\ until' = IF Traced(c) THEN WaitUntil(c) ELSE until
          /\ UNCHANGED broke
       \/ /\ Traced(c)
          /\ pc' = [pc EXCEPT ![c] = "threw"]
          /\ broke' = [broke EXCEPT ![c] = TRUE]
          /\ UNCHANGED <<event, until>>
    /\ UNCHANGED <<env, token, parent, reqBody, resBody, inbox, over>>
-----------------------------------------------------------------------------
(* The bodies and the event.                                                *)

\* The request's body is read from the start, the response's from its
\* arrival; either may break off.
ReadRequest(c) ==
    /\ pc[c] \notin {"idle", "cancelled"} /\ Alive(c)
    /\ reqBody[c] = "stream"
    /\ \E s \in {"done", "failed"} : reqBody' = [reqBody EXCEPT ![c] = s]
    /\ UNCHANGED <<env, token, pc, parent, origin, broke, resBody, event, until, inbox, over>>

ReadResponse(c) ==
    /\ origin[c] = "ok" /\ Alive(c)
    /\ resBody[c] = "stream"
    /\ \E s \in {"done", "failed"} : resBody' = [resBody EXCEPT ![c] = s]
    /\ UNCHANGED <<env, token, pc, parent, origin, broke, reqBody, event, until, inbox, over>>

\* Promise.all
AnyRead(c) == reqBody[c] = "done" \/ resBody[c] = "done"
BothRead(c) == reqBody[c] = "done" /\ resBody[c] = "done"

NeverFailed(c) == FALSE
AnyFailed(c) == reqBody[c] = "failed" \/ resBody[c] = "failed"

Collect(c) ==
    /\ event[c] = "waiting"
    /\ Alive(c)
    /\ \/ BothRead(c) /\ Publish(c)
       \/ AnyFailed(c) /\ event' = [event EXCEPT ![c] = "lost"]
    /\ UNCHANGED <<env, token, pc, parent, origin, broke, reqBody, resBody, until, inbox, over>>

\* The endpoint takes the event, with what was collected; its answer may be
\* another status, or the fetch may fail, which is the end of it too.
Posted(c) ==
    /\ event[c] = "publishing"
    /\ Alive(c)
    /\ \/ /\ event' = [event EXCEPT ![c] = "published"]
          /\ inbox' = Append(inbox, [call |-> c, error |-> origin[c] = "error",
                                     bodies |-> <<reqBody[c], resBody[c]>>])
       \/ event' = [event EXCEPT ![c] = "refused"] /\ UNCHANGED inbox
    /\ UNCHANGED <<env, token, pc, parent, origin, broke, reqBody, resBody, until, over>>
-----------------------------------------------------------------------------
(* The runtime.                                                             *)

CallsOf(r) == {c \in Calls : parent[c] = r}

Finished(r) == pc[r] \in {"returned", "threw"}

\* With the invocation its fetches and its pending events end.
Stop(r, how) ==
    /\ over[r] = "running"
    /\ over' = [over EXCEPT ![r] = how]
    /\ pc' = [c \in Calls |-> IF c \in CallsOf(r) /\ pc[c] = "origin" THEN "cancelled" ELSE pc[c]]
    /\ event' = [c \in Calls |-> IF c \in CallsOf(r) /\ Pending(c) THEN "lost" ELSE event[c]]
    /\ UNCHANGED <<env, token, parent, origin, broke, reqBody, resBody, until, inbox>>

\* The handler is done, its response was streamed, and so are the promises.
End(r) ==
    /\ Finished(r)
    /\ pc[r] = "returned" => resBody[r] # "stream"
    /\ \A c \in CallsOf(r) \cap until : ~Pending(c)
    /\ Stop(r, "ended")

\* The time limit of waitUntil, or a client that has gone away.
CutOff(r) == Finished(r) /\ Stop(r, "cut")
-----------------------------------------------------------------------------
Next == \/ \E c \in Calls : \/ \E r \in Requests : Begin(c, r)
                            \/ OriginFails(c) \/ OriginAnswers(c)
                            \/ ReadRequest(c) \/ ReadResponse(c) \/ Collect(c) \/ Posted(c)
        \/ \E r \in Requests : End(r) \/ CutOff(r)

Spec == Init /\ [][Next]_vars

(* Origins answer, bodies end or break off, the endpoint answers, and the   *)
(* runtime goes on with a promise that can go on.  No invocation has to be  *)
(* cut off.                                                                 *)
Fairness == /\ \A c \in Calls : /\ WF_vars(OriginFails(c) \/ OriginAnswers(c))
                                /\ WF_vars(ReadRequest(c)) /\ WF_vars(ReadResponse(c))
                                /\ WF_vars(Collect(c)) /\ WF_vars(Posted(c))
            /\ \A r \in Requests : WF_vars(End(r))

FairSpec == Spec /\ Fairness
-----------------------------------------------------------------------------
TypeOK == /\ env \in BOOLEAN /\ token \in BOOLEAN
          /\ pc \in [Calls -> {"idle", "origin", "returned", "threw", "cancelled"}]
          /\ parent \in [Calls -> Calls]
          /\ origin \in [Calls -> {"none", "ok", "error"}]
          /\ broke \in [Calls -> BOOLEAN]
          /\ reqBody \in [Calls -> {"stream", "done", "failed"}]
          /\ resBody \in [Calls -> {"stream", "done", "failed"}]
          /\ event \in [Calls -> {"none", "waiting", "publishing", "published", "refused", "logged", "lost"}]
          /\ until \subseteq Calls
          /\ over \in [Requests -> {"running", "ended", "cut"}]

\* An event is only lost with a body that broke off or an invocation that
\* was cut off: the runtime's end of an invocation never takes one with it,
\* and a token that the worker has is used from the first wrapped request on.
NothingLost ==
    \A c \in Calls : /\ event[c] = "lost" => AnyFailed(c) \/ over[parent[c]] = "cut"
                     /\ event[c] = "logged" => ~env \/ parent[c] \in Bare

\* The endpoint gets each event once, the events of answered calls with both
\* bodies in full, although the application may be reading them meanwhile.
CompleteOnce ==
    /\ \A i, j \in DOMAIN inbox : inbox[i].call = inbox[j].call => i = j
    /\ \A i \in DOMAIN inbox : inbox[i].error \/ inbox[i].bodies = <<"done", "done">>

\* Every invocation whose handler ends comes to its end, cut off or not, and
\* every answered call has its event settled: nothing that tracing waits for
\* keeps an invocation alive.
EventSettles ==
    /\ \A r \in Requests : pc[r] \in {"returned", "threw"} ~> over[r] # "running"
    /\ \A c \in Calls : (event[c] = "waiting") ~> event[c] \in {"published", "refused", "logged", "lost"}

\* Whatever an event still waits for can still come: calls and events under way
\* belong to an invocation that runs, and the bodies that an event or the
\* runtime waits for are those of an origin that has answered.
NoOrphans ==
    /\ \A c \in Calls : pc[c] = "origin" \/ Pending(c) => Alive(c)
    /\ \A c \in Calls : event[c] = "waiting" => pc[c] = "returned" /\ origin[c] = "ok"
    /\ \A r \in Requests : over[r] = "running" /\ pc[r] = "returned" => Alive(r) /\ origin[r] = "ok"
=============================================================================
