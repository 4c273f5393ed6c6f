------------------------- MODULE MCCloudflareClient -------------------------
(* Model checking instance of CloudflareClient: a wrapped request, a cron   *)
(* trigger, and a fetch that either of them may make.                       *)
EXTENDS CloudflareClient

CONSTANTS request, cron, fetch

Invocations == {request, cron}
Triggers == {cron}
OneFetch == {fetch}
=============================================================================
