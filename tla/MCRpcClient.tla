------------------------------ MODULE MCRpcClient ------------------------------
(* RpcClient on small instances: two calls, a handful of sockets. *)
EXTENDS RpcClient, TLC

CONSTANTS c1, c2

Plain(k1, k2) == [kind |-> c1 :> k1 @@ c2 :> k2, noReconnect |-> FALSE,
                  restart |-> FALSE, close |-> FALSE,
                  attempts |-> 1, sockets |-> 2, events |-> 1]
Restarted(s) == [s EXCEPT !.restart = TRUE]
Closed(s) == [s EXCEPT !.close = TRUE]
Dedicated(s) == [s EXCEPT !.noReconnect = TRUE]

Redialling(s) == [s EXCEPT !.sockets = 3, !.events = 0]
Retrying(s) == [Redialling(s) EXCEPT !.attempts = 2]

\* Every kind of call, in pairs that contend for the gate and the epoch; Restart
\* and Close against reconnects, calls bound to an epoch, and a client that does
\* not reconnect.
RpcScenarios ==
    {Plain("call", "retained"), Plain("detached", "notify"), Plain("call", "detached"),
     Plain("token", "call"), Plain("bound", "call"), Dedicated(Plain("token", "retained")),
     Redialling(Closed(Restarted(Plain("call", "unused")))),
     Retrying(Restarted(Plain("call", "unused"))),
     Retrying(Restarted(Plain("bound", "unused"))),
     Retrying(Closed(Plain("retained", "unused"))),
     Retrying(Closed(Dedicated(Plain("call", "retained"))))}

TornScenarios == {[Plain("call", "retained") EXCEPT !.events = 0]}
================================================================================
