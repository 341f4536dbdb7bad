-------------------------- MODULE MCSessionManager --------------------------
EXTENDS SessionManager, TLC

(* A scenario: three operations, the chats open and stored at the start, and
   how often each fault may happen. *)
NoFault == [f \in Faults |-> 0]
M(kinds, chats, open, n) ==
    [n |-> n @@ NoFault, kind |-> kinds, chat |-> chats, open |-> open, stored |-> {"a"}, mute |-> FALSE,
     held |-> TRUE, limit |-> 2]
Mute(sc) == [sc EXCEPT !.mute = TRUE]
One(sc) == [sc EXCEPT !.limit = 1]
Left(sc) == [sc EXCEPT !.held = FALSE]

A == <<"a", "a", "a">>

ManagerScenarios == {
    M(<<"connect", "connect", "stop">>, A, {}, "cancel" :> 1),
    M(<<"connect", "delete", "connect">>, A, {}, "slow" :> 1),
    M(<<"connect", "delete", "off">>, A, {}, "cancel" :> 1 @@ "slow" :> 1),
    M(<<"media", "delete", "connect">>, A, {}, "unload" :> 1),
    M(<<"auto", "stop", "off">>, A, {}, "refuse" :> 2 @@ "cancel" :> 1 @@ "slow" :> 1),
    Mute(M(<<"connect", "connect", "off">>, A, {}, "cancel" :> 1)),
    Mute(M(<<"connect", "stop", "off">>, A, {}, "slow" :> 1)),
    Mute(M(<<"auto", "auto", "shutdown">>, A, {}, "cancel" :> 0)),
    Mute(M(<<"connect", "reconcile", "off">>, A, {}, "lose" :> 1)),
    M(<<"stop", "stop", "off">>, A, {"a"}, "slow" :> 1),
    One(Mute(M(<<"connect", "auto", "off">>, <<"a", "b", "b">>, {}, "dial" :> 0))),
    Mute(M(<<"auto", "shutdown", "reconcile">>, <<"b", "b", "b">>, {}, "lose" :> 1)),
    M(<<"reconcile", "stop", "connect">>, A, {"a"}, "lose" :> 1 @@ "dial" :> 1),
    M(<<"reconcile", "stop", "off">>, A, {"a"}, "lose" :> 1 @@ "refuse" :> 1),
    M(<<"reconcile", "delete", "off">>, A, {"a"}, "lose" :> 1 @@ "cancel" :> 1),
    M(<<"reconcile", "reconcile", "connect">>, A, {"a", "b"}, "restart" :> 1 @@ "dial" :> 1),
    Left(M(<<"stop", "connect", "reconcile">>, <<"a", "b", "b">>, {"a"}, "restart" :> 1)),
    Left(M(<<"stop", "media", "off">>, <<"a", "b", "b">>, {"a"}, "restart" :> 1)),
    M(<<"shutdown", "connect", "connect">>, A, {}, "slow" :> 1),
    M(<<"shutdown", "off", "reconcile">>, A, {"a"}, "lose" :> 1 @@ "slow" :> 1),
    M(<<"stop", "shutdown", "off">>, A, {"a", "b"}, "unload" :> 1 @@ "slow" :> 1) }
=============================================================================
