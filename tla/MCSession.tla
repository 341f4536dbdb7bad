------------------------------ MODULE MCSession ------------------------------
EXTENDS Session

Zero == [k \in Inputs |-> 0]
S(reqs, n) == [n |-> n @@ Zero, known |-> TRUE, named |-> TRUE, reqs |-> reqs]

(* Each scenario is a class of inputs; their state spaces add up. *)
SessionScenarios ==
    {S({"a"}, "prompt" :> 1 @@ "own" :> 1 @@ "loss" :> 1),
     S({"a", "b", "c"}, "prompt" :> 1 @@ "steer" :> 2),
     S({"x"}, "prompt" :> 1 @@ "steer" :> 2),
     S({"a"}, "own" :> 1 @@ "steer" :> 1 @@ "unload" :> 1),
     S({"a", "b"}, "prompt" :> 1 @@ "local" :> 1 @@ "steer" :> 1 @@ "query" :> 1),
     S({"a"}, "prompt" :> 2 @@ "unload" :> 1),
     S({"x"}, "prompt" :> 1 @@ "unload" :> 1 @@ "loss" :> 1),
     S({"a"}, "compact" :> 2 @@ "auto" :> 1),
     S({"a"}, "compact" :> 1 @@ "auto" :> 1 @@ "loss" :> 1),
     S({"a"}, "ask" :> 1 @@ "answer" :> 1 @@ "loss" :> 1 @@ "reopen" :> 1),
     S({"a"}, "idle" :> 1 @@ "own" :> 1 @@ "prompt" :> 1),
     S({"a"}, "stop" :> 1 @@ "own" :> 1 @@ "prompt" :> 1),
     S({"a"}, "idle" :> 1 @@ "reopen" :> 1 @@ "loss" :> 1),
     [S({"a"}, "compact" :> 1 @@ "auto" :> 1 @@ "own" :> 1) EXCEPT !.named = FALSE],
     [S({"a"}, "prompt" :> 1 @@ "loss" :> 1) EXCEPT !.known = FALSE]}

(* A lost connection and a run the engine started by itself *)
GapScenarios == {S({"a"}, "own" :> 1 @@ "loss" :> 1 @@ "reopen" :> 1)}
=============================================================================
