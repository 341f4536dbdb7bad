---------------------------- MODULE MCBrowserStream ----------------------------
EXTENDS BrowserStream

S(frames, create, close, leave, expire) ==
    [frames |-> frames, create |-> create, close |-> close, leave |-> leave, expire |-> expire]

(* The queue holds one frame, so two frames behind a slow write overflow it.
   Each scenario has its own mix of frames and of what the browser does. *)
SmallScenarios ==
    {S(<<"msg", "event", "notice">>, 1, 0, 0, 0),
     S(<<"msg", "msg">>, 1, 0, 0, 0),
     S(<<"event", "delta", "event", "event">>, 1, 0, 0, 0),
     S(<<"event", "event", "event", "event">>, 2, 0, 0, 0),
     S(<<"notice", "event", "event">>, 2, 0, 0, 0),
     S(<<"event", "event">>, 1, 1, 1, 0),
     S(<<"msg">>, 2, 0, 1, 0),
     S(<<"event", "event">>, 1, 0, 1, 1)}

(* A resync meets an overflow whose recovery the run loop has not started. *)
ResyncScenarios == {S(<<"event", "event", "event", "event">>, 2, 0, 0, 0)}
=============================================================================
