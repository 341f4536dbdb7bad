---------------------------- MODULE MCQueueDispatch ----------------------------
(* QueueDispatch on small instances: one chat, a handful of messages. *)
EXTENDS QueueDispatch

CONSTANTS m1, m2, m3

\* Messages with texts of their own.
AllText == (m1 :> "t1") @@ (m2 :> "t2") @@ (m3 :> "t3")
OwnText == [m \in Payloads |-> AllText[m]]

FaultNames == {"persist", "edit", "repeat", "steer", "history", "drop", "rejected", "unloaded",
               "spontaneous", "auto", "manual", "extern", "crash"}

Once(fs) == [f \in FaultNames |-> IF f \in fs THEN 1 ELSE 0]

\* Compactions of both kinds; stops and failed writes; edits that fail; lost and refused requests;
\* foreign runs and compactions; edits, replays and steers; quarantine and unreadable history.
QueueLimits == {
    Once({"auto", "manual"}),
    Once({"persist", "crash", "spontaneous"}),
    Once({"edit", "persist", "crash"}),
    Once({"crash", "drop"}),
    Once({"persist", "drop"}),
    Once({"drop", "rejected", "spontaneous"}),
    Once({"drop", "unloaded", "manual"}),
    Once({"repeat", "steer", "edit", "spontaneous"}),
    Once({"extern", "history", "edit", "spontaneous"})}

\* A refusal; an external write and a lost connection.
RejectLimits == {Once({"rejected"})}
QuarantineLimits == {Once({"extern", "drop"})}
=============================================================================
