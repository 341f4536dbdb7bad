----------------------------- MODULE SendLedger -----------------------------
(***************************************************************************)
(* The sendOperationOwner of a chat (internal/session/session.go): the     *)
(* ledger of request ids with a bound on its size, the writes whose answer *)
(* never came, and the retry a recovery may claim.  The owner outlives the *)
(* sessions of its chat.  `forgot' is history: how often a request was     *)
(* displaced.                                                              *)
(***************************************************************************)
EXTENDS Integers, Sequences, FiniteSets

CONSTANTS Requests,        \* request ids of chat.send frames
          Anonymous,       \* the ones that stand for frames without an id
          LedgerCapacity,  \* SendOperationLedgerCapacity
          DetachedLimit    \* DetachedMutationLimit

ASSUME LedgerAssumption ==
    Anonymous \subseteq Requests /\ LedgerCapacity \in Nat \ {0} /\ DetachedLimit \in Nat \ {0}

NoOperation == [phase |-> "none", err |-> "nil", published |-> FALSE]

NewOwner ==
    [ops |-> [r \in Requests |-> NoOperation], fifo |-> <<>>, writes |-> {},
     forgot |-> [r \in Requests |-> 0]]

Named(r) == r \notin Anonymous

(* The first terminal operation of the FIFO, which a new one may displace. *)
Displaceable(o) == {i \in DOMAIN o.fifo : o.ops[o.fifo[i]].phase = "terminal"}
Oldest(I) == CHOOSE i \in I : \A j \in I : i <= j
Without(q, i) == SubSeq(q, 1, i - 1) \o SubSeq(q, i + 1, Len(q))

Displaced(o) ==
    IF Len(o.fifo) < LedgerCapacity THEN o
    ELSE LET i == Oldest(Displaceable(o))
         IN  [o EXCEPT !.ops[o.fifo[i]] = NoOperation, !.fifo = Without(@, i),
                       !.forgot[o.fifo[i]] = @ + 1]

(* Wrong: only a finished operation stops a replay of its request id. *)
AdmissionReplays(o, r) ==
    IF Named(r) /\ o.ops[r].phase = "terminal" THEN "duplicate"
    ELSE IF Named(r) /\ o.ops[r].phase = "none" /\ Len(o.fifo) >= LedgerCapacity /\ Displaceable(o) = {}
         THEN "full" ELSE "go"

(* beginSendOperation: "go", "duplicate" or "full" *)
Admission(o, r) ==
    IF ~Named(r) THEN "go"
    ELSE CASE o.ops[r].phase = "retrying" -> "go"
           [] o.ops[r].phase \in {"admitted", "terminal"} -> "duplicate"
           [] o.ops[r].phase = "none" /\ Len(o.fifo) >= LedgerCapacity /\ Displaceable(o) = {} -> "full"
           [] OTHER -> "go"

(* beginSendOperation, admitted *)
BeginSend(o, r) ==
    IF ~Named(r) THEN o
    ELSE IF o.ops[r].phase \in {"retrying", "admitted"} THEN [o EXCEPT !.ops[r].phase = "admitted"]
    ELSE [Displaced(o) EXCEPT !.ops[r] = [NoOperation EXCEPT !.phase = "admitted"],
                              !.fifo = Append(@, r)]

(* recordSendOperation: a refusal is terminal unless a recovery will retry it *)
RecordSend(o, r, err) ==
    IF ~Named(r) \/ o.ops[r].phase = "terminal" THEN o
    ELSE [o EXCEPT !.ops[r].err = err,
                   !.ops[r].phase = IF err \in {"nil", "resumable", "closed"} THEN @ ELSE "terminal"]

(* callDetachedSend and settleSendWriteLocked *)
RegisterWrite(o, call, r) == [o EXCEPT !.writes = @ \cup {<<call, r>>}]
SettleWrite(o, call) == [o EXCEPT !.writes = {w \in @ : w[1] # call}]

(* hasUnresolvedSendLocked *)
Unresolved(o) == o.writes # {}

(* CompleteDetachedSend: publishDetachedOutcomeWithPolicy(err, FALSE) *)
PublishOutcome(o, r, err) ==
    IF err = "unknown" \/ ~Named(r) THEN o
    ELSE LET done == o.ops[r].phase = "terminal"
             op == IF done \/ o.ops[r].phase = "none" THEN o.ops[r]
                   ELSE [o.ops[r] EXCEPT !.phase = "terminal", !.err = err]
             first == op.phase = "terminal" /\ ~op.published
         IN  [o EXCEPT !.writes = {w \in @ : w[2] # r},
                       !.ops[r] = IF first THEN [op EXCEPT !.published = TRUE] ELSE op]

(* Wrong: a failed recovery tells nobody. *)
PublishErrorQuiet(o, r) == o

(* PublishSendOperationError *)
PublishError(o, r) ==
    IF ~Named(r) \/ o.ops[r].phase = "none" \/ o.ops[r].published THEN o
    ELSE [o EXCEPT !.ops[r] = [phase |-> "terminal", err |-> "hard", published |-> TRUE]]

(* PrepareDetachedSendRetry *)
MayRetry(o, r) == ~Named(r) \/ o.ops[r].phase = "admitted"
PrepareRetry(o, r) == IF Named(r) THEN [o EXCEPT !.ops[r].phase = "retrying"] ELSE o
=============================================================================
