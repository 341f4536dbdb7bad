----------------------------- MODULE QueueDispatch -----------------------------
(***************************************************************************)
(* Delivery of the queued messages of one chat: the queue branch of        *)
(* handleChatSend, the queue edits, flushHead and its completion callback  *)
(* (internal/wsbridge/bridge.go), the part of the session's send path and  *)
(* request ledger they run through (internal/session/session.go), the      *)
(* durable store (SendQueueStore) and, as the environment, the engine.     *)
(*                                                                         *)
(* Who interleaves with whom:                                              *)
(*  - the per-chat sequencer (Manager.EnterChat / EnqueueChat) is owned by *)
(*    one client frame, one flushHead or one recovery at a time: seq;      *)
(*  - engine events, provider responses and their completion callbacks,    *)
(*    transport loss and process stops run beside it and can fall between  *)
(*    any two steps of flushHead;                                          *)
(*  - a written request stays with the engine whatever happens to the      *)
(*    connection or the process that wrote it: wire.                       *)
(*                                                                         *)
(* A direct send (prompt on an idle chat, steer during a run) is modelled  *)
(* up to its completion; its transparent recovery is not.                  *)
(*                                                                         *)
(* A definition whose comment begins with "Wrong:" is a mutant of the next *)
(* one, there to show that a property can fail.                            *)
(***************************************************************************)
EXTENDS SendQueueStore

CONSTANTS
    Chat,        \* the chat whose queue is dispatched
    Texts,       \* message texts
    TextOf,      \* the text of each payload
    Anonymous,   \* payloads sent without a request id
    Faults,      \* names of the bounded environment choices, see Spend
    Limits,      \* bound: budgets, how often each of them may happen; a
                 \* behaviour keeps within one of them
    MaxItems,    \* bound: queue items created
    MaxSends,    \* bound: chat.send frames received
    MaxJobs      \* bound: flushHead jobs waiting in the sequencer (saturating)

Ops == Payloads

ASSUME ChatAssumption == Chat \in Chats
ASSUME TextAssumption == TextOf \in [Ops -> Texts] /\ Anonymous \subseteq Ops
ASSUME FaultAssumption == {"edit", "repeat", "extern"} \subseteq Faults
ASSUME LimitAssumption == Limits \subseteq [Faults -> Nat]
ASSUME BoundAssumption == MaxItems \in Nat /\ MaxSends \in Nat /\ MaxJobs \in Nat \ {0}

VARIABLES
    lastId,       \* newest queue item id (newID)
    guard,        \* Handler.dispatching[chat]: item id, 0 when absent
    seq,          \* the sequencer's owner and flushHead's local variables
    jobs,         \* flushHead jobs waiting for the sequencer
    ledger,       \* sendOperationOwner.operations, by payload
    inFlight,     \* Session.promptInFlight
    owner,        \* the call that owns promptSeq, 0 for none
    running,      \* Session.providerRunActive
    compacting,   \* Session.compactionActive, with who opened it: see Compactions
    route,        \* "live", "lost" (resumable or closed), "none" (no session)
    quarantined,  \* Session.quarantineErr != nil
    calls,        \* detached calls of this process whose completion is due
    lastCall,     \* newest call id
    wire,         \* requests the engine holds and has not decided
    transcript,   \* user messages of the session file, in file order
    engineRun,    \* the engine is executing a run
    sends,        \* chat.send frames received so far
    sent,         \* payloads some chat.send frame carried
    owed,         \* history: items acknowledged to the user that no edit has taken
                  \* out of memory or of the file
    spent         \* environment choices used so far

sessionVars == <<ledger, inFlight, owner, running, compacting, route, quarantined>>
engineVars == <<wire, transcript, engineRun>>
clientVars == <<lastId, sends, sent, owed>>
boundVars == <<clientVars, spent>>
vars == <<storeVars, guard, seq, jobs, sessionVars, calls, lastCall, engineVars, boundVars>>

-----------------------------------------------------------------------------
\* What SendOperationResult and beginSendOperation read of one operation.
\* "uncertain" stands for the errors deliveryUncertain accepts.
NoOperation == [phase |-> "none", err |-> "nil"]
Operation == [phase : {"none", "admitted", "retrying", "terminal"},
              err : {"nil", "hard", "uncertain"}]

\* item is 0 for a direct send.  current: the session that made the call is
\* still the chat's session; tainted: that session is quarantined.
Results == {"none", "ok", "rejected", "busy", "unloaded", "lost"}
Call == [id : Nat, op : Ops, item : Nat, steer : BOOLEAN,
         res : Results, current : BOOLEAN, tainted : BOOLEAN]
Request == [call : Nat, op : Ops, item : Nat, steer : BOOLEAN]
Message == [op : Ops, item : Nat]

\* A compaction the engine began by itself, or one a Compact call owns.
Compactions == {"none", "auto", "manual"}

\* "append": handleChatSend between its snapshots and Append.  The others are
\* flushHead before the step they name.
Steps == {"free", "append", "reconcile", "checkpoint", "mark", "send"}
Sequencer == [pc : Steps, item : Item \cup {NoItem}, was : BOOLEAN,
              cursor : Nat, op : Ops, drain : BOOLEAN]
Free == [pc |-> "free", item |-> NoItem, was |-> FALSE, cursor |-> 0,
         op |-> CHOOSE op \in Ops : TRUE, drain |-> FALSE]

TypeOK ==
    /\ StoreTypeOK
    /\ lastId \in Nat /\ guard \in Nat /\ jobs \in 0..MaxJobs
    /\ seq \in Sequencer
    /\ ledger \in [Ops -> Operation]
    /\ inFlight \in BOOLEAN /\ running \in BOOLEAN /\ compacting \in Compactions
    /\ owner \in Nat
    /\ route \in {"live", "lost", "none"} /\ quarantined \in BOOLEAN
    /\ calls \in SUBSET Call /\ lastCall \in Nat
    /\ wire \in SUBSET Request
    /\ transcript \in Seq(Message) /\ engineRun \in BOOLEAN
    /\ sends \in Nat /\ sent \in SUBSET Ops /\ owed \in SUBSET (Nat \X Ops)
    /\ spent \in [Faults -> Nat]

Init ==
    /\ StoreInit
    /\ lastId = 0 /\ guard = 0 /\ jobs = 0
    /\ seq = Free
    /\ ledger = [op \in Ops |-> NoOperation]
    /\ inFlight = FALSE /\ running = FALSE /\ compacting = "none"
    /\ owner = 0
    /\ route = "live" /\ quarantined = FALSE
    /\ calls = {} /\ lastCall = 0
    /\ wire = {} /\ transcript = <<>> /\ engineRun = FALSE
    /\ sends = 0 /\ sent = {} /\ owed = {}
    /\ spent = [f \in Faults |-> 0]

\* One use of each of the bounded environment choices fs.
SpendAll(fs) == /\ \E l \in Limits : \A f \in Faults :
                        spent[f] <= l[f] /\ (f \in fs => spent[f] < l[f])
                /\ spent' = [f \in Faults |-> IF f \in fs THEN spent[f] + 1 ELSE spent[f]]

Spend(f) == SpendAll({f})

\* How a write of the store may end: failures are bounded choices.
Persist(o) == IF o = "ok" THEN UNCHANGED spent ELSE Spend("persist")

q == mem[Chat]
Streaming == inFlight \/ running
Idle == ~Streaming /\ compacting = "none"
Scheduled == IF jobs < MaxJobs THEN jobs + 1 ELSE jobs

\* Wrong: no drain is scheduled.
DrainForgotten == UNCHANGED jobs

\* scheduleIdleDrain after a store step.
DrainIfBacklog == jobs' = IF mem'[Chat].disp # NoItem \/ mem'[Chat].items # <<>>
                          THEN Scheduled ELSE jobs

\* dispatching.CompareAndDelete(chatID, item.DeliveryID)
Release(id) == guard' = IF guard = id THEN 0 ELSE guard

\* What a call becomes when its session loses the route: an answer that was a
\* success or an unloaded route keeps its meaning, any other error is made
\* ambiguous by finishDetachedSend.
LoseCalls == calls' = {IF c.res \in {"none", "rejected", "busy"} THEN [c EXCEPT !.res = "lost"] ELSE c
                       : c \in calls}

ClearLatches == inFlight' = FALSE /\ running' = FALSE /\ compacting' = "none"

-----------------------------------------------------------------------------
(***************************************************************************)
(* chat.send.                                                              *)
(***************************************************************************)

Known(op) == op \notin Anonymous /\ ledger[op].phase # "none"

\* One more chat.send frame.  A second frame with the same payload (a replay,
\* or the same words typed again) and a steer are bounded choices.
Received(op, steer) ==
    /\ sends < MaxSends
    /\ sends' = sends + 1
    /\ sent' = sent \cup {op}
    /\ SpendAll({f \in {"repeat", "steer"} :
                    IF f = "repeat" THEN op \in sent ELSE steer})

\* handleChatSend takes the sequencer and reads the run latches, the backlog
\* and the ledger.  A replay the ledger knows is answered from it.
SendToQueue(op) ==
    /\ seq.pc = "free" /\ route # "none" /\ lastId < MaxItems
    /\ ~Idle \/ HasBacklog(Chat)
    /\ ~Known(op)
    /\ Received(op, FALSE)
    /\ seq' = [Free EXCEPT !.pc = "append", !.op = op, !.drain = HasBacklog(Chat) /\ Idle]
    /\ UNCHANGED <<storeVars, guard, jobs, sessionVars, calls, lastCall, engineVars, lastId, owed>>

\* Append, release, ack, publish and scheduleIdleDrain.
SendAppend(o) ==
    /\ seq.pc = "append"
    /\ StoreAppend(Chat, NewItem(lastId + 1, seq.op), o)
    /\ Persist(o)
    /\ lastId' = lastId + 1
    /\ owed' = IF o = "ok" THEN owed \cup {<<lastId + 1, seq.op>>} ELSE owed
    /\ IF o = "ok" /\ seq.drain THEN DrainIfBacklog ELSE UNCHANGED jobs
    /\ seq' = Free
    /\ UNCHANGED <<guard, sessionVars, calls, lastCall, engineVars, sends, sent>>

NewCall(op, item, steer) ==
    [id |-> lastCall + 1, op |-> op, item |-> item, steer |-> steer,
     res |-> "none", current |-> TRUE, tainted |-> FALSE]

\* CallDetached with the frame written: the engine now holds the request.
Written(op, item, steer) ==
    /\ lastCall' = lastCall + 1
    /\ wire' = wire \cup {[call |-> lastCall + 1, op |-> op, item |-> item, steer |-> steer]}

\* recordSendOperation / the admission of beginSendOperation.
Ledger(op, phase, err) ==
    IF op \in Anonymous THEN ledger
    ELSE [ledger EXCEPT ![op] = [phase |-> phase, err |-> err]]

\* The direct branch of handleChatSend, admitted and written.
SendDirect(op, steer) ==
    /\ seq.pc = "free" /\ route = "live" /\ ~quarantined
    /\ IF steer THEN ~Idle ELSE Idle /\ ~HasBacklog(Chat)
    /\ ~Known(op)
    /\ Received(op, steer)
    /\ ledger' = Ledger(op, "admitted", "nil")
    /\ calls' = calls \cup {NewCall(op, 0, steer)}
    /\ Written(op, 0, steer)
    /\ IF steer THEN UNCHANGED <<inFlight, owner>>
                ELSE inFlight' = TRUE /\ owner' = lastCall + 1
    /\ UNCHANGED <<storeVars, guard, seq, jobs, running, compacting, route, quarantined,
                   transcript, engineRun, lastId, owed>>

(***************************************************************************)
(* chat.queue.remove, .move and .clear, each in its turn of the sequencer. *)
(* A failed write is answered by persist_failed and memory is as before,   *)
(* but unless it failed before the rename the file is the edited one.      *)
(***************************************************************************)
Edit(o) == /\ seq.pc = "free" /\ route # "none"
           /\ SpendAll(IF o = "ok" THEN {"edit"} ELSE {"edit", "persist"})
           /\ UNCHANGED <<guard, seq, jobs, sessionVars, calls, lastCall, engineVars,
                          lastId, sends, sent>>

\* An edit takes the messages out: done, or refused with the file edited, when
\* the next stop loses them.
TakesOut(o, out) ==
    owed' = IF o = "unwritten" THEN owed ELSE {p \in owed : p[1] \notin out}

QueueRemove(id, o) == StoreRemove(Chat, id, o) /\ Edit(o) /\ TakesOut(o, {id})
QueueMove(id, toIndex, o) == StoreMove(Chat, id, toIndex, o) /\ Edit(o) /\ UNCHANGED owed
QueueClear(o) == StoreClear(Chat, o) /\ Edit(o) /\ TakesOut(o, Ids(q.items))

\* The scope of the engine, once the engine has emptied its own queue, which
\* holds nothing of ours: the revision tells the browsers.  The scope "all" is
\* this turn and then QueueClear's.
QueueClearEngine(o) == /\ route = "live" /\ ~quarantined
                       /\ StoreBump(Chat, o) /\ Edit(o) /\ UNCHANGED owed

-----------------------------------------------------------------------------
(***************************************************************************)
(* flushHead.                                                              *)
(***************************************************************************)

\* Every return of flushHead; park also releases the guard and publishes the
\* queue_delivery_uncertain notice.
Return == seq' = Free
Park(id) == Return /\ Release(id)

AttemptedFound == q.disp # NoItem /\ q.disp.state = DispatchAttempted

\* Early returns: a guard is set, the chat is busy and the dispatch is not an
\* attempted one, the queue is empty, or the reservation could not be written.
FlushSkip ==
    /\ seq.pc = "free" /\ jobs > 0
    /\ \/ guard # 0
       \/ ~Idle /\ ~AttemptedFound
       \/ ~HasBacklog(Chat)
    /\ jobs' = jobs - 1
    /\ UNCHANGED <<storeVars, guard, seq, sessionVars, calls, lastCall, engineVars, boundVars>>

\* Wrong: does not ask for the guard.
FlushUnguarded == seq.pc = "free" /\ jobs > 0 /\ jobs' = jobs - 1

FlushReady == seq.pc = "free" /\ jobs > 0 /\ guard = 0 /\ jobs' = jobs - 1

\* BeginDispatch reserves the head of the queue.
FlushReserve(o) ==
    /\ FlushReady /\ Idle
    /\ StoreBeginDispatch(Chat, o)
    /\ Persist(o)
    /\ IF o = "ok"
       THEN /\ guard' = mem'[Chat].disp.id
            /\ seq' = [Free EXCEPT !.pc = "checkpoint", !.item = mem'[Chat].disp]
       ELSE UNCHANGED <<guard, seq>>
    /\ UNCHANGED <<sessionVars, calls, lastCall, engineVars, clientVars>>

\* BeginDispatch returns the dispatch it finds.
FlushResume ==
    /\ FlushReady /\ q.disp # NoItem
    /\ Idle \/ AttemptedFound
    /\ guard' = q.disp.id
    /\ seq' = [Free EXCEPT !.pc = IF AttemptedFound THEN "reconcile" ELSE "checkpoint",
                           !.item = q.disp, !.was = TRUE]
    /\ UNCHANGED <<storeVars, sessionVars, calls, lastCall, engineVars, boundVars>>

\* inspectQueueHistory needs the owning epoch and an unquarantined route.
HistoryReadable == route = "live" /\ ~quarantined

HistoryFails == /\ seq.pc \in {"reconcile", "checkpoint"}
                /\ IF HistoryReadable THEN Spend("history") ELSE UNCHANGED spent
                /\ Park(seq.item.id)
                /\ UNCHANGED <<storeVars, jobs, sessionVars, calls, lastCall, engineVars, clientVars>>

\* DurableUserMessageAfter: a later user message with the item's text.
Evidence(item) == \E i \in DOMAIN transcript :
    i > item.cursor /\ TextOf[transcript[i].op] = TextOf[item.op]

\* completeSendOperationLocked: the first terminal outcome stays.
Terminal(op, err) ==
    IF op \in Anonymous \/ ledger[op].phase \in {"none", "terminal"} THEN ledger
    ELSE [ledger EXCEPT ![op] = [phase |-> "terminal", err |-> err]]

ReconcileFound(o) ==
    /\ seq.pc = "reconcile" /\ HistoryReadable /\ Evidence(seq.item)
    /\ StoreCompleteDispatch(Chat, seq.item.id, o)
    /\ Persist(o)
    /\ Park(seq.item.id)
    /\ ledger' = IF o = "ok" THEN Terminal(seq.item.op, "nil") ELSE ledger
    /\ IF o = "ok" THEN DrainIfBacklog ELSE UNCHANGED jobs
    /\ UNCHANGED <<inFlight, owner, running, compacting, route, quarantined,
                   calls, lastCall, engineVars, clientVars>>

\* Wrong: the message is given up.
AbsentIsDropped ==
    /\ seq.pc = "reconcile" /\ HistoryReadable /\ ~Evidence(seq.item)
    /\ StoreCompleteDispatch(Chat, seq.item.id, "ok")
    /\ Park(seq.item.id)
    /\ UNCHANGED <<jobs, sessionVars, calls, lastCall, engineVars, boundVars>>

\* Absence from history is not rejection: the dispatch stays.
ReconcileAbsent ==
    /\ seq.pc = "reconcile" /\ HistoryReadable /\ ~Evidence(seq.item)
    /\ Park(seq.item.id)
    /\ UNCHANGED <<storeVars, jobs, sessionVars, calls, lastCall, engineVars, boundVars>>

\* DurableHistoryLeaf.
Checkpoint ==
    /\ seq.pc = "checkpoint" /\ HistoryReadable
    /\ seq' = [seq EXCEPT !.pc = "mark", !.cursor = Len(transcript)]
    /\ UNCHANGED <<storeVars, guard, jobs, sessionVars, calls, lastCall, engineVars, boundVars>>

Mark(o) ==
    /\ seq.pc = "mark"
    /\ StoreMarkAttempted(Chat, seq.item.id, seq.cursor, o)
    /\ Persist(o)
    /\ IF o = "ok"
       THEN /\ seq' = [seq EXCEPT !.pc = "send", !.item = mem'[Chat].disp]
            /\ UNCHANGED guard
       ELSE Park(seq.item.id)
    /\ UNCHANGED <<jobs, sessionVars, calls, lastCall, engineVars, clientVars>>

(***************************************************************************)
(* SendPromptDetachedWithRequestIDAndCompletion for the marked item, with  *)
(* PrepareDetachedSendRetry before it for a dispatch that was found.       *)
(***************************************************************************)
Admits(item) ==
    \/ item.op \in Anonymous
    \/ ledger[item.op].phase = "none"
    \/ seq.was /\ ledger[item.op].phase = "admitted"

\* Reasons sendPrompt returns before it writes anything.
WriteRefused ==
    IF quarantined THEN "hard"
    ELSE IF route # "live" THEN "uncertain"
    ELSE IF ~Idle THEN "hard" ELSE "nil"

FlushSend ==
    /\ seq.pc = "send" /\ Admits(seq.item) /\ WriteRefused = "nil"
    /\ calls' = calls \cup {NewCall(seq.item.op, seq.item.id, FALSE)}
    /\ Written(seq.item.op, seq.item.id, FALSE)
    /\ inFlight' = TRUE /\ owner' = lastCall + 1
    /\ ledger' = Ledger(seq.item.op, "admitted", "nil")
    /\ Return
    /\ UNCHANGED <<storeVars, guard, jobs, running, compacting, route, quarantined,
                   transcript, engineRun, boundVars>>

\* The write itself fails: the epoch is dead and the frame may be partial, or
\* complete with its acknowledgement lost.
FlushSendBreaks ==
    /\ seq.pc = "send" /\ Admits(seq.item) /\ WriteRefused = "nil"
    /\ Spend("drop")
    /\ \/ Written(seq.item.op, seq.item.id, FALSE)
       \/ UNCHANGED <<wire, lastCall>>
    /\ ledger' = Ledger(seq.item.op, "terminal", "uncertain")
    /\ route' = "lost" /\ ClearLatches /\ LoseCalls
    /\ Park(seq.item.id)
    /\ UNCHANGED <<storeVars, jobs, owner, quarantined, transcript, engineRun, clientVars>>

\* A synchronous error.  It is recorded in the ledger; an uncertain one leaves
\* the dispatch, any other restores it to the head of the queue.
FlushSendFails(err, o) ==
    /\ IF err = "uncertain"
       THEN o = "ok" /\ UNCHANGED <<storeVars, spent>>
       ELSE StoreRestoreDispatch(Chat, seq.item.id, o) /\ Persist(o)
    /\ Park(seq.item.id)
    /\ UNCHANGED <<jobs, inFlight, owner, running, compacting, route, quarantined,
                   calls, lastCall, engineVars, clientVars>>

FlushSendRefused(o) ==
    /\ seq.pc = "send" /\ Admits(seq.item) /\ WriteRefused # "nil"
    /\ ledger' = Ledger(seq.item.op,
                        IF WriteRefused = "hard" THEN "terminal" ELSE "admitted", WriteRefused)
    /\ FlushSendFails(WriteRefused, o)

\* beginSendOperation answers for the provider: the operation is known.
FlushSendDuplicate(o) ==
    /\ seq.pc = "send" /\ ~Admits(seq.item)
    /\ LET err == ledger[seq.item.op].err
       IN /\ err # "nil"
          /\ UNCHANGED ledger
          /\ FlushSendFails(err, o)

\* ... with a nil error, which flushHead takes for an admitted write.
FlushSendAbsorbed ==
    /\ seq.pc = "send" /\ ~Admits(seq.item)
    /\ ledger[seq.item.op].err = "nil"
    /\ Return
    /\ UNCHANGED <<storeVars, guard, jobs, sessionVars, calls, lastCall, engineVars, boundVars>>

-----------------------------------------------------------------------------
(***************************************************************************)
(* Completions: the callback sendPrompt registered with CallDetached, then *)
(* completePrompt, finishDetachedSend and the caller's complete function.  *)
(***************************************************************************)

\* completePrompt: an error ends the prompt it belongs to unless its run is
\* already known to be active.
EndPrompt(c) == inFlight' = IF c.res # "ok" /\ owner = c.id /\ ~running THEN FALSE ELSE inFlight

\* Wrong: a lost outcome counts as a refusal.
DefiniteWhenLost(c) == c.res \in {"rejected", "busy", "unloaded", "lost"}

\* finishDetachedSend overrides any error of a quarantined session.
Definite(c) == \/ c.res \in {"rejected", "busy", "unloaded"}
               \/ c.res = "lost" /\ c.tainted

\* The prompt this process still owns met a running agent: it is steered.
Steers(c) == c.res = "busy" /\ ~c.steer /\ owner = c.id /\ inFlight

CompleteAccepted(c, o) ==
    /\ c \in calls /\ c.item # 0 /\ c.res = "ok"
    /\ calls' = calls \ {c}
    /\ ledger' = Terminal(c.op, "nil")
    /\ IF Dispatching(q, c.item)
       THEN /\ StoreCompleteDispatch(Chat, c.item, o)
            /\ Persist(o)
            /\ IF o = "ok" THEN Release(c.item) /\ DrainIfBacklog
                           ELSE UNCHANGED <<guard, jobs>>
       ELSE o = "ok" /\ UNCHANGED <<storeVars, guard, jobs, spent>>
    /\ UNCHANGED <<seq, inFlight, owner, running, compacting, route, quarantined,
                   lastCall, engineVars, clientVars>>

\* The outcome went with the connection: the dispatch stays attempted.
CompleteUncertain(c) ==
    /\ c \in calls /\ c.item # 0 /\ c.res = "lost" /\ ~Definite(c)
    /\ calls' = calls \ {c}
    /\ Release(c.item)
    /\ EndPrompt(c)
    /\ UNCHANGED <<storeVars, seq, jobs, ledger, owner, running, compacting, route,
                   quarantined, lastCall, engineVars, boundVars>>

\* classifyRouteError on unknown_session: the route is gone, its latches clear.
RouteAfter(c) ==
    IF c.res = "unloaded" /\ c.current
    THEN route' = "lost" /\ ClearLatches
    ELSE EndPrompt(c) /\ UNCHANGED <<route, running, compacting>>

\* A definite error: the dispatch goes back to the head of the queue.
CompleteRefused(c, o) ==
    /\ c \in calls /\ c.item # 0 /\ Definite(c) /\ ~Steers(c)
    /\ calls' = calls \ {c}
    /\ IF Dispatching(q, c.item)
       THEN StoreRestoreDispatch(Chat, c.item, o) /\ Persist(o)
       ELSE o = "ok" /\ UNCHANGED <<storeVars, spent>>
    /\ Release(c.item)
    /\ RouteAfter(c)
    /\ UNCHANGED <<seq, jobs, ledger, owner, quarantined, lastCall, engineVars, clientVars>>

CompleteBySteering(c) ==
    /\ c \in calls /\ Steers(c)
    /\ Written(c.op, c.item, TRUE)
    /\ calls' = (calls \ {c}) \cup {[c EXCEPT !.id = lastCall + 1, !.steer = TRUE, !.res = "none"]}
    /\ owner' = lastCall + 1
    /\ UNCHANGED <<storeVars, guard, seq, jobs, ledger, inFlight, running, compacting, route,
                   quarantined, transcript, engineRun, boundVars>>

\* A direct send publishes its outcome; a lost one is withheld, and the
\* recovery an unloaded route starts is not modelled.
CompleteDirect(c) ==
    /\ c \in calls /\ c.item = 0 /\ c.res # "none" /\ ~Steers(c)
    /\ calls' = calls \ {c}
    /\ ledger' = IF c.res = "ok" THEN Terminal(c.op, "nil")
                 ELSE IF Definite(c) /\ c.res # "unloaded" THEN Terminal(c.op, "hard")
                 ELSE ledger
    /\ RouteAfter(c)
    /\ UNCHANGED <<storeVars, guard, seq, jobs, owner, quarantined, lastCall, engineVars, boundVars>>

-----------------------------------------------------------------------------
(***************************************************************************)
(* The engine, external: it decides each request once, whatever became of  *)
(* the connection it came over.                                            *)
(***************************************************************************)

Answer(r, res) ==
    calls' = {IF c.id = r.call /\ c.res = "none" THEN [c EXCEPT !.res = res] ELSE c : c \in calls}

Decide(r) == /\ r \in wire
             /\ wire' = wire \ {r}
             /\ UNCHANGED <<storeVars, guard, seq, jobs, sessionVars, lastCall, clientVars>>

Accept(r) == /\ Decide(r) /\ Answer(r, "ok")
             /\ r.steer \/ ~engineRun
             /\ transcript' = Append(transcript, [op |-> r.op, item |-> r.item])
             /\ engineRun' = TRUE
             /\ UNCHANGED spent

Busy(r) == /\ Decide(r) /\ Answer(r, "busy")
           /\ ~r.steer /\ engineRun
           /\ UNCHANGED <<transcript, engineRun, spent>>

\* A stable error, or unknown_session / session_closing.
Refuse(r, res) == /\ Decide(r) /\ Answer(r, res)
                  /\ Spend(res)
                  /\ UNCHANGED <<transcript, engineRun>>

\* A run nobody in this process asked for (a goal, a timer, another client).
Spontaneous == /\ ~engineRun /\ engineRun' = TRUE /\ Spend("spontaneous")
               /\ UNCHANGED <<storeVars, guard, seq, jobs, sessionVars, calls, lastCall,
                              wire, transcript, clientVars>>

Observing == UNCHANGED <<storeVars, guard, seq, ledger, owner, route, quarantined, calls,
                         lastCall, wire, transcript, clientVars>>

AgentStart == /\ route = "live" /\ engineRun /\ ~running
              /\ running' = TRUE
              /\ Observing /\ UNCHANGED <<inFlight, compacting, jobs, engineRun, spent>>

\* agent_settled: completeProviderRunLocked and SessionRunSettled.  A session
\* without a live route does not see it.
AgentSettled ==
    /\ engineRun /\ engineRun' = FALSE
    /\ IF route = "live" /\ Streaming
       THEN /\ running' = FALSE /\ inFlight' = FALSE
            /\ compacting' = IF compacting = "auto" THEN "none" ELSE compacting
            /\ jobs' = Scheduled
       ELSE UNCHANGED <<running, inFlight, compacting, jobs>>
    /\ Observing /\ UNCHANGED spent

CompactStart(kind) ==
    /\ route = "live" /\ compacting = "none"
    /\ kind = "manual" => seq.pc = "free" /\ ~Streaming /\ ~quarantined
    /\ kind = "auto" => engineRun
    /\ compacting' = kind
    /\ Spend(kind)
    /\ Observing /\ UNCHANGED <<inFlight, running, jobs, engineRun>>

CompactEnd == /\ compacting # "none" /\ compacting' = "none"
              /\ jobs' = IF Streaming THEN jobs ELSE Scheduled
              /\ Observing /\ UNCHANGED <<inFlight, running, engineRun, spent>>

-----------------------------------------------------------------------------
(***************************************************************************)
(* Loss and recovery.                                                      *)
(***************************************************************************)

\* Client.invalidate and Session.invalidate, or a session that was closed.
Disconnect ==
    /\ route = "live" /\ Spend("drop")
    /\ route' = "lost" /\ ClearLatches /\ LoseCalls
    /\ UNCHANGED <<storeVars, guard, seq, jobs, ledger, owner, quarantined, lastCall,
                   engineVars, clientVars>>

\* quarantineExternalWrite: the session file was changed behind the route.
Quarantine ==
    /\ route = "live" /\ ~quarantined /\ Spend("extern")
    /\ quarantined' = TRUE
    /\ calls' = {IF c.current THEN [c EXCEPT !.tainted = TRUE] ELSE c : c \in calls}
    /\ UNCHANGED <<storeVars, guard, seq, jobs, ledger, inFlight, owner, running, compacting,
                   route, lastCall, engineVars, clientVars>>

\* A new session for the chat, in its turn of the sequencer: the ledger is
\* inherited, the run latch is hydrated, initializeBinding drains the queue.
Recover ==
    /\ seq.pc = "free" /\ (route # "live" \/ quarantined)
    /\ route' = "live" /\ quarantined' = FALSE
    /\ running' = engineRun /\ inFlight' = FALSE /\ compacting' = "none" /\ owner' = 0
    /\ calls' = {[c EXCEPT !.current = FALSE] : c \in calls}
    /\ jobs' = IF HasBacklog(Chat) THEN Scheduled ELSE jobs
    /\ UNCHANGED <<storeVars, guard, seq, ledger, lastCall, engineVars, boundVars>>

\* Everything the server keeps in memory is gone; the engine is not.
ForgetProcess ==
    /\ guard' = 0 /\ seq' = Free /\ jobs' = 0
    /\ ledger' = [op \in Ops |-> NoOperation]
    /\ ClearLatches /\ owner' = 0 /\ route' = "none" /\ quarantined' = FALSE
    /\ calls' = {}
    /\ UNCHANGED <<lastCall, transcript, clientVars>>

Crash == /\ Spend("crash") /\ StoreRestart /\ ForgetProcess
         /\ UNCHANGED <<wire, engineRun>>

\* The engine stops with the machine.
PowerLoss == /\ Spend("crash") /\ StorePowerLoss /\ ForgetProcess
             /\ wire' = {} /\ engineRun' = FALSE

-----------------------------------------------------------------------------
SendStep == \/ \E op \in Ops : SendToQueue(op)
            \/ \E op \in Ops, steer \in BOOLEAN : SendDirect(op, steer)

EditStep ==
    \E o \in PersistOutcomes :
        \/ \E id \in 1..lastId : QueueRemove(id, o)
        \/ \E id \in 1..lastId, to \in 0..(MaxItems - 1) : QueueMove(id, to, o)
        \/ QueueClear(o)
        \/ QueueClearEngine(o)

\* The steps of whoever owns the sequencer, and of flushHead taking it.
SequencerStep ==
    \/ \E o \in PersistOutcomes :
          \/ SendAppend(o) \/ FlushReserve(o) \/ ReconcileFound(o) \/ Mark(o)
          \/ FlushSendRefused(o) \/ FlushSendDuplicate(o)
    \/ FlushSkip \/ FlushResume \/ HistoryFails \/ ReconcileAbsent \/ Checkpoint
    \/ FlushSend \/ FlushSendBreaks \/ FlushSendAbsorbed

CompletionStep ==
    \E c \in calls :
        \/ \E o \in PersistOutcomes : CompleteAccepted(c, o) \/ CompleteRefused(c, o)
        \/ CompleteUncertain(c) \/ CompleteBySteering(c) \/ CompleteDirect(c)

DecideStep == \E r \in wire : \/ Accept(r) \/ Busy(r)
                              \/ \E res \in {"rejected", "unloaded"} : Refuse(r, res)

EventStep == \/ AgentStart \/ AgentSettled \/ CompactEnd
             \/ \E kind \in {"auto", "manual"} : CompactStart(kind)

LossStep == Spontaneous \/ Disconnect \/ Quarantine \/ Crash \/ PowerLoss

Next == \/ SendStep \/ EditStep \/ SequencerStep \/ CompletionStep
        \/ DecideStep \/ EventStep \/ LossStep \/ Recover

Spec == Init /\ [][Next]_vars

(***************************************************************************)
(* The sequencer runs its queue, callbacks run, the engine decides what it *)
(* was sent and ends the runs and compactions it began, and a lost route   *)
(* is reopened (by the reconnect callback or by the user).  Sends, edits   *)
(* and losses are not fair.                                                *)
(***************************************************************************)
Fairness == /\ WF_vars(SequencerStep) /\ WF_vars(CompletionStep)
            /\ WF_vars(DecideStep) /\ WF_vars(AgentSettled) /\ WF_vars(CompactEnd)
            /\ WF_vars(Recover)

LiveSpec == Spec /\ Fairness

-----------------------------------------------------------------------------
Applied(id) == {i \in DOMAIN transcript : transcript[i].item = id}

Holds(queue, id) == Queued(queue.items, id) \/ Dispatching(queue, id)

(***************************************************************************)
(* A queued message reaches the model at most once.  flushHead marks the   *)
(* dispatch attempted on disk before it writes the request and never       *)
(* writes an attempted one again; a dispatch goes back to the queue only   *)
(* on an error that proves the engine did not and will not apply it.       *)
(***************************************************************************)
AtMostOnce == \A id \in 1..lastId : Cardinality(Applied(id)) <= 1

(***************************************************************************)
(* A message acknowledged to the user is still held, in memory and in      *)
(* every file a stop may leave, or a message with its text is in the       *)
(* transcript: until the user had it removed, or asked for that and the    *)
(* write failed when the file without it was already in place.             *)
(***************************************************************************)
NothingVanishes ==
    \A p \in owed :
        \/ \A img \in durable \cup {mem} : Holds(img[Chat], p[1])
        \/ \E i \in DOMAIN transcript : TextOf[transcript[i].op] = TextOf[p[2]]

(***************************************************************************)
(* While a queued message is with the provider and its completion is due,  *)
(* the guard and the durable dispatch are that message's: no second one is *)
(* begun, also across reconnects.                                          *)
(***************************************************************************)
OneDeliveryAtATime ==
    \A c \in calls : c.item # 0 => guard = c.item /\ Dispatching(q, c.item)

(***************************************************************************)
(* Messages that nobody reordered are applied in the order they were       *)
(* queued: a message is not written while an older one could still apply.  *)
(* Not after the same words were sent twice: DurableUserMessageAfter takes *)
(* the other message for the dispatch and completes it while its request   *)
(* may still apply.  Nor after an external write (see AtMostOnce).         *)
(***************************************************************************)
Ordered ==
    (\A f \in {"edit", "repeat", "extern"} : spent[f] = 0) =>
        \A i, j \in DOMAIN transcript :
            i < j /\ transcript[i].item # 0 /\ transcript[j].item # 0
                => transcript[i].item < transcript[j].item

(***************************************************************************)
(* The guard is a delivery in progress: flushHead is working on it or its  *)
(* completion is due.  Otherwise nothing will ever release it.             *)
(***************************************************************************)
GuardOwned ==
    guard # 0 => \/ seq.item # NoItem /\ seq.item.id = guard
                 \/ \E c \in calls : c.item = guard

\* No failure so far, whatever was compacted.
Undisturbed == \A f \in Faults : spent[f] > 0 => f \in {"auto", "manual"}

(***************************************************************************)
(* While nothing fails, every acknowledged message is delivered: each      *)
(* settled run, ended compaction and completed send schedules the next     *)
(* drain.                                                                  *)
(***************************************************************************)
QueueDrains ==
    \A id \in 1..MaxItems :
        (Undisturbed /\ \E op \in Ops : <<id, op>> \in owed)
            ~> (Applied(id) # {} \/ ~Undisturbed)
=============================================================================
