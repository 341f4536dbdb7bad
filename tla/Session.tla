------------------------------- MODULE Session -------------------------------
(***************************************************************************)
(* One chat: its current Session, the owner of its sends, the calls and    *)
(* events in flight between it and the engine, the loss of the connection, *)
(* the reopening of the session, direct sends with their transparent       *)
(* recovery (chatSendOperation in internal/wsbridge/bridge.go) and idle    *)
(* eviction.                                                               *)
(*                                                                         *)
(* Answers and events are separate streams: an answer completes in any     *)
(* order with the events the reader handed to the event loop.  A step here *)
(* is one critical section of lifecycleMu or of the owner; the per-chat    *)
(* permit (Manager.EnterChat, EnqueueChat) is `fl'.  Quarantine, queued    *)
(* messages and explicit close are in QueueDispatch and SessionManager.    *)
(***************************************************************************)
EXTENDS SessionState, SendLedger

CONSTANT Scenarios   \* bound: how often each environment choice may happen

Inputs == {"prompt", "steer", "compact", "auto", "own", "local", "loss", "unload",
            "idle", "ask", "answer", "query", "reopen", "stop"}

ASSUME ScenarioAssumption ==
    Scenarios \subseteq [n : [Inputs -> Nat], known : BOOLEAN, named : BOOLEAN, reqs : SUBSET Requests]

NoRequest == "none"   \* the empty id of a reconciliation job

ASSUME RequestAssumption == NoRequest \notin Requests

VARIABLES
    s,      \* Manager.byChat[chat]
    o,      \* Manager.operationOwners[chat]
    calls,  \* calls of this process whose completion is due
    wire,   \* requests and notifications the engine has not handled
    eng,    \* the engine's side of the session (external)
    evs,    \* events on the connection, not ingested
    hand,   \* the event the event loop is ingesting
    net,    \* the connection
    fl,     \* the holder of the per-chat permit
    recq,   \* jobs waiting for the permit (EnqueueChat)
    due,    \* initializeBinding still owes a QueryState
    last,   \* newest call id
    todo    \* the scenario, with the choices left

vars == <<s, o, calls, wire, eng, evs, hand, net, fl, recq, due, last, todo>>

NoEvent == [t |-> "none", ep |-> 0, id |-> 0, manual |-> FALSE, who |-> Nobody]
Free == [pc |-> "free", req |-> NoRequest, kind |-> "prompt", ep |-> 0,
         snap |-> [known |-> TRUE, run |-> FALSE, comp |-> FALSE], asks |-> {}]

Init ==
    /\ s = NewSession(1, 1, FALSE)
    /\ o = NewOwner
    /\ calls = {} /\ wire = {}
    /\ eng = [run |-> FALSE, comp |-> 0, who |-> Nobody, routes |-> {1}, ids |-> 0,
              asks |-> {}, asked |-> 0, applied |-> [r \in Requests |-> 0],
              own |-> FALSE]
    /\ evs = <<>> /\ hand = NoEvent
    /\ net = [ep |-> 1, up |-> TRUE]
    /\ fl = Free /\ recq = <<>> /\ due = FALSE /\ last = 0
    /\ todo \in Scenarios

Spend(k) == todo.n[k] > 0 /\ todo' = [todo EXCEPT !.n[k] = @ - 1]

-----------------------------------------------------------------------------
(* Calls *)

Detached == {"prompt", "steer", "compact"}
Outstanding(C) == {c \in C : c.k \in Detached}

(* rearmIdle and the calls of scheduleIdleLocked: busy with what is in C *)
Sched(y, w, C) == ScheduleIdle(y, Unresolved(w), Outstanding(C) # {})

NewCall(k, n, r, retry) ==
    [id |-> last + 1, g |-> s.gen, k |-> k, n |-> n, req |-> r, ep |-> net.ep,
     retry |-> retry, of |-> 0, rev |-> s.activityRevision, res |-> "none",
     shut |-> FALSE, snap |-> Free.snap]

Request(c) == [id |-> c.id, k |-> c.k, req |-> c.req, ep |-> c.ep, q |-> c.n]

(* callDetachedMutation: below the limit *)
Room == Cardinality(Outstanding(calls)) < DetachedLimit

(* callDetachedSend or callDetachedMutation writes the command *)
Write(c) ==
    /\ Room /\ net.up
    /\ calls' = calls \cup {c} /\ wire' = wire \cup {Request(c)} /\ last' = last + 1

(* Why sendPrompt or sendDuringRun refuses, "nil" when it does not.  admitted
   is the run admission a retry carries. *)
Refusal(kind, admitted) ==
    CASE s.closed \/ s.closing -> "closed"
      [] ~(s.closed \/ s.closing) /\ s.resumable -> "resumable"
      [] Routable(s) /\ kind = "prompt" /\ Active(s) -> "hard"
      [] Routable(s) /\ kind = "steer" /\ ~admitted
            /\ ~(s.promptInFlight \/ s.providerRunActive \/ s.compactionActive) -> "hard"
      [] Routable(s) /\ ~Room -> "hard"
      [] OTHER -> "nil"

Latched(kind) == IF kind = "prompt" THEN BeginPrompt(s, Unresolved(o)) ELSE s

(* sendPrompt, sendDuringRun: w is the owner after beginSendOperation *)
Sends(kind, r, w, retry) ==
    LET c == NewCall(kind, IF kind = "prompt" THEN s.promptSeq + 1 ELSE 0, r, retry)
    IN  /\ Write(c)
        /\ s' = Latched(kind)
        /\ o' = RegisterWrite(RecordSend(w, r, "nil"), c.id, r)

(* The write fails at once: completePrompt and noteTransportError *)
SendBreaks(kind, r, w) ==
    /\ ~net.up /\ Room
    /\ s' = Sched(CompletePrompt(Invalidate(Latched(kind)), IF kind = "prompt" THEN s.promptSeq + 1 ELSE 0, FALSE), o, calls)
    /\ o' = RecordSend(w, r, "hard")
    /\ UNCHANGED <<calls, wire, last>>

Recovery(r, kind) == [req |-> r, kind |-> kind]

(* handleChatSend without a queue *)
Send(kind, r) ==
    /\ fl.pc = "free" /\ Spend(kind)
    /\ LET w == BeginSend(o, r)
           why == Refusal(kind, FALSE)
       IN  \/ Admission(o, r) # "go" /\ UNCHANGED <<s, o, calls, wire, last, recq>>
           \/ /\ Admission(o, r) = "go" /\ why \in {"resumable", "closed"}
              /\ o' = RecordSend(w, r, why)
              /\ recq' = Append(recq, Recovery(r, kind))
              /\ UNCHANGED <<s, calls, wire, last>>
           \/ /\ Admission(o, r) = "go" /\ why = "hard"
              /\ o' = RecordSend(w, r, why)
              /\ UNCHANGED <<s, calls, wire, last, recq>>
           \/ /\ Admission(o, r) = "go" /\ why = "nil"
              /\ Sends(kind, r, w, FALSE) \/ SendBreaks(kind, r, w)
              /\ UNCHANGED recq
    /\ UNCHANGED <<eng, evs, hand, net, fl, due>>

(* CompactDetached *)
Compact ==
    /\ Routable(s) /\ ~Active(s) /\ Spend("compact")
    /\ Write(NewCall("compact", s.compactSeq + 1, NoRequest, FALSE))
    /\ s' = BeginManual(s, Unresolved(o))
    /\ UNCHANGED <<o, eng, evs, hand, net, fl, recq, due>>

(* QueryState: owed after a session was published, or asked for by a browser *)
QueryState ==
    /\ Routable(s) /\ net.up
    /\ \/ due /\ due' = FALSE /\ UNCHANGED todo
       \/ Spend("query") /\ UNCHANGED due
    /\ LET c == NewCall("state", 0, NoRequest, FALSE)
       IN  calls' = calls \cup {c} /\ wire' = wire \cup {Request(c)} /\ last' = last + 1
    /\ UNCHANGED <<s, o, eng, evs, hand, net, fl, recq>>

-----------------------------------------------------------------------------
(* Completions *)

Ours(c) == c.g = s.gen

(* noteTransportError and classifyRouteError on the session that made the call *)
Noted(y, c) ==
    CASE Ours(c) /\ c.res = "lost" -> Invalidate(y)
      [] Ours(c) /\ c.res = "unknown" /\ ~y.closed /\ ~y.invalidated -> MarkUnloaded(y)
      [] OTHER -> y

(* An engine's answer resolves the write (callDetachedSend). *)
Answered(w, c) == IF c.res = "lost" THEN w ELSE SettleWrite(w, c.id)

(* What finishDetachedSend hands to the completion: after a loss the session is
   resumable, so the outcome is unknown; a session that was closed is reopened. *)
Outcome(c) ==
    CASE c.res = "ok" -> "nil"
      [] c.res = "unknown" -> "resumable"
      [] c.res = "lost" /\ ~c.shut -> "unknown"
      [] c.res \notin {"ok", "unknown"} /\ (c.shut \/ (c.res # "lost" /\ Ours(c) /\ s.closing)) -> "closed"
      [] OTHER -> "hard"

(* The completion of a direct send, and of its retry *)
Finished(w, c) ==
    IF Outcome(c) \in {"resumable", "closed"} /\ ~c.retry
    THEN /\ o' = w /\ recq' = Append(recq, Recovery(c.req, IF c.of # 0 THEN "prompt" ELSE c.k))
    ELSE /\ o' = PublishOutcome(w, c.req, Outcome(c)) /\ UNCHANGED recq

(* A prompt's answer, and the answer of the steer that stands in for it *)
CompletesPrompt(c) ==
    LET rest == calls \ {c}
        w == Answered(o, c)
        n == IF c.of # 0 THEN c.of ELSE c.n
        y == IF Ours(c) THEN CompletePrompt(Noted(s, c), n, c.res = "ok") ELSE s
    IN  /\ Finished(w, c)
        /\ calls' = rest
        /\ s' = Sched(y, o', rest)
        /\ UNCHANGED <<wire, last>>

(* The engine is busy and the prompt still owns the latch: it is steered. *)
PromptBusy(c) ==
    LET steer == [NewCall("steer", 0, c.req, c.retry) EXCEPT !.of = c.n]
    IN  /\ c.k = "prompt" /\ c.res = "busy" /\ Ours(c) /\ s.promptSeq = c.n /\ s.promptInFlight
        /\ net.up
        /\ calls' = (calls \ {c}) \cup {steer} /\ wire' = wire \cup {Request(steer)} /\ last' = last + 1
        /\ o' = RegisterWrite(SettleWrite(o, c.id), steer.id, c.req)
        /\ UNCHANGED <<s, recq>>

Steered(c) == c.k = "prompt" /\ c.res = "busy" /\ Ours(c) /\ s.promptSeq = c.n /\ s.promptInFlight /\ net.up

CompletesSteer(c) ==
    LET rest == calls \ {c}
    IN  /\ Finished(Answered(o, c), c)
        /\ calls' = rest
        /\ s' = Sched(Noted(s, c), o', rest)
        /\ UNCHANGED <<wire, last>>

CompletesCompact(c) ==
    LET rest == calls \ {c}
        y == Noted(s, c)
    IN  /\ calls' = rest
        /\ s' = Sched(IF Ours(c) THEN CompleteCompact(y, c.n) ELSE y, o, rest)
        /\ UNCHANGED <<o, wire, recq, last>>

(* QueryState may still hydrate from the answer *)
Current(c) ==
    /\ Ours(c) /\ (s.hydrationPending \/ Unresolved(o))
    /\ c.rev = s.activityRevision /\ ~s.resumable /\ ~s.closed

CompletesState(c) ==
    /\ calls' = calls \ {c}
    /\ IF c.res \in {"lost", "unknown"} THEN s' = Noted(s, c)
       ELSE LET y == IF Current(c)
                     THEN [Hydrate(s, c.snap) EXCEPT !.hydrationPending = ~c.snap.known \/ Unresolved(o)]
                     ELSE s
                z == IF Ours(c) THEN [y EXCEPT !.told = [run |-> RunLatched(y), comp |-> y.compactionActive]] ELSE y
            IN  s' = IF ~Current(c) THEN z
                     ELSE IF Active(z) \/ RecoveryWork(z, Unresolved(o)) THEN [z EXCEPT !.idleTimer = FALSE]
                     ELSE Sched(z, o, calls)
    /\ UNCHANGED <<o, wire, recq, last>>

(* completeClose; a late answer finds a session that was replaced *)
CompletesClose(c) ==
    /\ calls' = {IF Ours(d) /\ Ours(c) /\ c.res \in {"ok", "unknown"} THEN [d EXCEPT !.shut = TRUE] ELSE d : d \in calls \ {c}}
    /\ s' = CASE ~Ours(c) -> s
              [] Ours(c) /\ c.res \in {"ok", "unknown"} -> CloseAccepted(s)
              [] Ours(c) /\ c.res = "lost" -> CloseRefused(Invalidate(s), TRUE)
              [] OTHER -> Sched(CloseRefused(s, FALSE), o, calls)
    /\ UNCHANGED <<o, wire, recq, last>>

Complete ==
    /\ \E c \in calls :
          /\ c.res # "none"
          /\ \/ PromptBusy(c)
             \/ c.k = "prompt" /\ ~Steered(c) /\ CompletesPrompt(c)
             \/ c.k = "steer" /\ c.of # 0 /\ CompletesPrompt(c)
             \/ c.k = "steer" /\ c.of = 0 /\ CompletesSteer(c)
             \/ c.k = "compact" /\ CompletesCompact(c)
             \/ c.k = "state" /\ CompletesState(c)
             \/ c.k = "close" /\ CompletesClose(c)
          /\ fl' = IF c.k = "close" /\ fl.pc = "evict" THEN Free ELSE fl
    /\ UNCHANGED <<eng, evs, hand, net, due, todo>>

-----------------------------------------------------------------------------
(* Events *)

(* eventLoop reads an event of the connection it believes current *)
Ingest ==
    /\ hand = NoEvent /\ evs # <<>>
    /\ evs' = Tail(evs)
    /\ hand' = IF net.up /\ Head(evs).ep = net.ep THEN Head(evs) ELSE NoEvent
    /\ UNCHANGED <<s, o, calls, wire, eng, net, fl, recq, due, last, todo>>

Suppressed(y) == y.closed \/ y.resumable

(* dispatch while a close owns the route: only a settled run is remembered *)
DispatchClosing(y, ev) ==
    [y EXCEPT !.closeRunSettled = @ \/ (ev.t = "agent_settled" /\ RunLatched(y)),
              !.blurred = @ \/ ev.t # "agent_settled"]

(* The idle timer is scheduled where the event settled something. *)
Rearmed(y, z) == IF z = y THEN y ELSE Sched(z, o, calls)

(* dispatch *)
Dispatched(y, ev) ==
    LET u == Unresolved(o)
    IN  CASE ev.t = "agent_start" -> AgentStart(y, u)
          [] ev.t = "agent_settled" -> Rearmed(y, AgentSettled(y, u))
          [] ev.t = "command_invocation" -> Rearmed(y, CommandInvocation(y))
          [] ev.t = "compaction_start" -> BeginCompaction(ObserveLive(y, u), ev)
          [] ev.t = "compaction_end" -> Rearmed(y, EndCompaction(y, ev, u))
          [] ev.t = "session_unloaded" -> MarkUnloaded(y)
          [] ev.t = "ui_request" -> [y EXCEPT !.pending = Upsert(@, ev.who[2], ev.id, ev.manual)]
          [] OTHER -> [y EXCEPT !.pending = Resolve(@, ev.id)]

(* ingestEpochEvent and dispatchEpoch find the session of this epoch *)
Bound(ev) == s.epoch = ev.ep

Dispatch ==
    /\ hand # NoEvent
    /\ hand' = NoEvent
    /\ s' = IF ~Bound(hand) \/ Suppressed(s) THEN s
            ELSE IF s.closing THEN DispatchClosing(s, hand) ELSE Dispatched(s, hand)
    /\ UNCHANGED <<o, calls, wire, eng, evs, net, fl, recq, due, last, todo>>

-----------------------------------------------------------------------------
(* The engine (external): what it does with a request, by itself, and what  *)
(* it emits on the connection that holds a handle of the session.           *)

Emitted(E) == IF net.up /\ net.ep \in eng.routes
              THEN evs \o [i \in DOMAIN E |-> [E[i] EXCEPT !.ep = net.ep]] ELSE evs

Ev(t) == [NoEvent EXCEPT !.t = t]
CEv(t, id, who) ==
    [NoEvent EXCEPT !.t = t, !.id = IF todo.named THEN id ELSE 0,
                    !.manual = who[1] = "call", !.who = who]

AnswerWith(w, res) == {IF c.id = w.id /\ c.res = "none" THEN [c EXCEPT !.res = res] ELSE c : c \in calls}

Snapshot == [known |-> todo.known, run |-> eng.run, comp |-> eng.comp # 0]

EngineTakes(w) ==
    /\ w \in wire /\ wire' = wire \ {w}
    /\ UNCHANGED <<s, o, hand, net, fl, recq, due, last>>

EngineRefuses(w) ==
    /\ w.ep \notin eng.routes /\ w.k # "answer"
    /\ calls' = AnswerWith(w, "unknown") /\ UNCHANGED <<eng, evs, todo>>

EngineRuns(w) ==
    /\ w.ep \in eng.routes /\ w.k = "prompt" /\ ~eng.run
    /\ calls' = AnswerWith(w, "ok")
    /\ eng' = [eng EXCEPT !.run = TRUE, !.own = TRUE, !.applied[w.req] = @ + 1]
    /\ evs' = Emitted(<<Ev("agent_start")>>)
    /\ UNCHANGED todo

(* A steer joins the run; without one there is nothing to join. *)
EngineSteers(w) ==
    /\ w.ep \in eng.routes /\ w.k = "steer"
    /\ calls' = AnswerWith(w, "ok")
    /\ eng' = [eng EXCEPT !.own = eng.run, !.applied[w.req] = @ + 1]
    /\ UNCHANGED <<evs, todo>>

EngineBusy(w) ==
    /\ w.ep \in eng.routes /\ w.k = "prompt" /\ eng.run
    /\ calls' = AnswerWith(w, "busy") /\ UNCHANGED <<eng, evs, todo>>

(* An extension command is executed at once and starts no run. *)
EngineLocal(w) ==
    /\ w.ep \in eng.routes /\ w.k = "prompt" /\ ~eng.run /\ Spend("local")
    /\ calls' = AnswerWith(w, "ok")
    /\ eng' = [eng EXCEPT !.applied[w.req] = @ + 1]
    /\ evs' = Emitted(<<Ev("command_invocation")>>)

EngineCompacts(w) ==
    /\ w.ep \in eng.routes /\ w.k = "compact"
    /\ IF eng.comp # 0 \/ eng.run
       THEN calls' = AnswerWith(w, "err") /\ UNCHANGED <<eng, evs>>
       ELSE LET who == <<"call", w.q>>
            IN  /\ eng' = [eng EXCEPT !.comp = eng.ids + 1, !.ids = @ + 1, !.who = who]
                /\ evs' = Emitted(<<CEv("compaction_start", eng.ids + 1, who)>>)
                /\ UNCHANGED calls
    /\ UNCHANGED todo

EngineTells(w) ==
    /\ w.ep \in eng.routes /\ w.k = "state"
    /\ calls' = {IF c.id = w.id /\ c.res = "none" THEN [c EXCEPT !.res = "ok", !.snap = Snapshot] ELSE c : c \in calls}
    /\ UNCHANGED <<eng, evs, todo>>

EngineCloses(w) ==
    /\ w.ep \in eng.routes /\ w.k = "close"
    /\ \/ /\ calls' = AnswerWith(w, "ok")
          /\ eng' = [eng EXCEPT !.routes = {}, !.run = FALSE, !.comp = 0, !.own = FALSE]
       \/ calls' = AnswerWith(w, "err") /\ UNCHANGED eng
    /\ UNCHANGED <<evs, todo>>

EngineResolves(w) ==
    /\ w.k = "answer"
    /\ eng' = [eng EXCEPT !.asks = {a \in @ : a[2] # w.q}]
    /\ evs' = Emitted(<<[Ev("question_resolved") EXCEPT !.id = w.q]>>)
    /\ UNCHANGED <<calls, todo>>

EngineHandles == \E w \in wire :
    /\ EngineTakes(w)
    /\ \/ EngineRefuses(w) \/ EngineRuns(w) \/ EngineSteers(w) \/ EngineBusy(w) \/ EngineLocal(w)
       \/ EngineCompacts(w) \/ EngineTells(w) \/ EngineCloses(w) \/ EngineResolves(w)

EngineOwnRun ==
    /\ ~eng.run /\ eng.routes # {} /\ Spend("own")
    /\ eng' = [eng EXCEPT !.run = TRUE]
    /\ evs' = Emitted(<<Ev("agent_start")>>)
    /\ UNCHANGED <<s, o, calls, wire, hand, net, fl, recq, due, last>>

(* The run is over, and with it an automatic compaction, whose own end may be
   told after it. *)
EngineSettles ==
    /\ eng.run
    /\ LET auto == eng.comp # 0 /\ eng.who[1] = "auto"
       IN  /\ eng' = [eng EXCEPT !.run = FALSE, !.own = FALSE, !.comp = IF auto THEN 0 ELSE @,
                                 !.who = IF auto THEN Nobody ELSE @]
           /\ evs' = Emitted(<<Ev("agent_settled")>> \o
                             (IF auto THEN <<CEv("compaction_end", eng.comp, eng.who)>> ELSE <<>>))
    /\ UNCHANGED <<s, o, calls, wire, hand, net, fl, recq, due, last, todo>>

EngineAutoCompacts ==
    /\ eng.comp = 0 /\ eng.routes # {} /\ Spend("auto")
    /\ eng' = [eng EXCEPT !.comp = eng.ids + 1, !.ids = @ + 1, !.who = <<"auto", eng.ids + 1>>]
    /\ evs' = Emitted(<<CEv("compaction_start", eng.ids + 1, <<"auto", eng.ids + 1>>)>>)
    /\ UNCHANGED <<s, o, calls, wire, hand, net, fl, recq, due, last>>

(* The compaction ends; a manual one is also answered. *)
EngineCompacted ==
    /\ eng.comp # 0
    /\ eng' = [eng EXCEPT !.comp = 0, !.who = Nobody]
    /\ evs' = Emitted(<<CEv("compaction_end", eng.comp, eng.who)>>)
    /\ calls' = {IF c.k = "compact" /\ eng.who = <<"call", c.n>> /\ c.res = "none"
                 THEN [c EXCEPT !.res = "ok"] ELSE c : c \in calls}
    /\ UNCHANGED <<s, o, wire, hand, net, fl, recq, due, last, todo>>

EngineUnloads ==
    /\ eng.routes # {} /\ Spend("unload")
    /\ eng' = [eng EXCEPT !.routes = {}, !.run = FALSE, !.comp = 0, !.own = FALSE, !.asks = {}]
    /\ evs' = Emitted(<<Ev("session_unloaded")>>)
    /\ calls' = {IF c.k = "compact" /\ eng.who = <<"call", c.n>> /\ eng.comp # 0 /\ c.res = "none"
                 THEN [c EXCEPT !.res = "err"] ELSE c : c \in calls}
    /\ UNCHANGED <<s, o, wire, hand, net, fl, recq, due, last>>

(* A question, or an approval that lives as long as its dialog *)
EngineAsks ==
    /\ eng.routes # {} /\ Spend("ask")
    /\ \E plain \in BOOLEAN :
          /\ eng' = [eng EXCEPT !.asks = @ \cup {<<eng.asked + 1, eng.asked + 1, plain>>}, !.asked = @ + 1]
          /\ evs' = Emitted(<<[Ev("ui_request") EXCEPT !.id = eng.asked + 1, !.manual = plain,
                                                       !.who = <<"ask", eng.asked + 1>>]>>)
    /\ UNCHANGED <<s, o, calls, wire, hand, net, fl, recq, due, last>>

Engine == EngineHandles \/ EngineOwnRun \/ EngineSettles \/ EngineAutoCompacts
          \/ EngineCompacted \/ EngineUnloads \/ EngineAsks

-----------------------------------------------------------------------------
(* Questions *)

(* respondExtensionUI: a one-way notification *)
Respond ==
    /\ Routable(s) /\ net.up /\ Spend("answer")
    /\ \E i \in DOMAIN s.pending :
          /\ ~s.pending[i].delivering
          /\ wire' = wire \cup {[id |-> last + 1, k |-> "answer", req |-> NoRequest, ep |-> net.ep, q |-> s.pending[i].id]}
          /\ s' = [s EXCEPT !.pending[i].delivering = TRUE, !.pending[i].submitted = TRUE,
                            !.pending[i].delivery = "sending"]
    /\ last' = last + 1
    /\ UNCHANGED <<o, calls, eng, evs, hand, net, fl, recq, due>>

(* confirmTimer fires *)
ConfirmTimeout ==
    /\ ~s.closed
    /\ \E i \in DOMAIN s.pending : s.pending[i].delivering /\ s' = [s EXCEPT !.pending[i] = FailDelivery(@)]
    /\ UNCHANGED <<o, calls, wire, eng, evs, hand, net, fl, recq, due, last, todo>>

-----------------------------------------------------------------------------
(* The connection *)

(* The connection breaks: calls without an answer are lost, an answer that was
   sent may be, and what the engine has not read it may still read. *)
Loss ==
    /\ net.up /\ Spend("loss")
    /\ net' = [net EXCEPT !.up = FALSE]
    /\ \E keep \in SUBSET {c \in calls : c.res # "none"} :
          calls' = {IF c \in keep THEN c ELSE [c EXCEPT !.res = "lost"] : c \in calls}
    /\ wire' = {w \in wire : w.k \in {"prompt", "steer", "compact", "answer"}}
    /\ UNCHANGED <<s, o, eng, evs, hand, fl, recq, due, last>>

(* invalidateEpoch, from the event loop or a failed call *)
InvalidateEpoch ==
    /\ (~net.up \/ s.epoch # net.ep) /\ ~s.closed /\ ~s.invalidated
    /\ s' = Invalidate(s)
    /\ UNCHANGED <<o, calls, wire, eng, evs, hand, net, fl, recq, due, last, todo>>

(* The manager owns something on the dead connection worth recovering. *)
Worthy == ~s.closed /\ (s.subs \/ Active(s) \/ RecoveryWork(s, Unresolved(o)) \/ Outstanding(calls) # {})

(* triggerProactiveReconnect, or the next request, connects again; the new
   connection schedules a reconciliation (scheduleSessionReconciliation). *)
Connect ==
    /\ ~net.up
    /\ net' = [ep |-> net.ep + 1, up |-> TRUE]
    /\ recq' = IF Worthy THEN Append(recq, Recovery(NoRequest, "prompt")) ELSE recq
    /\ UNCHANGED <<s, o, calls, wire, eng, evs, hand, fl, due, last, todo>>

-----------------------------------------------------------------------------
(* The permit: recovery of sends, reconciliation and eviction *)

(* resumeAndRetry and enqueueReconciliation begin *)
StartJob ==
    /\ fl.pc = "free" /\ recq # <<>>
    /\ recq' = Tail(recq)
    /\ LET j == Head(recq)
           y == IF net.ep # s.epoch \/ ~net.up THEN Invalidate(s) ELSE s
       IN  IF j.req = NoRequest
           THEN /\ s' = y /\ UNCHANGED o
                /\ fl' = IF y.resumable /\ ~y.closed THEN [Free EXCEPT !.pc = "acquire"] ELSE Free
           ELSE /\ UNCHANGED s
                /\ o' = IF MayRetry(o, j.req) THEN PrepareRetry(o, j.req) ELSE o
                /\ fl' = IF MayRetry(o, j.req)
                         THEN [Free EXCEPT !.pc = "acquire", !.req = j.req, !.kind = j.kind] ELSE Free
    /\ UNCHANGED <<calls, wire, eng, evs, hand, net, due, last, todo>>

(* A browser opens the chat, or a query finds the route gone. *)
Reopen ==
    /\ fl.pc = "free" /\ Spend("reopen")
    /\ fl' = [Free EXCEPT !.pc = "acquire"]
    /\ UNCHANGED <<s, o, calls, wire, eng, evs, hand, net, recq, due, last>>

(* acquire with a route that can be used: attach *)
AcquireExisting ==
    /\ fl.pc = "acquire" /\ net.up /\ s.epoch = net.ep /\ Routable(s)
    /\ s' = [s EXCEPT !.idleTimer = FALSE, !.subs = fl.req = NoRequest \/ @]
    /\ fl' = IF fl.req = NoRequest THEN Free ELSE [fl EXCEPT !.pc = "retry"]
    /\ due' = (due \/ fl.req = NoRequest)
    /\ UNCHANGED <<o, calls, wire, eng, evs, hand, net, recq, last, todo>>

(* The engine gives the open questions new dialogs (reaskQuestionsLocked). *)
Reasked == {<<a[1], a[2] + 10, FALSE>> : a \in {b \in eng.asks : ~b[3]}}

(* open_session: the engine answers with its state as of now. *)
AcquireOpens ==
    /\ fl.pc = "acquire" /\ net.up /\ ~(s.epoch = net.ep /\ Routable(s))
    /\ eng' = [eng EXCEPT !.routes = @ \cup {net.ep}, !.asks = Reasked]
    /\ fl' = [fl EXCEPT !.pc = "publish", !.ep = net.ep, !.snap = Snapshot, !.asks = Reasked]
    /\ s' = Invalidate(s)
    /\ UNCHANGED <<o, calls, wire, evs, hand, net, recq, due, last, todo>>

(* The connection is gone before or after the open: publishResumeFailure *)
AcquireFails ==
    /\ fl.pc \in {"acquire", "publish"} /\ (~net.up \/ (fl.pc = "publish" /\ fl.ep # net.ep))
    /\ fl' = Free
    /\ o' = IF fl.req = NoRequest THEN o ELSE PublishError(o, fl.req)
    /\ UNCHANGED <<s, calls, wire, eng, evs, hand, net, recq, due, last, todo>>

(* newSession, inheritWork, inheritQuestions *)
Replacement == [InheritWork(NewSession(s.gen + 1, fl.ep, TRUE), s, fl.snap) EXCEPT
                   !.pending = InheritQuestions(s.pending, fl.asks)]

(* acquire publishes the session; the one it replaces is retired *)
Publish ==
    /\ fl.pc = "publish" /\ net.up /\ fl.ep = net.ep
    /\ s' = [Replacement EXCEPT !.subs = s.subs, !.told = s.told, !.blurred = s.blurred]
    /\ fl' = IF fl.req = NoRequest THEN Free ELSE [fl EXCEPT !.pc = "retry"]
    /\ due' = TRUE
    /\ UNCHANGED <<o, calls, wire, eng, evs, hand, net, recq, last, todo>>

(* resumeAndRetry sends once more, on the same permit *)
Retry ==
    /\ fl.pc = "retry" /\ fl' = Free
    /\ LET w == BeginSend(o, fl.req)
           why == Refusal(fl.kind, TRUE)
       IN  \/ /\ why # "nil"
              /\ o' = PublishOutcome(RecordSend(w, fl.req, why), fl.req, why)
              /\ UNCHANGED <<s, calls, wire, last>>
           \/ why = "nil" /\ Sends(fl.kind, fl.req, w, TRUE)
           \/ why = "nil" /\ SendBreaks(fl.kind, fl.req, w)
    /\ UNCHANGED <<eng, evs, hand, net, recq, due, todo>>

(* evict: the idle timer fired.  The timeout (minutes) is far longer than an
   event on the connection waits: none is left that could stop the timer. *)
Evict ==
    /\ fl.pc = "free" /\ s.idleTimer /\ evs = <<>> /\ hand = NoEvent /\ Spend("idle")
    /\ IF Evictable(s, Unresolved(o), Outstanding(calls) # {}) /\ net.up
       THEN LET c == NewCall("close", 0, NoRequest, FALSE)
            IN  /\ s' = BeginClose(s)
                /\ calls' = calls \cup {c} /\ wire' = wire \cup {Request(c)} /\ last' = last + 1
                /\ fl' = [Free EXCEPT !.pc = "evict"]
       ELSE s' = [s EXCEPT !.idleTimer = FALSE] /\ UNCHANGED <<calls, wire, last, fl>>
    /\ UNCHANGED <<o, eng, evs, hand, net, recq, due>>

(* Manager.Stop: closeContext, whatever the session is doing *)
Stop ==
    /\ fl.pc = "free" /\ Routable(s) /\ net.up /\ Spend("stop")
    /\ LET c == NewCall("close", 0, NoRequest, FALSE)
       IN  /\ s' = BeginClose(s)
           /\ calls' = calls \cup {c} /\ wire' = wire \cup {Request(c)} /\ last' = last + 1
    /\ fl' = [Free EXCEPT !.pc = "evict"]
    /\ UNCHANGED <<o, eng, evs, hand, net, recq, due>>

(* The close deadline passes; its answer may still come. *)
EvictTimeout ==
    /\ fl.pc = "evict" /\ fl' = Free
    /\ UNCHANGED <<s, o, calls, wire, eng, evs, hand, net, recq, due, last, todo>>

(* The last browser leaves. *)
Detach ==
    /\ s.subs
    /\ s' = Sched([s EXCEPT !.subs = FALSE], o, calls)
    /\ UNCHANGED <<o, calls, wire, eng, evs, hand, net, fl, recq, due, last, todo>>

-----------------------------------------------------------------------------
Client == \/ \E r \in todo.reqs, kind \in {"prompt", "steer"} : Send(kind, r)
          \/ Compact \/ QueryState \/ Respond \/ Reopen \/ Detach \/ Stop
Process == Complete \/ Ingest \/ Dispatch \/ InvalidateEpoch \/ StartJob \/ AcquireExisting
           \/ AcquireOpens \/ AcquireFails \/ Publish \/ Retry \/ Evict \/ EvictTimeout \/ ConfirmTimeout

Next == Client \/ Process \/ Engine \/ Loss \/ Connect

(* A written request is handled while its connection lives, an answer or a
   break completes its call, runs and compactions end, goroutines and timers
   take their turn, and a loss worth recovering reconnects. *)
Fairness ==
    /\ WF_vars(Complete) /\ WF_vars(Ingest) /\ WF_vars(Dispatch) /\ WF_vars(InvalidateEpoch)
    /\ WF_vars(StartJob) /\ WF_vars(AcquireExisting \/ AcquireOpens \/ AcquireFails \/ Publish \/ Retry)
    /\ WF_vars(EvictTimeout) /\ WF_vars(ConfirmTimeout)
    /\ WF_vars(EngineHandles) /\ WF_vars(EngineSettles) /\ WF_vars(EngineCompacted)
    /\ WF_vars(Connect /\ Worthy) /\ WF_vars(due /\ QueryState)

Spec == Init /\ [][Next]_vars /\ Fairness

-----------------------------------------------------------------------------
(* Properties *)

(* The ledger and the table of detached calls stay within their capacities,
   calls over lost connections included (beginSendOperation,
   callDetachedMutation), and the session belongs to a connection that was. *)
TypeOK ==
    /\ s.gen \in Nat /\ s.epoch \in 1..net.ep /\ Len(s.completed) <= MaxCompleted
    /\ Len(o.fifo) <= LedgerCapacity /\ Cardinality(Outstanding(calls)) <= DetachedLimit

(* Nothing is under way between the process and the engine. *)
Quiet ==
    /\ calls = {} /\ wire = {} /\ evs = <<>> /\ hand = NoEvent /\ fl = Free /\ recq = <<>>
    /\ ~due /\ net.up /\ s.epoch = net.ep /\ Routable(s)

(* Whatever the order of answers, events, losses and reopenings: once nothing
   is under way, work at the engine is latched, so that no prompt is sent into
   it and the session is not evicted.  On the first connection the latches are
   exactly the engine's state: no run or compaction stays latched for ever. *)
LatchesAgree ==
    Quiet /\ todo.known /\ ~s.blurred =>
        /\ eng.run => RunLatched(s)
        /\ eng.comp # 0 /\ (s.gen = 1 \/ eng.who[1] = "auto") => s.compactionActive
        /\ s.gen = 1 => RunLatched(s) = eng.run /\ s.compactionActive = (eng.comp # 0)

(* What newSession's comment promises of a reopened session: "A recovery query
   closes the gap between open's snapshot and route publication.  Subsequent
   live lifecycle activity supersedes hydration." *)
GapClosed ==
    Quiet /\ todo.known => RunLatched(s) = eng.run /\ s.compactionActive = (eng.comp # 0)

(* A compaction latch is never ended by the end event of another compaction:
   not by a late, an unnamed or an automatic one (endCompactionLocked). *)
CompactionEndsItself == s.misended => s.blurred

(* A request id reaches the engine once, over retries, losses and reopenings,
   until the ledger displaces it, and the outcome it gets is true: success was
   applied by the engine, and what is reported as failed never was and never
   will be (resumeAndRetry, publishDetachedOutcomeWithPolicy). *)
SentOnce ==
    \A r \in Requests : Named(r) =>
        /\ eng.applied[r] <= 1 + o.forgot[r]
        /\ o.forgot[r] = 0 /\ o.ops[r].phase = "terminal" =>
              (o.ops[r].err = "nil") = (eng.applied[r] > 0)

(* No send is forgotten half way: once nothing is under way every request id
   has its outcome, or its write was lost with a connection and is still held
   as unresolved (hasUnresolvedSendLocked). *)
NoLimbo ==
    Quiet => \A r \in Requests : \/ o.ops[r].phase \in {"none", "terminal"}
                                 \/ o.ops[r].phase = "admitted" /\ \E w \in o.writes : w[2] = r

(* Idle eviction never closes a session while the engine works on a send of
   this process, or has one to read (evict). *)
NoWorkEvicted ==
    [][s'.closing /\ ~s.closing /\ todo'.n["stop"] = todo.n["stop"] =>
          ~eng.own /\ \A w \in wire : w.k \notin {"prompt", "steer"}]_vars

(* Once nothing is under way the browser is asked only what the engine waits
   for, also after a reopening gave the questions new dialogs, and on the first
   connection all of it (reconcilePriorQuestions). *)
QuestionsAgree ==
    LET asked == {<<s.pending[i].req, s.pending[i].id>> : i \in DOMAIN s.pending}
        open == {<<a[1], a[2]>> : a \in eng.asks}
    IN  Quiet => asked \subseteq open /\ (s.gen = 1 => asked = open)

(* A session does not stay closing: the close is accepted, refused or lost
   with its connection, also after its deadline (completeClose). *)
ClosingEnds == s.closing ~> ~s.closing
=============================================================================
