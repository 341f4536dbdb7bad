---------------------------- MODULE BrowserStream ----------------------------
(***************************************************************************)
(* One browser connection and the stream of one chat on it                 *)
(* (internal/wsbridge/bridge.go and subscriber.go over Broadcast): binding, *)
(* activation, history, the recovery of an overflowed subscriber, resync   *)
(* and shutdown.                                                           *)
(*                                                                         *)
(* `task' is the connection's run loop, which handles one client frame or  *)
(* one recovery at a time; `closer' is shutdown, from any goroutine;       *)
(* Broadcast's pump, publisher and overflow goroutine run beside them.  A  *)
(* socket write holds subscriber.mu and stateMu, so it is one step with    *)
(* the checks before it; a slow write is a late step.                      *)
(***************************************************************************)
EXTENDS Broadcast

CONSTANTS RecoveryLimit,  \* recoverSubscriber: recoveries without 120 s of health
          Scenarios       \* bound: what the session publishes, and how often the
                          \* browser creates, closes and leaves and history expires

ASSUME ScenariosAssumption ==
    Scenarios \subseteq [frames : Seq({"msg", "event", "notice", "delta"}),
                         create : 1..3, close : 0..1, leave : 0..1, expire : 0..1]

VARIABLES
    s,       \* connection.sub, or the subscriber last detached from it
    c,       \* the connection
    task,    \* the run loop
    closer,  \* shutdown
    wake,    \* connection.subscriberRecovery
    shown,   \* live frames written to the socket
    paged,   \* messages the history pages on the socket carried
    owed,    \* frames the browser is entitled to
    stale,   \* frames taken for delivered though no write reached the socket
    todo     \* how often the browser may still act and history expire

vars == <<bvars, s, c, task, closer, wake, shown, paged, owed, stale, todo>>
conn == <<s, c, task, closer, wake>>
seen == <<shown, paged, owed, stale, todo>>

Keys == 1..3

(* newSubscriber *)
NewSubscriber(key, t, automatic) ==
    [active |-> FALSE, detached |-> "none", replaying |-> FALSE, pending |-> <<>>,
     key |-> key, transfer |-> t, abandoned |-> FALSE, automatic |-> automatic,
     claim |-> 0, rec |-> "none", recGen |-> 0, failed |-> FALSE]

Idle == [pc |-> "idle", op |-> "create", old |-> FALSE, attempt |-> 0, page |-> {},
         expired |-> FALSE, err |-> "none"]

Init ==
    /\ \E sc \in Scenarios : BInit(sc.frames) /\ todo = sc
    /\ held = [key \in Keys |-> 0]
    /\ s = [NewSubscriber(1, 0, FALSE) EXCEPT !.abandoned = TRUE]
    /\ c = [cur |-> FALSE, bound |-> FALSE, gen |-> 0, count |-> 0, exhausted |-> FALSE,
            closed |-> FALSE, replayActive |-> FALSE, keys |-> 1]
    /\ task = Idle /\ closer = [pc |-> "none", has |-> FALSE] /\ wake = FALSE
    /\ shown = <<>> /\ paged = {} /\ owed = {} /\ stale = {}

-----------------------------------------------------------------------------
(* subscriber *)

(* queryCurrentLocked for the claim taken at activation *)
ClaimCurrent == ~c.closed /\ c.bound /\ c.gen = s.claim

(* signalDetachAttemptWithReason *)
SignalDetach(y, reason) ==
    IF y.detached # "none" THEN y ELSE [y EXCEPT !.detached = reason, !.replaying = FALSE]

(* The connection after its subscriber y stopped replaying (connection.endReplay). *)
ReplayEnds(d, y) == [d EXCEPT !.replayActive = IF y.active /\ y.replaying THEN FALSE ELSE @]

(* Which frames the browser is no longer entitled to once it was told that
   history failed. *)
Told == {f \in owed : log[f].k \in {"msg", "app"}}

(* deliver and writeIfCurrentResult: the frame reaches the browser unless the
   binding has changed, and a history that failed is noted. *)
Deliver(item) ==
    /\ s' = [s EXCEPT !.failed = @ \/ (item.k = "error" /\ ClaimCurrent)]
    /\ shown' = IF item.k = "live" /\ ClaimCurrent THEN Append(shown, item.f) ELSE shown
    /\ paged' = IF ClaimCurrent THEN paged \cup item.ids ELSE paged
    /\ owed' = IF item.k = "error" /\ ClaimCurrent THEN owed \ Told ELSE owed
    /\ stale' = IF item.k = "live" /\ ~ClaimCurrent THEN stale \cup {item.f} ELSE stale

(* DeliverFrame of the item in hand: before activation it is buffered. *)
DeliverItem(item) ==
    /\ ~c.closed
    /\ IF ~s.active
       THEN s' = [s EXCEPT !.pending = Append(@, item)] /\ UNCHANGED <<shown, paged, owed, stale>>
       ELSE Deliver(item)
    /\ UNCHANGED <<c, task, closer, wake, todo>>

Terminal(item) == item.k \in {"term", "error"}

(* subscription.run with an item in hand.  The stop signal is looked at before
   the write: a write already under way may still succeed, unless CancelDelivery
   came first. *)
PumpDeliver ==
    /\ x.hand # NoItem
    /\ \/ /\ s.detached = "none"
          /\ DeliverItem(x.hand)
          /\ x' = [x EXCEPT !.hand = NoItem, !.draining = Terminal(x.hand),
                            !.replayed = IF x.replaying THEN @ \cup x.hand.ids ELSE @]
       \/ /\ x.stop # "none" \/ s.detached # "none"
          /\ x' = Broken
          /\ UNCHANGED <<conn, seen>>
    /\ UNCHANGED <<script, log, entries, appended, ovf, T, held>>

(* finishReplay with a frame at the head of the drain *)
PumpDrain ==
    /\ x.draining /\ x.replaying /\ x.replayDrain # <<>>
    /\ LET f == Head(x.replayDrain)
       IN  \/ Covering(f) # {} /\ x' = Drained(Covering(f)) /\ UNCHANGED <<conn, seen>>
           \/ /\ Covering(f) = {} /\ s.detached = "none"
              /\ DeliverItem([k |-> "live", f |-> f, ids |-> {}])
              /\ x' = Drained({})
           \/ /\ Covering(f) = {} /\ (x.stop # "none" \/ s.detached # "none")
              /\ x' = Broken
              /\ UNCHANGED <<conn, seen>>
    /\ UNCHANGED <<script, log, entries, appended, ovf, T, held>>

(* The socket is closed and the write fails: the pump retires its own
   subscription (broadcaster.retire), which cancels the subscriber. *)
PumpFails ==
    /\ c.closed /\ (x.hand # NoItem \/ x.draining) /\ ovf = 0 /\ ~x.exited
    /\ x' = [Broken EXCEPT !.live = FALSE, !.stop = IF @ = "none" THEN "detached" ELSE @]
    /\ s' = SignalDetach(s, "detached")
    /\ c' = ReplayEnds(c, s)
    /\ UNCHANGED <<script, log, entries, appended, ovf, T, held, task, closer, wake, seen>>

(* The pump's other steps; the gate's end reaches the connection. *)
PumpOther ==
    /\ PumpTake \/ DrainMore \/ DrainDone \/ PumpExit
    /\ s' = [s EXCEPT !.replaying = @ /\ x'.replaying]
    /\ c' = IF s.replaying /\ ~x'.replaying THEN ReplayEnds(c, s) ELSE c
    /\ UNCHANGED <<script, log, entries, appended, ovf, T, held, task, closer, wake, seen>>

Pump == PumpDeliver \/ PumpDrain \/ PumpFails \/ PumpOther

-----------------------------------------------------------------------------
(* The overflow goroutine (broadcaster.finishOverflowAsync). *)

(* stopWithReason after the transfer is installed *)
OverflowStops ==
    /\ TakeOverflow(s.key)
    /\ s' = [s EXCEPT !.replaying = FALSE]
    /\ c' = ReplayEnds(c, s)
    /\ UNCHANGED <<task, closer, wake, seen>>

(* RetainSubscriberOverflowTransfer *)
Retain ==
    /\ x.bg = "retain" /\ ovf = 0
    /\ x' = [x EXCEPT !.bg = "cancel"]
    /\ IF s.abandoned \/ c.closed
       THEN held' = Released(x.t) /\ s' = s
       ELSE /\ s' = [s EXCEPT !.transfer = x.t]
            /\ held' = IF s.transfer = 0 THEN held ELSE Released(s.transfer)
    /\ UNCHANGED <<script, log, entries, appended, ovf, T, c, task, closer, wake, seen>>

(* CancelDelivery: the recovery is recorded with the binding it belongs to. *)
CancelDelivery ==
    /\ x.bg = "cancel"
    /\ x' = [x EXCEPT !.bg = "wait"]
    /\ s' = SignalDetach([s EXCEPT !.rec = IF @ = "none" THEN "armed" ELSE @,
                                   !.recGen = IF s.rec = "none" /\ c.cur /\ c.bound
                                              THEN c.gen ELSE @],
                         "overflow")
    /\ c' = IF s.detached = "none" THEN ReplayEnds(c, s) ELSE c
    /\ UNCHANGED <<script, log, entries, appended, ovf, T, held, task, closer, wake, seen>>

(* The pump has ended: the transfer gets its prefix. *)
Finalize ==
    /\ x.bg = "wait" /\ x.exited /\ ovf = 0
    /\ x' = [x EXCEPT !.bg = "recover", !.q = <<>>, !.replayDrain = <<>>, !.prefix = <<>>,
                      !.replayed = {}, !.failed = 0]
    /\ T' = IF held[s.key] = x.t
            THEN [T EXCEPT ![x.t] = TransferFinalize(@, OverflowPrefix)] ELSE T
    /\ UNCHANGED <<script, log, entries, appended, ovf, held, conn, seen>>

(* signalRecovery *)
Signalled(y) ==
    [y EXCEPT !.recGen = IF y.rec = "ready" /\ c.cur /\ c.bound /\ @ = 0 THEN c.gen ELSE @]

(* Wrong: the run loop is not woken. *)
AskRecoveryQuiet ==
    /\ x.bg = "recover"
    /\ x' = [x EXCEPT !.bg = "done", !.tail = FALSE, !.t = 0]
    /\ s' = Signalled([s EXCEPT !.rec = IF @ = "armed" THEN "ready" ELSE @])
    /\ UNCHANGED <<script, log, entries, appended, ovf, T, held, c, task, closer, wake, seen>>

(* RecoverSubscriberOverflow, then the cleanup is done *)
AskRecovery ==
    /\ x.bg = "recover"
    /\ x' = [x EXCEPT !.bg = "done", !.tail = FALSE, !.t = 0]
    /\ s' = Signalled([s EXCEPT !.rec = IF @ = "armed" THEN "ready" ELSE @])
    /\ wake' = (wake \/ (s'.rec = "ready" /\ ~c.closed))
    /\ UNCHANGED <<script, log, entries, appended, ovf, T, held, c, task, closer, seen>>

Overflow == OverflowStops \/ Retain \/ CancelDelivery \/ Finalize \/ AskRecovery

-----------------------------------------------------------------------------
(* The session publishes while the connection runs. *)

Durable == {f \in Frames : log[f].k \in {"msg", "notice"}}

(* A frame is owed when a subscriber or the transfer it left behind gets it; a
   message or a notice also when it can be read back later. *)
Publication ==
    /\ Publish \/ EntryAppended
    /\ LET f == Len(log')
       IN  owed' = IF log'[f].k # "delta" /\ c.cur
                      /\ (x.live \/ held[s.key] # 0 \/ log'[f].k \in {"msg", "notice"})
                   THEN owed \cup {f} ELSE owed
    /\ UNCHANGED <<conn, shown, paged, stale, todo>>

Persists == Persist /\ UNCHANGED <<conn, seen>>

-----------------------------------------------------------------------------
(* The run loop: chat.create and chat.close. *)

Goto(pc) == task' = [task EXCEPT !.pc = pc]

(* connection.detachBinding up to the detach *)
Unbound == [c EXCEPT !.cur = FALSE, !.bound = FALSE, !.gen = @ + 1]

(* A create or close frame of the browser; create takes the binding away first. *)
StartFrame(op) ==
    /\ task.pc = "idle" /\ ~c.closed
    /\ todo[op] > 0 /\ (op = "close" => c.cur)
    /\ todo' = [todo EXCEPT ![op] = @ - 1]
    /\ c' = Unbound
    /\ task' = [Idle EXCEPT !.pc = IF c.bound THEN "unbind" ELSE "handoff",
                            !.op = op, !.old = c.cur]
    /\ UNCHANGED <<bvars, s, closer, wake, shown, paged, owed, stale>>

(* broadcaster.retire by the detach function: the subscription leaves and stops. *)
Retired(y) == [EndReplay(y) EXCEPT !.live = FALSE, !.stop = IF @ = "none" THEN "detached" ELSE @]

(* wrapDetach: the subscriber is told, then the subscription is retired. *)
Detaches ==
    /\ ovf = 0
    /\ x' = Retired(x)
    /\ s' = SignalDetach(s, "detached")
    /\ c' = IF s.detached = "none" THEN ReplayEnds(c, s) ELSE c
    /\ UNCHANGED <<script, log, entries, appended, ovf, T, held, wake, seen>>

TaskDetaches == task.pc = "unbind" /\ Detaches /\ Goto("handoff") /\ UNCHANGED closer

(* create after the detach was joined: the successor takes the retained stream
   and its key from the subscriber of the same chat, unless the connection has
   ended; chat.close gives it up. *)
Handoff ==
    /\ task.pc = "handoff" /\ Cleaned
    /\ LET gone == task.op = "close" \/ c.closed \/ c.exhausted
       IN  /\ s' = IF gone THEN [s EXCEPT !.transfer = 0, !.abandoned = TRUE]
                   ELSE NewSubscriber(IF task.old THEN s.key ELSE c.keys,
                                      IF task.old THEN s.transfer ELSE 0, FALSE)
           /\ held' = IF gone THEN Released(s.transfer) ELSE held
           /\ c' = IF gone THEN c
                   ELSE [c EXCEPT !.cur = TRUE, !.count = 0,
                                  !.keys = IF task.old THEN @ ELSE @ + 1]
           /\ task' = IF gone THEN Idle ELSE [task EXCEPT !.pc = "attach", !.attempt = 1]
           /\ owed' = IF task.op = "close" \/ ~task.old THEN {}
                      ELSE IF held[s.key] = 0 THEN owed \cap Durable ELSE owed
    /\ UNCHANGED <<script, log, entries, appended, x, ovf, T, closer, wake, shown, paged, stale, todo>>

-----------------------------------------------------------------------------
(* createWithTransfer: attach, history, binding, activation. *)

Live(f) == [k |-> "live", f |-> f, ids |-> {}]

(* attachWithError: a retained transfer that was replaced, overflowed or is not
   complete refuses the attach. *)
Attach ==
    /\ task.pc = "attach" /\ ovf = 0 /\ Cleaned
    /\ LET own == s.transfer # 0 /\ ~T[s.transfer].consumed
           t == held[s.key]
           rejected == \/ own /\ t # s.transfer
                       \/ t # 0 /\ (T[t].overflowed \/ ~T[t].finalized)
           initial == Merge(Journal, IF t = 0 THEN <<>> ELSE T[t].frames)
       IN  IF c.closed \/ rejected
           THEN /\ task' = [task EXCEPT !.pc = "fail", !.err = IF c.closed THEN "detached" ELSE "overflow"]
                /\ UNCHANGED <<x, T, held, s>>
           ELSE /\ x' = [NoSubscription EXCEPT !.live = TRUE, !.exited = FALSE, !.arming = TRUE,
                          !.cap = Larger(QueueSize, Larger(Len(Journal) + 1, Len(initial)))]
                /\ T' = IF t = 0 THEN T ELSE [T EXCEPT ![t] = [NoTransfer EXCEPT !.consumed = TRUE]]
                /\ held' = [held EXCEPT ![s.key] = 0]
                /\ s' = [s EXCEPT !.pending = [i \in DOMAIN initial |-> Live(initial[i])]]
                /\ Goto("gate")
    /\ UNCHANGED <<script, log, entries, appended, ovf, c, closer, wake, seen>>

(* beginReplay, before lifecycleMu is released *)
Gate ==
    /\ task.pc = "gate"
    /\ x' = [x EXCEPT !.arming = FALSE, !.replaying = TRUE, !.replayed = {}]
    /\ s' = [s EXCEPT !.replaying = s.detached = "none"]
    /\ Goto("read")
    /\ UNCHANGED <<script, log, entries, appended, ovf, T, held, c, closer, wake, seen>>

(* The engine's entries after the ones on disk (fetchEntriesAfter) complete the
   branch. *)
Transcript == Range(entries)

(* hydrateEntriesValidated: the disk and the engine's tail are read. *)
ReadHistory ==
    /\ task.pc = "read"
    /\ task' = [task EXCEPT !.pc = "commit", !.page = Transcript]
    /\ UNCHANGED <<bvars, s, c, closer, wake, seen>>

(* commitBinding *)
Commit ==
    /\ task.pc = "commit"
    /\ IF c.closed \/ c.exhausted \/ ~c.cur
       THEN /\ task' = [task EXCEPT !.pc = "fail", !.err = "detached"]
            /\ UNCHANGED <<s, c, wake>>
       ELSE /\ c' = [c EXCEPT !.bound = TRUE, !.gen = @ + 1]
            /\ s' = [s EXCEPT !.recGen = IF s.rec = "ready" /\ @ = 0 THEN c.gen + 1 ELSE @]
            /\ wake' = (wake \/ s.rec = "ready")
            /\ Goto("activate")
    /\ UNCHANGED <<bvars, closer, seen>>

(* subscriber.activate: the claim is taken and what was buffered is written. *)
Activate ==
    /\ task.pc = "activate"
    /\ \/ /\ s.detached # "none" \/ c.closed \/ ~c.cur \/ task.expired
          /\ task' = [task EXCEPT !.pc = "fail",
                         !.err = IF s.detached = "overflow" THEN "overflow" ELSE "detached"]
          /\ c' = IF s.detached = "overflow" /\ c.cur /\ c.bound
                  THEN [c EXCEPT !.bound = FALSE, !.gen = @ + 1] ELSE c
          /\ UNCHANGED <<s, shown>>
       \/ /\ s.detached = "none" /\ ~c.closed /\ c.cur /\ ~task.expired
          /\ s' = [s EXCEPT !.active = TRUE, !.claim = c.gen, !.pending = <<>>]
          /\ c' = [c EXCEPT !.replayActive = s.replaying]
          /\ shown' = shown \o [i \in DOMAIN s.pending |-> s.pending[i].f]
          /\ Goto("page")
    /\ UNCHANGED <<bvars, closer, wake, paged, owed, stale, todo>>

(* enqueueReplay of a page or of the terminal item; a stopped subscription
   refuses it. *)
EnqueueReplay(pc, item, next) ==
    /\ task.pc = pc /\ ~task.expired
    /\ \/ /\ x.stop = "none" /\ Len(x.q) < x.cap
          /\ x' = [x EXCEPT !.q = Append(@, item)]
          /\ task' = [task EXCEPT !.pc = next, !.page = IF pc = "page" THEN {} ELSE @]
       \/ /\ x.stop # "none"
          /\ task' = [task EXCEPT !.pc = "fail", !.err = x.stop]
          /\ x' = x
    /\ UNCHANGED <<script, log, entries, appended, ovf, T, held, s, c, closer, wake, seen>>

(* The pages of entries; the final page (emitTailEntries); the error that ends
   a history in their place (publishHistoryError) *)
Page(ids) == [k |-> "page", f |-> 0, ids |-> ids]
FinalPage == [k |-> "term", f |-> 0, ids |-> {}]
HistoryError == [k |-> "error", f |-> 0, ids |-> {}]

SendPage == EnqueueReplay("page", Page(task.page), "term")
SendTerminal == EnqueueReplay("term", FinalPage, "wait")

(* createWithTransfer after the history: an automatic recovery whose history
   failed did not recover. *)
Settle(pc) ==
    IF s.automatic /\ (task.expired \/ s.failed)
    THEN task' = [task EXCEPT !.pc = "fail", !.err = "history"]
    ELSE Goto(pc)

WaitTerminal ==
    /\ task.pc = "wait" /\ ~task.expired
    /\ \/ x.acked /\ Settle("idle")
       \/ x.stop # "none" /\ task' = [task EXCEPT !.pc = "fail", !.err = x.stop]
    /\ UNCHANGED <<bvars, s, c, closer, wake, seen>>

(* The history context's deadline passes. *)
Expire ==
    /\ todo.expire > 0 /\ ~task.expired /\ task.pc \in {"commit", "page", "term", "wait"}
    /\ todo' = [todo EXCEPT !.expire = @ - 1]
    /\ task' = [task EXCEPT !.expired = TRUE]
    /\ UNCHANGED <<bvars, s, c, closer, wake, shown, paged, owed, stale>>

(* publishErr after the deadline: the error is the terminal item if it fits
   without waiting, else the subscription is retired and the socket closed. *)
ExpiredTerminal ==
    /\ task.expired /\ task.pc \in {"page", "term", "wait"} /\ ovf = 0
    /\ \/ /\ x.stop = "none" /\ Len(x.q) < x.cap
          /\ x' = [x EXCEPT !.q = Append(@, HistoryError)]
          /\ Settle("idle")
          /\ UNCHANGED <<s, c, closer>>
       \/ /\ x.stop # "none" \/ Len(x.q) >= x.cap
          /\ x' = Retired(x)
          /\ s' = SignalDetach(s, "detached")
          /\ c' = [ReplayEnds(c, s) EXCEPT !.closed = TRUE]
          /\ closer' = IF c.closed THEN closer ELSE [closer EXCEPT !.pc = "start"]
          /\ task' = [task EXCEPT !.pc = "fail", !.err = "detached"]
    /\ UNCHANGED <<script, log, entries, appended, ovf, T, held, wake, seen>>

-----------------------------------------------------------------------------
(* A failed attach. *)

(* The failed attempt's subscription is detached; only the first overflow of a
   create is tried again (AcquireInitializedCheckedAndRunRecovering). *)
FailDetaches ==
    /\ task.pc = "fail" /\ ovf = 0
    /\ x' = Retired([x EXCEPT !.arming = FALSE])
    /\ Goto(IF task.err = "overflow" /\ task.attempt = 1 /\ ~s.automatic THEN "retry" ELSE "giveup")
    /\ UNCHANGED <<script, log, entries, appended, ovf, T, held, s, c, closer, wake, seen>>

(* DiscardHydrationAttempt, and the second attempt *)
DiscardHydrationAttempt ==
    /\ task.pc = "retry" /\ Cleaned
    /\ s' = [NewSubscriber(s.key, s.transfer, s.automatic) EXCEPT !.abandoned = s.abandoned]
    /\ c' = ReplayEnds(c, s)
    /\ task' = [task EXCEPT !.pc = "attach", !.attempt = 2, !.err = "none"]
    /\ stale' = stale \cup {s.pending[i].f : i \in DOMAIN s.pending}
    /\ UNCHANGED <<bvars, closer, wake, shown, paged, owed, todo>>

Exhausts(d) == s.automatic /\ ~d.closed /\ ~d.exhausted /\ d.cur

(* The error path of createWithTransfer, its deferred release, and
   exhaustSubscriberRecovery of the caller: the connection closes after an
   overflow or a failed automatic recovery. *)
GiveUp ==
    /\ task.pc = "giveup" /\ Cleaned
    /\ s' = [SignalDetach(s, "detached") EXCEPT !.transfer = 0, !.abandoned = TRUE]
    /\ held' = Released(s.transfer)
    /\ LET d == [ReplayEnds(c, s) EXCEPT
                   !.cur = @ /\ s.automatic, !.bound = @ /\ s.automatic,
                   !.gen = IF s.automatic \/ ~c.cur THEN @ ELSE @ + 1,
                   !.exhausted = @ \/ Exhausts(c)]
           shut == ~c.closed /\ (Exhausts(c) \/ (task.err = "overflow" /\ ~s.automatic))
       IN  /\ c' = [d EXCEPT !.closed = @ \/ shut]
           /\ closer' = IF shut THEN [closer EXCEPT !.pc = "start"] ELSE closer
    /\ task' = Idle
    /\ owed' = {}
    /\ UNCHANGED <<script, log, entries, appended, x, ovf, T, wake, shown, paged, stale, todo>>

-----------------------------------------------------------------------------
(* recoverSubscriber: the run loop was woken. *)

Recoverable ==
    ~c.closed /\ ~c.exhausted /\ c.cur /\ c.bound /\ s.rec = "ready" /\ s.recGen = c.gen

Replacement == NewSubscriber(s.key, s.transfer, TRUE)

RecoverSubscriber ==
    /\ task.pc = "idle" /\ wake
    /\ wake' = FALSE
    /\ IF ~Recoverable THEN UNCHANGED <<s, c, task, closer>>
       ELSE IF c.count >= RecoveryLimit
       THEN /\ c' = [c EXCEPT !.exhausted = TRUE, !.closed = TRUE]
            /\ s' = [s EXCEPT !.rec = "taken"]
            /\ closer' = [closer EXCEPT !.pc = "start"]
            /\ task' = task
       ELSE /\ c' = [c EXCEPT !.count = @ + 1, !.gen = @ + 1, !.bound = FALSE]
            /\ s' = Replacement
            /\ task' = [Idle EXCEPT !.pc = "attach", !.attempt = 1]
            /\ closer' = closer
    /\ UNCHANGED <<bvars, seen>>

Task ==
    \/ TaskDetaches \/ Handoff
    \/ Attach \/ Gate \/ ReadHistory \/ Commit \/ Activate
    \/ SendPage \/ SendTerminal \/ WaitTerminal \/ ExpiredTerminal
    \/ FailDetaches \/ DiscardHydrationAttempt \/ GiveUp
    \/ RecoverSubscriber

-----------------------------------------------------------------------------
(* shutdown: the browser leaves, the socket fails, or recovery is exhausted. *)

Disconnect ==
    /\ ~c.closed /\ todo.leave > 0
    /\ todo' = [todo EXCEPT !.leave = @ - 1]
    /\ c' = [c EXCEPT !.closed = TRUE]
    /\ closer' = [closer EXCEPT !.pc = "start"]
    /\ UNCHANGED <<bvars, s, task, wake, shown, paged, owed, stale>>

(* unbind *)
CloserUnbinds ==
    /\ closer.pc = "start"
    /\ c' = Unbound
    /\ closer' = [pc |-> IF c.bound THEN "detach" ELSE "release", has |-> c.cur]
    /\ UNCHANGED <<bvars, s, task, wake, seen>>

CloserDetaches ==
    /\ closer.pc = "detach" /\ Detaches
    /\ closer' = [closer EXCEPT !.pc = "join"] /\ UNCHANGED task

(* Wrong: the transfer of the unbound subscriber stays where it is. *)
CloserKeeps ==
    /\ closer.pc = "release" \/ (closer.pc = "join" /\ Cleaned)
    /\ s' = [s EXCEPT !.abandoned = TRUE]
    /\ closer' = [closer EXCEPT !.pc = "done"]
    /\ UNCHANGED <<bvars, c, task, wake, seen>>

(* releaseTransfer of the subscriber unbind took *)
CloserReleases ==
    /\ closer.pc = "release" \/ (closer.pc = "join" /\ Cleaned)
    /\ IF closer.has
       THEN s' = [s EXCEPT !.transfer = 0, !.abandoned = TRUE] /\ held' = Released(s.transfer)
       ELSE UNCHANGED <<s, held>>
    /\ closer' = [closer EXCEPT !.pc = "done"]
    /\ UNCHANGED <<script, log, entries, appended, x, ovf, T, c, task, wake, seen>>

Closer == CloserUnbinds \/ CloserDetaches \/ CloserReleases

-----------------------------------------------------------------------------
Next ==
    \/ Publication \/ Persists
    \/ Pump \/ Overflow \/ Task \/ Closer
    \/ StartFrame("create") \/ StartFrame("close") \/ Expire \/ Disconnect

(* Every goroutine of the server keeps running; the browser and the engine do
   as they like. *)
Fairness == WF_vars(Pump) /\ WF_vars(Overflow) /\ WF_vars(Task) /\ WF_vars(Closer)

Spec == Init /\ [][Next]_vars /\ Fairness

-----------------------------------------------------------------------------
TypeOK ==
    /\ log \in Seq([k : Kinds, m : Nat, seq : Nat])
    /\ x.live \in BOOLEAN /\ x.replaying \in BOOLEAN /\ Len(x.pendingLive) <= x.cap
    /\ Len(x.q) <= x.cap
    /\ held \in [Keys -> 0..MaxTransfers]
    /\ s.detached \in {"none", "detached", "overflow"}
    /\ c.gen \in Nat /\ c.count \in 0..RecoveryLimit
    /\ owed \subseteq Frames /\ paged \subseteq Frames

(* A live frame that is not a notice (those come again from the journal) is
   written at most once, and the frames in the order they were published, over
   replay, overflow, recovery and resync. *)
InOrder ==
    LET body == SelectSeq(shown, LAMBDA f : log[f].k # "notice")
    IN  \A i, j \in DOMAIN body : i < j => body[i] < body[j]

(* The stream is live and nothing of it is under way. *)
Settled ==
    /\ task.pc = "idle" /\ ~c.closed /\ c.bound /\ s.active /\ s.detached = "none"
    /\ x.live /\ x.stop = "none" /\ ~x.replaying /\ ~x.draining
    /\ x.q = <<>> /\ x.hand = NoItem /\ ovf = 0

(* The message of frame f reached the browser: as the frame, in a page, or by
   the announcement of its entry, which the browser loads. *)
MessageReached(f) ==
    \/ f \in Range(shown) \/ f \in paged \/ appended[f] = 0
    \/ \E g \in Range(shown) : log[g].k = "app" /\ log[g].m = f

Reached(f) ==
    CASE log[f].k = "msg" -> MessageReached(f)
      [] log[f].k = "app" -> f \in Range(shown) \/ log[f].m \in paged
      [] OTHER -> f \in Range(shown)

(* Between the history read, the gate and the live queue, and through an
   overflow and its transfer, no frame the browser was owed is lost: when the
   stream has settled each has reached it, except an event whose write found
   its binding replaced or that was buffered for an attempt thrown away. *)
NoGap == Settled => \A f \in owed \ (stale \ Durable) : Reached(f)

(* A resync that overtakes a queued recovery retains the whole stream, as the
   comment in create says. *)
ResyncRetainsStream == Settled => \A f \in owed : Reached(f)

(* A closed connection whose goroutines have ended leaves no transfer behind in
   the session's broadcaster. *)
Reclaimed ==
    closer.pc = "done" /\ task.pc = "idle" /\ Cleaned => \A key \in Keys : held[key] = 0

(* An overflowed stream is live again, or the connection has closed. *)
OverflowSettles ==
    x.stop = "overflow" ~> (c.closed \/ ~c.cur \/ (x.live /\ x.stop = "none" /\ ~x.replaying))
=============================================================================
