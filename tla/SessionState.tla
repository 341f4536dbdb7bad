---------------------------- MODULE SessionState ----------------------------
(***************************************************************************)
(* What one Session (internal/session/session.go, dispatch.go,             *)
(* question_state.go) does to its own state under lifecycleMu: the run and *)
(* compaction latches, what is inherited over a lost connection, the idle  *)
(* timer, the close transaction and the pending questions.  Every operator *)
(* maps a session record to the record the code leaves behind; the ledger  *)
(* of sends is in SendLedger, the interleavings are in Session.            *)
(*                                                                         *)
(* `told' is what the frames published so far say to a browser: a run is   *)
(* active, a compaction is active.  `who' and `misended' are history: which *)
(* compaction the latch stands for, and whether an event of another one    *)
(* has ended it.  `blurred' records the two places where the code does not *)
(* track the engine: an automatic compaction whose start is paired with an *)
(* open manual transaction, and a start dropped while a close owns the     *)
(* route that the engine then refuses.                                     *)
(***************************************************************************)
EXTENDS Integers, Sequences, SequencesExt, FiniteSets

CONSTANT MaxCompleted   \* maxCompletedCompactions

ASSUME CompletedAssumption == MaxCompleted \in Nat \ {0}

Nobody == <<"none", 0>>

(* newSession, before hydration *)
NewSession(gen, epoch, resumed) ==
    [gen |-> gen, epoch |-> epoch,
     closed |-> FALSE, closing |-> FALSE, resumable |-> FALSE, invalidated |-> FALSE,
     promptInFlight |-> FALSE, providerRunActive |-> FALSE, compactionActive |-> FALSE,
     localCommandActive |-> FALSE, promptResponse |-> FALSE,
     promptSeq |-> 0, localCommandSeq |-> 0, compactSeq |-> 0,
     compactRPCID |-> 0, compactProviderID |-> 0, manual |-> FALSE,
     completed |-> <<>>, unpaired |-> 0,
     closeRunSettled |-> FALSE, hydrationPending |-> resumed, activityRevision |-> 0,
     workAtLoss |-> FALSE, runAtLoss |-> FALSE, compactionAtLoss |-> FALSE,
     idleTimer |-> FALSE, subs |-> FALSE, pending |-> <<>>,
     told |-> [run |-> FALSE, comp |-> FALSE], who |-> Nobody, misended |-> FALSE,
     blurred |-> FALSE]

RunLatched(y) == y.promptInFlight \/ y.providerRunActive \/ y.localCommandActive

(* activeLocked *)
Active(y) == RunLatched(y) \/ y.compactionActive

(* routeLocked returns the route *)
Routable(y) == ~y.closed /\ ~y.closing /\ ~y.resumable

(* recoveryWorkLocked; unresolved is hasUnresolvedSendLocked *)
RecoveryWork(y, unresolved) == y.workAtLoss \/ unresolved

(* Wrong: calls that are still out do not keep the session. *)
EvictableIdle(y, unresolved, busy) == Routable(y) /\ ~Active(y) /\ ~y.subs

(* evict's and scheduleIdleLocked's condition; busy is activeDetached # 0 *)
Evictable(y, unresolved, busy) ==
    Routable(y) /\ ~Active(y) /\ ~RecoveryWork(y, unresolved) /\ ~y.subs /\ ~busy

(* scheduleIdleLocked *)
ScheduleIdle(y, unresolved, busy) ==
    [y EXCEPT !.idleTimer = @ \/ Evictable(y, unresolved, busy)]

(* observeLiveActivityLocked *)
ObserveLive(y, unresolved) ==
    [y EXCEPT !.activityRevision = @ + 1, !.hydrationPending = unresolved]

(* The lines of hydrateActivityLocked that copy what the snapshot tells. *)
Copied(y, snap) ==
    IF snap.known
    THEN [y EXCEPT !.providerRunActive = snap.run, !.compactionActive = snap.comp]
    ELSE [y EXCEPT !.providerRunActive = @ \/ y.runAtLoss,
                   !.compactionActive = @ \/ y.compactionAtLoss]

(* hydrateActivityLocked *)
Hydrate(y, snap) ==
    LET z == Copied(y, snap)
        w == z.workAtLoss /\ (z.providerRunActive \/ z.compactionActive)
    IN  [z EXCEPT !.workAtLoss = w,
                  !.runAtLoss = w /\ z.providerRunActive,
                  !.compactionAtLoss = w /\ z.compactionActive,
                  !.compactRPCID = IF z.compactionActive THEN @ ELSE 0,
                  !.compactProviderID = IF z.compactionActive THEN @ ELSE 0,
                  !.who = IF z.compactionActive THEN @ ELSE Nobody]

(* inheritWork: ownership of unconfirmed work passes to the replacement *)
InheritWork(y, prior, snap) ==
    LET comp == prior.compactionAtLoss \/ prior.compactionActive
        z == [y EXCEPT !.workAtLoss = prior.workAtLoss \/ Active(prior),
                       !.compactionAtLoss = comp,
                       !.runAtLoss = \/ prior.runAtLoss \/ RunLatched(prior)
                                     \/ prior.workAtLoss /\ ~comp,
                       !.who = IF comp THEN prior.who ELSE Nobody]
    IN  Hydrate(IF comp THEN [z EXCEPT !.compactSeq = prior.compactSeq,
                                       !.compactRPCID = prior.compactRPCID,
                                       !.compactProviderID = prior.compactProviderID,
                                       !.manual = prior.manual]
                        ELSE z, snap)

-----------------------------------------------------------------------------
(* Compactions.  Ids: <<"r", n>> is the manual transaction compact-n, <<"p", n>> *)
(* an id the provider gave; 0 stands for no id.                            *)

Completed(y) == UNION ToSet(y.completed)

LastN(q, k) == SubSeq(q, IF Len(q) > k THEN Len(q) - k + 1 ELSE 1, Len(q))

(* rememberCompletedCompactionLocked *)
Remember(y, ids) ==
    LET new == {id \in ids : id[2] # 0} \ Completed(y)
    IN  IF new = {} THEN y ELSE [y EXCEPT !.completed = LastN(Append(@, new), MaxCompleted)]

(* finishCompactionLocked, without the callback of a settled run *)
FinishCompaction(y, id) ==
    LET z == Remember(y, {<<"r", y.compactRPCID>>, <<"p", y.compactProviderID>>, <<"p", id>>})
    IN  [z EXCEPT !.compactionActive = FALSE, !.compactionAtLoss = FALSE,
                  !.workAtLoss = @ /\ RunLatched(y),
                  !.compactRPCID = 0, !.compactProviderID = 0,
                  !.told.comp = FALSE, !.who = Nobody]

(* compact, under the lock *)
BeginManual(y, unresolved) ==
    [ObserveLive(y, unresolved) EXCEPT
        !.compactSeq = @ + 1, !.compactionActive = TRUE, !.compactRPCID = y.compactSeq + 1,
        !.compactProviderID = 0, !.manual = TRUE, !.idleTimer = FALSE,
        !.told.comp = TRUE, !.who = <<"call", y.compactSeq + 1>>]

(* beginCompactionLocked for an event of compaction ev.c *)
BeginCompaction(y, ev) ==
    LET done == <<"p", ev.id>> \in Completed(y)
        pairs == ev.id # 0 /\ ev.manual /\ y.unpaired > 0
    IN  CASE ev.id # 0 /\ done -> y
          [] ~done /\ pairs -> Remember([y EXCEPT !.unpaired = @ - 1], {<<"p", ev.id>>})
          [] ~done /\ ~pairs /\ y.compactionActive ->
                [y EXCEPT !.compactProviderID = IF @ = 0 THEN ev.id ELSE @,
                          !.blurred = @ \/ (y.compactRPCID # 0 /\ ~ev.manual)]
          [] ~done /\ ~pairs /\ ~y.compactionActive /\ ev.manual -> y
          [] OTHER ->
                [y EXCEPT !.compactionActive = TRUE, !.compactSeq = @ + 1,
                          !.compactProviderID = ev.id, !.compactRPCID = 0, !.manual = FALSE,
                          !.idleTimer = FALSE, !.told.comp = TRUE, !.who = ev.who]

(* Wrong: an end without an id may end a manual transaction. *)
EndMatchesAnonymous(y, ev) ==
    /\ y.compactionActive /\ <<"p", ev.id>> \notin Completed(y)
    /\ (ev.id # 0 /\ y.compactProviderID # 0) => ev.id = y.compactProviderID

(* endCompactionLocked: the event ends the latched compaction *)
EndMatches(y, ev) ==
    /\ y.compactionActive /\ <<"p", ev.id>> \notin Completed(y)
    /\ (y.compactRPCID # 0) => (ev.id # 0 /\ ev.manual)
    /\ (ev.id # 0 /\ y.compactProviderID # 0) => ev.id = y.compactProviderID

(* endCompactionLocked *)
EndCompaction(y, ev, unresolved) ==
    IF EndMatches(y, ev)
    THEN [FinishCompaction(ObserveLive(y, unresolved), ev.id) EXCEPT
             !.misended = @ \/ (y.who # Nobody /\ y.who # ev.who)]
    ELSE y

(* completeCompact for transaction n *)
CompleteCompact(y, n) ==
    IF y.compactSeq = n /\ y.compactionActive /\ y.compactRPCID = n
    THEN [Remember(y, {<<"r", n>>, <<"p", y.compactProviderID>>}) EXCEPT
             !.compactionActive = FALSE,
             !.unpaired = IF y.compactProviderID = 0 /\ @ < MaxCompleted THEN @ + 1 ELSE @,
             !.compactRPCID = 0, !.compactProviderID = 0,
             !.told.comp = FALSE, !.who = Nobody]
    ELSE y

-----------------------------------------------------------------------------
(* Runs *)

(* sendPrompt, under the lock *)
BeginPrompt(y, unresolved) ==
    [ObserveLive(y, unresolved) EXCEPT
        !.promptSeq = @ + 1, !.promptInFlight = TRUE, !.promptResponse = FALSE,
        !.localCommandActive = FALSE, !.idleTimer = FALSE]

(* completeProviderRunLocked *)
CompleteRun(y) ==
    LET z == IF y.compactionActive /\ y.compactRPCID = 0 THEN FinishCompaction(y, 0) ELSE y
    IN  [z EXCEPT !.providerRunActive = FALSE, !.promptInFlight = FALSE,
                  !.localCommandActive = FALSE, !.promptResponse = FALSE,
                  !.runAtLoss = FALSE, !.workAtLoss = z.compactionActive, !.told.run = FALSE]

(* completeLocalCommandLocked *)
CompleteLocal(y) ==
    IF y.promptInFlight /\ y.localCommandActive
    THEN [y EXCEPT !.promptInFlight = FALSE, !.providerRunActive = FALSE,
                   !.localCommandActive = FALSE, !.promptResponse = FALSE, !.told.run = FALSE]
    ELSE y

(* completePrompt *)
CompletePrompt(y, n, ok) ==
    IF y.promptSeq # n THEN y
    ELSE IF ~ok
         THEN IF y.providerRunActive THEN y
              ELSE [y EXCEPT !.promptInFlight = FALSE, !.localCommandActive = FALSE,
                             !.promptResponse = FALSE]
         ELSE LET z == [y EXCEPT !.promptResponse = TRUE]
              IN  IF z.localCommandActive /\ z.localCommandSeq = n THEN CompleteLocal(z) ELSE z

(* dispatch: agent_start, agent_settled, command_invocation *)
AgentStart(y, unresolved) ==
    LET z == ObserveLive(y, unresolved)
    IN  IF z.providerRunActive THEN z
        ELSE [z EXCEPT !.providerRunActive = TRUE, !.idleTimer = FALSE, !.told.run = TRUE]

AgentSettled(y, unresolved) ==
    IF y.providerRunActive \/ y.promptInFlight THEN CompleteRun(ObserveLive(y, unresolved)) ELSE y

CommandInvocation(y) ==
    IF ~y.promptInFlight THEN y
    ELSE LET z == [y EXCEPT !.localCommandActive = TRUE, !.localCommandSeq = y.promptSeq]
         IN  IF z.promptResponse THEN CompleteLocal(z) ELSE z

-----------------------------------------------------------------------------
(* Questions.  A pending question has the request it answers, the dialog id *)
(* the engine gave it, and the state of the answer; ask.plain is an         *)
(* approval, which only lives as long as its dialog.                        *)

Pending(req, id, plain) ==
    [req |-> req, id |-> id, plain |-> plain, delivering |-> FALSE,
     delivery |-> "none", submitted |-> FALSE]

(* setQuestionDeliveryLocked(failed), when an answer was under way *)
FailDelivery(p) == IF p.delivering THEN [p EXCEPT !.delivering = FALSE, !.delivery = "failed"] ELSE p

(* upsertApprovalLocked *)
Upsert(q, req, id, plain) ==
    LET at == {i \in DOMAIN q : q[i].id = id \/ q[i].req = req}
    IN  IF at = {} THEN Append(q, Pending(req, id, plain))
        ELSE LET i == CHOOSE k \in at : \A l \in at : k <= l
             IN  [q EXCEPT ![i] = [FailDelivery(q[i]) EXCEPT !.id = id, !.req = req]]

(* removeApprovalLocked, resolveApprovalLocked *)
Resolve(q, id) == SelectSeq(q, LAMBDA p : p.id # id)

(* failQuestionsOnLossLocked *)
FailQuestions(q) ==
    LET kept == SelectSeq(q, LAMBDA p : ~p.plain)
    IN  [i \in DOMAIN kept |-> FailDelivery(kept[i])]

(* Wrong: a question the engine no longer asks is carried on. *)
InheritQuestionsAll(prior, asks) ==
    LET carried == SelectSeq(prior, LAMBDA p : ~p.plain)
        new == SetToSeq({a \in asks : \A i \in DOMAIN carried : carried[i].req # a[1]})
    IN  carried \o [i \in DOMAIN new |-> Pending(new[i][1], new[i][2], FALSE)]

(* inheritQuestions and reconcilePriorQuestions: asks is what the engine has
   open, as <<request, dialog id>>. *)
InheritQuestions(prior, asks) ==
    LET open == {a[1] : a \in asks}
        carried == SelectSeq(prior, LAMBDA p : ~p.plain /\ p.req \in open)
        IdOf(req) == (CHOOSE a \in asks : a[1] = req)[2]
        old == [i \in DOMAIN carried |-> [FailDelivery(carried[i]) EXCEPT !.id = IdOf(carried[i].req)]]
        new == SetToSeq({a \in asks : \A i \in DOMAIN carried : carried[i].req # a[1]})
    IN  old \o [i \in DOMAIN new |-> Pending(new[i][1], new[i][2], FALSE)]

-----------------------------------------------------------------------------
(* Losing the route *)

LatchesDown(y) ==
    [y EXCEPT !.invalidated = TRUE, !.resumable = TRUE,
              !.promptInFlight = FALSE, !.providerRunActive = FALSE,
              !.compactionActive = FALSE, !.localCommandActive = FALSE,
              !.pending = FailQuestions(@), !.idleTimer = FALSE]

(* markProviderUnloadedLocked, as classifyRouteError and dispatch call it *)
MarkUnloaded(y) == LatchesDown(y)

(* invalidate *)
Invalidate(y) ==
    IF y.closed \/ y.invalidated THEN y
    ELSE [LatchesDown(y) EXCEPT
             !.workAtLoss = @ \/ Active(y), !.runAtLoss = @ \/ RunLatched(y),
             !.compactionAtLoss = @ \/ y.compactionActive]

(* retireReplaced *)
RetireReplaced(y) == [y EXCEPT !.closed = TRUE, !.idleTimer = FALSE, !.subs = FALSE]

(* beginCloseLocked *)
BeginClose(y) == [y EXCEPT !.closing = TRUE, !.idleTimer = FALSE]

(* completeClose of an accepted close, and of a refused one; dead: the
   connection is gone *)
CloseAccepted(y) ==
    IF y.closed THEN y
    ELSE [y EXCEPT !.closed = TRUE, !.closing = FALSE, !.closeRunSettled = FALSE,
                   !.idleTimer = FALSE, !.subs = FALSE]

(* Wrong: a run that settled meanwhile is forgotten. *)
CloseRefusedForgets(y, dead) ==
    IF y.closed THEN y ELSE [y EXCEPT !.closing = FALSE, !.closeRunSettled = FALSE]

(* Wrong: a close lost with its connection is never given up. *)
CloseRefusedHangs(y, dead) == IF dead THEN y ELSE CloseRefusedForgets(y, dead)

CloseRefused(y, dead) ==
    IF y.closed THEN y
    ELSE LET z == [y EXCEPT !.closing = FALSE]
         IN  IF dead \/ ~z.closeRunSettled THEN z
             ELSE CompleteRun([z EXCEPT !.closeRunSettled = FALSE])
=============================================================================
