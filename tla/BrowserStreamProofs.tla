------------------------- MODULE BrowserStreamProofs -------------------------
(***************************************************************************)
(* What becomes of the transfers an overflowed subscriber leaves in the    *)
(* session's broadcaster, for every queue size, capacity, number of        *)
(* transfers and recoveries, and every scenario: TransfersReclaimed, a     *)
(* closed connection whose goroutines have ended leaves none behind.       *)
(***************************************************************************)
EXTENDS BrowserStream, TLAPS

-----------------------------------------------------------------------------
(***************************************************************************)
(* The inductive invariant.                                                *)
(***************************************************************************)

\* The fields the argument reads.
Fields ==
    /\ {"bg", "t"} \subseteq DOMAIN x
    /\ {"key", "transfer", "abandoned"} \subseteq DOMAIN s
    /\ {"cur", "closed"} \subseteq DOMAIN c
    /\ {"pc", "old"} \subseteq DOMAIN task
    /\ {"pc", "has"} \subseteq DOMAIN closer
    /\ DOMAIN held = Keys

\* A retained transfer is under the subscriber's key, and the subscriber has it or
\* is about to get it from the overflow goroutine.
Retained ==
    \A key \in Keys : held[key] # 0 =>
        key = s.key /\ held[key] = IF x.bg = "retain" THEN x.t ELSE s.transfer

\* A create or close frame took the binding away and will hand the stream over or
\* give it up.
HandingOver(k) == k.pc \in {"unbind", "handoff"}
Resuming == HandingOver(task) /\ task.old

\* Shutdown unbound the subscriber and will release its transfer.
Releasing == closer.has /\ closer.pc \in {"detach", "join", "release"}

\* A transfer the subscriber has will be released by whoever has the subscriber.
Attended == x.bg # "retain" /\ (\E key \in Keys : held[key] # 0) => c.cur \/ Resuming \/ Releasing

\* A subscriber nobody has accepts no transfer.
Forsaken == ~c.cur /\ ~c.closed /\ ~Resuming => s.abandoned

\* Shutdown runs on a closed connection, and takes its subscriber first.
Closing ==
    /\ closer.pc # "none" => c.closed
    /\ closer.pc \notin {"none", "start"} => ~c.cur

\* The binding stays away until the hand-over.
Unbinding == HandingOver(task) => ~c.cur

ReclaimInv == Fields /\ Retained /\ Attended /\ Forsaken /\ Closing /\ Unbinding

-----------------------------------------------------------------------------
(***************************************************************************)
(* What most steps leave alone.                                            *)
(***************************************************************************)

\* The overflow goroutine hands over what it did, if anything.
SameHandover(y, z) ==
    /\ {"bg", "t"} \subseteq DOMAIN z
    /\ z.bg = "retain" <=> y.bg = "retain"
    /\ y.bg = "retain" => z.t = y.t

\* The subscriber keeps its key and transfer; if it had given up, so has z, or the
\* connection has it.
SameStream(y, z) ==
    /\ {"key", "transfer", "abandoned"} \subseteq DOMAIN z
    /\ z.key = y.key /\ z.transfer = y.transfer
    /\ y.abandoned => z.abandoned \/ c.cur

\* The connection has the same subscriber, and does not open again.
SameHolder(y, z) ==
    /\ {"cur", "closed"} \subseteq DOMAIN z
    /\ z.cur <=> y.cur
    /\ y.closed => z.closed

\* Shutdown stands where it was, or it starts, or it has told the subscriber.
SameShutdown(z) ==
    \/ z = closer
    \/ ~c.closed /\ c'.closed /\ z = [closer EXCEPT !.pc = "start"]
    \/ closer.pc = "detach" /\ z = [closer EXCEPT !.pc = "join"]

\* Transfers are released or consumed, none is retained.
OnlyReleases == DOMAIN held' = Keys /\ \A key \in Keys : held'[key] \in {0, held[key]}

\* The run loop is at a hand-over as it was, or at none.
SameTask(z) ==
    /\ {"pc", "old"} \subseteq DOMAIN z
    /\ HandingOver(z) <=> HandingOver(task)
    /\ HandingOver(z) => (z.old <=> task.old)

LEMMA Frame ==
    ASSUME ReclaimInv, SameHandover(x, x'), SameStream(s, s'), SameHolder(c, c'),
           SameShutdown(closer'), OnlyReleases, SameTask(task')
    PROVE  ReclaimInv'
<1>0. Resuming' <=> Resuming
  BY DEF SameTask, Resuming
<1>1. Fields'
  BY DEF ReclaimInv, Fields, SameHandover, SameStream, SameHolder, SameShutdown, OnlyReleases, SameTask
<1>2. Retained'
  BY DEF ReclaimInv, Retained, SameHandover, SameStream, OnlyReleases
<1>3. Closing'
  BY DEF ReclaimInv, Fields, Closing, SameHolder, SameShutdown
<1>4. Releasing => Releasing'
  <2>1. CASE closer' = closer
    BY <2>1 DEF Releasing
  <2>2. CASE ~c.closed
    BY <2>2 DEF ReclaimInv, Closing, Releasing
  <2>3. CASE closer.pc = "detach" /\ closer' = [closer EXCEPT !.pc = "join"]
    BY <2>3 DEF ReclaimInv, Fields, Releasing
  <2>. QED BY <2>1, <2>2, <2>3 DEF SameShutdown
<1>5. Attended'
  BY <1>0, <1>4 DEF ReclaimInv, Attended, SameHandover, SameHolder, OnlyReleases
<1>6. Forsaken' /\ Unbinding'
  BY <1>0 DEF ReclaimInv, Forsaken, Unbinding, SameStream, SameHolder, SameTask
<1>. QED BY <1>1, <1>2, <1>3, <1>5, <1>6 DEF ReclaimInv

\* What changes other fields changes none of these.
LEMMA Unchanged ==
    ASSUME ReclaimInv
    PROVE  /\ x' = x => SameHandover(x, x')
           /\ s' = s => SameStream(s, s')
           /\ c' = c => SameHolder(c, c')
           /\ closer' = closer => SameShutdown(closer')
           /\ held' = held => OnlyReleases
           /\ task' = task => SameTask(task')
BY DEF ReclaimInv, Fields, SameHandover, SameStream, SameHolder, SameShutdown, OnlyReleases, SameTask

\* The subscription's steps leave the overflow goroutine where it is.
LEMMA SubscriptionSteps ==
    ASSUME ReclaimInv
    PROVE  /\ SameHandover(x, Retired(x)) /\ SameHandover(x, Retired([x EXCEPT !.arming = FALSE]))
           /\ SameHandover(x, Broken)
           /\ SameHandover(x, [Broken EXCEPT !.live = FALSE, !.stop = IF @ = "none" THEN "detached" ELSE @])
           /\ SameHandover(x, EndReplay([x EXCEPT !.exited = TRUE]))
           /\ \A cov : SameHandover(x, Drained(cov))
           /\ \A f : SameHandover(x, Enqueued(f))
BY DEF ReclaimInv, Fields, SameHandover, Retired, EndReplay, Broken, Drained, Enqueued

\* Telling the subscriber leaves it its stream, and the connection its subscriber.
LEMMA TellingSteps ==
    ASSUME ReclaimInv
    PROVE  /\ \A reason : SameStream(s, SignalDetach(s, reason))
           /\ SameHolder(c, ReplayEnds(c, s))
           /\ SameHolder(c, [ReplayEnds(c, s) EXCEPT !.closed = TRUE])
BY DEF ReclaimInv, Fields, SameStream, SignalDetach, SameHolder, ReplayEnds

-----------------------------------------------------------------------------
(***************************************************************************)
(* The session and the pump.                                               *)
(***************************************************************************)

LEMMA PublicationSafe == ASSUME ReclaimInv, Publication PROVE ReclaimInv'
<1>1. PICK k, m : PublishFrame(k, m)
  BY DEF Publication, Publish, EntryAppended
<1>2. held' = held /\ \E f : x' \in {x, Enqueued(f)}
  BY <1>1 DEF PublishFrame
<1>3. SameHandover(x, x')
  BY <1>2, SubscriptionSteps, Unchanged
<1>4. s' = s /\ c' = c /\ task' = task /\ closer' = closer
  BY DEF Publication, conn
<1>. QED BY <1>2, <1>3, <1>4, Unchanged, Frame

LEMMA PersistsSafe == ASSUME ReclaimInv, Persists PROVE ReclaimInv'
<1>1. x' = x /\ held' = held /\ s' = s /\ c' = c /\ task' = task /\ closer' = closer
  BY DEF Persists, Persist, conn
<1>. QED BY <1>1, Unchanged, Frame

LEMMA DeliveryStream ==
    ASSUME ReclaimInv, NEW item, DeliverItem(item)
    PROVE  SameStream(s, s') /\ c' = c /\ task' = task /\ closer' = closer
<1>1. c' = c /\ task' = task /\ closer' = closer
  BY DEF DeliverItem
<1>2. CASE ~s.active
  BY <1>2 DEF DeliverItem, ReclaimInv, Fields, SameStream
<1>3. CASE s.active
  BY <1>3 DEF DeliverItem, Deliver, ReclaimInv, Fields, SameStream
<1>. QED BY <1>1, <1>2, <1>3

LEMMA PumpDeliverSafe == ASSUME ReclaimInv, PumpDeliver PROVE ReclaimInv'
<1>1. held' = held
  BY DEF PumpDeliver
<1>2. CASE DeliverItem(x.hand) /\ x' = [x EXCEPT !.hand = NoItem, !.draining = Terminal(x.hand),
                                       !.replayed = IF x.replaying THEN @ \cup x.hand.ids ELSE @]
  <2>1. SameHandover(x, x')
    BY <1>2 DEF ReclaimInv, Fields, SameHandover
  <2>. QED BY <1>1, <1>2, <2>1, DeliveryStream, Unchanged, Frame
<1>3. CASE x' = Broken /\ UNCHANGED <<conn, seen>>
  <2>1. s' = s /\ c' = c /\ task' = task /\ closer' = closer
    BY <1>3 DEF conn
  <2>. QED BY <1>1, <1>3, <2>1, SubscriptionSteps, Unchanged, Frame
<1>. QED BY <1>2, <1>3 DEF PumpDeliver

LEMMA PumpDrainSafe == ASSUME ReclaimInv, PumpDrain PROVE ReclaimInv'
<1>1. held' = held
  BY DEF PumpDrain
<1>2. SameHandover(x, x')
  BY SubscriptionSteps DEF PumpDrain
<1>3. CASE \E item : DeliverItem(item)
  BY <1>1, <1>2, <1>3, DeliveryStream, Unchanged, Frame
<1>4. CASE UNCHANGED conn
  <2>1. s' = s /\ c' = c /\ task' = task /\ closer' = closer
    BY <1>4 DEF conn
  <2>. QED BY <1>1, <1>2, <2>1, Unchanged, Frame
<1>. QED BY <1>3, <1>4 DEF PumpDrain

LEMMA PumpFailsSafe == ASSUME ReclaimInv, PumpFails PROVE ReclaimInv'
<1>1. held' = held /\ task' = task /\ closer' = closer
  BY DEF PumpFails
<1>2. SameHandover(x, x')
  BY SubscriptionSteps DEF PumpFails
<1>3. SameStream(s, s') /\ SameHolder(c, c')
  BY TellingSteps DEF PumpFails
<1>. QED BY <1>1, <1>2, <1>3, Unchanged, Frame

LEMMA PumpOtherSafe == ASSUME ReclaimInv, PumpOther PROVE ReclaimInv'
<1>1. held' = held /\ task' = task /\ closer' = closer
  BY DEF PumpOther
<1>2. SameHandover(x, x')
  <2>1. CASE PumpTake
    BY <2>1 DEF PumpTake, ReclaimInv, Fields, SameHandover
  <2>2. CASE DrainMore
    BY <2>2 DEF DrainMore, ReclaimInv, Fields, SameHandover
  <2>3. CASE DrainDone
    BY <2>3 DEF DrainDone, ReclaimInv, Fields, SameHandover
  <2>4. CASE PumpExit
    BY <2>4, SubscriptionSteps DEF PumpExit
  <2>. QED BY <2>1, <2>2, <2>3, <2>4 DEF PumpOther
<1>3. SameStream(s, s')
  BY DEF PumpOther, ReclaimInv, Fields, SameStream
<1>4. SameHolder(c, c')
  BY TellingSteps, Unchanged DEF PumpOther
<1>. QED BY <1>1, <1>2, <1>3, <1>4, Unchanged, Frame

-----------------------------------------------------------------------------
(***************************************************************************)
(* The overflow goroutine.                                                 *)
(***************************************************************************)

LEMMA OverflowStopsSafe == ASSUME ReclaimInv, OverflowStops PROVE ReclaimInv'
<1>1. PICK t : /\ held' = [held EXCEPT ![s.key] = t]
               /\ x' = [x EXCEPT !.live = FALSE, !.stop = "overflow", !.bg = "retain", !.t = t,
                                 !.prefix = IF x.replaying THEN x.pendingLive \o <<ovf>> ELSE <<>>,
                                 !.tail = x.replaying, !.replaying = FALSE, !.pendingLive = <<>>]
  BY Zenon DEF OverflowStops, TakeOverflow
<1>2. {"bg", "t"} \subseteq DOMAIN x' /\ x'.bg = "retain" /\ x'.t = t
  BY <1>1 DEF ReclaimInv, Fields
<1>3. /\ {"key", "transfer", "abandoned"} \subseteq DOMAIN s'
      /\ s'.key = s.key /\ s'.abandoned = s.abandoned
  BY DEF OverflowStops, ReclaimInv, Fields
<1>4. SameHolder(c, c') /\ c'.closed = c.closed
  BY TellingSteps DEF OverflowStops, ReplayEnds, ReclaimInv, Fields
<1>5. task' = task /\ closer' = closer
  BY DEF OverflowStops
<1>6. Retained' /\ DOMAIN held' = Keys
  BY <1>1, <1>2, <1>3 DEF ReclaimInv, Fields, Retained
<1>7. Attended'
  BY <1>2 DEF Attended
<1>8. Forsaken' /\ Closing' /\ Unbinding'
  BY <1>3, <1>4, <1>5 DEF ReclaimInv, Forsaken, Closing, Unbinding, SameHolder, Resuming
<1>. QED BY <1>2, <1>3, <1>4, <1>5, <1>6, <1>7, <1>8 DEF ReclaimInv, Fields, SameHolder

LEMMA RetainSafe == ASSUME ReclaimInv, Retain PROVE ReclaimInv'
<1>1. c' = c /\ task' = task /\ closer' = closer
  BY DEF Retain
<1>2. x.bg = "retain" /\ {"bg", "t"} \subseteq DOMAIN x' /\ x'.bg = "cancel"
  BY DEF Retain, ReclaimInv, Fields
<1>3. \A key \in Keys : held[key] # 0 => key = s.key /\ held[key] = x.t
  BY <1>2 DEF ReclaimInv, Retained
<1>4. CASE s.abandoned \/ c.closed
  <2>1. held' = Released(x.t) /\ s' = s
    BY <1>4 DEF Retain
  <2>2. DOMAIN held' = Keys /\ \A key \in Keys : held'[key] = 0
    BY <1>3, <2>1 DEF Released, ReclaimInv, Fields
  <2>3. Retained' /\ Attended'
    BY <2>2 DEF Retained, Attended
  <2>. QED BY <1>1, <1>2, <2>1, <2>2, <2>3 DEF ReclaimInv, Fields, Forsaken, Closing, Unbinding, Resuming
<1>5. CASE ~(s.abandoned \/ c.closed)
  <2>1. /\ s' = [s EXCEPT !.transfer = x.t]
        /\ held' = IF s.transfer = 0 THEN held ELSE Released(s.transfer)
    BY <1>5 DEF Retain
  <2>2. /\ {"key", "transfer", "abandoned"} \subseteq DOMAIN s'
        /\ s'.key = s.key /\ s'.transfer = x.t /\ s'.abandoned = s.abandoned
    BY <2>1 DEF ReclaimInv, Fields
  <2>3. OnlyReleases
    BY <2>1 DEF OnlyReleases, Released, ReclaimInv, Fields
  <2>4. Retained'
    BY <1>2, <1>3, <2>2, <2>3 DEF Retained, OnlyReleases
  <2>5. c.cur \/ Resuming
    BY <1>5 DEF ReclaimInv, Forsaken
  <2>6. Attended'
    BY <1>1, <2>5 DEF Attended, Resuming
  <2>. QED BY <1>1, <1>2, <2>2, <2>3, <2>4, <2>6
           DEF ReclaimInv, Fields, OnlyReleases, Forsaken, Closing, Unbinding, Resuming
<1>. QED BY <1>4, <1>5

LEMMA CancelDeliverySafe == ASSUME ReclaimInv, CancelDelivery PROVE ReclaimInv'
<1>1. held' = held /\ task' = task /\ closer' = closer
  BY DEF CancelDelivery
<1>2. SameHandover(x, x')
  BY DEF CancelDelivery, ReclaimInv, Fields, SameHandover
<1>3. SameStream(s, s')
  BY DEF CancelDelivery, SignalDetach, ReclaimInv, Fields, SameStream
<1>4. SameHolder(c, c')
  BY TellingSteps, Unchanged DEF CancelDelivery
<1>. QED BY <1>1, <1>2, <1>3, <1>4, Unchanged, Frame

LEMMA FinalizeSafe == ASSUME ReclaimInv, Finalize PROVE ReclaimInv'
<1>1. held' = held /\ s' = s /\ c' = c /\ task' = task /\ closer' = closer
  BY DEF Finalize, conn
<1>2. SameHandover(x, x')
  BY DEF Finalize, ReclaimInv, Fields, SameHandover
<1>. QED BY <1>1, <1>2, Unchanged, Frame

LEMMA AskRecoverySafe == ASSUME ReclaimInv, AskRecovery PROVE ReclaimInv'
<1>1. held' = held /\ c' = c /\ task' = task /\ closer' = closer
  BY DEF AskRecovery
<1>2. SameHandover(x, x')
  BY DEF AskRecovery, ReclaimInv, Fields, SameHandover
<1>3. SameStream(s, s')
  BY DEF AskRecovery, Signalled, ReclaimInv, Fields, SameStream
<1>. QED BY <1>1, <1>2, <1>3, Unchanged, Frame

-----------------------------------------------------------------------------
(***************************************************************************)
(* The run loop.                                                           *)
(***************************************************************************)

\* A step of the run loop from one place to another that is neither of those
\* where it has a subscriber to hand over.
LEMMA GotoSame ==
    ASSUME ReclaimInv, NEW pc, Goto(pc),
           task.pc \notin {"unbind", "handoff"}, pc \notin {"unbind", "handoff"}
    PROVE  SameTask(task')
BY DEF ReclaimInv, Fields, Goto, SameTask, HandingOver

LEMMA StartFrameSafe == ASSUME ReclaimInv, NEW op, StartFrame(op) PROVE ReclaimInv'
<1>1. x' = x /\ held' = held /\ s' = s /\ closer' = closer
  BY DEF StartFrame, bvars
<1>2. {"cur", "closed"} \subseteq DOMAIN c' /\ ~c'.cur /\ c'.closed = c.closed /\ ~c.closed
  BY DEF StartFrame, Unbound, ReclaimInv, Fields
<1>3. {"pc", "old"} \subseteq DOMAIN task' /\ task'.pc \in {"unbind", "handoff"} /\ task'.old = c.cur
  BY DEF StartFrame, Idle
<1>4. ~Resuming /\ (Resuming' <=> c.cur)
  BY <1>3 DEF StartFrame, Resuming, HandingOver
<1>5. Attended' /\ Forsaken' /\ Closing' /\ Unbinding'
  BY <1>1, <1>2, <1>4 DEF ReclaimInv, Attended, Forsaken, Closing, Unbinding, Releasing
<1>. QED BY <1>1, <1>2, <1>3, <1>5 DEF ReclaimInv, Fields, Retained

LEMMA DetachesKeeps ==
    ASSUME ReclaimInv, Detaches
    PROVE  SameHandover(x, x') /\ SameStream(s, s') /\ SameHolder(c, c') /\ OnlyReleases
<1>1. held' = held /\ x' = Retired(x)
  BY DEF Detaches
<1>2. SameStream(s, s') /\ SameHolder(c, c')
  BY TellingSteps, Unchanged DEF Detaches
<1>. QED BY <1>1, <1>2, SubscriptionSteps, Unchanged

LEMMA TaskDetachesSafe == ASSUME ReclaimInv, TaskDetaches PROVE ReclaimInv'
<1>1. closer' = closer /\ SameTask(task')
  BY DEF TaskDetaches, Goto, ReclaimInv, Fields, SameTask, HandingOver
<1>. QED BY <1>1, DetachesKeeps, Unchanged, Frame DEF TaskDetaches

\* With the subscription's goroutines gone, a transfer under a key is the
\* subscriber's.
LEMMA CleanedRetained ==
    ASSUME ReclaimInv, Cleaned
    PROVE  x.bg # "retain" /\ \A key \in Keys : held[key] # 0 => key = s.key /\ held[key] = s.transfer
BY DEF ReclaimInv, Retained, Cleaned

\* Releasing the subscriber's transfer leaves none.
LEMMA ReleasedEmpty ==
    ASSUME ReclaimInv, x.bg # "retain", held' = Released(s.transfer)
    PROVE  DOMAIN held' = Keys /\ \A key \in Keys : held'[key] = 0
BY DEF ReclaimInv, Fields, Retained, Released

LEMMA HandoffSafe == ASSUME ReclaimInv, Handoff PROVE ReclaimInv'
<1>1. x' = x /\ closer' = closer /\ task.pc = "handoff" /\ x.bg # "retain"
  BY CleanedRetained DEF Handoff
<1>2. CASE task.op = "close" \/ c.closed \/ c.exhausted
  <2>1. s' = [s EXCEPT !.transfer = 0, !.abandoned = TRUE] /\ held' = Released(s.transfer) /\ c' = c /\ task' = Idle
    BY <1>2 DEF Handoff
  <2>2. {"key", "transfer", "abandoned"} \subseteq DOMAIN s' /\ s'.abandoned
    BY <2>1 DEF ReclaimInv, Fields
  <2>3. DOMAIN held' = Keys /\ \A key \in Keys : held'[key] = 0
    BY <1>1, <2>1, ReleasedEmpty
  <2>4. Retained' /\ Attended' /\ Forsaken' /\ Closing' /\ Unbinding'
    BY <1>1, <2>1, <2>2, <2>3 DEF ReclaimInv, Retained, Attended, Forsaken, Closing, Unbinding, HandingOver, Idle
  <2>. QED BY <1>1, <2>1, <2>2, <2>3, <2>4 DEF ReclaimInv, Fields, Idle
<1>3. CASE ~(task.op = "close" \/ c.closed \/ c.exhausted)
  <2>1. /\ s' = NewSubscriber(IF task.old THEN s.key ELSE c.keys, IF task.old THEN s.transfer ELSE 0, FALSE)
        /\ held' = held /\ task' = [task EXCEPT !.pc = "attach", !.attempt = 1]
        /\ c' = [c EXCEPT !.cur = TRUE, !.count = 0, !.keys = IF task.old THEN @ ELSE @ + 1]
    BY <1>3 DEF Handoff
  <2>2. {"key", "transfer", "abandoned"} \subseteq DOMAIN s' /\ {"pc", "old"} \subseteq DOMAIN task'
    BY <2>1 DEF NewSubscriber, ReclaimInv, Fields
  <2>3. {"cur", "closed"} \subseteq DOMAIN c' /\ c'.cur /\ c'.closed = c.closed /\ ~c.closed
    BY <1>3, <2>1 DEF ReclaimInv, Fields
  <2>4. closer.pc = "none"
    BY <2>3 DEF ReclaimInv, Closing
  <2>5. Attended' /\ Forsaken' /\ Closing' /\ Unbinding'
    BY <1>1, <2>1, <2>2, <2>3, <2>4 DEF Attended, Forsaken, Closing, Unbinding, HandingOver, ReclaimInv, Fields
  <2>6. Retained'
    <3>1. CASE task.old
      BY <1>1, <2>1, <3>1 DEF NewSubscriber, ReclaimInv, Retained
    <3>2. CASE ~task.old
      <4>1. CASE \A key \in Keys : held[key] = 0
        BY <2>1, <4>1 DEF Retained
      <4>2. CASE \E key \in Keys : held[key] # 0
        BY <4>2, <1>1, <3>2, <2>4 DEF ReclaimInv, Attended, Unbinding, HandingOver, Resuming, Releasing
      <4>. QED BY <4>1, <4>2
    <3>. QED BY <3>1, <3>2
  <2>. QED BY <1>1, <2>1, <2>2, <2>3, <2>5, <2>6 DEF ReclaimInv, Fields
<1>. QED BY <1>2, <1>3

LEMMA AttachSafe == ASSUME ReclaimInv, Attach PROVE ReclaimInv'
<1>1. c' = c /\ closer' = closer /\ task.pc = "attach" /\ x.bg \in {"none", "done"}
  BY DEF Attach, Cleaned
<1>2. SameTask(task')
  BY <1>1 DEF Attach, Goto, ReclaimInv, Fields, SameTask, HandingOver
<1>3. CASE UNCHANGED <<x, T, held, s>>
  <2>1. x' = x /\ held' = held /\ s' = s
    BY <1>3
  <2>. QED BY <1>1, <1>2, <2>1, Unchanged, Frame
<1>4. CASE /\ \E cap : x' = [NoSubscription EXCEPT !.live = TRUE, !.exited = FALSE, !.arming = TRUE, !.cap = cap]
           /\ held' = [held EXCEPT ![s.key] = 0]
           /\ \E pending : s' = [s EXCEPT !.pending = pending]
  <2>1. SameHandover(x, x')
    BY <1>1, <1>4 DEF SameHandover, NoSubscription
  <2>2. SameStream(s, s')
    BY <1>4 DEF SameStream, ReclaimInv, Fields
  <2>3. OnlyReleases
    BY <1>4 DEF OnlyReleases, ReclaimInv, Fields
  <2>. QED BY <1>1, <1>2, <2>1, <2>2, <2>3, Unchanged, Frame
<1>. QED BY <1>3, <1>4, Zenon DEF Attach

LEMMA GateSafe == ASSUME ReclaimInv, Gate PROVE ReclaimInv'
<1>1. held' = held /\ c' = c /\ closer' = closer /\ SameTask(task')
  BY GotoSame DEF Gate
<1>2. SameHandover(x, x') /\ SameStream(s, s')
  BY DEF Gate, ReclaimInv, Fields, SameHandover, SameStream
<1>. QED BY <1>1, <1>2, Unchanged, Frame

LEMMA ReadHistorySafe == ASSUME ReclaimInv, ReadHistory PROVE ReclaimInv'
<1>1. x' = x /\ held' = held /\ s' = s /\ c' = c /\ closer' = closer
  BY DEF ReadHistory, bvars
<1>2. SameTask(task')
  BY DEF ReadHistory, ReclaimInv, Fields, SameTask, HandingOver
<1>. QED BY <1>1, <1>2, Unchanged, Frame

LEMMA CommitSafe == ASSUME ReclaimInv, Commit PROVE ReclaimInv'
<1>1. x' = x /\ held' = held /\ closer' = closer
  BY DEF Commit, bvars
<1>2. SameTask(task')
  BY DEF Commit, Goto, ReclaimInv, Fields, SameTask, HandingOver
<1>3. SameStream(s, s') /\ SameHolder(c, c')
  BY DEF Commit, ReclaimInv, Fields, SameStream, SameHolder
<1>. QED BY <1>1, <1>2, <1>3, Unchanged, Frame

LEMMA ActivateSafe == ASSUME ReclaimInv, Activate PROVE ReclaimInv'
<1>1. x' = x /\ held' = held /\ closer' = closer
  BY DEF Activate, bvars
<1>2. SameTask(task')
  BY DEF Activate, Goto, ReclaimInv, Fields, SameTask, HandingOver
<1>3. SameStream(s, s') /\ SameHolder(c, c')
  BY DEF Activate, ReclaimInv, Fields, SameStream, SameHolder
<1>. QED BY <1>1, <1>2, <1>3, Unchanged, Frame

LEMMA EnqueueReplaySafe ==
    ASSUME ReclaimInv, NEW pc, NEW item, NEW next, EnqueueReplay(pc, item, next),
           pc \in {"page", "term"}, next \in {"term", "wait"}
    PROVE  ReclaimInv'
<1>1. held' = held /\ s' = s /\ c' = c /\ closer' = closer
  BY DEF EnqueueReplay
<1>2. SameTask(task')
  BY DEF EnqueueReplay, ReclaimInv, Fields, SameTask, HandingOver
<1>3. SameHandover(x, x')
  BY DEF EnqueueReplay, ReclaimInv, Fields, SameHandover
<1>. QED BY <1>1, <1>2, <1>3, Unchanged, Frame

LEMMA SettleSame ==
    ASSUME ReclaimInv, task.pc \in {"page", "term", "wait"}, Settle("idle")
    PROVE  SameTask(task')
<1>1. task' = [task EXCEPT !.pc = "fail", !.err = "history"] \/ Goto("idle")
  BY Zenon DEF Settle
<1>2. CASE task' = [task EXCEPT !.pc = "fail", !.err = "history"]
  BY <1>2 DEF ReclaimInv, Fields, SameTask, HandingOver
<1>3. CASE Goto("idle")
  BY <1>3, GotoSame
<1>. QED BY <1>1, <1>2, <1>3

LEMMA WaitTerminalSafe == ASSUME ReclaimInv, WaitTerminal PROVE ReclaimInv'
<1>1. x' = x /\ held' = held /\ s' = s /\ c' = c /\ closer' = closer
  BY DEF WaitTerminal, bvars
<1>2. SameTask(task')
  BY SettleSame DEF WaitTerminal, ReclaimInv, Fields, SameTask, HandingOver
<1>. QED BY <1>1, <1>2, Unchanged, Frame

LEMMA ExpireSafe == ASSUME ReclaimInv, Expire PROVE ReclaimInv'
<1>1. x' = x /\ held' = held /\ s' = s /\ c' = c /\ closer' = closer
  BY DEF Expire, bvars
<1>2. SameTask(task')
  BY DEF Expire, ReclaimInv, Fields, SameTask, HandingOver
<1>. QED BY <1>1, <1>2, Unchanged, Frame

LEMMA ExpiredTerminalSafe == ASSUME ReclaimInv, ExpiredTerminal PROVE ReclaimInv'
<1>1. held' = held /\ task.pc \in {"page", "term", "wait"}
  BY DEF ExpiredTerminal
<1>2. CASE x' = [x EXCEPT !.q = Append(@, HistoryError)] /\ Settle("idle") /\ UNCHANGED <<s, c, closer>>
  <2>1. SameHandover(x, x')
    BY <1>2 DEF ReclaimInv, Fields, SameHandover
  <2>2. s' = s /\ c' = c /\ closer' = closer
    BY <1>2
  <2>. QED BY <1>1, <1>2, <2>1, <2>2, SettleSame, Unchanged, Frame
<1>3. CASE /\ x' = Retired(x) /\ s' = SignalDetach(s, "detached")
           /\ c' = [ReplayEnds(c, s) EXCEPT !.closed = TRUE]
           /\ closer' = IF c.closed THEN closer ELSE [closer EXCEPT !.pc = "start"]
           /\ task' = [task EXCEPT !.pc = "fail", !.err = "detached"]
  <2>1. SameHandover(x, x') /\ SameStream(s, s') /\ SameHolder(c, c')
    BY <1>3, SubscriptionSteps, TellingSteps
  <2>2. c'.closed
    BY <1>3 DEF ReplayEnds, ReclaimInv, Fields
  <2>3. SameShutdown(closer')
    BY <1>3, <2>2 DEF SameShutdown
  <2>4. SameTask(task')
    BY <1>1, <1>3 DEF ReclaimInv, Fields, SameTask, HandingOver
  <2>. QED BY <1>1, <2>1, <2>3, <2>4, Unchanged, Frame
<1>. QED BY <1>2, <1>3 DEF ExpiredTerminal

-----------------------------------------------------------------------------
(***************************************************************************)
(* Failed attaches and recoveries.                                         *)
(***************************************************************************)

LEMMA FailDetachesSafe == ASSUME ReclaimInv, FailDetaches PROVE ReclaimInv'
<1>1. held' = held /\ s' = s /\ c' = c /\ closer' = closer
  BY DEF FailDetaches
<1>2. SameTask(task')
  BY DEF FailDetaches, Goto, ReclaimInv, Fields, SameTask, HandingOver
<1>3. SameHandover(x, x')
  BY SubscriptionSteps DEF FailDetaches
<1>. QED BY <1>1, <1>2, <1>3, Unchanged, Frame

LEMMA DiscardSafe == ASSUME ReclaimInv, DiscardHydrationAttempt PROVE ReclaimInv'
<1>1. x' = x /\ held' = held /\ closer' = closer /\ SameHolder(c, c')
  BY TellingSteps DEF DiscardHydrationAttempt, bvars
<1>2. SameTask(task')
  BY DEF DiscardHydrationAttempt, ReclaimInv, Fields, SameTask, HandingOver
<1>3. SameStream(s, s')
  BY DEF DiscardHydrationAttempt, NewSubscriber, SameStream
<1>. QED BY <1>1, <1>2, <1>3, Unchanged, Frame

LEMMA GiveUpSafe == ASSUME ReclaimInv, GiveUp PROVE ReclaimInv'
<1>1. x' = x /\ held' = Released(s.transfer) /\ task' = Idle /\ Cleaned /\ task.pc = "giveup"
  BY DEF GiveUp
<1>2. DOMAIN held' = Keys /\ \A key \in Keys : held'[key] = 0
  BY <1>1, CleanedRetained, ReleasedEmpty
<1>3. {"key", "transfer", "abandoned"} \subseteq DOMAIN s' /\ s'.abandoned
  BY DEF GiveUp, SignalDetach, ReclaimInv, Fields
<1>4. PICK d, shut : /\ {"cur", "closed"} \subseteq DOMAIN d /\ (d.cur => c.cur) /\ d.closed = c.closed
                     /\ shut => ~c.closed
                     /\ c' = [d EXCEPT !.closed = @ \/ shut]
                     /\ closer' = IF shut THEN [closer EXCEPT !.pc = "start"] ELSE closer
  <2> DEFINE d == [ReplayEnds(c, s) EXCEPT
                     !.cur = @ /\ s.automatic, !.bound = @ /\ s.automatic,
                     !.gen = IF s.automatic \/ ~c.cur THEN @ ELSE @ + 1,
                     !.exhausted = @ \/ Exhausts(c)]
             shut == ~c.closed /\ (Exhausts(c) \/ (task.err = "overflow" /\ ~s.automatic))
  <2>1. /\ c' = [d EXCEPT !.closed = @ \/ shut]
        /\ closer' = IF shut THEN [closer EXCEPT !.pc = "start"] ELSE closer
    BY Zenon DEF GiveUp
  <2>2. {"cur", "closed"} \subseteq DOMAIN d /\ (d.cur => c.cur) /\ d.closed = c.closed
    BY DEF ReplayEnds, ReclaimInv, Fields
  <2>. QED BY <2>1, <2>2
<1>5. /\ {"cur", "closed"} \subseteq DOMAIN c' /\ (c'.cur => c.cur)
      /\ c.closed => c'.closed
      /\ shut => c'.closed
  BY <1>4
<1>6. {"pc", "has"} \subseteq DOMAIN closer' /\ Closing'
  BY <1>4, <1>5 DEF ReclaimInv, Fields, Closing
<1>7. Retained' /\ Attended' /\ Forsaken' /\ Unbinding'
  BY <1>1, <1>2, <1>3 DEF Retained, Attended, Forsaken, Unbinding, HandingOver, Idle
<1>. QED BY <1>1, <1>2, <1>3, <1>5, <1>6, <1>7 DEF ReclaimInv, Fields, Idle

LEMMA RecoverSubscriberSafe == ASSUME ReclaimInv, RecoverSubscriber PROVE ReclaimInv'
<1>1. x' = x /\ held' = held /\ task.pc = "idle"
  BY DEF RecoverSubscriber, bvars
<1>2. CASE UNCHANGED <<s, c, task, closer>>
  <2>1. s' = s /\ c' = c /\ task' = task /\ closer' = closer
    BY <1>2
  <2>. QED BY <1>1, <2>1, Unchanged, Frame
<1>3. CASE /\ Recoverable
           /\ c' = [c EXCEPT !.exhausted = TRUE, !.closed = TRUE]
           /\ s' = [s EXCEPT !.rec = "taken"]
           /\ closer' = [closer EXCEPT !.pc = "start"]
           /\ task' = task
  <2>1. SameStream(s, s') /\ SameHolder(c, c') /\ c'.closed
    BY <1>3 DEF ReclaimInv, Fields, SameStream, SameHolder
  <2>2. SameShutdown(closer')
    BY <1>3, <2>1 DEF SameShutdown, Recoverable
  <2>. QED BY <1>1, <1>3, <2>1, <2>2, Unchanged, Frame
<1>4. CASE /\ Recoverable
           /\ c' = [c EXCEPT !.count = @ + 1, !.gen = @ + 1, !.bound = FALSE]
           /\ s' = Replacement
           /\ task' = [Idle EXCEPT !.pc = "attach", !.attempt = 1]
           /\ closer' = closer
  <2>1. SameStream(s, s')
    BY <1>4 DEF Recoverable, Replacement, NewSubscriber, SameStream
  <2>2. SameHolder(c, c')
    BY <1>4 DEF ReclaimInv, Fields, SameHolder
  <2>3. SameTask(task')
    BY <1>1, <1>4 DEF Idle, SameTask, HandingOver
  <2>. QED BY <1>1, <1>4, <2>1, <2>2, <2>3, Unchanged, Frame
<1>. QED BY <1>2, <1>3, <1>4, Zenon DEF RecoverSubscriber

-----------------------------------------------------------------------------
(***************************************************************************)
(* Shutdown.                                                               *)
(***************************************************************************)

LEMMA DisconnectSafe == ASSUME ReclaimInv, Disconnect PROVE ReclaimInv'
<1>1. x' = x /\ held' = held /\ s' = s /\ task' = task
  BY DEF Disconnect, bvars
<1>2. SameHolder(c, c') /\ c'.closed
  BY DEF Disconnect, ReclaimInv, Fields, SameHolder
<1>3. SameShutdown(closer')
  BY <1>2 DEF Disconnect, SameShutdown
<1>. QED BY <1>1, <1>2, <1>3, Unchanged, Frame

LEMMA CloserUnbindsSafe == ASSUME ReclaimInv, CloserUnbinds PROVE ReclaimInv'
<1>1. x' = x /\ held' = held /\ s' = s /\ task' = task
  BY DEF CloserUnbinds, bvars
<1>2. {"cur", "closed"} \subseteq DOMAIN c' /\ ~c'.cur /\ c'.closed
  BY DEF CloserUnbinds, Unbound, ReclaimInv, Fields, Closing
<1>3. {"pc", "has"} \subseteq DOMAIN closer' /\ closer'.pc \in {"detach", "release"} /\ closer'.has = c.cur
  BY DEF CloserUnbinds
<1>4. ~Releasing
  BY DEF CloserUnbinds, Releasing
<1>5. Attended' /\ Forsaken' /\ Closing' /\ Unbinding'
  BY <1>1, <1>2, <1>3, <1>4 DEF ReclaimInv, Attended, Forsaken, Closing, Unbinding, Releasing, Resuming
<1>. QED BY <1>1, <1>2, <1>3, <1>5 DEF ReclaimInv, Fields, Retained

LEMMA CloserDetachesSafe == ASSUME ReclaimInv, CloserDetaches PROVE ReclaimInv'
<1>1. task' = task /\ SameShutdown(closer')
  BY DEF CloserDetaches, SameShutdown
<1>. QED BY <1>1, DetachesKeeps, Unchanged, Frame DEF CloserDetaches

LEMMA CloserReleasesSafe == ASSUME ReclaimInv, CloserReleases PROVE ReclaimInv'
<1>1. x' = x /\ c' = c /\ task' = task /\ closer.pc \in {"release", "join"}
  BY DEF CloserReleases
<1>2. {"pc", "has"} \subseteq DOMAIN closer' /\ closer'.pc = "done" /\ Closing'
  BY <1>1 DEF CloserReleases, ReclaimInv, Fields, Closing
<1>3. c.closed
  BY <1>1 DEF ReclaimInv, Closing
<1>4. CASE closer.has
  <2>1. s' = [s EXCEPT !.transfer = 0, !.abandoned = TRUE] /\ held' = Released(s.transfer)
    BY <1>4 DEF CloserReleases
  <2>2. {"key", "transfer", "abandoned"} \subseteq DOMAIN s' /\ s'.key = s.key
    BY <2>1 DEF ReclaimInv, Fields
  <2>3. OnlyReleases
    BY <2>1 DEF OnlyReleases, Released, ReclaimInv, Fields
  <2>4. Retained' /\ Attended'
    <3>1. CASE x.bg = "retain"
      BY <1>1, <2>2, <2>3, <3>1 DEF ReclaimInv, Retained, Attended, OnlyReleases
    <3>2. CASE x.bg # "retain"
      BY <2>1, <3>2, ReleasedEmpty DEF Retained, Attended
    <3>. QED BY <3>1, <3>2
  <2>5. Forsaken' /\ Unbinding'
    BY <1>1, <1>3 DEF ReclaimInv, Forsaken, Unbinding
  <2>. QED BY <1>1, <1>2, <2>2, <2>3, <2>4, <2>5 DEF ReclaimInv, Fields, OnlyReleases
<1>5. CASE ~closer.has
  <2>1. s' = s /\ held' = held
    BY <1>5 DEF CloserReleases
  <2>2. Attended'
    BY <1>1, <1>5, <2>1 DEF ReclaimInv, Attended, Releasing, Resuming
  <2>3. Retained' /\ Forsaken' /\ Unbinding'
    BY <1>1, <2>1 DEF ReclaimInv, Retained, Forsaken, Unbinding, Resuming
  <2>. QED BY <1>1, <1>2, <2>1, <2>2, <2>3 DEF ReclaimInv, Fields
<1>. QED BY <1>4, <1>5

-----------------------------------------------------------------------------
(***************************************************************************)
(* The invariant holds, and what follows.                                  *)
(***************************************************************************)

LEMMA ReclaimInit == Init => ReclaimInv
<1>. SUFFICES ASSUME Init PROVE ReclaimInv
  OBVIOUS
<1>2. Fields
  BY DEF Init, BInit, Fields, NoSubscription, NewSubscriber, Idle
<1>3. Retained /\ Attended
  BY DEF Init, Retained, Attended
<1>4. ~c.cur /\ s.abandoned /\ closer.pc = "none"
  BY DEF Init, NewSubscriber
<1>. QED BY <1>2, <1>3, <1>4 DEF ReclaimInv, Forsaken, Closing, Unbinding

LEMMA ReclaimStep == ReclaimInv /\ [Next]_vars => ReclaimInv'
<1>. SUFFICES ASSUME ReclaimInv, [Next]_vars PROVE ReclaimInv'
  OBVIOUS
<1>2. CASE UNCHANGED vars
  <2>1. x' = x /\ held' = held /\ s' = s /\ c' = c /\ task' = task /\ closer' = closer
    BY <1>2 DEF vars, bvars
  <2>. QED BY <2>1, Unchanged, Frame
<1>3. CASE Publication \/ Persists
  BY <1>3, PublicationSafe, PersistsSafe
<1>4. CASE Pump
  BY <1>4, PumpDeliverSafe, PumpDrainSafe, PumpFailsSafe, PumpOtherSafe DEF Pump
<1>5. CASE Overflow
  BY <1>5, OverflowStopsSafe, RetainSafe, CancelDeliverySafe, FinalizeSafe, AskRecoverySafe DEF Overflow
<1>6. CASE Task
  <2>1. SendPage \/ SendTerminal => ReclaimInv'
    BY EnqueueReplaySafe DEF SendPage, SendTerminal
  <2>. QED BY <1>6, <2>1, TaskDetachesSafe, HandoffSafe, AttachSafe, GateSafe, ReadHistorySafe, CommitSafe,
              ActivateSafe, WaitTerminalSafe, ExpiredTerminalSafe, FailDetachesSafe, DiscardSafe,
              GiveUpSafe, RecoverSubscriberSafe
           DEF Task
<1>7. CASE Closer
  BY <1>7, CloserUnbindsSafe, CloserDetachesSafe, CloserReleasesSafe DEF Closer
<1>8. CASE StartFrame("create") \/ StartFrame("close") \/ Expire \/ Disconnect
  BY <1>8, StartFrameSafe, ExpireSafe, DisconnectSafe
<1>. QED BY <1>2, <1>3, <1>4, <1>5, <1>6, <1>7, <1>8 DEF Next

\* Once the connection is closed nobody has its subscriber, and whoever had it has
\* released what it had.
LEMMA ReclaimInvReclaimed == ReclaimInv => Reclaimed
<1>1. SUFFICES ASSUME ReclaimInv, closer.pc = "done", task.pc = "idle", Cleaned
               PROVE  \A key \in Keys : held[key] = 0
  BY DEF Reclaimed
<1>2. ~c.cur /\ ~Resuming /\ ~Releasing
  BY <1>1 DEF ReclaimInv, Closing, Resuming, HandingOver, Releasing
<1>. QED BY <1>1, <1>2, CleanedRetained DEF ReclaimInv, Attended

\* A closed connection whose goroutines have ended leaves no transfer in the
\* broadcaster (RetainSubscriberOverflowTransfer, releaseTransfer), wherever the
\* close fell between an overflow, a resync, a retry and a recovery.
THEOREM TransfersReclaimed == Spec => []Reclaimed
<1>1. Spec => []ReclaimInv
  BY ReclaimInit, ReclaimStep, PTL DEF Spec
<1>. QED BY <1>1, ReclaimInvReclaimed, PTL

=============================================================================
