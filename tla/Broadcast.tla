------------------------------ MODULE Broadcast ------------------------------
(***************************************************************************)
(* The fan-out of one session's frames to one subscriber                   *)
(* (internal/session/broadcast.go): the subscription's bounded queue, the  *)
(* gate that holds live frames back while history is replayed, the drain   *)
(* that drops what the history pages already carried, and the transfer     *)
(* that keeps the stream of a subscriber whose queue overflowed.           *)
(*                                                                         *)
(* A frame is its place in `log', the frames in the order they were        *)
(* published.  A subscriber joins its old subscription before it attaches  *)
(* again, so one subscription `x' exists at a time.                        *)
(***************************************************************************)
EXTENDS Naturals, Sequences, FiniteSets, SequencesExt

CONSTANTS QueueSize,     \* Session.queueSize
          TransferCap,   \* SubscriberOverflowTransferCapacity
          MaxTransfers   \* bound: transfers made

ASSUME SizesAssumption ==
    /\ QueueSize \in Nat \ {0}
    /\ TransferCap \in Nat \ {0}
    /\ MaxTransfers \in Nat \ {0}

VARIABLES
    script,    \* kinds of the frames the session has yet to publish
    log,       \* frames published: [k, m, seq]
    entries,   \* messages the engine has persisted, in order
    appended,  \* recentMessageEntries: message -> watermark, 0 if not announced
    x,         \* the subscription
    ovf,       \* publisher between a refused enqueue and the transfer: its frame
    T,         \* overflowTransfer instances
    held       \* broadcaster.overflowTransfers: key -> instance, 0 if none

bvars == <<script, log, entries, appended, x, ovf, T, held>>

Kinds == {"msg", "app", "event", "notice", "delta"}
Frames == 1..Len(log)
Messages == {f \in Frames : log[f].k = "msg"}

NoItem == [k |-> "none", f |-> 0, ids |-> {}]
NoTransfer == [frames |-> <<>>, suffix |-> <<>>, reserved |-> 0, finalized |-> FALSE,
               overflowed |-> FALSE, consumed |-> FALSE]
NoSubscription ==
    [live |-> FALSE, cap |-> QueueSize, q |-> <<>>, hand |-> NoItem, stop |-> "none",
     exited |-> TRUE, replaying |-> FALSE, pendingLive |-> <<>>, draining |-> FALSE,
     replayDrain |-> <<>>, replayed |-> {}, failed |-> 0, bg |-> "none", t |-> 0,
     prefix |-> <<>>, tail |-> FALSE, acked |-> FALSE, arming |-> FALSE]

Larger(a, b) == IF a > b THEN a ELSE b

(* subscription.droppableLiveFrame: a preview whose content comes again. *)
Droppable(f) == log'[f].k = "delta"

(* overflowTransfer.append; TransferAppend(t, f) is the transfer after it. *)
TransferAppend(t, f) ==
    LET size == IF t.finalized THEN Len(t.frames) ELSE t.reserved + Len(t.suffix)
    IN  IF t.overflowed \/ size >= TransferCap THEN [t EXCEPT !.overflowed = TRUE]
        ELSE IF t.finalized THEN [t EXCEPT !.frames = Append(@, f)]
        ELSE [t EXCEPT !.suffix = Append(@, f)]

(* Wrong: what was published after the overflow comes before what was queued. *)
TransferFinalizeSwapped(t, prefix) ==
    IF t.finalized \/ Len(prefix) + Len(t.suffix) > TransferCap
    THEN [t EXCEPT !.overflowed = ~t.finalized, !.finalized = TRUE, !.suffix = <<>>, !.reserved = 0]
    ELSE [t EXCEPT !.frames = t.suffix \o prefix, !.suffix = <<>>, !.reserved = 0, !.finalized = TRUE]

(* overflowTransfer.finalize *)
TransferFinalize(t, prefix) ==
    IF t.finalized THEN t
    ELSE IF Len(prefix) + Len(t.suffix) > TransferCap
         THEN [t EXCEPT !.overflowed = TRUE, !.suffix = <<>>, !.reserved = 0, !.finalized = TRUE]
         ELSE [t EXCEPT !.frames = prefix \o t.suffix, !.suffix = <<>>, !.reserved = 0,
                        !.finalized = TRUE]

(* mergeOverflowTransfer: the journal's notices without the transferred ones,
   then the transferred frames. *)
Merge(initial, frames) ==
    SelectSeq(initial, LAMBDA f : ~\E i \in DOMAIN frames : frames[i] = f) \o frames

Journal == SelectSeq([i \in 1..Len(log) |-> i], LAMBDA f : log[f].k = "notice")

-----------------------------------------------------------------------------
(* Publication. *)

(* subscription.enqueue: what becomes of the subscription; a refused frame
   leaves it as it is. *)
Accepts(f) ==
    \/ x.stop = "none" /\ x.replaying /\ Len(x.pendingLive) < x.cap
    \/ x.stop = "none" /\ ~x.replaying /\ Len(x.q) < x.cap

Enqueued(f) ==
    IF x.replaying THEN [x EXCEPT !.pendingLive = Append(@, f)]
    ELSE [x EXCEPT !.q = Append(@, [k |-> "live", f |-> f, ids |-> {}])]

(* broadcaster.publishExcept up to the enqueue.  Every retained transfer gets
   the frame first; a frame the queue refuses, unless it is a preview, makes
   the publisher go on to TakeOverflow. *)
PublishFrame(k, m) ==
    /\ ovf = 0
    /\ LET f == Len(log) + 1
           seq == Cardinality(Messages) + (IF k = "msg" THEN 1 ELSE 0)
       IN  /\ log' = Append(log, [k |-> k, m |-> m, seq |-> seq])
           /\ T' = [i \in DOMAIN T |->
                       IF ~Droppable(f) /\ \E key \in DOMAIN held : held[key] = i
                       THEN TransferAppend(T[i], f) ELSE T[i]]
           /\ IF ~x.live THEN UNCHANGED <<x, ovf>>
              ELSE IF Accepts(f) THEN x' = Enqueued(f) /\ ovf' = 0
              ELSE IF Droppable(f) THEN UNCHANGED <<x, ovf>>
              ELSE x' = x /\ ovf' = f
    /\ UNCHANGED held

(* beginOverflowTransfer and the rest of publishExcept for the subscription
   that refused frame ovf: it leaves the broadcaster, its transfer is installed
   under the subscriber's key, and finishOverflowAsync stops it. *)
TakeOverflow(key) ==
    /\ ovf # 0
    /\ \E t \in DOMAIN T :
          /\ T[t] = NoTransfer /\ \A u \in DOMAIN T : T[u] = NoTransfer => t <= u
          /\ LET frames == IF x.replaying THEN x.pendingLive \o <<ovf>> ELSE <<>>
                 fresh == IF x.replaying
                          THEN [NoTransfer EXCEPT !.reserved = Len(frames)]
                          ELSE TransferAppend([NoTransfer EXCEPT !.reserved = x.cap + 1], ovf)
             IN  /\ T' = [T EXCEPT ![t] = fresh]
                 /\ held' = [held EXCEPT ![key] = t]
                 /\ x' = [x EXCEPT !.live = FALSE, !.stop = "overflow", !.bg = "retain",
                                   !.t = t, !.prefix = frames, !.tail = x.replaying,
                                   !.replaying = FALSE, !.pendingLive = <<>>]
    /\ ovf' = 0
    /\ UNCHANGED <<script, log, entries, appended>>

-----------------------------------------------------------------------------
(* The engine's side: what the session publishes and what it persists. *)

(* A provider event, or a notice of the transport, becomes a frame.  An attach
   holds lifecycleMu until its gate is armed; a notice of the transport
   (Manager.PublishNotice) does not need that lock. *)
Publish ==
    /\ script # <<>>
    /\ x.arming => Head(script) = "notice"
    /\ PublishFrame(Head(script), 0)
    /\ script' = Tail(script)
    /\ UNCHANGED <<entries, appended>>

(* The engine writes the oldest message it has not yet written. *)
Persist ==
    /\ \E m \in Messages :
          /\ ~\E i \in DOMAIN entries : entries[i] = m
          /\ \A o \in Messages : o < m => \E i \in DOMAIN entries : entries[i] = o
          /\ entries' = Append(entries, m)
    /\ UNCHANGED <<script, log, appended, x, ovf, T, held>>

(* Session.dispatch of entry_appended: the append is remembered with the
   watermark of messages published, and announced to the browser. *)
EntryAppended ==
    /\ ~x.arming
    /\ \E m \in Range(entries) :
          /\ appended[m] = 0
          /\ \A o \in Range(entries) : o < m => appended[o] # 0
          /\ appended' = [appended EXCEPT ![m] = Cardinality(Messages)]
          /\ PublishFrame("app", m)
    /\ UNCHANGED <<script, entries>>

-----------------------------------------------------------------------------
(* The subscription's pump (subscription.run). *)

(* The next queued item is taken. *)
PumpTake ==
    /\ ~x.exited /\ x.stop = "none" /\ ~x.draining
    /\ x.hand = NoItem /\ x.q # <<>>
    /\ x' = [x EXCEPT !.hand = Head(x.q), !.q = Tail(x.q)]

(* recentMessageEntryIDs and frameReplaysDeliveredEntry: an entry a page of
   this replay carried, with the same payload (all messages of a script have
   the same words), appended no earlier than the frame was published. *)
Covering(f) ==
    IF log[f].k # "msg" THEN {}
    ELSE {m \in x.replayed : appended[m] # 0 /\ appended[m] >= log[f].seq}

(* subscription.finishReplay: the retained frames become the drain, or the
   gate opens. *)
DrainMore ==
    /\ x.draining /\ x.replayDrain = <<>> /\ x.pendingLive # <<>> /\ x.replaying
    /\ x' = [x EXCEPT !.replayDrain = x.pendingLive, !.pendingLive = <<>>]

DrainDone ==
    /\ x.draining /\ ~x.exited
    /\ \/ ~x.replaying
       \/ x.replayDrain = <<>> /\ x.pendingLive = <<>>
    /\ x' = [x EXCEPT !.draining = FALSE, !.replaying = FALSE, !.acked = TRUE]

(* The subscription after the pump delivered or dropped the head of the drain. *)
Drained(covering) ==
    [x EXCEPT !.replayDrain = Tail(@),
              !.replayed = IF covering = {} THEN @ ELSE @ \ {CHOOSE m \in covering :
                                                         \A o \in covering : m <= o}]

(* endReplay *)
EndReplay(y) == [y EXCEPT !.replaying = FALSE, !.pendingLive = IF y.replaying THEN <<>> ELSE @]

(* The pump sees the stop signal and ends. *)
PumpExit ==
    /\ ~x.exited /\ x.stop # "none" /\ x.hand = NoItem /\ ~x.draining
    /\ x' = EndReplay([x EXCEPT !.exited = TRUE])

(* The pump ends because a delivery failed. *)
Broken == EndReplay([x EXCEPT !.exited = TRUE, !.hand = NoItem, !.draining = FALSE,
                              !.failed = IF x.hand.k = "live" THEN x.hand.f ELSE @])

(* Wrong: the frame whose delivery failed is not carried over. *)
OverflowPrefixQueueOnly ==
    IF x.tail THEN x.replayDrain \o x.prefix
    ELSE SelectSeq([i \in DOMAIN x.q |-> x.q[i].f], LAMBDA f : f # 0)

(* What finishOverflowAsync puts in front of the transfer once the pump has
   ended: drainReplayTail and the frames behind the gate, or the frame that
   failed and drainOverflowQueue. *)
OverflowPrefix ==
    IF x.tail THEN x.replayDrain \o x.prefix
    ELSE (IF x.failed = 0 THEN <<>> ELSE <<x.failed>>)
         \o SelectSeq([i \in DOMAIN x.q |-> x.q[i].f], LAMBDA f : f # 0)

Cleaned == x.exited /\ x.bg \in {"none", "done"}

(* SubscriberOverflowTransfer.Release *)
Released(t) == [key \in DOMAIN held |-> IF held[key] = t THEN 0 ELSE held[key]]

BInit(frames) ==
    /\ script = frames
    /\ log = <<>> /\ entries = <<>>
    /\ appended = [m \in 1..(3 * Len(frames)) |-> 0]
    /\ x = NoSubscription /\ ovf = 0
    /\ T = [t \in 1..MaxTransfers |-> NoTransfer]
=============================================================================
