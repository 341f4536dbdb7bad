---------------------------- MODULE SendQueueStore ----------------------------
(***************************************************************************)
(* The durable send queue of internal/sendqueue/store.go: one queue per    *)
(* chat, kept in memory under Store.mu and written as one whole file after *)
(* every mutation.                                                         *)
(*                                                                         *)
(* Store.mu is held from the first read to the end of persistLocked, so a  *)
(* method is one action.  What the lock does not make atomic is the write: *)
(* persistLocked can fail before the rename, between the rename and the    *)
(* directory sync, and after the directory sync, and in all three cases    *)
(* commitLocked restores the prior queue in memory.  The process can also  *)
(* stop at each of these points; a stop inside the write is a failed write *)
(* followed by Restart or PowerLoss, because memory is gone either way.    *)
(*                                                                         *)
(* An item is abstracted to its identity, an opaque payload (text, images, *)
(* request id) and the two dispatch fields.  DeliveryID is not a field: it *)
(* is drawn once per item and kept from then on, so it is named by id.     *)
(***************************************************************************)
EXTENDS Integers, Sequences, SequencesExt, FiniteSets

CONSTANTS
    Chats,        \* chat identifiers
    Payloads,     \* what a queued message carries; opaque to the store
    NoItem,       \* "Dispatching == nil"
    MaxRevision   \* bound: revision numbers explored

ASSUME MaxRevisionAssumption == MaxRevision \in Nat

DispatchReserved == "reserved"
DispatchAttempted == "attempted"

\* A cursor names the last transcript entry of a file-order prefix; 0 is "".
Item == [id : Nat, op : Payloads,
         state : {"", DispatchReserved, DispatchAttempted}, cursor : Nat]

ASSUME NoItemAssumption == NoItem \notin Item

Queue == [rev : Nat, items : Seq(Item), disp : Item \cup {NoItem}]

\* The zero chatQueue: what s.chats[chatID] reads as for an unknown chat.
EmptyQueue == [rev |-> 0, items |-> <<>>, disp |-> NoItem]

VARIABLES
    mem,      \* s.chats
    disk,     \* the file the path names now: what Load reads after a restart
    durable   \* the files the path may name after a power loss

storeVars == <<mem, disk, durable>>

Image == [Chats -> Queue]

StoreTypeOK == /\ mem \in Image
               /\ disk \in Image
               /\ durable \in SUBSET Image
               /\ disk \in durable

StoreInit == /\ mem = [c \in Chats |-> EmptyQueue]
             /\ disk = mem
             /\ durable = {mem}

-----------------------------------------------------------------------------
(***************************************************************************)
(* What each method does to one chat's queue, and when it returns before   *)
(* it writes anything.  A definition whose comment begins with "Wrong:" is *)
(* a mutant of the next one, there to show that a property can fail.       *)
(***************************************************************************)

NewItem(id, op) == [id |-> id, op |-> op, state |-> "", cursor |-> 0]

Positions(items, id) == {i \in DOMAIN items : items[i].id = id}

Queued(items, id) == Positions(items, id) # {}

\* itemIndex: the first position that holds id.
ItemIndex(items, id) ==
    CHOOSE i \in Positions(items, id) : \A j \in Positions(items, id) : i <= j

WithDispatch(q, items, disp) == [rev |-> q.rev + 1, items |-> items, disp |-> disp]

WithItems(q, items) == WithDispatch(q, items, q.disp)

Appended(q, item) == WithItems(q, Append(q.items, item))

Removed(q, id) == WithItems(q, RemoveAt(q.items, ItemIndex(q.items, id)))

\* Move clamps a 0-based toIndex into the queue; positions here are 1-based.
Clamp(q, toIndex) ==
    1 + (IF toIndex < 0 THEN 0
         ELSE IF toIndex >= Len(q.items) THEN Len(q.items) - 1 ELSE toIndex)

\* Wrong: the order changes under the old revision.
MovedSilently(q, id, toIndex) ==
    [q EXCEPT !.items = InsertAt(RemoveAt(q.items, ItemIndex(q.items, id)), Clamp(q, toIndex),
                                 q.items[ItemIndex(q.items, id)])]

Moved(q, id, toIndex) ==
    LET from == ItemIndex(q.items, id)
    IN WithItems(q, InsertAt(RemoveAt(q.items, from), Clamp(q, toIndex), q.items[from]))

Cleared(q) == WithItems(q, <<>>)

Reserved(q) ==
    WithDispatch(q, Tail(q.items),
                 [Head(q.items) EXCEPT !.state = DispatchReserved, !.cursor = 0])

Attempted(q, cursor) ==
    WithDispatch(q, q.items,
                 [q.disp EXCEPT !.state = DispatchAttempted, !.cursor = cursor])

Completed(q) == WithDispatch(q, q.items, NoItem)

\* Wrong: the dispatch is not cleared.
RestoredTwice(q) == WithDispatch(q, <<q.disp>> \o q.items, q.disp)

\* Wrong: behind the messages queued after it.
RestoredLast(q) == WithDispatch(q, Append(q.items, q.disp), NoItem)

Restored(q) == WithDispatch(q, <<q.disp>> \o q.items, NoItem)

Claimed(q) == WithItems(q, Tail(q.items))

Unclaimed(q, item) == WithItems(q, <<item>> \o q.items)

Bumped(q) == WithItems(q, q.items)

Dispatching(q, id) == q.disp # NoItem /\ q.disp.id = id

HasBacklog(c) == mem[c].disp # NoItem \/ mem[c].items # <<>>

\* The items of a queue, waiting or dispatching; none of them twice.
Ids(items) == {items[i].id : i \in DOMAIN items}

Held(q) == Ids(q.items) \cup (IF q.disp = NoItem THEN {} ELSE {q.disp.id})

Unique(items) == \A i, j \in DOMAIN items : items[i].id = items[j].id => i = j

Distinct(q) ==
    /\ Unique(q.items)
    /\ q.disp # NoItem => q.disp.id \notin Ids(q.items)

-----------------------------------------------------------------------------
(***************************************************************************)
(* commitLocked and persistLocked.  The four ways a write can end:         *)
(*   "ok"         renamed and the directory synced;                        *)
(*   "unwritten"  an error up to and including the rename: the old file    *)
(*                stays;                                                   *)
(*   "renamed"    an error opening or syncing the directory: the new file  *)
(*                is in place, a power loss may still bring the old one;   *)
(*   "synced"     an error closing the directory: the new file is durable. *)
(* Memory keeps next only for "ok".  The temporary file is synced before   *)
(* it is renamed, so every image below is a whole file.                    *)
(***************************************************************************)
PersistOutcomes == {"ok", "unwritten", "renamed", "synced"}

\* Wrong: the directory is never synced.
CommitWithoutDirSync(c, next, o) ==
    LET img == [mem EXCEPT ![c] = next]
    IN /\ next.rev <= MaxRevision
       /\ mem' = IF o = "ok" THEN img ELSE mem
       /\ disk' = IF o = "unwritten" THEN disk ELSE img
       /\ durable' = IF o = "unwritten" THEN durable ELSE durable \cup {img}

Commit(c, next, o) ==
    LET img == [mem EXCEPT ![c] = next]
    IN /\ next.rev <= MaxRevision
       /\ mem' = IF o = "ok" THEN img ELSE mem
       /\ disk' = IF o = "unwritten" THEN disk ELSE img
       /\ durable' = CASE o = "unwritten" -> durable
                       [] o = "renamed" -> durable \cup {img}
                       [] OTHER -> {img}

StoreAppend(c, item, o) == Commit(c, Appended(mem[c], item), o)

StoreRemove(c, id, o) ==
    /\ Queued(mem[c].items, id)
    /\ Commit(c, Removed(mem[c], id), o)

StoreMove(c, id, toIndex, o) ==
    /\ Queued(mem[c].items, id)
    /\ ItemIndex(mem[c].items, id) # Clamp(mem[c], toIndex)
    /\ Commit(c, Moved(mem[c], id, toIndex), o)

StoreClear(c, o) ==
    /\ mem[c].items # <<>>
    /\ Commit(c, Cleared(mem[c]), o)

\* Wrong: reserves over an existing dispatch.
StoreBeginAnyway(c, o) == mem[c].items # <<>> /\ Commit(c, Reserved(mem[c]), o)

\* The reserving branch of BeginDispatch; an existing dispatch is returned
\* unchanged and an empty queue returns nothing, both without a write.
StoreBeginDispatch(c, o) ==
    /\ mem[c].disp = NoItem
    /\ mem[c].items # <<>>
    /\ Commit(c, Reserved(mem[c]), o)

StoreMarkAttempted(c, id, cursor, o) ==
    /\ Dispatching(mem[c], id)
    /\ Commit(c, Attempted(mem[c], cursor), o)

StoreCompleteDispatch(c, id, o) ==
    /\ Dispatching(mem[c], id)
    /\ Commit(c, Completed(mem[c]), o)

StoreRestoreDispatch(c, id, o) ==
    /\ Dispatching(mem[c], id)
    /\ Commit(c, Restored(mem[c]), o)

StoreClaimHead(c, o) ==
    /\ mem[c].items # <<>>
    /\ Commit(c, Claimed(mem[c]), o)

StoreRestoreHead(c, item, o) == Commit(c, Unclaimed(mem[c], item), o)

\* A chat without an entry is not written; one with a zero entry is, and the
\* two are not told apart here.
StoreDelete(c, o) == Commit(c, EmptyQueue, o)

StoreBump(c, o) == Commit(c, Bumped(mem[c]), o)

\* The process stops and a new one loads the file (Load).
StoreRestart == mem' = disk /\ UNCHANGED <<disk, durable>>

\* The machine stops: the directory entry may be any file not yet superseded
\* by a directory sync.
StorePowerLoss ==
    \E img \in durable : mem' = img /\ disk' = img /\ durable' = {img}

=============================================================================
