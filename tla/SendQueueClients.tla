--------------------------- MODULE SendQueueClients ---------------------------
(***************************************************************************)
(* The store of SendQueueStore under arbitrary callers: every method in    *)
(* every order on every chat, every write ending in every way, the process *)
(* and the machine stopping between any two calls.  Three history          *)
(* variables record what the callers were told.                            *)
(***************************************************************************)
EXTENDS SendQueueStore

CONSTANTS MaxAppends,  \* bound: items ever appended
          MaxFaults    \* bound: failed writes, restarts and power losses

ASSUME MaxAppendsAssumption == MaxAppends \in Nat
ASSUME MaxFaultsAssumption == MaxFaults \in Nat

VARIABLES
    newestId,  \* the newest item id; newID never repeats one
    claimed,   \* items a caller of ClaimHead holds, per chat
    promised,  \* <<chat, id>> of appends that returned success and that no
               \* call has tried to take out since
    seen,      \* per chat: every queue content a snapshot could have returned
    faults     \* failed writes and stops so far

clientsVars == <<mem, disk, durable, newestId, claimed, promised, seen, faults>>

ClientsTypeOK == /\ StoreTypeOK
                 /\ newestId \in Nat
                 /\ claimed \in [Chats -> SUBSET Item]
                 /\ promised \in SUBSET (Chats \X Nat)
                 /\ seen \in [Chats -> SUBSET Queue]
                 /\ faults \in Nat

ClientsInit == /\ StoreInit
               /\ newestId = 0
               /\ claimed = [c \in Chats |-> {}]
               /\ promised = {}
               /\ seen = [c \in Chats |-> {EmptyQueue}]
               /\ faults = 0

\* Snapshot reads memory; anything memory holds can have been published.  A
\* chat whose deletion was asked for is no longer followed (seen[c] = {}).
Observe ==
    seen' = [c \in Chats |-> IF seen[c] = {} THEN {} ELSE seen[c] \cup {mem'[c]}]

Fault(o) == /\ o = "ok" \/ faults < MaxFaults
            /\ faults' = IF o = "ok" THEN faults ELSE faults + 1

Append1(c, op, o) ==
    /\ newestId < MaxAppends
    /\ StoreAppend(c, NewItem(newestId + 1, op), o)
    /\ newestId' = newestId + 1
    /\ promised' = IF o = "ok" THEN promised \cup {<<c, newestId + 1>>} ELSE promised
    /\ Fault(o) /\ Observe /\ UNCHANGED claimed

Remove1(c, id, o) ==
    /\ StoreRemove(c, id, o)
    /\ promised' = promised \ {<<c, id>>}
    /\ Fault(o) /\ Observe /\ UNCHANGED <<newestId, claimed>>

Move1(c, id, toIndex, o) ==
    /\ StoreMove(c, id, toIndex, o)
    /\ Fault(o) /\ Observe /\ UNCHANGED <<newestId, claimed, promised>>

Clear1(c, o) ==
    /\ StoreClear(c, o)
    /\ promised' = promised \ {<<c, id>> : id \in Ids(mem[c].items)}
    /\ Fault(o) /\ Observe /\ UNCHANGED <<newestId, claimed>>

Begin1(c, o) ==
    /\ StoreBeginDispatch(c, o)
    /\ Fault(o) /\ Observe /\ UNCHANGED <<newestId, claimed, promised>>

Mark1(c, id, o) ==
    /\ StoreMarkAttempted(c, id, 0, o)
    /\ Fault(o) /\ Observe /\ UNCHANGED <<newestId, claimed, promised>>

Complete1(c, id, o) ==
    /\ StoreCompleteDispatch(c, id, o)
    /\ promised' = promised \ {<<c, id>>}
    /\ Fault(o) /\ Observe /\ UNCHANGED <<newestId, claimed>>

Restore1(c, id, o) ==
    /\ StoreRestoreDispatch(c, id, o)
    /\ Fault(o) /\ Observe /\ UNCHANGED <<newestId, claimed, promised>>

\* ClaimHead pops the head into the caller's hands; only RestoreHead puts it
\* back, and a stop loses it.
Claim1(c, o) ==
    /\ StoreClaimHead(c, o)
    /\ claimed' = IF o = "ok" THEN [claimed EXCEPT ![c] = @ \cup {Head(mem[c].items)}]
                  ELSE claimed
    /\ promised' = promised \ {<<c, Head(mem[c].items).id>>}
    /\ Fault(o) /\ Observe /\ UNCHANGED newestId

Unclaim1(c, item, o) ==
    /\ item \in claimed[c]
    /\ StoreRestoreHead(c, item, o)
    /\ claimed' = IF o = "ok" THEN [claimed EXCEPT ![c] = @ \ {item}] ELSE claimed
    /\ promised' = IF o = "ok" THEN promised \cup {<<c, item.id>>} ELSE promised
    /\ Fault(o) /\ Observe /\ UNCHANGED newestId

Bump1(c, o) ==
    /\ StoreBump(c, o)
    /\ Fault(o) /\ Observe /\ UNCHANGED <<newestId, claimed, promised>>

\* Delete ends the chat: revisions start again at 0 for whoever still uses it.
Delete1(c, o) ==
    /\ StoreDelete(c, o)
    /\ promised' = {p \in promised : p[1] # c}
    /\ seen' = [seen EXCEPT ![c] = {}]
    /\ Fault(o) /\ UNCHANGED <<newestId, claimed>>

Stopped == claimed' = [c \in Chats |-> {}] /\ UNCHANGED <<newestId, promised>>

Restart == StoreRestart /\ Fault("stop") /\ Observe /\ Stopped

\* Whoever read a revision before a power loss cannot compare it with one read
\* after: the machine may have come back with an older file.
LosePower ==
    /\ StorePowerLoss
    /\ seen' = [c \in Chats |-> IF seen[c] = {} THEN {} ELSE {mem'[c]}]
    /\ Fault("stop") /\ Stopped

ClientCall(c, o) ==
    \/ \E op \in Payloads : Append1(c, op, o)
    \/ \E id \in 1..MaxAppends : Remove1(c, id, o)
    \/ \E id \in 1..MaxAppends, to \in -1..MaxAppends : Move1(c, id, to, o)
    \/ Clear1(c, o)
    \/ Begin1(c, o)
    \/ \E id \in 1..MaxAppends : Mark1(c, id, o) \/ Complete1(c, id, o) \/ Restore1(c, id, o)
    \/ Claim1(c, o)
    \/ \E item \in claimed[c] : Unclaim1(c, item, o)
    \/ Bump1(c, o)
    \/ Delete1(c, o)

ClientsNext ==
    \/ \E c \in Chats, o \in PersistOutcomes : ClientCall(c, o)
    \/ Restart
    \/ LosePower

ClientsSpec == ClientsInit /\ [][ClientsNext]_clientsVars

-----------------------------------------------------------------------------
(***************************************************************************)
(* An append that returned success survives every stop: whatever file the  *)
(* next process finds, the item is in it, until a caller has asked to take *)
(* it out.  persistLocked syncs the file, renames it and syncs the         *)
(* directory before commitLocked reports success, and a failed call on     *)
(* another item or chat must not undo it.                                  *)
(***************************************************************************)
AcknowledgedItemsSurvive ==
    \A p \in promised : /\ p[2] \in Held(mem[p[1]])
                        /\ \A img \in durable : p[2] \in Held(img[p[1]])

(***************************************************************************)
(* No file and no memory state holds an item twice: not at two positions   *)
(* of Items, not in Items and Dispatching at once.  BeginDispatch,         *)
(* RestoreDispatch, ClaimHead and RestoreHead move an item between places  *)
(* with writes that may fail half way.                                     *)
(***************************************************************************)
ItemHeldOnce ==
    \A c \in Chats : \A img \in durable \cup {mem} : Distinct(img[c])

(***************************************************************************)
(* Two snapshots of a chat with the same revision have the same content,   *)
(* also when a failed write was rolled back or a restart loaded what a     *)
(* failed write had left on disk: a revision number is never reused.       *)
(***************************************************************************)
RevisionNamesContent ==
    \A c \in Chats : \A p, q \in seen[c] : p.rev = q.rev => p = q

(***************************************************************************)
(* A dispatch is replaced by another item's only after it was completed or *)
(* restored: BeginDispatch returns the dispatch it finds, also the one a   *)
(* dead process left behind.                                               *)
(***************************************************************************)
DispatchIsSticky ==
    [][\A c \in Chats : mem[c].disp # NoItem /\ mem'[c].disp # NoItem
                          => mem'[c].disp.id = mem[c].disp.id \/ LosePower]_clientsVars
=============================================================================
