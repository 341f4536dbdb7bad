-------------------------- MODULE QueueDispatchProofs --------------------------
(***************************************************************************)
(* Proofs about the delivery of queued messages, for every set of messages *)
(* and every bound: one delivery at a time, nothing acknowledged vanishes, *)
(* and nothing reaches the model twice unless the session file was written *)
(* behind the server's back (quarantineExternalWrite).                     *)
(***************************************************************************)
EXTENDS QueueDispatch, SendQueueProofs, FiniteSetTheorems

-----------------------------------------------------------------------------
(***************************************************************************)
(* The inductive invariant.                                                *)
(***************************************************************************)

\* What memory and every file a stop may leave hold for the chat.
Queues == {img[Chat] : img \in durable \cup {mem}}

\* Each queue is well formed and holds no message twice.
Stored == StoreTypeOK /\ lastId \in Nat /\ \A qu \in Queues : Good(qu, lastId)

SeqFields == {"pc", "item", "was", "cursor", "op", "drain"}
CallFields == {"id", "op", "item", "steer", "res", "current", "tainted"}

\* Where flushHead works on a dispatch.
Flushing == {"reconcile", "checkpoint", "mark", "send"}

\* Message id with payload op is the dispatch of qu.
Current(qu, id, op) == Dispatching(qu, id) /\ qu.disp.op = op

\* Only one of them has a queued message.
OneCall(S) == \A c, d \in S : c.item # 0 /\ d.item # 0 => c = d

\* flushHead and the provider never have a message each: the guard and the
\* durable dispatch are those of whoever has one.
Delivering ==
    /\ seq.pc \in Flushing =>
            /\ guard = seq.item.id /\ Current(q, seq.item.id, seq.item.op)
            /\ \A c \in calls : c.item = 0
    /\ \A c \in calls : c.item # 0 => guard = c.item /\ Current(q, c.item, c.op)
    /\ OneCall(calls)

\* A request on the wire is the one of the call that waits for its answer.
Linked ==
    /\ lastCall \in Nat /\ DOMAIN seq = SeqFields /\ seq.cursor \in Nat
    /\ seq.pc = "append" => seq.op \in Ops
    /\ \A c \in calls : DOMAIN c = CallFields /\ c.op \in Ops /\ c.item \in Nat
                        /\ c.id \in Nat /\ c.id <= lastCall
    /\ \A r \in wire : r.op \in Ops /\ r.item \in Nat /\ r.call \in Nat /\ r.call <= lastCall
    /\ \A r \in wire, c \in calls : r.call = c.id => r.op = c.op /\ r.item = c.item

\* The words of op are in the transcript.
Said(op) == \E i \in DOMAIN transcript : TextOf[transcript[i].op] = TextOf[op]

\* An accepted call's words are.
Answers == transcript \in Seq(Message) /\ \A c \in calls : c.res = "ok" => Said(c.op)

\* Everything held of an acknowledged message carries what was acknowledged.
Among(x, qu) == (\E i \in DOMAIN qu.items : x = qu.items[i]) \/ (qu.disp # NoItem /\ x = qu.disp)

Faithful ==
    /\ \A p \in owed : p[1] \in 1..lastId
    /\ \A qu \in Queues : \A x : Among(x, qu) => \A p \in owed : p[1] = x.id => p[2] = x.op

\* NothingVanishes in terms of the queues.
Accounted == \A p \in owed : (\A qu \in Queues : p[1] \in Held(qu)) \/ Said(p[2])

DispatchInv == Stored /\ Delivering /\ Linked /\ Answers /\ Faithful /\ Accounted

-----------------------------------------------------------------------------
(* What AtMostOnce needs besides, as long as no session was quarantined. *)

\* No request for id was written that the engine may have applied or may apply.
Fresh(id) == (\A r \in wire : r.item # id) /\ (\A i \in DOMAIN transcript : transcript[i].item # id)

\* What a queue may still send.
Open(qu) == Ids(qu.items) \cup
            (IF qu.disp # NoItem /\ qu.disp.state # DispatchAttempted THEN {qu.disp.id} ELSE {})

Untouched == \A qu \in Queues : \A id \in Open(qu) : Fresh(id)

\* Nobody will send id again.
Barred(id) == \A qu \in Queues : id \notin Open(qu)

Careful ==
    /\ seq.pc \in {"checkpoint", "mark", "send"} => Fresh(seq.item.id)
    /\ seq.pc = "send" => Barred(seq.item.id)
    /\ \A c \in calls : c.item # 0 => Barred(c.item)
    /\ \A c \in calls : c.item # 0 /\ c.res \in {"busy", "rejected", "unloaded"} => Fresh(c.item)

\* The requests and messages of one item.
Single ==
    /\ \A r \in wire : r.item \in 0..lastId
    /\ \A i \in DOMAIN transcript : transcript[i].item \in 0..lastId
    /\ \A r, w \in wire : r.item # 0 /\ r.item = w.item => r = w
    /\ \A r \in wire : r.item # 0 => \A i \in DOMAIN transcript : transcript[i].item # r.item
    /\ \A i, j \in DOMAIN transcript : transcript[i].item # 0 /\ transcript[i].item = transcript[j].item => i = j

Unquarantined == ~quarantined /\ \A c \in calls : ~c.tainted

OnceInv == Unquarantined /\ Untouched /\ Careful /\ Single

-----------------------------------------------------------------------------
(***************************************************************************)
(* What the store's methods do to the messages of a queue.                 *)
(***************************************************************************)

\* r holds messages of qu.
Narrower(r, qu) == \A x : Among(x, r) => \E y : Among(y, qu) /\ y.id = x.id /\ y.op = x.op

LEMMA OneMoreItems ==
    ASSUME NEW s, NEW t, NEW i, OneMore(s, t, i)
    PROVE  /\ \A j \in DOMAIN t : \E k \in DOMAIN s : t[j] = s[k]
           /\ \A k \in DOMAIN s : s[k] = s[i] \/ \E j \in DOMAIN t : t[j] = s[k]
           /\ i \in DOMAIN s /\ s \in Seq(Item) /\ t \in Seq(Item)
<1>1. /\ s \in Seq(Item) /\ t \in Seq(Item) /\ Len(s) \in Nat /\ Len(t) \in Nat
      /\ DOMAIN s = 1..Len(s) /\ DOMAIN t = 1..Len(t) /\ Len(s) = Len(t) + 1 /\ i \in 1..Len(s)
      /\ \A j \in 1..Len(t) : t[j] = IF j < i THEN s[j] ELSE s[j + 1]
  BY DEF OneMore
<1>2. ASSUME NEW j \in DOMAIN t PROVE \E k \in DOMAIN s : t[j] = s[k]
  <2>1. CASE j < i
    BY <1>1, <2>1
  <2>2. CASE ~(j < i)
    <3>1. j + 1 \in DOMAIN s /\ t[j] = s[j + 1]
      BY <1>1, <2>2
    <3> QED
      BY <3>1
  <2> QED
    BY <2>1, <2>2
<1>3. ASSUME NEW k \in DOMAIN s, k # i PROVE \E j \in DOMAIN t : t[j] = s[k]
  <2>1. CASE k < i
    <3>1. k \in DOMAIN t /\ t[k] = s[k]
      BY <1>1, <2>1
    <3> QED
      BY <3>1
  <2>2. CASE k > i
    <3>1. k - 1 \in DOMAIN t /\ ~(k - 1 < i) /\ (k - 1) + 1 = k
      BY <1>1, <2>2
    <3>2. t[k - 1] = s[k]
      BY <1>1, <3>1
    <3> QED
      BY <3>1, <3>2
  <2> QED
    BY <1>1, <1>3, <2>1, <2>2
<1> QED
  BY <1>1, <1>2, <1>3

LEMMA GoodParts ==
    ASSUME NEW n \in Nat, NEW qu, Good(qu, n)
    PROVE  /\ qu \in Queue /\ qu.items \in Seq(Item) /\ Unique(qu.items)
           /\ qu.disp \in Item \cup {NoItem}
           /\ qu.disp # NoItem => qu.disp.id \notin Ids(qu.items) /\ qu.disp.id \in 1..n /\ DOMAIN qu.disp = {"id", "op", "state", "cursor"}
           /\ \A i \in DOMAIN qu.items : qu.items[i] \in Item /\ qu.items[i].id \in 1..n
           /\ Held(qu) \subseteq 1..n /\ Open(qu) \subseteq Held(qu)
<1>1. qu \in Queue /\ qu.items \in Seq(Item) /\ qu.disp \in Item \cup {NoItem}
  BY DEF Good, Queue
<1>2. \A i \in DOMAIN qu.items : qu.items[i] \in Item /\ qu.items[i].id \in Held(qu)
  BY <1>1, ElementOfSeq DEF Held, Ids
<1>3. qu.disp # NoItem => DOMAIN qu.disp = {"id", "op", "state", "cursor"}
  BY <1>1 DEF Item
<1> QED
  BY <1>1, <1>2, <1>3 DEF Good, Distinct, Held, Open

LEMMA AppendedEntries ==
    ASSUME NEW n \in Nat, NEW qu, Good(qu, n), NEW item \in Item
    PROVE  /\ \A x : Among(x, Appended(qu, item)) => x = item \/ Among(x, qu)
           /\ Open(Appended(qu, item)) \subseteq Open(qu) \cup {item.id}
           /\ Appended(qu, item).disp = qu.disp
<1> DEFINE r == Appended(qu, item)
           t == Append(qu.items, item)
<1>1. OneMore(t, qu.items, Len(qu.items) + 1) /\ t[Len(qu.items) + 1] = item
  BY GoodParts, AppendOneMore
<1>2. r.items = t /\ r.disp = qu.disp
  BY <1>1, GoodParts, WithItemsParts, OneMoreItems DEF Appended
<1>3. \A k \in DOMAIN t : t[k] = item \/ \E j \in DOMAIN qu.items : qu.items[j] = t[k]
  BY <1>1, OneMoreItems
<1> HIDE DEF r, t
<1>4. \A x : Among(x, r) => x = item \/ Among(x, qu)
  BY <1>2, <1>3 DEF Among
<1>5. Open(r) \subseteq Open(qu) \cup {item.id}
  BY <1>2, <1>3 DEF Open, Ids
<1> QED
  BY <1>2, <1>4, <1>5 DEF r

\* The waiting messages of r wait in qu, and the dispatch is the same.
LEMMA SameDispatch ==
    ASSUME NEW qu, NEW r, r.disp = qu.disp,
           \A i \in DOMAIN r.items : \E k \in DOMAIN qu.items : r.items[i] = qu.items[k]
    PROVE  Narrower(r, qu) /\ Open(r) \subseteq Open(qu)
<1>1. \A x : Among(x, r) => Among(x, qu)
  BY DEF Among
<1>2. Open(r) \subseteq Open(qu)
  BY DEF Open, Ids
<1> QED
  BY <1>1, <1>2 DEF Narrower

LEMMA RemovedEntries ==
    ASSUME NEW n \in Nat, NEW qu, Good(qu, n), NEW id, Queued(qu.items, id)
    PROVE  /\ Narrower(Removed(qu, id), qu) /\ Open(Removed(qu, id)) \subseteq Open(qu)
           /\ Removed(qu, id).disp = qu.disp
<1> DEFINE i == ItemIndex(qu.items, id)
           t == RemoveAt(qu.items, i)
           r == Removed(qu, id)
<1>1. i \in DOMAIN qu.items
  BY GoodParts, ItemIndexFinds
<1>2. OneMore(qu.items, t, i)
  BY <1>1, GoodParts, RemoveAtOneMore
<1>3. r.items = t /\ r.disp = qu.disp
  BY <1>2, GoodParts, WithItemsParts, OneMoreItems DEF Removed
<1>4. \A j \in DOMAIN t : \E k \in DOMAIN qu.items : t[j] = qu.items[k]
  BY <1>2, OneMoreItems
<1> HIDE DEF r, t
<1>5. Narrower(r, qu) /\ Open(r) \subseteq Open(qu)
  BY <1>3, <1>4, SameDispatch
<1> QED
  BY <1>3, <1>5 DEF r

LEMMA MovedEntries ==
    ASSUME NEW n \in Nat, NEW qu, Good(qu, n), NEW id, Queued(qu.items, id), NEW to \in Int
    PROVE  /\ Narrower(Moved(qu, id, to), qu) /\ Open(Moved(qu, id, to)) \subseteq Open(qu)
           /\ Moved(qu, id, to).disp = qu.disp
<1> DEFINE i == ItemIndex(qu.items, id)
           t == RemoveAt(qu.items, i)
           k == Clamp(qu, to)
           u == InsertAt(t, k, qu.items[i])
           r == Moved(qu, id, to)
<1>1. i \in DOMAIN qu.items /\ qu.items[i] \in Item /\ qu.items # <<>>
  BY GoodParts, ItemIndexFinds
<1>2. OneMore(qu.items, t, i)
  BY <1>1, GoodParts, RemoveAtOneMore
<1>3. t \in Seq(Item) /\ k \in 1..(Len(t) + 1)
  BY <1>1, <1>2, GoodParts, ClampInside DEF OneMore
<1>4. OneMore(u, t, k) /\ u[k] = qu.items[i]
  BY <1>1, <1>3, InsertAtOneMore
<1>5. r.items = u /\ r.disp = qu.disp
  BY <1>4, GoodParts, WithItemsParts, OneMoreItems DEF Moved
<1> HIDE DEF r, u, t, k
<1>6. \A j \in DOMAIN t : \E l \in DOMAIN qu.items : t[j] = qu.items[l]
  BY <1>2, OneMoreItems
<1>7. \A j \in DOMAIN u : u[j] = qu.items[i] \/ \E l \in DOMAIN t : t[l] = u[j]
  BY <1>4, OneMoreItems
<1>8. \A j \in DOMAIN u : \E l \in DOMAIN qu.items : u[j] = qu.items[l]
  BY <1>1, <1>6, <1>7
<1>9. Narrower(r, qu) /\ Open(r) \subseteq Open(qu)
  BY <1>5, <1>8, SameDispatch
<1> QED
  BY <1>5, <1>9 DEF r

LEMMA ClearedEntries ==
    ASSUME NEW n \in Nat, NEW qu, Good(qu, n)
    PROVE  Narrower(Cleared(qu), qu) /\ Open(Cleared(qu)) \subseteq Open(qu) /\ Cleared(qu).disp = qu.disp
<1> DEFINE r == Cleared(qu)
<1>1. r.items = <<>> /\ r.disp = qu.disp
  BY EmptySeq, GoodParts, WithItemsParts DEF Cleared
<1>2. DOMAIN r.items = {}
  BY <1>1
<1> HIDE DEF r
<1>3. Narrower(r, qu) /\ Open(r) \subseteq Open(qu)
  BY <1>1, <1>2, SameDispatch
<1> QED
  BY <1>1, <1>3 DEF r

LEMMA BumpedEntries ==
    ASSUME NEW n \in Nat, NEW qu, Good(qu, n)
    PROVE  Narrower(Bumped(qu), qu) /\ Open(Bumped(qu)) \subseteq Open(qu) /\ Bumped(qu).disp = qu.disp
<1> DEFINE r == Bumped(qu)
<1>1. r.items = qu.items /\ r.disp = qu.disp
  BY GoodParts, WithItemsParts DEF Bumped
<1> HIDE DEF r
<1>2. Narrower(r, qu) /\ Open(r) \subseteq Open(qu)
  BY <1>1, SameDispatch
<1> QED
  BY <1>1, <1>2 DEF r

LEMMA ReservedEntries ==
    ASSUME NEW n \in Nat, NEW qu, Good(qu, n), qu.disp = NoItem, qu.items # <<>>
    PROVE  /\ Narrower(Reserved(qu), qu) /\ Open(Reserved(qu)) \subseteq Open(qu)
           /\ Reserved(qu).disp # NoItem /\ Reserved(qu).disp.id \in Open(qu)
<1> DEFINE t == Tail(qu.items)
           h == Head(qu.items)
           e == [h EXCEPT !.state = DispatchReserved, !.cursor = 0]
           r == Reserved(qu)
<1>1. OneMore(qu.items, t, 1) /\ h = qu.items[1]
  BY GoodParts, TailOneMore
<1>2. h \in Item /\ 1 \in DOMAIN qu.items
  BY <1>1, GoodParts, OneMoreItems
<1>3. e \in Item /\ e.id = h.id /\ e.op = h.op
  BY <1>2 DEF Item, DispatchReserved
<1>4. r.items = t /\ r.disp = e
  <2>1. t \in Seq(Item)
    BY <1>1, OneMoreItems
  <2> HIDE DEF t, e
  <2>2. Reserved(qu) = WithDispatch(qu, t, e)
    BY DEF Reserved, t, e, h
  <2> QED
    BY <1>3, <2>1, <2>2, GoodParts, WithDispatchParts
<1>5. e # NoItem
  BY <1>3, NoItemAssumption
<1>6. \A j \in DOMAIN t : \E k \in DOMAIN qu.items : t[j] = qu.items[k]
  BY <1>1, OneMoreItems
<1> HIDE DEF r, e, t, h
<1>7. Narrower(r, qu)
  <2>1. ASSUME NEW x, Among(x, r) PROVE \E y : Among(y, qu) /\ y.id = x.id /\ y.op = x.op
    <3>1. CASE x = e
      <4>1. Among(h, qu)
        BY <1>1, <1>2 DEF Among
      <4> QED
        BY <1>3, <3>1, <4>1
    <3>2. CASE x # e
      BY <1>4, <1>6, <2>1, <3>2 DEF Among
    <3> QED
      BY <3>1, <3>2
  <2> QED
    BY <2>1 DEF Narrower
<1>8. h.id \in Ids(qu.items) /\ Ids(t) \subseteq Ids(qu.items)
  BY <1>1, <1>2, <1>6 DEF Ids
<1> QED
  BY <1>3, <1>4, <1>5, <1>7, <1>8 DEF Open, r

LEMMA AttemptedEntries ==
    ASSUME NEW n \in Nat, NEW qu, Good(qu, n), qu.disp # NoItem, NEW cursor \in Nat
    PROVE  /\ Narrower(Attempted(qu, cursor), qu) /\ Open(Attempted(qu, cursor)) \subseteq Open(qu)
           /\ qu.disp.id \notin Open(Attempted(qu, cursor))
           /\ Current(Attempted(qu, cursor), qu.disp.id, qu.disp.op)
<1> DEFINE e == [qu.disp EXCEPT !.state = DispatchAttempted, !.cursor = cursor]
           r == Attempted(qu, cursor)
<1>1. e \in Item /\ e.id = qu.disp.id /\ e.op = qu.disp.op /\ e.state = DispatchAttempted
  BY GoodParts DEF Item, DispatchAttempted
<1>2. e # NoItem
  BY <1>1, NoItemAssumption
<1>3. r.items = qu.items /\ r.disp = e
  <2> HIDE DEF e
  <2>1. Attempted(qu, cursor) = WithDispatch(qu, qu.items, e)
    BY DEF Attempted, e
  <2>2. qu \in Queue /\ qu.items \in Seq(Item) /\ qu.disp \in Item
    BY GoodParts
  <2> QED
    BY <1>1, <2>1, <2>2, WithDispatchParts
<1>4. qu.disp.id \notin Ids(qu.items)
  BY GoodParts
<1> HIDE DEF r, e
<1>5. Narrower(r, qu)
  <2>1. ASSUME NEW x, Among(x, r) PROVE \E y : Among(y, qu) /\ y.id = x.id /\ y.op = x.op
    <3>1. CASE x = e
      BY <1>1, <3>1 DEF Among
    <3>2. CASE x # e
      BY <1>3, <2>1, <3>2 DEF Among
    <3> QED
      BY <3>1, <3>2
  <2> QED
    BY <2>1 DEF Narrower
<1>6. Open(r) = Ids(qu.items)
  BY <1>1, <1>3 DEF Open
<1> QED
  BY <1>1, <1>2, <1>3, <1>4, <1>5, <1>6 DEF Open, Current, Dispatching, r

LEMMA CompletedEntries ==
    ASSUME NEW n \in Nat, NEW qu, Good(qu, n), qu.disp # NoItem
    PROVE  Narrower(Completed(qu), qu) /\ Open(Completed(qu)) \subseteq Open(qu)
<1> DEFINE r == Completed(qu)
<1>1. r.items = qu.items /\ r.disp = NoItem
  BY GoodParts, WithDispatchParts DEF Completed
<1> HIDE DEF r
<1>2. \A x : Among(x, r) => Among(x, qu)
  BY <1>1 DEF Among
<1>3. Open(r) \subseteq Open(qu)
  BY <1>1 DEF Open
<1> QED
  BY <1>2, <1>3 DEF Narrower, r

LEMMA RestoredEntries ==
    ASSUME NEW n \in Nat, NEW qu, Good(qu, n), qu.disp # NoItem
    PROVE  Narrower(Restored(qu), qu) /\ Open(Restored(qu)) \subseteq Open(qu) \cup {qu.disp.id}
<1> DEFINE t == <<qu.disp>> \o qu.items
           r == Restored(qu)
<1>1. OneMore(t, qu.items, 1) /\ t[1] = qu.disp
  BY GoodParts, PrependOneMore
<1>2. r.items = t /\ r.disp = NoItem
  <2>1. t \in Seq(Item)
    BY <1>1, OneMoreItems
  <2> HIDE DEF t
  <2>2. Restored(qu) = WithDispatch(qu, t, NoItem)
    BY DEF Restored, t
  <2> QED
    BY <2>1, <2>2, GoodParts, WithDispatchParts
<1>3. \A k \in DOMAIN t : t[k] = qu.disp \/ \E j \in DOMAIN qu.items : qu.items[j] = t[k]
  BY <1>1, OneMoreItems
<1> HIDE DEF r, t
<1>4. \A x : Among(x, r) => Among(x, qu)
  BY <1>2, <1>3 DEF Among
<1>5. Open(r) \subseteq Open(qu) \cup {qu.disp.id}
  BY <1>2, <1>3 DEF Open, Ids
<1> QED
  BY <1>4, <1>5 DEF Narrower, r

-----------------------------------------------------------------------------
(***************************************************************************)
(* What a store step does to memory and to the files a stop may leave.     *)
(***************************************************************************)

\* Each queue a step leaves comes from one there was: it holds none but its
\* messages, only those of opened may be sent again, only those of gone left.
Shrinks(opened, gone) ==
    \A r \in Queues' : \E qu \in Queues :
        /\ Narrower(r, qu)
        /\ Open(r) \subseteq Open(qu) \cup opened
        /\ Held(qu) \ gone \subseteq Held(r)

LEMMA NarrowerSelf == \A qu : Narrower(qu, qu)
  BY DEF Narrower

LEMMA GoodGrows ==
    ASSUME NEW n \in Nat, NEW m \in Nat, n <= m, NEW qu, Good(qu, n)
    PROVE  Good(qu, m)
  BY DEF Good

LEMMA MemoryIsAQueue ==
    ASSUME Stored
    PROVE  q \in Queues /\ Good(q, lastId)
  BY DEF Stored, Queues, q

LEMMA StoreKept ==
    ASSUME UNCHANGED storeVars
    PROVE  Queues' = Queues /\ q' = q /\ Shrinks({}, {}) /\ (Stored /\ UNCHANGED lastId => Stored')
<1>1. Queues' = Queues /\ q' = q
  BY DEF storeVars, Queues, q
<1>2. Shrinks({}, {})
  BY <1>1, NarrowerSelf DEF Shrinks
<1>3. ASSUME Stored, UNCHANGED lastId PROVE Stored'
  BY <1>1, <1>3 DEF Stored, StoreTypeOK, storeVars
<1> QED
  BY <1>1, <1>2, <1>3

\* A restart loads a file that could be found before.
LEMMA StoreReloads ==
    ASSUME Stored, StoreRestart \/ StorePowerLoss, UNCHANGED lastId
    PROVE  Stored' /\ Shrinks({}, {}) /\ Queues' \subseteq Queues
<1>1. Queues' \subseteq Queues /\ StoreTypeOK'
  <2>1. CASE StoreRestart
    BY <2>1 DEF StoreRestart, Stored, StoreTypeOK, Queues
  <2>2. CASE StorePowerLoss
    <3>1. PICK img \in durable : mem' = img /\ disk' = img /\ durable' = {img}
      BY <2>2 DEF StorePowerLoss
    <3> QED
      BY <3>1 DEF Stored, StoreTypeOK, Queues
  <2> QED
    BY <2>1, <2>2
<1>2. Shrinks({}, {})
  BY <1>1, NarrowerSelf DEF Shrinks
<1> QED
  BY <1>1, <1>2 DEF Stored

\* A write, however it ends.
LEMMA StoreWrites ==
    ASSUME Stored, lastId' \in Nat, lastId <= lastId', NEW next, NEW o \in PersistOutcomes,
           Commit(Chat, next, o), Good(next, lastId')
    PROVE  /\ Stored' /\ Queues' \subseteq Queues \cup {next}
           /\ q' = IF o = "ok" THEN next ELSE q
           /\ o = "ok" => Queues' = {next}
<1> DEFINE img == [mem EXCEPT ![Chat] = next]
<1>1. next \in Queue /\ mem \in Image /\ disk \in Image /\ durable \in SUBSET Image /\ disk \in durable
  BY DEF Good, Stored, StoreTypeOK
<1>2. img \in Image /\ img[Chat] = next
  BY <1>1, ChatAssumption DEF Image
<1>3. /\ mem' = IF o = "ok" THEN img ELSE mem
      /\ disk' = IF o = "unwritten" THEN disk ELSE img
      /\ durable' = CASE o = "unwritten" -> durable
                      [] o = "renamed" -> durable \cup {img}
                      [] OTHER -> {img}
  BY DEF Commit
<1> HIDE DEF img
<1>4. StoreTypeOK' /\ mem' \in {mem, img} /\ durable' \subseteq durable \cup {img}
  BY <1>1, <1>2, <1>3 DEF StoreTypeOK, PersistOutcomes
<1>5. Queues' \subseteq Queues \cup {next}
  BY <1>2, <1>4 DEF Queues
<1>6. q' = IF o = "ok" THEN next ELSE q
  BY <1>2, <1>3 DEF q
<1>7. ASSUME o = "ok" PROVE Queues' = {next}
  BY <1>2, <1>3, <1>7 DEF Queues
<1>8. \A qu \in Queues' : Good(qu, lastId')
  BY <1>5, GoodGrows DEF Stored
<1> QED
  BY <1>4, <1>5, <1>6, <1>7, <1>8 DEF Stored

\* ... of a queue with no messages of its own.
LEMMA StoreRewrites ==
    ASSUME Stored, UNCHANGED lastId, NEW next, NEW o \in PersistOutcomes,
           Commit(Chat, next, o), Good(next, lastId), NEW opened, NEW gone,
           Narrower(next, q), Open(next) \subseteq Open(q) \cup opened,
           Held(q) \ gone \subseteq Held(next)
    PROVE  /\ Stored' /\ Shrinks(opened, gone)
           /\ q' = IF o = "ok" THEN next ELSE q
           /\ o = "ok" => Queues' = {next}
<1>1. lastId' \in Nat /\ lastId <= lastId' /\ Good(next, lastId')
  BY DEF Stored
<1>2. /\ Stored' /\ Queues' \subseteq Queues \cup {next}
      /\ q' = IF o = "ok" THEN next ELSE q
      /\ o = "ok" => Queues' = {next}
  BY <1>1, StoreWrites
<1>3. ASSUME NEW r \in Queues'
      PROVE  \E qu \in Queues : /\ Narrower(r, qu) /\ Open(r) \subseteq Open(qu) \cup opened
                                /\ Held(qu) \ gone \subseteq Held(r)
  <2>1. CASE r = next
    BY <2>1, MemoryIsAQueue
  <2>2. CASE r \in Queues
    BY <2>2, NarrowerSelf
  <2> QED
    BY <1>2, <2>1, <2>2
<1> QED
  BY <1>2, <1>3 DEF Shrinks

LEMMA StoreReserves ==
    ASSUME Stored, UNCHANGED lastId, NEW o \in PersistOutcomes, StoreBeginDispatch(Chat, o)
    PROVE  /\ Stored' /\ Shrinks({}, {})
           /\ IF o = "ok" THEN q'.disp # NoItem /\ q'.disp.id \in Open(q) ELSE q' = q
<1>1. q.disp = NoItem /\ q.items # <<>> /\ Commit(Chat, Reserved(q), o)
  BY DEF StoreBeginDispatch, q
<1>2. lastId \in Nat /\ Good(q, lastId)
  BY MemoryIsAQueue DEF Stored
<1>3. Good(Reserved(q), lastId) /\ Held(Reserved(q)) = Held(q)
  BY <1>1, <1>2, ReservedGood
<1>4. /\ Narrower(Reserved(q), q) /\ Open(Reserved(q)) \subseteq Open(q)
      /\ Reserved(q).disp # NoItem /\ Reserved(q).disp.id \in Open(q)
  BY <1>1, <1>2, ReservedEntries
<1>5. Open(Reserved(q)) \subseteq Open(q) \cup {} /\ Held(q) \ {} \subseteq Held(Reserved(q))
  BY <1>3, <1>4
<1>6. Stored' /\ Shrinks({}, {}) /\ q' = IF o = "ok" THEN Reserved(q) ELSE q
  BY <1>1, <1>3, <1>4, <1>5, StoreRewrites
<1> QED
  BY <1>4, <1>6

LEMMA StoreMarks ==
    ASSUME Stored, UNCHANGED lastId, NEW o \in PersistOutcomes, NEW id, NEW cursor \in Nat,
           StoreMarkAttempted(Chat, id, cursor, o)
    PROVE  /\ Stored' /\ Shrinks({}, {})
           /\ IF o = "ok" THEN Current(q', id, q.disp.op) /\ Barred(id)' ELSE q' = q
<1> DEFINE next == Attempted(q, cursor)
<1>1. q.disp # NoItem /\ q.disp.id = id /\ Commit(Chat, next, o)
  BY DEF StoreMarkAttempted, Dispatching, q
<1>2. lastId \in Nat /\ Good(q, lastId)
  BY MemoryIsAQueue DEF Stored
<1>3. Good(next, lastId) /\ Held(next) = Held(q)
  BY <1>1, <1>2, AttemptedGood
<1>4. /\ Narrower(next, q) /\ Open(next) \subseteq Open(q)
      /\ id \notin Open(next) /\ Current(next, id, q.disp.op)
  BY <1>1, <1>2, AttemptedEntries
<1> HIDE DEF next
<1>5. Open(next) \subseteq Open(q) \cup {} /\ Held(q) \ {} \subseteq Held(next)
  BY <1>3, <1>4
<1>6. /\ Stored' /\ Shrinks({}, {}) /\ q' = IF o = "ok" THEN next ELSE q
      /\ o = "ok" => Queues' = {next}
  BY <1>1, <1>3, <1>4, <1>5, StoreRewrites
<1>7. o = "ok" => Barred(id)'
  BY <1>4, <1>6 DEF Barred
<1> QED
  BY <1>4, <1>6, <1>7

LEMMA StoreCompletes ==
    ASSUME Stored, UNCHANGED lastId, NEW o \in PersistOutcomes, NEW id,
           StoreCompleteDispatch(Chat, id, o)
    PROVE  Stored' /\ Shrinks({}, {id}) /\ (o # "ok" => q' = q)
<1> DEFINE next == Completed(q)
<1>1. q.disp # NoItem /\ q.disp.id = id /\ Commit(Chat, next, o)
  BY DEF StoreCompleteDispatch, Dispatching, q
<1>2. lastId \in Nat /\ Good(q, lastId)
  BY MemoryIsAQueue DEF Stored
<1>3. Good(next, lastId) /\ Held(next) = Held(q) \ {id}
  BY <1>1, <1>2, CompletedGood
<1>4. Narrower(next, q) /\ Open(next) \subseteq Open(q)
  BY <1>1, <1>2, CompletedEntries
<1> HIDE DEF next
<1>5. Open(next) \subseteq Open(q) \cup {} /\ Held(q) \ {id} \subseteq Held(next)
  BY <1>3, <1>4
<1>6. Stored' /\ Shrinks({}, {id}) /\ q' = IF o = "ok" THEN next ELSE q
  BY <1>1, <1>3, <1>4, <1>5, StoreRewrites
<1> QED
  BY <1>6

LEMMA StoreRestores ==
    ASSUME Stored, UNCHANGED lastId, NEW o \in PersistOutcomes, NEW id,
           StoreRestoreDispatch(Chat, id, o)
    PROVE  Stored' /\ Shrinks({id}, {})
<1> DEFINE next == Restored(q)
<1>1. q.disp # NoItem /\ q.disp.id = id /\ Commit(Chat, next, o)
  BY DEF StoreRestoreDispatch, Dispatching, q
<1>2. lastId \in Nat /\ Good(q, lastId)
  BY MemoryIsAQueue DEF Stored
<1>3. Good(next, lastId) /\ Held(next) = Held(q)
  BY <1>1, <1>2, RestoredGood
<1>4. Narrower(next, q) /\ Open(next) \subseteq Open(q) \cup {id}
  BY <1>1, <1>2, RestoredEntries
<1> HIDE DEF next
<1>5. Held(q) \ {} \subseteq Held(next)
  BY <1>3
<1> QED
  BY <1>1, <1>3, <1>4, <1>5, StoreRewrites

\* An edit keeps the dispatch; one refused before the rename changes nothing.
LEMMA StoreEdits ==
    ASSUME Stored, UNCHANGED lastId, NEW next, NEW o \in PersistOutcomes, Commit(Chat, next, o),
           Good(next, lastId), NEW gone, Held(q) \ gone \subseteq Held(next),
           Narrower(next, q), Open(next) \subseteq Open(q), next.disp = q.disp
    PROVE  /\ Stored' /\ Shrinks({}, gone) /\ q'.disp = q.disp
           /\ o = "unwritten" => Shrinks({}, {})
<1>1. Open(next) \subseteq Open(q) \cup {}
  OBVIOUS
<1>2. Stored' /\ Shrinks({}, gone) /\ q' = IF o = "ok" THEN next ELSE q
  BY <1>1, StoreRewrites
<1>3. ASSUME o = "unwritten" PROVE Shrinks({}, {})
  <2>1. UNCHANGED storeVars
    BY <1>3 DEF Commit, storeVars
  <2> QED
    BY <2>1, StoreKept
<1> QED
  BY <1>2, <1>3

\* Append puts a message behind the others.
LEMMA StoreAppends ==
    ASSUME Stored, lastId' = lastId + 1, NEW o \in PersistOutcomes, NEW op \in Ops,
           StoreAppend(Chat, NewItem(lastId + 1, op), o)
    PROVE  /\ Stored' /\ q'.disp = q.disp
           /\ o = "ok" => Queues' = {q'} /\ lastId + 1 \in Held(q')
           /\ \A r \in Queues' : \E qu \in Queues :
                /\ \A x : Among(x, r) => Among(x, qu) \/ x = NewItem(lastId + 1, op)
                /\ Open(r) \subseteq Open(qu) \cup {lastId + 1}
                /\ Held(qu) \subseteq Held(r)
<1> DEFINE item == NewItem(lastId + 1, op)
           next == Appended(q, item)
<1>1. lastId \in Nat /\ lastId' \in Nat /\ lastId <= lastId' /\ Good(q, lastId)
  BY MemoryIsAQueue DEF Stored
<1>2. item \in Item /\ item.id = lastId + 1
  BY <1>1 DEF NewItem, Item, Ops
<1>3. Commit(Chat, next, o)
  BY DEF StoreAppend, q
<1> HIDE DEF item
<1>4. Good(next, lastId') /\ Held(next) = Held(q) \cup {lastId + 1}
  BY <1>1, <1>2, AppendedGood
<1>5. /\ \A x : Among(x, next) => x = item \/ Among(x, q)
      /\ Open(next) \subseteq Open(q) \cup {lastId + 1} /\ next.disp = q.disp
  BY <1>1, <1>2, AppendedEntries
<1> HIDE DEF next
<1>6. /\ Stored' /\ Queues' \subseteq Queues \cup {next}
      /\ q' = IF o = "ok" THEN next ELSE q
      /\ o = "ok" => Queues' = {next}
  BY <1>1, <1>3, <1>4, StoreWrites
<1>7. ASSUME NEW r \in Queues'
      PROVE  \E qu \in Queues :
                /\ \A x : Among(x, r) => Among(x, qu) \/ x = item
                /\ Open(r) \subseteq Open(qu) \cup {lastId + 1}
                /\ Held(qu) \subseteq Held(r)
  <2>1. CASE r = next
    BY <1>4, <1>5, <2>1, MemoryIsAQueue
  <2>2. CASE r \in Queues
    BY <2>2
  <2> QED
    BY <1>6, <2>1, <2>2
<1> QED
  BY <1>4, <1>5, <1>6, <1>7 DEF item

-----------------------------------------------------------------------------
(***************************************************************************)
(* Steps that many actions share.                                          *)
(***************************************************************************)

LEMMA FreeParts == Free.pc = "free" /\ DOMAIN Free = SeqFields /\ Free.cursor = 0
  BY DEF Free, SeqFields

LEMMA NotFlushing == {"free", "append"} \cap Flushing = {}
  BY DEF Flushing

\* The user's messages after a store step.
LEMMA HeldStep ==
    ASSUME Stored, Stored', UNCHANGED lastId, Faithful, Accounted,
           NEW opened, NEW gone, Shrinks(opened, gone), owed' \subseteq owed,
           \A op : Said(op) => Said(op)',
           \A p \in owed' : p[1] \in gone => Said(p[2])'
    PROVE  Faithful' /\ Accounted'
<1>1. Faithful'
  <2>1. \A p \in owed' : p[1] \in 1..lastId'
    BY DEF Faithful
  <2>2. ASSUME NEW r \in Queues', NEW x, Among(x, r), NEW p \in owed', p[1] = x.id
        PROVE  p[2] = x.op
    <3>1. PICK qu \in Queues : Narrower(r, qu)
      BY DEF Shrinks
    <3>2. PICK y : Among(y, qu) /\ y.id = x.id /\ y.op = x.op
      BY <2>2, <3>1 DEF Narrower
    <3> QED
      BY <2>2, <3>2 DEF Faithful
  <2> QED
    BY <2>1, <2>2 DEF Faithful
<1>2. ASSUME NEW p \in owed', ~Said(p[2])', NEW r \in Queues' PROVE p[1] \in Held(r)
  <2>1. PICK qu \in Queues : Held(qu) \ gone \subseteq Held(r)
    BY DEF Shrinks
  <2>2. p[1] \in Held(qu) /\ p[1] \notin gone
    BY <1>2 DEF Accounted
  <2> QED
    BY <2>1, <2>2
<1> QED
  BY <1>1, <1>2 DEF Accounted

LEMMA SameSaid ==
    ASSUME UNCHANGED transcript
    PROVE  /\ \A op : Said(op)' <=> Said(op)
           /\ UNCHANGED wire => \A id : Fresh(id)' <=> Fresh(id)
  BY DEF Said, Fresh

\* What may be sent again after a store step.
LEMMA OnceStep ==
    ASSUME Untouched, Single, UNCHANGED <<wire, transcript, lastId>>,
           NEW opened, NEW gone, Shrinks(opened, gone), \A id \in opened : Fresh(id)
    PROVE  /\ Untouched' /\ Single'
           /\ \A id : Barred(id) /\ id \notin opened => Barred(id)'
<1>1. \A id : Fresh(id)' <=> Fresh(id)
  BY SameSaid
<1>2. Single'
  BY DEF Single
<1>3. ASSUME NEW r \in Queues', NEW id \in Open(r) PROVE Fresh(id)'
  <2>1. PICK qu \in Queues : Open(r) \subseteq Open(qu) \cup opened
    BY DEF Shrinks
  <2> QED
    BY <1>1, <2>1 DEF Untouched
<1>4. ASSUME NEW id, Barred(id), id \notin opened, NEW r \in Queues' PROVE id \notin Open(r)
  <2>1. PICK qu \in Queues : Open(r) \subseteq Open(qu) \cup opened
    BY DEF Shrinks
  <2> QED
    BY <1>4, <2>1 DEF Barred
<1> QED
  BY <1>2, <1>3, <1>4 DEF Untouched, Barred

\* flushHead returns without a request written.
LEMMA Returns ==
    ASSUME DispatchInv, seq.pc \in Flushing, seq' = Free,
           UNCHANGED <<calls, lastCall, wire, transcript, owed, lastId, quarantined>>, Stored',
           NEW opened, NEW gone, Shrinks(opened, gone), \A p \in owed : p[1] \in gone => Said(p[2])
    PROVE  /\ DispatchInv'
           /\ OnceInv /\ (\A id \in opened : Fresh(id)) => OnceInv'
<1>1. Delivering' /\ Linked'
  BY FreeParts, NotFlushing DEF DispatchInv, Delivering, Linked, OneCall
<1>2. Answers'
  BY SameSaid DEF DispatchInv, Answers
<1>3. Faithful' /\ Accounted'
  BY SameSaid, HeldStep DEF DispatchInv
<1>4. ASSUME OnceInv, \A id \in opened : Fresh(id) PROVE OnceInv'
  <2>1. Untouched' /\ Single'
    BY <1>4, OnceStep DEF OnceInv
  <2>2. Unquarantined'
    BY <1>4 DEF OnceInv, Unquarantined
  <2>3. Careful'
    BY FreeParts DEF DispatchInv, Delivering, Careful
  <2> QED
    BY <2>1, <2>2, <2>3 DEF OnceInv
<1> QED
  BY <1>1, <1>2, <1>3, <1>4 DEF DispatchInv

\* A call for a queued message is over.
LEMMA Ends ==
    ASSUME DispatchInv, NEW c \in calls, c.item # 0, calls' = calls \ {c},
           UNCHANGED <<seq, lastCall, wire, transcript, owed, lastId, quarantined>>, Stored',
           NEW opened, NEW gone, Shrinks(opened, gone), \A p \in owed : p[1] \in gone => Said(p[2])
    PROVE  /\ DispatchInv'
           /\ OnceInv /\ (\A id \in opened : Fresh(id)) => OnceInv'
<1>1. seq.pc \notin Flushing /\ \A d \in calls' : d.item = 0
  BY DEF DispatchInv, Delivering, OneCall
<1>2. Delivering' /\ Linked'
  BY <1>1 DEF DispatchInv, Delivering, Linked, OneCall
<1>3. Answers'
  BY SameSaid DEF DispatchInv, Answers
<1>4. Faithful' /\ Accounted'
  BY SameSaid, HeldStep DEF DispatchInv
<1>5. ASSUME OnceInv, \A id \in opened : Fresh(id) PROVE OnceInv'
  <2>1. Untouched' /\ Single'
    BY <1>5, OnceStep DEF OnceInv
  <2>2. Unquarantined'
    BY <1>5 DEF OnceInv, Unquarantined
  <2>3. Careful'
    BY <1>1 DEF Flushing, Careful
  <2> QED
    BY <2>1, <2>2, <2>3 DEF OnceInv
<1> QED
  BY <1>2, <1>3, <1>4, <1>5 DEF DispatchInv

\* Nothing about a delivery changes but the answers, the marks of the calls
\* and what the engine holds.
LEMMA Reshapes ==
    ASSUME DispatchInv, UNCHANGED <<storeVars, lastId, owed, guard, seq, lastCall>>,
           NEW f, calls' = {f[c] : c \in calls},
           \A c \in calls : /\ DOMAIN f[c] = CallFields /\ f[c].id = c.id /\ f[c].op = c.op
                            /\ f[c].item = c.item /\ (f[c].res = "ok" => c.res = "ok" \/ Said(c.op)'),
           wire' \subseteq wire, transcript' \in Seq(Message), \A op : Said(op) => Said(op)'
    PROVE  DispatchInv' /\ Queues' = Queues
<1>1. Queues' = Queues /\ q' = q /\ Shrinks({}, {}) /\ Stored'
  BY StoreKept DEF DispatchInv
<1>2. Faithful' /\ Accounted'
  BY <1>1, HeldStep DEF DispatchInv
<1>3. Answers'
  BY DEF DispatchInv, Answers
<1>4. Linked'
  BY DEF DispatchInv, Linked
<1>5. Delivering'
  <2>1. OneCall(calls')
    <3>1. ASSUME NEW d \in calls', NEW e \in calls', d.item # 0, e.item # 0 PROVE d = e
      <4>1. PICK c \in calls : d = f[c] /\ c.item # 0
        BY <3>1
      <4>2. PICK b \in calls : e = f[b] /\ b.item # 0
        BY <3>1
      <4>3. c = b
        BY <4>1, <4>2 DEF DispatchInv, Delivering, OneCall
      <4> QED
        BY <4>1, <4>2, <4>3
    <3> QED
      BY <3>1 DEF OneCall
  <2> QED
    BY <1>1, <2>1 DEF DispatchInv, Delivering
<1> QED
  BY <1>1, <1>2, <1>3, <1>4, <1>5 DEF DispatchInv

\* ... and a refusal is only answered for what was not and will not be applied.
LEMMA OnceReshapes ==
    ASSUME OnceInv, UNCHANGED <<seq, lastId>>, Queues' = Queues, quarantined' = FALSE,
           NEW f, calls' = {f[c] : c \in calls},
           \A c \in calls : /\ f[c].item = c.item /\ f[c].tainted = c.tainted
                            /\ f[c].res \in {"busy", "rejected", "unloaded"} /\ c.item # 0
                                    => f[c].res = c.res \/ Fresh(c.item)',
           Single', \A id : Fresh(id) => Fresh(id)'
    PROVE  OnceInv'
<1>1. Untouched' /\ \A id : Barred(id)' <=> Barred(id)
  BY DEF OnceInv, Untouched, Barred
<1>2. Unquarantined'
  BY DEF OnceInv, Unquarantined
<1>3. Careful'
  <2>1. \A c \in calls' : c.item # 0 => Barred(c.item)'
    BY <1>1 DEF OnceInv, Careful
  <2>2. ASSUME NEW d \in calls', d.item # 0, d.res \in {"busy", "rejected", "unloaded"}
        PROVE  Fresh(d.item)'
    <3>1. PICK c \in calls : d = f[c]
      OBVIOUS
    <3>2. c.item # 0 /\ d.item = c.item /\ (d.res = c.res \/ Fresh(c.item)')
      BY <2>2, <3>1
    <3>3. d.res = c.res => Fresh(c.item)
      BY <2>2, <3>2 DEF OnceInv, Careful
    <3> QED
      BY <3>2, <3>3
  <2>3. /\ (seq.pc \in {"checkpoint", "mark", "send"} => Fresh(seq.item.id))'
        /\ (seq.pc = "send" => Barred(seq.item.id))'
    BY <1>1 DEF OnceInv, Careful
  <2> QED
    BY <2>1, <2>2, <2>3 DEF Careful
<1> QED
  BY <1>1, <1>2, <1>3 DEF OnceInv

\* One more request, for a message nobody else will send.
LEMMA OneMoreRequest ==
    ASSUME Stored, Untouched, Single, UNCHANGED <<storeVars, lastId, transcript>>,
           NEW r, wire' = wire \cup {r}, r.item \in 0..lastId,
           r.item # 0 => Fresh(r.item) /\ Barred(r.item)
    PROVE  /\ Untouched' /\ Single' /\ \A id : Barred(id)' <=> Barred(id)
           /\ \A id : id # r.item /\ Fresh(id) => Fresh(id)'
<1>1. Queues' = Queues
  BY StoreKept
<1>2. ASSUME NEW id, id # r.item, Fresh(id) PROVE Fresh(id)'
  BY <1>2 DEF Fresh
<1>3. Untouched'
  <2>1. ASSUME NEW qu \in Queues, NEW id \in Open(qu) PROVE id # r.item /\ Fresh(id)
    <3>1. id \in 1..lastId
      BY GoodParts DEF Stored
    <3> QED
      BY <3>1 DEF Untouched, Barred, Stored
  <2> QED
    BY <1>1, <1>2, <2>1 DEF Untouched
<1>4. Single'
  BY DEF Single, Fresh
<1> QED
  BY <1>1, <1>2, <1>3, <1>4 DEF Barred

-----------------------------------------------------------------------------
(***************************************************************************)
(* The actions, by what they change.                                       *)
(***************************************************************************)

LEMMA StepQuiet ==
    ASSUME DispatchInv,
           UNCHANGED <<storeVars, guard, seq, calls, lastCall, wire, transcript, lastId, owed, quarantined>>
    PROVE  DispatchInv' /\ (OnceInv => OnceInv')
<1>1. Queues' = Queues /\ q' = q /\ Stored'
  BY StoreKept DEF DispatchInv
<1>2. (\A op : Said(op)' <=> Said(op)) /\ (\A id : Fresh(id)' <=> Fresh(id))
  BY SameSaid
<1>3. Delivering' /\ Linked'
  BY <1>1 DEF DispatchInv, Delivering, Linked
<1>4. Answers' /\ Faithful' /\ Accounted'
  BY <1>1, <1>2 DEF DispatchInv, Answers, Faithful, Accounted
<1>5. OnceInv => OnceInv'
  BY <1>1, <1>2 DEF OnceInv, Unquarantined, Untouched, Barred, Careful, Single
<1> QED
  BY <1>1, <1>3, <1>4, <1>5 DEF DispatchInv

\* The sequencer's owner goes on; store, calls and engine stay.
LEMMA StepSequencer ==
    ASSUME DispatchInv,
           UNCHANGED <<storeVars, calls, lastCall, wire, transcript, lastId, owed, quarantined>>,
           DOMAIN seq' = SeqFields, seq'.cursor \in Nat, seq'.pc = "append" => seq'.op \in Ops,
           Delivering',
           OnceInv /\ seq'.pc \in {"checkpoint", "mark", "send"} => Fresh(seq'.item.id),
           seq'.pc # "send"
    PROVE  DispatchInv' /\ (OnceInv => OnceInv')
<1>1. Queues' = Queues /\ q' = q /\ Stored'
  BY StoreKept DEF DispatchInv
<1>2. (\A op : Said(op)' <=> Said(op)) /\ (\A id : Fresh(id)' <=> Fresh(id))
  BY SameSaid
<1>3. Linked'
  BY <1>1 DEF DispatchInv, Linked
<1>4. Answers' /\ Faithful' /\ Accounted'
  BY <1>1, <1>2 DEF DispatchInv, Answers, Faithful, Accounted
<1>5. OnceInv => OnceInv'
  BY <1>1, <1>2 DEF OnceInv, Unquarantined, Untouched, Barred, Careful, Single
<1> QED
  BY <1>1, <1>3, <1>4, <1>5 DEF DispatchInv

LEMMA StepEvents ==
    ASSUME DispatchInv, FlushSkip \/ Spontaneous \/ EventStep
    PROVE  DispatchInv' /\ (OnceInv => OnceInv')
<1>1. UNCHANGED <<storeVars, guard, seq, calls, lastCall, wire, transcript, lastId, owed, quarantined>>
  <2>1. CASE FlushSkip
    BY <2>1 DEF FlushSkip, sessionVars, engineVars, boundVars, clientVars
  <2>2. CASE Spontaneous
    BY <2>2 DEF Spontaneous, sessionVars, clientVars
  <2>3. CASE EventStep
    BY <2>3 DEF EventStep, AgentStart, AgentSettled, CompactStart, CompactEnd, Observing, clientVars
  <2> QED
    BY <2>1, <2>2, <2>3
<1> QED
  BY <1>1, StepQuiet

LEMMA StepSendToQueue ==
    ASSUME DispatchInv, NEW op \in Ops, SendToQueue(op)
    PROVE  DispatchInv' /\ (OnceInv => OnceInv')
<1>1. /\ UNCHANGED <<storeVars, guard, calls, lastCall, wire, transcript, lastId, owed, quarantined>>
      /\ seq' = [Free EXCEPT !.pc = "append", !.op = op, !.drain = HasBacklog(Chat) /\ Idle]
  BY DEF SendToQueue, sessionVars, engineVars
<1>2. DOMAIN seq' = SeqFields /\ seq'.pc = "append" /\ seq'.op = op /\ seq'.cursor = 0
  BY <1>1, FreeParts DEF SeqFields
<1>3. Delivering'
  BY <1>1, <1>2, NotFlushing, StoreKept DEF DispatchInv, Delivering
<1> QED
  BY <1>1, <1>2, <1>3, StepSequencer

\* flushHead gives up before it changed anything.
LEMMA StepGivesUp ==
    ASSUME DispatchInv, HistoryFails \/ ReconcileAbsent \/ FlushSendAbsorbed
    PROVE  DispatchInv' /\ (OnceInv => OnceInv')
<1>1. /\ UNCHANGED <<storeVars, calls, lastCall, wire, transcript, owed, lastId, quarantined>>
      /\ seq.pc \in Flushing /\ seq' = Free
  BY DEF HistoryFails, ReconcileAbsent, FlushSendAbsorbed, Park, Return, Flushing, sessionVars,
         engineVars, boundVars, clientVars
<1>2. Stored' /\ Shrinks({}, {})
  BY <1>1, StoreKept DEF DispatchInv
<1> QED
  BY <1>1, <1>2, Returns

LEMMA StepFlushResume ==
    ASSUME DispatchInv, FlushResume
    PROVE  DispatchInv' /\ (OnceInv => OnceInv')
<1>1. /\ UNCHANGED <<storeVars, calls, lastCall, wire, transcript, lastId, owed, quarantined>>
      /\ guard = 0 /\ guard' = q.disp.id /\ q.disp # NoItem
      /\ seq' = [Free EXCEPT !.pc = IF AttemptedFound THEN "reconcile" ELSE "checkpoint",
                             !.item = q.disp, !.was = TRUE]
  BY DEF FlushResume, FlushReady, sessionVars, engineVars, boundVars, clientVars
<1>2. /\ DOMAIN seq' = SeqFields /\ seq'.pc = (IF AttemptedFound THEN "reconcile" ELSE "checkpoint")
      /\ seq'.cursor = 0 /\ seq'.item = q.disp
  BY <1>1, FreeParts DEF SeqFields
<1>3. \A c \in calls : c.item = 0
  BY <1>1 DEF DispatchInv, Delivering
<1>4. Delivering'
  BY <1>1, <1>2, <1>3, StoreKept DEF DispatchInv, Delivering, Current, Dispatching
<1>5. ASSUME OnceInv, ~AttemptedFound PROVE Fresh(q.disp.id)
  <2>1. q.disp.id \in Open(q)
    BY <1>1, <1>5 DEF AttemptedFound, Open
  <2> QED
    BY <1>5, <2>1, MemoryIsAQueue DEF DispatchInv, OnceInv, Untouched
<1> QED
  BY <1>1, <1>2, <1>4, <1>5, StepSequencer

LEMMA StepCheckpoint ==
    ASSUME DispatchInv, Checkpoint
    PROVE  DispatchInv' /\ (OnceInv => OnceInv')
<1>1. /\ UNCHANGED <<storeVars, guard, calls, lastCall, wire, transcript, lastId, owed, quarantined>>
      /\ seq.pc = "checkpoint" /\ seq' = [seq EXCEPT !.pc = "mark", !.cursor = Len(transcript)]
  BY DEF Checkpoint, sessionVars, engineVars, boundVars, clientVars
<1>2. Len(transcript) \in Nat
  BY DEF DispatchInv, Answers
<1>3. DOMAIN seq' = SeqFields /\ seq'.pc = "mark" /\ seq'.cursor \in Nat /\ seq'.item = seq.item
  BY <1>1, <1>2 DEF DispatchInv, Linked, SeqFields
<1>4. Delivering'
  BY <1>1, <1>3, StoreKept DEF DispatchInv, Delivering, Flushing
<1>5. OnceInv => Fresh(seq.item.id)
  BY <1>1 DEF OnceInv, Careful
<1> QED
  BY <1>1, <1>3, <1>4, <1>5, StepSequencer

\* The dispatch of q carries what was acknowledged.
LEMMA DispatchOwed ==
    ASSUME DispatchInv, NEW id, NEW op, Current(q, id, op), NEW p \in owed, p[1] = id
    PROVE  p[2] = op
<1>1. q.disp # NoItem /\ q.disp.id = id /\ q.disp.op = op /\ Among(q.disp, q)
  BY DEF Current, Dispatching, Among
<1> QED
  BY <1>1, MemoryIsAQueue DEF DispatchInv, Faithful

LEMMA StepReconcileFound ==
    ASSUME DispatchInv, NEW o \in PersistOutcomes, ReconcileFound(o)
    PROVE  DispatchInv' /\ (OnceInv => OnceInv')
<1>1. /\ UNCHANGED <<calls, lastCall, wire, transcript, lastId, owed, quarantined>>
      /\ seq.pc \in Flushing /\ seq' = Free /\ Evidence(seq.item)
      /\ StoreCompleteDispatch(Chat, seq.item.id, o)
  BY DEF ReconcileFound, Park, Return, Flushing, engineVars, clientVars
<1>2. Stored' /\ Shrinks({}, {seq.item.id})
  BY <1>1, StoreCompletes DEF DispatchInv
<1>3. Said(seq.item.op)
  BY <1>1 DEF Evidence, Said
<1>4. ASSUME NEW p \in owed, p[1] \in {seq.item.id} PROVE Said(p[2])
  <2>1. Current(q, seq.item.id, seq.item.op)
    BY <1>1 DEF DispatchInv, Delivering
  <2> QED
    BY <1>3, <1>4, <2>1, DispatchOwed
<1> QED
  BY <1>1, <1>2, <1>4, Returns

LEMMA StepFlushSendFails ==
    ASSUME DispatchInv, NEW o \in PersistOutcomes, FlushSendRefused(o) \/ FlushSendDuplicate(o)
    PROVE  DispatchInv' /\ (OnceInv => OnceInv')
<1>1. PICK err : FlushSendFails(err, o)
  BY DEF FlushSendRefused, FlushSendDuplicate
<1>2. seq.pc = "send"
  BY DEF FlushSendRefused, FlushSendDuplicate
<1>3. /\ UNCHANGED <<calls, lastCall, wire, transcript, lastId, owed, quarantined>>
      /\ seq.pc \in Flushing /\ seq' = Free
  BY <1>1, <1>2 DEF FlushSendFails, Park, Return, Flushing, engineVars, clientVars
<1>4. Stored' /\ \E opened : opened \subseteq {seq.item.id} /\ Shrinks(opened, {})
  <2>1. CASE err = "uncertain"
    BY <1>1, <1>3, <2>1, StoreKept DEF FlushSendFails, DispatchInv
  <2>2. CASE err # "uncertain"
    BY <1>1, <1>3, <2>2, StoreRestores DEF FlushSendFails, DispatchInv
  <2> QED
    BY <2>1, <2>2
<1>5. PICK opened : opened \subseteq {seq.item.id} /\ Shrinks(opened, {})
  BY <1>4
<1>6. OnceInv => \A id \in opened : Fresh(id)
  BY <1>2, <1>5 DEF OnceInv, Careful
<1> QED
  BY <1>3, <1>4, <1>5, <1>6, Returns

\* The store changes in the sequencer's turn; calls and engine stay.
LEMMA StepStore ==
    ASSUME DispatchInv, UNCHANGED <<calls, lastCall, wire, transcript, lastId, quarantined>>,
           Stored', NEW gone, Shrinks({}, gone), owed' \subseteq owed,
           \A p \in owed' : p[1] \in gone => Said(p[2]),
           DOMAIN seq' = SeqFields, seq'.cursor \in Nat, seq'.pc = "append" => seq'.op \in Ops,
           Delivering',
           OnceInv /\ seq'.pc \in {"checkpoint", "mark", "send"} => Fresh(seq'.item.id),
           (seq.pc = "send" => Barred(seq.item.id))'
    PROVE  DispatchInv' /\ (OnceInv => OnceInv')
<1>1. (\A op : Said(op)' <=> Said(op)) /\ (\A id : Fresh(id)' <=> Fresh(id))
  BY SameSaid
<1>2. Faithful' /\ Accounted'
  BY <1>1, HeldStep DEF DispatchInv
<1>3. Linked' /\ Answers'
  BY <1>1 DEF DispatchInv, Linked, Answers
<1>4. ASSUME OnceInv PROVE OnceInv'
  <2>1. Untouched' /\ Single' /\ \A id : Barred(id) => Barred(id)'
    BY <1>4, OnceStep DEF OnceInv
  <2>2. Careful'
    BY <1>1, <1>4, <2>1 DEF OnceInv, Careful
  <2>3. Unquarantined'
    BY <1>4 DEF OnceInv, Unquarantined
  <2> QED
    BY <2>1, <2>2, <2>3 DEF OnceInv
<1> QED
  BY <1>2, <1>3, <1>4 DEF DispatchInv

LEMMA StepFlushReserve ==
    ASSUME DispatchInv, NEW o \in PersistOutcomes, FlushReserve(o)
    PROVE  DispatchInv' /\ (OnceInv => OnceInv')
<1>1. /\ UNCHANGED <<calls, lastCall, wire, transcript, lastId, owed, quarantined>>
      /\ seq.pc = "free" /\ guard = 0 /\ StoreBeginDispatch(Chat, o)
      /\ IF o = "ok"
         THEN /\ guard' = q'.disp.id
              /\ seq' = [Free EXCEPT !.pc = "checkpoint", !.item = q'.disp]
         ELSE UNCHANGED <<guard, seq>>
  BY DEF FlushReserve, FlushReady, sessionVars, engineVars, clientVars, q
<1>2. /\ Stored' /\ Shrinks({}, {})
      /\ IF o = "ok" THEN q'.disp # NoItem /\ q'.disp.id \in Open(q) ELSE q' = q
  BY <1>1, StoreReserves DEF DispatchInv
<1>3. \A c \in calls : c.item = 0
  BY <1>1 DEF DispatchInv, Delivering
<1>4. CASE o = "ok"
  <2>1. DOMAIN seq' = SeqFields /\ seq'.pc = "checkpoint" /\ seq'.item = q'.disp /\ seq'.cursor = 0
    BY <1>1, <1>4, FreeParts DEF SeqFields
  <2>2. Delivering'
    BY <1>1, <1>2, <1>3, <1>4, <2>1 DEF DispatchInv, Delivering, Current, Dispatching
  <2>3. OnceInv => Fresh(q'.disp.id)
    BY <1>2, <1>4, MemoryIsAQueue DEF DispatchInv, OnceInv, Untouched
  <2>4. (seq.pc = "send" => Barred(seq.item.id))'
    BY <2>1
  <2> QED
    BY <1>1, <1>2, <2>1, <2>2, <2>3, <2>4, StepStore
<1>5. CASE o # "ok"
  <2>1. Delivering' /\ UNCHANGED seq
    BY <1>1, <1>2, <1>5 DEF DispatchInv, Delivering
  <2>2. DOMAIN seq' = SeqFields /\ seq'.cursor \in Nat /\ seq'.pc = "free"
    BY <1>1, <2>1 DEF DispatchInv, Linked
  <2>3. (seq.pc = "send" => Barred(seq.item.id))'
    BY <2>2
  <2> QED
    BY <1>1, <1>2, <2>1, <2>2, <2>3, StepStore
<1> QED
  BY <1>4, <1>5

LEMMA StepMark ==
    ASSUME DispatchInv, NEW o \in PersistOutcomes, Mark(o)
    PROVE  DispatchInv' /\ (OnceInv => OnceInv')
<1>1. /\ UNCHANGED <<calls, lastCall, wire, transcript, lastId, owed, quarantined>>
      /\ seq.pc = "mark" /\ StoreMarkAttempted(Chat, seq.item.id, seq.cursor, o)
      /\ IF o = "ok"
         THEN seq' = [seq EXCEPT !.pc = "send", !.item = q'.disp] /\ UNCHANGED guard
         ELSE seq' = Free
  BY DEF Mark, Park, Return, sessionVars, engineVars, clientVars, q
<1>2. seq.cursor \in Nat /\ seq.pc \in Flushing /\ guard = seq.item.id
      /\ Current(q, seq.item.id, seq.item.op) /\ \A c \in calls : c.item = 0
  BY <1>1 DEF DispatchInv, Linked, Delivering, Flushing
<1>3. PICK id : id = seq.item.id
  OBVIOUS
<1>4. PICK cursor \in Nat : cursor = seq.cursor
  BY <1>2
<1>5. StoreMarkAttempted(Chat, id, cursor, o)
  BY <1>1, <1>3, <1>4
<1>6. /\ Stored' /\ Shrinks({}, {})
      /\ IF o = "ok" THEN Current(q', id, q.disp.op) /\ Barred(id)' ELSE q' = q
  BY <1>1, <1>5, StoreMarks DEF DispatchInv
<1>7. CASE o = "ok"
  <2>1. /\ DOMAIN seq' = SeqFields /\ seq'.pc = "send" /\ seq'.item = q'.disp
        /\ seq'.cursor = seq.cursor /\ UNCHANGED guard
    BY <1>1, <1>7 DEF DispatchInv, Linked, SeqFields
  <2>2. seq'.item.id = id
    BY <1>6, <1>7, <2>1 DEF Current, Dispatching
  <2>3. Delivering'
    BY <1>1, <1>2, <1>3, <1>6, <1>7, <2>1, <2>2 DEF DispatchInv, Delivering, Current, Dispatching
  <2>4. OnceInv => Fresh(seq'.item.id)
    BY <1>1, <1>3, <2>2 DEF OnceInv, Careful
  <2>5. (seq.pc = "send" => Barred(seq.item.id))'
    BY <1>6, <1>7, <2>2
  <2> QED
    BY <1>1, <1>2, <1>6, <2>1, <2>3, <2>4, <2>5, StepStore
<1>8. CASE o # "ok"
  BY <1>1, <1>2, <1>6, <1>8, Returns
<1> QED
  BY <1>7, <1>8

\* chat.queue.remove, .move and .clear, done or refused.
LEMMA StepEdits ==
    ASSUME DispatchInv, NEW o, Edit(o), NEW gone, Stored', Shrinks({}, gone), q'.disp = q.disp,
           o = "unwritten" => Shrinks({}, {}),
           TakesOut(o, gone) \/ (gone = {} /\ UNCHANGED owed)
    PROVE  DispatchInv' /\ (OnceInv => OnceInv')
<1>1. UNCHANGED <<calls, lastCall, wire, transcript, lastId, quarantined, guard, seq>> /\ seq.pc = "free"
  BY DEF Edit, sessionVars, engineVars
<1>2. Delivering'
  BY <1>1 DEF DispatchInv, Delivering, Current, Dispatching
<1>3. DOMAIN seq' = SeqFields /\ seq'.cursor \in Nat /\ seq'.pc = "free"
  BY <1>1 DEF DispatchInv, Linked
<1>4. (seq.pc = "send" => Barred(seq.item.id))'
  BY <1>3
<1>5. CASE o = "unwritten"
  <2>1. owed' = owed /\ Shrinks({}, {})
    BY <1>5 DEF TakesOut
  <2> QED
    BY <1>1, <1>2, <1>3, <1>4, <2>1, StepStore
<1>6. CASE o # "unwritten"
  <2>1. owed' \subseteq owed /\ \A p \in owed' : p[1] \notin gone
    BY <1>6 DEF TakesOut
  <2> QED
    BY <1>1, <1>2, <1>3, <1>4, <2>1, StepStore
<1> QED
  BY <1>5, <1>6

LEMMA StepQueueEdits ==
    ASSUME DispatchInv, EditStep
    PROVE  DispatchInv' /\ (OnceInv => OnceInv')
<1>1. Stored /\ lastId \in Nat /\ Good(q, lastId)
  BY MemoryIsAQueue DEF DispatchInv, Stored
<1>2. ASSUME NEW o \in PersistOutcomes, NEW id \in 1..lastId, QueueRemove(id, o)
      PROVE  DispatchInv' /\ (OnceInv => OnceInv')
  <2>1. /\ Edit(o) /\ UNCHANGED lastId /\ Queued(q.items, id) /\ Commit(Chat, Removed(q, id), o)
        /\ TakesOut(o, {id})
    BY <1>2 DEF QueueRemove, StoreRemove, Edit, q
  <2>2. Good(Removed(q, id), lastId) /\ Held(q) \ {id} \subseteq Held(Removed(q, id))
    BY <1>1, <2>1, RemovedGood
  <2>3. /\ Narrower(Removed(q, id), q) /\ Open(Removed(q, id)) \subseteq Open(q)
        /\ Removed(q, id).disp = q.disp
    BY <1>1, <2>1, RemovedEntries
  <2>4. /\ Stored' /\ Shrinks({}, {id}) /\ q'.disp = q.disp
        /\ o = "unwritten" => Shrinks({}, {})
    BY <1>1, <2>1, <2>2, <2>3, StoreEdits
  <2> QED
    BY <2>1, <2>4, StepEdits
<1>3. ASSUME NEW o \in PersistOutcomes, NEW id \in 1..lastId, NEW to \in 0..(MaxItems - 1),
             QueueMove(id, to, o)
      PROVE  DispatchInv' /\ (OnceInv => OnceInv')
  <2>1. /\ Edit(o) /\ UNCHANGED lastId /\ Queued(q.items, id) /\ Commit(Chat, Moved(q, id, to), o)
        /\ UNCHANGED owed
    BY <1>3 DEF QueueMove, StoreMove, Edit, q
  <2>2. to \in Int
    BY BoundAssumption
  <2>3. Good(Moved(q, id, to), lastId) /\ Held(q) \ {} \subseteq Held(Moved(q, id, to))
    BY <1>1, <2>1, <2>2, MovedGood
  <2>4. /\ Narrower(Moved(q, id, to), q) /\ Open(Moved(q, id, to)) \subseteq Open(q)
        /\ Moved(q, id, to).disp = q.disp
    BY <1>1, <2>1, <2>2, MovedEntries
  <2>5. Stored' /\ Shrinks({}, {}) /\ q'.disp = q.disp
    BY <1>1, <2>1, <2>3, <2>4, StoreEdits
  <2> QED
    BY <2>1, <2>5, StepEdits
<1>4. ASSUME NEW o \in PersistOutcomes, QueueClear(o)
      PROVE  DispatchInv' /\ (OnceInv => OnceInv')
  <2>1. PICK gone : gone = Ids(q.items)
    OBVIOUS
  <2>2. /\ Edit(o) /\ UNCHANGED lastId /\ Commit(Chat, Cleared(q), o) /\ TakesOut(o, gone)
    BY <1>4, <2>1 DEF QueueClear, StoreClear, Edit, q
  <2>3. Good(Cleared(q), lastId) /\ Held(q) \ gone \subseteq Held(Cleared(q))
    BY <1>1, <2>1, ClearedGood
  <2>4. Narrower(Cleared(q), q) /\ Open(Cleared(q)) \subseteq Open(q) /\ Cleared(q).disp = q.disp
    BY <1>1, ClearedEntries
  <2>5. /\ Stored' /\ Shrinks({}, gone) /\ q'.disp = q.disp
        /\ o = "unwritten" => Shrinks({}, {})
    BY <1>1, <2>2, <2>3, <2>4, StoreEdits
  <2> QED
    BY <2>2, <2>5, StepEdits
<1>5. ASSUME NEW o \in PersistOutcomes, QueueClearEngine(o)
      PROVE  DispatchInv' /\ (OnceInv => OnceInv')
  <2>1. Edit(o) /\ UNCHANGED lastId /\ Commit(Chat, Bumped(q), o) /\ UNCHANGED owed
    BY <1>5 DEF QueueClearEngine, StoreBump, Edit, q
  <2>2. Good(Bumped(q), lastId) /\ Held(q) \ {} \subseteq Held(Bumped(q))
    BY <1>1, BumpedGood
  <2>3. Narrower(Bumped(q), q) /\ Open(Bumped(q)) \subseteq Open(q) /\ Bumped(q).disp = q.disp
    BY <1>1, BumpedEntries
  <2>4. Stored' /\ Shrinks({}, {}) /\ q'.disp = q.disp
    BY <1>1, <2>1, <2>2, <2>3, StoreEdits
  <2> QED
    BY <2>1, <2>4, StepEdits
<1> QED
  BY <1>2, <1>3, <1>4, <1>5 DEF EditStep

LEMMA StepSendAppend ==
    ASSUME DispatchInv, NEW o \in PersistOutcomes, SendAppend(o)
    PROVE  DispatchInv' /\ (OnceInv => OnceInv')
<1>1. /\ UNCHANGED <<guard, calls, lastCall, wire, transcript, quarantined>>
      /\ seq.pc = "append" /\ seq' = Free /\ lastId' = lastId + 1
      /\ owed' = IF o = "ok" THEN owed \cup {<<lastId + 1, seq.op>>} ELSE owed
      /\ StoreAppend(Chat, NewItem(lastId + 1, seq.op), o)
  BY DEF SendAppend, sessionVars, engineVars
<1>2. PICK op \in Ops : op = seq.op
  BY <1>1 DEF DispatchInv, Linked
<1>3. PICK n \in Nat : n = lastId
  BY DEF DispatchInv, Stored
<1>4. /\ Stored' /\ q'.disp = q.disp
      /\ o = "ok" => Queues' = {q'} /\ n + 1 \in Held(q')
      /\ \A r \in Queues' : \E qu \in Queues :
            /\ \A x : Among(x, r) => Among(x, qu) \/ x = NewItem(n + 1, op)
            /\ Open(r) \subseteq Open(qu) \cup {n + 1}
            /\ Held(qu) \subseteq Held(r)
  BY <1>1, <1>2, <1>3, StoreAppends DEF DispatchInv
<1>5. (\A x : Said(x)' <=> Said(x)) /\ (\A id : Fresh(id)' <=> Fresh(id))
  BY <1>1, SameSaid
<1>6. Delivering' /\ Linked'
  BY <1>1, <1>4, FreeParts, NotFlushing
     DEF DispatchInv, Delivering, Linked, Current, Dispatching
<1>7. Answers'
  BY <1>1, <1>5 DEF DispatchInv, Answers
<1>8. owed' \subseteq owed \cup {<<n + 1, op>>} /\ (o # "ok" => owed' = owed)
  BY <1>1, <1>2, <1>3
<1>9. \A qu \in Queues : \A x : Among(x, qu) => x.id \in 1..n
  <2>1. ASSUME NEW qu \in Queues, NEW x, Among(x, qu) PROVE x.id \in 1..n
    <3>1. Good(qu, n)
      BY <1>3 DEF DispatchInv, Stored
    <3> QED
      BY <2>1, <3>1, GoodParts DEF Among
  <2> QED
    BY <2>1
<1>10. Faithful'
  <2>1. \A p \in owed' : p[1] \in 1..lastId'
    BY <1>1, <1>3, <1>8 DEF DispatchInv, Faithful
  <2>2. ASSUME NEW r \in Queues', NEW x, Among(x, r), NEW p \in owed', p[1] = x.id
        PROVE  p[2] = x.op
    <3>1. PICK qu \in Queues : \A y : Among(y, r) => Among(y, qu) \/ y = NewItem(n + 1, op)
      BY <1>4
    <3>2. CASE Among(x, qu)
      <4>1. p[1] # n + 1
        BY <1>9, <2>2, <3>2
      <4> QED
        BY <1>8, <2>2, <3>2, <4>1 DEF DispatchInv, Faithful
    <3>3. CASE x = NewItem(n + 1, op)
      <4>1. x.id = n + 1 /\ x.op = op
        BY <3>3 DEF NewItem
      <4>2. p \notin owed
        BY <1>3, <2>2, <4>1 DEF DispatchInv, Faithful
      <4> QED
        BY <1>8, <4>1, <4>2
    <3> QED
      BY <2>2, <3>1, <3>2, <3>3
  <2> QED
    BY <2>1, <2>2 DEF Faithful
<1>11. Accounted'
  <2>1. ASSUME NEW p \in owed', ~Said(p[2]), NEW r \in Queues' PROVE p[1] \in Held(r)
    <3>1. CASE p \in owed
      BY <1>4, <2>1, <3>1 DEF DispatchInv, Accounted
    <3>2. CASE p \notin owed
      <4>1. p[1] = n + 1 /\ o = "ok"
        BY <1>8, <3>2
      <4> QED
        BY <1>4, <4>1
    <3> QED
      BY <3>1, <3>2
  <2> QED
    BY <1>5, <2>1 DEF Accounted
<1>12. ASSUME OnceInv PROVE OnceInv'
  <2>1. Fresh(n + 1)
    BY <1>3, <1>12 DEF OnceInv, Single, Fresh
  <2>2. Untouched'
    <3>1. ASSUME NEW r \in Queues', NEW id \in Open(r) PROVE Fresh(id)
      BY <1>4, <1>12, <2>1 DEF OnceInv, Untouched
    <3> QED
      BY <1>5, <3>1 DEF Untouched
  <2>3. Single'
    BY <1>1, <1>3, <1>12 DEF OnceInv, Single
  <2>4. Unquarantined'
    BY <1>1, <1>12 DEF OnceInv, Unquarantined
  <2>5. ASSUME NEW c \in calls, c.item # 0 PROVE Barred(c.item)'
    <3>1. c.item \in 1..n
      BY <1>3, <2>5, GoodParts, MemoryIsAQueue DEF DispatchInv, Delivering, Current, Dispatching
    <3>2. Barred(c.item)
      BY <1>12, <2>5 DEF OnceInv, Careful
    <3> QED
      BY <1>1, <1>4, <3>1, <3>2 DEF Barred
  <2>6. Careful'
    BY <1>1, <1>5, <1>12, <2>5, FreeParts DEF OnceInv, Careful
  <2> QED
    BY <2>2, <2>3, <2>4, <2>6 DEF OnceInv
<1> QED
  BY <1>4, <1>6, <1>7, <1>10, <1>11, <1>12 DEF DispatchInv

-----------------------------------------------------------------------------
(* Completions. *)

LEMMA StepCompleteAccepted ==
    ASSUME DispatchInv, NEW c \in calls, NEW o \in PersistOutcomes, CompleteAccepted(c, o)
    PROVE  DispatchInv' /\ (OnceInv => OnceInv')
<1>1. /\ UNCHANGED <<seq, lastCall, wire, transcript, owed, lastId, quarantined>>
      /\ c.item # 0 /\ c.res = "ok" /\ calls' = calls \ {c}
  BY DEF CompleteAccepted, engineVars, clientVars
<1>2. Current(q, c.item, c.op) /\ Said(c.op)
  BY <1>1 DEF DispatchInv, Delivering, Answers
<1>3. StoreCompleteDispatch(Chat, c.item, o)
  BY <1>2 DEF CompleteAccepted, Current
<1>4. Stored' /\ Shrinks({}, {c.item})
  BY <1>1, <1>3, StoreCompletes DEF DispatchInv
<1>5. ASSUME NEW p \in owed, p[1] \in {c.item} PROVE Said(p[2])
  BY <1>2, <1>5, DispatchOwed
<1> QED
  BY <1>1, <1>4, <1>5, Ends

LEMMA StepCompleteUncertain ==
    ASSUME DispatchInv, NEW c \in calls, CompleteUncertain(c)
    PROVE  DispatchInv' /\ (OnceInv => OnceInv')
<1>1. /\ UNCHANGED <<storeVars, seq, lastCall, wire, transcript, owed, lastId, quarantined>>
      /\ c.item # 0 /\ calls' = calls \ {c}
  BY DEF CompleteUncertain, engineVars, boundVars, clientVars
<1>2. Stored' /\ Shrinks({}, {})
  BY <1>1, StoreKept DEF DispatchInv
<1> QED
  BY <1>1, <1>2, Ends

LEMMA StepCompleteRefused ==
    ASSUME DispatchInv, NEW c \in calls, NEW o \in PersistOutcomes, CompleteRefused(c, o)
    PROVE  DispatchInv' /\ (OnceInv => OnceInv')
<1>1. /\ UNCHANGED <<seq, lastCall, wire, transcript, owed, lastId, quarantined>>
      /\ c.item # 0 /\ Definite(c) /\ calls' = calls \ {c}
  BY DEF CompleteRefused, engineVars, clientVars
<1>2. StoreRestoreDispatch(Chat, c.item, o)
  BY <1>1 DEF CompleteRefused, DispatchInv, Delivering, Current
<1>3. Stored' /\ Shrinks({c.item}, {})
  BY <1>1, <1>2, StoreRestores DEF DispatchInv
<1>4. OnceInv => \A id \in {c.item} : Fresh(id)
  BY <1>1 DEF OnceInv, Unquarantined, Careful, Definite
<1> QED
  BY <1>1, <1>3, <1>4, Ends

LEMMA StepCompleteDirect ==
    ASSUME DispatchInv, NEW c \in calls, CompleteDirect(c)
    PROVE  DispatchInv' /\ (OnceInv => OnceInv')
<1>1. /\ UNCHANGED <<storeVars, guard, seq, lastCall, wire, transcript, owed, lastId, quarantined>>
      /\ calls' = calls \ {c}
  BY DEF CompleteDirect, engineVars, boundVars, clientVars
<1>2. Queues' = Queues /\ q' = q /\ Stored'
  BY <1>1, StoreKept DEF DispatchInv
<1>3. (\A op : Said(op)' <=> Said(op)) /\ (\A id : Fresh(id)' <=> Fresh(id))
  BY <1>1, SameSaid
<1>4. Delivering' /\ Linked'
  BY <1>1, <1>2 DEF DispatchInv, Delivering, Linked, OneCall
<1>5. Answers' /\ Faithful' /\ Accounted'
  BY <1>1, <1>2, <1>3 DEF DispatchInv, Answers, Faithful, Accounted
<1>6. OnceInv => OnceInv'
  BY <1>1, <1>2, <1>3 DEF OnceInv, Unquarantined, Untouched, Barred, Careful, Single
<1> QED
  BY <1>2, <1>4, <1>5, <1>6 DEF DispatchInv

-----------------------------------------------------------------------------
(* Requests. *)

\* Call e is made and its request r written; the calls of S stay.
LEMMA Requests ==
    ASSUME DispatchInv, UNCHANGED <<storeVars, guard, transcript, owed, lastId, quarantined>>,
           seq' \in {seq, Free}, lastCall' = lastCall + 1,
           NEW S \in SUBSET calls, NEW e, calls' = S \cup {e},
           DOMAIN e = CallFields, e.id = lastCall + 1, e.op \in Ops, e.item \in Nat, e.res = "none",
           NEW r, wire' = wire \cup {r}, r.call = lastCall + 1, r.op = e.op, r.item = e.item,
           e.item # 0 => /\ guard = e.item /\ Current(q, e.item, e.op)
                         /\ seq'.pc \notin Flushing /\ \A d \in S : d.item = 0
    PROVE  /\ DispatchInv'
           /\ OnceInv /\ ~e.tainted /\ (e.item # 0 => Fresh(e.item) /\ Barred(e.item)) => OnceInv'
<1>1. Queues' = Queues /\ q' = q /\ Stored'
  BY StoreKept DEF DispatchInv
<1>2. \A op : Said(op)' <=> Said(op)
  BY SameSaid
<1>3. Linked'
  BY FreeParts DEF DispatchInv, Linked
<1>4. Delivering'
  <2>1. (seq.pc \in Flushing)' => /\ seq' = seq /\ e.item = 0
    BY FreeParts, NotFlushing
  <2>2. OneCall(calls')
    BY DEF DispatchInv, Delivering, OneCall
  <2> QED
    BY <1>1, <2>1, <2>2 DEF DispatchInv, Delivering
<1>5. Answers' /\ Faithful' /\ Accounted'
  BY <1>1, <1>2 DEF DispatchInv, Answers, Faithful, Accounted
<1>6. ASSUME OnceInv, ~e.tainted, e.item # 0 => Fresh(e.item) /\ Barred(e.item) PROVE OnceInv'
  <2>1. r.item \in 0..lastId
    <3>1. e.item # 0 => e.item \in 1..lastId
      BY GoodParts, MemoryIsAQueue DEF DispatchInv, Stored, Current, Dispatching
    <3> QED
      BY <3>1 DEF DispatchInv, Stored
  <2>2. /\ Untouched' /\ Single' /\ \A id : Barred(id)' <=> Barred(id)
        /\ \A id : id # r.item /\ Fresh(id) => Fresh(id)'
    BY <1>6, <2>1, OneMoreRequest DEF DispatchInv, OnceInv
  <2>3. Unquarantined'
    BY <1>6 DEF OnceInv, Unquarantined
  <2>4. (seq.pc \in {"checkpoint", "mark", "send"} => Fresh(seq.item.id))'
        /\ (seq.pc = "send" => Barred(seq.item.id))'
    <3>1. CASE seq'.pc \in Flushing
      <4>1. seq' = seq /\ seq.pc \in Flushing /\ r.item = 0
        BY <3>1, FreeParts, NotFlushing
      <4>2. seq.item.id # 0
        BY <4>1, GoodParts, MemoryIsAQueue DEF DispatchInv, Delivering, Stored, Current, Dispatching
      <4> QED
        BY <1>6, <2>2, <4>1, <4>2 DEF OnceInv, Careful
    <3>2. CASE seq'.pc \notin Flushing
      BY <3>2 DEF Flushing
    <3> QED
      BY <3>1, <3>2
  <2>5. ASSUME NEW d \in calls', d.item # 0
        PROVE  /\ Barred(d.item)'
               /\ d.res \in {"busy", "rejected", "unloaded"} => Fresh(d.item)'
    <3>1. CASE d = e
      BY <1>6, <2>2, <2>5, <3>1
    <3>2. CASE d # e
      BY <1>6, <2>2, <2>5, <3>2 DEF OnceInv, Careful
    <3> QED
      BY <3>1, <3>2
  <2>6. Careful'
    BY <2>4, <2>5 DEF Careful
  <2> QED
    BY <2>2, <2>3, <2>6 DEF OnceInv
<1> QED
  BY <1>1, <1>3, <1>4, <1>5, <1>6 DEF DispatchInv

LEMMA NewCallParts ==
    ASSUME NEW op, NEW item, NEW steer
    PROVE  LET e == NewCall(op, item, steer)
           IN /\ DOMAIN e = CallFields /\ e.id = lastCall + 1 /\ e.op = op /\ e.item = item
              /\ e.res = "none" /\ ~e.tainted
  BY DEF NewCall, CallFields

LEMMA WrittenParts ==
    ASSUME NEW op, NEW item, NEW steer, Written(op, item, steer)
    PROVE  /\ lastCall' = lastCall + 1
           /\ \E r : wire' = wire \cup {r} /\ r.call = lastCall + 1 /\ r.op = op /\ r.item = item
<1> DEFINE r == [call |-> lastCall + 1, op |-> op, item |-> item, steer |-> steer]
<1>1. r.call = lastCall + 1 /\ r.op = op /\ r.item = item
  OBVIOUS
<1>2. lastCall' = lastCall + 1 /\ wire' = wire \cup {r}
  BY DEF Written
<1> HIDE DEF r
<1> QED
  BY <1>1, <1>2

LEMMA StepSendDirect ==
    ASSUME DispatchInv, NEW op \in Ops, NEW steer \in BOOLEAN, SendDirect(op, steer)
    PROVE  DispatchInv' /\ (OnceInv => OnceInv')
<1>1. /\ UNCHANGED <<storeVars, guard, seq, transcript, owed, lastId, quarantined>>
      /\ calls' = calls \cup {NewCall(op, 0, steer)} /\ Written(op, 0, steer)
  BY DEF SendDirect
<1>2. PICK e : e = NewCall(op, 0, steer)
  OBVIOUS
<1>3. /\ DOMAIN e = CallFields /\ e.id = lastCall + 1 /\ e.op = op /\ e.item = 0
      /\ e.res = "none" /\ ~e.tainted
  BY <1>2, NewCallParts
<1>4. PICK r : wire' = wire \cup {r} /\ r.call = lastCall + 1 /\ r.op = op /\ r.item = 0
  BY <1>1, WrittenParts
<1>5. lastCall' = lastCall + 1 /\ calls' = calls \cup {e} /\ calls \in SUBSET calls
  BY <1>1, <1>2, WrittenParts
<1>6. seq' \in {seq, Free} /\ e.op \in Ops /\ e.item \in Nat /\ r.op = e.op /\ r.item = e.item
  BY <1>1, <1>3, <1>4
<1> QED
  BY <1>1, <1>3, <1>4, <1>5, <1>6, Requests

LEMMA StepFlushSend ==
    ASSUME DispatchInv, FlushSend
    PROVE  DispatchInv' /\ (OnceInv => OnceInv')
<1> DEFINE op == seq.item.op
           id == seq.item.id
<1>1. /\ UNCHANGED <<storeVars, guard, transcript, owed, lastId, quarantined>>
      /\ seq.pc = "send" /\ seq' = Free
      /\ calls' = calls \cup {NewCall(op, id, FALSE)} /\ Written(op, id, FALSE)
  BY DEF FlushSend, Return, boundVars, clientVars
<1>2. guard = id /\ Current(q, id, op) /\ \A c \in calls : c.item = 0
  BY <1>1 DEF DispatchInv, Delivering, Flushing
<1>3. id \in Nat /\ op \in Ops
  BY <1>2, MemoryIsAQueue, QueueParts
     DEF DispatchInv, Current, Dispatching, Good, Item, Ops
<1>4. OnceInv => Fresh(id) /\ Barred(id)
  BY <1>1 DEF OnceInv, Careful
<1> HIDE DEF op, id
<1>5. PICK e : e = NewCall(op, id, FALSE)
  OBVIOUS
<1>6. /\ DOMAIN e = CallFields /\ e.id = lastCall + 1 /\ e.op = op /\ e.item = id
      /\ e.res = "none" /\ ~e.tainted
  BY <1>5 DEF NewCall, CallFields
<1>7. PICK r : wire' = wire \cup {r} /\ r.call = lastCall + 1 /\ r.op = op /\ r.item = id
  <2>1. \E no : Written(op, id, no)
    BY <1>1, Zenon
  <2> QED
    BY <2>1, WrittenParts
<1>8. lastCall' = lastCall + 1 /\ calls' = calls \cup {e} /\ calls \in SUBSET calls
  BY <1>1, <1>5, WrittenParts
<1>9. /\ seq' \in {seq, Free} /\ e.op \in Ops /\ e.item \in Nat /\ r.op = e.op /\ r.item = e.item
      /\ seq'.pc \notin Flushing
  BY <1>1, <1>3, <1>6, <1>7, FreeParts, NotFlushing
<1>10. /\ e.item # 0 => /\ guard = e.item /\ Current(q, e.item, e.op)
                        /\ seq'.pc \notin Flushing /\ \A d \in calls : d.item = 0
       /\ OnceInv => (e.item # 0 => Fresh(e.item) /\ Barred(e.item))
  BY <1>2, <1>4, <1>6, <1>9
<1> QED
  BY <1>1, <1>6, <1>7, <1>8, <1>9, <1>10, Requests

LEMMA StepCompleteBySteering ==
    ASSUME DispatchInv, NEW c \in calls, CompleteBySteering(c)
    PROVE  DispatchInv' /\ (OnceInv => OnceInv')
<1>1. PICK e : e = [c EXCEPT !.id = lastCall + 1, !.steer = TRUE, !.res = "none"]
  OBVIOUS
<1>2. /\ UNCHANGED <<storeVars, guard, seq, transcript, owed, lastId, quarantined>>
      /\ c.res = "busy" /\ Written(c.op, c.item, TRUE) /\ calls' = (calls \ {c}) \cup {e}
  BY <1>1 DEF CompleteBySteering, Steers, boundVars, clientVars
<1>3. DOMAIN c = CallFields /\ c.op \in Ops /\ c.item \in Nat
  BY DEF DispatchInv, Linked
<1>4. /\ DOMAIN e = CallFields /\ e.id = lastCall + 1 /\ e.op = c.op /\ e.item = c.item
      /\ e.res = "none" /\ e.tainted = c.tainted
  BY <1>1, <1>3 DEF CallFields
<1>5. PICK r : wire' = wire \cup {r} /\ r.call = lastCall + 1 /\ r.op = c.op /\ r.item = c.item
  <2>1. \E yes : Written(c.op, c.item, yes)
    BY <1>2, Zenon
  <2> QED
    BY <2>1, WrittenParts
<1>6. lastCall' = lastCall + 1 /\ calls \ {c} \in SUBSET calls
  BY <1>2, WrittenParts
<1>7. seq' \in {seq, Free} /\ e.op \in Ops /\ e.item \in Nat /\ r.op = e.op /\ r.item = e.item
  BY <1>2, <1>3, <1>4, <1>5
<1>8. e.item # 0 => /\ guard = e.item /\ Current(q, e.item, e.op)
                    /\ seq'.pc \notin Flushing /\ \A d \in calls \ {c} : d.item = 0
  BY <1>2, <1>4 DEF DispatchInv, Delivering, OneCall
<1>9. OnceInv => ~e.tainted /\ (e.item # 0 => Fresh(e.item) /\ Barred(e.item))
  BY <1>2, <1>4 DEF OnceInv, Unquarantined, Careful
<1> QED
  BY <1>2, <1>4, <1>5, <1>6, <1>7, <1>8, <1>9, Requests

\* What LoseCalls makes of a call.
Lost(c) == IF c.res \in {"none", "rejected", "busy"} THEN [c EXCEPT !.res = "lost"] ELSE c

LEMMA LostParts ==
    ASSUME NEW c, DOMAIN c = CallFields
    PROVE  /\ DOMAIN Lost(c) = CallFields /\ Lost(c).id = c.id /\ Lost(c).op = c.op
           /\ Lost(c).item = c.item /\ Lost(c).tainted = c.tainted
           /\ Lost(c).res \in {c.res, "lost"}
  BY DEF Lost, CallFields

LEMMA StepFlushSendBreaks ==
    ASSUME DispatchInv, FlushSendBreaks
    PROVE  DispatchInv' /\ (OnceInv => OnceInv')
<1> DEFINE op == seq.item.op
           id == seq.item.id
<1>1. /\ UNCHANGED <<storeVars, transcript, owed, lastId, quarantined>>
      /\ seq.pc = "send" /\ seq' = Free /\ calls' = {Lost(c) : c \in calls}
      /\ Written(op, id, FALSE) \/ UNCHANGED <<wire, lastCall>>
  BY DEF FlushSendBreaks, Park, Return, LoseCalls, Lost, clientVars
<1>2. Current(q, id, op) /\ \A c \in calls : c.item = 0
  BY <1>1 DEF DispatchInv, Delivering, Flushing
<1>3. id \in Nat /\ op \in Ops /\ id \in 1..lastId
  BY <1>2, MemoryIsAQueue, QueueParts, GoodParts
     DEF DispatchInv, Stored, Current, Dispatching, Good, Item, Ops
<1>4. OnceInv => Fresh(id) /\ Barred(id)
  BY <1>1 DEF OnceInv, Careful
<1> HIDE DEF op, id
<1>5. \A d \in calls' : \E c \in calls : /\ DOMAIN d = CallFields /\ d.id = c.id /\ d.op = c.op
                                         /\ d.item = c.item /\ d.tainted = c.tainted
                                         /\ d.res \in {c.res, "lost"}
  BY <1>1, LostParts DEF DispatchInv, Linked
<1>6. \A d \in calls' : d.item = 0
  BY <1>2, <1>5
<1>7. Queues' = Queues /\ q' = q /\ Stored'
  BY <1>1, StoreKept DEF DispatchInv
<1>8. \A x : Said(x)' <=> Said(x)
  BY <1>1, SameSaid
<1>9. Delivering'
  BY <1>1, <1>6, FreeParts, NotFlushing DEF Delivering, OneCall
<1>10. Linked'
  <2>1. CASE UNCHANGED <<wire, lastCall>>
    BY <1>1, <1>5, <2>1, FreeParts DEF DispatchInv, Linked
  <2>2. CASE Written(op, id, FALSE)
    <3>1. PICK r : wire' = wire \cup {r} /\ r.call = lastCall + 1 /\ r.op = op /\ r.item = id
      <4>1. \E no : Written(op, id, no)
        BY <2>2, Zenon
      <4> QED
        BY <4>1, WrittenParts
    <3>2. lastCall' = lastCall + 1
      BY <2>2, WrittenParts
    <3> QED
      BY <1>1, <1>3, <1>5, <3>1, <3>2, FreeParts DEF DispatchInv, Linked
  <2> QED
    BY <1>1, <2>1, <2>2
<1>11. Answers' /\ Faithful' /\ Accounted'
  BY <1>1, <1>5, <1>7, <1>8 DEF DispatchInv, Answers, Faithful, Accounted
<1>12. ASSUME OnceInv PROVE OnceInv'
  <2>1. Untouched' /\ Single'
    <3>1. CASE UNCHANGED wire
      BY <1>1, <1>7, <1>12, <3>1, SameSaid DEF OnceInv, Untouched, Single
    <3>2. CASE Written(op, id, FALSE)
      <4>1. PICK r : wire' = wire \cup {r} /\ r.item = id
        BY <3>2, WrittenParts
      <4> QED
        BY <1>1, <1>3, <1>4, <1>12, <4>1, OneMoreRequest DEF DispatchInv, Stored, OnceInv
    <3> QED
      BY <1>1, <3>1, <3>2
  <2>2. Unquarantined'
    BY <1>1, <1>5, <1>12 DEF OnceInv, Unquarantined
  <2>3. Careful'
    BY <1>1, <1>6, FreeParts DEF Careful
  <2> QED
    BY <2>1, <2>2, <2>3 DEF OnceInv
<1> QED
  BY <1>7, <1>9, <1>10, <1>11, <1>12 DEF DispatchInv

-----------------------------------------------------------------------------
(* The engine's answers, losses and recovery. *)

\* What Answer makes of a call.
Answered(c, r, res) == IF c.id = r.call /\ c.res = "none" THEN [c EXCEPT !.res = res] ELSE c

LEMMA AnsweredParts ==
    ASSUME NEW c, DOMAIN c = CallFields, NEW r, NEW res
    PROVE  /\ DOMAIN Answered(c, r, res) = CallFields /\ Answered(c, r, res).id = c.id
           /\ Answered(c, r, res).op = c.op /\ Answered(c, r, res).item = c.item
           /\ Answered(c, r, res).tainted = c.tainted
           /\ Answered(c, r, res).res = c.res \/ (c.id = r.call /\ Answered(c, r, res).res = res)
  BY DEF Answered, CallFields

\* The new message of the transcript.
LEMMA TranscriptGrows ==
    ASSUME transcript \in Seq(Message), NEW m \in Message, transcript' = Append(transcript, m)
    PROVE  /\ transcript' \in Seq(Message) /\ Len(transcript) + 1 \in DOMAIN transcript'
           /\ transcript'[Len(transcript) + 1] = m
           /\ \A i \in DOMAIN transcript : i \in DOMAIN transcript' /\ transcript'[i] = transcript[i]
           /\ \A i \in DOMAIN transcript' : i = Len(transcript) + 1 \/ i \in DOMAIN transcript
           /\ Len(transcript) + 1 \notin DOMAIN transcript
           /\ Said(m.op)' /\ \A op : Said(op) => Said(op)'
<1>1. /\ transcript' \in Seq(Message) /\ Len(transcript) + 1 \in DOMAIN transcript'
      /\ transcript'[Len(transcript) + 1] = m
      /\ \A i \in DOMAIN transcript : i \in DOMAIN transcript' /\ transcript'[i] = transcript[i]
      /\ \A i \in DOMAIN transcript' : i = Len(transcript) + 1 \/ i \in DOMAIN transcript
      /\ Len(transcript) + 1 \notin DOMAIN transcript
  OBVIOUS
<1> QED
  BY <1>1 DEF Said

LEMMA StepDecide ==
    ASSUME DispatchInv, DecideStep
    PROVE  DispatchInv' /\ (OnceInv => OnceInv')
<1>1. PICK r \in wire : Accept(r) \/ Busy(r) \/ \E res \in {"rejected", "unloaded"} : Refuse(r, res)
  BY DEF DecideStep
<1>2. PICK res : /\ Answer(r, res)
                 /\ \/ res = "ok" /\ transcript' = Append(transcript, [op |-> r.op, item |-> r.item])
                    \/ res # "ok" /\ UNCHANGED transcript
  BY <1>1 DEF Accept, Busy, Refuse
<1>3. /\ UNCHANGED <<storeVars, lastId, owed, guard, seq, lastCall, quarantined>> /\ wire' = wire \ {r}
  BY <1>1 DEF Accept, Busy, Refuse, Decide, sessionVars, clientVars
<1>4. r.op \in Ops /\ r.item \in Nat /\ transcript \in Seq(Message)
  BY DEF DispatchInv, Linked, Answers
<1>5. PICK f : f = [c \in calls |-> Answered(c, r, res)]
  OBVIOUS
<1>6. calls' = {f[c] : c \in calls}
  BY <1>2, <1>5 DEF Answer, Answered
<1>7. \A c \in calls : /\ DOMAIN f[c] = CallFields /\ f[c].id = c.id /\ f[c].op = c.op
                       /\ f[c].item = c.item /\ f[c].tainted = c.tainted
                       /\ f[c].res = c.res \/ (c.id = r.call /\ f[c].res = res)
  BY <1>5, AnsweredParts DEF DispatchInv, Linked
<1>8. \A c \in calls : c.id = r.call => r.op = c.op /\ r.item = c.item
  BY DEF DispatchInv, Linked
<1>9. PICK m : m = [op |-> r.op, item |-> r.item]
  OBVIOUS
<1>10. m \in Message /\ m.op = r.op /\ m.item = r.item
  BY <1>4, <1>9 DEF Message
<1>11. CASE res = "ok"
  <2>1. transcript' = Append(transcript, m)
    BY <1>2, <1>9, <1>11
  <2>2. /\ transcript' \in Seq(Message) /\ Len(transcript) + 1 \in DOMAIN transcript'
        /\ transcript'[Len(transcript) + 1] = m
        /\ \A i \in DOMAIN transcript : i \in DOMAIN transcript' /\ transcript'[i] = transcript[i]
        /\ \A i \in DOMAIN transcript' : i = Len(transcript) + 1 \/ i \in DOMAIN transcript
        /\ Len(transcript) + 1 \notin DOMAIN transcript
        /\ Said(r.op)' /\ \A op : Said(op) => Said(op)'
    BY <1>4, <1>10, <2>1, TranscriptGrows
  <2>3. \A c \in calls : f[c].res = "ok" => c.res = "ok" \/ Said(c.op)'
    BY <1>7, <1>8, <2>2
  <2>4. DispatchInv' /\ Queues' = Queues
    BY <1>3, <1>6, <1>7, <2>2, <2>3, Reshapes
  <2>5. ASSUME OnceInv PROVE OnceInv'
    <3>1. \A id : Fresh(id) => Fresh(id)'
      <4>1. ASSUME NEW id, Fresh(id) PROVE Fresh(id)'
        <5>1. m.item # id
          BY <1>10, <4>1 DEF Fresh
        <5> QED
          BY <1>3, <2>2, <4>1, <5>1 DEF Fresh
      <4> QED
        BY <4>1
    <3>2. Single'
      <4>1. /\ \A w \in wire' : w.item \in 0..lastId'
            /\ \A w, v \in wire' : w.item # 0 /\ w.item = v.item => w = v
        BY <1>3, <2>5 DEF OnceInv, Single
      <4>2. \A i \in DOMAIN transcript' : transcript'[i].item \in 0..lastId'
        BY <1>3, <1>10, <2>2, <2>5 DEF OnceInv, Single
      <4>3. \A w \in wire' : w.item # 0 => \A i \in DOMAIN transcript' : transcript'[i].item # w.item
        BY <1>3, <1>10, <2>2, <2>5 DEF OnceInv, Single
      <4>4. ASSUME NEW i \in DOMAIN transcript', NEW j \in DOMAIN transcript', i # j,
                   transcript'[i].item # 0, transcript'[i].item = transcript'[j].item
            PROVE  FALSE
        <5>1. \A k \in DOMAIN transcript : transcript[k].item # r.item \/ r.item = 0
          BY <2>5 DEF OnceInv, Single
        <5>2. CASE i \in DOMAIN transcript /\ j \in DOMAIN transcript
          BY <2>2, <2>5, <4>4, <5>2 DEF OnceInv, Single
        <5>3. CASE i = Len(transcript) + 1
          BY <1>10, <2>2, <4>4, <5>1, <5>3
        <5>4. CASE j = Len(transcript) + 1
          BY <1>10, <2>2, <4>4, <5>1, <5>4
        <5> QED
          BY <2>2, <5>2, <5>3, <5>4
      <4> QED
        BY <4>1, <4>2, <4>3, <4>4 DEF Single
    <3>3. quarantined' = FALSE
      BY <1>3, <2>5 DEF OnceInv, Unquarantined
    <3>4. \A c \in calls : f[c].res \in {"busy", "rejected", "unloaded"} => f[c].res = c.res
      BY <1>7, <1>11
    <3> QED
      BY <1>3, <1>6, <1>7, <2>4, <2>5, <3>1, <3>2, <3>3, <3>4, OnceReshapes
  <2> QED
    BY <2>4, <2>5
<1>12. CASE res # "ok"
  <2>1. UNCHANGED transcript
    BY <1>2, <1>12
  <2>2. transcript' \in Seq(Message) /\ \A op : Said(op) => Said(op)'
    BY <1>4, <2>1, SameSaid
  <2>3. \A c \in calls : f[c].res = "ok" => c.res = "ok"
    BY <1>7, <1>12
  <2>4. DispatchInv' /\ Queues' = Queues
    BY <1>3, <1>6, <1>7, <2>2, <2>3, Reshapes
  <2>5. ASSUME OnceInv PROVE OnceInv'
    <3>1. \A id : Fresh(id) => Fresh(id)'
      BY <1>3, <2>1 DEF Fresh
    <3>2. Single'
      BY <1>3, <2>1, <2>5 DEF OnceInv, Single
    <3>3. quarantined' = FALSE
      BY <1>3, <2>5 DEF OnceInv, Unquarantined
    <3>4. r.item # 0 => Fresh(r.item)'
      BY <1>3, <2>1, <2>5 DEF OnceInv, Single, Fresh
    <3>5. \A c \in calls : f[c].res \in {"busy", "rejected", "unloaded"} /\ c.item # 0
                              => f[c].res = c.res \/ Fresh(c.item)'
      BY <1>7, <1>8, <3>4
    <3> QED
      BY <1>3, <1>6, <1>7, <2>4, <2>5, <3>1, <3>2, <3>3, <3>5, OnceReshapes
  <2> QED
    BY <2>4, <2>5
<1> QED
  BY <1>11, <1>12

\* Only the marks and the lost answers of the calls change.
LEMMA StepCallsOnly ==
    ASSUME DispatchInv,
           UNCHANGED <<storeVars, guard, seq, lastCall, wire, transcript, lastId, owed>>,
           NEW f, calls' = {f[c] : c \in calls},
           \A c \in calls : /\ DOMAIN f[c] = CallFields /\ f[c].id = c.id /\ f[c].op = c.op
                            /\ f[c].item = c.item /\ f[c].res \in {c.res, "lost"}
    PROVE  /\ DispatchInv'
           /\ OnceInv /\ quarantined' = FALSE /\ (\A c \in calls : f[c].tainted = c.tainted) => OnceInv'
<1>1. transcript' \in Seq(Message) /\ \A op : Said(op) => Said(op)'
  BY SameSaid DEF DispatchInv, Answers
<1>2. \A c \in calls : f[c].res = "ok" => c.res = "ok" \/ Said(c.op)'
  OBVIOUS
<1>3. DispatchInv' /\ Queues' = Queues
  BY <1>1, <1>2, Reshapes
<1>4. ASSUME OnceInv, quarantined' = FALSE, \A c \in calls : f[c].tainted = c.tainted PROVE OnceInv'
  <2>1. \A id : Fresh(id) => Fresh(id)'
    BY SameSaid
  <2>2. Single'
    BY <1>4 DEF OnceInv, Single
  <2>3. \A c \in calls : f[c].res \in {"busy", "rejected", "unloaded"} /\ c.item # 0
                            => f[c].res = c.res \/ Fresh(c.item)'
    OBVIOUS
  <2> QED
    BY <1>3, <1>4, <2>1, <2>2, <2>3, OnceReshapes
<1> QED
  BY <1>3, <1>4

LEMMA StepDisconnect ==
    ASSUME DispatchInv, Disconnect
    PROVE  DispatchInv' /\ (OnceInv => OnceInv')
<1>1. /\ UNCHANGED <<storeVars, guard, seq, lastCall, wire, transcript, lastId, owed, quarantined>>
      /\ calls' = {Lost(c) : c \in calls}
  BY DEF Disconnect, LoseCalls, Lost, engineVars, clientVars
<1>2. PICK f : f = [c \in calls |-> Lost(c)]
  OBVIOUS
<1>3. calls' = {f[c] : c \in calls}
  BY <1>1, <1>2
<1>4. \A c \in calls : /\ DOMAIN f[c] = CallFields /\ f[c].id = c.id /\ f[c].op = c.op
                       /\ f[c].item = c.item /\ f[c].tainted = c.tainted /\ f[c].res \in {c.res, "lost"}
  BY <1>2, LostParts DEF DispatchInv, Linked
<1>5. OnceInv => quarantined' = FALSE
  BY <1>1 DEF OnceInv, Unquarantined
<1> QED
  BY <1>1, <1>3, <1>4, <1>5, StepCallsOnly

LEMMA StepQuarantine ==
    ASSUME DispatchInv, Quarantine
    PROVE  DispatchInv'
<1>1. UNCHANGED <<storeVars, guard, seq, lastCall, wire, transcript, lastId, owed>>
  BY DEF Quarantine, engineVars, clientVars
<1>2. PICK f : f = [c \in calls |-> IF c.current THEN [c EXCEPT !.tainted = TRUE] ELSE c]
  OBVIOUS
<1>3. calls' = {f[c] : c \in calls}
  BY <1>2 DEF Quarantine
<1>4. \A c \in calls : /\ DOMAIN f[c] = CallFields /\ f[c].id = c.id /\ f[c].op = c.op
                       /\ f[c].item = c.item /\ f[c].res \in {c.res, "lost"}
  BY <1>2 DEF DispatchInv, Linked, CallFields
<1> QED
  BY <1>1, <1>3, <1>4, StepCallsOnly

LEMMA StepRecover ==
    ASSUME DispatchInv, Recover
    PROVE  DispatchInv' /\ (OnceInv => OnceInv')
<1>1. /\ UNCHANGED <<storeVars, guard, seq, lastCall, wire, transcript, lastId, owed>>
      /\ quarantined' = FALSE
  BY DEF Recover, engineVars, boundVars, clientVars
<1>2. PICK f : f = [c \in calls |-> [c EXCEPT !.current = FALSE]]
  OBVIOUS
<1>3. calls' = {f[c] : c \in calls}
  BY <1>2 DEF Recover
<1>4. \A c \in calls : /\ DOMAIN f[c] = CallFields /\ f[c].id = c.id /\ f[c].op = c.op
                       /\ f[c].item = c.item /\ f[c].tainted = c.tainted /\ f[c].res \in {c.res, "lost"}
  BY <1>2 DEF DispatchInv, Linked, CallFields
<1> QED
  BY <1>1, <1>3, <1>4, StepCallsOnly

LEMMA StepStops ==
    ASSUME DispatchInv, Crash \/ PowerLoss
    PROVE  DispatchInv' /\ (OnceInv => OnceInv')
<1>1. /\ UNCHANGED <<lastCall, transcript, lastId, owed>> /\ seq' = Free /\ calls' = {}
      /\ quarantined' = FALSE /\ wire' \subseteq wire /\ (StoreRestart \/ StorePowerLoss)
  BY DEF Crash, PowerLoss, ForgetProcess, clientVars
<1>2. Stored' /\ Shrinks({}, {}) /\ Queues' \subseteq Queues
  BY <1>1, StoreReloads DEF DispatchInv
<1>3. \A op : Said(op)' <=> Said(op)
  BY <1>1, SameSaid
<1>4. Delivering' /\ Linked'
  BY <1>1, FreeParts, NotFlushing DEF DispatchInv, Delivering, Linked, OneCall
<1>5. Answers'
  BY <1>1 DEF DispatchInv, Answers
<1>6. Faithful' /\ Accounted'
  BY <1>1, <1>2, <1>3, HeldStep DEF DispatchInv
<1>7. ASSUME OnceInv PROVE OnceInv'
  <2>1. \A id : Fresh(id) => Fresh(id)'
    BY <1>1 DEF Fresh
  <2>2. Untouched'
    BY <1>2, <1>7, <2>1 DEF OnceInv, Untouched
  <2>3. Single'
    BY <1>1, <1>7 DEF OnceInv, Single
  <2>4. Careful' /\ Unquarantined'
    BY <1>1, FreeParts DEF Careful, Unquarantined
  <2> QED
    BY <2>2, <2>3, <2>4 DEF OnceInv
<1> QED
  BY <1>2, <1>4, <1>5, <1>6, <1>7 DEF DispatchInv

-----------------------------------------------------------------------------
LEMMA InitDispatch == Init => DispatchInv /\ OnceInv
<1> SUFFICES ASSUME Init PROVE DispatchInv /\ OnceInv
  OBVIOUS
<1>1. mem = [c \in Chats |-> EmptyQueue] /\ disk = mem /\ durable = {mem} /\ lastId = 0
  BY DEF Init, StoreInit
<1>2. Good(EmptyQueue, 0) /\ Held(EmptyQueue) = {}
  BY EmptyGood
<1>3. Queues = {EmptyQueue}
  BY <1>1, ChatAssumption DEF Queues
<1>4. Stored
  BY <1>1, <1>2, <1>3 DEF Stored, StoreTypeOK, Image, Good
<1>5. /\ seq = Free /\ calls = {} /\ wire = {} /\ transcript = <<>> /\ owed = {} /\ lastCall = 0
      /\ quarantined = FALSE
  BY DEF Init
<1>6. Delivering /\ Linked /\ Answers /\ Faithful /\ Accounted
  BY <1>5, FreeParts, NotFlushing, EmptySeq
     DEF Delivering, OneCall, Linked, Answers, Faithful, Accounted
<1>7. Open(EmptyQueue) = {}
  <2>1. EmptyQueue.disp = NoItem /\ DOMAIN EmptyQueue.items = {}
    BY DEF EmptyQueue
  <2> QED
    BY <2>1 DEF Open, Ids
<1>8. OnceInv
  <2>1. DOMAIN transcript = {}
    BY <1>5
  <2> QED
    BY <1>3, <1>5, <1>7, <2>1, FreeParts DEF OnceInv, Unquarantined, Untouched, Careful, Single
<1> QED
  BY <1>4, <1>6, <1>8 DEF DispatchInv

\* Every action keeps DispatchInv; every action but quarantineExternalWrite
\* keeps OnceInv.
LEMMA NextDispatch ==
    ASSUME DispatchInv, [Next]_vars
    PROVE  DispatchInv' /\ (OnceInv => OnceInv' \/ Quarantine)
<1>1. CASE SendStep
  BY <1>1, StepSendToQueue, StepSendDirect DEF SendStep
<1>2. CASE EditStep
  BY <1>2, StepQueueEdits
<1>3. CASE SequencerStep
  BY <1>3, StepSendAppend, StepFlushReserve, StepReconcileFound, StepMark, StepFlushSendFails,
     StepEvents, StepFlushResume, StepGivesUp, StepCheckpoint, StepFlushSend, StepFlushSendBreaks
     DEF SequencerStep
<1>4. CASE CompletionStep
  BY <1>4, StepCompleteAccepted, StepCompleteRefused, StepCompleteUncertain,
     StepCompleteBySteering, StepCompleteDirect DEF CompletionStep
<1>5. CASE DecideStep
  BY <1>5, StepDecide
<1>6. CASE EventStep
  BY <1>6, StepEvents
<1>7. CASE LossStep
  BY <1>7, StepEvents, StepDisconnect, StepQuarantine, StepStops DEF LossStep
<1>8. CASE Recover
  BY <1>8, StepRecover
<1>9. CASE UNCHANGED vars
  BY <1>9, StepQuiet DEF vars, sessionVars, engineVars, boundVars, clientVars
<1> QED
  BY <1>1, <1>2, <1>3, <1>4, <1>5, <1>6, <1>7, <1>8, <1>9 DEF Next

-----------------------------------------------------------------------------
(* The environment's choices are counted: no session was quarantined as long *)
(* as none of them is "extern".                                             *)

Untampered == spent["extern"] = 0

Counted == spent \in [Faults -> Nat]

LEMMA ActionsSpend ==
    ASSUME [Next]_vars
    PROVE  UNCHANGED spent \/ \E fs : SpendAll(fs)
<1>1. CASE SendStep
  BY <1>1 DEF SendStep, SendToQueue, SendDirect, Received
<1>2. CASE EditStep
  BY <1>2 DEF EditStep, QueueRemove, QueueMove, QueueClear, QueueClearEngine, Edit
<1>3. CASE SequencerStep
  <2>1. CASE \E o \in PersistOutcomes :
                SendAppend(o) \/ FlushReserve(o) \/ ReconcileFound(o) \/ Mark(o)
    BY <2>1 DEF SendAppend, FlushReserve, ReconcileFound, Mark, Persist, Spend
  <2>2. CASE \E o \in PersistOutcomes : FlushSendRefused(o) \/ FlushSendDuplicate(o)
    <3>1. PICK o, err : FlushSendFails(err, o)
      BY <2>2 DEF FlushSendRefused, FlushSendDuplicate
    <3> QED
      BY <3>1 DEF FlushSendFails, Persist, Spend
  <2>3. CASE FlushSkip \/ FlushResume \/ HistoryFails \/ ReconcileAbsent \/ Checkpoint
    BY <2>3 DEF FlushSkip, FlushResume, HistoryFails, ReconcileAbsent, Checkpoint, boundVars, Spend
  <2>4. CASE FlushSend \/ FlushSendBreaks \/ FlushSendAbsorbed
    BY <2>4 DEF FlushSend, FlushSendBreaks, FlushSendAbsorbed, boundVars, Spend
  <2> QED
    BY <1>3, <2>1, <2>2, <2>3, <2>4 DEF SequencerStep
<1>4. CASE CompletionStep
  BY <1>4 DEF CompletionStep, CompleteAccepted, CompleteRefused, CompleteUncertain,
     CompleteBySteering, CompleteDirect, boundVars, Persist, Spend
<1>5. CASE DecideStep
  BY <1>5 DEF DecideStep, Accept, Busy, Refuse, Spend
<1>6. CASE EventStep
  BY <1>6 DEF EventStep, AgentStart, AgentSettled, CompactStart, CompactEnd, Spend
<1>7. CASE LossStep
  BY <1>7 DEF LossStep, Spontaneous, Disconnect, Quarantine, Crash, PowerLoss, Spend
<1>8. CASE Recover
  BY <1>8 DEF Recover, boundVars
<1>9. CASE UNCHANGED vars
  BY <1>9 DEF vars, boundVars
<1> QED
  BY <1>1, <1>2, <1>3, <1>4, <1>5, <1>6, <1>7, <1>8, <1>9 DEF Next

LEMMA SpendAllCounts ==
    ASSUME Counted, NEW fs, SpendAll(fs)
    PROVE  /\ Counted' /\ (Untampered' => Untampered)
           /\ "extern" \in fs => ~Untampered'
<1>1. spent' = [f \in Faults |-> IF f \in fs THEN spent[f] + 1 ELSE spent[f]]
  BY DEF SpendAll
<1>2. "extern" \in Faults
  BY FaultAssumption
<1> QED
  BY <1>1, <1>2 DEF Counted, Untampered

LEMMA NextCounts ==
    ASSUME Counted, [Next]_vars
    PROVE  /\ Counted' /\ (Untampered' => Untampered)
           /\ Quarantine => ~Untampered'
<1>1. Counted' /\ (Untampered' => Untampered)
  <2>1. CASE UNCHANGED spent
    BY <2>1 DEF Counted, Untampered
  <2>2. ASSUME NEW fs, SpendAll(fs) PROVE Counted' /\ (Untampered' => Untampered)
    BY <2>2, SpendAllCounts
  <2> QED
    BY <2>1, <2>2, ActionsSpend
<1>2. ASSUME Quarantine PROVE ~Untampered'
  <2>1. SpendAll({"extern"}) /\ "extern" \in {"extern"}
    BY <1>2 DEF Quarantine, Spend
  <2> QED
    BY <2>1, SpendAllCounts
<1> QED
  BY <1>1, <1>2

LEMMA DispatchHolds == Spec => [](DispatchInv /\ Counted /\ (Untampered => OnceInv))
<1>1. Init => DispatchInv /\ Counted /\ (Untampered => OnceInv)
  <2>1. Init => Counted
    BY DEF Init, Counted
  <2> QED
    BY <2>1, InitDispatch
<1>2. DispatchInv /\ Counted /\ (Untampered => OnceInv) /\ [Next]_vars
        => (DispatchInv /\ Counted /\ (Untampered => OnceInv))'
  BY NextDispatch, NextCounts
<1> QED
  BY <1>1, <1>2, PTL DEF Spec

(***************************************************************************)
(* While a queued message is with the provider, the guard and the durable  *)
(* dispatch are that message's: flushHead begins no second delivery,       *)
(* whatever connections, writes or processes fail.                         *)
(***************************************************************************)
THEOREM OneDelivery == Spec => []OneDeliveryAtATime
<1>1. DispatchInv => OneDeliveryAtATime
  BY DEF DispatchInv, Delivering, Current, OneDeliveryAtATime
<1> QED
  BY <1>1, DispatchHolds, PTL

(***************************************************************************)
(* An acknowledged message is held in memory and in every file a crash or  *)
(* a power loss may leave, until a message with its words is in the        *)
(* transcript, the user had it removed, or an edit of the user's took it   *)
(* out of the file although persistLocked reported an error (bridge.go     *)
(* answers persist_failed and memory still has it).                        *)
(***************************************************************************)
THEOREM AckedIsKept == Spec => []NothingVanishes
<1>1. ASSUME NEW qu, NEW id, id \in Held(qu) PROVE Holds(qu, id)
  BY <1>1 DEF Held, Ids, Holds, Queued, Positions, Dispatching
<1>2. DispatchInv => NothingVanishes
  BY <1>1 DEF DispatchInv, Accounted, Queues, Said, NothingVanishes
<1> QED
  BY <1>2, DispatchHolds, PTL

(***************************************************************************)
(* As long as the session file was not written behind the server's back,   *)
(* no queued message reaches the model twice, whatever mix of lost         *)
(* answers, failed writes, crashes, replays and steers happens.  After an  *)
(* external write finishDetachedSend takes a lost outcome for a refusal    *)
(* (run queue_quarantine).                                                 *)
(***************************************************************************)
THEOREM DeliveredOnce == Spec => [](Untampered => AtMostOnce)
<1>1. DispatchInv /\ OnceInv => AtMostOnce
  <2> SUFFICES ASSUME DispatchInv, OnceInv, NEW id \in 1..lastId PROVE Cardinality(Applied(id)) <= 1
    BY DEF AtMostOnce
  <2>1. \A i, j \in Applied(id) : i = j
    BY DEF DispatchInv, Stored, OnceInv, Single, Applied
  <2>2. CASE Applied(id) = {}
    BY <2>2, FS_EmptySet
  <2>3. ASSUME NEW i \in Applied(id) PROVE Cardinality(Applied(id)) <= 1
    <3>1. Applied(id) = {i}
      BY <2>1
    <3> QED
      BY <3>1, FS_Singleton
  <2> QED
    BY <2>2, <2>3
<1> QED
  BY <1>1, DispatchHolds, PTL

=============================================================================
