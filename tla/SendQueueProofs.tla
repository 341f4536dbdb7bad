---------------------------- MODULE SendQueueProofs ----------------------------
(***************************************************************************)
(* Proofs about the send queue store of SendQueueClients: the type         *)
(* invariant, ItemHeldOnce and AcknowledgedItemsSurvive, for every set of  *)
(* chats and payloads and every bound.  The lemmas before the inductive    *)
(* invariant say what the methods of SendQueueStore do to one queue,       *)
(* whoever calls them: QueueDispatchProofs rests on them too.              *)
(***************************************************************************)
EXTENDS SendQueueClients, SequenceTheorems, TLAPS

-----------------------------------------------------------------------------
(***************************************************************************)
(* Sequences: what Move and Remove do to the positions of a queue.         *)
(***************************************************************************)

\* RemoveAt closes the gap it makes.
LEMMA RemoveAtFacts ==
    ASSUME NEW S, NEW s \in Seq(S), NEW i \in DOMAIN s
    PROVE  /\ RemoveAt(s, i) \in Seq(S)
           /\ Len(RemoveAt(s, i)) = Len(s) - 1
           /\ \A j \in 1..(Len(s) - 1) :
                 RemoveAt(s, i)[j] = IF j < i THEN s[j] ELSE s[j + 1]
<1> DEFINE u == SubSeq(s, 1, i - 1)
           v == SubSeq(s, i + 1, Len(s))
<1>1. i \in 1..Len(s) /\ Len(s) \in Nat
  OBVIOUS
<1>2. /\ u \in Seq(S) /\ Len(u) = i - 1
      /\ \A j \in 1..(i - 1) : u[j] = s[j]
  BY <1>1
<1>3. /\ v \in Seq(S) /\ Len(v) = Len(s) - i
      /\ \A j \in 1..(Len(s) - i) : v[j] = s[j + i]
  BY <1>1
<1>4. RemoveAt(s, i) = u \o v
  BY DEF RemoveAt
<1> HIDE DEF u, v
<1>5. QED
  BY <1>1, <1>2, <1>3, <1>4

\* InsertAt moves the rest one place up.
LEMMA InsertAtFacts ==
    ASSUME NEW S, NEW s \in Seq(S), NEW e \in S, NEW i \in 1..(Len(s) + 1)
    PROVE  /\ InsertAt(s, i, e) \in Seq(S)
           /\ Len(InsertAt(s, i, e)) = Len(s) + 1
           /\ \A j \in 1..(Len(s) + 1) :
                 InsertAt(s, i, e)[j] = IF j < i THEN s[j] ELSE IF j = i THEN e ELSE s[j - 1]
<1> DEFINE u == SubSeq(s, 1, i - 1)
           v == SubSeq(s, i, Len(s))
           w == u \o <<e>>
<1>1. Len(s) \in Nat
  OBVIOUS
<1>2. /\ u \in Seq(S) /\ Len(u) = i - 1
      /\ \A j \in 1..(i - 1) : u[j] = s[j]
  BY <1>1
<1>3. /\ v \in Seq(S) /\ Len(v) = Len(s) - i + 1
      /\ \A j \in 1..(Len(s) - i + 1) : v[j] = s[j + i - 1]
  BY <1>1
<1>4. /\ w \in Seq(S) /\ Len(w) = i
      /\ \A j \in 1..i : w[j] = IF j < i THEN s[j] ELSE e
  BY <1>1, <1>2
<1>5. InsertAt(s, i, e) = w \o v
  BY DEF InsertAt
<1> HIDE DEF u, v, w
<1>6. /\ w \o v \in Seq(S)
      /\ Len(w \o v) = Len(s) + 1
      /\ \A j \in 1..(Len(s) + 1) : (w \o v)[j] = IF j <= i THEN w[j] ELSE v[j - i]
  <2>1. /\ w \o v \in Seq(S)
        /\ Len(w \o v) = Len(w) + Len(v)
        /\ \A j \in 1..(Len(w) + Len(v)) :
              (w \o v)[j] = IF j <= Len(w) THEN w[j] ELSE v[j - Len(w)]
    BY <1>3, <1>4, ConcatProperties
  <2>2. Len(w) = i /\ Len(w) + Len(v) = Len(s) + 1
    BY <1>1, <1>3, <1>4
  <2>3. QED
    BY <2>1, <2>2
<1>7. \A j \in 1..(Len(s) + 1) : j > i => v[j - i] = s[j - 1]
  <2> SUFFICES ASSUME NEW j \in 1..(Len(s) + 1), j > i PROVE v[j - i] = s[j - 1]
    OBVIOUS
  <2>1. j - i \in 1..(Len(s) - i + 1) /\ (j - i) + i - 1 = j - 1
    BY <1>1
  <2> QED
    BY <2>1, <1>3
<1>8. QED
  BY <1>1, <1>4, <1>5, <1>6, <1>7

(***************************************************************************)
(* Every way of rebuilding a queue's items adds or takes one item: s is t  *)
(* with one more item, at position i.                                      *)
(***************************************************************************)
OneMore(s, t, i) ==
    /\ s \in Seq(Item) /\ t \in Seq(Item)
    /\ Len(s) = Len(t) + 1 /\ i \in 1..Len(s)
    /\ \A j \in 1..Len(t) : t[j] = IF j < i THEN s[j] ELSE s[j + 1]

\* Which ids s and t hold, and that neither holds one twice.
LEMMA OneMoreIds ==
    ASSUME NEW s, NEW t, NEW i, OneMore(s, t, i)
    PROVE  /\ s[i] \in Item
           /\ Ids(s) = Ids(t) \cup {s[i].id}
           /\ Unique(s) => Unique(t) /\ s[i].id \notin Ids(t)
           /\ Unique(t) /\ s[i].id \notin Ids(t) => Unique(s)
<1> DEFINE up(j) == IF j < i THEN j ELSE j + 1
           down(k) == IF k < i THEN k ELSE k - 1
<1>1. /\ DOMAIN s = 1..Len(s) /\ DOMAIN t = 1..Len(t) /\ Len(t) \in Nat
      /\ Len(s) = Len(t) + 1 /\ i \in 1..Len(s) /\ s[i] \in Item
  BY DEF OneMore
<1>2. ASSUME NEW j \in DOMAIN t
      PROVE  up(j) \in DOMAIN s /\ up(j) # i /\ t[j] = s[up(j)]
  BY <1>1 DEF OneMore
<1>3. ASSUME NEW k \in DOMAIN s, k # i
      PROVE  down(k) \in DOMAIN t /\ s[k] = t[down(k)]
  <2>1. down(k) \in 1..Len(t) /\ up(down(k)) = k
    BY <1>1, <1>3
  <2> HIDE DEF up, down
  <2>2. QED
    BY <2>1, <1>1, <1>2
<1>4. ASSUME NEW j \in DOMAIN t, NEW k \in DOMAIN t, up(j) = up(k) PROVE j = k
  BY <1>1, <1>4
<1>5. ASSUME NEW j \in DOMAIN s, NEW k \in DOMAIN s, j # i, k # i, down(j) = down(k)
      PROVE  j = k
  BY <1>1, <1>5
<1> HIDE DEF up, down
<1>6. Ids(s) \subseteq Ids(t) \cup {s[i].id}
  <2>1. SUFFICES ASSUME NEW k \in DOMAIN s, k # i PROVE s[k].id \in Ids(t)
    BY DEF Ids
  <2>2. QED
    BY <2>1, <1>3 DEF Ids
<1>7. Ids(t) \cup {s[i].id} \subseteq Ids(s)
  BY <1>1, <1>2 DEF Ids
<1>8. ASSUME Unique(s) PROVE Unique(t) /\ s[i].id \notin Ids(t)
  <2>1. Unique(t)
    <3>1. SUFFICES ASSUME NEW j \in DOMAIN t, NEW k \in DOMAIN t, t[j].id = t[k].id
                   PROVE  j = k
      BY DEF Unique
    <3>2. s[up(j)].id = s[up(k)].id
      BY <1>2, <3>1
    <3>3. up(j) = up(k)
      BY <3>2, <1>2, <1>8 DEF Unique
    <3>4. QED
      BY <3>3, <1>4
  <2>2. s[i].id \notin Ids(t)
    <3>1. SUFFICES ASSUME NEW j \in DOMAIN t, s[i].id = t[j].id PROVE FALSE
      BY DEF Ids
    <3>2. s[i].id = s[up(j)].id /\ up(j) \in DOMAIN s /\ up(j) # i /\ i \in DOMAIN s
      BY <1>1, <1>2, <3>1
    <3>3. QED
      BY <3>2, <1>8 DEF Unique
  <2>3. QED
    BY <2>1, <2>2
<1>9. ASSUME Unique(t), s[i].id \notin Ids(t) PROVE Unique(s)
  <2>1. SUFFICES ASSUME NEW j \in DOMAIN s, NEW k \in DOMAIN s, s[j].id = s[k].id
                 PROVE  j = k
    BY DEF Unique
  <2>2. \A m \in DOMAIN s : m # i => s[m].id # s[i].id
    BY <1>3, <1>9 DEF Ids
  <2>3. CASE j # i /\ k # i
    <3>1. t[down(j)].id = t[down(k)].id
      BY <1>3, <2>1, <2>3
    <3>2. down(j) = down(k)
      BY <3>1, <1>3, <1>9, <2>3 DEF Unique
    <3>3. QED
      BY <3>2, <1>5, <2>3
  <2>4. CASE j = i \/ k = i
    BY <2>1, <2>2, <2>4, <1>1
  <2>5. QED
    BY <2>3, <2>4
<1>10. QED
  BY <1>1, <1>6, <1>7, <1>8, <1>9

\* Append
LEMMA AppendOneMore ==
    ASSUME NEW s \in Seq(Item), NEW e \in Item
    PROVE  /\ OneMore(Append(s, e), s, Len(s) + 1)
           /\ Append(s, e)[Len(s) + 1] = e
  BY DEF OneMore

\* The head is taken
LEMMA TailOneMore ==
    ASSUME NEW s \in Seq(Item), s # <<>>
    PROVE  OneMore(s, Tail(s), 1) /\ Head(s) = s[1]
  BY HeadTailProperties, EmptySeq DEF OneMore

\* An item is put first
LEMMA PrependOneMore ==
    ASSUME NEW s \in Seq(Item), NEW e \in Item
    PROVE  OneMore(<<e>> \o s, s, 1) /\ (<<e>> \o s)[1] = e
<1> DEFINE t == <<e>> \o s
<1>1. /\ t \in Seq(Item) /\ Len(t) = 1 + Len(s) /\ Len(s) \in Nat
      /\ \A j \in 1..(1 + Len(s)) : t[j] = IF j <= 1 THEN <<e>>[j] ELSE s[j - 1]
  BY ConcatProperties
<1> HIDE DEF t
<1>2. \A j \in 1..Len(s) : s[j] = t[j + 1]
  BY <1>1
<1>3. OneMore(t, s, 1) /\ t[1] = e
  BY <1>1, <1>2 DEF OneMore
<1>4. QED
  BY <1>3 DEF t

\* An item is removed
LEMMA RemoveAtOneMore ==
    ASSUME NEW s \in Seq(Item), NEW i \in DOMAIN s
    PROVE  OneMore(s, RemoveAt(s, i), i)
<1>1. Len(s) \in Nat /\ i \in 1..Len(s)
  OBVIOUS
<1>2. /\ RemoveAt(s, i) \in Seq(Item)
      /\ Len(RemoveAt(s, i)) = Len(s) - 1
      /\ \A j \in 1..(Len(s) - 1) :
            RemoveAt(s, i)[j] = IF j < i THEN s[j] ELSE s[j + 1]
  BY RemoveAtFacts
<1>3. QED
  BY <1>1, <1>2 DEF OneMore

\* An item is inserted
LEMMA InsertAtOneMore ==
    ASSUME NEW s \in Seq(Item), NEW e \in Item, NEW i \in 1..(Len(s) + 1)
    PROVE  OneMore(InsertAt(s, i, e), s, i) /\ InsertAt(s, i, e)[i] = e
<1> DEFINE t == InsertAt(s, i, e)
<1>1. /\ t \in Seq(Item) /\ Len(t) = Len(s) + 1 /\ Len(s) \in Nat
      /\ \A j \in 1..(Len(s) + 1) :
            t[j] = IF j < i THEN s[j] ELSE IF j = i THEN e ELSE s[j - 1]
  BY InsertAtFacts
<1> HIDE DEF t
<1>2. ASSUME NEW j \in 1..Len(s) PROVE s[j] = IF j < i THEN t[j] ELSE t[j + 1]
  BY <1>1
<1>3. OneMore(t, s, i) /\ t[i] = e
  BY <1>1, <1>2 DEF OneMore
<1>4. QED
  BY <1>3 DEF t

-----------------------------------------------------------------------------
(***************************************************************************)
(* One queue: well formed, no item twice, no id the store has not given.   *)
(***************************************************************************)
Good(qu, n) == qu \in Queue /\ Distinct(qu) /\ Held(qu) \subseteq 1..n

\* The parts of a queue.
LEMMA QueueParts ==
    ASSUME NEW qu \in Queue
    PROVE  /\ qu.items \in Seq(Item) /\ qu.rev \in Nat
           /\ qu.disp # NoItem => qu.disp \in Item /\ qu.disp.id \in Nat
  BY DEF Queue, Item

\* A queue rebuilt by WithItems or WithDispatch.
LEMMA WithDispatchParts ==
    ASSUME NEW qu \in Queue, NEW items \in Seq(Item), NEW disp \in Item \cup {NoItem}
    PROVE  /\ WithDispatch(qu, items, disp) \in Queue
           /\ WithDispatch(qu, items, disp).items = items
           /\ WithDispatch(qu, items, disp).disp = disp
           /\ WithDispatch(qu, items, disp).rev = qu.rev + 1
<1>1. qu.rev + 1 \in Nat
  BY DEF Queue
<1>2. QED
  BY <1>1 DEF Queue, WithDispatch

\* The same for a rebuilt item list.
LEMMA WithItemsParts ==
    ASSUME NEW qu \in Queue, NEW items \in Seq(Item)
    PROVE  /\ WithItems(qu, items) \in Queue
           /\ WithItems(qu, items).items = items
           /\ WithItems(qu, items).disp = qu.disp
           /\ WithItems(qu, items).rev = qu.rev + 1
<1>1. qu.disp \in Item \cup {NoItem}
  BY DEF Queue
<1>2. QED
  BY <1>1, WithDispatchParts DEF WithItems

\* EmptyQueue and Bump
LEMMA EmptyGood ==
    ASSUME NEW n \in Nat
    PROVE  Good(EmptyQueue, n) /\ Held(EmptyQueue) = {}
<1>1. EmptyQueue \in Queue
  BY EmptySeq DEF EmptyQueue, Queue
<1>2. DOMAIN EmptyQueue.items = {} /\ EmptyQueue.disp = NoItem
  BY DEF EmptyQueue
<1>3. QED
  BY <1>1, <1>2 DEF Good, Distinct, Unique, Held, Ids

\* Bump changes the revision only.
LEMMA BumpedGood ==
    ASSUME NEW n \in Nat, NEW qu, Good(qu, n)
    PROVE  Good(Bumped(qu), n) /\ Held(Bumped(qu)) = Held(qu)
<1>1. /\ Bumped(qu) \in Queue /\ Bumped(qu).items = qu.items /\ Bumped(qu).disp = qu.disp
  BY QueueParts, WithItemsParts DEF Good, Bumped
<1>2. QED
  BY <1>1 DEF Good, Distinct, Held

\* Append gives the next id.
LEMMA AppendedGood ==
    ASSUME NEW n \in Nat, NEW qu, Good(qu, n), NEW item \in Item, item.id = n + 1
    PROVE  Good(Appended(qu, item), n + 1) /\ Held(Appended(qu, item)) = Held(qu) \cup {n + 1}
<1> DEFINE t == Append(qu.items, item)
           r == Appended(qu, item)
<1>1. qu \in Queue /\ qu.items \in Seq(Item) /\ Unique(qu.items)
  BY QueueParts DEF Good, Distinct
<1>2. OneMore(t, qu.items, Len(qu.items) + 1) /\ t[Len(qu.items) + 1] = item
  BY <1>1, AppendOneMore
<1> HIDE DEF t
<1>3. n + 1 \notin Held(qu)
  BY DEF Good
<1>4. Ids(t) = Ids(qu.items) \cup {n + 1} /\ Unique(t)
  BY <1>1, <1>2, <1>3, OneMoreIds DEF Held
<1>5. r \in Queue /\ r.items = t /\ r.disp = qu.disp
  BY <1>1, <1>2, WithItemsParts DEF Appended, OneMore, t
<1> HIDE DEF r
<1>6. Held(r) = Held(qu) \cup {n + 1}
  BY <1>4, <1>5 DEF Held
<1>7. Distinct(r)
  BY <1>3, <1>4, <1>5 DEF Distinct, Good, Held
<1>8. Held(r) \subseteq 1..(n + 1)
  BY <1>6 DEF Good
<1>9. QED
  BY <1>5, <1>6, <1>7, <1>8 DEF Good, r

\* itemIndex finds the item.
LEMMA ItemIndexFinds ==
    ASSUME NEW items \in Seq(Item), Unique(items), NEW id, Queued(items, id)
    PROVE  ItemIndex(items, id) \in DOMAIN items /\ items[ItemIndex(items, id)].id = id
<1>1. PICK i \in Positions(items, id) : TRUE
  BY DEF Queued
<1>2. \A j \in Positions(items, id) : j = i /\ i <= j
  <2>1. ASSUME NEW j \in Positions(items, id) PROVE j = i
    BY DEF Positions, Unique
  <2>2. i \in 1..Len(items) /\ Len(items) \in Nat
    BY DEF Positions
  <2>3. QED
    BY <2>1, <2>2
<1>3. \E k \in Positions(items, id) : \A j \in Positions(items, id) : k <= j
  BY <1>2
<1>4. ItemIndex(items, id) \in Positions(items, id)
  BY <1>3 DEF ItemIndex
<1>5. QED
  BY <1>4 DEF Positions

\* Remove takes out exactly the item it names.
LEMMA RemovedGood ==
    ASSUME NEW n \in Nat, NEW qu, Good(qu, n), NEW id, Queued(qu.items, id)
    PROVE  Good(Removed(qu, id), n) /\ Held(Removed(qu, id)) = Held(qu) \ {id}
<1> DEFINE i == ItemIndex(qu.items, id)
           t == RemoveAt(qu.items, i)
           r == Removed(qu, id)
<1>1. qu \in Queue /\ qu.items \in Seq(Item) /\ Unique(qu.items)
  BY QueueParts DEF Good, Distinct
<1>2. i \in DOMAIN qu.items /\ qu.items[i].id = id
  BY <1>1, ItemIndexFinds
<1>3. OneMore(qu.items, t, i)
  BY <1>1, <1>2, RemoveAtOneMore
<1>4. Ids(qu.items) = Ids(t) \cup {id} /\ Unique(t) /\ id \notin Ids(t)
  BY <1>1, <1>2, <1>3, OneMoreIds
<1>5. r \in Queue /\ r.items = t /\ r.disp = qu.disp
  BY <1>1, <1>3, WithItemsParts DEF Removed, OneMore
<1> HIDE DEF i, t, r
<1>6. qu.disp # NoItem => qu.disp.id # id
  BY <1>4 DEF Good, Distinct
<1>7. Held(r) = Held(qu) \ {id}
  BY <1>4, <1>5, <1>6 DEF Held
<1>8. Distinct(r)
  BY <1>4, <1>5 DEF Distinct, Good
<1>9. QED
  BY <1>5, <1>7, <1>8 DEF Good, r

\* The clamped target of a move is a position of the queue.
LEMMA ClampInside ==
    ASSUME NEW qu \in Queue, qu.items # <<>>, NEW to \in Int
    PROVE  Clamp(qu, to) \in 1..Len(qu.items)
<1>1. Len(qu.items) \in Nat \ {0}
  BY QueueParts, EmptySeq
<1>2. QED
  BY <1>1 DEF Clamp

\* Move keeps the items.
LEMMA MovedGood ==
    ASSUME NEW n \in Nat, NEW qu, Good(qu, n), NEW id, Queued(qu.items, id), NEW to \in Int
    PROVE  Good(Moved(qu, id, to), n) /\ Held(Moved(qu, id, to)) = Held(qu)
<1> DEFINE i == ItemIndex(qu.items, id)
           t == RemoveAt(qu.items, i)
           k == Clamp(qu, to)
           u == InsertAt(t, k, qu.items[i])
           r == Moved(qu, id, to)
<1>1. qu \in Queue /\ qu.items \in Seq(Item) /\ Unique(qu.items)
  BY QueueParts DEF Good, Distinct
<1>2. i \in DOMAIN qu.items /\ qu.items[i].id = id /\ qu.items[i] \in Item /\ qu.items # <<>>
  BY <1>1, ItemIndexFinds
<1>3. OneMore(qu.items, t, i)
  BY <1>1, <1>2, RemoveAtOneMore
<1>4. Ids(qu.items) = Ids(t) \cup {id} /\ Unique(t) /\ id \notin Ids(t)
  BY <1>1, <1>2, <1>3, OneMoreIds
<1>5. t \in Seq(Item) /\ Len(qu.items) = Len(t) + 1
  BY <1>3 DEF OneMore
<1>6. k \in 1..(Len(t) + 1)
  BY <1>1, <1>2, <1>5, ClampInside
<1>7. OneMore(u, t, k) /\ u[k] = qu.items[i]
  BY <1>2, <1>5, <1>6, InsertAtOneMore
<1>8. Ids(u) = Ids(qu.items) /\ Unique(u) /\ u \in Seq(Item)
  BY <1>2, <1>4, <1>7, OneMoreIds DEF OneMore
<1>9. r \in Queue /\ r.items = u /\ r.disp = qu.disp
  BY <1>1, <1>8, WithItemsParts DEF Moved
<1> HIDE DEF i, t, k, u, r
<1>10. QED
  BY <1>8, <1>9 DEF Good, Distinct, Held, r

\* Clear takes the waiting items and leaves the dispatch.
LEMMA ClearedGood ==
    ASSUME NEW n \in Nat, NEW qu, Good(qu, n)
    PROVE  Good(Cleared(qu), n) /\ Held(Cleared(qu)) = Held(qu) \ Ids(qu.items)
<1> DEFINE r == Cleared(qu)
<1>1. r \in Queue /\ r.items = <<>> /\ r.disp = qu.disp
  BY EmptySeq, WithItemsParts DEF Good, Cleared
<1>2. Ids(r.items) = {} /\ Unique(r.items)
  BY <1>1 DEF Ids, Unique
<1> HIDE DEF r
<1>3. Held(r) = Held(qu) \ Ids(qu.items)
  BY <1>1, <1>2 DEF Held, Good, Distinct
<1>4. QED
  BY <1>1, <1>2, <1>3 DEF Good, Distinct, r

\* BeginDispatch moves the head into the dispatch.
LEMMA ReservedGood ==
    ASSUME NEW n \in Nat, NEW qu, Good(qu, n), qu.disp = NoItem, qu.items # <<>>
    PROVE  Good(Reserved(qu), n) /\ Held(Reserved(qu)) = Held(qu)
<1> DEFINE t == Tail(qu.items)
           e == [Head(qu.items) EXCEPT !.state = DispatchReserved, !.cursor = 0]
           r == Reserved(qu)
<1>1. qu \in Queue /\ qu.items \in Seq(Item) /\ Unique(qu.items)
  BY QueueParts DEF Good, Distinct
<1>2. OneMore(qu.items, t, 1) /\ Head(qu.items) = qu.items[1] /\ qu.items[1] \in Item
  BY <1>1, TailOneMore, OneMoreIds
<1>3. e \in Item /\ e.id = qu.items[1].id
  BY <1>2 DEF Item, DispatchReserved
<1>4. Ids(qu.items) = Ids(t) \cup {e.id} /\ Unique(t) /\ e.id \notin Ids(t)
  BY <1>1, <1>2, <1>3, OneMoreIds
<1>5. r \in Queue /\ r.items = t /\ r.disp = e
  <2>1. r = WithDispatch(qu, t, e)
    BY DEF Reserved
  <2>2. t \in Seq(Item)
    BY <1>2 DEF OneMore
  <2> HIDE DEF t, e, r
  <2>3. e \in Item \cup {NoItem}
    BY <1>3
  <2>4. /\ WithDispatch(qu, t, e) \in Queue
        /\ WithDispatch(qu, t, e).items = t /\ WithDispatch(qu, t, e).disp = e
    BY <2>2, <2>3, <1>1, WithDispatchParts
  <2>5. QED
    BY <2>1, <2>4
<1>6. e # NoItem
  BY <1>3, NoItemAssumption
<1> HIDE DEF t, e, r
<1>7. Held(r) = Held(qu)
  BY <1>4, <1>5, <1>6 DEF Held
<1>8. QED
  BY <1>4, <1>5, <1>7 DEF Good, Distinct, r

\* MarkDispatchAttempted keeps the item.
LEMMA AttemptedGood ==
    ASSUME NEW n \in Nat, NEW qu, Good(qu, n), qu.disp # NoItem, NEW cursor \in Nat
    PROVE  Good(Attempted(qu, cursor), n) /\ Held(Attempted(qu, cursor)) = Held(qu)
<1> DEFINE e == [qu.disp EXCEPT !.state = DispatchAttempted, !.cursor = cursor]
           r == Attempted(qu, cursor)
<1>1. qu \in Queue /\ qu.items \in Seq(Item) /\ qu.disp \in Item
  BY QueueParts DEF Good
<1>2. e \in Item /\ e.id = qu.disp.id
  BY <1>1 DEF Item, DispatchAttempted
<1>3. e # NoItem
  BY <1>2, NoItemAssumption
<1>4. r \in Queue /\ r.items = qu.items /\ r.disp = e
  BY <1>1, <1>2, WithDispatchParts DEF Attempted
<1> HIDE DEF e, r
<1>5. QED
  BY <1>2, <1>3, <1>4 DEF Good, Distinct, Held, r

\* CompleteDispatch takes out the dispatch.
LEMMA CompletedGood ==
    ASSUME NEW n \in Nat, NEW qu, Good(qu, n), qu.disp # NoItem
    PROVE  Good(Completed(qu), n) /\ Held(Completed(qu)) = Held(qu) \ {qu.disp.id}
<1> DEFINE r == Completed(qu)
<1>1. r \in Queue /\ r.items = qu.items /\ r.disp = NoItem
  BY QueueParts, WithDispatchParts DEF Completed, Good
<1> HIDE DEF r
<1>2. Held(r) = Held(qu) \ {qu.disp.id}
  BY <1>1 DEF Held, Good, Distinct
<1>3. QED
  BY <1>1, <1>2 DEF Good, Distinct, r

\* RestoreDispatch moves the dispatch back to the head.
LEMMA RestoredGood ==
    ASSUME NEW n \in Nat, NEW qu, Good(qu, n), qu.disp # NoItem
    PROVE  Good(Restored(qu), n) /\ Held(Restored(qu)) = Held(qu)
<1> DEFINE t == <<qu.disp>> \o qu.items
           r == Restored(qu)
<1>1. qu \in Queue /\ qu.items \in Seq(Item) /\ qu.disp \in Item
  BY QueueParts DEF Good
<1>2. OneMore(t, qu.items, 1) /\ t[1] = qu.disp
  BY <1>1, PrependOneMore
<1>3. r \in Queue /\ r.items = t /\ r.disp = NoItem
  <2>1. r = WithDispatch(qu, t, NoItem)
    BY DEF Restored
  <2>2. t \in Seq(Item) /\ NoItem \in Item \cup {NoItem}
    BY <1>2 DEF OneMore
  <2> HIDE DEF t, r
  <2>3. /\ WithDispatch(qu, t, NoItem) \in Queue
        /\ WithDispatch(qu, t, NoItem).items = t /\ WithDispatch(qu, t, NoItem).disp = NoItem
    BY <2>2, <1>1, WithDispatchParts
  <2>4. QED
    BY <2>1, <2>3
<1> HIDE DEF t, r
<1>4. Ids(t) = Ids(qu.items) \cup {qu.disp.id} /\ Unique(t)
  BY <1>2, OneMoreIds DEF Good, Distinct
<1>5. Held(r) = Held(qu)
  BY <1>3, <1>4 DEF Held
<1>6. QED
  BY <1>3, <1>4, <1>5 DEF Good, Distinct, r

\* ClaimHead takes out the head.
LEMMA ClaimedGood ==
    ASSUME NEW n \in Nat, NEW qu, Good(qu, n), qu.items # <<>>
    PROVE  /\ Good(Claimed(qu), n) /\ Head(qu.items) \in Item
           /\ Head(qu.items).id \in Held(qu)
           /\ Held(Claimed(qu)) = Held(qu) \ {Head(qu.items).id}
<1> DEFINE t == Tail(qu.items)
           h == Head(qu.items)
           r == Claimed(qu)
<1>1. qu \in Queue /\ qu.items \in Seq(Item) /\ Unique(qu.items)
  BY QueueParts DEF Good, Distinct
<1>2. OneMore(qu.items, t, 1) /\ h = qu.items[1] /\ h \in Item
  BY <1>1, TailOneMore, OneMoreIds
<1>3. r \in Queue /\ r.items = t /\ r.disp = qu.disp
  BY <1>1, <1>2, WithItemsParts DEF Claimed, OneMore
<1> HIDE DEF t, h, r
<1>4. Ids(qu.items) = Ids(t) \cup {h.id} /\ Unique(t) /\ h.id \notin Ids(t)
  BY <1>1, <1>2, OneMoreIds
<1>5. Held(r) = Held(qu) \ {h.id} /\ h.id \in Held(qu)
  BY <1>3, <1>4 DEF Held, Good, Distinct
<1>6. QED
  BY <1>2, <1>3, <1>4, <1>5 DEF Good, Distinct, r, h

\* RestoreHead puts back an item that is nowhere in the queue.
LEMMA UnclaimedGood ==
    ASSUME NEW n \in Nat, NEW qu, Good(qu, n), NEW item \in Item,
           item.id \notin Held(qu), item.id \in 1..n
    PROVE  Good(Unclaimed(qu, item), n) /\ Held(Unclaimed(qu, item)) = Held(qu) \cup {item.id}
<1> DEFINE t == <<item>> \o qu.items
           r == Unclaimed(qu, item)
<1>1. qu \in Queue /\ qu.items \in Seq(Item)
  BY QueueParts DEF Good
<1>2. OneMore(t, qu.items, 1) /\ t[1] = item
  BY <1>1, PrependOneMore
<1>3. r \in Queue /\ r.items = t /\ r.disp = qu.disp
  BY <1>1, <1>2, WithItemsParts DEF Unclaimed, OneMore
<1> HIDE DEF t, r
<1>4. Ids(t) = Ids(qu.items) \cup {item.id} /\ Unique(t)
  BY <1>2, OneMoreIds DEF Good, Distinct, Held
<1>5. Held(r) = Held(qu) \cup {item.id}
  BY <1>3, <1>4 DEF Held
<1>6. QED
  BY <1>3, <1>4, <1>5 DEF Good, Distinct, Held, r

-----------------------------------------------------------------------------
(***************************************************************************)
(* The inductive invariant.  ItemHeldOnce and AcknowledgedItemsSurvive     *)
(* speak of every file a stop may leave, so each image carries the whole   *)
(* of Good; an item in the hands of a caller of ClaimHead is nowhere in    *)
(* memory, or RestoreHead would make a second one.                         *)
(***************************************************************************)
ImagesGood == \A img \in durable \cup {mem} : \A c \in Chats : Good(img[c], newestId)

ClaimsApart ==
    \A c \in Chats : \A x \in claimed[c] :
        /\ x.id \in 1..newestId
        /\ x.id \notin Held(mem[c])
        /\ \A y \in claimed[c] : y.id = x.id => y = x

\* A failed or unsynced write leaves a file that is ahead of what anyone saw.
RevisionsAhead ==
    \A c \in Chats : seen[c] # {} =>
        /\ mem[c] \in seen[c]
        /\ \A p \in seen[c] : p.rev <= mem[c].rev
        /\ disk[c] = mem[c] \/ disk[c].rev > mem[c].rev

IInv == /\ ClientsTypeOK /\ ImagesGood /\ ClaimsApart
        /\ AcknowledgedItemsSurvive /\ RevisionNamesContent /\ RevisionsAhead

\* The store's own part of a call: what Commit leaves in memory and on disk
\* is good when the new queue is.
LEMMA CommitGood ==
    ASSUME ClientsTypeOK, ImagesGood, NEW c \in Chats, NEW next, NEW o \in PersistOutcomes,
           Commit(c, next, o), newestId' \in Nat, newestId <= newestId', Good(next, newestId')
    PROVE  /\ StoreTypeOK'
           /\ ImagesGood'
           /\ mem' = IF o = "ok" THEN [mem EXCEPT ![c] = next] ELSE mem
           /\ durable' \cup {mem'} \subseteq durable \cup {mem, [mem EXCEPT ![c] = next]}
           /\ o = "ok" => durable' = {mem'}
<1> DEFINE new == [mem EXCEPT ![c] = next]
<1>1. /\ mem \in [Chats -> Queue] /\ disk \in [Chats -> Queue]
      /\ durable \in SUBSET [Chats -> Queue] /\ disk \in durable
      /\ newestId \in Nat /\ next \in Queue
  BY DEF ClientsTypeOK, StoreTypeOK, Image, Good
<1>2. new \in [Chats -> Queue] /\ new[c] = next /\ \A d \in Chats : d # c => new[d] = mem[d]
  BY <1>1
<1>3. /\ mem' = (IF o = "ok" THEN new ELSE mem)
      /\ disk' = (IF o = "unwritten" THEN disk ELSE new)
      /\ durable' = CASE o = "unwritten" -> durable
                      [] o = "renamed" -> durable \cup {new}
                      [] OTHER -> {new}
  BY DEF Commit
<1> HIDE DEF new
<1>4. durable' = IF o = "unwritten" THEN durable
                 ELSE IF o = "renamed" THEN durable \cup {new} ELSE {new}
  BY <1>3
<1>5. StoreTypeOK'
  BY <1>1, <1>2, <1>3, <1>4 DEF StoreTypeOK, Image
<1>6. ASSUME NEW qu, Good(qu, newestId) PROVE Good(qu, newestId')
  BY <1>1, <1>6 DEF Good
<1>7. \A d \in Chats : Good(new[d], newestId')
  BY <1>2, <1>6 DEF ImagesGood
<1>8. durable' \cup {mem'} \subseteq durable \cup {mem, new}
  BY <1>3, <1>4
<1>9. ImagesGood'
  BY <1>6, <1>7, <1>8 DEF ImagesGood
<1>10. o = "ok" => durable' = {mem'}
  BY <1>3, <1>4
<1>11. QED
  BY <1>3, <1>5, <1>8, <1>9, <1>10 DEF new

\* What every call but Delete keeps, whatever it does to one queue.
LEMMA CallKeeps ==
    ASSUME IInv, NEW c \in Chats, NEW next, NEW o \in PersistOutcomes,
           Commit(c, next, o), Fault(o), Observe,
           newestId' \in Nat, newestId <= newestId', Good(next, newestId'),
           next.rev = mem[c].rev + 1,
           promised' \in SUBSET (Chats \X Nat),
           \A p \in promised' : /\ p \in promised \/ (o = "ok" /\ p[1] = c)
                                /\ p[1] = c => p[2] \in Held(next),
           claimed' \in [Chats -> SUBSET Item]
    PROVE  /\ ClientsTypeOK' /\ ImagesGood' /\ AcknowledgedItemsSurvive'
           /\ RevisionNamesContent' /\ RevisionsAhead'
<1> DEFINE new == [mem EXCEPT ![c] = next]
<1>1. /\ StoreTypeOK' /\ ImagesGood'
      /\ mem' = IF o = "ok" THEN new ELSE mem
      /\ durable' \cup {mem'} \subseteq durable \cup {mem, new}
      /\ o = "ok" => durable' = {mem'}
  BY CommitGood DEF IInv
<1>2. /\ new[c] = next /\ \A d \in Chats : d # c => new[d] = mem[d]
      /\ mem \in [Chats -> Queue]
  BY DEF IInv, ClientsTypeOK, StoreTypeOK, Image
<1>3. disk' = IF o = "unwritten" THEN disk ELSE new
  BY DEF Commit
<1> HIDE DEF new
<1>4. seen' \in [Chats -> SUBSET Queue]
  <2>1. \A d \in Chats : mem'[d] \in Queue
    BY <1>1 DEF StoreTypeOK, Image
  <2>2. seen \in [Chats -> SUBSET Queue]
    BY DEF IInv, ClientsTypeOK
  <2>3. QED
    BY <2>1, <2>2 DEF Observe
<1>5. faults' \in Nat
  BY DEF Fault, IInv, ClientsTypeOK
<1>6. ClientsTypeOK'
  BY <1>1, <1>4, <1>5 DEF ClientsTypeOK
<1>7. AcknowledgedItemsSurvive'
  <2>1. ASSUME NEW p \in promised', NEW img \in durable' \cup {mem'}
        PROVE  p[2] \in Held(img[p[1]])
    <3>1. p[1] \in Chats
      BY DEF IInv, ClientsTypeOK
    <3>2. CASE p \in promised
      <4>1. \A old \in durable \cup {mem} : p[2] \in Held(old[p[1]])
        BY <3>2 DEF IInv, AcknowledgedItemsSurvive
      <4>2. p[2] \in Held(new[p[1]])
        BY <3>1, <4>1, <1>2
      <4>3. QED
        BY <4>1, <4>2, <1>1
    <3>3. CASE o = "ok" /\ p[1] = c
      BY <3>3, <1>1, <1>2
    <3>4. QED
      BY <3>2, <3>3
  <2>2. QED
    BY <2>1 DEF AcknowledgedItemsSurvive
<1>8. ASSUME NEW d \in Chats, seen'[d] # {}
      PROVE  /\ seen[d] # {} /\ seen'[d] = seen[d] \cup {mem'[d]}
             /\ mem'[d] = mem[d] \/ (d = c /\ mem'[d] = next)
             /\ mem[d].rev \in Nat /\ \A p \in seen[d] : p.rev \in Nat /\ p.rev <= mem[d].rev
  <2>1. seen[d] # {} /\ seen'[d] = seen[d] \cup {mem'[d]}
    BY <1>8 DEF Observe
  <2>2. mem'[d] = mem[d] \/ (d = c /\ mem'[d] = next)
    BY <1>1, <1>2
  <2>3. mem[d].rev \in Nat /\ \A p \in seen[d] : p.rev \in Nat
    BY <1>2 DEF IInv, ClientsTypeOK, Queue
  <2>4. QED
    BY <2>1, <2>2, <2>3 DEF IInv, RevisionsAhead
<1>9. RevisionNamesContent'
  <2>1. ASSUME NEW d \in Chats, NEW p \in seen'[d], NEW r \in seen'[d], p.rev = r.rev
        PROVE  p = r
    <3>1. \A x, y \in seen[d] : x.rev = y.rev => x = y
      BY DEF IInv, RevisionNamesContent
    <3>2. mem[d] \in seen[d]
      BY <1>8 DEF IInv, RevisionsAhead
    <3>3. QED
      BY <2>1, <3>1, <3>2, <1>8
  <2>2. QED
    BY <2>1 DEF RevisionNamesContent
<1>10. RevisionsAhead'
  <2>1. ASSUME NEW d \in Chats, seen'[d] # {}
        PROVE  /\ mem'[d] \in seen'[d]
               /\ \A p \in seen'[d] : p.rev <= mem'[d].rev
               /\ disk'[d] = mem'[d] \/ disk'[d].rev > mem'[d].rev
    <3>1. mem'[d] \in seen'[d]
      BY <2>1, <1>8
    <3>2. \A p \in seen'[d] : p.rev <= mem'[d].rev
      BY <2>1, <1>8
    <3>3. disk'[d] = mem'[d] \/ disk'[d].rev > mem'[d].rev
      <4>1. CASE o = "ok"
        BY <4>1, <1>1, <1>3
      <4>2. CASE o # "ok" /\ o # "unwritten"
        <5>1. mem' = mem /\ disk' = new
          BY <4>2, <1>1, <1>3
        <5>2. QED
          BY <5>1, <1>2, <1>8, <2>1
      <4>3. CASE o = "unwritten"
        <5>1. mem' = mem /\ disk' = disk
          BY <4>3, <1>1, <1>3
        <5>2. QED
          BY <5>1, <1>8, <2>1 DEF IInv, RevisionsAhead
      <4>4. QED
        BY <4>1, <4>2, <4>3
    <3>4. QED
      BY <3>1, <3>2, <3>3
  <2>2. QED
    BY <2>1 DEF RevisionsAhead
<1>11. QED
  BY <1>1, <1>6, <1>7, <1>9, <1>10

\* Claimed items stay apart when the queue gains only a new id.
LEMMA ClaimsKept ==
    ASSUME IInv, NEW c \in Chats, NEW next, NEW o \in PersistOutcomes,
           Commit(c, next, o), claimed' = claimed,
           newestId' \in Nat, newestId <= newestId',
           \A x \in Held(next) : x \in Held(mem[c]) \/ x > newestId
    PROVE  ClaimsApart'
<1>1. mem' = mem \/ mem' = [mem EXCEPT ![c] = next]
  BY DEF Commit
<1>2. mem \in [Chats -> Queue] /\ newestId \in Nat
  BY DEF IInv, ClientsTypeOK, StoreTypeOK, Image
<1>3. ASSUME NEW d \in Chats, NEW x \in claimed'[d]
      PROVE  /\ x.id \in 1..newestId'
             /\ x.id \notin Held(mem'[d])
             /\ \A y \in claimed'[d] : y.id = x.id => y = x
  <2>1. /\ x.id \in 1..newestId /\ x.id \notin Held(mem[d])
        /\ \A y \in claimed[d] : y.id = x.id => y = x
    BY <1>3 DEF IInv, ClaimsApart
  <2>2. mem'[d] = mem[d] \/ (d = c /\ mem'[d] = next)
    BY <1>1, <1>2
  <2>3. x.id \notin Held(mem'[d])
    BY <2>1, <2>2, <1>2
  <2>4. x.id \in 1..newestId'
    BY <2>1, <1>2
  <2>5. QED
    BY <2>1, <2>3, <2>4
<1>4. QED
  BY <1>3 DEF ClaimsApart

-----------------------------------------------------------------------------
(***************************************************************************)
(* One lemma per action.                                                   *)
(***************************************************************************)

\* What IInv says of one queue in memory.
LEMMA MemGood ==
    ASSUME IInv, NEW c \in Chats
    PROVE  /\ Good(mem[c], newestId) /\ mem[c] \in Queue /\ newestId \in Nat
           /\ mem[c].rev \in Nat
           /\ \A p \in promised : p[1] \in Chats /\ p[2] \in Nat
           /\ \A p \in promised : p[1] = c => p[2] \in Held(mem[c])
  BY DEF IInv, ClientsTypeOK, ImagesGood, Good, Queue, AcknowledgedItemsSurvive

\* Append preserves the invariant.
LEMMA AppendKeeps ==
    ASSUME IInv, NEW c \in Chats, NEW op \in Payloads, NEW o \in PersistOutcomes,
           Append1(c, op, o)
    PROVE  IInv'
<1> DEFINE item == NewItem(newestId + 1, op)
           next == Appended(mem[c], item)
<1>1. newestId \in Nat /\ Good(mem[c], newestId) /\ mem[c] \in Queue
  BY MemGood
<1>2. item \in Item /\ item.id = newestId + 1
  BY <1>1 DEF NewItem, Item
<1>3. newestId' = newestId + 1 /\ newestId' \in Nat /\ newestId <= newestId'
  BY <1>1 DEF Append1
<1>4. Good(next, newestId') /\ Held(next) = Held(mem[c]) \cup {newestId'}
  BY <1>1, <1>2, <1>3, AppendedGood
<1>5. next.rev = mem[c].rev + 1
  BY DEF Appended, WithItems, WithDispatch
<1>6. Commit(c, next, o) /\ Fault(o) /\ Observe /\ claimed' = claimed
  BY DEF Append1, StoreAppend
<1> HIDE DEF item, next
<1>7. /\ promised' \in SUBSET (Chats \X Nat)
      /\ \A p \in promised' : /\ p \in promised \/ (o = "ok" /\ p[1] = c)
                              /\ p[1] = c => p[2] \in Held(next)
  <2>1. promised' = IF o = "ok" THEN promised \cup {<<c, newestId'>>} ELSE promised
    BY <1>3 DEF Append1
  <2>2. QED
    BY <2>1, <1>3, <1>4, MemGood DEF IInv, ClientsTypeOK
<1>8. claimed' \in [Chats -> SUBSET Item]
  BY <1>6 DEF IInv, ClientsTypeOK
<1>9. ClaimsApart'
  BY <1>1, <1>3, <1>4, <1>6, ClaimsKept
<1>10. QED
  BY <1>3, <1>4, <1>5, <1>6, <1>7, <1>8, <1>9, CallKeeps DEF IInv

\* The calls that give no id and leave the claims alone: it is enough that
\* the new queue is good and that what it lost is not promised any more.
LEMMA ShrinkKeeps ==
    ASSUME IInv, NEW c \in Chats, NEW next, NEW o \in PersistOutcomes,
           Commit(c, next, o), Fault(o), Observe, newestId' = newestId, claimed' = claimed,
           Good(next, newestId), next.rev = mem[c].rev + 1,
           Held(next) \subseteq Held(mem[c]),
           promised' \subseteq promised,
           \A p \in promised' : p[1] = c => p[2] \in Held(next)
    PROVE  IInv'
<1>1. newestId \in Nat /\ newestId' \in Nat /\ newestId <= newestId' /\ Good(next, newestId')
  BY MemGood
<1>2. claimed' \in [Chats -> SUBSET Item] /\ promised' \in SUBSET (Chats \X Nat)
  BY DEF IInv, ClientsTypeOK
<1>3. ClaimsApart'
  BY <1>1, ClaimsKept
<1>4. QED
  BY <1>1, <1>2, <1>3, CallKeeps DEF IInv

\* The revision a rebuilt queue gets.
LEMMA NextRevision ==
    ASSUME NEW qu, NEW items, NEW disp
    PROVE  /\ WithItems(qu, items).rev = qu.rev + 1
           /\ WithDispatch(qu, items, disp).rev = qu.rev + 1
  BY DEF WithItems, WithDispatch

\* Remove, Move, Clear and Bump preserve the invariant.
LEMMA EditKeeps ==
    ASSUME IInv, NEW c \in Chats, NEW o \in PersistOutcomes,
           \/ \E id \in 1..MaxAppends : Remove1(c, id, o)
           \/ \E id \in 1..MaxAppends, to \in -1..MaxAppends : Move1(c, id, to, o)
           \/ Clear1(c, o)
           \/ Bump1(c, o)
    PROVE  IInv'
<1>1. /\ newestId \in Nat /\ Good(mem[c], newestId)
      /\ \A p \in promised : p[1] \in Chats /\ p[2] \in Nat
      /\ \A p \in promised : p[1] = c => p[2] \in Held(mem[c])
      /\ promised \in SUBSET (Chats \X Nat)
  BY MemGood DEF IInv, ClientsTypeOK
<1>2. ASSUME NEW id \in 1..MaxAppends, Remove1(c, id, o) PROVE IInv'
  <2> DEFINE next == Removed(mem[c], id)
  <2>1. /\ Commit(c, next, o) /\ Fault(o) /\ Observe /\ newestId' = newestId
        /\ claimed' = claimed /\ promised' = promised \ {<<c, id>>} /\ Queued(mem[c].items, id)
    BY <1>2 DEF Remove1, StoreRemove
  <2>2. Good(next, newestId) /\ Held(next) = Held(mem[c]) \ {id}
    BY <1>1, <2>1, RemovedGood
  <2>3. next.rev = mem[c].rev + 1
    BY NextRevision DEF Removed
  <2> HIDE DEF next
  <2>4. \A p \in promised' : p[1] = c => p[2] \in Held(next)
    <3>1. \A p \in promised : p = <<p[1], p[2]>>
      BY <1>1
    <3>2. QED
      BY <3>1, <1>1, <2>1, <2>2
  <2>5. QED
    BY <2>1, <2>2, <2>3, <2>4, ShrinkKeeps
<1>3. ASSUME NEW id \in 1..MaxAppends, NEW to \in -1..MaxAppends, Move1(c, id, to, o) PROVE IInv'
  <2> DEFINE next == Moved(mem[c], id, to)
  <2>1. /\ Commit(c, next, o) /\ Fault(o) /\ Observe /\ newestId' = newestId
        /\ claimed' = claimed /\ promised' = promised /\ Queued(mem[c].items, id)
    BY <1>3 DEF Move1, StoreMove
  <2>2. Good(next, newestId) /\ Held(next) = Held(mem[c])
    <3>1. to \in Int
      BY MaxAppendsAssumption
    <3>2. QED
      BY <1>1, <2>1, <3>1, MovedGood
  <2>3. next.rev = mem[c].rev + 1
    BY NextRevision DEF Moved
  <2> HIDE DEF next
  <2>4. QED
    BY <1>1, <2>1, <2>2, <2>3, ShrinkKeeps
<1>4. CASE Clear1(c, o)
  <2> DEFINE next == Cleared(mem[c])
  <2>1. /\ Commit(c, next, o) /\ Fault(o) /\ Observe /\ newestId' = newestId
        /\ claimed' = claimed /\ promised' = promised \ {<<c, id>> : id \in Ids(mem[c].items)}
    BY <1>4 DEF Clear1, StoreClear
  <2>2. Good(next, newestId) /\ Held(next) = Held(mem[c]) \ Ids(mem[c].items)
    BY <1>1, ClearedGood
  <2>3. next.rev = mem[c].rev + 1
    BY NextRevision DEF Cleared
  <2> HIDE DEF next
  <2>4. \A p \in promised' : p[1] = c => p[2] \in Held(next)
    <3>1. \A p \in promised : p = <<p[1], p[2]>>
      BY <1>1
    <3>2. QED
      BY <3>1, <1>1, <2>1, <2>2
  <2>5. QED
    BY <2>1, <2>2, <2>3, <2>4, ShrinkKeeps
<1>5. CASE Bump1(c, o)
  <2> DEFINE next == Bumped(mem[c])
  <2>1. /\ Commit(c, next, o) /\ Fault(o) /\ Observe /\ newestId' = newestId
        /\ claimed' = claimed /\ promised' = promised
    BY <1>5 DEF Bump1, StoreBump
  <2>2. Good(next, newestId) /\ Held(next) = Held(mem[c])
    BY <1>1, BumpedGood
  <2>3. next.rev = mem[c].rev + 1
    BY NextRevision DEF Bumped
  <2> HIDE DEF next
  <2>4. QED
    BY <1>1, <2>1, <2>2, <2>3, ShrinkKeeps
<1>6. QED
  BY <1>2, <1>3, <1>4, <1>5

\* BeginDispatch, MarkDispatchAttempted, CompleteDispatch and RestoreDispatch
\* preserve the invariant.
LEMMA DispatchKeeps ==
    ASSUME IInv, NEW c \in Chats, NEW o \in PersistOutcomes,
           \/ Begin1(c, o)
           \/ \E id \in 1..MaxAppends : Mark1(c, id, o) \/ Complete1(c, id, o) \/ Restore1(c, id, o)
    PROVE  IInv'
<1>1. /\ newestId \in Nat /\ Good(mem[c], newestId)
      /\ \A p \in promised : p[1] \in Chats /\ p[2] \in Nat
      /\ \A p \in promised : p[1] = c => p[2] \in Held(mem[c])
      /\ promised \in SUBSET (Chats \X Nat)
  BY MemGood DEF IInv, ClientsTypeOK
<1>2. CASE Begin1(c, o)
  <2> DEFINE next == Reserved(mem[c])
  <2>1. /\ Commit(c, next, o) /\ Fault(o) /\ Observe /\ newestId' = newestId
        /\ claimed' = claimed /\ promised' = promised
        /\ mem[c].disp = NoItem /\ mem[c].items # <<>>
    BY <1>2 DEF Begin1, StoreBeginDispatch
  <2>2. Good(next, newestId) /\ Held(next) = Held(mem[c])
    BY <1>1, <2>1, ReservedGood
  <2>3. next.rev = mem[c].rev + 1
    BY NextRevision DEF Reserved
  <2> HIDE DEF next
  <2>4. QED
    BY <1>1, <2>1, <2>2, <2>3, ShrinkKeeps
<1>3. ASSUME NEW id \in 1..MaxAppends, Mark1(c, id, o) PROVE IInv'
  <2> DEFINE next == Attempted(mem[c], 0)
  <2>1. /\ Commit(c, next, o) /\ Fault(o) /\ Observe /\ newestId' = newestId
        /\ claimed' = claimed /\ promised' = promised /\ mem[c].disp # NoItem
    BY <1>3 DEF Mark1, StoreMarkAttempted, Dispatching
  <2>2. Good(next, newestId) /\ Held(next) = Held(mem[c])
    BY <1>1, <2>1, AttemptedGood
  <2>3. next.rev = mem[c].rev + 1
    BY NextRevision DEF Attempted
  <2> HIDE DEF next
  <2>4. QED
    BY <1>1, <2>1, <2>2, <2>3, ShrinkKeeps
<1>4. ASSUME NEW id \in 1..MaxAppends, Complete1(c, id, o) PROVE IInv'
  <2> DEFINE next == Completed(mem[c])
  <2>1. /\ Commit(c, next, o) /\ Fault(o) /\ Observe /\ newestId' = newestId
        /\ claimed' = claimed /\ promised' = promised \ {<<c, id>>}
        /\ mem[c].disp # NoItem /\ mem[c].disp.id = id
    BY <1>4 DEF Complete1, StoreCompleteDispatch, Dispatching
  <2>2. Good(next, newestId) /\ Held(next) = Held(mem[c]) \ {id}
    BY <1>1, <2>1, CompletedGood
  <2>3. next.rev = mem[c].rev + 1
    BY NextRevision DEF Completed
  <2> HIDE DEF next
  <2>4. \A p \in promised' : p[1] = c => p[2] \in Held(next)
    <3>1. \A p \in promised : p = <<p[1], p[2]>>
      BY <1>1
    <3>2. QED
      BY <3>1, <1>1, <2>1, <2>2
  <2>5. QED
    BY <2>1, <2>2, <2>3, <2>4, ShrinkKeeps
<1>5. ASSUME NEW id \in 1..MaxAppends, Restore1(c, id, o) PROVE IInv'
  <2> DEFINE next == Restored(mem[c])
  <2>1. /\ Commit(c, next, o) /\ Fault(o) /\ Observe /\ newestId' = newestId
        /\ claimed' = claimed /\ promised' = promised /\ mem[c].disp # NoItem
    BY <1>5 DEF Restore1, StoreRestoreDispatch, Dispatching
  <2>2. Good(next, newestId) /\ Held(next) = Held(mem[c])
    BY <1>1, <2>1, RestoredGood
  <2>3. next.rev = mem[c].rev + 1
    BY NextRevision DEF Restored
  <2> HIDE DEF next
  <2>4. QED
    BY <1>1, <2>1, <2>2, <2>3, ShrinkKeeps
<1>6. QED
  BY <1>2, <1>3, <1>4, <1>5

\* ClaimHead preserves the invariant: the head leaves the queue as it enters
\* the caller's hands.
LEMMA ClaimKeeps ==
    ASSUME IInv, NEW c \in Chats, NEW o \in PersistOutcomes, Claim1(c, o)
    PROVE  IInv'
<1> DEFINE next == Claimed(mem[c])
           h == Head(mem[c].items)
<1>1. /\ newestId \in Nat /\ Good(mem[c], newestId)
      /\ \A p \in promised : p[1] = c => p[2] \in Held(mem[c])
      /\ promised \in SUBSET (Chats \X Nat) /\ claimed \in [Chats -> SUBSET Item]
      /\ mem \in [Chats -> Queue]
  BY MemGood DEF IInv, ClientsTypeOK, StoreTypeOK, Image
<1>2. /\ Commit(c, next, o) /\ Fault(o) /\ Observe /\ newestId' = newestId
      /\ promised' = promised \ {<<c, h.id>>} /\ mem[c].items # <<>>
      /\ claimed' = IF o = "ok" THEN [claimed EXCEPT ![c] = @ \cup {h}] ELSE claimed
  BY DEF Claim1, StoreClaimHead
<1>3. /\ Good(next, newestId) /\ h \in Item /\ h.id \in Held(mem[c])
      /\ Held(next) = Held(mem[c]) \ {h.id}
  BY <1>1, <1>2, ClaimedGood
<1>4. next.rev = mem[c].rev + 1
  BY NextRevision DEF Claimed
<1>5. mem' = IF o = "ok" THEN [mem EXCEPT ![c] = next] ELSE mem
  BY <1>2 DEF Commit
<1> HIDE DEF next, h
<1>6. claimed' \in [Chats -> SUBSET Item]
  BY <1>1, <1>2, <1>3
<1>7. /\ promised' \in SUBSET (Chats \X Nat)
      /\ \A p \in promised' : p \in promised /\ (p[1] = c => p[2] \in Held(next))
  <2>1. \A p \in promised : p = <<p[1], p[2]>>
    BY <1>1
  <2>2. QED
    BY <2>1, <1>1, <1>2, <1>3
<1>8. ClaimsApart'
  <2>1. CASE o # "ok"
    BY <2>1, <1>2, <1>5 DEF IInv, ClaimsApart
  <2>2. CASE o = "ok"
    <3>1. ASSUME NEW d \in Chats, d # c PROVE claimed'[d] = claimed[d] /\ mem'[d] = mem[d]
      BY <2>2, <3>1, <1>1, <1>2, <1>5
    <3>2. claimed'[c] = claimed[c] \cup {h} /\ mem'[c] = next
      BY <2>2, <1>1, <1>2, <1>5
    <3>3. h.id \in 1..newestId
      BY <1>1, <1>3 DEF Good
    <3>4. ASSUME NEW x \in claimed[c]
          PROVE  /\ x.id \in 1..newestId /\ x.id \notin Held(mem[c])
                 /\ \A y \in claimed[c] : y.id = x.id => y = x
      BY DEF IInv, ClaimsApart
    <3>5. ASSUME NEW x \in claimed'[c]
          PROVE  /\ x.id \in 1..newestId' /\ x.id \notin Held(mem'[c])
                 /\ \A y \in claimed'[c] : y.id = x.id => y = x
      BY <3>2, <3>3, <3>4, <1>2, <1>3
    <3>6. ASSUME NEW d \in Chats, d # c, NEW x \in claimed'[d]
          PROVE  /\ x.id \in 1..newestId' /\ x.id \notin Held(mem'[d])
                 /\ \A y \in claimed'[d] : y.id = x.id => y = x
      BY <3>1, <3>6, <1>2 DEF IInv, ClaimsApart
    <3>7. QED
      BY <3>5, <3>6 DEF ClaimsApart
  <2>3. QED
    BY <2>1, <2>2
<1>9. QED
  BY <1>1, <1>2, <1>3, <1>4, <1>6, <1>7, <1>8, CallKeeps DEF IInv

\* RestoreHead preserves the invariant: the item it puts back was in the
\* caller's hands only.
LEMMA UnclaimKeeps ==
    ASSUME IInv, NEW c \in Chats, NEW o \in PersistOutcomes,
           NEW item \in claimed[c], Unclaim1(c, item, o)
    PROVE  IInv'
<1> DEFINE next == Unclaimed(mem[c], item)
<1>1. /\ newestId \in Nat /\ Good(mem[c], newestId)
      /\ \A p \in promised : p[1] = c => p[2] \in Held(mem[c])
      /\ promised \in SUBSET (Chats \X Nat) /\ claimed \in [Chats -> SUBSET Item]
      /\ mem \in [Chats -> Queue]
  BY MemGood DEF IInv, ClientsTypeOK, StoreTypeOK, Image
<1>2. /\ Commit(c, next, o) /\ Fault(o) /\ Observe /\ newestId' = newestId
      /\ promised' = IF o = "ok" THEN promised \cup {<<c, item.id>>} ELSE promised
      /\ claimed' = IF o = "ok" THEN [claimed EXCEPT ![c] = @ \ {item}] ELSE claimed
  BY DEF Unclaim1, StoreRestoreHead
<1>3. item \in Item /\ item.id \in Nat /\ item.id \in 1..newestId /\ item.id \notin Held(mem[c])
  BY <1>1 DEF IInv, ClaimsApart
<1>4. Good(next, newestId) /\ Held(next) = Held(mem[c]) \cup {item.id}
  BY <1>1, <1>3, UnclaimedGood
<1>5. next.rev = mem[c].rev + 1
  BY NextRevision DEF Unclaimed
<1>6. mem' = IF o = "ok" THEN [mem EXCEPT ![c] = next] ELSE mem
  BY <1>2 DEF Commit
<1> HIDE DEF next
<1>7. claimed' \in [Chats -> SUBSET Item]
  BY <1>1, <1>2
<1>8. /\ promised' \in SUBSET (Chats \X Nat)
      /\ \A p \in promised' : /\ p \in promised \/ (o = "ok" /\ p[1] = c)
                              /\ p[1] = c => p[2] \in Held(next)
  BY <1>1, <1>2, <1>3, <1>4
<1>9. ClaimsApart'
  <2>1. CASE o # "ok"
    BY <2>1, <1>2, <1>6 DEF IInv, ClaimsApart
  <2>2. CASE o = "ok"
    <3>1. ASSUME NEW d \in Chats, d # c PROVE claimed'[d] = claimed[d] /\ mem'[d] = mem[d]
      BY <2>2, <3>1, <1>1, <1>2, <1>6
    <3>2. claimed'[c] = claimed[c] \ {item} /\ mem'[c] = next
      BY <2>2, <1>1, <1>2, <1>6
    <3>3. ASSUME NEW x \in claimed[c]
          PROVE  /\ x.id \in 1..newestId /\ x.id \notin Held(mem[c])
                 /\ \A y \in claimed[c] : y.id = x.id => y = x
      BY DEF IInv, ClaimsApart
    <3>4. ASSUME NEW x \in claimed'[c]
          PROVE  /\ x.id \in 1..newestId' /\ x.id \notin Held(mem'[c])
                 /\ \A y \in claimed'[c] : y.id = x.id => y = x
      <4>1. x \in claimed[c] /\ x # item /\ x.id # item.id
        BY <3>2, <3>3
      <4>2. QED
        BY <4>1, <3>2, <3>3, <1>2, <1>4
    <3>5. ASSUME NEW d \in Chats, d # c, NEW x \in claimed'[d]
          PROVE  /\ x.id \in 1..newestId' /\ x.id \notin Held(mem'[d])
                 /\ \A y \in claimed'[d] : y.id = x.id => y = x
      BY <3>1, <3>5, <1>2 DEF IInv, ClaimsApart
    <3>6. QED
      BY <3>4, <3>5 DEF ClaimsApart
  <2>3. QED
    BY <2>1, <2>2
<1>10. QED
  BY <1>1, <1>2, <1>4, <1>5, <1>7, <1>8, <1>9, CallKeeps DEF IInv

\* Delete preserves the invariant: nothing of the chat is promised or compared
\* any more, and the other chats keep what they have in every file.
LEMMA DeleteKeeps ==
    ASSUME IInv, NEW c \in Chats, NEW o \in PersistOutcomes, Delete1(c, o)
    PROVE  IInv'
<1> DEFINE new == [mem EXCEPT ![c] = EmptyQueue]
<1>1. /\ newestId \in Nat /\ promised \in SUBSET (Chats \X Nat)
      /\ claimed \in [Chats -> SUBSET Item] /\ mem \in [Chats -> Queue]
      /\ seen \in [Chats -> SUBSET Queue]
  BY DEF IInv, ClientsTypeOK, StoreTypeOK, Image
<1>2. /\ Commit(c, EmptyQueue, o) /\ Fault(o) /\ newestId' = newestId /\ claimed' = claimed
      /\ promised' = {p \in promised : p[1] # c} /\ seen' = [seen EXCEPT ![c] = {}]
  BY DEF Delete1, StoreDelete
<1>3. Good(EmptyQueue, newestId) /\ Held(EmptyQueue) = {}
  BY <1>1, EmptyGood
<1>4. /\ StoreTypeOK' /\ ImagesGood'
      /\ mem' = IF o = "ok" THEN new ELSE mem
      /\ durable' \cup {mem'} \subseteq durable \cup {mem, new}
  BY <1>1, <1>2, <1>3, CommitGood DEF IInv
<1>5. disk' = IF o = "unwritten" THEN disk ELSE new
  BY <1>2 DEF Commit
<1>6. \A d \in Chats : d # c => new[d] = mem[d]
  BY <1>1
<1> HIDE DEF new
<1>7. ClientsTypeOK'
  <2>1. faults' \in Nat
    BY <1>2 DEF Fault, IInv, ClientsTypeOK
  <2>2. QED
    BY <2>1, <1>1, <1>2, <1>4 DEF ClientsTypeOK
<1>8. ClaimsApart'
  BY <1>1, <1>2, <1>3, ClaimsKept
<1>9. AcknowledgedItemsSurvive'
  <2>1. ASSUME NEW p \in promised', NEW img \in durable' \cup {mem'} PROVE p[2] \in Held(img[p[1]])
    <3>1. p \in promised /\ p[1] \in Chats /\ p[1] # c
      BY <1>1, <1>2
    <3>2. \A old \in durable \cup {mem} : p[2] \in Held(old[p[1]])
      BY <3>1 DEF IInv, AcknowledgedItemsSurvive
    <3>3. QED
      BY <3>1, <3>2, <1>4, <1>6
  <2>2. QED
    BY <2>1 DEF AcknowledgedItemsSurvive
<1>10. RevisionNamesContent'
  BY <1>1, <1>2 DEF IInv, RevisionNamesContent
<1>11. RevisionsAhead'
  <2>1. ASSUME NEW d \in Chats, seen'[d] # {}
        PROVE  /\ mem'[d] \in seen'[d]
               /\ \A p \in seen'[d] : p.rev <= mem'[d].rev
               /\ disk'[d] = mem'[d] \/ disk'[d].rev > mem'[d].rev
    <3>1. d # c /\ seen'[d] = seen[d]
      BY <2>1, <1>1, <1>2
    <3>2. mem'[d] = mem[d] /\ (disk'[d] = disk[d] \/ disk'[d] = mem[d])
      BY <3>1, <1>4, <1>5, <1>6
    <3>3. QED
      BY <2>1, <3>1, <3>2 DEF IInv, RevisionsAhead
  <2>2. QED
    BY <2>1 DEF RevisionsAhead
<1>12. QED
  BY <1>4, <1>7, <1>8, <1>9, <1>10, <1>11 DEF IInv

\* A restart preserves the invariant: the file it loads is a durable one, and
\* either what memory held or ahead of it.
LEMMA RestartKeeps ==
    ASSUME IInv, Restart
    PROVE  IInv'
<1>1. /\ mem' = disk /\ disk' = disk /\ durable' = durable /\ disk \in durable
      /\ claimed' = [c \in Chats |-> {}] /\ newestId' = newestId /\ promised' = promised
      /\ faults' = faults + 1 /\ Observe
  BY DEF IInv, ClientsTypeOK, StoreTypeOK, Restart, StoreRestart, Stopped, Fault
<1>2. /\ disk \in [Chats -> Queue] /\ mem \in [Chats -> Queue]
      /\ seen \in [Chats -> SUBSET Queue]
  BY DEF IInv, ClientsTypeOK, StoreTypeOK, Image
<1>3. ClientsTypeOK'
  <2>1. seen' \in [Chats -> SUBSET Queue]
    BY <1>1, <1>2 DEF Observe
  <2>2. QED
    BY <2>1, <1>1 DEF IInv, ClientsTypeOK, StoreTypeOK
<1>4. ImagesGood'
  BY <1>1 DEF IInv, ImagesGood
<1>5. ClaimsApart'
  BY <1>1 DEF ClaimsApart
<1>6. AcknowledgedItemsSurvive'
  BY <1>1 DEF IInv, AcknowledgedItemsSurvive
<1>7. ASSUME NEW c \in Chats, seen'[c] # {}
      PROVE  /\ seen[c] # {} /\ seen'[c] = seen[c] \cup {disk[c]} /\ mem[c] \in seen[c]
             /\ disk[c] = mem[c] \/ disk[c].rev > mem[c].rev
             /\ mem[c].rev \in Nat /\ disk[c].rev \in Nat
             /\ \A p \in seen[c] : p.rev \in Nat /\ p.rev <= mem[c].rev
  <2>1. seen[c] # {} /\ seen'[c] = seen[c] \cup {disk[c]}
    BY <1>1, <1>7 DEF Observe
  <2>2. mem[c].rev \in Nat /\ disk[c].rev \in Nat /\ \A p \in seen[c] : p.rev \in Nat
    BY <1>2 DEF Queue
  <2>3. QED
    BY <2>1, <2>2 DEF IInv, RevisionsAhead
<1>8. RevisionNamesContent'
  <2>1. ASSUME NEW c \in Chats, NEW p \in seen'[c], NEW r \in seen'[c], p.rev = r.rev
        PROVE  p = r
    <3>1. \A x, y \in seen[c] : x.rev = y.rev => x = y
      BY DEF IInv, RevisionNamesContent
    <3>2. QED
      BY <2>1, <3>1, <1>7
  <2>2. QED
    BY <2>1 DEF RevisionNamesContent
<1>9. RevisionsAhead'
  BY <1>1, <1>7 DEF RevisionsAhead
<1>10. QED
  BY <1>3, <1>4, <1>5, <1>6, <1>8, <1>9 DEF IInv

\* A power loss preserves the invariant: every image it can leave is good and
\* holds what is promised; the revisions start a new history.
LEMMA PowerLossKeeps ==
    ASSUME IInv, LosePower
    PROVE  IInv'
<1>1. PICK img \in durable : mem' = img /\ disk' = img /\ durable' = {img}
  BY DEF LosePower, StorePowerLoss
<1>2. /\ claimed' = [c \in Chats |-> {}] /\ newestId' = newestId /\ promised' = promised
      /\ faults' = faults + 1
      /\ seen' = [c \in Chats |-> IF seen[c] = {} THEN {} ELSE {mem'[c]}]
  BY DEF LosePower, Stopped, Fault
<1>3. img \in [Chats -> Queue]
  BY DEF IInv, ClientsTypeOK, StoreTypeOK, Image
<1>4. ClientsTypeOK'
  <2>1. seen' \in [Chats -> SUBSET Queue]
    BY <1>1, <1>2, <1>3
  <2>2. QED
    BY <2>1, <1>1, <1>2, <1>3 DEF IInv, ClientsTypeOK, StoreTypeOK, Image
<1>5. ImagesGood'
  BY <1>1, <1>2 DEF IInv, ImagesGood
<1>6. ClaimsApart'
  BY <1>2 DEF ClaimsApart
<1>7. AcknowledgedItemsSurvive'
  BY <1>1, <1>2 DEF IInv, AcknowledgedItemsSurvive
<1>8. RevisionNamesContent'
  BY <1>2 DEF RevisionNamesContent
<1>9. RevisionsAhead'
  <2>1. \A c \in Chats : mem'[c].rev \in Nat
    BY <1>1, <1>3 DEF Queue
  <2>2. QED
    BY <2>1, <1>1, <1>2 DEF RevisionsAhead
<1>10. QED
  BY <1>4, <1>5, <1>6, <1>7, <1>8, <1>9 DEF IInv

\* The empty store satisfies the invariant.
LEMMA InitInvariant == ClientsInit => IInv
<1> SUFFICES ASSUME ClientsInit PROVE IInv
  OBVIOUS
<1>1. /\ mem = [c \in Chats |-> EmptyQueue] /\ disk = mem /\ durable = {mem}
      /\ newestId = 0 /\ claimed = [c \in Chats |-> {}] /\ promised = {}
      /\ seen = [c \in Chats |-> {EmptyQueue}] /\ faults = 0
  BY DEF ClientsInit, StoreInit
<1>2. Good(EmptyQueue, 0) /\ EmptyQueue \in Queue /\ EmptyQueue.rev = 0
  BY EmptyGood DEF Good, EmptyQueue
<1>3. ClientsTypeOK
  BY <1>1, <1>2 DEF ClientsTypeOK, StoreTypeOK, Image
<1>4. ImagesGood
  BY <1>1, <1>2 DEF ImagesGood
<1>5. ClaimsApart /\ AcknowledgedItemsSurvive
  BY <1>1 DEF ClaimsApart, AcknowledgedItemsSurvive
<1>6. RevisionNamesContent /\ RevisionsAhead
  BY <1>1, <1>2 DEF RevisionNamesContent, RevisionsAhead
<1>7. QED
  BY <1>3, <1>4, <1>5, <1>6 DEF IInv

\* Every step of the store preserves the invariant.
LEMMA NextInvariant == IInv /\ [ClientsNext]_clientsVars => IInv'
<1> SUFFICES ASSUME IInv, [ClientsNext]_clientsVars PROVE IInv'
  OBVIOUS
<1>1. ASSUME NEW c \in Chats, NEW o \in PersistOutcomes, ClientCall(c, o) PROVE IInv'
  <2>1. CASE \E op \in Payloads : Append1(c, op, o)
    BY <2>1, AppendKeeps
  <2>2. CASE \/ \E id \in 1..MaxAppends : Remove1(c, id, o)
             \/ \E id \in 1..MaxAppends, to \in -1..MaxAppends : Move1(c, id, to, o)
             \/ Clear1(c, o)
             \/ Bump1(c, o)
    BY <2>2, EditKeeps
  <2>3. CASE \/ Begin1(c, o)
             \/ \E id \in 1..MaxAppends :
                   Mark1(c, id, o) \/ Complete1(c, id, o) \/ Restore1(c, id, o)
    BY <2>3, DispatchKeeps
  <2>4. CASE Claim1(c, o)
    BY <2>4, ClaimKeeps
  <2>5. CASE \E item \in claimed[c] : Unclaim1(c, item, o)
    BY <2>5, UnclaimKeeps
  <2>6. CASE Delete1(c, o)
    BY <2>6, DeleteKeeps
  <2>7. QED
    BY <1>1, <2>1, <2>2, <2>3, <2>4, <2>5, <2>6 DEF ClientCall
<1>2. CASE Restart
  BY <1>2, RestartKeeps
<1>3. CASE LosePower
  BY <1>3, PowerLossKeeps
<1>4. CASE UNCHANGED clientsVars
  BY <1>4 DEF clientsVars, IInv, ClientsTypeOK, StoreTypeOK, ImagesGood, ClaimsApart,
      AcknowledgedItemsSurvive, RevisionNamesContent, RevisionsAhead
<1>5. QED
  BY <1>1, <1>2, <1>3, <1>4 DEF ClientsNext

\* The invariant holds in every reachable state of the store.
LEMMA Invariant == ClientsSpec => []IInv
  BY InitInvariant, NextInvariant, PTL DEF ClientsSpec

-----------------------------------------------------------------------------
(***************************************************************************)
(* The theorems.                                                           *)
(***************************************************************************)

\* The store's memory, the file and every file a power loss may leave are
\* well formed whatever calls fail: each method writes a whole queue.
THEOREM TypeCorrect == ClientsSpec => []ClientsTypeOK
<1>1. IInv => ClientsTypeOK
  BY DEF IInv
<1>2. QED
  BY <1>1, Invariant, PTL

\* An append that returned success is in memory and in every file a stop may
\* leave until a caller asks to take it out (commitLocked and persistLocked).
THEOREM Survives == ClientsSpec => []AcknowledgedItemsSurvive
<1>1. IInv => AcknowledgedItemsSurvive
  BY DEF IInv
<1>2. QED
  BY <1>1, Invariant, PTL

\* No memory state and no file holds an item twice, however BeginDispatch,
\* RestoreDispatch, ClaimHead and RestoreHead interleave and fail.
THEOREM HeldOnce == ClientsSpec => []ItemHeldOnce
<1>1. IInv => ItemHeldOnce
  BY DEF IInv, ImagesGood, Good, ItemHeldOnce
<1>2. QED
  BY <1>1, Invariant, PTL

\* Two snapshots with one revision have one content, across failed writes and
\* restarts: every method raises the revision of the queue it writes.
THEOREM Revisions == ClientsSpec => []RevisionNamesContent
<1>1. IInv => RevisionNamesContent
  BY DEF IInv
<1>2. QED
  BY <1>1, Invariant, PTL

-----------------------------------------------------------------------------
(***************************************************************************)
(* DispatchIsSticky needs one fact that IInv does not have: when memory    *)
(* and the file both have a dispatch, it is the same item's, although a    *)
(* failed write may have left the file ahead.  Each call's next queue      *)
(* agrees with the queue it replaces.                                      *)
(***************************************************************************)
AgreeOnDispatch(p, q) == p.disp # NoItem /\ q.disp # NoItem => p.disp.id = q.disp.id

DispatchAgrees == \A c \in Chats : AgreeOnDispatch(mem[c], disk[c])

\* Every method leaves the dispatch to the item that has it.
LEMMA CallAgrees ==
    ASSUME IInv, NEW c \in Chats, NEW o \in PersistOutcomes, ClientCall(c, o)
    PROVE  \E next : Commit(c, next, o) /\ AgreeOnDispatch(mem[c], next)
<1>1. mem[c] \in Queue
  BY MemGood
<1>2. ASSUME NEW items PROVE AgreeOnDispatch(mem[c], WithItems(mem[c], items))
  BY DEF AgreeOnDispatch, WithItems, WithDispatch
<1>3. ASSUME NEW items PROVE AgreeOnDispatch(mem[c], WithDispatch(mem[c], items, NoItem))
  BY DEF AgreeOnDispatch, WithDispatch
<1>4. CASE \E op \in Payloads : Append1(c, op, o)
  BY <1>2, <1>4 DEF Append1, StoreAppend, Appended
<1>5. CASE \E id \in 1..MaxAppends : Remove1(c, id, o)
  BY <1>2, <1>5 DEF Remove1, StoreRemove, Removed
<1>6. CASE \E id \in 1..MaxAppends, to \in -1..MaxAppends : Move1(c, id, to, o)
  BY <1>2, <1>6 DEF Move1, StoreMove, Moved
<1>7. CASE Clear1(c, o)
  BY <1>2, <1>7 DEF Clear1, StoreClear, Cleared
<1>8. CASE Begin1(c, o)
  BY <1>8 DEF Begin1, StoreBeginDispatch, AgreeOnDispatch
<1>9. CASE \E id \in 1..MaxAppends : Mark1(c, id, o)
  <2> DEFINE next == Attempted(mem[c], 0)
  <2>1. Commit(c, next, o) /\ mem[c].disp # NoItem
    BY <1>9 DEF Mark1, StoreMarkAttempted, Dispatching
  <2>2. mem[c].disp \in Item
    BY <1>1, <2>1, QueueParts
  <2>3. next.disp.id = mem[c].disp.id
    BY <2>2 DEF Attempted, WithDispatch, Item
  <2> HIDE DEF next
  <2>4. QED
    BY <2>1, <2>3 DEF AgreeOnDispatch
<1>10. CASE \E id \in 1..MaxAppends : Complete1(c, id, o)
  BY <1>3, <1>10 DEF Complete1, StoreCompleteDispatch, Completed
<1>11. CASE \E id \in 1..MaxAppends : Restore1(c, id, o)
  BY <1>3, <1>11 DEF Restore1, StoreRestoreDispatch, Restored
<1>12. CASE Claim1(c, o)
  BY <1>2, <1>12 DEF Claim1, StoreClaimHead, Claimed
<1>13. CASE \E item \in claimed[c] : Unclaim1(c, item, o)
  BY <1>2, <1>13 DEF Unclaim1, StoreRestoreHead, Unclaimed
<1>14. CASE Bump1(c, o)
  BY <1>2, <1>14 DEF Bump1, StoreBump, Bumped
<1>15. CASE Delete1(c, o)
  BY <1>15 DEF Delete1, StoreDelete, AgreeOnDispatch, EmptyQueue
<1>16. QED
  BY <1>4, <1>5, <1>6, <1>7, <1>8, <1>9, <1>10, <1>11, <1>12, <1>13, <1>14, <1>15 DEF ClientCall

\* What a step may not do to the dispatch of a chat.
StepIsSticky ==
    \A c \in Chats : mem[c].disp # NoItem /\ mem'[c].disp # NoItem
                        => mem'[c].disp.id = mem[c].disp.id \/ LosePower

\* Every step keeps the dispatch in place and memory and file in agreement.
LEMMA StepAgrees ==
    ASSUME IInv, DispatchAgrees, [ClientsNext]_clientsVars
    PROVE  DispatchAgrees' /\ (StepIsSticky \/ UNCHANGED clientsVars)
<1>1. mem \in [Chats -> Queue]
  BY DEF IInv, ClientsTypeOK, StoreTypeOK, Image
<1>2. ASSUME NEW c \in Chats, NEW o \in PersistOutcomes, ClientCall(c, o)
      PROVE  DispatchAgrees' /\ StepIsSticky
  <2>1. PICK next : Commit(c, next, o) /\ AgreeOnDispatch(mem[c], next)
    BY <1>2, CallAgrees
  <2> DEFINE new == [mem EXCEPT ![c] = next]
  <2>2. /\ mem' = IF o = "ok" THEN new ELSE mem
        /\ disk' = IF o = "unwritten" THEN disk ELSE new
    BY <2>1 DEF Commit
  <2>3. \A d \in Chats : new[d] = IF d = c THEN next ELSE mem[d]
    BY <1>1
  <2> HIDE DEF new
  <2>4. \A d \in Chats : AgreeOnDispatch(mem[d], new[d])
    BY <2>1, <2>3 DEF AgreeOnDispatch
  <2>5. DispatchAgrees'
    <3>1. CASE o = "ok"
      BY <3>1, <2>2 DEF DispatchAgrees, AgreeOnDispatch
    <3>2. CASE o # "ok"
      <4>1. mem' = mem /\ (disk' = disk \/ disk' = new)
        BY <3>2, <2>2
      <4>2. QED
        BY <4>1, <2>4 DEF DispatchAgrees
    <3>3. QED
      BY <3>1, <3>2
  <2>6. StepIsSticky
    <3>1. mem' = mem \/ mem' = new
      BY <2>2
    <3>2. QED
      BY <3>1, <2>4 DEF StepIsSticky, AgreeOnDispatch
  <2>7. QED
    BY <2>5, <2>6
<1>3. CASE Restart
  <2>1. mem' = disk /\ disk' = disk
    BY <1>3 DEF Restart, StoreRestart
  <2>2. QED
    BY <2>1 DEF DispatchAgrees, AgreeOnDispatch, StepIsSticky
<1>4. CASE LosePower
  <2>1. mem' = disk'
    BY <1>4 DEF LosePower, StorePowerLoss
  <2>2. QED
    BY <1>4, <2>1 DEF DispatchAgrees, AgreeOnDispatch, StepIsSticky
<1>5. CASE UNCHANGED clientsVars
  BY <1>5 DEF clientsVars, DispatchAgrees
<1>6. QED
  BY <1>2, <1>3, <1>4, <1>5 DEF ClientsNext

\* BeginDispatch never replaces a dispatch, and a restart finds the one the
\* dead process had or none: only completing or restoring it makes room.
THEOREM Sticky == ClientsSpec => DispatchIsSticky
<1>1. ClientsInit => DispatchAgrees
  BY DEF ClientsInit, StoreInit, DispatchAgrees, AgreeOnDispatch
<1>2. IInv /\ DispatchAgrees /\ [ClientsNext]_clientsVars => DispatchAgrees'
  BY StepAgrees
<1>3. IInv /\ DispatchAgrees /\ [ClientsNext]_clientsVars => [StepIsSticky]_clientsVars
  BY StepAgrees
<1>4. ClientsSpec => [][StepIsSticky]_clientsVars
  BY <1>1, <1>2, <1>3, Invariant, PTL DEF ClientsSpec
<1>5. QED
  BY <1>4 DEF DispatchIsSticky, StepIsSticky

=============================================================================
