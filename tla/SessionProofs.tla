----------------------------- MODULE SessionProofs -----------------------------
(***************************************************************************)
(* Proofs about the sends of one chat, for every set of request ids, every *)
(* capacity of the ledger and of the table of calls, and every number of   *)
(* sends, losses, unloads, reopenings and evictions:                       *)
(*   SendsEnd        no send is forgotten half way (NoLimbo);              *)
(*   SendsHappenOnce a request id reaches the engine once and its outcome  *)
(*                   is true (SentOnce), unless one process both stops the *)
(*                   session and loses its connection.                     *)
(***************************************************************************)
EXTENDS Session, WellFoundedInduction, TLAPS

-----------------------------------------------------------------------------
(***************************************************************************)
(* Shapes.                                                                 *)
(***************************************************************************)

SendKinds == {"prompt", "steer"}
Sending(c) == c.k \in SendKinds

Errors == {"nil", "unknown", "resumable", "closed", "hard"}
Operation == [phase : {"none", "admitted", "retrying", "terminal"}, err : Errors, published : BOOLEAN]
Operations == [Requests -> Operation]
Writes == SUBSET (Nat \X Requests)
Counts == [Requests -> Nat]
Ledger == [ops : Operations, fifo : Seq(Requests), writes : Writes, forgot : Counts]

CallFields == {"id", "g", "k", "n", "req", "ep", "retry", "of", "rev", "res", "shut", "snap"}
JobFields == {"pc", "req", "kind", "ep", "snap", "asks"}
EngineFields == {"run", "comp", "who", "routes", "ids", "asks", "asked", "applied", "own"}

Holder(f) ==
    /\ DOMAIN f = JobFields /\ f.req \in Requests \cup {NoRequest} /\ f.kind \in SendKinds
    /\ f.req # NoRequest => f.pc \in {"acquire", "publish", "retry"}
    /\ f.pc = "retry" => f.req # NoRequest
Plans == [n : [Inputs -> Nat], known : BOOLEAN, named : BOOLEAN, reqs : SUBSET Requests]
Jobs == [req : Requests \cup {NoRequest}, kind : SendKinds]

Shaped ==
    /\ last \in Nat /\ o \in Ledger
    /\ todo \in Plans
    /\ DOMAIN eng = EngineFields /\ eng.applied \in Counts
    /\ recq \in Seq(Jobs) /\ Holder(fl)
    /\ \A r \in Anonymous : o.ops[r] = NoOperation

Called ==
    /\ \A c \in calls : /\ DOMAIN c = CallFields /\ c.id \in Nat /\ c.id <= last
                        /\ Sending(c) => c.req \in Requests
    /\ \A c, d \in calls : c.id = d.id => c = d
    /\ \A w \in o.writes : w[1] <= last
    /\ \A w \in o.writes, c \in calls : Sending(c) /\ w[1] = c.id => w[2] = c.req

CallsOf(r) == {c \in calls : Sending(c) /\ c.req = r}
IdsOf(r) == {c.id : c \in CallsOf(r)}
QueuedAt(r) == {i \in DOMAIN recq : recq[i].req = r}
Written(r) == \E w \in o.writes : w[2] = r

\* A request id is in one place: its call, the queue of recoveries, the holder of
\* the permit, or, with its outcome unknown, only in a write that was lost.
Followed(r) ==
    /\ IdsOf(r) # {} \/ QueuedAt(r) # {} => o.ops[r].phase = "admitted"
    /\ o.ops[r].phase = "retrying" <=> fl.req = r
    /\ o.ops[r].phase = "admitted" => QueuedAt(r) # {} \/ Written(r)
    /\ IdsOf(r) # {} => QueuedAt(r) = {}
    /\ \A i, j \in QueuedAt(r) : i = j
    /\ \A i, j \in IdsOf(r) : i = j
    /\ \A i \in IdsOf(r) : <<i, r>> \in o.writes
    /\ o.ops[r].phase # "terminal" => ~o.ops[r].published

AllFollowed == \A r \in Requests \ Anonymous : Followed(r)

SendInv == Shaped /\ Called /\ AllFollowed

\* A request on the wire belongs to the call it was written for.
Wired ==
    /\ \A w \in wire : w.id \in Nat /\ w.id <= last /\ (Sending(w) => w.req \in Requests)
    /\ \A w \in wire, c \in calls : w.id = c.id => w.k = c.k /\ w.req = c.req
    /\ \A c \in calls : Sending(c) => c.res \in {"none", "ok", "busy", "unknown", "lost"}

WireOf(r) == {w \in wire : Sending(w) /\ w.req = r}

\* A request id that may still be sent was not applied since it was last forgotten:
\* one request at most is on the wire, an answer other than success says that the
\* engine did nothing, and success that it did.
Once(r) ==
    /\ WireOf(r) # {} => o.ops[r].phase = "admitted" /\ QueuedAt(r) = {}
    /\ \A w, v \in WireOf(r) : w = v
    /\ \A w \in WireOf(r), c \in CallsOf(r) : w.id = c.id /\ c.res \in {"none", "lost"}
    /\ eng.applied[r] <= o.forgot[r] + 1
    /\ \/ WireOf(r) # {} \/ QueuedAt(r) # {} \/ o.ops[r].phase \in {"none", "retrying"}
       \/ \E c \in CallsOf(r) : c.res \in {"busy", "unknown"}
       => eng.applied[r] <= o.forgot[r]
    /\ \A c \in CallsOf(r) : c.res = "ok" /\ o.forgot[r] = 0 => eng.applied[r] > 0
    /\ o.ops[r].phase = "terminal" /\ o.forgot[r] = 0 => (o.ops[r].err = "nil" <=> eng.applied[r] > 0)

AllOnce == \A r \in Requests \ Anonymous : Once(r)

Closes == {c \in calls : c.k = "close" /\ c.g = s.gen}

\* The fields of a session that say whether a send may go out on it.
RouteFields == {"gen", "closed", "closing"}
Routed(y) == RouteFields \subseteq DOMAIN y /\ y.gen \in Nat
Keeps(y, z) == DOMAIN z = DOMAIN y /\ z.gen = y.gen /\ z.closed = y.closed /\ z.closing = y.closing

Aged == Routed(s) /\ \A c \in calls : c.g \in Nat /\ c.g <= s.gen

\* No answer is lost, and none will be.
Lossless == todo.n["loss"] = 0 /\ \A c \in calls : c.res # "lost"

\* Nobody stops the session; the one who closes it, the eviction, found it idle, so
\* no send of it is lost to the close.
Unstopped ==
    /\ todo.n["stop"] = 0
    /\ \A c \in calls : Sending(c) => ~c.shut
    /\ \A c, d \in Closes : c = d
    /\ Closes # {} => (s.closing \/ s.closed) /\ \A c \in calls : Sending(c) => c.g # s.gen

\* No process both stops the session and loses its connection.
Calm == Aged /\ (Lossless \/ Unstopped)

OnceInv == Wired /\ AllOnce /\ Calm
-----------------------------------------------------------------------------
(***************************************************************************)
(* The ledger.                                                             *)
(***************************************************************************)

\* Oldest finds the first of a set of positions.
LEMMA OldestIn ==
    ASSUME NEW I \in SUBSET Nat, I # {}
    PROVE  Oldest(I) \in I /\ \A j \in I : Oldest(I) <= j
<1>1. PICK i \in I : \A y \in I : ~ (<<y, i>> \in OpToRel(<, Nat))
  BY WFMin, NatLessThanWellFounded
<1>2. \A y \in I : i <= y
  <2>1. SUFFICES ASSUME NEW y \in I PROVE i <= y
    OBVIOUS
  <2>2. ~ (y < i)
    BY <1>1 DEF OpToRel
  <2>. QED BY <2>2
<1>. QED BY <1>1, <1>2 DEF Oldest

\* Taking one position out of a sequence leaves a sequence.
LEMMA WithoutIsSeq ==
    ASSUME NEW S, NEW q \in Seq(S), NEW i \in DOMAIN q
    PROVE  Without(q, i) \in Seq(S)
<1>1. SubSeq(q, 1, i - 1) \in Seq(S) /\ SubSeq(q, i + 1, Len(q)) \in Seq(S)
  OBVIOUS
<1>. QED BY <1>1 DEF Without

\* The ledger w becomes v, and the operation of q is what it was, or was displaced.
Untouched(w, v, q) == v.ops[q] = w.ops[q] /\ v.forgot[q] = w.forgot[q]
Forgotten(w, v, q) ==
    w.ops[q].phase = "terminal" /\ v.ops[q] = NoOperation /\ v.forgot[q] = w.forgot[q] + 1
OthersKept(w, v, r) == \A q \in Requests \ {r} : Untouched(w, v, q) \/ Forgotten(w, v, q)

\* Displacing takes a finished operation and nothing else.
LEMMA Displaces ==
    ASSUME NEW w \in Ledger, Len(w.fifo) < LedgerCapacity \/ Displaceable(w) # {}
    PROVE  LET v == Displaced(w)
           IN  /\ v \in Ledger /\ v.writes = w.writes
               /\ \A q \in Requests : Untouched(w, v, q) \/ Forgotten(w, v, q)
<1>1. CASE Len(w.fifo) < LedgerCapacity
  BY <1>1 DEF Displaced, Untouched
<1>2. CASE ~ (Len(w.fifo) < LedgerCapacity)
  <2> DEFINE i == Oldest(Displaceable(w))
  <2>1. w.fifo \in Seq(Requests) /\ DOMAIN w.fifo \subseteq Nat
    BY DEF Ledger
  <2>2. i \in Displaceable(w)
    BY <1>2, <2>1, OldestIn DEF Displaceable
  <2>3. PICK r \in Requests : r = w.fifo[i] /\ w.ops[r].phase = "terminal"
    <3>1. i \in DOMAIN w.fifo /\ w.ops[w.fifo[i]].phase = "terminal"
      BY <2>2 DEF Displaceable
    <3>2. w.fifo[i] \in Requests
      BY <2>1, <3>1
    <3>. QED BY <3>1, <3>2
  <2>4. PICK f \in Seq(Requests) : f = Without(w.fifo, i)
    <3>1. i \in DOMAIN w.fifo
      BY <2>2 DEF Displaceable
    <3>. QED BY <2>1, <3>1, WithoutIsSeq
  <2>5. w.ops \in Operations /\ w.forgot \in Counts /\ NoOperation \in Operation
    BY DEF Ledger, NoOperation, Operation, Errors
  <2>6. PICK ops \in Operations : ops = [w.ops EXCEPT ![r] = NoOperation]
    BY <2>5 DEF Operations
  <2>7. PICK n \in Counts : n = [w.forgot EXCEPT ![r] = @ + 1]
    <3>1. w.forgot[r] + 1 \in Nat
      BY <2>5 DEF Counts
    <3>2. [w.forgot EXCEPT ![r] = @ + 1] \in Counts
      BY <2>5, <3>1 DEF Counts
    <3>. QED BY <3>2
  <2>8. Displaced(w) = [w EXCEPT !.ops = ops, !.fifo = f, !.forgot = n]
    BY <1>2, <2>3, <2>4, <2>6, <2>7 DEF Displaced, Ledger
  <2>9. /\ Displaced(w) \in Ledger /\ Displaced(w).writes = w.writes
        /\ Displaced(w).ops = ops /\ Displaced(w).forgot = n
    BY <2>4, <2>6, <2>7, <2>8 DEF Ledger
  <2>. QED BY <2>3, <2>5, <2>6, <2>7, <2>9 DEF Operations, Counts, Untouched, Forgotten
<1>. QED BY <1>1, <1>2

Fresh(w, r) == w.ops[r].phase = "none" \/ (w.ops[r].phase = "retrying" /\ ~w.ops[r].published)

\* What beginSendOperation and recordSendOperation leave of a send that may go on.
LEMMA Starts ==
    ASSUME NEW w \in Ledger, NEW r \in Requests \ Anonymous, NEW err \in Errors,
           Fresh(w, r), Admission(w, r) = "go"
    PROVE  LET v == RecordSend(BeginSend(w, r), r, err)
           IN  /\ v \in Ledger /\ v.writes = w.writes /\ v.forgot[r] = w.forgot[r]
               /\ v.ops[r].phase = IF err \in {"nil", "resumable", "closed"} THEN "admitted" ELSE "terminal"
               /\ v.ops[r].err = err /\ ~v.ops[r].published
               /\ OthersKept(w, v, r)
<1> DEFINE b == BeginSend(w, r)
<1>1. /\ b \in Ledger /\ b.writes = w.writes /\ b.forgot[r] = w.forgot[r]
      /\ b.ops[r].phase = "admitted" /\ ~b.ops[r].published
      /\ OthersKept(w, b, r)
  <2>1. CASE w.ops[r].phase = "retrying"
    <3>1. PICK op \in Operation : op = [w.ops[r] EXCEPT !.phase = "admitted"]
      BY DEF Ledger, Operations, Operation
    <3>2. op.phase = "admitted" /\ ~op.published
      BY <2>1, <3>1 DEF Fresh, Ledger, Operations, Operation
    <3>3. PICK ops \in Operations : ops = [w.ops EXCEPT ![r] = op]
      BY <3>1 DEF Ledger, Operations
    <3>4. b = [w EXCEPT !.ops = ops]
      BY <2>1, <3>1, <3>3 DEF BeginSend, Named, Ledger
    <3>5. b \in Ledger /\ b.writes = w.writes /\ b.forgot = w.forgot /\ b.ops = ops
      BY <3>3, <3>4 DEF Ledger
    <3>. QED BY <3>2, <3>3, <3>5 DEF Ledger, Operations, OthersKept, Untouched
  <2>2. CASE w.ops[r].phase = "none"
    <3>1. Len(w.fifo) < LedgerCapacity \/ Displaceable(w) # {}
      BY <2>2, LedgerAssumption DEF Admission, Named, Ledger
    <3>2. PICK d \in Ledger : /\ d = Displaced(w) /\ d.writes = w.writes
                              /\ \A q \in Requests : Untouched(w, d, q) \/ Forgotten(w, d, q)
      BY <3>1, Displaces
    <3>3. PICK op \in Operation : op = [NoOperation EXCEPT !.phase = "admitted"]
      BY DEF NoOperation, Operation, Errors
    <3>4. PICK ops \in Operations : ops = [d.ops EXCEPT ![r] = op]
      BY <3>3 DEF Ledger, Operations
    <3>5. op.phase = "admitted" /\ ~op.published
      BY <3>3 DEF NoOperation
    <3>9. PICK f \in Seq(Requests) : f = Append(d.fifo, r)
      <4>1. Append(d.fifo, r) \in Seq(Requests)
        BY DEF Ledger
      <4>. QED BY <4>1
    <3>10. b = [d EXCEPT !.ops = ops, !.fifo = f]
      BY <2>2, <3>2, <3>3, <3>4, <3>9 DEF BeginSend, Named, Ledger
    <3>6. b \in Ledger /\ b.writes = w.writes /\ b.ops = [d.ops EXCEPT ![r] = op] /\ b.forgot = d.forgot
      BY <3>2, <3>4, <3>9, <3>10 DEF Ledger
    <3>7. d.forgot[r] = w.forgot[r]
      BY <2>2, <3>2 DEF Untouched, Forgotten
    <3>8. OthersKept(w, b, r)
      BY <3>2, <3>6 DEF OthersKept, Untouched, Forgotten, Ledger, Operations
    <3>. QED BY <3>2, <3>5, <3>6, <3>7, <3>8 DEF Ledger, Operations
  <2>. QED BY <2>1, <2>2 DEF Fresh
<1>2. PICK ph \in {"admitted", "terminal"} :
        ph = IF err \in {"nil", "resumable", "closed"} THEN "admitted" ELSE "terminal"
  OBVIOUS
<1>3. PICK c \in Ledger : c = b
  BY <1>1
<1>4. PICK op \in Operation : op = [c.ops[r] EXCEPT !.err = err, !.phase = ph]
  BY <1>2 DEF Ledger, Operations, Operation
<1>5. op.phase = ph /\ op.err = err /\ op.published = c.ops[r].published
  BY <1>4 DEF Ledger, Operations, Operation
<1>6. PICK ops \in Operations : ops = [c.ops EXCEPT ![r] = op]
  BY <1>4 DEF Ledger, Operations
<1>7. PICK v : v = RecordSend(c, r, err)
  OBVIOUS
<1>8. v = [c EXCEPT !.ops = ops]
  <2>1. c.ops[r].phase # "terminal" /\ Named(r)
    BY <1>1, <1>3 DEF Named
  <2>2. PICK a \in Operations : a = c.ops
    BY DEF Ledger
  <2>3. [[a EXCEPT ![r].err = err] EXCEPT ![r].phase = ph] = ops
    BY <1>4, <1>6, <2>2 DEF Operations, Operation
  <2>4. v = [c EXCEPT !.ops[r].err = err, !.ops[r].phase = ph]
    <3>1. PICK e : e = IF err \in {"nil", "resumable", "closed"} THEN c.ops[r].phase ELSE "terminal"
      OBVIOUS
    <3>2. v = [c EXCEPT !.ops[r].err = err, !.ops[r].phase = e]
      BY <1>7, <2>1, <3>1 DEF RecordSend
    <3>3. e = ph
      BY <1>1, <1>2, <1>3, <3>1
    <3>. QED BY <3>2, <3>3
  <2>5. c = [ops |-> a, fifo |-> c.fifo, writes |-> c.writes, forgot |-> c.forgot]
    BY <2>2 DEF Ledger
  <2>. QED BY <2>2, <2>3, <2>4, <2>5
<1>9. v \in Ledger /\ v.writes = c.writes /\ v.forgot = c.forgot /\ v.ops = ops
  BY <1>6, <1>8 DEF Ledger
<1>10. v.ops[r] = op /\ \A q \in Requests \ {r} : v.ops[q] = c.ops[q]
  BY <1>6, <1>9 DEF Ledger, Operations
<1>11. OthersKept(w, v, r)
  BY <1>1, <1>3, <1>9, <1>10 DEF OthersKept, Untouched, Forgotten
<1>. QED BY <1>1, <1>2, <1>3, <1>5, <1>7, <1>9, <1>10, <1>11

\* A frame without an id is in no ledger.
LEMMA AnonymousStarts ==
    ASSUME NEW w, NEW r \in Anonymous, NEW err
    PROVE  RecordSend(BeginSend(w, r), r, err) = w
BY DEF RecordSend, BeginSend, Named

\* RegisterWrite and SettleWrite touch nothing but the writes.
LEMMA Registers ==
    ASSUME NEW w \in Ledger, NEW r \in Requests, NEW id \in Nat
    PROVE  LET v == RegisterWrite(w, id, r)
           IN  /\ v \in Ledger /\ v.ops = w.ops /\ v.forgot = w.forgot
               /\ v.writes = w.writes \cup {<<id, r>>}
<1>1. PICK x \in Writes : x = w.writes \cup {<<id, r>>}
  <2>1. w.writes \cup {<<id, r>>} \in Writes
    BY DEF Ledger, Writes
  <2>. QED BY <2>1
<1>2. RegisterWrite(w, id, r) = [w EXCEPT !.writes = x]
  BY <1>1 DEF RegisterWrite
<1>. QED BY <1>1, <1>2 DEF Ledger

LEMMA SettlesWrite ==
    ASSUME NEW w \in Ledger, NEW id
    PROVE  LET v == SettleWrite(w, id)
           IN  /\ v \in Ledger /\ v.ops = w.ops /\ v.forgot = w.forgot
               /\ v.writes = {x \in w.writes : x[1] # id}
<1>1. PICK y \in Writes : y = {x \in w.writes : x[1] # id}
  BY DEF Ledger, Writes
<1>2. SettleWrite(w, id) = [w EXCEPT !.writes = y]
  BY <1>1 DEF SettleWrite
<1>. QED BY <1>1, <1>2 DEF Ledger

\* What publishing an outcome that is known leaves of an admitted operation.
LEMMA Publishes ==
    ASSUME NEW w \in Ledger, NEW r \in Requests \ Anonymous, NEW err \in Errors \ {"unknown"},
           w.ops[r].phase \in {"admitted", "terminal"}, ~w.ops[r].published
    PROVE  LET v == PublishOutcome(w, r, err)
           IN  /\ v \in Ledger /\ v.forgot = w.forgot
               /\ v.writes = {x \in w.writes : x[2] # r}
               /\ v.ops[r].phase = "terminal"
               /\ v.ops[r].err = IF w.ops[r].phase = "terminal" THEN w.ops[r].err ELSE err
               /\ OthersKept(w, v, r)
<1>1. PICK op \in Operation :
         op = IF w.ops[r].phase = "terminal" THEN w.ops[r] ELSE [w.ops[r] EXCEPT !.phase = "terminal", !.err = err]
  <2>1. PICK x \in Operation : x = w.ops[r]
    BY DEF Ledger, Operations
  <2>2. [x EXCEPT !.phase = "terminal", !.err = err] \in Operation
    BY DEF Operation
  <2>. QED BY <2>1, <2>2
<1>2. op.phase = "terminal" /\ ~op.published
  BY <1>1 DEF Ledger, Operations, Operation
<1>3. op.err = IF w.ops[r].phase = "terminal" THEN w.ops[r].err ELSE err
  BY <1>1 DEF Ledger, Operations, Operation
<1>4. PICK p \in Operation : p = [op EXCEPT !.published = TRUE]
  BY DEF Operation
<1>5. p.phase = "terminal" /\ p.err = op.err
  BY <1>2, <1>4 DEF Operation
<1>6. PICK ops \in Operations : ops = [w.ops EXCEPT ![r] = p]
  BY DEF Ledger, Operations
<1>7. PICK y \in Writes : y = {x \in w.writes : x[2] # r}
  BY DEF Ledger, Writes
<1>8. PICK v : v = PublishOutcome(w, r, err)
  OBVIOUS
<1>9. v = [w EXCEPT !.writes = y, !.ops = ops]
  BY <1>1, <1>2, <1>4, <1>6, <1>7, <1>8 DEF PublishOutcome, Named, Ledger
<1>10. v \in Ledger /\ v.writes = y /\ v.forgot = w.forgot /\ v.ops = ops
  BY <1>6, <1>7, <1>9 DEF Ledger
<1>11. v.ops[r] = p /\ \A q \in Requests \ {r} : v.ops[q] = w.ops[q]
  BY <1>6, <1>10 DEF Ledger, Operations
<1>. QED BY <1>3, <1>5, <1>7, <1>8, <1>10, <1>11 DEF OthersKept, Untouched

-----------------------------------------------------------------------------
(***************************************************************************)
(* Steps that leave the ledger and the queue of recoveries alone.          *)
(***************************************************************************)

\* d is c with another answer.
Twin(c, d) == DOMAIN d = DOMAIN c /\ d.id = c.id /\ d.k = c.k /\ d.req = c.req /\ d.g = c.g

Relabelled(C, D) ==
    /\ \A d \in D : \E c \in C : Twin(c, d)
    /\ \A c \in C : \E d \in D : Twin(c, d)
    /\ \A c, d \in D : c.id = d.id => c = d

\* Answering some of the calls tells them apart as before.
LEMMA Relabels ==
    ASSUME NEW C, NEW f, \A c \in C : Twin(c, f[c]), \A c, d \in C : c.id = d.id => c = d
    PROVE  Relabelled(C, {f[c] : c \in C})
BY DEF Relabelled, Twin

\* The sending calls stay, and a new call sends nothing.
CallsStay ==
    /\ \A d \in calls' : \/ \E c \in calls : Twin(c, d)
                         \/ ~Sending(d) /\ DOMAIN d = CallFields /\ d.id = last + 1 /\ last' = last + 1
    /\ \A c \in calls : Sending(c) => \E d \in calls' : Twin(c, d)
    /\ \A c, d \in calls' : c.id = d.id => c = d

\* What is not a send goes on within its bounds.
Backdrop ==
    /\ last' \in Nat /\ last <= last'
    /\ todo' \in Plans
    /\ DOMAIN eng' = EngineFields /\ eng'.applied \in Counts

\* A request that a step does not touch, or whose finished operation it displaces,
\* is where it was.
LEMMA Follows ==
    ASSUME NEW q \in Requests, Followed(q), Untouched(o, o', q) \/ Forgotten(o, o', q),
           IdsOf(q)' = IdsOf(q),
           QueuedAt(q)' = {} <=> QueuedAt(q) = {},
           \A i, j \in QueuedAt(q)' : i = j,
           fl'.req = q <=> fl.req = q,
           Written(q) => Written(q)',
           \A i \in IdsOf(q) : <<i, q>> \in o.writes => <<i, q>> \in o'.writes
    PROVE  Followed(q)'
<1>1. CASE Untouched(o, o', q)
  BY <1>1 DEF Followed, Untouched
<1>2. CASE Forgotten(o, o', q)
  BY <1>2 DEF Followed, Forgotten, NoOperation
<1>. QED BY <1>1, <1>2

\* A step that only relabels or adds calls keeps the sending calls of a request.
LEMMA IdsStay ==
    ASSUME CallsStay, NEW q
    PROVE  IdsOf(q)' = IdsOf(q)
<1>1. ASSUME NEW i \in IdsOf(q)' PROVE i \in IdsOf(q)
  <2>1. PICK d \in calls' : Sending(d) /\ d.req = q /\ d.id = i
    BY DEF IdsOf, CallsOf
  <2>2. PICK c \in calls : Twin(c, d)
    BY <2>1 DEF CallsStay
  <2>. QED BY <2>1, <2>2 DEF Twin, Sending, IdsOf, CallsOf
<1>2. ASSUME NEW i \in IdsOf(q) PROVE i \in IdsOf(q)'
  <2>1. PICK c \in calls : Sending(c) /\ c.req = q /\ c.id = i
    BY DEF IdsOf, CallsOf
  <2>2. PICK d \in calls' : Twin(c, d)
    BY <2>1 DEF CallsStay
  <2>. QED BY <2>1, <2>2 DEF Twin, Sending, IdsOf, CallsOf
<1>. QED BY <1>1, <1>2

LEMMA CalledStays ==
    ASSUME SendInv, CallsStay, Backdrop, o' = o
    PROVE  Called'
<1>1. \A c \in calls' : DOMAIN c = CallFields /\ c.id \in Nat /\ c.id <= last' /\ (Sending(c) => c.req \in Requests)
  <2>1. SUFFICES ASSUME NEW d \in calls'
                 PROVE  DOMAIN d = CallFields /\ d.id \in Nat /\ d.id <= last' /\ (Sending(d) => d.req \in Requests)
    OBVIOUS
  <2>2. CASE \E c \in calls : Twin(c, d)
    BY <2>2 DEF Twin, SendInv, Called, Shaped, Backdrop, Sending
  <2>3. CASE ~Sending(d) /\ DOMAIN d = CallFields /\ d.id = last + 1 /\ last' = last + 1
    BY <2>3 DEF SendInv, Shaped
  <2>. QED BY <2>2, <2>3 DEF CallsStay
<1>2. \A w \in o'.writes : w[1] <= last'
  BY DEF SendInv, Called, Shaped, Backdrop, Ledger, Writes
<1>3. \A w \in o'.writes, c \in calls' : Sending(c) /\ w[1] = c.id => w[2] = c.req
  <2>1. SUFFICES ASSUME NEW w \in o.writes, NEW d \in calls', Sending(d), w[1] = d.id PROVE w[2] = d.req
    OBVIOUS
  <2>2. PICK c \in calls : Twin(c, d)
    BY <2>1 DEF CallsStay
  <2>. QED BY <2>1, <2>2 DEF Twin, SendInv, Called, Sending
<1>4. \A c, d \in calls' : c.id = d.id => c = d
  BY DEF CallsStay
<1>. QED BY <1>1, <1>2, <1>3, <1>4 DEF Called

LEMMA StandsStill ==
    ASSUME SendInv, CallsStay, Backdrop, o' = o, recq' = recq, Holder(fl'), fl'.req = fl.req
    PROVE  SendInv'
<1>1. Shaped'
  BY DEF SendInv, Shaped, Backdrop
<1>2. Called'
  BY CalledStays
<1>3. ASSUME NEW q \in Requests \ Anonymous PROVE Followed(q)'
  <2>1. Followed(q)
    BY DEF SendInv, AllFollowed
  <2>2. IdsOf(q)' = IdsOf(q)
    BY IdsStay
  <2>3. QueuedAt(q)' = QueuedAt(q) /\ Written(q)' = Written(q) /\ Untouched(o, o', q)
    BY DEF QueuedAt, Written, Untouched
  <2>4. \A i, j \in QueuedAt(q)' : i = j
    BY <2>1, <2>3 DEF Followed
  <2>. QED BY <2>1, <2>2, <2>3, <2>4, Follows
<1>. QED BY <1>1, <1>2, <1>3 DEF SendInv, AllFollowed

\* The four ways in which a step leaves the sending calls alone.
LEMMA SameCalls ==
    ASSUME SendInv, calls' = calls
    PROVE  CallsStay
BY DEF SendInv, Called, CallsStay, Twin

LEMMA AnsweredCalls ==
    ASSUME Relabelled(calls, calls')
    PROVE  CallsStay
BY DEF Relabelled, CallsStay

LEMMA AddedCall ==
    ASSUME SendInv, NEW n, calls' = calls \cup {n}, ~Sending(n), DOMAIN n = CallFields,
           n.id = last + 1, last' = last + 1
    PROVE  CallsStay
<1>1. \A c \in calls : c.id # last + 1
  BY DEF SendInv, Shaped, Called
<1>2. \A c, d \in calls' : c.id = d.id => c = d
  BY <1>1 DEF SendInv, Called
<1>3. \A d \in calls' : \/ \E c \in calls : Twin(c, d)
                        \/ ~Sending(d) /\ DOMAIN d = CallFields /\ d.id = last + 1 /\ last' = last + 1
  BY DEF Twin
<1>4. \A c \in calls : Sending(c) => \E d \in calls' : Twin(c, d)
  BY DEF Twin
<1>. QED BY <1>2, <1>3, <1>4 DEF CallsStay

LEMMA EndedCall ==
    ASSUME NEW c \in calls, ~Sending(c), Relabelled(calls \ {c}, calls')
    PROVE  CallsStay
BY DEF Relabelled, CallsStay

\* The permit of a chat that is free is held for no request.
LEMMA FreeHolder ==
    ASSUME Shaped
    PROVE  /\ Holder(Free) /\ Free.req = NoRequest
           /\ fl.pc \notin {"acquire", "publish", "retry"} => fl.req = NoRequest
BY DEF Shaped, Holder, Free, JobFields, SendKinds

\* A choice of the scenario is spent.
LEMMA Spends ==
    ASSUME NEW k \in Inputs, Spend(k), todo \in Plans
    PROVE  /\ todo' \in Plans /\ todo'.reqs = todo.reqs
           /\ \A j \in Inputs : todo'.n[j] <= todo.n[j]
<1>1. PICK n \in [Inputs -> Nat] : n = [todo.n EXCEPT ![k] = @ - 1]
  <2>1. todo.n \in [Inputs -> Nat] /\ todo.n[k] > 0
    BY DEF Plans, Spend
  <2>2. todo.n[k] - 1 \in Nat
    BY <2>1
  <2>3. [todo.n EXCEPT ![k] = @ - 1] \in [Inputs -> Nat]
    BY <2>1, <2>2
  <2>. QED BY <2>3
<1>2. todo' = [todo EXCEPT !.n = n]
  BY <1>1 DEF Spend
<1>3. \A j \in Inputs : n[j] <= todo.n[j]
  BY <1>1 DEF Plans
<1>. QED BY <1>2, <1>3 DEF Plans

\* A step without requests, answers or choices.
LEMMA BackdropSame ==
    ASSUME SendInv, last' = last, todo' = todo, DOMAIN eng' = DOMAIN eng, eng'.applied = eng.applied
    PROVE  Backdrop
BY DEF SendInv, Shaped, Backdrop

LEMMA BackdropSpent ==
    ASSUME SendInv, NEW k \in Inputs, Spend(k), last' \in {last, last + 1},
           DOMAIN eng' = DOMAIN eng, eng'.applied = eng.applied
    PROVE  Backdrop
BY Spends DEF SendInv, Shaped, Backdrop

-----------------------------------------------------------------------------
(***************************************************************************)
(* One lemma per action: calls that send nothing.                          *)
(***************************************************************************)

LEMMA CompactSafe == ASSUME SendInv, Compact PROVE SendInv'
<1>1. PICK c : c = NewCall("compact", s.compactSeq + 1, NoRequest, FALSE)
  OBVIOUS
<1>2. PICK k \in Inputs : Spend(k)
  BY DEF Compact, Inputs
<1>3. calls' = calls \cup {c} /\ last' = last + 1 /\ UNCHANGED <<o, eng, fl, recq>>
  BY <1>1 DEF Compact, Write
<1>4. ~Sending(c) /\ DOMAIN c = CallFields /\ c.id = last + 1
  BY <1>1 DEF NewCall, CallFields, Sending, SendKinds
<1>5. CallsStay
  BY <1>3, <1>4, AddedCall
<1>6. Backdrop
  BY <1>2, <1>3, BackdropSpent
<1>. QED BY <1>3, <1>5, <1>6, StandsStill DEF SendInv, Shaped

LEMMA QueryStateSafe == ASSUME SendInv, QueryState PROVE SendInv'
<1>1. PICK c : c = NewCall("state", 0, NoRequest, FALSE)
  OBVIOUS
<1>2. calls' = calls \cup {c} /\ last' = last + 1 /\ UNCHANGED <<o, eng, fl, recq>>
  BY <1>1 DEF QueryState
<1>3. ~Sending(c) /\ DOMAIN c = CallFields /\ c.id = last + 1
  BY <1>1 DEF NewCall, CallFields, Sending, SendKinds
<1>4. CallsStay
  BY <1>2, <1>3, AddedCall
<1>5. Backdrop
  <2>1. CASE todo' = todo
    BY <1>2, <2>1 DEF Backdrop, SendInv, Shaped
  <2>2. CASE Spend("query")
    <3>1. PICK k \in Inputs : Spend(k)
      BY <2>2 DEF Inputs
    <3>. QED BY <1>2, <3>1, BackdropSpent
  <2>. QED BY <2>1, <2>2 DEF QueryState
<1>. QED BY <1>2, <1>4, <1>5, StandsStill DEF SendInv, Shaped

LEMMA EvictSafe == ASSUME SendInv, Evict PROVE SendInv'
<1>1. PICK k \in Inputs : Spend(k)
  BY DEF Evict, Inputs
<1>2. fl.pc = "free" /\ UNCHANGED <<o, eng, recq>>
  BY DEF Evict
<1>3. fl.req = NoRequest
  BY <1>2, FreeHolder DEF SendInv
<1>4. CASE Evictable(s, Unresolved(o), Outstanding(calls) # {}) /\ net.up
  <2>1. PICK c : c = NewCall("close", 0, NoRequest, FALSE)
    OBVIOUS
  <2>2. calls' = calls \cup {c} /\ last' = last + 1 /\ fl' = [Free EXCEPT !.pc = "evict"]
    BY <1>4, <2>1 DEF Evict
  <2>3. ~Sending(c) /\ DOMAIN c = CallFields /\ c.id = last + 1
    BY <2>1 DEF NewCall, CallFields, Sending, SendKinds
  <2>4. CallsStay
    BY <2>2, <2>3, AddedCall
  <2>5. Backdrop
    BY <1>1, <1>2, <2>2, BackdropSpent
  <2>6. Holder(fl') /\ fl'.req = NoRequest
    BY <2>2 DEF Holder, Free, JobFields, SendKinds
  <2>. QED BY <1>2, <1>3, <2>4, <2>5, <2>6, StandsStill
<1>5. CASE ~(Evictable(s, Unresolved(o), Outstanding(calls) # {}) /\ net.up)
  <2>1. UNCHANGED <<calls, last, fl>>
    BY <1>5 DEF Evict
  <2>2. CallsStay
    BY <2>1, SameCalls
  <2>3. Backdrop
    BY <1>1, <1>2, <2>1, BackdropSpent
  <2>. QED BY <1>2, <2>1, <2>2, <2>3, StandsStill DEF SendInv, Shaped
<1>. QED BY <1>4, <1>5

LEMMA StopSafe == ASSUME SendInv, Stop PROVE SendInv'
<1>1. PICK c : c = NewCall("close", 0, NoRequest, FALSE)
  OBVIOUS
<1>2. PICK k \in Inputs : Spend(k)
  BY DEF Stop, Inputs
<1>3. /\ calls' = calls \cup {c} /\ last' = last + 1 /\ UNCHANGED <<o, eng, recq>>
      /\ fl' = [Free EXCEPT !.pc = "evict"] /\ fl.pc = "free"
  BY <1>1 DEF Stop
<1>4. ~Sending(c) /\ DOMAIN c = CallFields /\ c.id = last + 1
  BY <1>1 DEF NewCall, CallFields, Sending, SendKinds
<1>5. CallsStay
  BY <1>3, <1>4, AddedCall
<1>6. Backdrop
  BY <1>2, <1>3, BackdropSpent
<1>7. Holder(fl') /\ fl'.req = NoRequest
  BY <1>3 DEF Holder, Free, JobFields, SendKinds
<1>8. fl.req = NoRequest
  BY <1>3, FreeHolder DEF SendInv
<1>. QED BY <1>3, <1>5, <1>6, <1>7, <1>8, StandsStill

\* Steps of the session, the permit and the browser that touch no call.
LEMMA SessionStepSafe ==
    ASSUME SendInv, UNCHANGED <<o, calls, eng, fl, recq, last, todo>>
    PROVE  SendInv'
BY SameCalls, BackdropSame, StandsStill DEF SendInv, Shaped

LEMMA PermitStepSafe ==
    ASSUME SendInv, UNCHANGED <<o, calls, recq, last, todo>>,
           DOMAIN eng' = DOMAIN eng, eng'.applied = eng.applied,
           Holder(fl'), fl'.req = fl.req
    PROVE  SendInv'
BY SameCalls, BackdropSame, StandsStill

LEMMA AcquireExistingSafe == ASSUME SendInv, AcquireExisting PROVE SendInv'
<1>1. UNCHANGED <<o, calls, eng, recq, last, todo>>
  BY DEF AcquireExisting
<1>2. Holder(fl') /\ fl'.req = fl.req
  <2>1. CASE fl.req = NoRequest
    <3>1. fl' = Free
      BY <2>1 DEF AcquireExisting
    <3>. QED BY <2>1, <3>1, FreeHolder DEF SendInv
  <2>2. CASE fl.req # NoRequest
    <3>1. fl' = [fl EXCEPT !.pc = "retry"]
      BY <2>2 DEF AcquireExisting
    <3>. QED BY <2>2, <3>1 DEF SendInv, Shaped, Holder, JobFields
  <2>. QED BY <2>1, <2>2
<1>. QED BY <1>1, <1>2, PermitStepSafe

LEMMA PublishSafe == ASSUME SendInv, Publish PROVE SendInv'
<1>1. UNCHANGED <<o, calls, eng, recq, last, todo>>
  BY DEF Publish
<1>2. Holder(fl') /\ fl'.req = fl.req
  <2>1. CASE fl.req = NoRequest
    BY <2>1, FreeHolder DEF Publish, SendInv
  <2>2. CASE fl.req # NoRequest
    <3>1. fl' = [fl EXCEPT !.pc = "retry"]
      BY <2>2 DEF Publish
    <3>. QED BY <2>2, <3>1 DEF SendInv, Shaped, Holder, JobFields
  <2>. QED BY <2>1, <2>2
<1>. QED BY <1>1, <1>2, PermitStepSafe

LEMMA AcquireOpensSafe == ASSUME SendInv, AcquireOpens PROVE SendInv'
<1>1. UNCHANGED <<o, calls, recq, last, todo>> /\ fl.pc = "acquire"
  BY DEF AcquireOpens
<1>2. DOMAIN eng' = DOMAIN eng /\ eng'.applied = eng.applied
  BY DEF AcquireOpens, SendInv, Shaped, EngineFields
<1>3. Holder(fl') /\ fl'.req = fl.req
  <2>1. PICK snap, asks : fl' = [fl EXCEPT !.pc = "publish", !.ep = net.ep, !.snap = snap, !.asks = asks]
    BY DEF AcquireOpens
  <2>. QED BY <2>1 DEF SendInv, Shaped, Holder, JobFields
<1>. QED BY <1>1, <1>2, <1>3, PermitStepSafe

LEMMA EvictTimeoutSafe == ASSUME SendInv, EvictTimeout PROVE SendInv'
<1>1. UNCHANGED <<o, calls, eng, recq, last, todo>> /\ fl.pc = "evict" /\ fl' = Free
  BY DEF EvictTimeout
<1>2. Holder(fl') /\ fl'.req = fl.req
  BY <1>1, FreeHolder DEF SendInv
<1>. QED BY <1>1, <1>2, PermitStepSafe

LEMMA ReopenSafe == ASSUME SendInv, Reopen PROVE SendInv'
<1>1. UNCHANGED <<o, calls, eng, recq, last>> /\ fl.pc = "free" /\ fl' = [Free EXCEPT !.pc = "acquire"]
  BY DEF Reopen
<1>2. PICK k \in Inputs : Spend(k)
  BY DEF Reopen, Inputs
<1>3. Holder(fl') /\ fl'.req = fl.req
  <2>1. Holder(fl') /\ fl'.req = NoRequest
    BY <1>1 DEF Holder, Free, JobFields, SendKinds
  <2>. QED BY <1>1, <2>1, FreeHolder DEF SendInv
<1>4. CallsStay /\ Backdrop
  BY <1>1, <1>2, SameCalls, BackdropSpent
<1>. QED BY <1>1, <1>3, <1>4, StandsStill

LEMMA RespondSafe == ASSUME SendInv, Respond PROVE SendInv'
<1>1. UNCHANGED <<o, calls, eng, fl, recq>> /\ last' = last + 1
  BY DEF Respond
<1>2. PICK k \in Inputs : Spend(k)
  BY DEF Respond, Inputs
<1>3. CallsStay /\ Backdrop
  BY <1>1, <1>2, SameCalls, BackdropSpent
<1>. QED BY <1>1, <1>3, StandsStill DEF SendInv, Shaped

\* The three kinds of completions that publish nothing.
CompletionFrame(c) ==
    /\ c \in calls
    /\ fl' = IF c.k = "close" /\ fl.pc = "evict" THEN Free ELSE fl
    /\ UNCHANGED <<eng, todo>>

LEMMA CompletionHolder ==
    ASSUME Shaped, NEW c, CompletionFrame(c)
    PROVE  Holder(fl') /\ fl'.req = fl.req
<1>1. CASE c.k = "close" /\ fl.pc = "evict"
  BY <1>1, FreeHolder DEF CompletionFrame
<1>2. CASE ~(c.k = "close" /\ fl.pc = "evict")
  BY <1>2 DEF CompletionFrame, Shaped
<1>. QED BY <1>1, <1>2

LEMMA CompletionStands ==
    ASSUME SendInv, NEW c, CompletionFrame(c), ~Sending(c), Relabelled(calls \ {c}, calls'),
           UNCHANGED <<o, recq, last>>
    PROVE  SendInv'
<1>1. CallsStay
  BY EndedCall DEF CompletionFrame
<1>2. Backdrop
  BY BackdropSame DEF CompletionFrame
<1>. QED BY <1>1, <1>2, CompletionHolder, StandsStill DEF SendInv

LEMMA CompletesCompactSafe ==
    ASSUME SendInv, NEW c, CompletionFrame(c), c.k = "compact", CompletesCompact(c)
    PROVE  SendInv'
<1>1. Relabelled(calls \ {c}, calls')
  BY DEF Relabelled, CompletesCompact, Twin, SendInv, Called
<1>. QED BY <1>1, CompletionStands DEF CompletesCompact, Sending, SendKinds

LEMMA CompletesStateSafe ==
    ASSUME SendInv, NEW c, CompletionFrame(c), c.k = "state", CompletesState(c)
    PROVE  SendInv'
<1>1. Relabelled(calls \ {c}, calls')
  BY DEF Relabelled, CompletesState, Twin, SendInv, Called
<1>. QED BY <1>1, CompletionStands DEF CompletesState, Sending, SendKinds

\* An accepted close marks the other calls of the session.
Shutting(c, d) == IF Ours(d) /\ Ours(c) /\ c.res \in {"ok", "unknown"} THEN [d EXCEPT !.shut = TRUE] ELSE d

LEMMA ClosingRelabels ==
    ASSUME Called, NEW c, CompletesClose(c)
    PROVE  /\ Relabelled(calls \ {c}, calls')
           /\ calls' = {Shutting(c, d) : d \in calls \ {c}}
<1>1. PICK C : C = calls \ {c}
  OBVIOUS
<1>2. PICK f : f = [d \in C |-> Shutting(c, d)]
  OBVIOUS
<1>3. \A d \in C : Twin(d, f[d])
  BY <1>1, <1>2 DEF Called, CallFields, Twin, Shutting
<1>4. calls' = {f[d] : d \in C} /\ calls' = {Shutting(c, d) : d \in calls \ {c}}
  BY <1>1, <1>2 DEF CompletesClose, Shutting
<1>5. \A d, e \in C : d.id = e.id => d = e
  BY <1>1 DEF Called
<1>6. Relabelled(C, {f[d] : d \in C})
  BY <1>3, <1>5, Relabels
<1>. QED BY <1>1, <1>4, <1>6

LEMMA CompletesCloseSafe ==
    ASSUME SendInv, NEW c, CompletionFrame(c), c.k = "close", CompletesClose(c)
    PROVE  SendInv'
BY ClosingRelabels, CompletionStands DEF CompletesClose, Sending, SendKinds, SendInv

-----------------------------------------------------------------------------
(***************************************************************************)
(* One lemma per action: the engine and the connection.                    *)
(***************************************************************************)

\* Some of the calls get another answer.
LEMMA AnswersRelabel ==
    ASSUME Called, NEW f, \A c \in calls : DOMAIN f[c] = DOMAIN c /\ \A x \in DOMAIN c \ {"res", "snap"} : f[c][x] = c[x],
           calls' = {f[c] : c \in calls}
    PROVE  Relabelled(calls, calls') /\ CallsStay
<1>1. \A c \in calls : Twin(c, f[c])
  BY DEF Called, CallFields, Twin
<1>2. \A c, d \in calls : c.id = d.id => c = d
  BY DEF Called
<1>3. Relabelled(calls, {f[c] : c \in calls})
  BY <1>1, <1>2, Relabels
<1>. QED BY <1>3, AnsweredCalls

\* An answer of the engine to the call of request w.
LEMMA AnswerWithStays ==
    ASSUME Called, NEW w, NEW res, calls' = AnswerWith(w, res)
    PROVE  Relabelled(calls, calls') /\ CallsStay
<1>1. PICK f : f = [c \in calls |-> IF c.id = w.id /\ c.res = "none" THEN [c EXCEPT !.res = res] ELSE c]
  OBVIOUS
<1>2. calls' = {f[c] : c \in calls}
  BY <1>1 DEF AnswerWith
<1>3. \A c \in calls : DOMAIN f[c] = DOMAIN c /\ \A x \in DOMAIN c \ {"res", "snap"} : f[c][x] = c[x]
  BY <1>1 DEF Called, CallFields
<1>. QED BY <1>2, <1>3, AnswersRelabel

LEMMA EngineTellsStays ==
    ASSUME Called, NEW w, EngineTells(w)
    PROVE  Relabelled(calls, calls') /\ CallsStay
<1>1. PICK f : f = [c \in calls |-> IF c.id = w.id /\ c.res = "none" THEN [c EXCEPT !.res = "ok", !.snap = Snapshot] ELSE c]
  OBVIOUS
<1>2. calls' = {f[c] : c \in calls}
  BY <1>1 DEF EngineTells
<1>3. \A c \in calls : DOMAIN f[c] = DOMAIN c /\ \A x \in DOMAIN c \ {"res", "snap"} : f[c][x] = c[x]
  BY <1>1 DEF Called, CallFields
<1>. QED BY <1>2, <1>3, AnswersRelabel

\* What the engine counts as applied stays a count.
LEMMA AppliesShape ==
    ASSUME Shaped, NEW r
    PROVE  [eng.applied EXCEPT ![r] = @ + 1] \in Counts
<1>1. eng.applied \in Counts
  BY DEF Shaped
<1>2. CASE r \in Requests
  <2>1. eng.applied[r] + 1 \in Nat
    BY <1>1, <1>2 DEF Counts
  <2>. QED BY <1>1, <2>1 DEF Counts
<1>3. CASE r \notin Requests
  BY <1>1, <1>3 DEF Counts
<1>. QED BY <1>2, <1>3

LEMMA EngineHandlesSafe == ASSUME SendInv, EngineHandles PROVE SendInv'
<1>1. PICK w \in wire : /\ EngineTakes(w)
                        /\ \/ EngineRefuses(w) \/ EngineRuns(w) \/ EngineSteers(w) \/ EngineBusy(w) \/ EngineLocal(w)
                           \/ EngineCompacts(w) \/ EngineTells(w) \/ EngineCloses(w) \/ EngineResolves(w)
  BY DEF EngineHandles
<1>2. UNCHANGED <<o, fl, recq, last>>
  BY <1>1 DEF EngineTakes
<1>3. Shaped /\ Called
  BY DEF SendInv
<1>4. PICK a \in Counts : a = [eng.applied EXCEPT ![w.req] = @ + 1]
  BY <1>3, AppliesShape
<1>5. CallsStay
  <2>1. CASE \E res : calls' = AnswerWith(w, res)
    BY <1>3, <2>1, AnswerWithStays
  <2>2. CASE calls' = calls
    BY <2>2, SameCalls
  <2>3. CASE EngineTells(w)
    BY <1>3, <2>3, EngineTellsStays
  <2>. QED BY <1>1, <2>1, <2>2, <2>3
         DEF EngineRefuses, EngineRuns, EngineSteers, EngineBusy, EngineLocal, EngineCompacts, EngineCloses, EngineResolves
<1>6. DOMAIN eng' = EngineFields /\ eng'.applied \in Counts
  <2>1. CASE eng' = eng
    BY <1>3, <2>1 DEF Shaped
  <2>2. CASE EngineRuns(w)
    <3>1. eng' = [eng EXCEPT !.run = TRUE, !.own = TRUE, !.applied = a]
      BY <1>3, <1>4, <2>2 DEF EngineRuns, Shaped, EngineFields
    <3>. QED BY <1>3, <3>1 DEF Shaped, EngineFields
  <2>3. CASE EngineSteers(w)
    <3>1. eng' = [eng EXCEPT !.own = eng.run, !.applied = a]
      BY <1>3, <1>4, <2>3 DEF EngineSteers, Shaped, EngineFields
    <3>. QED BY <1>3, <3>1 DEF Shaped, EngineFields
  <2>4. CASE EngineLocal(w)
    <3>1. eng' = [eng EXCEPT !.applied = a]
      BY <1>3, <1>4, <2>4 DEF EngineLocal, Shaped, EngineFields
    <3>. QED BY <1>3, <3>1 DEF Shaped, EngineFields
  <2>5. CASE EngineCompacts(w)
    BY <1>3, <2>5 DEF EngineCompacts, Shaped, EngineFields
  <2>6. CASE EngineCloses(w)
    BY <1>3, <2>6 DEF EngineCloses, Shaped, EngineFields
  <2>7. CASE EngineResolves(w)
    BY <1>3, <2>7 DEF EngineResolves, Shaped, EngineFields
  <2>. QED BY <1>1, <2>1, <2>2, <2>3, <2>4, <2>5, <2>6, <2>7 DEF EngineRefuses, EngineBusy, EngineTells
<1>7. Backdrop
  <2>1. CASE todo' = todo
    BY <1>2, <1>3, <1>6, <2>1 DEF Backdrop, Shaped
  <2>2. CASE EngineLocal(w)
    <3>1. PICK k \in Inputs : Spend(k)
      BY <2>2 DEF EngineLocal, Inputs
    <3>. QED BY <1>2, <1>3, <1>6, <3>1, Spends DEF Backdrop, Shaped
  <2>. QED BY <1>1, <2>1, <2>2
         DEF EngineRefuses, EngineRuns, EngineSteers, EngineBusy, EngineCompacts, EngineTells, EngineCloses, EngineResolves
<1>. QED BY <1>2, <1>3, <1>5, <1>7, StandsStill DEF Shaped

\* The engine's own steps: it runs, compacts, unloads and asks by itself.
LEMMA EngineStands ==
    ASSUME SendInv, UNCHANGED <<o, fl, recq, last>>, CallsStay,
           DOMAIN eng' = DOMAIN eng, eng'.applied = eng.applied,
           todo' = todo \/ \E k \in Inputs : Spend(k)
    PROVE  SendInv'
<1>1. Backdrop
  BY BackdropSame, BackdropSpent
<1>. QED BY <1>1, StandsStill DEF SendInv, Shaped

LEMMA EngineOwnRunSafe == ASSUME SendInv, EngineOwnRun PROVE SendInv'
<1>1. UNCHANGED <<o, calls, fl, recq, last>> /\ \E k \in Inputs : Spend(k)
  BY DEF EngineOwnRun, Inputs
<1>2. DOMAIN eng' = DOMAIN eng /\ eng'.applied = eng.applied
  BY DEF EngineOwnRun, SendInv, Shaped, EngineFields
<1>. QED BY <1>1, <1>2, SameCalls, EngineStands

LEMMA EngineSettlesSafe == ASSUME SendInv, EngineSettles PROVE SendInv'
<1>1. UNCHANGED <<o, calls, fl, recq, last, todo>>
  BY DEF EngineSettles
<1>2. DOMAIN eng' = DOMAIN eng /\ eng'.applied = eng.applied
  BY DEF EngineSettles, SendInv, Shaped, EngineFields
<1>. QED BY <1>1, <1>2, SameCalls, EngineStands

LEMMA EngineAutoCompactsSafe == ASSUME SendInv, EngineAutoCompacts PROVE SendInv'
<1>1. UNCHANGED <<o, calls, fl, recq, last>> /\ \E k \in Inputs : Spend(k)
  BY DEF EngineAutoCompacts, Inputs
<1>2. DOMAIN eng' = DOMAIN eng /\ eng'.applied = eng.applied
  BY DEF EngineAutoCompacts, SendInv, Shaped, EngineFields
<1>. QED BY <1>1, <1>2, SameCalls, EngineStands

LEMMA EngineAsksSafe == ASSUME SendInv, EngineAsks PROVE SendInv'
<1>1. UNCHANGED <<o, calls, fl, recq, last>> /\ \E k \in Inputs : Spend(k)
  BY DEF EngineAsks, Inputs
<1>2. DOMAIN eng' = DOMAIN eng /\ eng'.applied = eng.applied
  BY DEF EngineAsks, SendInv, Shaped, EngineFields
<1>. QED BY <1>1, <1>2, SameCalls, EngineStands

LEMMA EngineCompactedSafe == ASSUME SendInv, EngineCompacted PROVE SendInv'
<1>1. UNCHANGED <<o, fl, recq, last, todo>>
  BY DEF EngineCompacted
<1>2. DOMAIN eng' = DOMAIN eng /\ eng'.applied = eng.applied
  BY DEF EngineCompacted, SendInv, Shaped, EngineFields
<1>3. PICK f : f = [c \in calls |-> IF c.k = "compact" /\ eng.who = <<"call", c.n>> /\ c.res = "none"
                                    THEN [c EXCEPT !.res = "ok"] ELSE c]
  OBVIOUS
<1>4. calls' = {f[c] : c \in calls}
  BY <1>3 DEF EngineCompacted
<1>5. \A c \in calls : DOMAIN f[c] = DOMAIN c /\ \A x \in DOMAIN c \ {"res", "snap"} : f[c][x] = c[x]
  BY <1>3 DEF SendInv, Called, CallFields
<1>6. CallsStay
  BY <1>4, <1>5, AnswersRelabel DEF SendInv
<1>. QED BY <1>1, <1>2, <1>6, EngineStands

LEMMA EngineUnloadsSafe == ASSUME SendInv, EngineUnloads PROVE SendInv'
<1>1. UNCHANGED <<o, fl, recq, last>> /\ \E k \in Inputs : Spend(k)
  BY DEF EngineUnloads, Inputs
<1>2. DOMAIN eng' = DOMAIN eng /\ eng'.applied = eng.applied
  BY DEF EngineUnloads, SendInv, Shaped, EngineFields
<1>3. PICK f : f = [c \in calls |-> IF c.k = "compact" /\ eng.who = <<"call", c.n>> /\ eng.comp # 0 /\ c.res = "none"
                                    THEN [c EXCEPT !.res = "err"] ELSE c]
  OBVIOUS
<1>4. calls' = {f[c] : c \in calls}
  BY <1>3 DEF EngineUnloads
<1>5. \A c \in calls : DOMAIN f[c] = DOMAIN c /\ \A x \in DOMAIN c \ {"res", "snap"} : f[c][x] = c[x]
  BY <1>3 DEF SendInv, Called, CallFields
<1>6. CallsStay
  BY <1>4, <1>5, AnswersRelabel DEF SendInv
<1>. QED BY <1>1, <1>2, <1>6, EngineStands

LEMMA LossSafe == ASSUME SendInv, Loss PROVE SendInv'
<1>1. UNCHANGED <<o, fl, recq, last, eng>> /\ \E k \in Inputs : Spend(k)
  BY DEF Loss, Inputs
<1>2. PICK keep \in SUBSET {c \in calls : c.res # "none"} :
          calls' = {IF c \in keep THEN c ELSE [c EXCEPT !.res = "lost"] : c \in calls}
  BY DEF Loss
<1>3. PICK f : f = [c \in calls |-> IF c \in keep THEN c ELSE [c EXCEPT !.res = "lost"]]
  OBVIOUS
<1>4. calls' = {f[c] : c \in calls}
  BY <1>2, <1>3
<1>5. \A c \in calls : DOMAIN f[c] = DOMAIN c /\ \A x \in DOMAIN c \ {"res", "snap"} : f[c][x] = c[x]
  BY <1>3 DEF SendInv, Called, CallFields
<1>6. CallsStay
  BY <1>4, <1>5, AnswersRelabel DEF SendInv
<1>. QED BY <1>1, <1>6, EngineStands

-----------------------------------------------------------------------------
(***************************************************************************)
(* Steps that move one request.                                            *)
(***************************************************************************)

\* Only calls of r come and go.
Elsewhere(r) ==
    /\ \A d \in calls' : d \in calls \/ d.req = r
    /\ \A c \in calls : c \in calls' \/ c.req = r

\* The queue of recoveries is for every other request what it was.
QueuedElsewhere(r) ==
    \A q \in Requests \ {r} : /\ QueuedAt(q)' = {} <=> QueuedAt(q) = {}
                              /\ (\A i, j \in QueuedAt(q) : i = j) => \A i, j \in QueuedAt(q)' : i = j

\* A step about r, which may be no request at all, keeps the invariant when it
\* keeps it for r.
LEMMA Moves ==
    ASSUME SendInv, NEW r, Shaped', Called',
           OthersKept(o, o', r), \A w \in o.writes : w[2] # r => w \in o'.writes,
           Elsewhere(r), QueuedElsewhere(r),
           \A q \in Requests \ {r} : fl'.req = q <=> fl.req = q,
           r \in Requests \ Anonymous => Followed(r)'
    PROVE  SendInv'
<1>1. ASSUME NEW q \in Requests \ Anonymous, q # r PROVE Followed(q)'
  <2>1. Followed(q)
    BY DEF SendInv, AllFollowed
  <2>2. IdsOf(q)' = IdsOf(q)
    BY <1>1 DEF Elsewhere, IdsOf, CallsOf
  <2>3. (QueuedAt(q)' = {} <=> QueuedAt(q) = {}) /\ \A i, j \in QueuedAt(q)' : i = j
    <3>1. \A i, j \in QueuedAt(q) : i = j
      BY <2>1 DEF Followed
    <3>. QED BY <1>1, <3>1 DEF QueuedElsewhere
  <2>4. Written(q) => Written(q)'
    BY <1>1 DEF Written
  <2>5. \A i \in IdsOf(q) : <<i, q>> \in o.writes => <<i, q>> \in o'.writes
    BY <1>1
  <2>6. Untouched(o, o', q) \/ Forgotten(o, o', q)
    BY <1>1 DEF OthersKept
  <2>7. fl'.req = q <=> fl.req = q
    BY <1>1
  <2>. QED BY <2>1, <2>2, <2>3, <2>4, <2>5, <2>6, <2>7, Follows
<1>2. AllFollowed'
  BY <1>1 DEF AllFollowed
<1>. QED BY <1>2 DEF SendInv

LEMMA SameQueue ==
    ASSUME recq' = recq, NEW r
    PROVE  QueuedElsewhere(r) /\ QueuedAt(r)' = QueuedAt(r)
BY DEF QueuedElsewhere, QueuedAt

\* A job at the end of the queue.
LEMMA Enqueues ==
    ASSUME Shaped, NEW j \in Jobs, recq' = Append(recq, j)
    PROVE  /\ recq' \in Seq(Jobs) /\ QueuedElsewhere(j.req)
           /\ QueuedAt(j.req)' = QueuedAt(j.req) \cup {Len(recq) + 1}
<1>1. recq \in Seq(Jobs)
  BY DEF Shaped
<1>2. recq' \in Seq(Jobs) /\ Len(recq') = Len(recq) + 1
  BY <1>1
<1>3. \A i \in DOMAIN recq : recq'[i] = recq[i]
  BY <1>1
<1>4. recq'[Len(recq) + 1] = j
  BY <1>1
<1>5. DOMAIN recq' = DOMAIN recq \cup {Len(recq) + 1}
  BY <1>1, <1>2
<1>6. ASSUME NEW q, q # j.req PROVE QueuedAt(q)' = QueuedAt(q)
  BY <1>3, <1>4, <1>5, <1>6 DEF QueuedAt
<1>7. QueuedAt(j.req)' = QueuedAt(j.req) \cup {Len(recq) + 1}
  BY <1>3, <1>4, <1>5 DEF QueuedAt
<1>. QED BY <1>2, <1>6, <1>7 DEF QueuedElsewhere

\* The job at the head of the queue is taken.
LEMMA Dequeues ==
    ASSUME Shaped, recq # <<>>, recq' = Tail(recq), NEW r, r = Head(recq).req
    PROVE  /\ Head(recq) \in Jobs /\ recq' \in Seq(Jobs) /\ QueuedElsewhere(r)
           /\ QueuedAt(r) # {}
           /\ (\A i, j \in QueuedAt(r) : i = j) => QueuedAt(r)' = {}
<1>1. recq \in Seq(Jobs)
  BY DEF Shaped
<1>2. /\ Head(recq) \in Jobs /\ recq' \in Seq(Jobs) /\ Head(recq) = recq[1] /\ 1 \in DOMAIN recq
      /\ Len(recq) \in Nat /\ DOMAIN recq = 1..Len(recq)
  BY <1>1
<1>3. \A i \in DOMAIN recq' : i + 1 \in DOMAIN recq /\ recq'[i] = recq[i + 1] /\ i \in Nat \ {0}
  BY <1>1
<1>4. \A i \in DOMAIN recq : i # 1 => i - 1 \in DOMAIN recq' /\ recq'[i - 1] = recq[i]
  BY <1>1, <1>2
<1>5. ASSUME NEW q \in Requests, q # r
      PROVE  /\ QueuedAt(q)' = {} <=> QueuedAt(q) = {}
             /\ (\A i, j \in QueuedAt(q) : i = j) => \A i, j \in QueuedAt(q)' : i = j
  <2>1. \A i \in QueuedAt(q)' : i + 1 \in QueuedAt(q) /\ i \in Nat
    BY <1>3 DEF QueuedAt
  <2>2. \A i \in QueuedAt(q) : i - 1 \in QueuedAt(q)'
    BY <1>2, <1>4, <1>5 DEF QueuedAt
  <2>. QED BY <2>1, <2>2
<1>6. 1 \in QueuedAt(r)
  BY <1>2 DEF QueuedAt
<1>7. ASSUME \A i, j \in QueuedAt(r) : i = j PROVE QueuedAt(r)' = {}
  <2>1. SUFFICES ASSUME NEW i \in DOMAIN recq', recq'[i].req = r PROVE FALSE
    BY DEF QueuedAt
  <2>2. i + 1 \in QueuedAt(r) /\ i + 1 # 1
    BY <1>3, <2>1 DEF QueuedAt
  <2>. QED BY <1>6, <1>7, <2>2
<1>. QED BY <1>2, <1>5, <1>6, <1>7 DEF QueuedElsewhere

\* Calls, and what the ledger holds of their writes, after at most one new call.
LEMMA CalledMoves ==
    ASSUME SendInv, NEW n, NEW r \in Requests, last' = last + 1, calls' \subseteq calls \cup {n},
           DOMAIN n = CallFields, n.id = last + 1, n.req = r,
           o'.writes \subseteq o.writes \cup {<<last + 1, r>>}
    PROVE  Called'
<1>1. last \in Nat /\ \A w \in o.writes : w[1] \in Nat /\ w[1] <= last
  BY DEF SendInv, Shaped, Called, Ledger, Writes
<1>2. \A c \in calls : DOMAIN c = CallFields /\ c.id \in Nat /\ c.id <= last /\ (Sending(c) => c.req \in Requests)
  BY DEF SendInv, Called
<1>3. \A c, d \in calls : c.id = d.id => c = d
  BY DEF SendInv, Called
<1>4. \A w \in o.writes, c \in calls : Sending(c) /\ w[1] = c.id => w[2] = c.req
  BY DEF SendInv, Called
<1>5. \A c \in calls' : DOMAIN c = CallFields /\ c.id \in Nat /\ c.id <= last' /\ (Sending(c) => c.req \in Requests)
  BY <1>1, <1>2
<1>6. \A c, d \in calls' : c.id = d.id => c = d
  BY <1>1, <1>2, <1>3
<1>7. \A w \in o'.writes : w[1] <= last'
  BY <1>1
<1>8. \A w \in o'.writes, c \in calls' : Sending(c) /\ w[1] = c.id => w[2] = c.req
  BY <1>1, <1>2, <1>4
<1>. QED BY <1>5, <1>6, <1>7, <1>8 DEF Called

LEMMA CalledShrinks ==
    ASSUME SendInv, last' = last, calls' \subseteq calls, o'.writes \subseteq o.writes
    PROVE  Called'
BY DEF SendInv, Called

LEMMA ShapedMoves ==
    ASSUME SendInv, NEW r, Backdrop, o' \in Ledger, OthersKept(o, o', r),
           r \in Anonymous => o'.ops[r] = o.ops[r],
           recq' \in Seq(Jobs), Holder(fl')
    PROVE  Shaped'
<1>1. ASSUME NEW a \in Anonymous PROVE o'.ops[a] = NoOperation
  <2>1. o.ops[a] = NoOperation /\ a \in Requests
    BY LedgerAssumption DEF SendInv, Shaped
  <2>2. CASE a = r
    BY <2>1, <2>2
  <2>3. CASE a # r
    BY <2>1, <2>3 DEF OthersKept, Untouched, Forgotten, NoOperation
  <2>. QED BY <2>2, <2>3
<1>. QED BY <1>1 DEF Shaped, Backdrop

\* The same ledger.
LEMMA SameLedger ==
    ASSUME o' = o, NEW r
    PROVE  OthersKept(o, o', r)
BY DEF OthersKept, Untouched

LEMMA ConnectSafe == ASSUME SendInv, Connect PROVE SendInv'
<1>1. UNCHANGED <<o, calls, eng, fl, last, todo>>
  BY DEF Connect
<1>2. CASE recq' = recq
  BY <1>1, <1>2, SessionStepSafe
<1>3. CASE recq' = Append(recq, Recovery(NoRequest, "prompt"))
  <2>1. PICK j \in Jobs : j = Recovery(NoRequest, "prompt") /\ j.req = NoRequest
    <3>1. [req |-> NoRequest, kind |-> "prompt"] \in Jobs
      BY DEF Jobs, SendKinds
    <3>. QED BY <3>1 DEF Recovery
  <2>2. PICK r : r = NoRequest
    OBVIOUS
  <2>3. recq' \in Seq(Jobs) /\ QueuedElsewhere(r)
    BY <1>3, <2>1, <2>2, Enqueues DEF SendInv
  <2>4. Backdrop /\ OthersKept(o, o', r)
    BY <1>1, BackdropSame, SameLedger
  <2>5. o' \in Ledger /\ Holder(fl') /\ (r \in Anonymous => o'.ops[r] = o.ops[r])
    BY <1>1 DEF SendInv, Shaped
  <2>6. Shaped'
    BY <2>3, <2>4, <2>5, ShapedMoves
  <2>7. Called'
    BY <1>1, CalledShrinks
  <2>8. Elsewhere(r) /\ r \notin Requests \ Anonymous
    BY <1>1, <2>2, RequestAssumption DEF Elsewhere
  <2>9. \A q \in Requests \ {r} : fl'.req = q <=> fl.req = q
    BY <1>1
  <2>10. \A w \in o.writes : w[2] # r => w \in o'.writes
    BY <1>1
  <2>. QED BY <2>3, <2>4, <2>6, <2>7, <2>8, <2>9, <2>10, Moves
<1>. QED BY <1>2, <1>3 DEF Connect

\* PrepareDetachedSendRetry claims the operation for the holder of the permit.
LEMMA Claims ==
    ASSUME NEW w \in Ledger, NEW r \in Requests \ Anonymous
    PROVE  LET v == PrepareRetry(w, r)
           IN  /\ v \in Ledger /\ v.writes = w.writes /\ v.forgot = w.forgot
               /\ v.ops[r].phase = "retrying" /\ v.ops[r].published = w.ops[r].published
               /\ OthersKept(w, v, r)
<1>1. PICK op \in Operation : op = [w.ops[r] EXCEPT !.phase = "retrying"]
  BY DEF Ledger, Operations, Operation
<1>2. op.phase = "retrying" /\ op.published = w.ops[r].published
  BY <1>1 DEF Ledger, Operations, Operation
<1>3. PICK ops \in Operations : ops = [w.ops EXCEPT ![r] = op]
  BY DEF Ledger, Operations
<1>4. PICK v : v = PrepareRetry(w, r)
  OBVIOUS
<1>5. v = [w EXCEPT !.ops = ops]
  BY <1>1, <1>3, <1>4 DEF PrepareRetry, Named, Ledger
<1>6. v \in Ledger /\ v.writes = w.writes /\ v.forgot = w.forgot /\ v.ops = ops
  BY <1>3, <1>5 DEF Ledger
<1>7. v.ops[r] = op /\ \A q \in Requests \ {r} : v.ops[q] = w.ops[q]
  BY <1>3, <1>6 DEF Ledger, Operations
<1>. QED BY <1>2, <1>4, <1>6, <1>7 DEF OthersKept, Untouched

LEMMA StartJobSafe == ASSUME SendInv, StartJob PROVE SendInv'
<1>1. /\ UNCHANGED <<calls, eng, last, todo>> /\ fl.pc = "free"
      /\ recq # <<>> /\ recq' = Tail(recq)
  BY DEF StartJob
<1>2. PICK j : j = Head(recq)
  OBVIOUS
<1>3. PICK r : r = j.req
  OBVIOUS
<1>4. /\ j \in Jobs /\ recq' \in Seq(Jobs) /\ QueuedElsewhere(r) /\ QueuedAt(r) # {}
      /\ (\A i, k \in QueuedAt(r) : i = k) => QueuedAt(r)' = {}
  BY <1>1, <1>2, <1>3, Dequeues DEF SendInv
<1>5. fl.req = NoRequest
  BY <1>1, FreeHolder DEF SendInv
<1>6. Elsewhere(r) /\ Backdrop
  BY <1>1, BackdropSame DEF Elsewhere
<1>7. r \in Requests \cup {NoRequest} /\ j.kind \in SendKinds
  BY <1>3, <1>4 DEF Jobs
<1>8. CASE o' = o /\ fl'.req \in {NoRequest, r} /\ r \notin Requests \ Anonymous /\ Holder(fl')
  <2>1. OthersKept(o, o', r)
    BY <1>8, SameLedger
  <2>2. o' \in Ledger /\ (r \in Anonymous => o'.ops[r] = o.ops[r])
    BY <1>8 DEF SendInv, Shaped
  <2>3. Shaped'
    BY <1>4, <1>6, <1>8, <2>1, <2>2, ShapedMoves
  <2>4. Called'
    BY <1>1, <1>8, CalledShrinks
  <2>5. \A q \in Requests \ {r} : fl'.req = q <=> fl.req = q
    BY <1>5, <1>8, RequestAssumption
  <2>6. \A w \in o.writes : w[2] # r => w \in o'.writes
    BY <1>8
  <2>. QED BY <1>4, <1>6, <1>8, <2>1, <2>3, <2>4, <2>5, <2>6, Moves
<1>9. CASE r = NoRequest
  <2>1. o' = o /\ fl' \in {Free, [Free EXCEPT !.pc = "acquire"]}
    BY <1>2, <1>3, <1>9 DEF StartJob
  <2>2. Holder(fl') /\ fl'.req = NoRequest
    BY <2>1 DEF Holder, Free, JobFields, SendKinds
  <2>. QED BY <1>8, <1>9, <2>1, <2>2, RequestAssumption
<1>10. CASE r # NoRequest /\ r \in Anonymous
  <2>1. o' = o /\ fl' = [Free EXCEPT !.pc = "acquire", !.req = r, !.kind = j.kind]
    BY <1>2, <1>3, <1>10 DEF StartJob, MayRetry, PrepareRetry, Named
  <2>2. Holder(fl') /\ fl'.req = r
    BY <1>7, <2>1 DEF Holder, Free, JobFields, SendKinds
  <2>. QED BY <1>8, <1>10, <2>1, <2>2
<1>11. CASE r # NoRequest /\ r \notin Anonymous
  <2>1. r \in Requests \ Anonymous /\ Followed(r)
    BY <1>7, <1>11 DEF SendInv, AllFollowed
  <2>2. o.ops[r].phase = "admitted" /\ IdsOf(r) = {} /\ QueuedAt(r)' = {}
    BY <1>4, <2>1 DEF Followed
  <2>3. o' = PrepareRetry(o, r) /\ fl' = [Free EXCEPT !.pc = "acquire", !.req = r, !.kind = j.kind]
    BY <1>2, <1>3, <1>11, <2>2 DEF StartJob, MayRetry, Named
  <2>4. Holder(fl') /\ fl'.req = r
    BY <1>7, <2>3 DEF Holder, Free, JobFields, SendKinds
  <2>5. /\ o' \in Ledger /\ o'.writes = o.writes
        /\ o'.ops[r].phase = "retrying" /\ o'.ops[r].published = o.ops[r].published
        /\ OthersKept(o, o', r)
    BY <2>1, <2>3, Claims DEF SendInv, Shaped
  <2>6. Shaped'
    BY <1>4, <1>6, <2>1, <2>4, <2>5, ShapedMoves
  <2>7. Called'
    BY <1>1, <2>5, CalledShrinks
  <2>8. IdsOf(r)' = {}
    BY <1>1, <2>2 DEF IdsOf, CallsOf
  <2>9. Followed(r)'
    BY <2>1, <2>2, <2>4, <2>5, <2>8 DEF Followed
  <2>10. \A q \in Requests \ {r} : fl'.req = q <=> fl.req = q
    BY <1>5, <2>4, RequestAssumption
  <2>11. \A w \in o.writes : w[2] # r => w \in o'.writes
    BY <2>5
  <2>. QED BY <1>4, <1>6, <2>5, <2>6, <2>7, <2>9, <2>10, <2>11, Moves
<1>. QED BY <1>9, <1>10, <1>11

\* PublishSendOperationError ends a claimed operation with an error.
LEMMA Fails ==
    ASSUME NEW w \in Ledger, NEW r \in Requests \ Anonymous,
           w.ops[r].phase # "none", ~w.ops[r].published
    PROVE  LET v == PublishError(w, r)
           IN  /\ v \in Ledger /\ v.writes = w.writes /\ v.forgot = w.forgot
               /\ v.ops[r].phase = "terminal" /\ v.ops[r].err = "hard"
               /\ OthersKept(w, v, r)
<1>1. PICK op \in Operation : op = [phase |-> "terminal", err |-> "hard", published |-> TRUE]
  BY DEF Operation, Errors
<1>2. PICK ops \in Operations : ops = [w.ops EXCEPT ![r] = op]
  BY DEF Ledger, Operations
<1>3. PICK v : v = PublishError(w, r)
  OBVIOUS
<1>4. v = [w EXCEPT !.ops = ops]
  BY <1>1, <1>2, <1>3 DEF PublishError, Named, Ledger
<1>5. v \in Ledger /\ v.writes = w.writes /\ v.forgot = w.forgot /\ v.ops = ops
  BY <1>2, <1>4 DEF Ledger
<1>6. v.ops[r] = op /\ \A q \in Requests \ {r} : v.ops[q] = w.ops[q]
  BY <1>2, <1>5 DEF Ledger, Operations
<1>. QED BY <1>1, <1>3, <1>5, <1>6 DEF OthersKept, Untouched

LEMMA AcquireFailsSafe == ASSUME SendInv, AcquireFails PROVE SendInv'
<1>1. UNCHANGED <<calls, eng, recq, last, todo>> /\ fl' = Free
  BY DEF AcquireFails
<1>2. PICK r : r = fl.req
  OBVIOUS
<1>3. Holder(fl') /\ fl'.req = NoRequest /\ r \in Requests \cup {NoRequest}
  BY <1>1, <1>2, FreeHolder DEF SendInv, Shaped, Holder
<1>4. Backdrop /\ QueuedElsewhere(r) /\ QueuedAt(r)' = QueuedAt(r) /\ recq' \in Seq(Jobs)
  BY <1>1, BackdropSame, SameQueue DEF SendInv, Shaped
<1>5. \A q \in Requests \ {r} : fl'.req = q <=> fl.req = q
  BY <1>2, <1>3, RequestAssumption
<1>6. Elsewhere(r)
  BY <1>1 DEF Elsewhere
<1>7. CASE r \notin Requests \ Anonymous
  <2>1. o' = o
    BY <1>2, <1>3, <1>7 DEF AcquireFails, PublishError, Named
  <2>2. OthersKept(o, o', r) /\ \A w \in o.writes : w[2] # r => w \in o'.writes
    BY <2>1, SameLedger
  <2>3. o' \in Ledger /\ (r \in Anonymous => o'.ops[r] = o.ops[r])
    BY <2>1 DEF SendInv, Shaped
  <2>4. Shaped'
    BY <1>3, <1>4, <2>2, <2>3, ShapedMoves
  <2>5. Called'
    BY <1>1, <2>1, CalledShrinks
  <2>. QED BY <1>4, <1>5, <1>6, <1>7, <2>2, <2>4, <2>5, Moves
<1>8. CASE r \in Requests \ Anonymous
  <2>1. Followed(r) /\ r # NoRequest
    BY <1>8, RequestAssumption DEF SendInv, AllFollowed
  <2>2. o.ops[r].phase = "retrying" /\ IdsOf(r) = {} /\ QueuedAt(r) = {} /\ ~o.ops[r].published
    BY <1>2, <2>1 DEF Followed
  <2>3. o' = PublishError(o, r)
    BY <1>2, <2>1 DEF AcquireFails
  <2>4. /\ o' \in Ledger /\ o'.writes = o.writes /\ o'.ops[r].phase = "terminal" /\ OthersKept(o, o', r)
    BY <1>8, <2>2, <2>3, Fails DEF SendInv, Shaped
  <2>5. Shaped'
    BY <1>3, <1>4, <1>8, <2>4, ShapedMoves
  <2>6. Called'
    BY <1>1, <2>4, CalledShrinks
  <2>7. IdsOf(r)' = {}
    BY <1>1, <2>2 DEF IdsOf, CallsOf
  <2>8. Followed(r)'
    BY <1>3, <1>4, <2>1, <2>2, <2>4, <2>7 DEF Followed
  <2>9. \A w \in o.writes : w[2] # r => w \in o'.writes
    BY <2>4
  <2>. QED BY <1>4, <1>5, <1>6, <2>4, <2>5, <2>6, <2>8, <2>9, Moves
<1>. QED BY <1>7, <1>8

-----------------------------------------------------------------------------
(***************************************************************************)
(* One lemma per action: sends, their completions and their retries.       *)
(***************************************************************************)

\* A send that beginSendOperation lets go on, with or without an id.
MayStart(r) == r \in Requests \ Anonymous => Fresh(o, r) /\ Admission(o, r) = "go"

LEMMA Started ==
    ASSUME Shaped, NEW r \in Requests, MayStart(r), NEW err \in Errors
    PROVE  LET v == RecordSend(BeginSend(o, r), r, err)
           IN  /\ v \in Ledger /\ v.writes = o.writes /\ v.forgot[r] = o.forgot[r]
               /\ OthersKept(o, v, r)
               /\ r \in Anonymous => v = o
               /\ r \notin Anonymous =>
                     /\ v.ops[r].phase = IF err \in {"nil", "resumable", "closed"} THEN "admitted" ELSE "terminal"
                     /\ v.ops[r].err = err /\ ~v.ops[r].published
<1>1. CASE r \in Anonymous
  <2>1. RecordSend(BeginSend(o, r), r, err) = o
    BY <1>1, AnonymousStarts
  <2>. QED BY <1>1, <2>1 DEF Shaped, OthersKept, Untouched
<1>2. CASE r \notin Anonymous
  <2>1. o \in Ledger /\ Fresh(o, r) /\ Admission(o, r) = "go"
    BY <1>2 DEF MayStart, Shaped
  <2>. QED BY <1>2, <2>1, Starts
<1>. QED BY <1>1, <1>2

\* Who may start has no call and no recovery.
LEMMA StartsAlone ==
    ASSUME SendInv, NEW r \in Requests \ Anonymous, MayStart(r)
    PROVE  IdsOf(r) = {} /\ QueuedAt(r) = {}
<1>1. Followed(r) /\ o.ops[r].phase # "admitted"
  BY DEF SendInv, AllFollowed, MayStart, Fresh
<1>. QED BY <1>1 DEF Followed

\* The command of the send is written: its call is out.
LEMMA SentMoves ==
    ASSUME SendInv, NEW r \in Requests, NEW kind \in SendKinds, NEW retry, MayStart(r),
           Sends(kind, r, BeginSend(o, r), retry),
           recq' = recq, eng' = eng, todo' \in Plans,
           Holder(fl'), fl'.req = NoRequest, fl.req \in {NoRequest, r}
    PROVE  SendInv'
<1>1. PICK n : n = NewCall(kind, IF kind = "prompt" THEN s.promptSeq + 1 ELSE 0, r, retry)
  OBVIOUS
<1>2. DOMAIN n = CallFields /\ n.id = last + 1 /\ n.req = r /\ Sending(n)
  BY <1>1 DEF NewCall, CallFields, Sending
<1>3. calls' = calls \cup {n} /\ last' = last + 1
  BY <1>1 DEF Sends, Write
<1>4. PICK err \in Errors : err = "nil"
  BY DEF Errors
<1>5. PICK v : v = RecordSend(BeginSend(o, r), r, err)
  OBVIOUS
<1>6. /\ v \in Ledger /\ v.writes = o.writes /\ OthersKept(o, v, r) /\ (r \in Anonymous => v = o)
      /\ r \notin Anonymous => v.ops[r].phase = "admitted" /\ ~v.ops[r].published
  BY <1>4, <1>5, Started DEF SendInv
<1>7. o' = RegisterWrite(v, last + 1, r)
  BY <1>1, <1>2, <1>4, <1>5 DEF Sends
<1>8. last \in Nat /\ last + 1 \in Nat
  BY DEF SendInv, Shaped
<1>9. o' \in Ledger /\ o'.ops = v.ops /\ o'.forgot = v.forgot /\ o'.writes = o.writes \cup {<<last + 1, r>>}
  BY <1>6, <1>7, <1>8, Registers
<1>10. OthersKept(o, o', r) /\ (r \in Anonymous => o'.ops[r] = o.ops[r])
  BY <1>6, <1>9 DEF OthersKept, Untouched, Forgotten
<1>11. Backdrop
  BY <1>3, <1>8 DEF Backdrop, SendInv, Shaped
<1>12. QueuedElsewhere(r) /\ QueuedAt(r)' = QueuedAt(r) /\ recq' \in Seq(Jobs)
  BY SameQueue DEF SendInv, Shaped
<1>13. Shaped'
  BY <1>9, <1>10, <1>11, <1>12, ShapedMoves
<1>14. Called'
  BY <1>2, <1>3, <1>9, CalledMoves
<1>15. Elsewhere(r)
  BY <1>2, <1>3 DEF Elsewhere
<1>16. \A q \in Requests \ {r} : fl'.req = q <=> fl.req = q
  BY RequestAssumption
<1>17. ASSUME r \in Requests \ Anonymous PROVE Followed(r)'
  <2>1. IdsOf(r) = {} /\ QueuedAt(r) = {}
    BY <1>17, StartsAlone
  <2>2. IdsOf(r)' = {last + 1}
    BY <1>2, <1>3, <2>1 DEF IdsOf, CallsOf
  <2>3. o'.ops[r].phase = "admitted" /\ ~o'.ops[r].published
    BY <1>6, <1>9, <1>17
  <2>4. Written(r)'
    <3>1. PICK w : w = <<last + 1, r>>
      OBVIOUS
    <3>2. w \in o'.writes /\ w[2] = r
      BY <1>9, <3>1
    <3>. QED BY <3>2 DEF Written
  <2>5. fl'.req # r /\ QueuedAt(r)' = {} /\ \A i \in IdsOf(r)' : <<i, r>> \in o'.writes
    BY <1>9, <1>12, <2>1, <2>2, RequestAssumption
  <2>6. \A i, j \in IdsOf(r)' : i = j
    BY <2>2
  <2>. QED BY <2>3, <2>4, <2>5, <2>6 DEF Followed
<1>18. \A w \in o.writes : w[2] # r => w \in o'.writes
  BY <1>9
<1>. QED BY <1>10, <1>12, <1>13, <1>14, <1>15, <1>16, <1>17, <1>18, Moves

\* A request ends: its operation is terminal, nothing of it is under way.
LEMMA EndMoves ==
    ASSUME SendInv, NEW r \in Requests, Backdrop, last' = last,
           o' \in Ledger, OthersKept(o, o', r), r \in Anonymous => o'.ops[r] = o.ops[r],
           o'.writes \subseteq o.writes, \A w \in o.writes : w[2] # r => w \in o'.writes,
           calls' \subseteq calls, \A c \in calls : c \in calls' \/ c.req = r,
           recq' = recq, Holder(fl'), \A q \in Requests \ {r} : fl'.req = q <=> fl.req = q,
           r \notin Anonymous => /\ o'.ops[r].phase = "terminal"
                                 /\ IdsOf(r)' = {} /\ QueuedAt(r) = {} /\ fl'.req # r
    PROVE  SendInv'
<1>1. QueuedElsewhere(r) /\ QueuedAt(r)' = QueuedAt(r) /\ recq' \in Seq(Jobs)
  BY SameQueue DEF SendInv, Shaped
<1>2. Shaped'
  BY <1>1, ShapedMoves
<1>3. Called'
  BY CalledShrinks
<1>4. Elsewhere(r)
  BY DEF Elsewhere
<1>5. ASSUME r \in Requests \ Anonymous PROVE Followed(r)'
  BY <1>1, <1>5 DEF Followed
<1>. QED BY <1>1, <1>2, <1>3, <1>4, <1>5, Moves

\* A request waits for a recovery: its operation stays admitted.
LEMMA WaitMoves ==
    ASSUME SendInv, NEW r \in Requests, NEW kind \in SendKinds, Backdrop, last' = last,
           o' \in Ledger, OthersKept(o, o', r), r \in Anonymous => o'.ops[r] = o.ops[r],
           o'.writes \subseteq o.writes, \A w \in o.writes : w[2] # r => w \in o'.writes,
           calls' \subseteq calls, \A c \in calls : c \in calls' \/ c.req = r,
           recq' = Append(recq, Recovery(r, kind)), fl' = fl,
           r \notin Anonymous => /\ o'.ops[r].phase = "admitted" /\ ~o'.ops[r].published
                                 /\ IdsOf(r)' = {} /\ QueuedAt(r) = {} /\ fl.req # r
    PROVE  SendInv'
<1>1. PICK j \in Jobs : j = Recovery(r, kind) /\ j.req = r
  <2>1. [req |-> r, kind |-> kind] \in Jobs
    BY DEF Jobs
  <2>. QED BY <2>1 DEF Recovery
<1>2. recq' \in Seq(Jobs) /\ QueuedElsewhere(r) /\ QueuedAt(r)' = QueuedAt(r) \cup {Len(recq) + 1}
  BY <1>1, Enqueues DEF SendInv
<1>3. Holder(fl')
  BY DEF SendInv, Shaped
<1>4. Shaped'
  BY <1>2, <1>3, ShapedMoves
<1>5. Called'
  BY CalledShrinks
<1>6. Elsewhere(r)
  BY DEF Elsewhere
<1>7. ASSUME r \in Requests \ Anonymous PROVE Followed(r)'
  BY <1>2, <1>7 DEF Followed
<1>. QED BY <1>2, <1>4, <1>5, <1>6, <1>7, Moves

\* The write of the send fails at once.
LEMMA BrokenMoves ==
    ASSUME SendInv, NEW r \in Requests, NEW kind, MayStart(r),
           SendBreaks(kind, r, BeginSend(o, r)),
           recq' = recq, eng' = eng, todo' \in Plans,
           Holder(fl'), fl'.req = NoRequest, fl.req \in {NoRequest, r}
    PROVE  SendInv'
<1>1. PICK err \in Errors : err = "hard"
  BY DEF Errors
<1>2. o' = RecordSend(BeginSend(o, r), r, err) /\ UNCHANGED <<calls, last>>
  BY <1>1 DEF SendBreaks
<1>3. /\ o' \in Ledger /\ o'.writes = o.writes /\ OthersKept(o, o', r) /\ (r \in Anonymous => o' = o)
      /\ r \notin Anonymous => o'.ops[r].phase = "terminal"
  BY <1>1, <1>2, Started DEF SendInv
<1>4. Backdrop
  BY <1>2 DEF Backdrop, SendInv, Shaped
<1>5. r \notin Anonymous => IdsOf(r)' = {} /\ QueuedAt(r) = {}
  BY <1>2, StartsAlone DEF IdsOf, CallsOf
<1>6. \A q \in Requests \ {r} : fl'.req = q <=> fl.req = q
  BY RequestAssumption
<1>. QED BY <1>2, <1>3, <1>4, <1>5, <1>6, RequestAssumption, EndMoves

LEMMA SendSafe ==
    ASSUME SendInv, NEW r \in todo.reqs, NEW kind \in SendKinds, Send(kind, r)
    PROVE  SendInv'
<1>1. r \in Requests /\ todo \in Plans
  BY DEF SendInv, Shaped, Plans
<1>2. fl' = fl /\ eng' = eng /\ fl.pc = "free" /\ Spend(kind)
  BY DEF Send
<1>3. kind \in Inputs
  BY DEF SendKinds, Inputs
<1>4. todo' \in Plans
  BY <1>1, <1>2, <1>3, Spends
<1>5. fl.req = NoRequest /\ Holder(fl') /\ fl'.req = NoRequest
  BY <1>2, FreeHolder DEF SendInv, Shaped
<1>6. CASE UNCHANGED <<s, o, calls, wire, last, recq>>
  <2>1. Backdrop
    BY <1>2, <1>4, <1>6 DEF Backdrop, SendInv, Shaped
  <2>. QED BY <1>2, <1>5, <1>6, <2>1, SameCalls, StandsStill
<1>7. CASE Admission(o, r) = "go"
  <2>1. MayStart(r)
    <3>1. SUFFICES ASSUME r \in Requests \ Anonymous PROVE o.ops[r].phase = "none"
      BY <1>7 DEF MayStart, Fresh
    <3>2. o.ops[r].phase # "retrying" /\ o.ops[r].phase \in {"none", "admitted", "retrying", "terminal"}
      BY <1>5, <3>1, RequestAssumption DEF SendInv, AllFollowed, Followed, Shaped, Ledger, Operations, Operation
    <3>. QED BY <1>7, <3>1, <3>2 DEF Admission, Named
  <2>2. PICK why : why = Refusal(kind, FALSE)
    OBVIOUS
  <2>3. CASE why \in {"resumable", "closed"} /\ UNCHANGED <<s, calls, wire, last>>
             /\ o' = RecordSend(BeginSend(o, r), r, why) /\ recq' = Append(recq, Recovery(r, kind))
    <3>1. why \in Errors
      BY <2>3 DEF Errors
    <3>2. /\ o' \in Ledger /\ o'.writes = o.writes /\ OthersKept(o, o', r) /\ (r \in Anonymous => o' = o)
          /\ r \notin Anonymous => o'.ops[r].phase = "admitted" /\ ~o'.ops[r].published
      BY <1>1, <2>1, <2>3, <3>1, Started DEF SendInv
    <3>3. Backdrop
      BY <1>2, <1>4, <2>3 DEF Backdrop, SendInv, Shaped
    <3>4. r \notin Anonymous => IdsOf(r)' = {} /\ QueuedAt(r) = {}
      BY <1>1, <2>1, <2>3, StartsAlone DEF IdsOf, CallsOf
    <3>. QED BY <1>1, <1>2, <1>5, <2>3, <3>2, <3>3, <3>4, RequestAssumption, WaitMoves
  <2>4. CASE why = "hard" /\ UNCHANGED <<s, calls, wire, last, recq>> /\ o' = RecordSend(BeginSend(o, r), r, why)
    <3>1. why \in Errors
      BY <2>4 DEF Errors
    <3>2. /\ o' \in Ledger /\ o'.writes = o.writes /\ OthersKept(o, o', r) /\ (r \in Anonymous => o' = o)
          /\ r \notin Anonymous => o'.ops[r].phase = "terminal"
      BY <1>1, <2>1, <2>4, <3>1, Started DEF SendInv
    <3>3. Backdrop
      BY <1>2, <1>4, <2>4 DEF Backdrop, SendInv, Shaped
    <3>4. r \notin Anonymous => IdsOf(r)' = {} /\ QueuedAt(r) = {}
      BY <1>1, <2>1, <2>4, StartsAlone DEF IdsOf, CallsOf
    <3>5. \A q \in Requests \ {r} : fl'.req = q <=> fl.req = q
      BY <1>2
    <3>. QED BY <1>1, <1>2, <1>5, <2>4, <3>2, <3>3, <3>4, <3>5, RequestAssumption, EndMoves
  <2>5. CASE Sends(kind, r, BeginSend(o, r), FALSE) /\ recq' = recq
    <3>1. PICK retry : retry = FALSE
      OBVIOUS
    <3>2. Sends(kind, r, BeginSend(o, r), retry)
      BY <2>5, <3>1
    <3>. QED BY <1>1, <1>2, <1>4, <1>5, <2>1, <2>5, <3>2, SentMoves
  <2>6. CASE SendBreaks(kind, r, BeginSend(o, r)) /\ recq' = recq
    BY <1>1, <1>2, <1>4, <1>5, <2>1, <2>6, BrokenMoves
  <2>. QED BY <1>6, <2>2, <2>3, <2>4, <2>5, <2>6 DEF Send
<1>. QED BY <1>6, <1>7 DEF Send

LEMMA RetrySafe == ASSUME SendInv, Retry PROVE SendInv'
<1>1. fl' = Free /\ UNCHANGED <<eng, recq, todo>>
  BY DEF Retry
<1>2. PICK r : r = fl.req
  OBVIOUS
<1>3. PICK kind : kind = fl.kind
  OBVIOUS
<1>4. r \in Requests /\ kind \in SendKinds /\ todo' \in Plans
  BY <1>1, <1>2, <1>3 DEF Retry, SendInv, Shaped, Holder
<1>5. Holder(fl') /\ fl'.req = NoRequest
  BY <1>1, FreeHolder DEF SendInv
<1>6. MayStart(r)
  <2>1. SUFFICES ASSUME r \in Requests \ Anonymous PROVE o.ops[r].phase = "retrying" /\ ~o.ops[r].published
    <3>1. o.ops[r].phase = "retrying" => Admission(o, r) = "go"
      BY DEF Admission
    <3>. QED BY <3>1 DEF MayStart, Fresh
  <2>. QED BY <1>2, <2>1 DEF SendInv, AllFollowed, Followed
<1>7. PICK why : why = Refusal(kind, TRUE)
  OBVIOUS
<1>8. CASE /\ why # "nil" /\ UNCHANGED <<s, calls, wire, last>>
           /\ o' = PublishOutcome(RecordSend(BeginSend(o, r), r, why), r, why)
  <2>1. why \in Errors \ {"unknown"}
    BY <1>7, <1>8 DEF Errors, Refusal
  <2>2. PICK v : v = RecordSend(BeginSend(o, r), r, why)
    OBVIOUS
  <2>3. /\ v \in Ledger /\ v.writes = o.writes /\ OthersKept(o, v, r) /\ (r \in Anonymous => v = o)
        /\ r \notin Anonymous => v.ops[r].phase \in {"admitted", "terminal"} /\ ~v.ops[r].published
    BY <1>4, <1>6, <2>1, <2>2, Started DEF SendInv
  <2>4. o' = PublishOutcome(v, r, why)
    BY <1>8, <2>2
  <2>5. /\ o' \in Ledger /\ o'.writes \subseteq o.writes /\ (\A w \in o.writes : w[2] # r => w \in o'.writes)
        /\ OthersKept(o, o', r) /\ (r \in Anonymous => o'.ops[r] = o.ops[r])
        /\ r \notin Anonymous => o'.ops[r].phase = "terminal"
    <3>1. CASE r \in Anonymous
      <4>1. o' = o
        BY <2>3, <2>4, <3>1 DEF PublishOutcome, Named
      <4>. QED BY <2>3, <3>1, <4>1
    <3>2. CASE r \notin Anonymous
      <4>1. /\ o' \in Ledger /\ o'.forgot = v.forgot /\ o'.writes = {x \in v.writes : x[2] # r}
            /\ o'.ops[r].phase = "terminal" /\ OthersKept(v, o', r)
        BY <1>4, <2>1, <2>3, <2>4, <3>2, Publishes
      <4>2. OthersKept(o, o', r)
        BY <2>3, <4>1 DEF OthersKept, Untouched, Forgotten, NoOperation
      <4>. QED BY <2>3, <3>2, <4>1, <4>2
    <3>. QED BY <3>1, <3>2
  <2>6. Backdrop
    BY <1>1, <1>8 DEF Backdrop, SendInv, Shaped
  <2>7. r \notin Anonymous => IdsOf(r)' = {} /\ QueuedAt(r) = {}
    BY <1>4, <1>6, <1>8, StartsAlone DEF IdsOf, CallsOf
  <2>8. \A q \in Requests \ {r} : fl'.req = q <=> fl.req = q
    BY <1>2, <1>5, RequestAssumption
  <2>. QED BY <1>1, <1>4, <1>5, <1>8, <2>5, <2>6, <2>7, <2>8, RequestAssumption, EndMoves
<1>9. CASE Sends(kind, r, BeginSend(o, r), TRUE)
  <2>1. PICK retry : retry = TRUE
    OBVIOUS
  <2>2. Sends(kind, r, BeginSend(o, r), retry)
    BY <1>9, <2>1
  <2>. QED BY <1>1, <1>2, <1>4, <1>5, <1>6, <2>2, SentMoves
<1>10. CASE SendBreaks(kind, r, BeginSend(o, r))
  BY <1>1, <1>2, <1>4, <1>5, <1>6, <1>10, BrokenMoves
<1>. QED BY <1>2, <1>3, <1>7, <1>8, <1>9, <1>10 DEF Retry

\* The call of a request with an id is its only one, and it has its write.
LEMMA CallFollowed ==
    ASSUME SendInv, NEW c \in calls, Sending(c), c.req \notin Anonymous
    PROVE  /\ o.ops[c.req].phase = "admitted" /\ ~o.ops[c.req].published
           /\ IdsOf(c.req) = {c.id} /\ QueuedAt(c.req) = {} /\ fl.req # c.req
           /\ <<c.id, c.req>> \in o.writes
           /\ \A d \in calls : Sending(d) /\ d.req = c.req => d = c
<1>1. PICK r \in Requests \ Anonymous : r = c.req
  BY DEF SendInv, Called
<1>2. Followed(r) /\ c.id \in IdsOf(r)
  BY <1>1 DEF SendInv, AllFollowed, IdsOf, CallsOf
<1>3. o.ops[r].phase = "admitted" /\ ~o.ops[r].published /\ QueuedAt(r) = {} /\ fl.req # r /\ <<c.id, r>> \in o.writes
  BY <1>2 DEF Followed
<1>4. IdsOf(r) = {c.id}
  BY <1>2 DEF Followed
<1>5. ASSUME NEW d \in calls, Sending(d), d.req = r PROVE d = c
  <2>1. d.id \in IdsOf(r)
    BY <1>5 DEF IdsOf, CallsOf
  <2>. QED BY <1>4, <2>1 DEF SendInv, Called
<1>. QED BY <1>1, <1>3, <1>4, <1>5

\* What an answer leaves of the writes: only writes of its request go.
LEMMA AnsweredLedger ==
    ASSUME SendInv, NEW c \in calls, Sending(c)
    PROVE  LET w == Answered(o, c)
           IN  /\ w \in Ledger /\ w.ops = o.ops /\ w.forgot = o.forgot /\ w.writes \subseteq o.writes
               /\ \A x \in o.writes : x[2] # c.req => x \in w.writes
               /\ c.res = "lost" => w = o
<1>1. o \in Ledger /\ \A x \in o.writes : x[1] = c.id => x[2] = c.req
  BY DEF SendInv, Shaped, Called
<1>2. CASE c.res = "lost"
  BY <1>1, <1>2 DEF Answered
<1>3. CASE c.res # "lost"
  <2>1. PICK w \in Ledger : /\ w = SettleWrite(o, c.id) /\ w.ops = o.ops /\ w.forgot = o.forgot
                            /\ w.writes = {x \in o.writes : x[1] # c.id}
    BY <1>1, SettlesWrite
  <2>2. Answered(o, c) = w
    BY <1>3, <2>1 DEF Answered
  <2>. QED BY <1>1, <1>3, <2>1, <2>2
<1>. QED BY <1>2, <1>3

LEMMA FinishedSafe ==
    ASSUME SendInv, NEW c, CompletionFrame(c), Sending(c), calls' = calls \ {c}, last' = last,
           Finished(Answered(o, c), c)
    PROVE  SendInv'
<1>1. c \in calls /\ fl' = fl /\ UNCHANGED <<eng, todo>>
  BY DEF CompletionFrame, Sending, SendKinds
<1>2. PICK r \in Requests : r = c.req
  BY <1>1 DEF SendInv, Called
<1>3. PICK w \in Ledger : /\ w = Answered(o, c) /\ w.ops = o.ops /\ w.forgot = o.forgot /\ w.writes \subseteq o.writes
                          /\ \A x \in o.writes : x[2] # r => x \in w.writes
                          /\ c.res = "lost" => w = o
  BY <1>1, <1>2, AnsweredLedger
<1>4. Backdrop /\ Holder(fl')
  BY <1>1, BackdropSame DEF SendInv, Shaped
<1>5. calls' \subseteq calls /\ \A d \in calls : d \in calls' \/ d.req = r
  BY <1>2
<1>6. r \notin Anonymous =>
         /\ o.ops[r].phase = "admitted" /\ ~o.ops[r].published
         /\ IdsOf(r)' = {} /\ QueuedAt(r) = {} /\ fl.req # r /\ <<c.id, r>> \in o.writes
  BY <1>1, <1>2, CallFollowed DEF IdsOf, CallsOf
<1>7. OthersKept(o, w, r) /\ (r \in Anonymous => w.ops[r] = o.ops[r])
  BY <1>3 DEF OthersKept, Untouched
<1>8. CASE o' = w /\ \E kind \in SendKinds : recq' = Append(recq, Recovery(r, kind))
  <2>1. PICK kind \in SendKinds : recq' = Append(recq, Recovery(r, kind))
    BY <1>8
  <2>2. r \notin Anonymous => o'.ops[r].phase = "admitted" /\ ~o'.ops[r].published
    BY <1>3, <1>6, <1>8
  <2>. QED BY <1>1, <1>3, <1>4, <1>5, <1>6, <1>7, <1>8, <2>1, <2>2, WaitMoves
<1>9. CASE o' = PublishOutcome(w, r, Outcome(c)) /\ recq' = recq
  <2>1. CASE r \in Anonymous
    <3>1. o' = w
      BY <1>9, <2>1 DEF PublishOutcome, Named
    <3>2. \A q \in Requests \ {r} : fl'.req = q <=> fl.req = q
      BY <1>1
    <3>. QED BY <1>3, <1>4, <1>5, <1>7, <1>9, <2>1, <3>1, <3>2, EndMoves
  <2>2. CASE r \notin Anonymous /\ Outcome(c) = "unknown"
    <3>1. c.res = "lost" /\ o' = w
      BY <1>9, <2>2 DEF Outcome, PublishOutcome
    <3>2. o' = o
      BY <1>3, <3>1
    <3>3. OthersKept(o, o', r) /\ Elsewhere(r) /\ QueuedElsewhere(r) /\ QueuedAt(r)' = QueuedAt(r)
      BY <1>5, <1>9, <3>2, SameLedger, SameQueue DEF Elsewhere
    <3>4. Shaped'
      BY <1>4, <1>9, <2>2, <3>2, <3>3, ShapedMoves DEF SendInv, Shaped
    <3>5. Called'
      BY <1>5, <3>2, CalledShrinks
    <3>6. Written(r)'
      <4>1. PICK x : x = <<c.id, r>>
        OBVIOUS
      <4>2. x \in o'.writes /\ x[2] = r
        BY <1>6, <2>2, <3>2, <4>1
      <4>. QED BY <4>2 DEF Written
    <3>7. Followed(r)'
      BY <1>1, <1>6, <2>2, <3>2, <3>3, <3>6 DEF Followed
    <3>8. \A x \in o.writes : x[2] # r => x \in o'.writes
      BY <3>2
    <3>9. \A q \in Requests \ {r} : fl'.req = q <=> fl.req = q
      BY <1>1
    <3>. QED BY <3>3, <3>4, <3>5, <3>7, <3>8, <3>9, Moves
  <2>3. CASE r \notin Anonymous /\ Outcome(c) # "unknown"
    <3>1. PICK err \in Errors \ {"unknown"} : err = Outcome(c)
      BY <2>3 DEF Outcome, Errors
    <3>2. w.ops[r].phase \in {"admitted", "terminal"} /\ ~w.ops[r].published
      BY <1>3, <1>6, <2>3
    <3>3. /\ o' \in Ledger /\ o'.forgot = w.forgot /\ o'.writes = {x \in w.writes : x[2] # r}
          /\ o'.ops[r].phase = "terminal" /\ OthersKept(w, o', r)
      BY <1>9, <2>3, <3>1, <3>2, Publishes
    <3>4. OthersKept(o, o', r)
      BY <1>3, <3>3 DEF OthersKept, Untouched, Forgotten
    <3>5. o'.writes \subseteq o.writes /\ \A x \in o.writes : x[2] # r => x \in o'.writes
      BY <1>3, <3>3
    <3>6. \A q \in Requests \ {r} : fl'.req = q <=> fl.req = q
      BY <1>1
    <3>. QED BY <1>1, <1>4, <1>5, <1>6, <1>9, <2>3, <3>3, <3>4, <3>5, <3>6, EndMoves
  <2>. QED BY <2>1, <2>2, <2>3
<1>. QED
  <2>1. (IF c.of # 0 THEN "prompt" ELSE c.k) \in SendKinds
    BY DEF Sending, SendKinds
  <2>. QED BY <1>2, <1>3, <1>8, <1>9, <2>1 DEF Finished

LEMMA PromptBusySafe ==
    ASSUME SendInv, NEW c, CompletionFrame(c), PromptBusy(c)
    PROVE  SendInv'
<1>1. c \in calls /\ c.k = "prompt" /\ fl' = fl /\ recq' = recq /\ UNCHANGED <<eng, todo>>
  BY DEF PromptBusy, CompletionFrame
<1>2. Sending(c)
  BY <1>1 DEF Sending, SendKinds
<1>3. PICK r \in Requests : r = c.req
  BY <1>1, <1>2 DEF SendInv, Called
<1>4. PICK n : n = [NewCall("steer", 0, c.req, c.retry) EXCEPT !.of = c.n]
  OBVIOUS
<1>5. DOMAIN n = CallFields /\ n.id = last + 1 /\ n.req = r /\ Sending(n)
  BY <1>3, <1>4 DEF NewCall, CallFields, Sending, SendKinds
<1>6. calls' = (calls \ {c}) \cup {n} /\ last' = last + 1
  BY <1>4 DEF PromptBusy
<1>7. last \in Nat /\ last + 1 \in Nat
  BY DEF SendInv, Shaped
<1>8. PICK w \in Ledger : /\ w = SettleWrite(o, c.id) /\ w.ops = o.ops /\ w.forgot = o.forgot
                          /\ w.writes = {x \in o.writes : x[1] # c.id}
  BY SettlesWrite DEF SendInv, Shaped
<1>9. o' = RegisterWrite(w, last + 1, r)
  BY <1>3, <1>4, <1>5, <1>8 DEF PromptBusy
<1>10. o' \in Ledger /\ o'.ops = o.ops /\ o'.forgot = o.forgot /\ o'.writes = w.writes \cup {<<last + 1, r>>}
  BY <1>7, <1>8, <1>9, Registers
<1>11. \A x \in o.writes : x[2] # r => x \in o'.writes
  BY <1>1, <1>2, <1>3, <1>8, <1>10 DEF SendInv, Called
<1>12. OthersKept(o, o', r) /\ (r \in Anonymous => o'.ops[r] = o.ops[r])
  BY <1>10 DEF OthersKept, Untouched
<1>13. Backdrop
  BY <1>1, <1>6, <1>7 DEF Backdrop, SendInv, Shaped
<1>14. QueuedElsewhere(r) /\ QueuedAt(r)' = QueuedAt(r) /\ recq' \in Seq(Jobs) /\ Holder(fl')
  BY <1>1, SameQueue DEF SendInv, Shaped
<1>15. Shaped'
  BY <1>10, <1>12, <1>13, <1>14, ShapedMoves
<1>16. Called'
  BY <1>5, <1>6, <1>8, <1>10, CalledMoves
<1>17. Elsewhere(r)
  BY <1>3, <1>5, <1>6 DEF Elsewhere
<1>18. ASSUME r \in Requests \ Anonymous PROVE Followed(r)'
  <2>1. /\ o.ops[r].phase = "admitted" /\ ~o.ops[r].published /\ QueuedAt(r) = {} /\ fl.req # r
        /\ \A d \in calls : Sending(d) /\ d.req = r => d = c
    BY <1>1, <1>2, <1>3, <1>18, CallFollowed
  <2>2. IdsOf(r)' = {last + 1}
    BY <1>5, <1>6, <2>1 DEF IdsOf, CallsOf
  <2>3. <<last + 1, r>> \in o'.writes /\ \A i \in IdsOf(r)' : <<i, r>> \in o'.writes
    BY <1>10, <2>2
  <2>4. Written(r)'
    <3>1. PICK x : x = <<last + 1, r>>
      OBVIOUS
    <3>2. x \in o'.writes /\ x[2] = r
      BY <2>3, <3>1
    <3>. QED BY <3>2 DEF Written
  <2>5. \A i, j \in IdsOf(r)' : i = j
    BY <2>2
  <2>. QED BY <1>1, <1>10, <1>14, <2>1, <2>3, <2>4, <2>5 DEF Followed
<1>19. \A q \in Requests \ {r} : fl'.req = q <=> fl.req = q
  BY <1>1
<1>. QED BY <1>11, <1>12, <1>14, <1>15, <1>16, <1>17, <1>18, <1>19, Moves

LEMMA CompleteSafe == ASSUME SendInv, Complete PROVE SendInv'
<1>1. PICK c \in calls :
          /\ \/ PromptBusy(c)
             \/ c.k = "prompt" /\ ~Steered(c) /\ CompletesPrompt(c)
             \/ c.k = "steer" /\ c.of # 0 /\ CompletesPrompt(c)
             \/ c.k = "steer" /\ c.of = 0 /\ CompletesSteer(c)
             \/ c.k = "compact" /\ CompletesCompact(c)
             \/ c.k = "state" /\ CompletesState(c)
             \/ c.k = "close" /\ CompletesClose(c)
          /\ fl' = IF c.k = "close" /\ fl.pc = "evict" THEN Free ELSE fl
          /\ UNCHANGED <<eng, evs, hand, net, due, todo>>
  BY DEF Complete
<1>2. CompletionFrame(c)
  BY <1>1 DEF CompletionFrame
<1>3. CASE PromptBusy(c)
  BY <1>2, <1>3, PromptBusySafe
<1>4. CASE c.k \in SendKinds /\ CompletesPrompt(c)
  BY <1>2, <1>4, FinishedSafe DEF CompletesPrompt, Sending
<1>5. CASE c.k \in SendKinds /\ CompletesSteer(c)
  BY <1>2, <1>5, FinishedSafe DEF CompletesSteer, Sending
<1>6. CASE c.k = "compact" /\ CompletesCompact(c)
  BY <1>2, <1>6, CompletesCompactSafe
<1>7. CASE c.k = "state" /\ CompletesState(c)
  BY <1>2, <1>7, CompletesStateSafe
<1>8. CASE c.k = "close" /\ CompletesClose(c)
  BY <1>2, <1>8, CompletesCloseSafe
<1>. QED BY <1>1, <1>3, <1>4, <1>5, <1>6, <1>7, <1>8 DEF SendKinds

-----------------------------------------------------------------------------
(***************************************************************************)
(* No send is forgotten.                                                   *)
(***************************************************************************)

LEMMA SendInit == Init => SendInv
<1>. SUFFICES ASSUME Init PROVE SendInv
  OBVIOUS
<1>1. o = [ops |-> [r \in Requests |-> NoOperation], fifo |-> <<>>, writes |-> {}, forgot |-> [r \in Requests |-> 0]]
  BY DEF Init, NewOwner
<1>2. o \in Ledger
  <2>1. [r \in Requests |-> NoOperation] \in Operations
    BY DEF Operations, Operation, NoOperation, Errors
  <2>2. [r \in Requests |-> 0] \in Counts /\ {} \in Writes /\ <<>> \in Seq(Requests)
    BY DEF Counts, Writes
  <2>. QED BY <1>1, <2>1, <2>2 DEF Ledger
<1>3. \A r \in Requests : o.ops[r] = NoOperation
  BY <1>1
<1>4. eng.applied \in Counts /\ DOMAIN eng = EngineFields
  BY DEF Init, Counts, EngineFields
<1>5. todo \in Plans
  BY ScenarioAssumption DEF Init, Plans
<1>6. Holder(fl) /\ fl.req = NoRequest
  BY DEF Init, Holder, Free, JobFields, SendKinds
<1>7. Shaped
  BY <1>2, <1>3, <1>4, <1>5, <1>6, LedgerAssumption DEF Init, Shaped
<1>8. Called
  BY <1>1 DEF Init, Called
<1>9. ASSUME NEW r \in Requests \ Anonymous PROVE Followed(r)
  <2>1. IdsOf(r) = {} /\ QueuedAt(r) = {}
    BY DEF Init, IdsOf, CallsOf, QueuedAt
  <2>. QED BY <1>3, <1>6, <2>1, RequestAssumption DEF Followed, NoOperation
<1>. QED BY <1>7, <1>8, <1>9 DEF SendInv, AllFollowed

LEMMA SendStep == SendInv /\ [Next]_vars => SendInv'
<1>. SUFFICES ASSUME SendInv, [Next]_vars PROVE SendInv'
  OBVIOUS
<1>1. CASE UNCHANGED vars
  BY <1>1, SessionStepSafe DEF vars
<1>2. CASE Client
  <2>1. ASSUME NEW r \in todo.reqs, NEW kind \in {"prompt", "steer"}, Send(kind, r) PROVE SendInv'
    BY <2>1, SendSafe DEF SendKinds
  <2>2. CASE Detach
    BY <2>2, SessionStepSafe DEF Detach
  <2>. QED BY <1>2, <2>1, <2>2, CompactSafe, QueryStateSafe, RespondSafe, ReopenSafe, StopSafe DEF Client
<1>3. CASE Process
  <2>1. CASE Ingest \/ Dispatch \/ InvalidateEpoch \/ ConfirmTimeout
    BY <2>1, SessionStepSafe DEF Ingest, Dispatch, InvalidateEpoch, ConfirmTimeout
  <2>. QED BY <1>3, <2>1, CompleteSafe, StartJobSafe, AcquireExistingSafe, AcquireOpensSafe, AcquireFailsSafe,
              PublishSafe, RetrySafe, EvictSafe, EvictTimeoutSafe DEF Process
<1>4. CASE Engine
  BY <1>4, EngineHandlesSafe, EngineOwnRunSafe, EngineSettlesSafe, EngineAutoCompactsSafe, EngineCompactedSafe,
     EngineUnloadsSafe, EngineAsksSafe DEF Engine
<1>5. CASE Loss
  BY <1>5, LossSafe
<1>6. CASE Connect
  BY <1>6, ConnectSafe
<1>. QED BY <1>1, <1>2, <1>3, <1>4, <1>5, <1>6 DEF Next

LEMMA SendInvNoLimbo == SendInv => NoLimbo
<1>. SUFFICES ASSUME SendInv, Quiet, NEW r \in Requests
              PROVE  \/ o.ops[r].phase \in {"none", "terminal"}
                     \/ o.ops[r].phase = "admitted" /\ \E w \in o.writes : w[2] = r
  BY DEF NoLimbo
<1>1. o.ops[r].phase \in {"none", "admitted", "retrying", "terminal"}
  BY DEF SendInv, Shaped, Ledger, Operations, Operation
<1>2. CASE r \in Anonymous
  BY <1>2 DEF SendInv, Shaped, NoOperation
<1>3. CASE r \notin Anonymous
  <2>1. Followed(r)
    BY <1>3 DEF SendInv, AllFollowed
  <2>2. QueuedAt(r) = {} /\ fl.req = NoRequest
    BY DEF Quiet, QueuedAt, Free
  <2>. QED BY <1>1, <2>1, <2>2, RequestAssumption DEF Followed, Written
<1>. QED BY <1>2, <1>3

\* Once nothing is under way every request id has its outcome or a write that was
\* lost with a connection (PublishDetachedOutcome, PublishSendOperationError,
\* hasUnresolvedSendLocked), over losses, unloads, reopenings, evictions and stops.
THEOREM SendsEnd == Spec => []NoLimbo
<1>1. Spec => []SendInv
  BY SendInit, SendStep, PTL DEF Spec
<1>. QED BY <1>1, SendInvNoLimbo, PTL


-----------------------------------------------------------------------------
(***************************************************************************)
(* What the steps of a session leave of its route.                         *)
(***************************************************************************)

LEMMA KeepsItself == ASSUME NEW y PROVE Keeps(y, y)
BY DEF Keeps

LEMMA KeepsOn ==
    ASSUME NEW x, NEW y, NEW z, Routed(x), Keeps(x, y), Keeps(y, z)
    PROVE  Routed(y) /\ Keeps(x, z)
BY DEF Routed, Keeps

LEMMA KeepsScheduled == ASSUME NEW y, NEW u, NEW b, Routed(y) PROVE Keeps(y, ScheduleIdle(y, u, b))
BY DEF Keeps, Routed, RouteFields, ScheduleIdle

LEMMA KeepsObserved == ASSUME NEW y, NEW u, Routed(y) PROVE Keeps(y, ObserveLive(y, u))
BY DEF Keeps, Routed, RouteFields, ObserveLive

LEMMA KeepsHydrated == ASSUME NEW y, NEW snap, Routed(y) PROVE Keeps(y, Hydrate(y, snap))
<1>1. PICK z : z = Copied(y, snap)
  OBVIOUS
<1>2. Keeps(y, z)
  BY <1>1 DEF Keeps, Routed, RouteFields, Copied
<1>3. Keeps(z, Hydrate(y, snap))
  BY <1>1, <1>2 DEF Keeps, Routed, RouteFields, Hydrate
<1>. QED BY <1>2, <1>3, KeepsOn

LEMMA KeepsRemembered == ASSUME NEW y, NEW ids, Routed(y) PROVE Keeps(y, Remember(y, ids))
BY DEF Keeps, Routed, RouteFields, Remember

LEMMA KeepsFinished == ASSUME NEW y, NEW id, Routed(y) PROVE Keeps(y, FinishCompaction(y, id))
<1>1. PICK z : z = Remember(y, {<<"r", y.compactRPCID>>, <<"p", y.compactProviderID>>, <<"p", id>>})
  OBVIOUS
<1>2. Keeps(y, z)
  BY <1>1, KeepsRemembered
<1>3. Keeps(z, FinishCompaction(y, id))
  BY <1>1, <1>2 DEF Keeps, Routed, RouteFields, FinishCompaction
<1>. QED BY <1>2, <1>3, KeepsOn

LEMMA KeepsManual == ASSUME NEW y, NEW u, Routed(y) PROVE Keeps(y, BeginManual(y, u))
<1>1. PICK z : z = ObserveLive(y, u)
  OBVIOUS
<1>2. Keeps(y, z)
  BY <1>1, KeepsObserved
<1>3. Keeps(z, BeginManual(y, u))
  BY <1>1, <1>2 DEF Keeps, Routed, RouteFields, BeginManual
<1>. QED BY <1>2, <1>3, KeepsOn

LEMMA KeepsBegun == ASSUME NEW y, NEW ev, Routed(y) PROVE Keeps(y, BeginCompaction(y, ev))
<1>1. CASE BeginCompaction(y, ev) = Remember([y EXCEPT !.unpaired = @ - 1], {<<"p", ev.id>>})
  <2>1. PICK z : z = [y EXCEPT !.unpaired = @ - 1]
    OBVIOUS
  <2>2. Keeps(y, z)
    BY <2>1 DEF Keeps, Routed, RouteFields
  <2>. QED BY <1>1, <2>1, <2>2, KeepsOn, KeepsItself, KeepsRemembered
<1>2. CASE BeginCompaction(y, ev) # Remember([y EXCEPT !.unpaired = @ - 1], {<<"p", ev.id>>})
  BY <1>2 DEF Keeps, Routed, RouteFields, BeginCompaction
<1>. QED BY <1>1, <1>2

LEMMA KeepsEnded == ASSUME NEW y, NEW ev, NEW u, Routed(y) PROVE Keeps(y, EndCompaction(y, ev, u))
<1>1. PICK z : z = ObserveLive(y, u)
  OBVIOUS
<1>2. Keeps(y, z) /\ Routed(z)
  BY <1>1, KeepsObserved, KeepsItself, KeepsOn
<1>3. PICK f : f = FinishCompaction(z, ev.id)
  OBVIOUS
<1>4. Keeps(y, f) /\ Routed(f)
  BY <1>2, <1>3, KeepsFinished, KeepsOn, KeepsItself
<1>5. Keeps(f, [f EXCEPT !.misended = @ \/ (y.who # Nobody /\ y.who # ev.who)])
  BY <1>4 DEF Keeps, Routed, RouteFields
<1>. QED BY <1>1, <1>3, <1>4, <1>5, KeepsItself, KeepsOn DEF EndCompaction

LEMMA KeepsCompacted == ASSUME NEW y, NEW n, Routed(y) PROVE Keeps(y, CompleteCompact(y, n))
<1>1. PICK z : z = Remember(y, {<<"r", n>>, <<"p", y.compactProviderID>>})
  OBVIOUS
<1>2. Keeps(y, z)
  BY <1>1, KeepsRemembered
<1>3. CASE CompleteCompact(y, n) = y
  BY <1>3, KeepsItself
<1>4. CASE CompleteCompact(y, n) # y
  <2>1. Keeps(z, CompleteCompact(y, n))
    BY <1>1, <1>2, <1>4 DEF Keeps, Routed, RouteFields, CompleteCompact
  <2>. QED BY <1>2, <2>1, KeepsOn
<1>. QED BY <1>3, <1>4

LEMMA KeepsPrompt == ASSUME NEW y, NEW u, Routed(y) PROVE Keeps(y, BeginPrompt(y, u))
<1>1. PICK z : z = ObserveLive(y, u)
  OBVIOUS
<1>2. Keeps(y, z)
  BY <1>1, KeepsObserved
<1>3. Keeps(z, BeginPrompt(y, u))
  BY <1>1, <1>2 DEF Keeps, Routed, RouteFields, BeginPrompt
<1>. QED BY <1>2, <1>3, KeepsOn

LEMMA KeepsRun == ASSUME NEW y, Routed(y) PROVE Keeps(y, CompleteRun(y))
<1>1. PICK z : z = IF y.compactionActive /\ y.compactRPCID = 0 THEN FinishCompaction(y, 0) ELSE y
  OBVIOUS
<1>2. Keeps(y, z)
  BY <1>1, KeepsFinished, KeepsItself
<1>3. Keeps(z, CompleteRun(y))
  BY <1>1, <1>2 DEF Keeps, Routed, RouteFields, CompleteRun
<1>. QED BY <1>2, <1>3, KeepsOn

LEMMA KeepsLocal == ASSUME NEW y, Routed(y) PROVE Keeps(y, CompleteLocal(y))
BY DEF Keeps, Routed, RouteFields, CompleteLocal

LEMMA KeepsCompleted == ASSUME NEW y, NEW n, NEW ok, Routed(y) PROVE Keeps(y, CompletePrompt(y, n, ok))
<1>1. PICK z : z = [y EXCEPT !.promptResponse = TRUE]
  OBVIOUS
<1>2. Keeps(y, z) /\ Routed(z)
  BY <1>1 DEF Keeps, Routed, RouteFields
<1>3. Keeps(y, CompleteLocal(z))
  BY <1>2, KeepsLocal, KeepsOn
<1>4. Keeps(y, [y EXCEPT !.promptInFlight = FALSE, !.localCommandActive = FALSE, !.promptResponse = FALSE])
  BY DEF Keeps, Routed, RouteFields
<1>. QED BY <1>1, <1>2, <1>3, <1>4, KeepsItself DEF CompletePrompt

LEMMA KeepsStarted == ASSUME NEW y, NEW u, Routed(y) PROVE Keeps(y, AgentStart(y, u))
<1>1. PICK z : z = ObserveLive(y, u)
  OBVIOUS
<1>2. Keeps(y, z) /\ Routed(z)
  BY <1>1, KeepsObserved, KeepsItself, KeepsOn
<1>3. Keeps(z, AgentStart(y, u))
  BY <1>1, <1>2 DEF Keeps, Routed, RouteFields, AgentStart
<1>. QED BY <1>2, <1>3, KeepsOn

LEMMA KeepsSettled == ASSUME NEW y, NEW u, Routed(y) PROVE Keeps(y, AgentSettled(y, u))
<1>1. Keeps(y, ObserveLive(y, u)) /\ Routed(ObserveLive(y, u))
  BY KeepsObserved, KeepsItself, KeepsOn
<1>2. Keeps(y, CompleteRun(ObserveLive(y, u)))
  BY <1>1, KeepsRun, KeepsOn
<1>. QED BY <1>2, KeepsItself DEF AgentSettled

LEMMA KeepsInvoked == ASSUME NEW y, Routed(y) PROVE Keeps(y, CommandInvocation(y))
<1>1. PICK z : z = [y EXCEPT !.localCommandActive = TRUE, !.localCommandSeq = y.promptSeq]
  OBVIOUS
<1>2. Keeps(y, z) /\ Routed(z)
  BY <1>1 DEF Keeps, Routed, RouteFields
<1>3. Keeps(y, CompleteLocal(z))
  BY <1>2, KeepsLocal, KeepsOn
<1>. QED BY <1>1, <1>2, <1>3, KeepsItself DEF CommandInvocation

LEMMA KeepsUnloaded == ASSUME NEW y, Routed(y) PROVE Keeps(y, MarkUnloaded(y))
BY DEF Keeps, Routed, RouteFields, MarkUnloaded, LatchesDown

LEMMA KeepsInvalidated == ASSUME NEW y, Routed(y) PROVE Keeps(y, Invalidate(y))
<1>1. PICK z : z = LatchesDown(y)
  OBVIOUS
<1>2. Keeps(y, z)
  BY <1>1, KeepsUnloaded DEF MarkUnloaded
<1>3. CASE Invalidate(y) = y
  BY <1>3, KeepsItself
<1>4. CASE Invalidate(y) # y
  <2>1. Keeps(z, Invalidate(y))
    BY <1>1, <1>2, <1>4 DEF Keeps, Routed, RouteFields, Invalidate
  <2>. QED BY <1>2, <2>1, KeepsOn
<1>. QED BY <1>3, <1>4


LEMMA KeepsSched == ASSUME NEW y, NEW w, NEW C, Routed(y) PROVE Keeps(y, Sched(y, w, C))
BY KeepsScheduled DEF Sched

LEMMA KeepsNoted == ASSUME NEW y, NEW c, Routed(y) PROVE Keeps(y, Noted(y, c))
BY KeepsInvalidated, KeepsUnloaded, KeepsItself DEF Noted

LEMMA KeepsDispatched == ASSUME NEW y, NEW ev, Routed(y) PROVE Keeps(y, Dispatched(y, ev))
<1>1. PICK u : u = Unresolved(o)
  OBVIOUS
<1>2. ASSUME NEW z, Keeps(y, z) PROVE Keeps(y, Rearmed(y, z))
  BY <1>2, KeepsSched, KeepsItself, KeepsOn DEF Rearmed
<1>3. Keeps(y, Rearmed(y, AgentSettled(y, u))) /\ Keeps(y, Rearmed(y, CommandInvocation(y)))
  BY <1>2, KeepsSettled, KeepsInvoked
<1>4. Keeps(y, Rearmed(y, EndCompaction(y, ev, u)))
  BY <1>2, KeepsEnded
<1>5. Keeps(y, BeginCompaction(ObserveLive(y, u), ev))
  BY KeepsObserved, KeepsBegun, KeepsItself, KeepsOn
<1>6. ASSUME NEW q PROVE Keeps(y, [y EXCEPT !.pending = q])
  BY DEF Keeps, Routed, RouteFields
<1>7. PICK q : q = Upsert(y.pending, ev.who[2], ev.id, ev.manual)
  OBVIOUS
<1>8. PICK p : p = Resolve(y.pending, ev.id)
  OBVIOUS
<1>9. [y EXCEPT !.pending = Upsert(@, ev.who[2], ev.id, ev.manual)] = [y EXCEPT !.pending = q]
  BY <1>7
<1>10. [y EXCEPT !.pending = Resolve(@, ev.id)] = [y EXCEPT !.pending = p]
  BY <1>8
<1>11. Keeps(y, AgentStart(y, u)) /\ Keeps(y, MarkUnloaded(y))
  BY KeepsStarted, KeepsUnloaded
<1>12. Keeps(y, [y EXCEPT !.pending = q]) /\ Keeps(y, [y EXCEPT !.pending = p])
  BY <1>6
<1>. QED BY <1>1, <1>3, <1>4, <1>5, <1>9, <1>10, <1>11, <1>12 DEF Dispatched

LEMMA KeepsDropped == ASSUME NEW y, NEW ev, Routed(y) PROVE Keeps(y, DispatchClosing(y, ev))
BY DEF Keeps, Routed, RouteFields, DispatchClosing

\* A session that replaces another one is open, and one generation younger.
LEMMA ReplacesRoute ==
    ASSUME Routed(s)
    PROVE  LET y == [Replacement EXCEPT !.subs = s.subs, !.told = s.told, !.blurred = s.blurred]
           IN  Routed(y) /\ y.gen = s.gen + 1
<1>1. PICK y : y = NewSession(s.gen + 1, fl.ep, TRUE)
  OBVIOUS
<1>2. Routed(y) /\ y.gen = s.gen + 1
  BY <1>1 DEF NewSession, Routed, RouteFields
<1>3. PICK x : x = InheritWork(y, s, fl.snap)
  OBVIOUS
<1>4. Keeps(y, x)
  <2>1. PICK comp : comp = (s.compactionAtLoss \/ s.compactionActive)
    OBVIOUS
  <2>2. PICK z : z = [y EXCEPT !.workAtLoss = s.workAtLoss \/ Active(s), !.compactionAtLoss = comp,
                               !.runAtLoss = \/ s.runAtLoss \/ RunLatched(s)
                                             \/ s.workAtLoss /\ ~comp,
                               !.who = IF comp THEN s.who ELSE Nobody]
    OBVIOUS
  <2>3. PICK v : v = IF comp THEN [z EXCEPT !.compactSeq = s.compactSeq, !.compactRPCID = s.compactRPCID,
                                            !.compactProviderID = s.compactProviderID, !.manual = s.manual]
                     ELSE z
    OBVIOUS
  <2>4. Keeps(y, z)
    BY <1>2, <2>2 DEF Keeps, Routed, RouteFields
  <2>5. Keeps(z, v) /\ Routed(z)
    BY <1>2, <2>3, <2>4 DEF Keeps, Routed, RouteFields
  <2>6. Keeps(y, v) /\ Routed(v)
    BY <1>2, <2>4, <2>5 DEF Keeps, Routed
  <2>7. x = Hydrate(v, fl.snap)
    BY <1>3, <2>1, <2>2, <2>3 DEF InheritWork
  <2>. QED BY <1>2, <2>6, <2>7, KeepsHydrated, KeepsOn
<1>5. PICK z : z = [x EXCEPT !.pending = InheritQuestions(s.pending, fl.asks)]
  OBVIOUS
<1>6. Keeps(x, z) /\ Routed(x)
  BY <1>2, <1>4, <1>5 DEF Keeps, Routed, RouteFields
<1>7. z = Replacement
  BY <1>1, <1>3, <1>5 DEF Replacement
<1>8. PICK v : v = [z EXCEPT !.subs = s.subs, !.told = s.told, !.blurred = s.blurred]
  OBVIOUS
<1>9. Keeps(z, v)
  BY <1>6, <1>8 DEF Keeps, Routed, RouteFields
<1>10. Routed(v) /\ v.gen = s.gen + 1
  BY <1>2, <1>4, <1>6, <1>9 DEF Keeps, Routed
<1>. QED BY <1>7, <1>8, <1>10

\* A close, accepted or refused, ends on the session it was sent on.
LEMMA ClosesRoute ==
    ASSUME NEW y, NEW dead, Routed(y)
    PROVE  /\ Routed(CloseAccepted(y)) /\ CloseAccepted(y).gen = y.gen
           /\ Routed(CloseRefused(y, dead)) /\ CloseRefused(y, dead).gen = y.gen
<1>1. Routed(CloseAccepted(y)) /\ CloseAccepted(y).gen = y.gen
  BY DEF Routed, RouteFields, CloseAccepted
<1>2. PICK z : z = [y EXCEPT !.closing = FALSE]
  OBVIOUS
<1>3. Routed(z) /\ z.gen = y.gen
  BY <1>2 DEF Routed, RouteFields
<1>4. PICK x : x = [z EXCEPT !.closeRunSettled = FALSE]
  OBVIOUS
<1>5. Routed(x) /\ x.gen = y.gen
  BY <1>3, <1>4 DEF Routed, RouteFields
<1>6. Routed(CompleteRun(x)) /\ CompleteRun(x).gen = y.gen
  BY <1>5, KeepsRun DEF Keeps, Routed
<1>7. CloseRefused(y, dead) \in {y, z, CompleteRun(x)}
  BY <1>2, <1>4 DEF CloseRefused
<1>. QED BY <1>1, <1>3, <1>6, <1>7


-----------------------------------------------------------------------------
(***************************************************************************)
(* What a step leaves of the requests on the wire.                         *)
(***************************************************************************)

\* d is c, answered perhaps, and a send is not answered unless it is lost.
Relic(c, d) ==
    /\ d.id = c.id /\ d.k = c.k /\ d.req = c.req
    /\ Sending(c) => d.res \in {c.res, "lost"}

\* Calls and requests after a step: what was there, and one new call at most.
LEMMA WiredMoves ==
    ASSUME SendInv, Wired, last \in Nat, last' \in Nat, last <= last',
           \A w \in wire' : \/ w \in wire
                            \/ w.id = last + 1 /\ last' = last + 1 /\ (Sending(w) => w.req \in Requests),
           \A d \in calls' : \/ \E c \in calls : d.id = c.id /\ d.k = c.k /\ d.req = c.req
                             \/ d.id = last + 1,
           \A w \in wire', d \in calls' : w.id = last + 1 /\ d.id = last + 1 => w.k = d.k /\ w.req = d.req,
           \A d \in calls' : Sending(d) => d.res \in {"none", "ok", "busy", "unknown", "lost"}
    PROVE  Wired'
<1>1. \A w \in wire : w.id \in Nat /\ w.id <= last /\ (Sending(w) => w.req \in Requests)
  BY DEF Wired
<1>2. \A c \in calls : c.id \in Nat /\ c.id <= last
  BY DEF SendInv, Called
<1>3. \A w \in wire' : w.id \in Nat /\ w.id <= last' /\ (Sending(w) => w.req \in Requests)
  BY <1>1
<1>4. ASSUME NEW w \in wire', NEW d \in calls', w.id = d.id PROVE w.k = d.k /\ w.req = d.req
  <2>1. CASE d.id = last + 1
    BY <1>4, <2>1
  <2>2. CASE d.id # last + 1
    <3>1. w \in wire
      BY <1>4, <2>2
    <3>2. PICK c \in calls : d.id = c.id /\ d.k = c.k /\ d.req = c.req
      BY <2>2
    <3>. QED BY <1>4, <3>1, <3>2 DEF Wired
  <2>. QED BY <2>1, <2>2
<1>. QED BY <1>3, <1>4 DEF Wired

\* A request that a step does not touch reaches the engine once as before.
LEMMA StaysOnce ==
    ASSUME SendInv, NEW q \in Requests \ Anonymous, Once(q),
           Untouched(o, o', q) \/ Forgotten(o, o', q), eng'.applied[q] = eng.applied[q],
           \A w \in wire' : Sending(w) /\ w.req = q => w \in wire,
           QueuedAt(q)' # {} => QueuedAt(q) # {},
           \A d \in calls' : Sending(d) /\ d.req = q => \E c \in calls : Relic(c, d)
    PROVE  Once(q)'
<1>1. \A w \in WireOf(q)' : w \in WireOf(q)
  BY DEF WireOf
<1>2. \A d \in CallsOf(q)' : \E c \in CallsOf(q) : d.id = c.id /\ d.res \in {c.res, "lost"}
  BY DEF CallsOf, Relic, Sending
<1>3. CASE Untouched(o, o', q)
  BY <1>1, <1>2, <1>3 DEF Once, Untouched
<1>4. CASE Forgotten(o, o', q)
  <2>1. o.ops[q].phase = "terminal" /\ o'.ops[q].phase = "none" /\ o'.forgot[q] = o.forgot[q] + 1
    BY <1>4 DEF Forgotten, NoOperation
  <2>2. o.forgot[q] \in Nat /\ eng.applied[q] \in Nat
    BY DEF SendInv, Shaped, Ledger, Counts
  <2>3. WireOf(q)' = {}
    BY <1>1, <2>1 DEF Once
  <2>4. CallsOf(q)' = {}
    <3>1. IdsOf(q) = {}
      BY <2>1 DEF SendInv, AllFollowed, Followed
    <3>. QED BY <1>2, <3>1 DEF IdsOf
  <2>5. eng'.applied[q] <= o'.forgot[q] /\ o'.forgot[q] # 0
    BY <2>1, <2>2 DEF Once
  <2>. QED BY <2>1, <2>2, <2>3, <2>4, <2>5 DEF Once
<1>. QED BY <1>3, <1>4

\* A step about r, which may be no request at all.
LEMMA OnceMoves ==
    ASSUME SendInv, AllOnce, NEW r, OthersKept(o, o', r), QueuedElsewhere(r),
           \A q \in Requests \ {r} : eng'.applied[q] = eng.applied[q],
           \A w \in wire' : Sending(w) => w \in wire \/ w.req = r,
           \A d \in calls' : Sending(d) => d.req = r \/ \E c \in calls : Relic(c, d),
           r \in Requests \ Anonymous => Once(r)'
    PROVE  AllOnce'
<1>1. ASSUME NEW q \in Requests \ Anonymous, q # r PROVE Once(q)'
  <2>1. Once(q) /\ eng'.applied[q] = eng.applied[q]
    BY <1>1 DEF AllOnce
  <2>2. Untouched(o, o', q) \/ Forgotten(o, o', q)
    BY <1>1 DEF OthersKept
  <2>3. QueuedAt(q)' # {} => QueuedAt(q) # {}
    BY <1>1 DEF QueuedElsewhere
  <2>4. \A w \in wire' : Sending(w) /\ w.req = q => w \in wire
    BY <1>1
  <2>5. \A d \in calls' : Sending(d) /\ d.req = q => \E c \in calls : Relic(c, d)
    BY <1>1
  <2>. QED BY <2>1, <2>2, <2>3, <2>4, <2>5, StaysOnce
<1>. QED BY <1>1 DEF AllOnce


-----------------------------------------------------------------------------
(***************************************************************************)
(* What a step leaves of the closing of a session.                         *)
(***************************************************************************)

\* The choices to lose the connection or to stop only become fewer.
Sparing == \A k \in {"loss", "stop"} : todo.n[k] = 0 => todo'.n[k] = 0

LEMMA SparingSame == ASSUME todo' = todo PROVE Sparing
BY DEF Sparing

LEMMA SparingSpent == ASSUME SendInv, NEW k \in Inputs, Spend(k) PROVE Sparing
<1>1. todo \in Plans
  BY DEF SendInv, Shaped
<1>2. todo' \in Plans /\ \A j \in Inputs : todo'.n[j] <= todo.n[j]
  BY <1>1, Spends
<1>3. \A j \in Inputs : todo'.n[j] \in Nat
  BY <1>2 DEF Plans
<1>. QED BY <1>2, <1>3 DEF Sparing, Inputs

\* d is the call c of before; it is lost only where a connection may be.
Heir(c, d) ==
    /\ d.id = c.id /\ d.k = c.k /\ d.g = c.g
    /\ Sending(c) => d.shut = c.shut
    /\ d.res = "lost" => c.res = "lost" \/ todo.n["loss"] # 0

\* A new call that closes nothing, on a session that nothing closes.
Newcomer(d) ==
    /\ d.g = s.gen /\ d.k # "close" /\ d.res = "none"
    /\ Sending(d) => ~d.shut /\ (Unstopped => Closes = {})

LEMMA CalmMoves ==
    ASSUME Calm, Called', Sparing, Keeps(s, s'),
           \A d \in calls' : Newcomer(d) \/ \E c \in calls : Heir(c, d)
    PROVE  Calm'
<1>1. Routed(s') /\ s'.gen = s.gen /\ s'.closed = s.closed /\ s'.closing = s.closing
  BY DEF Calm, Aged, Keeps, Routed
<1>2. Aged'
  BY <1>1 DEF Calm, Aged, Heir, Newcomer, Routed
<1>3. CASE Lossless
  <2>1. todo'.n["loss"] = 0
    BY <1>3 DEF Lossless, Sparing
  <2>2. \A d \in calls' : d.res # "lost"
    BY <1>3 DEF Lossless, Heir, Newcomer
  <2>. QED BY <1>2, <2>1, <2>2 DEF Calm, Lossless
<1>4. CASE Unstopped
  <2>1. todo'.n["stop"] = 0
    BY <1>4 DEF Unstopped, Sparing
  <2>2. \A d \in calls' : Sending(d) => ~d.shut
    BY <1>4 DEF Unstopped, Heir, Newcomer, Sending
  <2>3. \A d \in Closes' : \E c \in Closes : d.id = c.id
    BY <1>1 DEF Closes, Heir, Newcomer
  <2>4. ASSUME NEW c \in Closes', NEW d \in Closes' PROVE c = d
    <3>1. c.id = d.id /\ c \in calls' /\ d \in calls'
      BY <1>4, <2>3 DEF Unstopped, Closes
    <3>. QED BY <3>1 DEF Called
  <2>5. ASSUME Closes' # {} PROVE (s'.closing \/ s'.closed) /\ \A c \in calls' : Sending(c) => c.g # s'.gen
    <3>1. Closes # {}
      BY <2>3, <2>5
    <3>2. (s.closing \/ s.closed) /\ \A c \in calls : Sending(c) => c.g # s.gen
      BY <1>4, <3>1 DEF Unstopped
    <3>3. \A d \in calls' : Sending(d) => d.g # s.gen
      BY <1>4, <3>1, <3>2 DEF Newcomer, Heir, Sending
    <3>. QED BY <1>1, <3>2, <3>3
  <2>. QED BY <1>2, <2>1, <2>2, <2>4, <2>5 DEF Calm, Unstopped
<1>. QED BY <1>3, <1>4 DEF Calm

\* The calls and the session stay.
LEMMA CalmStays ==
    ASSUME Calm, Called', Sparing, s' = s, calls' = calls
    PROVE  Calm'
<1>1. \A d \in calls' : \E c \in calls : Heir(c, d)
  BY DEF Heir
<1>. QED BY <1>1, KeepsItself, CalmMoves

-----------------------------------------------------------------------------
(***************************************************************************)
(* One lemma per action: steps that answer and send nothing.               *)
(***************************************************************************)

\* The ledger, what was applied and the queue are as before; calls are added
\* that send nothing, and answers that are no sends.
LEMMA OnceStands ==
    ASSUME SendInv, SendInv', OnceInv, Calm', last <= last',
           o' = o, eng'.applied = eng.applied, QueuedElsewhere(NoRequest),
           \A w \in wire' : \/ w \in wire
                            \/ w.id = last + 1 /\ last' = last + 1 /\ ~Sending(w),
           \A d \in calls' : (\E c \in calls : Relic(c, d)) \/ (d.id = last + 1 /\ ~Sending(d)),
           \A w \in wire', d \in calls' : w.id = last + 1 /\ d.id = last + 1 => w.k = d.k /\ w.req = d.req
    PROVE  OnceInv'
<1>1. last \in Nat /\ last' \in Nat
  BY DEF SendInv, Shaped
<1>2. \A d \in calls' : \/ \E c \in calls : d.id = c.id /\ d.k = c.k /\ d.req = c.req
                        \/ d.id = last + 1
  BY DEF Relic
<1>3. \A d \in calls' : Sending(d) => d.res \in {"none", "ok", "busy", "unknown", "lost"}
  BY DEF Relic, OnceInv, Wired, Sending
<1>4. Wired'
  BY <1>1, <1>2, <1>3, WiredMoves DEF OnceInv
<1>5. PICK r : r = NoRequest
  OBVIOUS
<1>6. OthersKept(o, o', r) /\ QueuedElsewhere(r) /\ r \notin Requests
  BY <1>5, SameLedger, RequestAssumption
<1>7. AllOnce'
  BY <1>6, OnceMoves DEF OnceInv
<1>. QED BY <1>4, <1>7 DEF OnceInv

\* The calls and the wire stay too.
LEMMA OnceStill ==
    ASSUME SendInv, SendInv', OnceInv, Sparing, Keeps(s, s'),
           UNCHANGED <<o, calls, wire, recq, last>>, eng'.applied = eng.applied
    PROVE  OnceInv'
<1>1. Calm'
  <2>1. \A d \in calls' : \E c \in calls : Heir(c, d)
    BY DEF Heir
  <2>. QED BY <2>1, CalmMoves DEF OnceInv, SendInv
<1>2. \A d \in calls' : \E c \in calls : Relic(c, d)
  BY DEF Relic
<1>3. QueuedElsewhere(NoRequest) /\ last <= last'
  BY SameQueue DEF SendInv, Shaped
<1>4. last \in Nat /\ \A d \in calls' : d.id # last + 1
  BY DEF SendInv, Shaped, Called
<1>. QED BY <1>1, <1>2, <1>3, <1>4, OnceStands


LEMMA SessionStepOnce ==
    ASSUME SendInv, SendInv', OnceInv, Keeps(s, s'),
           UNCHANGED <<o, calls, wire, recq, last, todo>>, eng'.applied = eng.applied
    PROVE  OnceInv'
BY SparingSame, OnceStill

LEMMA DetachOnce == ASSUME SendInv, SendInv', OnceInv, Detach PROVE OnceInv'
<1>1. PICK y : y = [s EXCEPT !.subs = FALSE]
  OBVIOUS
<1>2. Keeps(s, y) /\ Routed(y) /\ Routed(s)
  BY <1>1 DEF OnceInv, Calm, Aged, Keeps, Routed, RouteFields
<1>3. s' = Sched(y, o, calls) /\ UNCHANGED <<o, calls, wire, recq, last, todo, eng>>
  BY <1>1 DEF Detach
<1>4. Keeps(s, s')
  BY <1>2, <1>3, KeepsSched, KeepsOn
<1>. QED BY <1>3, <1>4, SessionStepOnce

LEMMA DispatchOnce == ASSUME SendInv, SendInv', OnceInv, Dispatch PROVE OnceInv'
<1>1. Routed(s)
  BY DEF OnceInv, Calm, Aged
<1>2. UNCHANGED <<o, calls, wire, recq, last, todo, eng>>
  BY DEF Dispatch
<1>3. Keeps(s, s')
  BY <1>1, KeepsItself, KeepsDropped, KeepsDispatched DEF Dispatch
<1>. QED BY <1>2, <1>3, SessionStepOnce

LEMMA InvalidateEpochOnce == ASSUME SendInv, SendInv', OnceInv, InvalidateEpoch PROVE OnceInv'
<1>1. Routed(s)
  BY DEF OnceInv, Calm, Aged
<1>. QED BY <1>1, KeepsInvalidated, SessionStepOnce DEF InvalidateEpoch

LEMMA ConfirmTimeoutOnce == ASSUME SendInv, SendInv', OnceInv, ConfirmTimeout PROVE OnceInv'
<1>1. PICK i \in DOMAIN s.pending : s' = [s EXCEPT !.pending[i] = FailDelivery(@)]
  BY DEF ConfirmTimeout
<1>2. Keeps(s, s')
  BY <1>1 DEF OnceInv, Calm, Aged, Keeps, Routed, RouteFields
<1>3. UNCHANGED <<o, calls, wire, recq, last, todo, eng>>
  BY DEF ConfirmTimeout
<1>. QED BY <1>2, <1>3, SessionStepOnce

LEMMA AcquireExistingOnce == ASSUME SendInv, SendInv', OnceInv, AcquireExisting PROVE OnceInv'
<1>1. Keeps(s, s')
  BY DEF AcquireExisting, OnceInv, Calm, Aged, Keeps, Routed, RouteFields
<1>. QED BY <1>1, SessionStepOnce DEF AcquireExisting

LEMMA AcquireOpensOnce == ASSUME SendInv, SendInv', OnceInv, AcquireOpens PROVE OnceInv'
<1>1. Keeps(s, s')
  BY KeepsInvalidated DEF AcquireOpens, OnceInv, Calm, Aged
<1>2. eng'.applied = eng.applied
  BY DEF AcquireOpens, SendInv, Shaped, EngineFields
<1>. QED BY <1>1, <1>2, SessionStepOnce DEF AcquireOpens

LEMMA ReopenOnce == ASSUME SendInv, SendInv', OnceInv, Reopen PROVE OnceInv'
<1>1. PICK k \in Inputs : Spend(k)
  BY DEF Reopen, Inputs
<1>2. Sparing
  BY <1>1, SparingSpent
<1>. QED BY <1>2, KeepsItself, OnceStill DEF Reopen

\* What the engine does by itself to no call.
LEMMA EngineOnce ==
    ASSUME SendInv, SendInv', OnceInv, EngineOwnRun \/ EngineSettles \/ EngineAutoCompacts \/ EngineAsks
    PROVE  OnceInv'
<1>1. UNCHANGED <<s, o, calls, wire, recq, last>>
  BY DEF EngineOwnRun, EngineSettles, EngineAutoCompacts, EngineAsks
<1>2. eng'.applied = eng.applied
  BY DEF EngineOwnRun, EngineSettles, EngineAutoCompacts, EngineAsks, SendInv, Shaped, EngineFields
<1>3. todo' = todo \/ \E k \in Inputs : Spend(k)
  BY DEF EngineOwnRun, EngineSettles, EngineAutoCompacts, EngineAsks, Inputs
<1>4. Sparing
  BY <1>3, SparingSame, SparingSpent
<1>. QED BY <1>1, <1>2, <1>4, KeepsItself, OnceStill

LEMMA ConnectOnce == ASSUME SendInv, SendInv', OnceInv, Connect PROVE OnceInv'
<1>1. UNCHANGED <<s, o, calls, wire, eng, last, todo>>
  BY DEF Connect
<1>2. CASE recq' = recq
  BY <1>1, <1>2, KeepsItself, SessionStepOnce
<1>3. CASE recq' = Append(recq, Recovery(NoRequest, "prompt"))
  <2>1. PICK j \in Jobs : j = Recovery(NoRequest, "prompt") /\ j.req = NoRequest
    <3>1. [req |-> NoRequest, kind |-> "prompt"] \in Jobs
      BY DEF Jobs, SendKinds
    <3>. QED BY <3>1 DEF Recovery
  <2>2. QueuedElsewhere(j.req)
    BY <1>3, <2>1, Enqueues DEF SendInv
  <2>3. QueuedElsewhere(NoRequest)
    BY <2>1, <2>2
  <2>4. Calm'
    BY <1>1, SparingSame, CalmStays DEF OnceInv, SendInv
  <2>5. last <= last' /\ \A d \in calls' : d.id # last + 1 /\ \E c \in calls : Relic(c, d)
    BY <1>1 DEF SendInv, Shaped, Called, Relic
  <2>. QED BY <1>1, <2>3, <2>4, <2>5, OnceStands
<1>. QED BY <1>2, <1>3 DEF Connect

\* A session is replaced: no close of the new one is out.
LEMMA PublishOnce == ASSUME SendInv, SendInv', OnceInv, Publish PROVE OnceInv'
<1>1. UNCHANGED <<o, calls, wire, recq, last, todo, eng>>
  BY DEF Publish
<1>2. Routed(s') /\ s'.gen = s.gen + 1
  BY ReplacesRoute DEF Publish, OnceInv, Calm, Aged
<1>3. s.gen \in Nat /\ \A c \in calls : c.g \in Nat /\ c.g <= s.gen
  BY DEF OnceInv, Calm, Aged, Routed
<1>4. Aged' /\ Closes' = {}
  BY <1>1, <1>2, <1>3 DEF Aged, Closes
<1>5. Lossless => Lossless'
  BY <1>1 DEF Lossless
<1>6. Unstopped => Unstopped'
  BY <1>1, <1>4 DEF Unstopped
<1>7. Calm'
  BY <1>4, <1>5, <1>6 DEF Calm, OnceInv
<1>8. QueuedElsewhere(NoRequest)
  BY <1>1, SameQueue
<1>9. last <= last' /\ \A d \in calls' : d.id # last + 1 /\ \E c \in calls : Relic(c, d)
  BY <1>1 DEF SendInv, Shaped, Called, Relic
<1>. QED BY <1>1, <1>7, <1>8, <1>9, OnceStands


\* A command that sends nothing is written.
LEMMA AddsOnce ==
    ASSUME SendInv, SendInv', OnceInv, Calm', NEW n, ~Sending(n), n.id = last + 1,
           calls' = calls \cup {n}, wire' = wire \cup {Request(n)}, last' = last + 1,
           UNCHANGED <<o, recq>>, eng'.applied = eng.applied
    PROVE  OnceInv'
<1>1. PICK v : v = Request(n)
  OBVIOUS
<1>2. v.id = last + 1 /\ v.k = n.k /\ v.req = n.req /\ ~Sending(v)
  BY <1>1 DEF Request, Sending
<1>3. last \in Nat /\ \A c \in calls : c.id \in Nat /\ c.id <= last
  BY DEF SendInv, Shaped, Called
<1>4. \A w \in wire : w.id \in Nat /\ w.id <= last
  BY DEF OnceInv, Wired
<1>5. QueuedElsewhere(NoRequest) /\ last <= last'
  BY <1>3, SameQueue
<1>6. \A w \in wire', d \in calls' : w.id = last + 1 /\ d.id = last + 1 => w.k = d.k /\ w.req = d.req
  BY <1>1, <1>2, <1>3, <1>4
<1>7. \A d \in calls' : (\E c \in calls : Relic(c, d)) \/ (d.id = last + 1 /\ ~Sending(d))
  BY DEF Relic
<1>8. \A w \in wire' : w \in wire \/ (w.id = last + 1 /\ last' = last + 1 /\ ~Sending(w))
  BY <1>1, <1>2
<1>. QED BY <1>5, <1>6, <1>7, <1>8, OnceStands

LEMMA CompactOnce == ASSUME SendInv, SendInv', OnceInv, Compact PROVE OnceInv'
<1>1. PICK n : n = NewCall("compact", s.compactSeq + 1, NoRequest, FALSE)
  OBVIOUS
<1>2. n.id = last + 1 /\ n.k = "compact" /\ n.g = s.gen /\ n.res = "none" /\ ~Sending(n)
  BY <1>1 DEF NewCall, Sending, SendKinds
<1>3. /\ calls' = calls \cup {n} /\ wire' = wire \cup {Request(n)} /\ last' = last + 1
      /\ UNCHANGED <<o, recq, eng>> /\ s' = BeginManual(s, Unresolved(o))
  BY <1>1 DEF Compact, Write
<1>4. PICK k \in Inputs : Spend(k)
  BY DEF Compact, Inputs
<1>5. Sparing /\ Keeps(s, s')
  BY <1>3, <1>4, SparingSpent, KeepsManual DEF OnceInv, Calm, Aged
<1>6. Newcomer(n) /\ \A c \in calls : Heir(c, c)
  BY <1>2 DEF Newcomer, Heir
<1>7. Calm'
  BY <1>3, <1>5, <1>6, CalmMoves DEF SendInv, OnceInv
<1>. QED BY <1>2, <1>3, <1>7, AddsOnce

LEMMA QueryStateOnce == ASSUME SendInv, SendInv', OnceInv, QueryState PROVE OnceInv'
<1>1. PICK n : n = NewCall("state", 0, NoRequest, FALSE)
  OBVIOUS
<1>2. n.id = last + 1 /\ n.k = "state" /\ n.g = s.gen /\ n.res = "none" /\ ~Sending(n)
  BY <1>1 DEF NewCall, Sending, SendKinds
<1>3. /\ calls' = calls \cup {n} /\ wire' = wire \cup {Request(n)} /\ last' = last + 1
      /\ UNCHANGED <<o, recq, eng, s>>
  BY <1>1 DEF QueryState
<1>4. Sparing
  <2>1. todo' = todo \/ \E k \in Inputs : Spend(k)
    BY DEF QueryState, Inputs
  <2>. QED BY <2>1, SparingSame, SparingSpent
<1>5. Newcomer(n) /\ \A c \in calls : Heir(c, c)
  BY <1>2 DEF Newcomer, Heir
<1>6. Calm'
  BY <1>3, <1>4, <1>5, KeepsItself, CalmMoves DEF SendInv, OnceInv
<1>. QED BY <1>2, <1>3, <1>6, AddsOnce

LEMMA RespondOnce == ASSUME SendInv, SendInv', OnceInv, Respond PROVE OnceInv'
<1>1. PICK i \in DOMAIN s.pending :
          /\ wire' = wire \cup {[id |-> last + 1, k |-> "answer", req |-> NoRequest, ep |-> net.ep, q |-> s.pending[i].id]}
          /\ s' = [s EXCEPT !.pending[i].delivering = TRUE, !.pending[i].submitted = TRUE,
                            !.pending[i].delivery = "sending"]
  BY DEF Respond
<1>2. PICK v : v = [id |-> last + 1, k |-> "answer", req |-> NoRequest, ep |-> net.ep, q |-> s.pending[i].id]
  OBVIOUS
<1>3. v.id = last + 1 /\ ~Sending(v)
  BY <1>2 DEF Sending, SendKinds
<1>4. UNCHANGED <<o, calls, recq, eng>> /\ last' = last + 1
  BY DEF Respond
<1>5. PICK k \in Inputs : Spend(k)
  BY DEF Respond, Inputs
<1>6. Sparing /\ Keeps(s, s')
  BY <1>1, <1>5, SparingSpent DEF OnceInv, Calm, Aged, Keeps, Routed, RouteFields
<1>7. \A d \in calls' : \E c \in calls : Heir(c, d) /\ Relic(c, d)
  BY <1>4 DEF Heir, Relic
<1>8. Calm'
  BY <1>6, <1>7, CalmMoves DEF SendInv, OnceInv
<1>9. last \in Nat /\ \A d \in calls' : d.id # last + 1
  BY <1>4 DEF SendInv, Shaped, Called
<1>10. QueuedElsewhere(NoRequest) /\ last <= last'
  BY <1>4, <1>9, SameQueue
<1>11. \A w \in wire' : w \in wire \/ (w.id = last + 1 /\ last' = last + 1 /\ ~Sending(w))
  BY <1>1, <1>2, <1>3, <1>4
<1>. QED BY <1>4, <1>7, <1>8, <1>9, <1>10, <1>11, OnceStands

\* A close is sent on a session that no other close is out on.
LEMMA BeginsClose ==
    ASSUME Calm, NEW n, n.k = "close", n.g = s.gen, n.res = "none",
           calls' = calls \cup {n}, s' = BeginClose(s), Sparing,
           Unstopped => Closes = {} /\ \A c \in calls : ~Sending(c)
    PROVE  Calm'
<1>1. s'.gen = s.gen /\ s'.closing /\ Routed(s')
  BY DEF BeginClose, Calm, Aged, Routed, RouteFields
<1>2. ~Sending(n)
  BY DEF Sending, SendKinds
<1>3. Aged'
  BY <1>1 DEF Calm, Aged, Routed
<1>4. Lossless => Lossless'
  BY DEF Lossless, Sparing
<1>5. ASSUME Unstopped PROVE Unstopped'
  <2>1. todo'.n["stop"] = 0
    BY <1>5 DEF Unstopped, Sparing
  <2>2. \A c \in calls' : ~Sending(c)
    BY <1>2, <1>5
  <2>3. \A c \in Closes' : c = n
    BY <1>1, <1>5 DEF Closes
  <2>. QED BY <1>1, <2>1, <2>2, <2>3 DEF Unstopped
<1>. QED BY <1>3, <1>4, <1>5 DEF Calm

LEMMA StopOnce == ASSUME SendInv, SendInv', OnceInv, Stop PROVE OnceInv'
<1>1. PICK n : n = NewCall("close", 0, NoRequest, FALSE)
  OBVIOUS
<1>2. n.id = last + 1 /\ n.k = "close" /\ n.g = s.gen /\ n.res = "none" /\ ~Sending(n)
  BY <1>1 DEF NewCall, Sending, SendKinds
<1>3. /\ calls' = calls \cup {n} /\ wire' = wire \cup {Request(n)} /\ last' = last + 1
      /\ UNCHANGED <<o, recq, eng>> /\ s' = BeginClose(s)
  BY <1>1 DEF Stop
<1>4. PICK k \in Inputs : Spend(k) /\ k = "stop"
  BY DEF Stop, Inputs
<1>5. Sparing
  BY <1>4, SparingSpent
<1>6. ~Unstopped
  <2>1. todo.n["stop"] \in Nat /\ todo.n["stop"] > 0
    BY <1>4 DEF Spend, SendInv, Shaped, Plans
  <2>. QED BY <2>1 DEF Unstopped
<1>7. Calm'
  BY <1>2, <1>3, <1>5, <1>6, BeginsClose DEF OnceInv
<1>. QED BY <1>2, <1>3, <1>7, AddsOnce

LEMMA EvictOnce == ASSUME SendInv, SendInv', OnceInv, Evict PROVE OnceInv'
<1>1. UNCHANGED <<o, recq, eng>>
  BY DEF Evict
<1>2. PICK k \in Inputs : Spend(k)
  BY DEF Evict, Inputs
<1>3. Sparing
  BY <1>2, SparingSpent
<1>4. CASE Evictable(s, Unresolved(o), Outstanding(calls) # {}) /\ net.up
  <2>1. PICK n : n = NewCall("close", 0, NoRequest, FALSE)
    OBVIOUS
  <2>2. n.id = last + 1 /\ n.k = "close" /\ n.g = s.gen /\ n.res = "none" /\ ~Sending(n)
    BY <2>1 DEF NewCall, Sending, SendKinds
  <2>3. /\ calls' = calls \cup {n} /\ wire' = wire \cup {Request(n)} /\ last' = last + 1
        /\ s' = BeginClose(s)
    BY <1>4, <2>1 DEF Evict
  <2>4. Outstanding(calls) = {} /\ ~s.closed /\ ~s.closing
    BY <1>4 DEF Evictable, Routable
  <2>5. \A c \in calls : ~Sending(c)
    BY <2>4 DEF Outstanding, Detached, Sending, SendKinds
  <2>6. Unstopped => Closes = {}
    BY <2>4 DEF Unstopped
  <2>7. Calm'
    BY <1>3, <2>2, <2>3, <2>5, <2>6, BeginsClose DEF OnceInv
  <2>. QED BY <1>1, <2>2, <2>3, <2>7, AddsOnce
<1>5. CASE ~(Evictable(s, Unresolved(o), Outstanding(calls) # {}) /\ net.up)
  <2>1. s' = [s EXCEPT !.idleTimer = FALSE] /\ UNCHANGED <<calls, wire, last>>
    BY <1>5 DEF Evict
  <2>2. Keeps(s, s')
    BY <2>1 DEF OnceInv, Calm, Aged, Keeps, Routed, RouteFields
  <2>. QED BY <1>1, <1>3, <2>1, <2>2, OnceStill
<1>. QED BY <1>4, <1>5


LEMMA CompletesCompactOnce ==
    ASSUME SendInv, SendInv', OnceInv, NEW c, CompletionFrame(c), CompletesCompact(c)
    PROVE  OnceInv'
<1>1. UNCHANGED <<o, wire, recq, last, eng, todo>> /\ calls' \subseteq calls
  BY DEF CompletionFrame, CompletesCompact
<1>2. Keeps(s, s')
  <2>1. Keeps(s, Noted(s, c)) /\ Routed(Noted(s, c)) /\ Routed(s)
    BY KeepsNoted, KeepsOn, KeepsItself DEF OnceInv, Calm, Aged
  <2>2. PICK y : y = IF Ours(c) THEN CompleteCompact(Noted(s, c), c.n) ELSE Noted(s, c)
    OBVIOUS
  <2>3. Keeps(Noted(s, c), y)
    BY <2>1, <2>2, KeepsCompacted, KeepsItself
  <2>4. Keeps(s, y) /\ Routed(y)
    BY <2>1, <2>3, KeepsOn, KeepsItself
  <2>5. s' = Sched(y, o, calls')
    BY <2>2 DEF CompletesCompact
  <2>. QED BY <2>1, <2>4, <2>5, KeepsSched, KeepsOn
<1>3. \A d \in calls' : d.id # last + 1 /\ \E e \in calls : Heir(e, d) /\ Relic(e, d)
  BY <1>1 DEF Heir, Relic, SendInv, Shaped, Called
<1>4. Calm'
  BY <1>1, <1>2, <1>3, SparingSame, CalmMoves DEF SendInv, OnceInv
<1>5. QueuedElsewhere(NoRequest) /\ last <= last'
  BY <1>1, SameQueue DEF SendInv, Shaped
<1>. QED BY <1>1, <1>3, <1>4, <1>5, OnceStands

LEMMA CompletesStateOnce ==
    ASSUME SendInv, SendInv', OnceInv, NEW c, CompletionFrame(c), CompletesState(c)
    PROVE  OnceInv'
<1>1. UNCHANGED <<o, wire, recq, last, eng, todo>> /\ calls' \subseteq calls
  BY DEF CompletionFrame, CompletesState
<1>2. Keeps(s, s')
  <2>1. Routed(s)
    BY DEF OnceInv, Calm, Aged
  <2>2. CASE c.res \in {"lost", "unknown"}
    BY <2>1, <2>2, KeepsNoted DEF CompletesState
  <2>3. CASE c.res \notin {"lost", "unknown"}
    <3>1. PICK h : h = Hydrate(s, c.snap)
      OBVIOUS
    <3>2. Keeps(s, h)
      BY <2>1, <3>1, KeepsHydrated
    <3>3. PICK y : y = IF Current(c) THEN [h EXCEPT !.hydrationPending = ~c.snap.known \/ Unresolved(o)] ELSE s
      OBVIOUS
    <3>4. Keeps(s, y)
      BY <2>1, <3>2, <3>3 DEF Keeps, Routed, RouteFields
    <3>5. PICK z : z = IF Ours(c) THEN [y EXCEPT !.told = [run |-> RunLatched(y), comp |-> y.compactionActive]] ELSE y
      OBVIOUS
    <3>6. Keeps(s, z) /\ Routed(z)
      BY <2>1, <3>4, <3>5 DEF Keeps, Routed, RouteFields
    <3>7. Keeps(s, [z EXCEPT !.idleTimer = FALSE])
      BY <2>1, <3>6 DEF Keeps, Routed, RouteFields
    <3>8. Keeps(s, Sched(z, o, calls))
      BY <2>1, <3>6, KeepsSched, KeepsOn
    <3>9. s' \in {z, [z EXCEPT !.idleTimer = FALSE], Sched(z, o, calls)}
      BY <2>3, <3>1, <3>3, <3>5 DEF CompletesState
    <3>. QED BY <3>6, <3>7, <3>8, <3>9
  <2>. QED BY <2>2, <2>3
<1>3. \A d \in calls' : d.id # last + 1 /\ \E e \in calls : Heir(e, d) /\ Relic(e, d)
  BY <1>1 DEF Heir, Relic, SendInv, Shaped, Called
<1>4. Calm'
  BY <1>1, <1>2, <1>3, SparingSame, CalmMoves DEF SendInv, OnceInv
<1>5. QueuedElsewhere(NoRequest) /\ last <= last'
  BY <1>1, SameQueue DEF SendInv, Shaped
<1>. QED BY <1>1, <1>3, <1>4, <1>5, OnceStands

\* The close that ends was the only one of its session.
LEMMA CompletesCloseOnce ==
    ASSUME SendInv, SendInv', OnceInv, NEW c, CompletionFrame(c), c.k = "close", CompletesClose(c)
    PROVE  OnceInv'
<1>1. UNCHANGED <<o, wire, recq, last, eng, todo>> /\ c \in calls
  BY DEF CompletionFrame, CompletesClose
<1>2. calls' = {Shutting(c, d) : d \in calls \ {c}}
  BY ClosingRelabels DEF SendInv
<1>3. ASSUME NEW d \in calls
      PROVE  LET e == Shutting(c, d)
             IN  /\ e.id = d.id /\ e.k = d.k /\ e.req = d.req /\ e.g = d.g /\ e.res = d.res
                 /\ e.shut # d.shut => Ours(d) /\ Ours(c)
  BY DEF Shutting, SendInv, Called, CallFields
<1>4. \A e \in calls' : \E d \in calls \ {c} :
          /\ e.id = d.id /\ e.k = d.k /\ e.req = d.req /\ e.g = d.g /\ e.res = d.res
          /\ e.shut # d.shut => Ours(d) /\ Ours(c)
  BY <1>2, <1>3
<1>5. Routed(s') /\ s'.gen = s.gen /\ (~Ours(c) => s' = s)
  <2>1. Routed(s)
    BY DEF OnceInv, Calm, Aged
  <2>2. PICK y : y = Invalidate(s)
    OBVIOUS
  <2>3. Routed(y) /\ y.gen = s.gen
    BY <2>1, <2>2, KeepsInvalidated DEF Keeps, Routed
  <2>4. Routed(CloseRefused(y, TRUE)) /\ CloseRefused(y, TRUE).gen = s.gen
    BY <2>3, ClosesRoute
  <2>5. PICK z : z = CloseRefused(s, FALSE)
    OBVIOUS
  <2>6. Routed(z) /\ z.gen = s.gen
    BY <2>1, <2>5, ClosesRoute
  <2>7. Routed(Sched(z, o, calls)) /\ Sched(z, o, calls).gen = s.gen
    BY <2>6, KeepsSched DEF Keeps, Routed
  <2>8. Routed(CloseAccepted(s)) /\ CloseAccepted(s).gen = s.gen
    BY <2>1, ClosesRoute
  <2>9. s' \in {s, CloseAccepted(s), CloseRefused(y, TRUE), Sched(z, o, calls)} /\ (~Ours(c) => s' = s)
    BY <2>2, <2>5 DEF CompletesClose
  <2>. QED BY <2>1, <2>4, <2>7, <2>8, <2>9
<1>6. Aged'
  BY <1>4, <1>5 DEF OnceInv, Calm, Aged
<1>7. Lossless => Lossless'
  BY <1>1, <1>4 DEF Lossless
<1>8. ASSUME Unstopped PROVE Unstopped'
  <2>1. \A e \in Closes' : \E d \in Closes \ {c} : e.id = d.id
    BY <1>4, <1>5 DEF Closes
  <2>2. ASSUME NEW e \in calls', Sending(e) PROVE ~e.shut /\ (e.g # s'.gen \/ Closes = {})
    <3>1. PICK d \in calls \ {c} : /\ e.k = d.k /\ e.g = d.g
                                   /\ e.shut # d.shut => Ours(d) /\ Ours(c)
      BY <1>4
    <3>2. Sending(d)
      BY <2>2, <3>1 DEF Sending
    <3>3. ~(Ours(d) /\ Ours(c))
      BY <1>1, <1>8, <3>2 DEF Unstopped, Closes, Ours
    <3>. QED BY <1>5, <1>8, <3>1, <3>2, <3>3 DEF Unstopped
  <2>3. CASE Ours(c)
    <3>1. c \in Closes
      BY <1>1, <2>3 DEF Closes, Ours
    <3>2. Closes' = {}
      BY <1>8, <2>1, <3>1 DEF Unstopped
    <3>. QED BY <1>1, <1>8, <2>2, <3>2 DEF Unstopped
  <2>4. CASE ~Ours(c)
    <3>1. s' = s
      BY <1>5, <2>4
    <3>2. \A d, e \in Closes' : d = e
      <4>1. SUFFICES ASSUME NEW d \in Closes', NEW e \in Closes' PROVE d = e
        OBVIOUS
      <4>2. d.id = e.id /\ d \in calls' /\ e \in calls'
        BY <1>8, <2>1 DEF Unstopped, Closes
      <4>. QED BY <4>2 DEF SendInv, Called
    <3>3. Closes' # {} => Closes # {}
      BY <2>1
    <3>. QED BY <1>1, <1>8, <2>2, <3>1, <3>2, <3>3 DEF Unstopped
  <2>. QED BY <2>3, <2>4
<1>9. Calm'
  BY <1>6, <1>7, <1>8 DEF OnceInv, Calm
<1>10. \A d \in calls' : d.id # last + 1 /\ \E e \in calls : Relic(e, d)
  <2>1. \A d \in calls' : \E e \in calls : Relic(e, d)
    BY <1>4 DEF Relic
  <2>. QED BY <1>1, <2>1 DEF Relic, SendInv, Shaped, Called
<1>11. QueuedElsewhere(NoRequest) /\ last <= last'
  BY <1>1, SameQueue DEF SendInv, Shaped
<1>. QED BY <1>1, <1>9, <1>10, <1>11, OnceStands


\* Answers that answer no send, and lost calls.
LEMMA AnswersOnce ==
    ASSUME SendInv, SendInv', OnceInv, Sparing, UNCHANGED <<s, o, recq, last>>,
           eng'.applied = eng.applied, wire' \subseteq wire,
           \A d \in calls' : \E c \in calls : Relic(c, d) /\ Heir(c, d)
    PROVE  OnceInv'
<1>1. Calm'
  BY KeepsItself, CalmMoves DEF SendInv, OnceInv
<1>2. QueuedElsewhere(NoRequest) /\ last <= last'
  BY SameQueue DEF SendInv, Shaped
<1>3. \A d \in calls' : d.id # last + 1
  BY DEF Relic, SendInv, Shaped, Called
<1>. QED BY <1>1, <1>2, <1>3, OnceStands

\* A call that is no send gets its answer.
LEMMA RelabelsAnswer ==
    ASSUME NEW c, DOMAIN c = CallFields, NEW res, res # "lost", ~Sending(c), NEW snap
    PROVE  /\ Relic(c, [c EXCEPT !.res = res]) /\ Heir(c, [c EXCEPT !.res = res])
           /\ Relic(c, [c EXCEPT !.res = res, !.snap = snap]) /\ Heir(c, [c EXCEPT !.res = res, !.snap = snap])
BY DEF CallFields, Relic, Heir, Sending

LEMMA KeepsCall == ASSUME NEW c PROVE Relic(c, c) /\ Heir(c, c)
BY DEF Relic, Heir

LEMMA AnswerWithOnce ==
    ASSUME SendInv, SendInv', OnceInv, Sparing, UNCHANGED <<s, o, recq, last>>,
           eng'.applied = eng.applied, NEW w \in wire, ~Sending(w), wire' = wire \ {w},
           NEW res, res # "lost", calls' = AnswerWith(w, res)
    PROVE  OnceInv'
<1>1. \A c \in calls : c.id = w.id => ~Sending(c)
  BY DEF OnceInv, Wired, Sending
<1>2. \A c \in calls : DOMAIN c = CallFields
  BY DEF SendInv, Called
<1>3. ASSUME NEW d \in calls' PROVE \E c \in calls : Relic(c, d) /\ Heir(c, d)
  <2>1. PICK c \in calls : d = IF c.id = w.id /\ c.res = "none" THEN [c EXCEPT !.res = res] ELSE c
    BY <1>3 DEF AnswerWith
  <2>2. CASE c.id = w.id /\ c.res = "none"
    BY <1>1, <1>2, <2>1, <2>2, RelabelsAnswer
  <2>3. CASE ~(c.id = w.id /\ c.res = "none")
    BY <2>1, <2>3, KeepsCall
  <2>. QED BY <2>2, <2>3
<1>. QED BY <1>3, AnswersOnce

LEMMA EngineTellsOnce ==
    ASSUME SendInv, SendInv', OnceInv, NEW w \in wire, EngineTakes(w), EngineTells(w)
    PROVE  OnceInv'
<1>1. UNCHANGED <<s, o, recq, last, eng, todo>> /\ wire' = wire \ {w} /\ w.k = "state"
  BY DEF EngineTakes, EngineTells
<1>2. \A c \in calls : DOMAIN c = CallFields /\ (c.id = w.id => ~Sending(c))
  BY <1>1 DEF OnceInv, Wired, Sending, SendKinds, SendInv, Called
<1>3. ASSUME NEW d \in calls' PROVE \E c \in calls : Relic(c, d) /\ Heir(c, d)
  <2>1. PICK res : res = "ok"
    OBVIOUS
  <2>2. PICK c \in calls : d = IF c.id = w.id /\ c.res = "none" THEN [c EXCEPT !.res = res, !.snap = Snapshot] ELSE c
    BY <1>3, <2>1 DEF EngineTells
  <2>3. CASE c.id = w.id /\ c.res = "none"
    BY <1>2, <2>1, <2>2, <2>3, RelabelsAnswer
  <2>4. CASE ~(c.id = w.id /\ c.res = "none")
    BY <2>2, <2>4, KeepsCall
  <2>. QED BY <2>3, <2>4
<1>. QED BY <1>1, <1>3, SparingSame, AnswersOnce

LEMMA EngineClosesOnce ==
    ASSUME SendInv, SendInv', OnceInv, NEW w \in wire, EngineTakes(w), EngineCloses(w)
    PROVE  OnceInv'
<1>1. UNCHANGED <<s, o, recq, last, todo>> /\ wire' = wire \ {w} /\ w.k = "close"
  BY DEF EngineTakes, EngineCloses
<1>2. eng'.applied = eng.applied
  BY DEF EngineCloses, SendInv, Shaped, EngineFields
<1>3. PICK res : res \in {"ok", "err"} /\ calls' = AnswerWith(w, res)
  BY DEF EngineCloses
<1>4. ~Sending(w) /\ res # "lost" /\ Sparing
  BY <1>1, <1>3, SparingSame DEF Sending, SendKinds
<1>. QED BY <1>1, <1>2, <1>3, <1>4, AnswerWithOnce

LEMMA EngineCompactsOnce ==
    ASSUME SendInv, SendInv', OnceInv, NEW w \in wire, EngineTakes(w), EngineCompacts(w)
    PROVE  OnceInv'
<1>1. UNCHANGED <<s, o, recq, last, todo>> /\ wire' = wire \ {w} /\ w.k = "compact"
  BY DEF EngineTakes, EngineCompacts
<1>2. eng'.applied = eng.applied
  BY DEF EngineCompacts, SendInv, Shaped, EngineFields
<1>3. ~Sending(w) /\ Sparing
  BY <1>1, SparingSame DEF Sending, SendKinds
<1>4. CASE calls' = calls
  BY <1>1, <1>2, <1>3, <1>4, KeepsCall, AnswersOnce
<1>5. CASE calls' # calls
  <2>1. PICK res : res = "err" /\ calls' = AnswerWith(w, res)
    BY <1>5 DEF EngineCompacts
  <2>. QED BY <1>1, <1>2, <1>3, <2>1, AnswerWithOnce
<1>. QED BY <1>4, <1>5

LEMMA EngineResolvesOnce ==
    ASSUME SendInv, SendInv', OnceInv, NEW w \in wire, EngineTakes(w), EngineResolves(w)
    PROVE  OnceInv'
<1>1. UNCHANGED <<s, o, recq, last, todo, calls>> /\ wire' = wire \ {w}
  BY DEF EngineTakes, EngineResolves
<1>2. eng'.applied = eng.applied
  BY DEF EngineResolves, SendInv, Shaped, EngineFields
<1>. QED BY <1>1, <1>2, SparingSame, KeepsCall, AnswersOnce

\* The end of a compaction answers the command that asked for it.
LEMMA EngineCompactedOnce ==
    ASSUME SendInv, SendInv', OnceInv, EngineCompacted \/ EngineUnloads
    PROVE  OnceInv'
<1>1. UNCHANGED <<s, o, recq, last, wire>>
  BY DEF EngineCompacted, EngineUnloads
<1>2. eng'.applied = eng.applied
  BY DEF EngineCompacted, EngineUnloads, SendInv, Shaped, EngineFields
<1>3. todo' = todo \/ \E k \in Inputs : Spend(k)
  BY DEF EngineCompacted, EngineUnloads, Inputs
<1>4. Sparing
  BY <1>3, SparingSame, SparingSpent
<1>5. PICK res : res \in {"ok", "err"} /\ \A d \in calls' : \E c \in calls : d = c \/ (c.k = "compact" /\ d = [c EXCEPT !.res = res])
  BY DEF EngineCompacted, EngineUnloads
<1>6. \A c \in calls : DOMAIN c = CallFields
  BY DEF SendInv, Called
<1>7. ASSUME NEW d \in calls' PROVE \E c \in calls : Relic(c, d) /\ Heir(c, d)
  <2>1. PICK c \in calls : d = c \/ (c.k = "compact" /\ d = [c EXCEPT !.res = res])
    BY <1>5
  <2>2. CASE d = c
    BY <2>2, KeepsCall
  <2>3. CASE c.k = "compact" /\ d = [c EXCEPT !.res = res]
    BY <1>5, <1>6, <2>3, RelabelsAnswer DEF Sending, SendKinds
  <2>. QED BY <2>1, <2>2, <2>3
<1>. QED BY <1>1, <1>2, <1>4, <1>7, AnswersOnce

LEMMA LossOnce == ASSUME SendInv, SendInv', OnceInv, Loss PROVE OnceInv'
<1>1. UNCHANGED <<s, o, recq, last, eng>> /\ wire' \subseteq wire
  BY DEF Loss
<1>2. PICK k \in Inputs : Spend(k) /\ k = "loss"
  BY DEF Loss, Inputs
<1>3. Sparing
  BY <1>2, SparingSpent
<1>4. todo.n["loss"] # 0
  BY <1>2 DEF Spend, SendInv, Shaped, Plans
<1>5. \A d \in calls' : \E c \in calls : d = c \/ d = [c EXCEPT !.res = "lost"]
  BY DEF Loss
<1>6. \A c \in calls : DOMAIN c = CallFields
  BY DEF SendInv, Called
<1>7. ASSUME NEW d \in calls' PROVE \E c \in calls : Relic(c, d) /\ Heir(c, d)
  <2>1. PICK c \in calls : d = c \/ d = [c EXCEPT !.res = "lost"]
    BY <1>5
  <2>. QED BY <1>4, <1>6, <2>1 DEF Relic, Heir, Sending, CallFields
<1>. QED BY <1>1, <1>3, <1>7, AnswersOnce


-----------------------------------------------------------------------------
(***************************************************************************)
(* One lemma per action: the engine answers a send.                        *)
(***************************************************************************)

\* The engine takes the one request of r from the wire and answers its call.
LEMMA AnswersSend ==
    ASSUME SendInv, SendInv', OnceInv, Sparing, UNCHANGED <<s, o, recq, last>>,
           NEW w \in wire, Sending(w), wire' = wire \ {w},
           NEW res \in {"ok", "busy", "unknown"}, calls' = AnswerWith(w, res),
           NEW r \in Requests, r = w.req,
           \A q \in Requests \ {r} : eng'.applied[q] = eng.applied[q],
           eng'.applied[r] = IF res = "ok" THEN eng.applied[r] + 1 ELSE eng.applied[r]
    PROVE  OnceInv'
<1>1. \A c \in calls : DOMAIN c = CallFields
  BY DEF SendInv, Called
<1>2. ASSUME NEW d \in calls'
      PROVE  \E c \in calls : /\ d.id = c.id /\ d.k = c.k /\ d.req = c.req /\ d.g = c.g /\ d.shut = c.shut
                              /\ d.res = IF c.id = w.id /\ c.res = "none" THEN res ELSE c.res
  <2>1. PICK c \in calls : d = IF c.id = w.id /\ c.res = "none" THEN [c EXCEPT !.res = res] ELSE c
    BY <1>2 DEF AnswerWith
  <2>. QED BY <1>1, <2>1 DEF CallFields
<1>3. Calm'
  <2>1. \A d \in calls' : \E c \in calls : Heir(c, d)
    BY <1>2 DEF Heir
  <2>. QED BY <2>1, KeepsItself, CalmMoves DEF SendInv, OnceInv
<1>4. last \in Nat /\ \A d \in calls' : d.id # last + 1 /\ \E c \in calls : d.id = c.id /\ d.k = c.k /\ d.req = c.req
  BY <1>2 DEF SendInv, Shaped, Called
<1>5. Wired'
  <2>1. \A d \in calls' : Sending(d) => d.res \in {"none", "ok", "busy", "unknown", "lost"}
    BY <1>2 DEF OnceInv, Wired, Sending
  <2>. QED BY <1>4, <2>1, WiredMoves DEF OnceInv
<1>6. ASSUME r \in Requests \ Anonymous PROVE Once(r)'
  <2>1. Once(r) /\ w \in WireOf(r)
    BY <1>6 DEF OnceInv, AllOnce, WireOf
  <2>2. WireOf(r)' = {} /\ QueuedAt(r)' = {} /\ o'.ops[r].phase = "admitted"
    BY <2>1 DEF Once, WireOf, QueuedAt
  <2>3. \A d \in CallsOf(r)' : d.res \in {res, "lost"}
    <3>1. SUFFICES ASSUME NEW d \in CallsOf(r)' PROVE d.res \in {res, "lost"}
      OBVIOUS
    <3>2. PICK c \in calls : /\ d.k = c.k /\ d.req = c.req
                             /\ d.res = IF c.id = w.id /\ c.res = "none" THEN res ELSE c.res
      BY <1>2, <3>1 DEF CallsOf
    <3>3. c \in CallsOf(r)
      BY <3>1, <3>2 DEF CallsOf, Sending
    <3>4. c.id = w.id /\ c.res \in {"none", "lost"}
      BY <2>1, <3>3 DEF Once
    <3>. QED BY <3>2, <3>4
  <2>4. eng.applied[r] <= o.forgot[r] /\ eng.applied[r] \in Nat /\ o.forgot[r] \in Nat /\ o' = o
    BY <2>1 DEF Once, SendInv, Shaped, Ledger, Counts
  <2>5. CASE res = "ok"
    <3>1. eng'.applied[r] <= o'.forgot[r] + 1 /\ eng'.applied[r] > 0
      BY <2>4, <2>5
    <3>. QED BY <2>2, <2>3, <2>5, <3>1 DEF Once
  <2>6. CASE res # "ok"
    <3>1. eng'.applied[r] <= o'.forgot[r] /\ eng'.applied[r] <= o'.forgot[r] + 1
      BY <2>4, <2>6
    <3>. QED BY <2>2, <2>3, <2>6, <3>1 DEF Once
  <2>. QED BY <2>5, <2>6
<1>7. OthersKept(o, o', r) /\ QueuedElsewhere(r)
  BY SameLedger, SameQueue
<1>8. \A d \in calls' : Sending(d) => d.req = r \/ \E c \in calls : Relic(c, d)
  <2>1. SUFFICES ASSUME NEW d \in calls', Sending(d), d.req # r PROVE \E c \in calls : Relic(c, d)
    OBVIOUS
  <2>2. PICK c \in calls : /\ d.id = c.id /\ d.k = c.k /\ d.req = c.req
                           /\ d.res = IF c.id = w.id /\ c.res = "none" THEN res ELSE c.res
    BY <1>2
  <2>3. c.id # w.id
    BY <2>1, <2>2 DEF OnceInv, Wired
  <2>. QED BY <2>2, <2>3 DEF Relic
<1>9. AllOnce'
  BY <1>6, <1>7, <1>8, OnceMoves DEF OnceInv
<1>. QED BY <1>3, <1>5, <1>9 DEF OnceInv

LEMMA EngineRefusesOnce ==
    ASSUME SendInv, SendInv', OnceInv, NEW w \in wire, EngineTakes(w), EngineRefuses(w) \/ EngineBusy(w)
    PROVE  OnceInv'
<1>1. UNCHANGED <<s, o, recq, last, todo, eng>> /\ wire' = wire \ {w}
  BY DEF EngineTakes, EngineRefuses, EngineBusy
<1>2. PICK res \in {"ok", "busy", "unknown"} : res # "ok" /\ calls' = AnswerWith(w, res)
  BY DEF EngineRefuses, EngineBusy
<1>3. Sparing
  BY <1>1, SparingSame
<1>4. CASE ~Sending(w)
  BY <1>1, <1>2, <1>3, <1>4, AnswerWithOnce
<1>5. CASE Sending(w)
  <2>1. PICK r \in Requests : r = w.req
    BY <1>5 DEF OnceInv, Wired
  <2>. QED BY <1>1, <1>2, <1>3, <1>5, <2>1, AnswersSend
<1>. QED BY <1>4, <1>5

LEMMA EngineAppliesOnce ==
    ASSUME SendInv, SendInv', OnceInv, NEW w \in wire, EngineTakes(w),
           EngineRuns(w) \/ EngineSteers(w) \/ EngineLocal(w)
    PROVE  OnceInv'
<1>1. UNCHANGED <<s, o, recq, last>> /\ wire' = wire \ {w}
  BY DEF EngineTakes
<1>2. Sending(w)
  BY DEF EngineRuns, EngineSteers, EngineLocal, Sending, SendKinds
<1>3. PICK res \in {"ok", "busy", "unknown"} : res = "ok" /\ calls' = AnswerWith(w, res)
  BY DEF EngineRuns, EngineSteers, EngineLocal
<1>4. PICK r \in Requests : r = w.req
  BY <1>2 DEF OnceInv, Wired
<1>5. eng'.applied = [eng.applied EXCEPT ![r] = @ + 1]
  BY <1>4 DEF EngineRuns, EngineSteers, EngineLocal, SendInv, Shaped, EngineFields
<1>6. eng'.applied[r] = eng.applied[r] + 1 /\ \A q \in Requests \ {r} : eng'.applied[q] = eng.applied[q]
  BY <1>5 DEF SendInv, Shaped, Counts
<1>7. todo' = todo \/ \E k \in Inputs : Spend(k)
  BY DEF EngineRuns, EngineSteers, EngineLocal, Inputs
<1>8. Sparing
  BY <1>7, SparingSame, SparingSpent
<1>. QED BY <1>1, <1>2, <1>3, <1>4, <1>6, <1>8, AnswersSend

LEMMA EngineHandlesOnce == ASSUME SendInv, SendInv', OnceInv, EngineHandles PROVE OnceInv'
<1>1. PICK w \in wire :
          /\ EngineTakes(w)
          /\ \/ EngineRefuses(w) \/ EngineRuns(w) \/ EngineSteers(w) \/ EngineBusy(w) \/ EngineLocal(w)
             \/ EngineCompacts(w) \/ EngineTells(w) \/ EngineCloses(w) \/ EngineResolves(w)
  BY DEF EngineHandles
<1>. QED BY <1>1, EngineRefusesOnce, EngineAppliesOnce, EngineCompactsOnce, EngineTellsOnce, EngineClosesOnce,
            EngineResolvesOnce


-----------------------------------------------------------------------------
(***************************************************************************)
(* One lemma per action: sends, their completions and their retries.       *)
(***************************************************************************)

\* The request r is no longer on its way: it waits, is claimed, or has its outcome.
LEMMA RestsOnce ==
    ASSUME SendInv, SendInv', OnceInv, Calm', NEW r \in Requests, last' = last,
           wire' = wire, calls' \subseteq calls, eng'.applied = eng.applied,
           OthersKept(o, o', r), QueuedElsewhere(r),
           r \notin Anonymous =>
              /\ WireOf(r) = {} /\ IdsOf(r)' = {} /\ o'.forgot[r] = o.forgot[r]
              /\ \/ /\ eng.applied[r] <= o.forgot[r]
                    /\ \/ o'.ops[r].phase \in {"admitted", "retrying"}
                       \/ o'.ops[r].phase = "terminal" /\ o'.ops[r].err # "nil"
                 \/ /\ o.forgot[r] = 0 => eng.applied[r] > 0
                    /\ o'.ops[r].phase = "terminal" /\ o'.ops[r].err = "nil" /\ QueuedAt(r)' = {}
    PROVE  OnceInv'
<1>1. last \in Nat /\ last' \in Nat /\ \A d \in calls' : Sending(d) => d.res \in {"none", "ok", "busy", "unknown", "lost"}
  BY DEF SendInv, Shaped, OnceInv, Wired
<1>2. \A d \in calls' : d.id # last + 1 /\ \E c \in calls : d.id = c.id /\ d.k = c.k /\ d.req = c.req
  BY <1>1 DEF SendInv, Called
<1>3. last <= last'
  BY <1>1
<1>4. Wired'
  BY <1>1, <1>2, <1>3, WiredMoves DEF OnceInv
<1>5. ASSUME r \in Requests \ Anonymous PROVE Once(r)'
  <2>1. Once(r) /\ eng.applied[r] \in Nat /\ o.forgot[r] \in Nat /\ o'.forgot[r] = o.forgot[r]
    BY <1>5 DEF OnceInv, AllOnce, SendInv, Shaped, Ledger, Counts
  <2>2. WireOf(r)' = {} /\ CallsOf(r)' = {}
    BY <1>5 DEF WireOf, IdsOf
  <2>3. eng'.applied[r] <= o'.forgot[r] + 1
    BY <2>1 DEF Once
  <2>4. CASE /\ eng.applied[r] <= o.forgot[r]
             /\ \/ o'.ops[r].phase \in {"admitted", "retrying"}
                \/ o'.ops[r].phase = "terminal" /\ o'.ops[r].err # "nil"
    <3>1. eng'.applied[r] <= o'.forgot[r] /\ (o'.forgot[r] = 0 => ~(eng'.applied[r] > 0))
      BY <2>1, <2>4
    <3>. QED BY <2>2, <2>3, <2>4, <3>1 DEF Once
  <2>5. CASE /\ o.forgot[r] = 0 => eng.applied[r] > 0
             /\ o'.ops[r].phase = "terminal" /\ o'.ops[r].err = "nil" /\ QueuedAt(r)' = {}
    BY <2>1, <2>2, <2>3, <2>5 DEF Once
  <2>. QED BY <1>5, <2>4, <2>5
<1>6. \A d \in calls' : \E c \in calls : Relic(c, d)
  BY DEF Relic
<1>7. AllOnce'
  BY <1>5, <1>6, OnceMoves DEF OnceInv
<1>. QED BY <1>4, <1>7 DEF OnceInv

\* The command of a send is written: it is the only one of its request.
LEMMA WritesOnce ==
    ASSUME SendInv, SendInv', OnceInv, Calm', NEW r \in Requests,
           NEW n, Sending(n), n.id = last + 1, n.req = r, n.res = "none",
           calls' \subseteq calls \cup {n}, wire' = wire \cup {Request(n)}, last' = last + 1,
           eng'.applied = eng.applied, OthersKept(o, o', r), recq' = recq,
           r \notin Anonymous =>
              /\ WireOf(r) = {} /\ QueuedAt(r) = {} /\ \A d \in calls' : Sending(d) /\ d.req = r => d = n
              /\ o'.ops[r].phase = "admitted" /\ o'.forgot[r] = o.forgot[r]
              /\ eng.applied[r] <= o.forgot[r]
    PROVE  OnceInv'
<1>1. PICK v : v = Request(n)
  OBVIOUS
<1>2. v.id = last + 1 /\ v.k = n.k /\ v.req = r /\ Sending(v)
  BY <1>1 DEF Request, Sending
<1>3. last \in Nat /\ last' \in Nat /\ last <= last' /\ \A c \in calls : c.id \in Nat /\ c.id <= last
  BY DEF SendInv, Shaped, Called
<1>4. \A w \in wire : w.id \in Nat /\ w.id <= last
  BY DEF OnceInv, Wired
<1>5. \A w \in wire', d \in calls' : w.id = last + 1 /\ d.id = last + 1 => w.k = d.k /\ w.req = d.req
  BY <1>1, <1>2, <1>3, <1>4
<1>6. \A d \in calls' : (\E c \in calls : d.id = c.id /\ d.k = c.k /\ d.req = c.req) \/ d.id = last + 1
  OBVIOUS
<1>7. \A d \in calls' : Sending(d) => d.res \in {"none", "ok", "busy", "unknown", "lost"}
  BY DEF OnceInv, Wired
<1>8. \A w \in wire' : w \in wire \/ (w.id = last + 1 /\ last' = last + 1 /\ (Sending(w) => w.req \in Requests))
  BY <1>1, <1>2
<1>9. Wired'
  BY <1>3, <1>5, <1>6, <1>7, <1>8, WiredMoves DEF OnceInv
<1>10. ASSUME r \in Requests \ Anonymous PROVE Once(r)'
  <2>1. eng.applied[r] \in Nat /\ o.forgot[r] \in Nat /\ o'.forgot[r] = o.forgot[r]
    BY <1>10 DEF SendInv, Shaped, Ledger, Counts
  <2>2. WireOf(r)' = {v} /\ QueuedAt(r)' = {} /\ \A d \in CallsOf(r)' : d = n
    BY <1>1, <1>2, <1>10 DEF WireOf, QueuedAt, CallsOf
  <2>3. eng'.applied[r] <= o'.forgot[r] /\ eng'.applied[r] <= o'.forgot[r] + 1
    BY <1>10, <2>1
  <2>. QED BY <1>2, <1>10, <2>2, <2>3 DEF Once
<1>11. QueuedElsewhere(r) /\ \A d \in calls' : Sending(d) => d.req = r \/ \E c \in calls : Relic(c, d)
  BY SameQueue DEF Relic
<1>12. \A w \in wire' : Sending(w) => w \in wire \/ w.req = r
  BY <1>1, <1>2
<1>13. AllOnce'
  BY <1>10, <1>11, <1>12, OnceMoves DEF OnceInv
<1>. QED BY <1>9, <1>13 DEF OnceInv

\* Who may start has nothing on the wire, and nothing of it was applied that the
\* ledger still answers for.
LEMMA StartsUnsent ==
    ASSUME SendInv, OnceInv, NEW r \in Requests \ Anonymous, MayStart(r)
    PROVE  WireOf(r) = {} /\ IdsOf(r) = {} /\ QueuedAt(r) = {} /\ eng.applied[r] <= o.forgot[r]
<1>1. Once(r) /\ o.ops[r].phase \in {"none", "retrying"}
  BY DEF OnceInv, AllOnce, MayStart, Fresh
<1>. QED BY <1>1, StartsAlone DEF Once


LEMMA KeepsLatched == ASSUME Routed(s), NEW kind PROVE Keeps(s, Latched(kind))
BY KeepsPrompt, KeepsItself DEF Latched

LEMMA SentOnceMore ==
    ASSUME SendInv, SendInv', OnceInv, Sparing, NEW r \in Requests, NEW kind \in SendKinds, NEW retry, MayStart(r),
           Sends(kind, r, BeginSend(o, r), retry), ~s.closed, ~s.closing,
           recq' = recq, eng' = eng
    PROVE  OnceInv'
<1>1. PICK n : n = NewCall(kind, IF kind = "prompt" THEN s.promptSeq + 1 ELSE 0, r, retry)
  OBVIOUS
<1>2. /\ n.id = last + 1 /\ n.k = kind /\ n.req = r /\ n.g = s.gen /\ n.res = "none" /\ n.shut = FALSE
      /\ Sending(n)
  BY <1>1 DEF NewCall, Sending
<1>3. calls' = calls \cup {n} /\ wire' = wire \cup {Request(n)} /\ last' = last + 1 /\ s' = Latched(kind)
  BY <1>1 DEF Sends, Write
<1>4. PICK err \in Errors : err = "nil"
  BY DEF Errors
<1>5. PICK v : v = RecordSend(BeginSend(o, r), r, err)
  OBVIOUS
<1>6. /\ v \in Ledger /\ OthersKept(o, v, r) /\ v.forgot[r] = o.forgot[r]
      /\ r \notin Anonymous => v.ops[r].phase = "admitted"
  BY <1>4, <1>5, Started DEF SendInv
<1>7. last + 1 \in Nat /\ o' = RegisterWrite(v, last + 1, r)
  BY <1>1, <1>2, <1>4, <1>5 DEF Sends, SendInv, Shaped
<1>8. o'.ops = v.ops /\ o'.forgot = v.forgot
  BY <1>6, <1>7, Registers
<1>9. OthersKept(o, o', r)
  BY <1>6, <1>8 DEF OthersKept, Untouched, Forgotten
<1>10. Keeps(s, s')
  BY <1>3, KeepsLatched DEF OnceInv, Calm, Aged
<1>11. Newcomer(n) /\ \A c \in calls : Heir(c, c)
  <2>1. n.k # "close"
    BY <1>2 DEF SendKinds
  <2>. QED BY <1>2, <2>1 DEF Newcomer, Heir, Unstopped
<1>12. Calm'
  BY <1>3, <1>10, <1>11, CalmMoves DEF SendInv, OnceInv
<1>13. ASSUME r \notin Anonymous
       PROVE  /\ WireOf(r) = {} /\ QueuedAt(r) = {} /\ eng.applied[r] <= o.forgot[r]
              /\ \A d \in calls' : Sending(d) /\ d.req = r => d = n
  <2>1. WireOf(r) = {} /\ IdsOf(r) = {} /\ QueuedAt(r) = {} /\ eng.applied[r] <= o.forgot[r]
    BY <1>13, StartsUnsent
  <2>2. \A d \in calls : ~(Sending(d) /\ d.req = r)
    BY <2>1 DEF IdsOf, CallsOf
  <2>. QED BY <1>3, <2>1, <2>2
<1>. QED BY <1>2, <1>3, <1>6, <1>8, <1>9, <1>12, <1>13, WritesOnce

\* A send that fails at once was not applied.
LEMMA FailsOnce ==
    ASSUME SendInv, SendInv', OnceInv, Sparing, NEW r \in Requests, MayStart(r), Keeps(s, s'),
           NEW err \in Errors \ {"nil"}, NEW v, v = RecordSend(BeginSend(o, r), r, err),
           o'.ops = v.ops, o'.forgot = v.forgot,
           QueuedElsewhere(r), UNCHANGED <<calls, wire, last, eng>>
    PROVE  OnceInv'
<1>1. /\ OthersKept(o, v, r) /\ v.forgot[r] = o.forgot[r]
      /\ r \notin Anonymous => v.ops[r].phase \in {"admitted", "terminal"} /\ v.ops[r].err = err
  BY Started DEF SendInv
<1>2. OthersKept(o, o', r)
  BY <1>1 DEF OthersKept, Untouched, Forgotten
<1>3. Calm'
  <2>1. \A d \in calls' : \E c \in calls : Heir(c, d)
    BY DEF Heir
  <2>. QED BY <2>1, CalmMoves DEF SendInv, OnceInv
<1>4. r \notin Anonymous => WireOf(r) = {} /\ IdsOf(r)' = {} /\ eng.applied[r] <= o.forgot[r]
  BY StartsUnsent DEF IdsOf, CallsOf
<1>5. last' = last /\ wire' = wire /\ calls' \subseteq calls /\ eng'.applied = eng.applied
  OBVIOUS
<1>. QED BY <1>1, <1>2, <1>3, <1>4, <1>5, RestsOnce

LEMMA BreaksOnce ==
    ASSUME SendInv, SendInv', OnceInv, Sparing, NEW r \in Requests, NEW kind, MayStart(r),
           SendBreaks(kind, r, BeginSend(o, r)), recq' = recq, eng' = eng
    PROVE  OnceInv'
<1>1. PICK err \in Errors \ {"nil"} : err = "hard"
  BY DEF Errors
<1>2. o' = RecordSend(BeginSend(o, r), r, err) /\ UNCHANGED <<calls, wire, last>>
  BY <1>1 DEF SendBreaks
<1>3. Keeps(s, s')
  <2>1. Routed(s)
    BY DEF OnceInv, Calm, Aged
  <2>2. PICK x : x = Latched(kind)
    OBVIOUS
  <2>3. PICK y : y = Invalidate(x)
    OBVIOUS
  <2>4. PICK n : n = IF kind = "prompt" THEN s.promptSeq + 1 ELSE 0
    OBVIOUS
  <2>5. PICK ok, z : ok = FALSE /\ z = CompletePrompt(y, n, ok)
    OBVIOUS
  <2>6. Keeps(s, x) /\ Routed(x)
    BY <2>1, <2>2, KeepsLatched DEF Keeps, Routed
  <2>7. Keeps(s, y) /\ Routed(y)
    BY <2>1, <2>3, <2>6, KeepsInvalidated DEF Keeps, Routed
  <2>8. Keeps(s, z) /\ Routed(z)
    BY <2>1, <2>5, <2>7, KeepsCompleted DEF Keeps, Routed
  <2>9. s' = Sched(z, o, calls)
    BY <2>2, <2>3, <2>4, <2>5 DEF SendBreaks
  <2>. QED BY <2>1, <2>8, <2>9, KeepsSched, KeepsOn
<1>4. QueuedElsewhere(r)
  BY SameQueue
<1>. QED BY <1>1, <1>2, <1>3, <1>4, FailsOnce

LEMMA SendOnce ==
    ASSUME SendInv, SendInv', OnceInv, NEW r \in todo.reqs, NEW kind \in SendKinds, Send(kind, r)
    PROVE  OnceInv'
<1>1. r \in Requests
  BY DEF SendInv, Shaped, Plans
<1>2. UNCHANGED <<fl, eng>> /\ fl.pc = "free" /\ Spend(kind)
  BY DEF Send
<1>3. Sparing
  BY <1>2, SparingSpent DEF SendKinds, Inputs
<1>4. fl.req = NoRequest
  BY <1>2, FreeHolder DEF SendInv
<1>5. CASE UNCHANGED <<s, o, calls, wire, last, recq>>
  BY <1>2, <1>3, <1>5, KeepsItself, OnceStill
<1>6. CASE Admission(o, r) = "go"
  <2>1. MayStart(r)
    <3>1. SUFFICES ASSUME r \in Requests \ Anonymous PROVE o.ops[r].phase = "none"
      BY <1>6 DEF MayStart, Fresh
    <3>2. o.ops[r].phase # "retrying" /\ o.ops[r].phase \in {"none", "admitted", "retrying", "terminal"}
      BY <1>4, <3>1, RequestAssumption DEF SendInv, AllFollowed, Followed, Shaped, Ledger, Operations, Operation
    <3>. QED BY <1>6, <3>1, <3>2 DEF Admission, Named
  <2>2. PICK why : why = Refusal(kind, FALSE)
    OBVIOUS
  <2>3. CASE why \in {"resumable", "closed"} /\ UNCHANGED <<s, calls, wire, last>>
             /\ o' = RecordSend(BeginSend(o, r), r, why) /\ recq' = Append(recq, Recovery(r, kind))
    <3>1. PICK j \in Jobs : j = Recovery(r, kind) /\ j.req = r
      <4>1. [req |-> r, kind |-> kind] \in Jobs
        BY <1>1 DEF Jobs
      <4>. QED BY <4>1 DEF Recovery
    <3>2. QueuedElsewhere(j.req)
      BY <2>3, <3>1, Enqueues DEF SendInv
    <3>3. why \in Errors \ {"nil"} /\ QueuedElsewhere(r)
      BY <2>3, <3>1, <3>2 DEF Errors
    <3>. QED BY <1>1, <1>2, <1>3, <2>1, <2>3, <3>3, KeepsItself, FailsOnce
  <2>4. CASE why = "hard" /\ UNCHANGED <<s, calls, wire, last, recq>> /\ o' = RecordSend(BeginSend(o, r), r, why)
    <3>1. why \in Errors \ {"nil"} /\ QueuedElsewhere(r)
      BY <2>4, SameQueue DEF Errors
    <3>. QED BY <1>1, <1>2, <1>3, <2>1, <2>4, <3>1, KeepsItself, FailsOnce
  <2>5. CASE Sends(kind, r, BeginSend(o, r), FALSE) /\ recq' = recq /\ why = "nil"
    <3>1. PICK retry : retry = FALSE
      OBVIOUS
    <3>2. ~s.closed /\ ~s.closing
      BY <2>2, <2>5 DEF Refusal
    <3>3. Sends(kind, r, BeginSend(o, r), retry)
      BY <2>5, <3>1
    <3>. QED BY <1>1, <1>2, <1>3, <2>1, <2>5, <3>2, <3>3, SentOnceMore
  <2>6. CASE SendBreaks(kind, r, BeginSend(o, r)) /\ recq' = recq
    BY <1>1, <1>2, <1>3, <2>1, <2>6, BreaksOnce
  <2>. QED BY <1>5, <2>2, <2>3, <2>4, <2>5, <2>6 DEF Send
<1>. QED BY <1>5, <1>6 DEF Send


\* The recovery of a send has the permit: what it is for was not applied.
LEMMA StartJobOnce == ASSUME SendInv, SendInv', OnceInv, StartJob PROVE OnceInv'
<1>1. /\ UNCHANGED <<calls, wire, eng, last, todo>> /\ fl.pc = "free"
      /\ recq # <<>> /\ recq' = Tail(recq)
  BY DEF StartJob
<1>2. PICK j : j = Head(recq)
  OBVIOUS
<1>3. PICK r : r = j.req
  OBVIOUS
<1>4. /\ j \in Jobs /\ QueuedElsewhere(r) /\ QueuedAt(r) # {}
      /\ (\A i, k \in QueuedAt(r) : i = k) => QueuedAt(r)' = {}
  BY <1>1, <1>2, <1>3, Dequeues DEF SendInv
<1>5. r \in Requests \cup {NoRequest}
  BY <1>3, <1>4 DEF Jobs
<1>6. Keeps(s, s') /\ Sparing
  BY <1>1, KeepsInvalidated, KeepsItself, SparingSame DEF StartJob, OnceInv, Calm, Aged
<1>7. \A d \in calls' : \E c \in calls : Heir(c, d) /\ Relic(c, d)
  BY <1>1 DEF Heir, Relic
<1>8. Calm'
  BY <1>6, <1>7, CalmMoves DEF SendInv, OnceInv
<1>9. CASE r = NoRequest
  <2>1. o' = o /\ QueuedElsewhere(NoRequest)
    BY <1>2, <1>3, <1>4, <1>9 DEF StartJob
  <2>2. last <= last' /\ \A d \in calls' : d.id # last + 1
    BY <1>1 DEF SendInv, Shaped, Called
  <2>. QED BY <1>1, <1>7, <1>8, <2>1, <2>2, OnceStands
<1>10. CASE r \in Requests /\ r # NoRequest
  <2>1. OthersKept(o, o', r)
    <3>1. CASE r \in Anonymous
      <4>1. o' = o
        BY <1>2, <1>3, <1>10, <3>1 DEF StartJob, PrepareRetry, Named
      <4>. QED BY <4>1, SameLedger
    <3>2. CASE r \notin Anonymous
      <4>1. o' = PrepareRetry(o, r) \/ o' = o
        BY <1>2, <1>3, <1>10 DEF StartJob
      <4>2. OthersKept(o, PrepareRetry(o, r), r)
        BY <1>10, <3>2, Claims DEF SendInv, Shaped
      <4>. QED BY <4>1, <4>2, SameLedger
    <3>. QED BY <3>1, <3>2
  <2>2. ASSUME r \notin Anonymous
        PROVE  /\ WireOf(r) = {} /\ IdsOf(r)' = {} /\ o'.forgot[r] = o.forgot[r]
               /\ eng.applied[r] <= o.forgot[r] /\ o'.ops[r].phase = "retrying"
    <3>1. Followed(r) /\ Once(r)
      BY <1>10, <2>2 DEF SendInv, AllFollowed, OnceInv, AllOnce
    <3>2. o.ops[r].phase = "admitted" /\ IdsOf(r) = {} /\ WireOf(r) = {} /\ eng.applied[r] <= o.forgot[r]
      BY <1>4, <3>1 DEF Followed, Once
    <3>3. o' = PrepareRetry(o, r)
      BY <1>2, <1>3, <1>10, <2>2, <3>2 DEF StartJob, MayRetry, Named
    <3>4. o'.forgot = o.forgot /\ o'.ops[r].phase = "retrying"
      BY <1>10, <2>2, <3>3, Claims DEF SendInv, Shaped
    <3>5. IdsOf(r)' = {}
      BY <1>1, <3>2 DEF IdsOf, CallsOf
    <3>. QED BY <3>2, <3>4, <3>5
  <2>3. last' = last /\ wire' = wire /\ calls' \subseteq calls /\ eng'.applied = eng.applied
    BY <1>1
  <2>. QED BY <1>4, <1>8, <1>10, <2>1, <2>2, <2>3, RestsOnce
<1>. QED BY <1>5, <1>9, <1>10

LEMMA AcquireFailsOnce == ASSUME SendInv, SendInv', OnceInv, AcquireFails PROVE OnceInv'
<1>1. UNCHANGED <<s, calls, wire, eng, recq, last, todo>>
  BY DEF AcquireFails
<1>2. PICK r : r = fl.req
  OBVIOUS
<1>3. r \in Requests \cup {NoRequest}
  BY <1>2 DEF SendInv, Shaped, Holder
<1>4. CASE r \notin Requests \ Anonymous
  <2>1. o' = o
    BY <1>2, <1>3, <1>4 DEF AcquireFails, PublishError, Named
  <2>. QED BY <1>1, <2>1, KeepsItself, SessionStepOnce
<1>5. CASE r \in Requests \ Anonymous
  <2>1. Followed(r) /\ Once(r) /\ r # NoRequest
    BY <1>5, RequestAssumption DEF SendInv, AllFollowed, OnceInv, AllOnce
  <2>2. /\ o.ops[r].phase = "retrying" /\ IdsOf(r) = {} /\ ~o.ops[r].published
        /\ WireOf(r) = {} /\ eng.applied[r] <= o.forgot[r]
    BY <1>2, <2>1 DEF Followed, Once
  <2>3. o' = PublishError(o, r)
    BY <1>2, <2>1 DEF AcquireFails
  <2>4. o'.forgot = o.forgot /\ o'.ops[r].phase = "terminal" /\ o'.ops[r].err # "nil" /\ OthersKept(o, o', r)
    BY <1>5, <2>2, <2>3, Fails DEF SendInv, Shaped
  <2>5. IdsOf(r)' = {}
    BY <1>1, <2>2 DEF IdsOf, CallsOf
  <2>6. Calm' /\ QueuedElsewhere(r)
    BY <1>1, SparingSame, CalmStays, SameQueue DEF SendInv, OnceInv
  <2>7. last' = last /\ wire' = wire /\ calls' \subseteq calls /\ eng'.applied = eng.applied
    BY <1>1
  <2>. QED BY <1>5, <2>2, <2>4, <2>5, <2>6, <2>7, RestsOnce
<1>. QED BY <1>4, <1>5

LEMMA RetryOnce == ASSUME SendInv, SendInv', OnceInv, Retry PROVE OnceInv'
<1>1. UNCHANGED <<eng, recq, todo>>
  BY DEF Retry
<1>2. PICK r : r = fl.req
  OBVIOUS
<1>3. PICK kind : kind = fl.kind
  OBVIOUS
<1>4. r \in Requests /\ kind \in SendKinds
  BY <1>2, <1>3 DEF Retry, SendInv, Shaped, Holder
<1>5. MayStart(r)
  <2>1. SUFFICES ASSUME r \in Requests \ Anonymous PROVE o.ops[r].phase = "retrying" /\ ~o.ops[r].published
    <3>1. o.ops[r].phase = "retrying" => Admission(o, r) = "go"
      BY DEF Admission
    <3>. QED BY <3>1 DEF MayStart, Fresh
  <2>. QED BY <1>2, <2>1 DEF SendInv, AllFollowed, Followed
<1>6. PICK why : why = Refusal(kind, TRUE)
  OBVIOUS
<1>7. Sparing
  BY <1>1, SparingSame
<1>8. CASE /\ why # "nil" /\ UNCHANGED <<s, calls, wire, last>>
           /\ o' = PublishOutcome(RecordSend(BeginSend(o, r), r, why), r, why)
  <2>1. why \in Errors \ {"unknown"} /\ why \in Errors \ {"nil"}
    BY <1>6, <1>8 DEF Errors, Refusal
  <2>2. PICK v : v = RecordSend(BeginSend(o, r), r, why)
    OBVIOUS
  <2>3. /\ v \in Ledger /\ OthersKept(o, v, r) /\ v.forgot[r] = o.forgot[r] /\ (r \in Anonymous => v = o)
        /\ r \notin Anonymous => /\ v.ops[r].phase \in {"admitted", "terminal"} /\ ~v.ops[r].published
                                 /\ v.ops[r].err = why
    BY <1>4, <1>5, <2>1, <2>2, Started DEF SendInv
  <2>4. o' = PublishOutcome(v, r, why)
    BY <1>8, <2>2
  <2>5. /\ OthersKept(o, o', r)
        /\ r \notin Anonymous => o'.ops[r].phase = "terminal" /\ o'.ops[r].err # "nil" /\ o'.forgot[r] = o.forgot[r]
    <3>1. CASE r \in Anonymous
      <4>1. o' = v
        BY <2>4, <3>1 DEF PublishOutcome, Named
      <4>. QED BY <2>3, <3>1, <4>1
    <3>2. CASE r \notin Anonymous
      <4>1. /\ o'.forgot = v.forgot /\ o'.ops[r].phase = "terminal" /\ o'.ops[r].err = why /\ OthersKept(v, o', r)
        BY <1>4, <2>1, <2>3, <2>4, <3>2, Publishes
      <4>2. OthersKept(o, o', r)
        BY <2>3, <4>1 DEF OthersKept, Untouched, Forgotten, NoOperation
      <4>. QED BY <2>1, <2>3, <3>2, <4>1, <4>2
    <3>. QED BY <3>1, <3>2
  <2>6. r \notin Anonymous => WireOf(r) = {} /\ IdsOf(r)' = {} /\ eng.applied[r] <= o.forgot[r]
    BY <1>4, <1>5, <1>8, StartsUnsent DEF IdsOf, CallsOf
  <2>7. Calm' /\ QueuedElsewhere(r)
    BY <1>1, <1>7, <1>8, CalmStays, SameQueue DEF SendInv, OnceInv
  <2>8. last' = last /\ wire' = wire /\ calls' \subseteq calls /\ eng'.applied = eng.applied
    BY <1>1, <1>8
  <2>. QED BY <1>4, <2>5, <2>6, <2>7, <2>8, RestsOnce
<1>9. CASE Sends(kind, r, BeginSend(o, r), TRUE) /\ why = "nil"
  <2>1. PICK retry : retry = TRUE
    OBVIOUS
  <2>2. Sends(kind, r, BeginSend(o, r), retry)
    BY <1>9, <2>1
  <2>3. ~s.closed /\ ~s.closing
    BY <1>6, <1>9 DEF Refusal
  <2>. QED BY <1>1, <1>4, <1>5, <1>7, <2>2, <2>3, SentOnceMore
<1>10. CASE SendBreaks(kind, r, BeginSend(o, r))
  BY <1>1, <1>4, <1>5, <1>7, <1>10, BreaksOnce
<1>. QED BY <1>2, <1>3, <1>6, <1>8, <1>9, <1>10 DEF Retry


\* Only an answer of the engine, or an unknown outcome, ends a send.
LEMMA CalmOutcome ==
    ASSUME Wired, Calm, NEW c \in calls, Sending(c), c.res # "none"
    PROVE  \/ c.res = "ok" /\ Outcome(c) = "nil"
           \/ c.res \in {"busy", "unknown"} /\ Outcome(c) \in Errors \ {"nil", "unknown"}
           \/ c.res = "lost" /\ Outcome(c) = "unknown"
<1>1. c.res \in {"ok", "busy", "unknown", "lost"}
  BY DEF Wired
<1>2. c.res = "lost" => ~c.shut
  BY DEF Calm, Lossless, Unstopped
<1>3. CASE c.res = "ok"
  BY <1>3 DEF Outcome
<1>4. CASE c.res = "unknown"
  BY <1>4 DEF Outcome, Errors
<1>5. CASE c.res = "busy"
  BY <1>5 DEF Outcome, Errors
<1>6. CASE c.res = "lost"
  BY <1>2, <1>6 DEF Outcome
<1>. QED BY <1>1, <1>3, <1>4, <1>5, <1>6

LEMMA FinishedOnce ==
    ASSUME SendInv, SendInv', OnceInv, NEW c, CompletionFrame(c), Sending(c), c.res # "none",
           calls' = calls \ {c}, last' = last, wire' = wire, Keeps(s, s'),
           Finished(Answered(o, c), c)
    PROVE  OnceInv'
<1>1. c \in calls /\ UNCHANGED <<eng, todo>>
  BY DEF CompletionFrame
<1>2. PICK r \in Requests : r = c.req
  BY <1>1 DEF SendInv, Called
<1>3. PICK w \in Ledger : /\ w = Answered(o, c) /\ w.ops = o.ops /\ w.forgot = o.forgot
                          /\ c.res = "lost" => w = o
  BY <1>1, <1>2, AnsweredLedger
<1>4. Calm'
  <2>1. \A d \in calls' : \E e \in calls : Heir(e, d)
    BY DEF Heir
  <2>. QED BY <1>1, <2>1, SparingSame, CalmMoves DEF SendInv, OnceInv
<1>5. \/ c.res = "ok" /\ Outcome(c) = "nil"
      \/ c.res \in {"busy", "unknown"} /\ Outcome(c) \in Errors \ {"nil", "unknown"}
      \/ c.res = "lost" /\ Outcome(c) = "unknown"
  BY <1>1, CalmOutcome DEF OnceInv
<1>6. ASSUME r \notin Anonymous, c.res # "lost"
      PROVE  /\ o.ops[r].phase = "admitted" /\ ~o.ops[r].published
             /\ WireOf(r) = {} /\ IdsOf(r)' = {} /\ QueuedAt(r) = {}
             /\ c.res = "ok" /\ o.forgot[r] = 0 => eng.applied[r] > 0
             /\ c.res \in {"busy", "unknown"} => eng.applied[r] <= o.forgot[r]
  <2>1. /\ o.ops[r].phase = "admitted" /\ ~o.ops[r].published /\ QueuedAt(r) = {}
        /\ \A d \in calls : Sending(d) /\ d.req = r => d = c
    BY <1>1, <1>2, <1>6, CallFollowed
  <2>2. IdsOf(r)' = {}
    BY <2>1 DEF IdsOf, CallsOf
  <2>3. c \in CallsOf(r) /\ Once(r)
    BY <1>1, <1>2, <1>6 DEF CallsOf, OnceInv, AllOnce
  <2>4. c.res # "none" /\ c.res # "lost" => WireOf(r) = {}
    BY <2>3 DEF Once
  <2>. QED BY <1>6, <2>1, <2>2, <2>3, <2>4 DEF Once
<1>7. last' = last /\ wire' = wire /\ calls' \subseteq calls /\ eng'.applied = eng.applied
  BY <1>1
<1>8. CASE c.res \in {"busy", "unknown"} /\ o' = w /\ \E kind \in SendKinds : recq' = Append(recq, Recovery(r, kind))
  <2>1. PICK kind \in SendKinds : recq' = Append(recq, Recovery(r, kind))
    BY <1>8
  <2>2. PICK j \in Jobs : j = Recovery(r, kind) /\ j.req = r
    <3>1. [req |-> r, kind |-> kind] \in Jobs
      BY DEF Jobs
    <3>. QED BY <3>1 DEF Recovery
  <2>3. QueuedElsewhere(j.req)
    BY <2>1, <2>2, Enqueues DEF SendInv
  <2>4. QueuedElsewhere(r) /\ OthersKept(o, o', r)
    BY <1>3, <1>8, <2>2, <2>3 DEF OthersKept, Untouched
  <2>5. r \notin Anonymous => o'.ops[r].phase = "admitted" /\ o'.forgot[r] = o.forgot[r]
    BY <1>3, <1>6, <1>8
  <2>. QED BY <1>4, <1>6, <1>7, <1>8, <2>4, <2>5, RestsOnce
<1>9. CASE c.res # "lost" /\ o' = PublishOutcome(w, r, Outcome(c)) /\ recq' = recq
  <2>1. QueuedElsewhere(r) /\ QueuedAt(r)' = QueuedAt(r)
    BY <1>9, SameQueue
  <2>2. CASE r \in Anonymous
    <3>1. o' = w
      BY <1>9, <2>2 DEF PublishOutcome, Named
    <3>2. OthersKept(o, o', r)
      BY <1>3, <3>1 DEF OthersKept, Untouched
    <3>. QED BY <1>4, <1>7, <2>1, <2>2, <3>2, RestsOnce
  <2>3. CASE r \notin Anonymous
    <3>1. PICK err \in Errors \ {"unknown"} : err = Outcome(c)
      BY <1>5, <1>9 DEF Errors
    <3>2. w.ops[r].phase = "admitted" /\ ~w.ops[r].published
      BY <1>3, <1>6, <1>9, <2>3
    <3>3. o'.forgot = w.forgot /\ o'.ops[r].phase = "terminal" /\ o'.ops[r].err = err /\ OthersKept(w, o', r)
      BY <1>9, <2>3, <3>1, <3>2, Publishes
    <3>4. OthersKept(o, o', r) /\ o'.forgot[r] = o.forgot[r]
      BY <1>3, <3>3 DEF OthersKept, Untouched, Forgotten
    <3>5. CASE c.res = "ok"
      <4>1. err = "nil"
        BY <1>5, <3>1, <3>5
      <4>. QED BY <1>4, <1>6, <1>7, <2>1, <2>3, <3>3, <3>4, <3>5, <4>1, RestsOnce
    <3>6. CASE c.res \in {"busy", "unknown"}
      <4>1. err # "nil"
        BY <1>5, <3>1, <3>6
      <4>. QED BY <1>4, <1>6, <1>7, <2>1, <2>3, <3>3, <3>4, <3>6, <4>1, RestsOnce
    <3>. QED BY <1>5, <1>9, <3>5, <3>6
  <2>. QED BY <2>2, <2>3
<1>10. CASE c.res = "lost" /\ o' = o /\ recq' = recq
  <2>1. QueuedElsewhere(NoRequest) /\ last <= last'
    BY <1>10, SameQueue DEF SendInv, Shaped
  <2>2. \A d \in calls' : d.id # last + 1 /\ \E e \in calls : Relic(e, d)
    BY DEF Relic, SendInv, Shaped, Called
  <2>. QED BY <1>1, <1>4, <1>10, <2>1, <2>2, OnceStands
<1>. QED
  <2>1. (IF c.of # 0 THEN "prompt" ELSE c.k) \in SendKinds
    BY DEF Sending, SendKinds
  <2>2. \/ Outcome(c) \in {"resumable", "closed"} /\ o' = w /\ recq' = Append(recq, Recovery(r, IF c.of # 0 THEN "prompt" ELSE c.k))
        \/ o' = PublishOutcome(w, r, Outcome(c)) /\ recq' = recq
    BY <1>2, <1>3 DEF Finished
  <2>3. CASE c.res = "lost"
    <3>1. o' = PublishOutcome(w, r, Outcome(c)) /\ recq' = recq /\ Outcome(c) = "unknown"
      BY <1>5, <2>2, <2>3
    <3>2. o' = o
      BY <1>3, <2>3, <3>1 DEF PublishOutcome
    <3>. QED BY <1>10, <2>3, <3>1, <3>2
  <2>4. CASE c.res # "lost"
    BY <1>5, <1>8, <1>9, <2>1, <2>2, <2>4
  <2>. QED BY <2>3, <2>4


\* The engine is busy: a steer takes the place of the prompt.
LEMMA PromptBusyOnce ==
    ASSUME SendInv, SendInv', OnceInv, NEW c, CompletionFrame(c), PromptBusy(c)
    PROVE  OnceInv'
<1>1. c \in calls /\ c.k = "prompt" /\ c.res = "busy" /\ Ours(c) /\ UNCHANGED <<eng, todo, s, recq>>
  BY DEF PromptBusy, CompletionFrame
<1>2. Sending(c)
  BY <1>1 DEF Sending, SendKinds
<1>3. PICK r \in Requests : r = c.req
  BY <1>1, <1>2 DEF SendInv, Called
<1>4. PICK n : n = [NewCall("steer", 0, c.req, c.retry) EXCEPT !.of = c.n]
  OBVIOUS
<1>5. /\ n.id = last + 1 /\ n.req = r /\ n.k = "steer" /\ n.g = s.gen /\ n.res = "none" /\ n.shut = FALSE
      /\ Sending(n)
  BY <1>3, <1>4 DEF NewCall, Sending, SendKinds
<1>6. calls' = (calls \ {c}) \cup {n} /\ wire' = wire \cup {Request(n)} /\ last' = last + 1
  BY <1>4 DEF PromptBusy
<1>7. last + 1 \in Nat
  BY DEF SendInv, Shaped
<1>8. PICK w \in Ledger : w = SettleWrite(o, c.id) /\ w.ops = o.ops /\ w.forgot = o.forgot
  BY SettlesWrite DEF SendInv, Shaped
<1>9. o' = RegisterWrite(w, last + 1, r)
  BY <1>3, <1>4, <1>5, <1>8 DEF PromptBusy
<1>10. o'.ops = o.ops /\ o'.forgot = o.forgot
  BY <1>7, <1>8, <1>9, Registers
<1>11. OthersKept(o, o', r)
  BY <1>10 DEF OthersKept, Untouched
<1>12. Calm'
  <2>1. Unstopped => Closes = {}
    BY <1>1, <1>2 DEF Unstopped, Ours
  <2>2. Newcomer(n) /\ \A d \in calls : Heir(d, d)
    BY <1>5, <2>1 DEF Newcomer, Heir
  <2>3. \A d \in calls' : Newcomer(d) \/ \E e \in calls : Heir(e, d)
    BY <1>6, <2>2
  <2>. QED BY <1>1, <2>3, SparingSame, KeepsItself, CalmMoves DEF SendInv, OnceInv
<1>13. ASSUME r \notin Anonymous
       PROVE  /\ WireOf(r) = {} /\ QueuedAt(r) = {} /\ \A d \in calls' : Sending(d) /\ d.req = r => d = n
              /\ o'.ops[r].phase = "admitted" /\ o'.forgot[r] = o.forgot[r]
              /\ eng.applied[r] <= o.forgot[r]
  <2>1. /\ o.ops[r].phase = "admitted" /\ QueuedAt(r) = {}
        /\ \A d \in calls : Sending(d) /\ d.req = r => d = c
    BY <1>1, <1>2, <1>3, <1>13, CallFollowed
  <2>2. c \in CallsOf(r) /\ Once(r)
    BY <1>1, <1>2, <1>3, <1>13 DEF CallsOf, OnceInv, AllOnce
  <2>3. WireOf(r) = {} /\ eng.applied[r] <= o.forgot[r]
    BY <1>1, <2>2 DEF Once
  <2>. QED BY <1>6, <1>10, <2>1, <2>3
<1>14. calls' \subseteq calls \cup {n} /\ eng'.applied = eng.applied /\ recq' = recq
  BY <1>1, <1>6
<1>. QED BY <1>5, <1>6, <1>11, <1>12, <1>13, <1>14, WritesOnce

LEMMA CompletesPromptOnce ==
    ASSUME SendInv, SendInv', OnceInv, NEW c, CompletionFrame(c), Sending(c), c.res # "none", CompletesPrompt(c)
    PROVE  OnceInv'
<1>1. Routed(s)
  BY DEF OnceInv, Calm, Aged
<1>2. Keeps(s, Noted(s, c)) /\ Routed(Noted(s, c))
  BY <1>1, KeepsNoted DEF Keeps, Routed
<1>3. PICK n, ok : n = (IF c.of # 0 THEN c.of ELSE c.n) /\ ok = (c.res = "ok")
  OBVIOUS
<1>4. PICK y : y = IF Ours(c) THEN CompletePrompt(Noted(s, c), n, ok) ELSE s
  OBVIOUS
<1>5. Keeps(s, y) /\ Routed(y)
  <2>1. Keeps(Noted(s, c), CompletePrompt(Noted(s, c), n, ok))
    BY <1>2, KeepsCompleted
  <2>. QED BY <1>1, <1>2, <1>4, <2>1 DEF Keeps, Routed
<1>6. s' = Sched(y, o', calls \ {c})
  BY <1>3, <1>4 DEF CompletesPrompt
<1>7. Keeps(s, s')
  BY <1>1, <1>5, <1>6, KeepsSched, KeepsOn
<1>. QED BY <1>7, FinishedOnce DEF CompletesPrompt

LEMMA CompletesSteerOnce ==
    ASSUME SendInv, SendInv', OnceInv, NEW c, CompletionFrame(c), Sending(c), c.res # "none", CompletesSteer(c)
    PROVE  OnceInv'
<1>1. Routed(s)
  BY DEF OnceInv, Calm, Aged
<1>2. Keeps(s, Noted(s, c)) /\ Routed(Noted(s, c))
  BY <1>1, KeepsNoted DEF Keeps, Routed
<1>3. s' = Sched(Noted(s, c), o', calls \ {c})
  BY DEF CompletesSteer
<1>4. Keeps(s, s')
  BY <1>1, <1>2, <1>3, KeepsSched, KeepsOn
<1>. QED BY <1>4, FinishedOnce DEF CompletesSteer

LEMMA CompleteOnce == ASSUME SendInv, SendInv', OnceInv, Complete PROVE OnceInv'
<1>1. PICK c \in calls :
          /\ c.res # "none"
          /\ \/ PromptBusy(c)
             \/ c.k = "prompt" /\ ~Steered(c) /\ CompletesPrompt(c)
             \/ c.k = "steer" /\ c.of # 0 /\ CompletesPrompt(c)
             \/ c.k = "steer" /\ c.of = 0 /\ CompletesSteer(c)
             \/ c.k = "compact" /\ CompletesCompact(c)
             \/ c.k = "state" /\ CompletesState(c)
             \/ c.k = "close" /\ CompletesClose(c)
          /\ fl' = IF c.k = "close" /\ fl.pc = "evict" THEN Free ELSE fl
          /\ UNCHANGED <<eng, evs, hand, net, due, todo>>
  BY DEF Complete
<1>2. CompletionFrame(c)
  BY <1>1 DEF CompletionFrame
<1>3. CASE PromptBusy(c)
  BY <1>2, <1>3, PromptBusyOnce
<1>4. CASE c.k \in SendKinds /\ CompletesPrompt(c)
  BY <1>1, <1>2, <1>4, CompletesPromptOnce DEF Sending
<1>5. CASE c.k \in SendKinds /\ CompletesSteer(c)
  BY <1>1, <1>2, <1>5, CompletesSteerOnce DEF Sending
<1>6. CASE c.k = "compact" /\ CompletesCompact(c)
  BY <1>2, <1>6, CompletesCompactOnce
<1>7. CASE c.k = "state" /\ CompletesState(c)
  BY <1>2, <1>7, CompletesStateOnce
<1>8. CASE c.k = "close" /\ CompletesClose(c)
  BY <1>2, <1>8, CompletesCloseOnce
<1>. QED BY <1>1, <1>3, <1>4, <1>5, <1>6, <1>7, <1>8 DEF SendKinds

-----------------------------------------------------------------------------
(***************************************************************************)
(* Every send happens once.                                                *)
(***************************************************************************)

\* The environment choices of the scenarios: a process that is stopped does not
\* also lose its connection.
StopOrLoss == \A sc \in Scenarios : sc.n["stop"] = 0 \/ sc.n["loss"] = 0

LEMMA OnceInit == StopOrLoss /\ Init => OnceInv
<1>. SUFFICES ASSUME StopOrLoss, Init PROVE OnceInv
  OBVIOUS
<1>1. calls = {} /\ wire = {} /\ recq = <<>> /\ todo \in Scenarios
  BY DEF Init
<1>2. Wired
  BY <1>1 DEF Wired
<1>3. \A r \in Requests : o.ops[r] = NoOperation /\ o.forgot[r] = 0 /\ eng.applied[r] = 0
  BY DEF Init, NewOwner
<1>4. ASSUME NEW r \in Requests \ Anonymous PROVE Once(r)
  <2>1. WireOf(r) = {} /\ CallsOf(r) = {} /\ QueuedAt(r) = {}
    BY <1>1 DEF WireOf, CallsOf, QueuedAt
  <2>2. o.ops[r].phase = "none" /\ o.forgot[r] = 0 /\ eng.applied[r] = 0
    BY <1>3 DEF NoOperation
  <2>. QED BY <2>1, <2>2 DEF Once
<1>5. Aged
  BY <1>1 DEF Aged, Routed, RouteFields, Init, NewSession
<1>6. Closes = {}
  BY <1>1 DEF Closes
<1>7. Lossless \/ Unstopped
  BY <1>1, <1>6 DEF Lossless, Unstopped, StopOrLoss
<1>. QED BY <1>2, <1>4, <1>5, <1>7 DEF OnceInv, AllOnce, Calm

LEMMA OnceStep == SendInv /\ SendInv' /\ OnceInv /\ [Next]_vars => OnceInv'
<1>. SUFFICES ASSUME SendInv, SendInv', OnceInv, [Next]_vars PROVE OnceInv'
  OBVIOUS
<1>1. CASE UNCHANGED vars
  BY <1>1, KeepsItself, SessionStepOnce DEF vars
<1>2. CASE Client
  <2>1. ASSUME NEW r \in todo.reqs, NEW kind \in {"prompt", "steer"}, Send(kind, r) PROVE OnceInv'
    BY <2>1, SendOnce DEF SendKinds
  <2>. QED BY <1>2, <2>1, CompactOnce, QueryStateOnce, RespondOnce, ReopenOnce, DetachOnce, StopOnce DEF Client
<1>3. CASE Process
  <2>1. CASE Ingest \/ EvictTimeout
    BY <2>1, KeepsItself, SessionStepOnce DEF Ingest, EvictTimeout
  <2>. QED BY <1>3, <2>1, CompleteOnce, DispatchOnce, InvalidateEpochOnce, StartJobOnce, AcquireExistingOnce,
              AcquireOpensOnce, AcquireFailsOnce, PublishOnce, RetryOnce, EvictOnce, ConfirmTimeoutOnce DEF Process
<1>4. CASE Engine
  BY <1>4, EngineHandlesOnce, EngineOnce, EngineCompactedOnce DEF Engine
<1>5. CASE Loss
  BY <1>5, LossOnce
<1>6. CASE Connect
  BY <1>6, ConnectOnce
<1>. QED BY <1>1, <1>2, <1>3, <1>4, <1>5, <1>6 DEF Next

LEMMA OnceInvSentOnce == SendInv /\ OnceInv => SentOnce
<1>. SUFFICES ASSUME SendInv, OnceInv, NEW r \in Requests, Named(r)
              PROVE  /\ eng.applied[r] <= 1 + o.forgot[r]
                     /\ o.forgot[r] = 0 /\ o.ops[r].phase = "terminal" =>
                           (o.ops[r].err = "nil") = (eng.applied[r] > 0)
  BY DEF SentOnce
<1>1. Once(r) /\ o.forgot[r] \in Nat /\ eng.applied[r] \in Nat
  BY DEF OnceInv, AllOnce, Named, SendInv, Shaped, Ledger, Counts
<1>. QED BY <1>1 DEF Once

\* A request id reaches the engine at most once until the ledger displaces it, and
\* the outcome it gets is true (resumeAndRetry, publishDetachedOutcomeWithPolicy):
\* over busy answers, unloads, losses, reopenings and evictions, for every run in
\* which the process does not both stop the session and lose its connection.
THEOREM SendsHappenOnce == ASSUME StopOrLoss PROVE Spec => []SentOnce
<1>1. Init => SendInv /\ OnceInv
  BY SendInit, OnceInit
<1>2. SendInv /\ OnceInv /\ [Next]_vars => (SendInv /\ OnceInv)'
  BY SendStep, OnceStep
<1>3. SendInv /\ OnceInv => SentOnce
  BY OnceInvSentOnce
<1>. QED BY <1>1, <1>2, <1>3, PTL DEF Spec

=============================================================================
