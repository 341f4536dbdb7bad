---------------------------- MODULE ChatCatalog ----------------------------
(***************************************************************************)
(* The stored chats of one workspace (internal/cursorstore) and everybody  *)
(* who creates, binds or removes them: the HTTP handlers of internal/api   *)
(* (chat.go, workspace.go, session_adoption.go), the watcher that enrols   *)
(* the engine's sessions (enrollment.go), and the opening of a chat, with  *)
(* the migration of old rows and the gate of in-place files (CursorStore   *)
(* of internal/wsbridge/bridge.go).                                        *)
(*                                                                         *)
(* They exclude each other with three kinds of locks: adoptionMu,          *)
(* chatLifecycleMu and the per-chat permit of the session manager.  A row  *)
(* says which durable session it is bound to, on which terms, and whether  *)
(* its file is the copy this server owns.                                  *)
(***************************************************************************)
EXTENDS Integers, FiniteSets

CONSTANTS
    Requests,    \* what goes on: requests, openings and watcher ticks
    Chats,       \* chat ids, numbered in the order they are given out
    Durables     \* durable session ids of the workspace

ASSUME CatalogAssumption ==
    /\ IsFiniteSet(Requests) /\ IsFiniteSet(Durables) /\ IsFiniteSet(Chats)
    /\ Chats \subseteq Nat \ {0} /\ 0 \notin Durables /\ 0 \notin Requests

Unbound == 0
Nobody == 0

Kinds == {"create", "open", "delete", "drop", "adopt", "inplace", "tick"}

VARIABLES
    store,     \* State in memory: rows, tombstones, whether the workspace exists
    disk,      \* the same in the state file
    job,       \* per request its kind and progress
    locks,     \* holders of adoptionMu, chatLifecycleMu and the permits
    marks,     \* chatDeleting, and chatLifecycleGeneration of the chats
    bound,     \* per chat the durable session its live session has, or Unbound
    live,      \* durable sessions the engine has open
    copies,    \* durable sessions with a copy in the owned directory
    force,     \* per chat its in-place authorization
    tally,     \* history: acknowledged removals, forces given over REST, gates passed with them
    bad        \* failed writes and process stops left

catalogVars == <<store, disk, job, locks, marks, bound, live, copies, force, tally, bad>>

NoRow == [kind |-> "none", d |-> Unbound, own |-> FALSE, auto |-> FALSE]
Row(kind, d, own, auto) == [kind |-> kind, d |-> d, own |-> own, auto |-> auto]

\* The rows a state file may have: only a chat of this server's own making may not
\* have a session yet, and only another's session is enrolled or copied.
Foreign(row) == row.kind \in {"legacy", "adopted", "inplace"}
Sound(row) == (row.own \/ row.auto => Foreign(row)) /\ (Foreign(row) => row.d \in Durables)
Stored ==
    {row \in [kind : {"none", "native", "legacy", "adopted", "inplace", "gone"}, d : Durables \cup {Unbound},
              own : BOOLEAN, auto : BOOLEAN] : Sound(row)}

Exists(c) == store.rows[c].kind \notin {"none", "gone"}
NextChat == {c \in Chats : store.rows[c].kind = "none" /\ \A b \in Chats : b < c => store.rows[b].kind # "none"}
Waiting(kind) == [kind |-> kind, pc |-> "start", c |-> 0, d |-> Unbound, ver |-> 0, todo |-> {}, forced |-> FALSE]
RequestEnded(r) == job[r].pc = "done"

CatalogInit(kinds, first, n) ==
    /\ store = [rows |-> [c \in Chats |-> IF c = 1 THEN first ELSE NoRow], tomb |-> {}, ws |-> TRUE]
    /\ disk = store
    /\ job = [r \in Requests |-> Waiting(kinds[r])]
    /\ locks = [adopt |-> Nobody, life |-> Nobody, permit |-> [c \in Chats |-> Nobody]]
    /\ marks = [deleting |-> {}, ver |-> [c \in Chats |-> 0]]
    /\ bound = [c \in Chats |-> Unbound]
    /\ live \in {{}, Durables} /\ copies = {d \in Durables : first.own /\ first.d = d}
    /\ force = [c \in Chats |-> [armed |-> FALSE, owner |-> Nobody]]
    /\ tally = [gone |-> {}, rest |-> 0, stray |-> 0]
    /\ bad = n

Goes(r, pc) == job' = [job EXCEPT ![r].pc = pc]
Is(r, kind, pc) == job[r].kind = kind /\ job[r].pc = pc

(***************************************************************************)
(* flushLocked: the state file first, then memory.  A failure leaves memory*)
(* as it was, and the file too unless it had been renamed already.         *)
(***************************************************************************)
Flushed(new) == store' = new /\ disk' = new /\ UNCHANGED bad
FlushFails(new) ==
    /\ bad > 0 /\ bad' = bad - 1
    /\ disk' \in {disk, new} /\ UNCHANGED store

Put(c, row) == [store EXCEPT !.rows[c] = row]

(* recordEnrollmentTombstone of the chats that are removed *)
Tombs(cs) == {store.rows[c].d : c \in {c \in cs : store.rows[c].auto}} \ {Unbound}
Without(cs) ==
    [store EXCEPT !.rows = [c \in Chats |-> IF c \in cs THEN [NoRow EXCEPT !.kind = "gone"] ELSE store.rows[c]],
                  !.tomb = @ \cup Tombs(cs)]

NoLocks == UNCHANGED <<locks, marks>>
NoEngine == UNCHANGED <<bound, live>>
NoStore == UNCHANGED <<store, disk, bad>>
NoFiles == UNCHANGED <<copies, force, tally>>

Release(r) ==
    locks' = [adopt |-> IF locks.adopt = r THEN Nobody ELSE locks.adopt,
              life |-> IF locks.life = r THEN Nobody ELSE locks.life,
              permit |-> [c \in Chats |-> IF locks.permit[c] = r THEN Nobody ELSE locks.permit[c]]]

(* AuthorizeInPlaceOpen *)
Authorize(c, forced) ==
    /\ force' = IF forced THEN [force EXCEPT ![c] = [armed |-> TRUE, owner |-> Nobody]] ELSE force
    /\ tally' = IF forced THEN [tally EXCEPT !.rest = @ + 1] ELSE tally

(***************************************************************************)
(* handleCreateChat                                                        *)
(***************************************************************************)
CreateChat(r) ==
    /\ Is(r, "create", "start") /\ Goes(r, "done")
    /\ \/ store.ws /\ \E c \in NextChat :
             LET new == Put(c, Row("native", Unbound, FALSE, FALSE)) IN Flushed(new) \/ FlushFails(new)
       \/ ~store.ws /\ NoStore
    /\ NoLocks /\ NoEngine /\ NoFiles

(***************************************************************************)
(* Opening a chat: prepareChatVersion, the permit, CursorForOpen, the      *)
(* engine, UpdateIdentity, and the same check again before publication     *)
(***************************************************************************)
(* releaseInPlaceForceAttempt takes back what this attempt still owns *)
Disarm(r) == [c \in Chats |-> IF force[c].owner = r THEN [armed |-> FALSE, owner |-> Nobody] ELSE force[c]]
OpenEnds(r) == Goes(r, "done") /\ Release(r) /\ force' = Disarm(r)

OpenPrepare(r) ==
    /\ Is(r, "open", "start") /\ locks.life = Nobody
    /\ \E c \in Chats : \E forced \in BOOLEAN :
          IF Exists(c) /\ c \notin marks.deleting
          THEN /\ job' = [job EXCEPT ![r].pc = "enter", ![r].c = c, ![r].ver = marks.ver[c], ![r].forced = forced]
               /\ forced => store.rows[c].kind = "inplace"
               \* beginInPlaceForceAttempt: the first to arm owns the bit
               /\ force' = IF forced /\ ~force[c].armed THEN [force EXCEPT ![c] = [armed |-> TRUE, owner |-> r]] ELSE force
          ELSE ~forced /\ Goes(r, "done") /\ UNCHANGED force
    /\ NoLocks /\ NoEngine /\ NoStore /\ UNCHANGED <<copies, tally>>

OpenEnter(r) ==
    LET c == job[r].c IN
    /\ Is(r, "open", "enter") /\ locks.permit[c] = Nobody
    /\ IF bound[c] # Unbound      \* the live session is joined
       THEN OpenEnds(r)
       ELSE locks' = [locks EXCEPT !.permit[c] = r] /\ Goes(r, "cursor") /\ UNCHANGED force
    /\ UNCHANGED marks /\ NoEngine /\ NoStore /\ UNCHANGED <<copies, tally>>

(* MigrateLegacySession: the copy, then the row if it is still the same *)
OpenMigrate(r) ==
    LET c == job[r].c
        row == store.rows[c]
        new == Put(c, [row EXCEPT !.kind = "adopted", !.own = TRUE])
    IN  /\ Is(r, "open", "cursor") /\ Exists(c)
        /\ row.kind = "legacy" \/ (row.kind = "adopted" /\ ~row.own)
        /\ \/ /\ copies' = copies \cup {row.d}
              /\ \/ Flushed(new) /\ Goes(r, "engine") /\ UNCHANGED <<force, locks>>
                 \/ FlushFails(new) /\ OpenEnds(r)
           \/ OpenEnds(r) /\ NoStore /\ UNCHANGED copies      \* the source is not valid, or the copies differ
        /\ UNCHANGED marks /\ NoEngine /\ UNCHANGED tally

(* Wrong: whoever comes to the gate takes the armed bit. *)
TakesAnyForce(r, c) == force[c].armed

(* The bit of another attempt is left alone *)
MayForce(r, c) == force[c].armed /\ force[c].owner \in {Nobody, r}

(* An in-place file: forced, or nobody may have written it for a while;    *)
(* then a snapshot is taken.  Enrolled chats are not gated here            *)
OpenGate(r) ==
    LET c == job[r].c
        row == store.rows[c]
    IN  /\ Is(r, "open", "cursor")
        /\ row.kind \notin {"legacy", "adopted"} \/ row.own
        /\ IF ~Exists(c) THEN OpenEnds(r) /\ UNCHANGED tally
           ELSE IF row.kind # "inplace" \/ row.auto
           THEN Goes(r, "engine") /\ UNCHANGED <<force, locks, tally>>
           ELSE IF MayForce(r, c)
           THEN /\ force' = [force EXCEPT ![c] = [armed |-> FALSE, owner |-> Nobody]]
                /\ tally' = IF job[r].forced THEN tally ELSE [tally EXCEPT !.stray = @ + 1]
                /\ Goes(r, "engine") /\ UNCHANGED locks
           ELSE \/ Goes(r, "engine") /\ UNCHANGED <<force, locks, tally>>
                \/ OpenEnds(r) /\ UNCHANGED tally      \* session-active
        /\ UNCHANGED <<marks, copies>> /\ NoEngine /\ NoStore

OpenEngine(r) ==
    LET d == store.rows[job[r].c].d IN
    /\ Is(r, "open", "engine")
    /\ \/ \E e \in IF d # Unbound THEN {d} ELSE Durables \ live :
             live' = live \cup {e} /\ job' = [job EXCEPT ![r].pc = "persist", ![r].d = e] /\ UNCHANGED <<force, locks>>
       \/ OpenEnds(r) /\ UNCHANGED live
    /\ UNCHANGED <<marks, bound>> /\ NoStore /\ UNCHANGED <<copies, tally>>

(* discardOpened: an enrolled session is only left *)
Discard(r) == live' = IF store.rows[job[r].c].auto THEN live ELSE live \ {job[r].d}

OpenPersist(r) ==
    LET c == job[r].c
        new == [store EXCEPT !.rows[c].d = job[r].d]
    IN  /\ Is(r, "open", "persist")
        /\ \/ /\ Exists(c)
              /\ Flushed(new) /\ Goes(r, "publish") /\ UNCHANGED <<live, force, locks>>
           \/ /\ IF Exists(c) THEN FlushFails(new) ELSE NoStore
              /\ OpenEnds(r) /\ Discard(r)
        /\ UNCHANGED <<marks, bound, copies, tally>>

OpenPublish(r) ==
    LET c == job[r].c IN
    /\ Is(r, "open", "publish") /\ locks.life = Nobody
    /\ IF Exists(c) /\ c \notin marks.deleting /\ marks.ver[c] = job[r].ver
       THEN bound' = [bound EXCEPT ![c] = job[r].d] /\ UNCHANGED live
       ELSE Discard(r) /\ UNCHANGED bound
    /\ OpenEnds(r)
    /\ UNCHANGED <<marks, copies, tally>> /\ NoStore

(***************************************************************************)
(* StopContext: the permit, and the close of the live session              *)
(***************************************************************************)
Closed(c) ==
    /\ bound' = [bound EXCEPT ![c] = Unbound]
    /\ live' = IF store.rows[c].auto THEN live ELSE live \ {bound[c]}

Marked(cs) == marks' = [deleting |-> marks.deleting \cup cs,
                        ver |-> [c \in Chats |-> IF c \in cs THEN marks.ver[c] + 1 ELSE marks.ver[c]]]
Unmarked(cs) == marks' = [marks EXCEPT !.deleting = @ \ cs]

(***************************************************************************)
(* handleDeleteChat                                                        *)
(***************************************************************************)
DeleteMark(r) ==
    /\ Is(r, "delete", "start") /\ locks.life = Nobody
    /\ \E c \in Chats :
          IF Exists(c) /\ c \notin marks.deleting
          THEN job' = [job EXCEPT ![r].pc = "stop", ![r].c = c] /\ Marked({c})
          ELSE Goes(r, "done") /\ UNCHANGED marks
    /\ UNCHANGED locks /\ NoEngine /\ NoStore /\ NoFiles

(* The permit, and how long a handler waits for it *)
DeleteStop(r) ==
    LET c == job[r].c IN
    /\ Is(r, "delete", "stop")
    /\ \/ locks.permit[c] = Nobody /\ Closed(c) /\ Goes(r, "commit") /\ UNCHANGED marks
       \/ /\ locks.permit[c] # Nobody /\ locks.life = Nobody
          /\ Unmarked({c}) /\ Goes(r, "done") /\ NoEngine
    /\ UNCHANGED locks /\ NoStore /\ NoFiles

DeleteCommit(r) ==
    LET c == job[r].c IN
    /\ Is(r, "delete", "commit") /\ locks.life = Nobody
    /\ \/ Flushed(Without({c})) /\ tally' = [tally EXCEPT !.gone = @ \cup Tombs({c})]
       \/ FlushFails(Without({c})) /\ UNCHANGED tally
    /\ Unmarked({c}) /\ Goes(r, "done")
    /\ UNCHANGED <<locks, copies, force>> /\ NoEngine

(***************************************************************************)
(* handleDeleteWorkspace, under chatLifecycleMu from beginning to end      *)
(***************************************************************************)
Rows == {c \in Chats : Exists(c)}

DropMark(r) ==
    /\ Is(r, "drop", "start") /\ locks.life = Nobody
    /\ locks' = [locks EXCEPT !.life = r]
    /\ Marked(Rows)
    /\ job' = [job EXCEPT ![r].pc = "stop", ![r].todo = Rows]
    /\ NoEngine /\ NoStore /\ NoFiles

(* One chat after the other, each with its own deadline; when one could    *)
(* not be stopped in time the request fails at the end                     *)
DropStop(r) ==
    /\ job[r].kind = "drop" /\ job[r].pc \in {"stop", "late"}
    /\ \E c \in job[r].todo :
          \/ /\ locks.permit[c] = Nobody /\ Closed(c)
             /\ job' = [job EXCEPT ![r].todo = @ \ {c}]
          \/ /\ locks.permit[c] # Nobody /\ NoEngine
             /\ job' = [job EXCEPT ![r].todo = @ \ {c}, ![r].pc = "late"]
    /\ NoLocks /\ NoStore /\ NoFiles

DropCommit(r) ==
    LET new == [Without(Rows) EXCEPT !.ws = FALSE] IN
    /\ job[r].kind = "drop" /\ job[r].pc \in {"stop", "late"} /\ job[r].todo = {}
    /\ \/ (job[r].pc = "late" \/ ~store.ws) /\ NoStore /\ UNCHANGED tally
       \/ /\ job[r].pc = "stop" /\ store.ws /\ Flushed(new)
          /\ tally' = [tally EXCEPT !.gone = @ \cup Tombs(Rows)]
       \/ job[r].pc = "stop" /\ store.ws /\ FlushFails(new) /\ UNCHANGED tally
    /\ Goes(r, "done") /\ Release(r) /\ marks' = [marks EXCEPT !.deleting = {}]
    /\ NoEngine /\ UNCHANGED <<copies, force>>

(***************************************************************************)
(* handleAdoptWorkspaceSession and handleOpenWorkspaceSession              *)
(***************************************************************************)
RowsOf(d) == {c \in Chats : Exists(c) /\ store.rows[c].d = d}

(* The rows that already are what the request asks for *)
Settled(r, d) ==
    {c \in RowsOf(d) : IF job[r].kind = "adopt" THEN store.rows[c].own /\ d \in copies
                       ELSE store.rows[c].auto \/ store.rows[c].kind = "inplace"}

(* The session is looked up: a settled row ends the request, another row   *)
(* of the session is taken over, or a new one made                         *)
LookupEnds(r, d, forced) ==
    /\ IF ~store.ws THEN UNCHANGED <<force, tally>>
       ELSE \E c \in Settled(r, d) : Authorize(c, forced /\ ~store.rows[c].auto)
    /\ Goes(r, "done") /\ NoLocks

LookupGoes(r, d, forced) ==
    /\ store.ws /\ Settled(r, d) = {}
    /\ \E c \in IF RowsOf(d) = {} THEN {0} ELSE RowsOf(d) :
          job' = [job EXCEPT ![r].pc = IF c = 0 THEN "new" ELSE "check",
                             ![r].c = c, ![r].d = d, ![r].forced = forced]
    /\ locks' = [locks EXCEPT !.adopt = r]
    /\ UNCHANGED <<marks, force, tally>>

Lookup(r) ==
    /\ job[r].kind \in {"adopt", "inplace"} /\ job[r].pc = "start" /\ locks.adopt = Nobody
    /\ \E d \in Durables : \E forced \in BOOLEAN :
          /\ forced => job[r].kind = "inplace"
          /\ LookupEnds(r, d, forced) \/ LookupGoes(r, d, forced)
    /\ NoEngine /\ NoStore /\ UNCHANGED copies

(* adoptExistingChat and openExistingChat up to the permit; an opening may *)
(* have migrated the row since                                             *)
TakeOverCheck(r) ==
    LET c == job[r].c
        adopted == job[r].kind = "adopt" /\ store.rows[c].own /\ store.rows[c].d \in copies
    IN
    /\ job[r].pc = "check" /\ locks.life = Nobody
    /\ IF Exists(c) /\ c \notin marks.deleting /\ ~adopted
       THEN Goes(r, "enter") /\ marks' = [marks EXCEPT !.ver[c] = @ + 1] /\ UNCHANGED locks
       ELSE Goes(r, "done") /\ Release(r) /\ UNCHANGED marks
    /\ NoEngine /\ NoStore /\ NoFiles

TakeOverEnter(r) ==
    LET c == job[r].c IN
    /\ job[r].kind \in {"adopt", "inplace"} /\ job[r].pc = "enter"
    /\ locks.permit[c] = Nobody
    /\ locks' = [locks EXCEPT !.permit[c] = r] /\ Closed(c) /\ Goes(r, "install")
    /\ UNCHANGED marks /\ NoStore /\ NoFiles

(* Adopt copies before the row says so *)
TakeOverInstall(r) ==
    LET c == job[r].c
        row == store.rows[c]
        d == job[r].d
        new == IF job[r].kind = "adopt" THEN Put(c, [row EXCEPT !.kind = "adopted", !.own = TRUE, !.d = d])
               ELSE IF row.kind = "native" THEN Put(c, [row EXCEPT !.d = d])
               ELSE Put(c, [row EXCEPT !.kind = "inplace", !.own = FALSE, !.d = d])
    IN  /\ job[r].pc = "install"
        /\ IF job[r].kind = "adopt" THEN copies' = copies \cup {d} /\ UNCHANGED <<force, tally>>
           ELSE UNCHANGED copies /\ Authorize(c, job[r].forced /\ row.kind # "native")
        /\ IF Exists(c) THEN Flushed(new) \/ FlushFails(new) ELSE NoStore
        /\ Goes(r, "done") /\ Release(r)
        /\ UNCHANGED marks /\ NoEngine

NewRow(r) ==
    /\ job[r].pc = "new"
    /\ \E c \in NextChat :
       LET adopt == job[r].kind = "adopt"
           new == Put(c, Row(IF adopt THEN "adopted" ELSE "inplace", job[r].d, adopt, FALSE))
       IN  /\ IF adopt THEN copies' = copies \cup {job[r].d} /\ UNCHANGED <<force, tally>>
              ELSE UNCHANGED copies /\ Authorize(c, job[r].forced)
           /\ IF store.ws THEN Flushed(new) \/ FlushFails(new) ELSE NoStore
    /\ Goes(r, "done") /\ Release(r)
    /\ UNCHANGED marks /\ NoEngine

(* The copy or the source was refused *)
Refuse(r) ==
    /\ job[r].pc \in {"new", "install"}
    /\ Goes(r, "done") /\ Release(r)
    /\ UNCHANGED marks /\ NoEngine /\ NoStore /\ NoFiles

(***************************************************************************)
(* A tick of the watcher: the engine's sessions, then reconcileEnrollment  *)
(***************************************************************************)
TickLists(r) ==
    /\ Is(r, "tick", "start")
    /\ job' = [job EXCEPT ![r].pc = "adopt", ![r].todo = live]
    /\ NoLocks /\ NoEngine /\ NoStore /\ NoFiles

(* Wrong: the tick does not exclude the removal of chats. *)
TickLocksLess(r) ==
    /\ Is(r, "tick", "adopt") /\ locks.adopt = Nobody
    /\ locks' = [locks EXCEPT !.adopt = r] /\ Goes(r, "next")
    /\ UNCHANGED marks /\ NoEngine /\ NoStore /\ NoFiles

TickLocks(r) ==
    /\ \/ /\ Is(r, "tick", "adopt") /\ locks.adopt = Nobody
          /\ locks' = [locks EXCEPT !.adopt = r] /\ Goes(r, "life")
       \/ /\ Is(r, "tick", "life") /\ locks.life = Nobody
          /\ locks' = [locks EXCEPT !.life = r] /\ Goes(r, "next")
    /\ UNCHANGED marks /\ NoEngine /\ NoStore /\ NoFiles

(* One session after the other: EnrollmentDeleted, and the workspace *)
TickNext(r) ==
    /\ Is(r, "tick", "next")
    /\ \/ job[r].todo = {} /\ Goes(r, "done") /\ Release(r) /\ NoStore
       \/ \E d \in job[r].todo :
             IF d \in store.tomb
             THEN job' = [job EXCEPT ![r].todo = @ \ {d}] /\ NoStore /\ UNCHANGED locks
             ELSE \/ /\ IF store.ws THEN NoStore ELSE Flushed([store EXCEPT !.ws = TRUE])
                     /\ job' = [job EXCEPT ![r].pc = "match", ![r].d = d, ![r].todo = @ \ {d}]
                     /\ UNCHANGED locks
                  \/ ~store.ws /\ FlushFails([store EXCEPT !.ws = TRUE]) /\ Goes(r, "done") /\ Release(r)
    /\ UNCHANGED marks /\ NoEngine /\ NoFiles

(* A row of the session is refreshed, unless it is being deleted; for an   *)
(* enrolled one the engine's path counts.  No row: one is made             *)
TickMatch(r) ==
    LET d == job[r].d IN
    /\ Is(r, "tick", "match")
    /\ \/ RowsOf(d) = {} /\ Goes(r, "save") /\ NoStore /\ UNCHANGED locks
       \/ \E c \in RowsOf(d) :
             LET new == Put(c, [store.rows[c] EXCEPT !.own = FALSE]) IN
             IF c \in marks.deleting \/ ~store.rows[c].auto \/ ~store.rows[c].own
             THEN Goes(r, "next") /\ NoStore /\ UNCHANGED locks
             ELSE \/ Flushed(new) /\ Goes(r, "next") /\ UNCHANGED locks
                  \/ FlushFails(new) /\ Goes(r, "done") /\ Release(r)
    /\ UNCHANGED marks /\ NoEngine /\ NoFiles

TickSave(r) ==
    /\ Is(r, "tick", "save")
    /\ \E c \in NextChat :
       LET new == Put(c, Row("inplace", job[r].d, FALSE, TRUE)) IN
          \/ store.ws /\ Flushed(new) /\ Goes(r, "next") /\ UNCHANGED locks
          \/ /\ IF store.ws THEN FlushFails(new) ELSE NoStore
             /\ Goes(r, "done") /\ Release(r)
    /\ UNCHANGED marks /\ NoEngine /\ NoFiles

(***************************************************************************)
(* The process stops and is started again: OpenWithClock reads the file    *)
(***************************************************************************)
Restart ==
    /\ bad > 0 /\ bad' = bad - 1
    /\ store' = disk /\ UNCHANGED disk
    /\ job' = [r \in Requests |-> IF job[r].pc = "start" THEN job[r] ELSE [job[r] EXCEPT !.pc = "done"]]
    /\ locks' = [adopt |-> Nobody, life |-> Nobody, permit |-> [c \in Chats |-> Nobody]]
    /\ marks' = [deleting |-> {}, ver |-> [c \in Chats |-> 0]]
    /\ bound' = [c \in Chats |-> Unbound]
    /\ force' = [c \in Chats |-> [armed |-> FALSE, owner |-> Nobody]]
    /\ UNCHANGED <<live, copies, tally>>

CatalogNext ==
    \/ Restart
    \/ \E r \in Requests :
          \/ CreateChat(r)
          \/ OpenPrepare(r) \/ OpenEnter(r) \/ OpenMigrate(r) \/ OpenGate(r) \/ OpenEngine(r)
          \/ OpenPersist(r) \/ OpenPublish(r)
          \/ DeleteMark(r) \/ DeleteStop(r) \/ DeleteCommit(r)
          \/ DropMark(r) \/ DropStop(r) \/ DropCommit(r)
          \/ Lookup(r) \/ TakeOverCheck(r) \/ TakeOverEnter(r) \/ TakeOverInstall(r) \/ NewRow(r) \/ Refuse(r)
          \/ TickLists(r) \/ TickLocks(r) \/ TickNext(r) \/ TickMatch(r) \/ TickSave(r)

CatalogSpec ==
    /\ \E kinds \in [Requests -> Kinds], first \in Stored, n \in Nat : CatalogInit(kinds, first, n)
    /\ [][CatalogNext]_catalogVars

(* Where everything may rest: no request is left waiting for a lock *)
CatalogDone == \A r \in Requests : RequestEnded(r)

(* What was removed stays removed (enrollment.go:57): once the removal of  *)
(* an enrolled chat has been acknowledged, no tick, failed write or        *)
(* restart brings back an enrolled chat of that session; no session has    *)
(* two enrolled chats; and a row that names the owned copy has one.        *)
EnrollmentSound ==
    /\ \A c \in Rows : store.rows[c].auto => store.rows[c].d \notin tally.gone
    /\ \A b, c \in Rows : store.rows[b].auto /\ store.rows[c].auto /\ store.rows[b].d = store.rows[c].d => b = c
    /\ \A c \in Rows : store.rows[c].own => store.rows[c].d \in copies

(* A force is good for one opening (CursorForOpen, bridge.go:2348): an     *)
(* opening that was not asked to force passes the gate only with a force   *)
(* that was given over REST, each at most once, and the force of a create  *)
(* attempt does not outlive that attempt.                                  *)
ForceSpent ==
    /\ tally.stray <= tally.rest
    /\ \A c \in Chats : force[c].owner # Nobody => ~RequestEnded(force[c].owner)
=============================================================================
