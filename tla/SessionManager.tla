--------------------------- MODULE SessionManager ---------------------------
(***************************************************************************)
(* Manager of internal/session/manager.go: which provider route serves     *)
(* which chat.  Operations of one chat (acquisitions, reconciliations,     *)
(* Stop, the deletion of internal/api/chat.go) own the chat one after the  *)
(* other (KeyedFlight); an open_session whose caller has gone goes on by   *)
(* itself, and so do the connection, the event loop and the engine.        *)
(*                                                                         *)
(* A step is a critical section of Manager.mu with the code up to the next *)
(* wait.  What a session does with its route is in Session.  External      *)
(* (enrolled) routes, in-place files and quarantine are left out.          *)
(***************************************************************************)
EXTENDS KeyedFlight, FiniteSets

CONSTANTS
    Scenarios,         \* bound: the operations and how often each fault happens
    RetiredRouteLimit, \* Config.RetiredRouteLimit
    RetryAttempts      \* Config.RetryAttempts

VARIABLES
    mgr,     \* Manager
    ses,     \* the sessions created so far
    job,     \* the operations
    ops,     \* open_session operations, with and without a caller
    calls,   \* correlations of the RPC client
    wire,    \* requests the engine has not handled
    eng,     \* the engine's registry of sessions (external)
    net,     \* the connection
    notes,   \* epoch changes not yet reported to the manager
    store,   \* chat records (cursorstore) and the API's lifecycle generation
    told,    \* chats whose browser saw an error it must act on
    last,    \* newest identifier
    todo     \* the scenario, with the faults left

mgrVars == <<mgr, ses, job, ops, calls, wire, eng, net, notes, store, told, last, todo>>
vars == <<flightVars, mgrVars>>

Chats == Keys
None == 0
NoPath == <<>>
Kinds == {"connect", "auto", "media", "reconcile", "stop", "delete", "shutdown", "off"}
Acquires == {"connect", "auto", "media", "reconcile"}
Faults == {"lose", "restart", "cancel", "slow", "refuse", "unload", "dial"}

ASSUME ScenarioAssumption ==
    \A sc \in Scenarios :
        /\ sc \in [n : [Faults -> Nat], kind : [Jobs -> Kinds], chat : [Jobs -> Chats],
                   open : SUBSET Chats, stored : SUBSET Chats,
                   limit : Nat \ {0}, mute : BOOLEAN, held : BOOLEAN]
        /\ IsFiniteSet(sc.open)

(* Config.DetachedOpenLimit *)
DetachedOpenLimit == todo.limit

Spend(f) == todo.n[f] > 0 /\ todo' = [todo EXCEPT !.n[f] = @ - 1]

-----------------------------------------------------------------------------
(* The start: the chats of open have a session a browser holds, the ones of
   stored a session file. *)

NewJob(kind, c) ==
    [kind |-> kind, chat |-> c, pc |-> "new", ver |-> 0, sg |-> 0, ex |-> None, s |-> None,
     try |-> 1, only |-> FALSE, fresh |-> FALSE, got |-> <<>>, rs |-> {}, ok |-> TRUE]

NewSes(c, r, e, p, held) ==
    [chat |-> c, route |-> r, ep |-> e, path |-> p, st |-> "live", closing |-> FALSE,
     held |-> held, checked |-> TRUE]

Numbered(C) ==
    CHOOSE f \in [1..Cardinality(C) -> C] : \A c \in C : \E n \in 1..Cardinality(C) : f[n] = c

Init ==
    /\ FlightInit
    /\ todo \in Scenarios
    /\ LET chat == Numbered(todo.open)
           N == Cardinality(todo.open)
           at(c) == CHOOSE n \in 1..N : chat[n] = c
       IN  /\ ses = [n \in 1..N |-> NewSes(chat[n], n, 1, <<chat[n], 0>>, todo.held)]
           /\ mgr = [byChat |-> [c \in Chats |-> IF c \in todo.open THEN at(c) ELSE None],
                     byRoute |-> [n \in 1..N |-> n],
                     cleanup |-> {}, retired |-> {}, retiring |-> {}, invalid |-> {},
                     slotGen |-> [c \in Chats |-> 0], closed |-> FALSE,
                     fence |-> [c \in Chats |-> None], slots |-> 0,
                     refused |-> {}]   \* ghost: routes acquire may not publish
           /\ eng = [live |-> {[path |-> <<chat[n], 0>>, route |-> n, ep |-> 1] : n \in 1..N}, next |-> N]
    /\ job = [j \in Jobs |-> NewJob(todo.kind[j], todo.chat[j])]
    /\ ops = {} /\ calls = {} /\ wire = {} /\ notes = {} /\ told = {} /\ last = 0
    /\ net = [ep |-> 1, up |-> TRUE, want |-> FALSE]
    /\ store = [c \in Chats |-> [gone |-> FALSE, deleting |-> FALSE, ver |-> 0,
                                 path |-> IF c \in todo.stored \cup todo.open THEN <<c, 0>> ELSE NoPath]]

-----------------------------------------------------------------------------
(* Sessions and indexes *)

EpochCurrent(e) == net.up /\ e = net.ep
Route(s) == ses[s].route
Holder(m, r) == IF r \in DOMAIN m.byRoute THEN m.byRoute[r] ELSE None
WithoutRoute(m, s) ==
    IF Holder(m, Route(s)) = s THEN [m EXCEPT !.byRoute[Route(s)] = None] ELSE m
WithRoute(m, r, s) == [m EXCEPT !.byRoute = [n \in DOMAIN @ \cup {r} |-> IF n = r THEN s ELSE @[n]]]
Cleaning(r) == \E k \in mgr.cleanup : k.route = r

(* Session.routeLocked *)
Routable(s) == ses[s].st = "live" /\ ~ses[s].closing

OfEpoch(m, e) == {m.byChat[c] : c \in {d \in Chats : m.byChat[d] # None /\ ses[m.byChat[d]].ep = e}}

(* detachEpoch *)
Detach(m, e) ==
    [m EXCEPT !.invalid = @ \cup {e},
              !.byRoute = [r \in DOMAIN @ |-> IF @[r] \in OfEpoch(m, e) THEN None ELSE @[r]],
              !.retired = {x \in @ : x.ep # e}]

(* Session.invalidate of each session the epoch carried *)
Invalidated(m, e) ==
    [s \in DOMAIN ses |-> IF s \in OfEpoch(m, e) /\ ses[s].st = "live"
                          THEN [ses[s] EXCEPT !.st = "resumable"] ELSE ses[s]]

(* retireSessionIdentityLocked with a bump of the slot's generation *)
Retire(m, s) ==
    LET c == ses[s].chat
        n == WithoutRoute(m, s)
    IN  IF m.byChat[c] = s
        THEN [n EXCEPT !.byChat[c] = None, !.slotGen[c] = @ + 1] ELSE n

-----------------------------------------------------------------------------
(* Calls.  by says who waits: a job, an open operation or a session. *)

NotSent == 0
Call(n, k, c, arg, by) ==
    [id |-> n, k |-> k, chat |-> c, arg |-> arg, by |-> by, ep |-> NotSent, res |-> "none", got |-> <<>>]
CallsBy(by) == {c \in calls : c.by = by}
Answered(by) == {c \in CallsBy(by) : c.res # "none"}
Req(c) == [id |-> c.id, k |-> c.k, chat |-> c.chat, arg |-> c.arg, ep |-> c.ep]

(* Call, CallDetached, CallRetained: written once there is a connection *)
Write(c) ==
    /\ c.ep = NotSent /\ c.res = "none" /\ net.up
    /\ LET d == [c EXCEPT !.ep = net.ep]
       IN  calls' = (calls \ {c}) \cup {d} /\ wire' = wire \cup {Req(d)}
    /\ UNCHANGED <<flightVars, mgr, ses, job, ops, eng, net, notes, store, told, last, todo>>

(* ... or its dial fails *)
DialFails(c) ==
    /\ c.ep = NotSent /\ c.res = "none" /\ ~net.up /\ Spend("dial")
    /\ calls' = (calls \ {c}) \cup {[c EXCEPT !.res = "lost"]}
    /\ UNCHANGED <<flightVars, mgr, ses, job, ops, wire, eng, net, notes, store, told, last>>

(* CallInEpochToken and CallRetainedInEpoch on the current connection *)
WriteNow(c) == calls' = calls \cup {c} /\ wire' = wire \cup {Req(c)} /\ last' = c.id

(* definitiveCloseFailure, or the connection that carried the route is gone *)
Settled(res) == res \in {"ok", "unknown", "mismatch"}

(* rememberRetiringLocked, removeRetiringLocked *)
Retiring(c, r, e) == [chat |-> c, route |-> r, ep |-> e]

-----------------------------------------------------------------------------
(* Asking for the permit *)

Ok(c) == ~store[c].gone /\ ~store[c].deleting

(* The handlers up to the manager.  prepareChatVersion takes the generation
   of a chat that exists and is not being deleted; handleDeleteChat marks it
   and moves the generation on.  GET media prepares nothing. *)
Start(j) ==
    LET c == job[j].chat
        k == job[j].kind
    IN  /\ job[j].pc = "new" /\ k \in {"connect", "auto", "media", "stop", "delete"}
        /\ k \in {"connect", "auto", "delete"} => Ok(c)
        /\ job' = [job EXCEPT ![j].pc = "ready", ![j].ver = store[c].ver,
                             ![j].only = k \in {"connect", "media"} /\ store[c].path # NoPath]
        /\ store' = IF k = "delete" THEN [store EXCEPT ![c].deleting = TRUE, ![c].ver = @ + 1] ELSE store
        /\ UNCHANGED <<flightVars, mgr, ses, ops, calls, wire, eng, net, notes, told, last, todo>>

(* After acquire returns the permit is released; the deletion goes on alone. *)
Over(jb, ok) ==
    [jb EXCEPT !.pc = IF jb.kind = "delete" /\ ok THEN "commit" ELSE "done", !.ok = ok]

Told(j, ok) == IF ok \/ job[j].kind \notin {"connect", "auto", "reconcile"} THEN told
               ELSE told \cup {job[j].chat}

Unmarked(j, ok) == IF job[j].kind = "delete" /\ ~ok THEN [store EXCEPT ![job[j].chat].deleting = FALSE]
                   ELSE store

Finish(j, ok) ==
    /\ IF job[j].kind = "shutdown" THEN UNCHANGED flightVars ELSE Release(j)
    /\ job' = [job EXCEPT ![j] = Over(@, ok)]
    /\ told' = Told(j, ok) /\ store' = Unmarked(j, ok)

(* The permit is asked for some time after the preparation *)
Join(j) ==
    LET late == mgr.closed /\ job[j].kind \in Acquires
    IN  /\ job[j].pc = "ready"
        /\ \/ ~late /\ Enter(j, job[j].chat) /\ job' = [job EXCEPT ![j].pc = "line"] /\ UNCHANGED told
           \/ late /\ job' = [job EXCEPT ![j] = Over(@, FALSE)] /\ told' = Told(j, FALSE) /\ UNCHANGED flightVars
        /\ UNCHANGED <<mgr, ses, ops, calls, wire, eng, net, notes, store, last, todo>>

(* The request's context ends, or the manager's for an acquisition *)
MayCancel(j) ==
    \/ Spend("cancel")
    \/ mgr.closed /\ job[j].kind \in Acquires /\ UNCHANGED todo

CancelInLine(j) ==
    /\ job[j].pc = "line" /\ job[j].kind # "reconcile"
    /\ MayCancel(j)
    /\ GiveUp(j) \/ GiveBack(j)
    /\ job' = [job EXCEPT ![j] = Over(@, FALSE)]
    /\ told' = Told(j, FALSE) /\ store' = Unmarked(j, FALSE)
    /\ UNCHANGED <<mgr, ses, ops, calls, wire, eng, net, notes, last>>

Wake(j) == Notice(j) /\ UNCHANGED mgrVars

Turn(j, pc) == job[j].pc = pc /\ (ent[j].st = "in" \/ job[j].kind = "shutdown")

-----------------------------------------------------------------------------
(* acquire *)

Retries(j) == job[j].kind \in {"connect", "media", "reconcile"} /\ job[j].try = 1

(* ErrSessionResumable: one more attempt in the same flight, or the end *)
AgainOrOver(j) ==
    \/ /\ Retries(j)
       /\ job' = [job EXCEPT ![j].pc = "line", ![j].try = 2, ![j].only = TRUE, ![j].fresh = FALSE]
       /\ UNCHANGED <<flightVars, told, store>>
    \/ ~Retries(j) /\ Finish(j, FALSE)

(* Wrong: a stale acquisition goes on. *)
UncheckedStale(j) == FALSE

(* validate: the chat's generation is the prepared one *)
StaleVersion(j) ==
    /\ job[j].kind # "media" /\ ~(job[j].kind = "reconcile" /\ job[j].pc = "line" /\ job[j].try = 1)
    /\ store[job[j].chat].ver # job[j].ver

(* enqueueReconciliation's second look *)
Moot(j) ==
    /\ job[j].kind = "reconcile" /\ job[j].try = 1
    /\ mgr.byChat[job[j].chat] # job[j].s \/ ses[job[j].s].st # "resumable"

(* prepareRecovery refuses a chat that is being deleted *)
Denied(j) == job[j].kind = "reconcile" /\ job[j].try = 1 /\ ~Ok(job[j].chat)

(* acquire up to CursorForOpen: reuse the session or go on to open *)
Check(j) ==
    LET c == job[j].chat
        ex == mgr.byChat[c]
        lost == ex # None /\ ~EpochCurrent(ses[ex].ep)
        m == IF lost THEN Detach(mgr, ses[ex].ep) ELSE mgr
        t == IF lost THEN Invalidated(mgr, ses[ex].ep) ELSE ses
        over == mgr.closed \/ StaleVersion(j) \/ Moot(j) \/ Denied(j)
        reusable == ex # None /\ t[ex].st = "live" /\ ~t[ex].closing
        jb == [job[j] EXCEPT !.sg = mgr.slotGen[c], !.ex = ex,
                             !.ver = IF job[j].kind = "reconcile" /\ job[j].try = 1 THEN store[c].ver ELSE @]
    IN  /\ Turn(j, "line") /\ job[j].kind \in Acquires
        /\ \/ over /\ Finish(j, Moot(j)) /\ UNCHANGED <<mgr, ses>>
           \/ /\ ~over
              /\ mgr' = m
              /\ \/ /\ reusable
                    /\ ses' = [t EXCEPT ![ex].held = @ \/ job[j].kind # "media"]
                    /\ job' = [job EXCEPT ![j] = [jb EXCEPT !.pc = "hydrate", !.s = ex]]
                    /\ UNCHANGED <<flightVars, told, store>>
                 \/ /\ ~reusable
                    /\ ses' = t
                    /\ \/ /\ ~store[c].gone /\ (job[j].only => store[c].path # NoPath)
                          /\ job' = [job EXCEPT ![j] = [jb EXCEPT !.pc = "slot"]]
                          /\ UNCHANGED <<flightVars, told, store>>
                       \/ /\ store[c].gone \/ (job[j].only /\ store[c].path = NoPath)
                          /\ Finish(j, FALSE)
        /\ UNCHANGED <<ops, calls, wire, eng, net, notes, last, todo>>

(* hydrateForSubscriber and what runs after it: the route answers, the
   engine does not know it (classifyRouteError), or the connection is gone *)
Hydrate(j) ==
    LET s == job[j].s
        r == ses[s]
        known == \E x \in eng.live : x.route = r.route
    IN  /\ Turn(j, "hydrate")
        /\ \/ /\ EpochCurrent(r.ep) /\ known
              /\ Finish(j, TRUE) /\ UNCHANGED <<mgr, ses>>
           \/ /\ EpochCurrent(r.ep) /\ ~known
              /\ ses' = IF r.st = "live" THEN [ses EXCEPT ![s].st = "resumable"] ELSE ses
              /\ AgainOrOver(j) /\ UNCHANGED mgr
           \/ /\ ~EpochCurrent(r.ep)
              /\ mgr' = Detach(mgr, r.ep) /\ ses' = Invalidated(mgr, r.ep)
              /\ Finish(j, FALSE)
        /\ UNCHANGED <<ops, calls, wire, eng, net, notes, last, todo>>

-----------------------------------------------------------------------------
(* open and openCall *)

Target(j) == IF job[j].fresh THEN NoPath ELSE store[job[j].chat].path

(* open: a slot and the chat's fence, or ErrOpenBusy *)
TakeSlot(j) ==
    LET c == job[j].chat
        n == last + 1
    IN  /\ Turn(j, "slot")
        /\ \/ /\ mgr.slots = DetachedOpenLimit
              /\ Finish(j, FALSE) /\ UNCHANGED <<mgr, ops, calls, last>>
           \/ /\ mgr.slots < DetachedOpenLimit /\ mgr.fence[c] = None
              /\ mgr' = [mgr EXCEPT !.slots = @ + 1, !.fence[c] = n]
              /\ ops' = ops \cup {[id |-> n, chat |-> c, path |-> Target(j), owner |-> "job",
                                   tries |-> 1, rt |-> Retiring(c, None, NotSent)]}
              /\ calls' = calls \cup {Call(n, "open", c, Target(j), <<"op", n>>)}
              /\ job' = [job EXCEPT ![j].pc = "opening", ![j].got = <<n>>]
              /\ last' = n
              /\ UNCHANGED <<flightVars, told, store>>
        /\ UNCHANGED <<ses, wire, eng, net, notes, todo>>

(* The context ends while another open of the chat keeps the fence *)
CancelAtFence(j) ==
    /\ Turn(j, "slot") /\ mgr.fence[job[j].chat] # None /\ mgr.slots < DetachedOpenLimit
    /\ MayCancel(j) /\ Finish(j, FALSE)
    /\ UNCHANGED <<mgr, ses, ops, calls, wire, eng, net, notes, last>>

Op(j) == CHOOSE o \in ops : o.id = job[j].got[1]
By(o) == <<"op", o.id>>
Put(o, n) == (ops \ {o}) \cup {n}

(* clearPendingOpenMarker, or the release of a slot kept after recovery *)
ClearMarker(m, o) ==
    IF m.fence[o.chat] = o.id THEN [m EXCEPT !.fence[o.chat] = None, !.slots = @ - 1]
    ELSE [m EXCEPT !.slots = @ - 1]

(* session_path_in_use is tried again while attempts are left *)
RetryOpen(o) ==
    /\ o.owner = "job" /\ o.tries < RetryAttempts
    /\ \E c \in Answered(By(o)) :
          /\ c.res = "in_use"
          /\ calls' = (calls \ {c}) \cup {Call(last + 1, "open", o.chat, o.path, By(o))}
          /\ ops' = Put(o, [o EXCEPT !.tries = @ + 1]) /\ last' = last + 1
    /\ UNCHANGED <<flightVars, mgr, ses, job, wire, eng, net, notes, store, told, todo>>

Final(o, c) == ~(c.res = "in_use" /\ o.tries < RetryAttempts)

(* acquire after open: the route goes on to publication, with its identity
   persisted; a definitive failure of a resume may fall back to a fresh
   session, whose cursor is not kept *)
OpenAnswered(j) ==
    /\ Turn(j, "opening")
    /\ LET o == Op(j)
           c == job[j].chat
       IN  \E a \in Answered(By(o)) :
            /\ Final(o, a)
            /\ mgr' = ClearMarker(mgr, o) /\ ops' = ops \ {o} /\ calls' = calls \ {a}
            /\ \/ /\ a.res = "ok"
                  /\ job' = [job EXCEPT ![j].got = <<a.got[1], a.ep, a.got[2]>>, ![j].fresh = o.path = NoPath,
                                       ![j].pc = IF store[c].gone /\ ~job[j].fresh /\ o.path = NoPath
                                                 THEN "discard" ELSE "publish"]
                  /\ store' = IF store[c].gone \/ job[j].fresh THEN store
                              ELSE [store EXCEPT ![c].path = a.got[2]]
                  /\ UNCHANGED <<flightVars, told>>
               \/ /\ a.res \in {"error", "in_use"} /\ o.path # NoPath /\ ~job[j].only /\ ~mgr.closed
                  /\ job' = [job EXCEPT ![j].pc = "slot", ![j].fresh = TRUE]
                  /\ UNCHANGED <<flightVars, told, store>>
               \/ /\ \/ a.res = "lost"
                     \/ a.res \in {"error", "in_use"} /\ (o.path = NoPath \/ job[j].only \/ mgr.closed)
                  /\ Finish(j, FALSE)
    /\ UNCHANGED <<ses, wire, eng, net, notes, last, todo>>

(* The caller stops waiting; open waits CloseTimeout more *)
CancelOpen(j) ==
    /\ Turn(j, "opening") /\ (MayCancel(j) \/ (todo.mute /\ UNCHANGED todo))
    /\ job' = [job EXCEPT ![j].pc = "leaving"]
    /\ UNCHANGED <<flightVars, mgr, ses, ops, calls, wire, eng, net, notes, store, told, last>>

LeaveAnswered(j) ==
    /\ Turn(j, "leaving")
    /\ LET o == Op(j)
       IN  \E a \in Answered(By(o)) :
            /\ Final(o, a)
            /\ mgr' = ClearMarker(mgr, o) /\ ops' = ops \ {o} /\ calls' = calls \ {a}
            /\ \/ /\ a.res = "ok"
                  /\ job' = [job EXCEPT ![j].got = <<a.got[1], a.ep, a.got[2]>>, ![j].pc = "discard"]
                  /\ UNCHANGED <<flightVars, told, store>>
               \/ a.res # "ok" /\ Finish(j, FALSE)
    /\ UNCHANGED <<ses, wire, eng, net, notes, last, todo>>

(* CloseTimeout passes: the correlation goes to awaitDetachedCompletion; a
   call that was not written ends with its context *)
LeaveTimeout(j) ==
    /\ Turn(j, "leaving")
    /\ LET o == Op(j)
       IN  \E c \in CallsBy(By(o)) :
            /\ c.res = "none"
            /\ \/ c.ep # NotSent /\ ops' = Put(o, [o EXCEPT !.owner = "await"]) /\ UNCHANGED <<mgr, calls>>
               \/ c.ep = NotSent /\ ops' = ops \ {o} /\ mgr' = ClearMarker(mgr, o) /\ calls' = calls \ {c}
    /\ Finish(j, FALSE)
    /\ UNCHANGED <<ses, wire, eng, net, notes, last, todo>>

-----------------------------------------------------------------------------
(* Publication, and the disposal of a route that is not published *)

Blocked(r, e) == Cleaning(r) \/ [route |-> r, ep |-> e] \in mgr.retired

(* Wrong: a route under cleanup or retired by recovery is published. *)
MayPublishBlocked(j) == EpochCurrent(job[j].got[2]) /\ job[j].got[2] \notin mgr.invalid

(* The route may serve the chat *)
MayPublish(j) ==
    LET r == job[j].got[1]
        e == job[j].got[2]
    IN  EpochCurrent(e) /\ e \notin mgr.invalid /\ ~Blocked(r, e)

(* The manager and the slot are as the acquisition found them *)
Valid(j) ==
    LET c == job[j].chat
    IN  ~mgr.closed /\ mgr.slotGen[c] = job[j].sg /\ mgr.byChat[c] = job[j].ex

Install(m, j, s, routed) ==
    LET c == job[j].chat
        n == [(IF job[j].ex # None THEN WithoutRoute(m, job[j].ex) ELSE m) EXCEPT !.byChat[c] = s]
    IN  IF routed THEN WithRoute(n, job[j].got[1], s) ELSE n

Retired(x) == IF x # None THEN [ses EXCEPT ![x].st = "closed"] ELSE ses

(* Wrong: the route of a refused acquisition is left to itself. *)
RefuseQuietly(j) == Finish(j, FALSE) /\ UNCHANGED <<mgr, ses>>

(* An acquisition that came too late discards its route *)
Refuse(j) ==
    /\ job' = [job EXCEPT ![j].pc = "discard"]
    /\ UNCHANGED <<flightVars, mgr, ses, told, store>>

Publish(j) ==
    LET r == job[j].got[1]
        c == job[j].chat
        s == Cardinality(DOMAIN ses) + 1
        checked == job[j].kind # "media"
        new == [NewSes(c, r, job[j].got[2], job[j].got[3], checked) EXCEPT !.checked = checked,
                    !.st = IF MayPublish(j) THEN "live" ELSE "resumable"]
        created == [n \in 1..s |-> IF n = s THEN new ELSE Retired(job[j].ex)[n]]
        resumed == ~job[j].fresh
    IN  /\ Turn(j, "publish")
        /\ \/ ~(~StaleVersion(j) /\ Valid(j)) /\ Refuse(j)
           \/ /\ ~StaleVersion(j) /\ Valid(j) /\ MayPublish(j)
              /\ mgr' = Install(mgr, j, s, TRUE) /\ ses' = created
              /\ \/ /\ resumed /\ job' = [job EXCEPT ![j].pc = "hydrate", ![j].s = s]
                    /\ UNCHANGED <<flightVars, told, store>>
                 \/ ~resumed /\ Finish(j, TRUE)
           \/ /\ ~StaleVersion(j) /\ Valid(j) /\ ~MayPublish(j)
              /\ LET m == [mgr EXCEPT !.refused = @ \cup {[route |-> r, ep |-> new.ep]}]
                 IN  IF checked THEN mgr' = m /\ UNCHANGED ses
                     ELSE mgr' = Install(m, j, s, FALSE) /\ ses' = created
              /\ AgainOrOver(j)
        /\ UNCHANGED <<ops, calls, wire, eng, net, notes, last, todo>>

Remember(m, x) == [m EXCEPT !.retiring = @ \cup {x}]
Forget(m, x) == [m EXCEPT !.retiring = @ \ {x}]

(* discardRouting up to the wait *)
Discard(j) ==
    LET x == Retiring(job[j].chat, job[j].got[1], job[j].got[2])
    IN  /\ Turn(j, "discard")
        /\ \/ /\ EpochCurrent(x.ep)
              /\ WriteNow([Call(last + 1, "close", x.chat, <<x.route>>, <<"job", j>>) EXCEPT !.ep = x.ep])
              /\ mgr' = Remember(mgr, x)
              /\ job' = [job EXCEPT ![j].pc = "discarding", ![j].rs = {x}]
              /\ UNCHANGED <<flightVars, told, store>>
           \/ ~EpochCurrent(x.ep) /\ Finish(j, FALSE) /\ UNCHANGED <<mgr, calls, wire, last>>
        /\ UNCHANGED <<ses, ops, eng, net, notes, todo>>

(* The result of closing route x, or the end of the wait for it *)
CloseOutcome(m, x, a) ==
    \/ a.res # "none" /\ m = (IF Settled(a.res) THEN Forget(mgr, x) ELSE mgr) /\ UNCHANGED todo
    \/ a.res = "none" /\ Spend("slow") /\ m = mgr

(* closeRetiringRoute after its call; a close that timed out leaves the
   route to Stop *)
Discarded(j) ==
    /\ Turn(j, "discarding")
    /\ \E a \in CallsBy(<<"job", j>>), x \in job[j].rs :
        \E m \in {mgr, Forget(mgr, x)} : CloseOutcome(m, x, a) /\ mgr' = m /\ calls' = calls \ {a}
    /\ Finish(j, FALSE)
    /\ UNCHANGED <<ses, ops, wire, eng, net, notes, last>>

-----------------------------------------------------------------------------
(* An open_session whose caller has gone (awaitDetachedCompletion) *)

Idle == {"await", "final", "residual"}

(* settle: an owned late route is closed before the fence and the slot go *)
Settle(o) ==
    /\ o.owner \in Idle
    /\ \E a \in Answered(By(o)) :
        LET x == Retiring(o.chat, IF a.res = "ok" THEN a.got[1] ELSE None, a.ep)
            n == last + 1
        IN  \/ /\ a.res = "ok" /\ EpochCurrent(a.ep)
               /\ mgr' = Remember(mgr, x)
               /\ LET d == [Call(n, "close", o.chat, <<x.route>>, By(o)) EXCEPT !.ep = x.ep]
                  IN  calls' = (calls \ {a}) \cup {d} /\ wire' = wire \cup {Req(d)}
               /\ ops' = Put(o, [o EXCEPT !.owner = "settling", !.rt = x]) /\ last' = n
            \/ /\ ~(a.res = "ok" /\ EpochCurrent(a.ep))
               /\ mgr' = ClearMarker(mgr, o) /\ ops' = ops \ {o} /\ calls' = calls \ {a}
               /\ UNCHANGED <<wire, last>>
    /\ UNCHANGED <<flightVars, ses, job, eng, net, notes, store, told, todo>>

LateClosed(o) ==
    /\ o.owner = "settling"
    /\ \E a \in CallsBy(By(o)) : \E m \in {mgr, Forget(mgr, o.rt)} :
          /\ CloseOutcome(m, o.rt, a)
          /\ mgr' = ClearMarker(m, o) /\ ops' = ops \ {o} /\ calls' = calls \ {a}
    /\ UNCHANGED <<flightVars, ses, job, wire, eng, net, notes, store, told, last>>

(* Wrong: recovery lets the slot go with the fence. *)
RecoverFenceAndSlot(m, o) ==
    IF ~m.closed /\ m.fence[o.chat] = o.id
    THEN [m EXCEPT !.fence[o.chat] = None, !.slots = @ - 1] ELSE m

(* Wrong: the fence stays with an open that is not answered. *)
FenceForGood(m, o) == m

(* recoverOpenFence: the slot stays with the correlation *)
RecoverFence(m, o) ==
    IF ~m.closed /\ m.fence[o.chat] = o.id THEN [m EXCEPT !.fence[o.chat] = None] ELSE m

Rec(o) == <<"rec", o.id>>

(* OpenRecoveryAfter passes; reconcileStaleRoutes asks for the routes *)
Recover(o) ==
    /\ o.owner = "await" /\ Answered(By(o)) = {}
    /\ \/ /\ o.path # NoPath
          /\ calls' = calls \cup {Call(last + 1, "list", o.chat, o.path, Rec(o))} /\ last' = last + 1
          /\ ops' = Put(o, [o EXCEPT !.owner = "listing"]) /\ UNCHANGED mgr
       \/ /\ o.path = NoPath
          /\ mgr' = RecoverFence(mgr, o) /\ ops' = Put(o, [o EXCEPT !.owner = "final"])
          /\ UNCHANGED <<calls, last>>
    /\ UNCHANGED <<flightVars, ses, job, wire, eng, net, notes, store, told, todo>>

(* beginRecoveryClose *)
Admit(r, e) ==
    /\ ~mgr.closed /\ Holder(mgr, r) = None
    /\ e \notin mgr.invalid /\ EpochCurrent(e) /\ ~Cleaning(r)
    /\ [route |-> r, ep |-> e] \in mgr.retired \/ Cardinality(mgr.retired) < RetiredRouteLimit

(* The listed route on the path is closed, under a cleanup marker *)
Listed(o) ==
    /\ o.owner = "listing"
    /\ \E a \in CallsBy(Rec(o)) :
        \/ \E n \in DOMAIN a.got :
             LET r == a.got[n]
                 x == Retiring(o.chat, r, a.ep)
                 d == [Call(last + 1, "close", o.chat, <<r>>, Rec(o)) EXCEPT !.ep = a.ep]
             IN  /\ Admit(r, a.ep)
                 /\ mgr' = [Remember(mgr, x) EXCEPT !.retired = @ \cup {[route |-> r, ep |-> a.ep]},
                                                   !.cleanup = @ \cup {[route |-> r, by |-> Rec(o)]}]
                 /\ calls' = (calls \ {a}) \cup {d} /\ wire' = wire \cup {Req(d)}
                 /\ ops' = Put(o, [o EXCEPT !.owner = "purging", !.rt = x]) /\ last' = last + 1
                 /\ UNCHANGED todo
        \/ /\ \/ a.res = "ok" /\ (\A n \in DOMAIN a.got : ~Admit(a.got[n], a.ep)) /\ UNCHANGED todo
              \/ a.res \notin {"ok", "none"} /\ UNCHANGED todo
              \/ a.res = "none" /\ Spend("slow")
           /\ mgr' = RecoverFence(mgr, o) /\ calls' = calls \ {a}
           /\ ops' = Put(o, [o EXCEPT !.owner = "final"])
           /\ UNCHANGED <<wire, last>>
    /\ UNCHANGED <<flightVars, ses, job, eng, net, notes, store, told>>

(* closeRetiringRoute, endRouteCleanup and recoverOpenFence *)
Purged(o) ==
    /\ o.owner = "purging"
    /\ \E a \in CallsBy(Rec(o)) : \E m \in {mgr, Forget(mgr, o.rt)} :
          /\ CloseOutcome(m, o.rt, a)
          /\ mgr' = RecoverFence([m EXCEPT !.cleanup = {k \in @ : k.by # Rec(o)}], o)
          /\ calls' = calls \ {a} /\ ops' = Put(o, [o EXCEPT !.owner = "final"])
    /\ UNCHANGED <<flightVars, ses, job, wire, eng, net, notes, store, told, last>>

(* The last grace ends: a goroutine CloseAll does not wait for *)
LastGrace(o) ==
    /\ o.owner = "final" /\ Answered(By(o)) = {}
    /\ ops' = Put(o, [o EXCEPT !.owner = "residual"])
    /\ UNCHANGED <<flightVars, mgr, ses, job, calls, wire, eng, net, notes, store, told, last, todo>>

-----------------------------------------------------------------------------
(* Stop, deletion and CloseAll *)

(* completeClose with an accepted result, or any once the manager is closed *)
ClosedSes(m, t, s) == <<Retire(m, s), [t EXCEPT ![s].st = "closed", ![s].closing = FALSE]>>

(* beginFallbackCleanup *)
MayFallback(s) == Holder(mgr, Route(s)) \in {None, s} /\ ~Cleaning(Route(s))

(* closeContext and executeClose of session s for job j *)
CloseSession(j, s, m) ==
    LET n == last + 1
        c == ses[s].chat
    IN  \/ /\ ses[s].closing
          /\ job' = [job EXCEPT ![j].pc = "closing", ![j].s = s]
          /\ mgr' = m /\ UNCHANGED <<flightVars, ses, calls, wire, last, told, store>>
       \/ /\ ~ses[s].closing /\ EpochCurrent(ses[s].ep)
          /\ WriteNow([Call(n, "close", c, <<Route(s)>>, <<"ses", s>>) EXCEPT !.ep = ses[s].ep])
          /\ ses' = [ses EXCEPT ![s].closing = TRUE]
          /\ job' = [job EXCEPT ![j].pc = "closing", ![j].s = s]
          /\ mgr' = m /\ UNCHANGED <<flightVars, told, store>>
       \/ /\ ~ses[s].closing /\ ~EpochCurrent(ses[s].ep)
          /\ MayFallback(s) /\ ses[s].st = "resumable"
          /\ calls' = calls \cup {Call(n, "close", c, <<Route(s)>>, <<"ses", s>>)} /\ last' = n
          /\ ses' = [ses EXCEPT ![s].closing = TRUE]
          /\ mgr' = [m EXCEPT !.cleanup = @ \cup {[route |-> Route(s), by |-> <<"ses", s>>]}]
          /\ job' = [job EXCEPT ![j].pc = "closing", ![j].s = s]
          /\ UNCHANGED <<flightVars, wire, told, store>>
       \/ /\ ~ses[s].closing /\ ~EpochCurrent(ses[s].ep)
          /\ ~(MayFallback(s) /\ ses[s].st = "resumable")
          /\ mgr' = (IF m.closed THEN ClosedSes(m, ses, s)[1] ELSE m)
          /\ ses' = (IF m.closed THEN ClosedSes(m, ses, s)[2] ELSE ses)
          /\ IF job[j].kind = "shutdown"
             THEN job' = [job EXCEPT ![j].ok = FALSE, ![j].rs = @ \ {s}] /\ UNCHANGED <<flightVars, told, store>>
             ELSE Finish(j, FALSE)
          /\ UNCHANGED <<calls, wire, last>>

Retirings(c) == {x \in mgr.retiring : x.chat = c}

(* stopChatInFlight *)
Stop(j) ==
    LET c == job[j].chat
        s == mgr.byChat[c]
        m == [mgr EXCEPT !.slotGen[c] = @ + 1]
        open == s # None /\ ses[s].st # "closed"
    IN  /\ Turn(j, "line") /\ job[j].kind \in {"stop", "delete"}
        /\ \/ open /\ CloseSession(j, s, m)
           \/ /\ ~open
              /\ mgr' = m /\ job' = [job EXCEPT ![j].pc = "drain", ![j].rs = Retirings(c)]
              /\ UNCHANGED <<flightVars, ses, calls, wire, last, told, store>>
        /\ UNCHANGED <<ops, eng, net, notes, todo>>

(* completeClose, whoever still waits *)
SesClosed(s) ==
    /\ \E a \in Answered(<<"ses", s>>) :
        LET m == [(IF a.res = "lost" THEN Detach(mgr, ses[s].ep) ELSE mgr)
                    EXCEPT !.cleanup = {k \in @ : k.by # <<"ses", s>>}]
            t == IF a.res = "lost" THEN Invalidated(mgr, ses[s].ep) ELSE ses
            gone == Settled(a.res) \/ mgr.closed
        IN  /\ calls' = calls \ {a}
            /\ mgr' = IF gone THEN ClosedSes(m, t, s)[1] ELSE m
            /\ ses' = IF gone THEN ClosedSes(m, t, s)[2] ELSE [t EXCEPT ![s].closing = FALSE]
    /\ UNCHANGED <<flightVars, job, ops, wire, eng, net, notes, store, told, last, todo>>

(* waitCloseTransaction *)
StopWaited(j) ==
    LET s == job[j].s
        closed == ~ses[s].closing /\ ses[s].st = "closed"
    IN  /\ Turn(j, "closing")
        /\ \/ ~ses[s].closing /\ UNCHANGED todo
           \/ ses[s].closing /\ Spend("slow")
        /\ \/ /\ job[j].kind = "shutdown"
              /\ job' = [job EXCEPT ![j].pc = "sweep", ![j].rs = @ \ {s}, ![j].ok = @ /\ closed]
              /\ UNCHANGED <<flightVars, told, store>>
           \/ /\ job[j].kind # "shutdown" /\ closed
              /\ job' = [job EXCEPT ![j].pc = "drain", ![j].rs = Retirings(job[j].chat)]
              /\ UNCHANGED <<flightVars, told, store>>
           \/ job[j].kind # "shutdown" /\ ~closed /\ Finish(j, FALSE)
        /\ UNCHANGED <<mgr, ses, ops, calls, wire, eng, net, notes, last>>

(* drainRetiring, one route after the other *)
Drain(j) ==
    /\ Turn(j, "drain")
    /\ \/ job[j].rs = {} /\ Finish(j, job[j].ok) /\ UNCHANGED <<mgr, calls, wire, last>>
       \/ \E x \in job[j].rs :
            /\ \/ /\ EpochCurrent(x.ep)
                  /\ WriteNow([Call(last + 1, "close", x.chat, <<x.route>>, <<"job", j>>) EXCEPT !.ep = x.ep])
                  /\ job' = [job EXCEPT ![j].pc = "draining", ![j].got = <<x>>]
                  /\ UNCHANGED mgr
               \/ /\ ~EpochCurrent(x.ep)
                  /\ mgr' = Forget(mgr, x) /\ job' = [job EXCEPT ![j].rs = @ \ {x}]
                  /\ UNCHANGED <<calls, wire, last>>
            /\ UNCHANGED <<flightVars, told, store>>
    /\ UNCHANGED <<ses, ops, eng, net, notes, todo>>

Drained(j) ==
    LET x == job[j].got[1]
    IN  /\ Turn(j, "draining")
        /\ \E a \in CallsBy(<<"job", j>>) : \E m \in {mgr, Forget(mgr, x)} :
              /\ CloseOutcome(m, x, a) /\ mgr' = m /\ calls' = calls \ {a}
              /\ job' = [job EXCEPT ![j].pc = "drain", ![j].rs = @ \ {x},
                                   ![j].ok = @ /\ Settled(a.res)]
        /\ UNCHANGED <<flightVars, ses, ops, wire, eng, net, notes, store, told, last>>

(* The rest of handleDeleteChat: the record goes, the identity is retired *)
Commit(j) ==
    /\ job[j].pc = "commit"
    /\ store' = [store EXCEPT ![job[j].chat].gone = TRUE, ![job[j].chat].deleting = FALSE]
    /\ job' = [job EXCEPT ![j].pc = "done"]
    /\ UNCHANGED <<flightVars, mgr, ses, ops, calls, wire, eng, net, notes, told, last, todo>>

(* CloseAll: the barrier ... *)
Shutdown(j) ==
    /\ job[j].pc = "new" /\ job[j].kind = "shutdown"
    /\ mgr' = [mgr EXCEPT !.closed = TRUE] /\ job' = [job EXCEPT ![j].pc = "quiesce"]
    /\ UNCHANGED <<flightVars, ses, ops, calls, wire, eng, net, notes, store, told, last, todo>>

Quiet == /\ \A i \in Jobs : job[i].kind \in Acquires => job[i].pc \in {"new", "ready", "done"}
         /\ \A o \in ops : o.owner = "residual"

(* ... the wait for acquisitions and cleanups, then the maps go ... *)
Quiesce(j) ==
    /\ Turn(j, "quiesce")
    /\ \/ /\ Quiet
          /\ job' = [job EXCEPT ![j].pc = "sweep",
                               ![j].rs = {mgr.byChat[c] : c \in Chats} \ {None}]
          /\ mgr' = [mgr EXCEPT !.byChat = [c \in Chats |-> None], !.byRoute = [r \in {} |-> None],
                               !.invalid = {}, !.slotGen = [c \in Chats |-> 0]]
          /\ UNCHANGED <<flightVars, told, store, todo>>
       \/ ~Quiet /\ Spend("slow") /\ Finish(j, FALSE) /\ UNCHANGED mgr
    /\ UNCHANGED <<ses, ops, calls, wire, eng, net, notes, last>>

(* ... every session is closed and the retiring routes are drained *)
Sweep(j) ==
    /\ Turn(j, "sweep")
    /\ \/ /\ job[j].rs = {} /\ job' = [job EXCEPT ![j].pc = "drain", ![j].rs = mgr.retiring]
          /\ UNCHANGED <<flightVars, mgr, ses, calls, wire, last, told, store>>
       \/ \E s \in job[j].rs :
            \/ /\ ses[s].st = "closed" /\ job' = [job EXCEPT ![j].rs = @ \ {s}]
               /\ UNCHANGED <<flightVars, mgr, ses, calls, wire, last, told, store>>
            \/ ses[s].st # "closed" /\ CloseSession(j, s, mgr)
    /\ UNCHANGED <<ops, eng, net, notes, todo>>

-----------------------------------------------------------------------------
(* The engine (external; its test double is internal/omorpc/omorpctest):
   one live route per session file, handles unique within one process *)

Reply(w, res, got) ==
    calls' = {IF c.id = w.id /\ c.res = "none" /\ EpochCurrent(w.ep)
              THEN [c EXCEPT !.res = res, !.got = got] ELSE c : c \in calls}

(* open_session: a new handle, which supersedes the one of a live path *)
EngineOpen(w) ==
    LET p == IF w.arg = NoPath THEN <<w.chat, w.id>> ELSE w.arg
        r == eng.next + 1
    IN  /\ w.k = "open"
        /\ \/ /\ eng' = [live |-> {x \in eng.live : x.path # p} \cup {[path |-> p, route |-> r, ep |-> w.ep]},
                         next |-> r]
              /\ Reply(w, "ok", <<r, p>>) /\ UNCHANGED todo
           \/ /\ Spend("refuse") /\ UNCHANGED eng
              /\ Reply(w, IF \E x \in eng.live : x.path = p THEN "in_use" ELSE "error", <<>>)

EngineClose(w) ==
    LET hit == {x \in eng.live : <<x.route>> = w.arg}
    IN  /\ w.k = "close"
        /\ eng' = [eng EXCEPT !.live = @ \ hit]
        /\ Reply(w, IF hit # {} THEN "ok" ELSE "unknown", <<>>) /\ UNCHANGED todo

EngineList(w) ==
    /\ w.k = "list"
    /\ LET hit == {x \in eng.live : x.path = w.arg}
       IN  Reply(w, "ok", IF hit = {} THEN <<>> ELSE <<(CHOOSE x \in hit : TRUE).route>>)
    /\ UNCHANGED <<eng, todo>>

Engine(w) ==
    /\ wire' = wire \ {w}
    /\ EngineOpen(w) \/ EngineClose(w) \/ EngineList(w)
    /\ UNCHANGED <<flightVars, mgr, ses, job, ops, net, notes, store, told, last>>

(* The engine evicts a session by itself *)
EngineUnload ==
    /\ Spend("unload")
    /\ \E x \in eng.live : eng' = [eng EXCEPT !.live = @ \ {x}]
    /\ UNCHANGED <<flightVars, mgr, ses, job, ops, calls, wire, net, notes, store, told, last>>

-----------------------------------------------------------------------------
(* The connection, and what the manager hears of it *)

Down(restart) ==
    /\ net.up
    /\ net' = [net EXCEPT !.up = FALSE]
    /\ calls' = {IF c.res = "none" /\ c.ep = net.ep THEN [c EXCEPT !.res = "lost"] ELSE c : c \in calls}
    /\ notes' = notes \cup {[t |-> "down", ep |-> net.ep, s |-> None]}
    /\ IF restart THEN wire' = {} /\ eng' = [live |-> {}, next |-> 0]
       ELSE wire' \in {wire, {}} /\ UNCHANGED eng
    /\ UNCHANGED <<flightVars, mgr, ses, job, ops, store, told, last>>

(* The connection breaks; the engine may still read what was written *)
Lose == Spend("lose") /\ Down(FALSE)

Restart == Spend("restart") /\ Down(TRUE)

(* A call or the proactive recovery dials *)
Dialing == net.want \/ \E c \in calls : c.ep = NotSent /\ c.res = "none"

Reconnect ==
    /\ ~net.up /\ Dialing
    /\ net' = [ep |-> net.ep + 1, up |-> TRUE, want |-> FALSE]
    /\ notes' = notes \cup {[t |-> "up", ep |-> net.ep + 1, s |-> None]}
    /\ UNCHANGED <<flightVars, mgr, ses, job, ops, calls, wire, eng, store, told, last, todo>>

(* A session worth recovering: a browser holds it *)
Worthy(s) == s # None /\ ses[s].st # "closed" /\ ses[s].held

(* triggerProactiveReconnect of the loss n reports *)
NoteDown(n) ==
    /\ n.t = "down" /\ notes' = notes \ {n}
    /\ net' = [net EXCEPT !.want = @ \/ (~mgr.closed /\ ~net.up /\ \E s \in OfEpoch(mgr, n.ep) : Worthy(s))]
    /\ UNCHANGED <<flightVars, mgr, ses, job, ops, calls, wire, eng, store, told, last, todo>>

(* Its dials are used up: reconnect_exhausted *)
ReconnectFails ==
    /\ net.want /\ ~net.up /\ Spend("dial")
    /\ net' = [net EXCEPT !.want = FALSE]
    /\ mgr' = Detach(mgr, net.ep) /\ ses' = Invalidated(mgr, net.ep)
    /\ told' = told \cup {c \in Chats : mgr.byChat[c] \in OfEpoch(mgr, net.ep)}
    /\ UNCHANGED <<flightVars, job, ops, calls, wire, eng, notes, store, last>>

Sessions == {mgr.byChat[c] : c \in Chats} \ {None}

(* Wrong: a session whose loss the event loop has not seen is skipped. *)
OrphanedIfSeen(s) == Worthy(s) /\ ~EpochCurrent(ses[s].ep) /\ ses[s].st = "resumable"

(* A candidate of scheduleSessionReconciliation *)
Orphaned(s) == Worthy(s) /\ ~EpochCurrent(ses[s].ep)

(* scheduleSessionReconciliation: candidates the event loop has not
   invalidated yet are invalidated here *)
NoteUp(n) ==
    LET lost == {s \in Sessions : Orphaned(s)}
        missed == {e \in {ses[s].ep : s \in lost} : \E s \in lost : ses[s].ep = e /\ ses[s].st = "live"}
    IN  /\ n.t = "up"
        /\ notes' = (notes \ {n}) \cup {[t |-> "again", ep |-> n.ep, s |-> s] : s \in lost}
        /\ \/ missed = {} /\ UNCHANGED <<mgr, ses>>
           \/ \E e \in missed : mgr' = Detach(mgr, e) /\ ses' = Invalidated(mgr, e)
        /\ UNCHANGED <<flightVars, job, ops, calls, wire, eng, net, store, told, last, todo>>

Spare == {j \in Jobs : job[j].kind = "reconcile" /\ job[j].pc = "new"}

(* enqueueReconciliation *)
EnqueueReconciliation(n) ==
    /\ n.t = "again" /\ notes' = notes \ {n}
    /\ \/ mgr.closed /\ UNCHANGED <<flightVars, job>>
       \/ /\ ~mgr.closed /\ Spare # {}
          /\ LET j == CHOOSE i \in Spare : TRUE
                 c == ses[n.s].chat
             IN  /\ Enter(j, c)
                 /\ job' = [job EXCEPT ![j].pc = "line", ![j].chat = c, ![j].s = n.s, ![j].only = TRUE]
    /\ UNCHANGED <<mgr, ses, ops, calls, wire, eng, net, store, told, last, todo>>

(* eventLoop: invalidateDisconnectedEpochs ... *)
ObserveLoss ==
    /\ ~mgr.closed
    /\ \E c \in Chats :
        LET s == mgr.byChat[c]
        IN  /\ s # None /\ ses[s].st = "live" /\ ~EpochCurrent(ses[s].ep)
            /\ mgr' = Detach(mgr, ses[s].ep) /\ ses' = Invalidated(mgr, ses[s].ep)
    /\ UNCHANGED <<flightVars, job, ops, calls, wire, eng, net, notes, store, told, last, todo>>

(* ... and observeEpoch: older barriers are lifted *)
ObserveEpoch ==
    /\ ~mgr.closed /\ net.up /\ mgr.invalid \ {net.ep} # {}
    /\ mgr' = [mgr EXCEPT !.invalid = @ \cap {net.ep}]
    /\ UNCHANGED <<flightVars, ses, job, ops, calls, wire, eng, net, notes, store, told, last, todo>>

-----------------------------------------------------------------------------
Cancels(j) == CancelInLine(j) \/ CancelAtFence(j) \/ CancelOpen(j)

JobStep(j) ==
    \/ Join(j) \/ Wake(j) \/ Check(j) \/ Hydrate(j) \/ TakeSlot(j)
    \/ OpenAnswered(j) \/ LeaveAnswered(j) \/ LeaveTimeout(j)
    \/ Publish(j) \/ Discard(j) \/ Discarded(j)
    \/ Stop(j) \/ StopWaited(j) \/ Drain(j) \/ Drained(j)
    \/ Commit(j) \/ Quiesce(j) \/ Sweep(j)

OpStep(o) ==
    RetryOpen(o) \/ Settle(o) \/ LateClosed(o) \/ Recover(o) \/ Listed(o) \/ Purged(o) \/ LastGrace(o)

(* What the process and the engine do without a fault; a mute engine does
   not answer an open, and then the caller's context ends *)
Progress ==
    \/ \E j \in Jobs : JobStep(j) \/ ((todo.mute \/ mgr.closed) /\ Cancels(j))
    \/ \E o \in ops : OpStep(o)
    \/ \E s \in DOMAIN ses : SesClosed(s)
    \/ \E c \in calls : Write(c)
    \/ \E w \in wire : (w.k = "open" => ~todo.mute) /\ Engine(w)
    \/ \E n \in notes : NoteDown(n) \/ NoteUp(n) \/ EnqueueReconciliation(n)
    \/ Reconnect \/ ObserveLoss \/ ObserveEpoch

Faulty ==
    \/ \E j \in Jobs : Start(j) \/ Shutdown(j) \/ Cancels(j)
    \/ \E c \in calls : DialFails(c)
    \/ \E w \in wire : Engine(w)
    \/ EngineUnload \/ Lose \/ Restart \/ ReconnectFails

Next == Progress \/ Faulty

Spec == Init /\ [][Next]_vars /\ WF_vars(Progress)

-----------------------------------------------------------------------------
(* Properties *)

(* Somebody will see to route x: a session serves it, it is registered for
   closing, or an answer that carries it is on its way to its open. *)
SeenTo(x) ==
    \/ Holder(mgr, x.route) # None
    \/ \E y \in mgr.retiring \cup mgr.refused : y.route = x.route /\ y.ep = x.ep
    \/ \E s \in DOMAIN ses : ses[s].route = x.route /\ ses[s].ep = x.ep /\ (ses[s].closing \/ Routable(s))
    \/ \E c \in calls : c.k = "open" /\ c.res = "ok" /\ c.got[1] = x.route /\ c.ep = x.ep
    \/ \E j \in Jobs : job[j].pc \in {"publish", "discard"} /\ job[j].got[1] = x.route /\ job[j].got[2] = x.ep

(* However acquire, open and awaitDetachedCompletion end (cancelled, late,
   stale, overtaken by Stop or CloseAll), no provider session opened on the
   live connection is left with nobody to close it. *)
NoOrphan == \A x \in eng.live : EpochCurrent(x.ep) => SeenTo(x)

(* A close the engine has still to read (of Stop, of a discarded or late
   route, of recovery, or of a session lost with an earlier engine) never
   names the route of a session that serves a chat. *)
SparesOwned ==
    \A w \in wire : w.k = "close" /\ EpochCurrent(w.ep) =>
        LET s == Holder(mgr, w.arg[1])
        IN  s = None \/ ~(Routable(s) /\ ses[s].ep = net.ep)

(* open, awaitDetachedCompletion and recoverOpenFence: every unanswered open
   holds exactly one of the detached slots, and a fence has an open behind
   it, so neither leaks over timeouts, recovery and late answers. *)
SlotsAccounted ==
    /\ mgr.slots = Cardinality(ops) /\ mgr.slots <= DetachedOpenLimit
    /\ \A c \in Chats : mgr.fence[c] # None => \E o \in ops : o.id = mgr.fence[c] /\ o.chat = c

(* handleDeleteChat against acquisitions in flight: once the record is gone
   no checked acquisition leaves a session for the chat. *)
DeletedStaysGone ==
    \A c \in Chats : store[c].gone /\ mgr.byChat[c] # None => ~ses[mgr.byChat[c]].checked

(* Acquisitions, Stop, deletion, reconciliation and CloseAll all return,
   also when the engine never answers an open. *)
JobsEnd == \A j \in Jobs : job[j].pc # "new" ~> job[j].pc = "done"

Lost(c) ==
    LET s == mgr.byChat[c]
    IN  Worthy(s) /\ ~EpochCurrent(ses[s].ep) /\ c \notin told /\ ~mgr.closed

(* scheduleSessionReconciliation: a chat a browser watches does not stay on
   a dead connection: it is reopened, or its browser gets an error. *)
LossHeals == \A c \in Chats : Lost(c) ~> ~Lost(c)
=============================================================================
