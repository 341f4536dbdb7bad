----------------------------- MODULE EngineHost -----------------------------
(***************************************************************************)
(* Acquisition, ownership and replacement of the engine process behind the *)
(* RPC socket: EnsureDaemon and its launch attempts (internal/omorpc/      *)
(* ensure.go and the unix files beside it), retirement (restart.go,        *)
(* retire_unix.go) and the recovery lifecycle of a server process          *)
(* (internal/api/run.go).  Several servers may share one socket path; the  *)
(* only thing they agree on is the advisory lock beside it.                *)
(*                                                                         *)
(* A process group is one engine: its supervisor and everything below it.  *)
(* The identity of a socket file is its inode, which the file system may   *)
(* give out again once the file is gone.                                   *)
(***************************************************************************)
EXTENDS Integers, FiniteSets

CONSTANTS
    Servers,     \* server processes
    Groups,      \* process groups, numbered from 1 in the order of their launch
    Inodes,      \* identities of socket files
    Outside      \* whoever else starts engines on this path

ASSUME HostAssumption ==
    /\ IsFiniteSet(Groups) /\ Groups \subseteq Nat \ {0}
    /\ IsFiniteSet(Inodes) /\ Inodes \subseteq Nat \ {0}
    /\ Outside \notin Servers

None == 0          \* no group, no inode
Adopted == -1      \* an EnsuredDaemon with Owned = false

VARIABLES
    sock,      \* the inode the socket path names
    grp,       \* the process groups, with the launch record of each
    lock,      \* who holds the ensure lock
    ens,       \* per server its EnsureDaemon call
    lc,        \* per server its recoveryDaemonLifecycle
    rst,       \* per server its engine restart
    srv,       \* per server its Run and the connection of its shared client
    budget,    \* faults left
    cut        \* groups whose socket file was removed while they listened

hostVars == <<sock, grp, lock, ens, lc, rst, srv, budget, cut>>

Free == <<>>
NoEnsure == [pc |-> "idle", who |-> "main", g |-> None, before |-> None, conn |-> None, try |-> 0, retry |-> FALSE]
NoGroup == [st |-> "none", ino |-> None, by |-> Outside, sig |-> "none", reg |-> FALSE, ans |-> "good",
            base |-> None, own |-> {}, foreign |-> {}, stop |-> "no"]
NoRestart == [pc |-> "idle", h |-> None, target |-> None, old |-> {}]

Live(g) == grp[g].st \in {"up", "headless"}
Listeners == {g \in Groups : Live(g) /\ sock # None /\ grp[g].ino = sock}
Refused == Listeners = {}
Listener == CHOOSE g \in Listeners : TRUE
Of(s) == {g \in Groups : grp[g].by = s /\ grp[g].st # "none"}

HostInit(faults, stale) ==
    /\ sock = stale
    /\ grp = [g \in Groups |-> NoGroup]
    /\ lock = Free
    /\ ens = [s \in Servers |-> NoEnsure]
    /\ lc = [s \in Servers |-> [barrier |-> "free", current |-> None, generation |-> {},
                                owned |-> {}, stopping |-> FALSE, err |-> FALSE]]
    /\ rst = [s \in Servers |-> NoRestart]
    /\ srv = [s \in Servers |-> [st |-> "off", ensured |-> None, todo |-> {}, conn |-> None, flight |-> "idle"]]
    /\ budget = faults
    /\ cut = {}

(***************************************************************************)
(* The engines and the file system.  A launched engine binds the path when *)
(* nobody answers there, removing what is left of an older socket.         *)
(***************************************************************************)
Spend(f) == budget[f] > 0 /\ budget' = [budget EXCEPT ![f] = @ - 1]

Bind(g) ==
    /\ grp[g].st = "up" /\ grp[g].ino = None /\ grp[g].sig # "kill" /\ Refused
    /\ \E i \in Inodes \ {grp[h].ino : h \in {h \in Groups : Live(h)}} :
          /\ sock' = i
          /\ grp' = [grp EXCEPT ![g].ino = i]
    /\ UNCHANGED <<lock, ens, lc, rst, srv, budget, cut>>

(* A signalled engine ends, with or without removing its socket file *)
Ends(g) ==
    /\ Live(g) /\ grp[g].sig # "none"
    /\ grp' = [grp EXCEPT ![g].st = "gone"]
    /\ \E tidy \in BOOLEAN :
          /\ tidy => grp[g].sig = "term" /\ sock = grp[g].ino /\ sock # None
          /\ sock' = IF tidy THEN None ELSE sock
    /\ UNCHANGED <<lock, ens, lc, rst, srv, budget, cut>>

(* What a new engine will answer: all we need, too little, or nothing *)
Character(ans) == IF ans = "good" THEN UNCHANGED budget ELSE Spend("odd")

(* An engine dies by itself, or its supervisor does and leaves the rest *)
Dies(g) ==
    /\ Spend("dies")
    /\ \/ Live(g) /\ grp' = [grp EXCEPT ![g].st = "gone"]
       \/ grp[g].st = "up" /\ grp' = [grp EXCEPT ![g].st = "headless"]
    /\ UNCHANGED <<sock, lock, ens, lc, rst, srv, cut>>

Vanish ==
    /\ Spend("vanish") /\ sock # None /\ sock' = None
    /\ UNCHANGED <<grp, lock, ens, lc, rst, srv, cut>>

Unused(g) == grp[g].st = "none" /\ \A h \in Groups : h < g => grp[h].st # "none"

OutsiderStarts(g) ==
    /\ Spend("outside") /\ Unused(g)
    /\ \E ans \in {"good", "old", "mute"} :
          /\ ans # "good" => budget["odd"] > 0
          /\ grp' = [grp EXCEPT ![g].st = "up", ![g].ans = ans]
    /\ UNCHANGED <<sock, lock, ens, lc, rst, srv, cut>>

(* Removing the path removes whatever it names at that moment *)
Unlink ==
    /\ sock' = None
    /\ cut' = cut \cup Listeners

(***************************************************************************)
(* Stopping a launched group: stopOwnedSupervisor runs in a goroutine of   *)
(* its own, once per group, and is joined by whoever needs the result.     *)
(***************************************************************************)
Signal(gr, g, sig) == [gr EXCEPT ![g].sig = IF @ = "kill" THEN @ ELSE sig]
BeginStop(gr, g) == IF gr[g].stop = "no" THEN [Signal(gr, g, "term") EXCEPT ![g].stop = "term"] ELSE gr
Stopping(g) == grp[g].stop \notin {"no", "done", "fail"}
Stopped(g) == grp[g].stop \in {"done", "fail"}

StopWait(g) ==
    /\ grp[g].stop \in {"term", "kill"}
    /\ \/ /\ grp[g].st = "gone"       \* reaped: on to the socket file
          /\ grp' = [grp EXCEPT ![g].stop = IF grp[g].reg THEN "lock" ELSE "clean", ![g].reg = FALSE]
          /\ UNCHANGED budget
       \/ /\ Live(g) /\ grp[g].stop = "term" /\ Spend("stubborn")
          /\ grp' = [Signal(grp, g, "kill") EXCEPT ![g].stop = "kill"]
       \/ /\ Live(g) /\ grp[g].stop = "kill" /\ Spend("stubborn")
          /\ grp' = [grp EXCEPT ![g].stop = "fail"]
    /\ UNCHANGED <<sock, lock, ens, lc, rst, srv, cut>>

(* Wrong: the endpoint of a stopped engine is cleaned up without the lock. *)
CleanUnlocked(g) ==
    /\ grp[g].stop = "lock"
    /\ grp' = [grp EXCEPT ![g].stop = "clean"]
    /\ UNCHANGED <<sock, lock, ens, lc, rst, srv, budget, cut>>

(* cleanupStoppedProcessEndpoint takes the ensure lock, or times out *)
StopLock(g) ==
    /\ grp[g].stop = "lock"
    /\ \/ /\ lock = Free /\ lock' = <<grp[g].by, g>>
          /\ grp' = [grp EXCEPT ![g].stop = "clean"]
       \/ /\ lock # Free /\ UNCHANGED lock
          /\ grp' = [grp EXCEPT ![g].stop = "fail"]
    /\ UNCHANGED <<sock, ens, lc, rst, srv, budget, cut>>

Unlock(holder) == lock' = IF lock = holder THEN Free ELSE lock

Forget(gr, g, how) == [gr EXCEPT ![g].stop = how, ![g].base = None, ![g].own = {}, ![g].foreign = {}]

(* cleanupAfterReap up to the last check of removeOwnedSocket *)
CleanAfterReap(g) ==
    LET novel == sock # None /\ sock \notin grp[g].foreign /\ sock # grp[g].base
        owns == Refused /\ (novel \/ sock \in grp[g].own)
    IN  /\ grp[g].stop = "clean"
        /\ grp' = IF owns THEN [grp EXCEPT ![g].stop = "remove"] ELSE Forget(grp, g, "done")
        /\ IF owns THEN UNCHANGED lock ELSE Unlock(<<grp[g].by, g>>)
        /\ UNCHANGED <<sock, ens, lc, rst, srv, budget, cut>>

RemoveOwned(g) ==
    /\ grp[g].stop = "remove"
    /\ Unlink /\ Unlock(<<grp[g].by, g>>)
    /\ grp' = Forget(grp, g, "done")
    /\ UNCHANGED <<ens, lc, rst, srv, budget>>

(***************************************************************************)
(* EnsureDaemon.  Its caller is Run at startup ("main") or the reconnect   *)
(* flight of the shared client, under the lifecycle's barrier ("flight").  *)
(***************************************************************************)
Cancelled(s) == srv[s].st \in {"quit", "closing"}

(* What becomes of an error: Run fails, the flight dials again *)
ReturnError(s) ==
    /\ Unlock(<<s, 0>>)
    /\ ens' = [ens EXCEPT ![s] = NoEnsure]
    /\ IF ens[s].who = "main"
       THEN srv' = [srv EXCEPT ![s].st = "exited"] /\ UNCHANGED lc
       ELSE srv' = [srv EXCEPT ![s].flight = "idle"] /\ lc' = [lc EXCEPT ![s].barrier = "free"]

(* initialize *)
Initialize(s, d, h) ==
    /\ lc' = [lc EXCEPT ![s].current = d, ![s].generation = @ \cup ({d} \cap Groups)]
    /\ srv' = [srv EXCEPT ![s].st = IF @ = "quit" THEN "stop" ELSE "serving",
                          ![s].ensured = IF d \in Groups THEN d ELSE None, ![s].conn = h]
    /\ ens' = [ens EXCEPT ![s] = NoEnsure]
    /\ UNCHANGED grp

(* retainLocked before shutdown *)
Retain(s, d) ==
    /\ lc' = [lc EXCEPT ![s].current = d, ![s].barrier = "free",
                        ![s].generation = @ \cup ({d} \cap Groups), ![s].owned = @ \cup ({d} \cap Groups)]
    /\ srv' = [srv EXCEPT ![s].flight = "idle"]
    /\ ens' = [ens EXCEPT ![s] = NoEnsure]
    /\ UNCHANGED grp

(* Wrong: a daemon that arrives during shutdown is put on the lists. *)
ReturnAlways(s, d, h) ==
    /\ Unlock(<<s, 0>>)
    /\ IF ens[s].who = "main" THEN Initialize(s, d, h) ELSE Retain(s, d)

(* A daemon d that answered through engine h: initialize at startup, else  *)
(* retainLocked, which stops a daemon that arrives during shutdown         *)
Return(s, d, h) ==
    /\ Unlock(<<s, 0>>)
    /\ IF ens[s].who = "main" THEN Initialize(s, d, h)
       ELSE IF ~lc[s].stopping THEN Retain(s, d)
       ELSE /\ grp' = IF d \in Groups THEN BeginStop(grp, d) ELSE grp
            /\ ens' = [ens EXCEPT ![s] = [NoEnsure EXCEPT !.pc = "late", !.who = "flight", !.conn = d]]
            /\ UNCHANGED <<lc, srv>>

(* stopDaemon of a late daemon: StopBounded outlasts both signals *)
EnsureLate(s) ==
    /\ ens[s].pc = "late"
    /\ ens[s].conn \in Groups => ~Live(ens[s].conn) \/ Stopped(ens[s].conn)
    /\ ens' = [ens EXCEPT ![s] = NoEnsure]
    /\ lc' = [lc EXCEPT ![s].barrier = "free"]
    /\ srv' = [srv EXCEPT ![s].flight = "idle"]
    /\ UNCHANGED <<sock, grp, lock, rst, budget, cut>>

(* The probes before and after the lock.  An engine that never answers, or *)
(* one without the required capabilities, is an error and never replaced.  *)
EnsureProbe(s) ==
    /\ ens[s].pc \in {"probe", "again"}
    /\ IF Cancelled(s) THEN ReturnError(s) /\ UNCHANGED grp
       ELSE IF Refused
       THEN /\ ens' = [ens EXCEPT ![s].pc = IF @ = "probe" THEN "lock" ELSE "spawn"]
            /\ UNCHANGED <<grp, lock, lc, srv>>
       ELSE IF grp[Listener].ans = "good" THEN \E h \in Listeners : Return(s, Adopted, h)
       ELSE ReturnError(s) /\ UNCHANGED grp
    /\ UNCHANGED <<sock, rst, budget, cut>>

EnsureLock(s) ==
    /\ ens[s].pc = "lock"
    /\ \/ /\ ~Cancelled(s) /\ lock = Free /\ lock' = <<s, 0>>
          /\ ens' = [ens EXCEPT ![s].pc = "again"]
          /\ UNCHANGED <<lc, srv>>
       \/ (Cancelled(s) \/ lock # Free) /\ ReturnError(s)
    /\ UNCHANGED <<sock, grp, rst, budget, cut>>

(* spawnDaemonAttempt: the path's identity before the launch is recorded *)
EnsureSpawn(s) ==
    /\ ens[s].pc = "spawn"
    /\ \/ \E g \in Groups :
          \E ans \in {"good", "old", "mute"} :
             /\ Unused(g) /\ Character(ans)
             /\ grp' = [grp EXCEPT ![g] = [NoGroup EXCEPT !.st = "up", !.by = s, !.base = sock, !.ans = ans]]
             /\ ens' = [ens EXCEPT ![s].pc = "loop", ![s].g = g, ![s].try = @ + 1]
             /\ UNCHANGED <<lock, lc, srv>>
       \/ /\ \A g \in Groups : ~Unused(g)      \* the supervisor does not start
          /\ ReturnError(s) /\ UNCHANGED <<grp, budget>>
    /\ UNCHANGED <<sock, rst, cut>>

(* endpointProvenance.observe: engine h was met behind inode i *)
ObservePeer(gr, g, i, h) ==
    IF h # g THEN [gr EXCEPT ![g].foreign = @ \cup {i}, ![g].own = @ \ {i}]
    ELSE IF i # gr[g].base /\ i \notin gr[g].foreign THEN [gr EXCEPT ![g].own = @ \cup {i}]
    ELSE gr

(* One turn of the readiness loop: authenticate the path, start a handshake *)
EnsureLook(s) ==
    /\ ens[s].pc = "loop" /\ ~Cancelled(s)
    /\ \E h \in Listeners :
          /\ grp' = ObservePeer(grp, ens[s].g, sock, h)
          /\ IF grp[h].ans = "mute" THEN UNCHANGED ens
             ELSE ens' = [ens EXCEPT ![s].pc = "handshake", ![s].before = sock, ![s].conn = h]
    /\ UNCHANGED <<sock, lock, lc, rst, srv, budget, cut>>

Settle(s, pc, retry) == ens' = [ens EXCEPT ![s].pc = pc, ![s].retry = retry, ![s].before = None]

(* The handshake is over: the path must still name the same file *)
EnsureHandshake(s) ==
    LET g == ens[s].g
        h == ens[s].conn
        i == ens[s].before
        seen == ObservePeer(grp, g, i, h)
    IN  /\ ens[s].pc = "handshake"
        /\ IF ~Live(h) \/ sock # i \/ Cancelled(s)
           THEN /\ ens' = [ens EXCEPT ![s].pc = "loop", ![s].before = None, ![s].conn = None]
                /\ UNCHANGED <<grp, lock, lc, srv>>
           ELSE IF grp[h].ans = "old"
           THEN grp' = BeginStop(seen, g) /\ Settle(s, "cleanup", TRUE) /\ UNCHANGED <<lock, lc, srv>>
           ELSE IF i \in seen[g].own
           THEN /\ ens' = [ens EXCEPT ![s].pc = "ready", ![s].before = None]
                /\ grp' = [seen EXCEPT ![g].reg = TRUE]     \* ownedProcessSockets
                /\ UNCHANGED <<lock, lc, srv>>
           ELSE grp' = BeginStop(seen, g) /\ Settle(s, "yield", FALSE) /\ UNCHANGED <<lock, lc, srv>>
        /\ UNCHANGED <<sock, rst, budget, cut>>

EnsureReady(s) ==
    /\ ens[s].pc = "ready" /\ Return(s, ens[s].g, ens[s].conn)
    /\ UNCHANGED <<sock, rst, budget, cut>>

(* The supervisor exited, or the readiness deadline or the caller's context ended *)
EnsureGiveUp(s) ==
    /\ ens[s].pc = "loop"
    /\ \/ /\ grp[ens[s].g].st \in {"headless", "gone"}
          /\ Settle(s, "cleanup", TRUE) /\ UNCHANGED budget
       \/ Cancelled(s) /\ Settle(s, "cleanup", FALSE) /\ UNCHANGED budget
       \/ ~Cancelled(s) /\ Settle(s, "cleanup", TRUE) /\ Spend("slow")
    /\ grp' = BeginStop(grp, ens[s].g)
    /\ UNCHANGED <<sock, lock, lc, rst, srv, cut>>

(* The attempt's group is gone: the node runtime is tried once, the client *)
(* of a foreign engine is returned, or the error is                        *)
EnsureCleaned(s) ==
    LET g == ens[s].g IN
    /\ ens[s].pc \in {"cleanup", "yield"} /\ Stopped(g)
    /\ IF grp[g].stop = "fail" THEN ReturnError(s) /\ UNCHANGED grp
       ELSE IF ens[s].pc = "yield" THEN Return(s, Adopted, ens[s].conn)
       ELSE IF ens[s].retry /\ ens[s].try = 1 /\ ~Cancelled(s)
       THEN /\ ens' = [ens EXCEPT ![s].pc = "spawn", ![s].g = None, ![s].conn = None, ![s].retry = FALSE]
            /\ UNCHANGED <<grp, lock, lc, srv>>
       ELSE ReturnError(s) /\ UNCHANGED grp
    /\ UNCHANGED <<sock, rst, budget, cut>>

(***************************************************************************)
(* A server process: Run, the shared client's reconnect flight, the engine *)
(* restart and the shutdown.                                               *)
(***************************************************************************)
(* A call makes one launch attempt or, without a cached or configured runtime, two *)
CallEnsure(s, who) ==
    \E try \in {0, 1} : ens' = [ens EXCEPT ![s] = [NoEnsure EXCEPT !.pc = "probe", !.who = who, !.try = try]]

Boot(s) ==
    /\ srv[s].st = "off" /\ Spend("boot")
    /\ srv' = [srv EXCEPT ![s].st = "starting"]
    /\ CallEnsure(s, "main")
    /\ UNCHANGED <<sock, grp, lock, lc, rst, cut>>

(* The connection ends with its engine, or breaks while the engine lives *)
Lost(s) ==
    /\ srv[s].conn # None
    /\ \/ ~Live(srv[s].conn) /\ UNCHANGED budget
       \/ Spend("drop")
    /\ srv' = [srv EXCEPT ![s].conn = None]
    /\ UNCHANGED <<sock, grp, lock, ens, lc, rst, cut>>

(* An attempt of a reconnect flight: any engine that answers will do, and  *)
(* only a missing path runs the OnDialNotExist hook                        *)
Redial(s) ==
    /\ srv[s].st = "serving" /\ srv[s].conn = None /\ srv[s].flight = "idle"
    /\ \/ /\ sock = None
          /\ srv' = [srv EXCEPT ![s].flight = "hook"]
       \/ \E h \in Listeners :
             /\ grp[h].ans # "mute"
             /\ srv' = [srv EXCEPT ![s].conn = h]
    /\ UNCHANGED <<sock, grp, lock, ens, lc, rst, budget, cut>>

(* recoveryDaemonLifecycle.ensure *)
HookEnter(s) ==
    /\ srv[s].flight = "hook" /\ lc[s].barrier = "free"
    /\ IF lc[s].err \/ Cancelled(s)
       THEN srv' = [srv EXCEPT ![s].flight = "idle"] /\ UNCHANGED <<ens, lc>>
       ELSE /\ lc' = [lc EXCEPT ![s].barrier = "ensure"]
            /\ srv' = [srv EXCEPT ![s].flight = "run"]
            /\ CallEnsure(s, "flight")
    /\ UNCHANGED <<sock, grp, lock, rst, budget, cut>>

(* POST engine restart, under updateMu; its worker goes on after the response *)
RestartBegin(s) ==
    /\ srv[s].st = "serving" /\ rst[s].pc = "idle" /\ Spend("restart")
    /\ rst' = [rst EXCEPT ![s].pc = "barrier"]
    /\ UNCHANGED <<sock, grp, lock, ens, lc, srv, cut>>

(* Wrong: the restart does not wait for a recovery that is spawning. *)
RestartAtOnce(s) ==
    /\ rst[s].pc = "barrier"
    /\ lc' = [lc EXCEPT ![s].barrier = "restart"]
    /\ rst' = [rst EXCEPT ![s].pc = IF lc[s].current \in Groups THEN "stop" ELSE "retire"]
    /\ UNCHANGED <<sock, grp, lock, ens, srv, budget, cut>>

(* stopCurrent is admitted *)
RestartAdmit(s) ==
    /\ rst[s].pc = "barrier" /\ lc[s].barrier = "free"
    /\ lc' = [lc EXCEPT ![s].barrier = "restart"]
    /\ rst' = [rst EXCEPT ![s].pc = IF lc[s].current \in Groups THEN "stop" ELSE "retire"]
    /\ UNCHANGED <<sock, grp, lock, ens, srv, budget, cut>>

RestartError(s, err) ==
    /\ rst' = [rst EXCEPT ![s] = [NoRestart EXCEPT !.pc = "err"]]
    /\ lc' = [lc EXCEPT ![s].barrier = "free", ![s].err = @ \/ err]

(* retireUnownedEngine up to SIGTERM: the peer must answer and lead its group *)
Retire(s) ==
    /\ rst[s].pc = "retire"
    /\ \/ /\ sock = None
          /\ rst' = [rst EXCEPT ![s].pc = "stop"] /\ UNCHANGED <<grp, lc>>
       \/ /\ sock # None /\ Refused
          /\ rst' = [rst EXCEPT ![s].pc = "rlock", ![s].target = sock] /\ UNCHANGED <<grp, lc>>
       \/ \E h \in Listeners :
             /\ grp[h].ans # "mute"
             /\ grp' = Signal(grp, h, "term")
             /\ rst' = [rst EXCEPT ![s].pc = "rterm", ![s].h = h, ![s].target = sock] /\ UNCHANGED lc
       \/ Listeners # {} /\ RestartError(s, FALSE) /\ UNCHANGED grp
    /\ UNCHANGED <<sock, lock, ens, srv, budget, cut>>

(* waitEngineGroupGone after SIGTERM and after SIGKILL *)
RetireWait(s) ==
    /\ rst[s].pc \in {"rterm", "rkill"}
    /\ \/ /\ ~Live(rst[s].h)
          /\ rst' = [rst EXCEPT ![s].pc = "rlock", ![s].h = None] /\ UNCHANGED <<grp, lc, budget>>
       \/ /\ Live(rst[s].h) /\ rst[s].pc = "rterm" /\ Spend("stubborn")
          /\ grp' = Signal(grp, rst[s].h, "kill")
          /\ rst' = [rst EXCEPT ![s].pc = "rkill"] /\ UNCHANGED lc
       \/ /\ Live(rst[s].h) /\ rst[s].pc = "rkill" /\ Spend("stubborn")
          /\ RestartError(s, TRUE) /\ UNCHANGED grp
    /\ UNCHANGED <<sock, lock, ens, srv, cut>>

(* cleanupRetiredSocket: without the lock the file stays *)
RetireLock(s) ==
    /\ rst[s].pc = "rlock"
    /\ LET remove == lock = Free /\ Refused /\ sock = rst[s].target
       IN  /\ rst' = [rst EXCEPT ![s].pc = IF remove THEN "rremove" ELSE "stop", ![s].target = None]
           /\ lock' = IF remove THEN <<s, -1>> ELSE lock
    /\ UNCHANGED <<sock, grp, ens, lc, srv, budget, cut>>

RetireRemove(s) ==
    /\ rst[s].pc = "rremove"
    /\ Unlink /\ Unlock(<<s, -1>>)
    /\ rst' = [rst EXCEPT ![s].pc = "stop"]
    /\ UNCHANGED <<grp, ens, lc, srv, budget>>

(* StopSupervisor of every daemon of the generation, one after the other *)
RestartStop(s) ==
    /\ rst[s].pc = "stop"
    /\ \A g \in lc[s].generation : ~Stopping(g)
    /\ \E g \in lc[s].generation : grp[g].stop = "no" /\ grp' = BeginStop(grp, g)
    /\ UNCHANGED <<sock, lock, ens, lc, rst, srv, budget, cut>>

(* All are stopped: fence the connection and let the successor be spawned, *)
(* or refuse every further spawn                                           *)
RestartFence(s) ==
    /\ rst[s].pc = "stop" /\ \A g \in lc[s].generation : Stopped(g)
    /\ IF \E g \in lc[s].generation : grp[g].stop = "fail"
       THEN RestartError(s, TRUE) /\ UNCHANGED srv
       ELSE /\ rst' = [rst EXCEPT ![s].pc = "join", ![s].old = Of(s)]
            /\ lc' = [lc EXCEPT ![s].barrier = "free", ![s].current = None,
                                ![s].generation = {}, ![s].err = FALSE]
            /\ srv' = [srv EXCEPT ![s].conn = None, ![s].flight = IF @ = "hook" THEN "idle" ELSE @]
    /\ UNCHANGED <<sock, grp, lock, ens, budget, cut>>

(* EnsureConnectedAfter, then currentOwned; or the budget is used up *)
RestartJoin(s) ==
    /\ rst[s].pc = "join"
    /\ \/ /\ srv[s].conn # None
          /\ rst' = [rst EXCEPT ![s].pc = IF lc[s].current \in Groups THEN "ok" ELSE "err"]
       \/ rst' = [rst EXCEPT ![s].pc = "err"]
    /\ UNCHANGED <<sock, grp, lock, ens, lc, srv, budget, cut>>

RestartEnd(s) ==
    /\ rst[s].pc \in {"ok", "err"}
    /\ rst' = [rst EXCEPT ![s] = NoRestart]
    /\ UNCHANGED <<sock, grp, lock, ens, lc, srv, budget, cut>>

(* The process is told to stop: cleanupAll, recoveryDaemons.stop first *)
Quit(s) ==
    /\ Spend("quit")
    /\ \/ srv[s].st = "starting" /\ srv' = [srv EXCEPT ![s].st = "quit"] /\ UNCHANGED lc
       \/ /\ srv[s].st = "serving"
          /\ srv' = [srv EXCEPT ![s].st = "stop", ![s].todo = lc[s].owned]
          /\ lc' = [lc EXCEPT ![s].stopping = TRUE, ![s].owned = {}]
    /\ UNCHANGED <<sock, grp, lock, ens, rst, cut>>

(* StopBounded: begun, then joined, or left when only the socket file is to do *)
QuitStop(s) ==
    /\ srv[s].st = "stop"
    /\ \/ \E g \in srv[s].todo :
             \/ grp[g].stop = "no" /\ grp' = BeginStop(grp, g) /\ UNCHANGED srv
             \/ /\ ~Live(g) \/ Stopped(g)
                /\ grp[g].stop # "no" /\ UNCHANGED grp
                /\ srv' = [srv EXCEPT ![s].todo = @ \ {g}]
       \/ /\ srv[s].todo = {} /\ UNCHANGED grp
          /\ srv' = [srv EXCEPT ![s].st = "closing", ![s].conn = None]
    /\ UNCHANGED <<sock, lock, ens, lc, rst, budget, cut>>

(* What is left of a process that has gone: its lock is free, its goroutines are no more *)
Gone(s, how) ==
    /\ srv' = [srv EXCEPT ![s] = [st |-> how, ensured |-> None, todo |-> {}, conn |-> None, flight |-> "idle"]]
    /\ ens' = [ens EXCEPT ![s] = NoEnsure]
    /\ rst' = [rst EXCEPT ![s] = NoRestart]
    /\ lc' = [lc EXCEPT ![s] = [barrier |-> "free", current |-> None, generation |-> {},
                                owned |-> {}, stopping |-> FALSE, err |-> FALSE]]
    /\ lock' = IF lock # Free /\ lock[1] = s THEN Free ELSE lock

GroupsLeft(s) ==
    [g \in Groups |-> IF grp[g].by = s /\ grp[g].stop # "no" THEN Forget(grp, g, "fail")[g] ELSE grp[g]]

(* stopDaemon: the client is closed, which waits for its flight, and the   *)
(* daemon of the startup is stopped                                        *)
QuitClose(s) ==
    LET d == srv[s].ensured IN
    /\ srv[s].st = "closing" /\ srv[s].flight = "idle"
    /\ IF d # None /\ grp[d].stop = "no"
       THEN grp' = BeginStop(grp, d) /\ UNCHANGED <<lock, ens, lc, rst, srv>>
       ELSE /\ d # None => ~Live(d) \/ Stopped(d)
            /\ Gone(s, "exited") /\ grp' = GroupsLeft(s)
    /\ UNCHANGED <<sock, budget, cut>>

Crash(s) ==
    /\ srv[s].st \notin {"off", "exited", "crashed"} /\ Spend("crash")
    /\ Gone(s, "crashed") /\ grp' = GroupsLeft(s)
    /\ UNCHANGED <<sock, cut>>

HostNext ==
    \/ \E g \in Groups : Bind(g) \/ Ends(g) \/ Dies(g) \/ OutsiderStarts(g)
    \/ \E g \in Groups : StopWait(g) \/ StopLock(g) \/ CleanAfterReap(g) \/ RemoveOwned(g)
    \/ Vanish
    \/ \E s \in Servers :
          \/ EnsureLate(s) \/ EnsureProbe(s) \/ EnsureLock(s) \/ EnsureSpawn(s) \/ EnsureLook(s)
          \/ EnsureHandshake(s) \/ EnsureReady(s) \/ EnsureGiveUp(s) \/ EnsureCleaned(s)
          \/ Boot(s) \/ Lost(s) \/ Redial(s) \/ HookEnter(s)
          \/ RestartBegin(s) \/ RestartAdmit(s) \/ Retire(s) \/ RetireWait(s) \/ RetireLock(s)
          \/ RetireRemove(s) \/ RestartStop(s) \/ RestartFence(s) \/ RestartJoin(s) \/ RestartEnd(s)
          \/ Quit(s) \/ QuitStop(s) \/ QuitClose(s) \/ Crash(s)

\* What is bounded, for any bounds and any file the path may name at first.
HostFaults == {"boot", "dies", "drop", "vanish", "outside", "crash", "restart", "quit",
               "slow", "stubborn", "odd"}

HostSpec ==
    /\ \E risks \in [HostFaults -> Nat], stale \in Inodes \cup {None} : HostInit(risks, stale)
    /\ [][HostNext]_hostVars

(***************************************************************************)
(* Properties                                                              *)
(***************************************************************************)
(* No engine is left that nothing will stop (retainLocked, run.go:99): an  *)
(* engine a running server launched and has not signalled is the one its   *)
(* EnsureDaemon is still launching, or both a restart and the shutdown of  *)
(* that server will stop it; what outlives the shutdown has had SIGKILL.   *)
(* The engines of a server that crashed are its successor's to adopt.      *)
NoEngineLeaks ==
    \A s \in Servers : \A g \in Of(s) : Live(g) =>
        \/ srv[s].st = "crashed"
        \/ srv[s].st = "exited" /\ grp[g].sig = "kill"
        \/ /\ srv[s].st # "exited"
           /\ \/ grp[g].sig # "none" \/ g = ens[s].g
              \/ g \in lc[s].generation /\ g \in lc[s].owned \cup srv[s].todo \cup {srv[s].ensured}

(* A restart admits its successor only over dead engines (stopCurrent,     *)
(* run.go:139): every engine this server had launched when the connection  *)
(* was fenced has ended, and the one a successful restart reports is none  *)
(* of them.  A launch that failed and outlived its SIGKILL was never       *)
(* published, and nobody waits for it.                                     *)
RestartReplaces ==
    \A s \in Servers : rst[s].pc \in {"join", "ok"} /\ srv[s].st = "serving" =>
        /\ \A g \in rst[s].old : Live(g) => grp[g].sig = "kill" /\ grp[g].stop = "fail" /\ ~grp[g].reg
        /\ lc[s].current \notin rst[s].old

(* Cleaning up a socket path (removeOwnedSocket, ensure_endpoint_unix.go:105) *)
(* never takes the path from an engine that a server launched under the    *)
(* lock and saw ready.  Engines started by others, and the ones a crashed  *)
(* server was still launching, do not take the lock.                       *)
SparesCooperators == \A g \in cut : grp[g].by \notin Servers \/ (srv[grp[g].by].st = "crashed" /\ ~grp[g].reg)
=============================================================================
