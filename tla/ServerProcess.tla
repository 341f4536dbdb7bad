--------------------------- MODULE ServerProcess ---------------------------
(***************************************************************************)
(* The background server: `--daemon`, `--stop` and `--status` of           *)
(* cmd/server/main.go over internal/daemon.  One flock says whether a      *)
(* server runs, one file says which process it is.  The lock belongs to an *)
(* open file: a started server inherits it from its launcher, and whoever  *)
(* the server starts would inherit it too.                                 *)
(***************************************************************************)
EXTENDS Integers, FiniteSets

CONSTANTS
    Commands,   \* invocations of the command line program
    Pids        \* server processes, by process id; -p is the engine p starts

ASSUME ProcessAssumption ==
    IsFiniteSet(Pids) /\ Pids \subseteq Nat \ {0} /\ Commands \cap Pids = {}

NoPid == 0

VARIABLES
    held,      \* who has the locked file open
    pidfile,   \* the process id in the pid file
    cmd,       \* per command what it does and the process it is about
    proc,      \* per server process its progress
    mishaps    \* crashes and deadlines left

processVars == <<held, pidfile, cmd, proc, mishaps>>

Alive(p) == proc[p].st \notin {"none", "gone"}

ProcessInit(n) ==
    /\ held = {} /\ pidfile = NoPid
    /\ cmd = [c \in Commands |-> [pc |-> "idle", p |-> NoPid]]
    /\ proc = [p \in Pids |-> [st |-> "none", told |-> FALSE, cloexec |-> FALSE, engine |-> FALSE, byte |-> FALSE]]
    /\ mishaps = n

Mishap == mishaps > 0 /\ mishaps' = mishaps - 1
Do(c, pc) == cmd' = [cmd EXCEPT ![c].pc = pc]
Done(c) == cmd' = [cmd EXCEPT ![c] = [pc |-> "done", p |-> NoPid]]
RemoveIfOwned(p) == pidfile' = IF pidfile = p THEN NoPid ELSE pidfile

(* flock without waiting *)
StartLock(c) ==
    /\ cmd[c].pc = "idle"
    /\ IF held = {} THEN held' = {c} /\ Do(c, "spawn")
       ELSE Done(c) /\ UNCHANGED held      \* already running
    /\ UNCHANGED <<pidfile, proc, mishaps>>

(* The child has the lock's file as descriptor 3 *)
StartSpawn(c) ==
    /\ cmd[c].pc = "spawn"
    /\ \E p \in Pids :
          /\ proc[p].st = "none" /\ \A q \in Pids : q < p => proc[q].st # "none"
          /\ proc' = [proc EXCEPT ![p].st = "boot"]
          /\ held' = held \cup {p}
          /\ cmd' = [cmd EXCEPT ![c] = [pc |-> "wait", p |-> p]]
    /\ pidfile' = NoPid
    /\ UNCHANGED mishaps

(* waitForReady: the byte, the end of the pipe, or the deadline.  A child  *)
(* that is not ready is killed and reaped                                  *)
StartWait(c) ==
    LET p == cmd[c].p IN
    /\ cmd[c].pc = "wait"
    /\ \/ /\ proc[p].byte
          /\ Done(c) /\ held' = held \ {c} /\ UNCHANGED <<proc, mishaps>>
       \/ proc[p].st = "gone" /\ ~proc[p].byte /\ Do(c, "undo") /\ UNCHANGED <<held, proc, mishaps>>
       \/ /\ Mishap /\ Alive(p) /\ ~proc[p].byte
          /\ proc' = [proc EXCEPT ![p].st = "gone"]
          /\ held' = held \ {p} /\ Do(c, "undo")
    /\ UNCHANGED pidfile

(* The end of a failed start, and of a stop that has the lock *)
Undo(c) ==
    /\ cmd[c].pc = "undo"
    /\ RemoveIfOwned(cmd[c].p)
    /\ held' = held \ {c} /\ Done(c)
    /\ UNCHANGED <<proc, mishaps>>

(* Wrong: the lock is given back before the stale pid file is removed. *)
ProbeAndRelease(c, next) ==
    /\ cmd[c].pc = "idle"
    /\ Do(c, IF held = {} THEN "clean" ELSE next) /\ UNCHANGED held
    /\ UNCHANGED <<pidfile, proc, mishaps>>

(* lockAcquire of stop and status *)
Probe(c, next) ==
    /\ cmd[c].pc = "idle"
    /\ IF held = {} THEN held' = {c} /\ Do(c, "clean")
       ELSE Do(c, next) /\ UNCHANGED held
    /\ UNCHANGED <<pidfile, proc, mishaps>>

StopProbe(c) == Probe(c, "read")
StatusProbe(c) == Probe(c, "done")

(* Nobody runs: what a crash left behind is removed *)
Clean(c) ==
    /\ cmd[c].pc = "clean"
    /\ pidfile' = NoPid /\ held' = held \ {c} /\ Done(c)
    /\ UNCHANGED <<proc, mishaps>>

StopRead(c) ==
    /\ cmd[c].pc = "read"
    /\ IF pidfile = NoPid THEN Done(c) ELSE cmd' = [cmd EXCEPT ![c] = [pc |-> "term", p |-> pidfile]]
    /\ UNCHANGED <<held, pidfile, proc, mishaps>>

StopTerm(c) ==
    LET p == cmd[c].p IN
    /\ cmd[c].pc = "term"
    /\ proc' = IF Alive(p) THEN [proc EXCEPT ![p].told = TRUE] ELSE proc
    /\ Do(c, "await")
    /\ UNCHANGED <<held, pidfile, mishaps>>

(* waitForLockFree; when it times out SIGKILL, and once more *)
StopAwait(c) ==
    LET p == cmd[c].p IN
    /\ cmd[c].pc \in {"await", "last"}
    /\ \/ held = {} /\ held' = {c} /\ Do(c, "undo") /\ UNCHANGED <<proc, mishaps>>
       \/ /\ held # {} /\ cmd[c].pc = "await" /\ Mishap
          /\ proc' = IF Alive(p) THEN [proc EXCEPT ![p].st = "gone"] ELSE proc
          /\ held' = held \ {p} /\ Do(c, "last")
       \/ /\ held # {} /\ cmd[c].pc = "last" /\ Mishap
          /\ Done(c) /\ UNCHANGED <<held, proc>>
    /\ UNCHANGED pidfile

(***************************************************************************)
(* The server process                                                      *)
(***************************************************************************)
(* prepareChild: the lock is not for the processes it starts *)
ChildPrepare(p) ==
    /\ proc[p].st = "boot"
    /\ proc' = [proc EXCEPT ![p].st = "run", ![p].cloexec = TRUE]
    /\ UNCHANGED <<held, pidfile, cmd, mishaps>>

(* Run starts the engine, which may outlive it *)
ChildEngine(p) ==
    /\ proc[p].st = "run" /\ ~proc[p].engine
    /\ proc' = [proc EXCEPT ![p].engine = TRUE]
    /\ held' = IF proc[p].cloexec THEN held ELSE held \cup {-p}
    /\ UNCHANGED <<pidfile, cmd, mishaps>>

(* childReady: the pid file first, then the byte *)
ChildPid(p) ==
    /\ proc[p].st = "run" /\ proc[p].engine
    /\ pidfile' = p
    /\ proc' = [proc EXCEPT ![p].st = "named"]
    /\ UNCHANGED <<held, cmd, mishaps>>

ChildReady(p) ==
    /\ proc[p].st = "named"
    /\ proc' = [proc EXCEPT ![p].st = "ready", ![p].byte = TRUE]
    /\ UNCHANGED <<held, pidfile, cmd, mishaps>>

(* Run has returned, told to or with an error: RemoveChildPIDFile, then    *)
(* the lock is closed                                                      *)
ChildExit(p) ==
    /\ \/ /\ \/ proc[p].st = "ready" /\ proc[p].told /\ UNCHANGED mishaps
             \/ proc[p].st \in {"boot", "run", "ready"} /\ ~proc[p].told /\ Mishap
          /\ RemoveIfOwned(p)
          /\ proc' = [proc EXCEPT ![p].st = "exit"]
          /\ UNCHANGED held
       \/ /\ proc[p].st = "exit"
          /\ held' = held \ {p}
          /\ proc' = [proc EXCEPT ![p].st = "gone"]
          /\ UNCHANGED <<pidfile, mishaps>>
    /\ UNCHANGED cmd

ChildCrash(p) ==
    /\ Alive(p) /\ Mishap
    /\ proc' = [proc EXCEPT ![p].st = "gone"]
    /\ held' = held \ {p}
    /\ UNCHANGED <<pidfile, cmd>>

ProcessNext ==
    \/ \E c \in Commands :
          \/ StartLock(c) \/ StartSpawn(c) \/ StartWait(c) \/ Undo(c)
          \/ StopProbe(c) \/ StatusProbe(c) \/ Clean(c) \/ StopRead(c) \/ StopTerm(c) \/ StopAwait(c)
    \/ \E p \in Pids :
          ChildPrepare(p) \/ ChildEngine(p) \/ ChildPid(p) \/ ChildReady(p) \/ ChildExit(p) \/ ChildCrash(p)

ProcessSpec == (\E n \in Nat : ProcessInit(n)) /\ [][ProcessNext]_processVars

(* A server in service can be found and stopped, and one that is gone is   *)
(* not in the way (daemon_unix.go): a ready server nobody told to stop is  *)
(* named by the pid file and holds the lock, it is the only one, and the   *)
(* lock is in the hands of commands and living servers, never of an engine *)
(* that outlives its server.                                               *)
ServerReachable ==
    /\ \A p \in Pids : proc[p].st = "ready" /\ ~proc[p].told => pidfile = p /\ p \in held
    /\ \A p, q \in Pids : proc[p].st = "ready" /\ proc[q].st = "ready" => p = q
    /\ \A h \in held : h \in Commands \/ (h \in Pids /\ Alive(h))
=============================================================================
