------------------------------ MODULE ChatName ------------------------------
(***************************************************************************)
(* Who names a chat.  The name in the cursor store is written by the       *)
(* rename handler (api/chat.go), by the live session (SetSessionName,      *)
(* applyAutoTitle and applyProviderName of internal/session/session.go)    *)
(* and by the watcher of the engine's sessions (api/enrollment.go).  The   *)
(* three of a session take turns with its nameMu; the handler and the      *)
(* watcher do not know that mutex.                                         *)
(*                                                                         *)
(* An instant is modelled by what the code compares it for: an observation *)
(* is stale when the title has changed since it was made.                  *)
(***************************************************************************)
EXTENDS Integers, FiniteSets, Sequences

CONSTANTS
    Renames,       \* rename requests, each with a name of its own
    Titlers,       \* accepted prompts, each deriving the same title
    EngineNames,   \* names the engine or another of its clients may choose
    AutoName,      \* the title derived from a prompt
    MaxGen         \* how often the chat's session is opened

NoName == "none"
Event == "event"       \* the event loop, which applies one event after the other
Tick == "tick"         \* the goroutine of ApplyDaemonName
Namers == Titlers \cup {Event, Tick}

ASSUME NameAssumption ==
    /\ IsFiniteSet(Renames) /\ IsFiniteSet(Titlers) /\ MaxGen \in Nat
    /\ NoName \notin Renames \cup Namers /\ Renames \cap Namers = {}

VARIABLES
    row,       \* name, source and placeholder mark in the store
    sess,      \* the session that owns the chat
    mu,        \* per opening, who has nameMu
    namer,     \* per applyAutoTitle or applyProviderName its progress
    req,       \* per rename request its progress
    eng,       \* the engine's name for the session
    events,    \* session_info_changed under way
    snap,      \* the watcher's snapshot of that name
    renamed,   \* a rename has been answered
    crossed,   \* a name was written for, or kept from, a session that had gone
    faults     \* connection losses and failed writes left

nameVars == <<row, sess, mu, namer, req, eng, events, snap, renamed, crossed, faults>>

IdleNamer == [pc |-> "idle", gen |-> 0, name |-> NoName, stale |-> FALSE]
NoSnap == [pc |-> "idle", name |-> NoName, stale |-> FALSE]

NameInit(n) ==
    /\ row = [name |-> NoName, src |-> "auto", ph |-> TRUE]
    /\ sess = [gen |-> 0, st |-> "none", title |-> NoName, src |-> "auto"]
    /\ mu = [g \in 1 .. MaxGen |-> NoName]
    /\ namer = [p \in Namers |-> IdleNamer]
    /\ req = [r \in Renames |-> [pc |-> "idle", gen |-> 0]]
    /\ eng = NoName /\ events = <<>> /\ snap = NoSnap
    /\ renamed = FALSE /\ crossed = FALSE
    /\ faults = n

Open(g) == sess.gen = g /\ sess.st = "open"
Fault == faults > 0 /\ faults' = faults - 1

UpdateName(name, src) == row' = [name |-> name, src |-> src, ph |-> FALSE]

(* adoptTitleLocked: a change makes every earlier observation stale *)
Stale(next) == [next EXCEPT ![Tick].stale = (@ \/ next[Tick].pc # "idle")]
StaleSnap == [snap EXCEPT !.stale = (@ \/ snap.pc # "idle")]
AdoptTitle(name, src, next) ==
    LET same == sess.title = name /\ sess.src = src
    IN  /\ sess' = [sess EXCEPT !.title = name, !.src = src]
        /\ namer' = IF same THEN next ELSE Stale(next)
        /\ snap' = IF same THEN snap ELSE StaleSnap

Told(name) == eng' = name /\ events' = IF eng = name THEN events ELSE Append(events, name)

(***************************************************************************)
(* The session: opened from the stored name, lost or closed                *)
(***************************************************************************)
OpenRead ==
    /\ sess.st \in {"none", "lost"} /\ sess.gen < MaxGen
    /\ LET kept == IF row.ph /\ row.src # "user" THEN NoName ELSE row.name
           name == IF kept = NoName /\ row.src # "user" THEN eng ELSE kept
       IN  sess' = [gen |-> sess.gen + 1, st |-> "opening", title |-> name, src |-> row.src]
    /\ UNCHANGED <<row, mu, namer, req, eng, events, snap, renamed, crossed, faults>>

OpenNamed ==
    /\ sess.st = "opening"
    /\ sess' = [sess EXCEPT !.st = "open"]
    /\ IF sess.title = NoName THEN UNCHANGED <<namer, snap>>
       ELSE namer' = Stale(namer) /\ snap' = StaleSnap
    /\ events' = <<>>
    /\ UNCHANGED <<row, mu, req, eng, renamed, crossed, faults>>

Lose ==
    /\ sess.st = "open" /\ Fault
    /\ sess' = [sess EXCEPT !.st = "lost"]
    /\ events' = <<>>
    /\ UNCHANGED <<row, mu, namer, req, eng, snap, renamed, crossed>>

EngineRenames ==
    /\ \E n \in EngineNames : n # eng /\ Told(n)
    /\ Fault
    /\ UNCHANGED <<row, sess, mu, namer, req, snap, renamed, crossed>>

(***************************************************************************)
(* applyAutoTitle and applyProviderName                                    *)
(***************************************************************************)
Begin(p, name, stale) ==
    /\ namer[p].pc = "idle"
    /\ namer' = [namer EXCEPT ![p] = [pc |-> "wait", gen |-> sess.gen, name |-> name, stale |-> stale]]

TitlerBegins(p) ==
    /\ sess.st = "open" /\ Begin(p, AutoName, FALSE)
    /\ UNCHANGED <<row, sess, mu, req, eng, events, snap, renamed, crossed, faults>>

EventBegins ==
    /\ sess.st = "open" /\ events # <<>>
    /\ Begin(Event, Head(events), FALSE) /\ events' = Tail(events)
    /\ UNCHANGED <<row, sess, mu, req, eng, snap, renamed, crossed, faults>>

Ended(p) == [namer EXCEPT ![p] = IF p \in Titlers THEN [IdleNamer EXCEPT !.pc = "done"] ELSE IdleNamer]
Leave(p) == mu' = [mu EXCEPT ![namer[p].gen] = NoName]

Replaceable(title, src) == src # "user" /\ (title = NoName \/ src = "auto")

(* The stored name first: a user's name is taken over, and for a derived   *)
(* title every established one.  Then the checks on the session            *)
NamerChecks(p) ==
    LET g == namer[p].gen
        sync == Open(g) /\ (row.src = "user" \/ (p \in Titlers /\ row.name # NoName /\ ~row.ph))
        title == IF sync THEN row.name ELSE sess.title
        src == IF sync THEN row.src ELSE sess.src
        go == /\ Open(g)
              /\ IF p \in Titlers THEN title = NoName /\ src # "user"
                 ELSE ~namer[p].stale /\ title # namer[p].name /\ Replaceable(title, src)
        next == IF go THEN [namer EXCEPT ![p].pc = "write"] ELSE Ended(p)
    IN  /\ namer[p].pc = "wait" /\ mu[g] = NoName
        /\ mu' = [mu EXCEPT ![g] = IF go THEN p ELSE NoName]
        /\ IF sync THEN AdoptTitle(title, src, next) ELSE namer' = next /\ UNCHANGED <<sess, snap>>
        /\ UNCHANGED <<row, req, eng, events, renamed, crossed, faults>>

(* UpdateName with source "auto", whatever the store holds by now *)
NamerWrites(p) ==
    /\ namer[p].pc = "write"
    /\ \/ /\ UpdateName(namer[p].name, "auto")
          /\ namer' = [namer EXCEPT ![p].pc = "commit"]
          /\ crossed' = (crossed \/ ~Open(namer[p].gen))
          /\ UNCHANGED <<mu, faults>>
       \/ Fault /\ namer' = Ended(p) /\ Leave(p) /\ UNCHANGED <<row, crossed>>
    /\ UNCHANGED <<sess, req, eng, events, snap, renamed>>

(* The checks again at the commit point; a derived title goes to the engine *)
NamerCommits(p) ==
    LET go == /\ Open(namer[p].gen)
              /\ IF p \in Titlers THEN sess.title = NoName /\ sess.src # "user"
                 ELSE ~namer[p].stale /\ sess.title # namer[p].name /\ Replaceable(sess.title, sess.src)
    IN  /\ namer[p].pc = "commit" /\ Leave(p)
        /\ IF go THEN AdoptTitle(namer[p].name, "auto", Ended(p)) ELSE namer' = Ended(p) /\ UNCHANGED <<sess, snap>>
        /\ IF go /\ p \in Titlers THEN Told(AutoName) ELSE UNCHANGED <<eng, events>>
        /\ UNCHANGED <<row, req, renamed, crossed, faults>>

(***************************************************************************)
(* handleRenameChat, and SetSessionName of the session it finds            *)
(***************************************************************************)
RenameStores(r) ==
    /\ req[r].pc = "idle"
    /\ \/ /\ UpdateName(r, "user")
          /\ req' = [req EXCEPT ![r] = [pc |-> "find", gen |-> 0]]
          /\ UNCHANGED faults
       \/ Fault /\ req' = [req EXCEPT ![r].pc = "done"] /\ UNCHANGED row
    /\ UNCHANGED <<sess, mu, namer, eng, events, snap, renamed, crossed>>

(* The handler ignores the error of SetSessionName *)
Answered(r) == req' = [req EXCEPT ![r].pc = "done"] /\ renamed' = TRUE
Unheard == crossed' = (crossed \/ row.src # "user")

RenameFinds(r) ==
    /\ req[r].pc = "find"
    /\ IF sess.st = "open"
       THEN req' = [req EXCEPT ![r] = [pc |-> "wait", gen |-> sess.gen]] /\ UNCHANGED <<renamed, crossed>>
       ELSE Answered(r) /\ Unheard
    /\ UNCHANGED <<row, sess, mu, namer, eng, events, snap, faults>>

(* Wrong: the session does not write the name again under its mutex. *)
RenameSkipsStore(r) ==
    LET g == req[r].gen IN
    /\ req[r].pc = "wait" /\ mu[g] = NoName
    /\ req' = [req EXCEPT ![r].pc = IF Open(g) THEN "adopt" ELSE "done"]
    /\ mu' = [mu EXCEPT ![g] = IF Open(g) THEN r ELSE NoName]
    /\ IF Open(g) THEN UNCHANGED <<renamed, crossed>> ELSE renamed' = TRUE /\ Unheard
    /\ UNCHANGED <<row, sess, namer, eng, events, snap, faults>>

RenamePersists(r) ==
    LET g == req[r].gen IN
    /\ req[r].pc = "wait" /\ mu[g] = NoName
    /\ \/ /\ Open(g)
          /\ UpdateName(r, "user")
          /\ req' = [req EXCEPT ![r].pc = "adopt"]
          /\ mu' = [mu EXCEPT ![g] = r]
          /\ UNCHANGED <<renamed, crossed, faults>>
       \/ Open(g) /\ Fault /\ Answered(r) /\ Unheard /\ UNCHANGED <<row, mu>>
       \/ ~Open(g) /\ Answered(r) /\ Unheard /\ UNCHANGED <<row, mu, faults>>
    /\ UNCHANGED <<sess, namer, eng, events, snap>>

RenameAdopts(r) ==
    LET g == req[r].gen IN
    /\ req[r].pc = "adopt"
    /\ mu' = [mu EXCEPT ![g] = NoName]
    /\ Answered(r)
    /\ IF Open(g) THEN AdoptTitle(r, "user", namer) /\ Told(r)
       ELSE UNCHANGED <<sess, namer, snap, eng, events>>
    /\ UNCHANGED <<row, crossed, faults>>

(***************************************************************************)
(* The watcher: it reads the engine's name, then hands it to the session   *)
(* that owns the chat (ApplyDaemonName) or to the store (RefreshEnrollment)*)
(***************************************************************************)
Observe ==
    /\ snap.pc = "idle" /\ eng # NoName
    /\ snap' = [pc |-> "seen", name |-> eng, stale |-> FALSE]
    /\ UNCHANGED <<row, sess, mu, namer, req, eng, events, renamed, crossed, faults>>

ApplyDaemonName ==
    /\ snap.pc = "seen"
    /\ IF sess.st = "open"
       THEN /\ snap' = NoSnap
            /\ IF snap.name # sess.title /\ ~snap.stale THEN Begin(Tick, snap.name, snap.stale) ELSE UNCHANGED namer
       ELSE snap' = [snap EXCEPT !.pc = "refresh"] /\ UNCHANGED namer
    /\ UNCHANGED <<row, sess, mu, req, eng, events, renamed, crossed, faults>>

RefreshEnrollment ==
    /\ snap.pc = "refresh"
    /\ IF row.src = "auto" /\ (row.ph \/ row.name # snap.name) THEN UpdateName(snap.name, "auto") ELSE UNCHANGED row
    /\ snap' = NoSnap
    /\ UNCHANGED <<sess, mu, namer, req, eng, events, renamed, crossed, faults>>

NameNext ==
    \/ OpenRead \/ OpenNamed \/ Lose \/ EngineRenames \/ EventBegins
    \/ \E p \in Titlers : TitlerBegins(p)
    \/ \E p \in Namers : NamerChecks(p) \/ NamerWrites(p) \/ NamerCommits(p)
    \/ \E r \in Renames : RenameStores(r) \/ RenameFinds(r) \/ RenamePersists(r) \/ RenameAdopts(r)
    \/ Observe \/ ApplyDaemonName \/ RefreshEnrollment

NameSpec == (\E n \in Nat : NameInit(n)) /\ [][NameNext]_nameVars

Quiet ==
    /\ \A p \in Namers : namer[p].pc \in {"idle", "done"}
    /\ \A r \in Renames : req[r].pc \in {"idle", "done"}
    /\ snap.pc = "idle" /\ events = <<>>

(* A user's name is never replaced by an automatic one (applyProviderName, *)
(* session.go:1469): once every request, event and observation has been    *)
(* worked off, a chat somebody renamed has a user's name in the store, and *)
(* so has one whose session shows a user's name.  Exempt are names written *)
(* for a session that went away between its check and its write, and       *)
(* renames whose session could not be told of them.                        *)
NamesKept == Quiet /\ ~crossed /\ (renamed \/ sess.src = "user") => row.src = "user"
=============================================================================
