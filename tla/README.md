# TLA+ verification of omo-webchat

omo-webchat is a Go server that puts a browser chat in front of a local agent
engine ("the daemon", driven over a Unix socket or a named pipe).  The browser
speaks WebSocket frames to the server, the server speaks JSON-RPC-like frames
to the engine, the engine owns the transcripts.  What can go wrong is at the
seams: a message must reach the model exactly once and its answer the browser
exactly once, although the browser, the server, the connection to the engine and
the engine stop independently of each other.

## 1. The system

| part | code | state it keeps | operations |
|---|---|---|---|
| send queue store | `internal/sendqueue/store.go` | per chat: revision, waiting items, at most one dispatch; one file for all chats | append, remove, move, clear, begin / mark attempted / complete / restore dispatch, claim and restore head, delete, bump, load |
| queue delivery | `internal/wsbridge/bridge.go` (handleChatSend, queue edits, flushHead) | `dispatching` guard per chat | queue or send directly, edit, flush the head, settle a completion |
| request ledger | `internal/session/session.go` (sendOperationOwner) | one operation per request id, unresolved writes, detached count | begin, record, complete, prepare and retire a retry |
| provider session | `internal/session/session.go`, `dispatch.go`, `question_state.go` | run, prompt and compaction latches, route, questions, close transaction, idle timer | prompt, steer, follow up, abort, compact, query, answer, close, invalidate, event dispatch |
| session manager | `internal/session/manager.go` | chat to session, per-chat flight, detached opens, retired routes | acquire, publish, attach, stop, reconcile, evict, close all |
| engine connection | `internal/omorpc/client.go` | connection epochs and generations, pending calls, event stream | dial and negotiate, call, detached call, fence, reconnect, close |
| engine process | `internal/omorpc/ensure.go`, `restart.go`, `internal/api/run.go` | start lock, socket path, process group, retained engines | ensure, restore, restart, retire, stop |
| broadcast, subscribers | `internal/session/broadcast.go`, `internal/wsbridge/subscriber.go` | frames of a session, subscriber queues, overflow transfers | publish, attach with replay, overflow, recover, resync |
| transcripts | `internal/coldhistory`, `internal/session/queue_history.go` | index of a session file in file order | checkpoint, match after, page |
| chat records | `internal/cursorstore` | chats, bindings, names, tombstones of enrolled chats | save, update, delete, enrol, migrate |
| HTTP API | `internal/api` | locks over the records, deletion marks | create, adopt, rename, delete, watch the engine's sessions, restart the engine |
| adoption copy | `internal/adoptcopy` | one destination per session file | adopt, take a snapshot over |
| server process | `cmd/server`, `internal/daemon` | lock, pid file, ready pipe | start, stop, status |
| notices, activity, tasks | `internal/session/notice_*.go`, `activity_*.go`, `dag_*.go` | read models on disk and in memory | derive, journal, serve |
| frontend | `frontend/src` | view state | - |

Who calls whom.  A WebSocket frame enters the per-chat flight
(`Manager.EnterChat`) and runs one handler at a time per chat; background work
for a chat (`flushHead`, recovery, reconciliation) joins the same FIFO with
`EnqueueChat`.  Outside of it run: engine events (one reader per connection),
completions of detached calls (a goroutine each), connection loss, timers, the
pump of each subscriber, the watcher of the engine's sessions.  The session's
latches are shared between all of these under `lifecycleMu`; the ledger, the
broadcaster, the manager and the store have locks of their own, held for one
method.  Servers on one machine share the engine's socket path and agree only on
an advisory lock beside it.

Hard behaviours: the gap between a latch that was read and the request that
relies on it; a request that is written but not answered when the connection
dies (the engine may still apply it); an answer overtaken by an event, or an
event of a connection that is gone; an open whose caller has left; history read
while live frames arrive; stops between the durable steps of a delivery; a file
replaced but not yet durable; a socket path whose file was replaced; replays of
a request id.

What makes each part correct: the store never loses what it acknowledged, never
holds an item twice and never reuses a revision; delivery is at most once, in
order, one at a time, and finally happens; the ledger gives a request id one
true outcome; the connection settles every call exactly once and never delivers
an answer of one epoch to another; the latches follow the engine, a compaction
is ended by its own end, work is never evicted; every route the engine opened
has somebody who closes it and nobody closes a route that serves; a subscriber
sees every frame once and in order, through overflow too; no engine is left
running unowned and none is replaced while it lives; a copy, a name and a
removal the user was told of stay.

## 2. Modules

| module | models |
|---|---|
| `SendQueueStore` | the store's data operations, `Commit` (commitLocked and persistLocked), restart, power loss |
| `SendQueueClients` | the store under arbitrary callers, and the store's properties |
| `SendQueueProofs` | lemmas on the store's sequences and queues, proofs for `SendQueueClients` |
| `QueueDispatch` | delivery of one chat's queue: bridge, session, ledger, store and engine composed |
| `RpcClient` | the connection to the engine: epochs, calls, reconnect, fence, close |
| `Broadcast` | one session's frames and one subscription: queue, replay gate, drain, overflow transfer |
| `BrowserStream` | a browser connection over `Broadcast`: binding, activation, recovery, resync, shutdown |
| `SessionState` | what a Session does to its own record: latches, inheritance, idle timer, close, questions |
| `SendLedger` | the request ledger with its capacity and retry claims |
| `Session` | one chat over `SessionState` and `SendLedger`: calls, events, loss, reopening, direct sends, eviction |
| `ChatPermit` | abstract: what the per-chat permit promises |
| `KeyedFlight` | the flight objects that implement it, and the refinement mapping |
| `SessionManager` | acquisition, publication, detached opens, stop, deletion, shutdown, loss and reconciliation over `KeyedFlight` |
| `EngineHost` | engines behind one socket path: ensure, launch, adopt, restart, retire, shutdown of several servers |
| `ServerProcess` | the background server and the commands that start and stop it |
| `AdoptCopy` | the copy of a session file somebody else may be writing |
| `ChatName` | who names a chat |
| `ChatCatalog` | the stored chats, their enrolment, adoption, opening and removal |
| `QueueDispatchProofs` | proofs for `QueueDispatch`, over the lemmas of `SendQueueProofs` |
| `RpcClientProofs` | proofs for `RpcClient` |
| `BrowserStreamProofs` | proofs for the overflow transfers of `BrowserStream` |
| `SessionProofs` | proofs for the sends of `Session` |
| `SessionManagerProofs` | proofs for `KeyedFlight`, among them the refinement of `ChatPermit`, and for `SessionManager` |
| `SessionRouteProofs` | proofs for the provider routes of `SessionManager` |
| `HostProofs` | proofs for `EngineHost`, `AdoptCopy`, `ServerProcess`, `ChatName` and `ChatCatalog` |
| `MC*` | instances for TLC; `MCHost` puts the last five side by side |

### SendQueueStore and SendQueueClients

`mem` is `Store.chats`, `disk` the file the path names, `durable` the files the
path may name after a power loss.  Every method holds `Store.mu` to its end, so
it is one action; `Commit(c, next, o)` is the write with its four endings `o`:
success, an error before the rename, an error between the rename and the
directory sync, an error after the directory sync.  In the last three memory is
rolled back and the file may be ahead.  An item is its id, an opaque payload,
the dispatch state and the cursor; the delivery id is drawn once per item and
therefore named by the item's id.  `SendQueueClients` adds every caller and
three history variables (`promised`, `seen`, `claimed`).

### QueueDispatch

One chat.  `seq` is the owner of the per-chat flight with the local variables of
the handler that runs in it; `pc` names the next step of `flushHead`
(reconcile, checkpoint, mark, send) so that engine events, completions, losses
and stops fall between any two of them.  `guard` is `Handler.dispatching`,
`jobs` the drains waiting in the FIFO, `ledger` the request ledger, `inFlight`,
`running`, `compacting`, `route`, `quarantined` the session's latches, `calls`
the completions that are due, `wire` the requests the engine holds, and
`transcript` the user messages of the session file.  A request stays in `wire`
across disconnects and process stops, which is what makes an answer ambiguous.
The engine is external: it decides each request once, accepting it, finding the
agent busy or refusing it.  All environment choices (write failures, drops,
rejections, crashes, edits, repeats, steers, compactions ...) are counted in
`spent` and bounded by the budgets in `Limits`, so that a run states exactly
which ones it explores.

The edits (`QueueRemove`, `QueueMove`, `QueueClear`, `QueueClearEngine`) take
every ending of their write.  A failed one is answered by `persist_failed` with
memory as before, but only an error before the rename leaves the file as it was;
`TakesOut` says what the user is still owed after each ending.  The scope `engine`
empties the engine's own queue, which is external and holds nothing of the chat's
queue, and bumps the revision; the scope `all` is that turn followed by the one of
`QueueClear`.

Abstracted: images and texts (a payload has a text, equal or not), frame
contents, notices, logging.  Direct sends with their recovery, and the
capacities of the ledger and of the detached calls, are in `Session`.

### RpcClient

`current`, `pending`, `connecting`, `closed` are the fields of `Client`; an epoch
is a number, `open` says whether this side closed its socket and `peer` whether
the engine still serves it.  Each section under `Client.mu` is one action and
what follows the unlock is another: a result is first *claimed* (taken out of
`pending`) and then *delivered* to the one-slot channel, a failed write first
releases the gate, then removes the correlation, then retires the epoch.  A call
has a step `pc` and the kind of function it was made with; `bg` is the goroutine
that runs a completion function.  `flights` are the reconnect attempts, of which
only the one in `connecting` may make its socket current; `restart` is the
restart of the engine (`FenceConnectionGeneration`, then
`EnsureConnectedAfter`).  The two requests of the handshake are its outcome.
`settleOversizedHistory` settles a correlation as `settleResponse` does and is
the same step.

Not in this module: the epoch-change observer (`SessionManager` has it as
`notes`, delivered late and in any order), the endpoint-restore hook (in
`EngineHost`), the counters of dropped events, a response with another command
name than its request.

### Broadcast and BrowserStream

A frame is its place in `log`.  `x` is the subscription: its bounded queue `q`,
the frame the pump has in `hand`, and while history is replayed the gate
(`replaying`, `pendingLive`, `draining`) with the watermark arithmetic that
drops what a history page carried already.  A refused enqueue and the transfer
it leads to are two steps of the publisher (`ovf`); `T` and `held` are the
transfer instances and the broadcaster's map of them.

In `BrowserStream`, `task` is the connection's run loop with the local variables
of the handler it is in, `closer` is `shutdown` from any goroutine, `s` the
subscriber, `wake` the one-slot recovery channel.  The publisher, the pump, the
overflow goroutine, the run loop and the closer interleave freely.  What the
browser has seen is `shown` and `paged`, what it is entitled to is `owed`.

Abstracted: only the on-demand history contract; no resume cursor; a journal of
fewer than 50 notices; the frames of an initial state go straight into
`subscriber.pending`; a failed history read is the same as its expired
deadline.  One subscription exists at a time, because a subscriber joins its old
pump before it attaches again.

### SessionState, SendLedger and Session

`SessionState` is a library of functions from a session record to the record the
code leaves: one operator per critical section of `lifecycleMu` (begin and
acknowledge a prompt, start and end a compaction with its RPC id, provider id and
list of completed ids, hydrate from an open or a query, invalidate, inherit,
arm and fire the idle timer, begin and complete a close, ask, answer and
reconcile questions).  `SendLedger` does the same for `sendOperationOwner`.

`Session` interleaves them.  Answers (`calls`) and events (`evs`, then `hand`
while the event loop ingests one) are separate streams, so that each may
overtake the other; `wire` is what the engine has yet to read and survives the
connection; `fl` is the holder of the per-chat permit with the step of
`chatSendOperation` and `resumeAndRetry` it is at.  The engine (`eng`) follows
the repository's own fake engine (`omorpc/omorpctest`) where that has the
behaviour and is external otherwise.  Assumed of it: a steer without a run does
nothing, `agent_settled` comes after the automatic compactions of its run, the
idle timeout is much longer than an event takes.

`blurred` marks the two places where the code does not track the engine: an
automatic compaction whose start is paired with an open manual transaction, and a
start event dropped while a close that the engine then refuses owns the route.
`LatchesAgree` exempts them.  A question asked between an open's snapshot and the
publication of its route is dropped, so after a reopening `QuestionsAgree` claims
only that nothing is asked which the engine does not wait for.  A stop
together with a loss breaks `SentOnce`, so the run `session` leaves that pair out
(section 5 says what happens there); a manual compaction of a lost
connection that the engine reads after the reopening is not explored.

### ChatPermit, KeyedFlight and SessionManager

`ChatPermit` is the promise: per chat a line, its head the owner, joined at the
end and left from anywhere.  `KeyedFlight` is the code: a map from chat to flight
object, with `owned` and `waiters` in the object, `ent` the operation's own
pointer and waiter.  A grant and the goroutine that notices it are two steps, so
a waiter may be cancelled with the permit already in its hands, and the object is
dropped from the map by key.  `PermitSpec` is the refinement: the line of a chat
is the operation that owns its object (or was granted it), then the waiters.

`SessionManager` adds the operations: `job` is an acquisition (of a browser, of a
recovery, of a media request), a reconciliation, `Stop`, the deletion handler of
`internal/api/chat.go` or `CloseAll`, each with its step; `ops` are the
`open_session` operations, which outlive their caller and then settle, retry,
recover through `list_sessions` and close what came late; `ses` the sessions,
`mgr` the maps, fences, slots and retired routes.  `eng` is the engine's registry,
whose restart gives out route handles again; `notes` are the epoch changes under
way to the manager.

Left out: routes attached to enrolled sessions, in-place files, quarantine, the
mismatches `validateOpen` finds, the durable-identity maps, the overview cache.  A
publication that is refused after its open succeeded only invalidates the session
(`manager.go`, end of `acquire`); its route is exempt from `NoOrphan`
(`mgr.refused`).

### EngineHost

`grp` are process groups, each an engine with its launch record; `sock` is the
inode behind the path, which the file system may reuse; `lock` the advisory lock.
Per server `ens` is its `EnsureDaemon` call (probe, lock, probe again, spawn,
wait, handshake, clean up), `lc` its `recoveryDaemonLifecycle`, `rst` a restart of
the engine, `srv` its run and shutdown.  Engines die, ignore SIGTERM, answer the
handshake badly, come up late; a connection breaks although its engine lives; the
path vanishes; somebody else starts engines; a server crashes.  Abstracted: one
dial sees one engine, the recheck of the group leader before a signal, the cache of
the runtime that won (one or two attempts, nondeterministically), `Client.Close`
ends within `StopBounded`, whose five seconds outlast SIGTERM and SIGKILL
(3 + 1 s).  The bind of the socket is the engine's and external.

### ServerProcess, AdoptCopy, ChatName, ChatCatalog

`ServerProcess`: `held` is the set of holders of the locked file description
(inherited by the started server and, without close-on-exec, by its engine),
`pidfile`, per command its step, per process its progress, with crashes and
expired deadlines.

`AdoptCopy`: validate, stage, publish, verify, put back and clean up are
separate steps between which the source is written or replaced, the process stops
or another process copies to the same destination.  Content is a version number,
or torn.

`ChatName`: the rename handler, the automatic title, the provider's name events
and the watcher each read the record, decide and write in separate steps; `mu` is
the session's `nameMu`, which only some of them take.

`ChatCatalog`: `job` is a request (create, adopt, open in place, open, delete,
drop the workspace, a watcher's tick), with its step and the locks it holds
(`adoptionMu`, `chatLifecycleMu`, the chat's permit); `store` and `disk` differ
after a failed flush; `force` is the authorisation to open a file in place and
`tally` the history of its use.

## 3. Runs

| run | what is explored | distinct states | shows |
|---|---|---|---|
| `store` | 1 chat, 3 items, revisions up to 4, 2 faults | 99,386 | survival, single copy, revisions, sticky dispatch |
| `queue` | 2 queued items under compactions, stops, failed writes, lost and refused requests, foreign runs, edits (also failing ones), replays, quarantine, unreadable history | 140,442 | at most once, in order, one delivery at a time, nothing vanishes; while nothing fails everything is delivered |
| `rpc` | pairs of calls of every kind, a drop or a torn write, reconnects of two attempts, restart, Close, a client without reconnect | 261,906 | one result per call, nothing before the handshake, superseded flights are silent, calls settle, Close returns |
| `stream` | a queue of one frame, up to four frames, resync, close, leave, expired history deadline | 236,241 | live frames once and in order, no gap, no transfer left behind, an overflow ends in a live stream or a closed one |
| `session` | 15 mixes of prompts, steers, compactions, own runs, losses, unloads, questions, eviction, stop | 180,398 | latches agree with the engine, compactions end by their own end, one true outcome per request id, no send in limbo, questions agree, no work evicted, a close ends |
| `manager` | 21 mixes of three operations on two chats with one or two faults | 87,591 | no orphaned route, no close of a serving one, slots balance, a deleted chat stays gone, the permit is FIFO (refinement), operations end, a loss heals |
| `host` | engines, server process, copies, names and records side by side | 1,459,611 | the eight properties of the five modules, and no request on the records gets stuck |
| `queue_rejected` | one rejection | - | violated: the guard is left behind (finding) |
| `queue_quarantine` | external write and drop | - | violated: a message is applied twice (finding) |
| `rpc_torn` | two calls, one torn write | - | violated: a frame is appended to a torn one (finding) |
| `stream_resync` | a resync during a queued recovery | - | violated: an event is lost (finding) |
| `session_gap` | a loss and a run of the engine's own | - | violated: a run that is over is latched (finding) |

Bounds.  A run's scenarios (`Limits`, `Scenarios`, the budgets of `MCHost`) are
sets of budgets: a behaviour keeps within one of them, so the run covers their
union without their product.  Each environment choice occurs in at least one of
them, together with the choices that open or close the same window.

* `store`: every hazard needs one failed write and at most two further calls, or
  a failed write and a stop; three items are enough for a position to be wrong.
  That a write for one chat costs no other chat an item is what the proofs add:
  they are for every set of chats.
* `queue`: delivery concerns the head and the message behind it.  `MaxRevision`
  (30) and `MaxJobs` (2, saturating: a further drain does what the one before it
  did) are never the reason a behaviour is missing.
* `rpc`: what calls share is the gate, the map and the epoch, each contended by
  two.  The third epoch lets a restart replace a reconnect; two flights are the
  one before a fence and the one after it; an event buffer of one is full after
  one event.
* `stream`: with a queue of one, two frames behind a slow write overflow it, and
  a third and fourth reach the transfer and the recovered stream.
  `RecoveryLimit` of one is exceeded by the second overflow.
* `session`: `LedgerCapacity`, `DetachedLimit` and `MaxCompleted` are 2, so that
  three requests or compactions pass each limit.
* `manager`: two detached slots (one in the scenario that exhausts them), one
  retired route, two retries; three operations are an owner, a waiter and one who
  comes late; four flight objects are one more than can be in use.
* `host`: two servers, three process groups, two inodes (so that one is reused);
  four commands, two pids, two mishaps; three copies of a source written twice and
  one stop; one rename, one prompt title, two engine names, two openings, two
  faults; three requests at a time, four chat ids, two durable sessions, one
  failed write or restart.  Symmetry is over the servers only.  The parts share no
  state, so exploring each while the others rest loses nothing.

Deadlock is checked in `host`.  Elsewhere it is not: an idle chat may stay idle
and the bounds end every behaviour; that operations end is stated as liveness.

Fairness.

* `queue`: weak fairness of the flight's owner (never blocked for good: history
  reads and writes have timeouts), of completion callbacks (a goroutine each), of
  the engine deciding the requests it holds and ending its runs and compactions
  (external), of recovery (the reconnect callback, or the user).
* `rpc`: every goroutine that can run, a write (ended by `WriteTimeout`), a dial,
  and a handshake only once its context is cancelled or its epoch gone, because a
  flight has no deadline of its own.  Nothing is assumed of the engine, of the
  event subscriber or of the callers' contexts.
* `stream`: the pump, the overflow goroutine, the run loop and shutdown.  A
  socket write has a deadline, so each step ends.  Nothing is assumed of the
  browser.
* `session`: the goroutines, timers and the permit's holder; the engine handles
  what it has read and ends its runs and compactions; a loss worth recovering
  reconnects.
* `manager`: `Progress`, the steps of the process and of a live engine: some step
  is taken as long as one can be, which goroutines, call timeouts and reconnect
  timers guarantee.  In a `mute` scenario the engine never answers an open;
  then the caller's context ends.

Sends, edits, requests and every failure are never fair.

Mutants.  A definition whose comment begins with "Wrong:" is a plausible bug of
the definition after it; each property is shown to fail for one of them.

## 4. Proofs

Every theorem holds for every value of the constants that satisfies the named
assumptions, in particular for any number of chats, calls, operations, requests
and faults: the budgets that bound the runs are arbitrary natural numbers here.
Each proof has the same shape: an inductive invariant, the invariant in the
initial states, one lemma per action that keeps it, and the property from the
invariant.  The inductive invariants were first checked by TLC on the runs'
instances.

| module | theorem | property |
|---|---|---|
| `SendQueueProofs` | `TypeCorrect`, `Survives`, `HeldOnce`, `Revisions`, `Sticky` | types, `AcknowledgedItemsSurvive`, `ItemHeldOnce`, `RevisionNamesContent`, `DispatchIsSticky` |
| `QueueDispatchProofs` | `OneDelivery`, `AckedIsKept`, `DeliveredOnce` | `OneDeliveryAtATime`, `NothingVanishes`, `AtMostOnce` |
| `RpcClientProofs` | `ClientTyped`, `CallsSettledOnce`, `RequestsAfterHandshake`, `FencedFlightsStaySilent` | types, `SettledOnce`, `NegotiatedBeforeUse`, `FencedFlightIsSilent` |
| `BrowserStreamProofs` | `TransfersReclaimed` | `Reclaimed` |
| `SessionProofs` | `SendsEnd`, `SendsHappenOnce` | `NoLimbo`, `SentOnce` |
| `SessionManagerProofs` | `OneOwner`, `FlightImplementsPermit` | one owner per chat, `PermitSpec` |
| | `SlotsNeverLeak`, `DeletionHolds`, `ManagerImplementsPermit`, `ManagerExclusive` | `SlotsAccounted`, `DeletedStaysGone`, `PermitSpec`, one owner per chat |
| `SessionRouteProofs` | `NoRouteOrphaned`, `OwnedSpared` | `NoOrphan`, `SparesOwned` |
| `HostProofs` | `EnginesOwned`, `RestartsReplace`, `CooperatorsSpared` | `NoEngineLeaks`, `RestartReplaces`, `SparesCooperators` |
| | `CopyKept`, `ServerFound`, `UserNamesKept`, `RemovalsStay`, `ForcesSpent` | `LastGoodKept`, `ServerReachable`, `NamesKept`, `EnrollmentSound`, `ForceSpent` |

### The store

The inductive invariant `IInv` strengthens the properties with
`ImagesGood` (every file a stop may leave, and memory, is well formed, holds no
item twice and no id that was never given out), `ClaimsApart` (an item in the
hands of a `ClaimHead` caller is nowhere in memory, or `RestoreHead` would make a
second copy) and `RevisionsAhead` (the file equals memory or has a higher
revision, and nobody saw a higher revision than memory's).  The argument is in
three layers: sequences (`OneMore`: append, tail, insert and remove add or take
one position), one queue (`AppendedGood`, `MovedGood`, ...: what each method does
to the ids a queue holds), the store (`CommitGood`, `CallKeeps`: what a write
with any ending preserves when its new queue is good).  `Sticky` needs one more
invariant, `DispatchAgrees`: when memory and file both have a dispatch it is the
same item's.  Assumptions: the bounds are natural numbers and `NoItem` is not an
item.

### Queue delivery

`DispatchInv` ties the places in which one delivery shows.  `Delivering`: while
`flushHead` works on an item, or a detached call has one, the guard and the
dispatch of memory and of every file name that item, and never both have one.
`Linked`: a request on the wire and the call that waits for it are about the
same message.  `Answers` and `Faithful` give `NothingVanishes` its induction: an
accepted call's words are in the transcript, and what the store holds under an
id is what was acknowledged.  Failed writes of edits are among the steps: a removal
or clearing that fails before the rename takes nothing away from what is owed; one
that fails after it ends the claim for the messages it was to take out, and only
for these, because the file without them is in place.  A claim that kept them would
be false of the code (section 5).  `AtMostOnce` needs `OnceInv` besides: an id that
some queue may still send (waiting, or a dispatch not yet attempted) has no
request on the wire and no message in the transcript (`Untouched`), at each step
of `flushHead` the item is fresh or barred from being sent again (`Careful`).

`DeliveredOnce` is conditioned on `spent["extern"] = 0`, nobody writing the
session file behind the server's back: with that fault the property is false, the
finding of `queue_quarantine`.  `FaultAssumption` says only that the three
faults the properties name are among the faults.

### Connection

`CallInv` says for each call where its result is: in `pending`, claimed, or in
the channel, never in two of them (`ClaimedOnce`), and which of these each step
of the call implies (`CallHeld`, `CallRuns`); `SettledOnce` alone is not
inductive, since nothing in it keeps a failed write from settling a call whose
answer is on its way.  `EpochInv`: a current epoch without a handshake is in the
hands of the flight everybody joins (`Negotiates`), and the flight under way is
younger than the last fence (`Fences`).

### Overflow transfers

A subscriber that overflows leaves its undelivered frames in the session's
broadcaster under a key (`RetainSubscriberOverflowTransfer`); whoever gives the
subscriber up has to release them, and shutdown may fall anywhere between the
overflow, the retention, the hand-over of a create or close frame, the retry and
the recovery.  `Reclaimed` speaks of the end only, so `ReclaimInv` says at every
moment who is responsible:

* `Retained`: a transfer in the broadcaster is under the subscriber's key, and is
  the subscriber's own or about to become it, in the overflow goroutine.
* `Attended`: a transfer the subscriber has will be released by whoever has the
  subscriber: the connection's binding, the hand-over under way (`Resuming`), or
  shutdown after it took the binding (`Releasing`).
* `Forsaken`: a subscriber that none of these has, on a connection that is still
  open, has given up (`abandoned`), and then accepts no transfer: this covers the
  overflow goroutine that retains after everybody has left.
* `Closing`, `Unbinding`: shutdown runs on a closed connection and takes the
  binding before it waits; a hand-over never overlaps with a binding.

Most steps touch little of this; the lemma `Frame` says what they leave alone, and
each action's lemma shows that it does, or treats the part it changes.  Nothing is
assumed but the named assumptions on the bounds.

### Sends of a session

`SendInv` says for every request id where it is (`Followed`): an admitted id has
either a call under way or a place in the recovery queue, never two, a retrying id
is the one the recovery flight holds, an unpublished outcome is not terminal, and
a call of an id has its write on the ledger.  An admitted id with none of these has
a write that was lost, which is what `NoLimbo` allows.  It is not inductive without
`Called` (calls have different identifiers, and a write and a call with the same
identifier are about the same request): the completion of a call would otherwise
settle another one's write.  Most actions complete no send, and are one lemma
about the calls they keep (`CallsStay`, `StandsStill`); the lemmas on
`SendLedger`'s operators say what each does to one request id and that the others
are left alone or forgotten (`OthersKept`), the latter only when they are terminal
and unwritten, so that a displaced id is never one somebody still follows.

`OnceInv` adds the engine's side (`Once`): at most one request of an id is on the
wire, none while the id waits to be sent again, and an id that may still be sent
was not applied since the ledger last forgot it.  So an answer that lets the code
send again (busy, unknown session, a close) must mean that the engine did
nothing, and there lies the one hypothesis of `SendsHappenOnce`, `StopOrLoss`: no
process both stops the session and loses its connection.  With both,
`finishDetachedSend` makes `ErrSessionClosed` of a lost outcome (`session.go:799`),
`isResumableSendError` takes it for a request that never left, and the prompt is
sent twice; section 5 has the scenario, and the finding of `queue_quarantine`
names the rewriting.  `Calm` carries the two cases: `Lossless`, no answer is lost
and each is what the engine said; or `Unstopped`, the only close is the idle
eviction's, which finds no send under way on its session.  `SendsEnd` has no such
hypothesis.

### Permit and manager

`FlightInv`: an operation that waits or owns holds the object its chat's key
leads to (`HoldsLive`), an object is in the map exactly as long as it is owned
(`OwnedOnce`), and its waiters are those that wait, each once (`WaitersWait`).
Without the first an operation that releases by key could drop an object another
one waits on.  The refinement maps the map of objects to one queue per chat:
grant, hand-over, cancellation and release are each a step of `ChatPermit` or a
stutter (`Cut` is a queue without its n-th element).  `Keys # {}` is assumed, as
`ChatPermit` has a permit to speak of.

For the manager `NextFine` shows that every action does to the permit's
variables what some `KeyedFlight` action does or leaves them alone, so
`FlightInv` and the refinement carry over.  `SlotsNeverLeak` needs
`ManagerInv`: an operation that waits for its `open_session` has it, alone and
in a slot, whoever leaves and whatever answers first.

`DeletionHolds` needs `DeleteInv`.  It is an argument about versions, not about
the permit: an acquisition past its preparation knows no version above the
record's, and one strictly below it as soon as the record is marked for deletion
or gone (`Timely`), so `validate` refuses it where it would install its session.
A deletion past its close leaves in the slot nothing, or what a media request
installed unchecked (`Bare`), and there is one deletion of a chat at a time.
Most actions only *ease* an operation (`Eases`: it learns no version and does
not come nearer to an empty slot), the slots and the sessions; `EaseKeeps` proves
the invariant for all of these at once, `LearnKeeps` and `InstallKeeps` for a
reconciliation that takes its version and for a publication.

### Routes

`SparesOwned` and `NoOrphan` are two sides of one question, who owns a route, and
neither is inductive without the other.  `RouteInv` has four parts.

* `CallsInv`: every call under way has exactly one waiter (an open operation, its
  recovery, a job, a closing session) that stands where it awaits this answer
  (`Waits`), and a request on the wire belongs to at most one of these calls.
* `OwnersInv`: a route of the live connection has one owner at a time, the
  unanswered result of its open, then the acquisition that carries it, then its
  session; and no handle the engine gave out is beyond its counter (`Known`), so
  that the next one is fresh.  Handles start again with the engine, which is why
  ownership speaks of the live epoch only.
* `DoomsInv`: a route somebody is about to close is `Doomed`: nobody serves it or
  may still publish it, or recovery has retired it and its holder serves nothing.
  A close on the wire names such a route, or is the fallback close of a session of
  an earlier engine, for which only `CallSpares` is known, and which is written only
  while its cleanup marker keeps the route from being installed.
* `SeenInv`: every live route is registered for closing, or has a session that
  serves or closes it, or is in an answer or an acquisition on its way (`SeenBy`).
  It needs that an answered close has done its work (`CallTrue`) and that what a
  publication replaces did not serve (`JobReplaces`).

Most actions leave the routes alone (`QuietStep`, `QuietKeeps`); the others end a
call (`EndKeeps`), begin one that is not yet written (`UnsentKeeps`), begin a close
(`CloseKeeps`), cut all calls with the connection (`CutKeeps`) or answer one
(`EngineAnswers`), and what they have in common is proved once.

### Engines

`HostInv` speaks of every server by itself (`OfServer`) and of every group by
itself (`OfGroup`).

* `Local`: how a server's `EnsureDaemon`, lifecycle, restart and shutdown go
  together.  From the probe under the lock to the end of the attempt it holds
  `<<s, 0>>`, a restart's removal of the path holds `<<s, -1>>`; the lifecycle's
  barrier keeps an attempt and a restart of one server apart.
* `Lists`: a group on a server's lists is its own and was seen ready, or its stop
  is over; the group an attempt is launching is on no list yet.
* `Replaced`: from the moment a restart admits a successor its old engines are
  dead, or were killed in vain, and neither the current engine nor the one being
  launched is among them.
* `Tended`: an engine that lives is in the hands of an attempt, on a list, or its
  stop has failed; `NoEngineLeaks` follows.
* `Guarded`: an engine that may still bind the path is the one the holder of the
  lock is launching, and a stop that is about to clean the path up holds the lock
  (`<<s, g>>`, or the attempt's own).  So nobody removes a path that a
  cooperating engine has just bound, which is `CutRight` and the heart of
  `SparesCooperators`; an engine whose server crashed while it was still starting
  is the exception the property names.

A step of one server leaves the parts of the others alone (`Unmoved`), and does
to groups only what `Treats` and `Mild` allow, so that every action is a lemma
about one server.  The only assumption is `HostAssumption`: groups and inodes are
finite sets of positive numbers, and `Outside` is not a server.

### Copies, server, names, records

`CopyInv`: who is past the lock has the destination's turn, what is about to be
published is what was hashed under it, and a published copy that fails its
verification has something as good to put back.  One process only, as the code
has it (see section 5 for two).

`ProcessInv`: the lock is open exactly in the commands that work under it and in
the living servers, beside a command with the lock there is at most the server it
waits for, and the server that wrote the pid file is in it.

`NameInv`: whoever is past its check has the mutex of the opening it checked, a
namer about to overwrite a user's name is followed by a rename that has not yet
told the session (`Followed`), and an overwritten name has a rename on its way to
write it again (`Redone`).  These two are why the property holds in spite of
the unlocked write in the rename handler, as long as no session is lost in
between (`crossed`).

`CatalogInv`: `Promises` states the removals for memory and for the file, since a
failed flush or a stop makes one the other; `Relied` lists per step of a request
what it relies on (the locks, that the row it found is still bound to its
session, that the session is neither removed nor enrolled); `Balanced` counts
the forces: spent by strangers plus still armed are at most those given.

### Model edits the proofs asked for

`ChatPermit.Leave` removes a waiter by its position, `KeyedFlight.Without`
likewise; the lookup of `ChatCatalog` is split into `RowsOf`, `Settled`,
`LookupEnds` and `LookupGoes`; the names of `SendQueueClients` differ from those of
`QueueDispatch`, so that one module of lemmas serves both; `EngineHost` names its faults (`HostFaults`) and the
specification with arbitrary budgets (`HostSpec`).  The arms of
`SendLedger.Admission` overlapped when a full ledger is asked for an id it knows,
and TLC took the first, as the code's `switch` does; the arm for a full ledger now
says that the id is new.  `Ordered` is conditioned on no edit, replay or
external write having happened: the run's own budgets had kept these apart, the
property now says so.

### Only model-checked

* All liveness (`Settles`, `CloseEnds`, `JobsEnd`, `LossHeals`, `QueueDrains`,
  `OverflowSettles`, ...): out of the prover's reach.
* `Ordered`, `InOrder`, `NoGap`: they speak of sequences built
  by filters (`SelectSeq`) or of the order of a whole transcript, which needs
  induction over data.
* `CompactionEndsItself`, `QuestionsAgree`, `LatchesAgree` and `NoWorkEvicted` of
  `Session`: they compare the session with the engine behind frames in flight, and are
  claimed for the scenarios of the run only, in which few runs, compactions and
  questions cross.

## 5. Findings

Five disagreements between the code and what its own comments or tests say are
in `PROJECT.json` under `findings`, each with the run whose counterexample shows
it.

TLC shows four more on the queue's models, with the budget that opens them:

* a run that starts between the reservation and the send (`Once({"steer"})`)
  makes `sendPrompt` return `ErrPromptInFlight`, which the ledger keeps as the
  operation's outcome: `QueueDrains` fails for the item (`bridge.go:1888`);
* a replayed request id that is still queued (`Once({"repeat"})`) is appended a
  second time, since only the ledger is asked; the copy is absorbed later and
  leaves the guard behind, so `GuardOwned` fails (`bridge.go:992`);
* two messages in the same words (`TextOf` not injective, `Once({"drop",
  "steer"})`): reconciliation by text retires a dispatch the provider never got,
  against "removes a dispatch only after the provider accepted it"
  (`session.go:2684`);
* a write that fails after the rename leaves the new queue in the file and the
  old one in memory, against "so memory keeps matching disk" on `commitLocked`
  (`store.go:323`): `[][Restart => mem' = mem]_clientsVars` fails for the store's
  clients, with an append that was refused and is queued after the stop.  For the
  user's edits: a removal or clearing that was answered by `persist_failed`
  (`bridge.go:1617`, `1661`) can have edited the file, and while the browser goes
  on showing the message, the next stop loses it.  `NothingVanishes` therefore
  claims nothing for a message the user asked to take out with a write that failed
  after the rename; the properties of `store` hold in spite of it.

Met while modelling the other parts, modelled as they are and exempted by the
property named:

* Sends of a stopped chat (`SentOnce`, scenario `S({"a"}, "prompt" :> 1 @@ "stop"
  :> 1 @@ "loss" :> 1)`).  A stop is accepted while a prompt is unanswered and the
  connection dies: `invalidate` skips the closed session, so `finishDetachedSend`
  makes `ErrSessionClosed` of the lost outcome (`session.go:799`) and
  `isResumableSendError` queues the prompt for a resend, although the engine may
  have applied it; same rewriting as in the finding `queue_quarantine`.
* Names (`NamesKept`, `crossed`).  The rename handler writes the user's name
  without `nameMu`; `applyAutoTitle` and `applyProviderName` check the record and
  then write unconditionally (`session.go:1448`, `1500`).  When the session is
  lost before `SetSessionName` (its error is ignored, `api/chat.go:230`), the
  user's name is gone, against "a webchat user's name ... is never replaced by a
  daemon-side name" (`session.go:1536`).  A rename during an opening leaves the
  session's title old until the next naming event.
* Records (`EnrollmentSound` speaks of removals, not of these).  Adopting an
  enrolled chat leaves it enrolled, and the next tick (`enrollment.go:104`) puts
  the original path back, so the next opening migrates again and fails when the
  source has changed, against "the resulting owned path is the only path persisted
  as the chat identity" (`session_adoption.go:56`).  A native chat whose session a
  tick sees before its identity is stored gets a second, enrolled row.  A copy
  outlives the chat it was made for, so adopting again after the source grew is a
  collision.
* Locks.  `DeleteWorkspace` (`api/workspace.go:113`) holds `chatLifecycleMu` while
  it waits for a permit whose holder may wait for `chatLifecycleMu`; only the 10 s
  timeout ends that.  Its `clearDeleting` clears the mark of a concurrent deletion
  too.
* Copies.  The turn of a destination is per process: with two servers over one
  state directory, the clean-up of one can remove a copy the other verified.
* Engines.  A reused inode makes a launched engine look foreign; a stale socket
  that refuses connections never triggers the restore hook (only a missing one
  does); `updateMu` is released when the waiter's context ends though its flight
  may still spawn.
* Server.  The ready pipe is not close-on-exec: an engine started before
  readiness keeps it open, and a failed start is noticed by the deadline only.
* Sessions.  A media request acquires without the deletion check
  (`api/chat_media.go:98`), hence "checked" in `DeletedStaysGone`; attaching
  without a subscriber cancels the idle timer (`session.go:1646`) and no detach
  arms it again (`1709`).

Known and not covered by a property: a reconnect flight has no deadline of its
own (`client.go:311`); a `Delete` whose write failed after the rename starts its
revisions over (`sendqueue/store.go:284`); sends refused while the ledger or the
16 detached calls are full (`session.go:949`, `740`) are modelled and correct,
but nothing says when the refusals end.

## 6. Plan

Done: the models of the store, queue delivery, connection, browser stream,
session, manager with its permit, and the parts around them; the proofs of
section 4.

Next, theorems, in this order:

1. `BrowserStream`: `InOrder` and `NoGap`, restated by positions.
2. `Session`: `QuestionsAgree` and `LatchesAgree` for every scenario, once `blurred`
   names what exempts them.

Then models: routes of enrolled sessions and in-place files in
`SessionManager`; paging and branch selection of the transcript index as operators
against a reference definition; an abstract queue (each message delivered at most
once, in order) with `QueueDispatch` as its refinement.

## 7. Not modelled

* Wire protocol, generated frame types: encodings; the classes of errors they
  yield are what the models use.
* Activity, tasks and DAG projections: read models for display, computed from
  files and events.
* The notice journal: each is serialised by one mutex; the boundary between replay
  and live notices is in `Broadcast`.
* Paging and the index file of the transcripts: a parser of JSON lines.
* Of the bridge: read-only queries (models, commands, statistics), the activity
  feed, goal and todo watches.  Of the API: the file-system, history and activity
  handlers, authentication.  Of the engine's host: the construction of launch
  commands, the spawn log, the updater, Windows.
* The frontend: what the server guarantees does not depend on it.
