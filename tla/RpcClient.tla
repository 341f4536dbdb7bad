------------------------------- MODULE RpcClient -------------------------------
(***************************************************************************)
(* The multiplexed connection to the engine: internal/omorpc/client.go.    *)
(*                                                                         *)
(* One socket at a time, called an epoch; requests are correlated by id in *)
(* Client.pending, which a response, the end of the epoch and the caller's *)
(* own cancellation compete for.  Whoever takes the entry out owns the     *)
(* call's one-slot result channel.  A lost epoch is replaced by a single   *)
(* reconnect flight; an engine restart fences the generation, after which  *)
(* an older flight must not publish its socket.                            *)
(*                                                                         *)
(* Every step under Client.mu is one action.  What happens after unlock    *)
(* (delivering a claimed result, writing a frame, negotiating) is an       *)
(* action of its own, except the closing of the socket and of the event    *)
(* stream by invalidate: a frame written or an event queued in between is  *)
(* one written or queued just before.  The client starts dialled and       *)
(* negotiated: before that DialWithConfig has not returned it to anybody.  *)
(* The handshake of a reconnect is its outcome.  A request is the call it  *)
(* belongs to, an event is a number, 0 for an answer nobody waited for.    *)
(*                                                                         *)
(* A definition whose comment begins with "Wrong:" is a mutant of the next *)
(* one, there to show that a property can fail.                            *)
(***************************************************************************)
EXTENDS Integers, Sequences, FiniteSets

CONSTANTS
    Calls,        \* requests, each sent once: nextID never repeats an id
    NoCall,       \* the write gate is free
    Scenarios,    \* what a behaviour may consist of, see Scenario; a scenario has
                  \* bounds of its own within the ones below
    EventBuffer,  \* Config.EventBuffer
    MaxAttempts,  \* Config.ReconnectMaxAttempts
    MaxEpochs,    \* bound: sockets dialled
    MaxFlights,   \* bound: reconnect flights
    MaxEvents,    \* bound: events the engine sends
    MaxFaults     \* bound: sockets the peer drops and writes that time out

\* Call, CallInEpochToken, CallRetained, CallRetainedInEpoch, CallDetached and
\* Notify, or a call that is not made.
Kinds == {"call", "token", "retained", "bound", "detached", "notify", "unused"}

\* The functions the calls go through, Config.NoReconnect, and whether the
\* engine is restarted and Close is called.
Scenario == [kind : [Calls -> Kinds], noReconnect : BOOLEAN, restart : BOOLEAN, close : BOOLEAN,
             attempts : 1..MaxAttempts, sockets : 1..MaxEpochs, events : 0..MaxEvents]

ASSUME CallsAssumption == NoCall \notin Calls /\ Scenarios \subseteq Scenario
ASSUME ConfigAssumption == /\ EventBuffer \in Nat \ {0} /\ MaxAttempts \in Nat \ {0}
ASSUME BoundAssumption == /\ MaxEpochs \in Nat \ {0} /\ MaxFlights \in Nat
                          /\ MaxEvents \in Nat /\ MaxFaults \in Nat

VARIABLES
    scenario,    \* the scenario of this behaviour
    current,     \* Client.current: an epoch, 0 for none
    lastEpoch,   \* the newest epoch
    born,        \* the flight that dialled each epoch, 0 for DialWithConfig
    negotiated,  \* epochs whose handshake is complete
    open,        \* epochs whose socket this side has not closed
    peer,        \* epochs whose socket the engine still serves
    reading,     \* epochs whose readLoop runs
    closed,      \* Client.closed
    closer,      \* Close: "idle", "closing", "waiting" or "done"
    connecting,  \* Client.connecting: a flight, 0 for none
    flights,     \* reconnect flights begun so far
    fenced,      \* the newest flight the last fence superseded
    restart,     \* an engine restart: fence, then EnsureConnectedAfter
    pending,     \* Client.pending
    calls,       \* each call's progress
    claimed,     \* results taken out of pending and not yet delivered
    gate,        \* the holder of Client.writeGate
    torn,        \* epochs on which a frame was cut short
    wire,        \* requests the engine has read and not answered
    inbox,       \* what is on its way to each epoch's readLoop
    stream,      \* each epoch's event queue
    events,      \* events sent so far
    faults       \* drops and timeouts so far

connVars == <<current, lastEpoch, born, negotiated, open, peer, reading>>
flightVars == <<connecting, flights, fenced>>
lifeVars == <<closed, closer, restart>>
callVars == <<pending, calls, claimed, gate, torn>>
engineVars == <<wire, inbox, stream, events, faults>>
vars == <<scenario, connVars, flightVars, lifeVars, callVars, engineVars>>

Epochs == 1..MaxEpochs
Flights == 0..MaxFlights

\* What a result channel can carry.
Results == {"none", "answer", "dead"}
\* What the function that was called returned.
Returns == {"none", "answer", "dead", "unavailable", "cancelled", "unwritten", "unanswered", "ok"}
Steps == {"idle", "join", "admit", "write", "writing", "undo", "retire", "wait", "done"}

\* bg: the goroutine that runs the completion function is waiting; completed:
\* how often that function ran.
CallState == [pc : Steps, flight : Flights, epoch : 0..MaxEpochs, result : Results,
              ret : Returns, bg : BOOLEAN, completed : Nat]
Fresh == [pc |-> "idle", flight |-> 0, epoch |-> 0, result |-> "none",
          ret |-> "none", bg |-> FALSE, completed |-> 0]

FlightState == [pc : {"dial", "negotiate", "finish", "done"}, attempt : Nat, epoch : 0..MaxEpochs]
RestartState == [pc : {"idle", "fenced", "join", "check", "ok", "failed"},
                 retired : 0..MaxEpochs, flight : Flights, epoch : 0..MaxEpochs]

\* The calls that name their epoch, that run their completion function when the
\* frame is not written, and that leave a goroutine to run it.
Kind(c) == scenario.kind[c]
Pinned(c) == Kind(c) \in {"token", "bound"}
Retained(c) == Kind(c) \in {"retained", "bound"}
Asynchronous(c) == Retained(c) \/ Kind(c) = "detached"

\* A claimed result on its way to the call's channel.
Claim == [call : Calls, result : Results \ {"none"}]
\* A line of the socket: a response or, for call = NoCall, an event.
Line == [call : Calls \cup {NoCall}, event : Nat]

TypeOK ==
    /\ scenario \in Scenario
    /\ current \in 0..MaxEpochs /\ lastEpoch \in Epochs
    /\ born \in [Epochs -> Flights]
    /\ negotiated \subseteq Epochs /\ open \subseteq Epochs
    /\ peer \subseteq Epochs /\ reading \subseteq Epochs
    /\ closed \in BOOLEAN /\ closer \in {"idle", "closing", "waiting", "done"}
    /\ connecting \in Flights /\ flights \in Seq(FlightState)
    /\ fenced \in -1..MaxFlights /\ restart \in RestartState
    /\ pending \subseteq Calls /\ calls \in [Calls -> CallState]
    /\ claimed \subseteq Claim /\ gate \in Calls \cup {NoCall} /\ torn \subseteq Epochs
    /\ wire \subseteq Calls
    /\ inbox \in [Epochs -> Seq(Line)] /\ stream \in [Epochs -> Seq(Nat)]
    /\ \A e \in Epochs : Len(stream[e]) <= EventBuffer
    /\ events \in Nat /\ faults \in Nat

Init ==
    /\ scenario \in Scenarios
    /\ current = 1 /\ lastEpoch = 1 /\ born = [e \in Epochs |-> 0]
    /\ negotiated = {1} /\ open = {1} /\ peer = {1} /\ reading = {1}
    /\ closed = FALSE /\ closer = "idle"
    /\ connecting = 0 /\ flights = <<>> /\ fenced = -1
    /\ restart = [pc |-> "idle", retired |-> 0, flight |-> 0, epoch |-> 0]
    /\ pending = {} /\ calls = [c \in Calls |-> Fresh] /\ claimed = {} /\ gate = NoCall /\ torn = {}
    /\ wire = {} /\ inbox = [e \in Epochs |-> <<>>] /\ stream = [e \in Epochs |-> <<>>]
    /\ events = 0 /\ faults = 0

-----------------------------------------------------------------------------
(***************************************************************************)
(* The end of an epoch.                                                    *)
(***************************************************************************)

\* invalidate, for the epoch that is current: every pending call is claimed
\* for a disconnect error, the socket and the event stream are closed.
Invalidate(e) ==
    /\ current = e
    /\ current' = 0
    /\ pending' = {}
    /\ claimed' = claimed \cup {[call |-> c, result |-> "dead"] : c \in pending}
    /\ open' = open \ {e}

\* invalidate, for any epoch: a stale one is left alone.
Retire(e) == \/ Invalidate(e)
             \/ current # e /\ UNCHANGED <<current, pending, claimed, open>>

\* A claimed result reaches its channel, which has room for one.
Deliver(k) ==
    /\ k \in claimed /\ calls[k.call].result = "none"
    /\ claimed' = claimed \ {k}
    /\ calls' = [calls EXCEPT ![k.call].result = k.result]
    /\ UNCHANGED <<scenario, connVars, flightVars, lifeVars, pending, gate, torn, engineVars>>

-----------------------------------------------------------------------------
(***************************************************************************)
(* connection() and the reconnect flight.                                  *)
(***************************************************************************)

Join(c, f) == calls' = [calls EXCEPT ![c].pc = "join", ![c].flight = f]
Admitted(c, e) == calls' = [calls EXCEPT ![c].pc = "admit", ![c].epoch = e]

\* The call returns without a written frame.  CallRetained runs the completion
\* function itself, CallDetached does not run it.
Failed(c, ret) ==
    calls' = [calls EXCEPT ![c].pc = "done", ![c].ret = ret,
                           ![c].completed = IF Retained(c) THEN @ + 1 ELSE @]

NewFlight == [pc |-> "dial", attempt |-> 1, epoch |-> 0]

StartFlight == /\ Len(flights) < MaxFlights
               /\ flights' = Append(flights, NewFlight)
               /\ connecting' = Len(flights) + 1

\* Wrong: a socket is used as soon as there is one.
JoinsWhenDown == connecting # 0 /\ current = 0

\* A flight under way is waited for even when its socket is current already.
Joins == connecting # 0

\* A pinned call goes straight to the epoch it was given; the others take
\* the current one, or the flight that is under way, or begin one.
Begin(c) ==
    /\ calls[c].pc = "idle" /\ Kind(c) # "unused"
    /\ IF Pinned(c)
       THEN \E e \in negotiated : Admitted(c, e) /\ UNCHANGED <<connecting, flights>>
       ELSE CASE closed -> Failed(c, "unavailable") /\ UNCHANGED <<connecting, flights>>
              [] ~closed /\ Joins -> Join(c, connecting) /\ UNCHANGED <<connecting, flights>>
              [] ~closed /\ ~Joins /\ current # 0 ->
                    Admitted(c, current) /\ UNCHANGED <<connecting, flights>>
              [] OTHER -> IF scenario.noReconnect
                          THEN Failed(c, "unavailable") /\ UNCHANGED <<connecting, flights>>
                          ELSE StartFlight /\ Join(c, connecting')
    /\ UNCHANGED <<scenario, connVars, fenced, lifeVars, pending, claimed, gate, torn, engineVars>>

Joined(c) ==
    /\ calls[c].pc = "join" /\ flights[calls[c].flight].pc = "done"
    /\ LET e == flights[calls[c].flight].epoch
       IN IF e = 0 THEN Failed(c, "unavailable") ELSE Admitted(c, e)
    /\ UNCHANGED <<scenario, connVars, flightVars, lifeVars, pending, claimed, gate, torn, engineVars>>

JoinCancelled(c) ==
    /\ calls[c].pc = "join" /\ Failed(c, "cancelled")
    /\ UNCHANGED <<scenario, connVars, flightVars, lifeVars, pending, claimed, gate, torn, engineVars>>

\* The context of a flight: cancelled by Close and by the fence.
Cancelled(f) == closed \/ f <= fenced

Retry(f) == IF flights[f].attempt >= scenario.attempts
            THEN [pc |-> "finish", attempt |-> flights[f].attempt, epoch |-> 0]
            ELSE [pc |-> "dial", attempt |-> flights[f].attempt + 1, epoch |-> 0]

\* The dial fails, or establish finds the client closed or the flight
\* superseded and closes the socket it dialled.
FlightDialFails(f) ==
    /\ flights[f].pc = "dial"
    /\ flights' = [flights EXCEPT ![f] = Retry(f)]
    /\ UNCHANGED <<scenario, connVars, connecting, fenced, lifeVars, callVars, engineVars>>

\* Cancelled in the pause before the next attempt, or closed before any.
FlightCancelled(f) ==
    /\ flights[f].pc = "dial" /\ Cancelled(f) /\ (closed \/ flights[f].attempt > 1)
    /\ flights' = [flights EXCEPT ![f].pc = "finish"]
    /\ UNCHANGED <<scenario, connVars, connecting, fenced, lifeVars, callVars, engineVars>>

Establishes(f) == ~closed /\ connecting = f

FlightEstablish(f) ==
    /\ flights[f].pc = "dial" /\ Establishes(f)
    /\ lastEpoch < scenario.sockets
    /\ lastEpoch' = lastEpoch + 1
    /\ current' = lastEpoch'
    /\ born' = [born EXCEPT ![lastEpoch'] = f]
    /\ open' = open \cup {lastEpoch'} /\ peer' = peer \cup {lastEpoch'}
    /\ reading' = reading \cup {lastEpoch'}
    /\ flights' = [flights EXCEPT ![f].pc = "negotiate", ![f].epoch = lastEpoch']
    /\ UNCHANGED <<scenario, negotiated, connecting, fenced, lifeVars, callVars, engineVars>>

FlightNegotiated(f) ==
    /\ flights[f].pc = "negotiate"
    /\ ~closed /\ current = flights[f].epoch
    /\ negotiated' = negotiated \cup {flights[f].epoch}
    /\ flights' = [flights EXCEPT ![f].pc = "finish"]
    /\ UNCHANGED <<scenario, current, lastEpoch, born, open, peer, reading, connecting, fenced, lifeVars,
                   callVars, engineVars>>

\* A refused, unanswered or cancelled handshake, or the epoch died under it.
FlightNegotiateFails(f) ==
    /\ flights[f].pc = "negotiate"
    /\ Retire(flights[f].epoch)
    /\ flights' = [flights EXCEPT ![f] = Retry(f)]
    /\ UNCHANGED <<scenario, lastEpoch, born, negotiated, peer, reading, connecting, fenced, lifeVars,
                   calls, gate, torn, engineVars>>

FlightFinish(f) ==
    /\ flights[f].pc = "finish"
    /\ flights' = [flights EXCEPT ![f].pc = "done"]
    /\ connecting' = IF connecting = f THEN 0 ELSE connecting
    /\ UNCHANGED <<scenario, connVars, fenced, lifeVars, callVars, engineVars>>

-----------------------------------------------------------------------------
(***************************************************************************)
(* A call on its epoch.                                                    *)
(***************************************************************************)

Registerable(c) == ~closed /\ current = calls[c].epoch

\* Notify has no correlation and does not ask whether its epoch still lives.
Register(c) ==
    /\ calls[c].pc = "admit"
    /\ IF Kind(c) = "notify" THEN calls' = [calls EXCEPT ![c].pc = "write"] /\ UNCHANGED pending
       ELSE IF Registerable(c)
       THEN /\ pending' = pending \cup {c}
            /\ calls' = [calls EXCEPT ![c].pc = "write"]
       ELSE Failed(c, "unavailable") /\ UNCHANGED pending
    /\ UNCHANGED <<scenario, connVars, flightVars, lifeVars, claimed, gate, torn, engineVars>>

\* writeFrame: admission to the gate, which the caller's context may give up.
WriteBegin(c) ==
    /\ calls[c].pc = "write" /\ gate = NoCall
    /\ gate' = c
    /\ calls' = [calls EXCEPT ![c].pc = "writing"]
    /\ UNCHANGED <<scenario, connVars, flightVars, lifeVars, pending, claimed, torn, engineVars>>

WriteCancelled(c) ==
    /\ calls[c].pc = "write" /\ Failed(c, "cancelled")
    /\ pending' = pending \ {c}
    /\ UNCHANGED <<scenario, connVars, flightVars, lifeVars, claimed, gate, torn, engineVars>>

Returning(c) == Kind(c) \in {"detached", "notify"}

\* The whole frame is written.  CallDetached and Notify return; a goroutine
\* waits for the result.  The engine cannot read a frame that follows a torn one.
WriteDone(c) ==
    /\ calls[c].pc = "writing" /\ calls[c].epoch \in open
    /\ gate' = NoCall
    /\ wire' = IF calls[c].epoch \in peer \ torn /\ Kind(c) # "notify" THEN wire \cup {c} ELSE wire
    /\ calls' = [calls EXCEPT ![c].pc = IF Returning(c) THEN "done" ELSE "wait",
                              ![c].ret = IF Returning(c) THEN "ok" ELSE @,
                              ![c].bg = Asynchronous(c)]
    /\ UNCHANGED <<scenario, connVars, flightVars, lifeVars, pending, claimed, torn,
                   inbox, stream, events, faults>>

\* A dead socket, or a write that timed out half way.  The gate is released
\* before the epoch is retired.
WriteFails(c) ==
    /\ calls[c].pc = "writing"
    /\ IF calls[c].epoch \in open \cap peer
       THEN faults < MaxFaults /\ faults' = faults + 1 /\ torn' = torn \cup {calls[c].epoch}
       ELSE UNCHANGED <<faults, torn>>
    /\ gate' = NoCall
    /\ calls' = [calls EXCEPT ![c].pc = IF Kind(c) = "notify" THEN "retire" ELSE "undo"]
    /\ UNCHANGED <<scenario, connVars, flightVars, lifeVars, pending, claimed, wire, inbox, stream, events>>

\* removePending after a failed write.
WriteUndo(c) ==
    /\ calls[c].pc = "undo"
    /\ pending' = pending \ {c}
    /\ calls' = [calls EXCEPT ![c].pc = "retire"]
    /\ UNCHANGED <<scenario, connVars, flightVars, lifeVars, claimed, gate, torn, engineVars>>

\* A failed write is fatal for the epoch.
WriteRetires(c) ==
    /\ calls[c].pc = "retire"
    /\ Retire(calls[c].epoch) /\ Failed(c, "unwritten")
    /\ UNCHANGED <<scenario, lastEpoch, born, negotiated, peer, reading, flightVars, lifeVars,
                   gate, torn, engineVars>>

\* Call and CallInEpochToken take the result themselves.
Return(c) ==
    /\ calls[c].pc = "wait" /\ ~Asynchronous(c) /\ calls[c].result # "none"
    /\ calls' = [calls EXCEPT ![c].pc = "done", ![c].ret = calls[c].result]
    /\ UNCHANGED <<scenario, connVars, flightVars, lifeVars, pending, claimed, gate, torn, engineVars>>

\* The goroutine of CallRetained and CallDetached; CallRetained returns with it.
Complete(c) ==
    /\ calls[c].bg /\ calls[c].result # "none"
    /\ calls' = [calls EXCEPT ![c].bg = FALSE, ![c].completed = @ + 1, ![c].pc = "done",
                              ![c].ret = IF calls[c].pc = "wait" THEN calls[c].result ELSE @]
    /\ UNCHANGED <<scenario, connVars, flightVars, lifeVars, pending, claimed, gate, torn, engineVars>>

\* The caller's context ends.  Only a correlation that is still registered may
\* be given up: Call takes it back, CallRetained leaves it for the goroutine.
WaitCancelled(c) ==
    /\ calls[c].pc = "wait" /\ c \in pending
    /\ pending' = IF Retained(c) THEN pending ELSE pending \ {c}
    /\ calls' = [calls EXCEPT ![c].pc = "done", ![c].ret = "unanswered"]
    /\ UNCHANGED <<scenario, connVars, flightVars, lifeVars, claimed, gate, torn, engineVars>>

-----------------------------------------------------------------------------
(***************************************************************************)
(* readLoop.                                                               *)
(***************************************************************************)

\* Wrong: waits for the subscriber when the queue is full.
EnqueueBlocks(e, v) ==
    /\ e \in open => Len(stream[e]) < EventBuffer
    /\ stream' = IF e \in open THEN [stream EXCEPT ![e] = Append(@, v)] ELSE stream

\* enqueue: a closed stream takes nothing, a full one loses its oldest event.
Enqueue(e, v) ==
    stream' = IF e \notin open THEN stream
              ELSE [stream EXCEPT ![e] = IF Len(@) < EventBuffer THEN Append(@, v)
                                         ELSE Append(Tail(@), v)]

\* Wrong: the correlation is left registered.
SettleKeepsPending(e, c) ==
    IF current = e /\ c \in pending
    THEN /\ claimed' = claimed \cup {[call |-> c, result |-> "answer"]}
         /\ UNCHANGED <<pending, stream>>
    ELSE Enqueue(e, 0) /\ UNCHANGED <<pending, claimed>>

\* settleResponse: on a retired epoch nothing; an answer nobody waits for
\* becomes an event.
Settle(e, c) ==
    CASE current # e -> UNCHANGED <<pending, claimed, stream>>
      [] current = e /\ c \in pending ->
            /\ pending' = pending \ {c}
            /\ claimed' = claimed \cup {[call |-> c, result |-> "answer"]}
            /\ UNCHANGED stream
      [] OTHER -> Enqueue(e, 0) /\ UNCHANGED <<pending, claimed>>

Read(e) ==
    /\ e \in reading /\ inbox[e] # <<>>
    /\ inbox' = [inbox EXCEPT ![e] = Tail(@)]
    /\ LET line == Head(inbox[e])
       IN IF line.call = NoCall THEN Enqueue(e, line.event) /\ UNCHANGED <<pending, claimed>>
          ELSE Settle(e, line.call)
    /\ UNCHANGED <<scenario, connVars, flightVars, lifeVars, calls, gate, torn, wire, events, faults>>

\* End of file, or the socket was closed on this side.
ReadEnds(e) ==
    /\ e \in reading /\ (e \notin open \/ (e \notin peer /\ inbox[e] = <<>>))
    /\ reading' = reading \ {e}
    /\ Retire(e)
    /\ UNCHANGED <<scenario, lastEpoch, born, negotiated, peer, flightVars, lifeVars, calls, gate, torn, engineVars>>

\* The subscriber takes an event.
Consume(e) ==
    /\ stream[e] # <<>>
    /\ stream' = [stream EXCEPT ![e] = Tail(@)]
    /\ UNCHANGED <<scenario, connVars, flightVars, lifeVars, callVars, wire, inbox, events, faults>>

-----------------------------------------------------------------------------
(***************************************************************************)
(* FenceConnectionGeneration, EnsureConnectedAfter and Close.              *)
(***************************************************************************)

\* Wrong: a flight that is under way goes on.
FenceCurrentOnly == fenced' = Len(flights) /\ UNCHANGED connecting

\* The part of the fence that is about the flight.
FenceFlights == connecting' = 0 /\ fenced' = Len(flights)

Fence ==
    /\ scenario.restart /\ restart.pc = "idle"
    /\ FenceFlights
    /\ IF current # 0 THEN Invalidate(current) ELSE UNCHANGED <<current, pending, claimed, open>>
    /\ restart' = [restart EXCEPT !.pc = "fenced", !.retired = current]
    /\ UNCHANGED <<scenario, lastEpoch, born, negotiated, peer, reading, flights, closed, closer,
                   calls, gate, torn, engineVars>>

\* EnsureConnectedAfter: joins the flight it sees, or asks connection(), which
\* looks at closed first.
EnsureAfter ==
    /\ restart.pc = "fenced"
    /\ \/ /\ connecting # 0
          /\ restart' = [restart EXCEPT !.pc = "join", !.flight = connecting]
          /\ UNCHANGED <<connecting, flights>>
       \/ /\ closed \/ (connecting = 0 /\ current = 0 /\ scenario.noReconnect)
          /\ restart' = [restart EXCEPT !.pc = "failed"]
          /\ UNCHANGED <<connecting, flights>>
       \/ /\ ~closed /\ connecting = 0 /\ current # 0
          /\ restart' = [restart EXCEPT !.pc = "check", !.epoch = current]
          /\ UNCHANGED <<connecting, flights>>
       \/ /\ ~closed /\ connecting = 0 /\ current = 0 /\ ~scenario.noReconnect
          /\ StartFlight
          /\ restart' = [restart EXCEPT !.pc = "join", !.flight = connecting']
    /\ UNCHANGED <<scenario, connVars, fenced, closed, closer, callVars, engineVars>>

\* The restart's context ends while it waits for the flight.
EnsureCancelled ==
    /\ restart.pc = "join" /\ restart' = [restart EXCEPT !.pc = "failed"]
    /\ UNCHANGED <<scenario, connVars, flightVars, closed, closer, callVars, engineVars>>

EnsureJoined ==
    /\ restart.pc = "join" /\ flights[restart.flight].pc = "done"
    /\ LET e == flights[restart.flight].epoch
       IN restart' = IF e = 0 THEN [restart EXCEPT !.pc = "failed"]
                     ELSE [restart EXCEPT !.pc = "check", !.epoch = e]
    /\ UNCHANGED <<scenario, connVars, flightVars, closed, closer, callVars, engineVars>>

EnsureChecked ==
    /\ restart.pc = "check"
    /\ restart' = [restart EXCEPT
            !.pc = IF /\ restart.epoch # restart.retired
                      /\ current = restart.epoch /\ restart.epoch \in negotiated
                   THEN "ok" ELSE "failed"]
    /\ UNCHANGED <<scenario, connVars, flightVars, closed, closer, callVars, engineVars>>

\* Close: the flag and the context; then, the lock released in between, the
\* epoch that was current, which nothing can have replaced; then it waits for
\* the readers and the flights.
Close ==
    /\ scenario.close /\ ~closed /\ closed' = TRUE /\ closer' = "closing"
    /\ UNCHANGED <<scenario, connVars, flightVars, restart, callVars, engineVars>>

\* Wrong: the socket is left to its reader.
CloseLeaves ==
    /\ closer = "closing" /\ closer' = "waiting"
    /\ UNCHANGED <<scenario, connVars, flightVars, closed, restart, callVars, engineVars>>

CloseInvalidates ==
    /\ closer = "closing" /\ closer' = "waiting"
    /\ IF current # 0 THEN Invalidate(current) ELSE UNCHANGED <<current, pending, claimed, open>>
    /\ UNCHANGED <<scenario, lastEpoch, born, negotiated, peer, reading, flightVars, closed, restart,
                   calls, gate, torn, engineVars>>

CloseReturns ==
    /\ closer = "waiting" /\ reading = {} /\ \A f \in DOMAIN flights : flights[f].pc = "done"
    /\ closer' = "done"
    /\ UNCHANGED <<scenario, connVars, flightVars, closed, restart, callVars, engineVars>>

-----------------------------------------------------------------------------
(***************************************************************************)
(* The engine, external.                                                   *)
(***************************************************************************)

Answer(c) ==
    /\ c \in wire /\ wire' = wire \ {c}
    /\ inbox' = IF calls[c].epoch \in peer
                THEN [inbox EXCEPT ![calls[c].epoch] = Append(@, [call |-> c, event |-> 0])]
                ELSE inbox
    /\ UNCHANGED <<scenario, connVars, flightVars, lifeVars, callVars, stream, events, faults>>

Emit(e) ==
    /\ e \in peer /\ events < scenario.events
    /\ events' = events + 1
    /\ inbox' = [inbox EXCEPT ![e] = Append(@, [call |-> NoCall, event |-> events'])]
    /\ UNCHANGED <<scenario, connVars, flightVars, lifeVars, callVars, wire, stream, faults>>

Hangup(e) ==
    /\ e \in peer /\ faults < MaxFaults
    /\ faults' = faults + 1 /\ peer' = peer \ {e}
    /\ UNCHANGED <<scenario, current, lastEpoch, born, negotiated, open, reading, flightVars, lifeVars,
                   callVars, wire, inbox, stream, events>>

-----------------------------------------------------------------------------
CallStep(c) == \/ Joined(c) \/ Register(c) \/ WriteBegin(c) \/ WriteUndo(c) \/ WriteRetires(c)
               \/ Return(c) \/ Complete(c)
CallerLeaves(c) == JoinCancelled(c) \/ WriteCancelled(c) \/ WaitCancelled(c)
DialEnds(f) == FlightCancelled(f) \/ FlightEstablish(f) \/ FlightDialFails(f)
HandshakeEnds(f) == FlightNegotiated(f) \/ FlightNegotiateFails(f)
ReadStep(e) == Read(e) \/ ReadEnds(e)
RestartStep == EnsureAfter \/ EnsureJoined \/ EnsureChecked

Next ==
    \/ \E c \in Calls : \/ Begin(c) \/ CallStep(c) \/ CallerLeaves(c)
                        \/ WriteDone(c) \/ WriteFails(c) \/ Answer(c)
    \/ \E k \in claimed : Deliver(k)
    \/ \E f \in DOMAIN flights : DialEnds(f) \/ HandshakeEnds(f) \/ FlightFinish(f)
    \/ \E e \in Epochs : ReadStep(e) \/ Consume(e) \/ Emit(e) \/ Hangup(e)
    \/ Fence \/ RestartStep \/ EnsureCancelled \/ Close \/ CloseInvalidates \/ CloseReturns

Spec == Init /\ [][Next]_vars

\* A handshake ends by itself only when its context is cancelled or its epoch
\* is gone: the flight's context has no deadline.
HandshakeLost(f) ==
    (Cancelled(f) \/ current # flights[f].epoch) /\ FlightNegotiateFails(f)

\* Goroutines that can run do run, a write ends within WriteTimeout, a dial
\* ends.  Nothing is asked of the engine, of the event subscriber or of the
\* callers' contexts.
Fairness ==
    /\ \A c \in Calls : WF_vars(CallStep(c)) /\ WF_vars(WriteDone(c) \/ WriteFails(c))
    /\ \A c \in Calls : \A x \in Results \ {"none"} : WF_vars(Deliver([call |-> c, result |-> x]))
    /\ \A f \in 1..MaxFlights :
          /\ WF_vars(f \in DOMAIN flights /\ DialEnds(f))
          /\ WF_vars(f \in DOMAIN flights /\ HandshakeLost(f))
          /\ WF_vars(f \in DOMAIN flights /\ FlightFinish(f))
    /\ \A e \in Epochs : WF_vars(ReadStep(e))
    /\ WF_vars(CloseInvalidates) /\ WF_vars(CloseReturns)

LiveSpec == Spec /\ Fairness

-----------------------------------------------------------------------------
(***************************************************************************)
(* What the client promises.                                               *)
(***************************************************************************)

Awaits(c) == calls[c].pc = "wait" \/ calls[c].bg

ClaimsOn(c) == {k \in claimed : k.call = c}

\* A response, the end of the epoch and the caller compete for a correlation
\* and exactly one wins: a result channel never gets a second result, which
\* would block readLoop or invalidate for ever, and a caller that still waits
\* has a correlation, a claim under way or a result.  CallRetained's completion
\* function then runs exactly once however the call ends, CallDetached's once if
\* the call returned no error and otherwise never.
SettledOnce ==
    \A c \in Calls :
        /\ Cardinality(ClaimsOn(c)) <= 1
        /\ c \in pending => ClaimsOn(c) = {} /\ calls[c].result = "none"
        /\ ClaimsOn(c) # {} => calls[c].result = "none"
        /\ Awaits(c) => c \in pending \/ ClaimsOn(c) # {} \/ calls[c].result # "none"
        /\ calls[c].completed =
              IF calls[c].pc # "done" \/ calls[c].bg THEN 0
              ELSE IF Retained(c) \/ (Kind(c) = "detached" /\ calls[c].ret = "ok") THEN 1 ELSE 0

\* Requests go out only on an epoch whose handshake is complete, although
\* establish makes a socket current before negotiate has run on it.
NegotiatedBeforeUse ==
    \A c \in Calls : calls[c].epoch # 0 => calls[c].epoch \in negotiated

\* Once a generation is fenced, no flight that began before the fence makes its
\* socket current, and a restart that reports success is connected to a socket
\* dialled after it.
FencedFlightIsSilent ==
    /\ current # 0 => born[current] > fenced
    /\ restart.pc = "ok" => restart.epoch # restart.retired /\ born[restart.epoch] > fenced

Answered(c) == \E i \in DOMAIN inbox[calls[c].epoch] : inbox[calls[c].epoch][i].call = c

\* Whoever waits for an answer that has been sent, or on an epoch that the
\* engine dropped or this side retired, is told; a subscriber that reads no
\* events does not prevent it.
Settles ==
    \A c \in Calls :
        Awaits(c) /\ (calls[c].epoch # current \/ calls[c].epoch \notin peer \/ Answered(c))
            ~> ~Awaits(c)

\* Close returns, whatever the readers and the reconnect flight were doing, and
\* then the client holds no epoch, no correlation, no open socket and no
\* reconnect flight.
CloseEnds ==
    closed ~> closer = "done" /\ current = 0 /\ pending = {} /\ open = {} /\ connecting = 0

\* "a newline-JSON stream cannot safely append another frame after an
\* incomplete one": no frame is written on a socket that holds a torn one.
NoFrameAfterTorn ==
    [][\A c \in Calls : WriteDone(c) => calls[c].epoch \notin torn]_vars
=============================================================================
