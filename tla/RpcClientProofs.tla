--------------------------- MODULE RpcClientProofs ---------------------------
(***************************************************************************)
(* Proofs about the connection of RpcClient, for every set of calls, every *)
(* scenario and every bound: the type invariant, one settlement per call,  *)
(* no request before the handshake, and no socket of a flight older than   *)
(* the last fence.                                                         *)
(***************************************************************************)
EXTENDS RpcClient, FiniteSetTheorems, TLAPS

-----------------------------------------------------------------------------
(***************************************************************************)
(* The inductive invariant.  Its first half is about a call: a correlation *)
(* is in pending, in the hands of its claimer or in the channel, never in  *)
(* two of them.  Its second half is about the epochs.                      *)
(***************************************************************************)

\* The call c has an entry in pending, a claim on its way or a result.
HasClaim(c) == \E k \in claimed : k.call = c
Held(c) == c \in pending \/ HasClaim(c) \/ calls[c].result # "none"

\* At most one claim is made on a call, and none while it is in pending.
ClaimedOnce ==
    /\ \A k, l \in claimed : k.call = l.call => k = l
    /\ \A k \in claimed : k.call \notin pending /\ calls[k.call].result = "none"
    /\ \A c \in pending : calls[c].result = "none"

\* A call that is not registered yet is held by nobody, one whose frame is to be
\* written or whose result is waited for is held; a notification has no
\* correlation, and one whose write failed has none any more.
CallHeld(c) ==
    /\ calls[c].pc \in {"idle", "join", "admit"} => ~Held(c)
    /\ calls[c].pc \in {"write", "writing"} /\ Kind(c) # "notify" => Held(c)
    /\ Awaits(c) => Held(c)
    /\ calls[c].pc = "retire" \/ Kind(c) = "notify" => c \notin pending

\* What the step of a call says of its completion function.
CallRuns(c) ==
    /\ calls[c].bg => Asynchronous(c) /\ calls[c].pc \in {"wait", "done"}
    /\ calls[c].bg /\ Kind(c) = "detached" => calls[c].ret = "ok"
    /\ calls[c].pc = "wait" => Kind(c) \notin {"detached", "notify"} /\ calls[c].bg = Asynchronous(c)
    /\ calls[c].completed =
          IF calls[c].pc # "done" \/ calls[c].bg THEN 0
          ELSE IF Retained(c) \/ (Kind(c) = "detached" /\ calls[c].ret = "ok") THEN 1 ELSE 0

CallInv == ClaimedOnce /\ \A c \in Calls : CallHeld(c) /\ CallRuns(c)

\* Nobody speaks of an epoch or a flight that does not exist yet.
Known ==
    /\ current <= lastEpoch /\ restart.epoch <= lastEpoch
    /\ \A f \in DOMAIN flights : flights[f].epoch <= lastEpoch
    /\ connecting <= Len(flights) /\ fenced <= Len(flights) /\ Len(flights) <= MaxFlights
    /\ \A c \in Calls : calls[c].pc = "join" => calls[c].flight \in DOMAIN flights
    /\ restart.pc = "join" => restart.flight \in DOMAIN flights
    /\ restart.pc \in {"check", "ok"} => restart.epoch # 0

\* A flight has no epoch while it dials, and ends with one that is negotiated
\* or with none; a current epoch that is not negotiated is in the hands of the
\* flight everybody joins.
Negotiates ==
    /\ \A f \in DOMAIN flights :
          /\ flights[f].pc = "dial" => flights[f].epoch = 0
          /\ flights[f].pc = "negotiate" => flights[f].epoch # 0
          /\ flights[f].pc \in {"finish", "done"} /\ flights[f].epoch # 0 => flights[f].epoch \in negotiated
    /\ current # 0 /\ current \notin negotiated =>
          /\ connecting # 0 /\ flights[connecting].pc = "negotiate" /\ flights[connecting].epoch = current

\* The flight under way began after the last fence.
Fences == connecting # 0 => connecting > fenced

EpochInv == Known /\ Negotiates /\ Fences /\ NegotiatedBeforeUse /\ FencedFlightIsSilent

IInv == TypeOK /\ CallInv /\ EpochInv

-----------------------------------------------------------------------------
(***************************************************************************)
(* Types.                                                                  *)
(***************************************************************************)

LEMMA InitInv == Init => IInv
<1> SUFFICES ASSUME Init PROVE IInv
  OBVIOUS
<1> USE DEF Init
<1>1. scenario \in Scenario
  BY CallsAssumption
<1>2. TypeOK
  <2>1. calls \in [Calls -> CallState]
    BY BoundAssumption DEF CallState, Fresh, Steps, Flights, Results, Returns
  <2>2. restart \in RestartState
    BY BoundAssumption DEF RestartState, Flights
  <2>3. inbox \in [Epochs -> Seq(Line)] /\ stream \in [Epochs -> Seq(Nat)]
    OBVIOUS
  <2>4. \A e \in Epochs : Len(stream[e]) <= EventBuffer
    BY ConfigAssumption
  <2>5. 1 \in Epochs /\ 0 \in Flights /\ fenced \in -1..MaxFlights /\ current \in 0..MaxEpochs
    BY BoundAssumption DEF Epochs, Flights
  <2>6. flights \in Seq(FlightState)
    OBVIOUS
  <2> QED
    BY <1>1, <2>1, <2>2, <2>3, <2>4, <2>5, <2>6 DEF TypeOK
<1>3. CallInv
  BY DEF CallInv, ClaimedOnce, CallHeld, CallRuns, Held, HasClaim, Awaits, Fresh
<1>4. EpochInv
  BY BoundAssumption DEF EpochInv, Known, Negotiates, Fences, NegotiatedBeforeUse, FencedFlightIsSilent, Fresh, Epochs
<1> QED
  BY <1>2, <1>3, <1>4 DEF IInv

\* The parts of TypeOK that belong to the calls, to the epochs and to the rest.
LEMMA CallType ==
    ASSUME calls \in [Calls -> CallState], NEW c \in Calls
    PROVE  /\ calls[c] \in CallState
           /\ calls[c].pc \in Steps /\ calls[c].flight \in Flights /\ calls[c].epoch \in 0..MaxEpochs
           /\ calls[c].result \in Results /\ calls[c].ret \in Returns /\ calls[c].bg \in BOOLEAN
           /\ calls[c].completed \in Nat
BY DEF CallState

LEMMA FailedType ==
    ASSUME calls \in [Calls -> CallState], NEW c \in Calls, NEW ret \in Returns, Failed(c, ret)
    PROVE  calls' \in [Calls -> CallState]
<1> DEFINE n == IF Retained(c) THEN calls[c].completed + 1 ELSE calls[c].completed
<1>1. n \in Nat
  BY CallType
<1>2. calls' = [calls EXCEPT ![c].pc = "done", ![c].ret = ret, ![c].completed = n]
  BY Zenon DEF Failed
<1> HIDE DEF n
<1>3. "done" \in Steps /\ calls[c] \in CallState
  BY CallType DEF Steps
<1>4. [calls[c] EXCEPT !.pc = "done", !.ret = ret, !.completed = n] \in CallState
  BY <1>1, <1>3, BoundAssumption DEF CallState
<1> QED
  BY <1>2, <1>4

LEMMA AdmittedType ==
    ASSUME calls \in [Calls -> CallState], NEW c \in Calls, NEW e \in 0..MaxEpochs, Admitted(c, e)
    PROVE  calls' \in [Calls -> CallState]
BY BoundAssumption DEF CallState, Admitted, Steps

LEMMA JoinType ==
    ASSUME calls \in [Calls -> CallState], NEW c \in Calls, NEW f \in Flights, Join(c, f)
    PROVE  calls' \in [Calls -> CallState]
BY BoundAssumption DEF CallState, Join, Steps

LEMMA StartFlightType ==
    ASSUME TypeOK, Known, StartFlight
    PROVE  connecting' \in Flights \ {0} /\ flights' \in Seq(FlightState)
BY BoundAssumption DEF TypeOK, Known, StartFlight, NewFlight, FlightState, Flights

LEMMA RetireType ==
    ASSUME TypeOK, NEW e, Retire(e)
    PROVE  /\ current' \in 0..MaxEpochs /\ pending' \subseteq Calls
           /\ claimed' \subseteq Claim /\ open' \subseteq Epochs
<1>1. CASE Invalidate(e)
  <2>1. \A c \in pending : [call |-> c, result |-> "dead"] \in Claim
    BY DEF TypeOK, Claim, Results
  <2> QED
    BY <1>1, <2>1, BoundAssumption DEF TypeOK, Invalidate
<1>2. CASE UNCHANGED <<current, pending, claimed, open>>
  BY <1>2 DEF TypeOK
<1> QED
  BY <1>1, <1>2 DEF Retire

LEMMA RetryType ==
    ASSUME TypeOK, NEW f \in DOMAIN flights
    PROVE  Retry(f) \in FlightState
<1>1. flights[f] \in FlightState
  BY DEF TypeOK
<1>2. flights[f].attempt \in Nat /\ flights[f].attempt + 1 \in Nat /\ 0 \in 0..MaxEpochs
  BY <1>1, BoundAssumption DEF FlightState
<1> QED
  BY <1>2 DEF Retry, FlightState

LEMMA EnqueueType ==
    ASSUME TypeOK, NEW e \in Epochs, NEW v \in Nat, Enqueue(e, v)
    PROVE  stream' \in [Epochs -> Seq(Nat)] /\ \A i \in Epochs : Len(stream'[i]) <= EventBuffer
<1> DEFINE new == IF Len(stream[e]) < EventBuffer THEN Append(stream[e], v) ELSE Append(Tail(stream[e]), v)
<1>1. stream \in [Epochs -> Seq(Nat)] /\ stream[e] \in Seq(Nat) /\ Len(stream[e]) \in Nat
  BY DEF TypeOK
<1>2. Len(stream[e]) <= EventBuffer /\ EventBuffer \in Nat /\ EventBuffer > 0
  BY ConfigAssumption DEF TypeOK
<1>3. new \in Seq(Nat) /\ Len(new) <= EventBuffer
  BY <1>1, <1>2
<1>4. stream' = stream \/ stream' = [stream EXCEPT ![e] = new]
  BY DEF Enqueue
<1> HIDE DEF new
<1> QED
  BY <1>1, <1>3, <1>4 DEF TypeOK

\* The variables of a step that only moves the calls along.
Rest == <<scenario, connVars, flightVars, lifeVars, pending, claimed, gate, torn, engineVars>>

LEMMA CallsMove ==
    ASSUME TypeOK, calls' \in [Calls -> CallState], UNCHANGED Rest
    PROVE  TypeOK'
BY DEF TypeOK, Rest, connVars, flightVars, lifeVars, engineVars

LEMMA TypeCall ==
    ASSUME IInv, NEW c \in Calls,
           Begin(c) \/ CallStep(c) \/ CallerLeaves(c) \/ WriteDone(c) \/ WriteFails(c) \/ Answer(c)
    PROVE  TypeOK'
<1> USE DEF connVars, flightVars, lifeVars, callVars, engineVars
<1>0. TypeOK /\ Known /\ calls \in [Calls -> CallState]
  BY DEF IInv, EpochInv, TypeOK
<1>a. /\ calls[c] \in CallState
      /\ calls[c].pc \in Steps /\ calls[c].flight \in Flights /\ calls[c].epoch \in 0..MaxEpochs
      /\ calls[c].result \in Results /\ calls[c].ret \in Returns /\ calls[c].bg \in BOOLEAN
      /\ calls[c].completed \in Nat
  BY <1>0, CallType
<1>1. CASE Begin(c)
  <2>1. CASE UNCHANGED <<connecting, flights>>
    <3>1. \/ \E e \in negotiated : Admitted(c, e)
          \/ Failed(c, "unavailable")
          \/ Join(c, connecting)
          \/ Admitted(c, current)
      BY <1>1, <2>1 DEF Begin, StartFlight
    <3>2. "unavailable" \in Returns /\ connecting \in Flights /\ current \in 0..MaxEpochs
      BY <1>0 DEF Returns, TypeOK
    <3>3. \A e \in negotiated : e \in 0..MaxEpochs
      BY <1>0 DEF TypeOK, Epochs
    <3>4. calls' \in [Calls -> CallState]
      BY <1>0, <3>1, <3>2, <3>3, AdmittedType, FailedType, JoinType
    <3> QED
      BY <1>0, <1>1, <2>1, <3>4, CallsMove DEF Begin, Rest
  <2>2. CASE StartFlight /\ Join(c, connecting')
    BY <1>0, <1>1, <2>2, StartFlightType, JoinType DEF Begin, TypeOK
  <2> QED
    BY <1>1, <2>1, <2>2 DEF Begin
<1>2. CASE Joined(c)
  <2>1. flights[calls[c].flight].epoch \in 0..MaxEpochs
    <3>1. flights[calls[c].flight] \in FlightState
      BY <1>0, <1>2 DEF Joined, TypeOK, Known
    <3> QED
      BY <3>1 DEF FlightState
  <2> QED
    BY <1>0, <1>2, <2>1, FailedType, AdmittedType, CallsMove DEF Joined, Returns, Rest
<1>3. CASE JoinCancelled(c)
  BY <1>0, <1>3, FailedType, CallsMove DEF JoinCancelled, Returns, Rest
<1>4. CASE Register(c)
  <2>1. calls' \in [Calls -> CallState]
    <3>1. CASE Failed(c, "unavailable")
      BY <1>0, <3>1, FailedType DEF Returns
    <3>2. CASE calls' = [calls EXCEPT ![c].pc = "write"]
      BY <1>0, <3>2, BoundAssumption DEF CallState, Steps
    <3> QED
      BY <1>4, <3>1, <3>2 DEF Register
  <2>2. pending' \subseteq Calls
    BY <1>0, <1>4 DEF Register, TypeOK
  <2> QED
    BY <1>0, <1>4, <2>1, <2>2 DEF Register, TypeOK
<1>5. CASE WriteBegin(c)
  <2>1. calls' \in [Calls -> CallState]
    BY <1>0, <1>5, BoundAssumption DEF WriteBegin, CallState, Steps
  <2> QED
    BY <1>0, <1>5, <2>1 DEF WriteBegin, TypeOK
<1>6. CASE WriteCancelled(c)
  <2>1. calls' \in [Calls -> CallState]
    BY <1>0, <1>6, FailedType DEF WriteCancelled, Returns
  <2> QED
    BY <1>0, <1>6, <2>1 DEF WriteCancelled, TypeOK
<1>7. CASE WriteDone(c)
  <2> DEFINE p == IF Returning(c) THEN "done" ELSE "wait"
             r == IF Returning(c) THEN "ok" ELSE calls[c].ret
             b == Asynchronous(c)
  <2>1. p \in Steps /\ r \in Returns /\ b \in BOOLEAN
    BY <1>a DEF Steps, Returns, Asynchronous, Retained
  <2>2. calls' = [calls EXCEPT ![c].pc = p, ![c].ret = r, ![c].bg = b]
    BY <1>7 DEF WriteDone
  <2> HIDE DEF p, r, b
  <2>3. calls' \in [Calls -> CallState]
    BY <1>0, <2>1, <2>2, BoundAssumption DEF CallState
  <2> QED
    BY <1>0, <1>7, <2>3 DEF WriteDone, TypeOK
<1>8. CASE WriteFails(c)
  <2> DEFINE p == IF Kind(c) = "notify" THEN "retire" ELSE "undo"
  <2>1. p \in Steps
    BY DEF Steps
  <2>2. calls' = [calls EXCEPT ![c].pc = p]
    BY <1>8 DEF WriteFails
  <2> HIDE DEF p
  <2>3. calls' \in [Calls -> CallState]
    BY <1>0, <2>1, <2>2, BoundAssumption DEF CallState
  <2>4. faults' \in Nat /\ torn' \subseteq Epochs
    BY <1>0, <1>8 DEF WriteFails, TypeOK
  <2> QED
    BY <1>0, <1>8, <2>3, <2>4 DEF WriteFails, TypeOK
<1>9. CASE WriteUndo(c)
  <2>1. calls' \in [Calls -> CallState]
    BY <1>0, <1>9, BoundAssumption DEF WriteUndo, CallState, Steps
  <2> QED
    BY <1>0, <1>9, <2>1 DEF WriteUndo, TypeOK
<1>10. CASE WriteRetires(c)
  <2>1. calls' \in [Calls -> CallState]
    BY <1>0, <1>10, FailedType DEF WriteRetires, Returns
  <2>2. /\ current' \in 0..MaxEpochs /\ pending' \subseteq Calls
        /\ claimed' \subseteq Claim /\ open' \subseteq Epochs
    BY <1>0, <1>10, RetireType DEF WriteRetires
  <2> QED
    BY <1>0, <1>10, <2>1, <2>2 DEF WriteRetires, TypeOK
<1>11. CASE Return(c)
  <2>1. calls' \in [Calls -> CallState]
    BY <1>0, <1>a, <1>11, BoundAssumption DEF Return, CallState, Steps, Results, Returns
  <2> QED
    BY <1>0, <1>11, <2>1, CallsMove DEF Return, Rest
<1>12. CASE Complete(c)
  <2> DEFINE r == IF calls[c].pc = "wait" THEN calls[c].result ELSE calls[c].ret
  <2>1. r \in Returns /\ calls[c].completed + 1 \in Nat
    BY <1>a DEF Results, Returns
  <2>2. calls' = [calls EXCEPT ![c].bg = FALSE, ![c].completed = @ + 1, ![c].pc = "done", ![c].ret = r]
    BY <1>12 DEF Complete
  <2> HIDE DEF r
  <2>3. calls' \in [Calls -> CallState]
    BY <1>0, <2>1, <2>2, BoundAssumption DEF CallState, Steps
  <2> QED
    BY <1>0, <1>12, <2>3, CallsMove DEF Complete, Rest
<1>13. CASE WaitCancelled(c)
  <2>1. calls' \in [Calls -> CallState]
    <3>1. "done" \in Steps /\ "unanswered" \in Returns
      BY DEF Steps, Returns
    <3> QED
      BY <1>0, <1>13, <3>1, BoundAssumption DEF WaitCancelled, CallState
  <2>2. pending' \subseteq Calls
    BY <1>0, <1>13 DEF WaitCancelled, TypeOK
  <2> QED
    BY <1>0, <1>13, <2>1, <2>2 DEF WaitCancelled, TypeOK
<1>14. CASE Answer(c)
  <2>1. [call |-> c, event |-> 0] \in Line
    BY DEF Line
  <2>2. calls[c].epoch \in peer => calls[c].epoch \in Epochs
    BY <1>0 DEF TypeOK
  <2>3. inbox' \in [Epochs -> Seq(Line)]
    BY <1>0, <1>14, <2>1, <2>2 DEF Answer, TypeOK
  <2> QED
    BY <1>0, <1>14, <2>3 DEF Answer, TypeOK
<1> QED
  BY <1>1, <1>2, <1>3, <1>4, <1>5, <1>6, <1>7, <1>8, <1>9, <1>10, <1>11, <1>12, <1>13, <1>14
     DEF CallStep, CallerLeaves

\* A flight that moves on is still a flight.
LEMMA FlightMoves ==
    ASSUME flights \in Seq(FlightState), NEW f \in DOMAIN flights,
           NEW p \in {"dial", "negotiate", "finish", "done"}, NEW e \in 0..MaxEpochs
    PROVE  /\ [flights EXCEPT ![f].pc = p] \in Seq(FlightState)
           /\ [flights EXCEPT ![f].pc = p, ![f].epoch = e] \in Seq(FlightState)
<1>1. flights[f] \in FlightState
  OBVIOUS
<1>2. [flights[f] EXCEPT !.pc = p] \in FlightState /\ [flights[f] EXCEPT !.pc = p, !.epoch = e] \in FlightState
  BY <1>1 DEF FlightState
<1> QED
  BY <1>2

LEMMA TypeFlight ==
    ASSUME IInv, NEW f \in DOMAIN flights, DialEnds(f) \/ HandshakeEnds(f) \/ FlightFinish(f)
    PROVE  TypeOK'
<1> USE DEF connVars, flightVars, lifeVars, callVars, engineVars
<1>0. TypeOK /\ Known
  BY DEF IInv, EpochInv
<1>a. /\ f \in 1..Len(flights) /\ Len(flights) \in Nat /\ f \in Flights /\ flights \in Seq(FlightState)
      /\ flights[f] \in FlightState /\ Retry(f) \in FlightState
  BY <1>0, RetryType, BoundAssumption DEF TypeOK, Known, Flights
<1>b. flights[f].epoch \in 0..MaxEpochs
  BY <1>a DEF FlightState
<1>1. CASE FlightDialFails(f)
  BY <1>0, <1>a, <1>1 DEF FlightDialFails, TypeOK
<1>2. CASE FlightCancelled(f)
  <2>1. flights' \in Seq(FlightState)
    BY <1>a, <1>b, <1>2, FlightMoves DEF FlightCancelled
  <2> QED
    BY <1>0, <1>2, <2>1 DEF FlightCancelled, TypeOK
<1>3. CASE FlightEstablish(f)
  <2>1. lastEpoch' \in Epochs /\ lastEpoch' \in 0..MaxEpochs
    <3>1. scenario.sockets \in 1..MaxEpochs
      BY <1>0 DEF TypeOK, Scenario
    <3>2. lastEpoch \in 1..MaxEpochs /\ lastEpoch < scenario.sockets /\ lastEpoch' = lastEpoch + 1
      BY <1>0, <1>3 DEF FlightEstablish, TypeOK, Epochs
    <3> QED
      BY <3>1, <3>2, BoundAssumption DEF Epochs
  <2>2. flights' \in Seq(FlightState)
    BY <1>a, <1>3, <2>1, FlightMoves DEF FlightEstablish
  <2>3. born' \in [Epochs -> Flights]
    BY <1>0, <1>a, <1>3, <2>1 DEF FlightEstablish, TypeOK
  <2> QED
    BY <1>0, <1>3, <2>1, <2>2, <2>3 DEF FlightEstablish, TypeOK
<1>4. CASE FlightNegotiated(f)
  <2>1. flights' \in Seq(FlightState)
    BY <1>a, <1>b, <1>4, FlightMoves DEF FlightNegotiated
  <2>2. negotiated' \subseteq Epochs
    <3>1. flights[f].epoch # 0
      BY <1>4 DEF FlightNegotiated, IInv, EpochInv, Negotiates
    <3> QED
      BY <1>0, <1>b, <1>4, <3>1, BoundAssumption DEF FlightNegotiated, TypeOK, Epochs
  <2> QED
    BY <1>0, <1>4, <2>1, <2>2 DEF FlightNegotiated, TypeOK
<1>5. CASE FlightNegotiateFails(f)
  <2>1. flights' \in Seq(FlightState)
    BY <1>a, <1>5 DEF FlightNegotiateFails
  <2>2. /\ current' \in 0..MaxEpochs /\ pending' \subseteq Calls
        /\ claimed' \subseteq Claim /\ open' \subseteq Epochs
    BY <1>0, <1>5, RetireType DEF FlightNegotiateFails
  <2> QED
    BY <1>0, <1>5, <2>1, <2>2 DEF FlightNegotiateFails, TypeOK
<1>6. CASE FlightFinish(f)
  <2>1. flights' \in Seq(FlightState)
    BY <1>a, <1>b, <1>6, FlightMoves DEF FlightFinish
  <2>2. connecting' \in Flights
    BY <1>0, <1>6, BoundAssumption DEF FlightFinish, TypeOK, Flights
  <2> QED
    BY <1>0, <1>6, <2>1, <2>2 DEF FlightFinish, TypeOK
<1> QED
  BY <1>1, <1>2, <1>3, <1>4, <1>5, <1>6 DEF DialEnds, HandshakeEnds

LEMMA SettleType ==
    ASSUME TypeOK, NEW e \in Epochs, NEW c \in Calls, Settle(e, c)
    PROVE  /\ pending' \subseteq Calls /\ claimed' \subseteq Claim
           /\ stream' \in [Epochs -> Seq(Nat)] /\ \A i \in Epochs : Len(stream'[i]) <= EventBuffer
<1>1. [call |-> c, result |-> "answer"] \in Claim
  BY DEF Claim, Results
<1>2. CASE UNCHANGED <<pending, claimed, stream>>
  BY <1>2 DEF TypeOK
<1>3. CASE /\ pending' = pending \ {c} /\ UNCHANGED stream
           /\ claimed' = claimed \cup {[call |-> c, result |-> "answer"]}
  BY <1>1, <1>3 DEF TypeOK
<1>4. CASE Enqueue(e, 0) /\ UNCHANGED <<pending, claimed>>
  BY <1>4, EnqueueType DEF TypeOK
<1> QED
  BY <1>2, <1>3, <1>4 DEF Settle

LEMMA TypeEpoch ==
    ASSUME IInv, NEW e \in Epochs, ReadStep(e) \/ Consume(e) \/ Emit(e) \/ Hangup(e)
    PROVE  TypeOK'
<1> USE DEF connVars, flightVars, lifeVars, callVars, engineVars
<1>0. TypeOK
  BY DEF IInv
<1>a. inbox[e] \in Seq(Line) /\ stream[e] \in Seq(Nat)
  BY <1>0 DEF TypeOK
<1>1. CASE Read(e)
  <2>1. inbox' \in [Epochs -> Seq(Line)] /\ Head(inbox[e]) \in Line
    BY <1>0, <1>a, <1>1 DEF Read, TypeOK
  <2>2. /\ pending' \subseteq Calls /\ claimed' \subseteq Claim
        /\ stream' \in [Epochs -> Seq(Nat)] /\ \A i \in Epochs : Len(stream'[i]) <= EventBuffer
    <3>1. CASE Head(inbox[e]).call = NoCall
      <4>1. Head(inbox[e]).event \in Nat
        BY <2>1 DEF Line
      <4>2. Enqueue(e, Head(inbox[e]).event) /\ UNCHANGED <<pending, claimed>>
        BY <1>1, <3>1 DEF Read
      <4> QED
        BY <1>0, <4>1, <4>2, EnqueueType DEF TypeOK
    <3>2. CASE Head(inbox[e]).call # NoCall
      <4>1. Head(inbox[e]).call \in Calls
        BY <2>1, <3>2 DEF Line
      <4>2. Settle(e, Head(inbox[e]).call)
        BY <1>1, <3>2 DEF Read
      <4> QED
        BY <1>0, <4>1, <4>2, SettleType
    <3> QED
      BY <3>1, <3>2
  <2> QED
    BY <1>0, <1>1, <2>1, <2>2 DEF Read, TypeOK
<1>2. CASE ReadEnds(e)
  <2>1. /\ current' \in 0..MaxEpochs /\ pending' \subseteq Calls
        /\ claimed' \subseteq Claim /\ open' \subseteq Epochs
    BY <1>0, <1>2, RetireType DEF ReadEnds
  <2> QED
    BY <1>0, <1>2, <2>1 DEF ReadEnds, TypeOK
<1>3. CASE Consume(e)
  <2>1. Tail(stream[e]) \in Seq(Nat) /\ Len(Tail(stream[e])) <= Len(stream[e])
    BY <1>a, <1>3 DEF Consume
  <2>2. Len(stream[e]) <= EventBuffer /\ EventBuffer \in Nat /\ Len(stream[e]) \in Nat /\ Len(Tail(stream[e])) \in Nat
    BY <1>0, <1>a, <2>1, ConfigAssumption DEF TypeOK
  <2>3. stream' \in [Epochs -> Seq(Nat)] /\ \A i \in Epochs : Len(stream'[i]) <= EventBuffer
    BY <1>0, <1>3, <2>1, <2>2 DEF Consume, TypeOK
  <2> QED
    BY <1>0, <1>3, <2>3 DEF Consume, TypeOK
<1>4. CASE Emit(e)
  <2>1. events' \in Nat
    BY <1>0, <1>4 DEF Emit, TypeOK
  <2>2. [call |-> NoCall, event |-> events'] \in Line
    BY <2>1 DEF Line
  <2>3. inbox' \in [Epochs -> Seq(Line)]
    BY <1>0, <1>a, <1>4, <2>2 DEF Emit, TypeOK
  <2> QED
    BY <1>0, <1>4, <2>1, <2>3 DEF Emit, TypeOK
<1>5. CASE Hangup(e)
  BY <1>0, <1>5 DEF Hangup, TypeOK
<1> QED
  BY <1>1, <1>2, <1>3, <1>4, <1>5 DEF ReadStep

LEMMA TypeLife ==
    ASSUME IInv, Fence \/ RestartStep \/ EnsureCancelled \/ Close \/ CloseInvalidates \/ CloseReturns
    PROVE  TypeOK'
<1> USE DEF connVars, flightVars, lifeVars, callVars, engineVars
<1>0. TypeOK /\ Known /\ restart \in RestartState
  BY DEF IInv, EpochInv, TypeOK
<1>1. CASE Fence
  <2>1. /\ current' \in 0..MaxEpochs /\ pending' \subseteq Calls
        /\ claimed' \subseteq Claim /\ open' \subseteq Epochs
    <3>1. Retire(current) \/ UNCHANGED <<current, pending, claimed, open>>
      BY <1>1 DEF Fence, Retire
    <3> QED
      BY <1>0, <3>1, RetireType DEF TypeOK
  <2>2. connecting' \in Flights /\ fenced' \in -1..MaxFlights
    BY <1>0, <1>1, BoundAssumption DEF Fence, FenceFlights, TypeOK, Known, Flights
  <2>3. restart' \in RestartState
    <3>1. current \in 0..MaxEpochs
      BY <1>0 DEF TypeOK
    <3> QED
      BY <1>0, <1>1, <3>1 DEF Fence, RestartState
  <2> QED
    BY <1>0, <1>1, <2>1, <2>2, <2>3 DEF Fence, TypeOK
<1>2. CASE EnsureAfter
  <2>1. connecting' \in Flights /\ flights' \in Seq(FlightState)
    BY <1>0, <1>2, StartFlightType DEF EnsureAfter, TypeOK
  <2>2. restart' \in RestartState
    <3>1. current \in 0..MaxEpochs /\ connecting \in Flights
      BY <1>0 DEF TypeOK
    <3> QED
      BY <1>0, <1>2, <2>1, <3>1 DEF EnsureAfter, RestartState
  <2> QED
    BY <1>0, <1>2, <2>1, <2>2 DEF EnsureAfter, TypeOK
<1>3. CASE EnsureCancelled
  <2>1. restart' \in RestartState
    BY <1>0, <1>3 DEF EnsureCancelled, RestartState
  <2> QED
    BY <1>0, <1>3, <2>1 DEF EnsureCancelled, TypeOK
<1>4. CASE EnsureJoined
  <2>1. flights[restart.flight].epoch \in 0..MaxEpochs
    <3>1. flights[restart.flight] \in FlightState
      BY <1>0, <1>4 DEF EnsureJoined, TypeOK, Known
    <3> QED
      BY <3>1 DEF FlightState
  <2>2. restart' \in RestartState
    BY <1>0, <1>4, <2>1 DEF EnsureJoined, RestartState
  <2> QED
    BY <1>0, <1>4, <2>2 DEF EnsureJoined, TypeOK
<1>5. CASE EnsureChecked
  <2>1. restart' \in RestartState
    BY <1>0, <1>5 DEF EnsureChecked, RestartState
  <2> QED
    BY <1>0, <1>5, <2>1 DEF EnsureChecked, TypeOK
<1>6. CASE Close
  BY <1>0, <1>6 DEF Close, TypeOK
<1>7. CASE CloseInvalidates
  <2>1. /\ current' \in 0..MaxEpochs /\ pending' \subseteq Calls
        /\ claimed' \subseteq Claim /\ open' \subseteq Epochs
    <3>1. Retire(current) \/ UNCHANGED <<current, pending, claimed, open>>
      BY <1>7 DEF CloseInvalidates, Retire
    <3> QED
      BY <1>0, <3>1, RetireType DEF TypeOK
  <2> QED
    BY <1>0, <1>7, <2>1 DEF CloseInvalidates, TypeOK
<1>8. CASE CloseReturns
  BY <1>0, <1>8 DEF CloseReturns, TypeOK
<1> QED
  BY <1>1, <1>2, <1>3, <1>4, <1>5, <1>6, <1>7, <1>8 DEF RestartStep

LEMMA TypeStep == IInv /\ [Next]_vars => TypeOK'
<1> SUFFICES ASSUME IInv, [Next]_vars PROVE TypeOK'
  OBVIOUS
<1>1. ASSUME NEW k \in claimed, Deliver(k) PROVE TypeOK'
  <2>1. k.call \in Calls /\ k.result \in Results
    BY <1>1 DEF IInv, TypeOK, Claim
  <2>2. calls' \in [Calls -> CallState]
    BY <1>1, <2>1, BoundAssumption DEF Deliver, IInv, TypeOK, CallState
  <2> QED
    BY <1>1, <2>2 DEF Deliver, IInv, TypeOK, connVars, flightVars, lifeVars, engineVars
<1>2. CASE UNCHANGED vars
  BY <1>2 DEF IInv, TypeOK, vars, connVars, flightVars, lifeVars, callVars, engineVars
<1> QED
  BY <1>1, <1>2, TypeCall, TypeFlight, TypeEpoch, TypeLife DEF Next

-----------------------------------------------------------------------------
(***************************************************************************)
(* Calls: each is settled once.                                            *)
(***************************************************************************)

CallFrame == <<scenario, pending, claimed, calls>>

LEMMA CallsKept ==
    ASSUME CallInv, UNCHANGED CallFrame
    PROVE  CallInv'
BY DEF CallInv, CallFrame, ClaimedOnce, CallHeld, CallRuns, Held, HasClaim, Awaits, Asynchronous, Retained, Kind

\* The end of an epoch moves every correlation from pending to a claim.
LEMMA RetireCalls ==
    ASSUME TypeOK, CallInv, NEW e, Retire(e), UNCHANGED <<scenario, calls>>
    PROVE  CallInv'
<1>1. CASE Invalidate(e)
  <2>1. pending' = {} /\ claimed' = claimed \cup {[call |-> c, result |-> "dead"] : c \in pending}
    BY <1>1 DEF Invalidate
  <2>2. ClaimedOnce'
    <3>1. ASSUME NEW k \in claimed', NEW l \in claimed', k.call = l.call PROVE k = l
      BY <2>1, <3>1 DEF CallInv, ClaimedOnce
    <3>2. ASSUME NEW k \in claimed' PROVE calls[k.call].result = "none"
      BY <2>1, <3>2 DEF CallInv, ClaimedOnce
    <3> QED
      BY <2>1, <3>1, <3>2 DEF ClaimedOnce
  <2>3. \A c \in Calls : Held(c)' <=> Held(c)
    <3> SUFFICES ASSUME NEW c \in Calls PROVE Held(c)' <=> Held(c)
      OBVIOUS
    <3>1. c \in pending => HasClaim(c)'
      <4> SUFFICES ASSUME c \in pending PROVE HasClaim(c)'
        OBVIOUS
      <4>1. [call |-> c, result |-> "dead"] \in claimed'
        BY <2>1
      <4> QED
        BY <4>1 DEF HasClaim
    <3>2. HasClaim(c) => HasClaim(c)'
      BY <2>1 DEF HasClaim
    <3>3. HasClaim(c)' => HasClaim(c) \/ c \in pending
      BY <2>1 DEF HasClaim
    <3> QED
      BY <2>1, <3>1, <3>2, <3>3 DEF Held
  <2> QED
    BY <2>1, <2>2, <2>3 DEF CallInv, CallHeld, CallRuns, Awaits, Asynchronous, Retained, Kind
<1>2. CASE UNCHANGED <<current, pending, claimed, open>>
  BY <1>2, CallsKept DEF CallFrame
<1> QED
  BY <1>1, <1>2 DEF Retire

\* A step of one call leaves the others alone.
LEMMA OtherCalls ==
    ASSUME TypeOK, CallInv, NEW c \in Calls, UNCHANGED <<scenario, claimed>>,
           \A d \in Calls \ {c} : calls'[d] = calls[d] /\ (d \in pending' <=> d \in pending)
    PROVE  \A d \in Calls \ {c} : CallHeld(d)' /\ CallRuns(d)'
BY DEF CallInv, CallHeld, CallRuns, Held, HasClaim, Awaits, Asynchronous, Retained, Kind

\* What is left to show of a step of one call.
LEMMA OneCall ==
    ASSUME TypeOK, CallInv, NEW c \in Calls, UNCHANGED <<scenario, claimed>>,
           \A d \in Calls \ {c} : calls'[d] = calls[d] /\ (d \in pending' <=> d \in pending),
           ~HasClaim(c) \/ (c \notin pending' /\ calls'[c].result = "none"),
           c \in pending' => calls'[c].result = "none",
           CallHeld(c)', CallRuns(c)', pending' \subseteq Calls
    PROVE  CallInv'
<1>1. \A k \in claimed : k.call \in Calls
  BY DEF TypeOK, Claim
<1>2. ClaimedOnce'
  BY <1>1 DEF CallInv, ClaimedOnce, HasClaim
<1> QED
  BY <1>2, OtherCalls DEF CallInv

\* A call that returns without a written frame.
LEMMA FailedCall ==
    ASSUME TypeOK, CallInv, NEW c \in Calls, NEW ret \in Returns \ {"ok"}, Failed(c, ret),
           calls[c].pc \notin {"wait", "done"}, pending' = pending \ {c}, UNCHANGED <<scenario, claimed>>
    PROVE  CallInv'
<1>1. calls[c] \in CallState /\ calls \in [Calls -> CallState]
  BY DEF TypeOK
<1>2. /\ calls'[c].pc = "done" /\ calls'[c].ret = ret /\ calls'[c].result = calls[c].result
      /\ calls'[c].bg = calls[c].bg
      /\ calls'[c].completed = IF Retained(c) THEN calls[c].completed + 1 ELSE calls[c].completed
      /\ \A d \in Calls \ {c} : calls'[d] = calls[d]
  BY <1>1 DEF Failed, CallState
<1>3. ~calls[c].bg /\ calls[c].completed = 0
  BY DEF CallInv, CallRuns
<1>4. CallRuns(c)'
  BY <1>2, <1>3 DEF CallRuns, Asynchronous, Retained, Kind
<1>5. CallHeld(c)'
  BY <1>2, <1>3 DEF CallHeld, Awaits
<1>6. HasClaim(c) => calls[c].result = "none"
  BY DEF HasClaim, CallInv, ClaimedOnce
<1> QED
  BY <1>2, <1>4, <1>5, <1>6, OneCall DEF TypeOK

\* The same when the epoch ends with it.
LEMMA RetireFailed ==
    ASSUME TypeOK, CallInv, NEW c \in Calls, NEW ret \in Returns \ {"ok"}, NEW e, Failed(c, ret), Retire(e),
           calls[c].pc \notin {"wait", "done"}, c \notin pending, UNCHANGED scenario
    PROVE  CallInv'
<1>1. CASE UNCHANGED <<current, pending, claimed, open>>
  BY <1>1, FailedCall
<1>2. CASE Invalidate(e)
  <2>1. calls[c] \in CallState /\ calls \in [Calls -> CallState] /\ pending \subseteq Calls /\ claimed \subseteq Claim
    BY DEF TypeOK
  <2>2. /\ calls'[c].pc = "done" /\ calls'[c].ret = ret /\ calls'[c].result = calls[c].result
        /\ calls'[c].bg = calls[c].bg
        /\ calls'[c].completed = IF Retained(c) THEN calls[c].completed + 1 ELSE calls[c].completed
        /\ \A d \in Calls \ {c} : calls'[d] = calls[d]
    BY <2>1 DEF Failed, CallState
  <2>3. pending' = {} /\ claimed' = claimed \cup {[call |-> d, result |-> "dead"] : d \in pending}
    BY <1>2 DEF Invalidate
  <2>4. ClaimedOnce'
    <3>1. ASSUME NEW k \in claimed', NEW l \in claimed', k.call = l.call PROVE k = l
      BY <2>3, <3>1 DEF CallInv, ClaimedOnce
    <3>2. ASSUME NEW k \in claimed' PROVE calls'[k.call].result = "none"
      <4>1. k.call \in Calls /\ calls[k.call].result = "none"
        BY <2>1, <2>3 DEF CallInv, ClaimedOnce, Claim
      <4> QED
        BY <2>2, <4>1
    <3> QED
      BY <2>3, <3>1, <3>2 DEF ClaimedOnce
  <2>5. ~calls[c].bg /\ calls[c].completed = 0
    BY DEF CallInv, CallRuns
  <2>6. CallHeld(c)' /\ CallRuns(c)'
    BY <2>2, <2>3, <2>5 DEF CallHeld, CallRuns, Awaits, Asynchronous, Retained, Kind
  <2>7. ASSUME NEW d \in Calls \ {c} PROVE CallHeld(d)' /\ CallRuns(d)'
    <3>1. d \in pending => HasClaim(d)'
      <4> SUFFICES ASSUME d \in pending PROVE HasClaim(d)'
        OBVIOUS
      <4>1. [call |-> d, result |-> "dead"] \in claimed'
        BY <2>3
      <4> QED
        BY <4>1 DEF HasClaim
    <3>2. HasClaim(d) => HasClaim(d)'
      BY <2>3 DEF HasClaim
    <3>3. HasClaim(d)' => HasClaim(d) \/ d \in pending
      BY <2>3 DEF HasClaim
    <3>4. Held(d)' <=> Held(d)
      BY <2>2, <2>3, <3>1, <3>2, <3>3 DEF Held
    <3> QED
      BY <2>2, <2>3, <3>4 DEF CallInv, CallHeld, CallRuns, Awaits, Asynchronous, Retained, Kind
  <2> QED
    BY <2>4, <2>6, <2>7 DEF CallInv
<1> QED
  BY <1>1, <1>2 DEF Retire

LEMMA SettledCall ==
    ASSUME IInv, NEW c \in Calls,
           Begin(c) \/ CallStep(c) \/ CallerLeaves(c) \/ WriteDone(c) \/ WriteFails(c) \/ Answer(c)
    PROVE  CallInv'
<1>0. TypeOK /\ CallInv /\ calls \in [Calls -> CallState] /\ calls[c] \in CallState
  BY DEF IInv, TypeOK
<1>a. CallHeld(c) /\ CallRuns(c) /\ ClaimedOnce
  BY <1>0 DEF CallInv
<1>b. HasClaim(c) => c \notin pending /\ calls[c].result = "none"
  BY <1>a DEF HasClaim, ClaimedOnce
<1>c. Kind(c) \in Kinds
  BY <1>0 DEF TypeOK, Scenario, Kind
<1>d. "unavailable" \in Returns \ {"ok"} /\ "cancelled" \in Returns \ {"ok"} /\ "unwritten" \in Returns \ {"ok"}
  BY DEF Returns
<1>1. CASE Begin(c)
  <2>0. calls[c].pc = "idle" /\ UNCHANGED <<scenario, claimed, pending>>
    BY <1>1 DEF Begin
  <2>1. CASE Failed(c, "unavailable")
    BY <1>0, <1>a, <1>d, <2>0, <2>1, FailedCall DEF CallHeld, Held
  <2>2. CASE \E e : Admitted(c, e)
    <3>1. PICK e : Admitted(c, e)
      BY <2>2
    <3>2. calls'[c] = [calls[c] EXCEPT !.pc = "admit", !.epoch = e] /\ \A d \in Calls \ {c} : calls'[d] = calls[d]
      BY <1>0, <3>1 DEF Admitted
    <3>3. CallHeld(c)' /\ CallRuns(c)'
      BY <1>0, <1>a, <2>0, <3>2
         DEF CallState, CallHeld, CallRuns, Held, HasClaim, Awaits, Asynchronous, Retained, Kind
    <3> QED
      BY <1>0, <1>a, <2>0, <3>2, <3>3, OneCall DEF CallState, CallHeld, Held, TypeOK
  <2>3. CASE \E f : Join(c, f)
    <3>1. PICK f : Join(c, f)
      BY <2>3
    <3>2. calls'[c] = [calls[c] EXCEPT !.pc = "join", !.flight = f] /\ \A d \in Calls \ {c} : calls'[d] = calls[d]
      BY <1>0, <3>1 DEF Join
    <3>3. CallHeld(c)' /\ CallRuns(c)'
      BY <1>0, <1>a, <2>0, <3>2
         DEF CallState, CallHeld, CallRuns, Held, HasClaim, Awaits, Asynchronous, Retained, Kind
    <3> QED
      BY <1>0, <1>a, <2>0, <3>2, <3>3, OneCall DEF CallState, CallHeld, Held, TypeOK
  <2> QED
    BY <1>1, <2>1, <2>2, <2>3 DEF Begin
<1>2. CASE Joined(c)
  <2>0. calls[c].pc = "join" /\ UNCHANGED <<scenario, claimed, pending>>
    BY <1>2 DEF Joined
  <2>1. CASE Failed(c, "unavailable")
    BY <1>0, <1>a, <1>d, <2>0, <2>1, FailedCall DEF CallHeld, Held
  <2>2. CASE \E e : Admitted(c, e)
    <3>1. PICK e : Admitted(c, e)
      BY <2>2
    <3>2. calls'[c] = [calls[c] EXCEPT !.pc = "admit", !.epoch = e] /\ \A d \in Calls \ {c} : calls'[d] = calls[d]
      BY <1>0, <3>1 DEF Admitted
    <3>3. CallHeld(c)' /\ CallRuns(c)'
      BY <1>0, <1>a, <2>0, <3>2
         DEF CallState, CallHeld, CallRuns, Held, HasClaim, Awaits, Asynchronous, Retained, Kind
    <3> QED
      BY <1>0, <1>a, <2>0, <3>2, <3>3, OneCall DEF CallState, CallHeld, Held, TypeOK
  <2> QED
    BY <1>2, <2>1, <2>2 DEF Joined
<1>3. CASE JoinCancelled(c)
  BY <1>0, <1>a, <1>d, <1>3, FailedCall DEF JoinCancelled, CallHeld, Held
<1>4. CASE Register(c)
  <2>0. calls[c].pc = "admit" /\ UNCHANGED <<scenario, claimed>>
    BY <1>4 DEF Register
  <2>1. CASE Failed(c, "unavailable") /\ UNCHANGED pending
    BY <1>0, <1>a, <1>d, <2>0, <2>1, FailedCall DEF CallHeld, Held
  <2>2. CASE calls' = [calls EXCEPT ![c].pc = "write"]
    <3>1. calls'[c] = [calls[c] EXCEPT !.pc = "write"] /\ \A d \in Calls \ {c} : calls'[d] = calls[d]
      BY <1>0, <2>2
    <3>2. \/ Kind(c) = "notify" /\ pending' = pending
          \/ Kind(c) # "notify" /\ pending' = pending \cup {c}
      <4>1. calls'[c].pc # "done"
        BY <1>0, <3>1 DEF CallState
      <4>2. ~Failed(c, "unavailable")
        BY <1>0, <4>1 DEF Failed, CallState
      <4> QED
        BY <1>4, <4>2 DEF Register
    <3>3. CallHeld(c)' /\ CallRuns(c)'
      BY <1>0, <1>a, <1>c, <2>0, <3>1, <3>2
         DEF CallState, CallHeld, CallRuns, Held, HasClaim, Awaits, Asynchronous, Retained, Kind
    <3> QED
      BY <1>0, <1>a, <2>0, <3>1, <3>2, <3>3, OneCall DEF CallState, CallHeld, Held, TypeOK
  <2> QED
    BY <1>4, <2>1, <2>2 DEF Register
<1>5. CASE WriteBegin(c)
  <2>1. /\ calls'[c] = [calls[c] EXCEPT !.pc = "writing"]
        /\ \A d \in Calls \ {c} : calls'[d] = calls[d]
        /\ UNCHANGED <<scenario, claimed>>
    BY <1>0, <1>5 DEF WriteBegin
  <2>2. UNCHANGED pending
    BY <1>5 DEF WriteBegin
  <2>3. CallHeld(c)' /\ CallRuns(c)'
    BY <1>0, <1>a, <1>b, <1>c, <1>5, <2>1, <2>2
       DEF CallState, CallHeld, CallRuns, Held, HasClaim, Awaits, Asynchronous, Retained, Kind, WriteBegin, Kinds
  <2>4. /\ ~HasClaim(c) \/ (c \notin pending' /\ calls'[c].result = "none")
        /\ c \in pending' => calls'[c].result = "none"
        /\ pending' \subseteq Calls /\ \A d \in Calls \ {c} : d \in pending' <=> d \in pending
    BY <1>0, <1>a, <1>b, <2>1, <2>2 DEF ClaimedOnce, CallState, TypeOK
  <2> QED
    BY <1>0, <2>1, <2>3, <2>4, OneCall
<1>6. CASE WriteCancelled(c)
  BY <1>0, <1>d, <1>6, FailedCall DEF WriteCancelled
<1>7. CASE WriteDone(c)
  <2>1. /\ calls'[c] = [calls[c] EXCEPT !.pc = IF Returning(c) THEN "done" ELSE "wait",
                                      !.ret = IF Returning(c) THEN "ok" ELSE @,
                                      !.bg = Asynchronous(c)]
        /\ \A d \in Calls \ {c} : calls'[d] = calls[d]
        /\ UNCHANGED <<scenario, claimed>>
    BY <1>0, <1>7 DEF WriteDone
  <2>2. UNCHANGED pending
    BY <1>7 DEF WriteDone
  <2>3. CallHeld(c)' /\ CallRuns(c)'
    BY <1>0, <1>a, <1>b, <1>c, <1>7, <2>1, <2>2
       DEF CallState, CallHeld, CallRuns, Held, HasClaim, Awaits, Asynchronous, Retained, Kind, WriteDone, Kinds, Returning
  <2>4. /\ ~HasClaim(c) \/ (c \notin pending' /\ calls'[c].result = "none")
        /\ c \in pending' => calls'[c].result = "none"
        /\ pending' \subseteq Calls /\ \A d \in Calls \ {c} : d \in pending' <=> d \in pending
    BY <1>0, <1>a, <1>b, <2>1, <2>2 DEF ClaimedOnce, CallState, TypeOK
  <2> QED
    BY <1>0, <2>1, <2>3, <2>4, OneCall
<1>8. CASE WriteFails(c)
  <2>1. /\ calls'[c] = [calls[c] EXCEPT !.pc = IF Kind(c) = "notify" THEN "retire" ELSE "undo"]
        /\ \A d \in Calls \ {c} : calls'[d] = calls[d]
        /\ UNCHANGED <<scenario, claimed>>
    BY <1>0, <1>8 DEF WriteFails
  <2>2. UNCHANGED pending
    BY <1>8 DEF WriteFails
  <2>3. CallHeld(c)' /\ CallRuns(c)'
    BY <1>0, <1>a, <1>b, <1>c, <1>8, <2>1, <2>2
       DEF CallState, CallHeld, CallRuns, Held, HasClaim, Awaits, Asynchronous, Retained, Kind, WriteFails, Kinds
  <2>4. /\ ~HasClaim(c) \/ (c \notin pending' /\ calls'[c].result = "none")
        /\ c \in pending' => calls'[c].result = "none"
        /\ pending' \subseteq Calls /\ \A d \in Calls \ {c} : d \in pending' <=> d \in pending
    BY <1>0, <1>a, <1>b, <2>1, <2>2 DEF ClaimedOnce, CallState, TypeOK
  <2> QED
    BY <1>0, <2>1, <2>3, <2>4, OneCall
<1>9. CASE WriteUndo(c)
  <2>1. /\ calls'[c] = [calls[c] EXCEPT !.pc = "retire"]
        /\ \A d \in Calls \ {c} : calls'[d] = calls[d]
        /\ UNCHANGED <<scenario, claimed>>
    BY <1>0, <1>9 DEF WriteUndo
  <2>2. pending' = pending \ {c}
    BY <1>9 DEF WriteUndo
  <2>3. CallHeld(c)' /\ CallRuns(c)'
    BY <1>0, <1>a, <1>b, <1>c, <1>9, <2>1, <2>2
       DEF CallState, CallHeld, CallRuns, Held, HasClaim, Awaits, Asynchronous, Retained, Kind, WriteUndo, Kinds
  <2>4. /\ ~HasClaim(c) \/ (c \notin pending' /\ calls'[c].result = "none")
        /\ c \in pending' => calls'[c].result = "none"
        /\ pending' \subseteq Calls /\ \A d \in Calls \ {c} : d \in pending' <=> d \in pending
    BY <1>0, <1>a, <1>b, <2>1, <2>2 DEF ClaimedOnce, CallState, TypeOK
  <2> QED
    BY <1>0, <2>1, <2>3, <2>4, OneCall
<1>10. CASE WriteRetires(c)
  <2>1. calls[c].pc = "retire" /\ Retire(calls[c].epoch) /\ Failed(c, "unwritten") /\ UNCHANGED scenario
    BY <1>10 DEF WriteRetires
  <2> QED
    BY <1>0, <1>a, <1>d, <2>1, RetireFailed DEF CallHeld
<1>11. CASE Return(c)
  <2>1. /\ calls'[c] = [calls[c] EXCEPT !.pc = "done", !.ret = calls[c].result]
        /\ \A d \in Calls \ {c} : calls'[d] = calls[d]
        /\ UNCHANGED <<scenario, claimed>>
    BY <1>0, <1>11 DEF Return
  <2>2. UNCHANGED pending
    BY <1>11 DEF Return
  <2>3. CallHeld(c)' /\ CallRuns(c)'
    BY <1>0, <1>a, <1>b, <1>c, <1>11, <2>1, <2>2
       DEF CallState, CallHeld, CallRuns, Held, HasClaim, Awaits, Asynchronous, Retained, Kind, Return, Kinds
  <2>4. /\ ~HasClaim(c) \/ (c \notin pending' /\ calls'[c].result = "none")
        /\ c \in pending' => calls'[c].result = "none"
        /\ pending' \subseteq Calls /\ \A d \in Calls \ {c} : d \in pending' <=> d \in pending
    BY <1>0, <1>a, <1>b, <2>1, <2>2 DEF ClaimedOnce, CallState, TypeOK
  <2> QED
    BY <1>0, <2>1, <2>3, <2>4, OneCall
<1>12. CASE Complete(c)
  <2>1. /\ calls'[c] = [calls[c] EXCEPT !.bg = FALSE, !.completed = @ + 1, !.pc = "done",
                                      !.ret = IF calls[c].pc = "wait" THEN calls[c].result ELSE @]
        /\ \A d \in Calls \ {c} : calls'[d] = calls[d]
        /\ UNCHANGED <<scenario, claimed>>
    BY <1>0, <1>12 DEF Complete
  <2>2. UNCHANGED pending
    BY <1>12 DEF Complete
  <2>3. CallHeld(c)' /\ CallRuns(c)'
    BY <1>0, <1>a, <1>b, <1>c, <1>12, <2>1, <2>2
       DEF CallState, CallHeld, CallRuns, Held, HasClaim, Awaits, Asynchronous, Retained, Kind, Complete, Kinds
  <2>4. /\ ~HasClaim(c) \/ (c \notin pending' /\ calls'[c].result = "none")
        /\ c \in pending' => calls'[c].result = "none"
        /\ pending' \subseteq Calls /\ \A d \in Calls \ {c} : d \in pending' <=> d \in pending
    BY <1>0, <1>a, <1>b, <2>1, <2>2 DEF ClaimedOnce, CallState, TypeOK
  <2> QED
    BY <1>0, <2>1, <2>3, <2>4, OneCall
<1>13. CASE WaitCancelled(c)
  <2>1. /\ calls'[c] = [calls[c] EXCEPT !.pc = "done", !.ret = "unanswered"]
        /\ \A d \in Calls \ {c} : calls'[d] = calls[d]
        /\ UNCHANGED <<scenario, claimed>>
    BY <1>0, <1>13 DEF WaitCancelled
  <2>2. pending' = IF Retained(c) THEN pending ELSE pending \ {c}
    BY <1>13 DEF WaitCancelled
  <2>3. CallHeld(c)' /\ CallRuns(c)'
    BY <1>0, <1>a, <1>b, <1>c, <1>13, <2>1, <2>2
       DEF CallState, CallHeld, CallRuns, Held, HasClaim, Awaits, Asynchronous, Retained, Kind, WaitCancelled, Kinds
  <2>4. /\ ~HasClaim(c) \/ (c \notin pending' /\ calls'[c].result = "none")
        /\ c \in pending' => calls'[c].result = "none"
        /\ pending' \subseteq Calls /\ \A d \in Calls \ {c} : d \in pending' <=> d \in pending
    BY <1>0, <1>a, <1>b, <2>1, <2>2 DEF ClaimedOnce, CallState, TypeOK
  <2> QED
    BY <1>0, <2>1, <2>3, <2>4, OneCall
<1>14. CASE Answer(c)
  BY <1>0, <1>14, CallsKept DEF Answer, CallFrame, callVars
<1> QED
  BY <1>1, <1>2, <1>3, <1>4, <1>5, <1>6, <1>7, <1>8, <1>9, <1>10, <1>11, <1>12, <1>13, <1>14
     DEF CallStep, CallerLeaves

\* A result on its way reaches the channel.
LEMMA SettledDeliver ==
    ASSUME IInv, NEW k \in claimed, Deliver(k)
    PROVE  CallInv'
<1>0. TypeOK /\ CallInv /\ ClaimedOnce /\ calls \in [Calls -> CallState] /\ claimed \subseteq Claim
  BY DEF IInv, TypeOK, CallInv
<1>1. k.call \in Calls /\ k.result \in Results \ {"none"} /\ calls[k.call] \in CallState
  BY <1>0 DEF Claim
<1>2. /\ calls'[k.call] = [calls[k.call] EXCEPT !.result = k.result]
      /\ \A d \in Calls \ {k.call} : calls'[d] = calls[d]
      /\ claimed' = claimed \ {k} /\ pending' = pending /\ scenario' = scenario
  BY <1>0, <1>1 DEF Deliver
<1>3. k.call \notin pending /\ \A l \in claimed' : l.call # k.call
  BY <1>0, <1>2 DEF ClaimedOnce
<1>4. ClaimedOnce'
  <2>1. \A l \in claimed' : l.call \in Calls \ {k.call}
    BY <1>0, <1>2, <1>3 DEF Claim
  <2>2. pending \subseteq Calls \ {k.call}
    BY <1>0, <1>3 DEF TypeOK
  <2> QED
    BY <1>0, <1>2, <2>1, <2>2 DEF ClaimedOnce
<1>5. CallHeld(k.call)' /\ CallRuns(k.call)'
  <2>1. /\ calls'[k.call].pc = calls[k.call].pc /\ calls'[k.call].bg = calls[k.call].bg
        /\ calls'[k.call].ret = calls[k.call].ret /\ calls'[k.call].completed = calls[k.call].completed
        /\ calls'[k.call].result # "none"
    BY <1>1, <1>2 DEF CallState
  <2>2. Held(k.call) /\ Held(k.call)'
    BY <2>1 DEF Held, HasClaim
  <2>3. CallHeld(k.call) /\ CallRuns(k.call)
    BY <1>0, <1>1 DEF CallInv
  <2> QED
    BY <1>2, <2>1, <2>2, <2>3 DEF CallHeld, CallRuns, Awaits, Asynchronous, Retained, Kind
<1>6. ASSUME NEW d \in Calls \ {k.call} PROVE CallHeld(d)' /\ CallRuns(d)'
  <2>1. HasClaim(d)' <=> HasClaim(d)
    BY <1>2 DEF HasClaim
  <2>2. Held(d)' <=> Held(d)
    BY <1>2, <2>1 DEF Held
  <2> QED
    BY <1>0, <1>2, <2>2 DEF CallInv, CallHeld, CallRuns, Awaits, Asynchronous, Retained, Kind
<1> QED
  BY <1>4, <1>5, <1>6 DEF CallInv

\* settleResponse takes the correlation out before it hands the answer over.
LEMMA SettledRead ==
    ASSUME IInv, NEW e \in Epochs, Read(e)
    PROVE  CallInv'
<1>0. TypeOK /\ CallInv /\ ClaimedOnce /\ UNCHANGED <<scenario, calls>>
  BY DEF IInv, CallInv, Read
<1>1. CASE UNCHANGED <<pending, claimed>>
  BY <1>0, <1>1, CallsKept DEF CallFrame
<1>2. ASSUME NEW c \in Calls, c \in pending, pending' = pending \ {c},
             claimed' = claimed \cup {[call |-> c, result |-> "answer"]}
      PROVE  CallInv'
  <2>1. ~HasClaim(c) /\ calls[c].result = "none"
    BY <1>0, <1>2 DEF ClaimedOnce, HasClaim
  <2>2. ClaimedOnce'
    <3>1. ASSUME NEW k \in claimed', NEW l \in claimed', k.call = l.call PROVE k = l
      BY <1>0, <1>2, <2>1, <3>1 DEF ClaimedOnce, HasClaim
    <3>2. ASSUME NEW k \in claimed' PROVE k.call \notin pending' /\ calls[k.call].result = "none"
      BY <1>0, <1>2, <2>1, <3>2 DEF ClaimedOnce, HasClaim
    <3> QED
      BY <1>0, <1>2, <3>1, <3>2 DEF ClaimedOnce
  <2>3. ASSUME NEW d \in Calls PROVE Held(d)' <=> Held(d)
    <3>1. HasClaim(d)' <=> HasClaim(d) \/ d = c
      <4>1. [call |-> c, result |-> "answer"] \in claimed' /\ [call |-> c, result |-> "answer"].call = c
        BY <1>2
      <4> QED
        BY <1>2, <4>1 DEF HasClaim
    <3> QED
      BY <1>0, <1>2, <3>1 DEF Held
  <2> QED
    BY <1>0, <1>2, <2>2, <2>3 DEF CallInv, CallHeld, CallRuns, Awaits, Asynchronous, Retained, Kind
<1> QED
  <2>1. Head(inbox[e]) \in Line
    BY <1>0 DEF Read, TypeOK
  <2>2. Head(inbox[e]).call # NoCall => Head(inbox[e]).call \in Calls
    BY <2>1 DEF Line
  <2> QED
    BY <1>1, <1>2, <2>2 DEF Read, Settle

LEMMA SettledStep == IInv /\ [Next]_vars => CallInv'
<1> SUFFICES ASSUME IInv, [Next]_vars PROVE CallInv'
  OBVIOUS
<1> USE DEF connVars, flightVars, lifeVars, callVars, engineVars
<1>0. TypeOK /\ CallInv
  BY DEF IInv
<1>1. ASSUME NEW f \in DOMAIN flights, DialEnds(f) \/ HandshakeEnds(f) \/ FlightFinish(f)
      PROVE  CallInv'
  <2>1. CASE FlightNegotiateFails(f)
    BY <1>0, <2>1, RetireCalls DEF FlightNegotiateFails
  <2>2. CASE FlightDialFails(f) \/ FlightCancelled(f) \/ FlightEstablish(f) \/ FlightNegotiated(f) \/ FlightFinish(f)
    BY <1>0, <2>2, CallsKept
       DEF FlightDialFails, FlightCancelled, FlightEstablish, FlightNegotiated, FlightFinish, CallFrame
  <2> QED
    BY <1>1, <2>1, <2>2 DEF DialEnds, HandshakeEnds
<1>2. ASSUME NEW e \in Epochs, ReadStep(e) \/ Consume(e) \/ Emit(e) \/ Hangup(e)
      PROVE  CallInv'
  <2>1. CASE ReadEnds(e)
    BY <1>0, <2>1, RetireCalls DEF ReadEnds
  <2>2. CASE Consume(e) \/ Emit(e) \/ Hangup(e)
    BY <1>0, <2>2, CallsKept DEF Consume, Emit, Hangup, CallFrame
  <2> QED
    BY <1>2, <2>1, <2>2, SettledRead DEF ReadStep
<1>3. CASE Fence
  <2>1. Retire(current) \/ UNCHANGED <<pending, claimed>>
    BY <1>3 DEF Fence, Retire
  <2> QED
    BY <1>0, <1>3, <2>1, RetireCalls, CallsKept DEF Fence, CallFrame
<1>4. CASE CloseInvalidates
  <2>1. Retire(current) \/ UNCHANGED <<pending, claimed>>
    BY <1>4 DEF CloseInvalidates, Retire
  <2> QED
    BY <1>0, <1>4, <2>1, RetireCalls, CallsKept DEF CloseInvalidates, CallFrame
<1>5. CASE RestartStep \/ EnsureCancelled \/ Close \/ CloseReturns \/ UNCHANGED vars
  BY <1>0, <1>5, CallsKept
     DEF RestartStep, EnsureAfter, EnsureJoined, EnsureChecked, EnsureCancelled, Close, CloseReturns, vars, CallFrame
<1> QED
  BY <1>1, <1>2, <1>3, <1>4, <1>5, SettledCall, SettledDeliver DEF Next

-----------------------------------------------------------------------------
(***************************************************************************)
(* Epochs: nothing is used before its handshake or after its fence.        *)
(***************************************************************************)

EpochFrame == <<current, lastEpoch, born, negotiated, connecting, flights, fenced, restart>>

\* A step that moves calls only: each stays where it is, joins a flight or takes
\* an epoch that may be used.
LEMMA EpochCalls ==
    ASSUME IInv, UNCHANGED EpochFrame, calls' \in [Calls -> CallState],
           \A d \in Calls : /\ calls'[d].epoch = calls[d].epoch \/ calls'[d].epoch \in negotiated \cup {0}
                            /\ calls'[d].pc = "join" => calls'[d].flight \in DOMAIN flights
    PROVE  EpochInv'
<1> USE DEF IInv, EpochInv, EpochFrame
<1>1. Known'
  BY DEF Known
<1>2. Negotiates' /\ Fences' /\ FencedFlightIsSilent'
  BY DEF Negotiates, Fences, FencedFlightIsSilent
<1>3. NegotiatedBeforeUse'
  BY DEF NegotiatedBeforeUse
<1> QED
  BY <1>1, <1>2, <1>3

\* A step that leaves all of it alone, or ends the current epoch.
LEMMA EpochEnds ==
    ASSUME IInv, current' \in {current, 0}, UNCHANGED <<lastEpoch, born, negotiated, connecting, flights, fenced, restart>>,
           \A d \in Calls : /\ calls'[d].epoch = calls[d].epoch
                            /\ calls'[d].pc = "join" => calls[d].pc = "join" /\ calls'[d].flight = calls[d].flight
    PROVE  EpochInv'
<1>1. lastEpoch \in Nat /\ lastEpoch > 0
  BY BoundAssumption DEF IInv, TypeOK, Epochs
<1> USE DEF IInv, EpochInv
<1>2. Known'
  BY <1>1 DEF Known
<1>3. Negotiates' /\ Fences' /\ FencedFlightIsSilent'
  BY DEF Negotiates, Fences, FencedFlightIsSilent
<1>4. NegotiatedBeforeUse'
  BY DEF NegotiatedBeforeUse
<1> QED
  BY <1>2, <1>3, <1>4

LEMMA RetireEnds ==
    ASSUME NEW e, Retire(e)
    PROVE  current' \in {current, 0}
BY DEF Retire, Invalidate

LEMMA FailedKeeps ==
    ASSUME TypeOK, NEW c \in Calls, NEW ret, Failed(c, ret)
    PROVE  \A d \in Calls : /\ calls'[d].epoch = calls[d].epoch
                            /\ calls'[d].pc = "join" => calls[d].pc = "join" /\ calls'[d].flight = calls[d].flight
BY DEF TypeOK, CallState, Failed

LEMMA EpochStart ==
    ASSUME IInv, TypeOK', StartFlight, current = 0, connecting = 0,
           UNCHANGED <<current, lastEpoch, born, negotiated, fenced>>,
           restart' = restart \/ (restart.pc = "fenced" /\ restart' = [restart EXCEPT !.pc = "join", !.flight = connecting']),
           \A d \in Calls : /\ calls'[d].epoch = calls[d].epoch
                            /\ calls'[d].pc = "join" =>
                                  \/ calls[d].pc = "join" /\ calls'[d].flight = calls[d].flight
                                  \/ calls'[d].flight = connecting'
    PROVE  EpochInv'
<1>1. /\ flights \in Seq(FlightState) /\ Len(flights) \in Nat /\ Len(flights) < MaxFlights
      /\ flights' = Append(flights, NewFlight) /\ connecting' = Len(flights) + 1
  BY DEF IInv, TypeOK, StartFlight
<1>2. /\ Len(flights') = Len(flights) + 1 /\ DOMAIN flights' = 1..(Len(flights) + 1)
      /\ DOMAIN flights = 1..Len(flights)
      /\ \A f \in DOMAIN flights : flights'[f] = flights[f]
      /\ flights'[Len(flights) + 1] = NewFlight
  BY <1>1
<1>3. restart \in RestartState /\ fenced \in Int /\ MaxFlights \in Nat
  BY BoundAssumption DEF IInv, TypeOK
<1>4. /\ restart'.epoch = restart.epoch /\ restart'.retired = restart.retired
      /\ restart'.pc = "ok" => restart.pc = "ok"
      /\ restart'.pc = "check" => restart.pc = "check"
      /\ restart'.pc = "join" => restart'.flight = connecting' \/ (restart.pc = "join" /\ restart'.flight = restart.flight)
  BY <1>3 DEF RestartState
<1>5. Known'
  <2>1. lastEpoch \in Nat /\ NewFlight.epoch = 0
    BY BoundAssumption DEF IInv, TypeOK, Epochs, NewFlight
  <2>2. \A f \in DOMAIN flights' : flights'[f].epoch <= lastEpoch
    BY <1>2, <2>1 DEF IInv, EpochInv, Known
  <2> QED
    BY <1>1, <1>2, <1>3, <1>4, <2>2 DEF IInv, EpochInv, Known
<1>6. Negotiates'
  BY <1>1, <1>2 DEF IInv, EpochInv, Negotiates, NewFlight
<1>7. Fences'
  BY <1>1, <1>3 DEF IInv, EpochInv, Known, Fences
<1>8. NegotiatedBeforeUse' /\ FencedFlightIsSilent'
  BY <1>4 DEF IInv, EpochInv, NegotiatedBeforeUse, FencedFlightIsSilent
<1> QED
  BY <1>5, <1>6, <1>7, <1>8 DEF EpochInv

\* What a call does to the epochs: begin a flight, at most.
LEMMA EpochCall ==
    ASSUME IInv, TypeOK', NEW c \in Calls,
           Begin(c) \/ CallStep(c) \/ CallerLeaves(c) \/ WriteDone(c) \/ WriteFails(c) \/ Answer(c)
    PROVE  EpochInv'
<1> USE DEF connVars, flightVars, lifeVars, callVars, engineVars
<1>0. /\ TypeOK /\ calls \in [Calls -> CallState] /\ calls' \in [Calls -> CallState]
      /\ \A d \in Calls : calls[d] \in CallState
  BY DEF IInv, TypeOK
<1>1. ASSUME NEW ret, Failed(c, ret), current' \in {current, 0},
             UNCHANGED <<lastEpoch, born, negotiated, connecting, flights, fenced, restart>>
      PROVE  EpochInv'
  BY <1>0, <1>1, FailedKeeps, EpochEnds
<1>2. ASSUME NEW e \in negotiated, Admitted(c, e), UNCHANGED EpochFrame
      PROVE  EpochInv'
  <2>1. \A d \in Calls : \/ d # c /\ calls'[d] = calls[d]
                         \/ calls'[d].epoch \in negotiated /\ calls'[d].pc = "admit"
    BY <1>0, <1>2 DEF Admitted, CallState
  <2>2. \A d \in Calls : calls[d].pc = "join" => calls[d].flight \in DOMAIN flights
    BY DEF IInv, EpochInv, Known
  <2> QED
    BY <1>0, <1>2, <2>1, <2>2, EpochCalls
<1>3. CASE Begin(c)
  <2>1. CASE Pinned(c)
    BY <1>2, <1>3, <2>1 DEF Begin, EpochFrame
  <2>2. CASE ~Pinned(c) /\ Failed(c, "unavailable") /\ UNCHANGED <<connecting, flights>>
    BY <1>1, <1>3, <2>2 DEF Begin
  <2>3. CASE connecting # 0 /\ Join(c, connecting) /\ UNCHANGED <<connecting, flights>>
    <3>1. connecting \in DOMAIN flights
      <4>1. connecting \in Nat /\ connecting # 0 /\ connecting <= Len(flights)
        BY <2>3, BoundAssumption DEF IInv, TypeOK, EpochInv, Known, Flights
      <4>2. flights \in Seq(FlightState)
        BY <1>0 DEF TypeOK
      <4> QED
        BY <4>1, <4>2
    <3>2. \A d \in Calls : /\ calls'[d].epoch = calls[d].epoch
                           /\ \/ calls'[d] = calls[d]
                              \/ calls'[d].flight = connecting
      BY <1>0, <2>3 DEF Join, CallState
    <3>3. \A d \in Calls : calls[d].pc = "join" => calls[d].flight \in DOMAIN flights
      BY DEF IInv, EpochInv, Known
    <3>4. UNCHANGED EpochFrame
      BY <1>3, <2>3 DEF Begin, EpochFrame
    <3> QED
      BY <1>0, <3>1, <3>2, <3>3, <3>4, EpochCalls
  <2>4. CASE ~Joins /\ current # 0 /\ Admitted(c, current) /\ UNCHANGED <<connecting, flights>>
    <3>1. current \in negotiated
      BY <2>4 DEF IInv, EpochInv, Negotiates, Joins
    <3> QED
      BY <1>2, <1>3, <2>4, <3>1 DEF Begin, EpochFrame
  <2>5. CASE ~Joins /\ current = 0 /\ StartFlight /\ Join(c, connecting')
    <3>1. \A d \in Calls : /\ calls'[d].epoch = calls[d].epoch
                           /\ \/ calls'[d] = calls[d]
                              \/ calls'[d].flight = connecting'
      BY <1>0, <2>5 DEF Join, CallState
    <3> QED
      BY <1>3, <2>5, <3>1, EpochStart DEF Begin, Joins
  <2> QED
    BY <1>3, <2>1, <2>2, <2>3, <2>4, <2>5 DEF Begin, Joins
<1>4. CASE Joined(c)
  <2> DEFINE f == calls[c].flight
  <2>1. f \in DOMAIN flights /\ flights[f].pc = "done"
    BY <1>4 DEF IInv, EpochInv, Known, Joined
  <2>2. flights[f].epoch # 0 => flights[f].epoch \in negotiated
    BY <2>1 DEF IInv, EpochInv, Negotiates
  <2>3. Failed(c, "unavailable") \/ (flights[f].epoch # 0 /\ Admitted(c, flights[f].epoch))
    BY <1>4 DEF Joined
  <2> QED
    BY <1>1, <1>2, <1>4, <2>2, <2>3 DEF Joined, EpochFrame
<1>5. CASE WriteRetires(c)
  <2>1. current' \in {current, 0}
    BY <1>5, RetireEnds DEF WriteRetires
  <2> QED
    BY <1>1, <1>5, <2>1 DEF WriteRetires
<1>6. CASE JoinCancelled(c) \/ WriteCancelled(c)
  BY <1>1, <1>6 DEF JoinCancelled, WriteCancelled
<1>7. CASE Register(c) /\ Failed(c, "unavailable")
  BY <1>1, <1>7 DEF Register
<1>8. CASE \/ Register(c) /\ ~Failed(c, "unavailable")
           \/ WriteBegin(c) \/ WriteUndo(c) \/ Return(c) \/ Complete(c) \/ WaitCancelled(c)
           \/ WriteDone(c) \/ WriteFails(c) \/ Answer(c)
  <2>1. /\ \A d \in Calls \ {c} : calls'[d] = calls[d]
        /\ calls' = calls \/ (calls'[c].epoch = calls[c].epoch /\ calls'[c].pc # "join")
    <3>1. CASE Register(c) /\ ~Failed(c, "unavailable")
      BY <1>0, <3>1 DEF CallState, Register
    <3>2. CASE WriteBegin(c) \/ WriteUndo(c) \/ Return(c) \/ WaitCancelled(c) \/ Answer(c)
      BY <1>0, <3>2 DEF CallState, WriteBegin, WriteUndo, Return, WaitCancelled, Answer
    <3>3. CASE Complete(c)
      BY <1>0, <3>3 DEF CallState, Complete
    <3>4. CASE WriteDone(c) \/ WriteFails(c)
      BY <1>0, <3>4 DEF CallState, WriteDone, WriteFails
    <3> QED
      BY <1>8, <3>1, <3>2, <3>3, <3>4
  <2>2. UNCHANGED <<current, lastEpoch, born, negotiated, connecting, flights, fenced, restart>>
    BY <1>8 DEF Register, WriteBegin, WriteUndo, Return, Complete, WaitCancelled, WriteDone, WriteFails, Answer
  <2> QED
    BY <2>1, <2>2, EpochEnds
<1> QED
  BY <1>3, <1>4, <1>5, <1>6, <1>7, <1>8 DEF CallStep, CallerLeaves

\* A flight moves from one step to the next without touching the epochs, except
\* that it may end the current one; it is not the flight that negotiates the
\* current epoch, if there is one.
LEMMA FlightReplaced ==
    ASSUME IInv, NEW f \in DOMAIN flights, NEW r, flights' = [flights EXCEPT ![f] = r],
           current' \in {current, 0}, connecting' \in {connecting, 0},
           UNCHANGED <<lastEpoch, born, negotiated, fenced, restart, calls>>,
           r.epoch <= lastEpoch,
           r.pc = "dial" => r.epoch = 0,
           r.pc = "negotiate" => r.epoch # 0,
           r.pc \in {"finish", "done"} /\ r.epoch # 0 => r.epoch \in negotiated,
           current' # 0 /\ current' \notin negotiated => connecting' = connecting /\ connecting # f
    PROVE  EpochInv'
<1>1. /\ flights \in Seq(FlightState) /\ Len(flights) \in Nat /\ DOMAIN flights = 1..Len(flights)
      /\ lastEpoch \in Nat /\ lastEpoch > 0
  BY BoundAssumption DEF IInv, TypeOK, Epochs
<1>2. /\ DOMAIN flights' = DOMAIN flights /\ Len(flights') = Len(flights)
      /\ flights'[f] = r /\ \A g \in DOMAIN flights \ {f} : flights'[g] = flights[g]
  BY <1>1
<1>3. Known'
  BY <1>1, <1>2 DEF IInv, EpochInv, Known
<1>4. Negotiates'
  <2>1. current' # 0 /\ current' \notin negotiated => connecting \in DOMAIN flights \ {f}
    BY <1>1 DEF IInv, TypeOK, EpochInv, Known, Negotiates, Flights
  <2> QED
    BY <1>2, <2>1 DEF IInv, EpochInv, Negotiates
<1>5. Fences' /\ NegotiatedBeforeUse' /\ FencedFlightIsSilent'
  BY DEF IInv, EpochInv, Fences, NegotiatedBeforeUse, FencedFlightIsSilent
<1> QED
  BY <1>3, <1>4, <1>5 DEF EpochInv

LEMMA EpochFlight ==
    ASSUME IInv, TypeOK', NEW f \in DOMAIN flights, DialEnds(f) \/ HandshakeEnds(f) \/ FlightFinish(f)
    PROVE  EpochInv'
<1> USE DEF connVars, flightVars, lifeVars, callVars, engineVars
<1>0. /\ flights \in Seq(FlightState) /\ flights[f] \in FlightState
      /\ Len(flights) \in Nat /\ DOMAIN flights = 1..Len(flights) /\ f \in Nat /\ f > 0
      /\ lastEpoch \in Epochs /\ lastEpoch \in Nat /\ lastEpoch > 0 /\ current \in Nat /\ fenced \in Int
      /\ born \in [Epochs -> Flights]
  <2>1. flights \in Seq(FlightState) /\ flights[f] \in FlightState
    BY DEF IInv, TypeOK
  <2>2. Len(flights) \in Nat /\ DOMAIN flights = 1..Len(flights) /\ f \in Nat /\ f > 0
    BY <2>1
  <2>3. lastEpoch \in Nat /\ lastEpoch > 0 /\ current \in Nat /\ fenced \in Int
    BY BoundAssumption DEF IInv, TypeOK, Epochs
  <2> QED
    BY <2>1, <2>2, <2>3 DEF IInv, TypeOK
<1>1. /\ flights[f].pc = "dial" => flights[f].epoch = 0
      /\ flights[f].pc = "negotiate" => flights[f].epoch # 0
      /\ flights[f].pc \in {"finish", "done"} /\ flights[f].epoch # 0 => flights[f].epoch \in negotiated
      /\ current # 0 /\ current \notin negotiated =>
          /\ connecting # 0 /\ flights[connecting].pc = "negotiate" /\ flights[connecting].epoch = current
  BY DEF IInv, EpochInv, Negotiates
<1>2. Retry(f).epoch = 0 /\ Retry(f).epoch <= lastEpoch /\ Retry(f).pc \in {"dial", "finish"}
  BY <1>0 DEF Retry, FlightState
<1>3. CASE FlightDialFails(f)
  <2>1. current # 0 /\ current \notin negotiated => connecting # f
    BY <1>1, <1>3 DEF FlightDialFails
  <2> QED
    BY <1>2, <1>3, <2>1, FlightReplaced DEF FlightDialFails
<1>4. CASE FlightCancelled(f)
  <2> DEFINE r == [flights[f] EXCEPT !.pc = "finish"]
  <2>1. flights' = [flights EXCEPT ![f] = r] /\ r.pc = "finish" /\ r.epoch = 0 /\ r.epoch <= lastEpoch
    BY <1>0, <1>1, <1>4 DEF FlightCancelled, FlightState
  <2>2. current # 0 /\ current \notin negotiated => connecting # f
    BY <1>1, <1>4 DEF FlightCancelled
  <2> HIDE DEF r
  <2> QED
    BY <1>4, <2>1, <2>2, FlightReplaced DEF FlightCancelled
<1>5. CASE FlightFinish(f)
  <2> DEFINE r == [flights[f] EXCEPT !.pc = "done"]
  <2>1. flights' = [flights EXCEPT ![f] = r] /\ r.pc = "done" /\ r.epoch = flights[f].epoch
    BY <1>0, <1>5 DEF FlightFinish, FlightState
  <2>2. current # 0 /\ current \notin negotiated => connecting' = connecting /\ connecting # f
    BY <1>1, <1>5 DEF FlightFinish
  <2>3. r.epoch # 0 => r.epoch \in negotiated
    BY <1>1, <1>5, <2>1 DEF FlightFinish
  <2>4. connecting' \in {connecting, 0} /\ r.epoch <= lastEpoch
    BY <1>5, <2>1 DEF FlightFinish, IInv, EpochInv, Known
  <2> HIDE DEF r
  <2> QED
    BY <1>5, <2>1, <2>2, <2>3, <2>4, FlightReplaced DEF FlightFinish
<1>6. CASE FlightNegotiateFails(f)
  <2>1. current' \in {current, 0}
    BY <1>6, RetireEnds DEF FlightNegotiateFails
  <2>2. current' # 0 => current # flights[f].epoch
    BY <1>6 DEF FlightNegotiateFails, Retire, Invalidate
  <2>3. current' # 0 /\ current' \notin negotiated => connecting # f
    BY <1>1, <2>1, <2>2
  <2> QED
    BY <1>2, <1>6, <2>1, <2>3, FlightReplaced DEF FlightNegotiateFails
<1>7. CASE FlightNegotiated(f)
  <2>1. /\ DOMAIN flights' = DOMAIN flights /\ Len(flights') = Len(flights)
        /\ flights'[f] = [flights[f] EXCEPT !.pc = "finish"]
        /\ \A g \in DOMAIN flights \ {f} : flights'[g] = flights[g]
    BY <1>0, <1>7 DEF FlightNegotiated
  <2>2. /\ negotiated' = negotiated \cup {flights[f].epoch} /\ current = flights[f].epoch
        /\ UNCHANGED <<current, lastEpoch, born, connecting, fenced, restart, calls>>
    BY <1>7 DEF FlightNegotiated
  <2>3. flights'[f].pc = "finish" /\ flights'[f].epoch = flights[f].epoch
    BY <1>0, <2>1 DEF FlightState
  <2>4. Known'
    BY <2>1, <2>2, <2>3 DEF IInv, EpochInv, Known
  <2>5. Negotiates'
    BY <2>1, <2>2, <2>3 DEF IInv, EpochInv, Negotiates
  <2>6. Fences' /\ NegotiatedBeforeUse' /\ FencedFlightIsSilent'
    BY <2>2 DEF IInv, EpochInv, Fences, NegotiatedBeforeUse, FencedFlightIsSilent
  <2> QED
    BY <2>4, <2>5, <2>6 DEF EpochInv
<1>8. CASE FlightEstablish(f)
  <2> DEFINE e == lastEpoch + 1
  <2>1. /\ DOMAIN flights' = DOMAIN flights /\ Len(flights') = Len(flights)
        /\ flights'[f] = [flights[f] EXCEPT !.pc = "negotiate", !.epoch = e]
        /\ \A g \in DOMAIN flights \ {f} : flights'[g] = flights[g]
    BY <1>0, <1>8 DEF FlightEstablish
  <2>2. flights'[f].pc = "negotiate" /\ flights'[f].epoch = e /\ e # 0
    BY <1>0, <2>1 DEF FlightState
  <2>3. /\ lastEpoch' = e /\ current' = e /\ connecting = f
        /\ UNCHANGED <<negotiated, connecting, fenced, restart, calls>>
    BY <1>8 DEF FlightEstablish, Establishes
  <2>4. e \in Epochs
    BY <2>3, BoundAssumption DEF TypeOK
  <2>5. born'[e] = f /\ \A i \in Epochs \ {e} : born'[i] = born[i]
    BY <1>0, <1>8, <2>4 DEF FlightEstablish
  <2>6. Known'
    <3>1. restart.epoch \in 0..MaxEpochs /\ restart.epoch <= lastEpoch
      BY DEF IInv, EpochInv, Known, TypeOK, RestartState
    <3>2. restart'.epoch <= lastEpoch' /\ current' <= lastEpoch'
      BY <1>0, <2>3, <3>1, BoundAssumption
    <3>3. ASSUME NEW g \in DOMAIN flights' PROVE flights'[g].epoch <= lastEpoch'
      <4>0. g \in DOMAIN flights /\ flights[g] \in FlightState
        BY <1>0, <2>1
      <4>1. flights[g].epoch \in 0..MaxEpochs /\ flights[g].epoch <= lastEpoch
        BY <4>0 DEF FlightState, IInv, EpochInv, Known
      <4>2. CASE g = f
        BY <1>0, <2>2, <2>3, <4>2
      <4>3. CASE g # f
        BY <1>0, <2>1, <2>3, <4>1, <4>3, BoundAssumption
      <4> QED
        BY <4>2, <4>3
    <3> QED
      BY <2>1, <2>3, <3>2, <3>3 DEF IInv, EpochInv, Known
  <2>7. Negotiates'
    <3>1. ASSUME NEW g \in DOMAIN flights'
          PROVE  /\ flights'[g].pc = "dial" => flights'[g].epoch = 0
                 /\ flights'[g].pc = "negotiate" => flights'[g].epoch # 0
                 /\ flights'[g].pc \in {"finish", "done"} /\ flights'[g].epoch # 0 =>
                       flights'[g].epoch \in negotiated
      <4>1. CASE g = f
        BY <2>2, <4>1
      <4>2. CASE g # f
        BY <2>1, <4>2 DEF IInv, EpochInv, Negotiates
      <4> QED
        BY <4>1, <4>2
    <3>2. connecting' # 0 /\ flights'[connecting'].pc = "negotiate" /\ flights'[connecting'].epoch = current'
      BY <1>0, <2>2, <2>3
    <3> QED
      BY <2>3, <3>1, <3>2 DEF Negotiates
  <2>8. Fences' /\ NegotiatedBeforeUse'
    BY <2>3 DEF IInv, EpochInv, Fences, NegotiatedBeforeUse
  <2>9. FencedFlightIsSilent'
    <3>1. f > fenced
      BY <1>0, <2>3 DEF IInv, EpochInv, Fences
    <3>2. ASSUME restart.pc = "ok" PROVE restart.epoch # restart.retired /\ born'[restart.epoch] > fenced
      <4>1. /\ restart.epoch # restart.retired /\ born[restart.epoch] > fenced
            /\ restart.epoch <= lastEpoch /\ restart.epoch \in 0..MaxEpochs
        BY <3>2 DEF IInv, EpochInv, FencedFlightIsSilent, Known, TypeOK, RestartState
      <4>2. CASE restart.epoch \in Epochs
        BY <1>0, <2>5, <4>1, <4>2
      <4>3. CASE restart.epoch = 0
        BY <1>0, <2>4, <3>2, <4>3 DEF IInv, EpochInv, Known
      <4> QED
        BY <4>1, <4>2, <4>3, BoundAssumption DEF Epochs
    <3> QED
      BY <2>3, <2>5, <3>1, <3>2 DEF FencedFlightIsSilent
  <2> QED
    BY <2>6, <2>7, <2>8, <2>9 DEF EpochInv
<1> QED
  BY <1>3, <1>4, <1>5, <1>6, <1>7, <1>8 DEF DialEnds, HandshakeEnds


LEMMA EpochLife ==
    ASSUME IInv, TypeOK',
           Fence \/ RestartStep \/ EnsureCancelled \/ Close \/ CloseInvalidates \/ CloseReturns
    PROVE  EpochInv'
<1> USE DEF connVars, flightVars, lifeVars, callVars, engineVars
<1>0. /\ restart \in RestartState /\ flights \in Seq(FlightState) /\ Len(flights) \in Nat
      /\ DOMAIN flights = 1..Len(flights)
  BY DEF IInv, TypeOK
<1>1. CASE Fence
  <2>1. /\ current' = 0 /\ connecting' = 0 /\ fenced' = Len(flights)
        /\ UNCHANGED <<lastEpoch, born, negotiated, flights, calls>>
    BY <1>1 DEF Fence, FenceFlights, Invalidate
  <2>2. restart'.pc = "fenced" /\ restart'.epoch = restart.epoch
    BY <1>0, <1>1 DEF Fence, RestartState
  <2>3. lastEpoch \in Nat
    BY BoundAssumption DEF IInv, TypeOK, Epochs
  <2>4. Known'
    BY <1>0, <2>1, <2>2, <2>3 DEF IInv, EpochInv, Known
  <2>5. Negotiates' /\ Fences' /\ NegotiatedBeforeUse' /\ FencedFlightIsSilent'
    BY <2>1, <2>2 DEF IInv, EpochInv, Negotiates, Fences, NegotiatedBeforeUse, FencedFlightIsSilent
  <2> QED
    BY <2>4, <2>5 DEF EpochInv
<1>2. CASE Close \/ CloseReturns
  BY <1>2, EpochEnds DEF Close, CloseReturns
<1>3. CASE CloseInvalidates
  <2>1. current' \in {current, 0}
    BY <1>3 DEF CloseInvalidates, Invalidate
  <2> QED
    BY <1>3, <2>1, EpochEnds DEF CloseInvalidates
<1>4. ASSUME UNCHANGED <<current, lastEpoch, born, negotiated, connecting, flights, fenced, calls>>,
             restart'.epoch <= lastEpoch,
             restart'.pc = "join" => restart'.flight \in DOMAIN flights,
             restart'.pc \in {"check", "ok"} => restart'.epoch # 0,
             restart'.pc = "ok" => restart'.epoch # restart'.retired /\ born[restart'.epoch] > fenced
      PROVE  EpochInv'
  <2>1. Known'
    BY <1>4 DEF IInv, EpochInv, Known
  <2>2. Negotiates' /\ Fences' /\ NegotiatedBeforeUse' /\ FencedFlightIsSilent'
    BY <1>4 DEF IInv, EpochInv, Negotiates, Fences, NegotiatedBeforeUse, FencedFlightIsSilent
  <2> QED
    BY <2>1, <2>2 DEF EpochInv
<1>5. restart.epoch <= lastEpoch /\ current <= lastEpoch
  BY DEF IInv, EpochInv, Known
<1>6. CASE EnsureAfter
  <2>1. CASE connecting # 0 /\ restart' = [restart EXCEPT !.pc = "join", !.flight = connecting]
             /\ UNCHANGED <<connecting, flights>>
    <3>1. connecting \in DOMAIN flights
      <4>1. connecting \in Nat /\ connecting # 0 /\ connecting <= Len(flights)
        BY <2>1, BoundAssumption DEF IInv, TypeOK, EpochInv, Known, Flights
      <4> QED
        BY <1>0, <4>1
    <3>2. restart'.pc = "join" /\ restart'.flight = connecting /\ restart'.epoch = restart.epoch
      BY <1>0, <2>1 DEF RestartState
    <3> QED
      BY <1>4, <1>5, <1>6, <2>1, <3>1, <3>2 DEF EnsureAfter
  <2>2. CASE restart' = [restart EXCEPT !.pc = "failed"] /\ UNCHANGED <<connecting, flights>>
    <3>1. restart'.pc = "failed" /\ restart'.epoch = restart.epoch
      BY <1>0, <2>2 DEF RestartState
    <3> QED
      BY <1>4, <1>5, <1>6, <2>2, <3>1 DEF EnsureAfter
  <2>3. CASE /\ current # 0 /\ restart' = [restart EXCEPT !.pc = "check", !.epoch = current]
             /\ UNCHANGED <<connecting, flights>>
    <3>1. restart'.pc = "check" /\ restart'.epoch = current
      BY <1>0, <2>3 DEF RestartState
    <3> QED
      BY <1>4, <1>5, <1>6, <2>3, <3>1 DEF EnsureAfter
  <2>4. CASE /\ connecting = 0 /\ current = 0 /\ StartFlight
             /\ restart' = [restart EXCEPT !.pc = "join", !.flight = connecting']
    BY <1>6, <2>4, EpochStart DEF EnsureAfter
  <2> QED
    BY <1>6, <2>1, <2>2, <2>3, <2>4 DEF EnsureAfter
<1>7. CASE EnsureCancelled
  <2>1. restart'.pc = "failed" /\ restart'.epoch = restart.epoch
    BY <1>0, <1>7 DEF RestartState, EnsureCancelled
  <2> QED
    BY <1>4, <1>5, <1>7, <2>1 DEF EnsureCancelled
<1>8. CASE EnsureJoined
  <2> DEFINE e == flights[restart.flight].epoch
  <2>1. restart.flight \in DOMAIN flights /\ flights[restart.flight].pc = "done"
    BY <1>8 DEF IInv, EpochInv, Known, EnsureJoined
  <2>2. CASE e = 0 /\ restart' = [restart EXCEPT !.pc = "failed"]
    <3>1. restart'.pc = "failed" /\ restart'.epoch = restart.epoch
      BY <1>0, <2>2 DEF RestartState
    <3> QED
      BY <1>4, <1>5, <1>8, <3>1 DEF EnsureJoined
  <2>3. CASE e # 0 /\ restart' = [restart EXCEPT !.pc = "check", !.epoch = e]
    <3>1. restart'.pc = "check" /\ restart'.epoch = e
      BY <1>0, <2>3 DEF RestartState
    <3>2. e <= lastEpoch
      BY <2>1 DEF IInv, EpochInv, Known
    <3> QED
      BY <1>4, <1>8, <2>3, <3>1, <3>2 DEF EnsureJoined
  <2> QED
    BY <1>8, <2>2, <2>3 DEF EnsureJoined
<1>9. CASE EnsureChecked
  <2>1. /\ restart.pc = "check" /\ restart'.epoch = restart.epoch /\ restart'.retired = restart.retired
        /\ restart'.pc \in {"ok", "failed"}
        /\ restart'.pc = "ok" => restart.epoch # restart.retired /\ current = restart.epoch
    BY <1>0, <1>9 DEF RestartState, EnsureChecked
  <2>2. restart.epoch # 0
    BY <2>1 DEF IInv, EpochInv, Known
  <2>3. restart'.pc = "ok" => born[restart.epoch] > fenced
    BY <2>1, <2>2 DEF IInv, EpochInv, FencedFlightIsSilent
  <2> QED
    BY <1>4, <1>5, <1>9, <2>1, <2>2, <2>3 DEF EnsureChecked
<1> QED
  BY <1>1, <1>2, <1>3, <1>6, <1>7, <1>8, <1>9 DEF RestartStep


LEMMA EpochStep == IInv /\ [Next]_vars => EpochInv'
<1> SUFFICES ASSUME IInv, [Next]_vars PROVE EpochInv'
  OBVIOUS
<1> USE DEF connVars, flightVars, lifeVars, callVars, engineVars
<1>0. TypeOK'
  BY TypeStep
<1>1. ASSUME NEW k \in claimed, Deliver(k) PROVE EpochInv'
  <2>1. k.call \in Calls /\ calls \in [Calls -> CallState]
    BY DEF IInv, TypeOK, Claim
  <2>2. \A d \in Calls : /\ calls'[d].epoch = calls[d].epoch /\ calls'[d].pc = calls[d].pc
                         /\ calls'[d].flight = calls[d].flight
    BY <1>1, <2>1 DEF Deliver, CallState
  <2> QED
    BY <1>1, <2>2, EpochEnds DEF Deliver
<1>2. ASSUME NEW e \in Epochs, ReadStep(e) \/ Consume(e) \/ Emit(e) \/ Hangup(e)
      PROVE  EpochInv'
  <2>1. CASE ReadEnds(e)
    <3>1. current' \in {current, 0}
      BY <2>1, RetireEnds DEF ReadEnds
    <3> QED
      BY <2>1, <3>1, EpochEnds DEF ReadEnds
  <2>2. CASE Read(e) \/ Consume(e) \/ Emit(e) \/ Hangup(e)
    BY <2>2, EpochEnds DEF Read, Consume, Emit, Hangup
  <2> QED
    BY <1>2, <2>1, <2>2 DEF ReadStep
<1>3. CASE UNCHANGED vars
  BY <1>3, EpochEnds DEF vars
<1> QED
  BY <1>0, <1>1, <1>2, <1>3, EpochCall, EpochFlight, EpochLife DEF Next

-----------------------------------------------------------------------------
(***************************************************************************)
(* The theorems.                                                           *)
(***************************************************************************)

\* The invariant is inductive.
LEMMA Inductive == IInv /\ [Next]_vars => IInv'
BY TypeStep, SettledStep, EpochStep DEF IInv

LEMMA Invariant == Spec => []IInv
BY InitInv, Inductive, PTL DEF Spec

\* One claim at most, as a number: a result channel is sent to once.
LEMMA OneClaim ==
    ASSUME ClaimedOnce, NEW c
    PROVE  Cardinality(ClaimsOn(c)) <= 1
<1>1. CASE ClaimsOn(c) = {}
  BY <1>1, FS_EmptySet
<1>2. CASE ClaimsOn(c) # {}
  <2>1. PICK k : k \in ClaimsOn(c)
    BY <1>2
  <2>2. \A l \in ClaimsOn(c) : l = k
    BY <2>1 DEF ClaimsOn, ClaimedOnce
  <2>3. ClaimsOn(c) = {k}
    BY <2>1, <2>2
  <2>4. Cardinality({k}) = 1
    BY FS_Singleton, Zenon
  <2> QED
    BY <2>3, <2>4
<1> QED
  BY <1>1, <1>2

\* The connection's state is well formed in every reachable state: event queues
\* within Config.EventBuffer, flights and epochs that exist.
THEOREM ClientTyped == Spec => []TypeOK
BY Invariant, PTL DEF IInv

\* The response, the end of the epoch and the caller's cancellation settle a call
\* once between them: settleResponse, invalidate and removePending each take the
\* correlation out of Client.pending under the lock before they send, and the
\* completion function of CallRetained and CallDetached runs once.
THEOREM CallsSettledOnce == Spec => []SettledOnce
<1>1. IInv => SettledOnce
  <2> SUFFICES ASSUME IInv, NEW c \in Calls
               PROVE  /\ Cardinality(ClaimsOn(c)) <= 1
                      /\ c \in pending => ClaimsOn(c) = {} /\ calls[c].result = "none"
                      /\ ClaimsOn(c) # {} => calls[c].result = "none"
                      /\ Awaits(c) => c \in pending \/ ClaimsOn(c) # {} \/ calls[c].result # "none"
                      /\ calls[c].completed =
                            IF calls[c].pc # "done" \/ calls[c].bg THEN 0
                            ELSE IF Retained(c) \/ (Kind(c) = "detached" /\ calls[c].ret = "ok") THEN 1 ELSE 0
    BY DEF SettledOnce
  <2>1. ClaimedOnce /\ CallHeld(c) /\ CallRuns(c)
    BY DEF IInv, CallInv
  <2>2. ClaimsOn(c) # {} <=> HasClaim(c)
    BY DEF ClaimsOn, HasClaim
  <2>3. HasClaim(c) => c \notin pending /\ calls[c].result = "none"
    BY <2>1 DEF ClaimedOnce, HasClaim
  <2>4. c \in pending => calls[c].result = "none"
    BY <2>1 DEF ClaimedOnce
  <2>5. Awaits(c) => Held(c)
    BY <2>1 DEF CallHeld
  <2> QED
    BY <2>1, <2>2, <2>3, <2>4, <2>5, OneClaim DEF Held, CallRuns
<1> QED
  BY Invariant, <1>1, PTL

\* connection() lends no epoch before negotiate has run on it: while a socket is
\* current and not negotiated its flight is in Client.connecting, and whoever
\* comes waits for the flight.
THEOREM RequestsAfterHandshake == Spec => []NegotiatedBeforeUse
BY Invariant, PTL DEF IInv, EpochInv

\* FenceConnectionGeneration forgets the flight under way in the step that retires
\* the epoch, so establish never publishes a socket of an older flight, and
\* EnsureConnectedAfter reports success on a newer socket only.
THEOREM FencedFlightsStaySilent == Spec => []FencedFlightIsSilent
BY Invariant, PTL DEF IInv, EpochInv

=============================================================================
