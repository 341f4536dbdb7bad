----------------------------- MODULE KeyedFlight -----------------------------
(***************************************************************************)
(* keyedFlight of internal/session/manager.go: a map from a chat to a      *)
(* flight object that exists while somebody owns the chat or waits for it. *)
(* An operation keeps a pointer to the object it found; the object is      *)
(* dropped from the map by key, whichever object the releasing operation   *)
(* holds.  A grant and the goroutine that notices it are separate steps,   *)
(* so a waiter may give up with the permit already in its hands.           *)
(***************************************************************************)
EXTENDS Naturals, Sequences

CONSTANTS Keys, Jobs, Flights

NoFlight == 0
ASSUME FlightAssumption == NoFlight \notin Flights /\ Keys # {}

VARIABLES
    flights,   \* keyedFlight.flights
    owned,     \* chatFlight.owned
    waiters,   \* chatFlight.waiters
    ent        \* per operation its chatWaiter and where enter is

flightVars == <<flights, owned, waiters, ent>>

Out(k) == [key |-> k, x |-> NoFlight, st |-> "out"]

FlightInit ==
    /\ flights = [k \in Keys |-> NoFlight]
    /\ owned = [x \in Flights |-> FALSE]
    /\ waiters = [x \in Flights |-> <<>>]
    /\ ent = [j \in Jobs |-> Out(CHOOSE k \in Keys : TRUE)]

Unused(x) == (\A k \in Keys : flights[k] # x) /\ (\A j \in Jobs : ent[j].x # x)

(* k.flights[key], a new object when there is none *)
Found(k) == IF flights[k] # NoFlight THEN flights[k]
            ELSE CHOOSE x \in Flights : Unused(x)

(* enter and enqueue up to the unlock: take the permit or a place in line *)
Enter(j, k) ==
    /\ ent[j].st = "out"
    /\ LET x == Found(k)
           free == ~owned[x] /\ waiters[x] = <<>>
       IN  /\ x \in Flights /\ (flights[k] = NoFlight => Unused(x))
           /\ flights' = [flights EXCEPT ![k] = x]
           /\ owned' = IF free THEN [owned EXCEPT ![x] = TRUE] ELSE owned
           /\ waiters' = IF free THEN waiters ELSE [waiters EXCEPT ![x] = Append(@, j)]
           /\ ent' = [ent EXCEPT ![j] = [key |-> k, x |-> x, st |-> IF free THEN "granted" ELSE "wait"]]

(* The select sees ready *)
Notice(j) ==
    /\ ent[j].st = "granted"
    /\ ent' = [ent EXCEPT ![j].st = "in"]
    /\ UNCHANGED <<flights, owned, waiters>>

(* Wrong: the first waiter is granted and stays in line. *)
HandOverTwice(j) ==
    LET x == ent[j].x
        k == ent[j].key
    IN  IF waiters[x] = <<>>
        THEN /\ owned' = [owned EXCEPT ![x] = FALSE]
             /\ flights' = [flights EXCEPT ![k] = NoFlight]
             /\ ent' = [ent EXCEPT ![j] = Out(k)]
             /\ UNCHANGED waiters
        ELSE /\ ent' = [ent EXCEPT ![j] = Out(k), ![Head(waiters[x])].st = "granted"]
             /\ UNCHANGED <<flights, owned, waiters>>

(* release: the first waiter owns the flight, or the flight is dropped *)
HandOver(j) ==
    LET x == ent[j].x
        k == ent[j].key
    IN  IF waiters[x] = <<>>
        THEN /\ owned' = [owned EXCEPT ![x] = FALSE]
             /\ flights' = [flights EXCEPT ![k] = NoFlight]
             /\ ent' = [ent EXCEPT ![j] = Out(k)]
             /\ UNCHANGED waiters
        ELSE /\ waiters' = [waiters EXCEPT ![x] = Tail(@)]
             /\ ent' = [ent EXCEPT ![j] = Out(k), ![Head(waiters[x])].st = "granted"]
             /\ UNCHANGED <<flights, owned>>

Release(j) == ent[j].st = "in" /\ HandOver(j)

(* The loop over the waiters: the first that is j goes *)
Without(q, j) ==
    IF \A n \in 1..Len(q) : q[n] # j THEN q
    ELSE LET n == CHOOSE n \in 1..Len(q) : q[n] = j /\ \A m \in 1..(n - 1) : q[m] # j
         IN  SubSeq(q, 1, n - 1) \o SubSeq(q, n + 1, Len(q))

(* The select sees the cancelled context: before the grant ... *)
GiveUp(j) ==
    /\ ent[j].st = "wait"
    /\ LET x == ent[j].x
           left == Without(waiters[x], j)
       IN  /\ waiters' = [waiters EXCEPT ![x] = left]
           /\ flights' = IF ~owned[x] /\ left = <<>>
                         THEN [flights EXCEPT ![ent[j].key] = NoFlight] ELSE flights
           /\ ent' = [ent EXCEPT ![j] = Out(ent[j].key)]
           /\ UNCHANGED owned

(* ... or after it *)
GiveBack(j) == ent[j].st = "granted" /\ HandOver(j)

FlightNext ==
    \E j \in Jobs : \/ \E k \in Keys : Enter(j, k)
                    \/ Notice(j) \/ Release(j) \/ GiveUp(j) \/ GiveBack(j)

FlightSpec == FlightInit /\ [][FlightNext]_flightVars

-----------------------------------------------------------------------------
(* The operations that own chat k *)
Owners(k) == {j \in Jobs : ent[j].key = k /\ ent[j].st \in {"granted", "in"}}

(* keyedFlight serializes the operations of one chat: two never own it. *)
Exclusive == \A i, j \in Jobs : ent[i].st = "in" /\ ent[j].st = "in" /\ ent[i].key = ent[j].key => i = j

(* The line of a chat: its owner and then chatFlight.waiters *)
Line == [k \in Keys |->
    IF flights[k] = NoFlight THEN <<>>
    ELSE <<CHOOSE j \in Jobs : j \in Owners(k)>> \o waiters[flights[k]]]

Permit == INSTANCE ChatPermit WITH line <- Line

(* EnterChat, EnqueueChat and release implement the FIFO permit. *)
PermitSpec == Permit!Spec
=============================================================================
