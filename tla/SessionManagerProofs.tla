------------------------ MODULE SessionManagerProofs ------------------------
(***************************************************************************)
(* Proofs about the session manager, for every set of chats, operations    *)
(* and scenarios.  First its permits (KeyedFlight), for every set of       *)
(* flight objects: two operations never own a chat, and the map of flight  *)
(* objects implements the FIFO permit of ChatPermit.  Then the manager:    *)
(* what it does with a chat's permit is what keyedFlight allows, so the    *)
(* FIFO permit holds of the whole manager, the slots and fences of         *)
(* open_session never leak, and a deleted chat gets no session of a        *)
(* checked acquisition.                                                    *)
(***************************************************************************)
EXTENDS SessionManager, SequenceTheorems, FiniteSetTheorems, TLAPS

-----------------------------------------------------------------------------
(***************************************************************************)
(* Permits: the inductive invariant.                                       *)
(***************************************************************************)

Entry == [key : Keys, x : Flights \cup {NoFlight}, st : {"out", "wait", "granted", "in"}]

FlightType ==
    /\ flights \in [Keys -> Flights \cup {NoFlight}]
    /\ owned \in [Flights -> BOOLEAN]
    /\ waiters \in [Flights -> Seq(Jobs)]
    /\ ent \in [Jobs -> Entry]

Owns(j) == ent[j].st \in {"granted", "in"}

\* An operation holds the object its chat's key leads to, although release drops
\* it by key; two keys never lead to one object.
HoldsLive ==
    /\ \A j \in Jobs : ent[j].st # "out" => ent[j].x # NoFlight /\ flights[ent[j].key] = ent[j].x
    /\ \A k, l \in Keys : flights[k] = flights[l] /\ flights[k] # NoFlight => k = l

\* An object is in the map exactly as long as one operation owns it.
OwnedOnce ==
    /\ \A k \in Keys : flights[k] # NoFlight => owned[flights[k]] /\ \E j \in Jobs : ent[j].key = k /\ Owns(j)
    /\ \A i, j \in Jobs : Owns(i) /\ Owns(j) /\ ent[i].key = ent[j].key => i = j
    /\ \A x \in Flights : (\A k \in Keys : flights[k] # x) => ~owned[x] /\ waiters[x] = <<>>

\* chatFlight.waiters holds each operation that waits, once, and nobody else.
WaitersWait ==
    /\ \A x \in Flights : \A n \in DOMAIN waiters[x] :
          ent[waiters[x][n]].st = "wait" /\ ent[waiters[x][n]].x = x
    /\ \A x \in Flights : \A m, n \in DOMAIN waiters[x] : waiters[x][m] = waiters[x][n] => m = n
    /\ \A j \in Jobs : ent[j].st = "wait" =>
          \E n \in DOMAIN waiters[ent[j].x] : waiters[ent[j].x][n] = j

FlightInv == FlightType /\ HoldsLive /\ OwnedOnce /\ WaitersWait

-----------------------------------------------------------------------------
(***************************************************************************)
(* Sequences without one of their elements.                                *)
(***************************************************************************)

\* What is in front of the n-th element and what is behind it, put together.
LEMMA Gap ==
    ASSUME NEW N \in Nat, NEW n \in 1..N, NEW q, NEW a, NEW b, NEW r,
           \A i \in 1..(n - 1) : a[i] = q[i],
           \A i \in 1..(N - n) : b[i] = q[n + i],
           \A i \in 1..(N - 1) : r[i] = IF i <= n - 1 THEN a[i] ELSE b[i - (n - 1)],
           NEW i \in 1..(N - 1)
    PROVE  r[i] = IF i < n THEN q[i] ELSE q[i + 1]
<1>1. CASE i < n
  BY <1>1
<1>2. CASE ~(i < n)
  <2>1. r[i] = b[i - (n - 1)] /\ i - (n - 1) \in 1..(N - n)
    BY <1>2
  <2>2. b[i - (n - 1)] = q[n + (i - (n - 1))]
    BY <2>1
  <2>3. n + (i - (n - 1)) = i + 1
    OBVIOUS
  <2> QED
    BY <1>2, <2>1, <2>2, <2>3
<1> QED
  BY <1>1, <1>2

\* A sequence without its n-th element.
Cut(q, n) == SubSeq(q, 1, n - 1) \o SubSeq(q, n + 1, Len(q))

\* It is the rest, in its order.
LEMMA Removed ==
    ASSUME NEW S, NEW q \in Seq(S), NEW n \in 1..Len(q)
    PROVE  /\ Cut(q, n) \in Seq(S) /\ Len(Cut(q, n)) = Len(q) - 1
           /\ \A i \in 1..(Len(q) - 1) : Cut(q, n)[i] = IF i < n THEN q[i] ELSE q[i + 1]
<1>0. Len(q) \in Nat /\ n \in Nat
  OBVIOUS
<1> DEFINE a == SubSeq(q, 1, n - 1)
           b == SubSeq(q, n + 1, Len(q))
           r == a \o b
<1>3. /\ a \in Seq(S) /\ Len(a) = n - 1 /\ b \in Seq(S) /\ Len(b) = Len(q) - n
      /\ \A i \in 1..(n - 1) : a[i] = q[i]
      /\ \A i \in 1..(Len(q) - n) : b[i] = q[n + i]
  OBVIOUS
<1> HIDE DEF a, b
<1>5. /\ r \in Seq(S) /\ Len(r) = Len(a) + Len(b)
      /\ \A i \in 1..(Len(a) + Len(b)) : r[i] = IF i <= Len(a) THEN a[i] ELSE b[i - Len(a)]
  BY <1>3, ConcatProperties, Zenon
<1> HIDE DEF r
<1>6. Len(a) + Len(b) = Len(q) - 1
  BY <1>0, <1>3
<1>7. \A i \in 1..(Len(q) - 1) : r[i] = IF i <= n - 1 THEN a[i] ELSE b[i - (n - 1)]
  BY <1>3, <1>5, <1>6
<1>8. \A i \in 1..(Len(q) - 1) : r[i] = IF i < n THEN q[i] ELSE q[i + 1]
  BY <1>0, <1>3, <1>7, Gap
<1>9. r \in Seq(S) /\ Len(r) = Len(q) - 1
  BY <1>5, <1>6
<1> QED
  BY <1>8, <1>9 DEF r, a, b, Cut

\* The loop of enter takes out an element that occurs once.
LEMMA WithoutOne ==
    ASSUME NEW S, NEW q \in Seq(S), NEW n \in 1..Len(q),
           \A m \in 1..Len(q) : q[m] = q[n] => m = n
    PROVE  Without(q, q[n]) = Cut(q, n)
<1>1. n = CHOOSE i \in 1..Len(q) : q[i] = q[n] /\ \A m \in 1..(i - 1) : q[m] # q[n]
  OBVIOUS
<1> QED
  BY <1>1 DEF Without, Cut

-----------------------------------------------------------------------------
(***************************************************************************)
(* The invariant is inductive.                                             *)
(***************************************************************************)

LEMMA InitFlight == FlightInit => FlightInv
<1> SUFFICES ASSUME FlightInit PROVE FlightInv
  OBVIOUS
<1>1. \A j \in Jobs : ent[j] \in Entry /\ ent[j].st = "out"
  <2>1. (CHOOSE k \in Keys : TRUE) \in Keys
    BY FlightAssumption
  <2>2. \A k \in Keys : Out(k) \in Entry /\ Out(k).st = "out"
    BY DEF Out, Entry
  <2>3. \A j \in Jobs : ent[j] = Out(CHOOSE k \in Keys : TRUE)
    BY DEF FlightInit
  <2> QED
    BY <2>1, <2>2, <2>3, Zenon
<1>2. FlightType
  <2>1. ent \in [Jobs -> Entry]
    BY <1>1 DEF FlightInit
  <2>2. waiters \in [Flights -> Seq(Jobs)]
    <3>1. <<>> \in Seq(Jobs)
      OBVIOUS
    <3> QED
      BY <3>1, Zenon DEF FlightInit
  <2> QED
    BY <2>1, <2>2 DEF FlightInit, FlightType
<1>3. HoldsLive
  BY <1>1 DEF FlightInit, HoldsLive
<1>4. OwnedOnce
  BY <1>1 DEF FlightInit, OwnedOnce, Owns
<1>5. WaitersWait
  <2>1. \A x \in Flights : waiters[x] = <<>>
    BY DEF FlightInit
  <2>2. DOMAIN <<>> = {}
    OBVIOUS
  <2> QED
    BY <1>1, <2>1, <2>2 DEF WaitersWait
<1> QED
  BY <1>2, <1>3, <1>4, <1>5 DEF FlightInv

\* What the invariant says of one operation and of one object.
LEMMA Types ==
    ASSUME FlightInv
    PROVE  /\ \A k \in Keys : flights[k] \in Flights \cup {NoFlight}
           /\ \A x \in Flights : waiters[x] \in Seq(Jobs) /\ Len(waiters[x]) \in Nat /\ owned[x] \in BOOLEAN
           /\ \A x \in Flights : \A n \in DOMAIN waiters[x] : waiters[x][n] \in Jobs
           /\ \A j \in Jobs : ent[j] \in Entry /\ ent[j].key \in Keys
           /\ \A j \in Jobs : ent[j].st # "out" => ent[j].x \in Flights
<1>1. \A x \in Flights : waiters[x] \in Seq(Jobs)
  BY DEF FlightInv, FlightType
<1>2. \A x \in Flights : Len(waiters[x]) \in Nat /\ \A n \in DOMAIN waiters[x] : waiters[x][n] \in Jobs
  BY <1>1
<1>3. \A j \in Jobs : ent[j] \in Entry /\ ent[j].key \in Keys /\ ent[j].x \in Flights \cup {NoFlight}
  BY DEF FlightInv, FlightType, Entry
<1> QED
  BY <1>1, <1>2, <1>3 DEF FlightInv, FlightType, HoldsLive

\* An object that is found has an owner; one that is made is free.
LEMMA FoundFree ==
    ASSUME FlightInv, NEW k \in Keys, NEW x \in Flights, x = Found(k), flights[k] = NoFlight => Unused(x)
    PROVE  /\ ~owned[x] /\ waiters[x] = <<>> <=> flights[k] = NoFlight
           /\ flights[k] # NoFlight => x = flights[k] /\ owned[x]
           /\ flights[k] = NoFlight => /\ \A l \in Keys : flights[l] # x
                                       /\ \A j \in Jobs : ent[j].x # x
<1>1. CASE flights[k] = NoFlight
  BY <1>1 DEF FlightInv, OwnedOnce, Unused
<1>2. CASE flights[k] # NoFlight
  BY <1>2 DEF FlightInv, OwnedOnce, Found
<1> QED
  BY <1>1, <1>2

\* The chat is free: a new object, owned by the operation.
LEMMA EnterFree ==
    ASSUME FlightInv, NEW j \in Jobs, NEW k \in Keys, NEW x \in Flights,
           ent[j].st = "out", flights[k] = NoFlight,
           \A l \in Keys : flights[l] # x, \A i \in Jobs : ent[i].x # x,
           flights' = [flights EXCEPT ![k] = x], owned' = [owned EXCEPT ![x] = TRUE], waiters' = waiters,
           ent' = [ent EXCEPT ![j] = [key |-> k, x |-> x, st |-> "granted"]]
    PROVE  FlightInv'
<1>0. FlightType /\ HoldsLive /\ OwnedOnce /\ WaitersWait
  BY DEF FlightInv
<1>a. NoFlight \notin Flights
  BY FlightAssumption
<1>1. FlightType'
  BY <1>0 DEF FlightType, Entry
<1>2. /\ ent'[j].key = k /\ ent'[j].x = x /\ ent'[j].st = "granted"
      /\ \A i \in Jobs \ {j} : ent'[i] = ent[i]
      /\ flights'[k] = x /\ \A l \in Keys \ {k} : flights'[l] = flights[l]
      /\ owned'[x] /\ \A y \in Flights \ {x} : owned'[y] = owned[y]
  BY <1>0 DEF FlightType
<1>3. \A i \in Jobs : ent[i].st # "out" => ent[i].key # k
  BY <1>0 DEF HoldsLive
<1>4. HoldsLive'
  BY <1>0, <1>a, <1>2, <1>3, Types DEF HoldsLive
<1>5. OwnedOnce'
  <2>1. \A l \in Keys : flights'[l] # NoFlight => owned'[flights'[l]] /\ \E i \in Jobs : ent'[i].key = l /\ Owns(i)'
    <3> SUFFICES ASSUME NEW l \in Keys, flights'[l] # NoFlight
                 PROVE  owned'[flights'[l]] /\ \E i \in Jobs : ent'[i].key = l /\ Owns(i)'
      OBVIOUS
    <3>1. CASE l = k
      BY <1>2, <3>1 DEF Owns
    <3>2. CASE l # k
      <4>1. PICK i \in Jobs : ent[i].key = l /\ Owns(i)
        BY <1>0, <1>2, <3>2 DEF OwnedOnce
      <4>2. i # j
        BY <4>1 DEF Owns
      <4>3. owned[flights[l]] /\ flights[l] \in Flights
        BY <1>0, <1>2, <3>2, Types DEF OwnedOnce
      <4> QED
        BY <1>2, <3>2, <4>1, <4>2, <4>3 DEF Owns
    <3> QED
      BY <3>1, <3>2
  <2>2. \A i, h \in Jobs : Owns(i)' /\ Owns(h)' /\ ent'[i].key = ent'[h].key => i = h
    BY <1>0, <1>2, <1>3 DEF OwnedOnce, Owns
  <2>3. \A y \in Flights : (\A l \in Keys : flights'[l] # y) => ~owned'[y] /\ waiters'[y] = <<>>
    BY <1>0, <1>a, <1>2 DEF OwnedOnce
  <2> QED
    BY <2>1, <2>2, <2>3 DEF OwnedOnce
<1>6. WaitersWait'
  <2>1. \A y \in Flights : \A n \in DOMAIN waiters[y] : waiters[y][n] \in Jobs \ {j}
    <3> SUFFICES ASSUME NEW y \in Flights, NEW n \in DOMAIN waiters[y] PROVE waiters[y][n] \in Jobs \ {j}
      OBVIOUS
    <3>1. ent[waiters[y][n]].st = "wait"
      BY <1>0 DEF WaitersWait
    <3> QED
      BY <3>1, Types
  <2>2. \A y \in Flights : \A n \in DOMAIN waiters'[y] :
            ent'[waiters'[y][n]].st = "wait" /\ ent'[waiters'[y][n]].x = y
    BY <1>0, <1>2, <2>1 DEF WaitersWait
  <2>3. \A i \in Jobs : ent'[i].st = "wait" =>
            \E n \in DOMAIN waiters'[ent'[i].x] : waiters'[ent'[i].x][n] = i
    BY <1>0, <1>2 DEF WaitersWait
  <2> QED
    BY <1>0, <2>2, <2>3 DEF WaitersWait
<1> QED
  BY <1>1, <1>4, <1>5, <1>6 DEF FlightInv

\* The chat has an owner: the operation takes the last place in line.
LEMMA EnterWait ==
    ASSUME FlightInv, NEW j \in Jobs, NEW k \in Keys, NEW x \in Flights,
           ent[j].st = "out", flights[k] = x,
           flights' = flights, owned' = owned, waiters' = [waiters EXCEPT ![x] = Append(@, j)],
           ent' = [ent EXCEPT ![j] = [key |-> k, x |-> x, st |-> "wait"]]
    PROVE  FlightInv'
<1>0. FlightType /\ HoldsLive /\ OwnedOnce /\ WaitersWait
  BY DEF FlightInv
<1>a. NoFlight \notin Flights
  BY FlightAssumption
<1>1. /\ ent'[j].key = k /\ ent'[j].x = x /\ ent'[j].st = "wait"
      /\ \A i \in Jobs \ {j} : ent'[i] = ent[i]
      /\ \A y \in Flights \ {x} : waiters'[y] = waiters[y]
  BY <1>0 DEF FlightType
<1>2. PICK end : /\ waiters'[x] \in Seq(Jobs) /\ DOMAIN waiters'[x] = DOMAIN waiters[x] \cup {end}
                  /\ end \notin DOMAIN waiters[x] /\ waiters'[x][end] = j
                  /\ \A n \in DOMAIN waiters[x] : waiters'[x][n] = waiters[x][n]
  <2>1. waiters[x] \in Seq(Jobs) /\ waiters'[x] = Append(waiters[x], j)
    BY <1>0 DEF FlightType
  <2> HIDE DEF FlightInv
  <2> WITNESS Len(waiters[x]) + 1
  <2> QED
    BY <2>1
<1>3. FlightType'
  <2>1. waiters' \in [Flights -> Seq(Jobs)]
    BY <1>0, <1>1, <1>2 DEF FlightType
  <2> QED
    BY <1>0, <2>1 DEF FlightType, Entry
<1>4. HoldsLive'
  BY <1>0, <1>a, <1>1 DEF HoldsLive
<1>5. OwnedOnce'
  <2>1. \A i \in Jobs : Owns(i)' <=> Owns(i)
    BY <1>1 DEF Owns
  <2>2. \A i \in Jobs : Owns(i) => ent'[i] = ent[i]
    BY <1>1 DEF Owns
  <2>3. \A y \in Flights : (\A l \in Keys : flights[l] # y) => y # x
    OBVIOUS
  <2> QED
    BY <1>0, <1>1, <2>1, <2>2, <2>3 DEF OwnedOnce
<1>6. WaitersWait'
  <2>1. \A y \in Flights : \A n \in DOMAIN waiters[y] : waiters[y][n] \in Jobs \ {j}
    <3> SUFFICES ASSUME NEW y \in Flights, NEW n \in DOMAIN waiters[y] PROVE waiters[y][n] \in Jobs \ {j}
      OBVIOUS
    <3>1. ent[waiters[y][n]].st = "wait"
      BY <1>0 DEF WaitersWait
    <3> QED
      BY <3>1, Types
  <2>2. \A y \in Flights : \A n \in DOMAIN waiters'[y] :
            ent'[waiters'[y][n]].st = "wait" /\ ent'[waiters'[y][n]].x = y
    BY <1>0, <1>1, <1>2, <2>1 DEF WaitersWait
  <2>3. \A y \in Flights : \A m, n \in DOMAIN waiters'[y] : waiters'[y][m] = waiters'[y][n] => m = n
    BY <1>0, <1>1, <1>2, <2>1 DEF WaitersWait
  <2>4. ASSUME NEW i \in Jobs, ent'[i].st = "wait"
        PROVE  \E n \in DOMAIN waiters'[ent'[i].x] : waiters'[ent'[i].x][n] = i
    <3>1. CASE i = j
      BY <1>1, <1>2, <3>1
    <3>2. CASE i # j
      <4>1. ent[i].x \in Flights /\ ent'[i] = ent[i]
        BY <1>1, <2>4, <3>2, Types
      <4>2. PICK n \in DOMAIN waiters[ent[i].x] : waiters[ent[i].x][n] = i
        BY <1>0, <2>4, <4>1 DEF WaitersWait
      <4> QED
        BY <1>1, <1>2, <4>1, <4>2
    <3> QED
      BY <3>1, <3>2
  <2> QED
    BY <2>2, <2>3, <2>4 DEF WaitersWait
<1> QED
  BY <1>3, <1>4, <1>5, <1>6 DEF FlightInv

\* The owner leaves and nobody waits: the object is dropped.
LEMMA DropLast ==
    ASSUME FlightInv, NEW j \in Jobs, NEW k, NEW x, k = ent[j].key, x = ent[j].x, Owns(j), waiters[x] = <<>>,
           flights' = [flights EXCEPT ![k] = NoFlight], owned' = [owned EXCEPT ![x] = FALSE],
           waiters' = waiters, ent' = [ent EXCEPT ![j] = Out(k)]
    PROVE  FlightInv'
<1>0. FlightType /\ HoldsLive /\ OwnedOnce /\ WaitersWait
  BY DEF FlightInv
<1>a. NoFlight \notin Flights /\ k \in Keys /\ x \in Flights /\ flights[k] = x /\ ent[j].st # "out"
  BY <1>0, FlightAssumption, Types DEF HoldsLive, Owns
<1>c. Out(k) \in Entry /\ Out(k).st = "out"
  BY <1>a DEF Out, Entry
<1>1. FlightType'
  <2>1. flights' \in [Keys -> Flights \cup {NoFlight}] /\ owned' \in [Flights -> BOOLEAN]
    BY <1>0, <1>a DEF FlightType
  <2>2. ent' \in [Jobs -> Entry]
    BY <1>0, <1>c DEF FlightType
  <2> QED
    BY <1>0, <2>1, <2>2 DEF FlightType
<1>2. /\ ent'[j].st = "out" /\ \A i \in Jobs \ {j} : ent'[i] = ent[i]
      /\ flights'[k] = NoFlight /\ \A l \in Keys \ {k} : flights'[l] = flights[l]
      /\ ~owned'[x] /\ \A y \in Flights \ {x} : owned'[y] = owned[y]
  BY <1>0, <1>a, <1>c DEF FlightType
<1>3. \A i \in Jobs \ {j} : ent[i].st # "out" => ent[i].key # k
  <2> SUFFICES ASSUME NEW i \in Jobs \ {j}, ent[i].st # "out", ent[i].key = k PROVE FALSE
    OBVIOUS
  <2>1. ent[i].x = x /\ ~Owns(i)
    BY <1>0, <1>a DEF HoldsLive, OwnedOnce
  <2>2. ent[i].st = "wait"
    BY <2>1, Types DEF Owns, Entry
  <2>3. \E n \in DOMAIN waiters[x] : waiters[x][n] = i
    BY <1>0, <2>1, <2>2 DEF WaitersWait
  <2>4. DOMAIN <<>> = {}
    OBVIOUS
  <2> QED
    BY <2>3, <2>4
<1>4. HoldsLive'
  BY <1>0, <1>2, <1>3, Types DEF HoldsLive
<1>5. OwnedOnce'
  <2>1. ASSUME NEW l \in Keys, flights'[l] # NoFlight
        PROVE  owned'[flights'[l]] /\ \E i \in Jobs : ent'[i].key = l /\ Owns(i)'
    <3>1. l # k /\ flights'[l] = flights[l] /\ flights[l] \in Flights
      BY <1>2, <2>1, Types
    <3>2. flights[l] # x
      BY <1>0, <1>a, <2>1, <3>1 DEF HoldsLive
    <3>3. PICK i \in Jobs : ent[i].key = l /\ Owns(i)
      BY <1>0, <2>1, <3>1 DEF OwnedOnce
    <3>4. i # j
      BY <3>1, <3>3
    <3>5. owned[flights[l]]
      BY <1>0, <2>1, <3>1 DEF OwnedOnce
    <3>6. ent'[i].key = l /\ Owns(i)'
      BY <1>2, <3>3, <3>4 DEF Owns
    <3> QED
      BY <1>2, <3>1, <3>2, <3>5, <3>6
  <2>2. \A i, h \in Jobs : Owns(i)' /\ Owns(h)' /\ ent'[i].key = ent'[h].key => i = h
    BY <1>0, <1>2 DEF OwnedOnce, Owns
  <2>3. ASSUME NEW y \in Flights, \A l \in Keys : flights'[l] # y
        PROVE  ~owned'[y] /\ waiters'[y] = <<>>
    BY <1>0, <1>a, <1>2, <2>3 DEF OwnedOnce
  <2> QED
    BY <2>1, <2>2, <2>3 DEF OwnedOnce
<1>6. WaitersWait'
  <2>1. \A y \in Flights : \A n \in DOMAIN waiters[y] : waiters[y][n] \in Jobs \ {j}
    <3> SUFFICES ASSUME NEW y \in Flights, NEW n \in DOMAIN waiters[y] PROVE waiters[y][n] \in Jobs \ {j}
      OBVIOUS
    <3>1. ent[waiters[y][n]].st = "wait"
      BY <1>0 DEF WaitersWait
    <3> QED
      BY <3>1, Types DEF Owns
  <2>2. \A y \in Flights : \A n \in DOMAIN waiters'[y] :
            ent'[waiters'[y][n]].st = "wait" /\ ent'[waiters'[y][n]].x = y
    BY <1>0, <1>2, <2>1 DEF WaitersWait
  <2>3. \A i \in Jobs : ent'[i].st = "wait" =>
            \E n \in DOMAIN waiters'[ent'[i].x] : waiters'[ent'[i].x][n] = i
    <3> SUFFICES ASSUME NEW i \in Jobs, ent'[i].st = "wait"
                 PROVE  \E n \in DOMAIN waiters'[ent'[i].x] : waiters'[ent'[i].x][n] = i
      OBVIOUS
    <3>1. ent'[i] = ent[i]
      BY <1>2
    <3>2. \E n \in DOMAIN waiters[ent[i].x] : waiters[ent[i].x][n] = i
      BY <1>0, <3>1 DEF WaitersWait
    <3> QED
      BY <3>1, <3>2
  <2> QED
    BY <1>0, <2>2, <2>3 DEF WaitersWait
<1> QED
  BY <1>1, <1>4, <1>5, <1>6 DEF FlightInv

\* r holds the elements of q but g, each once.
Loses(q, g, r) ==
    /\ \A i \in DOMAIN r : \E m \in DOMAIN q : r[i] = q[m] /\ q[m] # g
    /\ \A m \in DOMAIN q : q[m] # g => \E i \in DOMAIN r : r[i] = q[m]
    /\ \A i, m \in DOMAIN r : r[i] = r[m] => i = m

LEMMA Shorter ==
    ASSUME NEW S, NEW q \in Seq(S), NEW n \in 1..Len(q), NEW r \in Seq(S), Len(r) = Len(q) - 1,
           \A i \in 1..(Len(q) - 1) : r[i] = IF i < n THEN q[i] ELSE q[i + 1],
           \A i, m \in DOMAIN q : q[i] = q[m] => i = m
    PROVE  Loses(q, q[n], r)
<1>0. Len(q) \in Nat /\ DOMAIN q = 1..Len(q) /\ DOMAIN r = 1..(Len(q) - 1)
  OBVIOUS
<1>1. ASSUME NEW i \in DOMAIN r PROVE \E m \in DOMAIN q : r[i] = q[m] /\ q[m] # q[n]
  <2>1. CASE i < n
    BY <1>0, <2>1
  <2>2. CASE ~(i < n)
    <3>1. r[i] = q[i + 1] /\ i + 1 \in DOMAIN q /\ i + 1 # n
      BY <1>0, <2>2
    <3> QED
      BY <1>0, <3>1
  <2> QED
    BY <2>1, <2>2
<1>2. ASSUME NEW m \in DOMAIN q, q[m] # q[n] PROVE \E i \in DOMAIN r : r[i] = q[m]
  <2>1. CASE m < n
    BY <1>0, <2>1
  <2>2. CASE m > n
    <3>1. m - 1 \in DOMAIN r /\ r[m - 1] = q[(m - 1) + 1] /\ (m - 1) + 1 = m
      BY <1>0, <2>2
    <3> QED
      BY <3>1
  <2> QED
    BY <1>0, <1>2, <2>1, <2>2
<1>3. ASSUME NEW i \in DOMAIN r, NEW m \in DOMAIN r, r[i] = r[m] PROVE i = m
  <2>1. i + 1 \in DOMAIN q /\ m + 1 \in DOMAIN q /\ i \in DOMAIN q /\ m \in DOMAIN q
    BY <1>0
  <2>2. CASE i < n /\ m < n
    BY <1>0, <1>3, <2>1, <2>2
  <2>3. CASE i < n /\ ~(m < n)
    <3>1. r[i] = q[i] /\ r[m] = q[m + 1]
      BY <1>0, <2>3
    <3>2. i = m + 1
      BY <1>3, <2>1, <3>1
    <3> QED
      BY <1>0, <2>3, <3>2
  <2>4. CASE ~(i < n) /\ m < n
    <3>1. r[i] = q[i + 1] /\ r[m] = q[m]
      BY <1>0, <2>4
    <3>2. i + 1 = m
      BY <1>3, <2>1, <3>1
    <3> QED
      BY <1>0, <2>4, <3>2
  <2>5. CASE ~(i < n) /\ ~(m < n)
    <3>1. r[i] = q[i + 1] /\ r[m] = q[m + 1]
      BY <1>0, <2>5
    <3>2. i + 1 = m + 1
      BY <1>3, <2>1, <3>1
    <3> QED
      BY <1>0, <3>2
  <2> QED
    BY <2>2, <2>3, <2>4, <2>5
<1> QED
  BY <1>1, <1>2, <1>3 DEF Loses

\* A line whose first element, or whose element j, has gone.
LEMMA TailLoses ==
    ASSUME NEW q \in Seq(Jobs), q # <<>>, \A i, m \in DOMAIN q : q[i] = q[m] => i = m
    PROVE  Head(q) \in Jobs /\ 1 \in DOMAIN q /\ Head(q) = q[1] /\ Tail(q) \in Seq(Jobs) /\ Loses(q, Head(q), Tail(q))
<1>1. /\ Tail(q) \in Seq(Jobs) /\ Len(Tail(q)) = Len(q) - 1 /\ Len(q) \in Nat /\ Len(q) > 0
      /\ \A i \in 1..(Len(q) - 1) : Tail(q)[i] = q[i + 1]
  OBVIOUS
<1>2. 1 \in DOMAIN q /\ Head(q) = q[1] /\ q[1] \in Jobs
  BY <1>1
<1>3. \A i \in 1..(Len(q) - 1) : Tail(q)[i] = IF i < 1 THEN q[i] ELSE q[i + 1]
  BY <1>1
<1>4. 1 \in 1..Len(q)
  BY <1>1
<1>5. Loses(q, q[1], Tail(q))
  BY <1>1, <1>3, <1>4, Shorter
<1> QED
  BY <1>1, <1>2, <1>5

LEMMA WithoutLoses ==
    ASSUME NEW q \in Seq(Jobs), NEW n \in DOMAIN q, \A i, m \in DOMAIN q : q[i] = q[m] => i = m
    PROVE  Without(q, q[n]) \in Seq(Jobs) /\ Loses(q, q[n], Without(q, q[n]))
<1>0. DOMAIN q = 1..Len(q)
  OBVIOUS
<1>a. n \in 1..Len(q)
  OBVIOUS
<1>1. Without(q, q[n]) = Cut(q, n)
  BY <1>0, <1>a, WithoutOne
<1>2. /\ Cut(q, n) \in Seq(Jobs) /\ Len(Cut(q, n)) = Len(q) - 1
      /\ \A i \in 1..(Len(q) - 1) : Cut(q, n)[i] = IF i < n THEN q[i] ELSE q[i + 1]
  BY <1>a, Removed, Zenon
<1>3. Loses(q, q[n], Cut(q, n))
  BY <1>0, <1>a, <1>2, Shorter
<1> QED
  BY <1>1, <1>2, <1>3

\* The waiters of x without g, which waits no more; j leaves in the same step.
LEMMA LineShorter ==
    ASSUME FlightInv, NEW x \in Flights, NEW g \in Jobs, NEW j \in Jobs, NEW r \in Seq(Jobs),
           Loses(waiters[x], g, r), waiters' = [waiters EXCEPT ![x] = r],
           ent[j].st # "wait" \/ j = g, ent[g].st = "wait" /\ ent[g].x = x,
           ent'[g].st # "wait", ent'[j].st # "wait", \A i \in Jobs \ {g, j} : ent'[i] = ent[i]
    PROVE  WaitersWait'
<1>0. WaitersWait /\ waiters \in [Flights -> Seq(Jobs)]
  BY DEF FlightInv, FlightType
<1>1. waiters'[x] = r /\ \A y \in Flights \ {x} : waiters'[y] = waiters[y]
  BY <1>0
<1>2. \A y \in Flights : \A n \in DOMAIN waiters[y] : waiters[y][n] \in Jobs /\ ent[waiters[y][n]].st = "wait"
                                                      /\ ent[waiters[y][n]].x = y
  BY <1>0, Types DEF WaitersWait
<1>3. ASSUME NEW y \in Flights, NEW n \in DOMAIN waiters'[y]
      PROVE  ent'[waiters'[y][n]].st = "wait" /\ ent'[waiters'[y][n]].x = y
  <2>1. CASE y = x
    <3>1. PICK m \in DOMAIN waiters[x] : r[n] = waiters[x][m] /\ waiters[x][m] # g
      BY <1>1, <1>3, <2>1 DEF Loses
    <3>2. r[n] \in Jobs \ {g, j} /\ ent[r[n]].st = "wait" /\ ent[r[n]].x = x
      BY <1>2, <3>1
    <3> QED
      BY <1>1, <2>1, <3>2
  <2>2. CASE y # x
    <3>1. waiters[y][n] \in Jobs /\ ent[waiters[y][n]].st = "wait" /\ ent[waiters[y][n]].x = y /\ waiters'[y] = waiters[y]
      BY <1>1, <1>2, <1>3, <2>2
    <3> QED
      BY <2>2, <3>1
  <2> QED
    BY <2>1, <2>2
<1>4. \A y \in Flights : \A m, n \in DOMAIN waiters'[y] : waiters'[y][m] = waiters'[y][n] => m = n
  BY <1>0, <1>1 DEF WaitersWait, Loses
<1>5. ASSUME NEW i \in Jobs, ent'[i].st = "wait"
      PROVE  \E n \in DOMAIN waiters'[ent'[i].x] : waiters'[ent'[i].x][n] = i
  <2>1. i \in Jobs \ {g, j} /\ ent'[i] = ent[i] /\ ent[i].x \in Flights
    BY <1>5, Types
  <2>2. PICK m \in DOMAIN waiters[ent[i].x] : waiters[ent[i].x][m] = i
    BY <1>0, <1>5, <2>1 DEF WaitersWait
  <2>3. CASE ent[i].x = x
    BY <1>1, <2>1, <2>2, <2>3 DEF Loses
  <2>4. CASE ent[i].x # x
    BY <1>1, <2>1, <2>2, <2>4
  <2> QED
    BY <2>3, <2>4
<1> QED
  BY <1>3, <1>4, <1>5 DEF WaitersWait

\* The operations that wait for x wait for its chat.
LEMMA WaitersOf ==
    ASSUME FlightInv, NEW j \in Jobs, NEW i \in Jobs, ent[j].st # "out", ent[i].st # "out", ent[i].x = ent[j].x
    PROVE  ent[i].key = ent[j].key
BY Types DEF FlightInv, HoldsLive

\* The permit goes from j to h, which leaves the line.
LEMMA Passed ==
    ASSUME FlightInv, NEW j \in Jobs, NEW h \in Jobs, NEW k \in Keys, NEW x \in Flights, NEW r \in Seq(Jobs),
           Owns(j), ent[j].key = k, flights[k] = x, ent[h].st = "wait", ent[h].x = x, ent[h].key = k,
           flights' = flights, owned' = owned,
           waiters' = [waiters EXCEPT ![x] = r], Loses(waiters[x], h, r),
           ent' \in [Jobs -> Entry], ent'[j].st = "out",
           ent'[h].st = "granted", ent'[h].key = k, ent'[h].x = x,
           \A i \in Jobs \ {j, h} : ent'[i] = ent[i]
    PROVE  FlightInv'
<1>0. FlightType /\ HoldsLive /\ OwnedOnce /\ WaitersWait
  BY DEF FlightInv
<1>a. NoFlight \notin Flights /\ j # h /\ ent[j].st # "wait"
  BY FlightAssumption DEF Owns
<1>1. FlightType'
  BY <1>0 DEF FlightType
<1>2. HoldsLive'
  <2>1. ASSUME NEW i \in Jobs, ent'[i].st # "out"
        PROVE  ent'[i].x # NoFlight /\ flights'[ent'[i].key] = ent'[i].x
    <3>1. CASE i = h
      BY <1>a, <3>1
    <3>2. CASE i # h
      <4>1. ent'[i] = ent[i]
        BY <2>1, <3>2
      <4> QED
        BY <1>0, <2>1, <4>1 DEF HoldsLive
    <3> QED
      BY <3>1, <3>2
  <2> QED
    BY <1>0, <2>1 DEF HoldsLive
<1>3. \A o \in Jobs : Owns(o)' => o = h \/ (ent'[o] = ent[o] /\ o # j /\ Owns(o))
  BY DEF Owns
<1>4. \A o \in Jobs : Owns(o)' /\ ent'[o].key = k => o = h
  <2> SUFFICES ASSUME NEW o \in Jobs, Owns(o)', ent'[o].key = k, o # h PROVE FALSE
    OBVIOUS
  <2>1. ent'[o] = ent[o] /\ o # j /\ Owns(o)
    BY <1>3
  <2> QED
    BY <1>0, <2>1 DEF OwnedOnce
<1>5. OwnedOnce'
  <2>1. ASSUME NEW l \in Keys, flights'[l] # NoFlight
        PROVE  owned'[flights'[l]] /\ \E i \in Jobs : ent'[i].key = l /\ Owns(i)'
    <3>1. owned[flights[l]]
      BY <1>0, <2>1 DEF OwnedOnce
    <3>2. CASE l = k
      BY <3>1, <3>2 DEF Owns
    <3>3. CASE l # k
      <4>1. PICK i \in Jobs : ent[i].key = l /\ Owns(i)
        BY <1>0, <2>1 DEF OwnedOnce
      <4>2. i \in Jobs \ {j, h}
        BY <3>3, <4>1
      <4> QED
        BY <3>1, <4>1, <4>2 DEF Owns
    <3> QED
      BY <3>2, <3>3
  <2>2. ASSUME NEW i \in Jobs, NEW m \in Jobs, Owns(i)', Owns(m)', ent'[i].key = ent'[m].key
        PROVE  i = m
    <3>1. CASE ent'[i].key = k
      BY <1>4, <2>2, <3>1
    <3>2. CASE ent'[i].key # k
      <4>1. ent'[i] = ent[i] /\ Owns(i) /\ ent'[m] = ent[m] /\ Owns(m)
        BY <1>3, <2>2, <3>2
      <4> QED
        BY <1>0, <2>2, <4>1 DEF OwnedOnce
    <3> QED
      BY <3>1, <3>2
  <2>3. ASSUME NEW y \in Flights, \A l \in Keys : flights'[l] # y
        PROVE  ~owned'[y] /\ waiters'[y] = <<>>
    <3>1. y # x
      BY <2>3
    <3> QED
      BY <1>0, <2>3, <3>1 DEF OwnedOnce, FlightType
  <2> QED
    BY <2>1, <2>2, <2>3 DEF OwnedOnce
<1>6. WaitersWait'
  <2>1. ent'[h].st # "wait" /\ ent'[j].st # "wait" /\ \A i \in Jobs \ {h, j} : ent'[i] = ent[i]
    OBVIOUS
  <2> QED
    BY <1>a, <2>1, LineShorter
<1> QED
  BY <1>1, <1>2, <1>5, <1>6 DEF FlightInv

\* Of chat k's operations, j gives up the permit and h gets it.
Passes(j, k, h) ==
    /\ h \in Jobs \ {j} /\ ent[h].key = k
    /\ ent'[j].st = "out" /\ ent'[h].st = "granted" /\ ent'[h].key = k
    /\ \A i \in Jobs \ {j, h} : ent'[i] = ent[i]

\* The owner leaves and the first in line owns the chat.
LEMMA PassOn ==
    ASSUME FlightInv, NEW j \in Jobs, NEW k, NEW x, NEW h, k = ent[j].key, x = ent[j].x, h = Head(waiters[x]),
           Owns(j), waiters[x] # <<>>, flights' = flights, owned' = owned,
           waiters' = [waiters EXCEPT ![x] = Tail(@)],
           ent' = [ent EXCEPT ![j] = Out(k), ![h].st = "granted"]
    PROVE  FlightInv' /\ Passes(j, k, h)
<1>0. FlightType /\ HoldsLive /\ OwnedOnce /\ WaitersWait
  BY DEF FlightInv
<1>a. k \in Keys /\ x \in Flights /\ flights[k] = x /\ ent[j].st # "out"
  BY <1>0, Types DEF HoldsLive, Owns
<1>b. /\ h \in Jobs /\ 1 \in DOMAIN waiters[x] /\ h = waiters[x][1]
      /\ Tail(waiters[x]) \in Seq(Jobs) /\ Loses(waiters[x], h, Tail(waiters[x]))
  <2>1. waiters[x] \in Seq(Jobs) /\ \A i, m \in DOMAIN waiters[x] : waiters[x][i] = waiters[x][m] => i = m
    BY <1>0, <1>a DEF FlightType, WaitersWait
  <2> QED
    BY <2>1, TailLoses
<1>c. ent[h].st = "wait" /\ ent[h].x = x /\ h # j /\ ent[h] \in Entry
  BY <1>0, <1>a, <1>b, Types DEF WaitersWait, Owns
<1>d. ent[h].key = k
  BY <1>a, <1>b, <1>c, WaitersOf
<1>e. Out(k) \in Entry /\ Out(k).st = "out"
  BY <1>a DEF Out, Entry
<1>1. /\ ent'[j] = Out(k) /\ ent'[h] = [ent[h] EXCEPT !.st = "granted"]
      /\ \A i \in Jobs \ {j, h} : ent'[i] = ent[i]
  BY <1>0, <1>b, <1>c DEF FlightType
<1>f. PICK g : g = [ent[h] EXCEPT !.st = "granted"]
  OBVIOUS
<1>g. g \in Entry /\ g.st = "granted" /\ g.key = k /\ g.x = x
  <2>1. ASSUME NEW w \in Entry PROVE /\ [w EXCEPT !.st = "granted"] \in Entry /\ [w EXCEPT !.st = "granted"].st = "granted"
                                     /\ [w EXCEPT !.st = "granted"].key = w.key /\ [w EXCEPT !.st = "granted"].x = w.x
    BY DEF Entry
  <2> QED
    BY <1>c, <1>d, <1>f, <2>1
<1>2. /\ ent'[h] \in Entry /\ ent'[h].st = "granted" /\ ent'[h].key = k /\ ent'[h].x = x
      /\ ent'[j].st = "out"
  BY <1>1, <1>e, <1>f, <1>g
<1>3. ent' \in [Jobs -> Entry]
  <2>1. ent' = [i \in Jobs |-> ent'[i]]
    BY <1>0 DEF FlightType
  <2>2. \A i \in Jobs : ent'[i] \in Entry
    BY <1>1, <1>2, <1>e, Types
  <2> QED
    BY <2>1, <2>2
<1>4. PICK r \in Seq(Jobs) : waiters' = [waiters EXCEPT ![x] = r] /\ Loses(waiters[x], h, r)
  BY <1>b
<1>5. FlightInv'
  BY <1>a, <1>b, <1>c, <1>d, <1>1, <1>2, <1>3, <1>4, Passed
<1>6. Passes(j, k, h)
  BY <1>b, <1>c, <1>d, <1>1, <1>2 DEF Passes
<1> QED
  BY <1>5, <1>6

\* A waiter gives up: it leaves the line, and the owner keeps the object in the map.
LEMMA GiveUpStep ==
    ASSUME FlightInv, NEW j \in Jobs, GiveUp(j)
    PROVE  /\ FlightInv' /\ flights' = flights /\ owned' = owned
           /\ waiters' = [waiters EXCEPT ![ent[j].x] = Without(@, j)]
           /\ ent'[j].st = "out" /\ \A i \in Jobs \ {j} : ent'[i] = ent[i]
<1>0. FlightType /\ HoldsLive /\ OwnedOnce /\ WaitersWait
  BY DEF FlightInv
<1>1. PICK x \in Flights : x = ent[j].x
  BY Types DEF GiveUp
<1>2. PICK k \in Keys : k = ent[j].key
  BY Types
<1>3. flights[k] = x /\ owned[x] /\ ent[j].st = "wait"
  BY <1>0, <1>1, <1>2, FlightAssumption DEF GiveUp, HoldsLive, OwnedOnce
<1>4. /\ flights' = flights /\ owned' = owned /\ waiters' = [waiters EXCEPT ![x] = Without(waiters[x], j)]
      /\ ent' = [ent EXCEPT ![j] = Out(k)]
  BY <1>1, <1>2, <1>3 DEF GiveUp
<1>5. Out(k) \in Entry /\ Out(k).st = "out"
  BY DEF Out, Entry
<1>6. ent'[j].st = "out" /\ \A i \in Jobs \ {j} : ent'[i] = ent[i]
  BY <1>0, <1>4, <1>5 DEF FlightType
<1>7. Without(waiters[x], j) \in Seq(Jobs) /\ Loses(waiters[x], j, Without(waiters[x], j))
  <2>1. waiters[x] \in Seq(Jobs) /\ \A i, m \in DOMAIN waiters[x] : waiters[x][i] = waiters[x][m] => i = m
    BY <1>0 DEF FlightType, WaitersWait
  <2>2. PICK n \in DOMAIN waiters[x] : waiters[x][n] = j
    BY <1>0, <1>1, <1>3 DEF WaitersWait
  <2>3. /\ Without(waiters[x], waiters[x][n]) \in Seq(Jobs)
        /\ Loses(waiters[x], waiters[x][n], Without(waiters[x], waiters[x][n]))
    BY <2>1, WithoutLoses
  <2> QED
    BY <2>2, <2>3
<1>8. FlightType'
  <2>1. waiters' \in [Flights -> Seq(Jobs)]
    BY <1>0, <1>4, <1>7 DEF FlightType
  <2>2. ent' \in [Jobs -> Entry]
    BY <1>0, <1>4, <1>5 DEF FlightType
  <2> QED
    BY <1>0, <1>4, <2>1, <2>2 DEF FlightType
<1>9. HoldsLive'
  BY <1>0, <1>4, <1>6 DEF HoldsLive
<1>10. OwnedOnce'
  <2>1. \A i \in Jobs : (Owns(i)' <=> Owns(i)) /\ (Owns(i) => ent'[i] = ent[i])
    BY <1>3, <1>6 DEF Owns
  <2>2. \A y \in Flights : (\A l \in Keys : flights'[l] # y) => ~owned'[y] /\ waiters'[y] = <<>>
    <3> SUFFICES ASSUME NEW y \in Flights, \A l \in Keys : flights'[l] # y
                 PROVE  ~owned'[y] /\ waiters'[y] = <<>>
      OBVIOUS
    <3>1. y # x
      BY <1>3, <1>4
    <3> QED
      BY <1>0, <1>4, <3>1 DEF OwnedOnce, FlightType
  <2> QED
    BY <1>0, <1>4, <2>1, <2>2 DEF OwnedOnce
<1>11. WaitersWait'
  BY <1>1, <1>3, <1>4, <1>6, <1>7, LineShorter
<1>12. waiters' = [waiters EXCEPT ![ent[j].x] = Without(@, j)]
  BY <1>1, <1>4
<1> QED
  BY <1>4, <1>6, <1>8, <1>9, <1>10, <1>11, <1>12 DEF FlightInv

\* enter, up to the unlock.
LEMMA EnterStep ==
    ASSUME FlightInv, NEW j \in Jobs, NEW k \in Keys, Enter(j, k)
    PROVE  FlightInv'
<1>1. PICK x \in Flights : x = Found(k) /\ (flights[k] = NoFlight => Unused(x))
  BY DEF Enter
<1>2. /\ ~owned[x] /\ waiters[x] = <<>> <=> flights[k] = NoFlight
      /\ flights[k] # NoFlight => x = flights[k]
      /\ flights[k] = NoFlight => (\A l \in Keys : flights[l] # x) /\ (\A i \in Jobs : ent[i].x # x)
  BY <1>1, FoundFree
<1>3. CASE flights[k] = NoFlight
  <2>1. /\ flights' = [flights EXCEPT ![k] = x] /\ owned' = [owned EXCEPT ![x] = TRUE] /\ waiters' = waiters
        /\ ent' = [ent EXCEPT ![j] = [key |-> k, x |-> x, st |-> "granted"]] /\ ent[j].st = "out"
    BY <1>1, <1>2, <1>3 DEF Enter
  <2> QED
    BY <1>2, <1>3, <2>1, EnterFree
<1>4. CASE flights[k] # NoFlight
  <2>1. /\ flights' = [flights EXCEPT ![k] = x] /\ owned' = owned
        /\ waiters' = [waiters EXCEPT ![x] = Append(@, j)]
        /\ ent' = [ent EXCEPT ![j] = [key |-> k, x |-> x, st |-> "wait"]] /\ ent[j].st = "out"
    BY <1>1, <1>2, <1>4 DEF Enter
  <2>2. flights' = flights
    BY <1>2, <1>4, <2>1 DEF FlightInv, FlightType
  <2> QED
    BY <1>2, <1>4, <2>1, <2>2, EnterWait
<1> QED
  BY <1>3, <1>4

LEMMA NoticeStep ==
    ASSUME FlightInv, NEW j \in Jobs, Notice(j)
    PROVE  /\ FlightInv' /\ UNCHANGED <<flights, owned, waiters>>
           /\ \A i \in Jobs : ent'[i].key = ent[i].key /\ (Owns(i)' <=> Owns(i))
<1>0. FlightType /\ HoldsLive /\ OwnedOnce /\ WaitersWait /\ \A i \in Jobs : ent[i] \in Entry
  BY Types DEF FlightInv
<1>1. ent[j].st = "granted" /\ ent' = [ent EXCEPT ![j].st = "in"] /\ UNCHANGED <<flights, owned, waiters>>
  BY DEF Notice
<1>2. /\ \A i \in Jobs : ent'[i].key = ent[i].key /\ ent'[i].x = ent[i].x
      /\ ent'[j].st = "in" /\ \A i \in Jobs \ {j} : ent'[i].st = ent[i].st
  BY <1>0, <1>1 DEF FlightType, Entry
<1>3. FlightType'
  BY <1>0, <1>1 DEF FlightType, Entry
<1>4. \A i \in Jobs : /\ Owns(i)' <=> Owns(i)
                      /\ ent'[i].st = "out" <=> ent[i].st = "out"
                      /\ ent'[i].st = "wait" <=> ent[i].st = "wait"
  BY <1>1, <1>2 DEF Owns
<1>5. HoldsLive'
  BY <1>0, <1>1, <1>2, <1>4 DEF HoldsLive
<1>6. OwnedOnce'
  BY <1>0, <1>1, <1>2, <1>4 DEF OwnedOnce
<1>7. WaitersWait'
  <2>1. \A x \in Flights : \A n \in DOMAIN waiters[x] : waiters[x][n] \in Jobs
    BY Types
  <2>2. ASSUME NEW i \in Jobs, ent'[i].st = "wait"
        PROVE  \E n \in DOMAIN waiters'[ent'[i].x] : waiters'[ent'[i].x][n] = i
    <3>1. \E n \in DOMAIN waiters[ent[i].x] : waiters[ent[i].x][n] = i
      BY <1>0, <1>4, <2>2 DEF WaitersWait
    <3> QED
      BY <1>1, <1>2, <3>1
  <2>3. ASSUME NEW x \in Flights, NEW n \in DOMAIN waiters'[x]
        PROVE  ent'[waiters'[x][n]].st = "wait" /\ ent'[waiters'[x][n]].x = x
    <3>1. waiters[x][n] \in Jobs /\ ent[waiters[x][n]].st = "wait" /\ ent[waiters[x][n]].x = x
      BY <1>0, <1>1, <2>1, <2>3 DEF WaitersWait
    <3> QED
      BY <1>1, <1>2, <1>4, <3>1
  <2> QED
    BY <1>0, <1>1, <2>2, <2>3 DEF WaitersWait
<1> QED
  BY <1>1, <1>2, <1>3, <1>4, <1>5, <1>6, <1>7 DEF FlightInv

LEMMA HandOverStep ==
    ASSUME FlightInv, NEW j \in Jobs, Owns(j), HandOver(j)
    PROVE  FlightInv'
<1>1. CASE waiters[ent[j].x] = <<>>
  BY <1>1, DropLast DEF HandOver
<1>2. CASE waiters[ent[j].x] # <<>>
  BY <1>2, PassOn DEF HandOver
<1> QED
  BY <1>1, <1>2

LEMMA FlightStep == FlightInv /\ [FlightNext]_flightVars => FlightInv'
<1> SUFFICES ASSUME FlightInv, [FlightNext]_flightVars PROVE FlightInv'
  OBVIOUS
<1>1. ASSUME NEW j \in Jobs, Release(j) \/ GiveBack(j) PROVE FlightInv'
  BY <1>1, HandOverStep DEF Release, GiveBack, Owns
<1>2. CASE UNCHANGED flightVars
  BY <1>2 DEF flightVars, FlightInv, FlightType, HoldsLive, OwnedOnce, WaitersWait, Owns
<1> QED
  BY <1>1, <1>2, EnterStep, NoticeStep, GiveUpStep DEF FlightNext

\* What keyedFlight's state looks like in every reachable state.
LEMMA FlightInvariant == FlightSpec => []FlightInv
BY InitFlight, FlightStep, PTL DEF FlightSpec

\* Two operations never own one chat at a time, although the grant, the notice
\* of it and a cancelled context race, and release drops the object by key.
THEOREM OneOwner == FlightSpec => []Exclusive
<1>1. FlightInv => Exclusive
  BY DEF FlightInv, OwnedOnce, Owns, Exclusive
<1> QED
  BY <1>1, FlightInvariant, PTL

-----------------------------------------------------------------------------
(***************************************************************************)
(* The line of a chat: its owner in front of those who wait.               *)
(***************************************************************************)

Front(a, q) == <<a>> \o q

Behind(f, a, q) == Len(f) = Len(q) + 1 /\ f[1] = a /\ \A i \in 1..Len(q) : f[i + 1] = q[i]

LEMMA FrontIs ==
    ASSUME NEW S, NEW a \in S, NEW q \in Seq(S)
    PROVE  Front(a, q) \in Seq(S) /\ Behind(Front(a, q), a, q)
<1>1. <<a>> \in Seq(S) /\ Len(<<a>>) = 1 /\ <<a>>[1] = a /\ Len(q) \in Nat
  OBVIOUS
<1>2. PICK s : s = <<a>>
  OBVIOUS
<1>3. s \in Seq(S) /\ Len(s) = 1 /\ s[1] = a
  BY <1>1, <1>2
<1>4. /\ s \o q \in Seq(S) /\ Len(s \o q) = Len(s) + Len(q)
      /\ \A i \in 1..(Len(s) + Len(q)) : (s \o q)[i] = IF i <= Len(s) THEN s[i] ELSE q[i - Len(s)]
  BY <1>3, ConcatProperties, Zenon
<1>5. Front(a, q) = s \o q
  BY <1>2 DEF Front
<1> DEFINE f == Front(a, q)
<1>6. /\ f \in Seq(S) /\ Len(f) = 1 + Len(q)
      /\ \A i \in 1..(1 + Len(q)) : f[i] = IF i <= 1 THEN s[i] ELSE q[i - 1]
  BY <1>3, <1>4, <1>5
<1> HIDE DEF f
<1>7. ASSUME NEW i \in 1..Len(q) PROVE f[i + 1] = q[i]
  <2>1. i + 1 \in 1..(1 + Len(q)) /\ ~(i + 1 <= 1) /\ (i + 1) - 1 = i
    BY <1>1
  <2> QED
    BY <1>6, <2>1
<1>8. f[1] = a
  BY <1>1, <1>3, <1>6
<1> QED
  BY <1>1, <1>6, <1>7, <1>8 DEF f, Behind

\* An operation that joins is the last, an owner that leaves makes room for the
\* others, and a waiter that leaves keeps them in order.
LEMMA FrontAppend ==
    ASSUME NEW S, NEW a \in S, NEW q \in Seq(S), NEW b \in S
    PROVE  Front(a, Append(q, b)) = Append(Front(a, q), b)
<1>1. PICK p : p = Append(q, b)
  OBVIOUS
<1>2. /\ p \in Seq(S) /\ Len(p) = Len(q) + 1 /\ p[Len(q) + 1] = b /\ \A i \in 1..Len(q) : p[i] = q[i]
      /\ Len(q) \in Nat
  BY <1>1
<1>3. PICK f : f = Front(a, q)
  OBVIOUS
<1>4. f \in Seq(S) /\ Len(f) = Len(q) + 1 /\ f[1] = a /\ \A i \in 1..Len(q) : f[i + 1] = q[i]
  <2>1. f \in Seq(S) /\ Behind(f, a, q)
    BY <1>3, FrontIs
  <2> QED
    BY <2>1 DEF Behind
<1>5. PICK g : g = Append(f, b)
  OBVIOUS
<1>6. g \in Seq(S) /\ Len(g) = Len(q) + 2 /\ g[Len(q) + 2] = b /\ \A i \in 1..(Len(q) + 1) : g[i] = f[i]
  BY <1>2, <1>4, <1>5
<1>7. PICK h : h = Front(a, p)
  OBVIOUS
<1>8. h \in Seq(S) /\ Len(h) = Len(p) + 1 /\ h[1] = a /\ \A i \in 1..Len(p) : h[i + 1] = p[i]
  <2>1. h \in Seq(S) /\ Behind(h, a, p)
    BY <1>2, <1>7, FrontIs
  <2> QED
    BY <2>1 DEF Behind
<1>9. ASSUME NEW i \in 1..Len(h) PROVE h[i] = g[i]
  <2>1. CASE i = 1
    BY <1>2, <1>4, <1>6, <1>8, <2>1
  <2>2. CASE i # 1
    <3>1. i - 1 \in 1..Len(p) /\ (i - 1) + 1 = i
      BY <1>2, <1>8, <2>2
    <3>2. h[i] = p[i - 1]
      BY <1>8, <3>1
    <3>3. CASE i - 1 \in 1..Len(q)
      <4>1. p[i - 1] = q[i - 1] /\ f[(i - 1) + 1] = q[i - 1]
        BY <1>2, <1>4, <3>3
      <4>2. i \in 1..(Len(q) + 1)
        BY <1>2, <3>1, <3>3
      <4> QED
        BY <1>6, <3>1, <3>2, <4>1, <4>2
    <3>4. CASE i = Len(q) + 2
      BY <1>2, <1>6, <3>2, <3>4
    <3> QED
      BY <1>2, <3>1, <3>3, <3>4
  <2> QED
    BY <2>1, <2>2
<1>10. h = g
  <2>1. Len(h) = Len(g)
    BY <1>2, <1>6, <1>8
  <2> QED
    BY <1>6, <1>8, <1>9, <2>1, SeqEqual
<1> QED
  BY <1>1, <1>3, <1>5, <1>7, <1>10

LEMMA CutFirst ==
    ASSUME NEW S, NEW a \in S, NEW q \in Seq(S)
    PROVE  Cut(Front(a, q), 1) = q
<1>1. PICK f : f = Front(a, q)
  OBVIOUS
<1>2. /\ f \in Seq(S) /\ Len(f) = Len(q) + 1 /\ \A i \in 1..Len(q) : f[i + 1] = q[i]
      /\ Len(q) \in Nat
  <2>1. f \in Seq(S) /\ Behind(f, a, q)
    BY <1>1, FrontIs
  <2> QED
    BY <2>1 DEF Behind
<1>3. 1 \in 1..Len(f)
  BY <1>2
<1>4. PICK r : r = Cut(f, 1)
  OBVIOUS
<1>5. /\ r \in Seq(S) /\ Len(r) = Len(f) - 1
      /\ \A i \in 1..(Len(f) - 1) : r[i] = IF i < 1 THEN f[i] ELSE f[i + 1]
  BY <1>2, <1>3, <1>4, Removed
<1>6. Len(r) = Len(q) /\ \A i \in 1..Len(r) : r[i] = q[i]
  BY <1>2, <1>5
<1> QED
  BY <1>1, <1>4, <1>5, <1>6, SeqEqual

LEMMA CutBehind ==
    ASSUME NEW S, NEW a \in S, NEW q \in Seq(S), NEW n \in 1..Len(q)
    PROVE  Cut(Front(a, q), n + 1) = Front(a, Cut(q, n))
<1>1. PICK f : f = Front(a, q)
  OBVIOUS
<1>2. /\ f \in Seq(S) /\ Len(f) = Len(q) + 1 /\ f[1] = a /\ \A i \in 1..Len(q) : f[i + 1] = q[i]
      /\ Len(q) \in Nat
  <2>1. f \in Seq(S) /\ Behind(f, a, q)
    BY <1>1, FrontIs
  <2> QED
    BY <2>1 DEF Behind
<1>3. n + 1 \in 1..Len(f)
  BY <1>2
<1>4. PICK r : r = Cut(f, n + 1)
  OBVIOUS
<1>5. /\ r \in Seq(S) /\ Len(r) = Len(f) - 1
      /\ \A i \in 1..(Len(f) - 1) : r[i] = IF i < n + 1 THEN f[i] ELSE f[i + 1]
  BY <1>2, <1>3, <1>4, Removed
<1>6. PICK c : c = Cut(q, n)
  OBVIOUS
<1>7. /\ c \in Seq(S) /\ Len(c) = Len(q) - 1
      /\ \A i \in 1..(Len(q) - 1) : c[i] = IF i < n THEN q[i] ELSE q[i + 1]
  BY <1>6, Removed
<1>8. PICK h : h = Front(a, c)
  OBVIOUS
<1>9. h \in Seq(S) /\ Len(h) = Len(c) + 1 /\ h[1] = a /\ \A i \in 1..Len(c) : h[i + 1] = c[i]
  <2>1. h \in Seq(S) /\ Behind(h, a, c)
    BY <1>7, <1>8, FrontIs
  <2> QED
    BY <2>1 DEF Behind
<1>10. Len(r) = Len(q) /\ Len(h) = Len(q)
  BY <1>2, <1>5, <1>7, <1>9
<1>11. ASSUME NEW i \in 1..Len(r) PROVE r[i] = h[i]
  <2>1. CASE i = 1
    BY <1>2, <1>5, <1>9, <1>10, <2>1
  <2>2. CASE i # 1
    <3>1. i - 1 \in 1..(Len(q) - 1) /\ (i - 1) + 1 = i /\ i \in 1..Len(q) /\ i - 1 \in 1..Len(q)
      BY <1>2, <1>10, <2>2
    <3>2. h[i] = c[i - 1]
      BY <1>7, <1>9, <3>1
    <3>3. c[i - 1] = IF i - 1 < n THEN q[i - 1] ELSE q[i]
      BY <1>7, <3>1
    <3>4. r[i] = IF i < n + 1 THEN f[i] ELSE f[i + 1]
      BY <1>2, <1>5, <3>1
    <3>5. f[i] = q[i - 1] /\ f[i + 1] = q[i]
      BY <1>2, <3>1
    <3> QED
      BY <3>1, <3>2, <3>3, <3>4, <3>5
  <2> QED
    BY <2>1, <2>2
<1>12. r = h
  BY <1>5, <1>9, <1>10, <1>11, SeqEqual
<1> QED
  BY <1>1, <1>4, <1>6, <1>8, <1>12

-----------------------------------------------------------------------------
(***************************************************************************)
(* The refinement: every step is one of ChatPermit or leaves the lines.    *)
(***************************************************************************)

\* The owner is the head of its chat's line, before a step and after it.
LEMMA LineOf ==
    ASSUME FlightInv, NEW k \in Keys, NEW j \in Jobs, Owns(j), ent[j].key = k
    PROVE  flights[k] \in Flights /\ waiters[flights[k]] \in Seq(Jobs) /\ Line[k] = Front(j, waiters[flights[k]])
<1>1. flights[k] \in Flights /\ flights[k] # NoFlight /\ waiters[flights[k]] \in Seq(Jobs)
  BY FlightAssumption, Types DEF FlightInv, HoldsLive, Owns
<1>2. (CHOOSE i \in Jobs : i \in Owners(k)) = j
  <2>1. \A i \in Jobs : i \in Owners(k) <=> i = j
    BY DEF FlightInv, OwnedOnce, Owners, Owns
  <2> QED
    BY <2>1
<1> QED
  BY <1>1, <1>2 DEF Line, Front

LEMMA LineOfNext ==
    ASSUME FlightInv', NEW k \in Keys, NEW j \in Jobs, Owns(j)', ent'[j].key = k
    PROVE  flights'[k] \in Flights /\ waiters'[flights'[k]] \in Seq(Jobs) /\ Line'[k] = Front(j, waiters'[flights'[k]])
<1>1. flights'[k] \in Flights /\ flights'[k] # NoFlight /\ waiters'[flights'[k]] \in Seq(Jobs)
  BY FlightAssumption DEF FlightInv, HoldsLive, Owns, FlightType, Entry
<1>2. (CHOOSE i \in Jobs : i \in Owners(k)') = j
  <2>1. \A i \in Jobs : i \in Owners(k)' <=> i = j
    BY DEF FlightInv, OwnedOnce, Owners, Owns
  <2> QED
    BY <2>1
<1> QED
  BY <1>1, <1>2 DEF Line, Front

\* Whoever is in a line has entered.
LEMMA InLine ==
    ASSUME FlightInv, NEW k \in Keys, NEW n \in 1..Len(Line[k])
    PROVE  Line[k][n] \in Jobs /\ ent[Line[k][n]].st # "out"
<1>1. CASE flights[k] = NoFlight
  <2>1. Line[k] = <<>>
    BY <1>1 DEF Line
  <2> QED
    BY <2>1
<1>2. CASE flights[k] # NoFlight
  <2>1. PICK j \in Jobs : ent[j].key = k /\ Owns(j)
    BY <1>2 DEF FlightInv, OwnedOnce
  <2>2. PICK q \in Seq(Jobs) : q = waiters[flights[k]] /\ flights[k] \in Flights
    BY <2>1, LineOf
  <2>3. PICK f \in Seq(Jobs) : f = Line[k] /\ Behind(f, j, q)
    BY <2>1, <2>2, LineOf, FrontIs
  <2>4. Len(q) \in Nat /\ Len(f) = Len(q) + 1 /\ f[1] = j /\ \A i \in 1..Len(q) : f[i + 1] = q[i]
    BY <2>3 DEF Behind
  <2>5. CASE n = 1
    BY <2>1, <2>3, <2>4, <2>5 DEF Owns
  <2>6. CASE n # 1
    <3>1. n - 1 \in 1..Len(q) /\ (n - 1) + 1 = n
      BY <2>3, <2>4, <2>6
    <3>2. f[n] = q[n - 1] /\ n - 1 \in DOMAIN q
      BY <2>4, <3>1
    <3>3. q[n - 1] \in Jobs /\ ent[q[n - 1]].st = "wait"
      BY <2>2, <3>2, Types DEF FlightInv, WaitersWait
    <3> QED
      BY <2>3, <3>2, <3>3
  <2> QED
    BY <2>5, <2>6
<1> QED
  BY <1>1, <1>2

\* The lines of the other chats.
LEMMA LineKept ==
    ASSUME FlightInv, FlightInv', NEW l \in Keys, flights'[l] = flights[l],
           flights[l] # NoFlight => waiters'[flights[l]] = waiters[flights[l]],
           \A i \in Jobs : Owns(i) /\ ent[i].key = l => Owns(i)' /\ ent'[i].key = l
    PROVE  Line'[l] = Line[l]
<1>1. CASE flights[l] = NoFlight
  BY <1>1 DEF Line
<1>2. CASE flights[l] # NoFlight
  <2>1. PICK i \in Jobs : ent[i].key = l /\ Owns(i)
    BY <1>2 DEF FlightInv, OwnedOnce
  <2>2. Line[l] = Front(i, waiters[flights[l]])
    BY <2>1, LineOf
  <2>3. Line'[l] = Front(i, waiters'[flights'[l]])
    BY <2>1, LineOfNext
  <2> QED
    BY <1>2, <2>2, <2>3
<1> QED
  BY <1>1, <1>2

LEMMA LineChanges ==
    ASSUME NEW k \in Keys, NEW v, Line'[k] = v, \A l \in Keys \ {k} : Line'[l] = Line[l]
    PROVE  Line' = [Line EXCEPT ![k] = v]
<1>1. Line = [l \in Keys |-> Line[l]]
  BY DEF Line
<1>2. Line' = [l \in Keys |-> Line'[l]]
  BY DEF Line
<1> QED
  BY <1>1, <1>2

LEMMA EnterJoins ==
    ASSUME FlightInv, FlightInv', NEW j \in Jobs, NEW k \in Keys, Enter(j, k)
    PROVE  Permit!Join(j, k)
<1>0. ent[j].st = "out" /\ FlightType /\ HoldsLive /\ NoFlight \notin Flights
  BY FlightAssumption DEF Enter, FlightInv
<1>1. PICK x \in Flights : x = Found(k) /\ (flights[k] = NoFlight => Unused(x))
  BY DEF Enter
<1>2. /\ ~owned[x] /\ waiters[x] = <<>> <=> flights[k] = NoFlight
      /\ flights[k] # NoFlight => x = flights[k]
      /\ flights[k] = NoFlight => (\A l \in Keys : flights[l] # x) /\ (\A i \in Jobs : ent[i].x # x)
  BY <1>1, FoundFree
<1>3. PICK st : st \in {"granted", "wait"} /\ ent' = [ent EXCEPT ![j] = [key |-> k, x |-> x, st |-> st]]
                /\ (st = "granted" <=> flights[k] = NoFlight)
  <2>1. CASE flights[k] = NoFlight
    <3>1. ent' = [ent EXCEPT ![j] = [key |-> k, x |-> x, st |-> "granted"]]
      BY <1>1, <1>2, <2>1 DEF Enter
    <3> QED
      BY <2>1, <3>1
  <2>2. CASE flights[k] # NoFlight
    <3>1. ent' = [ent EXCEPT ![j] = [key |-> k, x |-> x, st |-> "wait"]]
      BY <1>1, <1>2, <2>2 DEF Enter
    <3>2. "wait" \in {"granted", "wait"} /\ "wait" # "granted"
      OBVIOUS
    <3>3. WITNESS "wait"
    <3> QED
      BY <2>2, <3>1, <3>2
  <2> QED
    BY <2>1, <2>2
<1>4. /\ flights' = [flights EXCEPT ![k] = x]
      /\ flights[k] = NoFlight => waiters' = waiters
      /\ flights[k] # NoFlight => waiters' = [waiters EXCEPT ![x] = Append(@, j)]
  BY <1>1, <1>2 DEF Enter
<1>5. /\ flights'[k] = x /\ \A l \in Keys \ {k} : flights'[l] = flights[l]
      /\ \A y \in Flights \ {x} : waiters'[y] = waiters[y]
  BY <1>0, <1>4 DEF FlightType
<1>6. ent'[j].st = st /\ ent'[j].key = k /\ \A i \in Jobs \ {j} : ent'[i] = ent[i]
  BY <1>0, <1>3 DEF FlightType
<1>7. ASSUME NEW l \in Keys \ {k} PROVE Line'[l] = Line[l]
  <2>1. flights[l] # NoFlight => flights[l] # x
    BY <1>0, <1>2 DEF HoldsLive
  <2>2. flights[l] # NoFlight => waiters'[flights[l]] = waiters[flights[l]]
    BY <1>5, <2>1, Types
  <2>3. \A i \in Jobs : Owns(i) /\ ent[i].key = l => Owns(i)' /\ ent'[i].key = l
    BY <1>0, <1>6 DEF Owns
  <2> QED
    BY <1>5, <2>2, <2>3, LineKept
<1>8. Line'[k] = Append(Line[k], j)
  <2>1. CASE flights[k] = NoFlight
    <3>1. Line[k] = <<>>
      BY <2>1 DEF Line
    <3>2. Line'[k] = Front(j, waiters'[x])
      BY <1>3, <1>5, <1>6, <2>1, LineOfNext DEF Owns
    <3>3. waiters'[x] = <<>>
      BY <1>2, <1>4, <2>1
    <3>4. Front(j, <<>>) = Append(<<>>, j)
      BY DEF Front
    <3> QED
      BY <3>1, <3>2, <3>3, <3>4
  <2>2. CASE flights[k] # NoFlight
    <3>1. PICK o \in Jobs : ent[o].key = k /\ Owns(o)
      BY <2>2 DEF FlightInv, OwnedOnce
    <3>2. o # j /\ Owns(o)' /\ ent'[o].key = k
      BY <1>0, <1>6, <3>1 DEF Owns
    <3>3. Line[k] = Front(o, waiters[x]) /\ waiters[x] \in Seq(Jobs)
      BY <1>2, <2>2, <3>1, LineOf
    <3>4. Line'[k] = Front(o, waiters'[x])
      BY <1>5, <3>2, LineOfNext
    <3>5. waiters'[x] = Append(waiters[x], j)
      BY <1>0, <1>4, <2>2 DEF FlightType
    <3> QED
      BY <3>3, <3>4, <3>5, FrontAppend
  <2> QED
    BY <2>1, <2>2
<1>9. Line' = [Line EXCEPT ![k] = Append(@, j)]
  BY <1>7, <1>8, LineChanges
<1>10. \A i \in Keys : \A n \in 1..Len(Line[i]) : Line[i][n] # j
  BY <1>0, InLine
<1> QED
  BY <1>9, <1>10 DEF Permit!Join

LEMMA NoticeStutters ==
    ASSUME FlightInv, FlightInv', NEW j \in Jobs, Notice(j)
    PROVE  Line' = Line
<1>1. \A l \in Keys : Line'[l] = Line[l]
  <2>1. /\ UNCHANGED <<flights, owned, waiters>>
        /\ \A i \in Jobs : ent'[i].key = ent[i].key /\ (Owns(i)' <=> Owns(i))
    BY NoticeStep
  <2> QED
    BY <2>1, LineKept
<1>2. Line = [l \in Keys |-> Line[l]] /\ Line' = [l \in Keys |-> Line'[l]]
  BY DEF Line
<1> QED
  BY <1>1, <1>2

\* The owner leaves from the front of the line.
LEMMA HandOverGoes ==
    ASSUME FlightInv, FlightInv', NEW j \in Jobs, Owns(j), HandOver(j)
    PROVE  \E k \in Keys : Permit!Go(j, k)
<1>0. FlightType /\ HoldsLive /\ OwnedOnce /\ ent[j].st # "out"
  BY DEF FlightInv, Owns
<1>1. PICK k \in Keys : k = ent[j].key
  BY Types
<1>2. PICK x \in Flights : x = ent[j].x /\ flights[k] = x
  BY <1>0, <1>1, Types DEF HoldsLive
<1>3. PICK q \in Seq(Jobs) : q = waiters[x] /\ Line[k] = Front(j, q)
  BY <1>1, <1>2, LineOf
<1>4. PICK f \in Seq(Jobs) : f = Line[k] /\ Behind(f, j, q)
  BY <1>3, FrontIs
<1>5. 1 \in 1..Len(f) /\ f[1] = j
  BY <1>4 DEF Behind
<1>6. Cut(f, 1) = q
  BY <1>3, <1>4, CutFirst
<1>7. CASE q = <<>>
  <2>1. flights' = [flights EXCEPT ![k] = NoFlight] /\ waiters' = waiters /\ ent' = [ent EXCEPT ![j] = Out(k)]
    BY <1>1, <1>2, <1>3, <1>7 DEF HandOver
  <2>2. flights'[k] = NoFlight /\ \A l \in Keys \ {k} : flights'[l] = flights[l]
    BY <1>0, <2>1 DEF FlightType
  <2>3. \A i \in Jobs \ {j} : ent'[i] = ent[i]
    BY <1>0, <2>1 DEF FlightType
  <2>4. Line'[k] = q
    BY <1>7, <2>2 DEF Line
  <2>5. ASSUME NEW l \in Keys \ {k} PROVE Line'[l] = Line[l]
    <3>1. \A i \in Jobs : Owns(i) /\ ent[i].key = l => Owns(i)' /\ ent'[i].key = l
      BY <1>1, <2>3 DEF Owns
    <3> QED
      BY <2>1, <2>2, <3>1, LineKept
  <2>6. Line' = [Line EXCEPT ![k] = Cut(@, 1)]
    BY <1>4, <1>6, <2>4, <2>5, LineChanges
  <2> QED
    BY <1>4, <1>5, <2>6 DEF Permit!Go, Permit!Leave, Cut
<1>8. CASE q # <<>>
  <2>1. PICK h : h = Head(q)
    OBVIOUS
  <2>2. /\ flights' = flights /\ owned' = owned /\ waiters' = [waiters EXCEPT ![x] = Tail(@)]
        /\ ent' = [ent EXCEPT ![j] = Out(k), ![h].st = "granted"]
    BY <1>1, <1>2, <1>3, <1>8, <2>1 DEF HandOver
  <2>3. /\ h \in Jobs \ {j} /\ ent[h].key = k
        /\ ent'[j].st = "out" /\ ent'[h].st = "granted" /\ ent'[h].key = k
        /\ \A i \in Jobs \ {j, h} : ent'[i] = ent[i]
    <3> DEFINE g == Head(waiters[ent[j].x])
    <3>1. waiters[ent[j].x] # <<>> /\ g = h
      BY <1>2, <1>3, <1>8, <2>1
    <3>2. Passes(j, ent[j].key, g)
      BY <3>1, PassOn DEF HandOver
    <3> QED
      BY <1>1, <3>1, <3>2 DEF Passes
  <2>4. Line'[k] = q
    <3>1. Line'[k] = Front(h, waiters'[x])
      BY <1>2, <2>2, <2>3, LineOfNext DEF Owns
    <3>2. waiters'[x] = Tail(q)
      BY <1>0, <1>3, <2>2 DEF FlightType
    <3>3. Front(Head(q), Tail(q)) = q
      BY <1>8 DEF Front
    <3> QED
      BY <2>1, <3>1, <3>2, <3>3
  <2>5. ASSUME NEW l \in Keys \ {k} PROVE Line'[l] = Line[l]
    <3>1. flights[l] # NoFlight => flights[l] # x
      BY <1>0, <1>2 DEF HoldsLive
    <3>2. flights[l] # NoFlight => waiters'[flights[l]] = waiters[flights[l]]
      BY <1>0, <2>2, <3>1, Types DEF FlightType
    <3>3. \A i \in Jobs : Owns(i) /\ ent[i].key = l => Owns(i)' /\ ent'[i].key = l
      BY <1>1, <2>3 DEF Owns
    <3> QED
      BY <2>2, <3>2, <3>3, LineKept
  <2>6. Line' = [Line EXCEPT ![k] = Cut(@, 1)]
    BY <1>4, <1>6, <2>4, <2>5, LineChanges
  <2> QED
    BY <1>4, <1>5, <2>6 DEF Permit!Go, Permit!Leave, Cut
<1> QED
  BY <1>7, <1>8

\* A waiter leaves from its place.
LEMMA GiveUpGoes ==
    ASSUME FlightInv, FlightInv', NEW j \in Jobs, GiveUp(j)
    PROVE  \E k \in Keys : Permit!Go(j, k)
<1>0. FlightType /\ HoldsLive /\ OwnedOnce /\ WaitersWait /\ ent[j].st = "wait"
  BY DEF FlightInv, GiveUp
<1>1. PICK k \in Keys : k = ent[j].key
  BY Types
<1>2. PICK x \in Flights : x = ent[j].x /\ flights[k] = x /\ flights[k] # NoFlight
  BY <1>0, <1>1, Types DEF HoldsLive
<1>3. PICK o \in Jobs : ent[o].key = k /\ Owns(o)
  BY <1>0, <1>2 DEF OwnedOnce
<1>4. PICK q \in Seq(Jobs) : q = waiters[x] /\ Line[k] = Front(o, q)
  BY <1>2, <1>3, LineOf
<1>5. PICK n \in DOMAIN q : q[n] = j
  BY <1>0, <1>2, <1>4 DEF WaitersWait
<1>6. n \in 1..Len(q) /\ Len(q) \in Nat /\ DOMAIN q = 1..Len(q)
  BY <1>5
<1>7. PICK f \in Seq(Jobs) : f = Line[k] /\ Behind(f, o, q)
  BY <1>4, FrontIs
<1>8. n + 1 \in 1..Len(f) /\ f[n + 1] = j
  BY <1>5, <1>6, <1>7 DEF Behind
<1>9. Without(q, j) = Cut(q, n)
  <2>1. \A m \in 1..Len(q) : q[m] = q[n] => m = n
    BY <1>0, <1>4, <1>6 DEF WaitersWait
  <2>2. Without(q, q[n]) = Cut(q, n)
    BY <1>6, <2>1, WithoutOne
  <2> QED
    BY <1>5, <2>2
<1>10. /\ flights' = flights /\ owned' = owned /\ waiters' = [waiters EXCEPT ![x] = Without(@, j)]
       /\ ent'[j].st = "out" /\ \A i \in Jobs \ {j} : ent'[i] = ent[i]
  BY <1>2, GiveUpStep
<1>11. Line'[k] = Cut(f, n + 1)
  <2>1. o # j /\ Owns(o)' /\ ent'[o].key = k
    BY <1>0, <1>3, <1>10 DEF Owns
  <2>2. Line'[k] = Front(o, waiters'[x])
    BY <1>2, <1>10, <2>1, LineOfNext
  <2>3. waiters'[x] = Cut(q, n)
    BY <1>0, <1>4, <1>9, <1>10 DEF FlightType
  <2> QED
    BY <1>4, <1>6, <1>7, <2>2, <2>3, CutBehind
<1>12. ASSUME NEW l \in Keys \ {k} PROVE Line'[l] = Line[l]
  <2>1. flights[l] # NoFlight => flights[l] # x
    BY <1>0, <1>2 DEF HoldsLive
  <2>2. flights[l] # NoFlight => waiters'[flights[l]] = waiters[flights[l]]
    BY <1>0, <1>10, <2>1, Types DEF FlightType
  <2>3. \A i \in Jobs : Owns(i) /\ ent[i].key = l => Owns(i)' /\ ent'[i].key = l
    BY <1>0, <1>10 DEF Owns
  <2> QED
    BY <1>10, <2>2, <2>3, LineKept
<1>13. Line' = [Line EXCEPT ![k] = Cut(@, n + 1)]
  BY <1>7, <1>11, <1>12, LineChanges
<1> QED
  BY <1>7, <1>8, <1>13 DEF Permit!Go, Permit!Leave, Cut

LEMMA StepRefines == FlightInv /\ FlightInv' /\ [FlightNext]_flightVars => [Permit!Next]_Line
<1> SUFFICES ASSUME FlightInv, FlightInv', [FlightNext]_flightVars PROVE [Permit!Next]_Line
  OBVIOUS
<1>1. ASSUME NEW j \in Jobs, NEW k \in Keys, Enter(j, k) PROVE Permit!Next
  BY <1>1, EnterJoins DEF Permit!Next
<1>2. ASSUME NEW j \in Jobs, Release(j) \/ GiveBack(j) PROVE Permit!Next
  BY <1>2, HandOverGoes DEF Release, GiveBack, Owns, Permit!Next
<1>3. ASSUME NEW j \in Jobs, GiveUp(j) PROVE Permit!Next
  BY <1>3, GiveUpGoes DEF Permit!Next
<1>4. CASE UNCHANGED flightVars
  BY <1>4 DEF flightVars, Line, Owners
<1> QED
  BY <1>1, <1>2, <1>3, <1>4, NoticeStutters DEF FlightNext

\* The map of flight objects, the grants that race with cancelled contexts and the
\* removal by key implement the FIFO permit that EnterChat and EnqueueChat promise.
THEOREM FlightImplementsPermit == FlightSpec => PermitSpec
<1>1. FlightInit => Permit!Init
  BY DEF FlightInit, Permit!Init, Line
<1>2. FlightInv /\ FlightInv' /\ [FlightNext]_flightVars => [Permit!Next]_Line
  BY StepRefines
<1> QED
  BY <1>1, <1>2, FlightInvariant, PTL DEF FlightSpec, PermitSpec, Permit!Spec

-----------------------------------------------------------------------------
(***************************************************************************)
(* The manager: the invariant.  Of the records it says what fields they    *)
(* have and what of them the results need.                                 *)
(***************************************************************************)

JobFields ==
    {"kind", "chat", "pc", "ver", "sg", "ex", "s", "try", "only", "fresh", "got", "rs", "ok"}
SesFields == {"chat", "route", "ep", "path", "st", "closing", "held", "checked"}
MgrFields ==
    {"byChat", "byRoute", "cleanup", "retired", "retiring", "invalid", "slotGen", "closed",
     "fence", "slots", "refused"}
OpFields == {"id", "chat", "path", "owner", "tries", "rt"}
TodoFields == {"n", "kind", "chat", "open", "stored", "limit", "mute", "held"}

\* Every operation is about a chat.
JobsShaped == DOMAIN job = Jobs /\ \A j \in Jobs : DOMAIN job[j] = JobFields /\ job[j].chat \in Keys

\* Sessions are numbered as they are created, each for a chat.
SesShaped(t) ==
    /\ \E n \in Nat : DOMAIN t = 1..n
    /\ \A s \in DOMAIN t : DOMAIN t[s] = SesFields /\ t[s].chat \in Keys

\* The manager knows sessions that exist.
MgrShaped(m, t) ==
    /\ DOMAIN m = MgrFields /\ DOMAIN m.byChat = Keys /\ DOMAIN m.fence = Keys
    /\ \A c \in Keys : m.byChat[c] \in DOMAIN t \cup {None}

NotesShaped == \A n \in notes : n.t = "again" => n.s \in DOMAIN ses

Shaped ==
    /\ JobsShaped /\ SesShaped(ses) /\ MgrShaped(mgr, ses) /\ NotesShaped
    /\ DOMAIN todo = TodoFields /\ todo.limit \in Nat /\ last \in Nat

\* Where an operation waits for its open_session.
Opening == {"opening", "leaving"}

\* An operation that waits for its open has it, alone, and it is in a slot.
OpsOwned ==
    /\ \A o \in ops : DOMAIN o = OpFields /\ o.id \in Nat /\ o.id <= last
    /\ \A o, p \in ops : o.id = p.id => o = p
    /\ \A j \in Jobs : job[j].pc \in Opening => \E o \in ops : o.id = job[j].got[1] /\ o.owner = "job"
    /\ \A i, j \in Jobs : job[i].pc \in Opening /\ job[j].pc \in Opening /\ job[i].got[1] = job[j].got[1] => i = j

ManagerInv == Shaped /\ OpsOwned /\ IsFiniteSet(ops) /\ SlotsAccounted

-----------------------------------------------------------------------------
(***************************************************************************)
(* What a step keeps.                                                      *)
(***************************************************************************)

\* Nobody begins to wait for an open, and who does waits for the same one.
JobsStay ==
    /\ DOMAIN job' = Jobs
    /\ \A i \in Jobs : /\ DOMAIN job'[i] = JobFields /\ job'[i].chat \in Keys
                       /\ job'[i].pc \in Opening => job[i].pc \in Opening /\ job'[i].got = job[i].got

SesStay == SesShaped(ses') /\ DOMAIN ses \subseteq DOMAIN ses'
MgrStay == MgrShaped(mgr', ses') /\ mgr'.fence = mgr.fence /\ mgr'.slots = mgr.slots
TodoStay == DOMAIN todo' = TodoFields /\ todo'.limit = todo.limit
LastStays == last' \in Nat /\ last <= last'

\* A step that opens and ends no open_session.
LEMMA StepStays ==
    ASSUME ManagerInv, JobsStay, SesStay, MgrStay, TodoStay, LastStays, NotesShaped', ops' = ops
    PROVE  ManagerInv'
<1>1. Shaped'
  BY DEF ManagerInv, Shaped, JobsShaped, JobsStay, SesStay, MgrStay, TodoStay, LastStays
<1>2. OpsOwned'
  BY DEF ManagerInv, Shaped, OpsOwned, JobsStay, LastStays
<1>3. SlotsAccounted'
  BY DEF ManagerInv, SlotsAccounted, MgrStay, TodoStay, DetachedOpenLimit, Chats
<1>4. IsFiniteSet(ops')
  BY DEF ManagerInv
<1> QED
  BY <1>1, <1>2, <1>3, <1>4 DEF ManagerInv

LEMMA NotesStay ==
    ASSUME ManagerInv, SesStay, notes' \subseteq notes
    PROVE  NotesShaped'
BY DEF ManagerInv, Shaped, NotesShaped, SesStay

LEMMA JobsSame == ASSUME ManagerInv, job' = job PROVE JobsStay
BY DEF ManagerInv, Shaped, JobsShaped, JobsStay

LEMMA SesSame == ASSUME ManagerInv, ses' = ses PROVE SesStay
BY DEF ManagerInv, Shaped, SesStay

LEMMA MgrSame == ASSUME ManagerInv, SesStay, mgr' = mgr PROVE MgrStay
BY DEF ManagerInv, Shaped, SesStay, MgrStay, MgrShaped

LEMMA TodoSame == ASSUME ManagerInv, todo' = todo PROVE TodoStay
BY DEF ManagerInv, Shaped, TodoStay

LEMMA LastSame == ASSUME ManagerInv, last' = last \/ last' = last + 1 PROVE LastStays
BY DEF ManagerInv, Shaped, LastStays

LEMMA Spends == ASSUME ManagerInv, NEW f, Spend(f) PROVE TodoStay
BY DEF ManagerInv, Shaped, TodoStay, TodoFields, Spend

\* An operation goes on with r.
LEMMA JobMoves ==
    ASSUME ManagerInv, NEW j \in Jobs, NEW r, job' = [job EXCEPT ![j] = r],
           DOMAIN r = JobFields, r.chat \in Keys,
           r.pc \in Opening => job[j].pc \in Opening /\ r.got = job[j].got
    PROVE  JobsStay
BY DEF ManagerInv, Shaped, JobsShaped, JobsStay

LEMMA JobIs ==
    ASSUME ManagerInv, NEW j \in Jobs
    PROVE  DOMAIN job = Jobs /\ DOMAIN job[j] = JobFields /\ job[j].chat \in Keys
BY DEF ManagerInv, Shaped, JobsShaped

LEMMA OverStays ==
    ASSUME ManagerInv, NEW j \in Jobs, NEW ok, job' = [job EXCEPT ![j] = Over(@, ok)]
    PROVE  JobsStay
<1>1. PICK r : r = Over(job[j], ok)
  OBVIOUS
<1>2. DOMAIN r = JobFields /\ r.chat = job[j].chat /\ r.pc \in {"commit", "done"}
  BY <1>1, JobIs DEF Over, JobFields
<1>3. job' = [job EXCEPT ![j] = r]
  BY <1>1
<1> QED
  BY <1>2, <1>3, JobIs, JobMoves DEF Opening

\* An operation ends: its permit is released as keyedFlight allows.
LEMMA FinishStays ==
    ASSUME ManagerInv, NEW j \in Jobs, NEW ok, Finish(j, ok)
    PROVE  JobsStay /\ [FlightNext]_flightVars
<1>1. JobsStay
  BY OverStays DEF Finish
<1>2. [FlightNext]_flightVars
  BY DEF Finish, FlightNext
<1> QED
  BY <1>1, <1>2

LEMMA AgainStays ==
    ASSUME ManagerInv, NEW j \in Jobs, AgainOrOver(j)
    PROVE  JobsStay /\ [FlightNext]_flightVars
<1>1. CASE /\ job' = [job EXCEPT ![j].pc = "line", ![j].try = 2, ![j].only = TRUE, ![j].fresh = FALSE]
           /\ UNCHANGED flightVars
  BY <1>1, JobIs DEF JobsStay, JobFields, Opening
<1> QED
  BY <1>1, FinishStays DEF AgainOrOver

-----------------------------------------------------------------------------
(***************************************************************************)
(* The indexes and the sessions.                                           *)
(***************************************************************************)

\* The chats' sessions, fences and the number of slots are the same.
Keeps(m, n) ==
    /\ DOMAIN n = DOMAIN m
    /\ n.byChat = m.byChat /\ n.fence = m.fence /\ n.slots = m.slots

LEMMA MgrKept == ASSUME ManagerInv, SesStay, Keeps(mgr, mgr') PROVE MgrStay
BY DEF ManagerInv, Shaped, SesStay, MgrStay, MgrShaped, Keeps

LEMMA DetachKeeps == ASSUME NEW m, DOMAIN m = MgrFields, NEW e PROVE Keeps(m, Detach(m, e))
BY DEF Keeps, Detach, MgrFields

LEMMA WithoutRouteKeeps == ASSUME NEW m, DOMAIN m = MgrFields, NEW x PROVE Keeps(m, WithoutRoute(m, x))
<1>1. CASE Holder(m, Route(x)) = x
  BY <1>1 DEF Keeps, WithoutRoute, MgrFields
<1>2. CASE Holder(m, Route(x)) # x
  BY <1>2 DEF Keeps, WithoutRoute
<1> QED
  BY <1>1, <1>2

LEMMA RetiringKeeps ==
    ASSUME NEW m, DOMAIN m = MgrFields, NEW x
    PROVE  Keeps(m, Remember(m, x)) /\ Keeps(m, Forget(m, x))
BY DEF Keeps, Remember, Forget, MgrFields

LEMMA MgrIs ==
    ASSUME ManagerInv
    PROVE  /\ MgrShaped(mgr, ses) /\ DOMAIN mgr = MgrFields
           /\ \A c \in Keys : mgr.byChat[c] \in DOMAIN ses \cup {None}
BY DEF ManagerInv, Shaped, MgrShaped

\* A session leaves its chat's slot.
LEMMA RetireShaped ==
    ASSUME NEW m, NEW t, MgrShaped(m, t), NEW x
    PROVE  MgrShaped(Retire(m, x), t) /\ Retire(m, x).fence = m.fence /\ Retire(m, x).slots = m.slots
<1>1. PICK n : n = WithoutRoute(m, x)
  OBVIOUS
<1>2. DOMAIN n = MgrFields /\ n.byChat = m.byChat /\ n.fence = m.fence /\ n.slots = m.slots
  BY <1>1, WithoutRouteKeeps DEF Keeps, MgrShaped
<1>3. CASE m.byChat[ses[x].chat] = x
  <2>1. Retire(m, x) = [n EXCEPT !.byChat[ses[x].chat] = None, !.slotGen[ses[x].chat] = @ + 1]
    BY <1>1, <1>3 DEF Retire
  <2> QED
    BY <1>2, <2>1 DEF MgrShaped, MgrFields
<1>4. CASE m.byChat[ses[x].chat] # x
  BY <1>1, <1>2, <1>4 DEF Retire, MgrShaped
<1> QED
  BY <1>3, <1>4

\* Sessions are the same but for what they have come to.
SesKept(t, u) ==
    /\ DOMAIN u = DOMAIN t
    /\ \A x \in DOMAIN t : DOMAIN u[x] = DOMAIN t[x] /\ u[x].chat = t[x].chat

LEMMA SesMoves == ASSUME ManagerInv, SesKept(ses, ses') PROVE SesStay
BY DEF ManagerInv, Shaped, SesShaped, SesStay, SesKept

LEMMA SesIs ==
    ASSUME ManagerInv
    PROVE  SesShaped(ses) /\ \A x \in DOMAIN ses : DOMAIN ses[x] = SesFields /\ ses[x].chat \in Keys
BY DEF ManagerInv, Shaped, SesShaped

LEMMA InvalidatedKeeps == ASSUME ManagerInv, NEW m, NEW e PROVE SesKept(ses, Invalidated(m, e))
<1>1. \A x \in DOMAIN ses : DOMAIN ses[x] = SesFields
  BY SesIs
<1> QED
  BY <1>1 DEF SesKept, Invalidated, SesFields

\* One field of a session changes.
St(t, x, v) == [t EXCEPT ![x].st = v]
Held(t, x, v) == [t EXCEPT ![x].held = v]
Closing(t, x, v) == [t EXCEPT ![x].closing = v]
Ended(t, x) == [t EXCEPT ![x].st = "closed", ![x].closing = FALSE]

LEMMA EditKeeps ==
    ASSUME NEW t, \A x \in DOMAIN t : DOMAIN t[x] = SesFields, NEW x, NEW v
    PROVE  /\ SesKept(t, St(t, x, v)) /\ SesKept(t, Held(t, x, v)) /\ SesKept(t, Closing(t, x, v))
           /\ SesKept(t, Ended(t, x))
BY DEF SesKept, SesFields, St, Held, Closing, Ended

-----------------------------------------------------------------------------
(***************************************************************************)
(* Steps of the connection, the engine and the event loop.                 *)
(***************************************************************************)

\* What is shown of every step.
Fine == ManagerInv' /\ [FlightNext]_flightVars

\* A step that the manager has no part in.
LEMMA OutsideFine ==
    ASSUME ManagerInv, UNCHANGED <<flightVars, mgr, ses, job, ops, last>>, TodoStay, NotesShaped'
    PROVE  Fine
<1>1. SesStay /\ JobsStay /\ LastStays
  BY SesSame, JobsSame, LastSame
<1>2. MgrStay
  BY <1>1, MgrSame
<1> QED
  BY <1>1, <1>2, StepStays DEF Fine

LEMMA SameNotes == ASSUME ManagerInv, ses' = ses, notes' \subseteq notes PROVE NotesShaped'
BY SesSame, NotesStay

LEMMA WriteFine == ASSUME ManagerInv, NEW c, Write(c) PROVE Fine
BY OutsideFine, TodoSame, SameNotes DEF Write

LEMMA DialFailsFine == ASSUME ManagerInv, NEW c, DialFails(c) PROVE Fine
BY OutsideFine, Spends, SameNotes DEF DialFails

LEMMA EngineFine == ASSUME ManagerInv, NEW w, Engine(w) PROVE Fine
<1>1. TodoStay
  BY TodoSame, Spends DEF Engine, EngineOpen, EngineClose, EngineList
<1> QED
  BY <1>1, OutsideFine, SameNotes DEF Engine

LEMMA UnloadFine == ASSUME ManagerInv, EngineUnload PROVE Fine
BY OutsideFine, Spends, SameNotes DEF EngineUnload

\* The notes of a connection name no session.
LEMMA NewNote ==
    ASSUME ManagerInv, ses' = ses, NEW n, n.t \in {"down", "up"}, notes' = notes \cup {n}
    PROVE  NotesShaped'
BY DEF ManagerInv, Shaped, NotesShaped

LEMMA LoseFine == ASSUME ManagerInv, Lose \/ Restart PROVE Fine
<1>1. TodoStay
  BY Spends DEF Lose, Restart
<1>2. NotesShaped'
  <2>1. PICK n : n = [t |-> "down", ep |-> net.ep, s |-> None]
    OBVIOUS
  <2>2. n.t = "down" /\ notes' = notes \cup {n} /\ ses' = ses
    BY <2>1 DEF Lose, Restart, Down
  <2> QED
    BY <2>2, NewNote
<1> QED
  BY <1>1, <1>2, OutsideFine DEF Lose, Restart, Down

LEMMA ReconnectFine == ASSUME ManagerInv, Reconnect PROVE Fine
<1>1. NotesShaped'
  <2>1. PICK n : n = [t |-> "up", ep |-> net.ep + 1, s |-> None]
    OBVIOUS
  <2>2. n.t = "up" /\ notes' = notes \cup {n} /\ ses' = ses
    BY <2>1 DEF Reconnect
  <2> QED
    BY <2>2, NewNote
<1> QED
  BY <1>1, OutsideFine, TodoSame DEF Reconnect

LEMMA NoteDownFine == ASSUME ManagerInv, NEW n, NoteDown(n) PROVE Fine
BY OutsideFine, TodoSame, SameNotes DEF NoteDown

\* A step that only invalidates the sessions of an epoch.
LEMMA DetachFine ==
    ASSUME ManagerInv, NEW e, mgr' = Detach(mgr, e), ses' = Invalidated(mgr, e),
           UNCHANGED <<flightVars, job, ops, last>>, TodoStay, notes' \subseteq notes
    PROVE  Fine
<1>1. SesStay
  BY InvalidatedKeeps, SesMoves
<1>2. MgrStay
  BY <1>1, MgrIs, DetachKeeps, MgrKept
<1> QED
  BY <1>1, <1>2, JobsSame, LastSame, NotesStay, StepStays DEF Fine

LEMMA ReconnectFailsFine == ASSUME ManagerInv, ReconnectFails PROVE Fine
BY DetachFine, Spends DEF ReconnectFails

LEMMA ObserveLossFine == ASSUME ManagerInv, ObserveLoss PROVE Fine
BY DetachFine, TodoSame DEF ObserveLoss

LEMMA ObserveEpochFine == ASSUME ManagerInv, ObserveEpoch PROVE Fine
<1>1. SesStay /\ JobsStay /\ LastStays /\ TodoStay /\ NotesShaped'
  BY SesSame, JobsSame, LastSame, TodoSame, SameNotes DEF ObserveEpoch
<1>2. Keeps(mgr, mgr')
  BY MgrIs DEF ObserveEpoch, Keeps, MgrFields
<1> QED
  BY <1>1, <1>2, MgrKept, StepStays DEF Fine, ObserveEpoch

\* The sessions that are to be opened again are sessions of chats.
LEMMA NoteUpFine == ASSUME ManagerInv, NEW n, NoteUp(n) PROVE Fine
<1>1. SesStay
  BY SesSame, InvalidatedKeeps, SesMoves DEF NoteUp
<1>2. MgrStay
  BY <1>1, MgrSame, MgrIs, DetachKeeps, MgrKept DEF NoteUp
<1>3. NotesShaped'
  <2>1. ASSUME NEW m \in notes', m.t = "again" PROVE m.s \in DOMAIN ses
    <3>1. CASE m \in notes
      BY <2>1, <3>1 DEF ManagerInv, Shaped, NotesShaped
    <3>2. CASE m \notin notes
      <4>1. PICK x \in Sessions : m = [t |-> "again", ep |-> n.ep, s |-> x]
        BY <3>2 DEF NoteUp
      <4> QED
        BY <4>1, MgrIs DEF Sessions, Chats
    <3> QED
      BY <3>1, <3>2
  <2> QED
    BY <1>1, <2>1 DEF NotesShaped, SesStay
<1> QED
  BY <1>1, <1>2, <1>3, JobsSame, LastSame, TodoSame, StepStays DEF Fine, NoteUp

\* A reconciliation joins the line of its session's chat.
LEMMA EnqueueFine == ASSUME ManagerInv, NEW n \in notes, EnqueueReconciliation(n) PROVE Fine
<1>1. SesStay /\ LastStays /\ TodoStay /\ NotesShaped'
  BY SesSame, LastSame, TodoSame, SameNotes DEF EnqueueReconciliation
<1>2. MgrStay
  BY <1>1, MgrSame DEF EnqueueReconciliation
<1>3. CASE UNCHANGED <<flightVars, job>>
  BY <1>1, <1>2, <1>3, JobsSame, StepStays DEF Fine, EnqueueReconciliation
<1>4. CASE ~UNCHANGED <<flightVars, job>>
  <2>1. PICK j : /\ j = CHOOSE i \in Spare : TRUE
                 /\ Spare # {} /\ Enter(j, ses[n.s].chat)
                 /\ job' = [job EXCEPT ![j].pc = "line", ![j].chat = ses[n.s].chat, ![j].s = n.s, ![j].only = TRUE]
    BY <1>4 DEF EnqueueReconciliation
  <2>2. j \in Jobs
    BY <2>1 DEF Spare
  <2>3. ses[n.s].chat \in Keys
    BY SesIs DEF EnqueueReconciliation, ManagerInv, Shaped, NotesShaped
  <2>4. JobsStay
    BY <2>1, <2>2, <2>3, JobIs DEF JobsStay, JobFields, Opening
  <2>5. FlightNext
    BY <2>1, <2>2, <2>3 DEF FlightNext
  <2> QED
    BY <1>1, <1>2, <2>4, <2>5, StepStays DEF Fine, EnqueueReconciliation
<1> QED
  BY <1>3, <1>4

-----------------------------------------------------------------------------
(***************************************************************************)
(* Steps of the operations that end and begin no open_session.             *)
(***************************************************************************)

\* An operation goes on and the manager stays as it is.
LEMMA JobFine ==
    ASSUME ManagerInv, JobsStay, [FlightNext]_flightVars, UNCHANGED <<mgr, ses, ops, notes>>,
           LastStays, TodoStay
    PROVE  Fine
<1>1. SesStay /\ NotesShaped'
  BY SesSame, SameNotes
<1> QED
  BY <1>1, MgrSame, StepStays DEF Fine

LEMMA StartFine == ASSUME ManagerInv, NEW j \in Jobs, Start(j) PROVE Fine
<1>1. JobsStay
  BY JobIs DEF Start, JobsStay, JobFields, Opening
<1> QED
  BY <1>1, JobFine, TodoSame, LastSame DEF Start

LEMMA JoinFine == ASSUME ManagerInv, NEW j \in Jobs, Join(j) PROVE Fine
<1>1. JobsStay
  <2>1. CASE job' = [job EXCEPT ![j].pc = "line"]
    BY <2>1, JobIs DEF JobsStay, JobFields, Opening
  <2> QED
    BY <2>1, OverStays DEF Join
<1>2. [FlightNext]_flightVars
  BY JobIs DEF Join, FlightNext
<1> QED
  BY <1>1, <1>2, JobFine, TodoSame, LastSame DEF Join

LEMMA CancelTodo == ASSUME ManagerInv, NEW j, MayCancel(j) PROVE TodoStay
BY TodoSame, Spends DEF MayCancel

LEMMA CancelInLineFine == ASSUME ManagerInv, NEW j \in Jobs, CancelInLine(j) PROVE Fine
<1>1. JobsStay /\ TodoStay
  BY OverStays, CancelTodo DEF CancelInLine
<1>2. [FlightNext]_flightVars
  BY DEF CancelInLine, FlightNext
<1> QED
  BY <1>1, <1>2, JobFine, LastSame DEF CancelInLine

LEMMA WakeFine == ASSUME ManagerInv, NEW j \in Jobs, Wake(j) PROVE Fine
<1>1. [FlightNext]_flightVars
  BY DEF Wake, FlightNext
<1> QED
  BY <1>1, JobsSame, JobFine, TodoSame, LastSame DEF Wake, mgrVars

LEMMA CancelAtFenceFine == ASSUME ManagerInv, NEW j \in Jobs, CancelAtFence(j) PROVE Fine
BY FinishStays, JobFine, CancelTodo, LastSame DEF CancelAtFence

LEMMA CancelOpenFine == ASSUME ManagerInv, NEW j \in Jobs, CancelOpen(j) PROVE Fine
<1>1. JobsStay
  BY JobIs DEF CancelOpen, Turn, JobsStay, JobFields, Opening
<1>2. TodoStay
  BY CancelTodo, TodoSame DEF CancelOpen
<1> QED
  BY <1>1, <1>2, JobFine, LastSame DEF CancelOpen

LEMMA CommitFine == ASSUME ManagerInv, NEW j \in Jobs, Commit(j) PROVE Fine
<1>1. JobsStay
  BY JobIs DEF Commit, JobsStay, JobFields, Opening
<1> QED
  BY <1>1, JobFine, TodoSame, LastSame DEF Commit

LEMMA StopWaitedFine == ASSUME ManagerInv, NEW j \in Jobs, StopWaited(j) PROVE Fine
<1>1. TodoStay
  BY TodoSame, Spends DEF StopWaited
<1>2. JobsStay /\ [FlightNext]_flightVars
  <2>1. ASSUME NEW rs, NEW ok, job' = [job EXCEPT ![j].pc = "sweep", ![j].rs = rs, ![j].ok = ok]
        PROVE  JobsStay
    BY <2>1, JobIs DEF JobsStay, JobFields, Opening
  <2>2. ASSUME NEW rs, job' = [job EXCEPT ![j].pc = "drain", ![j].rs = rs]
        PROVE  JobsStay
    BY <2>2, JobIs DEF JobsStay, JobFields, Opening
  <2> QED
    BY <2>1, <2>2, FinishStays DEF StopWaited
<1> QED
  BY <1>1, <1>2, JobFine, LastSame DEF StopWaited

\* An operation goes on and the manager's indexes stay as they are.
LEMMA IndexFine ==
    ASSUME ManagerInv, JobsStay, [FlightNext]_flightVars, UNCHANGED <<ses, ops, notes>>, Keeps(mgr, mgr'),
           LastStays, TodoStay
    PROVE  Fine
<1>1. SesStay /\ NotesShaped'
  BY SesSame, SameNotes
<1> QED
  BY <1>1, MgrKept, StepStays DEF Fine

LEMMA KeepsSame == ASSUME mgr' = mgr PROVE Keeps(mgr, mgr')
BY DEF Keeps

LEMMA ShutdownFine == ASSUME ManagerInv, NEW j \in Jobs, Shutdown(j) PROVE Fine
<1>1. JobsStay
  BY JobIs DEF Shutdown, JobsStay, JobFields, Opening
<1>2. Keeps(mgr, mgr')
  BY MgrIs DEF Shutdown, Keeps, MgrFields
<1> QED
  BY <1>1, <1>2, IndexFine, TodoSame, LastSame DEF Shutdown

LEMMA DiscardFine == ASSUME ManagerInv, NEW j \in Jobs, Discard(j) PROVE Fine
<1>1. JobsStay /\ [FlightNext]_flightVars
  <2>1. ASSUME NEW rs, job' = [job EXCEPT ![j].pc = "discarding", ![j].rs = rs] PROVE JobsStay
    BY <2>1, JobIs DEF JobsStay, JobFields, Opening
  <2> QED
    BY <2>1, FinishStays DEF Discard
<1>2. Keeps(mgr, mgr')
  <2>1. mgr' = mgr \/ \E x : mgr' = Remember(mgr, x)
    BY DEF Discard
  <2> QED
    BY <2>1, MgrIs, KeepsSame, RetiringKeeps
<1>3. LastStays
  BY LastSame DEF Discard, WriteNow, Call
<1> QED
  BY <1>1, <1>2, <1>3, IndexFine, TodoSame DEF Discard

LEMMA OutcomeTodo == ASSUME ManagerInv, NEW m, NEW x, NEW a, CloseOutcome(m, x, a) PROVE TodoStay
BY TodoSame, Spends DEF CloseOutcome

LEMMA DiscardedFine == ASSUME ManagerInv, NEW j \in Jobs, Discarded(j) PROVE Fine
<1>1. PICK a, x, m : m \in {mgr, Forget(mgr, x)} /\ CloseOutcome(m, x, a) /\ mgr' = m
  BY DEF Discarded
<1>2. Keeps(mgr, mgr')
  BY <1>1, MgrIs, KeepsSame, RetiringKeeps
<1> QED
  BY <1>1, <1>2, FinishStays, OutcomeTodo, IndexFine, LastSame DEF Discarded

LEMMA DrainedFine == ASSUME ManagerInv, NEW j \in Jobs, Drained(j) PROVE Fine
<1>1. PICK a, m, x, ok : /\ m \in {mgr, Forget(mgr, x)} /\ CloseOutcome(m, x, a) /\ mgr' = m
                         /\ job' = [job EXCEPT ![j].pc = "drain", ![j].rs = @ \ {x}, ![j].ok = ok]
  BY DEF Drained
<1>2. Keeps(mgr, mgr')
  BY <1>1, MgrIs, KeepsSame, RetiringKeeps
<1>3. JobsStay
  BY <1>1, JobIs DEF JobsStay, JobFields, Opening
<1> QED
  BY <1>1, <1>2, <1>3, OutcomeTodo, IndexFine, LastSame DEF Drained

LEMMA DrainFine == ASSUME ManagerInv, NEW j \in Jobs, Drain(j) PROVE Fine
<1>1. JobsStay /\ [FlightNext]_flightVars
  <2>1. ASSUME NEW x, job' = [job EXCEPT ![j].pc = "draining", ![j].got = <<x>>] PROVE JobsStay
    BY <2>1, JobIs DEF JobsStay, JobFields, Opening
  <2>2. ASSUME NEW x, job' = [job EXCEPT ![j].rs = @ \ {x}] PROVE JobsStay
    BY <2>2, JobIs DEF JobsStay, JobFields, Opening
  <2> QED
    BY <2>1, <2>2, FinishStays DEF Drain
<1>2. Keeps(mgr, mgr')
  <2>1. mgr' = mgr \/ \E x : mgr' = Forget(mgr, x)
    BY DEF Drain
  <2> QED
    BY <2>1, MgrIs, KeepsSame, RetiringKeeps
<1>3. LastStays
  BY LastSame DEF Drain, WriteNow, Call
<1> QED
  BY <1>1, <1>2, <1>3, IndexFine, TodoSame DEF Drain

\* An operation goes on, sessions change and so do the chats' slots.
LEMMA SlotFine ==
    ASSUME ManagerInv, JobsStay, [FlightNext]_flightVars, SesStay, MgrStay, UNCHANGED <<ops, notes>>,
           LastStays, TodoStay
    PROVE  Fine
BY NotesStay, StepStays DEF Fine

\* The manager after the loss of an epoch is seen, or not.
LEMMA MaybeDetached ==
    ASSUME ManagerInv, NEW m, NEW t, NEW e,
           (m = mgr /\ t = ses) \/ (m = Detach(mgr, e) /\ t = Invalidated(mgr, e))
    PROVE  Keeps(mgr, m) /\ SesKept(ses, t)
<1>1. CASE m = mgr /\ t = ses
  BY <1>1 DEF Keeps, SesKept
<1>2. CASE m = Detach(mgr, e) /\ t = Invalidated(mgr, e)
  BY <1>2, MgrIs, DetachKeeps, InvalidatedKeeps
<1> QED
  BY <1>1, <1>2

LEMMA KeptFields ==
    ASSUME ManagerInv, NEW t, SesKept(ses, t)
    PROVE  \A x \in DOMAIN t : DOMAIN t[x] = SesFields
BY SesIs DEF SesKept

LEMMA KeptTwice == ASSUME NEW t, NEW u, NEW v, SesKept(t, u), SesKept(u, v) PROVE SesKept(t, v)
BY DEF SesKept

LEMMA CheckFine == ASSUME ManagerInv, NEW j \in Jobs, Check(j) PROVE Fine
<1>1. LastStays /\ TodoStay
  BY LastSame, TodoSame DEF Check
<1>2. CASE Finish(j, Moot(j)) /\ UNCHANGED <<mgr, ses>>
  BY <1>1, <1>2, FinishStays, JobFine DEF Check
<1>3. CASE ~(Finish(j, Moot(j)) /\ UNCHANGED <<mgr, ses>>)
  <2> DEFINE ex == mgr.byChat[job[j].chat]
             lost == ex # None /\ ~EpochCurrent(ses[ex].ep)
             M == IF lost THEN Detach(mgr, ses[ex].ep) ELSE mgr
             T == IF lost THEN Invalidated(mgr, ses[ex].ep) ELSE ses
  <2>0. mgr' = M /\ (ses' = T \/ ses' = Held(T, ex, T[ex].held \/ job[j].kind # "media"))
    BY <1>3 DEF Check, Held
  <2>1. PICK m, t, e : /\ (m = mgr /\ t = ses) \/ (m = Detach(mgr, e) /\ t = Invalidated(mgr, e))
                       /\ mgr' = m
                       /\ ses' = t \/ \E x, v : ses' = Held(t, x, v)
    <3>1. (M = mgr /\ T = ses) \/ (M = Detach(mgr, ses[ex].ep) /\ T = Invalidated(mgr, ses[ex].ep))
      OBVIOUS
    <3>2. ses' = T \/ \E x, v : ses' = Held(T, x, v)
      <4> HIDE DEF M, T, ex
      <4> QED
        BY <2>0
    <3> HIDE DEF M, T, ex
    <3> QED
      BY <2>0, <3>1, <3>2
  <2> HIDE DEF M, T, ex, lost
  <2>2. Keeps(mgr, m) /\ SesKept(ses, t)
    BY <2>1, MaybeDetached
  <2>3. SesKept(ses, ses')
    <3>1. \A x \in DOMAIN t : DOMAIN t[x] = SesFields
      BY <2>2, KeptFields
    <3>2. CASE ses' = t
      BY <2>2, <3>2
    <3>3. CASE \E x, v : ses' = Held(t, x, v)
      <4>1. SesKept(t, ses')
        BY <3>1, <3>3, EditKeeps
      <4> QED
        BY <2>2, <4>1, KeptTwice
    <3> QED
      BY <2>1, <3>2, <3>3
  <2>4. SesStay
    BY <2>3, SesMoves
  <2>5. MgrStay
    BY <2>1, <2>2, <2>4, MgrKept
  <2>6. JobsStay /\ [FlightNext]_flightVars
    <3>1. CASE \E ok : Finish(j, ok)
      BY <3>1, FinishStays
    <3>2. CASE ~ \E ok : Finish(j, ok)
      <4> DEFINE V == IF job[j].kind = "reconcile" /\ job[j].try = 1 THEN store[job[j].chat].ver ELSE job[j].ver
      <4>1. PICK r : r = [job[j] EXCEPT !.sg = mgr.slotGen[job[j].chat], !.ex = ex, !.ver = V]
        OBVIOUS
      <4>2. \/ job' = [job EXCEPT ![j] = [r EXCEPT !.pc = "hydrate", !.s = ex]]
            \/ job' = [job EXCEPT ![j] = [r EXCEPT !.pc = "slot"]]
        BY <1>3, <3>2, <4>1 DEF Check, ex
      <4>3. DOMAIN r = JobFields /\ r.chat \in Keys
        <5> HIDE DEF V
        <5> QED
          BY <4>1, JobIs DEF JobFields
      <4>4. PICK q : /\ job' = [job EXCEPT ![j] = q]
                     /\ q = [r EXCEPT !.pc = "hydrate", !.s = ex] \/ q = [r EXCEPT !.pc = "slot"]
        BY <4>2
      <4>5. DOMAIN q = JobFields /\ q.chat \in Keys /\ q.pc \notin Opening
        BY <4>3, <4>4 DEF JobFields, Opening
      <4>6. JobsStay
        BY <4>4, <4>5, JobMoves
      <4> QED
        BY <1>3, <3>2, <4>6 DEF Check
    <3> QED
      BY <3>1, <3>2
  <2> QED
    BY <1>1, <2>4, <2>5, <2>6, SlotFine DEF Check
<1> QED
  BY <1>2, <1>3

LEMMA HydrateFine == ASSUME ManagerInv, NEW j \in Jobs, Hydrate(j) PROVE Fine
<1>1. LastStays /\ TodoStay
  BY LastSame, TodoSame DEF Hydrate
<1>2. JobsStay /\ [FlightNext]_flightVars
  BY FinishStays, AgainStays DEF Hydrate
<1>3. PICK m, t, e : /\ (m = mgr /\ t = ses) \/ (m = Detach(mgr, e) /\ t = Invalidated(mgr, e))
                     /\ mgr' = m
                     /\ ses' = t \/ \E x, v : ses' = St(t, x, v)
  BY DEF Hydrate, St
<1>4. Keeps(mgr, m) /\ SesKept(ses, t)
  BY <1>3, MaybeDetached
<1>5. SesKept(ses, ses')
  <2>1. \A x \in DOMAIN t : DOMAIN t[x] = SesFields
    BY <1>4, KeptFields
  <2>2. CASE ses' = t
    BY <1>4, <2>2
  <2>3. CASE \E x, v : ses' = St(t, x, v)
    <3>1. SesKept(t, ses')
      BY <2>1, <2>3, EditKeeps
    <3> QED
      BY <1>4, <3>1, KeptTwice
  <2> QED
    BY <1>3, <2>2, <2>3
<1>6. SesStay
  BY <1>5, SesMoves
<1>7. MgrStay
  BY <1>3, <1>4, <1>6, MgrKept
<1> QED
  BY <1>1, <1>2, <1>6, <1>7, SlotFine DEF Hydrate

LEMMA QuiesceFine == ASSUME ManagerInv, NEW j \in Jobs, Quiesce(j) PROVE Fine
<1>1. LastStays /\ TodoStay /\ SesStay
  BY LastSame, TodoSame, Spends, SesSame DEF Quiesce
<1>2. CASE Finish(j, FALSE) /\ UNCHANGED mgr
  BY <1>1, <1>2, FinishStays, MgrSame, SlotFine DEF Quiesce
<1>3. CASE ~(Finish(j, FALSE) /\ UNCHANGED mgr)
  <2>1. JobsStay
    <3>1. PICK r : job' = [job EXCEPT ![j].pc = "sweep", ![j].rs = r]
      BY <1>3 DEF Quiesce
    <3> QED
      BY <3>1, JobIs DEF JobsStay, JobFields, Opening
  <2>2. mgr' = [mgr EXCEPT !.byChat = [c \in Chats |-> None], !.byRoute = [r \in {} |-> None],
                           !.invalid = {}, !.slotGen = [c \in Chats |-> 0]]
    BY <1>3 DEF Quiesce
  <2>3. DOMAIN mgr' = MgrFields /\ mgr'.fence = mgr.fence /\ mgr'.slots = mgr.slots
        /\ mgr'.byChat = [c \in Keys |-> None]
    BY <2>2, MgrIs DEF MgrFields, Chats
  <2>4. MgrStay
    BY <1>1, <2>3, MgrIs DEF MgrStay, MgrShaped
  <2> QED
    BY <1>1, <1>3, <2>1, <2>4, SlotFine DEF Quiesce
<1> QED
  BY <1>2, <1>3

\* The identifier of a call that is written.
LEMMA WritesNext ==
    ASSUME ManagerInv, NEW k, NEW c, NEW a, NEW b, NEW e,
           WriteNow([Call(last + 1, k, c, a, b) EXCEPT !.ep = e])
    PROVE  LastStays
<1>1. last' = last + 1
  BY DEF WriteNow, Call
<1> QED
  BY <1>1, LastSame

\* The manager is m, and the sessions stay or one is closed and leaves its slot.
LEMMA MgrEnds ==
    ASSUME ManagerInv, SesStay, NEW m, MgrShaped(m, ses), m.fence = mgr.fence, m.slots = mgr.slots,
           NEW x, mgr' = m \/ mgr' = Retire(m, x)
    PROVE  MgrStay
<1>1. MgrShaped(mgr', ses) /\ mgr'.fence = mgr.fence /\ mgr'.slots = mgr.slots
  BY RetireShaped
<1> QED
  BY <1>1 DEF MgrStay, MgrShaped, SesStay

LEMMA CloseStays ==
    ASSUME ManagerInv, NEW j \in Jobs, NEW x, NEW m, MgrShaped(m, ses), m.fence = mgr.fence,
           m.slots = mgr.slots, CloseSession(j, x, m)
    PROVE  JobsStay /\ [FlightNext]_flightVars /\ SesStay /\ MgrStay /\ LastStays
<1>1. JobsStay /\ [FlightNext]_flightVars
  <2>1. ASSUME job' = [job EXCEPT ![j].pc = "closing", ![j].s = x] PROVE JobsStay
    BY <2>1, JobIs DEF JobsStay, JobFields, Opening
  <2>2. ASSUME job' = [job EXCEPT ![j].ok = FALSE, ![j].rs = @ \ {x}] PROVE JobsStay
    BY <2>2, JobIs DEF JobsStay, JobFields, Opening
  <2> QED
    BY <2>1, <2>2, FinishStays DEF CloseSession
<1>2. SesStay
  <2>1. ses' = ses \/ ses' = Closing(ses, x, TRUE) \/ ses' = Ended(ses, x)
    BY DEF CloseSession, ClosedSes, Closing, Ended
  <2>2. SesKept(ses, ses)
    BY DEF SesKept
  <2> QED
    BY <2>1, <2>2, SesIs, EditKeeps, SesMoves
<1>3. LastStays
  <2>1. CASE last' = last \/ last' = last + 1
    BY <2>1, LastSame
  <2>2. CASE ~(last' = last \/ last' = last + 1)
    <3>1. WriteNow([Call(last + 1, "close", ses[x].chat, <<Route(x)>>, <<"ses", x>>) EXCEPT !.ep = ses[x].ep])
      BY <2>2 DEF CloseSession
    <3> QED
      BY <3>1, WritesNext
  <2> QED
    BY <2>1, <2>2
<1>4. MgrStay
  <2>1. PICK k : k = m.cleanup \cup {[route |-> Route(x), by |-> <<"ses", x>>]}
    OBVIOUS
  <2>2. mgr' = m \/ mgr' = [m EXCEPT !.cleanup = k] \/ mgr' = Retire(m, x)
    BY <2>1 DEF CloseSession, ClosedSes
  <2>3. CASE mgr' = [m EXCEPT !.cleanup = k]
    <3>1. MgrShaped(mgr', ses) /\ mgr'.fence = m.fence /\ mgr'.slots = m.slots
      BY <2>3 DEF MgrShaped, MgrFields
    <3> QED
      BY <1>2, <3>1 DEF MgrStay, MgrShaped, SesStay
  <2> QED
    BY <1>2, <2>2, <2>3, MgrEnds
<1> QED
  BY <1>1, <1>2, <1>3, <1>4

LEMMA StopFine == ASSUME ManagerInv, NEW j \in Jobs, Stop(j) PROVE Fine
<1>1. TodoStay
  BY TodoSame DEF Stop
<1>2. PICK m : m = [mgr EXCEPT !.slotGen[job[j].chat] = @ + 1]
  OBVIOUS
<1>3. MgrShaped(m, ses) /\ m.fence = mgr.fence /\ m.slots = mgr.slots
  BY <1>2, MgrIs DEF MgrShaped, MgrFields
<1>4. CASE CloseSession(j, mgr.byChat[job[j].chat], m)
  BY <1>1, <1>3, <1>4, CloseStays, SlotFine DEF Stop
<1>5. CASE ~CloseSession(j, mgr.byChat[job[j].chat], m)
  <2>1. /\ mgr' = m /\ job' = [job EXCEPT ![j].pc = "drain", ![j].rs = Retirings(job[j].chat)]
        /\ UNCHANGED <<flightVars, ses, calls, wire, last, told, store>>
    BY <1>2, <1>5 DEF Stop
  <2>2. JobsStay
    BY <2>1, JobIs DEF JobsStay, JobFields, Opening
  <2>3. SesStay /\ LastStays
    BY <2>1, SesSame, LastSame
  <2>4. MgrStay
    BY <1>3, <2>1, <2>3, MgrEnds
  <2> QED
    BY <1>1, <2>1, <2>2, <2>3, <2>4, SlotFine DEF Stop
<1> QED
  BY <1>4, <1>5

LEMMA SweepFine == ASSUME ManagerInv, NEW j \in Jobs, Sweep(j) PROVE Fine
<1>1. TodoStay
  BY TodoSame DEF Sweep
<1>2. CASE \E x \in job[j].rs : CloseSession(j, x, mgr)
  BY <1>1, <1>2, MgrIs, CloseStays, SlotFine DEF Sweep
<1>3. CASE ~ \E x \in job[j].rs : CloseSession(j, x, mgr)
  <2>1. JobsStay
    <3>1. ASSUME NEW r, job' = [job EXCEPT ![j].pc = "drain", ![j].rs = r] PROVE JobsStay
      BY <3>1, JobIs DEF JobsStay, JobFields, Opening
    <3>2. ASSUME NEW x, job' = [job EXCEPT ![j].rs = @ \ {x}] PROVE JobsStay
      BY <3>2, JobIs DEF JobsStay, JobFields, Opening
    <3> QED
      BY <1>3, <3>1, <3>2 DEF Sweep
  <2> QED
    BY <1>1, <1>3, <2>1, JobFine, LastSame DEF Sweep
<1> QED
  BY <1>2, <1>3

LEMMA SesClosedFine == ASSUME ManagerInv, NEW x, SesClosed(x) PROVE Fine
<1>1. JobsStay /\ LastStays /\ TodoStay /\ UNCHANGED <<flightVars, ops, notes>>
  BY JobsSame, LastSame, TodoSame DEF SesClosed
<1>2. PICK n, m, t : /\ (n = mgr /\ t = ses) \/ (n = Detach(mgr, ses[x].ep) /\ t = Invalidated(mgr, ses[x].ep))
                     /\ m = [n EXCEPT !.cleanup = {k \in @ : k.by # <<"ses", x>>}]
                     /\ mgr' = m \/ mgr' = Retire(m, x)
                     /\ ses' = Ended(t, x) \/ ses' = Closing(t, x, FALSE)
  <2>1. PICK a \in Answered(<<"ses", x>>) :
            LET N == IF a.res = "lost" THEN Detach(mgr, ses[x].ep) ELSE mgr
                M == [N EXCEPT !.cleanup = {k \in @ : k.by # <<"ses", x>>}]
                T == IF a.res = "lost" THEN Invalidated(mgr, ses[x].ep) ELSE ses
            IN  /\ mgr' = M \/ mgr' = Retire(M, x)
                /\ ses' = Ended(T, x) \/ ses' = Closing(T, x, FALSE)
    BY DEF SesClosed, ClosedSes, Ended, Closing
  <2> DEFINE N == IF a.res = "lost" THEN Detach(mgr, ses[x].ep) ELSE mgr
             M == [N EXCEPT !.cleanup = {k \in @ : k.by # <<"ses", x>>}]
             T == IF a.res = "lost" THEN Invalidated(mgr, ses[x].ep) ELSE ses
  <2>2. (N = mgr /\ T = ses) \/ (N = Detach(mgr, ses[x].ep) /\ T = Invalidated(mgr, ses[x].ep))
    OBVIOUS
  <2>3. (mgr' = M \/ mgr' = Retire(M, x)) /\ (ses' = Ended(T, x) \/ ses' = Closing(T, x, FALSE))
    BY <2>1
  <2>4. M = [N EXCEPT !.cleanup = {k \in @ : k.by # <<"ses", x>>}]
    OBVIOUS
  <2> HIDE DEF N, M, T
  <2> QED
    BY <2>2, <2>3, <2>4
<1>3. Keeps(mgr, n) /\ SesKept(ses, t)
  BY <1>2, MaybeDetached
<1>4. SesKept(ses, ses')
  <2>1. SesKept(t, ses')
    BY <1>2, <1>3, KeptFields, EditKeeps
  <2> QED
    BY <1>3, <2>1, KeptTwice
<1>5. SesStay
  BY <1>4, SesMoves
<1>6. MgrShaped(m, ses) /\ m.fence = mgr.fence /\ m.slots = mgr.slots
  BY <1>2, <1>3, MgrIs DEF MgrShaped, MgrFields, Keeps
<1>7. MgrStay
  BY <1>2, <1>5, <1>6, MgrEnds
<1> QED
  BY <1>1, <1>5, <1>7, SlotFine

\* A session takes its chat's slot.
LEMMA InstallShaped ==
    ASSUME ManagerInv, NEW t, NEW m, MgrShaped(m, ses), NEW j \in Jobs, NEW x \in DOMAIN t,
           DOMAIN ses \subseteq DOMAIN t, NEW b
    PROVE  /\ MgrShaped(Install(m, j, x, b), t)
           /\ Install(m, j, x, b).fence = m.fence /\ Install(m, j, x, b).slots = m.slots
<1>1. PICK n : n = IF job[j].ex # None THEN WithoutRoute(m, job[j].ex) ELSE m
  OBVIOUS
<1>2. DOMAIN n = MgrFields /\ n.byChat = m.byChat /\ n.fence = m.fence /\ n.slots = m.slots
  BY <1>1, WithoutRouteKeeps DEF Keeps, MgrShaped
<1>3. PICK k : k = [n EXCEPT !.byChat[job[j].chat] = x]
  OBVIOUS
<1>4. DOMAIN k = MgrFields /\ k.fence = m.fence /\ k.slots = m.slots /\ k.byChat = [m.byChat EXCEPT ![job[j].chat] = x]
  BY <1>2, <1>3 DEF MgrFields
<1>5. MgrShaped(k, t)
  BY <1>4, JobIs DEF MgrShaped
<1>6. Install(m, j, x, b) = IF b THEN WithRoute(k, job[j].got[1], x) ELSE k
  BY <1>1, <1>3 DEF Install
<1>7. Keeps(k, WithRoute(k, job[j].got[1], x))
  BY <1>4 DEF Keeps, WithRoute, MgrFields
<1> QED
  BY <1>4, <1>5, <1>6, <1>7 DEF Keeps, MgrShaped

\* Publication adds a session and closes the one it replaces.
Created(ex, s, new) == [n \in 1..s |-> IF n = s THEN new ELSE Retired(ex)[n]]

LEMMA CreatedStays ==
    ASSUME ManagerInv, NEW ex, NEW new, DOMAIN new = SesFields, new.chat \in Keys,
           ses' = Created(ex, Cardinality(DOMAIN ses) + 1, new)
    PROVE  SesStay /\ Cardinality(DOMAIN ses) + 1 \in DOMAIN ses'
<1>1. PICK n \in Nat : DOMAIN ses = 1..n
  BY DEF ManagerInv, Shaped, SesShaped
<1>2. Cardinality(DOMAIN ses) = n
  BY <1>1, FS_Interval
<1>5. PICK t : t = Retired(ex)
  OBVIOUS
<1>6. SesKept(ses, t)
  BY <1>5, SesIs DEF Retired, SesKept, SesFields
<1>7. ses' = [k \in 1..(n + 1) |-> IF k = n + 1 THEN new ELSE t[k]]
  BY <1>2, <1>5 DEF Created
<1>8. DOMAIN ses' = 1..(n + 1) /\ n + 1 \in Nat
  BY <1>7
<1>9. ASSUME NEW x \in DOMAIN ses' PROVE DOMAIN ses'[x] = SesFields /\ ses'[x].chat \in Keys
  <2>1. CASE x = n + 1
    BY <1>7, <1>8, <2>1
  <2>2. CASE x # n + 1
    <3>0. x \in 1..(n + 1)
      BY <1>8
    <3>1. x \in DOMAIN ses /\ ses'[x] = t[x]
      BY <1>1, <1>7, <2>2, <3>0
    <3> QED
      BY <1>6, <3>1, SesIs DEF SesKept
  <2> QED
    BY <2>1, <2>2
<1>10. SesShaped(ses')
  BY <1>8, <1>9 DEF SesShaped
<1> QED
  BY <1>1, <1>2, <1>8, <1>10 DEF SesStay

LEMMA PublishFine == ASSUME ManagerInv, NEW j \in Jobs, Publish(j) PROVE Fine
<1>1. TodoStay /\ LastStays
  BY TodoSame, LastSame DEF Publish
<1>2. CASE Refuse(j)
  <2>1. JobsStay
    BY <1>2, JobIs DEF Refuse, JobsStay, JobFields, Opening
  <2> QED
    BY <1>1, <1>2, <2>1, JobFine DEF Publish, Refuse
<1>3. CASE ~Refuse(j)
  <2> DEFINE s == Cardinality(DOMAIN ses) + 1
             r == job[j].got[1]
             checked == job[j].kind # "media"
             new == [NewSes(job[j].chat, r, job[j].got[2], job[j].got[3], checked) EXCEPT !.checked = checked,
                        !.st = IF MayPublish(j) THEN "live" ELSE "resumable"]
             m == [mgr EXCEPT !.refused = @ \cup {[route |-> r, ep |-> new.ep]}]
  <2>1. JobsStay /\ [FlightNext]_flightVars
    <3>1. ASSUME NEW x, job' = [job EXCEPT ![j].pc = "hydrate", ![j].s = x] PROVE JobsStay
      BY <3>1, JobIs DEF JobsStay, JobFields, Opening
    <3> QED
      BY <1>3, <3>1, FinishStays, AgainStays DEF Publish
  <2>2. \/ ses' = ses /\ mgr' = m
        \/ ses' = Created(job[j].ex, s, new) /\ mgr' = Install(mgr, j, s, TRUE)
        \/ ses' = Created(job[j].ex, s, new) /\ mgr' = Install(m, j, s, FALSE)
    BY <1>3 DEF Publish, Created
  <2>3. DOMAIN new = SesFields /\ new.chat \in Keys
    BY JobIs DEF NewSes, SesFields
  <2>4. MgrShaped(m, ses) /\ m.fence = mgr.fence /\ m.slots = mgr.slots
    <3> HIDE DEF new
    <3> QED
      BY MgrIs DEF MgrShaped, MgrFields
  <2> HIDE DEF m, new
  <2>5. CASE ses' = ses /\ mgr' = m
    <3>1. SesStay
      BY <2>5, SesSame
    <3>2. MgrStay
      BY <2>4, <2>5, <3>1, MgrEnds
    <3> QED
      BY <1>1, <2>1, <3>1, <3>2, SlotFine DEF Publish
  <2>6. CASE ses' = Created(job[j].ex, s, new) /\ mgr' \in {Install(mgr, j, s, TRUE), Install(m, j, s, FALSE)}
    <3>1. SesStay /\ s \in DOMAIN ses'
      BY <2>3, <2>6, CreatedStays
    <3>2. DOMAIN ses \subseteq DOMAIN ses'
      BY <3>1 DEF SesStay
    <3> HIDE DEF s
    <3>3. MgrStay
      <4>1. ASSUME NEW n, MgrShaped(n, ses), n.fence = mgr.fence, n.slots = mgr.slots,
                   NEW b \in BOOLEAN, mgr' = Install(n, j, s, b)
            PROVE  MgrStay
        BY <3>1, <3>2, <4>1, InstallShaped DEF MgrStay
      <4> QED
        BY <2>4, <2>6, <4>1, MgrIs
    <3> QED
      BY <1>1, <2>1, <3>1, <3>3, SlotFine DEF Publish
  <2> QED
    BY <2>2, <2>5, <2>6
<1> QED
  BY <1>2, <1>3

-----------------------------------------------------------------------------
(***************************************************************************)
(* Steps that begin, move or end an open_session.                          *)
(***************************************************************************)

\* Nobody waits for open o after the step.
Left(o) == \A i \in Jobs : job'[i].pc \in Opening => job[i].got[1] # o.id

\* The fences f with the one of o lifted, if it is o's.
Lifted(f, o) == IF f[o.chat] = o.id THEN [f EXCEPT ![o.chat] = None] ELSE f

LEMMA LiftedIs ==
    ASSUME NEW f, NEW o
    PROVE  DOMAIN Lifted(f, o) = DOMAIN f /\ \A c \in DOMAIN f : Lifted(f, o)[c] # None => Lifted(f, o)[c] = f[c]
                                                                /\ (c = o.chat => f[c] # o.id)
BY DEF Lifted

LEMMA OpIs ==
    ASSUME ManagerInv, NEW o \in ops
    PROVE  DOMAIN o = OpFields /\ o.id \in Nat /\ o.id <= last /\ \A p \in ops : p.id = o.id => p = o
BY DEF ManagerInv, OpsOwned

LEMMA ShapesStay ==
    ASSUME ManagerInv, JobsStay, TodoStay, LastStays, UNCHANGED <<ses, notes>>,
           DOMAIN mgr' = MgrFields, mgr'.byChat = mgr.byChat, DOMAIN mgr'.fence = Keys
    PROVE  Shaped'
<1>1. SesStay /\ NotesShaped'
  BY SesSame, SameNotes
<1>2. MgrShaped(mgr', ses')
  BY MgrIs DEF MgrShaped
<1> QED
  BY <1>1, <1>2 DEF ManagerInv, Shaped, JobsShaped, JobsStay, SesStay, TodoStay, LastStays

\* An open ends: its slot and its fence are free.
LEMMA OpGone ==
    ASSUME ManagerInv, JobsStay, TodoStay, LastStays, UNCHANGED <<ses, notes>>, NEW o \in ops, Left(o),
           ops' = ops \ {o}, DOMAIN mgr' = MgrFields, mgr'.byChat = mgr.byChat,
           mgr'.slots = mgr.slots - 1, mgr'.fence = Lifted(mgr.fence, o)
    PROVE  ManagerInv'
<1>1. DOMAIN mgr.fence = Keys
  BY MgrIs DEF MgrShaped
<1>2. DOMAIN mgr'.fence = Keys
  BY <1>1, LiftedIs
<1>3. Shaped'
  BY <1>2, ShapesStay
<1>4. OpsOwned'
  <2>1. \A p \in ops' : DOMAIN p = OpFields /\ p.id \in Nat /\ p.id <= last'
    BY DEF ManagerInv, Shaped, OpsOwned, LastStays
  <2>2. \A p, q \in ops' : p.id = q.id => p = q
    BY DEF ManagerInv, OpsOwned
  <2>3. ASSUME NEW i \in Jobs, job'[i].pc \in Opening
        PROVE  \E p \in ops' : p.id = job'[i].got[1] /\ p.owner = "job"
    <3>1. job[i].pc \in Opening /\ job'[i].got = job[i].got /\ job[i].got[1] # o.id
      BY <2>3 DEF JobsStay, Left
    <3>2. PICK p \in ops : p.id = job[i].got[1] /\ p.owner = "job"
      BY <3>1 DEF ManagerInv, OpsOwned
    <3> QED
      BY <3>1, <3>2
  <2>4. \A i, j \in Jobs : job'[i].pc \in Opening /\ job'[j].pc \in Opening /\ job'[i].got[1] = job'[j].got[1] => i = j
    BY DEF ManagerInv, OpsOwned, JobsStay
  <2> QED
    BY <2>1, <2>2, <2>3, <2>4 DEF OpsOwned
<1>5. IsFiniteSet(ops') /\ Cardinality(ops') = Cardinality(ops) - 1
  BY FS_RemoveElement DEF ManagerInv
<1>6. SlotsAccounted'
  <2>1. mgr'.slots = Cardinality(ops') /\ mgr'.slots <= todo'.limit
    <3>1. Cardinality(ops) \in Nat
      BY FS_CardinalityType DEF ManagerInv
    <3> QED
      BY <1>5, <3>1 DEF ManagerInv, Shaped, SlotsAccounted, DetachedOpenLimit, TodoStay
  <2>2. ASSUME NEW c \in Keys, mgr'.fence[c] # None
        PROVE  \E p \in ops' : p.id = mgr'.fence[c] /\ p.chat = c
    <3>1. mgr'.fence[c] = mgr.fence[c] /\ (c = o.chat => mgr.fence[c] # o.id)
      BY <1>1, <2>2, LiftedIs
    <3>2. PICK p \in ops : p.id = mgr.fence[c] /\ p.chat = c
      BY <2>2, <3>1 DEF ManagerInv, SlotsAccounted, Chats
    <3> QED
      BY <3>1, <3>2
  <2> QED
    BY <2>1, <2>2 DEF SlotsAccounted, DetachedOpenLimit, Chats
<1> QED
  BY <1>3, <1>4, <1>5, <1>6 DEF ManagerInv

\* An open goes on as n.
LEMMA OpMoves ==
    ASSUME ManagerInv, JobsStay, TodoStay, LastStays, UNCHANGED <<ses, notes>>, NEW o \in ops,
           NEW n, DOMAIN n = OpFields, n.id = o.id, n.chat = o.chat, n.owner = o.owner \/ Left(o),
           ops' = Put(o, n), DOMAIN mgr' = MgrFields, mgr'.byChat = mgr.byChat,
           mgr'.slots = mgr.slots, mgr'.fence = mgr.fence \/ mgr'.fence = Lifted(mgr.fence, o)
    PROVE  ManagerInv'
<1>1. DOMAIN mgr.fence = Keys
  BY MgrIs DEF MgrShaped
<1>2. DOMAIN mgr'.fence = Keys
  BY <1>1, LiftedIs
<1>3. Shaped'
  BY <1>2, ShapesStay
<1>4. n \in ops' /\ \A p \in ops' : p # n => p \in ops /\ p # o /\ p.id # n.id
  BY OpIs DEF Put
<1>5. OpsOwned'
  <2>1. \A p \in ops' : DOMAIN p = OpFields /\ p.id \in Nat /\ p.id <= last'
    BY <1>4, OpIs DEF ManagerInv, Shaped, OpsOwned, LastStays
  <2>2. \A p, q \in ops' : p.id = q.id => p = q
    BY <1>4, OpIs
  <2>3. ASSUME NEW i \in Jobs, job'[i].pc \in Opening
        PROVE  \E p \in ops' : p.id = job'[i].got[1] /\ p.owner = "job"
    <3>1. job[i].pc \in Opening /\ job'[i].got = job[i].got /\ (Left(o) => job[i].got[1] # o.id)
      BY <2>3 DEF JobsStay, Left
    <3>2. PICK p \in ops : p.id = job[i].got[1] /\ p.owner = "job"
      BY <3>1 DEF ManagerInv, OpsOwned
    <3>3. CASE p = o
      BY <1>4, <3>1, <3>2, <3>3
    <3>4. CASE p # o
      BY <3>1, <3>2, <3>4 DEF Put
    <3> QED
      BY <3>3, <3>4
  <2>4. \A i, j \in Jobs : job'[i].pc \in Opening /\ job'[j].pc \in Opening /\ job'[i].got[1] = job'[j].got[1] => i = j
    BY DEF ManagerInv, OpsOwned, JobsStay
  <2> QED
    BY <2>1, <2>2, <2>3, <2>4 DEF OpsOwned
<1>6. IsFiniteSet(ops') /\ Cardinality(ops') = Cardinality(ops)
  <2>1. IsFiniteSet(ops \ {o}) /\ Cardinality(ops \ {o}) = Cardinality(ops) - 1
    BY FS_RemoveElement DEF ManagerInv
  <2>2. n \notin ops \ {o}
    BY OpIs
  <2>3. IsFiniteSet((ops \ {o}) \cup {n}) /\ Cardinality((ops \ {o}) \cup {n}) = Cardinality(ops \ {o}) + 1
    BY <2>1, <2>2, FS_AddElement
  <2>4. Cardinality(ops) \in Nat
    BY FS_CardinalityType DEF ManagerInv
  <2> QED
    BY <2>1, <2>3, <2>4 DEF Put
<1>7. SlotsAccounted'
  <2>1. mgr'.slots = Cardinality(ops') /\ mgr'.slots <= todo'.limit
    BY <1>6 DEF ManagerInv, SlotsAccounted, DetachedOpenLimit, TodoStay
  <2>2. ASSUME NEW c \in Keys, mgr'.fence[c] # None
        PROVE  \E p \in ops' : p.id = mgr'.fence[c] /\ p.chat = c
    <3>1. mgr'.fence[c] = mgr.fence[c]
      BY <1>1, <2>2, LiftedIs
    <3>2. PICK p \in ops : p.id = mgr.fence[c] /\ p.chat = c
      BY <2>2, <3>1 DEF ManagerInv, SlotsAccounted, Chats
    <3>3. CASE p = o
      BY <1>4, <3>1, <3>2, <3>3
    <3>4. CASE p # o
      BY <3>1, <3>2, <3>4 DEF Put
    <3> QED
      BY <3>3, <3>4
  <2> QED
    BY <2>1, <2>2 DEF SlotsAccounted, DetachedOpenLimit, Chats
<1> QED
  BY <1>3, <1>5, <1>6, <1>7 DEF ManagerInv

LEMMA OwnOp ==
    ASSUME ManagerInv, NEW j \in Jobs, job[j].pc \in Opening
    PROVE  /\ Op(j) \in ops /\ Op(j).owner = "job"
           /\ \A i \in Jobs : job[i].pc \in Opening /\ job[i].got[1] = Op(j).id => i = j
<1>1. \E o \in ops : o.id = job[j].got[1] /\ o.owner = "job"
  BY DEF ManagerInv, OpsOwned
<1>2. Op(j) \in ops /\ Op(j).id = job[j].got[1]
  BY <1>1 DEF Op
<1>3. Op(j).owner = "job"
  BY <1>1, <1>2, OpIs
<1> QED
  BY <1>2, <1>3 DEF ManagerInv, OpsOwned

\* The operation leaves its open.
LEMMA OwnLeft ==
    ASSUME ManagerInv, JobsStay, NEW j \in Jobs, job[j].pc \in Opening, job'[j].pc \notin Opening
    PROVE  Left(Op(j))
BY OwnOp DEF Left, JobsStay

LEMMA OverLeaves ==
    ASSUME ManagerInv, NEW j \in Jobs, NEW ok, Finish(j, ok)
    PROVE  job'[j].pc \notin Opening
<1>1. job'[j] = Over(job[j], ok)
  BY JobIs DEF Finish
<1>2. Over(job[j], ok).pc \in {"commit", "done"}
  BY JobIs DEF Over, JobFields
<1> QED
  BY <1>1, <1>2 DEF Opening

\* An open without a caller has left every operation.
LEMMA DetachedLeft ==
    ASSUME ManagerInv, job' = job, NEW o \in ops, o.owner # "job"
    PROVE  Left(o)
<1>1. ASSUME NEW i \in Jobs, job[i].pc \in Opening PROVE job[i].got[1] # o.id
  <2>1. PICK p \in ops : p.id = job[i].got[1] /\ p.owner = "job"
    BY <1>1 DEF ManagerInv, OpsOwned
  <2> QED
    BY <2>1, OpIs
<1> QED
  BY <1>1 DEF Left

LEMMA ClearedIs ==
    ASSUME ManagerInv, NEW m, Keeps(mgr, m), NEW o, mgr' = ClearMarker(m, o)
    PROVE  /\ DOMAIN mgr' = MgrFields /\ mgr'.byChat = mgr.byChat
           /\ mgr'.slots = mgr.slots - 1 /\ mgr'.fence = Lifted(mgr.fence, o)
<1>1. DOMAIN m = MgrFields /\ m.byChat = mgr.byChat /\ m.slots = mgr.slots /\ m.fence = mgr.fence
  BY MgrIs DEF Keeps
<1>2. CASE m.fence[o.chat] = o.id
  <2>1. mgr' = [m EXCEPT !.fence[o.chat] = None, !.slots = @ - 1]
    BY <1>2 DEF ClearMarker
  <2> QED
    BY <1>1, <1>2, <2>1 DEF Lifted, MgrFields
<1>3. CASE m.fence[o.chat] # o.id
  <2>1. mgr' = [m EXCEPT !.slots = @ - 1]
    BY <1>3 DEF ClearMarker
  <2> QED
    BY <1>1, <1>3, <2>1 DEF Lifted, MgrFields
<1> QED
  BY <1>2, <1>3

LEMMA RecoveredIs ==
    ASSUME ManagerInv, NEW m, Keeps(mgr, m), NEW o, mgr' = RecoverFence(m, o)
    PROVE  /\ DOMAIN mgr' = MgrFields /\ mgr'.byChat = mgr.byChat /\ mgr'.slots = mgr.slots
           /\ mgr'.fence = mgr.fence \/ mgr'.fence = Lifted(mgr.fence, o)
<1>1. DOMAIN m = MgrFields /\ m.byChat = mgr.byChat /\ m.slots = mgr.slots /\ m.fence = mgr.fence
  BY MgrIs DEF Keeps
<1>2. CASE ~m.closed /\ m.fence[o.chat] = o.id
  <2>1. mgr' = [m EXCEPT !.fence[o.chat] = None]
    BY <1>2 DEF RecoverFence
  <2> QED
    BY <1>1, <1>2, <2>1 DEF Lifted, MgrFields
<1>3. CASE ~(~m.closed /\ m.fence[o.chat] = o.id)
  BY <1>1, <1>3 DEF RecoverFence
<1> QED
  BY <1>2, <1>3

LEMMA KeepsIt == Keeps(mgr, mgr)
BY DEF Keeps

LEMMA TakeSlotFine == ASSUME ManagerInv, NEW j \in Jobs, TakeSlot(j) PROVE Fine
<1>1. TodoStay
  BY TodoSame DEF TakeSlot
<1>2. CASE Finish(j, FALSE) /\ UNCHANGED <<mgr, ops, calls, last>>
  BY <1>1, <1>2, FinishStays, LastSame, JobFine DEF TakeSlot
<1>3. CASE ~(Finish(j, FALSE) /\ UNCHANGED <<mgr, ops, calls, last>>)
  <2> DEFINE c == job[j].chat
             n == last + 1
  <2>1. /\ mgr.slots < todo.limit /\ mgr.fence[c] = None
        /\ mgr' = [mgr EXCEPT !.slots = @ + 1, !.fence[c] = n]
        /\ job' = [job EXCEPT ![j].pc = "opening", ![j].got = <<n>>]
        /\ last' = n /\ UNCHANGED flightVars /\ UNCHANGED <<ses, notes>>
    BY <1>3 DEF TakeSlot, DetachedOpenLimit
  <2>2. PICK o : /\ o = [id |-> n, chat |-> c, path |-> Target(j), owner |-> "job",
                         tries |-> 1, rt |-> Retiring(c, None, NotSent)]
                 /\ ops' = ops \cup {o}
    <3>1. ops' = ops \cup {[id |-> n, chat |-> c, path |-> Target(j), owner |-> "job",
                            tries |-> 1, rt |-> Retiring(c, None, NotSent)]}
      BY <1>3 DEF TakeSlot
    <3> QED
      BY <3>1
  <2>3. DOMAIN o = OpFields /\ o.id = n /\ o.chat = c /\ o.owner = "job"
    BY <2>2 DEF OpFields
  <2>4. last \in Nat /\ n \in Nat /\ last < n
    BY DEF ManagerInv, Shaped
  <2>5. o \notin ops /\ \A p \in ops : p.id # n /\ p.id \in Nat
    BY <2>3, <2>4, OpIs
  <2>6. /\ DOMAIN mgr' = MgrFields /\ mgr'.byChat = mgr.byChat
        /\ mgr'.slots = mgr.slots + 1 /\ mgr'.fence = [mgr.fence EXCEPT ![c] = n]
    BY <2>1, MgrIs DEF MgrFields
  <2>7. c \in Keys /\ DOMAIN mgr.fence = Keys
    BY JobIs, MgrIs DEF MgrShaped
  <2>8. \A i \in Jobs : i # j => job'[i] = job[i]
    BY <2>1, JobIs
  <2>9. job'[j].pc = "opening" /\ job'[j].got = <<n>> /\ job'[j].chat = c /\ DOMAIN job'[j] = JobFields
        /\ DOMAIN job' = Jobs
    BY <2>1, JobIs DEF JobFields
  <2> HIDE DEF c, n
  <2>10. Shaped'
    <3>1. SesStay /\ NotesShaped'
      BY <2>1, SesSame, SameNotes
    <3>2. MgrShaped(mgr', ses')
      BY <2>1, <2>6, <2>7, MgrIs DEF MgrShaped
    <3>3. JobsShaped'
      BY <2>7, <2>8, <2>9, JobIs DEF JobsShaped
    <3> QED
      BY <1>1, <2>1, <2>4, <3>1, <3>2, <3>3 DEF ManagerInv, Shaped, SesStay, TodoStay
  <2>11. OpsOwned'
    <3>1. \A p \in ops' : DOMAIN p = OpFields /\ p.id \in Nat /\ p.id <= last'
      BY <2>1, <2>2, <2>3, <2>4, OpIs
    <3>2. \A p, q \in ops' : p.id = q.id => p = q
      BY <2>2, <2>3, <2>5, OpIs
    <3>3. ASSUME NEW i \in Jobs, job'[i].pc \in Opening
          PROVE  \E p \in ops' : p.id = job'[i].got[1] /\ p.owner = "job"
      <4>1. CASE i = j
        BY <2>2, <2>3, <2>9, <4>1
      <4>2. CASE i # j
        BY <2>2, <2>8, <3>3, <4>2 DEF ManagerInv, OpsOwned
      <4> QED
        BY <4>1, <4>2
    <3>4. ASSUME NEW i \in Jobs, i # j, job'[i].pc \in Opening PROVE job'[i].got[1] # n
      BY <2>5, <2>8, <3>4 DEF ManagerInv, OpsOwned
    <3>5. job'[j].got[1] = n
      BY <2>9
    <3>6. \A i, k \in Jobs : job'[i].pc \in Opening /\ job'[k].pc \in Opening /\ job'[i].got[1] = job'[k].got[1] => i = k
      BY <2>8, <3>4, <3>5 DEF ManagerInv, OpsOwned
    <3> QED
      BY <3>1, <3>2, <3>3, <3>6 DEF OpsOwned
  <2>12. IsFiniteSet(ops') /\ Cardinality(ops') = Cardinality(ops) + 1
    BY <2>2, <2>5, FS_AddElement DEF ManagerInv
  <2>13. SlotsAccounted'
    <3>1. mgr'.slots = Cardinality(ops') /\ mgr'.slots <= todo'.limit
      <4>1. Cardinality(ops) \in Nat /\ mgr.slots = Cardinality(ops) /\ todo.limit \in Nat
        BY FS_CardinalityType DEF ManagerInv, Shaped, SlotsAccounted
      <4> QED
        BY <1>1, <2>1, <2>6, <2>12, <4>1 DEF TodoStay
    <3>2. \A k \in Keys : mgr'.fence[k] # None => \E p \in ops' : p.id = mgr'.fence[k] /\ p.chat = k
      BY <2>2, <2>3, <2>6, <2>7 DEF ManagerInv, SlotsAccounted, Chats
    <3> QED
      BY <3>1, <3>2 DEF SlotsAccounted, DetachedOpenLimit, Chats
  <2> QED
    BY <2>1, <2>10, <2>11, <2>12, <2>13 DEF Fine, ManagerInv
<1> QED
  BY <1>2, <1>3

\* The open of an operation that goes on without it ends.
LEMMA OwnGone ==
    ASSUME ManagerInv, JobsStay, [FlightNext]_flightVars, TodoStay, UNCHANGED <<ses, notes, last>>,
           NEW j \in Jobs, job[j].pc \in Opening, job'[j].pc \notin Opening,
           ops' = ops \ {Op(j)}, mgr' = ClearMarker(mgr, Op(j))
    PROVE  Fine
<1>1. LastStays /\ Left(Op(j)) /\ Op(j) \in ops
  BY LastSame, OwnLeft, OwnOp
<1>2. /\ DOMAIN mgr' = MgrFields /\ mgr'.byChat = mgr.byChat
      /\ mgr'.slots = mgr.slots - 1 /\ mgr'.fence = Lifted(mgr.fence, Op(j))
  BY KeepsIt, ClearedIs
<1> QED
  BY <1>1, <1>2, OpGone DEF Fine

\* The route an answer brings is kept with the operation.
LEMMA GotStays ==
    ASSUME ManagerInv, NEW j \in Jobs, NEW g, NEW f, NEW pc, pc \notin Opening,
           \/ job' = [job EXCEPT ![j].got = g, ![j].fresh = f, ![j].pc = pc]
           \/ job' = [job EXCEPT ![j].got = g, ![j].pc = pc]
           \/ job' = [job EXCEPT ![j].pc = pc, ![j].fresh = f]
    PROVE  JobsStay /\ job'[j].pc \notin Opening
BY JobIs DEF JobsStay, JobFields

LEMMA OpenAnsweredFine == ASSUME ManagerInv, NEW j \in Jobs, OpenAnswered(j) PROVE Fine
<1>1. TodoStay
  BY TodoSame DEF OpenAnswered
<1>2. JobsStay /\ job'[j].pc \notin Opening /\ [FlightNext]_flightVars
  <2>1. CASE Finish(j, FALSE)
    BY <2>1, FinishStays, OverLeaves
  <2>2. CASE ~Finish(j, FALSE)
    <3>1. PICK a : \/ job' = [job EXCEPT ![j].got = <<a.got[1], a.ep, a.got[2]>>, ![j].fresh = Op(j).path = NoPath,
                                         ![j].pc = IF store[job[j].chat].gone /\ ~job[j].fresh /\ Op(j).path = NoPath
                                                   THEN "discard" ELSE "publish"]
                   \/ job' = [job EXCEPT ![j].pc = "slot", ![j].fresh = TRUE]
      BY <2>2 DEF OpenAnswered
    <3>2. PICK g : g = <<a.got[1], a.ep, a.got[2]>>
      OBVIOUS
    <3>3. PICK f : f = (Op(j).path = NoPath)
      OBVIOUS
    <3>4. PICK pc : pc = IF store[job[j].chat].gone /\ ~job[j].fresh /\ Op(j).path = NoPath THEN "discard" ELSE "publish"
      OBVIOUS
    <3>5. \/ job' = [job EXCEPT ![j].got = g, ![j].fresh = f, ![j].pc = pc]
          \/ job' = [job EXCEPT ![j].pc = "slot", ![j].fresh = TRUE]
      BY <3>1, <3>2, <3>3, <3>4
    <3>6. pc \notin Opening /\ "slot" \notin Opening
      BY <3>4 DEF Opening
    <3>7. UNCHANGED flightVars
      BY <2>2 DEF OpenAnswered
    <3>8. CASE job' = [job EXCEPT ![j].got = g, ![j].fresh = f, ![j].pc = pc]
      BY <3>6, <3>7, <3>8, GotStays
    <3>9. CASE job' = [job EXCEPT ![j].pc = "slot", ![j].fresh = TRUE]
      BY <3>6, <3>7, <3>9, GotStays
    <3> QED
      BY <3>5, <3>8, <3>9
  <2> QED
    BY <2>1, <2>2
<1>3. job[j].pc \in Opening
  BY DEF OpenAnswered, Turn, Opening
<1> QED
  BY <1>1, <1>2, <1>3, OwnGone DEF OpenAnswered

LEMMA LeaveAnsweredFine == ASSUME ManagerInv, NEW j \in Jobs, LeaveAnswered(j) PROVE Fine
<1>1. TodoStay
  BY TodoSame DEF LeaveAnswered
<1>2. JobsStay /\ job'[j].pc \notin Opening /\ [FlightNext]_flightVars
  <2>1. CASE Finish(j, FALSE)
    BY <2>1, FinishStays, OverLeaves
  <2>2. CASE ~Finish(j, FALSE)
    <3>1. PICK a : job' = [job EXCEPT ![j].got = <<a.got[1], a.ep, a.got[2]>>, ![j].pc = "discard"]
      BY <2>2 DEF LeaveAnswered
    <3>2. PICK g : g = <<a.got[1], a.ep, a.got[2]>>
      OBVIOUS
    <3>3. job' = [job EXCEPT ![j].got = g, ![j].pc = "discard"]
      BY <3>1, <3>2
    <3>4. "discard" \notin Opening
      BY DEF Opening
    <3>5. UNCHANGED flightVars
      BY <2>2 DEF LeaveAnswered
    <3> QED
      BY <3>3, <3>4, <3>5, GotStays
  <2> QED
    BY <2>1, <2>2
<1>3. job[j].pc \in Opening
  BY DEF LeaveAnswered, Turn, Opening
<1> QED
  BY <1>1, <1>2, <1>3, OwnGone DEF LeaveAnswered

\* An open whose caller gives up goes on by itself.
LEMMA LeaveTimeoutFine == ASSUME ManagerInv, NEW j \in Jobs, LeaveTimeout(j) PROVE Fine
<1>1. TodoStay /\ LastStays
  BY TodoSame, LastSame DEF LeaveTimeout
<1>2. JobsStay /\ job'[j].pc \notin Opening /\ [FlightNext]_flightVars
  BY FinishStays, OverLeaves DEF LeaveTimeout
<1>3. job[j].pc \in Opening
  BY DEF LeaveTimeout, Turn, Opening
<1>4. CASE ops' = ops \ {Op(j)} /\ mgr' = ClearMarker(mgr, Op(j))
  BY <1>1, <1>2, <1>3, <1>4, OwnGone DEF LeaveTimeout
<1>5. CASE ~(ops' = ops \ {Op(j)} /\ mgr' = ClearMarker(mgr, Op(j)))
  <2>1. PICK n : n = [Op(j) EXCEPT !.owner = "await"]
    OBVIOUS
  <2>2. ops' = Put(Op(j), n) /\ mgr' = mgr /\ UNCHANGED <<ses, notes>>
    BY <1>5, <2>1 DEF LeaveTimeout
  <2>3. DOMAIN Op(j) = OpFields /\ Op(j) \in ops /\ Left(Op(j))
    BY <1>2, <1>3, OwnOp, OpIs, OwnLeft
  <2>4. DOMAIN n = OpFields /\ n.id = Op(j).id /\ n.chat = Op(j).chat
    BY <2>1, <2>3 DEF OpFields
  <2> QED
    BY <1>1, <1>2, <2>2, <2>3, <2>4, MgrIs, OpMoves DEF Fine
<1> QED
  BY <1>4, <1>5

\* An open that nobody waits for ends.
LEMMA LateGone ==
    ASSUME ManagerInv, UNCHANGED <<flightVars, job, ses, notes, last>>, TodoStay, NEW o \in ops,
           o.owner # "job", NEW m, Keeps(mgr, m), ops' = ops \ {o}, mgr' = ClearMarker(m, o)
    PROVE  Fine
<1>1. JobsStay /\ LastStays /\ Left(o)
  BY JobsSame, LastSame, DetachedLeft
<1> QED
  BY <1>1, ClearedIs, OpGone DEF Fine

\* An open that nobody waits for goes on as n.
LEMMA LateMoves ==
    ASSUME ManagerInv, UNCHANGED <<flightVars, job, ses, notes>>, LastStays, TodoStay, NEW o \in ops,
           o.owner # "job", NEW n, DOMAIN n = OpFields, n.id = o.id, n.chat = o.chat, ops' = Put(o, n),
           NEW m, Keeps(mgr, m), mgr' = m \/ mgr' = RecoverFence(m, o)
    PROVE  Fine
<1>1. JobsStay /\ Left(o)
  BY JobsSame, DetachedLeft
<1>2. /\ DOMAIN mgr' = MgrFields /\ mgr'.byChat = mgr.byChat /\ mgr'.slots = mgr.slots
      /\ mgr'.fence = mgr.fence \/ mgr'.fence = Lifted(mgr.fence, o)
  <2>1. CASE mgr' = m
    BY <2>1, MgrIs DEF Keeps
  <2> QED
    BY <2>1, RecoveredIs
<1> QED
  BY <1>1, <1>2, OpMoves DEF Fine

\* What an open becomes.
LEMMA Becomes ==
    ASSUME ManagerInv, NEW o \in ops, NEW w, NEW n, n = [o EXCEPT !.owner = w]
    PROVE  DOMAIN n = OpFields /\ n.id = o.id /\ n.chat = o.chat
BY OpIs DEF OpFields

LEMMA RetryOpenFine == ASSUME ManagerInv, NEW o \in ops, RetryOpen(o) PROVE Fine
<1>1. JobsStay /\ TodoStay /\ LastStays
  BY JobsSame, TodoSame, LastSame DEF RetryOpen
<1>2. PICK n : n = [o EXCEPT !.tries = @ + 1]
  OBVIOUS
<1>3. ops' = Put(o, n) /\ UNCHANGED <<flightVars, mgr, ses, notes>>
  BY <1>2 DEF RetryOpen
<1>4. DOMAIN n = OpFields /\ n.id = o.id /\ n.chat = o.chat /\ n.owner = o.owner
  BY <1>2, OpIs DEF OpFields
<1> QED
  BY <1>1, <1>3, <1>4, MgrIs, OpMoves DEF Fine

LEMMA SettleFine == ASSUME ManagerInv, NEW o \in ops, Settle(o) PROVE Fine
<1>1. TodoStay /\ LastStays /\ UNCHANGED <<flightVars, job, ses, notes>> /\ o.owner # "job"
  BY TodoSame, LastSame DEF Settle, Idle
<1>2. CASE last' = last /\ mgr' = ClearMarker(mgr, o) /\ ops' = ops \ {o}
  BY <1>1, <1>2, KeepsIt, LateGone
<1>3. CASE ~(last' = last /\ mgr' = ClearMarker(mgr, o) /\ ops' = ops \ {o})
  <2>0. PICK a \in Answered(By(o)) :
            LET y == Retiring(o.chat, IF a.res = "ok" THEN a.got[1] ELSE None, a.ep)
            IN  mgr' = Remember(mgr, y) /\ ops' = Put(o, [o EXCEPT !.owner = "settling", !.rt = y])
    BY <1>3 DEF Settle
  <2> DEFINE x == Retiring(o.chat, IF a.res = "ok" THEN a.got[1] ELSE None, a.ep)
  <2>1. mgr' = Remember(mgr, x) /\ ops' = Put(o, [o EXCEPT !.owner = "settling", !.rt = x])
    BY <2>0
  <2> HIDE DEF x
  <2>2. PICK n : n = [o EXCEPT !.owner = "settling", !.rt = x]
    OBVIOUS
  <2>3. DOMAIN n = OpFields /\ n.id = o.id /\ n.chat = o.chat
    BY <2>2, OpIs DEF OpFields
  <2>4. ops' = Put(o, n)
    BY <2>1, <2>2
  <2>5. PICK m : m = Remember(mgr, x) /\ Keeps(mgr, m)
    BY MgrIs, RetiringKeeps
  <2> QED
    BY <1>1, <2>1, <2>3, <2>4, <2>5, LateMoves
<1> QED
  BY <1>2, <1>3

LEMMA LateClosedFine == ASSUME ManagerInv, NEW o \in ops, LateClosed(o) PROVE Fine
<1>1. PICK a, m : /\ m \in {mgr, Forget(mgr, o.rt)} /\ CloseOutcome(m, o.rt, a)
                  /\ mgr' = ClearMarker(m, o) /\ ops' = ops \ {o}
  BY DEF LateClosed
<1>2. Keeps(mgr, m) /\ TodoStay
  BY <1>1, KeepsIt, MgrIs, RetiringKeeps, OutcomeTodo
<1>3. UNCHANGED <<flightVars, job, ses, notes, last>> /\ o.owner # "job"
  BY DEF LateClosed
<1> QED
  BY <1>1, <1>2, <1>3, LateGone

LEMMA RecoverFine == ASSUME ManagerInv, NEW o \in ops, Recover(o) PROVE Fine
<1>1. TodoStay /\ LastStays /\ UNCHANGED <<flightVars, job, ses, notes>> /\ o.owner # "job"
  BY TodoSame, LastSame DEF Recover
<1>2. PICK w : ops' = Put(o, [o EXCEPT !.owner = w]) /\ (mgr' = mgr \/ mgr' = RecoverFence(mgr, o))
  BY DEF Recover
<1>3. PICK n : n = [o EXCEPT !.owner = w]
  OBVIOUS
<1>4. DOMAIN n = OpFields /\ n.id = o.id /\ n.chat = o.chat /\ ops' = Put(o, n)
  BY <1>2, <1>3, Becomes
<1> QED
  BY <1>1, <1>2, <1>4, KeepsIt, LateMoves

LEMMA ListedFine == ASSUME ManagerInv, NEW o \in ops, Listed(o) PROVE Fine
<1>1. TodoStay /\ LastStays /\ UNCHANGED <<flightVars, job, ses, notes>> /\ o.owner # "job"
  BY TodoSame, Spends, LastSame DEF Listed
<1>2. CASE mgr' = RecoverFence(mgr, o) /\ ops' = Put(o, [o EXCEPT !.owner = "final"])
  <2>1. PICK n : n = [o EXCEPT !.owner = "final"]
    OBVIOUS
  <2>2. DOMAIN n = OpFields /\ n.id = o.id /\ n.chat = o.chat /\ ops' = Put(o, n)
    BY <1>2, <2>1, Becomes
  <2> QED
    BY <1>1, <1>2, <2>2, KeepsIt, LateMoves
<1>3. CASE ~(mgr' = RecoverFence(mgr, o) /\ ops' = Put(o, [o EXCEPT !.owner = "final"]))
  <2>0. PICK a \in CallsBy(Rec(o)) : \E k \in DOMAIN a.got :
                    LET x == Retiring(o.chat, a.got[k], a.ep)
                    IN  /\ mgr' = [Remember(mgr, x) EXCEPT !.retired = @ \cup {[route |-> a.got[k], ep |-> a.ep]},
                                                          !.cleanup = @ \cup {[route |-> a.got[k], by |-> Rec(o)]}]
                        /\ ops' = Put(o, [o EXCEPT !.owner = "purging", !.rt = x])
    BY <1>3 DEF Listed
  <2>1. PICK k \in DOMAIN a.got :
                    LET x == Retiring(o.chat, a.got[k], a.ep)
                    IN  /\ mgr' = [Remember(mgr, x) EXCEPT !.retired = @ \cup {[route |-> a.got[k], ep |-> a.ep]},
                                                          !.cleanup = @ \cup {[route |-> a.got[k], by |-> Rec(o)]}]
                        /\ ops' = Put(o, [o EXCEPT !.owner = "purging", !.rt = x])
    BY <2>0
  <2>2. PICK x : x = Retiring(o.chat, a.got[k], a.ep)
    OBVIOUS
  <2>3. PICK n : n = [o EXCEPT !.owner = "purging", !.rt = x]
    OBVIOUS
  <2>4. DOMAIN n = OpFields /\ n.id = o.id /\ n.chat = o.chat
    BY <2>3, OpIs DEF OpFields
  <2>5. ops' = Put(o, n)
    BY <2>1, <2>2, <2>3
  <2>6. PICK m : m = Remember(mgr, x) /\ Keeps(mgr, m)
    BY MgrIs, RetiringKeeps
  <2>7. PICK p : p = m.retired \cup {[route |-> a.got[k], ep |-> a.ep]}
    OBVIOUS
  <2>8. PICK q : q = m.cleanup \cup {[route |-> a.got[k], by |-> Rec(o)]}
    OBVIOUS
  <2>9. DOMAIN m = MgrFields
    BY <2>6, MgrIs DEF Keeps
  <2>10. mgr' = [m EXCEPT !.retired = p, !.cleanup = q]
    <3>1. m.cleanup = [m EXCEPT !.retired = p].cleanup
      BY <2>9 DEF MgrFields
    <3> QED
      BY <2>1, <2>2, <2>6, <2>7, <2>8, <3>1
  <2>11. Keeps(m, mgr')
    BY <2>9, <2>10 DEF Keeps, MgrFields
  <2>12. Keeps(mgr, mgr')
    BY <2>6, <2>11 DEF Keeps
  <2> QED
    BY <1>1, <2>4, <2>5, <2>12, LateMoves
<1> QED
  BY <1>2, <1>3

LEMMA PurgedFine == ASSUME ManagerInv, NEW o \in ops, Purged(o) PROVE Fine
<1>1. PICK a, m : /\ m \in {mgr, Forget(mgr, o.rt)} /\ CloseOutcome(m, o.rt, a)
                  /\ mgr' = RecoverFence([m EXCEPT !.cleanup = {k \in @ : k.by # Rec(o)}], o)
                  /\ ops' = Put(o, [o EXCEPT !.owner = "final"])
  BY DEF Purged
<1>2. Keeps(mgr, m) /\ TodoStay /\ LastStays
  BY <1>1, KeepsIt, MgrIs, RetiringKeeps, OutcomeTodo, LastSame DEF Purged
<1>3. UNCHANGED <<flightVars, job, ses, notes>> /\ o.owner # "job"
  BY DEF Purged
<1>4. PICK n : n = [o EXCEPT !.owner = "final"]
  OBVIOUS
<1>5. DOMAIN n = OpFields /\ n.id = o.id /\ n.chat = o.chat /\ ops' = Put(o, n)
  BY <1>1, <1>4, Becomes
<1>6. PICK p : p = [m EXCEPT !.cleanup = {k \in @ : k.by # Rec(o)}]
  OBVIOUS
<1>7. Keeps(mgr, p)
  BY <1>2, <1>6, MgrIs DEF Keeps, MgrFields
<1>8. mgr' = RecoverFence(p, o)
  BY <1>1, <1>6
<1> QED
  BY <1>2, <1>3, <1>5, <1>7, <1>8, LateMoves

LEMMA LastGraceFine == ASSUME ManagerInv, NEW o \in ops, LastGrace(o) PROVE Fine
<1>1. TodoStay /\ LastStays /\ UNCHANGED <<flightVars, job, ses, notes, mgr>> /\ o.owner # "job"
  BY TodoSame, LastSame DEF LastGrace
<1>2. PICK n : n = [o EXCEPT !.owner = "residual"]
  OBVIOUS
<1>3. DOMAIN n = OpFields /\ n.id = o.id /\ n.chat = o.chat
  BY <1>2, Becomes
<1>4. ops' = Put(o, n)
  BY <1>2 DEF LastGrace
<1> QED
  BY <1>1, <1>3, <1>4, KeepsIt, LateMoves

-----------------------------------------------------------------------------
(***************************************************************************)
(* The start, and every step.                                              *)
(***************************************************************************)

LEMMA NumberedIs ==
    ASSUME NEW C, IsFiniteSet(C)
    PROVE  /\ Cardinality(C) \in Nat /\ Numbered(C) \in [1..Cardinality(C) -> C]
           /\ \A c \in C : \E n \in 1..Cardinality(C) : Numbered(C)[n] = c
<1>1. Cardinality(C) \in Nat /\ ExistsBijection(1..Cardinality(C), C)
  BY FS_CardinalityType
<1>2. \E f \in [1..Cardinality(C) -> C] : \A c \in C : \E n \in 1..Cardinality(C) : f[n] = c
  BY <1>1 DEF ExistsBijection, Bijection, Surjection
<1> QED
  BY <1>1, <1>2 DEF Numbered

LEMMA InitFine == Init => ManagerInv
<1> SUFFICES ASSUME Init PROVE ManagerInv
  OBVIOUS
<1>1. /\ todo \in [n : [Faults -> Nat], kind : [Jobs -> Kinds], chat : [Jobs -> Chats],
                   open : SUBSET Chats, stored : SUBSET Chats,
                   limit : Nat \ {0}, mute : BOOLEAN, held : BOOLEAN]
      /\ IsFiniteSet(todo.open)
  BY ScenarioAssumption DEF Init
<1>2. DOMAIN todo = TodoFields /\ todo.limit \in Nat /\ todo.open \subseteq Keys /\ \A j \in Jobs : todo.chat[j] \in Keys
  BY <1>1 DEF TodoFields, Chats
<1> DEFINE N == Cardinality(todo.open)
           chat == Numbered(todo.open)
           at(c) == CHOOSE n \in 1..N : chat[n] = c
<1>3. N \in Nat /\ chat \in [1..N -> todo.open] /\ \A c \in todo.open : \E n \in 1..N : chat[n] = c
  BY <1>1, NumberedIs
<1>4. ses = [n \in 1..N |-> NewSes(chat[n], n, 1, <<chat[n], 0>>, todo.held)]
  BY DEF Init
<1>5. PICK m : /\ m = [byChat |-> [c \in Chats |-> IF c \in todo.open THEN at(c) ELSE None],
                       byRoute |-> [n \in 1..N |-> n],
                       cleanup |-> {}, retired |-> {}, retiring |-> {}, invalid |-> {},
                       slotGen |-> [c \in Chats |-> 0], closed |-> FALSE,
                       fence |-> [c \in Chats |-> None], slots |-> 0, refused |-> {}]
               /\ mgr = m
  BY DEF Init
<1>6. \A c \in todo.open : at(c) \in 1..N
  BY <1>3
<1> HIDE DEF N, chat, at
<1>7. /\ DOMAIN mgr = MgrFields /\ mgr.byChat = [c \in Keys |-> IF c \in todo.open THEN at(c) ELSE None]
      /\ mgr.fence = [c \in Keys |-> None] /\ mgr.slots = 0
  BY <1>5 DEF MgrFields, Chats
<1>8. SesShaped(ses)
  <2>1. \A n \in 1..N : chat[n] \in Keys
    BY <1>2, <1>3
  <2>2. ASSUME NEW c \in Keys, NEW n, NEW p, NEW h
        PROVE  DOMAIN NewSes(c, n, 1, p, h) = SesFields /\ NewSes(c, n, 1, p, h).chat \in Keys
    BY DEF NewSes, SesFields
  <2>3. DOMAIN ses = 1..N /\ \A n \in 1..N : ses[n] = NewSes(chat[n], n, 1, <<chat[n], 0>>, todo.held)
    BY <1>4
  <2>4. ASSUME NEW n \in 1..N PROVE DOMAIN ses[n] = SesFields /\ ses[n].chat \in Keys
    <3>1. PICK p : p = <<chat[n], 0>>
      OBVIOUS
    <3>2. ses[n] = NewSes(chat[n], n, 1, p, todo.held)
      BY <2>3, <3>1
    <3> QED
      BY <2>1, <2>2, <3>2
  <2> QED
    BY <1>3, <2>3, <2>4 DEF SesShaped
<1>9. MgrShaped(mgr, ses)
  <2>1. DOMAIN ses = 1..N
    BY <1>4
  <2> QED
    BY <1>6, <1>7, <2>1 DEF MgrShaped
<1>10. JobsShaped /\ \A j \in Jobs : job[j].pc = "new"
  <2>1. ASSUME NEW k, NEW c \in Keys
        PROVE  DOMAIN NewJob(k, c) = JobFields /\ NewJob(k, c).chat \in Keys /\ NewJob(k, c).pc = "new"
    BY DEF NewJob, JobFields
  <2>2. job = [j \in Jobs |-> NewJob(todo.kind[j], todo.chat[j])]
    BY DEF Init
  <2> QED
    BY <1>2, <2>1, <2>2 DEF JobsShaped
<1>11. ops = {} /\ notes = {} /\ last = 0
  BY DEF Init
<1>12. Shaped
  BY <1>2, <1>8, <1>9, <1>10, <1>11 DEF Shaped, NotesShaped
<1>13. OpsOwned
  BY <1>10, <1>11 DEF OpsOwned, Opening
<1>14. IsFiniteSet(ops) /\ Cardinality(ops) = 0
  BY <1>11, FS_EmptySet
<1>15. SlotsAccounted
  BY <1>2, <1>7, <1>14 DEF SlotsAccounted, DetachedOpenLimit, Chats
<1> QED
  BY <1>12, <1>13, <1>14, <1>15 DEF ManagerInv

LEMMA JobStepFine == ASSUME ManagerInv, NEW j \in Jobs, JobStep(j) PROVE Fine
BY JoinFine, WakeFine, CheckFine, HydrateFine, TakeSlotFine, OpenAnsweredFine, LeaveAnsweredFine,
   LeaveTimeoutFine, PublishFine, DiscardFine, DiscardedFine, StopFine, StopWaitedFine, DrainFine,
   DrainedFine, CommitFine, QuiesceFine, SweepFine DEF JobStep

LEMMA OpStepFine == ASSUME ManagerInv, NEW o \in ops, OpStep(o) PROVE Fine
BY RetryOpenFine, SettleFine, LateClosedFine, RecoverFine, ListedFine, PurgedFine, LastGraceFine DEF OpStep

LEMMA CancelsFine == ASSUME ManagerInv, NEW j \in Jobs, Cancels(j) PROVE Fine
BY CancelInLineFine, CancelAtFenceFine, CancelOpenFine DEF Cancels

LEMMA ProgressFine == ASSUME ManagerInv, Progress PROVE Fine
<1>1. CASE \E j \in Jobs : JobStep(j) \/ Cancels(j)
  BY <1>1, JobStepFine, CancelsFine
<1>2. CASE \E o \in ops : OpStep(o)
  BY <1>2, OpStepFine
<1>3. CASE \E x \in DOMAIN ses : SesClosed(x)
  BY <1>3, SesClosedFine
<1>4. CASE \E c \in calls : Write(c)
  BY <1>4, WriteFine
<1>5. CASE \E w \in wire : Engine(w)
  BY <1>5, EngineFine
<1>6. CASE \E n \in notes : NoteDown(n) \/ NoteUp(n) \/ EnqueueReconciliation(n)
  BY <1>6, NoteDownFine, NoteUpFine, EnqueueFine
<1>7. CASE Reconnect \/ ObserveLoss \/ ObserveEpoch
  BY <1>7, ReconnectFine, ObserveLossFine, ObserveEpochFine
<1> QED
  BY <1>1, <1>2, <1>3, <1>4, <1>5, <1>6, <1>7 DEF Progress

LEMMA FaultyFine == ASSUME ManagerInv, Faulty PROVE Fine
<1>1. CASE \E j \in Jobs : Start(j) \/ Shutdown(j) \/ Cancels(j)
  BY <1>1, StartFine, ShutdownFine, CancelsFine
<1>2. CASE \E c \in calls : DialFails(c)
  BY <1>2, DialFailsFine
<1>3. CASE \E w \in wire : Engine(w)
  BY <1>3, EngineFine
<1>4. CASE EngineUnload \/ Lose \/ Restart \/ ReconnectFails
  BY <1>4, UnloadFine, LoseFine, ReconnectFailsFine
<1> QED
  BY <1>1, <1>2, <1>3, <1>4 DEF Faulty

LEMMA NextFine == ManagerInv /\ [Next]_vars => Fine
<1>1. ASSUME ManagerInv, Next PROVE Fine
  BY <1>1, ProgressFine, FaultyFine DEF Next
<1>2. ASSUME ManagerInv, UNCHANGED vars PROVE Fine
  BY <1>2, OutsideFine, TodoSame, SameNotes DEF vars, mgrVars
<1> QED
  BY <1>1, <1>2

\* The invariant of the manager.
LEMMA ManagerInvariant == Spec => []ManagerInv
<1>1. ManagerInv /\ [Next]_vars => ManagerInv'
  BY NextFine DEF Fine
<1> QED
  BY <1>1, InitFine, PTL DEF Spec

\* What the manager does with permits is what keyedFlight does.
LEMMA ManagerFlies == Spec => FlightSpec
<1>1. Init => FlightInit
  BY DEF Init
<1>2. ManagerInv /\ [Next]_vars => [FlightNext]_flightVars
  BY NextFine DEF Fine
<1> QED
  BY <1>1, <1>2, ManagerInvariant, PTL DEF Spec, FlightSpec

-----------------------------------------------------------------------------
(***************************************************************************)
(* Deletion: the inductive invariant.                                      *)
(***************************************************************************)

StoreFields == {"gone", "deleting", "ver", "path"}
StoreShaped == DOMAIN store = Keys /\ \A c \in Keys : DOMAIN store[c] = StoreFields /\ store[c].ver \in Nat

Checking == {"connect", "auto", "reconcile"}

\* Operation x is past the point where it learns the version of its chat.
Prepared(x) ==
    /\ x.kind \in Checking /\ x.pc \notin {"new", "done"}
    /\ ~(x.kind = "reconcile" /\ x.pc = "line" /\ x.try = 1)

\* It knows no version of the future, and none of a chat that is being deleted.
Timely(x, r) == x.ver \in Nat /\ x.ver <= r.ver /\ (r.gone \/ r.deleting => x.ver < r.ver)

Deletes(x) == x.kind = "delete" /\ x.pc \notin {"new", "done"}
Emptied(x) == x.kind = "delete" /\ x.pc \in {"drain", "draining", "commit"}
Empties(x) == x.kind = "delete" /\ x.pc = "closing"

\* Where only acquisitions are.
OpenPcs == {"hydrate", "slot", "opening", "publish"}

DeletePcs == {"new", "ready", "line", "closing", "drain", "draining", "commit", "done"}

\* Whatever session slot s holds, no checked acquisition has left it there.
Bare(s, t) == s # None => ~t[s].checked

JobTimely(j) ==
    /\ job[j].kind = "delete" => job[j].pc \in DeletePcs
    /\ job[j].pc \in OpenPcs => job[j].kind \in Acquires
    /\ job[j].pc = "commit" => job[j].kind = "delete"
    /\ job[j].pc = "new" => job[j].try = 1
    /\ Prepared(job[j]) => Timely(job[j], store[job[j].chat])
    /\ Deletes(job[j]) => store[job[j].chat].deleting
    /\ Emptied(job[j]) => Bare(mgr.byChat[job[j].chat], ses)
    /\ Empties(job[j]) => mgr.byChat[job[j].chat] = job[j].s \/ Bare(mgr.byChat[job[j].chat], ses)

\* The session in a chat's slot is the chat's and is not closed.
SlotOpen(s, c, t) == s # None => t[s].chat = c /\ t[s].st # "closed"

DeleteInv ==
    /\ StoreShaped
    /\ \A j \in Jobs : JobTimely(j)
    /\ \A i, j \in Jobs : Deletes(job[i]) /\ Deletes(job[j]) /\ job[i].chat = job[j].chat => i = j
    /\ \A c \in Keys : store[c].gone => Bare(mgr.byChat[c], ses)
    /\ \A c \in Keys : SlotOpen(mgr.byChat[c], c, ses)

-----------------------------------------------------------------------------
(***************************************************************************)
(* Deletion: what most steps do.                                           *)
(***************************************************************************)

\* An operation goes from x to y without learning a version, or coming nearer to an
\* empty slot.
Eases(x, y) ==
    /\ y.kind = x.kind /\ y.chat = x.chat
    /\ y.kind = "delete" /\ x.pc \in DeletePcs => y.pc \in DeletePcs
    /\ y.pc \in OpenPcs => x.pc \in OpenPcs \/ y.kind \in Acquires
    /\ y.pc = "commit" => x.pc = "commit" \/ y.kind = "delete"
    /\ y.pc = "new" => x.pc = "new" /\ y.try = x.try
    /\ Prepared(y) => Prepared(x) /\ y.ver = x.ver
    /\ Deletes(y) => Deletes(x)
    /\ Emptied(y) => Emptied(x)
    /\ Empties(y) => Empties(x) /\ y.s = x.s

JobsEase == \A j \in Jobs : Eases(job[j], job'[j])

\* ... or learns a version, and sees a slot empty, as it may.
Learns(j) == JobTimely(j)' /\ (Deletes(job'[j]) => Deletes(job[j]) /\ job'[j].chat = job[j].chat)
JobsLearn == \A j \in Jobs : Eases(job[j], job'[j]) \/ Learns(j)

\* No record goes or is marked for deletion, and no deletion is left unmarked.
StoreEases ==
    /\ StoreShaped'
    /\ \A c \in Keys : /\ store'[c].gone = store[c].gone /\ store'[c].ver = store[c].ver
                       /\ store'[c].deleting => store[c].deleting
    /\ \A j \in Jobs : Deletes(job'[j]) => store'[job'[j].chat].deleting

\* A slot keeps its session, or is emptied.
SlotsEase ==
    \A c \in Keys :
        LET s == mgr.byChat[c]
        IN  mgr'.byChat[c] = s \/ mgr'.byChat[c] = None

\* Sessions in slots are the same but for what they have come to.
SesEase ==
    \A c \in Keys :
        LET s == mgr'.byChat[c]
        IN  s # None => /\ ses'[s].chat = ses[s].chat /\ ses'[s].checked = ses[s].checked
                        /\ ses'[s].st = "closed" => ses[s].st = "closed"

LEMMA LearnKeeps ==
    ASSUME ManagerInv, DeleteInv, JobsLearn, StoreEases, SlotsEase, SesEase
    PROVE  DeleteInv'
<1>1. \A c \in Keys : /\ Bare(mgr.byChat[c], ses) => Bare(mgr'.byChat[c], ses')
                      /\ SlotOpen(mgr.byChat[c], c, ses) => SlotOpen(mgr'.byChat[c], c, ses')
  BY DEF SlotsEase, SesEase, Bare, SlotOpen, None
<1>2. \A j \in Jobs : Eases(job[j], job'[j]) => job[j].chat \in Keys /\ job'[j].chat = job[j].chat
  BY JobIs DEF Eases
<1>3. ASSUME NEW j \in Jobs, Eases(job[j], job'[j]) PROVE JobTimely(j)'
  <2> DEFINE c == job[j].chat
  <2>1. JobTimely(j) /\ c \in Keys /\ job'[j].chat = c
    BY <1>2, <1>3 DEF DeleteInv
  <2>2. Prepared(job'[j]) => Timely(job'[j], store'[c])
    <3>1. ASSUME Prepared(job'[j]) PROVE Prepared(job[j]) /\ job'[j].ver = job[j].ver
      BY <1>3, <3>1 DEF Eases
    <3>2. /\ store'[c].gone = store[c].gone /\ store'[c].ver = store[c].ver
          /\ store'[c].deleting => store[c].deleting
      BY <2>1 DEF StoreEases
    <3> QED
      BY <2>1, <3>1, <3>2 DEF JobTimely, Timely
  <2>3. Deletes(job'[j]) => store'[c].deleting
    BY <2>1 DEF StoreEases
  <2>4. Emptied(job'[j]) => Bare(mgr'.byChat[c], ses')
    BY <1>1, <1>3, <2>1 DEF JobTimely, Eases
  <2>5. Empties(job'[j]) => mgr'.byChat[c] = job'[j].s \/ Bare(mgr'.byChat[c], ses')
    <3>1. ASSUME Empties(job'[j]) PROVE Empties(job[j]) /\ job'[j].s = job[j].s
      BY <1>3, <3>1 DEF Eases
    <3>2. Bare(None, ses')
      BY DEF Bare
    <3> QED
      BY <1>1, <2>1, <3>1, <3>2 DEF JobTimely, SlotsEase
  <2>6. /\ job'[j].kind = "delete" => job'[j].pc \in DeletePcs
        /\ job'[j].pc \in OpenPcs => job'[j].kind \in Acquires
        /\ job'[j].pc = "commit" => job'[j].kind = "delete"
        /\ job'[j].pc = "new" => job'[j].try = 1
    BY <1>3, <2>1 DEF JobTimely, Eases
  <2> QED
    BY <2>1, <2>2, <2>3, <2>4, <2>5, <2>6 DEF JobTimely
<1>4. \A i, j \in Jobs : Deletes(job'[i]) /\ Deletes(job'[j]) /\ job'[i].chat = job'[j].chat => i = j
  BY <1>2 DEF DeleteInv, JobsLearn, Learns, Eases
<1>5. \A c \in Keys : store'[c].gone => Bare(mgr'.byChat[c], ses')
  BY <1>1 DEF DeleteInv, StoreEases
<1>6. \A c \in Keys : SlotOpen(mgr'.byChat[c], c, ses')
  BY <1>1 DEF DeleteInv
<1>7. \A j \in Jobs : JobTimely(j)'
  BY <1>3 DEF JobsLearn, Learns
<1> QED
  BY <1>4, <1>5, <1>6, <1>7 DEF DeleteInv, StoreEases

LEMMA EaseKeeps ==
    ASSUME ManagerInv, DeleteInv, JobsEase, StoreEases, SlotsEase, SesEase
    PROVE  DeleteInv'
BY LearnKeeps DEF JobsEase, JobsLearn

\* The parts of a step.
LEMMA JobsEaseSame == ASSUME job' = job PROVE JobsEase
BY DEF JobsEase, Eases

LEMMA JobEase ==
    ASSUME ManagerInv, NEW j \in Jobs, NEW r, job' = [job EXCEPT ![j] = r], Eases(job[j], r)
    PROVE  JobsEase
BY JobIs DEF JobsEase, Eases

LEMMA StoreSame ==
    ASSUME ManagerInv, DeleteInv, JobsEase \/ JobsLearn,
           store' = store \/ \E c, p : store' = [store EXCEPT ![c].path = p]
    PROVE  StoreEases
<1>1. /\ DOMAIN store' = Keys
      /\ \A c \in Keys : /\ DOMAIN store'[c] = StoreFields /\ store'[c].ver = store[c].ver
                         /\ store'[c].gone = store[c].gone /\ store'[c].deleting = store[c].deleting
  BY DEF DeleteInv, StoreShaped, StoreFields
<1>2. \A j \in Jobs : Deletes(job'[j]) => store'[job'[j].chat].deleting
  BY <1>1, JobIs DEF DeleteInv, JobTimely, JobsEase, JobsLearn, Learns, Eases
<1> QED
  BY <1>1, <1>2 DEF StoreEases, StoreShaped, DeleteInv

LEMMA SlotsSame == ASSUME mgr'.byChat = mgr.byChat PROVE SlotsEase
BY DEF SlotsEase

LEMMA SesEaseSame == ASSUME ses' = ses PROVE SesEase
BY DEF SesEase

\* A step that neither the jobs nor the chats' slots take part in.
LEMMA AsideKeeps ==
    ASSUME ManagerInv, DeleteInv, UNCHANGED <<job, store, ses>>, mgr'.byChat = mgr.byChat
    PROVE  DeleteInv'
BY JobsEaseSame, StoreSame, SlotsSame, SesEaseSame, EaseKeeps

\* An operation goes on by itself.
LEMMA AloneKeeps ==
    ASSUME ManagerInv, DeleteInv, UNCHANGED <<store, ses>>, mgr'.byChat = mgr.byChat, JobsEase
    PROVE  DeleteInv'
BY StoreSame, SlotsSame, SesEaseSame, EaseKeeps

\* An operation ends: a deletion that failed is unmarked.
LEMMA OverEases ==
    ASSUME ManagerInv, DeleteInv, NEW j \in Jobs, NEW ok,
           job' = [job EXCEPT ![j] = Over(@, ok)], store' = Unmarked(j, ok),
           job[j].pc \notin {"new", "done"}, ok /\ job[j].kind = "delete" => job[j].pc = "drain"
    PROVE  JobsEase /\ StoreEases
<1>1. PICK r : r = Over(job[j], ok)
  OBVIOUS
<1>2. /\ DOMAIN r = JobFields /\ r.chat = job[j].chat /\ r.kind = job[j].kind
      /\ r.pc = IF job[j].kind = "delete" /\ ok THEN "commit" ELSE "done"
  BY <1>1, JobIs DEF Over, JobFields
<1>3. Eases(job[j], r)
  BY <1>2 DEF Eases, Prepared, Checking, Deletes, Emptied, Empties, OpenPcs, DeletePcs
<1>4. JobsEase /\ job'[j] = r
  BY <1>1, <1>3, JobEase, JobIs
<1>5. CASE store' = store
  BY <1>4, <1>5, StoreSame
<1>6. CASE store' # store
  <2>1. store' = [store EXCEPT ![job[j].chat].deleting = FALSE] /\ job[j].kind = "delete" /\ ~ok
    BY <1>6 DEF Unmarked
  <2>2. /\ DOMAIN store' = Keys
        /\ \A c \in Keys : /\ DOMAIN store'[c] = StoreFields /\ store'[c].ver = store[c].ver
                           /\ store'[c].gone = store[c].gone
                           /\ c # job[j].chat => store'[c].deleting = store[c].deleting
    <3>1. PICK d, q : d = job[j].chat /\ q = [store[d] EXCEPT !.deleting = FALSE]
      OBVIOUS
    <3>2. d \in Keys /\ store' = [store EXCEPT ![d] = q]
      BY <2>1, <3>1, JobIs
    <3>3. DOMAIN q = StoreFields /\ q.ver = store[d].ver /\ q.gone = store[d].gone
      BY <3>1, <3>2 DEF DeleteInv, StoreShaped, StoreFields
    <3> QED
      BY <3>1, <3>2, <3>3 DEF DeleteInv, StoreShaped
  <2>4. ASSUME NEW i \in Jobs, Deletes(job'[i]) PROVE store'[job'[i].chat].deleting
    <3>1. Deletes(job[i]) /\ job'[i].chat = job[i].chat /\ job[i].chat \in Keys
      BY <1>4, <2>4, JobIs DEF JobsEase, Eases
    <3>2. i # j
      BY <1>2, <1>4, <2>1, <2>4 DEF Deletes
    <3>3. job[i].chat # job[j].chat
      BY <2>1, <3>1, <3>2 DEF DeleteInv, Deletes
    <3> QED
      BY <2>2, <3>1, <3>3 DEF DeleteInv, JobTimely
  <2>5. store[job[j].chat].deleting
    BY <2>1 DEF DeleteInv, JobTimely, Deletes
  <2> QED
    BY <1>4, <2>2, <2>4, <2>5 DEF StoreEases, StoreShaped, DeleteInv
<1> QED
  BY <1>4, <1>5, <1>6

LEMMA FinishEases ==
    ASSUME ManagerInv, DeleteInv, NEW j \in Jobs, NEW ok, Finish(j, ok), job[j].pc \notin {"new", "done"},
           ok /\ job[j].kind = "delete" => job[j].pc = "drain"
    PROVE  JobsEase /\ StoreEases
BY OverEases DEF Finish

\* Sessions are the same but for what they have come to; none is closed.
Softly(t, u) ==
    \A x \in DOMAIN t : /\ u[x].chat = t[x].chat /\ u[x].checked = t[x].checked
                        /\ u[x].st = "closed" => t[x].st = "closed"

LEMMA SoftlySame == ASSUME NEW t PROVE Softly(t, t)
BY DEF Softly

LEMMA SoftlyTwice ==
    ASSUME NEW t, NEW u, NEW v, SesKept(t, u), Softly(t, u), Softly(u, v)
    PROVE  Softly(t, v)
BY DEF Softly, SesKept

LEMMA InvalidatedSoftly == ASSUME ManagerInv, NEW m, NEW e PROVE Softly(ses, Invalidated(m, e))
<1> SUFFICES ASSUME NEW x \in DOMAIN ses
             PROVE  LET y == Invalidated(m, e)[x]
                    IN  /\ y.chat = ses[x].chat /\ y.checked = ses[x].checked
                        /\ y.st = "closed" => ses[x].st = "closed"
  BY DEF Softly
<1>1. DOMAIN ses[x] = SesFields
  BY SesIs
<1>2. PICK y : y = Invalidated(m, e)[x]
  OBVIOUS
<1>3. y = ses[x] \/ y = [ses[x] EXCEPT !.st = "resumable"]
  BY <1>2 DEF Invalidated
<1>4. y.chat = ses[x].chat /\ y.checked = ses[x].checked /\ (y.st = "closed" => ses[x].st = "closed")
  BY <1>1, <1>3 DEF SesFields
<1> QED
  BY <1>2, <1>4

LEMMA EditSoftly ==
    ASSUME NEW t, \A x \in DOMAIN t : DOMAIN t[x] = SesFields, NEW x, NEW v
    PROVE  /\ v # "closed" => Softly(t, St(t, x, v))
           /\ Softly(t, Held(t, x, v)) /\ Softly(t, Closing(t, x, v))
<1>1. ASSUME v # "closed" PROVE Softly(t, St(t, x, v))
  BY <1>1 DEF Softly, SesFields, St
<1>2. Softly(t, Held(t, x, v))
  BY DEF Softly, SesFields, Held
<1>3. Softly(t, Closing(t, x, v))
  BY DEF Softly, SesFields, Closing
<1> QED
  BY <1>1, <1>2, <1>3

LEMMA SoftlyEases == ASSUME ManagerInv, SlotsEase, Softly(ses, ses') PROVE SesEase
BY MgrIs DEF SlotsEase, Softly, SesEase

\* The manager may see that an epoch is lost.
LEMMA MaybeSoftly ==
    ASSUME ManagerInv, NEW m, NEW t, NEW e,
           (m = mgr /\ t = ses) \/ (m = Detach(mgr, e) /\ t = Invalidated(mgr, e))
    PROVE  m.byChat = mgr.byChat /\ Softly(ses, t) /\ \A x \in DOMAIN t : DOMAIN t[x] = SesFields
<1>1. Keeps(mgr, m) /\ SesKept(ses, t)
  BY MaybeDetached
<1> QED
  BY <1>1, KeptFields, SoftlySame, InvalidatedSoftly DEF Keeps

\* A step in which nothing happens to a job.
LEMMA SoftKeeps ==
    ASSUME ManagerInv, DeleteInv, UNCHANGED <<job, store>>, mgr'.byChat = mgr.byChat, Softly(ses, ses')
    PROVE  DeleteInv'
BY JobsEaseSame, StoreSame, SlotsSame, SoftlyEases, EaseKeeps

-----------------------------------------------------------------------------
(***************************************************************************)
(* Deletion: the connection, the engine, the opens that go on alone.       *)
(***************************************************************************)

LEMMA NetDeletes ==
    ASSUME ManagerInv, DeleteInv,
           \/ \E c : Write(c) \/ DialFails(c)
           \/ \E w : Engine(w)
           \/ EngineUnload \/ Lose \/ Restart \/ Reconnect \/ ObserveEpoch
           \/ \E n : NoteDown(n)
    PROVE  DeleteInv'
<1>1. mgr'.byChat = mgr.byChat
  <2>1. CASE ObserveEpoch
    BY <2>1, MgrIs DEF ObserveEpoch, MgrFields
  <2> QED
    BY <2>1 DEF Write, DialFails, Engine, EngineUnload, Lose, Restart, Down, Reconnect, NoteDown
<1>2. UNCHANGED <<job, store, ses>>
  BY DEF Write, DialFails, Engine, EngineUnload, Lose, Restart, Down, Reconnect, NoteDown, ObserveEpoch
<1> QED
  BY <1>1, <1>2, AsideKeeps

LEMMA LossDeletes ==
    ASSUME ManagerInv, DeleteInv, ReconnectFails \/ ObserveLoss \/ \E n : NoteUp(n)
    PROVE  DeleteInv'
<1>1. PICK e : \/ mgr' = mgr /\ ses' = ses
               \/ mgr' = Detach(mgr, e) /\ ses' = Invalidated(mgr, e)
  BY DEF ReconnectFails, ObserveLoss, NoteUp
<1>2. PICK m, t : m = mgr' /\ t = ses'
  OBVIOUS
<1>3. m.byChat = mgr.byChat /\ Softly(ses, t)
  BY <1>1, <1>2, MaybeSoftly
<1>4. UNCHANGED <<job, store>>
  BY DEF ReconnectFails, ObserveLoss, NoteUp
<1> QED
  BY <1>2, <1>3, <1>4, SoftKeeps

LEMMA OpDeletes == ASSUME ManagerInv, DeleteInv, NEW o \in ops, OpStep(o) PROVE DeleteInv'
<1>1. UNCHANGED <<job, store, ses>>
  BY DEF OpStep, RetryOpen, Settle, LateClosed, Recover, Listed, Purged, LastGrace
<1>2. CASE RetryOpen(o) \/ LastGrace(o)
  BY <1>1, <1>2, AsideKeeps DEF RetryOpen, LastGrace
<1>3. CASE Settle(o)
  <2>1. PICK x : mgr' = Remember(mgr, x) \/ mgr' = ClearMarker(mgr, o)
    BY <1>3 DEF Settle
  <2>2. Keeps(mgr, Remember(mgr, x)) /\ Keeps(mgr, mgr)
    BY MgrIs, RetiringKeeps, KeepsIt
  <2>3. mgr'.byChat = mgr.byChat
    BY <2>1, <2>2, ClearedIs DEF Keeps
  <2> QED
    BY <1>1, <2>3, AsideKeeps
<1>4. CASE LateClosed(o)
  <2>1. PICK m \in {mgr, Forget(mgr, o.rt)} : mgr' = ClearMarker(m, o)
    BY <1>4 DEF LateClosed
  <2>2. Keeps(mgr, m)
    BY <2>1, MgrIs, RetiringKeeps, KeepsIt
  <2> QED
    BY <1>1, <2>1, <2>2, ClearedIs, AsideKeeps
<1>5. CASE Recover(o)
  <2>1. mgr' = mgr \/ mgr' = RecoverFence(mgr, o)
    BY <1>5 DEF Recover
  <2>2. mgr'.byChat = mgr.byChat
    BY <2>1, KeepsIt, RecoveredIs
  <2> QED
    BY <1>1, <2>2, AsideKeeps
<1>6. CASE Listed(o)
  <2>1. ASSUME NEW r, NEW a, NEW x,
               mgr' = [Remember(mgr, x) EXCEPT !.retired = @ \cup {[route |-> r, ep |-> a.ep]},
                                                 !.cleanup = @ \cup {[route |-> r, by |-> Rec(o)]}]
        PROVE  mgr'.byChat = mgr.byChat
    <3>1. PICK m : m = Remember(mgr, x) /\ Keeps(mgr, m)
      BY MgrIs, RetiringKeeps
    <3>2. PICK p, q : p = m.retired \cup {[route |-> r, ep |-> a.ep]} /\ q = m.cleanup \cup {[route |-> r, by |-> Rec(o)]}
      OBVIOUS
    <3>3. DOMAIN m = MgrFields
      BY <3>1, MgrIs DEF Keeps
    <3>4. m.cleanup = [m EXCEPT !.retired = p].cleanup
      BY <3>3 DEF MgrFields
    <3>5. mgr' = [m EXCEPT !.retired = p, !.cleanup = q]
      BY <2>1, <3>1, <3>2, <3>4
    <3> QED
      BY <3>1, <3>3, <3>5 DEF Keeps, MgrFields
  <2>2. mgr'.byChat = mgr.byChat
    BY <1>6, <2>1, KeepsIt, RecoveredIs DEF Listed
  <2> QED
    BY <1>1, <2>2, AsideKeeps
<1>7. CASE Purged(o)
  <2>0. PICK m \in {mgr, Forget(mgr, o.rt)} :
            mgr' = RecoverFence([m EXCEPT !.cleanup = {k \in @ : k.by # Rec(o)}], o)
    BY <1>7 DEF Purged
  <2>1. PICK k : k = {i \in m.cleanup : i.by # Rec(o)} /\ mgr' = RecoverFence([m EXCEPT !.cleanup = k], o)
    BY <2>0
  <2>2. PICK n : n = [m EXCEPT !.cleanup = k]
    OBVIOUS
  <2>3. Keeps(mgr, m)
    BY <2>0, MgrIs, RetiringKeeps, KeepsIt
  <2>4. Keeps(mgr, n)
    BY <2>2, <2>3, MgrIs DEF Keeps, MgrFields
  <2> QED
    BY <1>1, <2>1, <2>2, <2>4, RecoveredIs, AsideKeeps
<1> QED
  BY <1>2, <1>3, <1>4, <1>5, <1>6, <1>7 DEF OpStep

-----------------------------------------------------------------------------
(***************************************************************************)
(* Deletion: the operations.                                               *)
(***************************************************************************)

LEMMA DeletePc ==
    ASSUME DeleteInv, NEW j \in Jobs, job[j].pc \notin DeletePcs
    PROVE  job[j].kind # "delete" /\ job[j].pc \notin {"new", "done"}
BY DEF DeleteInv, JobTimely, DeletePcs

LEMMA AgainEases ==
    ASSUME ManagerInv, DeleteInv, NEW j \in Jobs, AgainOrOver(j), job[j].pc \in {"hydrate", "publish"}
    PROVE  JobsEase /\ StoreEases
<1>1. job[j].kind # "delete" /\ job[j].pc \notin {"new", "done"}
  BY DeletePc DEF DeletePcs
<1>2. CASE Finish(j, FALSE)
  BY <1>1, <1>2, FinishEases
<1>3. CASE ~Finish(j, FALSE)
  <2>1. PICK r : /\ r = [job[j] EXCEPT !.pc = "line", !.try = 2, !.only = TRUE, !.fresh = FALSE]
                 /\ job' = [job EXCEPT ![j] = r] /\ store' = store
    BY <1>3 DEF AgainOrOver
  <2>2. /\ DOMAIN r = JobFields /\ r.kind = job[j].kind /\ r.chat = job[j].chat /\ r.ver = job[j].ver
        /\ r.pc = "line" /\ r.s = job[j].s
    BY <2>1, JobIs DEF JobFields
  <2>3. Eases(job[j], r)
    BY <1>1, <2>2 DEF Eases, Prepared, Checking, Deletes, Emptied, Empties, OpenPcs
  <2> QED
    BY <2>1, <2>3, JobEase, StoreSame
<1> QED
  BY <1>2, <1>3

LEMMA StartDeletes == ASSUME ManagerInv, DeleteInv, NEW j \in Jobs, Start(j) PROVE DeleteInv'
<1> DEFINE c == job[j].chat
<1>1. /\ job[j].pc = "new" /\ job[j].kind \in {"connect", "auto", "media", "stop", "delete"}
      /\ job[j].kind \in {"connect", "auto", "delete"} => Ok(c)
      /\ UNCHANGED <<mgr, ses>>
  BY DEF Start
<1>2. PICK o, r : /\ o = (job[j].kind \in {"connect", "media"} /\ store[c].path # NoPath)
                  /\ r = [job[j] EXCEPT !.pc = "ready", !.ver = store[c].ver, !.only = o]
                  /\ job' = [job EXCEPT ![j] = r]
  BY DEF Start
<1>3. /\ DOMAIN r = JobFields /\ r.kind = job[j].kind /\ r.chat = c /\ r.ver = store[c].ver
      /\ r.pc = "ready"
  BY <1>2, JobIs DEF JobFields
<1>4. c \in Keys /\ DOMAIN store[c] = StoreFields /\ store[c].ver \in Nat
  BY JobIs DEF DeleteInv, StoreShaped
<1>5. CASE job[j].kind # "delete"
  <2>1. store' = store
    BY <1>5 DEF Start
  <2>2. ASSUME NEW i \in Jobs PROVE JobTimely(i)'
    <3>1. CASE i = j
      BY <1>1, <1>2, <1>3, <1>4, <1>5, <2>1, <3>1, JobIs
         DEF JobTimely, Prepared, Timely, Checking, Deletes, Emptied, Empties, OpenPcs, Ok
    <3>2. CASE i # j
      <4>1. job'[i] = job[i] /\ JobTimely(i)
        BY <1>2, <3>2 DEF DeleteInv
      <4> QED
        BY <1>1, <2>1, <4>1 DEF JobTimely
    <3> QED
      BY <3>1, <3>2
  <2>3. \A i \in Jobs : Deletes(job'[i]) => Deletes(job[i]) /\ job'[i].chat = job[i].chat
    BY <1>2, <1>3, <1>5, JobIs DEF Deletes
  <2> QED
    BY <1>1, <2>1, <2>2, <2>3 DEF DeleteInv, StoreShaped
<1>6. CASE job[j].kind = "delete"
  <2>1. PICK v, q : /\ v = store[c].ver + 1
                    /\ q = [store[c] EXCEPT !.deleting = TRUE, !.ver = v] /\ store' = [store EXCEPT ![c] = q]
    <3>1. PICK v : v = store[c].ver + 1
      OBVIOUS
    <3>2. store' = [store EXCEPT ![c].deleting = TRUE, ![c].ver = @ + 1]
      BY <1>6 DEF Start
    <3>3. PICK t, q1 : t = TRUE /\ q1 = [store[c] EXCEPT !.deleting = t]
      OBVIOUS
    <3>4. q1.ver = store[c].ver
      BY <1>4, <3>3 DEF StoreFields
    <3>5. PICK s1 : s1 = [store EXCEPT ![c] = q1]
      OBVIOUS
    <3>6. s1[c] = q1
      BY <1>4, <3>5 DEF DeleteInv, StoreShaped
    <3>7. s1 = [store EXCEPT ![c].deleting = TRUE]
      BY <3>3, <3>5
    <3>8. store' = [s1 EXCEPT ![c].ver = s1[c].ver + 1]
      BY <3>2, <3>7
    <3>9. store' = [s1 EXCEPT ![c] = [q1 EXCEPT !.ver = v]]
      BY <3>1, <3>4, <3>6, <3>8
    <3>10. store' = [store EXCEPT ![c] = [q1 EXCEPT !.ver = v]]
      BY <1>4, <3>5, <3>9 DEF DeleteInv, StoreShaped
    <3>11. PICK q : q = [q1 EXCEPT !.ver = v]
      OBVIOUS
    <3>12. q = [store[c] EXCEPT !.deleting = TRUE, !.ver = v]
      BY <3>3, <3>11
    <3> QED
      BY <3>1, <3>10, <3>11, <3>12
  <2>2. PICK tt : tt = TRUE
    OBVIOUS
  <2>3. DOMAIN q = StoreFields /\ q.ver = store[c].ver + 1 /\ q.gone = store[c].gone /\ q.deleting = tt
    BY <1>4, <2>1, <2>2 DEF StoreFields
  <2>4. q.deleting /\ q.ver \in Nat /\ q.ver > store[c].ver
    BY <1>4, <2>2, <2>3
  <2>5. \A d \in Keys : store'[d] = IF d = c THEN q ELSE store[d]
    BY <2>1 DEF DeleteInv, StoreShaped
  <2>6. ASSUME NEW i \in Jobs, i # j PROVE JobTimely(i)'
    <3>1. job'[i] = job[i] /\ JobTimely(i) /\ job[i].chat \in Keys
      BY <1>2, <2>6, JobIs DEF DeleteInv
    <3>2. CASE job[i].chat # c
      BY <1>1, <2>5, <3>1, <3>2 DEF JobTimely
    <3>3. CASE job[i].chat = c
      <4>1. Prepared(job[i]) => Timely(job[i], q)
        BY <1>4, <2>3, <2>4, <3>1, <3>3 DEF JobTimely, Timely
      <4> QED
        BY <1>1, <2>4, <2>5, <3>1, <3>3, <4>1 DEF JobTimely
    <3> QED
      BY <3>2, <3>3
  <2>7. job'[j] = r
    BY <1>2, JobIs
  <2>8. JobTimely(j)'
    BY <1>3, <1>4, <1>6, <2>4, <2>5, <2>7 DEF JobTimely, Prepared, Checking, Deletes, Emptied, Empties, OpenPcs, DeletePcs
  <2>9. ASSUME NEW i \in Jobs, Deletes(job[i]) PROVE job[i].chat # c
    BY <1>1, <1>6, <2>9 DEF Ok, DeleteInv, JobTimely
  <2>10. \A i, k \in Jobs : Deletes(job'[i]) /\ Deletes(job'[k]) /\ job'[i].chat = job'[k].chat => i = k
    <3>1. \A i \in Jobs : i # j => job'[i] = job[i]
      BY <1>2
    <3> QED
      BY <1>3, <2>7, <2>9, <3>1 DEF DeleteInv
  <2>11. StoreShaped'
    BY <2>1, <2>3, <2>4, <2>5 DEF StoreShaped, DeleteInv
  <2>12. \A d \in Keys : store'[d].gone => Bare(mgr'.byChat[d], ses')
    BY <1>1, <2>3, <2>5 DEF DeleteInv
  <2> QED
    BY <1>1, <2>6, <2>8, <2>10, <2>11, <2>12 DEF DeleteInv
<1> QED
  BY <1>5, <1>6

\* An operation goes from one place to another and changes some fields no result needs.
LEMMA StepEases ==
    ASSUME ManagerInv, NEW j \in Jobs, NEW r, job' = [job EXCEPT ![j] = r],
           r.kind = job[j].kind, r.chat = job[j].chat, r.ver = job[j].ver, r.pc # "commit",
           job[j].kind = "delete" => r.pc \in {"line", "drain", "draining", "done"},
           r.pc \in OpenPcs => job[j].pc \in OpenPcs,
           r.pc \in {"drain", "draining"} /\ job[j].kind = "delete" => job[j].pc \in {"drain", "draining"},
           job[j].pc \notin {"new", "done"}, r.pc # "new",
           job[j].pc = "line" => job[j].kind # "reconcile"
    PROVE  JobsEase
<1>1. Eases(job[j], r)
  BY DEF Eases, Prepared, Checking, Deletes, Emptied, Empties, OpenPcs, DeletePcs
<1> QED
  BY <1>1, JobEase

LEMMA JoinDeletes == ASSUME ManagerInv, DeleteInv, NEW j \in Jobs, Join(j) PROVE DeleteInv'
<1>1. UNCHANGED <<mgr, ses, store>> /\ job[j].pc = "ready"
  BY DEF Join
<1>2. CASE job' = [job EXCEPT ![j].pc = "line"]
  <2>1. PICK r : r = [job[j] EXCEPT !.pc = "line"] /\ job' = [job EXCEPT ![j] = r]
    BY <1>2
  <2>2. r.kind = job[j].kind /\ r.chat = job[j].chat /\ r.ver = job[j].ver /\ r.s = job[j].s /\ r.pc = "line"
    BY <2>1, JobIs DEF JobFields
  <2>3. JobsEase
    BY <1>1, <2>1, <2>2, StepEases DEF OpenPcs
  <2> QED
    BY <1>1, <2>3, AloneKeeps
<1>3. CASE job' # [job EXCEPT ![j].pc = "line"]
  <2>1. job' = [job EXCEPT ![j] = Over(@, FALSE)] /\ job[j].kind \in Acquires
    BY <1>3 DEF Join
  <2>2. store' = Unmarked(j, FALSE)
    BY <1>1, <2>1 DEF Unmarked, Acquires
  <2>3. JobsEase
    BY <1>1, <2>1, <2>2, OverEases
  <2> QED
    BY <1>1, <2>3, AloneKeeps
<1> QED
  BY <1>2, <1>3

LEMMA EndsDelete ==
    ASSUME ManagerInv, DeleteInv, NEW j \in Jobs, NEW ok, Finish(j, ok), job[j].pc \notin {"new", "done"},
           ok /\ job[j].kind = "delete" => job[j].pc = "drain",
           mgr'.byChat = mgr.byChat, Softly(ses, ses')
    PROVE  DeleteInv'
BY FinishEases, SlotsSame, SoftlyEases, EaseKeeps

LEMMA CancelsDelete == ASSUME ManagerInv, DeleteInv, NEW j \in Jobs, Cancels(j) PROVE DeleteInv'
<1>1. UNCHANGED <<mgr, ses>>
  BY DEF Cancels, CancelInLine, CancelAtFence, CancelOpen
<1>2. CASE CancelInLine(j)
  <2>1. JobsEase /\ StoreEases
    BY <1>2, OverEases DEF CancelInLine
  <2> QED
    BY <1>1, <2>1, SlotsSame, SesEaseSame, EaseKeeps
<1>3. CASE CancelAtFence(j)
  BY <1>1, <1>3, EndsDelete, SoftlySame DEF CancelAtFence, Turn
<1>4. CASE CancelOpen(j)
  <2>1. PICK r : r = [job[j] EXCEPT !.pc = "leaving"] /\ job' = [job EXCEPT ![j] = r]
    BY <1>4 DEF CancelOpen
  <2>2. r.kind = job[j].kind /\ r.chat = job[j].chat /\ r.ver = job[j].ver /\ r.s = job[j].s /\ r.pc = "leaving"
    BY <2>1, JobIs DEF JobFields
  <2>3. job[j].pc = "opening"
    BY <1>4 DEF CancelOpen, Turn
  <2>4. job[j].kind # "delete" /\ job[j].pc \notin {"new", "done"}
    BY <2>3, DeletePc DEF DeletePcs
  <2>5. JobsEase
    BY <2>1, <2>2, <2>3, <2>4, StepEases DEF OpenPcs
  <2>6. store' = store
    BY <1>4 DEF CancelOpen
  <2> QED
    BY <1>1, <2>5, <2>6, AloneKeeps
<1> QED
  BY <1>2, <1>3, <1>4 DEF Cancels

LEMMA HydrateDeletes == ASSUME ManagerInv, DeleteInv, NEW j \in Jobs, Hydrate(j) PROVE DeleteInv'
<1>1. job[j].pc = "hydrate" /\ job[j].kind # "delete"
  <2>1. job[j].pc = "hydrate"
    BY DEF Hydrate, Turn
  <2> QED
    BY <2>1, DeletePc DEF DeletePcs
<1>2. JobsEase /\ StoreEases
  <2>1. PICK ok : Finish(j, ok) \/ AgainOrOver(j)
    BY DEF Hydrate
  <2> QED
    BY <1>1, <2>1, FinishEases, AgainEases
<1>3. PICK m, t, e : /\ (m = mgr /\ t = ses) \/ (m = Detach(mgr, e) /\ t = Invalidated(mgr, e))
                     /\ mgr' = m
                     /\ ses' = t \/ (t = ses /\ \E x : ses' = St(t, x, "resumable"))
  BY DEF Hydrate, St
<1>4. m.byChat = mgr.byChat /\ Softly(ses, t) /\ \A x \in DOMAIN t : DOMAIN t[x] = SesFields
  BY <1>3, MaybeSoftly
<1>5. Softly(ses, ses')
  <2>1. PICK v : v = "resumable"
    OBVIOUS
  <2>2. v # "closed"
    BY <2>1
  <2> QED
    BY <1>3, <1>4, <2>1, <2>2, EditSoftly
<1> QED
  BY <1>2, <1>3, <1>4, <1>5, SlotsSame, SoftlyEases, EaseKeeps

LEMMA TakeSlotDeletes == ASSUME ManagerInv, DeleteInv, NEW j \in Jobs, TakeSlot(j) PROVE DeleteInv'
<1>1. job[j].pc = "slot" /\ job[j].kind # "delete" /\ ses' = ses
  <2>1. job[j].pc = "slot" /\ ses' = ses
    BY DEF TakeSlot, Turn
  <2> QED
    BY <2>1, DeletePc DEF DeletePcs
<1>2. CASE Finish(j, FALSE) /\ UNCHANGED mgr
  BY <1>1, <1>2, EndsDelete, SoftlySame
<1>3. CASE ~(Finish(j, FALSE) /\ UNCHANGED mgr)
  <2>1. /\ mgr' = [mgr EXCEPT !.slots = @ + 1, !.fence[job[j].chat] = last + 1]
        /\ job' = [job EXCEPT ![j].pc = "opening", ![j].got = <<last + 1>>] /\ store' = store
    BY <1>3 DEF TakeSlot
  <2>2. mgr'.byChat = mgr.byChat
    BY <2>1, MgrIs DEF MgrFields
  <2>3. PICK g : g = <<last + 1>>
    OBVIOUS
  <2>4. PICK r : r = [job[j] EXCEPT !.pc = "opening", !.got = g] /\ job' = [job EXCEPT ![j] = r]
    BY <2>1, <2>3
  <2>5. r.kind = job[j].kind /\ r.chat = job[j].chat /\ r.ver = job[j].ver /\ r.s = job[j].s /\ r.pc = "opening"
    BY <2>4, JobIs DEF JobFields
  <2>6. JobsEase
    BY <1>1, <2>4, <2>5, StepEases DEF OpenPcs
  <2> QED
    BY <1>1, <2>1, <2>2, <2>6, AloneKeeps
<1> QED
  BY <1>2, <1>3

LEMMA MarkerKeeps == ASSUME ManagerInv, NEW o, mgr' = ClearMarker(mgr, o) PROVE mgr'.byChat = mgr.byChat
BY KeepsIt, ClearedIs

LEMMA OpenAnsweredDeletes == ASSUME ManagerInv, DeleteInv, NEW j \in Jobs, OpenAnswered(j) PROVE DeleteInv'
<1>1. job[j].pc = "opening" /\ job[j].kind # "delete" /\ ses' = ses /\ mgr'.byChat = mgr.byChat
  <2>1. job[j].pc = "opening" /\ ses' = ses /\ \E o : mgr' = ClearMarker(mgr, o)
    BY DEF OpenAnswered, Turn
  <2> QED
    BY <2>1, DeletePc, MarkerKeeps DEF DeletePcs
<1>2. CASE Finish(j, FALSE)
  BY <1>1, <1>2, EndsDelete, SoftlySame
<1>3. CASE ~Finish(j, FALSE)
  <2>1. /\ \/ job' = [job EXCEPT ![j].pc = "slot", ![j].fresh = TRUE]
           \/ \E g, f, p : job' = [job EXCEPT ![j].got = g, ![j].fresh = f, ![j].pc = p] /\ p \in {"discard", "publish"}
        /\ store' = store \/ \E v : store' = [store EXCEPT ![job[j].chat].path = v]
    <3>1. PICK o, a : \/ /\ job' = [job EXCEPT ![j].got = <<a.got[1], a.ep, a.got[2]>>, ![j].fresh = o.path = NoPath,
                                       ![j].pc = IF store[job[j].chat].gone /\ ~job[j].fresh /\ o.path = NoPath
                                                 THEN "discard" ELSE "publish"]
                         /\ store' = IF store[job[j].chat].gone \/ job[j].fresh THEN store
                                     ELSE [store EXCEPT ![job[j].chat].path = a.got[2]]
                      \/ job' = [job EXCEPT ![j].pc = "slot", ![j].fresh = TRUE] /\ store' = store
      BY <1>3 DEF OpenAnswered
    <3>2. PICK g, f, p, v : /\ g = <<a.got[1], a.ep, a.got[2]>> /\ f = (o.path = NoPath) /\ v = a.got[2]
                            /\ p = IF store[job[j].chat].gone /\ ~job[j].fresh /\ o.path = NoPath
                                   THEN "discard" ELSE "publish"
      OBVIOUS
    <3>3. \/ /\ job' = [job EXCEPT ![j].got = g, ![j].fresh = f, ![j].pc = p]
             /\ store' = store \/ store' = [store EXCEPT ![job[j].chat].path = v]
          \/ job' = [job EXCEPT ![j].pc = "slot", ![j].fresh = TRUE] /\ store' = store
      BY <3>1, <3>2
    <3>4. p \in {"discard", "publish"}
      BY <3>2
    <3> QED
      BY <3>3, <3>4
  <2>2. PICK r, p : /\ job' = [job EXCEPT ![j] = r] /\ p \in {"discard", "publish", "slot"}
                    /\ r.kind = job[j].kind /\ r.chat = job[j].chat /\ r.ver = job[j].ver /\ r.s = job[j].s /\ r.pc = p
    <3>1. CASE job' = [job EXCEPT ![j].pc = "slot", ![j].fresh = TRUE]
      <4>1. PICK r : r = [job[j] EXCEPT !.pc = "slot", !.fresh = TRUE]
        OBVIOUS
      <4>2. job' = [job EXCEPT ![j] = r]
        BY <3>1, <4>1
      <4>3. r.kind = job[j].kind /\ r.chat = job[j].chat /\ r.ver = job[j].ver /\ r.s = job[j].s /\ r.pc = "slot"
        BY <4>1, JobIs DEF JobFields
      <4> QED
        BY <4>2, <4>3
    <3>2. CASE \E g, f, p : job' = [job EXCEPT ![j].got = g, ![j].fresh = f, ![j].pc = p] /\ p \in {"discard", "publish"}
      <4>1. PICK g, f, p : job' = [job EXCEPT ![j].got = g, ![j].fresh = f, ![j].pc = p] /\ p \in {"discard", "publish"}
        BY <3>2
      <4>2. PICK r : r = [job[j] EXCEPT !.got = g, !.fresh = f, !.pc = p]
        OBVIOUS
      <4>3. job' = [job EXCEPT ![j] = r]
        BY <4>1, <4>2
      <4>4. r.kind = job[j].kind /\ r.chat = job[j].chat /\ r.ver = job[j].ver /\ r.s = job[j].s /\ r.pc = p
        BY <4>2, JobIs DEF JobFields
      <4> QED
        BY <4>1, <4>3, <4>4
    <3> QED
      BY <2>1, <3>1, <3>2
  <2>4. JobsEase
    BY <1>1, <2>2, StepEases DEF OpenPcs
  <2>5. StoreEases
    BY <2>1, <2>4, StoreSame
  <2> QED
    BY <1>1, <2>4, <2>5, SlotsSame, SesEaseSame, EaseKeeps
<1> QED
  BY <1>2, <1>3

LEMMA LeavingDeletes ==
    ASSUME ManagerInv, DeleteInv, NEW j \in Jobs, LeaveAnswered(j) \/ LeaveTimeout(j)
    PROVE  DeleteInv'
<1>1. job[j].pc = "leaving" /\ job[j].kind # "delete" /\ ses' = ses /\ mgr'.byChat = mgr.byChat
  <2>1. job[j].pc = "leaving" /\ ses' = ses /\ (mgr' = mgr \/ \E o : mgr' = ClearMarker(mgr, o))
    BY DEF LeaveAnswered, LeaveTimeout, Turn
  <2> QED
    BY <2>1, DeletePc, MarkerKeeps DEF DeletePcs
<1>2. CASE Finish(j, FALSE)
  BY <1>1, <1>2, EndsDelete, SoftlySame
<1>3. CASE ~Finish(j, FALSE)
  <2>1. PICK g : job' = [job EXCEPT ![j].got = g, ![j].pc = "discard"] /\ store' = store
    BY <1>3 DEF LeaveAnswered, LeaveTimeout
  <2>2. PICK r : job' = [job EXCEPT ![j] = r] /\ r = [job[j] EXCEPT !.got = g, !.pc = "discard"]
    BY <2>1
  <2>3. r.kind = job[j].kind /\ r.chat = job[j].chat /\ r.ver = job[j].ver /\ r.s = job[j].s /\ r.pc = "discard"
    BY <2>2, JobIs DEF JobFields
  <2>4. JobsEase
    BY <1>1, <2>2, <2>3, StepEases DEF OpenPcs
  <2> QED
    BY <1>1, <2>1, <2>4, AloneKeeps
<1> QED
  BY <1>2, <1>3

LEMMA DiscardDeletes ==
    ASSUME ManagerInv, DeleteInv, NEW j \in Jobs, Discard(j) \/ Discarded(j)
    PROVE  DeleteInv'
<1>1. job[j].pc \in {"discard", "discarding"} /\ job[j].kind # "delete" /\ ses' = ses
  <2>1. job[j].pc \in {"discard", "discarding"} /\ ses' = ses
    BY DEF Discard, Discarded, Turn
  <2> QED
    BY <2>1, DeletePc DEF DeletePcs
<1>2. mgr'.byChat = mgr.byChat
  <2>1. \E x : mgr' \in {mgr, Remember(mgr, x), Forget(mgr, x)}
    BY DEF Discard, Discarded
  <2> QED
    BY <2>1, MgrIs, RetiringKeeps DEF Keeps
<1>3. CASE Finish(j, FALSE)
  BY <1>1, <1>2, <1>3, EndsDelete, SoftlySame
<1>4. CASE ~Finish(j, FALSE)
  <2>1. PICK x : job' = [job EXCEPT ![j].pc = "discarding", ![j].rs = {x}] /\ store' = store
    BY <1>4 DEF Discard, Discarded
  <2>2. PICK r : job' = [job EXCEPT ![j] = r] /\ r = [job[j] EXCEPT !.pc = "discarding", !.rs = {x}]
    BY <2>1
  <2>3. r.kind = job[j].kind /\ r.chat = job[j].chat /\ r.ver = job[j].ver /\ r.s = job[j].s /\ r.pc = "discarding"
    BY <2>2, JobIs DEF JobFields
  <2>4. JobsEase
    BY <1>1, <2>2, <2>3, StepEases DEF OpenPcs
  <2> QED
    BY <1>1, <1>2, <2>1, <2>4, AloneKeeps
<1> QED
  BY <1>3, <1>4

LEMMA DrainDeletes ==
    ASSUME ManagerInv, DeleteInv, NEW j \in Jobs, Drain(j) \/ Drained(j)
    PROVE  DeleteInv'
<1>1. job[j].pc \in {"drain", "draining"} /\ ses' = ses /\ (Drained(j) => job[j].pc = "draining")
  BY DEF Drain, Drained, Turn
<1>2. mgr'.byChat = mgr.byChat
  <2>1. \E x : mgr' \in {mgr, Forget(mgr, x)}
    BY DEF Drain, Drained
  <2> QED
    BY <2>1, MgrIs, RetiringKeeps DEF Keeps
<1>3. CASE Drain(j) /\ Finish(j, job[j].ok)
  BY <1>1, <1>2, <1>3, EndsDelete, SoftlySame DEF Drain, Turn
<1>4. CASE ~(Drain(j) /\ Finish(j, job[j].ok))
  <2>1. store' = store
    BY <1>4 DEF Drain, Drained
  <2>2. PICK r : /\ job' = [job EXCEPT ![j] = r] /\ r.kind = job[j].kind /\ r.chat = job[j].chat /\ r.ver = job[j].ver /\ r.s = job[j].s
                 /\ r.pc \in {"drain", "draining"}
    <3>1. CASE Drained(j)
      <4>1. PICK a : job' = [job EXCEPT ![j].pc = "drain", ![j].rs = @ \ {job[j].got[1]}, ![j].ok = @ /\ Settled(a.res)]
        BY <3>1 DEF Drained
      <4>2. PICK x, b : x = job[j].rs \ {job[j].got[1]} /\ b = (job[j].ok /\ Settled(a.res))
        OBVIOUS
      <4>3. PICK k, r : k = [job EXCEPT ![j].pc = "drain", ![j].rs = x] /\ r = [job[j] EXCEPT !.pc = "drain", !.rs = x, !.ok = b]
        OBVIOUS
      <4>4. k[j].ok = job[j].ok
        BY <4>3, JobIs DEF JobFields
      <4>5. [job EXCEPT ![j].pc = "drain"][j].rs = job[j].rs
        BY JobIs DEF JobFields
      <4>6. job' = [job EXCEPT ![j].pc = "drain", ![j].rs = x, ![j].ok = b]
        BY <4>1, <4>2, <4>3, <4>4, <4>5
      <4>7. job' = [job EXCEPT ![j] = r]
        BY <4>3, <4>6
      <4>8. r.kind = job[j].kind /\ r.chat = job[j].chat /\ r.ver = job[j].ver /\ r.s = job[j].s /\ r.pc = "drain"
        BY <4>3, JobIs DEF JobFields
      <4> QED
        BY <4>7, <4>8
    <3>2. CASE ~Drained(j)
      <4>1. CASE \E x : job' = [job EXCEPT ![j].pc = "draining", ![j].got = x]
        <5>1. PICK x : job' = [job EXCEPT ![j].pc = "draining", ![j].got = x]
          BY <4>1
        <5>2. PICK r : r = [job[j] EXCEPT !.pc = "draining", !.got = x]
          OBVIOUS
        <5>3. job' = [job EXCEPT ![j] = r]
          BY <5>1, <5>2
        <5>4. r.kind = job[j].kind /\ r.chat = job[j].chat /\ r.ver = job[j].ver /\ r.s = job[j].s /\ r.pc = "draining"
          BY <5>2, JobIs DEF JobFields
        <5> QED
          BY <1>1, <5>3, <5>4
      <4>2. CASE \E x : job' = [job EXCEPT ![j].rs = @ \ {x}]
        <5>1. PICK x : job' = [job EXCEPT ![j].rs = @ \ {x}]
          BY <4>2
        <5>2. PICK y, r : y = job[j].rs \ {x} /\ r = [job[j] EXCEPT !.rs = y]
          OBVIOUS
        <5>3. job' = [job EXCEPT ![j] = r]
          BY <5>1, <5>2
        <5>4. r.kind = job[j].kind /\ r.chat = job[j].chat /\ r.ver = job[j].ver /\ r.s = job[j].s /\ r.pc = job[j].pc
          BY <5>2, JobIs DEF JobFields
        <5> QED
          BY <1>1, <5>3, <5>4
      <4> QED
        BY <1>4, <3>2, <4>1, <4>2 DEF Drain
    <3> QED
      BY <3>1, <3>2
  <2>4. JobsEase
    BY <1>1, <2>2, StepEases DEF OpenPcs
  <2> QED
    BY <1>1, <1>2, <2>1, <2>4, AloneKeeps
<1> QED
  BY <1>3, <1>4

-----------------------------------------------------------------------------
(***************************************************************************)
(* Deletion: what closes a session or empties a slot.                      *)
(***************************************************************************)

LEMMA SlotIs ==
    ASSUME ManagerInv, DeleteInv, NEW c \in Keys, mgr.byChat[c] # None
    PROVE  /\ mgr.byChat[c] \in DOMAIN ses
           /\ ses[mgr.byChat[c]].chat = c /\ ses[mgr.byChat[c]].st # "closed"
BY MgrIs DEF DeleteInv, SlotOpen

\* A session that ends leaves its slot.
LEMMA RetireEases ==
    ASSUME ManagerInv, DeleteInv, NEW m, NEW t, NEW x, m.byChat = mgr.byChat, DOMAIN m = MgrFields,
           SesKept(ses, t), Softly(ses, t), mgr' = Retire(m, x), ses' = Ended(t, x)
    PROVE  SlotsEase /\ SesEase
<1>1. PICK d : d = ses[x].chat
  OBVIOUS
<1>2. \/ mgr'.byChat = mgr.byChat /\ mgr.byChat[d] # x
      \/ mgr'.byChat = [mgr.byChat EXCEPT ![d] = None]
  <2>1. PICK n : n = WithoutRoute(m, x)
    OBVIOUS
  <2>2. DOMAIN n = MgrFields /\ n.byChat = mgr.byChat
    BY <2>1, WithoutRouteKeeps DEF Keeps
  <2>3. CASE m.byChat[d] = x
    <3>1. mgr' = [n EXCEPT !.byChat[d] = None, !.slotGen[d] = @ + 1]
      BY <1>1, <2>1, <2>3 DEF Retire
    <3> QED
      BY <2>2, <3>1 DEF MgrFields
  <2>4. CASE m.byChat[d] # x
    BY <1>1, <2>1, <2>2, <2>4 DEF Retire
  <2> QED
    BY <2>3, <2>4
<1>3. DOMAIN mgr.byChat = Keys
  BY MgrIs DEF MgrShaped
<1>4. SlotsEase
  BY <1>2, <1>3 DEF SlotsEase
<1>5. ASSUME NEW c \in Keys, mgr'.byChat[c] # None
      PROVE  /\ mgr'.byChat[c] = mgr.byChat[c] /\ mgr.byChat[c] \in DOMAIN ses
             /\ mgr'.byChat[c] # x
  <2>1. mgr'.byChat[c] = mgr.byChat[c]
    BY <1>4, <1>5 DEF SlotsEase
  <2>2. mgr.byChat[c] \in DOMAIN ses /\ ses[mgr.byChat[c]].chat = c
    BY <1>5, <2>1, SlotIs
  <2>3. mgr'.byChat[c] # x
    BY <1>1, <1>2, <1>3, <1>5, <2>1, <2>2
  <2> QED
    BY <2>1, <2>2, <2>3
<1>6. \A y \in DOMAIN t : y # x => ses'[y] = t[y]
  BY DEF Ended
<1>7. SesEase
  BY <1>5, <1>6 DEF SesEase, Softly, SesKept
<1> QED
  BY <1>4, <1>7

LEMMA CloseDeletes ==
    ASSUME ManagerInv, DeleteInv, NEW j \in Jobs, NEW x, NEW m, m.byChat = mgr.byChat, DOMAIN m = MgrFields,
           CloseSession(j, x, m),
           \/ job[j].pc = "line" /\ job[j].kind \in {"stop", "delete"} /\ x = mgr.byChat[job[j].chat]
           \/ job[j].pc = "sweep"
    PROVE  DeleteInv'
<1>1. job[j].pc = "sweep" => job[j].kind # "delete"
  BY DeletePc DEF DeletePcs
<1>2. SlotsEase /\ SesEase
  <2>1. CASE mgr' = Retire(m, x) /\ ses' = Ended(ses, x)
    <3>1. PICK t : t = ses
      OBVIOUS
    <3>2. SesKept(ses, t) /\ Softly(ses, t)
      BY <3>1 DEF SesKept, Softly
    <3> QED
      BY <2>1, <3>1, <3>2, RetireEases
  <2>2. CASE ~(mgr' = Retire(m, x) /\ ses' = Ended(ses, x))
    <3>1. /\ ses' = ses \/ ses' = Closing(ses, x, TRUE)
          /\ mgr' = m \/ mgr' = [m EXCEPT !.cleanup = @ \cup {[route |-> Route(x), by |-> <<"ses", x>>]}]
      BY <2>2 DEF CloseSession, ClosedSes, Closing, Ended
    <3>2. PICK k : k = m.cleanup \cup {[route |-> Route(x), by |-> <<"ses", x>>]}
      OBVIOUS
    <3>3. mgr' = m \/ mgr' = [m EXCEPT !.cleanup = k]
      BY <3>1, <3>2
    <3>4. mgr'.byChat = mgr.byChat
      BY <3>3 DEF MgrFields
    <3>5. Softly(ses, ses')
      <4>1. PICK v : v = TRUE
        OBVIOUS
      <4>2. ses' = ses \/ ses' = Closing(ses, x, v)
        BY <3>1, <4>1
      <4>3. Softly(ses, Closing(ses, x, v)) /\ Softly(ses, ses)
        BY SesIs, EditSoftly, SoftlySame
      <4> QED
        BY <4>2, <4>3
    <3> QED
      BY <3>4, <3>5, SlotsSame, SoftlyEases
  <2> QED
    BY <2>1, <2>2
<1>3. CASE Finish(j, FALSE)
  BY <1>2, <1>3, FinishEases, EaseKeeps
<1>4. CASE ~Finish(j, FALSE)
  <2>1. store' = store
    BY <1>4 DEF CloseSession
  <2>2. CASE job' = [job EXCEPT ![j].pc = "closing", ![j].s = x]
    <3>1. PICK r : r = [job[j] EXCEPT !.pc = "closing", !.s = x] /\ job' = [job EXCEPT ![j] = r]
      BY <2>2
    <3>2. r.kind = job[j].kind /\ r.chat = job[j].chat /\ r.ver = job[j].ver /\ r.pc = "closing" /\ r.s = x
      BY <3>1, JobIs DEF JobFields
    <3>3. CASE job[j].kind # "delete"
      <4>1. JobsEase
        BY <1>1, <3>1, <3>2, <3>3, StepEases DEF OpenPcs
      <4> QED
        BY <1>2, <2>1, <4>1, StoreSame, EaseKeeps
    <3>4. CASE job[j].kind = "delete"
      <4>1. mgr'.byChat[job[j].chat] \in {x, None} /\ store[job[j].chat].deleting
        BY <1>1, <1>2, <3>4, JobIs DEF SlotsEase, DeleteInv, JobTimely, Deletes
      <4>2. job'[j] = r /\ \A i \in Jobs \ {j} : job'[i] = job[i]
        BY <3>1, JobIs
      <4>3. JobTimely(j)'
        BY <2>1, <3>2, <3>4, <4>1, <4>2
           DEF JobTimely, DeletePcs, Prepared, Checking, Deletes, Emptied, Empties, OpenPcs, Bare
      <4>4. Learns(j)
        BY <1>1, <3>2, <3>4, <4>2, <4>3 DEF Learns, Deletes
      <4>5. JobsLearn
        BY <4>2, <4>4 DEF JobsLearn, Eases
      <4> QED
        BY <1>2, <2>1, <4>5, StoreSame, LearnKeeps
    <3> QED
      BY <3>3, <3>4
  <2>3. CASE job[j].kind = "shutdown" /\ job' = [job EXCEPT ![j].ok = FALSE, ![j].rs = @ \ {x}]
    <3>1. PICK y, r : y = job[j].rs \ {x} /\ r = [job[j] EXCEPT !.ok = FALSE, !.rs = y]
      OBVIOUS
    <3>2. [job EXCEPT ![j].ok = FALSE][j].rs = job[j].rs
      BY JobIs DEF JobFields
    <3>3. job' = [job EXCEPT ![j] = r]
      BY <2>3, <3>1, <3>2
    <3>4. r.kind = job[j].kind /\ r.chat = job[j].chat /\ r.ver = job[j].ver /\ r.pc = job[j].pc
      BY <3>1, JobIs DEF JobFields
    <3>5. JobsEase
      BY <1>1, <2>3, <3>3, <3>4, StepEases DEF OpenPcs
    <3> QED
      BY <1>2, <2>1, <3>5, StoreSame, EaseKeeps
  <2> QED
    BY <1>4, <2>2, <2>3 DEF CloseSession
<1> QED
  BY <1>3, <1>4

LEMMA StopDeletes == ASSUME ManagerInv, DeleteInv, NEW j \in Jobs, Stop(j) PROVE DeleteInv'
<1>1. PICK m : m = [mgr EXCEPT !.slotGen[job[j].chat] = @ + 1]
  OBVIOUS
<1>2. m.byChat = mgr.byChat /\ DOMAIN m = MgrFields
  BY <1>1, MgrIs DEF MgrFields
<1>3. job[j].pc = "line" /\ job[j].kind \in {"stop", "delete"}
  BY DEF Stop, Turn
<1>4. CASE CloseSession(j, mgr.byChat[job[j].chat], m)
  BY <1>2, <1>3, <1>4, CloseDeletes
<1>5. CASE ~CloseSession(j, mgr.byChat[job[j].chat], m)
  <2>1. /\ mgr' = m /\ job' = [job EXCEPT ![j].pc = "drain", ![j].rs = Retirings(job[j].chat)]
        /\ UNCHANGED <<ses, store>>
        /\ mgr.byChat[job[j].chat] = None \/ ses[mgr.byChat[job[j].chat]].st = "closed"
    BY <1>1, <1>5 DEF Stop
  <2>2. mgr.byChat[job[j].chat] = None
    BY <2>1, SlotIs, JobIs
  <2>3. PICK r : r = [job[j] EXCEPT !.pc = "drain", !.rs = Retirings(job[j].chat)] /\ job' = [job EXCEPT ![j] = r]
    BY <2>1
  <2>4. r.kind = job[j].kind /\ r.chat = job[j].chat /\ r.ver = job[j].ver /\ r.pc = "drain"
    BY <2>3, JobIs DEF JobFields
  <2>5. job'[j] = r /\ \A i \in Jobs \ {j} : job'[i] = job[i]
    BY <2>3, JobIs
  <2>6. mgr'.byChat = mgr.byChat
    BY <1>2, <2>1
  <2>7. JobTimely(j)'
    BY <1>3, <2>1, <2>2, <2>4, <2>5, <2>6
       DEF DeleteInv, JobTimely, DeletePcs, Prepared, Checking, Deletes, Emptied, Empties, OpenPcs, Bare
  <2>8. Learns(j)
    BY <1>3, <2>4, <2>5, <2>7 DEF Learns, Deletes
  <2>9. JobsLearn
    BY <2>5, <2>8 DEF JobsLearn, Eases
  <2> QED
    BY <2>1, <2>6, <2>9, StoreSame, SlotsSame, SesEaseSame, LearnKeeps
<1> QED
  BY <1>4, <1>5

LEMMA SweepDeletes == ASSUME ManagerInv, DeleteInv, NEW j \in Jobs, Sweep(j) PROVE DeleteInv'
<1>1. job[j].pc = "sweep" /\ job[j].kind # "delete"
  <2>1. job[j].pc = "sweep"
    BY DEF Sweep, Turn
  <2> QED
    BY <2>1, DeletePc DEF DeletePcs
<1>2. CASE \E x \in job[j].rs : CloseSession(j, x, mgr)
  BY <1>1, <1>2, MgrIs, CloseDeletes
<1>3. CASE ~ \E x \in job[j].rs : CloseSession(j, x, mgr)
  <2>1. UNCHANGED <<mgr, ses, store>>
    BY <1>3 DEF Sweep
  <2>2. PICK r : /\ job' = [job EXCEPT ![j] = r] /\ r.kind = job[j].kind /\ r.chat = job[j].chat /\ r.ver = job[j].ver
                 /\ r.pc \in {"drain", "sweep"}
    <3>1. CASE job' = [job EXCEPT ![j].pc = "drain", ![j].rs = mgr.retiring]
      <4>1. PICK r : r = [job[j] EXCEPT !.pc = "drain", !.rs = mgr.retiring]
        OBVIOUS
      <4>2. job' = [job EXCEPT ![j] = r]
        BY <3>1, <4>1
      <4>3. r.kind = job[j].kind /\ r.chat = job[j].chat /\ r.ver = job[j].ver /\ r.pc = "drain"
        BY <4>1, JobIs DEF JobFields
      <4> QED
        BY <4>2, <4>3
    <3>2. CASE \E x : job' = [job EXCEPT ![j].rs = @ \ {x}]
      <4>1. PICK x : job' = [job EXCEPT ![j].rs = @ \ {x}]
        BY <3>2
      <4>2. PICK y, r : y = job[j].rs \ {x} /\ r = [job[j] EXCEPT !.rs = y]
        OBVIOUS
      <4>3. job' = [job EXCEPT ![j] = r]
        BY <4>1, <4>2
      <4>4. r.kind = job[j].kind /\ r.chat = job[j].chat /\ r.ver = job[j].ver /\ r.pc = job[j].pc
        BY <4>2, JobIs DEF JobFields
      <4> QED
        BY <1>1, <4>3, <4>4
    <3> QED
      BY <1>3, <3>1, <3>2 DEF Sweep
  <2>3. JobsEase
    BY <1>1, <2>2, StepEases DEF OpenPcs
  <2> QED
    BY <2>1, <2>3, AloneKeeps
<1> QED
  BY <1>2, <1>3

LEMMA StopWaitedDeletes == ASSUME ManagerInv, DeleteInv, NEW j \in Jobs, StopWaited(j) PROVE DeleteInv'
<1>1. job[j].pc = "closing" /\ UNCHANGED <<mgr, ses>>
  BY DEF StopWaited, Turn
<1>2. CASE Finish(j, FALSE)
  BY <1>1, <1>2, EndsDelete, SoftlySame
<1>3. CASE ~Finish(j, FALSE) /\ job[j].kind = "shutdown"
  <2>1. PICK y, o : job' = [job EXCEPT ![j].pc = "sweep", ![j].rs = y, ![j].ok = o] /\ store' = store
    <3>1. PICK z, c : job' = [job EXCEPT ![j].pc = "sweep", ![j].rs = @ \ {z}, ![j].ok = @ /\ c] /\ store' = store
      BY <1>3 DEF StopWaited
    <3>2. PICK y, o : y = job[j].rs \ {z} /\ o = (job[j].ok /\ c)
      OBVIOUS
    <3>3. PICK k : k = [job EXCEPT ![j].pc = "sweep", ![j].rs = y]
      OBVIOUS
    <3>4. k[j].ok = job[j].ok /\ [job EXCEPT ![j].pc = "sweep"][j].rs = job[j].rs
      BY <3>3, JobIs DEF JobFields
    <3>5. job' = [job EXCEPT ![j].pc = "sweep", ![j].rs = y, ![j].ok = o]
      BY <3>1, <3>2, <3>3, <3>4
    <3> QED
      BY <3>1, <3>5
  <2>2. PICK r : r = [job[j] EXCEPT !.pc = "sweep", !.rs = y, !.ok = o] /\ job' = [job EXCEPT ![j] = r]
    BY <2>1
  <2>3. r.kind = job[j].kind /\ r.chat = job[j].chat /\ r.ver = job[j].ver /\ r.pc = "sweep"
    BY <2>2, JobIs DEF JobFields
  <2>4. JobsEase
    BY <1>1, <1>3, <2>2, <2>3, StepEases DEF OpenPcs
  <2> QED
    BY <1>1, <2>1, <2>4, AloneKeeps
<1>4. CASE ~Finish(j, FALSE) /\ job[j].kind # "shutdown"
  <2>1. /\ job' = [job EXCEPT ![j].pc = "drain", ![j].rs = Retirings(job[j].chat)] /\ store' = store
        /\ ses[job[j].s].st = "closed"
    BY <1>4 DEF StopWaited
  <2>2. PICK r : r = [job[j] EXCEPT !.pc = "drain", !.rs = Retirings(job[j].chat)] /\ job' = [job EXCEPT ![j] = r]
    BY <2>1
  <2>3. r.kind = job[j].kind /\ r.chat = job[j].chat /\ r.ver = job[j].ver /\ r.pc = "drain"
    BY <2>2, JobIs DEF JobFields
  <2>4. job'[j] = r /\ \A i \in Jobs \ {j} : job'[i] = job[i]
    BY <2>2, JobIs
  <2>5. CASE job[j].kind # "delete"
    <3>1. JobsEase
      BY <1>1, <2>2, <2>3, <2>5, StepEases DEF OpenPcs
    <3> QED
      BY <1>1, <2>1, <3>1, AloneKeeps
  <2>6. CASE job[j].kind = "delete"
    <3>1. mgr.byChat[job[j].chat] = job[j].s \/ Bare(mgr.byChat[job[j].chat], ses)
      BY <1>1, <2>6 DEF DeleteInv, JobTimely, Empties, OpenPcs
    <3>2. Bare(mgr.byChat[job[j].chat], ses)
      BY <2>1, <3>1, SlotIs, JobIs DEF Bare
    <3>3. JobTimely(j)'
      BY <1>1, <2>1, <2>3, <2>4, <2>6, <3>2
         DEF DeleteInv, JobTimely, DeletePcs, Prepared, Checking, Deletes, Emptied, Empties, OpenPcs
    <3>4. JobsLearn
      BY <1>1, <2>3, <2>4, <2>6, <3>3 DEF JobsLearn, Learns, Eases, Deletes
    <3> QED
      BY <1>1, <2>1, <3>4, StoreSame, SlotsSame, SesEaseSame, LearnKeeps
  <2> QED
    BY <2>5, <2>6
<1> QED
  BY <1>2, <1>3, <1>4

LEMMA SesClosedDeletes == ASSUME ManagerInv, DeleteInv, NEW x, SesClosed(x) PROVE DeleteInv'
<1>1. UNCHANGED <<job, store>>
  BY DEF SesClosed
<1>2. PICK n, m, t : /\ (n = mgr /\ t = ses) \/ (n = Detach(mgr, ses[x].ep) /\ t = Invalidated(mgr, ses[x].ep))
                     /\ m = [n EXCEPT !.cleanup = {k \in @ : k.by # <<"ses", x>>}]
                     /\ \/ mgr' = Retire(m, x) /\ ses' = Ended(t, x)
                        \/ mgr' = m /\ \E v : ses' = Closing(t, x, v)
  <2>1. PICK a \in Answered(<<"ses", x>>) :
            LET N == IF a.res = "lost" THEN Detach(mgr, ses[x].ep) ELSE mgr
                M == [N EXCEPT !.cleanup = {k \in @ : k.by # <<"ses", x>>}]
                T == IF a.res = "lost" THEN Invalidated(mgr, ses[x].ep) ELSE ses
            IN  \/ mgr' = Retire(M, x) /\ ses' = Ended(T, x)
                \/ mgr' = M /\ \E v : ses' = Closing(T, x, v)
    <3>1. PICK a \in Answered(<<"ses", x>>) :
            LET N == IF a.res = "lost" THEN Detach(mgr, ses[x].ep) ELSE mgr
                M == [N EXCEPT !.cleanup = {k \in @ : k.by # <<"ses", x>>}]
                T == IF a.res = "lost" THEN Invalidated(mgr, ses[x].ep) ELSE ses
            IN  \/ mgr' = Retire(M, x) /\ ses' = Ended(T, x)
                \/ mgr' = M /\ ses' = Closing(T, x, FALSE)
      BY DEF SesClosed, ClosedSes, Ended, Closing
    <3>2. PICK v : v = FALSE
      OBVIOUS
    <3> QED
      BY <3>1, <3>2
  <2> DEFINE N == IF a.res = "lost" THEN Detach(mgr, ses[x].ep) ELSE mgr
             M == [N EXCEPT !.cleanup = {k \in @ : k.by # <<"ses", x>>}]
             T == IF a.res = "lost" THEN Invalidated(mgr, ses[x].ep) ELSE ses
  <2>2. (N = mgr /\ T = ses) \/ (N = Detach(mgr, ses[x].ep) /\ T = Invalidated(mgr, ses[x].ep))
    OBVIOUS
  <2>3. \/ mgr' = Retire(M, x) /\ ses' = Ended(T, x)
        \/ mgr' = M /\ \E v : ses' = Closing(T, x, v)
    BY <2>1
  <2>4. M = [N EXCEPT !.cleanup = {k \in @ : k.by # <<"ses", x>>}]
    OBVIOUS
  <2> HIDE DEF N, M, T
  <2> QED
    BY <2>2, <2>3, <2>4
<1>3. /\ Keeps(mgr, n) /\ SesKept(ses, t) /\ Softly(ses, t)
      /\ \A y \in DOMAIN t : DOMAIN t[y] = SesFields
  BY <1>2, MaybeDetached, MaybeSoftly
<1>4. m.byChat = mgr.byChat /\ DOMAIN m = MgrFields
  BY <1>2, <1>3, MgrIs DEF MgrFields, Keeps
<1>5. SlotsEase /\ SesEase
  <2>1. CASE mgr' = Retire(m, x) /\ ses' = Ended(t, x)
    BY <1>3, <1>4, <2>1, RetireEases
  <2>2. CASE mgr' = m /\ \E v : ses' = Closing(t, x, v)
    <3>1. Softly(t, ses')
      BY <1>3, <2>2, EditSoftly
    <3>2. Softly(ses, ses')
      BY <1>3, <3>1, SoftlyTwice
    <3> QED
      BY <1>4, <2>2, <3>2, SlotsSame, SoftlyEases
  <2> QED
    BY <1>2, <2>1, <2>2
<1> QED
  BY <1>1, <1>5, JobsEaseSame, StoreSame, EaseKeeps

LEMMA ShutdownDeletes ==
    ASSUME ManagerInv, DeleteInv, NEW j \in Jobs, Shutdown(j) \/ Wake(j)
    PROVE  DeleteInv'
<1>1. CASE Wake(j)
  BY <1>1, AsideKeeps DEF Wake, mgrVars
<1>2. CASE Shutdown(j)
  <2>1. PICK t, r : t = TRUE /\ r = [job[j] EXCEPT !.pc = "quiesce"] /\ job' = [job EXCEPT ![j] = r]
    BY <1>2 DEF Shutdown
  <2>2. mgr' = [mgr EXCEPT !.closed = t] /\ UNCHANGED <<ses, store>> /\ job[j].kind = "shutdown"
    BY <1>2, <2>1 DEF Shutdown
  <2>3. mgr'.byChat = mgr.byChat
    BY <2>2, MgrIs DEF MgrFields
  <2>4. r.kind = job[j].kind /\ r.chat = job[j].chat /\ r.ver = job[j].ver /\ r.pc = "quiesce"
    BY <2>1, JobIs DEF JobFields
  <2>5. Eases(job[j], r)
    BY <2>2, <2>4 DEF Eases, Prepared, Checking, Deletes, Emptied, Empties, OpenPcs
  <2>6. JobsEase
    BY <2>1, <2>5, JobEase
  <2> QED
    BY <2>2, <2>3, <2>6, AloneKeeps
<1> QED
  BY <1>1, <1>2

LEMMA QuiesceDeletes == ASSUME ManagerInv, DeleteInv, NEW j \in Jobs, Quiesce(j) PROVE DeleteInv'
<1>1. job[j].pc = "quiesce" /\ job[j].kind # "delete" /\ ses' = ses
  <2>1. job[j].pc = "quiesce" /\ ses' = ses
    BY DEF Quiesce, Turn
  <2> QED
    BY <2>1, DeletePc DEF DeletePcs
<1>2. CASE Finish(j, FALSE) /\ UNCHANGED mgr
  BY <1>1, <1>2, EndsDelete, SoftlySame
<1>3. CASE ~(Finish(j, FALSE) /\ UNCHANGED mgr)
  <2>1. PICK y, b, u, g :
           /\ y = {mgr.byChat[c] : c \in Chats} \ {None} /\ b = [c \in Chats |-> None]
           /\ u = [r \in {} |-> None] /\ g = [c \in Chats |-> 0]
           /\ job' = [job EXCEPT ![j].pc = "sweep", ![j].rs = y] /\ store' = store
           /\ mgr' = [mgr EXCEPT !.byChat = b, !.byRoute = u, !.invalid = {}, !.slotGen = g]
    <3>1. PICK y, b, u, g :
           /\ y = {mgr.byChat[c] : c \in Chats} \ {None} /\ b = [c \in Chats |-> None]
           /\ u = [r \in {} |-> None] /\ g = [c \in Chats |-> 0]
      OBVIOUS
    <3>2. /\ job' = [job EXCEPT ![j].pc = "sweep", ![j].rs = y] /\ store' = store
          /\ mgr' = [mgr EXCEPT !.byChat = b, !.byRoute = u, !.invalid = {}, !.slotGen = g]
      BY <1>3, <3>1 DEF Quiesce
    <3> QED
      BY <3>1, <3>2
  <2>2. mgr'.byChat = b
    BY <2>1, MgrIs DEF MgrFields
  <2>3. SlotsEase
    BY <2>1, <2>2 DEF SlotsEase, Chats
  <2>4. PICK r : r = [job[j] EXCEPT !.pc = "sweep", !.rs = y] /\ job' = [job EXCEPT ![j] = r]
    BY <2>1
  <2>5. r.kind = job[j].kind /\ r.chat = job[j].chat /\ r.ver = job[j].ver /\ r.pc = "sweep"
    BY <2>4, JobIs DEF JobFields
  <2>6. JobsEase
    BY <1>1, <2>4, <2>5, StepEases DEF OpenPcs
  <2> QED
    BY <1>1, <2>1, <2>3, <2>6, StoreSame, SesEaseSame, EaseKeeps
<1> QED
  BY <1>2, <1>3

LEMMA EnqueueDeletes == ASSUME ManagerInv, DeleteInv, NEW n \in notes, EnqueueReconciliation(n) PROVE DeleteInv'
<1>1. UNCHANGED <<mgr, ses, store>>
  BY DEF EnqueueReconciliation
<1>2. CASE job' = job
  BY <1>1, <1>2, AsideKeeps
<1>3. CASE job' # job
  <2>1. PICK j : /\ j = CHOOSE i \in Spare : TRUE
                 /\ Spare # {}
                 /\ job' = [job EXCEPT ![j].pc = "line", ![j].chat = ses[n.s].chat, ![j].s = n.s, ![j].only = TRUE]
    BY <1>3 DEF EnqueueReconciliation
  <2>2. j \in Jobs /\ job[j].kind = "reconcile" /\ job[j].pc = "new"
    BY <2>1 DEF Spare
  <2>3. PICK t, r : /\ t = TRUE /\ r = [job[j] EXCEPT !.pc = "line", !.chat = ses[n.s].chat, !.s = n.s, !.only = t]
                    /\ job' = [job EXCEPT ![j] = r]
    BY <2>1
  <2>4. r.kind = "reconcile" /\ r.pc = "line" /\ r.try = 1
    BY <2>2, <2>3, JobIs DEF JobFields, DeleteInv, JobTimely
  <2>5. job'[j] = r /\ \A i \in Jobs \ {j} : job'[i] = job[i]
    BY <2>2, <2>3, JobIs
  <2>6. JobTimely(j)'
    BY <2>4, <2>5 DEF JobTimely, DeletePcs, Prepared, Checking, Deletes, Emptied, Empties, OpenPcs
  <2>7. JobsLearn
    BY <2>4, <2>5, <2>6 DEF JobsLearn, Learns, Eases, Deletes
  <2> QED
    BY <1>1, <2>7, StoreSame, SlotsSame, SesEaseSame, LearnKeeps
<1> QED
  BY <1>2, <1>3

LEMMA CommitDeletes == ASSUME ManagerInv, DeleteInv, NEW j \in Jobs, Commit(j) PROVE DeleteInv'
<1> DEFINE c == job[j].chat
<1>1. /\ job[j].pc = "commit" /\ job[j].kind = "delete" /\ UNCHANGED <<mgr, ses>>
      /\ c \in Keys /\ Deletes(job[j]) /\ store[c].deleting /\ Bare(mgr.byChat[c], ses)
  BY JobIs DEF Commit, DeleteInv, JobTimely, Deletes, Emptied
<1>2. PICK r : r = [job[j] EXCEPT !.pc = "done"] /\ job' = [job EXCEPT ![j] = r]
  BY DEF Commit
<1>3. r.kind = "delete" /\ r.pc = "done" /\ r.chat = c
  BY <1>1, <1>2, JobIs DEF JobFields
<1>4. job'[j] = r /\ \A i \in Jobs \ {j} : job'[i] = job[i]
  BY <1>2, JobIs
<1>5. PICK q : /\ store' = [store EXCEPT ![c] = q] /\ DOMAIN q = StoreFields /\ q.ver = store[c].ver
  <2>1. PICK a, b, q : a = TRUE /\ b = FALSE /\ q = [store[c] EXCEPT !.gone = a, !.deleting = b]
    OBVIOUS
  <2>2. store' = [store EXCEPT ![c].gone = a, ![c].deleting = b]
    BY <2>1 DEF Commit
  <2>3. store' = [store EXCEPT ![c] = q]
    BY <2>1, <2>2
  <2>4. DOMAIN q = StoreFields /\ q.ver = store[c].ver
    BY <1>1, <2>1 DEF StoreFields, DeleteInv, StoreShaped
  <2> QED
    BY <2>3, <2>4
<1>6. \A d \in Keys : store'[d] = IF d = c THEN q ELSE store[d]
  BY <1>5 DEF DeleteInv, StoreShaped
<1>7. ASSUME NEW i \in Jobs PROVE JobTimely(i)'
  <2>1. CASE i = j
    BY <1>3, <1>4, <2>1 DEF JobTimely, DeletePcs, Prepared, Checking, Deletes, Emptied, Empties, OpenPcs
  <2>2. CASE i # j
    <3>1. job'[i] = job[i] /\ JobTimely(i) /\ job[i].chat \in Keys
      BY <1>4, <2>2, JobIs DEF DeleteInv
    <3>2. CASE job[i].chat # c
      BY <1>1, <1>6, <3>1, <3>2 DEF JobTimely
    <3>3. CASE job[i].chat = c
      <4>1. ~Deletes(job[i])
        BY <1>1, <2>2, <3>3 DEF DeleteInv
      <4>2. Prepared(job[i]) => Timely(job[i], q)
        BY <1>1, <1>5, <3>1, <3>3 DEF JobTimely, Timely
      <4> QED
        BY <1>1, <1>6, <3>1, <3>3, <4>1, <4>2 DEF JobTimely
    <3> QED
      BY <3>2, <3>3
  <2> QED
    BY <2>1, <2>2
<1>8. \A i, k \in Jobs : Deletes(job'[i]) /\ Deletes(job'[k]) /\ job'[i].chat = job'[k].chat => i = k
  BY <1>3, <1>4 DEF DeleteInv, Deletes
<1>9. StoreShaped'
  BY <1>5, <1>6 DEF DeleteInv, StoreShaped
<1>10. \A d \in Keys : store'[d].gone => Bare(mgr'.byChat[d], ses')
  BY <1>1, <1>6 DEF DeleteInv
<1> QED
  BY <1>1, <1>7, <1>8, <1>9, <1>10 DEF DeleteInv

LEMMA CheckDeletes == ASSUME ManagerInv, DeleteInv, NEW j \in Jobs, Check(j) PROVE DeleteInv'
<1>1. job[j].pc = "line" /\ job[j].kind \in Acquires /\ job[j].kind # "delete"
  BY DEF Check, Turn, Acquires
<1>2. CASE Finish(j, Moot(j)) /\ UNCHANGED <<mgr, ses>>
  <2>1. PICK ok : ok = Moot(j)
    OBVIOUS
  <2>2. Finish(j, ok)
    BY <1>2, <2>1
  <2> QED
    BY <1>1, <1>2, <2>2, EndsDelete, SoftlySame
<1>3. CASE ~(Finish(j, Moot(j)) /\ UNCHANGED <<mgr, ses>>)
  <2> DEFINE ex == mgr.byChat[job[j].chat]
             lost == ex # None /\ ~EpochCurrent(ses[ex].ep)
             M == IF lost THEN Detach(mgr, ses[ex].ep) ELSE mgr
             T == IF lost THEN Invalidated(mgr, ses[ex].ep) ELSE ses
  <2>0. mgr' = M /\ (ses' = T \/ ses' = Held(T, ex, T[ex].held \/ job[j].kind # "media"))
    BY <1>3 DEF Check, Held
  <2>1. PICK m, t, e : /\ (m = mgr /\ t = ses) \/ (m = Detach(mgr, e) /\ t = Invalidated(mgr, e))
                       /\ mgr' = m
                       /\ ses' = t \/ \E x, v : ses' = Held(t, x, v)
    <3>1. (M = mgr /\ T = ses) \/ (M = Detach(mgr, ses[ex].ep) /\ T = Invalidated(mgr, ses[ex].ep))
      OBVIOUS
    <3>2. ses' = T \/ \E x, v : ses' = Held(T, x, v)
      <4> HIDE DEF M, T, ex
      <4> QED
        BY <2>0
    <3> HIDE DEF M, T, ex
    <3> QED
      BY <2>0, <3>1, <3>2
  <2> HIDE DEF M, T, ex, lost
  <2>2. m.byChat = mgr.byChat /\ Softly(ses, t) /\ SesKept(ses, t) /\ \A x \in DOMAIN t : DOMAIN t[x] = SesFields
    BY <2>1, MaybeSoftly, MaybeDetached
  <2>3. mgr'.byChat = mgr.byChat /\ Softly(ses, ses')
    <3>1. CASE ses' = t
      BY <2>1, <2>2, <3>1
    <3>2. CASE \E x, v : ses' = Held(t, x, v)
      <4>1. Softly(t, ses')
        BY <2>2, <3>2, EditSoftly
      <4> QED
        BY <2>1, <2>2, <4>1, SoftlyTwice
    <3> QED
      BY <2>1, <3>1, <3>2
  <2>4. CASE \E ok : Finish(j, ok)
    BY <1>1, <2>3, <2>4, EndsDelete
  <2>5. CASE ~ \E ok : Finish(j, ok)
    <3> DEFINE V == IF job[j].kind = "reconcile" /\ job[j].try = 1 THEN store[job[j].chat].ver ELSE job[j].ver
    <3>1. PICK v, r : v = V /\ r = [job[j] EXCEPT !.sg = mgr.slotGen[job[j].chat], !.ex = ex, !.ver = v]
      OBVIOUS
    <3>2. /\ \/ job' = [job EXCEPT ![j] = [r EXCEPT !.pc = "hydrate", !.s = ex]]
             \/ job' = [job EXCEPT ![j] = [r EXCEPT !.pc = "slot"]]
          /\ store' = store /\ ~Denied(j)
      BY <1>3, <2>5, <3>1 DEF Check, ex
    <3> HIDE DEF V
    <3>3. /\ DOMAIN r = JobFields /\ r.kind = job[j].kind /\ r.chat = job[j].chat /\ r.ver = v
          /\ job[j].chat \in Keys
      BY <3>1, JobIs DEF JobFields
    <3>4. PICK q : /\ job' = [job EXCEPT ![j] = q]
                   /\ q = [r EXCEPT !.pc = "hydrate", !.s = ex] \/ q = [r EXCEPT !.pc = "slot"]
      BY <3>2
    <3>5. q.kind = job[j].kind /\ q.chat = job[j].chat /\ q.ver = v /\ q.pc \in {"hydrate", "slot"}
      BY <3>3, <3>4 DEF JobFields
    <3>6. CASE job[j].kind = "reconcile" /\ job[j].try = 1
      <4>1. v = store[job[j].chat].ver /\ v \in Nat /\ Ok(job[j].chat)
        BY <3>1, <3>2, <3>3, <3>6 DEF V, Denied, DeleteInv, StoreShaped
      <4>2. Timely(q, store[job[j].chat])
        BY <3>5, <4>1 DEF Timely, Ok
      <4>3. job'[j] = q /\ \A i \in Jobs \ {j} : job'[i] = job[i]
        BY <3>4, JobIs
      <4>4. JobTimely(j)'
        BY <1>1, <3>2, <3>5, <4>2, <4>3 DEF JobTimely, Deletes, Emptied, Empties, OpenPcs
      <4>5. JobsLearn
        BY <1>1, <3>5, <4>3, <4>4 DEF JobsLearn, Learns, Eases, Deletes
      <4> QED
        BY <2>3, <3>2, <4>5, StoreSame, SlotsSame, SoftlyEases, LearnKeeps
    <3>7. CASE ~(job[j].kind = "reconcile" /\ job[j].try = 1)
      <4>1. v = job[j].ver
        BY <3>1, <3>7 DEF V
      <4>2. Eases(job[j], q)
        BY <1>1, <3>5, <3>7, <4>1 DEF Eases, Prepared, Deletes, Emptied, Empties, OpenPcs
      <4>3. JobsEase
        BY <3>4, <4>2, JobEase
      <4> QED
        BY <2>3, <3>2, <4>3, StoreSame, SlotsSame, SoftlyEases, EaseKeeps
    <3> QED
      BY <3>6, <3>7
  <2> QED
    BY <2>4, <2>5
<1> QED
  BY <1>2, <1>3

\* A chat's slot gets a session, a checked one only while its record stays.
LEMMA InstallKeeps ==
    ASSUME ManagerInv, DeleteInv, JobsEase, StoreEases, NEW c \in Keys, NEW s, s # None,
           mgr'.byChat[c] = s, ses'[s].chat = c, ses'[s].st # "closed",
           ses'[s].checked => ~store[c].gone /\ ~store[c].deleting,
           \A d \in Keys \ {c} : /\ mgr'.byChat[d] = mgr.byChat[d]
                                 /\ mgr.byChat[d] # None => ses'[mgr.byChat[d]] = ses[mgr.byChat[d]]
    PROVE  DeleteInv'
<1>1. \A d \in Keys \ {c} : /\ Bare(mgr.byChat[d], ses) => Bare(mgr'.byChat[d], ses')
                            /\ SlotOpen(mgr.byChat[d], d, ses) => SlotOpen(mgr'.byChat[d], d, ses')
  BY DEF Bare, SlotOpen
<1>2. store[c].gone \/ store[c].deleting => Bare(mgr'.byChat[c], ses')
  BY DEF Bare
<1>3. ASSUME NEW j \in Jobs PROVE JobTimely(j)'
  <2> DEFINE d == job[j].chat
  <2>1. JobTimely(j) /\ d \in Keys /\ Eases(job[j], job'[j]) /\ job'[j].chat = d
    BY JobIs DEF DeleteInv, JobsEase, Eases
  <2>2. Prepared(job'[j]) => Timely(job'[j], store'[d])
    <3>1. ASSUME Prepared(job'[j]) PROVE Prepared(job[j]) /\ job'[j].ver = job[j].ver
      BY <2>1, <3>1 DEF Eases
    <3>2. /\ store'[d].gone = store[d].gone /\ store'[d].ver = store[d].ver
          /\ store'[d].deleting => store[d].deleting
      BY <2>1 DEF StoreEases
    <3> QED
      BY <2>1, <3>1, <3>2 DEF JobTimely, Timely
  <2>3. Deletes(job'[j]) => store'[d].deleting /\ Deletes(job[j]) /\ store[d].deleting
    BY <2>1 DEF StoreEases, Eases, JobTimely
  <2>4. Emptied(job'[j]) \/ Empties(job'[j]) => Deletes(job'[j])
    BY DEF Emptied, Empties, Deletes
  <2>5. CASE d = c
    <3>1. Deletes(job'[j]) => Bare(mgr'.byChat[d], ses')
      BY <1>2, <2>3, <2>5
    <3> QED
      BY <2>1, <2>2, <2>3, <2>4, <3>1 DEF JobTimely, Eases
  <2>6. CASE d # c
    <3>1. Emptied(job'[j]) => Bare(mgr'.byChat[d], ses')
      BY <1>1, <2>1, <2>6 DEF JobTimely, Eases
    <3>2. Empties(job'[j]) => mgr'.byChat[d] = job'[j].s \/ Bare(mgr'.byChat[d], ses')
      BY <1>1, <2>1, <2>6 DEF JobTimely, Eases
    <3> QED
      BY <2>1, <2>2, <2>3, <3>1, <3>2 DEF JobTimely, Eases
  <2> QED
    BY <2>5, <2>6
<1>4. \A i, j \in Jobs : Deletes(job'[i]) /\ Deletes(job'[j]) /\ job'[i].chat = job'[j].chat => i = j
  BY DEF DeleteInv, JobsEase, Eases
<1>5. \A d \in Keys : store'[d].gone => Bare(mgr'.byChat[d], ses')
  BY <1>1, <1>2 DEF DeleteInv, StoreEases
<1>6. \A d \in Keys : SlotOpen(mgr'.byChat[d], d, ses')
  BY <1>1 DEF DeleteInv, SlotOpen
<1> QED
  BY <1>3, <1>4, <1>5, <1>6 DEF DeleteInv, StoreEases

\* The session an acquisition installs is in its chat's slot.
LEMMA InstallIs ==
    ASSUME ManagerInv, NEW m, DOMAIN m = MgrFields, m.byChat = mgr.byChat, NEW j \in Jobs, NEW x, NEW b
    PROVE  Install(m, j, x, b).byChat = [mgr.byChat EXCEPT ![job[j].chat] = x]
<1>1. PICK n : n = IF job[j].ex # None THEN WithoutRoute(m, job[j].ex) ELSE m
  OBVIOUS
<1>2. DOMAIN n = MgrFields /\ n.byChat = m.byChat
  BY <1>1, WithoutRouteKeeps DEF Keeps
<1>3. PICK k : k = [n EXCEPT !.byChat[job[j].chat] = x]
  OBVIOUS
<1>4. DOMAIN k = MgrFields /\ k.byChat = [mgr.byChat EXCEPT ![job[j].chat] = x]
  BY <1>2, <1>3 DEF MgrFields
<1>5. Install(m, j, x, b) = IF b THEN WithRoute(k, job[j].got[1], x) ELSE k
  BY <1>1, <1>3 DEF Install
<1>6. Keeps(k, WithRoute(k, job[j].got[1], x))
  BY <1>4 DEF Keeps, WithRoute, MgrFields
<1> QED
  BY <1>4, <1>5, <1>6 DEF Keeps

\* The sessions before a publication are there after it, but for the one it replaces.
LEMMA CreatedIs ==
    ASSUME ManagerInv, NEW ex, NEW new, NEW x, x = Cardinality(DOMAIN ses) + 1,
           ses' = Created(ex, x, new)
    PROVE  /\ x # None /\ ses'[x] = new
           /\ \A y \in DOMAIN ses : y # ex => ses'[y] = ses[y]
<1>1. PICK n \in Nat : DOMAIN ses = 1..n
  BY DEF ManagerInv, Shaped, SesShaped
<1>2. Cardinality(DOMAIN ses) = n
  BY <1>1, FS_Interval
<1>3. PICK t : t = Retired(ex)
  OBVIOUS
<1>4. ses' = [k \in 1..(n + 1) |-> IF k = n + 1 THEN new ELSE t[k]] /\ x = n + 1
  BY <1>2, <1>3 DEF Created
<1>5. \A y \in DOMAIN ses : y # ex => t[y] = ses[y]
  BY <1>3 DEF Retired
<1> QED
  BY <1>1, <1>4, <1>5 DEF None

LEMMA PublishDeletes == ASSUME ManagerInv, DeleteInv, NEW j \in Jobs, Publish(j) PROVE DeleteInv'
<1> DEFINE c == job[j].chat
<1>1. job[j].pc = "publish" /\ job[j].kind \in Acquires /\ job[j].kind # "delete" /\ c \in Keys
  <2>1. job[j].pc = "publish"
    BY DEF Publish, Turn
  <2> QED
    BY <2>1, JobIs DEF DeleteInv, JobTimely, OpenPcs, Acquires
<1>2. CASE Refuse(j)
  <2>1. PICK r : r = [job[j] EXCEPT !.pc = "discard"] /\ job' = [job EXCEPT ![j] = r]
    BY <1>2 DEF Refuse
  <2>2. r.kind = job[j].kind /\ r.chat = c /\ r.ver = job[j].ver /\ r.pc = "discard"
    BY <2>1, JobIs DEF JobFields
  <2>3. JobsEase
    BY <1>1, <2>1, <2>2, StepEases DEF OpenPcs
  <2> QED
    BY <1>2, <2>3, AloneKeeps DEF Refuse
<1>3. CASE ~Refuse(j)
  <2> DEFINE r == job[j].got[1]
             checked == job[j].kind # "media"
             s == Cardinality(DOMAIN ses) + 1
             new == [NewSes(c, r, job[j].got[2], job[j].got[3], checked) EXCEPT !.checked = checked,
                        !.st = IF MayPublish(j) THEN "live" ELSE "resumable"]
             m == [mgr EXCEPT !.refused = @ \cup {[route |-> r, ep |-> new.ep]}]
  <2>1. ~StaleVersion(j) /\ Valid(j)
    BY <1>3 DEF Publish
  <2>2. checked => ~store[c].gone /\ ~store[c].deleting
    <3>1. ASSUME checked PROVE ~store[c].gone /\ ~store[c].deleting
      <4>1. store[c].ver = job[j].ver
        BY <1>1, <2>1, <3>1 DEF StaleVersion
      <4>2. Timely(job[j], store[c])
        BY <1>1, <3>1 DEF DeleteInv, JobTimely, Prepared, Checking, Acquires
      <4> QED
        BY <1>1, <4>1, <4>2 DEF Timely, DeleteInv, StoreShaped
    <3> QED
      BY <3>1
  <2>3. mgr.byChat[c] = job[j].ex
    BY <2>1 DEF Valid
  <2>4. JobsEase /\ StoreEases
    <3>1. CASE \E x : job' = [job EXCEPT ![j].pc = "hydrate", ![j].s = x] /\ store' = store
      <4>1. PICK x, q : /\ q = [job[j] EXCEPT !.pc = "hydrate", !.s = x]
                        /\ job' = [job EXCEPT ![j] = q] /\ store' = store
        BY <3>1
      <4>2. q.kind = job[j].kind /\ q.chat = c /\ q.ver = job[j].ver /\ q.pc = "hydrate"
        BY <4>1, JobIs DEF JobFields
      <4>3. JobsEase
        BY <1>1, <4>1, <4>2, StepEases DEF OpenPcs
      <4> QED
        BY <4>1, <4>3, StoreSame
    <3>2. CASE \E ok : Finish(j, ok)
      BY <1>1, <3>2, FinishEases
    <3>3. CASE AgainOrOver(j)
      BY <1>1, <3>3, AgainEases
    <3> QED
      BY <1>3, <3>1, <3>2, <3>3 DEF Publish
  <2>5. \/ ses' = ses /\ mgr' = m
        \/ ses' = Created(job[j].ex, s, new) /\ mgr' = Install(mgr, j, s, TRUE)
        \/ ses' = Created(job[j].ex, s, new) /\ mgr' = Install(m, j, s, FALSE)
    BY <1>3 DEF Publish, Created
  <2>6. new.chat = c /\ new.st # "closed" /\ new.checked = checked
    BY DEF NewSes
  <2>7. DOMAIN m = MgrFields /\ m.byChat = mgr.byChat
    <3> HIDE DEF new
    <3> QED
      BY MgrIs DEF MgrFields
  <2> HIDE DEF m, new
  <2>8. CASE ses' = ses /\ mgr' = m
    BY <2>4, <2>7, <2>8, SlotsSame, SesEaseSame, EaseKeeps
  <2>9. CASE ses' = Created(job[j].ex, s, new) /\ mgr' \in {Install(mgr, j, s, TRUE), Install(m, j, s, FALSE)}
    <3>1. PICK x, n : x = s /\ n = new
      OBVIOUS
    <3>2. x # None /\ ses'[x] = n /\ \A y \in DOMAIN ses : y # job[j].ex => ses'[y] = ses[y]
      BY <2>9, <3>1, CreatedIs
    <3>3. mgr'.byChat = [mgr.byChat EXCEPT ![c] = x]
      <4> HIDE DEF s
      <4>1. PICK k, b : (k = mgr \/ k = m) /\ mgr' = Install(k, j, x, b)
        BY <2>9, <3>1
      <4>2. DOMAIN k = MgrFields /\ k.byChat = mgr.byChat
        BY <2>7, <4>1, MgrIs
      <4> QED
        BY <4>1, <4>2, InstallIs
    <3>4. ASSUME NEW d \in Keys \ {c}
          PROVE  /\ mgr'.byChat[d] = mgr.byChat[d]
                 /\ mgr.byChat[d] # None => ses'[mgr.byChat[d]] = ses[mgr.byChat[d]]
      <4>1. mgr'.byChat[d] = mgr.byChat[d]
        BY <3>3, MgrIs
      <4>2. ASSUME mgr.byChat[d] # None PROVE mgr.byChat[d] \in DOMAIN ses /\ mgr.byChat[d] # job[j].ex
        BY <1>1, <2>3, <4>2, MgrIs DEF DeleteInv, SlotOpen
      <4> QED
        BY <3>2, <4>1, <4>2
    <3>5. mgr'.byChat[c] = x
      BY <1>1, <3>3, MgrIs DEF MgrShaped
    <3>6. /\ ses'[x].chat = c /\ ses'[x].st # "closed"
          /\ ses'[x].checked => ~store[c].gone /\ ~store[c].deleting
      BY <2>2, <2>6, <3>1, <3>2
    <3> HIDE DEF c
    <3> QED
      BY <1>1, <2>4, <3>2, <3>4, <3>5, <3>6, InstallKeeps
  <2> QED
    BY <2>5, <2>8, <2>9
<1> QED
  BY <1>2, <1>3

-----------------------------------------------------------------------------
(***************************************************************************)
(* Deletion: the start, and every step.                                    *)
(***************************************************************************)

LEMMA InitDeletes == Init => DeleteInv
<1> SUFFICES ASSUME Init PROVE DeleteInv
  OBVIOUS
<1>1. IsFiniteSet(todo.open) /\ todo.open \subseteq Keys /\ \A j \in Jobs : todo.chat[j] \in Keys
  BY ScenarioAssumption DEF Init, Chats
<1> DEFINE N == Cardinality(todo.open)
           chat == Numbered(todo.open)
           at(c) == CHOOSE n \in 1..N : chat[n] = c
<1>2. N \in Nat /\ \A c \in todo.open : \E n \in 1..N : chat[n] = c
  BY <1>1, NumberedIs
<1>3. ses = [n \in 1..N |-> NewSes(chat[n], n, 1, <<chat[n], 0>>, todo.held)]
  BY DEF Init
<1>4. mgr.byChat = [c \in Keys |-> IF c \in todo.open THEN at(c) ELSE None]
  BY DEF Init, Chats
<1>5. \A c \in todo.open : at(c) \in 1..N /\ chat[at(c)] = c
  BY <1>2
<1> HIDE DEF N, chat, at
<1>6. ASSUME NEW n \in 1..N PROVE ses[n].chat = chat[n] /\ ses[n].st = "live"
  BY <1>3 DEF NewSes
<1>7. \A c \in Keys : SlotOpen(mgr.byChat[c], c, ses)
  BY <1>4, <1>5, <1>6 DEF SlotOpen
<1>8. StoreShaped /\ \A c \in Keys : ~store[c].gone
  <2>1. store = [c \in Keys |-> [gone |-> FALSE, deleting |-> FALSE, ver |-> 0,
                                 path |-> IF c \in todo.stored \cup todo.open THEN <<c, 0>> ELSE NoPath]]
    BY DEF Init, Chats
  <2>2. ASSUME NEW p, NEW f, NEW q, q = [gone |-> f, deleting |-> f, ver |-> 0, path |-> p]
        PROVE  DOMAIN q = StoreFields /\ q.ver \in Nat
    BY <2>2 DEF StoreFields
  <2>3. ASSUME NEW c \in Keys PROVE DOMAIN store[c] = StoreFields /\ store[c].ver \in Nat /\ ~store[c].gone
    <3>1. PICK p, f : f = FALSE /\ store[c] = [gone |-> f, deleting |-> f, ver |-> 0, path |-> p]
      BY <2>1
    <3> QED
      BY <2>2, <3>1
  <2> QED
    BY <2>1, <2>3 DEF StoreShaped
<1>9. \A j \in Jobs : job[j].pc = "new" /\ job[j].try = 1
  BY DEF Init, NewJob
<1>10. \A j \in Jobs : JobTimely(j) /\ ~Deletes(job[j])
  BY <1>9 DEF JobTimely, OpenPcs, DeletePcs, Prepared, Deletes, Emptied, Empties
<1> QED
  BY <1>7, <1>8, <1>10 DEF DeleteInv

LEMMA NextDeletes == ManagerInv /\ DeleteInv /\ [Next]_vars => DeleteInv'
<1>1. ASSUME ManagerInv, DeleteInv, UNCHANGED vars PROVE DeleteInv'
  BY <1>1, AsideKeeps DEF vars, mgrVars
<1>2. ASSUME ManagerInv, DeleteInv, NEW j \in Jobs, JobStep(j) \/ Start(j) \/ Shutdown(j) \/ Cancels(j)
      PROVE  DeleteInv'
  BY <1>2, StartDeletes, ShutdownDeletes, CancelsDelete, JoinDeletes, CheckDeletes, HydrateDeletes,
     TakeSlotDeletes, OpenAnsweredDeletes, LeavingDeletes, PublishDeletes, DiscardDeletes, StopDeletes,
     StopWaitedDeletes, DrainDeletes, CommitDeletes, QuiesceDeletes, SweepDeletes
     DEF JobStep
<1>3. ASSUME ManagerInv, DeleteInv, Progress PROVE DeleteInv'
  <2>1. CASE \E j \in Jobs : JobStep(j) \/ Cancels(j)
    BY <1>2, <1>3, <2>1
  <2>2. CASE \E o \in ops : OpStep(o)
    BY <1>3, <2>2, OpDeletes
  <2>3. CASE \E x \in DOMAIN ses : SesClosed(x)
    BY <1>3, <2>3, SesClosedDeletes
  <2>4. CASE (\E c \in calls : Write(c)) \/ (\E w \in wire : Engine(w)) \/ Reconnect \/ ObserveEpoch
    BY <1>3, <2>4, NetDeletes
  <2>5. CASE \E n \in notes : NoteDown(n) \/ NoteUp(n) \/ EnqueueReconciliation(n)
    BY <1>3, <2>5, NetDeletes, LossDeletes, EnqueueDeletes
  <2>6. CASE ObserveLoss
    BY <1>3, <2>6, LossDeletes
  <2> QED
    BY <1>3, <2>1, <2>2, <2>3, <2>4, <2>5, <2>6 DEF Progress
<1>4. ASSUME ManagerInv, DeleteInv, Faulty PROVE DeleteInv'
  <2>1. CASE \E j \in Jobs : Start(j) \/ Shutdown(j) \/ Cancels(j)
    BY <1>2, <1>4, <2>1
  <2>2. CASE (\E c \in calls : DialFails(c)) \/ (\E w \in wire : Engine(w)) \/ EngineUnload \/ Lose \/ Restart
    BY <1>4, <2>2, NetDeletes
  <2>3. CASE ReconnectFails
    BY <1>4, <2>3, LossDeletes
  <2> QED
    BY <1>4, <2>1, <2>2, <2>3 DEF Faulty
<1> QED
  BY <1>1, <1>3, <1>4 DEF Next

-----------------------------------------------------------------------------
(***************************************************************************)
(* The results.                                                            *)
(***************************************************************************)

(* open, awaitDetachedCompletion and recoverOpenFence: however many opens,
   callers that leave, restarts and recoveries there are, the slots count
   the unanswered opens, stay within Config.DetachedOpenLimit, and a fence
   has an open behind it. *)
THEOREM SlotsNeverLeak == Spec => []SlotsAccounted
<1>1. ManagerInv => SlotsAccounted
  BY DEF ManagerInv
<1> QED
  BY <1>1, ManagerInvariant, PTL

(* Acquisitions, reconciliations, Stop and deletion of a chat, with all the
   failures of the connection and the engine, implement the FIFO permit. *)
THEOREM ManagerImplementsPermit == Spec => PermitSpec
BY ManagerFlies, FlightImplementsPermit, PTL

(* Two operations of a chat never hold it at the same time. *)
THEOREM ManagerExclusive == Spec => []Exclusive
BY ManagerFlies, OneOwner, PTL

(* handleDeleteChat against acquisitions in flight: however a deletion and
   the acquisitions of its chat are interleaved (queued behind it, begun
   before it, refused, cancelled, reconciled after a loss), once the record
   is gone no acquisition that checks the chat's generation leaves a session
   in its slot. *)
THEOREM DeletionHolds == Spec => []DeletedStaysGone
<1>1. DeleteInv => DeletedStaysGone
  BY DEF DeleteInv, DeletedStaysGone, Bare, Chats
<1> QED
  BY <1>1, InitDeletes, NextDeletes, ManagerInvariant, PTL DEF Spec
=============================================================================
