----------------------------- MODULE ChatPermit -----------------------------
(***************************************************************************)
(* What Manager.EnterChat and Manager.EnqueueChat promise of the per-chat  *)
(* permit: the operations of a chat own it one at a time, in the order in  *)
(* which they asked, and one that gives up leaves the others in place.     *)
(***************************************************************************)
EXTENDS Naturals, Sequences

CONSTANTS Keys, Jobs

VARIABLE line   \* per chat the owner, then those who wait, in order

Leave(q, n) == SubSeq(q, 1, n - 1) \o SubSeq(q, n + 1, Len(q))

Init == line = [k \in Keys |-> <<>>]

(* An operation that is in no line joins one *)
Join(j, k) ==
    /\ \A i \in Keys : \A n \in 1..Len(line[i]) : line[i][n] # j
    /\ line' = [line EXCEPT ![k] = Append(@, j)]

(* The owner hands over, or a waiter gives up *)
Go(j, k) ==
    \E n \in 1..Len(line[k]) : line[k][n] = j /\ line' = [line EXCEPT ![k] = Leave(@, n)]

Next == \E j \in Jobs, k \in Keys : Join(j, k) \/ Go(j, k)

Spec == Init /\ [][Next]_line
=============================================================================
