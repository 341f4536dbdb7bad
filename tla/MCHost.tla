------------------------------- MODULE MCHost -------------------------------
(***************************************************************************)
(* The parts around the sessions share no state with each other, so one    *)
(* run explores them side by side: part says which of them moves, the      *)
(* others rest in an initial state of theirs.                              *)
(***************************************************************************)
EXTENDS EngineHost, ServerProcess, AdoptCopy, ChatName, ChatCatalog, TLC

CONSTANTS r1, r2, r3, d1, d2

VARIABLE part

hostRunVars == <<part, hostVars, processVars, copyVars, nameVars, catalogVars>>

(***************************************************************************)
(* The engine: how often a server is started, an engine dies, a connection *)
(* breaks, the path vanishes, somebody else starts an engine, a server     *)
(* crashes, restarts its engine or is told to quit, a launch is slow, a    *)
(* signal is not heeded and an engine answers badly.                       *)
(***************************************************************************)
Budget(names) ==
    [f \in HostFaults |->
        IF f \in DOMAIN names THEN names[f] ELSE 0]

EngineScenarios == {
    <<Budget([boot |-> 1, restart |-> 1, quit |-> 1, slow |-> 1, stubborn |-> 2]), None>>,
    <<Budget([boot |-> 2, quit |-> 1, stubborn |-> 1]), 1>>,
    <<Budget([boot |-> 1, vanish |-> 1, restart |-> 1, quit |-> 1, stubborn |-> 1]), None>>,
    <<Budget([boot |-> 1, outside |-> 1, restart |-> 1, slow |-> 1, stubborn |-> 1]), 1>>,
    <<Budget([boot |-> 2, crash |-> 1, restart |-> 1, stubborn |-> 1]), None>>,
    <<Budget([boot |-> 1, dies |-> 1, vanish |-> 1, quit |-> 1, odd |-> 1]), None>>,
    <<Budget([boot |-> 1, dies |-> 1, vanish |-> 1, restart |-> 1]), None>>,
    <<Budget([boot |-> 1, drop |-> 1, vanish |-> 1, restart |-> 1, quit |-> 1]), None>>,
    <<Budget([boot |-> 2, drop |-> 1, vanish |-> 1, quit |-> 1]), 1>>,
    <<Budget([boot |-> 1, outside |-> 1, odd |-> 1, restart |-> 1, stubborn |-> 2]), None>> }

(* The chats: three requests at a time, and the row there is at first *)
Three(a, b, c) == r1 :> a @@ r2 :> b @@ r3 :> c
Legacy == Row("legacy", d1, FALSE, FALSE)
Enrolled == Row("inplace", d1, FALSE, TRUE)
InPlace == Row("inplace", d1, FALSE, FALSE)
Native == Row("native", Unbound, FALSE, FALSE)
CatalogScenarios ==
    {Three("tick", "delete", "open")} \X {Enrolled, NoRow, InPlace}
    \cup {Three("tick", "drop", "open")} \X {Enrolled, Native}
    \cup {Three("adopt", "open", "tick")} \X {Legacy, Enrolled, NoRow}
    \cup {Three("inplace", "open", "delete")} \X {InPlace, NoRow, Legacy}
    \cup {Three("inplace", "open", "open")} \X {InPlace, Native}
    \cup {Three("create", "tick", "open")} \X {NoRow, Native}
    \cup {Three("drop", "adopt", "drop")} \X {Enrolled, Native}

EngineRests == HostInit(Budget(<<>>), None)
ProcessRests == ProcessInit(0)
CopyRests == CopyInit(FALSE, 0)
NameRests == NameInit(0)
CatalogRests == CatalogInit(Three("open", "open", "open"), NoRow, 0) /\ live = {}

Init ==
    \/ /\ part = "engine" /\ \E sc \in EngineScenarios : HostInit(sc[1], sc[2])
       /\ ProcessRests /\ CopyRests /\ NameRests /\ CatalogRests
    \/ /\ part = "process" /\ ProcessInit(2)
       /\ EngineRests /\ CopyRests /\ NameRests /\ CatalogRests
    \/ /\ part = "copy" /\ \E snapshot \in BOOLEAN : CopyInit(snapshot, 1)
       /\ EngineRests /\ ProcessRests /\ NameRests /\ CatalogRests
    \/ /\ part = "name" /\ NameInit(2)
       /\ EngineRests /\ ProcessRests /\ CopyRests /\ CatalogRests
    \/ /\ part = "catalog" /\ \E sc \in CatalogScenarios : CatalogInit(sc[1], sc[2], 1)
       /\ EngineRests /\ ProcessRests /\ CopyRests /\ NameRests

Next ==
    \/ /\ part = "engine" /\ HostNext
       /\ UNCHANGED <<part, processVars, copyVars, nameVars, catalogVars>>
    \/ /\ part = "process" /\ ProcessNext
       /\ UNCHANGED <<part, hostVars, copyVars, nameVars, catalogVars>>
    \/ /\ part = "copy" /\ CopyNext
       /\ UNCHANGED <<part, hostVars, processVars, nameVars, catalogVars>>
    \/ /\ part = "name" /\ NameNext
       /\ UNCHANGED <<part, hostVars, processVars, copyVars, catalogVars>>
    \/ /\ part = "catalog" /\ CatalogNext
       /\ UNCHANGED <<part, hostVars, processVars, copyVars, nameVars>>
    \* the chats rest only when every request has ended
    \/ (part = "catalog" => CatalogDone) /\ UNCHANGED hostRunVars

Spec == Init /\ [][Next]_hostRunVars

Alike == Permutations(Servers)
=============================================================================
