----------------------------- MODULE HostProofs -----------------------------
(***************************************************************************)
(* Proofs about the parts around the sessions, each for every value of its *)
(* constants: the copies of session files, the server process, the names   *)
(* of the chats, the stored chats and the engines a server acquires.  The  *)
(* parts share no state; a section's theorems are about the specification  *)
(* of its part alone.                                                      *)
(***************************************************************************)
EXTENDS AdoptCopy, ServerProcess, ChatName, ChatCatalog, EngineHost, FiniteSetTheorems, TLAPS

-----------------------------------------------------------------------------
(***************************************************************************)
(* Copies of session files: the inductive invariant.                       *)
(***************************************************************************)

Inside == {"inspect", "copying", "publish", "verify", "same", "failed"}
Pcs == {"validate", "lock", "ok", "error"} \cup Inside

Progress == [pc : Pcs, ino : Nat, hash : Nat, stage : Int, back : Nat, published : BOOLEAN]

CopyType ==
    /\ replace \in BOOLEAN
    /\ source \in [ver : Whole, ino : Nat]
    /\ dest \in Nat /\ good \in Nat /\ stops \in Nat
    /\ call \in [Calls -> Progress]
    /\ turn \in Calls \cup {NoTurn}

\* No file is newer than the source.
Behind ==
    /\ dest <= source.ver /\ good <= source.ver
    /\ \A c \in Calls : call[c].back <= source.ver

\* What is past the lock has the turn, and what is published is past the lock.
TakesTurns ==
    \A c \in Calls : /\ call[c].pc \in Inside => turn = c
                     /\ call[c].published => call[c].pc \in Inside

\* The hash was taken under the lock, so nothing older than the last good copy is
\* staged, and what is about to be published is what was hashed.
Hashed ==
    \A c \in Calls :
        /\ call[c].pc \in Inside => 1 <= call[c].hash /\ call[c].hash <= source.ver /\ good <= call[c].hash
        /\ call[c].pc = "publish" => call[c].stage = call[c].hash

\* The last good copy is there, and cleanup would put back nothing worse.
Kept ==
    /\ IF replace THEN dest >= good ELSE good # NoFile => dest = good
    /\ \A c \in Calls : call[c].published =>
          IF replace THEN call[c].back >= good ELSE good = NoFile /\ call[c].back = NoFile

CopyInv == CopyType /\ Behind /\ TakesTurns /\ Hashed /\ Kept

-----------------------------------------------------------------------------
(***************************************************************************)
(* Steps.                                                                  *)
(***************************************************************************)

\* What the invariant asks of a call that goes on with r.
Fits(c, r) ==
    /\ r \in Progress /\ r.back <= source.ver
    /\ r.pc \in Inside => turn' = c /\ 1 <= r.hash /\ r.hash <= source.ver /\ good' <= r.hash
    /\ r.pc = "publish" => r.stage = r.hash
    /\ r.published => /\ r.pc \in Inside
                      /\ IF replace THEN r.back >= good' ELSE good' = NoFile /\ r.back = NoFile

\* A call goes on; the others notice only a turn that is given away.
LEMMA Moves ==
    ASSUME CopyInv, NEW c \in Calls, NEW r, Fits(c, r), call' = [call EXCEPT ![c] = r],
           replace' = replace, source' = source, stops' = stops,
           dest' \in Nat, dest' <= source.ver, good' \in Nat, good' <= source.ver,
           turn' \in Calls \cup {NoTurn},
           \A d \in Calls \ {c} : call[d].pc \notin Inside \/ (turn' = turn /\ good' = good),
           IF replace THEN dest' >= good' ELSE good' # NoFile => dest' = good'
    PROVE  CopyInv'
<1>0. CopyType /\ Behind /\ TakesTurns /\ Hashed /\ Kept /\ r \in Progress
  BY DEF CopyInv, Fits
<1>1. call'[c] = r /\ \A d \in Calls \ {c} : call'[d] = call[d]
  BY <1>0 DEF CopyType
<1>2. CopyType'
  BY <1>0 DEF CopyType
<1>3. Behind'
  BY <1>0, <1>1 DEF Behind, Fits
<1>4. TakesTurns'
  BY <1>0, <1>1 DEF TakesTurns, Fits
<1>5. Hashed'
  BY <1>0, <1>1 DEF Hashed, Fits
<1>6. Kept'
  BY <1>0, <1>1 DEF Kept, TakesTurns, Fits
<1> QED
  BY <1>2, <1>3, <1>4, <1>5, <1>6 DEF CopyInv

\* What the invariant says of one call.
LEMMA OfCall ==
    ASSUME CopyInv, NEW c \in Calls
    PROVE  /\ call[c] \in Progress /\ call[c].back <= source.ver /\ source.ver \in Nat /\ source.ino \in Nat
           /\ 1 <= source.ver /\ dest \in Nat /\ good \in Nat /\ dest <= source.ver /\ good <= source.ver
           /\ call[c].pc \in Inside => /\ turn = c /\ 1 <= call[c].hash /\ call[c].hash <= source.ver
                                       /\ good <= call[c].hash
                                       /\ \A d \in Calls \ {c} : call[d].pc \notin Inside
           /\ call[c].pc = "publish" => call[c].stage = call[c].hash
           /\ call[c].published => /\ call[c].pc \in Inside
                                   /\ IF replace THEN call[c].back >= good ELSE good = NoFile /\ call[c].back = NoFile
           /\ IF replace THEN dest >= good ELSE good # NoFile => dest = good
           /\ turn \in Calls \cup {NoTurn} /\ replace \in BOOLEAN
<1>1. call[c] \in Progress /\ source.ver \in Nat /\ source.ino \in Nat /\ 1 <= source.ver
      /\ dest \in Nat /\ good \in Nat /\ turn \in Calls \cup {NoTurn} /\ replace \in BOOLEAN
  BY CopyAssumption DEF CopyInv, CopyType, Whole
<1>2. call[c].pc \in Inside => turn = c /\ \A d \in Calls \ {c} : call[d].pc \notin Inside
  BY DEF CopyInv, TakesTurns
<1>3. /\ call[c].pc \in Inside => 1 <= call[c].hash /\ call[c].hash <= source.ver /\ good <= call[c].hash
      /\ call[c].pc = "publish" => call[c].stage = call[c].hash
  BY DEF CopyInv, Hashed
<1>4. call[c].published => call[c].pc \in Inside
  BY DEF CopyInv, TakesTurns
<1>5. call[c].published => IF replace THEN call[c].back >= good ELSE good = NoFile /\ call[c].back = NoFile
  BY DEF CopyInv, Kept
<1>6. IF replace THEN dest >= good ELSE good # NoFile => dest = good
  BY DEF CopyInv, Kept
<1>7. call[c].back <= source.ver /\ dest <= source.ver /\ good <= source.ver
  BY DEF CopyInv, Behind
<1> QED
  BY <1>1, <1>2, <1>3, <1>4, <1>5, <1>6, <1>7

\* A call that is over holds nothing.
LEMMA CallEnds ==
    ASSUME NEW pc \in {"ok", "error"}, NEW r, r = [Fresh EXCEPT !.pc = pc]
    PROVE  r \in Progress /\ r.pc = pc /\ r.back = 0 /\ ~r.published
<1>1. r = [pc |-> pc, ino |-> 0, hash |-> 0, stage |-> 0, back |-> 0, published |-> FALSE]
  BY DEF Fresh, NoFile
<1>2. r.pc = pc /\ r.back = 0 /\ r.published = FALSE
  BY <1>1
<1>3. pc \in Pcs /\ 0 \in Nat /\ 0 \in Int /\ FALSE \in BOOLEAN
  BY DEF Pcs
<1>4. [pc |-> pc, ino |-> 0, hash |-> 0, stage |-> 0, back |-> 0, published |-> FALSE] \in Progress
  BY <1>3 DEF Progress
<1> QED
  BY <1>1, <1>2, <1>4

LEMMA ValidateStep == ASSUME CopyInv, NEW c \in Calls, Validate(c) PROVE CopyInv'
<1> DEFINE r == [call[c] EXCEPT !.pc = "lock", !.ino = source.ino]
<1>1. call' = [call EXCEPT ![c] = r]
  BY DEF Validate, CopyInv, CopyType
<1>2. Fits(c, r)
  BY OfCall DEF Validate, Keep, Fits, Progress, Pcs, Inside
<1> QED
  BY <1>1, <1>2, OfCall, Moves DEF Validate, Keep

LEMMA RevalidateStep == ASSUME CopyInv, NEW c \in Calls, Revalidate(c) PROVE CopyInv'
<1> DEFINE pc == IF source.ino = call[c].ino THEN "inspect" ELSE "failed"
           r == [call[c] EXCEPT !.pc = pc, !.hash = source.ver]
<1>1. call' = [call EXCEPT ![c] = r]
  BY DEF Revalidate, CopyInv, CopyType
<1>2. ~call[c].published
  BY OfCall DEF Revalidate, Inside
<1>3. Fits(c, r)
  <2>1. call[c] \in Progress /\ source.ver \in Nat /\ pc \in {"inspect", "failed"}
    BY OfCall
  <2>2. r \in Progress /\ r.pc = pc /\ r.hash = source.ver /\ r.back = call[c].back /\ ~r.published
    BY <1>2, <2>1 DEF Progress, Pcs, Inside
  <2>3. r.pc # "publish" /\ turn' = c /\ good' = good
    BY <2>1, <2>2 DEF Revalidate, Keep
  <2> HIDE DEF r
  <2> QED
    BY <2>2, <2>3, OfCall DEF Fits
<1>4. \A d \in Calls : call[d].pc \notin Inside
  BY CopyAssumption DEF Revalidate, CopyInv, TakesTurns
<1> QED
  BY <1>1, <1>3, <1>4, OfCall, Moves DEF Revalidate, Keep

\* A call under the lock goes on to pc and touches nothing else.
LEMMA StepStep ==
    ASSUME CopyInv, NEW c \in Calls, NEW pc \in Inside \ {"publish"}, call[c].pc \in Inside,
           Step(c, pc), Keep, UNCHANGED <<dest, turn>>
    PROVE  CopyInv'
<1> DEFINE r == [call[c] EXCEPT !.pc = pc]
<1>1. call' = [call EXCEPT ![c] = r]
  BY DEF Step, CopyInv, CopyType
<1>2. Fits(c, r)
  BY OfCall DEF Keep, Fits, Progress, Pcs, Inside
<1> QED
  BY <1>1, <1>2, OfCall, Moves DEF Keep

LEMMA InspectStep == ASSUME CopyInv, NEW c \in Calls, Inspect(c) PROVE CopyInv'
<1>0. call[c].pc \in Inside
  BY DEF Inspect, Inside
<1>1. CASE dest # NoFile /\ ~replace
  BY <1>0, <1>1, StepStep DEF Inspect, Existing, Inside
<1>2. CASE ~(dest # NoFile /\ ~replace)
  <2> DEFINE r == [call[c] EXCEPT !.pc = "copying", !.stage = source.ver]
  <2>1. call' = [call EXCEPT ![c] = r]
    BY <1>2 DEF Inspect, CopyInv, CopyType
  <2>2. Fits(c, r)
    <3>1. call[c] \in Progress /\ source.ver \in Int
      BY OfCall
    <3>2. /\ r \in Progress /\ r.pc = "copying" /\ r.hash = call[c].hash /\ r.back = call[c].back
          /\ r.published = call[c].published
      BY <3>1 DEF Progress, Pcs, Inside
    <3>3. "copying" \in Inside /\ turn' = turn /\ good' = good
      BY DEF Inspect, Keep, Inside
    <3> HIDE DEF r
    <3> QED
      BY <1>0, <3>2, <3>3, OfCall DEF Fits
  <2> QED
    BY <2>1, <2>2, OfCall, Moves DEF Inspect, Keep
<1> QED
  BY <1>1, <1>2

\* Only staged bytes that are the hashed ones are published.
LEMMA CopiedStep == ASSUME CopyInv, NEW c \in Calls, Copied(c) PROVE CopyInv'
<1>0. call[c].pc \in Inside
  BY DEF Copied, Inside
<1> DEFINE pc == IF call[c].stage = call[c].hash /\ source.ver = call[c].hash THEN "publish" ELSE "failed"
           r == [call[c] EXCEPT !.pc = pc]
<1>1. call' = [call EXCEPT ![c] = r]
  BY DEF Copied, Step, CopyInv, CopyType
<1>2. Fits(c, r)
  BY <1>0, OfCall DEF Copied, Keep, Fits, Progress, Pcs, Inside
<1> QED
  BY <1>1, <1>2, OfCall, Moves DEF Copied, Keep

\* The staged copy is no older than the last good one, and what it replaces is kept.
LEMMA PublishStep == ASSUME CopyInv, NEW c \in Calls, Publish(c) PROVE CopyInv'
<1>0. call[c].pc \in Inside /\ call[c].stage = call[c].hash
  BY OfCall DEF Publish, Inside
<1>1. CASE dest # NoFile /\ ~replace
  BY <1>0, <1>1, StepStep DEF Publish, Existing, Inside
<1>2. CASE ~(dest # NoFile /\ ~replace)
  <2> DEFINE r == [call[c] EXCEPT !.pc = "verify", !.published = TRUE, !.back = dest]
  <2>1. call' = [call EXCEPT ![c] = r]
    BY <1>2 DEF Publish, CopyInv, CopyType
  <2>2. ~replace => good = NoFile
    BY <1>2, OfCall
  <2>3. Fits(c, r)
    BY <1>0, <1>2, <2>2, OfCall DEF Publish, Keep, Fits, Progress, Pcs, Inside
  <2>4. dest' = call[c].hash /\ call[c].hash \in Nat
    BY <1>0, <1>2, OfCall DEF Publish, Progress
  <2> QED
    BY <1>0, <2>1, <2>2, <2>3, <2>4, OfCall, Moves DEF Publish, Keep
<1> QED
  BY <1>1, <1>2

LEMMA VerifyStep == ASSUME CopyInv, NEW c \in Calls, Verify(c) PROVE CopyInv'
BY StepStep DEF Verify, Inside

LEMMA InterruptedStep == ASSUME CopyInv, NEW c \in Calls, Interrupted(c) PROVE CopyInv'
BY StepStep DEF Interrupted, Inside

LEMMA SucceedStep == ASSUME CopyInv, NEW c \in Calls, Succeed(c) PROVE CopyInv'
<1>a. PICK r : r = [Fresh EXCEPT !.pc = "ok"]
  OBVIOUS
<1>0. call[c].pc \in Inside
  BY DEF Succeed, Inside
<1>b. r \in Progress /\ r.pc = "ok" /\ r.back = 0 /\ ~r.published
  BY <1>a, CallEnds
<1>1. call' = [call EXCEPT ![c] = r]
  BY <1>a DEF Succeed
<1>2. Fits(c, r)
  BY <1>a, <1>b, OfCall DEF Fits, Inside
<1>3. UNCHANGED <<replace, source, dest, stops>> /\ good' = dest /\ turn' = NoTurn
  BY DEF Succeed
<1>4. /\ dest \in Nat /\ dest <= source.ver /\ \A d \in Calls \ {c} : call[d].pc \notin Inside
  BY <1>0, OfCall
<1>5. IF replace THEN dest' >= good' ELSE good' # NoFile => dest' = good'
  BY <1>3, <1>4
<1> QED
  BY <1>1, <1>2, <1>3, <1>4, <1>5, Moves

\* What was published is taken back: the last good copy is there again.
LEMMA CleanupStep == ASSUME CopyInv, NEW c \in Calls, Cleanup(c) PROVE CopyInv'
<1>a. PICK r : r = [Fresh EXCEPT !.pc = "error"]
  OBVIOUS
<1>0. call[c].pc \in Inside /\ call[c].back \in Nat
  BY OfCall DEF Cleanup, Inside, Progress
<1>b. r \in Progress /\ r.pc = "error" /\ r.back = 0 /\ ~r.published
  BY <1>a, CallEnds
<1>1. call' = [call EXCEPT ![c] = r]
  BY <1>a DEF Cleanup
<1>2. Fits(c, r)
  BY <1>a, <1>b, OfCall DEF Fits, Inside
<1>3. /\ dest' \in Nat /\ dest' <= source.ver
      /\ IF replace THEN dest' >= good ELSE good # NoFile => dest' = good
  BY <1>0, OfCall DEF Cleanup
<1> QED
  BY <1>0, <1>1, <1>2, <1>3, OfCall, Moves DEF Cleanup, Keep

\* A write of the source tears the copies that are being made, and only those.
LEMMA WritesStep == ASSUME CopyInv, Writes PROVE CopyInv'
<1>0. CopyType /\ Behind /\ TakesTurns /\ Hashed /\ Kept
  BY DEF CopyInv
<1>1. /\ source' \in [ver : Whole, ino : Nat] /\ source.ver \in Nat
      /\ source'.ver \in Nat /\ source.ver <= source'.ver
  BY <1>0, CopyAssumption DEF Writes, CopyType, Whole
<1>2. ASSUME NEW c \in Calls
      PROVE  /\ call'[c] \in Progress /\ call'[c].pc = call[c].pc /\ call'[c].hash = call[c].hash
             /\ call'[c].back = call[c].back /\ call'[c].published = call[c].published
             /\ call[c].pc = "publish" => call'[c].stage = call[c].stage
             /\ call[c] \in Progress
  BY <1>0 DEF Writes, CopyType, Progress, Torn
<1>3. CopyType'
  <2>1. call' \in [Calls -> Progress]
    BY <1>2 DEF Writes
  <2> QED
    BY <1>0, <1>1, <2>1 DEF Writes, CopyType
<1>4. Behind'
  BY <1>0, <1>1, <1>2 DEF Writes, Behind, CopyType, Progress
<1>5. TakesTurns'
  BY <1>0, <1>2 DEF Writes, TakesTurns
<1>6. Hashed'
  <2> SUFFICES ASSUME NEW c \in Calls
               PROVE  /\ call'[c].pc \in Inside => /\ 1 <= call'[c].hash /\ call'[c].hash <= source'.ver
                                                   /\ good' <= call'[c].hash
                      /\ call'[c].pc = "publish" => call'[c].stage = call'[c].hash
    BY DEF Hashed
  <2>1. call[c].hash \in Nat
    BY <1>2 DEF Progress
  <2>2. call[c].pc \in Inside => 1 <= call[c].hash /\ call[c].hash <= source'.ver /\ good <= call[c].hash
    BY <1>0, <1>1, <2>1 DEF Hashed
  <2>3. call[c].pc = "publish" => call[c].stage = call[c].hash
    BY <1>0 DEF Hashed
  <2> QED
    BY <1>2, <2>2, <2>3 DEF Writes
<1>7. Kept'
  BY <1>0, <1>2 DEF Writes, Kept
<1> QED
  BY <1>3, <1>4, <1>5, <1>6, <1>7 DEF CopyInv

\* A copy of another process appears only where there is none.
LEMMA ElsewhereStep == ASSUME CopyInv, Elsewhere PROVE CopyInv'
<1>0. CopyType /\ Behind /\ TakesTurns /\ Hashed /\ Kept
  BY DEF CopyInv
<1>1. source.ver \in Nat /\ dest' \in Nat /\ dest' <= source.ver /\ stops' \in Nat
  BY <1>0, CopyAssumption DEF Elsewhere, CopyType, Whole
<1>2. CopyType' /\ Behind' /\ TakesTurns' /\ Hashed'
  BY <1>0, <1>1 DEF Elsewhere, CopyType, Behind, TakesTurns, Hashed
<1>3. Kept'
  BY <1>0 DEF Elsewhere, Kept
<1> QED
  BY <1>2, <1>3 DEF CopyInv

\* The process stops: what it published stays, and is no older than the last good copy.
LEMMA StopStep == ASSUME CopyInv, Stop PROVE CopyInv'
<1>0. CopyType /\ Behind /\ TakesTurns /\ Hashed /\ Kept
  BY DEF CopyInv
<1> DEFINE e == [Fresh EXCEPT !.pc = "error"]
<1>1. e \in Progress /\ e.pc = "error" /\ e.back = 0 /\ ~e.published
  BY CallEnds
<1>2. ASSUME NEW c \in Calls
      PROVE  call'[c] \in Progress /\ call'[c].pc \notin Inside /\ ~call'[c].published /\ call'[c].back <= source.ver
  <2>1. CASE call[c].pc = "validate"
    BY <2>1, OfCall DEF Stop, Inside
  <2>2. CASE call[c].pc # "validate"
    <3>1. call'[c] = e
      BY <2>2 DEF Stop
    <3> QED
      BY <1>1, <3>1, OfCall DEF Inside
  <2> QED
    BY <2>1, <2>2
<1>3. CopyType'
  <2>1. call' \in [Calls -> Progress]
    BY <1>2 DEF Stop
  <2> QED
    BY <1>0, <2>1 DEF Stop, CopyType
<1>4. Behind' /\ TakesTurns'
  BY <1>0, <1>2 DEF Stop, Behind, TakesTurns
<1>5. Hashed'
  BY <1>2 DEF Stop, Hashed, Inside
<1>6. Kept'
  BY <1>0, <1>2 DEF Stop, Kept
<1> QED
  BY <1>3, <1>4, <1>5, <1>6 DEF CopyInv

-----------------------------------------------------------------------------
(***************************************************************************)
(* The theorem.                                                            *)
(***************************************************************************)

LEMMA CopyStart == ASSUME NEW snapshot \in BOOLEAN, NEW n \in Nat, CopyInit(snapshot, n) PROVE CopyInv
<1>1. Fresh \in Progress /\ Fresh.pc = "validate" /\ Fresh.back = 0 /\ ~Fresh.published
  BY DEF Fresh, NoFile, Progress, Pcs
<1>2. source \in [ver : Whole, ino : Nat] /\ source.ver = 1
  BY CopyAssumption DEF CopyInit, Whole
<1>3. CopyType
  BY <1>1, <1>2 DEF CopyInit, CopyType, NoFile
<1>4. Behind /\ TakesTurns /\ Hashed /\ Kept
  BY <1>1, <1>2 DEF CopyInit, Behind, TakesTurns, Hashed, Kept, NoFile, Inside
<1> QED
  BY <1>3, <1>4 DEF CopyInv

LEMMA CopyStep == CopyInv /\ [CopyNext]_copyVars => CopyInv'
<1> SUFFICES ASSUME CopyInv, [CopyNext]_copyVars PROVE CopyInv'
  OBVIOUS
<1>1. CASE UNCHANGED copyVars
  BY <1>1 DEF copyVars, CopyInv, CopyType, Behind, TakesTurns, Hashed, Kept
<1>2. ASSUME NEW c \in Calls, Validate(c) \/ Revalidate(c) \/ Inspect(c) \/ Copied(c) \/ Publish(c)
      PROVE  CopyInv'
  BY <1>2, ValidateStep, RevalidateStep, InspectStep, CopiedStep, PublishStep
<1>3. ASSUME NEW c \in Calls, Verify(c) \/ Succeed(c) \/ Cleanup(c) \/ Interrupted(c)
      PROVE  CopyInv'
  BY <1>3, VerifyStep, SucceedStep, CleanupStep, InterruptedStep
<1> QED
  BY <1>1, <1>2, <1>3, WritesStep, ElsewhereStep, StopStep DEF CopyNext

\* However many calls copy one session file, whatever writes the source, and wherever
\* a call fails or the process stops between publication and verification: the
\* destination is never torn and the last copy a caller was told of is kept.
THEOREM CopyKept == CopySpec => []LastGoodKept
<1>1. CopyInv => LastGoodKept
  BY CopyAssumption DEF CopyInv, CopyType, Behind, Kept, LastGoodKept, Whole, NoFile
<1>2. (\E snapshot \in BOOLEAN, n \in Nat : CopyInit(snapshot, n)) => CopyInv
  BY CopyStart
<1> QED
  BY <1>1, <1>2, CopyStep, PTL DEF CopySpec

-----------------------------------------------------------------------------
(***************************************************************************)
(* The server process: the inductive invariant.                            *)
(***************************************************************************)

\* A command has the lock, or is about a process that a pid file named.
Locked == {"spawn", "wait", "undo", "clean"}
Aiming == {"wait", "term", "await", "last"}

CommandState == [pc : Locked \cup Aiming \cup {"idle", "read", "done"}, p : Pids \cup {NoPid}]
ServerState ==
    [st : {"none", "boot", "run", "named", "ready", "exit", "gone"},
     told : BOOLEAN, cloexec : BOOLEAN, engine : BOOLEAN, byte : BOOLEAN]

ProcessType ==
    /\ held \subseteq Commands \cup Pids
    /\ pidfile \in Pids \cup {NoPid}
    /\ cmd \in [Commands -> CommandState]
    /\ proc \in [Pids -> ServerState]

\* The lock is open in the commands that work under it and in the living servers.
Holders ==
    /\ \A c \in Commands : c \in held <=> cmd[c].pc \in Locked
    /\ \A p \in Pids : p \in held <=> Alive(p)

\* Beside a command that has the lock there is at most the server it waits for,
\* and beside a server no other.
Alone ==
    /\ \A c \in Commands : cmd[c].pc \in Locked =>
          held \subseteq {c} \cup (IF cmd[c].pc = "wait" THEN {cmd[c].p} ELSE {})
    /\ \A p, q \in Pids : p \in held /\ q \in held => p = q

\* A command never waits for, or signals, no process.
Aims == \A c \in Commands : cmd[c].pc \in Aiming => cmd[c].p \in Pids

\* The server that has written the pid file is in it.
Named ==
    \A p \in Pids : /\ proc[p].st \in {"named", "ready"} => pidfile = p
                    /\ proc[p].st = "run" => proc[p].cloexec

ProcessInv == ProcessType /\ Holders /\ Alone /\ Aims /\ Named

-----------------------------------------------------------------------------
(***************************************************************************)
(* Commands.                                                               *)
(***************************************************************************)

\* While a command has the lock and waits for no server, no server lives.
LEMMA NobodyElse ==
    ASSUME ProcessInv, NEW c \in Commands, cmd[c].pc \in Locked \ {"wait"}
    PROVE  held = {c} /\ \A p \in Pids : ~Alive(p)
<1>1. held \subseteq {c} /\ c \in held
  BY DEF ProcessInv, Alone, Holders
<1> QED
  BY <1>1, ProcessAssumption DEF ProcessInv, Holders

\* A command goes on with v, alone under the lock when it has it; only a command that
\* has the lock touches the pid file.
LEMMA CommandMoves ==
    ASSUME ProcessInv, NEW c \in Commands, NEW v \in CommandState, cmd' = [cmd EXCEPT ![c] = v], proc' = proc,
           held' = IF v.pc \in Locked THEN held \cup {c} ELSE held \ {c},
           v.pc \in Locked => held' \subseteq {c} \cup (IF v.pc = "wait" THEN {v.p} ELSE {}),
           v.pc \in Aiming => v.p \in Pids,
           pidfile' \in Pids \cup {NoPid},
           pidfile' = pidfile \/ cmd[c].pc \in Locked \ {"wait"}
    PROVE  ProcessInv'
<1>0. ProcessType /\ Holders /\ Alone /\ Aims /\ Named
  BY DEF ProcessInv
<1>1. cmd'[c] = v /\ \A d \in Commands \ {c} : cmd'[d] = cmd[d]
  BY <1>0 DEF ProcessType
<1>2. ProcessType'
  BY <1>0 DEF ProcessType
<1>3. Holders'
  BY <1>0, <1>1, ProcessAssumption DEF Holders, Alive
<1>4. Alone'
  <2>1. ASSUME NEW d \in Commands, cmd'[d].pc \in Locked
        PROVE  held' \subseteq {d} \cup (IF cmd'[d].pc = "wait" THEN {cmd'[d].p} ELSE {})
    <3>1. CASE d = c
      BY <1>1, <2>1, <3>1
    <3>2. CASE d # c
      <4>1. cmd'[d] = cmd[d] /\ d \in held /\ d \in held'
        BY <1>0, <1>1, <2>1, <3>2 DEF Holders
      <4>2. v.pc \notin Locked
        BY <3>2, <4>1, ProcessAssumption DEF Aiming
      <4> QED
        BY <1>0, <2>1, <4>1, <4>2 DEF Alone
    <3> QED
      BY <3>1, <3>2
  <2>2. ASSUME NEW p \in Pids, NEW q \in Pids, p \in held', q \in held' PROVE p = q
    BY <1>0, <2>2, ProcessAssumption DEF Alone
  <2> QED
    BY <2>1, <2>2 DEF Alone
<1>5. Aims'
  BY <1>0, <1>1 DEF Aims
<1>6. Named'
  <2>1. CASE pidfile' = pidfile
    BY <1>0, <2>1 DEF Named
  <2>2. CASE cmd[c].pc \in Locked \ {"wait"}
    BY <1>0, <2>2, NobodyElse DEF Named, Alive
  <2> QED
    BY <2>1, <2>2
<1> QED
  BY <1>2, <1>3, <1>4, <1>5, <1>6 DEF ProcessInv

\* What a command says and is about.
LEMMA OfCommand ==
    ASSUME ProcessInv, NEW c \in Commands
    PROVE  /\ cmd[c].p \in Pids \cup {NoPid} /\ pidfile \in Pids \cup {NoPid}
           /\ \A pc : [cmd EXCEPT ![c].pc = pc] = [cmd EXCEPT ![c] = [pc |-> pc, p |-> cmd[c].p]]
           /\ c \in held <=> cmd[c].pc \in Locked
           /\ cmd[c].pc \in Aiming => cmd[c].p \in Pids
<1>1. cmd \in [Commands -> CommandState] /\ cmd[c] \in CommandState
  BY DEF ProcessInv, ProcessType
<1>2. ASSUME NEW pc PROVE [cmd[c] EXCEPT !.pc = pc] = [pc |-> pc, p |-> cmd[c].p]
  BY <1>1 DEF CommandState
<1>3. ASSUME NEW pc PROVE [cmd EXCEPT ![c].pc = pc] = [cmd EXCEPT ![c] = [pc |-> pc, p |-> cmd[c].p]]
  BY <1>1, <1>2
<1>4. cmd[c].p \in Pids \cup {NoPid} /\ pidfile \in Pids \cup {NoPid}
  BY <1>1 DEF ProcessInv, ProcessType, CommandState
<1> QED
  BY <1>3, <1>4 DEF ProcessInv, Holders, Aims

\* A command that lets go of the lock, or never had it, is done or goes on without it.
LEMMA CommandLetsGo ==
    ASSUME ProcessInv, NEW c \in Commands, NEW pc \in {"done", "read", "term", "await", "last"},
           NEW q \in Pids \cup {NoPid}, pc \in Aiming => q \in Pids,
           cmd' = [cmd EXCEPT ![c] = [pc |-> pc, p |-> q]], held' = held \ {c}, proc' = proc,
           pidfile' \in Pids \cup {NoPid},
           pidfile' = pidfile \/ cmd[c].pc \in Locked \ {"wait"}
    PROVE  ProcessInv'
<1>1. PICK v \in CommandState : v = [pc |-> pc, p |-> q]
  BY DEF CommandState, Locked, Aiming
<1>2. v.pc = pc /\ v.p = q /\ v.pc \notin Locked
  BY <1>1 DEF Locked
<1> QED
  BY <1>1, <1>2, CommandMoves

\* A command that finds the lock free has it.
LEMMA CommandLocks ==
    ASSUME ProcessInv, NEW c \in Commands, NEW pc \in {"spawn", "clean", "undo"}, held = {}, held' = {c},
           cmd' = [cmd EXCEPT ![c].pc = pc], UNCHANGED <<pidfile, proc>>
    PROVE  ProcessInv'
<1>1. PICK v \in CommandState : v = [pc |-> pc, p |-> cmd[c].p]
  BY OfCommand DEF CommandState, Locked
<1>2. v.pc = pc /\ v.pc \in Locked /\ v.pc \notin Aiming /\ v.pc # "wait"
  BY <1>1 DEF Locked, Aiming
<1>3. cmd' = [cmd EXCEPT ![c] = v]
  BY <1>1, OfCommand
<1>4. held' = held \cup {c} /\ held' \subseteq {c} \cup {} /\ pidfile' \in Pids \cup {NoPid}
  BY OfCommand
<1> QED
  BY <1>1, <1>2, <1>3, <1>4, CommandMoves

\* A command without the lock leaves it alone.
LEMMA NotHeld ==
    ASSUME ProcessInv, NEW c \in Commands, cmd[c].pc \notin Locked
    PROVE  held = held \ {c}
BY OfCommand

LEMMA StartLockStep == ASSUME ProcessInv, NEW c \in Commands, StartLock(c) PROVE ProcessInv'
<1>1. CASE held = {}
  BY <1>1, CommandLocks DEF StartLock, Do
<1>2. CASE held # {}
  <2>1. held' = held \ {c}
    BY <1>2, NotHeld DEF StartLock, Locked
  <2> QED
    BY <1>2, <2>1, OfCommand, CommandLetsGo DEF StartLock, Done, Aiming
<1> QED
  BY <1>1, <1>2

LEMMA ProbeStep ==
    ASSUME ProcessInv, NEW c \in Commands, NEW next \in {"read", "done"}, Probe(c, next)
    PROVE  ProcessInv'
<1>1. CASE held = {}
  BY <1>1, CommandLocks DEF Probe, Do
<1>2. CASE held # {}
  <2>1. held' = held \ {c}
    BY <1>2, NotHeld DEF Probe, Locked
  <2>2. cmd' = [cmd EXCEPT ![c] = [pc |-> next, p |-> cmd[c].p]]
    BY <1>2, OfCommand DEF Probe, Do
  <2> QED
    BY <2>1, <2>2, OfCommand, CommandLetsGo DEF Probe, Aiming
<1> QED
  BY <1>1, <1>2

LEMMA CleanStep == ASSUME ProcessInv, NEW c \in Commands, Clean(c) PROVE ProcessInv'
BY CommandLetsGo DEF Clean, Done, Aiming, Locked

LEMMA UndoStep == ASSUME ProcessInv, NEW c \in Commands, Undo(c) PROVE ProcessInv'
<1>1. pidfile' \in Pids \cup {NoPid}
  BY OfCommand DEF Undo, RemoveIfOwned
<1> QED
  BY <1>1, CommandLetsGo DEF Undo, Done, Aiming, Locked

LEMMA StopReadStep == ASSUME ProcessInv, NEW c \in Commands, StopRead(c) PROVE ProcessInv'
<1>1. held' = held \ {c}
  BY NotHeld DEF StopRead, Locked
<1>2. CASE pidfile = NoPid
  BY <1>1, <1>2, OfCommand, CommandLetsGo DEF StopRead, Done, Aiming
<1>3. CASE pidfile # NoPid
  BY <1>1, <1>3, OfCommand, CommandLetsGo DEF StopRead, Aiming
<1> QED
  BY <1>2, <1>3

-----------------------------------------------------------------------------
(***************************************************************************)
(* Servers.                                                                *)
(***************************************************************************)

\* A living server goes on with w, or is gone and its lock with it; it alone
\* writes its name, and takes no other out.
LEMMA ServerMoves ==
    ASSUME ProcessInv, NEW p \in Pids, NEW w \in ServerState, proc' = [proc EXCEPT ![p] = w], cmd' = cmd,
           Alive(p), w.st # "none",
           held' = IF w.st = "gone" THEN held \ {p} ELSE held,
           pidfile' \in Pids \cup {NoPid},
           w.st \in {"named", "ready"} => pidfile' = p,
           w.st = "run" => w.cloexec
    PROVE  ProcessInv'
<1>0. ProcessType /\ Holders /\ Alone /\ Aims /\ Named
  BY DEF ProcessInv
<1>1. proc'[p] = w /\ \A q \in Pids \ {p} : proc'[q] = proc[q]
  BY <1>0 DEF ProcessType
<1>2. ProcessType'
  BY <1>0 DEF ProcessType
<1>3. p \in held /\ p \notin Commands
  BY <1>0, ProcessAssumption DEF Holders
<1>4. Holders'
  BY <1>0, <1>1, <1>3 DEF Holders, Alive
<1>5. Alone'
  BY <1>0 DEF Alone
<1>6. Aims'
  BY <1>0 DEF Aims
<1>7. \A q \in Pids \ {p} : ~Alive(q)
  BY <1>0, <1>3 DEF Alone, Holders
<1>8. Named'
  BY <1>0, <1>1, <1>7 DEF Named, Alive
<1> QED
  BY <1>2, <1>4, <1>5, <1>6, <1>8 DEF ProcessInv

\* What a server's state is like.
LEMMA ServerShape ==
    ASSUME ProcessInv, NEW p \in Pids
    PROVE  /\ proc[p] \in ServerState /\ proc \in [Pids -> ServerState] /\ pidfile \in Pids \cup {NoPid}
           /\ proc[p].st \in {"named", "ready"} => pidfile = p
           /\ proc[p].st = "run" => proc[p].cloexec
BY DEF ProcessInv, ProcessType, Named

LEMMA ChildPrepareStep == ASSUME ProcessInv, NEW p \in Pids, ChildPrepare(p) PROVE ProcessInv'
<1> DEFINE w == [proc[p] EXCEPT !.st = "run", !.cloexec = TRUE]
<1>1. w \in ServerState /\ w.st = "run" /\ w.cloexec
  BY ServerShape DEF ServerState
<1>2. proc' = [proc EXCEPT ![p] = w]
  BY ServerShape DEF ChildPrepare
<1> HIDE DEF w
<1> QED
  BY <1>1, <1>2, ServerShape, ServerMoves DEF ChildPrepare, Alive

\* prepareChild comes first, so the engine does not inherit the lock.
LEMMA ChildEngineStep == ASSUME ProcessInv, NEW p \in Pids, ChildEngine(p) PROVE ProcessInv'
<1> DEFINE w == [proc[p] EXCEPT !.engine = TRUE]
<1>1. w \in ServerState /\ w.st = "run" /\ w.cloexec
  BY ServerShape DEF ServerState, ChildEngine
<1>2. proc' = [proc EXCEPT ![p] = w]
  BY ServerShape DEF ChildEngine
<1> HIDE DEF w
<1> QED
  BY <1>1, <1>2, ServerShape, ServerMoves DEF ChildEngine, Alive

LEMMA ChildPidStep == ASSUME ProcessInv, NEW p \in Pids, ChildPid(p) PROVE ProcessInv'
<1> DEFINE w == [proc[p] EXCEPT !.st = "named"]
<1>1. w \in ServerState /\ w.st = "named"
  BY ServerShape DEF ServerState
<1>2. proc' = [proc EXCEPT ![p] = w]
  BY ServerShape DEF ChildPid
<1> HIDE DEF w
<1> QED
  BY <1>1, <1>2, ServerShape, ServerMoves DEF ChildPid, Alive

LEMMA ChildReadyStep == ASSUME ProcessInv, NEW p \in Pids, ChildReady(p) PROVE ProcessInv'
<1> DEFINE w == [proc[p] EXCEPT !.st = "ready", !.byte = TRUE]
<1>1. w \in ServerState /\ w.st = "ready"
  BY ServerShape DEF ServerState
<1>2. proc' = [proc EXCEPT ![p] = w]
  BY ServerShape DEF ChildReady
<1> HIDE DEF w
<1> QED
  BY <1>1, <1>2, ServerShape, ServerMoves DEF ChildReady, Alive

\* A server on its way out takes its own name out and lets go of the lock.
LEMMA ServerEnds ==
    ASSUME ProcessInv, NEW p \in Pids, NEW st \in {"exit", "gone"}, Alive(p),
           proc' = [proc EXCEPT ![p].st = st], cmd' = cmd,
           held' = IF st = "gone" THEN held \ {p} ELSE held,
           pidfile' \in {pidfile, NoPid}
    PROVE  ProcessInv'
<1>1. PICK w \in ServerState : w = [proc[p] EXCEPT !.st = st] /\ w.st = st
  BY ServerShape DEF ServerState
<1>2. proc' = [proc EXCEPT ![p] = w]
  BY <1>1, ServerShape
<1> QED
  BY <1>1, <1>2, ServerShape, ServerMoves

LEMMA ChildExitStep == ASSUME ProcessInv, NEW p \in Pids, ChildExit(p) PROVE ProcessInv'
<1>1. CASE proc[p].st = "exit"
  BY <1>1, ServerEnds DEF ChildExit, Alive
<1>2. CASE proc[p].st # "exit"
  BY <1>2, ServerEnds DEF ChildExit, RemoveIfOwned, Alive
<1> QED
  BY <1>1, <1>2

LEMMA ChildCrashStep == ASSUME ProcessInv, NEW p \in Pids, ChildCrash(p) PROVE ProcessInv'
BY ServerEnds DEF ChildCrash

-----------------------------------------------------------------------------
(***************************************************************************)
(* A command that starts, signals or kills a server.                       *)
(***************************************************************************)

\* A command and a server change together; only the launcher adds a holder, and
\* before that it is the only one.
LEMMA BothMove ==
    ASSUME ProcessInv, NEW c \in Commands, NEW v \in CommandState, NEW p \in Pids, NEW w \in ServerState,
           cmd' = [cmd EXCEPT ![c] = v], proc' = [proc EXCEPT ![p] = w],
           held' \subseteq Commands \cup Pids,
           c \in held' <=> v.pc \in Locked,
           p \in held' <=> w.st \notin {"none", "gone"},
           \A h \in (Commands \cup Pids) \ {c, p} : h \in held' <=> h \in held,
           held' \subseteq held \/ cmd[c].pc = "spawn",
           v.pc \in Locked => held' \subseteq {c} \cup (IF v.pc = "wait" THEN {v.p} ELSE {}),
           v.pc \in Aiming => v.p \in Pids,
           pidfile' \in Pids \cup {NoPid},
           pidfile' = pidfile \/ cmd[c].pc = "spawn",
           w.st \in {"named", "ready"} => pidfile' = p,
           w.st = "run" => w.cloexec
    PROVE  ProcessInv'
<1>0. ProcessType /\ Holders /\ Alone /\ Aims /\ Named /\ Commands \cap Pids = {}
  BY ProcessAssumption DEF ProcessInv
<1>1. /\ cmd'[c] = v /\ \A d \in Commands \ {c} : cmd'[d] = cmd[d]
      /\ proc'[p] = w /\ \A q \in Pids \ {p} : proc'[q] = proc[q]
  BY <1>0 DEF ProcessType
<1>2. ProcessType'
  BY <1>0 DEF ProcessType
<1>3. Holders'
  BY <1>0, <1>1 DEF Holders, Alive
<1>4. cmd[c].pc = "spawn" => held = {c} /\ \A q \in Pids : ~Alive(q)
  BY NobodyElse DEF Locked
<1>5. Alone'
  <2>1. ASSUME NEW d \in Commands, cmd'[d].pc \in Locked
        PROVE  held' \subseteq {d} \cup (IF cmd'[d].pc = "wait" THEN {cmd'[d].p} ELSE {})
    <3>1. CASE d = c
      BY <1>1, <2>1, <3>1
    <3>2. CASE d # c
      <4>1. cmd'[d] = cmd[d] /\ d \in held
        BY <1>0, <1>1, <2>1, <3>2 DEF Holders
      <4>2. held' \subseteq held
        BY <1>4, <3>2, <4>1
      <4> QED
        BY <1>0, <2>1, <4>1, <4>2 DEF Alone
    <3> QED
      BY <3>1, <3>2
  <2>2. ASSUME NEW q \in Pids, NEW r \in Pids, q \in held', r \in held' PROVE q = r
    <3>1. CASE held' \subseteq held
      BY <1>0, <2>2, <3>1 DEF Alone
    <3>2. CASE cmd[c].pc = "spawn"
      BY <1>0, <1>4, <2>2, <3>2
    <3> QED
      BY <3>1, <3>2
  <2> QED
    BY <2>1, <2>2 DEF Alone
<1>6. Aims'
  BY <1>0, <1>1 DEF Aims
<1>7. Named'
  BY <1>0, <1>1, <1>4 DEF Named, Alive
<1> QED
  BY <1>2, <1>3, <1>5, <1>6, <1>7 DEF ProcessInv

LEMMA Says ==
    ASSUME NEW pc \in Locked \cup Aiming, NEW q \in Pids
    PROVE  \E v \in CommandState : v = [pc |-> pc, p |-> q] /\ v.pc = pc /\ v.p = q
<1>1. [pc |-> pc, p |-> q] \in CommandState
  BY DEF CommandState
<1>2. [pc |-> pc, p |-> q].pc = pc /\ [pc |-> pc, p |-> q].p = q
  OBVIOUS
<1> QED
  BY <1>1, <1>2

LEMMA ServerBecomes ==
    ASSUME NEW r \in ServerState
    PROVE  /\ \E w \in ServerState : w = [r EXCEPT !.st = "boot"] /\ w.st = "boot"
           /\ \E w \in ServerState : w = [r EXCEPT !.st = "gone"] /\ w.st = "gone"
           /\ \E w \in ServerState : w = [r EXCEPT !.told = TRUE] /\ w.st = r.st /\ w.cloexec = r.cloexec
<1>1. /\ [r EXCEPT !.st = "boot"] \in ServerState /\ [r EXCEPT !.st = "boot"].st = "boot"
      /\ [r EXCEPT !.st = "gone"] \in ServerState /\ [r EXCEPT !.st = "gone"].st = "gone"
  BY DEF ServerState
<1>2. /\ [r EXCEPT !.told = TRUE] \in ServerState
      /\ [r EXCEPT !.told = TRUE].st = r.st /\ [r EXCEPT !.told = TRUE].cloexec = r.cloexec
  BY DEF ServerState
<1> QED
  BY <1>1, <1>2

LEMMA StartSpawnStep == ASSUME ProcessInv, NEW c \in Commands, StartSpawn(c) PROVE ProcessInv'
<1>1. PICK p \in Pids : /\ proc[p].st = "none" /\ proc' = [proc EXCEPT ![p].st = "boot"]
                        /\ held' = held \cup {p} /\ cmd' = [cmd EXCEPT ![c] = [pc |-> "wait", p |-> p]]
  BY DEF StartSpawn
<1>2. held = {c} /\ cmd[c].pc = "spawn" /\ pidfile' = NoPid
  BY NobodyElse DEF StartSpawn, Locked
<1>3. PICK v \in CommandState : v = [pc |-> "wait", p |-> p] /\ v.pc = "wait" /\ v.p = p
  BY Says DEF Locked
<1>4. PICK w \in ServerState : w = [proc[p] EXCEPT !.st = "boot"] /\ w.st = "boot"
  BY ServerShape, ServerBecomes
<1>5. proc' = [proc EXCEPT ![p] = w]
  BY <1>1, <1>4, ServerShape
<1>6. "wait" \in Locked /\ c # p
  BY ProcessAssumption DEF Locked
<1>7. held' = {c, p}
  BY <1>1, <1>2
<1>8. cmd' = [cmd EXCEPT ![c] = v]
  BY <1>1, <1>3
<1>9. /\ held' \subseteq Commands \cup Pids
      /\ c \in held' <=> v.pc \in Locked
      /\ p \in held' <=> w.st \notin {"none", "gone"}
      /\ \A h \in (Commands \cup Pids) \ {c, p} : h \in held' <=> h \in held
      /\ held' \subseteq {c} \cup (IF v.pc = "wait" THEN {v.p} ELSE {})
  BY <1>2, <1>3, <1>4, <1>6, <1>7
<1>10. pidfile' \in Pids \cup {NoPid} /\ w.st \notin {"named", "ready", "run"}
  BY <1>2, <1>4
<1> QED
  BY <1>2, <1>3, <1>5, <1>8, <1>9, <1>10, BothMove

\* A command that has the lock or not kills the server it is about.
LEMMA Killed ==
    ASSUME ProcessInv, NEW c \in Commands, NEW v \in CommandState, NEW p \in Pids, NEW w \in ServerState,
           cmd' = [cmd EXCEPT ![c] = v], proc' = [proc EXCEPT ![p] = w],
           p = cmd[c].p, v.p = p, w.st = "gone",
           \/ v.pc = "undo" /\ cmd[c].pc = "wait"
           \/ v.pc = "last" /\ cmd[c].pc \notin Locked,
           held' = held \ {p}, pidfile' = pidfile
    PROVE  ProcessInv'
<1>1. /\ c # p /\ c \in held <=> cmd[c].pc \in Locked
      /\ held \subseteq Commands \cup Pids /\ pidfile \in Pids \cup {NoPid}
  BY ProcessAssumption DEF ProcessInv, ProcessType, Holders
<1>2. c \in held' <=> v.pc \in Locked
  BY <1>1 DEF Locked
<1>3. v.pc \in Locked => held' \subseteq {c} \cup (IF v.pc = "wait" THEN {v.p} ELSE {})
  BY DEF ProcessInv, Alone, Locked
<1>4. /\ held' \subseteq Commands \cup Pids /\ held' \subseteq held
      /\ p \in held' <=> w.st \notin {"none", "gone"}
      /\ \A h \in (Commands \cup Pids) \ {c, p} : h \in held' <=> h \in held
  BY <1>1
<1>5. pidfile' \in Pids \cup {NoPid} /\ w.st \notin {"named", "ready", "run"}
  BY <1>1
<1> QED
  BY <1>2, <1>3, <1>4, <1>5, BothMove

LEMMA Kills ==
    ASSUME ProcessInv, NEW c \in Commands, NEW p \in Pids, NEW pc, p = cmd[c].p,
           \/ pc = "undo" /\ cmd[c].pc = "wait"
           \/ pc = "last" /\ cmd[c].pc \notin Locked,
           cmd' = [cmd EXCEPT ![c].pc = pc], proc' = [proc EXCEPT ![p].st = "gone"],
           held' = held \ {p}, pidfile' = pidfile
    PROVE  ProcessInv'
<1>1. PICK v \in CommandState : v = [pc |-> pc, p |-> p] /\ v.pc = pc /\ v.p = p
  BY Says DEF Locked, Aiming
<1>2. cmd' = [cmd EXCEPT ![c] = v]
  BY <1>1, OfCommand
<1>3. PICK w \in ServerState : w = [proc[p] EXCEPT !.st = "gone"] /\ w.st = "gone"
  BY ServerShape, ServerBecomes
<1>4. proc' = [proc EXCEPT ![p] = w]
  BY <1>3, ServerShape
<1>5. /\ v.p = p /\ w.st = "gone"
      /\ \/ v.pc = "undo" /\ cmd[c].pc = "wait"
         \/ v.pc = "last" /\ cmd[c].pc \notin Locked
  BY <1>1, <1>3
<1> QED
  BY <1>2, <1>4, <1>5, Killed

LEMMA StartWaitStep == ASSUME ProcessInv, NEW c \in Commands, StartWait(c) PROVE ProcessInv'
<1>0. cmd[c].pc = "wait" /\ cmd[c].p \in Pids /\ pidfile' = pidfile /\ pidfile \in Pids \cup {NoPid}
  BY OfCommand DEF StartWait, Aiming
<1>1. PICK p \in Pids : p = cmd[c].p
  BY <1>0
<1>2. CASE proc[p].byte /\ Done(c) /\ held' = held \ {c} /\ UNCHANGED <<proc, mishaps>>
  BY <1>0, <1>2, CommandLetsGo DEF Done, Aiming
<1>3. CASE proc[p].st = "gone" /\ ~proc[p].byte /\ Do(c, "undo") /\ UNCHANGED <<held, proc, mishaps>>
  <2>1. p \notin held /\ c \in held
    BY <1>0, <1>3 DEF ProcessInv, Holders, Alive, Locked
  <2>2. held \subseteq {c}
    BY <1>0, <1>1, <2>1 DEF ProcessInv, Alone, Locked
  <2>3. PICK v \in CommandState : v = [pc |-> "undo", p |-> p] /\ v.pc = "undo"
    BY Says DEF Locked
  <2>4. cmd' = [cmd EXCEPT ![c] = v]
    BY <1>1, <1>3, <2>3, OfCommand DEF Do
  <2>5. v.pc \in Locked /\ v.pc \notin Aiming /\ held' = held \cup {c} /\ held' \subseteq {c} \cup {}
    BY <1>3, <2>1, <2>2, <2>3 DEF Locked, Aiming
  <2> QED
    BY <1>0, <1>3, <2>3, <2>4, <2>5, CommandMoves
<1>4. CASE /\ Mishap /\ Alive(p) /\ ~proc[p].byte
           /\ proc' = [proc EXCEPT ![p].st = "gone"] /\ held' = held \ {p} /\ Do(c, "undo")
  BY <1>0, <1>1, <1>4, Kills DEF Do
<1> QED
  BY <1>1, <1>2, <1>3, <1>4 DEF StartWait

LEMMA StopTermStep == ASSUME ProcessInv, NEW c \in Commands, StopTerm(c) PROVE ProcessInv'
<1>0. /\ cmd[c].pc = "term" /\ cmd[c].p \in Pids /\ UNCHANGED <<held, pidfile>>
      /\ cmd' = [cmd EXCEPT ![c] = [pc |-> "await", p |-> cmd[c].p]] /\ pidfile \in Pids \cup {NoPid}
  BY OfCommand DEF StopTerm, Do, Aiming
<1>1. PICK p \in Pids : p = cmd[c].p
  BY <1>0
<1>a. held' = held \ {c}
  BY <1>0, NotHeld DEF Locked
<1>2. CASE Alive(p)
  <2>1. PICK v \in CommandState : v = [pc |-> "await", p |-> p] /\ v.pc = "await" /\ v.p = p
    BY Says DEF Aiming
  <2>2. PICK w \in ServerState : w = [proc[p] EXCEPT !.told = TRUE] /\ w.st = proc[p].st /\ w.cloexec = proc[p].cloexec
    BY ServerShape, ServerBecomes
  <2>3. proc' = [proc EXCEPT ![p] = w] /\ cmd' = [cmd EXCEPT ![c] = v]
    BY <1>0, <1>1, <1>2, <2>1, <2>2, ServerShape DEF StopTerm
  <2>4. /\ v.pc \notin Locked /\ c \notin held' /\ held' = held /\ c # p
        /\ p \in held <=> w.st \notin {"none", "gone"}
    BY <1>0, <1>1, <1>2, <1>a, <2>1, <2>2, ProcessAssumption DEF ProcessInv, Holders, Alive, Locked
  <2>5. held \subseteq Commands \cup Pids
    BY DEF ProcessInv, ProcessType
  <2>6. /\ held' \subseteq Commands \cup Pids /\ held' \subseteq held
        /\ c \in held' <=> v.pc \in Locked
        /\ p \in held' <=> w.st \notin {"none", "gone"}
        /\ \A h \in (Commands \cup Pids) \ {c, p} : h \in held' <=> h \in held
    BY <2>4, <2>5
  <2>7. /\ pidfile' \in Pids \cup {NoPid} /\ pidfile' = pidfile
        /\ w.st \in {"named", "ready"} => pidfile' = p
        /\ w.st = "run" => w.cloexec
    BY <1>0, <2>2, ServerShape
  <2> QED
    BY <2>1, <2>3, <2>4, <2>6, <2>7, BothMove
<1>3. CASE ~Alive(p)
  BY <1>0, <1>1, <1>3, <1>a, CommandLetsGo DEF StopTerm
<1> QED
  BY <1>2, <1>3

LEMMA StopAwaitStep == ASSUME ProcessInv, NEW c \in Commands, StopAwait(c) PROVE ProcessInv'
<1>0. /\ cmd[c].pc \in {"await", "last"} /\ cmd[c].p \in Pids /\ pidfile' = pidfile /\ pidfile \in Pids \cup {NoPid}
      /\ cmd[c].pc \notin Locked
  BY OfCommand DEF StopAwait, Aiming, Locked
<1>1. PICK p \in Pids : p = cmd[c].p
  BY <1>0
<1>2. CASE held = {} /\ held' = {c} /\ Do(c, "undo") /\ UNCHANGED <<proc, mishaps>>
  BY <1>0, <1>2, CommandLocks DEF Do
<1>3. CASE /\ proc' = IF Alive(p) THEN [proc EXCEPT ![p].st = "gone"] ELSE proc
           /\ held' = held \ {p} /\ Do(c, "last")
  <2>1. CASE Alive(p)
    BY <1>0, <1>1, <1>3, <2>1, Kills DEF Do
  <2>2. CASE ~Alive(p)
    <3>1. held' = held \ {c}
      BY <1>0, <1>3, <2>2, NotHeld DEF ProcessInv, Holders
    <3>2. cmd' = [cmd EXCEPT ![c] = [pc |-> "last", p |-> p]]
      BY <1>1, <1>3, OfCommand DEF Do
    <3> QED
      BY <1>0, <1>3, <2>2, <3>1, <3>2, CommandLetsGo
  <2> QED
    BY <2>1, <2>2
<1>4. CASE Done(c) /\ UNCHANGED <<held, proc>>
  BY <1>0, <1>4, NotHeld, CommandLetsGo DEF Done, Aiming
<1> QED
  BY <1>1, <1>2, <1>3, <1>4 DEF StopAwait

-----------------------------------------------------------------------------
(***************************************************************************)
(* The theorem.                                                            *)
(***************************************************************************)

LEMMA ProcessStart == ASSUME NEW n, ProcessInit(n) PROVE ProcessInv
<1>1. ProcessType
  BY DEF ProcessInit, ProcessType, CommandState, ServerState
<1>2. Holders
  BY DEF ProcessInit, Holders, Alive, Locked
<1>3. Alone /\ Aims /\ Named
  BY DEF ProcessInit, Alone, Aims, Named, Locked, Aiming
<1> QED
  BY <1>1, <1>2, <1>3 DEF ProcessInv

LEMMA ProcessStep == ProcessInv /\ [ProcessNext]_processVars => ProcessInv'
<1> SUFFICES ASSUME ProcessInv, [ProcessNext]_processVars PROVE ProcessInv'
  OBVIOUS
<1>1. CASE UNCHANGED processVars
  BY <1>1 DEF processVars, ProcessInv, ProcessType, Holders, Alone, Aims, Named, Alive
<1>2. ASSUME NEW c \in Commands, StartLock(c) \/ StartSpawn(c) \/ StartWait(c) \/ Undo(c) \/ Clean(c)
      PROVE  ProcessInv'
  BY <1>2, StartLockStep, StartSpawnStep, StartWaitStep, UndoStep, CleanStep
<1>3. ASSUME NEW c \in Commands, StopProbe(c) \/ StatusProbe(c) \/ StopRead(c) \/ StopTerm(c) \/ StopAwait(c)
      PROVE  ProcessInv'
  BY <1>3, ProbeStep, StopReadStep, StopTermStep, StopAwaitStep DEF StopProbe, StatusProbe
<1>4. ASSUME NEW p \in Pids,
             ChildPrepare(p) \/ ChildEngine(p) \/ ChildPid(p) \/ ChildReady(p) \/ ChildExit(p) \/ ChildCrash(p)
      PROVE  ProcessInv'
  BY <1>4, ChildPrepareStep, ChildEngineStep, ChildPidStep, ChildReadyStep, ChildExitStep, ChildCrashStep
<1> QED
  BY <1>1, <1>2, <1>3, <1>4 DEF ProcessNext

\* Whatever --daemon, --stop and --status do at the same time, and wherever a server
\* crashes, is killed or misses its deadline: a ready server that nobody told to stop
\* is in the pid file and holds the lock, it is the only one, and no engine or dead
\* process keeps the lock.
THEOREM ServerFound == ProcessSpec => []ServerReachable
<1>1. ProcessInv => ServerReachable
  BY DEF ProcessInv, ProcessType, Holders, Alone, Named, ServerReachable, Alive
<1>2. (\E n \in Nat : ProcessInit(n)) => ProcessInv
  BY ProcessStart
<1> QED
  BY <1>1, <1>2, ProcessStep, PTL DEF ProcessSpec

-----------------------------------------------------------------------------
(***************************************************************************)
(* The names of the chats: the inductive invariant.                        *)
(***************************************************************************)

\* Of a namer only its step and the opening it works for matter.
NamerShape(f) ==
    /\ f = [p \in Namers |-> f[p]]
    /\ \A p \in Namers : f[p] = [pc |-> f[p].pc, gen |-> f[p].gen, name |-> f[p].name, stale |-> f[p].stale]

SameSteps(f, g) == \A p \in Namers : f[p].pc = g[p].pc /\ f[p].gen = g[p].gen

NameType ==
    /\ sess = [gen |-> sess.gen, st |-> sess.st, title |-> sess.title, src |-> sess.src]
    /\ sess.gen \in 0 .. MaxGen /\ sess.st \in {"none", "opening", "open", "lost"}
    /\ mu = [g \in 1 .. MaxGen |-> mu[g]]
    /\ NamerShape(namer)
    /\ req \in [Renames -> [pc : {"idle", "find", "wait", "adopt", "done"}, gen : 0 .. MaxGen]]

\* Whoever is past its check has the mutex of the opening it checked.
Mutexes ==
    /\ \A p \in Namers : namer[p].pc \in {"write", "commit"} => mu[namer[p].gen] = p
    /\ \A r \in Renames : req[r].pc = "adopt" => mu[req[r].gen] = r

\* A namer works for an opening that has been published.
Past ==
    /\ sess.st # "none" => sess.gen >= 1
    /\ \A p \in Namers : namer[p].pc \in {"wait", "write", "commit"} =>
          namer[p].gen \in 1 .. sess.gen /\ (namer[p].gen = sess.gen => sess.st \in {"open", "lost"})
    /\ \A r \in Renames : req[r].pc \in {"wait", "adopt"} => req[r].gen \in 1 .. MaxGen

\* A namer about to overwrite a user's name is followed by a rename that has not
\* told the session yet.
Followed ==
    ~crossed => \A p \in Namers : namer[p].pc = "write" /\ Open(namer[p].gen) /\ row.src = "user" =>
        \E r \in Renames : req[r].pc = "find" \/ (req[r].pc = "wait" /\ req[r].gen = namer[p].gen)

\* A user's name that was overwritten has a rename on its way to write it again.
Redone ==
    ~crossed /\ row.src # "user" /\ (renamed \/ sess.src = "user" \/ \E r \in Renames : req[r].pc = "adopt") =>
        \E r \in Renames : req[r].pc \in {"find", "wait"}

NameInv == NameType /\ Mutexes /\ Past /\ Followed /\ Redone

-----------------------------------------------------------------------------
(***************************************************************************)
(* The steps of the session, of the engine and of the watcher.             *)
(***************************************************************************)

LEMMA StaleSteps ==
    ASSUME NEW next, NamerShape(next)
    PROVE  NamerShape(Stale(next)) /\ SameSteps(Stale(next), next)
<1>1. Tick \in Namers
  BY DEF Namers
<1>2. Stale(next) = [next EXCEPT ![Tick] = [next[Tick] EXCEPT !.stale = (next[Tick].stale \/ next[Tick].pc # "idle")]]
  BY DEF Stale
<1>3. PICK b : b = (next[Tick].stale \/ next[Tick].pc # "idle")
  OBVIOUS
<1>4. PICK e : e = [next[Tick] EXCEPT !.stale = b]
  OBVIOUS
<1>5. next[Tick] = [pc |-> next[Tick].pc, gen |-> next[Tick].gen, name |-> next[Tick].name, stale |-> next[Tick].stale]
  BY <1>1 DEF NamerShape
<1>6. e = [pc |-> next[Tick].pc, gen |-> next[Tick].gen, name |-> next[Tick].name, stale |-> b]
  BY <1>4, <1>5
<1>7. Stale(next) = [next EXCEPT ![Tick] = e]
  BY <1>2, <1>3, <1>4
<1>8. next = [p \in Namers |-> next[p]]
  BY DEF NamerShape
<1>9. Stale(next) = [p \in Namers |-> IF p = Tick THEN e ELSE next[p]]
  BY <1>7, <1>8
<1>10. \A p \in Namers : Stale(next)[p] = IF p = Tick THEN e ELSE next[p]
  BY <1>9
<1>11. NamerShape(Stale(next))
  BY <1>6, <1>9, <1>10 DEF NamerShape
<1>12. SameSteps(Stale(next), next)
  BY <1>6, <1>10 DEF SameSteps
<1> QED
  BY <1>11, <1>12

\* A step after which nothing the invariant speaks of is different.
LEMMA NothingNew ==
    ASSUME NameInv, NamerShape(namer'), SameSteps(namer', namer),
           sess' = sess, mu' = mu, req' = req, renamed' = renamed, crossed' = crossed, row'.src = row.src
    PROVE  NameInv'
<1>1. \A p \in Namers : namer'[p].pc = namer[p].pc /\ namer'[p].gen = namer[p].gen
  BY DEF SameSteps
<1>2. NameType'
  BY DEF NameInv, NameType
<1>3. Mutexes'
  BY <1>1 DEF NameInv, Mutexes
<1>4. Past'
  BY <1>1 DEF NameInv, Past
<1>5. Followed'
  BY <1>1 DEF NameInv, Followed, Open
<1>6. Redone'
  BY DEF NameInv, Redone
<1> QED
  BY <1>2, <1>3, <1>4, <1>5, <1>6 DEF NameInv

LEMMA SelfSteps == NameInv => NamerShape(namer) /\ SameSteps(namer, namer)
BY DEF NameInv, NameType, SameSteps

LEMMA EngineRenamesStep == ASSUME NameInv, EngineRenames PROVE NameInv'
<1>1. namer' = namer /\ row' = row /\ sess' = sess /\ mu' = mu /\ req' = req /\ renamed' = renamed /\ crossed' = crossed
  BY DEF EngineRenames
<1> QED
  BY <1>1, SelfSteps, NothingNew

LEMMA ObserveStep == ASSUME NameInv, Observe PROVE NameInv'
<1>1. namer' = namer /\ row' = row /\ sess' = sess /\ mu' = mu /\ req' = req /\ renamed' = renamed /\ crossed' = crossed
  BY DEF Observe
<1> QED
  BY <1>1, SelfSteps, NothingNew

LEMMA RefreshEnrollmentStep == ASSUME NameInv, RefreshEnrollment PROVE NameInv'
<1>1. namer' = namer /\ sess' = sess /\ mu' = mu /\ req' = req /\ renamed' = renamed /\ crossed' = crossed
  BY DEF RefreshEnrollment
<1>2. row'.src = row.src
  BY DEF RefreshEnrollment, UpdateName
<1> QED
  BY <1>1, <1>2, SelfSteps, NothingNew

\* A namer begins: it has checked nothing yet.
LEMMA BeginKeeps ==
    ASSUME NameInv, NEW p \in Namers, NEW name, NEW stale, Begin(p, name, stale), sess.st = "open",
           sess' = sess, mu' = mu, req' = req, renamed' = renamed, crossed' = crossed, row' = row
    PROVE  NameInv'
<1>0. NameType /\ Mutexes /\ Past /\ Followed /\ Redone
  BY DEF NameInv
<1>1. PICK e : e = [pc |-> "wait", gen |-> sess.gen, name |-> name, stale |-> stale]
  OBVIOUS
<1>2. namer' = [namer EXCEPT ![p] = e]
  BY <1>1 DEF Begin
<1>3. namer'[p] = e /\ \A q \in Namers \ {p} : namer'[q] = namer[q]
  BY <1>0, <1>2 DEF NameType, NamerShape
<1>4. e.pc = "wait" /\ e.gen = sess.gen
  BY <1>1
<1>5. NamerShape(namer')
  BY <1>0, <1>1, <1>2, <1>3 DEF NameType, NamerShape
<1>6. NameType'
  BY <1>0, <1>5 DEF NameType
<1>7. Mutexes'
  BY <1>0, <1>3, <1>4 DEF Mutexes
<1>8. Past'
  <2>1. sess.gen \in 1 .. sess.gen
    BY <1>0 DEF NameType, Past
  <2> QED
    BY <2>1, <1>0, <1>3, <1>4 DEF Past
<1>9. Followed'
  BY <1>0, <1>3, <1>4 DEF Followed, Open
<1>10. Redone'
  BY <1>0 DEF Redone
<1> QED
  BY <1>6, <1>7, <1>8, <1>9, <1>10 DEF NameInv

LEMMA TitlerBeginsStep == ASSUME NameInv, NEW p \in Titlers, TitlerBegins(p) PROVE NameInv'
<1>1. p \in Namers
  BY DEF Namers
<1>2. \E b : Begin(p, AutoName, b)
  BY Zenon DEF TitlerBegins
<1>3. sess.st = "open" /\ sess' = sess /\ mu' = mu /\ req' = req /\ renamed' = renamed /\ crossed' = crossed /\ row' = row
  BY DEF TitlerBegins
<1> QED
  BY <1>1, <1>2, <1>3, BeginKeeps

LEMMA EventBeginsStep == ASSUME NameInv, EventBegins PROVE NameInv'
<1>1. Event \in Namers
  BY DEF Namers
<1>2. \E n, b : Begin(Event, n, b)
  BY Zenon DEF EventBegins
<1>3. sess.st = "open" /\ sess' = sess /\ mu' = mu /\ req' = req /\ renamed' = renamed /\ crossed' = crossed /\ row' = row
  BY DEF EventBegins
<1> QED
  BY <1>1, <1>2, <1>3, BeginKeeps

LEMMA ApplyDaemonNameStep == ASSUME NameInv, ApplyDaemonName PROVE NameInv'
<1>1. sess' = sess /\ mu' = mu /\ req' = req /\ renamed' = renamed /\ crossed' = crossed /\ row' = row
  BY DEF ApplyDaemonName
<1>2. Tick \in Namers
  BY DEF Namers
<1>3. namer' = namer \/ (sess.st = "open" /\ \E n, b : Begin(Tick, n, b))
  BY Zenon DEF ApplyDaemonName
<1>4. CASE namer' = namer
  BY <1>1, <1>4, SelfSteps, NothingNew
<1>5. CASE sess.st = "open" /\ \E n, b : Begin(Tick, n, b)
  BY <1>1, <1>2, <1>5, BeginKeeps
<1> QED
  BY <1>3, <1>4, <1>5

\* The session moves: it is read, published or lost.  The title it was read with is
\* a user's only if the stored one is.
LEMMA SessionMoves ==
    ASSUME NameInv, NamerShape(namer'), SameSteps(namer', namer),
           sess' = [gen |-> sess'.gen, st |-> sess'.st, title |-> sess'.title, src |-> sess'.src],
           \/ sess.st \in {"none", "lost"} /\ sess.gen < MaxGen /\ sess'.gen = sess.gen + 1 /\ sess'.st = "opening"
           \/ sess.st = "opening" /\ sess'.gen = sess.gen /\ sess'.st = "open"
           \/ sess.st = "open" /\ sess'.gen = sess.gen /\ sess'.st = "lost",
           sess'.src = "user" => sess.src = "user" \/ row.src = "user",
           mu' = mu, req' = req, renamed' = renamed, crossed' = crossed, row' = row
    PROVE  NameInv'
<1>0. NameType /\ Mutexes /\ Past /\ Followed /\ Redone
  BY DEF NameInv
<1>1. \A p \in Namers : namer'[p].pc = namer[p].pc /\ namer'[p].gen = namer[p].gen
  BY DEF SameSteps
<1>2. MaxGen \in Nat /\ sess.gen \in 0 .. MaxGen
  BY <1>0, NameAssumption DEF NameType
<1>3. NameType'
  BY <1>0, <1>2 DEF NameType
<1>4. Mutexes'
  BY <1>0, <1>1 DEF Mutexes
<1>5. Past'
  BY <1>0, <1>1, <1>2 DEF Past
<1>6. Followed'
  <2>1. SUFFICES ASSUME ~crossed, NEW p \in Namers, namer[p].pc = "write",
                        sess'.gen = namer[p].gen, sess'.st = "open", row.src = "user"
                 PROVE  \E r \in Renames : req[r].pc = "find" \/ (req[r].pc = "wait" /\ req[r].gen = namer[p].gen)
    BY <1>1 DEF Followed, Open
  <2>2. sess.st = "opening" /\ sess.gen = namer[p].gen
    BY <2>1
  <2> QED
    BY <2>1, <2>2, <1>0 DEF Past
<1>7. Redone'
  BY <1>0 DEF Redone
<1> QED
  BY <1>3, <1>4, <1>5, <1>6, <1>7 DEF NameInv

LEMMA OpenReadStep == ASSUME NameInv, OpenRead PROVE NameInv'
<1>1. namer' = namer /\ mu' = mu /\ req' = req /\ renamed' = renamed /\ crossed' = crossed /\ row' = row
      /\ sess.st \in {"none", "lost"} /\ sess.gen < MaxGen
  BY DEF OpenRead
<1>2. \E t : sess' = [gen |-> sess.gen + 1, st |-> "opening", title |-> t, src |-> row.src]
  BY Zenon DEF OpenRead
<1>3. sess' = [gen |-> sess'.gen, st |-> sess'.st, title |-> sess'.title, src |-> sess'.src]
      /\ sess'.gen = sess.gen + 1 /\ sess'.st = "opening" /\ sess'.src = row.src
  BY <1>2
<1> QED
  BY <1>1, <1>3, SelfSteps, SessionMoves

LEMMA OpenNamedStep == ASSUME NameInv, OpenNamed PROVE NameInv'
<1>0. sess = [gen |-> sess.gen, st |-> sess.st, title |-> sess.title, src |-> sess.src] /\ NamerShape(namer)
  BY DEF NameInv, NameType
<1>1. mu' = mu /\ req' = req /\ renamed' = renamed /\ crossed' = crossed /\ row' = row /\ sess.st = "opening"
  BY DEF OpenNamed
<1>2. sess' = [sess EXCEPT !.st = "open"]
  BY DEF OpenNamed
<1>3. sess' = [gen |-> sess.gen, st |-> "open", title |-> sess.title, src |-> sess.src]
  BY <1>0, <1>2
<1>4. sess' = [gen |-> sess'.gen, st |-> sess'.st, title |-> sess'.title, src |-> sess'.src]
      /\ sess'.gen = sess.gen /\ sess'.st = "open" /\ sess'.src = sess.src
  BY <1>3
<1>5. namer' = namer \/ namer' = Stale(namer)
  BY DEF OpenNamed
<1>6. NamerShape(namer') /\ SameSteps(namer', namer)
  BY <1>0, <1>5, SelfSteps, StaleSteps
<1> QED
  BY <1>1, <1>4, <1>6, SessionMoves

LEMMA LoseStep == ASSUME NameInv, Lose PROVE NameInv'
<1>0. sess = [gen |-> sess.gen, st |-> sess.st, title |-> sess.title, src |-> sess.src]
  BY DEF NameInv, NameType
<1>1. namer' = namer /\ mu' = mu /\ req' = req /\ renamed' = renamed /\ crossed' = crossed /\ row' = row
      /\ sess.st = "open" /\ sess' = [sess EXCEPT !.st = "lost"]
  BY DEF Lose
<1>2. sess' = [gen |-> sess.gen, st |-> "lost", title |-> sess.title, src |-> sess.src]
  BY <1>0, <1>1
<1>3. sess' = [gen |-> sess'.gen, st |-> sess'.st, title |-> sess'.title, src |-> sess'.src]
      /\ sess'.gen = sess.gen /\ sess'.st = "lost" /\ sess'.src = sess.src
  BY <1>2
<1> QED
  BY <1>1, <1>3, SelfSteps, SessionMoves

-----------------------------------------------------------------------------
(***************************************************************************)
(* applyAutoTitle and applyProviderName.                                   *)
(***************************************************************************)

\* A namer goes on to step pc; nobody else moves.
NamerGoes(p, f, pc) ==
    /\ NamerShape(f) /\ f[p].pc = pc
    /\ pc \notin {"idle", "done"} => f[p].gen = namer[p].gen
    /\ \A q \in Namers \ {p} : f[q] = namer[q]

LEMMA EndedGoes ==
    ASSUME NameInv, NEW p \in Namers
    PROVE  \E pc \in {"idle", "done"} : NamerGoes(p, Ended(p), pc)
<1>1. NamerShape(namer)
  BY DEF NameInv, NameType
<1>2. PICK e : e = (IF p \in Titlers THEN [IdleNamer EXCEPT !.pc = "done"] ELSE IdleNamer)
  OBVIOUS
<1>3. e = [pc |-> e.pc, gen |-> e.gen, name |-> e.name, stale |-> e.stale] /\ e.pc \in {"idle", "done"}
  BY <1>2 DEF IdleNamer
<1>4. Ended(p) = [namer EXCEPT ![p] = e]
  BY <1>2 DEF Ended
<1>5. Ended(p)[p] = e /\ \A q \in Namers \ {p} : Ended(p)[q] = namer[q]
  BY <1>1, <1>4 DEF NamerShape
<1>6. NamerShape(Ended(p))
  BY <1>1, <1>3, <1>4, <1>5 DEF NamerShape
<1> QED
  BY <1>3, <1>5, <1>6 DEF NamerGoes

LEMMA PcGoes ==
    ASSUME NameInv, NEW p \in Namers, NEW pc
    PROVE  NamerGoes(p, [namer EXCEPT ![p].pc = pc], pc)
<1>1. NamerShape(namer)
  BY DEF NameInv, NameType
<1>2. PICK e : e = [namer[p] EXCEPT !.pc = pc]
  OBVIOUS
<1>3. e = [pc |-> pc, gen |-> namer[p].gen, name |-> namer[p].name, stale |-> namer[p].stale]
  BY <1>1, <1>2 DEF NamerShape
<1>4. PICK f : f = [namer EXCEPT ![p] = e]
  OBVIOUS
<1>5. f = [namer EXCEPT ![p].pc = pc]
  BY <1>2, <1>4
<1>6. f[p] = e /\ \A q \in Namers \ {p} : f[q] = namer[q]
  BY <1>1, <1>4 DEF NamerShape
<1>7. NamerShape(f)
  BY <1>1, <1>3, <1>4, <1>6 DEF NamerShape
<1> QED
  BY <1>3, <1>5, <1>6, <1>7 DEF NamerGoes

\* What adoptTitleLocked does to the namers and to the session.
LEMMA AdoptTitleKeeps ==
    ASSUME NameInv, NEW name, NEW src, NEW next, NamerShape(next), AdoptTitle(name, src, next)
    PROVE  /\ NamerShape(namer') /\ SameSteps(namer', next)
           /\ sess' = [gen |-> sess.gen, st |-> sess.st, title |-> name, src |-> src]
<1>1. sess = [gen |-> sess.gen, st |-> sess.st, title |-> sess.title, src |-> sess.src]
  BY DEF NameInv, NameType
<1>2. sess' = [sess EXCEPT !.title = name, !.src = src]
  BY DEF AdoptTitle
<1>3. namer' = next \/ namer' = Stale(next)
  BY DEF AdoptTitle
<1>4. SameSteps(next, next)
  BY DEF SameSteps
<1> QED
  BY <1>1, <1>2, <1>3, <1>4, StaleSteps

\* A namer past its beginning goes on: with the mutex, or without it once it ends.
LEMMA NamerKeeps ==
    ASSUME NameInv, NEW p \in Namers, NEW f, NEW pc \in {"idle", "done", "write", "commit"},
           NamerGoes(p, f, pc), NamerShape(namer'), SameSteps(namer', f),
           namer[p].pc \in {"wait", "write", "commit"}, mu[namer[p].gen] \in {NoName, p},
           mu' = [mu EXCEPT ![namer[p].gen] = IF pc \in {"write", "commit"} THEN p ELSE NoName],
           sess' = [gen |-> sess.gen, st |-> sess.st, title |-> sess'.title, src |-> sess'.src],
           sess'.src = "user" => sess.src = "user" \/ row.src = "user",
           req' = req, renamed' = renamed, crossed => crossed',
           ~crossed' => \/ row'.src = row.src
                        \/ row'.src = "auto" /\ namer[p].pc = "write" /\ Open(namer[p].gen),
           pc = "write" => row'.src # "user"
    PROVE  NameInv'
<1>0. NameType /\ Mutexes /\ Past /\ Followed /\ Redone
  BY DEF NameInv
<1>1. namer'[p].pc = pc /\ (pc \in {"write", "commit"} => namer'[p].gen = namer[p].gen)
  BY DEF NamerGoes, SameSteps
<1>2. \A q \in Namers \ {p} : namer'[q].pc = namer[q].pc /\ namer'[q].gen = namer[q].gen
  BY DEF NamerGoes, SameSteps
<1>3. sess'.gen = sess.gen /\ sess'.st = sess.st
      /\ sess' = [gen |-> sess'.gen, st |-> sess'.st, title |-> sess'.title, src |-> sess'.src]
  OBVIOUS
<1>4. namer[p].gen \in 1 .. MaxGen
  BY <1>0, NameAssumption DEF Past, NameType
<1>5. mu'[namer[p].gen] = IF pc \in {"write", "commit"} THEN p ELSE NoName
  BY <1>0, <1>4 DEF NameType
<1>6. \A g \in 1 .. MaxGen : g # namer[p].gen => mu'[g] = mu[g]
  BY <1>0 DEF NameType
<1>7. mu' = [g \in 1 .. MaxGen |-> mu'[g]]
  BY <1>0 DEF NameType
<1>8. NameType'
  BY <1>0, <1>3, <1>7 DEF NameType
<1>9. Mutexes'
  <2>1. ASSUME NEW q \in Namers \ {p}, namer[q].pc \in {"write", "commit"} PROVE mu'[namer[q].gen] = q
    <3>0. namer[q].gen \in 1 .. sess.gen /\ sess.gen \in 0 .. MaxGen
      BY <2>1, <1>0 DEF Past, NameType
    <3>1. mu[namer[q].gen] = q /\ namer[q].gen \in 1 .. MaxGen
      BY <2>1, <3>0, <1>0, NameAssumption DEF Mutexes
    <3>2. namer[q].gen # namer[p].gen
      BY <3>1, NameAssumption
    <3> QED
      BY <3>1, <3>2, <1>6
  <2>2. ASSUME NEW r \in Renames, req[r].pc = "adopt" PROVE mu'[req[r].gen] = r
    <3>1. mu[req[r].gen] = r /\ req[r].gen \in 1 .. MaxGen
      BY <2>2, <1>0 DEF Mutexes, Past
    <3>2. req[r].gen # namer[p].gen
      BY <3>1, NameAssumption
    <3> QED
      BY <3>1, <3>2, <1>6
  <2> QED
    BY <2>1, <2>2, <1>1, <1>2, <1>5 DEF Mutexes
<1>10. Past'
  BY <1>0, <1>1, <1>2, <1>3 DEF Past
<1>11. Followed'
  <2>1. SUFFICES ASSUME ~crossed', NEW q \in Namers, namer'[q].pc = "write",
                        sess'.gen = namer'[q].gen, sess'.st = "open", row'.src = "user"
                 PROVE  \E r \in Renames : req[r].pc = "find" \/ (req[r].pc = "wait" /\ req[r].gen = namer'[q].gen)
    BY DEF Followed, Open
  <2>2. q # p
    BY <2>1, <1>1
  <2>3. namer[q].pc = "write" /\ namer'[q].gen = namer[q].gen /\ Open(namer[q].gen) /\ row.src = "user" /\ ~crossed
    BY <2>1, <2>2, <1>2, <1>3 DEF Open
  <2>4. \E r \in Renames : req[r].pc = "find" \/ (req[r].pc = "wait" /\ req[r].gen = namer[q].gen)
    BY <2>3, <1>0 DEF Followed
  <2> QED
    BY <2>3, <2>4
<1>12. Redone'
  <2>1. SUFFICES ASSUME ~crossed', row'.src # "user",
                        renamed \/ sess'.src = "user" \/ \E r \in Renames : req[r].pc = "adopt"
                 PROVE  \E r \in Renames : req[r].pc \in {"find", "wait"}
    BY DEF Redone
  <2>2. CASE row.src = "user"
    <3>1. namer[p].pc = "write" /\ Open(namer[p].gen) /\ ~crossed
      BY <2>1, <2>2
    <3> QED
      BY <3>1, <2>2, <1>0 DEF Followed
  <2>3. CASE row.src # "user"
    BY <2>1, <2>3, <1>0 DEF Redone
  <2> QED
    BY <2>2, <2>3
<1> QED
  BY <1>8, <1>9, <1>10, <1>11, <1>12 DEF NameInv

\* The session stays as it is.
LEMMA SessionRests ==
    ASSUME NameInv, sess' = sess
    PROVE  /\ sess' = [gen |-> sess.gen, st |-> sess.st, title |-> sess'.title, src |-> sess'.src]
           /\ sess'.src = "user" => sess.src = "user"
BY DEF NameInv, NameType

LEMMA NamerChecksStep == ASSUME NameInv, NEW p \in Namers, NamerChecks(p) PROVE NameInv'
<1> DEFINE g == namer[p].gen
           sync == Open(g) /\ (row.src = "user" \/ (p \in Titlers /\ row.name # NoName /\ ~row.ph))
           title == IF sync THEN row.name ELSE sess.title
           src == IF sync THEN row.src ELSE sess.src
           go == /\ Open(g)
                 /\ IF p \in Titlers THEN title = NoName /\ src # "user"
                    ELSE ~namer[p].stale /\ title # namer[p].name /\ Replaceable(title, src)
           next == IF go THEN [namer EXCEPT ![p].pc = "write"] ELSE Ended(p)
<1>1. /\ namer[p].pc = "wait" /\ mu[g] = NoName
      /\ mu' = [mu EXCEPT ![g] = IF go THEN p ELSE NoName]
      /\ IF sync THEN AdoptTitle(title, src, next) ELSE namer' = next /\ sess' = sess
      /\ row' = row /\ req' = req /\ renamed' = renamed /\ crossed' = crossed
  BY DEF NamerChecks
<1>2. go => row.src # "user"
  <2>1. go => Open(g) /\ src # "user"
    BY DEF Replaceable
  <2>2. Open(g) /\ row.src = "user" => src = "user"
    OBVIOUS
  <2> QED
    BY <2>1, <2>2
<1>3. src = "user" => sess.src = "user" \/ row.src = "user"
  OBVIOUS
<1>4. \E pc \in {"idle", "done", "write"} : NamerGoes(p, next, pc) /\ (go <=> pc = "write")
  <2>1. CASE go
    <3>1. next = [namer EXCEPT ![p].pc = "write"]
      BY <2>1
    <3>2. PICK w : w = "write"
      OBVIOUS
    <3>3. NamerGoes(p, [namer EXCEPT ![p].pc = w], w)
      BY PcGoes
    <3> QED
      BY <2>1, <3>1, <3>2, <3>3
  <2>2. CASE ~go
    <3>1. next = Ended(p)
      BY <2>2
    <3> QED
      BY <2>2, <3>1, EndedGoes
  <2> QED
    BY <2>1, <2>2
<1> HIDE DEF sync, title, src, go, next
<1>5. PICK pc \in {"idle", "done", "write"} : NamerGoes(p, next, pc) /\ (go <=> pc = "write")
  BY <1>4
<1>6. NamerShape(next)
  BY <1>5 DEF NamerGoes
<1>7. /\ NamerShape(namer') /\ SameSteps(namer', next)
      /\ sess' = [gen |-> sess.gen, st |-> sess.st, title |-> sess'.title, src |-> sess'.src]
      /\ sess'.src = "user" => sess.src = "user" \/ row.src = "user"
  <2>1. CASE sync
    <3>1. AdoptTitle(title, src, next)
      BY <1>1, <2>1
    <3>2. NamerShape(namer') /\ SameSteps(namer', next)
          /\ sess' = [gen |-> sess.gen, st |-> sess.st, title |-> title, src |-> src]
      BY <3>1, <1>6, AdoptTitleKeeps
    <3> QED
      BY <3>2, <1>3
  <2>2. CASE ~sync
    <3>1. namer' = next /\ sess' = sess
      BY <1>1, <2>2
    <3>2. SameSteps(next, next)
      BY DEF SameSteps
    <3> QED
      BY <3>1, <3>2, <1>6, SessionRests
  <2> QED
    BY <2>1, <2>2
<1>8. mu' = [mu EXCEPT ![g] = IF pc \in {"write", "commit"} THEN p ELSE NoName]
  BY <1>1, <1>5
<1>9. pc = "write" => row'.src # "user"
  BY <1>1, <1>2, <1>5
<1> QED
  BY <1>1, <1>5, <1>7, <1>8, <1>9, NamerKeeps

\* The mutex is kept, or left.
LEMMA MutexKept ==
    ASSUME NameInv, NEW p \in Namers, namer[p].pc \in {"write", "commit"}
    PROVE  mu[namer[p].gen] = p /\ mu = [mu EXCEPT ![namer[p].gen] = p]
<1>1. NameType /\ Mutexes
  BY DEF NameInv
<1>2. mu[namer[p].gen] = p
  BY <1>1 DEF Mutexes
<1> QED
  BY <1>1, <1>2 DEF NameType

LEMMA NamerWritesStep == ASSUME NameInv, NEW p \in Namers, NamerWrites(p) PROVE NameInv'
<1>1. namer[p].pc = "write" /\ sess' = sess /\ req' = req /\ renamed' = renamed
  BY DEF NamerWrites
<1>2. \/ /\ UpdateName(namer[p].name, "auto") /\ namer' = [namer EXCEPT ![p].pc = "commit"]
         /\ crossed' = (crossed \/ ~Open(namer[p].gen)) /\ mu' = mu
      \/ namer' = Ended(p) /\ Leave(p) /\ row' = row /\ crossed' = crossed
  BY DEF NamerWrites
<1>3. mu[namer[p].gen] = p /\ mu = [mu EXCEPT ![namer[p].gen] = p]
  BY <1>1, MutexKept
<1>4. /\ sess' = [gen |-> sess.gen, st |-> sess.st, title |-> sess'.title, src |-> sess'.src]
      /\ sess'.src = "user" => sess.src = "user"
  BY <1>1, SessionRests
<1>5. SameSteps(namer', namer')
  BY DEF SameSteps
<1>6. CASE UpdateName(namer[p].name, "auto") /\ namer' = [namer EXCEPT ![p].pc = "commit"]
           /\ crossed' = (crossed \/ ~Open(namer[p].gen)) /\ mu' = mu
  <2>1. PICK w : w = "commit"
    OBVIOUS
  <2>2. NamerGoes(p, [namer EXCEPT ![p].pc = w], w)
    BY PcGoes
  <2>3. NamerGoes(p, namer', w) /\ NamerShape(namer')
    BY <1>6, <2>1, <2>2 DEF NamerGoes
  <2>4. row'.src = "auto"
    BY <1>6 DEF UpdateName
  <2>5. mu' = [mu EXCEPT ![namer[p].gen] = IF w \in {"write", "commit"} THEN p ELSE NoName]
    BY <1>3, <1>6, <2>1
  <2> QED
    BY <1>1, <1>3, <1>4, <1>5, <1>6, <2>1, <2>3, <2>4, <2>5, NamerKeeps
<1>7. CASE namer' = Ended(p) /\ Leave(p) /\ row' = row /\ crossed' = crossed
  <2>1. PICK pc \in {"idle", "done"} : NamerGoes(p, namer', pc)
    BY <1>7, EndedGoes
  <2>2. NamerShape(namer')
    BY <2>1 DEF NamerGoes
  <2>3. mu' = [mu EXCEPT ![namer[p].gen] = IF pc \in {"write", "commit"} THEN p ELSE NoName]
    BY <1>7, <2>1 DEF Leave
  <2> QED
    BY <1>1, <1>3, <1>4, <1>5, <1>7, <2>1, <2>2, <2>3, NamerKeeps
<1> QED
  BY <1>2, <1>6, <1>7

LEMMA NamerCommitsStep == ASSUME NameInv, NEW p \in Namers, NamerCommits(p) PROVE NameInv'
<1>1. namer[p].pc = "commit" /\ Leave(p) /\ row' = row /\ req' = req /\ renamed' = renamed /\ crossed' = crossed
  BY DEF NamerCommits
<1>2. AdoptTitle(namer[p].name, "auto", Ended(p)) \/ (namer' = Ended(p) /\ sess' = sess)
  BY DEF NamerCommits
<1>3. mu[namer[p].gen] = p
  BY <1>1, MutexKept
<1>4. PICK pc \in {"idle", "done"} : NamerGoes(p, Ended(p), pc)
  BY EndedGoes
<1>5. NamerShape(Ended(p)) /\ SameSteps(Ended(p), Ended(p))
  BY <1>4 DEF NamerGoes, SameSteps
<1>6. /\ NamerShape(namer') /\ SameSteps(namer', Ended(p))
      /\ sess' = [gen |-> sess.gen, st |-> sess.st, title |-> sess'.title, src |-> sess'.src]
      /\ sess'.src = "user" => sess.src = "user"
  <2>1. CASE AdoptTitle(namer[p].name, "auto", Ended(p))
    <3>1. NamerShape(namer') /\ SameSteps(namer', Ended(p))
          /\ sess' = [gen |-> sess.gen, st |-> sess.st, title |-> namer[p].name, src |-> "auto"]
      BY <2>1, <1>5, AdoptTitleKeeps
    <3> QED
      BY <3>1
  <2>2. CASE namer' = Ended(p) /\ sess' = sess
    BY <2>2, <1>5, SessionRests
  <2> QED
    BY <1>2, <2>1, <2>2
<1>7. mu' = [mu EXCEPT ![namer[p].gen] = IF pc \in {"write", "commit"} THEN p ELSE NoName]
  BY <1>1, <1>4 DEF Leave
<1> QED
  BY <1>1, <1>3, <1>4, <1>6, <1>7, NamerKeeps

-----------------------------------------------------------------------------
(***************************************************************************)
(* handleRenameChat and SetSessionName.                                    *)
(***************************************************************************)

\* A rename that has the mutex: no namer of that opening is past its check.
LEMMA RenameAlone ==
    ASSUME NameInv, NEW g \in 1 .. MaxGen, mu[g] \notin Namers, Open(g), NEW p \in Namers
    PROVE  ~(namer[p].pc = "write" /\ Open(namer[p].gen))
BY DEF NameInv, Mutexes, Open

LEMMA RenameStoresStep == ASSUME NameInv, NEW r \in Renames, RenameStores(r) PROVE NameInv'
<1>0. NameType /\ Mutexes /\ Past /\ Followed /\ Redone /\ MaxGen \in Nat
  BY NameAssumption DEF NameInv
<1>1. req[r].pc = "idle" /\ sess' = sess /\ mu' = mu /\ namer' = namer /\ renamed' = renamed /\ crossed' = crossed
  BY DEF RenameStores
<1>2. CASE UpdateName(r, "user") /\ req' = [req EXCEPT ![r] = [pc |-> "find", gen |-> 0]]
  <2>1. row'.src = "user"
    BY <1>2 DEF UpdateName
  <2>2. req'[r].pc = "find" /\ \A q \in Renames \ {r} : req'[q] = req[q]
    BY <1>0, <1>2 DEF NameType
  <2>3. NameType'
    BY <1>0, <1>1, <1>2 DEF NameType
  <2>4. Mutexes' /\ Past'
    BY <1>0, <1>1, <2>2 DEF Mutexes, Past
  <2>5. Followed' /\ Redone'
    BY <2>1, <2>2 DEF Followed, Redone
  <2> QED
    BY <2>3, <2>4, <2>5 DEF NameInv
<1>3. CASE req' = [req EXCEPT ![r].pc = "done"] /\ row' = row
  <2>1. req'[r].pc = "done" /\ \A q \in Renames \ {r} : req'[q] = req[q]
    BY <1>0, <1>3 DEF NameType
  <2>2. NameType'
    BY <1>0, <1>1, <1>3 DEF NameType
  <2>3. Mutexes' /\ Past'
    BY <1>0, <1>1, <2>1 DEF Mutexes, Past
  <2>4. Followed'
    BY <1>0, <1>1, <1>3, <2>1 DEF Followed, Open
  <2>5. Redone'
    BY <1>0, <1>1, <1>3, <2>1 DEF Redone
  <2> QED
    BY <2>2, <2>3, <2>4, <2>5 DEF NameInv
<1> QED
  BY <1>2, <1>3 DEF RenameStores

\* A rename is answered without having told a session: nothing was lost by it, or
\* the loss is exempt.
LEMMA UnheardKeeps ==
    ASSUME NameInv, NEW r \in Renames, req[r].pc \in {"find", "wait"}, Answered(r), Unheard,
           \A p \in Namers : namer[p].pc = "write" /\ Open(namer[p].gen) =>
               req[r].pc = "wait" /\ req[r].gen # namer[p].gen,
           sess' = sess, mu' = mu, namer' = namer, row' = row
    PROVE  NameInv'
<1>0. NameType /\ Mutexes /\ Past /\ Followed /\ Redone /\ MaxGen \in Nat
  BY NameAssumption DEF NameInv
<1>1. req' = [req EXCEPT ![r].pc = "done"] /\ renamed' = TRUE /\ crossed' = (crossed \/ row.src # "user")
  BY DEF Answered, Unheard
<1>2. req'[r].pc = "done" /\ \A q \in Renames \ {r} : req'[q] = req[q]
  BY <1>0, <1>1 DEF NameType
<1>3. NameType'
  BY <1>0, <1>1 DEF NameType
<1>4. Mutexes' /\ Past'
  BY <1>0, <1>2 DEF Mutexes, Past
<1>5. Followed'
  <2>1. SUFFICES ASSUME ~crossed', NEW p \in Namers, namer[p].pc = "write", Open(namer[p].gen), row.src = "user"
                 PROVE  \E q \in Renames : req'[q].pc = "find" \/ (req'[q].pc = "wait" /\ req'[q].gen = namer[p].gen)
    BY DEF Followed, Open
  <2>2. PICK q \in Renames : req[q].pc = "find" \/ (req[q].pc = "wait" /\ req[q].gen = namer[p].gen)
    BY <2>1, <1>0, <1>1 DEF Followed
  <2>3. q # r
    BY <2>1, <2>2
  <2> QED
    BY <2>2, <2>3, <1>2
<1>6. Redone'
  BY <1>1 DEF Redone
<1> QED
  BY <1>3, <1>4, <1>5, <1>6 DEF NameInv

LEMMA RenameFindsStep == ASSUME NameInv, NEW r \in Renames, RenameFinds(r) PROVE NameInv'
<1>0. NameType /\ Mutexes /\ Past /\ Followed /\ Redone /\ MaxGen \in Nat
  BY NameAssumption DEF NameInv
<1>1. req[r].pc = "find" /\ sess' = sess /\ mu' = mu /\ namer' = namer /\ row' = row
  BY DEF RenameFinds
<1>2. CASE sess.st = "open"
  <2>1. req' = [req EXCEPT ![r] = [pc |-> "wait", gen |-> sess.gen]] /\ renamed' = renamed /\ crossed' = crossed
    BY <1>2 DEF RenameFinds
  <2>2. sess.gen \in 1 .. MaxGen
    BY <1>0, <1>2 DEF NameType, Past
  <2>3. req'[r].pc = "wait" /\ req'[r].gen = sess.gen /\ \A q \in Renames \ {r} : req'[q] = req[q]
    BY <1>0, <2>1 DEF NameType
  <2>4. NameType'
    BY <1>0, <1>1, <2>1, <2>2 DEF NameType
  <2>5. Mutexes' /\ Past'
    BY <1>0, <1>1, <2>2, <2>3 DEF Mutexes, Past
  <2>6. Followed'
    BY <1>0, <1>1, <2>1, <2>3 DEF Followed, Open
  <2>7. Redone'
    BY <1>0, <1>1, <2>1, <2>3 DEF Redone
  <2> QED
    BY <2>4, <2>5, <2>6, <2>7 DEF NameInv
<1>3. CASE sess.st # "open"
  <2>1. Answered(r) /\ Unheard
    BY <1>3 DEF RenameFinds
  <2>2. \A p \in Namers : ~Open(namer[p].gen)
    BY <1>3 DEF Open
  <2> QED
    BY <1>1, <2>1, <2>2, UnheardKeeps
<1> QED
  BY <1>2, <1>3

LEMMA RenamePersistsStep == ASSUME NameInv, NEW r \in Renames, RenamePersists(r) PROVE NameInv'
<1>0. NameType /\ Mutexes /\ Past /\ Followed /\ Redone /\ MaxGen \in Nat
  BY NameAssumption DEF NameInv
<1>1. PICK g : g = req[r].gen
  OBVIOUS
<1>2. req[r].pc = "wait" /\ mu[g] = NoName /\ sess' = sess /\ namer' = namer
  BY <1>1 DEF RenamePersists
<1>3. g \in 1 .. MaxGen
  BY <1>0, <1>1, <1>2 DEF Past
<1>4. Open(g) => \A p \in Namers : ~(namer[p].pc = "write" /\ Open(namer[p].gen))
  BY <1>2, <1>3, RenameAlone, NameAssumption
<1>5. ~Open(g) => \A p \in Namers : namer[p].pc = "write" /\ Open(namer[p].gen) => g # namer[p].gen
  BY DEF Open
<1>6. CASE /\ Open(g) /\ UpdateName(r, "user") /\ req' = [req EXCEPT ![r].pc = "adopt"]
           /\ mu' = [mu EXCEPT ![g] = r] /\ renamed' = renamed /\ crossed' = crossed
  <2>1. row'.src = "user"
    BY <1>6 DEF UpdateName
  <2>2. req'[r].pc = "adopt" /\ req'[r].gen = g /\ \A q \in Renames \ {r} : req'[q] = req[q]
    BY <1>0, <1>1, <1>6 DEF NameType
  <2>3. mu'[g] = r /\ \A h \in 1 .. MaxGen : h # g => mu'[h] = mu[h]
    BY <1>0, <1>3, <1>6 DEF NameType
  <2>4. NameType'
    BY <1>0, <1>2, <1>6 DEF NameType
  <2>5. Mutexes'
    <3>1. ASSUME NEW p \in Namers, namer[p].pc \in {"write", "commit"} PROVE mu'[namer[p].gen] = p
      <4>1. namer[p].gen \in 1 .. sess.gen /\ sess.gen \in 0 .. MaxGen
        BY <3>1, <1>0 DEF Past, NameType
      <4>2. mu[namer[p].gen] = p
        BY <3>1, <1>0 DEF Mutexes
      <4> QED
        BY <4>1, <4>2, <1>0, <1>2, <2>3, NameAssumption
    <3>2. ASSUME NEW q \in Renames, req'[q].pc = "adopt" PROVE mu'[req'[q].gen] = q
      <4>1. CASE q = r
        BY <4>1, <2>2, <2>3
      <4>2. CASE q # r
        <5>1. mu[req[q].gen] = q /\ req[q].gen \in 1 .. MaxGen /\ req'[q] = req[q]
          BY <3>2, <4>2, <2>2, <1>0 DEF Mutexes, Past
        <5> QED
          BY <5>1, <1>2, <2>3, NameAssumption
      <4> QED
        BY <4>1, <4>2
    <3> QED
      BY <3>1, <3>2, <1>2 DEF Mutexes
  <2>6. Past'
    BY <1>0, <1>2, <1>3, <2>2 DEF Past
  <2>7. Followed'
    BY <1>2, <1>4, <1>6 DEF Followed, Open
  <2>8. Redone'
    BY <2>1 DEF Redone
  <2> QED
    BY <2>4, <2>5, <2>6, <2>7, <2>8 DEF NameInv
<1>7. CASE Answered(r) /\ Unheard /\ row' = row /\ mu' = mu
  BY <1>1, <1>2, <1>4, <1>5, <1>7, UnheardKeeps
<1> QED
  BY <1>1, <1>6, <1>7 DEF RenamePersists

LEMMA RenameAdoptsStep == ASSUME NameInv, NEW r \in Renames, RenameAdopts(r) PROVE NameInv'
<1>0. NameType /\ Mutexes /\ Past /\ Followed /\ Redone /\ MaxGen \in Nat
  BY NameAssumption DEF NameInv
<1>1. PICK g : g = req[r].gen
  OBVIOUS
<1>2. /\ req[r].pc = "adopt" /\ mu' = [mu EXCEPT ![g] = NoName] /\ row' = row /\ crossed' = crossed
      /\ req' = [req EXCEPT ![r].pc = "done"] /\ renamed' = TRUE
  BY <1>1 DEF RenameAdopts, Answered
<1>3. AdoptTitle(r, "user", namer) \/ (sess' = sess /\ namer' = namer)
  BY DEF RenameAdopts
<1>4. /\ NamerShape(namer') /\ SameSteps(namer', namer)
      /\ sess' = [gen |-> sess.gen, st |-> sess.st, title |-> sess'.title, src |-> sess'.src]
  <2>1. CASE AdoptTitle(r, "user", namer)
    <3>1. NamerShape(namer') /\ SameSteps(namer', namer)
          /\ sess' = [gen |-> sess.gen, st |-> sess.st, title |-> r, src |-> "user"]
      BY <2>1, SelfSteps, AdoptTitleKeeps
    <3> QED
      BY <3>1
  <2>2. CASE sess' = sess /\ namer' = namer
    BY <2>2, SelfSteps, SessionRests
  <2> QED
    BY <1>3, <2>1, <2>2
<1>5. \A p \in Namers : namer'[p].pc = namer[p].pc /\ namer'[p].gen = namer[p].gen
  BY <1>4 DEF SameSteps
<1>6. sess'.gen = sess.gen /\ sess'.st = sess.st
      /\ sess' = [gen |-> sess'.gen, st |-> sess'.st, title |-> sess'.title, src |-> sess'.src]
  BY <1>4
<1>7. g \in 1 .. MaxGen /\ mu[g] = r
  BY <1>0, <1>1, <1>2 DEF Past, Mutexes
<1>8. \A h \in 1 .. MaxGen : h # g => mu'[h] = mu[h]
  BY <1>0, <1>2 DEF NameType
<1>9. req'[r].pc = "done" /\ \A q \in Renames \ {r} : req'[q] = req[q]
  BY <1>0, <1>2 DEF NameType
<1>10. NameType'
  <2>1. mu' = [h \in 1 .. MaxGen |-> mu'[h]]
    BY <1>0, <1>2 DEF NameType
  <2>2. req' \in [Renames -> [pc : {"idle", "find", "wait", "adopt", "done"}, gen : 0 .. MaxGen]]
    BY <1>0, <1>2 DEF NameType
  <2> QED
    BY <2>1, <2>2, <1>0, <1>4, <1>6 DEF NameType
<1>11. Mutexes'
  <2>1. ASSUME NEW p \in Namers, namer[p].pc \in {"write", "commit"} PROVE mu'[namer[p].gen] = p
    <3>1. namer[p].gen \in 1 .. sess.gen /\ sess.gen \in 0 .. MaxGen
      BY <2>1, <1>0 DEF Past, NameType
    <3>2. mu[namer[p].gen] = p
      BY <2>1, <1>0 DEF Mutexes
    <3> QED
      BY <3>1, <3>2, <1>0, <1>7, <1>8, NameAssumption
  <2>2. ASSUME NEW q \in Renames \ {r}, req[q].pc = "adopt" PROVE mu'[req[q].gen] = q
    <3>1. mu[req[q].gen] = q /\ req[q].gen \in 1 .. MaxGen
      BY <2>2, <1>0 DEF Mutexes, Past
    <3> QED
      BY <3>1, <1>7, <1>8
  <2> QED
    BY <2>1, <2>2, <1>5, <1>9 DEF Mutexes
<1>12. Past'
  BY <1>0, <1>5, <1>6, <1>9 DEF Past
<1>13. Followed'
  <2>1. SUFFICES ASSUME ~crossed, NEW p \in Namers, namer[p].pc = "write", Open(namer[p].gen), row.src = "user"
                 PROVE  \E q \in Renames : req'[q].pc = "find" \/ (req'[q].pc = "wait" /\ req'[q].gen = namer[p].gen)
    BY <1>2, <1>5, <1>6 DEF Followed, Open
  <2>2. PICK q \in Renames : req[q].pc = "find" \/ (req[q].pc = "wait" /\ req[q].gen = namer[p].gen)
    BY <2>1, <1>0 DEF Followed
  <2> QED
    BY <2>2, <1>2, <1>9
<1>14. Redone'
  <2>1. SUFFICES ASSUME ~crossed, row.src # "user" PROVE \E q \in Renames : req'[q].pc \in {"find", "wait"}
    BY <1>2 DEF Redone
  <2>2. PICK q \in Renames : req[q].pc \in {"find", "wait"}
    BY <2>1, <1>0, <1>2 DEF Redone
  <2> QED
    BY <2>2, <1>2, <1>9
<1> QED
  BY <1>10, <1>11, <1>12, <1>13, <1>14 DEF NameInv

-----------------------------------------------------------------------------
LEMMA NameStart == ASSUME NEW n, NameInit(n) PROVE NameInv
<1>1. NamerShape(namer) /\ \A p \in Namers : namer[p].pc = "idle"
  BY DEF NameInit, NamerShape, IdleNamer
<1>2. NameType
  <2>1. sess = [gen |-> sess.gen, st |-> sess.st, title |-> sess.title, src |-> sess.src]
        /\ sess.gen \in 0 .. MaxGen /\ sess.st = "none"
    BY NameAssumption DEF NameInit
  <2>2. mu = [g \in 1 .. MaxGen |-> mu[g]]
    BY DEF NameInit
  <2>3. req \in [Renames -> [pc : {"idle", "find", "wait", "adopt", "done"}, gen : 0 .. MaxGen]]
    BY NameAssumption DEF NameInit
  <2> QED
    BY <1>1, <2>1, <2>2, <2>3 DEF NameType
<1>3. Mutexes /\ Past /\ Followed
  BY <1>1 DEF NameInit, Mutexes, Past, Followed
<1>4. Redone
  BY DEF NameInit, Redone
<1> QED
  BY <1>2, <1>3, <1>4 DEF NameInv

LEMMA NameStep == NameInv /\ [NameNext]_nameVars => NameInv'
<1> SUFFICES ASSUME NameInv, [NameNext]_nameVars PROVE NameInv'
  OBVIOUS
<1>1. CASE NameNext
  BY <1>1, OpenReadStep, OpenNamedStep, LoseStep, EngineRenamesStep, EventBeginsStep, TitlerBeginsStep,
     NamerChecksStep, NamerWritesStep, NamerCommitsStep, RenameStoresStep, RenameFindsStep, RenamePersistsStep,
     RenameAdoptsStep, ObserveStep, ApplyDaemonNameStep, RefreshEnrollmentStep DEF NameNext
<1>2. CASE UNCHANGED nameVars
  <2>1. namer' = namer /\ row' = row /\ sess' = sess /\ mu' = mu /\ req' = req /\ renamed' = renamed /\ crossed' = crossed
    BY <1>2 DEF nameVars
  <2> QED
    BY <2>1, SelfSteps, NothingNew
<1> QED
  BY <1>1, <1>2

(***************************************************************************)
(* A user's name is never replaced for good by an automatic one, however   *)
(* renames, derived titles, the engine's names, losses and failed writes   *)
(* interleave (handleRenameChat, SetSessionName, applyAutoTitle,           *)
(* applyProviderName).                                                     *)
(***************************************************************************)
THEOREM UserNamesKept == NameSpec => []NamesKept
<1>1. (\E n \in Nat : NameInit(n)) => NameInv
  BY NameStart
<1>2. NameInv => NamesKept
  BY DEF NameInv, Redone, NamesKept, Quiet
<1> QED
  BY <1>1, <1>2, NameStep, PTL DEF NameSpec

-----------------------------------------------------------------------------
(***************************************************************************)
(* The stored chats: the inductive invariant.                              *)
(***************************************************************************)

Opening == {"enter", "cursor", "engine", "persist", "publish"}
Taking == {"check", "enter", "install"}
Steps == {"start", "new", "stop", "commit", "late", "adopt", "life", "next", "match", "save", "done"}
AnyStep == Opening \cup Taking \cup Steps

Job == [kind : Kinds, pc : AnyStep, c : Chats \cup {0}, d : Durables \cup {Unbound},
        ver : Nat, todo : SUBSET (Chats \cup Durables), forced : BOOLEAN]

Somebody == Requests \cup {Nobody}
Locks == [adopt : Somebody, life : Somebody, permit : [Chats -> Somebody]]
State == [rows : [Chats -> Stored], tomb : SUBSET Durables, ws : BOOLEAN]

There(x, c) == x.rows[c].kind \notin {"none", "gone"}

CatalogType ==
    /\ store \in State /\ disk \in State
    /\ job \in [Requests -> Job] /\ locks \in Locks
    /\ marks = [deleting |-> marks.deleting, ver |-> marks.ver] /\ marks.ver \in [Chats -> Nat]
    /\ live \subseteq Durables /\ copies \subseteq Durables
    /\ tally = [gone |-> tally.gone, rest |-> tally.rest, stray |-> tally.stray]
    /\ tally.rest \in Nat /\ tally.stray \in Nat
    /\ force \in [Chats -> [armed : BOOLEAN, owner : Somebody]]

\* A state of the store that keeps the promises: with gone the acknowledged removals
\* and cp the copies there are.
Keeps(x, gone, cp) ==
    /\ gone \subseteq x.tomb
    /\ \A c \in Chats : There(x, c) /\ x.rows[c].auto => x.rows[c].d \notin x.tomb
    /\ \A b, c \in Chats : There(x, b) /\ There(x, c) /\ x.rows[b].auto /\ x.rows[c].auto
                              /\ x.rows[b].d = x.rows[c].d => b = c
    /\ \A c \in Chats : There(x, c) /\ x.rows[c].own => x.rows[c].d \in cp

\* What a request that is at its step j relies on: the locks it holds, that the row
\* it works on is bound to the session it found, and for a tick that the session is
\* neither removed nor enrolled yet.
Relies(r, j, x, lk) ==
    /\ j.pc \in {"check", "install", "new"} => j.kind \in {"adopt", "inplace"}
    /\ j.pc = "new" => j.d \in Durables
    /\ j.kind = "open" /\ j.pc \in Opening =>
          /\ j.c \in Chats /\ x.rows[j.c].kind # "none"
          /\ j.pc # "enter" => lk.permit[j.c] = r
          /\ j.pc = "persist" => /\ j.d \in Durables
                                 /\ x.rows[j.c].kind # "gone" => x.rows[j.c].d \in {Unbound, j.d}
    /\ j.kind \in {"adopt", "inplace"} /\ j.pc \in Taking =>
          /\ j.c \in Chats /\ x.rows[j.c].kind # "none" /\ j.d \in Durables
          /\ x.rows[j.c].kind # "gone" => x.rows[j.c].d = j.d
    /\ j.kind = "delete" /\ j.pc \in {"stop", "commit"} => j.c \in Chats
    /\ j.kind = "drop" /\ j.pc \in {"stop", "late"} => lk.life = r /\ j.todo \subseteq Chats
    /\ j.kind = "tick" => j.todo \subseteq Durables
    /\ j.kind = "tick" /\ j.pc \in {"next", "match", "save"} => lk.life = r
    /\ j.kind = "tick" /\ j.pc \in {"match", "save"} => j.d \in Durables /\ j.d \notin x.tomb
    /\ j.kind = "tick" /\ j.pc = "save" => \A c \in Chats : There(x, c) /\ x.rows[c].auto => x.rows[c].d # j.d

\* A create attempt that owns a force asked for it and is still under way.
Owned ==
    \A c \in Chats : force[c].owner # Nobody =>
        LET j == job[force[c].owner] IN j.kind = "open" /\ j.pc \in Opening /\ j.forced

\* The forces given over REST are armed, spent by an opening that did not ask, or lost.
Loose == {c \in Chats : force[c].armed /\ force[c].owner = Nobody}
Balanced == tally.stray + Cardinality(Loose) <= tally.rest

Promises == Keeps(store, tally.gone, copies) /\ Keeps(disk, tally.gone, copies)
Relied == \A r \in Requests : Relies(r, job[r], store, locks)

CatalogInv == CatalogType /\ Promises /\ Relied /\ Owned /\ Balanced

-----------------------------------------------------------------------------
(***************************************************************************)
(* What a step does to the requests that are not taking it.                *)
(***************************************************************************)

\* Nobody else loses a lock.
LocksKept(r) ==
    \A q \in Requests \ {r} :
        /\ locks.life = q => locks'.life = q
        /\ \A c \in Chats : locks.permit[c] = q => locks'.permit[c] = q

\* A row is not forgotten and not bound to another session, unless by the holder of
\* its permit; tombstones and enrolments take chatLifecycleMu.
StoreMoves(r) ==
    /\ \A c \in Chats :
          /\ store.rows[c].kind # "none" => store'.rows[c].kind # "none"
          /\ store.rows[c].kind # "none" /\ store'.rows[c].kind # "gone" =>
                /\ store.rows[c].kind # "gone"
                /\ store'.rows[c].d = store.rows[c].d \/ (store.rows[c].d = Unbound /\ locks.permit[c] = r)
    /\ store'.tomb = store.tomb \/ locks.life \in {Nobody, r}
    /\ \/ \A c \in Chats : There(store', c) /\ store'.rows[c].auto =>
             There(store, c) /\ store.rows[c].auto /\ store.rows[c].d = store'.rows[c].d
       \/ locks.life \in {Nobody, r}

LEMMA StoreStays == ASSUME NEW r, store' = store PROVE StoreMoves(r)
BY DEF StoreMoves

LEMMA OthersRely ==
    ASSUME CatalogInv, NEW r \in Requests, NEW q \in Requests, q # r, LocksKept(r), StoreMoves(r)
    PROVE  Relies(q, job[q], store', locks')
<1> DEFINE j == job[q]
<1>0. Relies(q, j, store, locks) /\ q # Nobody
  BY CatalogAssumption DEF CatalogInv, Relied, Nobody
<1>1. /\ locks.life = q => locks'.life = q
      /\ \A c \in Chats : locks.permit[c] = q => locks'.permit[c] = q
  BY DEF LocksKept
<1>2. \A c \in Chats : store.rows[c].kind # "none" => store'.rows[c].kind # "none"
  BY DEF StoreMoves
<1>3. \A c \in Chats : store.rows[c].kind # "none" /\ store'.rows[c].kind # "gone" =>
         /\ store.rows[c].kind # "gone"
         /\ store'.rows[c].d = store.rows[c].d \/ (store.rows[c].d = Unbound /\ locks.permit[c] # q)
  BY DEF StoreMoves
<1>4. locks.life = q => /\ store'.tomb = store.tomb
                        /\ \A c \in Chats : There(store', c) /\ store'.rows[c].auto =>
                              There(store, c) /\ store.rows[c].auto /\ store.rows[c].d = store'.rows[c].d
  BY <1>0 DEF StoreMoves
<1> HIDE DEF j
<1>5. /\ j.pc \in {"check", "install", "new"} => j.kind \in {"adopt", "inplace"}
      /\ j.pc = "new" => j.d \in Durables
      /\ j.kind = "delete" /\ j.pc \in {"stop", "commit"} => j.c \in Chats
      /\ j.kind = "tick" => j.todo \subseteq Durables
  BY <1>0 DEF Relies
<1>6. j.kind = "open" /\ j.pc \in Opening =>
         /\ j.c \in Chats /\ store'.rows[j.c].kind # "none"
         /\ j.pc # "enter" => locks'.permit[j.c] = q
         /\ j.pc = "persist" => /\ j.d \in Durables
                                /\ store'.rows[j.c].kind # "gone" => store'.rows[j.c].d \in {Unbound, j.d}
  <2>1. SUFFICES ASSUME j.kind = "open", j.pc \in Opening
                 PROVE  /\ j.c \in Chats /\ store'.rows[j.c].kind # "none"
                        /\ j.pc # "enter" => locks'.permit[j.c] = q
                        /\ j.pc = "persist" =>
                              /\ j.d \in Durables
                              /\ store'.rows[j.c].kind # "gone" => store'.rows[j.c].d \in {Unbound, j.d}
    OBVIOUS
  <2>2. /\ j.c \in Chats /\ store.rows[j.c].kind # "none"
        /\ j.pc # "enter" => locks.permit[j.c] = q
        /\ j.pc = "persist" => /\ j.d \in Durables
                               /\ store.rows[j.c].kind # "gone" => store.rows[j.c].d \in {Unbound, j.d}
    BY <1>0, <2>1 DEF Relies
  <2> QED
    BY <2>2, <1>1, <1>2, <1>3
<1>7. j.kind \in {"adopt", "inplace"} /\ j.pc \in Taking =>
         /\ j.c \in Chats /\ store'.rows[j.c].kind # "none" /\ j.d \in Durables
         /\ store'.rows[j.c].kind # "gone" => store'.rows[j.c].d = j.d
  <2>1. SUFFICES ASSUME j.kind \in {"adopt", "inplace"}, j.pc \in Taking
                 PROVE  /\ j.c \in Chats /\ store'.rows[j.c].kind # "none" /\ j.d \in Durables
                        /\ store'.rows[j.c].kind # "gone" => store'.rows[j.c].d = j.d
    OBVIOUS
  <2>2. /\ j.c \in Chats /\ store.rows[j.c].kind # "none" /\ j.d \in Durables
        /\ store.rows[j.c].kind # "gone" => store.rows[j.c].d = j.d
    BY <1>0, <2>1 DEF Relies
  <2>3. j.d # Unbound
    BY <2>2, CatalogAssumption DEF Unbound
  <2> QED
    BY <2>2, <2>3, <1>2, <1>3
<1>8. j.kind = "drop" /\ j.pc \in {"stop", "late"} => locks'.life = q /\ j.todo \subseteq Chats
  BY <1>0, <1>1 DEF Relies
<1>9. /\ j.kind = "tick" /\ j.pc \in {"next", "match", "save"} => locks'.life = q
      /\ j.kind = "tick" /\ j.pc \in {"match", "save"} => j.d \in Durables /\ j.d \notin store'.tomb
      /\ j.kind = "tick" /\ j.pc = "save" =>
            \A c \in Chats : There(store', c) /\ store'.rows[c].auto => store'.rows[c].d # j.d
  <2>1. j.kind = "tick" /\ j.pc \in {"next", "match", "save"} => locks.life = q
    BY <1>0 DEF Relies
  <2>2. j.kind = "tick" /\ j.pc \in {"match", "save"} => j.d \in Durables /\ j.d \notin store.tomb
    BY <1>0 DEF Relies
  <2>3. j.kind = "tick" /\ j.pc = "save" =>
            \A c \in Chats : There(store, c) /\ store.rows[c].auto => store.rows[c].d # j.d
    BY <1>0 DEF Relies
  <2> QED
    BY <2>1, <2>2, <2>3, <1>1, <1>4
<1> QED
  BY <1>5, <1>6, <1>7, <1>8, <1>9 DEF Relies, j

\* A request takes a step to e.
LEMMA Proceeds ==
    ASSUME CatalogInv, NEW r \in Requests, NEW e \in Job, job' = [job EXCEPT ![r] = e],
           LocksKept(r), StoreMoves(r), CatalogType', Promises', Relies(r, e, store', locks'), Owned', Balanced'
    PROVE  CatalogInv'
<1>1. job'[r] = e /\ \A q \in Requests \ {r} : job'[q] = job[q]
  BY DEF CatalogInv, CatalogType
<1>2. ASSUME NEW q \in Requests PROVE Relies(q, job'[q], store', locks')
  <2>1. CASE q = r
    BY <1>1, <2>1
  <2>2. CASE q # r
    BY <1>1, <2>2, OthersRely
  <2> QED
    BY <2>1, <2>2
<1>3. Relied'
  BY <1>2 DEF Relied
<1> QED
  BY <1>3 DEF CatalogInv

-----------------------------------------------------------------------------
(***************************************************************************)
(* Locks, steps and forces.                                                *)
(***************************************************************************)

LEMMA Unlocks == ASSUME CatalogInv, NEW r \in Requests, Release(r) PROVE locks' \in Locks /\ LocksKept(r)
<1>1. locks \in Locks /\ Nobody \in Somebody
  BY DEF CatalogInv, CatalogType, Somebody
<1>2. locks'.adopt \in Somebody /\ locks'.life \in Somebody /\ locks'.permit \in [Chats -> Somebody]
  BY <1>1 DEF Release, Locks
<1>3. locks' \in Locks
  BY <1>2 DEF Release, Locks
<1>4. LocksKept(r)
  BY <1>1 DEF LocksKept, Locks, Release
<1> QED
  BY <1>3, <1>4

LEMMA LocksStay == ASSUME CatalogInv, NEW r, locks' = locks PROVE locks' \in Locks /\ LocksKept(r)
BY DEF CatalogInv, CatalogType, LocksKept

LEMMA LifeTaken ==
    ASSUME CatalogInv, NEW r \in Requests, locks.life = Nobody, locks' = [locks EXCEPT !.life = r]
    PROVE  locks' \in Locks /\ LocksKept(r) /\ locks'.life = r
<1>1. locks \in Locks /\ r \in Somebody
  BY DEF CatalogInv, CatalogType, Somebody
<1>2. locks'.life = r /\ locks'.permit = locks.permit /\ locks' \in Locks
  BY <1>1 DEF Locks
<1>3. Nobody \notin Requests
  BY CatalogAssumption DEF Nobody
<1> QED
  BY <1>2, <1>3 DEF LocksKept

LEMMA AdoptTaken ==
    ASSUME CatalogInv, NEW r \in Requests, locks' = [locks EXCEPT !.adopt = r]
    PROVE  locks' \in Locks /\ LocksKept(r)
<1>1. locks \in Locks /\ r \in Somebody
  BY DEF CatalogInv, CatalogType, Somebody
<1>2. locks'.life = locks.life /\ locks'.permit = locks.permit /\ locks' \in Locks
  BY <1>1 DEF Locks
<1> QED
  BY <1>2 DEF LocksKept

LEMMA PermitTaken ==
    ASSUME CatalogInv, NEW r \in Requests, NEW c \in Chats, locks.permit[c] = Nobody,
           locks' = [locks EXCEPT !.permit[c] = r]
    PROVE  locks' \in Locks /\ LocksKept(r) /\ locks'.permit[c] = r
<1>1. locks \in Locks /\ r \in Somebody
  BY DEF CatalogInv, CatalogType, Somebody
<1>2. PICK f : f = [locks.permit EXCEPT ![c] = r]
  OBVIOUS
<1>3. f \in [Chats -> Somebody] /\ f[c] = r /\ \A b \in Chats \ {c} : f[b] = locks.permit[b]
  BY <1>1, <1>2 DEF Locks
<1>4. locks' = [locks EXCEPT !.permit = f]
  BY <1>2
<1>5. locks'.life = locks.life /\ locks'.permit = f /\ locks' \in Locks
  BY <1>1, <1>3, <1>4 DEF Locks
<1>6. Nobody \notin Requests
  BY CatalogAssumption DEF Nobody
<1> QED
  BY <1>3, <1>5, <1>6 DEF LocksKept

\* A request goes on to pc, with the rest of its progress as it was.
LEMMA GoesOn ==
    ASSUME CatalogInv, NEW r \in Requests, NEW pc \in AnyStep, Goes(r, pc)
    PROVE  \E e \in Job :
              /\ job' = [job EXCEPT ![r] = e] /\ e.pc = pc
              /\ e.kind = job[r].kind /\ e.c = job[r].c /\ e.d = job[r].d /\ e.todo = job[r].todo
              /\ e.forced = job[r].forced
<1>1. job[r] \in Job
  BY DEF CatalogInv, CatalogType
<1>2. PICK e : e = [job[r] EXCEPT !.pc = pc]
  OBVIOUS
<1>3. e \in Job /\ e.pc = pc /\ e.kind = job[r].kind /\ e.c = job[r].c /\ e.d = job[r].d /\ e.todo = job[r].todo
      /\ e.forced = job[r].forced
  BY <1>1, <1>2 DEF Job
<1>4. job' = [job EXCEPT ![r] = e]
  BY <1>2 DEF Goes
<1> QED
  BY <1>3, <1>4

\* A request that has ended relies on nothing.
LEMMA EndedRelies ==
    ASSUME CatalogInv, NEW r \in Requests, NEW e, e.pc \in {"done", "start"}, e.kind = job[r].kind, e.todo = job[r].todo,
           NEW x, NEW lk
    PROVE  Relies(r, e, x, lk)
<1>1. e.kind = "tick" => e.todo \subseteq Durables
  BY DEF CatalogInv, Relied, Relies
<1> QED
  BY <1>1 DEF Relies, Opening, Taking

\* No force changes hands.
LEMMA ForcesStay ==
    ASSUME CatalogInv, NEW r \in Requests, NEW e, job' = [job EXCEPT ![r] = e], force' = force,
           \/ job[r].kind # "open" \/ job[r].pc \notin Opening
           \/ e.kind = "open" /\ e.pc \in Opening /\ e.forced = job[r].forced
    PROVE  Owned'
<1>1. job'[r] = e /\ \A q \in Requests \ {r} : job'[q] = job[q]
  BY DEF CatalogInv, CatalogType
<1>2. \A c \in Chats : force[c].owner # Nobody => force[c].owner \in Requests
  BY DEF CatalogInv, CatalogType, Somebody
<1>3. \A c \in Chats : force[c].owner # Nobody =>
         job[force[c].owner].kind = "open" /\ job[force[c].owner].pc \in Opening /\ job[force[c].owner].forced
  BY DEF CatalogInv, Owned
<1> QED
  BY <1>1, <1>2, <1>3 DEF Owned

LEMMA BalanceStays ==
    ASSUME CatalogInv, force' = force, tally'.rest = tally.rest, tally'.stray = tally.stray
    PROVE  Balanced'
BY DEF CatalogInv, Balanced, Loose

\* An attempt that ends takes back its own force and no other.
LEMMA Disarms ==
    ASSUME CatalogInv, NEW r \in Requests, NEW e, job' = [job EXCEPT ![r] = e], force' = Disarm(r)
    PROVE  /\ Owned' /\ force' \in [Chats -> [armed : BOOLEAN, owner : Somebody]]
           /\ tally'.rest = tally.rest /\ tally'.stray = tally.stray => Balanced'
<1>1. job'[r] = e /\ \A q \in Requests \ {r} : job'[q] = job[q]
  BY DEF CatalogInv, CatalogType
<1>2. force \in [Chats -> [armed : BOOLEAN, owner : Somebody]] /\ Nobody \in Somebody /\ r # Nobody
  BY CatalogAssumption DEF CatalogInv, CatalogType, Somebody, Nobody
<1>3. force' = [c \in Chats |-> IF force[c].owner = r THEN [armed |-> FALSE, owner |-> Nobody] ELSE force[c]]
  BY DEF Disarm
<1>4. force' \in [Chats -> [armed : BOOLEAN, owner : Somebody]]
  BY <1>2, <1>3
<1>5. \A c \in Chats : force'[c].owner # Nobody => force[c].owner = force'[c].owner /\ force[c].owner # r
  BY <1>3
<1>6. \A c \in Chats : force[c].owner # Nobody => force[c].owner \in Requests /\
         job[force[c].owner].kind = "open" /\ job[force[c].owner].pc \in Opening /\ job[force[c].owner].forced
  BY <1>2 DEF CatalogInv, Owned, Somebody
<1>7. Owned'
  BY <1>1, <1>5, <1>6 DEF Owned
<1>8. Loose' = Loose
  BY <1>2, <1>3 DEF Loose
<1>9. tally'.rest = tally.rest /\ tally'.stray = tally.stray => Balanced'
  BY <1>8 DEF CatalogInv, Balanced
<1> QED
  BY <1>4, <1>7, <1>9

\* A step that leaves the store, the copies and the forces alone.
LEMMA OnlyMoves ==
    ASSUME CatalogInv, NEW r \in Requests, NEW e \in Job, job' = [job EXCEPT ![r] = e],
           locks' \in Locks, LocksKept(r), Relies(r, e, store, locks'),
           marks' = [deleting |-> marks'.deleting, ver |-> marks'.ver], marks'.ver \in [Chats -> Nat],
           live' \subseteq Durables, store' = store, disk' = disk, copies' = copies, tally' = tally, force' = force,
           \/ job[r].kind # "open" \/ job[r].pc \notin Opening
           \/ e.kind = "open" /\ e.pc \in Opening /\ e.forced = job[r].forced
    PROVE  CatalogInv'
<1>1. CatalogType'
  BY DEF CatalogInv, CatalogType
<1>2. Promises'
  BY DEF CatalogInv, Promises, Keeps, There
<1>3. Owned'
  BY ForcesStay
<1>4. Balanced'
  BY BalanceStays
<1>5. StoreMoves(r)
  BY StoreStays
<1> QED
  BY <1>1, <1>2, <1>3, <1>4, <1>5, Proceeds

LEMMA MarksStay ==
    ASSUME CatalogInv, marks' = marks
    PROVE  marks' = [deleting |-> marks'.deleting, ver |-> marks'.ver] /\ marks'.ver \in [Chats -> Nat]
BY DEF CatalogInv, CatalogType

LEMMA MarksMove ==
    ASSUME CatalogInv, NEW cs, Marked(cs) \/ Unmarked(cs)
    PROVE  marks' = [deleting |-> marks'.deleting, ver |-> marks'.ver] /\ marks'.ver \in [Chats -> Nat]
<1>1. marks = [deleting |-> marks.deleting, ver |-> marks.ver] /\ marks.ver \in [Chats -> Nat]
  BY DEF CatalogInv, CatalogType
<1>2. CASE Marked(cs)
  BY <1>1, <1>2 DEF Marked
<1>3. CASE Unmarked(cs)
  BY <1>1, <1>3 DEF Unmarked
<1> QED
  BY <1>2, <1>3

LEMMA LiveStays == CatalogInv => live \subseteq Durables
BY DEF CatalogInv, CatalogType

LEMMA ClosedLive == ASSUME CatalogInv, NEW c, Closed(c) PROVE live' \subseteq Durables
BY LiveStays DEF Closed

\* The progress of a request that does not open a chat, and what it relies on.
LEMMA OfJob ==
    ASSUME CatalogInv, NEW r \in Requests
    PROVE  job[r] \in Job /\ Relies(r, job[r], store, locks) /\ r # Nobody
BY CatalogAssumption DEF CatalogInv, CatalogType, Relied, Nobody

LEMMA DeleteMarkStep == ASSUME CatalogInv, NEW r \in Requests, DeleteMark(r) PROVE CatalogInv'
<1>1. /\ job[r].kind = "delete" /\ job[r].pc = "start" /\ locks' = locks /\ live' = live /\ store' = store /\ disk' = disk
      /\ copies' = copies /\ tally' = tally /\ force' = force
  BY DEF DeleteMark, Is, NoEngine, NoStore, NoFiles
<1>2. locks' \in Locks /\ LocksKept(r) /\ live' \subseteq Durables
  BY <1>1, LocksStay, LiveStays
<1>3. PICK c \in Chats :
         \/ job' = [job EXCEPT ![r].pc = "stop", ![r].c = c] /\ Marked({c})
         \/ Goes(r, "done") /\ marks' = marks
  BY DEF DeleteMark
<1>4. CASE job' = [job EXCEPT ![r].pc = "stop", ![r].c = c] /\ Marked({c})
  <2>1. PICK e : e = [job[r] EXCEPT !.pc = "stop", !.c = c]
    OBVIOUS
  <2>2. e \in Job /\ e.pc = "stop" /\ e.kind = "delete" /\ e.c = c /\ e.todo = job[r].todo
    BY <2>1, <1>1, OfJob DEF Job, AnyStep, Steps
  <2>3. job' = [job EXCEPT ![r] = e]
    BY <1>4, <2>1
  <2>4. Relies(r, e, store, locks')
    BY <2>2 DEF Relies, Opening, Taking
  <2> QED
    BY <1>1, <1>2, <1>4, <2>2, <2>3, <2>4, MarksMove, OnlyMoves
<1>5. CASE Goes(r, "done") /\ marks' = marks
  <2>1. PICK w \in AnyStep : w = "done"
    BY DEF AnyStep, Steps
  <2>2. PICK e \in Job : /\ job' = [job EXCEPT ![r] = e] /\ e.pc = w
                         /\ e.kind = job[r].kind /\ e.todo = job[r].todo
    BY <1>5, <2>1, GoesOn
  <2>3. Relies(r, e, store, locks')
    BY <2>1, <2>2, EndedRelies
  <2> QED
    BY <1>1, <1>2, <1>5, <2>2, <2>3, MarksStay, OnlyMoves
<1> QED
  BY <1>3, <1>4, <1>5

\* A request ends without touching anything but its locks.
LEMMA JustEnds ==
    ASSUME CatalogInv, NEW r \in Requests, Goes(r, "done"), job[r].kind # "open" \/ job[r].pc \notin Opening,
           locks' \in Locks, LocksKept(r),
           marks' = [deleting |-> marks'.deleting, ver |-> marks'.ver], marks'.ver \in [Chats -> Nat],
           live' \subseteq Durables, store' = store, disk' = disk, copies' = copies, tally' = tally, force' = force
    PROVE  CatalogInv'
<1>1. PICK w \in AnyStep : w = "done"
  BY DEF AnyStep, Steps
<1>2. PICK e \in Job : /\ job' = [job EXCEPT ![r] = e] /\ e.pc = w
                       /\ e.kind = job[r].kind /\ e.todo = job[r].todo
  BY <1>1, GoesOn
<1>3. Relies(r, e, store, locks')
  BY <1>1, <1>2, EndedRelies
<1> QED
  BY <1>2, <1>3, OnlyMoves

LEMMA DeleteStopStep == ASSUME CatalogInv, NEW r \in Requests, DeleteStop(r) PROVE CatalogInv'
<1>0. PICK c : c = job[r].c
  OBVIOUS
<1>1. /\ job[r].kind = "delete" /\ job[r].pc = "stop" /\ locks' = locks /\ store' = store /\ disk' = disk
      /\ copies' = copies /\ tally' = tally /\ force' = force
  BY DEF DeleteStop, Is, NoStore, NoFiles
<1>2. locks' \in Locks /\ LocksKept(r)
  BY <1>1, LocksStay
<1>3. CASE Closed(c) /\ Goes(r, "commit") /\ marks' = marks
  <2>1. PICK w \in AnyStep : w = "commit"
    BY DEF AnyStep, Steps
  <2>2. PICK e \in Job : /\ job' = [job EXCEPT ![r] = e] /\ e.pc = w
                         /\ e.kind = job[r].kind /\ e.c = job[r].c
    BY <1>3, <2>1, GoesOn
  <2>3. Relies(r, e, store, locks')
    <3>1. job[r].c \in Chats
      BY <1>1, OfJob DEF Relies
    <3> QED
      BY <1>1, <2>1, <2>2, <3>1 DEF Relies, Opening, Taking
  <2> QED
    BY <1>1, <1>2, <1>3, <2>2, <2>3, MarksStay, ClosedLive, OnlyMoves
<1>4. CASE Unmarked({c}) /\ Goes(r, "done") /\ live' = live
  BY <1>1, <1>2, <1>4, MarksMove, LiveStays, JustEnds
<1> QED
  BY <1>0, <1>3, <1>4 DEF DeleteStop, NoEngine

LEMMA RowsAreChats == Rows \subseteq Chats
BY DEF Rows

LEMMA DropMarkStep == ASSUME CatalogInv, NEW r \in Requests, DropMark(r) PROVE CatalogInv'
<1>1. /\ job[r].kind = "drop" /\ job[r].pc = "start" /\ locks.life = Nobody /\ locks' = [locks EXCEPT !.life = r]
      /\ Marked(Rows) /\ job' = [job EXCEPT ![r].pc = "stop", ![r].todo = Rows]
      /\ live' = live /\ store' = store /\ disk' = disk /\ copies' = copies /\ tally' = tally /\ force' = force
  BY DEF DropMark, Is, NoEngine, NoStore, NoFiles
<1>2. locks' \in Locks /\ LocksKept(r) /\ locks'.life = r
  BY <1>1, LifeTaken
<1>3. PICK e : e = [job[r] EXCEPT !.pc = "stop", !.todo = Rows]
  OBVIOUS
<1>4. e \in Job /\ e.pc = "stop" /\ e.kind = "drop" /\ e.todo = Rows
  <2>1. Rows \in SUBSET (Chats \cup Durables) /\ "stop" \in AnyStep
    BY RowsAreChats DEF AnyStep, Steps
  <2>2. job[r] \in Job
    BY OfJob
  <2> QED
    BY <1>1, <1>3, <2>1, <2>2 DEF Job
<1>5. job' = [job EXCEPT ![r] = e]
  BY <1>1, <1>3
<1>6. Relies(r, e, store, locks')
  BY <1>2, <1>4, RowsAreChats DEF Relies, Opening, Taking
<1> QED
  BY <1>1, <1>2, <1>4, <1>5, <1>6, MarksMove, LiveStays, OnlyMoves

LEMMA DropStopStep == ASSUME CatalogInv, NEW r \in Requests, DropStop(r) PROVE CatalogInv'
<1>1. /\ job[r].kind = "drop" /\ job[r].pc \in {"stop", "late"} /\ locks' = locks /\ marks' = marks
      /\ store' = store /\ disk' = disk /\ copies' = copies /\ tally' = tally /\ force' = force
  BY DEF DropStop, NoLocks, NoStore, NoFiles
<1>2. locks' \in Locks /\ LocksKept(r)
  BY <1>1, LocksStay
<1>3. PICK c \in job[r].todo :
         \/ Closed(c) /\ job' = [job EXCEPT ![r].todo = @ \ {c}]
         \/ live' = live /\ job' = [job EXCEPT ![r].todo = @ \ {c}, ![r].pc = "late"]
  BY DEF DropStop, NoEngine
<1>4. live' \subseteq Durables
  BY <1>3, ClosedLive, LiveStays
<1>5. PICK e : /\ job' = [job EXCEPT ![r] = e]
               /\ e = [job[r] EXCEPT !.todo = @ \ {c}] \/ e = [job[r] EXCEPT !.todo = @ \ {c}, !.pc = "late"]
  <2>1. CASE job' = [job EXCEPT ![r].todo = @ \ {c}]
    <3>1. PICK e : e = [job[r] EXCEPT !.todo = @ \ {c}]
      OBVIOUS
    <3> QED
      BY <2>1, <3>1
  <2>2. CASE job' = [job EXCEPT ![r].todo = @ \ {c}, ![r].pc = "late"]
    <3>1. PICK e : e = [job[r] EXCEPT !.todo = @ \ {c}, !.pc = "late"]
      OBVIOUS
    <3> QED
      BY <2>2, <3>1
  <2> QED
    BY <1>3, <2>1, <2>2
<1>6. job[r] \in Job /\ job[r].todo \subseteq Chats /\ locks.life = r
  BY <1>1, OfJob DEF Relies
<1>7. e \in Job /\ e.kind = "drop" /\ e.pc \in {"stop", "late"} /\ e.todo \subseteq Chats
  <2>1. PICK rest : rest = job[r].todo \ {c}
    OBVIOUS
  <2>2. rest \subseteq Chats /\ rest \in SUBSET (Chats \cup Durables) /\ "late" \in AnyStep
    BY <1>6, <2>1 DEF AnyStep, Steps
  <2>3. e = [job[r] EXCEPT !.todo = rest] \/ e = [job[r] EXCEPT !.todo = rest, !.pc = "late"]
    BY <1>5, <2>1
  <2> QED
    BY <1>1, <1>6, <2>2, <2>3 DEF Job
<1>8. Relies(r, e, store, locks')
  BY <1>1, <1>6, <1>7 DEF Relies, Opening, Taking
<1> QED
  BY <1>1, <1>2, <1>4, <1>5, <1>7, <1>8, MarksStay, OnlyMoves

LEMMA RefuseStep == ASSUME CatalogInv, NEW r \in Requests, Refuse(r) PROVE CatalogInv'
<1>1. /\ job[r].pc \in {"new", "install"} /\ Goes(r, "done") /\ Release(r) /\ marks' = marks /\ live' = live
      /\ store' = store /\ disk' = disk /\ copies' = copies /\ tally' = tally /\ force' = force
  BY DEF Refuse, NoEngine, NoStore, NoFiles
<1>2. job[r].kind # "open" \/ job[r].pc \notin Opening
  BY <1>1 DEF Opening
<1> QED
  BY <1>1, <1>2, Unlocks, MarksStay, LiveStays, JustEnds

LEMMA TakeOverCheckStep == ASSUME CatalogInv, NEW r \in Requests, TakeOverCheck(r) PROVE CatalogInv'
<1>0. PICK c : c = job[r].c
  OBVIOUS
<1>1. /\ job[r].pc = "check" /\ live' = live
      /\ store' = store /\ disk' = disk /\ copies' = copies /\ tally' = tally /\ force' = force
  BY DEF TakeOverCheck, NoEngine, NoStore, NoFiles
<1>2. /\ job[r] \in Job /\ job[r].kind \in {"adopt", "inplace"} /\ c \in Chats
      /\ store.rows[c].kind # "none" /\ job[r].d \in Durables
      /\ store.rows[c].kind # "gone" => store.rows[c].d = job[r].d
  BY <1>0, <1>1, OfJob DEF Relies, Taking
<1>3. CASE Goes(r, "enter") /\ marks' = [marks EXCEPT !.ver[c] = @ + 1] /\ locks' = locks
  <2>1. PICK w \in AnyStep : w = "enter"
    BY DEF AnyStep, Opening
  <2>2. PICK e \in Job : /\ job' = [job EXCEPT ![r] = e] /\ e.pc = w
                         /\ e.kind = job[r].kind /\ e.c = job[r].c /\ e.d = job[r].d
    BY <1>3, <2>1, GoesOn
  <2>3. Relies(r, e, store, locks')
    BY <1>0, <1>2, <2>1, <2>2 DEF Relies
  <2>4. marks' = [deleting |-> marks'.deleting, ver |-> marks'.ver] /\ marks'.ver \in [Chats -> Nat]
    <3>1. marks = [deleting |-> marks.deleting, ver |-> marks.ver] /\ marks.ver \in [Chats -> Nat]
      BY DEF CatalogInv, CatalogType
    <3>2. PICK f : f = [marks.ver EXCEPT ![c] = marks.ver[c] + 1]
      OBVIOUS
    <3>3. marks' = [marks EXCEPT !.ver = f]
      BY <1>3, <3>2
    <3>4. f \in [Chats -> Nat]
      BY <3>1, <3>2, <1>2
    <3> QED
      BY <3>1, <3>3, <3>4
  <2>5. locks' \in Locks /\ LocksKept(r)
    BY <1>3, LocksStay
  <2> QED
    BY <1>1, <1>2, <2>2, <2>3, <2>4, <2>5, LiveStays, OnlyMoves
<1>4. CASE Goes(r, "done") /\ Release(r) /\ marks' = marks
  BY <1>1, <1>2, <1>4, Unlocks, MarksStay, LiveStays, JustEnds
<1> QED
  BY <1>0, <1>3, <1>4 DEF TakeOverCheck

LEMMA TakeOverEnterStep == ASSUME CatalogInv, NEW r \in Requests, TakeOverEnter(r) PROVE CatalogInv'
<1>0. PICK c : c = job[r].c
  OBVIOUS
<1>1. /\ job[r].kind \in {"adopt", "inplace"} /\ job[r].pc = "enter" /\ locks.permit[c] = Nobody
      /\ locks' = [locks EXCEPT !.permit[c] = r] /\ Closed(c) /\ Goes(r, "install") /\ marks' = marks
      /\ store' = store /\ disk' = disk /\ copies' = copies /\ tally' = tally /\ force' = force
  BY <1>0 DEF TakeOverEnter, NoStore, NoFiles
<1>2. /\ job[r] \in Job /\ c \in Chats
      /\ store.rows[c].kind # "none" /\ job[r].d \in Durables
      /\ store.rows[c].kind # "gone" => store.rows[c].d = job[r].d
  BY <1>0, <1>1, OfJob DEF Relies, Taking
<1>3. locks' \in Locks /\ LocksKept(r)
  BY <1>1, <1>2, PermitTaken
<1>4. PICK w \in AnyStep : w = "install"
  BY DEF AnyStep, Taking
<1>5. PICK e \in Job : /\ job' = [job EXCEPT ![r] = e] /\ e.pc = w
                       /\ e.kind = job[r].kind /\ e.c = job[r].c /\ e.d = job[r].d
  BY <1>1, <1>4, GoesOn
<1>6. Relies(r, e, store, locks')
  BY <1>0, <1>1, <1>2, <1>4, <1>5 DEF Relies
<1> QED
  BY <1>1, <1>3, <1>5, <1>6, MarksStay, ClosedLive, OnlyMoves

LEMMA TickListsStep == ASSUME CatalogInv, NEW r \in Requests, TickLists(r) PROVE CatalogInv'
<1>1. /\ job[r].kind = "tick" /\ job[r].pc = "start" /\ job' = [job EXCEPT ![r].pc = "adopt", ![r].todo = live]
      /\ locks' = locks /\ marks' = marks /\ live' = live
      /\ store' = store /\ disk' = disk /\ copies' = copies /\ tally' = tally /\ force' = force
  BY DEF TickLists, Is, NoLocks, NoEngine, NoStore, NoFiles
<1>2. PICK e : e = [job[r] EXCEPT !.pc = "adopt", !.todo = live]
  OBVIOUS
<1>3. e \in Job /\ e.pc = "adopt" /\ e.kind = "tick" /\ e.todo = live
  BY <1>1, <1>2, OfJob, LiveStays DEF Job, AnyStep, Steps
<1>4. job' = [job EXCEPT ![r] = e]
  BY <1>1, <1>2
<1>5. Relies(r, e, store, locks')
  BY <1>3, LiveStays DEF Relies
<1>6. locks' \in Locks /\ LocksKept(r)
  BY <1>1, LocksStay
<1> QED
  BY <1>1, <1>3, <1>4, <1>5, <1>6, MarksStay, LiveStays, OnlyMoves

LEMMA TickLocksStep == ASSUME CatalogInv, NEW r \in Requests, TickLocks(r) PROVE CatalogInv'
<1>1. /\ marks' = marks /\ live' = live
      /\ store' = store /\ disk' = disk /\ copies' = copies /\ tally' = tally /\ force' = force
  BY DEF TickLocks, NoEngine, NoStore, NoFiles
<1>2. job[r] \in Job /\ (job[r].kind = "tick" => job[r].todo \subseteq Durables)
  BY OfJob DEF Relies
<1>3. CASE job[r].kind = "tick" /\ job[r].pc = "adopt" /\ locks' = [locks EXCEPT !.adopt = r] /\ Goes(r, "life")
  <2>1. PICK w \in AnyStep : w = "life"
    BY DEF AnyStep, Steps
  <2>2. PICK e \in Job : /\ job' = [job EXCEPT ![r] = e] /\ e.pc = w
                         /\ e.kind = job[r].kind /\ e.todo = job[r].todo
    BY <1>3, <2>1, GoesOn
  <2>3. Relies(r, e, store, locks')
    BY <1>2, <1>3, <2>1, <2>2 DEF Relies
  <2> QED
    BY <1>1, <1>3, <2>2, <2>3, AdoptTaken, MarksStay, LiveStays, OnlyMoves
<1>4. CASE job[r].kind = "tick" /\ job[r].pc = "life" /\ locks.life = Nobody /\ locks' = [locks EXCEPT !.life = r]
           /\ Goes(r, "next")
  <2>1. PICK w \in AnyStep : w = "next"
    BY DEF AnyStep, Steps
  <2>2. PICK e \in Job : /\ job' = [job EXCEPT ![r] = e] /\ e.pc = w
                         /\ e.kind = job[r].kind /\ e.todo = job[r].todo
    BY <1>4, <2>1, GoesOn
  <2>3. locks' \in Locks /\ LocksKept(r) /\ locks'.life = r
    BY <1>4, LifeTaken
  <2>4. Relies(r, e, store, locks')
    BY <1>2, <1>4, <2>1, <2>2, <2>3 DEF Relies
  <2> QED
    BY <1>1, <1>4, <2>2, <2>3, <2>4, MarksStay, LiveStays, OnlyMoves
<1> QED
  BY <1>3, <1>4 DEF TickLocks, Is

-----------------------------------------------------------------------------
(***************************************************************************)
(* Writes of the store.                                                    *)
(***************************************************************************)

\* A request takes a step that changes anything.
LEMMA Changes ==
    ASSUME CatalogInv, NEW r \in Requests, NEW e \in Job, job' = [job EXCEPT ![r] = e],
           locks' \in Locks, LocksKept(r), StoreMoves(r), Promises', Relies(r, e, store', locks'), Owned', Balanced',
           marks' = [deleting |-> marks'.deleting, ver |-> marks'.ver], marks'.ver \in [Chats -> Nat],
           live' \subseteq Durables, copies' \subseteq Durables, store' \in State, disk' \in State,
           tally' = [gone |-> tally'.gone, rest |-> tally'.rest, stray |-> tally'.stray],
           tally'.rest \in Nat, tally'.stray \in Nat, force' \in [Chats -> [armed : BOOLEAN, owner : Somebody]]
    PROVE  CatalogInv'
<1>1. job' \in [Requests -> Job]
  BY DEF CatalogInv, CatalogType
<1>2. CatalogType'
  BY <1>1 DEF CatalogType
<1> QED
  BY <1>2, Proceeds

LEMMA TallyStays ==
    ASSUME CatalogInv, tally' = tally
    PROVE  /\ tally' = [gone |-> tally'.gone, rest |-> tally'.rest, stray |-> tally'.stray]
           /\ tally'.rest \in Nat /\ tally'.stray \in Nat
BY DEF CatalogInv, CatalogType

LEMMA ForceTyped == ASSUME CatalogInv, force' = force PROVE force' \in [Chats -> [armed : BOOLEAN, owner : Somebody]]
BY DEF CatalogInv, CatalogType

LEMMA CopiesTyped == CatalogInv => copies \subseteq Durables
BY DEF CatalogInv, CatalogType

\* Row c may become rec: it is new, or stays with its session, or gets its first one
\* from the holder of the permit; and an enrolment is old, or made under
\* chatLifecycleMu for a session that is neither removed nor enrolled.
Bindable(r, c, rec) ==
    /\ rec \in Stored /\ rec.kind \notin {"none", "gone"}
    /\ \/ store.rows[c].kind = "none"
       \/ /\ There(store, c)
          /\ rec.d = store.rows[c].d \/ (store.rows[c].d = Unbound /\ locks.permit[c] = r)
    /\ rec.auto => \/ There(store, c) /\ store.rows[c].auto /\ store.rows[c].d = rec.d
                   \/ /\ locks.life = r /\ rec.d \notin store.tomb
                      /\ \A b \in Chats : There(store, b) /\ store.rows[b].auto => store.rows[b].d # rec.d

LEMMA PutRow ==
    ASSUME CatalogInv, NEW c \in Chats, NEW rec \in Stored
    PROVE  /\ Put(c, rec) \in State /\ Put(c, rec).tomb = store.tomb /\ Put(c, rec).ws = store.ws
           /\ Put(c, rec).rows[c] = rec /\ \A b \in Chats \ {c} : Put(c, rec).rows[b] = store.rows[b]
<1>1. store \in State
  BY DEF CatalogInv, CatalogType
<1>2. PICK f : f = [store.rows EXCEPT ![c] = rec]
  OBVIOUS
<1>3. f \in [Chats -> Stored] /\ f[c] = rec /\ \A b \in Chats \ {c} : f[b] = store.rows[b]
  BY <1>1, <1>2 DEF State
<1>4. Put(c, rec) = [store EXCEPT !.rows = f]
  BY <1>2 DEF Put
<1> QED
  BY <1>1, <1>3, <1>4 DEF State

LEMMA Puts ==
    ASSUME CatalogInv, NEW r \in Requests, NEW c \in Chats, NEW rec, Bindable(r, c, rec),
           NEW new, new = Put(c, rec), Flushed(new) \/ FlushFails(new),
           rec.own => rec.d \in copies', copies \subseteq copies', tally'.gone = tally.gone
    PROVE  /\ StoreMoves(r) /\ Promises' /\ store' \in State /\ disk' \in State
           /\ store' = store \/ (store'.rows[c] = rec /\ store'.tomb = store.tomb)
<1>1. rec \in Stored /\ rec.kind \notin {"none", "gone"}
  BY DEF Bindable
<1>2. /\ new \in State /\ new.tomb = store.tomb
      /\ new.rows[c] = rec /\ \A b \in Chats \ {c} : new.rows[b] = store.rows[b]
  BY <1>1, PutRow
<1>3. store' \in {store, new} /\ disk' \in {disk, new}
  BY DEF Flushed, FlushFails
<1>4. store \in State /\ disk \in State
  BY DEF CatalogInv, CatalogType
<1>5. StoreMoves(r)
  <2>1. CASE store' = store
    BY <2>1, StoreStays
  <2>2. CASE store' = new
    <3>1. \A b \in Chats :
             /\ store.rows[b].kind # "none" => new.rows[b].kind # "none"
             /\ store.rows[b].kind # "none" /\ new.rows[b].kind # "gone" =>
                   /\ store.rows[b].kind # "gone"
                   /\ new.rows[b].d = store.rows[b].d \/ (store.rows[b].d = Unbound /\ locks.permit[b] = r)
      BY <1>1, <1>2 DEF Bindable, There
    <3>2. \/ \A b \in Chats : There(new, b) /\ new.rows[b].auto =>
                There(store, b) /\ store.rows[b].auto /\ store.rows[b].d = new.rows[b].d
          \/ locks.life \in {Nobody, r}
      BY <1>2 DEF Bindable, There
    <3> QED
      BY <2>2, <3>1, <3>2, <1>2 DEF StoreMoves
  <2> QED
    BY <1>3, <2>1, <2>2
<1>6. Keeps(store, tally.gone, copies) /\ Keeps(disk, tally.gone, copies)
  BY DEF CatalogInv, Promises
<1>7. Keeps(new, tally.gone, copies')
  <2>1. \A b \in Chats \ {c} : There(new, b) = There(store, b)
    BY <1>2 DEF There
  <2>2. \A b \in Chats : There(store, b) /\ store.rows[b].auto => store.rows[b].d \notin store.tomb
    BY <1>6 DEF Keeps
  <2>3. \A a, b \in Chats : There(store, a) /\ There(store, b) /\ store.rows[a].auto /\ store.rows[b].auto
                               /\ store.rows[a].d = store.rows[b].d => a = b
    BY <1>6 DEF Keeps
  <2>4. rec.auto => rec.d \notin store.tomb
    BY <2>2 DEF Bindable
  <2>5. rec.auto => \A b \in Chats \ {c} : There(store, b) /\ store.rows[b].auto => store.rows[b].d # rec.d
    BY <2>3 DEF Bindable
  <2>6. \A b \in Chats : There(new, b) /\ new.rows[b].auto => new.rows[b].d \notin new.tomb
    BY <1>2, <2>1, <2>2, <2>4
  <2>7. \A a, b \in Chats : There(new, a) /\ There(new, b) /\ new.rows[a].auto /\ new.rows[b].auto
                               /\ new.rows[a].d = new.rows[b].d => a = b
    BY <1>2, <2>1, <2>3, <2>5
  <2>8. \A b \in Chats : There(new, b) /\ new.rows[b].own => new.rows[b].d \in copies'
    BY <1>2, <1>6, <2>1 DEF Keeps
  <2>9. tally.gone \subseteq new.tomb
    BY <1>2, <1>6 DEF Keeps
  <2> QED
    BY <2>6, <2>7, <2>8, <2>9 DEF Keeps
<1>8. Keeps(store, tally.gone, copies') /\ Keeps(disk, tally.gone, copies')
  BY <1>6 DEF Keeps
<1>9. Promises'
  <2>1. Keeps(store', tally'.gone, copies') /\ Keeps(disk', tally'.gone, copies')
    BY <1>3, <1>7, <1>8
  <2> QED
    BY <2>1 DEF Promises, Keeps, There
<1> QED
  BY <1>2, <1>3, <1>4, <1>5, <1>9

\* The workspace is made again: no row and no tombstone is different.
LEMMA Reopens ==
    ASSUME CatalogInv, NEW r, NEW new, new = [store EXCEPT !.ws = TRUE], Flushed(new) \/ FlushFails(new),
           copies' = copies, tally' = tally
    PROVE  /\ StoreMoves(r) /\ Promises' /\ store' \in State /\ disk' \in State
           /\ store'.rows = store.rows /\ store'.tomb = store.tomb
<1>1. store \in State /\ disk \in State /\ Keeps(store, tally.gone, copies) /\ Keeps(disk, tally.gone, copies)
  BY DEF CatalogInv, CatalogType, Promises
<1>2. new \in State /\ new.rows = store.rows /\ new.tomb = store.tomb
  BY <1>1 DEF State
<1>3. store' \in {store, new} /\ disk' \in {disk, new}
  BY DEF Flushed, FlushFails
<1>4. Keeps(new, tally.gone, copies)
  BY <1>1, <1>2 DEF Keeps, There
<1>5. Promises'
  <2>1. Keeps(store', tally'.gone, copies') /\ Keeps(disk', tally'.gone, copies')
    BY <1>1, <1>3, <1>4
  <2> QED
    BY <2>1 DEF Promises, Keeps, There
<1>6. store'.rows = store.rows /\ store'.tomb = store.tomb
  BY <1>2, <1>3
<1>7. StoreMoves(r)
  BY <1>6 DEF StoreMoves, There
<1> QED
  BY <1>1, <1>2, <1>3, <1>5, <1>6, <1>7

LEMMA Unwritten ==
    ASSUME CatalogInv, NEW r, store' = store, disk' = disk, copies \subseteq copies', tally'.gone = tally.gone
    PROVE  StoreMoves(r) /\ Promises' /\ store' \in State /\ disk' \in State
<1>1. StoreMoves(r)
  BY StoreStays
<1>2. Promises'
  BY DEF CatalogInv, Promises, Keeps, There
<1> QED
  BY <1>1, <1>2 DEF CatalogInv, CatalogType

\* Rows are removed, their enrolments leave tombstones.
Fewer(new, cs) == new = Without(cs) \/ new = [Without(cs) EXCEPT !.ws = FALSE]

LEMMA WithoutKeeps ==
    ASSUME CatalogInv, NEW cs, cs \subseteq Chats, NEW new, Fewer(new, cs)
    PROVE  /\ new \in State /\ Keeps(new, tally.gone \cup Tombs(cs), copies)
           /\ \A c \in Chats : /\ new.rows[c] = store.rows[c] \/ new.rows[c].kind = "gone"
                               /\ There(new, c) => There(store, c) /\ new.rows[c] = store.rows[c]
<1>1. store \in State /\ Keeps(store, tally.gone, copies)
  BY DEF CatalogInv, CatalogType, Promises
<1>2. PICK g : g = [NoRow EXCEPT !.kind = "gone"]
  OBVIOUS
<1>3. g = [kind |-> "gone", d |-> Unbound, own |-> FALSE, auto |-> FALSE] /\ g \in Stored
  BY <1>2 DEF NoRow, Stored, Sound, Foreign
<1>4. PICK f : f = [c \in Chats |-> IF c \in cs THEN g ELSE store.rows[c]]
  OBVIOUS
<1>5. f \in [Chats -> Stored] /\ \A c \in Chats : f[c] = IF c \in cs THEN g ELSE store.rows[c]
  BY <1>1, <1>3, <1>4 DEF State
<1>6. PICK t : t = store.tomb \cup Tombs(cs)
  OBVIOUS
<1>7. \A c \in cs : store.rows[c].auto => store.rows[c].d \in Durables
  BY <1>1 DEF State, Stored, Sound
<1>8. Tombs(cs) \subseteq Durables /\ \A c \in cs : store.rows[c].auto => store.rows[c].d \in Tombs(cs)
  BY <1>7, CatalogAssumption DEF Tombs, Unbound
<1>9. \A d \in Tombs(cs) : \E c \in cs : store.rows[c].auto /\ store.rows[c].d = d
  BY DEF Tombs
<1>10. Without(cs) = [store EXCEPT !.rows = f, !.tomb = t]
  BY <1>2, <1>4, <1>6 DEF Without
<1>11. new.rows = f /\ new.tomb = t /\ new \in State
  BY <1>1, <1>5, <1>6, <1>8, <1>10 DEF State, Fewer
<1>12. \A c \in Chats : There(new, c) => c \notin cs /\ There(store, c) /\ new.rows[c] = store.rows[c]
  BY <1>3, <1>5, <1>11 DEF There
<1>13. \A c \in Chats : new.rows[c] = store.rows[c] \/ new.rows[c].kind = "gone"
  BY <1>3, <1>5, <1>11
<1>14. \A c \in Chats : There(new, c) /\ new.rows[c].auto => new.rows[c].d \notin new.tomb
  <2>1. SUFFICES ASSUME NEW c \in Chats, There(new, c), new.rows[c].auto, new.rows[c].d \in Tombs(cs) PROVE FALSE
    BY <1>1, <1>6, <1>11, <1>12 DEF Keeps
  <2>2. PICK b \in cs : store.rows[b].auto /\ store.rows[b].d = store.rows[c].d
    BY <2>1, <1>9, <1>12
  <2>3. There(store, b)
    <3>1. store.rows[b] \in Stored
      BY <1>1 DEF State
    <3> QED
      BY <3>1, <2>2 DEF Stored, Sound, Foreign, There
  <2> QED
    BY <1>1, <2>1, <2>2, <2>3, <1>12 DEF Keeps
<1>15. Keeps(new, tally.gone \cup Tombs(cs), copies)
  BY <1>1, <1>6, <1>11, <1>12, <1>14 DEF Keeps
<1> QED
  BY <1>11, <1>12, <1>13, <1>15

LEMMA Removes ==
    ASSUME CatalogInv, NEW r \in Requests, NEW cs, cs \subseteq Chats,
           NEW new, Fewer(new, cs),
           locks.life \in {Nobody, r}, copies' = copies,
           \/ Flushed(new) /\ tally' = [tally EXCEPT !.gone = @ \cup Tombs(cs)]
           \/ FlushFails(new) /\ tally' = tally
    PROVE  /\ StoreMoves(r) /\ Promises' /\ store' \in State /\ disk' \in State
           /\ tally' = [gone |-> tally'.gone, rest |-> tally'.rest, stray |-> tally'.stray]
           /\ tally'.rest = tally.rest /\ tally'.stray = tally.stray
<1>1. /\ new \in State /\ Keeps(new, tally.gone \cup Tombs(cs), copies)
      /\ \A c \in Chats : /\ new.rows[c] = store.rows[c] \/ new.rows[c].kind = "gone"
                          /\ There(new, c) => There(store, c) /\ new.rows[c] = store.rows[c]
  BY WithoutKeeps
<1>2. store \in State /\ disk \in State /\ Keeps(store, tally.gone, copies) /\ Keeps(disk, tally.gone, copies)
      /\ tally = [gone |-> tally.gone, rest |-> tally.rest, stray |-> tally.stray]
  BY DEF CatalogInv, CatalogType, Promises
<1>3. tally' = [gone |-> tally'.gone, rest |-> tally'.rest, stray |-> tally'.stray]
      /\ tally'.rest = tally.rest /\ tally'.stray = tally.stray
      /\ tally'.gone \in {tally.gone, tally.gone \cup Tombs(cs)}
  <2>1. PICK g : g = tally.gone \cup Tombs(cs)
    OBVIOUS
  <2>2. tally' = [tally EXCEPT !.gone = g] \/ tally' = tally
    BY <2>1
  <2> QED
    BY <1>2, <2>1, <2>2
<1>4. store' \in {store, new} /\ disk' \in {disk, new} /\ (tally'.gone = tally.gone \/ (store' = new /\ disk' = new))
  BY <1>3 DEF Flushed, FlushFails
<1>5. Keeps(new, tally.gone, copies)
  BY <1>1 DEF Keeps
<1>6. Promises'
  <2>1. Keeps(store', tally'.gone, copies') /\ Keeps(disk', tally'.gone, copies')
    BY <1>1, <1>2, <1>3, <1>4, <1>5
  <2> QED
    BY <2>1 DEF Promises, Keeps, There
<1>7. StoreMoves(r)
  <2>1. CASE store' = store
    BY <2>1, StoreStays
  <2>2. CASE store' = new
    BY <2>2, <1>1 DEF StoreMoves, There
  <2> QED
    BY <1>4, <2>1, <2>2
<1> QED
  BY <1>1, <1>2, <1>3, <1>4, <1>6, <1>7

\* A force given over REST is one more that may be loose.
LEMMA Authorizes ==
    ASSUME CatalogInv, NEW r \in Requests, NEW e, job' = [job EXCEPT ![r] = e],
           job[r].kind # "open" \/ job[r].pc \notin Opening, NEW c \in Chats, NEW b \in BOOLEAN, Authorize(c, b)
    PROVE  /\ Owned' /\ Balanced' /\ force' \in [Chats -> [armed : BOOLEAN, owner : Somebody]]
           /\ tally' = [gone |-> tally'.gone, rest |-> tally'.rest, stray |-> tally'.stray]
           /\ tally'.rest \in Nat /\ tally'.stray \in Nat /\ tally'.gone = tally.gone
<1>1. CASE ~b
  <2>1. force' = force /\ tally' = tally
    BY <1>1 DEF Authorize
  <2> QED
    BY <2>1, ForcesStay, BalanceStays, TallyStays, ForceTyped
<1>2. CASE b
  <2>0. /\ force \in [Chats -> [armed : BOOLEAN, owner : Somebody]] /\ Nobody \in Somebody
        /\ tally = [gone |-> tally.gone, rest |-> tally.rest, stray |-> tally.stray]
        /\ tally.rest \in Nat /\ tally.stray \in Nat /\ tally.stray + Cardinality(Loose) <= tally.rest
    BY DEF CatalogInv, CatalogType, Balanced, Somebody
  <2>1. PICK f : f = [armed |-> TRUE, owner |-> Nobody]
    OBVIOUS
  <2>2. force' = [force EXCEPT ![c] = f] /\ tally' = [tally EXCEPT !.rest = @ + 1]
    BY <1>2, <2>1 DEF Authorize
  <2>3. force'[c] = f /\ \A d \in Chats \ {c} : force'[d] = force[d]
    BY <2>0, <2>2
  <2>4. tally' = [gone |-> tally.gone, rest |-> tally.rest + 1, stray |-> tally.stray]
    BY <2>0, <2>2
  <2>5. force' \in [Chats -> [armed : BOOLEAN, owner : Somebody]]
    BY <2>0, <2>1, <2>2
  <2>6. Owned'
    <3>1. job'[r] = e /\ \A q \in Requests \ {r} : job'[q] = job[q]
      BY DEF CatalogInv, CatalogType
    <3>2. \A d \in Chats : force[d].owner # Nobody => force[d].owner \in Requests
      BY <2>0 DEF Somebody
    <3>3. \A d \in Chats : force[d].owner # Nobody =>
             job[force[d].owner].kind = "open" /\ job[force[d].owner].pc \in Opening /\ job[force[d].owner].forced
      BY DEF CatalogInv, Owned
    <3> QED
      BY <2>1, <2>3, <3>1, <3>2, <3>3 DEF Owned
  <2>7. Loose' \subseteq Loose \cup {c}
    BY <2>3 DEF Loose
  <2>8. IsFiniteSet(Loose) /\ IsFiniteSet(Loose \cup {c})
    <3>1. IsFiniteSet(Chats) /\ Loose \subseteq Chats /\ Loose \cup {c} \subseteq Chats
      BY CatalogAssumption DEF Loose
    <3> QED
      BY <3>1, FS_Subset
  <2>9. Cardinality(Loose \cup {c}) <= Cardinality(Loose) + 1 /\ Cardinality(Loose) \in Nat
        /\ Cardinality(Loose \cup {c}) \in Nat
    BY <2>8, FS_AddElement, FS_CardinalityType
  <2>10. Cardinality(Loose') <= Cardinality(Loose \cup {c}) /\ Cardinality(Loose') \in Nat
    BY <2>7, <2>8, FS_Subset, FS_CardinalityType
  <2>11. tally'.rest = tally.rest + 1 /\ tally'.stray = tally.stray /\ tally'.gone = tally.gone
    BY <2>4
  <2>12. Balanced'
    <3>1. tally'.stray + Cardinality(Loose') <= tally'.rest
      BY <2>0, <2>9, <2>10, <2>11
    <3> QED
      BY <3>1 DEF Balanced
  <2> QED
    BY <2>0, <2>4, <2>5, <2>6, <2>11, <2>12
<1> QED
  BY <1>1, <1>2

-----------------------------------------------------------------------------
(***************************************************************************)
(* Creating and removing chats.                                            *)
(***************************************************************************)

LEMMA FreshChat == ASSUME NEW c \in NextChat PROVE c \in Chats /\ store.rows[c].kind = "none"
BY DEF NextChat

LEMMA CreateChatStep == ASSUME CatalogInv, NEW r \in Requests, CreateChat(r) PROVE CatalogInv'
<1>1. /\ job[r].kind = "create" /\ job[r].pc = "start" /\ Goes(r, "done") /\ locks' = locks /\ marks' = marks
      /\ live' = live /\ copies' = copies /\ tally' = tally /\ force' = force
  BY DEF CreateChat, Is, NoLocks, NoEngine, NoFiles
<1>2. PICK w \in AnyStep : w = "done"
  BY DEF AnyStep, Steps
<1>3. PICK e \in Job : /\ job' = [job EXCEPT ![r] = e] /\ e.pc = w
                       /\ e.kind = job[r].kind /\ e.todo = job[r].todo
  BY <1>1, <1>2, GoesOn
<1>4. Relies(r, e, store', locks')
  BY <1>2, <1>3, EndedRelies
<1>5. StoreMoves(r) /\ Promises' /\ store' \in State /\ disk' \in State
  <2>1. CASE store' = store /\ disk' = disk
    BY <1>1, <2>1, Unwritten
  <2>2. CASE \E c \in NextChat : LET new == Put(c, Row("native", Unbound, FALSE, FALSE)) IN Flushed(new) \/ FlushFails(new)
    <3>1. PICK c \in NextChat : LET new == Put(c, Row("native", Unbound, FALSE, FALSE)) IN Flushed(new) \/ FlushFails(new)
      BY <2>2
    <3>2. PICK rec : rec = Row("native", Unbound, FALSE, FALSE)
      OBVIOUS
    <3>3. PICK new : new = Put(c, rec)
      OBVIOUS
    <3>4. Flushed(new) \/ FlushFails(new)
      BY <3>1, <3>2, <3>3
    <3>5. rec = [kind |-> "native", d |-> Unbound, own |-> FALSE, auto |-> FALSE]
      BY <3>2 DEF Row
    <3>6. Bindable(r, c, rec)
      BY <3>5, FreshChat DEF Bindable, Stored, Sound, Foreign
    <3> QED
      BY <1>1, <3>3, <3>4, <3>5, <3>6, FreshChat, Puts
  <2> QED
    BY <2>1, <2>2 DEF CreateChat, NoStore
<1>6. job[r].kind # "open" \/ job[r].pc \notin Opening
  BY <1>1
<1> QED
  BY <1>1, <1>3, <1>4, <1>5, <1>6, LocksStay, MarksStay, LiveStays, TallyStays, ForceTyped, CopiesTyped, ForcesStay,
     BalanceStays, Changes

LEMMA DeleteCommitStep == ASSUME CatalogInv, NEW r \in Requests, DeleteCommit(r) PROVE CatalogInv'
<1>0. PICK c : c = job[r].c
  OBVIOUS
<1>1. /\ job[r].kind = "delete" /\ job[r].pc = "commit" /\ Goes(r, "done") /\ locks' = locks /\ Unmarked({c})
      /\ live' = live /\ copies' = copies /\ force' = force /\ locks.life = Nobody
  BY <1>0 DEF DeleteCommit, Is, NoEngine
<1>2. PICK cs : cs = {c}
  OBVIOUS
<1>3. cs \subseteq Chats
  BY <1>0, <1>1, <1>2, OfJob DEF Relies
<1>4. PICK new : new = Without(cs)
  OBVIOUS
<1>5. \/ Flushed(new) /\ tally' = [tally EXCEPT !.gone = @ \cup Tombs(cs)]
      \/ FlushFails(new) /\ tally' = tally
  BY <1>0, <1>2, <1>4 DEF DeleteCommit
<1>6. /\ StoreMoves(r) /\ Promises' /\ store' \in State /\ disk' \in State
      /\ tally' = [gone |-> tally'.gone, rest |-> tally'.rest, stray |-> tally'.stray]
      /\ tally'.rest = tally.rest /\ tally'.stray = tally.stray
  BY <1>1, <1>3, <1>4, <1>5, Removes DEF Fewer
<1>7. PICK w \in AnyStep : w = "done"
  BY DEF AnyStep, Steps
<1>8. PICK e \in Job : /\ job' = [job EXCEPT ![r] = e] /\ e.pc = w
                       /\ e.kind = job[r].kind /\ e.todo = job[r].todo
  BY <1>1, <1>7, GoesOn
<1>9. Relies(r, e, store', locks')
  BY <1>7, <1>8, EndedRelies
<1>10. job[r].kind # "open" \/ job[r].pc \notin Opening
  BY <1>1
<1>11. tally.rest \in Nat /\ tally.stray \in Nat
  BY DEF CatalogInv, CatalogType
<1> QED
  BY <1>1, <1>6, <1>8, <1>9, <1>10, <1>11, LocksStay, MarksMove, LiveStays, ForceTyped, CopiesTyped, ForcesStay,
     BalanceStays, Changes

LEMMA DropCommitStep == ASSUME CatalogInv, NEW r \in Requests, DropCommit(r) PROVE CatalogInv'
<1>1. /\ job[r].kind = "drop" /\ job[r].pc \in {"stop", "late"} /\ Goes(r, "done") /\ Release(r)
      /\ marks' = [marks EXCEPT !.deleting = {}] /\ live' = live /\ copies' = copies /\ force' = force
  BY DEF DropCommit, NoEngine
<1>2. PICK cs : cs = Rows
  OBVIOUS
<1>3. cs \subseteq Chats /\ locks.life = r
  BY <1>1, <1>2, OfJob, RowsAreChats DEF Relies
<1>4. PICK new : new = [Without(cs) EXCEPT !.ws = FALSE]
  OBVIOUS
<1>5. \/ store' = store /\ disk' = disk /\ tally' = tally
      \/ Flushed(new) /\ tally' = [tally EXCEPT !.gone = @ \cup Tombs(cs)]
      \/ FlushFails(new) /\ tally' = tally
  BY <1>2, <1>4 DEF DropCommit, NoStore
<1>6. /\ StoreMoves(r) /\ Promises' /\ store' \in State /\ disk' \in State
      /\ tally' = [gone |-> tally'.gone, rest |-> tally'.rest, stray |-> tally'.stray]
      /\ tally'.rest = tally.rest /\ tally'.stray = tally.stray
  <2>1. CASE store' = store /\ disk' = disk /\ tally' = tally
    BY <1>1, <2>1, Unwritten, TallyStays
  <2>2. CASE \/ Flushed(new) /\ tally' = [tally EXCEPT !.gone = @ \cup Tombs(cs)]
             \/ FlushFails(new) /\ tally' = tally
    BY <1>1, <1>3, <1>4, <2>2, Removes DEF Fewer
  <2> QED
    BY <1>5, <2>1, <2>2
<1>7. PICK w \in AnyStep : w = "done"
  BY DEF AnyStep, Steps
<1>8. PICK e \in Job : /\ job' = [job EXCEPT ![r] = e] /\ e.pc = w
                       /\ e.kind = job[r].kind /\ e.todo = job[r].todo
  BY <1>1, <1>7, GoesOn
<1>9. Relies(r, e, store', locks')
  BY <1>7, <1>8, EndedRelies
<1>10. job[r].kind # "open" \/ job[r].pc \notin Opening
  BY <1>1
<1>11. tally.rest \in Nat /\ tally.stray \in Nat
  BY DEF CatalogInv, CatalogType
<1>12. marks' = [deleting |-> marks'.deleting, ver |-> marks'.ver] /\ marks'.ver \in [Chats -> Nat]
  BY <1>1 DEF CatalogInv, CatalogType
<1> QED
  BY <1>1, <1>6, <1>8, <1>9, <1>10, <1>11, <1>12, Unlocks, LiveStays, ForceTyped, CopiesTyped, ForcesStay,
     BalanceStays, Changes

-----------------------------------------------------------------------------
(***************************************************************************)
(* Adopting a session and opening one in place.                            *)
(***************************************************************************)

LEMMA LookupStep == ASSUME CatalogInv, NEW r \in Requests, Lookup(r) PROVE CatalogInv'
<1>1. /\ job[r].kind \in {"adopt", "inplace"} /\ job[r].pc = "start"
      /\ live' = live /\ store' = store /\ disk' = disk /\ copies' = copies
  BY DEF Lookup, NoEngine, NoStore
<1>2. PICK d \in Durables, forced \in BOOLEAN : LookupEnds(r, d, forced) \/ LookupGoes(r, d, forced)
  BY DEF Lookup
<1>3. job[r].kind # "open" \/ job[r].pc \notin Opening
  BY <1>1
<1>4. RowsOf(d) \subseteq Chats /\ Settled(r, d) \subseteq Chats
  BY DEF RowsOf, Settled
<1>5. CASE Goes(r, "done") /\ locks' = locks /\ marks' = marks /\ force' = force /\ tally' = tally
  BY <1>1, <1>3, <1>5, LocksStay, MarksStay, LiveStays, JustEnds
<1>6. CASE (\E c \in Chats : Authorize(c, forced /\ ~store.rows[c].auto))
           /\ Goes(r, "done") /\ locks' = locks /\ marks' = marks
  <2>1. PICK c \in Chats : Authorize(c, forced /\ ~store.rows[c].auto)
    BY <1>6
  <2>2. PICK b \in BOOLEAN : b = (forced /\ ~store.rows[c].auto)
    OBVIOUS
  <2>3. Authorize(c, b)
    BY <2>1, <2>2
  <2>4. PICK w \in AnyStep : w = "done"
    BY DEF AnyStep, Steps
  <2>5. PICK e \in Job : /\ job' = [job EXCEPT ![r] = e] /\ e.pc = w
                         /\ e.kind = job[r].kind /\ e.todo = job[r].todo
    BY <1>6, <2>4, GoesOn
  <2>6. Relies(r, e, store', locks')
    BY <2>4, <2>5, EndedRelies
  <2>7. /\ Owned' /\ Balanced' /\ force' \in [Chats -> [armed : BOOLEAN, owner : Somebody]]
        /\ tally' = [gone |-> tally'.gone, rest |-> tally'.rest, stray |-> tally'.stray]
        /\ tally'.rest \in Nat /\ tally'.stray \in Nat /\ tally'.gone = tally.gone
    BY <1>3, <2>3, <2>5, Authorizes
  <2>8. StoreMoves(r) /\ Promises' /\ store' \in State /\ disk' \in State
    BY <1>1, <2>7, Unwritten
  <2> QED
    BY <1>1, <1>6, <2>5, <2>6, <2>7, <2>8, LocksStay, MarksStay, LiveStays, CopiesTyped, Changes
<1>7. CASE LookupGoes(r, d, forced)
  <2>0. locks' = [locks EXCEPT !.adopt = r] /\ marks' = marks /\ force' = force /\ tally' = tally
    BY <1>7 DEF LookupGoes
  <2>1. PICK c \in RowsOf(d) \cup {0} :
               job' = [job EXCEPT ![r].pc = IF c = 0 THEN "new" ELSE "check",
                                  ![r].c = c, ![r].d = d, ![r].forced = forced]
    BY <1>7 DEF LookupGoes
  <2>2. PICK w : w = IF c = 0 THEN "new" ELSE "check"
    OBVIOUS
  <2>3. PICK e : e = [job[r] EXCEPT !.pc = w, !.c = c, !.d = d, !.forced = forced]
    OBVIOUS
  <2>4. job' = [job EXCEPT ![r] = e]
    BY <2>1, <2>2, <2>3
  <2>5. w \in AnyStep /\ c \in Chats \cup {0} /\ job[r] \in Job
    BY <1>4, <2>2, OfJob DEF AnyStep, Steps, Taking
  <2>6. e \in Job /\ e.pc = w /\ e.kind = job[r].kind /\ e.c = c /\ e.d = d
    BY <2>3, <2>5 DEF Job
  <2>7. 0 \notin Chats
    BY CatalogAssumption
  <2>8. c # 0 => c \in Chats /\ store.rows[c].kind \notin {"none", "gone"} /\ store.rows[c].d = d
    BY DEF RowsOf, Exists
  <2>9. Relies(r, e, store, locks')
    <3>1. CASE c = 0
      BY <1>1, <2>2, <2>6, <3>1 DEF Relies, Opening, Taking
    <3>2. CASE c # 0
      BY <1>1, <2>2, <2>6, <2>8, <3>2 DEF Relies, Opening, Taking
    <3> QED
      BY <3>1, <3>2
  <2> QED
    BY <1>1, <1>3, <2>0, <2>4, <2>6, <2>9, AdoptTaken, MarksStay, LiveStays, OnlyMoves
<1>8. LookupEnds(r, d, forced) =>
         \/ Goes(r, "done") /\ locks' = locks /\ marks' = marks /\ force' = force /\ tally' = tally
         \/ /\ \E c \in Chats : Authorize(c, forced /\ ~store.rows[c].auto)
            /\ Goes(r, "done") /\ locks' = locks /\ marks' = marks
  BY <1>4 DEF LookupEnds, NoLocks
<1> QED
  BY <1>2, <1>5, <1>6, <1>7, <1>8

LEMMA TakeOverInstallStep == ASSUME CatalogInv, NEW r \in Requests, TakeOverInstall(r) PROVE CatalogInv'
<1>0. PICK c, d, rec : c = job[r].c /\ d = job[r].d /\ rec = store.rows[c]
  OBVIOUS
<1>1. /\ job[r].pc = "install" /\ Goes(r, "done") /\ Release(r) /\ marks' = marks /\ live' = live
  BY DEF TakeOverInstall, NoEngine
<1>2. /\ job[r].kind \in {"adopt", "inplace"} /\ c \in Chats /\ d \in Durables
      /\ rec.kind # "none"
      /\ rec.kind # "gone" => rec.d = d
  BY <1>0, <1>1, OfJob DEF Relies, Taking
<1>3. job[r].kind # "open" \/ job[r].pc \notin Opening
  BY <1>1 DEF Opening
<1>4. PICK w \in AnyStep : w = "done"
  BY DEF AnyStep, Steps
<1>5. PICK e \in Job : /\ job' = [job EXCEPT ![r] = e] /\ e.pc = w
                       /\ e.kind = job[r].kind /\ e.todo = job[r].todo
  BY <1>1, <1>4, GoesOn
<1>6. Relies(r, e, store', locks')
  BY <1>4, <1>5, EndedRelies
<1>7. IF job[r].kind = "adopt" THEN copies' = copies \cup {d} /\ force' = force /\ tally' = tally
      ELSE copies' = copies /\ Authorize(c, job[r].forced /\ rec.kind # "native")
  BY <1>0 DEF TakeOverInstall
<1>8. PICK b \in BOOLEAN : b = (job[r].forced /\ rec.kind # "native")
  BY <1>0, OfJob DEF Job
<1>9. /\ Owned' /\ Balanced' /\ force' \in [Chats -> [armed : BOOLEAN, owner : Somebody]]
      /\ tally' = [gone |-> tally'.gone, rest |-> tally'.rest, stray |-> tally'.stray]
      /\ tally'.rest \in Nat /\ tally'.stray \in Nat /\ tally'.gone = tally.gone
  <2>1. CASE job[r].kind = "adopt"
    BY <1>3, <1>5, <1>7, <2>1, ForcesStay, BalanceStays, TallyStays, ForceTyped
  <2>2. CASE job[r].kind # "adopt"
    <3>1. Authorize(c, b)
      BY <1>7, <1>8, <2>2
    <3> QED
      BY <1>2, <1>3, <1>5, <3>1, Authorizes
  <2> QED
    BY <2>1, <2>2
<1>10. copies \subseteq copies' /\ copies' \subseteq Durables
  BY <1>2, <1>7, CopiesTyped
<1>11. StoreMoves(r) /\ Promises' /\ store' \in State /\ disk' \in State
  <2>1. CASE Exists(c)
    <3>1. PICK to : to = IF job[r].kind = "adopt" THEN [rec EXCEPT !.kind = "adopted", !.own = TRUE, !.d = d]
                         ELSE IF rec.kind = "native" THEN [rec EXCEPT !.d = d]
                         ELSE [rec EXCEPT !.kind = "inplace", !.own = FALSE, !.d = d]
      OBVIOUS
    <3>2. PICK new : new = Put(c, to)
      OBVIOUS
    <3>3. Flushed(new) \/ FlushFails(new)
      <4>1. LET n == IF job[r].kind = "adopt" THEN Put(c, [rec EXCEPT !.kind = "adopted", !.own = TRUE, !.d = d])
                     ELSE IF rec.kind = "native" THEN Put(c, [rec EXCEPT !.d = d])
                     ELSE Put(c, [rec EXCEPT !.kind = "inplace", !.own = FALSE, !.d = d])
            IN  Flushed(n) \/ FlushFails(n)
        BY <1>0, <2>1 DEF TakeOverInstall
      <4>2. new = IF job[r].kind = "adopt" THEN Put(c, [rec EXCEPT !.kind = "adopted", !.own = TRUE, !.d = d])
                  ELSE IF rec.kind = "native" THEN Put(c, [rec EXCEPT !.d = d])
                  ELSE Put(c, [rec EXCEPT !.kind = "inplace", !.own = FALSE, !.d = d])
        BY <3>1, <3>2
      <4> QED
        BY <4>1, <4>2
    <3>4. rec \in Stored /\ There(store, c) /\ rec.d = d
      <4>1. store \in State
        BY DEF CatalogInv, CatalogType
      <4> QED
        BY <1>0, <1>2, <2>1, <4>1 DEF State, Exists, There
    <3>5. to \in Stored /\ to.kind \notin {"none", "gone"} /\ to.d = d /\ to.auto = rec.auto
      <4>1. rec \in [kind : {"none", "native", "legacy", "adopted", "inplace", "gone"}, d : Durables \cup {Unbound},
                     own : BOOLEAN, auto : BOOLEAN] /\ Sound(rec) /\ rec.kind \notin {"none", "gone"}
        BY <1>0, <3>4 DEF Stored, There
      <4>2. CASE job[r].kind = "adopt"
        <5>1. to = [kind |-> "adopted", d |-> d, own |-> TRUE, auto |-> rec.auto]
          BY <3>1, <4>1, <4>2
        <5> QED
          BY <1>2, <4>1, <5>1 DEF Stored, Sound, Foreign
      <4>3. CASE job[r].kind # "adopt" /\ rec.kind = "native"
        <5>1. to = [kind |-> "native", d |-> d, own |-> rec.own, auto |-> rec.auto]
          BY <3>1, <4>1, <4>3
        <5> QED
          BY <1>2, <4>1, <4>3, <5>1 DEF Stored, Sound, Foreign
      <4>4. CASE job[r].kind # "adopt" /\ rec.kind # "native"
        <5>1. to = [kind |-> "inplace", d |-> d, own |-> FALSE, auto |-> rec.auto]
          BY <3>1, <4>1, <4>4
        <5> QED
          BY <1>2, <4>1, <5>1 DEF Stored, Sound, Foreign
      <4> QED
        BY <4>2, <4>3, <4>4
    <3>6. to.own => to.d \in copies'
      <4>1. CASE job[r].kind = "adopt"
        BY <1>7, <3>5, <4>1
      <4>2. CASE job[r].kind # "adopt"
        <5>1. ~to.own
          <6>1. rec.kind = "native" => ~rec.own
            BY <3>4 DEF Stored, Sound, Foreign
          <6>2. rec \in [kind : {"none", "native", "legacy", "adopted", "inplace", "gone"}, d : Durables \cup {Unbound},
                         own : BOOLEAN, auto : BOOLEAN]
            BY <3>4 DEF Stored
          <6> QED
            BY <3>1, <4>2, <6>1, <6>2
        <5> QED
          BY <5>1
      <4> QED
        BY <4>1, <4>2
    <3>7. Bindable(r, c, to)
      BY <1>0, <3>4, <3>5 DEF Bindable
    <3> QED
      BY <1>2, <1>9, <1>10, <3>2, <3>3, <3>6, <3>7, Puts
  <2>2. CASE ~Exists(c)
    <3>1. store' = store /\ disk' = disk
      BY <1>0, <2>2 DEF TakeOverInstall, NoStore
    <3> QED
      BY <1>9, <1>10, <3>1, Unwritten
  <2> QED
    BY <2>1, <2>2
<1> QED
  BY <1>1, <1>5, <1>6, <1>9, <1>10, <1>11, Unlocks, MarksStay, LiveStays, Changes

LEMMA NewRowStep == ASSUME CatalogInv, NEW r \in Requests, NewRow(r) PROVE CatalogInv'
<1>0. PICK d : d = job[r].d
  OBVIOUS
<1>1. /\ job[r].pc = "new" /\ Goes(r, "done") /\ Release(r) /\ marks' = marks /\ live' = live
  BY DEF NewRow, NoEngine
<1>2. job[r].kind \in {"adopt", "inplace"} /\ d \in Durables
  BY <1>0, <1>1, OfJob DEF Relies
<1>3. job[r].kind # "open" \/ job[r].pc \notin Opening
  BY <1>1 DEF Opening
<1>4. PICK w \in AnyStep : w = "done"
  BY DEF AnyStep, Steps
<1>5. PICK e \in Job : /\ job' = [job EXCEPT ![r] = e] /\ e.pc = w
                       /\ e.kind = job[r].kind /\ e.todo = job[r].todo
  BY <1>1, <1>4, GoesOn
<1>6. Relies(r, e, store', locks')
  BY <1>4, <1>5, EndedRelies
<1>7. PICK adopt \in BOOLEAN : adopt = (job[r].kind = "adopt")
  OBVIOUS
<1>8. PICK rec : rec = Row(IF adopt THEN "adopted" ELSE "inplace", d, adopt, FALSE)
  OBVIOUS
<1>9. PICK c \in NextChat :
         /\ IF adopt THEN copies' = copies \cup {d} /\ force' = force /\ tally' = tally
            ELSE copies' = copies /\ Authorize(c, job[r].forced)
         /\ IF store.ws THEN Flushed(Put(c, rec)) \/ FlushFails(Put(c, rec)) ELSE NoStore
  BY <1>0, <1>7, <1>8 DEF NewRow
<1>10. c \in Chats /\ store.rows[c].kind = "none"
  BY FreshChat
<1>11. /\ Owned' /\ Balanced' /\ force' \in [Chats -> [armed : BOOLEAN, owner : Somebody]]
       /\ tally' = [gone |-> tally'.gone, rest |-> tally'.rest, stray |-> tally'.stray]
       /\ tally'.rest \in Nat /\ tally'.stray \in Nat /\ tally'.gone = tally.gone
  <2>1. CASE adopt
    BY <1>3, <1>5, <1>9, <2>1, ForcesStay, BalanceStays, TallyStays, ForceTyped
  <2>2. CASE ~adopt
    <3>1. PICK b \in BOOLEAN : b = job[r].forced
      BY OfJob DEF Job
    <3>2. Authorize(c, b)
      BY <1>9, <2>2, <3>1
    <3> QED
      BY <1>3, <1>5, <1>10, <3>2, Authorizes
  <2> QED
    BY <2>1, <2>2
<1>12. copies \subseteq copies' /\ copies' \subseteq Durables
  BY <1>2, <1>9, CopiesTyped
<1>13. rec = [kind |-> IF adopt THEN "adopted" ELSE "inplace", d |-> d, own |-> adopt, auto |-> FALSE]
  BY <1>8 DEF Row
<1>14. StoreMoves(r) /\ Promises' /\ store' \in State /\ disk' \in State
  <2>1. CASE store.ws
    <3>1. PICK new : new = Put(c, rec)
      OBVIOUS
    <3>2. Flushed(new) \/ FlushFails(new)
      BY <1>9, <2>1, <3>1
    <3>3. Bindable(r, c, rec)
      BY <1>2, <1>10, <1>13 DEF Bindable, Stored, Sound, Foreign
    <3>4. rec.own => rec.d \in copies'
      BY <1>9, <1>13
    <3> QED
      BY <1>10, <1>11, <1>12, <3>1, <3>2, <3>3, <3>4, Puts
  <2>2. CASE ~store.ws
    BY <1>9, <1>11, <1>12, <2>2, Unwritten DEF NoStore
  <2> QED
    BY <2>1, <2>2
<1> QED
  BY <1>1, <1>5, <1>6, <1>11, <1>12, <1>14, Unlocks, MarksStay, LiveStays, Changes

-----------------------------------------------------------------------------
(***************************************************************************)
(* The tick of the watcher.                                                *)
(***************************************************************************)

LEMMA TickNextStep == ASSUME CatalogInv, NEW r \in Requests, TickNext(r) PROVE CatalogInv'
<1>1. /\ job[r].kind = "tick" /\ job[r].pc = "next" /\ marks' = marks /\ live' = live
      /\ copies' = copies /\ tally' = tally /\ force' = force
  BY DEF TickNext, Is, NoEngine, NoFiles
<1>2. job[r] \in Job /\ job[r].todo \subseteq Durables /\ locks.life = r
  BY <1>1, OfJob DEF Relies
<1>3. job[r].kind # "open" \/ job[r].pc \notin Opening
  BY <1>1
<1>4. PICK new : new = [store EXCEPT !.ws = TRUE]
  OBVIOUS
<1>5. CASE Goes(r, "done") /\ Release(r) /\ (NoStore \/ FlushFails(new))
  <2>1. PICK w \in AnyStep : w = "done"
    BY DEF AnyStep, Steps
  <2>2. PICK e \in Job : /\ job' = [job EXCEPT ![r] = e] /\ e.pc = w
                         /\ e.kind = job[r].kind /\ e.todo = job[r].todo
    BY <1>5, <2>1, GoesOn
  <2>3. Relies(r, e, store', locks')
    BY <2>1, <2>2, EndedRelies
  <2>4. StoreMoves(r) /\ Promises' /\ store' \in State /\ disk' \in State
    BY <1>1, <1>4, <1>5, Unwritten, Reopens DEF NoStore
  <2> QED
    BY <1>1, <1>3, <1>5, <2>2, <2>3, <2>4, Unlocks, MarksStay, LiveStays, TallyStays, ForceTyped, CopiesTyped, ForcesStay,
       BalanceStays, Changes
<1>6. CASE \E d \in job[r].todo : /\ job' = [job EXCEPT ![r].todo = @ \ {d}]
                                  /\ NoStore /\ locks' = locks
  <2>1. PICK d \in job[r].todo : job' = [job EXCEPT ![r].todo = @ \ {d}]
    BY <1>6
  <2>2. PICK t : t = job[r].todo \ {d}
    OBVIOUS
  <2>3. PICK e : e = [job[r] EXCEPT !.todo = t]
    OBVIOUS
  <2>4. e \in Job /\ e.pc = "next" /\ e.kind = "tick" /\ e.todo = t
    BY <1>1, <1>2, <2>2, <2>3 DEF Job
  <2>5. job' = [job EXCEPT ![r] = e]
    BY <2>1, <2>2, <2>3
  <2>6. Relies(r, e, store, locks')
    BY <1>2, <1>6, <2>2, <2>4 DEF Relies, Opening, Taking
  <2>7. store' = store /\ disk' = disk
    BY <1>6 DEF NoStore
  <2> QED
    BY <1>1, <1>3, <1>6, <2>4, <2>5, <2>6, <2>7, LocksStay, MarksStay, LiveStays, OnlyMoves
<1>7. CASE \E d \in job[r].todo \ store.tomb :
              /\ NoStore \/ Flushed(new)
              /\ job' = [job EXCEPT ![r].pc = "match", ![r].d = d, ![r].todo = @ \ {d}]
              /\ locks' = locks
  <2>1. PICK d \in job[r].todo \ store.tomb :
           job' = [job EXCEPT ![r].pc = "match", ![r].d = d, ![r].todo = @ \ {d}]
    BY <1>7
  <2>2. PICK t : t = job[r].todo \ {d}
    OBVIOUS
  <2>3. PICK e : e = [job[r] EXCEPT !.pc = "match", !.d = d, !.todo = t]
    OBVIOUS
  <2>4. e \in Job /\ e.pc = "match" /\ e.kind = "tick" /\ e.todo = t /\ e.d = d
    <3>1. "match" \in AnyStep /\ d \in Durables /\ t \in SUBSET (Chats \cup Durables)
      BY <1>2, <2>2 DEF AnyStep, Steps, Job
    <3> QED
      BY <1>1, <1>2, <2>3, <3>1 DEF Job
  <2>5. job' = [job EXCEPT ![r] = e]
    BY <2>1, <2>2, <2>3
  <2>6. /\ StoreMoves(r) /\ Promises' /\ store' \in State /\ disk' \in State
        /\ store'.tomb = store.tomb
    <3>1. CASE NoStore
      BY <1>1, <3>1, Unwritten DEF NoStore
    <3>2. CASE Flushed(new)
      BY <1>1, <1>4, <3>2, Reopens
    <3> QED
      BY <1>7, <3>1, <3>2
  <2>7. Relies(r, e, store', locks')
    BY <1>2, <1>7, <2>2, <2>4, <2>6 DEF Relies, Opening, Taking
  <2> QED
    BY <1>1, <1>3, <1>7, <2>4, <2>5, <2>6, <2>7, LocksStay, MarksStay, LiveStays, TallyStays, ForceTyped, CopiesTyped,
       ForcesStay, BalanceStays, Changes
<1>8. \/ Goes(r, "done") /\ Release(r) /\ (NoStore \/ FlushFails(new))
      \/ \E d \in job[r].todo : job' = [job EXCEPT ![r].todo = @ \ {d}] /\ NoStore /\ locks' = locks
      \/ \E d \in job[r].todo \ store.tomb :
            /\ NoStore \/ Flushed(new)
            /\ job' = [job EXCEPT ![r].pc = "match", ![r].d = d, ![r].todo = @ \ {d}]
            /\ locks' = locks
  <2>1. CASE job[r].todo = {} /\ Goes(r, "done") /\ Release(r) /\ NoStore
    BY <2>1
  <2>2. CASE \E d \in job[r].todo :
                IF d \in store.tomb
                THEN job' = [job EXCEPT ![r].todo = @ \ {d}] /\ NoStore /\ locks' = locks
                ELSE \/ /\ IF store.ws THEN NoStore ELSE Flushed(new)
                        /\ job' = [job EXCEPT ![r].pc = "match", ![r].d = d, ![r].todo = @ \ {d}]
                        /\ locks' = locks
                     \/ ~store.ws /\ FlushFails(new) /\ Goes(r, "done") /\ Release(r)
    <3>1. PICK d \in job[r].todo :
             IF d \in store.tomb
             THEN job' = [job EXCEPT ![r].todo = @ \ {d}] /\ NoStore /\ locks' = locks
             ELSE \/ /\ IF store.ws THEN NoStore ELSE Flushed(new)
                     /\ job' = [job EXCEPT ![r].pc = "match", ![r].d = d, ![r].todo = @ \ {d}]
                     /\ locks' = locks
                  \/ ~store.ws /\ FlushFails(new) /\ Goes(r, "done") /\ Release(r)
      BY <2>2
    <3>2. CASE d \in store.tomb
      BY <3>1, <3>2
    <3>3. CASE d \notin store.tomb
      <4>1. d \in job[r].todo \ store.tomb
        BY <3>3
      <4> QED
        BY <3>1, <3>3, <4>1
    <3> QED
      BY <3>2, <3>3
  <2> QED
    BY <1>4, <2>1, <2>2 DEF TickNext
<1> QED
  BY <1>5, <1>6, <1>7, <1>8

LEMMA TickMatchStep == ASSUME CatalogInv, NEW r \in Requests, TickMatch(r) PROVE CatalogInv'
<1>0. PICK d : d = job[r].d
  OBVIOUS
<1>1. /\ job[r].kind = "tick" /\ job[r].pc = "match" /\ marks' = marks /\ live' = live
      /\ copies' = copies /\ tally' = tally /\ force' = force
  BY DEF TickMatch, Is, NoEngine, NoFiles
<1>2. /\ job[r] \in Job /\ job[r].todo \subseteq Durables /\ locks.life = r
      /\ d \in Durables /\ d \notin store.tomb
  BY <1>0, <1>1, OfJob DEF Relies
<1>3. job[r].kind # "open" \/ job[r].pc \notin Opening
  BY <1>1
<1>4. CASE RowsOf(d) = {} /\ Goes(r, "save") /\ NoStore /\ locks' = locks
  <2>1. PICK w \in AnyStep : w = "save"
    BY DEF AnyStep, Steps
  <2>2. PICK e \in Job : /\ job' = [job EXCEPT ![r] = e] /\ e.pc = w
                         /\ e.kind = job[r].kind /\ e.todo = job[r].todo /\ e.d = job[r].d
    BY <1>4, <2>1, GoesOn
  <2>3. \A c \in Chats : There(store, c) => store.rows[c].d # d
    BY <1>4 DEF RowsOf, Exists, There
  <2>4. Relies(r, e, store, locks')
    BY <1>0, <1>1, <1>2, <1>4, <2>1, <2>2, <2>3 DEF Relies, Opening, Taking
  <2>5. store' = store /\ disk' = disk
    BY <1>4 DEF NoStore
  <2> QED
    BY <1>1, <1>3, <1>4, <2>2, <2>4, <2>5, LocksStay, MarksStay, LiveStays, OnlyMoves
<1>5. ASSUME Promises', StoreMoves(r), store' \in State, disk' \in State,
             \/ Goes(r, "next") /\ locks' = locks
             \/ Goes(r, "done") /\ Release(r)
      PROVE  CatalogInv'
  <2>1. PICK w \in AnyStep : w \in {"next", "done"} /\ Goes(r, w) /\ (w = "next" => locks' = locks)
                                                   /\ (w = "done" => Release(r))
    BY <1>5 DEF AnyStep, Steps
  <2>2. PICK e \in Job : /\ job' = [job EXCEPT ![r] = e] /\ e.pc = w
                         /\ e.kind = job[r].kind /\ e.todo = job[r].todo
    BY <2>1, GoesOn
  <2>3. locks' \in Locks /\ LocksKept(r)
    BY <2>1, LocksStay, Unlocks
  <2>4. Relies(r, e, store', locks')
    BY <1>1, <1>2, <2>1, <2>2 DEF Relies, Opening, Taking
  <2> QED
    BY <1>1, <1>3, <1>5, <2>2, <2>3, <2>4, MarksStay, LiveStays, TallyStays, ForceTyped, CopiesTyped,
       ForcesStay, BalanceStays, Changes
<1>6. CASE \E c \in RowsOf(d) :
              LET new == Put(c, [store.rows[c] EXCEPT !.own = FALSE]) IN
              IF c \in marks.deleting \/ ~store.rows[c].auto \/ ~store.rows[c].own
              THEN Goes(r, "next") /\ NoStore /\ locks' = locks
              ELSE \/ Flushed(new) /\ Goes(r, "next") /\ locks' = locks
                   \/ FlushFails(new) /\ Goes(r, "done") /\ Release(r)
  <2>1. PICK c \in RowsOf(d) :
           LET new == Put(c, [store.rows[c] EXCEPT !.own = FALSE]) IN
           IF c \in marks.deleting \/ ~store.rows[c].auto \/ ~store.rows[c].own
           THEN Goes(r, "next") /\ NoStore /\ locks' = locks
           ELSE \/ Flushed(new) /\ Goes(r, "next") /\ locks' = locks
                \/ FlushFails(new) /\ Goes(r, "done") /\ Release(r)
    BY <1>6
  <2>2. PICK rec : rec = [store.rows[c] EXCEPT !.own = FALSE]
    OBVIOUS
  <2>3. PICK new : new = Put(c, rec)
    OBVIOUS
  <2>4. \/ Goes(r, "next") /\ NoStore /\ locks' = locks
        \/ /\ Flushed(new) \/ FlushFails(new)
           /\ \/ Goes(r, "next") /\ locks' = locks
              \/ Goes(r, "done") /\ Release(r)
    BY <2>1, <2>2, <2>3
  <2>5. c \in Chats /\ There(store, c) /\ store.rows[c] \in Stored
    <3>1. store \in State
      BY DEF CatalogInv, CatalogType
    <3>2. c \in Chats /\ There(store, c)
      BY DEF RowsOf, Exists, There
    <3> QED
      BY <3>1, <3>2 DEF State
  <2>6. rec = [kind |-> store.rows[c].kind, d |-> store.rows[c].d, own |-> FALSE, auto |-> store.rows[c].auto]
    BY <2>2, <2>5 DEF Stored
  <2>7. Bindable(r, c, rec)
    BY <2>5, <2>6 DEF Bindable, There, Stored, Sound, Foreign
  <2>8. StoreMoves(r) /\ Promises' /\ store' \in State /\ disk' \in State
    <3>1. CASE NoStore
      BY <1>1, <3>1, Unwritten DEF NoStore
    <3>2. CASE Flushed(new) \/ FlushFails(new)
      BY <1>1, <2>3, <2>5, <2>6, <2>7, <3>2, Puts
    <3> QED
      BY <2>4, <3>1, <3>2
  <2> QED
    BY <2>4, <2>8, <1>5
<1> QED
  BY <1>0, <1>4, <1>6 DEF TickMatch

LEMMA TickSaveStep == ASSUME CatalogInv, NEW r \in Requests, TickSave(r) PROVE CatalogInv'
<1>0. PICK d : d = job[r].d
  OBVIOUS
<1>1. /\ job[r].kind = "tick" /\ job[r].pc = "save" /\ marks' = marks /\ live' = live
      /\ copies' = copies /\ tally' = tally /\ force' = force
  BY DEF TickSave, Is, NoEngine, NoFiles
<1>2. /\ job[r] \in Job /\ job[r].todo \subseteq Durables /\ locks.life = r
      /\ d \in Durables /\ d \notin store.tomb
      /\ \A c \in Chats : There(store, c) /\ store.rows[c].auto => store.rows[c].d # d
  BY <1>0, <1>1, OfJob DEF Relies
<1>3. job[r].kind # "open" \/ job[r].pc \notin Opening
  BY <1>1
<1>4. PICK rec : rec = Row("inplace", d, FALSE, TRUE)
  OBVIOUS
<1>5. PICK c \in NextChat :
         \/ store.ws /\ Flushed(Put(c, rec)) /\ Goes(r, "next") /\ locks' = locks
         \/ /\ IF store.ws THEN FlushFails(Put(c, rec)) ELSE NoStore
            /\ Goes(r, "done") /\ Release(r)
  BY <1>0, <1>4 DEF TickSave
<1>6. PICK new : new = Put(c, rec)
  OBVIOUS
<1>7. rec = [kind |-> "inplace", d |-> d, own |-> FALSE, auto |-> TRUE]
  BY <1>4 DEF Row
<1>8. c \in Chats /\ store.rows[c].kind = "none"
  BY FreshChat
<1>9. Bindable(r, c, rec)
  BY <1>2, <1>7, <1>8 DEF Bindable, Stored, Sound, Foreign
<1>10. StoreMoves(r) /\ Promises' /\ store' \in State /\ disk' \in State
  <2>1. CASE NoStore
    BY <1>1, <2>1, Unwritten DEF NoStore
  <2>2. CASE Flushed(new) \/ FlushFails(new)
    BY <1>1, <1>6, <1>7, <1>8, <1>9, <2>2, Puts
  <2> QED
    BY <1>5, <1>6, <2>1, <2>2
<1>11. PICK w \in AnyStep : w \in {"next", "done"} /\ Goes(r, w) /\ (w = "next" => locks' = locks)
                                                   /\ (w = "done" => Release(r))
  BY <1>5 DEF AnyStep, Steps
<1>12. PICK e \in Job : /\ job' = [job EXCEPT ![r] = e] /\ e.pc = w
                        /\ e.kind = job[r].kind /\ e.todo = job[r].todo
  BY <1>11, GoesOn
<1>13. locks' \in Locks /\ LocksKept(r)
  BY <1>11, LocksStay, Unlocks
<1>14. Relies(r, e, store', locks')
  BY <1>1, <1>2, <1>11, <1>12 DEF Relies, Opening, Taking
<1> QED
  BY <1>1, <1>3, <1>10, <1>12, <1>13, <1>14, MarksStay, LiveStays, TallyStays, ForceTyped, CopiesTyped,
     ForcesStay, BalanceStays, Changes

-----------------------------------------------------------------------------
(***************************************************************************)
(* Opening a chat.                                                         *)
(***************************************************************************)

\* However an opening ends, it leaves its locks and its force.
LEMMA OpeningEnds ==
    ASSUME CatalogInv, NEW r \in Requests, OpenEnds(r),
           StoreMoves(r), Promises', store' \in State, disk' \in State,
           marks' = marks, live' \subseteq Durables, copies' \subseteq Durables, tally' = tally
    PROVE  CatalogInv'
<1>1. Goes(r, "done") /\ Release(r) /\ force' = Disarm(r)
  BY DEF OpenEnds
<1>2. PICK w \in AnyStep : w = "done"
  BY DEF AnyStep, Steps
<1>3. PICK e \in Job : /\ job' = [job EXCEPT ![r] = e] /\ e.pc = w
                       /\ e.kind = job[r].kind /\ e.todo = job[r].todo
  BY <1>1, <1>2, GoesOn
<1>4. Relies(r, e, store', locks')
  BY <1>2, <1>3, EndedRelies
<1>5. Owned' /\ force' \in [Chats -> [armed : BOOLEAN, owner : Somebody]] /\ Balanced'
  BY <1>1, <1>3, Disarms
<1> QED
  BY <1>1, <1>3, <1>4, <1>5, Unlocks, MarksStay, TallyStays, Changes

\* An opening goes on with its force.
LEMMA OpeningGoes ==
    ASSUME CatalogInv, NEW r \in Requests, NEW e \in Job, job' = [job EXCEPT ![r] = e],
           job[r].kind = "open", job[r].pc \in Opening,
           e.kind = "open", e.pc \in Opening, e.forced = job[r].forced,
           locks' \in Locks, LocksKept(r), Relies(r, e, store', locks'),
           StoreMoves(r), Promises', store' \in State, disk' \in State,
           marks' = marks, live' \subseteq Durables, copies' \subseteq Durables, tally' = tally, force' = force
    PROVE  CatalogInv'
<1>1. Owned' /\ Balanced'
  BY ForcesStay, BalanceStays
<1> QED
  BY <1>1, MarksStay, TallyStays, ForceTyped, Changes

\* What an opening relies on between its steps.
LEMMA OfOpening ==
    ASSUME CatalogInv, NEW r \in Requests, job[r].kind = "open", job[r].pc \in Opening
    PROVE  /\ job[r].c \in Chats /\ store.rows[job[r].c].kind # "none"
           /\ job[r].pc # "enter" => locks.permit[job[r].c] = r
           /\ job[r].pc = "persist" =>
                 /\ job[r].d \in Durables
                 /\ store.rows[job[r].c].kind # "gone" => store.rows[job[r].c].d \in {Unbound, job[r].d}
BY OfJob DEF Relies

LEMMA OpenEnterStep == ASSUME CatalogInv, NEW r \in Requests, OpenEnter(r) PROVE CatalogInv'
<1>0. PICK c : c = job[r].c
  OBVIOUS
<1>1. /\ job[r].kind = "open" /\ job[r].pc = "enter" /\ locks.permit[c] = Nobody /\ marks' = marks /\ live' = live
      /\ store' = store /\ disk' = disk /\ copies' = copies /\ tally' = tally
  BY <1>0 DEF OpenEnter, Is, NoEngine, NoStore
<1>2. c \in Chats /\ store.rows[c].kind # "none" /\ job[r].pc \in Opening
  BY <1>0, <1>1, OfOpening DEF Opening
<1>3. StoreMoves(r) /\ Promises' /\ store' \in State /\ disk' \in State
  BY <1>1, Unwritten
<1>4. CASE OpenEnds(r)
  BY <1>1, <1>3, <1>4, LiveStays, CopiesTyped, OpeningEnds
<1>5. CASE locks' = [locks EXCEPT !.permit[c] = r] /\ Goes(r, "cursor") /\ force' = force
  <2>1. PICK w \in AnyStep : w = "cursor"
    BY DEF AnyStep, Opening
  <2>2. PICK e \in Job : /\ job' = [job EXCEPT ![r] = e] /\ e.pc = w
                         /\ e.kind = job[r].kind /\ e.c = job[r].c /\ e.forced = job[r].forced
    BY <1>5, <2>1, GoesOn
  <2>3. locks' \in Locks /\ LocksKept(r) /\ locks'.permit[c] = r
    BY <1>1, <1>2, <1>5, PermitTaken
  <2>4. Relies(r, e, store', locks')
    BY <1>0, <1>1, <1>2, <2>1, <2>2, <2>3 DEF Relies
  <2>5. e.pc \in Opening
    BY <2>1, <2>2 DEF Opening
  <2> QED
    BY <1>1, <1>2, <1>3, <1>5, <2>2, <2>3, <2>4, <2>5, LiveStays, CopiesTyped, OpeningGoes
<1> QED
  BY <1>0, <1>4, <1>5 DEF OpenEnter

LEMMA OpenMigrateStep == ASSUME CatalogInv, NEW r \in Requests, OpenMigrate(r) PROVE CatalogInv'
<1>0. PICK c, rec : c = job[r].c /\ rec = store.rows[c]
  OBVIOUS
<1>1. /\ job[r].kind = "open" /\ job[r].pc = "cursor" /\ Exists(c) /\ rec.kind \in {"legacy", "adopted"}
      /\ marks' = marks /\ live' = live /\ tally' = tally
  BY <1>0 DEF OpenMigrate, Is, NoEngine
<1>2. c \in Chats /\ store.rows[c].kind # "none" /\ locks.permit[c] = r /\ job[r].pc \in Opening
  BY <1>0, <1>1, OfOpening DEF Opening
<1>3. PICK to : to = [rec EXCEPT !.kind = "adopted", !.own = TRUE]
  OBVIOUS
<1>4. PICK new : new = Put(c, to)
  OBVIOUS
<1>5. \/ /\ copies' = copies \cup {rec.d}
         /\ \/ Flushed(new) /\ Goes(r, "engine") /\ force' = force /\ locks' = locks
            \/ FlushFails(new) /\ OpenEnds(r)
      \/ OpenEnds(r) /\ NoStore /\ copies' = copies
  BY <1>0, <1>3, <1>4 DEF OpenMigrate
<1>6. rec \in Stored /\ There(store, c)
  <2>1. store \in State
    BY DEF CatalogInv, CatalogType
  <2> QED
    BY <1>0, <1>1, <1>2, <2>1 DEF State, Exists, There
<1>7. rec.d \in Durables /\ to = [kind |-> "adopted", d |-> rec.d, own |-> TRUE, auto |-> rec.auto]
  BY <1>1, <1>3, <1>6 DEF Stored, Sound, Foreign
<1>8. Bindable(r, c, to)
  BY <1>0, <1>6, <1>7 DEF Bindable, There, Stored, Sound, Foreign
<1>9. copies \subseteq copies' /\ copies' \subseteq Durables
  BY <1>5, <1>7, CopiesTyped
<1>10. CASE NoStore /\ OpenEnds(r)
  <2>1. StoreMoves(r) /\ Promises' /\ store' \in State /\ disk' \in State
    BY <1>1, <1>9, <1>10, Unwritten DEF NoStore
  <2> QED
    BY <1>1, <1>9, <1>10, <2>1, LiveStays, OpeningEnds
<1>11. CASE /\ copies' = copies \cup {rec.d} /\ (Flushed(new) \/ FlushFails(new))
            /\ \/ Goes(r, "engine") /\ force' = force /\ locks' = locks
               \/ OpenEnds(r)
  <2>1. StoreMoves(r) /\ Promises' /\ store' \in State /\ disk' \in State
        /\ (store' = store \/ (store'.rows[c] = to /\ store'.tomb = store.tomb))
    BY <1>1, <1>2, <1>4, <1>7, <1>8, <1>9, <1>11, Puts
  <2>2. CASE OpenEnds(r)
    BY <1>1, <1>9, <2>1, <2>2, LiveStays, OpeningEnds
  <2>3. CASE Goes(r, "engine") /\ force' = force /\ locks' = locks
    <3>1. PICK w \in AnyStep : w = "engine"
      BY DEF AnyStep, Opening
    <3>2. PICK e \in Job : /\ job' = [job EXCEPT ![r] = e] /\ e.pc = w
                           /\ e.kind = job[r].kind /\ e.c = job[r].c /\ e.forced = job[r].forced
      BY <2>3, <3>1, GoesOn
    <3>3. locks' \in Locks /\ LocksKept(r)
      BY <2>3, LocksStay
    <3>4. store'.rows[c].kind # "none"
      BY <1>2, <1>7, <2>1
    <3>5. Relies(r, e, store', locks')
      BY <1>0, <1>1, <1>2, <2>3, <3>1, <3>2, <3>4 DEF Relies
    <3>6. e.pc \in Opening
      BY <3>1, <3>2 DEF Opening
    <3> QED
      BY <1>1, <1>2, <1>9, <2>1, <2>3, <3>2, <3>3, <3>5, <3>6, LiveStays, OpeningGoes
  <2> QED
    BY <1>11, <2>2, <2>3
<1> QED
  BY <1>5, <1>10, <1>11

\* The bit that is taken at the gate is loose, or the opening's own: then it asked for it.
LEMMA ForceTaken ==
    ASSUME CatalogInv, NEW r \in Requests, NEW e, job' = [job EXCEPT ![r] = e], NEW c \in Chats, MayForce(r, c),
           e.kind = "open", e.pc \in Opening, e.forced = job[r].forced,
           force' = [force EXCEPT ![c] = [armed |-> FALSE, owner |-> Nobody]],
           tally' = IF job[r].forced THEN tally ELSE [tally EXCEPT !.stray = @ + 1]
    PROVE  /\ Owned' /\ Balanced' /\ force' \in [Chats -> [armed : BOOLEAN, owner : Somebody]]
           /\ tally' = [gone |-> tally'.gone, rest |-> tally'.rest, stray |-> tally'.stray]
           /\ tally'.rest \in Nat /\ tally'.stray \in Nat /\ tally'.gone = tally.gone
<1>1. /\ force \in [Chats -> [armed : BOOLEAN, owner : Somebody]] /\ Nobody \in Somebody /\ r # Nobody
      /\ tally = [gone |-> tally.gone, rest |-> tally.rest, stray |-> tally.stray]
      /\ tally.rest \in Nat /\ tally.stray \in Nat /\ tally.stray + Cardinality(Loose) <= tally.rest
  BY CatalogAssumption DEF CatalogInv, CatalogType, Balanced, Somebody, Nobody
<1>2. PICK f : f = [armed |-> FALSE, owner |-> Nobody]
  OBVIOUS
<1>3. /\ force' \in [Chats -> [armed : BOOLEAN, owner : Somebody]]
      /\ force'[c] = f /\ \A d \in Chats \ {c} : force'[d] = force[d]
  BY <1>1, <1>2
<1>4. \A d \in Chats : force[d].owner # Nobody => force[d].owner \in Requests /\
         job[force[d].owner].kind = "open" /\ job[force[d].owner].pc \in Opening /\ job[force[d].owner].forced
  BY <1>1 DEF CatalogInv, Owned, Somebody
<1>5. job'[r] = e /\ \A q \in Requests \ {r} : job'[q] = job[q]
  BY DEF CatalogInv, CatalogType
<1>6. Owned'
  BY <1>2, <1>3, <1>4, <1>5 DEF Owned
<1>7. /\ tally' = [gone |-> tally'.gone, rest |-> tally'.rest, stray |-> tally'.stray]
      /\ tally'.rest = tally.rest /\ tally'.gone = tally.gone
      /\ tally'.stray \in {tally.stray, tally.stray + 1} /\ (job[r].forced => tally'.stray = tally.stray)
  BY <1>1
<1>8. IsFiniteSet(Loose)
  <2>1. IsFiniteSet(Chats) /\ Loose \subseteq Chats
    BY CatalogAssumption DEF Loose
  <2> QED
    BY <2>1, FS_Subset
<1>9. Balanced'
  <2>1. CASE force[c].owner = r
    <3>1. job[r].forced
      BY <1>1, <1>4, <2>1
    <3>2. Loose' = Loose
      BY <1>1, <1>2, <1>3, <2>1 DEF Loose
    <3> QED
      BY <1>1, <1>7, <3>1, <3>2 DEF Balanced
  <2>2. CASE force[c].owner = Nobody
    <3>1. c \in Loose /\ Loose' = Loose \ {c}
      BY <1>2, <1>3, <2>2 DEF Loose, MayForce
    <3>2. Cardinality(Loose') = Cardinality(Loose) - 1 /\ Cardinality(Loose) \in Nat
      BY <1>8, <3>1, FS_RemoveElement, FS_CardinalityType
    <3>3. tally'.stray + Cardinality(Loose') <= tally'.rest
      BY <1>1, <1>7, <3>2
    <3> QED
      BY <3>3 DEF Balanced
  <2> QED
    BY <2>1, <2>2 DEF MayForce
<1> QED
  BY <1>1, <1>3, <1>6, <1>7, <1>9

LEMMA OpenGateStep == ASSUME CatalogInv, NEW r \in Requests, OpenGate(r) PROVE CatalogInv'
<1>0. PICK c : c = job[r].c
  OBVIOUS
<1>1. /\ job[r].kind = "open" /\ job[r].pc = "cursor" /\ marks' = marks /\ live' = live
      /\ store' = store /\ disk' = disk /\ copies' = copies
  BY DEF OpenGate, Is, NoEngine, NoStore
<1>2. c \in Chats /\ store.rows[c].kind # "none" /\ locks.permit[c] = r /\ job[r].pc \in Opening
  BY <1>0, <1>1, OfOpening DEF Opening
<1>3. CASE OpenEnds(r) /\ tally' = tally
  <2>1. StoreMoves(r) /\ Promises' /\ store' \in State /\ disk' \in State
    BY <1>1, <1>3, Unwritten
  <2> QED
    BY <1>1, <1>3, <2>1, LiveStays, CopiesTyped, OpeningEnds
<1>4. ASSUME Goes(r, "engine"), locks' = locks
      PROVE  \E e \in Job : /\ job' = [job EXCEPT ![r] = e] /\ e.kind = "open" /\ e.pc \in Opening
                            /\ e.forced = job[r].forced /\ Relies(r, e, store', locks')
  <2>1. PICK w \in AnyStep : w = "engine"
    BY DEF AnyStep, Opening
  <2>2. PICK e \in Job : /\ job' = [job EXCEPT ![r] = e] /\ e.pc = w
                         /\ e.kind = job[r].kind /\ e.c = job[r].c /\ e.forced = job[r].forced
    BY <1>4, <2>1, GoesOn
  <2>3. Relies(r, e, store', locks')
    BY <1>0, <1>1, <1>2, <1>4, <2>1, <2>2 DEF Relies
  <2> QED
    BY <1>1, <2>1, <2>2, <2>3 DEF Opening
<1>5. CASE Goes(r, "engine") /\ force' = force /\ locks' = locks /\ tally' = tally
  <2>1. PICK e \in Job : /\ job' = [job EXCEPT ![r] = e] /\ e.kind = "open" /\ e.pc \in Opening
                         /\ e.forced = job[r].forced /\ Relies(r, e, store', locks')
    BY <1>4, <1>5
  <2>2. StoreMoves(r) /\ Promises' /\ store' \in State /\ disk' \in State
    BY <1>1, <1>5, Unwritten
  <2> QED
    BY <1>1, <1>2, <1>5, <2>1, <2>2, LocksStay, LiveStays, CopiesTyped, OpeningGoes
<1>6. CASE /\ MayForce(r, c) /\ Goes(r, "engine") /\ locks' = locks
           /\ force' = [force EXCEPT ![c] = [armed |-> FALSE, owner |-> Nobody]]
           /\ tally' = IF job[r].forced THEN tally ELSE [tally EXCEPT !.stray = @ + 1]
  <2>1. PICK e \in Job : /\ job' = [job EXCEPT ![r] = e] /\ e.kind = "open" /\ e.pc \in Opening
                         /\ e.forced = job[r].forced /\ Relies(r, e, store', locks')
    BY <1>4, <1>6
  <2>2. /\ Owned' /\ Balanced' /\ force' \in [Chats -> [armed : BOOLEAN, owner : Somebody]]
        /\ tally' = [gone |-> tally'.gone, rest |-> tally'.rest, stray |-> tally'.stray]
        /\ tally'.rest \in Nat /\ tally'.stray \in Nat /\ tally'.gone = tally.gone
    BY <1>2, <1>6, <2>1, ForceTaken
  <2>3. StoreMoves(r) /\ Promises' /\ store' \in State /\ disk' \in State
    BY <1>1, <2>2, Unwritten
  <2> QED
    BY <1>1, <1>6, <2>1, <2>2, <2>3, LocksStay, MarksStay, LiveStays, CopiesTyped, Changes
<1> QED
  BY <1>0, <1>3, <1>5, <1>6 DEF OpenGate

LEMMA OpenEngineStep == ASSUME CatalogInv, NEW r \in Requests, OpenEngine(r) PROVE CatalogInv'
<1>0. PICK c, d : c = job[r].c /\ d = store.rows[c].d
  OBVIOUS
<1>1. /\ job[r].kind = "open" /\ job[r].pc = "engine" /\ marks' = marks
      /\ store' = store /\ disk' = disk /\ copies' = copies /\ tally' = tally
  BY DEF OpenEngine, Is, NoStore
<1>2. c \in Chats /\ store.rows[c].kind # "none" /\ locks.permit[c] = r /\ job[r].pc \in Opening
  BY <1>0, <1>1, OfOpening DEF Opening
<1>3. StoreMoves(r) /\ Promises' /\ store' \in State /\ disk' \in State
  BY <1>1, Unwritten
<1>4. CASE OpenEnds(r) /\ live' = live
  BY <1>1, <1>3, <1>4, LiveStays, CopiesTyped, OpeningEnds
<1>5. CASE /\ \E e \in IF d # Unbound THEN {d} ELSE Durables \ live :
                 live' = live \cup {e} /\ job' = [job EXCEPT ![r].pc = "persist", ![r].d = e]
           /\ force' = force /\ locks' = locks
  <2>1. PICK s : /\ s \in IF d # Unbound THEN {d} ELSE Durables \ live
                 /\ live' = live \cup {s} /\ job' = [job EXCEPT ![r].pc = "persist", ![r].d = s]
    BY <1>5
  <2>2. s \in Durables /\ d \in {Unbound, s}
    <3>1. d \in Durables \cup {Unbound}
      BY <1>0, <1>2 DEF CatalogInv, CatalogType, State, Stored
    <3> QED
      BY <2>1, <3>1
  <2>3. PICK e : e = [job[r] EXCEPT !.pc = "persist", !.d = s]
    OBVIOUS
  <2>4. job' = [job EXCEPT ![r] = e]
    BY <2>1, <2>3
  <2>5. e \in Job /\ e.pc = "persist" /\ e.kind = "open" /\ e.c = c /\ e.d = s /\ e.forced = job[r].forced
    <3>1. "persist" \in AnyStep
      BY DEF AnyStep, Opening
    <3> QED
      BY <1>0, <1>1, <2>2, <2>3, <3>1, OfJob DEF Job
  <2>6. Relies(r, e, store', locks')
    BY <1>0, <1>1, <1>2, <1>5, <2>2, <2>5 DEF Relies
  <2>7. e.pc \in Opening /\ live' \subseteq Durables
    BY <2>1, <2>2, <2>5, LiveStays DEF Opening
  <2> QED
    BY <1>1, <1>2, <1>3, <1>5, <2>4, <2>5, <2>6, <2>7, LocksStay, CopiesTyped, OpeningGoes
<1> QED
  BY <1>0, <1>4, <1>5 DEF OpenEngine

LEMMA OpenPersistStep == ASSUME CatalogInv, NEW r \in Requests, OpenPersist(r) PROVE CatalogInv'
<1>0. PICK c, d, rec : c = job[r].c /\ d = job[r].d /\ rec = store.rows[c]
  OBVIOUS
<1>1. /\ job[r].kind = "open" /\ job[r].pc = "persist" /\ marks' = marks /\ copies' = copies /\ tally' = tally
  BY DEF OpenPersist, Is
<1>2. /\ c \in Chats /\ rec.kind # "none" /\ locks.permit[c] = r /\ job[r].pc \in Opening
      /\ d \in Durables /\ (rec.kind # "gone" => rec.d \in {Unbound, d})
  BY <1>0, <1>1, OfOpening DEF Opening
<1>3. store \in State /\ rec \in Stored
  <2>1. store \in State
    BY DEF CatalogInv, CatalogType
  <2> QED
    BY <1>0, <1>2, <2>1 DEF State
<1>4. PICK to : to = [rec EXCEPT !.d = d]
  OBVIOUS
<1>5. PICK new : new = Put(c, to)
  OBVIOUS
<1>6. [store EXCEPT !.rows[c].d = d] = new
  BY <1>0, <1>2, <1>3, <1>4, <1>5 DEF Put, State
<1>7. \/ Exists(c) /\ Flushed(new) /\ Goes(r, "publish") /\ live' = live /\ force' = force /\ locks' = locks
      \/ /\ IF Exists(c) THEN FlushFails(new) ELSE NoStore
         /\ OpenEnds(r) /\ Discard(r)
  BY <1>0, <1>6 DEF OpenPersist
<1>8. ASSUME Exists(c) PROVE Bindable(r, c, to) /\ (to.own => to.d \in copies')
  <2>1. There(store, c) /\ rec.kind \notin {"none", "gone"}
    BY <1>0, <1>8 DEF Exists, There
  <2>2. to = [kind |-> rec.kind, d |-> d, own |-> rec.own, auto |-> rec.auto]
    BY <1>3, <1>4 DEF Stored
  <2>3. rec.own \/ rec.auto => rec.d = d
    BY <1>2, <1>3, <2>1, CatalogAssumption DEF Stored, Sound, Unbound
  <2>4. rec.own => rec.d \in copies
    BY <1>0, <1>2, <2>1 DEF CatalogInv, Promises, Keeps
  <2>5. to \in Stored
    BY <1>2, <1>3, <2>2 DEF Stored, Sound, Foreign
  <2> QED
    BY <1>0, <1>1, <1>2, <2>1, <2>2, <2>3, <2>4, <2>5 DEF Bindable
<1>9. StoreMoves(r) /\ Promises' /\ store' \in State /\ disk' \in State
      /\ (store' = store \/ (store'.rows[c] = to /\ store'.tomb = store.tomb))
  <2>1. CASE NoStore
    BY <1>1, <2>1, Unwritten DEF NoStore
  <2>2. CASE Exists(c) /\ (Flushed(new) \/ FlushFails(new))
    BY <1>1, <1>2, <1>5, <1>8, <2>2, Puts
  <2> QED
    BY <1>7, <2>1, <2>2
<1>10. live' \subseteq Durables
  BY <1>7, LiveStays DEF Discard
<1>11. CASE OpenEnds(r)
  BY <1>1, <1>9, <1>10, <1>11, CopiesTyped, OpeningEnds
<1>12. CASE Goes(r, "publish") /\ force' = force /\ locks' = locks
  <2>1. PICK w \in AnyStep : w = "publish"
    BY DEF AnyStep, Opening
  <2>2. PICK e \in Job : /\ job' = [job EXCEPT ![r] = e] /\ e.pc = w
                         /\ e.kind = job[r].kind /\ e.c = job[r].c /\ e.forced = job[r].forced
    BY <1>12, <2>1, GoesOn
  <2>3. store'.rows[c].kind # "none"
    BY <1>0, <1>2, <1>3, <1>4, <1>9 DEF Stored
  <2>4. Relies(r, e, store', locks')
    BY <1>0, <1>1, <1>2, <1>12, <2>1, <2>2, <2>3 DEF Relies
  <2>5. e.pc \in Opening
    BY <2>1, <2>2 DEF Opening
  <2> QED
    BY <1>1, <1>2, <1>9, <1>10, <1>12, <2>2, <2>4, <2>5, LocksStay, CopiesTyped, OpeningGoes
<1> QED
  BY <1>7, <1>11, <1>12

LEMMA OpenPublishStep == ASSUME CatalogInv, NEW r \in Requests, OpenPublish(r) PROVE CatalogInv'
<1>1. /\ OpenEnds(r) /\ marks' = marks /\ copies' = copies /\ tally' = tally /\ store' = store /\ disk' = disk
      /\ (live' = live \/ Discard(r))
  BY DEF OpenPublish, NoStore
<1>2. StoreMoves(r) /\ Promises' /\ store' \in State /\ disk' \in State
  BY <1>1, Unwritten
<1>3. live' \subseteq Durables
  BY <1>1, LiveStays DEF Discard
<1> QED
  BY <1>1, <1>2, <1>3, CopiesTyped, OpeningEnds

LEMMA OpenPrepareStep == ASSUME CatalogInv, NEW r \in Requests, OpenPrepare(r) PROVE CatalogInv'
<1>1. /\ job[r].kind = "open" /\ job[r].pc = "start" /\ locks' = locks /\ marks' = marks /\ live' = live
      /\ store' = store /\ disk' = disk /\ copies' = copies /\ tally' = tally
  BY DEF OpenPrepare, Is, NoLocks, NoEngine, NoStore
<1>2. job[r] \in Job /\ job[r].pc \notin Opening /\ r # Nobody
  BY <1>1, OfJob DEF Opening
<1>3. PICK c \in Chats, forced \in BOOLEAN :
         \/ /\ Exists(c)
            /\ job' = [job EXCEPT ![r].pc = "enter", ![r].c = c, ![r].ver = marks.ver[c], ![r].forced = forced]
            /\ force' = IF forced /\ ~force[c].armed THEN [force EXCEPT ![c] = [armed |-> TRUE, owner |-> r]] ELSE force
         \/ Goes(r, "done") /\ force' = force
  BY DEF OpenPrepare
<1>4. CASE Goes(r, "done") /\ force' = force
  BY <1>1, <1>2, <1>4, LocksStay, MarksStay, LiveStays, JustEnds
<1>5. CASE /\ Exists(c)
           /\ job' = [job EXCEPT ![r].pc = "enter", ![r].c = c, ![r].ver = marks.ver[c], ![r].forced = forced]
           /\ force' = IF forced /\ ~force[c].armed THEN [force EXCEPT ![c] = [armed |-> TRUE, owner |-> r]] ELSE force
  <2>1. PICK v \in Nat : v = marks.ver[c]
    BY DEF CatalogInv, CatalogType
  <2>2. PICK e : e = [job[r] EXCEPT !.pc = "enter", !.c = c, !.ver = v, !.forced = forced]
    OBVIOUS
  <2>3. job' = [job EXCEPT ![r] = e]
    BY <1>5, <2>1, <2>2
  <2>4. e \in Job /\ e.pc = "enter" /\ e.kind = "open" /\ e.c = c /\ e.forced = forced
    <3>1. "enter" \in AnyStep
      BY DEF AnyStep, Opening
    <3> QED
      BY <1>1, <1>2, <2>2, <3>1 DEF Job
  <2>5. store.rows[c].kind # "none"
    BY <1>5 DEF Exists
  <2>6. Relies(r, e, store', locks')
    BY <1>1, <2>4, <2>5 DEF Relies
  <2>7. /\ force \in [Chats -> [armed : BOOLEAN, owner : Somebody]] /\ r \in Somebody
        /\ tally.stray + Cardinality(Loose) <= tally.rest
    BY DEF CatalogInv, CatalogType, Balanced, Somebody
  <2>8. PICK f : f = [armed |-> TRUE, owner |-> r]
    OBVIOUS
  <2>9. /\ force' \in [Chats -> [armed : BOOLEAN, owner : Somebody]]
        /\ \A b \in Chats \ {c} : force'[b] = force[b]
        /\ force'[c] = force[c] \/ (force'[c] = f /\ ~force[c].armed /\ forced)
    BY <1>5, <2>7, <2>8
  <2>10. Owned'
    <3>1. job'[r] = e /\ \A q \in Requests \ {r} : job'[q] = job[q]
      BY <2>3 DEF CatalogInv, CatalogType
    <3>2. \A b \in Chats : force[b].owner # Nobody => force[b].owner \in Requests /\
             job[force[b].owner].kind = "open" /\ job[force[b].owner].pc \in Opening /\ job[force[b].owner].forced
      BY <2>7 DEF CatalogInv, Owned, Somebody
    <3>3. e.pc \in Opening
      BY <2>4 DEF Opening
    <3> QED
      BY <1>2, <2>4, <2>8, <2>9, <3>1, <3>2, <3>3 DEF Owned
  <2>11. Balanced'
    <3>1. Loose' = Loose
      BY <1>2, <2>8, <2>9 DEF Loose
    <3> QED
      BY <1>1, <2>7, <3>1 DEF Balanced
  <2>12. StoreMoves(r) /\ Promises' /\ store' \in State /\ disk' \in State
    BY <1>1, Unwritten
  <2> QED
    BY <1>1, <2>3, <2>4, <2>6, <2>9, <2>10, <2>11, <2>12, LocksStay, MarksStay, LiveStays, CopiesTyped, TallyStays, Changes
<1> QED
  BY <1>3, <1>4, <1>5

-----------------------------------------------------------------------------
(***************************************************************************)
(* The process stops, and the start.                                       *)
(***************************************************************************)

LEMMA RestartStep == ASSUME CatalogInv, Restart PROVE CatalogInv'
<1>1. /\ store' = disk /\ disk' = disk /\ live' = live /\ copies' = copies /\ tally' = tally
      /\ job' = [r \in Requests |-> IF job[r].pc = "start" THEN job[r] ELSE [job[r] EXCEPT !.pc = "done"]]
      /\ locks' = [adopt |-> Nobody, life |-> Nobody, permit |-> [c \in Chats |-> Nobody]]
      /\ marks' = [deleting |-> {}, ver |-> [c \in Chats |-> 0]]
      /\ force' = [c \in Chats |-> [armed |-> FALSE, owner |-> Nobody]]
  BY DEF Restart
<1>2. Nobody \in Somebody
  BY DEF Somebody
<1>3. \A r \in Requests : /\ job'[r] \in Job /\ job'[r].pc \in {"done", "start"}
                          /\ job'[r].kind = job[r].kind /\ job'[r].todo = job[r].todo
  <2>1. SUFFICES ASSUME NEW r \in Requests
                 PROVE  /\ job'[r] \in Job /\ job'[r].pc \in {"done", "start"}
                        /\ job'[r].kind = job[r].kind /\ job'[r].todo = job[r].todo
    OBVIOUS
  <2>2. job'[r] = IF job[r].pc = "start" THEN job[r] ELSE [job[r] EXCEPT !.pc = "done"]
    BY <1>1
  <2>3. job[r] \in Job /\ "done" \in AnyStep
    BY OfJob DEF AnyStep, Steps
  <2> QED
    BY <2>2, <2>3 DEF Job
<1>4. job' \in [Requests -> Job]
  BY <1>1, <1>3
<1>5. Relied'
  <2>1. ASSUME NEW r \in Requests PROVE Relies(r, job'[r], store', locks')
    BY <1>3, EndedRelies
  <2> QED
    BY <2>1 DEF Relied
<1>6. locks' \in Locks /\ marks'.ver \in [Chats -> Nat]
  BY <1>1, <1>2 DEF Locks
<1>7. force' \in [Chats -> [armed : BOOLEAN, owner : Somebody]]
  BY <1>1, <1>2
<1>8. CatalogType'
  BY <1>1, <1>4, <1>6, <1>7 DEF CatalogInv, CatalogType
<1>9. Promises'
  BY <1>1 DEF CatalogInv, Promises, Keeps, There
<1>10. Owned'
  BY <1>1 DEF Owned
<1>11. Balanced'
  <2>1. Loose' = {}
    BY <1>1 DEF Loose
  <2>2. IsFiniteSet(Loose)
    <3>1. IsFiniteSet(Chats) /\ Loose \subseteq Chats
      BY CatalogAssumption DEF Loose
    <3> QED
      BY <3>1, FS_Subset
  <2>3. Cardinality(Loose') = 0 /\ Cardinality(Loose) \in Nat
    BY <2>1, <2>2, FS_EmptySet, FS_CardinalityType
  <2>4. tally.stray \in Nat /\ tally.rest \in Nat /\ tally.stray + Cardinality(Loose) <= tally.rest
    BY DEF CatalogInv, CatalogType, Balanced
  <2>5. tally'.stray + Cardinality(Loose') <= tally'.rest
    BY <1>1, <2>3, <2>4
  <2> QED
    BY <2>5 DEF Balanced
<1> QED
  BY <1>5, <1>8, <1>9, <1>10, <1>11 DEF CatalogInv

LEMMA CatalogStart ==
    ASSUME NEW kinds \in [Requests -> Kinds], NEW first \in Stored, NEW n, CatalogInit(kinds, first, n)
    PROVE  CatalogInv
<1>1. /\ store = [rows |-> [c \in Chats |-> IF c = 1 THEN first ELSE NoRow], tomb |-> {}, ws |-> TRUE] /\ disk = store
      /\ job = [r \in Requests |-> Waiting(kinds[r])]
      /\ locks = [adopt |-> Nobody, life |-> Nobody, permit |-> [c \in Chats |-> Nobody]]
      /\ marks = [deleting |-> {}, ver |-> [c \in Chats |-> 0]]
      /\ live \in {{}, Durables} /\ copies = {d \in Durables : first.own /\ first.d = d}
      /\ force = [c \in Chats |-> [armed |-> FALSE, owner |-> Nobody]]
      /\ tally = [gone |-> {}, rest |-> 0, stray |-> 0]
  BY DEF CatalogInit
<1>2. Nobody \in Somebody /\ NoRow \in Stored
  BY DEF Somebody, NoRow, Stored, Sound, Foreign
<1>3. \A c \in Chats : store.rows[c] = IF c = 1 THEN first ELSE NoRow
  BY <1>1
<1>4. store \in State /\ disk \in State
  BY <1>1, <1>2 DEF State
<1>5. \A r \in Requests : job[r] \in Job /\ job[r].pc = "start"
  BY <1>1 DEF Waiting, Job, AnyStep, Steps, Unbound
<1>6. CatalogType
  <2>1. locks \in Locks
    BY <1>1, <1>2 DEF Locks
  <2>2. force \in [Chats -> [armed : BOOLEAN, owner : Somebody]]
    BY <1>1, <1>2
  <2>3. job \in [Requests -> Job]
    BY <1>1, <1>5
  <2> QED
    BY <1>1, <1>4, <2>1, <2>2, <2>3 DEF CatalogType
<1>7. Keeps(store, tally.gone, copies)
  <2>1. \A c \in Chats : There(store, c) => c = 1 /\ store.rows[c] = first
    BY <1>3 DEF There, NoRow
  <2>2. There(store, 1) /\ first.own => first.d \in copies
    BY <1>1 DEF Stored, Sound
  <2> QED
    BY <1>1, <2>1, <2>2 DEF Keeps
<1>8. Promises
  BY <1>1, <1>7 DEF Promises
<1>9. Relied
  BY <1>1, <1>5 DEF Relied, Relies, Opening, Taking, Waiting
<1>10. Owned
  BY <1>1 DEF Owned
<1>11. Balanced
  <2>1. Loose = {}
    BY <1>1 DEF Loose
  <2> QED
    BY <1>1, <2>1, FS_EmptySet DEF Balanced
<1> QED
  BY <1>6, <1>8, <1>9, <1>10, <1>11 DEF CatalogInv

LEMMA CatalogStep == CatalogInv /\ [CatalogNext]_catalogVars => CatalogInv'
<1>1. ASSUME CatalogInv, UNCHANGED catalogVars PROVE CatalogInv'
  <2>1. CatalogType'
    BY <1>1 DEF catalogVars, CatalogInv, CatalogType
  <2>2. Promises'
    BY <1>1 DEF catalogVars, CatalogInv, Promises, Keeps, There
  <2>3. Relied'
    BY <1>1 DEF catalogVars, CatalogInv, Relied
  <2>4. Owned'
    BY <1>1 DEF catalogVars, CatalogInv, Owned
  <2>5. Balanced'
    BY <1>1 DEF catalogVars, CatalogInv, Balanced, Loose
  <2> QED
    BY <2>1, <2>2, <2>3, <2>4, <2>5 DEF CatalogInv
<1>2. ASSUME CatalogInv, NEW r \in Requests,
             \/ OpenPrepare(r) \/ OpenEnter(r) \/ OpenMigrate(r) \/ OpenGate(r) \/ OpenEngine(r)
             \/ OpenPersist(r) \/ OpenPublish(r)
      PROVE  CatalogInv'
  BY <1>2, OpenPrepareStep, OpenEnterStep, OpenMigrateStep, OpenGateStep, OpenEngineStep, OpenPersistStep, OpenPublishStep
<1>3. ASSUME CatalogInv, NEW r \in Requests,
             \/ CreateChat(r) \/ DeleteMark(r) \/ DeleteStop(r) \/ DeleteCommit(r)
             \/ DropMark(r) \/ DropStop(r) \/ DropCommit(r)
      PROVE  CatalogInv'
  BY <1>3, CreateChatStep, DeleteMarkStep, DeleteStopStep, DeleteCommitStep, DropMarkStep, DropStopStep, DropCommitStep
<1>4. ASSUME CatalogInv, NEW r \in Requests,
             \/ Lookup(r) \/ TakeOverCheck(r) \/ TakeOverEnter(r) \/ TakeOverInstall(r) \/ NewRow(r) \/ Refuse(r)
      PROVE  CatalogInv'
  BY <1>4, LookupStep, TakeOverCheckStep, TakeOverEnterStep, TakeOverInstallStep, NewRowStep, RefuseStep
<1>5. ASSUME CatalogInv, NEW r \in Requests,
             \/ TickLists(r) \/ TickLocks(r) \/ TickNext(r) \/ TickMatch(r) \/ TickSave(r)
      PROVE  CatalogInv'
  BY <1>5, TickListsStep, TickLocksStep, TickNextStep, TickMatchStep, TickSaveStep
<1>6. CatalogNext => \/ Restart
                     \/ \E r \in Requests :
                           \/ \/ OpenPrepare(r) \/ OpenEnter(r) \/ OpenMigrate(r) \/ OpenGate(r) \/ OpenEngine(r)
                              \/ OpenPersist(r) \/ OpenPublish(r)
                           \/ \/ CreateChat(r) \/ DeleteMark(r) \/ DeleteStop(r) \/ DeleteCommit(r)
                              \/ DropMark(r) \/ DropStop(r) \/ DropCommit(r)
                           \/ \/ Lookup(r) \/ TakeOverCheck(r) \/ TakeOverEnter(r) \/ TakeOverInstall(r) \/ NewRow(r)
                              \/ Refuse(r)
                           \/ \/ TickLists(r) \/ TickLocks(r) \/ TickNext(r) \/ TickMatch(r) \/ TickSave(r)
  BY DEF CatalogNext
<1> QED
  BY <1>1, <1>2, <1>3, <1>4, <1>5, <1>6, RestartStep

LEMMA CatalogHolds == CatalogSpec => []CatalogInv
<1>1. CatalogSpec => CatalogInv
  BY CatalogStart DEF CatalogSpec
<1> QED
  BY <1>1, CatalogStep, PTL DEF CatalogSpec

\* Whatever is created, opened, adopted, enrolled and removed at the same time, however
\* often the state file cannot be written and the process stops: what was removed stays
\* removed (enrollment.go:57), no session has two enrolled chats, and a row that names
\* the owned copy has one.
THEOREM RemovalsStay == CatalogSpec => []EnrollmentSound
<1>1. ASSUME CatalogInv PROVE EnrollmentSound
  <2>1. Keeps(store, tally.gone, copies)
    BY <1>1 DEF CatalogInv, Promises
  <2>2. \A c \in Rows : c \in Chats /\ There(store, c)
    BY DEF Rows, Exists, There
  <2> QED
    BY <2>1, <2>2 DEF Keeps, EnrollmentSound
<1> QED
  BY <1>1, CatalogHolds, PTL

\* A force is good for one opening (CursorForOpen, bridge.go:2348), and that of a create
\* attempt is gone with the attempt, for any number of attempts and authorizations.
THEOREM ForcesSpent == CatalogSpec => []ForceSpent
<1>1. ASSUME CatalogInv PROVE ForceSpent
  <2>1. IsFiniteSet(Loose)
    <3>1. IsFiniteSet(Chats) /\ Loose \subseteq Chats
      BY CatalogAssumption DEF Loose
    <3> QED
      BY <3>1, FS_Subset
  <2>2. tally.stray <= tally.rest
    <3>1. Cardinality(Loose) \in Nat
      BY <2>1, FS_CardinalityType
    <3> QED
      BY <1>1, <3>1 DEF CatalogInv, CatalogType, Balanced
  <2>3. \A c \in Chats : force[c].owner # Nobody => ~RequestEnded(force[c].owner)
    BY <1>1 DEF CatalogInv, Owned, Opening, RequestEnded
  <2> QED
    BY <2>2, <2>3 DEF ForceSpent
<1> QED
  BY <1>1, CatalogHolds, PTL

-----------------------------------------------------------------------------
(***************************************************************************)
(* The engines and the servers that acquire them, for any number of        *)
(* servers, process groups and inodes, any faults and any file the path    *)
(* names at first:                                                         *)
(*   EnginesOwned       no engine is left that nothing will stop;          *)
(*   RestartsReplace    a restart admits its successor over dead engines;  *)
(*   CooperatorsSpared  cleaning up a path cuts off no engine that was     *)
(*                      launched under the lock and seen ready.            *)
(*                                                                         *)
(* HostInv is what keeps them true.  It speaks of every server by itself   *)
(* (OfServer: how its EnsureDaemon, lifecycle, restart and lists go        *)
(* together) and of every group by itself (OfGroup: which of these has it  *)
(* in its hands, and which lock covers it); a step of one server leaves    *)
(* the parts of the others alone (Unmoved), so that each action is one     *)
(* lemma about one server.                                                 *)
(***************************************************************************)

(***************************************************************************)
(* Engines: the inductive invariant.                                       *)
(***************************************************************************)

Launching == {"loop", "handshake"}
Failing == {"cleanup", "yield"}
Attempting == Launching \cup Failing \cup {"ready"}
Holding == Attempting \cup {"again", "spawn"}
Retiring == {"retire", "rterm", "rkill", "rlock", "rremove", "stop"}
Serving == {"serving", "stop", "closing"}
Running == Serving \cup {"starting", "quit"}

Engine == [st : {"none", "up", "headless", "gone"}, ino : Nat, by : Servers \cup {Outside},
           sig : {"none", "term", "kill"}, reg : BOOLEAN, ans : {"good", "old", "mute"},
           base : Nat, own : SUBSET Nat, foreign : SUBSET Nat,
           stop : {"no", "term", "kill", "lock", "clean", "remove", "done", "fail"}]
Ensure == [pc : Holding \cup {"idle", "probe", "lock", "late"}, who : {"main", "flight"}, g : Groups \cup {None},
           before : Nat, conn : Groups \cup {None, Adopted}, try : Nat, retry : BOOLEAN]
Lifecycle == [barrier : {"free", "ensure", "restart"}, current : Groups \cup {None, Adopted},
              generation : SUBSET Groups, owned : SUBSET Groups, stopping : BOOLEAN, err : BOOLEAN]
Successor == [pc : Retiring \cup {"idle", "barrier", "join", "ok", "err"}, h : Groups \cup {None},
            target : Nat, old : SUBSET Groups]
Server == [st : Running \cup {"off", "exited", "crashed"}, ensured : Groups \cup {None}, todo : SUBSET Groups,
           conn : Groups \cup {None}, flight : {"idle", "hook", "run"}]

HostType ==
    /\ sock \in Nat /\ cut \subseteq Groups
    /\ grp \in [Groups -> Engine] /\ ens \in [Servers -> Ensure] /\ lc \in [Servers -> Lifecycle]
    /\ rst \in [Servers -> Successor] /\ srv \in [Servers -> Server]

Up(x) == x.st \in {"up", "headless"}

\* What the stop of an engine x says of it.
Sane(x) ==
    /\ x.st = "none" => x = NoGroup
    /\ x.stop \in {"lock", "clean", "remove", "done"} => x.st = "gone"
    /\ Up(x) /\ x.stop # "no" => x.sig # "none"
    /\ x.stop = "kill" => x.sig = "kill"
    /\ x.stop # "no" => x.by \in Servers
    /\ x.reg => x.ino # None

\* Engine g is the one its server's EnsureDaemon is launching.
Has(e, g) == e.pc \in Attempting /\ e.g = g

\* A living engine x of a server is being launched or on its lists, or was stopped
\* in vain; one that saw itself ready is on the lists, and the group of a failed
\* attempt is cleaned up inside the attempt.
Tended(g, x, e, l, v) ==
    /\ Up(x) =>
        \/ v.st = "crashed"
        \/ v.st = "exited" /\ x.sig = "kill"
        \/ /\ v.st \in Running
           /\ \/ Has(e, g)
              \/ e.pc = "late" /\ e.conn = g /\ x.stop # "no"
              \/ x.stop = "fail" /\ x.sig = "kill"
              \/ g \in l.generation /\ g \in l.owned \cup v.todo \cup {v.ensured}
    /\ Up(x) /\ x.reg /\ v.st \in {"starting", "quit", "serving"} =>
          (e.pc = "ready" /\ e.g = g) \/ g \in l.generation
    /\ x.stop \in {"term", "kill"} /\ ~x.reg => e.pc \in Failing /\ e.g = g
    /\ Up(x) /\ x.stop = "fail" => x.sig = "kill" \/ v.st = "crashed"
    /\ v.st = "crashed" => x.stop \in {"no", "fail"}

\* Who may still bind the path, and who is about to clean it up, is covered by the lock k.
Guarded(g, s, x, e, v, k) ==
    /\ x.st = "up" /\ x.ino = None /\ x.sig # "kill" => v.st = "crashed" \/ (k = <<s, 0>> /\ Has(e, g))
    /\ x.stop \in {"clean", "remove"} => k = <<s, g>> \/ (e.pc \in Failing /\ e.g = g)

\* How the parts of one server go together.
Local(s, e, l, v, r, k) ==
    /\ e.pc \in Holding => k = <<s, 0>>
    /\ r.pc = "rremove" => k = <<s, -1>>
    /\ e.pc # "idle" => IF e.who = "main" THEN v.st \in {"starting", "quit"}
                        ELSE v.flight = "run" /\ l.barrier = "ensure"
    /\ e.pc = "late" => e.who = "flight" /\ l.stopping
    /\ e.pc \notin Attempting => e.g = None
    /\ e.pc \in {"ready", "yield"} => e.conn \in Groups
    /\ v.flight # "idle" => v.st = "serving" \/ (v.st \in {"stop", "closing"} /\ l.stopping)
    /\ v.st \in {"off", "starting", "quit", "serving"} => ~l.stopping
    /\ v.st \in {"off", "starting", "quit"} => l.generation = {} /\ v.ensured = None
    /\ v.st \notin Serving => v.conn = None
    /\ v.st # "serving" => l.owned = {}
    /\ v.st # "stop" => v.todo = {}
    /\ r.pc # "idle" => v.st \in Serving
    /\ r.pc \in Retiring => l.barrier = "restart"
    /\ r.pc \in {"rterm", "rkill"} => r.h \in Groups

\* The groups a server speaks of are its own.
Mine(gr, s, g) == g \in Groups /\ gr[g].by = s /\ gr[g].st # "none"
Listed(l, v, g) == g \in l.generation \cup l.owned \cup v.todo \/ (g = v.ensured /\ g # None)

Lists(s, e, l, v, gr) ==
    /\ \A g \in Groups : Listed(l, v, g) => Mine(gr, s, g) /\ (gr[g].stop \in {"no", "term", "kill"} => gr[g].reg)
    /\ e.pc \in Attempting => Mine(gr, s, e.g) /\ gr[e.g].reg = (e.pc = "ready")
    /\ e.pc \in Failing => gr[e.g].stop # "no"
    /\ e.pc \in Launching \cup {"ready"} => gr[e.g].stop = "no" /\ ~Listed(l, v, e.g)
    /\ e.pc = "handshake" => e.conn \in Groups /\ (e.conn = e.g => gr[e.g].ino = e.before) /\ e.before # None
    /\ e.pc = "late" /\ e.conn \in Groups => Mine(gr, s, e.conn)

\* RestartReplaces, with what keeps the successor apart from the old engines.
Replaced(s, e, l, v, r, gr) ==
    r.pc \in {"join", "ok"} /\ v.st = "serving" =>
        /\ \A g \in r.old : Mine(gr, s, g) /\ (Up(gr[g]) => gr[g].sig = "kill" /\ gr[g].stop = "fail" /\ ~gr[g].reg)
        /\ l.current \notin r.old
        /\ e.g \notin r.old

\* Engine h takes no part in the locking.
Spared(h) == grp[h].by \notin Servers \/ (srv[grp[h].by].st = "crashed" /\ ~grp[h].reg)

Cutting == (\E g \in Groups : grp[g].stop = "remove") \/ (\E s \in Servers : rst[s].pc = "rremove")

CutRight ==
    /\ \A h \in cut : grp[h].st # "none" /\ Spared(h)
    /\ Cutting => \A h \in Listeners : Spared(h)

OfServer(s) ==
    /\ Local(s, ens[s], lc[s], srv[s], rst[s], lock)
    /\ Lists(s, ens[s], lc[s], srv[s], grp)
    /\ Replaced(s, ens[s], lc[s], srv[s], rst[s], grp)

OfGroup(g) ==
    /\ Sane(grp[g])
    /\ \A s \in Servers : grp[g].by = s =>
          Tended(g, grp[g], ens[s], lc[s], srv[s]) /\ Guarded(g, s, grp[g], ens[s], srv[s], lock)

HostInv ==
    /\ HostType /\ CutRight
    /\ \A s \in Servers : OfServer(s)
    /\ \A g \in Groups : OfGroup(g)

-----------------------------------------------------------------------------
(***************************************************************************)
(* What a step leaves alone.                                               *)
(***************************************************************************)

\* Whose lock it is.
LEMMA LockNames ==
    ASSUME NEW s, NEW t, NEW a, NEW b
    PROVE  /\ <<s, a>> # Free /\ (<<s, a>>)[1] = s
           /\ <<s, a>> = <<t, b>> => s = t /\ a = b
BY DEF Free

\* A group goes from x to y by itself, or because somebody signalled it.
Mild(x, y) ==
    /\ y.by = x.by /\ y.ino = x.ino /\ y.reg = x.reg /\ y.stop = x.stop
    /\ y.sig = x.sig \/ (x.sig # "kill" /\ y.sig \in {"term", "kill"})
    /\ y.st = x.st \/ y.st = "gone" \/ (x.st = "up" /\ y.st = "headless")
    /\ x.st = "none" => y = x

\* The lock is not taken from t, nor given to it.
Yields(t) == lock' = lock \/ \A a : lock # <<t, a>>

LEMMA MildTended ==
    ASSUME NEW g \in Groups, NEW x \in Engine, NEW y \in Engine, NEW e, NEW l, NEW v, Mild(x, y), Sane(x),
           Tended(g, x, e, l, v)
    PROVE  Sane(y) /\ Tended(g, y, e, l, v)
<1>1. Sane(y)
  BY DEF Sane, Mild, Up, Engine
<1>2. Tended(g, y, e, l, v)
  BY DEF Tended, Mild, Up, Engine, Sane
<1> QED
  BY <1>1, <1>2

LEMMA MildGuarded ==
    ASSUME NEW t \in Servers, NEW g \in Groups, NEW x \in Engine, NEW y \in Engine, NEW e, NEW v, Mild(x, y),
           Yields(t), Guarded(g, t, x, e, v, lock)
    PROVE  Guarded(g, t, y, e, v, lock')
BY DEF Guarded, Mild, Engine, Yields

\* The lists of a server do not see what its groups do by themselves.
LEMMA MildLists ==
    ASSUME NEW t, NEW e, NEW l, NEW v, NEW r,
           \A g \in Groups : grp[g] \in Engine,
           \A g \in Groups : Mine(grp, t, g) => Mild(grp[g], grp'[g])
    PROVE  /\ Lists(t, e, l, v, grp) => Lists(t, e, l, v, grp')
           /\ Replaced(t, e, l, v, r, grp) => Replaced(t, e, l, v, r, grp')
<1>1. \A g \in Groups : Mine(grp, t, g) => Mine(grp', t, g) /\ Mild(grp[g], grp'[g])
  BY DEF Mine, Mild
<1>2. ASSUME Lists(t, e, l, v, grp) PROVE Lists(t, e, l, v, grp')
  <2>2. \A g \in Groups : Listed(l, v, g) =>
            Mine(grp', t, g) /\ (grp'[g].stop \in {"no", "term", "kill"} => grp'[g].reg)
    BY <1>2, <1>1 DEF Lists, Mild
  <2>3. e.pc \in Attempting => Mine(grp, t, e.g) /\ e.g \in Groups
    BY <1>2 DEF Lists, Mine
  <2>4. /\ e.pc \in Attempting => Mine(grp', t, e.g) /\ grp'[e.g].reg = (e.pc = "ready")
        /\ e.pc \in Failing => grp'[e.g].stop # "no"
        /\ e.pc \in Launching \cup {"ready"} => grp'[e.g].stop = "no" /\ ~Listed(l, v, e.g)
    BY <1>2, <2>3, <1>1 DEF Lists, Mild, Failing, Attempting
  <2>5. e.pc = "handshake" =>
            e.conn \in Groups /\ (e.conn = e.g => grp'[e.g].ino = e.before) /\ e.before # None
    BY <1>2, <2>3, <1>1 DEF Lists, Mild, Launching, Attempting
  <2>6. e.pc = "late" /\ e.conn \in Groups => Mine(grp', t, e.conn)
    BY <1>2, <1>1 DEF Lists
  <2> QED
    BY <2>2, <2>4, <2>5, <2>6 DEF Lists
<1>3. ASSUME Replaced(t, e, l, v, r, grp) PROVE Replaced(t, e, l, v, r, grp')
  <2>1. \A g \in Groups : Mild(grp[g], grp'[g]) /\ (Up(grp[g]) => grp[g].sig = "kill" /\ grp[g].stop = "fail" /\ ~grp[g].reg)
            /\ grp[g].st # "none"
            => (Up(grp'[g]) => grp'[g].sig = "kill" /\ grp'[g].stop = "fail" /\ ~grp'[g].reg)
    BY DEF Mild, Up, Engine
  <2>2. \A g : Mine(grp, t, g) => g \in Groups /\ grp[g].st # "none"
    BY DEF Mine
  <2> QED
    BY <1>3, <2>1, <2>2, <1>1 DEF Replaced
<1> QED
  BY <1>2, <1>3

\* A server that does nothing, while its groups are left alone.
LEMMA Unmoved ==
    ASSUME HostInv, HostType', NEW t \in Servers, Yields(t),
           ens'[t] = ens[t], lc'[t] = lc[t], srv'[t] = srv[t], rst'[t] = rst[t],
           \A g \in Groups : (grp[g].by = t /\ grp[g].st # "none") \/ grp'[g].by = t => Mild(grp[g], grp'[g])
    PROVE  /\ OfServer(t)'
           /\ \A g \in Groups : grp'[g].by = t =>
                 /\ Sane(grp'[g]) /\ Tended(g, grp'[g], ens'[t], lc'[t], srv'[t])
                 /\ Guarded(g, t, grp'[g], ens'[t], srv'[t], lock')
<1>1. OfServer(t) /\ \A g \in Groups : grp[g] \in Engine /\ grp'[g] \in Engine /\ OfGroup(g)
  BY DEF HostInv, HostType
<1>2. Local(t, ens[t], lc[t], srv[t], rst[t], lock')
  BY <1>1 DEF OfServer, Local, Yields
<1>3. \A g \in Groups : Mine(grp, t, g) => Mine(grp', t, g) /\ Mild(grp[g], grp'[g])
  BY DEF Mine, Mild
<1>4. Lists(t, ens[t], lc[t], srv[t], grp') /\ Replaced(t, ens[t], lc[t], srv[t], rst[t], grp')
  BY <1>1, <1>3, MildLists DEF OfServer
<1>6. OfServer(t)'
  BY <1>2, <1>4 DEF OfServer
<1>7. ASSUME NEW g \in Groups, grp'[g].by = t
      PROVE  /\ Sane(grp'[g]) /\ Tended(g, grp'[g], ens'[t], lc'[t], srv'[t])
             /\ Guarded(g, t, grp'[g], ens'[t], srv'[t], lock')
  <2>1. Mild(grp[g], grp'[g]) /\ grp[g].by = t
    BY <1>7 DEF Mild
  <2>2. Sane(grp[g]) /\ Tended(g, grp[g], ens[t], lc[t], srv[t]) /\ Guarded(g, t, grp[g], ens[t], srv[t], lock)
    BY <2>1, <1>1 DEF OfGroup
  <2> QED
    BY <1>1, <2>1, <2>2, MildTended, MildGuarded
<1> QED
  BY <1>6, <1>7


\* What a step of server s may do to group g: at most what the group does by itself,
\* unless it is the server's.
Treats(s, g) ==
    \/ Mild(grp[g], grp'[g])
    \/ /\ grp'[g].by = s /\ (grp[g].by = s \/ grp[g].st = "none")
       /\ grp[g].st = "none" \/ grp'[g].st # "none"
       /\ grp'[g].ino = grp[g].ino
       /\ Up(grp'[g]) => Up(grp[g]) \/ grp'[g].ino = None
       /\ grp'[g].stop = "remove" => grp[g].stop = "remove" \/ Listeners = {}

\* Nothing new listens, and the path is cut from those alone who listen while it may be.
CutsOnly ==
    /\ sock' \in {sock, None}
    /\ cut' = cut \/ (Cutting /\ cut' = cut \cup Listeners)

LEMMA CutStays ==
    ASSUME HostInv, HostType', CutsOnly, NEW s,
           \A g \in Groups : Treats(s, g),
           \A t \in Servers \ {s} : srv'[t] = srv[t] /\ rst'[t] = rst[t],
           s \in Servers => /\ srv[s].st # "crashed"
                            /\ rst'[s].pc = "rremove" => rst[s].pc = "rremove" \/ Listeners = {}
    PROVE  CutRight'
<1>1. /\ \A g \in Groups : grp[g] \in Engine /\ grp'[g] \in Engine
      /\ CutRight /\ cut \subseteq Groups
  BY DEF HostInv, HostType
<1>2. ASSUME NEW h \in Groups, grp[h].st # "none", Spared(h)
      PROVE  grp'[h].st # "none" /\ Spared(h)'
  <2>1. CASE Mild(grp[h], grp'[h])
    <3>1. grp'[h].st # "none" /\ grp'[h].by = grp[h].by /\ grp'[h].reg = grp[h].reg
      BY <2>1, <1>2 DEF Mild
    <3>2. CASE grp[h].by \in Servers
      <4>1. srv[grp[h].by].st = "crashed" /\ ~grp[h].reg
        BY <3>2, <1>2 DEF Spared
      <4>2. grp[h].by # s
        BY <4>1, <3>2
      <4> QED
        BY <3>1, <3>2, <4>1, <4>2 DEF Spared
    <3> QED
      BY <3>1, <3>2 DEF Spared
  <2>2. CASE ~Mild(grp[h], grp'[h])
    <3>1. grp[h].by = s
      BY <2>2, <1>2 DEF Treats
    <3> QED
      BY <2>2, <3>1, <1>2 DEF Spared, Treats
  <2> QED
    BY <2>1, <2>2
<1>3. Listeners \subseteq Groups /\ \A h \in Listeners : grp[h].st # "none" /\ Up(grp[h]) /\ grp[h].ino = sock /\ sock # None
  BY DEF Listeners, Live, Up
<1>4. Listeners' \subseteq Listeners
  <2>1. SUFFICES ASSUME NEW h \in Listeners' PROVE h \in Listeners
    OBVIOUS
  <2>2. h \in Groups /\ Up(grp'[h]) /\ sock' # None /\ grp'[h].ino = sock'
    BY DEF Listeners, Live, Up
  <2>3. grp'[h].ino = grp[h].ino /\ sock' = sock
    BY <2>2, <1>1 DEF Treats, Mild, CutsOnly
  <2>4. Up(grp[h])
    BY <2>2, <1>1 DEF Treats, Mild, Up
  <2> QED
    BY <2>2, <2>3, <2>4 DEF Listeners, Live, Up
<1>5. Cutting' => Cutting \/ Listeners = {}
  <2>1. ASSUME NEW g \in Groups, grp'[g].stop = "remove" PROVE Cutting \/ Listeners = {}
    BY <2>1 DEF Cutting, Treats, Mild
  <2>2. ASSUME NEW t \in Servers, rst'[t].pc = "rremove" PROVE Cutting \/ Listeners = {}
    BY <2>2 DEF Cutting
  <2> QED
    BY <2>1, <2>2 DEF Cutting
<1>6. \A h \in cut' : grp'[h].st # "none" /\ Spared(h)'
  BY <1>1, <1>2, <1>3 DEF CutsOnly, CutRight
<1>7. Cutting' => \A h \in Listeners' : Spared(h)'
  BY <1>1, <1>2, <1>3, <1>4, <1>5 DEF CutRight
<1> QED
  BY <1>6, <1>7 DEF CutRight

\* A step of server s, or of one of its groups.
LEMMA ServerStep ==
    ASSUME HostInv, HostType', CutsOnly, NEW s \in Servers, srv[s].st # "crashed",
           \A t \in Servers \ {s} :
               ens'[t] = ens[t] /\ lc'[t] = lc[t] /\ srv'[t] = srv[t] /\ rst'[t] = rst[t] /\ Yields(t),
           \A g \in Groups : Treats(s, g),
           rst'[s].pc = "rremove" => rst[s].pc = "rremove" \/ Listeners = {},
           Local(s, ens'[s], lc'[s], srv'[s], rst'[s], lock'),
           Lists(s, ens'[s], lc'[s], srv'[s], grp'),
           Replaced(s, ens'[s], lc'[s], srv'[s], rst'[s], grp'),
           \A g \in Groups : grp'[g].by = s =>
               /\ Sane(grp'[g]) /\ Tended(g, grp'[g], ens'[s], lc'[s], srv'[s])
               /\ Guarded(g, s, grp'[g], ens'[s], srv'[s], lock')
    PROVE  HostInv'
<1>1. CutRight'
  BY CutStays
<1>2. ASSUME NEW t \in Servers
      PROVE  /\ OfServer(t)'
             /\ \A g \in Groups : grp'[g].by = t =>
                   /\ Sane(grp'[g]) /\ Tended(g, grp'[g], ens'[t], lc'[t], srv'[t])
                   /\ Guarded(g, t, grp'[g], ens'[t], srv'[t], lock')
  <2>1. CASE t = s
    BY <2>1 DEF OfServer
  <2>2. CASE t # s
    <3>1. \A g \in Groups : (grp[g].by = t /\ grp[g].st # "none") \/ grp'[g].by = t => Mild(grp[g], grp'[g])
      BY <2>2 DEF Treats
    <3> QED
      BY <2>2, <3>1, Unmoved
  <2> QED
    BY <2>1, <2>2
<1>3. ASSUME NEW g \in Groups PROVE OfGroup(g)'
  <2>1. Sane(grp'[g])
    <3>1. CASE grp'[g].by = s
      BY <3>1
    <3>2. CASE grp'[g].by # s
      <4>1. Mild(grp[g], grp'[g]) /\ Sane(grp[g]) /\ grp[g] \in Engine /\ grp'[g] \in Engine
        BY <3>2 DEF Treats, HostInv, OfGroup, HostType
      <4> QED
        BY <4>1 DEF Sane, Mild, Up, Engine
    <3> QED
      BY <3>1, <3>2
  <2> QED
    BY <2>1, <1>2 DEF OfGroup
<1> QED
  BY <1>1, <1>2, <1>3 DEF HostInv


\* A step of the groups alone.
LEMMA WorldStep ==
    ASSUME HostInv, HostType', CutsOnly, UNCHANGED <<ens, lc, srv, rst, lock>>,
           \A g \in Groups : Treats(Outside, g) /\ Sane(grp'[g])
    PROVE  HostInv'
<1>1. CutRight'
  BY CutStays, HostAssumption
<1>2. ASSUME NEW t \in Servers
      PROVE  /\ OfServer(t)'
             /\ \A g \in Groups : grp'[g].by = t =>
                   /\ Sane(grp'[g]) /\ Tended(g, grp'[g], ens'[t], lc'[t], srv'[t])
                   /\ Guarded(g, t, grp'[g], ens'[t], srv'[t], lock')
  <2>1. \A g \in Groups : (grp[g].by = t /\ grp[g].st # "none") \/ grp'[g].by = t => Mild(grp[g], grp'[g])
    BY HostAssumption DEF Treats
  <2> QED
    BY <2>1, Unmoved DEF Yields
<1>3. \A g \in Groups : OfGroup(g)'
  BY <1>2 DEF OfGroup
<1> QED
  BY <1>1, <1>2, <1>3 DEF HostInv

LEMMA Still == ASSUME NEW x PROVE Mild(x, x)
BY DEF Mild

-----------------------------------------------------------------------------
(***************************************************************************)
(* The steps of the engines.                                               *)
(***************************************************************************)

LEMMA EndsKeeps == ASSUME HostInv, NEW g \in Groups, Ends(g) \/ Dies(g) PROVE HostInv'
<1>1. HostType /\ OfGroup(g) /\ grp[g] \in Engine
  BY DEF HostInv, HostType
<1>2. PICK how \in {"gone", "headless"} : grp' = [grp EXCEPT ![g].st = how] /\ Up(grp[g])
                                          /\ (how = "headless" => grp[g].st = "up")
  BY DEF Ends, Dies, Live, Up
<1>3. sock' \in {sock, None} /\ cut' = cut /\ UNCHANGED <<ens, lc, srv, rst, lock>>
  BY DEF Ends, Dies
<1>4. PICK y : y = [grp[g] EXCEPT !.st = how]
  OBVIOUS
<1>5. y \in Engine /\ Mild(grp[g], y) /\ Sane(y)
  BY <1>1, <1>2, <1>4 DEF Engine, Mild, Sane, OfGroup, Up
<1>6. grp' = [grp EXCEPT ![g] = y]
  BY <1>1, <1>2, <1>4 DEF HostType
<1>7. HostType'
  BY <1>1, <1>3, <1>5, <1>6 DEF HostType, None
<1>8. \A h \in Groups : Treats(Outside, h) /\ Sane(grp'[h])
  <2>1. \A h \in Groups : Sane(grp[h])
    BY DEF HostInv, OfGroup
  <2> QED
    BY <1>1, <1>5, <1>6, <2>1, Still DEF HostType, Treats
<1> QED
  BY <1>3, <1>7, <1>8, WorldStep DEF CutsOnly

LEMMA VanishKeeps == ASSUME HostInv, Vanish PROVE HostInv'
<1>1. \A h \in Groups : Treats(Outside, h) /\ Sane(grp'[h])
  BY Still DEF HostInv, OfGroup, Treats, Vanish
<1>2. HostType'
  BY DEF HostInv, HostType, Vanish, None
<1> QED
  BY <1>1, <1>2, WorldStep DEF CutsOnly, Vanish

LEMMA OutsiderStartsKeeps == ASSUME HostInv, NEW g \in Groups, OutsiderStarts(g) PROVE HostInv'
<1>1. HostType /\ OfGroup(g) /\ grp[g] \in Engine
  BY DEF HostInv, HostType
<1>2. PICK ans \in {"good", "old", "mute"} : grp' = [grp EXCEPT ![g].st = "up", ![g].ans = ans]
  BY DEF OutsiderStarts
<1>3. grp[g] = NoGroup /\ grp[g].st = "none"
  BY <1>1 DEF OutsiderStarts, Unused, OfGroup, Sane
<1>4. PICK y : y = [grp[g] EXCEPT !.st = "up", !.ans = ans]
  OBVIOUS
<1>5. y \in Engine /\ Sane(y) /\ y.by = Outside /\ y.ino = grp[g].ino /\ y.ino = None /\ y.stop = "no" /\ y.st = "up"
  <2>1. grp[g].by = Outside /\ grp[g].ino = None /\ grp[g].stop = "no" /\ grp[g].reg = FALSE
    BY <1>3 DEF NoGroup
  <2>2. PICK z : z = [grp[g] EXCEPT !.st = "up"]
    OBVIOUS
  <2>3. z \in Engine /\ z.by = Outside /\ z.ino = None /\ z.stop = "no" /\ z.reg = FALSE /\ z.st = "up"
    BY <2>1, <2>2, <1>1 DEF Engine
  <2>4. y = [z EXCEPT !.ans = ans]
    BY <1>4, <2>2
  <2>5. y \in Engine /\ y.by = Outside /\ y.ino = None /\ y.stop = "no" /\ y.reg = FALSE /\ y.st = "up"
    BY <2>3, <2>4 DEF Engine
  <2> QED
    BY <2>1, <2>5 DEF Sane, Up
<1>6. grp' = [grp EXCEPT ![g] = y]
  BY <1>1, <1>2, <1>4 DEF HostType
<1>7. HostType'
  BY <1>1, <1>5, <1>6 DEF HostType, OutsiderStarts
<1>8. \A h \in Groups : Treats(Outside, h) /\ Sane(grp'[h])
  <2>1. \A h \in Groups : Sane(grp[h])
    BY DEF HostInv, OfGroup
  <2>2. \A h \in Groups \ {g} : grp'[h] = grp[h]
    BY <1>1, <1>6 DEF HostType
  <2>3. grp'[g] = y
    BY <1>1, <1>6 DEF HostType
  <2>4. Treats(Outside, g)
    BY <1>3, <1>5, <2>3 DEF Treats
  <2> QED
    BY <1>5, <2>1, <2>2, <2>3, <2>4, Still DEF Treats
<1> QED
  BY <1>7, <1>8, WorldStep DEF CutsOnly, OutsiderStarts

\* While somebody may remove the path only engines bind it that take no part in the locking.
LEMMA BindKeeps == ASSUME HostInv, NEW g \in Groups, Bind(g) PROVE HostInv'
<1>1. HostType /\ OfGroup(g) /\ grp[g] \in Engine /\ \A t \in Servers : OfServer(t)
  BY DEF HostInv, HostType
<1>2. PICK i \in Inodes \ {grp[h].ino : h \in {h \in Groups : Live(h)}} :
          sock' = i /\ grp' = [grp EXCEPT ![g].ino = i]
  BY DEF Bind
<1>3. /\ grp[g].st = "up" /\ grp[g].ino = None /\ grp[g].sig # "kill" /\ Refused
      /\ UNCHANGED <<lock, ens, lc, rst, srv, budget, cut>>
  BY DEF Bind
<1>4. i \in Nat /\ i # None
  BY HostAssumption DEF None
<1>5. PICK y : y = [grp[g] EXCEPT !.ino = i]
  OBVIOUS
<1>6. y \in Engine /\ Sane(y) /\ y.by = grp[g].by /\ y.st = "up" /\ y.sig = grp[g].sig /\ y.stop = grp[g].stop
      /\ y.reg = grp[g].reg /\ y.ino = i
  BY <1>1, <1>3, <1>4, <1>5 DEF Engine, Sane, OfGroup, Up
<1>7. grp' = [grp EXCEPT ![g] = y] /\ grp'[g] = y /\ \A h \in Groups \ {g} : grp'[h] = grp[h]
  BY <1>1, <1>2, <1>5 DEF HostType
<1>8. HostType'
  BY <1>1, <1>3, <1>4, <1>2, <1>6, <1>7 DEF HostType
<1>9. ~grp[g].reg
  BY <1>1, <1>3 DEF OfGroup, Sane
<1>10. ASSUME NEW t \in Servers PROVE OfServer(t)'
  <2>1. \A h : Mine(grp, t, h) <=> Mine(grp', t, h)
    BY <1>3, <1>6, <1>7 DEF Mine
  <2>2. /\ Local(t, ens[t], lc[t], srv[t], rst[t], lock)
        /\ Lists(t, ens[t], lc[t], srv[t], grp)
        /\ Replaced(t, ens[t], lc[t], srv[t], rst[t], grp)
    BY <1>1 DEF OfServer
  <2>3. \A h \in Groups : /\ grp'[h].reg = grp[h].reg /\ grp'[h].stop = grp[h].stop
                          /\ grp'[h].sig = grp[h].sig /\ Up(grp'[h]) = Up(grp[h])
                          /\ grp[h].ino # None => grp'[h].ino = grp[h].ino
    BY <1>3, <1>6, <1>7 DEF Up
  <2>4. Lists(t, ens[t], lc[t], srv[t], grp')
    <3>1. \A h : Mine(grp, t, h) => h \in Groups
      BY DEF Mine
    <3>2. ens[t].pc \in Attempting => ens[t].g \in Groups
      BY <2>2, <3>1 DEF Lists
    <3>3. ens[t].pc = "handshake" /\ ens[t].conn = ens[t].g => grp'[ens[t].g].ino = ens[t].before
      BY <2>2, <2>3, <3>2 DEF Lists, Attempting, Launching
    <3>4. \A h \in Groups : Listed(lc[t], srv[t], h) =>
              Mine(grp', t, h) /\ (grp'[h].stop \in {"no", "term", "kill"} => grp'[h].reg)
      BY <2>1, <2>2, <2>3 DEF Lists
    <3>5. /\ ens[t].pc \in Attempting => Mine(grp', t, ens[t].g) /\ grp'[ens[t].g].reg = (ens[t].pc = "ready")
          /\ ens[t].pc \in Failing => grp'[ens[t].g].stop # "no"
          /\ ens[t].pc \in Launching \cup {"ready"} => grp'[ens[t].g].stop = "no" /\ ~Listed(lc[t], srv[t], ens[t].g)
      BY <2>1, <2>2, <2>3, <3>2 DEF Lists, Attempting
    <3> QED
      BY <2>1, <2>2, <3>3, <3>4, <3>5 DEF Lists
  <2>5. Replaced(t, ens[t], lc[t], srv[t], rst[t], grp')
    <3>1. \A h : Mine(grp, t, h) => h \in Groups
      BY DEF Mine
    <3> QED
      BY <2>1, <2>2, <2>3, <3>1 DEF Replaced
  <2> QED
    BY <1>3, <2>2, <2>4, <2>5 DEF OfServer
<1>11. ASSUME NEW h \in Groups PROVE OfGroup(h)'
  <2>1. CASE h # g
    BY <2>1, <1>3, <1>7 DEF HostInv, OfGroup
  <2>2. CASE h = g
    <3>1. \A s \in Servers : grp[g].by = s => Tended(g, y, ens[s], lc[s], srv[s]) /\ Guarded(g, s, y, ens[s], srv[s], lock)
      BY <1>1, <1>3, <1>4, <1>6 DEF OfGroup, Tended, Guarded, Up
    <3> QED
      BY <2>2, <3>1, <1>3, <1>6, <1>7 DEF OfGroup
  <2> QED
    BY <2>1, <2>2
<1>12. CutRight'
  <2>1. CutRight /\ cut \subseteq Groups
    BY DEF HostInv, HostType
  <2>2. \A h \in Groups : /\ Spared(h)' <=> Spared(h)
                          /\ grp'[h].st = grp[h].st
    BY <1>3, <1>6, <1>7 DEF Spared
  <2>3. Cutting' => Cutting
    BY <1>3, <1>6, <1>7 DEF Cutting
  <2>4. \A h \in Listeners' : h = g
    BY <1>2, <1>7 DEF Listeners, Live
  <2>5. ASSUME Cutting, ~Spared(g) PROVE FALSE
    <3>1. PICK s : s \in Servers /\ grp[g].by = s
      BY <2>5 DEF Spared
    <3>2. srv[s].st # "crashed"
      BY <2>5, <3>1, <1>9 DEF Spared
    <3>3. lock = <<s, 0>> /\ Has(ens[s], g)
      BY <1>1, <1>3, <3>1, <3>2 DEF OfGroup, Guarded
    <3>4. ASSUME NEW h \in Groups, grp[h].stop = "remove" PROVE FALSE
      <4>1. OfGroup(h) /\ grp[h].by \in Servers
        BY <3>4 DEF HostInv, OfGroup, Sane
      <4>2. PICK t \in Servers : t = grp[h].by
        BY <4>1
      <4>3. lock = <<t, h>> \/ (ens[t].pc \in Failing /\ ens[t].g = h)
        BY <4>1, <4>2, <3>4 DEF OfGroup, Guarded
      <4>4. CASE lock = <<t, h>>
        BY <4>4, <3>3, LockNames, HostAssumption
      <4>5. CASE ens[t].pc \in Failing /\ ens[t].g = h
        <5>1. lock = <<t, 0>>
          BY <4>5, <1>1 DEF OfServer, Local, Holding, Attempting
        <5>2. t = s /\ h = g
          BY <5>1, <3>3, <4>5, LockNames DEF Has
        <5>3. grp[g].st = "gone"
          BY <5>2, <3>4, <1>1 DEF OfGroup, Sane
        <5> QED
          BY <5>3, <1>3
      <4> QED
        BY <4>3, <4>4, <4>5
    <3>5. ASSUME NEW t \in Servers, rst[t].pc = "rremove" PROVE FALSE
      <4>1. lock = <<t, -1>>
        BY <3>5, <1>1 DEF OfServer, Local
      <4> QED
        BY <4>1, <3>3, LockNames
    <3> QED
      BY <2>5, <3>4, <3>5 DEF Cutting
  <2> QED
    BY <1>3, <2>1, <2>2, <2>3, <2>4, <2>5 DEF CutRight
<1> QED
  BY <1>8, <1>10, <1>11, <1>12 DEF HostInv


-----------------------------------------------------------------------------
(***************************************************************************)
(* The stop of a launched group.                                           *)
(***************************************************************************)

\* The stop of an engine goes on from x to y.
Advances(x, y) ==
    /\ y.by = x.by /\ y.st = x.st /\ y.ino = x.ino
    /\ y.sig = x.sig \/ (x.sig # "kill" /\ y.sig \in {"term", "kill"})
    /\ x.stop \notin {"no", "done", "fail"} /\ y.stop # "no"
    /\ y.reg => x.reg
    /\ y.stop \in {"term", "kill"} => y.reg = x.reg /\ x.stop \in {"term", "kill"}
    /\ Sane(y) /\ (Up(y) /\ y.stop = "fail" => y.sig = "kill")

\* The group g of server s becomes y, with the lock or under the server's.
LEMMA GroupStep ==
    ASSUME HostInv, NEW g \in Groups, NEW y \in Engine, UNCHANGED <<ens, lc, srv, rst>>, CutsOnly, sock' \in Nat,
           grp' = [grp EXCEPT ![g] = y], Advances(grp[g], y),
           NEW s \in Servers, grp[g].by = s,
           \/ lock' = lock
           \/ lock = Free /\ lock' = <<s, g>>
           \/ lock = <<s, g>> /\ y.stop \notin {"clean", "remove"},
           y.stop = "remove" => Listeners = {},
           y.stop \in {"clean", "remove"} => lock' = <<s, g>> \/ (ens[s].pc \in Failing /\ ens[s].g = g)
    PROVE  HostInv'
<1>1. HostType /\ OfServer(s) /\ \A h \in Groups : OfGroup(h) /\ grp[h] \in Engine
  BY DEF HostInv, HostType
<1>2. grp'[g] = y /\ \A h \in Groups \ {g} : grp'[h] = grp[h]
  BY <1>1 DEF HostType
<1>3. HostType'
  BY <1>1 DEF HostType, CutsOnly, Listeners
<1>. USE DEF Advances
<1>4. grp[g].st # "none" /\ srv[s].st # "crashed" /\ (ens[s].pc \in Attempting /\ ens[s].g = g => ens[s].pc \in Failing)
  <2>1. Sane(grp[g]) /\ Tended(g, grp[g], ens[s], lc[s], srv[s]) /\ Lists(s, ens[s], lc[s], srv[s], grp)
    BY <1>1 DEF OfGroup, OfServer
  <2>2. grp[g].st # "none" /\ srv[s].st # "crashed"
    BY <2>1 DEF Sane, NoGroup, Tended
  <2>3. ens[s].pc \in Attempting /\ ens[s].g = g => ens[s].pc \in Failing
    BY <2>1 DEF Lists, Attempting
  <2> QED
    BY <2>2, <2>3
<1>4a. \A h \in Groups : Treats(s, h)
  BY <1>2, <1>4, Still DEF Treats, Up
<1>5. \A t \in Servers \ {s} : Yields(t)
  BY LockNames DEF Yields
<1>5a. (ens[s].pc \in Holding => lock' = lock) /\ (rst[s].pc = "rremove" => lock' = lock)
  <2>1. (ens[s].pc \in Holding => lock = <<s, 0>>) /\ (rst[s].pc = "rremove" => lock = <<s, -1>>)
    BY <1>1 DEF OfServer, Local
  <2>2. <<s, 0>> # Free /\ <<s, -1>> # Free /\ <<s, 0>> # <<s, g>> /\ <<s, -1>> # <<s, g>>
    BY LockNames, HostAssumption
  <2> QED
    BY <2>1, <2>2
<1>6. \A h : Mine(grp', s, h) <=> Mine(grp, s, h)
  BY <1>2 DEF Mine
<1>7. Local(s, ens[s], lc[s], srv[s], rst[s], lock')
  BY <1>1, <1>5a DEF OfServer, Local
<1>8. Lists(s, ens[s], lc[s], srv[s], grp')
  <2>1. Lists(s, ens[s], lc[s], srv[s], grp)
    BY <1>1 DEF OfServer
  <2>2. \A h \in Groups : Listed(lc[s], srv[s], h) =>
            Mine(grp', s, h) /\ (grp'[h].stop \in {"no", "term", "kill"} => grp'[h].reg)
    BY <2>1, <1>2, <1>6 DEF Lists
  <2>3. ens[s].pc \in Attempting => ens[s].g \in Groups
    BY <2>1 DEF Lists, Mine
  <2>4. ens[s].pc \in Attempting =>
            /\ Mine(grp', s, ens[s].g) /\ grp'[ens[s].g].reg = grp[ens[s].g].reg
            /\ grp'[ens[s].g].ino = grp[ens[s].g].ino
            /\ grp[ens[s].g].stop # "no" => grp'[ens[s].g].stop # "no"
            /\ grp[ens[s].g].stop = "no" => grp'[ens[s].g].stop = "no"
    <3>1. CASE ens[s].g = g
      <4>1. ens[s].pc \in Attempting => ~grp[g].reg /\ Mine(grp, s, g)
        BY <3>1, <2>1, <1>4 DEF Lists, Failing
      <4>2. grp[g].reg \in BOOLEAN /\ y.reg \in BOOLEAN
        BY <1>1 DEF Engine
      <4> QED
        BY <3>1, <4>1, <4>2, <1>2, <1>6
    <3>2. CASE ens[s].g # g
      BY <3>2, <2>1, <2>3, <1>2, <1>6 DEF Lists
    <3> QED
      BY <3>1, <3>2
  <2>5. /\ ens[s].pc = "handshake" /\ ens[s].conn = ens[s].g => grp'[ens[s].g].ino = ens[s].before
        /\ ens[s].pc \in Attempting => Mine(grp', s, ens[s].g) /\ grp'[ens[s].g].reg = (ens[s].pc = "ready")
        /\ ens[s].pc \in Failing => grp'[ens[s].g].stop # "no"
        /\ ens[s].pc \in Launching \cup {"ready"} => grp'[ens[s].g].stop = "no" /\ ~Listed(lc[s], srv[s], ens[s].g)
    BY <2>1, <2>4 DEF Lists, Attempting, Launching
  <2> QED
    BY <2>1, <2>2, <2>5, <1>6 DEF Lists
<1>9. Replaced(s, ens[s], lc[s], srv[s], rst[s], grp')
  <2>1. Replaced(s, ens[s], lc[s], srv[s], rst[s], grp)
    BY <1>1 DEF OfServer
  <2>2. \A h : Mine(grp, s, h) => h \in Groups
    BY DEF Mine
  <2>3. \A h \in Groups :
            (Up(grp[h]) => grp[h].sig = "kill" /\ grp[h].stop = "fail" /\ ~grp[h].reg)
            => (Up(grp'[h]) => grp'[h].sig = "kill" /\ grp'[h].stop = "fail" /\ ~grp'[h].reg)
    BY <1>2 DEF Up
  <2> QED
    BY <1>6, <2>1, <2>2, <2>3 DEF Replaced
<1>10. ASSUME NEW h \in Groups, grp'[h].by = s
       PROVE  /\ Sane(grp'[h]) /\ Tended(h, grp'[h], ens[s], lc[s], srv[s])
              /\ Guarded(h, s, grp'[h], ens[s], srv[s], lock')
  <2>1. CASE h = g
    <3>1. Tended(g, grp[g], ens[s], lc[s], srv[s]) /\ Guarded(g, s, grp[g], ens[s], srv[s], lock) /\ grp[g] \in Engine
      BY <1>1 DEF OfGroup
    <3>2. Tended(g, y, ens[s], lc[s], srv[s])
      BY <3>1, <1>1 DEF Tended, Up, Engine, OfGroup, Sane
    <3>3. Guarded(g, s, y, ens[s], srv[s], lock')
      BY <3>1, <1>5a DEF Guarded, Has, Holding, Engine
    <3> QED
      BY <2>1, <3>2, <3>3, <1>2
  <2>2. CASE h # g
    <3>1. Sane(grp[h]) /\ Tended(h, grp[h], ens[s], lc[s], srv[s]) /\ Guarded(h, s, grp[h], ens[s], srv[s], lock)
      BY <1>1, <1>2, <1>10, <2>2 DEF OfGroup
    <3>2. <<s, h>> # <<s, g>> /\ <<s, h>> # Free /\ <<s, 0>> # Free /\ <<s, 0>> # <<s, g>>
      BY <2>2, LockNames, HostAssumption
    <3>3. Guarded(h, s, grp[h], ens[s], srv[s], lock')
      BY <3>1, <3>2, <2>2, <1>5a DEF Guarded, Has, Holding
    <3> QED
      BY <2>2, <3>1, <3>3, <1>2
  <2> QED
    BY <2>1, <2>2
<1> QED
  BY <1>3, <1>4, <1>4a, <1>5, <1>7, <1>8, <1>9, <1>10, ServerStep


\* Who stops an engine: its server, which lives.
LEMMA StoppedBy ==
    ASSUME HostInv, NEW g \in Groups, grp[g].stop # "no"
    PROVE  \E s \in Servers :
              /\ grp[g].by = s /\ HostType /\ grp[g] \in Engine /\ Sane(grp[g]) /\ grp[g].st # "none"
              /\ Tended(g, grp[g], ens[s], lc[s], srv[s]) /\ Guarded(g, s, grp[g], ens[s], srv[s], lock)
BY DEF HostInv, HostType, OfGroup, Sane, NoGroup

LEMMA StopWaitKeeps == ASSUME HostInv, NEW g \in Groups, StopWait(g) PROVE HostInv'
<1>1. /\ grp[g].stop \in {"term", "kill"} /\ UNCHANGED <<sock, lock, ens, lc, rst, srv, cut>>
  BY DEF StopWait
<1>2. PICK s \in Servers :
          /\ grp[g].by = s /\ HostType /\ grp[g] \in Engine /\ Sane(grp[g]) /\ grp[g].st # "none"
          /\ Tended(g, grp[g], ens[s], lc[s], srv[s]) /\ Guarded(g, s, grp[g], ens[s], srv[s], lock)
  BY <1>1, StoppedBy
<1>3. CutsOnly /\ sock' \in Nat
  BY <1>1, <1>2 DEF CutsOnly, HostType
<1>4. CASE grp[g].st = "gone" /\ grp' = [grp EXCEPT ![g].stop = IF grp[g].reg THEN "lock" ELSE "clean", ![g].reg = FALSE]
  <2>1. PICK next : next = IF grp[g].reg THEN "lock" ELSE "clean"
    OBVIOUS
  <2>2. PICK y : y = [grp[g] EXCEPT !.stop = next, !.reg = FALSE]
    OBVIOUS
  <2>3. y \in Engine /\ Advances(grp[g], y) /\ grp' = [grp EXCEPT ![g] = y]
    BY <1>1, <1>2, <1>4, <2>1, <2>2 DEF Engine, Advances, Sane, Up, HostType
  <2>4. y.stop = next /\ (next = "clean" => ens[s].pc \in Failing /\ ens[s].g = g)
    BY <1>1, <1>2, <2>1, <2>2 DEF Tended, Engine
  <2> QED
    BY <1>1, <1>2, <1>3, <2>1, <2>3, <2>4, GroupStep
<1>5. CASE Live(g) /\ grp[g].stop = "term" /\ grp' = [Signal(grp, g, "kill") EXCEPT ![g].stop = "kill"]
  <2>1. PICK y : y = [grp[g] EXCEPT !.sig = "kill", !.stop = "kill"]
    OBVIOUS
  <2>2. grp' = [grp EXCEPT ![g] = y]
    BY <1>2, <1>5, <2>1 DEF Signal, HostType
  <2>3. y \in Engine /\ Advances(grp[g], y) /\ y.stop = "kill"
    BY <1>1, <1>2, <1>5, <2>1 DEF Engine, Advances, Sane, Up
  <2> QED
    BY <1>1, <1>2, <1>3, <2>2, <2>3, GroupStep
<1>6. CASE Live(g) /\ grp[g].stop = "kill" /\ grp' = [grp EXCEPT ![g].stop = "fail"]
  <2>1. PICK y : y = [grp[g] EXCEPT !.stop = "fail"]
    OBVIOUS
  <2>2. grp' = [grp EXCEPT ![g] = y]
    BY <1>2, <1>6, <2>1 DEF HostType
  <2>3. y \in Engine /\ Advances(grp[g], y) /\ y.stop = "fail"
    BY <1>1, <1>2, <1>6, <2>1 DEF Engine, Advances, Sane, Up
  <2> QED
    BY <1>1, <1>2, <1>3, <2>2, <2>3, GroupStep
<1> QED
  BY <1>4, <1>5, <1>6 DEF StopWait

LEMMA StopLockKeeps == ASSUME HostInv, NEW g \in Groups, StopLock(g) PROVE HostInv'
<1>1. grp[g].stop = "lock" /\ UNCHANGED <<sock, ens, lc, rst, srv, budget, cut>>
  BY DEF StopLock
<1>2. PICK s \in Servers :
          /\ grp[g].by = s /\ HostType /\ grp[g] \in Engine /\ Sane(grp[g]) /\ grp[g].st # "none"
          /\ Tended(g, grp[g], ens[s], lc[s], srv[s]) /\ Guarded(g, s, grp[g], ens[s], srv[s], lock)
  BY <1>1, StoppedBy
<1>3. CutsOnly /\ sock' \in Nat
  BY <1>1, <1>2 DEF CutsOnly, HostType
<1>4. PICK how \in {"clean", "fail"} :
          /\ grp' = [grp EXCEPT ![g].stop = how]
          /\ IF how = "clean" THEN lock = Free /\ lock' = <<s, g>> ELSE lock' = lock
  BY <1>2 DEF StopLock
<1>5. PICK y : y = [grp[g] EXCEPT !.stop = how]
  OBVIOUS
<1>6. y \in Engine /\ Advances(grp[g], y) /\ grp' = [grp EXCEPT ![g] = y] /\ y.stop = how
  BY <1>1, <1>2, <1>4, <1>5 DEF Engine, Advances, Sane, Up, HostType
<1> QED
  BY <1>1, <1>2, <1>3, <1>4, <1>6, GroupStep

LEMMA CleanKeeps == ASSUME HostInv, NEW g \in Groups, CleanAfterReap(g) \/ RemoveOwned(g) PROVE HostInv'
<1>1. grp[g].stop \in {"clean", "remove"} /\ UNCHANGED <<ens, lc, rst, srv, budget>>
  BY DEF CleanAfterReap, RemoveOwned
<1>2. PICK s \in Servers :
          /\ grp[g].by = s /\ HostType /\ grp[g] \in Engine /\ Sane(grp[g]) /\ grp[g].st # "none"
          /\ Tended(g, grp[g], ens[s], lc[s], srv[s]) /\ Guarded(g, s, grp[g], ens[s], srv[s], lock)
  BY <1>1, StoppedBy
<1>3. CutsOnly /\ sock' \in Nat
  <2>1. RemoveOwned(g) => Cutting
    BY DEF RemoveOwned, Cutting
  <2> QED
    BY <1>2, <2>1 DEF CutsOnly, HostType, CleanAfterReap, RemoveOwned, Unlink, None
<1>4. lock = <<s, g>> \/ (ens[s].pc \in Failing /\ ens[s].g = g)
  BY <1>1, <1>2 DEF Guarded
<1>5. CASE Refused /\ lock' = lock /\ grp' = [grp EXCEPT ![g].stop = "remove"]
  <2>1. PICK y : y = [grp[g] EXCEPT !.stop = "remove"]
    OBVIOUS
  <2>2. y \in Engine /\ Advances(grp[g], y) /\ grp' = [grp EXCEPT ![g] = y] /\ y.stop = "remove"
    BY <1>1, <1>2, <1>5, <2>1 DEF Engine, Advances, Sane, Up, HostType
  <2> QED
    BY <1>1, <1>2, <1>3, <1>4, <1>5, <2>2, GroupStep DEF Refused
<1>6. CASE Unlock(<<grp[g].by, g>>) /\ grp' = Forget(grp, g, "done")
  <2>1. PICK y : y = [grp[g] EXCEPT !.stop = "done", !.base = None, !.own = {}, !.foreign = {}]
    OBVIOUS
  <2>2. grp' = [grp EXCEPT ![g] = y]
    BY <1>2, <1>6, <2>1 DEF Forget, HostType
  <2>3. y \in Engine /\ Advances(grp[g], y) /\ y.stop = "done"
    BY <1>1, <1>2, <2>1 DEF Engine, Advances, Sane, Up, None
  <2>4. lock' = lock \/ lock = <<s, g>>
    BY <1>2, <1>6 DEF Unlock
  <2> QED
    BY <1>1, <1>2, <1>3, <2>2, <2>3, <2>4, GroupStep
<1> QED
  BY <1>5, <1>6 DEF CleanAfterReap, RemoveOwned


-----------------------------------------------------------------------------
(***************************************************************************)
(* A server's EnsureDaemon.                                                *)
(***************************************************************************)

\* Server s becomes <<e, l, v, r>>; grp' is what has become of the groups.
Becomes(s, e, l, v, r) ==
    /\ e \in Ensure /\ ens' = [ens EXCEPT ![s] = e]
    /\ l \in Lifecycle /\ lc' = [lc EXCEPT ![s] = l]
    /\ v \in Server /\ srv' = [srv EXCEPT ![s] = v]
    /\ r \in Successor /\ rst' = [rst EXCEPT ![s] = r]

LEMMA HostStep ==
    ASSUME HostInv, NEW s \in Servers, NEW e, NEW l, NEW v, NEW r, Becomes(s, e, l, v, r), CutsOnly,
           grp' \in [Groups -> Engine], \A g \in Groups : Treats(s, g),
           lock' = lock \/ lock = Free \/ (\E a : lock = <<s, a>>) \/ lock[1] = s,
           srv[s].st # "crashed",
           r.pc = "rremove" => rst[s].pc = "rremove" \/ Listeners = {},
           Local(s, e, l, v, r, lock'), Lists(s, e, l, v, grp'), Replaced(s, e, l, v, r, grp'),
           \A g \in Groups : grp'[g].by = s =>
               Sane(grp'[g]) /\ Tended(g, grp'[g], e, l, v) /\ Guarded(g, s, grp'[g], e, v, lock')
    PROVE  HostInv'
<1>1. HostType
  BY DEF HostInv
<1>2. HostType'
  BY <1>1 DEF HostType, Becomes, CutsOnly, Listeners, None
<1>3. /\ ens'[s] = e /\ lc'[s] = l /\ srv'[s] = v /\ rst'[s] = r
      /\ \A t \in Servers \ {s} : ens'[t] = ens[t] /\ lc'[t] = lc[t] /\ srv'[t] = srv[t] /\ rst'[t] = rst[t]
  BY <1>1 DEF HostType, Becomes
<1>4. \A t \in Servers \ {s} : Yields(t)
  BY LockNames DEF Yields
<1> HIDE DEF Becomes
<1> QED
  BY <1>2, <1>3, <1>4, ServerStep

\* As long as no engine is touched, or signalled at most.
LEMMA MildStep ==
    ASSUME HostInv, NEW s \in Servers, NEW e, NEW l, NEW v, NEW r, Becomes(s, e, l, v, r), CutsOnly,
           grp' \in [Groups -> Engine], \A g \in Groups : Mild(grp[g], grp'[g]),
           lock' = lock \/ lock = Free \/ \E a : lock = <<s, a>>,
           srv[s].st # "crashed",
           r.pc = "rremove" => rst[s].pc = "rremove" \/ Listeners = {},
           Local(s, e, l, v, r, lock'), Lists(s, e, l, v, grp), Replaced(s, e, l, v, r, grp),
           \A g \in Groups : grp[g].by = s => Tended(g, grp[g], e, l, v) /\ Guarded(g, s, grp[g], e, v, lock')
    PROVE  HostInv'
<1>1. \A g \in Groups : Treats(s, g) /\ grp[g] \in Engine /\ grp'[g] \in Engine /\ Sane(grp[g])
  BY DEF HostInv, HostType, OfGroup, Treats
<1>2. Lists(s, e, l, v, grp') /\ Replaced(s, e, l, v, r, grp')
  BY <1>1, MildLists
<1>3. ASSUME NEW g \in Groups, grp'[g].by = s
      PROVE  Sane(grp'[g]) /\ Tended(g, grp'[g], e, l, v) /\ Guarded(g, s, grp'[g], e, v, lock')
  <2>1. grp[g].by = s
    BY <1>3 DEF Mild
  <2>2. Sane(grp'[g]) /\ Tended(g, grp'[g], e, l, v)
    BY <1>1, <2>1, MildTended
  <2>3. Guarded(g, s, grp'[g], e, v, lock')
    BY <1>1, <2>1 DEF Guarded, Mild, Engine
  <2> QED
    BY <2>2, <2>3
<1> QED
  BY <1>1, <1>2, <1>3, HostStep

LEMMA QuietStep ==
    ASSUME HostInv, NEW s \in Servers, NEW e, NEW l, NEW v, NEW r, Becomes(s, e, l, v, r), CutsOnly,
           grp' = grp, lock' = lock \/ lock = Free \/ \E a : lock = <<s, a>>,
           srv[s].st # "crashed",
           r.pc = "rremove" => rst[s].pc = "rremove" \/ Listeners = {},
           Local(s, e, l, v, r, lock'), Lists(s, e, l, v, grp), Replaced(s, e, l, v, r, grp),
           \A g \in Groups : grp[g].by = s => Tended(g, grp[g], e, l, v) /\ Guarded(g, s, grp[g], e, v, lock')
    PROVE  HostInv'
<1>1. grp' \in [Groups -> Engine] /\ \A g \in Groups : Mild(grp[g], grp'[g])
  BY Still DEF HostInv, HostType
<1> QED
  BY <1>1, MildStep

\* What the invariant says of one server.
LEMMA View ==
    ASSUME HostInv, NEW s \in Servers
    PROVE  /\ HostType /\ ens[s] \in Ensure /\ lc[s] \in Lifecycle /\ srv[s] \in Server /\ rst[s] \in Successor
           /\ Local(s, ens[s], lc[s], srv[s], rst[s], lock)
           /\ Lists(s, ens[s], lc[s], srv[s], grp)
           /\ Replaced(s, ens[s], lc[s], srv[s], rst[s], grp)
           /\ \A g \in Groups : /\ grp[g] \in Engine /\ Sane(grp[g])
                                /\ grp[g].by = s => /\ Tended(g, grp[g], ens[s], lc[s], srv[s])
                                                    /\ Guarded(g, s, grp[g], ens[s], srv[s], lock)
BY DEF HostInv, HostType, OfServer, OfGroup

\* An engine of s that no EnsureDaemon has in its hands.
Resting(g, s, x, l, v, k) ==
    /\ Up(x) => \/ x.stop = "fail" /\ x.sig = "kill"
                \/ g \in l.generation /\ g \in l.owned \cup v.todo \cup {v.ensured}
    /\ Up(x) /\ x.reg /\ v.st \in {"starting", "quit", "serving"} => g \in l.generation
    /\ x.stop \in {"term", "kill"} => x.reg
    /\ Up(x) /\ x.stop = "fail" => x.sig = "kill"
    /\ x.st = "up" /\ x.ino = None => x.sig = "kill"
    /\ x.stop \in {"clean", "remove"} => k = <<s, g>>

LEMMA Rests ==
    ASSUME HostInv, NEW s \in Servers, srv[s].st \in Running, ens[s].pc # "late",
           NEW g \in Groups, grp[g].by = s,
           Has(ens[s], g) => Stopped(g),
           lock' = lock \/ lock = <<s, 0>> \/ lock = Free
    PROVE  Resting(g, s, grp[g], lc[s], srv[s], lock')
<1>1. /\ grp[g] \in Engine /\ Sane(grp[g]) /\ Tended(g, grp[g], ens[s], lc[s], srv[s])
      /\ Guarded(g, s, grp[g], ens[s], srv[s], lock)
      /\ Lists(s, ens[s], lc[s], srv[s], grp)
  BY View
<1>2. srv[s].st # "crashed" /\ srv[s].st # "exited"
  BY DEF Running, Serving
<1>3. <<s, g>> # <<s, 0>> /\ <<s, g>> # Free
  BY LockNames, HostAssumption
<1>4. Has(ens[s], g) => ~Up(grp[g]) \/ (grp[g].sig = "kill" /\ grp[g].stop = "fail")
  BY <1>1, <1>2 DEF Stopped, Sane, Tended, Up
<1>5. ens[s].pc \in Failing /\ ens[s].g = g => Stopped(g)
  BY <1>1 DEF Has, Attempting, Failing, Lists
<1>6. Up(grp[g]) => \/ grp[g].stop = "fail" /\ grp[g].sig = "kill"
                    \/ g \in lc[s].generation /\ g \in lc[s].owned \cup srv[s].todo \cup {srv[s].ensured}
  BY <1>1, <1>2, <1>4 DEF Tended
<1>7. Up(grp[g]) /\ grp[g].reg /\ srv[s].st \in {"starting", "quit", "serving"} => g \in lc[s].generation
  <2>1. ens[s].pc = "ready" /\ ens[s].g = g => ~Up(grp[g])
    BY <1>1 DEF Has, Attempting, Stopped, Lists
  <2> QED
    BY <1>1, <2>1 DEF Tended
<1>8. grp[g].stop \in {"term", "kill"} => grp[g].reg
  BY <1>1, <1>5 DEF Tended, Stopped
<1>9. Up(grp[g]) /\ grp[g].stop = "fail" => grp[g].sig = "kill"
  BY <1>1, <1>2 DEF Tended
<1>10. grp[g].st = "up" /\ grp[g].ino = None => grp[g].sig = "kill"
  BY <1>1, <1>2, <1>4 DEF Guarded, Up
<1>11. grp[g].stop \in {"clean", "remove"} => lock' = <<s, g>>
  BY <1>1, <1>3, <1>5 DEF Guarded, Stopped
<1> QED
  BY <1>6, <1>7, <1>8, <1>9, <1>10, <1>11 DEF Resting

LEMMA RestTended ==
    ASSUME NEW g, NEW s, NEW x, NEW e, NEW l, NEW v, NEW k, v.st \in Running, Resting(g, s, x, l, v, k)
    PROVE  Tended(g, x, e, l, v) /\ Guarded(g, s, x, e, v, k)
BY DEF Resting, Tended, Guarded, Running, Serving


\* EnsureDaemon of s has nothing in its hands any more.
Over(s) == ens[s].pc \notin {"idle", "late"} /\ (ens[s].pc \in Attempting => Stopped(ens[s].g))

LEMMA OverRests ==
    ASSUME HostInv, NEW s \in Servers, Over(s), Unlock(<<s, 0>>)
    PROVE  /\ srv[s].st \in Running
           /\ lock' = lock \/ lock = <<s, 0>>
           /\ lock' = <<s, -1>> <=> lock = <<s, -1>>
           /\ \A g \in Groups : grp[g].by = s => Resting(g, s, grp[g], lc[s], srv[s], lock')
<1>1. srv[s].st \in Running
  BY View DEF Over, Local, Running, Serving, Server
<1>2. lock' = lock \/ lock = <<s, 0>>
  BY DEF Unlock
<1>3. \A g \in Groups : Has(ens[s], g) => Stopped(g)
  BY DEF Over, Has
<1>4. lock' = <<s, -1>> <=> lock = <<s, -1>>
  <2>1. <<s, -1>> # <<s, 0>> /\ <<s, -1>> # Free
    BY LockNames
  <2> QED
    BY <2>1 DEF Unlock
<1> QED
  BY <1>1, <1>2, <1>3, <1>4, Rests DEF Over

LEMMA NoEnsureTyped == NoEnsure \in Ensure /\ NoEnsure.pc = "idle" /\ NoEnsure.g = None
BY DEF NoEnsure, Ensure, None

LEMMA ReturnErrorKeeps ==
    ASSUME HostInv, NEW s \in Servers, Over(s), ReturnError(s), UNCHANGED <<sock, grp, rst, cut>>
    PROVE  HostInv'
<1>1. /\ HostType /\ ens[s] \in Ensure /\ lc[s] \in Lifecycle /\ srv[s] \in Server /\ rst[s] \in Successor
      /\ Local(s, ens[s], lc[s], srv[s], rst[s], lock)
      /\ Lists(s, ens[s], lc[s], srv[s], grp)
      /\ Replaced(s, ens[s], lc[s], srv[s], rst[s], grp)
  BY View
<1>2. Unlock(<<s, 0>>) /\ ens' = [ens EXCEPT ![s] = NoEnsure] /\ ens[s].pc # "idle"
  BY DEF ReturnError, Over
<1>3. /\ srv[s].st \in Running
      /\ lock' = lock \/ lock = <<s, 0>>
      /\ lock' = <<s, -1>> <=> lock = <<s, -1>>
      /\ \A g \in Groups : grp[g].by = s => Resting(g, s, grp[g], lc[s], srv[s], lock')
  BY <1>2, OverRests
<1>4. CASE ens[s].who = "main"
  <2>1. PICK v : v = [srv[s] EXCEPT !.st = "exited"]
    OBVIOUS
  <2>2. /\ v \in Server /\ v.st = "exited" /\ v.conn = None /\ v.flight = srv[s].flight /\ v.todo = srv[s].todo /\ v.ensured = srv[s].ensured
        /\ srv[s].st \in {"starting", "quit"} /\ srv[s].flight = "idle" /\ rst[s].pc = "idle" /\ srv[s].todo = {}
        /\ srv[s].ensured = None /\ lc[s].generation = {} /\ lc[s].owned = {}
    BY <1>1, <1>2, <1>4, <2>1 DEF Local, Server, Serving
  <2>3. Becomes(s, NoEnsure, lc[s], v, rst[s])
    BY <1>1, <1>2, <1>4, <2>1, <2>2, NoEnsureTyped DEF Becomes, ReturnError, HostType
  <2>4. Local(s, NoEnsure, lc[s], v, rst[s], lock')
    BY <1>1, <2>2, NoEnsureTyped DEF Local, Holding, Attempting, Launching, Failing, Retiring
  <2>5. Lists(s, NoEnsure, lc[s], v, grp)
    BY <1>1, <2>2, NoEnsureTyped DEF Lists, Listed, Attempting, Launching, Failing
  <2>6. Replaced(s, NoEnsure, lc[s], v, rst[s], grp)
    BY <2>2 DEF Replaced
  <2>7. ASSUME NEW g \in Groups, grp[g].by = s
        PROVE  Tended(g, grp[g], NoEnsure, lc[s], v) /\ Guarded(g, s, grp[g], NoEnsure, v, lock')
    BY <1>3, <2>2, <2>7 DEF Resting, Tended, Guarded
  <2> QED
    BY <1>3, <2>2, <2>3, <2>4, <2>5, <2>6, <2>7, QuietStep DEF CutsOnly, Running, Serving
<1>5. CASE ens[s].who # "main"
  <2>1. PICK v, l : v = [srv[s] EXCEPT !.flight = "idle"] /\ l = [lc[s] EXCEPT !.barrier = "free"]
    OBVIOUS
  <2>2. /\ v \in Server /\ l \in Lifecycle
        /\ v.st = srv[s].st /\ v.conn = srv[s].conn /\ v.flight = "idle" /\ v.todo = srv[s].todo /\ v.ensured = srv[s].ensured
        /\ l.generation = lc[s].generation /\ l.owned = lc[s].owned /\ l.stopping = lc[s].stopping
        /\ l.current = lc[s].current /\ lc[s].barrier = "ensure"
    BY <1>1, <1>2, <1>5, <2>1 DEF Local, Server, Lifecycle
  <2>3. Becomes(s, NoEnsure, l, v, rst[s])
    BY <1>1, <1>2, <1>5, <2>1, <2>2, NoEnsureTyped DEF Becomes, ReturnError, HostType
  <2>4. Local(s, NoEnsure, l, v, rst[s], lock')
    BY <1>1, <1>3, <2>2, NoEnsureTyped DEF Local, Holding, Attempting, Launching, Failing, Serving
  <2>5. Lists(s, NoEnsure, l, v, grp)
    BY <1>1, <2>2, NoEnsureTyped DEF Lists, Listed, Attempting, Launching, Failing
  <2>6. Replaced(s, NoEnsure, l, v, rst[s], grp)
    BY <1>1, <2>2, NoEnsureTyped, HostAssumption DEF Replaced, Successor, None
  <2>7. ASSUME NEW g \in Groups, grp[g].by = s
        PROVE  Tended(g, grp[g], NoEnsure, l, v) /\ Guarded(g, s, grp[g], NoEnsure, v, lock')
    <3>1. Resting(g, s, grp[g], l, v, lock')
      BY <1>3, <2>2, <2>7 DEF Resting
    <3> QED
      BY <1>3, <2>2, <3>1, RestTended
  <2> QED
    BY <1>3, <2>2, <2>3, <2>4, <2>5, <2>6, <2>7, QuietStep DEF CutsOnly, Running, Serving
<1> QED
  BY <1>4, <1>5


\* BeginStop signals a group that is not being stopped, and touches nothing else.
Begun(x, y) ==
    /\ y \in Engine /\ y.st = x.st /\ y.ino = x.ino /\ y.by = x.by /\ y.reg = x.reg
    /\ y.stop = IF x.stop = "no" THEN "term" ELSE x.stop
    /\ IF x.stop = "no" THEN y.sig = (IF x.sig = "kill" THEN "kill" ELSE "term") ELSE y = x

LEMMA BeginStopIs ==
    ASSUME NEW gr \in [Groups -> Engine], NEW d \in Groups
    PROVE  /\ BeginStop(gr, d) \in [Groups -> Engine]
           /\ Begun(gr[d], BeginStop(gr, d)[d])
           /\ \A g \in Groups \ {d} : BeginStop(gr, d)[g] = gr[g]
<1>1. CASE gr[d].stop = "no"
  <2>1. PICK sig : sig = IF gr[d].sig = "kill" THEN gr[d].sig ELSE "term"
    OBVIOUS
  <2>2. PICK y : y = [[gr[d] EXCEPT !.sig = sig] EXCEPT !.stop = "term"]
    OBVIOUS
  <2>3. gr[d] \in Engine
    OBVIOUS
  <2>4. y \in Engine /\ Begun(gr[d], y)
    BY <1>1, <2>1, <2>2, <2>3 DEF Engine, Begun
  <2>5. BeginStop(gr, d) = [gr EXCEPT ![d] = y]
    BY <1>1, <2>1, <2>2 DEF BeginStop, Signal
  <2> QED
    BY <2>4, <2>5
<1>2. CASE gr[d].stop # "no"
  BY <1>2 DEF BeginStop, Begun
<1> QED
  BY <1>1, <1>2

LEMMA BegunTreats ==
    ASSUME NEW s, NEW g, grp[g].by = s, grp[g].st # "none", Begun(grp[g], grp'[g])
    PROVE  Treats(s, g)
BY DEF Begun, Treats, Up

LEMMA BegunSane ==
    ASSUME NEW x \in Engine, NEW y, Begun(x, y), Sane(x), x.by \in Servers, x.st # "none"
    PROVE  Sane(y)
BY DEF Begun, Sane, Up, Engine

LEMMA ReturnInitializes ==
    ASSUME HostInv, NEW s \in Servers, ens[s].who = "main", NEW d, NEW h \in Groups,
           \/ Over(s) /\ d = Adopted
           \/ ens[s].pc = "ready" /\ d = ens[s].g,
           Unlock(<<s, 0>>), Initialize(s, d, h), UNCHANGED <<sock, rst, cut>>
    PROVE  HostInv'
<1>1. /\ HostType /\ ens[s] \in Ensure /\ lc[s] \in Lifecycle /\ srv[s] \in Server /\ rst[s] \in Successor
      /\ Local(s, ens[s], lc[s], srv[s], rst[s], lock)
      /\ Lists(s, ens[s], lc[s], srv[s], grp)
  BY View
<1>2. /\ srv[s].st \in {"starting", "quit"} /\ srv[s].flight = "idle" /\ rst[s].pc = "idle" /\ srv[s].todo = {}
      /\ srv[s].ensured = None /\ lc[s].generation = {} /\ lc[s].owned = {} /\ ~lc[s].stopping
      /\ ens[s].pc \notin {"idle", "late"}
  BY <1>1 DEF Local, Server, Serving, Over, Lifecycle
<1>3. d = Adopted \/ (d \in Groups /\ Mine(grp, s, d) /\ grp[d].reg /\ grp[d].ino # None)
  <2>1. CASE ens[s].pc = "ready" /\ d = ens[s].g
    <3>1. Mine(grp, s, d) /\ grp[d].reg
      BY <1>1, <2>1 DEF Lists, Attempting
    <3>2. d \in Groups
      BY <3>1 DEF Mine
    <3>3. Sane(grp[d])
      BY <3>2, View
    <3> QED
      BY <3>1, <3>2, <3>3 DEF Sane
  <2> QED
    BY <2>1
<1>4. PICK l : l = [lc[s] EXCEPT !.current = d, !.generation = @ \cup ({d} \cap Groups)]
  OBVIOUS
<1>5. PICK v : v = [srv[s] EXCEPT !.st = IF @ = "quit" THEN "stop" ELSE "serving",
                                  !.ensured = IF d \in Groups THEN d ELSE None, !.conn = h]
  OBVIOUS
<1>6. /\ l \in Lifecycle /\ l.generation = {d} \cap Groups /\ l.owned = {} /\ ~l.stopping /\ l.barrier = lc[s].barrier
  BY <1>1, <1>2, <1>3, <1>4 DEF Lifecycle
<1>7. /\ v \in Server /\ v.st \in {"serving", "stop"} /\ v.todo = {} /\ v.flight = "idle"
      /\ v.ensured = IF d \in Groups THEN d ELSE None
  BY <1>1, <1>2, <1>5 DEF Server, Running, Serving
<1>8. Becomes(s, NoEnsure, l, v, rst[s]) /\ grp' = grp
  BY <1>1, <1>4, <1>5, <1>6, <1>7, NoEnsureTyped DEF Becomes, Initialize, HostType
<1>9. lock' = lock \/ lock = <<s, 0>>
  BY DEF Unlock
<1>10. Local(s, NoEnsure, l, v, rst[s], lock')
  BY <1>2, <1>6, <1>7, NoEnsureTyped DEF Local, Holding, Attempting, Launching, Failing, Retiring, Serving
<1>11. Lists(s, NoEnsure, l, v, grp)
  <2>1. \A g \in Groups : Listed(l, v, g) => g = d
    BY <1>6, <1>7 DEF Listed
  <2>2. \A g \in Groups : Listed(l, v, g) => Mine(grp, s, g) /\ grp[g].reg
    BY <1>3, <2>1, HostAssumption DEF Adopted
  <2> QED
    BY <2>2, NoEnsureTyped DEF Lists, Attempting, Launching, Failing
<1>12. Replaced(s, NoEnsure, l, v, rst[s], grp)
  BY <1>2 DEF Replaced
<1>13. ASSUME NEW g \in Groups, grp[g].by = s
       PROVE  Tended(g, grp[g], NoEnsure, l, v) /\ Guarded(g, s, grp[g], NoEnsure, v, lock')
  <2>1. CASE Has(ens[s], g) => Stopped(g)
    <3>1. Resting(g, s, grp[g], lc[s], srv[s], lock')
      BY <1>2, <1>9, <1>13, <2>1, Rests DEF Running
    <3>2. Resting(g, s, grp[g], l, v, lock')
      BY <1>2, <1>6, <1>7, <3>1 DEF Resting
    <3> QED
      BY <1>7, <3>2, RestTended DEF Running, Serving
  <2>2. CASE ~(Has(ens[s], g) => Stopped(g))
    <3>1. g = d /\ g \in Groups
      BY <2>2, <1>13 DEF Over, Has
    <3>2. grp[g].stop = "no" /\ grp[g].reg /\ grp[g].ino # None
      BY <1>1, <1>3, <2>2, <3>1, HostAssumption DEF Lists, Over, Has, Adopted
    <3> QED
      BY <1>6, <1>7, <3>1, <3>2 DEF Tended, Guarded, Running, Serving
  <2> QED
    BY <2>1, <2>2
<1> QED
  BY <1>2, <1>8, <1>9, <1>10, <1>11, <1>12, <1>13, QuietStep DEF CutsOnly

LEMMA ReturnRetains ==
    ASSUME HostInv, NEW s \in Servers, ens[s].who # "main", NEW d, ~lc[s].stopping,
           \/ Over(s) /\ d = Adopted
           \/ ens[s].pc = "ready" /\ d = ens[s].g,
           Unlock(<<s, 0>>), Retain(s, d), UNCHANGED <<sock, rst, cut>>
    PROVE  HostInv'
<1>1. /\ HostType /\ ens[s] \in Ensure /\ lc[s] \in Lifecycle /\ srv[s] \in Server /\ rst[s] \in Successor
      /\ Local(s, ens[s], lc[s], srv[s], rst[s], lock)
      /\ Lists(s, ens[s], lc[s], srv[s], grp)
      /\ Replaced(s, ens[s], lc[s], srv[s], rst[s], grp)
  BY View
<1>2. /\ srv[s].st = "serving" /\ srv[s].flight = "run" /\ lc[s].barrier = "ensure" /\ rst[s].pc \notin Retiring
      /\ ens[s].pc \notin {"idle", "late"}
  BY <1>1 DEF Local, Over
<1>3. d = Adopted \/ (d \in Groups /\ Mine(grp, s, d) /\ grp[d].reg /\ grp[d].ino # None)
  <2>1. CASE ens[s].pc = "ready" /\ d = ens[s].g
    <3>1. Mine(grp, s, d) /\ grp[d].reg
      BY <1>1, <2>1 DEF Lists, Attempting
    <3>2. d \in Groups
      BY <3>1 DEF Mine
    <3>3. Sane(grp[d])
      BY <3>2, View
    <3> QED
      BY <3>1, <3>2, <3>3 DEF Sane
  <2> QED
    BY <2>1
<1>4. PICK l : l = [lc[s] EXCEPT !.current = d, !.barrier = "free",
                                 !.generation = @ \cup ({d} \cap Groups), !.owned = @ \cup ({d} \cap Groups)]
  OBVIOUS
<1>5. PICK v : v = [srv[s] EXCEPT !.flight = "idle"]
  OBVIOUS
<1>6. /\ l \in Lifecycle /\ l.generation = lc[s].generation \cup ({d} \cap Groups)
      /\ l.owned = lc[s].owned \cup ({d} \cap Groups) /\ ~l.stopping /\ l.barrier = "free" /\ l.current = d
  BY <1>1, <1>3, <1>4 DEF Lifecycle
<1>7. /\ v \in Server /\ v.st = "serving" /\ v.todo = srv[s].todo /\ v.flight = "idle" /\ v.ensured = srv[s].ensured
  BY <1>1, <1>2, <1>5 DEF Server
<1>8. Becomes(s, NoEnsure, l, v, rst[s]) /\ grp' = grp
  BY <1>1, <1>4, <1>5, <1>6, <1>7, NoEnsureTyped DEF Becomes, Retain, HostType
<1>9. lock' = lock \/ lock = <<s, 0>>
  BY DEF Unlock
<1>10. Local(s, NoEnsure, l, v, rst[s], lock')
  BY <1>1, <1>2, <1>6, <1>7, NoEnsureTyped DEF Local, Holding, Attempting, Launching, Failing, Retiring, Serving
<1>11. Lists(s, NoEnsure, l, v, grp)
  <2>1. \A g \in Groups : Listed(l, v, g) => g = d \/ Listed(lc[s], srv[s], g)
    BY <1>6, <1>7 DEF Listed
  <2>2. \A g \in Groups : Listed(l, v, g) => Mine(grp, s, g) /\ (grp[g].stop \in {"no", "term", "kill"} => grp[g].reg)
    BY <1>1, <1>3, <2>1, HostAssumption DEF Adopted, Lists
  <2> QED
    BY <2>2, NoEnsureTyped DEF Lists, Attempting, Launching, Failing
<1>12. Replaced(s, NoEnsure, l, v, rst[s], grp)
  <2>1. None \notin rst[s].old /\ (d = Adopted => d \notin rst[s].old)
    BY <1>1, HostAssumption DEF Successor, None, Adopted
  <2> QED
    BY <1>1, <1>2, <1>6, <2>1, NoEnsureTyped DEF Replaced
<1>13. ASSUME NEW g \in Groups, grp[g].by = s
       PROVE  Tended(g, grp[g], NoEnsure, l, v) /\ Guarded(g, s, grp[g], NoEnsure, v, lock')
  <2>1. CASE Has(ens[s], g) => Stopped(g)
    <3>1. Resting(g, s, grp[g], lc[s], srv[s], lock')
      BY <1>2, <1>9, <1>13, <2>1, Rests DEF Running, Serving
    <3>2. Resting(g, s, grp[g], l, v, lock')
      BY <1>2, <1>6, <1>7, <3>1 DEF Resting
    <3> QED
      BY <1>7, <3>2, RestTended DEF Running, Serving
  <2>2. CASE ~(Has(ens[s], g) => Stopped(g))
    <3>1. g = d /\ g \in Groups
      BY <2>2, <1>13 DEF Over, Has
    <3>2. grp[g].stop = "no" /\ grp[g].reg /\ grp[g].ino # None
      BY <1>1, <1>3, <2>2, <3>1, HostAssumption DEF Lists, Over, Has, Adopted
    <3> QED
      BY <1>6, <1>7, <3>1, <3>2 DEF Tended, Guarded, Running, Serving
  <2> QED
    BY <2>1, <2>2
<1>14. lock' = <<s, -1>> <=> lock = <<s, -1>>
  <2>1. <<s, -1>> # <<s, 0>> /\ <<s, -1>> # Free
    BY LockNames
  <2> QED
    BY <2>1 DEF Unlock
<1> QED
  BY <1>2, <1>8, <1>9, <1>10, <1>11, <1>12, <1>13, QuietStep DEF CutsOnly


\* A daemon that arrives during the shutdown is stopped.
LEMMA ReturnStops ==
    ASSUME HostInv, NEW s \in Servers, ens[s].who # "main", NEW d, lc[s].stopping,
           \/ Over(s) /\ d = Adopted
           \/ ens[s].pc = "ready" /\ d = ens[s].g,
           Unlock(<<s, 0>>), grp' = (IF d \in Groups THEN BeginStop(grp, d) ELSE grp),
           ens' = [ens EXCEPT ![s] = [NoEnsure EXCEPT !.pc = "late", !.who = "flight", !.conn = d]],
           UNCHANGED <<sock, rst, cut, lc, srv>>
    PROVE  HostInv'
<1>1. /\ HostType /\ ens[s] \in Ensure /\ lc[s] \in Lifecycle /\ srv[s] \in Server /\ rst[s] \in Successor
      /\ Local(s, ens[s], lc[s], srv[s], rst[s], lock)
      /\ Lists(s, ens[s], lc[s], srv[s], grp)
      /\ \A g \in Groups : grp[g] \in Engine /\ Sane(grp[g])
  BY View
<1>2. /\ srv[s].st \in {"stop", "closing"} /\ srv[s].flight = "run" /\ lc[s].barrier = "ensure"
      /\ rst[s].pc \notin Retiring /\ ens[s].pc \notin {"idle", "late"}
  BY <1>1 DEF Local, Over
<1>3. (d = Adopted /\ d \notin Groups) \/ (d \in Groups /\ Mine(grp, s, d) /\ grp[d].reg /\ grp[d].ino # None
                       /\ grp[d].stop = "no" /\ ~Listed(lc[s], srv[s], d))
  <2>1. CASE ens[s].pc = "ready" /\ d = ens[s].g
    <3>1. Mine(grp, s, d) /\ grp[d].reg /\ grp[d].stop = "no" /\ ~Listed(lc[s], srv[s], d)
      BY <1>1, <2>1 DEF Lists, Attempting
    <3>2. d \in Groups
      BY <3>1 DEF Mine
    <3>3. Sane(grp[d])
      BY <3>2, <1>1
    <3> QED
      BY <3>1, <3>2, <3>3 DEF Sane
  <2> QED
    BY <2>1, HostAssumption DEF Adopted
<1>4. PICK e : e = [NoEnsure EXCEPT !.pc = "late", !.who = "flight", !.conn = d]
  OBVIOUS
<1>5. e \in Ensure /\ e.pc = "late" /\ e.who = "flight" /\ e.conn = d /\ e.g = None
  <2>1. PICK f : f = [NoEnsure EXCEPT !.pc = "late"]
    OBVIOUS
  <2>2. f \in Ensure /\ f.pc = "late" /\ f.g = None
    BY <2>1, NoEnsureTyped DEF Ensure
  <2>3. PICK k : k = [f EXCEPT !.who = "flight"]
    OBVIOUS
  <2>4. k \in Ensure /\ k.pc = "late" /\ k.g = None /\ k.who = "flight"
    BY <2>2, <2>3 DEF Ensure
  <2>5. e = [k EXCEPT !.conn = d]
    BY <1>4, <2>1, <2>3
  <2> QED
    BY <1>3, <2>4, <2>5 DEF Ensure
<1>6. Becomes(s, e, lc[s], srv[s], rst[s])
  BY <1>1, <1>4, <1>5 DEF Becomes, HostType
<1>7. /\ grp' \in [Groups -> Engine]
      /\ \A g \in Groups : g # d => grp'[g] = grp[g]
      /\ d \in Groups => Begun(grp[d], grp'[d])
  <2>1. grp \in [Groups -> Engine]
    BY <1>1 DEF HostType
  <2>2. CASE d \in Groups
    BY <2>1, <2>2, BeginStopIs
  <2>3. CASE d \notin Groups
    BY <2>1, <2>3
  <2> QED
    BY <2>2, <2>3
<1>8. d \in Groups => /\ grp'[d].by = s /\ grp'[d].st = grp[d].st /\ grp'[d].st # "none" /\ grp'[d].reg
                      /\ grp'[d].ino # None /\ grp'[d].stop = "term" /\ grp'[d].sig # "none"
                      /\ Treats(s, d) /\ Sane(grp'[d])
  <2>1. SUFFICES ASSUME d \in Groups PROVE <1>8!2
    OBVIOUS
  <2>2. Mine(grp, s, d) /\ grp[d].reg /\ grp[d].ino # None /\ grp[d].stop = "no" /\ Begun(grp[d], grp'[d])
        /\ grp[d] \in Engine /\ Sane(grp[d])
    BY <2>1, <1>1, <1>3, <1>7
  <2> QED
    BY <2>2, BegunTreats, BegunSane DEF Begun, Mine
<1>9. lock' = lock \/ lock = <<s, 0>>
  BY DEF Unlock
<1>10. lock' = <<s, -1>> <=> lock = <<s, -1>>
  <2>1. <<s, -1>> # <<s, 0>> /\ <<s, -1>> # Free
    BY LockNames
  <2> QED
    BY <2>1 DEF Unlock
<1>11. Local(s, e, lc[s], srv[s], rst[s], lock')
  BY <1>1, <1>2, <1>5, <1>10 DEF Local, Holding, Attempting, Launching, Failing
<1>12. Lists(s, e, lc[s], srv[s], grp')
  <2>1. \A g \in Groups : Listed(lc[s], srv[s], g) => Mine(grp', s, g) /\ (grp'[g].stop \in {"no", "term", "kill"} => grp'[g].reg)
    BY <1>1, <1>3, <1>7 DEF Lists, Mine
  <2>2. d \in Groups => Mine(grp', s, d)
    BY <1>8 DEF Mine
  <2> QED
    BY <1>5, <2>1, <2>2 DEF Lists, Attempting, Launching, Failing
<1>13. Replaced(s, e, lc[s], srv[s], rst[s], grp')
  BY <1>2 DEF Replaced
<1>14. ASSUME NEW g \in Groups, grp'[g].by = s
       PROVE  Sane(grp'[g]) /\ Tended(g, grp'[g], e, lc[s], srv[s]) /\ Guarded(g, s, grp'[g], e, srv[s], lock')
  <2>1. CASE g = d
    BY <1>2, <1>5, <1>8, <2>1 DEF Tended, Guarded, Up, Running, Serving
  <2>2. CASE g # d
    <3>1. Has(ens[s], g) => Stopped(g)
      BY <2>2 DEF Over, Has
    <3>2. grp[g].by = s /\ grp'[g] = grp[g] /\ srv[s].st \in Running
      BY <1>2, <1>7, <1>14, <2>2 DEF Running, Serving
    <3>3. Resting(g, s, grp[g], lc[s], srv[s], lock')
      BY <1>2, <1>9, <3>1, <3>2, Rests
    <3> QED
      BY <1>1, <3>2, <3>3, RestTended
  <2> QED
    BY <2>1, <2>2
<1>15. \A g \in Groups : Treats(s, g)
  BY <1>7, <1>8, Still DEF Treats
<1>16. srv[s].st # "crashed"
  BY <1>2
<1>17. CutsOnly /\ (rst[s].pc = "rremove" => rst[s].pc = "rremove" \/ Listeners = {})
  BY DEF CutsOnly
<1> QED
  BY <1>6, <1>7, <1>9, <1>11, <1>12, <1>13, <1>14, <1>15, <1>16, <1>17, HostStep

LEMMA ReturnKeeps ==
    ASSUME HostInv, NEW s \in Servers, NEW d, NEW h \in Groups,
           \/ Over(s) /\ d = Adopted
           \/ ens[s].pc = "ready" /\ d = ens[s].g,
           Return(s, d, h), UNCHANGED <<sock, rst, cut>>
    PROVE  HostInv'
<1>1. CASE ens[s].who = "main"
  BY <1>1, ReturnInitializes DEF Return
<1>2. CASE ens[s].who # "main" /\ ~lc[s].stopping
  BY <1>2, ReturnRetains DEF Return
<1>3. CASE ens[s].who # "main" /\ lc[s].stopping
  BY <1>3, ReturnStops DEF Return
<1> QED
  BY <1>1, <1>2, <1>3

\* A step that moves neither the lists of s nor its EnsureDaemon.
LEMMA Turns ==
    ASSUME HostInv, NEW s \in Servers, NEW l, NEW v, NEW r, Becomes(s, ens[s], l, v, r), CutsOnly,
           grp' \in [Groups -> Engine], \A g \in Groups : Mild(grp[g], grp'[g]),
           lock' = lock \/ lock = Free \/ lock = <<s, -1>>,
           srv[s].st # "crashed",
           r.pc = "rremove" => rst[s].pc = "rremove" \/ Listeners = {},
           v.st = srv[s].st, v.todo = srv[s].todo, v.ensured = srv[s].ensured,
           l.generation = lc[s].generation, l.owned = lc[s].owned,
           Local(s, ens[s], l, v, r, lock'), Replaced(s, ens[s], l, v, r, grp)
    PROVE  HostInv'
<1>1. /\ Lists(s, ens[s], lc[s], srv[s], grp)
      /\ \A g \in Groups : grp[g].by = s => /\ Tended(g, grp[g], ens[s], lc[s], srv[s])
                                            /\ Guarded(g, s, grp[g], ens[s], srv[s], lock)
  BY View
<1>2. Lists(s, ens[s], l, v, grp)
  BY <1>1 DEF Lists, Listed
<1>3. ASSUME NEW g \in Groups, grp[g].by = s
      PROVE  Tended(g, grp[g], ens[s], l, v) /\ Guarded(g, s, grp[g], ens[s], v, lock')
  <2>1. Tended(g, grp[g], ens[s], l, v)
    BY <1>1, <1>3 DEF Tended
  <2>2. <<s, 0>> # Free /\ <<s, 0>> # <<s, -1>> /\ <<s, g>> # Free /\ <<s, g>> # <<s, -1>>
    BY LockNames, HostAssumption
  <2>3. Guarded(g, s, grp[g], ens[s], v, lock')
    BY <1>1, <1>3, <2>2 DEF Guarded
  <2> QED
    BY <2>1, <2>3
<1>4. lock' = lock \/ lock = Free \/ \E a : lock = <<s, a>>
  OBVIOUS
<1> QED
  BY <1>2, <1>3, <1>4, MildStep

\* EnsureDaemon of s moves on, with no group in its hands before or after.
LEMMA Waits ==
    ASSUME HostInv, NEW s \in Servers, ens[s].pc \in {"probe", "lock", "again", "spawn"},
           NEW pc \in {"lock", "again", "spawn"}, ens' = [ens EXCEPT ![s].pc = pc],
           UNCHANGED <<sock, grp, lc, rst, srv, cut>>,
           lock' = lock \/ (lock = Free /\ ens[s].pc = "lock"),
           pc \in {"again", "spawn"} => lock' = <<s, 0>>
    PROVE  HostInv'
<1>1. /\ HostType /\ ens[s] \in Ensure /\ lc[s] \in Lifecycle /\ srv[s] \in Server /\ rst[s] \in Successor
      /\ Local(s, ens[s], lc[s], srv[s], rst[s], lock)
      /\ Lists(s, ens[s], lc[s], srv[s], grp)
      /\ Replaced(s, ens[s], lc[s], srv[s], rst[s], grp)
      /\ \A g \in Groups : grp[g].by = s => /\ Tended(g, grp[g], ens[s], lc[s], srv[s])
                                            /\ Guarded(g, s, grp[g], ens[s], srv[s], lock)
  BY View
<1>2. PICK e : e = [ens[s] EXCEPT !.pc = pc]
  OBVIOUS
<1>3. e \in Ensure /\ e.pc = pc /\ e.who = ens[s].who /\ e.g = ens[s].g /\ e.conn = ens[s].conn
  BY <1>1, <1>2 DEF Ensure, Holding
<1>4. Becomes(s, e, lc[s], srv[s], rst[s])
  BY <1>1, <1>2, <1>3 DEF Becomes, HostType
<1>5. srv[s].st # "crashed"
  BY <1>1 DEF Local, Serving
<1>6. Local(s, e, lc[s], srv[s], rst[s], lock')
  <2>1. rst[s].pc = "rremove" => lock' = <<s, -1>>
    BY <1>1, LockNames DEF Local
  <2> QED
    BY <1>1, <1>3, <2>1 DEF Local, Holding, Attempting, Launching, Failing
<1>7. Lists(s, e, lc[s], srv[s], grp) /\ Replaced(s, e, lc[s], srv[s], rst[s], grp)
  BY <1>1, <1>3 DEF Lists, Replaced, Attempting, Launching, Failing
<1>8. ASSUME NEW g \in Groups, grp[g].by = s
      PROVE  Tended(g, grp[g], e, lc[s], srv[s]) /\ Guarded(g, s, grp[g], e, srv[s], lock')
  <2>1. Tended(g, grp[g], ens[s], lc[s], srv[s]) /\ Guarded(g, s, grp[g], ens[s], srv[s], lock)
    BY <1>1, <1>8
  <2>2. ~Has(ens[s], g) /\ ~Has(e, g) /\ <<s, g>> # Free
    BY <1>3, LockNames DEF Has, Attempting, Launching, Failing
  <2>3. Tended(g, grp[g], e, lc[s], srv[s])
    BY <2>1, <2>2, <1>3 DEF Tended, Failing
  <2>4. Guarded(g, s, grp[g], e, srv[s], lock')
    BY <2>1, <2>2, <1>3 DEF Guarded, Failing
  <2> QED
    BY <2>3, <2>4
<1> QED
  BY <1>4, <1>5, <1>6, <1>7, <1>8, QuietStep DEF CutsOnly

LEMMA EnsureProbeKeeps == ASSUME HostInv, NEW s \in Servers, EnsureProbe(s) PROVE HostInv'
<1>1. ens[s].pc \in {"probe", "again"} /\ UNCHANGED <<sock, rst, budget, cut>>
  BY DEF EnsureProbe
<1>2. Over(s)
  BY <1>1 DEF Over, Attempting, Launching, Failing
<1>3. CASE ReturnError(s) /\ UNCHANGED grp
  BY <1>1, <1>2, <1>3, ReturnErrorKeeps
<1>4. CASE \E h \in Listeners : Return(s, Adopted, h)
  BY <1>1, <1>2, <1>4, ReturnKeeps DEF Listeners
<1>5. CASE /\ ens' = [ens EXCEPT ![s].pc = IF @ = "probe" THEN "lock" ELSE "spawn"]
           /\ UNCHANGED <<grp, lock, lc, srv>>
  <2>1. PICK pc \in {"lock", "spawn"} : pc = IF ens[s].pc = "probe" THEN "lock" ELSE "spawn"
    OBVIOUS
  <2>2. ens' = [ens EXCEPT ![s].pc = pc]
    BY <1>5, <2>1 DEF HostInv, HostType
  <2>3. pc = "spawn" => lock = <<s, 0>>
    BY <1>1, <2>1, View DEF Local, Holding
  <2> QED
    BY <1>1, <1>5, <2>2, <2>3, Waits
<1> QED
  BY <1>3, <1>4, <1>5 DEF EnsureProbe

LEMMA EnsureLockKeeps == ASSUME HostInv, NEW s \in Servers, EnsureLock(s) PROVE HostInv'
<1>1. ens[s].pc = "lock" /\ UNCHANGED <<sock, grp, rst, budget, cut>>
  BY DEF EnsureLock
<1>2. CASE ReturnError(s)
  BY <1>1, <1>2, ReturnErrorKeeps DEF Over, Attempting, Launching, Failing
<1>3. CASE lock = Free /\ lock' = <<s, 0>> /\ ens' = [ens EXCEPT ![s].pc = "again"] /\ UNCHANGED <<lc, srv>>
  <2>1. PICK pc \in {"again"} : pc = "again"
    OBVIOUS
  <2> QED
    BY <1>1, <1>3, <2>1, Waits
<1> QED
  BY <1>2, <1>3 DEF EnsureLock

\* The engines of s that its EnsureDaemon does not have in its hands stay tended.
LEMMA OthersRest ==
    ASSUME HostInv, NEW s \in Servers, ens[s].pc \notin {"idle", "late"}, NEW g \in Groups, grp[g].by = s,
           Has(ens[s], g) => Stopped(g), lock' = lock, NEW e
    PROVE  /\ srv[s].st \in Running /\ Sane(grp[g])
           /\ Tended(g, grp[g], e, lc[s], srv[s]) /\ Guarded(g, s, grp[g], e, srv[s], lock')
<1>1. srv[s].st \in Running /\ Sane(grp[g])
  BY View DEF Local, Running, Serving, Server
<1>2. Resting(g, s, grp[g], lc[s], srv[s], lock')
  BY <1>1, Rests
<1> QED
  BY <1>1, <1>2, RestTended

LEMMA LaunchKeeps ==
    ASSUME HostInv, NEW s \in Servers, NEW g \in Groups, NEW y \in Engine, NEW e \in Ensure,
           ens[s].pc = "spawn", Unused(g),
           y.st = "up", y.ino = None, y.by = s, y.reg = FALSE, y.stop = "no",
           grp' = [grp EXCEPT ![g] = y], ens' = [ens EXCEPT ![s] = e],
           e.pc = "loop", e.g = g, e.who = ens[s].who,
           UNCHANGED <<sock, lock, lc, rst, srv, cut>>
    PROVE  HostInv'
<1>1. /\ HostType /\ ens[s] \in Ensure /\ lc[s] \in Lifecycle /\ srv[s] \in Server /\ rst[s] \in Successor
      /\ Local(s, ens[s], lc[s], srv[s], rst[s], lock)
      /\ Lists(s, ens[s], lc[s], srv[s], grp)
      /\ Replaced(s, ens[s], lc[s], srv[s], rst[s], grp)
      /\ Sane(grp[g])
  BY View
<1>2. grp[g].st = "none" /\ grp[g].ino = None
  BY <1>1 DEF Unused, Sane, NoGroup
<1>3. grp'[g] = y /\ \A h \in Groups \ {g} : grp'[h] = grp[h]
  BY <1>1 DEF HostType
<1>4. \A h : Mine(grp, s, h) => h \in Groups /\ h # g /\ grp'[h] = grp[h] /\ Mine(grp', s, h)
  BY <1>2, <1>3 DEF Mine
<1>5. Becomes(s, e, lc[s], srv[s], rst[s])
  BY <1>1 DEF Becomes, HostType
<1>6. \A h \in Groups : Treats(s, h)
  BY <1>2, <1>3, Still DEF Treats
<1>7. Local(s, e, lc[s], srv[s], rst[s], lock')
  BY <1>1 DEF Local, Holding, Attempting, Launching
<1>8. Lists(s, e, lc[s], srv[s], grp')
  <2>1. \A h \in Groups : Listed(lc[s], srv[s], h) =>
            /\ h # g /\ Mine(grp', s, h) /\ (grp'[h].stop \in {"no", "term", "kill"} => grp'[h].reg)
    BY <1>1, <1>4 DEF Lists
  <2>2. Mine(grp', s, g)
    BY <1>3 DEF Mine
  <2>3. e.pc \notin Failing
    BY DEF Failing
  <2> QED
    BY <2>1, <2>2, <2>3, <1>3 DEF Lists
<1>9. Replaced(s, e, lc[s], srv[s], rst[s], grp')
  <2>1. SUFFICES ASSUME rst[s].pc \in {"join", "ok"}, srv[s].st = "serving" PROVE Replaced(s, e, lc[s], srv[s], rst[s], grp')
    BY DEF Replaced
  <2>2. /\ \A h \in rst[s].old : Mine(grp, s, h) /\ (Up(grp[h]) => grp[h].sig = "kill" /\ grp[h].stop = "fail" /\ ~grp[h].reg)
        /\ lc[s].current \notin rst[s].old
    BY <1>1, <2>1 DEF Replaced
  <2>3. g \notin rst[s].old
    BY <1>4, <2>2
  <2>4. \A h \in rst[s].old : Mine(grp', s, h) /\ grp'[h] = grp[h]
    BY <1>4, <2>2
  <2> QED
    <3>1. ASSUME NEW h \in rst[s].old
          PROVE  Mine(grp', s, h) /\ (Up(grp'[h]) => grp'[h].sig = "kill" /\ grp'[h].stop = "fail" /\ ~grp'[h].reg)
      BY <2>2, <2>4, <3>1
    <3>2. lc[s].current \notin rst[s].old /\ e.g \notin rst[s].old
      BY <2>2, <2>3
    <3> QED
      BY <3>1, <3>2 DEF Replaced
<1>10. ASSUME NEW h \in Groups, grp'[h].by = s
       PROVE  Sane(grp'[h]) /\ Tended(h, grp'[h], e, lc[s], srv[s]) /\ Guarded(h, s, grp'[h], e, srv[s], lock')
  <2>1. CASE h = g
    <3>1. Has(e, g) /\ lock' = <<s, 0>> /\ srv[s].st \in Running
      BY <1>1 DEF Has, Attempting, Launching, Local, Holding, Running, Serving, Server
    <3>2. Tended(g, y, e, lc[s], srv[s]) /\ Guarded(g, s, y, e, srv[s], lock')
      BY <3>1 DEF Tended, Guarded, Running, Serving
    <3>3. Sane(y)
      BY DEF Sane, Up
    <3> QED
      BY <2>1, <3>2, <3>3, <1>3
  <2>2. CASE h # g
    <3>1. grp'[h] = grp[h] /\ grp[h].by = s /\ ~Has(ens[s], h)
      BY <2>2, <1>3, <1>10 DEF Has, Attempting, Launching, Failing
    <3> QED
      BY <3>1, OthersRest
  <2> QED
    BY <2>1, <2>2
<1>11. srv[s].st # "crashed" /\ CutsOnly /\ grp' \in [Groups -> Engine]
  BY <1>1 DEF Local, Serving, CutsOnly, HostType
<1> QED
  BY <1>5, <1>6, <1>7, <1>8, <1>9, <1>10, <1>11, HostStep

LEMMA EnsureSpawnKeeps == ASSUME HostInv, NEW s \in Servers, EnsureSpawn(s) PROVE HostInv'
<1>1. ens[s].pc = "spawn" /\ UNCHANGED <<sock, rst, cut>>
  BY DEF EnsureSpawn
<1>2. CASE ReturnError(s) /\ UNCHANGED <<grp, budget>>
  BY <1>1, <1>2, ReturnErrorKeeps DEF Over, Attempting, Launching, Failing
<1>3. CASE ~(ReturnError(s) /\ UNCHANGED <<grp, budget>>)
  <2>1. PICK g \in Groups, ans \in {"good", "old", "mute"} :
             /\ Unused(g)
             /\ grp' = [grp EXCEPT ![g] = [NoGroup EXCEPT !.st = "up", !.by = s, !.base = sock, !.ans = ans]]
             /\ ens' = [ens EXCEPT ![s].pc = "loop", ![s].g = g, ![s].try = @ + 1]
             /\ UNCHANGED <<lock, lc, srv>>
    BY <1>3 DEF EnsureSpawn
  <2>2. HostType /\ ens[s] \in Ensure /\ sock \in Nat /\ grp[g] \in Engine /\ Sane(grp[g])
    BY View DEF HostType
  <2>3. NoGroup \in Engine
    BY <2>1, <2>2 DEF Unused, Sane
  <2>4. PICK w, x, z, y : /\ w = [NoGroup EXCEPT !.st = "up"] /\ x = [w EXCEPT !.by = s]
                          /\ z = [x EXCEPT !.base = sock] /\ y = [z EXCEPT !.ans = ans]
    OBVIOUS
  <2>5. NoGroup.ino = None /\ NoGroup.reg = FALSE /\ NoGroup.stop = "no"
    BY DEF NoGroup
  <2>6. w \in Engine /\ w.st = "up" /\ w.ino = None /\ w.reg = FALSE /\ w.stop = "no"
    BY <2>3, <2>4, <2>5 DEF Engine
  <2>7. x \in Engine /\ x.st = "up" /\ x.ino = None /\ x.reg = FALSE /\ x.stop = "no" /\ x.by = s
    BY <2>4, <2>6 DEF Engine
  <2>8. z \in Engine /\ z.st = "up" /\ z.ino = None /\ z.reg = FALSE /\ z.stop = "no" /\ z.by = s
    BY <2>2, <2>4, <2>7 DEF Engine
  <2>9. y \in Engine /\ y.st = "up" /\ y.ino = None /\ y.reg = FALSE /\ y.stop = "no" /\ y.by = s
    <3>1. ans \in {"good", "old", "mute"}
      BY <2>1
    <3>2. y = [z EXCEPT !.ans = ans]
      BY <2>4
    <3> QED
      BY <3>1, <3>2, <2>8 DEF Engine
  <2>10. y = [NoGroup EXCEPT !.st = "up", !.by = s, !.base = sock, !.ans = ans]
    BY <2>4
  <2>12. PICK try \in Nat : try = ens[s].try + 1
    BY <2>2 DEF Ensure
  <2>11. PICK e : e = [ens[s] EXCEPT !.pc = "loop", !.g = g, !.try = try]
    OBVIOUS
  <2>13. e \in Ensure /\ e.pc = "loop" /\ e.g = g /\ e.who = ens[s].who
    BY <2>2, <2>11 DEF Ensure, Holding, Attempting, Launching
  <2>14. ens' = [ens EXCEPT ![s] = e]
    BY <2>1, <2>2, <2>11, <2>12 DEF HostType
  <2>15. grp' = [grp EXCEPT ![g] = y] /\ Unused(g) /\ UNCHANGED <<lock, lc, srv>>
    BY <2>1, <2>10
  <2> QED
    BY <1>1, <2>9, <2>13, <2>14, <2>15, LaunchKeeps
<1> QED
  BY <1>2, <1>3

\* What an attempt learns of the path changes nothing but what it knows.
LEMMA ObserveIs ==
    ASSUME NEW gr \in [Groups -> Engine], NEW g \in Groups, NEW i \in Nat, NEW h, gr[g].st # "none"
    PROVE  /\ ObservePeer(gr, g, i, h) \in [Groups -> Engine]
           /\ \A k \in Groups \ {g} : ObservePeer(gr, g, i, h)[k] = gr[k]
           /\ Mild(gr[g], ObservePeer(gr, g, i, h)[g]) /\ ObservePeer(gr, g, i, h)[g].st = gr[g].st
           /\ h # g => i \notin ObservePeer(gr, g, i, h)[g].own
<1>1. gr[g] \in Engine /\ gr[g].own \subseteq Nat /\ gr[g].foreign \subseteq Nat
  BY DEF Engine
<1>2. PICK own, foreign : own \subseteq Nat /\ own = gr[g].own \cup {i} /\ foreign \subseteq Nat /\ foreign = gr[g].foreign \cup {i}
  BY <1>1
<1>3. PICK less : less \subseteq Nat /\ less = gr[g].own \ {i}
  BY <1>1
<1>4. CASE h # g
  <2>1. PICK z : z = [gr[g] EXCEPT !.foreign = foreign]
    OBVIOUS
  <2>2. z \in Engine /\ Mild(gr[g], z) /\ z.own = gr[g].own /\ z.st = gr[g].st
    BY <1>1, <1>2, <2>1 DEF Engine, Mild
  <2>3. PICK y : y = [z EXCEPT !.own = less]
    OBVIOUS
  <2>4. y \in Engine /\ Mild(gr[g], y) /\ y.own = less /\ y.st = gr[g].st
    BY <1>1, <1>3, <2>2, <2>3 DEF Engine, Mild
  <2>5. ObservePeer(gr, g, i, h) = [gr EXCEPT ![g] = y]
    BY <1>2, <1>3, <1>4, <2>1, <2>3 DEF ObservePeer
  <2> QED
    BY <1>3, <2>4, <2>5
<1>5. CASE h = g
  <2>1. CASE i # gr[g].base /\ i \notin gr[g].foreign
    <3>1. PICK y : y = [gr[g] EXCEPT !.own = own]
      OBVIOUS
    <3>2. y \in Engine /\ Mild(gr[g], y) /\ y.st = gr[g].st
      BY <1>1, <1>2, <3>1 DEF Engine, Mild
    <3>3. ObservePeer(gr, g, i, h) = [gr EXCEPT ![g] = y]
      BY <1>2, <1>5, <2>1, <3>1 DEF ObservePeer
    <3> QED
      BY <1>5, <3>2, <3>3
  <2>2. CASE ~(i # gr[g].base /\ i \notin gr[g].foreign)
    BY <1>5, <2>2, Still DEF ObservePeer
  <2> QED
    BY <2>1, <2>2
<1> QED
  BY <1>4, <1>5

\* EnsureDaemon of s goes on with its attempt: what it waits for changes, its group does not.
LEMMA AttemptGoesOn ==
    ASSUME HostInv, NEW s \in Servers, ens[s].pc \in Launching, NEW e \in Ensure, e.pc \in Launching,
           e.g = ens[s].g, e.who = ens[s].who, ens' = [ens EXCEPT ![s] = e],
           grp' \in [Groups -> Engine], \A h \in Groups : Mild(grp[h], grp'[h]),
           e.pc = "handshake" => e.conn \in Groups /\ (e.conn = e.g => grp[e.g].ino = e.before) /\ e.before # None,
           UNCHANGED <<sock, lock, lc, rst, srv, cut>>
    PROVE  HostInv'
<1>1. /\ HostType /\ ens[s] \in Ensure /\ lc[s] \in Lifecycle /\ srv[s] \in Server /\ rst[s] \in Successor
      /\ Local(s, ens[s], lc[s], srv[s], rst[s], lock)
      /\ Lists(s, ens[s], lc[s], srv[s], grp)
      /\ Replaced(s, ens[s], lc[s], srv[s], rst[s], grp)
      /\ \A g \in Groups : grp[g].by = s => /\ Tended(g, grp[g], ens[s], lc[s], srv[s])
                                            /\ Guarded(g, s, grp[g], ens[s], srv[s], lock)
  BY View
<1>2. Becomes(s, e, lc[s], srv[s], rst[s])
  BY <1>1 DEF Becomes, HostType
<1>3. Local(s, e, lc[s], srv[s], rst[s], lock') /\ srv[s].st # "crashed"
  BY <1>1 DEF Local, Holding, Attempting, Launching, Serving
<1>4. Lists(s, e, lc[s], srv[s], grp) /\ Replaced(s, e, lc[s], srv[s], rst[s], grp)
  BY <1>1 DEF Lists, Replaced, Attempting, Launching, Failing
<1>5. ASSUME NEW g \in Groups, grp[g].by = s
      PROVE  Tended(g, grp[g], e, lc[s], srv[s]) /\ Guarded(g, s, grp[g], e, srv[s], lock')
  <2>1. Tended(g, grp[g], ens[s], lc[s], srv[s]) /\ Guarded(g, s, grp[g], ens[s], srv[s], lock)
    BY <1>1, <1>5
  <2> QED
    BY <2>1 DEF Tended, Guarded, Has, Attempting, Launching, Failing
<1> QED
  BY <1>2, <1>3, <1>4, <1>5, MildStep DEF CutsOnly

LEMMA EnsureLookKeeps == ASSUME HostInv, NEW s \in Servers, EnsureLook(s) PROVE HostInv'
<1>1. ens[s].pc = "loop" /\ UNCHANGED <<sock, lock, lc, rst, srv, budget, cut>>
  BY DEF EnsureLook
<1>2. PICK h \in Listeners :
          /\ grp' = ObservePeer(grp, ens[s].g, sock, h)
          /\ IF grp[h].ans = "mute" THEN UNCHANGED ens
             ELSE ens' = [ens EXCEPT ![s].pc = "handshake", ![s].before = sock, ![s].conn = h]
  BY DEF EnsureLook
<1>3. HostType /\ ens[s] \in Ensure /\ Lists(s, ens[s], lc[s], srv[s], grp)
  BY View
<1>4. h \in Groups /\ grp[h].ino = sock /\ sock # None /\ sock \in Nat
  BY <1>3 DEF Listeners, HostType
<1>5. ens[s].g \in Groups /\ grp[ens[s].g].st # "none"
  BY <1>1, <1>3 DEF Lists, Mine, Attempting, Launching
<1>6. grp' \in [Groups -> Engine] /\ \A k \in Groups : Mild(grp[k], grp'[k])
  BY <1>2, <1>3, <1>4, <1>5, ObserveIs, Still DEF HostType
<1>7. CASE UNCHANGED ens
  <2>1. ens' = [ens EXCEPT ![s] = ens[s]] /\ ens[s].pc \in Launching /\ ens[s].pc # "handshake"
    BY <1>1, <1>3, <1>7 DEF HostType, Launching
  <2> QED
    BY <1>1, <1>3, <1>6, <2>1, AttemptGoesOn
<1>8. CASE ens' = [ens EXCEPT ![s].pc = "handshake", ![s].before = sock, ![s].conn = h]
  <2>1. PICK e : e = [ens[s] EXCEPT !.pc = "handshake", !.before = sock, !.conn = h]
    OBVIOUS
  <2>2. e \in Ensure /\ e.pc = "handshake" /\ e.before = sock /\ e.conn = h /\ e.g = ens[s].g /\ e.who = ens[s].who
    BY <1>3, <1>4, <2>1 DEF Ensure, Holding, Attempting, Launching
  <2>3. ens' = [ens EXCEPT ![s] = e] /\ ens[s].pc \in Launching /\ e.pc \in Launching
    BY <1>1, <1>3, <1>8, <2>1, <2>2 DEF HostType, Launching
  <2> QED
    BY <1>1, <1>4, <1>6, <2>2, <2>3, AttemptGoesOn
<1> QED
  BY <1>2, <1>7, <1>8

\* The group of s's attempt becomes y, and the attempt e.
LEMMA AttemptTurns ==
    ASSUME HostInv, NEW s \in Servers, ens[s].pc \in Launching, NEW e \in Ensure, e.pc \in Failing \cup {"ready"},
           NEW g, g = ens[s].g, e.g = g, e.who = ens[s].who, ens' = [ens EXCEPT ![s] = e],
           e.pc \in {"ready", "yield"} => e.conn \in Groups,
           NEW y \in Engine, grp' \in [Groups -> Engine], \A h \in Groups \ {g} : grp'[h] = grp[h], grp'[g] = y,
           y.st = grp[g].st, y.by = s, y.ino = grp[g].ino,
           y.reg <=> e.pc = "ready",
           y.stop = IF e.pc = "ready" THEN "no" ELSE "term",
           e.pc = "ready" => y.ino # None,
           e.pc # "ready" => y.sig # "none",
           UNCHANGED <<sock, lock, lc, rst, srv, cut>>
    PROVE  HostInv'
<1>1. /\ HostType /\ ens[s] \in Ensure /\ lc[s] \in Lifecycle /\ srv[s] \in Server /\ rst[s] \in Successor
      /\ Local(s, ens[s], lc[s], srv[s], rst[s], lock)
      /\ Lists(s, ens[s], lc[s], srv[s], grp)
      /\ Replaced(s, ens[s], lc[s], srv[s], rst[s], grp)
      /\ \A h \in Groups : Sane(grp[h])
  BY View
<1>2. g \in Groups /\ grp[g].by = s /\ grp[g].st # "none" /\ ~Listed(lc[s], srv[s], g) /\ ens[s].pc \in Attempting
  BY <1>1 DEF Lists, Mine, Attempting, Launching
<1>3. e.pc \in Attempting /\ e.pc \in Holding /\ e.pc # "late" /\ e.pc # "idle" /\ e.pc # "handshake"
  BY DEF Attempting, Holding, Failing
<1>4. ens[s].pc \in Holding /\ ens[s].pc # "late" /\ ens[s].pc # "idle"
  BY DEF Attempting, Holding, Launching
<1>5. Becomes(s, e, lc[s], srv[s], rst[s])
  BY <1>1 DEF Becomes, HostType
<1>6. Local(s, e, lc[s], srv[s], rst[s], lock')
  BY <1>1, <1>3, <1>4 DEF Local
<1>7. srv[s].st \in Running
  BY <1>1, <1>4 DEF Local, Running, Serving, Server
<1>8. \A h \in Groups : Treats(s, h)
  <2>1. Treats(s, g)
    BY <1>2 DEF Treats, Up
  <2> QED
    BY <2>1, Still DEF Treats
<1>9. Lists(s, e, lc[s], srv[s], grp')
  <2>1. \A h \in Groups : Listed(lc[s], srv[s], h) =>
            Mine(grp', s, h) /\ (grp'[h].stop \in {"no", "term", "kill"} => grp'[h].reg)
    BY <1>1, <1>2 DEF Lists, Mine
  <2>2. Mine(grp', s, g)
    BY <1>2 DEF Mine
  <2>3. y.reg \in BOOLEAN
    BY DEF Engine
  <2>4. grp'[e.g].reg = (e.pc = "ready")
    BY <2>3
  <2>5. (e.pc \in Failing => grp'[e.g].stop # "no") /\ (e.pc \in Launching \cup {"ready"} => grp'[e.g].stop = "no")
    BY DEF Failing, Launching
  <2> QED
    BY <1>2, <1>3, <2>1, <2>2, <2>4, <2>5 DEF Lists
<1>10. Replaced(s, e, lc[s], srv[s], rst[s], grp')
  <2>1. SUFFICES ASSUME rst[s].pc \in {"join", "ok"}, srv[s].st = "serving" PROVE Replaced(s, e, lc[s], srv[s], rst[s], grp')
    BY DEF Replaced
  <2>2. /\ \A h \in rst[s].old : Mine(grp, s, h) /\ (Up(grp[h]) => grp[h].sig = "kill" /\ grp[h].stop = "fail" /\ ~grp[h].reg)
        /\ lc[s].current \notin rst[s].old /\ g \notin rst[s].old
    BY <1>1, <2>1 DEF Replaced
  <2>3. ASSUME NEW h \in rst[s].old
        PROVE  Mine(grp', s, h) /\ (Up(grp'[h]) => grp'[h].sig = "kill" /\ grp'[h].stop = "fail" /\ ~grp'[h].reg)
    <3>1. h \in Groups /\ grp'[h] = grp[h] /\ Mine(grp, s, h)
      BY <2>2 DEF Mine
    <3> QED
      BY <2>2, <3>1 DEF Mine
  <2> QED
    BY <2>2, <2>3 DEF Replaced
<1>11. ASSUME NEW h \in Groups, grp'[h].by = s
       PROVE  Sane(grp'[h]) /\ Tended(h, grp'[h], e, lc[s], srv[s]) /\ Guarded(h, s, grp'[h], e, srv[s], lock')
  <2>1. CASE h = g
    <3>1. Has(e, g) /\ lock' = <<s, 0>>
      BY <1>1, <1>3, <1>4 DEF Has, Local
    <3>2. Sane(y)
      BY <1>2 DEF Sane, Up
    <3>3. Tended(g, y, e, lc[s], srv[s])
      BY <1>7, <3>1 DEF Tended, Running, Serving, Failing
    <3>4. Guarded(g, s, y, e, srv[s], lock')
      BY <3>1 DEF Guarded
    <3> QED
      BY <2>1, <3>2, <3>3, <3>4
  <2>2. CASE h # g
    <3>1. grp'[h] = grp[h] /\ grp[h].by = s /\ ~Has(ens[s], h)
      BY <2>2, <1>11 DEF Has
    <3> QED
      BY <1>4, <3>1, OthersRest
  <2> QED
    BY <2>1, <2>2
<1>12. srv[s].st # "crashed" /\ CutsOnly
  BY <1>7 DEF Running, Serving, CutsOnly
<1> QED
  BY <1>5, <1>6, <1>8, <1>9, <1>10, <1>11, <1>12, HostStep

\* An attempt that fails stops its group.
LEMMA AttemptFails ==
    ASSUME HostInv, NEW s \in Servers, ens[s].pc \in Launching,
           NEW pc \in Failing, NEW retry \in BOOLEAN, Settle(s, pc, retry), pc = "yield" => ens[s].conn \in Groups,
           NEW seen \in [Groups -> Engine], \A h \in Groups \ {ens[s].g} : seen[h] = grp[h],
           Mild(grp[ens[s].g], seen[ens[s].g]), seen[ens[s].g].st = grp[ens[s].g].st,
           grp' = BeginStop(seen, ens[s].g),
           UNCHANGED <<sock, lock, lc, rst, srv, cut>>
    PROVE  HostInv'
<1>1. HostType /\ ens[s] \in Ensure /\ Lists(s, ens[s], lc[s], srv[s], grp)
  BY View
<1>2. PICK g \in Groups : g = ens[s].g
  BY <1>1 DEF Lists, Mine, Attempting
<1>3. grp[g].by = s /\ grp[g].reg = FALSE /\ grp[g].stop = "no" /\ grp[g].st # "none"
  <2>1. Mine(grp, s, g) /\ grp[g].reg = (ens[s].pc = "ready") /\ grp[g].stop = "no" /\ ens[s].pc # "ready"
    BY <1>1, <1>2 DEF Lists, Attempting, Launching
  <2> QED
    BY <2>1 DEF Mine
<1>4. /\ grp' \in [Groups -> Engine] /\ Begun(seen[g], grp'[g])
      /\ \A h \in Groups \ {g} : grp'[h] = grp[h]
  BY <1>2, BeginStopIs
<1>5. seen[g].by = s /\ seen[g].reg = FALSE /\ seen[g].stop = "no" /\ seen[g].st = grp[g].st /\ seen[g].ino = grp[g].ino
  BY <1>2, <1>3 DEF Mild
<1>6. PICK y \in Engine : y = grp'[g]
  BY <1>4
<1>7. /\ y.by = s /\ y.reg = FALSE /\ y.stop = "term" /\ y.sig # "none"
      /\ y.st = grp[g].st /\ y.ino = grp[g].ino
  BY <1>4, <1>5, <1>6 DEF Begun
<1>8. PICK e : e = [ens[s] EXCEPT !.pc = pc, !.retry = retry, !.before = None]
  OBVIOUS
<1>9. e \in Ensure /\ e.pc = pc /\ e.g = g /\ e.who = ens[s].who /\ e.conn = ens[s].conn
  BY <1>1, <1>2, <1>8 DEF Ensure, Holding, Attempting, None
<1>10. ens' = [ens EXCEPT ![s] = e]
  BY <1>1, <1>8 DEF Settle, HostType
<1>11. e.pc \in Failing \cup {"ready"} /\ e.pc # "ready" /\ (e.pc = "yield" => e.conn \in Groups)
  BY <1>9 DEF Failing
<1> QED
  BY <1>2, <1>4, <1>6, <1>7, <1>9, <1>10, <1>11, AttemptTurns

LEMMA EnsureGiveUpKeeps == ASSUME HostInv, NEW s \in Servers, EnsureGiveUp(s) PROVE HostInv'
<1>1. ens[s].pc \in Launching /\ UNCHANGED <<sock, lock, lc, rst, srv, cut>> /\ grp' = BeginStop(grp, ens[s].g)
  BY DEF EnsureGiveUp, Launching
<1>2. PICK retry \in BOOLEAN : Settle(s, "cleanup", retry)
  BY DEF EnsureGiveUp
<1>3. PICK pc \in Failing : pc = "cleanup"
  BY DEF Failing
<1>4. grp \in [Groups -> Engine] /\ Mild(grp[ens[s].g], grp[ens[s].g])
  BY Still, View DEF HostType
<1> QED
  BY <1>1, <1>2, <1>3, <1>4, AttemptFails

LEMMA EnsureHandshakeKeeps == ASSUME HostInv, NEW s \in Servers, EnsureHandshake(s) PROVE HostInv'
<1>1. ens[s].pc = "handshake" /\ ens[s].pc \in Launching /\ UNCHANGED <<sock, rst, budget, cut>>
  BY DEF EnsureHandshake, Launching
<1>2. HostType /\ ens[s] \in Ensure /\ Lists(s, ens[s], lc[s], srv[s], grp)
  BY View
<1>3. PICK g \in Groups, h \in Groups, i \in Nat : g = ens[s].g /\ h = ens[s].conn /\ i = ens[s].before
  BY <1>1, <1>2 DEF Lists, Mine, Attempting, Ensure
<1>4. /\ grp[g].by = s /\ grp[g].st # "none" /\ grp[g].stop = "no"
      /\ h = g => grp[g].ino = i
      /\ i # None
  BY <1>1, <1>2, <1>3 DEF Lists, Mine, Attempting, Launching
<1>5. PICK seen : seen = ObservePeer(grp, g, i, h)
  OBVIOUS
<1>6. /\ seen \in [Groups -> Engine] /\ \A k \in Groups \ {g} : seen[k] = grp[k]
      /\ Mild(grp[g], seen[g]) /\ seen[g].st = grp[g].st
      /\ h # g => i \notin seen[g].own
  BY <1>2, <1>4, <1>5, ObserveIs DEF HostType
<1>7. CASE /\ ens' = [ens EXCEPT ![s].pc = "loop", ![s].before = None, ![s].conn = None]
           /\ UNCHANGED <<grp, lock, lc, srv>>
  <2>1. PICK e : e = [ens[s] EXCEPT !.pc = "loop", !.before = None, !.conn = None]
    OBVIOUS
  <2>2. e \in Ensure /\ e.pc = "loop" /\ e.g = ens[s].g /\ e.who = ens[s].who
    BY <1>2, <2>1 DEF Ensure, Holding, Attempting, Launching, None
  <2>3. ens' = [ens EXCEPT ![s] = e] /\ e.pc \in Launching
    BY <1>2, <1>7, <2>1, <2>2 DEF HostType, Launching
  <2>4. grp' \in [Groups -> Engine] /\ \A k \in Groups : Mild(grp[k], grp'[k])
    BY <1>2, <1>7, Still DEF HostType
  <2> QED
    BY <1>1, <1>7, <2>2, <2>3, <2>4, AttemptGoesOn
<1>8. CASE /\ \E pc \in Failing, retry \in BOOLEAN : Settle(s, pc, retry)
           /\ grp' = BeginStop(seen, g) /\ UNCHANGED <<lock, lc, srv>>
  <2>1. PICK pc \in Failing, retry \in BOOLEAN : Settle(s, pc, retry)
    BY <1>8
  <2> QED
    BY <1>1, <1>3, <1>6, <1>8, <2>1, AttemptFails
<1>9. CASE /\ i \in seen[g].own
           /\ ens' = [ens EXCEPT ![s].pc = "ready", ![s].before = None]
           /\ grp' = [seen EXCEPT ![g].reg = TRUE] /\ UNCHANGED <<lock, lc, srv>>
  <2>1. h = g /\ grp[g].ino # None
    BY <1>4, <1>6, <1>9
  <2>2. PICK y : y = [seen[g] EXCEPT !.reg = TRUE]
    OBVIOUS
  <2>3. seen[g] \in Engine /\ seen[g].by = s /\ seen[g].ino = grp[g].ino /\ seen[g].stop = "no"
    BY <1>4, <1>6 DEF Mild
  <2>4. /\ y \in Engine /\ y.st = grp[g].st /\ y.by = s /\ y.ino = grp[g].ino /\ y.reg /\ y.stop = "no"
    BY <1>6, <2>2, <2>3 DEF Engine
  <2>5. /\ grp' \in [Groups -> Engine] /\ grp'[g] = y /\ \A k \in Groups \ {g} : grp'[k] = grp[k]
    BY <1>6, <1>9, <2>2, <2>4
  <2>6. PICK e : e = [ens[s] EXCEPT !.pc = "ready", !.before = None]
    OBVIOUS
  <2>7. e \in Ensure /\ e.pc = "ready" /\ e.g = g /\ e.who = ens[s].who /\ e.conn = h
    BY <1>2, <1>3, <2>6 DEF Ensure, Holding, Attempting, None
  <2>8. ens' = [ens EXCEPT ![s] = e]
    BY <1>2, <1>9, <2>6 DEF HostType
  <2>9. /\ y.reg <=> e.pc = "ready"
        /\ y.stop = IF e.pc = "ready" THEN "no" ELSE "term"
        /\ e.pc = "ready" => y.ino # None
        /\ e.pc # "ready" => y.sig # "none"
        /\ e.pc \in {"ready", "yield"} => e.conn \in Groups
        /\ e.pc \in Failing \cup {"ready"}
    BY <2>1, <2>4, <2>7
  <2>10. UNCHANGED <<sock, lock, lc, rst, srv, cut>>
    BY <1>1, <1>9
  <2> QED
    BY <1>1, <1>3, <2>4, <2>5, <2>7, <2>8, <2>9, <2>10, AttemptTurns
<1> QED
  <2>1. Settle(s, "cleanup", TRUE) \/ Settle(s, "yield", FALSE) => \E pc \in Failing, retry \in BOOLEAN : Settle(s, pc, retry)
    BY Zenon DEF Failing
  <2> QED
    BY <1>3, <1>5, <1>7, <1>8, <1>9, <2>1 DEF EnsureHandshake

LEMMA EnsureReadyKeeps == ASSUME HostInv, NEW s \in Servers, EnsureReady(s) PROVE HostInv'
<1>1. ens[s].pc = "ready" /\ ens[s].conn \in Groups
  BY View DEF EnsureReady, Local
<1>2. PICK d : d = ens[s].g
  OBVIOUS
<1>3. PICK h \in Groups : h = ens[s].conn
  BY <1>1
<1> QED
  BY <1>1, <1>2, <1>3, ReturnKeeps DEF EnsureReady

LEMMA EnsureCleanedKeeps == ASSUME HostInv, NEW s \in Servers, EnsureCleaned(s) PROVE HostInv'
<1>1. ens[s].pc \in Failing /\ Stopped(ens[s].g) /\ UNCHANGED <<sock, rst, budget, cut>>
  BY DEF EnsureCleaned, Failing
<1>2. Over(s)
  BY <1>1 DEF Over, Failing
<1>3. CASE ReturnError(s) /\ UNCHANGED grp
  BY <1>1, <1>2, <1>3, ReturnErrorKeeps
<1>4. CASE ens[s].pc = "yield" /\ Return(s, Adopted, ens[s].conn)
  <2>1. PICK h \in Groups : h = ens[s].conn
    BY <1>4, View DEF Local
  <2> QED
    BY <1>1, <1>2, <1>4, <2>1, ReturnKeeps
<1>5. CASE /\ ens' = [ens EXCEPT ![s].pc = "spawn", ![s].g = None, ![s].conn = None, ![s].retry = FALSE]
           /\ UNCHANGED <<grp, lock, lc, srv>>
  <2>1. /\ HostType /\ ens[s] \in Ensure /\ lc[s] \in Lifecycle /\ srv[s] \in Server /\ rst[s] \in Successor
        /\ Local(s, ens[s], lc[s], srv[s], rst[s], lock)
        /\ Lists(s, ens[s], lc[s], srv[s], grp)
        /\ Replaced(s, ens[s], lc[s], srv[s], rst[s], grp)
    BY View
  <2>2. PICK e : e = [ens[s] EXCEPT !.pc = "spawn", !.g = None, !.conn = None, !.retry = FALSE]
    OBVIOUS
  <2>3. e \in Ensure /\ e.pc = "spawn" /\ e.g = None /\ e.who = ens[s].who
    BY <2>1, <2>2 DEF Ensure, Holding
  <2>4. Becomes(s, e, lc[s], srv[s], rst[s])
    BY <1>1, <1>5, <2>1, <2>2, <2>3 DEF Becomes, HostType
  <2>5. ens[s].pc \in Holding /\ ens[s].pc \notin {"idle", "late"}
    BY <1>1 DEF Failing, Holding, Attempting
  <2>6. Local(s, e, lc[s], srv[s], rst[s], lock)
    BY <2>1, <2>3, <2>5 DEF Local
  <2>7. Lists(s, e, lc[s], srv[s], grp)
    BY <2>1, <2>3 DEF Lists, Attempting, Launching, Failing
  <2>8. Replaced(s, e, lc[s], srv[s], rst[s], grp)
    BY <2>1, <2>3, HostAssumption DEF Replaced, Successor, None
  <2>9. ASSUME NEW g \in Groups, grp[g].by = s
        PROVE  Tended(g, grp[g], e, lc[s], srv[s]) /\ Guarded(g, s, grp[g], e, srv[s], lock')
    <3>1. Has(ens[s], g) => Stopped(g)
      BY <1>1 DEF Has
    <3> QED
      BY <1>5, <2>5, <2>9, <3>1, OthersRest
  <2>10. srv[s].st # "crashed" /\ CutsOnly
    BY <1>1, <2>1, <2>5 DEF Local, Serving, CutsOnly
  <2> QED
    BY <1>5, <2>4, <2>6, <2>7, <2>8, <2>9, <2>10, QuietStep
<1> QED
  BY <1>3, <1>4, <1>5 DEF EnsureCleaned

LEMMA EnsureLateKeeps == ASSUME HostInv, NEW s \in Servers, EnsureLate(s) PROVE HostInv'
<1>1. /\ HostType /\ ens[s] \in Ensure /\ lc[s] \in Lifecycle /\ srv[s] \in Server /\ rst[s] \in Successor
      /\ Local(s, ens[s], lc[s], srv[s], rst[s], lock)
      /\ Lists(s, ens[s], lc[s], srv[s], grp)
      /\ Replaced(s, ens[s], lc[s], srv[s], rst[s], grp)
  BY View
<1>2. /\ ens[s].pc = "late" /\ UNCHANGED <<sock, grp, lock, rst, budget, cut>>
      /\ ens[s].conn \in Groups => ~Live(ens[s].conn) \/ Stopped(ens[s].conn)
  BY DEF EnsureLate
<1>3. /\ srv[s].st \in {"stop", "closing"} /\ lc[s].stopping /\ lc[s].barrier = "ensure"
  BY <1>1, <1>2 DEF Local
<1>4. PICK v, l : v = [srv[s] EXCEPT !.flight = "idle"] /\ l = [lc[s] EXCEPT !.barrier = "free"]
  OBVIOUS
<1>5. /\ v \in Server /\ l \in Lifecycle
      /\ v.st = srv[s].st /\ v.flight = "idle" /\ v.todo = srv[s].todo /\ v.ensured = srv[s].ensured
      /\ l.generation = lc[s].generation /\ l.owned = lc[s].owned /\ l.stopping
  BY <1>1, <1>3, <1>4 DEF Server, Lifecycle
<1>6. Becomes(s, NoEnsure, l, v, rst[s])
  BY <1>1, <1>2, <1>4, <1>5, NoEnsureTyped DEF Becomes, EnsureLate, HostType
<1>7. Local(s, NoEnsure, l, v, rst[s], lock)
  BY <1>1, <1>3, <1>5, NoEnsureTyped DEF Local, Holding, Attempting, Launching, Failing, Serving
<1>8. Lists(s, NoEnsure, l, v, grp)
  BY <1>1, <1>5, NoEnsureTyped DEF Lists, Listed, Attempting, Launching, Failing
<1>9. Replaced(s, NoEnsure, l, v, rst[s], grp)
  BY <1>3, <1>5 DEF Replaced
<1>10. ASSUME NEW g \in Groups, grp[g].by = s
       PROVE  Tended(g, grp[g], NoEnsure, l, v) /\ Guarded(g, s, grp[g], NoEnsure, v, lock')
  <2>1. /\ grp[g] \in Engine /\ Sane(grp[g]) /\ Tended(g, grp[g], ens[s], lc[s], srv[s])
        /\ Guarded(g, s, grp[g], ens[s], srv[s], lock)
    BY <1>10, View
  <2>2. Up(grp[g]) /\ ens[s].conn = g => grp[g].stop = "fail" /\ grp[g].sig = "kill"
    BY <1>2, <1>3, <2>1 DEF Live, Up, Stopped, Sane, Tended
  <2>3. ~Has(ens[s], g) /\ ens[s].pc \notin Failing
    BY <1>2 DEF Has, Attempting, Launching, Failing
  <2>4. Tended(g, grp[g], NoEnsure, l, v)
    BY <1>2, <1>3, <1>5, <2>1, <2>2, <2>3 DEF Tended
  <2>5. Guarded(g, s, grp[g], NoEnsure, v, lock')
    BY <1>2, <1>3, <1>5, <2>1, <2>3 DEF Guarded
  <2> QED
    BY <2>4, <2>5
<1> QED
  BY <1>2, <1>3, <1>6, <1>7, <1>8, <1>9, <1>10, QuietStep DEF CutsOnly

-----------------------------------------------------------------------------
(***************************************************************************)
(* A server process: its start, its connection, the engine restart.        *)
(***************************************************************************)

\* What CallEnsure starts with.
LEMMA CallIs ==
    ASSUME HostInv, NEW s \in Servers, NEW who \in {"main", "flight"}, CallEnsure(s, who)
    PROVE  \E e \in Ensure : ens' = [ens EXCEPT ![s] = e] /\ e.pc = "probe" /\ e.g = None /\ e.who = who
<1>1. PICK try \in {0, 1} : ens' = [ens EXCEPT ![s] = [NoEnsure EXCEPT !.pc = "probe", !.who = who, !.try = try]]
  BY DEF CallEnsure
<1>2. PICK x, y, z : x = [NoEnsure EXCEPT !.pc = "probe"] /\ y = [x EXCEPT !.who = who] /\ z = [y EXCEPT !.try = try]
  OBVIOUS
<1>3. x \in Ensure /\ x.pc = "probe" /\ x.g = None
  BY <1>2, NoEnsureTyped DEF Ensure
<1>4. y \in Ensure /\ y.pc = "probe" /\ y.g = None /\ y.who = who
  BY <1>2, <1>3 DEF Ensure
<1>5. z \in Ensure /\ z.pc = "probe" /\ z.g = None /\ z.who = who
  <2>1. try \in Nat
    BY <1>1
  <2> QED
    BY <1>2, <1>4, <2>1 DEF Ensure
<1>6. ens' = [ens EXCEPT ![s] = z]
  BY <1>1, <1>2
<1> QED
  BY <1>5, <1>6

LEMMA BootKeeps == ASSUME HostInv, NEW s \in Servers, Boot(s) PROVE HostInv'
<1>1. /\ HostType /\ ens[s] \in Ensure /\ lc[s] \in Lifecycle /\ srv[s] \in Server /\ rst[s] \in Successor
      /\ Local(s, ens[s], lc[s], srv[s], rst[s], lock)
      /\ Lists(s, ens[s], lc[s], srv[s], grp)
  BY View
<1>2. srv[s].st = "off" /\ UNCHANGED <<sock, grp, lock, lc, rst, cut>>
  BY DEF Boot
<1>3. PICK e \in Ensure : ens' = [ens EXCEPT ![s] = e] /\ e.pc = "probe" /\ e.g = None /\ e.who = "main"
  BY CallIs DEF Boot
<1>4. PICK v : v = [srv[s] EXCEPT !.st = "starting"]
  OBVIOUS
<1>5. /\ v \in Server /\ v.st = "starting" /\ v.conn = None /\ v.flight = "idle" /\ v.todo = {} /\ v.ensured = None
      /\ lc[s].generation = {} /\ lc[s].owned = {} /\ ~lc[s].stopping /\ rst[s].pc = "idle" /\ ens[s].pc = "idle"
      /\ srv[s].flight = "idle" /\ srv[s].ensured = None /\ srv[s].todo = {}
  BY <1>1, <1>2, <1>4 DEF Local, Server, Running, Serving
<1>6. Becomes(s, e, lc[s], v, rst[s])
  BY <1>1, <1>2, <1>3, <1>4, <1>5 DEF Becomes, Boot, HostType
<1>7. Local(s, e, lc[s], v, rst[s], lock)
  BY <1>3, <1>5 DEF Local, Holding, Attempting, Launching, Failing, Retiring
<1>8. Lists(s, e, lc[s], v, grp) /\ Replaced(s, e, lc[s], v, rst[s], grp)
  BY <1>3, <1>5 DEF Lists, Listed, Replaced, Attempting, Launching, Failing
<1>9. ASSUME NEW g \in Groups, grp[g].by = s
      PROVE  Tended(g, grp[g], e, lc[s], v) /\ Guarded(g, s, grp[g], e, v, lock')
  <2>1. /\ grp[g] \in Engine /\ Sane(grp[g]) /\ Tended(g, grp[g], ens[s], lc[s], srv[s])
        /\ Guarded(g, s, grp[g], ens[s], srv[s], lock)
    BY <1>9, View
  <2>2. ~Up(grp[g]) /\ (grp[g].stop \in {"term", "kill"} => grp[g].reg)
    BY <1>2, <1>5, <2>1 DEF Tended, Running, Serving, Failing
  <2> QED
    BY <1>2, <1>5, <2>1, <2>2 DEF Tended, Guarded, Up, Failing
<1> QED
  BY <1>2, <1>6, <1>7, <1>8, <1>9, QuietStep DEF CutsOnly

\* A step of which only the connection or the flight of s is to see.
LEMMA Connects ==
    ASSUME HostInv, NEW s \in Servers, NEW v \in Server, srv' = [srv EXCEPT ![s] = v],
           v.st = srv[s].st, v.todo = srv[s].todo, v.ensured = srv[s].ensured,
           v.flight = srv[s].flight \/ (v.flight = "hook" /\ v.st = "serving" /\ srv[s].flight = "idle")
                                    \/ (v.flight = "idle" /\ srv[s].flight = "hook"),
           srv[s].st \in Serving,
           UNCHANGED <<sock, grp, lock, ens, lc, rst, cut>>
    PROVE  HostInv'
<1>1. /\ HostType /\ ens[s] \in Ensure /\ lc[s] \in Lifecycle /\ srv[s] \in Server /\ rst[s] \in Successor
      /\ Local(s, ens[s], lc[s], srv[s], rst[s], lock)
      /\ Replaced(s, ens[s], lc[s], srv[s], rst[s], grp)
  BY View
<1>2. Becomes(s, ens[s], lc[s], v, rst[s])
  BY <1>1 DEF Becomes, HostType
<1>3. Local(s, ens[s], lc[s], v, rst[s], lock')
  BY <1>1 DEF Local
<1>4. Replaced(s, ens[s], lc[s], v, rst[s], grp)
  BY <1>1 DEF Replaced
<1>5. grp' \in [Groups -> Engine] /\ \A g \in Groups : Mild(grp[g], grp'[g])
  BY <1>1, Still DEF HostType
<1>6. srv[s].st # "crashed"
  BY DEF Serving
<1> QED
  BY <1>2, <1>3, <1>4, <1>5, <1>6, Turns DEF CutsOnly

LEMMA LostKeeps == ASSUME HostInv, NEW s \in Servers, Lost(s) PROVE HostInv'
<1>1. srv[s] \in Server /\ HostType /\ Local(s, ens[s], lc[s], srv[s], rst[s], lock)
  BY View
<1>2. PICK v : v = [srv[s] EXCEPT !.conn = None]
  OBVIOUS
<1>3. /\ v \in Server /\ v.st = srv[s].st /\ v.todo = srv[s].todo /\ v.ensured = srv[s].ensured
      /\ v.flight = srv[s].flight /\ srv' = [srv EXCEPT ![s] = v]
  BY <1>1, <1>2 DEF Server, Lost, HostType
<1>4. srv[s].st \in Serving /\ srv[s].st # "crashed"
  BY <1>1 DEF Lost, Local, Serving
<1> QED
  BY <1>3, <1>4, Connects DEF Lost

LEMMA RedialKeeps == ASSUME HostInv, NEW s \in Servers, Redial(s) PROVE HostInv'
<1>1. srv[s] \in Server /\ HostType
  BY View
<1>2. /\ srv[s].st = "serving" /\ srv[s].st \in Serving /\ srv[s].flight = "idle"
      /\ UNCHANGED <<sock, grp, lock, ens, lc, rst, budget, cut>>
  BY DEF Redial, Serving
<1>3. CASE srv' = [srv EXCEPT ![s].flight = "hook"]
  <2>1. PICK v : v = [srv[s] EXCEPT !.flight = "hook"]
    OBVIOUS
  <2>2. /\ v \in Server /\ v.st = srv[s].st /\ v.todo = srv[s].todo /\ v.ensured = srv[s].ensured
        /\ v.flight = "hook" /\ srv' = [srv EXCEPT ![s] = v]
    BY <1>1, <1>3, <2>1 DEF Server, HostType
  <2> QED
    BY <1>2, <2>2, Connects
<1>4. ASSUME NEW h \in Listeners, srv' = [srv EXCEPT ![s].conn = h] PROVE HostInv'
  <2>1. PICK v : v = [srv[s] EXCEPT !.conn = h]
    OBVIOUS
  <2>2. /\ v \in Server /\ v.st = srv[s].st /\ v.todo = srv[s].todo /\ v.ensured = srv[s].ensured
        /\ v.flight = srv[s].flight /\ srv' = [srv EXCEPT ![s] = v]
    BY <1>1, <1>4, <2>1 DEF Server, HostType, Listeners
  <2> QED
    BY <1>2, <2>2, Connects
<1> QED
  BY <1>3, <1>4 DEF Redial

LEMMA HookEnterKeeps == ASSUME HostInv, NEW s \in Servers, HookEnter(s) PROVE HostInv'
<1>1. /\ HostType /\ ens[s] \in Ensure /\ lc[s] \in Lifecycle /\ srv[s] \in Server /\ rst[s] \in Successor
      /\ Local(s, ens[s], lc[s], srv[s], rst[s], lock)
      /\ Lists(s, ens[s], lc[s], srv[s], grp)
      /\ Replaced(s, ens[s], lc[s], srv[s], rst[s], grp)
  BY View
<1>2. /\ srv[s].flight = "hook" /\ lc[s].barrier = "free"
      /\ UNCHANGED <<sock, grp, lock, rst, budget, cut>>
  BY DEF HookEnter
<1>3. srv[s].st \in Serving /\ srv[s].st \in Running /\ ens[s].pc = "idle" /\ rst[s].pc \notin Retiring
  BY <1>1, <1>2 DEF Local, Serving, Running
<1>4. CASE srv' = [srv EXCEPT ![s].flight = "idle"] /\ UNCHANGED <<ens, lc>>
  <2>1. PICK v : v = [srv[s] EXCEPT !.flight = "idle"]
    OBVIOUS
  <2>2. /\ v \in Server /\ v.st = srv[s].st /\ v.todo = srv[s].todo /\ v.ensured = srv[s].ensured
        /\ v.flight = "idle" /\ srv' = [srv EXCEPT ![s] = v]
    BY <1>1, <1>4, <2>1 DEF Server, HostType
  <2> QED
    BY <1>2, <1>3, <1>4, <2>2, Connects
<1>5. CASE /\ lc' = [lc EXCEPT ![s].barrier = "ensure"]
           /\ srv' = [srv EXCEPT ![s].flight = "run"]
           /\ CallEnsure(s, "flight")
  <2>1. PICK e \in Ensure : ens' = [ens EXCEPT ![s] = e] /\ e.pc = "probe" /\ e.g = None /\ e.who = "flight"
    BY <1>5, CallIs
  <2>2. PICK v, l : v = [srv[s] EXCEPT !.flight = "run"] /\ l = [lc[s] EXCEPT !.barrier = "ensure"]
    OBVIOUS
  <2>3. /\ v \in Server /\ v.st = srv[s].st /\ v.todo = srv[s].todo /\ v.ensured = srv[s].ensured
        /\ v.flight = "run" /\ v.conn = srv[s].conn /\ srv' = [srv EXCEPT ![s] = v]
    BY <1>1, <1>5, <2>2 DEF Server, HostType
  <2>4. /\ l \in Lifecycle /\ l.generation = lc[s].generation /\ l.owned = lc[s].owned /\ l.stopping = lc[s].stopping
        /\ l.current = lc[s].current /\ l.barrier = "ensure" /\ lc' = [lc EXCEPT ![s] = l]
    BY <1>1, <1>5, <2>2 DEF Lifecycle, HostType
  <2>5. Becomes(s, e, l, v, rst[s])
    BY <1>1, <1>2, <2>1, <2>3, <2>4 DEF Becomes, HostType
  <2>6. Local(s, e, l, v, rst[s], lock)
    BY <1>1, <1>2, <1>3, <2>1, <2>3, <2>4 DEF Local, Holding, Attempting, Launching, Failing
  <2>7. Lists(s, e, l, v, grp)
    BY <1>1, <2>1, <2>3, <2>4 DEF Lists, Listed, Attempting, Launching, Failing
  <2>8. Replaced(s, e, l, v, rst[s], grp)
    BY <1>1, <2>1, <2>3, <2>4, HostAssumption DEF Replaced, Successor, None
  <2>9. ASSUME NEW g \in Groups, grp[g].by = s
        PROVE  Tended(g, grp[g], e, l, v) /\ Guarded(g, s, grp[g], e, v, lock')
    <3>1. ~Has(ens[s], g) /\ ens[s].pc # "late"
      BY <1>3 DEF Has, Attempting, Launching, Failing
    <3>2. Resting(g, s, grp[g], lc[s], srv[s], lock')
      BY <1>2, <1>3, <2>9, <3>1, Rests
    <3>3. Resting(g, s, grp[g], l, v, lock')
      BY <2>3, <2>4, <3>2 DEF Resting
    <3> QED
      BY <1>3, <2>3, <3>3, RestTended
  <2>10. srv[s].st # "crashed" /\ CutsOnly
    BY <1>2, <1>3 DEF Serving, CutsOnly
  <2> QED
    BY <1>2, <2>5, <2>6, <2>7, <2>8, <2>9, <2>10, QuietStep
<1> QED
  BY <1>4, <1>5 DEF HookEnter

\* While a restart has the barrier nothing is being launched.
LEMMA Barred ==
    ASSUME HostInv, NEW s \in Servers, rst[s].pc \in Retiring
    PROVE  ens[s].pc = "idle" /\ srv[s].st \in Serving /\ lc[s].barrier = "restart"
BY View DEF Local, Retiring, Serving

\* A step of the restart of s that leaves the lists alone.
LEMMA RestartGoes ==
    ASSUME HostInv, NEW s \in Servers, srv[s].st \in Serving,
           NEW l \in Lifecycle, lc' = [lc EXCEPT ![s] = l],
           l.generation = lc[s].generation, l.owned = lc[s].owned, l.stopping = lc[s].stopping,
           l.current = lc[s].current,
           l.barrier = lc[s].barrier \/ lc[s].barrier \in {"free", "restart"},
           NEW r \in Successor, rst' = [rst EXCEPT ![s] = r],
           r.pc \in Retiring => l.barrier = "restart",
           r.pc \in {"join", "ok"} => rst[s].pc \in {"join", "ok"} /\ r.old = rst[s].old,
           r.pc = "rremove" => Listeners = {} /\ lock' = <<s, -1>>,
           r.pc \in {"rterm", "rkill"} => r.h \in Groups,
           \/ lock' = lock
           \/ ens[s].pc = "idle" /\ (lock = Free \/ lock = <<s, -1>>),
           CutsOnly, grp' \in [Groups -> Engine], \A g \in Groups : Mild(grp[g], grp'[g]),
           UNCHANGED <<ens, srv>>
    PROVE  HostInv'
<1>1. /\ HostType /\ ens[s] \in Ensure /\ lc[s] \in Lifecycle /\ srv[s] \in Server /\ rst[s] \in Successor
      /\ Local(s, ens[s], lc[s], srv[s], rst[s], lock)
      /\ Replaced(s, ens[s], lc[s], srv[s], rst[s], grp)
  BY View
<1>2. Becomes(s, ens[s], l, srv[s], r)
  BY <1>1 DEF Becomes, HostType
<1>3. Local(s, ens[s], l, srv[s], r, lock')
  BY <1>1 DEF Local, Holding, Attempting, Launching, Failing, Serving
<1>4. Replaced(s, ens[s], l, srv[s], r, grp)
  BY <1>1 DEF Replaced
<1>5. srv[s].st # "crashed" /\ (lock' = lock \/ lock = Free \/ lock = <<s, -1>>)
  BY DEF Serving
<1> QED
  BY <1>2, <1>3, <1>4, <1>5, Turns

\* One that leaves the lifecycle and the engines alone as well.
LEMMA RestartMoves ==
    ASSUME HostInv, NEW s \in Servers, srv[s].st \in Serving,
           NEW r \in Successor, rst' = [rst EXCEPT ![s] = r],
           r.pc \in Retiring => rst[s].pc \in Retiring,
           r.pc \in {"join", "ok"} => rst[s].pc \in {"join", "ok"} /\ r.old = rst[s].old,
           r.pc = "rremove" => Listeners = {} /\ lock' = <<s, -1>>,
           r.pc \in {"rterm", "rkill"} => r.h \in Groups,
           \/ lock' = lock
           \/ rst[s].pc \in Retiring /\ (lock = Free \/ lock = <<s, -1>>),
           CutsOnly, UNCHANGED <<grp, ens, lc, srv>>
    PROVE  HostInv'
<1>1. HostType /\ lc[s] \in Lifecycle /\ Local(s, ens[s], lc[s], srv[s], rst[s], lock)
  BY View
<1>2. lc' = [lc EXCEPT ![s] = lc[s]] /\ grp' \in [Groups -> Engine] /\ \A g \in Groups : Mild(grp[g], grp'[g])
  BY <1>1, Still DEF HostType
<1>3. rst[s].pc \in Retiring => ens[s].pc = "idle" /\ lc[s].barrier = "restart"
  BY Barred
<1> QED
  BY <1>1, <1>2, <1>3, RestartGoes

LEMMA RestartErrorKeeps ==
    ASSUME HostInv, NEW s \in Servers, rst[s].pc \in Retiring, NEW err \in BOOLEAN, RestartError(s, err),
           UNCHANGED <<sock, grp, lock, ens, srv, cut>>
    PROVE  HostInv'
<1>1. HostType /\ lc[s] \in Lifecycle /\ rst[s] \in Successor /\ grp \in [Groups -> Engine]
  BY View DEF HostType
<1>2. ens[s].pc = "idle" /\ srv[s].st \in Serving /\ lc[s].barrier = "restart"
  BY Barred
<1>3. PICK both \in BOOLEAN : both = (lc[s].err \/ err)
  OBVIOUS
<1>4. PICK l : l = [lc[s] EXCEPT !.barrier = "free", !.err = both]
  OBVIOUS
<1>5. /\ l \in Lifecycle /\ l.generation = lc[s].generation /\ l.owned = lc[s].owned /\ l.stopping = lc[s].stopping
      /\ l.current = lc[s].current /\ l.barrier = "free"
  BY <1>1, <1>4 DEF Lifecycle
<1>6. lc' = [lc EXCEPT ![s] = l]
  BY <1>1, <1>3, <1>4 DEF RestartError, HostType
<1>7. PICK r : r = [NoRestart EXCEPT !.pc = "err"]
  OBVIOUS
<1>8. r \in Successor /\ r.pc = "err" /\ r.pc \notin Retiring
  <2>1. NoRestart \in Successor
    BY DEF NoRestart, Successor, None
  <2> QED
    BY <1>7, <2>1 DEF Successor, Retiring
<1>9. rst' = [rst EXCEPT ![s] = r]
  BY <1>7 DEF RestartError
<1>10. CutsOnly /\ \A g \in Groups : Mild(grp[g], grp'[g])
  BY Still DEF CutsOnly
<1> QED
  BY <1>1, <1>2, <1>5, <1>6, <1>8, <1>9, <1>10, RestartGoes

LEMMA RestartBeginKeeps == ASSUME HostInv, NEW s \in Servers, RestartBegin(s) PROVE HostInv'
<1>1. HostType /\ rst[s] \in Successor
  BY View
<1>2. PICK r : r = [rst[s] EXCEPT !.pc = "barrier"]
  OBVIOUS
<1>3. r \in Successor /\ r.pc = "barrier" /\ r.pc \notin Retiring /\ rst' = [rst EXCEPT ![s] = r]
  BY <1>1, <1>2 DEF Successor, Retiring, RestartBegin, HostType
<1>4. srv[s].st \in Serving /\ CutsOnly /\ UNCHANGED <<sock, grp, lock, ens, lc, srv, cut>>
  BY DEF RestartBegin, Serving, CutsOnly
<1> QED
  BY <1>3, <1>4, RestartMoves

LEMMA RestartAdmitKeeps == ASSUME HostInv, NEW s \in Servers, RestartAdmit(s) PROVE HostInv'
<1>1. HostType /\ rst[s] \in Successor /\ lc[s] \in Lifecycle /\ Local(s, ens[s], lc[s], srv[s], rst[s], lock)
  BY View
<1>2. /\ rst[s].pc = "barrier" /\ lc[s].barrier = "free" /\ UNCHANGED <<sock, grp, lock, ens, srv, budget, cut>>
      /\ lc' = [lc EXCEPT ![s].barrier = "restart"]
  BY DEF RestartAdmit
<1>3. PICK pc \in {"stop", "retire"} : rst' = [rst EXCEPT ![s].pc = pc]
  BY DEF RestartAdmit
<1>4. PICK r, l : r = [rst[s] EXCEPT !.pc = pc] /\ l = [lc[s] EXCEPT !.barrier = "restart"]
  OBVIOUS
<1>5. r \in Successor /\ r.pc = pc /\ r.pc \in Retiring /\ r.pc # "rremove" /\ rst' = [rst EXCEPT ![s] = r]
  BY <1>1, <1>3, <1>4 DEF Successor, Retiring, HostType
<1>6. /\ l \in Lifecycle /\ l.generation = lc[s].generation /\ l.owned = lc[s].owned /\ l.stopping = lc[s].stopping
      /\ l.current = lc[s].current /\ l.barrier = "restart" /\ lc' = [lc EXCEPT ![s] = l]
  BY <1>1, <1>2, <1>4 DEF Lifecycle, HostType
<1>7. srv[s].st \in Serving /\ CutsOnly /\ grp' \in [Groups -> Engine] /\ \A g \in Groups : Mild(grp[g], grp'[g])
  BY <1>1, <1>2, Still DEF Local, CutsOnly, HostType
<1> QED
  BY <1>2, <1>5, <1>6, <1>7, RestartGoes

LEMMA SignalMild ==
    ASSUME NEW gr \in [Groups -> Engine], NEW h \in Groups, gr[h].st # "none", NEW sig \in {"term", "kill"}
    PROVE  Signal(gr, h, sig) \in [Groups -> Engine] /\ \A g \in Groups : Mild(gr[g], Signal(gr, h, sig)[g])
<1>1. PICK y : y = [gr[h] EXCEPT !.sig = IF @ = "kill" THEN @ ELSE sig]
  OBVIOUS
<1>2. y \in Engine /\ Mild(gr[h], y)
  <2>1. gr[h] \in Engine
    OBVIOUS
  <2> QED
    BY <1>1, <2>1 DEF Engine, Mild
<1>3. Signal(gr, h, sig) = [gr EXCEPT ![h] = y]
  BY <1>1 DEF Signal
<1> QED
  BY <1>2, <1>3, Still

\* A step of a restart that signals the engine it met.
LEMMA RetireSignals ==
    ASSUME HostInv, NEW s \in Servers, rst[s].pc \in Retiring,
           NEW h \in Groups, Live(h), NEW sig \in {"term", "kill"}, grp' = Signal(grp, h, sig),
           NEW r \in Successor, rst' = [rst EXCEPT ![s] = r], r.pc \in {"rterm", "rkill"}, r.h = h,
           UNCHANGED <<sock, lock, ens, lc, srv, cut>>
    PROVE  HostInv'
<1>1. HostType /\ lc[s] \in Lifecycle
  BY View
<1>2. lc' = [lc EXCEPT ![s] = lc[s]] /\ grp \in [Groups -> Engine] /\ grp[h].st # "none"
  BY <1>1 DEF HostType, Live
<1>3. grp' \in [Groups -> Engine] /\ \A g \in Groups : Mild(grp[g], grp'[g])
  BY <1>2, SignalMild
<1>4. srv[s].st \in Serving /\ lc[s].barrier = "restart" /\ CutsOnly
  BY Barred DEF CutsOnly
<1>5. r.pc \notin {"join", "ok", "rremove"}
  OBVIOUS
<1> QED
  BY <1>1, <1>2, <1>3, <1>4, <1>5, RestartGoes

LEMMA RetireKeeps == ASSUME HostInv, NEW s \in Servers, Retire(s) PROVE HostInv'
<1>1. HostType /\ rst[s] \in Successor /\ sock \in Nat
  BY View DEF HostType
<1>2. rst[s].pc = "retire" /\ rst[s].pc \in Retiring /\ UNCHANGED <<sock, lock, ens, srv, budget, cut>>
  BY DEF Retire, Retiring
<1>3. srv[s].st \in Serving /\ CutsOnly
  BY <1>2, Barred DEF CutsOnly
<1>4. CASE rst' = [rst EXCEPT ![s].pc = "stop"] /\ UNCHANGED <<grp, lc>>
  <2>1. PICK r : r = [rst[s] EXCEPT !.pc = "stop"]
    OBVIOUS
  <2>2. r \in Successor /\ r.pc = "stop" /\ rst' = [rst EXCEPT ![s] = r]
    BY <1>1, <1>4, <2>1 DEF Successor, Retiring, HostType
  <2> QED
    BY <1>2, <1>3, <1>4, <2>2, RestartMoves
<1>5. CASE rst' = [rst EXCEPT ![s].pc = "rlock", ![s].target = sock] /\ UNCHANGED <<grp, lc>>
  <2>1. PICK r : r = [rst[s] EXCEPT !.pc = "rlock", !.target = sock]
    OBVIOUS
  <2>2. r \in Successor /\ r.pc = "rlock" /\ rst' = [rst EXCEPT ![s] = r]
    BY <1>1, <1>5, <2>1 DEF Successor, Retiring, HostType
  <2> QED
    BY <1>2, <1>3, <1>5, <2>2, RestartMoves
<1>6. ASSUME NEW h \in Listeners, grp' = Signal(grp, h, "term"),
             rst' = [rst EXCEPT ![s].pc = "rterm", ![s].h = h, ![s].target = sock], UNCHANGED lc
      PROVE  HostInv'
  <2>1. PICK r : r = [rst[s] EXCEPT !.pc = "rterm", !.h = h, !.target = sock]
    OBVIOUS
  <2>2. h \in Groups /\ Live(h)
    BY DEF Listeners
  <2>3. r \in Successor /\ r.pc = "rterm" /\ r.h = h /\ rst' = [rst EXCEPT ![s] = r]
    BY <1>1, <1>6, <2>1, <2>2 DEF Successor, Retiring, HostType
  <2> QED
    BY <1>2, <1>6, <2>2, <2>3, RetireSignals
<1>7. CASE RestartError(s, FALSE) /\ UNCHANGED grp
  BY <1>2, <1>7, RestartErrorKeeps
<1> QED
  BY <1>4, <1>5, <1>6, <1>7 DEF Retire

LEMMA RetireWaitKeeps == ASSUME HostInv, NEW s \in Servers, RetireWait(s) PROVE HostInv'
<1>1. HostType /\ rst[s] \in Successor
  BY View
<1>2. rst[s].pc \in Retiring /\ UNCHANGED <<sock, lock, ens, srv, cut>>
  BY DEF RetireWait, Retiring
<1>3. srv[s].st \in Serving /\ CutsOnly
  BY <1>2, Barred DEF CutsOnly
<1>4. CASE rst' = [rst EXCEPT ![s].pc = "rlock", ![s].h = None] /\ UNCHANGED <<grp, lc, budget>>
  <2>1. PICK r : r = [rst[s] EXCEPT !.pc = "rlock", !.h = None]
    OBVIOUS
  <2>2. r \in Successor /\ r.pc = "rlock" /\ rst' = [rst EXCEPT ![s] = r]
    BY <1>1, <1>4, <2>1 DEF Successor, Retiring, HostType
  <2> QED
    BY <1>2, <1>3, <1>4, <2>2, RestartMoves
<1>5. CASE /\ Live(rst[s].h) /\ grp' = Signal(grp, rst[s].h, "kill")
           /\ rst' = [rst EXCEPT ![s].pc = "rkill"] /\ UNCHANGED lc
  <2>1. PICK r : r = [rst[s] EXCEPT !.pc = "rkill"]
    OBVIOUS
  <2>2. r \in Successor /\ r.pc = "rkill" /\ r.h = rst[s].h /\ rst' = [rst EXCEPT ![s] = r]
    BY <1>1, <1>5, <2>1 DEF Successor, Retiring, HostType
  <2>3. rst[s].h \in Groups
    BY View DEF RetireWait, Local
  <2>4. PICK h \in Groups : h = rst[s].h
    BY <2>3
  <2> QED
    BY <1>2, <1>5, <2>2, <2>4, RetireSignals
<1>6. CASE RestartError(s, TRUE) /\ UNCHANGED grp
  BY <1>2, <1>6, RestartErrorKeeps
<1> QED
  BY <1>4, <1>5, <1>6 DEF RetireWait

LEMMA RetireLockKeeps == ASSUME HostInv, NEW s \in Servers, RetireLock(s) PROVE HostInv'
<1>1. HostType /\ rst[s] \in Successor
  BY View
<1>2. rst[s].pc = "rlock" /\ rst[s].pc \in Retiring /\ UNCHANGED <<sock, grp, ens, lc, srv, budget, cut>>
  BY DEF RetireLock, Retiring
<1>3. srv[s].st \in Serving /\ CutsOnly
  BY <1>2, Barred DEF CutsOnly
<1>4. PICK pc \in {"rremove", "stop"} :
          /\ rst' = [rst EXCEPT ![s].pc = pc, ![s].target = None]
          /\ IF pc = "rremove" THEN lock = Free /\ Listeners = {} /\ lock' = <<s, -1>> ELSE lock' = lock
  <2>1. CASE lock = Free /\ Refused /\ sock = rst[s].target
    BY <2>1 DEF RetireLock, Refused
  <2>2. CASE ~(lock = Free /\ Refused /\ sock = rst[s].target)
    BY <2>2 DEF RetireLock
  <2> QED
    BY <2>1, <2>2
<1>5. PICK r : r = [rst[s] EXCEPT !.pc = pc, !.target = None]
  OBVIOUS
<1>6. r \in Successor /\ r.pc = pc /\ rst' = [rst EXCEPT ![s] = r]
  BY <1>1, <1>4, <1>5 DEF Successor, Retiring, HostType, None
<1> QED
  BY <1>2, <1>3, <1>4, <1>6, RestartMoves

LEMMA RetireRemoveKeeps == ASSUME HostInv, NEW s \in Servers, RetireRemove(s) PROVE HostInv'
<1>1. HostType /\ rst[s] \in Successor /\ Local(s, ens[s], lc[s], srv[s], rst[s], lock)
  BY View
<1>2. /\ rst[s].pc = "rremove" /\ rst[s].pc \in Retiring /\ UNCHANGED <<grp, ens, lc, srv, budget>>
      /\ Unlink /\ Unlock(<<s, -1>>) /\ rst' = [rst EXCEPT ![s].pc = "stop"]
  BY DEF RetireRemove, Retiring
<1>3. srv[s].st \in Serving /\ lock = <<s, -1>>
  BY <1>1, <1>2, Barred DEF Local
<1>4. CutsOnly
  BY <1>2 DEF CutsOnly, Cutting, Unlink
<1>5. PICK r : r = [rst[s] EXCEPT !.pc = "stop"]
  OBVIOUS
<1>6. r \in Successor /\ r.pc = "stop" /\ rst' = [rst EXCEPT ![s] = r]
  BY <1>1, <1>2, <1>5 DEF Successor, Retiring, HostType
<1> QED
  BY <1>2, <1>3, <1>4, <1>6, RestartMoves

LEMMA RestartJoinKeeps == ASSUME HostInv, NEW s \in Servers, RestartJoin(s) PROVE HostInv'
<1>1. HostType /\ rst[s] \in Successor /\ Local(s, ens[s], lc[s], srv[s], rst[s], lock)
  BY View
<1>2. rst[s].pc = "join" /\ UNCHANGED <<sock, grp, lock, ens, lc, srv, budget, cut>>
  BY DEF RestartJoin
<1>3. PICK pc \in {"ok", "err"} : rst' = [rst EXCEPT ![s].pc = pc]
  BY DEF RestartJoin
<1>4. PICK r : r = [rst[s] EXCEPT !.pc = pc]
  OBVIOUS
<1>5. r \in Successor /\ r.pc = pc /\ r.pc \notin Retiring /\ r.old = rst[s].old /\ rst' = [rst EXCEPT ![s] = r]
  BY <1>1, <1>3, <1>4 DEF Successor, Retiring, HostType
<1>6. srv[s].st \in Serving /\ CutsOnly
  BY <1>1, <1>2 DEF Local, CutsOnly
<1> QED
  BY <1>2, <1>5, <1>6, RestartMoves

LEMMA RestartEndKeeps == ASSUME HostInv, NEW s \in Servers, RestartEnd(s) PROVE HostInv'
<1>1. HostType /\ Local(s, ens[s], lc[s], srv[s], rst[s], lock)
  BY View
<1>2. rst[s].pc \in {"ok", "err"} /\ UNCHANGED <<sock, grp, lock, ens, lc, srv, budget, cut>>
      /\ rst' = [rst EXCEPT ![s] = NoRestart]
  BY DEF RestartEnd
<1>3. NoRestart \in Successor /\ NoRestart.pc = "idle" /\ NoRestart.pc \notin Retiring
  BY DEF NoRestart, Successor, None, Retiring
<1>4. srv[s].st \in Serving /\ CutsOnly
  BY <1>1, <1>2 DEF Local, CutsOnly
<1> QED
  BY <1>2, <1>3, <1>4, RestartMoves

\* The stop of an engine on a list of s begins.
LEMMA ListedStops ==
    ASSUME HostInv, NEW s \in Servers, srv[s].st \in Serving, NEW g \in Groups, Listed(lc[s], srv[s], g),
           grp[g].stop = "no", grp' = BeginStop(grp, g), UNCHANGED <<sock, lock, ens, lc, rst, srv, cut>>
    PROVE  HostInv'
<1>1. /\ HostType /\ ens[s] \in Ensure /\ lc[s] \in Lifecycle /\ srv[s] \in Server /\ rst[s] \in Successor
      /\ Local(s, ens[s], lc[s], srv[s], rst[s], lock)
      /\ Lists(s, ens[s], lc[s], srv[s], grp)
      /\ Replaced(s, ens[s], lc[s], srv[s], rst[s], grp)
      /\ \A h \in Groups : grp[h] \in Engine /\ Sane(grp[h])
      /\ \A h \in Groups : grp[h].by = s => /\ Tended(h, grp[h], ens[s], lc[s], srv[s])
                                            /\ Guarded(h, s, grp[h], ens[s], srv[s], lock)
  BY View
<1>2. grp[g].by = s /\ grp[g].st # "none" /\ grp[g].reg /\ grp[g].ino # None
  BY <1>1 DEF Lists, Mine, Sane
<1>3. ~(ens[s].pc \in Attempting /\ ens[s].g = g)
  <2>1. ens[s].pc \in Launching \cup {"ready"} => ens[s].g # g
    BY <1>1 DEF Lists
  <2>2. ens[s].pc \in Failing => ens[s].g # g
    BY <1>1 DEF Lists
  <2> QED
    BY <2>1, <2>2 DEF Attempting
<1>4. PICK y \in Engine : y = grp'[g]
  BY <1>1, BeginStopIs DEF HostType
<1>5. /\ grp' \in [Groups -> Engine] /\ Begun(grp[g], y) /\ grp'[g] = y
      /\ \A h \in Groups \ {g} : grp'[h] = grp[h]
  BY <1>1, <1>4, BeginStopIs DEF HostType
<1>6. /\ y.by = s /\ y.st = grp[g].st /\ y.ino = grp[g].ino /\ y.stop = "term" /\ y.sig # "none"
      /\ y.reg
  BY <1>2, <1>5 DEF Begun
<1>7. Becomes(s, ens[s], lc[s], srv[s], rst[s])
  BY <1>1 DEF Becomes, HostType
<1>8. \A h \in Groups : Treats(s, h)
  <2>1. Treats(s, g)
    BY <1>2, <1>5, BegunTreats
  <2> QED
    BY <2>1, <1>5, Still DEF Treats
<1>9. \A h : Mine(grp, s, h) => Mine(grp', s, h)
  BY <1>2, <1>5, <1>6 DEF Mine
<1>10. Lists(s, ens[s], lc[s], srv[s], grp')
  <2>1. \A h \in Groups : Listed(lc[s], srv[s], h) =>
            Mine(grp', s, h) /\ (grp'[h].stop \in {"no", "term", "kill"} => grp'[h].reg)
    BY <1>1, <1>5, <1>6, <1>9 DEF Lists
  <2>2. ens[s].pc \in Attempting => Mine(grp', s, ens[s].g) /\ grp'[ens[s].g] = grp[ens[s].g]
    BY <1>1, <1>3, <1>5, <1>9 DEF Lists, Mine
  <2> QED
    BY <1>1, <1>9, <2>1, <2>2 DEF Lists, Attempting, Launching
<1>11. Replaced(s, ens[s], lc[s], srv[s], rst[s], grp')
  <2>1. SUFFICES ASSUME rst[s].pc \in {"join", "ok"}, srv[s].st = "serving"
                 PROVE Replaced(s, ens[s], lc[s], srv[s], rst[s], grp')
    BY DEF Replaced
  <2>2. /\ \A h \in rst[s].old : Mine(grp, s, h) /\ (Up(grp[h]) => grp[h].sig = "kill" /\ grp[h].stop = "fail" /\ ~grp[h].reg)
        /\ lc[s].current \notin rst[s].old /\ ens[s].g \notin rst[s].old
    BY <1>1, <2>1 DEF Replaced
  <2>3. ASSUME NEW h \in rst[s].old
        PROVE  Mine(grp', s, h) /\ (Up(grp'[h]) => grp'[h].sig = "kill" /\ grp'[h].stop = "fail" /\ ~grp'[h].reg)
    <3>1. CASE h = g
      BY <2>2, <3>1, <1>5, <1>6, <1>9 DEF Up
    <3>2. CASE h # g
      <4>1. h \in Groups /\ grp'[h] = grp[h]
        BY <2>2, <3>2, <1>5 DEF Mine
      <4> QED
        BY <2>2, <4>1, <1>9
    <3> QED
      BY <3>1, <3>2
  <2> QED
    BY <2>2, <2>3 DEF Replaced
<1>12. ASSUME NEW h \in Groups, grp'[h].by = s
       PROVE  Sane(grp'[h]) /\ Tended(h, grp'[h], ens[s], lc[s], srv[s]) /\ Guarded(h, s, grp'[h], ens[s], srv[s], lock')
  <2>1. CASE h = g
    <3>1. Sane(y)
      BY <1>1, <1>2, <1>5, BegunSane
    <3>2. Tended(g, grp[g], ens[s], lc[s], srv[s])
      BY <1>1, <1>2
    <3>3. Tended(g, y, ens[s], lc[s], srv[s])
      BY <3>2, <1>2, <1>3, <1>6 DEF Tended, Up, Serving, Has
    <3>4. Guarded(g, s, y, ens[s], srv[s], lock')
      BY <1>2, <1>6 DEF Guarded
    <3> QED
      BY <2>1, <3>1, <3>3, <3>4, <1>5
  <2>2. CASE h # g
    BY <2>2, <1>1, <1>5, <1>12
  <2> QED
    BY <2>1, <2>2
<1>13. srv[s].st # "crashed" /\ CutsOnly /\ lock' = lock
  BY DEF Serving, CutsOnly
<1> QED
  BY <1>5, <1>7, <1>8, <1>1, <1>10, <1>11, <1>12, <1>13, HostStep

LEMMA RestartStopKeeps == ASSUME HostInv, NEW s \in Servers, RestartStop(s) PROVE HostInv'
<1>1. rst[s].pc \in Retiring /\ UNCHANGED <<sock, lock, ens, lc, rst, srv, budget, cut>>
  BY DEF RestartStop, Retiring
<1>2. PICK g \in lc[s].generation : grp[g].stop = "no" /\ grp' = BeginStop(grp, g)
  BY DEF RestartStop
<1>3. g \in Groups /\ Listed(lc[s], srv[s], g)
  BY View DEF Lifecycle, Listed
<1> QED
  BY <1>1, <1>2, <1>3, Barred, ListedStops

\* What a server that is up, with no EnsureDaemon, leaves alive.
LEMMA FencedOff ==
    ASSUME HostInv, NEW s \in Servers, rst[s].pc \in Retiring,
           \A g \in lc[s].generation : grp[g].stop = "done",
           NEW g \in Groups, grp[g].by = s
    PROVE  /\ Resting(g, s, grp[g], lc[s], srv[s], lock)
           /\ Up(grp[g]) => grp[g].stop = "fail" /\ grp[g].sig = "kill" /\ g \notin lc[s].generation
           /\ Up(grp[g]) /\ grp[g].reg => srv[s].st # "serving"
<1>1. ens[s].pc = "idle" /\ srv[s].st \in Serving
  BY Barred
<1>2. ~Has(ens[s], g) /\ ens[s].pc # "late" /\ srv[s].st \in Running
  BY <1>1 DEF Has, Attempting, Launching, Failing, Running
<1>3. Sane(grp[g]) /\ lc[s] \in Lifecycle
  BY View
<1>4. Up(grp[g]) => g \notin lc[s].generation
  BY <1>3 DEF Sane, Up
<1>6. Tended(g, grp[g], ens[s], lc[s], srv[s]) /\ Guarded(g, s, grp[g], ens[s], srv[s], lock)
  BY View
<1>7. Resting(g, s, grp[g], lc[s], srv[s], lock)
  BY <1>1, <1>2, <1>6 DEF Resting, Tended, Guarded, Has, Running, Serving, Failing
<1> QED
  BY <1>4, <1>7 DEF Resting

LEMMA RestartFenceKeeps == ASSUME HostInv, NEW s \in Servers, RestartFence(s) PROVE HostInv'
<1>1. /\ HostType /\ ens[s] \in Ensure /\ lc[s] \in Lifecycle /\ srv[s] \in Server /\ rst[s] \in Successor
      /\ Local(s, ens[s], lc[s], srv[s], rst[s], lock)
      /\ Lists(s, ens[s], lc[s], srv[s], grp)
  BY View
<1>2. /\ rst[s].pc \in Retiring /\ \A g \in lc[s].generation : Stopped(g)
      /\ UNCHANGED <<sock, grp, lock, ens, budget, cut>>
  BY DEF RestartFence, Retiring
<1>3. CASE RestartError(s, TRUE) /\ UNCHANGED srv
  BY <1>2, <1>3, RestartErrorKeeps
<1>4. CASE /\ ~\E g \in lc[s].generation : grp[g].stop = "fail"
           /\ rst' = [rst EXCEPT ![s].pc = "join", ![s].old = Of(s)]
           /\ lc' = [lc EXCEPT ![s].barrier = "free", ![s].current = None,
                                ![s].generation = {}, ![s].err = FALSE]
           /\ srv' = [srv EXCEPT ![s].conn = None, ![s].flight = IF @ = "hook" THEN "idle" ELSE @]
  <2>1. ens[s].pc = "idle" /\ ens[s].g = None /\ srv[s].st \in Serving
    BY <1>1, <1>2, Barred DEF Local, Attempting, Launching, Failing
  <2>2. \A g \in lc[s].generation : grp[g].stop = "done"
    BY <1>2, <1>4 DEF Stopped
  <2>3. Of(s) \subseteq Groups /\ \A g \in Groups : g \in Of(s) <=> Mine(grp, s, g)
    BY DEF Of, Mine
  <2>4. PICK r : r = [rst[s] EXCEPT !.pc = "join", !.old = Of(s)]
    OBVIOUS
  <2>5. r \in Successor /\ r.pc = "join" /\ r.old = Of(s) /\ rst' = [rst EXCEPT ![s] = r]
    BY <1>1, <1>4, <2>3, <2>4 DEF Successor, HostType
  <2>6. PICK l : l = [lc[s] EXCEPT !.barrier = "free", !.current = None, !.generation = {}, !.err = FALSE]
    OBVIOUS
  <2>7. /\ l \in Lifecycle /\ l.barrier = "free" /\ l.current = None /\ l.generation = {} /\ l.owned = lc[s].owned
        /\ l.stopping = lc[s].stopping /\ lc' = [lc EXCEPT ![s] = l]
    BY <1>1, <1>4, <2>6 DEF Lifecycle, HostType
  <2>8. PICK flight \in {"idle", "run"} : flight = IF srv[s].flight = "hook" THEN "idle" ELSE srv[s].flight
    BY <1>1 DEF Server
  <2>9. PICK v : v = [srv[s] EXCEPT !.conn = None, !.flight = flight]
    OBVIOUS
  <2>10. /\ v \in Server /\ v.st = srv[s].st /\ v.todo = srv[s].todo /\ v.ensured = srv[s].ensured /\ v.conn = None
         /\ v.flight = flight
    BY <1>1, <2>9 DEF Server, None
  <2>11. srv' = [srv EXCEPT ![s] = v]
    BY <1>1, <1>4, <2>8, <2>9 DEF HostType
  <2>12. Becomes(s, ens[s], l, v, r)
    BY <1>1, <1>2, <2>5, <2>7, <2>10, <2>11 DEF Becomes, HostType
  <2>13. Local(s, ens[s], l, v, r, lock)
    BY <1>1, <2>1, <2>5, <2>7, <2>8, <2>10 DEF Local, Holding, Attempting, Launching, Failing, Retiring
  <2>14. Lists(s, ens[s], l, v, grp)
    BY <1>1, <2>1, <2>7, <2>10 DEF Lists, Listed, Attempting, Launching, Failing
  <2>15. Replaced(s, ens[s], l, v, r, grp)
    <3>1. ASSUME NEW g \in r.old, srv[s].st = "serving"
          PROVE  Mine(grp, s, g) /\ (Up(grp[g]) => grp[g].sig = "kill" /\ grp[g].stop = "fail" /\ ~grp[g].reg)
      <4>1. g \in Groups /\ Mine(grp, s, g) /\ grp[g].by = s /\ grp[g] \in Engine
        BY <3>1, <2>3, <2>5, View DEF Mine
      <4>2. Up(grp[g]) => grp[g].stop = "fail" /\ grp[g].sig = "kill" /\ ~grp[g].reg
        BY <4>1, <3>1, <1>2, <2>2, FencedOff
      <4> QED
        BY <4>1, <4>2
    <3>2. None \notin r.old
      BY <2>3, <2>5, HostAssumption DEF None
    <3> QED
      BY <3>1, <3>2, <2>1, <2>7, <2>10 DEF Replaced
  <2>16. ASSUME NEW g \in Groups, grp[g].by = s
         PROVE  Tended(g, grp[g], ens[s], l, v) /\ Guarded(g, s, grp[g], ens[s], v, lock')
    <3>1. Resting(g, s, grp[g], lc[s], srv[s], lock) /\ (Up(grp[g]) => grp[g].stop = "fail" /\ grp[g].sig = "kill")
          /\ (Up(grp[g]) /\ grp[g].reg => srv[s].st # "serving")
      BY <1>2, <2>2, <2>16, FencedOff
    <3>2. Resting(g, s, grp[g], l, v, lock')
      BY <1>2, <2>1, <2>10, <3>1 DEF Resting, Serving
    <3> QED
      BY <2>1, <2>10, <3>2, RestTended DEF Running
  <2>17. srv[s].st # "crashed" /\ CutsOnly /\ r.pc # "rremove"
    BY <1>2, <2>1, <2>5 DEF Serving, CutsOnly
  <2> QED
    BY <1>2, <2>12, <2>13, <2>14, <2>15, <2>16, <2>17, QuietStep
<1> QED
  BY <1>3, <1>4 DEF RestartFence

LEMMA QuitKeeps == ASSUME HostInv, NEW s \in Servers, Quit(s) PROVE HostInv'
<1>1. /\ HostType /\ ens[s] \in Ensure /\ lc[s] \in Lifecycle /\ srv[s] \in Server /\ rst[s] \in Successor
      /\ Local(s, ens[s], lc[s], srv[s], rst[s], lock)
      /\ Lists(s, ens[s], lc[s], srv[s], grp)
      /\ Replaced(s, ens[s], lc[s], srv[s], rst[s], grp)
      /\ \A g \in Groups : grp[g].by = s => /\ Tended(g, grp[g], ens[s], lc[s], srv[s])
                                            /\ Guarded(g, s, grp[g], ens[s], srv[s], lock)
  BY View
<1>2. UNCHANGED <<sock, grp, lock, ens, rst, cut>> /\ CutsOnly
  BY DEF Quit, CutsOnly
<1>3. CASE srv[s].st = "starting" /\ srv' = [srv EXCEPT ![s].st = "quit"] /\ UNCHANGED lc
  <2>1. PICK v : v = [srv[s] EXCEPT !.st = "quit"]
    OBVIOUS
  <2>2. /\ v \in Server /\ v.st = "quit" /\ v.todo = srv[s].todo /\ v.ensured = srv[s].ensured /\ v.flight = srv[s].flight
        /\ v.conn = srv[s].conn
    BY <1>1, <2>1 DEF Server, Running
  <2>3. Becomes(s, ens[s], lc[s], v, rst[s])
    BY <1>1, <1>2, <1>3, <2>1, <2>2 DEF Becomes, HostType
  <2>4. Local(s, ens[s], lc[s], v, rst[s], lock)
    BY <1>1, <1>3, <2>2 DEF Local, Serving
  <2>5. Lists(s, ens[s], lc[s], v, grp) /\ Replaced(s, ens[s], lc[s], v, rst[s], grp)
    BY <1>1, <2>2 DEF Lists, Listed, Replaced
  <2>6. ASSUME NEW g \in Groups, grp[g].by = s
        PROVE  Tended(g, grp[g], ens[s], lc[s], v) /\ Guarded(g, s, grp[g], ens[s], v, lock')
    BY <1>1, <1>2, <1>3, <2>2, <2>6 DEF Tended, Guarded, Running, Serving
  <2> QED
    BY <1>2, <1>3, <2>3, <2>4, <2>5, <2>6, QuietStep
<1>4. CASE /\ srv[s].st = "serving"
           /\ srv' = [srv EXCEPT ![s].st = "stop", ![s].todo = lc[s].owned]
           /\ lc' = [lc EXCEPT ![s].stopping = TRUE, ![s].owned = {}]
  <2>1. PICK v, l : v = [srv[s] EXCEPT !.st = "stop", !.todo = lc[s].owned] /\ l = [lc[s] EXCEPT !.stopping = TRUE, !.owned = {}]
    OBVIOUS
  <2>2. /\ v \in Server /\ v.st = "stop" /\ v.todo = lc[s].owned /\ v.ensured = srv[s].ensured /\ v.flight = srv[s].flight
        /\ srv' = [srv EXCEPT ![s] = v]
    BY <1>1, <1>4, <2>1 DEF Server, Running, Serving, Lifecycle, HostType
  <2>3. /\ l \in Lifecycle /\ l.owned = {} /\ l.generation = lc[s].generation /\ l.barrier = lc[s].barrier
        /\ lc' = [lc EXCEPT ![s] = l]
    BY <1>1, <1>4, <2>1 DEF Lifecycle, HostType
  <2>4. l.stopping
    BY <1>1, <2>1 DEF Lifecycle
  <2>5. Becomes(s, ens[s], l, v, rst[s])
    BY <1>1, <1>2, <2>2, <2>3 DEF Becomes, HostType
  <2>6. Local(s, ens[s], l, v, rst[s], lock)
    BY <1>1, <1>4, <2>2, <2>3, <2>4 DEF Local, Serving
  <2>7. \A g \in Groups : Listed(l, v, g) <=> Listed(lc[s], srv[s], g)
    <3>1. srv[s].todo = {}
      BY <1>1, <1>4 DEF Local
    <3> QED
      BY <2>2, <2>3, <3>1 DEF Listed
  <2>8. Lists(s, ens[s], l, v, grp)
    <3>1. ens[s].pc \in Attempting => ens[s].g \in Groups
      BY <1>1 DEF Lists, Mine
    <3> QED
      BY <1>1, <2>7, <3>1 DEF Lists, Attempting
  <2>9. Replaced(s, ens[s], l, v, rst[s], grp)
    BY <2>2 DEF Replaced
  <2>10. ASSUME NEW g \in Groups, grp[g].by = s
         PROVE  Tended(g, grp[g], ens[s], l, v) /\ Guarded(g, s, grp[g], ens[s], v, lock')
    <3>1. srv[s].todo = {}
      BY <1>1, <1>4 DEF Local
    <3>2. Tended(g, grp[g], ens[s], lc[s], srv[s]) /\ Guarded(g, s, grp[g], ens[s], srv[s], lock)
      BY <1>1, <2>10
    <3> QED
      BY <1>2, <1>4, <2>2, <2>3, <3>1, <3>2 DEF Tended, Guarded, Running, Serving
  <2> QED
    BY <1>2, <1>4, <2>5, <2>6, <2>8, <2>9, <2>10, QuietStep
<1> QED
  BY <1>3, <1>4 DEF Quit

LEMMA QuitStopKeeps == ASSUME HostInv, NEW s \in Servers, QuitStop(s) PROVE HostInv'
<1>1. /\ HostType /\ ens[s] \in Ensure /\ lc[s] \in Lifecycle /\ srv[s] \in Server /\ rst[s] \in Successor
      /\ Local(s, ens[s], lc[s], srv[s], rst[s], lock)
      /\ Lists(s, ens[s], lc[s], srv[s], grp)
      /\ Replaced(s, ens[s], lc[s], srv[s], rst[s], grp)
      /\ \A g \in Groups : grp[g].by = s => /\ Sane(grp[g]) /\ Tended(g, grp[g], ens[s], lc[s], srv[s])
                                            /\ Guarded(g, s, grp[g], ens[s], srv[s], lock)
  BY View
<1>2. srv[s].st = "stop" /\ srv[s].st \in Serving /\ UNCHANGED <<sock, lock, ens, lc, rst, budget, cut>> /\ CutsOnly
  BY DEF QuitStop, Serving, CutsOnly
<1>3. ASSUME NEW g \in srv[s].todo, grp[g].stop = "no", grp' = BeginStop(grp, g), UNCHANGED srv PROVE HostInv'
  <2>1. g \in Groups /\ Listed(lc[s], srv[s], g)
    BY <1>1 DEF Server, Listed
  <2> QED
    BY <1>2, <1>3, <2>1, ListedStops
<1>4. ASSUME NEW g \in srv[s].todo, ~Live(g) \/ Stopped(g), UNCHANGED grp, srv' = [srv EXCEPT ![s].todo = @ \ {g}]
      PROVE  HostInv'
  <2>1. PICK todo \in SUBSET Groups : todo = srv[s].todo \ {g}
    BY <1>1 DEF Server
  <2>2. PICK v : v = [srv[s] EXCEPT !.todo = todo]
    OBVIOUS
  <2>3. /\ v \in Server /\ v.st = "stop" /\ v.todo = srv[s].todo \ {g} /\ v.ensured = srv[s].ensured
        /\ v.flight = srv[s].flight /\ srv' = [srv EXCEPT ![s] = v]
    BY <1>1, <1>2, <1>4, <2>1, <2>2 DEF Server, HostType
  <2>4. Becomes(s, ens[s], lc[s], v, rst[s])
    BY <1>1, <1>2, <2>3 DEF Becomes, HostType
  <2>5. Local(s, ens[s], lc[s], v, rst[s], lock)
    BY <1>1, <1>2, <2>3 DEF Local
  <2>6. Lists(s, ens[s], lc[s], v, grp)
    <3>1. \A h : Listed(lc[s], v, h) => Listed(lc[s], srv[s], h)
      BY <2>3 DEF Listed
    <3> QED
      BY <1>1, <3>1 DEF Lists
  <2>7. Replaced(s, ens[s], lc[s], v, rst[s], grp)
    BY <2>3 DEF Replaced
  <2>8. ASSUME NEW h \in Groups, grp[h].by = s
        PROVE  Tended(h, grp[h], ens[s], lc[s], v) /\ Guarded(h, s, grp[h], ens[s], v, lock')
    <3>1. Sane(grp[h]) /\ Tended(h, grp[h], ens[s], lc[s], srv[s]) /\ Guarded(h, s, grp[h], ens[s], srv[s], lock)
      BY <1>1, <2>8
    <3>2. Up(grp[h]) /\ h = g => grp[h].stop = "fail" /\ grp[h].sig = "kill"
      BY <1>2, <1>4, <3>1 DEF Live, Up, Stopped, Sane, Tended
    <3>3. Tended(h, grp[h], ens[s], lc[s], v)
      BY <1>2, <2>3, <3>1, <3>2 DEF Tended
    <3>4. Guarded(h, s, grp[h], ens[s], v, lock')
      BY <1>2, <2>3, <3>1 DEF Guarded
    <3> QED
      BY <3>3, <3>4
  <2> QED
    BY <1>2, <1>4, <2>4, <2>5, <2>6, <2>7, <2>8, QuietStep
<1>5. CASE srv[s].todo = {} /\ UNCHANGED grp /\ srv' = [srv EXCEPT ![s].st = "closing", ![s].conn = None]
  <2>1. PICK v : v = [srv[s] EXCEPT !.st = "closing", !.conn = None]
    OBVIOUS
  <2>2. /\ v \in Server /\ v.st = "closing" /\ v.todo = {} /\ v.ensured = srv[s].ensured
        /\ v.flight = srv[s].flight /\ srv' = [srv EXCEPT ![s] = v]
    BY <1>1, <1>5, <2>1 DEF Server, HostType, Running, Serving, None
  <2>3. Becomes(s, ens[s], lc[s], v, rst[s])
    BY <1>1, <1>2, <2>2 DEF Becomes, HostType
  <2>4. Local(s, ens[s], lc[s], v, rst[s], lock)
    BY <1>1, <1>2, <2>2 DEF Local, Serving
  <2>5. Lists(s, ens[s], lc[s], v, grp) /\ Replaced(s, ens[s], lc[s], v, rst[s], grp)
    BY <1>1, <1>5, <2>2 DEF Lists, Listed, Replaced
  <2>6. ASSUME NEW g \in Groups, grp[g].by = s
        PROVE  Tended(g, grp[g], ens[s], lc[s], v) /\ Guarded(g, s, grp[g], ens[s], v, lock')
    <3>1. Tended(g, grp[g], ens[s], lc[s], srv[s]) /\ Guarded(g, s, grp[g], ens[s], srv[s], lock)
      BY <1>1, <2>6
    <3> QED
      BY <1>2, <1>5, <2>2, <3>1 DEF Tended, Guarded, Running, Serving
  <2> QED
    BY <1>2, <1>5, <2>3, <2>4, <2>5, <2>6, QuietStep
<1> QED
  BY <1>3, <1>4, <1>5 DEF QuitStop

\* A process that has gone leaves its engines to themselves.
LEMMA GoneKeeps ==
    ASSUME HostInv, NEW s \in Servers, srv[s].st \in Running, NEW how \in {"exited", "crashed"},
           Gone(s, how), grp' = GroupsLeft(s), UNCHANGED <<sock, cut>>,
           how = "exited" => \A g \in Groups : grp[g].by = s /\ Up(grp[g]) => grp[g].sig = "kill"
    PROVE  HostInv'
<1>1. HostType /\ \A g \in Groups : grp[g] \in Engine /\ Sane(grp[g])
  BY View
<1>2. PICK l, v : /\ l = [barrier |-> "free", current |-> None, generation |-> {}, owned |-> {}, stopping |-> FALSE, err |-> FALSE]
                  /\ v = [st |-> how, ensured |-> None, todo |-> {}, conn |-> None, flight |-> "idle"]
  OBVIOUS
<1>3. l \in Lifecycle /\ l.generation = {} /\ l.owned = {} /\ l.current = None
  BY <1>2 DEF Lifecycle, None
<1>4. v \in Server /\ v.st = how /\ v.ensured = None /\ v.todo = {} /\ v.conn = None /\ v.flight = "idle"
  BY <1>2 DEF Server, None
<1>5. NoRestart \in Successor /\ NoRestart.pc = "idle"
  BY DEF NoRestart, Successor, None
<1>6. Becomes(s, NoEnsure, l, v, NoRestart)
  BY <1>2, <1>3, <1>4, <1>5, NoEnsureTyped DEF Becomes, Gone
<1>7. ASSUME NEW g \in Groups
      PROVE  /\ grp'[g] \in Engine /\ Sane(grp'[g])
             /\ grp'[g].by = grp[g].by /\ grp'[g].st = grp[g].st /\ grp'[g].ino = grp[g].ino
             /\ grp'[g].sig = grp[g].sig
             /\ IF grp[g].by = s /\ grp[g].stop # "no" THEN grp'[g].stop = "fail" /\ grp[g].st # "none" ELSE grp'[g] = grp[g]
  <2>1. CASE grp[g].by = s /\ grp[g].stop # "no"
    <3>1. PICK y : y = [grp[g] EXCEPT !.stop = "fail", !.base = None, !.own = {}, !.foreign = {}]
      OBVIOUS
    <3>2. y \in Engine /\ y.stop = "fail" /\ y.by = s /\ y.st = grp[g].st /\ y.ino = grp[g].ino /\ y.sig = grp[g].sig
          /\ y.reg = grp[g].reg
      BY <1>1, <2>1, <3>1 DEF Engine, None
    <3>3. grp[g].st # "none"
      BY <1>1, <2>1 DEF Sane, NoGroup
    <3>4. grp'[g] = y
      BY <1>1, <2>1, <3>1 DEF GroupsLeft, Forget, HostType
    <3>5. Sane(y)
      BY <1>1, <2>1, <3>2, <3>3 DEF Sane, Up
    <3> QED
      BY <2>1, <3>2, <3>3, <3>4, <3>5
  <2>2. CASE ~(grp[g].by = s /\ grp[g].stop # "no")
    <3>1. grp'[g] = grp[g]
      BY <2>2 DEF GroupsLeft
    <3> QED
      BY <1>1, <2>2, <3>1
  <2> QED
    BY <2>1, <2>2
<1>8. grp' \in [Groups -> Engine]
  BY <1>7 DEF GroupsLeft
<1>9. \A g \in Groups : Treats(s, g)
  <2>1. ASSUME NEW g \in Groups PROVE Treats(s, g)
    <3>1. CASE grp[g].by = s /\ grp[g].stop # "no"
      BY <3>1, <1>7 DEF Treats, Up
    <3>2. CASE ~(grp[g].by = s /\ grp[g].stop # "no")
      BY <3>2, <1>7, Still DEF Treats
    <3> QED
      BY <3>1, <3>2
  <2> QED
    BY <2>1
<1>10. Local(s, NoEnsure, l, v, NoRestart, lock')
  BY <1>3, <1>4, <1>5, NoEnsureTyped DEF Local, Holding, Attempting, Launching, Failing, Retiring
<1>11. Lists(s, NoEnsure, l, v, grp') /\ Replaced(s, NoEnsure, l, v, NoRestart, grp')
  BY <1>3, <1>4, <1>5, NoEnsureTyped DEF Lists, Listed, Replaced, Attempting, Launching, Failing
<1>12. ASSUME NEW g \in Groups, grp'[g].by = s
       PROVE  Sane(grp'[g]) /\ Tended(g, grp'[g], NoEnsure, l, v) /\ Guarded(g, s, grp'[g], NoEnsure, v, lock')
  <2>1. grp[g].by = s /\ Up(grp'[g]) = Up(grp[g]) /\ grp'[g].stop \in {"no", "fail"}
    BY <1>7, <1>12 DEF Up
  <2>2. how = "exited" /\ Up(grp'[g]) => grp'[g].sig = "kill"
    BY <2>1, <1>7
  <2>3. Tended(g, grp'[g], NoEnsure, l, v)
    BY <1>4, <2>1, <2>2 DEF Tended
  <2>4. Guarded(g, s, grp'[g], NoEnsure, v, lock')
    BY <1>4, <2>1, <2>2 DEF Guarded, Up
  <2> QED
    BY <1>7, <2>3, <2>4
<1>13. srv[s].st # "crashed" /\ CutsOnly /\ NoRestart.pc # "rremove"
  BY <1>5 DEF Running, Serving, CutsOnly
<1>14. lock' = lock \/ lock = Free \/ (\E a : lock = <<s, a>>) \/ lock[1] = s
  BY DEF Gone
<1> QED
  BY <1>6, <1>8, <1>9, <1>10, <1>11, <1>12, <1>13, <1>14, HostStep

LEMMA QuitCloseKeeps == ASSUME HostInv, NEW s \in Servers, QuitClose(s) PROVE HostInv'
<1>1. /\ HostType /\ srv[s] \in Server
      /\ Local(s, ens[s], lc[s], srv[s], rst[s], lock)
      /\ Lists(s, ens[s], lc[s], srv[s], grp)
      /\ \A g \in Groups : grp[g].by = s => Sane(grp[g]) /\ Tended(g, grp[g], ens[s], lc[s], srv[s])
  BY View
<1>2. srv[s].st = "closing" /\ srv[s].flight = "idle" /\ UNCHANGED <<sock, budget, cut>>
  BY DEF QuitClose
<1>3. srv[s].st \in Serving /\ srv[s].st \in Running /\ ens[s].pc = "idle" /\ srv[s].todo = {} /\ lc[s].owned = {}
  BY <1>1, <1>2 DEF Local, Serving, Running
<1>4. PICK d : d = srv[s].ensured
  OBVIOUS
<1>5. CASE d # None /\ grp[d].stop = "no" /\ grp' = BeginStop(grp, d) /\ UNCHANGED <<lock, ens, lc, rst, srv>>
  <2>1. d \in Groups /\ Listed(lc[s], srv[s], d)
    BY <1>1, <1>4, <1>5 DEF Server, Listed
  <2> QED
    BY <1>2, <1>3, <1>5, <2>1, ListedStops
<1>6. CASE (d # None => ~Live(d) \/ Stopped(d)) /\ Gone(s, "exited") /\ grp' = GroupsLeft(s)
  <2>1. ASSUME NEW g \in Groups, grp[g].by = s, Up(grp[g]) PROVE grp[g].sig = "kill"
    <3>1. Sane(grp[g]) /\ Tended(g, grp[g], ens[s], lc[s], srv[s])
      BY <1>1, <2>1
    <3>2. (grp[g].stop = "fail" /\ grp[g].sig = "kill") \/ g = d
      BY <1>2, <1>3, <1>4, <2>1, <3>1 DEF Tended, Has, Attempting, Launching, Failing
    <3>3. g = d => grp[g].stop = "fail"
      BY <1>6, <2>1, <3>1, HostAssumption DEF Live, Up, Stopped, Sane, None
    <3> QED
      BY <1>2, <2>1, <3>1, <3>2, <3>3 DEF Tended
  <2>2. PICK how \in {"exited", "crashed"} : how = "exited"
    OBVIOUS
  <2> QED
    BY <1>2, <1>3, <1>6, <2>1, <2>2, GoneKeeps
<1> QED
  BY <1>4, <1>5, <1>6 DEF QuitClose

LEMMA CrashKeeps == ASSUME HostInv, NEW s \in Servers, Crash(s) PROVE HostInv'
<1>1. srv[s].st \in Running
  BY View DEF Crash, Server
<1>2. PICK how \in {"exited", "crashed"} : how = "crashed"
  OBVIOUS
<1> QED
  BY <1>1, <1>2, GoneKeeps DEF Crash

-----------------------------------------------------------------------------
(***************************************************************************)
(* The invariant holds, and what follows.                                  *)
(***************************************************************************)

LEMMA HostStarts ==
    ASSUME NEW risks, NEW stale \in Inodes \cup {None}, HostInit(risks, stale)
    PROVE  HostInv
<1>1. NoGroup \in Engine /\ NoGroup.st = "none" /\ NoGroup.stop = "no" /\ NoGroup.reg = FALSE
  BY DEF NoGroup, Engine, None
<1>2. PICK l, v : /\ l = [barrier |-> "free", current |-> None, generation |-> {}, owned |-> {}, stopping |-> FALSE, err |-> FALSE]
                  /\ v = [st |-> "off", ensured |-> None, todo |-> {}, conn |-> None, flight |-> "idle"]
  OBVIOUS
<1>3. l \in Lifecycle /\ l.generation = {} /\ l.owned = {} /\ l.current = None /\ l.stopping = FALSE
  BY <1>2 DEF Lifecycle, None
<1>4. v \in Server /\ v.st = "off" /\ v.ensured = None /\ v.todo = {} /\ v.conn = None /\ v.flight = "idle"
  BY <1>2 DEF Server, None
<1>5. NoRestart \in Successor /\ NoRestart.pc = "idle"
  BY DEF NoRestart, Successor, None
<1>6. /\ grp = [g \in Groups |-> NoGroup] /\ ens = [s \in Servers |-> NoEnsure] /\ lc = [s \in Servers |-> l]
      /\ rst = [s \in Servers |-> NoRestart] /\ srv = [s \in Servers |-> v]
      /\ sock = stale /\ cut = {}
  BY <1>2 DEF HostInit
<1>7. HostType
  <2>1. NoEnsure \in Ensure /\ stale \in Nat
    BY NoEnsureTyped, HostAssumption DEF None
  <2> QED
    BY <1>1, <1>3, <1>4, <1>5, <1>6, <2>1 DEF HostType
<1>8. CutRight
  <2>1. Listeners = {}
    BY <1>1, <1>6 DEF Listeners, Live
  <2> QED
    BY <1>6, <2>1 DEF CutRight
<1>9. ASSUME NEW s \in Servers PROVE OfServer(s)
  <2>1. Local(s, NoEnsure, l, v, NoRestart, lock)
    BY <1>3, <1>4, <1>5, NoEnsureTyped DEF Local, Holding, Attempting, Launching, Failing, Retiring
  <2>2. Lists(s, NoEnsure, l, v, grp) /\ Replaced(s, NoEnsure, l, v, NoRestart, grp)
    BY <1>3, <1>4, <1>5, NoEnsureTyped DEF Lists, Listed, Replaced, Attempting, Launching, Failing
  <2> QED
    BY <1>6, <2>1, <2>2 DEF OfServer
<1>10. ASSUME NEW g \in Groups PROVE OfGroup(g)
  <2>1. Sane(NoGroup)
    BY <1>1 DEF Sane, Up
  <2>2. \A s \in Servers : Tended(g, NoGroup, ens[s], lc[s], srv[s]) /\ Guarded(g, s, NoGroup, ens[s], srv[s], lock)
    BY <1>1 DEF Tended, Guarded, Up
  <2> QED
    BY <1>6, <2>1, <2>2 DEF OfGroup
<1> QED
  BY <1>7, <1>8, <1>9, <1>10 DEF HostInv

LEMMA HostSteps == HostInv /\ [HostNext]_hostVars => HostInv'
<1>1. SUFFICES ASSUME HostInv, [HostNext]_hostVars PROVE HostInv'
  OBVIOUS
<1>2. CASE UNCHANGED hostVars
  <2>1. HostType' /\ CutsOnly /\ UNCHANGED <<ens, lc, srv, rst, lock>>
    BY <1>1, <1>2 DEF hostVars, HostInv, HostType, CutsOnly
  <2>2. \A g \in Groups : Treats(Outside, g) /\ Sane(grp'[g])
    BY <1>1, <1>2, Still DEF hostVars, HostInv, OfGroup, Treats
  <2> QED
    BY <1>1, <2>1, <2>2, WorldStep
<1>3. ASSUME NEW g \in Groups, Bind(g) \/ Ends(g) \/ Dies(g) \/ OutsiderStarts(g) PROVE HostInv'
  BY <1>1, <1>3, BindKeeps, EndsKeeps, OutsiderStartsKeeps
<1>4. ASSUME NEW g \in Groups, StopWait(g) \/ StopLock(g) \/ CleanAfterReap(g) \/ RemoveOwned(g) PROVE HostInv'
  BY <1>1, <1>4, StopWaitKeeps, StopLockKeeps, CleanKeeps
<1>5. CASE Vanish
  BY <1>1, <1>5, VanishKeeps
<1>6. ASSUME NEW s \in Servers,
             \/ EnsureLate(s) \/ EnsureProbe(s) \/ EnsureLock(s) \/ EnsureSpawn(s) \/ EnsureLook(s)
             \/ EnsureHandshake(s) \/ EnsureReady(s) \/ EnsureGiveUp(s) \/ EnsureCleaned(s)
      PROVE  HostInv'
  BY <1>1, <1>6, EnsureLateKeeps, EnsureProbeKeeps, EnsureLockKeeps, EnsureSpawnKeeps, EnsureLookKeeps,
     EnsureHandshakeKeeps, EnsureReadyKeeps, EnsureGiveUpKeeps, EnsureCleanedKeeps
<1>7. ASSUME NEW s \in Servers, Boot(s) \/ Lost(s) \/ Redial(s) \/ HookEnter(s) PROVE HostInv'
  BY <1>1, <1>7, BootKeeps, LostKeeps, RedialKeeps, HookEnterKeeps
<1>8. ASSUME NEW s \in Servers,
             \/ RestartBegin(s) \/ RestartAdmit(s) \/ Retire(s) \/ RetireWait(s) \/ RetireLock(s)
             \/ RetireRemove(s) \/ RestartStop(s) \/ RestartFence(s) \/ RestartJoin(s) \/ RestartEnd(s)
      PROVE  HostInv'
  BY <1>1, <1>8, RestartBeginKeeps, RestartAdmitKeeps, RetireKeeps, RetireWaitKeeps, RetireLockKeeps,
     RetireRemoveKeeps, RestartStopKeeps, RestartFenceKeeps, RestartJoinKeeps, RestartEndKeeps
<1>9. ASSUME NEW s \in Servers, Quit(s) \/ QuitStop(s) \/ QuitClose(s) \/ Crash(s) PROVE HostInv'
  BY <1>1, <1>9, QuitKeeps, QuitStopKeeps, QuitCloseKeeps, CrashKeeps
<1> QED
  BY <1>1, <1>2, <1>3, <1>4, <1>5, <1>6, <1>7, <1>8, <1>9 DEF HostNext

LEMMA HostHolds == HostSpec => []HostInv
<1>1. (\E risks \in [HostFaults -> Nat], stale \in Inodes \cup {None} : HostInit(risks, stale)) => HostInv
  BY HostStarts
<1> QED
  BY <1>1, HostSteps, PTL DEF HostSpec

(* Whatever the groups, the servers on one path, their crashes and the     *)
(* order of their steps: a running engine a server launched is being       *)
(* launched, was signalled, or stands on both lists its restart and its    *)
(* shutdown stop from (retainLocked, stopCurrent, stop in run.go).         *)
THEOREM EnginesOwned == HostSpec => []NoEngineLeaks
<1>1. HostInv => NoEngineLeaks
  <2>1. SUFFICES ASSUME HostInv, NEW s \in Servers, NEW g \in Of(s), Live(g)
                 PROVE  \/ srv[s].st = "crashed"
                        \/ srv[s].st = "exited" /\ grp[g].sig = "kill"
                        \/ /\ srv[s].st # "exited"
                           /\ \/ grp[g].sig # "none" \/ g = ens[s].g
                              \/ g \in lc[s].generation /\ g \in lc[s].owned \cup srv[s].todo \cup {srv[s].ensured}
    BY DEF NoEngineLeaks
  <2>2. g \in Groups /\ grp[g].by = s /\ Up(grp[g])
    BY <2>1 DEF Of, Live, Up
  <2>3. Sane(grp[g]) /\ Tended(g, grp[g], ens[s], lc[s], srv[s])
    BY <2>1, <2>2, View
  <2> QED
    BY <2>2, <2>3 DEF Tended, Sane, Has, Running, Serving
<1> QED
  BY <1>1, HostHolds, PTL

(* A successful restart has replaced the engine: nothing this server had   *)
(* launched before the fence of RestartFence runs unsignalled, and what it *)
(* reports as its engine was launched after it (stopCurrent and            *)
(* currentOwned in run.go).                                                *)
THEOREM RestartsReplace == HostSpec => []RestartReplaces
<1>1. HostInv => RestartReplaces
  <2>1. SUFFICES ASSUME HostInv, NEW s \in Servers, rst[s].pc \in {"join", "ok"}, srv[s].st = "serving"
                 PROVE  /\ \A g \in rst[s].old : Live(g) => grp[g].sig = "kill" /\ grp[g].stop = "fail" /\ ~grp[g].reg
                        /\ lc[s].current \notin rst[s].old
    BY DEF RestartReplaces
  <2>2. Replaced(s, ens[s], lc[s], srv[s], rst[s], grp)
    BY <2>1, View
  <2> QED
    BY <2>1, <2>2 DEF Replaced, Live, Up
<1> QED
  BY <1>1, HostHolds, PTL

(* Removing a socket path never cuts off an engine that a server launched  *)
(* under the ensure lock and saw ready: whoever removes it holds that lock *)
(* since before it looked (removeOwnedSocket, cleanupRetiredSocket).       *)
THEOREM CooperatorsSpared == HostSpec => []SparesCooperators
<1>1. HostInv => SparesCooperators
  BY DEF HostInv, HostType, CutRight, Spared, SparesCooperators
<1> QED
  BY <1>1, HostHolds, PTL


=============================================================================
