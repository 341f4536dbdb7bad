----------------------------- MODULE AdoptCopy -----------------------------
(***************************************************************************)
(* internal/adoptcopy: a session file that somebody else may be writing is *)
(* copied to one deterministic destination.  Adopt never replaces what is  *)
(* there; TakeoverSnapshot does, and puts the previous snapshot back when  *)
(* the new one cannot be verified.  Calls for one destination take turns.  *)
(*                                                                         *)
(* The content of a file is a version number, Torn when it was read while  *)
(* it was written.  The checks of size, mode and modification time find    *)
(* every change of the source; its replacement by another file is a change *)
(* of inode.                                                               *)
(***************************************************************************)
EXTENDS Integers, FiniteSets

CONSTANTS
    Calls,         \* calls of Adopt or TakeoverSnapshot, in one process or the next
    MaxVersion     \* how often the source is written

NoTurn == 0

ASSUME CopyAssumption == IsFiniteSet(Calls) /\ NoTurn \notin Calls /\ MaxVersion \in Nat

NoFile == 0
Torn == -1
Whole == 1 .. MaxVersion + 1

VARIABLES
    replace,   \* replaceExisting: the destination is a snapshot directory
    source,    \* version and inode of the source
    dest,      \* content at the destination
    call,      \* per call its progress and what it holds
    turn,      \* who has the destination's lock
    good,      \* content of the destination at the last call that succeeded
    stops      \* process stops and copies of other processes left

copyVars == <<replace, source, dest, call, turn, good, stops>>

Fresh == [pc |-> "validate", ino |-> 0, hash |-> NoFile, stage |-> NoFile, back |-> NoFile, published |-> FALSE]

CopyInit(snapshot, n) ==
    /\ replace = snapshot
    /\ source = [ver |-> 1, ino |-> 1]
    /\ dest = NoFile /\ good = NoFile
    /\ call = [c \in Calls |-> Fresh]
    /\ turn = NoTurn
    /\ stops = n

Writes ==
    /\ source.ver <= MaxVersion
    /\ \E new \in {0, 1} : source' = [ver |-> source.ver + 1, ino |-> source.ino + new]
    /\ call' = [c \in Calls |-> IF call[c].pc = "copying" THEN [call[c] EXCEPT !.stage = Torn] ELSE call[c]]
    /\ UNCHANGED <<replace, dest, turn, good, stops>>

(* Another server process with the same state directory published a copy *)
Elsewhere ==
    /\ stops > 0 /\ stops' = stops - 1
    /\ dest = NoFile /\ ~replace
    /\ dest' \in 1 .. source.ver
    /\ UNCHANGED <<replace, source, call, turn, good>>

Step(c, pc) == call' = [call EXCEPT ![c].pc = pc]
Keep == UNCHANGED <<replace, source, good, stops>>

(* validateSource, which refuses a source that changes under it *)
Validate(c) ==
    /\ call[c].pc = "validate"
    /\ call' = [call EXCEPT ![c].pc = "lock", ![c].ino = source.ino]
    /\ Keep /\ UNCHANGED <<dest, turn>>

(* Once more under the lock, and the hash *)
Revalidate(c) ==
    /\ call[c].pc = "lock" /\ turn = NoTurn
    /\ turn' = c
    /\ call' = [call EXCEPT ![c].pc = IF source.ino = call[c].ino THEN "inspect" ELSE "failed", ![c].hash = source.ver]
    /\ Keep /\ UNCHANGED dest

(* verifyExisting *)
Existing(c) == Step(c, IF dest = call[c].hash THEN "same" ELSE "failed")

Inspect(c) ==
    /\ call[c].pc = "inspect"
    /\ IF dest # NoFile /\ ~replace THEN Existing(c)
       ELSE call' = [call EXCEPT ![c].pc = "copying", ![c].stage = source.ver]
    /\ Keep /\ UNCHANGED <<dest, turn>>

(* The end of the copy: the staged bytes are the hashed ones, and the      *)
(* source is still what was hashed                                         *)
Copied(c) ==
    /\ call[c].pc = "copying"
    /\ Step(c, IF call[c].stage = call[c].hash /\ source.ver = call[c].hash THEN "publish" ELSE "failed")
    /\ Keep /\ UNCHANGED <<dest, turn>>

(* A link that never replaces, or a second name for the old snapshot and a rename *)
Publish(c) ==
    /\ call[c].pc = "publish"
    /\ IF dest # NoFile /\ ~replace
       THEN Existing(c) /\ UNCHANGED dest
       ELSE /\ dest' = call[c].stage
            /\ call' = [call EXCEPT ![c].pc = "verify", ![c].published = TRUE, ![c].back = dest]
    /\ Keep /\ UNCHANGED turn

(* Both files are hashed again *)
Verify(c) ==
    /\ call[c].pc = "verify"
    /\ Step(c, IF dest = call[c].hash /\ source.ver = call[c].hash THEN "same" ELSE "failed")
    /\ Keep /\ UNCHANGED <<dest, turn>>

Succeed(c) ==
    /\ call[c].pc = "same"
    /\ good' = dest
    /\ call' = [call EXCEPT ![c] = [Fresh EXCEPT !.pc = "ok"]]
    /\ turn' = NoTurn
    /\ UNCHANGED <<replace, source, dest, stops>>

(* Wrong: the published file is removed, whatever was there before. *)
RemovePublished(c) ==
    /\ call[c].pc = "failed"
    /\ dest' = IF call[c].published THEN NoFile ELSE dest
    /\ call' = [call EXCEPT ![c] = [Fresh EXCEPT !.pc = "error"]]
    /\ turn' = NoTurn
    /\ Keep

(* cleanup: what was published is taken back *)
Cleanup(c) ==
    /\ call[c].pc = "failed"
    /\ dest' = IF call[c].published THEN call[c].back ELSE dest
    /\ call' = [call EXCEPT ![c] = [Fresh EXCEPT !.pc = "error"]]
    /\ turn' = NoTurn
    /\ Keep

(* An I/O error or the end of the request at any step under the lock *)
Interrupted(c) ==
    /\ turn = c /\ call[c].pc \in {"inspect", "copying", "publish", "verify"}
    /\ Step(c, "failed")
    /\ Keep /\ UNCHANGED <<dest, turn>>

(* The process stops: staging and rollback names stay behind, unused *)
Stop ==
    /\ stops > 0 /\ stops' = stops - 1
    /\ call' = [c \in Calls |-> IF call[c].pc = "validate" THEN call[c] ELSE [Fresh EXCEPT !.pc = "error"]]
    /\ turn' = NoTurn
    /\ UNCHANGED <<replace, source, dest, good>>

CopyNext ==
    \/ Writes \/ Elsewhere \/ Stop
    \/ \E c \in Calls :
          Validate(c) \/ Revalidate(c) \/ Inspect(c) \/ Copied(c) \/ Publish(c) \/ Verify(c)
             \/ Succeed(c) \/ Cleanup(c) \/ Interrupted(c)

CopySpec == (\E snapshot \in BOOLEAN, n \in Nat : CopyInit(snapshot, n)) /\ [][CopyNext]_copyVars

(* The destination never holds a torn copy, and the last copy a caller was *)
(* told of stays there (adopt, adoptcopy.go:177): while nobody has the     *)
(* lock, an adopted copy is unchanged, and a snapshot is that one or, if   *)
(* the process was stopped before it verified a newer one, that newer one. *)
LastGoodKept ==
    /\ dest \in {NoFile} \cup Whole
    /\ turn = NoTurn /\ good # NoFile => IF replace THEN dest >= good ELSE dest = good
=============================================================================
