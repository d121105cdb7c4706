----------------------------- MODULE StateStore -----------------------------
(***************************************************************************)
(* The state stores (src/pkg/state/store.go, mysqlstore.go) as one         *)
(* hyperloop uses them: a run calls Load and then Save with positions that *)
(* never go back; the process may die at any moment and another starts.    *)
(* FileStore writes a temporary file and renames it.  MySQLStore executes  *)
(* a statement over one connection with socket deadlines, and reconnects   *)
(* and tries once more when that fails; the server may execute a statement *)
(* whose client gave up at any later time, or never.                       *)
(***************************************************************************)
EXTENDS Naturals

CONSTANTS
    MaxPos,     \* positions of the stream
    Kinds,      \* the stores to look at: "file", "mysql"
    MaxCrashes  \* bound: crashes of the process

Position == 1..MaxPos
Zero == 0           \* the zero Position
Torn == MaxPos + 1  \* a file that is truncated or partly written
Absent == MaxPos + 2    \* no file, no row in nomios_state

ASSUME StoreAssumption ==
    MaxPos \in Nat /\ MaxCrashes \in Nat /\ Kinds \subseteq {"file", "mysql"}

VARIABLES
    kind,       \* config State.Store
    path, tmp,  \* FileStore: contents of the state file and of path + ".tmp"
    row,        \* MySQLStore: the hyperloop's row
    late,       \* statements the server may still execute
    buf,        \* go-mysql's pooled result buffer
    pc,         \* where the call is; boot and idle: there is none
    arg,        \* the position being saved, Zero for a Load
    loaded,     \* the strings of the Position Load returned, owned or a view
    pos,        \* the hyperloop's checkpoint
    crashes,    \* crashes so far
    handed      \* history: positions handed to Save

stores == <<path, tmp, row, late, buf>>
caller == <<kind, loaded, pos, crashes, handed>>
vars == <<stores, caller, pc, arg>>

\* A Go string with memory of its own, one that is a view of the buffer, and
\* what a string reads as now.
Own(v) == [view |-> FALSE, val |-> v]
View(v) == [view |-> TRUE, val |-> v]
Read(s) == IF s.view THEN buf ELSE s.val

Decoded(v) == IF v = Absent THEN Zero ELSE v

Init ==
    /\ kind \in Kinds
    /\ path = Absent /\ tmp = Absent /\ row = Absent /\ late = {} /\ buf = Zero
    /\ pc = "boot" /\ arg = Zero /\ loaded = Own(Zero) /\ pos = Zero
    /\ crashes = 0 /\ handed = {}

----------------------------------------------------------------------------
(* run calls Load: a first run, one after another, one whose Load failed. *)
Load ==
    /\ pc \in {"boot", "idle"}
    /\ pc' = (IF kind = "file" THEN "read" ELSE "execute") /\ arg' = Zero
    /\ UNCHANGED <<stores, caller>>

(* The committer calls Save with the checkpoint, which may have moved. *)
Save(p) ==
    /\ pc = "idle" /\ p >= pos
    /\ pc' = (IF kind = "file" THEN "create" ELSE "execute") /\ arg' = p
    /\ pos' = p /\ handed' = handed \cup {p}
    /\ UNCHANGED <<stores, kind, loaded, crashes>>

(* The process dies; a statement it sent stays with the server. *)
Crash ==
    /\ crashes < MaxCrashes
    /\ crashes' = crashes + 1
    /\ pc' = "boot" /\ arg' = Zero /\ loaded' = Own(Zero) /\ pos' = Zero
    /\ late' = late \cup (IF pc \in {"execute", "retry"} THEN {arg} \ {Zero} ELSE {})
    /\ UNCHANGED <<kind, path, tmp, row, buf, handed>>

LoadReturns(s) ==
    /\ pc' = "idle" /\ arg' = Zero
    /\ loaded' = s /\ pos' = s.val
    /\ UNCHANGED <<kind, path, tmp, row, late, crashes, handed>>

SaveReturns ==
    /\ pc' = "idle" /\ arg' = Zero
    /\ UNCHANGED caller

Fails ==
    /\ pc' = (IF arg = Zero THEN "boot" ELSE "idle") /\ arg' = Zero
    /\ UNCHANGED caller

----------------------------------------------------------------------------
\* Mutant: a missing file is not told from one that holds a position.
FileLoadUnchecked ==
    /\ pc = "read"
    /\ \/ LoadReturns(Own(path)) /\ UNCHANGED buf
       \/ Fails /\ UNCHANGED stores

(* FileStore.Load: no file is the zero Position; a file that cannot be     *)
(* read or decoded is an error.                                            *)
FileLoad ==
    /\ pc = "read"
    /\ \/ path # Torn /\ LoadReturns(Own(Decoded(path))) /\ UNCHANGED buf
       \/ Fails /\ UNCHANGED stores

\* Mutant: the state file itself is written.
FileCreateInPlace ==
    /\ pc = "create"
    /\ path' = Torn /\ tmp' = Torn /\ pc' = "write"
    /\ UNCHANGED <<caller, row, late, buf, arg>>

(* FileStore.Save: os.WriteFile truncates the temporary file and writes it *)
(* (or part of it) ...                                                     *)
FileCreate ==
    /\ pc = "create"
    /\ tmp' = Torn /\ pc' = "write"
    /\ UNCHANGED <<caller, path, row, late, buf, arg>>

FileWrite ==
    /\ pc = "write"
    /\ \/ tmp' = arg /\ pc' = "rename" /\ UNCHANGED <<caller, arg>>
       \/ Fails /\ UNCHANGED tmp
    /\ UNCHANGED <<path, row, late, buf>>

(* ... and renames it. *)
FileRename ==
    /\ pc = "rename"
    /\ \/ path' = tmp /\ tmp' = Absent /\ SaveReturns
       \/ Fails /\ UNCHANGED <<path, tmp>>
    /\ UNCHANGED <<row, late, buf>>

----------------------------------------------------------------------------
\* Mutant: Load keeps go-mysql's view of the buffer.
CloneNot(v) == View(v)

(* strings.Clone *)
Clone(v) == Own(v)

(* execute of the SELECT is answered; Close gives the buffer back. *)
Select ==
    /\ pc \in {"execute", "retry"} /\ arg = Zero
    /\ buf' = Decoded(row)
    /\ LoadReturns(Clone(Decoded(row)))

(* execute of the REPLACE is answered; its result goes through the buffer. *)
Replace ==
    /\ pc \in {"execute", "retry"} /\ arg # Zero
    /\ row' = arg /\ buf' = arg
    /\ SaveReturns
    /\ UNCHANGED <<path, tmp, late>>

\* Mutant: there is no ioTimeout.
AttemptFailsNever ==
    /\ FALSE
    /\ UNCHANGED vars

(* execute, an attempt ends with an error: the connection is broken, or    *)
(* ioTimeout passed with the statement at the server.  After the first one *)
(* it reconnects and tries again, if the reconnect works.                  *)
AttemptFails ==
    /\ pc \in {"execute", "retry"}
    /\ late' \in {late, late \cup ({arg} \ {Zero})}
    /\ \/ pc = "execute" /\ pc' = "retry" /\ UNCHANGED <<caller, arg>>
       \/ Fails
    /\ UNCHANGED <<path, tmp, row, buf>>

(* The server executes a statement whose client is gone, or drops it. *)
LateRuns(p) ==
    /\ late' = late \ {p}
    /\ row' \in {row, p}
    /\ UNCHANGED <<caller, path, tmp, buf, pc, arg>>

----------------------------------------------------------------------------
FileStep == FileLoad \/ FileCreate \/ FileWrite \/ FileRename

Next ==
    \/ Load \/ (\E p \in Position : Save(p)) \/ Crash
    \/ FileStep \/ Select \/ Replace \/ AttemptFails
    \/ \E p \in late : LateRuns(p)

(* The file system answers, and socket deadlines fire.  Nothing is assumed *)
(* of the MySQL server.                                                    *)
Spec == Init /\ [][Next]_vars /\ WF_vars(FileStep) /\ WF_vars(AttemptFails)

----------------------------------------------------------------------------
\* The variables of the stores hold what the code can put there.
TypeOK ==
    /\ kind \in Kinds
    /\ {path, tmp, row} \subseteq Position \cup {Torn, Absent} /\ row # Torn
    /\ late \subseteq Position /\ handed \subseteq Position
    /\ pc \in {"boot", "idle", "read", "create", "write", "rename", "execute", "retry"}
    /\ {buf, arg, pos} \subseteq Position \cup {Zero}
    /\ loaded \in [view : BOOLEAN, val : Position \cup {Zero}]
    /\ crashes \in 0..MaxCrashes

S == INSTANCE Store WITH
        held <- Decoded(IF kind = "file" THEN path ELSE row),
        call <- [op |-> IF pc \in {"boot", "idle"} THEN "none"
                        ELSE IF arg = Zero THEN "load" ELSE "save",
                 pos |-> arg],
        loaded <- Read(loaded)

\* Both stores are what the hyperloop takes them for: through crashes, failed
\* writes, timeouts, the retry and statements that run late, the stored position
\* is always one that was handed to Save, whole, and Load returns it.
ImplementsStore == S!Spec

\* The position a run resumes from does not change under it when later queries
\* reuse go-mysql's buffers (mysqlstore.go:80-84).
LoadedIsStable == [][loaded' = loaded => Read(loaded)' = Read(loaded)]_vars

\* "socket deadlines are what actually guarantee a stuck connection cannot hang
\* checkpoint commits or shutdown indefinitely" (mysqlstore.go:46): every call
\* returns although the server may never answer.
CallsReturn == (pc \notin {"boot", "idle"}) ~> (pc \in {"boot", "idle"})
=============================================================================
