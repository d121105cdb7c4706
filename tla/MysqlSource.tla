---------------------------- MODULE MysqlSource ----------------------------
(***************************************************************************)
(* The MySQL source (src/pkg/source/mysql): it follows the binlog, tracks  *)
(* the open transaction in txnState, stamps every row with the coordinates *)
(* of the last committed transaction and with an ID, and maps it with a    *)
(* cached table schema.  The server appends transactions and DDL and       *)
(* rotates its log; the replication connection may be lost and resumed;    *)
(* the source fails, stops, and is started again from the last position    *)
(* the state store holds.                                                  *)
(*                                                                         *)
(* The binlog is one sequence of entries.  Its index stands for the file   *)
(* offset; a file is the number of rotations before it, plus one ("" is    *)
(* 0).  A rows entry holds n row changes of one table; a table schema is   *)
(* one plus the number of DDL statements that shaped it.                   *)
(***************************************************************************)
EXTENDS Naturals, Sequences, FiniteSets

CONSTANTS
    Modes,      \* the pairs <<GTID, HasGTIDs>> to consider
    Bodies,     \* what a transaction may write after its GTID event
    PreBody,    \* the transaction in the log before the first start, or <<>>
    MaxLog,     \* bound: length of the binlog
    MaxStarts,  \* bound: calls of Start
    MaxDrops    \* bound: lost connections

ASSUME ModeAssumption ==
    /\ Modes \subseteq BOOLEAN \X BOOLEAN
    /\ \A m \in Modes : m[1] => m[2]   \* validateServer: gtid_mode is ON
    /\ MaxLog \in Nat /\ MaxStarts \in Nat /\ MaxDrops \in Nat

\* What a transaction writes: statements, row changes, and what ends it.
ASSUME BodiesAssumption ==
    /\ Bodies \cup {PreBody} \subseteq
         Seq([kind : {"begin", "rows", "xid", "query", "ddl"}, n : Nat, match : BOOLEAN])
    /\ <<>> \notin Bodies /\ Len(PreBody) < MaxLog

NoGTID == 0         \* pendingGTID = ""; tx of a rotation
NoSchema == 0       \* the table is not in the registry's cache
Nothing == [entry |-> 0]

VARIABLES
    GTID,           \* cfg.GTID: follow by GTID set, else by file and offset
    HasGTIDs,       \* the server writes GTID events (gtid_mode=ON)
    log,            \* the binlog: entries [kind, tx, n, match]
    saved,          \* the Position in the state store
    starts, drops,  \* calls of Start, lost connections
    up,             \* Start is running
    cursor,         \* last log entry handed to handleEvent
    heard,          \* the syncer: the last GTID event it saw, or 0
    read,           \* history: last log entry read, but for going back
    set,            \* ts.set (only with GTID)
    pendingGTID,    \* ts.pendingGTID
    committed,      \* ts.committedGTID, committedFile, committedPos
    currentFile,    \* ts.currentFile
    txOrder, seq,   \* ts.txOrder, ts.seq
    schema,         \* the registry's cached schema of the table
    last            \* history: the last batch sent

mode == <<GTID, HasGTIDs>>
stream == <<cursor, heard, read>>
txn == <<set, pendingGTID, committed, currentFile, txOrder, seq>>
vars == <<mode, log, saved, starts, drops, up, stream, txn, schema, last>>

ZeroPosition == [set |-> {}, file |-> 0, off |-> 0]
IsZero(p) == p = ZeroPosition

----------------------------------------------------------------------------
(* The server's side of the log. *)
FileAt(k) == 1 + Cardinality({i \in 1..k : log[i].kind = "rotate"})
SchemaAt(k) == 1 + Cardinality({i \in 1..(k - 1) : log[i].kind = "ddl"})
Executed == {log[i].tx : i \in 1..Len(log)} \ {NoGTID}

\* The entries the server does not send to a client that has executed gtids:
\* all up to the first entry of a transaction that is missing from the set.
SkipExecuted(gtids) ==
    CHOOSE k \in 0..Len(log) :
        /\ \A i \in 1..k : log[i].tx \in gtids \cup {NoGTID}
        /\ k = Len(log) \/ log[k + 1].tx \notin gtids \cup {NoGTID}

\* The first entry of the transaction that entry k belongs to.
TxnStart(k) == CHOOSE i \in 1..k : /\ log[i].tx = log[k].tx
                                   /\ \A j \in 1..(i - 1) : log[j].tx # log[k].tx

(* SHOW MASTER STATUS *)
masterStatus == [set |-> Executed, file |-> FileAt(Len(log)), off |-> Len(log)]

(* The entries of transaction g: its GTID event, if the server writes any, *)
(* and its body.                                                           *)
Entries(body, g) ==
    LET head == IF HasGTIDs THEN <<[kind |-> "gtid", n |-> 0, match |-> FALSE]>>
                            ELSE <<>>
        all == head \o body
    IN  [i \in 1..Len(all) |-> [kind |-> all[i].kind, n |-> all[i].n,
                                match |-> all[i].match, tx |-> g]]

Init ==
    /\ \E m \in Modes : GTID = m[1] /\ HasGTIDs = m[2]
    /\ log = IF PreBody = <<>> THEN <<>> ELSE Entries(PreBody, 1)
    /\ saved = ZeroPosition
    /\ starts = 0 /\ drops = 0 /\ up = FALSE /\ cursor = 0 /\ heard = 0 /\ read = 0
    /\ set = {} /\ pendingGTID = NoGTID /\ committed = ZeroPosition
    /\ currentFile = 0 /\ txOrder = 0 /\ seq = 0
    /\ schema = NoSchema /\ last = Nothing

(* A transaction, or a DDL statement, reaches the binlog. *)
ServerCommits(body) ==
    LET entries == Entries(body, Cardinality(Executed) + 1)
    IN  /\ Len(log) + Len(entries) <= MaxLog
        /\ log' = log \o entries
        /\ UNCHANGED <<mode, saved, starts, drops, up, stream, txn, schema, last>>

ServerRotates ==
    /\ Len(log) < MaxLog
    /\ log' = Append(log, [kind |-> "rotate", tx |-> NoGTID, n |-> 0, match |-> FALSE])
    /\ UNCHANGED <<mode, saved, starts, drops, up, stream, txn, schema, last>>

----------------------------------------------------------------------------
(* resolveStart: the position to stream from. *)
resolveStart(from) ==
    IF GTID
    THEN [ZeroPosition EXCEPT !.set = IF IsZero(from) THEN masterStatus.set ELSE from.set]
    ELSE LET p == IF from.file # 0 THEN from ELSE masterStatus
         IN  [ZeroPosition EXCEPT !.file = p.file, !.off = p.off]

\* The number of log entries a stream that starts at p leaves out.
Skipped(p) == IF GTID THEN SkipExecuted(p.set) ELSE p.off

(* Start: a new registry, a new txnState at the start position; the server *)
(* announces the current file before the first event.                      *)
Start ==
    /\ ~up /\ starts < MaxStarts
    /\ LET p == resolveStart(saved) IN
         /\ cursor' = Skipped(p) /\ heard' = 0 /\ read' = Skipped(p)
         /\ set' = p.set /\ committed' = p
         /\ currentFile' = FileAt(Skipped(p))
    /\ up' = TRUE /\ starts' = starts + 1
    /\ pendingGTID' = NoGTID /\ txOrder' = 0 /\ seq' = 0
    /\ schema' = NoSchema /\ last' = Nothing
    /\ UNCHANGED <<mode, log, saved, drops>>

(* Start returns: ctx is cancelled, the stream or the registry failed. *)
Stops ==
    /\ up
    /\ up' = FALSE
    /\ UNCHANGED <<mode, log, saved, starts, drops, stream, txn, schema, last>>

(* The connection is lost and the syncer resumes by itself: at the next    *)
(* event, or with GTID at the last transaction whose GTID event it saw, be *)
(* it in the middle of it or long behind it.  The server announces the     *)
(* file first.                                                             *)
Reconnects ==
    /\ up /\ GTID /\ drops < MaxDrops /\ heard > 0
    /\ drops' = drops + 1
    /\ cursor' = heard - 1
    /\ currentFile' = FileAt(heard - 1)
    /\ UNCHANGED <<mode, log, saved, starts, up, heard, read, set, pendingGTID, committed,
                   txOrder, seq, schema, last>>

(* The committer saves the position of the last event, acknowledged by now. *)
Saves ==
    /\ up /\ last # Nothing /\ saved # last.pos
    /\ saved' = last.pos
    /\ UNCHANGED <<mode, log, starts, drops, up, stream, txn, schema, last>>

----------------------------------------------------------------------------
(* The syncer hands the next entry of the log to handleEvent. *)
Reads(kinds) ==
    /\ up /\ cursor < Len(log) /\ log[cursor + 1].kind \in kinds
    /\ cursor' = cursor + 1
    /\ heard' = IF log[cursor + 1].kind = "gtid" THEN cursor + 1 ELSE heard
    /\ read' = IF cursor < read THEN read ELSE cursor + 1
    /\ UNCHANGED <<mode, log, saved, starts, drops, up>>

HandleRotate ==
    /\ Reads({"rotate"})
    /\ currentFile' = currentFile + 1
    /\ UNCHANGED <<set, pendingGTID, committed, txOrder, seq, schema, last>>

HandleGTID ==
    /\ Reads({"gtid"})
    /\ pendingGTID' = log[cursor + 1].tx
    /\ txOrder' = 0
    /\ UNCHANGED <<set, committed, currentFile, seq, schema, last>>

\* Mutant: the transaction is not folded into the executed set.
commitKeepsOld ==
    /\ set' = set /\ pendingGTID' = NoGTID
    /\ committed' = [set |-> set, file |-> currentFile, off |-> cursor + 1]

\* Mutant: the committed offset is one entry too far.
commitTooFar ==
    /\ IF GTID /\ pendingGTID # NoGTID
       THEN set' = set \cup {pendingGTID} /\ pendingGTID' = NoGTID
       ELSE UNCHANGED <<set, pendingGTID>>
    /\ committed' = [set |-> set', file |-> currentFile, off |-> cursor + 2]

(* commit: fold the open transaction into the executed set (nil with file  *)
(* positions), and move the committed coordinates behind the event.        *)
commit ==
    /\ IF GTID /\ pendingGTID # NoGTID
       THEN set' = set \cup {pendingGTID} /\ pendingGTID' = NoGTID
       ELSE UNCHANGED <<set, pendingGTID>>
    /\ committed' = [set |-> set', file |-> currentFile, off |-> cursor + 1]

HandleXID ==
    /\ Reads({"xid"})
    /\ commit
    /\ UNCHANGED <<currentFile, txOrder, seq, schema, last>>

\* Mutant: DDL does not invalidate the registry.
HandleQueryKeepsSchema ==
    /\ Reads({"begin", "query", "ddl"})
    /\ IF log[cursor + 1].kind = "begin"
       THEN UNCHANGED <<set, pendingGTID, committed, schema>>
       ELSE commit /\ UNCHANGED schema
    /\ UNCHANGED <<currentFile, txOrder, seq, last>>

(* A query event: BEGIN is ignored; anything else is taken for DDL or for  *)
(* the COMMIT of a non-transactional table ("query": not DDL).             *)
HandleQuery ==
    /\ Reads({"begin", "query", "ddl"})
    /\ IF log[cursor + 1].kind = "begin"
       THEN UNCHANGED <<set, pendingGTID, committed, schema>>
       ELSE commit /\ schema' = NoSchema
    /\ UNCHANGED <<currentFile, txOrder, seq, last>>

\* Mutant: rows of a table the filter excludes do not count.
HandleFilteredUncounted ==
    /\ Reads({"rows"}) /\ ~log[cursor + 1].match
    /\ UNCHANGED <<set, pendingGTID, committed, currentFile, txOrder, seq, schema, last>>

(* emitRows, a table the filter excludes: only txOrder advances. *)
HandleFiltered ==
    /\ Reads({"rows"}) /\ ~log[cursor + 1].match
    /\ txOrder' = txOrder + log[cursor + 1].n
    /\ UNCHANGED <<set, pendingGTID, committed, currentFile, seq, schema, last>>

(* The ID of row i of the entry. *)
EventID(i) ==
    IF pendingGTID # NoGTID
    THEN <<"gtid", pendingGTID, txOrder + i>>
    ELSE <<"pos", currentFile, cursor + 1, i>>

\* Mutant: rows are stamped with the coordinates right behind them.
StampOwn == [set |-> set \cup ({pendingGTID} \ {NoGTID}), file |-> currentFile,
             off |-> cursor + 1]

(* The resume coordinates every row of the batch is stamped with. *)
Stamp == committed

(* load: information_schema shows the schema of this moment, with all DDL  *)
(* of the server, also what the stream has not reached.                    *)
load == SchemaAt(Len(log) + 1)

(* Get: the cached schema, else load it. *)
Get == IF schema = NoSchema THEN load ELSE schema

(* emitRows: Get the schema, reload it once if the width of the rows does  *)
(* not fit (DDL need not change the width), build the batch and send it.   *)
HandleRows ==
    /\ Reads({"rows"}) /\ log[cursor + 1].match
    /\ LET k == cursor + 1
           widthMayDiffer == Get # SchemaAt(k)
       IN  /\ schema' \in {Get} \cup (IF widthMayDiffer THEN {load} ELSE {})
           /\ last' = [entry |-> k, read |-> read, pos |-> Stamp, schema |-> schema',
                       ids |-> [i \in 1..log[k].n |-> EventID(i)]]
           /\ txOrder' = txOrder + log[k].n
           /\ seq' = seq + log[k].n
    /\ UNCHANGED <<set, pendingGTID, committed, currentFile>>

Next ==
    \/ \E body \in Bodies : ServerCommits(body)
    \/ ServerRotates
    \/ Start \/ Stops \/ Reconnects \/ Saves
    \/ HandleRotate \/ HandleGTID \/ HandleXID \/ HandleQuery
    \/ HandleFiltered \/ HandleRows

Spec == Init /\ [][Next]_vars

----------------------------------------------------------------------------
Kinds == {"rotate", "gtid", "begin", "rows", "xid", "query", "ddl"}
GNO == 0..MaxLog
Positions == [set : SUBSET GNO, file : 0..(MaxLog + 1), off : 0..MaxLog]

\* Every variable of the source and of its txnState has its type.
TypeOK ==
    /\ log \in Seq([kind : Kinds, tx : GNO, n : Nat, match : BOOLEAN])
    /\ Len(log) <= MaxLog
    /\ saved \in Positions /\ committed \in Positions
    /\ starts \in 0..MaxStarts /\ drops \in 0..MaxDrops /\ up \in BOOLEAN
    /\ cursor \in 0..Len(log) /\ heard \in 0..Len(log) /\ read \in 0..Len(log)
    /\ set \subseteq GNO /\ pendingGTID \in GNO
    /\ currentFile \in 0..(MaxLog + 1) /\ txOrder \in Nat /\ seq \in Nat
    /\ schema \in 0..(MaxLog + 1)

\* "resuming replays at most the in-progress transaction — never skipping
\* events" (source.go:241-244): a restart from the position of any sent event
\* reads that event and the ones behind it again, whatever the server did since.
\* Only rows the run had read before the event are left out (it is a copy then,
\* sent after a reconnect, and its position counts when the first copy is
\* acknowledged too).
ResumeNeverSkips ==
    last # Nothing
      => \A k \in (last.read + 1)..Skipped(resolveStart(last.pos)) :
            log[k].kind # "rows"

\* The same comment, the other half: with the position of a sent event as
\* start, no transaction before the event's own is read again.
ResumeReplaysOnlyOwnTxn ==
    last # Nothing
      => \A k \in (Skipped(resolveStart(last.pos)) + 1)..(last.entry - 1) :
            log[k].kind \in {"rows", "xid"}
              => log[k].tx = log[last.entry].tx

\* The ID a row must have (README.md:107-109, 131-134): its GTID and its place
\* in the whole transaction, filtered-out tables included; without GTIDs its
\* coordinates.
RowCounts == [i \in 1..Len(log) |-> IF log[i].kind = "rows" THEN log[i].n ELSE 0]

\* w[f] + ... + w[k - 1]
Total(w, f, k) ==
    LET sum[j \in f..k] == IF j = f THEN 0 ELSE sum[j - 1] + w[j - 1]
    IN  sum[k]

RowsBefore(k) == Total(RowCounts, TxnStart(k), k)

ExpectedID(k, i) ==
    IF HasGTIDs THEN <<"gtid", log[k].tx, RowsBefore(k) + i>>
                ELSE <<"pos", FileAt(k), k, i>>

\* Event IDs denote the row: the same in every run, after a reconnect in the
\* middle of a transaction, and whatever other tables the filter excludes.
IDsAreStable ==
    last # Nothing
      => \A i \in 1..log[last.entry].n : last.ids[i] = ExpectedID(last.entry, i)

\* A row is never mapped with a schema older than the one it was written with:
\* every DDL the stream has passed emptied the cache (schema.go:106).
SchemaNeverOlder ==
    last # Nothing => last.schema >= SchemaAt(last.entry)
=============================================================================
