----------------------------- MODULE Hyperloop -----------------------------
(***************************************************************************)
(* One hyperloop over all its runs (src/pkg/hyperloop/hyperloop.go): the   *)
(* source, the dispatcher, one publisher per buffer queue, the sink's      *)
(* in-flight batches, the checkpoint tracker, the committer, the state     *)
(* store, and run() itself with its two cancellation levels and its two    *)
(* shutdown timeouts.  The process may crash and be started again; batches *)
(* of an earlier run may still be in flight while a later run works.       *)
(*                                                                         *)
(* An event is the number of its row in the binlog; in a run that started  *)
(* at coordinate c, row c + n has SeqNo n.  A resume coordinate is the     *)
(* number of rows of the transactions it covers.  Micro-batches travel one *)
(* event at a time (every interleaving of a batch is one of its events').  *)
(* Dispatcher and MysqlSource model those parts in full.                   *)
(***************************************************************************)
EXTENDS Integers, Sequences, FiniteSets, Functions

CONSTANTS
    MaxRow,         \* rows the binlog grows to
    Base,           \* Base[r]: rows of the transactions before the one of r
    Queue,          \* the buffer queues
    Picks,          \* the ways the keys of the rows may hash to queues
    OutCap,         \* capacity of the channel out
    QueueCap,       \* capacity of a buffer queue
    BatchMaxSize,   \* events in one publisher batch
    MaxInflight,    \* Config.MaxInflightBatches of the sink
    MaxRuns,        \* bound: calls of Run
    CanStop,        \* an operator may stop the hyperloop
    CanCrash,       \* the process may crash
    CanLinger,      \* a statement of Save may outlive its client (MySQLStore)
    NoPos           \* the zero Position, "current end of the log"

Row == 1..MaxRow
Coord == 0..MaxRow

ASSUME BoundsAssumption ==
    /\ MaxRow \in Nat /\ MaxRuns \in Nat
    /\ OutCap \in Nat \ {0} /\ QueueCap \in Nat \ {0}
    /\ BatchMaxSize \in Nat \ {0} /\ MaxInflight \in Nat \ {0}
    /\ CanStop \in BOOLEAN /\ CanCrash \in BOOLEAN /\ CanLinger \in BOOLEAN
    /\ NoPos \notin Int

\* Rows are stamped with the coordinates of the last committed transaction:
\* the rows of one transaction share theirs, and it does not cover them.
ASSUME RowsAssumption ==
    /\ Base \in [Row -> Coord]
    /\ \A r \in Row : Base[r] < r
    /\ \A r, s \in Row : r <= s => Base[r] <= Base[s]
    /\ \A r, s \in Row : (r <= s /\ Base[s] < r) => Base[r] = Base[s]
    /\ Picks \subseteq [Row -> Queue]

VARIABLES
    pick,           \* pick[r]: the queue the key of r hashes to
    logEnd,         \* rows in the binlog
    saved,          \* the coordinate in the state store, or NoPos
    late,           \* what a lingering Save statement writes, or NoPos
    run,            \* number of the current or last run that loaded its state
    phase,          \* where run() is
    status,         \* h.status
    ctxDone,        \* the context of Run is cancelled: a stop was requested
    srcCancelled, hardCancelled,    \* srcCtx and hardCtx
    firstErr,       \* first component failure of the run
    runErr,         \* run() is going to return an error
    src, start, seq,    \* the source, where it started, the last SeqNo
    out,            \* channel from source to dispatcher
    disp, queue,    \* the dispatcher and the buffer queues
    pub, batch, open,   \* publishers, their batches, queue still open
    inflight,       \* batches submitted to the producer and not resolved
    sinkErr,        \* the sink's sticky error
    stray,          \* batches of publishers run() abandoned
    next, pending, ckpt, has, dirty,    \* the run's tracker
    com, comPos,    \* the committer and the position it is saving
    acked,          \* history: positions acknowledged in this run
    durable,        \* history: rows that reached the topic
    captured,       \* history: rows the source ever emitted
    captureFrom     \* history: where the last start without state began

envVars == <<pick, logEnd, durable, captured, captureFrom>>
lifeVars == <<run, phase, status, ctxDone, runErr>>
cancelVars == <<firstErr, srcCancelled, hardCancelled>>
sourceVars == <<src, start, seq>>
dispVars == <<disp, queue>>
pubVars == <<pub, batch, open>>
sinkVars == <<inflight, sinkErr, stray>>
trackerVars == <<next, pending, ckpt, has, dirty, acked>>
comVars == <<com, comPos>>
storeVars == <<saved, late>>
\* what main and the environment own; upstream and downstream of the publishers
mainVars == <<envVars, storeVars, lifeVars, cancelVars>>
feedVars == <<sourceVars, out, dispVars>>
ackVars == <<sinkVars, trackerVars, comVars>>
workVars == <<feedVars, pubVars, ackVars>>

vars == <<mainVars, workVars>>

T == INSTANCE Tracker WITH
        MaxSeq <- MaxRow, NoCoord <- NoPos, reported <- acked, handed <- 0

NoErr == [kind |-> "none", run |-> 0]
Failure(n) == [kind |-> "failed", run |-> n]
Canceled(n) == [kind |-> "canceled", run |-> n]

\* wg.Wait() has returned: source, dispatcher and publishers have all ended.
Finished == src = "ended" /\ disp = "ended" /\ \A q \in Queue : pub[q] = "ended"

\* Positions of the rows of a batch of the current run.
PositionsOf(rows) == [s \in {r - start : r \in rows} |-> Base[s + start]]

\* Rows a publisher of this run could still submit after run() gave it up.
RowsLeft(q) == Range(batch[q]) \cup Range(queue[q])
                 \cup {r \in Range(out) : pick[r] = q}

----------------------------------------------------------------------------
(* Before the first Run: no goroutines, no state saved, an empty binlog. *)
Init ==
    /\ run = 0 /\ phase = "idle" /\ status = "created"
    /\ ctxDone = FALSE /\ runErr = FALSE
    /\ firstErr = NoErr /\ srcCancelled = TRUE /\ hardCancelled = TRUE
    /\ src = "ended" /\ start = NoPos /\ seq = 0 /\ out = <<>>
    /\ disp = "ended" /\ queue = [q \in Queue |-> <<>>]
    /\ pub = [q \in Queue |-> "ended"] /\ batch = [q \in Queue |-> <<>>]
    /\ open = [q \in Queue |-> FALSE]
    /\ inflight = {} /\ sinkErr = NoErr /\ stray = {}
    /\ T!TrackerInit /\ acked = <<>>
    /\ com = "ended" /\ comPos = NoPos
    /\ pick \in Picks /\ logEnd = 0 /\ saved = NoPos /\ late = NoPos
    /\ durable = {} /\ captured = {} /\ captureFrom = 0

(* The run gets a tracker of its own. *)
NewTracker ==
    /\ next' = 1 /\ pending' = <<>> /\ ckpt' = T!ZeroPosition
    /\ has' = FALSE /\ dirty' = FALSE
    /\ acked' = <<>>

(* fail: the first error that is not a cancellation stops everything. *)
fail(e) ==
    IF e = NoErr \/ e.kind = "canceled" \/ firstErr # NoErr
    THEN UNCHANGED cancelVars
    ELSE firstErr' = e /\ srcCancelled' = TRUE /\ hardCancelled' = TRUE

(* Sink.Reset and Sink.setErr: the sticky error. *)
Reset == sinkErr' = NoErr
setErr(e) == sinkErr' = IF sinkErr = NoErr THEN e ELSE sinkErr

(* Store.Save replaces the position.  A save that reports an error may     *)
(* have been applied all the same: the answer was lost.  Of one that was   *)
(* retried or given up, the server may still execute a statement later     *)
(* (module StateStore); one such statement is kept.                        *)
Lingers(p) == late' \in {late} \cup (IF CanLinger THEN {p} ELSE {})
Save(p) == saved' = p /\ Lingers(p)
SaveFails(p) == saved' \in {saved, p} /\ Lingers(p)

(* MySQL executes it: once, or both statements of a retry. *)
LateSave ==
    /\ late # NoPos
    /\ saved' = late
    /\ UNCHANGED <<late, envVars, lifeVars, cancelVars, workVars>>

----------------------------------------------------------------------------
(* MySQL commits a transaction: all its rows enter the binlog at once. *)
BinlogCommit ==
    /\ logEnd < MaxRow
    /\ logEnd' \in {e \in Row : /\ e > logEnd
                                /\ Base[e] = logEnd
                                /\ e = MaxRow \/ Base[e + 1] = e}
    /\ UNCHANGED <<pick, durable, captured, captureFrom, storeVars, lifeVars,
                   cancelVars, workVars>>

(* An operator (or the manager) cancels the context of Run. *)
Stop ==
    /\ CanStop /\ phase # "idle" /\ ~ctxDone
    /\ ctxDone' = TRUE
    /\ UNCHANGED <<envVars, storeVars, run, phase, status, runErr, cancelVars,
                   workVars>>

----------------------------------------------------------------------------
(* Run, run: reset the sink's sticky error, load the state, make a new     *)
(* tracker, dispatcher and channel, start the goroutines.  Publishers an   *)
(* abandoned run left behind keep what they hold.                          *)
RunStart ==
    /\ phase = "idle" /\ run < MaxRuns
    /\ run' = run + 1 /\ phase' = "select" /\ status' = "running"
    /\ ctxDone' = FALSE /\ runErr' = FALSE
    /\ firstErr' = NoErr /\ srcCancelled' = FALSE /\ hardCancelled' = FALSE
    /\ src' = "connect" /\ start' = saved /\ seq' = 0 /\ out' = <<>>
    /\ disp' = "run" /\ queue' = [q \in Queue |-> <<>>]
    /\ pub' = [q \in Queue |-> "drain"] /\ batch' = [q \in Queue |-> <<>>]
    /\ open' = [q \in Queue |-> TRUE]
    /\ Reset
    /\ NewTracker
    /\ com' = "idle" /\ comPos' = NoPos
    /\ stray' = stray \cup {[run |-> run, rows |-> RowsLeft(q)] :
                              q \in {p \in Queue : /\ pub[p] # "ended"
                                                   /\ RowsLeft(p) # {}}}
    /\ UNCHANGED <<envVars, storeVars, inflight>>

(* run returns early: Store.Load failed after the sink was reset. *)
RunLoadFails ==
    /\ phase = "idle"
    /\ status' = "failed"
    /\ Reset
    /\ UNCHANGED <<envVars, storeVars, run, phase, ctxDone, runErr, cancelVars,
                   feedVars, pubVars, inflight, stray, trackerVars, comVars>>

(* run, first select: the stop was requested; cancel the source and drain. *)
SelectStop ==
    /\ phase = "select" /\ ctxDone
    /\ phase' = "drain" /\ status' = "stopping"
    /\ srcCancelled' = TRUE
    /\ UNCHANGED <<envVars, storeVars, run, ctxDone, runErr, firstErr,
                   hardCancelled, workVars>>

(* run, any of its selects: every goroutine has ended; read the first      *)
(* error, and flush the sink only if there is none.                        *)
SelectFinished ==
    /\ phase \in {"select", "drain", "hard"} /\ Finished
    /\ status' = "stopping"
    /\ runErr' = (firstErr # NoErr)
    /\ phase' = IF firstErr = NoErr THEN "flush" ELSE "stopCommit"
    /\ UNCHANGED <<envVars, storeVars, run, ctxDone, cancelVars, workVars>>

(* run: ShutdownTimeout expired once; cancel everything. *)
DrainTimeout ==
    /\ phase = "drain"
    /\ phase' = "hard"
    /\ hardCancelled' = TRUE
    /\ UNCHANGED <<envVars, storeVars, run, status, ctxDone, runErr, firstErr,
                   srcCancelled, workVars>>

\* Mutant: the second select has no timeout.
AbandonNever ==
    /\ phase = "hard" /\ Finished
    /\ phase' = "stopCommit" /\ runErr' = TRUE
    /\ UNCHANGED <<envVars, storeVars, run, status, ctxDone, cancelVars, workVars>>

(* run: ShutdownTimeout expired twice; give the goroutines up, skip Flush. *)
Abandon ==
    /\ phase = "hard"
    /\ phase' = "stopCommit" /\ runErr' = TRUE
    /\ UNCHANGED <<envVars, storeVars, run, status, ctxDone, cancelVars, workVars>>

\* Mutant: Flush does not wait for the done callbacks (pending.Wait).
FlushEarly ==
    /\ phase = "flush"
    /\ phase' = "stopCommit"
    /\ runErr' = (sinkErr # NoErr)
    /\ UNCHANGED <<envVars, storeVars, run, status, ctxDone, cancelVars, workVars>>

(* Sink.Flush: every batch is resolved and its callback has returned. *)
FlushDone ==
    /\ phase = "flush" /\ inflight = {}
    /\ phase' = "stopCommit"
    /\ runErr' = (sinkErr # NoErr)
    /\ UNCHANGED <<envVars, storeVars, run, status, ctxDone, cancelVars, workVars>>

(* Sink.Flush: its context expired first. *)
FlushTimeout ==
    /\ phase = "flush" /\ inflight # {}
    /\ phase' = "stopCommit" /\ runErr' = TRUE
    /\ UNCHANGED <<envVars, storeVars, run, status, ctxDone, cancelVars, workVars>>

\* Mutant: run does not wait for the committer before its final commit.
CommitterGoneNoWait ==
    /\ phase = "stopCommit"
    /\ phase' = "final"
    /\ UNCHANGED <<envVars, storeVars, run, status, ctxDone, runErr, cancelVars,
                   workVars>>

(* run: commitWg.Wait() returned; look at the checkpoint for the last save. *)
CommitterGone ==
    /\ phase = "stopCommit" /\ com = "ended"
    /\ phase' = "final"
    /\ UNCHANGED <<envVars, storeVars, run, status, ctxDone, runErr, cancelVars,
                   workVars>>

(* run returns, and Run records how; the deferred cancels fire. *)
Return(err) ==
    /\ phase' = "idle" /\ runErr' = err
    /\ status' = IF err THEN "failed" ELSE "stopped"
    /\ srcCancelled' = TRUE /\ hardCancelled' = TRUE
    /\ UNCHANGED <<envVars, run, ctxDone, firstErr, workVars>>

(* run: the final commit, when there is a checkpoint. *)
FinalCommit ==
    /\ phase = "final"
    /\ IF has THEN Save(ckpt.coord) ELSE UNCHANGED storeVars
    /\ Return(runErr)

(* run: the final commit reports an error. *)
FinalCommitFails ==
    /\ phase = "final" /\ has
    /\ SaveFails(ckpt.coord)
    /\ Return(TRUE)

----------------------------------------------------------------------------
(* Source.Start: a zero Position resolves to the current end of the log. *)
SourceConnect ==
    /\ src = "connect"
    /\ src' = "stream"
    /\ start' = IF start = NoPos THEN logEnd ELSE start
    /\ captureFrom' = IF start = NoPos THEN logEnd ELSE captureFrom
    /\ UNCHANGED <<pick, logEnd, durable, captured, storeVars, lifeVars,
                   cancelVars, seq, out, dispVars, pubVars, ackVars>>

(* Source.Start returns an error (connect, validation, schema, stream). *)
SourceFails ==
    /\ src \in {"connect", "stream"}
    /\ src' = "ended"
    /\ fail(Failure(run))
    /\ UNCHANGED <<envVars, storeVars, lifeVars, start, seq, out, dispVars,
                   pubVars, ackVars>>

(* emitRows: the next row of the binlog is stamped and sent. *)
SourceEmit ==
    /\ src = "stream" /\ start + seq < logEnd
    /\ Len(out) < OutCap
    /\ seq' = seq + 1
    /\ out' = Append(out, start + seq + 1)
    /\ captured' = captured \cup {start + seq + 1}
    /\ UNCHANGED <<pick, logEnd, durable, captureFrom, storeVars, lifeVars,
                   cancelVars, src, start, dispVars, pubVars, ackVars>>

(* srcCtx is cancelled while the source waits for an event or to send one. *)
SourceStops ==
    /\ src = "stream" /\ srcCancelled
    /\ src' = "ended"
    /\ UNCHANGED <<mainVars, start, seq, out, dispVars, pubVars, ackVars>>

----------------------------------------------------------------------------
\* Mutant: an event that finds its queue full is dropped.
DispatchDrops ==
    /\ disp = "run" /\ out # <<>>
    /\ LET r == Head(out) IN
         queue' = IF Len(queue[pick[r]]) < QueueCap
                  THEN [queue EXCEPT ![pick[r]] = Append(@, r)]
                  ELSE queue
    /\ out' = Tail(out)
    /\ UNCHANGED <<mainVars, sourceVars, disp, pubVars, ackVars>>

\* Mutant: an event goes to any queue that has room.
DispatchAnywhere ==
    /\ disp = "run" /\ out # <<>>
    /\ \E q \in Queue :
         /\ Len(queue[q]) < QueueCap
         /\ queue' = [queue EXCEPT ![q] = Append(@, Head(out))]
    /\ out' = Tail(out)
    /\ UNCHANGED <<mainVars, sourceVars, disp, pubVars, ackVars>>

(* Dispatcher.Run routes the next event, blocking while its queue is full. *)
Dispatch ==
    /\ disp = "run" /\ out # <<>>
    /\ LET r == Head(out) IN
         /\ Len(queue[pick[r]]) < QueueCap
         /\ queue' = [queue EXCEPT ![pick[r]] = Append(@, r)]
    /\ out' = Tail(out)
    /\ UNCHANGED <<mainVars, sourceVars, disp, pubVars, ackVars>>

(* Dispatcher.Run returns and closes the queues: out is closed and drained, *)
(* or hardCtx is cancelled.                                                *)
DispatchEnds ==
    /\ disp = "run"
    /\ (src = "ended" /\ out = <<>>) \/ hardCancelled
    /\ disp' = "ended"
    /\ UNCHANGED <<mainVars, sourceVars, out, queue, pubVars, ackVars>>

----------------------------------------------------------------------------
(* drainBatch: take the next micro-batch. *)
PubTake(q) ==
    /\ pub[q] = "drain" /\ queue[q] # <<>>
    /\ Len(batch[q]) < BatchMaxSize
    /\ batch' = [batch EXCEPT ![q] = Append(@, Head(queue[q]))]
    /\ queue' = [queue EXCEPT ![q] = Tail(@)]
    /\ UNCHANGED <<mainVars, sourceVars, out, disp, pub, open, ackVars>>

\* Mutant: drainBatch waits until the batch is full (no maxWait timer).
PubBatchFull(q) ==
    /\ pub[q] = "drain" /\ Len(batch[q]) = BatchMaxSize
    /\ pub' = [pub EXCEPT ![q] = "publish"]
    /\ UNCHANGED <<mainVars, feedVars, batch, open, ackVars>>

(* drainBatch returns a batch: it is full, or maxWait elapsed. *)
PubBatch(q) ==
    /\ pub[q] = "drain" /\ batch[q] # <<>>
    /\ pub' = [pub EXCEPT ![q] = "publish"]
    /\ UNCHANGED <<mainVars, feedVars, batch, open, ackVars>>

(* drainBatch returns with open=false: the queue is closed and drained, or *)
(* hardCtx is cancelled; an empty batch ends the publisher.                *)
PubClosed(q) ==
    /\ pub[q] = "drain"
    /\ (disp = "ended" /\ queue[q] = <<>>) \/ hardCancelled
    /\ pub' = [pub EXCEPT ![q] = IF batch[q] = <<>> THEN "ended" ELSE "publish"]
    /\ open' = [open EXCEPT ![q] = FALSE]
    /\ UNCHANGED <<mainVars, feedVars, batch, ackVars>>

(* PublishBatch passes its check of the sticky error. *)
PubCheck(q) ==
    /\ pub[q] = "publish" /\ sinkErr = NoErr
    /\ pub' = [pub EXCEPT ![q] = "token"]
    /\ UNCHANGED <<mainVars, feedVars, batch, open, ackVars>>

(* PublishBatch returns the sticky error, or fails to serialize an event; *)
(* runPublisher swallows it only if hardCtx is cancelled.                  *)
PubFails(q) ==
    /\ pub[q] = "publish"
    /\ pub' = [pub EXCEPT ![q] = "ended"]
    /\ \E e \in {sinkErr, Failure(run)} :
         /\ e # NoErr
         /\ sinkErr # NoErr => e = sinkErr
         /\ fail(IF hardCancelled THEN NoErr ELSE e)
    /\ UNCHANGED <<envVars, storeVars, lifeVars, feedVars, batch, open, ackVars>>

\* Mutant: the slot is given back when the records are handed over, not by the
\* promise of the last one.
PubSubmitFreesSlot(q) ==
    /\ pub[q] = "token"
    /\ inflight' = inflight \cup {[run |-> run, rows |-> Range(batch[q])]}
    /\ batch' = [batch EXCEPT ![q] = <<>>]
    /\ pub' = [pub EXCEPT ![q] = IF open[q] THEN "drain" ELSE "ended"]
    /\ UNCHANGED <<mainVars, feedVars, open, sinkErr, stray, trackerVars,
                   comVars>>

(* PublishBatch takes an in-flight slot and hands the records over. *)
PubSubmit(q) ==
    /\ pub[q] = "token" /\ Cardinality(inflight) < MaxInflight
    /\ inflight' = inflight \cup {[run |-> run, rows |-> Range(batch[q])]}
    /\ batch' = [batch EXCEPT ![q] = <<>>]
    /\ pub' = [pub EXCEPT ![q] = IF open[q] THEN "drain" ELSE "ended"]
    /\ UNCHANGED <<mainVars, feedVars, open, sinkErr, stray, trackerVars,
                   comVars>>

(* PublishBatch gives up waiting for a slot: hardCtx is cancelled. *)
PubCancelled(q) ==
    /\ pub[q] = "token" /\ hardCancelled
    /\ pub' = [pub EXCEPT ![q] = "ended"]
    /\ UNCHANGED <<mainVars, feedVars, batch, open, ackVars>>

(* A publisher that run() abandoned comes unstuck and submits, or exits. *)
StraySubmit(b) ==
    /\ stray' = stray \ {b}
    /\ \/ /\ Cardinality(inflight) < MaxInflight
          /\ inflight' = inflight \cup {b}
       \/ UNCHANGED inflight
    /\ UNCHANGED <<mainVars, feedVars, pubVars, sinkErr, trackerVars, comVars>>

----------------------------------------------------------------------------
\* Mutant: the batch is reported although one of its records failed.
AckAnyway(b) ==
    /\ inflight' = inflight \ {b}
    /\ \E D \in SUBSET b.rows : durable' = durable \cup D
    /\ IF b.run = run
       THEN T!DoneBatch(PositionsOf(b.rows))
            /\ acked' = T!Put(acked, PositionsOf(b.rows))
       ELSE UNCHANGED trackerVars
    /\ UNCHANGED <<pick, logEnd, captured, captureFrom, storeVars, lifeVars,
                   cancelVars, feedVars, pubVars, sinkErr, stray, comVars>>

(* The promise of the last record: all were acknowledged.  done reports to *)
(* the tracker of the batch's own run.                                     *)
Ack(b) ==
    /\ inflight' = inflight \ {b}
    /\ durable' = durable \cup b.rows
    /\ IF b.run = run
       THEN T!DoneBatch(PositionsOf(b.rows))
            /\ acked' = T!Put(acked, PositionsOf(b.rows))
       ELSE UNCHANGED trackerVars
    /\ UNCHANGED <<pick, logEnd, captured, captureFrom, storeVars, lifeVars,
                   cancelVars, feedVars, pubVars, sinkErr, stray, comVars>>

(* Promises of a batch report an error: some records may be durable, done  *)
(* is not called.  A record is failed with context.Canceled only if the    *)
(* hardCtx it was produced with is cancelled.                              *)
Nack(b) ==
    /\ inflight' = inflight \ {b}
    /\ \E D \in SUBSET b.rows : durable' = durable \cup D
    /\ \E e \in {Failure(b.run), Canceled(b.run)} :
         /\ e = Canceled(b.run) => (b.run < run \/ hardCancelled)
         /\ setErr(e)
    /\ UNCHANGED <<pick, logEnd, captured, captureFrom, storeVars, lifeVars,
                   cancelVars, feedVars, pubVars, stray, trackerVars, comVars>>

----------------------------------------------------------------------------
\* Mutant: the committer does not poll the sink.
CommitterTickNoPoll ==
    /\ com = "idle" /\ dirty
    /\ com' = "save" /\ comPos' = ckpt.coord /\ T!TakeDirty
    /\ UNCHANGED <<mainVars, feedVars, pubVars, sinkVars, acked>>

(* runCommitter, a tick: poll the sink's error, then take the checkpoint   *)
(* if it moved.                                                            *)
CommitterTick ==
    /\ com = "idle"
    /\ sinkErr # NoErr \/ dirty
    /\ fail(sinkErr)
    /\ IF dirty
       THEN com' = "save" /\ comPos' = ckpt.coord /\ T!TakeDirty
       ELSE UNCHANGED <<comVars, next, pending, ckpt, has, dirty>>
    /\ UNCHANGED <<envVars, storeVars, lifeVars, feedVars, pubVars, sinkVars,
                   acked>>

(* runCommitter: Save succeeded. *)
CommitterSaved ==
    /\ com = "save"
    /\ com' = "idle" /\ comPos' = NoPos
    /\ Save(comPos)
    /\ UNCHANGED <<envVars, lifeVars, cancelVars, feedVars, pubVars, sinkVars,
                   trackerVars>>

\* Mutant: the failed save is not marked dirty again.
CommitterSaveFailsQuietly ==
    /\ com = "save"
    /\ com' = "idle" /\ comPos' = NoPos
    /\ SaveFails(comPos)
    /\ UNCHANGED <<envVars, lifeVars, cancelVars, feedVars, pubVars, sinkVars,
                   trackerVars>>

(* runCommitter: Save reported an error; the checkpoint is dirty again. *)
CommitterSaveFails ==
    /\ com = "save"
    /\ com' = "idle" /\ comPos' = NoPos
    /\ SaveFails(comPos)
    /\ T!Redirty
    /\ UNCHANGED <<envVars, lifeVars, cancelVars, feedVars, pubVars, sinkVars,
                   acked>>

(* runCommitter: commitStop is closed. *)
CommitterStops ==
    /\ com = "idle" /\ phase = "stopCommit"
    /\ com' = "ended"
    /\ UNCHANGED <<mainVars, feedVars, pubVars, sinkVars, trackerVars, comPos>>

----------------------------------------------------------------------------
(* The process dies: requests already sent may reach the topic, and a save *)
(* in progress may reach the store.  Everything in memory is gone.         *)
Crash ==
    /\ CanCrash /\ phase # "idle"
    /\ \E D \in SUBSET UNION {b.rows : b \in inflight} : durable' = durable \cup D
    /\ \/ com = "save" /\ SaveFails(comPos)
       \/ phase = "final" /\ has /\ SaveFails(ckpt.coord)
       \/ UNCHANGED storeVars
    /\ phase' = "idle" /\ status' = "created" /\ ctxDone' = FALSE /\ runErr' = FALSE
    /\ firstErr' = NoErr /\ srcCancelled' = TRUE /\ hardCancelled' = TRUE
    /\ src' = "ended" /\ start' = NoPos /\ seq' = 0 /\ out' = <<>>
    /\ disp' = "ended" /\ queue' = [q \in Queue |-> <<>>]
    /\ pub' = [q \in Queue |-> "ended"] /\ batch' = [q \in Queue |-> <<>>]
    /\ open' = [q \in Queue |-> FALSE]
    /\ inflight' = {} /\ sinkErr' = NoErr /\ stray' = {}
    /\ NewTracker
    /\ com' = "ended" /\ comPos' = NoPos
    /\ UNCHANGED <<pick, logEnd, captured, captureFrom, run>>

Lifecycle ==
    \/ SelectStop \/ SelectFinished \/ DrainTimeout \/ Abandon
    \/ FlushDone \/ FlushTimeout \/ CommitterGone \/ FinalCommit \/ FinalCommitFails

SourceNext == SourceConnect \/ SourceFails \/ SourceEmit \/ SourceStops

DispatcherNext == Dispatch \/ DispatchEnds

PublisherNext(q) ==
    \/ PubTake(q) \/ PubBatch(q) \/ PubClosed(q)
    \/ PubCheck(q) \/ PubFails(q) \/ PubSubmit(q) \/ PubCancelled(q)

SinkNext ==
    \/ \E b \in inflight : Ack(b) \/ Nack(b)
    \/ \E b \in stray : StraySubmit(b)

CommitterNext ==
    CommitterTick \/ CommitterSaved \/ CommitterSaveFails \/ CommitterStops

Next ==
    \/ BinlogCommit \/ LateSave \/ Stop \/ RunStart \/ RunLoadFails \/ Crash
    \/ Lifecycle
    \/ SourceNext
    \/ DispatcherNext
    \/ \E q \in Queue : PublisherNext(q)
    \/ SinkNext
    \/ CommitterNext

Spec == Init /\ [][Next]_vars

(***************************************************************************)
(* Fairness.  Go schedules every runnable goroutine, timers fire, and a    *)
(* select picks at random among its ready cases, so a case that is ready   *)
(* again and again is picked (SF for the committer's stop).  The store is  *)
(* assumed to answer every Save and to accept one of infinitely many.      *)
(* Nothing is assumed of the source, the publishers or the broker here.    *)
(***************************************************************************)
ShutdownFairness ==
    /\ WF_vars(Lifecycle)
    /\ WF_vars(CommitterTick)
    /\ WF_vars(CommitterSaved \/ CommitterSaveFails)
    /\ SF_vars(CommitterSaved)
    /\ SF_vars(CommitterStops)

(* The components run too: the source reads what is in the log, channel    *)
(* operations that stay possible happen, and the producer resolves every   *)
(* record.                                                                 *)
PipelineFairness ==
    /\ WF_vars(SourceConnect) /\ WF_vars(SourceEmit) /\ WF_vars(SourceStops)
    /\ WF_vars(DispatcherNext)
    /\ \A q \in Queue : WF_vars(PublisherNext(q))
    /\ \A q \in Queue : SF_vars(PubSubmit(q))
    /\ WF_vars(SinkNext)

ShutdownSpec == Spec /\ ShutdownFairness
FairSpec == ShutdownSpec /\ PipelineFairness

----------------------------------------------------------------------------
Phases == {"idle", "select", "drain", "hard", "flush", "stopCommit", "final"}
Errors == {NoErr} \cup {Failure(n) : n \in 1..MaxRuns}
                  \cup {Canceled(n) : n \in 1..MaxRuns}
InflightBatches == [run : 1..MaxRuns, rows : SUBSET Row]

\* Every variable of the hyperloop holds a value the code can store there, and
\* MaxInflightBatches (sink.go:31) bounds the batches the producer holds, those
\* of runs that were given up included: a slot is free again only when the last
\* record of its batch is resolved.
TypeOK ==
    /\ pick \in Picks /\ logEnd \in Coord /\ saved \in Coord \cup {NoPos}
    /\ late \in Coord \cup {NoPos}
    /\ run \in 0..MaxRuns /\ phase \in Phases
    /\ status \in {"created", "running", "stopping", "stopped", "failed"}
    /\ ctxDone \in BOOLEAN /\ srcCancelled \in BOOLEAN
    /\ hardCancelled \in BOOLEAN /\ runErr \in BOOLEAN
    /\ firstErr \in Errors /\ sinkErr \in Errors
    /\ src \in {"connect", "stream", "ended"}
    /\ start \in Coord \cup {NoPos} /\ seq \in Coord
    /\ out \in Seq(Row) /\ disp \in {"run", "ended"}
    /\ queue \in [Queue -> Seq(Row)] /\ batch \in [Queue -> Seq(Row)]
    /\ pub \in [Queue -> {"drain", "publish", "token", "ended"}]
    /\ open \in [Queue -> BOOLEAN]
    /\ inflight \subseteq InflightBatches /\ stray \subseteq InflightBatches
    /\ Cardinality(inflight) <= MaxInflight
    /\ next \in 1..(MaxRow + 1) /\ pending \in T!Batches /\ acked \in T!Batches
    /\ ckpt \in [SeqNo : 0..MaxRow, coord : Coord \cup {NoPos}]
    /\ has \in BOOLEAN /\ dirty \in BOOLEAN
    /\ com \in {"idle", "save", "ended"} /\ comPos \in Coord \cup {NoPos}
    /\ durable \subseteq Row /\ captured \subseteq Row
    /\ captureFrom \in Coord

\* No gaps (README.md:105): the saved checkpoint never passes a row that is not
\* on the topic, through failures, abandoned runs, crashes and restarts.
NoGap ==
    saved # NoPos => (captureFrom + 1)..saved \subseteq durable

\* Rows of the current run by where they are.
AckedRows == {s + start : s \in DOMAIN acked}
EmittedRows == IF start = NoPos THEN {} ELSE (start + 1)..(start + seq)
InPipe ==
    Range(out) \cup (UNION {Range(queue[q]) \cup Range(batch[q]) : q \in Queue})
      \cup (UNION {b.rows : b \in {c \in inflight : c.run = run}})

\* Backpressure never drops (README.md:23): as long as nothing failed and
\* nothing was hard-cancelled, every emitted event is in a channel, a batch or
\* the producer, or it is acknowledged.
NeverDrops ==
    (phase # "idle" /\ ~hardCancelled /\ sinkErr = NoErr)
      => EmittedRows = InPipe \cup AckedRows

\* Per-key order: within a run the events of a queue (hence of a key) wait in
\* binlog order, and none is handed to the producer while an earlier one waits.
LaneOrder ==
    \A q \in Queue :
        LET waiting == batch[q] \o queue[q] \o out
            lane == {i \in DOMAIN waiting : pick[waiting[i]] = q}
        IN  /\ 1..(Len(batch[q]) + Len(queue[q])) \subseteq lane
            /\ \A i, j \in lane : i < j => waiting[i] < waiting[j]
            /\ \A i \in lane, r \in EmittedRows \ Range(waiting) :
                    pick[r] = q => r < waiting[i]

\* The hyperloop never moves the store back: neither a restarted run, nor a save
\* still in progress when the final commit happens, replaces a later position.
\* It takes a statement that outlived its client (late) for that to happen.
SavedNeverRegresses ==
    [][saved' # saved => (saved = NoPos \/ saved' > saved \/ late # NoPos)]_vars

\* "a clean stop resumes with minimal replay" (hyperloop.go:377): a Run that
\* returns nil without having hit the drain timeout has every event it emitted
\* acknowledged, and the position of the last one saved.
CleanStopSavesAll ==
    [][(phase = "final" /\ status' = "stopped" /\ ~hardCancelled)
         => /\ EmittedRows = AckedRows
            /\ seq > 0 => saved' = Base[start + seq]]_vars

\* "Shutdown must be bounded even if a component ignores its context"
\* (hyperloop.go:341): a requested stop ends Run, whatever the source, the
\* publishers and the broker do.
BoundedShutdown == (phase # "idle" /\ ctxDone) ~> (phase = "idle")

\* The committer's watchdog (hyperloop.go:483): a produce failure takes the
\* hyperloop out of "running", even if no publisher ever publishes again.
ProduceFailureEndsRun ==
    PipelineFairness =>
        ((status = "running" /\ sinkErr.kind = "failed") ~> (status # "running"))

\* A checkpoint that moved is saved while the run goes on, even if the save
\* fails at first and no further event is acknowledged (Redirty).
CheckpointIsSaved ==
    \A c \in Coord :
        (phase = "select" /\ has /\ ckpt.coord = c)
          ~> (phase # "select" \/ (saved # NoPos /\ saved >= c))

\* No deadlock among bounded channels and in-flight slots: an event the source
\* emitted reaches the topic, unless the run is stopped or the sink fails.
CapturedIsPublished ==
    PipelineFairness =>
        \A r \in Row :
            (phase = "select" /\ r \in EmittedRows)
              ~> (r \in durable \/ phase # "select" \/ sinkErr # NoErr)

----------------------------------------------------------------------------
(* Statements of the repository that the code does not keep. *)

\* hyperloop.go:486: the committer "fails the pipeline promptly instead of
\* letting it show "running" forever", for whatever error the sink holds.
SinkErrorEndsRun ==
    (status = "running" /\ sinkErr # NoErr) ~> (status # "running")

\* sink.go:156: after a failure "the restarted run replays" the unacknowledged
\* events: a run never starts beyond a row that was captured and not published.
UnpublishedIsReplayed ==
    [][(src = "connect" /\ src' = "stream")
         => \A r \in captured : r <= start' => r \in durable]_vars
=============================================================================
