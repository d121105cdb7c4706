----------------------------- MODULE Dispatcher -----------------------------
(***************************************************************************)
(* The dispatcher (src/pkg/dispatch/dispatch.go): Run routes the batches   *)
(* of the source into per-queue staging slices and flushes a slice into    *)
(* its bounded queue when it is full, when the input pauses, on a timer,   *)
(* and when the input is closed.  A flush blocks while the queue is full,  *)
(* and gives up when the context is cancelled.  The source that sends and  *)
(* the publishers that receive are the environment; the stream is endless, *)
(* over a finite set of events.                                            *)
(***************************************************************************)
EXTENDS Naturals, Sequences, SequencesExt

CONSTANTS
    N,          \* number of queues
    Picks,      \* the functions Pick may be: hash of the key modulo N
    Event,      \* the events the source may send
    InCap,      \* capacity of the input channel, in batches
    BatchCap,   \* capacity of a queue, in micro-batches
    FlushSize,  \* events staged per queue at most
    MaxSend,    \* bound: events in one source batch
    CanCancel,  \* ctx may be cancelled
    CanClose    \* the source may end

Queue == 1..N

ASSUME DispatcherAssumption ==
    /\ N \in Nat \ {0}
    /\ Picks \subseteq [Event -> Queue]
    /\ InCap \in Nat \ {0} /\ BatchCap \in Nat \ {0}
    /\ FlushSize \in Nat \ {0} /\ MaxSend \in Nat \ {0}
    /\ CanCancel \in BOOLEAN /\ CanClose \in BOOLEAN

VARIABLES
    pick,       \* pick[e]: Pick(e), the queue of the key of e
    in,         \* the input channel
    closed,     \* in is closed
    cancelled,  \* ctx is cancelled
    pc,         \* where Run is
    cur,        \* events of the received batch that are not staged yet
    idx,        \* the queue that is being flushed, 1 when none is
    then,       \* where flushAll returns to
    staging,    \* staging[q]
    queue,      \* queue[q]: micro-batches
    receives    \* history: micro-batches received, modulo 2

envVars == <<pick, closed, cancelled, receives>>
runVars == <<pc, cur, idx, then>>
vars == <<pick, in, closed, cancelled, pc, cur, idx, then, staging, queue, receives>>

----------------------------------------------------------------------------
(* New *)
Init ==
    /\ pick \in Picks
    /\ in = <<>> /\ closed = FALSE /\ cancelled = FALSE
    /\ pc = "select" /\ cur = <<>> /\ idx = 1 /\ then = "select"
    /\ staging = [q \in Queue |-> <<>>]
    /\ queue = [q \in Queue |-> <<>>]
    /\ receives = 0

\* The batches the source may send.
Batch == UNION {[1..k -> Event] : k \in 1..MaxSend}

(* Environment: the source sends a batch, closes the channel; the pipeline *)
(* is hard-cancelled; a publisher receives a micro-batch.                  *)
SourceSends(b) ==
    /\ ~closed /\ Len(in) < InCap
    /\ in' = Append(in, b)
    /\ UNCHANGED <<envVars, runVars, staging, queue>>

SourceCloses ==
    /\ CanClose /\ ~closed
    /\ closed' = TRUE
    /\ UNCHANGED <<pick, in, cancelled, receives, runVars, staging, queue>>

Cancel ==
    /\ CanCancel /\ ~cancelled
    /\ cancelled' = TRUE
    /\ UNCHANGED <<pick, in, closed, receives, runVars, staging, queue>>

PublisherReceives(q) ==
    /\ queue[q] # <<>>
    /\ queue' = [queue EXCEPT ![q] = Tail(@)]
    /\ receives' = 1 - receives
    /\ UNCHANGED <<pick, in, closed, cancelled, runVars, staging>>

----------------------------------------------------------------------------
(* Run, select: a batch arrives. *)
Receive ==
    /\ pc = "select" /\ in # <<>>
    /\ cur' = Head(in) /\ in' = Tail(in)
    /\ pc' = "route"
    /\ UNCHANGED <<envVars, idx, then, staging, queue>>

(* Run, select: in is closed and drained; flush everything and return. *)
ReceiveClosed ==
    /\ pc = "select" /\ in = <<>> /\ closed
    /\ pc' = "flushAll" /\ idx' = 1 /\ then' = "ended"
    /\ UNCHANGED <<envVars, in, cur, staging, queue>>

\* Mutant: there is no ticker.
TickNever ==
    /\ FALSE
    /\ UNCHANGED vars

(* Run, select: the ticker fires (with something staged). *)
Tick ==
    /\ pc = "select" /\ \E q \in Queue : staging[q] # <<>>
    /\ pc' = "flushAll" /\ idx' = 1 /\ then' = "select"
    /\ UNCHANGED <<envVars, in, cur, staging, queue>>

(* Run, select or a blocked flush: ctx is cancelled; Run returns. *)
CtxDone ==
    /\ pc \in {"select", "flush", "flushAll"} /\ cancelled
    /\ pc' = "ended" /\ idx' = 1 /\ then' = "select"
    /\ UNCHANGED <<envVars, in, cur, staging, queue>>

\* Mutant: the event is flushed ahead of what is staged for its queue.
RouteJumps ==
    /\ pc = "route" /\ cur # <<>>
    /\ LET q == pick[Head(cur)]
           s == <<Head(cur)>> \o staging[q]
       IN  /\ staging' = [staging EXCEPT ![q] = s]
           /\ IF Len(s) >= FlushSize THEN pc' = "flush" /\ idx' = q
                                    ELSE UNCHANGED <<pc, idx>>
    /\ cur' = Tail(cur)
    /\ UNCHANGED <<envVars, in, then, queue>>

\* Mutant: a full slice is not flushed, so staging outgrows flushSize.
RouteNoFlush ==
    /\ pc = "route" /\ cur # <<>>
    /\ LET q == pick[Head(cur)]
       IN  staging' = [staging EXCEPT ![q] = Append(@, Head(cur))]
    /\ cur' = Tail(cur)
    /\ UNCHANGED <<envVars, in, pc, idx, then, queue>>

(* Run: stage the next event of the batch; a full slice must be flushed. *)
Route ==
    /\ pc = "route" /\ cur # <<>>
    /\ LET q == pick[Head(cur)]
           s == Append(staging[q], Head(cur))
       IN  /\ staging' = [staging EXCEPT ![q] = s]
           /\ IF Len(s) >= FlushSize THEN pc' = "flush" /\ idx' = q
                                    ELSE UNCHANGED <<pc, idx>>
    /\ cur' = Tail(cur)
    /\ UNCHANGED <<envVars, in, then, queue>>

(* Run: the batch is staged; flush everything if the input is idle. *)
Routed ==
    /\ pc = "route" /\ cur = <<>>
    /\ pc' = IF in = <<>> THEN "flushAll" ELSE "select"
    /\ idx' = 1 /\ then' = "select"
    /\ UNCHANGED <<envVars, in, cur, staging, queue>>

(* The send of flush: it waits for room in the queue. *)
SendStaged(q) ==
    /\ Len(queue[q]) < BatchCap
    /\ queue' = [queue EXCEPT ![q] = Append(@, staging[q])]
    /\ staging' = [staging EXCEPT ![q] = <<>>]

(* flush, called for a full slice. *)
Flush ==
    /\ pc = "flush"
    /\ SendStaged(idx)
    /\ pc' = "route" /\ idx' = 1
    /\ UNCHANGED <<envVars, in, cur, then>>

\* Mutant: the loop of flushAll leaves the last queue out.
FlushAllStopsEarly ==
    /\ pc = "flushAll"
    /\ IF staging[idx] = <<>> \/ idx = N THEN UNCHANGED <<staging, queue>>
                                        ELSE SendStaged(idx)
    /\ IF idx < N
       THEN idx' = idx + 1 /\ UNCHANGED pc
       ELSE idx' = 1 /\ pc' = then
    /\ UNCHANGED <<envVars, in, cur, then>>

(* flushAll: one queue after the other, skipping empty slices. *)
FlushAll ==
    /\ pc = "flushAll"
    /\ IF staging[idx] = <<>> THEN UNCHANGED <<staging, queue>> ELSE SendStaged(idx)
    /\ IF idx < N
       THEN idx' = idx + 1 /\ UNCHANGED pc
       ELSE idx' = 1 /\ pc' = then
    /\ UNCHANGED <<envVars, in, cur, then>>

RunStep == Receive \/ ReceiveClosed \/ CtxDone \/ Route \/ Routed \/ Flush \/ FlushAll

Next ==
    \/ \E b \in Batch : SourceSends(b)
    \/ SourceCloses \/ Cancel
    \/ \E q \in Queue : PublisherReceives(q)
    \/ RunStep \/ Tick

Spec == Init /\ [][Next]_vars

(* The goroutine of Run is scheduled; its select picks the ticker, which   *)
(* is ready again and again, even if input is always ready too; publishers *)
(* keep receiving.                                                         *)
FairSpec ==
    /\ Spec
    /\ WF_vars(RunStep)
    /\ SF_vars(Tick)
    /\ \A q \in Queue : WF_vars(PublisherReceives(q))

----------------------------------------------------------------------------
\* The dispatcher's variables hold what the code can store there; a staging
\* slice never exceeds flushSize, nor does a queued micro-batch.
TypeOK ==
    /\ pick \in Picks /\ receives \in {0, 1} /\ closed \in BOOLEAN /\ cancelled \in BOOLEAN
    /\ in \in Seq(Seq(Event)) /\ Len(in) <= InCap
    /\ pc \in {"select", "route", "flush", "flushAll", "ended"}
    /\ cur \in Seq(Event) /\ idx \in Queue /\ then \in {"select", "ended"}
    /\ \A q \in Queue :
         /\ staging[q] \in Seq(Event) /\ Len(staging[q]) <= FlushSize
         /\ queue[q] \in Seq(Seq(Event)) /\ Len(queue[q]) <= BatchCap
         /\ \A i \in DOMAIN queue[q] : Len(queue[q][i]) \in 1..FlushSize

\* The events of b that belong to queue q, in order.
Lane(b, q) ==
    LET lane[i \in 0..Len(b)] ==
          IF i = 0 THEN <<>>
          ELSE IF pick[b[i]] = q THEN Append(lane[i - 1], b[i]) ELSE lane[i - 1]
    IN  lane[Len(b)]

\* Where the events owed on queue q are: in its queue, then staged, then in the
\* batch Run is routing, then in the input channel.
Owed(q) == FlattenSeq(queue[q]) \o staging[q] \o Lane(cur \o FlattenSeq(in), q)

R == INSTANCE Router WITH
        MaxHand <- FlushSize, owed <- [q \in Queue |-> Owed(q)]

\* The dispatcher implements Router: whatever flushes, timers, full queues,
\* cancellation and close interleave, each queue hands over the events of its
\* keys in the order sent, none dropped, none twice.
ImplementsRouter == R!Spec

\* And unless it is cancelled it keeps handing over, also the events of a key
\* with little traffic while the input never pauses (dispatch.go:188-192).
ImplementsLiveRouter == []~cancelled => R!Liveness

\* A source that ends loses nothing: when Run returns and was not cancelled,
\* no event is left in the input or in a staging slice.
CloseFlushesAll ==
    (pc = "ended" /\ ~cancelled)
      => (in = <<>> /\ \A q \in Queue : staging[q] = <<>>)
=============================================================================
