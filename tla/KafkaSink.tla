----------------------------- MODULE KafkaSink ------------------------------
(***************************************************************************)
(* The Kafka sink (src/pkg/publish/kafka/sink.go) over the runs of its     *)
(* hyperloop: concurrent calls of PublishBatch, the per-record promises    *)
(* the producer calls from goroutines of its own, the in-flight slots, the *)
(* wait group of Flush, the sticky error and Reset.  The calls of          *)
(* PublishBatch that a given-up run left behind go on during the next.     *)
(*                                                                         *)
(* A batch is one call of PublishBatch; its records are 1..Size.  The      *)
(* producer (franz-go) is external: it resolves a record with or without   *)
(* an error and then calls its promise; cl.Flush waits until no record is  *)
(* buffered, which is all that is assumed of it.                           *)
(***************************************************************************)
EXTENDS Integers, FiniteSets

CONSTANTS
    Batch,          \* the calls of PublishBatch
    Size,           \* records in a batch
    MaxInflight,    \* Config.MaxInflightBatches
    MaxRuns         \* bound: runs of the hyperloop

Record == 1..Size

ASSUME SinkAssumption ==
    /\ IsFiniteSet(Batch)
    /\ Size \in Nat \ {0} /\ MaxInflight \in Nat \ {0} /\ MaxRuns \in Nat \ {0}

VARIABLES
    run,        \* the hyperloop's run
    cancelled,  \* its hardCtx is cancelled
    call,       \* call[b]: the call of PublishBatch for b and its promises
    slots,      \* tokens in s.inflight
    pending,    \* s.pending
    firstErr,   \* s.firstErr: the run whose record failed first, 0 for nil
    flush       \* Flush: no, client, wait, read, ok, err

vars == <<run, cancelled, call, slots, pending, firstErr, flush>>

(* pc: where the call is; of: the run that made it; rec[i]: record i and   *)
(* its promise; remaining and failed as in the code; last: the promise     *)
(* that took remaining to 0.  dones (calls of done) and onTopic (durable   *)
(* records) are history.                                                   *)
NewCall ==
    [pc |-> "new", of |-> 0, rec |-> [i \in Record |-> "none"],
     remaining |-> Size, failed |-> FALSE, last |-> "none",
     dones |-> 0, onTopic |-> {}]

Init ==
    /\ run = 1 /\ cancelled = FALSE /\ call = [b \in Batch |-> NewCall]
    /\ slots = 0 /\ pending = 0 /\ firstErr = 0 /\ flush = "no"

----------------------------------------------------------------------------
(* The hyperloop cancels the run's hardCtx. *)
HardCancel ==
    /\ ~cancelled
    /\ cancelled' = TRUE
    /\ UNCHANGED <<run, call, slots, pending, firstErr, flush>>

(* The hyperloop's next run calls Reset. *)
Reset ==
    /\ run < MaxRuns /\ flush \in {"no", "ok", "err"}
    /\ run' = run + 1 /\ cancelled' = FALSE /\ flush' = "no"
    /\ firstErr' = 0
    /\ UNCHANGED <<call, slots, pending>>

----------------------------------------------------------------------------
(* PublishBatch: the sticky error, serialization (which may fail).         *)
PublishBatch(b) ==
    /\ call[b].pc = "new" /\ flush = "no"
    /\ \E pc \in {"slot", "refused"} :
         /\ firstErr # 0 => pc = "refused"
         /\ call' = [call EXCEPT ![b].pc = pc, ![b].of = run]
    /\ UNCHANGED <<run, cancelled, slots, pending, firstErr, flush>>

(* PublishBatch: wait for a slot ... *)
TakeSlot(b) ==
    /\ call[b].pc = "slot" /\ slots < MaxInflight
    /\ slots' = slots + 1
    /\ call' = [call EXCEPT ![b].pc = "add"]
    /\ UNCHANGED <<run, cancelled, pending, firstErr, flush>>

(* ... or for the end of the context. *)
GiveUp(b) ==
    /\ call[b].pc = "slot" /\ (call[b].of < run \/ cancelled)
    /\ call' = [call EXCEPT ![b].pc = "refused"]
    /\ UNCHANGED <<run, cancelled, slots, pending, firstErr, flush>>

(* PublishBatch: pending.Add(1) *)
AddPending(b) ==
    /\ call[b].pc = "add"
    /\ pending' = pending + 1
    /\ call' = [call EXCEPT ![b].pc = "produce"]
    /\ UNCHANGED <<run, cancelled, slots, firstErr, flush>>

(* PublishBatch: hand the next record to the producer; return after the    *)
(* last.                                                                   *)
Produce(b) ==
    /\ call[b].pc = "produce"
    /\ \E i \in Record :
         /\ {j \in Record : call[b].rec[j] = "none"} = i..Size
         /\ call' = [call EXCEPT ![b].rec[i] = "buffered",
                                 ![b].pc = IF i = Size THEN "sent" ELSE @]
    /\ UNCHANGED <<run, cancelled, slots, pending, firstErr, flush>>

----------------------------------------------------------------------------
(* The producer resolves a record.  One it reports as failed may have      *)
(* reached the topic all the same.                                         *)
Resolve(b, i) ==
    /\ call[b].rec[i] = "buffered"
    /\ \E outcome \in {"count", "err"}, onTopic \in BOOLEAN :
         /\ outcome = "count" => onTopic
         /\ call' = [call EXCEPT ![b].rec[i] = outcome,
                                 ![b].onTopic = IF onTopic THEN @ \cup {i} ELSE @]
    /\ UNCHANGED <<run, cancelled, slots, pending, firstErr, flush>>

(* promise: failed.Store(true) *)
StoreFailed(b, i) ==
    /\ call[b].rec[i] = "err"
    /\ call' = [call EXCEPT ![b].rec[i] = "setErr", ![b].failed = TRUE]
    /\ UNCHANGED <<run, cancelled, slots, pending, firstErr, flush>>

\* Mutant: only the first failure of a batch looks at the sticky error.
setErrOnce(b, i) ==
    /\ call[b].rec[i] = "setErr"
    /\ call' = [call EXCEPT ![b].rec[i] = "count"]
    /\ firstErr' = IF firstErr = 0 /\ call[b].remaining = Size THEN call[b].of
                                                               ELSE firstErr
    /\ UNCHANGED <<run, cancelled, slots, pending, flush>>

(* promise: setErr keeps the first error. *)
setErr(b, i) ==
    /\ call[b].rec[i] = "setErr"
    /\ call' = [call EXCEPT ![b].rec[i] = "count"]
    /\ firstErr' = IF firstErr = 0 THEN call[b].of ELSE firstErr
    /\ UNCHANGED <<run, cancelled, slots, pending, flush>>

(* promise: remaining.Add(-1) == 0 makes this promise the last one. *)
CountDown(b, i) ==
    /\ call[b].rec[i] = "count"
    /\ call' = [call EXCEPT ![b].rec[i] = "end", ![b].remaining = @ - 1,
                  ![b].last = IF call[b].remaining = 1 THEN "free" ELSE @]
    /\ UNCHANGED <<run, cancelled, slots, pending, firstErr, flush>>

\* Mutant: only a batch that succeeded gives its slot back.
FreeSlotIfOk(b) ==
    /\ call[b].last = "free"
    /\ slots' = IF call[b].failed THEN slots ELSE slots - 1
    /\ call' = [call EXCEPT ![b].last = IF call[b].failed THEN "release" ELSE "done"]
    /\ UNCHANGED <<run, cancelled, pending, firstErr, flush>>

(* The last promise: <-s.inflight, then look at failed. *)
FreeSlot(b) ==
    /\ call[b].last = "free"
    /\ slots' = slots - 1
    /\ call' = [call EXCEPT ![b].last = IF call[b].failed THEN "release" ELSE "done"]
    /\ UNCHANGED <<run, cancelled, pending, firstErr, flush>>

\* Mutant: pending.Done() is deferred twice, by done's path too.
CallDoneReleases(b) ==
    /\ call[b].last = "done"
    /\ call' = [call EXCEPT ![b].dones = @ + 1, ![b].last = "release"]
    /\ pending' = pending - 1
    /\ UNCHANGED <<run, cancelled, slots, firstErr, flush>>

(* The last promise: done(positions) *)
CallDone(b) ==
    /\ call[b].last = "done"
    /\ call' = [call EXCEPT ![b].dones = @ + 1, ![b].last = "release"]
    /\ UNCHANGED <<run, cancelled, slots, pending, firstErr, flush>>

(* The last promise: pending.Done() *)
Release(b) ==
    /\ call[b].last = "release"
    /\ pending' = pending - 1
    /\ call' = [call EXCEPT ![b].last = "end"]
    /\ UNCHANGED <<run, cancelled, slots, firstErr, flush>>

----------------------------------------------------------------------------
FlushStep(from, to) ==
    /\ flush = from /\ flush' = to
    /\ UNCHANGED <<run, cancelled, call, slots, pending, firstErr>>

(* run() calls Flush when its publishers have ended. *)
Flush ==
    /\ \A b \in Batch : call[b].of = run => call[b].pc \in {"sent", "refused"}
    /\ FlushStep("no", "client")

(* Flush: cl.Flush returns, pending.Wait() returns, Err() is read ... *)
FlushClient ==
    /\ \A b \in Batch, i \in Record : call[b].rec[i] # "buffered"
    /\ FlushStep("client", "wait")

\* Mutant: Flush does not wait for the promises.
FlushWaitNot == FlushStep("wait", "read")

FlushWait == pending = 0 /\ FlushStep("wait", "read")

FlushErr == FlushStep("read", IF firstErr = 0 THEN "ok" ELSE "err")

(* ... or its context expires in one of the two waits. *)
FlushTimeout == \E from \in {"client", "wait"} : FlushStep(from, "err")

----------------------------------------------------------------------------
Call(b) ==
    PublishBatch(b) \/ TakeSlot(b) \/ GiveUp(b) \/ AddPending(b) \/ Produce(b)

Promise(b, i) ==
    Resolve(b, i) \/ StoreFailed(b, i) \/ setErr(b, i) \/ CountDown(b, i)

LastPromise(b) == FreeSlot(b) \/ CallDone(b) \/ Release(b)

Next ==
    \/ HardCancel \/ Reset
    \/ \E b \in Batch : Call(b) \/ LastPromise(b)
    \/ \E b \in Batch, i \in Record : Promise(b, i)
    \/ Flush \/ FlushClient \/ FlushWait \/ FlushErr \/ FlushTimeout

(* The goroutines of publishers and promises are scheduled, and the        *)
(* producer resolves every record it accepted.  A publisher that could     *)
(* take a slot again and again takes one (senders blocked on a Go channel  *)
(* are served in order).                                                   *)
Fairness ==
    /\ \A b \in Batch : /\ WF_vars(AddPending(b) \/ Produce(b) \/ LastPromise(b))
                        /\ SF_vars(TakeSlot(b))
    /\ \A b \in Batch, i \in Record : WF_vars(Promise(b, i))

Spec == Init /\ [][Next]_vars /\ Fairness

----------------------------------------------------------------------------
Submitted(b) == call[b].pc \in {"add", "produce", "sent"}

\* The sink's variables hold what the code can store there; the semaphore and
\* the wait group never go below zero nor beyond their batches.
TypeOK ==
    /\ run \in 1..MaxRuns /\ cancelled \in BOOLEAN
    /\ call \in [Batch ->
         [pc : {"new", "slot", "add", "produce", "sent", "refused"},
          of : 0..MaxRuns,
          rec : [Record -> {"none", "buffered", "err", "setErr", "count", "end"}],
          remaining : 0..Size, failed : BOOLEAN,
          last : {"none", "free", "done", "release", "end"},
          dones : Nat, onTopic : SUBSET Record]]
    /\ slots \in 0..MaxInflight /\ pending \in 0..Cardinality(Batch)
    /\ firstErr \in 0..MaxRuns
    /\ flush \in {"no", "client", "wait", "read", "ok", "err"}

\* A batch as the hyperloop sees it.
Outcome(c) ==
    CASE c.dones > 1 -> "twice"
      [] c.dones = 1 -> "done"
      [] c.dones = 0 /\ c.failed -> "failed"
      [] OTHER -> IF c.pc \in {"add", "produce", "sent"} THEN "sent" ELSE "new"

C == INSTANCE SinkContract WITH
        outcome <- [b \in Batch |-> Outcome(call[b])],
        durable <- [b \in Batch |-> call[b].onTopic = Record],
        mine <- {b \in Batch : Submitted(b) /\ call[b].of = run},
        flush <- IF flush \in {"ok", "err"} THEN flush ELSE "no"

\* The sink keeps the contract of hyperloop.go:36-61 although promises of several
\* records and batches, publishers, a cancelled context, a Flush and the batches
\* of an earlier run interleave: done exactly once, only for a batch that is
\* wholly durable, and before Flush returns nil.
ImplementsContract == C!Spec

\* "a subsequent PublishBatch or Flush call must return the error"
\* (hyperloop.go:43): once the promises of a failed batch of the run have run,
\* the sticky error is set, whatever other batches and runs do.
FailureSurfaces ==
    \A b \in Batch :
        (call[b].of = run /\ call[b].failed /\ call[b].remaining = 0)
          => firstErr # 0

\* In-flight slots are not leaked, by failed batches neither: a publisher that
\* waits for one gets it or is cancelled, and a submitted batch is dealt with.
SlotsComeBack ==
    \A b \in Batch :
        (call[b].pc = "slot") ~> (call[b].pc = "refused" \/ call[b].last = "end")
=============================================================================
