-------------------------- MODULE KafkaSinkProofs ---------------------------
(***************************************************************************)
(* For any number of batches, records, slots and runs, the Kafka sink      *)
(* keeps the contract of hyperloop.Sink, never leaks or over-releases its  *)
(* semaphore and its wait group, and never swallows a failure.             *)
(***************************************************************************)
EXTENDS KafkaSink, FiniteSetTheorems, TLAPS

Calls ==
    [pc : {"new", "slot", "add", "produce", "sent", "refused"},
     of : 0..MaxRuns,
     rec : [Record -> {"none", "buffered", "err", "setErr", "count", "end"}],
     remaining : 0..Size, failed : BOOLEAN,
     last : {"none", "free", "done", "release", "end"},
     dones : Nat, onTopic : SUBSET Record]

\* Records whose promise has not counted down yet.
Uncounted(c) == {i \in Record : c.rec[i] # "end"}

\* A record is produced only by a call that has its slot and has joined the wait
\* group, and a call returns only when all of its records are produced.
Produced(c) ==
    /\ c.pc \notin {"produce", "sent"} => \A i \in Record : c.rec[i] = "none"
    /\ c.pc = "produce" => \E i \in Record : c.rec[i] = "none"
    /\ c.pc = "sent" => \A i \in Record : c.rec[i] # "none"
    /\ c.pc # "new" => c.of # 0

\* The atomic counter: exactly one promise sees it reach 0.
Counted(c) ==
    /\ c.remaining = Cardinality(Uncounted(c))
    /\ c.last # "none" <=> c.remaining = 0

\* A promise that went past its error check is of a durable record, unless the
\* batch is marked failed; what the last promise did follows from the mark.
Judged(c) ==
    /\ \A i \in Record : c.rec[i] = "setErr" => c.failed
    /\ \A i \in Record : c.rec[i] \in {"count", "end"} => c.failed \/ i \in c.onTopic
    /\ c.failed => c.pc \in {"produce", "sent"}
    /\ c.last = "done" => ~c.failed
    /\ c.dones = IF c.last \in {"release", "end"} /\ ~c.failed THEN 1 ELSE 0

CallInv(c) == c \in Calls /\ Produced(c) /\ Counted(c) /\ Judged(c)

\* The calls that hold a slot, and those the wait group counts.
Holds(c) == c.pc \in {"add", "produce", "sent"} /\ c.last \in {"none", "free"}
Waits(c) == c.pc \in {"produce", "sent"} /\ c.last # "end"
Holders == {b \in Batch : Holds(call[b])}
Waited == {b \in Batch : Waits(call[b])}

\* Semaphore and wait group count calls, not events of their life.
Balanced ==
    /\ slots = Cardinality(Holders) /\ slots <= MaxInflight
    /\ pending = Cardinality(Waited)

\* A failed batch of the run has set the sticky error, or a promise of it is
\* about to.
Surfacing ==
    \A b \in Batch :
        (call[b].of = run /\ call[b].failed)
          => firstErr # 0 \/ \E i \in Record : call[b].rec[i] = "setErr"

\* From the call of Flush on, the run's calls of PublishBatch have returned, and
\* past the wait every one of them is over.
Flushing ==
    /\ flush # "no" => \A b \in Batch :
                          call[b].of = run => call[b].pc \in {"sent", "refused"}
    /\ flush = "read" => \A b \in Batch :
                          (call[b].of = run /\ call[b].pc = "sent") => call[b].last = "end"

Globals ==
    /\ run \in 1..MaxRuns /\ cancelled \in BOOLEAN /\ firstErr \in 0..MaxRuns
    /\ flush \in {"no", "client", "wait", "read", "ok", "err"}
    /\ call \in [Batch -> Calls] /\ \A b \in Batch : call[b].of <= run

\* The inductive invariant.
Inv ==
    /\ Globals /\ \A b \in Batch : CallInv(call[b])
    /\ Balanced /\ Surfacing /\ Flushing

----------------------------------------------------------------------------
\* 1 for true, 0 for false: what a call adds to a counter.
One(p) == IF p THEN 1 ELSE 0

\* A set that differs from another in b alone differs by one element at most.
LEMMA CountOne ==
    ASSUME NEW S, NEW T, NEW b, IsFiniteSet(S), \A x : x # b => (x \in S <=> x \in T)
    PROVE  /\ IsFiniteSet(T)
           /\ Cardinality(T) = Cardinality(S) + One(b \in T) - One(b \in S)
<1>1. Cardinality(S) \in Nat
  BY FS_CardinalityType
<1>2. CASE b \in S /\ b \in T
  <2>1. S = T
    BY <1>2
  <2> QED
    BY <1>1, <1>2, <2>1 DEF One
<1>3. CASE b \in S /\ b \notin T
  <2>1. T = S \ {b}
    BY <1>3
  <2> QED
    BY <1>1, <1>3, <2>1, FS_RemoveElement DEF One
<1>4. CASE b \notin S /\ b \in T
  <2>1. T = S \cup {b}
    BY <1>4
  <2> QED
    BY <1>1, <1>4, <2>1, FS_AddElement DEF One
<1>5. CASE b \notin S /\ b \notin T
  <2>1. S = T
    BY <1>5
  <2> QED
    BY <1>1, <1>5, <2>1 DEF One
<1> QED
  BY <1>2, <1>3, <1>4, <1>5

\* Record is finite, and so is every set of its members.
LEMMA RecordsFinite ==
    /\ IsFiniteSet(Record) /\ Cardinality(Record) = Size
    /\ \A S \in SUBSET Record : IsFiniteSet(S) /\ Cardinality(S) \in 0..Size
<1>1. IsFiniteSet(Record) /\ Cardinality(Record) = Size
  BY FS_Interval, SinkAssumption DEF Record
<1>2. ASSUME NEW S \in SUBSET Record
      PROVE  IsFiniteSet(S) /\ Cardinality(S) \in 0..Size
  <2>1. IsFiniteSet(S) /\ Cardinality(S) <= Size
    BY <1>1, FS_Subset
  <2>2. Cardinality(S) \in Nat
    BY <2>1, FS_CardinalityType
  <2> QED
    BY <2>1, <2>2, SinkAssumption
<1> QED
  BY <1>1, <1>2

\* The semaphore and the wait group count subsets of the calls.
LEMMA BatchesFinite ==
    \A S \in SUBSET Batch : /\ IsFiniteSet(S) /\ Cardinality(S) \in Nat
                            /\ Cardinality(S) <= Cardinality(Batch)
  BY SinkAssumption, FS_Subset, FS_CardinalityType

\* A call that has not begun has produced, counted and judged nothing.
LEMMA NewCallInv == CallInv(NewCall) /\ ~Holds(NewCall) /\ ~Waits(NewCall)
<1>1. NewCall \in Calls
  BY SinkAssumption DEF NewCall, Calls
<1>2. Uncounted(NewCall) = Record
  BY DEF NewCall, Uncounted
<1>3. Counted(NewCall)
  BY <1>2, RecordsFinite, SinkAssumption DEF Counted, NewCall
<1>4. Produced(NewCall) /\ Judged(NewCall)
  BY DEF NewCall, Produced, Judged
<1> QED
  BY <1>1, <1>3, <1>4 DEF CallInv, NewCall, Holds, Waits

\* A new sink (NewSink): no call has begun.
LEMMA InitInv == Init => Inv
<1> SUFFICES ASSUME Init PROVE Inv
  OBVIOUS
<1>1. \A b \in Batch : call[b] = NewCall
  BY DEF Init
<1>2. /\ NewCall \in Calls /\ NewCall.of = 0 /\ ~NewCall.failed
      /\ CallInv(NewCall) /\ ~Holds(NewCall) /\ ~Waits(NewCall)
  BY NewCallInv DEF CallInv, NewCall
<1>3. Globals
  <2>1. call \in [Batch -> Calls] /\ \A b \in Batch : call[b].of = 0
    BY <1>2 DEF Init
  <2>2. run \in 1..MaxRuns /\ firstErr \in 0..MaxRuns /\ run = 1
    BY SinkAssumption DEF Init
  <2>3. cancelled \in BOOLEAN /\ flush = "no"
    BY DEF Init
  <2> QED
    BY <2>1, <2>2, <2>3 DEF Globals
<1>4. Balanced
  <2>1. Holders = {} /\ Waited = {}
    BY <1>1, <1>2 DEF Holders, Waited
  <2> QED
    BY <2>1, FS_EmptySet, SinkAssumption DEF Init, Balanced
<1>5. Surfacing /\ Flushing
  BY <1>1, <1>2 DEF Init, Surfacing, Flushing
<1> QED
  BY <1>1, <1>2, <1>3, <1>4, <1>5 DEF Inv

\* A step that rewrites the call of b as d preserves the invariant, if d keeps
\* its own part, the counters move by what d adds to them, and the sticky error
\* and a Flush in progress are respected.
LEMMA RewriteCallInv ==
    ASSUME Inv, NEW b \in Batch, NEW d, CallInv(d), d.of <= run,
           call' = [call EXCEPT ![b] = d],
           UNCHANGED <<run, cancelled, flush>>,
           firstErr' \in 0..MaxRuns, firstErr # 0 => firstErr' # 0,
           slots' = slots + One(Holds(d)) - One(Holds(call[b])),
           slots' <= MaxInflight,
           pending' = pending + One(Waits(d)) - One(Waits(call[b])),
           (d.of = run /\ d.failed)
             => firstErr' # 0 \/ \E i \in Record : d.rec[i] = "setErr",
           (flush # "no" /\ d.of = run) => d.pc \in {"sent", "refused"},
           (flush = "read" /\ d.of = run /\ d.pc = "sent") => d.last = "end"
    PROVE  Inv'
<1>1. d \in Calls /\ call \in [Batch -> Calls]
  BY DEF CallInv, Inv, Globals
<1>2. /\ call' \in [Batch -> Calls] /\ call'[b] = d
      /\ \A a \in Batch : a # b => call'[a] = call[a]
  BY <1>1
<1>3. Globals'
  BY <1>2 DEF Inv, Globals
<1>4. \A a \in Batch : CallInv(call'[a])
  BY <1>2 DEF Inv
<1>5. Balanced'
  <2>1. Holders \in SUBSET Batch /\ Waited \in SUBSET Batch
    BY DEF Holders, Waited
  <2>2. IsFiniteSet(Holders) /\ IsFiniteSet(Waited)
    BY <2>1, BatchesFinite
  <2>3. /\ \A x : x # b => (x \in Holders <=> x \in Holders')
        /\ b \in Holders <=> Holds(call[b])
        /\ b \in Holders' <=> Holds(d)
    BY <1>2 DEF Holders
  <2>4. /\ \A x : x # b => (x \in Waited <=> x \in Waited')
        /\ b \in Waited <=> Waits(call[b])
        /\ b \in Waited' <=> Waits(d)
    BY <1>2 DEF Waited
  <2>5. Cardinality(Holders') = Cardinality(Holders) + One(b \in Holders') - One(b \in Holders)
    BY <2>2, <2>3, CountOne
  <2>6. Cardinality(Waited') = Cardinality(Waited) + One(b \in Waited') - One(b \in Waited)
    BY <2>2, <2>4, CountOne
  <2> QED
    BY <2>3, <2>4, <2>5, <2>6 DEF Inv, Balanced, One
<1>6. Surfacing'
  BY <1>2 DEF Inv, Surfacing
<1>7. Flushing'
  BY <1>2 DEF Inv, Flushing
<1> QED
  BY <1>3, <1>4, <1>5, <1>6, <1>7 DEF Inv

----------------------------------------------------------------------------
\* What the invariant says about the call of one batch.
LEMMA CallFacts ==
    ASSUME Inv, NEW b \in Batch
    PROVE  /\ CallInv(call[b]) /\ call[b] \in Calls /\ call \in [Batch -> Calls]
           /\ call[b].of <= run /\ run \in 1..MaxRuns /\ firstErr \in 0..MaxRuns
           /\ slots \in Int /\ pending \in Int /\ slots <= MaxInflight
<1>1. Holders \in SUBSET Batch /\ Waited \in SUBSET Batch
  BY DEF Holders, Waited
<1>2. Cardinality(Holders) \in Nat /\ Cardinality(Waited) \in Nat
  BY <1>1, BatchesFinite
<1> QED
  BY <1>2 DEF Inv, Globals, Balanced

\* PublishBatch up to its slot: the check of the sticky error, the refusals.
LEMMA BeginInv ==
    ASSUME Inv, NEW b \in Batch, NEW pc \in {"slot", "refused"}, NEW of \in 0..MaxRuns,
           call[b].pc \in {"new", "slot"}, of # 0, of <= run,
           pc = "slot" => flush = "no",
           call' = [call EXCEPT ![b] = [call[b] EXCEPT !.pc = pc, !.of = of]],
           UNCHANGED <<run, cancelled, slots, pending, firstErr, flush>>
    PROVE  Inv'
<1> DEFINE c == call[b]
           d == [c EXCEPT !.pc = pc, !.of = of]
<1>1. /\ CallInv(c) /\ c \in Calls /\ firstErr \in 0..MaxRuns
      /\ slots \in Int /\ pending \in Int /\ slots <= MaxInflight
  BY CallFacts
<1>2. /\ d \in Calls /\ d.pc = pc /\ d.of = of /\ d.rec = c.rec
      /\ d.remaining = c.remaining /\ d.failed = c.failed /\ d.last = c.last
      /\ d.dones = c.dones /\ d.onTopic = c.onTopic
  BY <1>1 DEF Calls
<1>3. call' = [call EXCEPT ![b] = d]
  OBVIOUS
<1> HIDE DEF c, d
<1>4. CallInv(d) /\ ~d.failed
  BY <1>1, <1>2 DEF c, CallInv, Produced, Counted, Judged, Uncounted
<1>5. ~Holds(d) /\ ~Holds(call[b]) /\ ~Waits(d) /\ ~Waits(call[b])
  BY <1>2 DEF c, Holds, Waits
<1>6. /\ slots' = slots + One(Holds(d)) - One(Holds(call[b])) /\ slots' <= MaxInflight
      /\ pending' = pending + One(Waits(d)) - One(Waits(call[b]))
  BY <1>1, <1>5 DEF One
<1> QED
  BY <1>1, <1>2, <1>3, <1>4, <1>6, RewriteCallInv

\* PublishBatch passes or fails its first checks.
LEMMA PublishBatchInv ==
    ASSUME Inv, NEW b \in Batch, PublishBatch(b)
    PROVE  Inv'
<1>1. PICK pc \in {"slot", "refused"} : call' = [call EXCEPT ![b].pc = pc, ![b].of = run]
  BY DEF PublishBatch
<1>2. call[b] \in Calls /\ run \in 1..MaxRuns
  BY CallFacts
<1>3. call' = [call EXCEPT ![b] = [call[b] EXCEPT !.pc = pc, !.of = run]]
  BY <1>1
<1>4. run \in 0..MaxRuns /\ run # 0 /\ run <= run
  BY <1>2
<1>5. /\ UNCHANGED <<run, cancelled, slots, pending, firstErr, flush>>
      /\ call[b].pc = "new" /\ flush = "no"
  BY DEF PublishBatch
<1> QED
  BY <1>3, <1>4, <1>5, BeginInv

\* PublishBatch gives up waiting for a slot: its context ended.
LEMMA GiveUpInv ==
    ASSUME Inv, NEW b \in Batch, GiveUp(b)
    PROVE  Inv'
<1>1. CallInv(call[b]) /\ call[b] \in Calls /\ call[b].of <= run
  BY CallFacts
<1>2. call' = [call EXCEPT ![b] = [call[b] EXCEPT !.pc = "refused", !.of = call[b].of]]
  BY <1>1 DEF GiveUp, Calls
<1>3. call[b].of \in 0..MaxRuns /\ call[b].of # 0
  BY <1>1 DEF GiveUp, CallInv, Produced, Calls
<1>4. /\ UNCHANGED <<run, cancelled, slots, pending, firstErr, flush>>
      /\ call[b].pc = "slot"
  BY DEF GiveUp
<1> QED
  BY <1>1, <1>2, <1>3, <1>4, BeginInv

\* PublishBatch takes its slot (s.inflight <- struct{}{}).
LEMMA TakeSlotInv ==
    ASSUME Inv, NEW b \in Batch, TakeSlot(b)
    PROVE  Inv'
<1> DEFINE c == call[b]
           d == [c EXCEPT !.pc = "add"]
<1>1. /\ CallInv(c) /\ c \in Calls /\ c.of <= run /\ firstErr \in 0..MaxRuns
      /\ slots \in Int /\ pending \in Int
  BY CallFacts
<1>2. /\ call' = [call EXCEPT ![b] = d] /\ c.pc = "slot"
      /\ slots' = slots + 1 /\ slots < MaxInflight
      /\ UNCHANGED <<run, cancelled, pending, firstErr, flush>>
  BY DEF TakeSlot
<1>3. /\ d \in Calls /\ d.pc = "add" /\ d.of = c.of /\ d.rec = c.rec
      /\ d.remaining = c.remaining /\ d.failed = c.failed /\ d.last = c.last
      /\ d.dones = c.dones /\ d.onTopic = c.onTopic
  BY <1>1 DEF Calls
<1> HIDE DEF c, d
<1>4. CallInv(d) /\ ~d.failed
  BY <1>1, <1>2, <1>3 DEF CallInv, Produced, Counted, Judged, Uncounted
<1>5. d.last = "none"
  <2>1. Uncounted(c) = Record
    BY <1>1, <1>2 DEF Uncounted, CallInv, Produced
  <2> QED
    BY <1>1, <1>3, <2>1, RecordsFinite, SinkAssumption DEF CallInv, Counted
<1>6. Holds(d) /\ ~Holds(call[b]) /\ ~Waits(d) /\ ~Waits(call[b])
  BY <1>2, <1>3, <1>5 DEF c, Holds, Waits
<1>7. (flush # "no" /\ c.of = run) => c.pc \in {"sent", "refused"}
  BY DEF c, Inv, Flushing
<1>8. /\ slots' = slots + One(Holds(d)) - One(Holds(call[b])) /\ slots' <= MaxInflight
      /\ pending' = pending + One(Waits(d)) - One(Waits(call[b]))
  BY <1>1, <1>2, <1>6, SinkAssumption DEF One
<1> QED
  BY <1>1, <1>2, <1>3, <1>4, <1>7, <1>8, RewriteCallInv

\* PublishBatch joins the wait group (pending.Add(1)).
LEMMA AddPendingInv ==
    ASSUME Inv, NEW b \in Batch, AddPending(b)
    PROVE  Inv'
<1> DEFINE c == call[b]
           d == [c EXCEPT !.pc = "produce"]
<1>1. /\ CallInv(c) /\ c \in Calls /\ c.of <= run /\ firstErr \in 0..MaxRuns
      /\ slots \in Int /\ pending \in Int /\ slots <= MaxInflight
  BY CallFacts
<1>2. /\ call' = [call EXCEPT ![b] = d] /\ c.pc = "add"
      /\ pending' = pending + 1
      /\ UNCHANGED <<run, cancelled, slots, firstErr, flush>>
  BY DEF AddPending
<1>3. /\ d \in Calls /\ d.pc = "produce" /\ d.of = c.of /\ d.rec = c.rec
      /\ d.remaining = c.remaining /\ d.failed = c.failed /\ d.last = c.last
      /\ d.dones = c.dones /\ d.onTopic = c.onTopic
  BY <1>1 DEF Calls
<1> HIDE DEF c, d
<1>4. CallInv(d) /\ ~d.failed
  <2>1. 1 \in Record
    BY SinkAssumption DEF Record
  <2> QED
    BY <1>1, <1>2, <1>3, <2>1 DEF CallInv, Produced, Counted, Judged, Uncounted
<1>5. d.last = "none"
  <2>1. Uncounted(c) = Record
    BY <1>1, <1>2 DEF Uncounted, CallInv, Produced
  <2> QED
    BY <1>1, <1>3, <2>1, RecordsFinite, SinkAssumption DEF CallInv, Counted
<1>6. Holds(d) /\ Holds(call[b]) /\ Waits(d) /\ ~Waits(call[b])
  BY <1>2, <1>3, <1>5 DEF c, Holds, Waits
<1>7. (flush # "no" /\ c.of = run) => c.pc \in {"sent", "refused"}
  BY DEF c, Inv, Flushing
<1>8. /\ slots' = slots + One(Holds(d)) - One(Holds(call[b])) /\ slots' <= MaxInflight
      /\ pending' = pending + One(Waits(d)) - One(Waits(call[b]))
  BY <1>1, <1>2, <1>6 DEF One
<1> QED
  BY <1>1, <1>2, <1>3, <1>4, <1>7, <1>8, RewriteCallInv

\* As long as a promise has not counted down, none is the last one.
LEMMA OpenPromise ==
    ASSUME NEW c, CallInv(c), NEW i \in Record, c.rec[i] # "end"
    PROVE  c.last = "none" /\ c.dones = 0
<1>1. Uncounted(c) \in SUBSET Record /\ Uncounted(c) # {}
  BY DEF Uncounted
<1>2. IsFiniteSet(Uncounted(c)) /\ Cardinality(Uncounted(c)) # 0
  BY <1>1, RecordsFinite, FS_EmptySet
<1> QED
  BY <1>2 DEF CallInv, Counted, Judged

\* When there is a last promise, the call has returned and all promises have
\* counted down.
LEMMA LastPromiseAlone ==
    ASSUME NEW c, CallInv(c), c.last # "none"
    PROVE  c.pc = "sent" /\ \A i \in Record : c.rec[i] = "end"
<1>1. \A i \in Record : c.rec[i] = "end"
  BY OpenPromise
<1>2. 1 \in Record
  BY SinkAssumption DEF Record
<1>3. c.rec[1] = "end" /\ c \in Calls
  BY <1>1, <1>2 DEF CallInv
<1>4. c.pc # "produce" /\ c.pc \in {"produce", "sent"}
  BY <1>1, <1>2, <1>3 DEF CallInv, Produced
<1> QED
  BY <1>1, <1>4

\* A step of a call or of a promise that leaves semaphore and wait group alone.
LEMMA QuietInv ==
    ASSUME Inv, NEW b \in Batch, NEW d, CallInv(d), d.of = call[b].of,
           call' = [call EXCEPT ![b] = d],
           UNCHANGED <<run, cancelled, slots, pending, flush>>,
           firstErr' \in 0..MaxRuns, firstErr # 0 => firstErr' # 0,
           Holds(d) <=> Holds(call[b]), Waits(d) <=> Waits(call[b]),
           d.pc = call[b].pc \/ call[b].pc = "produce",
           call[b].last = "end" => d.last = "end",
           (d.of = run /\ d.failed)
             => firstErr' # 0 \/ \E i \in Record : d.rec[i] = "setErr"
    PROVE  Inv'
<1>1. /\ call[b].of <= run /\ slots \in Int /\ pending \in Int /\ slots <= MaxInflight
  BY CallFacts
<1>2. /\ (flush # "no" /\ call[b].of = run) => call[b].pc \in {"sent", "refused"}
      /\ (flush = "read" /\ call[b].of = run /\ call[b].pc = "sent")
           => call[b].last = "end"
  BY DEF Inv, Flushing
<1>3. /\ (flush # "no" /\ d.of = run) => d.pc \in {"sent", "refused"}
      /\ (flush = "read" /\ d.of = run /\ d.pc = "sent") => d.last = "end"
  BY <1>2
<1>4. /\ slots' = slots + One(Holds(d)) - One(Holds(call[b])) /\ slots' <= MaxInflight
      /\ pending' = pending + One(Waits(d)) - One(Waits(call[b]))
  BY <1>1 DEF One
<1> QED
  BY <1>1, <1>3, <1>4, RewriteCallInv

\* PublishBatch hands a record to the producer, and returns after the last.
LEMMA ProduceInv ==
    ASSUME Inv, NEW b \in Batch, Produce(b)
    PROVE  Inv'
<1> DEFINE c == call[b]
<1>1. CallInv(c) /\ c \in Calls /\ firstErr \in 0..MaxRuns
  BY CallFacts
<1>2. PICK i \in Record :
        /\ {j \in Record : c.rec[j] = "none"} = i..Size
        /\ call' = [call EXCEPT ![b].rec[i] = "buffered",
                                ![b].pc = IF i = Size THEN "sent" ELSE @]
  BY DEF Produce
<1> DEFINE d == [c EXCEPT !.rec = [c.rec EXCEPT ![i] = "buffered"],
                          !.pc = IF i = Size THEN "sent" ELSE "produce"]
<1>3. /\ c.pc = "produce" /\ UNCHANGED <<run, cancelled, slots, pending, firstErr, flush>>
  BY DEF Produce
<1>4. call' = [call EXCEPT ![b] = d]
  BY <1>2, <1>3
<1>5. /\ d \in Calls /\ d.pc = (IF i = Size THEN "sent" ELSE "produce")
      /\ d.of = c.of /\ d.rec = [c.rec EXCEPT ![i] = "buffered"]
      /\ d.remaining = c.remaining /\ d.failed = c.failed /\ d.last = c.last
      /\ d.dones = c.dones /\ d.onTopic = c.onTopic
  BY <1>1 DEF Calls
<1>6. /\ d.rec[i] = "buffered" /\ \A j \in Record : j # i => d.rec[j] = c.rec[j]
      /\ c.rec[i] = "none"
  <2>1. i \in i..Size
    BY SinkAssumption DEF Record
  <2> QED
    BY <1>1, <1>2, <1>5, <2>1 DEF Calls
<1>7. Produced(d)
  <2>1. CASE i = Size
    <3>1. \A j \in Record : j # i => c.rec[j] # "none"
      BY <1>2, <2>1, SinkAssumption DEF Record
    <3> QED
      BY <1>1, <1>3, <1>5, <1>6, <2>1, <3>1 DEF Produced, CallInv
  <2>2. CASE i # Size
    <3>1. i + 1 \in i..Size /\ i + 1 \in Record /\ i + 1 # i
      BY <2>2, SinkAssumption DEF Record
    <3>2. d.rec[i + 1] = "none"
      BY <1>2, <1>6, <3>1
    <3> QED
      BY <1>1, <1>3, <1>5, <2>2, <3>1, <3>2 DEF Produced, CallInv
  <2> QED
    BY <2>1, <2>2
<1> HIDE DEF c, d
<1>8. Counted(d)
  <2>1. Uncounted(d) = Uncounted(c)
    BY <1>6 DEF Uncounted
  <2> QED
    BY <1>1, <1>5, <2>1 DEF CallInv, Counted
<1>9. Judged(d)
  BY <1>1, <1>3, <1>5, <1>6 DEF CallInv, Judged
<1>10. CallInv(d)
  BY <1>5, <1>7, <1>8, <1>9 DEF CallInv
<1>11. (Holds(d) <=> Holds(call[b])) /\ (Waits(d) <=> Waits(call[b]))
  BY <1>3, <1>5 DEF c, Holds, Waits
<1>12. (d.of = run /\ d.failed) => firstErr # 0 \/ \E j \in Record : d.rec[j] = "setErr"
  <2>1. (c.of = run /\ c.failed) => firstErr # 0 \/ \E j \in Record : c.rec[j] = "setErr"
    BY DEF c, Inv, Surfacing
  <2>2. \A j \in Record : c.rec[j] = "setErr" => d.rec[j] = "setErr"
    BY <1>6
  <2> QED
    BY <1>5, <2>1, <2>2
<1> QED
  BY <1>1, <1>3, <1>4, <1>5, <1>10, <1>11, <1>12, QuietInv DEF c

\* The producer resolves a record.
LEMMA ResolveInv ==
    ASSUME Inv, NEW b \in Batch, NEW i \in Record, Resolve(b, i)
    PROVE  Inv'
<1> DEFINE c == call[b]
<1>1. CallInv(c) /\ c \in Calls /\ firstErr \in 0..MaxRuns
  BY CallFacts
<1>2. PICK outcome \in {"count", "err"}, onTopic \in BOOLEAN :
        /\ outcome = "count" => onTopic
        /\ call' = [call EXCEPT ![b].rec[i] = outcome,
                                ![b].onTopic = IF onTopic THEN @ \cup {i} ELSE @]
  BY DEF Resolve
<1> DEFINE d == [c EXCEPT !.rec = [c.rec EXCEPT ![i] = outcome],
                          !.onTopic = IF onTopic THEN c.onTopic \cup {i} ELSE c.onTopic]
<1>3. /\ c.rec[i] = "buffered"
      /\ UNCHANGED <<run, cancelled, slots, pending, firstErr, flush>>
  BY DEF Resolve
<1>4. call' = [call EXCEPT ![b] = d]
  BY <1>2
<1>5. /\ d \in Calls /\ d.pc = c.pc /\ d.of = c.of
      /\ d.rec = [c.rec EXCEPT ![i] = outcome]
      /\ d.remaining = c.remaining /\ d.failed = c.failed /\ d.last = c.last
      /\ d.dones = c.dones /\ c.onTopic \subseteq d.onTopic
      /\ onTopic => i \in d.onTopic
  BY <1>1 DEF Calls
<1>6. d.rec[i] = outcome /\ \A j \in Record : j # i => d.rec[j] = c.rec[j]
  BY <1>1, <1>5 DEF Calls
<1> HIDE DEF c, d
<1>7. Produced(d)
  BY <1>1, <1>3, <1>5, <1>6 DEF CallInv, Produced
<1>8. Counted(d)
  <2>1. Uncounted(d) = Uncounted(c)
    BY <1>3, <1>6 DEF Uncounted
  <2> QED
    BY <1>1, <1>5, <2>1 DEF CallInv, Counted
<1>9. Judged(d)
  BY <1>1, <1>2, <1>3, <1>5, <1>6 DEF CallInv, Judged
<1>10. CallInv(d)
  BY <1>5, <1>7, <1>8, <1>9 DEF CallInv
<1>11. (Holds(d) <=> Holds(call[b])) /\ (Waits(d) <=> Waits(call[b]))
  BY <1>5 DEF c, Holds, Waits
<1>12. (d.of = run /\ d.failed) => firstErr # 0 \/ \E j \in Record : d.rec[j] = "setErr"
  <2>1. (c.of = run /\ c.failed) => firstErr # 0 \/ \E j \in Record : c.rec[j] = "setErr"
    BY DEF c, Inv, Surfacing
  <2> QED
    BY <1>3, <1>5, <1>6, <2>1
<1> QED
  BY <1>1, <1>3, <1>4, <1>5, <1>10, <1>11, <1>12, QuietInv DEF c

\* A promise with an error marks its batch failed, before it sets the sticky
\* error.
LEMMA StoreFailedInv ==
    ASSUME Inv, NEW b \in Batch, NEW i \in Record, StoreFailed(b, i)
    PROVE  Inv'
<1> DEFINE c == call[b]
           d == [c EXCEPT !.rec = [c.rec EXCEPT ![i] = "setErr"], !.failed = TRUE]
<1>1. CallInv(c) /\ c \in Calls /\ firstErr \in 0..MaxRuns
  BY CallFacts
<1>2. /\ call' = [call EXCEPT ![b] = d] /\ c.rec[i] = "err"
      /\ UNCHANGED <<run, cancelled, slots, pending, firstErr, flush>>
  BY DEF StoreFailed
<1>3. /\ d \in Calls /\ d.pc = c.pc /\ d.of = c.of
      /\ d.rec = [c.rec EXCEPT ![i] = "setErr"]
      /\ d.remaining = c.remaining /\ d.failed = TRUE /\ d.last = c.last
      /\ d.dones = c.dones /\ d.onTopic = c.onTopic
  BY <1>1 DEF Calls
<1>4. d.rec[i] = "setErr" /\ \A j \in Record : j # i => d.rec[j] = c.rec[j]
  BY <1>1, <1>3 DEF Calls
<1> HIDE DEF c, d
<1>5. c.last = "none" /\ c.dones = 0 /\ c.pc \in {"produce", "sent"}
  BY <1>1, <1>2, OpenPromise DEF CallInv, Produced
<1>6. Produced(d)
  BY <1>1, <1>2, <1>3, <1>4 DEF CallInv, Produced
<1>7. Counted(d)
  <2>1. Uncounted(d) = Uncounted(c)
    BY <1>2, <1>4 DEF Uncounted
  <2> QED
    BY <1>1, <1>3, <2>1 DEF CallInv, Counted
<1>8. Judged(d)
  BY <1>3, <1>5 DEF Judged
<1>9. CallInv(d)
  BY <1>3, <1>6, <1>7, <1>8 DEF CallInv
<1>10. (Holds(d) <=> Holds(call[b])) /\ (Waits(d) <=> Waits(call[b]))
  BY <1>3 DEF c, Holds, Waits
<1> QED
  BY <1>1, <1>2, <1>3, <1>4, <1>9, <1>10, QuietInv DEF c

\* A promise with an error sets the sticky error, if it is the first.
LEMMA setErrInv ==
    ASSUME Inv, NEW b \in Batch, NEW i \in Record, setErr(b, i)
    PROVE  Inv'
<1> DEFINE c == call[b]
           d == [c EXCEPT !.rec = [c.rec EXCEPT ![i] = "count"]]
<1>1. CallInv(c) /\ c \in Calls /\ firstErr \in 0..MaxRuns
  BY CallFacts
<1>2. /\ call' = [call EXCEPT ![b] = d] /\ c.rec[i] = "setErr"
      /\ firstErr' = (IF firstErr = 0 THEN c.of ELSE firstErr)
      /\ UNCHANGED <<run, cancelled, slots, pending, flush>>
  BY DEF setErr
<1>3. /\ d \in Calls /\ d.pc = c.pc /\ d.of = c.of
      /\ d.rec = [c.rec EXCEPT ![i] = "count"]
      /\ d.remaining = c.remaining /\ d.failed = c.failed /\ d.last = c.last
      /\ d.dones = c.dones /\ d.onTopic = c.onTopic
  BY <1>1 DEF Calls
<1>4. d.rec[i] = "count" /\ \A j \in Record : j # i => d.rec[j] = c.rec[j]
  BY <1>1, <1>3 DEF Calls
<1> HIDE DEF c, d
<1>5. c.failed /\ c.pc \in {"produce", "sent"} /\ c.of # 0
  BY <1>1, <1>2 DEF CallInv, Produced, Judged
<1>6. Produced(d)
  BY <1>1, <1>2, <1>3, <1>4 DEF CallInv, Produced
<1>7. Counted(d)
  <2>1. Uncounted(d) = Uncounted(c)
    BY <1>2, <1>4 DEF Uncounted
  <2> QED
    BY <1>1, <1>3, <2>1 DEF CallInv, Counted
<1>8. Judged(d)
  BY <1>1, <1>3, <1>5 DEF CallInv, Judged
<1>9. CallInv(d)
  BY <1>3, <1>6, <1>7, <1>8 DEF CallInv
<1>10. (Holds(d) <=> Holds(call[b])) /\ (Waits(d) <=> Waits(call[b]))
  BY <1>3 DEF c, Holds, Waits
<1>11. firstErr' # 0 /\ firstErr' \in 0..MaxRuns
  BY <1>1, <1>2, <1>5 DEF Calls
<1> QED
  BY <1>2, <1>3, <1>9, <1>10, <1>11, QuietInv DEF c

\* A promise counts down, and is the last one when the count is 0.
LEMMA CountDownInv ==
    ASSUME Inv, NEW b \in Batch, NEW i \in Record, CountDown(b, i)
    PROVE  Inv'
<1> DEFINE c == call[b]
           last == IF c.remaining = 1 THEN "free" ELSE c.last
           d == [c EXCEPT !.rec = [c.rec EXCEPT ![i] = "end"],
                          !.remaining = c.remaining - 1, !.last = last]
<1>1. CallInv(c) /\ c \in Calls /\ firstErr \in 0..MaxRuns
  BY CallFacts
<1>2. /\ call' = [call EXCEPT ![b] = d] /\ c.rec[i] = "count"
      /\ UNCHANGED <<run, cancelled, slots, pending, firstErr, flush>>
  BY DEF CountDown
<1>3. c.last = "none" /\ c.dones = 0
  BY <1>1, <1>2, OpenPromise
<1>4. c.remaining \in 1..Size
  BY <1>1, <1>3, SinkAssumption DEF CallInv, Counted, Calls
<1>5. /\ d \in Calls /\ d.pc = c.pc /\ d.of = c.of
      /\ d.rec = [c.rec EXCEPT ![i] = "end"]
      /\ d.remaining = c.remaining - 1 /\ d.failed = c.failed
      /\ d.last = (IF c.remaining = 1 THEN "free" ELSE "none")
      /\ d.dones = c.dones /\ d.onTopic = c.onTopic
  <2>1. c.remaining - 1 \in 0..Size
    BY <1>4, SinkAssumption
  <2>2. last \in {"none", "free"} /\ last = (IF c.remaining = 1 THEN "free" ELSE "none")
    BY <1>3
  <2>3. [c.rec EXCEPT ![i] = "end"]
          \in [Record -> {"none", "buffered", "err", "setErr", "count", "end"}]
    BY <1>1 DEF Calls
  <2> HIDE DEF last
  <2> QED
    BY <1>1, <2>1, <2>2, <2>3 DEF Calls
<1>6. d.rec[i] = "end" /\ \A j \in Record : j # i => d.rec[j] = c.rec[j]
  BY <1>1, <1>5 DEF Calls
<1> HIDE DEF c, d
<1>7. Produced(d)
  BY <1>1, <1>2, <1>5, <1>6 DEF CallInv, Produced
<1>8. Counted(d)
  <2>1. Uncounted(d) = Uncounted(c) \ {i} /\ i \in Uncounted(c)
    BY <1>2, <1>6 DEF Uncounted
  <2>2. IsFiniteSet(Uncounted(c))
    BY RecordsFinite DEF Uncounted
  <2>3. Cardinality(Uncounted(d)) = Cardinality(Uncounted(c)) - 1
    BY <2>1, <2>2, FS_RemoveElement
  <2> QED
    BY <1>1, <1>4, <1>5, <2>3 DEF CallInv, Counted
<1>9. Judged(d)
  BY <1>1, <1>2, <1>3, <1>5, <1>6 DEF CallInv, Judged
<1>10. CallInv(d)
  BY <1>5, <1>7, <1>8, <1>9 DEF CallInv
<1>11. (Holds(d) <=> Holds(call[b])) /\ (Waits(d) <=> Waits(call[b]))
  BY <1>3, <1>5 DEF c, Holds, Waits
<1>12. (d.of = run /\ d.failed) => firstErr # 0 \/ \E j \in Record : d.rec[j] = "setErr"
  <2>1. (c.of = run /\ c.failed) => firstErr # 0 \/ \E j \in Record : c.rec[j] = "setErr"
    BY DEF c, Inv, Surfacing
  <2> QED
    BY <1>2, <1>5, <1>6, <2>1
<1> QED
  BY <1>1, <1>2, <1>3, <1>5, <1>10, <1>11, <1>12, QuietInv DEF c

\* The last promise frees the slot.
LEMMA FreeSlotInv ==
    ASSUME Inv, NEW b \in Batch, FreeSlot(b)
    PROVE  Inv'
<1> DEFINE c == call[b]
           d == [c EXCEPT !.last = IF c.failed THEN "release" ELSE "done"]
<1>1. /\ CallInv(c) /\ c \in Calls /\ c.of <= run /\ firstErr \in 0..MaxRuns
      /\ slots \in Int /\ pending \in Int /\ slots <= MaxInflight
  BY CallFacts
<1>2. /\ call' = [call EXCEPT ![b] = d] /\ c.last = "free" /\ slots' = slots - 1
      /\ UNCHANGED <<run, cancelled, pending, firstErr, flush>>
  BY DEF FreeSlot
<1>3. /\ d \in Calls /\ d.pc = c.pc /\ d.of = c.of /\ d.rec = c.rec
      /\ d.remaining = c.remaining /\ d.failed = c.failed
      /\ d.last = (IF c.failed THEN "release" ELSE "done")
      /\ d.dones = c.dones /\ d.onTopic = c.onTopic
  BY <1>1 DEF Calls
<1> HIDE DEF c, d
<1>4. c.pc = "sent"
  BY <1>1, <1>2, LastPromiseAlone
<1>5. CallInv(d)
  BY <1>1, <1>2, <1>3 DEF CallInv, Produced, Counted, Judged, Uncounted
<1>6. Holds(call[b]) /\ ~Holds(d) /\ Waits(d) /\ Waits(call[b])
  BY <1>2, <1>3, <1>4 DEF c, Holds, Waits
<1>7. /\ slots' = slots + One(Holds(d)) - One(Holds(call[b])) /\ slots' <= MaxInflight
      /\ pending' = pending + One(Waits(d)) - One(Waits(call[b]))
  BY <1>1, <1>2, <1>6, SinkAssumption DEF One
<1>8. /\ (d.of = run /\ d.failed) => firstErr # 0 \/ \E j \in Record : d.rec[j] = "setErr"
      /\ (flush = "read" /\ d.of = run /\ d.pc = "sent") => d.last = "end"
  BY <1>2, <1>3, <1>4 DEF c, Inv, Surfacing, Flushing
<1> QED
  BY <1>1, <1>2, <1>3, <1>4, <1>5, <1>7, <1>8, RewriteCallInv

\* The last promise calls done.
LEMMA CallDoneInv ==
    ASSUME Inv, NEW b \in Batch, CallDone(b)
    PROVE  Inv'
<1> DEFINE c == call[b]
           d == [c EXCEPT !.dones = c.dones + 1, !.last = "release"]
<1>1. CallInv(c) /\ c \in Calls /\ firstErr \in 0..MaxRuns
  BY CallFacts
<1>2. /\ call' = [call EXCEPT ![b] = d] /\ c.last = "done"
      /\ UNCHANGED <<run, cancelled, slots, pending, firstErr, flush>>
  BY DEF CallDone
<1>3. /\ d \in Calls /\ d.pc = c.pc /\ d.of = c.of /\ d.rec = c.rec
      /\ d.remaining = c.remaining /\ d.failed = c.failed /\ d.last = "release"
      /\ d.dones = c.dones + 1 /\ d.onTopic = c.onTopic
  <2>1. c.dones + 1 \in Nat
    BY <1>1 DEF Calls
  <2> QED
    BY <1>1, <2>1 DEF Calls
<1> HIDE DEF c, d
<1>4. CallInv(d)
  BY <1>1, <1>2, <1>3 DEF CallInv, Produced, Counted, Judged, Uncounted
<1>5. (Holds(d) <=> Holds(call[b])) /\ (Waits(d) <=> Waits(call[b]))
  BY <1>2, <1>3 DEF c, Holds, Waits
<1>6. ~d.failed
  BY <1>1, <1>2, <1>3 DEF CallInv, Judged
<1> QED
  BY <1>1, <1>2, <1>3, <1>4, <1>5, <1>6, QuietInv DEF c

\* The last promise releases Flush (pending.Done()).
LEMMA ReleaseInv ==
    ASSUME Inv, NEW b \in Batch, Release(b)
    PROVE  Inv'
<1> DEFINE c == call[b]
           d == [c EXCEPT !.last = "end"]
<1>1. /\ CallInv(c) /\ c \in Calls /\ c.of <= run /\ firstErr \in 0..MaxRuns
      /\ slots \in Int /\ pending \in Int /\ slots <= MaxInflight
  BY CallFacts
<1>2. /\ call' = [call EXCEPT ![b] = d] /\ c.last = "release" /\ pending' = pending - 1
      /\ UNCHANGED <<run, cancelled, slots, firstErr, flush>>
  BY DEF Release
<1>3. /\ d \in Calls /\ d.pc = c.pc /\ d.of = c.of /\ d.rec = c.rec
      /\ d.remaining = c.remaining /\ d.failed = c.failed /\ d.last = "end"
      /\ d.dones = c.dones /\ d.onTopic = c.onTopic
  BY <1>1 DEF Calls
<1> HIDE DEF c, d
<1>4. c.pc = "sent"
  BY <1>1, <1>2, LastPromiseAlone
<1>5. CallInv(d)
  BY <1>1, <1>2, <1>3 DEF CallInv, Produced, Counted, Judged, Uncounted
<1>6. ~Holds(call[b]) /\ ~Holds(d) /\ ~Waits(d) /\ Waits(call[b])
  BY <1>2, <1>3, <1>4 DEF c, Holds, Waits
<1>7. /\ slots' = slots + One(Holds(d)) - One(Holds(call[b])) /\ slots' <= MaxInflight
      /\ pending' = pending + One(Waits(d)) - One(Waits(call[b]))
  BY <1>1, <1>2, <1>6 DEF One
<1>8. (d.of = run /\ d.failed) => firstErr # 0 \/ \E j \in Record : d.rec[j] = "setErr"
  BY <1>3 DEF c, Inv, Surfacing
<1> QED
  BY <1>1, <1>2, <1>3, <1>4, <1>5, <1>7, <1>8, RewriteCallInv

----------------------------------------------------------------------------
\* Reset begins a run: no batch is its own yet.
LEMMA ResetInv == Inv /\ Reset => Inv'
<1> SUFFICES ASSUME Inv, Reset PROVE Inv'
  OBVIOUS
<1>1. /\ run < MaxRuns /\ run' = run + 1 /\ cancelled' = FALSE /\ flush' = "no"
      /\ firstErr' = 0 /\ UNCHANGED <<call, slots, pending>>
  BY DEF Reset
<1>2. /\ run \in 1..MaxRuns /\ call \in [Batch -> Calls]
      /\ \A b \in Batch : call[b].of \in 0..MaxRuns /\ call[b].of <= run
  BY DEF Inv, Globals, Calls
<1>3. \A b \in Batch : call[b].of # run' /\ call[b].of <= run'
  BY <1>1, <1>2
<1>4. Globals'
  <2>1. run' \in 1..MaxRuns /\ firstErr' \in 0..MaxRuns
    BY <1>1, <1>2, SinkAssumption
  <2> QED
    BY <1>1, <1>2, <1>3, <2>1 DEF Globals
<1>5. Balanced' /\ \A b \in Batch : CallInv(call'[b])
  BY <1>1 DEF Inv, Balanced, Holders, Waited
<1>6. Surfacing' /\ Flushing'
  BY <1>1, <1>3 DEF Surfacing, Flushing
<1> QED
  BY <1>4, <1>5, <1>6 DEF Inv

\* The steps of Flush, and the cancellation of the run's context.
LEMMA FlushInv ==
    Inv /\ (HardCancel \/ Flush \/ FlushClient \/ FlushWait \/ FlushErr \/ FlushTimeout)
      => Inv'
<1> SUFFICES ASSUME Inv, HardCancel \/ Flush \/ FlushClient \/ FlushWait \/ FlushErr
                           \/ FlushTimeout
             PROVE  Inv'
  OBVIOUS
<1>1. UNCHANGED <<run, call, slots, pending, firstErr>>
  BY DEF HardCancel, Flush, FlushClient, FlushWait, FlushErr, FlushTimeout, FlushStep
<1>2. Globals'
  BY <1>1 DEF Inv, Globals, HardCancel, Flush, FlushClient, FlushWait, FlushErr,
              FlushTimeout, FlushStep
<1>3. Balanced' /\ Surfacing' /\ \A b \in Batch : CallInv(call'[b])
  BY <1>1 DEF Inv, Balanced, Holders, Waited, Surfacing
<1>4. Flushing'
  <2>1. CASE FlushWait
    <3>1. pending = 0 /\ flush = "wait" /\ flush' = "read"
      BY <2>1 DEF FlushWait, FlushStep
    <3>2. Waited = {}
      <4>1. IsFiniteSet(Waited)
        BY BatchesFinite DEF Waited
      <4> QED
        BY <3>1, <4>1, FS_EmptySet DEF Inv, Balanced
    <3> QED
      BY <1>1, <3>1, <3>2 DEF Inv, Flushing, Waited, Waits
  <2>2. CASE ~FlushWait
    BY <1>1, <2>2 DEF Inv, Flushing, HardCancel, Flush, FlushClient, FlushErr,
                      FlushTimeout, FlushStep
  <2> QED
    BY <2>1, <2>2
<1> QED
  BY <1>2, <1>3, <1>4 DEF Inv

\* Every step of publishers, promises, producer and Flush preserves the invariant.
LEMMA StepInv == Inv /\ [Next]_vars => Inv'
<1> SUFFICES ASSUME Inv, [Next]_vars PROVE Inv'
  OBVIOUS
<1>1. ASSUME NEW b \in Batch, Call(b) PROVE Inv'
  BY <1>1, PublishBatchInv, TakeSlotInv, GiveUpInv, AddPendingInv, ProduceInv DEF Call
<1>2. ASSUME NEW b \in Batch, LastPromise(b) PROVE Inv'
  BY <1>2, FreeSlotInv, CallDoneInv, ReleaseInv DEF LastPromise
<1>3. ASSUME NEW b \in Batch, NEW i \in Record, Promise(b, i) PROVE Inv'
  BY <1>3, ResolveInv, StoreFailedInv, setErrInv, CountDownInv DEF Promise
<1>4. CASE UNCHANGED vars
  BY <1>4 DEF vars, Inv, Globals, Balanced, Holders, Waited, Surfacing, Flushing
<1> QED
  BY <1>1, <1>2, <1>3, <1>4, ResetInv, FlushInv DEF Next

\* The invariant of the sink holds in every reachable state.
LEMMA SinkInv == Spec => []Inv
  BY InitInv, StepInv, PTL DEF Spec

\* Every reachable state of the sink is well typed: in particular the semaphore
\* and the wait group never go below zero (which panics in Go) nor beyond the
\* configured slots and the calls there are.
THEOREM SinkTypeCorrect == Spec => []TypeOK
<1>1. Inv => TypeOK
  <2> SUFFICES ASSUME Inv PROVE TypeOK
    OBVIOUS
  <2>1. Holders \in SUBSET Batch /\ Waited \in SUBSET Batch
    BY DEF Holders, Waited
  <2>2. slots \in 0..MaxInflight /\ pending \in 0..Cardinality(Batch)
    <3>1. Cardinality(Batch) \in Nat
      BY BatchesFinite
    <3> QED
      BY <2>1, <3>1, BatchesFinite, SinkAssumption DEF Inv, Balanced
  <2> QED
    BY <2>2 DEF Inv, Globals, TypeOK, Calls
<1> QED
  BY <1>1, SinkInv, PTL

\* Once the promises of a failed batch of the run have run, the sticky error is
\* set, whatever other batches, runs and Reset do.
THEOREM FailuresSurface == Spec => []FailureSurfaces
<1>1. Inv => FailureSurfaces
  <2> SUFFICES ASSUME Inv, NEW b \in Batch, call[b].of = run, call[b].failed,
                      call[b].remaining = 0
               PROVE  firstErr # 0
    BY DEF FailureSurfaces
  <2>1. CallInv(call[b]) /\ call[b].last # "none"
    BY DEF Inv, CallInv, Counted
  <2>2. \A i \in Record : call[b].rec[i] = "end"
    BY <2>1, LastPromiseAlone
  <2> QED
    BY <2>2 DEF Inv, Surfacing
<1> QED
  BY <1>1, SinkInv, PTL

----------------------------------------------------------------------------
(* The refinement of SinkContract. *)
InSink(c) == c.pc \in {"add", "produce", "sent"}

\* A batch is never reported twice, so its outcome is one of four.
LEMMA OutcomeIs ==
    ASSUME NEW c, CallInv(c)
    PROVE  Outcome(c) = IF c.dones = 1 THEN "done" ELSE IF c.failed THEN "failed"
                        ELSE IF InSink(c) THEN "sent" ELSE "new"
<1>1. c.dones \in {0, 1} /\ c.failed \in BOOLEAN
  BY DEF CallInv, Calls, Judged
<1>2. CASE c.dones = 1
  BY <1>2 DEF Outcome
<1>3. CASE c.dones = 0 /\ c.failed
  BY <1>3 DEF Outcome
<1>4. CASE c.dones = 0 /\ ~c.failed
  BY <1>4 DEF Outcome, InSink
<1> QED
  BY <1>1, <1>2, <1>3, <1>4

\* A step that rewrites one call changes the mapped outcome, durability and
\* ownership of that batch alone.
LEMMA MappedRewrite ==
    ASSUME Inv, NEW b \in Batch, NEW d, call' = [call EXCEPT ![b] = d],
           run' = run, flush' = flush
    PROVE  /\ [a \in Batch |-> Outcome(call'[a])]
                = [[a \in Batch |-> Outcome(call[a])] EXCEPT ![b] = Outcome(d)]
           /\ [a \in Batch |-> call'[a].onTopic = Record]
                = [[a \in Batch |-> call[a].onTopic = Record] EXCEPT ![b] = (d.onTopic = Record)]
           /\ {a \in Batch : Submitted(a)' /\ call'[a].of = run}
                = {a \in Batch : IF a = b THEN InSink(d) /\ d.of = run
                                 ELSE Submitted(a) /\ call[a].of = run}
<1>1. /\ call \in [Batch -> Calls] /\ call'[b] = d
      /\ \A a \in Batch : a # b => call'[a] = call[a]
  BY DEF Inv, Globals
<1>2. [a \in Batch |-> Outcome(call'[a])]
        = [[a \in Batch |-> Outcome(call[a])] EXCEPT ![b] = Outcome(d)]
  BY <1>1
<1>3. [a \in Batch |-> call'[a].onTopic = Record]
        = [[a \in Batch |-> call[a].onTopic = Record] EXCEPT ![b] = (d.onTopic = Record)]
  BY <1>1
<1>4. \A a \in Batch : Submitted(a)' <=> IF a = b THEN InSink(d) ELSE Submitted(a)
  BY <1>1 DEF Submitted, InSink
<1> QED
  BY <1>1, <1>2, <1>3, <1>4

\* Steps that leave the mapped state of the batch alone are stuttering steps.
LEMMA MappedStutter ==
    ASSUME Inv, NEW b \in Batch, NEW d, call' = [call EXCEPT ![b] = d],
           run' = run, flush' = flush, Outcome(d) = Outcome(call[b]),
           (d.onTopic = Record) = (call[b].onTopic = Record),
           (InSink(d) /\ d.of = run) <=> (InSink(call[b]) /\ call[b].of = run)
    PROVE  UNCHANGED C!contractVars
<1>1. /\ call \in [Batch -> Calls] /\ call'[b] = d
      /\ \A a \in Batch : a # b => call'[a] = call[a]
  BY DEF Inv, Globals
<1>2. /\ \A a \in Batch : Outcome(call'[a]) = Outcome(call[a])
      /\ \A a \in Batch : (call'[a].onTopic = Record) = (call[a].onTopic = Record)
      /\ \A a \in Batch : (Submitted(a)' /\ call'[a].of = run)
                            <=> (Submitted(a) /\ call[a].of = run)
  BY <1>1 DEF Submitted, InSink
<1> QED
  BY <1>2 DEF C!contractVars

\* In particular those that change neither the outcome's fields nor the batch's run.
LEMMA MappedQuiet ==
    ASSUME Inv, Inv', NEW b \in Batch, NEW d, call' = [call EXCEPT ![b] = d],
           run' = run, flush' = flush, d.onTopic = call[b].onTopic,
           d.dones = call[b].dones, d.failed = call[b].failed,
           InSink(d) <=> InSink(call[b]), InSink(d) => d.of = call[b].of
    PROVE  UNCHANGED C!contractVars
<1>1. call \in [Batch -> Calls] /\ call'[b] = d
  BY DEF Inv, Globals
<1>2. CallInv(call[b]) /\ CallInv(d)
  BY <1>1 DEF Inv
<1>3. Outcome(d) = Outcome(call[b])
  BY <1>2, OutcomeIs
<1> QED
  BY <1>3, MappedStutter

\* The calls of PublishBatch: taking the slot is the contract's Submit.
LEMMA CallImplements ==
    ASSUME Inv, Inv', NEW b \in Batch, Call(b)
    PROVE  C!Next \/ UNCHANGED C!contractVars
<1> DEFINE c == call[b]
<1>1. call \in [Batch -> Calls] /\ c \in Calls /\ CallInv(c)
  BY CallFacts
<1>2. run' = run /\ flush' = flush
  BY DEF Call, PublishBatch, TakeSlot, GiveUp, AddPending, Produce
<1>3. CASE PublishBatch(b)
  <2>1. PICK pc \in {"slot", "refused"} : call' = [call EXCEPT ![b].pc = pc, ![b].of = run]
    BY <1>3 DEF PublishBatch
  <2> DEFINE d == [c EXCEPT !.pc = pc, !.of = run]
  <2>2. /\ call' = [call EXCEPT ![b] = d] /\ d.onTopic = c.onTopic
        /\ d.dones = c.dones /\ d.failed = c.failed /\ ~InSink(d) /\ ~InSink(c)
    BY <1>1, <1>3, <2>1 DEF PublishBatch, Calls, InSink
  <2> HIDE DEF d
  <2> QED
    BY <1>2, <2>2, MappedQuiet
<1>4. CASE TakeSlot(b)
  <2> DEFINE d == [c EXCEPT !.pc = "add"]
  <2>1. /\ call' = [call EXCEPT ![b] = d] /\ d.onTopic = c.onTopic /\ d.of = c.of
        /\ d.dones = c.dones /\ d.failed = c.failed /\ InSink(d) /\ ~InSink(c)
        /\ c.pc = "slot"
    BY <1>1, <1>4 DEF TakeSlot, Calls, InSink
  <2> HIDE DEF d
  <2>2. ~c.failed /\ c.dones = 0
    <3>1. \A i \in Record : c.rec[i] # "end"
      BY <1>1, <2>1 DEF CallInv, Produced
    <3>2. 1 \in Record
      BY SinkAssumption DEF Record
    <3> QED
      BY <1>1, <2>1, <3>1, <3>2, OpenPromise DEF CallInv, Judged
  <2>3. CallInv(d)
    BY <1>1, <2>1 DEF Inv
  <2>4. Outcome(c) = "new" /\ Outcome(d) = "sent"
    BY <1>1, <2>1, <2>2, <2>3, OutcomeIs
  <2>5. /\ [a \in Batch |-> Outcome(call'[a])]
             = [[a \in Batch |-> Outcome(call[a])] EXCEPT ![b] = "sent"]
        /\ [a \in Batch |-> call'[a].onTopic = Record]
             = [a \in Batch |-> call[a].onTopic = Record]
        /\ {a \in Batch : Submitted(a)' /\ call'[a].of = run}
             \in {{a \in Batch : Submitted(a) /\ call[a].of = run},
                  {a \in Batch : Submitted(a) /\ call[a].of = run} \cup {b}}
    <3>1. [a \in Batch |-> Outcome(call'[a])]
             = [[a \in Batch |-> Outcome(call[a])] EXCEPT ![b] = "sent"]
      BY <1>1, <2>1, <2>4
    <3>2. [a \in Batch |-> call'[a].onTopic = Record]
             = [a \in Batch |-> call[a].onTopic = Record]
      <4>1. \A a \in Batch : call'[a].onTopic = call[a].onTopic
        BY <1>1, <2>1
      <4> QED
        BY <4>1
    <3>3. {a \in Batch : Submitted(a)' /\ call'[a].of = run}
            = {a \in Batch : IF a = b THEN InSink(d) /\ d.of = run
                             ELSE Submitted(a) /\ call[a].of = run}
      BY <1>2, <2>1, MappedRewrite
    <3>4. ~Submitted(b)
      BY <2>1 DEF Submitted, InSink
    <3> QED
      BY <3>1, <3>2, <3>3, <3>4
  <2>6. C!Submit(b)
    BY <1>2, <2>4, <2>5 DEF C!Submit
  <2> QED
    BY <2>6 DEF C!Next
<1>5. CASE GiveUp(b)
  <2> DEFINE d == [c EXCEPT !.pc = "refused"]
  <2>1. /\ call' = [call EXCEPT ![b] = d] /\ d.onTopic = c.onTopic
        /\ d.dones = c.dones /\ d.failed = c.failed /\ ~InSink(d) /\ ~InSink(c)
    BY <1>1, <1>5 DEF GiveUp, Calls, InSink
  <2> HIDE DEF d
  <2> QED
    BY <1>2, <2>1, MappedQuiet
<1>6. CASE AddPending(b)
  <2> DEFINE d == [c EXCEPT !.pc = "produce"]
  <2>1. /\ call' = [call EXCEPT ![b] = d] /\ d.onTopic = c.onTopic /\ d.of = c.of
        /\ d.dones = c.dones /\ d.failed = c.failed /\ InSink(d) /\ InSink(c)
    BY <1>1, <1>6 DEF AddPending, Calls, InSink
  <2> HIDE DEF d
  <2> QED
    BY <1>2, <2>1, MappedQuiet
<1>7. CASE Produce(b)
  <2>1. PICK i \in Record :
          call' = [call EXCEPT ![b].rec[i] = "buffered",
                               ![b].pc = IF i = Size THEN "sent" ELSE @]
    BY <1>7 DEF Produce
  <2> DEFINE d == [c EXCEPT !.rec = [c.rec EXCEPT ![i] = "buffered"],
                            !.pc = IF i = Size THEN "sent" ELSE c.pc]
  <2>2. /\ call' = [call EXCEPT ![b] = d] /\ d.onTopic = c.onTopic /\ d.of = c.of
        /\ d.dones = c.dones /\ d.failed = c.failed /\ InSink(d) /\ InSink(c)
    BY <1>1, <1>7, <2>1 DEF Produce, Calls, InSink
  <2> HIDE DEF d
  <2> QED
    BY <1>2, <2>2, MappedQuiet
<1> QED
  BY <1>3, <1>4, <1>5, <1>6, <1>7 DEF Call

\* The promises of a batch: the record that makes it durable is the contract's
\* Durable, the first failure its Fail.
LEMMA PromiseImplements ==
    ASSUME Inv, Inv', NEW b \in Batch, NEW i \in Record, Promise(b, i)
    PROVE  C!Next \/ UNCHANGED C!contractVars
<1> DEFINE c == call[b]
<1>1. call \in [Batch -> Calls] /\ c \in Calls /\ CallInv(c)
  BY CallFacts
<1>2. run' = run /\ flush' = flush
  BY DEF Promise, Resolve, StoreFailed, setErr, CountDown
<1>3. c.rec[i] \notin {"none", "end"}
  BY DEF Promise, Resolve, StoreFailed, setErr, CountDown
<1>4. InSink(c) /\ c.dones = 0
  BY <1>1, <1>3, OpenPromise DEF CallInv, Produced, InSink
<1>5. CASE Resolve(b, i)
  <2>1. PICK outcome \in {"count", "err"}, onTopic \in BOOLEAN :
          call' = [call EXCEPT ![b].rec[i] = outcome,
                               ![b].onTopic = IF onTopic THEN @ \cup {i} ELSE @]
    BY <1>5 DEF Resolve
  <2> DEFINE d == [c EXCEPT !.rec = [c.rec EXCEPT ![i] = outcome],
                            !.onTopic = IF onTopic THEN c.onTopic \cup {i} ELSE c.onTopic]
  <2>2. /\ call' = [call EXCEPT ![b] = d] /\ d \in Calls /\ d.pc = c.pc /\ d.of = c.of
        /\ d.dones = c.dones /\ d.failed = c.failed /\ c.onTopic \subseteq d.onTopic
    BY <1>1, <2>1 DEF Calls
  <2> HIDE DEF d
  <2>3. CallInv(d) /\ InSink(d)
    BY <1>1, <1>4, <2>2 DEF Inv, InSink
  <2>4. Outcome(d) = Outcome(c) /\ Outcome(c) # "new"
    BY <1>1, <1>4, <2>2, <2>3, OutcomeIs
  <2>5. CASE (d.onTopic = Record) = (c.onTopic = Record)
    BY <1>2, <1>4, <2>2, <2>3, <2>4, <2>5, MappedStutter
  <2>6. CASE (d.onTopic = Record) # (c.onTopic = Record)
    <3>1. d.onTopic = Record
      BY <1>1, <2>2, <2>6 DEF Calls
    <3>2. \A a \in Batch : a # b => call'[a] = call[a]
      BY <1>1, <2>2
    <3>3. call'[b] = d
      BY <1>1, <2>2
    <3>4. [a \in Batch |-> Outcome(call'[a])] = [a \in Batch |-> Outcome(call[a])]
      BY <2>4, <3>2, <3>3
    <3>5. [a \in Batch |-> call'[a].onTopic = Record]
            = [[a \in Batch |-> call[a].onTopic = Record] EXCEPT ![b] = TRUE]
      BY <3>1, <3>2, <3>3
    <3>6. {a \in Batch : Submitted(a)' /\ call'[a].of = run'}
            = {a \in Batch : Submitted(a) /\ call[a].of = run}
      BY <1>2, <2>2, <3>2, <3>3 DEF Submitted
    <3>7. C!Durable(b)
      BY <1>2, <2>4, <3>4, <3>5, <3>6 DEF C!Durable
    <3> QED
      BY <3>7 DEF C!Next
  <2> QED
    BY <2>5, <2>6
<1>6. CASE StoreFailed(b, i)
  <2> DEFINE d == [c EXCEPT !.rec = [c.rec EXCEPT ![i] = "setErr"], !.failed = TRUE]
  <2>1. /\ call' = [call EXCEPT ![b] = d] /\ d \in Calls /\ d.pc = c.pc /\ d.of = c.of
        /\ d.dones = c.dones /\ d.failed /\ d.onTopic = c.onTopic
    BY <1>1, <1>6 DEF StoreFailed, Calls
  <2> HIDE DEF d
  <2>2. CallInv(d) /\ InSink(d)
    BY <1>1, <1>4, <2>1 DEF Inv, InSink
  <2>3. Outcome(d) = "failed" /\ Outcome(c) = (IF c.failed THEN "failed" ELSE "sent")
    BY <1>1, <1>4, <2>1, <2>2, OutcomeIs
  <2>4. CASE c.failed
    BY <1>2, <1>4, <2>1, <2>2, <2>3, <2>4, MappedStutter
  <2>5. CASE ~c.failed
    <3>1. \A a \in Batch : a # b => call'[a] = call[a]
      BY <1>1, <2>1
    <3>2. call'[b] = d
      BY <1>1, <2>1
    <3>3. [a \in Batch |-> Outcome(call'[a])]
            = [[a \in Batch |-> Outcome(call[a])] EXCEPT ![b] = "failed"]
      BY <2>3, <3>1, <3>2
    <3>4. [a \in Batch |-> call'[a].onTopic = Record]
            = [a \in Batch |-> call[a].onTopic = Record]
      <4>1. \A a \in Batch : call'[a].onTopic = call[a].onTopic
        BY <2>1, <3>1, <3>2
      <4> QED
        BY <4>1
    <3>5. {a \in Batch : Submitted(a)' /\ call'[a].of = run'}
            = {a \in Batch : Submitted(a) /\ call[a].of = run}
      BY <1>2, <2>1, <3>1, <3>2 DEF Submitted
    <3>6. C!Fail(b)
      BY <1>2, <2>3, <2>5, <3>3, <3>4, <3>5 DEF C!Fail
    <3> QED
      BY <3>6 DEF C!Next
  <2> QED
    BY <2>4, <2>5
<1>7. CASE setErr(b, i)
  <2> DEFINE d == [c EXCEPT !.rec = [c.rec EXCEPT ![i] = "count"]]
  <2>1. /\ call' = [call EXCEPT ![b] = d] /\ d.onTopic = c.onTopic /\ d.of = c.of
        /\ d.dones = c.dones /\ d.failed = c.failed /\ (InSink(d) <=> InSink(c))
    BY <1>1, <1>7 DEF setErr, Calls, InSink
  <2> HIDE DEF d
  <2> QED
    BY <1>2, <2>1, MappedQuiet
<1>8. CASE CountDown(b, i)
  <2> DEFINE d == [c EXCEPT !.rec = [c.rec EXCEPT ![i] = "end"],
                            !.remaining = c.remaining - 1,
                            !.last = IF c.remaining = 1 THEN "free" ELSE c.last]
  <2>1. /\ call' = [call EXCEPT ![b] = d] /\ d.onTopic = c.onTopic /\ d.of = c.of
        /\ d.dones = c.dones /\ d.failed = c.failed /\ (InSink(d) <=> InSink(c))
    BY <1>1, <1>8 DEF CountDown, Calls, InSink
  <2> HIDE DEF d
  <2> QED
    BY <1>2, <2>1, MappedQuiet
<1> QED
  BY <1>5, <1>6, <1>7, <1>8 DEF Promise

\* The last promise: calling done is the contract's Done.
LEMMA LastPromiseImplements ==
    ASSUME Inv, Inv', NEW b \in Batch, LastPromise(b)
    PROVE  C!Next \/ UNCHANGED C!contractVars
<1> DEFINE c == call[b]
<1>1. call \in [Batch -> Calls] /\ c \in Calls /\ CallInv(c)
  BY CallFacts
<1>2. run' = run /\ flush' = flush
  BY DEF LastPromise, FreeSlot, CallDone, Release
<1>3. CASE FreeSlot(b)
  <2> DEFINE d == [c EXCEPT !.last = IF c.failed THEN "release" ELSE "done"]
  <2>1. /\ call' = [call EXCEPT ![b] = d] /\ d.onTopic = c.onTopic /\ d.of = c.of
        /\ d.dones = c.dones /\ d.failed = c.failed /\ (InSink(d) <=> InSink(c))
    BY <1>1, <1>3 DEF FreeSlot, Calls, InSink
  <2> HIDE DEF d
  <2> QED
    BY <1>2, <2>1, MappedQuiet
<1>4. CASE CallDone(b)
  <2> DEFINE d == [c EXCEPT !.dones = c.dones + 1, !.last = "release"]
  <2>1. /\ call' = [call EXCEPT ![b] = d] /\ d.pc = c.pc /\ d.of = c.of
        /\ d.dones = c.dones + 1 /\ d.failed = c.failed /\ d.onTopic = c.onTopic
        /\ c.last = "done"
    BY <1>1, <1>4 DEF CallDone, Calls
  <2> HIDE DEF d
  <2>2. ~c.failed /\ c.dones = 0 /\ InSink(c)
    BY <1>1, <2>1, LastPromiseAlone DEF CallInv, Judged, InSink
  <2>3. c.onTopic = Record
    <3>1. \A i \in Record : c.rec[i] = "end"
      BY <1>1, <2>1, LastPromiseAlone
    <3>2. \A i \in Record : i \in c.onTopic
      BY <1>1, <2>2, <3>1 DEF CallInv, Judged
    <3>3. c.onTopic \subseteq Record
      BY <1>1 DEF Calls
    <3> QED
      BY <3>2, <3>3
  <2>4. /\ \A a \in Batch : a # b => call'[a] = call[a]
        /\ call'[b] = d /\ CallInv(d)
    BY <1>1, <2>1 DEF Inv
  <2>5. Outcome(c) = "sent" /\ Outcome(d) = "done"
    BY <1>1, <2>1, <2>2, <2>4, OutcomeIs
  <2>6. [a \in Batch |-> Outcome(call'[a])]
          = [[a \in Batch |-> Outcome(call[a])] EXCEPT ![b] = "done"]
    BY <2>4, <2>5
  <2>7. [a \in Batch |-> call'[a].onTopic = Record]
          = [a \in Batch |-> call[a].onTopic = Record]
    <3>1. \A a \in Batch : call'[a].onTopic = call[a].onTopic
      BY <2>1, <2>4
    <3> QED
      BY <3>1
  <2>8. {a \in Batch : Submitted(a)' /\ call'[a].of = run'}
          = {a \in Batch : Submitted(a) /\ call[a].of = run}
    BY <1>2, <2>1, <2>4 DEF Submitted
  <2>9. C!Done(b)
    BY <1>2, <2>3, <2>5, <2>6, <2>7, <2>8 DEF C!Done
  <2> QED
    BY <2>9 DEF C!Next
<1>5. CASE Release(b)
  <2> DEFINE d == [c EXCEPT !.last = "end"]
  <2>1. /\ call' = [call EXCEPT ![b] = d] /\ d.onTopic = c.onTopic /\ d.of = c.of
        /\ d.dones = c.dones /\ d.failed = c.failed /\ (InSink(d) <=> InSink(c))
    BY <1>1, <1>5 DEF Release, Calls, InSink
  <2> HIDE DEF d
  <2> QED
    BY <1>2, <2>1, MappedQuiet
<1> QED
  BY <1>3, <1>4, <1>5 DEF LastPromise

\* Flush returns nil only when no promise of the run is left to run and none of
\* them failed: every batch of the run has been reported.
LEMMA FlushImplements ==
    ASSUME Inv, HardCancel \/ Flush \/ FlushClient \/ FlushWait \/ FlushErr
                  \/ FlushTimeout
    PROVE  C!Next \/ UNCHANGED C!contractVars
<1>1. UNCHANGED <<run, call>>
  BY DEF HardCancel, Flush, FlushClient, FlushWait, FlushErr, FlushTimeout, FlushStep
<1>2. /\ [a \in Batch |-> Outcome(call'[a])] = [a \in Batch |-> Outcome(call[a])]
      /\ [a \in Batch |-> call'[a].onTopic = Record]
           = [a \in Batch |-> call[a].onTopic = Record]
      /\ {a \in Batch : Submitted(a)' /\ call'[a].of = run'}
           = {a \in Batch : Submitted(a) /\ call[a].of = run}
  BY <1>1 DEF Submitted
<1>3. CASE flush' \notin {"ok", "err"} \/ flush' = flush
  <2>1. (IF flush' \in {"ok", "err"} THEN flush' ELSE "no")
          = (IF flush \in {"ok", "err"} THEN flush ELSE "no")
    BY <1>3 DEF HardCancel, Flush, FlushClient, FlushWait, FlushErr, FlushTimeout, FlushStep
  <2> QED
    BY <1>2, <2>1 DEF C!contractVars
<1>4. CASE flush' \in {"ok", "err"} /\ flush' # flush
  <2>1. flush \notin {"ok", "err"} /\ (flush' = "ok" => flush = "read" /\ firstErr = 0)
    BY <1>4 DEF HardCancel, Flush, FlushClient, FlushWait, FlushErr, FlushTimeout, FlushStep
  <2>2. ASSUME flush' = "ok", NEW b \in Batch, Submitted(b), call[b].of = run
        PROVE  Outcome(call[b]) = "done"
    <3>1. CallInv(call[b]) /\ call[b].last = "end"
      BY <2>1, <2>2 DEF Inv, Flushing, Submitted
    <3>2. \A i \in Record : call[b].rec[i] = "end"
      BY <3>1, LastPromiseAlone
    <3>3. ~call[b].failed
      BY <2>1, <2>2, <3>2 DEF Inv, Surfacing
    <3>4. call[b].dones = 1
      BY <3>1, <3>3 DEF CallInv, Judged
    <3> QED
      BY <3>1, <3>4, OutcomeIs
  <2>3. C!FlushReturns
    BY <1>2, <1>4, <2>1, <2>2 DEF C!FlushReturns
  <2> QED
    BY <2>3 DEF C!Next
<1> QED
  BY <1>3, <1>4

\* Reset starts a run that owns no batch yet, whatever earlier runs left behind.
LEMMA ResetImplements ==
    ASSUME Inv, Reset
    PROVE  C!Next
<1>1. call' = call /\ flush' = "no" /\ run' = run + 1
  BY DEF Reset
<1>2. \A b \in Batch : call[b].of # run'
  <2>1. run \in Nat /\ \A b \in Batch : call[b].of \in Nat /\ call[b].of <= run
    BY DEF Inv, Globals, Calls
  <2> QED
    BY <1>1, <2>1
<1>3. {a \in Batch : Submitted(a)' /\ call'[a].of = run'} = {}
  BY <1>1, <1>2
<1>4. C!NewRun
  BY <1>1, <1>3 DEF C!NewRun
<1> QED
  BY <1>4 DEF C!Next

\* Every step of the sink is a step of its contract or invisible to it.
LEMMA StepImplements == Inv /\ Inv' /\ [Next]_vars => [C!Next]_C!contractVars
<1> SUFFICES ASSUME Inv, Inv', [Next]_vars PROVE C!Next \/ UNCHANGED C!contractVars
  OBVIOUS
<1>1. ASSUME NEW b \in Batch, Call(b) PROVE C!Next \/ UNCHANGED C!contractVars
  BY <1>1, CallImplements
<1>2. ASSUME NEW b \in Batch, LastPromise(b) PROVE C!Next \/ UNCHANGED C!contractVars
  BY <1>2, LastPromiseImplements
<1>3. ASSUME NEW b \in Batch, NEW i \in Record, Promise(b, i)
      PROVE  C!Next \/ UNCHANGED C!contractVars
  BY <1>3, PromiseImplements
<1>4. CASE UNCHANGED vars
  BY <1>4 DEF vars, C!contractVars, Submitted
<1> QED
  BY <1>1, <1>2, <1>3, <1>4, FlushImplements, ResetImplements DEF Next

\* The sink keeps the contract of hyperloop.Sink: done exactly once, for durable
\* batches only and before Flush returns nil, for any number of batches,
\* records, slots and runs.
THEOREM SinkKeepsContract == Spec => ImplementsContract
<1>1. Init => C!Init
  <2> SUFFICES ASSUME Init PROVE C!Init
    OBVIOUS
  <2>1. /\ \A b \in Batch : call[b] = NewCall
        /\ flush = "no"
    BY DEF Init
  <2>2. Outcome(NewCall) = "new" /\ NewCall.onTopic # Record /\ NewCall.pc = "new"
    BY NewCallInv, OutcomeIs, SinkAssumption DEF NewCall, InSink, Record
  <2>3. [b \in Batch |-> call[b].onTopic = Record] = [b \in Batch |-> FALSE]
    BY <2>1, <2>2
  <2> QED
    BY <2>1, <2>2, <2>3 DEF C!Init, Submitted
<1> QED
  BY <1>1, StepImplements, SinkInv, PTL DEF Spec, ImplementsContract, C!Spec
=============================================================================
